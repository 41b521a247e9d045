--------------------------- MODULE MCFlashConfig ----------------------------
(* Small instances of FlashConfig: a few bytes of two values.              *)
EXTENDS FlashConfig

CONSTANTS v1, v2

TwoValues == {v1, v2}
=============================================================================
