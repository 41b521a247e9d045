---------------------------- MODULE MCAdminRing -----------------------------
(* A small instance of AdminRing: 3 usable rows of 2 chunks.               *)
EXTENDS AdminRing

Lines    == {"text", "crlf"}              \* whole commands and pieces of commands
AnyBytes == {"nul", "text", "lf", "crlf"} \* memory ahead of uart1_buf is unknown
=============================================================================
