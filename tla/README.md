# The firmware "oled" in TLA+

This directory is the verification project of the firmware in `src/`: an
STM32F407 board with FreeRTOS, an admin port on USART1, five W5500 Ethernet chips
on SPI1, an OLED display, and a configuration kept in on-chip flash. It holds
TLA+ modules translated from the source, TLC configurations that check small
instances of them, and proofs for the TLA+ proof system (TLAPS) that hold for
every value of the constants.

Contents

1. [The system](#1-the-system)
2. [The modules and the code](#2-the-modules-and-the-code)
3. [What the runs check](#3-what-the-runs-check)
4. [Bounds](#4-bounds)
5. [Fairness and deadlock](#5-fairness-and-deadlock)
6. [What is proved](#6-what-is-proved)
7. [What the code does otherwise than it says](#7-what-the-code-does-otherwise-than-it-says)
8. [What is not modelled](#8-what-is-not-modelled)
9. [Plan](#9-plan)
10. [How to run it](#10-how-to-run-it)

## 1. The system

The firmware's own code is in `Src/` and `Inc/`, and in the adapted WIZnet driver
under `Hardwares/W5500/Ethernet/`. The project file `EWARM/oled.ewp` says what is
built: these, the loopback application, the HAL and FreeRTOS, and not the audio
transmitter, the Internet services, the drivers of other WIZnet chips, FatFs or
CMSIS-DSP, which lie in the tree all the same.

Everything runs in eight tasks created in `Src/freertos.c` and in interrupt
handlers, which all have priority 5 and so never interrupt one another.
`ethInitTask` has realtime priority, the others normal priority.

### Admin port, reception

*State*: the ten rows of `uart1_buf`, the pointer `uart_buf` to the row of the next
reception, the receive DMA stream, the IDLE interrupt enable of USART1, the
five-place queue `qUart1`.
*Operations*: the DMA stores bytes in a row; at the end of a line the IDLE interrupt
(`My_HAL_UART_IdleCallback`) looks at the last two bytes, posts a row that ends in CR
LF to the queue, moves `uart_buf` on and aborts the DMA; the transfer-complete
interrupt restarts it on the next row; `uart1Task` takes rows from the queue and
parses them.
*Hard*: nothing marks a row as in use, only the length of the queue against the
number of rows keeps the DMA off a command that waits or is being parsed; bytes
arrive while the handler runs; the restart fails when a task holds the handle, and
nothing restarts a stream that stopped on a transfer error.
*Correct when*: a row is not written from the time it is posted until it is parsed;
commands are parsed in the order they came, each once; the end of a line is
always noticed; reception stops for no other reason than those two.

### Admin port, transmission, and the handle `huart1`

*State*: `huart1.State`, `huart1.Lock`, `huart1.ErrorCode`, the buffer `txbuf`, the
transmit stream.
*Operations*: `uart1Task` echoes commands, `ethInitTask` prints with `printk`; both
format into `txbuf`, call `HAL_UART_Transmit_DMA` and spin on `State`. Interrupts end
transmissions and receptions, and restart receptions, by writing `State` too; an error
of a DMA stream makes the handle ready whatever the other stream is doing.
*Hard*: `State` is read, tested and written in separate instructions; the lock is
tested and set in two; the tasks have different priorities, and one of them spins.
*Correct when*: `State` agrees with the streams; one user at a time; a text is not
overwritten while it is sent; the loops end.

### W5500 register access over SPI1

*State*: the chip select lines, `wizchip_last_cs_channel`, `gW5500_ch_sel`,
`hspi1.State`, the two DMA streams, the semaphores `semW5500TxCplt` and
`semW5500RxCplt`.
*Operations*: a register access is a frame: select a chip, one or two bursts or a
polled byte, deselect. After it starts a burst the task waits on the semaphore that
the completion callback releases.
*Hard*: binary semaphores are created with their token in them; a read burst runs
the transmit stream as well, whose callback is left in the handle from the burst
before; a DMA error releases nothing.
*Correct when*: a frame that is closed is whole and only one chip saw it; a wait ends
because of its own burst and not of an earlier one; every frame ends.

### Chip interrupts and the Ethernet tasks

*State*: the EXTI pending bits, `semEth0Int` to `semEth4Int`, `semEthSpiIdle`.
*Operations*: a falling edge on the line of a chip releases its semaphore from the
EXTI handler; `eth0TransTask` and `eth1TransTask` wait for their chip and then for the
bus; `MX_FREERTOS_Init` creates the semaphores and takes some of the tokens out.
*Hard*: edges come before the semaphores exist, while interrupts are masked, and
faster than the task wakes.
*Correct when*: no edge is forgotten, no task wakes without one, a task that has
woken gets the bus.

### Configuration in flash

*State*: `SystemConfig` in memory and its copy in flash sector 11.
*Operations*: `main` sets defaults and then reads the flash over them; setting commands
change memory; SAVE erases the sector and programs it byte by byte.
*Hard*: the power may go at any step, erase and programming may fail, and flash
cells can be cleared only.
*Correct when*: what SAVE answered OK for is in flash and comes back at the next
start; the flash never holds a mixture of two configurations.

### Command parser and executor

*State*: `SystemConfig`, of which a command changes an address or the MAC; `command` and
`para`, the two buffers a row is split into.
*Operations*: `ParseCommand` copies the name up to a separator and the parameter behind
it, `ExcuteCommand` looks the name up, and for a setting `ConvertIP` (with `ValidateIPv4`)
or `ConvertMac` converts the parameter.
*Hard*: the loops and length checks at the limits of the two buffers; the end of the
line belongs to the parameter; `sscanf` with widths, where a fourth number too long or a
character too many is a tail; settings that answer OK although the value was rejected.
*Correct when*: an address is stored exactly when the line has one that fits, and a
line that is not a setting changes nothing.

### Socket library and loopback

*State*: in the chip, for each socket, the status `Sn_SR`, the command register `Sn_CR`,
the interrupts `Sn_IR`, and two ring buffers with 16-bit pointers; in the driver
`sock_is_sending`, one bit for each socket; in `loopback_tcps` a buffer and the sizes
read, sent and to be sent.
*Operations*: `socket`, `listen`, `connect`, `recv`, `send`, `recvfrom`, `sendto`,
`disconnect` and `close`, each a few register accesses around a command and loops that
wait on `Sn_CR`, `Sn_SR`, `Sn_IR` or a size; `loopback_tcps`, `loopback_tcpc` and
`loopback_udps`, called again and again, look at the status and do the next step of an
echo server, of a client that echoes, and of an echo server for datagrams. For these
`sock_remained_size` counts what is left of a datagram read in part. `socket.c` and `loopback.c` are built but no task calls them
yet, as the two Ethernet tasks stop at taking the bus.
*Hard*: the chip and the peer go on between any two accesses. A 16-bit size is two
accesses, and changes between them; a command is accepted long before it is done; a
second SEND may not be given before the first is completed; a connection is reset, closed
or timed out while the driver is inside a loop, and the next one finds what it left. A
status may come and go between two readings. The header of a datagram is wherever the one
before ended, by the driver's own count.
*Correct when*: bytes come back once and in order and none is forgotten; nothing is
copied beyond a buffer or over bytes not yet sent; one SEND at a time; every call
returns; a datagram goes back to its sender and blocks no other.

### OLED

*State*: a frame buffer. *Operations*: drawing and the transfer of the buffer to the
display, in one task, once, with constant arguments. *Hard*: loops with 8-bit counters
up to an inclusive limit. Not modelled (section 8).

### How they interact

| From | To | By |
| --- | --- | --- |
| USART1 and DMA interrupts | `uart1Task` | rows of `uart1_buf`, queue `qUart1` |
| `uart1Task`, `ethInitTask`, interrupts | the admin port | `huart1`, `txbuf` |
| `uart1Task` | flash | `SaveConfiguration` |
| `ethInitTask` | W5500 chips | SPI1, and its DMA interrupts by semaphores |
| W5500 chips | `eth0TransTask`, `eth1TransTask` | EXTI interrupts, semaphores |
| `ethInitTask` | admin port | `printk` between the frames |
| `uart1Task` | `SystemConfig` | `ParseCommand`, `ExcuteCommand` |
| the loops of `loopback.c` | W5500 chip and its peer | `socket.c`, by registers and commands of a socket |

## 2. The modules and the code

Definitions carry the names of the functions, variables and macros they stand for
where TLA+ allows it; `PROJECT.json` maps each to its lines. Definitions that end in
`_Something` just above the definition they resemble are faulty variants of it; no
specification uses them, they show that the properties notice such a fault.

| Module | Models | Proofs |
| --- | --- | --- |
| `AdminRing` | reception: `usart_common.c`, its interrupt handlers in `stm32f4xx_it.c`, `StartTaskUart1`, the HAL and queue calls on the path | `AdminRingProofs` |
| `AdminMailbox` | what reception promises: a bounded mailbox | refinement in `AdminRingProofs` |
| `UartHal` | `huart1` and `txbuf`: `UART_TransmitContent`, `printk`, `HAL_UART_Transmit_DMA`, `HAL_UART_Receive_DMA`, the UART interrupts | `UartHalProofs` |
| `SpiBus` | frames to the W5500: `w5500.c`, `wizchip_conf.c`, the SPI and DMA drivers, the completion callbacks | `SpiBusProofs` |
| `FlashConfig` | `configuration_manager.c`, SAVE and the setting commands, the start in `main` | `FlashConfigProofs` |
| `EthTasks` | EXTI handlers, semaphores, `MX_FREERTOS_Init`, `eth0TransTask`, `eth1TransTask` | `EthTasksProofs` |
| `Socket` | one socket and its driver under `loopback_tcps`: `socket.c`, `loopback.c`, the chip and the peer | `SocketProofs` |
| `SocketBuffers` | the rings of a socket: `getSn_RX_RSR`, `getSn_TX_FSR`, `wiz_recv_data`, `wiz_send_data` | `SocketBuffersProofs` |
| `SocketClient` | the same socket with `loopback_tcpc` and `connect` as well | `SocketProofs` |
| `Udp` | `loopback_udps` with `recvfrom` and `sendto` on an open socket | `UdpProofs` |
| `EchoPipe` | what an echo server promises its peer | refinement in `SocketBuffersProofs` |
| `DatagramEcho` | what an echo server for datagrams promises | refinement in `UdpProofs` |
| `CommandParser` | a command line and what it does to `SystemConfig`: `admin_interface.c` | `FlashConfigProofs` |
| `MC...` | the small instance of each | |

### AdminRing

A row is `Depth` cells. A cell holds one chunk, a run of at least two bytes told
apart only by how it ends (`"text"`, `"lf"`, `"crlf"`, or `"nul"` for memory never
written), because the handler looks at nothing but the last two bytes. `dma` is the
receive stream: whether it is enabled, the row its memory address points into and the
cells it has filled. `tcif` is its pending transfer-complete interrupt. `line` holds
whether bytes have come since the last idle frame, the IDLE flag and its enable bit.

Handlers run to their end before a task or the other handler moves, but the
hardware receives on. So the IDLE handler is two steps, `IdleCallback` and `IdleAbort`,
around the call of `HAL_DMA_Abort`: between them the stream still writes to the row
just posted. With no byte counted the handler reads the two bytes ahead of the row,
which is what `LastChunk` says; ahead of row 0 lies other memory, of which only a set
of possible contents is assumed (`Ahead`). A full queue drops the command and reuses
its row. `USART_Start_Receive_DMA` does nothing to the stream when `huart1` is locked,
and does not look at that result.

`TransferError` is the other way in which a stream stops. `HAL_DMA_IRQHandler` calls
`UART_DMAError` then, which notes the error and makes `huart1` ready; no transfer is
complete, so nothing restarts the stream, and `failed` remembers it (history). A FIFO
error calls the same handlers and leaves the stream running, so that it changes nothing
this module has.

`uart1Task` is at `"init"`, `"arm"`, between the start of the first reception and the
enabling of IDLE, `"wait"`, `"parse"`, `"exec"`, or `"xmit"`, inside
`HAL_UART_Transmit_DMA`. At `"arm"` and `"xmit"` it holds `Lock`. `ethInitTask` holds it
from `PrintkLock` to `PrintkUnlock`, at any point of `uart1Task` that does not hold it,
and `uart1Task` does not move meanwhile (`Runs`); what else happens when both tasks use
the handle is `UartHal`. ParseCommand's verdict is a choice.

The row count is `MAX_COUNT`, of which rows 0 to `MAX_COUNT - 2` are used, as the wrap
in the code has it. The assumption `MAX_COUNT >= QLen + 3` is what the code has to
spare: the firmware's values are 10 and 5.

`ImplementsMailbox` is the refinement. `box` is the contents of the rows in `qUart1`,
except a row just posted while the stream may still write to it; `hand` is the row
being parsed. That these rows change only by being put at the back, taken from the
front and finished is what `AdminMailbox` says.

### UartHal

A step of a task is one access to something somebody else uses too: the text in
`txbuf`, the test of `State` (`Enter`), the test of `Lock` and its setting, which
`__HAL_LOCK` does one after the other (`TestLock`, `SetLock`), the clearing of
`ErrorCode`, the read of `State` at `stm32f4xx_hal_uart.c:934`, its write, the start of
the stream, the unlock, the loop. `HAL_UART_Receive_DMA`, with which `uart1Task` begins,
is the same steps for the other half of `State` and the other stream: a task that has no
text yet (`Receives`) is in that call. Interrupts come between any two steps, and
`ethInitTask` between any two of `uart1Task`. Nothing makes the test and the setting of
`Lock` one step; that they exclude two holders is `HandleExclusive`, and it rests on the
priorities. The scheduler is `Runs`: while `ethInitTask`
is not blocked on the SPI bus (`"spi"`) or gone, `uart1Task` does not move, also when
`ethInitTask` spins. `out` records what the running or last transmission put on the
wire; a text that is overwritten while it is sent is `Mixed`.

`TransmitError` and `ReceiveError` are an error of a stream, at any moment at which it
runs: a transfer error stops it, a FIFO error does not. Either makes the handle ready and
sets `ErrorCode` (`DMAError`), also while the other stream runs or a task is inside a HAL
call, and releases the lock of the stream's own handle. What follows is modelled too.
`HAL_UART_IRQHandler` makes the handle ready again after each of its interrupts until the
next HAL call clears `ErrorCode` (`EndTransmit_IT`, `IdleAfterError`). A call that finds
the transmit stream still running starts nothing (`StreamBusy`), or, if the error has
released the stream, disables it, which raises a transfer complete of its own
(`CutShort`, `Restart`).

### SpiBus

A burst is moved as a whole and its contents are left out. What is kept is what the
waiting depends on: for each stream its lock, whether it is enabled, a pending
interrupt and whether a completion callback is set; the state of the handle; the
tokens; and `onWire`, the parts of the frame that the selected chips have seen. The
handler of the receive stream goes first when both are pending, as its number is
lower, and the task goes on when none is. `DMAError` is a transfer error of either
stream at any moment.

### FlashConfig

`SystemConfig` has `Size` bytes. A byte of flash is a value, `Erased`, or `Torn`: bits
of several writings. `Program` is one turn of the loop in `SaveConfiguration`. Power
goes between any two steps, and also in the middle of an erase (any set of bytes torn)
or of the programming of a byte. A flash operation may fail with any such effect.
`saved` and `source` are history: the configuration last answered OK, and the one the
last erase made room for. The start covers the copying of the defaults and of the
flash in one step, because nothing else runs then. `Set` is a setting command: it
changes any bytes of the configuration, an address, the MAC or none. That the commands
do no more than that is `CommandIsSet` of `FlashConfigProofs`.

### EthTasks

Edges may come from `MX_GPIO_Init` on. In phase `"hal"` the EXTI interrupts are enabled
and the semaphores do not exist, so a handler runs into `configASSERT` (`"hung"`); from
the first call of FreeRTOS to the start of the scheduler they are masked. `unseen` is
history: an edge came since the task of the chip last woke. `eth2TransTask` to
`eth4TransTask` only sleep and have no place in the model.

### Socket

`pc` is where the firmware is: the command whose acceptance it waits for, or the register
it reads next. A step is one access to a register that the chip changes, so that a
status read in `recvSR` may be history in `recvData`. The data bytes are counted only:
`got` are read by `recv`, `put` are given to SEND.

The chip is not in `src/`; its behaviour is what `w5500.h` says of its registers and what
the driver relies on. `Accept` clears `Sn_CR`; a RECV or SEND moves the pointers then,
what any other command does to the status comes later in `Execute` (`w5500.h:434-443`:
when `Sn_CR` is zero the command may still be in process). A time-out is two steps too,
the interrupt and the close of the socket. The peer connects, sends, closes its side
(`Fin`), acknowledges, resets (`Gone`). A new connection finds the driver where the last
one left it, because `loopback_tcps` may be inside any call when it comes; only `OPEN`
resets the counts.

One socket of one chip is modelled, in block mode, as `loopback_tcps` opens it. `recv` is
called with data there, so that its wait loop is left at the first reading, and a server
never reaches FIN_WAIT, since it disconnects only in CLOSE_WAIT.

### SocketBuffers

The same calls with bytes in them, while the connection is open. A byte is the number it
has in the peer's stream, and a pointer has two bytes of `Byte` values each. The pointers
that the driver writes, `Sn_RX_RD` and `Sn_TX_WR`, count for the chip only from the next
command on: `rxOut` and `txEnd` are the chip's copies. A size is read in four accesses,
`ReadHigh1` to `ReadLow2`, the second pair only when the first reading is not zero, and
again until two readings agree. The wait for SENDOK is in `Socket` and left out here, so
that `send` comes earlier than it may, which is the harder case for the buffer.
`ImplementsPipe` hides everything but the bytes that came and those acknowledged.

### SocketClient

`SocketClient` extends `Socket`: each call is one of `loopback_tcps` or of `loopback_tcpc`,
whose `recv`, `send`, `disconnect` and `close` are the same; a server alone and a client
alone are the cases where only one is called. `connect` takes the place of `listen`. A CONNECT is in process in
`doing` until the request goes out (`SynSent`); then the peer accepts it, refuses it, or
says nothing until the chip gives up, in two steps as any time-out. `after` is
`"reopen"` while `loopback_tcpc` closes the socket before `socket` closes it once more. The
port is left out: `any_port` is 50000 at every call.

### Udp

The receive buffer is a stream in which each datagram is a header of eight bytes and its
bytes; a place in it names a byte, and `arrived` says where each datagram lies. What the
driver takes for a header is `Headers`: the one that is there, or anything if none is.
`dest` stands for address and port. They are fresh locals, so a call of `loopback_udps`
starts with any. A sender in `Portless` has port or address zero, which `sendto` refuses.
Of the chip it is assumed that a datagram shows in `Sn_RX_RSR` as a whole, that one
without room is dropped, that a SEND ends with SENDOK or, when nobody answers for the
address, TIMEOUT, and that its room is free then. The socket stays open: how one is opened is in `Socket`, and nothing but the firmware closes one for datagrams.

`ImplementsEcho` is the refinement of `DatagramEcho`: `Handled` is the place in the stream up
to which everything is sent or given up, `Part` the bytes whose SEND is under way.

### CommandParser

A line is a name, a separator and a parameter. A field of an address is a count of digits
and a value; the count is what `%3u` and the length check see, the value what the check
against 255 sees. A MAC is the set of places with a colon and one value for its bytes.
`Tail` is what `%s` finds behind the fourth number. `IS_MAC` looks at the first four of
five colons. CELL and SAVE are in `FlashConfig`. `settings` stands for what the commands change of
`SystemConfig`, by name; the specification is `ParserSpec`, as `FlashConfigProofs` extends
this module and `FlashConfig`. The parameter is not longer than `para`,
and what `sscanf` writes beyond its places (32 bits into an `uint16_t`) is what the numbers
that follow write over, except behind the last one.

## 3. What the runs check

Runs that pass:

| Run | Shows |
| --- | --- |
| `AdminRing_safety` | With a one-place queue and rows of two chunks, in every order of bytes, idle lines, transfer errors, interrupts and steps of two tasks: the row being received into is neither waiting nor being parsed (`RowsDisjoint`), IDLE is armed while the stream receives (`IdleArmed`), the ring is a mailbox (`ImplementsMailbox`), reception dies only in a transfer-complete interrupt that hits a task inside a HAL call, or of a transfer error (`RxDeathHasCause`), and the task comes back to parse what is posted although handlers keep interrupting, also once reception has died (`PostedIsParsed`). |
| `UartHal_safety` | Two tasks, the interrupts of the handle and DMA errors at any moment. Whatever fails, `State` tells of no transmission that is not there (first half of `StateTellsTx`), the handle is locked exactly in a HAL call and by one task, although the lock is tested in one step and set in another (`HandleExclusive`), and an echo returns (`EchoEnds`). Until the first error `State` tells every transmission and a running receiver (second half of `StateTellsTx`, `StateTellsRx`), and while only `uart1Task` sends, `txbuf` is stable while it is sent (`TxbufStable`) and an echo is out whole when the call returns (`EchoSentAlone`). |
| `SpiBus_safety` | Frames to two of five chips with a DMA error anywhere: a frame that is closed is whole and one chip saw it (`FrameWhole`), nothing is left for the next burst (`NoLeftovers`), a token is for the one who waits (`TokenIsForWaiter`), and without an error frames end (`FrameEnds`). |
| `FlashConfig_safety` | Settings, saves, restarts, failures and losses of power: what was answered OK is in flash while nothing has failed (`SavedIsKept`) and a restart brings it back (`RestartRestores`); after an erase that succeeded the flash never mixes configurations, whatever fails (`OneConfiguration`). |
| `EthTasks_safety` | Edges on five lines before, during and after the start of FreeRTOS: none is lost (`NoEdgeLost`), `eth0TransTask` wakes on nothing else (`Eth0WakesOnEdge`), a task with an edge wakes (`EdgeWakes`). |
| `SocketBuffers_safety` | Sizes read in bytes while they change are never too large, so that copies stay in the buffers (`InBounds`); across the wraps of rings and pointers bytes come back once and in order (`ImplementsPipe`), and all of them come back (`EchoArrives`). |
| `SocketClient_safety` | An echo server and a client that echoes, over connections that come, send, close, reset, time out, are refused or ignored at any access of the driver: no SEND is given while another is under way or its SENDOK waits (`OneSendAtATime`), partial and busy sends lose and repeat nothing (`OwedIsLeft`), what `send` waits for always shows in a register (`SendIsAnswered`), `connect` takes no time-out of an earlier request or connection for its own (`TimeoutIsOwn`), and every call returns, unless it is the `connect` of section 7 (`ReturnsUnlessHalfClosed`). |
| `Udp_safety` | Datagrams smaller and larger than the buffer of `loopback_udps`, and replies larger than a SEND: headers are found (`HeadersAreHeaders`), datagrams are answered in the order they came, each byte at most once, in order and never together with one of another datagram (`ImplementsEcho`), a datagram that fits goes back to its sender whatever `destip` and `destport` held (`ReplyToSender`), a SEND starts with none under way and no interrupt left (`SendWaitsForOwn`), every datagram leaves the chip (`DatagramsLeave`) and all that can be answered are (`DatagramsAnswered`). |
| `CommandParser_safety` | For every line made of the instance's fields: an address is replaced if and only if the line sets it to an IPv4 address that fits into 15 characters with the end of the line (`StoredIffFits`). |

Every module but `CommandParser` and the three abstract ones has its type invariant `TypeOK`.
It is in the runs of `AdminRing`, `SocketClient` (for `Socket` too), `SocketBuffers` and
`Udp`, where a fault of the code breaks it, and it is proved for these and for `UartHal`,
`SpiBus`, `FlashConfig` and `EthTasks` (section 6). Runs that TLC is meant to find violated
are in section 7.

## 4. Bounds

| Run | Bound | Why it is enough |
| --- | --- | --- |
| `AdminRing_safety` | `MAX_COUNT` 4 (3 rows used), `QLen` 1, `Depth` 2; chunks of text and whole commands; any bytes ahead of the buffer | The tightest ring the assumption allows: a row received into, one waiting, one being parsed. Two cells tell a row filled by its last chunk from one ended by IDLE, and a remainder of an older line. That several rows waiting are taken in order is proved for every `QLen`. |
| `UartHal_safety` | `Printks` 2, two echoes, two messages, `Errors` 2 | A second printed line starts from what the first left. Two texts of a kind tell one echo from the next. One error for each stream, or two of one. `UartHal_EthInitTerminates` has `Errors` 0: an error would end the loop it shows. |
| `SpiBus_safety` | five chips, two initialised, `Errors` 1 | Chips matter by being selected or not; a second initialisation changes the channel between frames. After an error in a burst the task does not go on, so a second has nothing new to hit. |
| `FlashConfig_safety` | `Size` 2, two values, `Faults` 2, `Outages` 3 | Two bytes tell a loop that is cut short from one that is not; a failed erase and a failed byte; an outage in a SAVE, in the SAVE after it, and at rest. |
| `EthTasks_safety` | the board's five chips and two tasks | Nothing is reduced. |
| `SocketBuffers_safety` | `Byte` 4, `RxMAX` 8, `TxMAX` 4, `DATA_BUF_SIZE` 5, `Start` 13, `Total` 8 | Sizes from four on have two significant bytes, so that readings tear; both rings and the pointers (at 16) wrap inside a burst; one read is two sends. |
| `SocketClient_safety` | `RxMAX` 4, `TxMAX` 2, `DATA_BUF_SIZE` 3, `Data` 4, `Conns` 2 | More may come than one call reads, and more is read than one SEND takes, so that `send` is partial and called again; the second connection finds what the first left, of the same loop or of the other. A connection that is refused costs nothing of the bound, so that requests fail any number of times. |
| `Udp_safety` | `PackMAX` 5, `DATA_BUF_SIZE` 3, `TxMAX` 2, `RxMAX` 22, `Datagrams` 3, one sender with a port and one without | A datagram of up to 3 bytes fits, a longer one is read in two parts, and each part is answered in two SENDs; the buffer holds two datagrams and has no room for a third. The stack may hold either sender's address. |
| `CommandParser_safety` | six kinds of field, with 0 to 4 digits and values 255 and 256; names of 14 and 15 characters | Each limit of the code has a value at it and one beyond, and four fields make every length about 15. |

`Printks`, `Errors`, `Faults`, `Outages`, `Conns`, `Data`, `Total` and `Datagrams` appear in
the guards of `Printk`, the two `DMAError`, `Erase`, `Program`, `Outage`, `Syn`, `SynAck` and the three
`Receive`. Everything else is finite by itself. The theorems of
section 6 do not depend on any of these values. No symmetry or constraint is used.

## 5. Fairness and deadlock

- `AdminRing` (`Fairness`): an enabled interrupt is taken (weak fairness of the
  handlers). `uart1Task` runs again and again although handlers interrupt it (strong
  fairness of its steps), since interrupts come from a line of finite speed. It does
  not echo for ever in one command, so `ExcuteCommandDone` is strongly fair too. A HAL
  call of `ethInitTask` ends (`PrintkUnlock`). The host owes nothing, and an error of the
  stream need not come.
- `UartHal` (`Fairness`): the CPU goes to the task that may run by `Runs`, the SPI
  transfers of `ethInitTask` end, a transmission ends and its interrupts are taken.
  A reception need never end, and no error need come. Nothing lets `uart1Task` run while `ethInitTask` spins.
- `SpiBus` (`FairSpec`): the streams move their bytes, interrupts are taken, and
  `ethInitTask`, which has the highest priority, runs. Errors are not fair.
- `EthTasks` (`FairSpec`): interrupts are taken, tasks run, and edges leave the tasks
  some time: again and again no line is pending. The line of a W5500 stays low until
  the driver has cleared the cause, so that a chip cannot produce edges on its own.
- `Socket` (`Fairness`): the firmware runs, the chip accepts and executes commands, and
  retransmission ends: a SEND is completed, sent bytes and a FIN are acknowledged, or the
  connection times out. The peer need neither connect nor send nor close.
- `SocketClient` (`EchoFairness`): the same, and a request for a connection is accepted,
  refused or times out.
- `Udp` (in `Spec`): the driver runs and the chip ends each SEND. Nobody need send.
- `SocketBuffers` (in `Spec`): the driver runs and the peer acknowledges what it gets, as
  in a connection that stays open. It need not send.
- `AdminMailbox`, `EchoPipe`, `DatagramEcho`, `FlashConfig` and `CommandParser` have no liveness property
  and no fairness.

Deadlock is checked except where the program does stop: in `UartHal` when `ethInitTask`
spins on a loop that does not end and reception has died, in `SpiBus` after the last frame or after a DMA
error, in `EthTasks` in `configASSERT`, in `CommandParser` after the line.

## 6. What is proved

TLAPS checks the following for every value of the constants that satisfies the
assumption of the module (`RingAssumption`, `UartAssumption`, `BusAssumption`, `FlashAssumption`,
`ParserAssumption`, `ChipsAssumption`, `SocketAssumption`, `BuffersAssumption`,
`UdpAssumption`). The eight modules are of the same form: an invariant `IInv` stronger
than the properties holds initially (`InitIInv`) and every step keeps it (`NextIInv`, one
lemma or step for each action), hence `THEOREM Invariance == Spec => []IInv`. Every
invariant, action property and refinement that a run checks is proved in this way.

Of what must eventually happen the safe half is proved, under names that recur: the steps
that are left to the end of a call or a frame are a number that each of its steps makes
smaller (`CallsShort`, `FramesShort`, `ReadingsEnd`, `HandlersShort`), and where the
firmware waits there is something under way that ends the wait (`NoEmptyWait`). What is
missing from there to the liveness property is that a step that can be taken is taken,
which is the fairness of section 5.

**AdminRingProofs**: `TypeCorrect`, `RowsNeverShared` (`RowsDisjoint`) and `RxDeathCaused`
(`RxDeathHasCause`), for any number of rows, size of rows and length of the queue
with `MAX_COUNT >= QLen + 3`. `RowsDisjoint` is not inductive: it does not say which
rows wait, so that the next row might be one of them. The invariant says it: the
`Distance` from a waiting row to `uart_buf` is its place from the back of the queue,
and the row being parsed is one further (`RingInv`). A row can be met again only at
distance `MAX_COUNT - 1`, and none waits that far behind. `DmaInv` adds what the stream
writes to, `LockInv` who locks.

`RxDeathCaused` takes `FailedInv` besides: a stream that has met an error is off, with no
interrupt of its own pending and the task past its start, and these are the only two
things that start a stream. The step in which reception dies is then either `RxCplt`
with `Lock` held by one of the tasks, or `TransferError`.

`RingIsMailbox` is the refinement: every behaviour of `AdminRing` is one of
`AdminMailbox` under the mapping of section 2. `BoxOK` reads the invariant as types of
the abstract variables. `NotWritten` is the heart of it: a row in the box or in the
hand is never the row the stream writes to. So a stored chunk changes neither, except
that the chunk which fills a row already posted puts that row (`ReceiveShows`); else the
end of the IDLE handler, or a transfer error before it, puts it (`StopShows`), or the handler itself when the stream
had stopped (`IdleShows`). The receive of the task takes (`Takes`), the end of
`ParseCommand` finishes (`Finishes`), and everything else leaves box and hand alone.

`IdleStaysArmed` (`IdleArmed`) needs types only: whatever starts the stream again, and
whatever ends a handler, enables IDLE, the first start of the stream is followed by it,
and the wire never touches the enable bit.

`PostedRowSettles` is what holds of the comment that future data goes to the next row
(section 7): a row in `qUart1` changes only if it is the one posted last, and only until the
IDLE handler has ended. It follows from `RowsDisjoint` and `DmaInv`, as the stream can write
to such a row only in between. `HandlersShort` counts the steps of the handlers: after a
chunk there are at most 13, and only another chunk raises the number, so that interrupts
alone do not keep `uart1Task` from the CPU. The fairness of its steps rests on this.

**UartHalProofs**: `TypeCorrect`, `StateTracksTx`, `OneHolder`, `StateTracksRx`,
`TextStable`, `EchoesSent`, for any sets of texts and any number of printed lines and of
errors. The hard part is that `Lock` and `State` are tested, read and written in separate
steps. `TestsStillTrue` says what `ethInitTask` may rely on in between: nobody preempts it
but the interrupts, which add no transmission and hold no lock, so that what it has tested
stays so. `uart1Task` may be preempted between the test of `Lock` and its setting; but
when it moves again `ethInitTask` is at rest, where it holds nothing, so that `Lock` is
free again as it was tested. This is how `OneHolder` (`HandleExclusive`) follows from
the priorities without any step that is both test and set. `RestInv` is the same for the
transmission: with `ethInitTask` at rest, one that is on is `uart1Task`'s own. `SeenInv`
says that what was read of the receiver is still true when it is written, because the
restart of a reception is refused while the lock is held; `ArmInv` covers the time before
reception was first started. `StreamInv` ties the lock of the transmit stream to the
stream. What needs streams without errors says `errors = 0` in the property itself.
`AloneInv` follows the text of an echo from the formatting to the return.

`EchoesSentAfterwards` goes on where `AloneInv` ends: with `printk` as a second sender an
echo may be mixed (section 7), but each that begins when `ethInitTask` has ended goes out
whole as long as no stream has met an error, although that task may have left `uart1Task`
anywhere. This needs `RestInv`: while
`ethInitTask` is at rest, a transmission that is on is one of `uart1Task`'s, since the other
waits for the end of its own. `StuckForEver` is about the hang of `ethInitTask` that a run
shows: the state in which `uart1Task` has announced a transmission and was preempted is
never left, whatever is received, until a stream meets an error. `NoEmptyWait` says that there is no other such state,
and `CallsShort` that a call otherwise takes at most 32 steps while the other task stays
where it is, errors or not.

**FlashConfigProofs**: `TypeCorrect`, `SavedSurvives` (`SavedIsKept`), `NeverMixed`
(`OneConfiguration`), `Restored` (`RestartRestores`), for any size, values, number of
failures and losses of power. `ProgressInv` is the loop invariant of
`SaveConfiguration`: as long as nothing has failed, the bytes before `address` are the
new ones and the others are erased. `ProgramInv` says that memory still is what the
erase made room for, as the task that could change it is the one that saves. `OkIsSaved`
is what remains of `OkMeansSaved` (section 7): if no flash operation has failed, then flash
holds `SystemConfig` in the step in which SAVE answers OK.

`StoredExactly` (`StoredIffFits`) is about the commands, for any kinds of fields and any
names: `ValidIffFits` compares what `sscanf` with its widths and the check of the length
accept with the addresses that fit. `CommandIsSet` joins the two modules. Its
hypothesis is a layout: a place in `SystemConfig` for each byte of an address and of the MAC
(`LayoutAssumption`, `LaidOut`). Then whatever line comes, what it does to the bytes is a
`Set` of `FlashConfig`; in particular no number is stored that does not fit in a byte.

**SpiBusProofs**: `TypeCorrect`, `NothingLeft` (`NoLeftovers`), `TokensForWaiter` (`TokenIsForWaiter`) and
`FramesWhole` (`FrameWhole`), for any channels and any number of DMA errors. None is
inductive, since a token left over is the result of an interrupt several steps
earlier. The invariant goes by what the task waits for: outside a wait all is at rest
(`RestInv`); in the wait of a write burst it is moving, its interrupt pending, or it is
over (`WaitTxInv`); in the wait of a read burst the transmit stream runs along without
a callback (`WaitRxInv`), which is what keeps `semW5500TxCplt` empty. In every one of
these cases what the chips have seen and what is to come make up the frame (`Makes`),
except after an error, where the task never gets its token. `TypeStep` needs it too: only a
frame that is not whole grows, so that nothing but frames is ever on the wire.

`FramesShort` counts the steps to the end of a frame, `NoEmptyWait` says that before an error
some step of the task or the hardware can always be taken in a frame; for this `AliveInv`
adds that a burst that is over has left its token, and that the receive stream is clocked.
`ErrorsHang` is the reverse: once a burst that an error broke has come to rest, nothing wakes
`ethInitTask` again and the chips see no frame any more.

**EthTasksProofs**: `TypeCorrect`, `EdgesKept` (`NoEdgeLost`) and `Eth0OnEdge`
(`Eth0WakesOnEdge`, if chip 0 has a task at all), for any chips and tasks. `EdgeKept` is
the property itself; `PendingIsNew` and `TokenIsNew` say conversely that a pending bit
or a token stands for an edge not seen, for the semaphores that are emptied at start.
`BusNeverGranted` proves the contrary of what `freertos.c:321` promises (section 7), for any
number of tasks: one that waits for the bus waits for ever, as `semEthSpiIdle` never has a
token.

**SocketProofs**: `TypeCorrect`, `EchoIsComplete` (`OwedIsLeft`), `SendAnswered`
(`SendIsAnswered`), `SendsAreSerial` (`OneSendAtATime`) and `TimeoutsAreOwn`
(`TimeoutIsOwn`), for any sizes of the buffers and any number of bytes and connections, of
the server's loop and of the client's in any order (`EchoSpec` of `SocketClient`);
`ServerInvariance` gives the invariant for the server alone (`Spec` of `Socket`). The hard part is what a register said a few
accesses ago. `ControlInv` says for each place of the firmware which states the socket may
have meanwhile and which command may still be in process: this is why no SEND of an old
connection meets a new one. `StreamInv` relates the sizes read to those that hold now: the
peer only adds to what is there and only adds room. `SendInv` says when the driver may
believe its bit `sock_is_sending`: with the bit clear and the socket open, the chip sends
nothing and no SENDOK waits. `TimeoutInv` says where a TIMEOUT may still be shown: `close`,
which runs before every `connect`, has cleared an old one, and nothing sets one until the
request is out.

`NoEmptyWait` goes through the loops of `send`, `disconnect`, `close`, `socket`, `listen` and
`connect`: the bytes that take up the room are being acknowledged or the room is there by
now; the command waited for is in process or done; and a request for a connection is under
way, answered or given up. The one exception is the `connect` of section 7 whose connection
the peer has half closed. `WaitInv` adds what this needs: that `send` asks for no more than
the buffer has, that no one forgets a DISCON, and that a socket that connects never listens.

**SocketBuffersProofs**: `TypeCorrect`, `CopiesInBounds` (`InBounds`) and `BuffersArePipe`
(`ImplementsPipe`), for any number of values of a byte, any sizes of the rings that divide
the range of a pointer, any buffer of `loopback_tcps` and any start of the pointers.
`RxInv` and `TxInv` say which bytes of the stream the cells of the two rings hold, `BufInv`
those of `buf`, and `Owed` that no byte is missing between the three. `ReadInv` is about
torn sizes: while a call reads, the size only grows. So when the high bytes of two moments
are equal, the low byte read in between makes a size between the two; and when they
differ the second reading differs from the first and is thrown away. The lemmas at the
top have what the provers do not know of `\div` and `%` by a constant: that quotient and remainder are
unique, that division is monotone, and that a sum may be reduced before or after.

Three theorems are the safe half of `EchoArrives`. `NothingForgotten`: when the buffers are
empty and `loopback_tcps` has nothing in hand, all that came is echoed. `ReadingsEnd`: a size
is read in a bounded number of steps, however often the chip changes it. A change may cost a
reading, but the size can change only so often before the driver gives a command, since bytes
only come while it receives and only leave while it sends (`Changes`); and a reading that is
fresh (`Fresh`) is the last one. `ValInv` is needed because `val` keeps what a reading that was
thrown away left in it, and would be taken for a size when the next first reading is zero: it
is zero then. `NoEmptyWait`: `recv` has bytes to read whenever it waits, and `send`
finds no room only while bytes are under way, whose acknowledgement makes it.

**UdpProofs**: `TypeCorrect`, `HeadersFound` (`HeadersAreHeaders`), `PayloadsOnly`
(`RepliesArePayload`, which no run checks as `ImplementsEcho` implies it), `SentToSender` (`ReplyToSender`) and `SendsAreOwn`
(`SendWaitsForOwn`), for any sizes of buffers and datagrams and any number of them. A
`Boundary` is a place where a datagram begins or will begin. `StreamInv` says that every
datagram ends at one; `RestInv`, that between two calls of `recvfrom` the driver is at one
exactly as its count says, or inside a datagram with the counted bytes left; `RecvInv` and
`SendtoInv` carry this through the calls, with the sender for a datagram that the buffer takes
(`Whole`); `ChipInv` ties the SEND under way to the place of the driver.

`EchoesDatagrams` (`ImplementsEcho`) is the refinement of `DatagramEcho`: a SEND answers with
bytes of the datagram at the front, its end is `Done`, and what a return of `loopback_udps`
leaves out is the rest of one datagram. `NoEmptyWait` says that `sendto` always finds
room at once, and waits for no SEND that it has not given; `CallsShort` that a call of
`loopback_udps` takes at most five steps for each byte of its buffer, and four before,
whatever comes meanwhile.

Only model-checked: all liveness (`PostedIsParsed`, `EchoEnds`,
`FrameEnds`, `EdgeWakes`, `ReturnsUnlessHalfClosed`, `EchoArrives`, `DatagramsLeave`,
`DatagramsAnswered`). Liveness under fairness and
reasoning about ENABLED are out of reach of this version of the prover, and so are
induction over data through the library's induction theorems, and anything that
declares a RECURSIVE operator; the modules declare none.

## 7. What the code does otherwise than it says

Each of these is a run of one property that TLC finds violated.

| Run | The code |
| --- | --- |
| `UartHal_EthInitTerminates` | `freertos.c:293`: initialise the Ethernet modules. `ethInitTask` spins for ever on a `State` that the preempted `uart1Task` has set and whose transmission it cannot start. |
| `Socket_ListenClosesOnlyClosed` | `socket.h:185`: `SOCKERR_SOCKCLOSED` means closed unexpectedly. `listen` compares `Sn_CR`, not `Sn_SR`, with `SOCK_CLOSED`, which is zero, so that it closes a socket which the chip has yet to make listen or which is connected already. |
| `CommandParser_StoresIPv4` | `admin_interface.c:123`: validate the IPv4 format. The length compared with 15 includes CR LF, so that an address of 14 or 15 characters, like 192.168.100.10, is rejected and the command answered OK. |

Nine further ones are stated in the modules, with the line they are about, and no run
here checks them; TLC finds each violated within a few steps.

| Property | The code |
| --- | --- |
| `AdminRing`: `RxRestarted` | `usart_common.c:198-199`: the interrupt at the end of a transfer restarts it. When it comes while a task holds the lock the restart is refused, the result is ignored, and the admin port is deaf until reset. A transfer error of the stream has the same effect, as `UART_DMAError` restarts nothing. |
| `AdminRing`: `PostedRowIsLeftAlone` | `usart_common.c:180-181`: after the row is posted, future data goes to the next row. Until `HAL_DMA_Abort` it goes to the row posted. |
| `AdminRing`: `PostedIsWhatCame` | Rows are not terminated, so that what an earlier line left behind is parsed along. |
| `UartHal`: `EchoSent` | With `printk` as a second sender an echo may be lost or mixed. |
| `SpiBus`: `WaitEnds` | `wizchip_conf.c:178`: wait until the transfer is done. After a DMA error nothing releases the semaphore; `ErrorsHang` proves it. |
| `FlashConfig`: `OkMeansSaved` | `configuration_manager.c:75`: save the configuration. The result of programming a byte is ignored and SAVE answers OK. |
| `EthTasks`: `BusGranted` | `freertos.c:321`: if the bus is busy, wait. `semEthSpiIdle` is never released, so the task waits for ever also when it is idle; `BusNeverGranted` proves it. |
| `SocketClient`: `ConnectReturns` | `socket.h:194`: `connect` does not return until the connection is completed. It leaves its loop for `SOCK_ESTABLISHED`, a time-out or `SOCK_CLOSED` only, so that a peer which accepts and closes its side between two readings leaves it in `SOCK_CLOSE_WAIT` for ever. |
| `EthTasks`: `Eth1WakesOnEdge` | `semEth1Int` is created full and not cleared, so the task wakes without an edge. |

`ReplyToSender` is about the datagrams that the buffer takes, which are all with the shipped
2048 bytes for at most 1472. The rest of a larger one `loopback_udps` sends to whatever its
stack holds: `socket.h:315` says that the address is valid only with the first part, and
`destip` and `destport` do not outlive the call.

## 8. What is not modelled

- The contents of bursts and printed texts; formatting. Of a command, the bytes of a MAC
  and what a parameter longer than `para` does: `ParseCommand` copies it without looking
  at its length (`admin_interface.c:384-396`), `CommandParser` takes only such that fit,
  and no property would notice another.
- Of errors on USART1: the receiver's own (parity, framing, noise, overrun), whose interrupts
  the firmware never enables. A direct mode error is not told from a FIFO error. In
  `AdminRing` an error makes no difference to `State`, which has no place there; in
  `UartHal` none to the ring. The properties that an error does break (`State` tells what
  runs, `txbuf` rests while it is sent) say so by `errors = 0`; what still holds then is
  in section 3.
- In `UartHal` the test and the setting of the lock of the transmit stream are one step
  (`StartTransmit`), unlike those of `huart1`: only the holder of `huart1` gets there, and
  interrupts only release it. IDLE is taken to be enabled from the first call of
  `HAL_UART_Receive_DMA` on.
- That the handler reads ahead of the row when no byte was counted is in `AdminRing`
  (`LastChunk`); no property says that it does not, or what lies there.
- The socket options, MACRAW and the non-block mode of `socket.c`, which only services that
  are not built use.
- Several sockets of a chip at once, which share the bits of `sock_is_sending`.
- The second port of `usart_common.c` and `qUart2`, which nothing uses.
- The FreeRTOS kernel. Its queues and binary semaphores are modelled by their effect
  where the firmware uses them, its scheduler by the priority of `ethInitTask`.
- HAL drivers other than the paths named in section 2. HAL timeouts: the calls on
  these paths that have one are polled bytes and the wait for the flash, which is one
  step.
- Clock, pin and peripheral set-up: generated code that runs once and writes
  registers, apart from the moment at which the EXTI interrupts are enabled.
- The audio transmitter, the Internet services, drivers of other chips, FatFs and
  CMSIS-DSP: not built.
- The OLED: one task calls it once with constants, nothing else touches its state, and
  its loops end for the arguments they get.

## 9. Plan

Done, in this order: `AdminRing` with `AdminMailbox` and its proofs; `UartHal` and its
proofs; `SpiBus`, `FlashConfig` and `EthTasks`, each with its proofs; the proof that
`AdminRing` implements `AdminMailbox`; `SocketBuffers` with `EchoPipe`, `Socket` and
`CommandParser`; the proofs of the first two, and of `IdleArmed`; `SocketClient`, and `Udp` with its proofs; `DatagramEcho` and its refinement, the proofs of
`CommandParser` and of how it fits `FlashConfig`, and the safe half of the liveness
properties. The first five are where
tasks, interrupts and hardware meet and that the board runs today; the others are what
it runs commands with and will run connections with.

Left to model:

1. A composition of `AdminRing` and `UartHal`: the ring with `State` and both streams.
2. Several sockets of several chips, which share the bits of `sock_is_sending`.

Left to prove:

1. Of `Socket`, a bound for the steps of each call between two waits, as there is for the
   other components.
2. That the two abstractions of a connection agree: `Socket` counts the bytes that
   `SocketBuffers` moves.

## 10. How to run it

In this directory, with TLC and the community modules:

    tlc -workers 2 -config AdminRing_safety.cfg MCAdminRing
    tlc -workers 2 -config UartHal_safety.cfg MCUartHal
    tlapm AdminRingProofs.tla

Each `.cfg` is named after its module and run; `PROJECT.json` lists them with the
module each belongs to. No run takes more than three minutes.
