# tfdl in TLA+

`tfdl` runs on a board with an FPGA. A Go program (`src/main.go`) links C code
(`src/partc`) and does two things for as long as it lives: it passes the
pictures the FPGA writes to memory by DMA on to TCP clients, and it sets the
FPGA's clock from the sentences of a BeiDou/GPS receiver on a serial line.
A driver of a 4G modem is in the tree and is not called by `main`.

This directory holds TLA+ modules of the program, the TLC configurations that
check them, and proofs for TLAPS. `PROJECT.json` ties every definition to the
lines of source it stands for.

## 1. The system

| component | source | state | operations |
|---|---|---|---|
| GPS framer | `partc/fly_bd.c` 11-170, 188-302 | ring `gUartMsgStruct`, frame buffer `gDataBuff`, `gDataBuffIndex` | `UartMsgStruct_Init`, `_Push`, `_GetData`, `_FindCmd`, the loop of `bd_start_task` |
| DMA relay | `partcgo/dma.go`, `dma_cmidlle.go`, `logic/tcpserver.go` | `recvData`, `DmaDataChl`, `ConnNum`, one goroutine per connection | `RecvDmaDataCallBack`, the accept loop, `ProcessDMAData` |
| DMA set-up and reception | `partc/fly_dma.c` | `axidma_dev`, `rx_buf` | `fly_dma_init`, `_recv_data`, `_setCallBackAndStart`, `_free` |
| Time sync | `partc/fly_bd.c` 249-299, `partc/fpga.c` | the fields of the last sentence, `timeToFpga`, five FPGA registers, `fpga_mutex` | checksum, `sscanf`, `mktime`, `write_fpga_register` |
| Start-up | `main.go`, `partcgo/logic.go`, `partc/fly_gpio.c`, `partc/fpga.c` | descriptors, direction and level of GPIO 1023 | `main`, `partcgo.Init`, `PullHighGpio`, `init_fpga`, `bd_open_uart`, `InitDma` |
| Settings | `settings/settings.go` | `config.yaml`, what viper holds of it, `Conf` | `Init`, viper's watcher and the reload callback |
| 4G modem | `partcgo/uart_4g.go`, `verify_4g.go` | `RecvBuff`, `RecvCont`, what the modem is connected to | `RecvData`, `SendDataAndCheck`, `Connect`, `SendHttp...` |
| AXI DMA library | `partc/libaxidma.c`, `.h`, `axidma_ioctl.h` | the one `axidma_dev`: its arrays of ids, its channels and their callbacks; mapped memory; transfers not waited for | `axidma_init`, `_destroy`, `_malloc`, `_free`, `_set_callback`, buffers, four kinds of transfer, the signal's handler |
| UART primitives | `partc/fly_uart.c` | descriptors, the line's settings, its two queues | `uart_open`, `UART1_Set`, `close_uart`, `uart_recv`, `uart_read`, `uart_send` |
| Logger, routers, build | `logger/`, `routers/`, `Makefile` | none of their own | |

**Interaction.** `main` runs settings, logger, `TcpServerInit` (which starts the
accept loop) and `partcgo.Init`. That one raises the GPIO, opens the FPGA's SPI
device and the receiver's serial line, starts `bd_start_task` in a goroutine and
calls `InitDma`, which sets the DMA device up through `fly_dma.c` and the library. `InitDma` does not return while reception goes well: the first
transfer is started from it, each transfer's callback starts the next. Framer
and time sync are one thread; they meet the relay nowhere. The relay's thread
and the connections' goroutines share `ConnNum`, the channel `DmaDataChl` and,
through the slice that is sent on it, `rx_buf` itself.

**What is hard, and what makes each part right.**

* *Framer.* A sentence is cut twice: by reads, which return any part of it, and
  by the end of the ring, since `FindCmd` looks at contiguous bytes only. State
  stays behind between calls (`cmd_head`, `gDataBuffIndex`). It is right when the
  ring is a queue, when what is handed over is a sentence however it was cut,
  when no byte is handed over twice or left for a later sentence, and when it
  cannot come to a stop.
* *Relay.* A callback that must not block, a buffer that is overwritten while
  it is being sent, connections that come, go and stall at any time. It is right
  when the callback never waits for a client, when `ConnNum` is the number of
  connections served, when each picture goes to one client and in order, when
  what a client gets is never older than what was announced to it, and when
  reception goes on.
* *Time sync.* Fields a short `sscanf` does not reach, five register writes each
  of which may fail alone, and a local zone in the way. It is right when committed
registers are one time, and when no missing field sets the clock ahead.
* *Start-up.* Each of a dozen steps may fail, two functions end without the
  `return` their caller tests, a pin's direction is changed by reading it, and a
  process may be started after another was ended anywhere. It is right when the
  task finds what it needs open, when reception runs only after the steps before
  it have succeeded, and when start-up never hangs.
* *Settings.* A file someone edits, read by two threads that fill one `Conf`
  field by field, and an error of decoding that only one of them looks at. It is right
  when `Conf` comes to have every value of the file that can be decoded, when a
  section is missing only if the file lacks it, and when no edit takes away a section
  that is in use or keeps a later edit from being followed.
* *AXI DMA library.* One static structure, filled at every `axidma_init` and freed
  before the device is closed, and a signal whose handler reads it between any two
  steps. It is right when a completion calls what was registered for its channel, with
  the data registered for it,
  when the driver is asked only for what it has, when no memory is used that is
  not there, and when a failure gives everything back.
* *fly_dma.c.* It is right when `rx_buf` is mapped as long as a transfer may fill
  it, and when nothing is under way unwaited for.
* *UART.* Settings are built on those the line was left in, and bytes arrive while
  they change. It is right when bytes are framed as asked whatever was before,
  when old bytes are not read, and when descriptors are closed.
* *4G modem.* Nothing calls it (section 5).

Every hazard, with its line and the property that watches it, is in
`PROJECT.json` under `hazards`.

## 2. The modules

| module | what it is |
|---|---|
| `BdFramer` | the framer |
| `SentenceFeed` | what the framer promises, abstractly |
| `DmaRelay` | the relay |
| `PictureFeed` | what the relay promises, abstractly |
| `TimeSync` | from a sentence to the FPGA's clock |
| `Startup` | from `main` to reception |
| `Settings` | `config.yaml`, the watcher and `Conf` |
| `AxiDma` | the AXI DMA library, with its signal |
| `FlyDma` | the program's use of that library |
| `UartLine` | a serial line and its settings |
| `MC...` | the values of the constants that a `.cfg` cannot write |
| `...Proofs` | theorems about the module of that name |

*Composition.* `FlyDma` instantiates `AxiDma` over its own variables: each of its
steps is a step of the library with where `fly_dma.c` is, or one of its own that
leaves the library alone; `FlyDmaProofs` shows that all of them together are a
behaviour of `AxiDma`. `BdFramer` implements `SentenceFeed` (`FeedsSentences`) and
`DmaRelay` implements `PictureFeed` (`FeedsPictures`), under `INSTANCE ... WITH`.
The others meet in one step:
`Startup`'s step `InitDma` is all of `FlyDma` up to the first transfer and its
state `"receiving"` is `DmaRelay`; its step `Settings` is the main thread of
`Settings`; its `Spawn` starts `BdFramer`, whose `Handle` is `TimeSync`'s;
`UartLine`'s bytes are those `BdFramer` receives.

### BdFramer

A byte is its place in the stream and its kind (`$`, `\n`, NUL, other): all the
properties need to tell is which bytes of the stream are where. The variables
keep the names of the C code; `pc` says where the loop is. `received`, `taken`,
`lapped`, `residue` and `handled` are history: no guard reads them, but for the
bound `MaxBytes`.

| action | code |
|---|---|
| `Recv` | `uart_recv` with 1 to `BufSize` bytes, then `UartMsgStruct_Push` in one piece or in two |
| `FindEmpty` `FindNoHead` `FindWhole` `FindHead` `FindTail` `FindMiddle` | the six ways through `FindCmd`, each with the wrap of `read_pos` at its end |
| `FindUndefined`, `HandleUndefined` | a `memcpy` of negative length or past `gDataBuff`; a `'\0'` or `memset` outside it |
| `Handle` | the handling of a frame as far as it changes the framer: the `'\0'` of an RMC sentence, the `memset`, the index |

A read that returns nothing changes nothing and is a stuttering step. Whether a
frame is an RMC sentence is left open at `Handle`, as far as the bytes compared allow
it (`Compared`: the places 3 to 5 of the code).
After undefined behaviour the model stops (`pc = "undefined"`): what C does then
depends on the layout of memory, and nothing is claimed of it.
`strchr` is searched for inside the span; that it may read on behind the span is
without effect, since a find there is thrown away (`< len`). A NUL in the
span does stop it, and is modelled.

**SentenceFeed.** Bytes arrive; one sentence at a time is handed over, whole, and done
with before the next; its bytes come after all bytes of those before it. A sentence may be dropped: the
next one handed over is garbled (new bytes, but not a sentence), and the one after
that is whole again. The refinement mapping is

| `SentenceFeed` | `BdFramer` |
|---|---|
| `arrived` | `received` |
| `done` | `handled` |
| `sentence` | the first `gDataBuffIndex` bytes of `gDataBuff` (`Handed`) while `pc` is `"handle"`, and nothing else |
| `dropped` | an old index stands under the frame: `residue > 0` in one that has begun, `gDataBuffIndex > 0` between frames |
| `broken` | `lapped`, or undefined behaviour |

`Recv` maps to `Arrive`, or to `Break` when it laps the reader; `FindWhole` and `FindTail`
to `HandOver` or `HandOverGarbled`, `FindTail` with the `\n` first to `Drop`; `Handle` to
`Finish`; `FindUndefined` and `HandleUndefined` to `Break`; the other ways through `FindCmd` are stutters.

### DmaRelay

A picture is a number, a slice in the channel is the number of the picture it
was sent for, and `rx_buf` says for each of its `Parts` pieces which picture it
is from. A client's write copies `rx_buf` piece by piece at the time of the
write, which is what a slice over shared memory gives.

| action | code |
|---|---|
| `TransferPiece`, `TransferDone`, `TransferFail` | `axidma_oneway_transfer` with `wait`, and its return |
| `Check`, `Send` | the `if` of `RecvDmaDataCallBack` and the send behind it: two steps, goroutines run between them |
| `Rearm`, `StackOverflow` | the call of `fly_dma_recv_data` from inside the callback |
| `Connect`, `HangUp` | a client and its network, outside the repository |
| `Accept`, `Register` | `Accept`, then `AddUint32` and `go`: two steps |
| `Take`, `WritePiece`, `WriteDone`, `WriteFail`, `Leave` | `ProcessDMAData` |

The test of `ConnNum` and of the length of the channel is one step. It is two
reads in the code, and the second may be later; a receive between them only
makes room, and a client that leaves between them is one that leaves between
`Check` and `Send`.
`conn.Write` fails only when the peer is gone (there is no deadline); it may
also succeed for a while after.
`ConnNum` is counted modulo `Wrap`, which stands for 2^32.

**PictureFeed.** A feed makes pictures, offers each once while fewer than `Cap`
wait or passes it over, and gives each waiting one to one client, which then
reads `Size` pieces none of which is older than what it took. The
refinement mapping is

| `PictureFeed` | `DmaRelay` |
|---|---|
| `made` | `frames` |
| `fresh` | `dma` is `"check"` or `"send"` |
| `waiting` | `DmaDataChl` |
| `here` | `Served` |
| `took`, `got` | `token`, `sent` |

`TransferDone` maps to `Make`, `Check` to `PassOver` or a stutter, `Send` to `Offer`, `Register` to
`Join`, `Take` to `Take`, `WritePiece` to `Read`, `Leave` to `Quit`; transfers in progress, the stack, `Accept`,
what the network does and `ConnNum` are stutters.

### TimeSync

Times are seconds, the fields `hh`, `mm`, `ss` one time of day and `year`,
`month`, `day` one date: `sscanf` sets each group whole or not at all in
what a receiver sends. Fields the FPGA is not given (position, speed,
milliseconds) matter only in that `sscanf` stops at an empty one. `TimeSync`
takes up at `BdFramer`'s `Handle`: there a frame is bytes, here a sentence.

| action | code |
|---|---|
| `Handle` | checksum, `sscanf`, `mktime` and the split into registers: one thread's own variables, so one step |
| `Write`, `WriteFail` | one `write_fpga_register`; the FPGA sees each |
| `Tick` | the receiver's time |

A sentence with a wrong checksum changes nothing. `Zone` is what `mktime` takes
off for the board's zone, negative west of UTC; it is the same at all times (`tm_isdst`, which nothing
sets, matters only in a zone with summer time). `time_t` and `long` have 32 bits.

### Startup

One variable, `main`, is the next step of the main thread. The pin survives the
process (`direction`, `value`; `pulled` is what the board pulls it to);
everything else is new at `Restart`. `failures` is history.

| action | code |
|---|---|
| `Settings` `Logger` `TcpServerInit` `InitFpga` `Spawn` | the calls of `main` and `partcgo.Init` that return |
| `EndsMain` | a step whose failure is reported and ends `main`: any but the pin's and the goroutine's |
| `Export` `TurnIn` `Look` `TurnOut` `Raise` | `init_gpio`, and the two halves of `read_gpio` and `write_gpio` |
| `GpioFail` | a file that cannot be opened inside them, which `PullHighGpio` passes over |
| `GpioWriteFail` | a `write` that fails (`fly_gpio.c:33`, 43, 63): no one looks, and the function goes on |
| `PullHighGpio` `OpenUart` | two functions that end without a `return`: their caller may see anything |
| `InitDma`, `TransferFail` | reception, and its end: only then does `InitDma` return |
| `Crash`, `Restart` | the process |

### Settings

Settings are a value for each of the three fields; `Missing` is a key that is
not in the file, and a nil pointer of `Conf`; `Mistyped` is a value that is not of
its field's type, such as a string in place of a section. Two threads, `main` and the
watcher, go through the same steps from the file through viper to `Conf`.
`found`, `raced` and `unsettled` are history. A section in which some entries are of the
right type and some are not is left out: a section is right or `Mistyped` as a whole.

| action | code |
|---|---|
| `Create`, `Write` | no file: the example goes into viper, the file is created empty, then written |
| `WatchConfig`, `OnConfigChange` | the watcher starts; a step later it has a callback |
| `ReadInConfig`, `ReadFail`, `Store` | `ReadInConfig` of viper, in `Init` and for an event: the file is read, then viper holds it |
| `Unmarshal`, `Decode` | `viper.Unmarshal(Conf)`: all settings are taken, then one field of `Conf` after the other is set, mistyped ones skipped; the error that comes of them ends `Init`, and is dropped by the callback (`settings.go:90`) |
| `PrintHardware`, `LoggerInit` | the first uses of pointers of `Conf` |
| `Fail` | the file cannot be created or written |
| `Edit`, `Save` | an editor empties the file and writes it, or leaves what is no YAML (`broken`): an event each |
| `Restart` | the process ends anywhere and is started again |

viper and fsnotify are not in the repository and are modelled from their use.

### AxiDma

The static structure is modelled field by field; `built` says how much of the
channel metadata is memory one may use. The driver is outside: `Chan` is the list
it enumerates. `call` is the call of `axidma_set_callback` that is between its two stores.
`probes`, `wanted`, `rash` and `beyond` are history.

| action | code |
|---|---|
| `Open` `ProbeFail` `AllocateFail` `Allocate` `Categorize` `SetupFail` `Setup` | `axidma_init`, with one step per turn of the loop in `categorize_channels` |
| `Free`, `Close` | `axidma_destroy`: memory first, then the device |
| `Malloc` `Unmap` `Register` `Unregister` | `axidma_malloc`, `_free`, `_register_buffer`, `_unregister_buffer` |
| `SetCallback`, `StoreData` | `axidma_set_callback`: the callback is stored, then the data, and the signal may come between |
| `Oneway` `Twoway` `Video` `Stop` | the four kinds of request |
| `AssertFail` | an `assert` of the library |
| `Complete`, `Handler` | the driver's signal, and `axidma_callback`, between any two of the steps above |

### FlyDma

| action | code |
|---|---|
| `Begin` `InitFail` `InitGoesOn` `InitDone` | `axidma_init` as `fly_dma_init` calls it |
| `SetUpFail`, `Map`, `StopFirst` | the rest of `fly_dma_init` |
| `Transfer`, `TransferFail` | `fly_dma_recv_data`, which waits; the callback calls it again |
| `FreeBuf`, `Destroy`, `Destroyed` | `fly_dma_free` |
| `Aborts` | an assertion of the library under any of these |

The library's signal is not part of its `Next`: `NothingUnderWay` says why it need not
be. `fly_dma_free` is called by nothing in the repository; it is modelled as it
would run after reception has ended.

### UartLine

The four words of a `termios` are sets of flags; `|=` adds and `&= ~` takes
away. `line` is what is in force, `input` holds, for the bytes that wait, the
settings they were received under. `set`, `former` and `forgotten` are history.

| action | code |
|---|---|
| `Open`, `FcntlFail` | `UART1_Open` within `uart_open` |
| `Set`, `GetAttr`, `Flush`, `SetAttr`, `SetFail` | `UART1_Set`, called by itself or by `uart_open`, which closes the descriptor if it fails |
| `CloseUart`, `Read`, `UartSend` | `close_uart`, `uart_read`, `uart_send` |
| `Arrive`, `Other` | the other side sends; another program has had the line |

## 3. What the runs check

| run | instance | distinct states | result |
|---|---|---|---|
| `framer_noise` | `MCBdFramer`, ring 5, chunk and frame buffer 4, 8 bytes of any kind | 269,234 | six properties hold |
| `framer_dropped_frame` | ring 7, buffer 4, sentences of 3 bytes | | `FrameExtracted` is violated |
| `framer_cut_off` | the same, entered at the last byte of a sentence | | `WholeFrameFound` is violated |
| `relay_two_clients` | 2 clients, channel of 2, 2 pieces, 4 pictures, `Wrap` 4 | 1,000,969 | six properties hold |
| `relay_torn_picture` | the same with 3 pictures, clients symmetric | | `OnePictureWritten` is violated |
| `time_sync` | five times around two midnights, zone +8 h | 190,737 | six properties hold |
| `time_sync_no_position` | the same, zone 0 | | `ReceiversTimeCommitted` is violated |
| `startup_restarts` | the program started twice | 331 | four properties hold |
| `settings_reload` | two edits, three starts, three versions of the file and one that is no YAML | 112,666 | five properties hold |
| `axidma_channels` | three channels with ids 2, 0 and 5, three times `axidma_init` | 2,106,432 | six properties hold |
| `fly_dma_receive_first` | a receive and a transmit channel, three pages, `rx_buf` of two | 119 | three properties hold |
| `uart_settings` | three lines as others left them, four sets of arguments, descriptors 0 and 3 | 187,955 | four properties hold |

**framer_noise.** `TypeOK`; `UnreadIsStream` (between `read_pos` and `write_pos`
stands the unread part of the stream, in order); `FrameExact` (what is handled is
one sentence without its `\n`);
`ComparesOwn` (what is compared with `RMC` before the frame's length is looked at lies
inside the frame and is of no frame handled earlier; it is the frame's own unless one
was dropped before it, whose bytes may stand where this one ends); `FindProgress` (each call takes at least one byte
that was read); `FeedsSentences` (the framer implements `SentenceFeed`: no byte
is handed over twice, sentences come in order, and a dropped one costs one other and no
more). Two conditions in these are the code's own limits, not
simplifications, and no property says that they do not bite. `~lapped`: `Push` does not look at `read_pos`, so bytes that were
not read are lost when reads bring more than `FindCmd`, called once per
read, takes. `residue = 0`: see the next run.

*Bounds.* The ring is longer than a chunk and not a multiple of it, and the
stream is longer than the ring, so pushes and finds wrap at
every offset, a sentence is cut by reads and by the wrap in every way, and the
ring is lapped. Four cells hold a frame with bytes on both sides of a cut, and
overflow. Proofs (below) take all bounds away but the kinds of byte.

**framer_dropped_frame.** `fly_bd.c:93` says `FindCmd` extracts a frame with its
head and without its tail. When the first byte of a span is the `\n` of a frame
begun before it, `retVal` is 0: the caller takes it for "no frame" and leaves
`gDataBuffIndex` standing. The next sentence is copied to the start of the buffer
but its length is added to the old index. The trace: `$x` in one read, then
`\n` first in the next span, then a sentence. On the real line this happens whenever a
read ends just before a `\n`; the frame and the next are lost (the checksum
is looked for at the wrong place).

**framer_cut_off.** `fly_bd.c:118` says a whole frame was found when the span has
a `$` and a `\n`. Both are searched from the start of the span, so on a line
entered inside a sentence the `\n` is the one before the `$`, and the
length given to `memcpy` is negative.

**relay_two_clients.** `TypeOK`; `SendNeverBlocks` (the room the callback
found is still there when it sends); `ConnNumAccurate`; `OnePictureEach` (slices
are in order, none is taken twice); `ReceptionGoesOn` (after each
picture the next transfer is started, or the stack is used up); `FeedsPictures` (the
relay implements `PictureFeed`: every step is one of the feed's or a stutter, and
no piece written is older than the picture its slice was sent for).

*Bounds.* Two clients are enough for one to register, take or leave between any
two steps of the other; a channel of two fills and is found full; two pieces are
enough to see a transfer between them; `StackLimit` 4 lets two pictures wait
while a third is being written and a fourth received. `Wrap` 4 is more than the
clients, as 2^32 is.

*Fairness.* Weak, of `Check`, `Send`, `Rearm` and `StackOverflow`: the callback is
a running thread and each of its steps is the next thing it does. Nothing is
assumed of clients, who may never read, nor of the hardware, whose transfer may
never end. `ReceptionGoesOn` therefore says that the *program* does not stop it.

**relay_torn_picture.** `fly_dma.c:26` and `dma.go:21` give the length of a slice
as one picture. The callback starts the next transfer into the same buffer at
once, so a client may be written the first part of one picture and the second
of the next.

**time_sync.** `TypeOK`; `OneTimeCommitted` (when no write failed, the four
registers under a commit are one time, and if it was complete the sentence's less the
zone); `LateByZone` (whatever older fields a time is put together from, it is the
receiver's less the zone, or earlier); `MixBounded` (a lost write leaves the halves of
two times, less than 65536 s ahead of that); `WholeDaysBehind` (a sentence with time of day and
without date sets a time wrong, the zone apart, by whole days only); `NeverFarBack` (from one
sentence to the next the clock goes back by less than a day, and by nothing
when the sentence is complete).

*Bounds.* `Times` holds the seconds before and at a midnight, one on the next
day, and the two between which the low register passes over to the high one.
Any sentence may be late, damaged, or lack its date or all, and any write may
fail. No counter grows, so the run is over all behaviours with these times; the
theorems are for all times.

**time_sync_no_position.** `partcgo/logic.go:39` says the task reads the
receiver's time and sets it in the FPGA. `sscanf`'s result is not looked at:
a sentence without a time sets the last time again, and before the first one
1999-11-30; a sentence without a position, or a course, keeps the date of an
older one, so that after a midnight the clock is set back by a day.

**startup_restarts.** `TypeOK`; `TaskReady` (`bd_start_task`, which looks at
neither, finds the line and the FPGA open); `OnlyPinPasses` (whatever fails
before reception ends the program, but for the pin; `start app` is
reported after reception has failed and not before); `StartupEnds`
(start-up comes to reception or ends). `MaxBoots` 2 is enough for a pin
that another process has left at any point of `PullHighGpio`.

*Fairness.* Weak, of `Step`: the main thread runs, and none of its calls before
reception waits for anyone. A transfer need not fail and nobody need restart
the program.

**settings_reload.** `TypeOK`; `NilOnlyIfMissing` (a pointer is nil where
it is used only if the file that `Init` read had no such section); `Settled` (with no event
left, every value of the file that can be decoded is in `Conf`); `ServesWhole` (a program
that serves keeps the sections it has looked at, whatever later edits leave out or
mistype and whatever the threads race to); `EditsFollowed` (every value of an edit made
while the program serves that can be decoded comes into force, and a bad edit does not
stop the next one). What cannot be decoded leaves in `Conf` what an earlier version of
the file said: `Conf` may be of several versions, and no property says otherwise.
`NilOnlyIfMissing` is about processes whose watcher did not read the file before `Init`
was done (`~raced`), a time that `settings.go:87` opens by starting the watcher
first; `Settled` about those whose watcher has read it since (`~unsettled`).
`ServesWhole` and `EditsFollowed` have no such condition.

*Bounds.* Two edits: one may be read while the next is made. Three starts: one
that ends while the file is written, one that meets what is left, one more. Of
the versions one is whole, one lacks a section, one has a section mistyped, and one is no YAML.

*Fairness.* Weak, of the watcher: it is a goroutine nothing blocks for good. Not of
`main`, nor of whoever edits.

**axidma_channels.** `TypeOK`; `ArraysExact` (each array lists the channels
of its kind, none twice); `CallbackRight` (a completion calls the function registered for its
channel with the data registered for it, and between the two stores of
`axidma_set_callback` with the former data); `RequestsLegal` (the driver is asked only for channels it has, in their
direction); `SafeIfQuiet` (no freed memory is touched and no array overrun,
unless `axidma_destroy` was called with a completion to come, `axidma_init`
a second time, or a callback set for an id that is not smaller than the number of channels); `DeviceClosed` (no way out of `axidma_init` or
`axidma_destroy` leaves the device open).

*Bounds.* Three channels of three kinds with ids 2, 0 and 5, so that an id is not its
own index and one is no index; `axidma_init` up to
three times, as the third overruns what the second has left; one queued signal
a channel, `Slack` 1 int behind an array, one page.

**fly_dma_receive_first.** `TypeOK`; `BufferHeld` (`rx_buf` is mapped whole as
long as a transfer may fill it, and given back at the end); `NothingUnderWay`
(every transfer is waited for, so the signal never comes). Three pages let a buffer of two lie at
two places; the device is set up and freed three times.

**uart_settings.** `TypeOK`; `FramingAsAsked` (size, stop bits, parity, mappings and
hardware flow control are as asked whatever the line was before, but that parity `'s'` is
none, and that `IXON`, `IXOFF`, `IXANY` and `ISTRIP` stay as they were found);
`OldBytesFlushed` (no byte waits that was received before the `tcflush`; those
between it and `tcsetattr` may, received under the settings found); `DescriptorsHeld` (a descriptor
is held, being set up, or closed, but for 0 and those of which `fcntl` failed).

*Bounds.* No counter grows: all behaviours with these lines and arguments. The three
lines have flags of each word on and off; the arguments take every branch for parity,
stop bits, flow control and a speed not in the table, and one is refused.

Deadlock is checked in `time_sync`, `time_sync_no_position` and `uart_settings`.
Elsewhere the system may stop: the line is silent for ever, or the framer is at undefined
behaviour; the relay's stack is used up; the program was ended for the last
time (`startup_restarts`, `settings_reload`), has panicked or is edited no more;
an assertion of the library has failed, or the set-up has (`axidma_channels`,
`fly_dma_receive_first`).

`StackOverflow` deserves a word. A callback calls `fly_dma_recv_data`, which calls
the callback: no level returns before a transfer fails. `StackLimit` is the bound
of the run and also a thing of the program, whose stack ends some time.

### What the code does and its comments do not say

Four divergences are runs that end in a violation, three more are findings of passing
runs whose property states exactly what the code does instead; the rest were met
while modelling.

* `fly_bd.c:272` says the sentence's time is turned into UTC, and the variable is `utc_time`. `mktime`
  (279) takes the receiver's UTC for local time: the FPGA is set eight hours late on a
  board eight hours east, and ahead on one west of UTC. `OneTimeCommitted` says by how much
  (`Zone`), `LateByZone` and `MixBounded` have it too. A finding of `time_sync`.
* `fly_uart.c:165` says parity `'s'` is set to space. `PARENB` is cleared (166) and
  nothing set: it is no parity. `FramingAsAsked` says so. A finding of `uart_settings`.
* `libaxidma.h:44-45` and 180-181 promise a callback the data registered with it. They
  are two stores (`libaxidma.c:394`, 395), and the handler may run between them:
  the new function is called with the former data. `CallbackRight` names the window.
  A finding of `axidma_channels`.
* `libaxidma.h:176-181` registers a callback for a channel. The code looks for the id and
  then indexes by it (`libaxidma.c:391`, 393), and so does the handler: an id that is not smaller than
  the number of channels is written outside the array (`beyond` in `SafeIfQuiet`).
* `libaxidma.h:55` allows `axidma_init` after `axidma_destroy`. The lengths of the arrays are not
  reset (`libaxidma.c:130`): the second fills behind junk, a later one behind the memory.
  `ArraysExact` says `probes = 1`, `SafeIfQuiet` excludes `probes > 1`.
* `libaxidma.h:130` says `axidma_free` aborts for a wrong address or size. `munmap`
  (`libaxidma.c:376`) takes any pages. `AxiDma`'s `Unmap` does too; `BufferHeld` is about the one call there is.
* `fly_dma.c:76-78` looks for a receive channel and then all transfers are on
  channel 0 (87, 128). On a board where channel 0 transmits the picture buffer is sent. The
  theorem `FilledFromFpga` says what keeps that from happening: `ChannelReceives`, an assumption
  about the board which nothing in the code looks at. No run checks it.
* `logic.go:22` says the pin is pulled high, and so does the name of `PullHighGpio`. It is
  written high, and reading it back turns it to
  input (`fly_gpio.c:118`, 63): the code does not do what the comment says. The theorem
  `PinIsInput` (property `PinAsWired`) states what it does, an input at the level the board gives it.
  No run has it as a property.
* `fly_uart.c:113`: no flow control leaves `IXON` and `IXOFF` of `c_iflag` as
  they were. Software flow control (121) adds flags of `c_iflag` to `c_cflag`: 9600
  becomes 3000000 baud. `ISTRIP` is not named either, so that an eighth bit may be cut off.
  `FramingAsAsked` says these flags stay as found, and leaves the speed out there.
* `fly_uart.c:198-202` flushes before the new settings are in force.
  `OldBytesFlushed` lets the bytes between stand.
* `settings.go:90` drops the error of `Unmarshal`: a value of the wrong type in an edit is never in
  force, and neither is anything of a file that is no YAML, and no one is told. `Settled` and
  `EditsFollowed` are about the values that can be decoded.
* A process that ends inside `WriteConfigAs` (`settings.go:77`) leaves an empty
  `config.yaml`; each later start panics at `settings.go:101`.
  `NilOnlyIfMissing` allows it: the section is missing in the file `Init` read.
* Frames dropped as in `framer_dropped_frame` add up in `gDataBuffIndex` until `memcpy`
  runs past `gDataBuff` (`fly_bd.c:29`, 155, 253): `FindUndefined`, `HandleUndefined`.

## 4. What is proved

The `...Proofs` modules prove every invariant and action property of the passing
runs, and both refinements, for all values of the constants. Some theorems say more than a
run does; their properties are defined beside them, in the `...Proofs` module.

| theorem | property | rests on |
|---|---|---|
| `BdFramerProofs!TypeCorrect` | `TypeOK` | inductive by itself, with the arithmetic of the two wraps |
| `CleanBuffer` | `CleanBehindIndex` (the buffer is clear behind what the copies have put there) | `TypeOK` |
| `ComparesFrame` | `ComparesOwn` | what is compared is text, so not a cleared cell (`CleanBehindIndex`); the invariants of `NoByteTwice` and `FramesExact` |
| `RingKeepsStream` | `UnreadIsStream` | `TypeOK`; a lemma that `Push` keeps what is unread, one that `Take` does |
| `FindCmdProgresses` | `FindProgress` | `TypeOK`, `UnreadIsStream` |
| `NoByteTwice` | `NeverTwice` (no byte is handled in two frames) | an invariant on the buffer at every point of the loop: its bytes come from behind what was handled last |
| `FramesExact` | `FrameExact` | an invariant on the half-built frame: while `cmd_head` is 1 it runs without a gap up to the last byte taken |
| `BdFramerProofs!ImplementsFeed` | `FeedsSentences` | the invariants of the two above (`Fresh`: every cell of the buffer is clear or from behind what was handled last); a frame holds at least the byte it was begun with (`Begun`); each action then is one of the feed's or a stutter |
| `DmaRelayProofs!TypeCorrect` | `TypeOK` | the clients are fewer than `Wrap` |
| `CallbackNeverBlocks` | `SendNeverBlocks` | only the callback sends: every other step leaves the channel or shortens it |
| `CountAccurate` | `ConnNumAccurate` | the cardinality of `Served` under each step |
| `NeverStale` | `NothingStale` (no client is written a piece older than the picture its slice was sent for) | pieces a transfer has passed are newer than all slices sent, the others as new as the last |
| `PicturesInOrder` | `OnePictureEach` | before a picture is announced its number is larger than any in the channel or at a client |
| `TakenInTurn` | `TakesNewer` (a slice taken is newer than any slice any client has taken) | `OnePictureEach` |
| `TearsBounded` | `TornByOne` (a torn picture goes back by one picture at most, from any piece to a later one) | `FreshInv` and `Latest`: the buffer never holds more than two pictures, and they only get newer |
| `DmaRelayProofs!ImplementsFeed` | `FeedsPictures` | `FreshInv` of `NeverStale`, and that no piece is newer than the picture being received (`Latest`): each step then is one of the feed's or a stutter |
| `TimeSyncProofs!TypeCorrect` | `TypeOK` | the parts of a time fit 16 bits |
| `ClockLateByZone`, `WrongByDays`, `CommitsOneTime` | `LateByZone`, `WholeDaysBehind`, `OneTimeCommitted` | one invariant: the fields make a time not after the last sentence's, `utc_time` and `timeToFpga` are made of them, registers already written hold their part |
| `NotFarBack` | `NeverFarBack` | the same, and that `utc_time` is made of the fields between sentences too (`TimeKept`) |
| `MixesBounded` | `MixBounded` | the same, and that the high register alone is never ahead (`HighBehind`) |
| `StartupProofs!TypeCorrect`, `TaskFindsAll`, `PinPassesOnly`, `PinIsInput` | `TypeOK`, `TaskReady`, `OnlyPinPasses`, `PinAsWired` (what the pin is, against the comment) | `Done`: what has been done, and what may have failed, by the time `main` is at each step |
| `StartupBounded` | `ComesCloser` (every step of start-up leads to one nearer its end: at most 15) | a number for each step, which every action lessens |
| `SettingsProofs!TypeCorrect`, `NilWasMissing`, `ConfSettles` | `TypeOK`, `NilOnlyIfMissing`, `Settled` | four parts: the watcher keeps away until `Init` is done (`Alone`); what `Init` found is in each place on its way (`OnTheWay`); so is the file, on the watcher's (`Fresh`); a file being edited, or no YAML, is empty (`Emptied`) |
| `ServingNeverNil` | `ServesWhole` (a program that serves has the sections it has looked at, also where the threads raced) | `Looked`; no step makes a field of `Conf` nil |
| `AxiDmaProofs!TypeCorrect`, `NoDescriptorLost` | `TypeOK`, `DeviceClosed` | `Life`: what is open, built and counted at each point |
| `LegalRequests` | `RequestsLegal` | `Filled`: metadata below `built` are the driver's |
| `TableExact` | `FoundOnce` (`find_channel` finds each id once, at its channel's place, at the first `axidma_init` and at every later one) | `Filled`; the driver's ids differ |
| `CallbacksRight` | `CallbackRight` | each channel whose id is a place has what was asked for it, and between the two stores half of it (`Wanted`) |
| `ArraysListChannels` | `ArraysExact` | `ArraysInv`: while they are filled the arrays list the channels passed so far |
| `SafeWhenQuiet` | `SafeIfQuiet` | `Quiet`: a signal may come only while the structure is whole; the counting of `ArraysInv` |
| `FlyDmaProofs!TypeCorrect`, `BufferStaysHeld` | `TypeOK`, `BufferHeld` | `Held`: what is mapped is `rx_buf` or nothing |
| `NothingGoesOn` | `NothingUnderWay` | inductive by itself |
| `FilledFromFpga` | `ReceivesFromFpga` | assumes `ChannelReceives`; `Receives`: what `find_channel` gives for 0 receives |
| `UsesLibrary` | `Axi!Spec`, the specification of `AxiDma` over `FlyDma`'s variables | `Held`; each step is one of the library's or leaves it alone |
| `LibraryRight` | `AxiDma`'s `TypeOK`, `DeviceClosed`, `RequestsLegal`, `ArraysExact` | `UsesLibrary` and the theorems of `AxiDmaProofs`, instantiated |
| `NeverUndefined` | `DefinedOnce` (nothing undefined is reached before a second `fly_dma_init`, whatever the driver's ids) | `UsesLibrary`, `ArraysInv` of `AxiDmaProofs`, and that no step of `FlyDma` is the signal's |
| `UartLineProofs!TypeCorrect`, `Framing`, `Flushed`, `NoDescriptorLost` | `TypeOK`, `FramingAsAsked`, `OldBytesFlushed`, `DescriptorsHeld` | what will be put in force is made of what is in force (`Making`); what waits was received under it or under what was there before (`Waiting`); whose each descriptor is (`Owned`) |
| `SetTwice` | `SameAgain` (the same arguments again put the same settings in force) | what `UART1_Set` makes of settings it has made is these settings (`ConfiguredAgain`), the speed too (`SpeedStays`) |

Most of these are not inductive as they stand. `FrameExact` speaks
of the moment of handling only; the invariant must say what holds of a frame
that has begun and was cut. `NothingStale` speaks of what was written; the invariant
must say what the buffer holds *before* it is written, while a transfer is under
way. `NilOnlyIfMissing` and `Settled` speak of `Conf`; the invariant must follow
the file's values through three places, in two threads. `FramingAsAsked` speaks
of the line; the invariant must say what the local `options` hold while bytes
arrive. `FeedsSentences` speaks of frames handed over; the invariant must say what of an old
index and an old frame is still in the buffer between two frames. The strengthenings,
and the properties only theorems state, were first checked by TLC.

The theorems about the library are used, not only stated: `UsesLibrary` shows that
`fly_dma.c` over the library is a behaviour of `AxiDma`, and what is proved of every
user of the library then holds of this one. `SafeWhenQuiet` names three ways to undefined behaviour; `NeverUndefined` shows that
`fly_dma.c` takes none of them, since it waits for each transfer and sets no callback.

`TornByOne` says how bad `relay_torn_picture` can get: however slow the client, it sees
pictures newer than its slice and never a piece two pictures older than one before it.
`MixBounded` says the same of a register write that is lost: the registers
mix two times, and the FPGA's clock may be wrong by up to 18 hours ahead, the zone apart.

Assumptions on constants: `SizesAssumption` (the chunk is not longer than the ring, as 256 and
2048 are; the buffer has a cell), `ComparedAssumption` (what is compared with `RMC` lies in the buffer), `SignalAssumption` (a byte has a kind),
`ClientsAssumption` (fewer clients than 2^32, finitely many), `TimesAssumption`
(times after 1999 that a 32-bit `long` holds), `ZoneAssumption` (at most
half a day either way), `DriverAssumption` (a driver has a channel, and each has an id of its own),
`BufAssumption` (`rx_buf` is not longer than the memory there is),
`ArgumentsAssumption` (flags are flags, numbers are not negative), `EditsAssumption` and
`ExampleAssumption` (a file has for each field a value, one of another type, or nothing; the example
lacks none and has all of the right type), and that the bounds are numbers. TLC evaluates them on every run. `ChannelReceives` is not assumed of the constants but of the
one theorem that needs it, `FilledFromFpga`: where it fails, so does the property.

Only model-checked: `ReceptionGoesOn`, `StartupEnds` and `EditsFollowed`, liveness
properties under fairness, which are out of the prover's reach (of `StartupEnds`
the half that needs no fairness is proved: `StartupBounded`); and the four
violations, which are traces.

## 5. What is not modelled

* *The 4G modem* (`uart_4g.go`, `verify_4g.go`). Nothing calls it: `main.go:28` is a
  comment. Its `uart_fd` is never assigned, and it hands the headers of its
  slices to C in place of their memory (`uart_4g.go:44`, 56): commands and answers
  are never those meant, and what a long read overwrites is undefined. A model of
  commands, answers and time-outs would be of another program.
* *Dead code*: `read_fpga_register`, `release_fpga` and `spi_test` of `fpga.c`,
  `callbackdma` of `fly_dma.c`.
* *The three commands* sent to the receiver before the loop of `bd_start_task`: no answer is
  looked at. Sending is `UartLine`'s.
* *The bodies of callbacks* a user of the library registers, and getters that
  only return a field.
* *A zone with summer time*: `mktime` reads `tm_isdst`, which nothing sets.
* *A section of `config.yaml` with some entries mistyped*: it counts as `Mistyped` as a whole.
* *Logger, routers and swagger, build*: no state of their own at run time; the
  routers are commented out of `main`.
* *The kernel*: the drivers of DMA, SPI, GPIO and serial line are external and
  may do in the models whatever the code leaves to them.
