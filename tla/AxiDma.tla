------------------------------- MODULE AxiDma -------------------------------
(***************************************************************************)
(* The AXI DMA library, partc/libaxidma.c: the one static structure        *)
(* axidma_dev, filled by axidma_init and torn down by axidma_destroy, the  *)
(* calls a user makes in between, and the real-time signal by which the    *)
(* driver reports that a transfer nobody waits for has completed.  The     *)
(* signal's handler runs between any two steps of the user's thread, those *)
(* inside axidma_init, axidma_set_callback and axidma_destroy included.    *)
(*                                                                         *)
(* The driver is outside the repository.  It enumerates the N channels in  *)
(* Chan, maps pages, and refuses any request it likes.                     *)
(***************************************************************************)
EXTENDS Integers, Sequences, FiniteSets

CONSTANTS
  N,            \* channels the driver has
  Chan,         \* what it says of the channel at each place of its list
  Callbacks,    \* functions a user may register ...
  Data,         \* what the user may have them called with ...
  Null,         \* ... and no function, no data
  External,     \* buffers of other drivers
  Pages,        \* pages mmap can give
  Slack,        \* ints that malloc gives beyond the size asked for
  MaxInits,     \* bound: times axidma_init fills the structure
  MaxPending    \* bound: signals queued for one channel

Dirs == {"write", "read"}
Types == {"dma", "vdma"}
Kinds == Dirs \X Types        \* of dma_tx_chans, dma_rx_chans, vdma_tx_chans, ...
Places == 0..N-1
Page == 0..Pages-1
Ids == {Chan[j].id : j \in Places}
Kind(j) == <<Chan[j].dir, Chan[j].type>>

ASSUME DriverAssumption ==
  /\ N \in Nat \ {0}
  /\ Chan \in [Places -> [id : Nat, dir : Dirs, type : Types]]
  /\ \A i, j \in Places : Chan[i].id = Chan[j].id => i = j
ASSUME BoundsAssumption ==
  /\ Pages \in Nat /\ Slack \in Nat /\ MaxInits \in Nat /\ MaxPending \in Nat
  /\ Null \notin Callbacks

VARIABLES
  pc,           \* where the user's thread is in the library, or how it ended
  initialized,
  fd,           \* the device is open
  array,        \* for each kind the ids in its array_t
  num_channels,
  channels,     \* the metadata; places below built are valid memory
  built,
  call,         \* axidma_set_callback between its two stores: its arguments
  mapped, allocated,     \* pages mapped; regions given by axidma_malloc
  registered,            \* external buffers the driver knows
  running, cyclic,       \* channels with a transfer under way that is not waited for
  pending,               \* signals queued for each channel
  asked,                 \* what the driver was asked for last
  \* history:
  probes,       \* times the structure was filled
  wanted,       \* for each channel the callback and the data the user asked for
  rash,         \* axidma_destroy was called with a signal still to come
  beyond        \* a callback was set for an id that is no channel's number

dev == <<initialized, fd, array, num_channels, channels, built>>
memory == <<mapped, allocated, registered, call>>
driver == <<running, cyclic, pending, asked>>
history == <<probes, wanted, rash, beyond>>
vars == <<pc, dev, memory, driver, history>>

Junk == -1       \* an int of fresh memory
Entry == [id : Ids \cup {Junk}, dir : Dirs, type : Types,
          callback : Callbacks \cup {Null}, user_data : Data \cup {Null}]
Unset == [id |-> Junk, dir |-> "write", type |-> "dma", callback |-> Null, user_data |-> Null]

\* Arguments of axidma_set_callback, and the data the channel had before.
NoCall == [id |-> Junk, data |-> Null, former |-> Null]
Unwanted == [callback |-> Null, data |-> Null]

Init ==
  /\ pc = "user" /\ initialized = FALSE /\ fd = FALSE
  /\ array = [k \in Kinds |-> <<>>]
  /\ num_channels = 0 /\ channels = [j \in Places |-> Unset] /\ built = 0
  /\ mapped = {} /\ allocated = {} /\ registered = {} /\ call = NoCall
  /\ running = {} /\ cyclic = {} /\ pending = [c \in Ids |-> 0] /\ asked = {}
  /\ probes = 0 /\ wanted = [c \in Ids |-> Unwanted] /\ rash = FALSE /\ beyond = FALSE

Halted == pc \in {"aborted", "undefined"}
Abort == pc' = "aborted" /\ UNCHANGED <<dev, memory, driver, history>>

-----------------------------------------------------------------------------
(* axidma_init.                                                              *)

Open ==
  /\ pc = "user" /\ ~initialized /\ probes < MaxInits
  /\ fd' = TRUE /\ pc' = "opened"
  /\ UNCHANGED <<initialized, array, num_channels, channels, built, memory, driver, history>>

\* The driver does not answer, or has no channels.
ProbeFail ==
  /\ pc = "opened"
  /\ fd' = FALSE /\ pc' = "user"
  /\ UNCHANGED <<initialized, array, num_channels, channels, built, memory, driver, history>>

\* One of the mallocs fails, and what the others gave is freed.
AllocateFail ==
  /\ pc = "opened"
  /\ built' = 0
  /\ fd' = FALSE /\ pc' = "user"
  /\ UNCHANGED <<initialized, array, num_channels, channels, memory, driver, history>>

\* Mutant: the lengths of the arrays are set to the driver's counts beforehand.
Kept_Counted(k) == [p \in 1..Cardinality({j \in Places : Kind(j) = k}) |-> Junk]

\* The arrays are new memory; their lengths are not reset.
Kept(k) == [p \in 1..Len(array[k]) |-> Junk]

Allocate ==
  /\ pc = "opened"
  /\ array' = [k \in Kinds |-> Kept(k)]
  /\ num_channels' = N /\ channels' = [j \in Places |-> Unset] /\ built' = 0
  /\ probes' = probes + 1 /\ wanted' = [c \in Ids |-> Unwanted]
  /\ pc' = "filling"
  /\ UNCHANGED <<initialized, fd, memory, driver, rash, beyond>>

\* Ints the array of kind k has room for.
Room(k) == Cardinality({j \in Places : Kind(j) = k}) + Slack

\* One turn of the loop of categorize_channels: the channel's id goes to the end
\* of the array of its kind, which may lie behind the array's memory.
Categorize ==
  /\ pc = "filling" /\ built < N
  /\ IF Len(array[Kind(built)]) < Room(Kind(built))
     THEN /\ array' = [array EXCEPT ![Kind(built)] = Append(@, Chan[built].id)]
          /\ channels' = [channels EXCEPT ![built] =
               [id |-> Chan[built].id, dir |-> Chan[built].dir,
                type |-> Chan[built].type, callback |-> Null, user_data |-> Null]]
          /\ built' = built + 1
          /\ UNCHANGED pc
     ELSE pc' = "undefined" /\ UNCHANGED <<array, channels, built>>
  /\ UNCHANGED <<initialized, fd, num_channels, memory, driver, history>>

\* Mutant: a failure leaves the device open.
SetupFail_Open ==
  /\ pc = "filling" /\ built = N
  /\ pc' = "user"
  /\ UNCHANGED <<dev, memory, driver, history>>

\* sigaction or the request for the signal fails: the arrays stay.
SetupFail ==
  /\ pc = "filling" /\ built = N
  /\ fd' = FALSE /\ pc' = "user"
  /\ UNCHANGED <<initialized, array, num_channels, channels, built, memory, driver, history>>

Setup ==
  /\ pc = "filling" /\ built = N
  /\ initialized' = TRUE /\ pc' = "user"
  /\ UNCHANGED <<fd, array, num_channels, channels, built, memory, driver, history>>

-----------------------------------------------------------------------------
(* axidma_destroy: the memory is freed first, the device closed then.        *)

Usable == pc = "user" /\ initialized

Free ==
  /\ Usable
  /\ built' = 0 /\ pc' = "closing"
  /\ rash' = (rash \/ running /= {} \/ \E c \in Ids : pending[c] > 0)
  /\ UNCHANGED <<initialized, fd, array, num_channels, channels, memory, driver, probes, wanted, beyond>>

Close ==
  /\ pc = "closing"
  /\ fd' = FALSE /\ initialized' = FALSE /\ pc' = "user"
  /\ UNCHANGED <<array, num_channels, channels, built, memory, driver, history>>

-----------------------------------------------------------------------------
(* Memory.                                                                   *)

\* Mutant: the size is rounded up to one page more.
Region_Longer(addr, size) == addr..addr+size

Region(addr, size) == {p \in Page : addr <= p /\ p < addr + size}

Malloc(addr, size) ==
  /\ Usable
  /\ addr + size <= Pages /\ Region(addr, size) \cap mapped = {}
  /\ mapped' = mapped \cup Region(addr, size)
  /\ allocated' = allocated \cup {<<addr, size>>}
  /\ UNCHANGED <<pc, dev, registered, call, driver, history>>

\* axidma_free: munmap takes any pages, mapped or not.
Unmap(addr, size) ==
  /\ Usable
  /\ mapped' = mapped \ Region(addr, size)
  /\ allocated' = allocated \ {<<addr, size>>}
  /\ UNCHANGED <<pc, dev, registered, call, driver, history>>

Register(b) ==
  /\ Usable
  /\ registered' = registered \cup {b}
  /\ UNCHANGED <<pc, dev, mapped, allocated, call, driver, history>>

Unregister(b) ==
  /\ Usable /\ b \in registered
  /\ registered' = registered \ {b}
  /\ UNCHANGED <<pc, dev, mapped, allocated, call, driver, history>>

-----------------------------------------------------------------------------
(* Channels.                                                                 *)

\* The first entry with the id, if there is one.
FindChannel(c) ==
  {j \in 0..num_channels-1 : channels[j].id = c /\ \A i \in 0..j-1 : channels[i].id /= c}

\* Mutants: the entry that find_channel has found; channels counted from 1.
Index_Found(c) == CHOOSE j \in FindChannel(c) : TRUE
Index_FromOne(c) == c + 1

\* The entry axidma_set_callback writes, once it has seen that the id exists.
Index(c) == c

\* Up to the store of the function; the data are stored in the next step.
SetCallback(c, callback, data) ==
  /\ Usable /\ FindChannel(c) /= {}
  /\ wanted' = [wanted EXCEPT ![c] = [callback |-> callback, data |-> data]]
  /\ beyond' = (beyond \/ c >= num_channels)
  /\ IF Index(c) \in 0..num_channels-1
     THEN /\ channels' = [channels EXCEPT ![Index(c)].callback = callback]
          /\ call' = [id |-> c, data |-> data, former |-> channels[Index(c)].user_data]
          /\ pc' = "setting"
     ELSE pc' = "undefined" /\ UNCHANGED <<channels, call>>
  /\ UNCHANGED <<initialized, fd, array, num_channels, built, mapped, allocated, registered,
                 driver, probes, rash>>

StoreData ==
  /\ pc = "setting"
  /\ channels' = [channels EXCEPT ![Index(call.id)].user_data = call.data]
  /\ call' = NoCall /\ pc' = "user"
  /\ UNCHANGED <<initialized, fd, array, num_channels, built, mapped, allocated, registered,
                 driver, history>>

\* A request that is not waited for is under way from now on.
Start(ids, wait) == running' = IF wait THEN running ELSE running \cup ids

Oneway(c, wait) ==
  /\ Usable
  /\ \E j \in FindChannel(c) : asked' = {[id |-> c, dir |-> channels[j].dir]}
  /\ Start({c}, wait)
  /\ UNCHANGED <<pc, dev, memory, cyclic, pending, history>>

\* Mutant: only the transmitting channel's direction is looked at.
Twoway_TxOnly(tx, rx, wait) ==
  /\ Usable
  /\ \E j \in FindChannel(tx) : channels[j].dir = "write"
  /\ FindChannel(rx) /= {}
  /\ asked' = {[id |-> tx, dir |-> "write"], [id |-> rx, dir |-> "read"]}
  /\ Start({tx, rx}, wait)
  /\ UNCHANGED <<pc, dev, memory, cyclic, pending, history>>

Twoway(tx, rx, wait) ==
  /\ Usable
  /\ \E j \in FindChannel(tx) : channels[j].dir = "write"
  /\ \E j \in FindChannel(rx) : channels[j].dir = "read"
  /\ asked' = {[id |-> tx, dir |-> "write"], [id |-> rx, dir |-> "read"]}
  /\ Start({tx, rx}, wait)
  /\ UNCHANGED <<pc, dev, memory, cyclic, pending, history>>

Video(c) ==
  /\ Usable
  /\ \E j \in FindChannel(c) :
       /\ channels[j].type = "vdma"
       /\ asked' = {[id |-> c, dir |-> channels[j].dir]}
  /\ cyclic' = cyclic \cup {c}
  /\ UNCHANGED <<pc, dev, memory, running, pending, history>>

Stop(c) ==
  /\ Usable
  /\ \E j \in FindChannel(c) : asked' = {[id |-> c, dir |-> channels[j].dir]}
  /\ running' = running \ {c} /\ cyclic' = cyclic \ {c}
  /\ UNCHANGED <<pc, dev, memory, pending, history>>

\* An assertion fails: a second axidma_init, a channel that does not exist or
\* has not the direction or the type, a request that must not fail and did.
AssertFail ==
  /\ \/ Usable
     \/ pc = "closing"
  /\ Abort

-----------------------------------------------------------------------------
(* The driver and the signal.                                                *)

Complete(c) ==
  /\ ~Halted /\ c \in running /\ pending[c] < MaxPending
  /\ running' = running \ {c}
  /\ pending' = [pending EXCEPT ![c] = @ + 1]
  /\ UNCHANGED <<pc, dev, memory, cyclic, asked, history>>

\* What axidma_callback calls for channel c, and with what, if it gets there.
Called(c) ==
  IF c \in 0..num_channels-1
  THEN [callback |-> channels[c].callback, data |-> channels[c].user_data]
  ELSE Unwanted

\* axidma_callback.
Handler(c) ==
  /\ ~Halted /\ pending[c] > 0
  /\ pending' = [pending EXCEPT ![c] = @ - 1]
  /\ pc' = IF c >= num_channels THEN "aborted" ELSE IF c >= built THEN "undefined" ELSE pc
  /\ UNCHANGED <<dev, memory, running, cyclic, asked, history>>

-----------------------------------------------------------------------------

InitCall == Open \/ ProbeFail \/ AllocateFail \/ Allocate \/ Categorize \/ SetupFail \/ Setup
DestroyCall == Free \/ Close
MemoryCall ==
  \/ \E addr \in Page, size \in 1..Pages : Malloc(addr, size) \/ Unmap(addr, size)
  \/ \E b \in External : Register(b) \/ Unregister(b)
TransferCall ==
  \/ \E c \in Ids, wait \in BOOLEAN : Oneway(c, wait)
  \/ \E tx, rx \in Ids, wait \in BOOLEAN : Twoway(tx, rx, wait)
  \/ \E c \in Ids : Video(c) \/ Stop(c)
CallbackCall ==
  \/ \E c \in Ids, callback \in Callbacks \cup {Null}, data \in Data \cup {Null} :
       SetCallback(c, callback, data)
  \/ StoreData
Call == InitCall \/ DestroyCall \/ MemoryCall \/ TransferCall \/ CallbackCall \/ AssertFail
Signal == \E c \in Ids : Complete(c) \/ Handler(c)

Next == Call \/ Signal

Spec == Init /\ [][Next]_vars

-----------------------------------------------------------------------------
(* What the library is there for. *)

\* Every variable has its type.
TypeOK ==
  /\ pc \in {"user", "opened", "filling", "setting", "closing", "aborted", "undefined"}
  /\ initialized \in BOOLEAN /\ fd \in BOOLEAN
  /\ array \in [Kinds -> Seq(Ids \cup {Junk})]
  /\ num_channels \in {0, N} /\ built \in 0..N
  /\ channels \in [Places -> Entry]
  /\ call \in [id : Ids \cup {Junk}, data : Data \cup {Null}, former : Data \cup {Null}]
  /\ mapped \subseteq Page /\ allocated \subseteq Page \X (1..Pages)
  /\ registered \subseteq External
  /\ running \subseteq Ids /\ cyclic \subseteq Ids /\ pending \in [Ids -> 0..MaxPending]
  /\ asked \subseteq [id : Ids, dir : Dirs]
  /\ probes \in 0..MaxInits /\ rash \in BOOLEAN /\ beyond \in BOOLEAN
  /\ wanted \in [Ids -> [callback : Callbacks \cup {Null}, data : Data \cup {Null}]]

\* The array of a kind lists the ids of that kind and nothing else, none twice.
Lists(k) ==
  /\ {array[k][p] : p \in 1..Len(array[k])} = {Chan[j].id : j \in {i \in Places : Kind(i) = k}}
  /\ \A p, q \in 1..Len(array[k]) : array[k][p] = array[k][q] => p = q

\* libaxidma.h:76, :87: the getters give every channel of the driver, each in the
\* array of its kind and once, when the structure was filled for the first time.
\* The second time, which libaxidma.h:55 allows, they do not: the arrays keep
\* their lengths.
ArraysExact == initialized /\ pc = "user" /\ probes = 1 => \A k \in Kinds : Lists(k)

\* libaxidma.h:43-45 and :180-181: the completion of a channel calls the function the
\* user has registered for that channel with the data registered along with it.
\* axidma_set_callback searches by id and writes by number, the handler reads by
\* number.  The promise is kept but between the two stores of
\* axidma_set_callback (libaxidma.c:394): there a completion calls the new
\* function with the data of the former.
CallbackRight ==
  initialized /\ ~Halted =>
    \A c \in Ids : wanted[c].callback /= Null =>
      /\ Called(c).callback = wanted[c].callback
      /\ Called(c).data = IF call.id = c THEN call.former ELSE wanted[c].data

\* Whatever the user asks for, the driver is asked only for channels it has, in
\* their direction, and for video only on a video channel.
RequestsLegal ==
  /\ \A r \in asked : \E j \in Places : Chan[j].id = r.id /\ Chan[j].dir = r.dir
  /\ \A c \in cyclic : \E j \in Places : Chan[j].id = c /\ Chan[j].type = "vdma"

\* The handler never touches freed memory, and nothing is written outside an
\* array, but in three ways: the structure was filled twice, axidma_destroy was
\* called with a completion still to come, or a callback was set for an id that
\* is not smaller than the number of channels (libaxidma.c:391 looks for the id,
\* :393 takes it for a number).
SafeIfQuiet == pc = "undefined" => rash \/ probes > 1 \/ beyond

\* No way through axidma_init and axidma_destroy leaves the device open behind it.
DeviceClosed == pc = "user" /\ fd => initialized
=============================================================================
