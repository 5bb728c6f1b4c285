---------------------------- MODULE AxiDmaProofs ----------------------------
(***************************************************************************)
(* Theorems about AxiDma, for any channels, ids, buffers and bounds.       *)
(***************************************************************************)
EXTENDS AxiDma, FiniteSetTheorems, TLAPS

-----------------------------------------------------------------------------
(* Type correctness, and where in its life the structure is.                 *)

\* The device is open where it must be, and a structure in use is whole.
Life ==
  /\ pc = "opened" => probes < MaxInits
  /\ pc \in {"opened", "filling"} => ~initialized
  /\ pc = "filling" => num_channels = N
  /\ pc = "closing" => initialized
  /\ initialized => num_channels = N
  /\ initialized /\ pc \in {"user", "setting"} => built = N
  /\ pc = "setting" => initialized /\ call.id \in Ids /\ call.id < N
  /\ pc \in {"user", "opened", "filling", "closing"} => call = NoCall
  /\ pc = "user" /\ fd => initialized

LEMMA Constants ==
  /\ N \in Nat /\ N > 0
  /\ \A j \in Places : j \in Nat /\ j < N
  /\ \A j \in Places : Chan[j].id \in Ids /\ Chan[j].dir \in Dirs /\ Chan[j].type \in Types
                       /\ Kind(j) \in Kinds
  /\ MaxInits \in Nat /\ MaxPending \in Nat /\ Pages \in Nat /\ Slack \in Nat
  /\ Ids \subseteq Nat
BY DriverAssumption, BoundsAssumption DEF Places, Ids, Kind, Kinds

LEMMA InitTypeOK == Init => TypeOK /\ Life
<1> SUFFICES ASSUME Init PROVE TypeOK /\ Life
  OBVIOUS
<1>1. array \in [Kinds -> Seq(Ids \cup {Junk})]
  BY DEF Init
<1>2. channels \in [Places -> Entry]
  BY DEF Init, Unset, Entry, Dirs, Types
<1>3. /\ pending \in [Ids -> 0..MaxPending]
      /\ wanted \in [Ids -> [callback : Callbacks \cup {Null}, data : Data \cup {Null}]]
      /\ call \in [id : Ids \cup {Junk}, data : Data \cup {Null}, former : Data \cup {Null}]
  BY Constants DEF Init, NoCall, Unwanted
<1>4. num_channels \in {0, N} /\ built \in 0..N /\ probes \in 0..MaxInits
  BY Constants DEF Init
<1>5. TypeOK
  BY <1>1, <1>2, <1>3, <1>4 DEF Init, TypeOK
<1> QED
  BY <1>5 DEF Init, Life

LEMMA InitCallTypeOK ==
  ASSUME TypeOK, Life, InitCall
  PROVE  TypeOK' /\ Life'
<1> USE DEF memory, driver, history
<1>1. CASE Open
  BY <1>1, Constants DEF Open, TypeOK, Life
<1>2. CASE ProbeFail
  BY <1>2, Constants DEF ProbeFail, TypeOK, Life
<1>3. CASE AllocateFail
  <2>1. 0 \in 0..N
    BY Constants
  <2> QED
    BY <1>3, <2>1 DEF AllocateFail, TypeOK, Life
<1>4. CASE Allocate
  <2>1. array' \in [Kinds -> Seq(Ids \cup {Junk})]
    <3>1. ASSUME NEW k \in Kinds PROVE Kept(k) \in Seq(Ids \cup {Junk})
      <4>1. Len(array[k]) \in Nat
        BY DEF TypeOK
      <4> QED
        BY <4>1 DEF Kept
    <3> QED
      BY <1>4, <3>1 DEF Allocate
  <2>2. channels' \in [Places -> Entry]
    BY <1>4 DEF Allocate, Unset, Entry, Dirs, Types
  <2>3. /\ wanted' \in [Ids -> [callback : Callbacks \cup {Null}, data : Data \cup {Null}]]
        /\ probes' \in 0..MaxInits
    BY <1>4, Constants DEF Allocate, Unwanted, TypeOK, Life
  <2> QED
    BY <1>4, <2>1, <2>2, <2>3, Constants DEF Allocate, TypeOK, Life
<1>5. CASE Categorize
  <2>1. built \in Places /\ built + 1 \in 0..N
    BY <1>5, Constants DEF Categorize, TypeOK, Places
  <2>2. CASE Len(array[Kind(built)]) < Room(Kind(built))
    <3> DEFINE entry == [id |-> Chan[built].id, dir |-> Chan[built].dir,
                         type |-> Chan[built].type, callback |-> Null, user_data |-> Null]
    <3>1. entry \in Entry
      BY <2>1, Constants DEF Entry
    <3>2. array' = [array EXCEPT ![Kind(built)] = Append(@, Chan[built].id)]
          /\ channels' = [channels EXCEPT ![built] = entry]
          /\ built' = built + 1 /\ UNCHANGED pc
      BY <1>5, <2>2 DEF Categorize
    <3> HIDE DEF entry
    <3>3. channels' \in [Places -> Entry]
      BY <2>1, <3>1, <3>2 DEF TypeOK
    <3>4. array' \in [Kinds -> Seq(Ids \cup {Junk})]
      <4>1. Append(array[Kind(built)], Chan[built].id) \in Seq(Ids \cup {Junk})
        BY <2>1, Constants DEF TypeOK
      <4> QED
        BY <3>2, <4>1 DEF TypeOK
    <3> QED
      BY <1>5, <2>1, <3>2, <3>3, <3>4 DEF Categorize, TypeOK, Life
  <2>3. CASE ~(Len(array[Kind(built)]) < Room(Kind(built)))
    BY <1>5, <2>3 DEF Categorize, TypeOK, Life
  <2> QED
    BY <2>2, <2>3
<1>6. CASE SetupFail
  BY <1>6, Constants DEF SetupFail, TypeOK, Life
<1>7. CASE Setup
  BY <1>7, Constants DEF Setup, TypeOK, Life
<1> QED
  BY <1>1, <1>2, <1>3, <1>4, <1>5, <1>6, <1>7 DEF InitCall

LEMMA DestroyCallTypeOK ==
  ASSUME TypeOK, Life, DestroyCall
  PROVE  TypeOK' /\ Life'
<1> USE Constants DEF memory, driver, history, Usable
<1>1. CASE Free
  BY <1>1 DEF Free, TypeOK, Life
<1>2. CASE Close
  BY <1>2 DEF Close, TypeOK, Life
<1> QED
  BY <1>1, <1>2 DEF DestroyCall

LEMMA MemoryCallTypeOK ==
  ASSUME TypeOK, Life, MemoryCall
  PROVE  TypeOK' /\ Life'
<1> USE DEF dev, driver, history
<1>1. ASSUME NEW addr \in Page, NEW size \in 1..Pages, Malloc(addr, size) PROVE TypeOK' /\ Life'
  BY <1>1 DEF Malloc, Region, TypeOK, Life
<1>2. ASSUME NEW addr \in Page, NEW size \in 1..Pages, Unmap(addr, size) PROVE TypeOK' /\ Life'
  BY <1>2 DEF Unmap, TypeOK, Life
<1>3. ASSUME NEW b \in External, Register(b) \/ Unregister(b) PROVE TypeOK' /\ Life'
  BY <1>3 DEF Register, Unregister, TypeOK, Life
<1> QED
  BY <1>1, <1>2, <1>3 DEF MemoryCall

\* An id that find_channel finds is that of a channel of the driver.
LEMMA Found ==
  ASSUME TypeOK, Life, Usable, NEW c, NEW j \in FindChannel(c)
  PROVE  j \in Places /\ built = N /\ channels[j].id = c
BY Constants DEF FindChannel, Usable, Life, Places

LEMMA TransferCallTypeOK ==
  ASSUME TypeOK, Life, TransferCall
  PROVE  TypeOK' /\ Life'
<1> USE DEF dev, memory, history
<1>1. ASSUME NEW c \in Ids, NEW wait \in BOOLEAN, Oneway(c, wait) PROVE TypeOK' /\ Life'
  <2>1. Usable
    BY <1>1 DEF Oneway
  <2>2. PICK j \in FindChannel(c) : asked' = {[id |-> c, dir |-> channels[j].dir]}
    BY <1>1 DEF Oneway
  <2>3. channels[j].dir \in Dirs
    BY <2>1, <2>2, Found DEF TypeOK, Entry
  <2>4. asked' \subseteq [id : Ids, dir : Dirs]
    BY <2>2, <2>3
  <2> QED
    BY <1>1, <2>4 DEF Oneway, Start, TypeOK, Life
<1>2. ASSUME NEW tx \in Ids, NEW rx \in Ids, NEW wait \in BOOLEAN, Twoway(tx, rx, wait)
      PROVE TypeOK' /\ Life'
  <2>1. asked' \subseteq [id : Ids, dir : Dirs]
    BY <1>2 DEF Twoway, Dirs
  <2> QED
    BY <1>2, <2>1 DEF Twoway, Start, TypeOK, Life
<1>3. ASSUME NEW c \in Ids, Video(c) PROVE TypeOK' /\ Life'
  <2>1. Usable
    BY <1>3 DEF Video
  <2>2. PICK j \in FindChannel(c) : asked' = {[id |-> c, dir |-> channels[j].dir]}
    BY <1>3 DEF Video
  <2>3. channels[j].dir \in Dirs
    BY <2>1, <2>2, Found DEF TypeOK, Entry
  <2>4. asked' \subseteq [id : Ids, dir : Dirs]
    BY <2>2, <2>3
  <2> QED
    BY <1>3, <2>4 DEF Video, TypeOK, Life
<1>4. ASSUME NEW c \in Ids, Stop(c) PROVE TypeOK' /\ Life'
  <2>1. Usable
    BY <1>4 DEF Stop
  <2>2. PICK j \in FindChannel(c) : asked' = {[id |-> c, dir |-> channels[j].dir]}
    BY <1>4 DEF Stop
  <2>3. channels[j].dir \in Dirs
    BY <2>1, <2>2, Found DEF TypeOK, Entry
  <2>4. asked' \subseteq [id : Ids, dir : Dirs]
    BY <2>2, <2>3
  <2> QED
    BY <1>4, <2>4 DEF Stop, TypeOK, Life
<1> QED
  BY <1>1, <1>2, <1>3, <1>4 DEF TransferCall

LEMMA SetCallbackTypeOK ==
  ASSUME TypeOK, Life, NEW c \in Ids, NEW callback \in Callbacks \cup {Null},
         NEW data \in Data \cup {Null}, SetCallback(c, callback, data)
  PROVE  TypeOK' /\ Life'
<1> USE DEF driver
<1>1. num_channels = N /\ Places = 0..num_channels-1 /\ built = N /\ pc = "user" /\ initialized
  BY DEF SetCallback, Usable, Life, Places
<1>2. /\ wanted' \in [Ids -> [callback : Callbacks \cup {Null}, data : Data \cup {Null}]]
      /\ beyond' \in BOOLEAN
  BY DEF SetCallback, TypeOK
<1>3. CASE Index(c) \in 0..num_channels-1
  <2>1. /\ channels' = [channels EXCEPT ![Index(c)].callback = callback]
        /\ call' = [id |-> c, data |-> data, former |-> channels[Index(c)].user_data]
        /\ pc' = "setting"
    BY <1>3 DEF SetCallback
  <2>2. Index(c) \in Places /\ c < N
    BY <1>1, <1>3, Constants DEF Index
  <2>3. channels' \in [Places -> Entry]
    BY <2>1, <2>2 DEF TypeOK, Entry
  <2>4. channels[Index(c)].user_data \in Data \cup {Null}
    BY <2>2 DEF TypeOK, Entry
  <2>5. call' \in [id : Ids \cup {Junk}, data : Data \cup {Null}, former : Data \cup {Null}]
    BY <2>1, <2>4
  <2>6. call'.id = c
    BY <2>1
  <2> QED
    BY <1>1, <1>2, <2>1, <2>2, <2>3, <2>5, <2>6 DEF SetCallback, TypeOK, Life
<1>4. CASE Index(c) \notin 0..num_channels-1
  BY <1>1, <1>2, <1>4 DEF SetCallback, TypeOK, Life
<1> QED
  BY <1>3, <1>4

\* The channel whose data are still to be stored.
LEMMA Stored ==
  ASSUME TypeOK, Life, StoreData
  PROVE  /\ call.id \in Ids /\ call.id \in Places /\ call.data \in Data \cup {Null}
         /\ channels' = [channels EXCEPT ![call.id].user_data = call.data]
         /\ call' = NoCall /\ pc = "setting" /\ pc' = "user"
BY Constants DEF StoreData, Life, TypeOK, Places, Index

LEMMA StoreDataTypeOK ==
  ASSUME TypeOK, Life, StoreData
  PROVE  TypeOK' /\ Life'
<1>1. channels' \in [Places -> Entry]
  <2>1. PICK c \in Places, d \in Data \cup {Null} :
          channels' = [channels EXCEPT ![c].user_data = d]
    BY Stored
  <2>2. channels[c] \in Entry
    BY DEF TypeOK
  <2>3. [channels[c] EXCEPT !.user_data = d] \in Entry
    BY <2>2 DEF Entry
  <2> QED
    BY <2>1, <2>3 DEF TypeOK
<1>2. call' \in [id : Ids \cup {Junk}, data : Data \cup {Null}, former : Data \cup {Null}]
  BY Stored DEF NoCall
<1> QED
  BY <1>1, <1>2, Stored DEF StoreData, driver, history, TypeOK, Life

LEMMA CallbackCallTypeOK ==
  ASSUME TypeOK, Life, CallbackCall
  PROVE  TypeOK' /\ Life'
BY SetCallbackTypeOK, StoreDataTypeOK DEF CallbackCall

LEMMA SignalTypeOK ==
  ASSUME TypeOK, Life, Signal
  PROVE  TypeOK' /\ Life'
<1> USE DEF dev, memory, history
<1>1. ASSUME NEW c \in Ids, Complete(c) PROVE TypeOK' /\ Life'
  <2>1. pending[c] + 1 \in 0..MaxPending
    BY <1>1, Constants DEF Complete, TypeOK
  <2> QED
    BY <1>1, <2>1 DEF Complete, TypeOK, Life
<1>2. ASSUME NEW c \in Ids, Handler(c) PROVE TypeOK' /\ Life'
  <2>1. pending[c] - 1 \in 0..MaxPending
    BY <1>2, Constants DEF Handler, TypeOK
  <2>2. pc' \in {"aborted", "undefined", pc}
    BY <1>2 DEF Handler
  <2>3. pending' \in [Ids -> 0..MaxPending]
    BY <1>2, <2>1 DEF Handler, TypeOK
  <2> QED
    BY <1>2, <2>2, <2>3 DEF Handler, TypeOK, Life
<1> QED
  BY <1>1, <1>2 DEF Signal

LEMMA NextTypeOK ==
  ASSUME TypeOK, Life, [Next]_vars
  PROVE  TypeOK' /\ Life'
<1>1. CASE AssertFail
  BY <1>1 DEF AssertFail, Abort, dev, memory, driver, history, TypeOK, Life
<1>2. CASE UNCHANGED vars
  BY <1>2 DEF vars, dev, memory, driver, history, TypeOK, Life
<1> QED
  BY <1>1, <1>2, InitCallTypeOK, DestroyCallTypeOK, MemoryCallTypeOK, TransferCallTypeOK,
     CallbackCallTypeOK, SignalTypeOK DEF Next, Call

LEMMA LifeInvariant == Spec => [](TypeOK /\ Life)
<1>1. TypeOK /\ Life /\ [Next]_vars => (TypeOK /\ Life)'
  BY NextTypeOK
<1> QED
  BY InitTypeOK, <1>1, PTL DEF Spec

\* All variables keep their types, whatever the driver's channels and the calls.
THEOREM TypeCorrect == Spec => []TypeOK
BY LifeInvariant, PTL

\* No way through axidma_init and axidma_destroy leaves the device open behind it.
THEOREM NoDescriptorLost == Spec => []DeviceClosed
<1>1. TypeOK /\ Life => DeviceClosed
  BY DEF Life, DeviceClosed
<1> QED
  BY LifeInvariant, <1>1, PTL

-----------------------------------------------------------------------------
(* Requests.                                                                 *)

\* The metadata are those of the driver's channels, as far as they were filled in.
Filled ==
  \A j \in Places : j < built =>
    channels[j].id = Chan[j].id /\ channels[j].dir = Chan[j].dir /\ channels[j].type = Chan[j].type

LEMMA FoundRight ==
  ASSUME TypeOK, Life, Filled, Usable, NEW c, NEW j \in FindChannel(c)
  PROVE  j \in Places /\ Chan[j].id = c /\ channels[j].dir = Chan[j].dir
         /\ channels[j].type = Chan[j].type
BY Found, Constants DEF Filled

LEMMA NextFilled ==
  ASSUME TypeOK, Life, Filled, [Next]_vars
  PROVE  Filled'
<1> USE DEF Filled
<1>1. CASE Categorize
  <2>1. built \in Places
    BY <1>1, Constants DEF Categorize, TypeOK, Places
  <2>2. CASE Len(array[Kind(built)]) < Room(Kind(built))
    <3>1. /\ channels' = [channels EXCEPT ![built] =
                [id |-> Chan[built].id, dir |-> Chan[built].dir,
                 type |-> Chan[built].type, callback |-> Null, user_data |-> Null]]
          /\ built' = built + 1
      BY <1>1, <2>2 DEF Categorize
    <3>2. \A j \in Places : j < built + 1 => j < built \/ j = built
      BY <2>1, Constants
    <3> QED
      BY <2>1, <3>1, <3>2 DEF TypeOK
  <2>3. CASE ~(Len(array[Kind(built)]) < Room(Kind(built)))
    BY <1>1, <2>3 DEF Categorize
  <2> QED
    BY <2>2, <2>3
<1>2. CASE CallbackCall
  <2>1. ASSUME NEW c \in Ids, NEW callback, NEW data, SetCallback(c, callback, data) PROVE Filled'
    <3>1. CASE Index(c) \in 0..num_channels-1
      <4>1. /\ channels' = [channels EXCEPT ![Index(c)].callback = callback]
            /\ built' = built
        BY <2>1, <3>1 DEF SetCallback
      <4>2. ASSUME NEW j \in Places
            PROVE  /\ channels'[j].id = channels[j].id /\ channels'[j].dir = channels[j].dir
                   /\ channels'[j].type = channels[j].type
        BY <4>1 DEF TypeOK, Entry
      <4> QED
        BY <4>1, <4>2
    <3>2. CASE Index(c) \notin 0..num_channels-1
      BY <2>1, <3>2 DEF SetCallback
    <3> QED
      BY <3>1, <3>2
  <2>2. CASE StoreData
    BY <2>2, Stored DEF StoreData, TypeOK
  <2> QED
    BY <1>2, <2>1, <2>2 DEF CallbackCall
<1>3. CASE AllocateFail \/ Allocate \/ Free
  BY <1>3, Constants DEF AllocateFail, Allocate, Free
<1>4. CASE Open \/ ProbeFail \/ SetupFail \/ Setup \/ Close \/ AssertFail
  BY <1>4 DEF Open, ProbeFail, SetupFail, Setup, Close, AssertFail, Abort, dev
<1>5. CASE MemoryCall
  BY <1>5 DEF MemoryCall, Malloc, Unmap, Register, Unregister, dev
<1>6. CASE TransferCall
  BY <1>6 DEF TransferCall, Oneway, Twoway, Video, Stop, dev
<1>7. CASE Signal
  BY <1>7 DEF Signal, Complete, Handler, dev
<1>8. CASE UNCHANGED vars
  BY <1>8 DEF vars, dev
<1> QED
  BY <1>1, <1>2, <1>3, <1>4, <1>5, <1>6, <1>7, <1>8 DEF Next, Call, InitCall, DestroyCall

LEMMA TransferCallLegal ==
  ASSUME TypeOK, Life, Filled, RequestsLegal, TransferCall
  PROVE  RequestsLegal'
<1> USE DEF RequestsLegal
<1>1. ASSUME NEW c \in Ids, NEW wait \in BOOLEAN, Oneway(c, wait) PROVE RequestsLegal'
  <2>1. PICK j \in FindChannel(c) : asked' = {[id |-> c, dir |-> channels[j].dir]}
    BY <1>1 DEF Oneway
  <2>2. j \in Places /\ Chan[j].id = c /\ channels[j].dir = Chan[j].dir
    BY <1>1, <2>1, FoundRight DEF Oneway
  <2>3. cyclic' = cyclic
    BY <1>1 DEF Oneway
  <2> QED
    BY <2>1, <2>2, <2>3
<1>2. ASSUME NEW tx \in Ids, NEW rx \in Ids, NEW wait \in BOOLEAN, Twoway(tx, rx, wait)
      PROVE  RequestsLegal'
  <2>1. PICK j \in FindChannel(tx) : channels[j].dir = "write"
    BY <1>2 DEF Twoway
  <2>2. PICK i \in FindChannel(rx) : channels[i].dir = "read"
    BY <1>2 DEF Twoway
  <2>3. /\ j \in Places /\ Chan[j].id = tx /\ Chan[j].dir = "write"
        /\ i \in Places /\ Chan[i].id = rx /\ Chan[i].dir = "read"
    BY <1>2, <2>1, <2>2, FoundRight DEF Twoway
  <2> QED
    BY <1>2, <2>3 DEF Twoway
<1>3. ASSUME NEW c \in Ids, Video(c) PROVE RequestsLegal'
  <2>1. PICK j \in FindChannel(c) :
          channels[j].type = "vdma" /\ asked' = {[id |-> c, dir |-> channels[j].dir]}
    BY <1>3 DEF Video
  <2>2. j \in Places /\ Chan[j].id = c /\ channels[j].dir = Chan[j].dir /\ Chan[j].type = "vdma"
    BY <1>3, <2>1, FoundRight DEF Video
  <2>3. cyclic' = cyclic \cup {c}
    BY <1>3 DEF Video
  <2> QED
    BY <2>1, <2>2, <2>3
<1>4. ASSUME NEW c \in Ids, Stop(c) PROVE RequestsLegal'
  <2>1. PICK j \in FindChannel(c) : asked' = {[id |-> c, dir |-> channels[j].dir]}
    BY <1>4 DEF Stop
  <2>2. j \in Places /\ Chan[j].id = c /\ channels[j].dir = Chan[j].dir
    BY <1>4, <2>1, FoundRight DEF Stop
  <2>3. cyclic' \subseteq cyclic
    BY <1>4 DEF Stop
  <2> QED
    BY <2>1, <2>2, <2>3
<1> QED
  BY <1>1, <1>2, <1>3, <1>4 DEF TransferCall

\* Only transfers ask the driver for anything.
LEMMA OthersAskNothing ==
  ASSUME [Next]_vars, ~TransferCall
  PROVE  UNCHANGED <<asked, cyclic>>
<1> USE DEF driver, dev, memory, history
<1>1. CASE InitCall
  BY <1>1 DEF InitCall, Open, ProbeFail, AllocateFail, Allocate, Categorize, SetupFail, Setup
<1>2. CASE DestroyCall \/ AssertFail
  BY <1>2 DEF DestroyCall, Free, Close, AssertFail, Abort
<1>3. CASE MemoryCall
  BY <1>3 DEF MemoryCall, Malloc, Unmap, Register, Unregister
<1>4. CASE Signal
  BY <1>4 DEF Signal, Complete, Handler
<1>5. CASE CallbackCall
  BY <1>5 DEF CallbackCall, SetCallback, StoreData
<1>6. CASE UNCHANGED vars
  BY <1>6 DEF vars
<1> QED
  BY <1>1, <1>2, <1>3, <1>4, <1>5, <1>6 DEF Next, Call

\* The driver is asked only for channels it has, in their direction, and for
\* video only on a video channel, whatever the user asks for.
THEOREM LegalRequests == Spec => []RequestsLegal
<1> DEFINE IInv == TypeOK /\ Life /\ Filled /\ RequestsLegal
<1>1. Init => IInv
  BY InitTypeOK, Constants DEF Init, Filled, RequestsLegal
<1>2. IInv /\ [Next]_vars => IInv'
  <2>1. IInv /\ [Next]_vars /\ ~TransferCall => RequestsLegal'
    BY OthersAskNothing DEF RequestsLegal
  <2> QED
    BY <2>1, NextTypeOK, NextFilled, TransferCallLegal
<1> QED
  BY <1>1, <1>2, PTL DEF Spec

\* Whatever the user does in between, and however often the structure is torn
\* down and filled again, find_channel finds each of the driver's ids at one
\* place of the table, that of its channel: unlike the arrays, the table does
\* not suffer from a second axidma_init.
FoundOnce ==
  Usable => \A c \in Ids : \E j \in Places : FindChannel(c) = {j} /\ Chan[j].id = c

LEMMA FilledFound ==
  ASSUME TypeOK, Life, Filled, Usable, NEW c \in Ids
  PROVE  \E j \in Places : FindChannel(c) = {j} /\ Chan[j].id = c
<1>1. PICK j \in Places : Chan[j].id = c
  BY DEF Ids
<1>2. /\ num_channels = N /\ built = N
      /\ \A i \in Places : channels[i].id = Chan[i].id
  BY Constants DEF Usable, Life, Filled
<1>3. j \in FindChannel(c)
  <2>1. \A i \in 0..j-1 : i \in Places /\ i /= j
    BY Constants DEF Places
  <2>2. \A i \in 0..j-1 : channels[i].id /= c
    BY <1>1, <1>2, <2>1, DriverAssumption
  <2> QED
    BY <1>1, <1>2, <2>2 DEF FindChannel, Places
<1>4. ASSUME NEW i \in FindChannel(c) PROVE i = j
  BY <1>1, <1>4, FoundRight, DriverAssumption
<1> QED
  BY <1>1, <1>3, <1>4

\* The table of channels is exact for any number of fillings.
THEOREM TableExact == Spec => []FoundOnce
<1> DEFINE IInv == TypeOK /\ Life /\ Filled
<1>1. Init => IInv
  BY InitTypeOK, Constants DEF Init, Filled
<1>2. IInv /\ [Next]_vars => IInv'
  BY NextTypeOK, NextFilled
<1>3. IInv => FoundOnce
  BY FilledFound DEF FoundOnce
<1> QED
  BY <1>1, <1>2, <1>3, PTL DEF Spec

-----------------------------------------------------------------------------
(* Callbacks.                                                                *)

\* Every channel that an id is the number of has the callback and the data that
\* were asked for that id, but for the data axidma_set_callback is about to store.
Wanted ==
  /\ \A c \in Ids \cap Places :
       /\ channels[c].callback = wanted[c].callback
       /\ channels[c].user_data = IF call.id = c THEN call.former ELSE wanted[c].data
       /\ call.id = c => call.data = wanted[c].data
  /\ ~Halted => \A c \in Ids \ Places : wanted[c] = Unwanted
  /\ pc = "filling" => \A c \in Ids : wanted[c] = Unwanted

LEMMA NextWanted ==
  ASSUME TypeOK, Life, Wanted, [Next]_vars
  PROVE  Wanted'
<1> USE DEF Wanted, Halted
<1>1. CASE Categorize
  <2>1. /\ built \in Places /\ pc = "filling" /\ UNCHANGED <<wanted, call>>
        /\ \A c \in Ids : wanted[c] = Unwanted /\ call.id /= c
    <3>1. Junk \notin Ids
      BY Constants DEF Junk
    <3> QED
      BY <1>1, <3>1, Constants DEF Categorize, TypeOK, Life, NoCall, Places, history, memory
  <2>2. CASE Len(array[Kind(built)]) < Room(Kind(built))
    <3>1. /\ channels' = [channels EXCEPT ![built] =
                [id |-> Chan[built].id, dir |-> Chan[built].dir,
                 type |-> Chan[built].type, callback |-> Null, user_data |-> Null]]
          /\ UNCHANGED pc
      BY <1>1, <2>2 DEF Categorize
    <3> QED
      BY <2>1, <3>1 DEF TypeOK, Unwanted
  <2>3. CASE ~(Len(array[Kind(built)]) < Room(Kind(built)))
    BY <1>1, <2>1, <2>3 DEF Categorize
  <2> QED
    BY <2>2, <2>3
<1>2. ASSUME NEW c \in Ids, NEW callback \in Callbacks \cup {Null}, NEW data \in Data \cup {Null},
             SetCallback(c, callback, data)
      PROVE  Wanted'
  <2>1. /\ Places = 0..num_channels-1 /\ pc = "user" /\ call.id = Junk
        /\ wanted' = [wanted EXCEPT ![c] = [callback |-> callback, data |-> data]]
        /\ \A d \in Ids : d /= Junk
    BY <1>2, Constants DEF SetCallback, Usable, Life, NoCall, Places, Junk
  <2>2. CASE c \in Places
    <3>1. /\ channels' = [channels EXCEPT ![c].callback = callback]
          /\ call' = [id |-> c, data |-> data, former |-> channels[c].user_data]
          /\ pc' = "setting"
      BY <1>2, <2>1, <2>2 DEF SetCallback, Index
    <3>2. ASSUME NEW d \in Ids \cap Places
          PROVE  /\ channels'[d].callback = wanted'[d].callback
                 /\ channels'[d].user_data = IF call'.id = d THEN call'.former ELSE wanted'[d].data
                 /\ call'.id = d => call'.data = wanted'[d].data
      <4>1. CASE d = c
        BY <2>1, <3>1, <4>1 DEF TypeOK, Entry
      <4>2. CASE d /= c
        BY <2>1, <3>1, <4>2 DEF TypeOK, Entry
      <4> QED
        BY <4>1, <4>2
    <3> QED
      BY <2>1, <2>2, <3>1, <3>2 DEF TypeOK
  <2>3. CASE c \notin Places
    <3>1. pc' = "undefined" /\ UNCHANGED <<channels, call>>
      BY <1>2, <2>1, <2>3 DEF SetCallback, Index
    <3> QED
      BY <2>1, <2>3, <3>1 DEF TypeOK
  <2> QED
    BY <2>2, <2>3
<1>3. CASE StoreData
  <2>1. /\ call.id \in Ids /\ call.id \in Places /\ call' = NoCall /\ pc = "setting" /\ pc' = "user"
        /\ channels' = [channels EXCEPT ![call.id].user_data = call.data]
        /\ wanted' = wanted
    BY <1>3, Stored DEF StoreData, history
  <2>2. \A c \in Ids : call'.id /= c
    BY <2>1, Constants DEF NoCall, Junk
  <2>3. ASSUME NEW c \in Ids \cap Places
        PROVE  /\ channels'[c].callback = wanted'[c].callback
               /\ channels'[c].user_data = wanted'[c].data
    <3>1. CASE c = call.id
      BY <2>1, <3>1 DEF TypeOK, Entry
    <3>2. CASE c /= call.id
      BY <2>1, <3>2 DEF TypeOK, Entry
    <3> QED
      BY <3>1, <3>2
  <2> QED
    BY <2>1, <2>2, <2>3
<1>4. CASE Allocate
  <2>1. /\ channels' = [j \in Places |-> Unset] /\ wanted' = [c \in Ids |-> Unwanted]
        /\ call' = NoCall /\ \A c \in Ids : c /= Junk
    BY <1>4, Constants DEF Allocate, memory, Life, Junk
  <2> QED
    BY <2>1 DEF Unset, Unwanted, NoCall
<1>5. CASE Open \/ ProbeFail \/ AllocateFail \/ SetupFail \/ Setup \/ Free \/ Close \/ AssertFail
  <2>1. UNCHANGED <<channels, wanted, call>> /\ ~Halted /\ pc' /= "filling"
    BY <1>5 DEF Open, ProbeFail, AllocateFail, SetupFail, Setup, Free, Close, AssertFail, Abort,
       Usable, dev, memory, history
  <2> QED
    BY <2>1
<1>6. CASE MemoryCall
  <2>1. UNCHANGED <<pc, channels, wanted, call>>
    BY <1>6 DEF MemoryCall, Malloc, Unmap, Register, Unregister, dev, history
  <2> QED
    BY <2>1
<1>7. CASE TransferCall
  <2>1. UNCHANGED <<pc, channels, wanted, call>>
    BY <1>7 DEF TransferCall, Oneway, Twoway, Video, Stop, dev, memory, history
  <2> QED
    BY <2>1
<1>8. CASE Signal
  <2>1. UNCHANGED <<channels, wanted, call>> /\ pc' \in {pc, "aborted", "undefined"}
    BY <1>8 DEF Signal, Complete, Handler, dev, memory, history
  <2> QED
    BY <2>1
<1>9. CASE UNCHANGED vars
  BY <1>9 DEF vars, dev, memory, history
<1> QED
  BY <1>1, <1>2, <1>3, <1>4, <1>5, <1>6, <1>7, <1>8, <1>9
     DEF Next, Call, CallbackCall, InitCall, DestroyCall

\* The completion of a channel calls the function registered for it with the data
\* registered for it, but between the two stores of axidma_set_callback, where it
\* is the former data.
THEOREM CallbacksRight == Spec => []CallbackRight
<1> DEFINE IInv == TypeOK /\ Life /\ Wanted
<1>1. Init => IInv
  <2>1. \A c \in Ids : c /= Junk
    BY Constants DEF Junk
  <2> QED
    BY <2>1, InitTypeOK DEF Init, Wanted, Unset, Unwanted, NoCall
<1>2. IInv /\ [Next]_vars => IInv'
  BY NextTypeOK, NextWanted
<1>3. IInv => CallbackRight
  <2> SUFFICES ASSUME IInv, initialized, ~Halted, NEW c \in Ids, wanted[c].callback /= Null
               PROVE  /\ Called(c).callback = wanted[c].callback
                      /\ Called(c).data = IF call.id = c THEN call.former ELSE wanted[c].data
    BY DEF CallbackRight
  <2>1. c \in Places
    BY DEF Wanted, Unwanted
  <2>2. c \in 0..num_channels-1
    BY <2>1 DEF Life, Places
  <2> QED
    BY <2>1, <2>2 DEF Wanted, Called
<1> QED
  BY <1>1, <1>2, <1>3, PTL DEF Spec
-----------------------------------------------------------------------------
(* The arrays, as long as the structure was filled once.                     *)

OfKind(k) == {j \in Places : Kind(j) = k}
Placed(k, n) == {j \in OfKind(k) : j < n}

\* An array holds the ids of the first n channels that are of its kind.
Holds(a, k, n) ==
  /\ Len(a) = Cardinality(Placed(k, n))
  /\ \A p \in 1..Len(a) : \E j \in Placed(k, n) : a[p] = Chan[j].id
  /\ \A j \in Placed(k, n) : \E p \in 1..Len(a) : a[p] = Chan[j].id
  /\ \A p, q \in 1..Len(a) : a[p] = a[q] => p = q

ArraysInv ==
  /\ probes = 0 => \A k \in Kinds : array[k] = <<>>
  /\ pc = "filling" => probes > 0
  /\ probes = 1 /\ (pc = "filling" \/ (pc \in {"user", "setting"} /\ initialized)) =>
       \A k \in Kinds : Holds(array[k], k, built)

LEMMA PlacedFinite ==
  ASSUME NEW k, NEW n \in Nat
  PROVE  /\ IsFiniteSet(Placed(k, n)) /\ IsFiniteSet(OfKind(k))
         /\ Cardinality(Placed(k, n)) \in Nat /\ Cardinality(OfKind(k)) \in Nat
<1>1. IsFiniteSet(Places)
  BY Constants, FS_Interval DEF Places
<1>2. OfKind(k) \in SUBSET Places /\ Placed(k, n) \in SUBSET Places
  BY DEF OfKind, Placed
<1> QED
  BY <1>1, <1>2, FS_Subset, FS_CardinalityType

LEMMA HoldsNothing ==
  ASSUME NEW k
  PROVE  Holds(<<>>, k, 0)
<1>1. Placed(k, 0) = {}
  BY Constants DEF Placed, OfKind
<1> QED
  BY <1>1, FS_EmptySet DEF Holds

\* One turn of categorize_channels's loop, for the channel's kind and the others.
LEMMA PlacedNext ==
  ASSUME NEW k, NEW n \in Places
  PROVE  /\ Kind(n) = k => /\ Placed(k, n+1) = Placed(k, n) \cup {n} /\ n \notin Placed(k, n)
                            /\ Cardinality(Placed(k, n+1)) = Cardinality(Placed(k, n)) + 1
                            /\ Cardinality(Placed(k, n)) < Cardinality(OfKind(k))
         /\ Kind(n) /= k => Placed(k, n+1) = Placed(k, n)
<1>1. n \in Nat /\ \A j \in Places : j < n+1 <=> j < n \/ j = n
  BY Constants
<1>2. CASE Kind(n) = k
  <2>1. Placed(k, n+1) = Placed(k, n) \cup {n} /\ n \notin Placed(k, n)
    <3>1. \A j : j \in Placed(k, n+1) <=> j \in Places /\ Kind(j) = k /\ j < n+1
      BY DEF Placed, OfKind
    <3>2. \A j : j \in Placed(k, n) <=> j \in Places /\ Kind(j) = k /\ j < n
      BY DEF Placed, OfKind
    <3>3. \A j : j \in Placed(k, n+1) <=> j \in Placed(k, n) \/ j = n
      BY <1>1, <1>2, <3>1, <3>2
    <3>4. n \notin Placed(k, n)
      BY <1>1, <3>2
    <3> QED
      BY <3>3, <3>4
  <2>2. Cardinality(Placed(k, n+1)) = Cardinality(Placed(k, n)) + 1
    BY <1>1, <2>1, PlacedFinite, FS_AddElement
  <2>3. Placed(k, n+1) \in SUBSET OfKind(k)
    BY DEF Placed
  <2>4. Cardinality(Placed(k, n+1)) <= Cardinality(OfKind(k))
    BY <1>1, <2>3, PlacedFinite, FS_Subset
  <2> QED
    BY <1>1, <1>2, <2>1, <2>2, <2>4, PlacedFinite
<1>3. CASE Kind(n) /= k
  BY <1>1, <1>3 DEF Placed, OfKind
<1> QED
  BY <1>2, <1>3

LEMMA HoldsNext ==
  ASSUME NEW n \in Places, NEW a \in Seq(Ids \cup {Junk}), Holds(a, Kind(n), n)
  PROVE  Holds(Append(a, Chan[n].id), Kind(n), n+1)
<1> DEFINE k == Kind(n)
           b == Append(a, Chan[n].id)
<1>1. /\ Placed(k, n+1) = Placed(k, n) \cup {n} /\ n \notin Placed(k, n)
      /\ Cardinality(Placed(k, n+1)) = Cardinality(Placed(k, n)) + 1
  BY PlacedNext
<1>2. Placed(k, n) \subseteq Places /\ Chan[n].id \in Ids
  BY Constants DEF Placed, OfKind
<1>3. \A j \in Placed(k, n) : Chan[j].id /= Chan[n].id
  BY <1>1, <1>2, DriverAssumption
<1>4. /\ Len(a) \in Nat /\ Len(b) = Len(a) + 1
      /\ \A p \in 1..Len(a) : b[p] = a[p]
      /\ b[Len(a) + 1] = Chan[n].id
  BY <1>2
<1> HIDE DEF b, k
<1>5. \A p \in 1..Len(b) : p \in 1..Len(a) \/ p = Len(a) + 1
  BY <1>4
<1>6. 1..Len(a) \subseteq 1..Len(b) /\ Len(a) + 1 \in 1..Len(b)
  BY <1>4
<1>7. Holds(a, k, n)
  BY DEF k
<1>8. Len(b) = Cardinality(Placed(k, n+1))
  BY <1>1, <1>4, <1>7 DEF Holds
<1>9. ASSUME NEW p \in 1..Len(b) PROVE \E j \in Placed(k, n+1) : b[p] = Chan[j].id
  <2>1. CASE p \in 1..Len(a)
    <3>1. PICK j \in Placed(k, n) : a[p] = Chan[j].id
      BY <1>7, <2>1 DEF Holds
    <3> QED
      BY <1>1, <1>4, <2>1, <3>1
  <2>2. CASE p = Len(a) + 1
    BY <1>1, <1>4, <2>2
  <2> QED
    BY <1>5, <2>1, <2>2
<1>10. \A j \in Placed(k, n+1) : \E p \in 1..Len(b) : b[p] = Chan[j].id
  BY <1>1, <1>4, <1>6, <1>7 DEF Holds
<1>11. ASSUME NEW p \in 1..Len(b), NEW q \in 1..Len(b), b[p] = b[q] PROVE p = q
  <2>1. ASSUME NEW r \in 1..Len(a) PROVE b[r] /= Chan[n].id
    <3>1. PICK j \in Placed(k, n) : a[r] = Chan[j].id
      BY <1>7 DEF Holds
    <3> QED
      BY <1>3, <1>4, <3>1
  <2> QED
    BY <1>4, <1>5, <1>7, <1>11, <2>1 DEF Holds
<1>12. Holds(b, k, n+1)
  BY <1>8, <1>9, <1>10, <1>11 DEF Holds
<1> QED
  BY <1>12 DEF b, k

\* While the structure is filled for the first time no array comes to its end.
LEMMA RoomLeft ==
  ASSUME TypeOK, ArraysInv, pc = "filling", built < N, probes <= 1
  PROVE  Len(array[Kind(built)]) < Room(Kind(built))
<1>1. built \in Places /\ built \in Nat /\ probes = 1
  BY Constants DEF TypeOK, ArraysInv, Places
<1>2. Holds(array[Kind(built)], Kind(built), built)
  <2>1. \A k \in Kinds : Holds(array[k], k, built)
    BY <1>1 DEF ArraysInv
  <2> QED
    BY <1>1, <2>1, Constants
<1>3. Len(array[Kind(built)]) < Cardinality(OfKind(Kind(built)))
  BY <1>1, <1>2, PlacedNext DEF Holds
<1>4. Room(Kind(built)) = Cardinality(OfKind(Kind(built))) + Slack
  BY DEF Room, OfKind
<1> QED
  BY <1>1, <1>2, <1>3, <1>4, PlacedFinite, Constants DEF Holds

LEMMA NextArrays ==
  ASSUME TypeOK, Life, ArraysInv, [Next]_vars
  PROVE  ArraysInv'
<1> USE DEF ArraysInv
<1>1. CASE Allocate
  <2>1. probes' = probes + 1 /\ probes \in Nat /\ built' = 0
    BY <1>1, Constants DEF Allocate, TypeOK
  <2>2. ASSUME probes = 0, NEW k \in Kinds PROVE array'[k] = <<>>
    <3>1. array[k] = <<>>
      BY <2>2
    <3>2. Kept(k) = <<>>
      BY <3>1 DEF Kept
    <3> QED
      BY <1>1, <3>2 DEF Allocate
  <2> QED
    BY <1>1, <2>1, <2>2, HoldsNothing DEF Allocate
<1>2. CASE Categorize
  <2>1. /\ pc = "filling" /\ built < N /\ built \in Places /\ UNCHANGED <<initialized, probes>>
        /\ probes \in Nat /\ probes > 0
    BY <1>2, Constants DEF Categorize, TypeOK, Places, history
  <2>2. CASE Len(array[Kind(built)]) < Room(Kind(built)) /\ probes = 1
    <3>1. /\ array' = [array EXCEPT ![Kind(built)] = Append(@, Chan[built].id)]
          /\ built' = built + 1 /\ pc' = pc
      BY <1>2, <2>2 DEF Categorize
    <3>2. ASSUME NEW k \in Kinds PROVE Holds(array'[k], k, built + 1)
      <4>1. Holds(array[k], k, built) /\ array[k] \in Seq(Ids \cup {Junk})
        <5>1. \A l \in Kinds : Holds(array[l], l, built)
          BY <2>1, <2>2
        <5> QED
          BY <5>1 DEF TypeOK
      <4>2. CASE k = Kind(built)
        BY <2>1, <3>1, <4>1, <4>2, HoldsNext DEF TypeOK
      <4>3. CASE k /= Kind(built)
        <5>1. array'[k] = array[k]
          BY <3>1, <4>3 DEF TypeOK
        <5> QED
          BY <2>1, <4>1, <4>3, <5>1, PlacedNext DEF Holds
      <4> QED
        BY <4>2, <4>3
    <3> QED
      BY <2>1, <3>1, <3>2
  <2>3. CASE ~(Len(array[Kind(built)]) < Room(Kind(built))) /\ probes = 1
    BY <1>2, <2>1, <2>3 DEF Categorize
  <2>4. CASE probes /= 1
    BY <1>2, <2>1, <2>4 DEF Categorize
  <2> QED
    BY <2>2, <2>3, <2>4
<1>3. CASE Setup
  <2>1. pc = "filling" /\ pc' = "user" /\ UNCHANGED <<array, built, probes>>
    BY <1>3 DEF Setup, history
  <2> QED
    BY <2>1
<1>4. CASE Open \/ ProbeFail \/ AllocateFail \/ SetupFail \/ Free \/ Close
  BY <1>4 DEF Open, ProbeFail, AllocateFail, SetupFail, Free, Close, history, Life
<1>5. CASE AssertFail
  BY <1>5 DEF AssertFail, Abort, dev, history
<1>6. CASE MemoryCall
  BY <1>6 DEF MemoryCall, Malloc, Unmap, Register, Unregister, dev, history
<1>7. CASE TransferCall
  <2>1. UNCHANGED <<pc, array, built, initialized, probes>>
    BY <1>7 DEF TransferCall, Oneway, Twoway, Video, Stop, dev, history
  <2> QED
    BY <2>1
<1>8. ASSUME NEW c \in Ids, Complete(c) \/ Handler(c) PROVE ArraysInv'
  <2>1. pc' = pc \/ pc' \in {"aborted", "undefined"}
    BY <1>8 DEF Complete, Handler
  <2> QED
    BY <1>8, <2>1 DEF Complete, Handler, dev, history
<1>9. CASE CallbackCall
  <2>1. /\ pc' \in {"user", "setting", "undefined"} /\ initialized /\ pc \in {"user", "setting"}
        /\ UNCHANGED <<array, built, initialized, probes>>
    BY <1>9 DEF CallbackCall, SetCallback, StoreData, Usable, Life, history
  <2> QED
    BY <2>1
<1>10. CASE UNCHANGED vars
  BY <1>10 DEF vars, dev, history
<1> QED
  BY <1>1, <1>2, <1>3, <1>4, <1>5, <1>6, <1>7, <1>8, <1>9, <1>10
     DEF Next, Call, InitCall, DestroyCall, Signal

\* Filled once, each array lists the channels of its kind, none missing and none twice.
THEOREM ArraysListChannels == Spec => []ArraysExact
<1> DEFINE IInv == TypeOK /\ Life /\ ArraysInv
<1>1. Init => IInv
  BY InitTypeOK DEF Init, ArraysInv
<1>2. IInv /\ [Next]_vars => IInv'
  BY NextTypeOK, NextArrays
<1>3. IInv => ArraysExact
  <2> SUFFICES ASSUME IInv, initialized, pc = "user", probes = 1, NEW k \in Kinds PROVE Lists(k)
    BY DEF ArraysExact
  <2>1. Holds(array[k], k, N)
    BY DEF ArraysInv, Life
  <2>2. Placed(k, N) = {i \in Places : Kind(i) = k}
    BY Constants DEF Placed, OfKind
  <2>3. {array[k][p] : p \in 1..Len(array[k])} \subseteq {Chan[j].id : j \in Placed(k, N)}
    BY <2>1 DEF Holds
  <2>4. {Chan[j].id : j \in Placed(k, N)} \subseteq {array[k][p] : p \in 1..Len(array[k])}
    BY <2>1 DEF Holds
  <2>5. {array[k][p] : p \in 1..Len(array[k])} = {Chan[j].id : j \in Placed(k, N)}
    BY <2>3, <2>4
  <2> QED
    BY <2>1, <2>2, <2>5 DEF Lists, Holds
<1> QED
  BY <1>1, <1>2, <1>3, PTL DEF Spec

-----------------------------------------------------------------------------
(* The signal and freed memory.                                              *)

\* Unless axidma_destroy was rash a signal may only come while the structure is whole.
Quiet ==
  ~rash /\ probes <= 1 =>
    \/ running = {} /\ \A c \in Ids : pending[c] = 0
    \/ pc \in {"user", "setting"} /\ initialized
    \/ pc = "aborted"
    \/ beyond

LEMMA NextQuiet ==
  ASSUME TypeOK, Life, ArraysInv, Quiet, SafeIfQuiet, [Next]_vars
  PROVE  Quiet' /\ SafeIfQuiet'
<1> USE DEF Quiet, SafeIfQuiet
<1>0. probes \in Nat
  BY Constants DEF TypeOK
<1>1. CASE Allocate
  BY <1>0, <1>1 DEF Allocate, driver, Life
<1>2. CASE Categorize
  <2>1. CASE probes <= 1
    <3>1. Len(array[Kind(built)]) < Room(Kind(built))
      BY <1>2, <2>1, RoomLeft DEF Categorize
    <3> QED
      BY <1>2, <3>1 DEF Categorize, driver, history
  <2>2. CASE ~(probes <= 1)
    BY <1>0, <1>2, <2>2 DEF Categorize, history
  <2> QED
    BY <2>1, <2>2
<1>3. CASE Free
  <2>1. ~rash' => ~rash /\ running = {} /\ \A c \in Ids : pending[c] = 0
    <3>1. \A c \in Ids : pending[c] \in Nat
      BY Constants DEF TypeOK
    <3>2. rash' = (rash \/ running /= {} \/ \E c \in Ids : pending[c] > 0)
      BY <1>3 DEF Free
    <3>3. ~rash' => ~rash /\ running = {} /\ \A c \in Ids : ~(pending[c] > 0)
      BY <3>2, Zenon
    <3> QED
      BY <3>1, <3>3
  <2>2. UNCHANGED <<running, pending, probes>> /\ pc' = "closing"
    BY <1>3 DEF Free, driver
  <2> QED
    BY <2>1, <2>2
<1>4. CASE Open \/ ProbeFail \/ AllocateFail \/ SetupFail \/ Setup \/ Close
  BY <1>4 DEF Open, ProbeFail, AllocateFail, SetupFail, Setup, Close, driver, history, Life
<1>5. CASE AssertFail
  BY <1>5 DEF AssertFail, Abort, driver, history
<1>6. CASE MemoryCall
  BY <1>6 DEF MemoryCall, Malloc, Unmap, Register, Unregister, Usable, dev, driver, history
<1>7. CASE TransferCall
  <2>1. pc = "user" /\ initialized /\ UNCHANGED <<pc, initialized, rash, probes, beyond>>
    BY <1>7 DEF TransferCall, Oneway, Twoway, Video, Stop, Usable, dev, history
  <2> QED
    BY <2>1
<1>8. CASE CallbackCall
  <2>1. ASSUME NEW c \in Ids, NEW callback, NEW data, SetCallback(c, callback, data)
        PROVE  Quiet' /\ SafeIfQuiet'
    <3>1. CASE Index(c) \in 0..num_channels-1
      BY <2>1, <3>1 DEF SetCallback, Usable
    <3>2. CASE Index(c) \notin 0..num_channels-1
      <4>1. c \in Nat /\ num_channels \in Nat
        BY Constants DEF TypeOK
      <4>2. c >= num_channels
        BY <3>2, <4>1 DEF Index
      <4> QED
        BY <2>1, <4>2 DEF SetCallback
    <3> QED
      BY <3>1, <3>2
  <2>2. CASE StoreData
    BY <2>2 DEF StoreData, history, Life
  <2> QED
    BY <1>8, <2>1, <2>2 DEF CallbackCall
<1>9. ASSUME NEW c \in Ids, Complete(c) PROVE Quiet' /\ SafeIfQuiet'
  <2>1. pc' = pc /\ pc /= "aborted" /\ pc /= "undefined" /\ UNCHANGED <<initialized, rash, probes, beyond>>
    BY <1>9 DEF Complete, Halted, dev, history
  <2>2. ~rash /\ probes <= 1 /\ ~beyond => pc \in {"user", "setting"} /\ initialized
    BY <1>9, <2>1 DEF Complete
  <2> QED
    BY <2>1, <2>2
<1>10. ASSUME NEW c \in Ids, Handler(c) PROVE Quiet' /\ SafeIfQuiet'
  <2>1. pc /= "aborted" /\ pc /= "undefined" /\ UNCHANGED <<initialized, rash, probes, beyond>>
    BY <1>10 DEF Handler, Halted, dev, history
  <2>2. pending[c] \in Nat /\ pending[c] > 0
    BY <1>10, Constants DEF Handler, TypeOK
  <2>3. CASE ~rash /\ probes <= 1 /\ ~beyond
    <3>1. pc \in {"user", "setting"} /\ initialized
      BY <2>1, <2>2, <2>3
    <3>2. num_channels = built
      BY <3>1 DEF Life
    <3>3. pc' = "aborted" \/ pc' = pc
      BY <1>10, <3>2 DEF Handler
    <3> QED
      BY <2>1, <3>1, <3>3
  <2>4. CASE rash \/ ~(probes <= 1) \/ beyond
    BY <1>0, <2>1, <2>4
  <2> QED
    BY <2>3, <2>4
<1>11. CASE UNCHANGED vars
  BY <1>11 DEF vars, dev, driver, history
<1> QED
  BY <1>1, <1>2, <1>3, <1>4, <1>5, <1>6, <1>7, <1>8, <1>9, <1>10, <1>11
     DEF Next, Call, InitCall, DestroyCall, Signal

\* The handler touches no freed memory and no array is written behind its end,
\* unless the structure was filled twice, freed with a signal to come, or a
\* callback set for an id that is not smaller than the number of channels.
THEOREM SafeWhenQuiet == Spec => []SafeIfQuiet
<1> DEFINE IInv == TypeOK /\ Life /\ ArraysInv /\ Quiet /\ SafeIfQuiet
<1>1. Init => IInv
  BY InitTypeOK DEF Init, ArraysInv, Quiet, SafeIfQuiet
<1>2. IInv /\ [Next]_vars => IInv'
  BY NextTypeOK, NextArrays, NextQuiet
<1> QED
  BY <1>1, <1>2, PTL DEF Spec
=============================================================================
