---------------------------- MODULE FlyDmaProofs ----------------------------
(***************************************************************************)
(* Theorems about FlyDma, for any channels, buffer and bounds.             *)
(***************************************************************************)
EXTENDS FlyDma, TLAPS

LEMMA Sizes == Pages \in Nat /\ BufPages \in Nat /\ BufPages > 0 /\ N \in Nat /\ N > 0
BY BufAssumption, BoundsAssumption, DriverAssumption

-----------------------------------------------------------------------------
(* rx_buf.                                                                   *)

\* What is mapped at each point of the program is rx_buf whole, or nothing.
Held ==
  /\ fly \in {"mapped", "ready", "receiving", "stopped"} =>
       /\ mapped = Lib!Region(rx_buf, BufPages)
       /\ rx_buf \in Lib!Page /\ rx_buf + BufPages <= Pages
  /\ fly \in {"off", "init", "opened", "unmapped"} => mapped = {}
  /\ fly = "off" => ~fd

LEMMA NextHeld ==
  ASSUME TypeOK, Held, [Next]_vars
  PROVE  TypeOK' /\ Held'
<1> USE DEF TypeOK, Held, Lib!memory
<1>1. CASE Begin
  BY <1>1 DEF Begin, Lib!Open
<1>2. CASE InitFail
  BY <1>2 DEF InitFail
<1>3. CASE InitGoesOn
  <2>1. mapped' = mapped
    BY <1>3 DEF InitGoesOn, Lib!Allocate, Lib!Categorize
  <2> QED
    BY <1>3, <2>1 DEF InitGoesOn
<1>4. CASE InitDone
  <2>1. mapped' = mapped
    BY <1>4 DEF InitDone, Lib!Setup
  <2> QED
    BY <1>4, <2>1 DEF InitDone
<1>5. CASE SetUpFail
  BY <1>5 DEF SetUpFail
<1>6. CASE Map
  <2>1. PICK addr \in Lib!Page : Lib!Malloc(addr, BufPages) /\ rx_buf' = addr
    BY <1>6 DEF Map
  <2>2. /\ mapped' = mapped \cup Lib!Region(addr, BufPages) /\ addr + BufPages <= Pages
        /\ fly' = "mapped" /\ mapped = {}
    BY <1>6, <2>1 DEF Map, Lib!Malloc
  <2> QED
    BY <2>1, <2>2
<1>7. CASE StopFirst
  <2>1. mapped' = mapped /\ fly = "mapped" /\ fly' = "ready" /\ rx_buf' = rx_buf
    BY <1>7 DEF StopFirst, Lib!Stop
  <2> QED
    BY <2>1
<1>8. CASE Transfer
  <2>1. mapped' = mapped /\ fly \in {"ready", "receiving"} /\ fly' = "receiving" /\ rx_buf' = rx_buf
    BY <1>8 DEF Transfer, Lib!Oneway
  <2> QED
    BY <2>1
<1>9. CASE TransferFail
  BY <1>9 DEF TransferFail, libVars
<1>10. CASE FreeBuf
  <2>1. /\ mapped' = mapped \ Lib!Region(rx_buf, BufPages) /\ fly = "stopped"
        /\ fly' = "unmapped" /\ rx_buf' = rx_buf
    BY <1>10 DEF FreeBuf, Lib!Unmap
  <2> QED
    BY <2>1
<1>11. CASE Destroy
  BY <1>11 DEF Destroy, Lib!Free
<1>12. CASE Destroyed
  BY <1>12 DEF Destroyed, Lib!Close
<1>13. CASE Aborts
  BY <1>13 DEF Aborts, Lib!AssertFail, Lib!Abort, Lib!dev
<1>14. CASE UNCHANGED vars
  BY <1>14 DEF vars, libVars
<1> QED
  BY <1>1, <1>2, <1>3, <1>4, <1>5, <1>6, <1>7, <1>8, <1>9, <1>10, <1>11, <1>12, <1>13, <1>14 DEF Next

LEMMA HeldInvariant == Spec => [](TypeOK /\ Held)
<1>1. Init => TypeOK /\ Held
  BY DEF Init, Lib!Init, TypeOK, Held
<1>2. TypeOK /\ Held /\ [Next]_vars => (TypeOK /\ Held)'
  BY NextHeld
<1> QED
  BY <1>1, <1>2, PTL DEF Spec

\* fly_dma.c's variables keep their types.
THEOREM TypeCorrect == Spec => []TypeOK
BY HeldInvariant, PTL

\* rx_buf is mapped whole as long as a transfer may fill it, and given back.
THEOREM BufferStaysHeld == Spec => []BufferHeld
<1>1. TypeOK /\ Held => BufferHeld
  BY DEF Held, BufferHeld
<1> QED
  BY HeldInvariant, <1>1, PTL

-----------------------------------------------------------------------------
(* Transfers.                                                                *)

\* No transfer goes on behind the program's back, so that no signal ever comes.
THEOREM NothingGoesOn == Spec => []NothingUnderWay
<1>1. Init => NothingUnderWay
  BY DEF Init, Lib!Init, NothingUnderWay
<1>2. NothingUnderWay /\ [Next]_vars => NothingUnderWay'
  <2> SUFFICES ASSUME NothingUnderWay, [Next]_vars
               PROVE  running' \subseteq running /\ cyclic' \subseteq cyclic /\ pending' = pending
    BY DEF NothingUnderWay
  <2> USE DEF Lib!driver
  <2>1. CASE Begin \/ InitFail \/ InitGoesOn \/ InitDone
    BY <2>1 DEF Begin, InitFail, InitGoesOn, InitDone, Lib!Open, Lib!ProbeFail, Lib!AllocateFail,
       Lib!SetupFail, Lib!Allocate, Lib!Categorize, Lib!Setup
  <2>2. CASE SetUpFail \/ TransferFail
    BY <2>2 DEF SetUpFail, TransferFail, libVars
  <2>3. CASE Map
    BY <2>3 DEF Map, Lib!Malloc
  <2>4. CASE StopFirst
    BY <2>4 DEF StopFirst, Lib!Stop
  <2>5. CASE Transfer
    <3>1. running' = running /\ UNCHANGED <<cyclic, pending>>
      BY <2>5 DEF Transfer, Lib!Oneway, Lib!Start
    <3> QED
      BY <3>1
  <2>6. CASE FreeBuf
    BY <2>6 DEF FreeBuf, Lib!Unmap
  <2>7. CASE Destroy \/ Destroyed
    BY <2>7 DEF Destroy, Destroyed, Lib!Free, Lib!Close
  <2>8. CASE Aborts
    BY <2>8 DEF Aborts, Lib!AssertFail, Lib!Abort
  <2>9. CASE UNCHANGED vars
    BY <2>9 DEF vars, libVars
  <2> QED
    BY <2>1, <2>2, <2>3, <2>4, <2>5, <2>6, <2>7, <2>8, <2>9 DEF Next
<1> QED
  BY <1>1, <1>2, PTL DEF Spec

\* libaxidma.c:442 takes the direction of a transfer from its channel.
\* fly_dma_init looks for a receive channel and wants one (fly_dma.c:77), but
\* every transfer is on channel 0 (:87, :128), whatever the receive channel's id
\* is: what fills rx_buf is what the FPGA sends only on a board whose channel 0
\* receives.
ReceivesFromFpga == fly = "receiving" => \A r \in asked : r.dir = "read"

\* The channel with id 0, if there is one, receives.
ChannelReceives == \A j \in Lib!Places : Chan[j].id = Channel => Chan[j].dir = "read"

\* What find_channel gives for channel 0 receives.
Receives ==
  /\ num_channels \in {0, N} /\ built \in Nat
  /\ DOMAIN channels = Lib!Places
  /\ \A j \in Lib!Places : channels[j].id = Channel => channels[j].dir = "read"

LEMMA NextReceives ==
  ASSUME ChannelReceives, Receives, [Next]_vars
  PROVE  Receives'
<1> USE DEF Receives, ChannelReceives
<1>1. CASE InitGoesOn
  <2>1. CASE Lib!Allocate
    BY <2>1, Sizes DEF Lib!Allocate, Lib!Unset, Lib!Junk, Channel
  <2>2. CASE Lib!Categorize
    <3>1. built \in Lib!Places /\ num_channels' = num_channels
      BY <2>2, Sizes DEF Lib!Categorize, Lib!Places
    <3>2. CASE UNCHANGED <<channels, built>>
      BY <3>1, <3>2
    <3>3. CASE /\ built' = built + 1
               /\ channels' = [channels EXCEPT ![built] =
                    [id |-> Chan[built].id, dir |-> Chan[built].dir,
                     type |-> Chan[built].type, callback |-> Null, user_data |-> Null]]
      BY <3>1, <3>3
    <3> QED
      BY <2>2, <3>2, <3>3 DEF Lib!Categorize
  <2> QED
    BY <1>1, <2>1, <2>2 DEF InitGoesOn
<1>2. CASE Begin \/ InitFail \/ InitDone
  BY <1>2 DEF Begin, InitFail, InitDone, Lib!Open, Lib!ProbeFail, Lib!AllocateFail, Lib!SetupFail, Lib!Setup
<1>3. CASE Map \/ FreeBuf
  BY <1>3 DEF Map, Lib!Malloc, FreeBuf, Lib!Unmap, Lib!dev
<1>4. CASE StopFirst
  BY <1>4 DEF StopFirst, Lib!Stop, Lib!dev
<1>5. CASE Transfer
  BY <1>5 DEF Transfer, Lib!Oneway, Lib!dev
<1>6. CASE Destroy \/ Destroyed
  BY <1>6 DEF Destroy, Destroyed, Lib!Free, Lib!Close
<1>7. CASE Aborts
  BY <1>7 DEF Aborts, Lib!AssertFail, Lib!Abort, Lib!dev
<1>8. CASE SetUpFail \/ TransferFail \/ UNCHANGED vars
  BY <1>8 DEF SetUpFail, TransferFail, vars, libVars
<1> QED
  BY <1>1, <1>2, <1>3, <1>4, <1>5, <1>6, <1>7, <1>8 DEF Next

LEMMA TransferReceives ==
  ASSUME Receives, Transfer
  PROVE  ReceivesFromFpga'
<1>1. PICK j \in Lib!FindChannel(Channel) :
        asked' = {[id |-> Channel, dir |-> channels[j].dir]}
  BY DEF Transfer, Lib!Oneway
<1>2. j \in Lib!Places /\ channels[j].id = Channel
  BY Sizes DEF Lib!FindChannel, Receives, Lib!Places
<1>3. channels[j].dir = "read"
  BY <1>2 DEF Receives
<1> QED
  BY <1>1, <1>3 DEF ReceivesFromFpga

\* What the board must be like for rx_buf to be filled by the FPGA: if channel 0
\* receives it is.  fly_dma.c checks no such thing.
THEOREM FilledFromFpga == ASSUME ChannelReceives PROVE Spec => []ReceivesFromFpga
<1>1. Init => Receives /\ ReceivesFromFpga
  BY Sizes DEF Init, Lib!Init, Receives, ReceivesFromFpga, Lib!Unset, Lib!Junk, Channel
<1>2. Receives /\ ReceivesFromFpga /\ [Next]_vars => (Receives /\ ReceivesFromFpga)'
  <2> SUFFICES ASSUME Receives, ReceivesFromFpga, [Next]_vars PROVE Receives' /\ ReceivesFromFpga'
    OBVIOUS
  <2>1. Receives'
    BY NextReceives
  <2>2. CASE Transfer
    BY <2>1, <2>2, TransferReceives
  <2>3. CASE fly' /= "receiving"
    BY <2>1, <2>3 DEF ReceivesFromFpga
  <2>4. ~Transfer /\ fly' = "receiving" => fly = "receiving" /\ asked' = asked
    BY DEF Next, Begin, InitFail, InitGoesOn, InitDone, SetUpFail, Map, StopFirst, TransferFail, FreeBuf,
       Destroy, Destroyed, Aborts, Lib!Allocate, Lib!Categorize, Lib!AssertFail, Lib!Abort, Lib!driver,
       Lib!Free, vars, libVars
  <2> QED
    BY <2>1, <2>2, <2>3, <2>4 DEF ReceivesFromFpga
<1> QED
  BY <1>1, <1>2, PTL DEF Spec

-----------------------------------------------------------------------------
(* What fly_dma.c has from the library.  Axi is the same library as Lib, with *)
(* its theorems.                                                             *)

Axi == INSTANCE AxiDmaProofs

LEMMA AxiAssumptions == Axi!DriverAssumption /\ Axi!BoundsAssumption
BY DriverAssumption, BoundsAssumption
DEF Lib!Places, Lib!Dirs, Lib!Types, Axi!Places, Axi!Dirs, Axi!Types

LEMMA SameRoom == \A k : Lib!Room(k) = Axi!Room(k)
<1>1. \A S : Lib!Cardinality(S) = Axi!Cardinality(S)
  BY DEF Lib!Cardinality, Axi!Cardinality
<1> QED
  BY <1>1 DEF Lib!Room, Lib!Kind, Lib!Places, Axi!Room, Axi!Kind, Axi!Places

LEMMA AxiInit == Init => Axi!Init
BY DEF Init, Lib!Init, Lib!Kinds, Lib!Dirs, Lib!Types, Lib!Places, Lib!Ids, Lib!Unset, Lib!Junk,
   Lib!NoCall, Lib!Unwanted, Axi!Init, Axi!Kinds, Axi!Dirs, Axi!Types, Axi!Places, Axi!Ids,
   Axi!Unset, Axi!Junk, Axi!NoCall, Axi!Unwanted

\* Every step of fly_dma.c is a call of the library that its users may make, or
\* none of the library's.
LEMMA NextAxi ==
  ASSUME TypeOK, Held, Axi!TypeOK, Axi!Life, [Next]_vars
  PROVE  [Axi!Next]_Axi!vars
<1> USE DEF Lib!Places, Axi!Places, Lib!dev, Axi!dev, Lib!memory, Axi!memory,
            Lib!driver, Axi!driver, Lib!history, Axi!history
<1>1. CASE Begin
  <2>1. Axi!Open
    BY <1>1 DEF Begin, Lib!Open, Axi!Open
  <2> QED
    BY <2>1 DEF Axi!Next, Axi!Call, Axi!InitCall
<1>2. CASE InitFail
  <2>1. Axi!ProbeFail \/ Axi!AllocateFail \/ Axi!SetupFail
    BY <1>2 DEF InitFail, Lib!ProbeFail, Lib!AllocateFail, Lib!SetupFail,
       Axi!ProbeFail, Axi!AllocateFail, Axi!SetupFail
  <2> QED
    BY <2>1 DEF Axi!Next, Axi!Call, Axi!InitCall
<1>3. CASE InitGoesOn
  <2>1. Lib!Allocate => Axi!Allocate
    BY DEF Lib!Allocate, Lib!Kept, Lib!Kinds, Lib!Dirs, Lib!Types, Lib!Ids, Lib!Unset, Lib!Junk,
       Lib!Unwanted, Axi!Allocate, Axi!Kept, Axi!Kinds, Axi!Dirs, Axi!Types, Axi!Ids, Axi!Unset,
       Axi!Junk, Axi!Unwanted
  <2>2. Lib!Categorize => Axi!Categorize
    BY SameRoom DEF Lib!Categorize, Lib!Kind, Axi!Categorize, Axi!Kind
  <2> QED
    BY <1>3, <2>1, <2>2 DEF InitGoesOn, Axi!Next, Axi!Call, Axi!InitCall
<1>4. CASE InitDone
  <2>1. Axi!Setup
    BY <1>4 DEF InitDone, Lib!Setup, Axi!Setup
  <2> QED
    BY <2>1 DEF Axi!Next, Axi!Call, Axi!InitCall
<1>5. CASE Map
  <2>1. PICK addr \in Lib!Page : Lib!Malloc(addr, BufPages)
    BY <1>5 DEF Map
  <2>2. addr \in Axi!Page /\ BufPages \in 1..Pages /\ Axi!Malloc(addr, BufPages)
    BY <2>1, BufAssumption
    DEF Lib!Malloc, Lib!Page, Lib!Region, Lib!Usable, Axi!Malloc, Axi!Page, Axi!Region, Axi!Usable
  <2> QED
    BY <2>2 DEF Axi!Next, Axi!Call, Axi!MemoryCall
<1>6. CASE FreeBuf
  <2>1. rx_buf \in Axi!Page /\ BufPages \in 1..Pages /\ Axi!Unmap(rx_buf, BufPages)
    BY <1>6, BufAssumption
    DEF FreeBuf, Held, Lib!Unmap, Lib!Page, Lib!Region, Lib!Usable,
        Axi!Unmap, Axi!Page, Axi!Region, Axi!Usable
  <2> QED
    BY <2>1 DEF Axi!Next, Axi!Call, Axi!MemoryCall
<1>7. CASE StopFirst \/ Transfer
  <2>1. Channel \in Axi!Ids
    <3>1. PICK j \in Axi!FindChannel(Channel) : Axi!Usable
      BY <1>7 DEF StopFirst, Transfer, Lib!Stop, Lib!Oneway, Lib!FindChannel, Lib!Usable,
         Axi!FindChannel, Axi!Usable
    <3>2. j \in Axi!Places /\ channels[j].id = Channel
      BY <3>1, AxiAssumptions, Axi!Found
    <3>3. Channel # Axi!Junk
      BY DEF Channel, Axi!Junk
    <3> QED
      BY <3>2, <3>3 DEF Axi!TypeOK, Axi!Entry
  <2>2. StopFirst => Axi!Stop(Channel)
    BY DEF StopFirst, Lib!Stop, Lib!FindChannel, Lib!Usable, Axi!Stop, Axi!FindChannel, Axi!Usable
  <2>3. Transfer => Axi!Oneway(Channel, TRUE)
    BY DEF Transfer, Lib!Oneway, Lib!Start, Lib!FindChannel, Lib!Usable,
       Axi!Oneway, Axi!Start, Axi!FindChannel, Axi!Usable
  <2> QED
    BY <1>7, <2>1, <2>2, <2>3 DEF Axi!Next, Axi!Call, Axi!TransferCall
<1>8. CASE Destroy \/ Destroyed
  <2>1. Destroy => Axi!Free
    BY DEF Destroy, Lib!Free, Lib!Usable, Lib!Ids, Axi!Free, Axi!Usable, Axi!Ids
  <2>2. Destroyed => Axi!Close
    BY DEF Destroyed, Lib!Close, Axi!Close
  <2> QED
    BY <1>8, <2>1, <2>2 DEF Axi!Next, Axi!Call, Axi!DestroyCall
<1>9. CASE Aborts
  <2>1. Axi!AssertFail
    BY <1>9 DEF Aborts, Lib!AssertFail, Lib!Abort, Lib!Usable, Axi!AssertFail, Axi!Abort, Axi!Usable
  <2> QED
    BY <2>1 DEF Axi!Next, Axi!Call
<1>10. CASE SetUpFail \/ TransferFail \/ UNCHANGED vars
  BY <1>10 DEF SetUpFail, TransferFail, vars, libVars, Axi!vars
<1> QED
  BY <1>1, <1>2, <1>3, <1>4, <1>5, <1>6, <1>7, <1>8, <1>9, <1>10 DEF Next

\* fly_dma.c keeps to the library: whatever the library does for all its users
\* it does for this one.
THEOREM UsesLibrary == Spec => Axi!Spec
<1>1. Init => Axi!Init /\ Axi!TypeOK /\ Axi!Life
  BY AxiInit, AxiAssumptions, Axi!InitTypeOK
<1>2. TypeOK /\ Held /\ Axi!TypeOK /\ Axi!Life /\ [Next]_vars
      => [Axi!Next]_Axi!vars /\ Axi!TypeOK' /\ Axi!Life'
  <2> SUFFICES ASSUME TypeOK, Held, Axi!TypeOK, Axi!Life, [Next]_vars
               PROVE  [Axi!Next]_Axi!vars /\ Axi!TypeOK' /\ Axi!Life'
    OBVIOUS
  <2>1. [Axi!Next]_Axi!vars
    BY NextAxi
  <2> QED
    BY <2>1, AxiAssumptions, Axi!NextTypeOK
<1> QED
  BY <1>1, <1>2, HeldInvariant, PTL DEF Spec, Axi!Spec

\* So the device is closed after every failure, the driver asked only for what it
\* has, and the arrays fly_dma_init looks into list every channel once.
THEOREM LibraryRight ==
  Spec => [](Axi!TypeOK /\ Axi!DeviceClosed /\ Axi!RequestsLegal /\ Axi!ArraysExact)
<1>1. /\ Axi!Spec => []Axi!TypeOK
      /\ Axi!Spec => []Axi!DeviceClosed
      /\ Axi!Spec => []Axi!RequestsLegal
      /\ Axi!Spec => []Axi!ArraysExact
  BY AxiAssumptions, Axi!TypeCorrect, Axi!NoDescriptorLost, Axi!LegalRequests, Axi!ArraysListChannels
<1> QED
  BY <1>1, UsesLibrary, PTL

\* What the library alone cannot promise: nothing is written outside an array and
\* no freed memory read, whatever numbers the driver gives its channels, in all
\* of the program's life, which never gets to a second fly_dma_init.
DefinedOnce == pc = "undefined" => probes > 1

\* No signal, no callback, and arrays with room left for every channel.
THEOREM NeverUndefined == Spec => []DefinedOnce
<1>1. Init => DefinedOnce /\ Axi!ArraysInv
  BY AxiInit DEF Init, Lib!Init, DefinedOnce, Axi!Init, Axi!ArraysInv
<1>2. /\ Axi!TypeOK /\ Axi!Life /\ Axi!ArraysInv /\ [Axi!Next]_Axi!vars
      => Axi!ArraysInv'
  BY AxiAssumptions, Axi!NextArrays
<1>3. /\ Axi!TypeOK /\ Axi!ArraysInv /\ DefinedOnce /\ [Next]_vars
      => DefinedOnce'
  <2> SUFFICES ASSUME Axi!TypeOK, Axi!ArraysInv, DefinedOnce, [Next]_vars, pc' = "undefined"
               PROVE  probes' > 1
    BY DEF DefinedOnce
  <2>1. CASE Lib!Categorize
    <3>1. CASE probes <= 1
      <4>1. pc = "filling" /\ built < N
        BY <2>1 DEF Lib!Categorize
      <4>2. Len(array[Axi!Kind(built)]) < Axi!Room(Axi!Kind(built))
        BY <3>1, <4>1, AxiAssumptions, Axi!RoomLeft
      <4> QED
        BY <2>1, <4>1, <4>2, SameRoom DEF Lib!Categorize, Lib!Kind, Axi!Kind
    <3>2. CASE ~(probes <= 1)
      BY <2>1, <3>2 DEF Lib!Categorize, Lib!history, Axi!TypeOK
    <3> QED
      BY <3>1, <3>2
  <2>2. CASE ~Lib!Categorize
    <3>1. pc = "undefined" /\ probes' = probes
      BY <2>2 DEF Next, Begin, InitFail, InitGoesOn, InitDone, SetUpFail, Map, StopFirst, Transfer,
         TransferFail, FreeBuf, Destroy, Destroyed, Aborts, Lib!Open, Lib!ProbeFail,
         Lib!AllocateFail, Lib!SetupFail, Lib!Allocate, Lib!Setup, Lib!Malloc, Lib!Stop, Lib!Oneway,
         Lib!Unmap, Lib!Free, Lib!Close, Lib!AssertFail, Lib!Abort, Lib!Usable, Lib!history,
         vars, libVars
    <3> QED
      BY <3>1 DEF DefinedOnce
  <2> QED
    BY <2>1, <2>2
<1>4. Axi!Spec => [](Axi!TypeOK /\ Axi!Life)
  BY AxiAssumptions, Axi!LifeInvariant
<1> QED
  BY <1>1, <1>2, <1>3, <1>4, UsesLibrary, PTL DEF Spec, Axi!Spec
=============================================================================
