--------------------------- MODULE DmaRelayProofs ---------------------------
(***************************************************************************)
(* Theorems about DmaRelay, for any clients and any capacity.              *)
(***************************************************************************)
EXTENDS DmaRelay, FiniteSetTheorems, TLAPS

-----------------------------------------------------------------------------
(* Type correctness. *)

LEMMA InitTypeOK == Init => TypeOK
<1>1. 0 \in 0..Parts /\ 0 \in 0..Wrap-1 /\ 0 \in Nat /\ Cap \in Nat /\ Parts \in Nat
  <2>1. Cardinality(Clients) \in Nat
    BY ClientsAssumption, FS_CardinalityType
  <2> QED
    BY <2>1, SizesAssumption, ClientsAssumption
<1>2. <<>> \in Seq(Nat) /\ Len(<<>>) = 0
  OBVIOUS
<1> SUFFICES ASSUME Init PROVE TypeOK
  OBVIOUS
<1>3. rx_buf \in [1..Parts -> Nat] /\ token \in [Clients -> Nat]
  BY DEF Init
<1>4. hungup \in [Clients -> BOOLEAN]
  BY DEF Init
<1>5. /\ conn \in [Clients -> {"away", "queued", "accepted", "waiting", "writing", "leaving"}]
      /\ sent \in [Clients -> Seq(Nat)]
  BY <1>2 DEF Init
<1>6. \A c \in Clients : Len(sent[c]) <= Parts
  BY <1>1, <1>2 DEF Init
<1>7. DmaDataChl \in Seq(Nat) /\ Len(DmaDataChl) <= Cap
  BY <1>1, <1>2 DEF Init
<1> QED
  BY <1>1, <1>3, <1>4, <1>5, <1>6, <1>7 DEF Init, TypeOK

LEMMA DmaThreadTypeOK ==
  ASSUME TypeOK, DmaThread
  PROVE  TypeOK'
<1> USE DEF TypeOK, connVars
<1>1. CASE TransferPiece
  <2>1. filled + 1 \in 1..Parts /\ frames + 1 \in Nat
    BY <1>1, SizesAssumption DEF TransferPiece
  <2> QED
    BY <1>1, <2>1 DEF TransferPiece
<1>2. CASE TransferDone
  <2>1. 0 \in 0..Parts /\ frames + 1 \in Nat
    BY SizesAssumption
  <2> QED
    BY <1>2, <2>1 DEF TransferDone
<1>3. CASE TransferFail
  BY <1>3 DEF TransferFail
<1>4. CASE Check
  BY <1>4 DEF Check
<1>5. CASE Send
  <2>1. DmaDataChl' \in Seq(Nat) /\ Len(DmaDataChl') = Len(DmaDataChl) + 1
    BY <1>5 DEF Send
  <2>2. Len(DmaDataChl') <= Cap
    BY <1>5, <2>1, SizesAssumption DEF Send
  <2> QED
    BY <1>5, <2>1, <2>2 DEF Send
<1>6. CASE Rearm
  BY <1>6 DEF Rearm
<1>7. CASE StackOverflow
  BY <1>7 DEF StackOverflow
<1> QED
  BY <1>1, <1>2, <1>3, <1>4, <1>5, <1>6, <1>7 DEF DmaThread

LEMMA ClientTypeOK ==
  ASSUME TypeOK, NEW c \in Clients, Client(c)
  PROVE  TypeOK'
<1> USE DEF TypeOK, dmaVars
<1>1. CASE Connect(c)
  BY <1>1 DEF Connect
<1>2. CASE HangUp(c)
  BY <1>2 DEF HangUp
<1>3. CASE Accept(c)
  BY <1>3 DEF Accept
<1>4. CASE Register(c)
  <2>1. ConnNum' \in 0..Wrap-1
    <3>1. ConnNum \in Nat /\ Wrap \in Nat /\ Wrap > 0
      BY SizesAssumption
    <3> QED
      BY <1>4, <3>1 DEF Register
  <2>2. sent' \in [Clients -> Seq(Nat)] /\ \A d \in Clients : Len(sent'[d]) <= Parts
    BY <1>4, SizesAssumption DEF Register
  <2> QED
    BY <1>4, <2>1, <2>2 DEF Register
<1>5. CASE Take(c)
  <2>1. Head(DmaDataChl) \in Nat /\ DmaDataChl' \in Seq(Nat) /\ Len(DmaDataChl') <= Cap
    BY <1>5, SizesAssumption DEF Take
  <2>2. sent' \in [Clients -> Seq(Nat)] /\ \A d \in Clients : Len(sent'[d]) <= Parts
    BY <1>5, SizesAssumption DEF Take
  <2> QED
    BY <1>5, <2>1, <2>2 DEF Take
<1>6. CASE WritePiece(c)
  <2>1. Len(sent[c]) + 1 \in 1..Parts
    BY <1>6, SizesAssumption DEF WritePiece
  <2>2. rx_buf[Len(sent[c]) + 1] \in Nat
    BY <2>1
  <2>3. sent' \in [Clients -> Seq(Nat)] /\ \A d \in Clients : Len(sent'[d]) <= Parts
    BY <1>6, <2>1, <2>2, SizesAssumption DEF WritePiece
  <2> QED
    BY <1>6, <2>3 DEF WritePiece
<1>7. CASE WriteDone(c)
  BY <1>7 DEF WriteDone
<1>8. CASE WriteFail(c)
  BY <1>8 DEF WriteFail
<1>9. CASE Leave(c)
  <2>1. ConnNum' \in 0..Wrap-1
    <3>1. ConnNum \in Nat /\ Wrap \in Nat /\ Wrap > 0
      BY SizesAssumption
    <3> QED
      BY <1>9, <3>1 DEF Leave
  <2> QED
    BY <1>9, <2>1 DEF Leave
<1> QED
  BY <1>1, <1>2, <1>3, <1>4, <1>5, <1>6, <1>7, <1>8, <1>9 DEF Client

LEMMA NextTypeOK == TypeOK /\ [Next]_vars => TypeOK'
<1>1. TypeOK /\ UNCHANGED vars => TypeOK'
  BY DEF TypeOK, vars, dmaVars, connVars
<1> QED
  BY <1>1, DmaThreadTypeOK, ClientTypeOK DEF Next

\* Every variable keeps its type, and the channel its capacity.
THEOREM TypeCorrect == Spec => []TypeOK
BY InitTypeOK, NextTypeOK, PTL DEF Spec

-----------------------------------------------------------------------------
(* The callback never blocks. *)

\* Once the callback has found room in the channel, the room stays until it
\* sends: clients only ever take.
THEOREM CallbackNeverBlocks == Spec => []SendNeverBlocks
<1>1. Init => SendNeverBlocks
  BY DEF Init, SendNeverBlocks
<1>2. TypeOK /\ SendNeverBlocks /\ [Next]_vars => SendNeverBlocks'
  <2> SUFFICES ASSUME TypeOK, SendNeverBlocks, [Next]_vars PROVE SendNeverBlocks'
    OBVIOUS
  <2>1. CASE Check
    BY <2>1 DEF Check, SendNeverBlocks
  <2>2. CASE DmaThread /\ ~Check
    BY <2>2 DEF DmaThread, TransferPiece, TransferDone, TransferFail, Send, Rearm,
                StackOverflow, SendNeverBlocks
  <2>3. ASSUME NEW c \in Clients, Client(c) PROVE SendNeverBlocks'
    <3>1. CASE Take(c)
      <4>1. dma' = dma /\ Len(DmaDataChl') = Len(DmaDataChl) - 1
        BY <3>1 DEF Take, TypeOK, dmaVars
      <4>2. Len(DmaDataChl) \in Nat /\ Cap \in Nat
        BY SizesAssumption DEF TypeOK
      <4> QED
        BY <4>1, <4>2 DEF SendNeverBlocks
    <3>2. CASE ~Take(c)
      <4>1. UNCHANGED <<dma, DmaDataChl>>
        BY <2>3, <3>2 DEF Client, Connect, HangUp, Accept, Register, WritePiece,
                          WriteDone, WriteFail, Leave, dmaVars
      <4> QED
        BY <4>1 DEF SendNeverBlocks
    <3> QED
      BY <3>1, <3>2
  <2>4. CASE UNCHANGED vars
    BY <2>4 DEF SendNeverBlocks, vars, dmaVars
  <2> QED
    BY <2>1, <2>2, <2>3, <2>4 DEF Next
<1> QED
  BY <1>1, <1>2, TypeCorrect, PTL DEF Spec

-----------------------------------------------------------------------------
(* ConnNum counts. *)

LEMMA ServedFinite ==
  ASSUME TypeOK
  PROVE  IsFiniteSet(Served) /\ Cardinality(Served) \in 0..Wrap-1
<1>1. Served \subseteq Clients
  BY DEF Served
<1>2. /\ IsFiniteSet(Served) /\ Cardinality(Served) <= Cardinality(Clients)
      /\ Cardinality(Served) \in Nat /\ Cardinality(Clients) \in Nat
  BY <1>1, ClientsAssumption, FS_Subset, FS_CardinalityType
<1> QED
  BY <1>2, ClientsAssumption, SizesAssumption

\* The three states a served connection can be in are left and entered only
\* with ConnNum.
LEMMA ClientKeepsCount ==
  ASSUME TypeOK, TypeOK', ConnNumAccurate, NEW c \in Clients, Client(c)
  PROVE  ConnNumAccurate'
<1>1. /\ IsFiniteSet(Served) /\ Cardinality(Served) \in 0..Wrap-1 /\ Wrap \in Nat
  BY ServedFinite, SizesAssumption
<1>2. Cardinality(Served') \in 0..Wrap-1
  <2>1. Served' \subseteq Clients
    BY DEF Served
  <2>2. /\ Cardinality(Served') <= Cardinality(Clients)
        /\ Cardinality(Served') \in Nat /\ Cardinality(Clients) \in Nat
    BY <2>1, ClientsAssumption, FS_Subset, FS_CardinalityType
  <2> QED
    BY <2>2, ClientsAssumption, SizesAssumption
<1>3. CASE Register(c)
  <2>1. Served' = Served \cup {c} /\ c \notin Served
    BY <1>3 DEF Register, Served, TypeOK
  <2>2. Cardinality(Served') = Cardinality(Served) + 1
    BY <1>1, <2>1, FS_AddElement
  <2>3. ConnNum' = (ConnNum + 1) % Wrap
    BY <1>3 DEF Register
  <2> QED
    BY <1>1, <1>2, <2>2, <2>3 DEF ConnNumAccurate
<1>4. CASE Leave(c)
  <2>1. Served' = Served \ {c} /\ c \in Served
    BY <1>4 DEF Leave, Served, TypeOK
  <2>2. Cardinality(Served') = Cardinality(Served) - 1
    BY <1>1, <2>1, FS_RemoveElement
  <2>3. ConnNum' = (ConnNum + (Wrap - 1)) % Wrap
    BY <1>4 DEF Leave
  <2>4. ASSUME NEW n \in Nat, n >= 1, n < Wrap
        PROVE  (n + (Wrap - 1)) % Wrap = n - 1
    BY <1>1, <2>4
  <2> QED
    BY <1>1, <1>2, <2>2, <2>3, <2>4 DEF ConnNumAccurate
<1>5. CASE ~Register(c) /\ ~Leave(c)
  <2>1. ConnNum' = ConnNum
    BY <1>5 DEF Client, Connect, HangUp, Accept, Take, WritePiece, WriteDone, WriteFail
  <2>2. Served' = Served
    <3>1. CASE Connect(c) \/ Accept(c)
      BY <3>1 DEF Connect, Accept, Served, TypeOK
    <3>2. CASE HangUp(c) \/ WritePiece(c)
      BY <3>2 DEF HangUp, WritePiece, Served
    <3>3. CASE Take(c) \/ WriteDone(c) \/ WriteFail(c)
      BY <3>3 DEF Take, WriteDone, Written, WriteFail, Served, TypeOK
    <3> QED
      BY <1>5, <3>1, <3>2, <3>3 DEF Client
  <2> QED
    BY <2>1, <2>2 DEF ConnNumAccurate
<1> QED
  BY <1>3, <1>4, <1>5

\* ConnNum is the number of connections being served, for fewer clients than a
\* uint32 counts.
THEOREM CountAccurate == Spec => []ConnNumAccurate
<1>1. Init => ConnNumAccurate
  <2> SUFFICES ASSUME Init PROVE ConnNumAccurate
    OBVIOUS
  <2>1. Served = {}
    BY DEF Init, Served
  <2> QED
    BY <2>1, FS_EmptySet DEF Init, ConnNumAccurate
<1>2. TypeOK /\ TypeOK' /\ ConnNumAccurate /\ [Next]_vars => ConnNumAccurate'
  <2>1. DmaThread \/ UNCHANGED vars => UNCHANGED <<ConnNum, conn>>
    BY DEF DmaThread, TransferPiece, TransferDone, TransferFail, Check, Send, Rearm,
           StackOverflow, vars, connVars
  <2>2. ConnNumAccurate /\ UNCHANGED <<ConnNum, conn>> => ConnNumAccurate'
    BY DEF ConnNumAccurate, Served
  <2> QED
    BY <2>1, <2>2, ClientKeepsCount DEF Next
<1> QED
  BY <1>1, <1>2, TypeCorrect, PTL DEF Spec

-----------------------------------------------------------------------------
(* Nothing stale. *)

\* rx_buf is never older than the last picture received, and what the transfer
\* under way has written is newer; no slice is of a picture yet to come.
BufferNew ==
  /\ \A k \in 1..Parts : rx_buf[k] >= frames
  /\ dma = "transfer" => \A k \in 1..filled : rx_buf[k] > frames
  /\ dma \in {"check", "send", "rearm"} => filled = 0
SlicesPast ==
  /\ \A i \in 1..Len(DmaDataChl) : DmaDataChl[i] <= frames
  /\ \A c \in Clients : token[c] <= frames

\* What a client is written is at least as new as the picture its slice was
\* sent for: no piece is left over from an earlier transfer.
NothingStale ==
  \A c \in Clients : \A i \in 1..Len(sent[c]) : sent[c][i] >= token[c]

FreshInv == BufferNew /\ SlicesPast /\ NothingStale

LEMMA DmaThreadFresh ==
  ASSUME TypeOK, FreshInv, DmaThread
  PROVE  FreshInv'
<1>0. UNCHANGED <<token, sent>> /\ (NothingStale => NothingStale')
  BY DEF DmaThread, TransferPiece, TransferDone, TransferFail, Check, Send, Rearm,
         StackOverflow, connVars, NothingStale
<1>1. CASE TransferPiece
  <2>1. frames \in Nat /\ filled \in Nat /\ filled + 1 \in 1..Parts /\ rx_buf \in [1..Parts -> Nat]
    BY <1>1, SizesAssumption DEF TransferPiece, TypeOK
  <2>2. /\ dma = "transfer" /\ UNCHANGED <<dma, frames, DmaDataChl, token>>
        /\ rx_buf' = [rx_buf EXCEPT ![filled + 1] = frames + 1] /\ filled' = filled + 1
    BY <1>1 DEF TransferPiece, connVars
  <2>3. \A k \in 1..Parts : rx_buf'[k] >= frames
    BY <2>1, <2>2 DEF FreshInv, BufferNew
  <2>4. ASSUME NEW k \in 1..filled+1 PROVE rx_buf'[k] > frames
    <3>1. k \in 1..Parts /\ (k = filled + 1 \/ k \in 1..filled)
      BY <2>1, SizesAssumption
    <3> QED
      BY <2>1, <2>2, <3>1 DEF FreshInv, BufferNew
  <2> QED
    BY <1>0, <2>2, <2>3, <2>4 DEF FreshInv, BufferNew, SlicesPast
<1>2. CASE TransferDone
  <2>1. frames \in Nat /\ rx_buf \in [1..Parts -> Nat]
    BY DEF TypeOK
  <2>2. /\ UNCHANGED <<rx_buf, DmaDataChl, token>> /\ frames' = frames + 1
        /\ dma' = "check" /\ filled' = 0
    BY <1>2 DEF TransferDone, connVars
  <2>3. \A k \in 1..Parts : rx_buf[k] >= frames + 1
    BY <1>2, <2>1 DEF TransferDone, FreshInv, BufferNew
  <2>4. SlicesPast'
    <3>1. \A i \in 1..Len(DmaDataChl) : DmaDataChl[i] \in Nat /\ DmaDataChl[i] <= frames
      BY DEF TypeOK, FreshInv, SlicesPast
    <3>2. \A c \in Clients : token[c] \in Nat /\ token[c] <= frames
      BY DEF TypeOK, FreshInv, SlicesPast
    <3> QED
      BY <2>1, <2>2, <3>1, <3>2 DEF SlicesPast
  <2> QED
    BY <1>0, <2>2, <2>3, <2>4 DEF FreshInv, BufferNew
<1>3. CASE TransferFail \/ Check \/ StackOverflow
  <2>1. /\ UNCHANGED <<filled, frames, rx_buf, DmaDataChl, token>>
        /\ dma' \in {"stopped", "send", "rearm", "crashed"}
        /\ dma' \in {"send", "rearm"} => dma = "check"
    BY <1>3 DEF TransferFail, Check, StackOverflow, connVars
  <2> QED
    BY <1>0, <2>1 DEF FreshInv, BufferNew, SlicesPast
<1>4. CASE Send
  <2>1. /\ dma = "send" /\ dma' = "rearm" /\ DmaDataChl' = Append(DmaDataChl, frames)
        /\ UNCHANGED <<filled, frames, rx_buf, token>>
    BY <1>4 DEF Send, connVars
  <2>2. \A i \in 1..Len(DmaDataChl') : DmaDataChl'[i] <= frames
    <3>1. frames \in Nat /\ DmaDataChl \in Seq(Nat)
      BY DEF TypeOK
    <3> QED
      BY <2>1, <3>1 DEF FreshInv, SlicesPast
  <2> QED
    BY <1>0, <2>1, <2>2 DEF FreshInv, BufferNew, SlicesPast
<1>5. CASE Rearm
  <2>1. /\ dma = "rearm" /\ dma' = "transfer"
        /\ UNCHANGED <<filled, frames, rx_buf, DmaDataChl, token>>
    BY <1>5 DEF Rearm, connVars
  <2> QED
    BY <1>0, <2>1 DEF FreshInv, BufferNew, SlicesPast
<1> QED
  BY <1>1, <1>2, <1>3, <1>4, <1>5 DEF DmaThread

LEMMA ClientFresh ==
  ASSUME TypeOK, FreshInv, NEW c \in Clients, Client(c)
  PROVE  FreshInv'
<1>0. BufferNew' /\ UNCHANGED frames
  BY DEF Client, Connect, HangUp, Accept, Register, Take, WritePiece, WriteDone, WriteFail,
         Leave, dmaVars, FreshInv, BufferNew
<1>1. CASE Register(c)
  <2>1. /\ token' = [token EXCEPT ![c] = 0] /\ sent' = [sent EXCEPT ![c] = <<>>]
        /\ DmaDataChl' = DmaDataChl
    BY <1>1 DEF Register
  <2>2. frames \in Nat /\ token \in [Clients -> Nat] /\ sent \in [Clients -> Seq(Nat)]
    BY DEF TypeOK
  <2> QED
    BY <1>0, <2>1, <2>2 DEF FreshInv, SlicesPast, NothingStale
<1>2. CASE Take(c)
  <2>1. /\ token' = [token EXCEPT ![c] = Head(DmaDataChl)] /\ DmaDataChl /= <<>>
        /\ sent' = [sent EXCEPT ![c] = <<>>] /\ DmaDataChl' = Tail(DmaDataChl)
    BY <1>2 DEF Take
  <2>2. /\ frames \in Nat /\ token \in [Clients -> Nat] /\ sent \in [Clients -> Seq(Nat)]
        /\ DmaDataChl \in Seq(Nat)
    BY DEF TypeOK
  <2>3. Head(DmaDataChl) <= frames
    BY <2>1, <2>2 DEF FreshInv, SlicesPast
  <2>4. \A i \in 1..Len(DmaDataChl') : DmaDataChl'[i] <= frames
    BY <2>1, <2>2 DEF FreshInv, SlicesPast
  <2> QED
    BY <1>0, <2>1, <2>2, <2>3, <2>4 DEF FreshInv, SlicesPast, NothingStale
<1>3. CASE WritePiece(c)
  <2>1. /\ sent' = [sent EXCEPT ![c] = Append(@, rx_buf[Len(@) + 1])]
        /\ Len(sent[c]) < Parts /\ UNCHANGED <<token, DmaDataChl>>
    BY <1>3 DEF WritePiece
  <2>2. /\ frames \in Nat /\ token \in [Clients -> Nat] /\ sent \in [Clients -> Seq(Nat)]
        /\ rx_buf \in [1..Parts -> Nat] /\ Parts \in Nat
    BY SizesAssumption DEF TypeOK
  <2>3. Len(sent[c]) + 1 \in 1..Parts
    BY <2>1, <2>2
  <2>4. rx_buf[Len(sent[c]) + 1] >= frames /\ token[c] <= frames
    BY <2>3 DEF FreshInv, BufferNew, SlicesPast
  <2>5. rx_buf[Len(sent[c]) + 1] \in Nat /\ rx_buf[Len(sent[c]) + 1] >= token[c]
    BY <2>2, <2>3, <2>4
  <2>6. ASSUME NEW d \in Clients, NEW i \in 1..Len(sent'[d]) PROVE sent'[d][i] >= token[d]
    <3>1. CASE d /= c
      BY <2>1, <2>2, <3>1 DEF FreshInv, NothingStale
    <3>2. CASE d = c
      <4>1. sent'[c] = Append(sent[c], rx_buf[Len(sent[c]) + 1])
        BY <2>1, <2>2
      <4>2. sent[c] \in Seq(Nat) /\ \A j \in 1..Len(sent[c]) : sent[c][j] >= token[c]
        BY <2>2 DEF FreshInv, NothingStale
      <4> QED
        BY <2>5, <3>2, <4>1, <4>2
    <3> QED
      BY <3>1, <3>2
  <2> QED
    BY <1>0, <2>1, <2>6 DEF FreshInv, SlicesPast, NothingStale
<1>4. CASE ~Register(c) /\ ~Take(c) /\ ~WritePiece(c)
  <2>1. UNCHANGED <<token, sent, DmaDataChl>>
    BY <1>4 DEF Client, Connect, HangUp, Accept, WriteDone, WriteFail, Leave
  <2> QED
    BY <1>0, <2>1 DEF FreshInv, SlicesPast, NothingStale
<1> QED
  BY <1>1, <1>2, <1>3, <1>4

\* No client is written a piece of a picture older than the one its slice was
\* sent for.
THEOREM NeverStale == Spec => []NothingStale
<1>1. Init => FreshInv
  <2> SUFFICES ASSUME Init PROVE FreshInv
    OBVIOUS
  <2>1. Len(<<>>) = 0 /\ Parts \in Nat
    BY SizesAssumption
  <2> QED
    BY <2>1 DEF Init, FreshInv, BufferNew, SlicesPast, NothingStale
<1>2. TypeOK /\ FreshInv /\ [Next]_vars => FreshInv'
  <2>1. FreshInv /\ UNCHANGED vars => FreshInv'
    BY DEF FreshInv, BufferNew, SlicesPast, NothingStale, vars, dmaVars, connVars
  <2> QED
    BY <2>1, DmaThreadFresh, ClientFresh DEF Next
<1>3. FreshInv => NothingStale
  BY DEF FreshInv
<1> QED
  BY <1>1, <1>2, <1>3, TypeCorrect, PTL DEF Spec

-----------------------------------------------------------------------------
(* One picture each. *)

\* Until the picture just received is sent, every slice is of an earlier one.
NotYetSent ==
  dma \in {"check", "send"} =>
    /\ frames >= 1
    /\ \A i \in 1..Len(DmaDataChl) : DmaDataChl[i] < frames
    /\ \A c \in Clients : token[c] < frames
EachInv == OnePictureEach /\ NotYetSent

LEMMA DmaThreadEach ==
  ASSUME TypeOK, FreshInv, EachInv, DmaThread
  PROVE  EachInv'
<1>0. /\ UNCHANGED token /\ token \in [Clients -> Nat] /\ frames \in Nat
      /\ DmaDataChl \in Seq(Nat) /\ Len(DmaDataChl) \in Nat
  BY DEF DmaThread, TransferPiece, TransferDone, TransferFail, Check, Send, Rearm,
         StackOverflow, connVars, TypeOK
<1>1. CASE TransferDone
  <2>1. DmaDataChl' = DmaDataChl /\ frames' = frames + 1
    BY <1>1 DEF TransferDone
  <2>2. \A i \in 1..Len(DmaDataChl) : DmaDataChl[i] \in Nat /\ DmaDataChl[i] <= frames
    BY <1>0 DEF FreshInv, SlicesPast
  <2>3. \A c \in Clients : token[c] \in Nat /\ token[c] <= frames
    BY <1>0 DEF FreshInv, SlicesPast
  <2>4. OnePictureEach'
    BY <1>0, <2>1, <2>2 DEF EachInv, OnePictureEach
  <2>5. NotYetSent'
    BY <1>0, <2>1, <2>2, <2>3 DEF NotYetSent
  <2> QED
    BY <2>4, <2>5 DEF EachInv
<1>2. CASE Send
  <2>1. dma = "send" /\ dma' = "rearm" /\ DmaDataChl' = Append(DmaDataChl, frames) /\ frames' = frames
    BY <1>2 DEF Send
  <2>2. frames >= 1 /\ \A c \in Clients : token[c] < frames
    BY <2>1 DEF EachInv, NotYetSent
  <2>3. \A i \in 1..Len(DmaDataChl) : DmaDataChl[i] \in Nat /\ DmaDataChl[i] < frames
    BY <1>0, <2>1 DEF EachInv, NotYetSent
  <2>4. Len(DmaDataChl') = Len(DmaDataChl) + 1
    BY <1>0, <2>1
  <2>5. ASSUME NEW i \in 1..Len(DmaDataChl')
        PROVE  \/ i \in 1..Len(DmaDataChl) /\ DmaDataChl'[i] = DmaDataChl[i]
               \/ i = Len(DmaDataChl) + 1 /\ DmaDataChl'[i] = frames
    BY <1>0, <2>1, <2>4
  <2>6. ASSUME NEW i \in 1..Len(DmaDataChl'), NEW j \in 1..Len(DmaDataChl'), i < j
        PROVE  DmaDataChl'[i] < DmaDataChl'[j]
    <3>1. i \in 1..Len(DmaDataChl) /\ DmaDataChl'[i] = DmaDataChl[i]
      BY <1>0, <2>4, <2>5, <2>6
    <3>2. CASE j \in 1..Len(DmaDataChl) /\ DmaDataChl'[j] = DmaDataChl[j]
      BY <2>6, <3>1, <3>2 DEF EachInv, OnePictureEach
    <3>3. CASE j = Len(DmaDataChl) + 1 /\ DmaDataChl'[j] = frames
      BY <2>3, <3>1, <3>3
    <3> QED
      BY <2>5, <3>2, <3>3
  <2>7. ASSUME NEW i \in 1..Len(DmaDataChl')
        PROVE  DmaDataChl'[i] \in 1..frames /\ \A c \in Clients : token[c] < DmaDataChl'[i]
    <3>1. CASE i \in 1..Len(DmaDataChl) /\ DmaDataChl'[i] = DmaDataChl[i]
      BY <3>1 DEF EachInv, OnePictureEach
    <3>2. CASE DmaDataChl'[i] = frames
      BY <1>0, <2>2, <3>2
    <3> QED
      BY <2>5, <3>1, <3>2
  <2>8. \A c, d \in Clients : c /= d /\ token[c] > 0 => token[c] /= token[d]
    BY DEF EachInv, OnePictureEach
  <2> QED
    BY <1>0, <2>1, <2>6, <2>7, <2>8 DEF EachInv, OnePictureEach, NotYetSent
<1>3. CASE ~TransferDone /\ ~Send
  <2>1. /\ UNCHANGED <<DmaDataChl, frames>>
        /\ dma' \in {"check", "send"} => dma \in {"check", "send"}
    BY <1>3 DEF DmaThread, TransferPiece, TransferFail, Check, Rearm, StackOverflow
  <2> QED
    BY <1>0, <2>1 DEF EachInv, OnePictureEach, NotYetSent
<1> QED
  BY <1>1, <1>2, <1>3

LEMMA ClientEach ==
  ASSUME TypeOK, EachInv, NEW c \in Clients, Client(c)
  PROVE  EachInv'
<1>0. /\ UNCHANGED <<dma, frames>> /\ token \in [Clients -> Nat] /\ frames \in Nat
      /\ DmaDataChl \in Seq(Nat) /\ Len(DmaDataChl) \in Nat
  BY DEF Client, Connect, HangUp, Accept, Register, Take, WritePiece, WriteDone, WriteFail,
         Leave, dmaVars, TypeOK
<1>1. CASE Register(c)
  <2>1. token' = [token EXCEPT ![c] = 0] /\ DmaDataChl' = DmaDataChl
    BY <1>1 DEF Register
  <2>2. \A i \in 1..Len(DmaDataChl) : DmaDataChl[i] \in 1..frames
    BY DEF EachInv, OnePictureEach
  <2>3. \A d \in Clients : token'[d] = IF d = c THEN 0 ELSE token[d]
    BY <1>0, <2>1
  <2>4. OnePictureEach'
    BY <1>0, <2>1, <2>2, <2>3 DEF EachInv, OnePictureEach
  <2>5. NotYetSent'
    BY <1>0, <2>1, <2>3 DEF EachInv, NotYetSent
  <2> QED
    BY <2>4, <2>5 DEF EachInv
<1>2. CASE Take(c)
  <2>1. /\ DmaDataChl /= <<>> /\ DmaDataChl' = Tail(DmaDataChl)
        /\ token' = [token EXCEPT ![c] = Head(DmaDataChl)]
    BY <1>2 DEF Take
  <2>2. 1 \in 1..Len(DmaDataChl) /\ Head(DmaDataChl) = DmaDataChl[1] /\ DmaDataChl[1] \in Nat
    BY <1>0, <2>1
  <2>3. ASSUME NEW i \in 1..Len(DmaDataChl')
        PROVE  /\ i + 1 \in 1..Len(DmaDataChl) /\ DmaDataChl'[i] = DmaDataChl[i + 1]
               /\ DmaDataChl[1] < DmaDataChl'[i]
    <3>1. i + 1 \in 1..Len(DmaDataChl) /\ DmaDataChl'[i] = DmaDataChl[i + 1] /\ 1 < i + 1
      BY <1>0, <2>1
    <3> QED
      BY <2>2, <3>1 DEF EachInv, OnePictureEach
  <2>4. \A d \in Clients : token'[d] = IF d = c THEN DmaDataChl[1] ELSE token[d]
    BY <1>0, <2>1, <2>2
  <2>5. \A d \in Clients : token[d] < DmaDataChl[1]
    BY <2>2 DEF EachInv, OnePictureEach
  <2>6. ASSUME NEW i \in 1..Len(DmaDataChl'), NEW j \in 1..Len(DmaDataChl'), i < j
        PROVE  DmaDataChl'[i] < DmaDataChl'[j]
    <3>1. i + 1 \in 1..Len(DmaDataChl) /\ j + 1 \in 1..Len(DmaDataChl) /\ i + 1 < j + 1
      BY <1>0, <2>3, <2>6
    <3> QED
      BY <2>3, <3>1 DEF EachInv, OnePictureEach
  <2>7. ASSUME NEW i \in 1..Len(DmaDataChl')
        PROVE  DmaDataChl'[i] \in 1..frames /\ \A d \in Clients : token'[d] < DmaDataChl'[i]
    BY <2>3, <2>4 DEF EachInv, OnePictureEach
  <2>8. ASSUME NEW d \in Clients, NEW e \in Clients, d /= e, token'[d] > 0
        PROVE  token'[d] /= token'[e]
    <3>1. token[d] \in Nat /\ token[e] \in Nat /\ token[d] < DmaDataChl[1] /\ token[e] < DmaDataChl[1]
      BY <1>0, <2>5
    <3>2. CASE d = c \/ e = c
      BY <2>2, <2>4, <2>8, <3>1, <3>2
    <3>3. CASE d /= c /\ e /= c
      BY <2>4, <2>8, <3>3 DEF EachInv, OnePictureEach
    <3> QED
      BY <3>2, <3>3
  <2>9. NotYetSent'
    BY <1>0, <2>2, <2>3, <2>4 DEF EachInv, NotYetSent
  <2> QED
    BY <1>0, <2>6, <2>7, <2>8, <2>9 DEF EachInv, OnePictureEach
<1>3. CASE ~Register(c) /\ ~Take(c)
  <2>1. UNCHANGED <<token, DmaDataChl>>
    BY <1>3 DEF Client, Connect, HangUp, Accept, WritePiece, WriteDone, WriteFail, Leave
  <2> QED
    BY <1>0, <2>1 DEF EachInv, OnePictureEach, NotYetSent
<1> QED
  BY <1>1, <1>2, <1>3

\* Slices wait in the order of their pictures, and no two clients are given a
\* slice for the same picture.
THEOREM PicturesInOrder == Spec => []OnePictureEach
<1>1. Init => EachInv /\ FreshInv
  <2> SUFFICES ASSUME Init PROVE EachInv /\ FreshInv
    OBVIOUS
  <2>1. Len(<<>>) = 0 /\ Parts \in Nat
    BY SizesAssumption
  <2> QED
    BY <2>1 DEF Init, EachInv, OnePictureEach, NotYetSent,
                FreshInv, BufferNew, SlicesPast, NothingStale
<1>2. TypeOK /\ FreshInv /\ EachInv /\ [Next]_vars => FreshInv' /\ EachInv'
  <2>1. FreshInv /\ EachInv /\ UNCHANGED vars => FreshInv' /\ EachInv'
    BY DEF EachInv, OnePictureEach, NotYetSent, FreshInv, BufferNew, SlicesPast,
           NothingStale, vars, dmaVars, connVars
  <2> QED
    BY <2>1, DmaThreadFresh, ClientFresh, DmaThreadEach, ClientEach DEF Next
<1>3. EachInv => OnePictureEach
  BY DEF EachInv
<1> QED
  BY <1>1, <1>2, <1>3, TypeCorrect, PTL DEF Spec

-----------------------------------------------------------------------------
(* The relay implements the feed of PictureFeed. *)

\* No piece is of a picture after the one being received.
Latest == \A k \in 1..Parts : rx_buf[k] <= frames + 1

LEMMA NextLatest ==
  ASSUME TypeOK, Latest, [Next]_vars
  PROVE  Latest'
<1>1. frames \in Nat /\ rx_buf \in [1..Parts -> Nat]
  BY DEF TypeOK
<1>2. CASE TransferPiece
  <2>1. rx_buf' = [rx_buf EXCEPT ![filled + 1] = frames + 1] /\ frames' = frames
    BY <1>2 DEF TransferPiece
  <2> QED
    BY <1>1, <2>1 DEF Latest
<1>3. CASE TransferDone
  <2>1. rx_buf' = rx_buf /\ frames' = frames + 1
    BY <1>3 DEF TransferDone
  <2> QED
    BY <1>1, <2>1 DEF Latest
<1>4. CASE ~TransferPiece /\ ~TransferDone
  <2>1. DmaThread => UNCHANGED <<rx_buf, frames>>
    BY <1>4 DEF DmaThread, TransferFail, Check, Send, Rearm, StackOverflow
  <2>2. \A c \in Clients : Client(c) => UNCHANGED <<rx_buf, frames>>
    BY DEF Client, Connect, HangUp, Accept, Register, Take, WritePiece, WriteDone,
           WriteFail, Leave, dmaVars
  <2>3. UNCHANGED vars => UNCHANGED <<rx_buf, frames>>
    BY DEF vars, dmaVars
  <2>4. UNCHANGED <<rx_buf, frames>>
    BY <2>1, <2>2, <2>3 DEF Next
  <2> QED
    BY <2>4 DEF Latest
<1> QED
  BY <1>2, <1>3, <1>4

LEMMA DmaThreadFeeds ==
  ASSUME TypeOK, DmaThread
  PROVE  [Feed!Next]_Feed!vars
<1> USE DEF Feed!vars, connVars, Served
<1>1. CASE TransferDone
  <2>1. Feed!Make
    BY <1>1 DEF TransferDone, Feed!Make
  <2> QED
    BY <2>1 DEF Feed!Next
<1>2. CASE Check
  <2>1. CASE dma' = "send"
    BY <1>2, <2>1 DEF Check
  <2>2. CASE dma' = "rearm"
    <3>1. Feed!PassOver
      BY <1>2, <2>2 DEF Check, Feed!PassOver
    <3> QED
      BY <3>1 DEF Feed!Next
  <2> QED
    BY <1>2, <2>1, <2>2 DEF Check
<1>3. CASE Send
  <2>1. Feed!Offer
    BY <1>3 DEF Send, Feed!Offer
  <2> QED
    BY <2>1 DEF Feed!Next
<1>4. CASE TransferPiece \/ TransferFail \/ Rearm \/ StackOverflow
  BY <1>4 DEF TransferPiece, TransferFail, Rearm, StackOverflow
<1> QED
  BY <1>1, <1>2, <1>3, <1>4 DEF DmaThread

LEMMA ClientFeeds ==
  ASSUME TypeOK, FreshInv, Latest, NEW c \in Clients, Client(c)
  PROVE  [Feed!Next]_Feed!vars
<1> USE DEF dmaVars
<1>1. conn \in [Clients -> {"away", "queued", "accepted", "waiting", "writing", "leaving"}]
  BY DEF TypeOK
<1>2. CASE Register(c)
  <2>1. Served' = Served \cup {c} /\ c \notin Served
    BY <1>1, <1>2 DEF Register, Served
  <2>2. Feed!Join(c)
    BY <1>2, <2>1 DEF Register, Feed!Join
  <2> QED
    BY <2>2 DEF Feed!Next
<1>3. CASE Leave(c)
  <2>1. Served' = Served \ {c} /\ c \in Served
    BY <1>1, <1>3 DEF Leave, Served
  <2>2. Feed!Quit(c)
    BY <1>3, <2>1 DEF Leave, Feed!Quit
  <2> QED
    BY <2>2 DEF Feed!Next
<1>4. CASE ~Register(c) /\ ~Leave(c)
  <2>1. Served' = Served
    <3>1. CASE Connect(c) \/ Accept(c)
      BY <1>1, <3>1 DEF Connect, Accept, Served
    <3>2. CASE HangUp(c) \/ WritePiece(c)
      BY <3>2 DEF HangUp, WritePiece, Served
    <3>3. CASE Take(c) \/ WriteDone(c) \/ WriteFail(c)
      BY <1>1, <3>3 DEF Take, WriteDone, Written, WriteFail, Served
    <3> QED
      BY <1>4, <3>1, <3>2, <3>3 DEF Client
  <2>2. CASE Take(c)
    <3>1. c \in Served
      BY <2>2 DEF Take, Served
    <3>2. Feed!Take(c)
      BY <2>1, <2>2, <3>1 DEF Take, Feed!Take
    <3> QED
      BY <3>2 DEF Feed!Next
  <2>3. CASE WritePiece(c)
    <3>1. /\ c \in Served /\ Len(sent[c]) < Parts
          /\ sent' = [sent EXCEPT ![c] = Append(sent[c], rx_buf[Len(sent[c]) + 1])]
      BY <2>3 DEF WritePiece, Served
    <3>2. Len(sent[c]) + 1 \in 1..Parts
      <4>1. Len(sent[c]) \in Nat
        BY DEF TypeOK
      <4> QED
        BY <3>1, <4>1, SizesAssumption
    <3>3. rx_buf[Len(sent[c]) + 1] \in token[c]..frames+1
      <4>1. /\ rx_buf[Len(sent[c]) + 1] \in Nat /\ token[c] \in Nat /\ frames \in Nat
        BY <3>2 DEF TypeOK
      <4>2. rx_buf[Len(sent[c]) + 1] >= frames /\ rx_buf[Len(sent[c]) + 1] <= frames + 1
        BY <3>2 DEF FreshInv, BufferNew, Latest
      <4>3. token[c] <= frames
        BY DEF FreshInv, SlicesPast
      <4> QED
        BY <4>1, <4>2, <4>3
    <3>4. Feed!Read(c)
      BY <2>1, <2>3, <3>1, <3>3 DEF WritePiece, Feed!Read
    <3> QED
      BY <3>4 DEF Feed!Next
  <2>4. CASE ~Take(c) /\ ~WritePiece(c)
    <3>1. UNCHANGED <<dma, frames, DmaDataChl, token, sent>>
      BY <1>4, <2>4 DEF Client, Connect, HangUp, Accept, WriteDone, WriteFail
    <3> QED
      BY <2>1, <3>1 DEF Feed!vars
  <2> QED
    BY <2>2, <2>3, <2>4
<1> QED
  BY <1>2, <1>3, <1>4

LEMMA AlwaysFresh == Spec => [](TypeOK /\ FreshInv /\ Latest)
<1>1. Init => FreshInv /\ Latest
  <2> SUFFICES ASSUME Init PROVE FreshInv /\ Latest
    OBVIOUS
  <2>1. Len(<<>>) = 0 /\ Parts \in Nat
    BY SizesAssumption
  <2> QED
    BY <2>1 DEF Init, FreshInv, BufferNew, SlicesPast, NothingStale, Latest
<1>2. TypeOK /\ FreshInv /\ Latest /\ [Next]_vars => FreshInv' /\ Latest'
  <2>1. FreshInv /\ UNCHANGED vars => FreshInv'
    BY DEF FreshInv, BufferNew, SlicesPast, NothingStale, vars, dmaVars, connVars
  <2> QED
    BY <2>1, DmaThreadFresh, ClientFresh, NextLatest DEF Next
<1> QED
  BY <1>1, <1>2, TypeCorrect, PTL DEF Spec

\* The relay implements the feed: a picture is offered once or passed over, taken
\* by one client in its turn, and read as it is or newer.
THEOREM ImplementsFeed == Spec => FeedsPictures
<1>1. Init => Feed!Init
  BY DEF Init, Feed!Init, Served
<1>2. TypeOK /\ FreshInv /\ Latest /\ [Next]_vars => [Feed!Next]_Feed!vars
  <2>1. UNCHANGED vars => UNCHANGED Feed!vars
    BY DEF vars, dmaVars, connVars, Feed!vars, Served
  <2> QED
    BY <2>1, DmaThreadFeeds, ClientFeeds DEF Next
<1> QED
  BY <1>1, <1>2, AlwaysFresh, PTL DEF Spec, FeedsPictures, Feed!Spec

-----------------------------------------------------------------------------
(* How far a torn picture can be torn. *)

\* A write that the next transfers overtake goes forward: what a client has been
\* written of a slice starts no earlier than the slice's picture, is never of a
\* picture the FPGA has not begun, and goes back by one picture at most from any
\* piece to any later one, however slow the client and however many transfers
\* go by.
TornByOne ==
  \A c \in Clients : \A i \in 1..Len(sent[c]) :
    /\ token[c] <= sent[c][i] /\ sent[c][i] <= frames + 1
    /\ \A j \in i..Len(sent[c]) : sent[c][i] <= sent[c][j] + 1

LEMMA WritePieceTears ==
  ASSUME TypeOK, FreshInv, Latest, TornByOne, NEW c \in Clients, WritePiece(c)
  PROVE  TornByOne'
<1> DEFINE n == Len(sent[c])
           piece == rx_buf[n + 1]
<1>1. /\ n \in Nat /\ n + 1 \in 1..Parts /\ sent \in [Clients -> Seq(Nat)]
      /\ frames \in Nat /\ token \in [Clients -> Nat]
  BY SizesAssumption DEF WritePiece, TypeOK
<1>2. piece \in Nat /\ frames <= piece /\ piece <= frames + 1 /\ token[c] <= piece
  <2>1. piece \in Nat /\ frames <= piece /\ piece <= frames + 1
    BY <1>1 DEF FreshInv, BufferNew, Latest, TypeOK
  <2>2. token[c] <= frames /\ token[c] \in Nat
    BY <1>1 DEF FreshInv, SlicesPast
  <2> QED
    BY <1>1, <2>1, <2>2
<1>3. UNCHANGED <<frames, token>> /\ sent' = [sent EXCEPT ![c] = Append(sent[c], piece)]
  BY DEF WritePiece, dmaVars
<1> HIDE DEF piece
<1>4. sent'[c] = Append(sent[c], piece) /\ \A d \in Clients : d /= c => sent'[d] = sent[d]
  BY <1>1, <1>3
<1>5. /\ Len(sent'[c]) = n + 1 /\ sent'[c][n + 1] = piece
      /\ \A i \in 1..n : sent'[c][i] = sent[c][i] /\ sent[c][i] \in Nat
  BY <1>1, <1>2, <1>4
<1> SUFFICES ASSUME NEW i \in 1..(n + 1)
             PROVE  /\ token[c] <= sent'[c][i] /\ sent'[c][i] <= frames + 1
                    /\ \A j \in i..(n + 1) : sent'[c][i] <= sent'[c][j] + 1
  BY <1>3, <1>4, <1>5 DEF TornByOne
<1>6. CASE i = n + 1
  BY <1>1, <1>2, <1>5, <1>6
<1>7. CASE i \in 1..n
  <2>1. token[c] <= sent[c][i] /\ sent[c][i] <= frames + 1 /\ sent[c][i] \in Nat
    BY <1>5, <1>7 DEF TornByOne
  <2>2. \A j \in i..n : sent[c][i] <= sent[c][j] + 1
    BY <1>7 DEF TornByOne
  <2>3. sent[c][i] <= piece + 1
    BY <1>1, <1>2, <2>1
  <2>4. ASSUME NEW j \in i..(n + 1) PROVE sent'[c][i] <= sent'[c][j] + 1
    <3>1. j = n + 1 \/ (j \in i..n /\ j \in 1..n)
      <4>1. n \in Nat /\ i \in 1..n /\ j \in i..(n + 1)
        BY <1>1, <1>7
      <4> HIDE DEF n
      <4> QED
        BY <4>1
    <3> QED
      BY <1>5, <1>7, <2>2, <2>3, <3>1
  <2> QED
    BY <1>5, <1>7, <2>1, <2>4
<1> QED
  BY <1>1, <1>6, <1>7

LEMMA NextTears ==
  ASSUME TypeOK, FreshInv, Latest, TornByOne, [Next]_vars
  PROVE  TornByOne'
<1>0. frames \in Nat /\ sent \in [Clients -> Seq(Nat)] /\ token \in [Clients -> Nat]
  BY DEF TypeOK
<1>1. CASE DmaThread
  <2>1. UNCHANGED <<token, sent>> /\ (frames' = frames \/ frames' = frames + 1)
    BY <1>1 DEF DmaThread, TransferPiece, TransferDone, TransferFail, Check, Send, Rearm,
           StackOverflow, connVars
  <2>2. ASSUME NEW d \in Clients, NEW i \in 1..Len(sent[d])
        PROVE  sent[d][i] <= frames' + 1
    <3>1. sent[d][i] \in Nat /\ sent[d][i] <= frames + 1
      BY <1>0 DEF TornByOne
    <3> QED
      BY <1>0, <2>1, <3>1
  <2> QED
    BY <2>1, <2>2 DEF TornByOne
<1>2. ASSUME NEW c \in Clients, Register(c) \/ Take(c) PROVE TornByOne'
  <2>1. /\ sent' = [sent EXCEPT ![c] = <<>>] /\ frames' = frames
        /\ \A d \in Clients : d /= c => token'[d] = token[d]
    BY <1>0, <1>2 DEF Register, Take, dmaVars
  <2>2. /\ Len(<<>>) = 0 /\ sent'[c] = <<>>
        /\ \A d \in Clients : d /= c => sent'[d] = sent[d]
    BY <1>0, <2>1
  <2> QED
    BY <2>1, <2>2 DEF TornByOne
<1>3. ASSUME NEW c \in Clients, Client(c), ~Register(c), ~Take(c), ~WritePiece(c)
      PROVE  TornByOne'
  BY <1>3 DEF Client, Connect, HangUp, Accept, WriteDone, WriteFail, Leave, dmaVars, TornByOne
<1>4. CASE UNCHANGED vars
  BY <1>4 DEF vars, dmaVars, connVars, TornByOne
<1> QED
  BY <1>1, <1>2, <1>3, <1>4, WritePieceTears DEF Next

\* One piece may be a picture older than the piece before it, never two.
THEOREM TearsBounded == Spec => []TornByOne
<1>1. Init => TornByOne
  <2>1. Len(<<>>) = 0
    OBVIOUS
  <2> QED
    BY <2>1 DEF Init, TornByOne
<1>2. TypeOK /\ FreshInv /\ Latest /\ TornByOne /\ [Next]_vars => TornByOne'
  BY NextTears
<1> QED
  BY <1>1, <1>2, AlwaysFresh, PTL DEF Spec

-----------------------------------------------------------------------------
(* Who is given which picture. *)

\* A client that takes a slice takes one that is newer than every slice any
\* client has taken: clients in turn are given pictures in the order they came.
TakesNewer ==
  \A c \in Clients :
    token'[c] /= token[c] /\ token'[c] /= 0 => \A d \in Clients : token[d] < token'[c]

\* However clients interleave, none is given a picture older than one that another
\* has already been given.
THEOREM TakenInTurn == Spec => [][TakesNewer]_vars
<1>1. TypeOK /\ OnePictureEach /\ [Next]_vars => [TakesNewer]_vars
  <2> SUFFICES ASSUME TypeOK, OnePictureEach, Next PROVE TakesNewer
    OBVIOUS
  <2>0. token \in [Clients -> Nat] /\ DmaDataChl \in Seq(Nat)
    BY DEF TypeOK
  <2>1. ASSUME NEW c \in Clients, Take(c) PROVE TakesNewer
    <3>1. 1 \in 1..Len(DmaDataChl) /\ Head(DmaDataChl) = DmaDataChl[1]
      BY <2>0, <2>1 DEF Take
    <3>2. \A d \in Clients : token[d] < DmaDataChl[1]
      BY <3>1 DEF OnePictureEach
    <3>3. \A d \in Clients : token'[d] = IF d = c THEN DmaDataChl[1] ELSE token[d]
      BY <2>0, <2>1, <3>1 DEF Take
    <3> QED
      BY <3>2, <3>3 DEF TakesNewer
  <2>2. ASSUME NEW c \in Clients, Register(c) PROVE TakesNewer
    <3>1. \A d \in Clients : token'[d] = IF d = c THEN 0 ELSE token[d]
      BY <2>0, <2>2 DEF Register
    <3> QED
      BY <3>1 DEF TakesNewer
  <2>3. ASSUME NEW c \in Clients, Client(c), ~Take(c), ~Register(c) PROVE TakesNewer
    BY <2>3 DEF Client, Connect, HangUp, Accept, WritePiece, WriteDone, WriteFail, Leave,
           TakesNewer
  <2>4. CASE DmaThread
    BY <2>4 DEF DmaThread, TransferPiece, TransferDone, TransferFail, Check, Send, Rearm,
           StackOverflow, connVars, TakesNewer
  <2> QED
    BY <2>1, <2>2, <2>3, <2>4 DEF Next
<1> QED
  BY <1>1, TypeCorrect, PicturesInOrder, PTL DEF Spec
=============================================================================
