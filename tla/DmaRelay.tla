------------------------------ MODULE DmaRelay ------------------------------
(***************************************************************************)
(* Pictures from the FPGA to TCP clients.  The thread that runs InitDma    *)
(* fills the one buffer rx_buf by a blocking DMA transfer; the callback of *)
(* each transfer (partcgo/dma.go) puts the slice over rx_buf in            *)
(* DmaDataChl when some client is counted and the channel has room, and    *)
(* starts the next transfer from inside the callback.  The accept loop and *)
(* one goroutine per client (logic/tcpserver.go) count clients in ConnNum, *)
(* take slices and write them to their connections, while the DMA may be   *)
(* filling the buffer the slices stand for.                                *)
(*                                                                         *)
(* Every transfer is one picture, numbered from 1.  A slice in the channel *)
(* is the number of the picture it was sent for; what a client is written  *)
(* is read from rx_buf at the time of the write.                           *)
(***************************************************************************)
EXTENDS Naturals, Sequences, FiniteSets

CONSTANTS
  Clients,      \* who may connect
  Cap,          \* capacity of DmaDataChl
  Parts,        \* pieces in which rx_buf is filled and written
  StackLimit,   \* nested callbacks that fit on the stack; bounds the run
  Wrap          \* modulus of the uint32 ConnNum

ASSUME SizesAssumption ==
  /\ Cap \in Nat \ {0} /\ Parts \in Nat \ {0} /\ StackLimit \in Nat /\ Wrap \in Nat
ASSUME ClientsAssumption == IsFiniteSet(Clients) /\ Cardinality(Clients) < Wrap

VARIABLES
  dma,          \* where the DMA thread is
  filled,       \* pieces of rx_buf the transfer under way has written
  frames,       \* pictures received, and the depth of nested callbacks
  rx_buf,       \* for every piece, the picture it is from; 0 before the first
  DmaDataChl,
  ConnNum,
  conn,         \* where each client's connection is
  hungup,       \* its client has closed it, or the network has
  token,        \* the slice it took last
  sent          \* the pieces written of that slice

dmaVars == <<dma, filled, frames, rx_buf>>
connVars == <<conn, hungup, token, sent>>
vars == <<dmaVars, DmaDataChl, ConnNum, connVars>>

\* Connections the accept loop has counted and ProcessDMAData has not given up.
Served == {c \in Clients : conn[c] \in {"waiting", "writing", "leaving"}}

Init ==
  /\ dma = "transfer" /\ filled = 0 /\ frames = 0
  /\ rx_buf = [k \in 1..Parts |-> 0]
  /\ DmaDataChl = <<>> /\ ConnNum = 0
  /\ conn = [c \in Clients |-> "away"]
  /\ hungup = [c \in Clients |-> FALSE]
  /\ token = [c \in Clients |-> 0]
  /\ sent = [c \in Clients |-> <<>>]

-----------------------------------------------------------------------------
(* The DMA thread: fly_dma_recv_data and RecvDmaDataCallBack.                *)

Running == dma /= "crashed"

\* The FPGA writes the next piece of a picture.
TransferPiece ==
  /\ dma = "transfer" /\ filled < Parts
  /\ rx_buf' = [rx_buf EXCEPT ![filled + 1] = frames + 1]
  /\ filled' = filled + 1
  /\ UNCHANGED <<dma, frames, DmaDataChl, ConnNum, connVars>>

\* axidma_oneway_transfer returns 0 and the callback is called.
TransferDone ==
  /\ dma = "transfer" /\ filled = Parts
  /\ dma' = "check" /\ frames' = frames + 1 /\ filled' = 0
  /\ UNCHANGED <<rx_buf, DmaDataChl, ConnNum, connVars>>

\* It fails: fly_dma_recv_data returns, with it every callback, and InitDma.
TransferFail ==
  /\ dma = "transfer"
  /\ dma' = "stopped"
  /\ UNCHANGED <<filled, frames, rx_buf, DmaDataChl, ConnNum, connVars>>

\* Mutant: the test for room is off by one.
Check_FullTest ==
  /\ dma = "check"
  /\ dma' = IF ConnNum > 0 /\ Len(DmaDataChl) <= Cap THEN "send" ELSE "rearm"
  /\ UNCHANGED <<filled, frames, rx_buf, DmaDataChl, ConnNum, connVars>>

\* The callback tests ConnNum and the room in the channel ...
Check ==
  /\ dma = "check"
  /\ dma' = IF ConnNum > 0 /\ Len(DmaDataChl) < Cap THEN "send" ELSE "rearm"
  /\ UNCHANGED <<filled, frames, rx_buf, DmaDataChl, ConnNum, connVars>>

\* ... and then sends, which blocks on a full channel.
Send ==
  /\ dma = "send" /\ Len(DmaDataChl) < Cap
  /\ DmaDataChl' = Append(DmaDataChl, frames)
  /\ dma' = "rearm"
  /\ UNCHANGED <<filled, frames, rx_buf, ConnNum, connVars>>

\* The callback calls fly_dma_recv_data: one more level of nesting.
Rearm ==
  /\ dma = "rearm" /\ frames < StackLimit
  /\ dma' = "transfer"
  /\ UNCHANGED <<filled, frames, rx_buf, DmaDataChl, ConnNum, connVars>>

\* No callback ever returns before a transfer fails, so the stack runs out.
StackOverflow ==
  /\ dma = "rearm" /\ frames = StackLimit
  /\ dma' = "crashed"
  /\ UNCHANGED <<filled, frames, rx_buf, DmaDataChl, ConnNum, connVars>>

-----------------------------------------------------------------------------
(* Clients, and the network between.                                         *)

Connect(c) ==
  /\ Running /\ conn[c] = "away"
  /\ conn' = [conn EXCEPT ![c] = "queued"]
  /\ hungup' = [hungup EXCEPT ![c] = FALSE]
  /\ UNCHANGED <<dmaVars, DmaDataChl, ConnNum, token, sent>>

HangUp(c) ==
  /\ Running /\ conn[c] /= "away" /\ ~hungup[c]
  /\ hungup' = [hungup EXCEPT ![c] = TRUE]
  /\ UNCHANGED <<dmaVars, DmaDataChl, ConnNum, conn, token, sent>>

-----------------------------------------------------------------------------
(* The accept loop of TcpServerInit: one connection at a time.               *)

Accept(c) ==
  /\ Running /\ conn[c] = "queued"
  /\ \A d \in Clients : conn[d] /= "accepted"
  /\ conn' = [conn EXCEPT ![c] = "accepted"]
  /\ UNCHANGED <<dmaVars, DmaDataChl, ConnNum, hungup, token, sent>>

\* ConnNum is incremented and the goroutine started.
Register(c) ==
  /\ Running /\ conn[c] = "accepted"
  /\ ConnNum' = (ConnNum + 1) % Wrap
  /\ conn' = [conn EXCEPT ![c] = "waiting"]
  /\ token' = [token EXCEPT ![c] = 0] /\ sent' = [sent EXCEPT ![c] = <<>>]
  /\ UNCHANGED <<dmaVars, DmaDataChl, hungup>>

-----------------------------------------------------------------------------
(* ProcessDMAData.                                                           *)

\* Mutant: the slice is looked at and left in the channel.
Take_Peek(c) ==
  /\ Running /\ conn[c] = "waiting" /\ DmaDataChl /= <<>>
  /\ token' = [token EXCEPT ![c] = Head(DmaDataChl)]
  /\ sent' = [sent EXCEPT ![c] = <<>>]
  /\ conn' = [conn EXCEPT ![c] = "writing"]
  /\ UNCHANGED <<dmaVars, DmaDataChl, ConnNum, hungup>>

Take(c) ==
  /\ Running /\ conn[c] = "waiting" /\ DmaDataChl /= <<>>
  /\ token' = [token EXCEPT ![c] = Head(DmaDataChl)]
  /\ DmaDataChl' = Tail(DmaDataChl)
  /\ sent' = [sent EXCEPT ![c] = <<>>]
  /\ conn' = [conn EXCEPT ![c] = "writing"]
  /\ UNCHANGED <<dmaVars, ConnNum, hungup>>

\* conn.Write goes on as fast as the client reads; a client that has just hung
\* up may still have pieces written to its socket.
WritePiece(c) ==
  /\ Running /\ conn[c] = "writing" /\ Len(sent[c]) < Parts
  /\ sent' = [sent EXCEPT ![c] = Append(@, rx_buf[Len(@) + 1])]
  /\ UNCHANGED <<dmaVars, DmaDataChl, ConnNum, conn, hungup, token>>

Written(c) == conn[c] = "writing" /\ Len(sent[c]) = Parts

WriteDone(c) ==
  /\ Running /\ Written(c)
  /\ conn' = [conn EXCEPT ![c] = "waiting"]
  /\ UNCHANGED <<dmaVars, DmaDataChl, ConnNum, hungup, token, sent>>

\* Mutant: the slice that could not be written is put back.
WriteFail_PutBack(c) ==
  /\ Running /\ conn[c] = "writing" /\ hungup[c]
  /\ conn' = [conn EXCEPT ![c] = "leaving"]
  /\ DmaDataChl' = IF Len(DmaDataChl) < Cap THEN Append(DmaDataChl, token[c]) ELSE DmaDataChl
  /\ UNCHANGED <<dmaVars, ConnNum, hungup, token, sent>>

WriteFail(c) ==
  /\ Running /\ conn[c] = "writing" /\ hungup[c]
  /\ conn' = [conn EXCEPT ![c] = "leaving"]
  /\ UNCHANGED <<dmaVars, DmaDataChl, ConnNum, hungup, token, sent>>

\* Mutant: the goroutine ends without counting its connection out.
Leave_StillCounted(c) ==
  /\ Running /\ conn[c] = "leaving"
  /\ conn' = [conn EXCEPT ![c] = "away"]
  /\ UNCHANGED <<dmaVars, DmaDataChl, ConnNum, hungup, token, sent>>

\* Mutant: the counter is wider than the ^uint32(0) that is added to it.
Leave_Wider(c) ==
  /\ Running /\ conn[c] = "leaving"
  /\ ConnNum' = ConnNum + (Wrap - 1)
  /\ conn' = [conn EXCEPT ![c] = "away"]
  /\ UNCHANGED <<dmaVars, DmaDataChl, hungup, token, sent>>

\* AddUint32(&ConnNum, ^uint32(0)), and the deferred Close.
Leave(c) ==
  /\ Running /\ conn[c] = "leaving"
  /\ ConnNum' = (ConnNum + (Wrap - 1)) % Wrap
  /\ conn' = [conn EXCEPT ![c] = "away"]
  /\ UNCHANGED <<dmaVars, DmaDataChl, hungup, token, sent>>

DmaThread ==
  TransferPiece \/ TransferDone \/ TransferFail \/ Check \/ Send \/ Rearm \/ StackOverflow

Client(c) ==
  \/ Connect(c) \/ HangUp(c) \/ Accept(c) \/ Register(c)
  \/ Take(c) \/ WritePiece(c) \/ WriteDone(c) \/ WriteFail(c) \/ Leave(c)

Next == DmaThread \/ \E c \in Clients : Client(c)

\* Of the callback only: no client need read, and no picture need come.
Fairness == WF_vars(Check) /\ WF_vars(Send) /\ WF_vars(Rearm) /\ WF_vars(StackOverflow)

Spec == Init /\ [][Next]_vars /\ Fairness

-----------------------------------------------------------------------------
(* What the relay is there for. *)

\* Every variable has its type; the channel is never over its capacity.
TypeOK ==
  /\ dma \in {"transfer", "check", "send", "rearm", "stopped", "crashed"}
  /\ filled \in 0..Parts /\ frames \in Nat
  /\ rx_buf \in [1..Parts -> Nat]
  /\ DmaDataChl \in Seq(Nat) /\ Len(DmaDataChl) <= Cap
  /\ ConnNum \in 0..Wrap-1
  /\ conn \in [Clients -> {"away", "queued", "accepted", "waiting", "writing", "leaving"}]
  /\ hungup \in [Clients -> BOOLEAN]
  /\ token \in [Clients -> Nat]
  /\ sent \in [Clients -> Seq(Nat)] /\ \A c \in Clients : Len(sent[c]) <= Parts

\* A client that does not read never blocks the callback: once it has found
\* room in the channel no one else takes that room before it sends.
SendNeverBlocks == dma = "send" => Len(DmaDataChl) < Cap

\* ConnNum counts the connections being served, however their registrations
\* and departures are interleaved, and never wraps.
ConnNumAccurate == ConnNum = Cardinality(Served)

\* No picture is announced twice or out of order: slices wait in the order of
\* their pictures, and the one a client took last is older than all that wait
\* and different from every other client's.
OnePictureEach ==
  /\ \A i, j \in 1..Len(DmaDataChl) : i < j => DmaDataChl[i] < DmaDataChl[j]
  /\ \A i \in 1..Len(DmaDataChl) :
       /\ DmaDataChl[i] \in 1..frames
       /\ \A c \in Clients : token[c] < DmaDataChl[i]
  /\ \A c, d \in Clients : c /= d /\ token[c] > 0 => token[c] /= token[d]

\* Reception goes on whatever the clients do: after a picture the callback
\* comes round to the next transfer, or has used up the stack.
ReceptionGoesOn ==
  dma \in {"check", "send", "rearm"} ~> dma \in {"transfer", "crashed"}

\* The abstract specification, seen in the relay's state: the picture just
\* received is fresh until the callback has sent it or found it should not.
Feed == INSTANCE PictureFeed WITH
  Size <- Parts, made <- frames, fresh <- dma \in {"check", "send"},
  waiting <- DmaDataChl, here <- Served, took <- token, got <- sent

\* The relay implements the feed: whatever the DMA thread, the accept loop, the
\* goroutines and the network do, every step is one of the feed or changes
\* nothing of it.
FeedsPictures == Feed!Spec

-----------------------------------------------------------------------------
(* What a comment says and the code does not do. *)

\* fly_dma.c:26, dma.go:21: DMA_READ_SIZE bytes are one picture, so a client
\* that is written that many is written one picture.  Fails when the next
\* transfer overtakes the write.
OnePictureWritten ==
  \A c \in Clients : Written(c) => \A i \in 1..Parts : sent[c][i] = sent[c][1]
=============================================================================
