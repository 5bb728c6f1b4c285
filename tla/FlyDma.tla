------------------------------- MODULE FlyDma -------------------------------
(***************************************************************************)
(* The program's use of the AXI DMA library, partc/fly_dma.c:              *)
(* fly_dma_init sets the device up and maps rx_buf, and                    *)
(* fly_dma_setCallBackAndStart receives, one blocking transfer after       *)
(* another on channel 0; fly_dma_free gives back both.  Every step is a    *)
(* step of AxiDma, or fly_dma.c's own and none of the library's.           *)
(***************************************************************************)
EXTENDS Integers, Sequences, FiniteSets

CONSTANTS
  N, Chan, Callbacks, Data, Null, External, Pages, Slack, MaxInits, MaxPending,
  BufPages      \* pages of rx_buf

VARIABLES
  pc, initialized, fd, array, num_channels, channels, built, call,
  mapped, allocated, registered, running, cyclic, pending, asked,
  probes, wanted, rash, beyond,
  fly,          \* where fly_dma.c is
  rx_buf        \* its address, or -1

Lib == INSTANCE AxiDma

libVars == <<pc, initialized, fd, array, num_channels, channels, built, call,
             mapped, allocated, registered, running, cyclic, pending, asked,
             probes, wanted, rash, beyond>>
vars == <<libVars, fly, rx_buf>>

NoBuf == -1
ReceiveKind == <<"read", "dma">>

ASSUME BufAssumption == BufPages \in 1..Pages

\* Those of AxiDma.
ASSUME DriverAssumption ==
  /\ N \in Nat \ {0}
  /\ Chan \in [Lib!Places -> [id : Nat, dir : Lib!Dirs, type : Lib!Types]]
  /\ \A i, j \in Lib!Places : Chan[i].id = Chan[j].id => i = j
ASSUME BoundsAssumption ==
  /\ Pages \in Nat /\ Slack \in Nat /\ MaxInits \in Nat /\ MaxPending \in Nat
  /\ Null \notin Callbacks

Init == Lib!Init /\ fly = "off" /\ rx_buf = NoBuf

-----------------------------------------------------------------------------
(* fly_dma_init.                                                             *)

Begin ==
  /\ fly = "off" /\ Lib!Open
  /\ fly' = "init" /\ UNCHANGED rx_buf

\* axidma_init returns NULL.
InitFail ==
  /\ fly = "init" /\ (Lib!ProbeFail \/ Lib!AllocateFail \/ Lib!SetupFail)
  /\ fly' = "failed" /\ UNCHANGED rx_buf

InitGoesOn ==
  /\ fly = "init" /\ (Lib!Allocate \/ Lib!Categorize)
  /\ UNCHANGED <<fly, rx_buf>>

InitDone ==
  /\ fly = "init" /\ Lib!Setup
  /\ fly' = "opened" /\ UNCHANGED rx_buf

\* No receive channel, or no memory: the device stays as it is.
SetUpFail ==
  /\ fly = "opened"
  /\ fly' = "failed"
  /\ UNCHANGED <<libVars, rx_buf>>

\* Mutant: rx_buf is the end of what was mapped.
Map_End ==
  /\ fly = "opened" /\ Len(array[ReceiveKind]) >= 1
  /\ \E addr \in Lib!Page : Lib!Malloc(addr, BufPages) /\ rx_buf' = addr + BufPages
  /\ fly' = "mapped"

Map ==
  /\ fly = "opened" /\ Len(array[ReceiveKind]) >= 1
  /\ \E addr \in Lib!Page : Lib!Malloc(addr, BufPages) /\ rx_buf' = addr
  /\ fly' = "mapped"

\* The channel of every transfer.
Channel == 0

StopFirst ==
  /\ fly = "mapped" /\ Lib!Stop(Channel)
  /\ fly' = "ready" /\ UNCHANGED rx_buf

-----------------------------------------------------------------------------
(* fly_dma_setCallBackAndStart, fly_dma_recv_data.                           *)

\* Mutant: the transfer is not waited for, as in the line commented out.
Transfer_NoWait ==
  /\ fly \in {"ready", "receiving"} /\ Lib!Oneway(Channel, FALSE)
  /\ fly' = "receiving" /\ UNCHANGED rx_buf

Transfer ==
  /\ fly \in {"ready", "receiving"} /\ Lib!Oneway(Channel, TRUE)
  /\ fly' = "receiving" /\ UNCHANGED rx_buf

TransferFail ==
  /\ fly \in {"ready", "receiving"}
  /\ fly' = "stopped"
  /\ UNCHANGED <<libVars, rx_buf>>

-----------------------------------------------------------------------------
(* fly_dma_free.                                                             *)

\* Mutant: rx_buf is not given back.
FreeBuf_Kept ==
  /\ fly = "stopped"
  /\ fly' = "unmapped" /\ UNCHANGED <<libVars, rx_buf>>

FreeBuf ==
  /\ fly = "stopped" /\ Lib!Unmap(rx_buf, BufPages)
  /\ fly' = "unmapped" /\ UNCHANGED rx_buf

Destroy ==
  /\ fly = "unmapped" /\ Lib!Free
  /\ UNCHANGED <<fly, rx_buf>>

Destroyed ==
  /\ fly = "unmapped" /\ Lib!Close
  /\ fly' = "off" /\ UNCHANGED rx_buf

\* An assertion of axidma_stop_transfer, axidma_oneway_transfer, axidma_free or
\* axidma_destroy fails.
Aborts ==
  /\ fly \in {"mapped", "ready", "receiving", "stopped", "unmapped"} /\ Lib!AssertFail
  /\ UNCHANGED <<fly, rx_buf>>

\* The library's signal is not part of Next: NothingUnderWay.
Next ==
  \/ Begin \/ InitFail \/ InitGoesOn \/ InitDone \/ SetUpFail \/ Map \/ StopFirst
  \/ Transfer \/ TransferFail \/ FreeBuf \/ Destroy \/ Destroyed \/ Aborts

Spec == Init /\ [][Next]_vars

-----------------------------------------------------------------------------
(* What fly_dma.c is there for. *)

\* fly_dma.c's own variables have their types.
TypeOK ==
  /\ fly \in {"off", "init", "opened", "mapped", "ready", "receiving", "stopped",
             "unmapped", "failed"}
  /\ rx_buf \in Lib!Page \cup {NoBuf}

\* As long as a transfer may fill it rx_buf is mapped whole, and fly_dma_free
\* gives back what fly_dma_init took.
BufferHeld ==
  /\ fly \in {"mapped", "ready", "receiving", "stopped"} =>
       Lib!Region(rx_buf, BufPages) \subseteq mapped /\ rx_buf + BufPages <= Pages
  /\ fly = "off" => mapped = {} /\ ~fd

\* No transfer goes on behind the program's back: none is left to signal, and
\* axidma_callback, which axidma_destroy does not wait for, never runs.
NothingUnderWay == running = {} /\ cyclic = {} /\ \A c \in Lib!Ids : pending[c] = 0
=============================================================================
