------------------------------ MODULE MCFlyDma ------------------------------
(***************************************************************************)
(* FlyDma on a board with a receive and a transmit channel, in this order. *)
(***************************************************************************)
EXTENDS FlyDma

ReceiveFirst ==
  [j \in 0..1 |-> [id |-> j, dir |-> IF j = 0 THEN "read" ELSE "write", type |-> "dma"]]
=============================================================================
