------------------------------ MODULE MCAxiDma ------------------------------
(***************************************************************************)
(* AxiDma with three channels whose ids are not their places, and one of   *)
(* them no channel's number.                                               *)
(***************************************************************************)
EXTENDS AxiDma

Channel(id, dir, type) == [id |-> id, dir |-> dir, type |-> type]

Sparse ==
  [j \in 0..2 |-> IF j = 0 THEN Channel(2, "write", "dma")
                  ELSE IF j = 1 THEN Channel(0, "read", "dma")
                  ELSE Channel(5, "write", "vdma")]
=============================================================================
