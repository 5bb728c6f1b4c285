----------------------------- MODULE MCDmaRelay -----------------------------
(***************************************************************************)
(* DmaRelay with two clients that are alike.                               *)
(***************************************************************************)
EXTENDS DmaRelay, TLC

Alike == Permutations(Clients)
=============================================================================
