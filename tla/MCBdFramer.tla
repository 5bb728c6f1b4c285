----------------------------- MODULE MCBdFramer -----------------------------
(***************************************************************************)
(* BdFramer on a ring of a few bytes.  AnyLine is a line with noise on it: *)
(* every byte may be of any kind.  Sentences is a clean line: sentences of *)
(* SentenceLength bytes, the first of them cut where the task came in.     *)
(***************************************************************************)
EXTENDS BdFramer

CONSTANTS SentenceLength, CutOff

AnyLine(n) == Kinds

Sentences(n) ==
  LET at == (n - 1 + CutOff) % SentenceLength
  IN IF at = 0 THEN {"head"}
     ELSE IF at = SentenceLength - 1 THEN {"tail"} ELSE {"text"}
=============================================================================
