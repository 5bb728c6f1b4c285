---------------------------- MODULE SentenceFeed ----------------------------
(***************************************************************************)
(* What the way from the serial line to bd_start_task promises, whatever   *)
(* rings, spans and indices it is made of: a feed of sentences.  One at a  *)
(* time is handed over, byte for byte as it came over the line, and all of *)
(* its bytes come after those of the sentences before it.  It may pass     *)
(* over bytes, and it may drop a sentence it has begun; the next one it    *)
(* hands over is then garbled, and only that one: its bytes are still new, *)
(* but they need not be a sentence.                                        *)
(***************************************************************************)
EXTENDS Integers

VARIABLES
  arrived,   \* bytes that came over the line; they are numbered from 1
  done,      \* the byte up to which nothing is handed over any more
  sentence,  \* the bytes handed over and not yet done with
  dropped,   \* a sentence was dropped: the next one is garbled
  broken     \* nothing is promised any more

vars == <<arrived, done, sentence, dropped, broken>>

Byte == [n : Nat, k : {"head", "tail", "nul", "text"}]
None == <<>>
Idle == DOMAIN sentence = {}

Init == arrived = 0 /\ done = 0 /\ sentence = None /\ dropped = FALSE /\ broken = FALSE

Arrive ==
  /\ arrived' \in Nat /\ arrived' > arrived
  /\ UNCHANGED <<done, sentence, dropped, broken>>

\* A whole sentence: from its '$' to the byte before the '\n', which has arrived
\* too and which no other '\n' precedes, unless one stands behind a NUL.
HandOver ==
  /\ Idle /\ ~dropped
  /\ \E first \in done+1..arrived : \E len \in 1..arrived-first :
       /\ sentence' \in [1..len -> Byte]
       /\ \A i \in 1..len : sentence'[i].n = first + i - 1
  /\ sentence'[1].k = "head"
  /\ \A i \in DOMAIN sentence' :
       sentence'[i].k = "tail" => \E j \in 1..i : sentence'[j].k = "nul"
  /\ UNCHANGED <<arrived, done, dropped, broken>>

\* After a drop: new bytes, and gaps (n = 0) where none were put.
HandOverGarbled ==
  /\ Idle /\ dropped
  /\ DOMAIN sentence' # {}
  /\ \A i \in DOMAIN sentence' : sentence'[i].n = 0 \/ sentence'[i].n \in done+1..arrived
  /\ UNCHANGED <<arrived, done, dropped, broken>>

\* The sentence and the '\n' behind it are done with, and so is the drop.
Finish ==
  /\ ~Idle
  /\ sentence' = None /\ dropped' = FALSE
  /\ done' \in done..arrived
  /\ \A i \in DOMAIN sentence : sentence[i].n <= done'
  /\ ~dropped => \E i \in DOMAIN sentence : done' = sentence[i].n + 1
  /\ UNCHANGED <<arrived, broken>>

\* At least a '$' and a '\n' came that are not handed over.
Drop ==
  /\ Idle /\ ~dropped /\ arrived >= done + 2
  /\ dropped' = TRUE
  /\ UNCHANGED <<arrived, done, sentence, broken>>

Break == broken' = TRUE

Next == Arrive \/ HandOver \/ HandOverGarbled \/ Finish \/ Drop \/ Break

Spec == Init /\ [][Next]_vars
=============================================================================
