----------------------------- MODULE PictureFeed ----------------------------
(***************************************************************************)
(* What the way from the FPGA to the TCP clients promises, whatever        *)
(* threads, buffers and counters it is made of: a feed that may pass over  *)
(* pictures.  The one just made is offered once, while a bounded number    *)
(* wait, or passed over; one that waits is taken by one client, oldest     *)
(* first; what the client then reads is never older than what it took.     *)
(* It may be newer: the feed is of the latest there is.                    *)
(***************************************************************************)
EXTENDS Naturals, Sequences

CONSTANTS
  Clients,
  Cap,       \* pictures that may wait
  Size       \* pieces of a picture

VARIABLES
  made,      \* pictures made so far; they are numbered from 1
  fresh,     \* the last of them is still to be offered or passed over
  waiting,   \* pictures offered, oldest first
  here,      \* clients the feed serves
  took,      \* the picture each took last
  got        \* for each piece it has read of that: the picture the piece is of

vars == <<made, fresh, waiting, here, took, got>>

Init ==
  /\ made = 0 /\ fresh = FALSE /\ waiting = <<>> /\ here = {}
  /\ took = [c \in Clients |-> 0] /\ got = [c \in Clients |-> <<>>]

Make ==
  /\ ~fresh
  /\ made' = made + 1 /\ fresh' = TRUE
  /\ UNCHANGED <<waiting, here, took, got>>

Offer ==
  /\ fresh /\ Len(waiting) < Cap
  /\ waiting' = Append(waiting, made) /\ fresh' = FALSE
  /\ UNCHANGED <<made, here, took, got>>

PassOver ==
  /\ fresh
  /\ fresh' = FALSE
  /\ UNCHANGED <<made, waiting, here, took, got>>

Join(c) ==
  /\ c \notin here
  /\ here' = here \cup {c}
  /\ took' = [took EXCEPT ![c] = 0] /\ got' = [got EXCEPT ![c] = <<>>]
  /\ UNCHANGED <<made, fresh, waiting>>

Quit(c) ==
  /\ c \in here
  /\ here' = here \ {c}
  /\ UNCHANGED <<made, fresh, waiting, took, got>>

Take(c) ==
  /\ c \in here /\ waiting /= <<>>
  /\ took' = [took EXCEPT ![c] = Head(waiting)] /\ got' = [got EXCEPT ![c] = <<>>]
  /\ waiting' = Tail(waiting)
  /\ UNCHANGED <<made, fresh, here>>

\* A piece may be of the picture that is being made.
Read(c) ==
  /\ c \in here /\ Len(got[c]) < Size
  /\ \E p \in took[c]..made+1 : got' = [got EXCEPT ![c] = Append(@, p)]
  /\ UNCHANGED <<made, fresh, waiting, here, took>>

Next ==
  \/ Make \/ Offer \/ PassOver
  \/ \E c \in Clients : Join(c) \/ Quit(c) \/ Take(c) \/ Read(c)

Spec == Init /\ [][Next]_vars
=============================================================================
