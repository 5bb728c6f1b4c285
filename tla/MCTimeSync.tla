----------------------------- MODULE MCTimeSync -----------------------------
(***************************************************************************)
(* TimeSync around two midnights in April 2023.  At the last of the times  *)
(* utc_time is Carry: the low register passes over to the high one.        *)
(***************************************************************************)
EXTENDS TimeSync

Midnight == 19461 * Day
Carry == 65536 * 25658
Nights == {Midnight - 1, Midnight, Midnight + Day + 7, Carry + Zone - 1, Carry + Zone}
=============================================================================
