----------------------------- MODULE MCSettings -----------------------------
(***************************************************************************)
(* Settings with a file that has every section, one without the log's and  *)
(* one whose hardware section is no section.                               *)
(***************************************************************************)
EXTENDS Settings

Version(n) == [port |-> n, hardware |-> n, log |-> n]
First == Version(1)
NoLog == [Version(3) EXCEPT !.log = 0]
NoHardware == [Version(4) EXCEPT !.hardware = Mistyped]
Written == {Version(2), NoLog, NoHardware}
=============================================================================
