---------------------------- MODULE StartupProofs ---------------------------
(***************************************************************************)
(* Theorems about Startup, for any number of starts.                       *)
(***************************************************************************)
EXTENDS Startup, TLAPS

\* What has been done by the time the main thread is at a step.
Done ==
  /\ main \in {"export", "fpga", "uart", "spawn", "dma", "receiving", "running"} \cup GpioSteps => listening
  /\ main \in {"uart", "spawn", "dma", "receiving", "running"} => fpga_fd
  /\ main \in {"spawn", "dma", "receiving", "running"} => gBDUartFd
  /\ main \in {"dma", "receiving", "running"} => task
  /\ main \notin {"running", "exited"} => failures \subseteq {"pin"}
  /\ main = "running" => failures \ {"pin"} = {"transfer"}
  /\ task => fpga_fd /\ gBDUartFd
  /\ "pin" \notin failures =>
       (main \in {"look", "look_back", "pulled", "fpga", "uart", "spawn", "dma", "receiving",
                  "running"} => direction = "in")

LEMMA InitDone == Init => TypeOK /\ Done
<1> SUFFICES ASSUME Init PROVE TypeOK /\ Done
  OBVIOUS
<1>1. main = "settings" /\ failures = {} /\ boots \in 1..MaxBoots
  BY BootsAssumption DEF Init
<1>2. TypeOK
  BY <1>1 DEF Init, TypeOK, Steps
<1>3. Done
  BY <1>1 DEF Init, Done, GpioSteps
<1> QED
  BY <1>2, <1>3

LEMMA NextDone ==
  ASSUME TypeOK, Done, [Next]_vars
  PROVE  TypeOK' /\ Done'
<1> USE DEF Goto, Fails, pin, process
<1>1. CASE Settings
  <2>1. TypeOK'
    BY <1>1, BootsAssumption DEF Settings, TypeOK, Steps, GpioSteps
  <2>2. Done'
    BY <1>1 DEF Settings, Done, GpioSteps
  <2> QED
    BY <2>1, <2>2
<1>2. CASE Logger
  <2>1. TypeOK'
    BY <1>2, BootsAssumption DEF Logger, TypeOK, Steps, GpioSteps
  <2>2. Done'
    BY <1>2 DEF Logger, Done, GpioSteps
  <2> QED
    BY <2>1, <2>2
<1>3. CASE TcpServerInit
  <2>1. TypeOK'
    BY <1>3, BootsAssumption DEF TcpServerInit, TypeOK, Steps, GpioSteps
  <2>2. Done'
    BY <1>3 DEF TcpServerInit, Done, GpioSteps
  <2> QED
    BY <2>1, <2>2
<1>4. CASE EndsMain
  <2>1. TypeOK'
    BY <1>4, BootsAssumption DEF EndsMain, TypeOK, Steps, GpioSteps
  <2>2. Done'
    BY <1>4 DEF EndsMain, Done, GpioSteps
  <2> QED
    BY <2>1, <2>2
<1>5. CASE Export
  <2>1. TypeOK'
    BY <1>5, BootsAssumption DEF Export, TypeOK, Steps, GpioSteps
  <2>2. Done'
    BY <1>5 DEF Export, Done, GpioSteps
  <2> QED
    BY <2>1, <2>2
<1>6. CASE TurnIn
  <2>1. TypeOK'
    BY <1>6, BootsAssumption DEF TurnIn, TypeOK, Steps, GpioSteps
  <2>2. Done'
    BY <1>6 DEF TurnIn, Done, GpioSteps
  <2> QED
    BY <2>1, <2>2
<1>7. CASE Look
  <2>1. TypeOK'
    BY <1>7, BootsAssumption DEF Look, TypeOK, Steps, GpioSteps
  <2>2. Done'
    BY <1>7 DEF Look, Done, GpioSteps
  <2> QED
    BY <2>1, <2>2
<1>8. CASE TurnOut
  <2>1. TypeOK'
    BY <1>8, BootsAssumption DEF TurnOut, TypeOK, Steps, GpioSteps
  <2>2. Done'
    BY <1>8 DEF TurnOut, Done, GpioSteps
  <2> QED
    BY <2>1, <2>2
<1>9. CASE Raise
  <2>1. TypeOK'
    BY <1>9, BootsAssumption DEF Raise, TypeOK, Steps, GpioSteps
  <2>2. Done'
    BY <1>9 DEF Raise, Done, GpioSteps
  <2> QED
    BY <2>1, <2>2
<1>10. CASE GpioFail
  <2>1. TypeOK'
    BY <1>10, BootsAssumption DEF GpioFail, TypeOK, Steps, GpioSteps
  <2>2. Done'
    BY <1>10 DEF GpioFail, Done, GpioSteps
  <2> QED
    BY <2>1, <2>2
<1>11. CASE PullHighGpio
  <2>1. TypeOK'
    BY <1>11, BootsAssumption DEF PullHighGpio, TypeOK, Steps, GpioSteps
  <2>2. Done'
    BY <1>11 DEF PullHighGpio, Done, GpioSteps
  <2> QED
    BY <2>1, <2>2
<1>12. CASE InitFpga
  <2>1. TypeOK'
    BY <1>12, BootsAssumption DEF InitFpga, TypeOK, Steps, GpioSteps
  <2>2. Done'
    BY <1>12 DEF InitFpga, Done, GpioSteps
  <2> QED
    BY <2>1, <2>2
<1>13. CASE OpenUart
  <2>1. TypeOK'
    BY <1>13, BootsAssumption DEF OpenUart, TypeOK, Steps, GpioSteps
  <2>2. Done'
    BY <1>13 DEF OpenUart, Done, GpioSteps
  <2> QED
    BY <2>1, <2>2
<1>14. CASE Spawn
  <2>1. TypeOK'
    BY <1>14, BootsAssumption DEF Spawn, TypeOK, Steps, GpioSteps
  <2>2. Done'
    BY <1>14 DEF Spawn, Done, GpioSteps
  <2> QED
    BY <2>1, <2>2
<1>15. CASE InitDma
  <2>1. TypeOK'
    BY <1>15, BootsAssumption DEF InitDma, TypeOK, Steps, GpioSteps
  <2>2. Done'
    BY <1>15 DEF InitDma, Done, GpioSteps
  <2> QED
    BY <2>1, <2>2
<1>16. CASE TransferFail
  <2>1. TypeOK'
    BY <1>16, BootsAssumption DEF TransferFail, TypeOK, Steps, GpioSteps
  <2>2. Done'
    BY <1>16 DEF TransferFail, Done, GpioSteps
  <2> QED
    BY <2>1, <2>2
<1>17. CASE Crash
  <2>1. TypeOK'
    BY <1>17, BootsAssumption DEF Crash, TypeOK, Steps, GpioSteps
  <2>2. Done'
    BY <1>17 DEF Crash, Done, GpioSteps
  <2> QED
    BY <2>1, <2>2
<1>18. CASE Restart
  <2>1. boots' \in 1..MaxBoots
    BY <1>18, BootsAssumption DEF Restart, TypeOK
  <2>2. TypeOK'
    BY <1>18, <2>1 DEF Restart, TypeOK, Steps
  <2>3. Done'
    BY <1>18 DEF Restart, Done, GpioSteps
  <2> QED
    BY <2>2, <2>3
<1>19. CASE UNCHANGED vars
  BY <1>19 DEF vars, TypeOK, Done
<1>20. CASE GpioWriteFail
  <2>1. TypeOK'
    BY <1>20, BootsAssumption DEF GpioWriteFail, TypeOK, Steps, GpioSteps
  <2>2. Done'
    BY <1>20 DEF GpioWriteFail, Done, GpioSteps
  <2> QED
    BY <2>1, <2>2
<1> QED
  BY <1>1, <1>2, <1>3, <1>4, <1>5, <1>6, <1>7, <1>8, <1>9, <1>10, <1>11, <1>12, <1>13, <1>14, <1>15, <1>16, <1>17, <1>18, <1>19, <1>20
     DEF Next, Step

LEMMA DoneInvariant == Spec => [](TypeOK /\ Done)
<1>1. TypeOK /\ Done /\ [Next]_vars => (TypeOK /\ Done)'
  BY NextDone
<1> QED
  BY InitDone, <1>1, PTL DEF Spec

\* All variables keep their types.
THEOREM TypeCorrect == Spec => []TypeOK
BY DoneInvariant, PTL

\* bd_start_task finds the line and the FPGA open, also after a crash and a restart.
THEOREM TaskFindsAll == Spec => []TaskReady
<1>1. TypeOK /\ Done => TaskReady
  BY DEF Done, TaskReady
<1> QED
  BY DoneInvariant, <1>1, PTL

\* Of all that can fail before reception only the pin is passed over, and the
\* program reports that it has started only when reception has ended.
THEOREM PinPassesOnly == Spec => []OnlyPinPasses
<1>1. TypeOK /\ Done => OnlyPinPasses
  BY DEF Done, OnlyPinPasses
<1> QED
  BY DoneInvariant, <1>1, PTL

\* Once PullHighGpio has done all it does, without a failure and whatever it and
\* processes before it wrote, the pin has the level the board gives it.
PinAsWired ==
  main \in {"fpga", "uart", "spawn", "dma", "receiving", "running"} /\ "pin" \notin failures =>
    Level = pulled

\* PullHighGpio does not leave the pin high, as its name says and logic.go:22
\* ("pull the GPIO read signal high"): reading it back (fly_gpio.c:118, :63) has
\* turned the pin to input again, and what write_gpio wrote no longer counts.
THEOREM PinIsInput == Spec => []PinAsWired
<1>1. TypeOK /\ Done => PinAsWired
  BY DEF Done, PinAsWired, Level
<1> QED
  BY DoneInvariant, <1>1, PTL

-----------------------------------------------------------------------------
(* The safety half of StartupEnds: what the main thread does is bounded.     *)

\* Steps that are left at most, the one to be taken included.
StepsLeft == [
  settings |-> 15, logger |-> 14, tcp |-> 13, export |-> 12, turn_in |-> 11, look |-> 10,
  turn_out |-> 9, raise |-> 8, turn_back |-> 7, look_back |-> 6, pulled |-> 5,
  fpga |-> 4, uart |-> 3, spawn |-> 2, dma |-> 1]

\* Whatever fails and wherever the pin is, a step of start-up leads to one nearer
\* to reception or ends start-up: none is done twice, and nothing is tried again.
ComesCloser == main \in Steps => main' \notin Steps \/ StepsLeft[main'] < StepsLeft[main]

LEMMA StepsLeftValues ==
  /\ StepsLeft["settings"] = 15 /\ StepsLeft["logger"] = 14 /\ StepsLeft["tcp"] = 13
  /\ StepsLeft["export"] = 12 /\ StepsLeft["turn_in"] = 11 /\ StepsLeft["look"] = 10
  /\ StepsLeft["turn_out"] = 9 /\ StepsLeft["raise"] = 8 /\ StepsLeft["turn_back"] = 7
  /\ StepsLeft["look_back"] = 6 /\ StepsLeft["pulled"] = 5 /\ StepsLeft["fpga"] = 4
  /\ StepsLeft["uart"] = 3 /\ StepsLeft["spawn"] = 2 /\ StepsLeft["dma"] = 1
BY DEF StepsLeft

\* PullHighGpio comes nearer too, also where read_gpio or write_gpio fails.
LEMMA PinCloser ==
  ASSUME Export \/ TurnIn \/ Look \/ TurnOut \/ Raise \/ GpioFail \/ GpioWriteFail \/ PullHighGpio
  PROVE  ComesCloser
<1> USE StepsLeftValues DEF Goto, Fails, ComesCloser, Steps, GpioSteps
<1>1. CASE Export \/ TurnIn
  BY <1>1 DEF Export, TurnIn
<1>2. CASE Look
  BY <1>2 DEF Look
<1>3. CASE TurnOut \/ Raise
  BY <1>3 DEF TurnOut, Raise
<1>4. CASE GpioFail \/ GpioWriteFail
  BY <1>4 DEF GpioFail, GpioWriteFail
<1>5. CASE PullHighGpio
  BY <1>5 DEF PullHighGpio
<1> QED
  BY <1>1, <1>2, <1>3, <1>4, <1>5

\* Start-up takes at most 15 steps before it comes to reception or ends, in
\* every process that is started.
THEOREM StartupBounded == Spec => [][ComesCloser]_vars
<1>1. Next => ComesCloser
  <2> SUFFICES ASSUME Next PROVE ComesCloser
    OBVIOUS
  <2> USE StepsLeftValues DEF Goto, Fails, ComesCloser, Steps, GpioSteps
  <2>1. CASE Settings \/ Logger \/ TcpServerInit
    BY <2>1 DEF Settings, Logger, TcpServerInit
  <2>2. CASE InitFpga \/ OpenUart
    BY <2>2 DEF InitFpga, OpenUart
  <2>3. CASE Spawn \/ InitDma
    BY <2>3 DEF Spawn, InitDma
  <2>4. CASE EndsMain \/ TransferFail
    BY <2>4 DEF EndsMain, TransferFail
  <2>5. CASE Crash \/ Restart
    BY <2>5 DEF Crash, Restart
  <2> QED
    BY <2>1, <2>2, <2>3, <2>4, <2>5, PinCloser DEF Next, Step
<1> QED
  BY <1>1, PTL DEF Spec
=============================================================================
