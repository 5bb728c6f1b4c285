------------------------------ MODULE Startup ------------------------------
(***************************************************************************)
(* The program from main to reception: main.go and partcgo/logic.go, with  *)
(* the GPIO of partc/fly_gpio.c, the descriptors init_fpga and             *)
(* bd_open_uart open, the goroutine of bd_start_task, and InitDma, which   *)
(* receives until a transfer fails.  One thread takes one step after       *)
(* another, and each may fail.  The process may end at any time and be     *)
(* started again; the pin then is as it was left, all else is new.         *)
(***************************************************************************)
EXTENDS Naturals

CONSTANT MaxBoots    \* bound: times the program is started

ASSUME BootsAssumption == MaxBoots \in Nat \ {0}

VARIABLES
  main,        \* the next step of the main thread, or how it ended
  direction,   \* of the GPIO
  value,       \* the level it drives as an output
  pulled,      \* the level it has as an input
  fpga_fd, gBDUartFd, listening,
  task,        \* bd_start_task is running
  failures,    \* history: steps that have failed in this process
  boots

pin == <<direction, value, pulled>>
process == <<fpga_fd, gBDUartFd, listening, task>>
vars == <<main, pin, process, failures, boots>>

\* The steps of PullHighGpio: read_gpio, write_gpio if it read 0, read_gpio.
GpioSteps == {"turn_in", "look", "turn_out", "raise", "turn_back", "look_back", "pulled"}
Steps == {"settings", "logger", "tcp", "export", "fpga", "uart", "spawn", "dma"} \cup GpioSteps

Level == IF direction = "out" THEN value ELSE pulled

Init ==
  /\ main = "settings"
  /\ direction = "in" /\ value = 0 /\ pulled \in {0, 1}
  /\ fpga_fd = FALSE /\ gBDUartFd = FALSE /\ listening = FALSE /\ task = FALSE
  /\ failures = {} /\ boots = 1

Goto(from, to) == main = from /\ main' = to /\ UNCHANGED <<failures, boots>>
Fails(from, to, what) ==
  main = from /\ main' = to /\ failures' = failures \cup {what} /\ UNCHANGED boots

-----------------------------------------------------------------------------
(* main                                                                      *)

Settings == Goto("settings", "logger") /\ UNCHANGED <<pin, process>>

Logger == Goto("logger", "tcp") /\ UNCHANGED <<pin, process>>

TcpServerInit ==
  /\ Goto("tcp", "export")
  /\ listening' = TRUE
  /\ UNCHANGED <<pin, fpga_fd, gBDUartFd, task>>

\* A step whose failure ends main: it returns an error, or, in logger.Init, finds
\* settings.Conf.LogConfig nil.
EndsMain ==
  /\ \E step \in {"settings", "logger", "tcp", "export", "fpga", "uart", "dma"} :
       Fails(step, "exited", step)
  /\ UNCHANGED <<pin, process>>

-----------------------------------------------------------------------------
(* PullHighGpio.  The number "1023" fills gpioNum without its '\0': what     *)
(* atoi makes of the bytes behind it may be the number of no pin, and every  *)
(* open fails.                                                               *)

\* init_gpio: that the pin was exported before does not matter.
Export == Goto("export", "turn_in") /\ UNCHANGED <<pin, process>>

\* read_gpio turns the pin to input ...
TurnIn ==
  /\ Goto("turn_in", "look") \/ Goto("turn_back", "look_back")
  /\ direction' = "in"
  /\ UNCHANGED <<value, pulled, process>>

\* ... and then reads it.
Look ==
  /\ \/ Goto("look", IF Level = 0 THEN "turn_out" ELSE "pulled")
     \/ Goto("look_back", "pulled")
  /\ UNCHANGED <<pin, process>>

\* write_gpio: an output is low at first.
TurnOut ==
  /\ Goto("turn_out", "raise")
  /\ direction' = "out" /\ value' = 0
  /\ UNCHANGED <<pulled, process>>

\* Mutant: what is written is the character '1'.
Raise_Character ==
  /\ Goto("raise", "turn_back") /\ direction = "out"
  /\ value' = 49
  /\ UNCHANGED <<direction, pulled, process>>

\* The level of an input cannot be written.
Raise ==
  /\ Goto("raise", "turn_back") /\ direction = "out"
  /\ value' = 1
  /\ UNCHANGED <<direction, pulled, process>>

\* An open that fails, or the read, ends read_gpio or write_gpio with -1, which
\* is not 0, or which nobody looks at.
GpioFail ==
  /\ \/ Fails("turn_in", "pulled", "pin") \/ Fails("look", "pulled", "pin")
     \/ Fails("turn_out", "turn_back", "pin") \/ Fails("raise", "turn_back", "pin")
     \/ Fails("turn_back", "pulled", "pin") \/ Fails("look_back", "pulled", "pin")
  /\ UNCHANGED <<pin, process>>

\* A write that fails ends nothing: the pin stays as it is, and the next step is
\* taken as if it had been written.
GpioWriteFail ==
  /\ \/ Fails("turn_in", "look", "pin") \/ Fails("turn_back", "look_back", "pin")
     \/ Fails("turn_out", "raise", "pin") \/ Fails("raise", "turn_back", "pin")
  /\ UNCHANGED <<pin, process>>

\* PullHighGpio ends without a return; its caller goes on or gives up.
PullHighGpio ==
  /\ \E to \in {"fpga", "exited"} : Goto("pulled", to)
  /\ UNCHANGED <<pin, process>>

-----------------------------------------------------------------------------
(* The rest of partcgo.Init.                                                 *)

\* Mutant: init_fpga is left out.
InitFpga_Skipped == Goto("fpga", "uart") /\ UNCHANGED <<pin, process>>

InitFpga ==
  /\ Goto("fpga", "uart")
  /\ fpga_fd' = TRUE
  /\ UNCHANGED <<pin, gBDUartFd, listening, task>>

\* bd_open_uart ends without a return when it has succeeded.
OpenUart ==
  /\ \E to \in {"spawn", "exited"} : Goto("uart", to)
  /\ gBDUartFd' = TRUE
  /\ UNCHANGED <<pin, fpga_fd, listening, task>>

\* Mutant: bd_start_task is called without go, and does not return.
Spawn_Called ==
  /\ main = "spawn" /\ task' = TRUE
  /\ UNCHANGED <<main, failures, boots, pin, fpga_fd, gBDUartFd, listening>>

Spawn ==
  /\ Goto("spawn", "dma")
  /\ task' = TRUE
  /\ UNCHANGED <<pin, fpga_fd, gBDUartFd, listening>>

\* Mutant: reception is started and not waited for.
InitDma_Returns == Goto("dma", "running") /\ UNCHANGED <<pin, process>>

\* InitDma is in fly_dma_setCallBackAndStart from now on ...
InitDma == Goto("dma", "receiving") /\ UNCHANGED <<pin, process>>

\* ... until a transfer fails: the callbacks return one after the other, InitDma
\* returns success, main reports that it has started and waits for ever.
TransferFail ==
  /\ Fails("receiving", "running", "transfer")
  /\ UNCHANGED <<pin, process>>

-----------------------------------------------------------------------------
(* The process, from outside.                                                *)

Crash ==
  /\ main /= "exited" /\ main' = "exited"
  /\ UNCHANGED <<pin, process, failures, boots>>

Restart ==
  /\ main = "exited" /\ boots < MaxBoots
  /\ main' = "settings" /\ boots' = boots + 1
  /\ fpga_fd' = FALSE /\ gBDUartFd' = FALSE /\ listening' = FALSE /\ task' = FALSE
  /\ failures' = {}
  /\ UNCHANGED pin

-----------------------------------------------------------------------------

Step ==
  \/ Settings \/ Logger \/ TcpServerInit \/ EndsMain
  \/ Export \/ TurnIn \/ Look \/ TurnOut \/ Raise \/ GpioFail \/ GpioWriteFail
  \/ PullHighGpio \/ InitFpga \/ OpenUart \/ Spawn \/ InitDma

Next == Step \/ TransferFail \/ Crash \/ Restart

\* The main thread runs; a transfer need not fail, nor anyone restart the program.
Spec == Init /\ [][Next]_vars /\ WF_vars(Step)

-----------------------------------------------------------------------------
(* What start-up is there for. *)

\* Every variable has its type.
TypeOK ==
  /\ main \in Steps \cup {"receiving", "running", "exited"}
  /\ direction \in {"in", "out"} /\ value \in {0, 1} /\ pulled \in {0, 1}
  /\ fpga_fd \in BOOLEAN /\ gBDUartFd \in BOOLEAN /\ listening \in BOOLEAN /\ task \in BOOLEAN
  /\ failures \subseteq Steps \cup {"pin", "transfer"}
  /\ boots \in 1..MaxBoots

\* bd_start_task, which looks at neither, finds the line and the FPGA open, also
\* in a process started after another was ended in the middle of its set-up.
TaskReady == task => fpga_fd /\ gBDUartFd

\* Of all that can fail before reception only the pin is passed over; and "start
\* app" is reported when reception has ended, after a transfer that failed, and
\* only then.
OnlyPinPasses ==
  main \in {"receiving", "running"} =>
    /\ listening /\ task
    /\ failures \ {"pin"} = IF main = "running" THEN {"transfer"} ELSE {}

\* Start-up waits for nothing outside the process: it comes to reception or ends.
StartupEnds == main \in Steps ~> main \notin Steps
=============================================================================
