------------------------------ MODULE UartLine ------------------------------
(***************************************************************************)
(* A serial line and its settings: partc/fly_uart.c but for uart_recv's    *)
(* read, which is in BdFramer.  uart_open opens the device, reads its      *)
(* settings, changes them and puts them back; bytes go on arriving, and    *)
(* the settings it finds are those whoever had the line before has left.   *)
(*                                                                         *)
(* The four words of flags of a struct termios are sets of flags, so that  *)
(* |= adds and &= ~ takes away; CSIZE is the two flags S0 and S1.          *)
(***************************************************************************)
EXTENDS Naturals

CONSTANTS
  Left,         \* settings in which others may leave the line
  Asked,        \* arguments UART1_Set may be called with on an open line
  Descriptors   \* the numbers open may give

\* name_arr: the speeds there are.
Speeds == {115200, 57600, 38400, 19200, 9600, 4800, 2400, 1200, 300}

\* Speeds, and what is in force in their place when c_cflag has the bit of IXOFF too.
Faster == {<<300, 921600>>, <<1200, 1152000>>, <<2400, 2000000>>, <<4800, 2500000>>,
           <<9600, 3000000>>, <<19200, 3500000>>, <<38400, 4000000>>}

\* The words of a struct termios, and the flags the code looks at in each.
Flags == [
  cflag |-> {"CLOCAL", "CREAD", "CRTSCTS", "S0", "S1", "CSTOPB", "PARENB", "PARODD", "HUPCL"},
  iflag |-> {"INPCK", "IXON", "IXOFF", "IXANY", "ISTRIP", "INLCR", "ICRNL", "IGNCR"},
  oflag |-> {"OPOST", "ONLCR", "OCRNL", "ONLRET"},
  lflag |-> {"ICANON", "ECHO", "ECHOE", "ISIG"}]
IsTermios(t) ==
  /\ t.speed \in Nat
  /\ t.cflag \subseteq Flags.cflag /\ t.iflag \subseteq Flags.iflag
  /\ t.oflag \subseteq Flags.oflag /\ t.lflag \subseteq Flags.lflag

ASSUME ArgumentsAssumption ==
  /\ \A t \in Left : IsTermios(t)
  /\ \A a \in Asked : {a.speed, a.flow_ctrl, a.databits, a.stopbits} \subseteq Nat
  /\ Descriptors \subseteq Nat

VARIABLES
  line,        \* the settings in force
  input,       \* the settings under which what waits to be read was received
  output,      \* something waits to be sent
  pc,          \* where uart_open or UART1_Set is
  fd, args, options,   \* the locals of the call under way
  opening,             \* it is uart_open's
  open, held,  \* descriptors that are open; those the program knows
  \* history:
  set,         \* arguments last put in force, until someone else has the line
  former,      \* the settings tcgetattr gave last
  forgotten,   \* descriptors given up without being closed
  stale        \* those of input whose bytes the call under way, or the last, is to flush

call == <<pc, fd, args, options, opening>>
vars == <<line, input, output, call, open, held, set, former, forgotten, stale>>

None == [speed |-> 0]

Init ==
  /\ line \in Left /\ input = {} /\ output = FALSE
  /\ pc = "out" /\ fd = 0 /\ args = None /\ options = line /\ opening = FALSE
  /\ open = {} /\ held = {} /\ set = None /\ former = line /\ forgotten = {} /\ stale = {}

-----------------------------------------------------------------------------
(* UART1_Open, close_uart, and the first half of uart_open.                  *)

\* What uart_open calls UART1_Set with.
OpenArgs(speed) ==
  [speed |-> speed, flow_ctrl |-> 0, databits |-> 8, stopbits |-> 1, parity |-> "n"]

\* The speed of the positioning module, the one line the program opens.
BdSpeed == 9600

\* open gives a number that is free, which may be 0.
Open(d, speed) ==
  /\ pc = "out" /\ d \in Descriptors \ open
  /\ fd' = d /\ open' = open \cup {d}
  /\ args' = OpenArgs(speed) /\ opening' = TRUE /\ pc' = "get" /\ stale' = input
  /\ UNCHANGED <<line, input, output, options, held, set, former, forgotten>>

\* fcntl fails: -1 is returned and the descriptor is lost.
FcntlFail(d) ==
  /\ pc = "out" /\ d \in Descriptors \ open
  /\ open' = open \cup {d} /\ forgotten' = forgotten \cup {d}
  /\ UNCHANGED <<line, input, output, call, held, set, former, stale>>

\* The last close empties the queues.
Close(d) ==
  /\ open' = open \ {d}
  /\ input' = IF open = {d} THEN {} ELSE input
  /\ output' = (output /\ open /= {d})

\* Mutant: the caller keeps the descriptor it has closed.
CloseUart_Kept(d) ==
  /\ pc = "out" /\ d \in held
  /\ IF d > 0 THEN Close(d) /\ UNCHANGED forgotten
     ELSE forgotten' = forgotten \cup {d} /\ UNCHANGED <<open, input, output>>
  /\ stale' = stale \cap input'
  /\ UNCHANGED <<line, call, held, set, former>>

\* Descriptor 0 is not closed.
CloseUart(d) ==
  /\ pc = "out" /\ d \in held
  /\ held' = held \ {d}
  /\ IF d > 0 THEN Close(d) /\ UNCHANGED forgotten
     ELSE forgotten' = forgotten \cup {d} /\ UNCHANGED <<open, input, output>>
  /\ stale' = stale \cap input'
  /\ UNCHANGED <<line, call, set, former>>

-----------------------------------------------------------------------------
(* What UART1_Set makes of the settings it has read.                         *)

Even == {"e", "E"}
Odd == {"o", "O"}
NoParity == {"n", "N"}
Space == {"s", "S"}

Supported(a) ==
  a.databits \in 5..8 /\ a.parity \in Even \cup Odd \cup NoParity \cup Space /\ a.stopbits \in {1, 2}

Size(databits) == {b \in {"S0", "S1"} : databits = 8 \/ databits = (IF b = "S0" THEN 6 ELSE 7)}

When(condition, flags) == IF condition THEN flags ELSE {}

\* Mutant: even parity leaves PARODD as it was.
Off_OddStays(a) == [
  cflag |-> {"S0", "S1"} \cup When(a.flow_ctrl = 0, {"CRTSCTS"})
              \cup When(a.parity \in NoParity \cup Space, {"PARENB"})
              \cup When(a.stopbits = 1, {"CSTOPB"}),
  iflag |-> {"INLCR", "ICRNL", "IGNCR"} \cup When(a.parity \in NoParity, {"INPCK"}),
  oflag |-> {"OPOST", "ONLCR", "OCRNL", "ONLRET"},
  lflag |-> {"ICANON", "ECHO", "ECHOE", "ISIG"}]

\* The flags it takes away from each word ...
Off(a) == [
  cflag |-> {"S0", "S1"} \cup When(a.flow_ctrl = 0, {"CRTSCTS"})
              \cup When(a.parity \in NoParity \cup Space, {"PARENB"})
              \cup When(a.parity \in Even, {"PARODD"}) \cup When(a.stopbits = 1, {"CSTOPB"}),
  iflag |-> {"INLCR", "ICRNL", "IGNCR"} \cup When(a.parity \in NoParity, {"INPCK"}),
  oflag |-> {"OPOST", "ONLCR", "OCRNL", "ONLRET"},
  lflag |-> {"ICANON", "ECHO", "ECHOE", "ISIG"}]

\* ... and those it adds.  IXON, IXOFF and IXANY belong to c_iflag and are added
\* to c_cflag, where their bits are HUPCL, one of the speed's, and CLOCAL.  The
\* parity 's' takes CSTOPB away too, but the stop bits are set after it.
On(a) == [
  cflag |-> {"CLOCAL", "CREAD"} \cup Size(a.databits)
              \cup When(a.flow_ctrl = 1, {"CRTSCTS"}) \cup When(a.flow_ctrl = 2, {"HUPCL"})
              \cup When(a.parity \in Odd, {"PARENB", "PARODD"}) \cup When(a.parity \in Even, {"PARENB"})
              \cup When(a.stopbits = 2, {"CSTOPB"}),
  iflag |-> When(a.parity \in Even \cup Odd, {"INPCK"}),
  oflag |-> {}, lflag |-> {}]

\* A speed that is not in the table is passed over.
Speed(old, a) ==
  LET s == IF a.speed \in Speeds THEN a.speed ELSE old
  IN IF a.flow_ctrl = 2 /\ \E p \in Faster : p[1] = s
     THEN (CHOOSE p \in Faster : p[1] = s)[2] ELSE s

Configured(t, a) ==
  [speed |-> Speed(t.speed, a),
   cflag |-> (t.cflag \ Off(a).cflag) \cup On(a).cflag,
   iflag |-> (t.iflag \ Off(a).iflag) \cup On(a).iflag,
   oflag |-> (t.oflag \ Off(a).oflag) \cup On(a).oflag,
   lflag |-> (t.lflag \ Off(a).lflag) \cup On(a).lflag]

-----------------------------------------------------------------------------
(* UART1_Set, step by step: bytes arrive between any two.                    *)

Set(d, a) ==
  /\ pc = "out" /\ d \in held
  /\ fd' = d /\ args' = a /\ opening' = FALSE /\ pc' = "get" /\ stale' = input
  /\ UNCHANGED <<line, input, output, options, open, held, set, former, forgotten>>

\* tcgetattr, and the changes to the local variable.
GetAttr ==
  /\ pc = "get" /\ Supported(args)
  /\ options' = Configured(line, args) /\ former' = line /\ pc' = "flush"
  /\ UNCHANGED <<line, input, output, fd, args, opening, open, held, set, forgotten, stale>>

\* Mutant: the queue for output is flushed.
Flush_Output ==
  /\ pc = "flush"
  /\ output' = FALSE /\ pc' = "set"
  /\ UNCHANGED <<line, input, fd, args, options, opening, open, held, set, former, forgotten, stale>>

\* tcflush(fd, TCIFLUSH)
Flush ==
  /\ pc = "flush"
  /\ input' = {} /\ stale' = {} /\ pc' = "set"
  /\ UNCHANGED <<line, output, fd, args, options, opening, open, held, set, former, forgotten>>

\* tcsetattr: uart_open returns the descriptor.
SetAttr ==
  /\ pc = "set"
  /\ line' = options /\ set' = args
  /\ held' = held \cup {fd} /\ pc' = "out"
  /\ UNCHANGED <<input, output, fd, args, options, opening, open, former, forgotten, stale>>

\* Mutant: uart_open gives up without closing.
SetFail_LeftOpen ==
  /\ pc \in {"get", "set"}
  /\ pc' = "out" /\ stale' = {}
  /\ UNCHANGED <<line, input, output, fd, args, options, opening, open, held, set, former, forgotten>>

\* tcgetattr or tcsetattr fails, or an argument is not supported: FALSE is
\* returned, and uart_open closes the descriptor it has opened.
SetFail ==
  /\ pc \in {"get", "set"}
  /\ IF opening THEN Close(fd) ELSE UNCHANGED <<open, input, output>>
  /\ pc' = "out" /\ stale' = {}
  /\ UNCHANGED <<line, fd, args, options, opening, held, set, former, forgotten>>

-----------------------------------------------------------------------------
(* The bytes, and the world.                                                 *)

Arrive ==
  /\ open /= {}
  /\ input' = input \cup {line}
  /\ stale' = IF pc \in {"get", "flush"} THEN stale \cup {line} ELSE stale
  /\ UNCHANGED <<line, output, call, open, held, set, former, forgotten>>

\* uart_read.
Read ==
  /\ pc = "out" /\ held /= {}
  /\ input' = {} /\ stale' = {}
  /\ UNCHANGED <<line, output, call, open, held, set, former, forgotten>>

\* uart_send: when not all was written, what was is flushed.
UartSend ==
  /\ pc = "out" /\ held /= {}
  /\ output' \in BOOLEAN
  /\ UNCHANGED <<line, input, call, open, held, set, former, forgotten, stale>>

\* Another program has had the line.
Other ==
  /\ pc = "out" /\ open = {}
  /\ line' \in Left /\ set' = None
  /\ UNCHANGED <<input, output, call, open, held, former, forgotten, stale>>

-----------------------------------------------------------------------------

Next ==
  \/ \E d \in Descriptors : Open(d, BdSpeed) \/ FcntlFail(d)
  \/ GetAttr \/ Flush \/ SetAttr \/ SetFail
  \/ Arrive \/ Read \/ UartSend \/ Other
  \/ \E d \in held : CloseUart(d) \/ \E a \in Asked : Set(d, a)

Spec == Init /\ [][Next]_vars

-----------------------------------------------------------------------------
(* What the functions are there for. *)

\* Every variable has its type.
TypeOK ==
  /\ IsTermios(line) /\ IsTermios(options) /\ IsTermios(former)
  /\ \A t \in input : IsTermios(t)
  /\ stale \subseteq input
  /\ output \in BOOLEAN /\ opening \in BOOLEAN
  /\ pc \in {"out", "get", "flush", "set"}
  /\ open \subseteq Descriptors /\ held \subseteq open /\ forgotten \subseteq open
  /\ fd \in Descriptors \cup {0}
  /\ args \in Asked \cup {OpenArgs(BdSpeed), None}
  /\ set \in Asked \cup {OpenArgs(BdSpeed), None}

\* The flags of c_iflag that UART1_Set leaves as they were.
Kept == Flags.iflag \ {"INPCK", "INLCR", "ICRNL", "IGNCR"}

\* Whatever settings the line was left in, and whatever calls came before, after
\* UART1_Set a byte has the size, the stop bits and the parity asked for, but
\* that 's', which fly_uart.c:165 calls "set to space", is no parity at all.  So
\* are hardware flow control and the speed, where software flow control is not
\* asked for.  No byte is mapped to another, taken for an editing character or
\* sent back; but whether an XON or XOFF is swallowed (IXON, IXANY), is sent
\* (IXOFF), or the eighth bit is cut off (ISTRIP) is left as it was found.
FramingAsAsked ==
  set /= None =>
    /\ line.cflag \cap {"S0", "S1"} = Size(set.databits)
    /\ "CSTOPB" \in line.cflag <=> set.stopbits = 2
    /\ "PARENB" \in line.cflag <=> set.parity \in Even \cup Odd
    /\ set.parity \in NoParity => "INPCK" \notin line.iflag
    /\ set.parity \in Even \cup Odd =>
         /\ "INPCK" \in line.iflag
         /\ "PARODD" \in line.cflag <=> set.parity \in Odd
    /\ {"CREAD", "CLOCAL"} \subseteq line.cflag
    /\ line.lflag = {} /\ line.oflag = {} /\ line.iflag \cap {"INLCR", "ICRNL", "IGNCR"} = {}
    /\ line.iflag \cap Kept = former.iflag \cap Kept
    /\ set.flow_ctrl \in {0, 1} => ("CRTSCTS" \in line.cflag <=> set.flow_ctrl = 1)
    /\ set.speed \in Speeds /\ set.flow_ctrl /= 2 => line.speed = set.speed

\* After UART1_Set no byte waits that was received before its tcflush: before the
\* call, or in its first half.  Those that came between tcflush and tcsetattr
\* (fly_uart.c:199-202) do, received under the settings it found.
OldBytesFlushed == set /= None /\ pc = "out" => stale = {} /\ input \subseteq {line, former}

\* Every descriptor is held by the program or being set up, and closed when it
\* is neither: but for those of which fcntl failed, and for 0.
DescriptorsHeld ==
  open = held \cup forgotten \cup (IF pc /= "out" THEN {fd} ELSE {})
=============================================================================
