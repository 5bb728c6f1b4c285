--------------------------- MODULE UartLineProofs ---------------------------
(***************************************************************************)
(* Theorems about UartLine, for any settings others leave behind, any      *)
(* arguments and any descriptors.                                          *)
(***************************************************************************)
EXTENDS UartLine, TLAPS

-----------------------------------------------------------------------------
(* What the settings are that UART1_Set makes.                               *)

\* Settings t are what UART1_Set makes for the arguments a, whatever they were before.
Framed(t, a) ==
  /\ t.cflag \cap {"S0", "S1"} = Size(a.databits)
  /\ "CSTOPB" \in t.cflag <=> a.stopbits = 2
  /\ "PARENB" \in t.cflag <=> a.parity \in Even \cup Odd
  /\ a.parity \in NoParity => "INPCK" \notin t.iflag
  /\ a.parity \in Even \cup Odd =>
       /\ "INPCK" \in t.iflag
       /\ "PARODD" \in t.cflag <=> a.parity \in Odd
  /\ {"CREAD", "CLOCAL"} \subseteq t.cflag
  /\ t.lflag = {} /\ t.oflag = {} /\ t.iflag \cap {"INLCR", "ICRNL", "IGNCR"} = {}
  /\ a.flow_ctrl \in {0, 1} => ("CRTSCTS" \in t.cflag <=> a.flow_ctrl = 1)
  /\ a.speed \in Speeds /\ a.flow_ctrl /= 2 => t.speed = a.speed

LEMMA ConfiguredFramed ==
  ASSUME NEW t, NEW a, IsTermios(t), Supported(a)
  PROVE  Framed(Configured(t, a), a)
<1> DEFINE c == Configured(t, a)
<1>1. /\ c.cflag = (t.cflag \ Off(a).cflag) \cup On(a).cflag
      /\ c.iflag = (t.iflag \ Off(a).iflag) \cup On(a).iflag
      /\ c.oflag = (t.oflag \ Off(a).oflag) \cup On(a).oflag
      /\ c.lflag = (t.lflag \ Off(a).lflag) \cup On(a).lflag
      /\ c.speed = Speed(t.speed, a)
  BY DEF Configured
<1>2. a.stopbits = 1 \/ a.stopbits = 2
  BY DEF Supported
<1>3. c.cflag \cap {"S0", "S1"} = Size(a.databits)
  BY <1>1 DEF Off, On, When, Size
<1>4. "CSTOPB" \in c.cflag <=> a.stopbits = 2
  BY <1>1, <1>2 DEF Off, On, When, Size
<1>5. /\ "PARENB" \in c.cflag <=> a.parity \in Even \cup Odd
      /\ a.parity \in NoParity => "INPCK" \notin c.iflag
  BY <1>1 DEF Supported, Off, On, When, Size, NoParity, Even, Odd, Space
<1>6. ASSUME a.parity \in Even \cup Odd
      PROVE  /\ "INPCK" \in c.iflag
             /\ "PARODD" \in c.cflag <=> a.parity \in Odd
  BY <1>1, <1>6 DEF Off, On, When, Size, NoParity, Even, Odd, Space
<1>7. {"CREAD", "CLOCAL"} \subseteq c.cflag
  BY <1>1 DEF On
<1>8. c.lflag = {} /\ c.oflag = {}
  BY <1>1 DEF Off, On, IsTermios, Flags
<1>9. c.iflag \cap {"INLCR", "ICRNL", "IGNCR"} = {}
  BY <1>1 DEF Off, On, When
<1>10. a.speed \in Speeds /\ a.flow_ctrl /= 2 => c.speed = a.speed
  BY <1>1 DEF Speed
<1>11. a.flow_ctrl \in {0, 1} => ("CRTSCTS" \in c.cflag <=> a.flow_ctrl = 1)
  BY <1>1 DEF Off, On, When, Size
<1> HIDE DEF c
<1> QED
  BY <1>3, <1>4, <1>5, <1>6, <1>7, <1>8, <1>9, <1>10, <1>11 DEF Framed, c

LEMMA ConfiguredKeeps ==
  ASSUME NEW t, NEW a
  PROVE  Configured(t, a).iflag \cap Kept = t.iflag \cap Kept
<1>1. Off(a).iflag \cap Kept = {} /\ On(a).iflag \cap Kept = {}
  BY DEF Off, On, When, Kept
<1> QED
  BY <1>1 DEF Configured

LEMMA SpeedIsNumber ==
  ASSUME NEW old \in Nat, NEW a, a.speed \in Nat
  PROVE  Speed(old, a) \in Nat
<1> DEFINE s == IF a.speed \in Speeds THEN a.speed ELSE old
           p == CHOOSE p \in Faster : p[1] = s
<1>1. s \in Nat
  OBVIOUS
<1>2. (\E q \in Faster : q[1] = s) => p \in Faster
  OBVIOUS
<1>3. \A q \in Faster : q[2] \in Nat
  BY SMT DEF Faster
<1> QED
  BY <1>1, <1>2, <1>3 DEF Speed

LEMMA ConfiguredIsTermios ==
  ASSUME NEW t, NEW a, IsTermios(t), a.speed \in Nat
  PROVE  IsTermios(Configured(t, a))
<1>1. Speed(t.speed, a) \in Nat
  BY SpeedIsNumber DEF IsTermios
<1>2. /\ On(a).cflag \subseteq Flags.cflag /\ On(a).iflag \subseteq Flags.iflag
      /\ On(a).oflag = {} /\ On(a).lflag = {}
  BY DEF On, When, Size, Flags
<1> QED
  BY <1>1, <1>2 DEF Configured, IsTermios

LEMMA ArgumentsNumbers ==
  ASSUME NEW a \in Asked \cup {OpenArgs(BdSpeed), None}
  PROVE  a.speed \in Nat
BY ArgumentsAssumption, SMT DEF OpenArgs, None, BdSpeed

-----------------------------------------------------------------------------
(* The calls, step by step.                                                  *)

\* Between tcgetattr and tcsetattr the line keeps the settings that were read,
\* and what is put in force is made of them.
Making ==
  /\ pc \in {"flush", "set"} =>
       Supported(args) /\ former = line /\ options = Configured(former, args)
  /\ set /= None => Framed(line, set) /\ line.iflag \cap Kept = former.iflag \cap Kept

\* Of old bytes, those stay for which the flush came too early.
Waiting ==
  /\ pc \in {"set", "out"} => stale = {}
  /\ pc = "set" => input \subseteq {line}
  /\ set /= None /\ pc \in {"out", "get"} => input \subseteq {line, former}
  /\ open = {} => input = {}

\* Whose a descriptor is.
Owned ==
  /\ DescriptorsHeld
  /\ held \cap forgotten = {}
  /\ pc /= "out" => (IF opening THEN fd \notin held \cup forgotten ELSE fd \in held)

IInv == TypeOK /\ Making /\ Waiting /\ Owned

LEMMA InitIInv == Init => IInv
<1> SUFFICES ASSUME Init PROVE IInv
  OBVIOUS
<1>1. TypeOK
  BY ArgumentsAssumption DEF Init, TypeOK
<1>2. Making /\ Waiting /\ Owned
  BY DEF Init, Making, Waiting, Owned, DescriptorsHeld
<1> QED
  BY <1>1, <1>2 DEF IInv

LEMMA NextTypeOK ==
  ASSUME IInv, [Next]_vars
  PROVE  TypeOK'
<1> USE DEF IInv, TypeOK, call
<1>1. CASE \E d \in Descriptors : Open(d, BdSpeed)
  BY <1>1 DEF Open
<1>2. CASE \E d \in Descriptors : FcntlFail(d)
  BY <1>2 DEF FcntlFail
<1>3. CASE GetAttr
  <2>1. IsTermios(Configured(line, args))
    BY ConfiguredIsTermios, ArgumentsNumbers
  <2> QED
    BY <1>3, <2>1 DEF GetAttr
<1>4. CASE Flush
  BY <1>4 DEF Flush
<1>5. CASE SetAttr
  BY <1>5 DEF SetAttr, Owned, DescriptorsHeld
<1>6. CASE SetFail
  BY <1>6 DEF SetFail, Close, Owned
<1>7. CASE Arrive \/ Read \/ UartSend
  BY <1>7 DEF Arrive, Read, UartSend
<1>8. CASE Other
  BY <1>8, ArgumentsAssumption DEF Other
<1>9. CASE \E d \in held : CloseUart(d)
  <2>1. PICK d \in held : CloseUart(d)
    BY <1>9
  <2>2. held' \subseteq open' /\ forgotten' \subseteq open'
    BY <2>1, SMT DEF CloseUart, Close, Owned
  <2>3. output' \in BOOLEAN /\ input' \subseteq input /\ open' \subseteq open
    BY <2>1 DEF CloseUart, Close
  <2> QED
    BY <2>1, <2>2, <2>3 DEF CloseUart
<1>10. CASE \E d \in held : \E a \in Asked : Set(d, a)
  BY <1>10 DEF Set
<1>11. CASE UNCHANGED vars
  BY <1>11 DEF vars
<1> QED
  BY <1>1, <1>2, <1>3, <1>4, <1>5, <1>6, <1>7, <1>8, <1>9, <1>10, <1>11 DEF Next

LEMMA NextMaking ==
  ASSUME IInv, [Next]_vars
  PROVE  Making'
<1> USE DEF IInv, Making, call
<1>1. CASE \E d \in Descriptors : Open(d, BdSpeed)
  BY <1>1 DEF Open
<1>2. CASE \E d \in Descriptors : FcntlFail(d)
  BY <1>2 DEF FcntlFail
<1>3. CASE GetAttr
  BY <1>3 DEF GetAttr
<1>4. CASE Flush
  BY <1>4 DEF Flush
<1>5. CASE SetAttr
  <2>1. Framed(options, args) /\ options.iflag \cap Kept = former.iflag \cap Kept
    BY <1>5, ConfiguredFramed, ConfiguredKeeps DEF SetAttr, TypeOK
  <2> QED
    BY <1>5, <2>1 DEF SetAttr
<1>6. CASE SetFail
  BY <1>6 DEF SetFail
<1>7. CASE Arrive \/ Read \/ UartSend
  BY <1>7 DEF Arrive, Read, UartSend
<1>8. CASE Other
  BY <1>8 DEF Other
<1>9. CASE \E d \in held : CloseUart(d)
  BY <1>9 DEF CloseUart
<1>10. CASE \E d \in held : \E a \in Asked : Set(d, a)
  BY <1>10 DEF Set
<1>11. CASE UNCHANGED vars
  BY <1>11 DEF vars
<1> QED
  BY <1>1, <1>2, <1>3, <1>4, <1>5, <1>6, <1>7, <1>8, <1>9, <1>10, <1>11 DEF Next

LEMMA NextWaiting ==
  ASSUME IInv, [Next]_vars
  PROVE  Waiting'
<1> USE DEF IInv, Waiting, call
<1>1. CASE \E d \in Descriptors : Open(d, BdSpeed)
  BY <1>1 DEF Open
<1>2. CASE \E d \in Descriptors : FcntlFail(d)
  BY <1>2 DEF FcntlFail
<1>3. CASE GetAttr
  BY <1>3 DEF GetAttr
<1>4. CASE Flush
  BY <1>4 DEF Flush
<1>5. CASE SetAttr
  <2>1. open /= {}
    BY <1>5 DEF SetAttr, Owned, DescriptorsHeld
  <2>2. input \subseteq {former}
    BY <1>5 DEF SetAttr, Making
  <2> QED
    BY <1>5, <2>1, <2>2 DEF SetAttr
<1>6. CASE SetFail
  <2>0. stale' = {}
    BY <1>6 DEF SetFail
  <2>1. input' \subseteq input /\ line' = line /\ former' = former /\ set' = set /\ pc' = "out"
    BY <1>6 DEF SetFail, Close
  <2>2. open' = {} => input' = {}
    BY <1>6 DEF SetFail, Close
  <2>3. pc = "get" \/ (pc = "set" /\ input \subseteq {line})
    BY <1>6 DEF SetFail
  <2> QED
    BY <2>0, <2>1, <2>2, <2>3
<1>7. CASE Arrive \/ Read \/ UartSend
  BY <1>7 DEF Arrive, Read, UartSend
<1>8. CASE Other
  BY <1>8 DEF Other
<1>9. CASE \E d \in held : CloseUart(d)
  BY <1>9 DEF CloseUart, Close
<1>10. CASE \E d \in held : \E a \in Asked : Set(d, a)
  BY <1>10 DEF Set
<1>11. CASE UNCHANGED vars
  BY <1>11 DEF vars
<1> QED
  BY <1>1, <1>2, <1>3, <1>4, <1>5, <1>6, <1>7, <1>8, <1>9, <1>10, <1>11 DEF Next

LEMMA NextOwned ==
  ASSUME IInv, [Next]_vars
  PROVE  Owned'
<1> USE DEF IInv, Owned, DescriptorsHeld, call
<1>1. CASE \E d \in Descriptors : Open(d, BdSpeed)
  BY <1>1 DEF Open
<1>2. CASE \E d \in Descriptors : FcntlFail(d)
  BY <1>2 DEF FcntlFail
<1>3. CASE GetAttr
  BY <1>3 DEF GetAttr
<1>4. CASE Flush
  BY <1>4 DEF Flush
<1>5. CASE SetAttr
  BY <1>5 DEF SetAttr
<1>6. CASE SetFail
  BY <1>6 DEF SetFail, Close, TypeOK
<1>7. CASE Arrive \/ Read \/ UartSend
  BY <1>7 DEF Arrive, Read, UartSend
<1>8. CASE Other
  BY <1>8 DEF Other
<1>9. CASE \E d \in held : CloseUart(d)
  BY <1>9 DEF CloseUart, Close
<1>10. CASE \E d \in held : \E a \in Asked : Set(d, a)
  BY <1>10 DEF Set
<1>11. CASE UNCHANGED vars
  BY <1>11 DEF vars
<1> QED
  BY <1>1, <1>2, <1>3, <1>4, <1>5, <1>6, <1>7, <1>8, <1>9, <1>10, <1>11 DEF Next

LEMMA Invariant == Spec => []IInv
<1>1. IInv /\ [Next]_vars => IInv'
  BY NextTypeOK, NextMaking, NextWaiting, NextOwned DEF IInv
<1> QED
  BY InitIInv, <1>1, PTL DEF Spec

-----------------------------------------------------------------------------
(* The theorems.                                                             *)

\* Every variable has its type: what is put in force is a struct termios, and
\* only an open descriptor is held.
THEOREM TypeCorrect == Spec => []TypeOK
<1>1. IInv => TypeOK
  BY DEF IInv
<1> QED
  BY Invariant, <1>1, PTL

\* Whatever settings the line was left in, UART1_Set makes of them size, stop
\* bits, parity, flow control and speed as FramingAsAsked says: 's' is no parity,
\* and flow control by XON and XOFF stays as it was (fly_uart.c:77-208).
THEOREM Framing == Spec => []FramingAsAsked
<1>1. IInv => FramingAsAsked
  BY DEF IInv, Making, Framed, FramingAsAsked
<1> QED
  BY Invariant, <1>1, PTL

\* After UART1_Set no byte waits that was received before its tcflush (fly_uart.c:199).
THEOREM Flushed == Spec => []OldBytesFlushed
<1>1. IInv => OldBytesFlushed
  BY DEF IInv, Waiting, OldBytesFlushed
<1> QED
  BY Invariant, <1>1, PTL

\* uart_open leaves no descriptor behind when UART1_Set fails, and nothing but
\* descriptor 0 and one whose fcntl failed is lost (fly_uart.c:30-35, 57-62, 321-327).
THEOREM NoDescriptorLost == Spec => []DescriptorsHeld
<1>1. IInv => DescriptorsHeld
  BY DEF IInv, Owned
<1> QED
  BY Invariant, <1>1, PTL

-----------------------------------------------------------------------------
(* Setting the line again changes nothing.                                   *)

\* A line that has the settings last asked for keeps them, its speed included,
\* when UART1_Set is called with the same arguments again: also where flags meant
\* for c_iflag go to c_cflag, and change the speed the first time.
SameAgain == pc = "set" /\ set /= None /\ args = set => options = line

\* No speed that is put in force in another's place is replaced by a third.
LEMMA SpeedStays ==
  ASSUME NEW old, NEW a
  PROVE  Speed(Speed(old, a), a) = Speed(old, a)
<1> DEFINE s == IF a.speed \in Speeds THEN a.speed ELSE old
           fast(x) == CHOOSE p \in Faster : p[1] = x
<1>1. CASE a.speed \in Speeds
  BY <1>1 DEF Speed
<1>2. CASE a.speed \notin Speeds
  <2>1. CASE a.flow_ctrl = 2 /\ \E p \in Faster : p[1] = s
    <3>1. fast(s) \in Faster /\ Speed(old, a) = fast(s)[2]
      BY <2>1 DEF Speed
    <3>2. \A p, q \in Faster : p[2] /= q[1]
      BY SMT DEF Faster
    <3>3. ~ \E p \in Faster : p[1] = Speed(old, a)
      BY <3>1, <3>2
    <3> QED
      BY <1>2, <3>3 DEF Speed
  <2>2. CASE ~(a.flow_ctrl = 2 /\ \E p \in Faster : p[1] = s)
    <3>1. Speed(old, a) = old
      BY <1>2, <2>2 DEF Speed
    <3> QED
      BY <3>1
  <2> QED
    BY <2>1, <2>2
<1> QED
  BY <1>1, <1>2

LEMMA ConfiguredAgain ==
  ASSUME NEW t, NEW a
  PROVE  Configured(Configured(t, a), a) = Configured(t, a)
<1>1. \A word, off, on : (((word \ off) \cup on) \ off) \cup on = (word \ off) \cup on
  OBVIOUS
<1> QED
  BY <1>1, SpeedStays DEF Configured

\* The line is as UART1_Set would make it.
Fixed == set /= None => Configured(line, set) = line

LEMMA NextFixed ==
  ASSUME IInv, Fixed, [Next]_vars
  PROVE  Fixed'
<1>1. CASE SetAttr
  <2>1. line' = Configured(former, args) /\ set' = args
    BY <1>1 DEF SetAttr, IInv, Making
  <2> QED
    BY <2>1, ConfiguredAgain DEF Fixed
<1>2. CASE Other
  BY <1>2 DEF Other, Fixed
<1>3. CASE ~SetAttr /\ ~Other
  <2>1. UNCHANGED <<line, set>>
    BY <1>3 DEF Next, vars, call, Open, FcntlFail, GetAttr, Flush, SetFail, Arrive, Read,
           UartSend, CloseUart, Set
  <2> QED
    BY <2>1 DEF Fixed
<1> QED
  BY <1>1, <1>2, <1>3

\* A second call with the same arguments puts the same settings in force.
THEOREM SetTwice == Spec => []SameAgain
<1>1. Init => Fixed
  BY DEF Init, Fixed
<1>2. IInv /\ Fixed /\ [Next]_vars => Fixed'
  BY NextFixed
<1>3. IInv /\ Fixed => SameAgain
  BY DEF IInv, Making, Fixed, SameAgain
<1> QED
  BY Invariant, <1>1, <1>2, <1>3, PTL DEF Spec
=============================================================================
