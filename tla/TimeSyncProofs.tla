--------------------------- MODULE TimeSyncProofs ---------------------------
(***************************************************************************)
(* Theorems about TimeSync, for any times at which the receiver speaks     *)
(* and any zone.                                                           *)
(***************************************************************************)
EXTENDS TimeSync, TLAPS

\* What the fields left by earlier sentences can be: not later than the last
\* sentence, the time of day its own if it had one, and the date too.
FieldsBehind ==
  /\ said.time <= now
  /\ date * Day + daytime <= said.time
  /\ writing /= 0 /\ said.fields /= "nothing" => daytime = said.time % Day
  /\ writing /= 0 /\ said.fields = "all" => date = said.time \div Day

\* What is being written is the time of these fields.
TimeSplit ==
  writing /= 0 => utc_time = MkTime(date, daytime) /\ timeToFpga = Split(utc_time)

\* Registers before the one to be written next hold their part of it, but for
\* those whose write failed.
RegistersSoFar ==
  \A r \in 5..8 : writing > r /\ r \notin failed => register[r] = timeToFpga[r - 5]

-----------------------------------------------------------------------------

\* A time is a date and a time of day.
LEMMA DayAndClock ==
  ASSUME NEW t \in Nat
  PROVE  /\ t \div Day \in Nat /\ t % Day \in Nat /\ t % Day < Day
         /\ (t \div Day) * Day + (t % Day) = t
  BY SMT DEF Day

\* Dates are in the order of the times they are part of.
LEMMA DateOrder ==
  ASSUME NEW d \in Int, NEW c \in Int, NEW e \in Int, NEW b \in Int,
         0 <= c, b < Day, d * Day + c <= e * Day + b
  PROVE  d <= e
  BY SMT DEF Day

\* So the date of a time is not before that of any earlier one.
LEMMA DateBehind ==
  ASSUME NEW t \in Nat, NEW d \in Int, NEW c \in Int, 0 <= c, d * Day + c <= t
  PROVE  d <= t \div Day
<1>1. /\ t \div Day \in Int /\ t % Day \in Int /\ t % Day < Day
      /\ d * Day + c <= (t \div Day) * Day + (t % Day)
  BY DayAndClock, SMT DEF Day
<1> QED
  BY <1>1, DateOrder

\* A register's part of a time has 16 bits.
LEMMA SplitType ==
  ASSUME NEW t \in Int
  PROVE  Split(t) \in [0..3 -> Word]
<1>1. ASSUME NEW a \in Int, NEW b \in Int
      PROVE  (a % 256) * 256 + (b % 256) \in Word
  BY SMT DEF Word
<1>2. High(t) \in Word /\ Low(t) \in Word
  BY <1>1, SMT DEF High, Low
<1>3. 0 \in Word
  BY SMT DEF Word
<1> QED
  BY <1>2, <1>3 DEF Split

\* Put together again, the parts are the time.
LEMMA SplitWhole ==
  ASSUME NEW t \in Nat, t <= LongMax
  PROVE  Split(t)[0] * 65536 + Split(t)[1] = t /\ Split(t)[2] = 0 /\ Split(t)[3] = 0
<1>1. Split(t)[0] = High(t) /\ Split(t)[1] = Low(t) /\ Split(t)[2] = 0 /\ Split(t)[3] = 0
  BY DEF Split
<1>2. t \in Int /\ 0 <= t /\ t < 2147483648
  BY SMT DEF LongMax
<1>3. PICK h \in Int : h = t \div 65536
  BY <1>2, SMT
<1>4. PICK l \in Int : l = t % 65536
  BY <1>2, SMT
<1>5. 0 <= h /\ h < 32768 /\ 0 <= l /\ l < 65536 /\ t = h * 65536 + l
  BY <1>2, <1>3, <1>4, SMT
<1>6. High(t) = h
  <2>1. t \div 16777216 = h \div 256
    BY <1>2, <1>3, SMT
  <2>2. (h \div 256) % 256 = h \div 256 /\ (h \div 256) * 256 + (h % 256) = h
    BY <1>5, SMT
  <2> QED
    BY <1>3, <2>1, <2>2 DEF High
<1>7. Low(t) = l
  BY <1>2, <1>4, SMT DEF Low
<1> QED
  BY <1>1, <1>5, <1>6, <1>7

\* Times are in range for the fields made of them.
LEMMA TimesRange ==
  ASSUME NEW t \in Times
  PROVE  /\ t \in Nat /\ (NoDate + 1) * Day <= t /\ t <= LongMax - Day
         /\ NoDate < t \div Day
<1>1. t \in Nat /\ (NoDate + 1) * Day <= t /\ t <= LongMax - Day
  BY TimesAssumption
<1>2. NoDate + 1 <= t \div Day
  <2>1. NoDate + 1 \in Int /\ 0 \in Int /\ 0 <= 0 /\ (NoDate + 1) * Day + 0 <= t
    BY <1>1, SMT DEF NoDate, Day
  <2> QED
    BY <1>1, <2>1, DateBehind
<1> QED
  BY <1>1, <1>2, DayAndClock, SMT DEF NoDate

-----------------------------------------------------------------------------

LEMMA InitTypeOK == Init => TypeOK
<1> SUFFICES ASSUME Init PROVE TypeOK
  OBVIOUS
<1>1. date \in Nat /\ NoDate <= date /\ daytime \in Nat /\ daytime < Day
  BY SMT DEF Init, NoDate, Day
<1>2. timeToFpga \in [0..3 -> Word] /\ register \in [5..9 -> Word]
  <2>1. 0 \in Word
    BY SMT DEF Word
  <2> QED
    BY <2>1 DEF Init
<1> QED
  BY <1>1, <1>2 DEF Init, TypeOK, Sentences, Scans

LEMMA HandleTypeOK == TypeOK /\ Handle => TypeOK'
<1> SUFFICES ASSUME TypeOK, Handle PROVE TypeOK'
  OBVIOUS
<1>1. PICK s \in Sentences : Checked(s) /\ Scan(s) /\ said' = s
  BY DEF Handle
<1>2. s.time \in Times
  BY <1>1 DEF Sentences
<1>3. date' \in Nat /\ NoDate <= date' /\ daytime' \in Nat /\ daytime' < Day
  <2>1. /\ s.time \div Day \in Nat /\ NoDate <= s.time \div Day
        /\ s.time % Day \in Nat /\ s.time % Day < Day
    BY <1>2, TimesRange, DayAndClock, SMT DEF NoDate
  <2> QED
    BY <1>1, <2>1 DEF Scan, TypeOK
<1>4. utc_time' \in Nat
  <2>1. PICK d \in Nat, c \in Nat : d = date' /\ c = daytime'
    BY <1>3
  <2>2. utc_time' = d * Day + c - Zone
    BY <2>1 DEF Handle, MkTime
  <2>3. Zone \in Int /\ 2 * Zone <= Day
    BY ZoneAssumption
  <2>4. 1 <= d
    BY <1>3, <2>1, SMT DEF NoDate
  <2> QED
    BY <2>2, <2>3, <2>4, SMT DEF Day
<1>5. timeToFpga' \in [0..3 -> Word]
  BY <1>4, SplitType DEF Handle
<1> QED
  BY <1>1, <1>3, <1>4, <1>5 DEF Handle, TypeOK

LEMMA NextTypeOK == TypeOK /\ [Next]_vars => TypeOK'
<1> SUFFICES ASSUME TypeOK, [Next]_vars PROVE TypeOK'
  OBVIOUS
<1>1. CASE Tick
  BY <1>1 DEF Tick, TypeOK
<1>2. CASE Handle
  BY <1>2, HandleTypeOK
<1>3. CASE Write
  <2>1. Value(writing) \in Word /\ Following(writing) \in {0} \cup 5..9
    <3>1. writing /= 9 => Value(writing) \in Word /\ Following(writing) \in 5..9
      BY <1>3 DEF Write, Value, Following, TypeOK
    <3>2. writing = 9 => Value(writing) \in Word /\ Following(writing) = 0
      BY SMT DEF Value, Following, Word
    <3> QED
      BY <3>1, <3>2
  <2> QED
    BY <1>3, <2>1 DEF Write, TypeOK
<1>4. CASE WriteFail
  BY <1>4 DEF WriteFail, Following, TypeOK
<1>5. CASE UNCHANGED vars
  BY <1>5 DEF vars, TypeOK
<1> QED
  BY <1>1, <1>2, <1>3, <1>4, <1>5 DEF Next

\* The date and the time of day stay in the range of a 32-bit time, and each
\* register is given 16 bits.
THEOREM TypeCorrect == Spec => []TypeOK
<1> QED
  BY InitTypeOK, NextTypeOK, PTL DEF Spec

-----------------------------------------------------------------------------

LEMMA NextFieldsBehind == TypeOK /\ FieldsBehind /\ [Next]_vars => FieldsBehind'
<1> SUFFICES ASSUME TypeOK, FieldsBehind, [Next]_vars PROVE FieldsBehind'
  OBVIOUS
<1> USE DEF FieldsBehind
<1>1. CASE Tick
  <2>1. now \in Nat /\ now' \in Nat /\ now' > now /\ said.time \in Nat
    BY <1>1, TimesRange DEF Tick, TypeOK, Sentences
  <2> QED
    BY <1>1, <2>1 DEF Tick
<1>2. CASE Handle
  <2>1. PICK s \in Sentences : Checked(s) /\ Scan(s) /\ said' = s
    BY <1>2 DEF Handle
  <2>2. /\ s.time \in Nat /\ said.time \in Nat /\ now' = now
        /\ said.time <= s.time /\ s.time <= now
    BY <1>2, <2>1, TimesRange DEF Handle, Checked, TypeOK, Sentences
  <2>3. /\ s.time \div Day \in Nat /\ s.time % Day \in Nat
        /\ (s.time \div Day) * Day + (s.time % Day) = s.time
    BY <2>2, DayAndClock
  <2>4. date \in Nat /\ daytime \in Nat
    BY DEF TypeOK, NoDate
  <2>5. date * Day + daytime <= s.time
    <3>1. date * Day + daytime \in Int
      BY <2>4, SMT DEF Day
    <3> QED
      BY <2>2, <3>1
  <2>6. date' * Day + daytime' <= s.time
    <3>1. CASE s.fields = "nothing"
      BY <2>1, <2>5, <3>1 DEF Scan
    <3>2. CASE s.fields = "clock"
      <4>1. date <= s.time \div Day
        BY <2>2, <2>4, <2>5, DateBehind
      <4>2. date' = date /\ daytime' = s.time % Day
        BY <2>1, <3>2 DEF Scan
      <4> QED
        BY <2>3, <2>4, <4>1, <4>2, SMT DEF Day
    <3>3. CASE s.fields = "all"
      BY <2>1, <2>2, <2>3, <3>3 DEF Scan
    <3> QED
      BY <3>1, <3>2, <3>3 DEF Sentences, Scans
  <2> QED
    BY <2>1, <2>2, <2>6 DEF Scan, Sentences, Scans
<1>3. CASE Write
  BY <1>3 DEF Write
<1>4. CASE WriteFail
  BY <1>4 DEF WriteFail
<1>5. CASE UNCHANGED vars
  BY <1>5 DEF vars
<1> QED
  BY <1>1, <1>2, <1>3, <1>4, <1>5 DEF Next

LEMMA NextTimeSplit == TimeSplit /\ [Next]_vars => TimeSplit'
<1> SUFFICES ASSUME TimeSplit, [Next]_vars PROVE TimeSplit'
  OBVIOUS
<1>1. CASE Tick
  BY <1>1 DEF TimeSplit, Tick, MkTime
<1>2. CASE Handle
  BY <1>2 DEF TimeSplit, Handle, MkTime
<1>3. CASE Write
  BY <1>3 DEF TimeSplit, Write, MkTime
<1>4. CASE WriteFail
  BY <1>4 DEF TimeSplit, WriteFail, MkTime
<1>5. CASE UNCHANGED vars
  BY <1>5 DEF TimeSplit, vars, MkTime
<1> QED
  BY <1>1, <1>2, <1>3, <1>4, <1>5 DEF Next

LEMMA NextRegisters == TypeOK /\ RegistersSoFar /\ [Next]_vars => RegistersSoFar'
<1> SUFFICES ASSUME TypeOK, RegistersSoFar, [Next]_vars,
                    NEW r \in 5..8, writing' > r, r \notin failed'
             PROVE  register'[r] = timeToFpga'[r - 5]
  BY DEF RegistersSoFar
<1>1. CASE Tick
  BY <1>1 DEF RegistersSoFar, Tick
<1>2. CASE Handle
  BY <1>2 DEF Handle
<1>3. CASE Write
  <2>1. writing \in 5..8 /\ writing' = writing + 1
    BY <1>3 DEF Write, Following, TypeOK
  <2>2. CASE r = writing
    BY <1>3, <2>1, <2>2 DEF Write, Value, TypeOK
  <2>3. CASE r < writing
    BY <1>3, <2>1, <2>3 DEF Write, TypeOK, RegistersSoFar
  <2> QED
    BY <2>1, <2>2, <2>3
<1>4. CASE WriteFail
  <2>1. writing \in 5..8 /\ writing' = writing + 1 /\ r /= writing
    BY <1>4 DEF WriteFail, Following, TypeOK
  <2> QED
    BY <1>4, <2>1 DEF WriteFail, RegistersSoFar
<1>5. CASE UNCHANGED vars
  BY <1>5 DEF RegistersSoFar, vars
<1> QED
  BY <1>1, <1>2, <1>3, <1>4, <1>5 DEF Next

\* The invariant the three theorems below follow from.
SyncInv == TypeOK /\ FieldsBehind /\ TimeSplit /\ RegistersSoFar

LEMMA InitSync == Init => SyncInv
<1> SUFFICES ASSUME Init PROVE SyncInv
  OBVIOUS
<1>1. now >= (NoDate + 1) * Day /\ now \in Nat
  BY TimesRange DEF Init
<1>2. FieldsBehind
  BY <1>1, SMT DEF Init, FieldsBehind, NoDate, Day
<1>3. TimeSplit /\ RegistersSoFar
  BY DEF Init, TimeSplit, RegistersSoFar
<1> QED
  BY <1>2, <1>3, InitTypeOK DEF SyncInv

LEMMA SyncAlways == Spec => []SyncInv
<1>1. SyncInv /\ [Next]_vars => SyncInv'
  BY NextTypeOK, NextFieldsBehind, NextTimeSplit, NextRegisters DEF SyncInv
<1> QED
  BY <1>1, InitSync, PTL DEF Spec

\* The time being written, in terms of the fields.
LEMMA SyncTime ==
  ASSUME SyncInv, writing /= 0
  PROVE  /\ date \in Nat /\ daytime \in Nat
         /\ utc_time + Zone = date * Day + daytime
         /\ utc_time \in Nat /\ utc_time <= LongMax
         /\ said.time \in Nat /\ now \in Nat
<1>1. date \in Nat /\ daytime \in Nat /\ utc_time \in Nat
  BY DEF SyncInv, TypeOK
<1>2. said.time <= LongMax - Day /\ said.time \in Nat /\ now \in Nat
  BY TimesRange DEF SyncInv, TypeOK, Sentences
<1>3. utc_time = date * Day + daytime - Zone /\ date * Day + daytime <= said.time
  BY DEF SyncInv, TimeSplit, MkTime, FieldsBehind
<1>4. Zone \in Int /\ -Day <= 2 * Zone
  BY ZoneAssumption
<1> QED
  BY <1>1, <1>2, <1>3, <1>4, SMT DEF Day, LongMax

\* The clock is never set later than the receiver's time less the zone.
THEOREM ClockLateByZone == Spec => []LateByZone
<1>1. SyncInv => LateByZone
  <2> SUFFICES ASSUME SyncInv, writing /= 0 PROVE utc_time <= now - Zone
    BY DEF LateByZone
  <2>1. date * Day + daytime <= said.time /\ said.time <= now
    BY DEF SyncInv, FieldsBehind
  <2>2. date * Day + daytime \in Int
    BY SyncTime, SMT DEF Day
  <2>3. utc_time + Zone <= now
    BY <2>1, <2>2, SyncTime
  <2>4. Zone \in Int
    BY ZoneAssumption
  <2> QED
    BY <2>3, <2>4, SyncTime
<1> QED
  BY <1>1, SyncAlways, PTL

\* Without its date, a sentence sets a time that is wrong by whole days only.
THEOREM WrongByDays == Spec => []WholeDaysBehind
<1>1. SyncInv => WholeDaysBehind
  <2> SUFFICES ASSUME SyncInv, writing /= 0, said.fields = "clock"
               PROVE  (said.time - (utc_time + Zone)) % Day = 0
    BY DEF WholeDaysBehind
  <2>1. daytime = said.time % Day /\ date * Day + daytime <= said.time
    BY DEF SyncInv, FieldsBehind
  <2>2. PICK e \in Nat : e = said.time \div Day /\ e * Day + daytime = said.time
    BY <2>1, SyncTime, DayAndClock
  <2>3. date <= e
    BY <2>1, <2>2, SyncTime, DateBehind
  <2>4. PICK k \in Nat : k = e - date
    BY <2>3, SyncTime, SMT
  <2>5. said.time - (utc_time + Zone) = k * Day
    BY <2>2, <2>4, SyncTime, SMT DEF Day
  <2>6. (k * Day) % Day = 0
    BY SMT DEF Day
  <2> QED
    BY <2>5, <2>6
<1> QED
  BY <1>1, SyncAlways, PTL

\* What is committed when no write failed is one time, and that of the last
\* sentence if it was complete.
THEOREM CommitsOneTime == Spec => []OneTimeCommitted
<1>1. SyncInv => OneTimeCommitted
  <2> SUFFICES ASSUME SyncInv, writing = 9, failed = {}
               PROVE  /\ RegisterTime = utc_time /\ register[7] = 0 /\ register[8] = 0
                      /\ said.fields = "all" => said.time - RegisterTime = Zone
    BY DEF OneTimeCommitted, Committing
  <2>1. /\ register[5] = Split(utc_time)[0] /\ register[6] = Split(utc_time)[1]
        /\ register[7] = Split(utc_time)[2] /\ register[8] = Split(utc_time)[3]
    BY DEF SyncInv, RegistersSoFar, TimeSplit
  <2>2. RegisterTime = utc_time /\ register[7] = 0 /\ register[8] = 0
    BY <2>1, SyncTime, SplitWhole DEF RegisterTime
  <2>3. said.fields = "all" => date * Day + daytime = said.time
    BY SyncTime, DayAndClock DEF SyncInv, FieldsBehind
  <2>4. said.fields = "all" => utc_time + Zone = said.time
    BY <2>3, SyncTime
  <2>5. Zone \in Int
    BY ZoneAssumption
  <2> QED
    BY <2>2, <2>4, <2>5, SyncTime
<1> QED
  BY <1>1, SyncAlways, PTL

-----------------------------------------------------------------------------
(* The clock is not set far back. *)

\* The time last set is that of the fields, also between two sentences.
TimeKept == utc_time = 0 \/ utc_time = MkTime(date, daytime)

LEMMA NextTimeKept == TimeKept /\ [Next]_vars => TimeKept'
BY DEF TimeKept, Next, Tick, Handle, Write, WriteFail, MkTime, vars

\* Two times of one date are less than a day apart, and a time is not before
\* any part of it.
LEMMA SameDate ==
  ASSUME NEW d \in Nat, NEW c \in Nat, NEW b \in Nat, NEW z \in Int, c < Day
  PROVE  (d * Day + c - z) - (d * Day + b - z) < Day
BY SMT DEF Day

LEMMA NotBefore ==
  ASSUME NEW d \in Nat, NEW c \in Nat, NEW t \in Nat, NEW z \in Int, d * Day + c <= t
  PROVE  /\ (d * Day + c - z) - (t - z) < Day
         /\ d * Day + c - z <= t - z
BY SMT DEF Day

LEMMA HandleSetsBack ==
  ASSUME SyncInv, SyncInv', TimeKept, Handle
  PROVE  SetBack
<1>1. PICK s \in Sentences : Checked(s) /\ Scan(s) /\ said' = s
  BY DEF Handle
<1>2. /\ s.time \in Nat /\ said.time \in Nat /\ said.time <= s.time
      /\ date \in Nat /\ daytime \in Nat /\ daytime < Day
      /\ date' \in Nat /\ daytime' \in Nat /\ Zone \in Int /\ utc_time' \in Nat
  BY <1>1, TimesRange, ZoneAssumption DEF Checked, Sentences, SyncInv, TypeOK
<1>3. utc_time' = date' * Day + daytime' - Zone
  BY DEF Handle, MkTime
<1>4. CASE utc_time = 0
  <2>1. PICK u \in Nat : u = utc_time'
    BY <1>2
  <2>2. 0 - u < Day /\ 0 <= u
    BY SMT DEF Day
  <2> QED
    BY <1>4, <2>1, <2>2 DEF SetBack
<1>5. CASE utc_time = date * Day + daytime - Zone
  <2>1. CASE s.fields = "all"
    <3>1. date' * Day + daytime' = s.time
      BY <1>1, <1>2, <2>1, DayAndClock DEF Scan
    <3>2. date * Day + daytime <= s.time
      <4>1. date * Day + daytime \in Int /\ date * Day + daytime <= said.time
        BY <1>2, SMT DEF SyncInv, FieldsBehind, Day
      <4> QED
        BY <1>2, <4>1
    <3>3. /\ utc_time - (s.time - Zone) < Day
          /\ utc_time <= s.time - Zone
      BY <1>2, <1>5, <3>2, NotBefore
    <3>4. utc_time' = s.time - Zone
      <4>1. PICK d \in Nat, c \in Nat : d = date' /\ c = daytime'
        BY <1>2
      <4>2. utc_time' = d * Day + c - Zone /\ d * Day + c = s.time
        BY <1>3, <3>1, <4>1
      <4> QED
        BY <1>2, <4>2, SMT DEF Day
    <3> QED
      BY <3>3, <3>4 DEF SetBack
  <2>2. CASE s.fields /= "all"
    <3>1. date' = date
      BY <1>1, <2>2 DEF Scan
    <3>2. utc_time - utc_time' < Day
      BY <1>2, <1>3, <1>5, <3>1, SameDate
    <3> QED
      BY <1>1, <2>2, <3>2 DEF SetBack
  <2> QED
    BY <2>1, <2>2
<1> QED
  BY <1>4, <1>5 DEF TimeKept, MkTime

\* Fields left by earlier sentences cost the clock less than a day, and nothing
\* once a sentence is complete.
THEOREM NotFarBack == Spec => NeverFarBack
<1>1. Init => TimeKept
  BY DEF Init, TimeKept
<1>2. SyncInv /\ SyncInv' /\ TimeKept /\ [Next]_vars => [SetBack]_vars
  <2> SUFFICES ASSUME SyncInv, SyncInv', TimeKept, Next PROVE SetBack
    OBVIOUS
  <2>1. CASE Handle
    BY <2>1, HandleSetsBack
  <2>2. CASE Tick \/ Write \/ WriteFail
    <3>1. utc_time' = utc_time /\ utc_time \in Nat
      BY <2>2 DEF Tick, Write, WriteFail, SyncInv, TypeOK
    <3> QED
      BY <3>1, SMT DEF SetBack, Day
  <2> QED
    BY <2>1, <2>2 DEF Next
<1> QED
  BY <1>1, <1>2, NextTimeKept, SyncAlways, PTL DEF Spec, NeverFarBack

-----------------------------------------------------------------------------
(* Where writes fail, the registers mix two times. *)

\* The first register alone never holds more than the receiver's time less the zone.
HighBehind == register[5] * 65536 + Zone <= now

LEMMA NextHighBehind == SyncInv /\ HighBehind /\ [Next]_vars => HighBehind'
<1> SUFFICES ASSUME SyncInv, HighBehind, [Next]_vars PROVE HighBehind'
  OBVIOUS
<1>1. register[5] \in Nat /\ Zone \in Int /\ now \in Nat /\ now' \in Nat /\ now <= now'
  <2>1. now \in Nat /\ register[5] \in Nat
    BY TimesRange DEF SyncInv, TypeOK, Word
  <2>2. CASE Tick
    BY <2>1, <2>2, TimesRange, ZoneAssumption DEF Tick
  <2>3. CASE UNCHANGED now
    BY <2>1, <2>3, ZoneAssumption
  <2> QED
    BY <2>2, <2>3 DEF Next, Handle, Write, WriteFail, vars
<1>2. CASE register'[5] = register[5]
  <2>1. PICK h \in Nat : h = register[5]
    BY <1>1
  <2>2. h * 65536 + Zone <= now
    BY <2>1 DEF HighBehind
  <2> QED
    BY <1>1, <1>2, <2>1, <2>2, SMT DEF HighBehind
<1>3. CASE Write /\ writing = 5
  <2>1. register'[5] = Split(utc_time)[0] /\ now' = now
    BY <1>3 DEF Write, Value, SyncInv, TypeOK, TimeSplit
  <2>2. Split(utc_time)[0] * 65536 + Split(utc_time)[1] = utc_time
    BY <1>3, SyncTime, SplitWhole
  <2>3. Split(utc_time)[0] \in Nat /\ Split(utc_time)[1] \in Nat
    <3>1. utc_time \in Int
      BY <1>3, SyncTime
    <3>2. Split(utc_time) \in [0..3 -> Word]
      BY <3>1, SplitType
    <3> QED
      BY <3>2 DEF Word
  <2>4. utc_time + Zone <= now /\ utc_time \in Nat
    <3>1. date * Day + daytime \in Int
      BY <1>3, SyncTime, SMT DEF Day
    <3>2. date * Day + daytime <= said.time /\ said.time <= now
      BY DEF SyncInv, FieldsBehind
    <3> QED
      BY <1>1, <1>3, <3>1, <3>2, SyncTime
  <2> QED
    BY <1>1, <2>1, <2>2, <2>3, <2>4 DEF HighBehind
<1>4. Write /\ writing /= 5 => register'[5] = register[5]
  BY DEF Write, SyncInv, TypeOK
<1>5. CASE Tick \/ Handle \/ WriteFail \/ UNCHANGED vars
  BY <1>2, <1>5 DEF Tick, Handle, WriteFail, vars
<1> QED
  BY <1>2, <1>3, <1>4, <1>5 DEF Next

\* A failed write is ignored, and the registers then hold the first half of one
\* time and the second half of another: at most 65535 s more than the receiver's
\* time less the zone.
THEOREM MixesBounded == Spec => []MixBounded
<1>1. Init => HighBehind
  <2> SUFFICES ASSUME Init PROVE HighBehind
    OBVIOUS
  <2>1. now \in Nat /\ (NoDate + 1) * Day <= now /\ Zone \in Int /\ 2 * Zone <= Day
    BY TimesRange, ZoneAssumption DEF Init
  <2>2. Zone <= now
    BY <2>1, SMT DEF NoDate, Day
  <2> QED
    BY <2>1, <2>2 DEF Init, HighBehind
<1>2. SyncInv /\ HighBehind => MixBounded
  <2> SUFFICES ASSUME SyncInv, HighBehind PROVE MixBounded
    OBVIOUS
  <2>1. PICK h \in Nat, l \in Nat : h = register[5] /\ l = register[6] /\ l < 65536
    BY DEF SyncInv, TypeOK, Word
  <2>2. now \in Nat /\ Zone \in Int
    BY TimesRange, ZoneAssumption DEF SyncInv, TypeOK
  <2>3. h * 65536 + Zone <= now
    BY <2>1 DEF HighBehind
  <2>4. h * 65536 + l < now - Zone + 65536
    BY <2>1, <2>2, <2>3, SMT
  <2> QED
    BY <2>1, <2>4 DEF MixBounded, RegisterTime
<1> QED
  BY <1>1, <1>2, NextHighBehind, SyncAlways, PTL DEF Spec
=============================================================================
