------------------------------ MODULE TimeSync ------------------------------
(***************************************************************************)
(* From an RMC sentence to the FPGA's clock: what bd_start_task            *)
(* (partc/fly_bd.c) does with a frame of UartMsgStruct_FindCmd.  A         *)
(* sentence whose checksum is right is scanned by sscanf into variables    *)
(* that outlive it, mktime makes a time of them, and five registers of the *)
(* FPGA are written over SPI, the fifth of which commits the others.       *)
(*                                                                         *)
(* Times are seconds since 1970, dates days since 1970.  sscanf stops at   *)
(* the first empty field.  A receiver that has no time leaves the first    *)
(* field empty, one that has no position the fields between the time of    *)
(* day and the date: these are then not reached.                           *)
(***************************************************************************)
EXTENDS Integers

CONSTANTS
  Times,        \* when the receiver speaks; bounds the run
  Zone          \* seconds by which the board's local time is ahead of UTC

Day == 86400
NoDate == 10925          \* day, month and year all 0: to mktime, 1999-11-30
LongMax == 2147483647    \* time_t and long have 32 bits on the board

ASSUME TimesAssumption ==
  \A t \in Times : t \in Nat /\ (NoDate + 1) * Day <= t /\ t <= LongMax - Day
ASSUME ZoneAssumption == Zone \in Int /\ -Day <= 2 * Zone /\ 2 * Zone <= Day

Scans == {"nothing", "clock", "all"}
Sentences == [crc : BOOLEAN, time : Times, fields : Scans]

Word == {n \in Nat : n < 65536}    \* unsigned short

VARIABLES
  date, daytime,  \* year, month, day; hh, mm, ss
  utc_time,
  timeToFpga,
  writing,        \* the register to be written next, or 0
  register,       \* the FPGA's registers
  now,            \* the receiver's time
  said,           \* the last sentence that came through
  failed          \* history: registers whose write failed since it came

vars == <<date, daytime, utc_time, timeToFpga, writing, register, now, said, failed>>

Init ==
  /\ date = NoDate /\ daytime = 0
  /\ utc_time = 0 /\ timeToFpga = [i \in 0..3 |-> 0]
  /\ writing = 0
  /\ register = [r \in 5..9 |-> 0]
  /\ now \in Times
  /\ said = [crc |-> TRUE, time |-> now, fields |-> "nothing"]
  /\ failed = {}

\* The receiver's time goes on.
Tick ==
  /\ now' \in {t \in Times : t > now}
  /\ UNCHANGED <<date, daytime, utc_time, timeToFpga, writing, register, said, failed>>

\* Mutant: a sentence is taken whatever its checksum.
Checked_Always(s) == s.crc => said.time <= s.time /\ s.time <= now

\* Sentences that come through whole say the time they were made and come in
\* order, maybe late; one that does not may say anything, and is dropped
\* ("error crc!").
Checked(s) == s.crc /\ said.time <= s.time /\ s.time <= now

\* Mutant: the date is read before the time of day.
Scan_DateFirst(s) ==
  /\ date' = IF s.fields /= "nothing" THEN s.time \div Day ELSE date
  /\ daytime' = IF s.fields = "all" THEN s.time % Day ELSE daytime

\* Mutant: the fields are cleared before each sentence.
Scan_Cleared(s) ==
  /\ daytime' = IF s.fields /= "nothing" THEN s.time % Day ELSE 0
  /\ date' = IF s.fields = "all" THEN s.time \div Day ELSE NoDate

\* sscanf sets the fields it reaches and leaves the others as they are.
Scan(s) ==
  /\ daytime' = IF s.fields /= "nothing" THEN s.time % Day ELSE daytime
  /\ date' = IF s.fields = "all" THEN s.time \div Day ELSE date

\* Mutant: the zone is added, as the comment behind the call has it (+8 hour).
MkTime_Added(d, c) == d * Day + c + Zone

\* mktime takes the fields, which are UTC, for local time: utc_time is behind the
\* time they mean by the zone (west of UTC, where Zone is negative, ahead of it).
MkTime(d, c) == d * Day + c - Zone

\* Mutant: the cast is of the shifted byte, as in (unsigned char)(t << 8).
Low_Narrow(t) == t % 256

\* A register has two bytes, and the first of them the high half of the time; no
\* fraction of a second is ever set.
High(t) == ((t \div 16777216) % 256) * 256 + ((t \div 65536) % 256)
Low(t) == ((t \div 256) % 256) * 256 + (t % 256)
Split(t) == [i \in 0..3 |-> IF i = 0 THEN High(t) ELSE IF i = 1 THEN Low(t) ELSE 0]

\* One RMC sentence, up to the first register.
Handle ==
  /\ writing = 0
  /\ \E s \in Sentences :
       /\ Checked(s)
       /\ Scan(s)
       /\ said' = s
  /\ utc_time' = MkTime(date', daytime')
  /\ timeToFpga' = Split(utc_time')
  /\ writing' = 5 /\ failed' = {}
  /\ UNCHANGED <<register, now>>

\* Mutant: the registers do not end with the commit.
Following_On(r) == r + 1

Value(r) == IF r = 9 THEN 1 ELSE timeToFpga[r - 5]
Following(r) == IF r = 9 THEN 0 ELSE r + 1

\* write_fpga_register, when the SPI write succeeds ...
Write ==
  /\ writing /= 0
  /\ register' = [register EXCEPT ![writing] = Value(writing)]
  /\ writing' = Following(writing)
  /\ UNCHANGED <<date, daytime, utc_time, timeToFpga, now, said, failed>>

\* ... and when it does not: the result is ignored.
WriteFail ==
  /\ writing /= 0
  /\ failed' = failed \cup {writing}
  /\ writing' = Following(writing)
  /\ UNCHANGED <<date, daytime, utc_time, timeToFpga, register, now, said>>

Next == Tick \/ Handle \/ Write \/ WriteFail

Spec == Init /\ [][Next]_vars

-----------------------------------------------------------------------------
(* What the clock may be set to. *)

\* Every variable has its type; each register is given 16 bits.
TypeOK ==
  /\ date \in Nat /\ NoDate <= date /\ daytime \in Nat /\ daytime < Day
  /\ utc_time \in Nat
  /\ timeToFpga \in [0..3 -> Word]
  /\ writing \in {0} \cup 5..9
  /\ register \in [5..9 -> Word]
  /\ now \in Times /\ said \in Sentences /\ failed \subseteq 5..9

Committing == writing = 9 /\ failed = {}
RegisterTime == register[5] * 65536 + register[6]

\* When the commit register is about to be written and no write before it
\* failed, the four others hold the one time of the last sentence, not a part
\* of an earlier one's, and no fraction.  A complete sentence's time is set, but
\* for the zone: it is not the UTC that the comment at fly_bd.c:272 speaks of, and
\* differs from it by the zone exactly.
OneTimeCommitted ==
  Committing =>
    /\ RegisterTime = utc_time /\ register[7] = 0 /\ register[8] = 0
    /\ said.fields = "all" => said.time - RegisterTime = Zone

\* Whatever fields earlier sentences left behind and whatever a damaged one said,
\* the time set is the receiver's less the zone, or earlier: behind UTC by the
\* zone at least where the zone is east, ahead by no more than it where it is west.
LateByZone == writing /= 0 => utc_time <= now - Zone

\* A register's failed write is ignored and the others committed, so that the
\* registers may hold the halves of two times.  They are then less than 65536 s,
\* the reach of the second half, ahead of what LateByZone allows, whatever writes
\* fail and whatever fields sentences lack.
MixBounded == RegisterTime < now - Zone + 65536

\* A sentence that has the time of day and not the date sets a time that is
\* wrong, the zone apart, by whole days only.
WholeDaysBehind ==
  writing /= 0 /\ said.fields = "clock" => (said.time - (utc_time + Zone)) % Day = 0

\* A complete sentence never sets the clock back; one without a date may, where
\* midnight lies between it and the last date read, but by less than a day.
SetBack ==
  /\ utc_time - utc_time' < Day
  /\ said'.fields = "all" => utc_time <= utc_time'
NeverFarBack == [][SetBack]_vars

-----------------------------------------------------------------------------
(* What a comment says and the code does not do. *)

\* partcgo/logic.go:39: the receiver's time is read and set in the FPGA.  Fails when a
\* sentence lacks a field: the time is put together from it and an older one.
\* The zone is left out of it; OneTimeCommitted says what that changes.
ReceiversTimeCommitted == Committing => RegisterTime + Zone = said.time
=============================================================================
