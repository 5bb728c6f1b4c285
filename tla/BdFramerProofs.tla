--------------------------- MODULE BdFramerProofs ---------------------------
(***************************************************************************)
(* Theorems about BdFramer, for every ring and frame buffer.               *)
(***************************************************************************)
EXTENDS BdFramer, WellFoundedInduction, TLAPS

\* A nonempty set of naturals has a least element: strchr finds a byte that is
\* there, or a NUL or the byte itself stands before it.
LEMMA LeastElement ==
  ASSUME NEW S \in SUBSET Nat, S # {}
  PROVE  \E m \in S : \A s \in S : m <= s
<1>1. \E m \in S : \A s \in S : ~ (<<s, m>> \in OpToRel(<, Nat))
  BY NatLessThanWellFounded, WFMin
<1>2. PICK m \in S : \A s \in S : ~ (<<s, m>> \in OpToRel(<, Nat))
  BY <1>1
<1>3. ASSUME NEW s \in S PROVE m <= s
  <2>1. s \in Nat /\ m \in Nat
    OBVIOUS
  <2>2. ~ (<<s, m>> \in {ss \in Nat \X Nat : ss[1] < ss[2]})
    BY <1>2 DEF OpToRel
  <2> QED
    BY <2>1, <2>2
<1> QED
  BY <1>3

-----------------------------------------------------------------------------
(* Type correctness. *)

\* The span lies inside the ring and is never longer than it.
LEMMA SpanInRing ==
  ASSUME TypeOK
  PROVE  /\ SpanLen \in 0..Size
         /\ read_pos + SpanLen <= Size
         /\ \A j \in 0..SpanLen-1 : read_pos + j \in Slots /\ Span(j) \in Byte
<1>1. Size \in Nat /\ read_pos \in 0..Size-1 /\ write_pos \in 0..Size-1
  BY SizesAssumption DEF TypeOK, Slots
<1>2. SpanLen \in 0..Size /\ read_pos + SpanLen <= Size
  BY <1>1 DEF SpanLen
<1>3. ASSUME NEW j \in 0..SpanLen-1
      PROVE  read_pos + j \in Slots /\ Span(j) \in Byte
  <2>1. read_pos + j \in Slots
    BY <1>1, <1>2 DEF Slots
  <2> QED
    BY <2>1 DEF TypeOK, Span
<1> QED
  BY <1>2, <1>3

\* What strchr finds lies in the span, has the byte looked for and is the first.
LEMMA StrChrFirst ==
  ASSUME TypeOK, NEW c, NEW j \in StrChr(c)
  PROVE  /\ j \in 0..SpanLen-1 /\ j \in Nat /\ Span(j).k = c
         /\ \A i \in 0..j-1 : Span(i).k \notin {c, "nul"}
  BY SpanInRing DEF StrChr

\* Taking up to one whole span keeps read_pos in the ring.
LEMMA TakeStaysInRing ==
  ASSUME TypeOK, NEW n \in 0..SpanLen, Take(n)
  PROVE  read_pos' \in Slots /\ taken' \in Nat
<1>1. Size \in Nat /\ read_pos \in 0..Size-1 /\ write_pos \in 0..Size-1
  BY SizesAssumption DEF TypeOK, Slots
<1>2. n \in Nat /\ read_pos + n <= Size
  BY SpanInRing, <1>1
<1> QED
  BY <1>1, <1>2 DEF Take, Wrapped, TypeOK, Slots

\* A copy that fits keeps gDataBuff a buffer of bytes.
LEMMA MemCpyTypeOK ==
  ASSUME TypeOK, NEW dst \in Nat, NEW from \in Nat, NEW n \in Nat,
         from + n <= SpanLen, MemCpy(dst, from, n)
  PROVE  gDataBuff' \in [Cells -> Byte]
<1> SUFFICES ASSUME NEW c \in Cells, c \in dst..dst+n-1
             PROVE  Span(from + c - dst) \in Byte
  BY DEF MemCpy, TypeOK
<1>1. from + c - dst \in 0..SpanLen-1
  BY SpanInRing DEF Cells
<1> QED
  BY <1>1, SpanInRing

\* A push keeps write_pos in the ring and the ring a ring of bytes.
LEMMA PushTypeOK ==
  ASSUME TypeOK, NEW len \in 1..BufSize, NEW data \in UartRecv(len),
         received + len <= MaxBytes, Push(data, len)
  PROVE  /\ pdata' \in [Slots -> Byte] /\ write_pos' \in Slots
         /\ received' \in 0..MaxBytes /\ lapped' \in BOOLEAN
<1>1. /\ Size \in Nat /\ BufSize \in Nat /\ BufSize <= Size /\ MaxBytes \in Nat
      /\ write_pos \in 0..Size-1 /\ received \in 0..MaxBytes
      /\ len \in Nat /\ len >= 1 /\ len <= Size
  BY SizesAssumption DEF TypeOK, Slots
<1>2. \A i \in 1..len : data[i] \in Byte
  BY <1>1 DEF UartRecv, Byte
<1>3. write_pos' \in Slots
  BY <1>1 DEF Push, WriteEnd, Slots
<1>4. pdata' \in [Slots -> Byte]
  <2> SUFFICES ASSUME NEW i \in Slots PROVE Filled(data, len)[i] \in Byte
    BY DEF Push, Filled
  <2>1. pdata[i] \in Byte /\ i \in 0..Size-1
    BY DEF TypeOK, Slots
  <2>2. CASE write_pos + len <= Size
    <3>1. CASE i \in write_pos..write_pos+len-1
      <4>1. i - write_pos + 1 \in 1..len
        BY <1>1, <3>1
      <4> QED
        BY <1>2, <2>2, <3>1, <4>1 DEF Filled
    <3> QED
      BY <2>1, <2>2, <3>1 DEF Filled
  <2>3. CASE ~(write_pos + len <= Size)
    <3>1. CASE i >= write_pos
      <4>1. i - write_pos + 1 \in 1..len
        BY <1>1, <2>1, <2>3, <3>1
      <4> QED
        BY <1>2, <2>3, <3>1, <4>1 DEF Filled
    <3>2. CASE i < write_pos /\ i < len - (Size - write_pos)
      <4>1. Size - write_pos + i + 1 \in 1..len /\ ~(i >= write_pos)
        BY <1>1, <2>1, <2>3, <3>2
      <4> QED
        BY <1>2, <2>3, <3>2, <4>1 DEF Filled
    <3> QED
      BY <1>1, <2>1, <2>3, <3>1, <3>2 DEF Filled
  <2> QED
    BY <2>2, <2>3
<1>5. received' \in 0..MaxBytes /\ lapped' \in BOOLEAN
  BY <1>1 DEF Push, TypeOK
<1> QED
  BY <1>3, <1>4, <1>5

LEMMA InitTypeOK == Init => TypeOK
<1>1. Cleared \in Byte
  BY DEF Cleared, Byte, Kinds
<1>2. 0 \in Slots /\ 0 \in 0..MaxBytes
  BY SizesAssumption DEF Slots
<1>3. Init => pdata \in [Slots -> Byte] /\ gDataBuff \in [Cells -> Byte]
  BY <1>1 DEF Init
<1>4. Init => lapped \in BOOLEAN
  BY DEF Init
<1> QED
  BY <1>2, <1>3, <1>4 DEF Init, TypeOK

LEMMA NextTypeOK ==
  ASSUME TypeOK, Next
  PROVE  TypeOK'
<1> USE DEF FindUnchanged, ring, frame
<1>1. CASE Recv
  <2>1. PICK len \in 1..BufSize :
          /\ received + len <= MaxBytes
          /\ \E data \in UartRecv(len) : Push(data, len)
    BY <1>1 DEF Recv
  <2>2. PICK data \in UartRecv(len) : Push(data, len)
    BY <2>1
  <2> QED
    BY <1>1, <2>1, <2>2, PushTypeOK DEF Recv, Push, TypeOK
<1>2. CASE FindEmpty
  BY <1>2 DEF FindEmpty, Return, TypeOK
<1>3. CASE FindNoHead
  <2>1. Take(SpanLen) /\ SpanLen \in 0..SpanLen
    BY <1>3, SpanInRing DEF FindNoHead
  <2> QED
    BY <1>3, <2>1, TakeStaysInRing DEF FindNoHead, Return, TypeOK
<1>4. CASE FindWhole
  <2>1. PICK h \in StrChr("head"), t \in StrChr("tail") :
          /\ Fits(0, t - h) /\ MemCpy(0, h, t - h)
          /\ gDataBuffIndex' = gDataBuffIndex + (t - h)
          /\ Take(t + 1) /\ Return(t - h)
    BY <1>4 DEF FindWhole
  <2>2. /\ h \in 0..SpanLen-1 /\ t \in 0..SpanLen-1 /\ t - h \in Nat
        /\ h \in Nat /\ t \in Nat /\ t + 1 \in 0..SpanLen /\ h + (t - h) <= SpanLen
    BY <2>1, SpanInRing, StrChrFirst DEF Fits
  <2>3. gDataBuff' \in [Cells -> Byte]
    BY <2>1, <2>2, MemCpyTypeOK
  <2>4. read_pos' \in Slots /\ taken' \in Nat
    BY <2>1, <2>2, TakeStaysInRing
  <2> QED
    BY <1>4, <2>1, <2>2, <2>3, <2>4 DEF FindWhole, Return, TypeOK
<1>5. CASE FindHead
  <2>1. PICK h \in StrChr("head") :
          /\ Fits(0, SpanLen - h) /\ MemCpy(0, h, SpanLen - h)
          /\ gDataBuffIndex' = gDataBuffIndex + (SpanLen - h)
    BY <1>5 DEF FindHead
  <2>2. /\ h \in 0..SpanLen-1 /\ h \in Nat /\ SpanLen - h \in Nat
        /\ h + (SpanLen - h) <= SpanLen /\ SpanLen \in 0..SpanLen
    BY <2>1, SpanInRing, StrChrFirst
  <2>3. gDataBuff' \in [Cells -> Byte]
    BY <2>1, <2>2, MemCpyTypeOK
  <2>4. read_pos' \in Slots /\ taken' \in Nat
    BY <1>5, <2>2, TakeStaysInRing DEF FindHead
  <2> QED
    BY <1>5, <2>1, <2>2, <2>3, <2>4 DEF FindHead, Return, TypeOK
<1>6. CASE FindTail
  <2>1. PICK t \in StrChr("tail") :
          /\ MemCpy(gDataBuffIndex, 0, t)
          /\ gDataBuffIndex' = gDataBuffIndex + t
          /\ Take(t + 1) /\ Return(t)
    BY <1>6 DEF FindTail
  <2>2. /\ t \in 0..SpanLen-1 /\ t \in Nat /\ gDataBuffIndex \in Nat
        /\ t + 1 \in 0..SpanLen /\ 0 + t <= SpanLen
    BY <2>1, SpanInRing, StrChrFirst DEF TypeOK
  <2>3. gDataBuff' \in [Cells -> Byte]
    BY <2>1, <2>2, MemCpyTypeOK
  <2>4. read_pos' \in Slots /\ taken' \in Nat
    BY <2>1, <2>2, TakeStaysInRing
  <2> QED
    BY <1>6, <2>1, <2>2, <2>3, <2>4 DEF FindTail, Return, TypeOK
<1>7. CASE FindMiddle
  <2>1. /\ SpanLen \in Nat /\ gDataBuffIndex \in Nat
        /\ SpanLen \in 0..SpanLen /\ 0 + SpanLen <= SpanLen
    BY SpanInRing DEF TypeOK
  <2>2. gDataBuff' \in [Cells -> Byte]
    BY <1>7, <2>1, MemCpyTypeOK DEF FindMiddle
  <2>3. read_pos' \in Slots /\ taken' \in Nat
    BY <1>7, <2>1, TakeStaysInRing DEF FindMiddle
  <2> QED
    BY <1>7, <2>1, <2>2, <2>3 DEF FindMiddle, Return, TypeOK
<1>8. CASE FindUndefined
  BY <1>8 DEF FindUndefined, TypeOK
<1>9. CASE Handle
  <2>1. Cleared \in Byte
    BY DEF Cleared, Byte, Kinds
  <2>2. PICK rmc \in BOOLEAN : gDataBuff' = Zeroed(Terminate(gDataBuff, rmc))
    BY <1>9 DEF Handle
  <2>3. Terminate(gDataBuff, rmc) \in [Cells -> Byte]
    BY <2>1 DEF Terminate, TypeOK
  <2>4. gDataBuff' \in [Cells -> Byte]
    BY <2>1, <2>2, <2>3 DEF Zeroed
  <2> QED
    BY <1>9, <2>4 DEF Handle, TypeOK
<1>10. CASE HandleUndefined
  BY <1>10 DEF HandleUndefined, TypeOK
<1> QED
  BY <1>1, <1>2, <1>3, <1>4, <1>5, <1>6, <1>7, <1>8, <1>9, <1>10 DEF Next, FindCmd

LEMMA StutterTypeOK == TypeOK /\ UNCHANGED vars => TypeOK'
BY DEF TypeOK, vars, ring, frame

\* Every variable keeps its type: whatever the line delivers and however it is
\* cut into reads, read_pos and write_pos stay in the ring.
THEOREM TypeCorrect == Spec => []TypeOK
<1>1. TypeOK /\ [Next]_vars => TypeOK'
  BY NextTypeOK, StutterTypeOK
<1> QED
  BY InitTypeOK, <1>1, PTL DEF Spec

-----------------------------------------------------------------------------
(* The ring keeps the stream. *)

\* Until the reader is lapped, the span holds the next bytes of the stream.
LEMMA SpanIsStream ==
  ASSUME TypeOK, UnreadIsStream, ~lapped
  PROVE  /\ SpanLen <= Unread
         /\ \A j \in 0..SpanLen-1 : Span(j).n = taken + 1 + j
<1>1. /\ Size \in Nat /\ read_pos \in 0..Size-1 /\ write_pos \in 0..Size-1
      /\ received \in Nat /\ taken \in Nat
  BY SizesAssumption DEF TypeOK, Slots
<1>2. Unread = Offset(read_pos, write_pos)
  BY DEF UnreadIsStream
<1>3. SpanLen \in Nat /\ SpanLen <= Unread
  BY <1>1, <1>2 DEF SpanLen, Offset
<1>4. ASSUME NEW j \in 0..SpanLen-1 PROVE Span(j).n = taken + 1 + j
  <2>1. read_pos + j \in Slots
    BY SpanInRing
  <2>2. Offset(read_pos, read_pos + j) = j
    BY <1>1, <1>3 DEF Offset
  <2>3. j < Unread
    BY <1>1, <1>3 DEF Unread
  <2> QED
    BY <2>1, <2>2, <2>3 DEF UnreadIsStream, Span
<1> QED
  BY <1>3, <1>4

\* Taking bytes of the span leaves the rest of the stream in place.
LEMMA TakeKeepsStream ==
  ASSUME TypeOK, UnreadIsStream, NEW n \in 0..SpanLen, Take(n), FindUnchanged
  PROVE  UnreadIsStream'
<1> SUFFICES ASSUME ~lapped PROVE UnreadIsStream'
  BY DEF UnreadIsStream, FindUnchanged
<1>1. /\ Size \in Nat /\ read_pos \in 0..Size-1 /\ write_pos \in 0..Size-1
      /\ received \in Nat /\ taken \in Nat
  BY SizesAssumption DEF TypeOK, Slots
<1>2. n \in Nat /\ SpanLen \in Nat /\ n <= SpanLen
  BY SpanInRing
<1>3. /\ received' = received /\ taken' = taken + n /\ pdata' = pdata /\ write_pos' = write_pos
      /\ read_pos' = IF read_pos + n >= Size THEN read_pos + n - Size ELSE read_pos + n
  <2>1. received' = received /\ pdata' = pdata /\ write_pos' = write_pos
    BY DEF FindUnchanged
  <2>2. taken' = taken + n /\ read_pos' = Wrapped(read_pos + n)
    BY DEF Take
  <2> QED
    BY <1>1, <1>2, <2>1, <2>2 DEF Wrapped
<1>4. Unread = Offset(read_pos, write_pos)
  BY DEF UnreadIsStream
<1>5. Unread' = Offset(read_pos, write_pos)'
  BY <1>1, <1>2, <1>3, <1>4 DEF Unread, Offset, SpanLen
<1>6. ASSUME NEW i \in Slots, Offset(read_pos, i)' < Unread'
      PROVE  pdata'[i].n = (taken + 1 + Offset(read_pos, i))'
  <2>1. i \in 0..Size-1
    BY DEF Slots
  <2>2. Offset(read_pos, i) = Offset(read_pos', i) + n
    BY <1>1, <1>2, <1>3, <1>4, <1>6, <2>1 DEF Unread, Offset, SpanLen
  <2>3. Offset(read_pos, i) < Unread
    BY <1>1, <1>2, <1>3, <1>6, <2>1, <2>2 DEF Unread, Offset
  <2>4. pdata[i].n = taken + 1 + Offset(read_pos, i)
    BY <2>3 DEF UnreadIsStream
  <2>5. Offset(read_pos', i) \in Int
    BY <1>1, <1>2, <1>3, <2>1 DEF Offset
  <2> QED
    BY <1>1, <1>2, <1>3, <2>2, <2>4, <2>5 DEF Offset
<1> QED
  BY <1>5, <1>6 DEF UnreadIsStream

\* A push that does not lap the reader appends the chunk to the stream.
LEMMA PushKeepsStream ==
  ASSUME TypeOK, UnreadIsStream, NEW len \in 1..BufSize, NEW data \in UartRecv(len),
         received + len <= MaxBytes, Push(data, len), taken' = taken
  PROVE  UnreadIsStream'
<1> SUFFICES ASSUME ~lapped' PROVE UnreadIsStream'
  BY DEF UnreadIsStream
<1>1. /\ Size \in Nat /\ read_pos \in 0..Size-1 /\ write_pos \in 0..Size-1
      /\ received \in Nat /\ taken \in Nat
      /\ len \in Nat /\ len >= 1 /\ len <= Size
  BY SizesAssumption DEF TypeOK, Slots
<1>2. ~lapped /\ Unread + len < Size
  <2>1. ~lapped /\ ~(Unread + len >= Size)
    BY DEF Push
  <2> QED
    BY <1>1, <2>1 DEF Unread
<1>3. Unread = Offset(read_pos, write_pos)
  BY <1>2 DEF UnreadIsStream
<1>4. received' = received + len /\ read_pos' = read_pos /\ Unread' = Unread + len
  BY <1>1 DEF Push, Unread
<1>5. write_pos' = WriteEnd(len)
  BY DEF Push
<1>6. Unread' = Offset(read_pos, write_pos)'
  BY <1>1, <1>2, <1>3, <1>4, <1>5 DEF Offset, WriteEnd
<1>7. \A m \in 1..len : data[m].n = received + m
  BY DEF UartRecv
<1>8. ASSUME NEW i \in Slots, Offset(read_pos, i) < Unread + len
      PROVE  Filled(data, len)[i].n = taken + 1 + Offset(read_pos, i)
  <2>1. i \in 0..Size-1
    BY DEF Slots
  <2>2. CASE Offset(read_pos, i) < Unread
    <3>1. pdata[i].n = taken + 1 + Offset(read_pos, i)
      BY <1>2, <2>2 DEF UnreadIsStream
    <3>2. Filled(data, len)[i] = pdata[i]
      BY <1>1, <1>2, <1>3, <2>1, <2>2 DEF Filled, Offset
    <3> QED
      BY <3>1, <3>2
  <2>3. CASE ~(Offset(read_pos, i) < Unread)
    <3> DEFINE m == Offset(read_pos, i) - Unread + 1
    <3>1. m \in 1..len
      BY <1>1, <1>2, <1>3, <1>8, <2>1, <2>3 DEF Offset, Unread
    <3>2. Filled(data, len)[i] = data[m]
      <4>1. CASE write_pos + len <= Size
        <5>1. i \in write_pos..write_pos+len-1 /\ i - write_pos + 1 = m
          BY <1>1, <1>2, <1>3, <1>8, <2>1, <2>3, <4>1 DEF Offset
        <5> QED
          BY <4>1, <5>1 DEF Filled
      <4>2. CASE ~(write_pos + len <= Size) /\ i >= write_pos
        <5>1. i - write_pos + 1 = m
          BY <1>1, <1>2, <1>3, <1>8, <2>1, <2>3, <4>2 DEF Offset
        <5> QED
          BY <4>2, <5>1 DEF Filled
      <4>3. CASE ~(write_pos + len <= Size) /\ ~(i >= write_pos)
        <5>1. i < len - (Size - write_pos) /\ Size - write_pos + i + 1 = m
          BY <1>1, <1>2, <1>3, <1>8, <2>1, <2>3, <4>3 DEF Offset
        <5> QED
          BY <4>3, <5>1 DEF Filled
      <4> QED
        BY <4>1, <4>2, <4>3
    <3>3. data[m].n = received + m
      BY <1>7, <3>1
    <3>4. Offset(read_pos, i) \in Int
      BY <1>1, <2>1 DEF Offset
    <3> QED
      BY <1>1, <3>2, <3>3, <3>4 DEF Unread
  <2> QED
    BY <2>2, <2>3
<1>9. pdata' = Filled(data, len)
  BY DEF Push
<1> QED
  BY <1>4, <1>6, <1>8, <1>9 DEF UnreadIsStream, Offset

-----------------------------------------------------------------------------
(* Frames. *)

\* What a copy leaves in gDataBuff.
LEMMA MemCpyCells ==
  ASSUME NEW dst \in Nat, NEW from \in Nat, NEW n \in Nat, MemCpy(dst, from, n),
         NEW c \in Cells
  PROVE  /\ c \in dst..dst+n-1 => gDataBuff'[c] = Span(from + c - dst)
         /\ c \notin dst..dst+n-1 => gDataBuff'[c] = gDataBuff[c]
BY DEF MemCpy

\* Behind gDataBuffIndex nothing of an earlier frame is left.
CleanBehindIndex ==
  pc /= "undefined" => \A c \in Cells : c >= gDataBuffIndex => gDataBuff[c] = Cleared

\* gDataBuff stays clear behind the index.
LEMMA CopyKeepsClean ==
  ASSUME TypeOK, CleanBehindIndex, pc /= "undefined",
         NEW dst \in {0, gDataBuffIndex}, NEW from \in Nat, NEW n \in Nat,
         MemCpy(dst, from, n), gDataBuffIndex' = gDataBuffIndex + n
  PROVE  CleanBehindIndex'
<1> SUFFICES ASSUME NEW c \in Cells, c >= gDataBuffIndex'
             PROVE  gDataBuff'[c] = Cleared
  BY DEF CleanBehindIndex
<1>1. gDataBuffIndex \in Nat /\ c \in Nat /\ dst \in Nat
  BY DEF TypeOK, Cells
<1>2. c \notin dst..dst+n-1 /\ c >= gDataBuffIndex
  BY <1>1
<1> QED
  BY <1>1, <1>2, MemCpyCells DEF CleanBehindIndex

LEMMA NextClean ==
  ASSUME TypeOK, CleanBehindIndex, Next
  PROVE  CleanBehindIndex'
<1> USE DEF FindUnchanged, ring, frame
<1>1. CASE Recv \/ FindEmpty \/ FindNoHead \/ FindUndefined \/ HandleUndefined
  <2>1. pc /= "undefined" /\ UNCHANGED <<gDataBuff, gDataBuffIndex>>
    BY <1>1 DEF Recv, FindEmpty, FindNoHead, Searching, FindUndefined, HandleUndefined
  <2> QED
    BY <2>1 DEF CleanBehindIndex
<1>2. CASE FindWhole
  <2>1. PICK h \in StrChr("head"), t \in StrChr("tail") :
          /\ Fits(0, t - h) /\ MemCpy(0, h, t - h)
          /\ gDataBuffIndex' = gDataBuffIndex + (t - h)
    BY <1>2 DEF FindWhole
  <2>2. h \in Nat /\ t \in Nat /\ t - h \in Nat
    BY <2>1, StrChrFirst DEF Fits
  <2> QED
    BY <1>2, <2>1, <2>2, CopyKeepsClean DEF FindWhole, Searching
<1>3. CASE FindHead
  <2>1. PICK h \in StrChr("head") :
          /\ MemCpy(0, h, SpanLen - h)
          /\ gDataBuffIndex' = gDataBuffIndex + (SpanLen - h)
    BY <1>3 DEF FindHead
  <2>2. h \in Nat /\ SpanLen - h \in Nat
    BY <2>1, StrChrFirst, SpanInRing
  <2> QED
    BY <1>3, <2>1, <2>2, CopyKeepsClean DEF FindHead, Searching
<1>4. CASE FindTail
  <2>1. PICK t \in StrChr("tail") :
          /\ MemCpy(gDataBuffIndex, 0, t)
          /\ gDataBuffIndex' = gDataBuffIndex + t
    BY <1>4 DEF FindTail
  <2>2. t \in Nat
    BY <2>1, StrChrFirst
  <2> QED
    BY <1>4, <2>1, <2>2, CopyKeepsClean DEF FindTail, Searching
<1>5. CASE FindMiddle
  <2>1. SpanLen \in Nat
    BY SpanInRing
  <2> QED
    BY <1>5, <2>1, CopyKeepsClean DEF FindMiddle, Searching
<1>6. CASE Handle
  <2>1. PICK rmc \in BOOLEAN : gDataBuff' = Zeroed(Terminate(gDataBuff, rmc))
    BY <1>6 DEF Handle
  <2>2. gDataBuffIndex \in Nat /\ pc /= "undefined"
    BY <1>6 DEF Handle, TypeOK
  <2>3. ASSUME NEW c \in Cells PROVE gDataBuff'[c] = Cleared
    <3>1. c \in Int /\ (c >= gDataBuffIndex => gDataBuff[c] = Cleared)
      BY <2>2 DEF CleanBehindIndex, Cells
    <3>2. c < gDataBuffIndex \/ Terminate(gDataBuff, rmc)[c] = Cleared
      BY <2>2, <3>1 DEF Terminate, TypeOK
    <3> QED
      BY <2>1, <3>2 DEF Zeroed
  <2> QED
    BY <2>3 DEF CleanBehindIndex
<1> QED
  BY <1>1, <1>2, <1>3, <1>4, <1>5, <1>6 DEF Next, FindCmd

\* The memset clears all that the copies have put in gDataBuff.
THEOREM CleanBuffer == Spec => []CleanBehindIndex
<1>1. Init => CleanBehindIndex
  BY DEF Init, CleanBehindIndex
<1>2. TypeOK /\ CleanBehindIndex /\ [Next]_vars => CleanBehindIndex'
  <2>1. TypeOK /\ CleanBehindIndex /\ UNCHANGED vars => CleanBehindIndex'
    BY DEF CleanBehindIndex, vars, frame
  <2> QED
    BY <2>1, NextClean
<1> QED
  BY <1>1, <1>2, TypeCorrect, PTL DEF Spec

-----------------------------------------------------------------------------
(* The stream theorem: UnreadIsStream is inductive with TypeOK. *)

LEMMA NextKeepsStream ==
  ASSUME TypeOK, UnreadIsStream, Next
  PROVE  UnreadIsStream'
<1>1. CASE Recv
  <2>1. PICK len \in 1..BufSize :
          /\ received + len <= MaxBytes
          /\ \E data \in UartRecv(len) : Push(data, len)
    BY <1>1 DEF Recv
  <2>2. PICK data \in UartRecv(len) : Push(data, len)
    BY <2>1
  <2> QED
    BY <1>1, <2>1, <2>2, PushKeepsStream DEF Recv
<1>2. CASE FindEmpty \/ FindUndefined \/ Handle \/ HandleUndefined
  BY <1>2 DEF FindEmpty, FindUndefined, Handle, HandleUndefined, UnreadIsStream,
              Unread, Offset, ring
<1>3. CASE FindNoHead \/ FindHead \/ FindMiddle
  <2>1. Take(SpanLen) /\ SpanLen \in 0..SpanLen /\ FindUnchanged
    BY <1>3, SpanInRing DEF FindNoHead, FindHead, FindMiddle
  <2> QED
    BY <2>1, TakeKeepsStream
<1>4. CASE FindWhole \/ FindTail
  <2>1. PICK t \in StrChr("tail") : Take(t + 1)
    BY <1>4 DEF FindWhole, FindTail
  <2>2. t + 1 \in 0..SpanLen /\ FindUnchanged
    BY <1>4, <2>1, StrChrFirst, SpanInRing DEF FindWhole, FindTail
  <2> QED
    BY <2>1, <2>2, TakeKeepsStream
<1> QED
  BY <1>1, <1>2, <1>3, <1>4 DEF Next, FindCmd

\* Between read_pos and write_pos lies the unread part of the stream, in order,
\* until a push laps the reader: over every wrap, for every Size.
THEOREM RingKeepsStream == Spec => []UnreadIsStream
<1>1. Init => UnreadIsStream
  BY DEF Init, UnreadIsStream, Unread, Offset, Slots
<1>2. TypeOK /\ UnreadIsStream /\ [Next]_vars => UnreadIsStream'
  <2>1. UnreadIsStream /\ UNCHANGED vars => UnreadIsStream'
    BY DEF UnreadIsStream, vars, ring, Unread, Offset
  <2> QED
    BY <2>1, NextKeepsStream
<1> QED
  BY <1>1, <1>2, TypeCorrect, PTL DEF Spec

-----------------------------------------------------------------------------
(* FindCmd moves on. *)

\* A read is followed by FindCmd, which finds at least that read's bytes.
Pending == pc = "find" /\ ~lapped => Unread > 0

LEMMA NextPending ==
  ASSUME TypeOK, UnreadIsStream, Next
  PROVE  Pending'
<1>1. CASE Recv
  <2>1. PICK len \in 1..BufSize : \E data \in UartRecv(len) : Push(data, len)
    BY <1>1 DEF Recv
  <2>2. received' = received + len /\ taken' = taken
    BY <1>1, <2>1 DEF Recv, Push
  <2>3. ~lapped' => ~lapped
    BY <2>1 DEF Push
  <2>4. ~lapped => Unread \in Nat
    <3> Size \in Nat /\ read_pos \in 0..Size-1 /\ write_pos \in 0..Size-1
      BY SizesAssumption DEF TypeOK, Slots
    <3> QED
      BY DEF UnreadIsStream, Offset
  <2>5. received \in Int /\ taken \in Int /\ len \in Int /\ len >= 1
    BY SizesAssumption DEF TypeOK
  <2>6. ~lapped' => Unread' > 0
    BY <2>2, <2>3, <2>4, <2>5 DEF Unread
  <2> QED
    BY <2>6 DEF Pending
<1>2. CASE ~Recv
  <2>1. pc' # "find"
    BY <1>2 DEF Next, FindCmd, FindEmpty, FindNoHead, FindWhole, FindHead, FindTail,
                FindMiddle, FindUndefined, Handle, HandleUndefined, Return
  <2> QED
    BY <2>1 DEF Pending
<1> QED
  BY <1>1, <1>2

LEMMA NextMovesOn ==
  ASSUME TypeOK, UnreadIsStream, Pending, Next
  PROVE  FindMovesOn
<1> SUFFICES ASSUME pc = "find", pc' \in {"recv", "handle"}, ~lapped
             PROVE  taken' \in taken+1..received
  BY DEF FindMovesOn
<1>1. /\ Size \in Nat /\ read_pos \in 0..Size-1 /\ write_pos \in 0..Size-1
      /\ received \in Nat /\ taken \in Nat
  BY SizesAssumption DEF TypeOK, Slots
<1>2. Unread = Offset(read_pos, write_pos) /\ Unread > 0
  BY DEF UnreadIsStream, Pending
<1>3. SpanLen \in Nat /\ SpanLen > 0 /\ SpanLen <= Unread
  BY <1>1, <1>2, SpanInRing, SpanIsStream DEF SpanLen, Offset
<1>4. ASSUME NEW n \in 1..SpanLen, taken' = taken + n
      PROVE  taken' \in taken+1..received
  BY <1>1, <1>3, <1>4 DEF Unread
<1>5. CASE FindNoHead \/ FindHead \/ FindMiddle
  <2>1. taken' = taken + SpanLen /\ SpanLen \in 1..SpanLen
    BY <1>3, <1>5 DEF FindNoHead, FindHead, FindMiddle, Take
  <2> QED
    BY <1>4, <2>1
<1>6. CASE FindWhole \/ FindTail
  <2>1. PICK t \in StrChr("tail") : Take(t + 1)
    BY <1>6 DEF FindWhole, FindTail
  <2>2. t + 1 \in 1..SpanLen /\ taken' = taken + (t + 1)
    BY <1>3, <2>1, StrChrFirst DEF Take
  <2> QED
    BY <1>4, <2>2
<1>7. CASE FindEmpty
  BY <1>3, <1>7 DEF FindEmpty
<1> QED
  BY <1>5, <1>6, <1>7 DEF Next, FindCmd, Recv, FindUndefined, Handle, HandleUndefined

\* Every call of FindCmd that comes back takes bytes, and only bytes that were read.
THEOREM FindCmdProgresses == Spec => FindProgress
<1>1. Init => Pending
  BY DEF Init, Pending
<1>2. TypeOK /\ UnreadIsStream /\ Pending /\ [Next]_vars => Pending'
  <2>1. Pending /\ UNCHANGED vars => Pending'
    BY DEF Pending, vars, Unread
  <2> QED
    BY <2>1, NextPending
<1>3. TypeOK /\ UnreadIsStream /\ Pending /\ [Next]_vars => [FindMovesOn]_vars
  BY NextMovesOn
<1> QED
  BY <1>1, <1>2, <1>3, TypeCorrect, RingKeepsStream, PTL DEF Spec, FindProgress

-----------------------------------------------------------------------------
(* No byte twice. *)

\* No byte is handed over twice: those of a frame (the whole of it, also one
\* begun behind a dropped frame) come after all that were handled before.
NeverTwice ==
  pc = "handle" /\ ~lapped =>
    \A c \in Cells : c < gDataBuffIndex => gDataBuff[c].n = 0 \/ gDataBuff[c].n > handled

\* NeverTwice, for what is in gDataBuff at any time.
Fresh ==
  pc # "undefined" /\ ~lapped =>
    /\ handled <= taken
    /\ \A c \in Cells : gDataBuff[c] = Cleared \/ gDataBuff[c].n \in handled+1..taken

\* Copying from the span what is then taken brings in new bytes only.
LEMMA CopyKeepsFresh ==
  ASSUME TypeOK, UnreadIsStream, Fresh, pc # "undefined",
         NEW dst \in Nat, NEW from \in Nat, NEW n \in Nat, NEW k \in 0..SpanLen,
         from + n <= k, MemCpy(dst, from, n), Take(k), FindUnchanged
  PROVE  Fresh'
<1> SUFFICES ASSUME ~lapped
             PROVE  /\ handled' <= taken'
                    /\ \A c \in Cells : \/ gDataBuff'[c] = Cleared
                                        \/ gDataBuff'[c].n \in handled'+1..taken'
  BY DEF Fresh, FindUnchanged
<1>1. /\ handled' = handled /\ taken' = taken + k
      /\ handled \in Nat /\ taken \in Nat /\ k \in Nat /\ handled <= taken
  BY SpanInRing DEF FindUnchanged, Take, TypeOK, Fresh
<1>2. ASSUME NEW c \in Cells
      PROVE  gDataBuff'[c] = Cleared \/ gDataBuff'[c].n \in handled'+1..taken'
  <2>1. CASE c \in dst..dst+n-1
    <3>1. c \in Int /\ from + c - dst \in 0..SpanLen-1 /\ from + c - dst < k
      BY <1>1, <2>1, SpanInRing DEF Cells
    <3>2. Span(from + c - dst).n = taken + 1 + (from + c - dst)
      BY <3>1, SpanIsStream
    <3> QED
      BY <1>1, <2>1, <3>1, <3>2, MemCpyCells
  <2>2. CASE c \notin dst..dst+n-1
    <3>1. gDataBuff'[c] = gDataBuff[c]
      BY <2>2, MemCpyCells
    <3> QED
      BY <1>1, <3>1 DEF Fresh, TypeOK, Byte
  <2> QED
    BY <2>1, <2>2
<1> QED
  BY <1>1, <1>2

LEMMA NextFresh ==
  ASSUME TypeOK, UnreadIsStream, CleanBehindIndex, CleanBehindIndex', Fresh, Next
  PROVE  Fresh'
<1>1. CASE Recv
  <2>1. ~lapped' => ~lapped
    BY <1>1 DEF Recv, Push
  <2>2. pc # "undefined" /\ UNCHANGED <<gDataBuff, taken, handled>>
    BY <1>1 DEF Recv, frame
  <2> QED
    BY <2>1, <2>2 DEF Fresh
<1>2. CASE FindEmpty \/ FindUndefined \/ HandleUndefined
  <2>1. pc # "undefined" /\ UNCHANGED <<gDataBuff, taken, handled, lapped>>
    BY <1>2 DEF FindEmpty, FindUndefined, HandleUndefined, frame
  <2> QED
    BY <2>1 DEF Fresh
<1>3. CASE FindNoHead
  <2>1. /\ pc # "undefined" /\ UNCHANGED <<gDataBuff, handled, lapped>>
        /\ taken' = taken + SpanLen
    BY <1>3 DEF FindNoHead, Searching, FindUnchanged, frame, Take
  <2>2. taken \in Nat /\ handled \in Nat /\ SpanLen \in Nat
    BY SpanInRing DEF TypeOK
  <2> QED
    BY <2>1, <2>2 DEF Fresh
<1>4. CASE FindWhole
  <2>1. PICK h \in StrChr("head"), t \in StrChr("tail") :
          /\ Fits(0, t - h) /\ MemCpy(0, h, t - h) /\ Take(t + 1)
    BY <1>4 DEF FindWhole
  <2>2. /\ h \in Nat /\ t \in Nat /\ t - h \in Nat
        /\ t + 1 \in 0..SpanLen /\ h + (t - h) <= t + 1
    BY <2>1, StrChrFirst, SpanInRing DEF Fits
  <2> QED
    BY <1>4, <2>1, <2>2, CopyKeepsFresh DEF FindWhole, Searching
<1>5. CASE FindHead
  <2>1. PICK h \in StrChr("head") : MemCpy(0, h, SpanLen - h)
    BY <1>5 DEF FindHead
  <2>2. /\ h \in Nat /\ SpanLen - h \in Nat
        /\ SpanLen \in 0..SpanLen /\ h + (SpanLen - h) <= SpanLen
    BY <2>1, StrChrFirst, SpanInRing
  <2> QED
    BY <1>5, <2>1, <2>2, CopyKeepsFresh DEF FindHead, Searching
<1>6. CASE FindTail
  <2>1. PICK t \in StrChr("tail") : MemCpy(gDataBuffIndex, 0, t) /\ Take(t + 1)
    BY <1>6 DEF FindTail
  <2>2. t \in Nat /\ gDataBuffIndex \in Nat /\ t + 1 \in 0..SpanLen /\ 0 + t <= t + 1
    BY <2>1, StrChrFirst, SpanInRing DEF TypeOK
  <2> QED
    BY <1>6, <2>1, <2>2, CopyKeepsFresh DEF FindTail, Searching
<1>7. CASE FindMiddle
  <2>1. /\ gDataBuffIndex \in Nat /\ SpanLen \in Nat
        /\ SpanLen \in 0..SpanLen /\ 0 + SpanLen <= SpanLen
    BY SpanInRing DEF TypeOK
  <2> QED
    BY <1>7, <2>1, CopyKeepsFresh DEF FindMiddle, Searching
<1>8. CASE Handle
  <2>1. /\ pc' # "undefined" /\ gDataBuffIndex' = 0
        /\ handled' = taken /\ taken' = taken /\ taken \in Nat
    BY <1>8 DEF Handle, TypeOK
  <2>2. \A c \in Cells : gDataBuff'[c] = Cleared
    BY <2>1 DEF CleanBehindIndex, Cells
  <2> QED
    BY <2>1, <2>2 DEF Fresh, Cleared
<1> QED
  BY <1>1, <1>2, <1>3, <1>4, <1>5, <1>6, <1>7, <1>8 DEF Next, FindCmd

LEMMA AlwaysFresh == Spec => []Fresh
<1>1. Init => Fresh
  BY DEF Init, Fresh, Cleared
<1>2. /\ TypeOK /\ UnreadIsStream /\ CleanBehindIndex /\ CleanBehindIndex' /\ Fresh
      /\ [Next]_vars
      => Fresh'
  <2>1. Fresh /\ UNCHANGED vars => Fresh'
    BY DEF Fresh, vars, frame
  <2> QED
    BY <2>1, NextFresh
<1> QED
  BY <1>1, <1>2, TypeCorrect, RingKeepsStream, CleanBuffer, PTL DEF Spec

\* No byte of the stream reaches bd_start_task in two frames.
THEOREM NoByteTwice == Spec => []NeverTwice
<1>1. TypeOK /\ Fresh => NeverTwice
  BY DEF Fresh, NeverTwice, TypeOK, Cleared
<1> QED
  BY <1>1, TypeCorrect, AlwaysFresh, PTL

-----------------------------------------------------------------------------
(* Frames are exact. *)

\* A span without a '\n' that strchr can reach hides every '\n' behind a NUL.
LEMMA HiddenTail ==
  ASSUME TypeOK, NEW n \in 0..SpanLen,
         \A j \in 0..n-1 : j \notin StrChr("tail"),
         NEW i \in 0..n-1, Span(i).k = "tail"
  PROVE  \E b \in 0..i : Span(b).k = "nul"
<1> DEFINE S == {j \in 0..n-1 : Span(j).k \in {"tail", "nul"}}
<1>1. S \in SUBSET Nat /\ i \in S
  BY SpanInRing
<1>2. PICK m \in S : \A s \in S : m <= s
  BY <1>1, LeastElement
<1>3. m \in 0..SpanLen-1 /\ m \in 0..n-1 /\ m \in 0..i
  BY <1>1, <1>2, SpanInRing
<1>4. \A j \in 0..m-1 : Span(j).k \notin {"tail", "nul"}
  <2> SUFFICES ASSUME NEW j \in 0..m-1, Span(j).k \in {"tail", "nul"} PROVE FALSE
    OBVIOUS
  <2>1. j \in 0..n-1 /\ ~(m <= j)
    BY <1>3, SpanInRing
  <2> QED
    BY <1>2, <2>1
<1>5. Span(m).k # "tail"
  BY <1>3, <1>4 DEF StrChr
<1> QED
  BY <1>3, <1>5

\* A frame begun in an empty gDataBuff: n bytes from the '$' at h, up to d bytes
\* before the last one taken.
LEMMA FrameBegins ==
  ASSUME TypeOK, UnreadIsStream, ~lapped, gDataBuffIndex = 0,
         NEW h \in StrChr("head"), NEW n \in Nat \ {0}, NEW d \in {0, 1},
         h + n + d <= SpanLen, n <= BufSize,
         \A j \in 0..h+n-1 : j \notin StrChr("tail"),
         MemCpy(0, h, n), gDataBuffIndex' = gDataBuffIndex + n,
         Take(h + n + d)
  PROVE  gDataBuffIndex' \in 1..BufSize /\ FrameUpTo(taken - d)'
<1>1. /\ h \in Nat /\ h \in 0..SpanLen-1 /\ Span(h).k = "head"
      /\ \A i \in 0..h-1 : Span(i).k # "nul"
      /\ SpanLen \in Nat /\ taken \in Nat /\ BufSize \in Nat
  BY StrChrFirst, SpanInRing, SizesAssumption DEF TypeOK
<1>2. gDataBuffIndex' = n /\ gDataBuffIndex' \in 1..BufSize
  BY <1>1
<1>3. ASSUME NEW c \in 0..n-1
      PROVE  /\ c \in Cells /\ h + c \in 0..h+n-1 /\ h + c \in 0..SpanLen-1
             /\ gDataBuff'[c] = Span(h + c)
             /\ gDataBuff'[c].n = taken + 1 + h + c
  <2>1. /\ c \in Cells /\ c \in 0..0+n-1 /\ h + c \in 0..h+n-1
        /\ h + c \in 0..SpanLen-1 /\ h + c - 0 = h + c
    BY <1>1 DEF Cells
  <2>2. gDataBuff'[c] = Span(h + c)
    BY <1>1, <2>1, MemCpyCells
  <2>3. Span(h + c).n = taken + 1 + (h + c)
    BY <2>1, SpanIsStream
  <2> QED
    BY <1>1, <2>1, <2>2, <2>3
<1>4. gDataBuff'[0].k = "head" /\ gDataBuff'[0].n = taken + 1 + h
  <2>1. 0 \in 0..n-1 /\ h + 0 = h /\ taken + 1 + h + 0 = taken + 1 + h
    BY <1>1
  <2> QED
    BY <1>1, <1>3, <2>1
<1>5. \A c \in 0..n-1 : gDataBuff'[c].n = gDataBuff'[0].n + c
  BY <1>3, <1>4
<1>6. gDataBuff'[0].n + n = (taken' - d) + 1
  BY <1>1, <1>4 DEF Take
<1>7. ASSUME NEW c \in 0..n-1, gDataBuff'[c].k = "tail"
      PROVE  \E b \in 0..c : gDataBuff'[b].k = "nul"
  <2>1. Span(h + c).k = "tail" /\ h + c \in 0..h+n-1 /\ h + n \in 0..SpanLen
    BY <1>1, <1>3, <1>7
  <2>2. PICK b \in 0..h+c : Span(b).k = "nul"
    <3> DEFINE e == h + n
               i == h + c
    <3>1. e \in 0..SpanLen /\ i \in 0..e-1 /\ Span(i).k = "tail"
      BY <1>1, <2>1
    <3>2. \A j \in 0..e-1 : j \notin StrChr("tail")
      BY <1>1
    <3> HIDE DEF e, i
    <3>3. \E b \in 0..i : Span(b).k = "nul"
      BY <3>1, <3>2, HiddenTail
    <3> QED
      BY <3>3 DEF i
  <2>3. ~(b \in 0..h-1)
    BY <1>1, <2>2
  <2>4. b - h \in 0..c /\ b - h \in 0..n-1 /\ h + (b - h) = b
    BY <1>1, <2>3
  <2> QED
    BY <1>3, <2>2, <2>4
<1> QED
  BY <1>2, <1>4, <1>5, <1>6, <1>7 DEF FrameUpTo

\* A frame carried on by n bytes of the next span.
LEMMA FrameGrows ==
  ASSUME TypeOK, UnreadIsStream, ~lapped, gDataBuffIndex \in 1..BufSize, FrameUpTo(taken),
         NEW n \in Nat, NEW d \in {0, 1}, n + d <= SpanLen,
         gDataBuffIndex + n <= BufSize,
         \A j \in 0..n-1 : j \notin StrChr("tail"),
         MemCpy(gDataBuffIndex, 0, n), gDataBuffIndex' = gDataBuffIndex + n,
         Take(n + d)
  PROVE  gDataBuffIndex' \in 1..BufSize /\ FrameUpTo(taken - d)'
<1> DEFINE x == gDataBuffIndex
<1>1. /\ x \in Nat /\ x >= 1 /\ SpanLen \in Nat /\ taken \in Nat /\ BufSize \in Nat
      /\ gDataBuff[0].n \in Int
  <2>1. 0 \in Cells
    BY SizesAssumption DEF Cells
  <2> QED
    BY <2>1, SpanInRing, SizesAssumption DEF TypeOK, Byte
<1>2. gDataBuffIndex' = x + n /\ gDataBuffIndex' \in 1..BufSize
  BY <1>1
<1>3. ASSUME NEW c \in 0..x-1 PROVE gDataBuff'[c] = gDataBuff[c]
  <2>1. c \in Cells /\ c \notin x..x+n-1
    BY <1>1 DEF Cells
  <2> QED
    BY <1>1, <2>1, MemCpyCells
<1>4. ASSUME NEW c \in x..x+n-1
      PROVE  /\ c - x \in 0..n-1 /\ c - x \in 0..SpanLen-1
             /\ gDataBuff'[c] = Span(c - x)
             /\ gDataBuff'[c].n = taken + 1 + (c - x)
  <2>1. c \in Cells /\ c - x \in 0..n-1 /\ c - x \in 0..SpanLen-1 /\ 0 + c - x = c - x
    BY <1>1 DEF Cells
  <2>2. gDataBuff'[c] = Span(c - x)
    BY <1>1, <2>1, MemCpyCells
  <2> QED
    BY <2>1, <2>2, SpanIsStream
<1>5. gDataBuff'[0] = gDataBuff[0] /\ gDataBuff[0].n + x = taken + 1
  BY <1>1, <1>3 DEF FrameUpTo
<1>6. ASSUME NEW c \in 0..x+n-1 PROVE gDataBuff'[c].n = gDataBuff'[0].n + c
  <2>1. CASE c \in 0..x-1
    BY <1>3, <1>5, <2>1 DEF FrameUpTo
  <2>2. CASE c \in x..x+n-1
    BY <1>1, <1>4, <1>5, <2>2
  <2> QED
    BY <1>1, <2>1, <2>2
<1>7. gDataBuff'[0].n + (x + n) = (taken' - d) + 1
  BY <1>1, <1>5 DEF Take
<1>8. ASSUME NEW c \in 0..x+n-1, gDataBuff'[c].k = "tail"
      PROVE  \E b \in 0..c : gDataBuff'[b].k = "nul"
  <2>1. CASE c \in 0..x-1
    <3>1. PICK b \in 0..c : gDataBuff[b].k = "nul"
      BY <1>3, <1>8, <2>1 DEF FrameUpTo
    <3>2. b \in 0..x-1
      BY <1>1, <2>1
    <3> QED
      BY <1>3, <3>1, <3>2
  <2>2. CASE c \in x..x+n-1
    <3>1. c - x \in 0..n-1 /\ Span(c - x).k = "tail" /\ n \in 0..SpanLen
      BY <1>1, <1>4, <1>8, <2>2
    <3>2. PICK b \in 0..c-x : Span(b).k = "nul"
      BY <3>1, HiddenTail
    <3>3. x + b \in x..x+n-1 /\ x + b \in 0..c /\ (x + b) - x = b
      BY <1>1, <2>2
    <3> QED
      BY <1>4, <3>2, <3>3
  <2> QED
    BY <1>1, <2>1, <2>2
<1> QED
  BY <1>2, <1>5, <1>6, <1>7, <1>8 DEF FrameUpTo

\* FrameExact, from the '$' to the '\n'.
FrameInv ==
  /\ pc = "handle" => cmd_head = 0
  /\ ~lapped /\ residue = 0 =>
       /\ pc = "handle" => gDataBuffIndex \in 1..BufSize /\ FrameUpTo(taken - 1)
       /\ pc \in {"recv", "find"} /\ cmd_head = 1 =>
            gDataBuffIndex \in 1..BufSize /\ FrameUpTo(taken)

LEMMA NextFrame ==
  ASSUME TypeOK, UnreadIsStream, FrameInv, Next
  PROVE  FrameInv'
<1>1. CASE Recv
  <2>1. ~lapped' => ~lapped
    BY <1>1 DEF Recv, Push
  <2>2. /\ pc = "recv" /\ pc' = "find"
        /\ UNCHANGED <<gDataBuff, gDataBuffIndex, residue, taken, cmd_head>>
    BY <1>1 DEF Recv, Push, frame
  <2> QED
    BY <2>1, <2>2 DEF FrameInv, FrameUpTo
<1>2. CASE FindEmpty \/ FindUndefined \/ HandleUndefined
  <2>1. /\ pc' = "undefined" \/ (pc = "find" /\ pc' = "recv")
        /\ UNCHANGED <<gDataBuff, gDataBuffIndex, residue, taken, cmd_head, lapped>>
    BY <1>2 DEF FindEmpty, Return, FindUndefined, HandleUndefined, frame, ring
  <2> QED
    BY <2>1 DEF FrameInv, FrameUpTo
<1>3. CASE FindNoHead
  <2>1. cmd_head' = 0 /\ pc' = "recv"
    BY <1>3 DEF FindNoHead, Searching, Return
  <2> QED
    BY <2>1 DEF FrameInv
<1>4. CASE FindWhole
  <2>1. PICK h \in StrChr("head"), t \in StrChr("tail") :
          /\ Fits(0, t - h) /\ MemCpy(0, h, t - h)
          /\ gDataBuffIndex' = gDataBuffIndex + (t - h)
          /\ Take(t + 1)
    BY <1>4 DEF FindWhole
  <2>2. /\ h \in Nat /\ t \in Nat /\ Span(h).k = "head" /\ Span(t).k = "tail"
        /\ t \in 0..SpanLen-1 /\ \A j \in 0..t-1 : Span(j).k # "tail"
    BY <2>1, StrChrFirst
  <2>3. t - h \in Nat \ {0} /\ t - h <= BufSize
    BY <2>1, <2>2, SizesAssumption DEF Fits
  <2>4. h + (t - h) = t /\ h + (t - h) + 1 = t + 1 /\ t + 1 <= SpanLen
    BY <2>2, SpanInRing
  <2>5. \A j \in 0..t-1 : j \notin StrChr("tail")
    BY <2>2, StrChrFirst
  <2>6. /\ cmd_head' = 0 /\ residue' = gDataBuffIndex /\ lapped' = lapped
        /\ pc' \in {"handle", "recv"}
    BY <1>4 DEF FindWhole, Searching, FindUnchanged, Return
  <2>7. ASSUME ~lapped, gDataBuffIndex = 0
        PROVE  gDataBuffIndex' \in 1..BufSize /\ FrameUpTo(taken - 1)'
    <3> DEFINE n == t - h
    <3>1. /\ n \in Nat \ {0} /\ n <= BufSize /\ h + n + 1 <= SpanLen
          /\ MemCpy(0, h, n) /\ gDataBuffIndex' = gDataBuffIndex + n
      BY <2>1, <2>3, <2>4
    <3>2. \A j \in 0..h+n-1 : j \notin StrChr("tail")
      BY <2>2, <2>4, <2>5
    <3>3. Take(h + n + 1)
      BY <2>1, <2>4
    <3> HIDE DEF n
    <3> QED
      BY <2>1, <2>7, <3>1, <3>2, <3>3, FrameBegins
  <2> QED
    BY <2>6, <2>7 DEF FrameInv
<1>5. CASE FindHead
  <2>1. PICK h \in StrChr("head") :
          /\ Fits(0, SpanLen - h) /\ MemCpy(0, h, SpanLen - h)
          /\ gDataBuffIndex' = gDataBuffIndex + (SpanLen - h)
    BY <1>5 DEF FindHead
  <2>2. h \in Nat /\ h \in 0..SpanLen-1 /\ SpanLen \in Nat
    BY <2>1, StrChrFirst, SpanInRing
  <2>3. SpanLen - h \in Nat \ {0} /\ SpanLen - h <= BufSize
    BY <2>1, <2>2, SizesAssumption DEF Fits
  <2>4. h + (SpanLen - h) = SpanLen /\ h + (SpanLen - h) + 0 = SpanLen
    BY <2>2
  <2>5. /\ residue' = gDataBuffIndex /\ lapped' = lapped /\ pc' = "recv"
        /\ Take(SpanLen) /\ StrChr("tail") = {}
    BY <1>5 DEF FindHead, FindUnchanged, Return
  <2>6. ASSUME ~lapped, gDataBuffIndex = 0
        PROVE  gDataBuffIndex' \in 1..BufSize /\ FrameUpTo(taken)'
    <3>1. gDataBuffIndex' \in 1..BufSize /\ FrameUpTo(taken - 0)'
      BY <2>1, <2>2, <2>3, <2>4, <2>5, <2>6, FrameBegins
    <3>2. taken' - 0 = taken'
      BY <2>2, <2>5 DEF Take, TypeOK
    <3> QED
      BY <3>1, <3>2
  <2> QED
    BY <2>5, <2>6 DEF FrameInv
<1>6. CASE FindTail
  <2>1. PICK t \in StrChr("tail") :
          /\ Fits(gDataBuffIndex, t) /\ MemCpy(gDataBuffIndex, 0, t)
          /\ gDataBuffIndex' = gDataBuffIndex + t
          /\ Take(t + 1) /\ Return(t)
    BY <1>6 DEF FindTail
  <2>2. /\ t \in Nat /\ t + 1 <= SpanLen /\ gDataBuffIndex \in Nat
        /\ \A j \in 0..t-1 : j \notin StrChr("tail")
    <3>1. t \in Nat /\ t \in 0..SpanLen-1 /\ \A j \in 0..t-1 : Span(j).k # "tail"
      BY <2>1, StrChrFirst
    <3> QED
      BY <3>1, SpanInRing, StrChrFirst DEF TypeOK
  <2>3. /\ pc = "find" /\ cmd_head = 1 /\ cmd_head' = 0 /\ residue' = residue
        /\ lapped' = lapped
    BY <1>6 DEF FindTail, Searching, FindUnchanged
  <2>4. CASE t = 0
    <3>1. pc' = "recv"
      BY <2>1, <2>4 DEF Return
    <3> QED
      BY <2>3, <3>1 DEF FrameInv
  <2>5. CASE t # 0
    <3>1. pc' = "handle" /\ gDataBuffIndex + t <= BufSize
      BY <2>1, <2>2, <2>5 DEF Return, Fits
    <3>2. ASSUME ~lapped, residue = 0
          PROVE  gDataBuffIndex' \in 1..BufSize /\ FrameUpTo(taken - 1)'
      <4>1. gDataBuffIndex \in 1..BufSize /\ FrameUpTo(taken)
        BY <2>3, <3>2 DEF FrameInv
      <4> QED
        BY <2>1, <2>2, <3>1, <3>2, <4>1, FrameGrows
    <3> QED
      BY <2>3, <3>1, <3>2 DEF FrameInv
  <2> QED
    BY <2>4, <2>5
<1>7. CASE FindMiddle
  <2>1. /\ SpanLen \in Nat \ {0} /\ gDataBuffIndex \in Nat
        /\ gDataBuffIndex + SpanLen <= BufSize /\ SpanLen + 0 = SpanLen
    BY <1>7, SpanInRing DEF FindMiddle, Searching, Fits, TypeOK
  <2>2. /\ pc = "find" /\ cmd_head = 1 /\ residue' = residue /\ lapped' = lapped
        /\ pc' = "recv" /\ Take(SpanLen) /\ StrChr("tail") = {}
        /\ MemCpy(gDataBuffIndex, 0, SpanLen)
        /\ gDataBuffIndex' = gDataBuffIndex + SpanLen
    BY <1>7 DEF FindMiddle, Searching, FindUnchanged, Return
  <2>3. ASSUME ~lapped, residue = 0
        PROVE  gDataBuffIndex' \in 1..BufSize /\ FrameUpTo(taken)'
    <3>1. gDataBuffIndex \in 1..BufSize /\ FrameUpTo(taken)
      BY <2>2, <2>3 DEF FrameInv
    <3>2. gDataBuffIndex' \in 1..BufSize /\ FrameUpTo(taken - 0)'
      BY <2>1, <2>2, <2>3, <3>1, FrameGrows
    <3>3. taken' - 0 = taken'
      BY <2>1, <2>2 DEF Take, TypeOK
    <3> QED
      BY <3>2, <3>3
  <2> QED
    BY <2>2, <2>3 DEF FrameInv
<1>8. CASE Handle
  BY <1>8 DEF Handle, FrameInv, ring
<1> QED
  BY <1>1, <1>2, <1>3, <1>4, <1>5, <1>6, <1>7, <1>8 DEF Next, FindCmd

LEMMA AlwaysFrame == Spec => []FrameInv
<1>1. Init => FrameInv
  BY DEF Init, FrameInv
<1>2. TypeOK /\ UnreadIsStream /\ FrameInv /\ [Next]_vars => FrameInv'
  <2>1. FrameInv /\ UNCHANGED vars => FrameInv'
    BY DEF FrameInv, FrameUpTo, vars, frame, ring
  <2> QED
    BY <2>1, NextFrame
<1> QED
  BY <1>1, <1>2, TypeCorrect, RingKeepsStream, PTL DEF Spec

\* A frame begun in an empty gDataBuff is handed over whole, whatever the reads
\* and the end of the ring did to it, unless the reader was lapped.
THEOREM FramesExact == Spec => []FrameExact
<1>1. FrameInv => FrameExact
  BY DEF FrameInv, FrameExact
<1> QED
  BY <1>1, AlwaysFrame, PTL

\* What is compared with "RMC" lies inside the frame and is of no frame handled
\* earlier, and it is the frame's own unless one was dropped before it.
THEOREM ComparesFrame == Spec => []ComparesOwn
<1>1. TypeOK /\ CleanBehindIndex /\ Fresh /\ FrameInv => ComparesOwn
  <2> SUFFICES ASSUME TypeOK, CleanBehindIndex, Fresh, FrameInv,
                      pc = "handle", ~lapped, MayBeRmc, NEW c \in Compared
               PROVE  /\ c < gDataBuffIndex
                      /\ gDataBuff[c].n \in handled+1..taken
                      /\ residue = 0 => gDataBuff[c].n = gDataBuff[0].n + c
    BY DEF ComparesOwn
  <2>1. c \in Cells /\ c \in Nat /\ gDataBuffIndex \in Nat
    BY ComparedAssumption DEF Cells, TypeOK
  <2>2. gDataBuff[c] /= Cleared
    BY DEF MayBeRmc, Cleared
  <2>3. c < gDataBuffIndex
    BY <2>1, <2>2 DEF CleanBehindIndex
  <2>4. gDataBuff[c].n \in handled+1..taken
    BY <2>1, <2>2 DEF Fresh
  <2>5. residue = 0 => gDataBuff[c].n = gDataBuff[0].n + c
    BY <2>1, <2>3 DEF FrameInv, FrameUpTo
  <2> QED
    BY <2>3, <2>4, <2>5
<1> QED
  BY <1>1, TypeCorrect, CleanBuffer, AlwaysFresh, AlwaysFrame, PTL

-----------------------------------------------------------------------------
(* The task feeds sentences. *)

\* A frame holds at least the byte it was begun with.
Begun == pc = "handle" \/ cmd_head = 1 => gDataBuffIndex > residue

LEMMA NextBegun ==
  ASSUME TypeOK, FrameInv, Begun, Next
  PROVE  Begun'
<1> USE DEF Begun
<1>0. gDataBuffIndex \in Nat /\ residue \in Nat /\ SpanLen \in Nat
  BY SpanInRing DEF TypeOK
<1>1. CASE Recv \/ FindEmpty \/ FindNoHead \/ FindUndefined \/ HandleUndefined
  <2>1. /\ pc' # "handle" /\ UNCHANGED <<gDataBuffIndex, residue, cmd_head>>
    BY <1>1 DEF Recv, Push, FindEmpty, FindNoHead, FindUndefined, HandleUndefined,
                Return, frame, ring
  <2> QED
    BY <2>1
<1>2. CASE FindWhole
  <2>1. PICK h \in StrChr("head"), t \in StrChr("tail") :
          Fits(0, t - h) /\ gDataBuffIndex' = gDataBuffIndex + (t - h)
    BY <1>2 DEF FindWhole
  <2>2. h \in Nat /\ t \in Nat /\ Span(h).k = "head" /\ Span(t).k = "tail"
    BY <2>1, StrChrFirst
  <2>3. t - h > 0 /\ residue' = gDataBuffIndex
    BY <1>2, <2>1, <2>2 DEF Fits, FindWhole
  <2> QED
    BY <1>0, <2>1, <2>2, <2>3
<1>3. CASE FindHead
  <2>1. PICK h \in StrChr("head") : gDataBuffIndex' = gDataBuffIndex + (SpanLen - h)
    BY <1>3 DEF FindHead
  <2>2. h \in 0..SpanLen-1 /\ residue' = gDataBuffIndex
    BY <1>3, <2>1, StrChrFirst DEF FindHead
  <2> QED
    BY <1>0, <2>1, <2>2
<1>4. CASE FindTail
  <2>1. PICK t \in StrChr("tail") : gDataBuffIndex' = gDataBuffIndex + t
    BY <1>4 DEF FindTail
  <2>2. t \in Nat /\ cmd_head = 1 /\ residue' = residue
    BY <1>4, <2>1, StrChrFirst DEF FindTail, Searching
  <2> QED
    BY <1>0, <2>1, <2>2
<1>5. CASE FindMiddle
  BY <1>0, <1>5 DEF FindMiddle, Searching
<1>6. CASE Handle
  BY <1>6 DEF Handle, FrameInv, ring
<1> QED
  BY <1>1, <1>2, <1>3, <1>4, <1>5, <1>6 DEF Next, FindCmd

LEMMA AlwaysBegun == Spec => []Begun
<1>1. Init => Begun
  BY DEF Init, Begun
<1>2. TypeOK /\ FrameInv /\ Begun /\ [Next]_vars => Begun'
  <2>1. Begun /\ UNCHANGED vars => Begun'
    BY DEF Begun, vars, frame, ring
  <2> QED
    BY <2>1, NextBegun
<1> QED
  BY <1>1, <1>2, TypeCorrect, AlwaysFrame, PTL DEF Spec

\* What the feed maps to while FindCmd looks for a frame, and when it has one.
Behind == IF cmd_head = 1 THEN residue > 0 ELSE gDataBuffIndex > 0

\* The step that hands a frame over: exact, or garbled behind a dropped one.
LEMMA HandsOver ==
  ASSUME TypeOK, TypeOK', UnreadIsStream', Fresh', FrameInv', Begun',
         pc = "find", pc' = "handle", ~lapped, ~lapped',
         UNCHANGED <<received, handled>>, Behind <=> residue' > 0
  PROVE  Feed!HandOver \/ Feed!HandOverGarbled
<1>1. /\ received \in Nat /\ handled \in Nat /\ BufSize \in Nat /\ BufSize >= 1
      /\ taken' \in Nat /\ gDataBuffIndex' \in Nat /\ residue' \in Nat
      /\ gDataBuffIndex' > residue' /\ taken' <= received
  BY SizesAssumption DEF TypeOK, Begun, UnreadIsStream, Unread, Offset, Slots
<1>2. \A c \in Cells : \/ gDataBuff'[c] = Cleared
                      \/ gDataBuff'[c].n \in handled+1..taken'
  BY DEF Fresh
<1>3. CASE residue' = 0
  <2> DEFINE first == gDataBuff'[0].n
             len == gDataBuffIndex'
  <2>1. len \in 1..BufSize /\ FrameUpTo(taken - 1)'
    BY <1>3 DEF FrameInv
  <2>2. /\ gDataBuff'[0].k = "head"
        /\ \A c \in 0..len-1 : gDataBuff'[c].n = first + c
        /\ first + len = taken'
        /\ \A c \in 0..len-1 :
             gDataBuff'[c].k = "tail" => \E b \in 0..c : gDataBuff'[b].k = "nul"
    <3>1. first \in Nat
      BY <1>1 DEF TypeOK, Byte, Cells
    <3>2. /\ gDataBuff'[0].k = "head" /\ first + len = (taken' - 1) + 1
          /\ \A c \in 0..len-1 : gDataBuff'[c].n = first + c
      BY <2>1 DEF FrameUpTo
    <3>3. \A c \in 0..len-1 :
            gDataBuff'[c].k = "tail" => \E b \in 0..c : gDataBuff'[b].k = "nul"
      BY <2>1 DEF FrameUpTo
    <3>4. first + len = taken'
      BY <1>1, <3>1, <3>2
    <3> QED
      BY <3>2, <3>3, <3>4
  <2>3. first \in handled+1..received /\ len \in 1..received-first
    <3>1. 0 \in Cells /\ gDataBuff'[0] # Cleared
      BY <1>1, <2>2 DEF Cells, Cleared
    <3> QED
      BY <1>1, <1>2, <2>1, <2>2, <3>1
  <2>4. Handed' = [i \in 1..len |-> gDataBuff'[i-1]]
    <3>1. {i \in 1..BufSize : i <= len} = 1..len
      BY <1>1, <2>1
    <3> QED
      BY <3>1 DEF Handed
  <2>5. ASSUME NEW i \in 1..len PROVE i - 1 \in Cells /\ i - 1 \in 0..len-1
    <3> HIDE DEF len
    <3> QED
      BY <1>1, <2>1 DEF Cells
  <2>6. /\ Handed' \in [1..len -> Byte]
        /\ \A i \in 1..len : Handed'[i] = gDataBuff'[i-1]
    BY <2>4, <2>5 DEF TypeOK
  <2>7. \A i \in 1..len : Handed'[i].n = first + i - 1
    BY <2>2, <2>3, <2>5, <2>6
  <2>8. Handed'[1].k = "head"
    BY <1>1, <2>1, <2>2, <2>6
  <2>9. ASSUME NEW i \in 1..len, Handed'[i].k = "tail"
        PROVE  \E j \in 1..i : Handed'[j].k = "nul"
    <3>1. PICK b \in 0..i-1 : gDataBuff'[b].k = "nul"
      BY <2>2, <2>5, <2>6, <2>9
    <3>2. b + 1 \in 1..i /\ b + 1 \in 1..len /\ (b + 1) - 1 = b
      BY <2>1
    <3> QED
      BY <2>6, <3>1, <3>2
  <2>10. ~Behind
    BY <1>3
  <2> HIDE DEF first, len
  <2>11. (IF pc = "handle" THEN Handed ELSE <<>>)' = Handed'
    OBVIOUS
  <2>12. Feed!Idle /\ ~(IF pc = "handle" \/ cmd_head = 1 THEN residue > 0 ELSE gDataBuffIndex > 0)
    BY <2>10 DEF Feed!Idle, Behind
  <2>13. UNCHANGED <<received, handled,
                     IF pc = "handle" \/ cmd_head = 1 THEN residue > 0 ELSE gDataBuffIndex > 0,
                     lapped \/ pc = "undefined">>
    BY <1>3, <2>12 DEF TypeOK
  <2>14. DOMAIN Handed' = 1..len /\ Handed' \in [1..len -> Feed!Byte]
    BY <2>6 DEF Feed!Byte, Byte, Kinds
  <2> QED
    BY <2>3, <2>7, <2>8, <2>9, <2>11, <2>12, <2>13, <2>14 DEF Feed!HandOver
<1>4. CASE residue' # 0
  <2>1. DOMAIN Handed' = {i \in 1..BufSize : i <= gDataBuffIndex'}
    BY DEF Handed
  <2>2. 1 \in DOMAIN Handed'
    BY <1>1, <2>1
  <2>3. ASSUME NEW i \in DOMAIN Handed'
        PROVE  Handed'[i].n = 0 \/ Handed'[i].n \in handled+1..received
    <3>1. i - 1 \in Cells /\ Handed'[i] = gDataBuff'[i-1]
      BY <1>1, <2>1 DEF Handed, Cells
    <3> QED
      BY <1>1, <1>2, <3>1 DEF Cleared
  <2>4. Behind
    BY <1>1, <1>4
  <2> QED
    BY <2>2, <2>3, <2>4 DEF Feed!HandOverGarbled, Feed!Idle, Behind
<1> QED
  BY <1>3, <1>4

\* FindCmd's steps that hand nothing over leave the feed as it is, but for the
\* frame that is dropped when its '\n' comes first in a span.
LEMMA FindCmdFeeds ==
  ASSUME TypeOK, TypeOK', UnreadIsStream, UnreadIsStream', Fresh, Fresh', FrameInv, FrameInv',
         Begun, Begun', FindCmd, ~lapped, ~lapped', pc' # "undefined"
  PROVE  [Feed!Next]_Feed!vars
<1>0. /\ gDataBuffIndex \in Nat /\ residue \in Nat /\ received \in Nat /\ handled \in Nat
      /\ taken \in Nat /\ SpanLen \in Nat /\ pc = "find"
  BY SpanInRing DEF TypeOK, FindCmd, FindEmpty, FindNoHead, FindWhole, FindHead, FindTail,
     FindMiddle, FindUndefined, Searching
<1>1. CASE FindEmpty \/ FindNoHead \/ FindHead \/ FindMiddle
  <2>1. /\ pc = "find" /\ pc' = "recv" /\ UNCHANGED <<received, handled>>
        /\ \/ UNCHANGED <<cmd_head, gDataBuffIndex, residue>>
           \/ cmd_head = 1 /\ cmd_head' = 1 /\ residue' = residue
           \/ cmd_head = 0 /\ cmd_head' = 1 /\ residue' = gDataBuffIndex
    BY <1>1 DEF FindEmpty, FindNoHead, FindHead, FindMiddle, Return, Searching, FindUnchanged,
       ring, frame
  <2>2. UNCHANGED <<received, handled, IF pc = "handle" THEN Handed ELSE <<>>>>
    BY <2>1
  <2>3. UNCHANGED <<IF pc = "handle" \/ cmd_head = 1 THEN residue > 0 ELSE gDataBuffIndex > 0,
                    lapped \/ pc = "undefined">>
    BY <1>0, <2>1
  <2> QED
    BY <2>2, <2>3 DEF Feed!vars
<1>2. CASE FindWhole
  <2>1. PICK h \in StrChr("head"), t \in StrChr("tail") : Fits(0, t - h) /\ Return(t - h)
    BY <1>2 DEF FindWhole
  <2>2. h \in Nat /\ t \in Nat /\ Span(h).k = "head" /\ Span(t).k = "tail"
    BY <2>1, StrChrFirst
  <2>3. t - h > 0
    BY <2>1, <2>2 DEF Fits
  <2>4. /\ pc' = "handle" /\ UNCHANGED <<received, handled>>
        /\ cmd_head = 0 /\ residue' = gDataBuffIndex
    BY <1>2, <2>1, <2>3 DEF FindWhole, Return, Searching, FindUnchanged
  <2>5. Behind <=> residue' > 0
    BY <2>4 DEF Behind
  <2> QED
    BY <1>0, <2>4, <2>5, HandsOver DEF Feed!Next
<1>3. CASE FindTail
  <2>1. PICK t \in StrChr("tail") :
          gDataBuffIndex' = gDataBuffIndex + t /\ Take(t + 1) /\ Return(t)
    BY <1>3 DEF FindTail
  <2>2. /\ UNCHANGED <<received, handled, residue>> /\ cmd_head = 1 /\ cmd_head' = 0
        /\ t \in Nat
    BY <1>3, <2>1, StrChrFirst DEF FindTail, Searching, FindUnchanged
  <2>3. Behind <=> residue' > 0
    BY <2>2 DEF Behind
  <2>4. CASE t > 0
    <3>1. pc' = "handle"
      BY <2>1, <2>4 DEF Return
    <3> QED
      BY <1>0, <2>2, <2>3, <3>1, HandsOver DEF Feed!Next
  <2>5. CASE ~(t > 0)
    <3>1. pc' = "recv" /\ gDataBuffIndex' = gDataBuffIndex /\ gDataBuffIndex > residue
      BY <1>0, <2>1, <2>2, <2>5 DEF Return, Begun
    <3>2. (IF pc = "handle" \/ cmd_head = 1 THEN residue > 0 ELSE gDataBuffIndex > 0)' = TRUE
      BY <1>0, <2>2, <3>1
    <3>3. UNCHANGED <<received, handled, IF pc = "handle" THEN Handed ELSE <<>>,
                      lapped \/ pc = "undefined">>
      BY <1>0, <2>2, <3>1
    <3>4. CASE residue > 0
      BY <1>0, <2>2, <3>2, <3>3, <3>4 DEF Feed!vars
    <3>5. CASE ~(residue > 0)
      <4>1. 0 \in Cells /\ gDataBuff[0].n \in handled+1..taken
        <5>1. gDataBuffIndex \in 1..BufSize /\ FrameUpTo(taken)
          BY <1>0, <2>2, <3>5 DEF FrameInv
        <5>2. 0 \in Cells /\ gDataBuff[0] # Cleared
          BY <5>1, SizesAssumption DEF Cells, FrameUpTo, Cleared
        <5> QED
          BY <1>0, <5>2 DEF Fresh
      <4>2. received >= handled + 2
        <5>1. taken' = taken + 1 /\ taken' <= received
          <6>1. taken' = taken + 1
            BY <1>0, <2>1, <2>2, <2>5 DEF Take
          <6>2. taken' <= received'
            BY SizesAssumption DEF TypeOK, UnreadIsStream, Unread, Offset, Slots
          <6> QED
            BY <2>2, <6>1, <6>2
        <5>2. gDataBuff[0].n \in Int /\ handled + 1 <= taken
          BY <1>0, <4>1
        <5> QED
          BY <1>0, <5>1, <5>2
      <4>3. DOMAIN (IF pc = "handle" THEN Handed ELSE <<>>) = {}
        BY <1>0
      <4> QED
        BY <1>0, <2>2, <3>2, <3>3, <3>5, <4>2, <4>3 DEF Feed!Next, Feed!Drop, Feed!Idle
    <3> QED
      BY <3>4, <3>5
  <2> QED
    BY <2>4, <2>5
<1>4. CASE FindUndefined
  BY <1>4 DEF FindUndefined
<1> QED
  BY <1>1, <1>2, <1>3, <1>4 DEF FindCmd

\* Handling a frame finishes the sentence.
LEMMA HandleFeeds ==
  ASSUME TypeOK, UnreadIsStream, Fresh, FrameInv, Begun, Handle, ~lapped
  PROVE  Feed!Finish
<1>1. /\ gDataBuffIndex \in Nat /\ residue \in Nat /\ received \in Nat /\ handled \in Nat
      /\ taken \in Nat /\ taken <= received /\ BufSize \in Nat /\ BufSize >= 1
  BY SizesAssumption DEF TypeOK, UnreadIsStream, Unread, Offset, Slots
<1>2. /\ pc = "handle" /\ pc' = "recv" /\ cmd_head = 0 /\ cmd_head' = 0
      /\ gDataBuffIndex' = 0 /\ handled' = taken /\ received' = received /\ lapped' = lapped
      /\ gDataBuffIndex > residue /\ gDataBuffIndex <= BufSize
  BY DEF Handle, FrameInv, Begun, ring
<1>3. /\ (IF pc = "handle" THEN Handed ELSE <<>>) = Handed
      /\ (IF pc = "handle" THEN Handed ELSE <<>>)' = <<>>
      /\ (IF pc = "handle" \/ cmd_head = 1 THEN residue > 0 ELSE gDataBuffIndex > 0)' = FALSE
      /\ (IF pc = "handle" \/ cmd_head = 1 THEN residue > 0 ELSE gDataBuffIndex > 0)
         = (residue > 0)
      /\ UNCHANGED <<received, lapped \/ pc = "undefined">>
  BY <1>2
<1>4. /\ DOMAIN Handed = 1..gDataBuffIndex
      /\ \A i \in 1..gDataBuffIndex : i - 1 \in Cells /\ Handed[i] = gDataBuff[i-1]
  <2>1. DOMAIN Handed = {i \in 1..BufSize : i <= gDataBuffIndex}
    BY DEF Handed
  <2>2. {i \in 1..BufSize : i <= gDataBuffIndex} = 1..gDataBuffIndex
    BY <1>1, <1>2
  <2>3. ASSUME NEW i \in 1..gDataBuffIndex
        PROVE  i - 1 \in Cells /\ Handed[i] = gDataBuff[i-1]
    BY <1>1, <1>2, <2>1, <2>2 DEF Handed, Cells
  <2> QED
    BY <2>1, <2>2, <2>3
<1>5. /\ handled <= taken
      /\ \A c \in Cells : gDataBuff[c] = Cleared \/ gDataBuff[c].n \in handled+1..taken
  BY <1>2 DEF Fresh
<1>6. \A i \in 1..gDataBuffIndex : Handed[i].n <= taken
  BY <1>1, <1>4, <1>5 DEF Cleared
<1>7. ASSUME ~(residue > 0)
      PROVE  \E i \in 1..gDataBuffIndex : taken = Handed[i].n + 1
  <2>1. gDataBuffIndex \in 1..BufSize /\ FrameUpTo(taken - 1)
    BY <1>1, <1>2, <1>7 DEF FrameInv
  <2> DEFINE last == gDataBuffIndex - 1
  <2>2. /\ last \in 0..gDataBuffIndex-1 /\ 0 \in Cells /\ gDataBuffIndex \in 1..gDataBuffIndex
    BY <1>1, <2>1 DEF Cells
  <2>3. gDataBuff[0].n \in Nat
    BY <2>2 DEF TypeOK, Byte
  <2>4. gDataBuff[last].n = gDataBuff[0].n + last
    BY <2>1, <2>2 DEF FrameUpTo
  <2>5. gDataBuff[0].n + gDataBuffIndex = (taken - 1) + 1
    BY <2>1 DEF FrameUpTo
  <2>6. taken = gDataBuff[last].n + 1
    BY <1>1, <2>3, <2>4, <2>5
  <2> QED
    BY <1>4, <2>2, <2>6
<1>8. ~Feed!Idle
  <2>1. 1 \in DOMAIN Handed
    BY <1>1, <1>2, <1>4
  <2> QED
    BY <1>2, <2>1 DEF Feed!Idle
<1>9. handled' \in handled..received
  BY <1>1, <1>2, <1>5
<1>10. \A i \in DOMAIN (IF pc = "handle" THEN Handed ELSE <<>>) :
         (IF pc = "handle" THEN Handed ELSE <<>>)[i].n <= handled'
  BY <1>2, <1>4, <1>6
<1>11. ~(IF pc = "handle" \/ cmd_head = 1 THEN residue > 0 ELSE gDataBuffIndex > 0) =>
         \E i \in DOMAIN (IF pc = "handle" THEN Handed ELSE <<>>) :
           handled' = (IF pc = "handle" THEN Handed ELSE <<>>)[i].n + 1
  BY <1>2, <1>4, <1>7
<1> QED
  BY <1>3, <1>8, <1>9, <1>10, <1>11 DEF Feed!Finish, Feed!None

\* The task implements the feed of sentences: each is handed over exactly, in
\* order and once, and one that FindCmd drops garbles the next and no other.
THEOREM ImplementsFeed == Spec => FeedsSentences
<1>1. Init => Feed!Init
  BY DEF Init, Feed!Init, Feed!None
<1>2. /\ TypeOK /\ UnreadIsStream /\ Fresh /\ FrameInv /\ Begun
      /\ TypeOK' /\ UnreadIsStream' /\ Fresh' /\ FrameInv' /\ Begun'
      /\ [Next]_vars
      => [Feed!Next]_Feed!vars
  <2> SUFFICES ASSUME TypeOK, UnreadIsStream, Fresh, FrameInv, Begun,
                      TypeOK', UnreadIsStream', Fresh', FrameInv', Begun',
                      [Next]_vars
               PROVE  [Feed!Next]_Feed!vars
    OBVIOUS
  <2>1. CASE UNCHANGED vars
    BY <2>1 DEF vars, ring, frame, Feed!vars, Handed
  <2>2. CASE lapped' \/ pc' = "undefined"
    BY <2>2 DEF Feed!Next, Feed!Break
  <2>3. CASE Next /\ ~lapped' /\ pc' # "undefined"
    <3>1. CASE Recv
      <4>1. /\ pc = "recv" /\ pc' = "find"
            /\ UNCHANGED <<cmd_head, gDataBuffIndex, residue, handled>>
            /\ ~lapped /\ received' \in Nat /\ received' > received
        <5>1. PICK len \in 1..BufSize : \E data \in UartRecv(len) : Push(data, len)
          BY <3>1 DEF Recv
        <5> QED
          BY <2>3, <3>1, <5>1, SizesAssumption DEF Recv, Push, frame, TypeOK
      <4>2. UNCHANGED <<handled, IF pc = "handle" THEN Handed ELSE <<>>,
                        IF pc = "handle" \/ cmd_head = 1 THEN residue > 0
                                                        ELSE gDataBuffIndex > 0,
                        lapped \/ pc = "undefined">>
        BY <2>3, <4>1
      <4> QED
        BY <4>1, <4>2 DEF Feed!Next, Feed!Arrive
    <3>2. CASE FindCmd
      <4>1. ~lapped
        BY <2>3, <3>2 DEF FindCmd, FindEmpty, FindNoHead, FindWhole, FindHead, FindTail,
           FindMiddle, FindUndefined, FindUnchanged
      <4> QED
        BY <2>3, <3>2, <4>1, FindCmdFeeds
    <3>3. CASE Handle
      <4>1. ~lapped
        BY <2>3, <3>3 DEF Handle
      <4> QED
        BY <3>3, <4>1, HandleFeeds DEF Feed!Next
    <3>4. CASE HandleUndefined
      BY <2>3, <3>4 DEF HandleUndefined
    <3> QED
      BY <2>3, <3>1, <3>2, <3>3, <3>4 DEF Next
  <2> QED
    BY <2>1, <2>2, <2>3
<1> QED
  BY <1>1, <1>2, TypeCorrect, RingKeepsStream, AlwaysFresh, AlwaysFrame, AlwaysBegun, PTL
  DEF Spec, FeedsSentences, Feed!Spec
=============================================================================
