------------------------------ MODULE BdFramer ------------------------------
(***************************************************************************)
(* The BeiDou/GPS receiver task of partc/fly_bd.c: one loop that reads     *)
(* chunks from the serial line, pushes them into the ring gUartMsgStruct,  *)
(* calls UartMsgStruct_FindCmd once per chunk and handles the frame that   *)
(* call put in gDataBuff.  A byte is its position n in the stream from the *)
(* receiver and its kind k: the '$' that starts a sentence, the '\n' that  *)
(* ends it, a NUL (at which strchr stops) or anything else.                *)
(***************************************************************************)
EXTENDS Integers

CONSTANTS
  Size,       \* UART_CACHE_SIZE, the ring
  BufSize,    \* UART_BUF_SIZE, both the read chunk and gDataBuff
  Compared,   \* the cells of gDataBuff that are compared with "RMC": 3, 4 and 5
  Signal(_),  \* the kinds the n-th byte on the line may have
  MaxBytes    \* bound: the stream is cut after this many bytes

Kinds == {"head", "tail", "nul", "text"}

ASSUME SizesAssumption ==
  /\ Size \in Nat
  /\ BufSize \in Nat \ {0}
  /\ BufSize <= Size
  /\ MaxBytes \in Nat
ASSUME ComparedAssumption == Compared \subseteq 0..BufSize-1
ASSUME SignalAssumption == \A n \in 1..MaxBytes : Signal(n) \subseteq Kinds

VARIABLES
  pc,              \* where the task's loop is
  pdata,           \* gUartMsgStruct.pdata
  read_pos, write_pos, cmd_head,
  gDataBuff, gDataBuffIndex,
  \* history, read by no action's guard:
  received,        \* bytes pushed so far
  taken,           \* bytes FindCmd has moved read_pos over
  lapped,          \* a push filled the ring to or over unread bytes
  residue,         \* gDataBuffIndex when the current frame's '$' was stored
  handled          \* taken when the last frame was handled

ring == <<pdata, read_pos, write_pos, cmd_head>>
frame == <<gDataBuff, gDataBuffIndex, residue>>
vars == <<pc, ring, frame, received, taken, lapped, handled>>

Slots == 0..Size-1
Cells == 0..BufSize-1
Byte == [n : Nat, k : Kinds]
Cleared == [n |-> 0, k |-> "nul"]    \* no byte of the stream: memset, or never written

\* The slot i places from base, going round the ring.
Offset(base, i) == IF i >= base THEN i - base ELSE i - base + Size
Unread == received - taken

Init ==
  /\ pc = "recv"
  /\ pdata = [i \in Slots |-> Cleared]
  /\ read_pos = 0 /\ write_pos = 0 /\ cmd_head = 0
  /\ gDataBuff = [i \in Cells |-> Cleared] /\ gDataBuffIndex = 0 /\ residue = 0
  /\ received = 0 /\ taken = 0 /\ handled = 0 /\ lapped = FALSE

-----------------------------------------------------------------------------
(* UartMsgStruct_Push and the read that feeds it. *)

\* uart_recv: the next len bytes on the line.
UartRecv(len) ==
  {d \in [1..len -> [n : received+1..received+len, k : Kinds]] :
     \A i \in 1..len : d[i].n = received + i /\ d[i].k \in Signal(received + i)}

\* Mutant: the second memcpy starts at data, not at data+remain.
Filled_FromStart(data, len) ==
  [i \in Slots |->
     IF write_pos + len <= Size
     THEN IF i \in write_pos..write_pos+len-1 THEN data[i - write_pos + 1] ELSE pdata[i]
     ELSE IF i >= write_pos THEN data[i - write_pos + 1]
     ELSE IF i < len - (Size - write_pos) THEN data[i + 1]
     ELSE pdata[i]]

\* The ring after the chunk was copied in, in one piece or in two.
Filled(data, len) ==
  [i \in Slots |->
     IF write_pos + len <= Size
     THEN IF i \in write_pos..write_pos+len-1 THEN data[i - write_pos + 1] ELSE pdata[i]
     ELSE IF i >= write_pos THEN data[i - write_pos + 1]
     ELSE IF i < len - (Size - write_pos) THEN data[Size - write_pos + i + 1]
     ELSE pdata[i]]

\* Mutant: write_pos is left on the end of the ring.
WriteEnd_NoReset(len) ==
  IF write_pos + len <= Size THEN write_pos + len ELSE len - (Size - write_pos)

WriteEnd(len) ==
  IF write_pos + len < Size THEN write_pos + len
  ELSE IF write_pos + len = Size THEN 0
  ELSE len - (Size - write_pos)

Push(data, len) ==
  /\ pdata' = Filled(data, len)
  /\ write_pos' = WriteEnd(len)
  /\ received' = received + len
  /\ lapped' = (lapped \/ Unread + len >= Size)
  /\ UNCHANGED <<read_pos, cmd_head>>

Recv ==
  /\ pc = "recv"
  /\ \E len \in 1..BufSize :
       /\ received + len <= MaxBytes
       /\ \E data \in UartRecv(len) : Push(data, len)
  /\ pc' = "find"
  /\ UNCHANGED <<frame, taken, handled>>

-----------------------------------------------------------------------------
(* UartMsgStruct_FindCmd, one action for each way through it. *)

\* Mutant: bytes before the end of the ring are not seen once Push wrapped.
SpanLen_NoWrap == IF read_pos <= write_pos THEN write_pos - read_pos ELSE 0

\* UartMsgStruct_GetData: the readable bytes up to the end of the ring; 0 too
\* where it returns NULL.
SpanLen ==
  IF read_pos <= write_pos THEN write_pos - read_pos ELSE Size - read_pos

Span(j) == pdata[read_pos + j]

\* strchr on the span: the index of the first c not behind a NUL, if any.
StrChr(c) ==
  {j \in 0..SpanLen-1 :
     Span(j).k = c /\ \A i \in 0..j-1 : Span(i).k \notin {c, "nul"}}

\* memcpy(gDataBuff + dst, pdata + from, n)
Fits(dst, n) == n = 0 \/ (n > 0 /\ dst + n <= BufSize)

\* Mutant: the copy always goes to the start of gDataBuff.
MemCpy_ToStart(dst, from, n) ==
  gDataBuff' = [c \in Cells |-> IF c < n THEN Span(from + c) ELSE gDataBuff[c]]

MemCpy(dst, from, n) ==
  gDataBuff' = [c \in Cells |->
                  IF c \in dst..dst+n-1 THEN Span(from + c - dst) ELSE gDataBuff[c]]

\* Moves read_pos over n bytes; it never passes the end of the ring by more
\* than it can wrap.
Wrapped(p) == IF p >= Size THEN p - Size ELSE p
Take(n) ==
  /\ read_pos' = Wrapped(read_pos + n)
  /\ taken' = taken + n

\* FindCmd's result: bd_start_task handles a frame only when it is positive.
Return(ret) == pc' = IF ret > 0 THEN "handle" ELSE "recv"

Searching(head) == pc = "find" /\ SpanLen > 0 /\ cmd_head = head
FindUnchanged == UNCHANGED <<pdata, write_pos, received, lapped, handled>>

\* Nothing to read.
FindEmpty ==
  /\ pc = "find" /\ SpanLen = 0
  /\ Return(0)
  /\ UNCHANGED <<ring, frame, received, taken, lapped, handled>>

\* No '$' in the span: it is skipped.
FindNoHead ==
  /\ Searching(0) /\ StrChr("head") = {}
  /\ Take(SpanLen) /\ Return(0)
  /\ UNCHANGED <<cmd_head, frame>> /\ FindUnchanged

\* '$' and '\n' in one span.  The '\n' may stand before the '$': the length is
\* then negative, and memcpy's behaviour undefined (FindUndefined).
FindWhole ==
  /\ Searching(0)
  /\ \E h \in StrChr("head"), t \in StrChr("tail") :
       /\ Fits(0, t - h)
       /\ MemCpy(0, h, t - h)
       /\ gDataBuffIndex' = gDataBuffIndex + (t - h)
       /\ Take(t + 1) /\ Return(t - h)
  /\ residue' = gDataBuffIndex
  /\ UNCHANGED cmd_head /\ FindUnchanged

\* '$' but no '\n': the start of a frame.
FindHead ==
  /\ Searching(0) /\ StrChr("tail") = {}
  /\ \E h \in StrChr("head") :
       /\ Fits(0, SpanLen - h)
       /\ MemCpy(0, h, SpanLen - h)
       /\ gDataBuffIndex' = gDataBuffIndex + (SpanLen - h)
  /\ Take(SpanLen) /\ Return(0)
  /\ cmd_head' = 1 /\ residue' = gDataBuffIndex
  /\ FindUnchanged

\* The rest of a frame that began in an earlier span.  With the '\n' first in
\* the span the call returns 0 and the frame is not handled.
FindTail ==
  /\ Searching(1)
  /\ \E t \in StrChr("tail") :
       /\ Fits(gDataBuffIndex, t)
       /\ MemCpy(gDataBuffIndex, 0, t)
       /\ gDataBuffIndex' = gDataBuffIndex + t
       /\ Take(t + 1) /\ Return(t)
  /\ cmd_head' = 0
  /\ UNCHANGED residue /\ FindUnchanged

\* More of such a frame, and still no '\n'.
FindMiddle ==
  /\ Searching(1) /\ StrChr("tail") = {}
  /\ Fits(gDataBuffIndex, SpanLen)
  /\ MemCpy(gDataBuffIndex, 0, SpanLen)
  /\ gDataBuffIndex' = gDataBuffIndex + SpanLen
  /\ Take(SpanLen) /\ Return(0)
  /\ UNCHANGED <<cmd_head, residue>> /\ FindUnchanged

\* A memcpy the code makes with a negative length or past the end of gDataBuff:
\* the model claims nothing of what follows and stops.
FindUndefined ==
  /\ pc = "find" /\ SpanLen > 0
  /\ \/ /\ cmd_head = 0
        /\ \E h \in StrChr("head") :
             \/ \E t \in StrChr("tail") : ~Fits(0, t - h)
             \/ StrChr("tail") = {} /\ ~Fits(0, SpanLen - h)
     \/ /\ cmd_head = 1
        /\ \/ \E t \in StrChr("tail") : ~Fits(gDataBuffIndex, t)
           \/ StrChr("tail") = {} /\ ~Fits(gDataBuffIndex, SpanLen)
  /\ pc' = "undefined"
  /\ UNCHANGED <<ring, frame, received, taken, lapped, handled>>

-----------------------------------------------------------------------------
(* bd_start_task once FindCmd has returned a frame.  An RMC sentence is NUL  *)
(* terminated before it is parsed; every frame is then cleared.              *)

\* What is compared may be "RMC": the letters themselves are left open.
MayBeRmc == \A c \in Compared : gDataBuff[c].k = "text"

Terminate(buff, rmc) ==
  IF rmc THEN [buff EXCEPT ![gDataBuffIndex] = Cleared] ELSE buff

\* Mutant: a memset that is one byte short.
Zeroed_Short(buff) ==
  [c \in Cells |-> IF c < gDataBuffIndex - 1 THEN Cleared ELSE buff[c]]

Zeroed(buff) == [c \in Cells |-> IF c < gDataBuffIndex THEN Cleared ELSE buff[c]]

\* Mutant: the index is not set back, so every later frame is garbled too.
Handle_IndexKept ==
  /\ pc = "handle"
  /\ gDataBuffIndex <= BufSize
  /\ \E rmc \in BOOLEAN :
       /\ rmc => MayBeRmc /\ gDataBuffIndex < BufSize
       /\ gDataBuff' = Zeroed(Terminate(gDataBuff, rmc))
  /\ handled' = taken
  /\ pc' = "recv"
  /\ UNCHANGED <<ring, gDataBuffIndex, residue, received, taken, lapped>>

Handle ==
  /\ pc = "handle"
  /\ gDataBuffIndex <= BufSize
  /\ \E rmc \in BOOLEAN :
       /\ rmc => MayBeRmc /\ gDataBuffIndex < BufSize
       /\ gDataBuff' = Zeroed(Terminate(gDataBuff, rmc))
  /\ gDataBuffIndex' = 0
  /\ handled' = taken
  /\ pc' = "recv"
  /\ UNCHANGED <<ring, residue, received, taken, lapped>>

\* The '\0' or the memset falls outside gDataBuff.
HandleUndefined ==
  /\ pc = "handle"
  /\ gDataBuffIndex > BufSize \/ (gDataBuffIndex = BufSize /\ MayBeRmc)
  /\ pc' = "undefined"
  /\ UNCHANGED <<ring, frame, received, taken, lapped, handled>>

FindCmd ==
  \/ FindEmpty \/ FindNoHead \/ FindWhole \/ FindHead
  \/ FindTail \/ FindMiddle \/ FindUndefined

Next == Recv \/ FindCmd \/ Handle \/ HandleUndefined

Spec == Init /\ [][Next]_vars

-----------------------------------------------------------------------------
(* What the task is there for. *)

\* Every variable has its type; read_pos and write_pos stay inside the ring.
TypeOK ==
  /\ pc \in {"recv", "find", "handle", "undefined"}
  /\ pdata \in [Slots -> Byte]
  /\ read_pos \in Slots /\ write_pos \in Slots /\ cmd_head \in {0, 1}
  /\ gDataBuff \in [Cells -> Byte] /\ gDataBuffIndex \in Nat /\ residue \in Nat
  /\ received \in 0..MaxBytes /\ taken \in Nat /\ handled \in Nat
  /\ lapped \in BOOLEAN

\* As long as no push has lapped the reader, what lies between read_pos and
\* write_pos is the part of the stream FindCmd has not taken, whole and in
\* order, over any number of wraps of Push and of FindCmd.
UnreadIsStream ==
  ~lapped =>
    /\ Unread = Offset(read_pos, write_pos)
    /\ \A i \in Slots :
         Offset(read_pos, i) < Unread => pdata[i].n = taken + 1 + Offset(read_pos, i)

\* gDataBuff holds a frame: it begins with its '$', runs on without a gap up to
\* the byte at position end of the stream, and holds no '\n', unless a NUL hides
\* that one from strchr.
FrameUpTo(end) ==
  /\ gDataBuff[0].k = "head"
  /\ \A c \in 0..gDataBuffIndex-1 : gDataBuff[c].n = gDataBuff[0].n + c
  /\ gDataBuff[0].n + gDataBuffIndex = end + 1
  /\ \A c \in 0..gDataBuffIndex-1 :
       gDataBuff[c].k = "tail" => \E b \in 0..c : gDataBuff[b].k = "nul"

\* What is handed to bd_start_task is a frame, up to the byte before the '\n'
\* FindCmd took last, however the reads and the end of the ring cut it, if
\* gDataBuff was empty when the frame was begun.
FrameExact == pc = "handle" /\ ~lapped /\ residue = 0 => FrameUpTo(taken - 1)

\* What is taken for an RMC sentence before its length is looked at: the bytes
\* compared lie before gDataBuffIndex, so that the checksum's length, 5 less, and
\* its place, 3 less, stay in the frame; they are of no frame handled earlier;
\* and they are this frame's own, unless it was begun behind a dropped one, whose
\* bytes may then stand where it ends.
ComparesOwn ==
  pc = "handle" /\ ~lapped /\ MayBeRmc =>
    \A c \in Compared :
      /\ c < gDataBuffIndex
      /\ gDataBuff[c].n \in handled+1..taken
      /\ residue = 0 => gDataBuff[c].n = gDataBuff[0].n + c

\* A call of FindCmd after a read always moves forward: the ring does not come
\* to a stop with bytes in it, and FindCmd never takes bytes that are not there.
FindMovesOn ==
  pc = "find" /\ pc' \in {"recv", "handle"} /\ ~lapped => taken' \in taken+1..received
FindProgress == [][FindMovesOn]_vars

\* What the loop is for: bd_start_task is fed whole sentences, in order and each
\* once, and a sentence FindCmd dropped (its '\n' came first in a span) costs one
\* other and no more.  A reader that was lapped and an undefined memcpy void it.
Handed == [i \in {i \in 1..BufSize : i <= gDataBuffIndex} |-> gDataBuff[i-1]]
Feed == INSTANCE SentenceFeed WITH
  arrived <- received,
  done <- handled,
  sentence <- IF pc = "handle" THEN Handed ELSE <<>>,
  dropped <- IF pc = "handle" \/ cmd_head = 1 THEN residue > 0 ELSE gDataBuffIndex > 0,
  broken <- lapped \/ pc = "undefined"
FeedsSentences == Feed!Spec

-----------------------------------------------------------------------------
(* What the comments say and the code does not do. *)

\* fly_bd.c:93: FindCmd extracts a command frame, with its '$' and without its
\* '\n'.  Fails behind a dropped frame, whose length stays in gDataBuffIndex.
FrameExtracted == pc = "handle" /\ ~lapped => FrameUpTo(taken - 1)

\* fly_bd.c:118: with a '$' and a '\n' in the span a whole frame was found, so
\* its length is not negative.  Fails when the task starts inside a sentence.
WholeFrameFound ==
  pc = "find" /\ SpanLen > 0 /\ cmd_head = 0 =>
    \A h \in StrChr("head"), t \in StrChr("tail") : h < t
=============================================================================
