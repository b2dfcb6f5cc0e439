----------------------------- MODULE BufReader -----------------------------
(***************************************************************************)
(* Reader of m_bufio/bufio.go: a buffer behind an io.Reader, with reads of *)
(* bytes, runes and lines, one byte or rune of unreading, an error that is *)
(* kept for the next call, and a count of the bytes read.  A call takes    *)
(* one step for each fill() and one to return.                             *)
(*                                                                         *)
(* The io.Reader underneath gives some of its bytes or an error, or both;  *)
(* an error other than EOF may pass.  Runes have one or two bytes.         *)
(***************************************************************************)
EXTENDS Integers, Cuts, SequencesExt

CONSTANTS
  Size,      \* len(b.buf)
  Sources,   \* what the readers underneath have to give
  Lengths,   \* arguments of Read and Peek
  MaxTotal   \* bound on TotalRead when a call is made

Octet == 0 .. 255

ASSUME ReaderAssumption ==
  /\ Size \in Nat \ {0, 1}
  /\ Lengths \subseteq Nat /\ MaxTotal \in Nat
  /\ Sources \subseteq Seq(Octet)

VARIABLES
  source,       \* all that b.rd has to give
  taken,        \* how many bytes of it b.rd has given
  direct,       \* b.rd is an io.WriterTo
  buf,          \* b.buf[0:b.w]
  r,            \* b.r
  err,          \* b.err: "nil", "eof" or "err"
  lastByte,     \* b.lastByte
  lastRuneSize, \* b.lastRuneSize
  TotalRead,    \* b.TotalRead
  pc,           \* the call in progress, or "idle"
  arg,          \* len(p) of Read, n of Peek
  look,         \* ReadSlice: what was buffered before its last fill(), or -1
  mark,         \* history: how many bytes were given when the call was made
  res,          \* error of the last call: "nil", "eof", "err", "full" or "invalid"
  lastOp,       \* history: the last call that read anything
  given,        \* history: the bytes read and not unread
  stale         \* history: an unread went wrong, and the client stops until a Reset

still == <<source, direct, stale>>
last == <<lastByte, lastRuneSize>>
readerVars == <<source, taken, direct, buf, r, err, lastByte, lastRuneSize, TotalRead,
                pc, arg, look, mark, res, lastOp, given, stale>>

NL == 10
CR == 13
Lead == 194      \* first byte of a rune of two
Cont == 128      \* its second byte

Pending == Drop(buf, r)               \* b.buf[b.r:b.w]
Remaining == Drop(source, taken)

Slices == {"ReadSlice", "ReadLine", "ReadBytes"}

(* NewReaderSize *)
ReaderInit ==
  /\ source \in Sources /\ direct \in BOOLEAN /\ taken = 0
  /\ buf = << >> /\ r = 0 /\ err = "nil"
  /\ lastByte = -1 /\ lastRuneSize = -1 /\ TotalRead = 0
  /\ pc = "idle" /\ arg = 0 /\ look = -1 /\ mark = 0
  /\ res = "nil" /\ lastOp = "none" /\ given = << >> /\ stale = FALSE

Reset ==
  /\ pc = "idle"
  /\ source' \in Sources /\ direct' \in BOOLEAN /\ taken' = 0
  /\ buf' = << >> /\ r' = 0 /\ err' = "nil"
  /\ lastByte' = -1 /\ lastRuneSize' = -1 /\ TotalRead' = 0
  /\ res' = "nil" /\ lastOp' = "none" /\ given' = << >> /\ stale' = FALSE
  /\ UNCHANGED <<pc, arg, look, mark>>

-----------------------------------------------------------------------------
(* Calling, filling and returning                                          *)

Call(op, n) ==
  /\ pc = "idle" /\ ~stale /\ TotalRead <= MaxTotal
  /\ pc' = op /\ arg' = n /\ look' = -1 /\ mark' = Len(given) /\ res' = "nil"
  /\ lastRuneSize' = IF op = "ReadByte" THEN -1 ELSE lastRuneSize
  /\ UNCHANGED <<still, taken, buf, r, err, lastByte, TotalRead, lastOp, given>>

(* b.rd.Read gives n bytes and the error e to a slice of the length room *)
Gives(n, e, room) ==
  /\ n <= room /\ n <= Len(Remaining)
  /\ e = "eof" => n = Len(Remaining)
  /\ n = 0 /\ e = "nil" => room = 0
  /\ taken' = taken + n

(* fault: the room that what is buffered takes up is forgotten *)
RoomWhole == Size

Room == Size - Len(Pending)

(* fill: what is buffered slides to the start, new data comes after it *)
FillWith(n, e) ==
  /\ Gives(n, e, Room)
  /\ buf' = Pending \o Take(Remaining, n) /\ r' = 0
  /\ err' = IF e = "nil" THEN err ELSE e

HasLine == Contains(Pending, NL)
FullRune == Pending # << >> /\ (Head(Pending) = Lead => Len(Pending) > 1)

(* the call in progress fills the buffer before it goes on *)
Wants ==
  /\ err = "nil"
  /\ \/ pc = "Read" /\ arg \in 1 .. Size - 1 /\ Pending = << >>
     \/ pc = "ReadByte" /\ Pending = << >>
     \/ pc = "ReadRune" /\ ~FullRune
     \/ pc = "Peek" /\ arg <= Size /\ Len(Pending) < arg
     \/ pc \in Slices /\ ~HasLine /\ (look >= 0 => Len(Pending) < Size)

Fill(n, e) ==
  /\ Wants
  /\ FillWith(n, e)
  /\ look' = IF pc \in Slices THEN Len(Pending) ELSE look
  /\ UNCHANGED <<still, last, TotalRead, pc, arg, mark, res, lastOp, given>>

Done(e) == pc' = "idle" /\ arg' = 0 /\ look' = -1 /\ mark' = 0 /\ res' = e

(* n bytes of the buffer are handed out, and m are counted *)
Consume(n, m) ==
  /\ r' = r + n
  /\ given' = given \o Take(Pending, n)
  /\ TotalRead' = TotalRead + m
  /\ lastOp' = IF n > 0 THEN pc ELSE lastOp
  /\ UNCHANGED <<still, taken, buf>>

(* no data, and readErr() *)
FailWith(e) ==
  /\ Done(e) /\ err' = "nil"
  /\ UNCHANGED <<still, taken, buf, r, lastByte, TotalRead, lastOp, given>>

-----------------------------------------------------------------------------
(* Read, ReadByte, ReadRune and Peek                                       *)

(* fault: an error that was kept goes before the data *)
ExhaustedOnError == err # "nil"

Exhausted == Pending = << >> /\ err # "nil"

(* len(p) = 0, or an empty buffer and an error that was kept *)
ReadFails ==
  /\ pc = "Read" /\ (arg = 0 \/ Exhausted)
  /\ FailWith(err) /\ UNCHANGED lastRuneSize

(* fault: a read past the buffer leaves lastByte as it was *)
LastOfKept(n) == lastByte

LastOf(n) == Remaining[n]

(* a large read with an empty buffer goes to b.rd *)
ReadDirect(n, e) ==
  /\ pc = "Read" /\ arg >= Size /\ Pending = << >> /\ err = "nil"
  /\ Gives(n, e, arg)
  /\ given' = given \o Take(Remaining, n)
  /\ TotalRead' = TotalRead + n
  /\ IF n > 0 THEN lastByte' = LastOf(n) /\ lastRuneSize' = -1 /\ lastOp' = "Read"
              ELSE UNCHANGED <<last, lastOp>>
  /\ Done(e)
  /\ UNCHANGED <<still, buf, r, err>>

(* n bytes are handed out, the last of them can be unread *)
ReadReturn(n, runeSize) ==
  /\ Consume(n, n) /\ Done("nil")
  /\ lastByte' = Pending[n] /\ lastRuneSize' = runeSize
  /\ UNCHANGED err

Read ==
  /\ pc = "Read" /\ arg > 0 /\ Pending # << >>
  /\ ReadReturn(IF arg > Len(Pending) THEN Len(Pending) ELSE arg, -1)

ReadByte ==
  /\ pc = "ReadByte"
  /\ \/ Pending # << >> /\ ReadReturn(1, -1)
     \/ Pending = << >> /\ err # "nil" /\ FailWith(err) /\ UNCHANGED lastRuneSize

(* utf8.DecodeRune: an encoding that is invalid or cut off has size 1 *)
RuneSize == IF Len(Pending) > 1 /\ Pending[1] = Lead /\ Pending[2] = Cont THEN 2 ELSE 1

ReadRune ==
  /\ pc = "ReadRune" /\ (FullRune \/ err # "nil")
  /\ \/ Pending # << >> /\ ReadReturn(RuneSize, RuneSize)
     \/ Pending = << >> /\ FailWith(err) /\ lastRuneSize' = -1

Peek ==
  /\ pc = "Peek"
  /\ \/ /\ (arg > Size \/ Len(Pending) >= arg)
        /\ Done(IF arg > Size THEN "full" ELSE "nil") /\ UNCHANGED err
     \/ /\ arg <= Size /\ Len(Pending) < arg /\ err # "nil"
        /\ Done(err) /\ err' = "nil"
  /\ UNCHANGED <<still, taken, buf, r, last, TotalRead, lastOp, given>>

-----------------------------------------------------------------------------
(* UnreadByte and UnreadRune                                               *)

Invalid == res' = "invalid" /\ UNCHANGED <<buf, r, lastByte, TotalRead, lastOp, given, stale>>

Uncount(n) == IF TotalRead >= n THEN TotalRead - n ELSE TotalRead

(* the last n bytes handed out are to be read again *)
TakeBack(n) ==
  /\ TotalRead' = Uncount(n)
  /\ given' = Take(given, Len(given) - n)
  /\ lastByte' = -1 /\ res' = "nil" /\ UNCHANGED lastOp

(* what is before b.r is not what was handed out last; that the n bytes are
   the right ones by chance is no excuse *)
Misplaced(n) == r < n \/ Take(buf, r) # Drop(given, Len(given) - r)

(* with an empty buffer lastByte is put back, whatever was read after it *)
UnreadByte ==
  /\ pc = "idle" /\ ~stale
  /\ lastRuneSize' = -1
  /\ LET again == Pending = << >> /\ lastByte >= 0
     IN  \/ /\ again /\ buf' = <<lastByte>> /\ r' = 0
            /\ TakeBack(1) /\ stale' = (lastByte # Last(given))
         \/ ~again /\ r > 0 /\ r' = r - 1 /\ TakeBack(1) /\ stale' = Misplaced(1) /\ UNCHANGED buf
         \/ ~again /\ r <= 0 /\ Invalid
  /\ UNCHANGED <<source, direct, taken, err, pc, arg, look, mark>>

(* after a fill() r can become negative, and the next read panics *)
UnreadRune ==
  /\ pc = "idle" /\ ~stale
  /\ \/ (lastRuneSize < 0 \/ r = 0) /\ Invalid /\ UNCHANGED lastRuneSize
     \/ /\ lastRuneSize > 0 /\ r > 0
        /\ r' = r - lastRuneSize /\ stale' = Misplaced(lastRuneSize)
        /\ TakeBack(lastRuneSize) /\ lastRuneSize' = -1
        /\ UNCHANGED buf
  /\ UNCHANGED <<source, direct, taken, err, pc, arg, look, mark>>

-----------------------------------------------------------------------------
(* ReadSlice('\n'), and ReadLine, ReadBytes and ReadString, which call it.  *)
(* None of them sets lastByte or lastRuneSize.                             *)

(* only what came with the last fill() is counted *)
SliceFound ==
  /\ pc \in Slices /\ HasLine
  /\ LET n == SelectInSeq(Pending, LAMBDA b : b = NL)
     IN  Consume(n, IF look > 0 THEN n - look ELSE n)
  /\ Done("nil")
  /\ UNCHANGED <<err, last>>

(* ErrBufferFull.  ReadLine returns a prefix, without a '\r' at its end, which
   stays counted; ReadBytes calls ReadSlice again *)
SliceFull ==
  /\ pc \in Slices /\ ~HasLine /\ look >= 0 /\ Len(Pending) = Size
  /\ LET n == IF pc = "ReadLine" /\ Last(Pending) = CR THEN Size - 1 ELSE Size
     IN  Consume(n, Size)
  /\ \/ pc = "ReadBytes" /\ look' = -1 /\ UNCHANGED <<pc, arg, mark, res>>
     \/ pc = "ReadLine" /\ Done("prefix")
     \/ pc = "ReadSlice" /\ Done("full")
  /\ UNCHANGED <<err, last>>

(* an error: all that is buffered.  ReadLine drops the error if there is any *)
SliceError ==
  /\ pc \in Slices /\ ~HasLine /\ err # "nil" /\ (look >= 0 => Len(Pending) < Size)
  /\ Consume(Len(Pending), Len(Pending))
  /\ Done(IF pc = "ReadLine" /\ Pending # << >> THEN "nil" ELSE err)
  /\ err' = "nil" /\ UNCHANGED last

-----------------------------------------------------------------------------
(* WriteTo: the buffer, then all that b.rd gives.  lastByte stays.         *)

(* writeBuf; the io.Writer takes all, or fails *)
WriteBuf(n, ok) ==
  /\ pc = "WriteTo" /\ n <= Len(Pending) /\ (ok => n = Len(Pending))
  /\ Consume(n, n)
  /\ \/ ok /\ pc' = "Drain" /\ UNCHANGED <<arg, look, mark, res>>
     \/ ~ok /\ Done("err")
  /\ UNCHANGED <<err, last>>

(* b.rd is an io.WriterTo and does the rest *)
DrainDirect(n, ok) ==
  /\ pc = "Drain" /\ direct
  /\ n <= Len(Remaining) /\ (ok => n = Len(Remaining))
  /\ taken' = taken + n
  /\ given' = given \o Take(Remaining, n)
  /\ TotalRead' = TotalRead + n
  /\ lastOp' = IF n > 0 THEN "WriteTo" ELSE lastOp
  /\ Done(IF ok THEN "nil" ELSE "err")
  /\ UNCHANGED <<still, buf, r, err, last>>

(* or the buffer is filled again; the end of the data is no error *)
Drain(n, e) ==
  /\ pc = "Drain" /\ ~direct
  /\ Gives(n, e, Size)
  /\ buf' = Take(Remaining, n) /\ r' = 0
  /\ \/ /\ n > 0 /\ pc' = "WriteTo"
        /\ err' = (IF e = "nil" THEN err ELSE e)
        /\ UNCHANGED <<arg, look, mark, res>>
     \/ n = 0 /\ Done(IF e = "eof" THEN "nil" ELSE e) /\ err' = "nil"
  /\ UNCHANGED <<still, last, TotalRead, lastOp, given>>

-----------------------------------------------------------------------------
Counts == 0 .. Len(Remaining)

Turn ==
  \/ ReadFails \/ Read \/ ReadByte \/ ReadRune \/ Peek
  \/ SliceFound \/ SliceFull \/ SliceError
  \/ \E n \in Counts, e \in {"nil", "eof", "err"} :
       Fill(n, e) \/ ReadDirect(n, e) \/ Drain(n, e)
  \/ \E ok \in BOOLEAN :
       \/ \E n \in 0 .. Size : WriteBuf(n, ok)
       \/ \E n \in Counts : DrainDirect(n, ok)

ReaderNext ==
  \/ Turn \/ Reset \/ UnreadByte \/ UnreadRune
  \/ \E n \in Lengths : Call("Read", n) \/ Call("Peek", n)
  \/ \E op \in {"ReadByte", "ReadRune", "WriteTo"} \cup Slices : Call(op, 0)

ReaderSpec == ReaderInit /\ [][ReaderNext]_readerVars

-----------------------------------------------------------------------------
ReaderTypeOK ==
  /\ source \in Sources /\ direct \in BOOLEAN /\ taken \in 0 .. Len(source)
  /\ Len(buf) <= Size /\ r \in -1 .. Len(buf)
  /\ err \in {"nil", "eof", "err"}
  /\ lastByte \in -1 .. 255 /\ lastRuneSize \in {-1, 1, 2}
  /\ TotalRead \in Nat /\ look \in -1 .. Size
  /\ res \in {"nil", "eof", "err", "full", "prefix", "invalid"}

(***************************************************************************)
(* Whatever is read, peeked at, unread and read again, in whatever pieces  *)
(* the data comes: the bytes handed out and then those buffered are the    *)
(* bytes that b.rd gave, in order, none twice and none left out.  The only *)
(* unread that goes wrong is one after ReadSlice, a call that uses it, or  *)
(* WriteTo, which leave lastByte and lastRuneSize as they were.            *)
(***************************************************************************)
InOrder ==
  IF stale THEN lastOp \in Slices \cup {"WriteTo", "Drain"}
  ELSE given \o Pending = Take(source, taken)

(***************************************************************************)
(* Errors mean what they say, although fill() keeps them for a later call  *)
(* and the buffer may fill up on the way.  ReadSlice and "ReadBytes return *)
(* err != nil if and only if the returned data does not end in delim", and *)
(* there is no delim before that; a read that says EOF has left nothing    *)
(* behind, in the buffer or in b.rd, and so has a WriteTo that returns nil.*)
(***************************************************************************)
ResultsTrue ==
  [][(pc # "idle" /\ pc' = "idle") =>
       /\ pc \in {"ReadSlice", "ReadBytes"} =>
            LET line == Drop(given', mark)
            IN  /\ (res' = "nil") <=> (line # << >> /\ Last(line) = NL)
                /\ ~Contains(Take(line, Len(line) - 1), NL)
       /\ (pc # "Peek" /\ res' = "eof") => (given' = source \/ (pc = "Read" /\ arg = 0))
       /\ (pc = "Drain" /\ res' = "nil") => given' = source]_readerVars
=============================================================================
