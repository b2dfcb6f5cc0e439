----------------------------- MODULE BufWriter -----------------------------
(***************************************************************************)
(* Writer of m_bufio/bufio.go: a buffer in front of an io.Writer, with an  *)
(* error that sticks and a count of the bytes written.  A call that loops  *)
(* (Write, WriteString, ReadFrom) takes one step per turn of its loop.     *)
(*                                                                         *)
(* The io.Writer underneath takes all or a part of what it is given; it    *)
(* may fail once and work again later.  The source of a ReadFrom gives its *)
(* data in pieces of any size, an empty one without an error included.     *)
(***************************************************************************)
EXTENDS Cuts

CONSTANTS
  Bytes,   \* the values a byte can take
  Sizes,   \* the buffer sizes NewWriterSize is called with
  UTFMax,  \* most bytes of an encoded rune (utf8.UTFMax)
  MaxArg,  \* longest argument of one call
  MaxGiven \* bound on the bytes accepted between two Resets

ASSUME WriterAssumption ==
  /\ Bytes # {}
  /\ Sizes \subseteq Nat \ {0}
  /\ UTFMax \in Nat \ {0} /\ MaxArg \in Nat \ {0} /\ MaxGiven \in Nat

VARIABLES
  size,       \* len(b.buf)
  buf,        \* b.buf[0:b.n]
  err,        \* b.err # nil
  direct,     \* b.wr is an io.ReaderFrom
  TotalWrite, \* b.TotalWrite
  pc,         \* the call in progress: "idle", "Write", "WriteString" or "ReadFrom"
  arg,        \* its argument, or all that its source will give
  nn,         \* bytes of it placed so far
  res,        \* what the last call returned: "nil" or "err"
  out,        \* bytes the io.Writer underneath has taken
  given       \* history: bytes that calls have reported as written

state == <<size, direct>>
vars == <<size, buf, err, direct, TotalWrite, pc, arg, nn, res, out, given>>

(* NewWriterSize *)
Init ==
  /\ size \in Sizes /\ direct \in BOOLEAN
  /\ buf = << >> /\ err = FALSE /\ TotalWrite = 0
  /\ pc = "idle" /\ arg = << >> /\ nn = 0 /\ res = "nil"
  /\ out = << >> /\ given = << >>

Available == size - Len(buf)
Left == Drop(arg, nn)  \* what the call has still to place

(* a call ends: it reports n bytes of q, and r *)
Report(q, n, r) ==
  /\ given' = given \o Take(q, n)
  /\ res' = r
  /\ pc' = "idle" /\ arg' = << >> /\ nn' = 0

Fits(q) == pc = "idle" /\ Len(given) + Len(q) <= MaxGiven

-----------------------------------------------------------------------------
(* fault: a short write that reports no error is taken for a whole one *)
FlushShort(q, rest, ok) ==
  /\ ok
  /\ \E n \in 0 .. Len(q) : out' = out \o Take(q, n)
  /\ buf' = rest

(* flush() with q in the buffer, which then holds what is left of q and rest;
   a short write becomes an error *)
FlushOf(q, rest, ok) ==
  \/ /\ ok
     /\ out' = out \o q /\ buf' = rest
  \/ /\ ~ok /\ q # << >>
     /\ \E n \in 0 .. Len(q) : out' = out \o Take(q, n) /\ buf' = Drop(q, n)

(* fault: a failed flush is tried again *)
FailedForgotten == FALSE

Failed == err

Flush ==
  /\ pc = "idle"
  /\ \/ Failed /\ Report(<< >>, 0, "err") /\ UNCHANGED <<buf, err, out>>
     \/ /\ ~Failed
        /\ \E ok \in BOOLEAN :
             /\ FlushOf(buf, << >>, ok)
             /\ err' = ~ok
             /\ Report(<< >>, 0, IF ok THEN "nil" ELSE "err")
  /\ UNCHANGED <<state, TotalWrite>>

(* Reset: the buffered data and the error are dropped, b writes to another
   io.Writer *)
Reset ==
  /\ pc = "idle"
  /\ direct' \in BOOLEAN
  /\ err' = FALSE /\ buf' = << >> /\ TotalWrite' = 0
  /\ out' = << >> /\ given' = << >> /\ res' = "nil"
  /\ UNCHANGED <<size, pc, arg, nn>>

-----------------------------------------------------------------------------
(* Write and WriteString                                                   *)

Call(op, q) ==
  /\ Fits(q)
  /\ pc' = op /\ arg' = q /\ nn' = 0
  /\ UNCHANGED <<state, buf, err, TotalWrite, res, out, given>>

(* Write with an empty buffer: the argument goes to the io.Writer as it is *)
WriteLarge ==
  /\ pc = "Write" /\ ~err /\ Len(Left) > Available /\ buf = << >>
  /\ \E ok \in BOOLEAN : \E n \in 0 .. Len(Left) :
       /\ ok => n > 0
       /\ out' = out \o Take(Left, n)
       /\ nn' = nn + n
       /\ err' = ~ok
  /\ UNCHANGED <<state, buf, TotalWrite, pc, arg, res, given>>

(* otherwise the buffer is filled up and flushed *)
WriteFill ==
  /\ pc \in {"Write", "WriteString"} /\ ~err /\ Len(Left) > Available
  /\ pc = "Write" => buf # << >>
  /\ \E ok \in BOOLEAN :
       /\ FlushOf(buf \o Take(Left, Available), << >>, ok)
       /\ err' = ~ok
  /\ nn' = nn + Available
  /\ UNCHANGED <<state, TotalWrite, pc, arg, res, given>>

WriteReturn ==
  /\ pc \in {"Write", "WriteString"}
  /\ \/ /\ err
        /\ TotalWrite' = TotalWrite + nn
        /\ Report(arg, nn, "err")
        /\ UNCHANGED buf
     \/ /\ ~err /\ Len(Left) <= Available
        /\ buf' = buf \o Left
        /\ TotalWrite' = TotalWrite + Len(arg)
        /\ Report(arg, Len(arg), "nil")
  /\ UNCHANGED <<state, err, out>>

-----------------------------------------------------------------------------
(* q is stored, after a flush where there is less room than needed; an error,
   old or new, is returned and nothing is stored *)
StoreWhole(q, room) ==
  /\ \/ /\ err
        /\ Report(q, 0, "err")
        /\ UNCHANGED <<buf, err, out, TotalWrite>>
     \/ /\ ~err /\ Available >= room
        /\ buf' = buf \o q
        /\ TotalWrite' = TotalWrite + Len(q)
        /\ Report(q, Len(q), "nil")
        /\ UNCHANGED <<err, out>>
     \/ /\ ~err /\ Available < room
        /\ \E ok \in BOOLEAN :
             /\ FlushOf(buf, q, ok)
             /\ err' = ~ok
             /\ TotalWrite' = IF ok THEN TotalWrite + Len(q) ELSE TotalWrite
             /\ Report(q, IF ok THEN Len(q) ELSE 0, IF ok THEN "nil" ELSE "err")
  /\ UNCHANGED state

WriteByte(c) == Fits(<<c>>) /\ StoreWhole(<<c>>, 1)

(* a rune of one byte is a byte; a longer one wants UTFMax bytes of room *)
WriteRune(q) ==
  /\ Fits(q) /\ Len(q) \in 2 .. UTFMax
  /\ err \/ size >= UTFMax
  /\ StoreWhole(q, UTFMax)

(* the buffer is smaller than that: flush, then WriteString *)
WriteRuneSmall(q) ==
  /\ Fits(q) /\ Len(q) \in 2 .. UTFMax
  /\ ~err /\ size < UTFMax
  /\ \E ok \in BOOLEAN :
       /\ FlushOf(buf, << >>, ok)
       /\ err' = ~ok
       /\ \/ ok /\ pc' = "WriteString" /\ arg' = q /\ nn' = 0 /\ UNCHANGED <<res, given>>
          \/ ~ok /\ Report(q, 0, "err")
  /\ UNCHANGED <<state, TotalWrite>>

-----------------------------------------------------------------------------
(* ReadFrom.  It does not look at b.err.                                   *)

(* nothing is buffered: the io.Writer underneath reads the source itself *)
ReadFromDirect(q) ==
  /\ Fits(q) /\ buf = << >> /\ direct
  /\ \E n \in 0 .. Len(q), r \in {"nil", "err"} :
       /\ r = "nil" => n = Len(q)
       /\ out' = out \o Take(q, n)
       /\ TotalWrite' = TotalWrite + n
       /\ Report(q, n, r)
  /\ UNCHANGED <<state, buf, err>>

ReadFrom(q) == (buf # << >> \/ ~direct) /\ Call("ReadFrom", q)

(* the buffer is full: flush; its error is returned at once, and the bytes
   read so far are not counted *)
FromFlush ==
  /\ pc = "ReadFrom" /\ Available = 0
  /\ \/ err /\ Report(arg, nn, "err") /\ UNCHANGED <<buf, err, out>>
     \/ /\ ~err
        /\ \E ok \in BOOLEAN :
             /\ FlushOf(buf, << >>, ok)
             /\ err' = ~ok
             /\ \/ ok /\ UNCHANGED <<pc, arg, nn, res, given>>
                \/ ~ok /\ Report(arg, nn, "err")
  /\ UNCHANGED <<state, TotalWrite>>

(* fault: the source is not bounded by the room in the buffer *)
RoomIgnored(m) == Available > 0

Room(m) == m <= Available

(* r.Read gives m bytes and no error: on with the loop *)
FromRead(m) ==
  /\ pc = "ReadFrom" /\ Room(m) /\ m > 0 /\ nn + m <= Len(arg)
  /\ buf' = buf \o Take(Left, m)
  /\ nn' = nn + m
  /\ UNCHANGED <<state, err, TotalWrite, pc, arg, res, out, given>>

(* r.Read gives m bytes and EOF (e = "eof") or an error, or nothing at all:
   ReadFrom ends, at EOF with a flush if the buffer is exactly full *)
FromEnd(m, e) ==
  /\ pc = "ReadFrom" /\ Available > 0 /\ m <= Available /\ nn + m <= Len(arg)
  /\ e = "eof" => nn + m = Len(arg)
  /\ e = "nil" => m = 0
  /\ TotalWrite' = TotalWrite + nn + m
  /\ LET full == buf \o Take(Left, m)
         Ends(r) == Report(arg, nn + m, r)
     IN  \/ /\ e = "eof" /\ Len(full) = size /\ ~err
            /\ \E ok \in BOOLEAN :
                 FlushOf(full, << >>, ok) /\ err' = ~ok /\ Ends(IF ok THEN "nil" ELSE "err")
         \/ /\ e = "eof" /\ Len(full) = size /\ err
            /\ buf' = full /\ Ends("err") /\ UNCHANGED <<err, out>>
         \/ /\ e = "eof" /\ Len(full) < size
            /\ buf' = full /\ Ends("nil") /\ UNCHANGED <<err, out>>
         \/ /\ e \in {"err", "nil"}
            /\ buf' = full /\ Ends(e) /\ UNCHANGED <<err, out>>
  /\ UNCHANGED state

-----------------------------------------------------------------------------
Args == UNION {[1 .. n -> Bytes] : n \in 0 .. MaxArg}

Turn ==
  \/ WriteLarge \/ WriteFill \/ WriteReturn
  \/ FromFlush
  \/ \E m \in 0 .. MaxArg :
       FromRead(m) \/ \E e \in {"eof", "err", "nil"} : FromEnd(m, e)

Next ==
  \/ Flush \/ Reset \/ Turn
  \/ \E c \in Bytes : WriteByte(c)
  \/ \E q \in Args :
       \/ Call("Write", q) \/ Call("WriteString", q)
       \/ WriteRune(q) \/ WriteRuneSmall(q)
       \/ ReadFromDirect(q) \/ ReadFrom(q)

Spec == Init /\ [][Next]_vars

-----------------------------------------------------------------------------
TypeOK ==
  /\ size \in Sizes /\ direct \in BOOLEAN
  /\ buf \in Seq(Bytes) /\ Len(buf) <= size
  /\ err \in BOOLEAN /\ TotalWrite \in Nat
  /\ pc \in {"idle", "Write", "WriteString", "ReadFrom"}
  /\ arg \in Seq(Bytes) /\ nn \in 0 .. Len(arg)
  /\ res \in {"nil", "err"}
  /\ out \in Seq(Bytes) /\ given \in Seq(Bytes)

(***************************************************************************)
(* The counts that the calls return are true, whichever of them fail and   *)
(* however far the io.Writer underneath got: the bytes reported as written *)
(* are those it has taken and then those in the buffer, in order, and a    *)
(* call in progress is ahead of them by the bytes it has placed.           *)
(***************************************************************************)
Accounted == out \o buf = given \o Take(arg, nn)

(* nothing is sent or stored, and a call that returns returns the error *)
Refused == out' \o buf' = out \o buf /\ (pc' = "idle" => res' = "err")

(***************************************************************************)
(* A write or a flush that fails is never forgotten: the error stays until *)
(* a Reset, and as long as it is there every call is refused, which is     *)
(* what bufio.go:505 promises of all of them.  The one exception is        *)
(* ReadFrom.  That does not look at the error until it flushes; it sends   *)
(* nothing of its own, though: it leaves its source to the io.Writer       *)
(* underneath, or takes no more than there is room for in the buffer and   *)
(* returns an error if that is filled up.                                  *)
(***************************************************************************)
ErrorSticks ==
  [][err =>
       \/ Reset
       \/ err' /\ Refused
       \/ err' /\ \E q \in Args : ReadFromDirect(q)
       \/ err' /\ pc = "ReadFrom" /\ out' = out
            /\ (pc' = "idle" /\ Len(buf') = size => res' = "err")]_vars
=============================================================================
