-------------------------- MODULE CorkedConnProofs --------------------------
(***************************************************************************)
(* Proofs about CorkedConn for every buffer size, every length of write    *)
(* and every set of bytes.                                                 *)
(***************************************************************************)
EXTENDS CorkedConn, SequenceTheorems, TLAPS

-----------------------------------------------------------------------------
(* Sequences: cutting, rejoining, prefixes.                                *)

(* The first n elements and the rest of a sequence make up the sequence.   *)
LEMMA SplitSeq ==
  ASSUME NEW S, NEW s \in Seq(S), NEW n \in 0 .. Len(s)
  PROVE  /\ First(s, n) \in Seq(S) /\ Len(First(s, n)) = n
         /\ Rest(s, n) \in Seq(S) /\ Len(Rest(s, n)) = Len(s) - n
         /\ First(s, n) \o Rest(s, n) = s
<1>1. Len(s) \in Nat /\ \A i \in 1 .. Len(s) : s[i] \in S
  BY LenProperties, ElementOfSeq
<1>2. /\ First(s, n) \in Seq(S)
      /\ Len(First(s, n)) = n
  <2>1. /\ SubSeq(s, 1, n) \in Seq(S)
        /\ Len(SubSeq(s, 1, n)) = IF 1 <= n THEN n - 1 + 1 ELSE 0
    BY <1>1, SubSeqProperties
  <2>2. QED
    BY <2>1, <1>1 DEF First
<1>3. /\ Rest(s, n) \in Seq(S)
      /\ Len(Rest(s, n)) = Len(s) - n
  <2>1. /\ SubSeq(s, n + 1, Len(s)) \in Seq(S)
        /\ Len(SubSeq(s, n + 1, Len(s)))
             = IF n + 1 <= Len(s) THEN Len(s) - (n + 1) + 1 ELSE 0
    BY <1>1, SubSeqProperties
  <2>2. QED
    BY <2>1, <1>1 DEF Rest
<1>4. SubSeq(s, 1, n) \o SubSeq(s, n + 1, Len(s)) = SubSeq(s, 1, Len(s))
  <2>1. 1 \in 1 .. Len(s) + 1 /\ n \in 1 - 1 .. Len(s) /\ Len(s) \in n .. Len(s)
    BY <1>1
  <2>2. QED
    BY <2>1, ConcatAdjacentSubSeq, Zenon
<1>5. SubSeq(s, 1, Len(s)) = s
  BY SubSeqFull
<1>6. QED
  BY <1>2, <1>3, <1>4, <1>5 DEF First, Rest

(* The left part of a concatenation is a prefix of it.                     *)
LEMMA PrefixOfConcat ==
  ASSUME NEW S, NEW s \in Seq(S), NEW t \in Seq(S)
  PROVE  /\ Len(s) <= Len(s \o t)
         /\ s = SubSeq(s \o t, 1, Len(s))
<1>1. /\ s \o t \in Seq(S)
      /\ Len(s \o t) = Len(s) + Len(t)
      /\ \A i \in 1 .. Len(s) + Len(t) :
           (s \o t)[i] = IF i <= Len(s) THEN s[i] ELSE t[i - Len(s)]
  BY ConcatProperties
<1>2. Len(s) \in Nat /\ Len(t) \in Nat
  BY LenProperties
<1>3. \A i \in 1 .. Len(s) : (s \o t)[i] \in S
  BY <1>1, <1>2, ElementOfSeq
<1>4. /\ SubSeq(s \o t, 1, Len(s)) \in Seq(S)
      /\ Len(SubSeq(s \o t, 1, Len(s))) = Len(s)
      /\ \A i \in 1 .. Len(s) : SubSeq(s \o t, 1, Len(s))[i] = (s \o t)[i]
  <2>1. /\ SubSeq(s \o t, 1, Len(s)) \in Seq(S)
        /\ Len(SubSeq(s \o t, 1, Len(s))) = IF 1 <= Len(s) THEN Len(s) - 1 + 1 ELSE 0
        /\ \A i \in 1 .. Len(s) - 1 + 1 : SubSeq(s \o t, 1, Len(s))[i] = (s \o t)[1 + i - 1]
    BY <1>2, <1>3, SubSeqProperties
  <2>2. QED
    BY <2>1, <1>2
<1>5. \A i \in 1 .. Len(s) : s[i] = SubSeq(s \o t, 1, Len(s))[i]
  BY <1>1, <1>2, <1>4
<1>6. s = SubSeq(s \o t, 1, Len(s))
  BY <1>4, <1>5, SeqEqual
<1>7. QED
  BY <1>1, <1>2, <1>6

(* Concatenation is associative; the form the proofs below rewrite with.   *)
LEMMA Regroup ==
  ASSUME NEW S, NEW s \in Seq(S), NEW t \in Seq(S), NEW u \in Seq(S)
  PROVE  (s \o t) \o u = s \o (t \o u)
BY ConcatAssociative

(***************************************************************************)
(* The same with concatenation and Seq under names of their own, so that   *)
(* the provers reason with these two laws alone.                           *)
(***************************************************************************)
Cat(s, t) == s \o t
Str(S) == Seq(S)

(* Concatenation is closed and associative.                                *)
LEMMA CatLaws ==
  ASSUME NEW S
  PROVE  /\ \A s, t \in Str(S) : Cat(s, t) \in Str(S)
         /\ \A s, t, u \in Str(S) : Cat(Cat(s, t), u) = Cat(s, Cat(t, u))
BY ConcatAssociative, ConcatProperties DEF Cat, Str

(* Four parts regrouped around the two in the middle.                      *)
LEMMA Regroup4 ==
  ASSUME NEW S
  PROVE  \A s, t, u, v \in Str(S) :
           Cat(Cat(s, t), Cat(u, v)) = Cat(Cat(s, Cat(t, u)), v)
BY CatLaws

(* The leftmost of three parts is a prefix of the whole.                   *)
LEMMA PrefixOfConcat3 ==
  ASSUME NEW S, NEW s \in Seq(S), NEW t \in Seq(S), NEW u \in Seq(S)
  PROVE  /\ Len(s) <= Len((s \o t) \o u)
         /\ s = SubSeq((s \o t) \o u, 1, Len(s))
<1>1. t \o u \in Seq(S)
  BY ConcatProperties
<1>2. (s \o t) \o u = s \o (t \o u)
  BY Regroup
<1>3. QED
  BY <1>1, <1>2, PrefixOfConcat

-----------------------------------------------------------------------------
(***************************************************************************)
(* The inductive invariant.  NothingLost alone is not inductive: that a    *)
(* direct write does not overtake the buffer follows from NothingStranded, *)
(* and that from the mutex and from the order in which the callback sets   *)
(* corked, flushes and unlocks.                                            *)
(***************************************************************************)
MutexInv ==
  /\ lock = "writer" <=> pc \in {"buffered", "direct"}
  /\ lock = "timer" <=> timer = "flush"

CorkInv ==
  /\ corked <=> timer \in {"off", "armed", "fired"}
  /\ pc = "buffered" => corked
  /\ pc = "direct" => timer = "done" /\ ~err

(* between calls nothing of the argument is left over *)
IdleInv == pc = "idle" => p = << >>

Inv ==
  /\ TypeOK
  /\ MutexInv /\ CorkInv /\ IdleInv
  /\ NothingLost /\ NothingStranded

(* What is on the wire is a prefix of what was sent.                       *)
WireIsPrefix ==
  /\ Len(wire) <= Len(sent)
  /\ wire = SubSeq(sent, 1, Len(wire))

(* A write to the raw connection, by whoever, appends to the wire a prefix *)
(* of what it is given, and nothing once the connection has failed.        *)
LEMMA ConnWriteEffect ==
  ASSUME TypeOK, NEW q \in Seq(Bytes), NEW n \in 0 .. Len(q), NEW ok \in BOOLEAN,
         ConnWrite(q, n, ok)
  PROVE  /\ wire' \in Seq(Bytes)
         /\ wire' \o Rest(q, n) = wire \o q
         /\ Rest(q, n) \in Seq(Bytes)
         /\ Len(Rest(q, n)) = Len(q) - n
         /\ conn' \in {"up", "broken", "closed"}
         /\ ok => conn = "up" /\ conn' = "up" /\ Rest(q, n) = << >>
         /\ ~ok => conn' # "up"
         /\ conn # "up" => wire' = wire /\ conn' # "up"
<1>1. /\ First(q, n) \in Seq(Bytes) /\ Len(First(q, n)) = n
      /\ Rest(q, n) \in Seq(Bytes) /\ Len(Rest(q, n)) = Len(q) - n
      /\ First(q, n) \o Rest(q, n) = q
  BY SplitSeq
<1>2. wire' = wire \o First(q, n) /\ wire \in Seq(Bytes)
  BY DEF ConnWrite, TypeOK
<1>3. wire' \in Seq(Bytes)
  BY <1>1, <1>2, ConcatProperties
<1>4. wire' \o Rest(q, n) = wire \o q
  <2>1. (wire \o First(q, n)) \o Rest(q, n) = wire \o (First(q, n) \o Rest(q, n))
    <3>1. wire \in Seq(Bytes) /\ First(q, n) \in Seq(Bytes) /\ Rest(q, n) \in Seq(Bytes)
      BY <1>1, <1>2
    <3>2. QED
      BY ONLY <3>1, Regroup, SMTT(20)
  <2>2. QED
    BY <2>1, <1>1, <1>2
<1>5. Len(q) \in Nat
  BY LenProperties
<1>6. ASSUME ok PROVE conn = "up" /\ conn' = "up" /\ Rest(q, n) = << >>
  <2>1. conn = "up" /\ conn' = "up" /\ n = Len(q)
    BY <1>6 DEF ConnWrite
  <2>2. Len(Rest(q, n)) = 0
    BY <2>1, <1>1, <1>5
  <2>3. QED
    BY <2>1, <2>2, <1>1, EmptySeq
<1>7. ~ok => conn' # "up"
  BY DEF ConnWrite
<1>8. ASSUME conn # "up" PROVE wire' = wire /\ conn' # "up"
  <2>1. n = 0 /\ conn' = conn
    BY <1>8 DEF ConnWrite
  <2>2. First(q, n) = << >>
    BY <2>1, <1>1, EmptySeq
  <2>3. QED
    BY <1>8, <2>1, <2>2, <1>2, ConcatEmptySeq
<1>9. conn' \in {"up", "broken", "closed"}
  BY DEF ConnWrite, TypeOK
<1>10. QED
  BY <1>1, <1>3, <1>4, <1>6, <1>7, <1>8, <1>9

-----------------------------------------------------------------------------
(* One lemma per action that moves bytes.                                  *)

(* Calling Write takes the next bytes over; Inv is kept.                   *)
LEMMA CallStep ==
  ASSUME Inv, NEW n \in 1 .. MaxWrite, NEW q \in [1 .. n -> Bytes], Call(q)
  PROVE  Inv'
<1>1. q \in Seq(Bytes)
  BY SizeAssumption, IsASeq
<1>2. /\ wire \in Seq(Bytes) /\ buf \in Seq(Bytes) /\ sent \in Seq(Bytes)
      /\ sent' = sent \o q /\ p' = q /\ wire' = wire /\ buf' = buf /\ conn' = conn
  BY DEF Inv, TypeOK, Call
<1>3. sent' \in Seq(Bytes)
  BY <1>1, <1>2, ConcatProperties
<1>4. TypeOK'
  BY <1>1, <1>2, <1>3 DEF Inv, TypeOK, Call, wvars
<1>5. p = << >>
  BY DEF Inv, IdleInv, Call
<1>6. NothingLost'
  <2>1. wire \o buf \in Seq(Bytes)
    BY <1>2, ConcatProperties
  <2>2. (wire \o buf) \o << >> = sent
    BY <1>5 DEF Inv, NothingLost
  <2>3. wire \o buf = sent
    BY <2>1, <2>2, ConcatEmptySeq
  <2>4. QED
    BY <1>2, <2>3 DEF NothingLost
<1>7. MutexInv' /\ CorkInv' /\ IdleInv' /\ NothingStranded'
  BY DEF Inv, MutexInv, CorkInv, IdleInv, NothingStranded, Call, wvars
<1>8. QED
  BY <1>4, <1>6, <1>7 DEF Inv

(* The branch of bufw.Write that bypasses the empty buffer keeps Inv.      *)
LEMMA LargeWriteStep == Inv /\ LargeWrite => Inv'
<1>. SUFFICES ASSUME Inv, LargeWrite PROVE Inv'
  OBVIOUS
<1>1. PICK n \in 0 .. Len(p), ok \in BOOLEAN :
        ConnWrite(p, n, ok) /\ p' = Rest(p, n) /\ berr' = ~ok
  BY DEF LargeWrite
<1>2. /\ wire \in Seq(Bytes) /\ p \in Seq(Bytes) /\ buf = << >> /\ TypeOK
      /\ buf' = buf /\ sent' = sent
  BY DEF Inv, TypeOK, LargeWrite
<1>3. /\ wire' \in Seq(Bytes) /\ p' \in Seq(Bytes)
      /\ wire' \o p' = wire \o p
      /\ conn' \in {"up", "broken", "closed"}
      /\ ok => conn = "up" /\ conn' = "up" /\ p' = << >>
      /\ ~ok => conn' # "up"
      /\ conn # "up" => wire' = wire /\ conn' # "up"
  BY <1>1, <1>2, ConnWriteEffect
<1>4. TypeOK'
  BY <1>1, <1>2, <1>3 DEF Inv, TypeOK, LargeWrite, wvars
<1>5. NothingLost'
  <2>1. wire \o << >> = wire /\ wire' \o << >> = wire'
    BY <1>2, <1>3, ConcatEmptySeq
  <2>2. wire \o p = sent
    BY <1>2, <2>1 DEF Inv, NothingLost
  <2>3. QED
    BY <1>2, <1>3, <2>1, <2>2 DEF NothingLost
<1>6. MutexInv' /\ CorkInv' /\ IdleInv' /\ NothingStranded'
  BY <1>1, <1>3 DEF Inv, MutexInv, CorkInv, IdleInv, NothingStranded,
                    LargeWrite, wvars
<1>7. QED
  BY <1>4, <1>5, <1>6 DEF Inv

(* The branch that fills the buffer and flushes it keeps Inv.              *)
LEMMA FillAndFlushStep == Inv /\ FillAndFlush => Inv'
<1>. SUFFICES ASSUME Inv, FillAndFlush PROVE Inv'
  OBVIOUS
<1>. DEFINE a == Available
            full == buf \o First(p, a)
<1>1. PICK n \in 0 .. Len(full), ok \in BOOLEAN :
        ConnWrite(full, n, ok) /\ buf' = Rest(full, n) /\ berr' = ~ok
  BY DEF FillAndFlush
<1>2. /\ wire \in Seq(Bytes) /\ buf \in Seq(Bytes) /\ p \in Seq(Bytes) /\ TypeOK
      /\ Len(buf) <= BufSize /\ Len(p) > a /\ p' = Rest(p, a) /\ sent' = sent
  BY DEF Inv, TypeOK, FillAndFlush
<1>3. a \in 0 .. Len(p) /\ Len(buf) + a = BufSize
  BY <1>2, LenProperties, SizeAssumption DEF Available
<1>4. /\ First(p, a) \in Seq(Bytes) /\ Len(First(p, a)) = a
      /\ p' \in Seq(Bytes) /\ First(p, a) \o p' = p
  BY <1>2, <1>3, SplitSeq
<1>5. full \in Seq(Bytes) /\ Len(full) = BufSize
  BY <1>2, <1>3, <1>4, ConcatProperties
<1>6. /\ wire' \in Seq(Bytes) /\ buf' \in Seq(Bytes)
      /\ Len(buf') = Len(full) - n
      /\ wire' \o buf' = wire \o full
      /\ conn' \in {"up", "broken", "closed"}
      /\ ok => conn = "up" /\ conn' = "up"
      /\ ~ok => conn' # "up"
      /\ conn # "up" => wire' = wire /\ conn' # "up"
  BY <1>1, <1>2, <1>5, ConnWriteEffect
<1>7. TypeOK'
  <2>1. Len(buf') <= BufSize
    BY <1>5, <1>6, SizeAssumption
  <2>2. QED
    BY <1>1, <1>4, <1>6, <2>1 DEF Inv, TypeOK, FillAndFlush, wvars
<1>8. NothingLost'
  <2>1. (wire \o buf) \o p = sent
    BY DEF Inv, NothingLost
  <2>2. (wire \o buf) \o (First(p, a) \o p') = (wire \o (buf \o First(p, a))) \o p'
    <3>1. /\ wire \in Str(Bytes) /\ buf \in Str(Bytes)
          /\ First(p, a) \in Str(Bytes) /\ p' \in Str(Bytes)
      BY <1>2, <1>4 DEF Str
    <3>2. Cat(Cat(wire, buf), Cat(First(p, a), p')) = Cat(Cat(wire, Cat(buf, First(p, a))), p')
      BY ONLY <3>1, Regroup4
    <3>3. QED
      BY <3>2 DEF Cat
  <2>3. QED
    BY <1>2, <1>4, <1>6, <2>1, <2>2 DEF NothingLost
<1>9. MutexInv' /\ CorkInv' /\ IdleInv' /\ NothingStranded'
  BY <1>1, <1>6 DEF Inv, MutexInv, CorkInv, IdleInv, NothingStranded,
                    FillAndFlush, wvars
<1>10. QED
  BY <1>7, <1>8, <1>9 DEF Inv

(* Storing the rest of the argument in the buffer keeps Inv.               *)
LEMMA StoreStep == Inv /\ Store => Inv'
<1>. SUFFICES ASSUME Inv, Store PROVE Inv'
  OBVIOUS
<1>1. /\ wire \in Seq(Bytes) /\ buf \in Seq(Bytes) /\ p \in Seq(Bytes) /\ TypeOK
      /\ Len(buf) <= BufSize /\ Len(p) <= BufSize - Len(buf)
      /\ buf' = buf \o p /\ p' = << >> /\ wire' = wire /\ sent' = sent /\ conn' = conn
  BY DEF Inv, TypeOK, Store, Stored, Fits, Available
<1>2. buf' \in Seq(Bytes) /\ Len(buf') <= BufSize
  <2>1. buf \o p \in Seq(Bytes) /\ Len(buf \o p) = Len(buf) + Len(p)
    BY <1>1, ConcatProperties
  <2>2. QED
    BY <1>1, <2>1, LenProperties, SizeAssumption
<1>3. TypeOK'
  BY <1>1, <1>2 DEF Inv, TypeOK, Store, Stored, Fits, Return, wvars
<1>4. NothingLost'
  <2>1. (wire \o buf) \o p = sent
    BY DEF Inv, NothingLost
  <2>2. (wire \o buf) \o p = wire \o (buf \o p)
    <3>1. wire \in Seq(Bytes) /\ buf \in Seq(Bytes) /\ p \in Seq(Bytes)
      BY <1>1
    <3>2. QED
      BY ONLY <3>1, Regroup
  <2>3. wire \o buf' \in Seq(Bytes)
    BY <1>1, <1>2, ConcatProperties
  <2>4. (wire \o buf') \o << >> = wire \o buf'
    BY <2>3, ConcatEmptySeq
  <2>5. QED
    BY <1>1, <2>1, <2>2, <2>4 DEF NothingLost
<1>5. MutexInv' /\ CorkInv' /\ IdleInv' /\ NothingStranded'
  BY <1>1 DEF Inv, MutexInv, CorkInv, IdleInv, NothingStranded,
              Store, Return, wvars
<1>6. QED
  BY <1>3, <1>4, <1>5 DEF Inv

(* A write after uncorking finds the buffer empty and keeps Inv.           *)
LEMMA DirectWriteStep == Inv /\ DirectWrite => Inv'
<1>. SUFFICES ASSUME Inv, DirectWrite PROVE Inv'
  OBVIOUS
<1>1. PICK n \in 0 .. Len(p), ok \in BOOLEAN :
        /\ ConnWrite(p, n, ok) /\ p' = Rest(p, n)
        /\ Return(IF ok THEN "idle" ELSE "failed")
  BY DEF DirectWrite
<1>2. /\ wire \in Seq(Bytes) /\ p \in Seq(Bytes) /\ TypeOK
      /\ buf' = buf /\ sent' = sent
  BY DEF Inv, TypeOK, DirectWrite
<1>. buf = << >>
  BY DEF Inv, CorkInv, NothingStranded, DirectWrite
<1>3. /\ wire' \in Seq(Bytes) /\ p' \in Seq(Bytes)
      /\ wire' \o p' = wire \o p
      /\ conn' \in {"up", "broken", "closed"}
      /\ ok => conn = "up" /\ conn' = "up" /\ p' = << >>
      /\ ~ok => conn' # "up"
      /\ conn # "up" => wire' = wire /\ conn' # "up"
  BY <1>1, <1>2, ConnWriteEffect
<1>4. TypeOK'
  BY <1>1, <1>2, <1>3 DEF Inv, TypeOK, DirectWrite, Return, wvars
<1>5. NothingLost'
  <2>1. wire \o << >> = wire /\ wire' \o << >> = wire'
    BY <1>2, <1>3, ConcatEmptySeq
  <2>2. wire \o p = sent
    BY <1>2, <2>1 DEF Inv, NothingLost
  <2>3. QED
    BY <1>2, <1>3, <2>1, <2>2 DEF NothingLost
<1>6. MutexInv' /\ CorkInv' /\ IdleInv' /\ NothingStranded'
  BY <1>1, <1>3 DEF Inv, MutexInv, CorkInv, IdleInv, NothingStranded,
                    DirectWrite, Return, wvars
<1>7. QED
  BY <1>4, <1>5, <1>6 DEF Inv

(* The callback's flush, complete, partial or failing, keeps Inv.          *)
LEMMA FlushStep == Inv /\ Flush => Inv'
<1>. SUFFICES ASSUME Inv, Flush PROVE Inv'
  OBVIOUS
<1>1. /\ wire \in Seq(Bytes) /\ buf \in Seq(Bytes) /\ p \in Seq(Bytes) /\ TypeOK
      /\ p' = p /\ sent' = sent
  BY DEF Inv, TypeOK, Flush, Result
<1>2. CASE berr \/ buf = << >>
  <2>1. /\ err' = berr /\ buf' = buf /\ berr' = berr /\ conn' = conn /\ wire' = wire
    BY <1>2 DEF Flush, Result
  <2>2. TypeOK'
    BY <2>1 DEF Inv, TypeOK, Flush, Result
  <2>3. NothingLost'
    BY <1>1, <2>1 DEF Inv, NothingLost
  <2>4. MutexInv' /\ CorkInv' /\ IdleInv' /\ NothingStranded'
    BY <1>2, <2>1 DEF Inv, MutexInv, CorkInv, IdleInv, NothingStranded,
                      Flush
  <2>5. QED
    BY <2>2, <2>3, <2>4 DEF Inv
<1>3. CASE ~berr /\ buf # << >>
  <2>1. PICK n \in 0 .. Len(buf), ok \in BOOLEAN :
          /\ ConnWrite(buf, n, ok) /\ buf' = Rest(buf, n)
          /\ berr' = ~ok /\ err' = ~ok
    BY <1>3 DEF Flush, Result
  <2>2. /\ wire' \in Seq(Bytes) /\ buf' \in Seq(Bytes)
        /\ Len(buf') = Len(buf) - n
        /\ wire' \o buf' = wire \o buf
        /\ conn' \in {"up", "broken", "closed"}
        /\ ok => conn = "up" /\ conn' = "up" /\ buf' = << >>
        /\ ~ok => conn' # "up"
        /\ conn # "up" => wire' = wire /\ conn' # "up"
    BY <1>1, <2>1, ConnWriteEffect
  <2>3. Len(buf') <= BufSize
    BY <1>1, <2>1, <2>2, LenProperties, SizeAssumption DEF TypeOK
  <2>4. TypeOK'
    BY <2>1, <2>2, <2>3 DEF Inv, TypeOK, Flush, Result
  <2>5. NothingLost'
    BY <1>1, <2>2 DEF Inv, NothingLost
  <2>6. MutexInv' /\ CorkInv' /\ IdleInv' /\ NothingStranded'
    BY <2>1, <2>2 DEF Inv, MutexInv, CorkInv, IdleInv, NothingStranded,
                      Flush
  <2>7. QED
    BY <2>4, <2>5, <2>6 DEF Inv
<1>4. QED
  BY <1>2, <1>3

(***************************************************************************)
(* Inv is an invariant of CorkedConn: the actions that move bytes by the   *)
(* lemmas above, the others because they leave all bytes where they are.   *)
(***************************************************************************)
THEOREM Invariance == Spec => []Inv
<1>1. Init => Inv
  <2>. SUFFICES ASSUME Init PROVE Inv
    OBVIOUS
  <2>2. << >> \in Seq(Bytes) /\ Len(<< >>) = 0
    BY EmptySeq
  <2>3. (<< >> \o << >>) \o << >> = << >>
    BY <2>2, ConcatEmptySeq
  <2>4. TypeOK
    <3>1. Len(<< >>) <= BufSize
      BY <2>2, SizeAssumption
    <3>2. QED
      BY <2>2, <3>1, Zenon DEF Init, TypeOK
  <2>5. NothingLost /\ NothingStranded
    BY <2>2, <2>3 DEF Init, NothingLost, NothingStranded
  <2>6. MutexInv /\ CorkInv /\ IdleInv
    BY DEF Init, MutexInv, CorkInv, IdleInv
  <2>7. QED
    BY <2>4, <2>5, <2>6 DEF Inv
<1>2. Inv /\ [Next]_vars => Inv'
  <2>. SUFFICES ASSUME Inv, [Next]_vars PROVE Inv'
    OBVIOUS
  <2>. USE DEF Inv, TypeOK, MutexInv, CorkInv, IdleInv,
               NothingLost, NothingStranded
  <2>1. ASSUME NEW n \in 1 .. MaxWrite, NEW q \in [1 .. n -> Bytes], Call(q)
        PROVE Inv'
    BY <2>1, CallStep DEF Inv
  <2>2. CASE Lock
    BY <2>2 DEF Lock, Once
  <2>3. CASE LargeWrite
    BY <2>3, LargeWriteStep
  <2>4. CASE FillAndFlush
    BY <2>4, FillAndFlushStep
  <2>5. CASE Store
    BY <2>5, StoreStep
  <2>6. CASE BufferedFail
    BY <2>6 DEF BufferedFail, Return, wvars
  <2>7. CASE DirectWrite
    BY <2>7, DirectWriteStep
  <2>8. CASE Fire
    BY <2>8 DEF Fire
  <2>9. CASE Uncork
    BY <2>9 DEF Uncork, HeldBy
  <2>10. CASE Flush
    BY <2>10, FlushStep
  <2>11. CASE Break
    BY <2>11 DEF Break, wvars
  <2>12. CASE Close
    BY <2>12 DEF Close, wvars
  <2>13. CASE UNCHANGED vars
    BY <2>13 DEF vars, wvars
  <2>14. QED
    BY <2>1, <2>2, <2>3, <2>4, <2>5, <2>6, <2>7, <2>8, <2>9, <2>10, <2>11, <2>12, <2>13
    DEF Next, Write, Timer
<1>3. QED
  BY <1>1, <1>2, PTL DEF Spec

(* Every variable of corkedConn keeps its type, and the bufio.Writer never *)
(* holds more than BufSize bytes.                                          *)
THEOREM TypeCorrect == Spec => []TypeOK
<1>1. Inv => TypeOK
  BY DEF Inv
<1>2. QED
  BY <1>1, Invariance, PTL

(***************************************************************************)
(* For every buffer size, every interleaving of Write with the flush       *)
(* callback and every failure of the network, no byte is lost, repeated or *)
(* overtaken.                                                              *)
(***************************************************************************)
THEOREM KeepsAllBytes == Spec => []NothingLost
<1>1. Inv => NothingLost
  BY DEF Inv
<1>2. QED
  BY <1>1, Invariance, PTL

(* None is stranded either: once the callback has uncorked the connection, *)
(* bytes stay in the buffer only when w.err is set.                        *)
THEOREM NoneStranded == Spec => []NothingStranded
<1>1. Inv => NothingStranded
  BY DEF Inv
<1>2. QED
  BY <1>1, Invariance, PTL

-----------------------------------------------------------------------------
(* Refinement of the byte pipe.                                            *)

(* What is on the wire is a prefix of what was sent.                       *)
LEMMA WirePrefix == Inv => WireIsPrefix
<1>. SUFFICES ASSUME Inv PROVE WireIsPrefix
  OBVIOUS
<1>1. wire \in Seq(Bytes) /\ buf \in Seq(Bytes) /\ p \in Seq(Bytes) /\ sent = (wire \o buf) \o p
  BY DEF Inv, TypeOK, NothingLost
<1>2. Len(wire) <= Len(sent) /\ wire = SubSeq(sent, 1, Len(wire))
  BY <1>1, PrefixOfConcat3, Zenon
<1>3. QED
  BY <1>2 DEF WireIsPrefix

(* A write to the raw connection makes the wire no shorter.                *)
LEMMA WireGrows ==
  ASSUME TypeOK, NEW q \in Seq(Bytes), NEW n \in 0 .. Len(q), NEW ok \in BOOLEAN,
         ConnWrite(q, n, ok)
  PROVE  Len(wire) <= Len(wire')
<1>1. First(q, n) \in Seq(Bytes) /\ wire \in Seq(Bytes) /\ wire' = wire \o First(q, n)
  BY SplitSeq DEF TypeOK, ConnWrite
<1>2. QED
  BY <1>1, PrefixOfConcat

(***************************************************************************)
(* An action that leaves sent alone and lets the wire grow, if at all,     *)
(* only while the connection is up, is a step of the byte pipe.            *)
(***************************************************************************)
LEMMA PipeStep ==
  ASSUME Inv, Inv', sent' = sent, Len(wire) <= Len(wire'),
         conn # "up" => wire' = wire /\ conn' # "up"
  PROVE  [Pipe!Next]_(Pipe!vars)
<1>1. CASE conn = "up"
  <2>1. /\ Len(wire') \in Len(wire) .. Len(sent)
        /\ wire' = SubSeq(sent, 1, Len(wire'))
    <3>1. /\ Len(wire) \in Nat /\ Len(wire') \in Nat /\ Len(sent) \in Nat
          /\ Len(wire') <= Len(sent)
          /\ wire' = SubSeq(sent, 1, Len(wire'))
      <4>1. WireIsPrefix'
        BY WirePrefix, PTL
      <4>2. QED
        BY <4>1, LenProperties DEF Inv, TypeOK, WireIsPrefix
    <3>2. QED
      BY <3>1
  <2>2. Pipe!Deliver
    BY <1>1, <2>1, Zenon DEF Pipe!Deliver
  <2>3. QED
    BY <2>2 DEF Pipe!Next
<1>2. CASE conn # "up"
  BY <1>2 DEF Pipe!vars
<1>3. QED
  BY <1>1, <1>2

(***************************************************************************)
(* corkedConn implements a byte pipe: every step of Write, of the callback *)
(* or of the network hands bytes over, delivers the next ones in order, or *)
(* changes nothing a user of the pipe can see.                             *)
(***************************************************************************)
THEOREM Refinement == Spec => ImplementsBytePipe
<1>1. Init => Pipe!Init
  BY DEF Init, Pipe!Init
<1>2. Inv /\ Inv' /\ [Next]_vars => [Pipe!Next]_(Pipe!vars)
  <2>. SUFFICES ASSUME Inv, Inv', [Next]_vars PROVE [Pipe!Next]_(Pipe!vars)
    OBVIOUS
  <2>0. TypeOK /\ Len(wire) \in Nat /\ wire \in Seq(Bytes) /\ sent \in Seq(Bytes)
    BY LenProperties DEF Inv, TypeOK
  <2>1. ASSUME NEW n \in 1 .. MaxWrite, NEW q \in [1 .. n -> Bytes], Call(q)
        PROVE  [Pipe!Next]_(Pipe!vars)
    <3>1. q \in Seq(Bytes)
      BY <2>1, SizeAssumption, IsASeq
    <3>2. /\ Len(sent) <= Len(sent \o q)
          /\ SubSeq(sent \o q, 1, Len(sent)) = sent
      BY <3>1, <2>0, PrefixOfConcat
    <3>3. Pipe!Handover
      BY <2>1, <3>2 DEF Pipe!Handover, Call, Inv, TypeOK
    <3>4. QED
      BY <3>3 DEF Pipe!Next
  <2>2. ASSUME Lock \/ Store \/ BufferedFail \/ Fire \/ Uncork
        PROVE  [Pipe!Next]_(Pipe!vars)
    BY <2>2 DEF Lock, Once, Store, Stored, Fits, BufferedFail, Fire, Uncork, HeldBy, Pipe!vars
  <2>3. ASSUME Break \/ Close
        PROVE  [Pipe!Next]_(Pipe!vars)
    <3>1. /\ sent' = sent /\ wire' = wire /\ Len(wire) <= Len(wire')
          /\ conn # "up" => conn' # "up"
      BY <2>0, <2>3 DEF Break, Close
    <3>2. QED
      BY <3>1, PipeStep
  <2>4. ASSUME NEW x \in Seq(Bytes), NEW n \in 0 .. Len(x), NEW ok \in BOOLEAN,
               ConnWrite(x, n, ok), sent' = sent
        PROVE  [Pipe!Next]_(Pipe!vars)
    <3>1. Len(wire) <= Len(wire')
      BY <2>0, <2>4, WireGrows
    <3>2. conn # "up" => wire' = wire /\ conn' # "up"
      BY <2>0, <2>4, ConnWriteEffect
    <3>3. QED
      BY <2>4, <3>1, <3>2, PipeStep
  <2>5. CASE LargeWrite
    <3>1. \E n \in 0 .. Len(p), ok \in BOOLEAN : ConnWrite(p, n, ok)
      BY <2>5 DEF LargeWrite
    <3>2. p \in Seq(Bytes) /\ sent' = sent
      BY <2>5 DEF LargeWrite, Inv, TypeOK
    <3>3. QED
      BY <3>1, <3>2, <2>4
  <2>6. CASE FillAndFlush
    <3>1. PICK n \in 0 .. Len(buf \o First(p, Available)), ok \in BOOLEAN :
            ConnWrite(buf \o First(p, Available), n, ok)
      BY <2>6 DEF FillAndFlush
    <3>2. /\ p \in Seq(Bytes) /\ buf \in Seq(Bytes) /\ sent' = sent
          /\ Len(p) > Available /\ Len(buf) <= BufSize
      BY <2>6 DEF FillAndFlush, Inv, TypeOK
    <3>3. Available \in 0 .. Len(p)
      BY <3>2, LenProperties, SizeAssumption DEF Available
    <3>4. buf \o First(p, Available) \in Seq(Bytes)
      BY <3>2, <3>3, SplitSeq, ConcatProperties
    <3>5. QED
      BY <3>1, <3>2, <3>4, <2>4
  <2>7. CASE DirectWrite
    <3>1. \E n \in 0 .. Len(p), ok \in BOOLEAN : ConnWrite(p, n, ok)
      BY <2>7 DEF DirectWrite
    <3>2. p \in Seq(Bytes) /\ sent' = sent
      BY <2>7 DEF DirectWrite, Inv, TypeOK
    <3>3. QED
      BY <3>1, <3>2, <2>4
  <2>8. CASE Flush
    <3>1. buf \in Seq(Bytes) /\ sent' = sent
      BY <2>8 DEF Flush, Result, Inv, TypeOK
    <3>2. \/ UNCHANGED <<wire, conn>>
          \/ \E n \in 0 .. Len(buf), ok \in BOOLEAN : ConnWrite(buf, n, ok)
      BY <2>8 DEF Flush, Result
    <3>3. QED
      BY <3>1, <3>2, <2>4 DEF Pipe!vars
  <2>9. CASE UNCHANGED vars
    BY <2>9 DEF vars, Pipe!vars
  <2>10. QED
    BY <2>1, <2>2, <2>3, <2>5, <2>6, <2>7, <2>8, <2>9 DEF Next, Write, Timer
<1>3. QED
  BY <1>1, <1>2, Invariance, PTL DEF Spec, ImplementsBytePipe, Pipe!Spec
=============================================================================
