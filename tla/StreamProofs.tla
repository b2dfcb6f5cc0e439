---------------------------- MODULE StreamProofs ----------------------------
(***************************************************************************)
(* Proofs about the two readers that hand out pieces of a stream, in order *)
(* and each once: ShadowStream, for all lengths of records, numbers of     *)
(* nonces and sizes of writes and reads, and BufReader, for all sources,   *)
(* buffer sizes and sequences of calls.                                    *)
(***************************************************************************)
EXTENDS ShadowStream, BufReader, SequenceTheorems, WellFoundedInduction, TLAPS

-----------------------------------------------------------------------------
(* d is what lies between the positions a and b of t, a sequence over B.   *)
PieceOf(B, d, t, a, b) ==
  /\ d \in Seq(B) /\ t \in Seq(B) /\ a \in Nat /\ b \in Nat
  /\ a <= b /\ b <= Len(t) /\ Len(d) = b - a
  /\ \A j \in 1 .. b - a : d[j] = t[a + j]

(* The plaintext of ShadowStream.                                          *)
Piece(d, t, a, b) == PieceOf(Bytes, d, t, a, b)

(* How far one end has come: the unit that is next, its nonce, the         *)
(* plaintext so far and, before a payload, its length.                     *)
Marks ==
  [kind : {"salt", "len", "data"}, nonce : Nonces, pos : Nat, size : 0 .. PayloadMask]

(* The unit u, as it was sent, takes an end from the mark a to the mark b. *)
Passes(a, u, b, t) ==
  \/ u.kind = "cut"
  \/ /\ u.kind = "salt" /\ a.kind = "salt"
     /\ b.kind = "len" /\ b.nonce = 0 /\ b.pos = a.pos
  \/ /\ u.kind = "len" /\ a.kind = "len" /\ u.nonce = a.nonce
     /\ b.kind = "data" /\ b.nonce = increment(a.nonce) /\ b.pos = a.pos
     /\ u.data = <<b.size>>
  \/ /\ u.kind = "data" /\ a.kind = "data" /\ u.nonce = a.nonce
     /\ b.kind = "len" /\ b.nonce = increment(a.nonce)
     /\ Len(u.data) = a.size /\ Piece(u.data, t, a.pos, b.pos)

(* The marks at lie around the units s.                                    *)
Chain(s, at, t) ==
  /\ at \in [0 .. Len(s) -> Marks]
  /\ \A i \in 1 .. Len(s) : Passes(at[i - 1], s[i], at[i], t)

ReaderAt(m) ==
  /\ m.kind = rpc /\ m.pos = Len(out) + Len(leftover)
  /\ rpc # "salt" => m.nonce = rnonce
  /\ rpc = "data" => m.size = size /\ leftover = << >>

WriterAt(m) ==
  /\ m.kind = IF winit THEN "len" ELSE "salt"
  /\ winit => m.nonce = wnonce
  /\ Piece(q, sent, m.pos, Len(sent))

(* The units on their way, those in the cork included, lead from where the *)
(* reader is to where the writer is, unless some are lost.                 *)
Linked(at) ==
  /\ Chain(net, at, sent)
  /\ ReaderAt(at[0])
  /\ ~cut => WriterAt(at[Len(net)])

Flow == rend = "none" => \E at : Linked(at)

(* A unit cut in two is the last one, and only damage makes a unit bad.    *)
Sound(s, lost, damage) ==
  \A i \in 1 .. Len(s) :
    (s[i].kind = "cut" => i = Len(s) /\ lost) /\ (~s[i].good => damage)

Inv ==
  /\ TypeOK
  /\ Piece(out, sent, 0, Len(out))
  /\ Piece(leftover, sent, Len(out), Len(out) + Len(leftover))
  /\ Sound(net, cut, garbled)
  /\ Flow
  /\ wpc \in {"idle", "closed"} /\ ~cut => q = << >>
  /\ wpc = "failed" => cut
  /\ cut => held = 0
  /\ rpc # "salt" /\ ~rkey => garbled
  /\ rend = "eof" => wpc = "closed"
  /\ EofMeansAll
  /\ ErrorHasCause

-----------------------------------------------------------------------------
(* Pieces of the plaintext.                                                *)

(* A piece stays one when more is written.                                 *)
LEMMA PieceGrow ==
  ASSUME NEW d, NEW t, NEW a, NEW b, NEW x \in Seq(Bytes), Piece(d, t, a, b)
  PROVE  Piece(d, t \o x, a, b)
<1>1. /\ t \o x \in Seq(Bytes) /\ Len(t \o x) = Len(t) + Len(x)
      /\ \A i \in 1 .. Len(t) + Len(x) : (t \o x)[i] = IF i <= Len(t) THEN t[i] ELSE x[i - Len(t)]
  BY ConcatProperties DEF Piece, PieceOf
<1>2. Len(t) \in Nat /\ Len(x) \in Nat /\ a \in Nat /\ b \in Nat /\ b <= Len(t)
  BY LenProperties DEF Piece, PieceOf
<1>3. ASSUME NEW j \in 1 .. b - a PROVE d[j] = (t \o x)[a + j]
  <2>1. a + j \in 1 .. Len(t) + Len(x) /\ a + j <= Len(t)
    BY <1>2
  <2>2. QED
    BY <1>1, <2>1 DEF Piece, PieceOf
<1>4. QED
  BY <1>1, <1>2, <1>3 DEF Piece, PieceOf

(* The first n bytes of a piece, and the others.                           *)
LEMMA SplitOf ==
  ASSUME NEW B, NEW d, NEW t, NEW a, NEW b, NEW n \in Nat, PieceOf(B, d, t, a, b), n <= Len(d)
  PROVE  PieceOf(B, Take(d, n), t, a, a + n) /\ PieceOf(B, Drop(d, n), t, a + n, b)
<1>1. /\ d \in Seq(B) /\ t \in Seq(B) /\ Len(d) \in Nat /\ Len(t) \in Nat
      /\ a \in Nat /\ b \in Nat /\ a <= b /\ b <= Len(t) /\ Len(d) = b - a
      /\ \A j \in 1 .. b - a : d[j] = t[a + j]
  BY LenProperties DEF PieceOf
<1>2. \A i \in 1 .. Len(d) : d[i] \in B
  BY <1>1, ElementOfSeq
<1>3. /\ SubSeq(d, 1, n) \in Seq(B)
      /\ Len(SubSeq(d, 1, n)) = IF 1 <= n THEN n - 1 + 1 ELSE 0
      /\ \A i \in 1 .. n - 1 + 1 : SubSeq(d, 1, n)[i] = d[1 + i - 1]
  BY <1>1, <1>2, SubSeqProperties
<1>4. /\ SubSeq(d, n + 1, Len(d)) \in Seq(B)
      /\ Len(SubSeq(d, n + 1, Len(d))) = IF n + 1 <= Len(d) THEN Len(d) - (n + 1) + 1 ELSE 0
      /\ \A i \in 1 .. Len(d) - (n + 1) + 1 : SubSeq(d, n + 1, Len(d))[i] = d[n + 1 + i - 1]
  BY <1>1, <1>2, SubSeqProperties
<1>5. PieceOf(B, Take(d, n), t, a, a + n)
  <2>1. Take(d, n) \in Seq(B) /\ Len(Take(d, n)) = n
    BY <1>3 DEF Take
  <2>2. ASSUME NEW j \in 1 .. n PROVE Take(d, n)[j] = t[a + j]
    BY <1>1, <1>3 DEF Take
  <2>3. QED
    BY <1>1, <2>1, <2>2, SMTT(20) DEF PieceOf
<1>6. PieceOf(B, Drop(d, n), t, a + n, b)
  <2>1. Drop(d, n) \in Seq(B) /\ Len(Drop(d, n)) = Len(d) - n
    BY <1>1, <1>4 DEF Drop
  <2>2. ASSUME NEW j \in 1 .. b - (a + n) PROVE Drop(d, n)[j] = t[(a + n) + j]
    <3>1. j \in 1 .. Len(d) - (n + 1) + 1 /\ n + 1 + j - 1 = n + j
      BY <1>1
    <3>2. Drop(d, n)[j] = d[n + j]
      BY <1>4, <3>1 DEF Drop
    <3>3. n + j \in 1 .. b - a /\ (a + n) + j = a + (n + j)
      BY <1>1
    <3>4. QED
      BY <1>1, <3>2, <3>3
  <2>3. QED
    BY <1>1, <2>1, <2>2 DEF PieceOf
<1>7. QED
  BY <1>5, <1>6

(* Two pieces next to each other.                                          *)
LEMMA JoinOf ==
  ASSUME NEW B, NEW d, NEW e, NEW t, NEW a, NEW b, NEW c,
         PieceOf(B, d, t, a, b), PieceOf(B, e, t, b, c)
  PROVE  PieceOf(B, d \o e, t, a, c) /\ Len(d \o e) = Len(d) + Len(e)
<1>1. /\ d \in Seq(B) /\ e \in Seq(B) /\ t \in Seq(B) /\ Len(t) \in Nat
      /\ a \in Nat /\ b \in Nat /\ c \in Nat /\ a <= b /\ b <= c /\ c <= Len(t)
      /\ Len(d) = b - a /\ Len(e) = c - b
      /\ \A j \in 1 .. b - a : d[j] = t[a + j]
      /\ \A j \in 1 .. c - b : e[j] = t[b + j]
  BY LenProperties DEF PieceOf
<1>2. /\ d \o e \in Seq(B) /\ Len(d \o e) = Len(d) + Len(e)
      /\ \A i \in 1 .. Len(d) + Len(e) : (d \o e)[i] = IF i <= Len(d) THEN d[i] ELSE e[i - Len(d)]
  BY <1>1, ConcatProperties
<1>3. ASSUME NEW j \in 1 .. c - a PROVE (d \o e)[j] = t[a + j]
  <2>1. CASE j <= b - a
    <3>1. j \in 1 .. b - a /\ j \in 1 .. Len(d) + Len(e) /\ j <= Len(d)
      BY <1>1, <2>1
    <3>2. QED
      BY <1>1, <1>2, <3>1
  <2>2. CASE ~(j <= b - a)
    <3>1. j - Len(d) \in 1 .. c - b /\ b + (j - Len(d)) = a + j
      BY <1>1, <2>2
    <3>2. (d \o e)[j] = e[j - Len(d)]
      BY <1>1, <1>2, <2>2, SMTT(20)
    <3>3. QED
      BY <1>1, <3>1, <3>2
  <2>3. QED
    BY <2>1, <2>2
<1>4. QED
  BY <1>1, <1>2, <1>3 DEF PieceOf

(* A piece from the start is a prefix.                                     *)
LEMMA PrefixOf ==
  ASSUME NEW B, NEW d, NEW t, NEW b, PieceOf(B, d, t, 0, b)
  PROVE  d = SubSeq(t, 1, b) /\ (b = Len(t) => d = t)
<1>1. /\ d \in Seq(B) /\ t \in Seq(B) /\ Len(t) \in Nat /\ b \in Nat /\ b <= Len(t)
      /\ Len(d) = b /\ \A j \in 1 .. b : d[j] = t[j]
  BY LenProperties DEF PieceOf
<1>2. \A i \in 1 .. b : t[i] \in B
  BY <1>1, ElementOfSeq
<1>3. /\ SubSeq(t, 1, b) \in Seq(B)
      /\ Len(SubSeq(t, 1, b)) = IF 1 <= b THEN b - 1 + 1 ELSE 0
      /\ \A i \in 1 .. b - 1 + 1 : SubSeq(t, 1, b)[i] = t[1 + i - 1]
  BY <1>1, <1>2, SubSeqProperties
<1>4. Len(SubSeq(t, 1, b)) = b /\ \A i \in 1 .. b : SubSeq(t, 1, b)[i] = d[i]
  BY <1>1, <1>3
<1>5. d = SubSeq(t, 1, b)
  BY <1>1, <1>3, <1>4, SeqEqual
<1>6. b = Len(t) => d = t
  BY <1>1, SeqEqual
<1>7. QED
  BY <1>5, <1>6

(* The same for the plaintext of ShadowStream: a piece of it in two parts, *)
LEMMA PieceSplit ==
  ASSUME NEW d, NEW t, NEW a, NEW b, NEW n \in Nat, Piece(d, t, a, b), n <= Len(d)
  PROVE  Piece(Take(d, n), t, a, a + n) /\ Piece(Drop(d, n), t, a + n, b)
BY SplitOf DEF Piece

(* two pieces of it next to each other,                                    *)
LEMMA PieceJoin ==
  ASSUME NEW d, NEW e, NEW t, NEW a, NEW b, NEW c, Piece(d, t, a, b), Piece(e, t, b, c)
  PROVE  Piece(d \o e, t, a, c) /\ Len(d \o e) = Len(d) + Len(e)
BY JoinOf DEF Piece

(* and a piece from its start.                                             *)
LEMMA PieceIsPrefix ==
  ASSUME NEW d, NEW t, NEW b, Piece(d, t, 0, b)
  PROVE  d = SubSeq(t, 1, b) /\ (b = Len(t) => d = t)
BY PrefixOf DEF Piece

(* What is written is the last piece.                                      *)
LEMMA PieceNew ==
  ASSUME NEW t \in Seq(Bytes), NEW x \in Seq(Bytes)
  PROVE  Piece(x, t \o x, Len(t), Len(t \o x))
<1>1. /\ t \o x \in Seq(Bytes) /\ Len(t \o x) = Len(t) + Len(x)
      /\ \A i \in 1 .. Len(t) + Len(x) : (t \o x)[i] = IF i <= Len(t) THEN t[i] ELSE x[i - Len(t)]
  BY ConcatProperties
<1>2. Len(t) \in Nat /\ Len(x) \in Nat
  BY LenProperties
<1>3. ASSUME NEW j \in 1 .. Len(x) PROVE x[j] = (t \o x)[Len(t) + j]
  <2>1. /\ Len(t) + j \in 1 .. Len(t) + Len(x) /\ ~(Len(t) + j <= Len(t))
        /\ (Len(t) + j) - Len(t) = j
    BY <1>2
  <2>2. QED
    BY <1>1, <2>1
<1>4. QED
  BY <1>1, <1>2, <1>3 DEF Piece, PieceOf

-----------------------------------------------------------------------------
(* Chains of units.                                                        *)

Add(s, u) == s \o <<u>>

(* One more unit.                                                          *)
LEMMA AddUnit ==
  ASSUME NEW s \in Seq(Units), NEW u \in Units
  PROVE  /\ Add(s, u) \in Seq(Units) /\ Len(s) \in Nat /\ Len(Add(s, u)) = Len(s) + 1
         /\ \A i \in 1 .. Len(s) : Add(s, u)[i] = s[i]
         /\ Add(s, u)[Len(s) + 1] = u
<1>1. <<u>> \in Seq(Units) /\ Len(<<u>>) = 1 /\ <<u>>[1] = u /\ Len(s) \in Nat
  BY LenProperties
<1>2. /\ s \o <<u>> \in Seq(Units) /\ Len(s \o <<u>>) = Len(s) + 1
      /\ \A i \in 1 .. Len(s) + 1 : (s \o <<u>>)[i] = IF i <= Len(s) THEN s[i] ELSE <<u>>[i - Len(s)]
  BY <1>1, ConcatProperties
<1>3. (s \o <<u>>)[Len(s) + 1] = u
  <2>1. Len(s) + 1 \in 1 .. Len(s) + 1 /\ ~(Len(s) + 1 <= Len(s)) /\ (Len(s) + 1) - Len(s) = 1
    BY <1>1
  <2>2. QED
    BY <1>1, <1>2, <2>1
<1>4. \A i \in 1 .. Len(s) : (s \o <<u>>)[i] = s[i]
  BY <1>1, <1>2
<1>5. QED
  BY <1>1, <1>2, <1>3, <1>4 DEF Add

(* Without the first unit.                                                 *)
LEMMA TailUnits ==
  ASSUME NEW s \in Seq(Units), s # << >>
  PROVE  /\ Tail(s) \in Seq(Units) /\ Head(s) = s[1] /\ Head(s) \in Units
         /\ Len(s) \in Nat \ {0} /\ Len(Tail(s)) = Len(s) - 1
         /\ \A i \in 1 .. Len(s) - 1 : Tail(s)[i] = s[i + 1]
BY HeadTailProperties, ElementOfSeq, LenProperties, EmptySeq

(* A chain stays one when more is written.                                 *)
LEMMA ChainGrow ==
  ASSUME NEW s, NEW at, NEW t, NEW x \in Seq(Bytes), Chain(s, at, t)
  PROVE  Chain(s, at, t \o x)
<1>1. ASSUME NEW a, NEW u, NEW b, Passes(a, u, b, t) PROVE Passes(a, u, b, t \o x)
  BY <1>1, PieceGrow DEF Passes
<1>2. QED
  BY <1>1 DEF Chain

(* A chain is made longer by a unit that its last mark is ready for.       *)
LEMMA ChainAdd ==
  ASSUME NEW s \in Seq(Units), NEW at, NEW t, Chain(s, at, t),
         NEW u \in Units, NEW b \in Marks, Passes(at[Len(s)], u, b, t)
  PROVE  \E new : Chain(Add(s, u), new, t) /\ new[0] = at[0] /\ new[Len(s) + 1] = b
<1>. DEFINE l == Len(s)
            new == [i \in 0 .. l + 1 |-> IF i = l + 1 THEN b ELSE at[i]]
<1>1. /\ l \in Nat /\ Len(Add(s, u)) = l + 1
      /\ \A i \in 1 .. l : Add(s, u)[i] = s[i]
      /\ Add(s, u)[l + 1] = u
  BY AddUnit
<1>2. \A i \in 0 .. l : at[i] \in Marks
  BY DEF Chain
<1>. HIDE DEF l
<1>3. new \in [0 .. l + 1 -> Marks]
  BY <1>1, <1>2
<1>4. new[0] = at[0] /\ new[l + 1] = b /\ \A i \in 0 .. l : new[i] = at[i]
  BY <1>1
<1>. HIDE DEF new
<1>5. ASSUME NEW i \in 1 .. l + 1 PROVE Passes(new[i - 1], Add(s, u)[i], new[i], t)
  <2>1. CASE i = l + 1
    <3>1. i - 1 = l /\ l \in 0 .. l
      BY <1>1, <2>1
    <3>2. Passes(at[l], u, b, t)
      BY DEF l
    <3>3. QED
      BY <1>1, <1>4, <2>1, <3>1, <3>2
  <2>2. CASE i # l + 1
    <3>1. i \in 1 .. l /\ i \in 0 .. l /\ i - 1 \in 0 .. l
      BY <1>1, <2>2
    <3>2. Passes(at[i - 1], s[i], at[i], t)
      BY <3>1 DEF Chain, l
    <3>3. QED
      BY <1>1, <1>4, <3>1, <3>2
  <2>3. QED
    BY <2>1, <2>2
<1>6. Chain(Add(s, u), new, t)
  BY <1>1, <1>3, <1>5 DEF Chain
<1>7. QED
  BY <1>4, <1>6 DEF l

(* A chain without its first unit.                                         *)
LEMMA ChainTail ==
  ASSUME NEW s \in Seq(Units), s # << >>, NEW at, NEW t, Chain(s, at, t)
  PROVE  /\ Passes(at[0], Head(s), at[1], t) /\ at[0] \in Marks /\ at[1] \in Marks
         /\ \E new : Chain(Tail(s), new, t) /\ new[0] = at[1] /\ new[Len(Tail(s))] = at[Len(s)]
<1>. DEFINE l == Len(s)
            new == [i \in 0 .. l - 1 |-> at[i + 1]]
<1>1. /\ l \in Nat \ {0} /\ Len(Tail(s)) = l - 1 /\ Head(s) = s[1]
      /\ \A i \in 1 .. l - 1 : Tail(s)[i] = s[i + 1]
  BY TailUnits
<1>2. \A i \in 0 .. l : at[i] \in Marks
  BY DEF Chain
<1>3. \A i \in 1 .. l : Passes(at[i - 1], s[i], at[i], t)
  BY DEF Chain
<1>. HIDE DEF l
<1>4. new \in [0 .. l - 1 -> Marks]
  BY <1>1, <1>2
<1>5. new[0] = at[1] /\ new[l - 1] = at[l] /\ \A i \in 0 .. l - 1 : new[i] = at[i + 1]
  BY <1>1
<1>. HIDE DEF new
<1>6. ASSUME NEW i \in 1 .. l - 1 PROVE Passes(new[i - 1], Tail(s)[i], new[i], t)
  <2>1. i - 1 \in 0 .. l - 1 /\ i \in 0 .. l - 1 /\ i + 1 \in 1 .. l /\ (i - 1) + 1 = (i + 1) - 1
    BY <1>1
  <2>2. Passes(at[(i + 1) - 1], s[i + 1], at[i + 1], t)
    BY <1>3, <2>1
  <2>3. new[i - 1] = at[(i + 1) - 1] /\ new[i] = at[i + 1] /\ Tail(s)[i] = s[i + 1]
    BY <1>1, <1>5, <2>1
  <2>4. QED
    BY ONLY <2>2, <2>3
<1>7. Chain(Tail(s), new, t)
  BY <1>1, <1>4, <1>6 DEF Chain
<1>8. Passes(at[0], s[1], at[1], t) /\ at[0] \in Marks /\ at[1] \in Marks
  <2>1. 1 \in 1 .. l /\ 1 - 1 = 0 /\ 0 \in 0 .. l /\ 1 \in 0 .. l
    BY <1>1
  <2>2. Passes(at[1 - 1], s[1], at[1], t)
    BY <1>3, <2>1
  <2>3. QED
    BY <1>2, <2>1, <2>2
<1>9. QED
  BY <1>1, <1>5, <1>7, <1>8 DEF l

(* The units with the i-th of them damaged.                                *)
Hit(s, i) == [s EXCEPT ![i] = Damaged(@)]

(* Damage leaves a chain as it is.                                         *)
LEMMA ChainDamage ==
  ASSUME NEW s \in Seq(Units), NEW i \in DOMAIN s
  PROVE  /\ Hit(s, i) \in Seq(Units) /\ Len(Hit(s, i)) = Len(s)
         /\ \A j \in 1 .. Len(s) : Hit(s, i)[j].kind = s[j].kind
         /\ \A at, t : Chain(s, at, t) => Chain(Hit(s, i), at, t)
<1>. DEFINE s2 == Hit(s, i)
<1>1. Len(s) \in Nat /\ DOMAIN s = 1 .. Len(s) /\ i \in 1 .. Len(s) /\ s[i] \in Units
      /\ s \in [1 .. Len(s) -> Units]
  BY LenProperties, ElementOfSeq
<1>2. /\ Damaged(s[i]) \in Units /\ Damaged(s[i]).kind = s[i].kind
      /\ Damaged(s[i]).nonce = s[i].nonce /\ Damaged(s[i]).data = s[i].data
  BY <1>1 DEF Damaged, Units
<1>3. s2 \in [1 .. Len(s) -> Units] /\ s2[i] = Damaged(s[i])
      /\ \A j \in 1 .. Len(s) : j # i => s2[j] = s[j]
  BY <1>1, <1>2 DEF Hit
<1>. HIDE DEF s2
<1>4. s2 \in Seq(Units) /\ Len(s2) = Len(s)
  BY <1>1, <1>3, IsASeq, LenProperties
<1>5. ASSUME NEW j \in 1 .. Len(s)
      PROVE  s2[j].kind = s[j].kind /\ s2[j].nonce = s[j].nonce /\ s2[j].data = s[j].data
  BY <1>2, <1>3
<1>6. ASSUME NEW at, NEW t, Chain(s, at, t) PROVE Chain(s2, at, t)
  <2>1. ASSUME NEW j \in 1 .. Len(s) PROVE Passes(at[j - 1], s2[j], at[j], t)
    <3>1. Passes(at[j - 1], s[j], at[j], t)
      BY <1>6 DEF Chain
    <3>2. QED
      BY <1>5, <3>1 DEF Passes
  <2>2. QED
    BY <1>4, <1>6, <2>1 DEF Chain
<1>7. QED
  BY <1>4, <1>5, <1>6 DEF s2

(* A unit behind units none of which is cut.                               *)
LEMMA SoundAdd ==
  ASSUME NEW s \in Seq(Units), NEW u \in Units, ~u.good => garbled, Sound(s, FALSE, garbled)
  PROVE  Sound(Add(s, u), u.kind = "cut", garbled)
<1>1. /\ Len(s) \in Nat /\ Len(Add(s, u)) = Len(s) + 1
      /\ \A i \in 1 .. Len(s) : Add(s, u)[i] = s[i]
      /\ Add(s, u)[Len(s) + 1] = u
  BY AddUnit
<1>2. SUFFICES ASSUME NEW i \in 1 .. Len(s) + 1
               PROVE  /\ Add(s, u)[i].kind = "cut" => i = Len(s) + 1 /\ u.kind = "cut"
                      /\ ~Add(s, u)[i].good => garbled
  BY <1>1 DEF Sound
<1>3. CASE i = Len(s) + 1
  BY <1>1, <1>3
<1>4. CASE i # Len(s) + 1
  <2>1. i \in 1 .. Len(s)
    BY <1>1, <1>4
  <2>2. QED
    BY <1>1, <2>1 DEF Sound
<1>5. QED
  BY <1>3, <1>4

(* The first k units.                                                      *)
LEMMA TakeUnits ==
  ASSUME NEW s \in Seq(Units), NEW k \in 0 .. Len(s)
  PROVE  /\ Take(s, k) \in Seq(Units) /\ Len(Take(s, k)) = k
         /\ \A i \in 1 .. k : Take(s, k)[i] = s[i]
<1>1. Len(s) \in Nat /\ k \in Nat /\ k <= Len(s) /\ \A i \in 1 .. Len(s) : s[i] \in Units
  BY LenProperties, ElementOfSeq
<1>2. \A i \in 1 .. k : s[i] \in Units
  BY <1>1
<1>3. /\ SubSeq(s, 1, k) \in Seq(Units)
      /\ Len(SubSeq(s, 1, k)) = IF 1 <= k THEN k - 1 + 1 ELSE 0
      /\ \A i \in 1 .. k - 1 + 1 : SubSeq(s, 1, k)[i] = s[1 + i - 1]
  BY <1>1, <1>2, SubSeqProperties
<1>. DEFINE c == SubSeq(s, 1, k)
<1>. HIDE DEF c
<1>4. /\ c \in Seq(Units) /\ Len(c) = IF 1 <= k THEN k - 1 + 1 ELSE 0
      /\ \A i \in 1 .. k - 1 + 1 : c[i] = s[1 + i - 1]
  BY <1>3 DEF c
<1>5. Len(c) = k
  BY <1>1, <1>4
<1>6. ASSUME NEW i \in 1 .. k PROVE c[i] = s[i]
  <2>1. i \in 1 .. k - 1 + 1 /\ 1 + i - 1 = i
    BY <1>1
  <2>2. QED
    BY <1>4, <2>1
<1>7. QED
  BY <1>4, <1>5, <1>6 DEF Take, c

(* They are a chain if all of them are.                                    *)
LEMMA ChainTake ==
  ASSUME NEW s \in Seq(Units), NEW k \in 0 .. Len(s), NEW at, NEW t, Chain(s, at, t)
  PROVE  \E new : Chain(Take(s, k), new, t) /\ new[0] = at[0] /\ new[k] \in Marks
<1>. DEFINE l == Len(s)
            new == [i \in 0 .. k |-> at[i]]
<1>1. l \in Nat /\ k \in 0 .. l
  BY LenProperties
<1>2. /\ Len(Take(s, k)) = k /\ \A i \in 1 .. k : Take(s, k)[i] = s[i]
  BY TakeUnits
<1>3. /\ \A i \in 0 .. l : at[i] \in Marks
      /\ \A i \in 1 .. l : Passes(at[i - 1], s[i], at[i], t)
  BY DEF Chain
<1>. HIDE DEF l
<1>4. new \in [0 .. k -> Marks]
  BY <1>1, <1>3
<1>5. \A i \in 0 .. k : new[i] = at[i]
  OBVIOUS
<1>. HIDE DEF new
<1>6. ASSUME NEW i \in 1 .. k PROVE Passes(new[i - 1], Take(s, k)[i], new[i], t)
  <2>1. i \in 0 .. k /\ i - 1 \in 0 .. k /\ i \in 1 .. l
    BY <1>1
  <2>2. Passes(at[i - 1], s[i], at[i], t)
    BY <1>3, <2>1
  <2>3. QED
    BY <1>2, <1>5, <2>1, <2>2
<1>7. Chain(Take(s, k), new, t)
  BY <1>2, <1>4, <1>6 DEF Chain
<1>8. 0 \in 0 .. k /\ k \in 0 .. k
  BY <1>1
<1>9. QED
  BY <1>4, <1>5, <1>7, <1>8

(* What is left when the last n units get lost.                            *)
LEMMA LoseUnits ==
  ASSUME NEW s \in Seq(Units), NEW n \in 0 .. Len(s), Lose(s, n), Sound(s, FALSE, garbled)
  PROVE  /\ net' \in Seq(Units) /\ Sound(net', TRUE, garbled)
         /\ \A at, t : Chain(s, at, t) => \E new : Chain(net', new, t) /\ new[0] = at[0]
<1>1. PICK k \in Len(s) - n .. Len(s) - 1 :
             net' = Take(s, k) \/ net' = Take(s, k) \o <<Cut(s[k + 1])>>
  BY DEF Lose
<1>2. k \in 0 .. Len(s) /\ k + 1 \in 1 .. Len(s) /\ Len(s) \in Nat
  BY LenProperties
<1>. DEFINE c == Take(s, k)
            w == s[k + 1]
            u == Cut(w)
<1>3. c \in Seq(Units) /\ Len(c) = k /\ \A i \in 1 .. k : c[i] = s[i]
  BY <1>2, TakeUnits
<1>4. w \in Units
  BY <1>2, ElementOfSeq
<1>5. ~w.good => garbled
  BY <1>2 DEF Sound
<1>. HIDE DEF w
<1>6. u \in Units /\ u.kind = "cut" /\ (~u.good => garbled)
  BY <1>4, <1>5 DEF Cut, Units
<1>. HIDE DEF c, u
<1>7. Sound(c, FALSE, garbled)
  <2>1. ASSUME NEW i \in 1 .. k
        PROVE  ~(c[i].kind = "cut") /\ (~c[i].good => garbled)
    <3>1. i \in 1 .. Len(s)
      BY <1>2
    <3>2. (s[i].kind = "cut" => FALSE) /\ (~s[i].good => garbled)
      BY <3>1 DEF Sound
    <3>3. QED
      BY <1>3, <3>2
  <2>2. QED
    BY <1>3, <2>1 DEF Sound
<1>8. CASE net' = c
  <2>1. Sound(c, TRUE, garbled)
    BY <1>7 DEF Sound
  <2>2. \A at, t : Chain(s, at, t) => \E new : Chain(c, new, t) /\ new[0] = at[0]
    BY <1>2, ChainTake DEF c
  <2>3. QED
    BY <1>3, <1>8, <2>1, <2>2
<1>9. CASE net' = Add(c, u)
  <2>1. Add(c, u) \in Seq(Units)
    BY <1>3, <1>6, AddUnit
  <2>2. Sound(Add(c, u), TRUE, garbled)
    <3>1. Sound(Add(c, u), u.kind = "cut", garbled)
      BY <1>3, <1>6, <1>7, SoundAdd
    <3>2. (u.kind = "cut") = TRUE
      BY <1>6
    <3>3. QED
      BY <3>1, <3>2
  <2>3. ASSUME NEW at, NEW t, Chain(s, at, t)
        PROVE  \E new : Chain(Add(c, u), new, t) /\ new[0] = at[0]
    <3>1. PICK one : Chain(c, one, t) /\ one[0] = at[0] /\ one[k] \in Marks
      BY <1>2, <2>3, ChainTake DEF c
    <3>2. Passes(one[Len(c)], u, one[k], t)
      BY <1>6 DEF Passes
    <3>3. QED
      BY <1>3, <1>6, <3>1, <3>2, ChainAdd
  <2>4. QED
    BY <1>9, <2>1, <2>2, <2>3
<1>10. QED
  BY <1>1, <1>8, <1>9 DEF Add, c, u, w

(* Two units are the first and then the second.                            *)
LEMMA Pair ==
  ASSUME NEW u \in Units, NEW v \in Units
  PROVE  /\ <<u>> \in Seq(Units) /\ <<v>> \in Seq(Units) /\ <<u, v>> = <<u>> \o <<v>>
         /\ Take(<<u, v>>, 1) = <<u>>
<1>1. /\ <<u>> \in Seq(Units) /\ Len(<<u>>) = 1 /\ <<u>>[1] = u
      /\ <<v>> \in Seq(Units) /\ Len(<<v>>) = 1 /\ <<v>>[1] = v
      /\ <<u, v>> \in Seq(Units) /\ Len(<<u, v>>) = 2 /\ <<u, v>>[1] = u /\ <<u, v>>[2] = v
  OBVIOUS
<1>. DEFINE x == <<u>>
            y == <<v>>
            p == <<u, v>>
            c == x \o y
            t == SubSeq(p, 1, 1)
<1>. HIDE DEF x, y, p
<1>2. /\ x \in Seq(Units) /\ Len(x) = 1 /\ x[1] = u /\ y \in Seq(Units) /\ Len(y) = 1 /\ y[1] = v
      /\ p \in Seq(Units) /\ Len(p) = 2 /\ p[1] = u /\ p[2] = v
  BY <1>1 DEF x, y, p
<1>3. /\ c \in Seq(Units) /\ Len(c) = Len(x) + Len(y)
      /\ \A i \in 1 .. Len(x) + Len(y) : c[i] = IF i <= Len(x) THEN x[i] ELSE y[i - Len(x)]
  BY <1>2, ConcatProperties
<1>4. Len(c) = 2 /\ c[1] = u /\ c[2] = v
  BY <1>2, <1>3
<1>. HIDE DEF c
<1>5. p = c
  <2>1. \A i \in 1 .. 2 : i = 1 \/ i = 2
    OBVIOUS
  <2>2. \A i \in 1 .. Len(p) : p[i] = c[i]
    BY <1>2, <1>4, <2>1
  <2>3. QED
    BY <1>2, <1>3, <1>4, <2>2, SeqEqual
<1>6. /\ t \in Seq(Units) /\ Len(t) = IF 1 <= 1 THEN 1 - 1 + 1 ELSE 0
      /\ \A i \in 1 .. 1 - 1 + 1 : t[i] = p[1 + i - 1]
  <2>1. \A i \in 1 .. 1 : p[i] \in Units
    BY <1>2
  <2>2. QED
    BY <1>2, <2>1, SubSeqProperties
<1>7. Len(t) = 1 /\ t[1] = u
  BY <1>2, <1>6
<1>. HIDE DEF t
<1>8. t = x
  <2>1. \A i \in 1 .. 1 : i = 1
    OBVIOUS
  <2>2. \A i \in 1 .. Len(t) : t[i] = x[i]
    BY <1>2, <1>7, <2>1
  <2>3. QED
    BY <1>2, <1>6, <1>7, <2>2, SeqEqual
<1>9. QED
  BY <1>1, <1>5, <1>8 DEF Take, x, y, p, c, t

(* Two units more are one more and one more.                               *)
LEMMA AddTwo ==
  ASSUME NEW s \in Seq(Units), NEW u \in Units, NEW v \in Units
  PROVE  s \o <<u, v>> = Add(Add(s, u), v)
<1>1. <<u, v>> = <<u>> \o <<v>> /\ <<u>> \in Seq(Units) /\ <<v>> \in Seq(Units)
  BY Pair
<1>2. (s \o <<u>>) \o <<v>> = s \o (<<u>> \o <<v>>)
  BY <1>1, ConcatAssociative
<1>3. QED
  BY <1>1, <1>2 DEF Add

-----------------------------------------------------------------------------
(* The writer.                                                             *)

(* What the invariant says of the types, in one place.                     *)
LEMMA Types ==
  ASSUME Inv
  PROVE  /\ net \in Seq(Units) /\ Len(net) \in Nat /\ held \in 0 .. Len(net)
         /\ cut \in BOOLEAN /\ corked \in BOOLEAN
         /\ q \in Seq(Bytes) /\ Len(q) \in Nat /\ sent \in Seq(Bytes) /\ Len(sent) \in Nat
         /\ out \in Seq(Bytes) /\ Len(out) \in Nat
         /\ leftover \in Seq(Bytes) /\ Len(leftover) \in Nat
         /\ wnonce \in Nonces /\ rnonce \in Nonces /\ size \in 0 .. PayloadMask
         /\ 0 \in Nonces /\ \A n \in Nonces : increment(n) \in Nonces
         /\ PayloadMask \in Nat \ {0}
<1>1. \A n \in Nonces : increment(n) \in Nonces
  BY StreamAssumption DEF Nonces, increment
<1>2. 0 \in Nonces
  BY StreamAssumption DEF Nonces
<1>3. QED
  BY <1>1, <1>2, LenProperties, StreamAssumption DEF Inv, TypeOK

(* A step of the writer or of its cork after which the units are still     *)
(* linked keeps the rest of the invariant.                                 *)
LEMMA WriterKeeps ==
  ASSUME Inv, UNCHANGED <<garbled, rvars, sent, out>>,
         wpc' \in {"idle", "write", "failed", "closed"}, winit' \in BOOLEAN,
         wnonce' \in Nonces, q' \in Seq(Bytes), net' \in Seq(Units),
         corked' \in BOOLEAN, held' \in 0 .. Len(net'), cut' \in BOOLEAN,
         Sound(net', cut', garbled), Flow', cut => cut', cut' => held' = 0,
         wpc = "closed" => wpc' = "closed", wpc' = "failed" => cut',
         wpc' \in {"idle", "closed"} /\ ~cut' => q' = << >>
  PROVE  Inv'
<1>1. /\ garbled' = garbled /\ sent' = sent /\ out' = out /\ rpc' = rpc /\ rkey' = rkey
      /\ rnonce' = rnonce /\ size' = size /\ leftover' = leftover /\ rend' = rend
  BY DEF rvars
<1>2. TypeOK'
  BY <1>1 DEF Inv, TypeOK
<1>3. Sound(net, cut, garbled)'
  BY <1>1 DEF Sound
<1>4. /\ Piece(out, sent, 0, Len(out))'
      /\ Piece(leftover, sent, Len(out), Len(out) + Len(leftover))'
  BY <1>1 DEF Inv, Piece, PieceOf
<1>5. (rpc # "salt" /\ ~rkey => garbled)' /\ (rend = "eof" => wpc = "closed")'
  BY <1>1 DEF Inv
<1>6. EofMeansAll' /\ ErrorHasCause'
  BY <1>1 DEF Inv, EofMeansAll, ErrorHasCause
<1>7. QED
  BY <1>2, <1>3, <1>4, <1>5, <1>6 DEF Inv

(* The units stay linked when those behind them are lost.                  *)
LEMMA FailKeeps ==
  ASSUME Inv, cut', UNCHANGED <<garbled, rvars, sent, out>>,
         rend = "none" => \E at : Chain(net', at, sent) /\ ReaderAt(at[0])
  PROVE  Flow'
<1>1. /\ garbled' = garbled /\ sent' = sent /\ out' = out /\ rpc' = rpc /\ rkey' = rkey
      /\ rnonce' = rnonce /\ size' = size /\ leftover' = leftover /\ rend' = rend
  BY DEF rvars
<1>2. SUFFICES ASSUME rend = "none" PROVE \E at : Linked(at)'
  BY <1>1 DEF Flow
<1>3. PICK at : Chain(net', at, sent) /\ ReaderAt(at[0])
  BY <1>2
<1>4. Linked(at)'
  BY <1>1, <1>3 DEF Linked, Chain, Passes, Piece, PieceOf, ReaderAt
<1>5. QED
  BY <1>4

(* What a write of units leaves behind.                                    *)
LEMMA EmitUnits ==
  ASSUME Inv, NEW units \in Seq(Units), Emit(units, "write"),
         ~cut => Sound(net \o units, FALSE, garbled)
  PROVE  /\ wpc' \in {"write", "failed"} /\ (wpc' = "failed" => cut') /\ (cut => cut')
         /\ cut' \in BOOLEAN /\ (cut' => held' = 0)
         /\ net' \in Seq(Units) /\ held' \in 0 .. Len(net') /\ Sound(net', cut', garbled)
         /\ wpc' = "write" => ~cut /\ ~cut' /\ net' = net \o units
         /\ cut => net' = net
         /\ cut' /\ ~cut =>
              \A at : Chain(net \o units, at, sent) =>
                       \E new : Chain(net', new, sent) /\ new[0] = at[0]
<1>1. /\ net \o units \in Seq(Units) /\ Len(net \o units) = Len(net) + Len(units)
      /\ Len(net) \in Nat /\ Len(units) \in Nat /\ held \in 0 .. Len(net) /\ cut \in BOOLEAN
  BY Types, ConcatProperties, LenProperties
<1>2. CASE /\ ~cut /\ net' = net \o units /\ wpc' = "write" /\ cut' = cut
           /\ held' \in 0 .. IF corked THEN held + Len(units) ELSE 0
  <2>1. held' \in 0 .. Len(net')
    BY <1>1, <1>2
  <2>2. Sound(net', cut', garbled)
    BY <1>2 DEF Sound
  <2>3. QED
    BY <1>1, <1>2, <2>1, <2>2
<1>3. CASE ~cut /\ Lose(net \o units, held + Len(units)) /\ wpc' = "failed"
  <2>1. held + Len(units) \in 0 .. Len(net \o units)
    BY <1>1
  <2>2. held' = 0 /\ cut' = TRUE
    BY <1>3 DEF Lose
  <2>3. /\ net' \in Seq(Units) /\ Sound(net', TRUE, garbled)
        /\ \A at, t : Chain(net \o units, at, t) => \E new : Chain(net', new, t) /\ new[0] = at[0]
    BY <1>1, <1>3, <2>1, LoseUnits
  <2>4. held' \in 0 .. Len(net')
    BY <2>2, <2>3, LenProperties
  <2>5. QED
    BY <1>3, <2>2, <2>3, <2>4
<1>4. CASE cut /\ wpc' = "failed" /\ UNCHANGED <<net, held, cut>>
  BY <1>1, <1>4, Types DEF Inv
<1>5. QED
  BY <1>2, <1>3, <1>4 DEF Emit

(* A write that fails leaves the units linked.                             *)
LEMMA EmitFails ==
  ASSUME Inv, NEW units \in Seq(Units), Emit(units, "write"), wpc' = "failed",
         ~cut => Sound(net \o units, FALSE, garbled),
         ~cut /\ rend = "none" =>
           \E at : Chain(net \o units, at, sent) /\ ReaderAt(at[0]),
         UNCHANGED <<garbled, rvars, sent, out>>
  PROVE  Flow'
<1>1. /\ cut' /\ (cut => net' = net)
      /\ ~cut => \A at : Chain(net \o units, at, sent) =>
                            \E new : Chain(net', new, sent) /\ new[0] = at[0]
  BY EmitUnits
<1>2. ASSUME rend = "none" PROVE \E at : Chain(net', at, sent) /\ ReaderAt(at[0])
  <2>1. CASE cut
    <3>1. \E at : Chain(net, at, sent) /\ ReaderAt(at[0])
      BY <1>2 DEF Inv, Flow, Linked
    <3>2. QED
      BY <1>1, <2>1, <3>1
  <2>2. CASE ~cut
    <3>1. PICK at : Chain(net \o units, at, sent) /\ ReaderAt(at[0])
      BY <1>2, <2>2
    <3>2. QED
      BY <1>1, <2>2, <3>1
  <2>3. QED
    BY <2>1, <2>2
<1>3. QED
  BY <1>1, <1>2, FailKeeps

(* initWriter: the salt is the first unit, and the nonce starts at zero.   *)
LEMMA InitWriterStep ==
  ASSUME Inv, InitWriter
  PROVE  Inv'
<1>. DEFINE u == Unit("salt", 0, << >>)
<1>1. /\ wpc = "write" /\ ~winit /\ Emit(<<u>>, "write") /\ winit' = (wpc' = "write")
      /\ wnonce' = 0 /\ q' = q /\ corked' = corked /\ UNCHANGED <<garbled, rvars, sent, out>>
  BY DEF InitWriter
<1>2. /\ u \in Units /\ u.good /\ u.kind = "salt"
  <2>1. << >> \in Seq(Bytes \union Nat)
    BY EmptySeq
  <2>2. 0 \in Nonces
    BY Types
  <2>3. QED
    BY <2>1, <2>2 DEF Unit, Units
<1>. HIDE DEF u
<1>3. <<u>> \in Seq(Units) /\ net \o <<u>> = Add(net, u)
  BY <1>2 DEF Add
<1>4. ASSUME ~cut PROVE Sound(Add(net, u), FALSE, garbled)
  <2>1. Sound(net, FALSE, garbled)
    BY <1>4 DEF Inv, Sound
  <2>2. Sound(Add(net, u), u.kind = "cut", garbled)
    BY <1>2, <2>1, Types, SoundAdd
  <2>3. QED
    BY <1>2, <2>2 DEF Sound
<1>5. /\ wpc' \in {"write", "failed"} /\ (wpc' = "failed" => cut') /\ (cut => cut')
      /\ cut' \in BOOLEAN /\ (cut' => held' = 0)
      /\ net' \in Seq(Units) /\ held' \in 0 .. Len(net') /\ Sound(net', cut', garbled)
      /\ wpc' = "write" => ~cut /\ ~cut' /\ net' = Add(net, u)
  BY <1>1, <1>3, <1>4, EmitUnits
<1>6. ASSUME ~cut, rend = "none"
      PROVE  \E new, b : /\ b \in Marks /\ b.kind = "len" /\ b.nonce = 0
                         /\ Chain(Add(net, u), new, sent) /\ ReaderAt(new[0])
                         /\ new[Len(net) + 1] = b /\ Piece(q, sent, b.pos, Len(sent))
  <2>1. PICK at : Chain(net, at, sent) /\ ReaderAt(at[0]) /\ WriterAt(at[Len(net)])
    BY <1>6 DEF Inv, Flow, Linked
  <2>. DEFINE a == at[Len(net)]
              b == [kind |-> "len", nonce |-> 0, pos |-> a.pos, size |-> 0]
  <2>2. a \in Marks /\ a.kind = "salt" /\ Piece(q, sent, a.pos, Len(sent))
    BY <1>1, <2>1, Types DEF Chain, WriterAt
  <2>3. b \in Marks /\ b.kind = "len" /\ b.nonce = 0 /\ b.pos = a.pos
    BY <2>2, Types DEF Marks
  <2>. HIDE DEF a, b
  <2>4. Passes(a, u, b, sent)
    BY <1>2, <2>2, <2>3 DEF Passes
  <2>5. PICK new : Chain(Add(net, u), new, sent) /\ new[0] = at[0] /\ new[Len(net) + 1] = b
    BY <1>2, <2>1, <2>3, <2>4, Types, ChainAdd DEF a
  <2>6. QED
    BY <2>1, <2>2, <2>3, <2>5
<1>7. Flow'
  <2>1. CASE wpc' = "failed"
    <3>1. ~cut /\ rend = "none" => \E at : Chain(net \o <<u>>, at, sent) /\ ReaderAt(at[0])
      BY <1>3, <1>6
    <3>2. ~cut => Sound(net \o <<u>>, FALSE, garbled)
      BY <1>3, <1>4
    <3>3. QED
      BY <1>1, <1>3, <2>1, <3>1, <3>2, EmitFails
  <2>2. CASE wpc' = "write"
    <3>0. Len(Add(net, u)) = Len(net) + 1
      BY <1>2, Types, AddUnit
    <3>1. net' = Add(net, u) /\ winit' /\ ~cut /\ Len(net') = Len(net) + 1
      BY <1>1, <1>5, <2>2, <3>0
    <3>2. /\ garbled' = garbled /\ sent' = sent /\ out' = out /\ rpc' = rpc /\ rkey' = rkey
          /\ rnonce' = rnonce /\ size' = size /\ leftover' = leftover /\ rend' = rend
      BY <1>1 DEF rvars
    <3>3. SUFFICES ASSUME rend = "none" PROVE \E at : Linked(at)'
      BY <3>2 DEF Flow
    <3>4. PICK new, b : /\ b \in Marks /\ b.kind = "len" /\ b.nonce = 0
                        /\ Chain(Add(net, u), new, sent) /\ ReaderAt(new[0])
                        /\ new[Len(net) + 1] = b /\ Piece(q, sent, b.pos, Len(sent))
      BY <1>6, <3>1, <3>3
    <3>5. Chain(net, new, sent)'
      BY ONLY <3>1, <3>2, <3>4
    <3>6. ReaderAt(new[0])'
      BY <3>2, <3>4 DEF ReaderAt
    <3>7. WriterAt(new[Len(net)])'
      BY <1>1, <3>1, <3>2, <3>4 DEF WriterAt, Piece, PieceOf
    <3>8. QED
      BY <3>5, <3>6, <3>7 DEF Linked
  <2>3. QED
    BY <1>5, <2>1, <2>2
<1>8. winit' \in BOOLEAN /\ corked' \in BOOLEAN /\ wnonce' \in Nonces /\ q' \in Seq(Bytes)
  BY <1>1, Types
<1>9. QED
  BY <1>1, <1>5, <1>7, <1>8, WriterKeeps

(* Payload bytes may stand in a unit's data.                               *)
LEMMA Widen ==
  ASSUME NEW d \in Seq(Bytes)
  PROVE  d \in Seq(Bytes \union Nat)
<1>1. Len(d) \in Nat /\ d \in [1 .. Len(d) -> Bytes]
  BY LenProperties
<1>2. d \in [1 .. Len(d) -> Bytes \union Nat]
  BY <1>1
<1>3. QED
  BY <1>1, <1>2, IsASeq

(* A turn of ReadFrom in stream.go: a length and a payload under two       *)
(* nonces in a row.                                                        *)
LEMMA WriteRecordStep ==
  ASSUME Inv, WriteRecord
  PROVE  Inv'
<1>. DEFINE n == Least(PayloadMask, Len(q))
            u == Unit("len", wnonce, <<n>>)
            v == Unit("data", increment(wnonce), Take(q, n))
<1>1. /\ wpc = "write" /\ winit /\ q # << >> /\ Emit(<<u, v>>, "write") /\ winit' = winit
      /\ q' = Drop(q, n) /\ wnonce' = increment(increment(wnonce)) /\ corked' = corked
      /\ UNCHANGED <<garbled, rvars, sent, out>>
  BY DEF WriteRecord
<1>2. n \in Nat /\ n <= Len(q) /\ n \in 0 .. PayloadMask
  BY Types DEF Least
<1>3. /\ Take(q, n) \in Seq(Bytes) /\ Len(Take(q, n)) = n
      /\ Drop(q, n) \in Seq(Bytes)
  <2>1. Piece(q, q, 0, Len(q))
    BY Types DEF Piece, PieceOf
  <2>. HIDE DEF n
  <2>2. Piece(Take(q, n), q, 0, 0 + n) /\ Piece(Drop(q, n), q, 0 + n, Len(q))
    BY <1>2, <2>1, PieceSplit
  <2>3. QED
    BY <1>2, <2>2 DEF Piece, PieceOf
<1>4. increment(wnonce) \in Nonces /\ increment(increment(wnonce)) \in Nonces
  BY Types
<1>. HIDE DEF n
<1>5. /\ u \in Units /\ u.good /\ u.kind = "len" /\ u.nonce = wnonce /\ u.data = <<n>>
      /\ v \in Units /\ v.good /\ v.kind = "data" /\ v.nonce = increment(wnonce)
      /\ v.data = Take(q, n)
  <2>1. <<n>> \in Seq(Bytes \union Nat) /\ Take(q, n) \in Seq(Bytes \union Nat) /\ wnonce \in Nonces
    BY <1>2, <1>3, Types, Widen
  <2>. DEFINE d == <<n>>
              e == Take(q, n)
              m == wnonce
              k == increment(wnonce)
  <2>. HIDE DEF d, e, m, k
  <2>2. d \in Seq(Bytes \union Nat) /\ e \in Seq(Bytes \union Nat) /\ m \in Nonces /\ k \in Nonces
    BY <1>4, <2>1 DEF d, e, m, k
  <2>3. u = Unit("len", m, d) /\ v = Unit("data", k, e)
    BY DEF d, e, m, k
  <2>. HIDE DEF u, v
  <2>4. /\ u \in Units /\ u.good /\ u.kind = "len" /\ u.nonce = m /\ u.data = d
        /\ v \in Units /\ v.good /\ v.kind = "data" /\ v.nonce = k /\ v.data = e
    BY <2>2, <2>3 DEF Unit, Units
  <2>5. QED
    BY <2>4 DEF d, e, m, k
<1>. HIDE DEF u, v
<1>6. <<u, v>> \in Seq(Units) /\ net \o <<u, v>> = Add(Add(net, u), v)
  BY <1>5, Types, AddTwo
<1>7. /\ Add(net, u) \in Seq(Units) /\ Add(Add(net, u), v) \in Seq(Units)
      /\ Len(Add(net, u)) = Len(net) + 1 /\ Len(Add(Add(net, u), v)) = Len(net) + 1 + 1
  BY <1>5, Types, AddUnit
<1>8. ASSUME ~cut PROVE Sound(Add(Add(net, u), v), FALSE, garbled)
  <2>1. Sound(net, FALSE, garbled)
    BY <1>8 DEF Inv, Sound
  <2>2. Sound(Add(net, u), u.kind = "cut", garbled)
    BY <1>5, <2>1, Types, SoundAdd
  <2>3. Sound(Add(net, u), FALSE, garbled)
    BY <1>5, <2>2 DEF Sound
  <2>4. Sound(Add(Add(net, u), v), v.kind = "cut", garbled)
    BY <1>5, <1>7, <2>3, SoundAdd
  <2>5. QED
    BY <1>5, <2>4 DEF Sound
<1>9. /\ wpc' \in {"write", "failed"} /\ (wpc' = "failed" => cut') /\ (cut => cut')
      /\ cut' \in BOOLEAN /\ (cut' => held' = 0)
      /\ net' \in Seq(Units) /\ held' \in 0 .. Len(net') /\ Sound(net', cut', garbled)
      /\ wpc' = "write" => ~cut /\ ~cut' /\ net' = Add(Add(net, u), v)
  BY <1>1, <1>6, <1>8, EmitUnits
<1>10. ASSUME ~cut, rend = "none"
       PROVE  \E new, c : /\ c \in Marks /\ c.kind = "len"
                          /\ c.nonce = increment(increment(wnonce))
                          /\ Chain(Add(Add(net, u), v), new, sent) /\ ReaderAt(new[0])
                          /\ new[Len(net) + 1 + 1] = c
                          /\ Piece(Drop(q, n), sent, c.pos, Len(sent))
  <2>1. PICK at : Chain(net, at, sent) /\ ReaderAt(at[0]) /\ WriterAt(at[Len(net)])
    BY <1>10 DEF Inv, Flow, Linked
  <2>. DEFINE a == at[Len(net)]
              b == [kind |-> "data", nonce |-> increment(wnonce), pos |-> a.pos, size |-> n]
              c == [kind |-> "len", nonce |-> increment(increment(wnonce)),
                    pos |-> a.pos + n, size |-> 0]
  <2>2. /\ a \in Marks /\ a.kind = "len" /\ a.nonce = wnonce /\ a.pos \in Nat
        /\ Piece(q, sent, a.pos, Len(sent))
    <3>1. at[Len(net)] \in Marks
      <4>1. Len(net) \in 0 .. Len(net)
        BY Types
      <4>2. QED
        BY <2>1, <4>1 DEF Chain
    <3>2. QED
      BY <1>1, <2>1, <3>1 DEF WriterAt, Marks
  <2>3. /\ b \in Marks /\ b.kind = "data" /\ b.nonce = increment(wnonce)
        /\ b.pos = a.pos /\ b.size = n
    BY <1>2, <1>4, <2>2 DEF Marks
  <2>4. /\ c \in Marks /\ c.kind = "len" /\ c.nonce = increment(increment(wnonce))
        /\ c.pos = a.pos + n
    BY <1>2, <1>4, <2>2, Types DEF Marks
  <2>. HIDE DEF a, b, c
  <2>5. Piece(Take(q, n), sent, a.pos, a.pos + n) /\ Piece(Drop(q, n), sent, a.pos + n, Len(sent))
    BY <1>2, <2>2, PieceSplit
  <2>6. Passes(a, u, b, sent)
    BY <1>5, <2>2, <2>3 DEF Passes
  <2>7. Passes(b, v, c, sent)
    BY <1>3, <1>5, <2>3, <2>4, <2>5 DEF Passes
  <2>8. PICK one : Chain(Add(net, u), one, sent) /\ one[0] = at[0] /\ one[Len(net) + 1] = b
    BY <1>5, <2>1, <2>3, <2>6, Types, ChainAdd DEF a
  <2>9. PICK two : /\ Chain(Add(Add(net, u), v), two, sent)
                   /\ two[0] = one[0] /\ two[Len(net) + 1 + 1] = c
    <3>1. Passes(one[Len(Add(net, u))], v, c, sent)
      BY <1>7, <2>7, <2>8
    <3>2. QED
      BY <1>5, <1>7, <2>4, <2>8, <3>1, ChainAdd, SMTT(20)
  <2>10. QED
    BY <2>1, <2>4, <2>5, <2>8, <2>9
<1>11. Flow'
  <2>1. CASE wpc' = "failed"
    <3>1. ~cut /\ rend = "none" => \E at : Chain(net \o <<u, v>>, at, sent) /\ ReaderAt(at[0])
      BY <1>6, <1>10
    <3>2. ~cut => Sound(net \o <<u, v>>, FALSE, garbled)
      BY <1>6, <1>8
    <3>3. QED
      BY <1>1, <1>6, <2>1, <3>1, <3>2, EmitFails
  <2>2. CASE wpc' = "write"
    <3>1. net' = Add(Add(net, u), v) /\ ~cut /\ Len(net') = Len(net) + 1 + 1
      BY <1>7, <1>9, <2>2
    <3>2. /\ garbled' = garbled /\ sent' = sent /\ out' = out /\ rpc' = rpc /\ rkey' = rkey
          /\ rnonce' = rnonce /\ size' = size /\ leftover' = leftover /\ rend' = rend
      BY <1>1 DEF rvars
    <3>3. SUFFICES ASSUME rend = "none" PROVE \E at : Linked(at)'
      BY <3>2 DEF Flow
    <3>4. PICK new, c : /\ c \in Marks /\ c.kind = "len"
                        /\ c.nonce = increment(increment(wnonce))
                        /\ Chain(Add(Add(net, u), v), new, sent) /\ ReaderAt(new[0])
                        /\ new[Len(net) + 1 + 1] = c
                        /\ Piece(Drop(q, n), sent, c.pos, Len(sent))
      BY <1>10, <3>1, <3>3
    <3>5. Chain(net, new, sent)'
      BY ONLY <3>1, <3>2, <3>4
    <3>6. ReaderAt(new[0])'
      BY <3>2, <3>4 DEF ReaderAt
    <3>7. WriterAt(new[Len(net)])'
      BY <1>1, <3>1, <3>2, <3>4 DEF WriterAt, Piece, PieceOf
    <3>8. QED
      BY <3>5, <3>6, <3>7 DEF Linked
  <2>3. QED
    BY <1>9, <2>1, <2>2
<1>12. winit' \in BOOLEAN /\ corked' \in BOOLEAN
  BY <1>1, Types DEF Inv, TypeOK
<1>13. QED
  BY <1>1, <1>3, <1>4, <1>9, <1>11, <1>12, WriterKeeps

(* A call of Write hands over bytes that the net does not hold yet.        *)
LEMMA WriteStep ==
  ASSUME Inv, NEW b \in Seq(Bytes), Write(b)
  PROVE  Inv'
<1>1. /\ wpc = "idle" /\ wpc' = "write" /\ q' = b /\ sent' = sent \o b
      /\ winit' = winit /\ wnonce' = wnonce /\ net' = net /\ garbled' = garbled /\ out' = out
      /\ corked' = corked /\ held' = held /\ cut' = cut
      /\ rpc' = rpc /\ rkey' = rkey /\ rnonce' = rnonce /\ size' = size
      /\ leftover' = leftover /\ rend' = rend
  BY DEF Write, rvars, cvars
<1>2. sent \o b \in Seq(Bytes)
  BY Types, ConcatProperties
<1>3. TypeOK'
  BY <1>1, <1>2 DEF Inv, TypeOK
<1>4. /\ Piece(out, sent \o b, 0, Len(out))
      /\ Piece(leftover, sent \o b, Len(out), Len(out) + Len(leftover))
  BY PieceGrow DEF Inv
<1>5. Flow'
  <2>1. SUFFICES ASSUME rend = "none" PROVE \E at : Linked(at)'
    BY <1>1 DEF Flow
  <2>2. PICK at : Linked(at)
    BY <2>1 DEF Inv, Flow
  <2>3. Chain(net, at, sent \o b)
    BY <2>2, ChainGrow DEF Linked
  <2>4. Chain(net, at, sent)'
    BY ONLY <1>1, <2>3
  <2>5. ReaderAt(at[0])'
    BY <1>1, <2>2 DEF Linked, ReaderAt
  <2>6. ASSUME ~cut PROVE WriterAt(at[Len(net)])'
    <3>1. Piece(q, sent, at[Len(net)].pos, Len(sent)) /\ q = << >> /\ WriterAt(at[Len(net)])
      BY <1>1, <2>2, <2>6 DEF Linked, WriterAt, Inv
    <3>2. Len(q) = 0
      BY <3>1, EmptySeq
    <3>3. at[Len(net)].pos = Len(sent)
      BY <3>1, <3>2 DEF Piece, PieceOf
    <3>4. Piece(b, sent \o b, Len(sent), Len(sent \o b))
      BY Types, PieceNew
    <3>5. Piece(q', sent', at[Len(net')].pos, Len(sent'))
      BY ONLY <1>1, <3>3, <3>4
    <3>6. QED
      BY <1>1, <3>1, <3>5 DEF WriterAt
  <2>7. QED
    BY <1>1, <2>4, <2>5, <2>6 DEF Linked
<1>6. Sound(net, cut, garbled)'
  BY <1>1 DEF Inv, Sound
<1>7. /\ Piece(out, sent, 0, Len(out))'
      /\ Piece(leftover, sent, Len(out), Len(out) + Len(leftover))'
  BY ONLY <1>1, <1>4
<1>8. /\ (wpc \in {"idle", "closed"} /\ ~cut => q = << >>)' /\ (wpc = "failed" => cut)'
      /\ (cut => held = 0)' /\ (rpc # "salt" /\ ~rkey => garbled)'
      /\ (rend = "eof" => wpc = "closed")' /\ EofMeansAll' /\ ErrorHasCause'
  BY <1>1 DEF Inv, EofMeansAll, ErrorHasCause
<1>9. QED
  BY <1>3, <1>5, <1>6, <1>7, <1>8 DEF Inv

(* A step that leaves the units as they are leaves them linked.            *)
LEMMA SameUnits ==
  ASSUME Inv, UNCHANGED <<winit, wnonce, q, net, garbled, rvars, sent, out>>, cut => cut'
  PROVE  Flow'
<1>1. /\ winit' = winit /\ wnonce' = wnonce /\ q' = q /\ net' = net /\ garbled' = garbled
      /\ out' = out /\ sent' = sent /\ rpc' = rpc /\ rkey' = rkey /\ rnonce' = rnonce
      /\ size' = size /\ leftover' = leftover /\ rend' = rend
  BY DEF rvars
<1>2. SUFFICES ASSUME rend = "none" PROVE \E at : Linked(at)'
  BY <1>1 DEF Flow
<1>3. PICK at : Linked(at)
  BY <1>2 DEF Inv, Flow
<1>4. Chain(net, at, sent)'
  BY <1>1, <1>3 DEF Linked
<1>5. ReaderAt(at[0])' /\ (~cut' => WriterAt(at[Len(net)])')
  BY <1>1, <1>3 DEF Linked, ReaderAt, WriterAt, Piece, PieceOf
<1>6. QED
  BY <1>4, <1>5 DEF Linked

(* What the cork holds is lost.                                            *)
LEMMA CorkLost ==
  ASSUME Inv, held > 0, Lose(net, held), UNCHANGED <<garbled, rvars, sent, out>>
  PROVE  /\ net' \in Seq(Units) /\ held' = 0 /\ cut' = TRUE /\ held' \in 0 .. Len(net')
         /\ Sound(net', cut', garbled) /\ Flow'
<1>1. held' = 0 /\ cut' = TRUE
  BY DEF Lose
<1>2. ~cut
  BY Types DEF Inv
<1>3. Sound(net, FALSE, garbled)
  BY <1>2 DEF Inv, Sound
<1>4. /\ net' \in Seq(Units) /\ Sound(net', TRUE, garbled)
      /\ \A at, t : Chain(net, at, t) => \E new : Chain(net', new, t) /\ new[0] = at[0]
  BY <1>3, Types, LoseUnits
<1>5. ASSUME rend = "none" PROVE \E at : Chain(net', at, sent) /\ ReaderAt(at[0])
  <2>1. PICK at : Chain(net, at, sent) /\ ReaderAt(at[0])
    BY <1>5 DEF Inv, Flow, Linked
  <2>2. QED
    BY <1>4, <2>1
<1>6. Flow'
  BY <1>1, <1>5, FailKeeps
<1>7. held' \in 0 .. Len(net')
  BY <1>1, <1>4, LenProperties
<1>8. QED
  BY <1>1, <1>4, <1>6, <1>7

(* Write returns with all of its argument handed to the cork.              *)
LEMMA WriteReturnStep ==
  ASSUME Inv, WriteReturn
  PROVE  Inv'
<1>1. /\ wpc = "write" /\ wpc' = "idle" /\ q = << >>
      /\ winit' = winit /\ wnonce' = wnonce /\ q' = q /\ net' = net
      /\ corked' = corked /\ held' = held /\ cut' = cut
      /\ UNCHANGED <<garbled, rvars, sent, out>>
  BY DEF WriteReturn, Whole, cvars
<1>2. Flow'
  BY <1>1, SameUnits
<1>3. winit \in BOOLEAN /\ Sound(net, cut, garbled) /\ (cut => held = 0)
  BY DEF Inv, TypeOK
<1>4. QED
  BY <1>1, <1>2, <1>3, Types, WriterKeeps

(* The timer lets go of what the cork holds, or loses it.                  *)
LEMMA UncorkStep ==
  ASSUME Inv, Uncork
  PROVE  Inv'
<1>1. /\ corked' = FALSE /\ wpc' = wpc /\ winit' = winit /\ wnonce' = wnonce /\ q' = q
      /\ UNCHANGED <<garbled, rvars, sent, out>>
  BY DEF Uncork, wvars
<1>2. /\ winit \in BOOLEAN /\ Sound(net, cut, garbled)
      /\ wpc \in {"idle", "write", "failed", "closed"}
      /\ (wpc \in {"idle", "closed"} /\ ~cut => q = << >>) /\ (wpc = "failed" => cut)
  BY DEF Inv, TypeOK
<1>3. CASE held' = 0 /\ net' = net /\ cut' = cut
  <2>1. Flow'
    BY <1>1, <1>3, SameUnits
  <2>2. held' \in 0 .. Len(net')
    BY <1>3, Types
  <2>3. QED
    BY <1>1, <1>2, <1>3, <2>1, <2>2, Types, WriterKeeps
<1>4. CASE held > 0 /\ Lose(net, held)
  <2>1. /\ net' \in Seq(Units) /\ held' = 0 /\ cut' = TRUE /\ held' \in 0 .. Len(net')
        /\ Sound(net', cut', garbled) /\ Flow'
    BY <1>1, <1>4, CorkLost
  <2>2. QED
    BY <1>1, <1>2, <2>1, Types, WriterKeeps
<1>5. QED
  BY <1>3, <1>4 DEF Uncork

(* Close ends the stream where it is, without what the cork holds.         *)
LEMMA CloseStep ==
  ASSUME Inv, Close
  PROVE  Inv'
<1>1. /\ wpc \in {"idle", "failed"} /\ wpc' = "closed" /\ corked' = corked
      /\ winit' = winit /\ wnonce' = wnonce /\ q' = q
      /\ UNCHANGED <<garbled, rvars, sent, out>>
  BY DEF Close
<1>2. /\ winit \in BOOLEAN /\ Sound(net, cut, garbled) /\ (cut => held = 0)
      /\ (~cut => q = << >>)
  BY <1>1 DEF Inv, TypeOK
<1>3. CASE held = 0 /\ UNCHANGED <<net, held, cut>>
  <2>1. Flow'
    BY <1>1, <1>3, SameUnits
  <2>2. QED
    BY <1>1, <1>2, <1>3, <2>1, Types, WriterKeeps
<1>4. CASE held > 0 /\ Lose(net, held)
  <2>1. /\ net' \in Seq(Units) /\ held' = 0 /\ cut' = TRUE /\ held' \in 0 .. Len(net')
        /\ Sound(net', cut', garbled) /\ Flow'
    BY <1>1, <1>4, CorkLost
  <2>2. QED
    BY <1>1, <1>2, <2>1, Types, WriterKeeps
<1>5. QED
  BY <1>3, <1>4 DEF Close

(* Damage on the way leaves the order of units and nonces alone.           *)
LEMMA GarbleStep ==
  ASSUME Inv, Garble
  PROVE  Inv'
<1>1. /\ garbled' = TRUE /\ corked' = corked /\ held' = held /\ cut' = cut /\ wpc' = wpc /\ winit' = winit /\ wnonce' = wnonce /\ q' = q
      /\ out' = out /\ sent' = sent /\ rpc' = rpc /\ rkey' = rkey /\ rnonce' = rnonce
      /\ size' = size /\ leftover' = leftover /\ rend' = rend
  BY DEF Garble, wvars, cvars, rvars
<1>2. PICK i \in DOMAIN net : net' = [net EXCEPT ![i] = Damaged(@)]
  BY DEF Garble
<1>3. /\ net' \in Seq(Units) /\ Len(net') = Len(net)
      /\ \A j \in 1 .. Len(net) : net'[j].kind = net[j].kind
      /\ \A at : Chain(net, at, sent) => Chain(net', at, sent)
  <2>1. net' = Hit(net, i) /\ net \in Seq(Units)
    BY <1>2, Types DEF Hit
  <2>2. QED
    BY ONLY <2>1, i \in DOMAIN net, ChainDamage
<1>4. TypeOK'
  BY <1>1, <1>3 DEF Inv, TypeOK
<1>5. Flow'
  <2>1. SUFFICES ASSUME rend = "none" PROVE \E at : Linked(at)'
    BY <1>1 DEF Flow
  <2>2. PICK at : Linked(at)
    BY <2>1 DEF Inv, Flow
  <2>3. Chain(net', at, sent')
    BY <1>1, <1>3, <2>2 DEF Linked
  <2>4. ReaderAt(at[0])' /\ (~cut' => WriterAt(at[Len(net)])')
    BY <1>1, <1>3, <2>2 DEF Linked, ReaderAt, WriterAt, Piece, PieceOf
  <2>5. QED
    BY <2>3, <2>4 DEF Linked
<1>6. Sound(net, cut, garbled)'
  BY <1>1, <1>3 DEF Inv, Sound
<1>7. /\ Piece(out, sent, 0, Len(out))'
      /\ Piece(leftover, sent, Len(out), Len(out) + Len(leftover))'
  BY <1>1 DEF Inv, Piece, PieceOf
<1>8. /\ (wpc \in {"idle", "closed"} /\ ~cut => q = << >>)' /\ (wpc = "failed" => cut)'
      /\ (cut => held = 0)' /\ (rpc # "salt" /\ ~rkey => garbled)'
      /\ (rend = "eof" => wpc = "closed")' /\ EofMeansAll' /\ ErrorHasCause'
  BY <1>1 DEF Inv, EofMeansAll, ErrorHasCause
<1>9. QED
  BY <1>4, <1>5, <1>6, <1>7, <1>8 DEF Inv

-----------------------------------------------------------------------------
(* The reader.                                                             *)

(* The unit that the reader receives: what is behind it is sound and       *)
(* linked to the mark after it, and its kind and nonce are the expected.   *)
LEMMA Received ==
  ASSUME Inv, NEW kind, Receive(kind)
  PROVE  /\ net' \in Seq(Units) /\ Head(net) \in Units /\ (~Head(net).good => garbled)
         /\ Sound(net', cut, garbled) /\ held \in 0 .. Len(net')
         /\ \E a, b, new :
              /\ a \in Marks /\ b \in Marks /\ ReaderAt(a) /\ a.kind = kind
              /\ Head(net).kind = kind /\ Passes(a, Head(net), b, sent)
              /\ Chain(net', new, sent) /\ new[0] = b
              /\ ~cut => WriterAt(new[Len(net')])
<1>0. Len(net) > held /\ Len(net) \in Nat /\ held \in 0 .. Len(net)
  BY Types DEF Receive
<1>1. /\ rend = "none" /\ rpc = kind /\ net # << >> /\ Head(net).kind # "cut"
      /\ net' = Tail(net) /\ net \in Seq(Units)
  <2>1. Len(net) # 0
    BY <1>0
  <2>2. net # << >>
    BY <2>1, EmptySeq
  <2>3. QED
    BY <2>2, Types DEF Receive
<1>2. /\ Tail(net) \in Seq(Units) /\ Head(net) = net[1] /\ Head(net) \in Units
      /\ Len(net) \in Nat \ {0} /\ Len(Tail(net)) = Len(net) - 1
      /\ \A i \in 1 .. Len(net) - 1 : Tail(net)[i] = net[i + 1]
  BY <1>1, TailUnits
<1>3. ~Head(net).good => garbled
  <2>1. 1 \in 1 .. Len(net)
    BY <1>2
  <2>2. ~net[1].good => garbled
    BY <2>1 DEF Inv, Sound
  <2>3. QED
    BY <1>2, <2>2
<1>4. Sound(net', cut, garbled)
  <2>1. SUFFICES ASSUME NEW i \in 1 .. Len(net) - 1
                 PROVE  /\ Tail(net)[i].kind = "cut" => i = Len(net) - 1 /\ cut
                        /\ ~Tail(net)[i].good => garbled
    BY <1>1, <1>2 DEF Sound
  <2>2. i + 1 \in 1 .. Len(net) /\ Tail(net)[i] = net[i + 1]
    BY <1>2, <2>1
  <2>3. /\ net[i + 1].kind = "cut" => i + 1 = Len(net) /\ cut
        /\ ~net[i + 1].good => garbled
    BY <2>2 DEF Inv, Sound
  <2>4. i + 1 = Len(net) => i = Len(net) - 1
    <3>1. i \in Int /\ Len(net) \in Int
      BY <1>2, <2>1
    <3>2. QED
      BY ONLY <3>1
  <2>5. Tail(net)[i] = net[i + 1]
    BY <2>2
  <2>. DEFINE u == Tail(net)[i]
              w == net[i + 1]
  <2>. HIDE DEF u, w
  <2>6. u = w /\ (w.kind = "cut" => i + 1 = Len(net) /\ cut) /\ (~w.good => garbled)
    BY <2>3, <2>5 DEF u, w
  <2>7. (u.kind = "cut" => i = Len(net) - 1 /\ cut) /\ (~u.good => garbled)
    BY ONLY <2>4, <2>6
  <2>8. QED
    BY <2>7 DEF u
<1>5. PICK at : Chain(net, at, sent) /\ ReaderAt(at[0]) /\ (~cut => WriterAt(at[Len(net)]))
  BY <1>1 DEF Inv, Flow, Linked
<1>6. /\ Passes(at[0], Head(net), at[1], sent) /\ at[0] \in Marks /\ at[1] \in Marks
      /\ \E new : /\ Chain(Tail(net), new, sent) /\ new[0] = at[1]
                  /\ new[Len(Tail(net))] = at[Len(net)]
  BY <1>1, <1>5, ChainTail
<1>7. at[0].kind = kind /\ Head(net).kind = kind
  BY <1>1, <1>5, <1>6 DEF ReaderAt, Passes
<1>8. PICK new : /\ Chain(Tail(net), new, sent) /\ new[0] = at[1]
                 /\ new[Len(Tail(net))] = at[Len(net)]
  BY <1>6
<1>9. /\ Chain(net', new, sent) /\ ~cut => WriterAt(new[Len(net')])
  BY <1>1, <1>5, <1>8
<1>10. held \in 0 .. Len(net')
  BY <1>0, <1>1, <1>2
<1>11. QED
  BY <1>1, <1>2, <1>3, <1>4, <1>5, <1>6, <1>7, <1>8, <1>9, <1>10

(* The mask keeps the length of a record.                                  *)
LEMMA Masked ==
  ASSUME NEW m \in Nat, NEW n \in 0 .. m
  PROVE  n % (m + 1) = n
OBVIOUS

(* A step of the reader that ends the stream.                              *)
LEMMA EndKeeps ==
  ASSUME Inv, UNCHANGED <<wvars, cvars, garbled, sent, out, leftover, rpc, rkey>>,
         rnonce' \in Nonces, size' = size, net' \in Seq(Units), Sound(net', cut, garbled),
         held \in 0 .. Len(net'),
         rend = "none", rend' \in {"eof", "err", "fail"}, EofMeansAll', ErrorHasCause',
         rend' = "eof" => wpc = "closed"
  PROVE  Inv'
<1>1. /\ garbled' = garbled /\ wpc' = wpc /\ winit' = winit /\ wnonce' = wnonce /\ q' = q
      /\ out' = out /\ sent' = sent /\ rpc' = rpc /\ rkey' = rkey /\ leftover' = leftover
      /\ corked' = corked /\ held' = held /\ cut' = cut
  BY DEF wvars, cvars
<1>2. TypeOK'
  BY <1>1 DEF Inv, TypeOK
<1>3. Flow'
  BY DEF Flow
<1>4. Sound(net, cut, garbled)'
  BY <1>1 DEF Sound
<1>5. /\ Piece(out, sent, 0, Len(out))'
      /\ Piece(leftover, sent, Len(out), Len(out) + Len(leftover))'
  BY <1>1 DEF Inv, Piece, PieceOf
<1>6. /\ (wpc \in {"idle", "closed"} /\ ~cut => q = << >>)' /\ (wpc = "failed" => cut)'
      /\ (cut => held = 0)' /\ (rpc # "salt" /\ ~rkey => garbled)'
      /\ (rend = "eof" => wpc = "closed")'
  BY <1>1 DEF Inv
<1>7. QED
  BY <1>2, <1>3, <1>4, <1>5, <1>6 DEF Inv

(* A step of the reader after which it is at the start of the units that   *)
(* are left.                                                               *)
LEMMA ReaderKeeps ==
  ASSUME Inv, UNCHANGED <<wvars, cvars, garbled, sent>>, rend = "none", rend' = "none",
         net' \in Seq(Units), Sound(net', cut, garbled), held \in 0 .. Len(net'),
         NEW new, Chain(net', new, sent), ~cut => WriterAt(new[Len(net')]),
         ReaderAt(new[0])', rpc' \in {"salt", "len", "data"}, rkey' \in BOOLEAN,
         rnonce' \in Nonces, size' \in 0 .. PayloadMask,
         rpc' # "salt" /\ ~rkey' => garbled,
         Piece(out', sent, 0, Len(out')),
         Piece(leftover', sent, Len(out'), Len(out') + Len(leftover'))
  PROVE  Inv'
<1>1. /\ garbled' = garbled /\ wpc' = wpc /\ winit' = winit /\ wnonce' = wnonce /\ q' = q
      /\ corked' = corked /\ held' = held /\ cut' = cut /\ sent' = sent
  BY DEF wvars, cvars
<1>2. out' \in Seq(Bytes) /\ leftover' \in Seq(Bytes)
  BY DEF Piece, PieceOf
<1>3. TypeOK'
  BY <1>1, <1>2 DEF Inv, TypeOK
<1>4. Flow'
  <2>1. Chain(net', new, sent')
    BY <1>1
  <2>2. ~cut' => WriterAt(new[Len(net)])'
    BY <1>1 DEF WriterAt, Piece, PieceOf
  <2>3. QED
    BY <2>1, <2>2 DEF Flow, Linked
<1>5. Sound(net, cut, garbled)'
  BY <1>1 DEF Sound
<1>6. /\ Piece(out, sent, 0, Len(out))'
      /\ Piece(leftover, sent, Len(out), Len(out) + Len(leftover))'
  BY <1>1
<1>7. /\ (wpc \in {"idle", "closed"} /\ ~cut => q = << >>)' /\ (wpc = "failed" => cut)'
      /\ (cut => held = 0)' /\ (rpc # "salt" /\ ~rkey => garbled)'
      /\ (rend = "eof" => wpc = "closed")' /\ EofMeansAll' /\ ErrorHasCause'
  BY <1>1 DEF Inv, EofMeansAll, ErrorHasCause
<1>8. QED
  BY <1>3, <1>4, <1>5, <1>6, <1>7 DEF Inv

(* initReader takes the salt, and is refused or starts its nonce at zero.  *)
LEMMA InitReaderStep ==
  ASSUME Inv, InitReader
  PROVE  Inv'
<1>1. /\ Receive("salt") /\ rend = "none" /\ rpc = "salt" /\ size' = size
      /\ UNCHANGED <<wvars, cvars, garbled, sent, out, leftover>>
  BY DEF InitReader, Receive
<1>2. /\ net' \in Seq(Units) /\ Head(net) \in Units /\ (~Head(net).good => garbled)
      /\ Sound(net', cut, garbled) /\ held \in 0 .. Len(net')
  BY <1>1, Received
<1>3. CASE rend' = "err" /\ UNCHANGED <<rpc, rkey, rnonce>>
  <2>1. EofMeansAll' /\ ErrorHasCause'
    BY <1>1, <1>3 DEF EofMeansAll, ErrorHasCause
  <2>2. QED
    BY <1>1, <1>2, <1>3, <2>1, Types, EndKeeps
<1>4. CASE rend' = rend /\ rpc' = "len" /\ rkey' = Head(net).good /\ rnonce' = 0
  <2>1. PICK a, b, new :
              /\ a \in Marks /\ b \in Marks /\ ReaderAt(a) /\ a.kind = "salt"
              /\ Head(net).kind = "salt" /\ Passes(a, Head(net), b, sent)
              /\ Chain(net', new, sent) /\ new[0] = b
              /\ ~cut => WriterAt(new[Len(net')])
    BY <1>1, Received
  <2>2. b.kind = "len" /\ b.nonce = 0 /\ b.pos = a.pos /\ a.pos = Len(out) + Len(leftover)
    BY <2>1 DEF Passes, ReaderAt
  <2>3. ReaderAt(new[0])'
    BY <1>1, <1>4, <2>1, <2>2 DEF ReaderAt
  <2>4. rkey' \in BOOLEAN /\ (~rkey' => garbled)
    BY <1>2, <1>4 DEF Units
  <2>5. /\ Piece(out', sent, 0, Len(out'))
        /\ Piece(leftover', sent, Len(out'), Len(out') + Len(leftover'))
    BY <1>1 DEF Inv
  <2>6. QED
    BY <1>1, <1>2, <1>4, <2>1, <2>3, <2>4, <2>5, Types, ReaderKeeps
<1>5. QED
  BY <1>3, <1>4 DEF InitReader

(* The length chunk opens if it is undamaged, and tells the size of the    *)
(* next unit.                                                              *)
LEMMA ReadLengthStep ==
  ASSUME Inv, ReadLength
  PROVE  Inv'
<1>1. /\ Receive("len") /\ rend = "none" /\ rpc = "len" /\ leftover = << >>
      /\ rnonce' = increment(rnonce) /\ UNCHANGED <<wvars, cvars, garbled, rkey, leftover, sent, out>>
  BY DEF ReadLength, Receive, NextNonce
<1>2. /\ net' \in Seq(Units) /\ Head(net) \in Units /\ (~Head(net).good => garbled)
      /\ Sound(net', cut, garbled) /\ held \in 0 .. Len(net')
  BY <1>1, Received
<1>3. PICK a, b, new :
            /\ a \in Marks /\ b \in Marks /\ ReaderAt(a) /\ a.kind = "len"
            /\ Head(net).kind = "len" /\ Passes(a, Head(net), b, sent)
            /\ Chain(net', new, sent) /\ new[0] = b
            /\ ~cut => WriterAt(new[Len(net')])
  BY <1>1, Received
<1>4. /\ a.nonce = rnonce /\ a.pos = Len(out) + Len(leftover) /\ Head(net).nonce = rnonce
      /\ b.kind = "data" /\ b.nonce = increment(rnonce) /\ b.pos = a.pos
      /\ Head(net).data = <<b.size>> /\ b.size \in 0 .. PayloadMask
  BY <1>1, <1>3 DEF Passes, ReaderAt, Marks
<1>5. rnonce' \in Nonces
  BY <1>1, Types
<1>6. CASE ~Opens(Head(net))
  <2>1. rend' = "err" /\ rpc' = rpc /\ size' = size
    BY <1>6 DEF ReadLength
  <2>2. garbled
    BY <1>1, <1>2, <1>4, <1>6 DEF Opens, Inv
  <2>3. EofMeansAll' /\ ErrorHasCause'
    BY <1>1, <2>1, <2>2 DEF EofMeansAll, ErrorHasCause
  <2>4. QED
    BY <1>1, <1>2, <1>5, <2>1, <2>3, EndKeeps
<1>7. CASE Opens(Head(net))
  <2>1. rpc' = "data" /\ rend' = rend /\ size' = Head(net).data[1] % (PayloadMask + 1)
    BY <1>7 DEF ReadLength
  <2>2. size' = b.size
    <3>1. Head(net).data[1] = b.size
      BY <1>4
    <3>2. b.size % (PayloadMask + 1) = b.size
      BY <1>4, Types, Masked
    <3>3. QED
      BY <2>1, <3>1, <3>2
  <2>3. ReaderAt(new[0])'
    BY <1>1, <1>3, <1>4, <2>1, <2>2 DEF ReaderAt
  <2>4. rkey' \in BOOLEAN /\ (~rkey' => garbled)
    BY <1>1 DEF Inv, TypeOK
  <2>5. /\ Piece(out', sent, 0, Len(out'))
        /\ Piece(leftover', sent, Len(out'), Len(out') + Len(leftover'))
    BY <1>1 DEF Inv
  <2>6. QED
    BY <1>1, <1>2, <1>3, <1>4, <1>5, <2>1, <2>2, <2>3, <2>4, <2>5, ReaderKeeps
<1>8. QED
  BY <1>6, <1>7

(* The payload follows what was handed out; what does not fit is the       *)
(* leftover.                                                               *)
LEMMA ReadPayloadStep ==
  ASSUME Inv, NEW n \in 1 .. PayloadMask, ReadPayload(n)
  PROVE  /\ Inv'
         /\ Len(out) <= Len(out')
<1>1. /\ Receive("data") /\ rend = "none" /\ rpc = "data" /\ size' = size
      /\ rnonce' = increment(rnonce) /\ UNCHANGED <<wvars, cvars, garbled, rkey, sent>>
  BY DEF ReadPayload, Receive
<1>2. /\ net' \in Seq(Units) /\ Head(net) \in Units /\ (~Head(net).good => garbled)
      /\ Sound(net', cut, garbled) /\ held \in 0 .. Len(net')
  BY <1>1, Received
<1>3. PICK a, b, new :
            /\ a \in Marks /\ b \in Marks /\ ReaderAt(a) /\ a.kind = "data"
            /\ Head(net).kind = "data" /\ Passes(a, Head(net), b, sent)
            /\ Chain(net', new, sent) /\ new[0] = b
            /\ ~cut => WriterAt(new[Len(net')])
  BY <1>1, Received
<1>. DEFINE data == Head(net).data
            m == Least(n, size)
<1>4. /\ a.nonce = rnonce /\ a.pos = Len(out) + Len(leftover) /\ Head(net).nonce = rnonce
      /\ b.kind = "len" /\ b.nonce = increment(rnonce) /\ leftover = << >>
      /\ Len(data) = size /\ Piece(data, sent, a.pos, b.pos)
  BY <1>1, <1>3 DEF Passes, ReaderAt
<1>5. rnonce' \in Nonces
  BY <1>1, Types
<1>6. CASE ~Opens(Head(net))
  <2>1. rend' = "err" /\ rpc' = rpc /\ leftover' = leftover /\ out' = out
    BY <1>6 DEF ReadPayload
  <2>2. garbled
    BY <1>1, <1>2, <1>4, <1>6 DEF Opens, Inv
  <2>3. EofMeansAll' /\ ErrorHasCause'
    BY <1>1, <2>1, <2>2 DEF EofMeansAll, ErrorHasCause
  <2>4. Inv'
    BY <1>1, <1>2, <1>5, <2>1, <2>3, EndKeeps
  <2>5. QED
    BY <2>1, <2>4, Types
<1>7. CASE Opens(Head(net))
  <2>1. /\ out' = out \o Take(data, m) /\ leftover' = Drop(data, m)
        /\ rpc' = "len" /\ rend' = rend
    BY <1>7 DEF ReadPayload, Rest
  <2>2. m \in Nat /\ m <= size
    BY Types DEF Least
  <2>3. Len(leftover) = 0 /\ a.pos = Len(out)
    BY <1>4, Types, EmptySeq
  <2>. HIDE DEF data, m
  <2>4. Piece(Take(data, m), sent, Len(out), Len(out) + m) /\ Piece(Drop(data, m), sent, Len(out) + m, b.pos)
    BY <1>4, <2>2, <2>3, PieceSplit
  <2>5. Piece(out, sent, 0, Len(out))
    BY DEF Inv
  <2>6. Piece(out', sent, 0, Len(out) + m)
    BY <2>1, <2>4, <2>5, PieceJoin
  <2>7. Len(out') = Len(out) + m
    BY <2>6, <2>2, Types DEF Piece, PieceOf
  <2>8. Len(leftover') = b.pos - Len(out') /\ b.pos \in Nat
    BY <2>1, <2>4, <2>7 DEF Piece, PieceOf
  <2>9. Len(out') + Len(leftover') = b.pos
    BY <2>2, <2>7, <2>8, Types
  <2>10. /\ Piece(out', sent, 0, Len(out'))
         /\ Piece(leftover', sent, Len(out'), Len(out') + Len(leftover'))
    BY ONLY <2>1, <2>4, <2>6, <2>7, <2>9
  <2>11. ReaderAt(new[0])'
    BY <1>1, <1>3, <1>4, <2>1, <2>9 DEF ReaderAt
  <2>12. rkey' \in BOOLEAN /\ (~rkey' => garbled)
    BY <1>1 DEF Inv, TypeOK
  <2>13. Inv'
    BY <1>1, <1>2, <1>3, <1>5, <2>1, <2>10, <2>11, <2>12, Types, ReaderKeeps
  <2>14. QED
    BY <2>2, <2>7, <2>13, Types
<1>8. QED
  BY <1>6, <1>7

(* A leftover is handed out before anything else is read.                  *)
LEMMA ReadLeftoverStep ==
  ASSUME Inv, NEW n \in 1 .. PayloadMask, ReadLeftover(n)
  PROVE  /\ Inv'
         /\ Len(out) <= Len(out')
<1>. DEFINE m == Least(n, Len(leftover))
            l == Len(out) + Len(leftover)
<1>1. /\ rend = "none" /\ rend' = rend /\ leftover # << >> /\ net' = net
      /\ out' = out \o Take(leftover, m) /\ leftover' = Drop(leftover, m)
      /\ UNCHANGED <<wvars, cvars, garbled, rpc, rkey, rnonce, size, sent>>
  BY DEF ReadLeftover
<1>2. m \in Nat /\ m <= Len(leftover)
  BY Types DEF Least
<1>3. Piece(out, sent, 0, Len(out)) /\ Piece(leftover, sent, Len(out), l)
  BY DEF Inv
<1>. HIDE DEF m, l
<1>4. /\ Piece(Take(leftover, m), sent, Len(out), Len(out) + m)
      /\ Piece(Drop(leftover, m), sent, Len(out) + m, l)
  BY <1>2, <1>3, PieceSplit
<1>5. Piece(out', sent, 0, Len(out) + m)
  BY <1>1, <1>3, <1>4, PieceJoin
<1>6. Len(out') = Len(out) + m
  BY <1>2, <1>5, Types DEF Piece, PieceOf
<1>7. Len(leftover') = l - Len(out') /\ l \in Nat
  BY <1>1, <1>4, <1>6 DEF Piece, PieceOf
<1>8. Len(out') + Len(leftover') = l
  BY <1>2, <1>6, <1>7, Types
<1>9. /\ Piece(out', sent, 0, Len(out'))
      /\ Piece(leftover', sent, Len(out'), Len(out') + Len(leftover'))
  BY ONLY <1>1, <1>4, <1>5, <1>6, <1>8
<1>10. PICK at : Linked(at)
  BY <1>1 DEF Inv, Flow
<1>11. /\ Chain(net', at, sent) /\ (~cut => WriterAt(at[Len(net')]))
       /\ ReaderAt(at[0])
  BY <1>1, <1>10 DEF Linked
<1>12. ReaderAt(at[0])'
  BY <1>1, <1>8, <1>11 DEF ReaderAt, l
<1>13. net' \in Seq(Units) /\ Sound(net', cut, garbled) /\ held \in 0 .. Len(net')
  BY <1>1, Types DEF Inv
<1>14. /\ rpc' \in {"salt", "len", "data"} /\ rkey' \in BOOLEAN /\ rnonce' \in Nonces
       /\ size' \in 0 .. PayloadMask /\ (rpc' # "salt" /\ ~rkey' => garbled)
  BY <1>1 DEF Inv, TypeOK
<1>15. Inv'
  BY <1>1, <1>9, <1>11, <1>12, <1>13, <1>14, ReaderKeeps
<1>16. QED
  BY <1>2, <1>6, <1>15, Types

(* The reader finds no unit, or half of one, only at a closed connection.  *)
LEMMA ReadEndStep ==
  ASSUME Inv, ReadEnd
  PROVE  Inv'
<1>1. /\ rend = "none" /\ leftover = << >> /\ wpc = "closed" /\ net' = net
      /\ UNCHANGED <<wvars, cvars, garbled, rpc, rkey, rnonce, size, leftover, sent, out>>
  BY DEF ReadEnd
<1>2. wpc' = wpc /\ out' = out /\ sent' = sent /\ rpc' = rpc /\ garbled' = garbled /\ cut' = cut
  BY <1>1 DEF wvars, cvars
<1>3. CASE net = << >> /\ rend' = "eof"
  <2>1. ASSUME ~cut PROVE out = sent
    <3>1. PICK at : Linked(at)
      BY <1>1 DEF Inv, Flow
    <3>2. Len(net) = 0 /\ Len(leftover) = 0 /\ q = << >>
      BY <1>1, <1>3, <2>1, EmptySeq DEF Inv
    <3>3. ReaderAt(at[0]) /\ WriterAt(at[0])
      BY <2>1, <3>1, <3>2 DEF Linked
    <3>4. at[0].pos = Len(out)
      BY <3>2, <3>3, Types DEF ReaderAt
    <3>5. Piece(q, sent, Len(out), Len(sent)) /\ Len(q) = 0
      BY <3>2, <3>3, <3>4, EmptySeq DEF WriterAt
    <3>6. Len(out) = Len(sent)
      BY <3>5, Types DEF Piece, PieceOf
    <3>7. Piece(out, sent, 0, Len(out))
      BY DEF Inv
    <3>8. QED
      BY <3>6, <3>7, PieceIsPrefix
  <2>2. EofMeansAll' /\ ErrorHasCause'
    BY <1>2, <1>3, <2>1 DEF EofMeansAll, ErrorHasCause
  <2>3. QED
    BY <1>1, <1>3, <2>2, Types, EndKeeps DEF Inv
<1>4. CASE net # << >> /\ Head(net).kind = "cut" /\ rend' = "err"
  <2>1. Head(net) = net[1] /\ 1 \in 1 .. Len(net)
    BY <1>4, Types, TailUnits
  <2>2. cut
    BY <1>4, <2>1 DEF Inv, Sound
  <2>3. EofMeansAll' /\ ErrorHasCause'
    BY <1>1, <1>2, <1>4, <2>2 DEF EofMeansAll, ErrorHasCause
  <2>4. QED
    BY <1>1, <1>4, <2>3, Types, EndKeeps DEF Inv
<1>5. QED
  BY <1>3, <1>4 DEF ReadEnd

(* A Read of the connection fails.                                         *)
LEMMA ConnFailStep ==
  ASSUME Inv, ReadFail
  PROVE  Inv'
<1>1. /\ rend = "none" /\ rend' = "fail" /\ net' = net
      /\ UNCHANGED <<wvars, cvars, garbled, rpc, rkey, rnonce, size, leftover, sent, out>>
  BY DEF ReadFail
<1>2. EofMeansAll' /\ ErrorHasCause'
  BY <1>1 DEF EofMeansAll, ErrorHasCause
<1>3. QED
  BY <1>1, <1>2, Types, EndKeeps DEF Inv

-----------------------------------------------------------------------------
(* The invariant holds in every state of the specification.                *)
THEOREM Invariance == Spec => []Inv
<1>1. Init => Inv
  <2>. SUFFICES ASSUME Init PROVE Inv
    OBVIOUS
  <2>1. << >> \in Seq(Bytes) /\ << >> \in Seq(Units) /\ Len(<< >>) = 0 /\ 0 \in Nonces
    BY EmptySeq, StreamAssumption DEF Nonces
  <2>2. TypeOK
    <3>1. 0 \in 0 .. PayloadMask
      BY StreamAssumption
    <3>2. /\ q \in Seq(Bytes) /\ net \in Seq(Units) /\ leftover \in Seq(Bytes)
          /\ sent \in Seq(Bytes) /\ out \in Seq(Bytes)
      BY <2>1 DEF Init
    <3>3. held \in 0 .. Len(net)
      BY <2>1 DEF Init
    <3>4. QED
      BY <2>1, <3>1, <3>2, <3>3 DEF Init, TypeOK
  <2>3. Piece(<< >>, << >>, 0, 0)
    BY <2>1 DEF Piece, PieceOf
  <2>4. /\ Piece(out, sent, 0, Len(out))
        /\ Piece(leftover, sent, Len(out), Len(out) + Len(leftover))
    <3>1. Len(out) = 0 /\ Len(out) + Len(leftover) = 0
      BY <2>1 DEF Init
    <3>2. QED
      BY <2>3, <3>1 DEF Init
  <2>5. Flow
    <3>. DEFINE a == [kind |-> "salt", nonce |-> 0, pos |-> 0, size |-> 0]
                at == [i \in 0 .. 0 |-> a]
    <3>1. a \in Marks /\ a.kind = "salt" /\ a.pos = 0
      BY <2>1, StreamAssumption DEF Marks
    <3>. HIDE DEF a
    <3>2. at \in [0 .. 0 -> Marks] /\ at[0] = a
      BY <3>1
    <3>. HIDE DEF at
    <3>3. Len(net) = 0
      BY <2>1 DEF Init
    <3>4. Chain(net, at, sent)
      BY <3>2, <3>3 DEF Chain
    <3>5. ReaderAt(at[0])
      BY <2>1, <3>1, <3>2 DEF Init, ReaderAt
    <3>6. WriterAt(at[Len(net)])
      BY <2>1, <2>3, <3>1, <3>2, <3>3 DEF Init, WriterAt
    <3>7. QED
      BY <3>4, <3>5, <3>6 DEF Flow, Linked
  <2>6. Sound(net, cut, garbled)
    BY <2>1 DEF Init, Sound
  <2>7. QED
    BY <2>2, <2>4, <2>5, <2>6 DEF Init, Inv, EofMeansAll, ErrorHasCause
<1>2. Inv /\ [Next]_vars => Inv'
  <2>. SUFFICES ASSUME Inv, [Next]_vars PROVE Inv'
    OBVIOUS
  <2>1. ASSUME NEW n \in 0 .. MaxWrite, NEW b \in [1 .. n -> Bytes], Write(b) PROVE Inv'
    <3>1. b \in Seq(Bytes)
      BY StreamAssumption, IsASeq
    <3>2. QED
      BY <2>1, <3>1, WriteStep
  <2>2. CASE InitWriter \/ WriteRecord \/ WriteReturn \/ Uncork \/ Close \/ Garble
    BY <2>2, InitWriterStep, WriteRecordStep, WriteReturnStep, UncorkStep, CloseStep, GarbleStep
  <2>3. CASE InitReader \/ ReadLength \/ ReadEnd \/ ReadFail
    BY <2>3, InitReaderStep, ReadLengthStep, ReadEndStep, ConnFailStep
  <2>4. ASSUME NEW n \in 1 .. PayloadMask, ReadPayload(n) \/ ReadLeftover(n) PROVE Inv'
    BY <2>4, ReadPayloadStep, ReadLeftoverStep
  <2>5. CASE UNCHANGED vars
    <3>1. /\ garbled' = garbled /\ wpc' = wpc /\ winit' = winit /\ wnonce' = wnonce /\ q' = q
          /\ corked' = corked /\ held' = held /\ cut' = cut
          /\ net' = net /\ out' = out /\ sent' = sent /\ rpc' = rpc /\ rkey' = rkey
          /\ rnonce' = rnonce /\ size' = size /\ leftover' = leftover /\ rend' = rend
      BY <2>5 DEF vars
    <3>2. TypeOK' /\ EofMeansAll' /\ ErrorHasCause'
      BY <3>1 DEF Inv, TypeOK, EofMeansAll, ErrorHasCause
    <3>3. Flow'
      <4>1. SUFFICES ASSUME rend = "none" PROVE \E at : Linked(at)'
        BY <3>1 DEF Flow
      <4>2. PICK at : Linked(at)
        BY <4>1 DEF Inv, Flow
      <4>3. Chain(net, at, sent)'
        BY <3>1, <4>2 DEF Linked
      <4>4. ReaderAt(at[0])' /\ (~cut' => WriterAt(at[Len(net)])')
        BY <3>1, <4>2 DEF Linked, ReaderAt, WriterAt, Piece, PieceOf
      <4>5. QED
        BY <4>3, <4>4 DEF Linked
    <3>4. Sound(net, cut, garbled)'
      BY <3>1 DEF Inv, Sound
    <3>5. /\ Piece(out, sent, 0, Len(out))'
          /\ Piece(leftover, sent, Len(out), Len(out) + Len(leftover))'
      BY <3>1 DEF Inv, Piece, PieceOf
    <3>6. QED
      BY <3>1, <3>2, <3>3, <3>4, <3>5 DEF Inv
  <2>6. QED
    BY <2>1, <2>2, <2>3, <2>4, <2>5 DEF Next
<1>3. QED
  BY <1>1, <1>2, PTL DEF Spec

(* The two ends and the units between them have their types: records are   *)
(* never longer than the mask, nonces never leave their range.             *)
THEOREM TypeCorrect == Spec => []TypeOK
<1>1. Inv => TypeOK
  BY DEF Inv
<1>2. QED
  BY <1>1, Invariance, PTL

(* A stream that ended with EOF for the reader was handed out to the last  *)
(* byte, unless a write failed or Close dropped what the cork held.        *)
THEOREM EofIsTrue == Spec => []EofMeansAll
<1>1. Inv => EofMeansAll
  BY DEF Inv
<1>2. QED
  BY <1>1, Invariance, PTL

(* The reader's key and nonce never disagree with the writer's of          *)
(* themselves: every error that the connection has not passed on comes     *)
(* from a refused salt, damage, or units lost at the writer's end.         *)
THEOREM NoErrorOfItsOwn == Spec => []ErrorHasCause
<1>1. Inv => ErrorHasCause
  BY DEF Inv
<1>2. QED
  BY <1>1, Invariance, PTL

-----------------------------------------------------------------------------
(* The encrypted stream implements a byte pipe.                            *)

(* A step that hands out more, or ends the stream.                         *)
LEMMA PipeStep ==
  ASSUME Inv, Inv', sent' = sent, rend = "none", Len(out) <= Len(out')
  PROVE  [Pipe!Next]_(Pipe!vars)
<1>1. Piece(out', sent', 0, Len(out'))
  BY DEF Inv
<1>2. out' = SubSeq(sent, 1, Len(out')) /\ Len(out') \in Nat /\ Len(out') <= Len(sent)
  <2>1. out' = SubSeq(sent', 1, Len(out'))
    BY <1>1, PieceIsPrefix
  <2>2. Len(out') \in Nat /\ Len(out') <= Len(sent')
    BY <1>1 DEF Piece, PieceOf
  <2>3. QED
    BY <2>1, <2>2
<1>3. Len(out') \in Len(out) .. Len(sent)
  BY <1>2, Types
<1>4. (rend = "none")' \in BOOLEAN
  OBVIOUS
<1>5. Pipe!Deliver
  BY <1>2, <1>3, <1>4 DEF Pipe!Deliver
<1>6. QED
  BY <1>5 DEF Pipe!Next

(* Every step of the stream is one of the pipe, or leaves it as it is.     *)
THEOREM Refinement == Spec => ImplementsBytePipe
<1>1. Init => Pipe!Init
  BY DEF Init, Pipe!Init
<1>2. Inv /\ Inv' /\ [Next]_vars => [Pipe!Next]_(Pipe!vars)
  <2>. SUFFICES ASSUME Inv, Inv', [Next]_vars PROVE [Pipe!Next]_(Pipe!vars)
    OBVIOUS
  <2>1. ASSUME NEW n \in 0 .. MaxWrite, NEW b \in [1 .. n -> Bytes], Write(b)
        PROVE  [Pipe!Next]_(Pipe!vars)
    <3>1. b \in Seq(Bytes)
      BY StreamAssumption, IsASeq
    <3>2. sent' = sent \o b /\ out' = out /\ rend' = rend
      BY <2>1 DEF Write, rvars
    <3>3. Piece(sent, sent, 0, Len(sent))
      BY Types DEF Piece, PieceOf
    <3>4. Piece(sent, sent \o b, 0, Len(sent))
      BY <3>1, <3>3, PieceGrow
    <3>5. sent = SubSeq(sent \o b, 1, Len(sent)) /\ Len(sent) <= Len(sent \o b)
          /\ sent \o b \in Seq(Bytes)
      BY <3>4, PieceIsPrefix DEF Piece, PieceOf
    <3>6. Pipe!Handover
      BY <3>2, <3>5 DEF Pipe!Handover
    <3>7. QED
      BY <3>6 DEF Pipe!Next
  <2>2. CASE InitWriter \/ WriteRecord \/ WriteReturn \/ Uncork \/ Close \/ Garble
    BY <2>2 DEF InitWriter, WriteRecord, WriteReturn, Uncork, Close, Garble, rvars, Pipe!vars
  <2>3. CASE InitReader \/ ReadLength \/ ReadEnd \/ ReadFail
    <3>1. sent' = sent /\ out' = out /\ rend = "none"
      BY <2>3 DEF InitReader, ReadLength, ReadEnd, ReadFail, Receive
    <3>2. QED
      BY <3>1, Types, PipeStep
  <2>4. ASSUME NEW n \in 1 .. PayloadMask, ReadPayload(n) \/ ReadLeftover(n)
        PROVE  [Pipe!Next]_(Pipe!vars)
    <3>1. sent' = sent /\ rend = "none"
      BY <2>4 DEF ReadPayload, ReadLeftover, Receive
    <3>2. Len(out) <= Len(out')
      BY <2>4, ReadPayloadStep, ReadLeftoverStep
    <3>3. QED
      BY <3>1, <3>2, PipeStep
  <2>5. CASE UNCHANGED vars
    BY <2>5 DEF vars, Pipe!vars
  <2>6. QED
    BY <2>1, <2>2, <2>3, <2>4, <2>5 DEF Next
<1>3. QED
  BY <1>1, <1>2, Invariance, PTL DEF Spec, ImplementsBytePipe, Pipe!Spec

-----------------------------------------------------------------------------
(***************************************************************************)
(* The buffered reader.                                                    *)
(*                                                                         *)
(* Its invariant says where every byte comes from.  Placed: what was       *)
(* handed out is the start of the source, and what is buffered comes next. *)
(* That is InOrder, but an unread can break it: it steps back over bytes   *)
(* of the buffer that need not be those handed out last.  So the invariant *)
(* also says what lies behind b.r (Kept), and that lastByte and            *)
(* lastRuneSize, while they are set, are about the end of what was handed  *)
(* out (ByteBack, RuneBack), unless one of the calls in Sloppy, which do   *)
(* not set them, was the last to read.  Searched is what ReadSlice and     *)
(* ReadBytes know of the data that they have passed over.                  *)
(***************************************************************************)
Part(d, a, b) == PieceOf(Octet, d, source, a, b)

Sloppy == Slices \cup {"WriteTo", "Drain"}

ReaderTypes ==
  /\ ReaderTypeOK
  /\ buf \in Seq(Octet) /\ given \in Seq(Octet) /\ arg \in Nat /\ mark \in Nat
  /\ pc \in {"idle", "Read", "ReadByte", "ReadRune", "Peek", "WriteTo", "Drain"} \cup Slices
  /\ stale \in BOOLEAN /\ (stale => pc = "idle" /\ lastOp \in Sloppy)
  /\ err = "eof" => taken = Len(source)
  /\ pc \notin Slices => look = -1

Placed ==
  /\ 0 <= r /\ r <= Len(given)
  /\ Part(given, 0, Len(given)) /\ Part(Pending, Len(given), taken)

Behind == Part(buf, Len(given) - r, taken)

ByteBack ==
  lastByte >= 0 => Len(given) > 0 /\ (lastOp \in Sloppy \/ lastByte = source[Len(given)])

RuneBack ==
  lastRuneSize > 0 => /\ lastRuneSize <= Len(given)
                      /\ lastOp \in Sloppy \/ r = 0 \/ lastRuneSize <= r

Kept ==
  Behind \/ (Pending = << >> /\ (lastOp \in Sloppy \/ (lastByte >= 0 /\ lastRuneSize = -1)))

Searched ==
  /\ pc = "Drain" => Pending = << >>
  /\ look >= 0 => look <= Len(Pending) /\ \A i \in 1 .. look : source[Len(given) + i] # NL
  /\ pc \in {"ReadSlice", "ReadBytes"} =>
       mark <= Len(given) /\ \A i \in 1 .. Len(given) : i > mark => source[i] # NL

RInv == ReaderTypes /\ (~stale => Placed /\ ByteBack /\ RuneBack /\ Kept /\ Searched)

(* A set of positions has a first one. *)
LEMMA FirstExists ==
  ASSUME NEW I, I \subseteq Nat, I # {}
  PROVE  Min(I) \in I /\ \A j \in I : Min(I) <= j
<1>1. PICK x \in I : \A y \in I : ~(<<y, x>> \in OpToRel(<, Nat))
  BY NatLessThanWellFounded, WFMin
<1>2. ASSUME NEW y \in I PROVE ~(y < x)
  BY <1>1 DEF OpToRel
<1>3. \A y \in I : x <= y
  BY ONLY <1>2, I \subseteq Nat, x \in I
<1>4. QED
  BY ONLY <1>3, x \in I, I \subseteq Nat DEF Min

(* ReadSlice finds the first end of a line. *)
LEMMA FirstLine ==
  ASSUME NEW n, n = SelectInSeq(Pending, LAMBDA b : b = NL), HasLine, Pending \in Seq(Octet)
  PROVE  /\ n \in 1 .. Len(Pending) /\ Pending[n] = NL
         /\ \A i \in 1 .. Len(Pending) : Pending[i] = NL => n <= i
<1>. DEFINE I == {i \in 1 .. Len(Pending) : Pending[i] = NL}
<1>1. I # {} /\ I \subseteq Nat
  BY LenProperties DEF HasLine, Contains
<1>2. n = Min(I)
  BY <1>1 DEF SelectInSeq
<1>. HIDE DEF I
<1>3. n \in I /\ \A j \in I : n <= j
  BY <1>1, <1>2, FirstExists
<1>4. QED
  BY <1>3 DEF I

(* A sequence is empty when its length is 0. *)
LEMMA EmptyIffZero ==
  ASSUME NEW B, NEW s \in Seq(B)
  PROVE  Len(s) \in Nat /\ (s = << >> <=> Len(s) = 0)
BY LenProperties, EmptySeq

(* There is one piece between two positions. *)
LEMMA UniqueOf ==
  ASSUME NEW B, NEW d, NEW e, NEW t, NEW a, NEW b, PieceOf(B, d, t, a, b), PieceOf(B, e, t, a, b)
  PROVE  d = e
<1>1. /\ d \in Seq(B) /\ e \in Seq(B) /\ Len(d) = Len(e) /\ Len(d) = b - a
      /\ \A j \in 1 .. b - a : d[j] = e[j]
  BY DEF PieceOf
<1>2. QED
  BY ONLY <1>1, SeqEqual

(* All of a sequence, and nothing of it, are pieces of it. *)
LEMMA WholeOf ==
  ASSUME NEW B, NEW t \in Seq(B)
  PROVE  PieceOf(B, t, t, 0, Len(t)) /\ \A a \in 0 .. Len(t) : PieceOf(B, << >>, t, a, a)
<1>1. Len(t) \in Nat /\ << >> \in Seq(B) /\ Len(<< >>) = 0
  BY EmptySeq, LenProperties
<1>2. PieceOf(B, t, t, 0, Len(t))
  BY <1>1 DEF PieceOf
<1>3. ASSUME NEW a \in 0 .. Len(t) PROVE PieceOf(B, << >>, t, a, a)
  BY <1>1 DEF PieceOf
<1>4. QED
  BY <1>2, <1>3

(* Nothing is dropped of a sequence. *)
LEMMA DropNone ==
  ASSUME NEW B, NEW b \in Seq(B)
  PROVE  Drop(b, 0) = b
<1>1. PieceOf(B, b, b, 0, Len(b)) /\ Len(b) \in Nat
  BY WholeOf, LenProperties
<1>2. PICK n \in Nat : n = 0
  OBVIOUS
<1>3. n <= Len(b) /\ 0 + n = 0
  BY <1>1, <1>2
<1>4. PieceOf(B, Drop(b, n), b, 0 + n, Len(b))
  BY <1>1, <1>3, SplitOf
<1>5. PieceOf(B, Drop(b, 0), b, 0, Len(b))
  BY <1>2, <1>3, <1>4
<1>6. QED
  BY <1>1, <1>5, UniqueOf

(* What the invariant says of lengths and pieces. *)
LEMMA RFacts ==
  ASSUME RInv, ~stale
  PROVE  /\ source \in Seq(Octet) /\ Len(source) \in Nat /\ taken \in Nat /\ taken <= Len(source)
         /\ Len(given) \in Nat /\ Len(buf) \in Nat /\ r \in Nat /\ r <= Len(buf) /\ r <= Len(given)
         /\ Len(given) <= taken
         /\ Pending \in Seq(Octet) /\ Len(Pending) = taken - Len(given) /\ Len(Pending) \in Nat
         /\ Len(Pending) = Len(buf) - r /\ Len(Pending) <= Size
         /\ Pending = << >> <=> Len(Pending) = 0
         /\ Part(Remaining, taken, Len(source)) /\ Len(Remaining) = Len(source) - taken
         /\ Len(Remaining) \in Nat /\ Size \in Nat \ {0, 1}
<1>1. source \in Seq(Octet) /\ Size \in Nat \ {0, 1}
  BY ReaderAssumption DEF RInv, ReaderTypes, ReaderTypeOK
<1>2. /\ taken \in 0 .. Len(source) /\ r \in -1 .. Len(buf) /\ buf \in Seq(Octet)
      /\ given \in Seq(Octet) /\ 0 <= r /\ r <= Len(given) /\ Len(buf) <= Size
  BY DEF RInv, ReaderTypes, ReaderTypeOK, Placed
<1>3. Len(source) \in Nat /\ Len(given) \in Nat /\ Len(buf) \in Nat
  BY <1>1, <1>2, LenProperties
<1>4. /\ Pending \in Seq(Octet) /\ Len(given) <= taken /\ Len(Pending) = taken - Len(given)
  BY DEF RInv, Placed, Part, PieceOf
<1>5. Len(Pending) \in Nat /\ (Pending = << >> <=> Len(Pending) = 0)
  BY <1>4, EmptyIffZero
<1>6. r \in Nat /\ r <= Len(buf)
  BY <1>2, <1>3
<1>7. Len(Pending) = Len(buf) - r
  <2>1. PieceOf(Octet, buf, buf, 0, Len(buf))
    BY <1>2, WholeOf
  <2>2. PieceOf(Octet, Drop(buf, r), buf, 0 + r, Len(buf))
    BY <1>6, <2>1, SplitOf
  <2>3. QED
    BY <1>3, <1>6, <2>2 DEF PieceOf, Pending
<1>8. Part(Remaining, taken, Len(source))
  <2>1. PieceOf(Octet, source, source, 0, Len(source))
    BY <1>1, WholeOf
  <2>2. taken \in Nat /\ taken <= Len(source) /\ 0 + taken = taken
    BY <1>2, <1>3
  <2>3. PieceOf(Octet, Drop(source, taken), source, 0 + taken, Len(source))
    BY <2>1, <2>2, SplitOf
  <2>4. QED
    BY <2>2, <2>3 DEF Part, Remaining
<1>9. Len(Remaining) = Len(source) - taken
  BY <1>8 DEF Part, PieceOf
<1>10. taken \in Nat /\ taken <= Len(source) /\ Len(Remaining) \in Nat /\ Len(Pending) <= Size
  BY <1>1, <1>2, <1>3, <1>6, <1>7, <1>9
<1>11. QED
  BY <1>1, <1>2, <1>3, <1>4, <1>5, <1>6, <1>7, <1>8, <1>9, <1>10

(* Bytes are handed out of the buffer. *)
LEMMA ConsumeEffect ==
  ASSUME RInv, ~stale, NEW n \in Nat, n <= Len(Pending), NEW m, Consume(n, m)
  PROVE  /\ Placed' /\ Len(given') = Len(given) + n /\ Len(Pending') = Len(Pending) - n
         /\ given' \in Seq(Octet) /\ Pending' \in Seq(Octet)
         /\ (n > 0 => Behind') /\ (Behind => Behind')
         /\ (n = 0 => given' = given /\ Pending' = Pending /\ lastOp' = lastOp)
         /\ (n > 0 => lastOp' = pc)
         /\ r' = r + n /\ buf' = buf /\ source' = source /\ taken' = taken
<1>1. /\ r' = r + n /\ given' = given \o Take(Pending, n) /\ buf' = buf
      /\ source' = source /\ taken' = taken /\ lastOp' = IF n > 0 THEN pc ELSE lastOp
  BY DEF Consume, still
<1>2. PICK g : g = Len(given)
  OBVIOUS
<1>3. /\ g \in Nat /\ r \in Nat /\ r <= g /\ taken \in Nat /\ Len(buf) \in Nat
      /\ Len(Pending) = taken - g /\ Len(Pending) \in Nat /\ Len(Pending) = Len(buf) - r
      /\ Part(given, 0, g) /\ Part(Pending, g, taken)
  BY <1>2, RFacts DEF RInv, Placed
<1>4. Part(Take(Pending, n), g, g + n)
  BY <1>3, SplitOf DEF Part
<1>5. Part(given', 0, g + n)
  BY <1>1, <1>3, <1>4, JoinOf DEF Part
<1>6. Len(given') = g + n /\ given' \in Seq(Octet)
  BY <1>3, <1>5 DEF Part, PieceOf
<1>7. CASE n = 0
  <2>1. r' = r /\ Pending' = Pending
    BY <1>1, <1>3, <1>7 DEF Pending
  <2>2. given' = given
    <3>1. g + n = g
      BY <1>3, <1>7
    <3>2. QED
      BY <1>3, <1>5, <3>1, UniqueOf DEF Part
  <2>3. Placed' /\ (Behind => Behind')
    BY <1>1, <2>1, <2>2 DEF RInv, Placed, Behind, Part
  <2>4. Pending' \in Seq(Octet)
    BY <2>1, RFacts
  <2>5. /\ ~(n > 0) /\ lastOp' = lastOp /\ Len(given') = Len(given) + n
        /\ Len(Pending') = Len(Pending) - n
    BY ONLY <1>1, <1>2, <1>3, <1>6, <1>7, <2>1
  <2>6. QED
    BY ONLY <1>1, <1>6, <1>7, <2>1, <2>2, <2>3, <2>4, <2>5
<1>8. CASE n > 0
  <2>1. Part(buf, g - r, taken)
    <3>1. Pending # << >>
      BY <1>3, <1>8, RFacts
    <3>2. QED
      BY <1>2, <3>1 DEF RInv, Kept, Behind
  <2>2. r + n \in Nat /\ r + n <= Len(buf) /\ (g - r) + (r + n) = g + n
    BY <1>3
  <2>3. PieceOf(Octet, Drop(buf, r + n), source, (g - r) + (r + n), taken)
    BY <2>1, <2>2, SplitOf DEF Part
  <2>4. Part(Drop(buf, r + n), g + n, taken)
    BY <2>2, <2>3 DEF Part
  <2>5. Pending' = Drop(buf, r + n)
    BY <1>1 DEF Pending
  <2>6. Placed'
    BY <1>1, <1>3, <1>5, <1>6, <2>2, <2>4, <2>5 DEF Placed, Part
  <2>7. Behind'
    <3>1. Len(given') - r' = g - r
      BY <1>1, <1>3, <1>6
    <3>2. QED
      BY <1>1, <2>1, <3>1 DEF Behind, Part
  <2>8. Pending' \in Seq(Octet) /\ Len(Pending') = taken - (g + n)
    BY <2>4, <2>5 DEF Part, PieceOf
  <2>9. Len(Pending') = Len(Pending) - n
    BY <1>3, <2>8
  <2>10. ~(n = 0) /\ lastOp' = pc
    BY <1>1, <1>8
  <2>11. QED
    BY ONLY <1>1, <1>2, <1>6, <2>6, <2>7, <2>8, <2>9, <2>10
<1>9. QED
  BY <1>7, <1>8

(* Nothing of the data moves. *)
LEMMA NothingMoves ==
  ASSUME RInv, ~stale, UNCHANGED <<source, taken, buf, r, given>>
  PROVE  /\ Placed' /\ Pending' = Pending /\ (Behind => Behind')
         /\ (UNCHANGED <<lastByte, lastRuneSize, lastOp>> => ByteBack' /\ RuneBack' /\ Kept')
         /\ (UNCHANGED <<lastByte, lastOp>> /\ lastRuneSize' = -1 => ByteBack' /\ RuneBack' /\ Kept')
<1>1. Pending' = Pending
  BY DEF Pending
<1>2. Placed' /\ (Behind => Behind')
  BY <1>1 DEF RInv, Placed, Behind, Part
<1>3. UNCHANGED <<lastByte, lastRuneSize, lastOp>> => ByteBack' /\ RuneBack' /\ Kept'
  BY <1>1, <1>2 DEF RInv, ByteBack, RuneBack, Kept, Sloppy
<1>4. UNCHANGED <<lastByte, lastOp>> /\ lastRuneSize' = -1 => ByteBack' /\ RuneBack' /\ Kept'
  BY <1>1, <1>2 DEF RInv, ByteBack, RuneBack, Kept, Sloppy
<1>5. QED
  BY <1>1, <1>2, <1>3, <1>4

(* A call returns. *)
LEMMA DoneEffect ==
  ASSUME NEW e, Done(e)
  PROVE  /\ pc' = "idle" /\ arg' = 0 /\ look' = -1 /\ mark' = 0 /\ res' = e /\ Searched'
BY DEF Done, Searched

(* A new Reader, and one after a Reset. *)
FreshReader ==
  /\ source \in Sources /\ direct \in BOOLEAN /\ taken = 0 /\ buf = << >> /\ r = 0 /\ err = "nil"
  /\ lastByte = -1 /\ lastRuneSize = -1 /\ TotalRead = 0 /\ res = "nil" /\ lastOp = "none"
  /\ given = << >> /\ stale = FALSE /\ pc = "idle" /\ look = -1 /\ arg \in Nat /\ mark \in Nat

(* The invariant holds of it. *)
LEMMA Fresh == FreshReader => RInv
<1>. SUFFICES ASSUME FreshReader PROVE RInv
  OBVIOUS
<1>. USE DEF FreshReader
<1>1. source \in Seq(Octet) /\ Size \in Nat \ {0, 1}
  BY ReaderAssumption
<1>2. << >> \in Seq(Octet) /\ Len(<< >>) = 0 /\ Len(source) \in Nat
  BY <1>1, EmptySeq, LenProperties
<1>3. Pending = << >>
  BY <1>2, SubSeqEmpty DEF Pending, Drop
<1>4. PieceOf(Octet, << >>, source, 0, 0)
  BY <1>1, <1>2, WholeOf
<1>5. ReaderTypes
  <2>1. Len(buf) = 0 /\ buf \in Seq(Octet) /\ given \in Seq(Octet) /\ 0 \in 0 .. Len(source)
    BY <1>2
  <2>2. ReaderTypeOK
    BY <1>1, <2>1 DEF ReaderTypeOK
  <2>3. QED
    BY <2>1, <2>2 DEF ReaderTypes
<1>6. Placed /\ Kept
  BY <1>2, <1>3, <1>4 DEF Placed, Kept, Behind, Part
<1>7. ByteBack /\ RuneBack /\ Searched
  BY DEF ByteBack, RuneBack, Searched, Slices
<1>8. QED
  BY <1>5, <1>6, <1>7 DEF RInv

(* NewReaderSize makes such a reader. *)
LEMMA RInitial == ReaderInit => RInv
<1>1. ReaderInit => FreshReader
  BY DEF ReaderInit, FreshReader
<1>2. QED
  BY <1>1, Fresh

(* Reset forgets everything, a stale buffer too. *)
LEMMA ResetStep ==
  ASSUME RInv, Reset
  PROVE  RInv'
<1>1. pc = "idle" /\ look = -1 /\ arg \in Nat /\ mark \in Nat
  BY DEF RInv, ReaderTypes, Reset, Slices
<1>2. FreshReader'
  BY <1>1 DEF Reset, FreshReader
<1>3. QED
  BY <1>2, Fresh, PTL

(* A call is made: of what is kept for an unread, ReadByte forgets the rune. *)
LEMMA CallStep ==
  ASSUME RInv, NEW n \in Nat,
         NEW op \in {"Read", "Peek", "ReadByte", "ReadRune", "WriteTo"} \cup Slices, Call(op, n)
  PROVE  RInv'
<1>1. ~stale /\ UNCHANGED <<source, taken, buf, r, given, lastByte, lastOp, stale, direct, err, TotalRead>>
  BY DEF Call, still
<1>2. lastRuneSize' = lastRuneSize \/ lastRuneSize' = -1
  BY DEF Call
<1>3. Placed' /\ ByteBack' /\ RuneBack' /\ Kept'
  BY <1>1, <1>2, NothingMoves
<1>4. pc' = op /\ arg' = n /\ look' = -1 /\ mark' = Len(given) /\ res' = "nil" /\ Len(given) \in Nat
  BY <1>1, RFacts DEF Call
<1>5. Searched'
  BY <1>1, <1>4 DEF Searched, Slices
<1>6. ReaderTypes'
  <2>1. look' \in -1 .. Size
    BY <1>4, ReaderAssumption
  <2>2. ReaderTypeOK'
    BY <1>1, <1>2, <1>4, <2>1, SMTT(20) DEF RInv, ReaderTypes, ReaderTypeOK
  <2>3. QED
    BY <1>1, <1>4, <2>2, SMTT(20) DEF RInv, ReaderTypes
<1>7. QED
  BY <1>3, <1>5, <1>6 DEF RInv

(* A call returns that has moved nothing: it drops the error at most. *)
LEMMA QuietReturn ==
  ASSUME RInv, ~stale, NEW e \in {"nil", "eof", "err", "full", "prefix", "invalid"}, Done(e),
         UNCHANGED <<still, taken, buf, r, lastByte, TotalRead, lastOp, given>>,
         err' = "nil" \/ err' = err, lastRuneSize' = -1 \/ lastRuneSize' = lastRuneSize
  PROVE  RInv'
<1>1. UNCHANGED <<source, direct, stale>>
  BY DEF still
<1>2. Placed' /\ ByteBack' /\ RuneBack' /\ Kept'
  BY <1>1, NothingMoves
<1>3. Searched' /\ pc' = "idle" /\ arg' = 0 /\ look' = -1 /\ mark' = 0 /\ res' = e
  BY DoneEffect
<1>4. ReaderTypes'
  <2>1. look' \in -1 .. Size
    BY <1>3, ReaderAssumption
  <2>2. ReaderTypeOK'
    BY <1>1, <1>3, <2>1, SMTT(20) DEF RInv, ReaderTypes, ReaderTypeOK
  <2>3. QED
    BY <1>1, <1>3, <2>2, SMTT(20) DEF RInv, ReaderTypes
<1>5. QED
  BY <1>2, <1>3, <1>4 DEF RInv

(* Read of nothing, or of an empty buffer and an error. *)
LEMMA ReadFailsStep ==
  ASSUME RInv, ReadFails
  PROVE  RInv'
<1>1. ~stale /\ err \in {"nil", "eof", "err"}
  BY DEF RInv, ReaderTypes, ReaderTypeOK, ReadFails
<1>2. QED
  BY <1>1, QuietReturn DEF ReadFails, FailWith

(* Peek leaves the data where it is; b.err is cleared when it is returned. *)
LEMMA PeekStep ==
  ASSUME RInv, Peek
  PROVE  RInv'
<1>1. ~stale /\ err \in {"nil", "eof", "err"}
  BY DEF RInv, ReaderTypes, ReaderTypeOK, Peek
<1>2. UNCHANGED <<still, taken, buf, r, lastByte, TotalRead, lastOp, given>> /\ lastRuneSize' = lastRuneSize
  BY DEF Peek, last
<1>3. CASE Done(IF arg > Size THEN "full" ELSE "nil") /\ UNCHANGED err
  BY <1>1, <1>2, <1>3, QuietReturn
<1>4. CASE Done(err) /\ err' = "nil"
  BY <1>1, <1>2, <1>4, QuietReturn
<1>5. QED
  BY <1>3, <1>4 DEF Peek

(* n bytes are handed out by Read, ReadByte or ReadRune. *)
LEMMA ReturnStep ==
  ASSUME RInv, ~stale, NEW n \in Nat, n > 0, n <= Len(Pending), NEW m, m = -1 \/ (m = n /\ n <= 2),
         ReadReturn(n, m)
  PROVE  RInv'
<1>1. /\ Consume(n, n) /\ Done("nil") /\ err' = err
      /\ lastByte' = Pending[n] /\ lastRuneSize' = m
  BY DEF ReadReturn
<1>2. PICK g : g = Len(given)
  OBVIOUS
<1>3. /\ Placed' /\ Len(given') = g + n /\ given' \in Seq(Octet) /\ Behind'
      /\ r' = r + n /\ buf' = buf /\ source' = source /\ taken' = taken
  BY <1>1, <1>2, ConsumeEffect
<1>4. /\ UNCHANGED <<direct, stale>> /\ TotalRead' = TotalRead + n
  BY <1>1 DEF Consume, still
<1>5. /\ g \in Nat /\ r \in Nat /\ taken \in Nat /\ Part(Pending, g, taken) /\ Len(Pending) = taken - g
      /\ Len(buf) \in Nat /\ Len(Pending) = Len(buf) - r
  BY <1>2, RFacts DEF RInv, Placed
<1>6. Pending[n] = source[g + n] /\ Pending[n] \in Octet
  <2>1. Pending \in Seq(Octet) /\ n \in 1 .. taken - g /\ n \in 1 .. Len(Pending)
    BY <1>5, RFacts
  <2>2. Pending[n] \in Octet
    BY <2>1, ElementOfSeq
  <2>3. QED
    BY <1>5, <2>1, <2>2 DEF Part, PieceOf
<1>7. Searched' /\ pc' = "idle" /\ arg' = 0 /\ look' = -1 /\ mark' = 0 /\ res' = "nil"
  BY <1>1, DoneEffect
<1>8. ByteBack' /\ RuneBack' /\ Kept'
  BY <1>1, <1>3, <1>5, <1>6 DEF ByteBack, RuneBack, Kept
<1>9. ReaderTypes'
  <2>1. lastByte' \in -1 .. 255 /\ lastRuneSize' \in {-1, 1, 2}
    BY <1>1, <1>6 DEF Octet
  <2>2. r' \in -1 .. Len(buf')
    BY <1>3, <1>5
  <2>3. TotalRead' \in Nat
    BY <1>4 DEF RInv, ReaderTypes, ReaderTypeOK
  <2>4. ReaderTypeOK'
    <3>1. /\ source' \in Sources /\ direct' \in BOOLEAN /\ taken' \in 0 .. Len(source')
          /\ Len(buf') <= Size /\ err' \in {"nil", "eof", "err"}
      BY <1>1, <1>3, <1>4 DEF RInv, ReaderTypes, ReaderTypeOK
    <3>2. look' \in -1 .. Size /\ res' \in {"nil", "eof", "err", "full", "prefix", "invalid"}
      BY <1>7, ReaderAssumption
    <3>3. QED
      BY <2>1, <2>2, <2>3, <3>1, <3>2 DEF ReaderTypeOK
  <2>5. QED
    BY <1>1, <1>3, <1>4, <1>7, <2>4 DEF RInv, ReaderTypes
<1>10. QED
  BY <1>3, <1>7, <1>8, <1>9 DEF RInv

(* Read copies what fits into p. *)
LEMMA ReadStep ==
  ASSUME RInv, Read
  PROVE  RInv'
<1>1. /\ ~stale /\ arg \in Nat /\ arg > 0 /\ Pending # << >>
      /\ ReadReturn(IF arg > Len(Pending) THEN Len(Pending) ELSE arg, -1)
  BY DEF RInv, ReaderTypes, Read
<1>2. Len(Pending) \in Nat /\ Len(Pending) > 0
  BY <1>1, RFacts
<1>3. PICK n : n = IF arg > Len(Pending) THEN Len(Pending) ELSE arg
  OBVIOUS
<1>4. n \in Nat /\ n > 0 /\ n <= Len(Pending) /\ ReadReturn(n, -1)
  BY <1>1, <1>2, <1>3
<1>5. QED
  BY <1>1, <1>4, ReturnStep

(* ReadByte returns the first byte buffered, or the error. *)
LEMMA ReadByteStep ==
  ASSUME RInv, ReadByte
  PROVE  RInv'
<1>1. ~stale /\ err \in {"nil", "eof", "err"}
  BY DEF RInv, ReaderTypes, ReaderTypeOK, ReadByte
<1>2. CASE Pending # << >> /\ ReadReturn(1, -1)
  <2>1. Len(Pending) >= 1
    BY <1>1, <1>2, RFacts
  <2>2. QED
    BY <1>1, <1>2, <2>1, ReturnStep
<1>3. CASE FailWith(err) /\ UNCHANGED lastRuneSize
  BY <1>1, <1>3, QuietReturn DEF FailWith
<1>4. QED
  BY <1>2, <1>3 DEF ReadByte

(* ReadRune returns one or two bytes that are buffered, or the error. *)
LEMMA ReadRuneStep ==
  ASSUME RInv, ReadRune
  PROVE  RInv'
<1>1. ~stale /\ err \in {"nil", "eof", "err"}
  BY DEF RInv, ReaderTypes, ReaderTypeOK, ReadRune
<1>2. CASE Pending # << >> /\ ReadReturn(RuneSize, RuneSize)
  <2>1. Len(Pending) \in Nat /\ Len(Pending) >= 1
    BY <1>1, <1>2, RFacts
  <2>2. RuneSize \in {1, 2} /\ RuneSize <= Len(Pending)
    BY <2>1 DEF RuneSize
  <2>3. QED
    BY <1>1, <1>2, <2>2, ReturnStep
<1>3. CASE FailWith(err) /\ lastRuneSize' = -1
  BY <1>1, <1>3, QuietReturn DEF FailWith
<1>4. QED
  BY <1>2, <1>3 DEF ReadRune

(* Bytes are handed out by a call that leaves lastByte and lastRuneSize. *)
LEMMA SloppyConsume ==
  ASSUME RInv, ~stale, NEW n \in Nat, n <= Len(Pending), NEW m, Consume(n, m),
         UNCHANGED last, pc \in Sloppy
  PROVE  /\ Placed' /\ ByteBack' /\ RuneBack' /\ Kept'
         /\ given' \in Seq(Octet) /\ Len(given') = Len(given) + n
         /\ Pending' \in Seq(Octet) /\ Len(Pending') = Len(Pending) - n
<1>1. UNCHANGED <<lastByte, lastRuneSize, source, taken, buf>>
  BY DEF last, Consume, still
<1>2. PICK g : g = Len(given)
  OBVIOUS
<1>3. /\ Placed' /\ Len(given') = g + n /\ Len(Pending') = Len(Pending) - n
      /\ given' \in Seq(Octet) /\ Pending' \in Seq(Octet)
      /\ (n > 0 => Behind') /\ (Behind => Behind') /\ r' = r + n
      /\ (n = 0 => given' = given /\ Pending' = Pending /\ lastOp' = lastOp)
      /\ (n > 0 => lastOp' = pc)
  BY <1>2, ConsumeEffect
<1>4. g \in Nat /\ r \in Nat
  BY <1>2, RFacts
<1>5. CASE n = 0
  <2>1. r' = r
    BY <1>3, <1>4, <1>5
  <2>2. QED
    BY <1>1, <1>2, <1>3, <1>5, <2>1 DEF RInv, ByteBack, RuneBack, Kept, Sloppy
<1>6. CASE n > 0
  <2>1. ByteBack'
    BY <1>1, <1>2, <1>3, <1>4, <1>6 DEF RInv, ByteBack, Sloppy
  <2>2. lastRuneSize \in {-1, 1, 2} /\ (lastRuneSize > 0 => lastRuneSize <= g)
    BY <1>2 DEF RInv, RuneBack, ReaderTypes, ReaderTypeOK
  <2>3. RuneBack'
    BY <1>1, <1>3, <1>4, <1>6, <2>2 DEF RuneBack, Sloppy
  <2>4. QED
    BY <1>2, <1>3, <1>6, <2>1, <2>3 DEF Kept
<1>7. QED
  BY <1>5, <1>6

(* What it does to the types, if it counts what it hands out. *)
LEMMA SloppyTypes ==
  ASSUME RInv, ~stale, NEW n \in Nat, n <= Len(Pending), NEW m \in Nat, Consume(n, m),
         UNCHANGED last, pc \in Sloppy, err' = err \/ err' = "nil",
         res' \in {"nil", "eof", "err", "full", "prefix", "invalid"}, arg' \in Nat, mark' \in Nat,
         pc' \in {"idle", "Drain", "ReadBytes"}, look' = -1
  PROVE  ReaderTypes'
<1>1. /\ UNCHANGED <<lastByte, lastRuneSize, source, direct, taken, buf, stale>>
      /\ r' = r + n /\ TotalRead' = TotalRead + m
  BY DEF last, Consume, still
<1>2. given' \in Seq(Octet)
  BY SloppyConsume
<1>3. r' \in -1 .. Len(buf')
  <2>1. r \in Nat /\ Len(buf) \in Nat /\ Len(Pending) = Len(buf) - r
    BY RFacts
  <2>2. QED
    BY <1>1, <2>1
<1>4. TotalRead' \in Nat
  BY <1>1 DEF RInv, ReaderTypes, ReaderTypeOK
<1>5. ReaderTypeOK'
  <2>1. /\ source' \in Sources /\ direct' \in BOOLEAN /\ taken' \in 0 .. Len(source')
        /\ Len(buf') <= Size /\ err' \in {"nil", "eof", "err"}
        /\ lastByte' \in -1 .. 255 /\ lastRuneSize' \in {-1, 1, 2}
    BY <1>1 DEF RInv, ReaderTypes, ReaderTypeOK
  <2>2. look' \in -1 .. Size
    BY ReaderAssumption
  <2>3. QED
    BY <1>3, <1>4, <2>1, <2>2 DEF ReaderTypeOK
<1>6. QED
  BY <1>1, <1>2, <1>5 DEF RInv, ReaderTypes, Slices

(* What is buffered has no end of a line. *)
LEMMA NoLineAhead ==
  ASSUME RInv, ~stale, ~HasLine
  PROVE  \A i \in Nat : (i > Len(given) /\ i <= taken) => source[i] # NL
<1>1. /\ Len(given) \in Nat /\ taken \in Nat /\ Part(Pending, Len(given), taken)
      /\ Len(Pending) = taken - Len(given)
  BY RFacts DEF RInv, Placed
<1>2. SUFFICES ASSUME NEW i \in Nat, i > Len(given), i <= taken, source[i] = NL PROVE FALSE
  OBVIOUS
<1>3. PICK j : j = i - Len(given)
  OBVIOUS
<1>4. j \in 1 .. taken - Len(given) /\ Len(given) + j = i
  BY <1>1, <1>2, <1>3
<1>5. Pending[j] = source[i] /\ j \in 1 .. Len(Pending)
  BY <1>1, <1>4 DEF Part, PieceOf
<1>6. QED
  BY <1>2, <1>5 DEF HasLine, Contains

(* A line ends in what came with the last fill(): what is counted is not negative. *)
LEMMA SliceFoundStep ==
  ASSUME RInv, SliceFound
  PROVE  RInv'
<1>1. /\ ~stale /\ pc \in Sloppy /\ HasLine /\ UNCHANGED last /\ err' = err
      /\ Done("nil")
  BY DEF SliceFound, RInv, ReaderTypes, Slices, Sloppy
<1>2. PICK n : n = SelectInSeq(Pending, LAMBDA b : b = NL)
  OBVIOUS
<1>3. PICK m : m = IF look > 0 THEN n - look ELSE n
  OBVIOUS
<1>4. Consume(n, m)
  BY <1>2, <1>3 DEF SliceFound
<1>5. PICK g : g = Len(given)
  OBVIOUS
<1>6. /\ Pending \in Seq(Octet) /\ g \in Nat /\ taken \in Nat /\ Len(Pending) = taken - g
      /\ Part(Pending, g, taken)
  BY <1>1, <1>5, RFacts DEF RInv, Placed
<1>7. n \in 1 .. Len(Pending) /\ Pending[n] = NL
  BY <1>1, <1>2, <1>6, FirstLine
<1>8. source[g + n] = NL
  BY <1>6, <1>7 DEF Part, PieceOf
<1>9. m \in Nat
  <2>1. look >= 0 => \A i \in 1 .. look : source[g + i] # NL
    BY <1>1, <1>5 DEF RInv, Searched
  <2>2. look \in Int /\ n \in Nat /\ n > 0
    BY <1>6, <1>7, ReaderAssumption DEF RInv, ReaderTypes, ReaderTypeOK
  <2>3. look > 0 => n > look
    BY <1>8, <2>1, <2>2
  <2>4. QED
    BY <1>3, <2>2, <2>3
<1>10. n \in Nat /\ n <= Len(Pending)
  BY <1>6, <1>7
<1>11. Placed' /\ ByteBack' /\ RuneBack' /\ Kept'
  BY <1>1, <1>4, <1>10, SloppyConsume
<1>12. pc' = "idle" /\ arg' = 0 /\ look' = -1 /\ mark' = 0 /\ res' = "nil" /\ Searched'
  BY <1>1, DoneEffect
<1>13. ReaderTypes'
  BY <1>1, <1>4, <1>9, <1>10, <1>12, SloppyTypes
<1>14. QED
  BY <1>11, <1>12, <1>13 DEF RInv

(* The buffer is full and has no end of a line, nor has what ReadBytes collected. *)
LEMMA SliceFullStep ==
  ASSUME RInv, SliceFull
  PROVE  RInv'
<1>1. /\ ~stale /\ pc \in Slices /\ pc \in Sloppy /\ ~HasLine /\ UNCHANGED last /\ err' = err
      /\ Len(Pending) = Size /\ Size \in Nat \ {0, 1}
  BY ReaderAssumption DEF SliceFull, RInv, ReaderTypes, Slices, Sloppy
<1>2. PICK n : n = IF pc = "ReadLine" /\ Last(Pending) = CR THEN Size - 1 ELSE Size
  OBVIOUS
<1>3. Consume(n, Size) /\ n \in Nat /\ n <= Len(Pending)
  BY <1>1, <1>2 DEF SliceFull
<1>4. PICK g : g = Len(given)
  OBVIOUS
<1>5. g \in Nat /\ taken \in Nat /\ Len(Pending) = taken - g
  BY <1>1, <1>4, RFacts
<1>6. Placed' /\ ByteBack' /\ RuneBack' /\ Kept' /\ Len(given') = g + n
  BY <1>1, <1>3, <1>4, SloppyConsume
<1>7. UNCHANGED <<source, direct, stale, taken>>
  BY <1>3 DEF Consume, still
<1>8. CASE pc = "ReadBytes" /\ look' = -1 /\ UNCHANGED <<pc, arg, mark, res>>
  <2>1. mark \in Nat /\ arg \in Nat /\ res \in {"nil", "eof", "err", "full", "prefix", "invalid"}
    BY DEF RInv, ReaderTypes, ReaderTypeOK
  <2>2. mark <= g /\ \A i \in 1 .. g : i > mark => source[i] # NL
    BY <1>1, <1>4, <1>8 DEF RInv, Searched
  <2>3. \A i \in Nat : (i > g /\ i <= taken) => source[i] # NL
    BY <1>1, <1>4, NoLineAhead
  <2>4. ASSUME NEW i \in 1 .. g + n, i > mark PROVE source[i] # NL
    BY <1>3, <1>5, <2>2, <2>3, <2>4
  <2>5. mark <= g + n
    BY <1>3, <1>5, <2>1, <2>2
  <2>6. Searched'
    BY <1>6, <1>7, <1>8, <2>4, <2>5 DEF Searched
  <2>7. ReaderTypes'
    BY <1>1, <1>3, <1>8, <2>1, SloppyTypes
  <2>8. QED
    BY <1>6, <2>6, <2>7 DEF RInv
<1>9. ASSUME NEW e \in {"prefix", "full"}, Done(e) PROVE RInv'
  <2>1. pc' = "idle" /\ arg' = 0 /\ look' = -1 /\ mark' = 0 /\ res' = e /\ Searched'
    BY <1>9, DoneEffect
  <2>2. ReaderTypes'
    BY <1>1, <1>3, <2>1, SloppyTypes
  <2>3. QED
    BY <1>6, <2>1, <2>2 DEF RInv
<1>10. QED
  BY <1>8, <1>9 DEF SliceFull

(* An error ends the slice with all that is buffered. *)
LEMMA SliceErrorStep ==
  ASSUME RInv, SliceError
  PROVE  RInv'
<1>1. /\ ~stale /\ pc \in Sloppy /\ UNCHANGED last /\ err' = "nil"
      /\ Consume(Len(Pending), Len(Pending)) /\ err \in {"nil", "eof", "err"}
  BY DEF SliceError, RInv, ReaderTypes, ReaderTypeOK, Slices, Sloppy
<1>2. Len(Pending) \in Nat /\ Len(Pending) <= Len(Pending)
  BY <1>1, RFacts
<1>3. PICK e \in {"nil", "eof", "err"} : Done(e)
  BY <1>1 DEF SliceError
<1>4. Placed' /\ ByteBack' /\ RuneBack' /\ Kept'
  BY <1>1, <1>2, SloppyConsume
<1>5. pc' = "idle" /\ arg' = 0 /\ look' = -1 /\ mark' = 0 /\ res' = e /\ Searched'
  BY <1>3, DoneEffect
<1>6. ReaderTypes'
  BY <1>1, <1>2, <1>5, SloppyTypes
<1>7. QED
  BY <1>4, <1>5, <1>6 DEF RInv

(* writeBuf leaves an empty buffer, or WriteTo fails. *)
LEMMA WriteBufStep ==
  ASSUME RInv, NEW n \in Nat, NEW ok \in BOOLEAN, WriteBuf(n, ok)
  PROVE  RInv'
<1>1. /\ ~stale /\ pc \in Sloppy /\ UNCHANGED last /\ err' = err /\ pc = "WriteTo" /\ look = -1
      /\ n <= Len(Pending) /\ (ok => n = Len(Pending)) /\ Consume(n, n)
  BY DEF WriteBuf, RInv, ReaderTypes, Slices, Sloppy
<1>2. /\ Placed' /\ ByteBack' /\ RuneBack' /\ Kept'
      /\ Pending' \in Seq(Octet) /\ Len(Pending') = Len(Pending) - n
  BY <1>1, SloppyConsume
<1>3. CASE ok /\ pc' = "Drain" /\ UNCHANGED <<arg, look, mark, res>>
  <2>1. /\ mark \in Nat /\ arg \in Nat /\ res \in {"nil", "eof", "err", "full", "prefix", "invalid"}
    BY DEF RInv, ReaderTypes, ReaderTypeOK
  <2>2. Len(Pending') = 0
    BY <1>1, <1>2, <1>3
  <2>3. Pending' = << >>
    BY <1>2, <2>2, EmptyIffZero
  <2>4. Searched'
    BY <1>1, <1>3, <2>3 DEF Searched
  <2>5. ReaderTypes'
    BY <1>1, <1>3, <2>1, SloppyTypes
  <2>6. QED
    BY <1>2, <2>4, <2>5 DEF RInv
<1>4. CASE Done("err")
  <2>1. pc' = "idle" /\ arg' = 0 /\ look' = -1 /\ mark' = 0 /\ res' = "err" /\ Searched'
    BY <1>4, DoneEffect
  <2>2. ReaderTypes'
    BY <1>1, <2>1, SloppyTypes
  <2>3. QED
    BY <1>2, <2>1, <2>2 DEF RInv
<1>5. QED
  BY <1>3, <1>4 DEF WriteBuf

(* With nothing buffered, bytes go from b.rd past the buffer. *)
LEMMA DirectEffect ==
  ASSUME RInv, ~stale, Pending = << >>, NEW n \in Nat, n <= Len(Remaining),
         given' = given \o Take(Remaining, n), taken' = taken + n, UNCHANGED <<source, buf, r>>
  PROVE  /\ Placed' /\ Pending' = << >> /\ Len(given') = taken + n /\ Len(given) = taken
         /\ given' \in Seq(Octet) /\ taken' \in 0 .. Len(source')
         /\ (n = 0 => given' = given /\ taken' = taken /\ (Behind => Behind'))
         /\ (n > 0 => Remaining[n] = source[taken + n] /\ Remaining[n] \in Octet)
<1>1. PICK t : t = taken
  OBVIOUS
<1>2. /\ t \in Nat /\ Len(given) = t /\ Part(given, 0, t) /\ Part(Remaining, t, Len(source))
      /\ Len(Remaining) = Len(source) - t /\ Len(source) \in Nat /\ source \in Seq(Octet)
      /\ r \in Nat /\ r <= t
  <2>1. Len(given) = taken
    BY RFacts
  <2>2. QED
    BY <1>1, <2>1, RFacts DEF RInv, Placed
<1>3. Part(Take(Remaining, n), t, t + n)
  BY <1>2, SplitOf DEF Part
<1>4. Part(given', 0, t + n)
  BY <1>2, <1>3, JoinOf DEF Part
<1>5. Len(given') = t + n /\ given' \in Seq(Octet)
  BY <1>2, <1>4 DEF Part, PieceOf
<1>6. Pending' = << >>
  BY DEF Pending
<1>7. t + n \in 0 .. Len(source) /\ r <= t + n
  BY <1>2
<1>8. Part(<< >>, t + n, t + n)
  BY <1>2, <1>7, WholeOf DEF Part
<1>9. Placed'
  BY <1>1, <1>2, <1>4, <1>5, <1>6, <1>7, <1>8 DEF Placed, Part
<1>10. CASE n = 0
  <2>1. t + n = t /\ taken' = taken /\ ~(n > 0)
    BY <1>1, <1>2, <1>10
  <2>2. given' = given
    BY <1>2, <1>4, <2>1, UniqueOf DEF Part
  <2>3. Behind => Behind'
    BY <2>1, <2>2 DEF Behind, Part
  <2>4. QED
    BY <1>1, <1>2, <1>5, <1>6, <1>7, <1>9, <2>1, <2>2, <2>3
<1>11. CASE n > 0
  <2>1. n \in 1 .. Len(source) - t /\ n \in 1 .. Len(Remaining)
    BY <1>2, <1>11
  <2>2. Remaining[n] = source[t + n] /\ Remaining \in Seq(Octet)
    BY <1>2, <2>1 DEF Part, PieceOf
  <2>3. Remaining[n] \in Octet
    BY <2>1, <2>2, ElementOfSeq
  <2>4. QED
    BY <1>1, <1>2, <1>5, <1>6, <1>7, <1>9, <1>11, <2>2, <2>3
<1>12. QED
  BY <1>10, <1>11

(* The io.WriterTo underneath goes on where the empty buffer ended. *)
LEMMA DrainDirectStep ==
  ASSUME RInv, NEW n \in Nat, NEW ok \in BOOLEAN, DrainDirect(n, ok)
  PROVE  RInv'
<1>1. /\ ~stale /\ pc = "Drain" /\ n <= Len(Remaining) /\ given' = given \o Take(Remaining, n)
      /\ taken' = taken + n /\ TotalRead' = TotalRead + n
      /\ lastOp' = IF n > 0 THEN "WriteTo" ELSE lastOp
      /\ UNCHANGED <<source, direct, stale, buf, r, err, lastByte, lastRuneSize>>
  BY DEF DrainDirect, RInv, ReaderTypes, still, last
<1>2. Pending = << >>
  BY <1>1 DEF RInv, Searched
<1>3. PICK t : t = taken
  OBVIOUS
<1>4. /\ Placed' /\ Pending' = << >> /\ Len(given') = t + n /\ Len(given) = t
      /\ given' \in Seq(Octet) /\ taken' \in 0 .. Len(source')
      /\ (n = 0 => given' = given /\ taken' = taken /\ (Behind => Behind'))
  BY <1>1, <1>2, <1>3, DirectEffect
<1>5. t \in Nat /\ Len(Remaining) = Len(source) - t /\ Len(source) \in Nat
  BY <1>1, <1>3, RFacts
<1>6. PICK e \in {"nil", "err"} : Done(e)
  BY DEF DrainDirect
<1>7. pc' = "idle" /\ arg' = 0 /\ look' = -1 /\ mark' = 0 /\ res' = e /\ Searched'
  BY <1>6, DoneEffect
<1>8. ByteBack' /\ RuneBack' /\ Kept'
  <2>1. CASE n = 0
    BY <1>1, <1>2, <1>4, <2>1 DEF RInv, ByteBack, RuneBack, Kept, Sloppy
  <2>2. CASE n > 0
    <3>1. lastOp' \in Sloppy
      BY <1>1, <2>2 DEF Sloppy
    <3>2. lastRuneSize \in {-1, 1, 2} /\ (lastRuneSize > 0 => lastRuneSize <= t)
      BY <1>1, <1>4 DEF RInv, RuneBack, ReaderTypes, ReaderTypeOK
    <3>3. t + n > 0 /\ (lastRuneSize > 0 => lastRuneSize <= t + n)
      BY <1>5, <2>2, <3>2
    <3>4. QED
      BY <1>1, <1>4, <3>1, <3>3 DEF ByteBack, RuneBack, Kept, Sloppy
  <2>3. QED
    BY <2>1, <2>2
<1>9. ReaderTypes'
  <2>1. err' = "eof" => taken' = Len(source')
    <3>1. err = "eof" => t = Len(source)
      BY <1>1, <1>3 DEF RInv, ReaderTypes
    <3>2. QED
      BY <1>1, <1>3, <1>5, <3>1
  <2>2. TotalRead' \in Nat /\ look' \in -1 .. Size
    BY <1>1, <1>7, ReaderAssumption DEF RInv, ReaderTypes, ReaderTypeOK
  <2>3. ReaderTypeOK'
    BY <1>1, <1>4, <1>7, <2>2 DEF RInv, ReaderTypes, ReaderTypeOK
  <2>4. QED
    BY <1>1, <1>4, <1>7, <2>1, <2>3 DEF RInv, ReaderTypes
<1>10. QED
  BY <1>4, <1>7, <1>8, <1>9 DEF RInv

(* A large Read goes on there too, and its last byte can be unread. *)
LEMMA ReadDirectStep ==
  ASSUME RInv, NEW n \in Nat, NEW e \in {"nil", "eof", "err"}, ReadDirect(n, e)
  PROVE  RInv'
<1>1. /\ ~stale /\ pc = "Read" /\ n <= Len(Remaining) /\ given' = given \o Take(Remaining, n)
      /\ taken' = taken + n /\ TotalRead' = TotalRead + n /\ Pending = << >> /\ err = "nil"
      /\ UNCHANGED <<source, direct, stale, buf, r, err>> /\ Done(e)
  BY DEF ReadDirect, Gives, RInv, ReaderTypes, still
<1>2. PICK t : t = taken
  OBVIOUS
<1>3. /\ Placed' /\ Pending' = << >> /\ Len(given') = t + n /\ Len(given) = t
      /\ given' \in Seq(Octet) /\ taken' \in 0 .. Len(source')
      /\ (n = 0 => given' = given /\ taken' = taken /\ (Behind => Behind'))
      /\ (n > 0 => Remaining[n] = source[t + n] /\ Remaining[n] \in Octet)
  BY <1>1, <1>2, DirectEffect
<1>4. t \in Nat
  BY <1>1, <1>2, RFacts
<1>5. pc' = "idle" /\ arg' = 0 /\ look' = -1 /\ mark' = 0 /\ res' = e /\ Searched'
  BY <1>1, DoneEffect
<1>6. ByteBack' /\ RuneBack' /\ Kept' /\ lastByte' \in -1 .. 255 /\ lastRuneSize' \in {-1, 1, 2}
  <2>1. CASE n = 0
    <3>1. UNCHANGED <<lastByte, lastRuneSize, lastOp>>
      BY <2>1 DEF ReadDirect, last
    <3>2. ByteBack' /\ RuneBack' /\ Kept'
      BY <1>1, <1>3, <2>1, <3>1 DEF RInv, ByteBack, RuneBack, Kept, Sloppy
    <3>3. QED
      BY <3>1, <3>2 DEF RInv, ReaderTypes, ReaderTypeOK
  <2>2. CASE n > 0
    <3>1. lastByte' = source[t + n] /\ lastRuneSize' = -1 /\ source[t + n] \in Octet
      BY <1>3, <2>2 DEF ReadDirect, LastOf
    <3>2. lastByte' \in -1 .. 255 /\ lastByte' >= 0 /\ t + n > 0
      BY <1>4, <2>2, <3>1 DEF Octet
    <3>3. QED
      BY <1>1, <1>3, <3>1, <3>2 DEF ByteBack, RuneBack, Kept
  <2>3. QED
    BY <2>1, <2>2
<1>7. ReaderTypes'
  <2>1. TotalRead' \in Nat /\ look' \in -1 .. Size
    BY <1>1, <1>5, ReaderAssumption DEF RInv, ReaderTypes, ReaderTypeOK
  <2>2. ReaderTypeOK'
    BY <1>1, <1>3, <1>5, <1>6, <2>1 DEF RInv, ReaderTypes, ReaderTypeOK
  <2>3. QED
    BY <1>1, <1>3, <1>5, <2>2 DEF RInv, ReaderTypes
<1>8. QED
  BY <1>3, <1>5, <1>6, <1>7 DEF RInv

(* The buffer is filled. *)
LEMMA FillEffect ==
  ASSUME RInv, ~stale, NEW n \in Nat, n <= Len(Remaining), taken' = taken + n, r' = 0,
         buf' = Pending \o Take(Remaining, n), UNCHANGED <<source, given, last, lastOp>>
  PROVE  /\ Placed' /\ ByteBack' /\ RuneBack' /\ Kept' /\ Pending' = buf'
         /\ buf' \in Seq(Octet) /\ Len(buf') = Len(Pending) + n /\ taken' \in 0 .. Len(source')
<1>1. PICK t : t = taken
  OBVIOUS
<1>2. PICK g : g = Len(given)
  OBVIOUS
<1>3. /\ t \in Nat /\ g \in Nat /\ g <= t /\ Part(Pending, g, t) /\ Part(Remaining, t, Len(source))
      /\ Len(Remaining) = Len(source) - t /\ Len(source) \in Nat /\ Len(Pending) = t - g
      /\ Part(given, 0, g)
  BY <1>1, <1>2, RFacts DEF RInv, Placed
<1>4. Part(Take(Remaining, n), t, t + n)
  BY <1>3, SplitOf DEF Part
<1>5. Part(buf', g, t + n)
  BY <1>3, <1>4, JoinOf DEF Part
<1>6. buf' \in Seq(Octet) /\ Len(buf') = (t + n) - g
  BY <1>5 DEF Part, PieceOf
<1>7. Len(buf') = Len(Pending) + n /\ t + n \in 0 .. Len(source)
  BY <1>3, <1>6
<1>8. Pending' = buf'
  <2>1. PICK b : b = buf'
    OBVIOUS
  <2>2. b \in Seq(Octet) /\ Len(b) \in Nat
    BY <1>6, <2>1, LenProperties
  <2>3. Drop(b, 0) = b
    BY <2>2, DropNone
  <2>4. QED
    BY <2>1, <2>3 DEF Pending
<1>9. Placed'
  BY <1>1, <1>2, <1>3, <1>5, <1>8 DEF Placed, Part
<1>10. Behind'
  <2>1. g - 0 = g
    BY <1>3
  <2>2. QED
    BY <1>1, <1>2, <1>5, <2>1 DEF Behind, Part
<1>11. ByteBack' /\ RuneBack' /\ Kept'
  BY <1>10 DEF RInv, ByteBack, RuneBack, Kept, last, Sloppy
<1>12. QED
  BY <1>1, <1>6, <1>7, <1>8, <1>9, <1>11

(* fill() for the call in progress; ReadSlice has searched what was there. *)
LEMMA FillStep ==
  ASSUME RInv, NEW n \in Nat, NEW e \in {"nil", "eof", "err"}, Fill(n, e)
  PROVE  RInv'
<1>1. /\ ~stale /\ n <= Len(Remaining) /\ taken' = taken + n /\ r' = 0 /\ n <= Size - Len(Pending)
      /\ buf' = Pending \o Take(Remaining, n) /\ UNCHANGED <<source, given, last, lastOp>>
      /\ err = "nil" /\ err' = (IF e = "nil" THEN err ELSE e)
      /\ (e = "eof" => n = Len(Remaining)) /\ pc # "Drain"
      /\ UNCHANGED <<direct, stale, lastByte, lastRuneSize, TotalRead, pc, arg, mark, res, lastOp>>
  BY DEF Fill, FillWith, Gives, Wants, Room, RInv, ReaderTypes, still, last, Slices
<1>2. /\ Placed' /\ ByteBack' /\ RuneBack' /\ Kept' /\ Pending' = buf'
      /\ buf' \in Seq(Octet) /\ Len(buf') = Len(Pending) + n /\ taken' \in 0 .. Len(source')
  BY <1>1, FillEffect
<1>3. PICK g : g = Len(given)
  OBVIOUS
<1>4. PICK p : p = Len(Pending)
  OBVIOUS
<1>5. /\ p \in Nat /\ Size \in Nat /\ taken \in Nat /\ Len(source) \in Nat /\ g \in Nat
      /\ p <= Size /\ Len(Remaining) = Len(source) - taken /\ p = taken - g
  BY <1>1, <1>3, <1>4, RFacts
<1>6. look' = IF pc \in Slices THEN p ELSE look
  BY <1>4 DEF Fill
<1>7. Searched'
  <2>1. CASE pc \in Slices
    <3>1. \A i \in Nat : (i > g /\ i <= taken) => source[i] # NL
      <4>1. ~HasLine
        BY <2>1 DEF Fill, Wants, Slices
      <4>2. QED
        BY <1>1, <1>3, <4>1, NoLineAhead
    <3>2. ASSUME NEW i \in 1 .. p PROVE source[g + i] # NL
      <4>1. g + i \in Nat /\ g + i > g /\ g + i <= taken
        BY <1>5
      <4>2. QED
        BY <3>1, <4>1
    <3>3. p <= Len(Pending')
      BY <1>2, <1>4, <1>5
    <3>4. QED
      BY <1>1, <1>3, <1>6, <2>1, <3>2, <3>3 DEF RInv, Searched
  <2>2. CASE pc \notin Slices
    <3>1. look' = -1
      BY <1>6, <2>2 DEF RInv, ReaderTypes
    <3>2. QED
      BY <1>1, <2>2, <3>1 DEF Searched, Slices
  <2>3. QED
    BY <2>1, <2>2
<1>8. ReaderTypes'
  <2>1. look \in -1 .. Size
    BY DEF RInv, ReaderTypes, ReaderTypeOK
  <2>2. look' \in -1 .. Size
    BY <1>5, <1>6, <2>1
  <2>3. Len(buf') <= Size /\ 0 \in -1 .. Len(buf')
    BY <1>1, <1>2, <1>4, <1>5
  <2>4. ReaderTypeOK'
    BY <1>1, <1>2, <2>2, <2>3 DEF RInv, ReaderTypes, ReaderTypeOK
  <2>5. err' = "eof" => taken' = Len(source')
    BY <1>1, <1>5
  <2>6. pc' \notin Slices => look' = -1
    BY <1>1, <1>6 DEF RInv, ReaderTypes
  <2>7. QED
    BY <1>1, <1>2, <2>4, <2>5, <2>6 DEF RInv, ReaderTypes
<1>9. QED
  BY <1>2, <1>7, <1>8 DEF RInv

(* WriteTo fills the empty buffer, or ends. *)
LEMMA DrainStep ==
  ASSUME RInv, NEW n \in Nat, NEW e \in {"nil", "eof", "err"}, Drain(n, e)
  PROVE  RInv'
<1>1. /\ ~stale /\ pc = "Drain" /\ n <= Len(Remaining) /\ taken' = taken + n /\ r' = 0 /\ n <= Size
      /\ buf' = Take(Remaining, n) /\ UNCHANGED <<source, given, last, lastOp>>
      /\ (e = "eof" => n = Len(Remaining))
      /\ UNCHANGED <<direct, stale, lastByte, lastRuneSize, TotalRead>>
  BY DEF Drain, Gives, RInv, ReaderTypes, still, last
<1>2. Pending = << >>
  BY <1>1 DEF RInv, Searched
<1>3. /\ Len(Pending) = 0 /\ taken \in Nat /\ Len(source) \in Nat /\ Size \in Nat
      /\ Len(Remaining) = Len(source) - taken /\ Remaining \in Seq(Octet)
  BY <1>1, <1>2, RFacts DEF Part, PieceOf
<1>4. buf' = Pending \o Take(Remaining, n)
  <2>1. Take(Remaining, n) \in Seq(Octet)
    <3>1. PieceOf(Octet, Remaining, Remaining, 0, Len(Remaining))
      BY <1>3, WholeOf
    <3>2. PieceOf(Octet, Take(Remaining, n), Remaining, 0, 0 + n)
      BY <1>1, <3>1, SplitOf
    <3>3. QED
      BY <3>2 DEF PieceOf
  <2>2. QED
    BY <1>1, <1>2, <2>1, ConcatEmptySeq
<1>5. /\ Placed' /\ ByteBack' /\ RuneBack' /\ Kept' /\ Pending' = buf'
      /\ buf' \in Seq(Octet) /\ Len(buf') = n /\ taken' \in 0 .. Len(source')
  <2>1. 0 + n = n
    OBVIOUS
  <2>2. QED
    BY <1>1, <1>3, <1>4, <2>1, FillEffect
<1>6. /\ given \in Seq(Octet) /\ err \in {"nil", "eof", "err"} /\ (err = "eof" => taken = Len(source))
      /\ look = -1 /\ arg \in Nat /\ mark \in Nat
  BY <1>1 DEF RInv, ReaderTypes, ReaderTypeOK, Slices
<1>7. PICK f \in {"nil", "eof", "err"} :
        /\ err' = f /\ (f = "eof" => taken' = Len(source'))
        /\ \/ pc' = "WriteTo" /\ UNCHANGED <<arg, look, mark, res>>
           \/ Done(IF e = "eof" THEN "nil" ELSE e)
  <2>1. CASE /\ pc' = "WriteTo" /\ err' = (IF e = "nil" THEN err ELSE e)
             /\ UNCHANGED <<arg, look, mark, res>>
    <3>1. err' \in {"nil", "eof", "err"}
      BY <1>6, <2>1
    <3>2. err' = "eof" => taken' = Len(source')
      BY <1>1, <1>3, <1>6, <2>1
    <3>3. QED
      BY <2>1, <3>1, <3>2
  <2>2. CASE Done(IF e = "eof" THEN "nil" ELSE e) /\ err' = "nil"
    BY <2>2
  <2>3. QED
    BY <2>1, <2>2 DEF Drain
<1>8. /\ pc' \in {"WriteTo", "idle"} /\ look' = -1 /\ arg' \in Nat /\ mark' \in Nat
      /\ res' \in {"nil", "eof", "err", "full", "prefix", "invalid"}
  BY <1>6, <1>7 DEF Done, RInv, ReaderTypes, ReaderTypeOK
<1>9. Searched'
  BY <1>8 DEF Searched
<1>10. ReaderTypes'
  <2>1. look' \in -1 .. Size /\ Len(buf') <= Size /\ 0 \in -1 .. Len(buf')
    BY <1>1, <1>3, <1>5, <1>8
  <2>2. ReaderTypeOK'
    BY <1>1, <1>5, <1>7, <1>8, <2>1 DEF RInv, ReaderTypes, ReaderTypeOK
  <2>3. QED
    BY <1>1, <1>5, <1>6, <1>7, <1>8, <2>2 DEF RInv, ReaderTypes
<1>11. QED
  BY <1>5, <1>9, <1>10 DEF RInv

(* What is before b.r was handed out last, and is what Misplaced looks for. *)
LEMMA BehindIff ==
  ASSUME RInv, ~stale
  PROVE  Behind <=> Take(buf, r) = Drop(given, Len(given) - r)
<1>1. PICK g : g = Len(given)
  OBVIOUS
<1>2. /\ g \in Nat /\ r \in Nat /\ r <= g /\ r <= Len(buf) /\ Len(buf) \in Nat /\ buf \in Seq(Octet)
      /\ Part(given, 0, g) /\ Part(Pending, g, taken)
  BY <1>1, RFacts DEF RInv, Placed, ReaderTypes
<1>3. Part(Drop(given, g - r), g - r, g)
  <2>1. g - r \in Nat /\ g - r <= g /\ 0 + (g - r) = g - r
    BY <1>2
  <2>2. PieceOf(Octet, Drop(given, g - r), source, 0 + (g - r), g)
    BY <1>1, <1>2, <2>1, SplitOf DEF Part
  <2>3. QED
    BY <2>1, <2>2 DEF Part
<1>4. ASSUME Behind PROVE Take(buf, r) = Drop(given, g - r)
  <2>1. PieceOf(Octet, Take(buf, r), source, g - r, (g - r) + r)
    BY <1>1, <1>2, <1>4, SplitOf DEF Behind, Part
  <2>2. (g - r) + r = g
    BY <1>2
  <2>3. QED
    BY <1>3, <2>1, <2>2, UniqueOf DEF Part
<1>5. ASSUME Take(buf, r) = Drop(given, g - r) PROVE Behind
  <2>1. Part(Take(buf, r) \o Pending, g - r, taken)
    BY <1>2, <1>3, <1>5, JoinOf DEF Part
  <2>2. Take(buf, r) \o Pending = buf
    <3>1. PieceOf(Octet, buf, buf, 0, Len(buf))
      BY <1>2, WholeOf
    <3>2. /\ PieceOf(Octet, Take(buf, r), buf, 0, 0 + r)
          /\ PieceOf(Octet, Drop(buf, r), buf, 0 + r, Len(buf))
      BY <1>2, <3>1, SplitOf
    <3>3. PieceOf(Octet, Take(buf, r) \o Drop(buf, r), buf, 0, Len(buf))
      BY <3>2, JoinOf
    <3>4. QED
      BY <3>1, <3>3, UniqueOf DEF Pending
  <2>3. QED
    BY <1>1, <2>1, <2>2 DEF Behind
<1>6. QED
  BY <1>1, <1>4, <1>5

(* The last n bytes are taken back. *)
LEMMA BackEffect ==
  ASSUME RInv, ~stale, NEW n \in Nat, n <= r, Behind, r' = r - n,
         given' = Take(given, Len(given) - n), UNCHANGED <<source, taken, buf>>
  PROVE  Placed' /\ Behind'
<1>1. PICK g : g = Len(given)
  OBVIOUS
<1>2. /\ g \in Nat /\ r \in Nat /\ r <= g /\ r <= Len(buf) /\ Len(buf) \in Nat
      /\ Part(given, 0, g) /\ Part(buf, g - r, taken)
  BY <1>1, RFacts DEF RInv, Placed, Behind
<1>3. /\ g - n \in Nat /\ g - n <= g /\ r - n \in Nat /\ r - n <= Len(buf) /\ r - n <= g - n
      /\ (g - r) + (r - n) = g - n /\ 0 + (g - n) = g - n /\ (g - n) - (r - n) = g - r
  BY <1>2
<1>4. Part(given', 0, g - n)
  <2>1. PieceOf(Octet, Take(given, g - n), source, 0, 0 + (g - n))
    BY <1>1, <1>2, <1>3, SplitOf DEF Part
  <2>2. QED
    BY <1>1, <1>3, <2>1 DEF Part
<1>5. Part(Drop(buf, r - n), g - n, taken)
  <2>1. PieceOf(Octet, Drop(buf, r - n), source, (g - r) + (r - n), taken)
    BY <1>2, <1>3, SplitOf DEF Part
  <2>2. QED
    BY <1>3, <2>1 DEF Part
<1>6. Len(given') = g - n
  BY <1>3, <1>4 DEF Part, PieceOf
<1>7. Pending' = Drop(buf, r - n)
  BY DEF Pending
<1>8. Placed'
  BY <1>3, <1>4, <1>5, <1>6, <1>7 DEF Placed, Part
<1>9. Behind'
  BY <1>2, <1>3, <1>6 DEF Behind, Part
<1>10. QED
  BY <1>8, <1>9

(* What an unread does to the types. *)
LEMMA BackTypes ==
  ASSUME RInv, ~stale, pc = "idle", NEW n \in Nat, n <= Len(given), TakeBack(n), lastRuneSize' = -1,
         UNCHANGED <<source, direct, taken, err, pc, arg, look, mark>>,
         buf' \in Seq(Octet), Len(buf') <= Size, r' \in -1 .. Len(buf'),
         stale' \in BOOLEAN, stale' => lastOp \in Sloppy
  PROVE  ReaderTypes' /\ Searched' /\ lastByte' = -1 /\ lastOp' = lastOp /\ res' = "nil"
         /\ given' = Take(given, Len(given) - n)
<1>1. /\ lastByte' = -1 /\ lastOp' = lastOp /\ res' = "nil" /\ TotalRead' = Uncount(n)
      /\ given' = Take(given, Len(given) - n)
  BY DEF TakeBack
<1>2. TotalRead' \in Nat
  BY <1>1 DEF RInv, ReaderTypes, ReaderTypeOK, Uncount
<1>3. given' \in Seq(Octet)
  <2>1. given \in Seq(Octet) /\ Len(given) - n \in Nat /\ Len(given) - n <= Len(given)
    BY RFacts DEF RInv, ReaderTypes
  <2>2. PieceOf(Octet, given, given, 0, Len(given))
    BY <2>1, WholeOf
  <2>3. PieceOf(Octet, Take(given, Len(given) - n), given, 0, 0 + (Len(given) - n))
    BY <2>1, <2>2, SplitOf
  <2>4. QED
    BY <1>1, <2>3 DEF PieceOf
<1>4. ReaderTypeOK'
  BY <1>1, <1>2 DEF RInv, ReaderTypes, ReaderTypeOK
<1>5. ReaderTypes'
  BY <1>1, <1>3, <1>4 DEF RInv, ReaderTypes, Sloppy
<1>6. look = -1
  BY DEF RInv, ReaderTypes, Slices
<1>7. Searched'
  BY <1>6 DEF Searched
<1>8. QED
  BY <1>1, <1>5, <1>7

(* An unread that is refused changes nothing. *)
LEMMA InvalidStep ==
  ASSUME RInv, ~stale, pc = "idle", Invalid, lastRuneSize' = -1 \/ lastRuneSize' = lastRuneSize,
         UNCHANGED <<source, direct, taken, err, pc, arg, look, mark>>
  PROVE  RInv'
<1>1. res' = "invalid" /\ UNCHANGED <<buf, r, lastByte, TotalRead, lastOp, given, stale>>
  BY DEF Invalid
<1>2. Placed' /\ ByteBack' /\ RuneBack' /\ Kept'
  BY <1>1, NothingMoves
<1>3. look = -1
  BY DEF RInv, ReaderTypes, Slices
<1>4. Searched'
  BY <1>3 DEF Searched
<1>5. ReaderTypes'
  BY <1>1, <1>3, RFacts DEF RInv, ReaderTypes, ReaderTypeOK
<1>6. QED
  BY <1>2, <1>4, <1>5 DEF RInv

(* UnreadRune takes the rune back; with the wrong bytes only after a sloppy call. *)
LEMMA UnreadRuneStep ==
  ASSUME RInv, UnreadRune
  PROVE  RInv'
<1>1. /\ ~stale /\ pc = "idle" /\ UNCHANGED <<source, direct, taken, err, pc, arg, look, mark>>
      /\ lastRuneSize \in {-1, 1, 2}
  BY DEF UnreadRune, RInv, ReaderTypes, ReaderTypeOK
<1>2. CASE Invalid /\ UNCHANGED lastRuneSize
  BY <1>1, <1>2, InvalidStep
<1>3. CASE /\ lastRuneSize > 0 /\ r > 0 /\ r' = r - lastRuneSize
           /\ stale' = Misplaced(lastRuneSize)
           /\ TakeBack(lastRuneSize) /\ lastRuneSize' = -1 /\ UNCHANGED buf
  <2>1. PICK n \in Nat : n = lastRuneSize
    BY <1>1, <1>3
  <2>2. n \in {1, 2} /\ n <= Len(given)
    BY <1>1, <1>3, <2>1 DEF RInv, RuneBack
  <2>3. r \in Nat /\ r <= Len(buf) /\ Len(buf) \in Nat
    BY <1>1, RFacts
  <2>4. stale' \in BOOLEAN /\ (~stale' => n <= r /\ Behind)
    <3>1. stale' = (r < n \/ ~Behind)
      BY <1>1, <1>3, <2>1, BehindIff, Zenon DEF Misplaced
    <3>2. r < n <=> ~(n <= r)
      BY <2>1, <2>3
    <3>3. QED
      BY <3>1, <3>2, Zenon
  <2>5. stale' => lastOp \in Sloppy
    <3>1. SUFFICES ASSUME stale' PROVE lastOp \in Sloppy
      OBVIOUS
    <3>2. r < n \/ ~Behind
      BY <1>1, <1>3, <2>1, <3>1, BehindIff DEF Misplaced
    <3>3. CASE r < n
      BY <1>1, <1>3, <2>1, <2>2, <2>3, <3>3 DEF RInv, RuneBack
    <3>4. CASE ~Behind
      BY <1>1, <1>3, <3>4 DEF RInv, Kept
    <3>5. QED
      BY <3>2, <3>3, <3>4
  <2>6. r' \in -1 .. Len(buf') /\ buf' \in Seq(Octet) /\ Len(buf') <= Size
    BY <1>3, <2>1, <2>2, <2>3 DEF RInv, ReaderTypes, ReaderTypeOK
  <2>7. /\ ReaderTypes' /\ Searched' /\ lastByte' = -1 /\ lastOp' = lastOp
        /\ given' = Take(given, Len(given) - n)
    BY <1>1, <1>3, <2>1, <2>2, <2>4, <2>5, <2>6, BackTypes
  <2>8. ASSUME ~stale' PROVE Placed' /\ Behind'
    BY <1>1, <1>3, <2>1, <2>4, <2>7, <2>8, BackEffect
  <2>9. QED
    BY <1>3, <2>7, <2>8 DEF RInv, ByteBack, RuneBack, Kept
<1>4. QED
  BY <1>2, <1>3 DEF UnreadRune

(* UnreadByte puts lastByte back or steps back in the buffer; likewise. *)
LEMMA UnreadByteStep ==
  ASSUME RInv, UnreadByte
  PROVE  RInv'
<1>1. /\ ~stale /\ pc = "idle" /\ UNCHANGED <<source, direct, taken, err, pc, arg, look, mark>>
      /\ lastRuneSize' = -1 /\ lastByte \in -1 .. 255
  BY DEF UnreadByte, RInv, ReaderTypes, ReaderTypeOK
<1>2. PICK g : g = Len(given)
  OBVIOUS
<1>3. /\ r \in Nat /\ r <= Len(buf) /\ Len(buf) \in Nat /\ g \in Nat /\ r <= g /\ taken \in Nat
      /\ Size \in Nat \ {0, 1} /\ Part(given, 0, g) /\ source \in Seq(Octet)
  BY <1>1, <1>2, RFacts DEF RInv, Placed
<1>4. CASE Invalid
  BY <1>1, <1>4, InvalidStep
<1>5. CASE /\ ~(Pending = << >> /\ lastByte >= 0) /\ r > 0 /\ r' = r - 1
           /\ TakeBack(1) /\ stale' = Misplaced(1) /\ UNCHANGED buf
  <2>1. stale' \in BOOLEAN /\ (~stale' <=> Behind)
    <3>1. stale' = (r < 1 \/ ~Behind)
      BY <1>1, <1>5, BehindIff, Zenon DEF Misplaced
    <3>2. ~(r < 1)
      BY <1>3, <1>5
    <3>3. QED
      BY <3>1, <3>2, Zenon
  <2>2. stale' => lastOp \in Sloppy
    BY <1>1, <1>5, <2>1 DEF RInv, Kept
  <2>3. r' \in -1 .. Len(buf') /\ buf' \in Seq(Octet) /\ Len(buf') <= Size
    BY <1>3, <1>5 DEF RInv, ReaderTypes, ReaderTypeOK
  <2>4. 1 \in Nat /\ 1 <= Len(given) /\ 1 <= r
    BY <1>2, <1>3, <1>5
  <2>5. /\ ReaderTypes' /\ Searched' /\ lastByte' = -1 /\ lastOp' = lastOp
        /\ given' = Take(given, Len(given) - 1)
    BY <1>1, <1>5, <2>1, <2>2, <2>3, <2>4, BackTypes
  <2>6. ASSUME ~stale' PROVE Placed' /\ Behind'
    BY <1>1, <1>5, <2>1, <2>4, <2>5, <2>6, BackEffect
  <2>7. QED
    BY <1>1, <2>5, <2>6 DEF RInv, ByteBack, RuneBack, Kept
<1>6. CASE /\ Pending = << >> /\ lastByte >= 0 /\ buf' = <<lastByte>> /\ r' = 0
           /\ TakeBack(1) /\ stale' = (lastByte # Last(given))
  <2>1. g > 0 /\ (lastOp \in Sloppy \/ lastByte = source[g]) /\ taken = g
    BY <1>1, <1>2, <1>6, RFacts DEF RInv, ByteBack
  <2>2. Last(given) = source[g]
    BY <1>2, <1>3, <2>1 DEF Last, Part, PieceOf
  <2>3. stale' \in BOOLEAN /\ (stale' => lastOp \in Sloppy)
    BY <1>6, <2>1, <2>2
  <2>4. buf' \in Seq(Octet) /\ Len(buf') = 1
    BY <1>1, <1>6 DEF Octet
  <2>5. r' \in -1 .. Len(buf') /\ Len(buf') <= Size
    BY <1>3, <1>6, <2>4
  <2>6. 1 \in Nat /\ 1 <= Len(given)
    BY <1>2, <1>3, <2>1
  <2>7. /\ ReaderTypes' /\ Searched' /\ lastByte' = -1 /\ lastOp' = lastOp
        /\ given' = Take(given, g - 1)
    BY <1>1, <1>2, <1>6, <2>3, <2>4, <2>5, <2>6, BackTypes
  <2>8. ASSUME ~stale' PROVE Placed' /\ Behind'
    <3>1. lastByte = source[g]
      BY <1>6, <2>2, <2>8
    <3>2. g - 1 \in Nat /\ g - 1 <= g /\ 0 + (g - 1) = g - 1 /\ g - (g - 1) = 1 /\ (g - 1) - 0 = g - 1
      BY <1>3, <2>1
    <3>3. Part(given', 0, g - 1)
      <4>1. PieceOf(Octet, Take(given, g - 1), source, 0, 0 + (g - 1))
        BY <1>2, <1>3, <3>2, SplitOf DEF Part
      <4>2. QED
        BY <2>7, <3>2, <4>1 DEF Part
    <3>4. Len(given') = g - 1
      BY <3>2, <3>3 DEF Part, PieceOf
    <3>5. Part(buf', g - 1, g)
      <4>1. g <= Len(source)
        BY <1>3 DEF Part, PieceOf
      <4>2. \A j \in 1 .. g - (g - 1) : buf'[j] = source[(g - 1) + j]
        BY <1>3, <1>6, <3>1, <3>2
      <4>3. QED
        BY <1>3, <2>4, <3>2, <4>1, <4>2 DEF Part, PieceOf
    <3>6. Pending' = buf'
      <4>1. PICK b : b = buf'
        OBVIOUS
      <4>2. Drop(b, 0) = b
        BY <2>4, <4>1, DropNone
      <4>3. QED
        BY <1>6, <4>1, <4>2 DEF Pending
    <3>7. Placed'
      BY <1>1, <1>6, <2>1, <3>2, <3>3, <3>4, <3>5, <3>6 DEF Placed, Part
    <3>8. Behind'
      BY <1>1, <1>6, <2>1, <3>2, <3>4, <3>5 DEF Behind, Part
    <3>9. QED
      BY <3>7, <3>8
  <2>9. QED
    BY <1>1, <2>7, <2>8 DEF RInv, ByteBack, RuneBack, Kept
<1>7. QED
  BY <1>4, <1>5, <1>6 DEF UnreadByte

(* RInv is inductive: one lemma for each action. *)
LEMMA RNextStep ==
  ASSUME RInv, ReaderNext
  PROVE  RInv'
<1>1. CASE Turn
  <2>1. CASE \E n \in Counts, e \in {"nil", "eof", "err"} : Fill(n, e) \/ ReadDirect(n, e) \/ Drain(n, e)
    BY <2>1, FillStep, ReadDirectStep, DrainStep DEF Counts
  <2>2. CASE \E ok \in BOOLEAN, n \in 0 .. Size : WriteBuf(n, ok)
    BY <2>2, WriteBufStep
  <2>3. CASE \E ok \in BOOLEAN, n \in Counts : DrainDirect(n, ok)
    BY <2>3, DrainDirectStep DEF Counts
  <2>4. QED
    BY <1>1, <2>1, <2>2, <2>3, ReadFailsStep, ReadStep, ReadByteStep, ReadRuneStep, PeekStep,
       SliceFoundStep, SliceFullStep, SliceErrorStep DEF Turn
<1>2. CASE \E n \in Lengths : Call("Read", n) \/ Call("Peek", n)
  BY <1>2, CallStep, ReaderAssumption
<1>3. CASE \E op \in {"ReadByte", "ReadRune", "WriteTo"} \cup Slices : Call(op, 0)
  BY <1>3, CallStep
<1>4. QED
  BY <1>1, <1>2, <1>3, ResetStep, UnreadByteStep, UnreadRuneStep DEF ReaderNext

(* The steps that change nothing included. *)
LEMMA RStep == RInv /\ [ReaderNext]_readerVars => RInv'
<1>1. SUFFICES ASSUME RInv, UNCHANGED readerVars PROVE RInv'
  BY RNextStep
<1>2. Pending' = Pending
  BY <1>1 DEF readerVars, Pending
<1>3. ReaderTypes' = ReaderTypes /\ stale' = stale
  BY <1>1 DEF readerVars, ReaderTypes, ReaderTypeOK, Sloppy
<1>4. Placed' = Placed /\ Behind' = Behind
  BY <1>1, <1>2 DEF readerVars, Placed, Behind, Part
<1>5. ByteBack' = ByteBack /\ RuneBack' = RuneBack /\ Searched' = Searched
  BY <1>1, <1>2 DEF readerVars, ByteBack, RuneBack, Searched, Sloppy
<1>6. Kept' = Kept
  BY <1>1, <1>2, <1>4 DEF readerVars, Kept, Sloppy
<1>7. QED
  BY <1>1, <1>3, <1>4, <1>5, <1>6 DEF RInv

(* So RInv holds at all times. *)
LEMMA RHolds == ReaderSpec => []RInv
BY RInitial, RStep, PTL DEF ReaderSpec

(***************************************************************************)
(* Whatever is called, in whatever pieces the data comes: b.r and b.w stay *)
(* inside the buffer (but for the -1 of a stale reader), TotalRead never   *)
(* goes below zero, although ReadSlice subtracts and unreads count back.   *)
(***************************************************************************)
THEOREM ReaderTyped == ReaderSpec => []ReaderTypeOK
<1>1. RInv => ReaderTypeOK
  BY DEF RInv, ReaderTypes
<1>2. QED
  BY <1>1, RHolds, PTL

(***************************************************************************)
(* For every size of the buffer, source and sequence of calls: what the    *)
(* reader handed out and what it holds is what b.rd gave, in order; the    *)
(* only unread that breaks this comes after ReadSlice, its callers, or     *)
(* WriteTo.                                                                *)
(***************************************************************************)
THEOREM ReaderInOrder == ReaderSpec => []InOrder
<1>1. RInv => InOrder
  <2>1. SUFFICES ASSUME RInv PROVE InOrder
    OBVIOUS
  <2>2. CASE stale
    BY <2>1, <2>2 DEF RInv, ReaderTypes, InOrder, Sloppy
  <2>3. CASE ~stale
    <3>1. Part(given, 0, Len(given)) /\ Part(Pending, Len(given), taken)
      BY <2>1, <2>3 DEF RInv, Placed
    <3>2. PICK d : d = given \o Pending
      OBVIOUS
    <3>3. PieceOf(Octet, d, source, 0, taken)
      BY <3>1, <3>2, JoinOf DEF Part
    <3>4. d = SubSeq(source, 1, taken)
      BY <3>3, PrefixOf
    <3>5. QED
      BY <2>3, <3>2, <3>4 DEF InOrder, Take
  <2>4. QED
    BY <2>2, <2>3
<1>2. QED
  BY <1>1, RHolds, PTL

(* A piece without an end of a line before its last byte. *)
LEMMA OneLine ==
  ASSUME NEW d, NEW t, NEW a, NEW b, PieceOf(Octet, d, t, a, b),
         \A i \in Nat : (i > a /\ i < b) => t[i] # NL
  PROVE  /\ ~Contains(Take(d, Len(d) - 1), NL)
         /\ (d # << >> <=> a < b) /\ (a < b => Last(d) = t[b])
<1>1. /\ d \in Seq(Octet) /\ a \in Nat /\ b \in Nat /\ a <= b /\ Len(d) = b - a
      /\ \A j \in 1 .. b - a : d[j] = t[a + j]
  BY DEF PieceOf
<1>2. d # << >> <=> a < b
  <2>1. d = << >> <=> Len(d) = 0
    BY <1>1, EmptyIffZero
  <2>2. QED
    BY <1>1, <2>1
<1>3. CASE a < b
  <2>1. PICK n \in Nat : n = Len(d) - 1
    BY <1>1, <1>3
  <2>2. n <= Len(d) /\ n = b - a - 1
    BY <1>1, <2>1
  <2>3. PieceOf(Octet, Take(d, n), t, a, a + n)
    BY <2>2, SplitOf
  <2>4. ASSUME NEW j \in 1 .. Len(Take(d, n)) PROVE Take(d, n)[j] # NL
    <3>1. Len(Take(d, n)) = (a + n) - a /\ \A k \in 1 .. (a + n) - a : Take(d, n)[k] = t[a + k]
      BY <2>3 DEF PieceOf
    <3>2. j \in 1 .. (a + n) - a /\ a + j \in Nat /\ a + j > a /\ a + j < b
      BY <1>1, <2>2, <3>1
    <3>3. QED
      BY <3>1, <3>2
  <2>5. ~Contains(Take(d, Len(d) - 1), NL)
    BY <2>1, <2>4 DEF Contains
  <2>6. Last(d) = t[b]
    <3>1. b - a \in 1 .. b - a /\ a + (b - a) = b
      BY <1>1, <1>3
    <3>2. QED
      BY <1>1, <3>1 DEF Last
  <2>7. QED
    BY <1>2, <2>5, <2>6
<1>4. CASE ~(a < b)
  <2>1. Len(d) - 1 \in Int /\ Len(d) - 1 < 1
    BY <1>1, <1>4
  <2>2. Take(d, Len(d) - 1) = << >>
    BY <2>1, SubSeqEmpty DEF Take
  <2>3. Len(<< >>) = 0
    BY EmptySeq
  <2>4. ~Contains(Take(d, Len(d) - 1), NL)
    BY <2>2, <2>3 DEF Contains
  <2>5. QED
    BY <1>2, <1>4, <2>4
<1>5. QED
  BY <1>3, <1>4

(* A slice that ends at the position b of the source. *)
LEMMA SliceLine ==
  ASSUME RInv, Placed', UNCHANGED source, ~stale, pc \in {"ReadSlice", "ReadBytes"},
         NEW b \in Nat, b = Len(given'), Len(given) <= b,
         \A i \in Nat : (i > Len(given) /\ i < b) => source[i] # NL
  PROVE  /\ ~Contains(Take(Drop(given', mark), Len(Drop(given', mark)) - 1), NL)
         /\ (Drop(given', mark) # << >> <=> mark < b)
         /\ (mark < b => Last(Drop(given', mark)) = source[b])
         /\ mark <= Len(given) /\ mark \in Nat
<1>1. PICK g : g = Len(given)
  OBVIOUS
<1>2. PICK d : d = given'
  OBVIOUS
<1>3. PieceOf(Octet, d, source, 0, b)
  BY <1>2 DEF Placed, Part
<1>4. g \in Nat /\ mark \in Nat /\ mark <= g /\ \A i \in 1 .. g : i > mark => source[i] # NL
  BY <1>1, RFacts DEF RInv, Searched, ReaderTypes
<1>5. mark <= Len(d) /\ 0 + mark = mark
  BY <1>1, <1>2, <1>4
<1>6. PieceOf(Octet, Drop(d, mark), source, 0 + mark, b)
  BY <1>3, <1>4, <1>5, SplitOf
<1>7. PieceOf(Octet, Drop(d, mark), source, mark, b)
  BY <1>5, <1>6
<1>8. ASSUME NEW i \in Nat, i > mark, i < b PROVE source[i] # NL
  BY <1>1, <1>4, <1>8
<1>9. QED
  BY <1>1, <1>2, <1>4, <1>7, <1>8, OneLine

(* All of the source has been handed out. *)
LEMMA AllGiven ==
  ASSUME Placed', Len(given') = Len(source')
  PROVE  given' = source'
<1>1. PICK d : d = given'
  OBVIOUS
<1>2. PICK t : t = source'
  OBVIOUS
<1>3. PieceOf(Octet, d, t, 0, Len(t))
  BY <1>1, <1>2 DEF Placed, Part
<1>4. QED
  BY <1>1, <1>2, <1>3, PrefixOf

(***************************************************************************)
(* ReadSlice and ReadBytes fail exactly when what they return does not end *)
(* in the delimiter, which is nowhere before its end; EOF, and a WriteTo   *)
(* without an error, mean that all of the source has been handed out.      *)
(***************************************************************************)
THEOREM ReaderResults == ReaderSpec => ResultsTrue
<1>. DEFINE line == Drop(given', mark)
            Lines == pc \in {"ReadSlice", "ReadBytes"} =>
                       /\ (res' = "nil") <=> (line # << >> /\ Last(line) = NL)
                       /\ ~Contains(Take(line, Len(line) - 1), NL)
            Ends == (pc # "Peek" /\ res' = "eof") => (given' = source \/ (pc = "Read" /\ arg = 0))
            Drained == (pc = "Drain" /\ res' = "nil") => given' = source
            AsSaid == Lines /\ Ends /\ Drained
<1>1. ASSUME RInv, ReaderNext, pc # "idle", pc' = "idle" PROVE AsSaid
  <2>1. ~stale /\ (err = "eof" => taken = Len(source)) /\ err \in {"nil", "eof", "err"}
    BY <1>1 DEF RInv, ReaderTypes, ReaderTypeOK
  <2>2. Turn
    BY <1>1 DEF ReaderNext, Reset, UnreadByte, UnreadRune, Call
  <2>3. UNCHANGED <<source, stale>>
    BY <2>2 DEF Turn, ReadFails, FailWith, Read, ReadReturn, Consume, ReadByte, ReadRune, Peek, SliceFound,
       SliceFull, SliceError, Fill, ReadDirect, Drain, WriteBuf, DrainDirect, still
  <2>4. Placed'
    BY <1>1, <2>1, <2>3, RNextStep DEF RInv
  <2>5. PICK g : g = Len(given)
    OBVIOUS
  <2>6. /\ g \in Nat /\ taken \in Nat /\ Len(source) \in Nat /\ Len(Pending) = taken - g
        /\ Len(Pending) \in Nat /\ (Pending = << >> <=> Len(Pending) = 0)
        /\ Len(Remaining) = Len(source) - taken
    BY <1>1, <2>1, <2>5, RFacts
  <2>7. ASSUME Len(given') = Len(source) PROVE given' = source
    BY <2>3, <2>4, <2>7, AllGiven
  <2>8. ASSUME FailWith(err), Pending = << >>, pc \notin Slices, pc # "Drain" PROVE AsSaid
    <3>1. res' = err /\ given' = given
      BY <2>8 DEF FailWith, Done
    <3>2. err = "eof" => g = Len(source)
      BY <2>1, <2>6, <2>8
    <3>3. QED
      BY <2>5, <2>7, <2>8, <3>1, <3>2 DEF Slices
  <2>9. ASSUME NEW n, NEW m, ReadReturn(n, m), pc \notin Slices, pc # "Drain" PROVE AsSaid
    BY <2>9 DEF ReadReturn, Done, Slices
  <2>10. CASE ReadFails
    <3>1. CASE arg = 0
      BY <2>10, <3>1 DEF ReadFails
    <3>2. CASE arg # 0
      <4>1. FailWith(err) /\ Pending = << >> /\ pc = "Read"
        BY <2>10, <3>2 DEF ReadFails, Exhausted
      <4>2. QED
        BY <2>8, <4>1 DEF Slices
    <3>3. QED
      BY <3>1, <3>2
  <2>11. CASE Read \/ ReadByte \/ ReadRune
    <3>1. pc \notin Slices /\ pc # "Drain"
      BY <2>11 DEF Read, ReadByte, ReadRune, Slices
    <3>2. \/ \E n, m : ReadReturn(n, m)
          \/ FailWith(err) /\ Pending = << >>
      BY <2>11 DEF Read, ReadByte, ReadRune
    <3>3. QED
      BY <2>8, <2>9, <3>1, <3>2
  <2>12. CASE Peek
    BY <2>12 DEF Peek
  <2>13. CASE SliceFound
    <3>1. PICK n : n = SelectInSeq(Pending, LAMBDA b : b = NL)
      OBVIOUS
    <3>2. PICK m : Consume(n, m)
      BY <2>13, <3>1 DEF SliceFound
    <3>3. HasLine /\ res' = "nil" /\ pc \in Slices
      BY <2>13 DEF SliceFound, Done
    <3>4. Pending \in Seq(Octet) /\ Part(Pending, g, taken)
      BY <1>1, <2>1, <2>5 DEF RInv, Placed, Part, PieceOf
    <3>5. /\ n \in 1 .. Len(Pending) /\ Pending[n] = NL
          /\ \A i \in 1 .. Len(Pending) : Pending[i] = NL => n <= i
      BY <3>1, <3>3, <3>4, FirstLine
    <3>6. \A i \in 1 .. taken - g : Pending[i] = source[g + i]
      BY <3>4 DEF Part, PieceOf
    <3>7. n \in Nat /\ n <= Len(Pending) /\ n > 0 /\ source[g + n] = NL /\ g + n \in Nat /\ g < g + n
      BY <2>6, <3>5, <3>6
    <3>8. Len(given') = g + n
      BY <1>1, <2>1, <2>5, <3>2, <3>7, ConsumeEffect
    <3>9. ASSUME NEW i \in Nat, i > g, i < g + n PROVE source[i] # NL
      <4>1. PICK j : j = i - g
        OBVIOUS
      <4>2. j \in 1 .. taken - g /\ j \in 1 .. Len(Pending) /\ ~(n <= j) /\ g + j = i
        BY <2>6, <3>7, <3>9, <4>1
      <4>3. QED
        BY <3>5, <3>6, <4>2
    <3>10. CASE pc \in {"ReadSlice", "ReadBytes"}
      <4>1. PICK b \in Nat : b = g + n
        BY <3>7
      <4>2. b = Len(given') /\ g <= b /\ \A i \in Nat : (i > g /\ i < b) => source[i] # NL
        <5>1. b = Len(given') /\ g <= b
          BY <2>6, <3>7, <3>8, <4>1
        <5>2. \A i \in Nat : (i > g /\ i < b) => source[i] # NL
          BY ONLY <3>9, <4>1
        <5>3. QED
          BY <5>1, <5>2
      <4>3. /\ ~Contains(Take(line, Len(line) - 1), NL) /\ (line # << >> <=> mark < b)
            /\ (mark < b => Last(line) = source[b]) /\ mark <= g /\ mark \in Nat
        BY <1>1, <2>1, <2>3, <2>4, <2>5, <3>10, <4>2, SliceLine
      <4>4. mark < b
        BY <2>6, <3>7, <4>1, <4>3
      <4>5. QED
        BY <3>3, <3>7, <3>10, <4>1, <4>3, <4>4
    <3>11. CASE pc \notin {"ReadSlice", "ReadBytes"}
      BY <3>3, <3>11 DEF Slices
    <3>12. QED
      BY <3>10, <3>11
  <2>14. ASSUME pc \in Slices, ~HasLine, NEW n \in Nat, n <= Len(Pending), NEW m, Consume(n, m),
                pc \in {"ReadSlice", "ReadBytes"} => res' # "nil",
                res' = "eof" => n = Len(Pending) /\ taken = Len(source)
         PROVE  AsSaid
    <3>1. Len(given') = g + n
      BY <1>1, <2>1, <2>5, <2>14, ConsumeEffect
    <3>2. \A i \in Nat : (i > g /\ i <= taken) => source[i] # NL
      BY <1>1, <2>1, <2>5, <2>14, NoLineAhead
    <3>3. Ends
      BY <2>6, <2>7, <2>14, <3>1
    <3>4. CASE pc \in {"ReadSlice", "ReadBytes"}
      <4>1. PICK b \in Nat : b = g + n
        BY <2>6
      <4>2. b = Len(given') /\ g <= b /\ \A i \in Nat : (i > g /\ i <= b) => source[i] # NL
        BY <2>6, <2>14, <3>1, <3>2, <4>1
      <4>3. /\ ~Contains(Take(line, Len(line) - 1), NL) /\ (line # << >> <=> mark < b)
            /\ (mark < b => Last(line) = source[b]) /\ mark <= g /\ mark \in Nat
        BY <1>1, <2>1, <2>3, <2>4, <2>5, <3>4, <4>2, SliceLine
      <4>4. mark < b => source[b] # NL
        <5>1. \A i \in 1 .. g : i > mark => source[i] # NL
          BY <1>1, <2>1, <2>5, <3>4 DEF RInv, Searched
        <5>2. CASE b > g
          BY <4>1, <4>2, <5>2
        <5>3. CASE ~(b > g)
          BY <2>6, <4>1, <4>2, <4>3, <5>1, <5>3
        <5>4. QED
          BY <5>2, <5>3
      <4>5. Lines
        BY <2>14, <3>4, <4>3, <4>4
      <4>6. QED
        BY <3>3, <3>4, <4>5
    <3>5. CASE pc \notin {"ReadSlice", "ReadBytes"}
      BY <2>14, <3>3, <3>5 DEF Slices
    <3>6. QED
      BY <3>4, <3>5
  <2>15. CASE SliceFull
    <3>1. PICK n : n = IF pc = "ReadLine" /\ Last(Pending) = CR THEN Size - 1 ELSE Size
      OBVIOUS
    <3>2. /\ Consume(n, Size) /\ pc \in Slices /\ ~HasLine /\ Len(Pending) = Size
          /\ res' \in {"prefix", "full"}
      BY <1>1, <2>15, <3>1 DEF SliceFull, Done
    <3>3. n \in Nat /\ n <= Len(Pending)
      BY <3>1, <3>2, ReaderAssumption
    <3>4. QED
      BY <2>14, <3>2, <3>3
  <2>16. CASE SliceError
    <3>1. /\ Consume(Len(Pending), Len(Pending)) /\ pc \in Slices /\ ~HasLine /\ err # "nil"
          /\ res' = IF pc = "ReadLine" /\ Pending # << >> THEN "nil" ELSE err
      BY <2>16 DEF SliceError, Done
    <3>2. Len(Pending) \in Nat /\ Len(Pending) <= Len(Pending)
      BY <2>6
    <3>3. pc \in {"ReadSlice", "ReadBytes"} => res' # "nil"
      BY <3>1
    <3>4. res' = "eof" => taken = Len(source)
      BY <2>1, <3>1
    <3>5. QED
      BY <2>14, <3>1, <3>2, <3>3, <3>4
  <2>17. ASSUME NEW n \in Nat, NEW e \in {"nil", "eof", "err"}, ReadDirect(n, e) PROVE AsSaid
    <3>1. /\ pc = "Read" /\ n <= Len(Remaining) /\ given' = given \o Take(Remaining, n)
          /\ taken' = taken + n /\ Pending = << >> /\ UNCHANGED <<source, buf, r>> /\ res' = e
          /\ (e = "eof" => n = Len(Remaining))
      BY <2>17 DEF ReadDirect, Gives, still, Done
    <3>2. Len(given') = taken + n
      BY <1>1, <2>1, <3>1, DirectEffect
    <3>3. res' = "eof" => Len(given') = Len(source)
      BY <2>6, <3>1, <3>2
    <3>4. QED
      BY <2>7, <3>1, <3>3
  <2>18. ASSUME NEW n, NEW e, Fill(n, e) PROVE FALSE
    BY <1>1, <2>18 DEF Fill
  <2>19. ASSUME NEW n \in Nat, NEW e \in {"nil", "eof", "err"}, Drain(n, e) PROVE AsSaid
    <3>1. /\ pc = "Drain" /\ given' = given /\ n = 0 /\ (e = "eof" => n = Len(Remaining)) /\ e # "nil"
          /\ res' = IF e = "eof" THEN "nil" ELSE e
      BY <1>1, <2>19, ReaderAssumption DEF Drain, Gives, Done
    <3>2. Pending = << >>
      BY <1>1, <2>1, <3>1 DEF RInv, Searched
    <3>3. e = "eof" => Len(given') = Len(source)
      BY <2>5, <2>6, <3>1, <3>2
    <3>4. QED
      BY <2>7, <3>1, <3>3
  <2>20. ASSUME NEW n, NEW ok, WriteBuf(n, ok) PROVE AsSaid
    <3>1. pc = "WriteTo" /\ res' = "err"
      BY <1>1, <2>20 DEF WriteBuf, Done
    <3>2. QED
      BY <3>1
  <2>21. ASSUME NEW n \in Nat, NEW ok \in BOOLEAN, DrainDirect(n, ok) PROVE AsSaid
    <3>1. /\ pc = "Drain" /\ n <= Len(Remaining) /\ given' = given \o Take(Remaining, n)
          /\ taken' = taken + n /\ UNCHANGED <<source, buf, r>> /\ res' = (IF ok THEN "nil" ELSE "err")
          /\ (ok => n = Len(Remaining))
      BY <2>21 DEF DrainDirect, still, Done
    <3>2. Pending = << >>
      BY <1>1, <2>1, <3>1 DEF RInv, Searched
    <3>3. Len(given') = taken + n
      BY <1>1, <2>1, <3>1, <3>2, DirectEffect
    <3>4. ASSUME ok PROVE Len(given') = Len(source)
      <4>1. n = Len(Remaining)
        BY <3>1, <3>4
      <4>2. QED
        BY <2>6, <3>3, <4>1
    <3>5. QED
      BY <2>7, <3>1, <3>4
  <2>22. CASE \E n \in Counts, e \in {"nil", "eof", "err"} : Fill(n, e) \/ ReadDirect(n, e) \/ Drain(n, e)
    BY <2>17, <2>18, <2>19, <2>22 DEF Counts
  <2>23. CASE \E ok \in BOOLEAN, n \in 0 .. Size : WriteBuf(n, ok)
    BY <2>20, <2>23
  <2>24. CASE \E ok \in BOOLEAN, n \in Counts : DrainDirect(n, ok)
    BY <2>21, <2>24 DEF Counts
  <2>. HIDE DEF AsSaid
  <2>25. QED
    BY <2>2, <2>10, <2>11, <2>12, <2>13, <2>15, <2>16, <2>22, <2>23, <2>24 DEF Turn
<1>2. RInv /\ [ReaderNext]_readerVars => [(pc # "idle" /\ pc' = "idle") => AsSaid]_readerVars
  BY <1>1
<1>3. QED
  BY <1>2, RHolds, PTL DEF ReaderSpec, ResultsTrue
=============================================================================
