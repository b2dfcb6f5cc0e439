-------------------------- MODULE BufWriterProofs --------------------------
(***************************************************************************)
(* Proofs about BufWriter for all buffer sizes, arguments and sequences of *)
(* calls, and whatever the io.Writer underneath takes.                     *)
(***************************************************************************)
EXTENDS BufWriter, SequenceTheorems, TLAPS

-----------------------------------------------------------------------------
(* Cutting and joining of sequences.                                       *)

(* Taking and dropping n elements.                                         *)
LEMMA TakeDrop ==
  ASSUME NEW S, NEW s \in Seq(S), NEW n \in 0 .. Len(s)
  PROVE  /\ Take(s, n) \in Seq(S) /\ Len(Take(s, n)) = n
         /\ Drop(s, n) \in Seq(S) /\ Len(Drop(s, n)) = Len(s) - n
         /\ \A i \in 1 .. n : Take(s, n)[i] = s[i]
         /\ \A i \in 1 .. Len(s) - n : Drop(s, n)[i] = s[n + i]
<1>1. Len(s) \in Nat /\ \A i \in 1 .. Len(s) : s[i] \in S
  BY LenProperties, ElementOfSeq
<1>2. /\ SubSeq(s, 1, n) \in Seq(S)
      /\ Len(SubSeq(s, 1, n)) = IF 1 <= n THEN n - 1 + 1 ELSE 0
      /\ \A i \in 1 .. n - 1 + 1 : SubSeq(s, 1, n)[i] = s[1 + i - 1]
  BY <1>1, SubSeqProperties
<1>3. /\ SubSeq(s, n + 1, Len(s)) \in Seq(S)
      /\ Len(SubSeq(s, n + 1, Len(s))) = IF n + 1 <= Len(s) THEN Len(s) - (n + 1) + 1 ELSE 0
      /\ \A i \in 1 .. Len(s) - (n + 1) + 1 : SubSeq(s, n + 1, Len(s))[i] = s[n + 1 + i - 1]
  BY <1>1, SubSeqProperties
<1>4. Take(s, n) \in Seq(S) /\ Len(Take(s, n)) = n /\ \A i \in 1 .. n : Take(s, n)[i] = s[i]
  BY <1>1, <1>2 DEF Take
<1>5. /\ Drop(s, n) \in Seq(S) /\ Len(Drop(s, n)) = Len(s) - n
      /\ \A i \in 1 .. Len(s) - n : Drop(s, n)[i] = s[n + i]
  BY <1>1, <1>3 DEF Drop
<1>6. QED
  BY <1>4, <1>5

(* Taking m elements of the rest is taking m more elements.                *)
LEMMA TakeMore ==
  ASSUME NEW S, NEW s \in Seq(S), NEW n \in 0 .. Len(s), NEW m \in 0 .. Len(s) - n
  PROVE  Take(s, n) \o Take(Drop(s, n), m) = Take(s, n + m)
<1>1. Len(s) \in Nat /\ n \in Nat /\ m \in Nat /\ n + m \in 0 .. Len(s)
  BY LenProperties
<1>2. /\ Take(s, n) \in Seq(S) /\ Len(Take(s, n)) = n
      /\ \A i \in 1 .. n : Take(s, n)[i] = s[i]
      /\ Drop(s, n) \in Seq(S) /\ Len(Drop(s, n)) = Len(s) - n
      /\ \A i \in 1 .. Len(s) - n : Drop(s, n)[i] = s[n + i]
  BY TakeDrop
<1>3. /\ Take(s, n + m) \in Seq(S) /\ Len(Take(s, n + m)) = n + m
      /\ \A i \in 1 .. n + m : Take(s, n + m)[i] = s[i]
  BY <1>1, TakeDrop
<1>4. /\ Take(Drop(s, n), m) \in Seq(S) /\ Len(Take(Drop(s, n), m)) = m
      /\ \A i \in 1 .. m : Take(Drop(s, n), m)[i] = Drop(s, n)[i]
  BY <1>2, TakeDrop
<1>. DEFINE t == Take(s, n)
            u == Take(Drop(s, n), m)
<1>5. /\ t \in Seq(S) /\ Len(t) = n /\ \A i \in 1 .. n : t[i] = s[i]
      /\ u \in Seq(S) /\ Len(u) = m /\ \A i \in 1 .. m : u[i] = s[n + i]
  <2>1. ASSUME NEW i \in 1 .. m PROVE u[i] = s[n + i]
    <3>1. i \in 1 .. Len(s) - n
      BY <1>1
    <3>2. QED
      BY <1>2, <1>4, <3>1
  <2>2. QED
    BY <1>2, <1>4, <2>1
<1>. HIDE DEF t, u
<1>6. /\ t \o u \in Seq(S) /\ Len(t \o u) = n + m
      /\ \A i \in 1 .. n + m : (t \o u)[i] = IF i <= n THEN t[i] ELSE u[i - n]
  BY <1>5, ConcatProperties, ZenonT(40)
<1>7. ASSUME NEW i \in 1 .. n + m PROVE (t \o u)[i] = s[i]
  <2>1. CASE i <= n
    BY <1>1, <1>5, <1>6, <2>1
  <2>2. CASE ~(i <= n)
    <3>1. i - n \in 1 .. m /\ n + (i - n) = i
      BY <1>1, <2>2
    <3>2. QED
      BY <1>5, <1>6, <2>2, <3>1
  <2>3. QED
    BY <2>1, <2>2
<1>8. t \o u = Take(s, n + m)
  BY <1>3, <1>6, <1>7, SeqEqual
<1>9. QED
  BY <1>8 DEF t, u

(* All of a sequence, and nothing of it.                                   *)
LEMMA TakeAll ==
  ASSUME NEW S, NEW s \in Seq(S)
  PROVE  Take(s, Len(s)) = s /\ Take(s, 0) = << >> /\ Drop(s, 0) = s
<1>1. Take(s, Len(s)) = s /\ Drop(s, 0) = s
  BY SubSeqFull DEF Take, Drop
<1>2. Take(s, 0) = << >>
  BY SubSeqEmpty DEF Take
<1>3. QED
  BY <1>1, <1>2

(* The two parts of a sequence, put together.                              *)
LEMMA Rejoin ==
  ASSUME NEW S, NEW s \in Seq(S), NEW n \in 0 .. Len(s)
  PROVE  Take(s, n) \o Drop(s, n) = s
<1>1. Len(s) \in Nat /\ Drop(s, n) \in Seq(S) /\ Len(Drop(s, n)) = Len(s) - n
  BY LenProperties, TakeDrop
<1>2. Take(s, n) \o Take(Drop(s, n), Len(s) - n) = Take(s, n + (Len(s) - n))
  <2>1. Len(s) - n \in 0 .. Len(s) - n
    BY <1>1
  <2>2. QED
    BY <2>1, TakeMore, Zenon
<1>3. Take(Drop(s, n), Len(s) - n) = Drop(s, n) /\ n + (Len(s) - n) = Len(s)
  BY <1>1, TakeAll
<1>4. QED
  BY <1>2, <1>3, TakeAll

Str == Seq(Bytes)
Cat(s, t) == s \o t

(* Concatenation of byte strings: lengths, associativity, empty strings.   *)
LEMMA CatLaws ==
  /\ \A s, t \in Str : Cat(s, t) \in Str /\ Len(Cat(s, t)) = Len(s) + Len(t)
  /\ \A s, t, u \in Str : Cat(Cat(s, t), u) = Cat(s, Cat(t, u))
  /\ << >> \in Str /\ \A s \in Str : Cat(s, << >>) = s /\ Cat(<< >>, s) = s
<1>1. \A s, t \in Str : Cat(s, t) \in Str /\ Len(Cat(s, t)) = Len(s) + Len(t)
  BY ConcatProperties DEF Str, Cat
<1>2. \A s, t, u \in Str : Cat(Cat(s, t), u) = Cat(s, Cat(t, u))
  BY ConcatAssociative DEF Str, Cat
<1>3. << >> \in Str /\ \A s \in Str : Cat(s, << >>) = s /\ Cat(<< >>, s) = s
  BY EmptySeq, ConcatEmptySeq DEF Str, Cat
<1>4. QED
  BY <1>1, <1>2, <1>3

-----------------------------------------------------------------------------
(* The inductive invariant: between two calls nothing is placed that has   *)
(* not been reported.                                                      *)
Inv ==
  /\ TypeOK
  /\ Accounted
  /\ pc = "idle" => arg = << >> /\ nn = 0

(* What the types say, in the names of the laws above.                     *)
LEMMA Types ==
  ASSUME Inv
  PROVE  /\ size \in Nat \ {0} /\ direct \in BOOLEAN /\ err \in BOOLEAN /\ TotalWrite \in Nat
         /\ buf \in Str /\ arg \in Str /\ out \in Str /\ given \in Str
         /\ Len(buf) \in Nat /\ Len(arg) \in Nat /\ Len(buf) <= size
         /\ Available \in Nat /\ Available <= size /\ Len(buf) + Available = size
         /\ nn \in 0 .. Len(arg) /\ nn \in Nat
         /\ Take(arg, nn) \in Str
         /\ Left \in Str /\ Len(Left) = Len(arg) - nn
         /\ pc = "idle" => Take(arg, nn) = << >>
<1>1. /\ size \in Nat \ {0} /\ direct \in BOOLEAN /\ err \in BOOLEAN /\ TotalWrite \in Nat
      /\ buf \in Str /\ arg \in Str /\ out \in Str /\ given \in Str
      /\ Len(buf) <= size /\ nn \in 0 .. Len(arg)
  BY WriterAssumption DEF Inv, TypeOK, Str
<1>2. Len(buf) \in Nat /\ Len(arg) \in Nat
  BY <1>1, LenProperties DEF Str
<1>3. Available \in Nat /\ Available <= size /\ Len(buf) + Available = size
  BY <1>1, <1>2 DEF Available
<1>4. Take(arg, nn) \in Str /\ Left \in Str /\ Len(Left) = Len(arg) - nn
  BY <1>1, TakeDrop DEF Str, Left
<1>5. pc = "idle" => Take(arg, nn) = << >>
  BY <1>1, TakeAll DEF Inv, Str
<1>6. QED
  BY <1>1, <1>2, <1>3, <1>4, <1>5

(* flush puts out and keeps all that was in the buffer, and then has the   *)
(* rest behind it if it succeeds.                                          *)
LEMMA FlushEffect ==
  ASSUME out \in Str, NEW q \in Str, NEW rest \in Str, NEW ok \in BOOLEAN,
         FlushOf(q, rest, ok)
  PROVE  /\ out' \in Str /\ buf' \in Str
         /\ out' \o buf' = out \o (q \o (IF ok THEN rest ELSE << >>))
         /\ Len(buf') <= IF ok THEN Len(rest) ELSE Len(q)
<1>1. CASE ok
  <2>1. out' = Cat(out, q) /\ buf' = rest
    BY <1>1 DEF FlushOf, Cat
  <2>2. out' \in Str /\ Cat(out', buf') = Cat(out, Cat(q, rest))
    BY <2>1, CatLaws
  <2>3. Len(rest) \in Nat
    BY LenProperties DEF Str
  <2>4. QED
    BY <1>1, <2>1, <2>2, <2>3 DEF Cat
<1>2. CASE ~ok
  <2>1. PICK n \in 0 .. Len(q) : out' = Cat(out, Take(q, n)) /\ buf' = Drop(q, n)
    BY <1>2 DEF FlushOf, Cat
  <2>2. /\ Take(q, n) \in Str /\ Drop(q, n) \in Str /\ Len(Drop(q, n)) = Len(q) - n
        /\ Cat(Take(q, n), Drop(q, n)) = q
    BY TakeDrop, Rejoin DEF Str, Cat
  <2>3. out' \in Str /\ Cat(out', buf') = Cat(out, q) /\ Cat(q, << >>) = q
    BY <2>1, <2>2, CatLaws
  <2>4. Len(q) \in Nat
    BY LenProperties DEF Str
  <2>5. QED
    BY <1>2, <2>1, <2>2, <2>3, <2>4 DEF Cat
<1>3. QED
  BY <1>1, <1>2

(* A call that ends has reported n bytes of q, and is ahead of nothing.    *)
LEMMA ReportEffect ==
  ASSUME given \in Str, NEW q \in Str, NEW n \in 0 .. Len(q), NEW r \in {"nil", "err"},
         Report(q, n, r)
  PROVE  /\ given' \in Str /\ given' \o Take(arg', nn') = given \o Take(q, n)
         /\ arg' = << >> /\ arg' \in Str /\ nn' = 0 /\ nn' \in 0 .. Len(arg')
         /\ pc' = "idle" /\ res' \in {"nil", "err"}
<1>1. Take(q, n) \in Str
  BY TakeDrop DEF Str
<1>2. given' = Cat(given, Take(q, n)) /\ arg' = << >> /\ nn' = 0 /\ pc' = "idle" /\ res' = r
  BY DEF Report, Cat
<1>3. << >> \in Str /\ Len(<< >>) = 0 /\ Take(<< >>, 0) = << >>
  BY CatLaws, EmptySeq, TakeAll DEF Str
<1>4. given' \in Str /\ Cat(given', << >>) = given'
  BY <1>1, <1>2, CatLaws
<1>5. given' \o Take(arg', nn') = given \o Take(q, n)
  <2>1. Take(arg', nn') = << >>
    BY ONLY <1>2, <1>3
  <2>2. Cat(given', Take(arg', nn')) = Cat(given, Take(q, n))
    BY ONLY <2>1, <1>2, <1>4
  <2>3. QED
    BY ONLY <2>2 DEF Cat
<1>6. QED
  BY <1>2, <1>3, <1>4, <1>5

(* A step that puts the same bytes t behind both sides keeps the account.  *)
LEMMA Balanced ==
  ASSUME Inv, NEW t \in Str,
         out' \o buf' = out \o (buf \o t),
         given' \o Take(arg', nn') = given \o (Take(arg, nn) \o t)
  PROVE  Accounted'
<1>1. out \o buf = given \o Take(arg, nn)
  BY DEF Inv, Accounted
<1>. DEFINE p == Take(arg, nn)
<1>2. out \in Str /\ buf \in Str /\ given \in Str /\ p \in Str
  BY Types
<1>. HIDE DEF p
<1>3. Cat(Cat(out, buf), t) = Cat(out, Cat(buf, t)) /\ Cat(Cat(given, p), t) = Cat(given, Cat(p, t))
  BY ONLY <1>2, CatLaws, t \in Str
<1>4. out \o (buf \o t) = given \o (p \o t)
  BY <1>1, <1>3 DEF Cat, p
<1>5. QED
  BY <1>4 DEF Accounted, p

(* The account of a call that takes one step: it places and reports the    *)
(* same bytes.                                                             *)
LEMMA AtOnce ==
  ASSUME Inv, pc = "idle", NEW q \in Str, NEW n \in 0 .. Len(q), NEW r \in {"nil", "err"},
         Report(q, n, r), out' \o buf' = out \o (buf \o Take(q, n))
  PROVE  Accounted'
<1>1. Take(q, n) \in Str
  BY TakeDrop DEF Str
<1>2. given' \o Take(arg', nn') = given \o Take(q, n)
  BY Types, ReportEffect
<1>3. Take(arg, nn) = << >> /\ Cat(<< >>, Take(q, n)) = Take(q, n)
  BY <1>1, Types, CatLaws
<1>4. given' \o Take(arg', nn') = given \o (Take(arg, nn) \o Take(q, n))
  BY <1>2, <1>3 DEF Cat
<1>5. QED
  BY <1>1, <1>4, Balanced

(* Nothing at all, in terms of the lemmas above.                           *)
LEMMA Nothing ==
  /\ << >> \in Str /\ Len(<< >>) = 0 /\ 0 \in 0 .. Len(<< >>)
  /\ \A q \in Str : 0 \in 0 .. Len(q) /\ Len(q) \in 0 .. Len(q) /\ Len(q) \in Nat
  /\ \A q \in Str : Take(q, 0) = << >> /\ Take(q, Len(q)) = q
  /\ \A s \in Str : s \o << >> = s /\ << >> \o s = s
<1>1. << >> \in Str /\ Len(<< >>) = 0 /\ 0 \in 0 .. Len(<< >>)
  BY EmptySeq DEF Str
<1>2. \A q \in Str : 0 \in 0 .. Len(q) /\ Len(q) \in 0 .. Len(q) /\ Len(q) \in Nat
  BY LenProperties DEF Str
<1>3. \A q \in Str : Take(q, 0) = << >> /\ Take(q, Len(q)) = q
  BY TakeAll DEF Str
<1>4. \A s \in Str : s \o << >> = s /\ << >> \o s = s
  BY CatLaws DEF Cat
<1>5. QED
  BY <1>1, <1>2, <1>3, <1>4

(* The account of a call that goes on after placing m more bytes.          *)
LEMMA Advance ==
  ASSUME Inv, NEW m \in 0 .. Len(Left), nn' = nn + m, arg' = arg, given' = given,
         out' \o buf' = out \o (buf \o Take(Left, m))
  PROVE  Accounted' /\ nn' \in 0 .. Len(arg')
<1>1. Take(Left, m) \in Str
  BY Types, TakeDrop DEF Str
<1>2. Take(arg, nn) \o Take(Left, m) = Take(arg, nn + m)
  BY Types, TakeMore DEF Left, Str
<1>3. given' \o Take(arg', nn') = given \o (Take(arg, nn) \o Take(Left, m))
  BY <1>2
<1>4. Accounted'
  BY <1>1, <1>3, Balanced
<1>5. nn' \in 0 .. Len(arg')
  BY Types, SMTT(20)
<1>6. QED
  BY <1>4, <1>5

(* The account of a call that places m more bytes and returns.             *)
LEMMA Finish ==
  ASSUME Inv, NEW m \in 0 .. Len(Left), NEW r \in {"nil", "err"}, Report(arg, nn + m, r),
         out' \o buf' = out \o (buf \o Take(Left, m))
  PROVE  Accounted'
<1>1. Take(Left, m) \in Str /\ nn + m \in 0 .. Len(arg)
  <2>1. Take(Left, m) \in Str
    BY Types, TakeDrop DEF Str
  <2>2. nn + m \in 0 .. Len(arg)
    BY Types
  <2>3. QED
    BY <2>1, <2>2
<1>2. Take(arg, nn) \o Take(Left, m) = Take(arg, nn + m)
  BY Types, TakeMore DEF Left, Str
<1>3. given' \o Take(arg', nn') = given \o Take(arg, nn + m)
  BY <1>1, Types, ReportEffect
<1>4. given' \o Take(arg', nn') = given \o (Take(arg, nn) \o Take(Left, m))
  BY <1>2, <1>3
<1>5. QED
  BY <1>1, <1>4, Balanced

-----------------------------------------------------------------------------
(* One lemma for each call, or for each step of a call.                    *)

(* Flush: what it sends leaves the buffer, and it returns no count.        *)
LEMMA FlushStep ==
  ASSUME Inv, Flush
  PROVE  Inv'
<1>1. PICK r \in {"nil", "err"} : Report(<< >>, 0, r)
  BY DEF Flush
<1>2. /\ given' \in Str /\ arg' = << >> /\ arg' \in Str /\ nn' = 0 /\ nn' \in 0 .. Len(arg')
      /\ pc' = "idle" /\ res' \in {"nil", "err"}
  BY <1>1, Types, Nothing, ReportEffect
<1>3. size' = size /\ direct' = direct /\ TotalWrite' = TotalWrite /\ pc = "idle"
  BY DEF Flush, state
<1>4. CASE err
  <2>1. buf' = buf /\ err' = err /\ out' = out
    BY <1>4 DEF Flush, Failed
  <2>2. out' \o buf' = out \o (buf \o Take(<< >>, 0))
    BY <2>1, Types, Nothing
  <2>3. Accounted'
    BY <1>1, <1>3, <2>2, Nothing, AtOnce
  <2>4. QED
    BY <1>2, <1>3, <2>1, <2>3 DEF Inv, TypeOK, Str
<1>5. CASE ~err
  <2>1. PICK ok \in BOOLEAN : FlushOf(buf, << >>, ok) /\ err' = ~ok
    BY <1>5 DEF Flush, Failed
  <2>2. /\ out' \in Str /\ buf' \in Str
        /\ out' \o buf' = out \o (buf \o (IF ok THEN << >> ELSE << >>))
        /\ Len(buf') <= IF ok THEN Len(<< >>) ELSE Len(buf)
    BY <2>1, Types, Nothing, FlushEffect
  <2>3. out' \o buf' = out \o (buf \o Take(<< >>, 0))
    BY <2>2, Nothing
  <2>4. Accounted'
    BY <1>1, <1>3, <2>3, Nothing, AtOnce
  <2>5. Len(buf') <= size
    BY <2>2, Types, Nothing, SMTT(20)
  <2>6. QED
    BY <1>2, <1>3, <2>1, <2>2, <2>4, <2>5 DEF Inv, TypeOK, Str
<1>6. QED
  BY <1>4, <1>5, Types

(* Reset forgets buffer, error and counters, and the history begins anew.  *)
LEMMA ResetStep ==
  ASSUME Inv, Reset
  PROVE  Inv'
<1>1. /\ pc' = "idle" /\ arg' = << >> /\ nn' = 0 /\ size' = size /\ res' = "nil"
      /\ direct' \in BOOLEAN /\ err' = FALSE /\ TotalWrite' = 0
      /\ buf' = << >> /\ out' = << >> /\ given' = << >>
  BY DEF Reset, Inv
<1>2. Take(<< >>, 0) = << >>
  BY Nothing
<1>3. Accounted'
  BY ONLY <1>1, <1>2 DEF Accounted
<1>4. TypeOK'
  <2>1. size \in Sizes /\ size \in Nat /\ << >> \in Seq(Bytes) /\ Len(<< >>) = 0
    BY Types, Nothing DEF Inv, TypeOK, Str
  <2>2. /\ buf' \in Seq(Bytes) /\ Len(buf') <= size' /\ arg' \in Seq(Bytes)
        /\ nn' \in 0 .. Len(arg') /\ out' \in Seq(Bytes) /\ given' \in Seq(Bytes)
    BY ONLY <1>1, <2>1
  <2>3. QED
    BY ONLY <1>1, <2>1, <2>2 DEF TypeOK
<1>5. QED
  BY <1>1, <1>3, <1>4 DEF Inv

(* A call of Write, WriteString or ReadFrom comes with nothing passed on   *)
(* yet.                                                                    *)
LEMMA CallStep ==
  ASSUME Inv, NEW op \in {"Write", "WriteString", "ReadFrom"}, NEW q \in Str, Call(op, q)
  PROVE  Inv'
<1>1. /\ pc = "idle" /\ pc' = op /\ arg' = q /\ nn' = 0
      /\ size' = size /\ direct' = direct /\ buf' = buf /\ err' = err /\ res' = res
      /\ TotalWrite' = TotalWrite /\ out' = out /\ given' = given
  BY DEF Call, Fits, state
<1>2. Take(arg', nn') = Take(arg, nn)
  BY <1>1, Types, Nothing
<1>3. Accounted'
  BY ONLY <1>1, <1>2, Inv DEF Inv, Accounted
<1>4. TypeOK'
  BY <1>1, Nothing DEF Inv, TypeOK, Str
<1>5. QED
  BY <1>1, <1>3, <1>4 DEF Inv

(* The turn of Write that passes a large argument on without the buffer,   *)
(* which is empty.                                                         *)
LEMMA WriteLargeStep ==
  ASSUME Inv, WriteLarge
  PROVE  Inv'
<1>1. PICK ok \in BOOLEAN, n \in 0 .. Len(Left) :
         out' = out \o Take(Left, n) /\ nn' = nn + n /\ err' = ~ok
  BY DEF WriteLarge
<1>2. /\ pc' = pc /\ pc # "idle" /\ buf = << >> /\ buf' = buf /\ size' = size /\ direct' = direct
      /\ TotalWrite' = TotalWrite /\ arg' = arg /\ res' = res /\ given' = given
  BY DEF WriteLarge, state
<1>3. Take(Left, n) \in Str /\ out' \in Str
  <2>1. Take(Left, n) \in Str
    BY Types, TakeDrop DEF Str
  <2>2. Cat(out, Take(Left, n)) \in Str
    BY <2>1, Types, CatLaws
  <2>3. QED
    BY <1>1, <2>1, <2>2 DEF Cat
<1>4. out' \o buf' = out \o (buf \o Take(Left, n))
  BY <1>1, <1>2, <1>3, Nothing
<1>5. Accounted' /\ nn' \in 0 .. Len(arg')
  BY <1>1, <1>2, <1>4, Advance
<1>6. QED
  BY <1>1, <1>2, <1>3, <1>5 DEF Inv, TypeOK, Str

(* The turn of Write that fills the buffer and flushes it, or a part of    *)
(* it.                                                                     *)
LEMMA WriteFillStep ==
  ASSUME Inv, WriteFill
  PROVE  Inv'
<1>. DEFINE t == Take(Left, Available)
<1>1. PICK ok \in BOOLEAN : FlushOf(buf \o t, << >>, ok) /\ err' = ~ok
  BY DEF WriteFill
<1>2. /\ pc' = pc /\ pc # "idle" /\ size' = size /\ direct' = direct /\ nn' = nn + Available
      /\ TotalWrite' = TotalWrite /\ arg' = arg /\ res' = res /\ given' = given
      /\ Available \in 0 .. Len(Left)
  BY Types DEF WriteFill, state
<1>3. t \in Str /\ Len(t) = Available
  BY <1>2, Types, TakeDrop DEF Str
<1>4. buf \o t \in Str /\ Len(buf \o t) = size /\ (buf \o t) \o << >> = buf \o t
  <2>1. Cat(buf, t) \in Str /\ Len(Cat(buf, t)) = Len(buf) + Len(t)
    BY <1>3, Types, CatLaws
  <2>2. Len(buf) + Available = size
    BY Types
  <2>3. QED
    BY <1>3, <2>1, <2>2, Nothing DEF Cat
<1>. HIDE DEF t
<1>5. /\ out' \in Str /\ buf' \in Str
      /\ out' \o buf' = out \o ((buf \o t) \o (IF ok THEN << >> ELSE << >>))
      /\ Len(buf') <= IF ok THEN Len(<< >>) ELSE Len(buf \o t)
  BY <1>1, <1>4, Types, Nothing, FlushEffect, ZenonT(40)
<1>6. out' \o buf' = out \o (buf \o Take(Left, Available))
  BY <1>4, <1>5 DEF t
<1>7. Accounted' /\ nn' \in 0 .. Len(arg')
  BY <1>2, <1>6, Advance
<1>8. Len(buf') <= size
  BY <1>4, <1>5, Types, Nothing
<1>9. QED
  BY <1>1, <1>2, <1>5, <1>7, <1>8 DEF Inv, TypeOK, Str

(* The end of Write: the count it returns is what was sent and stored,     *)
(* with an error or without.                                               *)
LEMMA WriteReturnStep ==
  ASSUME Inv, WriteReturn
  PROVE  Inv'
<1>1. size' = size /\ direct' = direct /\ err' = err /\ out' = out
  BY DEF WriteReturn, state
<1>2. CASE err
  <2>1. Report(arg, nn, "err") /\ buf' = buf /\ TotalWrite' = TotalWrite + nn
    BY <1>2 DEF WriteReturn
  <2>2. /\ given' \in Str /\ arg' = << >> /\ arg' \in Str /\ nn' = 0 /\ nn' \in 0 .. Len(arg')
        /\ pc' = "idle" /\ res' \in {"nil", "err"}
    BY <2>1, Types, ReportEffect
  <2>3. 0 \in 0 .. Len(Left) /\ nn + 0 = nn /\ TotalWrite' \in Nat
    BY <2>1, Types
  <2>4. out' \o buf' = out \o (buf \o Take(Left, 0))
    BY <1>1, <2>1, Types, Nothing
  <2>5. Accounted'
    BY <2>1, <2>3, <2>4, Finish
  <2>6. QED
    BY <1>1, <2>1, <2>2, <2>3, <2>5 DEF Inv, TypeOK, Str
<1>3. CASE ~err
  <2>1. /\ Report(arg, Len(arg), "nil") /\ buf' = buf \o Left
        /\ TotalWrite' = TotalWrite + Len(arg) /\ Len(Left) <= Available
    BY <1>3 DEF WriteReturn
  <2>2. /\ given' \in Str /\ arg' = << >> /\ arg' \in Str /\ nn' = 0 /\ nn' \in 0 .. Len(arg')
        /\ pc' = "idle" /\ res' \in {"nil", "err"}
    BY <2>1, Types, Nothing, ReportEffect
  <2>3. Len(Left) \in 0 .. Len(Left) /\ nn + Len(Left) = Len(arg) /\ TotalWrite' \in Nat
    BY <2>1, Types, SMTT(20)
  <2>4. out' \o buf' = out \o (buf \o Take(Left, Len(Left)))
    BY <1>1, <2>1, Types, Nothing
  <2>5. Accounted'
    BY <2>1, <2>3, <2>4, Finish
  <2>6. buf' \in Str /\ Len(buf') <= size
    <3>1. Cat(buf, Left) \in Str /\ Len(Cat(buf, Left)) = Len(buf) + Len(Left)
      BY Types, CatLaws
    <3>2. Len(buf) + Len(Left) <= size
      BY <2>1, Types
    <3>3. QED
      BY <2>1, <3>1, <3>2 DEF Cat
  <2>7. QED
    BY <1>1, <2>2, <2>3, <2>5, <2>6 DEF Inv, TypeOK, Str
<1>4. QED
  BY <1>2, <1>3, Types

(* The common part of WriteByte and WriteRune.                             *)
LEMMA StoreStep ==
  ASSUME Inv, NEW q \in Str, NEW room \in Nat, pc = "idle", StoreWhole(q, room),
         Len(q) <= room, err \/ room <= size
  PROVE  Inv'
<1>1. size' = size /\ direct' = direct /\ Len(q) \in Nat
  BY Nothing DEF StoreWhole, state
<1>2. CASE err
  <2>1. Report(q, 0, "err") /\ buf' = buf /\ err' = err /\ out' = out /\ TotalWrite' = TotalWrite
    BY <1>2 DEF StoreWhole
  <2>2. /\ given' \in Str /\ arg' = << >> /\ arg' \in Str /\ nn' = 0 /\ nn' \in 0 .. Len(arg')
        /\ pc' = "idle" /\ res' \in {"nil", "err"}
    BY <2>1, Types, Nothing, ReportEffect
  <2>3. out' \o buf' = out \o (buf \o Take(q, 0))
    BY <2>1, Types, Nothing
  <2>4. Accounted'
    BY <2>1, <2>3, Nothing, AtOnce
  <2>5. QED
    BY <1>1, <2>1, <2>2, <2>4 DEF Inv, TypeOK, Str
<1>3. CASE ~err /\ Available >= room
  <2>1. /\ Report(q, Len(q), "nil") /\ buf' = buf \o q /\ err' = err /\ out' = out
        /\ TotalWrite' = TotalWrite + Len(q)
    BY <1>3, Types, SMTT(20) DEF StoreWhole
  <2>2. /\ given' \in Str /\ arg' = << >> /\ arg' \in Str /\ nn' = 0 /\ nn' \in 0 .. Len(arg')
        /\ pc' = "idle" /\ res' \in {"nil", "err"}
    BY <2>1, Types, Nothing, ReportEffect
  <2>3. out' \o buf' = out \o (buf \o Take(q, Len(q)))
    BY <2>1, Nothing
  <2>4. Accounted'
    BY <2>1, <2>3, Nothing, AtOnce
  <2>5. buf' \in Str /\ Len(buf') <= size
    <3>1. Cat(buf, q) \in Str /\ Len(Cat(buf, q)) = Len(buf) + Len(q)
      BY Types, CatLaws
    <3>2. Len(buf) + Len(q) <= size
      BY <1>1, <1>3, Types
    <3>3. QED
      BY <2>1, <3>1, <3>2 DEF Cat
  <2>6. TotalWrite' \in Nat
    BY <1>1, <2>1, Types
  <2>7. QED
    BY <1>1, <2>1, <2>2, <2>4, <2>5, <2>6 DEF Inv, TypeOK, Str
<1>4. CASE ~err /\ ~(Available >= room)
  <2>1. PICK ok \in BOOLEAN :
          /\ FlushOf(buf, q, ok) /\ err' = ~ok
          /\ TotalWrite' = IF ok THEN TotalWrite + Len(q) ELSE TotalWrite
          /\ Report(q, IF ok THEN Len(q) ELSE 0, IF ok THEN "nil" ELSE "err")
    BY <1>4, Types DEF StoreWhole
  <2>. DEFINE n == IF ok THEN Len(q) ELSE 0
              r == IF ok THEN "nil" ELSE "err"
  <2>2. n \in 0 .. Len(q) /\ r \in {"nil", "err"} /\ Report(q, n, r)
    BY <1>1, <2>1
  <2>3. /\ out' \in Str /\ buf' \in Str
        /\ out' \o buf' = out \o (buf \o (IF ok THEN q ELSE << >>))
        /\ Len(buf') <= IF ok THEN Len(q) ELSE Len(buf)
    BY <2>1, Types, Nothing, FlushEffect
  <2>4. Take(q, n) = IF ok THEN q ELSE << >>
    BY Nothing
  <2>. HIDE DEF n, r
  <2>5. /\ given' \in Str /\ arg' = << >> /\ arg' \in Str /\ nn' = 0 /\ nn' \in 0 .. Len(arg')
        /\ pc' = "idle" /\ res' \in {"nil", "err"}
    BY <2>2, Types, Nothing, ReportEffect, SMTT(20)
  <2>6. Accounted'
    BY <2>2, <2>3, <2>4, AtOnce
  <2>7. Len(buf') <= size
    BY <1>1, <1>4, <2>3, Types
  <2>8. TotalWrite' \in Nat
    BY <1>1, <2>1, Types
  <2>9. QED
    BY <1>1, <2>1, <2>3, <2>5, <2>6, <2>7, <2>8 DEF Inv, TypeOK, Str
<1>5. QED
  BY <1>2, <1>3, <1>4, Types

(* WriteRune with too little room: it flushes, and goes on as WriteString  *)
(* if the buffer is too small for any rune.                                *)
LEMMA WriteRuneSmallStep ==
  ASSUME Inv, NEW q \in Str, WriteRuneSmall(q)
  PROVE  Inv'
<1>1. PICK ok \in BOOLEAN :
        /\ FlushOf(buf, << >>, ok) /\ err' = ~ok
        /\ \/ ok /\ pc' = "WriteString" /\ arg' = q /\ nn' = 0 /\ UNCHANGED <<res, given>>
           \/ ~ok /\ Report(q, 0, "err")
  BY DEF WriteRuneSmall
<1>2. pc = "idle" /\ size' = size /\ direct' = direct /\ TotalWrite' = TotalWrite
  BY DEF WriteRuneSmall, Fits, state
<1>3. /\ out' \in Str /\ buf' \in Str
      /\ out' \o buf' = out \o (buf \o (IF ok THEN << >> ELSE << >>))
      /\ Len(buf') <= IF ok THEN Len(<< >>) ELSE Len(buf)
  BY <1>1, Types, Nothing, FlushEffect
<1>4. Len(buf') <= size
  BY <1>3, Types, Nothing, SMTT(20)
<1>5. out' \o buf' = out \o (buf \o << >>)
  BY <1>3
<1>6. CASE ok
  <2>1. pc' = "WriteString" /\ arg' = q /\ nn' = 0 /\ res' = res /\ given' = given
    BY <1>1, <1>6
  <2>2. Take(arg', nn') = << >> /\ Take(arg, nn) = << >>
    BY <1>2, <2>1, Types, Nothing
  <2>3. << >> \o << >> = << >> /\ << >> \in Str
    BY Nothing
  <2>4. given' \o Take(arg', nn') = given \o (Take(arg, nn) \o << >>)
    BY <2>1, <2>2, <2>3
  <2>5. Accounted'
    BY <1>5, <2>3, <2>4, Balanced
  <2>6. QED
    BY <1>1, <1>2, <1>3, <1>4, <2>1, <2>5, Nothing DEF Inv, TypeOK, Str
<1>7. CASE ~ok
  <2>1. Report(q, 0, "err")
    BY <1>1, <1>7
  <2>2. /\ given' \in Str /\ arg' = << >> /\ arg' \in Str /\ nn' = 0 /\ nn' \in 0 .. Len(arg')
        /\ pc' = "idle" /\ res' \in {"nil", "err"}
    BY <2>1, Types, Nothing, ReportEffect
  <2>3. out' \o buf' = out \o (buf \o Take(q, 0))
    BY <1>5, Nothing
  <2>4. Accounted'
    BY <1>2, <2>1, <2>3, Nothing, AtOnce
  <2>5. QED
    BY <1>1, <1>2, <1>3, <1>4, <2>2, <2>4 DEF Inv, TypeOK, Str
<1>8. QED
  BY <1>6, <1>7

(* ReadFrom handed to the writer underneath, with an empty buffer.         *)
LEMMA ReadFromDirectStep ==
  ASSUME Inv, NEW q \in Str, ReadFromDirect(q)
  PROVE  Inv'
<1>1. PICK n \in 0 .. Len(q), r \in {"nil", "err"} :
        out' = out \o Take(q, n) /\ TotalWrite' = TotalWrite + n /\ Report(q, n, r)
  BY DEF ReadFromDirect
<1>2. /\ pc = "idle" /\ buf = << >> /\ buf' = buf /\ size' = size /\ direct' = direct
      /\ err' = err
  BY DEF ReadFromDirect, Fits, state
<1>3. Take(q, n) \in Str /\ out' \in Str
  <2>1. Take(q, n) \in Str
    BY TakeDrop DEF Str
  <2>2. Cat(out, Take(q, n)) \in Str
    BY <2>1, Types, CatLaws
  <2>3. QED
    BY <1>1, <2>1, <2>2 DEF Cat
<1>4. out' \o buf' = out \o (buf \o Take(q, n))
  BY <1>1, <1>2, <1>3, Nothing
<1>5. /\ given' \in Str /\ arg' = << >> /\ arg' \in Str /\ nn' = 0 /\ nn' \in 0 .. Len(arg')
      /\ pc' = "idle" /\ res' \in {"nil", "err"}
  BY <1>1, Types, ReportEffect
<1>6. Accounted'
  BY <1>1, <1>2, <1>4, AtOnce
<1>7. TotalWrite' \in Nat
  BY <1>1, Types, Nothing, SMTT(20)
<1>8. QED
  BY <1>2, <1>3, <1>5, <1>6, <1>7 DEF Inv, TypeOK, Str

(* ReadFrom flushes the full buffer, and ends if that fails.               *)
LEMMA FromFlushStep ==
  ASSUME Inv, FromFlush
  PROVE  Inv'
<1>1. size' = size /\ direct' = direct /\ TotalWrite' = TotalWrite /\ pc = "ReadFrom"
  BY DEF FromFlush, state
<1>2. 0 \in 0 .. Len(Left) /\ nn + 0 = nn /\ Take(Left, 0) = << >> /\ buf \o << >> = buf
  BY Types, Nothing
<1>3. CASE err
  <2>1. Report(arg, nn, "err") /\ buf' = buf /\ err' = err /\ out' = out
    BY <1>3 DEF FromFlush
  <2>2. /\ given' \in Str /\ arg' = << >> /\ arg' \in Str /\ nn' = 0 /\ nn' \in 0 .. Len(arg')
        /\ pc' = "idle" /\ res' \in {"nil", "err"}
    BY <2>1, Types, ReportEffect
  <2>3. out' \o buf' = out \o (buf \o Take(Left, 0))
    BY <1>2, <2>1
  <2>4. Accounted'
    BY <1>2, <2>1, <2>3, Finish
  <2>5. QED
    BY <1>1, <2>1, <2>2, <2>4 DEF Inv, TypeOK, Str
<1>4. CASE ~err
  <2>1. PICK ok \in BOOLEAN :
          /\ FlushOf(buf, << >>, ok) /\ err' = ~ok
          /\ \/ ok /\ UNCHANGED <<pc, arg, nn, res, given>>
             \/ ~ok /\ Report(arg, nn, "err")
    BY <1>4 DEF FromFlush
  <2>2. /\ out' \in Str /\ buf' \in Str
        /\ out' \o buf' = out \o (buf \o (IF ok THEN << >> ELSE << >>))
        /\ Len(buf') <= IF ok THEN Len(<< >>) ELSE Len(buf)
    BY <2>1, Types, Nothing, FlushEffect
  <2>3. Len(buf') <= size
    BY <2>2, Types, Nothing, SMTT(20)
  <2>4. out' \o buf' = out \o (buf \o Take(Left, 0))
    BY <1>2, <2>2
  <2>5. CASE ok
    <3>1. pc' = pc /\ arg' = arg /\ nn' = nn + 0 /\ res' = res /\ given' = given
      BY <1>2, <2>1, <2>5
    <3>2. Accounted' /\ nn' \in 0 .. Len(arg')
      BY <1>2, <2>4, <3>1, Advance
    <3>3. QED
      BY <1>1, <2>1, <2>2, <2>3, <3>1, <3>2 DEF Inv, TypeOK, Str
  <2>6. CASE ~ok
    <3>1. Report(arg, nn, "err")
      BY <2>1, <2>6
    <3>2. /\ given' \in Str /\ arg' = << >> /\ arg' \in Str /\ nn' = 0 /\ nn' \in 0 .. Len(arg')
          /\ pc' = "idle" /\ res' \in {"nil", "err"}
      BY <3>1, Types, ReportEffect
    <3>3. Accounted'
      BY <1>2, <2>4, <3>1, Finish
    <3>4. QED
      BY <1>1, <2>1, <2>2, <2>3, <3>2, <3>3 DEF Inv, TypeOK, Str
  <2>7. QED
    BY <2>5, <2>6
<1>5. QED
  BY <1>3, <1>4, Types

(* What r.Read puts behind the buffered bytes fits.                        *)
LEMMA ReadFits ==
  ASSUME Inv, NEW m \in Nat, m <= Available, nn + m <= Len(arg)
  PROVE  /\ m \in 0 .. Len(Left)
         /\ buf \o Take(Left, m) \in Str /\ Len(buf \o Take(Left, m)) <= size
<1>1. m \in 0 .. Len(Left)
  BY Types
<1>2. Take(Left, m) \in Str /\ Len(Take(Left, m)) = m
  BY <1>1, Types, TakeDrop, ZenonT(40) DEF Str
<1>3. /\ Cat(buf, Take(Left, m)) \in Str
      /\ Len(Cat(buf, Take(Left, m))) = Len(buf) + Len(Take(Left, m))
  BY <1>2, Types, CatLaws
<1>4. Len(buf) + m <= size
  BY Types
<1>5. QED
  BY <1>1, <1>2, <1>3, <1>4 DEF Cat

(* A turn of ReadFrom that reads into the room left in the buffer.         *)
LEMMA FromReadStep ==
  ASSUME Inv, NEW m \in Nat, FromRead(m)
  PROVE  Inv'
<1>1. /\ m <= Available /\ nn + m <= Len(arg) /\ buf' = buf \o Take(Left, m) /\ nn' = nn + m
      /\ size' = size /\ direct' = direct /\ err' = err /\ TotalWrite' = TotalWrite
      /\ pc' = pc /\ arg' = arg /\ res' = res /\ out' = out /\ given' = given
      /\ pc # "idle"
  BY DEF FromRead, Room, state
<1>2. m \in 0 .. Len(Left) /\ buf' \in Str /\ Len(buf') <= size
  BY <1>1, ReadFits
<1>3. out' \o buf' = out \o (buf \o Take(Left, m))
  BY <1>1
<1>4. Accounted' /\ nn' \in 0 .. Len(arg')
  BY <1>1, <1>2, <1>3, Advance
<1>5. QED
  BY <1>1, <1>2, <1>4 DEF Inv, TypeOK, Str

(* The last turn of ReadFrom: the end or an error of the source.           *)
LEMMA FromEndStep ==
  ASSUME Inv, NEW m \in Nat, NEW e \in {"eof", "err", "nil"}, FromEnd(m, e)
  PROVE  Inv'
<1>. DEFINE full == buf \o Take(Left, m)
<1>1. /\ m <= Available /\ nn + m <= Len(arg) /\ size' = size /\ direct' = direct
      /\ TotalWrite' = TotalWrite + nn + m
      /\ \E r \in {"nil", "err"} : Report(arg, nn + m, r)
      /\ \/ \E ok \in BOOLEAN : FlushOf(full, << >>, ok) /\ err' = ~ok
         \/ buf' = full /\ err' = err /\ out' = out
  BY DEF FromEnd, state
<1>2. m \in 0 .. Len(Left) /\ full \in Str /\ Len(full) <= size
  BY <1>1, ReadFits
<1>3. PICK r \in {"nil", "err"} : Report(arg, nn + m, r)
  BY <1>1
<1>4. nn + m \in 0 .. Len(arg) /\ TotalWrite' \in Nat
  BY <1>1, Types
<1>5. /\ given' \in Str /\ arg' = << >> /\ arg' \in Str /\ nn' = 0 /\ nn' \in 0 .. Len(arg')
      /\ pc' = "idle" /\ res' \in {"nil", "err"}
  BY <1>3, <1>4, Types, ReportEffect
<1>. HIDE DEF full
<1>. DEFINE Kept == /\ out' \in Str /\ buf' \in Str /\ Len(buf') <= size /\ err' \in BOOLEAN
                    /\ out' \o buf' = out \o full
<1>6. Kept
  <2>1. ASSUME NEW ok \in BOOLEAN, FlushOf(full, << >>, ok), err' = ~ok
        PROVE  Kept
    <3>1. /\ out' \in Str /\ buf' \in Str
          /\ out' \o buf' = out \o (full \o (IF ok THEN << >> ELSE << >>))
          /\ Len(buf') <= IF ok THEN Len(<< >>) ELSE Len(full)
      BY <1>2, <2>1, Types, Nothing, FlushEffect
    <3>2. Len(buf') <= size
      <4>1. Len(full) \in Nat /\ Len(buf') \in Nat /\ Len(<< >>) = 0 /\ size \in Nat
        BY <1>2, <3>1, Types, Nothing
      <4>2. QED
        BY <1>2, <3>1, <4>1
    <3>3. full \o << >> = full
      BY <1>2, Nothing
    <3>4. QED
      BY <2>1, <3>1, <3>2, <3>3
  <2>2. CASE buf' = full /\ err' = err /\ out' = out
    BY <1>2, <2>2, Types
  <2>3. QED
    BY <1>1, <2>1, <2>2
<1>7. Accounted'
  BY <1>2, <1>3, <1>6, Finish DEF full
<1>8. QED
  BY <1>1, <1>4, <1>5, <1>6, <1>7 DEF Inv, TypeOK, Str

-----------------------------------------------------------------------------
(* The arguments of the calls are byte strings.                            *)
LEMMA ArgsAreStrings == Args \subseteq Str
<1>1. SUFFICES ASSUME NEW n \in 0 .. MaxArg, NEW q \in [1 .. n -> Bytes]
               PROVE  q \in Str
  BY DEF Args
<1>2. n \in Nat
  BY WriterAssumption
<1>3. QED
  BY <1>2, IsASeq DEF Str

(* The invariant holds in every state of the specification.                *)
THEOREM Invariance == Spec => []Inv
<1>1. Init => Inv
  <2>. SUFFICES ASSUME Init PROVE Inv
    OBVIOUS
  <2>2. << >> \in Str /\ Len(<< >>) = 0 /\ Take(<< >>, 0) = << >>
    BY Nothing
  <2>3. Accounted
    BY <2>2 DEF Init, Accounted
  <2>4. TypeOK
    <3>1. size \in Nat
      BY WriterAssumption DEF Init
    <3>2. Len(buf) <= size /\ nn \in 0 .. Len(arg)
      BY <2>2, <3>1 DEF Init
    <3>3. QED
      BY <2>2, <3>2 DEF Init, TypeOK, Str
  <2>5. QED
    BY <2>3, <2>4 DEF Init, Inv
<1>2. Inv /\ [Next]_vars => Inv'
  <2>. SUFFICES ASSUME Inv, [Next]_vars PROVE Inv'
    OBVIOUS
  <2>2. ASSUME NEW c \in Bytes, WriteByte(c) PROVE Inv'
    <3>1. <<c>> \in Str /\ Len(<<c>>) = 1
      BY DEF Str
    <3>2. pc = "idle" /\ StoreWhole(<<c>>, 1)
      BY <2>2 DEF WriteByte, Fits
    <3>3. Len(<<c>>) <= 1 /\ 1 <= size
      BY <3>1, Types
    <3>4. QED
      BY <3>1, <3>2, <3>3, StoreStep
  <2>3. ASSUME NEW q \in Args, WriteRune(q) PROVE Inv'
    <3>1. q \in Str /\ UTFMax \in Nat
      BY ArgsAreStrings, WriterAssumption
    <3>2. pc = "idle" /\ StoreWhole(q, UTFMax) /\ Len(q) <= UTFMax /\ (err \/ UTFMax <= size)
      BY <2>3, <3>1, Types, Nothing DEF WriteRune, Fits
    <3>3. QED
      BY <3>1, <3>2, StoreStep
  <2>4. ASSUME NEW q \in Args,
               \/ Call("Write", q) \/ Call("WriteString", q) \/ WriteRuneSmall(q)
               \/ ReadFromDirect(q) \/ ReadFrom(q)
        PROVE  Inv'
    <3>1. q \in Str
      BY ArgsAreStrings
    <3>2. QED
      BY <2>4, <3>1, CallStep, WriteRuneSmallStep, ReadFromDirectStep DEF ReadFrom
  <2>5. ASSUME NEW m \in 0 .. MaxArg,
               FromRead(m) \/ \E e \in {"eof", "err", "nil"} : FromEnd(m, e)
        PROVE  Inv'
    <3>1. m \in Nat
      BY WriterAssumption
    <3>2. QED
      BY <2>5, <3>1, FromReadStep, FromEndStep
  <2>6. CASE WriteLarge \/ WriteFill \/ WriteReturn \/ FromFlush
    BY <2>6, WriteLargeStep, WriteFillStep, WriteReturnStep, FromFlushStep
  <2>7. CASE Flush \/ Reset
    BY <2>7, FlushStep, ResetStep
  <2>8. CASE UNCHANGED vars
    BY <2>8 DEF Inv, TypeOK, Accounted, vars
  <2>9. QED
    BY <2>2, <2>3, <2>4, <2>5, <2>6, <2>7, <2>8 DEF Next, Turn
<1>3. QED
  BY <1>1, <1>2, PTL DEF Spec

(* The fields and results of a Writer have their types: the buffer never   *)
(* holds more than its size, and a call never places more than it has.     *)
THEOREM TypeCorrect == Spec => []TypeOK
<1>1. Inv => TypeOK
  BY DEF Inv
<1>2. QED
  BY <1>1, Invariance, PTL

(* The counts that Write, WriteString, WriteByte, WriteRune and ReadFrom   *)
(* return are true: the bytes reported are those taken by the io.Writer    *)
(* and then those in the buffer, whatever failed and however far it got.   *)
THEOREM CountsAreTrue == Spec => []Accounted
<1>1. Inv => Accounted
  BY DEF Inv
<1>2. QED
  BY <1>1, Invariance, PTL

(* A write or a flush that fails is never forgotten before a Reset, and    *)
(* every call but ReadFrom is refused from then on.                        *)
THEOREM ErrorsStick == Spec => ErrorSticks
<1>. DEFINE Fills == /\ err' /\ pc = "ReadFrom" /\ out' = out
                     /\ (pc' = "idle" /\ Len(buf') = size => res' = "err")
            Sticks == \/ Reset
                      \/ err' /\ Refused
                      \/ err' /\ \E q \in Args : ReadFromDirect(q)
                      \/ Fills
<1>1. Inv /\ [Next]_vars => [err => Sticks]_vars
  <2>1. SUFFICES ASSUME Inv, Next, err PROVE Sticks
    OBVIOUS
  <2>2. CASE Flush
    BY <2>1, <2>2 DEF Flush, Failed, Refused, Report
  <2>3. CASE Reset
    BY <2>3
  <2>4. CASE WriteLarge \/ WriteFill
    BY <2>1, <2>4 DEF WriteLarge, WriteFill
  <2>5. CASE WriteReturn
    BY <2>1, <2>5 DEF WriteReturn, Refused, Report
  <2>6. CASE FromFlush
    BY <2>1, <2>6 DEF FromFlush, Refused, Report
  <2>7. ASSUME NEW m \in 0 .. MaxArg, FromRead(m) PROVE Sticks
    BY <2>1, <2>7 DEF FromRead
  <2>8. ASSUME NEW m \in 0 .. MaxArg, NEW e \in {"eof", "err", "nil"}, FromEnd(m, e)
        PROVE  Sticks
    <3>. DEFINE full == buf \o Take(Left, m)
    <3>1. /\ pc = "ReadFrom" /\ Available > 0 /\ (e = "nil" => m = 0)
          /\ buf' = full /\ UNCHANGED <<err, out>>
      BY <2>1, <2>8 DEF FromEnd
    <3>2. CASE e = "eof" /\ ~(Len(full) < size)
      BY <2>1, <2>8, <3>1, <3>2 DEF FromEnd, Report
    <3>3. CASE e = "eof" /\ Len(full) < size
      <4>1. Len(buf') # size
        BY <2>1, <3>1, <3>3, Types
      <4>2. QED
        BY <2>1, <3>1, <4>1
    <3>4. CASE e = "err"
      BY <2>1, <2>8, <3>1, <3>4 DEF FromEnd, Report
    <3>5. CASE e = "nil"
      <4>1. Left \in Str
        BY <2>1, Types
      <4>2. Take(Left, 0) = << >>
        BY <4>1, TakeAll DEF Str
      <4>3. buf' = buf
        BY <2>1, <3>1, <3>5, <4>2, Types, CatLaws DEF Cat
      <4>4. Len(buf) # size
        BY <2>1, <3>1, Types DEF Available
      <4>5. QED
        BY <2>1, <3>1, <4>3, <4>4
    <3>6. QED
      BY <3>2, <3>3, <3>4, <3>5
  <2>9. ASSUME NEW c \in Bytes, WriteByte(c) PROVE Sticks
    BY <2>1, <2>9 DEF WriteByte, Fits, StoreWhole, Refused, Report
  <2>10. ASSUME NEW q \in Args, WriteRune(q) \/ WriteRuneSmall(q) PROVE Sticks
    BY <2>1, <2>10 DEF WriteRune, WriteRuneSmall, Fits, StoreWhole, Refused, Report
  <2>11. ASSUME NEW q \in Args, NEW op \in {"Write", "WriteString", "ReadFrom"}, Call(op, q)
         PROVE  Sticks
    BY <2>1, <2>11 DEF Call, Fits, Refused
  <2>12. ASSUME NEW q \in Args, ReadFromDirect(q) PROVE Sticks
    BY <2>1, <2>12 DEF ReadFromDirect
  <2>13. QED
    BY <2>1, <2>2, <2>3, <2>4, <2>5, <2>6, <2>7, <2>8, <2>9, <2>10, <2>11, <2>12
       DEF Next, Turn, ReadFrom
<1>2. QED
  BY <1>1, Invariance, PTL DEF Spec, ErrorSticks
=============================================================================
