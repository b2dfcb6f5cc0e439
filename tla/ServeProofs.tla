---------------------------- MODULE ServeProofs ----------------------------
(***************************************************************************)
(* Proofs about the two ways in which connections are served: AcceptLoop,  *)
(* for every set of clients and every number of errors of Accept,          *)
(* and SocksHandler, for every request, reply and buffer size and every    *)
(* way in which the network cuts up what is sent.                          *)
(***************************************************************************)
EXTENDS AcceptLoop, SocksHandler, SequenceTheorems, TLAPS

(***************************************************************************)
(* The inductive invariant.  CutHasCause speaks of clients that are cut    *)
(* off when the process ends; it needs that a process returns from its     *)
(* loop only for a permanent error, and from its start with no client      *)
(* (Ending).                                                               *)
(***************************************************************************)
States ==
  /\ role \in {"local", "server"}
  /\ proc \in {"config", "cipher", "listen", "accept", "sleep", "returned", "exited"}
  /\ client \in [Clients -> {"away", "queued", "handler", "dialled", "served",
                             "refused", "cut"}]

Numbers ==
  /\ reqNum \in Nat /\ tempDelay \in 0 .. 1000
  /\ errors \in [Kinds -> Nat] /\ ErrorCount <= MaxErrors

Permanent == role = "local" /\ errors["permanent"] > 0

Ending ==
  proc \in {"accept", "sleep"} \/ Permanent \/ \A c \in Clients : client[c] = "away"

Uncut == Permanent \/ \A c \in Clients : client[c] # "cut"

Inv == States /\ Numbers /\ Ending /\ Uncut

-----------------------------------------------------------------------------
(* Startup and sleep keep Inv.                                             *)
LEMMA MainStep ==
  ASSUME Inv, ConfigLoad \/ PickCipher \/ Listen \/ Wake
  PROVE  Inv'
<1>1. /\ UNCHANGED <<role, tempDelay, client, reqNum, errors>>
      /\ proc \in {"config", "cipher", "listen", "sleep"}
      /\ proc' \in {"cipher", "listen", "accept", "returned", "exited"}
      /\ proc = "sleep" => proc' = "accept"
  BY DEF ConfigLoad, PickCipher, Listen, Wake, Startup
<1>2. QED
  BY <1>1 DEF Inv, States, Numbers, Ending, Uncut, Permanent, ErrorCount

(* An error of Accept keeps Inv, as only a permanent one of the local      *)
(* proxy ends the loop.                                                    *)
LEMMA ErrorStep ==
  ASSUME Inv, LocalError \/ ServerError
  PROVE  Inv'
<1>1. ASSUME NEW k \in Kinds, NEW next \in {"accept", "sleep", "returned"},
             NEW delay \in 0 .. 1000, Fails(k, next, delay),
             next = "returned" => role = "local" /\ k = "permanent"
      PROVE  Inv'
  <2>1. /\ proc = "accept" /\ proc' = next /\ tempDelay' = delay
        /\ UNCHANGED <<role, client, reqNum>>
    BY <1>1 DEF Fails
  <2>2. /\ errors' \in [Kinds -> Nat] /\ ErrorCount' <= MaxErrors
        /\ errors'["permanent"] >= errors["permanent"]
        /\ k = "permanent" => errors'["permanent"] > 0
    BY <1>1, AcceptAssumption DEF Inv, Numbers, ErrorCount, Kinds, Fails
  <2>3. States' /\ Numbers'
    BY <1>1, <2>1, <2>2 DEF Inv, States, Numbers
  <2>4. Permanent => Permanent'
    <3>1. errors["permanent"] \in Nat /\ errors'["permanent"] \in Nat
      BY <2>2 DEF Inv, Numbers, Kinds
    <3>2. QED
      BY <2>1, <2>2, <3>1 DEF Permanent
  <2>5. Ending'
    BY <1>1, <2>1, <2>2 DEF Ending, Permanent
  <2>6. Uncut'
    BY <2>1, <2>4 DEF Inv, Uncut
  <2>7. QED
    BY <2>3, <2>5, <2>6 DEF Inv
<1>2. tempDelay \in 0 .. 1000 /\ delayCalc(tempDelay) \in 0 .. 1000
  BY DEF Inv, Numbers, delayCalc
<1>3. CASE LocalError
  <2>1. CASE Fails("timeout", "accept", tempDelay)
    BY ONLY <1>1, <1>2, <2>1 DEF Kinds
  <2>2. CASE Fails("temporary", "sleep", delayCalc(tempDelay))
    BY ONLY <1>1, <1>2, <2>2 DEF Kinds
  <2>3. CASE Fails("permanent", "returned", tempDelay)
    <3>1. role = "local"
      BY <1>3 DEF LocalError
    <3>2. QED
      BY ONLY <1>1, <1>2, <2>3, <3>1 DEF Kinds
  <2>4. QED
    BY ONLY <1>3, <2>1, <2>2, <2>3 DEF LocalError
<1>4. CASE ServerError
  <2>1. ASSUME NEW k \in {"timeout", "temporary", "permanent"}, Fails(k, "accept", tempDelay)
        PROVE  Inv'
    <3>1. CASE k = "timeout"
      BY ONLY <1>1, <1>2, <2>1, <3>1 DEF Kinds
    <3>2. CASE k = "temporary"
      BY ONLY <1>1, <1>2, <2>1, <3>2 DEF Kinds
    <3>3. CASE k = "permanent"
      BY ONLY <1>1, <1>2, <2>1, <3>3 DEF Kinds
    <3>4. QED
      BY <2>1, <3>1, <3>2, <3>3
  <2>2. QED
    BY ONLY <1>4, <2>1 DEF ServerError, Kinds
<1>5. QED
  BY <1>3, <1>4

(* The end of the process keeps Inv: it has a client to cut off only after *)
(* a permanent error.                                                      *)
LEMMA ExitStep == Inv /\ Exit => Inv'
<1>. SUFFICES ASSUME Inv, Exit PROVE Inv'
  OBVIOUS
<1>1. /\ proc = "returned" /\ proc' = "exited" /\ UNCHANGED <<role, tempDelay, reqNum, errors>>
      /\ \A c \in Clients : client'[c] =
           IF client[c] \in {"handler", "dialled"} THEN "cut" ELSE client[c]
  BY DEF Exit
<1>2. States' /\ Numbers'
  BY DEF Inv, States, Numbers, ErrorCount, Exit
<1>3. Permanent \/ \A c \in Clients : client[c] = "away"
  BY <1>1 DEF Inv, Ending
<1>4. Ending' /\ Uncut'
  BY <1>1, <1>3 DEF Ending, Uncut, Permanent
<1>5. QED
  BY <1>2, <1>4 DEF Inv

(* A client, the loop that accepts it and its handler keep Inv.            *)
LEMMA ClientStep ==
  ASSUME Inv, NEW c \in Clients, ClientConnects(c) \/ Accept(c) \/ HandlerDial(c) \/ HandlerEnd(c)
  PROVE  Inv'
<1>1. /\ UNCHANGED <<role, proc, tempDelay, errors>>
      /\ \A d \in Clients \ {c} : client'[d] = client[d]
      /\ client'[c] \in {"queued", "handler", "dialled", "served", "refused"}
      /\ client[c] # "away" \/ proc \in {"accept", "sleep"}
  BY DEF Inv, States, ClientConnects, Accept, HandlerDial, HandlerEnd
<1>2. Numbers' /\ States'
  BY <1>1 DEF Inv, States, Numbers, ErrorCount, ClientConnects, Accept, HandlerDial, HandlerEnd
<1>3. Ending' /\ Uncut'
  BY <1>1 DEF Inv, Ending, Uncut, Permanent
<1>4. QED
  BY <1>2, <1>3 DEF Inv

-----------------------------------------------------------------------------
(* The inductive invariant holds in every reachable state.                 *)
THEOREM Invariance == Spec => []Inv
<1>1. Init => Inv
  BY AcceptAssumption DEF Init, Inv, States, Numbers, Ending, Uncut, ErrorCount, Kinds
<1>2. Inv /\ [Next]_vars => Inv'
  <2>. SUFFICES ASSUME Inv, [Next]_vars PROVE Inv'
    OBVIOUS
  <2>1. CASE Main \/ LocalError \/ ServerError
    BY <2>1, MainStep, ErrorStep, ExitStep DEF Main
  <2>2. CASE \E c \in Clients : ClientConnects(c) \/ Accept(c) \/ HandlerDial(c) \/ HandlerEnd(c)
    BY <2>2, ClientStep
  <2>3. CASE UNCHANGED vars
    BY <2>3 DEF vars, Inv, States, Numbers, Ending, Uncut, Permanent, ErrorCount
  <2>4. QED
    BY <2>1, <2>2, <2>3 DEF Next
<1>3. QED
  BY <1>1, <1>2, PTL DEF Spec

(* The accept loops keep their types, and the delays of ServeLocal stay    *)
(* within the maximum of delayCalc.                                        *)
THEOREM TypeCorrect == Spec => []TypeOK
<1>1. Inv => TypeOK
  <2>. SUFFICES ASSUME Inv PROVE TypeOK
    OBVIOUS
  <2>1. errors \in [Kinds -> 0 .. MaxErrors]
    BY AcceptAssumption DEF Inv, Numbers, Kinds, ErrorCount
  <2>2. QED
    BY <2>1 DEF Inv, States, Numbers, TypeOK
<1>2. QED
  BY <1>1, Invariance, PTL

(* No process ends with a client in its hands, or in its backlog, but a    *)
(* local proxy after a permanent error of Accept.                          *)
THEOREM NothingCut == Spec => []CutHasCause
<1>1. Inv => CutHasCause
  BY DEF Inv, Ending, Uncut, Permanent, CutHasCause
<1>2. QED
  BY <1>1, Invariance, PTL

-----------------------------------------------------------------------------
(* The stand-alone handler.                                                *)

Str == Seq(Byte)
Cat(s, t) == s \o t

(* Concatenation of byte strings: closure, empty strings, cancellation.    *)
LEMMA CatLaws ==
  /\ << >> \in Str /\ \A s \in Str : Cat(s, << >>) = s /\ Cat(<< >>, s) = s
  /\ \A s, t \in Str : Cat(s, t) \in Str
  /\ \A s, t, u \in Str : Cat(s, t) = Cat(s, u) => t = u
<1>1. << >> \in Str /\ \A s \in Str : Cat(s, << >>) = s /\ Cat(<< >>, s) = s
  BY EmptySeq, ConcatEmptySeq DEF Str, Cat
<1>2. \A s, t \in Str : Cat(s, t) \in Str
  BY ConcatProperties DEF Str, Cat
<1>3. \A s, t, u \in Str : Cat(s, t) = Cat(s, u) => t = u
  BY ConcatSimplifications DEF Str, Cat
<1>4. QED
  BY <1>1, <1>2, <1>3

(* Concatenation is associative.                                           *)
LEMMA CatAssoc ==
  ASSUME NEW s \in Str, NEW t \in Str, NEW u \in Str
  PROVE  Cat(Cat(s, t), u) = Cat(s, Cat(t, u))
BY ConcatAssociative DEF Str, Cat

(* A cut of a byte string: both parts are byte strings, and together they  *)
(* are the string.                                                         *)
LEMMA Cut ==
  ASSUME NEW s \in Str, NEW n \in Nat, n <= Len(s)
  PROVE  /\ Take(s, n) \in Str /\ Drop(s, n) \in Str
         /\ Cat(Take(s, n), Drop(s, n)) = s
         /\ Len(Take(s, n)) = n /\ Len(Drop(s, n)) = Len(s) - n
<1>1. Len(s) \in Nat /\ \A i \in 1 .. Len(s) : s[i] \in Byte
  BY LenProperties, ElementOfSeq DEF Str
<1>2. Take(s, n) \in Str /\ Len(Take(s, n)) = n
  BY <1>1, SubSeqProperties DEF Str, Take
<1>3. Drop(s, n) \in Str /\ Len(Drop(s, n)) = Len(s) - n
  BY <1>1, SubSeqProperties DEF Str, Drop
<1>4. SubSeq(s, 1, n) \o SubSeq(s, n + 1, Len(s)) = SubSeq(s, 1, Len(s))
  <2>1. 1 \in 1 .. Len(s) + 1 /\ n \in 1 - 1 .. Len(s) /\ Len(s) \in n .. Len(s)
    BY <1>1
  <2>2. QED
    BY <2>1, ConcatAdjacentSubSeq DEF Str
<1>5. SubSeq(s, 1, Len(s)) = s
  BY SubSeqFull DEF Str
<1>6. QED
  BY <1>2, <1>3, <1>4, <1>5 DEF Cat, Take, Drop

(* What a Read of up to max bytes gets and what it leaves.                 *)
LEMMA Reading ==
  ASSUME NEW p, in[p] \in Str, NEW max \in Nat
  PROVE  /\ Got(p, max) \in Str /\ Drop(in[p], max) \in Str
         /\ Cat(Got(p, max), Drop(in[p], max)) = in[p]
         /\ Len(Got(p, max)) <= max
<1>. DEFINE s == in[p]
<1>1. Len(s) \in Nat
  BY LenProperties DEF Str
<1>2. CASE max <= Len(s)
  <2>1. Min({max, Len(s)}) = max
    BY <1>1, <1>2 DEF Min
  <2>2. /\ Take(s, max) \in Str /\ Drop(s, max) \in Str
        /\ Cat(Take(s, max), Drop(s, max)) = s /\ Len(Take(s, max)) = max
    BY <1>2, Cut
  <2>3. QED
    BY <2>1, <2>2 DEF Got
<1>3. CASE ~(max <= Len(s))
  <2>1. Min({max, Len(s)}) = Len(s)
    BY <1>1, <1>3 DEF Min
  <2>2. Drop(s, max) = << >> /\ Drop(s, Len(s)) = << >>
    BY <1>1, <1>3, SubSeqEmpty DEF Drop
  <2>3. Take(s, Len(s)) \in Str /\ Drop(s, Len(s)) \in Str
        /\ Cat(Take(s, Len(s)), Drop(s, Len(s))) = s /\ Len(Take(s, Len(s))) = Len(s)
    BY <1>1, Cut
  <2>4. QED
    BY <1>1, <1>3, <2>1, <2>2, <2>3 DEF Got
<1>4. QED
  BY <1>2, <1>3
(***************************************************************************)
(* The inductive invariant of the handler.  ServedAsAsked speaks of what   *)
(* has been dialled and of the relay; that nothing of the handshake gets   *)
(* into the relay, and nothing of the data into the handshake, follows     *)
(* from what is left of the client's bytes at each stage (Handshake), and  *)
(* that the relay starts with nothing passed on from BeforeRelay.          *)
(***************************************************************************)
Message(p) == IF p = "client" THEN req.payload ELSE reply

Types ==
  /\ req \in Requests /\ reply \in Replies /\ whole \in BOOLEAN
  /\ in \in [Peers -> Str] /\ script \in [Peers -> Str]
  /\ held \in [Peers -> Str] /\ out \in [Peers -> Str]
  /\ HandlerTypeOK

Handshake ==
  /\ pc = "verify" => whole /\ Cat(in["client"], script["client"])
                                = Cat(req.greeting, Cat(RequestBytes(req), req.payload))
  /\ pc = "request" /\ whole =>
       Cat(in["client"], script["client"]) = Cat(RequestBytes(req), req.payload)
  /\ pc = "connect" /\ whole => Cat(in["client"], script["client"]) = req.payload
  /\ pc \in {"verify", "request"} => dialled = None

BeforeRelay ==
  pc \in {"verify", "request", "connect"} =>
    /\ in["target"] = << >> /\ script["target"] = reply
    /\ \A p \in Peers : copier[p] = "none" /\ held[p] = << >> /\ out[p] = << >>

InRelay ==
  /\ \A p \in Peers : copier[p] \in {"read", "write"} => pc = "relay"
  /\ \A p \in Peers : copier[p] # "write" => held[p] = << >>

PassedOn(p) ==
  Cat(out[Other(p)], Cat(held[p], Cat(in[p], script[p]))) = Message(p)

InOrder ==
  pc = "relay" => \A p \in Peers : copier[p] # "done" /\ (p = "client" => whole) => PassedOn(p)

Dialled == whole /\ Proper(req.addr) /\ dialled # None => dialled = Asked

HInv == Types /\ Handshake /\ BeforeRelay /\ InRelay /\ InOrder /\ Dialled

(* The messages of a request are byte strings.                             *)
LEMMA RequestTypes ==
  ASSUME NEW r \in Requests
  PROVE  /\ r.greeting \in Str /\ r.addr \in Str /\ r.payload \in Str
         /\ RequestBytes(r) \in Str
<1>1. r.greeting \in Str /\ r.addr \in Str /\ r.payload \in Str
  BY HandlerAssumption DEF Str
<1>2. <<5, 1, 0>> \in Str
  <2>1. 5 \in Byte /\ 1 \in Byte /\ 0 \in Byte
    BY DEF Byte
  <2>2. QED
    BY <2>1 DEF Str
<1>3. QED
  BY <1>1, <1>2, CatLaws DEF RequestBytes, Cat

(* Cuts of two byte strings, one of which has d more bytes in front.       *)
LEMMA ShiftedCut ==
  ASSUME NEW n \in Nat, NEW a \in [1 .. n -> Byte], NEW d \in Nat,
         NEW m \in [1 .. n + d -> Byte], \A x \in 1 .. n : m[d + x] = a[x],
         NEW i \in Nat \ {0}, NEW j \in Nat, j <= n
  PROVE  SubSeq(m, d + i, d + j) = SubSeq(a, i, j)
<1>. DEFINE u == SubSeq(m, d + i, d + j)
            v == SubSeq(a, i, j)
            l == IF i <= j THEN j - i + 1 ELSE 0
<1>1. u \in Seq(Byte) /\ Len(u) = l /\ \A x \in 1 .. l : u[x] = m[d + i + x - 1]
  <2>1. /\ u \in Seq(Byte) /\ Len(u) = IF d + i <= d + j THEN (d + j) - (d + i) + 1 ELSE 0
        /\ \A x \in 1 .. (d + j) - (d + i) + 1 : u[x] = m[(d + i) + x - 1]
    <3>1. d + i \in Int /\ d + j \in Int /\ \A x \in d + i .. d + j : m[x] \in Byte
      OBVIOUS
    <3>2. PICK p \in Int, q \in Int : p = d + i /\ q = d + j
      BY ONLY <3>1
    <3>3. \A x \in p .. q : m[x] \in Byte
      BY ONLY <3>1, <3>2
    <3>4. /\ SubSeq(m, p, q) \in Seq(Byte)
          /\ Len(SubSeq(m, p, q)) = IF p <= q THEN q - p + 1 ELSE 0
          /\ \A x \in 1 .. q - p + 1 : SubSeq(m, p, q)[x] = m[p + x - 1]
      BY ONLY <3>3, SubSeqProperties
    <3>5. QED
      BY ONLY <3>2, <3>4
  <2>2. /\ (d + j) - (d + i) + 1 = j - i + 1 /\ (d + i <= d + j <=> i <= j)
        /\ (i <= j => l = j - i + 1) /\ (~(i <= j) => l = 0)
    OBVIOUS
  <2>3. Len(u) = l
    BY ONLY <2>1, <2>2
  <2>4. \A x \in 1 .. l : u[x] = m[d + i + x - 1]
    <3>1. CASE i <= j
      BY ONLY <2>1, <2>2, <3>1
    <3>2. CASE ~(i <= j)
      BY ONLY <2>2, <3>2
    <3>3. QED
      BY <3>1, <3>2
  <2>5. QED
    BY ONLY <2>1, <2>3, <2>4
<1>2. v \in Seq(Byte) /\ Len(v) = l /\ \A x \in 1 .. l : v[x] = a[i + x - 1]
  <2>1. /\ v \in Seq(Byte) /\ Len(v) = IF i <= j THEN j - i + 1 ELSE 0
        /\ \A x \in 1 .. j - i + 1 : v[x] = a[i + x - 1]
    <3>1. i \in Int /\ j \in Int /\ \A x \in i .. j : a[x] \in Byte
      OBVIOUS
    <3>2. QED
      BY ONLY <3>1, SubSeqProperties, SMTT(30)
  <2>2. QED
    BY <2>1
<1>3. \A x \in 1 .. l : m[d + i + x - 1] = a[i + x - 1]
  <2>1. SUFFICES ASSUME NEW x \in 1 .. l PROVE m[d + i + x - 1] = a[i + x - 1]
    OBVIOUS
  <2>2. i + x - 1 \in 1 .. n /\ d + i + x - 1 = d + (i + x - 1)
    BY <2>1
  <2>3. QED
    BY <2>2
<1>. HIDE DEF u, v
<1>4. u = v
  BY ONLY <1>1, <1>2, <1>3, SeqEqual
<1>5. QED
  BY <1>4 DEF u, v

(* The message m is three bytes and then the address a of length n and of  *)
(* type t, which has the form of its type.                                 *)
Shifted(a, m, n, t) ==
  /\ n \in Nat /\ a \in [1 .. n -> Byte] /\ Len(a) = n /\ IPv6len \in Nat
  /\ m \in [1 .. n + 3 -> Byte] /\ Len(m) = n + 3 /\ \A x \in 1 .. n : m[3 + x] = a[x]
  /\ t = a[1]
  /\ \/ t = 1 /\ n = 7
     \/ t = 3 /\ n >= 4
     \/ t = 4 /\ n = IPv6len + 3

(* Host and the last two bytes of a request with address a, by its type t. *)
LEMMA AddressTaken ==
  ASSUME NEW a, NEW m, NEW n, NEW t, Shifted(a, m, n, t)
  PROVE  /\ Host(m) = SubSeq(a, IF t = 3 THEN 3 ELSE 2, n - 2)
         /\ Drop(m, Len(m) - 2) = Drop(a, Len(a) - 2)
         /\ ~(At(m, 3) = 3 /\ Len(m) - 2 < 5)
<1>. USE DEF Shifted
<1>1. n >= 3 /\ n - 1 \in Nat \ {0} /\ n - 2 \in Nat
  OBVIOUS
<1>2. At(m, 3) = t /\ ~(t = 3 /\ Len(m) - 2 < 5)
  BY <1>1 DEF At
<1>3. Drop(m, Len(m) - 2) = Drop(a, Len(a) - 2)
  <2>1. SubSeq(m, 3 + (n - 1), 3 + n) = SubSeq(a, n - 1, n)
    BY <1>1, ShiftedCut
  <2>2. /\ (Len(m) - 2) + 1 = 3 + (n - 1) /\ Len(m) = 3 + n
        /\ (Len(a) - 2) + 1 = n - 1
    BY <1>1
  <2>3. QED
    BY <2>1, <2>2 DEF Drop
<1>4. CASE t = 3
  <2>1. SubSeq(m, 3 + 3, 3 + (n - 2)) = SubSeq(a, 3, n - 2)
    BY <1>1, ShiftedCut
  <2>2. Host(m) = SubSeq(m, 6, Len(m) - 2)
    BY <1>2, <1>4 DEF Host, NameStart
  <2>3. Len(m) - 2 = 3 + (n - 2)
    BY <1>1
  <2>4. QED
    BY <1>2, <1>3, <1>4, <2>1, <2>2, <2>3
<1>5. CASE t # 3
  <2>1. Host(m) = [x \in 1 .. n - 3 |-> At(m, 3 + x)]
    <3>1. CASE t = 1
      <4>1. n - 3 = 4
        BY <3>1
      <4>2. QED
        BY ONLY <1>2, <3>1, <4>1 DEF Host
    <3>2. CASE t = 4
      <4>1. n - 3 = IPv6len
        BY <3>2
      <4>2. QED
        BY ONLY <1>2, <3>2, <4>1 DEF Host
    <3>3. QED
      BY <1>5, <3>1, <3>2
  <2>. DEFINE u == [x \in 1 .. n - 3 |-> At(m, 3 + x)]
              v == SubSeq(a, 2, n - 2)
  <2>2. \A x \in 1 .. n - 3 : u[x] = a[1 + x] /\ u[x] \in Byte
    BY <1>1 DEF At
  <2>3. u \in Seq(Byte) /\ Len(u) = n - 3
    BY <1>1, <2>2, IsASeq
  <2>4. v \in Seq(Byte) /\ Len(v) = n - 3 /\ \A x \in 1 .. n - 3 : v[x] = a[1 + x]
    <3>1. 2 \in Int /\ n - 2 \in Int /\ \A x \in 2 .. n - 2 : a[x] \in Byte
      BY <1>1
    <3>2. /\ v \in Seq(Byte) /\ Len(v) = IF 2 <= n - 2 THEN n - 2 - 2 + 1 ELSE 0
          /\ \A x \in 1 .. n - 2 - 2 + 1 : v[x] = a[2 + x - 1]
      BY ONLY <3>1, SubSeqProperties, SMTT(30)
    <3>3. QED
      BY <1>1, <3>2
  <2>. HIDE DEF u, v
  <2>5. u = v
    BY ONLY <2>2, <2>3, <2>4, SeqEqual
  <2>6. QED
    BY <1>2, <1>3, <1>5, <2>1, <2>5 DEF u, v
<1>6. QED
  BY <1>4, <1>5

(* Of a proper request that is read whole, Resolve takes the address that  *)
(* is asked for, and does not panic.                                       *)
LEMMA AskedFor ==
  ASSUME req \in Requests, Proper(req.addr),
         NEW m, m = RequestBytes(req)
  PROVE  /\ [host |-> Host(m), port |-> Drop(m, Len(m) - 2)] = Asked
         /\ ~(At(m, 3) = 3 /\ Len(m) - 2 < 5)
<1>1. PICK a : a = req.addr
  OBVIOUS
<1>2. a \in Str /\ Len(a) \in Nat /\ IPv6len \in Nat /\ a \in [1 .. Len(a) -> Byte]
  BY <1>1, RequestTypes, LenProperties, HandlerAssumption DEF Str
<1>3. /\ m \in [1 .. Len(a) + 3 -> Byte] /\ Len(m) = Len(a) + 3
      /\ \A x \in 1 .. Len(a) : m[3 + x] = a[x]
  <2>1. <<5, 1, 0>> \in Str
    BY DEF Byte, Str
  <2>2. m = <<5, 1, 0>> \o a
    BY <1>1 DEF RequestBytes
  <2>3. m \in Seq(Byte) /\ Len(m) = 3 + Len(a)
        /\ \A x \in 1 .. 3 + Len(a) : m[x] = IF x <= 3 THEN <<5, 1, 0>>[x] ELSE a[x - 3]
    BY ONLY <1>2, <2>1, <2>2, ConcatProperties, SMTT(30) DEF Str
  <2>4. 3 + Len(a) = Len(a) + 3 /\ m \in [1 .. 3 + Len(a) -> Byte]
    BY ONLY <1>2, <2>3, LenProperties, SMTT(20)
  <2>5. ASSUME NEW x \in 1 .. Len(a) PROVE m[3 + x] = a[x]
    <3>1. 3 + x \in 1 .. 3 + Len(a) /\ ~(3 + x <= 3) /\ (3 + x) - 3 = x
      BY ONLY <1>2
    <3>2. QED
      BY ONLY <2>3, <3>1
  <2>6. QED
    BY ONLY <2>3, <2>4, <2>5
<1>4. PICK t : t = a[1]
  OBVIOUS
<1>5. \/ t = 1 /\ Len(a) = 7
      \/ t = 3 /\ Len(a) >= 4
      \/ t = 4 /\ Len(a) = IPv6len + 3
  <2>1. Proper(a)
    BY <1>1
  <2>2. QED
    BY ONLY <1>4, <2>1 DEF Proper
<1>6. /\ Host(m) = SubSeq(a, IF t = 3 THEN 3 ELSE 2, Len(a) - 2)
      /\ Drop(m, Len(m) - 2) = Drop(a, Len(a) - 2)
      /\ ~(At(m, 3) = 3 /\ Len(m) - 2 < 5)
  <2>1. PICK n : n = Len(a)
    OBVIOUS
  <2>2. Shifted(a, m, n, t)
    BY ONLY <1>2, <1>3, <1>4, <1>5, <2>1, Zenon DEF Shifted
  <2>3. /\ Host(m) = SubSeq(a, IF t = 3 THEN 3 ELSE 2, n - 2)
        /\ Drop(m, Len(m) - 2) = Drop(a, Len(a) - 2)
        /\ ~(At(m, 3) = 3 /\ Len(m) - 2 < 5)
    BY ONLY <2>2, AddressTaken, Zenon
  <2>4. QED
    BY ONLY <2>1, <2>3, Zenon
<1>7. Asked = [host |-> SubSeq(a, IF t = 3 THEN 3 ELSE 2, Len(a) - 2),
                 port |-> Drop(a, Len(a) - 2)]
  BY <1>1, <1>4 DEF Asked
<1>8. QED
  BY ONLY <1>6, <1>7

(* The client and the target are each other's other.                       *)
LEMMA PeersTwo ==
  /\ "client" \in Peers /\ "target" \in Peers
  /\ \A p \in Peers : Other(p) \in Peers /\ Other(p) # p
                        /\ \A q \in Peers : q # p => Other(q) # Other(p)
  /\ Other("client") = "target" /\ Other("target") = "client"
BY DEF Peers, Other

(* The invariant holds when Serv starts.                                   *)
LEMMA HInitial == HandlerInit => HInv
<1>. SUFFICES ASSUME HandlerInit PROVE HInv
  OBVIOUS
<1>1. /\ req \in Requests /\ reply \in Replies /\ reply \in Str
      /\ req.greeting \in Str /\ req.payload \in Str /\ RequestBytes(req) \in Str
      /\ Chunk \in Nat
  BY RequestTypes, HandlerAssumption DEF HandlerInit, Str
<1>2. << >> \in Str /\ Len(<< >>) = 0
  BY CatLaws
<1>3. script = [p \in Peers |->
         IF p = "client" THEN Cat(req.greeting, Cat(RequestBytes(req), req.payload)) ELSE reply]
  <2>1. Cat(Cat(req.greeting, RequestBytes(req)), req.payload)
          = Cat(req.greeting, Cat(RequestBytes(req), req.payload))
    BY <1>1, CatAssoc
  <2>2. QED
    BY <2>1 DEF HandlerInit, Cat
<1>4. Cat(req.greeting, Cat(RequestBytes(req), req.payload)) \in Str
  BY <1>1, CatLaws
<1>5. Types
  <2>1. HandlerTypeOK
    BY <1>1, <1>2, PeersTwo DEF HandlerInit, HandlerTypeOK, None
  <2>2. script \in [Peers -> Str]
    BY <1>1, <1>3, <1>4
  <2>3. QED
    BY <1>1, <1>2, <2>1, <2>2 DEF Types, HandlerInit
<1>6. Handshake
  <2>1. /\ in["client"] = << >>
        /\ script["client"] = Cat(req.greeting, Cat(RequestBytes(req), req.payload))
    BY <1>3, PeersTwo DEF HandlerInit
  <2>2. Cat(<< >>, Cat(req.greeting, Cat(RequestBytes(req), req.payload)))
          = Cat(req.greeting, Cat(RequestBytes(req), req.payload))
    BY <1>4, CatLaws
  <2>3. QED
    BY <2>1, <2>2 DEF Handshake, HandlerInit
<1>7. BeforeRelay /\ InRelay /\ InOrder /\ Dialled
  BY <1>3, PeersTwo DEF BeforeRelay, InRelay, InOrder, Dialled, HandlerInit
<1>8. QED
  BY <1>5, <1>6, <1>7 DEF HInv

(* Bytes that arrive, and a peer that ends or resets its connection, keep  *)
(* HInv.                                                                   *)
LEMMA NetworkStep ==
  ASSUME HInv, NEW p \in Peers,
         \/ \E n \in Pieces : Arrives(p, n)
         \/ \E how \in {"eof", "reset"} : Ends(p, how)
  PROVE  HInv'
<1>1. CASE \E how \in {"eof", "reset"} : Ends(p, how)
  <2>1. UNCHANGED <<req, reply, script, in, pc, dialled, copier, held, out, whole>>
    BY <1>1 DEF Ends, peers, relay
  <2>2. end' \in [Peers -> {"open", "eof", "reset"}]
    BY <1>1 DEF Ends, HInv, Types, HandlerTypeOK
  <2>3. Types'
    BY <2>1, <2>2 DEF HInv, Types, HandlerTypeOK
  <2>4. Handshake' /\ BeforeRelay' /\ InRelay' /\ InOrder' /\ Dialled'
    BY <2>1 DEF HInv, Handshake, BeforeRelay, InRelay, InOrder, Dialled, PassedOn, Message, Asked
  <2>5. QED
    BY <2>3, <2>4 DEF HInv
<1>2. CASE \E n \in Pieces : Arrives(p, n)
  <2>1. PICK n \in Pieces : Arrives(p, n)
    BY <1>2
  <2>2. UNCHANGED <<req, reply, end, pc, dialled, copier, held, out, whole>>
    BY <2>1 DEF Arrives, relay
  <2>3. n \in Nat /\ n <= Len(script[p]) /\ in[p] \in Str /\ script[p] \in Str
    BY <2>1, HandlerAssumption DEF Arrives, HInv, Types
  <2>4. PICK t, d : t = Take(script[p], n) /\ d = Drop(script[p], n)
    OBVIOUS
  <2>5. t \in Str /\ d \in Str /\ Cat(t, d) = script[p]
    BY <2>3, <2>4, Cut
  <2>6. in' = [in EXCEPT ![p] = Cat(in[p], t)] /\ script' = [script EXCEPT ![p] = d]
    BY <2>1, <2>4 DEF Arrives, Cat
  <2>7. Cat(in[p], t) \in Str /\ Cat(Cat(in[p], t), d) = Cat(in[p], script[p])
    <3>1. Cat(in[p], t) \in Str
      BY <2>3, <2>5, CatLaws
    <3>2. Cat(Cat(in[p], t), d) = Cat(in[p], Cat(t, d))
      BY <2>3, <2>5, CatAssoc
    <3>3. QED
      BY <2>5, <3>1, <3>2
  <2>8. /\ in' \in [Peers -> Str] /\ script' \in [Peers -> Str]
        /\ \A q \in Peers : Cat(in'[q], script'[q]) = Cat(in[q], script[q])
        /\ \A q \in Peers : q # p => in'[q] = in[q] /\ script'[q] = script[q]
    BY <2>5, <2>6, <2>7 DEF HInv, Types
  <2>9. Types'
    BY <2>2, <2>8 DEF HInv, Types, HandlerTypeOK
  <2>10. Handshake'
    BY <2>2, <2>8, PeersTwo DEF HInv, Handshake
  <2>11. BeforeRelay'
    <3>1. pc # "relay" => p # "target"
      BY <2>1 DEF Arrives, Connected
    <3>2. QED
      BY <2>2, <2>8, <3>1, PeersTwo DEF HInv, BeforeRelay
  <2>12. InRelay' /\ Dialled'
    BY <2>2 DEF HInv, InRelay, Dialled, Asked
  <2>13. InOrder'
    BY <2>2, <2>8 DEF HInv, InOrder, PassedOn, Message
  <2>14. QED
    BY <2>9, <2>10, <2>11, <2>12, <2>13 DEF HInv
<1>3. QED
  BY <1>1, <1>2

(* What remains of the client's bytes when a Read got its message m and    *)
(* nothing else.                                                           *)
LEMMA Consumed ==
  ASSUME Types, NEW m \in Str, NEW rest \in Str, Received = m,
         Cat(in["client"], script["client"]) = Cat(m, rest)
  PROVE  Cat(Drop(in["client"], ReadMax), script["client"]) = rest
<1>1. PICK d, s : d = Drop(in["client"], ReadMax) /\ s = script["client"]
  OBVIOUS
<1>2. d \in Str /\ s \in Str /\ Cat(m, d) = in["client"]
  BY <1>1, Reading, PeersTwo, HandlerAssumption DEF Types, Received
<1>3. Cat(Cat(m, d), s) = Cat(m, Cat(d, s))
  BY <1>2, CatAssoc
<1>4. Cat(d, s) \in Str /\ Cat(m, Cat(d, s)) = Cat(m, rest)
  BY <1>1, <1>2, <1>3, CatLaws
<1>5. Cat(d, s) = rest
  BY <1>4, CatLaws
<1>6. QED
  BY <1>1, <1>5

(* What a Resolve leaves alone, and what it has done if Serv goes on.      *)
LEMMA ResolveEffect ==
  ASSUME HInv, NEW from \in {"verify", "request"}, NEW message, NEW next,
         NEW target, Resolve(from, message, next, target)
  PROVE  /\ pc = from /\ UNCHANGED <<req, reply, script, end, copier, held, out>>
         /\ in' \in [Peers -> Str] /\ in'["target"] = << >> /\ whole' \in BOOLEAN
         /\ Received \in Str
         /\ pc' = "closed" => dialled' = dialled
         /\ pc' # "closed" => /\ Len(Received) >= 3 /\ pc' = next /\ dialled' = target
                               /\ whole' = (whole /\ Received = message)
                               /\ in'["client"] = Drop(in["client"], ReadMax)
<1>1. pc = from /\ UNCHANGED <<req, reply, script, end, copier, held, out>>
  BY DEF Resolve, peers, relay
<1>2. /\ Received \in Str /\ Drop(in["client"], ReadMax) \in Str
      /\ Len(Received) \in Nat
  BY Reading, PeersTwo, LenProperties, HandlerAssumption DEF HInv, Types, Received, Str
<1>3. in' \in [Peers -> Str] /\ in'["target"] = << >> /\ whole' \in BOOLEAN
  BY <1>1, <1>2, PeersTwo DEF Resolve, HInv, Types, BeforeRelay
<1>4. /\ pc' = "closed" => dialled' = dialled
      /\ pc' # "closed" => /\ Len(Received) >= 3 /\ pc' = next /\ dialled' = target
                            /\ whole' = (whole /\ Received = message)
                            /\ in'["client"] = Drop(in["client"], ReadMax)
  BY <1>2, PeersTwo DEF Resolve, Closed, HInv, Types
<1>5. QED
  BY <1>1, <1>2, <1>3, <1>4

(* A Resolve that leads to a stage of the handshake, or to the end, keeps  *)
(* the parts of the invariant that are about the relay.                    *)
LEMMA ResolveKeeps ==
  ASSUME HInv, NEW from \in {"verify", "request"}, NEW message, NEW next,
         NEW target, Resolve(from, message, next, target),
         pc' \in {"closed", "request", "connect"}, Len(dialled'.port) \in {0, 2}
  PROVE  Types' /\ BeforeRelay' /\ InRelay' /\ InOrder'
<1>1. /\ pc = from /\ UNCHANGED <<req, reply, script, end, copier, held, out>>
      /\ in' \in [Peers -> Str] /\ in'["target"] = << >> /\ whole' \in BOOLEAN
  BY ResolveEffect
<1>2. Types'
  BY <1>1 DEF HInv, Types, HandlerTypeOK
<1>3. BeforeRelay' /\ InRelay' /\ InOrder'
  BY <1>1 DEF HInv, BeforeRelay, InRelay, InOrder
<1>4. QED
  BY <1>2, <1>3

(* Resolve of the greeting keeps HInv.                                     *)
LEMMA VerifyStep ==
  ASSUME HInv, Verify
  PROVE  HInv'
<1>1. PICK next : /\ next = IF At(Received, 0) = 5 THEN "request" ELSE "closed"
                  /\ Resolve("verify", req.greeting, next, dialled)
  BY DEF Verify, Closed
<1>2. /\ pc = "verify" /\ UNCHANGED <<req, reply, script, end, copier, held, out>>
      /\ pc' = "closed" => dialled' = dialled
      /\ pc' # "closed" => /\ pc' = next /\ dialled' = dialled
                            /\ whole' = (whole /\ Received = req.greeting)
                            /\ in'["client"] = Drop(in["client"], ReadMax)
  BY <1>1, ResolveEffect
<1>3. pc' \in {"closed", "request"} /\ dialled' = dialled /\ dialled = None
  BY <1>1, <1>2 DEF HInv, Handshake
<1>4. Types' /\ BeforeRelay' /\ InRelay' /\ InOrder'
  <2>1. Len(dialled'.port) \in {0, 2}
    BY <1>3 DEF HInv, Types, HandlerTypeOK
  <2>2. QED
    BY <1>1, <1>3, <2>1, ResolveKeeps
<1>5. Handshake'
  <2>1. ASSUME pc' = "request", whole'
        PROVE  Cat(in'["client"], script'["client"]) = Cat(RequestBytes(req'), req'.payload)
    <3>1. Received = req.greeting /\ in'["client"] = Drop(in["client"], ReadMax)
      BY <1>2, <2>1
    <3>2. Cat(in["client"], script["client"])
            = Cat(req.greeting, Cat(RequestBytes(req), req.payload))
      BY <1>2 DEF HInv, Handshake
    <3>3. req.greeting \in Str /\ Cat(RequestBytes(req), req.payload) \in Str
      BY RequestTypes, CatLaws DEF HInv, Types
    <3>4. Cat(Drop(in["client"], ReadMax), script["client"])
            = Cat(RequestBytes(req), req.payload)
      BY <3>1, <3>2, <3>3, Consumed DEF HInv
    <3>5. QED
      BY <1>2, <3>1, <3>4
  <2>2. QED
    BY <1>3, <2>1 DEF Handshake
<1>6. Dialled'
  BY <1>3 DEF Dialled
<1>7. QED
  BY <1>4, <1>5, <1>6 DEF HInv

(* Resolve of the request keeps HInv: here r.host and r.port are set.      *)
LEMMA RequestStep ==
  ASSUME HInv, Request
  PROVE  HInv'
<1>1. PICK b : b = Received
  OBVIOUS
<1>. DEFINE next == IF At(b, 3) = 3 /\ Len(b) - 2 < 5 THEN "closed" ELSE "connect"
            target == [host |-> Host(b), port |-> Drop(b, Len(b) - 2)]
<1>2. Resolve("request", RequestBytes(req), next, target)
  BY <1>1 DEF Request, Closed
<1>. HIDE DEF target
<1>3. /\ pc = "request" /\ UNCHANGED <<req, reply, script, end, copier, held, out>>
      /\ b \in Str
      /\ pc' = "closed" => dialled' = dialled
      /\ pc' # "closed" => /\ Len(b) >= 3 /\ pc' = next /\ dialled' = target
                            /\ whole' = (whole /\ b = RequestBytes(req))
                            /\ in'["client"] = Drop(in["client"], ReadMax)
  BY <1>1, <1>2, ResolveEffect
<1>4. pc' \in {"closed", "connect"} /\ dialled = None
  BY <1>3 DEF HInv, Handshake
<1>5. Types' /\ BeforeRelay' /\ InRelay' /\ InOrder'
  <2>1. CASE pc' = "closed"
    <3>1. Len(dialled'.port) \in {0, 2}
      BY <1>3, <2>1 DEF HInv, Types, HandlerTypeOK
    <3>2. QED
      BY <1>2, <2>1, <3>1, ResolveKeeps
  <2>2. CASE pc' = "connect"
    <3>1. Len(b) \in Nat /\ Len(b) >= 3
      BY <1>3, <2>2, LenProperties DEF Str
    <3>2. Len(Drop(b, Len(b) - 2)) = 2
      <4>1. Len(b) - 2 \in Nat /\ Len(b) - 2 <= Len(b)
        BY <3>1
      <4>2. Len(Drop(b, Len(b) - 2)) = Len(b) - (Len(b) - 2)
        BY <1>3, <4>1, Cut
      <4>3. QED
        BY <3>1, <4>2
    <3>3. Len(dialled'.port) \in {0, 2}
      BY <1>3, <2>2, <3>2 DEF target
    <3>4. QED
      BY <1>2, <2>2, <3>3, ResolveKeeps
  <2>3. QED
    BY <1>4, <2>1, <2>2
<1>6. Handshake'
  <2>1. ASSUME pc' = "connect", whole'
        PROVE  Cat(in'["client"], script'["client"]) = req'.payload
    <3>1. /\ whole /\ Received = RequestBytes(req)
          /\ in'["client"] = Drop(in["client"], ReadMax)
      BY <1>1, <1>3, <2>1 DEF HInv, Types
    <3>2. Cat(in["client"], script["client"]) = Cat(RequestBytes(req), req.payload)
      BY <1>3, <3>1 DEF HInv, Handshake
    <3>3. RequestBytes(req) \in Str /\ req.payload \in Str
      BY RequestTypes DEF HInv, Types
    <3>4. Cat(Drop(in["client"], ReadMax), script["client"]) = req.payload
      BY <3>1, <3>2, <3>3, Consumed DEF HInv
    <3>5. QED
      BY <1>3, <3>1, <3>4
  <2>2. QED
    BY <1>4, <2>1 DEF Handshake
<1>7. Dialled'
  <2>1. CASE pc' = "closed"
    BY <1>3, <1>4, <2>1 DEF Dialled
  <2>2. CASE pc' = "connect"
    <3>1. SUFFICES ASSUME whole', Proper(req'.addr) PROVE dialled' = Asked'
      BY DEF Dialled
    <3>2. b = RequestBytes(req) /\ req \in Requests /\ Proper(req.addr)
      BY <1>3, <2>2, <3>1 DEF HInv, Types, Proper
    <3>3. target = Asked
      BY <3>2, AskedFor DEF target
    <3>4. Asked' = Asked
      BY <1>3 DEF Asked
    <3>5. QED
      BY <1>3, <2>2, <3>3, <3>4
  <2>3. QED
    BY <1>4, <2>1, <2>2
<1>8. QED
  BY <1>5, <1>6, <1>7 DEF HInv

(* The dial keeps HInv: if it succeeds both goroutines start, with nothing *)
(* passed on yet.                                                          *)
LEMMA ConnectStep ==
  ASSUME HInv, Connect
  PROVE  HInv'
<1>1. pc = "connect" /\ UNCHANGED <<req, reply, script, in, end, dialled, held, out, whole>>
  BY DEF Connect, peers
<1>2. \/ pc' = "relay" /\ copier' = [p \in Peers |-> "read"]
      \/ pc' = "closed" /\ copier' = copier
  BY DEF Connect, Closed
<1>3. Types'
  BY <1>1, <1>2 DEF HInv, Types, HandlerTypeOK
<1>4. Handshake' /\ BeforeRelay' /\ Dialled'
  BY <1>1, <1>2 DEF HInv, Handshake, BeforeRelay, Dialled, Asked
<1>5. InRelay'
  BY <1>1, <1>2 DEF HInv, InRelay, BeforeRelay
<1>6. InOrder'
  <2>1. SUFFICES ASSUME NEW p \in Peers, p = "client" => whole
                 PROVE  PassedOn(p)'
    BY <1>1 DEF InOrder
  <2>2. Cat(in[p], script[p]) = Message(p)
    <3>1. CASE p = "client"
      BY <1>1, <2>1, <3>1 DEF HInv, Handshake, Message
    <3>2. CASE p = "target"
      <4>1. in[p] = << >> /\ script[p] = reply /\ script[p] \in Str
        BY <1>1, <3>2, PeersTwo DEF HInv, BeforeRelay, Types
      <4>2. QED
        BY <3>2, <4>1, CatLaws DEF Message
    <3>3. QED
      BY <3>1, <3>2 DEF Peers
  <2>3. out[Other(p)] = << >> /\ held[p] = << >>
    BY <1>1, PeersTwo DEF HInv, BeforeRelay
  <2>4. Cat(in[p], script[p]) \in Str
    BY CatLaws DEF HInv, Types
  <2>5. Cat(<< >>, Cat(<< >>, Cat(in[p], script[p]))) = Cat(in[p], script[p])
    BY <2>4, CatLaws
  <2>6. QED
    BY <1>1, <2>2, <2>3, <2>5 DEF PassedOn, Message
<1>7. QED
  BY <1>3, <1>4, <1>5, <1>6 DEF HInv

(* A goroutine that reads from its peer keeps HInv.                        *)
LEMMA CopyReadStep ==
  ASSUME HInv, NEW p \in Peers, CopyRead(p)
  PROVE  HInv'
<1>1. /\ copier[p] = "read" /\ pc = "relay"
      /\ UNCHANGED <<req, reply, script, end, pc, dialled, out, whole>>
  BY DEF CopyRead, peers, HInv, InRelay
<1>2. Handshake' /\ BeforeRelay' /\ Dialled'
  BY <1>1 DEF HInv, Handshake, BeforeRelay, Dialled, Asked
<1>3. CASE /\ copier' = [copier EXCEPT ![p] = "done"] /\ UNCHANGED <<held, in>>
  <2>1. Types'
    BY <1>1, <1>3 DEF HInv, Types, HandlerTypeOK
  <2>2. InRelay' /\ InOrder'
    BY <1>1, <1>3 DEF HInv, Types, HandlerTypeOK, InRelay, InOrder, PassedOn, Message
  <2>3. QED
    BY <1>2, <2>1, <2>2 DEF HInv
<1>4. CASE /\ held' = [held EXCEPT ![p] = Got(p, Chunk)]
           /\ in' = [in EXCEPT ![p] = Drop(@, Chunk)]
           /\ copier' = [copier EXCEPT ![p] = "write"]
  <2>1. PICK g, d : g = Got(p, Chunk) /\ d = Drop(in[p], Chunk)
    OBVIOUS
  <2>2. in[p] \in Str /\ script[p] \in Str /\ Chunk \in Nat
    BY HandlerAssumption DEF HInv, Types
  <2>3. g \in Str /\ d \in Str /\ Cat(g, d) = in[p] /\ Len(g) <= Chunk
    BY <2>1, <2>2, Reading
  <2>4. /\ held' = [held EXCEPT ![p] = g] /\ in' = [in EXCEPT ![p] = d]
        /\ held'[p] = g /\ in'[p] = d
    BY <1>4, <2>1 DEF HInv, Types
  <2>5. held[p] = << >>
    BY <1>1 DEF HInv, InRelay
  <2>6. Cat(held'[p], Cat(in'[p], script[p])) = Cat(held[p], Cat(in[p], script[p]))
    <3>1. Cat(Cat(g, d), script[p]) = Cat(g, Cat(d, script[p]))
      BY <2>2, <2>3, CatAssoc
    <3>2. Cat(in[p], script[p]) \in Str
      BY <2>2, CatLaws
    <3>3. Cat(<< >>, Cat(in[p], script[p])) = Cat(in[p], script[p])
      BY <3>2, CatLaws
    <3>4. QED
      BY <2>3, <2>4, <2>5, <3>1, <3>3
  <2>7. \A q \in Peers : q # p => /\ held'[q] = held[q] /\ in'[q] = in[q]
                                     /\ copier'[q] = copier[q]
    BY <1>4 DEF HInv, Types, HandlerTypeOK
  <2>8. Types'
    <3>1. in' \in [Peers -> Str] /\ held' \in [Peers -> Str]
      BY <2>3, <2>4 DEF HInv, Types
    <3>2. \A q \in Peers : Len(held'[q]) <= Chunk
      BY <2>3, <2>4, <2>7 DEF HInv, Types, HandlerTypeOK
    <3>3. copier' \in [Peers -> {"none", "read", "write", "done"}]
      BY <1>4 DEF HInv, Types, HandlerTypeOK
    <3>4. QED
      BY <1>1, <3>1, <3>2, <3>3 DEF HInv, Types, HandlerTypeOK
  <2>9. InRelay'
    BY <1>1, <1>4, <2>7 DEF HInv, Types, HandlerTypeOK, InRelay
  <2>10. InOrder'
    <3>1. SUFFICES ASSUME NEW q \in Peers, copier'[q] # "done", q = "client" => whole
                   PROVE  PassedOn(q)'
      BY <1>1 DEF InOrder
    <3>2. PassedOn(q)
      BY <1>1, <2>7, <3>1 DEF HInv, InOrder
    <3>3. QED
      BY <1>1, <2>6, <2>7, <3>2 DEF PassedOn, Message
  <2>11. QED
    BY <1>2, <2>8, <2>9, <2>10 DEF HInv
<1>5. QED
  BY <1>3, <1>4 DEF CopyRead, Step, Piece

(* A goroutine that writes what it has read to the other peer keeps HInv.  *)
LEMMA CopyWriteStep ==
  ASSUME HInv, NEW p \in Peers, CopyWrite(p)
  PROVE  HInv'
<1>1. /\ copier[p] = "write" /\ pc = "relay"
      /\ UNCHANGED <<req, reply, script, in, end, pc, dialled, whole>>
      /\ held' = [held EXCEPT ![p] = << >>]
  BY DEF CopyWrite, peers, HInv, InRelay
<1>2. Handshake' /\ BeforeRelay' /\ Dialled'
  BY <1>1 DEF HInv, Handshake, BeforeRelay, Dialled, Asked
<1>3. << >> \in Str /\ Len(<< >>) = 0 /\ Chunk \in Nat
  BY CatLaws, HandlerAssumption
<1>4. held' \in [Peers -> Str] /\ \A q \in Peers : Len(held'[q]) <= Chunk
  BY <1>1, <1>3 DEF HInv, Types, HandlerTypeOK
<1>5. \A q \in Peers : q # p => held'[q] = held[q]
  BY <1>1 DEF HInv, Types
<1>6. CASE copier' = [copier EXCEPT ![p] = "done"] /\ out' = out
  <2>1. Types'
    BY <1>1, <1>4, <1>6 DEF HInv, Types, HandlerTypeOK
  <2>2. InRelay'
    BY <1>1, <1>6 DEF HInv, Types, HandlerTypeOK, InRelay
  <2>3. InOrder'
    BY <1>1, <1>5, <1>6 DEF HInv, Types, HandlerTypeOK, InOrder, PassedOn, Message
  <2>4. QED
    BY <1>2, <2>1, <2>2, <2>3 DEF HInv
<1>7. CASE /\ copier' = [copier EXCEPT ![p] = "read"]
           /\ out' = [out EXCEPT ![Other(p)] = @ \o held[p]]
  <2>1. PICK o, h, r : o = out[Other(p)] /\ h = held[p] /\ r = Cat(in[p], script[p])
    OBVIOUS
  <2>2. o \in Str /\ h \in Str /\ r \in Str /\ Cat(o, h) \in Str
    BY <2>1, PeersTwo, CatLaws DEF HInv, Types
  <2>3. out' = [out EXCEPT ![Other(p)] = Cat(o, h)]
    BY <1>7, <2>1 DEF Cat
  <2>4. /\ out' \in [Peers -> Str] /\ out'[Other(p)] = Cat(o, h)
        /\ \A q \in Peers : q # p => out'[Other(q)] = out[Other(q)]
    BY <2>2, <2>3, PeersTwo DEF HInv, Types
  <2>5. Cat(Cat(o, h), Cat(<< >>, r)) = Cat(o, Cat(h, r))
    <3>1. Cat(<< >>, r) = r
      BY <2>2, CatLaws
    <3>2. QED
      BY <2>2, <3>1, CatAssoc
  <2>6. Types'
    BY <1>1, <1>4, <1>7, <2>4 DEF HInv, Types, HandlerTypeOK
  <2>7. InRelay'
    BY <1>1, <1>7 DEF HInv, Types, HandlerTypeOK, InRelay
  <2>8. InOrder'
    <3>1. SUFFICES ASSUME NEW q \in Peers, copier'[q] # "done", q = "client" => whole
                   PROVE  PassedOn(q)'
      BY <1>1 DEF InOrder
    <3>2. PassedOn(q)
      BY <1>1, <1>7, <3>1 DEF HInv, InOrder, Types, HandlerTypeOK
    <3>3. CASE q = p
      <4>1. held'[p] = << >>
        BY <1>1 DEF HInv, Types
      <4>2. Cat(o, Cat(h, r)) = Message(p)
        BY <2>1, <3>2, <3>3 DEF PassedOn
      <4>3. QED
        BY <1>1, <2>1, <2>4, <2>5, <3>3, <4>1, <4>2 DEF PassedOn, Message
    <3>4. CASE q # p
      BY <1>1, <1>5, <2>4, <3>2, <3>4 DEF PassedOn, Message
    <3>5. QED
      BY <3>3, <3>4
  <2>9. QED
    BY <1>2, <2>6, <2>7, <2>8 DEF HInv
<1>8. QED
  BY <1>6, <1>7 DEF CopyWrite, Step, AfterFailure

(* Every step keeps HInv.                                                  *)
LEMMA HInductive == HInv /\ [HandlerNext]_handlerVars => HInv'
<1>. SUFFICES ASSUME HInv, [HandlerNext]_handlerVars PROVE HInv'
  OBVIOUS
<1>1. CASE UNCHANGED handlerVars
  BY <1>1 DEF handlerVars, HInv, Types, HandlerTypeOK, Handshake, BeforeRelay, InRelay, InOrder,
              Dialled, PassedOn, Message, Asked
<1>2. CASE RelayDone
  <2>1. /\ UNCHANGED <<req, reply, script, in, end, dialled, copier, held, out, whole>>
        /\ pc' = "closed" /\ \A p \in Peers : copier[p] = "done"
    BY <1>2 DEF RelayDone, peers, relay
  <2>2. Types'
    BY <2>1 DEF HInv, Types, HandlerTypeOK
  <2>3. QED
    BY <2>1, <2>2 DEF HInv, Handshake, BeforeRelay, InRelay, InOrder, Dialled, Asked
<1>3. CASE Verify \/ Request \/ Connect
  BY <1>3, VerifyStep, RequestStep, ConnectStep
<1>4. ASSUME NEW p \in Peers, Copy(p) PROVE HInv'
  BY <1>4, CopyReadStep, CopyWriteStep DEF Copy
<1>5. ASSUME NEW p \in Peers,
             \/ \E n \in Pieces : Arrives(p, n)
             \/ \E how \in {"eof", "reset"} : Ends(p, how)
      PROVE  HInv'
  BY <1>5, NetworkStep
<1>6. QED
  BY <1>1, <1>2, <1>3, <1>4, <1>5 DEF HandlerNext, Serv

(* HInv is stronger than the two properties.                               *)
LEMMA HMeaning == HInv => HandlerTypeOK /\ ServedAsAsked
<1>. SUFFICES ASSUME HInv PROVE HandlerTypeOK /\ ServedAsAsked
  OBVIOUS
<1>1. ASSUME NEW p \in Peers, PassedOn(p)
      PROVE  ((out[Other(p)] \o held[p]) \o in[p]) \o script[p]
               = (IF p = "client" THEN req.payload ELSE reply)
  <2>1. PICK o, h, i, s : o = out[Other(p)] /\ h = held[p] /\ i = in[p] /\ s = script[p]
    OBVIOUS
  <2>2. o \in Str /\ h \in Str /\ i \in Str /\ s \in Str
    BY <2>1, PeersTwo DEF HInv, Types
  <2>3. Cat(o, h) \in Str /\ Cat(i, s) \in Str
    BY <2>2, CatLaws
  <2>4. Cat(Cat(Cat(o, h), i), s) = Cat(Cat(o, h), Cat(i, s))
    BY <2>2, <2>3, CatAssoc
  <2>5. Cat(Cat(o, h), Cat(i, s)) = Cat(o, Cat(h, Cat(i, s)))
    BY <2>2, <2>3, CatAssoc
  <2>6. Cat(Cat(Cat(o, h), i), s) = Message(p)
    BY <1>1, <2>1, <2>4, <2>5 DEF PassedOn
  <2>7. QED
    BY <2>1, <2>6 DEF Cat, Message
<1>2. ServedAsAsked
  BY <1>1 DEF HInv, Dialled, InOrder, ServedAsAsked
<1>3. QED
  BY <1>2 DEF HInv, Types

(* The stand-alone handler's state stays well-formed: read never holds     *)
(* more than its buffer takes, and the port that connect() dials is the    *)
(* two bytes that Resolve took, or none has been taken yet.                *)
THEOREM HandlerTyped == HandlerSpec => []HandlerTypeOK
<1>1. HandlerInit => HInv
  BY HInitial
<1>2. HInv /\ [HandlerNext]_handlerVars => HInv'
  BY HInductive
<1>3. HInv => HandlerTypeOK
  BY HMeaning
<1>4. QED
  BY <1>1, <1>2, <1>3, PTL DEF HandlerSpec

(* A client whose greeting and request are each read whole and alone is    *)
(* connected to the address it asked for, if that is a proper one, and     *)
(* until a goroutine has ended, what it has written, holds and has not yet *)
(* read is all that its peer sends, in order.                              *)
THEOREM HandlerServes == HandlerSpec => []ServedAsAsked
<1>1. HandlerInit => HInv
  BY HInitial
<1>2. HInv /\ [HandlerNext]_handlerVars => HInv'
  BY HInductive
<1>3. HInv => ServedAsAsked
  BY HMeaning
<1>4. QED
  BY <1>1, <1>2, <1>3, PTL DEF HandlerSpec
=============================================================================
