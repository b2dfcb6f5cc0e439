-------------------------- MODULE PacketConnProofs --------------------------
(***************************************************************************)
(* Proofs about PacketConn for any number of ends and of writers at each   *)
(* of them, all ciphers, all lengths and any number of salts.              *)
(***************************************************************************)
EXTENDS PacketConn, TLAPS

Texts == [by : Writers \cup {NoWriter}, len : Nat]
Packets == [salt : Nat, key : Nat, text : Texts]

(***************************************************************************)
(* The inductive invariant.  OneTextPerKey needs that nobody draws a salt  *)
(* into a buffer in which another writer's packet is under way (Mutex),    *)
(* and that a salt is new until its writer has sealed (Fresh, UnderWay).   *)
(* OnlyFromPeer needs that a salt was added to the filter of its end       *)
(* before the packet with it could be on the network, so that it is there  *)
(* or old (Recorded).                                                      *)
(***************************************************************************)
Types ==
  /\ ciph \in [Nodes -> Ciphers] /\ ciph \in Configs
  /\ ring \in [Nodes -> {"unset", "on", "off"}] /\ known \in [Nodes -> SUBSET Nat]
  /\ age \in [Nodes -> [1 .. MaxSalts -> Nat]]
  /\ lock \in [Nodes -> Writers \cup {NoWriter}]
  /\ buf \in [Nodes -> Packets]
  /\ pc \in [Writers -> {"idle", "salt", "key", "seal", "send"}]
  /\ text \in [Writers -> Texts] /\ aead \in [Writers -> Nat]
  /\ drawn \in 0 .. MaxSalts
  /\ net \subseteq [from : Nodes, pkt : Packets]
  /\ sealed \subseteq Nat \X Texts
  /\ got \subseteq Nodes \X Nat \X Texts

Mutex ==
  \A w \in Writers : pc[w] # "idle" => lock[Home[w]] = w /\ text[w].by = w

(* salts do not exceed the number drawn, and no two ends hold the same *)
Fresh ==
  /\ \A n \in Nodes : buf[n].salt <= drawn /\ known[n] \subseteq 1 .. drawn
  /\ \A m, n \in Nodes : m # n /\ buf[m].salt = buf[n].salt => buf[m].salt = 0
  /\ \A x \in sealed : x[1] \in 1 .. drawn

(* the filter of n has the salt, unless it is disabled or the salt old *)
Remembers(n, salt) ==
  \/ ring[n] = "off"
  \/ ring[n] = "on" /\ (salt \in known[n] \/ age[n][salt] >= Window)

(* the packet of w between the drawing of its salt and its sending *)
InHand(w) ==
  LET b == buf[Home[w]]
  IN  /\ pc[w] \in {"key", "seal", "send"} => b.salt # 0
      /\ pc[w] \in {"key", "seal"} => \A x \in sealed : x[1] # b.salt
      /\ pc[w] \in {"seal", "send"} =>
           /\ aead[w] = b.salt /\ Fits(Home[w], text[w].len)
           /\ Remembers(Home[w], b.salt)
      /\ pc[w] = "send" =>
           b.key = b.salt /\ b.text = text[w] /\ <<b.key, b.text>> \in sealed

UnderWay == \A w \in Writers : InHand(w)

Recorded ==
  \A x \in sealed : x[2].by \in Writers /\ Remembers(Home[x[2].by], x[1])

OnNetwork ==
  \A p \in net :
    p.from = Home[p.pkt.text.by] /\ Length(p.from, p.pkt.text.len) <= maxPacketSize

Inv ==
  /\ Types /\ Mutex /\ Fresh /\ UnderWay /\ Recorded /\ OnNetwork
  /\ OneTextPerKey /\ OnlyFromPeer
-----------------------------------------------------------------------------
(* Facts about single steps.                                               *)

(* Adding a salt keeps what the filter of every end remembers.             *)
LEMMA AddStep ==
  ASSUME Types, NEW n \in Nodes, NEW salt \in 1 .. MaxSalts, AddSalt(n, salt)
  PROVE  /\ ring' \in [Nodes -> {"unset", "on", "off"}] /\ known' \in [Nodes -> SUBSET Nat]
         /\ age' \in [Nodes -> [1 .. MaxSalts -> Nat]]
         /\ \A m \in Nodes : known'[m] \subseteq known[m] \cup {salt}
         /\ \A m \in Nodes : ring[m] # "unset" => ring'[m] = ring[m]
         /\ \A m \in Nodes, x \in 1 .. MaxSalts : Remembers(m, x) => Remembers(m, x)'
         /\ Remembers(n, salt)'
         /\ \A m \in Nodes, x \in 1 .. MaxSalts : x # salt => age'[m][x] >= age[m][x]
<1>. USE PacketAssumption
<1>1. /\ ring' \in [Nodes -> {"unset", "on", "off"}] /\ ring'[n] \in {"on", "off"}
      /\ \A m \in Nodes : ring[m] # "unset" => ring'[m] = ring[m]
      /\ \A m \in Nodes : m # n => ring'[m] = ring[m]
  BY DEF AddSalt, Singleton, Types
<1>2. /\ age' \in [Nodes -> [1 .. MaxSalts -> Nat]]
      /\ \A m \in Nodes : m # n => age'[m] = age[m]
      /\ \A x \in 1 .. MaxSalts : age'[n][x] = IF x = salt THEN 0 ELSE age[n][x] + 1
  BY DEF AddSalt, Older, Types
<1>3. ASSUME NEW m \in Nodes, NEW x \in 1 .. MaxSalts, x # salt PROVE age'[m][x] >= age[m][x]
  <2>1. age[m][x] \in Nat
    BY DEF Types
  <2>2. age'[m][x] = age[m][x] \/ age'[m][x] = age[m][x] + 1
    BY <1>2, <1>3
  <2>3. QED
    BY <2>1, <2>2
<1>4. /\ known' \in [Nodes -> SUBSET Nat]
      /\ \A m \in Nodes : m # n => known'[m] = known[m]
      /\ known'[n] \subseteq known[n] \cup {salt}
      /\ ring'[n] = "on" =>
           salt \in known'[n] /\ \A x \in known[n] : x \in known'[n] \/ age'[n][x] >= Window
  <2>. DEFINE old == {x \in known[n] : age'[n][x] >= Window}
  <2>1. \/ ring'[n] = "off" /\ UNCHANGED known
        \/ \E lost \in SUBSET old : known' = [known EXCEPT ![n] = (known[n] \ lost) \cup {salt}]
    BY DEF AddSalt
  <2>2. CASE ring'[n] = "off" /\ UNCHANGED known
    BY <2>2 DEF Types
  <2>3. ASSUME NEW lost \in SUBSET old,
               known' = [known EXCEPT ![n] = (known[n] \ lost) \cup {salt}]
        PROVE  /\ known' \in [Nodes -> SUBSET Nat]
               /\ \A m \in Nodes : m # n => known'[m] = known[m]
               /\ known'[n] \subseteq known[n] \cup {salt}
               /\ ring'[n] = "on" =>
                    /\ salt \in known'[n]
                    /\ \A x \in known[n] : x \in known'[n] \/ age'[n][x] >= Window
    <3>1. known \in [Nodes -> SUBSET Nat] /\ salt \in Nat
      BY DEF Types
    <3>2. (known[n] \ lost) \cup {salt} \in SUBSET Nat
      BY <3>1
    <3>3. /\ known' \in [Nodes -> SUBSET Nat]
          /\ \A m \in Nodes : m # n => known'[m] = known[m]
          /\ known'[n] = (known[n] \ lost) \cup {salt}
      BY <2>3, <3>1, <3>2
    <3>4. \A x \in lost : age'[n][x] >= Window
      OBVIOUS
    <3>5. QED
      BY <3>3, <3>4
  <2>4. QED
    BY <2>1, <2>2, <2>3
<1>5. Remembers(n, salt)'
  BY <1>1, <1>4 DEF Remembers
<1>6. ASSUME NEW m \in Nodes, NEW x \in 1 .. MaxSalts, Remembers(m, x) PROVE Remembers(m, x)'
  <2>1. CASE m # n
    BY <1>1, <1>2, <1>4, <1>6, <2>1 DEF Remembers
  <2>2. CASE m = n /\ x = salt
    BY <1>5, <2>2
  <2>3. CASE m = n /\ x # salt
    <3>1. age[n][x] >= Window => age'[n][x] >= Window
      BY <1>2, <1>3, <2>3 DEF Types
    <3>2. QED
      BY <1>1, <1>4, <1>6, <2>3, <3>1 DEF Remembers
  <2>4. QED
    BY <2>1, <2>2, <2>3
<1>7. QED
  BY <1>1, <1>2, <1>3, <1>4, <1>5, <1>6

(* Testing one does so as well, and decides on the filter.                 *)
LEMMA CheckStep ==
  ASSUME Types, NEW n \in Nodes, CheckSalt(n)
  PROVE  /\ ring' \in [Nodes -> {"unset", "on", "off"}] /\ UNCHANGED <<known, age>>
         /\ \A m \in Nodes : ring[m] # "unset" => ring'[m] = ring[m]
         /\ \A m \in Nodes, x \in 1 .. MaxSalts : Remembers(m, x) => Remembers(m, x)'
BY DEF CheckSalt, Singleton, Types, Remembers

(* What has been read stays so: a salt that is added is not that of a      *)
(* packet that was sealed before.                                          *)
LEMMA ReadStays ==
  ASSUME Inv, NEW n \in Nodes, NEW salt \in 1 .. MaxSalts, AddSalt(n, salt),
         \A x \in sealed : x[1] # salt, UNCHANGED <<sealed, got>>
  PROVE  OnlyFromPeer'
<1>1. SUFFICES ASSUME NEW g \in got
               PROVE  /\ <<g[2], g[3]>> \in sealed
                      /\ Home[g[3].by] = g[1] => ring'[g[1]] = "off" \/ age'[g[1]][g[2]] >= Window
  BY DEF OnlyFromPeer
<1>2. /\ <<g[2], g[3]>> \in sealed
      /\ Home[g[3].by] = g[1] => ring[g[1]] = "off" \/ age[g[1]][g[2]] >= Window
  BY DEF Inv, OnlyFromPeer
<1>3. g[1] \in Nodes /\ g[2] \in Nat /\ g[2] # salt
  BY <1>2 DEF Inv, Types
<1>4. g[2] \in 1 .. MaxSalts
  <2>1. g[2] \in 1 .. drawn
    BY <1>2 DEF Inv, Fresh
  <2>2. QED
    BY <2>1, PacketAssumption DEF Inv, Types
<1>5. /\ age'[g[1]][g[2]] >= age[g[1]][g[2]]
      /\ ring[g[1]] = "off" => ring'[g[1]] = "off"
  BY <1>3, <1>4, AddStep DEF Inv
<1>6. age'[g[1]][g[2]] \in Nat /\ age[g[1]][g[2]] \in Nat
  <2>1. age \in [Nodes -> [1 .. MaxSalts -> Nat]] /\ age' \in [Nodes -> [1 .. MaxSalts -> Nat]]
    BY AddStep DEF Inv, Types
  <2>2. QED
    BY <1>3, <1>4, <2>1
<1>7. QED
  BY <1>2, <1>5, <1>6, PacketAssumption

(* A writer that is not idle is alone in the buffer of its end.            *)
LEMMA AloneInBuffer ==
  ASSUME Inv, NEW w \in Writers, pc[w] # "idle"
  PROVE  \A v \in Writers : Home[v] = Home[w] /\ pc[v] # "idle" => v = w
BY DEF Inv, Mutex

(* The salt of a packet under way is one that was drawn.                   *)
LEMMA SaltInHand ==
  ASSUME Inv, NEW w \in Writers, pc[w] \in {"key", "seal", "send"}
  PROVE  /\ buf[Home[w]].salt \in 1 .. MaxSalts /\ buf[Home[w]].salt <= drawn
         /\ pc[w] # "send" => \A x \in sealed : x[1] # buf[Home[w]].salt
<1>1. InHand(w)
  BY DEF Inv, UnderWay
<1>2. Home[w] \in Nodes /\ buf[Home[w]] \in Packets /\ drawn \in 0 .. MaxSalts
  BY PacketAssumption DEF Inv, Types
<1>3. buf[Home[w]].salt \in Nat /\ buf[Home[w]].salt <= drawn
  BY <1>2 DEF Packets, Inv, Fresh
<1>4. buf[Home[w]].salt # 0
  BY <1>1 DEF InHand
<1>5. pc[w] # "send" => \A x \in sealed : x[1] # buf[Home[w]].salt
  BY <1>1 DEF InHand
<1>6. QED
  BY <1>2, <1>3, <1>4, <1>5, PacketAssumption

(* A packet under way stays what it is if nobody touches it and the filter *)
(* remembers what it did.                                                  *)
LEMMA HandStays ==
  ASSUME Inv, NEW w \in Writers, pc'[w] = pc[w], text'[w] = text[w], aead'[w] = aead[w],
         pc[w] # "idle" => buf'[Home[w]] = buf[Home[w]], UNCHANGED <<ciph, sealed>>,
         \A m \in Nodes, x \in 1 .. MaxSalts : Remembers(m, x) => Remembers(m, x)'
  PROVE  InHand(w)'
<1>1. InHand(w) /\ Home[w] \in Nodes
  BY PacketAssumption DEF Inv, UnderWay
<1>2. pc[w] \in {"seal", "send"} => Remembers(Home[w], buf[Home[w]].salt)'
  <2>1. ASSUME pc[w] \in {"seal", "send"} PROVE Remembers(Home[w], buf[Home[w]].salt)'
    <3>1. Remembers(Home[w], buf[Home[w]].salt)
      BY <1>1, <2>1 DEF InHand
    <3>2. buf[Home[w]].salt \in 1 .. MaxSalts /\ buf'[Home[w]] = buf[Home[w]]
      BY <2>1, SaltInHand
    <3>3. PICK x \in 1 .. MaxSalts : x = buf[Home[w]].salt /\ x = buf'[Home[w]].salt
      BY <3>2
    <3>4. Remembers(Home[w], x)'
      BY <1>1, <3>1, <3>3
    <3>5. QED
      BY <3>3, <3>4 DEF Remembers
  <2>2. QED
    BY <2>1
<1>3. QED
  BY <1>1, <1>2 DEF InHand, Fits, Length

(* The filters are left alone.                                             *)
LEMMA SameMemory ==
  ASSUME UNCHANGED filter
  PROVE  \A m, x : Remembers(m, x) <=> Remembers(m, x)'
BY DEF Remembers, filter

-----------------------------------------------------------------------------
(* One lemma per action.                                                   *)

(* Taking the mutex keeps Inv.                                             *)
LEMMA LockStep ==
  ASSUME Inv, NEW w \in Writers, NEW len \in Lengths, Lock(w, len)
  PROVE  Inv'
<1>. USE PacketAssumption DEF Inv, memory, filter
<1>1. Types'
  BY DEF Lock, Free, Goto, Types, Texts, Packets, NoText
<1>2. Mutex'
  <2>1. /\ pc[w] = "idle" /\ lock[Home[w]] = NoWriter /\ Home[w] \in Nodes
        /\ lock' = [lock EXCEPT ![Home[w]] = w] /\ pc' = [pc EXCEPT ![w] = "salt"]
        /\ text' = [text EXCEPT ![w] = [by |-> w, len |-> len]]
    BY DEF Lock, Free, Goto
  <2>2. /\ pc'[w] # "idle" /\ lock'[Home[w]] = w /\ text'[w].by = w
    BY <2>1 DEF Types
  <2>3. ASSUME NEW v \in Writers, v # w, pc'[v] # "idle"
        PROVE  lock'[Home[v]] = v /\ text'[v].by = v
    <3>1. pc[v] # "idle" /\ text'[v] = text[v]
      BY <2>1, <2>3 DEF Types
    <3>2. lock[Home[v]] = v /\ text[v].by = v
      BY <3>1 DEF Mutex
    <3>3. Home[v] # Home[w]
      BY <2>1, <3>2
    <3>4. QED
      BY <2>1, <3>1, <3>2, <3>3 DEF Types
  <2>4. QED
    BY <2>2, <2>3 DEF Mutex
<1>3. Fresh'
  BY DEF Lock, Free, Goto, Types, Fresh
<1>4. UnderWay'
  <2>1. InHand(w)'
    BY DEF Lock, Goto, Types, InHand
  <2>2. ASSUME NEW v \in Writers, v # w PROVE InHand(v)'
    BY <2>2, HandStays, SameMemory DEF Lock, Goto, Types
  <2>3. QED
    BY <2>1, <2>2 DEF UnderWay
<1>5. Recorded'
  BY DEF Lock, Free, Goto, Types, Recorded, Remembers
<1>6. OnNetwork'
  BY DEF Lock, Free, Goto, Types, OnNetwork, Length
<1>7. OneTextPerKey'
  BY DEF Lock, Free, Goto, Types, OneTextPerKey
<1>8. OnlyFromPeer'
  BY DEF Lock, Free, Goto, Types, OnlyFromPeer
<1>9. QED
  BY <1>1, <1>2, <1>3, <1>4, <1>5, <1>6, <1>7, <1>8 DEF Inv

(* A WriteTo that returns, with whatever result, keeps Inv, if the buffer  *)
(* and the filters are left alone.                                         *)
LEMMA ReturnStep ==
  ASSUME Inv, NEW w \in Writers, pc[w] # "idle", Return(w),
         UNCHANGED <<memory, buf, drawn, net, sealed, got>>
  PROVE  Inv'
<1>. USE PacketAssumption DEF Inv, memory, filter
<1>1. Types'
  BY DEF Return, Goto, Types, Texts, Packets, NoText
<1>2. Mutex'
  BY DEF Return, Goto, Types, Mutex
<1>3. Fresh'
  BY DEF Return, Goto, Types, Fresh
<1>4. UnderWay'
  <2>1. InHand(w)'
    BY DEF Return, Goto, Types, InHand
  <2>2. ASSUME NEW v \in Writers, v # w PROVE InHand(v)'
    BY <2>2, HandStays, SameMemory DEF Return, Goto, Types
  <2>3. QED
    BY <2>1, <2>2 DEF UnderWay
<1>5. Recorded'
  BY DEF Return, Goto, Types, Recorded, Remembers
<1>6. OnNetwork'
  BY DEF Return, Goto, Types, OnNetwork, Length
<1>7. OneTextPerKey'
  BY DEF Return, Goto, Types, OneTextPerKey
<1>8. OnlyFromPeer'
  BY DEF Return, Goto, Types, OnlyFromPeer
<1>9. QED
  BY <1>1, <1>2, <1>3, <1>4, <1>5, <1>6, <1>7, <1>8 DEF Inv

(* A new salt keeps Inv: the buffer belongs to its writer, and no key has  *)
(* been derived from the salt before.                                      *)
LEMMA DrawSaltStep ==
  ASSUME Inv, NEW w \in Writers, DrawSalt(w)
  PROVE  Inv'
<1>. USE PacketAssumption DEF Inv, memory, filter
<1>1. CASE UNCHANGED <<drawn, buf>>
  <2>1. pc[w] # "idle" /\ Return(w) /\ UNCHANGED <<memory, buf, drawn, net, sealed, got>>
    BY <1>1 DEF DrawSalt, Types
  <2>2. QED
    BY <2>1, ReturnStep
<1>2. CASE /\ drawn < MaxSalts /\ drawn' = drawn + 1
           /\ buf' = [buf EXCEPT ![Home[w]].salt = drawn + 1]
           /\ Goto(w, "key") /\ UNCHANGED <<lock, text, aead>>
  <2>1. /\ pc[w] = "salt" /\ pc' = [pc EXCEPT ![w] = "key"]
        /\ UNCHANGED <<memory, net, sealed, got>>
    BY <1>2 DEF DrawSalt, Goto
  <2>2. /\ drawn' \in 0 .. MaxSalts /\ drawn \in Nat /\ drawn' = drawn + 1
    BY <1>2 DEF Types
  <2>3. /\ buf' \in [Nodes -> Packets]
        /\ \A n \in Nodes : n # Home[w] => buf'[n] = buf[n]
        /\ buf'[Home[w]].salt = drawn + 1
    <3>1. buf \in [Nodes -> Packets] /\ Home[w] \in Nodes /\ drawn + 1 \in Nat
      BY <2>2 DEF Types
    <3>2. QED
      BY <1>2, <3>1 DEF Packets
  <2>4. Types'
    BY <1>2, <2>1, <2>2, <2>3 DEF Types
  <2>5. Mutex'
    BY <1>2, <2>1 DEF Types, Mutex
  <2>6. Fresh'
    <3>1. \A n \in Nodes : buf[n].salt \in Nat /\ buf[n].salt <= drawn
      BY DEF Types, Packets, Fresh
    <3>2. \A n \in Nodes : buf'[n].salt <= drawn'
      BY <2>2, <2>3, <3>1
    <3>3. \A m, n \in Nodes : m # n /\ buf'[m].salt = buf'[n].salt => buf'[m].salt = 0
      BY <2>2, <2>3, <3>1 DEF Fresh
    <3>4. (\A n \in Nodes : known[n] \subseteq 1 .. drawn')
      BY <2>2 DEF Fresh
    <3>5. \A x \in sealed : x[1] \in 1 .. drawn'
      BY <2>2 DEF Fresh, Types
    <3>6. QED
      BY <2>1, <3>2, <3>3, <3>4, <3>5 DEF Fresh
  <2>7. UnderWay'
    <3>1. \A x \in sealed : x[1] # drawn + 1
      BY <2>2 DEF Fresh, Types
    <3>2. \A v \in Writers : v # w /\ pc[v] # "idle" => buf'[Home[v]] = buf[Home[v]]
      BY <2>1, <2>3, AloneInBuffer
    <3>3. InHand(w)'
      BY <1>2, <2>1, <2>2, <2>3, <3>1 DEF Types, InHand
    <3>4. ASSUME NEW v \in Writers, v # w PROVE InHand(v)'
      <4>1. InHand(v) /\ pc'[v] = pc[v] /\ UNCHANGED <<ciph, ring, known, age, text, aead, sealed>>
        BY <1>2, <2>1, <3>4 DEF Types, UnderWay
      <4>2. QED
        BY <4>1, <3>2, <3>4 DEF InHand, Fits, Length, Remembers
    <3>5. QED
      BY <3>3, <3>4 DEF UnderWay
  <2>8. Recorded' /\ OnNetwork' /\ OneTextPerKey' /\ OnlyFromPeer'
    BY <2>1 DEF Recorded, Remembers, OnNetwork, Length, OneTextPerKey, OnlyFromPeer
  <2>9. QED
    BY <2>4, <2>5, <2>6, <2>7, <2>8
<1>3. QED
  BY <1>1, <1>2 DEF DrawSalt

(* Deriving the key and adding the salt to the filter keep Inv, whether    *)
(* the text fits or not.                                                   *)
LEMMA EncrypterStep ==
  ASSUME Inv, NEW w \in Writers, Encrypter(w)
  PROVE  Inv'
<1>. USE PacketAssumption DEF Inv
<1>. DEFINE n == Home[w]
            salt == buf[n].salt
<1>1. /\ pc[w] = "key" /\ n \in Nodes /\ salt \in Nat /\ AddSalt(n, salt)
      /\ salt # 0 /\ salt <= drawn /\ salt \in 1 .. MaxSalts
      /\ UNCHANGED <<ciph, buf, drawn, net, sealed, got>>
  BY SaltInHand DEF Encrypter
<1>2. /\ ring' \in [Nodes -> {"unset", "on", "off"}] /\ known' \in [Nodes -> SUBSET Nat]
      /\ age' \in [Nodes -> [1 .. MaxSalts -> Nat]]
      /\ \A m \in Nodes : known'[m] \subseteq known[m] \cup {salt}
      /\ \A m \in Nodes : ring[m] # "unset" => ring'[m] = ring[m]
      /\ \A m \in Nodes, x \in 1 .. MaxSalts : Remembers(m, x) => Remembers(m, x)'
      /\ Remembers(n, salt)'
  BY <1>1, AddStep
<1>3. \/ /\ Fits(n, text[w].len) /\ aead' = [aead EXCEPT ![w] = salt]
         /\ Goto(w, "seal") /\ UNCHANGED <<lock, text>>
      \/ Return(w)
  BY DEF Encrypter
<1>. HIDE DEF n, salt
<1>4. Types'
  <2>1. NoText \in Texts
    BY DEF NoText, Texts
  <2>2. /\ pc' \in [Writers -> {"idle", "salt", "key", "seal", "send"}]
        /\ text' \in [Writers -> Texts] /\ aead' \in [Writers -> Nat]
        /\ lock' \in [Nodes -> Writers \cup {NoWriter}]
    <3>1. CASE Return(w)
      BY <2>1, <3>1 DEF Types, Return, Goto
    <3>2. CASE /\ aead' = [aead EXCEPT ![w] = salt]
               /\ Goto(w, "seal") /\ UNCHANGED <<lock, text>>
      BY <1>1, <3>2 DEF Types, Goto
    <3>3. QED
      BY <1>3, <3>1, <3>2
  <2>3. QED
    BY <1>1, <1>2, <2>2 DEF Types
<1>5. Mutex'
  BY <1>1, <1>3 DEF Types, Mutex, Return, Goto, n
<1>6. Fresh'
  BY <1>1, <1>2 DEF Types, Fresh
<1>7. UnderWay'
  <2>1. InHand(w)'
    <3>1. CASE Return(w)
      BY <3>1 DEF Return, Goto, Types, InHand
    <3>2. CASE /\ Fits(n, text[w].len) /\ aead' = [aead EXCEPT ![w] = salt]
               /\ Goto(w, "seal") /\ UNCHANGED <<lock, text>>
      <4>1. pc'[w] = "seal" /\ aead'[w] = salt /\ text'[w] = text[w]
        BY <3>2 DEF Goto, Types
      <4>2. \A x \in sealed : x[1] # salt
        BY <1>1, SaltInHand DEF n, salt
      <4>3. Fits(Home[w], text[w].len)' /\ buf'[Home[w]].salt = salt
        BY <1>1, <3>2, <4>1 DEF Fits, Length, n, salt
      <4>4. Remembers(Home[w], buf[Home[w]].salt)'
        BY <1>1, <1>2 DEF Remembers, n, salt
      <4>5. QED
        BY <1>1, <4>1, <4>2, <4>3, <4>4 DEF InHand
    <3>3. QED
      BY <1>3, <3>1, <3>2
  <2>2. ASSUME NEW v \in Writers, v # w PROVE InHand(v)'
    <3>1. pc'[v] = pc[v] /\ text'[v] = text[v] /\ aead'[v] = aead[v]
      BY <1>3, <2>2 DEF Return, Goto, Types
    <3>2. QED
      BY <1>1, <1>2, <3>1, HandStays
  <2>3. QED
    BY <2>1, <2>2 DEF UnderWay
<1>8. Recorded'
  <2>1. \A x \in sealed : x[1] \in 1 .. MaxSalts
    BY DEF Types, Fresh
  <2>2. QED
    BY <1>1, <1>2, <2>1 DEF Types, Recorded
<1>9. OnNetwork' /\ OneTextPerKey'
  BY <1>1 DEF OnNetwork, OneTextPerKey, Length
<1>10. OnlyFromPeer'
  <2>1. \A x \in sealed : x[1] # salt
    BY <1>1, SaltInHand DEF n, salt
  <2>2. QED
    BY <1>1, <2>1, ReadStays
<1>11. QED
  BY <1>4, <1>5, <1>6, <1>7, <1>8, <1>9, <1>10

(* Sealing keeps Inv: the key is new, and its salt is in the filter.       *)
LEMMA SealStep ==
  ASSUME Inv, NEW w \in Writers, Seal(w)
  PROVE  Inv'
<1>. USE PacketAssumption DEF Inv, memory, filter
<1>. DEFINE n == Home[w]
            key == aead[w]
            t == text[w]
<1>1. /\ pc[w] = "seal" /\ pc' = [pc EXCEPT ![w] = "send"] /\ sealed' = sealed \cup {<<key, t>>}
      /\ UNCHANGED <<memory, lock, text, aead, drawn, net, got>>
  BY DEF Seal, Goto
<1>2. /\ n \in Nodes /\ buf[n] \in Packets /\ key \in Nat /\ t \in Texts /\ t.by = w
      /\ key = buf[n].salt /\ key # 0 /\ key <= drawn
      /\ Remembers(n, key) /\ \A x \in sealed : x[1] # key
  <2>1. n \in Nodes /\ buf[n] \in Packets /\ key \in Nat /\ t \in Texts /\ t.by = w
    BY <1>1 DEF Types, Mutex
  <2>2. key = buf[n].salt /\ key # 0 /\ Remembers(n, key) /\ \A x \in sealed : x[1] # key
    <3>1. InHand(w)
      BY DEF UnderWay
    <3>2. QED
      BY <1>1, <3>1 DEF InHand
  <2>3. key <= drawn
    BY <2>1, <2>2 DEF Fresh
  <2>4. QED
    BY <2>1, <2>2, <2>3
<1>3. /\ buf' \in [Nodes -> Packets]
      /\ \A m \in Nodes : m # n => buf'[m] = buf[m]
      /\ buf'[n] = [salt |-> key, key |-> key, text |-> t]
  <2>1. buf' = [buf EXCEPT ![n] = [salt |-> key, key |-> key, text |-> t]]
    BY <1>2 DEF Seal
  <2>2. [salt |-> key, key |-> key, text |-> t] \in Packets
    BY <1>2 DEF Packets
  <2>3. QED
    BY <1>2, <2>1, <2>2 DEF Types
<1>. HIDE DEF n, key, t
<1>4. Types'
  BY <1>1, <1>2, <1>3 DEF Types
<1>5. Mutex'
  BY <1>1 DEF Types, Mutex
<1>6. Fresh'
  <2>1. \A m \in Nodes : buf'[m].salt = buf[m].salt
    BY <1>2, <1>3
  <2>2. \A x \in sealed' : x[1] \in 1 .. drawn
    BY <1>1, <1>2 DEF Fresh
  <2>3. QED
    BY <1>1, <2>1, <2>2 DEF Fresh
<1>7. UnderWay'
  <2>1. ASSUME NEW v \in Writers, v # w, pc[v] # "idle"
        PROVE  Home[v] # n /\ buf'[Home[v]] = buf[Home[v]] /\ pc'[v] = pc[v]
    BY <1>1, <1>3, <2>1, AloneInBuffer DEF Types, n
  <2>2. ASSUME NEW v \in Writers, v # w, pc[v] \in {"key", "seal"}
        PROVE  \A x \in sealed' : x[1] # buf[Home[v]].salt
    <3>1. Home[v] # n /\ Home[v] \in Nodes /\ \A x \in sealed : x[1] # buf[Home[v]].salt
      BY <2>1, <2>2 DEF UnderWay, InHand
    <3>2. buf[Home[v]].salt # key
      BY <1>2, <3>1 DEF Fresh
    <3>3. QED
      BY <1>1, <3>1, <3>2
  <2>3. pc'[w] = "send" /\ buf'[Home[w]] = [salt |-> key, key |-> key, text |-> t]
    BY <1>1, <1>3 DEF n, Types
  <2>4. InHand(w)'
    <3>1. /\ aead[w] = key /\ text[w] = t /\ Fits(Home[w], text[w].len)
          /\ Remembers(Home[w], key) /\ <<key, t>> \in sealed'
      BY <1>1, <1>2 DEF UnderWay, InHand, n, key, t
    <3>2. QED
      BY <1>1, <1>2, <2>3, <3>1 DEF InHand, Fits, Length, Remembers
  <2>5. ASSUME NEW v \in Writers, v # w PROVE InHand(v)'
    <3>1. InHand(v)
      BY DEF UnderWay
    <3>2. CASE pc[v] = "idle"
      BY <1>1, <2>5, <3>2 DEF Types, InHand
    <3>3. CASE pc[v] # "idle"
      BY <1>1, <2>1, <2>2, <2>5, <3>1, <3>3 DEF InHand, Fits, Length, Remembers
    <3>4. QED
      BY <3>2, <3>3
  <2>6. QED
    BY <2>4, <2>5 DEF UnderWay
<1>8. Recorded'
  BY <1>1, <1>2 DEF Recorded, Remembers, n
<1>9. OnNetwork' /\ OnlyFromPeer'
  BY <1>1 DEF OnNetwork, Length, OnlyFromPeer
<1>10. OneTextPerKey'
  BY <1>1, <1>2 DEF OneTextPerKey
<1>11. QED
  BY <1>4, <1>5, <1>6, <1>7, <1>8, <1>9, <1>10

(* Sending keeps Inv: what leaves is what its writer has sealed.           *)
LEMMA SendStep ==
  ASSUME Inv, NEW w \in Writers, Send(w)
  PROVE  Inv'
<1>. USE PacketAssumption DEF Inv, memory, filter
<1>1. pc[w] = "send" /\ Return(w) /\ UNCHANGED <<memory, buf, drawn, sealed, got>>
  BY DEF Send
<1>2. CASE UNCHANGED net
  BY <1>1, <1>2, ReturnStep DEF Types
<1>3. CASE net' = net \cup {[from |-> Home[w], pkt |-> buf[Home[w]]]}
  <2>1. Types'
    <3>1. Home[w] \in Nodes /\ NoText \in Texts
      BY DEF Texts, NoText
    <3>2. /\ text' \in [Writers -> Texts] /\ aead' \in [Writers -> Nat]
          /\ pc' \in [Writers -> {"idle", "salt", "key", "seal", "send"}]
      BY <1>1, <3>1 DEF Return, Goto, Types
    <3>3. lock' \in [Nodes -> Writers \cup {NoWriter}]
      BY <1>1, <3>1 DEF Return, Types
    <3>4. net' \subseteq [from : Nodes, pkt : Packets]
      <4>1. buf[Home[w]] \in Packets /\ net \subseteq [from : Nodes, pkt : Packets]
        BY <3>1 DEF Types
      <4>2. QED
        BY ONLY <1>3, <3>1, <4>1
    <3>5. QED
      BY <1>1, <3>2, <3>3, <3>4 DEF Types
  <2>2. Mutex'
    BY <1>1, <1>3 DEF Return, Goto, Types, Mutex
  <2>3. Fresh'
    BY <1>1, <1>3 DEF Return, Goto, Types, Fresh
  <2>4. UnderWay'
    <3>1. InHand(w)'
      BY <1>1 DEF Return, Goto, Types, InHand
    <3>2. ASSUME NEW v \in Writers, v # w PROVE InHand(v)'
      BY <1>1, <3>2, HandStays, SameMemory DEF Return, Goto, Types
    <3>3. QED
      BY <3>1, <3>2 DEF UnderWay
  <2>5. Recorded'
    BY <1>1, <1>3 DEF Return, Goto, Types, Recorded, Remembers
  <2>6. OnNetwork'
    <3>1. /\ buf[Home[w]].text = text[w] /\ text[w].by = w
          /\ maxPacketSize >= Length(Home[w], text[w].len)
      BY <1>1 DEF UnderWay, InHand, Mutex, Fits
    <3>2. Length(Home[w], text[w].len) <= maxPacketSize
      BY <3>1
    <3>3. QED
      BY <1>1, <1>3, <3>1, <3>2 DEF OnNetwork, Length
  <2>7. OneTextPerKey'
    BY <1>1, <1>3 DEF Return, Goto, Types, OneTextPerKey, UnderWay, InHand
  <2>8. OnlyFromPeer'
    BY <1>1, <1>3 DEF Return, Goto, Types, OnlyFromPeer
  <2>9. QED
    BY <2>1, <2>2, <2>3, <2>4, <2>5, <2>6, <2>7, <2>8 DEF Inv
<1>4. QED
  BY <1>2, <1>3 DEF Send

(* Receiving keeps Inv: a packet that opens is as its sender sealed it,    *)
(* and the sender's own filter knows its salt.                             *)
LEMMA ReadFromStep ==
  ASSUME Inv, NEW n \in Nodes, NEW p \in net, NEW size \in ReadSizes,
         NEW intact \in BOOLEAN, ReadFrom(n, p, size, intact)
  PROVE  Inv'
<1>. USE PacketAssumption DEF Inv
<1>1. CheckSalt(n) /\ UNCHANGED <<ciph, lock, buf, pc, text, aead, drawn, net, sealed>>
  BY DEF ReadFrom
<1>2. /\ ring' \in [Nodes -> {"unset", "on", "off"}] /\ UNCHANGED <<known, age>>
      /\ \A m \in Nodes : ring[m] # "unset" => ring'[m] = ring[m]
      /\ \A m \in Nodes, x \in 1 .. MaxSalts : Remembers(m, x) => Remembers(m, x)'
  BY <1>1, CheckStep
<1>3. \/ got' = got
      \/ /\ got' = got \cup {<<n, p.pkt.salt, p.pkt.text>>}
         /\ ~(ring'[n] = "on" /\ p.pkt.salt \in known[n])
  BY DEF ReadFrom, Unpack
<1>4. p.pkt.salt \in Nat /\ p.pkt.text \in Texts
  BY DEF Types, Packets
<1>5. Types'
  <2>1. <<n, p.pkt.salt, p.pkt.text>> \in Nodes \X Nat \X Texts
    BY <1>4
  <2>2. got' \subseteq Nodes \X Nat \X Texts
    BY <1>3, <2>1 DEF Types
  <2>3. QED
    BY <1>1, <1>2, <2>2 DEF Types
<1>6. Fresh'
  BY <1>1, <1>2 DEF Types, Fresh
<1>7. Mutex' /\ OnNetwork' /\ OneTextPerKey'
  BY <1>1 DEF Mutex, OnNetwork, OneTextPerKey, Length
<1>8. UnderWay' /\ Recorded'
  <2>2. \A x \in sealed : x[1] \in 1 .. MaxSalts
    BY DEF Types, Fresh
  <2>3. UnderWay'
    BY <1>1, <1>2, HandStays DEF UnderWay
  <2>4. Recorded'
    BY <1>1, <1>2, <2>2 DEF Types, Recorded
  <2>5. QED
    BY <2>3, <2>4
<1>9. OnlyFromPeer'
  <2>1. <<p.pkt.salt, p.pkt.text>> \in sealed
    BY DEF OneTextPerKey
  <2>2. Home[p.pkt.text.by] = n => Remembers(n, p.pkt.salt)
    BY <2>1 DEF Recorded
  <2>3. ASSUME NEW g \in got
        PROVE  /\ <<g[2], g[3]>> \in sealed
               /\ Home[g[3].by] = g[1] => ring'[g[1]] = "off" \/ age[g[1]][g[2]] >= Window
    BY <1>2 DEF OnlyFromPeer, Types
  <2>4. CASE /\ got' = got \cup {<<n, p.pkt.salt, p.pkt.text>>}
             /\ ~(ring'[n] = "on" /\ p.pkt.salt \in known[n])
    <3>1. Home[p.pkt.text.by] = n => ring'[n] = "off" \/ age[n][p.pkt.salt] >= Window
      BY <1>2, <2>2, <2>4 DEF Remembers
    <3>2. <<n, p.pkt.salt, p.pkt.text>>[1] = n /\ <<n, p.pkt.salt, p.pkt.text>>[2] = p.pkt.salt
          /\ <<n, p.pkt.salt, p.pkt.text>>[3] = p.pkt.text
      OBVIOUS
    <3>3. QED
      BY <1>1, <1>2, <2>1, <2>3, <2>4, <3>1, <3>2 DEF OnlyFromPeer
  <2>5. QED
    BY <1>1, <1>2, <1>3, <2>3, <2>4 DEF OnlyFromPeer
<1>10. QED
  BY <1>5, <1>6, <1>7, <1>8, <1>9

(* A salt of a stream keeps Inv: it is new to all packets.                 *)
LEMMA StreamSaltStep ==
  ASSUME Inv, NEW n \in Nodes, StreamSalt(n)
  PROVE  Inv'
<1>. USE PacketAssumption DEF Inv
<1>. DEFINE salt == drawn + 1
<1>1. /\ drawn \in Nat /\ drawn' = salt /\ drawn' \in 0 .. MaxSalts /\ salt \in 1 .. MaxSalts
      /\ AddSalt(n, salt)
      /\ UNCHANGED <<ciph, lock, buf, pc, text, aead, net, sealed, got>>
  BY DEF StreamSalt, Types
<1>2. /\ ring' \in [Nodes -> {"unset", "on", "off"}] /\ known' \in [Nodes -> SUBSET Nat]
      /\ age' \in [Nodes -> [1 .. MaxSalts -> Nat]]
      /\ \A m \in Nodes : known'[m] \subseteq known[m] \cup {salt}
      /\ \A m \in Nodes, x \in 1 .. MaxSalts : Remembers(m, x) => Remembers(m, x)'
  BY <1>1, AddStep
<1>3. \A x \in sealed : x[1] \in 1 .. MaxSalts /\ x[1] # salt
  BY <1>1 DEF Types, Fresh
<1>4. Types'
  BY <1>1, <1>2 DEF Types
<1>5. Fresh'
  <2>1. \A m \in Nodes : buf[m].salt \in Nat /\ buf[m].salt <= drawn
    BY DEF Types, Packets, Fresh
  <2>2. \A m \in Nodes : buf[m].salt <= drawn'
    BY <1>1, <2>1
  <2>3. \A m \in Nodes : known'[m] \subseteq 1 .. drawn'
    BY <1>1, <1>2 DEF Fresh
  <2>4. \A x \in sealed : x[1] \in 1 .. drawn'
    BY <1>1 DEF Fresh
  <2>5. QED
    BY <1>1, <2>2, <2>3, <2>4 DEF Fresh
<1>6. Mutex' /\ OnNetwork' /\ OneTextPerKey'
  BY <1>1 DEF Mutex, OnNetwork, OneTextPerKey, Length
<1>7. UnderWay'
  BY <1>1, <1>2, HandStays DEF UnderWay
<1>8. Recorded'
  BY <1>1, <1>2, <1>3 DEF Types, Recorded
<1>9. OnlyFromPeer'
  BY <1>1, <1>3, ReadStays
<1>10. QED
  BY <1>4, <1>5, <1>6, <1>7, <1>8, <1>9

-----------------------------------------------------------------------------
(* The inductive invariant holds in every reachable state.                 *)
THEOREM Invariance == Spec => []Inv
<1>1. Init => Inv
  <2>. SUFFICES ASSUME Init PROVE Inv
    OBVIOUS
  <2>1. Types
    BY PacketAssumption DEF Init, Types, Texts, Packets, NoText
  <2>2. Mutex /\ Fresh /\ UnderWay /\ Recorded /\ OnNetwork
    BY PacketAssumption DEF Init, Mutex, Fresh, UnderWay, InHand, Recorded, OnNetwork
  <2>3. OneTextPerKey /\ OnlyFromPeer
    BY DEF Init, OneTextPerKey, OnlyFromPeer
  <2>4. QED
    BY <2>1, <2>2, <2>3 DEF Inv
<1>2. Inv /\ [Next]_vars => Inv'
  <2>. SUFFICES ASSUME Inv, [Next]_vars PROVE Inv'
    OBVIOUS
  <2>1. CASE \E w \in Writers : Turn(w) \/ \E len \in Lengths : Lock(w, len)
    BY <2>1, DrawSaltStep, EncrypterStep, SealStep, SendStep, LockStep DEF Turn
  <2>2. CASE \E n \in Nodes, p \in net, size \in ReadSizes, intact \in BOOLEAN :
               ReadFrom(n, p, size, intact)
    BY <2>2, ReadFromStep
  <2>5. CASE \E n \in Nodes : StreamSalt(n)
    BY <2>5, StreamSaltStep
  <2>3. CASE UNCHANGED vars
    BY <2>3
       DEF vars, Inv, Types, Mutex, Fresh, UnderWay, InHand, Recorded,
           Remembers, OnNetwork, OneTextPerKey, OnlyFromPeer, Fits, Length
  <2>4. QED
    BY <2>1, <2>2, <2>3, <2>5 DEF Next
<1>3. QED
  BY <1>1, <1>2, PTL DEF Spec

(* Every filter holds salts that were drawn, and no packet on the network  *)
(* is longer than the buffer it was packed in.                             *)
THEOREM TypeCorrect == Spec => []TypeOK
<1>1. Inv => TypeOK
  BY DEF Inv, Types, Fresh, OnNetwork, TypeOK
<1>2. QED
  BY <1>1, Invariance, PTL

(* However many goroutines write through a packetConn, no key seals two    *)
(* texts with the nonce that is always zero, and every packet that leaves  *)
(* holds the salt of its key.                                              *)
THEOREM KeysSealOnce == Spec => []OneTextPerKey
<1>1. Inv => OneTextPerKey
  BY DEF Inv
<1>2. QED
  BY <1>1, Invariance, PTL

(* ReadFrom returns only what was sealed, and nothing that its own end     *)
(* wrote as long as the salt filter is on and its salt among the Window    *)
(* most recent ones.                                                       *)
THEOREM NothingForged == Spec => []OnlyFromPeer
<1>1. Inv => OnlyFromPeer
  BY DEF Inv
<1>2. QED
  BY <1>1, Invariance, PTL
=============================================================================
