------------------------- MODULE TunnelSetupProofs -------------------------
(***************************************************************************)
(* Proofs about TunnelSetup for all requests, addresses and data, and all  *)
(* ways in which they are cut into fragments.                              *)
(***************************************************************************)
EXTENDS TunnelSetup, SequenceTheorems, TLAPS

-----------------------------------------------------------------------------
(* s is what lies behind the position n of b, as far as it goes.           *)
Lies(s, b, n) ==
  /\ s \in Seq(Byte) /\ b \in Seq(Byte) /\ n \in Nat
  /\ n + Len(s) <= Len(b)
  /\ \A j \in 1 .. Len(s) : s[j] = b[n + j]

(* Where the address starts in the bytes of a request, and where the data. *)
AddrAt(r) == 5 + Len(r.methods)
DataAt(r) == AddrAt(r) + Len(AddrOf(r))

Early == {"greet", "methods", "choose", "request", "atyp", "alen", "arest", "answer"}
Active == {"atyp", "alen", "arest", "dial", "relay"}

(* A handler in state p, with need k and address a, has read the first n   *)
(* bytes of the request r, and what it knows of them is right.             *)
Stands(p, k, a, r, n) ==
  /\ p = "greet" => n = 0
  /\ p = "methods" => n = 2 /\ k = Len(r.methods)
  /\ p \in {"choose", "request"} => n = 2 + Len(r.methods)
  /\ p = "atyp" => n = AddrAt(r)
  /\ p = "alen" => n = AddrAt(r) + 1 /\ r.atyp = ATYPDomain /\ Len(a) = 1
  /\ p = "arest" => n = AddrAt(r) + Len(a) /\ Len(a) + k = Len(AddrOf(r))
  /\ p \in {"alen", "arest"} => Lies(a, BytesOf(r), AddrAt(r))
  /\ p \in {"answer", "dial", "send"} => n = DataAt(r)
  /\ p \in {"answer", "dial", "send", "relay"} => a = AddrOf(r)
  /\ p \in {"arest", "answer", "dial", "send", "relay"} =>
       r.atyp \in {ATYPIPv4, ATYPDomain, ATYPIPv6}

(* The local handler, in front of what it has to read and what the client  *)
(* has still to send.                                                      *)
Local(n) ==
  pc["local"] \notin {"drain", "closed"} =>
    /\ Stands(pc["local"], need["local"], addr["local"], req, n)
    /\ Lies(in["local"], BytesOf(req), n)
    /\ Lies(script, BytesOf(req), n + Len(in["local"]))
    /\ n + Len(in["local"]) + Len(script) = Len(BytesOf(req))

Server(m) ==
  pc["server"] \in Active =>
    /\ Stands(pc["server"], need["server"], addr["server"], req, m)
    /\ pc["server"] = "relay" => m = DataAt(req) + Len(out)
    /\ Lies(in["server"], BytesOf(req), m)

(* The tunnel holds what the one has read and the other has not.           *)
Joined(n, m) ==
  pc["server"] \in Active =>
    /\ pc["local"] = "send" => pc["server"] = "atyp" /\ in["server"] = << >>
    /\ pc["local"] = "relay" => n = m + Len(in["server"])

Flow == \E n, m \in Nat : Local(n) /\ Server(m) /\ Joined(n, m)

(* Which states of the two handlers go together, and what has happened     *)
(* before each.                                                            *)
Stages ==
  /\ pc["local"] # "none"
  /\ pc["server"] \in Active \union {"none", "drain", "closed"}
  /\ pc["local"] \in Early \union {"drain", "dial"} => pc["server"] = "none"
  /\ pc["local"] \in {"send", "relay"} => pc["server"] # "none"
  /\ pc["server"] = "none" => reqNum["server"] = 0
  /\ pc["server"] \in Active \ {"relay"} =>
       reqNum["server"] = 1 /\ out = << >>
  /\ pc["server"] = "none" => out = << >> /\ in["server"] = << >>

(* What the client has asked for and been told, and the server has dialled. *)
Told ==
  /\ pc["local"] \in {"atyp", "alen", "arest", "answer", "dial"} => cmd = req.cmd
  /\ pc["local"] \in {"greet", "methods", "choose"} => replies = << >>
  /\ pc["local"] \in {"request", "atyp", "alen", "arest", "answer"} => Len(replies) = 1
  /\ pc["local"] = "dial" \/ pc["server"] # "none" =>
       Len(replies) = 2 /\ req.cmd = CmdConnect
  /\ \A i \in DOMAIN replies : replies[i][1] = "udp" => replies[i][2] = ParseAddr(LocalAddr)
  /\ dialled # nil => pc["server"] # "none" /\ dialled = Target(req)

Inv ==
  /\ TypeOK
  /\ Stages
  /\ Flow
  /\ Lies(out, BytesOf(req), DataAt(req))
  /\ Told

-----------------------------------------------------------------------------
(* Parts of a byte string.                                                 *)

(* Reading k bytes of a part leaves a part k bytes further on.             *)
LEMMA Eat ==
  ASSUME NEW s, NEW b, NEW n, NEW k \in 0 .. Len(s), Lies(s, b, n)
  PROVE  /\ Lies(SubSeq(s, k + 1, Len(s)), b, n + k)
         /\ Lies(SubSeq(s, 1, k), b, n)
         /\ Len(SubSeq(s, k + 1, Len(s))) = Len(s) - k
         /\ Len(SubSeq(s, 1, k)) = k
<1>0. s \in Seq(Byte) /\ Len(s) \in Nat /\ k \in Nat /\ n \in Nat /\ b \in Seq(Byte) /\ Len(b) \in Nat
  BY LenProperties DEF Lies
<1>1. /\ SubSeq(s, k + 1, Len(s)) \in Seq(Byte)
      /\ Len(SubSeq(s, k + 1, Len(s))) = Len(s) - k
      /\ \A j \in 1 .. Len(s) - k : SubSeq(s, k + 1, Len(s))[j] = s[k + j]
  BY <1>0, SubSeqProperties
<1>2. /\ SubSeq(s, 1, k) \in Seq(Byte)
      /\ Len(SubSeq(s, 1, k)) = k
      /\ \A j \in 1 .. k : SubSeq(s, 1, k)[j] = s[j]
  BY <1>0, SubSeqProperties
<1>3. n + Len(s) <= Len(b) /\ \A j \in 1 .. Len(s) : s[j] = b[n + j]
  BY DEF Lies
<1>4. Lies(SubSeq(s, k + 1, Len(s)), b, n + k)
  <2>. DEFINE t == SubSeq(s, k + 1, Len(s))
  <2>1. ASSUME NEW j \in 1 .. Len(t) PROVE t[j] = b[n + k + j]
    <3>1. k + j \in 1 .. Len(s) /\ t[j] = s[k + j] /\ n + (k + j) = n + k + j
      BY <1>0, <1>1, <2>1
    <3>2. QED
      BY <3>1, <1>3
  <2>2. t \in Seq(Byte) /\ n + k + Len(t) <= Len(b) /\ n + k \in Nat
    BY <1>0, <1>1, <1>3
  <2>. HIDE DEF t
  <2>3. Lies(t, b, n + k)
    BY <1>0, <2>1, <2>2 DEF Lies 
  <2>4. QED
    BY <2>3 DEF t
<1>5. Lies(SubSeq(s, 1, k), b, n)
  BY <1>0, <1>2, <1>3 DEF Lies
<1>6. QED
  BY <1>1, <1>2, <1>4, <1>5

(* Two parts that follow one another make one.                             *)
LEMMA Join ==
  ASSUME NEW s, NEW t, NEW b, NEW n, Lies(s, b, n), Lies(t, b, n + Len(s))
  PROVE  Lies(s \o t, b, n) /\ Len(s \o t) = Len(s) + Len(t)
<1>0. /\ s \in Seq(Byte) /\ t \in Seq(Byte) /\ Len(s) \in Nat /\ Len(t) \in Nat
      /\ n \in Nat /\ b \in Seq(Byte) /\ Len(b) \in Nat
  BY LenProperties DEF Lies
<1>1. /\ s \o t \in Seq(Byte) /\ Len(s \o t) = Len(s) + Len(t)
      /\ \A j \in 1 .. Len(s) + Len(t) :
           (s \o t)[j] = IF j <= Len(s) THEN s[j] ELSE t[j - Len(s)]
  BY <1>0, ConcatProperties
<1>2. QED
  BY <1>0, <1>1 DEF Lies

(* The empty part, and the equality of two parts.                          *)
LEMMA Empty ==
  ASSUME NEW b \in Seq(Byte), NEW n \in 0 .. Len(b)
  PROVE  Lies(<< >>, b, n)
<1>1. << >> \in Seq(Byte) /\ Len(<< >>) = 0 /\ Len(b) \in Nat
  BY EmptySeq, LenProperties
<1>2. QED
  BY <1>1 DEF Lies

(* Two strings of one length at one place of the same bytes are equal.     *)
LEMMA Same ==
  ASSUME NEW s, NEW t, NEW b, NEW n, Lies(s, b, n), Lies(t, b, n), Len(s) = Len(t)
  PROVE  s = t
<1>1. s \in Seq(Byte) /\ t \in Seq(Byte) /\ \A j \in 1 .. Len(s) : s[j] = t[j]
  BY DEF Lies
<1>2. QED
  BY <1>1, SeqEqual

-----------------------------------------------------------------------------
(* The bytes of addresses and requests.                                    *)

(* Bytes are numbers.                                                      *)
LEMMA ByteIsNat == \A x \in Byte : x \in Nat
BY DEF Byte

(* Joining sequences of bytes.                                             *)
Str == Seq(Byte)
Cat(s, t) == s \o t

(* What SMT needs to know of a concatenation, whose definition it does not *)
(* see.                                                                    *)
LEMMA CatLaws ==
  ASSUME NEW s \in Str, NEW t \in Str
  PROVE  /\ Cat(s, t) \in Str /\ Len(s) \in Nat /\ Len(t) \in Nat
         /\ Len(Cat(s, t)) = Len(s) + Len(t)
         /\ \A j \in 1 .. Len(s) : Cat(s, t)[j] = s[j]
         /\ \A j \in 1 .. Len(t) : Cat(s, t)[Len(s) + j] = t[j]
BY ConcatProperties, LenProperties DEF Str, Cat

(* The two bytes of a port.                                                *)
LEMMA PortBytes ==
  ASSUME NEW p \in Nat, p < 65536
  PROVE  p \div 256 \in Byte /\ p % 256 \in Byte /\ Port(p \div 256, p % 256) = p
BY DEF Byte, Port

(* An address in parts, as RequestAssumption has it.                       *)
InParts(r) ==
  /\ r.host \in Seq(Byte) /\ Len(r.host) \in Byte /\ r.atyp \in Byte
  /\ r.port \in Nat /\ r.port < 65536
  /\ r.atyp = ATYPIPv4 => Len(r.host) = IPv4len
  /\ r.atyp = ATYPIPv6 => Len(r.host) = IPv6len

(* The client's encoding of an address: its type, its length and what      *)
(* stands where in it.                                                     *)
LEMMA AddrBytes ==
  ASSUME NEW r, InParts(r)
  PROVE  LET a == AddrOf(r)
             h == IF r.atyp = ATYPDomain THEN 2 ELSE 1
         IN  /\ a \in Str /\ a[1] = r.atyp /\ Len(a) = h + Len(r.host) + 2
             /\ r.atyp = ATYPDomain => a[2] = Len(r.host)
             /\ \A j \in 1 .. Len(r.host) : a[h + j] = r.host[j]
             /\ a[h + Len(r.host) + 1] = r.port \div 256
             /\ a[h + Len(r.host) + 2] = r.port % 256
             /\ Len(r.host) \in Nat
<1>. DEFINE h == IF r.atyp = ATYPDomain THEN 2 ELSE 1
            x == IF r.atyp = ATYPDomain THEN <<r.atyp, Len(r.host)>> ELSE <<r.atyp>>
            p == <<r.port \div 256, r.port % 256>>
<1>1. /\ r.host \in Str /\ Len(r.host) \in Byte /\ r.atyp \in Byte
      /\ r.port \in Nat /\ r.port < 65536
  BY DEF InParts, Str
<1>2. /\ x \in Str /\ Len(x) = h /\ x[1] = r.atyp
      /\ r.atyp = ATYPDomain => x[2] = Len(r.host)
  BY <1>1 DEF Str
<1>3. /\ p \in Str /\ Len(p) = 2
      /\ p[1] = r.port \div 256 /\ p[2] = r.port % 256
  BY <1>1, PortBytes DEF Str
<1>4. AddrOf(r) = Cat(Cat(x, r.host), p)
  BY DEF AddrOf, Cat
<1>5. h \in {1, 2} /\ (r.atyp = ATYPDomain => h = 2) /\ Len(r.host) \in Nat
  BY <1>1, LenProperties
<1>. HIDE DEF h, x, p
<1>6. /\ Cat(x, r.host) \in Str /\ Len(Cat(x, r.host)) = h + Len(r.host)
      /\ \A j \in 1 .. h : Cat(x, r.host)[j] = x[j]
      /\ \A j \in 1 .. Len(r.host) : Cat(x, r.host)[h + j] = r.host[j]
  <2>1. x \in Str /\ r.host \in Str
    BY <1>1, <1>2
  <2>2. Cat(x, r.host) \in Str /\ Len(Cat(x, r.host)) = Len(x) + Len(r.host)
    BY <2>1, CatLaws
  <2>3. \A j \in 1 .. Len(x) : Cat(x, r.host)[j] = x[j]
    BY <2>1, CatLaws
  <2>4. \A j \in 1 .. Len(r.host) : Cat(x, r.host)[Len(x) + j] = r.host[j]
    BY <2>1, CatLaws
  <2>5. QED
    BY <1>2, <2>2, <2>3, <2>4
<1>. DEFINE y == Cat(x, r.host)
<1>. HIDE DEF y
<1>7. /\ Cat(y, p) \in Str /\ Len(Cat(y, p)) = h + Len(r.host) + 2
      /\ \A j \in 1 .. h + Len(r.host) : Cat(y, p)[j] = y[j]
      /\ Cat(y, p)[h + Len(r.host) + 1] = p[1]
      /\ Cat(y, p)[h + Len(r.host) + 2] = p[2]
  <2>1. y \in Str /\ Len(y) = h + Len(r.host)
    BY <1>6 DEF y
  <2>2. 1 \in 1 .. Len(p) /\ 2 \in 1 .. Len(p)
    BY <1>3
  <2>a. y \in Str /\ p \in Str
    BY <1>3, <2>1
  <2>3. Cat(y, p) \in Str /\ Len(Cat(y, p)) = Len(y) + Len(p)
    BY <2>a, CatLaws
  <2>4. \A j \in 1 .. Len(y) : Cat(y, p)[j] = y[j]
    BY <2>a, CatLaws
  <2>5. \A j \in 1 .. Len(p) : Cat(y, p)[Len(y) + j] = p[j]
    BY <2>a, CatLaws
  <2>6. QED
    BY <1>3, <1>5, <2>1, <2>2, <2>3, <2>4, <2>5
<1>8. /\ \A j \in 1 .. h : Cat(y, p)[j] = x[j]
      /\ \A j \in 1 .. Len(r.host) : Cat(y, p)[h + j] = r.host[j]
  BY <1>5, <1>6, <1>7 DEF y
<1>9. 1 \in 1 .. h /\ (r.atyp = ATYPDomain => 2 \in 1 .. h)
  BY <1>5
<1>10. AddrOf(r) = Cat(y, p)
  BY <1>4 DEF y
<1>11. /\ AddrOf(r) \in Str /\ AddrOf(r)[1] = r.atyp
       /\ Len(AddrOf(r)) = h + Len(r.host) + 2
       /\ r.atyp = ATYPDomain => AddrOf(r)[2] = Len(r.host)
  BY <1>2, <1>7, <1>8, <1>9, <1>10
<1>12. /\ \A j \in 1 .. Len(r.host) : AddrOf(r)[h + j] = r.host[j]
       /\ AddrOf(r)[h + Len(r.host) + 1] = r.port \div 256
       /\ AddrOf(r)[h + Len(r.host) + 2] = r.port % 256
  BY <1>3, <1>7, <1>8, <1>10
<1>13. QED
  BY <1>5, <1>11, <1>12 DEF h

(* The bytes of a request: the number of methods, the command, the address *)
(* and the data are where they are read.                                   *)
LEMMA Layout ==
  ASSUME NEW r \in Requests
  PROVE  LET b == BytesOf(r)
         IN  /\ b \in Str /\ Len(b) = DataAt(r) + Len(r.payload)
             /\ Len(r.methods) \in Byte /\ r.cmd \in Byte /\ Len(r.payload) \in Nat
             /\ b[2] = Len(r.methods) /\ b[4 + Len(r.methods)] = r.cmd
             /\ Lies(AddrOf(r), b, AddrAt(r)) /\ Lies(r.payload, b, DataAt(r))
<1>. DEFINE g == <<5, Len(r.methods)>>
            m == r.methods
            c == <<5, r.cmd, 0>>
            a == AddrOf(r)
            d == r.payload
<1>1. /\ m \in Str /\ Len(m) \in Byte /\ r.cmd \in Byte /\ d \in Str
  BY RequestAssumption DEF Str
<1>2. 5 \in Byte /\ 0 \in Byte
  BY DEF Byte
<1>3. /\ g \in Str /\ Len(g) = 2 /\ g[2] = Len(m)
      /\ c \in Str /\ Len(c) = 3 /\ c[2] = r.cmd
  BY <1>1, <1>2 DEF Str
<1>4. a \in Str
  <2>1. InParts(r)
    BY RequestAssumption DEF InParts
  <2>2. QED
    BY <2>1, AddrBytes
<1>5. BytesOf(r) = Cat(Cat(Cat(Cat(g, m), c), a), d)
  BY DEF BytesOf, Cat
<1>6. Len(m) \in Nat /\ Len(a) \in Nat /\ Len(d) \in Nat
  BY <1>1, <1>4, LenProperties
<1>. HIDE DEF g, c, a, m, d
<1>. DEFINE u == Cat(g, m)
            v == Cat(u, c)
            w == Cat(v, a)
            z == Cat(w, d)
<1>7. u \in Str /\ Len(u) = 2 + Len(m) /\ (\A j \in 1 .. 2 : u[j] = g[j])
  <2>1. g \in Str /\ m \in Str
    BY <1>1, <1>3
  <2>2. u \in Str /\ Len(u) = Len(g) + Len(m)
    BY <2>1, CatLaws
  <2>3. \A j \in 1 .. Len(g) : u[j] = g[j]
    BY <2>1, CatLaws
  <2>4. QED
    BY <1>3, <2>2, <2>3
<1>. HIDE DEF u
<1>8. /\ v \in Str /\ Len(v) = 5 + Len(m)
      /\ (\A j \in 1 .. 2 + Len(m) : v[j] = u[j])
      /\ (\A j \in 1 .. 3 : v[2 + Len(m) + j] = c[j])
  <2>1. u \in Str /\ c \in Str
    BY <1>3, <1>7
  <2>2. v \in Str /\ Len(v) = Len(u) + Len(c)
    BY <2>1, CatLaws
  <2>3. \A j \in 1 .. Len(u) : v[j] = u[j]
    BY <2>1, CatLaws
  <2>4. \A j \in 1 .. Len(c) : v[Len(u) + j] = c[j]
    BY <2>1, CatLaws
  <2>5. QED
    BY <1>3, <1>6, <1>7, <2>2, <2>3, <2>4
<1>. HIDE DEF v
<1>9. /\ w \in Str /\ Len(w) = 5 + Len(m) + Len(a)
      /\ (\A j \in 1 .. 5 + Len(m) : w[j] = v[j])
      /\ (\A j \in 1 .. Len(a) : w[5 + Len(m) + j] = a[j])
  <2>1. v \in Str /\ a \in Str
    BY <1>4, <1>8
  <2>2. w \in Str /\ Len(w) = Len(v) + Len(a)
    BY <2>1, CatLaws
  <2>3. \A j \in 1 .. Len(v) : w[j] = v[j]
    BY <2>1, CatLaws
  <2>4. \A j \in 1 .. Len(a) : w[Len(v) + j] = a[j]
    BY <2>1, CatLaws
  <2>5. QED
    BY <1>6, <1>8, <2>2, <2>3, <2>4
<1>. HIDE DEF w
<1>10. /\ z \in Str /\ Len(z) = 5 + Len(m) + Len(a) + Len(d)
       /\ (\A j \in 1 .. 5 + Len(m) + Len(a) : z[j] = w[j])
       /\ (\A j \in 1 .. Len(d) : z[5 + Len(m) + Len(a) + j] = d[j])
  <2>1. w \in Str /\ d \in Str
    BY <1>1, <1>9
  <2>2. z \in Str /\ Len(z) = Len(w) + Len(d)
    BY <2>1, CatLaws
  <2>3. \A j \in 1 .. Len(w) : z[j] = w[j]
    BY <2>1, CatLaws
  <2>4. \A j \in 1 .. Len(d) : z[Len(w) + j] = d[j]
    BY <2>1, CatLaws
  <2>5. QED
    BY <1>6, <1>9, <2>2, <2>3, <2>4
<1>. HIDE DEF z
<1>11. AddrAt(r) = 5 + Len(m) /\ DataAt(r) = 5 + Len(m) + Len(a)
  BY DEF AddrAt, DataAt, m, a
<1>12. z[2] = Len(m)
  BY <1>3, <1>6, <1>7, <1>8, <1>9, <1>10
<1>13. z[4 + Len(m)] = r.cmd
  <2>1. z[4 + Len(m)] = v[2 + Len(m) + 2]
    BY <1>6, <1>8, <1>9, <1>10
  <2>2. QED
    BY <1>3, <1>8, <2>1
<1>14. Lies(a, z, 5 + Len(m))
  <2>1. ASSUME NEW j \in 1 .. Len(a) PROVE a[j] = z[5 + Len(m) + j]
    BY <1>6, <1>9, <1>10, <2>1
  <2>2. QED
    BY <1>4, <1>6, <1>10, <2>1 DEF Lies, Str
<1>15. Lies(d, z, 5 + Len(m) + Len(a))
  BY <1>1, <1>6, <1>10 DEF Lies, Str
<1>16. BytesOf(r) = z
  BY <1>5 DEF z, w, v, u
<1>17. QED
  BY <1>1, <1>6, <1>10, <1>11, <1>12, <1>13, <1>14, <1>15, <1>16 DEF m, a, d

(* String finds host and port in it, and its length is what readAddr and   *)
(* SplitAddr take from its first two bytes.                                *)
LEMMA Decode ==
  ASSUME NEW r, InParts(r), r.atyp \in {ATYPIPv4, ATYPDomain, ATYPIPv6}
  PROVE  /\ String(AddrOf(r)) = Target(r)
         /\ PortAt(AddrOf(r)) + 1 = Len(AddrOf(r))
<1>. DEFINE a == AddrOf(r)
            h == IF r.atyp = ATYPDomain THEN 2 ELSE 1
            n == Len(r.host)
<1>1. /\ a \in Str /\ a[1] = r.atyp /\ Len(a) = h + n + 2 /\ n \in Nat
      /\ r.atyp = ATYPDomain => a[2] = n
      /\ \A j \in 1 .. n : a[h + j] = r.host[j]
      /\ a[h + n + 1] = r.port \div 256 /\ a[h + n + 2] = r.port % 256
  BY AddrBytes, ZenonT(40)
<1>2. h \in {1, 2}
  OBVIOUS
<1>3. PortAt(a) = h + n + 1
  <2>. HIDE DEF a
  <2>1. /\ r.atyp = ATYPIPv4 => n = IPv4len
        /\ r.atyp = ATYPIPv6 => n = IPv6len
    BY DEF InParts
  <2>2. CASE r.atyp = ATYPDomain
    BY <1>1, <2>2 DEF PortAt, ATYPDomain, ATYPIPv4, ATYPIPv6
  <2>3. CASE r.atyp = ATYPIPv4
    BY <1>1, <2>1, <2>3 DEF PortAt, ATYPDomain, ATYPIPv4, ATYPIPv6
  <2>4. CASE r.atyp = ATYPIPv6
    BY <1>1, <2>1, <2>4 DEF PortAt, ATYPDomain, ATYPIPv4, ATYPIPv6
  <2>5. QED
    BY <2>2, <2>3, <2>4
<1>4. SubSeq(a, h + 1, h + n) = r.host
  <2>. HIDE DEF a, h
  <2>1. r.host \in Seq(Byte) /\ a \in Seq(Byte) /\ Len(a) \in Nat
    BY <1>1, LenProperties DEF InParts, Str
  <2>2. \A i \in h + 1 .. h + n : a[i] \in Byte
    BY <1>1, <1>2, <2>1, ElementOfSeq
  <2>3. /\ SubSeq(a, h + 1, h + n) \in Seq(Byte)
        /\ Len(SubSeq(a, h + 1, h + n)) = IF h + 1 <= h + n THEN h + n - (h + 1) + 1 ELSE 0
        /\ \A i \in 1 .. h + n - (h + 1) + 1 : SubSeq(a, h + 1, h + n)[i] = a[h + 1 + i - 1]
    BY <1>1, <1>2, <2>2, SubSeqProperties
  <2>. DEFINE t == SubSeq(a, h + 1, h + n)
  <2>4. Len(t) = n /\ t \in Seq(Byte)
    BY <1>1, <1>2, <2>3
  <2>5. ASSUME NEW i \in 1 .. n PROVE t[i] = r.host[i]
    <3>1. h + i \in Int /\ h + 1 + i - 1 = h + i /\ h + n - (h + 1) + 1 = n
      BY <1>1, <1>2, <2>5
    <3>2. t[i] = a[h + i]
      BY <2>3, <2>5, <3>1
    <3>3. QED
      BY <1>1, <2>5, <3>2
  <2>. HIDE DEF t
  <2>6. t = r.host
    BY <2>1, <2>4, <2>5, SeqEqual
  <2>7. QED
    BY <2>6 DEF t
<1>5. Port(a[PortAt(a)], a[PortAt(a) + 1]) = r.port
  <2>1. PortAt(a) + 1 = h + n + 2
    BY <1>1, <1>2, <1>3
  <2>2. r.port \in Nat /\ r.port < 65536
    BY DEF InParts
  <2>3. QED
    <3>1. Port(r.port \div 256, r.port % 256) = r.port
      BY <2>2, PortBytes
    <3>2. QED
      BY ONLY <1>1, <1>3, <2>1, <3>1, ZenonT(40)
<1>6. String(a) = Target(r)
  <2>1. (IF a[1] = ATYPDomain THEN 3 ELSE 2) = h + 1 /\ PortAt(a) - 1 = h + n
    BY <1>1, <1>2, <1>3
  <2>2. String(a) = Text(IF a[1] = ATYPDomain THEN "name" ELSE "ip",
                         SubSeq(a, h + 1, h + n), Port(a[PortAt(a)], a[PortAt(a) + 1]))
    BY ONLY <2>1 DEF String
  <2>3. QED
    BY ONLY <1>1, <1>4, <1>5, <2>2 DEF Target
<1>7. QED
  BY <1>1, <1>2, <1>3, <1>6

(* What a UDP client is told is the proxy's address, whatever follows it.  *)
LEMMA RoundTrip ==
  ASSUME NEW d \in Str
  PROVE  /\ ParseAddr(LocalAddr) \in Str
         /\ LET told == SplitAddr(ParseAddr(LocalAddr) \o d)
            IN  told # nil /\ String(told) = LocalAddr
<1>. DEFINE r == [atyp |-> IF Len(LocalAddr.host) = IPv4len THEN ATYPIPv4 ELSE ATYPIPv6,
                  host |-> LocalAddr.host, port |-> LocalAddr.port]
            a == AddrOf(r)
            b == Cat(a, d)
<1>0. /\ LocalAddr = [kind |-> "ip", host |-> LocalAddr.host, port |-> LocalAddr.port]
      /\ To4(LocalAddr.host) = LocalAddr.host
  BY LocalAssumption
<1>1. /\ LocalAddr.host \in Seq(Byte) /\ Len(LocalAddr.host) \in {IPv4len, IPv6len}
      /\ LocalAddr.port \in Nat /\ LocalAddr.port < 65536
      /\ IPv4len \in Byte /\ IPv6len \in Byte
  BY LocalAssumption, AddrAssumption
<1>2. InParts(r) /\ r.atyp \in {ATYPIPv4, ATYPIPv6}
  <2>1. r.host = LocalAddr.host /\ r.port = LocalAddr.port
    OBVIOUS
  <2>2. r.atyp = IF Len(LocalAddr.host) = IPv4len THEN ATYPIPv4 ELSE ATYPIPv6
    OBVIOUS
  <2>. HIDE DEF r
  <2>3. ATYPIPv4 \in Byte /\ ATYPIPv6 \in Byte /\ ATYPIPv4 # ATYPIPv6
    BY DEF ATYPIPv4, ATYPIPv6, Byte
  <2>4. /\ r.atyp \in {ATYPIPv4, ATYPIPv6}
        /\ r.atyp = ATYPIPv4 => Len(r.host) = IPv4len
        /\ r.atyp = ATYPIPv6 => Len(r.host) = IPv6len
        /\ Len(r.host) \in Byte
    BY <1>1, <2>1, <2>2, <2>3
  <2>5. QED
    BY <1>1, <2>1, <2>3, <2>4 DEF InParts
<1>3. ParseAddr(LocalAddr) = a
  <2>1. LocalAddr.kind = "ip"
    BY <1>0
  <2>2. ~(Len(LocalAddr.host) > 255 \/ LocalAddr.port >= 65536)
    BY <1>1, SMTT(20) DEF Byte
  <2>3. r.atyp # ATYPDomain
    BY <1>2 DEF ATYPDomain, ATYPIPv4, ATYPIPv6
  <2>4. a = <<r.atyp>> \o r.host \o <<r.port \div 256, r.port % 256>>
    BY <2>3 DEF AddrOf
  <2>5. /\ r.host = LocalAddr.host /\ r.port = LocalAddr.port
        /\ r.atyp = IF Len(LocalAddr.host) = IPv4len THEN ATYPIPv4 ELSE ATYPIPv6
    OBVIOUS
  <2>. HIDE DEF r, a
  <2>6. CASE Len(LocalAddr.host) = IPv4len
    <3>1. a = <<ATYPIPv4>> \o LocalAddr.host
                \o <<LocalAddr.port \div 256, LocalAddr.port % 256>>
      BY ONLY <2>4, <2>5, <2>6
    <3>2. QED
      BY ONLY <2>1, <2>2, <2>6, <3>1, SMTT(30) DEF ParseAddr
  <2>7. CASE Len(LocalAddr.host) # IPv4len
    <3>1. a = <<ATYPIPv6>> \o LocalAddr.host
                \o <<LocalAddr.port \div 256, LocalAddr.port % 256>>
      BY ONLY <2>4, <2>5, <2>7
    <3>2. QED
      BY ONLY <2>1, <2>2, <2>7, <3>1, SMTT(30) DEF ParseAddr
  <2>8. QED
    BY <2>6, <2>7
<1>4. /\ String(a) = LocalAddr /\ PortAt(a) + 1 = Len(a)
  <2>1. String(a) = Target(r) /\ PortAt(a) + 1 = Len(a)
    BY <1>2, Decode
  <2>2. Target(r) = Text("ip", LocalAddr.host, LocalAddr.port)
    BY <1>2 DEF Target, ATYPDomain, ATYPIPv4, ATYPIPv6
  <2>3. QED
    BY <1>0, <2>1, <2>2 DEF Text
<1>5. /\ a \in Str /\ a[1] = r.atyp /\ Len(a) \in Nat /\ Len(a) >= 3
  <2>1. r.atyp # ATYPDomain
    BY <1>2 DEF ATYPDomain, ATYPIPv4, ATYPIPv6
  <2>. HIDE DEF r
  <2>2. a \in Str /\ a[1] = r.atyp /\ Len(a) = 1 + Len(r.host) + 2 /\ Len(r.host) \in Nat
    BY <1>2, <2>1, AddrBytes
  <2>3. QED
    BY <2>2
<1>. HIDE DEF r, a
<1>6. /\ b \in Str /\ Len(b) = Len(a) + Len(d) /\ Len(d) \in Nat
      /\ \A j \in 1 .. Len(a) : b[j] = a[j]
  BY <1>5, CatLaws
<1>. HIDE DEF b
<1>7. b[1] = r.atyp /\ b # << >>
  <2>1. b[1] = r.atyp /\ Len(b) # 0
    BY <1>5, <1>6
  <2>2. QED
    BY <2>1, EmptySeq
<1>8. PortAt(b) = PortAt(a)
  BY <1>2, <1>5, <1>7 DEF PortAt, ATYPDomain, ATYPIPv4, ATYPIPv6
<1>9. SplitAddr(b) = SubSeq(b, 1, Len(a))
  <2>1. ~(Len(b) < PortAt(b) + 1)
    BY <1>4, <1>5, <1>6, <1>8
  <2>2. QED
    BY <1>2, <1>4, <1>7, <1>8, <2>1 DEF SplitAddr, ATYPDomain, ATYPIPv4, ATYPIPv6
<1>10. SubSeq(b, 1, Len(a)) = a
  <2>1. \A i \in 1 .. Len(a) : b[i] \in Byte
    BY <1>5, <1>6, ElementOfSeq DEF Str
  <2>. DEFINE t == SubSeq(b, 1, Len(a))
  <2>2. t \in Seq(Byte) /\ Len(t) = Len(a) /\ \A i \in 1 .. Len(a) : t[i] = b[i]
    BY <1>5, <2>1, SubSeqProperties
  <2>. HIDE DEF t
  <2>3. t = a
    BY <1>5, <1>6, <2>2, SeqEqual DEF Str
  <2>4. QED
    BY <2>3 DEF t
<1>11. SplitAddr(ParseAddr(LocalAddr) \o d) = a
  BY ONLY <1>3, <1>9, <1>10 DEF b, Cat
<1>12. a # nil
  BY <1>5, EmptySeq DEF nil
<1>13. ParseAddr(LocalAddr) \in Str
  BY <1>3, <1>5
<1>14. QED
  BY <1>4, <1>11, <1>12, <1>13

-----------------------------------------------------------------------------
(* readAddr, for either side: i is what it can read.                       *)

(* What it finds in the bytes of a request.                                *)
LEMMA Found ==
  ASSUME NEW r \in Requests
  PROVE  /\ BytesOf(r) \in Str /\ AddrOf(r) \in Str
         /\ AddrAt(r) \in Nat /\ Len(AddrOf(r)) \in Nat /\ DataAt(r) \in Nat
         /\ Len(r.methods) \in Nat
         /\ AddrAt(r) = 5 + Len(r.methods) /\ DataAt(r) = AddrAt(r) + Len(AddrOf(r))
         /\ BytesOf(r)[AddrAt(r) + 1] = r.atyp
         /\ r.atyp = ATYPDomain => Len(AddrOf(r)) = 4 + BytesOf(r)[AddrAt(r) + 2]
         /\ r.atyp = ATYPIPv4 => Len(AddrOf(r)) = 3 + IPv4len
         /\ r.atyp = ATYPIPv6 => Len(AddrOf(r)) = 3 + IPv6len
<1>. DEFINE b == BytesOf(r)
            a == AddrOf(r)
            h == IF r.atyp = ATYPDomain THEN 2 ELSE 1
<1>1. InParts(r) /\ Len(r.methods) \in Nat
  <2>1. InParts(r)
    BY RequestAssumption, SMTT(30) DEF InParts
  <2>2. Len(r.methods) \in Byte
    BY RequestAssumption
  <2>3. QED
    BY <2>1, <2>2 DEF Byte
<1>2. /\ a \in Str /\ a[1] = r.atyp /\ Len(a) = h + Len(r.host) + 2
      /\ Len(r.host) \in Nat /\ (r.atyp = ATYPDomain => a[2] = Len(r.host))
  BY <1>1, AddrBytes
<1>3. b \in Str /\ Lies(a, b, AddrAt(r))
  BY Layout
<1>4. /\ r.atyp = ATYPIPv4 => Len(r.host) = IPv4len
      /\ r.atyp = ATYPIPv6 => Len(r.host) = IPv6len
  BY <1>1 DEF InParts
<1>a. h \in {1, 2} /\ (r.atyp = ATYPDomain => h = 2) /\ (r.atyp # ATYPDomain => h = 1)
  OBVIOUS
<1>. HIDE DEF a, b, h
<1>5. Len(a) \in Nat /\ 1 \in 1 .. Len(a) /\ 2 \in 1 .. Len(a)
  BY <1>2, <1>a
<1>6. b[AddrAt(r) + 1] = a[1] /\ b[AddrAt(r) + 2] = a[2]
  BY <1>3, <1>5 DEF Lies
<1>7. AddrAt(r) = 5 + Len(r.methods) /\ DataAt(r) = AddrAt(r) + Len(a)
  BY DEF AddrAt, DataAt, a
<1>8. /\ r.atyp = ATYPDomain => Len(a) = 4 + b[AddrAt(r) + 2]
      /\ r.atyp = ATYPIPv4 => Len(a) = 3 + IPv4len
      /\ r.atyp = ATYPIPv6 => Len(a) = 3 + IPv6len
  <2>1. ATYPIPv4 # ATYPDomain /\ ATYPIPv6 # ATYPDomain
    BY DEF ATYPDomain, ATYPIPv4, ATYPIPv6
  <2>2. QED
    BY <1>2, <1>4, <1>6, <1>a, <2>1
<1>9. QED
  BY <1>1, <1>2, <1>3, <1>5, <1>6, <1>7, <1>8 DEF a, b

(* The type decides how many bytes are left.                               *)
LEMMA TypeRead ==
  ASSUME NEW r \in Requests, NEW i, NEW k, NEW a, NEW n,
         Stands("atyp", k, a, r, n), Lies(i, BytesOf(r), n), Len(i) >= 1
  PROVE  /\ i[1] \in Byte
         /\ i[1] = ATYPDomain => \A j : Stands("alen", j, <<i[1]>>, r, n + 1)
         /\ i[1] = ATYPIPv4 => Stands("arest", IPv4len + 2, <<i[1]>>, r, n + 1)
         /\ i[1] = ATYPIPv6 => Stands("arest", IPv6len + 2, <<i[1]>>, r, n + 1)
<1>. DEFINE b == BytesOf(r)
            t == <<i[1]>>
<1>1. n = AddrAt(r)
  BY DEF Stands
<1>2. i \in Str /\ Len(i) \in Nat /\ i[1] = b[n + 1] /\ n + 1 <= Len(b)
      /\ Len(b) \in Nat /\ n \in Nat /\ b \in Str
  BY LenProperties DEF Lies, Str
<1>3. i[1] \in Byte
  BY <1>2, ElementOfSeq DEF Str
<1>4. t \in Str /\ Len(t) = 1 /\ t[1] = i[1]
  BY <1>3 DEF Str
<1>. HIDE DEF b, t
<1>5. Lies(t, b, n)
  BY <1>2, <1>4 DEF Lies, Str
<1>6. i[1] = r.atyp
  BY <1>1, <1>2, Found DEF b
<1>7. ASSUME NEW j, i[1] = ATYPDomain PROVE Stands("alen", j, t, r, n + 1)
  BY <1>1, <1>4, <1>5, <1>6, <1>7 DEF Stands, b
<1>8. ASSUME i[1] = ATYPIPv4 PROVE Stands("arest", IPv4len + 2, t, r, n + 1)
  <2>1. Len(t) + (IPv4len + 2) = Len(AddrOf(r))
    <3>1. Len(AddrOf(r)) = 3 + IPv4len /\ IPv4len \in Nat
      BY <1>6, <1>8, Found, AddrAssumption, ByteIsNat
    <3>2. QED
      BY <1>4, <3>1
  <2>2. QED
    BY <1>1, <1>4, <1>5, <1>6, <1>8, <2>1 DEF Stands, b
<1>9. ASSUME i[1] = ATYPIPv6 PROVE Stands("arest", IPv6len + 2, t, r, n + 1)
  <2>1. Len(t) + (IPv6len + 2) = Len(AddrOf(r))
    <3>1. Len(AddrOf(r)) = 3 + IPv6len /\ IPv6len \in Nat
      BY <1>6, <1>9, Found, AddrAssumption, ByteIsNat
    <3>2. QED
      BY <1>4, <3>1
  <2>2. QED
    BY <1>1, <1>4, <1>5, <1>6, <1>9, <2>1 DEF Stands, b
<1>10. QED
  BY <1>3, <1>7, <1>8, <1>9 DEF t

(* So does the length of a domain.                                         *)
LEMMA LengthRead ==
  ASSUME NEW r \in Requests, NEW i, NEW k, NEW a, NEW n,
         Stands("alen", k, a, r, n), Lies(i, BytesOf(r), n), Len(i) >= 1
  PROVE  /\ i[1] \in Byte /\ Append(a, i[1]) \in Str
         /\ Stands("arest", DomainRest(i[1]), Append(a, i[1]), r, n + 1)
<1>. DEFINE b == BytesOf(r)
            t == Append(a, i[1])
<1>1. n = AddrAt(r) + 1 /\ r.atyp = ATYPDomain /\ Len(a) = 1 /\ Lies(a, b, AddrAt(r))
  BY DEF Stands
<1>2. i \in Str /\ Len(i) \in Nat /\ i[1] = b[n + 1] /\ n + 1 <= Len(b)
      /\ Len(b) \in Nat /\ n \in Nat /\ b \in Str
  BY LenProperties DEF Lies, Str
<1>3. i[1] \in Byte
  BY <1>2, ElementOfSeq DEF Str
<1>4. a \in Seq(Byte) /\ a[1] = b[AddrAt(r) + 1]
  BY <1>1 DEF Lies
<1>5. t \in Str /\ Len(t) = 2 /\ t[1] = a[1] /\ t[2] = i[1]
  <2>1. t \in Seq(Byte) /\ Len(t) = Len(a) + 1 /\ t[Len(a) + 1] = i[1]
    BY <1>3, <1>4, AppendProperties
  <2>2. \A j \in 1 .. Len(a) : t[j] = a[j]
    BY <1>3, <1>4, AppendProperties
  <2>. HIDE DEF t
  <2>3. QED
    BY <1>1, <2>1, <2>2 DEF Str
<1>. HIDE DEF b, t
<1>6. AddrAt(r) \in Nat /\ Len(AddrOf(r)) = 4 + b[AddrAt(r) + 2] /\ Len(AddrOf(r)) \in Nat
  BY <1>1, Found DEF b
<1>7. Lies(t, b, AddrAt(r))
  <2>1. \A j \in 1 .. 2 : t[j] = b[AddrAt(r) + j]
    BY <1>1, <1>2, <1>4, <1>5, <1>6
  <2>2. QED
    BY <1>1, <1>2, <1>5, <1>6, <2>1 DEF Lies, Str
<1>8. Len(t) + DomainRest(i[1]) = Len(AddrOf(r))
  <2>1. AddrAt(r) + 2 = n + 1 /\ i[1] \in Nat
    BY <1>1, <1>3, <1>6, ByteIsNat
  <2>2. QED
    BY <1>2, <1>5, <1>6, <2>1 DEF DomainRest
<1>9. Stands("arest", DomainRest(i[1]), t, r, n + 1)
  BY <1>1, <1>5, <1>6, <1>7, <1>8 DEF Stands, b
<1>10. QED
  BY <1>3, <1>5, <1>9 DEF t

(* And what was left completes the address.                                *)
LEMMA RestRead ==
  ASSUME NEW r \in Requests, NEW i, NEW k \in Nat, NEW a, NEW n,
         Stands("arest", k, a, r, n), Lies(i, BytesOf(r), n), Len(i) >= k
  PROVE  a \o SubSeq(i, 1, k) = AddrOf(r) /\ n + k = DataAt(r)
<1>. DEFINE b == BytesOf(r)
            t == SubSeq(i, 1, k)
<1>1. /\ n = AddrAt(r) + Len(a) /\ Len(a) + k = Len(AddrOf(r))
      /\ Lies(a, b, AddrAt(r))
  BY DEF Stands
<1>2. k \in 0 .. Len(i)
  BY LenProperties DEF Lies
<1>3. Lies(t, b, n) /\ Len(t) = k
  BY <1>2, Eat
<1>. HIDE DEF b, t
<1>4. Lies(a \o t, b, AddrAt(r)) /\ Len(a \o t) = Len(AddrOf(r))
  BY <1>1, <1>3, Join
<1>5. Lies(AddrOf(r), b, AddrAt(r))
  BY Layout DEF b
<1>6. a \o t = AddrOf(r)
  BY <1>4, <1>5, Same
<1>7. n + k = DataAt(r)
  <2>1. Len(a) \in Nat
    BY <1>1, LenProperties DEF Lies
  <2>2. QED
    BY <1>1, <2>1, Found
<1>8. QED
  BY <1>6, <1>7 DEF t

-----------------------------------------------------------------------------
(* The stages of the two handlers, by action.                              *)

(* Stages depends on the control of the handlers and on what has not       *)
(* begun.                                                                  *)
LEMMA StagesStep ==
  ASSUME Inv, [Next]_vars
  PROVE  Stages'
<1>0. /\ pc \in [Sides -> Reading \union {"none", "choose", "answer", "drain", "dial",
                                         "send", "relay", "closed"}]
      /\ in \in [Sides -> Str] /\ reqNum \in [Sides -> 0 .. 2]
  BY DEF Inv, TypeOK, Str
<1>. USE DEF Stages, Active, Early, Reading, Sides
<1>1. ASSUME NEW n \in 1 .. Len(script), ClientSend(n) PROVE Stages'
  BY <1>0, <1>1 DEF Inv, ClientSend, far
<1>2. ASSUME NEW s \in Sides, NEW how \in {"eof", "reset"}, StreamEnd(s, how) PROVE Stages'
  BY <1>0, <1>2 DEF Inv, StreamEnd, far
<1>3. ASSUME ReadGreeting PROVE Stages'
  BY <1>0, <1>3 DEF Inv, ReadGreeting, far, stream, Goto, ReadFull
<1>4. ASSUME ReadMethods PROVE Stages'
  BY <1>0, <1>4 DEF Inv, ReadMethods, far, stream, Goto, ReadFull
<1>5. ASSUME ChooseMethod PROVE Stages'
  BY <1>0, <1>5 DEF Inv, ChooseMethod, far, stream, Goto, Tell
<1>6. ASSUME ReadRequest PROVE Stages'
  BY <1>0, <1>6 DEF Inv, ReadRequest, far, stream, Goto, ReadFull
<1>7. ASSUME AnswerRequest PROVE Stages'
  BY <1>0, <1>7 DEF Inv, AnswerRequest, far, stream, Goto, Tell
<1>8. ASSUME SendAddr PROVE Stages'
  BY <1>0, <1>8 DEF Inv, SendAddr, far, stream, Goto
<1>9. ASSUME SendAddrFail PROVE Stages'
  BY <1>0, <1>9 DEF Inv, SendAddrFail, far, stream, Goto, Return
<1>10. ASSUME Undecipherable PROVE Stages'
  BY <1>0, <1>10 DEF Inv, Undecipherable, far, stream, Goto
<1>11. ASSUME NEW s \in Sides, Refuse(s) PROVE Stages'
  BY <1>0, <1>11 DEF Inv, Refuse, far, stream, Goto
<1>12. ASSUME NEW s \in Sides, ReadType(s) PROVE Stages'
  BY <1>0, <1>12 DEF Inv, ReadType, far, stream, Goto, ReadFull
<1>13. ASSUME NEW s \in Sides, ReadDomainLength(s) PROVE Stages'
  BY <1>0, <1>13 DEF Inv, ReadDomainLength, far, stream, Goto, ReadFull
<1>14. ASSUME NEW s \in Sides, ReadRest(s) PROVE Stages'
  BY <1>0, <1>14 DEF Inv, ReadRest, far, stream, Goto, ReadFull
<1>15. ASSUME NEW s \in Sides, Drain(s) PROVE Stages'
  BY <1>0, <1>15 DEF Inv, Drain, far, stream, Goto
<1>16. ASSUME NEW s \in Sides, DrainEnd(s) PROVE Stages'
  BY <1>0, <1>16 DEF Inv, DrainEnd, far, stream, Goto, Return
<1>17. ASSUME NEW s \in Sides, DialFail(s) PROVE Stages'
  BY <1>0, <1>17 DEF Inv, DialFail, far, stream, Goto, Return
<1>18. ASSUME DialRemote PROVE Stages'
  BY <1>0, <1>18 DEF Inv, DialRemote, far, stream, Goto, Accept
<1>19. ASSUME DialTarget PROVE Stages'
  BY <1>0, <1>19 DEF Inv, DialTarget, far, stream, Goto
<1>20. ASSUME NEW s \in Sides, RelayEnd(s) PROVE Stages'
  BY <1>0, <1>20 DEF Inv, RelayEnd, far, stream, Goto, Return
<1>p. ASSUME NEW s \in Sides, PeerStall(s) PROVE Stages'
  BY <1>0, <1>p DEF Inv, PeerStall, far, stream
<1>21. ASSUME NEW s \in Sides, NEW n \in 1 .. Len(in[s]), Forward(s, n) PROVE Stages'
  BY <1>0, <1>21 DEF Inv, Forward, far, stream, Goto
<1>22. ASSUME UNCHANGED vars PROVE Stages'
  BY <1>0, <1>22 DEF Inv, vars
<1>23. QED
  BY <1>1, <1>2, <1>3, <1>4, <1>5, <1>6, <1>7, <1>8, <1>9, <1>10, <1>11,
     <1>12, <1>13, <1>14, <1>15, <1>16, <1>17, <1>18, <1>19, <1>20, <1>21,
     <1>22, <1>p
     DEF Next, Handler, HandShake

(* What comes of taking bytes apart and putting them together.             *)
LEMMA Parts ==
  /\ \A s \in Str : Len(s) \in Nat /\ \A i \in 1 .. Len(s) : s[i] \in Byte
  /\ \A s \in Str : \A n \in 0 .. Len(s) :
       SubSeq(s, 1, n) \in Str /\ SubSeq(s, n + 1, Len(s)) \in Str
  /\ \A s, t \in Str : s \o t \in Str
  /\ << >> \in Str
<1>1. \A s \in Str : Len(s) \in Nat /\ \A i \in 1 .. Len(s) : s[i] \in Byte
  BY LenProperties, ElementOfSeq DEF Str
<1>2. ASSUME NEW s \in Str, NEW n \in 0 .. Len(s)
      PROVE  SubSeq(s, 1, n) \in Str /\ SubSeq(s, n + 1, Len(s)) \in Str
  <2>1. n \in Int /\ n + 1 \in Int /\ Len(s) \in Int
    BY <1>1
  <2>2. (\A i \in 1 .. n : s[i] \in Byte) /\ \A i \in n + 1 .. Len(s) : s[i] \in Byte
    BY <1>1
  <2>3. QED
    BY <2>1, <2>2, SubSeqProperties DEF Str
<1>3. \A s, t \in Str : s \o t \in Str
  BY ConcatProperties DEF Str
<1>4. << >> \in Str
  BY EmptySeq DEF Str
<1>5. QED
  BY <1>1, <1>2, <1>3, <1>4

(* The kinds of the variables, by action.                                  *)
Stage == Reading \union {"none", "choose", "answer", "drain", "dial", "send", "relay",
                        "closed"}
Answers == {"method", "success", "udp"} \X Str

Kinds ==
  /\ UDPEnabled \in BOOLEAN /\ req \in Requests
  /\ script \in Str /\ in \in [Sides -> Str] /\ out \in Str
  /\ end \in [Sides -> {"open", "eof", "reset"}]
  /\ pc \in [Sides -> Stage]
  /\ need \in [Sides -> 0 .. 257] /\ cmd \in Byte
  /\ addr \in [Sides -> Str] /\ replies \in Seq(Answers)
  /\ reqNum \in [Sides -> 0 .. 2] /\ reqNum["local"] = 1
  /\ stall \in [Sides -> BOOLEAN]

(* Kinds is TypeOK in terms of these sets, now and in the next state.      *)
LEMMA KindsAreTypes == (TypeOK <=> Kinds) /\ (TypeOK' <=> Kinds')
BY DEF TypeOK, Kinds, Str, Answers, Stage

(* io.ReadFull takes bytes, and leaves the rest.                           *)
LEMMA ReadKinds ==
  ASSUME Kinds, NEW s \in Sides, NEW k \in Nat, ReadFull(s, k)
  PROVE  /\ in' \in [Sides -> Str] /\ script' = script /\ end' = end
         /\ \A i \in 1 .. k : in[s][i] \in Byte
         /\ SubSeq(in[s], 1, k) \in Str
<1>1. in[s] \in Str /\ Len(in[s]) >= k
  BY DEF Kinds, ReadFull
<1>2. Len(in[s]) \in Nat /\ k \in 0 .. Len(in[s])
  BY <1>1, Parts
<1>3. SubSeq(in[s], k + 1, Len(in[s])) \in Str /\ SubSeq(in[s], 1, k) \in Str
  BY <1>1, <1>2, Parts
<1>4. \A i \in 1 .. k : in[s][i] \in Byte
  BY <1>1, <1>2, Parts
<1>5. in' = [in EXCEPT ![s] = SubSeq(in[s], k + 1, Len(in[s]))]
  BY DEF ReadFull
<1>6. in' \in [Sides -> Str]
  BY <1>3, <1>5 DEF Kinds
<1>7. QED
  BY <1>3, <1>4, <1>6 DEF ReadFull

(* A handler that goes on, tells the client or returns.                    *)
LEMMA GotoKinds ==
  ASSUME Kinds, NEW s \in Sides, NEW next \in Stage, Goto(s, next)
  PROVE  pc' \in [Sides -> Stage]
BY DEF Kinds, Goto

(* A reply, or the failure to send it.                                     *)
LEMMA TellKinds ==
  ASSUME Kinds, NEW next \in Stage, NEW reply \in Answers, Tell(reply, next)
  PROVE  Kinds'
<1>1. "drain" \in Stage /\ "local" \in Sides
  BY DEF Stage, Sides
<1>2. Append(replies, reply) \in Seq(Answers)
  BY AppendProperties DEF Kinds
<1>3. pc' \in [Sides -> Stage] /\ replies' \in Seq(Answers)
  BY <1>1, <1>2, GotoKinds DEF Tell, Kinds
<1>4. QED
  BY <1>3 DEF Tell, Kinds, stream, far

(* A handler that returns closes its connections.                          *)
LEMMA ReturnKinds ==
  ASSUME Kinds, NEW s \in Sides, Return(s)
  PROVE  Kinds'
<1>1. "closed" \in Stage /\ "server" \in Sides
  BY DEF Stage, Sides
<1>2. pc' \in [Sides -> Stage]
  BY <1>1, GotoKinds DEF Return
<1>3. in' \in [Sides -> Str] /\ end' \in [Sides -> {"open", "eof", "reset"}]
  <2>1. CASE s = "server" /\ UNCHANGED <<in, end>>
    BY <2>1 DEF Kinds
  <2>2. CASE s = "local"
    <3>1. PICK n \in 0 .. Len(in["server"]) :
            in' = [in EXCEPT !["server"] = SubSeq(in["server"], 1, n)]
      BY <2>2 DEF Return
    <3>2. SubSeq(in["server"], 1, n) \in Str
      BY <1>1, Parts DEF Kinds
    <3>3. in' \in [Sides -> Str]
      BY <3>1, <3>2 DEF Kinds
    <3>4. end' \in [Sides -> {"open", "eof", "reset"}]
      BY <2>2 DEF Return, Kinds
    <3>5. QED
      BY <3>3, <3>4
  <2>3. QED
    BY <2>1, <2>2 DEF Return
<1>4. QED
  BY <1>2, <1>3 DEF Return, Kinds, far

(* What the client is told is an answer.                                   *)
LEMMA GoodAnswers ==
  /\ <<"method", nil>> \in Answers
  /\ <<"success", NoAddr>> \in Answers
  /\ <<"udp", ParseAddr(LocalAddr)>> \in Answers
<1>1. nil \in Str
  BY EmptySeq DEF nil, Str
<1>2. NoAddr \in Str
  <2>. DEFINE z == [i \in 1 .. IPv4len + 2 |-> 0]
  <2>1. 0 \in Byte /\ 1 \in Byte
    BY DEF Byte
  <2>2. IPv4len + 2 \in Nat
    BY AddrAssumption, ByteIsNat
  <2>3. z \in Seq(Byte)
    <3>1. z \in [1 .. IPv4len + 2 -> Byte]
      BY <2>1
    <3>2. QED
      BY <2>2, <3>1, SeqDef
  <2>4. <<ATYPIPv4>> \in Seq(Byte)
    BY <2>1 DEF ATYPIPv4
  <2>5. NoAddr = <<ATYPIPv4>> \o z
    BY DEF NoAddr
  <2>. HIDE DEF z
  <2>6. QED
    BY <2>3, <2>4, <2>5, Parts DEF Str
<1>3. ParseAddr(LocalAddr) \in Str
  BY Parts, RoundTrip
<1>4. QED
  BY <1>1, <1>2, <1>3 DEF Answers

(* No step of the system leaves the types.                                 *)
LEMMA TypeStep ==
  ASSUME Inv, [Next]_vars
  PROVE  TypeOK'
<1>a. Kinds
  BY KindsAreTypes DEF Inv
<1>b. SUFFICES Kinds'
  BY KindsAreTypes
<1>. USE <1>a
<1>1. ASSUME NEW n \in 1 .. Len(script), ClientSend(n) PROVE Kinds'
  <2>1. n \in 0 .. Len(script) /\ in["local"] \in Str /\ script \in Str
    BY <1>1, Parts DEF Kinds, Sides
  <2>2. SubSeq(script, 1, n) \in Str /\ SubSeq(script, n + 1, Len(script)) \in Str
    BY <2>1, Parts
  <2>3. in["local"] \o SubSeq(script, 1, n) \in Str
    BY <2>1, <2>2, Parts
  <2>4. in' \in [Sides -> Str] /\ script' \in Str
    BY <1>1, <2>2, <2>3 DEF ClientSend, Kinds
  <2>5. QED
    BY <1>1, <2>4 DEF ClientSend, Kinds, far
<1>2. ASSUME NEW s \in Sides, NEW how \in {"eof", "reset"}, StreamEnd(s, how) PROVE Kinds'
  BY <1>2 DEF StreamEnd, Kinds, far
<1>3. ASSUME ReadGreeting PROVE Kinds'
  <2>1. in' \in [Sides -> Str] /\ script' = script /\ end' = end /\ in["local"][2] \in Byte
    BY <1>3, ReadKinds DEF ReadGreeting, Sides
  <2>2. pc' \in [Sides -> Stage]
    BY <1>3, GotoKinds DEF ReadGreeting, Sides, Stage, Reading
  <2>3. in["local"][2] \in 0 .. 257
    BY <2>1 DEF Byte
  <2>4. need' \in [Sides -> 0 .. 257]
    BY <1>3, <2>3 DEF ReadGreeting, Kinds
  <2>5. QED
    BY <1>3, <2>1, <2>2, <2>4 DEF ReadGreeting, Kinds, far
<1>4. ASSUME ReadMethods PROVE Kinds'
  <2>0. need["local"] \in Nat
    <3>1. need \in [Sides -> 0 .. 257]
      BY DEF Kinds
    <3>2. QED
      BY ONLY <3>1 DEF Sides
  <2>1. in' \in [Sides -> Str] /\ script' = script /\ end' = end
    BY <1>4, <2>0, ReadKinds DEF ReadMethods, Sides
  <2>2. pc' \in [Sides -> Stage]
    BY <1>4, GotoKinds DEF ReadMethods, Sides, Stage
  <2>3. QED
    BY <1>4, <2>1, <2>2 DEF ReadMethods, Kinds, far
<1>5. ASSUME ChooseMethod PROVE Kinds'
  BY <1>5, TellKinds, GoodAnswers DEF ChooseMethod, Stage, Reading
<1>6. ASSUME ReadRequest PROVE Kinds'
  <2>1. in' \in [Sides -> Str] /\ script' = script /\ end' = end /\ in["local"][2] \in Byte
    BY <1>6, ReadKinds DEF ReadRequest, Sides
  <2>2. pc' \in [Sides -> Stage]
    BY <1>6, GotoKinds DEF ReadRequest, Sides, Stage, Reading
  <2>3. QED
    BY <1>6, <2>1, <2>2 DEF ReadRequest, Kinds, far
<1>7. ASSUME AnswerRequest PROVE Kinds'
  <2>1. "dial" \in Stage /\ "drain" \in Stage /\ "local" \in Sides
    BY DEF Stage, Sides
  <2>2. CASE Tell(<<"success", NoAddr>>, "dial")
    BY <2>1, <2>2, TellKinds, GoodAnswers
  <2>3. CASE Tell(<<"udp", ParseAddr(LocalAddr)>>, "drain")
    BY <2>1, <2>3, TellKinds, GoodAnswers
  <2>4. CASE /\ Goto("local", "drain")
             /\ UNCHANGED <<UDPEnabled, req, stream, need, cmd, addr, replies, far, reqNum,
                            stall>>
    BY <2>1, <2>4, GotoKinds DEF Kinds, stream, far
  <2>5. QED
    BY <1>7, <2>2, <2>3, <2>4 DEF AnswerRequest
<1>8. ASSUME SendAddr PROVE Kinds'
  <2>1. in["server"] \o addr["local"] \in Str
    BY Parts DEF Kinds, Sides
  <2>2. in' \in [Sides -> Str]
    BY <1>8, <2>1 DEF SendAddr, Kinds
  <2>3. pc' \in [Sides -> Stage]
    BY <1>8, GotoKinds DEF SendAddr, Sides, Stage
  <2>4. QED
    BY <1>8, <2>2, <2>3 DEF SendAddr, Kinds, far
<1>9. ASSUME SendAddrFail PROVE Kinds'
  BY <1>9, ReturnKinds DEF SendAddrFail, Sides
<1>10. ASSUME Undecipherable PROVE Kinds'
  BY <1>10, GotoKinds DEF Undecipherable, Kinds, stream, far, Stage, Sides
<1>11. ASSUME NEW s \in Sides, Refuse(s) PROVE Kinds'
  BY <1>11, GotoKinds DEF Refuse, Kinds, stream, far, Stage
<1>12. ASSUME NEW s \in Sides, ReadType(s) PROVE Kinds'
  <2>. DEFINE t == in[s][1]
              next == CASE t = ATYPDomain -> "alen"
                        [] t \in {ATYPIPv4, ATYPIPv6} -> "arest"
                        [] OTHER -> "drain"
  <2>1. in' \in [Sides -> Str] /\ script' = script /\ end' = end /\ t \in Byte
    BY <1>12, ReadKinds DEF ReadType
  <2>2. next \in Stage
    BY DEF Stage, Reading
  <2>3. pc' \in [Sides -> Stage]
    <3>1. Goto(s, next)
      BY <1>12 DEF ReadType
    <3>. HIDE DEF next
    <3>2. QED
      BY <2>2, <3>1, GotoKinds
  <2>. HIDE DEF t
  <2>4. addr' = [addr EXCEPT ![s] = <<t>>]
    BY <1>12 DEF ReadType, t
  <2>5. addr' \in [Sides -> Str]
    BY <2>1, <2>4 DEF Kinds, Str
  <2>6. need' = [need EXCEPT ![s] = IF t = ATYPIPv4 THEN IPv4len + 2 ELSE IPv6len + 2]
    BY <1>12 DEF ReadType, t
  <2>7. IPv4len + 2 \in 0 .. 257 /\ IPv6len + 2 \in 0 .. 257
    BY AddrAssumption DEF Byte
  <2>8. need' \in [Sides -> 0 .. 257]
    BY <2>6, <2>7 DEF Kinds
  <2>9. QED
    BY <1>12, <2>1, <2>3, <2>5, <2>8 DEF ReadType, Kinds, far
<1>13. ASSUME NEW s \in Sides, ReadDomainLength(s) PROVE Kinds'
  <2>1. in' \in [Sides -> Str] /\ script' = script /\ end' = end /\ in[s][1] \in Byte
    BY <1>13, ReadKinds DEF ReadDomainLength
  <2>2. pc' \in [Sides -> Stage]
    BY <1>13, GotoKinds DEF ReadDomainLength, Stage, Reading
  <2>3. Append(addr[s], in[s][1]) \in Str
    BY <2>1, AppendProperties DEF Kinds, Str
  <2>4. addr' \in [Sides -> Str]
    BY <1>13, <2>3 DEF ReadDomainLength, Kinds
  <2>5. DomainRest(in[s][1]) \in 0 .. 257
    BY <2>1 DEF DomainRest, Byte
  <2>6. need' \in [Sides -> 0 .. 257]
    BY <1>13, <2>5 DEF ReadDomainLength, Kinds
  <2>7. QED
    BY <1>13, <2>1, <2>2, <2>4, <2>6 DEF ReadDomainLength, Kinds, far
<1>14. ASSUME NEW s \in Sides, ReadRest(s) PROVE Kinds'
  <2>0. need[s] \in Nat
    <3>1. need \in [Sides -> 0 .. 257]
      BY DEF Kinds
    <3>2. QED
      BY ONLY <3>1, s \in Sides
  <2>1. /\ in' \in [Sides -> Str] /\ script' = script /\ end' = end
        /\ SubSeq(in[s], 1, need[s]) \in Str
    BY <1>14, <2>0, ReadKinds DEF ReadRest
  <2>2. (IF s = "local" THEN "answer" ELSE "dial") \in Stage
    BY DEF Stage
  <2>3. pc' \in [Sides -> Stage]
    BY <1>14, <2>2, GotoKinds DEF ReadRest
  <2>4. addr[s] \o SubSeq(in[s], 1, need[s]) \in Str
    BY <2>1, Parts DEF Kinds
  <2>5. addr' \in [Sides -> Str]
    BY <1>14, <2>4 DEF ReadRest, Kinds
  <2>6. QED
    BY <1>14, <2>1, <2>3, <2>5 DEF ReadRest, Kinds, far
<1>15. ASSUME NEW s \in Sides, Drain(s) PROVE Kinds'
  BY <1>15, Parts DEF Drain, Kinds, far
<1>16. ASSUME NEW s \in Sides, DrainEnd(s) PROVE Kinds'
  BY <1>16, ReturnKinds DEF DrainEnd
<1>17. ASSUME NEW s \in Sides, DialFail(s) PROVE Kinds'
  BY <1>17, ReturnKinds DEF DialFail
<1>18. ASSUME DialRemote PROVE Kinds'
  <2>1. pc["server"] = "none" /\ reqNum["server"] = 0
    BY <1>18 DEF DialRemote, Inv, Stages, Early
  <2>2. pc' \in [Sides -> Stage]
    BY <1>18 DEF DialRemote, Accept, Kinds, Stage, Reading, Sides
  <2>3. reqNum' \in [Sides -> 0 .. 2] /\ reqNum'["local"] = 1
    BY <1>18, <2>1 DEF DialRemote, Accept, Kinds, Sides
  <2>4. QED
    BY <1>18, <2>2, <2>3 DEF DialRemote, Kinds, stream, far
<1>19. ASSUME DialTarget PROVE Kinds'
  <2>1. reqNum["server"] = 1
    BY <1>19 DEF DialTarget, Inv, Stages, Active
  <2>2. pc' \in [Sides -> Stage]
    BY <1>19, GotoKinds DEF DialTarget, Stage, Sides
  <2>3. reqNum' \in [Sides -> 0 .. 2] /\ reqNum'["local"] = 1
    BY <1>19, <2>1 DEF DialTarget, Kinds, Sides
  <2>4. QED
    BY <1>19, <2>2, <2>3 DEF DialTarget, Kinds, stream
<1>20. ASSUME NEW s \in Sides, RelayEnd(s) PROVE Kinds'
  BY <1>20, ReturnKinds DEF RelayEnd
<1>p. ASSUME NEW s \in Sides, PeerStall(s) PROVE Kinds'
  <2>1. stall' \in [Sides -> BOOLEAN]
    BY <1>p, Zenon DEF PeerStall, Kinds
  <2>2. QED
    BY <1>p, <2>1 DEF PeerStall, Kinds, far, stream
<1>21. ASSUME NEW s \in Sides, NEW n \in 1 .. Len(in[s]), Forward(s, n) PROVE Kinds'
  <2>. DEFINE data == SubSeq(in[s], 1, n)
              rest == SubSeq(in[s], n + 1, Len(in[s]))
  <2>1. in[s] \in Str /\ n \in 0 .. Len(in[s])
    BY <1>21, Parts DEF Kinds
  <2>2. data \in Str /\ rest \in Str
    BY <2>1, Parts
  <2>3. in["server"] \o data \in Str /\ out \o data \in Str
    BY <2>2, Parts DEF Kinds, Sides
  <2>4. in' \in [Sides -> Str] /\ out' \in Str
    <3>1. \/ s = "local" /\ in' = [in EXCEPT !["local"] = rest, !["server"] = in["server"] \o data]
             /\ out' = out
          \/ in' = [in EXCEPT !["server"] = rest] /\ out' = out \o data
      BY <1>21 DEF Forward, Kinds, Sides
    <3>. HIDE DEF data, rest
    <3>2. QED
      BY <2>2, <2>3, <3>1, ZenonT(40) DEF Kinds, Sides
  <2>5. QED
    BY <1>21, <2>4 DEF Forward, Kinds
<1>22. ASSUME UNCHANGED vars PROVE Kinds'
  BY <1>22 DEF vars, Kinds
<1>23. QED
  BY <1>1, <1>2, <1>3, <1>4, <1>5, <1>6, <1>7, <1>8, <1>9, <1>10, <1>11,
     <1>12, <1>13, <1>14, <1>15, <1>16, <1>17, <1>18, <1>19, <1>20, <1>21,
     <1>22, <1>p
     DEF Next, Handler, HandShake

-----------------------------------------------------------------------------
(* What the client has asked for and been told, by action.                 *)

(* A reply is added behind the others, and they stay.                      *)
LEMMA Reply ==
  ASSUME Kinds, NEW x \in Answers, replies' = Append(replies, x)
  PROVE  /\ Len(replies) \in Nat /\ Len(replies') = Len(replies) + 1
         /\ DOMAIN replies' = DOMAIN replies \union {Len(replies) + 1}
         /\ \A i \in DOMAIN replies : replies'[i] = replies[i]
         /\ replies'[Len(replies) + 1] = x
<1>1. replies \in Seq(Answers) /\ Len(replies) \in Nat /\ DOMAIN replies = 1 .. Len(replies)
  BY LenProperties DEF Kinds
<1>. DEFINE t == Append(replies, x)
<1>2. /\ t \in Seq(Answers) /\ Len(t) = Len(replies) + 1 /\ t[Len(replies) + 1] = x
      /\ \A i \in 1 .. Len(replies) : t[i] = replies[i]
  BY <1>1, AppendProperties
<1>3. DOMAIN t = 1 .. Len(t)
  BY <1>2, LenProperties
<1>4. replies' = t
  OBVIOUS
<1>. HIDE DEF t
<1>5. 1 .. Len(t) = (1 .. Len(replies)) \union {Len(replies) + 1}
  BY <1>1, <1>2
<1>6. QED
  BY <1>1, <1>2, <1>3, <1>4, <1>5

(* The command is read from its place.                                     *)
LEMMA CommandRead ==
  ASSUME Inv, ReadRequest
  PROVE  cmd' = req.cmd
<1>1. PICK n \in Nat : Local(n)
  BY DEF Inv, Flow
<1>2. pc["local"] = "request" /\ req \in Requests /\ Len(in["local"]) >= 3
  BY DEF Inv, TypeOK, ReadRequest, ReadFull
<1>3. n = 2 + Len(req.methods) /\ Lies(in["local"], BytesOf(req), n)
  BY <1>1, <1>2 DEF Local, Stands
<1>4. Len(req.methods) \in Nat /\ BytesOf(req)[4 + Len(req.methods)] = req.cmd
  BY <1>2, Layout, ByteIsNat
<1>5. in["local"][2] = BytesOf(req)[n + 2]
  <2>1. 2 \in 1 .. Len(in["local"])
    BY <1>2, <1>3, LenProperties DEF Lies
  <2>2. QED
    BY <1>3, <2>1 DEF Lies
<1>6. n + 2 = 4 + Len(req.methods)
  BY <1>3, <1>4
<1>7. QED
  BY <1>4, <1>5, <1>6 DEF ReadRequest

(* Each step keeps what the client was told and what the server has        *)
(* dialled in agreement with the request.                                  *)
LEMMA ToldStep ==
  ASSUME Inv, [Next]_vars
  PROVE  Told'
<1>a. Kinds /\ pc \in [Sides -> Stage] /\ Told /\ Stages /\ req \in Requests
  BY KindsAreTypes DEF Inv, Kinds
<1>. USE DEF Told, Stages, Early, Active, Sides
<1>1. ASSUME NEW n \in 1 .. Len(script), ClientSend(n) PROVE Told'
  BY <1>a, <1>1 DEF ClientSend, far
<1>2. ASSUME NEW s \in Sides, NEW how \in {"eof", "reset"}, StreamEnd(s, how) PROVE Told'
  BY <1>a, <1>2 DEF StreamEnd, far
<1>3. ASSUME ReadGreeting PROVE Told'
  BY <1>a, <1>3 DEF ReadGreeting, far, stream, Goto, ReadFull
<1>4. ASSUME ReadMethods PROVE Told'
  BY <1>a, <1>4 DEF ReadMethods, far, stream, Goto, ReadFull
<1>5. ASSUME ChooseMethod PROVE Told'
  <2>1. CASE end["local"] = "reset"
    BY <1>a, <1>5, <2>1 DEF ChooseMethod, Tell, Goto, far, stream
  <2>2. CASE end["local"] # "reset"
    <3>. DEFINE x == <<"method", nil>>
    <3>1. replies' = Append(replies, x) /\ x \in Answers /\ x[1] # "udp"
      BY <1>5, <2>2, GoodAnswers DEF ChooseMethod, Tell
    <3>. HIDE DEF x
    <3>2. replies = << >> /\ Len(<< >>) = 0
      BY <1>a, <1>5, EmptySeq DEF ChooseMethod
    <3>3. /\ Len(replies') = 1
          /\ \A j \in DOMAIN replies' : replies'[j][1] = "udp" => replies'[j][2] = ParseAddr(LocalAddr)
      BY <1>a, <3>1, <3>2, Reply
    <3>4. QED
      BY <1>a, <1>5, <2>2, <3>3 DEF ChooseMethod, Tell, Goto, far, stream
  <2>3. QED
    BY <2>1, <2>2
<1>6. ASSUME ReadRequest PROVE Told'
  BY <1>a, <1>6, CommandRead DEF ReadRequest, far, stream, Goto, ReadFull
<1>7. ASSUME AnswerRequest PROVE Told'
  <2>1. CASE end["local"] = "reset" \/ replies' = replies
    BY <1>a, <1>7, <2>1 DEF AnswerRequest, Tell, Goto, far, stream
  <2>2. CASE cmd = CmdConnect /\ end["local"] # "reset"
    <3>. DEFINE x == <<"success", NoAddr>>
    <3>1. replies' = Append(replies, x) /\ x \in Answers /\ x[1] # "udp"
      BY <1>7, <2>2, GoodAnswers DEF AnswerRequest, Tell, CmdConnect, CmdUDP
    <3>. HIDE DEF x
    <3>2. /\ Len(replies') = 2
          /\ \A j \in DOMAIN replies' : replies'[j][1] = "udp" => replies'[j][2] = ParseAddr(LocalAddr)
      <4>1. Len(replies) = 1
        BY <1>a, <1>7 DEF AnswerRequest
      <4>2. QED
        BY <1>a, <3>1, <4>1, Reply
    <3>3. QED
      BY <1>a, <1>7, <2>2, <3>2 DEF AnswerRequest, Tell, Goto, far, stream, CmdConnect, CmdUDP
  <2>3. CASE cmd = CmdUDP /\ UDPEnabled /\ end["local"] # "reset"
    <3>. DEFINE x == <<"udp", ParseAddr(LocalAddr)>>
    <3>1. replies' = Append(replies, x) /\ x \in Answers /\ x[2] = ParseAddr(LocalAddr)
      BY <1>7, <2>3, GoodAnswers DEF AnswerRequest, Tell, CmdConnect, CmdUDP
    <3>. HIDE DEF x
    <3>2. \A j \in DOMAIN replies' : replies'[j][1] = "udp" => replies'[j][2] = ParseAddr(LocalAddr)
      BY <1>a, <3>1, Reply
    <3>3. QED
      BY <1>a, <1>7, <2>3, <3>2 DEF AnswerRequest, Tell, Goto, far, stream, CmdConnect, CmdUDP
  <2>4. QED
    BY <1>7, <2>1, <2>2, <2>3 DEF AnswerRequest
<1>8. ASSUME SendAddr PROVE Told'
  BY <1>a, <1>8 DEF SendAddr, far, stream, Goto
<1>9. ASSUME SendAddrFail PROVE Told'
  BY <1>a, <1>9 DEF SendAddrFail, far, stream, Goto, Return
<1>10. ASSUME Undecipherable PROVE Told'
  BY <1>a, <1>10 DEF Undecipherable, far, stream, Goto, Reading
<1>11. ASSUME NEW s \in Sides, Refuse(s) PROVE Told'
  BY <1>a, <1>11 DEF Refuse, far, stream, Goto, Reading
<1>12. ASSUME NEW s \in Sides, ReadType(s) PROVE Told'
  BY <1>a, <1>12 DEF ReadType, far, stream, Goto, ReadFull
<1>13. ASSUME NEW s \in Sides, ReadDomainLength(s) PROVE Told'
  BY <1>a, <1>13 DEF ReadDomainLength, far, stream, Goto, ReadFull
<1>14. ASSUME NEW s \in Sides, ReadRest(s) PROVE Told'
  BY <1>a, <1>14 DEF ReadRest, far, stream, Goto, ReadFull
<1>15. ASSUME NEW s \in Sides, Drain(s) PROVE Told'
  BY <1>a, <1>15 DEF Drain, far, stream, Goto
<1>16. ASSUME NEW s \in Sides, DrainEnd(s) PROVE Told'
  BY <1>a, <1>16 DEF DrainEnd, far, stream, Goto, Return
<1>17. ASSUME NEW s \in Sides, DialFail(s) PROVE Told'
  BY <1>a, <1>17 DEF DialFail, far, stream, Goto, Return
<1>18. ASSUME DialRemote PROVE Told'
  BY <1>a, <1>18 DEF DialRemote, far, stream, Goto, Accept
<1>19. ASSUME DialTarget PROVE Told'
  <2>1. addr["server"] = AddrOf(req) /\ req.atyp \in {ATYPIPv4, ATYPDomain, ATYPIPv6}
    BY <1>19 DEF DialTarget, Inv, Flow, Server, Stands
  <2>2. String(AddrOf(req)) = Target(req)
    <3>1. InParts(req)
      BY <1>a, RequestAssumption DEF InParts
    <3>2. QED
      BY <2>1, <3>1, Decode
  <2>3. QED
    BY <1>a, <1>19, <2>1, <2>2 DEF DialTarget, Goto, stream
<1>20. ASSUME NEW s \in Sides, RelayEnd(s) PROVE Told'
  BY <1>a, <1>20 DEF RelayEnd, far, stream, Goto, Return
<1>p. ASSUME NEW s \in Sides, PeerStall(s) PROVE Told'
  BY <1>a, <1>p DEF PeerStall, far, stream
<1>21. ASSUME NEW s \in Sides, NEW n \in 1 .. Len(in[s]), Forward(s, n) PROVE Told'
  BY <1>a, <1>21 DEF Forward, far, stream, Goto
<1>22. ASSUME UNCHANGED vars PROVE Told'
  BY <1>a, <1>22 DEF vars
<1>23. QED
  BY <1>1, <1>2, <1>3, <1>4, <1>5, <1>6, <1>7, <1>8, <1>9, <1>10, <1>11,
     <1>12, <1>13, <1>14, <1>15, <1>16, <1>17, <1>18, <1>19, <1>20, <1>21,
     <1>22, <1>p
     DEF Next, Handler, HandShake

-----------------------------------------------------------------------------
(* The flow of the request, by action.                                     *)

(* As long as the server is not at work, the local handler is all.         *)
LEMMA FlowAlone ==
  ASSUME NEW n \in Nat, Local(n)', pc'["server"] \notin Active
  PROVE  Flow'
<1>1. Server(0)' /\ Joined(n, 0)'
  BY DEF Server, Joined
<1>2. QED
  BY <1>1 DEF Flow

(* A local handler that has failed or closed needs to know no more.        *)
LEMMA FlowGone ==
  ASSUME NEW m \in Nat, Server(m)', pc'["local"] \in {"drain", "closed"}
  PROVE  Flow'
<1>1. Local(0)' /\ Joined(0, m)'
  BY DEF Local, Joined
<1>2. QED
  BY <1>1 DEF Flow

(* io.ReadFull of k bytes moves the reader k bytes on.                     *)
LEMMA Moved ==
  ASSUME Kinds, NEW s \in Sides, NEW k \in Nat, ReadFull(s, k),
         NEW n \in Nat, Lies(in[s], BytesOf(req), n)
  PROVE  /\ Lies(in'[s], BytesOf(req), n + k) /\ Len(in'[s]) = Len(in[s]) - k
         /\ Len(in[s]) \in Nat /\ Len(in[s]) >= k
         /\ \A t \in Sides : t # s => in'[t] = in[t]
<1>1. in[s] \in Str /\ Len(in[s]) >= k /\ in \in [Sides -> Str]
  BY DEF Kinds, ReadFull
<1>2. Len(in[s]) \in Nat /\ k \in 0 .. Len(in[s])
  BY <1>1, Parts
<1>. DEFINE t == SubSeq(in[s], k + 1, Len(in[s]))
<1>3. Lies(t, BytesOf(req), n + k) /\ Len(t) = Len(in[s]) - k
  <2>. DEFINE i == in[s]
              b == BytesOf(req)
  <2>1. Lies(i, b, n) /\ k \in 0 .. Len(i)
    BY <1>2
  <2>. HIDE DEF i, b
  <2>2. Lies(SubSeq(i, k + 1, Len(i)), b, n + k)
    BY ONLY <2>1, Eat
  <2>3. Len(SubSeq(i, k + 1, Len(i))) = Len(i) - k
    BY ONLY <2>1, Eat
  <2>4. QED
    BY <2>2, <2>3 DEF i, b
<1>4. in' = [in EXCEPT ![s] = t]
  BY DEF ReadFull
<1>. HIDE DEF t
<1>5. in'[s] = t /\ \A u \in Sides : u # s => in'[u] = in[u]
  BY <1>1, <1>4
<1>6. QED
  BY <1>1, <1>2, <1>3, <1>5

(* The local handler reads k bytes in the handshake and stands right.      *)
LEMMA LocalReads ==
  ASSUME Inv, NEW k \in Nat, ReadFull("local", k), pc["local"] \in Reading,
         NEW next \in Stage, Goto("local", next), req' = req,
         NEW n \in Nat, Local(n),
         next # "drain" =>
           Stands(next, need'["local"], addr'["local"], req, n + k)
  PROVE  Flow'
<1>1. Kinds /\ "local" \in Sides /\ "server" \in Sides /\ "local" # "server"
  BY KindsAreTypes DEF Inv, Sides
<1>2. pc["server"] = "none" /\ pc["local"] \notin {"drain", "closed"}
  BY DEF Inv, Stages, Early, Reading
<1>3. /\ Lies(in["local"], BytesOf(req), n)
      /\ Lies(script, BytesOf(req), n + Len(in["local"]))
      /\ n + Len(in["local"]) + Len(script) = Len(BytesOf(req))
  BY <1>2 DEF Local
<1>4. /\ Lies(in'["local"], BytesOf(req), n + k)
      /\ Len(in'["local"]) = Len(in["local"]) - k
      /\ Len(in["local"]) \in Nat
  BY <1>1, <1>3, Moved
<1>5. pc'["local"] = next /\ pc'["server"] = "none"
  BY <1>1, <1>2 DEF Goto, Kinds
<1>a. script' = script
  BY DEF ReadFull
<1>6. n + k + Len(in'["local"]) = n + Len(in["local"])
  <2>1. \A x \in Nat : n + k + (x - k) = n + x
    OBVIOUS
  <2>2. QED
    BY <1>4, <2>1
<1>7. Local(n + k)'
  <2>1. CASE next = "drain"
    BY <1>5, <2>1 DEF Local
  <2>2. CASE next # "drain"
    BY <1>3, <1>4, <1>5, <1>6, <1>a, <2>2 DEF Local
  <2>3. QED
    BY <2>1, <2>2
<1>8. QED
  BY <1>5, <1>7, FlowAlone DEF Active

(* The server's handler reads k bytes of the address and stands right.     *)
LEMMA ServerReads ==
  ASSUME Inv, NEW k \in Nat, ReadFull("server", k), pc["server"] = "atyp" => k = 1,
         pc["server"] \in {"atyp", "alen", "arest"},
         NEW next \in Stage, Goto("server", next), next # "relay",
         req' = req, addr'["local"] = addr["local"], need'["local"] = need["local"],
         NEW n \in Nat, NEW m \in Nat, Local(n), Server(m), Joined(n, m),
         next # "drain" =>
           Stands(next, need'["server"], addr'["server"], req, m + k)
  PROVE  Flow'
<1>1. Kinds /\ "local" \in Sides /\ "server" \in Sides /\ "local" # "server"
  BY KindsAreTypes DEF Inv, Sides
<1>2. Lies(in["server"], BytesOf(req), m)
  BY DEF Server, Active
<1>3. /\ Lies(in'["server"], BytesOf(req), m + k)
      /\ Len(in'["server"]) = Len(in["server"]) - k
      /\ Len(in["server"]) \in Nat /\ Len(in["server"]) >= k
      /\ in'["local"] = in["local"]
  BY <1>1, <1>2, Moved
<1>4. pc'["server"] = next /\ pc'["local"] = pc["local"] /\ script' = script
  BY <1>1 DEF Goto, Kinds, ReadFull
<1>5. Local(n)'
  BY <1>3, <1>4 DEF Local
<1>6. Server(m + k)'
  <2>1. CASE next = "drain"
    BY <1>4, <2>1 DEF Server, Active
  <2>2. CASE next # "drain"
    BY <1>3, <1>4, <2>2 DEF Server
  <2>3. QED
    BY <2>1, <2>2
<1>7. Joined(n, m + k)'
  <2>1. pc["local"] # "send"
    <3>1. Len(<< >>) = 0
      BY EmptySeq
    <3>2. QED
      BY <1>3, <3>1 DEF Joined, Active
  <2>2. pc["local"] = "relay" => n = m + k + Len(in'["server"])
    BY <1>3 DEF Joined, Active
  <2>3. QED
    BY <1>4, <2>1, <2>2 DEF Joined
<1>8. QED
  BY <1>5, <1>6, <1>7 DEF Flow

(* readAddr on either side.                                                *)
LEMMA FlowReadAddr ==
  ASSUME Inv, NEW s \in Sides, ReadType(s) \/ ReadDomainLength(s) \/ ReadRest(s)
  PROVE  Flow'
<1>1. Kinds /\ req \in Requests /\ req' = req /\ need[s] \in Nat
  <2>1. Kinds /\ req' = req
    BY KindsAreTypes DEF Inv, ReadType, ReadDomainLength, ReadRest
  <2>2. need \in [Sides -> 0 .. 257] /\ req \in Requests
    BY <2>1 DEF Kinds
  <2>3. need[s] \in Nat
    BY ONLY <2>2, s \in Sides
  <2>4. QED
    BY <2>1, <2>2, <2>3
<1>2. PICK n \in Nat, m \in Nat : Local(n) /\ Server(m) /\ Joined(n, m)
  BY DEF Inv, Flow
<1>. DEFINE at == IF s = "local" THEN n ELSE m
            p == pc[s]
<1>3. p \in {"atyp", "alen", "arest"}
  BY DEF ReadType, ReadDomainLength, ReadRest
<1>4. /\ Stands(p, need[s], addr[s], req, at) /\ Lies(in[s], BytesOf(req), at)
      /\ at \in Nat
  BY <1>2, <1>3 DEF Local, Server, Active, Sides
<1>5. \A t \in Sides : t # s => addr'[t] = addr[t] /\ need'[t] = need[t]
  BY <1>1 DEF Kinds, ReadType, ReadDomainLength, ReadRest
<1>6. \E k \in Nat, next \in Stage :
        /\ ReadFull(s, k) /\ (p = "atyp" => k = 1)
        /\ Goto(s, next) /\ next # "relay"
        /\ next # "drain" => Stands(next, need'[s], addr'[s], req, at + k)
  <2>. DEFINE i == in[s]
              k0 == need[s]
              a == addr[s]
  <2>1. CASE ReadType(s)
    <3>1. p = "atyp" /\ ReadFull(s, 1) /\ Len(i) >= 1
      BY <2>1 DEF ReadType, ReadFull
    <3>2. Stands("atyp", k0, a, req, at) /\ Lies(i, BytesOf(req), at)
      BY <1>4, <3>1
    <3>. DEFINE next == CASE i[1] = ATYPDomain -> "alen"
                          [] i[1] \in {ATYPIPv4, ATYPIPv6} -> "arest"
                          [] OTHER -> "drain"
    <3>3. Goto(s, next)
      BY <2>1 DEF ReadType
    <3>4. /\ addr'[s] = <<i[1]>>
          /\ need'[s] = IF i[1] = ATYPIPv4 THEN IPv4len + 2 ELSE IPv6len + 2
      BY <1>1, <2>1 DEF ReadType, Kinds
    <3>. HIDE DEF i, k0, a, at, p
    <3>5. /\ i[1] = ATYPDomain => \A j : Stands("alen", j, <<i[1]>>, req, at + 1)
          /\ i[1] = ATYPIPv4 => Stands("arest", IPv4len + 2, <<i[1]>>, req, at + 1)
          /\ i[1] = ATYPIPv6 => Stands("arest", IPv6len + 2, <<i[1]>>, req, at + 1)
      BY ONLY <1>1, <3>1, <3>2, TypeRead
    <3>6. next \in Stage /\ next # "relay"
      BY DEF Stage, Reading
    <3>7. next # "drain" => Stands(next, need'[s], addr'[s], req, at + 1)
      BY ONLY <3>4, <3>5 DEF ATYPDomain, ATYPIPv4, ATYPIPv6
    <3>. HIDE DEF next
    <3>8. QED
      BY ONLY <3>1, <3>3, <3>6, <3>7, 1 \in Nat
  <2>2. CASE ReadDomainLength(s)
    <3>1. p = "alen" /\ ReadFull(s, 1) /\ Len(i) >= 1 /\ Goto(s, "arest")
      BY <2>2 DEF ReadDomainLength, ReadFull
    <3>2. Stands("alen", k0, a, req, at) /\ Lies(i, BytesOf(req), at)
      BY <1>4, <3>1
    <3>3. addr'[s] = Append(a, i[1]) /\ need'[s] = DomainRest(i[1])
      BY <1>1, <2>2 DEF ReadDomainLength, Kinds
    <3>. HIDE DEF i, k0, a, at, p
    <3>4. Stands("arest", DomainRest(i[1]), Append(a, i[1]), req, at + 1)
      BY ONLY <1>1, <3>1, <3>2, LengthRead
    <3>5. Stands("arest", need'[s], addr'[s], req, at + 1)
      BY ONLY <3>3, <3>4
    <3>6. "arest" \in Stage /\ 1 \in Nat /\ p # "atyp"
      BY <3>1 DEF Stage, Reading
    <3>7. QED
      BY ONLY <3>1, <3>5, <3>6
  <2>3. CASE ReadRest(s)
    <3>. DEFINE next == IF s = "local" THEN "answer" ELSE "dial"
    <3>1. p = "arest" /\ ReadFull(s, k0) /\ Len(i) >= k0 /\ Goto(s, next) /\ k0 \in Nat
      BY <1>1, <2>3 DEF ReadRest, ReadFull
    <3>2. Stands("arest", k0, a, req, at) /\ Lies(i, BytesOf(req), at)
      BY <1>4, <3>1
    <3>3. addr'[s] = a \o SubSeq(i, 1, k0)
      BY <1>1, <2>3 DEF ReadRest, Kinds
    <3>4. next \in {"answer", "dial"}
      OBVIOUS
    <3>. HIDE DEF i, k0, a, at, p, next
    <3>5. a \o SubSeq(i, 1, k0) = AddrOf(req) /\ at + k0 = DataAt(req)
      BY ONLY <1>1, <3>1, <3>2, RestRead
    <3>6. Stands(next, need'[s], AddrOf(req), req, DataAt(req))
      BY ONLY <3>2, <3>4 DEF Stands
    <3>7. Stands(next, need'[s], addr'[s], req, at + k0)
      BY ONLY <3>3, <3>5, <3>6
    <3>8. next \in Stage /\ next # "relay" /\ p # "atyp"
      BY <3>1, <3>4 DEF Stage
    <3>9. QED
      BY ONLY <3>1, <3>7, <3>8
  <2>4. QED
    BY <2>1, <2>2, <2>3
<1>7. PICK k \in Nat, next \in Stage :
        /\ ReadFull(s, k) /\ (p = "atyp" => k = 1)
        /\ Goto(s, next) /\ next # "relay"
        /\ next # "drain" => Stands(next, need'[s], addr'[s], req, at + k)
  BY ONLY <1>6
<1>8. CASE s = "local"
  <2>1. pc["local"] \in Reading
    BY <1>3, <1>8 DEF Reading
  <2>2. next # "drain" => Stands(next, need'["local"], addr'["local"], req, n + k)
    BY <1>7, <1>8
  <2>3. ReadFull("local", k) /\ Goto("local", next)
    BY <1>7, <1>8
  <2>4. QED
    BY <1>1, <1>2, <2>1, <2>2, <2>3, LocalReads
<1>9. CASE s = "server"
  <2>1. pc["server"] \in {"atyp", "alen", "arest"} /\ (pc["server"] = "atyp" => k = 1)
    BY <1>3, <1>7, <1>9
  <2>2. next # "drain" => Stands(next, need'["server"], addr'["server"], req, m + k)
    BY <1>7, <1>9
  <2>3. ReadFull("server", k) /\ Goto("server", next) /\ next # "relay"
    BY <1>7, <1>9
  <2>4. addr'["local"] = addr["local"] /\ need'["local"] = need["local"]
    BY <1>5, <1>9 DEF Sides
  <2>5. QED
    BY <1>1, <1>2, <2>1, <2>2, <2>3, <2>4, ServerReads
<1>10. QED
  BY <1>8, <1>9 DEF Sides

(* The greeting, the methods and the request.                              *)
LEMMA FlowHandShake ==
  ASSUME Inv, ReadGreeting \/ ReadMethods \/ ReadRequest
  PROVE  Flow'
<1>1. Kinds /\ req \in Requests /\ req' = req /\ need["local"] \in Nat
  <2>1. Kinds /\ req' = req
    BY KindsAreTypes DEF Inv, ReadGreeting, ReadMethods, ReadRequest
  <2>2. need \in [Sides -> 0 .. 257] /\ req \in Requests
    BY <2>1 DEF Kinds
  <2>3. need["local"] \in Nat
    BY ONLY <2>2 DEF Sides
  <2>4. QED
    BY <2>1, <2>2, <2>3
<1>2. PICK n \in Nat : Local(n)
  BY DEF Inv, Flow
<1>3. pc["local"] \in Reading /\ pc["local"] \notin {"drain", "closed"}
  BY DEF ReadGreeting, ReadMethods, ReadRequest, Reading
<1>4. /\ Stands(pc["local"], need["local"], addr["local"], req, n)
      /\ Lies(in["local"], BytesOf(req), n)
  BY <1>2, <1>3 DEF Local
<1>5. /\ Len(req.methods) \in Nat /\ AddrAt(req) = 5 + Len(req.methods)
      /\ BytesOf(req)[2] = Len(req.methods)
  BY <1>1, Found, Layout
<1>6. CASE ReadGreeting
  <2>1. pc["local"] = "greet" /\ ReadFull("local", 2) /\ Goto("local", "methods")
    BY <1>6 DEF ReadGreeting
  <2>2. n = 0
    BY <1>4, <2>1 DEF Stands
  <2>3. in["local"][2] = BytesOf(req)[2]
    <3>1. Len(in["local"]) \in Nat /\ Len(in["local"]) >= 2
      BY <1>4, <2>1, LenProperties DEF Lies, ReadFull
    <3>2. 2 \in 1 .. Len(in["local"]) /\ 0 + 2 = 2
      BY <3>1
    <3>3. QED
      BY <1>4, <2>2, <3>2 DEF Lies
  <2>4. need'["local"] = Len(req.methods)
    BY <1>1, <1>5, <1>6, <2>3 DEF ReadGreeting, Kinds, Sides
  <2>5. Stands("methods", need'["local"], addr'["local"], req, n + 2)
    BY <2>2, <2>4 DEF Stands
  <2>6. "methods" \in Stage
    BY DEF Stage, Reading
  <2>7. QED
    BY <1>1, <1>2, <1>3, <2>1, <2>5, <2>6, LocalReads
<1>7. CASE ReadMethods
  <2>. DEFINE k == need["local"]
  <2>1. pc["local"] = "methods" /\ ReadFull("local", k) /\ Goto("local", "choose")
    BY <1>7 DEF ReadMethods
  <2>2. n = 2 /\ k = Len(req.methods)
    BY <1>4, <2>1 DEF Stands
  <2>3. Stands("choose", need'["local"], addr'["local"], req, n + k)
    BY <2>2 DEF Stands
  <2>4. "choose" \in Stage
    BY DEF Stage
  <2>5. QED
    BY <1>1, <1>2, <1>3, <2>1, <2>3, <2>4, LocalReads
<1>8. CASE ReadRequest
  <2>1. pc["local"] = "request" /\ ReadFull("local", 3) /\ Goto("local", "atyp")
    BY <1>8 DEF ReadRequest
  <2>2. n = 2 + Len(req.methods)
    BY <1>4, <2>1 DEF Stands
  <2>3. n + 3 = AddrAt(req)
    BY <1>5, <2>2
  <2>4. Stands("atyp", need'["local"], addr'["local"], req, n + 3)
    BY <2>3 DEF Stands
  <2>5. "atyp" \in Stage
    BY DEF Stage, Reading
  <2>6. QED
    BY <1>1, <1>2, <1>3, <2>1, <2>4, <2>5, LocalReads
<1>9. QED
  BY <1>6, <1>7, <1>8

(* Nothing of the flow changes.                                            *)
LEMMA FlowQuiet ==
  ASSUME Inv, UNCHANGED <<req, script, in, pc, need, addr, out>>
  PROVE  Flow'
<1>1. PICK n \in Nat, m \in Nat : Local(n) /\ Server(m) /\ Joined(n, m)
  BY DEF Inv, Flow
<1>2. Local(n)' /\ Server(m)' /\ Joined(n, m)'
  BY <1>1 DEF Local, Server, Joined
<1>3. QED
  BY <1>2 DEF Flow

(* A handler that fails while it reads.                                    *)
LEMMA FlowFails ==
  ASSUME Inv, NEW s \in Sides, pc[s] \in Reading, Goto(s, "drain"),
         UNCHANGED <<req, script, in, need, addr, out>>
  PROVE  Flow'
<1>0. pc \in [Sides -> Stage]
  BY KindsAreTypes DEF Inv, Kinds
<1>1. PICK n \in Nat, m \in Nat : Local(n) /\ Server(m) /\ Joined(n, m)
  BY DEF Inv, Flow
<1>2. CASE s = "local"
  <2>1. pc'["local"] = "drain" /\ pc'["server"] = "none"
    BY <1>0, <1>2 DEF Goto, Inv, Stages, Early, Reading, Sides
  <2>2. Local(0)'
    BY <2>1 DEF Local
  <2>3. QED
    BY <2>1, <2>2, FlowAlone DEF Active
<1>3. CASE s = "server"
  <2>1. pc'["server"] = "drain" /\ pc'["local"] = pc["local"]
    BY <1>0, <1>3 DEF Goto, Sides
  <2>2. Local(n)'
    BY <1>1, <2>1 DEF Local
  <2>3. QED
    BY <2>1, <2>2, FlowAlone DEF Active
<1>4. QED
  BY <1>2, <1>3 DEF Sides

(* A local handler that goes on without reading.                           *)
LEMMA FlowTells ==
  ASSUME Inv, pc["local"] \in {"choose", "answer"},
         NEW next, next = IF pc["local"] = "choose" THEN "request" ELSE "dial",
         Goto("local", next) \/ Goto("local", "drain"),
         UNCHANGED <<req, script, in, need, addr, out>>
  PROVE  Flow'
<1>0. pc \in [Sides -> Stage]
  BY KindsAreTypes DEF Inv, Kinds
<1>1. PICK n \in Nat : Local(n)
  BY DEF Inv, Flow
<1>2. pc'["local"] \in {next, "drain"} /\ pc'["server"] = "none"
  BY <1>0 DEF Goto, Inv, Stages, Early, Sides
<1>3. Local(n)'
  <2>1. CASE pc'["local"] = "drain"
    BY <2>1 DEF Local
  <2>2. CASE pc'["local"] = next
    <3>1. Stands(pc["local"], need["local"], addr["local"], req, n)
      BY <1>1 DEF Local
    <3>2. Stands(next, need["local"], addr["local"], req, n)
      BY <3>1 DEF Stands
    <3>3. QED
      BY <1>1, <2>2, <3>2 DEF Local
  <2>3. QED
    BY <1>2, <2>1, <2>2
<1>4. QED
  BY <1>2, <1>3, FlowAlone DEF Active

(* The client sends n bytes more.                                          *)
LEMMA FlowClient ==
  ASSUME Inv, NEW k \in 1 .. Len(script), ClientSend(k)
  PROVE  Flow'
<1>0. Kinds /\ in \in [Sides -> Str] /\ script \in Str
  BY KindsAreTypes DEF Inv, Kinds
<1>1. PICK n \in Nat, m \in Nat : Local(n) /\ Server(m) /\ Joined(n, m)
  BY DEF Inv, Flow
<1>. DEFINE b == BytesOf(req)
            i == in["local"]
            x == SubSeq(script, 1, k)
            y == SubSeq(script, k + 1, Len(script))
<1>2. /\ in'["local"] = i \o x /\ in'["server"] = in["server"] /\ script' = y
      /\ UNCHANGED <<req, pc, need, addr, out>>
  BY <1>0 DEF ClientSend, Sides, far
<1>3. Local(n)'
  <2>1. CASE pc["local"] \in {"drain", "closed"}
    BY <1>2, <2>1 DEF Local
  <2>2. CASE pc["local"] \notin {"drain", "closed"}
    <3>1. /\ Stands(pc["local"], need["local"], addr["local"], req, n)
          /\ Lies(i, b, n) /\ Lies(script, b, n + Len(i))
          /\ n + Len(i) + Len(script) = Len(b)
      BY <1>1, <2>2 DEF Local
    <3>2. Len(script) \in Nat /\ k \in 0 .. Len(script) /\ Len(i) \in Nat
      BY <1>0, <3>1, LenProperties DEF Str, Lies
    <3>. HIDE DEF i, b
    <3>3. /\ Lies(x, b, n + Len(i)) /\ Len(x) = k
      BY <3>1, <3>2, Eat
    <3>4. Lies(y, b, n + Len(i) + k)
      BY <3>1, <3>2, Eat
    <3>a. Len(y) = Len(script) - k
      BY <3>1, <3>2, Eat
    <3>. HIDE DEF x, y
    <3>5. Lies(i \o x, b, n) /\ Len(i \o x) = Len(i) + k
      BY <3>1, <3>3, Join
    <3>6. n + Len(i \o x) = n + Len(i) + k /\ n + Len(i \o x) + Len(y) = Len(b)
      BY <3>1, <3>2, <3>5, <3>a
    <3>7. Lies(y, b, n + Len(i \o x))
      BY <3>4, <3>6
    <3>8. QED
      BY <1>2, <3>1, <3>5, <3>6, <3>7 DEF Local, b
  <2>3. QED
    BY <2>1, <2>2
<1>4. Server(m)' /\ Joined(n, m)'
  BY <1>1, <1>2 DEF Server, Joined
<1>5. QED
  BY <1>3, <1>4 DEF Flow

(* A handler returns; closing the tunnel may drop the last bytes in it.    *)
LEMMA FlowReturns ==
  ASSUME Inv, NEW s \in Sides, Return(s)
  PROVE  Flow'
<1>0. Kinds /\ in \in [Sides -> Str] /\ pc \in [Sides -> Stage]
  BY KindsAreTypes DEF Inv, Kinds
<1>1. PICK n \in Nat, m \in Nat : Local(n) /\ Server(m) /\ Joined(n, m)
  BY DEF Inv, Flow
<1>2. UNCHANGED <<req, script, need, addr, out>> /\ Goto(s, "closed")
  BY DEF Return, far
<1>3. CASE s = "local"
  <2>1. pc'["local"] = "closed" /\ pc'["server"] = pc["server"]
    BY <1>0, <1>2, <1>3 DEF Goto, Sides
  <2>. DEFINE i == in["server"]
              b == BytesOf(req)
  <2>2. PICK k \in 0 .. Len(i) : in' = [in EXCEPT !["server"] = SubSeq(i, 1, k)]
    BY <1>3 DEF Return
  <2>3. in'["server"] = SubSeq(i, 1, k)
    BY <1>0, <2>2 DEF Sides
  <2>4. Server(m)'
    <3>1. CASE pc["server"] \in Active
      <4>1. Lies(i, b, m)
        BY <1>1, <3>1 DEF Server
      <4>. HIDE DEF i, b
      <4>2. Lies(SubSeq(i, 1, k), b, m)
        BY <4>1, Eat
      <4>3. QED
        BY <1>1, <1>2, <2>1, <2>3, <3>1, <4>2 DEF Server, b
    <3>2. CASE pc["server"] \notin Active
      BY <2>1, <3>2 DEF Server
    <3>3. QED
      BY <3>1, <3>2
  <2>5. QED
    BY <2>1, <2>4, FlowGone
<1>4. CASE s = "server"
  <2>1. pc'["server"] = "closed" /\ pc'["local"] = pc["local"] /\ in' = in
    BY <1>0, <1>2, <1>4 DEF Goto, Sides, Return
  <2>2. Local(n)'
    BY <1>1, <1>2, <2>1 DEF Local
  <2>3. QED
    BY <2>1, <2>2, FlowAlone DEF Active
<1>5. QED
  BY <1>3, <1>4 DEF Sides

(* The drain of either side reads what nobody asks for.                    *)
LEMMA FlowDrain ==
  ASSUME Inv, NEW s \in Sides, Drain(s)
  PROVE  Flow'
<1>0. Kinds /\ in \in [Sides -> Str]
  BY KindsAreTypes DEF Inv, Kinds
<1>1. PICK n \in Nat, m \in Nat : Local(n) /\ Server(m) /\ Joined(n, m)
  BY DEF Inv, Flow
<1>2. UNCHANGED <<req, script, pc, need, addr, out>> /\ pc[s] = "drain"
  BY DEF Drain, far
<1>3. CASE s = "local"
  <2>1. in'["server"] = in["server"]
    BY <1>0, <1>3 DEF Drain, Sides
  <2>2. Server(m)'
    BY <1>1, <1>2, <2>1 DEF Server
  <2>3. QED
    BY <1>2, <1>3, <2>2, FlowGone
<1>4. CASE s = "server"
  <2>1. in'["local"] = in["local"]
    BY <1>0, <1>4 DEF Drain, Sides
  <2>2. Local(n)'
    BY <1>1, <1>2, <2>1 DEF Local
  <2>3. QED
    BY <1>2, <1>4, <2>2, FlowAlone DEF Active
<1>5. QED
  BY <1>3, <1>4 DEF Sides

(* The tunnel is opened, with nothing in it.                               *)
LEMMA FlowDialRemote ==
  ASSUME Inv, DialRemote
  PROVE  Flow'
<1>0. Kinds /\ pc \in [Sides -> Stage] /\ req \in Requests
  BY KindsAreTypes DEF Inv, Kinds
<1>1. PICK n \in Nat : Local(n)
  BY DEF Inv, Flow
<1>2. /\ UNCHANGED <<req, script, in, need, addr, out>> /\ pc["local"] = "dial"
      /\ in["server"] = << >>
  BY DEF DialRemote, stream, far, Inv, Stages, Early
<1>3. pc'["local"] = "send" /\ pc'["server"] = "atyp"
  BY <1>0 DEF DialRemote, Accept, Sides
<1>4. Local(n)'
  <2>1. Stands("dial", need["local"], addr["local"], req, n)
    BY <1>1, <1>2 DEF Local
  <2>2. Stands("send", need["local"], addr["local"], req, n)
    BY <2>1 DEF Stands
  <2>3. QED
    BY <1>1, <1>2, <1>3, <2>2 DEF Local
<1>a. PICK m \in Nat : m = AddrAt(req)
  BY <1>0, Found
<1>5. Server(m)'
  <2>1. Stands("atyp", need["server"], addr["server"], req, m)
    BY <1>a DEF Stands
  <2>2. AddrAt(req) \in 0 .. Len(BytesOf(req)) /\ BytesOf(req) \in Str
    <3>1. Lies(AddrOf(req), BytesOf(req), AddrAt(req)) /\ BytesOf(req) \in Str
      BY <1>0, Layout
    <3>2. QED
      BY <3>1, LenProperties DEF Lies, Str
  <2>3. Lies(in["server"], BytesOf(req), m)
    BY <1>2, <1>a, <2>2, Empty DEF Str
  <2>4. QED
    BY <1>2, <1>3, <2>1, <2>3 DEF Server
<1>6. Joined(n, m)'
  BY <1>2, <1>3 DEF Joined
<1>7. QED
  BY <1>4, <1>5, <1>6 DEF Flow

(* The server has the address and starts to relay.                         *)
LEMMA FlowDialTarget ==
  ASSUME Inv, DialTarget
  PROVE  Flow'
<1>0. Kinds /\ pc \in [Sides -> Stage] /\ req \in Requests
  BY KindsAreTypes DEF Inv, Kinds
<1>1. PICK n \in Nat, m \in Nat : Local(n) /\ Server(m) /\ Joined(n, m)
  BY DEF Inv, Flow
<1>2. /\ UNCHANGED <<req, script, in, need, addr, out>> /\ pc["server"] = "dial"
      /\ out = << >>
  BY DEF DialTarget, stream, Inv, Stages, Active
<1>3. pc'["server"] = "relay" /\ pc'["local"] = pc["local"]
  BY <1>0 DEF DialTarget, Goto, Sides
<1>4. Local(n)' /\ Joined(n, m)'
  BY <1>1, <1>2, <1>3 DEF Local, Joined, Active
<1>5. Server(m)'
  <2>1. Stands("dial", need["server"], addr["server"], req, m)
    BY <1>1, <1>2 DEF Server, Active
  <2>2. Stands("relay", need["server"], addr["server"], req, m) /\ m = DataAt(req)
    BY <2>1 DEF Stands
  <2>3. m = DataAt(req) + Len(out)
    BY <1>0, <1>2, <2>2, EmptySeq
  <2>4. QED
    BY <1>1, <1>2, <1>3, <2>2, <2>3 DEF Server, Active
<1>6. QED
  BY <1>4, <1>5 DEF Flow

(* The address goes into the tunnel as it was read.                        *)
LEMMA FlowSend ==
  ASSUME Inv, SendAddr
  PROVE  Flow'
<1>0. Kinds /\ pc \in [Sides -> Stage] /\ in \in [Sides -> Str] /\ req \in Requests
  BY KindsAreTypes DEF Inv, Kinds
<1>1. PICK n \in Nat, m \in Nat : Local(n) /\ Server(m) /\ Joined(n, m)
  BY DEF Inv, Flow
<1>2. UNCHANGED <<req, script, need, addr, out>> /\ pc["local"] = "send"
  BY DEF SendAddr, far
<1>3. /\ pc'["local"] = "relay" /\ pc'["server"] = pc["server"]
      /\ in'["local"] = in["local"] /\ in'["server"] = in["server"] \o addr["local"]
  BY <1>0 DEF SendAddr, Goto, Sides
<1>4. Stands("send", need["local"], addr["local"], req, n)
  BY <1>1, <1>2 DEF Local
<1>5. Stands("relay", need["local"], addr["local"], req, n)
  BY <1>4 DEF Stands
<1>6. Local(n)'
  BY <1>1, <1>2, <1>3, <1>5 DEF Local
<1>7. CASE pc["server"] \in Active
  <2>1. pc["server"] = "atyp" /\ in["server"] = << >>
    BY <1>1, <1>2, <1>7 DEF Joined
  <2>2. addr["local"] = AddrOf(req) /\ n = DataAt(req)
    BY <1>4 DEF Stands
  <2>3. in'["server"] = AddrOf(req)
    <3>1. AddrOf(req) \in Seq(Byte)
      BY <1>0, Found DEF Str
    <3>2. << >> \o AddrOf(req) = AddrOf(req)
      BY <3>1, ConcatEmptySeq
    <3>3. QED
      BY <1>3, <2>1, <2>2, <3>2
  <2>4. m = AddrAt(req)
    BY <1>1, <2>1 DEF Server, Active, Stands
  <2>5. Lies(in'["server"], BytesOf(req), m) /\ n = m + Len(in'["server"])
    BY <1>0, <2>2, <2>3, <2>4, Layout, Found
  <2>6. Server(m)'
    BY <1>1, <1>2, <1>3, <2>1, <2>5 DEF Server, Active
  <2>7. Joined(n, m)'
    BY <1>3, <2>5 DEF Joined
  <2>8. QED
    BY <1>6, <2>6, <2>7 DEF Flow
<1>8. CASE pc["server"] \notin Active
  BY <1>3, <1>6, <1>8, FlowAlone
<1>9. QED
  BY <1>7, <1>8

(* A relay passes k bytes on: into the tunnel, or out of it to the target. *)
LEMMA FlowForward ==
  ASSUME Inv, NEW s \in Sides, NEW k \in 1 .. Len(in[s]), Forward(s, k)
  PROVE  Flow' /\ Lies(out, BytesOf(req), DataAt(req))'
<1>0. Kinds /\ in \in [Sides -> Str] /\ req \in Requests
  BY KindsAreTypes DEF Inv, Kinds
<1>1. PICK n \in Nat, m \in Nat : Local(n) /\ Server(m) /\ Joined(n, m)
  BY DEF Inv, Flow
<1>2. UNCHANGED <<req, script, pc, need, addr>> /\ pc[s] = "relay"
  BY DEF Forward
<1>3. Lies(out, BytesOf(req), DataAt(req))
  BY DEF Inv
<1>. DEFINE b == BytesOf(req)
            i == in["local"]
            j == in["server"]
<1>4. CASE s = "local"
  <2>. DEFINE data == SubSeq(i, 1, k)
              rest == SubSeq(i, k + 1, Len(i))
  <2>1. /\ in'["local"] = rest /\ in'["server"] = j \o data /\ out' = out
    BY <1>0, <1>4 DEF Forward, Sides
  <2>2. /\ Stands("relay", need["local"], addr["local"], req, n)
        /\ Lies(i, b, n) /\ Lies(script, b, n + Len(i))
        /\ n + Len(i) + Len(script) = Len(b)
    BY <1>1, <1>2, <1>4 DEF Local
  <2>3. Len(i) \in Nat /\ k \in 0 .. Len(i) /\ k \in Nat
    BY <1>0, <1>4, Parts DEF Sides
  <2>. HIDE DEF i, j, b
  <2>4. Lies(data, b, n) /\ Len(data) = k
    BY <2>2, <2>3, Eat
  <2>5. Lies(rest, b, n + k)
    BY <2>2, <2>3, Eat
  <2>6. Len(rest) = Len(i) - k
    BY <2>2, <2>3, Eat
  <2>. HIDE DEF data, rest
  <2>7. n + k + Len(rest) = n + Len(i)
    BY <2>3, <2>6
  <2>8. Stands("relay", need["local"], addr["local"], req, n + k)
    BY <2>2 DEF Stands
  <2>9. Local(n + k)'
    BY <1>2, <1>4, <2>1, <2>2, <2>5, <2>7, <2>8 DEF Local, b
  <2>10. Lies(out, BytesOf(req), DataAt(req))'
    BY <1>2, <1>3, <2>1
  <2>11. CASE pc["server"] \in Active
    <3>1. Lies(j, b, m) /\ n = m + Len(j)
      BY <1>1, <1>2, <1>4, <2>11 DEF Server, Joined, j, b
    <3>2. Lies(j \o data, b, m) /\ Len(j \o data) = Len(j) + k
      BY <2>4, <3>1, Join
    <3>3. n + k = m + Len(j \o data)
      <4>1. Len(j) \in Nat
        BY <3>1, LenProperties DEF Lies
      <4>2. QED
        BY <2>3, <3>1, <3>2, <4>1
    <3>4. Server(m)'
      BY <1>1, <1>2, <2>1, <2>11, <3>2 DEF Server, b
    <3>5. Joined(n + k, m)'
      BY <1>2, <1>4, <2>1, <3>3 DEF Joined
    <3>6. n + k \in Nat
      BY <2>3
    <3>7. QED
      BY <2>9, <2>10, <3>4, <3>5, <3>6 DEF Flow
  <2>12. CASE pc["server"] \notin Active
    <3>1. n + k \in Nat
      BY <2>3
    <3>2. QED
      BY <1>2, <2>9, <2>10, <2>12, <3>1, FlowAlone
  <2>13. QED
    BY <2>11, <2>12
<1>5. CASE s = "server"
  <2>. DEFINE data == SubSeq(j, 1, k)
              rest == SubSeq(j, k + 1, Len(j))
  <2>1. in'["server"] = rest /\ in'["local"] = i /\ out' = out \o data
    BY <1>0, <1>5 DEF Forward, Sides
  <2>2. /\ Stands("relay", need["server"], addr["server"], req, m)
        /\ m = DataAt(req) + Len(out) /\ Lies(j, b, m)
    BY <1>1, <1>2, <1>5 DEF Server, Active
  <2>3. Len(j) \in Nat /\ k \in 0 .. Len(j) /\ k \in Nat
    BY <1>0, <1>5, Parts DEF Sides
  <2>a. Joined(n, m) /\ pc["server"] = "relay" /\ "relay" \in Active /\ "relay" # "atyp"
    BY <1>1, <1>2, <1>5 DEF Active
  <2>b. pc["local"] # "send" /\ (pc["local"] = "relay" => n = m + Len(j))
    BY <2>a DEF Joined
  <2>. HIDE DEF i, j, b
  <2>4. Lies(data, b, m) /\ Len(data) = k
    BY <2>2, <2>3, Eat
  <2>5. Lies(rest, b, m + k)
    BY <2>2, <2>3, Eat
  <2>6. Len(rest) = Len(j) - k
    BY <2>2, <2>3, Eat
  <2>. HIDE DEF data, rest
  <2>7. Lies(out \o data, b, DataAt(req)) /\ Len(out \o data) = Len(out) + k
    BY <1>3, <2>2, <2>4, Join DEF b
  <2>8. m + k = DataAt(req) + Len(out \o data) /\ m + k + Len(rest) = m + Len(j)
    <3>1. Len(out) \in Nat /\ DataAt(req) \in Nat
      BY <1>0, <1>3, Found, LenProperties DEF Lies
    <3>2. QED
      BY <2>2, <2>3, <2>6, <2>7, <3>1
  <2>9. Stands("relay", need["server"], addr["server"], req, m + k)
    BY <2>2 DEF Stands
  <2>10. Server(m + k)'
    BY <1>2, <1>5, <2>1, <2>5, <2>8, <2>9 DEF Server, b
  <2>11. Local(n)'
    BY <1>1, <1>2, <2>1 DEF Local, i
  <2>12. Joined(n, m + k)'
    BY <1>2, <2>1, <2>8, <2>b DEF Joined
  <2>13. Lies(out, BytesOf(req), DataAt(req))'
    BY <1>2, <2>1, <2>7 DEF b
  <2>14. m + k \in Nat
    BY <2>3
  <2>15. QED
    BY <2>10, <2>11, <2>12, <2>13, <2>14 DEF Flow
<1>6. QED
  BY <1>4, <1>5 DEF Sides

(* Every step keeps the flow.                                              *)
LEMMA FlowStep ==
  ASSUME Inv, [Next]_vars
  PROVE  Flow' /\ Lies(out, BytesOf(req), DataAt(req))'
<1>a. Lies(out, BytesOf(req), DataAt(req))
  BY DEF Inv
<1>. DEFINE Goal == Flow' /\ Lies(out, BytesOf(req), DataAt(req))'
<1>b. ASSUME Flow', req' = req, out' = out PROVE Goal
  BY <1>a, <1>b
<1>. HIDE DEF Goal
<1>1. ASSUME NEW n \in 1 .. Len(script), ClientSend(n) PROVE Goal
  BY <1>1, <1>b, FlowClient DEF ClientSend, far
<1>2. ASSUME NEW s \in Sides, NEW how \in {"eof", "reset"}, StreamEnd(s, how) PROVE Goal
  BY <1>2, <1>b, FlowQuiet DEF StreamEnd, far
<1>3. ASSUME ReadGreeting PROVE Goal
  BY <1>3, <1>b, FlowHandShake DEF ReadGreeting, far
<1>4. ASSUME ReadMethods PROVE Goal
  BY <1>4, <1>b, FlowHandShake DEF ReadMethods, far
<1>5. ASSUME ChooseMethod PROVE Goal
  <2>1. UNCHANGED <<req, script, in, need, addr, out>> /\ pc["local"] = "choose"
    BY <1>5 DEF ChooseMethod, Tell, stream, far
  <2>2. Goto("local", "request") \/ Goto("local", "drain")
    BY <1>5 DEF ChooseMethod, Tell
  <2>3. QED
    BY <1>b, <2>1, <2>2, FlowTells
<1>6. ASSUME ReadRequest PROVE Goal
  BY <1>6, <1>b, FlowHandShake DEF ReadRequest, far
<1>7. ASSUME AnswerRequest PROVE Goal
  <2>1. UNCHANGED <<req, script, in, need, addr, out>> /\ pc["local"] = "answer"
    BY <1>7 DEF AnswerRequest, Tell, stream, far
  <2>2. Goto("local", "dial") \/ Goto("local", "drain")
    BY <1>7 DEF AnswerRequest, Tell
  <2>3. QED
    BY <1>b, <2>1, <2>2, FlowTells
<1>8. ASSUME SendAddr PROVE Goal
  BY <1>8, <1>b, FlowSend DEF SendAddr, far
<1>9. ASSUME SendAddrFail PROVE Goal
  BY <1>9, <1>b, FlowReturns DEF SendAddrFail, Return, far, Sides
<1>10. ASSUME Undecipherable PROVE Goal
  BY <1>10, <1>b, FlowFails DEF Undecipherable, stream, far, Sides
<1>11. ASSUME NEW s \in Sides, Refuse(s) PROVE Goal
  BY <1>11, <1>b, FlowFails DEF Refuse, stream, far
<1>12. ASSUME NEW s \in Sides, ReadType(s) PROVE Goal
  BY <1>12, <1>b, FlowReadAddr DEF ReadType, far
<1>13. ASSUME NEW s \in Sides, ReadDomainLength(s) PROVE Goal
  BY <1>13, <1>b, FlowReadAddr DEF ReadDomainLength, far
<1>14. ASSUME NEW s \in Sides, ReadRest(s) PROVE Goal
  BY <1>14, <1>b, FlowReadAddr DEF ReadRest, far
<1>15. ASSUME NEW s \in Sides, Drain(s) PROVE Goal
  BY <1>15, <1>b, FlowDrain DEF Drain, far
<1>16. ASSUME NEW s \in Sides, DrainEnd(s) PROVE Goal
  BY <1>16, <1>b, FlowReturns DEF DrainEnd, Return, far
<1>17. ASSUME NEW s \in Sides, DialFail(s) PROVE Goal
  BY <1>17, <1>b, FlowReturns DEF DialFail, Return, far
<1>18. ASSUME DialRemote PROVE Goal
  BY <1>18, <1>b, FlowDialRemote DEF DialRemote, far
<1>19. ASSUME DialTarget PROVE Goal
  BY <1>19, <1>b, FlowDialTarget DEF DialTarget
<1>20. ASSUME NEW s \in Sides, RelayEnd(s) PROVE Goal
  BY <1>20, <1>b, FlowReturns DEF RelayEnd, Return, far
<1>p. ASSUME NEW s \in Sides, PeerStall(s) PROVE Goal
  BY <1>p, <1>b, FlowQuiet DEF PeerStall, far, stream
<1>21. ASSUME NEW s \in Sides, NEW n \in 1 .. Len(in[s]), Forward(s, n) PROVE Goal
  BY <1>21, FlowForward DEF Goal
<1>22. ASSUME UNCHANGED vars PROVE Goal
  BY <1>22, <1>b, FlowQuiet DEF vars
<1>23. Goal
  BY <1>1, <1>2, <1>3, <1>4, <1>5, <1>6, <1>7, <1>8, <1>9, <1>10, <1>11,
     <1>12, <1>13, <1>14, <1>15, <1>16, <1>17, <1>18, <1>19, <1>20, <1>21,
     <1>22, <1>p
     DEF Next, Handler, HandShake
<1>24. QED
  BY <1>23 DEF Goal

-----------------------------------------------------------------------------
(* Inv is an invariant.                                                    *)
THEOREM Invariance == Spec => []Inv
<1>1. Init => Inv
  <2>. SUFFICES ASSUME Init PROVE Inv
    OBVIOUS
  <2>1. /\ req \in Requests /\ script = BytesOf(req) /\ out = << >> /\ replies = << >>
        /\ pc["local"] = "greet" /\ pc["server"] = "none" /\ dialled = nil
        /\ in["local"] = << >> /\ in["server"] = << >>
    BY DEF Init, Sides
  <2>2. BytesOf(req) \in Str /\ Len(BytesOf(req)) \in Nat /\ Len(<< >>) = 0
    BY <2>1, Found, Parts, EmptySeq
  <2>3. Kinds
    BY <2>1, <2>2, Parts DEF Init, Kinds, Sides, Stage, Reading, Byte
  <2>4. Stages
    BY <2>1 DEF Init, Stages, Active, Early, Sides
  <2>5. Told
    BY <2>1 DEF Told
  <2>6. Flow
    <3>1. Lies(<< >>, BytesOf(req), 0)
      BY <2>2, Empty DEF Str
    <3>2. Lies(BytesOf(req), BytesOf(req), 0)
      BY <2>2 DEF Lies, Str
    <3>3. Local(0)
      BY <2>1, <2>2, <3>1, <3>2 DEF Local, Stands
    <3>4. Server(0) /\ Joined(0, 0)
      BY <2>1 DEF Server, Joined, Active
    <3>5. QED
      BY <3>3, <3>4 DEF Flow
  <2>7. Lies(out, BytesOf(req), DataAt(req))
    <3>1. Lies(req.payload, BytesOf(req), DataAt(req))
      BY <2>1, Layout
    <3>2. DataAt(req) \in 0 .. Len(BytesOf(req))
      BY <3>1, LenProperties DEF Lies
    <3>3. QED
      BY <2>1, <2>2, <3>2, Empty DEF Str
  <2>8. QED
    BY <2>3, <2>4, <2>5, <2>6, <2>7, KindsAreTypes DEF Inv
<1>2. Inv /\ [Next]_vars => Inv'
  BY TypeStep, StagesStep, FlowStep, ToldStep DEF Inv
<1>3. QED
  BY <1>1, <1>2, PTL DEF Spec

(* The handlers keep the kinds of their variables, the bytes of an address *)
(* that readAddr waits for among them, and ReqNum counts a request once in *)
(* the local process and at most twice in the server.                      *)
THEOREM TypeCorrect == Spec => []TypeOK
<1>1. Inv => TypeOK
  BY DEF Inv
<1>2. QED
  BY <1>1, Invariance, PTL

(* Both proxies read exactly the address and hand on exactly the data,     *)
(* whatever its bytes and however TCP cuts it.                             *)
THEOREM ReadsJustEnough == Spec => []JustEnough
<1>1. Inv => JustEnough
  <2>. SUFFICES ASSUME Inv PROVE JustEnough
    OBVIOUS
  <2>. DEFINE b == BytesOf(req)
              d == req.payload
              at == DataAt(req)
              i == in["local"]
              j == in["server"]
  <2>0. req \in Requests
    BY DEF Inv, TypeOK
  <2>1. /\ Lies(d, b, at) /\ Len(b) = at + Len(d) /\ Len(d) \in Nat /\ at \in Nat
        /\ Lies(out, b, at)
    BY <2>0, Layout, Found DEF Inv
  <2>2. PICK n \in Nat, m \in Nat : Local(n) /\ Server(m) /\ Joined(n, m)
    BY DEF Inv, Flow
  <2>a. ASSUME NEW x, Lies(x, b, at), Len(x) = Len(d) PROVE x = d
    BY <2>1, <2>a, Same
  <2>3. ASSUME pc["local"] \in {"answer", "dial", "send"}
        PROVE  addr["local"] = AddrOf(req) /\ i \o script = d
    <3>1. /\ Lies(i, b, n) /\ Lies(script, b, n + Len(i)) /\ n + Len(i) + Len(script) = Len(b)
          /\ n = at /\ addr["local"] = AddrOf(req)
      BY <2>2, <2>3 DEF Local, Stands
    <3>. HIDE DEF i, b, d, at
    <3>2. Lies(i \o script, b, at) /\ Len(i \o script) = Len(i) + Len(script)
      BY <3>1, Join
    <3>3. Len(i) + Len(script) = Len(d)
      <4>1. Len(i) \in Nat /\ Len(script) \in Nat
        BY <3>1, LenProperties DEF Lies
      <4>2. QED
        BY <2>1, <3>1, <4>1
    <3>4. QED
      BY <2>a, <3>1, <3>2, <3>3
  <2>4. pc["server"] \in {"dial", "relay"} => addr["server"] = AddrOf(req)
    BY <2>2 DEF Server, Active, Stands
  <2>5. ASSUME pc["local"] = "relay", pc["server"] = "relay"
        PROVE  out \o j \o i \o script = d
    <3>1. /\ Lies(i, b, n) /\ Lies(script, b, n + Len(i)) /\ n + Len(i) + Len(script) = Len(b)
          /\ Lies(j, b, m) /\ m = at + Len(out) /\ n = m + Len(j)
      BY <2>2, <2>5 DEF Local, Server, Joined, Active
    <3>. HIDE DEF i, j, b, d, at
    <3>2. Lies(out \o j, b, at) /\ Len(out \o j) = Len(out) + Len(j)
      BY <2>1, <3>1, Join
    <3>3. Len(i) \in Nat /\ Len(script) \in Nat /\ Len(j) \in Nat /\ Len(out) \in Nat
      BY <2>1, <3>1, LenProperties DEF Lies
    <3>4. n = at + Len(out \o j)
      BY <2>1, <3>1, <3>2, <3>3
    <3>5. /\ Lies((out \o j) \o i, b, at)
          /\ Len((out \o j) \o i) = Len(out \o j) + Len(i)
      BY <3>1, <3>2, <3>4, Join
    <3>6. n + Len(i) = at + Len((out \o j) \o i)
      BY <2>1, <3>2, <3>3, <3>4, <3>5
    <3>7. /\ Lies(((out \o j) \o i) \o script, b, at)
          /\ Len(((out \o j) \o i) \o script) = Len((out \o j) \o i) + Len(script)
      BY <3>1, <3>5, <3>6, Join
    <3>8. Len((out \o j) \o i) + Len(script) = Len(d)
      BY <2>1, <3>1, <3>2, <3>3, <3>5, <3>6
    <3>9. QED
      BY <2>a, <3>7, <3>8
  <2>6. Len(out) <= Len(d) /\ out = SubSeq(d, 1, Len(out))
    <3>. HIDE DEF b, d, at
    <3>1. Len(out) \in Nat /\ at + Len(out) <= Len(b)
      BY <2>1, LenProperties DEF Lies
    <3>2. Len(out) \in 0 .. Len(d)
      BY <2>1, <3>1
    <3>3. Lies(SubSeq(d, 1, Len(out)), b, at) /\ Len(SubSeq(d, 1, Len(out))) = Len(out)
      BY <2>1, <3>2, Eat
    <3>4. out = SubSeq(d, 1, Len(out))
      BY <2>1, <3>3, Same
    <3>5. QED
      BY <3>2, <3>4
  <2>7. QED
    BY <2>3, <2>4, <2>5, <2>6 DEF JustEnough
<1>2. QED
  BY <1>1, Invariance, PTL

(* The server dials what the client meant, only for a CONNECT that was     *)
(* confirmed, and a UDP client is told the proxy's own address: String     *)
(* undoes the client's encoding, and String and SplitAddr undo ParseAddr,  *)
(* for every host and port.                                                *)
THEOREM DialsRightAddress == Spec => []RightAddress
<1>1. Inv => RightAddress
  <2>. SUFFICES ASSUME Inv PROVE RightAddress
    OBVIOUS
  <2>1. req.payload \in Str /\ Told
    BY RequestAssumption DEF Inv, TypeOK, Str
  <2>2. dialled # nil => dialled = Target(req) /\ req.cmd = CmdConnect /\ Len(replies) = 2
    BY <2>1 DEF Told
  <2>3. ASSUME NEW i \in DOMAIN replies, replies[i][1] = "udp"
        PROVE  LET told == SplitAddr(replies[i][2] \o req.payload)
               IN  told # nil /\ String(told) = LocalAddr
    <3>1. replies[i][2] = ParseAddr(LocalAddr)
      BY <2>1, <2>3 DEF Told
    <3>2. QED
      BY <2>1, <3>1, RoundTrip
  <2>4. QED
    BY <2>2, <2>3 DEF RightAddress
<1>2. QED
  BY <1>1, Invariance, PTL
=============================================================================
