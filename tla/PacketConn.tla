----------------------------- MODULE PacketConn -----------------------------
(***************************************************************************)
(* Encrypted packets, m_shadow/packet.go: packetConn on both ends of a     *)
(* path, with Pack and Unpack.  Several goroutines write through one       *)
(* packetConn, whose mutex guards the buffer they pack into.  Every packet *)
(* has a salt and a key derived from it, and the nonce is always zero.     *)
(* Both ends ask the salt filter of their process (m_internal), which the  *)
(* first of these calls initialises.  It is given by what module BloomRing *)
(* shows of it: it holds the most recent salts and may have forgotten any  *)
(* other.                                                                  *)
(*                                                                         *)
(* The network may lose, reorder, duplicate and damage packets and bring   *)
(* them to either end.  A damaged packet, or one with another key, cannot  *)
(* be opened; random salts do not repeat.                                  *)
(***************************************************************************)
EXTENDS Naturals, FiniteSets

CONSTANTS
  Nodes,         \* the ends
  Writers,       \* goroutines that call WriteTo
  Home,          \* the end of each writer
  Configs,       \* the ciphers the ends may be configured with
  Overhead,      \* aead.Overhead()
  maxPacketSize, \* len(c.buf)
  Lengths,       \* the lengths of what is written
  ReadSizes,     \* the lengths of the slices ReadFrom is given
  Window,        \* salts the filter is sure to hold (Remembered of BloomRing)
  MaxSalts       \* bound on the salts drawn

NoWriter == "none"

(* the key size of each cipher of aeadList, and the salt size of metaCipher *)
KeySize ==
  [AEAD_AES_128_GCM |-> 16, AEAD_AES_256_GCM |-> 32, AEAD_CHACHA20_POLY1305 |-> 32]
Ciphers == DOMAIN KeySize
SaltSize(c) == IF KeySize[c] > 16 THEN KeySize[c] ELSE 16

ASSUME PacketAssumption ==
  /\ Home \in [Writers -> Nodes] /\ NoWriter \notin Writers
  /\ Configs \subseteq [Nodes -> Ciphers]
  /\ Overhead \in Nat /\ maxPacketSize \in Nat /\ MaxSalts \in Nat
  /\ Window \in Nat \ {0} /\ Lengths \subseteq Nat /\ ReadSizes \subseteq Nat

VARIABLES
  ciph,   \* c.Cipher of each end, from its configuration
  ring,   \* saltfilter: "unset" before initSaltfilterOnce, then "on" or "off" (nil)
  known,  \* the salts in it
  age,    \* history: how many salts were added to it after each salt
  lock,   \* who holds c.Mutex
  buf,    \* what c.buf holds: [salt, key, text], key and text of what was sealed
  pc,     \* where each writer is
  text,   \* what it writes: [by, len]
  aead,   \* the salt its key was derived from
  drawn,  \* salts drawn so far
  net,    \* packets the network may deliver, any number of times
  sealed, \* history: pairs of a key and what was sealed with it
  got     \* history: what ReadFrom returned: the end, the salt and the text

vars == <<ciph, ring, known, age, lock, buf, pc, text, aead, drawn, net, sealed, got>>
filter == <<ring, known, age>>
memory == <<ciph, filter>>

NoText == [by |-> NoWriter, len |-> 0]

Init ==
  /\ ciph \in Configs
  /\ ring = [n \in Nodes |-> "unset"] /\ known = [n \in Nodes |-> {}]
  /\ age = [n \in Nodes |-> [x \in 1 .. MaxSalts |-> 0]]
  /\ lock = [n \in Nodes |-> NoWriter]
  /\ buf = [n \in Nodes |-> [salt |-> 0, key |-> 0, text |-> NoText]]
  /\ pc = [w \in Writers |-> "idle"] /\ text = [w \in Writers |-> NoText]
  /\ aead = [w \in Writers |-> 0] /\ drawn = 0
  /\ net = {} /\ sealed = {} /\ got = {}

-----------------------------------------------------------------------------
(* The salt filter                                                         *)

(* getSaltFilterSingleton; the environment may disable the filter *)
Singleton(n) ==
  \E r \in {"on", "off"} :
    /\ ring[n] # "unset" => r = ring[n]
    /\ ring' = [ring EXCEPT ![n] = r]

Older(n, salt) ==
  age' = [age EXCEPT ![n] = [x \in 1 .. MaxSalts |-> IF x = salt THEN 0 ELSE age[n][x] + 1]]

(* fault: every call makes a filter of its own *)
AddSaltFresh(n, salt) ==
  /\ Singleton(n) /\ Older(n, salt)
  /\ known' = [known EXCEPT ![n] = IF ring'[n] = "on" THEN {salt} ELSE {}]

(* AddSalt: the salt is in the filter, of those before it the recent ones, and
   the reset of a slot may have removed some of the others *)
AddSalt(n, salt) ==
  /\ Singleton(n) /\ Older(n, salt)
  /\ \/ ring'[n] = "off" /\ UNCHANGED known
     \/ /\ ring'[n] = "on"
        /\ \E lost \in SUBSET {x \in known[n] : age'[n][x] >= Window} :
             known' = [known EXCEPT ![n] = (@ \ lost) \cup {salt}]

CheckSalt(n) == Singleton(n) /\ UNCHANGED <<known, age>>

(* a streamConn of the same process draws its salt and adds it to the filter *)
StreamSalt(n) ==
  /\ drawn < MaxSalts /\ drawn' = drawn + 1
  /\ AddSalt(n, drawn + 1)
  /\ UNCHANGED <<ciph, lock, buf, pc, text, aead, net, sealed, got>>

-----------------------------------------------------------------------------
(* WriteTo and Pack                                                        *)

Goto(w, next) == pc' = [pc EXCEPT ![w] = next]

(* fault: no c.Lock() *)
LockNever(w) == TRUE

Free(w) == lock[Home[w]] = NoWriter

Lock(w, len) ==
  /\ pc[w] = "idle" /\ drawn < MaxSalts
  /\ Free(w)
  /\ lock' = [lock EXCEPT ![Home[w]] = w]
  /\ text' = [text EXCEPT ![w] = [by |-> w, len |-> len]]
  /\ Goto(w, "salt")
  /\ UNCHANGED <<memory, buf, aead, drawn, net, sealed, got>>

(* WriteTo returns, and the deferred Unlock runs *)
Return(w) ==
  /\ Goto(w, "idle") /\ text' = [text EXCEPT ![w] = NoText] /\ aead' = [aead EXCEPT ![w] = 0]
  /\ lock' = [lock EXCEPT ![Home[w]] = NoWriter]

(* io.ReadFull(rand.Reader, salt) into the buffer *)
DrawSalt(w) ==
  /\ pc[w] = "salt"
  /\ \/ /\ drawn < MaxSalts /\ drawn' = drawn + 1
        /\ buf' = [buf EXCEPT ![Home[w]].salt = drawn + 1]
        /\ Goto(w, "key") /\ UNCHANGED <<lock, text, aead>>
     \/ Return(w) /\ UNCHANGED <<drawn, buf>>
  /\ UNCHANGED <<memory, net, sealed, got>>

Length(n, len) == SaltSize(ciph[n]) + len + Overhead

(* fault: the room for the tag is forgotten *)
FitsWithoutTag(n, len) == maxPacketSize >= SaltSize(ciph[n]) + len

Fits(n, len) == maxPacketSize >= Length(n, len)

(* ciph.Encrypter(salt) and AddSalt(salt), and then the check of the length *)
Encrypter(w) ==
  /\ pc[w] = "key"
  /\ LET n == Home[w]
     IN  /\ AddSalt(n, buf[n].salt)
         /\ \/ /\ Fits(n, text[w].len)
               /\ aead' = [aead EXCEPT ![w] = buf[n].salt]
               /\ Goto(w, "seal") /\ UNCHANGED <<lock, text>>
            \/ ~Fits(n, text[w].len) /\ Return(w)
  /\ UNCHANGED <<ciph, buf, drawn, net, sealed, got>>

(* aead.Seal into the buffer, behind the salt *)
Seal(w) ==
  /\ pc[w] = "seal"
  /\ buf' = [buf EXCEPT ![Home[w]] = [salt |-> @.salt, key |-> aead[w], text |-> text[w]]]
  /\ sealed' = sealed \cup {<<aead[w], text[w]>>}
  /\ Goto(w, "send")
  /\ UNCHANGED <<memory, lock, text, aead, drawn, net, got>>

(* c.PacketConn.WriteTo, which may fail *)
Send(w) ==
  /\ pc[w] = "send"
  /\ \/ net' = net \cup {[from |-> Home[w], pkt |-> buf[Home[w]]]} /\ Return(w)
     \/ Return(w) /\ UNCHANGED net
  /\ UNCHANGED <<memory, buf, drawn, sealed, got>>

-----------------------------------------------------------------------------
(* ReadFrom and Unpack                                                     *)

(* The packet p, cut to the size of the slice it is read into, can be opened
   at n.  A cut packet is damaged. *)
Unpack(n, p, size, intact) ==
  LET len == Length(p.from, p.pkt.text.len)
  IN  /\ size >= SaltSize(ciph[n]) + Overhead
      /\ ~(ring'[n] = "on" /\ p.pkt.salt \in known[n])
      /\ intact /\ len <= size
      /\ ciph[n] = ciph[p.from] /\ p.pkt.key = p.pkt.salt

(* a packet arrives, maybe damaged; a slice shorter than the salt is a panic *)
ReadFrom(n, p, size, intact) ==
  /\ size >= SaltSize(ciph[n])
  /\ CheckSalt(n)
  /\ got' = IF Unpack(n, p, size, intact) THEN got \cup {<<n, p.pkt.salt, p.pkt.text>>} ELSE got
  /\ UNCHANGED <<ciph, lock, buf, pc, text, aead, drawn, net, sealed>>

-----------------------------------------------------------------------------
Turn(w) == DrawSalt(w) \/ Encrypter(w) \/ Seal(w) \/ Send(w)

Next ==
  \/ \E n \in Nodes : StreamSalt(n)
  \/ \E w \in Writers : Turn(w) \/ \E len \in Lengths : Lock(w, len)
  \/ \E n \in Nodes, p \in net, size \in ReadSizes, intact \in BOOLEAN :
       ReadFrom(n, p, size, intact)

Spec == Init /\ [][Next]_vars

-----------------------------------------------------------------------------
TypeOK ==
  /\ ciph \in Configs
  /\ ring \in [Nodes -> {"unset", "on", "off"}]
  /\ \A n \in Nodes : known[n] \subseteq 1 .. drawn
  /\ age \in [Nodes -> [1 .. MaxSalts -> Nat]]
  /\ lock \in [Nodes -> Writers \cup {NoWriter}]
  /\ pc \in [Writers -> {"idle", "salt", "key", "seal", "send"}]
  /\ drawn \in 0 .. MaxSalts
  /\ \A p \in net : Length(p.from, p.pkt.text.len) <= maxPacketSize

(***************************************************************************)
(* With a nonce that is always zero, a key may seal one text only, however *)
(* many goroutines write at a time; and every packet that leaves holds the *)
(* salt of the key it was sealed with, so that the peer can open it.       *)
(***************************************************************************)
OneTextPerKey ==
  /\ \A x, y \in sealed : x[1] = y[1] => x = y
  /\ \A p \in net : p.pkt.key = p.pkt.salt /\ <<p.pkt.key, p.pkt.text>> \in sealed

(***************************************************************************)
(* What ReadFrom returns was sealed as it is, whatever the network does to *)
(* packets and however small the slice is.  A packet that comes back to    *)
(* its sender is refused, unless the filter is disabled or the packet so   *)
(* old that Window more salts have been added to the filter, by streams or *)
(* packets, before it came.                                                *)
(***************************************************************************)
OnlyFromPeer ==
  \A g \in got :
    /\ <<g[2], g[3]>> \in sealed
    /\ Home[g[3].by] = g[1] => ring[g[1]] = "off" \/ age[g[1]][g[2]] >= Window
=============================================================================
