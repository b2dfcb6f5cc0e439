---------------------------- MODULE ShadowStream ----------------------------
(***************************************************************************)
(* One direction of an encrypted stream of m_shadow/stream.go: the writer  *)
(* half of the streamConn at one end, the reader half of the one at the    *)
(* other end, and the connection between them.                             *)
(*                                                                         *)
(* The stream is a sequence of units, each of which io.ReadFull reads as a *)
(* whole: the salt, then for every record its length chunk and its payload *)
(* chunk.  Sealing is modelled by what opening needs to know: the nonce,   *)
(* and whether the unit is as it was sent.                                 *)
(*                                                                         *)
(* The writer writes into a corkedConn, so that what a Write was told to   *)
(* be written may still be held back, and is lost when the handler closes  *)
(* the raw connection below.  Which bytes leave the cork when is the       *)
(* matter of CorkedConn; here they are the last units, any number of them. *)
(* What is lost ends anywhere, and may leave a unit cut in two ("cut").    *)
(***************************************************************************)
EXTENDS Cuts

CONSTANTS
  Bytes,       \* the values a byte can take
  PayloadMask, \* longest payload of a record (payloadSizeMask, 0x3FFF)
  NonceMod,    \* number of nonces (2^96): increment wraps around
  MaxWrite,    \* longest argument of one Write
  MaxSent      \* bound on the bytes written to the stream

ASSUME StreamAssumption ==
  /\ Bytes # {}
  /\ PayloadMask \in Nat \ {0}
  /\ NonceMod \in Nat \ {0}
  /\ MaxWrite \in Nat \ {0}
  /\ MaxSent \in Nat

VARIABLES
  wpc,      \* the writer: "idle", "write", "failed" or "closed"
  winit,    \* c.w # nil: the salt has been sent
  wnonce,   \* w.nonce
  q,        \* plaintext Write has still to seal
  net,      \* units on their way
  corked,   \* the writer's corkedConn still holds back what it is given
  held,     \* the last units of net, held back by the cork
  cut,      \* units of the writer are lost: a write or a flush failed, or Close dropped them
  garbled,  \* a unit was damaged on its way
  rpc,      \* the reader expects "salt", "len" or "data"
  rkey,     \* the reader's key is the writer's: the salt came through intact
  rnonce,   \* r.nonce
  size,     \* payload length it has opened
  leftover, \* r.leftover: opened but not yet handed out
  rend,     \* how the stream ended for the reader: "none", "eof", "err" (an error of its
            \* own) or "fail" (the error of a Read of the connection, passed on)
  sent,     \* history: plaintext passed to Write
  out       \* history: plaintext handed out by Read or WriteTo

wvars == <<wpc, winit, wnonce, q>>
cvars == <<corked, held, cut>>
rvars == <<rpc, rkey, rnonce, size, leftover, rend>>
vars == <<wpc, winit, wnonce, q, net, corked, held, cut, garbled,
          rpc, rkey, rnonce, size, leftover, rend, sent, out>>

Init ==
  /\ wpc = "idle" /\ winit = FALSE /\ wnonce = 0 /\ q = << >>
  /\ net = << >> /\ garbled = FALSE
  /\ corked = TRUE /\ held = 0 /\ cut = FALSE
  /\ rpc = "salt" /\ rkey = FALSE /\ rnonce = 0 /\ size = 0
  /\ leftover = << >> /\ rend = "none"
  /\ sent = << >> /\ out = << >>

Least(m, n) == IF m <= n THEN m ELSE n

(* fault: the carry is not dropped *)
incrementUnwrapped(nonce) == nonce + 1

increment(nonce) == (nonce + 1) % NonceMod

Unit(kind, nonce, data) == [kind |-> kind, nonce |-> nonce, data |-> data, good |-> TRUE]
Cut(u) == [kind |-> "cut", nonce |-> u.nonce, data |-> u.data, good |-> u.good]
Damaged(u) == [kind |-> u.kind, nonce |-> u.nonce, data |-> u.data, good |-> FALSE]

-----------------------------------------------------------------------------
(* The writer                                                              *)

(* Write, or ReadFrom of a source that gives b; the source of a relay may be
   at its end at once, and the salt is sent all the same *)
Write(b) ==
  /\ wpc = "idle"
  /\ Len(sent) + Len(b) <= MaxSent
  /\ wpc' = "write"
  /\ q' = b
  /\ sent' = sent \o b
  /\ UNCHANGED <<winit, wnonce, net, cvars, garbled, rvars, out>>

(* of the last n of the units some have left, perhaps a part of one more;
   the others are lost *)
Lose(units, n) ==
  /\ \E k \in Len(units) - n .. Len(units) - 1 :
       \/ net' = Take(units, k)
       \/ net' = Take(units, k) \o <<Cut(units[k + 1])>>
  /\ held' = 0 /\ cut' = TRUE

(* a write of units to the corkedConn: the cork, while it is on, keeps what
   it has room for; a write below fails in the middle of what is to leave;
   or the corkedConn is in error since its flush failed *)
Emit(units, next) ==
  \/ /\ ~cut
     /\ net' = net \o units
     /\ held' \in 0 .. IF corked THEN held + Len(units) ELSE 0
     /\ wpc' = next /\ cut' = cut
  \/ /\ ~cut
     /\ Lose(net \o units, held + Len(units))
     /\ wpc' = "failed"
  \/ /\ cut
     /\ wpc' = "failed" /\ UNCHANGED <<net, held, cut>>

(* initWriter: the salt is written before the first record.  Its error
   leaves c.w nil *)
InitWriter ==
  /\ wpc = "write" /\ ~winit
  /\ Emit(<<Unit("salt", 0, << >>)>>, "write")
  /\ winit' = (wpc' = "write")
  /\ wnonce' = 0
  /\ UNCHANGED <<q, corked, garbled, rvars, sent, out>>

(* one turn of ReadFrom's loop: seal at most PayloadMask bytes into a
   length chunk and a payload chunk and write both at once *)
WriteRecord ==
  /\ wpc = "write" /\ winit /\ q # << >>
  /\ LET n == Least(PayloadMask, Len(q))
     IN  /\ Emit(<<Unit("len", wnonce, <<n>>),
                   Unit("data", increment(wnonce), Take(q, n))>>, "write")
         /\ q' = Drop(q, n)
  /\ wnonce' = increment(increment(wnonce))
  /\ UNCHANGED <<winit, corked, garbled, rvars, sent, out>>

(* fault: Write returns after its first record *)
WholeTaken == TRUE

Whole == q = << >>

(* the source is at its end: ReadFrom and Write return *)
WriteReturn ==
  /\ wpc = "write" /\ winit /\ Whole
  /\ wpc' = "idle"
  /\ UNCHANGED <<winit, wnonce, q, net, cvars, garbled, rvars, sent, out>>

(* the callback of the cork's timer, which the first write arms: nothing is
   held back any more, or the flush fails *)
Uncork ==
  /\ corked /\ winit
  /\ corked' = FALSE
  /\ \/ held' = 0 /\ UNCHANGED <<net, cut>>
     \/ held > 0 /\ Lose(net, held)
  /\ UNCHANGED <<wvars, garbled, rvars, sent, out>>

(* the handler returns and closes the raw connection: what the cork holds
   back stays there *)
Close ==
  /\ wpc \in {"idle", "failed"}
  /\ wpc' = "closed"
  /\ \/ held = 0 /\ UNCHANGED <<net, held, cut>>
     \/ held > 0 /\ Lose(net, held)
  /\ UNCHANGED <<winit, wnonce, q, corked, garbled, rvars, sent, out>>

(* the network damages a unit (once) *)
Garble ==
  /\ ~garbled
  /\ \E i \in DOMAIN net :
       /\ i <= Len(net) - held
       /\ net' = [net EXCEPT ![i] = Damaged(@)]
  /\ garbled' = TRUE
  /\ UNCHANGED <<wvars, cvars, rvars, sent, out>>

-----------------------------------------------------------------------------
(* The reader.  Its user stops at the first error or end.                  *)

(* io.ReadFull gets the next unit whole *)
Receive(kind) ==
  /\ rend = "none" /\ rpc = kind
  /\ Len(net) > held /\ Head(net).kind # "cut"
  /\ net' = Tail(net)

(* aead.Open of the unit with r.nonce *)
Opens(unit) == unit.good /\ rkey /\ unit.nonce = rnonce

(* initReader; the salt may be refused as a repeated one, and a damaged one
   gives another key *)
InitReader ==
  /\ Receive("salt")
  /\ \/ rend' = "err" /\ UNCHANGED <<rpc, rkey, rnonce>>
     \/ rend' = rend /\ rpc' = "len" /\ rkey' = Head(net).good /\ rnonce' = 0
  /\ UNCHANGED <<wvars, cvars, garbled, size, leftover, sent, out>>

(* fault: the nonce is not incremented between length and payload *)
NextNonceSame == rnonce

NextNonce == increment(rnonce)

(* the length keeps the bits of the mask *)
ReadLength ==
  /\ leftover = << >> /\ Receive("len")
  /\ rnonce' = NextNonce
  /\ IF Opens(Head(net))
     THEN /\ rpc' = "data" /\ rend' = rend
          /\ size' = Head(net).data[1] % (PayloadMask + 1)
     ELSE rend' = "err" /\ UNCHANGED <<rpc, size>>
  /\ UNCHANGED <<wvars, cvars, garbled, rkey, leftover, sent, out>>

(* fault: what the caller has no room for is lost *)
RestLost(buf, m) == << >>

Rest(buf, m) == Drop(buf, m)

(* the payload is handed out up to the n bytes the caller has room for (all
   of it in WriteTo); the rest is kept as leftover *)
ReadPayload(n) ==
  /\ Receive("data")
  /\ rnonce' = increment(rnonce)
  /\ IF Opens(Head(net))
     THEN /\ LET m == Least(n, size)
                 buf == Head(net).data
             IN  out' = out \o Take(buf, m) /\ leftover' = Rest(buf, m)
          /\ rpc' = "len" /\ rend' = rend
     ELSE rend' = "err" /\ UNCHANGED <<rpc, leftover, out>>
  /\ UNCHANGED <<wvars, cvars, garbled, rkey, size, sent>>

ReadLeftover(n) ==
  /\ rend = "none" /\ leftover # << >>
  /\ out' = out \o Take(leftover, Least(n, Len(leftover)))
  /\ leftover' = Drop(leftover, Least(n, Len(leftover)))
  /\ UNCHANGED <<wvars, net, cvars, garbled, rpc, rkey, rnonce, size, rend, sent>>

(* io.ReadFull meets the end of the stream: io.EOF if it has read nothing,
   io.ErrUnexpectedEOF in the middle of a unit *)
ReadEnd ==
  /\ rend = "none" /\ leftover = << >> /\ wpc = "closed"
  /\ \/ net = << >> /\ rend' = "eof"
     \/ net # << >> /\ Head(net).kind = "cut" /\ rend' = "err"
  /\ UNCHANGED <<wvars, net, cvars, garbled, rpc, rkey, rnonce, size, leftover, sent, out>>

(* a Read of the connection fails in io.ReadFull: the deadline that the relay
   has set is over, or the connection is reset *)
ReadFail ==
  /\ rend = "none" /\ leftover = << >>
  /\ rend' = "fail"
  /\ UNCHANGED <<wvars, net, cvars, garbled, rpc, rkey, rnonce, size, leftover, sent, out>>

Next ==
  \/ \E n \in 0 .. MaxWrite : \E b \in [1 .. n -> Bytes] : Write(b)
  \/ InitWriter \/ WriteRecord \/ WriteReturn \/ Uncork \/ Close
  \/ Garble
  \/ InitReader \/ ReadLength \/ ReadEnd \/ ReadFail
  \/ \E n \in 1 .. PayloadMask : ReadPayload(n) \/ ReadLeftover(n)

Spec == Init /\ [][Next]_vars

(* A Write that was called goes on, the cork's timer fires, and the relay  *)
(* at the other end keeps reading.  Nobody is obliged to write or to close.*)
Fairness ==
  /\ WF_vars(Uncork)
  /\ WF_vars(InitWriter \/ WriteRecord \/ WriteReturn)
  /\ WF_vars(InitReader \/ ReadLength \/ ReadEnd
             \/ \E n \in 1 .. PayloadMask : ReadPayload(n) \/ ReadLeftover(n))

FairSpec == Spec /\ Fairness

-----------------------------------------------------------------------------
Nonces == 0 .. NonceMod - 1
Units ==
  [kind : {"salt", "len", "data", "cut"}, nonce : Nonces, good : BOOLEAN,
   data : Seq(Bytes \union Nat)]

TypeOK ==
  /\ wpc \in {"idle", "write", "failed", "closed"}
  /\ winit \in BOOLEAN /\ wnonce \in Nonces /\ q \in Seq(Bytes)
  /\ net \in Seq(Units) /\ garbled \in BOOLEAN
  /\ corked \in BOOLEAN /\ held \in 0 .. Len(net) /\ cut \in BOOLEAN
  /\ rpc \in {"salt", "len", "data"} /\ rkey \in BOOLEAN /\ rnonce \in Nonces
  /\ size \in 0 .. PayloadMask /\ leftover \in Seq(Bytes)
  /\ rend \in {"none", "eof", "err", "fail"}
  /\ sent \in Seq(Bytes) /\ out \in Seq(Bytes)

(***************************************************************************)
(* No plaintext but the sender's, in order: whatever the sizes of writes   *)
(* and reads, leftovers, damage and cuts, the bytes handed out are the     *)
(* first bytes written.                                                    *)
(***************************************************************************)
Pipe == INSTANCE BytePipe WITH wire <- out, up <- rend = "none"

(* The encrypted stream implements a byte pipe.                            *)
ImplementsBytePipe == Pipe!Spec

(***************************************************************************)
(* EOF is true: a stream that ends with EOF was handed out to the last     *)
(* byte, unless the writer's end lost some: a write failed, or the raw     *)
(* Close dropped what the cork still held.  Damage, leftovers, records in  *)
(* several writes and a cork that was flushed in time are no excuse.       *)
(***************************************************************************)
EofMeansAll == rend = "eof" /\ ~cut => out = sent

(***************************************************************************)
(* Reader and writer never disagree of themselves.  An error that is not   *)
(* passed on from the connection (a deadline, a reset), that is one of     *)
(* Open or io.ErrUnexpectedEOF, comes from a salt that was refused, from   *)
(* damage on the way, or from units that the writer's end has lost.        *)
(***************************************************************************)
ErrorHasCause == rend = "err" => rpc = "salt" \/ garbled \/ cut

(* Everything written is handed out in the end, the cork notwithstanding,  *)
(* if nothing is damaged, lost at the writer's end or refused, and no Read *)
(* of the connection fails.                                                *)
Delivered ==
  \A n \in 1 .. MaxSent :
    Len(sent) >= n ~> (Len(out) >= n \/ garbled \/ cut \/ rend \in {"err", "fail"})
=============================================================================
