---------------------------- MODULE SocksHandler ----------------------------
(***************************************************************************)
(* The stand-alone SOCKS handler, m_socks/handler.go: Serv takes a client  *)
(* through a greeting and a request, each with a single Read, dials the    *)
(* target and relays with two goroutines until both have ended.  A problem *)
(* before the relay is a panic, which Serv recovers from; the deferred     *)
(* calls close the connections on every way out.                           *)
(*                                                                         *)
(* A Read returns what has arrived, and the network cuts messages up and   *)
(* runs them together in any way.                                          *)
(***************************************************************************)
EXTENDS Cuts, FiniteSetsExt

CONSTANTS
  Requests,  \* what a client may send: records [greeting, addr, payload]
  Replies,   \* what a target may send
  IPv6len,   \* 16 bytes, fewer in a small instance
  Pieces,    \* the sizes of the pieces that the network delivers
  ReadMax,   \* the array that Resolve reads into, 1024 bytes
  Chunk      \* the buffer of read(): at most this many bytes go at a time

Byte == 0 .. 255

ASSUME HandlerAssumption ==
  /\ IPv6len \in Nat /\ ReadMax \in Nat \ {0} /\ Chunk \in Nat \ {0}
  /\ Pieces \subseteq Nat \ {0}
  /\ Requests \subseteq [greeting : Seq(Byte), addr : Seq(Byte), payload : Seq(Byte)]
  /\ Replies \subseteq Seq(Byte)

Peers == {"client", "target"}
Other(p) == IF p = "client" THEN "target" ELSE "client"

VARIABLES
  req,     \* the request this client makes
  reply,   \* what its target sends
  script,  \* what each peer has still to send
  in,      \* bytes of each peer that have arrived
  end,     \* how each peer's connection stands: "open", "eof" or "reset"
  pc,      \* where Serv is
  dialled, \* r.host and r.port as connect() used them
  copier,  \* where the goroutine that reads from each peer is
  held,    \* what it has read and not yet written
  out,     \* bytes written to each peer by the relay
  whole    \* history: each Read of Resolve got its message and nothing else

handlerVars == <<req, reply, script, in, end, pc, dialled, copier, held, out, whole>>
peers == <<req, reply, script>>
relay == <<copier, held, out>>

(* VER CMD RSV and the address; the command is looked at by nobody *)
RequestBytes(r) == <<5, 1, 0>> \o r.addr

None == [host |-> << >>, port |-> << >>]

HandlerInit ==
  /\ req \in Requests /\ reply \in Replies
  /\ script = [p \in Peers |->
       IF p = "client" THEN req.greeting \o RequestBytes(req) \o req.payload ELSE reply]
  /\ in = [p \in Peers |-> << >>]
  /\ end = [p \in Peers |-> "open"]
  /\ pc = "verify"
  /\ dialled = None
  /\ copier = [p \in Peers |-> "none"]
  /\ held = [p \in Peers |-> << >>] /\ out = [p \in Peers |-> << >>]
  /\ whole = TRUE

-----------------------------------------------------------------------------
(* The peers and the network                                               *)

Connected(p) == IF p = "client" THEN pc # "closed" ELSE pc = "relay"

Arrives(p, n) ==
  /\ Connected(p) /\ end[p] = "open" /\ n <= Len(script[p])
  /\ in' = [in EXCEPT ![p] = @ \o Take(script[p], n)]
  /\ script' = [script EXCEPT ![p] = Drop(@, n)]
  /\ UNCHANGED <<req, reply, end, pc, dialled, relay, whole>>

(* a peer ends its direction, or its connection fails *)
Ends(p, how) ==
  /\ Connected(p) /\ end[p] # "reset" /\ how # end[p]
  /\ end' = [end EXCEPT ![p] = how]
  /\ UNCHANGED <<peers, in, pc, dialled, relay, whole>>

(* what a Read of up to max bytes gets *)
Got(p, max) == Take(in[p], Min({max, Len(in[p])}))

-----------------------------------------------------------------------------
(* Serv                                                                    *)

(* byte i of the array of 1024 bytes that b was read into, from 0 *)
At(b, i) == IF i < Len(b) THEN b[i + 1] ELSE 0

Closed == "closed"  \* where a panic leads: Serv recovers, and the deferred calls close

Received == Got("client", ReadMax)

(* one Read, and next and target for what it has got *)
Resolve(from, message, next, target) ==
  /\ pc = from
  /\ \/ /\ end["client"] # "reset" /\ in["client"] # << >>
        /\ in' = [in EXCEPT !["client"] = Drop(@, ReadMax)]
        /\ whole' = (whole /\ Received = message)
        /\ pc' = IF Len(Received) < 3 THEN Closed ELSE next
        /\ dialled' = IF pc' = Closed THEN dialled ELSE target
     \/ /\ end["client"] = "reset" \/ (end["client"] = "eof" /\ in["client"] = << >>)
        /\ pc' = Closed /\ UNCHANGED <<in, whole, dialled>>
  /\ UNCHANGED <<peers, end, relay>>

(* Resolve(STATUS_VERIFY) and ResponseVerify, whose error is not looked at *)
Verify ==
  Resolve("verify", req.greeting,
          IF At(Received, 0) = 5 THEN "request" ELSE Closed, dialled)

(* fault: the domain is taken to start at its length byte *)
NameStartAtLength == 5

NameStart == 6  \* b[5] of the code

(* r.host, by the address type; the length byte of a domain is not read *)
Host(b) ==
  CASE At(b, 3) = 1 -> [i \in 1 .. 4 |-> At(b, 3 + i)]
    [] At(b, 3) = 3 -> SubSeq(b, NameStart, Len(b) - 2)
    [] At(b, 3) = 4 -> [i \in 1 .. IPv6len |-> At(b, 3 + i)]
    [] OTHER -> << >>

(* Resolve(STATUS_CONNECT) and ResponseConnect: success is reported before
   the target is dialled.  b[5 : n-2] of a short domain request is a panic. *)
Request ==
  LET b == Received
  IN  Resolve("request", RequestBytes(req),
              IF At(b, 3) = 3 /\ Len(b) - 2 < 5 THEN Closed ELSE "connect",
              [host |-> Host(b), port |-> Drop(b, Len(b) - 2)])

(* net.Dial; its error is a panic *)
Connect ==
  /\ pc = "connect"
  /\ \/ pc' = "relay" /\ copier' = [p \in Peers |-> "read"]
     \/ pc' = Closed /\ UNCHANGED copier
  /\ UNCHANGED <<peers, in, end, dialled, held, out, whole>>

-----------------------------------------------------------------------------
(* Relay: one goroutine per direction, named for the peer it reads from    *)

Step(p, next) == copier' = [copier EXCEPT ![p] = next]

(* fault: all there is goes at once *)
PieceAll(p) == in[p]

Piece(p) == Got(p, Chunk)

CopyRead(p) ==
  /\ copier[p] = "read"
  /\ \/ /\ end[p] # "reset" /\ in[p] # << >>
        /\ held' = [held EXCEPT ![p] = Piece(p)]
        /\ in' = [in EXCEPT ![p] = Drop(@, Chunk)]
        /\ Step(p, "write")
     \/ /\ end[p] = "reset" \/ (end[p] = "eof" /\ in[p] = << >>)
        /\ Step(p, "done") /\ UNCHANGED <<held, in>>
  /\ UNCHANGED <<peers, end, pc, dialled, out, whole>>

(* fault: a failed write is tried again *)
AfterFailureRetry == "write"

AfterFailure == "done"

CopyWrite(p) ==
  /\ copier[p] = "write"
  /\ IF end[Other(p)] = "reset"
     THEN Step(p, AfterFailure) /\ UNCHANGED out
     ELSE Step(p, "read") /\ out' = [out EXCEPT ![Other(p)] = @ \o held[p]]
  /\ held' = [held EXCEPT ![p] = << >>]
  /\ UNCHANGED <<peers, in, end, pc, dialled, whole>>

(* wg.Wait: both have ended, Serv returns and the connections are closed *)
RelayDone ==
  /\ pc = "relay" /\ \A p \in Peers : copier[p] = "done"
  /\ pc' = "closed"
  /\ UNCHANGED <<peers, in, end, dialled, relay, whole>>

-----------------------------------------------------------------------------
Serv == Verify \/ Request \/ Connect \/ RelayDone
Copy(p) == CopyRead(p) \/ CopyWrite(p)

HandlerNext ==
  \/ Serv
  \/ \E p \in Peers :
       \/ Copy(p)
       \/ \E n \in Pieces : Arrives(p, n)
       \/ \E how \in {"eof", "reset"} : Ends(p, how)

HandlerSpec == HandlerInit /\ [][HandlerNext]_handlerVars

(* Goroutines run, and a dial and a write return.  The peers owe nothing.  *)
FairSpec == HandlerSpec /\ WF_handlerVars(Serv) /\ \A p \in Peers : WF_handlerVars(Copy(p))

-----------------------------------------------------------------------------
HandlerTypeOK ==
  /\ req \in Requests /\ reply \in Replies
  /\ end \in [Peers -> {"open", "eof", "reset"}]
  /\ pc \in {"verify", "request", "connect", "relay", "closed"}
  /\ copier \in [Peers -> {"none", "read", "write", "done"}]
  /\ \A p \in Peers : Len(held[p]) <= Chunk
  /\ Len(dialled.port) \in {0, 2}

(* what the client asks for: the address without its type and its domain's
   length, and the two bytes of the port *)
Asked ==
  LET a == req.addr
  IN  [host |-> SubSeq(a, IF a[1] = 3 THEN 3 ELSE 2, Len(a) - 2), port |-> Drop(a, Len(a) - 2)]

(* an address of one of the three types, and as long as its type says *)
Proper(a) ==
  \/ a # << >> /\ a[1] = 1 /\ Len(a) = 7
  \/ a # << >> /\ a[1] = 3 /\ Len(a) >= 4
  \/ a # << >> /\ a[1] = 4 /\ Len(a) = IPv6len + 3

(***************************************************************************)
(* A client whose greeting and request arrive each in one piece and alone  *)
(* is connected to what it asked for, if its address is a proper one, and  *)
(* its target is sent its data, in order, chunk by chunk, and nothing of   *)
(* the handshake; every client is sent the target's.  A chunk is lost only *)
(* in the write that fails.  (Of a client whose messages come in other     *)
(* pieces, Resolve takes whatever bytes it has got for the request, and of *)
(* an address of another type it dials the port without a host.)           *)
(***************************************************************************)
ServedAsAsked ==
  /\ whole /\ Proper(req.addr) /\ dialled # None => dialled = Asked
  /\ pc = "relay" => \A p \in Peers :
       copier[p] # "done" /\ (p = "client" => whole) =>
         out[Other(p)] \o held[p] \o in[p] \o script[p]
           = (IF p = "client" THEN req.payload ELSE reply)

(***************************************************************************)
(* When both peers have gone, or the client before there is a target, Serv *)
(* closes the connections, whatever state they were in.  One peer alone is *)
(* not enough: the relay waits for the other's end, without a deadline.    *)
(***************************************************************************)
GoneMeansClosed ==
  end["client"] # "open" /\ (pc = "relay" => end["target"] # "open")
    ~> (pc = "closed" \/ (pc = "relay" /\ end["target"] = "open"))
=============================================================================
