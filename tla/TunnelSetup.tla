---------------------------- MODULE TunnelSetup ----------------------------
(***************************************************************************)
(* The life of one proxied connection, in the direction of the request:    *)
(* the handler goroutine of ServeLocal takes a client through the SOCKS5   *)
(* handshake (m_socks.HandShake), dials the remote proxy, sends it the     *)
(* target address and relays; the handler of ServeServer reads the address *)
(* (m_socks.ReadAddr), dials the target and relays.                        *)
(*                                                                         *)
(* Everything is read with io.ReadFull from a stream that arrives in       *)
(* fragments.  The encrypted and corked connection between the proxies is  *)
(* a byte pipe (modules ShadowStream and CorkedConn); a close may lose the *)
(* bytes that have not left yet.  The relay of the replies and its         *)
(* timeouts are the subject of module Relay; what remains of it here is    *)
(* that it ends, and that a peer that takes no data keeps it from ending,  *)
(* since no write has a deadline.                                          *)
(***************************************************************************)
EXTENDS SocksAddr

CONSTANTS
  Requests,   \* what a client may ask for, and the data behind it: records
              \* [methods, cmd, atyp, host, port, payload]
  LocalAddr   \* c.LocalAddr() of the local proxy's connections, as text

(* Requests are made of bytes, and their lengths fit in one.  A type of address
   that the code does not know may stand before anything. *)
ASSUME RequestAssumption ==
  \A r \in Requests :
    /\ r.methods \in Seq(Byte) /\ Len(r.methods) \in Byte
    /\ r.cmd \in Byte /\ r.atyp \in Byte
    /\ r.host \in Seq(Byte) /\ Len(r.host) \in Byte
    /\ r.atyp = ATYPIPv4 => Len(r.host) = IPv4len
    /\ r.atyp = ATYPIPv6 => Len(r.host) = IPv6len
    /\ r.port \in Nat /\ r.port < 65536
    /\ r.payload \in Seq(Byte)

(* A connection's own address is an IP address, written as net.IP writes it *)
ASSUME LocalAssumption ==
  /\ LocalAddr = [kind |-> "ip", host |-> LocalAddr.host, port |-> LocalAddr.port]
  /\ LocalAddr.host \in Seq(Byte) /\ Len(LocalAddr.host) \in {IPv4len, IPv6len}
  /\ To4(LocalAddr.host) = LocalAddr.host
  /\ LocalAddr.port \in Nat /\ LocalAddr.port < 65536

CmdConnect == 1
CmdUDP == 3

Sides == {"local", "server"}

VARIABLES
  UDPEnabled, \* m_socks.UDPEnabled, set before the proxies start
  req,     \* the request this client makes
  script,  \* what of it the client has still to send
  in,      \* bytes a side can read: from the client, from the tunnel
  end,     \* how that stream stands: "open", "eof" or "reset"
  pc,      \* where each handler is
  need,    \* bytes the next io.ReadFull of readAddr waits for
  cmd,     \* the command of the request
  addr,    \* the address as far as readAddr has read it
  replies, \* what the client has been told, with the address in the reply
  dialled, \* what the server has called net.Dial with
  out,     \* bytes the target has been sent
  reqNum,  \* stats.ReqNum of the two processes
  stall    \* the relay of a side is blocked in a write to a peer that takes no data

stream == <<script, in, end>>
far == <<dialled, out>>
vars == <<UDPEnabled, req, script, in, end, pc, need, cmd, addr, replies, dialled, out,
          reqNum, stall>>

(* the target that a request means, and its address as RFC 1928 lays it out:
   ATYP, the length of a domain, the host, the port in network order *)
Target(r) == Text(IF r.atyp = ATYPDomain THEN "name" ELSE "ip", r.host, r.port)

AddrOf(r) ==
  (IF r.atyp = ATYPDomain THEN <<r.atyp, Len(r.host)>> ELSE <<r.atyp>>)
    \o r.host \o <<r.port \div 256, r.port % 256>>

(* the request as bytes: VER NMETHODS METHODS, VER CMD RSV, the address, data *)
BytesOf(r) ==
  <<5, Len(r.methods)>> \o r.methods \o <<5, r.cmd, 0>> \o AddrOf(r) \o r.payload

(* a client has connected: ReqNum is counted, HandShake waits for the greeting *)
Init ==
  /\ UDPEnabled \in BOOLEAN
  /\ req \in Requests
  /\ script = BytesOf(req)
  /\ in = [s \in Sides |-> << >>]
  /\ end = [s \in Sides |-> "open"]
  /\ pc = [s \in Sides |-> IF s = "local" THEN "greet" ELSE "none"]
  /\ need = [s \in Sides |-> 0]
  /\ cmd = 0
  /\ addr = [s \in Sides |-> << >>]
  /\ replies = << >>
  /\ dialled = nil /\ out = << >>
  /\ reqNum = [s \in Sides |-> IF s = "local" THEN 1 ELSE 0]
  /\ stall = [s \in Sides |-> FALSE]

-----------------------------------------------------------------------------
(* The client and the network                                              *)

ClientSend(n) ==
  /\ end["local"] = "open" /\ pc["local"] # "closed"
  /\ n <= Len(script)
  /\ in' = [in EXCEPT !["local"] = @ \o SubSeq(script, 1, n)]
  /\ script' = SubSeq(script, n + 1, Len(script))
  /\ UNCHANGED <<UDPEnabled, req, end, pc, need, cmd, addr, replies, far, reqNum, stall>>

(* the client closes or half-closes, or its connection or the tunnel fails *)
StreamEnd(s, how) ==
  /\ end[s] # "reset" /\ how # end[s]
  /\ s = "server" => how = "reset" /\ pc[s] # "none"
  /\ end' = [end EXCEPT ![s] = how]
  /\ UNCHANGED <<UDPEnabled, req, script, in, pc, need, cmd, addr, replies, far,
                 reqNum, stall>>

(* a peer of the relay (the client, the other proxy, the target) takes no data
   and one of the two copiers is blocked, or it takes data again *)
PeerStall(s) ==
  /\ pc[s] = "relay"
  /\ stall' = [stall EXCEPT ![s] = ~@]
  /\ UNCHANGED <<UDPEnabled, req, stream, pc, need, cmd, addr, replies, far, reqNum>>

-----------------------------------------------------------------------------
(* io.ReadFull of n bytes, and its two ways to fail                        *)

ReadFull(s, n) ==
  /\ Len(in[s]) >= n /\ (end[s] # "reset" \/ n = 0)
  /\ in' = [in EXCEPT ![s] = SubSeq(@, n + 1, Len(@))]
  /\ UNCHANGED <<script, end>>

ReadFullFails(s, n) ==
  n > 0 /\ (end[s] = "reset" \/ (end[s] = "eof" /\ Len(in[s]) < n))

Goto(s, next) == pc' = [pc EXCEPT ![s] = next]

(* how many bytes the handler waits for, and nothing when it is not reading *)
Wanted(s) ==
  CASE pc[s] = "greet"   -> 2
    [] pc[s] = "methods" -> need[s]
    [] pc[s] = "request" -> 3
    [] pc[s] = "atyp"    -> 1
    [] pc[s] = "alen"    -> 1
    [] pc[s] = "arest"   -> need[s]
    [] OTHER -> 0

Reading == {"greet", "methods", "request", "atyp", "alen", "arest"}

(* HandShake or ReadAddr returns an error: the handler drains the connection *)
Refuse(s) ==
  /\ pc[s] \in Reading /\ ReadFullFails(s, Wanted(s))
  /\ Goto(s, "drain")
  /\ UNCHANGED <<UDPEnabled, req, stream, need, cmd, addr, replies, far, reqNum, stall>>

(* ReadAddr(sc) fails because the tunnel's stream cannot be opened: the salt
   is refused, or a chunk was damaged (ErrorHasCause of ShadowStream) *)
Undecipherable ==
  /\ pc["server"] \in Reading
  /\ Goto("server", "drain")
  /\ UNCHANGED <<UDPEnabled, req, stream, need, cmd, addr, replies, far, reqNum, stall>>

-----------------------------------------------------------------------------
(* HandShake, on the local side                                            *)

ReadGreeting ==
  /\ pc["local"] = "greet" /\ ReadFull("local", 2)
  /\ need' = [need EXCEPT !["local"] = in["local"][2]]
  /\ Goto("local", "methods")
  /\ UNCHANGED <<UDPEnabled, req, cmd, addr, replies, far, reqNum, stall>>

ReadMethods ==
  /\ pc["local"] = "methods" /\ ReadFull("local", need["local"])
  /\ Goto("local", "choose")
  /\ UNCHANGED <<UDPEnabled, req, need, cmd, addr, replies, far, reqNum, stall>>

(* a write to the client; it fails once the connection is reset *)
Tell(reply, next) ==
  /\ IF end["local"] = "reset"
     THEN Goto("local", "drain") /\ UNCHANGED replies
     ELSE Goto("local", next) /\ replies' = Append(replies, reply)
  /\ UNCHANGED <<UDPEnabled, req, stream, need, cmd, addr, far, reqNum, stall>>

(* whatever was offered, the method is "none" *)
ChooseMethod == pc["local"] = "choose" /\ Tell(<<"method", nil>>, "request")

ReadRequest ==
  /\ pc["local"] = "request" /\ ReadFull("local", 3)
  /\ cmd' = in["local"][2]
  /\ Goto("local", "atyp")
  /\ UNCHANGED <<UDPEnabled, req, need, addr, replies, far, reqNum, stall>>

NoAddr == <<ATYPIPv4>> \o [i \in 1 .. IPv4len + 2 |-> 0]

(* CONNECT is confirmed before the remote proxy is dialled; the confirmation
   of UDP is followed by InfoUDPAssociate, an error to the handler *)
AnswerRequest ==
  /\ pc["local"] = "answer"
  /\ \/ cmd = CmdConnect /\ Tell(<<"success", NoAddr>>, "dial")
     \/ cmd = CmdUDP /\ UDPEnabled /\ Tell(<<"udp", ParseAddr(LocalAddr)>>, "drain")
     \/ /\ cmd # CmdConnect /\ ~(cmd = CmdUDP /\ UDPEnabled)
        /\ Goto("local", "drain")
        /\ UNCHANGED <<UDPEnabled, req, stream, need, cmd, addr, replies, far, reqNum,
                       stall>>

-----------------------------------------------------------------------------
(* readAddr, on both sides                                                 *)

(* bytes that follow the type, per type; a domain has its own length byte *)
ReadType(s) ==
  /\ pc[s] = "atyp" /\ ReadFull(s, 1)
  /\ LET t == in[s][1]
     IN  /\ addr' = [addr EXCEPT ![s] = <<t>>]
         /\ Goto(s, CASE t = ATYPDomain -> "alen"
                      [] t \in {ATYPIPv4, ATYPIPv6} -> "arest"
                      [] OTHER -> "drain")
         /\ need' = [need EXCEPT ![s] = IF t = ATYPIPv4 THEN IPv4len + 2
                                                        ELSE IPv6len + 2]
  /\ UNCHANGED <<UDPEnabled, req, cmd, replies, far, reqNum, stall>>

(* fault: the length byte is taken to count the port *)
DomainRestNoPort(n) == n

DomainRest(n) == n + 2

ReadDomainLength(s) ==
  /\ pc[s] = "alen" /\ ReadFull(s, 1)
  /\ addr' = [addr EXCEPT ![s] = Append(@, in[s][1])]
  /\ need' = [need EXCEPT ![s] = DomainRest(in[s][1])]
  /\ Goto(s, "arest")
  /\ UNCHANGED <<UDPEnabled, req, cmd, replies, far, reqNum, stall>>

ReadRest(s) ==
  /\ pc[s] = "arest" /\ ReadFull(s, need[s])
  /\ addr' = [addr EXCEPT ![s] = @ \o SubSeq(in[s], 1, need[s])]
  /\ Goto(s, IF s = "local" THEN "answer" ELSE "dial")
  /\ UNCHANGED <<UDPEnabled, req, need, cmd, replies, far, reqNum, stall>>

-----------------------------------------------------------------------------
(* The handlers after the handshake.  A handler that returns closes its    *)
(* connections (deferred Close); closing the local end of the tunnel may   *)
(* drop what the cork still holds.                                         *)

Return(s) ==
  /\ Goto(s, "closed")
  /\ \/ s = "server" /\ UNCHANGED <<in, end>>
     \/ /\ s = "local"
        /\ \E n \in 0 .. Len(in["server"]) :
             in' = [in EXCEPT !["server"] = SubSeq(@, 1, n)]
        /\ end' = [end EXCEPT !["server"] = IF @ = "open" THEN "eof" ELSE @]
  /\ UNCHANGED <<UDPEnabled, req, script, need, cmd, addr, replies, far, reqNum, stall>>

(* io.Copy(ioutil.Discard, c) until the stream ends; there is no deadline *)
Drain(s) ==
  /\ pc[s] = "drain" /\ end[s] = "open" /\ in[s] # << >>
  /\ in' = [in EXCEPT ![s] = << >>]
  /\ UNCHANGED <<UDPEnabled, req, script, end, pc, need, cmd, addr, replies, far,
                 reqNum, stall>>

(* fault: the drain goes on at EOF and ends with an error only *)
DrainEndReset(s) == pc[s] = "drain" /\ end[s] = "reset" /\ Return(s)

DrainEnd(s) == pc[s] = "drain" /\ end[s] # "open" /\ Return(s)

(* fault: the process that dials counts as well *)
AcceptTwice ==
  /\ pc' = [pc EXCEPT !["local"] = "send", !["server"] = "atyp"]
  /\ reqNum' = [s \in Sides |-> reqNum[s] + 1]

(* ServeServer takes the tunnel: it counts it and reads the address from it *)
Accept ==
  /\ pc' = [pc EXCEPT !["local"] = "send", !["server"] = "atyp"]
  /\ reqNum' = [reqNum EXCEPT !["server"] = @ + 1]

(* net.Dial to the remote proxy; the cork and the cipher are put around rc *)
DialRemote ==
  /\ pc["local"] = "dial" /\ Accept
  /\ UNCHANGED <<UDPEnabled, req, stream, need, cmd, addr, replies, far, stall>>

(* net.Dial to tgt.String(); ReqNum counts the connection a second time *)
DialTarget ==
  /\ pc["server"] = "dial"
  /\ Goto("server", "relay")
  /\ dialled' = String(addr["server"])
  /\ reqNum' = [reqNum EXCEPT !["server"] = @ + 1]
  /\ UNCHANGED <<UDPEnabled, req, stream, need, cmd, addr, replies, out, stall>>

DialFail(s) == pc[s] = "dial" /\ Return(s)

(* rc.Write(tgt) *)
SendAddr ==
  /\ pc["local"] = "send" /\ end["server"] # "reset"
  /\ in' = [in EXCEPT !["server"] = @ \o addr["local"]]
  /\ Goto("local", "relay")
  /\ UNCHANGED <<UDPEnabled, req, script, end, need, cmd, addr, replies, far, reqNum,
                 stall>>

SendAddrFail == pc["local"] = "send" /\ end["server"] = "reset" /\ Return("local")

(* one read and one write of the relay, towards the target *)
Forward(s, n) ==
  /\ pc[s] = "relay" /\ end[s] # "reset" /\ n <= Len(in[s])
  /\ LET data == SubSeq(in[s], 1, n)
         rest == SubSeq(in[s], n + 1, Len(in[s]))
     IN  \/ /\ s = "local" /\ end["server"] # "reset" /\ pc["server"] # "closed"
            /\ in' = [in EXCEPT !["local"] = rest, !["server"] = @ \o data]
            /\ UNCHANGED out
         \/ /\ s = "server"
            /\ in' = [in EXCEPT !["server"] = rest]
            /\ out' = out \o data
  /\ UNCHANGED <<UDPEnabled, req, script, end, pc, need, cmd, addr, replies, dialled,
                 reqNum, stall>>

(* both directions of the relay have ended: this one by its own end, by the
   failure of the next hop, or cut off after the other one ended; wg.Wait waits
   for a copier that is blocked in a write *)
RelayEnd(s) == pc[s] = "relay" /\ ~stall[s] /\ Return(s)

-----------------------------------------------------------------------------
Handler(s) ==
  \/ Refuse(s) \/ ReadType(s) \/ ReadDomainLength(s) \/ ReadRest(s)
  \/ Drain(s) \/ DrainEnd(s) \/ DialFail(s)
  \/ s = "local" /\ DialRemote
  \/ s = "server" /\ DialTarget

HandShake ==
  ReadGreeting \/ ReadMethods \/ ChooseMethod \/ ReadRequest \/ AnswerRequest

Next ==
  \/ \E n \in 1 .. Len(script) : ClientSend(n)
  \/ \E s \in Sides, how \in {"eof", "reset"} : StreamEnd(s, how)
  \/ HandShake \/ SendAddr \/ SendAddrFail \/ Undecipherable
  \/ \E s \in Sides :
       \/ Handler(s) \/ RelayEnd(s) \/ PeerStall(s)
       \/ \E n \in 1 .. Len(in[s]) : Forward(s, n)

Spec == Init /\ [][Next]_vars

(***************************************************************************)
(* Handlers run, a dial returns, and a relay whose request direction has   *)
(* ended ends in the end if the peers take data again and again (RelayEnds *)
(* of module Relay, with a ReadTimeout).  The client owes nothing, and any *)
(* peer may stop taking data for good.                                     *)
(***************************************************************************)
Fairness ==
  /\ WF_vars(HandShake) /\ WF_vars(SendAddr \/ SendAddrFail)
  /\ \A s \in Sides :
       /\ WF_vars(Handler(s))
       /\ SF_vars(RelayEnd(s) /\ (end[s] # "open" \/ pc["server"] = "closed"))

FairSpec == Spec /\ Fairness

-----------------------------------------------------------------------------
TypeOK ==
  /\ UDPEnabled \in BOOLEAN
  /\ req \in Requests
  /\ script \in Seq(Byte)
  /\ in \in [Sides -> Seq(Byte)]
  /\ end \in [Sides -> {"open", "eof", "reset"}]
  /\ pc \in [Sides -> Reading \union {"none", "choose", "answer", "drain", "dial",
                                      "send", "relay", "closed"}]
  /\ need \in [Sides -> 0 .. 257]
  /\ cmd \in Byte
  /\ addr \in [Sides -> Seq(Byte)]
  /\ replies \in Seq({"method", "success", "udp"} \X Seq(Byte))
  /\ out \in Seq(Byte)
  /\ reqNum \in [Sides -> 0 .. 2] /\ reqNum["local"] = 1
  /\ stall \in [Sides -> BOOLEAN]

(***************************************************************************)
(* "ReadAddr reads just enough bytes from r to get a valid Addr": however  *)
(* the request is fragmented or run together with the data behind it, both *)
(* proxies hold exactly the client's address when they have read it, and   *)
(* every byte of its data is still in front of them, in order.  Whatever   *)
(* ends when, the target is sent nothing but this data, from its start.    *)
(***************************************************************************)
JustEnough ==
  /\ pc["local"] \in {"answer", "dial", "send"} =>
       addr["local"] = AddrOf(req) /\ in["local"] \o script = req.payload
  /\ pc["server"] \in {"dial", "relay"} => addr["server"] = AddrOf(req)
  /\ pc["local"] = "relay" /\ pc["server"] = "relay" =>
       out \o in["server"] \o in["local"] \o script = req.payload
  /\ Len(out) <= Len(req.payload) /\ out = SubSeq(req.payload, 1, Len(out))

(***************************************************************************)
(* The conversions agree on both sides: the server dials what the client   *)
(* meant, for every type of address and both bytes of the port, and only   *)
(* for a client that was told so; and the address that a UDP client is     *)
(* told, cut out of what may follow it, is the one the proxy listens on.   *)
(***************************************************************************)
RightAddress ==
  /\ dialled # nil =>
       dialled = Target(req) /\ req.cmd = CmdConnect /\ Len(replies) = 2
  /\ \A i \in DOMAIN replies :
       replies[i][1] = "udp" =>
         LET told == SplitAddr(replies[i][2] \o req.payload)
         IN  told # nil /\ String(told) = LocalAddr

(***************************************************************************)
(* When the client has gone, in whatever state it leaves the two handlers, *)
(* both close their connections.  The exception is a write without a       *)
(* deadline that is blocked for good: the local handler's own keeps it     *)
(* open, and with it, or by a write of its own, the server's.              *)
(***************************************************************************)
GoneMeansClosed ==
  /\ end["local"] # "open" ~> (pc["local"] = "closed" \/ []stall["local"])
  /\ end["local"] # "open" ~>
       \/ pc["local"] = "closed" /\ pc["server"] \in {"none", "closed"}
       \/ []stall["local"] \/ []stall["server"]
=============================================================================
