------------------------------- MODULE Relay -------------------------------
(***************************************************************************)
(* Server.relay of m_server/socks_server.go: two copiers, the goroutine    *)
(* that copies left to right and the caller that copies right to left, and *)
(* the return when both have ended.  A copier that ends sets a read        *)
(* deadline on the other connection, so that the other copier is cut off   *)
(* after ReadTimeout.  Both handlers call relay with the corked, encrypted *)
(* connection as left and a plain TCP connection as right, and close both  *)
(* when it returns.                                                        *)
(*                                                                         *)
(* Data is counted in chunks (what one Read returns and one Write takes).  *)
(* A copier is named after the connection it reads.  Of the cork (module   *)
(* CorkedConn) what matters here is that Write accepts chunks before they  *)
(* are on the wire.                                                        *)
(***************************************************************************)
EXTENDS Naturals

CONSTANTS
  Handlers,    \* whose relay it is: that of "ServeServer", "ServeLocal" or either
  ReadTimeout, \* srv.ReadTimeout in seconds; 0 when it is not configured
  MaxChunks    \* bound on the chunks the peer of each connection sends

Conns == {"left", "right"}

ASSUME RelayAssumption == ReadTimeout \in Nat /\ MaxChunks \in [Conns -> Nat]

Other(c) == IF c = "left" THEN "right" ELSE "left"

VARIABLES
  sent,      \* chunks the peer of a connection has sent
  end,       \* how its stream stands: "open", "eof", or "reset" both ways
  stall,     \* the peer takes no data: a network write blocks
  got,       \* chunks read from a connection
  placed,    \* chunks a connection's Write has accepted
  wire,      \* chunks it has put on the network
  cork,      \* left's cork: "off", "armed", "flushing" or "done"
  deadline,  \* read deadline of a connection: "none", "armed" or "past"
  corkFirst, \* it was set when the cork's timer was already running
  fresh,     \* left has not received its salt yet (the local side)
  pc,        \* each copier: "read", "write", "arm" or "done"
  err,       \* what ended it: "nil", "deadline" or "other"
  res,       \* relay's result: "none" before it returns, then "nil" or "err"
  closed     \* the handler has closed both connections

peers == <<sent, end, stall>>
outs == <<placed, wire, cork>>
timers == <<deadline, corkFirst>>
vars == <<sent, end, stall, got, placed, wire, cork, deadline, corkFirst,
          fresh, pc, err, res, closed>>

(***************************************************************************)
(* ServeServer has read the target address from left before it relays and  *)
(* has written nothing to it: the copier of right starts by sending the    *)
(* salt.  ServeLocal has written the address to left, so that the cork is  *)
(* armed or already gone, and has read nothing.                            *)
(***************************************************************************)
Init ==
  /\ \/ "ServeServer" \in Handlers /\ fresh = FALSE /\ cork = "off"
     \/ "ServeLocal" \in Handlers /\ fresh = TRUE /\ cork \in {"armed", "flushing", "done"}
  /\ sent = [c \in Conns |-> 0]
  /\ end = [c \in Conns |-> "open"]
  /\ stall = [c \in Conns |-> FALSE]
  /\ got = [c \in Conns |-> 0]
  /\ placed = [c \in Conns |-> 0]
  /\ wire = [c \in Conns |-> 0]
  /\ deadline = [c \in Conns |-> "none"]
  /\ corkFirst = [c \in Conns |-> FALSE]
  /\ pc = [c \in Conns |-> "read"]
  /\ err = [c \in Conns |-> "nil"]
  /\ res = "none"
  /\ closed = FALSE

-----------------------------------------------------------------------------
(* The peers and the network, as long as the connections are open          *)

PeerSend(c) ==
  /\ ~closed /\ end[c] = "open" /\ sent[c] < MaxChunks[c]
  /\ sent' = [sent EXCEPT ![c] = @ + 1]
  /\ UNCHANGED <<end, stall, got, outs, timers, fresh, pc, err, res, closed>>

PeerEnd(c, how) ==
  /\ ~closed /\ end[c] # "reset" /\ how # end[c]
  /\ end' = [end EXCEPT ![c] = how]
  /\ UNCHANGED <<sent, stall, got, outs, timers, fresh, pc, err, res, closed>>

PeerStall(c) ==
  /\ ~closed /\ end[c] # "reset"
  /\ stall' = [stall EXCEPT ![c] = ~@]
  /\ UNCHANGED <<sent, end, got, outs, timers, fresh, pc, err, res, closed>>

-----------------------------------------------------------------------------
(* io.Copy(Other(c), c): read a chunk, write it, until an end or an error. *)
(* An expired deadline fails the read even when data is there.             *)

(* streamConn.ReadFrom calls initWriter, whose salt goes into the buffer of
   left's cork and starts the cork's timer, before it reads right *)
InitWriter ==
  /\ pc["right"] = "read" /\ cork = "off"
  /\ cork' = "armed"
  /\ UNCHANGED <<peers, got, placed, wire, timers, fresh, pc, err, res, closed>>

Reading(c) == pc[c] = "read" /\ (c = "right" => cork # "off")

(* fault: one chunk more than there is *)
ArrivedMore(c) == end[c] # "reset" /\ got[c] <= sent[c]

Arrived(c) == end[c] # "reset" /\ got[c] < sent[c]

Read(c) ==
  /\ Reading(c) /\ deadline[c] # "past" /\ Arrived(c)
  /\ got' = [got EXCEPT ![c] = @ + 1]
  /\ fresh' = (fresh /\ c # "left")
  /\ pc' = [pc EXCEPT ![c] = "write"]
  /\ UNCHANGED <<peers, outs, timers, err, res, closed>>

(* the copier of c leaves its loop with e *)
Stop(c, e) ==
  /\ pc' = [pc EXCEPT ![c] = "arm"]
  /\ err' = [err EXCEPT ![c] = e]
  /\ UNCHANGED <<peers, got, outs, timers, fresh, res, closed>>

(* EOF is no error, except where a salt was expected: streamConn.WriteTo
   hands on the io.EOF of initReader *)
ReadEOF(c) ==
  /\ Reading(c) /\ deadline[c] # "past"
  /\ end[c] = "eof" /\ got[c] = sent[c]
  /\ Stop(c, IF c = "left" /\ fresh THEN "other" ELSE "nil")

ReadFail(c) ==
  /\ Reading(c)
  /\ \/ deadline[c] = "past" /\ Stop(c, "deadline")
     \/ deadline[c] # "past" /\ end[c] = "reset" /\ Stop(c, "other")

(* what arrives on left ends within a record, does not open, or starts with
   a salt that is known *)
OpenFail ==
  /\ Reading("left") /\ deadline["left"] # "past" /\ Stop("left", "other")

(* the chunk stays in the cork's buffer: no network, no blocking *)
WriteCorked ==
  /\ pc["right"] = "write" /\ cork = "armed"
  /\ placed' = [placed EXCEPT !["left"] = @ + 1]
  /\ pc' = [pc EXCEPT !["right"] = "read"]
  /\ UNCHANGED <<peers, got, wire, cork, timers, fresh, err, res, closed>>

(* the chunk goes to the network, and the buffer, which it overflows, before it *)
Write(c) ==
  /\ pc[c] = "write" /\ (c = "right" => cork # "flushing")
  /\ end[Other(c)] # "reset" /\ ~stall[Other(c)]
  /\ placed' = [placed EXCEPT ![Other(c)] = @ + 1]
  /\ wire' = [wire EXCEPT ![Other(c)] = placed[Other(c)] + 1]
  /\ pc' = [pc EXCEPT ![c] = "read"]
  /\ UNCHANGED <<peers, got, cork, timers, fresh, err, res, closed>>

WriteFail(c) ==
  /\ pc[c] = "write" /\ (c = "right" => cork # "flushing")
  /\ end[Other(c)] = "reset"
  /\ Stop(c, "other")

(* fault: the copier cuts off itself, not the other one *)
CutOffOwn(c) == c

CutOff(c) == Other(c)

(* SetReadDeadline on the other connection; then wg.Done, or wg.Wait *)
Arm(c) ==
  /\ pc[c] = "arm"
  /\ IF ReadTimeout > 0
     THEN /\ deadline' = [deadline EXCEPT ![CutOff(c)] = "armed"]
          /\ corkFirst' = [corkFirst EXCEPT ![CutOff(c)] = (cork = "armed")]
     ELSE UNCHANGED timers
  /\ pc' = [pc EXCEPT ![c] = "done"]
  /\ UNCHANGED <<peers, got, outs, fresh, err, res, closed>>

(* fault: the goroutine's error is not looked at *)
ResultOwn == IF err["right"] = "other" THEN "err" ELSE "nil"

(* either copier's error, but not the timeout that the other one set *)
Result == IF \E c \in Conns : err[c] = "other" THEN "err" ELSE "nil"

(* wg.Wait() is over *)
Return ==
  /\ res = "none" /\ \A c \in Conns : pc[c] = "done"
  /\ res' = Result
  /\ UNCHANGED <<peers, got, outs, timers, fresh, pc, err, closed>>

(* the deferred Close of both connections in the handler *)
Close ==
  /\ res # "none" /\ ~closed
  /\ closed' = TRUE
  /\ UNCHANGED <<peers, got, outs, timers, fresh, pc, err, res>>

-----------------------------------------------------------------------------
(* Timers.  ReadTimeout is a whole number of seconds and the cork's delay  *)
(* is 10 ms: a deadline set while the cork's timer was running passes      *)
(* after that timer has fired.  A deadline is of no use any more when the  *)
(* copier that reads the connection has left its loop.                     *)

Expire(c) ==
  /\ deadline[c] = "armed" /\ pc[c] \in {"read", "write"}
  /\ corkFirst[c] => cork # "armed"
  /\ deadline' = [deadline EXCEPT ![c] = "past"]
  /\ UNCHANGED <<peers, got, outs, corkFirst, fresh, pc, err, res, closed>>

Uncork ==
  /\ cork = "armed"
  /\ cork' = "flushing"
  /\ UNCHANGED <<peers, got, placed, wire, timers, fresh, pc, err, res, closed>>

(* fault: corked is cleared and the buffer forgotten *)
FlushedNone == wire

Flushed == IF closed \/ end["left"] = "reset" THEN wire
           ELSE [wire EXCEPT !["left"] = placed["left"]]

Flush ==
  /\ cork = "flushing"
  /\ closed \/ end["left"] = "reset" \/ ~stall["left"]
  /\ cork' = "done"
  /\ wire' = Flushed
  /\ UNCHANGED <<peers, got, placed, timers, fresh, pc, err, res, closed>>

-----------------------------------------------------------------------------
Peer(c) == PeerSend(c) \/ PeerEnd(c, "eof") \/ PeerEnd(c, "reset") \/ PeerStall(c)
Copy(c) == Read(c) \/ ReadEOF(c) \/ ReadFail(c) \/ Write(c) \/ WriteFail(c) \/ Arm(c)

Next ==
  \/ \E c \in Conns : Peer(c) \/ Copy(c) \/ Expire(c)
  \/ InitWriter \/ OpenFail \/ WriteCorked \/ Return \/ Close \/ Uncork \/ Flush

Spec == Init /\ [][Next]_vars

(***************************************************************************)
(* The two goroutines and the timers run.  A write to a peer that takes    *)
(* data again and again gets through in the end.  Nothing is assumed of    *)
(* the peers: they may stay silent, send what does not open, or stop       *)
(* taking data, forever.                                                   *)
(***************************************************************************)
Fairness ==
  /\ \A c \in Conns :
       /\ WF_vars(\/ Read(c) \/ ReadEOF(c) \/ ReadFail(c) \/ WriteFail(c) \/ Arm(c)
                  \/ c = "right" /\ (InitWriter \/ WriteCorked))
       /\ SF_vars(Write(c)) /\ WF_vars(Expire(c))
  /\ WF_vars(Return) /\ WF_vars(Close)
  /\ WF_vars(Uncork) /\ SF_vars(Flush)

FairSpec == Spec /\ Fairness

-----------------------------------------------------------------------------
TypeOK ==
  /\ \A c \in Conns :
       /\ sent[c] \in 0 .. MaxChunks[c] /\ got[c] \in 0 .. sent[c]
       /\ placed[Other(c)] \in 0 .. got[c] /\ wire[c] \in 0 .. placed[c]
  /\ DOMAIN sent = Conns /\ DOMAIN got = Conns
  /\ DOMAIN placed = Conns /\ DOMAIN wire = Conns
  /\ end \in [Conns -> {"open", "eof", "reset"}]
  /\ stall \in [Conns -> BOOLEAN]
  /\ cork \in {"off", "armed", "flushing", "done"}
  /\ deadline \in [Conns -> {"none", "armed", "past"}]
  /\ corkFirst \in [Conns -> BOOLEAN]
  /\ fresh \in BOOLEAN
  /\ pc \in [Conns -> {"read", "write", "arm", "done"}]
  /\ err \in [Conns -> {"nil", "deadline", "other"}]
  /\ res \in {"none", "nil", "err"}
  /\ closed \in BOOLEAN

(***************************************************************************)
(* A nil result means that the direction that ended first ended with its   *)
(* peer's EOF and had passed on every chunk of it: both copiers cannot     *)
(* have cut off one another.                                               *)
(***************************************************************************)
NilMeansPassedOn ==
  res = "nil" =>
    \E c \in Conns : end[c] # "open" /\ got[c] = sent[c] /\ placed[Other(c)] = got[c]

(***************************************************************************)
(* Chunks do not overtake or vanish in the relay: what a connection has    *)
(* accepted is what was read on the other side, up to the one in the       *)
(* copier's hands, and what is on the network is what was accepted, up to  *)
(* the cork.                                                               *)
(***************************************************************************)
Conserved ==
  \A c \in Conns :
    /\ pc[c] = "read" => placed[Other(c)] = got[c]
    /\ pc[c] = "write" => placed[Other(c)] + 1 = got[c]
    /\ wire["right"] = placed["right"]
    /\ cork = "done" /\ end["left"] # "reset" /\ ~closed => wire["left"] = placed["left"]

(***************************************************************************)
(* When one direction has ended, whatever the silence of the other peer,   *)
(* the relay returns and the connections are closed, unless a write is     *)
(* blocked for good by a peer that takes no data.                          *)
(***************************************************************************)
RelayEnds ==
  (\E c \in Conns : pc[c] = "done")
    ~> (closed \/ [](\E c \in Conns : pc[c] = "write" /\ res = "none"))

(***************************************************************************)
(* docs/introduction/design.md: the server reads what the target returns   *)
(* and writes it back to the local proxy.  When all is over in ServeServer *)
(* every chunk read from the target has been sent, unless the local proxy  *)
(* had closed the connection or lost it.                                   *)
(***************************************************************************)
ReplyWrittenBack == closed /\ end["left"] = "open" => wire["left"] = got["right"]
=============================================================================
