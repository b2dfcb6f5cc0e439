----------------------------- MODULE AcceptLoop -----------------------------
(***************************************************************************)
(* One process of the proxy from main to its exit: configuration, cipher,  *)
(* listener, the accept loop of ServeLocal or of ServeServer, and the      *)
(* handlers it starts, as far as the loop and they share anything (module  *)
(* TunnelSetup looks inside a handler).                                    *)
(*                                                                         *)
(* Nothing calls Server.ShutdownHandler, so that CloseNotifyCh stays open, *)
(* CheckGracefulShutdown answers no and no listener is ever closed:        *)
(* Accept fails when the operating system says so.                         *)
(***************************************************************************)
EXTENDS Naturals

CONSTANTS
  Clients,   \* those who connect to this process
  MaxErrors  \* bound on the errors of Accept

ASSUME AcceptAssumption == MaxErrors \in Nat

VARIABLES
  role,      \* Config.Server.Local: "local" or "server"
  proc,      \* where main is
  tempDelay, \* of ServeLocal, in milliseconds
  client,    \* what became of each client
  reqNum,    \* stats.ReqNum
  errors     \* history: the errors of Accept, by kind

vars == <<role, proc, tempDelay, client, reqNum, errors>>

Kinds == {"timeout", "temporary", "permanent"}
ErrorCount == errors["timeout"] + errors["temporary"] + errors["permanent"]

Init ==
  /\ role \in {"local", "server"}
  /\ proc = "config"
  /\ tempDelay = 0
  /\ client = [c \in Clients |-> "away"]
  /\ reqNum = 0
  /\ errors = [k \in Kinds |-> 0]

-----------------------------------------------------------------------------
(* main and Start                                                          *)

Startup(from, to) ==
  /\ proc = from
  /\ proc' = to
  /\ UNCHANGED <<role, tempDelay, client, reqNum, errors>>

(* an unreadable configuration ends the process at once (log.Fatalf) *)
ConfigLoad ==
  \/ Startup("config", "cipher")
  \/ Startup("config", "exited")

PickCipher ==
  \/ Startup("cipher", "listen")
  \/ Startup("cipher", "returned")

Listen ==
  \/ Startup("listen", "accept")
  \/ Startup("listen", "returned")

(* main goes on for a second after Start has returned; then the process
   ends, and the connections of its handlers with it *)
Exit ==
  /\ proc = "returned"
  /\ proc' = "exited"
  /\ client' = [c \in Clients |->
                  IF client[c] \in {"handler", "dialled"} THEN "cut" ELSE client[c]]
  /\ UNCHANGED <<role, tempDelay, reqNum, errors>>

-----------------------------------------------------------------------------
(* The loops                                                               *)

(* fault: without the maximum *)
delayCalcUnbounded(delay) == IF delay = 0 THEN 5 ELSE delay * 2

delayCalc(delay) ==
  LET next == IF delay = 0 THEN 5 ELSE delay * 2
  IN  IF next > 1000 THEN 1000 ELSE next

(* fault: the loop serves the client itself *)
FreeOneByOne == \A d \in Clients : client[d] \notin {"handler", "dialled"}

Free == TRUE  \* a goroutine per connection, without a limit

(* ReqNum is counted and a goroutine started; tempDelay keeps its value *)
Accept(c) ==
  /\ proc = "accept" /\ client[c] = "queued" /\ Free
  /\ client' = [client EXCEPT ![c] = "handler"]
  /\ reqNum' = reqNum + 1
  /\ UNCHANGED <<role, proc, tempDelay, errors>>

(* an error of Accept of kind k, and what the loop does about it *)
Fails(k, next, delay) ==
  /\ proc = "accept" /\ ErrorCount < MaxErrors
  /\ errors' = [errors EXCEPT ![k] = @ + 1]
  /\ proc' = next
  /\ tempDelay' = delay
  /\ UNCHANGED <<role, client, reqNum>>

(* ServeLocal: a timeout is ignored, a temporary error waited out, any other
   one returned *)
LocalError ==
  /\ role = "local"
  /\ \/ Fails("timeout", "accept", tempDelay)
     \/ Fails("temporary", "sleep", delayCalc(tempDelay))
     \/ Fails("permanent", "returned", tempDelay)

(* fault: ServeServer gives up as ServeLocal does *)
ServerErrorReturns ==
  /\ role = "server"
  /\ \E k \in Kinds : Fails(k, IF k = "permanent" THEN "returned" ELSE "accept", tempDelay)

(* ServeServer: whatever the error, accept again at once *)
ServerError ==
  /\ role = "server"
  /\ \E k \in Kinds : Fails(k, "accept", tempDelay)

(* time.Sleep(tempDelay) is over *)
Wake ==
  /\ proc = "sleep"
  /\ proc' = "accept"
  /\ UNCHANGED <<role, tempDelay, client, reqNum, errors>>

-----------------------------------------------------------------------------
(* The clients, and the handlers in the goroutines of their own            *)

(* the listener's backlog takes the connection *)
ClientConnects(c) ==
  /\ proc \in {"accept", "sleep"} /\ client[c] = "away"
  /\ client' = [client EXCEPT ![c] = "queued"]
  /\ UNCHANGED <<role, proc, tempDelay, reqNum, errors>>

(* the handler has reached the next hop; ServeServer counts it once more *)
HandlerDial(c) ==
  /\ proc # "exited" /\ client[c] = "handler"
  /\ client' = [client EXCEPT ![c] = "dialled"]
  /\ reqNum' = IF role = "server" THEN reqNum + 1 ELSE reqNum
  /\ UNCHANGED <<role, proc, tempDelay, errors>>

HandlerEnd(c) ==
  /\ proc # "exited" /\ client[c] \in {"handler", "dialled"}
  /\ client' = [client EXCEPT ![c] = IF @ = "dialled" THEN "served" ELSE "refused"]
  /\ UNCHANGED <<role, proc, tempDelay, reqNum, errors>>

-----------------------------------------------------------------------------
Main == ConfigLoad \/ PickCipher \/ Listen \/ Exit \/ Wake

Next ==
  \/ Main \/ LocalError \/ ServerError
  \/ \E c \in Clients : ClientConnects(c) \/ Accept(c) \/ HandlerDial(c) \/ HandlerEnd(c)

(***************************************************************************)
(* The process runs, and Accept takes every connection of the backlog, as  *)
(* long as its errors do not go on for ever.  Handlers may take for ever.  *)
(***************************************************************************)
Fairness == WF_vars(Main) /\ \A c \in Clients : WF_vars(Accept(c))

Spec == Init /\ [][Next]_vars /\ Fairness

-----------------------------------------------------------------------------
(* delays stay within the maximum of delayCalc *)
TypeOK ==
  /\ role \in {"local", "server"}
  /\ proc \in {"config", "cipher", "listen", "accept", "sleep", "returned", "exited"}
  /\ tempDelay \in 0 .. 1000
  /\ client \in [Clients -> {"away", "queued", "handler", "dialled", "served",
                             "refused", "cut"}]
  /\ reqNum \in Nat
  /\ errors \in [Kinds -> 0 .. MaxErrors]

(***************************************************************************)
(* No tunnel is cut off by the end of the process, and no client left in   *)
(* the backlog, unless Accept has failed for good in the local proxy:      *)
(* neither a temporary error or a timeout in between, nor any error at all *)
(* in the server, costs a connection.                                      *)
(***************************************************************************)
CutHasCause ==
  (\E c \in Clients : client[c] = "cut" \/ (client[c] = "queued" /\ proc = "exited"))
    => role = "local" /\ errors["permanent"] > 0

(***************************************************************************)
(* A client that has connected is given a handler, however long those of   *)
(* the others take and whatever errors Accept meets, unless the local      *)
(* proxy has met a permanent one.                                          *)
(***************************************************************************)
Served ==
  \A c \in Clients :
    client[c] = "queued" ~>
      client[c] # "queued" \/ (role = "local" /\ errors["permanent"] > 0)
=============================================================================
