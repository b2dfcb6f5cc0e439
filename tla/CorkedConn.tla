----------------------------- MODULE CorkedConn -----------------------------
(***************************************************************************)
(* corkedConn of m_server/socks_server.go: a net.Conn whose writes are     *)
(* collected in a bufio.Writer for a short delay after the first one, so   *)
(* that the salt, the target address and the first payload leave in one    *)
(* segment.  Two threads of control meet in it: the goroutine that copies  *)
(* data into the connection (writer) and the time.AfterFunc callback that  *)
(* uncorks and flushes (timer).  Both take w.lock, the mutex.              *)
(*                                                                         *)
(* The handler closes the raw connection underneath, without the lock and  *)
(* without a flush; the network may fail in the middle of any write.       *)
(***************************************************************************)
EXTENDS Naturals, Sequences

CONSTANTS
  Bytes,    \* the values a byte can take
  BufSize,  \* capacity of the bufio.Writer (1280 in the program)
  MaxWrite, \* longest argument of one Write
  MaxSent   \* bound on the bytes written to one connection

ASSUME BytesAssumption == Bytes # {}
ASSUME SizeAssumption ==
  /\ BufSize \in Nat \ {0}
  /\ MaxWrite \in Nat \ {0}
  /\ MaxSent \in Nat

VARIABLES
  lock,   \* who holds w.lock: "free", "writer" or "timer"
  corked, \* w.corked
  err,    \* w.err # nil
  timer,  \* "off" until w.once runs, "armed", "fired", "flush", "done"
  buf,    \* bytes in w.bufw
  berr,   \* the sticky error of w.bufw is set
  pc,     \* the writer: "idle", "lock", "buffered", "direct", "failed"
  p,      \* what Write has still to place
  conn,   \* the raw connection: "up", "broken" or "closed"
  wire,   \* bytes the raw connection has taken, in order
  sent    \* history: bytes passed to Write so far, in order

vars == <<lock, corked, err, timer, buf, berr, pc, p, conn, wire, sent>>
wvars == <<corked, err, timer>>   \* what only the timer (and once) writes

Init ==
  /\ lock = "free"
  /\ corked = TRUE
  /\ err = FALSE
  /\ timer = "off"
  /\ buf = << >>
  /\ berr = FALSE
  /\ pc = "idle"
  /\ p = << >>
  /\ conn = "up"
  /\ wire = << >>
  /\ sent = << >>

Available == BufSize - Len(buf)

First(s, n) == SubSeq(s, 1, n)
Rest(s, n) == SubSeq(s, n + 1, Len(s))

(***************************************************************************)
(* net.Conn.Write(q) on the raw connection: it takes all of q, or the      *)
(* first n bytes of it and the connection is broken.  A connection that is *)
(* broken or closed takes nothing.  ok says whether an error is returned.  *)
(***************************************************************************)
ConnWrite(q, n, ok) ==
  /\ wire' = wire \o First(q, n)
  /\ \/ ok /\ conn = "up" /\ n = Len(q) /\ conn' = conn
     \/ ~ok /\ conn = "up" /\ n < Len(q) /\ conn' = "broken"
     \/ ~ok /\ conn # "up" /\ n = 0 /\ conn' = conn

-----------------------------------------------------------------------------
(* The writer.  A caller gives up after the first error, so "failed" is    *)
(* final: streamConn.Write and ReadFrom return and the relay ends.         *)

Call(q) ==
  /\ pc = "idle" /\ conn # "closed"
  /\ Len(sent) + Len(q) <= MaxSent
  /\ p' = q
  /\ sent' = sent \o q
  /\ pc' = "lock"
  /\ UNCHANGED <<lock, wvars, buf, berr, conn, wire>>

(* fault: w.once is missing, so that no timer runs *)
OnceNever == timer

Once == IF corked /\ timer = "off" THEN "armed" ELSE timer

(* Lock, the test of w.err, and w.once: the first corked Write arms the timer *)
Lock ==
  /\ pc = "lock" /\ lock = "free"
  /\ IF err
     THEN pc' = "failed" /\ UNCHANGED <<lock, timer>>
     ELSE /\ lock' = "writer"
          /\ pc' = IF corked THEN "buffered" ELSE "direct"
          /\ timer' = Once
  /\ UNCHANGED <<corked, err, buf, berr, p, conn, wire, sent>>

Return(res) ==
  /\ pc' = res
  /\ lock' = "free"

(* bufw.Write with an empty buffer and a long p: p goes straight to the connection *)
LargeWrite ==
  /\ pc = "buffered" /\ ~berr
  /\ Len(p) > Available /\ buf = << >>
  /\ \E n \in 0 .. Len(p), ok \in BOOLEAN :
       /\ ConnWrite(p, n, ok)
       /\ p' = Rest(p, n)
       /\ berr' = ~ok
  /\ UNCHANGED <<lock, wvars, buf, pc, sent>>

(* bufw.Write with some bytes buffered and a long p: fill the buffer and flush it *)
FillAndFlush ==
  /\ pc = "buffered" /\ ~berr
  /\ Len(p) > Available /\ buf # << >>
  /\ LET full == buf \o First(p, Available)
     IN  \E n \in 0 .. Len(full), ok \in BOOLEAN :
           /\ ConnWrite(full, n, ok)
           /\ buf' = Rest(full, n)
           /\ berr' = ~ok
  /\ p' = Rest(p, Available)
  /\ UNCHANGED <<lock, wvars, pc, sent>>

(* faults: the buffer is stored into from its start; its size is not looked at *)
StoredOver == p

FitsAlways == TRUE

Stored == buf \o p

Fits == Len(p) <= Available

(* the rest of p fits: bufw.Write stores it and Write returns without error *)
Store ==
  /\ pc = "buffered" /\ ~berr
  /\ Fits
  /\ buf' = Stored
  /\ p' = << >>
  /\ Return("idle")
  /\ UNCHANGED <<wvars, berr, conn, wire, sent>>

(* bufw is in error: Write returns it *)
BufferedFail ==
  /\ pc = "buffered" /\ berr
  /\ Return("failed")
  /\ UNCHANGED <<wvars, buf, berr, p, conn, wire, sent>>

(* uncorked: w.Conn.Write(p) *)
DirectWrite ==
  /\ pc = "direct"
  /\ \E n \in 0 .. Len(p), ok \in BOOLEAN :
       /\ ConnWrite(p, n, ok)
       /\ p' = Rest(p, n)
       /\ Return(IF ok THEN "idle" ELSE "failed")
  /\ UNCHANGED <<wvars, buf, berr, sent>>

-----------------------------------------------------------------------------
(* The callback of time.AfterFunc(w.delay, ...).                           *)

Fire ==
  /\ timer = "armed"
  /\ timer' = "fired"
  /\ UNCHANGED <<lock, corked, err, buf, berr, pc, p, conn, wire, sent>>

(* fault: the lock is given back between w.corked = false and the flush *)
HeldByNone == "free"

HeldBy == "timer"

Uncork ==
  /\ timer = "fired" /\ lock = "free"
  /\ lock' = HeldBy
  /\ corked' = FALSE
  /\ timer' = "flush"
  /\ UNCHANGED <<err, buf, berr, pc, p, conn, wire, sent>>

(* fault: the result of Flush is dropped *)
ResultDropped(e) == err

Result(e) == e

(* w.err = w.bufw.Flush(); deferred Unlock *)
Flush ==
  /\ timer = "flush"
  /\ \/ /\ berr \/ buf = << >>
        /\ err' = Result(berr)
        /\ UNCHANGED <<buf, berr, conn, wire>>
     \/ /\ ~berr /\ buf # << >>
        /\ \E n \in 0 .. Len(buf), ok \in BOOLEAN :
             /\ ConnWrite(buf, n, ok)
             /\ buf' = Rest(buf, n)
             /\ berr' = ~ok
             /\ err' = Result(~ok)
  /\ timer' = "done"
  /\ lock' = "free"
  /\ UNCHANGED <<corked, pc, p, sent>>

-----------------------------------------------------------------------------
(* The network, and the deferred Close of the connection handler, which    *)
(* runs when no Write is in progress and knows nothing of the cork.        *)

Break ==
  /\ conn = "up"
  /\ conn' = "broken"
  /\ UNCHANGED <<lock, wvars, buf, berr, pc, p, wire, sent>>

Close ==
  /\ pc \in {"idle", "failed"} /\ conn # "closed"
  /\ conn' = "closed"
  /\ UNCHANGED <<lock, wvars, buf, berr, pc, p, wire, sent>>

Write == Lock \/ LargeWrite \/ FillAndFlush \/ Store \/ BufferedFail \/ DirectWrite
Timer == Fire \/ Uncork \/ Flush

Next ==
  \/ \E n \in 1 .. MaxWrite : \E q \in [1 .. n -> Bytes] : Call(q)
  \/ Write \/ Timer
  \/ Break \/ Close

Spec == Init /\ [][Next]_vars

(***************************************************************************)
(* The writer goroutine runs on once it has called Write, and the runtime  *)
(* fires the timer and runs its callback.  Nobody is obliged to call Write *)
(* or to close.  The mutex is released in every state of the other side,   *)
(* so weak fairness of Uncork would not do: a writer can take the lock     *)
(* again and again.  Go's mutex hands over to a starving waiter: SF.       *)
(***************************************************************************)
Fairness ==
  /\ SF_vars(Lock)
  /\ WF_vars(LargeWrite \/ FillAndFlush \/ Store \/ BufferedFail \/ DirectWrite)
  /\ WF_vars(Fire) /\ SF_vars(Uncork) /\ WF_vars(Flush)

FairSpec == Spec /\ Fairness

-----------------------------------------------------------------------------
TypeOK ==
  /\ lock \in {"free", "writer", "timer"}
  /\ corked \in BOOLEAN
  /\ err \in BOOLEAN
  /\ timer \in {"off", "armed", "fired", "flush", "done"}
  /\ buf \in Seq(Bytes) /\ Len(buf) <= BufSize
  /\ berr \in BOOLEAN
  /\ pc \in {"idle", "lock", "buffered", "direct", "failed"}
  /\ p \in Seq(Bytes)
  /\ conn \in {"up", "broken", "closed"}
  /\ wire \in Seq(Bytes)
  /\ sent \in Seq(Bytes)

(***************************************************************************)
(* Whatever the interleaving of Write and the flush callback, and wherever *)
(* the network fails, every byte handed to Write is on the wire, in the    *)
(* buffer or still in Write's argument, in this order: none is skipped,    *)
(* repeated or overtaken by a direct write that got in between uncorking   *)
(* and flushing, and what a failed write did not send stays where it was.  *)
(***************************************************************************)
NothingLost == wire \o buf \o p = sent

(***************************************************************************)
(* Once the callback has run, no byte stays behind in the bufio.Writer     *)
(* unless w.err tells the next Write so: direct writes never overtake      *)
(* stranded bytes.                                                         *)
(***************************************************************************)
NothingStranded == timer = "done" /\ ~err => buf = << >>

(***************************************************************************)
(* A corked byte leaves within the delay: every byte written reaches the   *)
(* wire, although no later Write may ever come, unless the connection      *)
(* fails or is closed first.                                               *)
(***************************************************************************)
Delivered ==
  \A n \in 1 .. MaxSent : Len(sent) >= n ~> (Len(wire) >= n \/ conn # "up")

(***************************************************************************)
(* The corked connection is a byte pipe (module BytePipe).                 *)
(***************************************************************************)
Pipe == INSTANCE BytePipe WITH up <- conn = "up"

(* Every step of Write, the callback, Close and the network is a step of a *)
(* byte pipe or changes nothing in it.                                     *)
ImplementsBytePipe == Pipe!Spec
=============================================================================
