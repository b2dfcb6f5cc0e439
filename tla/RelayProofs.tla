---------------------------- MODULE RelayProofs ----------------------------
(***************************************************************************)
(* Proofs about Relay for every timeout and every number of chunks.        *)
(***************************************************************************)
EXTENDS Relay, TLAPS

(***************************************************************************)
(* The inductive invariant.  NilMeansPassedOn needs the order in which the *)
(* copiers ended: a deadline is set by a copier that is done, so that a    *)
(* copier that was cut off came second (CutOffSecond), and the one that    *)
(* came first without an error had passed on all of its stream (Finished). *)
(***************************************************************************)
Running(c) == pc[c] \in {"read", "write"}

(* who has set a deadline is done, and who met one is the second to end *)
CutOffSecond ==
  \A c \in Conns :
    /\ deadline[c] # "none" => pc[Other(c)] = "done"
    /\ err[c] = "deadline" =>
         pc[Other(c)] = "done" /\ err[Other(c)] # "deadline" /\ ~Running(c)

(* who ended without an error had passed on all of its stream, which has ended *)
Finished ==
  \A c \in Conns :
    ~Running(c) /\ err[c] = "nil" =>
      end[c] # "open" /\ got[c] = sent[c] /\ placed[Other(c)] = got[c]

(* relay's result, and what may follow it *)
Outcome ==
  /\ res # "none" => \A c \in Conns : pc[c] = "done"
  /\ res = "nil" => \A c \in Conns : err[c] # "other"
  /\ closed => res # "none"

Inv == TypeOK /\ Conserved /\ CutOffSecond /\ Finished /\ Outcome

(* The connections are two, each the other's other.                        *)
LEMMA OtherConn ==
  /\ "left" \in Conns /\ Other("left") = "right"
  /\ "right" \in Conns /\ Other("right") = "left"
  /\ \A c \in Conns : Other(c) \in Conns /\ Other(c) # c /\ Other(Other(c)) = c
  /\ \A c, d \in Conns : d = c \/ d = Other(c)
BY DEF Other, Conns

-----------------------------------------------------------------------------
(* What the peers do keeps Inv.                                            *)
LEMMA PeerStep ==
  ASSUME Inv, NEW c \in Conns, Peer(c)
  PROVE  Inv'
<1>. USE OtherConn, RelayAssumption DEF Inv, outs, timers
<1>1. CASE PeerSend(c)
  <2>1. TypeOK'
    BY <1>1 DEF PeerSend, TypeOK, Conserved
  <2>2. Conserved'
    BY <1>1 DEF PeerSend, TypeOK, Conserved
  <2>3. CutOffSecond'
    BY <1>1 DEF PeerSend, TypeOK, CutOffSecond, Running
  <2>4. Finished'
    BY <1>1 DEF PeerSend, TypeOK, Conserved, CutOffSecond, Finished, Running
  <2>5. Outcome'
    BY <1>1 DEF PeerSend, TypeOK, Outcome
  <2>6. QED
    BY <2>1, <2>2, <2>3, <2>4, <2>5 DEF Inv
<1>2. CASE \E how \in {"eof", "reset"} : PeerEnd(c, how)
  <2>1. TypeOK'
    BY <1>2 DEF PeerEnd, TypeOK, Conserved
  <2>2. Conserved'
    BY <1>2 DEF PeerEnd, TypeOK, Conserved
  <2>3. CutOffSecond'
    BY <1>2 DEF PeerEnd, TypeOK, CutOffSecond, Running
  <2>4. Finished'
    BY <1>2 DEF PeerEnd, TypeOK, Conserved, CutOffSecond, Finished, Running
  <2>5. Outcome'
    BY <1>2 DEF PeerEnd, TypeOK, Outcome
  <2>6. QED
    BY <2>1, <2>2, <2>3, <2>4, <2>5 DEF Inv
<1>3. CASE PeerStall(c)
  <2>1. TypeOK'
    BY <1>3 DEF PeerStall, TypeOK, Conserved
  <2>2. Conserved'
    BY <1>3 DEF PeerStall, TypeOK, Conserved
  <2>3. CutOffSecond'
    BY <1>3 DEF PeerStall, TypeOK, CutOffSecond, Running
  <2>4. Finished'
    BY <1>3 DEF PeerStall, TypeOK, Conserved, CutOffSecond, Finished, Running
  <2>5. Outcome'
    BY <1>3 DEF PeerStall, TypeOK, Outcome
  <2>6. QED
    BY <2>1, <2>2, <2>3, <2>4, <2>5 DEF Inv
<1>4. QED
  BY <1>1, <1>2, <1>3 DEF Peer

-----------------------------------------------------------------------------
(* A copier that takes a chunk or hands one on keeps Inv.                  *)
LEMMA ChunkStep ==
  ASSUME Inv, NEW c \in Conns, Read(c) \/ Write(c) \/ WriteCorked
  PROVE  Inv'
<1>. USE OtherConn, RelayAssumption DEF Inv, peers, outs, timers
<1>1. CASE Read(c)
  <2>1. TypeOK'
    BY <1>1 DEF Read, Reading, Arrived, TypeOK, Conserved
  <2>2. Conserved'
    BY <1>1 DEF Read, Reading, Arrived, TypeOK, Conserved
  <2>3. CutOffSecond'
    BY <1>1 DEF Read, Reading, Arrived, TypeOK, CutOffSecond, Running
  <2>4. Finished'
    BY <1>1 DEF Read, Reading, Arrived, TypeOK, Conserved, CutOffSecond, Finished, Running
  <2>5. Outcome'
    BY <1>1 DEF Read, Reading, Arrived, TypeOK, Outcome
  <2>6. QED
    BY <2>1, <2>2, <2>3, <2>4, <2>5 DEF Inv
<1>2. CASE Write(c)
  <2>1. TypeOK'
    <3>1. /\ placed' = [placed EXCEPT ![Other(c)] = @ + 1]
          /\ wire' = [wire EXCEPT ![Other(c)] = placed[Other(c)] + 1]
          /\ placed[Other(c)] + 1 = got[c] /\ UNCHANGED <<sent, got>>
      BY <1>2 DEF Write, Conserved
    <3>2. DOMAIN placed' = Conns /\ DOMAIN wire' = Conns
      BY <3>1 DEF TypeOK
    <3>3. ASSUME NEW d \in Conns
          PROVE  placed'[Other(d)] \in 0 .. got[d] /\ wire'[d] \in 0 .. placed'[d]
      BY <3>1, <3>3 DEF TypeOK
    <3>4. cork' \in {"off", "armed", "flushing", "done"}
          /\ pc' \in [Conns -> {"read", "write", "arm", "done"}]
      BY <1>2 DEF Write, TypeOK
    <3>5. QED
      BY <1>2, <3>1, <3>2, <3>3, <3>4 DEF Write, TypeOK
  <2>2. Conserved'
    BY <1>2 DEF Write, TypeOK, Conserved
  <2>3. CutOffSecond'
    BY <1>2 DEF Write, TypeOK, CutOffSecond, Running
  <2>4. Finished'
    BY <1>2 DEF Write, TypeOK, Conserved, CutOffSecond, Finished, Running
  <2>5. Outcome'
    BY <1>2 DEF Write, TypeOK, Outcome
  <2>6. QED
    BY <2>1, <2>2, <2>3, <2>4, <2>5 DEF Inv
<1>3. CASE WriteCorked
  <2>1. TypeOK'
    <3>1. /\ placed' = [placed EXCEPT !["left"] = @ + 1] /\ UNCHANGED <<sent, got, wire>>
          /\ placed["left"] + 1 = got["right"]
      BY <1>3 DEF WriteCorked, Conserved
    <3>2. DOMAIN placed' = Conns
      BY <3>1 DEF TypeOK
    <3>3. ASSUME NEW d \in Conns
          PROVE  placed'[Other(d)] \in 0 .. got[d] /\ wire[d] \in 0 .. placed'[d]
      BY <3>1, <3>3 DEF TypeOK
    <3>4. pc' \in [Conns -> {"read", "write", "arm", "done"}]
      BY <1>3 DEF WriteCorked, TypeOK
    <3>5. QED
      BY <1>3, <3>1, <3>2, <3>3, <3>4 DEF WriteCorked, TypeOK
  <2>2. Conserved'
    BY <1>3 DEF WriteCorked, TypeOK, Conserved
  <2>3. CutOffSecond'
    BY <1>3 DEF WriteCorked, TypeOK, CutOffSecond, Running
  <2>4. Finished'
    BY <1>3 DEF WriteCorked, TypeOK, Conserved, CutOffSecond, Finished, Running
  <2>5. Outcome'
    BY <1>3 DEF WriteCorked, TypeOK, Outcome
  <2>6. QED
    BY <2>1, <2>2, <2>3, <2>4, <2>5 DEF Inv
<1>4. QED
  BY <1>1, <1>2, <1>3

(* A copier that leaves its loop keeps Inv: at an EOF it has passed on     *)
(* everything, and one that was cut off finds the other one done.          *)
LEMMA StopStep ==
  ASSUME Inv, NEW c \in Conns, ReadEOF(c) \/ ReadFail(c) \/ WriteFail(c) \/ OpenFail
  PROVE  Inv'
<1>. USE OtherConn, RelayAssumption DEF Inv, Stop, peers, outs, timers
<1>1. CASE ReadEOF(c)
  <2>1. TypeOK'
    BY <1>1 DEF ReadEOF, Reading, TypeOK, Conserved
  <2>2. Conserved'
    BY <1>1 DEF ReadEOF, Reading, TypeOK, Conserved
  <2>3. CutOffSecond'
    BY <1>1 DEF ReadEOF, Reading, TypeOK, CutOffSecond, Running
  <2>4. Finished'
    BY <1>1 DEF ReadEOF, Reading, TypeOK, Conserved, CutOffSecond, Finished, Running
  <2>5. Outcome'
    BY <1>1 DEF ReadEOF, Reading, TypeOK, Outcome
  <2>6. QED
    BY <2>1, <2>2, <2>3, <2>4, <2>5 DEF Inv
<1>2. CASE ReadFail(c)
  <2>1. TypeOK'
    BY <1>2 DEF ReadFail, Reading, TypeOK, Conserved
  <2>2. Conserved'
    BY <1>2 DEF ReadFail, Reading, TypeOK, Conserved
  <2>3. CutOffSecond'
    BY <1>2 DEF ReadFail, Reading, TypeOK, CutOffSecond, Running
  <2>4. Finished'
    BY <1>2 DEF ReadFail, Reading, TypeOK, Conserved, CutOffSecond, Finished, Running
  <2>5. Outcome'
    BY <1>2 DEF ReadFail, Reading, TypeOK, Outcome
  <2>6. QED
    BY <2>1, <2>2, <2>3, <2>4, <2>5 DEF Inv
<1>3. CASE WriteFail(c)
  <2>1. TypeOK'
    BY <1>3 DEF WriteFail, TypeOK, Conserved
  <2>2. Conserved'
    BY <1>3 DEF WriteFail, TypeOK, Conserved
  <2>3. CutOffSecond'
    BY <1>3 DEF WriteFail, TypeOK, CutOffSecond, Running
  <2>4. Finished'
    BY <1>3 DEF WriteFail, TypeOK, Conserved, CutOffSecond, Finished, Running
  <2>5. Outcome'
    BY <1>3 DEF WriteFail, TypeOK, Outcome
  <2>6. QED
    BY <2>1, <2>2, <2>3, <2>4, <2>5 DEF Inv
<1>4. CASE OpenFail
  <2>1. TypeOK'
    BY <1>4 DEF OpenFail, Reading, TypeOK, Conserved
  <2>2. Conserved'
    BY <1>4 DEF OpenFail, Reading, TypeOK, Conserved
  <2>3. CutOffSecond'
    BY <1>4 DEF OpenFail, Reading, TypeOK, CutOffSecond, Running
  <2>4. Finished'
    BY <1>4 DEF OpenFail, Reading, TypeOK, Conserved, CutOffSecond, Finished, Running
  <2>5. Outcome'
    BY <1>4 DEF OpenFail, Reading, TypeOK, Outcome
  <2>6. QED
    BY <2>1, <2>2, <2>3, <2>4, <2>5 DEF Inv
<1>5. QED
  BY <1>1, <1>2, <1>3, <1>4

(* Setting and passing of a deadline keep Inv.                             *)
LEMMA DeadlineStep ==
  ASSUME Inv, NEW c \in Conns, Arm(c) \/ Expire(c)
  PROVE  Inv'
<1>. USE OtherConn, RelayAssumption DEF Inv, peers, outs, timers
<1>1. CASE Arm(c)
  <2>1. TypeOK'
    <3>1. corkFirst' \in [Conns -> BOOLEAN]
      <4>1. corkFirst \in [Conns -> BOOLEAN] /\ (cork = "armed") \in BOOLEAN
        BY DEF TypeOK
      <4>2. \/ corkFirst' = corkFirst
            \/ corkFirst' = [corkFirst EXCEPT ![CutOff(c)] = (cork = "armed")]
        BY <1>1 DEF Arm
      <4>3. QED
        BY <4>1, <4>2, Zenon
    <3>2. deadline' \in [Conns -> {"none", "armed", "past"}]
      BY <1>1 DEF Arm, CutOff, TypeOK
    <3>3. pc' \in [Conns -> {"read", "write", "arm", "done"}]
      BY <1>1 DEF Arm, TypeOK
    <3>4. QED
      BY <1>1, <3>1, <3>2, <3>3 DEF Arm, TypeOK
  <2>2. Conserved'
    BY <1>1 DEF Arm, CutOff, TypeOK, Conserved
  <2>3. CutOffSecond'
    BY <1>1 DEF Arm, CutOff, TypeOK, CutOffSecond, Running
  <2>4. Finished'
    BY <1>1 DEF Arm, CutOff, TypeOK, Conserved, CutOffSecond, Finished, Running
  <2>5. Outcome'
    BY <1>1 DEF Arm, CutOff, TypeOK, Outcome
  <2>6. QED
    BY <2>1, <2>2, <2>3, <2>4, <2>5 DEF Inv
<1>2. CASE Expire(c)
  <2>1. TypeOK'
    BY <1>2 DEF Expire, TypeOK, Conserved
  <2>2. Conserved'
    BY <1>2 DEF Expire, TypeOK, Conserved
  <2>3. CutOffSecond'
    BY <1>2 DEF Expire, TypeOK, CutOffSecond, Running
  <2>4. Finished'
    BY <1>2 DEF Expire, TypeOK, Conserved, CutOffSecond, Finished, Running
  <2>5. Outcome'
    BY <1>2 DEF Expire, TypeOK, Outcome
  <2>6. QED
    BY <2>1, <2>2, <2>3, <2>4, <2>5 DEF Inv
<1>3. QED
  BY <1>1, <1>2

(* The salt, the return, the close and the cork's timer keep Inv.          *)
LEMMA EndStep ==
  ASSUME Inv, InitWriter \/ Return \/ Close \/ Uncork \/ Flush
  PROVE  Inv'
<1>. USE OtherConn, RelayAssumption DEF Inv, peers, outs, timers
<1>1. CASE Return
  <2>1. TypeOK'
    BY <1>1 DEF Return, Result, TypeOK, Conserved
  <2>2. Conserved'
    BY <1>1 DEF Return, Result, TypeOK, Conserved
  <2>3. CutOffSecond'
    BY <1>1 DEF Return, Result, TypeOK, CutOffSecond, Running
  <2>4. Finished'
    BY <1>1 DEF Return, Result, TypeOK, Conserved, CutOffSecond, Finished, Running
  <2>5. Outcome'
    BY <1>1 DEF Return, Result, TypeOK, Outcome
  <2>6. QED
    BY <2>1, <2>2, <2>3, <2>4, <2>5 DEF Inv
<1>2. CASE Close
  <2>1. TypeOK'
    BY <1>2 DEF Close, TypeOK, Conserved
  <2>2. Conserved'
    BY <1>2 DEF Close, TypeOK, Conserved
  <2>3. CutOffSecond'
    BY <1>2 DEF Close, TypeOK, CutOffSecond, Running
  <2>4. Finished'
    BY <1>2 DEF Close, TypeOK, Conserved, CutOffSecond, Finished, Running
  <2>5. Outcome'
    BY <1>2 DEF Close, TypeOK, Outcome
  <2>6. QED
    BY <2>1, <2>2, <2>3, <2>4, <2>5 DEF Inv
<1>3. CASE Uncork
  <2>1. TypeOK'
    BY <1>3 DEF Uncork, TypeOK, Conserved
  <2>2. Conserved'
    BY <1>3 DEF Uncork, TypeOK, Conserved
  <2>3. CutOffSecond'
    BY <1>3 DEF Uncork, TypeOK, CutOffSecond, Running
  <2>4. Finished'
    BY <1>3 DEF Uncork, TypeOK, Conserved, CutOffSecond, Finished, Running
  <2>5. Outcome'
    BY <1>3 DEF Uncork, TypeOK, Outcome
  <2>6. QED
    BY <2>1, <2>2, <2>3, <2>4, <2>5 DEF Inv
<1>4. CASE Flush
  <2>1. TypeOK'
    <3>1. DOMAIN wire' = Conns /\ \A c \in Conns : wire'[c] \in 0 .. placed[c]
      <4>1. \A c \in Conns : placed[c] \in Nat
        BY DEF TypeOK
      <4>2. QED
        BY <1>4, <4>1 DEF Flush, Flushed, TypeOK
    <3>2. QED
      BY <1>4, <3>1 DEF Flush, TypeOK
  <2>2. Conserved'
    BY <1>4 DEF Flush, Flushed, TypeOK, Conserved
  <2>3. CutOffSecond'
    BY <1>4 DEF Flush, Flushed, TypeOK, CutOffSecond, Running
  <2>4. Finished'
    BY <1>4 DEF Flush, Flushed, TypeOK, Conserved, CutOffSecond, Finished, Running
  <2>5. Outcome'
    BY <1>4 DEF Flush, Flushed, TypeOK, Outcome
  <2>6. QED
    BY <2>1, <2>2, <2>3, <2>4, <2>5 DEF Inv
<1>5. CASE InitWriter
  <2>1. TypeOK'
    BY <1>5 DEF InitWriter, TypeOK, Conserved
  <2>2. Conserved'
    BY <1>5 DEF InitWriter, TypeOK, Conserved
  <2>3. CutOffSecond'
    BY <1>5 DEF InitWriter, TypeOK, CutOffSecond, Running
  <2>4. Finished'
    BY <1>5 DEF InitWriter, TypeOK, Conserved, CutOffSecond, Finished, Running
  <2>5. Outcome'
    BY <1>5 DEF InitWriter, TypeOK, Outcome
  <2>6. QED
    BY <2>1, <2>2, <2>3, <2>4, <2>5 DEF Inv
<1>6. QED
  BY <1>1, <1>2, <1>3, <1>4, <1>5

-----------------------------------------------------------------------------
(* The inductive invariant holds in every reachable state.                 *)
THEOREM Invariance == Spec => []Inv
<1>1. Init => Inv
  <2>. SUFFICES ASSUME Init PROVE Inv
    OBVIOUS
  <2>1. TypeOK
    <3>1. fresh \in BOOLEAN /\ closed \in BOOLEAN
      BY DEF Init
    <3>2. stall \in [Conns -> BOOLEAN] /\ corkFirst \in [Conns -> BOOLEAN]
      BY Zenon DEF Init
    <3>3. QED
      BY <3>1, <3>2, RelayAssumption, OtherConn DEF Init, TypeOK
  <2>2. Conserved /\ CutOffSecond /\ Finished /\ Outcome
    BY OtherConn DEF Init, Conserved, CutOffSecond, Finished, Outcome, Running, Conns
  <2>3. QED
    BY <2>1, <2>2 DEF Inv
<1>2. Inv /\ [Next]_vars => Inv'
  <2>. SUFFICES ASSUME Inv, [Next]_vars PROVE Inv'
    OBVIOUS
  <2>1. CASE \E c \in Conns : Peer(c) \/ Copy(c) \/ Expire(c)
    BY <2>1, PeerStep, ChunkStep, StopStep, DeadlineStep DEF Copy
  <2>2. CASE WriteCorked \/ OpenFail
    BY <2>2, ChunkStep, StopStep DEF Conns
  <2>3. CASE InitWriter \/ Return \/ Close \/ Uncork \/ Flush
    BY <2>3, EndStep
  <2>4. CASE UNCHANGED vars
    BY <2>4 DEF vars, Inv, TypeOK, Conserved, CutOffSecond, Finished, Outcome, Running
  <2>5. QED
    BY <2>1, <2>2, <2>3, <2>4 DEF Next
<1>3. QED
  BY <1>1, <1>2, PTL DEF Spec

(* The counters of chunks stay in order: sent, read, accepted and on the   *)
(* network, none ahead of the one before.                                  *)
THEOREM TypeCorrect == Spec => []TypeOK
<1>1. Inv => TypeOK
  BY DEF Inv
<1>2. QED
  BY <1>1, Invariance, PTL

(* No chunk overtakes another or vanishes between the two reads, the two   *)
(* writes and the cork.                                                    *)
THEOREM Conservation == Spec => []Conserved
<1>1. Inv => Conserved
  BY DEF Inv
<1>2. QED
  BY <1>1, Invariance, PTL

(* relay returns nil only if one direction ended with its peer's end and   *)
(* was passed on whole.  Of two copiers without an error of their own one  *)
(* was not cut off, and it is that one.                                    *)
THEOREM NilIsTrue == Spec => []NilMeansPassedOn
<1>1. Inv => NilMeansPassedOn
  <2>. SUFFICES ASSUME Inv, res = "nil"
                PROVE  \E c \in Conns :
                         end[c] # "open" /\ got[c] = sent[c] /\ placed[Other(c)] = got[c]
    BY DEF NilMeansPassedOn
  <2>1. \A c \in Conns : ~Running(c) /\ err[c] \in {"nil", "deadline"}
    BY DEF Inv, Outcome, TypeOK, Running
  <2>2. PICK c \in Conns : err[c] # "deadline"
    BY OtherConn DEF Inv, CutOffSecond, Conns
  <2>3. QED
    BY <2>1, <2>2 DEF Inv, Finished
<1>2. QED
  BY <1>1, Invariance, PTL
=============================================================================
