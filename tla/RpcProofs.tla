------------------------------ MODULE RpcProofs ------------------------------
(***************************************************************************)
(* How a call ended is final, for any number of callers and calls, and     *)
(* whatever the broker does with messages, requests and tasks.             *)
(***************************************************************************)
EXTENDS Rpc, TLAPS

\* Nobody waits for a call that has ended, and a call that has not been made has
\* neither an entry in map_ nor an outcome.
WaitInv ==
  /\ id_ \in [Pids -> Int] /\ DOMAIN map_ = Calls /\ DOMAIN outcome = Calls
  /\ map_ = [c \in Calls |-> map_[c]] /\ outcome = [c \in Calls |-> outcome[c]]
  /\ \A c \in Calls : outcome[c] # None => map_[c] = None
  /\ \A c \in Calls : c[2] >= id_[c[1]] => outcome[c] = None /\ map_[c] = None

\* What OutcomeIsFinal says of one step.
Final == \A c \in Calls : outcome[c] # None => outcome'[c] = outcome[c] /\ map_'[c] = None

LEMMA CallParts ==
  ASSUME NEW c \in Calls
  PROVE  c[1] \in Pids /\ c[2] \in Int /\ c = <<c[1], c[2]>>
BY DEF Calls

LEMMA WaitInit == Init => WaitInv
BY DEF Init, WaitInv

\* A step that makes no call and gives no call an entry.
LEMMA WaitKept ==
  ASSUME WaitInv, UNCHANGED <<id_, outcome>>, map_' = [c \in Calls |-> map_'[c]],
         \A c \in Calls : map_[c] = None => map_'[c] = None
  PROVE  WaitInv' /\ Final
BY DEF WaitInv, Final

LEMMA SendStep ==
  ASSUME WaitInv, NEW p \in Pids, send(p)
  PROVE  WaitInv' /\ Final
<1> DEFINE d == <<p, id_[p]>>
<1>1. /\ id_' = [id_ EXCEPT ![p] = id_[p] + 1] /\ map_' = [map_ EXCEPT ![d] = "EMPTY"]
      /\ outcome' = outcome /\ id_[p] \in Int
  BY DEF send, WaitInv
<1>2. \A c \in Calls : c # d => map_'[c] = map_[c]
  BY <1>1 DEF WaitInv
<1>3. DOMAIN map_' = Calls /\ map_' = [c \in Calls |-> map_'[c]]
  BY <1>1 DEF WaitInv
<1>4. id_' \in [Pids -> Int] /\ id_'[p] = id_[p] + 1 /\ \A q \in Pids \ {p} : id_'[q] = id_[q]
  BY <1>1 DEF WaitInv
<1>5. d \in Calls => outcome[d] = None
  <2> SUFFICES ASSUME d \in Calls PROVE outcome[d] = None
    OBVIOUS
  <2>1. d[2] >= id_[d[1]]
    BY <1>1
  <2> HIDE DEF d
  <2> QED
    BY <2>1 DEF WaitInv
<1>6. ASSUME NEW c \in Calls, c[2] >= id_'[c[1]] PROVE c # d /\ c[2] >= id_[c[1]]
  <2>1. CASE c[1] = p
    BY <1>1, <1>4, <1>6, <2>1, CallParts
  <2>2. CASE c[1] # p
    BY <1>4, <1>6, <2>2, CallParts
  <2> QED
    BY <2>1, <2>2
<1> HIDE DEF d
<1>7. \A c \in Calls : outcome[c] # None => map_'[c] = None
  BY <1>2, <1>5 DEF WaitInv
<1>8. \A c \in Calls : c[2] >= id_'[c[1]] => outcome[c] = None /\ map_'[c] = None
  BY <1>2, <1>6 DEF WaitInv
<1>9. WaitInv'
  BY <1>1, <1>3, <1>4, <1>7, <1>8 DEF WaitInv
<1> QED
  BY <1>1, <1>7, <1>9 DEF Final

\* The caller leaves send with outcome v.
LEMMA EndStep ==
  ASSUME WaitInv, NEW d \in Calls, map_[d] # None, NEW v, v # None,
         map_' = [map_ EXCEPT ![d] = None], outcome' = [outcome EXCEPT ![d] = v], id_' = id_
  PROVE  WaitInv' /\ Final
<1>1. /\ DOMAIN map_' = Calls /\ map_' = [c \in Calls |-> map_'[c]]
      /\ DOMAIN outcome' = Calls /\ outcome' = [c \in Calls |-> outcome'[c]]
      /\ map_'[d] = None
      /\ \A c \in Calls : c # d => map_'[c] = map_[c] /\ outcome'[c] = outcome[c]
  BY DEF WaitInv
<1>2. outcome[d] = None /\ ~(d[2] >= id_[d[1]])
  BY DEF WaitInv
<1> QED
  BY <1>1, <1>2 DEF WaitInv, Final

LEMMA WaitStep ==
  ASSUME WaitInv, [Next]_vars
  PROVE  WaitInv' /\ Final
<1>0. map_ = [c \in Calls |-> map_[c]]
  BY DEF WaitInv
<1>1. ASSUME UNCHANGED <<id_, map_, outcome>> PROVE WaitInv' /\ Final
  BY <1>0, <1>1, WaitKept
<1>2. CASE UNCHANGED vars
  BY <1>1, <1>2 DEF vars, callers
<1>3. ASSUME NEW p \in Pids, discover(p) \/ on_process_stop(p) PROVE WaitInv' /\ Final
  BY <1>1, <1>3 DEF discover, on_process_stop
<1>4. ASSUME NEW p \in Pids, send(p) PROVE WaitInv' /\ Final
  BY <1>4, SendStep
<1>5. ASSUME NEW p \in Pids, OnReply(p) PROVE WaitInv' /\ Final
  <2> DEFINE d == <<p, Head(replies[p]).id>>
             v == IF map_[d] = "EMPTY" THEN Head(replies[p]).value ELSE map_[d]
  <2>1. map_' = [map_ EXCEPT ![d] = v] /\ UNCHANGED <<id_, outcome>>
    BY <1>5 DEF OnReply, receive
  <2>2. map_[d] = None => v = None
    BY RpcAssumption
  <2> HIDE DEF d, v
  <2>3. /\ map_' = [c \in Calls |-> map_'[c]]
        /\ \A c \in Calls : map_[c] = None => map_'[c] = None
    BY <1>0, <2>1, <2>2
  <2> QED
    BY <2>1, <2>3, WaitKept
<1>6. ASSUME NEW c \in Calls, Return(c) PROVE WaitInv' /\ Final
  BY <1>6, EndStep DEF Return
<1>7. ASSUME NEW c \in Calls, GiveUp(c) PROVE WaitInv' /\ Final
  BY <1>7, EndStep, RpcAssumption DEF GiveUp
<1>8. ASSUME NEW p \in Pids, ProcessEnds(p) PROVE WaitInv' /\ Final
  <2>1. /\ map_' = [c \in Calls |-> IF c[1] = p THEN None ELSE map_[c]]
        /\ UNCHANGED <<id_, outcome>>
    BY <1>8 DEF ProcessEnds
  <2>2. /\ map_' = [c \in Calls |-> map_'[c]]
        /\ \A c \in Calls : map_[c] = None => map_'[c] = None
    BY <2>1
  <2> QED
    BY <2>1, <2>2, WaitKept
<1>9. CASE OnMessage
  BY <1>1, <1>9 DEF OnMessage
<1>10. ASSUME NEW i \in Indices, Take(i) \/ Await(i) \/ IdleTimeout(i) \/ Leave(i) \/ ProcessDone(i)
       PROVE  WaitInv' /\ Final
  BY <1>1, <1>10 DEF Take, Await, IdleTimeout, Leave, ProcessDone, callers
<1> QED
  BY <1>2, <1>3, <1>4, <1>5, <1>6, <1>7, <1>8, <1>9, <1>10 DEF Next

\* A late reply has no effect: how a call ended is final, and its id is not waited
\* for again.
THEOREM EndedIsFinal == Spec => OutcomeIsFinal
<1>1. Init => WaitInv
  BY WaitInit
<1>2. WaitInv /\ [Next]_vars => WaitInv' /\ [Final]_vars
  BY WaitStep
<1>3. [][Final]_vars => OutcomeIsFinal
  BY DEF Final, OutcomeIsFinal
<1> QED
  BY <1>1, <1>2, <1>3, PTL DEF Spec
=============================================================================
