--------------------------- MODULE SchedulerProofs ---------------------------
(***************************************************************************)
(* Theorems about Scheduler, for every value of its constants.             *)
(***************************************************************************)
EXTENDS Scheduler, FiniteSetTheorems, SequenceTheorems, TLAPS

(***************************************************************************)
(* Types.                                                                  *)
(***************************************************************************)

\* compute_ready_queue_index always names one of the five queues.
LEMMA IndexType ==
  ASSUME NEW pr
  PROVE  compute_ready_queue_index(pr) \in Indexes
BY DEF compute_ready_queue_index, Indexes

\* Unlinking a process leaves queues of processes.
LEMMA RemoveType ==
  ASSUME NEW rq \in [Indexes -> Seq(Procs)], NEW p \in Procs
  PROVE  remove(rq, p) \in [Indexes -> Seq(Procs)]
<1> DEFINE i == compute_ready_queue_index(priority[p])
           at == {k \in DOMAIN rq[i] : rq[i][k] = p}
           k == CHOOSE k \in at : TRUE
           cut == SubSeq(rq[i], 1, k - 1) \o SubSeq(rq[i], k + 1, Len(rq[i]))
<1>1. i \in Indexes
  BY IndexType
<1>2. CASE at = {}
  BY <1>2 DEF remove
<1>3. CASE at # {}
  <2>1. k \in at
    BY <1>3
  <2>2. /\ rq[i] \in Seq(Procs)
        /\ k \in 1..Len(rq[i])
    BY <2>1, <1>1
  <2> HIDE DEF k, i
  <2>3. SubSeq(rq[i], 1, k - 1) \in Seq(Procs)
    <3>1. \A j \in 1..(k - 1) : rq[i][j] \in Procs
      BY <2>2
    <3> QED
      BY <3>1, <2>2, SubSeqProperties
  <2>4. SubSeq(rq[i], k + 1, Len(rq[i])) \in Seq(Procs)
    <3>1. \A j \in (k + 1)..Len(rq[i]) : rq[i][j] \in Procs
      BY <2>2
    <3> QED
      BY <3>1, <2>2, SubSeqProperties
  <2>5. cut \in Seq(Procs)
    BY <2>3, <2>4, ConcatProperties
  <2>6. remove(rq, p) = [rq EXCEPT ![i] = cut]
    BY <1>3 DEF remove, i, k
  <2> QED
    BY <2>5, <2>6, Zenon
<1> QED
  BY <1>2, <1>3

\* The types of what process_ready changes.
ReadyTypes ==
  /\ state \in [Procs -> States]
  /\ signals \in [Procs -> SUBSET {"KILL", "PREEMPT"}]
  /\ ready_queue \in [Indexes -> Seq(Procs)]
  /\ priority \in [Procs -> 0..255]
  /\ waiting \in SUBSET Threads
  /\ started \in SUBSET Threads
  /\ pinned \in SUBSET Threads

\* process_ready keeps the types.
LEMMA ReadyType ==
  ASSUME TypeOK, NEW p \in Procs, NEW pr \in 0..255,
         NEW st \in [Procs -> States],
         NEW sig \in [Procs -> SUBSET {"KILL", "PREEMPT"}],
         NEW rq \in [Indexes -> Seq(Procs)],
         process_ready(p, st, sig, rq, pr)
  PROVE  ReadyTypes'
<1>1. CASE st[p] = "IDLE" /\ state' = [st EXCEPT ![p] = "SCHEDULED"]
           /\ append_ready(p, rq, pr) /\ PinThread(sig, pr)
  <2>1. state' \in [Procs -> States]
    BY <1>1 DEF States
  <2>2. priority' \in [Procs -> 0..255] /\ waiting' \in SUBSET Threads
    BY <1>1, Zenon DEF append_ready, signal_has_processes, TypeOK
  <2>3. ready_queue' \in [Indexes -> Seq(Procs)]
    <3>1. rq[compute_ready_queue_index(pr)] \in Seq(Procs)
      BY IndexType
    <3>2. Append(rq[compute_ready_queue_index(pr)], p) \in Seq(Procs)
      BY <3>1, AppendProperties
    <3> QED
      BY <1>1, <3>2, IndexType DEF append_ready
  <2>4. /\ started' \in SUBSET Threads
        /\ pinned' \in SUBSET Threads
        /\ signals' \in [Procs -> SUBSET {"KILL", "PREEMPT"}]
    <3>1. \A c : [sig EXCEPT ![c] = @ \cup {"PREEMPT"}]
                    \in [Procs -> SUBSET {"KILL", "PREEMPT"}]
      BY Zenon
    <3>2. /\ \/ pinned' = pinned
             \/ \E t \in Threads : pinned' = pinned \cup {t}
          /\ \/ started' = started
             \/ \E t \in Threads : started' = started \cup {t}
          /\ \/ signals' = sig
             \/ \E c : signals' = [sig EXCEPT ![c] = @ \cup {"PREEMPT"}]
      BY <1>1, Zenon DEF PinThread, TypeOK, threads_
    <3>3. signals' \in [Procs -> SUBSET {"KILL", "PREEMPT"}]
      <4>1. CASE signals' = sig
        BY <4>1
      <4>2. CASE \E c : signals' = [sig EXCEPT ![c] = @ \cup {"PREEMPT"}]
        <5>1. PICK c : signals' = [sig EXCEPT ![c] = @ \cup {"PREEMPT"}]
          BY <4>2, Zenon
        <5> QED
          BY <5>1, <3>1
      <4> QED
        BY <3>2, <4>1, <4>2
    <3>4. started' \in SUBSET Threads /\ pinned' \in SUBSET Threads
      BY <3>2 DEF TypeOK
    <3> QED
      BY <3>3, <3>4
  <2> QED
    BY <2>1, <2>2, <2>3, <2>4 DEF ReadyTypes
<1>2. CASE /\ st[p] # "IDLE"
           /\ state' = [st EXCEPT ![p] = Reawakened(@)]
           /\ signals' = sig /\ ready_queue' = rq
           /\ UNCHANGED <<priority, waiting, started, pinned>>
  BY <1>2 DEF TypeOK, Reawakened, States, ReadyTypes
<1> QED
  BY <1>1, <1>2 DEF process_ready

\* A thread inside run_process has a process.
HandledOK ==
  \A t \in Threads : pc[t] \notin {"top", "exited"} => cur[t] \in Procs

TypeInv == TypeOK /\ HandledOK

\* The initial state is well typed.
LEMMA TypeInit == Init => TypeInv
<1> SUFFICES ASSUME Init PROVE TypeInv
  OBVIOUS
<1> USE ConstantsAssumption
<1>1. ready_queue \in [Indexes -> Seq(Procs)]
  <2>1. <<Boot>> \in Seq(Procs) /\ <<>> \in Seq(Procs)
    OBVIOUS
  <2> QED
    BY <2>1 DEF Init
<1>2. pinned \in SUBSET Threads
  BY DEF Init
<1> QED
  BY <1>1, <1>2 DEF Init, TypeInv, TypeOK, HandledOK, States, Pcs, Results,
     ExitReasons, PRIORITY_HIGH, PRIORITY_NORMAL

\* A thread that moves within run_process, or leaves it, keeps HandledOK.
LEMMA GotoType ==
  ASSUME TypeInv, NEW t \in Threads, NEW label \in Pcs, Goto(t, label),
         \/ cur' = cur /\ pc[t] \notin {"top", "exited"}
         \/ cur' = cur /\ label \in {"top", "exited"}
         \/ cur' = [cur EXCEPT ![t] = None] /\ label = "top"
  PROVE  /\ pc' \in [Threads -> Pcs]
         /\ cur' \in [Threads -> Procs \cup {None}]
         /\ HandledOK'
<1>1. pc' = [pc EXCEPT ![t] = label]
  BY DEF Goto
<1>2. pc \in [Threads -> Pcs] /\ cur \in [Threads -> Procs \cup {None}]
  BY DEF TypeInv, TypeOK
<1>3. \A u \in Threads : pc[u] \notin {"top", "exited"} => cur[u] \in Procs
  BY DEF TypeInv, HandledOK
<1>4. pc' \in [Threads -> Pcs] /\ cur' \in [Threads -> Procs \cup {None}]
  BY <1>1, <1>2
<1>5. HandledOK'
  BY <1>1, <1>2, <1>3 DEF HandledOK
<1> QED
  BY <1>4, <1>5

\* OS::signal wakes up at most one of the waiting threads.
LEMMA SignalType ==
  ASSUME signal_has_processes
  PROVE  waiting' \subseteq waiting
BY DEF signal_has_processes

\* terminate_execution keeps the types.
LEMMA TerminateType ==
  ASSUME TypeOK, NEW reason \in ExitReasons, terminate_execution(reason)
  PROVE  /\ signals' \in [Procs -> SUBSET {"KILL", "PREEMPT"}]
         /\ waiting' \in SUBSET Threads
         /\ exit' \in ExitReasons
<1>1. signals' \in [Procs -> SUBSET {"KILL", "PREEMPT"}]
  BY DEF terminate_execution, TypeOK
<1>2. waiting' \in SUBSET Threads
  BY SignalType DEF terminate_execution, TypeOK
<1>3. exit' \in ExitReasons
  BY DEF terminate_execution, TypeOK
<1> QED
  BY <1>1, <1>2, <1>3

\* What wait_for_any_gc_to_complete does to the types.
LEMMA WaitGcType ==
  ASSUME TypeOK, NEW t \in Threads, NEW p \in Procs, NEW label \in AfterGc,
         wait_for_any_gc_to_complete(t, p, label)
  PROVE  /\ mutex' \in Threads \cup {None}
         /\ state' \in [Procs -> States]
         /\ gc_waiting' \in Int
         /\ \E l \in Pcs \ {"top", "exited"} : Goto(t, l)
<1>1. CASE /\ Goto(t, label) /\ mutex' = t
           /\ UNCHANGED <<state, gc_waiting>>
  <2>1. label \in Pcs \ {"top", "exited"}
    BY DEF AfterGc, Pcs
  <2> QED
    BY <1>1, <2>1 DEF TypeOK
<1>2. CASE /\ Goto(t, CASE label = "enter"     -> "await_enter"
                        [] label = "requeue"   -> "await_requeue"
                        [] label = "yielded"   -> "await_yielded"
                        [] label = "terminate" -> "await_terminate")
           /\ mutex' = None
           /\ state' = [state EXCEPT ![p] = "SUSPENDED_AWAITING_GC"]
           /\ gc_waiting' = gc_waiting - 1
  <2>1. /\ mutex' \in Threads \cup {None} /\ state' \in [Procs -> States]
        /\ gc_waiting' \in Int
    BY <1>2 DEF TypeOK, States
  <2>2. \E l \in Pcs \ {"top", "exited"} : Goto(t, l)
    BY <1>2 DEF AfterGc, Pcs
  <2> QED
    BY <2>1, <2>2
<1> QED
  BY <1>1, <1>2, Zenon DEF wait_for_any_gc_to_complete

\* The steps of Scheduler::run and run_process keep the types.
LEMMA TypeRun ==
  ASSUME TypeInv, NEW t \in Threads, run(t)
  PROVE  TypeInv'
<1> USE ConstantsAssumption DEF TypeInv
<1> DEFINE p == cur[t]
<1>1. CASE WaitForProcess(t)
  BY <1>1 DEF WaitForProcess, TypeOK, HandledOK, procVars, threadVars, gcVars
<1>2. CASE TakeProcess(t)
  <2>1. PICK i \in Indexes :
          /\ ready_queue[i] # <<>>
          /\ ready_queue' = [ready_queue EXCEPT ![i] = Tail(@)]
          /\ cur' = [cur EXCEPT ![t] = Head(ready_queue[i])]
          /\ IF has_ready_processes(ready_queue')
             THEN signal_has_processes ELSE waiting' = waiting
          /\ wait_for_any_gc_to_complete(t, Head(ready_queue[i]), "enter")
    BY <1>2, Zenon DEF TakeProcess
  <2>2. ready_queue[i] \in Seq(Procs)
    BY DEF TypeOK
  <2>3. Head(ready_queue[i]) \in Procs /\ Tail(ready_queue[i]) \in Seq(Procs)
    BY <2>1, <2>2, HeadTailProperties
  <2>4. ready_queue' \in [Indexes -> Seq(Procs)]
    BY <2>1, <2>3 DEF TypeOK
  <2>5. waiting' \in SUBSET Threads
    BY <2>1 DEF signal_has_processes, TypeOK
  <2>6. /\ mutex' \in Threads \cup {None}
        /\ state' \in [Procs -> States] /\ gc_waiting' \in Int
        /\ \E l \in Pcs \ {"top", "exited"} : Goto(t, l)
    <3>1. "enter" \in AfterGc
      BY DEF AfterGc
    <3> QED
      BY <2>1, <2>3, <3>1, WaitGcType
  <2>7. pc' \in [Threads -> Pcs] /\ cur' \in [Threads -> Procs \cup {None}]
    BY <2>1, <2>3, <2>6 DEF Goto, TypeOK
  <2>8. HandledOK'
    BY <2>1, <2>3, <2>6 DEF Goto, TypeOK, HandledOK
  <2> QED
    BY <1>2, <2>4, <2>5, <2>6, <2>7, <2>8, Zenon DEF TakeProcess, TypeOK, procVars
<1>3. CASE GcIsOver(t)
  <2>1. \E l \in AfterGc : Goto(t, l) /\ pc[t] \notin {"top", "exited"}
    BY <1>3 DEF GcIsOver, AfterGc
  <2>2. AfterGc \subseteq Pcs
    BY DEF Pcs
  <2>3. /\ pc' \in [Threads -> Pcs] /\ HandledOK'
        /\ cur' \in [Threads -> Procs \cup {None}]
    BY <1>3, <2>1, <2>2, GotoType DEF GcIsOver
  <2> QED
    BY <1>3, <2>3 DEF GcIsOver, TypeOK, queueVars, procVars, gcVars
<1>4. CASE EnterProcess(t)
  <2>1. \E l \in Pcs : Goto(t, l) /\ mutex' \in {t, None}
    BY <1>4 DEF EnterProcess, Pcs
  <2>2. /\ pc' \in [Threads -> Pcs] /\ HandledOK'
        /\ cur' \in [Threads -> Procs \cup {None}]
    BY <1>4, <2>1, GotoType DEF EnterProcess
  <2>3. /\ state' \in [Procs -> States] /\ result' \in [Threads -> Results]
        /\ pinned' \in SUBSET Threads
    BY <1>4, Zenon DEF EnterProcess, TypeOK, States, Results
  <2>4. idle_since_gc' \in [Procs -> BOOLEAN]
    BY <1>4, Zenon DEF EnterProcess, TypeOK
  <2> QED
    BY <1>4, <2>1, <2>2, <2>3, <2>4 DEF EnterProcess, TypeOK, gcVars
<1>5. CASE FinishRun(t)
  <2>1. p \in Procs /\ pc[t] \notin {"top", "exited"}
    BY <1>5 DEF FinishRun, HandledOK
  <2>2. CASE /\ \E label \in AfterGc : wait_for_any_gc_to_complete(t, p, label)
             /\ signals' \in [Procs -> SUBSET {"KILL", "PREEMPT"}]
             /\ UNCHANGED <<waiting, exit, cur, result>>
    <3>1. /\ mutex' \in Threads \cup {None} /\ state' \in [Procs -> States]
          /\ gc_waiting' \in Int /\ \E l \in Pcs : Goto(t, l)
      BY <2>1, <2>2, WaitGcType
    <3>2. /\ pc' \in [Threads -> Pcs] /\ HandledOK'
          /\ cur' \in [Threads -> Procs \cup {None}]
      BY <2>1, <2>2, <3>1, GotoType
    <3> QED
      BY <1>5, <2>2, <3>1, <3>2, Zenon DEF FinishRun, TypeOK, procVars
  <2>3. CASE /\ terminate_execution("EXIT_DEEP_SLEEP") /\ Return(t)
             /\ UNCHANGED <<mutex, state, gc_waiting>>
    <3>1. /\ pc' \in [Threads -> Pcs] /\ HandledOK'
          /\ cur' \in [Threads -> Procs \cup {None}]
      BY <2>3, GotoType, Zenon DEF Return, Pcs
    <3>2. /\ signals' \in [Procs -> SUBSET {"KILL", "PREEMPT"}]
          /\ waiting' \in SUBSET Threads /\ exit' \in ExitReasons
      BY <2>3, TerminateType DEF ExitReasons
    <3>3. result' \in [Threads -> Results]
      BY <2>3 DEF Return, TypeOK, Results
    <3> QED
      BY <1>5, <2>3, <3>1, <3>2, <3>3 DEF FinishRun, TypeOK, procVars
  <2>4. \/ /\ wait_for_any_gc_to_complete(t, p, "requeue")
           /\ signals' = [signals EXCEPT ![p] = IF SignalledResult(t) = "PREEMPTED"
                                                THEN {} ELSE @]
           /\ UNCHANGED <<waiting, exit, cur, result>>
        \/ /\ wait_for_any_gc_to_complete(t, p, "yielded")
           /\ UNCHANGED <<signals, waiting, exit, cur, result>>
        \/ /\ wait_for_any_gc_to_complete(t, p, "terminate")
           /\ UNCHANGED <<signals, waiting, exit, cur, result>>
        \/ /\ terminate_execution("EXIT_DEEP_SLEEP") /\ Return(t)
           /\ UNCHANGED <<mutex, state, gc_waiting>>
    BY <1>5, Zenon DEF FinishRun
  <2>5. /\ signals \in [Procs -> SUBSET {"KILL", "PREEMPT"}]
        /\ \A S : [signals EXCEPT ![p] = IF S = "PREEMPTED" THEN {} ELSE @]
                   \in [Procs -> SUBSET {"KILL", "PREEMPT"}]
    BY Zenon DEF TypeOK
  <2>6. "requeue" \in AfterGc /\ "yielded" \in AfterGc /\ "terminate" \in AfterGc
    BY DEF AfterGc
  <2>7. CASE /\ wait_for_any_gc_to_complete(t, p, "requeue")
             /\ signals' = [signals EXCEPT ![p] = IF SignalledResult(t) = "PREEMPTED"
                                                  THEN {} ELSE @]
             /\ UNCHANGED <<waiting, exit, cur, result>>
    <3>1. signals' \in [Procs -> SUBSET {"KILL", "PREEMPT"}]
      BY <2>5, <2>7
    <3> QED
      BY <2>2, <2>6, <2>7, <3>1
  <2>8. CASE /\ \/ wait_for_any_gc_to_complete(t, p, "yielded")
                \/ wait_for_any_gc_to_complete(t, p, "terminate")
             /\ UNCHANGED <<signals, waiting, exit, cur, result>>
    BY <2>2, <2>5, <2>6, <2>8
  <2> QED
    BY <2>3, <2>4, <2>7, <2>8
<1>6. CASE RequeueProcess(t)
  <2>1. p \in Procs
    BY <1>6 DEF RequeueProcess, HandledOK
  <2>2. /\ [state EXCEPT ![p] = "IDLE"] \in [Procs -> States]
        /\ target_priority[p] \in 0..255
    BY <2>1 DEF TypeOK, States
  <2>3. process_ready(p, [state EXCEPT ![p] = "IDLE"], signals, ready_queue,
                      target_priority[p])
    BY <1>6 DEF RequeueProcess
  <2>4. ReadyTypes'
    BY <2>1, <2>2, <2>3, ReadyType, Zenon DEF TypeOK
  <2>5. /\ pc' \in [Threads -> Pcs] /\ HandledOK'
        /\ cur' \in [Threads -> Procs \cup {None}]
    <3>1. "top" \in Pcs /\ Goto(t, "top") /\ cur' = [cur EXCEPT ![t] = None]
      BY <1>6 DEF RequeueProcess, Return, Pcs
    <3> QED
      BY <3>1, GotoType, Zenon
  <2>6. result' \in [Threads -> Results]
    BY <1>6 DEF RequeueProcess, Return, TypeOK, Results
  <2> QED
    BY <1>6, <2>4, <2>5, <2>6, Zenon DEF RequeueProcess, ReadyTypes, TypeOK, procVars, gcVars
<1>7. CASE YieldProcess(t)
  <2>1. p \in Procs
    BY <1>7 DEF YieldProcess, AfterGc, HandledOK
  <2>2. /\ [state EXCEPT ![p] = "IDLE"] \in [Procs -> States]
        /\ target_priority[p] \in 0..255
    BY <2>1 DEF TypeOK, States
  <2>3. CASE process_ready(p, [state EXCEPT ![p] = "IDLE"], signals, ready_queue,
                           target_priority[p])
    <3>1. ReadyTypes'
      BY <2>1, <2>2, <2>3, ReadyType, Zenon DEF TypeOK
    <3> QED
      BY <1>7, <3>1, SMTT(20) DEF YieldProcess, ReadyTypes, Return, Goto, TypeOK,
         HandledOK, procVars, gcVars, Pcs, Results
  <2>4. CASE state' = [state EXCEPT ![p] = "IDLE"] /\ UNCHANGED <<signals, queueVars>>
    <3>1. ReadyTypes'
      BY <2>2, <2>4, Zenon DEF TypeOK, ReadyTypes, queueVars
    <3> QED
      BY <1>7, <3>1 DEF YieldProcess, ReadyTypes, Return, Goto, TypeOK,
         HandledOK, procVars, gcVars, Pcs, Results
  <2> QED
    BY <1>7, <2>3, <2>4 DEF YieldProcess
<1>8. CASE RemoveProcess(t)
  <2>1. /\ pc' \in [Threads -> Pcs] /\ HandledOK'
        /\ cur' \in [Threads -> Procs \cup {None}]
    <3>1. "delete" \in Pcs /\ Goto(t, "delete") /\ cur' = cur
          /\ pc[t] \notin {"top", "exited"}
      BY <1>8 DEF RemoveProcess, Pcs
    <3> QED
      BY <3>1, GotoType, Zenon
  <2>2. state' \in [Procs -> States] /\ live' \in SUBSET Procs
    BY <1>8, Zenon DEF RemoveProcess, TypeOK, States
  <2>3. mutex' \in Threads \cup {None}
    BY <1>8 DEF RemoveProcess
  <2> QED
    BY <1>8, <2>1, <2>2, <2>3, Zenon DEF RemoveProcess, TypeOK, queueVars, gcVars
<1>9. CASE DestroyProcess(t)
  <2>1. \E l \in Pcs : Goto(t, l) /\ pc[t] \notin {"top", "exited"}
    BY <1>9, Zenon DEF DestroyProcess, Pcs
  <2>2. /\ pc' \in [Threads -> Pcs] /\ HandledOK'
        /\ cur' \in [Threads -> Procs \cup {None}]
    BY <1>9, <2>1, GotoType, Zenon DEF DestroyProcess
  <2>3. state' \in [Procs -> States]
    <3>1. /\ "TERMINATING" \in States /\ "FREED" \in States
          /\ state \in [Procs -> States]
      BY DEF TypeOK, States
    <3>2. \/ state' = [state EXCEPT ![p] = "TERMINATING"]
          \/ state' = [state EXCEPT ![p] = "FREED"]
      BY <1>9 DEF DestroyProcess
    <3> QED
      BY <3>1, <3>2
  <2>4. messages' \in [Procs -> Nat]
    <3>1. \/ messages' = messages
          \/ messages' = [messages EXCEPT ![p] = 0]
      BY <1>9 DEF DestroyProcess
    <3>2. messages \in [Procs -> Nat]
      BY DEF TypeOK
    <3> QED
      BY <3>1, <3>2
  <2> QED
    BY <1>9, <2>2, <2>3, <2>4, Zenon DEF DestroyProcess, TypeOK, queueVars, gcVars
<1>10. CASE ProcessTerminated(t)
  <2>1. boot_process' = BootAfter(t) /\ boot_process' \in {Boot, None}
    BY <1>10 DEF ProcessTerminated, BootAfter, TypeOK
  <2>2. CASE /\ BootAfter(t) # None
             /\ messages' = [messages EXCEPT ![BootAfter(t)] = @ + 1]
             /\ process_ready(BootAfter(t), state, signals, ready_queue,
                              target_priority[BootAfter(t)])
             /\ exit' = exit
    <3>1. BootAfter(t) \in Procs /\ target_priority[BootAfter(t)] \in 0..255
      BY <2>1, <2>2 DEF TypeOK
    <3>2. ReadyTypes'
      BY <2>2, <3>1, ReadyType, Zenon DEF TypeOK
    <3>3. messages' \in [Procs -> Nat]
      BY <2>2, <3>1 DEF TypeOK
    <3> QED
      BY <1>10, <2>1, <2>2, <3>2, <3>3 DEF ProcessTerminated, ReadyTypes, Return, Goto, TypeOK,
         HandledOK, gcVars, Pcs, Results
  <2>3. CASE /\ \E r \in {"EXIT_DONE", "EXIT_ERROR"} : terminate_execution(r)
             /\ UNCHANGED <<state, messages, ready_queue, priority, started, pinned>>
    <3>1. /\ signals' \in [Procs -> SUBSET {"KILL", "PREEMPT"}]
          /\ waiting' \in SUBSET Threads /\ exit' \in ExitReasons
      BY <2>3 DEF terminate_execution, signal_has_processes, TypeOK, ExitReasons
    <3> QED
      BY <1>10, <2>1, <2>3, <3>1 DEF ProcessTerminated, Return, Goto, TypeOK,
         HandledOK, gcVars, Pcs, Results
  <2> QED
    BY <1>10, <2>2, <2>3 DEF ProcessTerminated
<1>11. CASE ExitThread(t)
  <2>1. waiting' \in SUBSET Threads
    BY <1>11, SignalType DEF ExitThread, TypeOK
  <2>2. /\ pc' \in [Threads -> Pcs] /\ HandledOK'
        /\ cur' \in [Threads -> Procs \cup {None}]
    BY <1>11, GotoType, Zenon DEF ExitThread, Pcs
  <2> QED
    BY <1>11, <2>1, <2>2, Zenon DEF ExitThread, TypeOK, procVars, gcVars
<1> QED
  BY <1>1, <1>2, <1>3, <1>4, <1>5, <1>6, <1>7, <1>8, <1>9, <1>10, <1>11 DEF run

\* The steps of Scheduler::gc keep the types.
LEMMA TypeGc ==
  ASSUME TypeInv, NEW t \in Threads, gc(t)
  PROVE  TypeInv'
<1> USE ConstantsAssumption DEF TypeInv
<1>1. CASE GcPreempted(t)
  <2>1. /\ pc' \in [Threads -> Pcs] /\ HandledOK'
        /\ cur' \in [Threads -> Procs \cup {None}]
    BY <1>1, GotoType DEF GcPreempted, Pcs, GcPcs
  <2> QED
    BY <1>1, <2>1 DEF GcPreempted, TypeOK, queueVars, procVars
<1>2. CASE GcSuspend(t)
  <2>1. /\ pc' \in [Threads -> Pcs] /\ HandledOK'
        /\ cur' \in [Threads -> Procs \cup {None}]
    <3>1. CASE Goto(t, "gc_collect")
      BY <1>2, <3>1, GotoType DEF GcSuspend, Pcs, GcPcs
    <3>2. CASE pc' = pc
      BY <1>2, <3>2 DEF GcSuspend, TypeOK, HandledOK
    <3> QED
      BY <1>2, <3>1, <3>2 DEF GcSuspend
  <2>2. CASE \E p \in GcTargets \ todo[t] :
               /\ todo' = [todo EXCEPT ![t] = @ \cup {p}]
               /\ gc_suspend_process(p)
    <3>1. PICK p \in GcTargets : /\ todo' = [todo EXCEPT ![t] = @ \cup {p}]
                                 /\ gc_suspend_process(p)
      BY <2>2, Zenon
    <3>2. p \in Procs
      BY DEF GcTargets, TypeOK
    <3>3. todo' \in [Threads -> SUBSET Procs]
      BY <3>1, <3>2 DEF TypeOK
    <3>4. state' \in [Procs -> States]
      <4>1. /\ "SUSPENDED_IDLE" \in States /\ "SUSPENDED_SCHEDULED" \in States
            /\ state \in [Procs -> States]
        BY DEF TypeOK, States
      <4>2. \/ state' = [state EXCEPT ![p] = "SUSPENDED_IDLE"]
            \/ state' = [state EXCEPT ![p] = "SUSPENDED_SCHEDULED"]
            \/ state' = state
        BY <3>1 DEF gc_suspend_process
      <4> QED
        BY <4>1, <4>2
    <3>5. ready_queue' \in [Indexes -> Seq(Procs)]
      <4>1. ready_queue' = ready_queue \/ ready_queue' = remove(ready_queue, p)
        BY <3>1 DEF gc_suspend_process
      <4>2. ready_queue \in [Indexes -> Seq(Procs)]
        BY DEF TypeOK
      <4> QED
        BY <3>2, <4>1, <4>2, RemoveType
    <3> QED
      BY <1>2, <2>1, <3>3, <3>4, <3>5, Zenon DEF GcSuspend, TypeOK, procVars, gcVars
  <2>3. CASE UNCHANGED <<todo, state, ready_queue>>
    <3>1. mutex' \in Threads \cup {None}
      BY <1>2 DEF GcSuspend
    <3>2. UNCHANGED <<todo, state, ready_queue, signals, priority, waiting, started,
                      pinned, procVars, joined, result, gcVars, boot_process, exit, main>>
      BY <1>2, <2>3 DEF GcSuspend
    <3> QED
      BY <2>1, <3>1, <3>2, Zenon DEF TypeOK, procVars, gcVars
  <2> QED
    BY <1>2, <2>2, <2>3 DEF GcSuspend
<1>3. CASE GcCollect(t)
  <2>1. /\ pc' \in [Threads -> Pcs] /\ HandledOK'
        /\ cur' \in [Threads -> Procs \cup {None}]
    <3>1. CASE Goto(t, "gc_resume")
      BY <1>3, <3>1, GotoType DEF GcCollect, Pcs, GcPcs
    <3>2. CASE pc' = pc
      BY <1>3, <3>2 DEF GcCollect, TypeOK, HandledOK
    <3> QED
      BY <1>3, <3>1, <3>2, Zenon DEF GcCollect
  <2>2. idle_since_gc' \in [Procs -> BOOLEAN]
    BY <1>3, Zenon DEF GcCollect, TypeOK
  <2> QED
    BY <1>3, <2>1, <2>2, Zenon DEF GcCollect, TypeOK, queueVars, gcVars
<1>4. CASE GcResume(t)
  <2>1. /\ pc' \in [Threads -> Pcs] /\ HandledOK'
        /\ cur' \in [Threads -> Procs \cup {None}]
    <3>1. CASE Goto(t, "gc_own")
      BY <1>4, <3>1, GotoType DEF GcResume, Pcs, GcPcs
    <3>2. CASE pc' = pc
      BY <1>4, <3>2 DEF GcResume, TypeOK, HandledOK
    <3> QED
      BY <1>4, <3>1, <3>2 DEF GcResume
  <2>2. CASE \E p \in todo[t] :
               /\ todo' = [todo EXCEPT ![t] = @ \ {p}]
               /\ process_ready(p, [state EXCEPT ![p] = "IDLE"], signals,
                                ready_queue, target_priority[p])
    <3>1. PICK p \in todo[t] :
            /\ todo' = [todo EXCEPT ![t] = @ \ {p}]
            /\ process_ready(p, [state EXCEPT ![p] = "IDLE"], signals,
                             ready_queue, target_priority[p])
      BY <2>2, Zenon
    <3>2. /\ p \in Procs /\ target_priority[p] \in 0..255
          /\ [state EXCEPT ![p] = "IDLE"] \in [Procs -> States]
      BY DEF TypeOK, States
    <3>3. ReadyTypes'
      BY <3>1, <3>2, ReadyType, Zenon DEF TypeOK
    <3>4. todo' \in [Threads -> SUBSET Procs]
      BY <3>1 DEF TypeOK
    <3> QED
      BY <1>4, <2>1, <3>3, <3>4, Zenon DEF GcResume, ReadyTypes, TypeOK, procVars, gcVars
  <2>3. CASE /\ todo' = todo \/ \E p \in todo[t] : todo' = [todo EXCEPT ![t] = @ \ {p}]
             /\ state' = state \/ \E p : state' = [state EXCEPT ![p] = "IDLE"]
             /\ UNCHANGED <<signals, queueVars>>
    <3>1. todo' \in [Threads -> SUBSET Procs]
      <4>1. todo \in [Threads -> SUBSET Procs]
        BY DEF TypeOK
      <4> QED
        BY <2>3, <4>1
    <3>2. \A p : [state EXCEPT ![p] = "IDLE"] \in [Procs -> States]
      BY Zenon DEF TypeOK, States
    <3>3. state' \in [Procs -> States]
      BY <2>3, <3>2 DEF TypeOK
    <3> QED
      BY <1>4, <2>1, <2>3, <3>1, <3>3 DEF GcResume, TypeOK, procVars, queueVars, gcVars
  <2> QED
    BY <1>4, <2>2, <2>3, Zenon DEF GcResume, gc_resume_process
<1>5. CASE GcDone(t)
  <2>1. /\ pc' \in [Threads -> Pcs] /\ HandledOK'
        /\ cur' \in [Threads -> Procs \cup {None}]
    BY <1>5, GotoType DEF GcDone, Pcs
  <2> QED
    BY <1>5, <2>1 DEF GcDone, TypeOK, queueVars, procVars
<1> QED
  BY <1>1, <1>2, <1>3, <1>4, <1>5 DEF gc

\* A process is made ready and nothing else that TypeInv speaks of goes wrong.
LEMMA TypeKept ==
  ASSUME TypeInv, ReadyTypes',
         mutex' \in Threads \cup {None}, messages' \in [Procs -> Nat],
         target_priority' \in [Procs -> 0..255], live' \in SUBSET Procs,
         todo' \in [Threads -> SUBSET Procs], pc' \in [Threads -> Pcs], HandledOK',
         UNCHANGED <<idle_since_gc, joined, cur, result, gcVars, boot_process, exit,
                     main>>
  PROVE  TypeInv'
BY DEF TypeInv, TypeOK, ReadyTypes, gcVars

\* The calls a process makes keep the types.
LEMMA TypeCalls ==
  ASSUME TypeInv, NEW t \in Threads, ProcessCalls(t)
  PROVE  TypeInv'
<1> USE ConstantsAssumption
<1>0. /\ TypeOK /\ HandledOK /\ ReadyTypes
      /\ mutex \in Threads \cup {None} /\ messages \in [Procs -> Nat]
      /\ target_priority \in [Procs -> 0..255] /\ live \in SUBSET Procs
      /\ todo \in [Threads -> SUBSET Procs] /\ pc \in [Threads -> Pcs]
      /\ state \in [Procs -> States]
      /\ ready_queue \in [Indexes -> Seq(Procs)]
      /\ signals \in [Procs -> SUBSET {"KILL", "PREEMPT"}]
  BY Zenon DEF TypeInv, TypeOK, ReadyTypes
<1>1. CASE ReturnFromRun(t)
  <2>1. /\ pc' \in [Threads -> Pcs] /\ HandledOK'
        /\ cur' \in [Threads -> Procs \cup {None}]
    BY <1>1, GotoType, Zenon DEF ReturnFromRun, Pcs
  <2>2. result' \in [Threads -> Results]
    BY <1>0, <1>1 DEF ReturnFromRun, TypeOK
  <2> QED
    BY <1>0, <1>1, <2>1, <2>2, Zenon DEF ReturnFromRun, TypeInv, TypeOK, queueVars, procVars,
       gcVars
<1>2. CASE ReceiveMessage(t)
  <2>1. messages' \in [Procs -> Nat]
    <3>0. cur[t] \in Procs
      BY <1>0, <1>2, Zenon DEF ReceiveMessage, HandledOK
    <3>1. messages[cur[t]] - 1 \in Nat
      BY <1>0, <1>2, <3>0 DEF ReceiveMessage
    <3>2. messages' = [messages EXCEPT ![cur[t]] = messages[cur[t]] - 1]
      BY <1>2 DEF ReceiveMessage
    <3> QED
      BY <1>0, <3>1, <3>2, Zenon
  <2>2. HandledOK'
    BY <1>0, <1>2 DEF ReceiveMessage, HandledOK, threadVars
  <2> QED
    BY <1>0, <1>2, <2>1, <2>2, Zenon DEF ReceiveMessage, TypeInv, TypeOK, queueVars,
       threadVars, gcVars
<1>3. CASE GcSoft(t)
  <2>1. /\ pc' \in [Threads -> Pcs] /\ HandledOK'
        /\ cur' \in [Threads -> Procs \cup {None}]
    BY <1>3, GotoType DEF GcSoft, Pcs, GcPcs
  <2> QED
    BY <1>0, <1>3, <2>1, Zenon DEF GcSoft, TypeInv, TypeOK, queueVars, procVars, gcVars
<1>4. CASE GcHard(t)
  <2>1. /\ pc' \in [Threads -> Pcs] /\ HandledOK'
        /\ cur' \in [Threads -> Procs \cup {None}]
    <3>1. \E l \in Pcs : Goto(t, l) /\ pc[t] \notin {"top", "exited"} /\ cur' = cur
      BY <1>4 DEF GcHard, StartCrossGc, Pcs, GcPcs
    <3> QED
      BY <3>1, GotoType, Zenon
  <2>2. CASE UNCHANGED <<gcVars, signals>>
    BY <1>0, <1>4, <2>1, <2>2, Zenon DEF GcHard, TypeInv, TypeOK, queueVars, procVars, gcVars
  <2>3. CASE StartCrossGc(t)
    <3> DEFINE others == {u \in threads_ : Attached(u) /\ cur[u] # cur[t]}
    <3>1. others \subseteq Threads
      BY <1>0 DEF threads_, TypeOK
    <3>2. IsFiniteSet(others)
      BY <3>1, FS_Subset
    <3>3. gc_waiting' \in Int
      BY <2>3, <3>2, FS_CardinalityType DEF StartCrossGc
    <3>4. signals' \in [Procs -> SUBSET {"KILL", "PREEMPT"}]
      BY <1>0, <2>3 DEF StartCrossGc
    <3>5. gc_cross' \in Threads \cup {None}
      BY <2>3 DEF StartCrossGc
    <3> QED
      BY <1>0, <1>4, <2>1, <3>3, <3>4, <3>5, Zenon DEF GcHard, TypeInv, TypeOK, queueVars,
         procVars
  <2> QED
    BY <1>4, <2>2, <2>3, Zenon DEF GcHard
<1>5. ASSUME NEW p \in Procs, signal_process(t, p)
      PROVE  TypeInv'
  <2>1. /\ [signals EXCEPT ![p] = @ \cup {"KILL"}]
             \in [Procs -> SUBSET {"KILL", "PREEMPT"}]
        /\ target_priority[p] \in 0..255
    BY <1>0
  <2>2. ReadyTypes'
    BY <1>0, <1>5, <2>1, ReadyType, Zenon DEF signal_process
  <2>3. HandledOK'
    BY <1>0, <1>5, Zenon DEF signal_process, HandledOK, threadVars
  <2> QED
    BY <1>0, <1>5, <2>2, <2>3, TypeKept DEF signal_process, procVars, threadVars
<1>6. ASSUME NEW g, kill(t, g)
      PROVE  TypeInv'
  <2>1. CASE /\ pc[t] = "run" /\ mutex = None
             /\ todo' = [todo EXCEPT ![t] = {p \in live : Group[p] = g}]
             /\ Goto(t, "kill") /\ mutex' = t
             /\ UNCHANGED <<state, signals, queueVars, procVars, joined, cur, result,
                            gcVars, boot_process, exit, main>>
    <3>1. pc' \in [Threads -> Pcs] /\ HandledOK'
      BY <2>1, GotoType, Zenon DEF Pcs
    <3>2. todo' \in [Threads -> SUBSET Procs]
      BY <1>0, <2>1
    <3>3. ReadyTypes'
      BY <1>0, <2>1 DEF ReadyTypes, queueVars
    <3> QED
      BY <1>0, <2>1, <3>1, <3>2, <3>3, TypeKept DEF procVars
  <2>2. CASE /\ pc[t] = "kill" /\ mutex = t
             /\ \E p \in todo[t] :
                  /\ todo' = [todo EXCEPT ![t] = @ \ {p}]
                  /\ process_ready(p, state, [signals EXCEPT ![p] = @ \cup {"KILL"}],
                                   ready_queue, target_priority[p])
             /\ IF todo'[t] = {} THEN Goto(t, "run") /\ mutex' = None
                                 ELSE UNCHANGED <<pc, mutex>>
             /\ UNCHANGED <<procVars, joined, cur, result, gcVars, boot_process, exit,
                            main>>
    <3>1. PICK p \in todo[t] :
            /\ todo' = [todo EXCEPT ![t] = @ \ {p}]
            /\ process_ready(p, state, [signals EXCEPT ![p] = @ \cup {"KILL"}],
                             ready_queue, target_priority[p])
      BY <2>2, Zenon
    <3>2. /\ p \in Procs /\ target_priority[p] \in 0..255
          /\ [signals EXCEPT ![p] = @ \cup {"KILL"}]
               \in [Procs -> SUBSET {"KILL", "PREEMPT"}]
      BY <1>0
    <3>3. ReadyTypes'
      BY <1>0, <3>1, <3>2, ReadyType, Zenon
    <3>4. /\ pc' \in [Threads -> Pcs] /\ HandledOK'
          /\ mutex' \in Threads \cup {None}
      <4>1. CASE Goto(t, "run") /\ mutex' = None
        BY <2>2, <4>1, GotoType, Zenon DEF Pcs
      <4>2. CASE UNCHANGED <<pc, mutex>>
        BY <1>0, <2>2, <4>2, Zenon DEF HandledOK
      <4> QED
        BY <2>2, <4>1, <4>2, Zenon
    <3>5. todo' \in [Threads -> SUBSET Procs]
      BY <1>0, <3>1
    <3> QED
      BY <1>0, <2>2, <3>3, <3>4, <3>5, TypeKept DEF procVars
  <2> QED
    BY <1>6, <2>1, <2>2, Zenon DEF kill
<1>7. ASSUME NEW p \in Procs, NEW pr \in Priorities, update_priority(t, p, pr)
      PROVE  TypeInv'
  <2>1. pr \in 0..255 /\ target_priority' \in [Procs -> 0..255]
    BY <1>0, <1>7 DEF update_priority
  <2>2. ReadyTypes'
    <3>1. CASE /\ signals' = [signals EXCEPT ![p] = @ \cup {"PREEMPT"}]
               /\ UNCHANGED <<state, queueVars>>
      BY <1>0, <3>1 DEF ReadyTypes, queueVars
    <3>2. CASE process_ready(p, [state EXCEPT ![p] = "IDLE"], signals,
                             remove(ready_queue, p), pr)
      <4>1. [state EXCEPT ![p] = "IDLE"] \in [Procs -> States]
        BY <1>0 DEF States
      <4>2. remove(ready_queue, p) \in [Indexes -> Seq(Procs)]
        BY <1>0, RemoveType, Zenon
      <4> QED
        BY <1>0, <2>1, <3>2, <4>1, <4>2, ReadyType, Zenon
    <3>3. CASE UNCHANGED <<state, signals, queueVars>>
      BY <1>0, <3>3, Zenon DEF ReadyTypes, queueVars
    <3> QED
      BY <1>7, <3>1, <3>2, <3>3 DEF update_priority
  <2>3. HandledOK'
    BY <1>0, <1>7, Zenon DEF update_priority, HandledOK, threadVars
  <2> QED
    BY <1>0, <1>7, <2>1, <2>2, <2>3, TypeKept, Zenon DEF update_priority, threadVars
<1>8. ASSUME NEW q \in Procs, NEW pr \in Priorities, spawn(t, q, pr)
      PROVE  TypeInv'
  <2>0. pr \in 0..255 /\ [state EXCEPT ![q] = "IDLE"] \in [Procs -> States]
    BY <1>0 DEF States
  <2>1. CASE pc[t] = "run"
    <3>0. /\ live' = live \cup {q}
          /\ target_priority' = [target_priority EXCEPT ![q] = pr]
          /\ todo' = [todo EXCEPT ![t] = {q}]
      BY <1>8, <2>1, Zenon DEF spawn, Born
    <3>1. target_priority' \in [Procs -> 0..255] /\ live' \in SUBSET Procs
      BY <1>0, <2>0, <3>0, ZenonT(30)
    <3>2. ReadyTypes' /\ messages' \in [Procs -> Nat]
      <4>1. CASE /\ boot_process # None
                 /\ messages' = [messages EXCEPT ![boot_process] = @ + 1]
                 /\ process_ready(boot_process, [state EXCEPT ![q] = "IDLE"], signals,
                                  ready_queue, target_priority[boot_process])
        <5>1. boot_process \in Procs /\ target_priority[boot_process] \in 0..255
          BY <1>0, <4>1, Zenon DEF TypeOK
        <5>2. messages' \in [Procs -> Nat]
          BY <1>0, <4>1, <5>1
        <5> QED
          BY <1>0, <2>0, <4>1, <5>1, <5>2, ReadyType, Zenon
      <4>2. CASE /\ state' = [state EXCEPT ![q] = "IDLE"]
                 /\ UNCHANGED <<messages, signals, queueVars>>
        BY <1>0, <2>0, <4>2, Zenon DEF ReadyTypes, queueVars
      <4> QED
        BY <1>8, <2>1, <4>1, <4>2, Zenon DEF spawn
    <3>3. pc' \in [Threads -> Pcs] /\ HandledOK'
      BY <1>8, <2>1, GotoType, Zenon DEF spawn, Pcs
    <3>4. todo' \in [Threads -> SUBSET Procs]
      BY <1>0, <3>0
    <3> QED
      BY <1>0, <1>8, <2>1, <3>1, <3>2, <3>3, <3>4, TypeKept, Zenon DEF spawn
  <2>2. CASE pc[t] = "spawn"
    <3>1. ReadyTypes'
      BY <1>0, <1>8, <2>0, <2>2, ReadyType, Zenon DEF spawn
    <3>2. pc' \in [Threads -> Pcs] /\ HandledOK'
      BY <1>8, <2>2, GotoType, Zenon DEF spawn, Pcs
    <3>3. todo' \in [Threads -> SUBSET Procs]
      BY <1>0, <1>8, <2>2, Zenon DEF spawn
    <3> QED
      BY <1>0, <1>8, <2>2, <3>1, <3>2, <3>3, TypeKept, Zenon DEF spawn, procVars
  <2> QED
    BY <1>8, <2>1, <2>2, Zenon DEF spawn
<1>9. ASSUME NEW q \in Procs, run_program(t, q)
      PROVE  TypeInv'
  <2>1. /\ PRIORITY_NORMAL \in 0..255
        /\ [state EXCEPT ![q] = "IDLE"] \in [Procs -> States]
    BY <1>0 DEF States, PRIORITY_NORMAL
  <2>2. target_priority' \in [Procs -> 0..255] /\ live' \in SUBSET Procs
    BY <1>0, <1>9, <2>1, ZenonT(30) DEF run_program, Born
  <2>3. ReadyTypes'
    BY <1>0, <1>9, <2>1, ReadyType, Zenon DEF run_program
  <2>4. HandledOK'
    BY <1>0, <1>9, Zenon DEF run_program, HandledOK, threadVars
  <2> QED
    BY <1>0, <1>9, <2>2, <2>3, <2>4, TypeKept, Zenon DEF run_program, threadVars
<1> QED
  BY <1>1, <1>2, <1>3, <1>4, <1>5, <1>6, <1>7, <1>8, <1>9 DEF ProcessCalls

\* The calls of other OS threads keep the types.
LEMMA TypeOther == TypeInv /\ OtherCalls => TypeInv'
<1> SUFFICES ASSUME TypeInv, OtherCalls PROVE TypeInv'
  OBVIOUS
<1> USE ConstantsAssumption
<1>0. /\ TypeOK /\ HandledOK
      /\ mutex \in Threads \cup {None} /\ messages \in [Procs -> Nat]
      /\ target_priority \in [Procs -> 0..255] /\ live \in SUBSET Procs
      /\ todo \in [Threads -> SUBSET Procs] /\ pc \in [Threads -> Pcs]
      /\ state \in [Procs -> States]
      /\ ready_queue \in [Indexes -> Seq(Procs)]
      /\ signals \in [Procs -> SUBSET {"KILL", "PREEMPT"}]
  BY DEF TypeInv, TypeOK
<1>1. ASSUME NEW p \in Procs, send_message(p)
      PROVE  TypeInv'
  <2>1. messages' \in [Procs -> Nat]
    BY <1>0, <1>1 DEF send_message
  <2>2. ReadyTypes'
    <3>1. target_priority[p] \in 0..255
      BY <1>0
    <3> QED
      BY <1>0, <1>1, <3>1, ReadyType, Zenon DEF send_message
  <2>3. HandledOK'
    BY <1>0, <1>1, Zenon DEF send_message, HandledOK, threadVars
  <2> QED
    BY <1>0, <1>1, <2>1, <2>2, <2>3, TypeKept DEF send_message, threadVars
<1>2. ASSUME NEW q \in Procs, run_external(q)
      PROVE  TypeInv'
  <2>1. /\ PRIORITY_NORMAL \in 0..255
        /\ [state EXCEPT ![q] = "IDLE"] \in [Procs -> States]
    BY <1>0 DEF States, PRIORITY_NORMAL
  <2>2. target_priority' \in [Procs -> 0..255] /\ live' \in SUBSET Procs
    BY <1>0, <1>2, <2>1, ZenonT(30) DEF run_external, Born
  <2>3. ReadyTypes'
    BY <1>0, <1>2, <2>1, ReadyType, Zenon DEF run_external
  <2>4. HandledOK'
    BY <1>0, <1>2, Zenon DEF run_external, HandledOK, threadVars
  <2> QED
    BY <1>0, <1>2, <2>2, <2>3, <2>4, TypeKept DEF run_external, threadVars
<1> QED
  BY <1>1, <1>2 DEF OtherCalls

\* The launch thread keeps the types.
LEMMA TypeLaunch == TypeInv /\ launch_program => TypeInv'
<1> SUFFICES ASSUME TypeInv, launch_program PROVE TypeInv'
  OBVIOUS
<1> USE DEF TypeInv
<1>1. CASE tick
  <2>1. signals' \in [Procs -> SUBSET {"KILL", "PREEMPT"}]
    BY <1>1 DEF tick, TypeOK
  <2> QED
    BY <1>1, <2>1 DEF tick, TypeOK, HandledOK, queueVars, procVars, threadVars, gcVars
<1>2. CASE LeaveLoop
  BY <1>2 DEF LeaveLoop, TypeOK, HandledOK, queueVars, procVars, threadVars, gcVars,
     ExitReasons
<1>3. ASSUME NEW t \in Threads, JoinThread(t)
      PROVE  TypeInv'
  BY <1>3 DEF JoinThread, TypeOK, HandledOK, queueVars, procVars, threadVars, gcVars
<1>4. CASE DeleteRemaining
  <2>1. ready_queue' \in [Indexes -> Seq(Procs)]
    <3>1. <<>> \in Seq(Procs)
      OBVIOUS
    <3> QED
      BY <1>4, <3>1, Zenon DEF DeleteRemaining
  <2>2. state' \in [Procs -> States] /\ messages' \in [Procs -> Nat]
    BY <1>4 DEF DeleteRemaining, TypeOK, States
  <2> QED
    BY <1>4, <2>1, <2>2, SMTT(20) DEF DeleteRemaining, TypeOK, HandledOK, threadVars, gcVars
<1> QED
  BY <1>1, <1>2, <1>3, <1>4 DEF launch_program

\* TypeInv is inductive.
LEMMA TypeNext == TypeInv /\ [Next]_vars => TypeInv'
<1> SUFFICES ASSUME TypeInv, [Next]_vars PROVE TypeInv'
  OBVIOUS
<1>1. CASE UNCHANGED vars
  BY <1>1 DEF TypeInv, TypeOK, HandledOK, vars, queueVars, procVars, threadVars, gcVars
<1>2. CASE Done
  BY <1>1, <1>2 DEF Done
<1> QED
  BY <1>1, <1>2, TypeRun, TypeGc, TypeCalls, TypeOther, TypeLaunch DEF Next

\* Every variable of the scheduler always has its type: the queues hold only
\* processes, whatever the interleaving of threads, GCs, calls and shutdown.
THEOREM TypeCorrect == Spec => []TypeOK
<1>1. TypeInv => TypeOK
  BY DEF TypeInv
<1> QED
  BY <1>1, TypeInit, TypeNext, PTL DEF Spec

==============================================================================
