------------------------ MODULE SchedulerWakeupProofs ------------------------
(***************************************************************************)
(* No scheduler thread sleeps through work or through the shutdown, and    *)
(* the last process never disappears without a reason to exit.             *)
(***************************************************************************)
EXTENDS SchedulerProofs

\* A thread sleeps only in Scheduler::run.
SleepersAtTop == \A t \in waiting : t \in started /\ pc[t] = "top"

WakeInv == SleepersAtTop /\ NoThreadSleepsOnWork

\* Processes that do not count in num_processes_ by their state.
Gone == {"UNBORN", "FREED"}

\* Until there is a reason to exit the boot process exists, or the thread that
\* deleted it has yet to notice.
BootInv ==
  /\ main # "loop" => exit # "EXIT_NONE"
  /\ exit = "EXIT_NONE" =>
       /\ boot_process = Boot
       /\ \/ state[Boot] \notin Gone
          \/ \E t \in Threads : pc[t] = "deleted" /\ cur[t] = Boot

(***************************************************************************)
(* Wakeups.                                                                *)
(***************************************************************************)

\* A step that adds no work and sends no thread away keeps WakeInv.
LEMMA WakeKept ==
  ASSUME TypeOK, WakeInv, waiting' = waiting, started \subseteq started',
         has_ready_processes(ready_queue') => has_ready_processes(ready_queue),
         exit' # "EXIT_NONE" => exit # "EXIT_NONE",
         \A u \in Threads : pc[u] = "top" => pc'[u] = "top"
  PROVE  WakeInv'
<1>1. SleepersAtTop'
  BY DEF WakeInv, SleepersAtTop, TypeOK
<1>2. NoThreadSleepsOnWork'
  <2>1. SUFFICES ASSUME has_ready_processes(ready_queue') \/ exit' # "EXIT_NONE",
                        waiting' # {}
                 PROVE  \E t \in started' \ waiting' : pc'[t] = "top"
    BY DEF NoThreadSleepsOnWork
  <2>2. PICK t \in started \ waiting : pc[t] = "top"
    BY <2>1 DEF WakeInv, NoThreadSleepsOnWork
  <2> QED
    BY <2>2 DEF TypeOK
<1> QED
  BY <1>1, <1>2 DEF WakeInv

\* A step that signals has_processes_ keeps WakeInv: the thread it wakes up is
\* the one that looks for work.
LEMMA WakeSignal ==
  ASSUME TypeOK, WakeInv, signal_has_processes, started \subseteq started',
         \A u \in waiting : pc'[u] = "top"
  PROVE  WakeInv'
<1>1. CASE waiting = {}
  <2>1. waiting' = {}
    BY <1>1 DEF signal_has_processes
  <2> QED
    BY <2>1 DEF WakeInv, SleepersAtTop, NoThreadSleepsOnWork
<1>2. CASE waiting # {}
  <2>1. PICK w \in waiting : waiting' = waiting \ {w}
    BY <1>2 DEF signal_has_processes
  <2>2. w \in started' \ waiting' /\ pc'[w] = "top"
    BY <2>1 DEF WakeInv, SleepersAtTop
  <2>3. SleepersAtTop'
    BY <2>1 DEF WakeInv, SleepersAtTop
  <2>4. NoThreadSleepsOnWork'
    BY <2>2 DEF NoThreadSleepsOnWork
  <2> QED
    BY <2>3, <2>4 DEF WakeInv
<1> QED
  BY <1>1, <1>2

\* process_ready keeps WakeInv.
LEMMA WakeReady ==
  ASSUME TypeOK, WakeInv, NEW p, NEW st, NEW sig, NEW rq, NEW pr,
         process_ready(p, st, sig, rq, pr),
         has_ready_processes(rq) => has_ready_processes(ready_queue),
         exit' = exit,
         \A u \in Threads : pc[u] = "top" => pc'[u] = "top"
  PROVE  WakeInv'
<1>1. CASE append_ready(p, rq, pr) /\ PinThread(sig, pr)
  <2>1. started \subseteq started'
    BY <1>1, Zenon DEF PinThread
  <2>2. CASE ~has_ready_processes(rq)
    <3>1. signal_has_processes
      BY <1>1, <2>2 DEF append_ready
    <3>2. \A u \in waiting : pc'[u] = "top"
      BY DEF WakeInv, SleepersAtTop, TypeOK
    <3> QED
      BY <2>1, <3>1, <3>2, WakeSignal
  <2>3. CASE has_ready_processes(rq)
    <3>1. waiting' = waiting
      BY <1>1, <2>3 DEF append_ready
    <3>2. has_ready_processes(ready_queue)
      BY <2>3
    <3> QED
      BY <2>1, <3>1, <3>2, WakeKept
  <2> QED
    BY <2>2, <2>3
<1>2. CASE ready_queue' = rq /\ UNCHANGED <<priority, waiting, started, pinned>>
  BY <1>2, WakeKept
<1> QED
  BY <1>1, <1>2 DEF process_ready

\* Unlinking a process adds no work.
LEMMA RemoveReady ==
  ASSUME NEW rq \in [Indexes -> Seq(Procs)], NEW p,
         has_ready_processes(remove(rq, p))
  PROVE  has_ready_processes(rq)
<1> DEFINE i == compute_ready_queue_index(priority[p])
           at == {k \in DOMAIN rq[i] : rq[i][k] = p}
<1>1. i \in Indexes
  BY IndexType
<1>2. CASE at = {}
  BY <1>2 DEF remove
<1>3. CASE at # {}
  <2>1. rq[i] # <<>>
    BY <1>3
  <2> QED
    BY <1>1, <2>1 DEF has_ready_processes
<1> QED
  BY <1>2, <1>3

\* A thread that moves from inside run_process leaves the others where they are.
LEMMA GotoTop ==
  ASSUME TypeOK, NEW t \in Threads, NEW label, Goto(t, label), pc[t] # "top"
  PROVE  \A u \in Threads : pc[u] = "top" => pc'[u] = "top"
BY DEF Goto, TypeOK

\* wait_for_any_gc_to_complete moves only its own thread.
LEMMA WaitGcGoto ==
  ASSUME NEW t \in Threads, NEW p, NEW label, wait_for_any_gc_to_complete(t, p, label)
  PROVE  \E l : Goto(t, l)
BY DEF wait_for_any_gc_to_complete

\* The steps of Scheduler::run and run_process keep WakeInv.
LEMMA WakeRun ==
  ASSUME TypeInv, WakeInv, NEW t \in Threads, run(t)
  PROVE  WakeInv'
<1>0. TypeOK
  BY DEF TypeInv
<1>1. CASE WaitForProcess(t)
  <2>1. SleepersAtTop'
    BY <1>1 DEF WaitForProcess, WakeInv, SleepersAtTop, threadVars
  <2>2. NoThreadSleepsOnWork'
    BY <1>1 DEF WaitForProcess, NoThreadSleepsOnWork, has_ready_processes
  <2> QED
    BY <2>1, <2>2 DEF WakeInv
<1>2. CASE TakeProcess(t)
  <2>1. /\ pc[t] = "top" /\ t \notin waiting /\ exit = "EXIT_NONE" /\ exit' = exit
        /\ started' = started
        /\ IF has_ready_processes(ready_queue')
           THEN signal_has_processes ELSE waiting' = waiting
        /\ \E l : Goto(t, l)
    BY <1>2, WaitGcGoto DEF TakeProcess
  <2>2. \A u \in waiting : pc'[u] = "top"
    BY <1>0, <2>1 DEF Goto, WakeInv, SleepersAtTop, TypeOK
  <2>3. CASE has_ready_processes(ready_queue')
    BY <1>0, <2>1, <2>2, <2>3, WakeSignal
  <2>4. CASE ~has_ready_processes(ready_queue')
    <3>1. SleepersAtTop'
      BY <2>1, <2>2, <2>4 DEF WakeInv, SleepersAtTop
    <3>2. NoThreadSleepsOnWork'
      BY <2>1, <2>4 DEF NoThreadSleepsOnWork
    <3> QED
      BY <3>1, <3>2 DEF WakeInv
  <2> QED
    BY <2>3, <2>4
<1>3. CASE GcIsOver(t)
  <2>1. \E l : Goto(t, l) /\ pc[t] # "top"
    BY <1>3 DEF GcIsOver
  <2> QED
    BY <1>0, <1>3, <2>1, GotoTop, WakeKept DEF GcIsOver, queueVars
<1>4. CASE EnterProcess(t)
  <2>1. \E l : Goto(t, l) /\ pc[t] # "top"
    BY <1>4 DEF EnterProcess
  <2> QED
    BY <1>0, <1>4, <2>1, GotoTop, WakeKept DEF EnterProcess
<1>5. CASE FinishRun(t)
  <2>1. pc[t] # "top" /\ ready_queue' = ready_queue /\ started' = started
    BY <1>5 DEF FinishRun
  <2>2. CASE /\ \E label : wait_for_any_gc_to_complete(t, cur[t], label)
             /\ UNCHANGED <<waiting, exit>>
    BY <1>0, <2>1, <2>2, WaitGcGoto, GotoTop, WakeKept
  <2>3. CASE terminate_execution("EXIT_DEEP_SLEEP") /\ Return(t)
    <3>1. \A u \in waiting : pc'[u] = "top"
      BY <1>0, <2>1, <2>3, GotoTop DEF Return, WakeInv, SleepersAtTop, TypeOK
    <3> QED
      BY <1>0, <2>1, <2>3, <3>1, WakeSignal DEF terminate_execution
  <2> QED
    BY <1>5, <2>2, <2>3 DEF FinishRun
<1>6. CASE RequeueProcess(t)
  <2>1. \A u \in Threads : pc[u] = "top" => pc'[u] = "top"
    BY <1>0, <1>6, GotoTop DEF RequeueProcess, Return
  <2> QED
    BY <1>0, <1>6, <2>1, WakeReady DEF RequeueProcess
<1>7. CASE YieldProcess(t)
  <2>1. \A u \in Threads : pc[u] = "top" => pc'[u] = "top"
    BY <1>0, <1>7, GotoTop DEF YieldProcess, Return
  <2>2. CASE UNCHANGED <<signals, queueVars>>
    BY <1>0, <1>7, <2>1, <2>2, WakeKept DEF YieldProcess, queueVars
  <2>3. CASE process_ready(cur[t], [state EXCEPT ![cur[t]] = "IDLE"], signals,
                           ready_queue, target_priority[cur[t]])
    BY <1>0, <1>7, <2>1, <2>3, WakeReady DEF YieldProcess
  <2> QED
    BY <1>7, <2>2, <2>3 DEF YieldProcess
<1>8. CASE RemoveProcess(t)
  BY <1>0, <1>8, GotoTop, WakeKept DEF RemoveProcess, queueVars
<1>9. CASE DestroyProcess(t)
  <2>1. \E l : Goto(t, l) /\ pc[t] # "top"
    BY <1>9 DEF DestroyProcess
  <2> QED
    BY <1>0, <1>9, <2>1, GotoTop, WakeKept DEF DestroyProcess, queueVars
<1>10. CASE ProcessTerminated(t)
  <2>1. \A u \in Threads : pc[u] = "top" => pc'[u] = "top"
    BY <1>0, <1>10, GotoTop DEF ProcessTerminated, Return
  <2>2. CASE /\ process_ready(BootAfter(t), state, signals, ready_queue,
                              target_priority[BootAfter(t)])
             /\ exit' = exit
    BY <1>0, <2>1, <2>2, WakeReady
  <2>3. CASE /\ \E r \in {"EXIT_DONE", "EXIT_ERROR"} : terminate_execution(r)
             /\ UNCHANGED <<state, messages, ready_queue, priority, started, pinned>>
    <3>1. signal_has_processes /\ started' = started
      BY <2>3 DEF terminate_execution
    <3>2. \A u \in waiting : pc'[u] = "top"
      BY <1>0, <2>1 DEF WakeInv, SleepersAtTop, TypeOK
    <3> QED
      BY <1>0, <3>1, <3>2, WakeSignal
  <2> QED
    BY <1>10, <2>2, <2>3 DEF ProcessTerminated
<1>11. CASE ExitThread(t)
  <2>1. /\ t \notin waiting /\ signal_has_processes /\ started' = started
        /\ Goto(t, "exited")
    BY <1>11 DEF ExitThread
  <2>2. \A u \in waiting : pc'[u] = "top"
    BY <1>0, <2>1 DEF Goto, WakeInv, SleepersAtTop, TypeOK
  <2> QED
    BY <1>0, <2>1, <2>2, WakeSignal
<1> QED
  BY <1>1, <1>2, <1>3, <1>4, <1>5, <1>6, <1>7, <1>8, <1>9, <1>10, <1>11 DEF run

\* The steps of Scheduler::gc keep WakeInv.
LEMMA WakeGc ==
  ASSUME TypeInv, WakeInv, NEW t \in Threads, gc(t)
  PROVE  WakeInv'
<1>0. TypeOK
  BY DEF TypeInv
<1>1. CASE GcPreempted(t)
  BY <1>0, <1>1, GotoTop, WakeKept DEF GcPreempted, queueVars
<1>2. CASE GcSuspend(t)
  <2>1. \A u \in Threads : pc[u] = "top" => pc'[u] = "top"
    BY <1>0, <1>2, GotoTop DEF GcSuspend
  <2>2. has_ready_processes(ready_queue') => has_ready_processes(ready_queue)
    <3>1. \/ ready_queue' = ready_queue
          \/ \E p : ready_queue' = remove(ready_queue, p)
      BY <1>2 DEF GcSuspend, gc_suspend_process
    <3>2. ready_queue \in [Indexes -> Seq(Procs)]
      BY <1>0 DEF TypeOK
    <3> QED
      BY <3>1, <3>2, RemoveReady
  <2> QED
    BY <1>0, <1>2, <2>1, <2>2, WakeKept DEF GcSuspend
<1>3. CASE GcCollect(t)
  <2>1. \A u \in Threads : pc[u] = "top" => pc'[u] = "top"
    BY <1>0, <1>3, GotoTop DEF GcCollect
  <2> QED
    BY <1>0, <1>3, <2>1, WakeKept DEF GcCollect, queueVars
<1>4. CASE GcResume(t)
  <2>1. \A u \in Threads : pc[u] = "top" => pc'[u] = "top"
    BY <1>0, <1>4, GotoTop DEF GcResume
  <2>2. exit' = exit
    BY <1>4 DEF GcResume
  <2>3. CASE UNCHANGED <<signals, queueVars>>
    BY <1>0, <2>1, <2>2, <2>3, WakeKept DEF queueVars
  <2>4. CASE \E p : process_ready(p, [state EXCEPT ![p] = "IDLE"], signals,
                                  ready_queue, target_priority[p])
    BY <1>0, <2>1, <2>2, <2>4, WakeReady
  <2> QED
    BY <1>4, <2>3, <2>4 DEF GcResume, gc_resume_process
<1>5. CASE GcDone(t)
  BY <1>0, <1>5, GotoTop, WakeKept DEF GcDone, queueVars
<1> QED
  BY <1>1, <1>2, <1>3, <1>4, <1>5 DEF gc

\* The calls of processes and of other OS threads keep WakeInv.
LEMMA WakeCalls ==
  ASSUME TypeInv, WakeInv, NEW t \in Threads, ProcessCalls(t)
  PROVE  WakeInv'
<1>0. TypeOK
  BY DEF TypeInv
<1>1. CASE ReturnFromRun(t)
  BY <1>0, <1>1, GotoTop, WakeKept DEF ReturnFromRun, queueVars
<1>2. CASE ReceiveMessage(t)
  BY <1>0, <1>2, WakeKept DEF ReceiveMessage, queueVars, threadVars
<1>3. CASE GcSoft(t)
  BY <1>0, <1>3, GotoTop, WakeKept DEF GcSoft, queueVars
<1>4. CASE GcHard(t)
  <2>1. \E l : Goto(t, l) /\ pc[t] # "top"
    BY <1>4 DEF GcHard, StartCrossGc
  <2> QED
    BY <1>0, <1>4, <2>1, GotoTop, WakeKept DEF GcHard, queueVars
<1>5. ASSUME NEW p \in Procs, signal_process(t, p)
      PROVE  WakeInv'
  BY <1>0, <1>5, WakeReady DEF signal_process, threadVars
<1>6. ASSUME NEW g, kill(t, g)
      PROVE  WakeInv'
  <2>1. \A u \in Threads : pc[u] = "top" => pc'[u] = "top"
    <3>1. pc' = pc \/ \E l : Goto(t, l) /\ pc[t] # "top"
      BY <1>6 DEF kill
    <3> QED
      BY <1>0, <3>1, GotoTop
  <2>2. exit' = exit
    BY <1>6 DEF kill
  <2>3. CASE UNCHANGED queueVars
    BY <1>0, <2>1, <2>2, <2>3, WakeKept DEF queueVars
  <2>4. CASE \E p, sig : process_ready(p, state, sig, ready_queue, target_priority[p])
    BY <1>0, <2>1, <2>2, <2>4, WakeReady
  <2> QED
    BY <1>6, <2>3, <2>4, Zenon DEF kill
<1>7. ASSUME NEW p \in Procs, NEW pr \in Priorities, update_priority(t, p, pr)
      PROVE  WakeInv'
  <2>1. pc' = pc /\ exit' = exit
    BY <1>7 DEF update_priority, threadVars
  <2>2. CASE UNCHANGED queueVars
    BY <1>0, <2>1, <2>2, WakeKept DEF queueVars
  <2>3. CASE process_ready(p, [state EXCEPT ![p] = "IDLE"], signals,
                           remove(ready_queue, p), pr)
    <3>1. has_ready_processes(remove(ready_queue, p))
            => has_ready_processes(ready_queue)
      BY <1>0, RemoveReady, Zenon DEF TypeOK
    <3> QED
      BY <1>0, <2>1, <2>3, <3>1, WakeReady
  <2> QED
    BY <1>7, <2>2, <2>3 DEF update_priority
<1>8. ASSUME NEW q \in Procs, NEW pr \in Priorities, spawn(t, q, pr)
      PROVE  WakeInv'
  <2>1. \A u \in Threads : pc[u] = "top" => pc'[u] = "top"
    <3>1. \E l : Goto(t, l) /\ pc[t] # "top"
      BY <1>8, Zenon DEF spawn
    <3> QED
      BY <1>0, <3>1, GotoTop
  <2>2. exit' = exit
    BY <1>8, Zenon DEF spawn
  <2>3. CASE UNCHANGED queueVars
    BY <1>0, <2>1, <2>2, <2>3, WakeKept DEF queueVars
  <2>4. CASE \E p, st, pri : process_ready(p, st, signals, ready_queue, pri)
    BY <1>0, <2>1, <2>2, <2>4, WakeReady
  <2> QED
    BY <1>8, <2>3, <2>4 DEF spawn
<1>9. ASSUME NEW q \in Procs, run_program(t, q)
      PROVE  WakeInv'
  BY <1>0, <1>9, WakeReady DEF run_program, threadVars
<1> QED
  BY <1>1, <1>2, <1>3, <1>4, <1>5, <1>6, <1>7, <1>8, <1>9 DEF ProcessCalls

LEMMA WakeOther == TypeInv /\ WakeInv /\ OtherCalls => WakeInv'
<1> SUFFICES ASSUME TypeInv, WakeInv, OtherCalls PROVE WakeInv'
  OBVIOUS
<1>0. TypeOK
  BY DEF TypeInv
<1>1. ASSUME NEW p \in Procs, send_message(p)
      PROVE  WakeInv'
  BY <1>0, <1>1, WakeReady DEF send_message, threadVars
<1>2. ASSUME NEW q \in Procs, run_external(q)
      PROVE  WakeInv'
  BY <1>0, <1>2, WakeReady DEF run_external, threadVars
<1> QED
  BY <1>1, <1>2 DEF OtherCalls

(***************************************************************************)
(* The boot process and the reason to exit.                                *)
(***************************************************************************)

\* While there is no reason to exit, num_processes_ is not zero.
LEMMA BootCounts == TypeInv /\ BootInv => ExitBeforeEmpty
<1> SUFFICES ASSUME TypeInv, BootInv, num_processes = 0, exit = "EXIT_NONE"
             PROVE  FALSE
  BY DEF ExitBeforeEmpty
<1> USE ConstantsAssumption
<1> DEFINE alive == {p \in Procs : state[p] \notin {"UNBORN", "FREED"}}
           deleting == {t \in Threads : pc[t] = "deleted"}
<1>1. IsFiniteSet(alive) /\ IsFiniteSet(deleting)
  BY FS_Subset
<1>2. Cardinality(alive) \in Nat /\ Cardinality(deleting) \in Nat
  BY <1>1, FS_CardinalityType
<1>3. Cardinality(alive) + Cardinality(deleting) = 0
  BY DEF num_processes
<1>4. Cardinality(alive) = 0 /\ Cardinality(deleting) = 0
  BY <1>2, <1>3
<1>5. alive = {} /\ deleting = {}
  BY <1>1, <1>4, FS_EmptySet
<1>6. Boot \in alive \/ \E t \in Threads : t \in deleting
  BY DEF BootInv, Gone
<1> QED
  BY <1>5, <1>6

\* The launch thread keeps WakeInv: it sets a reason to exit only when no
\* thread is left that could sleep.
LEMMA WakeLaunch == TypeInv /\ WakeInv /\ BootInv /\ launch_program => WakeInv'
<1> SUFFICES ASSUME TypeInv, WakeInv, BootInv, launch_program PROVE WakeInv'
  OBVIOUS
<1>0. TypeOK
  BY DEF TypeInv
<1>1. CASE tick
  BY <1>0, <1>1, WakeKept DEF tick, queueVars, threadVars
<1>2. CASE LeaveLoop
  <2>1. waiting' = waiting /\ started' = started /\ ready_queue' = ready_queue
        /\ pc' = pc
    BY <1>2 DEF LeaveLoop, queueVars, threadVars
  <2>2. CASE exit # "EXIT_NONE"
    BY <1>0, <2>1, <2>2, WakeKept
  <2>3. CASE exit = "EXIT_NONE"
    <3>1. num_threads = 0
      BY <1>2, <2>3, BootCounts DEF LeaveLoop, ExitBeforeEmpty
    <3>2. {t \in started : pc[t] # "exited"} = {}
      <4>1. IsFiniteSet({t \in started : pc[t] # "exited"})
        BY <1>0, FS_Subset, ConstantsAssumption DEF TypeOK
      <4> QED
        BY <3>1, <4>1, FS_EmptySet DEF num_threads
    <3>3. waiting = {}
      BY <3>2 DEF WakeInv, SleepersAtTop
    <3> QED
      BY <2>1, <3>3 DEF WakeInv, SleepersAtTop, NoThreadSleepsOnWork
  <2> QED
    BY <2>2, <2>3
<1>3. ASSUME NEW t \in Threads, JoinThread(t)
      PROVE  WakeInv'
  BY <1>0, <1>3, WakeKept DEF JoinThread, queueVars, threadVars
<1>4. CASE DeleteRemaining
  <2>1. ~has_ready_processes(ready_queue')
    BY <1>4 DEF DeleteRemaining, has_ready_processes
  <2> QED
    BY <1>0, <1>4, <2>1, WakeKept DEF DeleteRemaining, threadVars
<1> QED
  BY <1>1, <1>2, <1>3, <1>4 DEF launch_program

\* A step that neither ends the boot process nor finishes a deletion.
DeletedStay == \A u \in Threads : pc[u] = "deleted" => pc'[u] = "deleted" /\ cur'[u] = cur[u]
BootStays == state[Boot] \notin Gone => state'[Boot] \notin Gone

LEMMA BootKept ==
  ASSUME BootInv, exit' = "EXIT_NONE" => exit = "EXIT_NONE", main' = main,
         boot_process' = boot_process, BootStays, DeletedStay
  PROVE  BootInv'
BY DEF BootInv, BootStays, DeletedStay

LEMMA GotoDeleted ==
  ASSUME TypeOK, NEW t \in Threads, NEW label, Goto(t, label), pc[t] # "deleted",
         \/ cur' = cur
         \/ \E p : cur' = [cur EXCEPT ![t] = p]
  PROVE  DeletedStay
BY DEF Goto, TypeOK, DeletedStay

\* process_ready and the changes of one state keep the boot process.
LEMMA ReadyBoot ==
  ASSUME TypeOK, NEW p, NEW st \in [Procs -> States], NEW sig, NEW rq, NEW pr,
         process_ready(p, st, sig, rq, pr),
         state[Boot] \notin Gone => st[Boot] \notin Gone
  PROVE  BootStays
BY ConstantsAssumption DEF process_ready, Reawakened, BootStays, Gone

LEMMA SetStateBoot ==
  ASSUME TypeOK, NEW p, NEW s \in States \ Gone
  PROVE  /\ [state EXCEPT ![p] = s] \in [Procs -> States]
         /\ state[Boot] \notin Gone => [state EXCEPT ![p] = s][Boot] \notin Gone
BY ConstantsAssumption, Zenon DEF TypeOK, Gone

LEMMA WaitGcBoot ==
  ASSUME TypeOK, NEW t \in Threads, NEW p, NEW label,
         wait_for_any_gc_to_complete(t, p, label)
  PROVE  BootStays
BY ConstantsAssumption DEF wait_for_any_gc_to_complete, TypeOK, BootStays, Gone

\* The steps of Scheduler::run and run_process keep BootInv: the thread that
\* deletes the boot process sets the reason to exit.
LEMMA BootRun ==
  ASSUME TypeInv, BootInv, NEW t \in Threads, run(t)
  PROVE  BootInv'
<1>0. TypeOK /\ Boot \in Procs
  BY ConstantsAssumption DEF TypeInv
<1> DEFINE idle == [state EXCEPT ![cur[t]] = "IDLE"]
<1>a. idle \in [Procs -> States] /\ (state[Boot] \notin Gone => idle[Boot] \notin Gone)
  <2>1. "IDLE" \in States \ Gone
    BY DEF States, Gone
  <2> QED
    BY <1>0, <2>1, SetStateBoot
<1>1. CASE WaitForProcess(t)
  BY <1>1, BootKept DEF WaitForProcess, threadVars, BootStays, DeletedStay
<1>2. CASE TakeProcess(t)
  <2>1. PICK p : /\ cur' = [cur EXCEPT ![t] = p]
                 /\ wait_for_any_gc_to_complete(t, p, "enter")
    BY <1>2, Zenon DEF TakeProcess
  <2>2. pc[t] = "top" /\ UNCHANGED <<exit, main, boot_process>>
    BY <1>2 DEF TakeProcess
  <2>3. DeletedStay
    BY <1>0, <2>1, <2>2, WaitGcGoto, GotoDeleted, Zenon
  <2>4. BootStays
    BY <1>0, <2>1, WaitGcBoot
  <2> QED
    BY <2>2, <2>3, <2>4, BootKept
<1>3. CASE GcIsOver(t)
  BY <1>0, <1>3, GotoDeleted, BootKept DEF GcIsOver, BootStays
<1>4. CASE EnterProcess(t)
  <2>1. DeletedStay
    BY <1>0, <1>4, GotoDeleted DEF EnterProcess
  <2>2. BootStays
    BY <1>0, <1>4 DEF EnterProcess, BootStays, TypeOK, Gone
  <2> QED
    BY <1>4, <2>1, <2>2, BootKept DEF EnterProcess
<1>5. CASE FinishRun(t)
  <2>1. pc[t] = "finish" /\ UNCHANGED <<main, boot_process>>
    BY <1>5 DEF FinishRun
  <2>2. CASE SignalledResult(t) = "DEEP_SLEEP" /\ terminate_execution("EXIT_DEEP_SLEEP")
    BY <2>2 DEF terminate_execution, BootInv
  <2>3. CASE cur' = cur /\ exit' = exit
             /\ \E label : wait_for_any_gc_to_complete(t, cur[t], label)
    <3>1. DeletedStay
      BY <1>0, <2>1, <2>3, WaitGcGoto, GotoDeleted
    <3>2. BootStays
      BY <1>0, <2>3, WaitGcBoot
    <3> QED
      BY <2>1, <2>3, <3>1, <3>2, BootKept
  <2> QED
    BY <1>5, <2>2, <2>3 DEF FinishRun
<1>6. CASE RequeueProcess(t)
  <2>1. DeletedStay
    BY <1>0, <1>6, GotoDeleted, Zenon DEF RequeueProcess, Return
  <2>2. BootStays
    BY <1>0, <1>6, <1>a, ReadyBoot, Zenon DEF RequeueProcess
  <2> QED
    BY <1>6, <2>1, <2>2, BootKept DEF RequeueProcess
<1>7. CASE YieldProcess(t)
  <2>1. DeletedStay
    BY <1>0, <1>7, GotoDeleted, Zenon DEF YieldProcess, Return
  <2>2. BootStays
    <3>1. CASE state' = idle
      BY <1>a, <3>1 DEF BootStays
    <3>2. CASE process_ready(cur[t], idle, signals, ready_queue, target_priority[cur[t]])
      BY <1>0, <1>a, <3>2, ReadyBoot, Zenon
    <3> QED
      BY <1>7, <3>1, <3>2 DEF YieldProcess
  <2> QED
    BY <1>7, <2>1, <2>2, BootKept DEF YieldProcess
<1>8. CASE RemoveProcess(t)
  <2>1. DeletedStay
    BY <1>0, <1>8, GotoDeleted DEF RemoveProcess
  <2>2. BootStays
    BY <1>0, <1>8 DEF RemoveProcess, BootStays, TypeOK, Gone
  <2> QED
    BY <1>8, <2>1, <2>2, BootKept, Zenon DEF RemoveProcess
<1>9. CASE DestroyProcess(t)
  <2>1. DeletedStay /\ UNCHANGED <<exit, main, boot_process, cur>>
    BY <1>0, <1>9, GotoDeleted DEF DestroyProcess
  <2>2. CASE BootStays
    BY <2>1, <2>2, BootKept
  <2>3. CASE ~BootStays
    <3>1. pc' = [pc EXCEPT ![t] = "deleted"] /\ cur[t] = Boot
      BY <1>0, <1>9, <2>3 DEF DestroyProcess, Goto, BootStays, TypeOK, Gone
    <3>2. pc'[t] = "deleted" /\ cur'[t] = Boot
      BY <1>0, <2>1, <3>1 DEF TypeOK
    <3> QED
      BY <2>1, <3>2 DEF BootInv
  <2> QED
    BY <2>2, <2>3
<1>10. CASE ProcessTerminated(t)
  <2>1. CASE BootAfter(t) = None
    BY <1>10, <2>1, ConstantsAssumption, Zenon
       DEF ProcessTerminated, terminate_execution, BootInv
  <2>2. CASE BootAfter(t) # None
    <3>1. /\ cur[t] # boot_process /\ boot_process' = boot_process
          /\ exit' = exit /\ main' = main
          /\ process_ready(boot_process, state, signals, ready_queue,
                           target_priority[boot_process])
          /\ Return(t)
      BY <1>10, <2>2 DEF ProcessTerminated, BootAfter
    <3>2. BootStays
      BY <1>0, <3>1, ReadyBoot, Zenon DEF TypeOK
    <3>3. \A u \in Threads \ {t} : pc'[u] = pc[u] /\ cur'[u] = cur[u]
      BY <1>0, <3>1 DEF Return, Goto, TypeOK
    <3> QED
      BY <3>1, <3>2, <3>3, Zenon DEF BootInv, BootStays
  <2> QED
    BY <2>1, <2>2
<1>11. CASE ExitThread(t)
  BY <1>0, <1>11, GotoDeleted, BootKept DEF ExitThread, BootStays
<1> QED
  BY <1>1, <1>2, <1>3, <1>4, <1>5, <1>6, <1>7, <1>8, <1>9, <1>10, <1>11 DEF run

\* The steps of Scheduler::gc keep BootInv.
LEMMA BootGc ==
  ASSUME TypeInv, BootInv, NEW t \in Threads, gc(t)
  PROVE  BootInv'
<1>0. TypeOK /\ Boot \in Procs
  BY ConstantsAssumption DEF TypeInv
<1>1. CASE GcPreempted(t)
  BY <1>0, <1>1, GotoDeleted, BootKept DEF GcPreempted, BootStays
<1>2. CASE GcSuspend(t)
  <2>1. DeletedStay
    <3>1. CASE pc' = pc
      BY <1>2, <3>1 DEF GcSuspend, DeletedStay
    <3>2. CASE Goto(t, "gc_collect")
      BY <1>0, <1>2, <3>2, GotoDeleted DEF GcSuspend
    <3> QED
      BY <1>2, <3>1, <3>2 DEF GcSuspend
  <2>2. BootStays
    BY <1>0, <1>2 DEF GcSuspend, gc_suspend_process, BootStays, TypeOK, Gone
  <2> QED
    BY <1>2, <2>1, <2>2, BootKept DEF GcSuspend
<1>3. CASE GcCollect(t)
  <2>1. DeletedStay
    <3>1. CASE pc' = pc
      BY <1>3, <3>1 DEF GcCollect, DeletedStay
    <3>2. CASE Goto(t, "gc_resume")
      BY <1>0, <1>3, <3>2, GotoDeleted DEF GcCollect
    <3> QED
      BY <1>3, <3>1, <3>2, Zenon DEF GcCollect
  <2> QED
    BY <1>3, <2>1, BootKept DEF GcCollect, BootStays
<1>4. CASE GcResume(t)
  <2>1. DeletedStay
    <3>1. CASE pc' = pc
      BY <1>4, <3>1 DEF GcResume, DeletedStay
    <3>2. CASE Goto(t, "gc_own")
      BY <1>0, <1>4, <3>2, GotoDeleted DEF GcResume
    <3> QED
      BY <1>4, <3>1, <3>2 DEF GcResume
  <2>2. BootStays
    <3>1. CASE state' = state
      BY <3>1 DEF BootStays
    <3>2. ASSUME NEW p \in Procs, gc_resume_process(p)
          PROVE  BootStays
      <4>1. "IDLE" \in States \ Gone
        BY DEF States, Gone
      <4>2. /\ [state EXCEPT ![p] = "IDLE"] \in [Procs -> States]
            /\ state[Boot] \notin Gone => [state EXCEPT ![p] = "IDLE"][Boot] \notin Gone
        BY <1>0, <4>1, SetStateBoot
      <4>3. CASE state' = [state EXCEPT ![p] = "IDLE"]
        BY <4>2, <4>3 DEF BootStays
      <4>4. CASE process_ready(p, [state EXCEPT ![p] = "IDLE"], signals, ready_queue,
                               target_priority[p])
        BY <1>0, <4>2, <4>4, ReadyBoot, Zenon
      <4> QED
        BY <3>2, <4>3, <4>4 DEF gc_resume_process
    <3>3. todo[t] \subseteq Procs
      BY <1>0 DEF TypeOK
    <3> QED
      BY <1>4, <3>1, <3>2, <3>3 DEF GcResume
  <2> QED
    BY <1>4, <2>1, <2>2, BootKept DEF GcResume
<1>5. CASE GcDone(t)
  BY <1>0, <1>5, GotoDeleted, BootKept DEF GcDone, BootStays
<1> QED
  BY <1>1, <1>2, <1>3, <1>4, <1>5 DEF gc

\* The calls of processes keep BootInv.
LEMMA BootCalls ==
  ASSUME TypeInv, BootInv, NEW t \in Threads, ProcessCalls(t)
  PROVE  BootInv'
<1>0. TypeOK /\ Boot \in Procs /\ state \in [Procs -> States]
  BY ConstantsAssumption, Zenon DEF TypeInv, TypeOK
<1>a. ASSUME NEW p
      PROVE  /\ [state EXCEPT ![p] = "IDLE"] \in [Procs -> States]
             /\ state[Boot] \notin Gone => [state EXCEPT ![p] = "IDLE"][Boot] \notin Gone
  <2>1. "IDLE" \in States \ Gone
    BY DEF States, Gone
  <2> QED
    BY <1>0, <2>1, SetStateBoot
<1>1. CASE ReturnFromRun(t)
  BY <1>0, <1>1, GotoDeleted, BootKept, Zenon DEF ReturnFromRun, BootStays
<1>2. CASE ReceiveMessage(t)
  BY <1>2, BootKept, Zenon DEF ReceiveMessage, threadVars, BootStays, DeletedStay
<1>3. CASE GcSoft(t)
  BY <1>0, <1>3, GotoDeleted, BootKept DEF GcSoft, BootStays
<1>4. CASE GcHard(t)
  <2>1. \E l : Goto(t, l) /\ pc[t] # "deleted"
    BY <1>4 DEF GcHard, StartCrossGc
  <2> QED
    BY <1>0, <1>4, <2>1, GotoDeleted, BootKept DEF GcHard, BootStays
<1>5. ASSUME NEW p \in Procs, signal_process(t, p)
      PROVE  BootInv'
  <2>1. BootStays
    BY <1>0, <1>5, ReadyBoot DEF signal_process
  <2> QED
    BY <1>5, <2>1, BootKept DEF signal_process, threadVars, DeletedStay
<1>6. ASSUME NEW g, kill(t, g)
      PROVE  BootInv'
  <2>1. DeletedStay
    <3>1. CASE pc' = pc
      BY <1>6, <3>1 DEF kill, DeletedStay
    <3>2. CASE \E l : Goto(t, l)
      BY <1>0, <1>6, <3>2, GotoDeleted DEF kill
    <3> QED
      BY <1>6, <3>1, <3>2 DEF kill
  <2>2. BootStays
    <3>1. CASE state' = state
      BY <3>1 DEF BootStays
    <3>2. CASE \E p, sig : process_ready(p, state, sig, ready_queue, target_priority[p])
      BY <1>0, <3>2, ReadyBoot
    <3> QED
      BY <1>6, <3>1, <3>2, Zenon DEF kill
  <2> QED
    BY <1>6, <2>1, <2>2, BootKept DEF kill
<1>7. ASSUME NEW p \in Procs, NEW pr \in Priorities, update_priority(t, p, pr)
      PROVE  BootInv'
  <2>1. BootStays
    <3>1. CASE state' = state
      BY <3>1 DEF BootStays
    <3>2. CASE process_ready(p, [state EXCEPT ![p] = "IDLE"], signals,
                             remove(ready_queue, p), pr)
      BY <1>0, <1>a, <3>2, ReadyBoot, Zenon
    <3> QED
      BY <1>7, <3>1, <3>2 DEF update_priority
  <2> QED
    BY <1>7, <2>1, BootKept DEF update_priority, threadVars, DeletedStay
<1>8. ASSUME NEW q \in Procs, NEW pr \in Priorities, spawn(t, q, pr)
      PROVE  BootInv'
  <2>1. DeletedStay
    <3>1. \E l : Goto(t, l) /\ pc[t] # "deleted" /\ cur' = cur
      BY <1>8, Zenon DEF spawn
    <3> QED
      BY <1>0, <3>1, GotoDeleted
  <2>2. BootStays
    <3>1. CASE state' = [state EXCEPT ![q] = "IDLE"]
      BY <1>a, <3>1 DEF BootStays
    <3>2. CASE \E p, pri : process_ready(p, [state EXCEPT ![q] = "IDLE"], signals,
                                         ready_queue, pri)
      BY <1>0, <1>a, <3>2, ReadyBoot, Zenon
    <3>3. CASE \E p, pri : process_ready(p, state, signals, ready_queue, pri)
      BY <1>0, <3>3, ReadyBoot
    <3> QED
      BY <1>8, <3>1, <3>2, <3>3, Zenon DEF spawn
  <2> QED
    BY <1>8, <2>1, <2>2, BootKept, Zenon DEF spawn
<1>9. ASSUME NEW q \in Procs, run_program(t, q)
      PROVE  BootInv'
  <2>1. BootStays
    BY <1>0, <1>9, <1>a, ReadyBoot, Zenon DEF run_program
  <2> QED
    BY <1>9, <2>1, BootKept DEF run_program, threadVars, DeletedStay
<1> QED
  BY <1>1, <1>2, <1>3, <1>4, <1>5, <1>6, <1>7, <1>8, <1>9 DEF ProcessCalls

\* The calls of other OS threads keep BootInv.
LEMMA BootOther == TypeInv /\ BootInv /\ OtherCalls => BootInv'
<1> SUFFICES ASSUME TypeInv, BootInv, OtherCalls PROVE BootInv'
  OBVIOUS
<1>0. TypeOK /\ state \in [Procs -> States]
  BY DEF TypeInv, TypeOK
<1>1. ASSUME NEW p \in Procs, send_message(p)
      PROVE  BootInv'
  <2>1. BootStays
    BY <1>0, <1>1, ReadyBoot DEF send_message
  <2> QED
    BY <1>1, <2>1, BootKept DEF send_message, threadVars, DeletedStay
<1>2. ASSUME NEW q \in Procs, run_external(q)
      PROVE  BootInv'
  <2>1. "IDLE" \in States \ Gone
    BY DEF States, Gone
  <2>2. BootStays
    BY <1>0, <1>2, <2>1, SetStateBoot, ReadyBoot, Zenon DEF run_external
  <2> QED
    BY <1>2, <2>2, BootKept DEF run_external, threadVars, DeletedStay
<1> QED
  BY <1>1, <1>2 DEF OtherCalls

\* The launch thread keeps BootInv: it leaves its loop with a reason to exit.
LEMMA BootLaunch == TypeInv /\ BootInv /\ launch_program => BootInv'
<1> SUFFICES ASSUME TypeInv, BootInv, launch_program PROVE BootInv'
  OBVIOUS
<1>1. CASE tick
  BY <1>1, BootKept DEF tick, threadVars, BootStays, DeletedStay
<1>2. CASE LeaveLoop
  BY <1>2 DEF LeaveLoop, BootInv
<1>3. ASSUME NEW t \in Threads, JoinThread(t)
      PROVE  BootInv'
  BY <1>3, BootKept DEF JoinThread, threadVars, BootStays, DeletedStay
<1>4. CASE DeleteRemaining
  BY <1>4 DEF DeleteRemaining, BootInv
<1> QED
  BY <1>1, <1>2, <1>3, <1>4 DEF launch_program

(***************************************************************************)
(* The theorems.                                                           *)
(***************************************************************************)

AllInv == TypeInv /\ WakeInv /\ BootInv

LEMMA AllInit == Init => AllInv
<1> SUFFICES ASSUME Init PROVE AllInv
  OBVIOUS
<1>1. WakeInv
  BY DEF Init, WakeInv, SleepersAtTop, NoThreadSleepsOnWork
<1>2. BootInv
  BY ConstantsAssumption DEF Init, BootInv, Gone
<1> QED
  BY <1>1, <1>2, TypeInit DEF AllInv

LEMMA AllNext == AllInv /\ [Next]_vars => AllInv'
<1> SUFFICES ASSUME TypeInv, WakeInv, BootInv, [Next]_vars PROVE AllInv'
  BY DEF AllInv
<1>1. TypeInv'
  BY TypeNext
<1>2. CASE UNCHANGED vars
  <2>1. WakeInv'
    BY <1>2, Zenon DEF WakeInv, SleepersAtTop, NoThreadSleepsOnWork, has_ready_processes,
                vars, queueVars, threadVars
  <2>2. BootInv'
    BY <1>2 DEF BootInv, vars, threadVars
  <2> QED
    BY <1>1, <2>1, <2>2 DEF AllInv
<1>3. CASE Next
  <2>1. WakeInv'
    BY <1>2, <1>3, WakeRun, WakeGc, WakeCalls, WakeOther, WakeLaunch DEF Next, Done, AllInv
  <2>2. BootInv'
    BY <1>2, <1>3, BootRun, BootGc, BootCalls, BootOther, BootLaunch DEF Next, Done, AllInv
  <2> QED
    BY <1>1, <2>1, <2>2 DEF AllInv
<1> QED
  BY <1>2, <1>3

\* No signal of has_processes_ is lost: when there is a ready process, or a
\* reason to exit, and a scheduler thread sleeps in Scheduler::run, another one
\* is awake there (scheduler.cc:384-413, 821-823, 877).
THEOREM NoLostWakeup == Spec => []NoThreadSleepsOnWork
<1>1. AllInv => NoThreadSleepsOnWork
  BY DEF AllInv, WakeInv
<1> QED
  BY <1>1, AllInit, AllNext, PTL DEF Spec

\* The last process is never gone without a reason to exit: run_process sets one
\* before num_processes_ can be seen to be zero (scheduler.cc:163-182, 702-713).
THEOREM ExitReason == Spec => []ExitBeforeEmpty
<1>1. AllInv => ExitBeforeEmpty
  BY BootCounts DEF AllInv
<1> QED
  BY <1>1, AllInit, AllNext, PTL DEF Spec

==============================================================================
