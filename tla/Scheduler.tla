------------------------------ MODULE Scheduler ------------------------------
(***************************************************************************)
(* The process scheduler of the Toit VM (src/scheduler.cc, src/process.cc, *)
(* src/process_group.cc).  OS threads take processes from priority queues  *)
(* and interpret them; a thread that runs out of memory garbage collects   *)
(* the other processes; processes exchange messages, spawn and kill each   *)
(* other; the launch thread ticks, and shuts the system down.              *)
(*                                                                         *)
(* Every action is a stretch of code that runs under mutex_, or a step a   *)
(* thread takes without it.  A stretch that needs several actions keeps    *)
(* `mutex' set to its thread in between.                                   *)
(***************************************************************************)
EXTENDS Integers, Sequences, FiniteSets

CONSTANTS
  Procs,        \* processes that exist at some time
  External,     \* the ones with a ProcessRunner and no program
  Boot,         \* the boot process
  Group,        \* Group[p]: the process group (and program) of p
  Threads,      \* SchedulerThread objects that can be created
  MaxThreads,   \* max_threads_
  Priorities,   \* the priorities clients ask for
  Calls,        \* the calls into the scheduler clients make
  SoftGc,       \* processes whose first allocation attempt may fail
  HardGc,       \* processes that may ask for a try_hard collection
  MaxMessages,  \* bound on the messages clients put in one queue
  None          \* null

ASSUME ConstantsAssumption ==
  /\ External \subseteq Procs /\ Boot \in Procs \ External
  /\ SoftGc \subseteq Procs /\ HardGc \subseteq Procs
  /\ None \notin Procs /\ None \notin Threads
  /\ Group \in [Procs -> Nat]
  /\ Priorities \subseteq 0..255
  /\ MaxThreads \in Nat \ {0} /\ MaxMessages \in Nat
  /\ IsFiniteSet(Procs) /\ IsFiniteSet(Threads) /\ Threads # {}

VARIABLES
  mutex,       \* the scheduler thread inside a multi-step locked stretch
  state,       \* Process::state_ (and "UNBORN", "FREED")
  signals,     \* Process::signals_, a subset of {"KILL", "PREEMPT"}
  messages,    \* length of Process::messages_
  priority,    \* Process::priority_
  target_priority,
  idle_since_gc,
  live,        \* the processes in some group of groups_
  ready_queue, \* ready_queue_, by index
  started,     \* threads that were created
  joined,      \* threads launch_program removed from threads_ to join them
  pinned,      \* threads with is_pinned_
  waiting,     \* threads in OS::wait(has_processes_)
  pc,          \* where in run, run_process or gc each thread is
  cur,         \* the process each thread is handling
  result,      \* the Interpreter::Result of the thread's last run
  todo,        \* gc: targets of the thread; kill, spawn: processes to handle
  gc_cross,    \* the thread doing a cross-process GC (gc_cross_processes_)
  gc_waiting,  \* gc_waiting_for_preemption_
  boot_process,
  exit,        \* exit_state_.reason
  main         \* where launch_program is

gcVars == <<gc_cross, gc_waiting>>
threadVars == <<pc, cur, result, todo>>
queueVars == <<ready_queue, priority, waiting, started, pinned>>
procVars == <<messages, target_priority, idle_since_gc, live>>
vars == <<mutex, state, signals, queueVars, procVars, joined, threadVars,
          gcVars, boot_process, exit, main>>

States == {"UNBORN", "IDLE", "SCHEDULED", "RUNNING", "TERMINATING", "FREED",
           "SUSPENDED_IDLE", "SUSPENDED_SCHEDULED", "SUSPENDED_AWAITING_GC"}
Results == {"PREEMPTED", "YIELDED", "TERMINATED", "DEEP_SLEEP"}
ExitReasons == {"EXIT_NONE", "EXIT_DONE", "EXIT_DEEP_SLEEP", "EXIT_ERROR"}
Indexes == 0..4
PRIORITY_NORMAL == 128
PRIORITY_HIGH == 213
GcPcs == {"gc_preempt", "gc_suspend", "gc_collect", "gc_resume", "gc_own"}
AfterGc == {"enter", "requeue", "yielded", "terminate"}
Pcs == {"top", "run", "finish", "delete", "deleting", "deleted", "spawn",
        "kill", "exited"} \cup GcPcs \cup AfterGc
       \cup {"await_enter", "await_requeue", "await_yielded", "await_terminate"}

TypeOK ==
  /\ mutex \in Threads \cup {None}
  /\ state \in [Procs -> States]
  /\ signals \in [Procs -> SUBSET {"KILL", "PREEMPT"}]
  /\ messages \in [Procs -> Nat]
  /\ priority \in [Procs -> 0..255]
  /\ target_priority \in [Procs -> 0..255]
  /\ idle_since_gc \in [Procs -> BOOLEAN]
  /\ live \in SUBSET Procs
  /\ ready_queue \in [Indexes -> Seq(Procs)]
  /\ started \in SUBSET Threads /\ joined \in SUBSET Threads
  /\ pinned \in SUBSET Threads /\ waiting \in SUBSET Threads
  /\ pc \in [Threads -> Pcs]
  /\ cur \in [Threads -> Procs \cup {None}]
  /\ result \in [Threads -> Results]
  /\ todo \in [Threads -> SUBSET Procs]
  /\ gc_cross \in Threads \cup {None} /\ gc_waiting \in Int
  /\ boot_process \in {Boot, None}
  /\ exit \in ExitReasons
  /\ main \in {"loop", "join", "done"}

------------------------------------------------------------------------------
(* Helpers. *)

compute_ready_queue_index(pr) ==
  CASE pr = 255 -> 0
    [] pr \in 171..254 -> 1
    [] pr \in 85..170 -> 2
    [] pr \in 1..84 -> 3
    [] OTHER -> 4

has_ready_processes(rq) == \E i \in Indexes : rq[i] # <<>>

\* ready_queue(process->priority()).remove(process).
remove(rq, p) ==
  LET i == compute_ready_queue_index(priority[p])
      at == {k \in DOMAIN rq[i] : rq[i][k] = p}
      k == CHOOSE k \in at : TRUE
  IN IF at = {} THEN rq
     ELSE [rq EXCEPT ![i] = SubSeq(@, 1, k - 1) \o SubSeq(@, k + 1, Len(@))]

threads_ == started \ joined

num_threads == Cardinality({t \in started : pc[t] # "exited"})

\* thread->interpreter()->process() is set while the interpreter runs, and
\* stays null while a ProcessRunner runs.
Attached(t) ==
  /\ pc[t] \in {"run", "spawn", "kill"} \cup GcPcs
  /\ cur[t] \notin External

\* OS::signal(has_processes_).
signal_has_processes ==
  IF waiting = {} THEN waiting' = {}
  ELSE \E w \in waiting : waiting' = waiting \ {w}

Free(t) == mutex = None \/ mutex = t

Goto(t, label) == pc' = [pc EXCEPT ![t] = label]

\* run_process returns; its locals are gone.
Return(t) ==
  /\ Goto(t, "top")
  /\ cur' = [cur EXCEPT ![t] = None]
  /\ result' = [result EXCEPT ![t] = "PREEMPTED"]

------------------------------------------------------------------------------
(* Operations several handlers call.  The arguments st, sig, rq and pr are *)
(* what the handler has already made of state, signals, ready_queue and of *)
(* the target priority of p.                                               *)

\* A ready process behind the others of its priority; the first one wakes up a
\* sleeping thread.
append_ready_NoSignal(p, rq, pr) ==
  /\ waiting' = waiting
  /\ priority' = [priority EXCEPT ![p] = pr]
  /\ ready_queue' = [rq EXCEPT ![compute_ready_queue_index(pr)] = Append(@, p)]

append_ready_OldQueue(p, rq, pr) ==
  /\ IF has_ready_processes(rq) THEN waiting' = waiting ELSE signal_has_processes
  /\ priority' = [priority EXCEPT ![p] = pr]
  /\ ready_queue' = [rq EXCEPT ![compute_ready_queue_index(priority[p])]
                       = Append(@, p)]

append_ready(p, rq, pr) ==
  /\ IF has_ready_processes(rq) THEN waiting' = waiting ELSE signal_has_processes
  /\ priority' = [priority EXCEPT ![p] = pr]
  /\ ready_queue' = [rq EXCEPT ![compute_ready_queue_index(pr)] = Append(@, p)]

\* Reserve a thread for the new work: a free one, a new one, or the one that
\* runs the least important process.  The order of threads_ is abstracted: any
\* thread that fits is chosen.
PinThread(sig, pr) ==
  LET free == {t \in threads_ \ pinned : ~Attached(t)}
      busy == {t \in threads_ \ pinned : Attached(t)}
      lowest == {t \in busy : /\ priority[cur[t]] < pr
                              /\ \A u \in busy : priority[cur[t]] <= priority[cur[u]]}
      fresh == IF num_threads < MaxThreads THEN Threads \ started ELSE {}
  IN
  \/ \E t \in free : pinned' = pinned \cup {t} /\ started' = started /\ signals' = sig
  \/ /\ free = {}
     /\ \E t \in fresh :
          pinned' = pinned \cup {t} /\ started' = started \cup {t} /\ signals' = sig
  \/ /\ free = {} /\ fresh = {} /\ started' = started
     /\ \/ \E t \in lowest :
             /\ pinned' = pinned \cup {t}
             /\ signals' = [sig EXCEPT ![cur[t]] = @ \cup {"PREEMPT"}]
        \/ lowest = {} /\ pinned' = pinned /\ signals' = sig

\* What process_ready leaves in the state of a process that is not IDLE.
Reawakened_Dropped(st) == st
Reawakened(st) == IF st = "SUSPENDED_IDLE" THEN "SUSPENDED_SCHEDULED" ELSE st

process_ready(p, st, sig, rq, pr) ==
  \/ /\ st[p] = "IDLE"
     /\ state' = [st EXCEPT ![p] = "SCHEDULED"]
     /\ append_ready(p, rq, pr)
     /\ PinThread(sig, pr)
  \/ /\ st[p] # "IDLE"
     /\ state' = [st EXCEPT ![p] = Reawakened(@)]
     /\ signals' = sig /\ ready_queue' = rq
     /\ UNCHANGED <<priority, waiting, started, pinned>>

terminate_execution_NoKill(reason) ==
  /\ exit' = IF exit = "EXIT_NONE" THEN reason ELSE exit
  /\ signals' = signals
  /\ signal_has_processes

terminate_execution(reason) ==
  /\ exit' = IF exit = "EXIT_NONE" THEN reason ELSE exit
  /\ signals' = [p \in Procs |->
        IF \E t \in threads_ : Attached(t) /\ cur[t] = p
        THEN signals[p] \cup {"KILL"} ELSE signals[p]]
  /\ signal_has_processes

\* wait_for_any_gc_to_complete up to its wait.  The set_state after the wait
\* belongs to the action named by label, which runs in the same locked stretch.
wait_for_any_gc_to_complete(t, p, label) ==
  IF gc_cross = None
  THEN /\ Goto(t, label) /\ mutex' = t
       /\ UNCHANGED <<state, gc_waiting>>
  ELSE /\ Goto(t, CASE label = "enter"     -> "await_enter"
                    [] label = "requeue"   -> "await_requeue"
                    [] label = "yielded"   -> "await_yielded"
                    [] label = "terminate" -> "await_terminate")
       /\ mutex' = None
       /\ state' = [state EXCEPT ![p] = "SUSPENDED_AWAITING_GC"]
       /\ gc_waiting' = gc_waiting - 1

------------------------------------------------------------------------------
(* Scheduler::run and run_process, thread t. *)

WaitForProcess(t) ==
  /\ pc[t] = "top" /\ t \in started \ waiting /\ Free(t)
  /\ exit = "EXIT_NONE" /\ ~has_ready_processes(ready_queue)
  /\ waiting' = waiting \cup {t} /\ mutex' = None
  /\ UNCHANGED <<state, signals, ready_queue, priority, started, pinned,
                 procVars, joined, threadVars, gcVars, boot_process, exit, main>>

\* Mutant: the process stays in its queue.
TakeProcess_Peek(t) ==
  /\ pc[t] = "top" /\ t \in started \ waiting /\ Free(t)
  /\ exit = "EXIT_NONE"
  /\ \E i \in Indexes :
       /\ ready_queue[i] # <<>> /\ \A j \in Indexes : j < i => ready_queue[j] = <<>>
       /\ ready_queue' = ready_queue
       /\ cur' = [cur EXCEPT ![t] = Head(ready_queue[i])]
       /\ IF has_ready_processes(ready_queue')
          THEN signal_has_processes ELSE waiting' = waiting
       /\ wait_for_any_gc_to_complete(t, Head(ready_queue[i]), "enter")
  /\ UNCHANGED <<signals, priority, started, pinned, procVars, joined, result,
                 todo, gc_cross, boot_process, exit, main>>

TakeProcess(t) ==
  /\ pc[t] = "top" /\ t \in started \ waiting /\ Free(t)
  /\ exit = "EXIT_NONE"
  /\ \E i \in Indexes :
       /\ ready_queue[i] # <<>> /\ \A j \in Indexes : j < i => ready_queue[j] = <<>>
       /\ ready_queue' = [ready_queue EXCEPT ![i] = Tail(@)]
       /\ cur' = [cur EXCEPT ![t] = Head(ready_queue[i])]
       /\ IF has_ready_processes(ready_queue')
          THEN signal_has_processes ELSE waiting' = waiting
       /\ wait_for_any_gc_to_complete(t, Head(ready_queue[i]), "enter")
  /\ UNCHANGED <<signals, priority, started, pinned, procVars, joined, result,
                 todo, gc_cross, boot_process, exit, main>>

\* The end of OS::wait(gc_condition_) in wait_for_any_gc_to_complete.
GcIsOver(t) ==
  /\ mutex = None /\ gc_cross = None
  /\ \/ pc[t] = "await_enter" /\ Goto(t, "enter")
     \/ pc[t] = "await_requeue" /\ Goto(t, "requeue")
     \/ pc[t] = "await_yielded" /\ Goto(t, "yielded")
     \/ pc[t] = "await_terminate" /\ Goto(t, "terminate")
  /\ mutex' = t
  /\ UNCHANGED <<state, signals, queueVars, procVars, joined, cur, result, todo,
                 gcVars, boot_process, exit, main>>

EnterProcess(t) ==
  LET p == cur[t] IN
  /\ pc[t] = "enter" /\ mutex = t
  /\ state' = [state EXCEPT ![p] = "RUNNING"]
  /\ pinned' = pinned \ {t}
  /\ idle_since_gc' = IF p \in External THEN idle_since_gc
                      ELSE [idle_since_gc EXCEPT ![p] = FALSE]
  /\ result' = [result EXCEPT ![t] = "PREEMPTED"]
  /\ \/ signals[p] = {} /\ Goto(t, "run") /\ mutex' = None
     \/ signals[p] # {} /\ Goto(t, "finish") /\ mutex' = t
  /\ UNCHANGED <<signals, ready_queue, priority, waiting, started, messages,
                 target_priority, live, joined, cur, todo, gcVars,
                 boot_process, exit, main>>

\* The interpreter or the runner returns; the runner only ever yields.  The
\* interpreter may find the preemption marker of a signal that was handled before.
ReturnFromRun(t) ==
  /\ pc[t] = "run" /\ mutex = None
  /\ \E r \in Results :
       /\ cur[t] \in External => r = "YIELDED"
       /\ result' = [result EXCEPT ![t] = r]
  /\ Goto(t, "finish") /\ mutex' = t
  /\ UNCHANGED <<state, signals, queueVars, procVars, joined, cur, todo, gcVars,
                 boot_process, exit, main>>

\* The result after the loop over the pending signals.
SignalledResult_YieldWins(t) ==
  CASE result[t] \in {"TERMINATED", "YIELDED"} -> result[t]
    [] result[t] = "PREEMPTED" /\ "KILL" \in signals[cur[t]] -> "TERMINATED"
    [] OTHER -> result[t]

SignalledResult(t) ==
  CASE result[t] = "TERMINATED" \/ "KILL" \in signals[cur[t]] -> "TERMINATED"
    [] result[t] # "TERMINATED" /\ signals[cur[t]] = {"PREEMPT"} -> "PREEMPTED"
    [] OTHER -> result[t]

FinishRun(t) ==
  LET p == cur[t]
      r == SignalledResult(t)
      cleared == [signals EXCEPT ![p] = IF r = "PREEMPTED" THEN {} ELSE @]
  IN
  /\ pc[t] = "finish" /\ mutex = t
  /\ \/ /\ r = "PREEMPTED" /\ wait_for_any_gc_to_complete(t, p, "requeue")
        /\ signals' = cleared /\ UNCHANGED <<waiting, exit, cur, result>>
     \/ /\ r = "YIELDED" /\ wait_for_any_gc_to_complete(t, p, "yielded")
        /\ UNCHANGED <<signals, waiting, exit, cur, result>>
     \/ /\ r = "TERMINATED" /\ wait_for_any_gc_to_complete(t, p, "terminate")
        /\ UNCHANGED <<signals, waiting, exit, cur, result>>
     \/ /\ r = "DEEP_SLEEP" /\ terminate_execution("EXIT_DEEP_SLEEP")
        /\ Return(t) /\ UNCHANGED <<mutex, state, gc_waiting>>
  /\ UNCHANGED <<ready_queue, priority, started, pinned, procVars, joined, todo,
                 gc_cross, boot_process, main>>

\* PREEMPTED: the process goes to the back of its queue.
RequeueProcess(t) ==
  LET p == cur[t] IN
  /\ pc[t] = "requeue" /\ mutex = t
  /\ process_ready(p, [state EXCEPT ![p] = "IDLE"], signals, ready_queue,
                   target_priority[p])
  /\ Return(t)
  /\ UNCHANGED <<mutex, procVars, joined, todo, gcVars, boot_process, exit, main>>

has_messages(p) == messages[p] > 0

\* YIELDED: the process stays idle unless messages are waiting for it.
YieldProcess(t) ==
  LET p == cur[t]
      idle == [state EXCEPT ![p] = "IDLE"]
  IN
  /\ pc[t] = "yielded" /\ mutex = t
  /\ \/ /\ has_messages(p)
        /\ process_ready(p, idle, signals, ready_queue, target_priority[p])
     \/ ~has_messages(p) /\ state' = idle /\ UNCHANGED <<signals, queueVars>>
  /\ Return(t)
  /\ UNCHANGED <<mutex, procVars, joined, todo, gcVars, boot_process, exit, main>>

\* TERMINATED: out of the group, and unlock to delete the process.
RemoveProcess(t) ==
  /\ pc[t] = "terminate" /\ mutex = t
  /\ state' = [state EXCEPT ![cur[t]] = "RUNNING"]
  /\ live' = live \ {cur[t]}
  /\ Goto(t, "delete") /\ mutex' = None
  /\ UNCHANGED <<signals, queueVars, messages, target_priority, idle_since_gc,
                 joined, cur, result, todo, gcVars, boot_process, exit, main>>

\* ~Process, without the mutex: first the state, last the message queue.
DestroyProcess(t) ==
  /\ \/ /\ pc[t] = "delete" /\ Goto(t, "deleting")
        /\ state' = [state EXCEPT ![cur[t]] = "TERMINATING"]
        /\ UNCHANGED messages
     \/ /\ pc[t] = "deleting" /\ Goto(t, "deleted")
        /\ state' = [state EXCEPT ![cur[t]] = "FREED"]
        /\ messages' = [messages EXCEPT ![cur[t]] = 0]
  /\ UNCHANGED <<mutex, signals, queueVars, target_priority, idle_since_gc, live,
                 joined, cur, result, todo, gcVars, boot_process, exit, main>>

BootAfter_Stale(t) == boot_process
BootAfter(t) == IF cur[t] = boot_process THEN None ELSE boot_process

\* After the delete: the termination message goes to the boot process, or
\* ends the system when there is none.  The exit value is abstracted.
ProcessTerminated(t) ==
  LET boot == BootAfter(t) IN
  /\ pc[t] = "deleted" /\ mutex = None
  /\ boot_process' = boot
  /\ \/ /\ boot # None
        /\ messages' = [messages EXCEPT ![boot] = @ + 1]
        /\ process_ready(boot, state, signals, ready_queue, target_priority[boot])
        /\ exit' = exit
     \/ /\ boot = None
        /\ \E r \in {"EXIT_DONE", "EXIT_ERROR"} : terminate_execution(r)
        /\ UNCHANGED <<state, messages, ready_queue, priority, started, pinned>>
  /\ Return(t) /\ mutex' = t
  /\ UNCHANGED <<target_priority, idle_since_gc, live, joined, todo, gcVars, main>>

ExitThread(t) ==
  /\ pc[t] = "top" /\ t \in started \ waiting /\ Free(t)
  /\ exit # "EXIT_NONE"
  /\ signal_has_processes
  /\ Goto(t, "exited") /\ mutex' = None
  /\ UNCHANGED <<state, signals, ready_queue, priority, started, pinned, procVars,
                 joined, cur, result, todo, gcVars, boot_process, exit, main>>

------------------------------------------------------------------------------
(* Scheduler::gc, called by the process thread t runs. *)

\* The first attempt after a failed malloc: no handshake with other threads.
GcSoft(t) ==
  /\ pc[t] = "run" /\ cur[t] \in SoftGc
  /\ Goto(t, "gc_suspend")
  /\ UNCHANGED <<mutex, state, signals, queueVars, procVars, joined, cur, result,
                 todo, gcVars, boot_process, exit, main>>

\* try_hard: become the cross-process collector and preempt the others, or
\* leave the other processes to the thread that already is.
StartCrossGc(t) ==
  LET others == {u \in threads_ : Attached(u) /\ cur[u] # cur[t]} IN
  /\ gc_cross' = t
  /\ gc_waiting' = Cardinality(others)
  /\ signals' = [p \in Procs |-> IF \E u \in others : cur[u] = p
                                 THEN signals[p] \cup {"PREEMPT"} ELSE signals[p]]
  /\ Goto(t, "gc_preempt")

GcHard_Unguarded(t) ==
  /\ pc[t] = "run" /\ mutex = None /\ cur[t] \in HardGc
  /\ StartCrossGc(t)
  /\ UNCHANGED <<mutex, state, queueVars, procVars, joined, cur, result, todo,
                 boot_process, exit, main>>

GcHard(t) ==
  /\ pc[t] = "run" /\ mutex = None /\ cur[t] \in HardGc
  /\ \/ gc_cross # None /\ Goto(t, "gc_own") /\ UNCHANGED <<gcVars, signals>>
     \/ gc_cross = None /\ StartCrossGc(t)
  /\ UNCHANGED <<mutex, state, queueVars, procVars, joined, cur, result, todo,
                 boot_process, exit, main>>

\* All have stopped, or the wait timed out after a second.
GcPreempted(t) ==
  /\ pc[t] = "gc_preempt" /\ mutex = None
  /\ gc_waiting' = IF gc_waiting > 0 THEN 0 ELSE gc_waiting
  /\ Goto(t, "gc_suspend")
  /\ UNCHANGED <<mutex, state, signals, queueVars, procVars, joined, cur, result,
                 todo, gc_cross, boot_process, exit, main>>

GcTargets_Running == {p \in live \ External : ~idle_since_gc[p]}
GcTargets ==
  {p \in live \ External : state[p] # "RUNNING" /\ ~idle_since_gc[p]}

gc_suspend_process(p) ==
  \/ /\ state[p] = "IDLE"
     /\ state' = [state EXCEPT ![p] = "SUSPENDED_IDLE"]
     /\ UNCHANGED ready_queue
  \/ /\ state[p] = "SCHEDULED"
     /\ state' = [state EXCEPT ![p] = "SUSPENDED_SCHEDULED"]
     /\ ready_queue' = remove(ready_queue, p)
  \/ /\ state[p] \notin {"IDLE", "SCHEDULED"}
     /\ UNCHANGED <<state, ready_queue>>

\* The targets are collected in one locked stretch.  One that waits for a GC
\* already, or that another GC has suspended, keeps its state.
GcSuspend(t) ==
  /\ pc[t] = "gc_suspend" /\ Free(t)
  /\ \/ /\ \E p \in GcTargets \ todo[t] :
             /\ todo' = [todo EXCEPT ![t] = @ \cup {p}]
             /\ gc_suspend_process(p)
        /\ mutex' = t /\ pc' = pc
     \/ /\ GcTargets \subseteq todo[t] /\ Goto(t, "gc_collect") /\ mutex' = None
        /\ UNCHANGED <<todo, state, ready_queue>>
  /\ UNCHANGED <<signals, priority, waiting, started, pinned, procVars, joined, cur,
                 result, gcVars, boot_process, exit, main>>

\* target->gc without the mutex; anything but a new-space collection is noted.
GcCollect(t) ==
  /\ pc[t] = "gc_collect" /\ mutex = None
  /\ \/ /\ \E p \in todo[t] :
             /\ ~idle_since_gc[p]
             /\ idle_since_gc' = [idle_since_gc EXCEPT ![p] = TRUE]
        /\ pc' = pc
     \/ Goto(t, "gc_resume") /\ UNCHANGED idle_since_gc
  /\ UNCHANGED <<mutex, state, signals, queueVars, messages, target_priority, live,
                 joined, cur, result, todo, gcVars, boot_process, exit, main>>

gc_resume_process_Unqueued(p) ==
  /\ state' = [state EXCEPT ![p] = IF @ = "SUSPENDED_SCHEDULED" THEN "SCHEDULED"
                                                                ELSE "IDLE"]
  /\ UNCHANGED <<signals, queueVars>>

gc_resume_process(p) ==
  \/ /\ state[p] = "SUSPENDED_SCHEDULED"
     /\ process_ready(p, [state EXCEPT ![p] = "IDLE"], signals, ready_queue,
                      target_priority[p])
  \/ /\ state[p] # "SUSPENDED_SCHEDULED"
     /\ state' = [state EXCEPT ![p] = "IDLE"]
     /\ UNCHANGED <<signals, queueVars>>

\* All targets in one locked stretch.
GcResume(t) ==
  /\ pc[t] = "gc_resume" /\ Free(t)
  /\ \/ \E p \in todo[t] :
          /\ todo' = [todo EXCEPT ![t] = @ \ {p}] /\ mutex' = t /\ pc' = pc
          /\ \/ state[p] # "SUSPENDED_AWAITING_GC" /\ gc_resume_process(p)
             \/ /\ state[p] = "SUSPENDED_AWAITING_GC"
                /\ UNCHANGED <<state, signals, queueVars>>
     \/ /\ todo[t] = {} /\ Goto(t, "gc_own") /\ mutex' = None
        /\ UNCHANGED <<todo, state, signals, queueVars>>
  /\ UNCHANGED <<procVars, joined, cur, result, gcVars, boot_process, exit, main>>

GcDone_FlagKept(t) ==
  /\ pc[t] = "gc_own" /\ mutex = None
  /\ Goto(t, "run")
  /\ UNCHANGED <<mutex, state, signals, queueVars, procVars, joined, cur, result,
                 todo, gcVars, boot_process, exit, main>>

GcDone(t) ==
  /\ pc[t] = "gc_own" /\ mutex = None
  /\ gc_cross' = IF gc_cross = t THEN None ELSE gc_cross
  /\ Goto(t, "run")
  /\ UNCHANGED <<mutex, state, signals, queueVars, procVars, joined, cur, result,
                 todo, gc_waiting, boot_process, exit, main>>

------------------------------------------------------------------------------
(* Calls into the scheduler: by the process thread t runs, or by any other *)
(* OS thread (event sources, external message handlers).                   *)

\* The interpreted code takes the first message off its queue.
ReceiveMessage(t) ==
  /\ pc[t] = "run" /\ messages[cur[t]] > 0
  /\ messages' = [messages EXCEPT ![cur[t]] = @ - 1]
  /\ UNCHANGED <<mutex, state, signals, queueVars, target_priority, idle_since_gc,
                 live, joined, threadVars, gcVars, boot_process, exit, main>>

send_message(p) ==
  /\ mutex = None /\ p \in live /\ messages[p] < MaxMessages
  /\ messages' = [messages EXCEPT ![p] = @ + 1]
  /\ process_ready(p, state, signals, ready_queue, target_priority[p])
  /\ UNCHANGED <<mutex, target_priority, idle_since_gc, live, joined, threadVars,
                 gcVars, boot_process, exit, main>>

signal_process_NotReady(t, p) ==
  /\ pc[t] = "run" /\ mutex = None /\ cur[t] = boot_process /\ p \in live
  /\ signals' = [signals EXCEPT ![p] = @ \cup {"KILL"}]
  /\ UNCHANGED <<mutex, state, queueVars, procVars, joined, threadVars, gcVars,
                 boot_process, exit, main>>

signal_process(t, p) ==
  /\ pc[t] = "run" /\ mutex = None /\ cur[t] = boot_process /\ p \in live
  /\ process_ready(p, state, [signals EXCEPT ![p] = @ \cup {"KILL"}],
                   ready_queue, target_priority[p])
  /\ UNCHANGED <<mutex, procVars, joined, threadVars, gcVars, boot_process, exit,
                 main>>

\* kill(program), called by the boot process: every process of the group, in
\* one locked stretch.
kill(t, g) ==
  \/ /\ pc[t] = "run" /\ mutex = None /\ cur[t] = Boot
     /\ \E p \in live : Group[p] = g
     /\ todo' = [todo EXCEPT ![t] = {p \in live : Group[p] = g}]
     /\ Goto(t, "kill") /\ mutex' = t
     /\ UNCHANGED <<state, signals, queueVars, procVars, joined, cur, result,
                    gcVars, boot_process, exit, main>>
  \/ /\ pc[t] = "kill" /\ mutex = t
     /\ \E p \in todo[t] :
          /\ Group[p] = g
          /\ todo' = [todo EXCEPT ![t] = @ \ {p}]
          /\ process_ready(p, state, [signals EXCEPT ![p] = @ \cup {"KILL"}],
                           ready_queue, target_priority[p])
     /\ IF todo'[t] = {} THEN Goto(t, "run") /\ mutex' = None
                         ELSE UNCHANGED <<pc, mutex>>
     /\ UNCHANGED <<procVars, joined, cur, result, gcVars, boot_process, exit,
                    main>>

update_priority(t, p, pr) ==
  /\ pc[t] = "run" /\ mutex = None /\ p \in live
  /\ target_priority' = [target_priority EXCEPT ![p] = pr]
  /\ \/ /\ state[p] = "RUNNING"
        /\ signals' = [signals EXCEPT ![p] = @ \cup {"PREEMPT"}]
        /\ UNCHANGED <<state, queueVars>>
     \/ /\ state[p] = "SCHEDULED"
        /\ process_ready(p, [state EXCEPT ![p] = "IDLE"], signals,
                         remove(ready_queue, p), pr)
     \/ /\ state[p] \notin {"RUNNING", "SCHEDULED"}
        /\ UNCHANGED <<state, signals, queueVars>>
  /\ UNCHANGED <<mutex, messages, idle_since_gc, live, joined, threadVars, gcVars,
                 boot_process, exit, main>>

\* A new process q; its state is IDLE until process_ready.
Born(q, pr) ==
  /\ state[q] = "UNBORN"
  /\ live' = live \cup {q}
  /\ target_priority' = [target_priority EXCEPT ![q] = pr]

\* spawn: the SPAWNED message first, then the process, in one locked stretch.
spawn(t, q, pr) ==
  \/ /\ pc[t] = "run" /\ mutex = None /\ cur[t] \notin External
     /\ q \notin External /\ Group[q] = Group[cur[t]] /\ Born(q, pr)
     /\ \/ /\ boot_process # None
           /\ messages' = [messages EXCEPT ![boot_process] = @ + 1]
           /\ process_ready(boot_process, [state EXCEPT ![q] = "IDLE"], signals,
                            ready_queue, target_priority[boot_process])
        \/ /\ boot_process = None
           /\ state' = [state EXCEPT ![q] = "IDLE"]
           /\ UNCHANGED <<messages, signals, queueVars>>
     /\ todo' = [todo EXCEPT ![t] = {q}]
     /\ Goto(t, "spawn") /\ mutex' = t
     /\ UNCHANGED <<idle_since_gc, joined, cur, result, gcVars, boot_process, exit,
                    main>>
  \/ /\ pc[t] = "spawn" /\ mutex = t /\ todo[t] = {q} /\ target_priority[q] = pr
     /\ process_ready(q, state, signals, ready_queue, pr)
     /\ todo' = [todo EXCEPT ![t] = {}]
     /\ Goto(t, "run") /\ mutex' = None
     /\ UNCHANGED <<procVars, joined, cur, result, gcVars, boot_process, exit,
                    main>>

\* run_program, called by the boot process, and run_external, called by an OS
\* thread: the first process of a new group.
NewGroup(q) == \A p \in live : Group[p] # Group[q]

run_program(t, q) ==
  /\ pc[t] = "run" /\ mutex = None /\ cur[t] = Boot
  /\ q \notin External /\ NewGroup(q) /\ Born(q, PRIORITY_NORMAL)
  /\ process_ready(q, [state EXCEPT ![q] = "IDLE"], signals, ready_queue,
                   PRIORITY_NORMAL)
  /\ UNCHANGED <<mutex, messages, idle_since_gc, joined, threadVars, gcVars,
                 boot_process, exit, main>>

run_external(q) ==
  /\ mutex = None /\ main = "loop"
  /\ q \in External /\ NewGroup(q) /\ Born(q, PRIORITY_NORMAL)
  /\ process_ready(q, [state EXCEPT ![q] = "IDLE"], signals, ready_queue,
                   PRIORITY_NORMAL)
  /\ UNCHANGED <<mutex, messages, idle_since_gc, joined, threadVars, gcVars,
                 boot_process, exit, main>>

------------------------------------------------------------------------------
(* launch_program, on the launch thread. *)

num_processes ==
  Cardinality({p \in Procs : state[p] \notin {"UNBORN", "FREED"}})
    + Cardinality({t \in Threads : pc[t] = "deleted"})

NoMoreImportant_Strict(p, i) == compute_ready_queue_index(priority[p]) > i
NoMoreImportant(p, i) == compute_ready_queue_index(priority[p]) >= i

\* A tick preempts the processes that are no more important than the first
\* ready one.  Profiling, which makes ticks more frequent, is left out.
tick ==
  /\ main = "loop" /\ mutex = None
  /\ \E i \in Indexes :
       /\ ready_queue[i] # <<>> /\ \A j \in Indexes : j < i => ready_queue[j] = <<>>
       /\ signals' = [p \in Procs |->
            IF /\ NoMoreImportant(p, i)
               /\ \E t \in threads_ : Attached(t) /\ cur[t] = p
            THEN signals[p] \cup {"PREEMPT"} ELSE signals[p]]
  /\ UNCHANGED <<mutex, state, queueVars, procVars, joined, threadVars, gcVars,
                 boot_process, exit, main>>

LeaveLoop ==
  /\ main = "loop" /\ mutex = None /\ (num_processes = 0 \/ num_threads = 0)
  /\ exit' = IF exit = "EXIT_NONE" THEN "EXIT_DONE" ELSE exit
  /\ main' = "join"
  /\ UNCHANGED <<mutex, state, signals, queueVars, procVars, joined, threadVars,
                 gcVars, boot_process>>

\* A thread leaves threads_ before it is joined, and the next one after.
JoinThread(t) ==
  /\ main = "join" /\ mutex = None /\ t \in threads_
  /\ \A u \in joined : pc[u] = "exited"
  /\ joined' = joined \cup {t}
  /\ UNCHANGED <<mutex, state, signals, queueVars, procVars, threadVars, gcVars,
                 boot_process, exit, main>>

\* Clear the ready queues and delete the processes that are left.
DeleteRemaining ==
  /\ main = "join" /\ mutex = None /\ threads_ = {}
  /\ \A u \in joined : pc[u] = "exited"
  /\ ready_queue' = [i \in Indexes |-> <<>>]
  /\ state' = [p \in Procs |-> IF p \in live THEN "FREED" ELSE state[p]]
  /\ messages' = [p \in Procs |-> IF p \in live THEN 0 ELSE messages[p]]
  /\ live' = {} /\ main' = "done"
  /\ UNCHANGED <<mutex, signals, priority, waiting, started, pinned,
                 target_priority, idle_since_gc, joined, threadVars, gcVars,
                 boot_process, exit>>

------------------------------------------------------------------------------
(* launch_program up to its loop: the boot process is ready.  One thread was *)
(* started for it, or all of them in the constructor (FreeRTOS).             *)
Init ==
  /\ mutex = None
  /\ state = [p \in Procs |-> IF p = Boot THEN "SCHEDULED" ELSE "UNBORN"]
  /\ signals = [p \in Procs |-> {}]
  /\ messages = [p \in Procs |-> 0]
  /\ priority = [p \in Procs |-> IF p = Boot THEN PRIORITY_HIGH
                                             ELSE PRIORITY_NORMAL]
  /\ target_priority = priority
  /\ idle_since_gc = [p \in Procs |-> TRUE]
  /\ live = {Boot}
  /\ ready_queue = [i \in Indexes |->
       IF i = compute_ready_queue_index(PRIORITY_HIGH) THEN <<Boot>> ELSE <<>>]
  /\ started \in {S \in SUBSET Threads : Cardinality(S) \in {1, MaxThreads}}
  /\ \E t \in started : pinned = {t}
  /\ joined = {} /\ waiting = {}
  /\ pc = [t \in Threads |-> "top"]
  /\ cur = [t \in Threads |-> None]
  /\ result = [t \in Threads |-> "PREEMPTED"]
  /\ todo = [t \in Threads |-> {}]
  /\ gc_cross = None /\ gc_waiting = 0
  /\ boot_process = Boot
  /\ exit = "EXIT_NONE"
  /\ main = "loop"

run(t) ==
  \/ WaitForProcess(t) \/ TakeProcess(t) \/ GcIsOver(t) \/ EnterProcess(t)
  \/ FinishRun(t) \/ RequeueProcess(t) \/ YieldProcess(t) \/ RemoveProcess(t)
  \/ DestroyProcess(t) \/ ProcessTerminated(t) \/ ExitThread(t)

gc(t) ==
  \/ GcPreempted(t) \/ GcSuspend(t) \/ GcCollect(t) \/ GcResume(t) \/ GcDone(t)

Called(call) == call \in Calls

\* What the process that thread t runs may do.
ProcessCalls(t) ==
  \/ ReturnFromRun(t)
  \/ ReceiveMessage(t)
  \/ GcSoft(t)
  \/ GcHard(t)
  \/ \E p \in Procs : Called("signal") /\ signal_process(t, p)
  \/ \E p \in Procs : Called("kill") /\ kill(t, Group[p])
  \/ \E p \in Procs, pr \in Priorities :
       Called("priority") /\ update_priority(t, p, pr)
  \/ \E q \in Procs, pr \in Priorities : Called("spawn") /\ spawn(t, q, pr)
  \/ \E q \in Procs : Called("program") /\ run_program(t, q)

OtherCalls ==
  \/ \E p \in Procs : send_message(p)
  \/ \E q \in Procs : run_external(q)

launch_program ==
  \/ tick
  \/ LeaveLoop
  \/ \E t \in Threads : JoinThread(t)
  \/ DeleteRemaining

\* The VM has returned from launch_program.
Done == main = "done" /\ UNCHANGED vars

Next ==
  \/ \E t \in Threads : run(t) \/ gc(t) \/ ProcessCalls(t)
  \/ OtherCalls
  \/ launch_program
  \/ Done

Spec == Init /\ [][Next]_vars

\* Threads keep running and get mutex_ when they keep asking for it; the
\* interpreter returns when it finds a signal, a ProcessRunner always does; the
\* launch thread keeps ticking.  Nothing makes a process yield or end, and
\* nothing makes clients call.
ThreadStep(t) ==
  \/ run(t)
  \/ gc(t)
  \/ mutex = t /\ \E y \in Procs : kill(t, Group[y])
  \/ mutex = t /\ \E y \in Procs, pr \in Priorities : spawn(t, y, pr)

Fairness ==
  /\ \A t \in Threads :
       /\ SF_vars(ThreadStep(t))
       /\ SF_vars(ReturnFromRun(t) /\ (signals[cur[t]] # {} \/ cur[t] \in External))
  /\ SF_vars(tick)
  /\ SF_vars(LeaveLoop \/ DeleteRemaining \/ \E t \in Threads : JoinThread(t))

FairSpec == Spec /\ Fairness

------------------------------------------------------------------------------
(* Properties. *)

Queued(y) == {i \in Indexes : \E k \in DOMAIN ready_queue[i] : ready_queue[i][k] = y}

\* The threads between remove_first and the end of run_process.
Handling(t) == pc[t] \notin {"top", "deleted", "exited"}

\* A process is in a ready queue exactly when it is SCHEDULED and no thread has
\* just taken it, at most once, and in the queue of its priority_, which is where
\* update_priority and gc_suspend_process look for it (scheduler.cc:749, 763).
\* The queues hold no freed process.
ReadyQueuesAgree ==
  /\ \A i \in Indexes : \A j, k \in DOMAIN ready_queue[i] :
       ready_queue[i][j] = ready_queue[i][k] => j = k
  /\ \A y \in Procs :
       /\ Queued(y) \subseteq {compute_ready_queue_index(priority[y])}
       /\ Queued(y) # {} <=> /\ state[y] = "SCHEDULED"
                             /\ \A t \in Threads : cur[t] = y => pc[t] # "enter"

\* Two threads never handle the same process, and nobody handles one that is
\* still queued (scheduler.cc:390-404).
OneThreadPerProcess ==
  \A t \in Threads : Handling(t) =>
    /\ Queued(cur[t]) = {}
    /\ \A u \in Threads \ {t} : Handling(u) => cur[u] # cur[t]

\* While a thread collects the targets of a GC, no other thread runs one of them
\* (scheduler.cc:463-466, 482-515).
NoMutatorDuringGc ==
  \A t, u \in Threads :
    t # u /\ pc[t] \in {"gc_collect", "gc_resume"} /\ Attached(u)
      => cur[u] \notin todo[t]

\* No process is the target of two collections at once (scheduler.cc:447-450,
\* 758).
OneCollectorPerTarget ==
  \A t, u \in Threads :
    t # u /\ pc[t] \in GcPcs /\ pc[u] \in GcPcs => todo[t] \cap todo[u] = {}

\* A process that stays idle has no messages: no send is lost between the check
\* of has_messages and the IDLE state (scheduler.cc:679-684, 259-275).
IdleHasNoMessages ==
  mutex = None =>
    \A y \in Procs : state[y] \in {"IDLE", "SUSPENDED_IDLE"} => messages[y] = 0

\* No process stays idle with an unhandled KILL (scheduler.cc:313-323, 679-684).
IdleIsNotKilled ==
  mutex = None =>
    \A y \in Procs : state[y] \in {"IDLE", "SUSPENDED_IDLE"} => "KILL" \notin signals[y]

\* When there is work, or the system is exiting, and some thread sleeps on
\* has_processes_, another one is awake and about to look (scheduler.cc:384-413,
\* 821-823, 877): the signals of the condition variable are never lost.
NoThreadSleepsOnWork ==
  (has_ready_processes(ready_queue) \/ exit # "EXIT_NONE") /\ waiting # {} =>
    \E t \in started \ waiting : pc[t] = "top"

\* A process that was deleted gets no messages (scheduler.h:263).  It does not
\* hold of the boot process: see the README.
NoMessageToFreed == \A y \in Procs : state[y] = "FREED" => messages[y] = 0

\* When the last process is gone the system has a reason to exit.  Otherwise
\* launch_program would leave its loop and join threads that nothing wakes up
\* (scheduler.cc:163-182, 702-713).
ExitBeforeEmpty == num_processes = 0 => exit # "EXIT_NONE"

\* A process that asked for deep sleep is not scheduled again, as the doc of
\* deep_sleep promises (lib/esp32.toit:31); the signal loop of run_process
\* (scheduler.cc:643-656) decides.  It does not hold: see the README.
DeepSleepDoesNotReturn ==
  [][\A t \in Threads :
       pc[t] = "finish" /\ result[t] = "DEEP_SLEEP"
         => pc'[t] \notin {"requeue", "await_requeue"}]_vars

\* gc_suspend_process asserts that its process is not suspended yet
\* (scheduler.cc:758).  It does not hold with two collections without handshake:
\* see the README.
SuspendedOnce ==
  \A t \in Threads : pc[t] = "gc_suspend" /\ Free(t) =>
    \A y \in GcTargets \ todo[t] : state[y] \notin {"SUSPENDED_IDLE", "SUSPENDED_SCHEDULED"}

Importance(y) == compute_ready_queue_index(priority[y])
MostImportant(y) == \A z \in Procs : Importance(z) >= Importance(y)

\* A ready process that none beats in importance is run in the end, even when
\* all threads are busy with processes that never yield: process_ready and tick
\* preempt them and the queues are first-in first-out (scheduler.cc:819-863,
\* 880-906).
ReadyIsRun ==
  \A y \in Procs :
    state[y] = "SCHEDULED" /\ MostImportant(y)
      ~> state[y] # "SCHEDULED" \/ ~MostImportant(y) \/ exit # "EXIT_NONE"

\* A process that was sent KILL is deleted in the end (scheduler.cc:313-323,
\* 643-656), when there is a thread for each process.
KillTerminates ==
  \A y \in Procs : y \in live /\ "KILL" \in signals[y]
                     ~> state[y] = "FREED" \/ exit # "EXIT_NONE"

\* Once there is a reason to exit, launch_program returns: every thread comes
\* back from its process and is joined (scheduler.cc:380-383, 178-182).
ExitCompletes == exit # "EXIT_NONE" ~> main = "done"

\* Every cross-process GC ends, also when a process does not stop for it
\* (scheduler.cc:446-479, 522-534).
CrossGcEnds == gc_cross # None ~> gc_cross = None

==============================================================================
