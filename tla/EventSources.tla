----------------------------- MODULE EventSources -----------------------------
(***************************************************************************)
(* Resources, event sources and object notifiers (src/resource.cc,         *)
(* src/event_sources/timer.cc, the notifiers of src/heap.cc and the notify *)
(* messages of src/messaging.h and src/process.cc), with one process that  *)
(* uses them: tasks that sleep (lib/core/timer.toit, lib/core/task.toit)   *)
(* and tasks that wait for the state of a resource (lib/core/events.toit). *)
(*                                                                         *)
(* A resource is named after the task that uses it.  All Timers belong to  *)
(* the TimerEventSource, whose thread keeps its mutex while it dispatches; *)
(* the other resources get events from threads that take the mutex once    *)
(* per event.  An action is a section under a mutex, or Toit code between  *)
(* two primitives.  The scheduler's mutex, taken inside to append a        *)
(* message, protects nothing else here, so appending is part of the        *)
(* section.                                                                *)
(***************************************************************************)
EXTENDS Integers, Sequences, FiniteSets

CONSTANTS
  Timers,     \* timer resources, one for each task that sleeps
  Others,     \* resources with a ResourceState_ monitor
  Messages,   \* memory for ObjectNotifyMessages
  MaxTime,    \* bound on the times tasks sleep until
  None        \* null

Resources == Timers \cup Others
Forever == MaxTime + 2

\* The monitor all sleepers wait in, and the object of a message that has none.
Sleeper == "sleeper"
Null == "null"

NotifyMessage == [of : Resources \cup {None}, queued : BOOLEAN]

ASSUME ConstantsAssumption ==
  /\ Timers \cap Others = {} /\ MaxTime \in Nat
  /\ None \notin Messages \cup Resources \cup {Sleeper, Null} \cup NotifyMessage
  /\ Others \cap {Sleeper, Null} = {}

VARIABLES
  proc,      \* the process: "running", "terminating" or "deleted"
  exists,    \* the resources that are not deleted
  group,     \* ResourceGroup::resources_
  source,    \* EventSource::resources_
  rstate,    \* Resource::state_
  notifier,  \* Resource::object_notifier_, as the message it owns
  object,    \* the object of the notifier: a monitor or null
  msg,       \* ObjectNotifyMessage: [of: notifier_, queued: queued_], None when freed
  queue,     \* Process::messages_
  current,   \* the task that runs
  task,      \* where each task is
  closing,   \* the resource that is unregistered and about to be deleted
  received,  \* the object of the message that is being received or handled
  removed,   \* ... and whether the message is off the queue
  wakeup,    \* the argument of sleep_until_
  seen,      \* ResourceState_.state_
  now,       \* OS::get_monotonic_time
  timers,    \* TimerEventSource::timers_: the linked timers with their timeout_
  thread,    \* the timer thread: what it read from the clock while it runs; how long
             \* that was ago and until when it waits while it waits
  signalled  \* a signal of timer_changed_ is on its way to the thread

process == <<proc, current, task, closing, received, removed, wakeup, seen>>
memory == <<exists, group, source, notifier, object>>
messages == <<msg, queue>>
clock == <<now, timers, thread, signalled>>
vars == <<process, memory, rstate, messages, clock>>

\* The monitors that notifiers point to: one for all sleepers, and one for each
\* other resource.
Target(r) == IF r \in Timers THEN Sleeper ELSE r

Running(time) == [at |-> "running", time |-> time, ago |-> 0, until |-> 0]
Waiting(ago, until) == [at |-> "waiting", time |-> 0, ago |-> ago, until |-> until]

Init ==
  /\ proc = "running" /\ current = None /\ task = [r \in Resources |-> "idle"]
  /\ closing = None /\ received = None /\ removed = FALSE
  /\ wakeup = [r \in Timers |-> 0] /\ seen = [r \in Others |-> 0]
  /\ exists = {} /\ group = {} /\ source = {} /\ rstate = [r \in Resources |-> 0]
  /\ notifier = [r \in Resources |-> None] /\ object = [r \in Resources |-> None]
  /\ msg = [m \in Messages |-> None] /\ queue = <<>>
  /\ now = 0 /\ timers = <<>> /\ thread = Waiting(0, Forever)
  /\ signalled = FALSE

\* The mutex of the event source of r is free.
Unlocked(r) == r \in Timers => thread.at = "waiting"

------------------------------------------------------------------------------
(* Notifications. *)

\* send_notify_message and _append_message, on messages ms and queue q.
send_notify_message(m, ms, q) ==
  IF proc # "running" \/ ms[m].queued
  THEN msg' = ms /\ queue' = q
  ELSE msg' = [ms EXCEPT ![m].queued = TRUE] /\ queue' = Append(q, m)

try_notify(r, state, force) ==
  IF (state # 0 \/ force) /\ notifier[r] # None
  THEN send_notify_message(notifier[r], msg, queue)
  ELSE UNCHANGED messages

\* Mutant: the message goes with the notifier in any case.
DeleteNotifierAndMessage(r) ==
  /\ notifier' = [notifier EXCEPT ![r] = None] /\ object' = [object EXCEPT ![r] = None]
  /\ msg' = IF notifier[r] = None THEN msg ELSE [msg EXCEPT ![notifier[r]] = None]

\* ~ObjectNotifier: the message goes with the notifier unless it is queued.
DeleteNotifier(r) ==
  /\ notifier' = [notifier EXCEPT ![r] = None] /\ object' = [object EXCEPT ![r] = None]
  /\ msg' = IF notifier[r] = None THEN msg
            ELSE [msg EXCEPT ![notifier[r]] = IF @.queued THEN [@ EXCEPT !.of = None] ELSE None]

\* An allocation takes the first free memory: which one makes no difference.
Free == {m \in Messages : msg[m] = None}
NewMessage == CHOOSE m \in Free : TRUE

\* Mutant: an event that is already there is not looked at.
update_without_notifying(r, monitor) ==
  /\ Unlocked(r) /\ (notifier[r] # None \/ Free # {}) /\ queue' = queue
  /\ LET m == IF notifier[r] # None THEN notifier[r] ELSE NewMessage IN
     /\ notifier' = [notifier EXCEPT ![r] = m] /\ object' = [object EXCEPT ![r] = monitor]
     /\ msg' = IF notifier[r] # None THEN msg
               ELSE [msg EXCEPT ![m] = [of |-> r, queued |-> FALSE]]

update_resource_monitor(r, monitor) ==
  /\ Unlocked(r) /\ (notifier[r] # None \/ Free # {})
  /\ LET m == IF notifier[r] # None THEN notifier[r] ELSE NewMessage
         ms == IF notifier[r] # None THEN msg
               ELSE [msg EXCEPT ![m] = [of |-> r, queued |-> FALSE]]
     IN /\ notifier' = [notifier EXCEPT ![r] = m]
        /\ object' = [object EXCEPT ![r] = monitor]
        /\ IF rstate[r] # 0 THEN send_notify_message(m, ms, queue)
           ELSE msg' = ms /\ queue' = queue

\* dispatch: on_event of a resource adds bits to its state.
dispatch(r) == rstate' = [rstate EXCEPT ![r] = 1] /\ try_notify(r, 1, FALSE)

\* An event for a resource other than a timer.
Event(r) ==
  /\ r \in source \cap Others /\ dispatch(r)
  /\ UNCHANGED <<process, memory, clock>>

------------------------------------------------------------------------------
(* The timer event source. *)

\* unlink, where the timer is linked.
Linked(r) == {i \in DOMAIN timers : timers[i].timer = r}
Unlinked(i) == SubSeq(timers, 1, i - 1) \o SubSeq(timers, i + 1, Len(timers))
Without(r) == IF Linked(r) = {} THEN timers ELSE Unlinked(CHOOSE i \in Linked(r) : TRUE)

\* insert_before: before the first timer that is later.
Inserted(x, list) ==
  LET n == CHOOSE k \in 0..Len(list) :
             /\ \A i \in 1..k : list[i].timeout <= x.timeout
             /\ k = Len(list) \/ x.timeout < list[k + 1].timeout
  IN SubSeq(list, 1, n) \o <<x>> \o SubSeq(list, n + 1, Len(list))

\* Mutant: the thread is signalled only when there was no timer.
arm_signals_first_only(r, t) ==
  /\ Unlocked(r) /\ rstate' = [rstate EXCEPT ![r] = 0]
  /\ timers' = Inserted([timer |-> r, timeout |-> t], Without(r))
  /\ signalled' = (signalled \/ timers = <<>>) /\ UNCHANGED <<now, thread>>

arm(r, t) ==
  LET x == [timer |-> r, timeout |-> t]
      old_timeout == IF timers # <<>> THEN Head(timers).timeout ELSE t + 1
  IN
  /\ Unlocked(r)
  /\ \/ /\ \E i \in DOMAIN timers : timers[i] = x
        /\ UNCHANGED <<rstate, clock>>
     \/ /\ \A i \in DOMAIN timers : timers[i] # x
        /\ rstate' = [rstate EXCEPT ![r] = 0]
        /\ timers' = Inserted(x, Without(r))
        /\ signalled' = (signalled \/ t < old_timeout)
        /\ UNCHANGED <<now, thread>>

\* Mutant: the timer stays in the list.
UnlinksNothing(r) == UNCHANGED clock

\* on_unregister_resource: the timer is unlinked.
Unlinks(r) ==
  /\ timers' = Without(r)
  /\ signalled' = (signalled \/ (timers # <<>> /\ Head(timers).timer = r))
  /\ UNCHANGED <<now, thread>>

\* entry: the thread gets the mutex back from wait or wait_us, and looks at the
\* clock once ...
ThreadWakes ==
  /\ thread.at = "waiting" /\ (signalled \/ now >= thread.until)
  /\ thread' = Running(now) /\ signalled' = FALSE
  /\ UNCHANGED <<process, memory, rstate, messages, now, timers>>

\* ... dispatches the timers that were due then ...
ThreadDispatches ==
  /\ thread.at = "running" /\ timers # <<>> /\ thread.time >= Head(timers).timeout
  /\ dispatch(Head(timers).timer) /\ timers' = Tail(timers)
  /\ UNCHANGED <<process, memory, now, thread, signalled>>

\* ... and waits, for as long as the next timer was away then.
ThreadWaits ==
  /\ thread.at = "running" /\ (timers # <<>> => thread.time < Head(timers).timeout)
  /\ thread' = Waiting(now - thread.time,
                       IF timers = <<>> THEN Forever
                       ELSE now + (Head(timers).timeout - thread.time))
  /\ UNCHANGED <<process, memory, rstate, messages, now, timers, signalled>>

\* The clock moves by at most one tick while the thread dispatches.
Tick ==
  /\ now < MaxTime + 1 /\ (thread.at = "running" => now = thread.time)
  /\ now' = now + 1
  /\ UNCHANGED <<process, memory, rstate, messages, timers, thread, signalled>>

------------------------------------------------------------------------------
(* The process: messages. *)

Toit == proc = "running" /\ closing = None /\ received = None

\* task_receive_message looks at the first message.  A task that suspends, yields
\* or ends takes messages until there are none.
ReceiveMessage ==
  /\ Toit /\ current = None /\ queue # <<>>
  /\ received' = (LET of == msg[Head(queue)].of IN
                  IF of = None \/ object[of] = None THEN Null ELSE object[of])
  /\ removed' = FALSE
  /\ UNCHANGED <<proc, current, task, closing, wakeup, seen, memory, rstate, messages, clock>>

\* remove_first_message deletes a message that has lost its notifier.
RemovesFirst ==
  /\ queue' = Tail(queue)
  /\ msg' = [msg EXCEPT ![Head(queue)] = IF @.of = None THEN None ELSE [@ EXCEPT !.queued = FALSE]]

remove_first_message ==
  /\ proc = "running" /\ received # None /\ ~removed
  /\ RemovesFirst /\ removed' = TRUE
  /\ UNCHANGED <<proc, current, task, closing, received, wakeup, seen, memory, rstate, clock>>

\* Mutant: notify_ does not call the super implementation.
notify_WithoutSuper ==
  /\ proc = "running" /\ received # None /\ removed
  /\ received' = None /\ removed' = FALSE
  /\ IF received \in Others
     THEN /\ Unlocked(received)
          /\ seen' = [seen EXCEPT ![received] = IF rstate[received] # 0 THEN 1 ELSE @]
          /\ rstate' = [rstate EXCEPT ![received] = 0]
     ELSE UNCHANGED <<seen, rstate>>
  /\ UNCHANGED <<proc, current, task, closing, wakeup, memory, messages, clock>>

\* notify_ of a ResourceState_ reads the state, and that of any monitor resumes
\* all tasks that await in it.  A null is skipped.
notify_ ==
  /\ proc = "running" /\ received # None /\ removed
  /\ received' = None /\ removed' = FALSE
  /\ IF received \in Others
     THEN /\ Unlocked(received)
          /\ seen' = [seen EXCEPT ![received] = IF rstate[received] # 0 THEN 1 ELSE @]
          /\ rstate' = [rstate EXCEPT ![received] = 0]
     ELSE UNCHANGED <<seen, rstate>>
  /\ task' = [r \in Resources |->
                IF task[r] = "waiting" /\ Target(r) = received THEN "check" ELSE task[r]]
  /\ UNCHANGED <<proc, current, closing, wakeup, memory, messages, clock>>

------------------------------------------------------------------------------
(* The process: tasks. *)

\* The current task goes on, or, when there is none and no message, another.
Turn(r, at) ==
  /\ Toit /\ task[r] = at
  /\ current = r \/ (current = None /\ queue = <<>>)

Goes(r, at) == task' = [task EXCEPT ![r] = at]
Keeps(r) == current' = r
Suspends == current' = None

\* A resource is created: register_resource of the group and of its event source.
register_resource(r) ==
  /\ Unlocked(r)
  /\ exists' = exists \cup {r} /\ group' = group \cup {r} /\ source' = source \cup {r}
  /\ UNCHANGED <<notifier, object>>

\* A task calls sleep; acquire_timer_ takes the timer of the last time, if any.
sleep_until_(r, w) ==
  /\ r \in Timers /\ Turn(r, "idle") /\ now < w
  /\ wakeup' = [wakeup EXCEPT ![r] = w]
  /\ \/ r \in exists /\ UNCHANGED memory
     \/ r \notin exists /\ register_resource(r)
  /\ Goes(r, "register") /\ Keeps(r)
  /\ UNCHANGED <<proc, closing, received, removed, seen, rstate, messages, clock>>

\* A task opens another resource.
Open(r) ==
  /\ r \in Others /\ Turn(r, "idle") /\ register_resource(r)
  /\ Goes(r, "register") /\ Keeps(r)
  /\ UNCHANGED <<proc, closing, received, removed, wakeup, seen, rstate, messages, clock>>

\* register_monitor_notifier_ of set_target and of the constructor of
\* ResourceState_.  When the notifier cannot be allocated the timer is out of
\* reach, other resources are closed.
RegisterMonitor(r) ==
  /\ Turn(r, "register")
  /\ \/ update_resource_monitor(r, Target(r)) /\ Goes(r, "check")
     \/ /\ notifier[r] = None
        /\ Goes(r, IF r \in Timers THEN "failed" ELSE "close")
        /\ UNCHANGED <<notifier, object, messages>>
  /\ IF task'[r] = "failed" THEN Suspends ELSE Keeps(r)
  /\ UNCHANGED <<proc, closing, received, removed, wakeup, seen, exists, group, source, rstate, clock>>

\* The loops of sleep_until_ and of wait_for_state_.
CheckTime(r) ==
  /\ r \in Timers /\ Turn(r, "check") /\ Keeps(r)
  /\ Goes(r, IF now >= wakeup[r] THEN "release" ELSE "arm")
  /\ UNCHANGED <<proc, closing, received, removed, wakeup, seen, memory, rstate, messages, clock>>

CheckState(r) ==
  /\ r \in Others /\ Turn(r, "check") /\ Suspends
  /\ Goes(r, IF seen[r] = 0 THEN "waiting" ELSE "check") /\ seen' = [seen EXCEPT ![r] = 0]
  /\ UNCHANGED <<proc, closing, received, removed, wakeup, memory, rstate, messages, clock>>

ArmTimer(r) ==
  /\ Turn(r, "arm") /\ arm(r, wakeup[r]) /\ Goes(r, "waiting") /\ Suspends
  /\ UNCHANGED <<proc, closing, received, removed, wakeup, seen, memory, messages>>

\* Another task cancels a sleep.
Cancel(r) ==
  /\ r \in Timers /\ Toit /\ current = None /\ task[r] = "waiting" /\ Goes(r, "release")
  /\ UNCHANGED <<proc, current, closing, received, removed, wakeup, seen, memory, rstate, messages, clock>>

\* release_timer_ clears the target; the timer may still be armed.
release_timer_(r) ==
  /\ Turn(r, "release") /\ update_resource_monitor(r, None) /\ Goes(r, "idle") /\ Suspends
  /\ wakeup' = [wakeup EXCEPT ![r] = 0]
  /\ UNCHANGED <<proc, closing, received, removed, seen, exists, group, source, rstate, clock>>

\* ResourceState_.dispose: delete_resource_monitor.
dispose(r) ==
  /\ r \in Others /\ Turn(r, "check") /\ Unlocked(r) /\ DeleteNotifier(r)
  /\ Goes(r, "close") /\ Keeps(r)
  /\ UNCHANGED <<proc, closing, received, removed, wakeup, seen, exists, group, source, rstate, queue, clock>>

\* EventSource::unregister_resource, with the notification it forces.
UnregisterFromSource(r) ==
  /\ Unlocked(r) /\ source' = source \ {r} /\ try_notify(r, rstate[r], TRUE)
  /\ IF r \in Timers THEN Unlinks(r) ELSE UNCHANGED clock

\* ResourceGroup::unregister_resource: from the source ...
unregister_resource(r) ==
  /\ r \in exists
  /\ Turn(r, "close") \/ Turn(r, IF r \in Timers THEN "idle" ELSE "check")
  /\ UnregisterFromSource(r) /\ closing' = r /\ Keeps(r)
  /\ UNCHANGED <<proc, task, received, removed, wakeup, seen, exists, group, notifier, object, rstate>>

\* ... and from the group; the resource is deleted, and its notifier with it.
DeleteResource(r) ==
  /\ closing = r /\ closing' = None /\ group' = group \ {r} /\ exists' = exists \ {r}
  /\ DeleteNotifier(r) /\ rstate' = [rstate EXCEPT ![r] = 0]
  /\ Goes(r, "idle") /\ Suspends /\ seen' = [o \in Others |-> IF o = r THEN 0 ELSE seen[o]]
  /\ UNCHANGED <<proc, received, removed, wakeup, source, queue, clock>>

------------------------------------------------------------------------------
(* The end of the process. *)

\* The process has run to its end, or was killed between two primitives; ~Process
\* sets its state first.  Its tasks are gone.
Terminate ==
  /\ proc = "running" /\ closing = None /\ (received # None => removed)
  /\ proc' = "terminating" /\ received' = None /\ removed' = FALSE /\ current' = None
  /\ task' = [r \in Resources |-> "idle"]
  /\ wakeup' = [r \in Timers |-> 0] /\ seen' = [r \in Others |-> 0]
  /\ UNCHANGED <<closing, memory, rstate, messages, clock>>

\* One round of the loop of ResourceGroup::tear_down, up to make_deletable.
tear_down(r) ==
  /\ proc = "terminating" /\ closing = None /\ r \in group
  /\ group' = group \ {r} /\ UnregisterFromSource(r) /\ closing' = r
  /\ UNCHANGED <<proc, current, task, received, removed, wakeup, seen, exists, notifier, object, rstate>>

\* The messages that are left are removed once all groups are gone.
Drain ==
  /\ proc = "terminating" /\ closing = None /\ group = {} /\ queue # <<>>
  /\ RemovesFirst
  /\ UNCHANGED <<process, memory, rstate, clock>>

DeleteProcess ==
  /\ proc = "terminating" /\ closing = None /\ group = {} /\ queue = <<>>
  /\ proc' = "deleted"
  /\ UNCHANGED <<current, task, closing, received, removed, wakeup, seen, memory, rstate, messages, clock>>

Step(r) ==
  \/ RegisterMonitor(r) \/ CheckTime(r) \/ CheckState(r)
  \/ ArmTimer(r) \/ release_timer_(r) \/ DeleteResource(r) \/ tear_down(r)

Handling == ReceiveMessage \/ remove_first_message \/ notify_
Ending == Drain \/ DeleteProcess
TimerThread == ThreadWakes \/ ThreadDispatches \/ ThreadWaits

Next ==
  \/ \E r \in Resources : Step(r) \/ Event(r) \/ Open(r) \/ Cancel(r) \/ dispose(r) \/ unregister_resource(r)
  \/ \E r \in Timers, w \in 1..MaxTime : sleep_until_(r, w)
  \/ Handling \/ Terminate \/ Ending \/ TimerThread \/ Tick

Spec == Init /\ [][Next]_vars

\* The timer thread and the clock go on, a process that can run is run (see
\* Scheduler), tasks take turns, and events do not come so fast that the process
\* never finds its queue empty: process_messages_ goes on until it does.
QueueEmpties == queue = <<>> /\ received = None

Fairness ==
  /\ []<>QueueEmpties
  /\ WF_vars(TimerThread) /\ WF_vars(Tick) /\ WF_vars(Handling) /\ WF_vars(Ending)
  /\ \A r \in Resources :
       SF_vars(Step(r)) /\ WF_vars(task[r] = "close" /\ unregister_resource(r))

FairSpec == Spec /\ Fairness

------------------------------------------------------------------------------
(* Properties. *)

TaskStates == {"idle", "register", "check", "arm", "waiting", "release", "close", "failed"}

\* A notify message is in memory as long as its notifier or the queue needs it and
\* no longer, the queue has it at most once, and it knows its notifier: whichever
\* of clear_object_notifier and mark_dequeued comes last deletes it, also when an
\* event, unregister_resource and the end of the process meet.
MessageLifetime ==
  /\ \A m \in Messages :
       LET times == Cardinality({i \in DOMAIN queue : queue[i] = m}) IN
       IF msg[m] = None
       THEN times = 0 /\ \A r \in Resources : notifier[r] # m
       ELSE /\ times = (IF msg[m].queued THEN 1 ELSE 0)
            /\ \A r \in Resources : notifier[r] = m <=> msg[m].of = r
            /\ msg[m].of # None \/ msg[m].queued
  /\ \A r \in Resources : notifier[r] # None => r \in exists
  /\ proc = "deleted" => exists = {} /\ queue = <<>>

\* The timer thread only meets timers that exist, in the order of their timeouts:
\* unregister_resource and tear_down take a timer off timers_ before it is deleted
\* (~Timer asserts it), although it may be armed, due or dispatched at that moment.
TimersExist ==
  /\ \A i \in DOMAIN timers : timers[i].timer \in source
  /\ \A i, j \in DOMAIN timers : i < j =>
       timers[i].timer # timers[j].timer /\ timers[i].timeout <= timers[j].timeout

\* An event that nobody has read is on its way: when the state of a resource with
\* a monitor is set, its notification is queued or being handled, although
\* try_notify does not queue a message twice, read_state clears the state, and a
\* monitor may be registered after the event.
NoLostEvent ==
  \A r \in Others : (proc = "running" /\ rstate[r] # 0 /\ notifier[r] # None)
    => msg[notifier[r]].queued \/ received = r

\* The timer thread does not oversleep: unless a signal is on its way it wakes up
\* no later than the first timer, plus the time the dispatching took after it
\* looked at the clock, although arm and on_unregister_resource signal it only
\* when they think it necessary.
ThreadWakesInTime ==
  (thread.at = "waiting" /\ ~signalled /\ timers # <<>>)
    => thread.until <= Head(timers).timeout + thread.ago

\* A task that sleeps wakes up and goes on, unless the process ends: the timer is
\* dispatched, its message received, the sleeper notified, whatever happened to the
\* timer, its target and its message in earlier sleeps.
SleepEnds ==
  \A r \in Timers : (task[r] \in {"check", "arm", "waiting"}) ~> (task[r] = "idle" \/ proc # "running")
=============================================================================
