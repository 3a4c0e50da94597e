------------------------------- MODULE Monitor -------------------------------
(***************************************************************************)
(* The tasks of one process and one monitor they share: the ring of        *)
(* running tasks of lib/core/task.toit, and the lock, the two queues, the  *)
(* deadlines and the cancellation of lib/core/monitor_impl.toit.           *)
(*                                                                         *)
(* Tasks are cooperative.  An action is what the current task does up to   *)
(* the next place where it may give up control; besides the current task   *)
(* only time passes and timers fire.  The classes of lib/monitor.toit      *)
(* extend this module with their state and the bodies of their methods.    *)
(***************************************************************************)
EXTENDS Integers, Sequences, FiniteSets

CONSTANTS
  Tasks,
  Methods,   \* the methods of the monitor
  Programs,  \* what the tasks may do: a set of functions from tasks to sets of
             \* methods, "exit", "timeout", "cancel" and "critical"
  None

ASSUME ProgramsAssumption ==
  /\ None \notin Tasks /\ IsFiniteSet(Tasks) /\ Tasks # {}
  /\ \A f \in Programs : DOMAIN f = Tasks

VARIABLES
  program,   \* the one of Programs that runs
  ring,      \* the running tasks from the current one on, linked by next_running_
  state,     \* state_ of a task
  pc,        \* where the task is
  op,        \* the method it has called
  owner,     \* owner_
  awaiters,  \* from await_head_ to await_tail_
  waiters,   \* from waiters_head_ to waiters_tail_
  deadline,  \* deadline_ of a task
  canceled,  \* is_canceled_
  timer,     \* its timer: not armed, armed, or armed for a wait that has ended
  fired      \* the tasks whose timer has sent its message

taskVars == <<ring, state, owner, awaiters, waiters, fired>>
monitorVars == <<program, taskVars, pc, op, deadline, canceled, timer>>

Blocked == {"locking", "awaiting"}

\* The current task, which runs.
Current(t) == ring # <<>> /\ Head(ring) = t /\ state[t] = "RUNNING"

critical(t) == "critical" \in program[t]

\* While a task with a deadline waits, its timer has the monitor as its target.
HasTarget(t) == pc[t] \in Blocked /\ deadline[t] # "none"

MonitorInit ==
  /\ program \in Programs
  /\ \E f \in [1..Cardinality(Tasks) -> Tasks] :
       /\ \A i, j \in DOMAIN f : i # j => f[i] # f[j]
       /\ ring = f
  /\ state = [t \in Tasks |-> "RUNNING"]
  /\ pc = [t \in Tasks |-> "run"]
  /\ op = [t \in Tasks |-> None]
  /\ owner = None /\ awaiters = <<>> /\ waiters = <<>>
  /\ deadline = [t \in Tasks |-> "none"]
  /\ canceled = [t \in Tasks |-> FALSE]
  /\ timer = [t \in Tasks |-> "idle"]
  /\ fired = {}

------------------------------------------------------------------------------
(* One slice of a task calls several of the operations below in a row, so    *)
(* they map a record of the shared state to the next one.                    *)

Now == [ring |-> ring, state |-> state, owner |-> owner, awaiters |-> awaiters,
        waiters |-> waiters, fired |-> fired]

Become(s) ==
  /\ ring' = s.ring /\ state' = s.state /\ owner' = s.owner
  /\ awaiters' = s.awaiters /\ waiters' = s.waiters /\ fired' = s.fired

\* Task_.resume_ for each of the tasks: a suspended task gets linked in before
\* the current one, that is, as the last one to run.
SuspendedOf(s, tasks) == SelectSeq(tasks, LAMBDA u : s.state[u] = "SUSPENDED")

LinkIn(s, woken) ==
  [s EXCEPT
     !.ring = @ \o SuspendedOf(s, woken),
     !.state = [u \in Tasks |->
                  IF \E i \in DOMAIN woken : woken[i] = u THEN "RUNNING" ELSE @[u]]]

resume_(s, state_changed) ==
  LET awoken == IF state_changed THEN s.awaiters ELSE <<>>
  IN [LinkIn(s, awoken \o s.waiters) EXCEPT
        !.awaiters = IF state_changed THEN <<>> ELSE @,
        !.waiters = <<>>]

notify_(s) == resume_(s, TRUE)

\* A timer's message notifies the monitor unless the timer has lost its target.
process_messages_(s, targets) ==
  LET r == IF s.fired \cap targets # {} THEN notify_(s) ELSE s
  IN [r EXCEPT !.fired = {}]

Targets(t, own) == {u \in Tasks \ {t} : HasTarget(u)} \cup (IF own THEN {t} ELSE {})

yield(s, t) ==
  LET r == process_messages_(s, Targets(t, FALSE))
  IN [r EXCEPT !.ring = Append(Tail(@), t)]

suspend__Resumed(s, t, own) ==
  LET r == process_messages_([s EXCEPT !.state[t] = "SUSPENDING"], Targets(t, own))
  IN IF Len(r.ring) > 1
     THEN [r EXCEPT !.ring = Tail(@), !.state[t] = "SUSPENDED"]
     ELSE r

\* Task_.suspend_ up to its return or, for the only task left, to __yield__.
suspend_(s, t, own) ==
  LET r == process_messages_([s EXCEPT !.state[t] = "SUSPENDING"], Targets(t, own))
  IN IF r.state[t] = "SUSPENDING" /\ Len(r.ring) > 1
     THEN [r EXCEPT !.ring = Tail(@), !.state[t] = "SUSPENDED"]
     ELSE r

unlock_Silent(s, t) ==
  LET r == resume_([s EXCEPT !.owner = None], FALSE)
  IN IF critical(t) THEN r ELSE yield(r, t)

\* The end of locked_, reached by a return or by an exception.
unlock(s, t) ==
  LET r == resume_([s EXCEPT !.owner = None], TRUE)
  IN IF critical(t) THEN r ELSE yield(r, t)

Arm(t) ==
  timer' = IF deadline[t] = "none" THEN timer ELSE [timer EXCEPT ![t] = "armed"]

Release(t) ==
  timer' = IF timer[t] = "armed" THEN [timer EXCEPT ![t] = "stale"] ELSE timer

------------------------------------------------------------------------------
(* locked_ and try_await_ *)

IsCanceled(t) == canceled[t] /\ ~critical(t)

\* CANCELED_ERROR ends the task, DEADLINE_EXCEEDED_ERROR leaves with_timeout.
Thrown(t) ==
  /\ pc' = [pc EXCEPT ![t] = IF IsCanceled(t) THEN "exit" ELSE "run"]
  /\ op' = [op EXCEPT ![t] = None]
  /\ deadline' = [deadline EXCEPT ![t] = "none"]
  /\ Release(t) /\ UNCHANGED <<program, canceled>>

\* The task calls method o, or it is back from wait_ in that call.
Locking(t, o) ==
  /\ Current(t)
  /\ \/ pc[t] = "run" /\ o \in program[t] \cap Methods
     \/ pc[t] = "locking" /\ op[t] = o

LockInterrupted_NoDeadline(t) == IsCanceled(t)

\* The deadline counts only for a call that has found the monitor taken.
LockInterrupted(t) ==
  IsCanceled(t) \/ (deadline[t] = "passed" /\ (pc[t] = "locking" \/ owner # None))

LockThrows(t, o) ==
  /\ Locking(t, o) /\ LockInterrupted(t)
  /\ Thrown(t) /\ UNCHANGED taskVars

wait_(t, o) ==
  /\ Locking(t, o) /\ ~LockInterrupted(t) /\ owner # None
  /\ Become(suspend_([Now EXCEPT !.waiters = Append(@, t)], t, deadline[t] # "none"))
  /\ pc' = [pc EXCEPT ![t] = "locking"] /\ op' = [op EXCEPT ![t] = o]
  /\ Arm(t) /\ UNCHANGED <<program, deadline, canceled>>

Enters(t, o) == Locking(t, o) /\ ~LockInterrupted(t) /\ owner = None

\* The task is about to do a round of the loop of try_await_.
Awaiting(t, o) ==
  Enters(t, o) \/ (Current(t) /\ pc[t] = "awaiting" /\ op[t] = o)

AwaitInterrupted(t) == IsCanceled(t) \/ deadline[t] = "passed"

\* The exception leaves the method through the end of locked_, whoever owns
\* the monitor.
AwaitThrows(t, o) ==
  /\ Awaiting(t, o) /\ AwaitInterrupted(t)
  /\ Become(unlock(Now, t)) /\ Thrown(t)

\* The condition does not hold, or somebody else is in the monitor.  Only the
\* first round of the loop tells the other awaiters that the state may have
\* changed.
await_(t, o, first) ==
  /\ Awaiting(t, o) /\ ~AwaitInterrupted(t)
  /\ LET s == IF owner = None THEN resume_(Now, first) ELSE Now
     IN Become(suspend_([s EXCEPT !.awaiters = Append(@, t)], t, deadline[t] # "none"))
  /\ pc' = [pc EXCEPT ![t] = "awaiting"] /\ op' = [op EXCEPT ![t] = o]
  /\ Arm(t) /\ UNCHANGED <<program, deadline, canceled>>

\* The task gets the monitor and its condition, if it has one, holds.
Admitted(t, o) == Awaiting(t, o) /\ ~AwaitInterrupted(t) /\ owner = None

Returns(t) ==
  /\ Become(unlock(Now, t))
  /\ pc' = [pc EXCEPT ![t] = "run"] /\ op' = [op EXCEPT ![t] = None]
  /\ Release(t) /\ UNCHANGED <<program, deadline, canceled>>

------------------------------------------------------------------------------
(* What tasks do outside the monitor *)

Yield(t) ==
  /\ Current(t) /\ pc[t] = "run"
  /\ Become(yield(Now, t))
  /\ UNCHANGED <<program, pc, op, deadline, canceled, timer>>

\* with_timeout, and the end of its block.
with_timeout(t) ==
  /\ Current(t) /\ pc[t] = "run" /\ "timeout" \in program[t]
  /\ deadline' = [deadline EXCEPT ![t] = IF @ = "none" THEN "set" ELSE "none"]
  /\ UNCHANGED <<program, taskVars, pc, op, canceled, timer>>

cancel(t, u) ==
  /\ Current(t) /\ pc[t] = "run" /\ "cancel" \in program[t]
  /\ canceled' = [canceled EXCEPT ![u] = TRUE]
  /\ Become(IF pc[u] \in Blocked /\ ~critical(u) THEN notify_(Now) ELSE Now)
  /\ UNCHANGED <<program, pc, op, deadline, timer>>

\* The task ends.  The last one halts the process.
exit_(t) ==
  /\ Current(t) /\ (pc[t] = "exit" \/ (pc[t] = "run" /\ "exit" \in program[t]))
  /\ IF \A u \in Tasks \ {t} : pc[u] = "done"
     THEN /\ Become([Now EXCEPT !.ring = <<>>, !.state[t] = "SUSPENDED", !.fired = {}])
          /\ pc' = [pc EXCEPT ![t] = "done"]
     ELSE LET s == suspend_(Now, t, FALSE) IN
          /\ Become(s)
          /\ pc' = [pc EXCEPT ![t] = IF s.state[t] = "SUSPENDED" THEN "done" ELSE "exit"]
  /\ deadline' = [deadline EXCEPT ![t] = "none"]
  /\ timer' = [timer EXCEPT ![t] = "idle"]
  /\ UNCHANGED <<program, op, canceled>>

\* The only task left is in suspend_ when a message arrives.
Wakeup(t) ==
  /\ ring = <<t>> /\ state[t] = "SUSPENDING" /\ fired # {}
  /\ LET s == suspend_(Now, t, HasTarget(t)) IN
     /\ Become(s)
     /\ pc' = [pc EXCEPT ![t] =
                 IF @ = "exit" /\ s.state[t] = "SUSPENDED" THEN "done" ELSE @]
  /\ UNCHANGED <<program, op, deadline, canceled, timer>>

DeadlinePasses(t) ==
  /\ deadline[t] = "set"
  /\ deadline' = [deadline EXCEPT ![t] = "passed"]
  /\ UNCHANGED <<program, taskVars, pc, op, canceled, timer>>

\* The timer thread; a stale timer has some earlier deadline.
Fire(t) ==
  /\ timer[t] = "stale" \/ (timer[t] = "armed" /\ deadline[t] = "passed")
  /\ timer' = [timer EXCEPT ![t] = "idle"]
  /\ fired' = fired \cup {t}
  /\ UNCHANGED <<program, ring, state, owner, awaiters, waiters, pc, op, deadline, canceled>>

\* What does not depend on the class of the monitor.
Common(t) ==
  \/ Yield(t) \/ with_timeout(t) \/ \E u \in Tasks : cancel(t, u)
  \/ exit_(t) \/ Wakeup(t) \/ DeadlinePasses(t) \/ Fire(t)
==============================================================================
