------------------------------- MODULE Channel -------------------------------
(***************************************************************************)
(* The monitor Channel of lib/monitor.toit: a ring buffer between tasks.   *)
(* A message is represented by the task that sends it.                     *)
(***************************************************************************)
EXTENDS Monitor

CONSTANT Capacity

ASSUME CapacityAssumption ==
  /\ Capacity \in Nat \ {0}
  /\ Methods = {"send", "send_block", "try_send", "receive", "try_receive"}

VARIABLES
  buffer,  \* buffer_
  start,   \* start_
  size,    \* size_
  index,   \* the local variable index of a task in send [block]
  last     \* what receive returned last

channelVars == <<buffer, start, size, index, last>>
vars == <<monitorVars, channelVars>>

Slots == 0..(Capacity - 1)

Init ==
  /\ MonitorInit
  /\ buffer = [i \in Slots |-> None] /\ start = 0 /\ size = 0
  /\ index = [t \in Tasks |-> 0] /\ last = None

\* The conditions that the methods await.
Condition(o) == IF o \in {"send", "send_block"} THEN size < Capacity ELSE size > 0

\* receive --blocking=false awaits only when there is something to receive.
Awaits(o) == o \in {"send", "send_block", "receive"} \/ (o = "try_receive" /\ size > 0)

Await(t, o) ==
  /\ pc[t] = "awaiting" \/ Awaits(o)
  /\ \/ AwaitThrows(t, o)
     \/ (owner # None \/ ~Condition(o)) /\ await_(t, o, pc[t] # "awaiting")
  /\ UNCHANGED channelVars

Write(i, t) ==
  /\ buffer' = [buffer EXCEPT ![i] = t] /\ size' = size + 1
  /\ UNCHANGED <<start, last>>

Free_FromZero == size % Capacity

Free == (start + size) % Capacity

send(t) ==
  /\ Admitted(t, "send") /\ Condition("send")
  /\ Write(Free, t) /\ Returns(t) /\ UNCHANGED index

try_send(t) ==
  /\ Enters(t, "try_send")
  /\ \/ size >= Capacity /\ UNCHANGED channelVars
     \/ size < Capacity /\ Write(Free, t) /\ UNCHANGED index
  /\ Returns(t)

\* send [block]: the index is computed before the block is called.
send_block(t) ==
  /\ Admitted(t, "send_block") /\ Condition("send_block")
  /\ index' = [index EXCEPT ![t] = Free]
  /\ owner' = t /\ pc' = [pc EXCEPT ![t] = "block"] /\ op' = [op EXCEPT ![t] = "send_block"]
  /\ Release(t)
  /\ UNCHANGED <<program, ring, state, awaiters, waiters, fired, deadline, canceled,
                 buffer, start, size, last>>

BlockYields(t) ==
  /\ Current(t) /\ pc[t] = "block"
  /\ Become(yield(Now, t))
  /\ UNCHANGED <<program, pc, op, deadline, canceled, timer, channelVars>>

BlockReturns(t) ==
  /\ Current(t) /\ pc[t] = "block"
  /\ Write(index[t], t) /\ Returns(t) /\ UNCHANGED index

BlockThrows_Locked(t) ==
  /\ Current(t) /\ pc[t] = "block"
  /\ pc' = [pc EXCEPT ![t] = "run"] /\ op' = [op EXCEPT ![t] = None]
  /\ UNCHANGED <<program, taskVars, deadline, canceled, timer, channelVars>>

BlockThrows(t) ==
  /\ Current(t) /\ pc[t] = "block"
  /\ Returns(t) /\ UNCHANGED channelVars

After(i) == (i + 1) % Capacity

receive(t) ==
  /\ \E o \in {"receive", "try_receive"} : Admitted(t, o) /\ Condition(o)
  /\ last' = buffer[start] /\ start' = After(start) /\ size' = size - 1
  /\ Returns(t) /\ UNCHANGED <<buffer, index>>

ReceiveNothing(t) ==
  /\ Enters(t, "try_receive") /\ size = 0
  /\ Returns(t) /\ UNCHANGED channelVars

\* What a task does in the monitor, and what it does outside.
Inside(t) ==
  \/ \E o \in Methods : (LockThrows(t, o) \/ wait_(t, o)) /\ UNCHANGED channelVars
  \/ \E o \in Methods : Await(t, o)
  \/ send(t) \/ try_send(t) \/ send_block(t) \/ receive(t) \/ ReceiveNothing(t)
  \/ BlockYields(t) \/ BlockReturns(t) \/ BlockThrows(t)

Outside(t) == Common(t) /\ UNCHANGED channelVars

Next == \E t \in Tasks : Inside(t) \/ Outside(t)

Spec == Init /\ [][Next]_vars

\* A task in the monitor or at its end goes on when it is current, time passes
\* and timers fire.  Outside, a task yields now and then, as the documentation of Task
\* demands of it.
Fairness ==
  \A t \in Tasks :
    /\ WF_vars(pc[t] # "run" /\ (Inside(t) \/ Outside(t)))
    /\ SF_vars(Yield(t) /\ UNCHANGED channelVars)

FairSpec == Spec /\ Fairness

------------------------------------------------------------------------------
(* Properties *)

\* Mutual exclusion: a task whose block runs inside the monitor owns it, and
\* nobody owns it otherwise, however calls end (locked_ and try_await_).
OwnerIsInside == \A t \in Tasks : owner = t <=> pc[t] = "block"

Waiting(t) == pc[t] \in Blocked /\ state[t] # "RUNNING"

\* No notification is lost: a task sleeps in the monitor only as long as somebody
\* else is in it or its condition does not hold, it has not been canceled, and
\* its timer will tell it that its deadline has passed (resume_, notify_, arm).
NoLostNotification ==
  \A t \in Tasks : Waiting(t) =>
    /\ owner = None => pc[t] = "awaiting" /\ ~Condition(op[t])
    /\ ~IsCanceled(t)
    /\ deadline[t] = "passed" => timer[t] = "armed" \/ t \in fired

\* The linked lists of tasks are sound: a task is linked into the ring once
\* unless it is suspended, and one that sleeps in the monitor is in the list of
\* those that wait for the same thing, once (suspend_, resume_, resume_waiters_).
ListsAgree ==
  /\ \A l \in {ring, awaiters, waiters} :
       \A i, j \in DOMAIN l : i # j => l[i] # l[j]
  /\ \A t \in Tasks :
       /\ (\E i \in DOMAIN ring : ring[i] = t) <=> state[t] # "SUSPENDED"
       /\ (\E i \in DOMAIN awaiters : awaiters[i] = t) <=> (Waiting(t) /\ pc[t] = "awaiting")
       /\ (\E i \in DOMAIN waiters : waiters[i] = t) <=> (Waiting(t) /\ pc[t] = "locking")

Contents == [i \in 1..size |-> buffer[(start + i - 1) % Capacity]]

Fifo == INSTANCE BoundedFifo WITH Values <- Tasks, queue <- Contents

\* Channel implements a bounded queue: messages are received in the order in
\* which they were sent, each once, and no more than the capacity are kept.
IsFifo == Fifo!Spec

\* A call ends once its deadline has passed or its task has been canceled, even
\* if the monitor stays taken.
InterruptReturns ==
  \A t \in Tasks :
    (pc[t] \in Blocked /\ AwaitInterrupted(t)) ~> (pc[t] \notin Blocked)
==============================================================================
