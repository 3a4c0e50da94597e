-------------------------------- MODULE Rpc --------------------------------
(* Remote procedure calls between processes: RpcSynchronizer_ in the        *)
(* callers (lib/rpc/rpc.toit), RpcBroker and RpcRequestQueue_ in the        *)
(* process that serves (lib/rpc/broker.toit), and what lib/system adds to   *)
(* the broker: it accepts only processes it was told of, and drops the      *)
(* requests of a process that ended.                                        *)
(*                                                                          *)
(* Tasks of a process are cooperative and the methods of the monitors do    *)
(* not block inside, except in await, so each is one step.  remove_first    *)
(* yields after it has unlocked the monitor: messages are handled between   *)
(* it and what the task does with its result.  Messages from one process    *)
(* to another arrive in order; a message to a process that ended is lost.   *)
EXTENDS Integers, Sequences, FiniteSets, FiniteSetsExt, SequencesExt

CONSTANTS
  Pids,         \* The processes that call.
  MaxCalls,     \* Bound on the calls a process makes.
  Blocking,     \* Ids of calls whose procedure blocks until it is canceled.
  Failing,      \* Ids of calls whose procedure may be missing, or may throw.
  MaxTasks,     \* RpcBroker.MAX_TASKS.
  MaxRequests,  \* RpcBroker.MAX_REQUESTS.
  None

ASSUME RpcAssumption ==
  /\ MaxTasks \in Nat \ {0} /\ MaxRequests \in Nat \ {0}
  /\ None \notin {"EMPTY", "result", "exception", "CANCELED", "gave up"}

VARIABLES
  status,       \* Of the callers: new, running, ended, reported.
  id_,          \* Per caller, the id of its next call.
  map_,         \* Per call what its caller waits for: EMPTY, then the reply.
  outcome,      \* Per call how it ended for the caller.
  messages,     \* To the process that serves.
  replies,      \* To each caller.
  pids_,        \* The processes the broker accepts.
  queue,        \* first_ to last_: calls that no task has taken.
  unprocessed_, tasks_,
  task,         \* processing_tasks_: what the task with an index does.
  processing_requests_,
  is_canceled   \* Per task.

callers == <<status, id_, map_, outcome, replies>>
broker == <<pids_, queue, unprocessed_, tasks_, task, processing_requests_,
            is_canceled>>
vars == <<callers, messages, broker>>

Calls == Pids \X (0..(MaxCalls - 1))
Indices == 1..MaxTasks

Message(type, c) == [type |-> type, pid |-> c[1], id |-> c[2]]
Reply(c, value) ==
  IF status[c[1]] # "running" THEN replies
  ELSE [replies EXCEPT ![c[1]] = Append(@, [id |-> c[2], value |-> value])]

-----------------------------------------------------------------------------
(* The callers *)

\* discover tells the process that serves before it answers the client.
discover(p) ==
  /\ status[p] = "new"
  /\ status' = [status EXCEPT ![p] = "running"]
  /\ messages' = Append(messages, Message("ADD_PROCESS", <<p, 0>>))
  /\ UNCHANGED <<id_, map_, outcome, replies, broker>>

\* RpcSynchronizer_.send up to its await.
send(p) ==
  /\ status[p] = "running" /\ id_[p] < MaxCalls
  /\ id_' = [id_ EXCEPT ![p] = @ + 1]
  /\ map_' = [map_ EXCEPT ![<<p, id_[p]>>] = "EMPTY"]
  /\ messages' = Append(messages, Message("REQUEST", <<p, id_[p]>>))
  /\ UNCHANGED <<status, outcome, replies, broker>>

\* RpcSynchronizer_.receive: what nobody waits for is dropped.
receive(c, value) ==
  map_' = [map_ EXCEPT ![c] = IF @ = "EMPTY" THEN value ELSE @]

OnReply(p) ==
  /\ status[p] = "running" /\ replies[p] # <<>>
  /\ receive(<<p, Head(replies[p]).id>>, Head(replies[p]).value)
  /\ replies' = [replies EXCEPT ![p] = Tail(@)]
  /\ UNCHANGED <<status, id_, outcome, messages, broker>>

\* The rest of send when await finds the reply.
Return(c) ==
  /\ status[c[1]] = "running" /\ map_[c] \notin {None, "EMPTY"}
  /\ map_' = [map_ EXCEPT ![c] = None]
  /\ outcome' = [outcome EXCEPT ![c] = map_[c]]
  /\ UNCHANGED <<status, id_, replies, messages, broker>>

\* Mutant: the entry in map_ stays.
GiveUp_StaysWaiting(c) ==
  /\ status[c[1]] = "running" /\ map_[c] # None
  /\ outcome' = [outcome EXCEPT ![c] = "gave up"]
  /\ messages' = Append(messages, Message("CANCEL", c))
  /\ UNCHANGED <<status, id_, map_, replies, broker>>

\* The deadline passes or the task is canceled, which await looks at before
\* it looks for the reply.
GiveUp(c) ==
  /\ status[c[1]] = "running" /\ map_[c] # None
  /\ map_' = [map_ EXCEPT ![c] = None]
  /\ outcome' = [outcome EXCEPT ![c] = "gave up"]
  /\ messages' = Append(messages, Message("CANCEL", c))
  /\ UNCHANGED <<status, id_, replies, broker>>

\* A caller ends; later on_process_stop of the system reports it.
ProcessEnds(p) ==
  /\ status[p] = "running"
  /\ status' = [status EXCEPT ![p] = "ended"]
  /\ map_' = [c \in Calls |-> IF c[1] = p THEN None ELSE map_[c]]
  /\ replies' = [replies EXCEPT ![p] = <<>>]
  /\ UNCHANGED <<id_, outcome, messages, broker>>

on_process_stop(p) ==
  /\ status[p] = "ended"
  /\ status' = [status EXCEPT ![p] = "reported"]
  /\ messages' = Append(messages, Message("REMOVE_PROCESS", <<p, 0>>))
  /\ UNCHANGED <<id_, map_, outcome, replies, broker>>

-----------------------------------------------------------------------------
(* The request queue *)

\* Mutant: there are enough tasks if there is one.
ensure_processing_task_One(unprocessed, tasks, ts) ==
  LET n == Max({0, Min({unprocessed, 1}) - tasks})
      new == {i \in Indices : /\ ts[i] = "none"
                              /\ Cardinality({j \in 1..i : ts[j] = "none"}) <= n}
  IN /\ tasks_' = tasks + n
     /\ task' = [i \in Indices |-> IF i \in new THEN "loop" ELSE ts[i]]

\* Tasks are started at the first free indices until there is one for every
\* request, or the maximum.
ensure_processing_task_(unprocessed, tasks, ts) ==
  LET n == Max({0, Min({unprocessed, MaxTasks}) - tasks})
      new == {i \in Indices : /\ ts[i] = "none"
                              /\ Cardinality({j \in 1..i : ts[j] = "none"}) <= n}
  IN /\ tasks_' = tasks + n
     /\ task' = [i \in Indices |-> IF i \in new THEN "loop" ELSE ts[i]]

Full == unprocessed_ >= MaxRequests

\* Mutant: a request that is turned down gets no reply.
add_NoReply(c) ==
  /\ queue' = IF Full THEN queue ELSE Append(queue, c)
  /\ unprocessed_' = IF Full THEN unprocessed_ ELSE unprocessed_ + 1
  /\ ensure_processing_task_(unprocessed_', tasks_, task)
  /\ UNCHANGED <<replies, processing_requests_, is_canceled>>

add(c) ==
  /\ queue' = IF Full THEN queue ELSE Append(queue, c)
  /\ unprocessed_' = IF Full THEN unprocessed_ ELSE unprocessed_ + 1
  /\ ensure_processing_task_(unprocessed_', tasks_, task)
  /\ replies' = IF Full THEN Reply(c, "exception") ELSE replies
  /\ UNCHANGED <<processing_requests_, is_canceled>>

\* Mutants: requests that are unlinked stay counted; requests that a task has
\* taken are not canceled; all tasks are.
cancel_StaysCounted(cs) ==
  /\ queue' = SelectSeq(queue, LAMBDA c : c \notin cs)
  /\ is_canceled' = [i \in Indices |-> is_canceled[i] \/ processing_requests_[i] \in cs]
  /\ UNCHANGED <<unprocessed_, tasks_, task, processing_requests_>>
cancel_QueueOnly(cs) ==
  LET kept == SelectSeq(queue, LAMBDA c : c \notin cs)
  IN /\ queue' = kept
     /\ unprocessed_' = unprocessed_ - (Len(queue) - Len(kept))
     /\ UNCHANGED <<is_canceled, tasks_, task, processing_requests_>>
cancel_AllTasks(cs) ==
  LET kept == SelectSeq(queue, LAMBDA c : c \notin cs)
  IN /\ queue' = kept
     /\ unprocessed_' = unprocessed_ - (Len(queue) - Len(kept))
     /\ is_canceled' = [i \in Indices |-> is_canceled[i] \/ processing_requests_[i] # None]
     /\ UNCHANGED <<tasks_, task, processing_requests_>>

\* Requests in the queue are unlinked, the tasks of others are canceled.
cancel(cs) ==
  LET kept == SelectSeq(queue, LAMBDA c : c \notin cs)
  IN /\ queue' = kept
     /\ unprocessed_' = unprocessed_ - (Len(queue) - Len(kept))
     /\ is_canceled' = [i \in Indices |-> is_canceled[i] \/ processing_requests_[i] \in cs]
     /\ UNCHANGED <<tasks_, task, processing_requests_>>

-----------------------------------------------------------------------------
(* The broker *)

\* Mutant: cancellations are not accepted.
Accepted_OnlyRequests(type, c) == c[1] \in pids_ /\ type = "REQUEST"

Accepted(type, c) == c[1] \in pids_

\* on_message of the broker and, for the notifications, of ServiceManager_.  An
\* exception is the reply to a call of a procedure that is not registered.
OnMessage ==
  LET m == Head(messages)
      c == <<m.pid, m.id>>
  IN /\ messages # <<>>
     /\ messages' = Tail(messages)
     /\ \/ /\ m.type = "REQUEST" /\ Accepted(m.type, c)
           /\ add(c)
           /\ UNCHANGED pids_
        \/ /\ m.type = "REQUEST" /\ Accepted(m.type, c) /\ m.id \in Failing
           /\ replies' = Reply(c, "exception")
           /\ UNCHANGED broker
        \/ /\ m.type = "CANCEL" /\ Accepted(m.type, c)
           /\ cancel({c})
           /\ UNCHANGED <<pids_, replies>>
        \/ /\ m.type \in {"REQUEST", "CANCEL"} /\ ~Accepted(m.type, c)
           /\ UNCHANGED <<broker, replies>>
        \/ /\ m.type = "ADD_PROCESS"
           /\ pids_' = pids_ \cup {m.pid}
           /\ UNCHANGED <<queue, unprocessed_, tasks_, task,
                          processing_requests_, is_canceled, replies>>
        \/ /\ m.type = "REMOVE_PROCESS"
           /\ pids_' = pids_ \ {m.pid}
           /\ cancel({d \in Calls : d[1] = m.pid})
           /\ UNCHANGED replies
     /\ UNCHANGED <<status, id_, map_, outcome>>

\* remove_first takes the first request, at once or out of its await.
Take(i) ==
  /\ task[i] \in {"loop", "await"} /\ queue # <<>>
  /\ queue' = Tail(queue)
  /\ processing_requests_' = [processing_requests_ EXCEPT ![i] = Head(queue)]
  /\ task' = [task EXCEPT ![i] = "process"]
  /\ UNCHANGED <<callers, messages, pids_, unprocessed_, tasks_, is_canceled>>

Await(i) ==
  /\ task[i] = "loop" /\ queue = <<>>
  /\ task' = [task EXCEPT ![i] = "await"]
  /\ UNCHANGED <<callers, messages, pids_, queue, unprocessed_, tasks_,
                 processing_requests_, is_canceled>>

\* The idle time is over, which await looks at before it looks for requests.
IdleTimeout(i) ==
  /\ task[i] = "await"
  /\ task' = [task EXCEPT ![i] = "leave"]
  /\ UNCHANGED <<callers, messages, pids_, queue, unprocessed_, tasks_,
                 processing_requests_, is_canceled>>

Leave(i) ==
  /\ task[i] = "leave"
  /\ ensure_processing_task_(unprocessed_, tasks_ - 1,
                             [task EXCEPT ![i] = "none"])
  /\ UNCHANGED <<callers, messages, pids_, queue, unprocessed_,
                 processing_requests_, is_canceled>>

\* process ends, also when the procedure throws, and sends its reply.  A canceled task ends as well, and its
\* index is free for another.
ProcessDone(i) ==
  LET c == processing_requests_[i]
      values == (IF c[2] \in Blocking THEN {} ELSE {"result"})
                  \cup (IF c[2] \in Failing THEN {"exception"} ELSE {})
                  \cup (IF is_canceled[i] THEN {"CANCELED"} ELSE {})
  IN /\ task[i] = "process"
     /\ \E v \in values : replies' = Reply(c, v)
     /\ processing_requests_' = [processing_requests_ EXCEPT ![i] = None]
     /\ unprocessed_' = unprocessed_ - 1
     /\ IF is_canceled[i]
          THEN ensure_processing_task_(unprocessed_ - 1, tasks_ - 1,
                                       [task EXCEPT ![i] = "none"])
          ELSE task' = [task EXCEPT ![i] = "loop"] /\ tasks_' = tasks_
     /\ is_canceled' = [is_canceled EXCEPT ![i] = FALSE]
     /\ UNCHANGED <<status, id_, map_, outcome, messages, pids_, queue>>

-----------------------------------------------------------------------------

Init ==
  /\ status = [p \in Pids |-> "new"] /\ id_ = [p \in Pids |-> 0]
  /\ map_ = [c \in Calls |-> None] /\ outcome = [c \in Calls |-> None]
  /\ messages = <<>> /\ replies = [p \in Pids |-> <<>>]
  /\ pids_ = {} /\ queue = <<>> /\ unprocessed_ = 0 /\ tasks_ = 0
  /\ task = [i \in Indices |-> "none"]
  /\ processing_requests_ = [i \in Indices |-> None]
  /\ is_canceled = [i \in Indices |-> FALSE]

Next ==
  \/ \E p \in Pids : discover(p)
  \/ \E p \in Pids : send(p)
  \/ \E p \in Pids : OnReply(p)
  \/ \E c \in Calls : Return(c)
  \/ \E c \in Calls : GiveUp(c)
  \/ \E p \in Pids : ProcessEnds(p)
  \/ \E p \in Pids : on_process_stop(p)
  \/ OnMessage
  \/ \E i \in Indices : Take(i)
  \/ \E i \in Indices : Await(i)
  \/ \E i \in Indices : IdleTimeout(i)
  \/ \E i \in Indices : Leave(i)
  \/ \E i \in Indices : ProcessDone(i)

Spec == Init /\ [][Next]_vars

\* Processes handle their messages and run their tasks, a procedure that does
\* not block ends, and whoever calls one that blocks has a deadline.
Fairness ==
  /\ WF_vars(OnMessage)
  /\ \A p \in Pids : WF_vars(OnReply(p)) /\ WF_vars(on_process_stop(p))
  /\ \A c \in Calls : /\ WF_vars(Return(c))
                      /\ c[2] \in Blocking => WF_vars(GiveUp(c))
  /\ \A i \in Indices : WF_vars(Take(i) \/ Await(i) \/ Leave(i) \/ ProcessDone(i))

FairSpec == Spec /\ Fairness

-----------------------------------------------------------------------------
(* Properties *)

Taken == {processing_requests_[i] : i \in {j \in Indices : task[j] = "process"}}
InBroker(c) == c \in Taken \cup Range(queue)

\* The counters agree with the lists and keep to MAX_REQUESTS and MAX_TASKS,
\* and a request is in one place only, whatever is canceled, answered or timed
\* out in between (broker.toit:170-195, 213-223).
CountersAgree ==
  /\ unprocessed_ = Len(queue) + Cardinality(Taken)
  /\ unprocessed_ <= MaxRequests /\ tasks_ <= MaxTasks
  /\ Cardinality(Taken) = Cardinality({i \in Indices : task[i] = "process"})
  /\ Taken \cap Range(queue) = {} /\ IsInjective(queue)
  /\ tasks_ = Cardinality({i \in Indices : task[i] # "none"})

\* "It should not be necessary to ask for more processing tasks here"
\* (broker.toit:131): at all times there is a task for every request or the
\* maximum of tasks, although idle and canceled tasks leave at any moment.
EnoughTasks == tasks_ >= Min({unprocessed_, MaxTasks})

\* The broker holds no request of a process it was told has ended, except
\* for canceled ones on their way out (broker.toit:59-63, services.toit:448).
NoRequestsOfRemoved ==
  /\ \A c \in Range(queue) : c[1] \in pids_
  /\ \A i \in Indices : task[i] = "process" /\ processing_requests_[i][1] \notin pids_
                          => is_canceled[i]

\* Nobody is canceled by a call of another: a task is canceled for a caller
\* that gave up or ended, and no caller that waits gets CANCELED, which would
\* cancel its own task (broker.toit:194, rpc.toit:73).
CanceledOnRequest ==
  /\ \A i \in Indices : is_canceled[i] =>
       LET c == processing_requests_[i]
       IN c # None /\ (outcome[c] = "gave up" \/ status[c[1]] # "running")
  /\ \A c \in Calls : map_[c] # "CANCELED" /\ outcome[c] # "CANCELED"

\* A late reply has no effect: how a call ended is final and its id is not
\* waited for again (rpc.toit:66, 78-83).
OutcomeIsFinal ==
  [][\A c \in Calls : outcome[c] # None =>
       outcome'[c] = outcome[c] /\ map_'[c] = None]_vars

\* Every call comes to an end for its caller, although blocking procedures
\* may hold all tasks for a while (broker.toit:197-224, rpc.toit:62).
CallReturns == \A c \in Calls : map_[c] = "EMPTY" ~> map_[c] # "EMPTY"

\* What a caller gave up leaves the broker, also when the procedure blocks,
\* and its task is replaced (broker.toit:192-195).
CanceledLeaves ==
  \A c \in Calls : outcome[c] = "gave up" ~> ~InBroker(c) /\ Message("CANCEL", c) \notin Range(messages)
=============================================================================
