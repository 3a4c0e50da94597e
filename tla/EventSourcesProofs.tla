------------------------- MODULE EventSourcesProofs -------------------------
(***************************************************************************)
(* Notify messages are freed exactly once, no event is lost, and the timer *)
(* thread meets live timers only and wakes up in time, for any number of   *)
(* resources, tasks and messages.                                          *)
(***************************************************************************)
EXTENDS EventSources, FiniteSetTheorems, WellFoundedInduction, TLAPS

(***************************************************************************)
(* Notify messages.                                                        *)
(***************************************************************************)

\* The messages ms, the queue q and the notifiers nt fit together.
Fit(ms, q, nt) ==
  /\ ms \in [Messages -> NotifyMessage \cup {None}]
  /\ q \in Seq(Messages)
  /\ nt \in [Resources -> Messages \cup {None}]
  /\ \A i, j \in 1..Len(q) : q[i] = q[j] => i = j
  /\ \A i \in 1..Len(q) : ms[q[i]] # None /\ ms[q[i]].queued
  /\ \A m \in Messages : ms[m] # None =>
       /\ ms[m].queued => \E i \in 1..Len(q) : q[i] = m
       /\ ms[m].of # None \/ ms[m].queued
       /\ ms[m].of # None => nt[ms[m].of] = m
  /\ \A r \in Resources : nt[r] # None => ms[nt[r]] # None /\ ms[nt[r]].of = r

\* From messages ms to messages ns no message is freed, dequeued or changes its
\* notifier.
Grows(ms, ns) ==
  \A m \in Messages : ms[m] # None =>
    ns[m] # None /\ ns[m].of = ms[m].of /\ (ms[m].queued => ns[m].queued)

\* The first message stays the first one.
SameHead(q, p) == q # <<>> => p # <<>> /\ Head(p) = Head(q)

\* A message is no null pointer.
LEMMA MessageIsNotNone ==
  /\ None \notin NotifyMessage /\ None \notin Messages /\ None \notin Resources
  /\ \A r \in Resources \cup {None}, b \in BOOLEAN : [of |-> r, queued |-> b] \in NotifyMessage
  /\ \A x \in NotifyMessage : x.of \in Resources \cup {None} /\ x.queued \in BOOLEAN
BY ConstantsAssumption DEF NotifyMessage

\* send_notify_message queues a message unless it is queued or the process ends.
LEMMA SendKeepsFit ==
  ASSUME NEW m \in Messages, NEW ms, NEW q, NEW nt,
         Fit(ms, q, nt), ms[m] # None, send_notify_message(m, ms, q)
  PROVE  /\ Fit(msg', queue', nt)
         /\ Grows(ms, msg') /\ SameHead(q, queue')
         /\ proc = "running" => msg'[m].queued
         /\ proc # "running" => queue' = q
<1>1. CASE proc # "running" \/ ms[m].queued
  BY <1>1 DEF send_notify_message, Grows, SameHead
<1>2. CASE proc = "running" /\ ~ms[m].queued
  <2> DEFINE x == [ms[m] EXCEPT !.queued = TRUE]
  <2>1. msg' = [ms EXCEPT ![m] = x] /\ queue' = Append(q, m)
    BY <1>2 DEF send_notify_message
  <2>2. /\ ms \in [Messages -> NotifyMessage \cup {None}] /\ q \in Seq(Messages)
        /\ ms[m] \in NotifyMessage
    BY DEF Fit
  <2>3. x \in NotifyMessage /\ x # None /\ x.of = ms[m].of /\ x.queued = TRUE
    BY <2>2, MessageIsNotNone DEF NotifyMessage
  <2>4. /\ Len(queue') = Len(q) + 1 /\ queue' \in Seq(Messages)
        /\ \A i \in 1..Len(q) : queue'[i] = q[i]
        /\ queue'[Len(q) + 1] = m
    BY <2>1, <2>2
  <2>5. \A i \in 1..Len(q) : q[i] # m
    BY <1>2 DEF Fit
  <2> HIDE DEF x
  <2>6. /\ msg' \in [Messages -> NotifyMessage \cup {None}]
        /\ msg'[m] = x /\ \A n \in Messages \ {m} : msg'[n] = ms[n]
    BY <2>1, <2>2, <2>3
  <2>7. Fit(msg', queue', nt)
    <3>1. \A i, j \in 1..Len(queue') : queue'[i] = queue'[j] => i = j
      BY <2>2, <2>4, <2>5 DEF Fit
    <3>2. \A i \in 1..Len(queue') : msg'[queue'[i]] # None /\ msg'[queue'[i]].queued
      BY <2>2, <2>3, <2>4, <2>5, <2>6 DEF Fit
    <3>3. \A n \in Messages : msg'[n] # None =>
            /\ msg'[n].queued => \E i \in 1..Len(queue') : queue'[i] = n
            /\ msg'[n].of # None \/ msg'[n].queued
            /\ msg'[n].of # None => nt[msg'[n].of] = n
      <4> SUFFICES ASSUME NEW n \in Messages, msg'[n] # None
                   PROVE  /\ msg'[n].queued => \E i \in 1..Len(queue') : queue'[i] = n
                          /\ msg'[n].of # None \/ msg'[n].queued
                          /\ msg'[n].of # None => nt[msg'[n].of] = n
        OBVIOUS
      <4>1. CASE n = m
        BY <4>1, <2>2, <2>3, <2>4, <2>6 DEF Fit
      <4>2. CASE n # m
        <5>1. msg'[n] = ms[n]
          BY <4>2, <2>6
        <5>2. msg'[n].queued => \E i \in 1..Len(q) : q[i] = n
          BY <5>1 DEF Fit
        <5>3. msg'[n].queued => \E i \in 1..Len(queue') : queue'[i] = n
          BY <5>2, <2>2, <2>4
        <5> QED
          BY <5>1, <5>3 DEF Fit
      <4> QED
        BY <4>1, <4>2
    <3>4. \A r \in Resources : nt[r] # None => msg'[nt[r]] # None /\ msg'[nt[r]].of = r
      BY <2>3, <2>6 DEF Fit
    <3> QED
      BY <3>1, <3>2, <3>3, <3>4, <2>4, <2>6 DEF Fit
  <2>8. Grows(ms, msg')
    BY <2>3, <2>6 DEF Grows
  <2>9. SameHead(q, queue')
    BY <2>1, <2>2 DEF SameHead
  <2> QED
    BY <1>2, <2>3, <2>6, <2>7, <2>8, <2>9
<1> QED
  BY <1>1, <1>2

\* What try_notify does for an event with state st, or forced.
LEMMA TryNotifyKeepsFit ==
  ASSUME NEW r \in Resources, NEW st, NEW force \in BOOLEAN,
         Fit(msg, queue, notifier), try_notify(r, st, force)
  PROVE  /\ Fit(msg', queue', notifier)
         /\ Grows(msg, msg') /\ SameHead(queue, queue')
         /\ proc = "running" /\ st # 0 /\ notifier[r] # None => msg'[notifier[r]].queued
         /\ proc # "running" => queue' = queue
<1>1. CASE (st # 0 \/ force) /\ notifier[r] # None
  <2>1. notifier[r] \in Messages /\ msg[notifier[r]] # None
    BY <1>1 DEF Fit
  <2>2. send_notify_message(notifier[r], msg, queue)
    BY <1>1 DEF try_notify
  <2> QED
    BY <2>1, <2>2, SendKeepsFit
<1>2. CASE ~((st # 0 \/ force) /\ notifier[r] # None)
  <2>1. msg' = msg /\ queue' = queue
    BY <1>2 DEF try_notify, messages
  <2> QED
    BY <1>2, <2>1 DEF Grows, SameHead
<1> QED
  BY <1>1, <1>2

\* ~ObjectNotifier leaves a queued message to the queue.
LEMMA DeleteKeepsFit ==
  ASSUME NEW r \in Resources, Fit(msg, queue, notifier),
         DeleteNotifier(r), queue' = queue
  PROVE  /\ Fit(msg', queue', notifier')
         /\ notifier'[r] = None
         /\ \A z \in Resources \ {r} :
              /\ notifier'[z] = notifier[z]
              /\ notifier[z] # None => msg'[notifier[z]] = msg[notifier[z]]
<1>0. /\ msg \in [Messages -> NotifyMessage \cup {None}] /\ queue \in Seq(Messages)
      /\ notifier \in [Resources -> Messages \cup {None}]
  BY DEF Fit
<1>1. /\ notifier' \in [Resources -> Messages \cup {None}] /\ notifier'[r] = None
      /\ \A z \in Resources \ {r} : notifier'[z] = notifier[z]
  BY <1>0 DEF DeleteNotifier
<1>2. CASE notifier[r] = None
  <2>1. msg' = msg
    BY <1>2 DEF DeleteNotifier
  <2>2. notifier' = notifier
    BY <1>0, <1>1, <1>2
  <2> QED
    BY <1>1, <2>1, <2>2
<1>3. CASE notifier[r] # None
  <2> DEFINE m == notifier[r]
             y == IF msg[m].queued THEN [msg[m] EXCEPT !.of = None] ELSE None
  <2>1. m \in Messages /\ msg[m] \in NotifyMessage /\ msg[m].of = r
    BY <1>0, <1>3 DEF Fit
  <2>2. msg' = [msg EXCEPT ![m] = y]
    BY <1>3 DEF DeleteNotifier
  <2>3. y \in NotifyMessage \cup {None}
    BY <2>1, MessageIsNotNone DEF NotifyMessage
  <2>4. msg[m].queued => y # None /\ y.of = None /\ y.queued
    BY <2>1, MessageIsNotNone DEF NotifyMessage
  <2>5. ~msg[m].queued => y = None
    OBVIOUS
  <2> HIDE DEF y
  <2>6. /\ msg' \in [Messages -> NotifyMessage \cup {None}]
        /\ msg'[m] = y /\ \A n \in Messages \ {m} : msg'[n] = msg[n]
    BY <1>0, <2>1, <2>2, <2>3
  <2>7. \A z \in Resources \ {r} : notifier[z] # None => notifier[z] \in Messages \ {m}
    BY <1>0, <2>1 DEF Fit
  <2> HIDE DEF m
  <2>8. \A i \in 1..Len(queue) : msg'[queue[i]] # None /\ msg'[queue[i]].queued
    <3> TAKE i \in 1..Len(queue)
    <3>1. queue[i] \in Messages /\ msg[queue[i]] # None /\ msg[queue[i]].queued
      BY <1>0 DEF Fit
    <3> QED
      BY <3>1, <2>4, <2>6
  <2>9. \A n \in Messages : msg'[n] # None =>
          /\ msg'[n].queued => \E i \in 1..Len(queue) : queue[i] = n
          /\ msg'[n].of # None \/ msg'[n].queued
          /\ msg'[n].of # None => notifier'[msg'[n].of] = n
    <3> SUFFICES ASSUME NEW n \in Messages, msg'[n] # None
                 PROVE  /\ msg'[n].queued => \E i \in 1..Len(queue) : queue[i] = n
                        /\ msg'[n].of # None \/ msg'[n].queued
                        /\ msg'[n].of # None => notifier'[msg'[n].of] = n
      OBVIOUS
    <3>1. CASE n = m
      <4>1. msg[m].queued /\ y.of = None /\ y.queued /\ msg'[n] = y
        BY <3>1, <2>4, <2>5, <2>6
      <4>2. \E i \in 1..Len(queue) : queue[i] = m
        BY <4>1, <2>1, MessageIsNotNone DEF Fit
      <4> QED
        BY <3>1, <4>1, <4>2
    <3>2. CASE n # m
      <4>1. msg'[n] = msg[n] /\ msg[n] \in NotifyMessage
        BY <3>2, <2>6, <1>0
      <4>2. msg[n].of # r
        BY <3>2, <4>1, MessageIsNotNone DEF Fit, m
      <4>3. msg[n].of # None => notifier'[msg[n].of] = n
        BY <4>1, <4>2, <1>1, MessageIsNotNone DEF Fit
      <4> QED
        BY <4>1, <4>3 DEF Fit
    <3> QED
      BY <3>1, <3>2
  <2>10. \A z \in Resources : notifier'[z] # None =>
            msg'[notifier'[z]] # None /\ msg'[notifier'[z]].of = z
    BY <1>0, <1>1, <2>6, <2>7 DEF Fit
  <2>11. Fit(msg', queue', notifier')
    BY <1>0, <1>1, <2>6, <2>8, <2>9, <2>10 DEF Fit
  <2> QED
    BY <1>1, <2>6, <2>7, <2>11
<1> QED
  BY <1>2, <1>3

\* remove_first_message takes the first message off the queue, and deletes it if
\* it has no notifier.
LEMMA RemoveKeepsFit ==
  ASSUME Fit(msg, queue, notifier), queue # <<>>, RemovesFirst
  PROVE  /\ Fit(msg', queue', notifier)
         /\ \A m \in Messages : m # Head(queue) => msg'[m] = msg[m]
<1> DEFINE h == Head(queue)
           y == IF msg[h].of = None THEN None ELSE [msg[h] EXCEPT !.queued = FALSE]
<1>0. /\ msg \in [Messages -> NotifyMessage \cup {None}] /\ queue \in Seq(Messages)
      /\ notifier \in [Resources -> Messages \cup {None}]
  BY DEF Fit
<1>1. /\ h \in Messages /\ h = queue[1] /\ Len(queue) > 0
      /\ queue' = Tail(queue) /\ msg' = [msg EXCEPT ![h] = y]
  BY <1>0 DEF RemovesFirst
<1>2. /\ Len(queue') = Len(queue) - 1 /\ queue' \in Seq(Messages)
      /\ \A i \in 1..Len(queue') : queue'[i] = queue[i + 1]
  BY <1>0, <1>1
<1>3. msg[h] \in NotifyMessage
  BY <1>0, <1>1 DEF Fit
<1> HIDE DEF h
<1>4. /\ y \in NotifyMessage \cup {None}
      /\ msg[h].of = None => y = None
      /\ msg[h].of # None => y # None /\ y.of = msg[h].of /\ y.queued = FALSE
  <2>1. CASE msg[h].of = None
    BY <2>1
  <2>2. CASE msg[h].of # None
    <3>1. y = [msg[h] EXCEPT !.queued = FALSE]
      BY <2>2
    <3>2. y = [of |-> msg[h].of, queued |-> FALSE]
      BY <3>1, <1>3 DEF NotifyMessage
    <3> QED
      BY <2>2, <3>2, <1>3, MessageIsNotNone
  <2> QED
    BY <2>1, <2>2
<1> HIDE DEF y
<1>5. /\ msg' \in [Messages -> NotifyMessage \cup {None}]
      /\ msg'[h] = y /\ \A n \in Messages \ {h} : msg'[n] = msg[n]
  BY <1>0, <1>1, <1>4
<1>6. \A i \in 1..Len(queue') : queue'[i] \in Messages \ {h}
  <2> TAKE i \in 1..Len(queue')
  <2>1. i + 1 \in 1..Len(queue) /\ 1 \in 1..Len(queue) /\ i + 1 # 1
    BY <1>0, <1>1, <1>2
  <2> QED
    BY <2>1, <1>0, <1>1, <1>2 DEF Fit
<1>7. \A i, j \in 1..Len(queue') : queue'[i] = queue'[j] => i = j
  <2> TAKE i, j \in 1..Len(queue')
  <2>1. i + 1 \in 1..Len(queue) /\ j + 1 \in 1..Len(queue)
    BY <1>0, <1>1, <1>2
  <2>2. queue[i + 1] = queue[j + 1] => i + 1 = j + 1
    BY <2>1 DEF Fit
  <2> QED
    BY <2>1, <2>2, <1>0, <1>2
<1>8. \A i \in 1..Len(queue') : msg'[queue'[i]] # None /\ msg'[queue'[i]].queued
  <2> TAKE i \in 1..Len(queue')
  <2>1. i + 1 \in 1..Len(queue)
    BY <1>0, <1>1, <1>2
  <2>2. msg[queue[i + 1]] # None /\ msg[queue[i + 1]].queued
    BY <2>1 DEF Fit
  <2> QED
    BY <2>2, <1>2, <1>5, <1>6
<1>9. \A n \in Messages : msg'[n] # None =>
        /\ msg'[n].queued => \E i \in 1..Len(queue') : queue'[i] = n
        /\ msg'[n].of # None \/ msg'[n].queued
        /\ msg'[n].of # None => notifier[msg'[n].of] = n
  <2> SUFFICES ASSUME NEW n \in Messages, msg'[n] # None
               PROVE  /\ msg'[n].queued => \E i \in 1..Len(queue') : queue'[i] = n
                      /\ msg'[n].of # None \/ msg'[n].queued
                      /\ msg'[n].of # None => notifier[msg'[n].of] = n
    OBVIOUS
  <2>1. CASE n = h
    BY <2>1, <1>3, <1>4, <1>5, MessageIsNotNone DEF Fit
  <2>2. CASE n # h
    <3>1. msg'[n] = msg[n]
      BY <2>2, <1>5
    <3>2. ASSUME msg[n].queued PROVE \E i \in 1..Len(queue') : queue'[i] = n
      <4>1. PICK k \in 1..Len(queue) : queue[k] = n
        BY <3>1, <3>2 DEF Fit
      <4>2. k # 1
        BY <4>1, <2>2, <1>1
      <4>3. k - 1 \in 1..Len(queue') /\ queue'[k - 1] = n
        BY <4>1, <4>2, <1>0, <1>2
      <4> QED
        BY <4>3
    <3> QED
      BY <3>1, <3>2 DEF Fit
  <2> QED
    BY <2>1, <2>2
<1>10. \A z \in Resources : notifier[z] # None =>
          msg'[notifier[z]] # None /\ msg'[notifier[z]].of = z
  <2> SUFFICES ASSUME NEW z \in Resources, notifier[z] # None
               PROVE  msg'[notifier[z]] # None /\ msg'[notifier[z]].of = z
    OBVIOUS
  <2>1. notifier[z] \in Messages /\ msg[notifier[z]] # None /\ msg[notifier[z]].of = z
    BY <1>0 DEF Fit
  <2> QED
    BY <2>1, <1>4, <1>5, MessageIsNotNone
<1> QED
  BY <1>0, <1>2, <1>5, <1>7, <1>8, <1>9, <1>10 DEF Fit, h

\* A notifier that is created gets a message of its own.
LEMMA NewKeepsFit ==
  ASSUME NEW r \in Resources, Fit(msg, queue, notifier), notifier[r] = None, Free # {}
  PROVE  /\ NewMessage \in Messages /\ msg[NewMessage] = None
         /\ \A ms : ms = [msg EXCEPT ![NewMessage] = [of |-> r, queued |-> FALSE]] =>
              /\ Fit(ms, queue, [notifier EXCEPT ![r] = NewMessage])
              /\ ms[NewMessage] # None
              /\ Grows(msg, ms)
<1> DEFINE m == NewMessage
<1>1. m \in Messages /\ msg[m] = None
  BY DEF NewMessage, Free
<1> HIDE DEF m
<1>2. SUFFICES ASSUME NEW ms, ms = [msg EXCEPT ![m] = [of |-> r, queued |-> FALSE]]
               PROVE  /\ Fit(ms, queue, [notifier EXCEPT ![r] = m])
                      /\ ms[m] # None /\ Grows(msg, ms)
  BY <1>1 DEF m
<1> DEFINE nt == [notifier EXCEPT ![r] = m]
           x == [of |-> r, queued |-> FALSE]
<1>3. /\ msg \in [Messages -> NotifyMessage \cup {None}] /\ queue \in Seq(Messages)
      /\ notifier \in [Resources -> Messages \cup {None}]
  BY DEF Fit
<1>4. x \in NotifyMessage /\ x # None /\ x.of = r /\ x.queued = FALSE
  BY MessageIsNotNone
<1>5. /\ nt \in [Resources -> Messages \cup {None}] /\ nt[r] = m
      /\ \A z \in Resources \ {r} : nt[z] = notifier[z]
  BY <1>1, <1>3
<1>6. ms = [msg EXCEPT ![m] = x]
  BY <1>2
<1> HIDE DEF nt, x
<1>7. /\ ms \in [Messages -> NotifyMessage \cup {None}] /\ ms[m] = x
      /\ \A n \in Messages \ {m} : ms[n] = msg[n]
  BY <1>1, <1>3, <1>4, <1>6
<1>8. \A i \in 1..Len(queue) : ms[queue[i]] # None /\ ms[queue[i]].queued
  <2> TAKE i \in 1..Len(queue)
  <2>1. queue[i] \in Messages /\ msg[queue[i]] # None /\ msg[queue[i]].queued
    BY <1>3 DEF Fit
  <2> QED
    BY <2>1, <1>1, <1>7
<1>9. \A n \in Messages : ms[n] # None =>
        /\ ms[n].queued => \E i \in 1..Len(queue) : queue[i] = n
        /\ ms[n].of # None \/ ms[n].queued
        /\ ms[n].of # None => nt[ms[n].of] = n
  <2> SUFFICES ASSUME NEW n \in Messages, ms[n] # None
               PROVE  /\ ms[n].queued => \E i \in 1..Len(queue) : queue[i] = n
                      /\ ms[n].of # None \/ ms[n].queued
                      /\ ms[n].of # None => nt[ms[n].of] = n
    OBVIOUS
  <2>1. CASE n = m
    BY <2>1, <1>4, <1>5, <1>7, MessageIsNotNone
  <2>2. CASE n # m
    <3>1. ms[n] = msg[n] /\ msg[n] \in NotifyMessage
      BY <2>2, <1>3, <1>7
    <3>2. msg[n].of # None => msg[n].of \in Resources \ {r}
      BY <3>1, MessageIsNotNone DEF Fit
    <3> QED
      BY <3>1, <3>2, <1>5 DEF Fit
  <2> QED
    BY <2>1, <2>2
<1>10. \A z \in Resources : nt[z] # None => ms[nt[z]] # None /\ ms[nt[z]].of = z
  <2> SUFFICES ASSUME NEW z \in Resources, nt[z] # None
               PROVE  ms[nt[z]] # None /\ ms[nt[z]].of = z
    OBVIOUS
  <2>1. CASE z = r
    BY <2>1, <1>4, <1>5, <1>7
  <2>2. CASE z # r
    <3>1. nt[z] = notifier[z] /\ nt[z] \in Messages /\ msg[nt[z]] # None /\ msg[nt[z]].of = z
      BY <2>2, <1>3, <1>5 DEF Fit
    <3> QED
      BY <3>1, <1>1, <1>7
  <2> QED
    BY <2>1, <2>2
<1>11. Fit(ms, queue, nt)
  BY <1>3, <1>5, <1>7, <1>8, <1>9, <1>10 DEF Fit
<1> QED
  BY <1>1, <1>4, <1>7, <1>11 DEF Grows, nt

\* What update_resource_monitor does: the notifier is there afterwards, and its
\* message queued if there is an event.
LEMMA UpdateKeepsFit ==
  ASSUME NEW r \in Resources, NEW monitor, Fit(msg, queue, notifier),
         update_resource_monitor(r, monitor), proc = "running"
  PROVE  /\ Fit(msg', queue', notifier')
         /\ notifier'[r] # None
         /\ \A z \in Resources \ {r} : notifier'[z] = notifier[z]
         /\ Grows(msg, msg') /\ SameHead(queue, queue')
         /\ rstate[r] # 0 => msg'[notifier'[r]].queued
<1> DEFINE m == IF notifier[r] # None THEN notifier[r] ELSE NewMessage
           ms == IF notifier[r] # None THEN msg
                 ELSE [msg EXCEPT ![m] = [of |-> r, queued |-> FALSE]]
           nt == [notifier EXCEPT ![r] = m]
<1>1. /\ notifier' = nt
      /\ IF rstate[r] # 0 THEN send_notify_message(m, ms, queue)
         ELSE msg' = ms /\ queue' = queue
  BY DEF update_resource_monitor
<1>2. m \in Messages /\ ms[m] # None /\ Fit(ms, queue, nt) /\ Grows(msg, ms)
  <2>1. CASE notifier[r] # None
    <3>1. m = notifier[r] /\ ms = msg /\ m \in Messages /\ msg[m] # None
      BY <2>1 DEF Fit
    <3>2. nt = notifier
      BY <2>1, <3>1 DEF Fit
    <3> QED
      BY <3>1, <3>2 DEF Grows
  <2>2. CASE notifier[r] = None
    <3>1. Free # {}
      BY <2>2 DEF update_resource_monitor
    <3>2. m = NewMessage /\ ms = [msg EXCEPT ![NewMessage] = [of |-> r, queued |-> FALSE]]
      BY <2>2
    <3>3. nt = [notifier EXCEPT ![r] = NewMessage]
      BY <3>2
    <3> HIDE DEF m, ms, nt
    <3> QED
      BY <2>2, <3>1, <3>2, <3>3, NewKeepsFit
  <2> QED
    BY <2>1, <2>2
<1>3. nt[r] = m /\ \A z \in Resources \ {r} : nt[z] = notifier[z]
  BY DEF Fit
<1> HIDE DEF m, ms, nt
<1>4. CASE rstate[r] # 0
  <2>1. send_notify_message(m, ms, queue)
    BY <1>1, <1>4
  <2>2. /\ Fit(msg', queue', nt) /\ Grows(ms, msg') /\ SameHead(queue, queue')
        /\ msg'[m].queued
    BY <1>2, <2>1, SendKeepsFit
  <2>3. Grows(msg, msg')
    BY <1>2, <2>2 DEF Grows
  <2> QED
    BY <1>1, <1>2, <1>3, <2>2, <2>3, MessageIsNotNone
<1>5. CASE rstate[r] = 0
  <2>1. msg' = ms /\ queue' = queue
    BY <1>1, <1>5
  <2> QED
    BY <1>1, <1>2, <1>3, <1>5, <2>1, MessageIsNotNone DEF SameHead
<1> QED
  BY <1>4, <1>5

(***************************************************************************)
(* Resources and tasks.                                                    *)
(***************************************************************************)

\* The event source knows all resources but the one that is being closed, a task
\* that is not idle has its resource, and nothing is left of a deleted process.
StructInv ==
  /\ proc \in {"running", "terminating", "deleted"}
  /\ exists \subseteq Resources /\ group \subseteq exists
  /\ closing \in exists \cup {None}
  /\ source = exists \ {closing}
  /\ exists \subseteq group \cup {closing}
  /\ task \in [Resources -> TaskStates]
  /\ \A r \in Resources : task[r] # "idle" => r \in exists
  /\ \A r \in Resources : task[r] \in {"arm", "release"} => r \in Timers
  /\ closing # None \/ proc # "running" => received = None
  /\ proc = "deleted" => exists = {} /\ queue = <<>>

LEMMA NoneIsNoResource == None \notin Resources /\ None \notin Timers /\ None \notin Others
BY ConstantsAssumption DEF Resources

LEMMA StructInit == Init => StructInv
BY DEF Init, StructInv, TaskStates

\* Nothing is appended to the queue of a process that does not run.
LEMMA StoppedQueue ==
  ASSUME NEW r \in Resources, NEW st, NEW force \in BOOLEAN, try_notify(r, st, force), proc # "running"
  PROVE  queue' = queue
BY DEF try_notify, send_notify_message, messages

TimerEntry == [timer : Timers, timeout : Int]

LEMMA HeadIsTimer ==
  ASSUME timers \in Seq(TimerEntry), timers # <<>>
  PROVE  Head(timers).timer \in Timers /\ Head(timers).timeout \in Int
<1>1. Head(timers) \in TimerEntry
  OBVIOUS
<1> QED
  BY <1>1 DEF TimerEntry

LEMMA StructStep ==
  ASSUME StructInv, [Next]_vars, timers \in Seq(TimerEntry)
  PROVE  StructInv'
<1> USE DEF StructInv
<1>1. CASE UNCHANGED vars
  BY <1>1 DEF vars, process, memory, messages, clock
<1>2. ASSUME NEW r \in Resources, Event(r) PROVE StructInv'
  BY <1>2, StoppedQueue DEF Event, dispatch, process, memory, clock
<1>3. ASSUME NEW r \in Resources, Open(r) PROVE StructInv'
  BY <1>3, NoneIsNoResource DEF Open, Turn, Toit, Goes, register_resource, TaskStates, messages
<1>4. ASSUME NEW r \in Resources, Cancel(r) PROVE StructInv'
  BY <1>4 DEF Cancel, Toit, Goes, TaskStates, memory, messages
<1>5. ASSUME NEW r \in Resources, dispose(r) PROVE StructInv'
  BY <1>5 DEF dispose, Turn, Toit, Goes, TaskStates
<1>6. ASSUME NEW r \in Resources, unregister_resource(r) PROVE StructInv'
  BY <1>6, NoneIsNoResource DEF unregister_resource, Turn, Toit, UnregisterFromSource
<1>7. ASSUME NEW r \in Timers, NEW w \in 1..MaxTime, sleep_until_(r, w) PROVE StructInv'
  BY <1>7, NoneIsNoResource DEF sleep_until_, Turn, Toit, Goes, register_resource, TaskStates, memory,
     messages, Resources
<1>8. ASSUME NEW r \in Resources, RegisterMonitor(r) PROVE StructInv'
  BY <1>8 DEF RegisterMonitor, Turn, Toit, Goes, TaskStates
<1>9. ASSUME NEW r \in Resources, CheckTime(r) PROVE StructInv'
  BY <1>9 DEF CheckTime, Turn, Toit, Goes, TaskStates, memory, messages
<1>10. ASSUME NEW r \in Resources, CheckState(r) PROVE StructInv'
  BY <1>10 DEF CheckState, Turn, Toit, Goes, TaskStates, memory, messages
<1>11. ASSUME NEW r \in Resources, ArmTimer(r) PROVE StructInv'
  BY <1>11 DEF ArmTimer, Turn, Toit, Goes, TaskStates, memory, messages
<1>12. ASSUME NEW r \in Resources, release_timer_(r) PROVE StructInv'
  BY <1>12 DEF release_timer_, Turn, Toit, Goes, TaskStates
<1>13. ASSUME NEW r \in Resources, DeleteResource(r) PROVE StructInv'
  BY <1>13, NoneIsNoResource DEF DeleteResource, Goes, TaskStates
<1>14. ASSUME NEW r \in Resources, tear_down(r) PROVE StructInv'
  BY <1>14, NoneIsNoResource DEF tear_down, UnregisterFromSource
<1>15. CASE ReceiveMessage
  BY <1>15 DEF ReceiveMessage, Toit, memory, messages
<1>16. CASE remove_first_message
  BY <1>16 DEF remove_first_message, memory
<1>17. CASE notify_
  BY <1>17 DEF notify_, memory, messages, TaskStates
<1>18. CASE Terminate
  BY <1>18 DEF Terminate, memory, messages, TaskStates
<1>19. CASE Drain
  BY <1>19 DEF Drain, process, memory
<1>20. CASE DeleteProcess
  BY <1>20, NoneIsNoResource DEF DeleteProcess, memory, messages
<1>21. CASE ThreadWakes \/ ThreadWaits \/ Tick
  BY <1>21 DEF ThreadWakes, ThreadWaits, Tick, process, memory, messages
<1>22. CASE ThreadDispatches
  <2>1. Head(timers).timer \in Resources
    BY <1>22, HeadIsTimer DEF ThreadDispatches, Resources
  <2> QED
    BY <1>22, <2>1, StoppedQueue DEF ThreadDispatches, dispatch, process, memory
<1> QED
  BY <1>1, <1>2, <1>3, <1>4, <1>5, <1>6, <1>7, <1>8, <1>9, <1>10, <1>11, <1>12, <1>13, <1>14,
     <1>15, <1>16, <1>17, <1>18, <1>19, <1>20, <1>21, <1>22
     DEF Next, Step, Handling, Ending, TimerThread

(***************************************************************************)
(* The list of timers.                                                     *)
(***************************************************************************)

\* Each timer once, in the order of the timeouts.
Sorted(list) ==
  \A i, j \in 1..Len(list) : i < j =>
    list[i].timer # list[j].timer /\ list[i].timeout <= list[j].timeout

\* unlink removes the timer, and the first timeout can only become later.
LEMMA WithoutFacts ==
  ASSUME timers \in Seq(TimerEntry), Sorted(timers), NEW r
  PROVE  /\ Without(r) \in Seq(TimerEntry) /\ Sorted(Without(r))
         /\ \A i \in 1..Len(Without(r)) :
              /\ Without(r)[i].timer # r
              /\ \E k \in 1..Len(timers) : Without(r)[i] = timers[k]
         /\ Without(r) # <<>> => /\ timers # <<>>
                                 /\ Head(timers).timeout <= Head(Without(r)).timeout
         /\ timers # <<>> /\ Head(timers).timer # r =>
              Without(r) # <<>> /\ Head(Without(r)) = Head(timers)
<1>1. CASE Linked(r) = {}
  <2>1. Without(r) = timers
    BY <1>1 DEF Without
  <2>2. \A i \in 1..Len(timers) : timers[i].timer # r /\ timers[i] \in TimerEntry
    BY <1>1 DEF Linked
  <2>3. timers # <<>> => Head(timers) \in TimerEntry
    OBVIOUS
  <2>4. timers # <<>> => Head(timers).timeout <= Head(timers).timeout
    BY <2>3 DEF TimerEntry
  <2> QED
    BY <2>1, <2>2, <2>4
<1>2. CASE Linked(r) # {}
  <2>1. PICK k \in 1..Len(timers) : Without(r) = Unlinked(k) /\ timers[k].timer = r
    <3> DEFINE c == CHOOSE i \in Linked(r) : TRUE
    <3>1. c \in Linked(r) /\ Without(r) = Unlinked(c)
      BY <1>2 DEF Without
    <3> HIDE DEF c
    <3> QED
      BY <3>1 DEF Linked
  <2> DEFINE w == Without(r)
  <2>2. /\ w \in Seq(TimerEntry) /\ Len(w) = Len(timers) - 1
        /\ \A i \in 1..Len(w) : w[i] = timers[IF i < k THEN i ELSE i + 1]
    <3> DEFINE a == SubSeq(timers, 1, k - 1)
               b == SubSeq(timers, k + 1, Len(timers))
    <3>1. /\ a \in Seq(TimerEntry) /\ Len(a) = k - 1
          /\ \A i \in 1..(k - 1) : a[i] = timers[i]
      OBVIOUS
    <3>2. /\ b \in Seq(TimerEntry) /\ Len(b) = Len(timers) - k
          /\ \A i \in 1..(Len(timers) - k) : b[i] = timers[k + i]
      OBVIOUS
    <3>3. w = a \o b
      BY <2>1 DEF Unlinked
    <3> HIDE DEF a, b, w
    <3>4. w \in Seq(TimerEntry) /\ Len(w) = Len(timers) - 1
      BY <3>1, <3>2, <3>3
    <3>5. ASSUME NEW i \in 1..Len(w) PROVE w[i] = timers[IF i < k THEN i ELSE i + 1]
      <4>1. CASE i < k
        BY <4>1, <3>1, <3>2, <3>3, <3>4
      <4>2. CASE ~(i < k)
        <5>1. w[i] = b[i - (k - 1)]
          BY <4>2, <3>1, <3>2, <3>3, <3>4
        <5>2. i - (k - 1) \in 1..(Len(timers) - k)
          BY <4>2, <3>4
        <5>3. b[i - (k - 1)] = timers[k + (i - (k - 1))]
          BY <5>2, <3>2
        <5>4. k + (i - (k - 1)) = i + 1
          OBVIOUS
        <5> QED
          BY <4>2, <5>1, <5>3, <5>4
      <4> QED
        BY <4>1, <4>2
    <3> QED
      BY <3>4, <3>5
  <2> HIDE DEF w
  <2>3. \A i \in 1..Len(w) : (IF i < k THEN i ELSE i + 1) \in (1..Len(timers)) \ {k}
    BY <2>2
  <2>4. \A i \in 1..Len(timers) : i # k => timers[i].timer # r
    BY <2>1 DEF Sorted
  <2>5. \A i \in 1..Len(w) : w[i].timer # r /\ \E j \in 1..Len(timers) : w[i] = timers[j]
    BY <2>2, <2>3, <2>4
  <2>6. Sorted(w)
    <3> SUFFICES ASSUME NEW i \in 1..Len(w), NEW j \in 1..Len(w), i < j
                 PROVE  w[i].timer # w[j].timer /\ w[i].timeout <= w[j].timeout
      BY DEF Sorted
    <3> DEFINE x == IF i < k THEN i ELSE i + 1
               y == IF j < k THEN j ELSE j + 1
    <3>1. x \in 1..Len(timers) /\ y \in 1..Len(timers) /\ x < y
      BY <2>2
    <3>2. w[i] = timers[x] /\ w[j] = timers[y]
      BY <2>2
    <3> HIDE DEF x, y
    <3> QED
      BY <3>1, <3>2 DEF Sorted
  <2>7. w # <<>> => timers # <<>> /\ Head(timers).timeout <= Head(w).timeout
    <3> HAVE w # <<>>
    <3>1. Len(w) >= 1 /\ Head(w) = w[1] /\ Head(timers) = timers[1] /\ timers # <<>> /\ Len(timers) >= 2
      BY <2>2
    <3>2. Head(w) = timers[1] \/ Head(w) = timers[2]
      BY <2>2, <3>1
    <3>3. timers[1].timeout <= timers[2].timeout /\ timers[1].timeout <= timers[1].timeout
      <4>1. timers[1] \in TimerEntry
        BY <3>1
      <4>2. timers[1].timeout \in Int
        BY <4>1 DEF TimerEntry
      <4> QED
        BY <3>1, <4>2 DEF Sorted
    <3> QED
      BY <3>1, <3>2, <3>3
  <2>8. Head(timers).timer # r => w # <<>> /\ Head(w) = Head(timers)
    <3> HAVE Head(timers).timer # r
    <3>1. k > 1
      BY <2>1
    <3> QED
      BY <2>2, <3>1
  <2> QED
    BY <2>2, <2>5, <2>6, <2>7, <2>8 DEF w
<1> QED
  BY <1>1, <1>2

\* A set of numbers has a least one.
LEMMA LeastExists ==
  ASSUME NEW T \in SUBSET Nat, T # {}
  PROVE  \E k \in T : \A y \in T : ~(y < k)
<1> DEFINE R == OpToRel(<, Nat)
<1>1. IsWellFoundedOn(R, Nat)
  BY NatLessThanWellFounded
<1>2. \A y, k \in Nat : y < k => <<y, k>> \in R
  BY DEF OpToRel
<1> HIDE DEF R
<1>3. PICK k \in T : \A y \in T : ~(<<y, k>> \in R)
  BY <1>1, WFMin
<1> QED
  BY <1>2, <1>3

\* insert_before keeps the order; the new timer or the old first one comes first.
LEMMA InsertedFacts ==
  ASSUME NEW list \in Seq(TimerEntry), Sorted(list), NEW x \in TimerEntry,
         \A i \in 1..Len(list) : list[i].timer # x.timer
  PROVE  /\ Inserted(x, list) \in Seq(TimerEntry) /\ Sorted(Inserted(x, list))
         /\ \A i \in 1..Len(Inserted(x, list)) :
              \/ Inserted(x, list)[i] = x
              \/ \E k \in 1..Len(list) : Inserted(x, list)[i] = list[k]
         /\ Inserted(x, list) # <<>>
         /\ \/ Head(Inserted(x, list)) = x
            \/ list # <<>> /\ Head(Inserted(x, list)) = Head(list)
<1> DEFINE Place(k) == /\ \A i \in 1..k : list[i].timeout <= x.timeout
                       /\ k = Len(list) \/ x.timeout < list[k + 1].timeout
           n == CHOOSE k \in 0..Len(list) : Place(k)
<1>1. x.timeout \in Int /\ \A i \in 1..Len(list) : list[i] \in TimerEntry /\ list[i].timeout \in Int
  <2>1. \A i \in 1..Len(list) : list[i] \in TimerEntry
    OBVIOUS
  <2> QED
    BY <2>1 DEF TimerEntry
<1>2. \E k \in 0..Len(list) : Place(k)
  <2> DEFINE T == {i \in 1..Len(list) : x.timeout < list[i].timeout}
  <2>1. CASE T = {}
    <3>1. Place(Len(list))
      BY <1>1, <2>1
    <3> QED
      BY <3>1
  <2>2. CASE T # {}
    <3>1. PICK k \in T : \A y \in T : ~(y < k)
      <4>1. T \in SUBSET Nat
        OBVIOUS
      <4> HIDE DEF T
      <4> QED
        BY <2>2, <4>1, LeastExists
    <3>2. k - 1 \in 0..Len(list) /\ Place(k - 1)
      BY <1>1, <3>1
    <3> QED
      BY <3>2
  <2> QED
    BY <2>1, <2>2
<1>3. n \in 0..Len(list) /\ Place(n)
  <2> HIDE DEF Place
  <2> QED
    BY <1>2
<1> DEFINE s == Inserted(x, list)
           a == SubSeq(list, 1, n)
           b == SubSeq(list, n + 1, Len(list))
<1>4. s = (a \o <<x>>) \o b
  BY DEF Inserted
<1>5. /\ n \in 0..Len(list)
      /\ \A i \in 1..n : list[i].timeout <= x.timeout
      /\ n = Len(list) \/ x.timeout < list[n + 1].timeout
  BY <1>3
<1> HIDE DEF n, s
<1>6. a \in Seq(TimerEntry) /\ Len(a) = n /\ \A i \in 1..n : a[i] = list[i]
  BY <1>5
<1>7. /\ b \in Seq(TimerEntry) /\ Len(b) = Len(list) - n
      /\ \A i \in 1..(Len(list) - n) : b[i] = list[n + i]
  BY <1>5
<1> HIDE DEF a, b
<1>8. /\ s \in Seq(TimerEntry) /\ Len(s) = Len(list) + 1
  BY <1>4, <1>5, <1>6, <1>7
<1>9. /\ \A i \in 1..n : s[i] = list[i]
      /\ s[n + 1] = x
      /\ \A i \in (n + 2)..Len(s) : s[i] = list[i - 1]
  <2> DEFINE ax == a \o <<x>>
  <2>1. ax \in Seq(TimerEntry) /\ Len(ax) = n + 1 /\ ax[n + 1] = x /\ \A i \in 1..n : ax[i] = list[i]
    BY <1>5, <1>6
  <2>2. s = ax \o b
    BY <1>4
  <2> HIDE DEF ax
  <2>3. \A i \in 1..(n + 1) : s[i] = ax[i]
    BY <2>1, <2>2, <1>5, <1>7
  <2>4. ASSUME NEW i \in (n + 2)..Len(s) PROVE s[i] = list[i - 1]
    <3>1. s[i] = b[i - (n + 1)]
      BY <2>1, <2>2, <1>5, <1>7, <1>8
    <3>2. i - (n + 1) \in 1..(Len(list) - n)
      BY <1>5, <1>8
    <3>3. b[i - (n + 1)] = list[n + (i - (n + 1))]
      BY <3>2, <1>7
    <3>4. n + (i - (n + 1)) = i - 1
      BY <1>5
    <3> QED
      BY <3>1, <3>3, <3>4
  <2> QED
    BY <2>1, <2>3, <2>4, <1>5
<1>10. \A i \in (n + 1)..Len(list) : x.timeout <= list[i].timeout
  <2> TAKE i \in (n + 1)..Len(list)
  <2>1. n + 1 \in 1..Len(list) /\ i \in 1..Len(list) /\ x.timeout < list[n + 1].timeout
    BY <1>5
  <2>2. CASE i = n + 1
    BY <2>1, <2>2, <1>1
  <2>3. CASE i > n + 1
    <3>1. list[n + 1].timeout <= list[i].timeout
      BY <2>1, <2>3, <1>5 DEF Sorted
    <3> QED
      BY <2>1, <3>1, <1>1
  <2> QED
    BY <2>2, <2>3, <1>5
<1>11. Sorted(s)
  <2> SUFFICES ASSUME NEW i \in 1..Len(s), NEW j \in 1..Len(s), i < j
               PROVE  s[i].timer # s[j].timer /\ s[i].timeout <= s[j].timeout
    BY DEF Sorted
  <2>1. CASE i = n + 1
    <3>1. s[i] = x /\ s[j] = list[j - 1] /\ j - 1 \in (n + 1)..Len(list) /\ j - 1 \in 1..Len(list)
      BY <2>1, <1>5, <1>8, <1>9
    <3> QED
      BY <3>1, <1>10
  <2>2. CASE j = n + 1
    <3>1. s[j] = x /\ s[i] = list[i] /\ i \in 1..n /\ i \in 1..Len(list)
      BY <2>2, <1>5, <1>8, <1>9
    <3> QED
      BY <3>1, <1>5
  <2>3. CASE i # n + 1 /\ j # n + 1
    <3> DEFINE u == IF i < n + 1 THEN i ELSE i - 1
               v == IF j < n + 1 THEN j ELSE j - 1
    <3>1. /\ u \in 1..Len(list) /\ v \in 1..Len(list) /\ u < v
      BY <2>3, <1>5, <1>8
    <3>2. s[i] = list[u] /\ s[j] = list[v]
      BY <2>3, <1>5, <1>8, <1>9
    <3> HIDE DEF u, v
    <3> QED
      BY <3>1, <3>2 DEF Sorted
  <2> QED
    BY <2>1, <2>2, <2>3
<1>12. \A i \in 1..Len(s) : s[i] = x \/ \E k \in 1..Len(list) : s[i] = list[k]
  <2> TAKE i \in 1..Len(s)
  <2>1. CASE i <= n
    BY <2>1, <1>5, <1>9
  <2>2. CASE i = n + 1
    BY <2>2, <1>9
  <2>3. CASE i > n + 1
    <3>1. s[i] = list[i - 1] /\ i - 1 \in 1..Len(list)
      BY <2>3, <1>5, <1>8, <1>9
    <3> QED
      BY <3>1
  <2> QED
    BY <2>1, <2>2, <2>3, <1>5
<1>13. s # <<>> /\ Head(s) = s[1]
  BY <1>8
<1>14. Head(s) = x \/ (list # <<>> /\ Head(s) = Head(list))
  BY <1>5, <1>9, <1>13
<1> QED
  BY <1>8, <1>11, <1>12, <1>13, <1>14 DEF s

\* The timer thread: what it keeps in order, and TimersExist and ThreadWakesInTime.
TimerInv ==
  /\ timers \in Seq(TimerEntry) /\ Sorted(timers)
  /\ \A i \in 1..Len(timers) : timers[i].timer \in source
  /\ wakeup \in [Timers -> Int] /\ now \in Int
  /\ thread \in [at : {"waiting", "running"}, time : Int, ago : Int, until : Int]
  /\ signalled \in BOOLEAN
  /\ ThreadWakesInTime

LEMMA TimerInit == Init => TimerInv
<1> SUFFICES ASSUME Init PROVE TimerInv
  OBVIOUS
<1>1. Forever \in Int
  BY ConstantsAssumption DEF Forever
<1>2. thread \in [at : {"waiting", "running"}, time : Int, ago : Int, until : Int]
  BY <1>1 DEF Init, Waiting
<1>3. timers = <<>>
  BY DEF Init
<1>4. timers \in Seq(TimerEntry) /\ Len(timers) = 0
  BY <1>3
<1>5. Sorted(timers)
  BY <1>4 DEF Sorted
<1>6. wakeup \in [Timers -> Int] /\ now \in Int /\ signalled \in BOOLEAN
  <2>1. wakeup = [r \in Timers |-> 0] /\ now = 0 /\ signalled = FALSE
    BY Zenon DEF Init
  <2>2. signalled \in BOOLEAN
    BY <2>1, Zenon
  <2>3. now \in Int
    BY <2>1
  <2>4. wakeup \in [Timers -> Int]
    BY <2>1
  <2> QED
    BY <2>2, <2>3, <2>4
<1>7. ThreadWakesInTime
  BY <1>3, Zenon DEF ThreadWakesInTime
<1>8. \A i \in 1..Len(timers) : timers[i].timer \in source
  BY <1>4
<1> QED
  BY <1>2, <1>4, <1>5, <1>6, <1>7, <1>8 DEF TimerInv

\* A step that leaves the clock and the list alone and takes no resource away from
\* the source.
LEMMA TimersKept ==
  ASSUME TimerInv, UNCHANGED clock, source \subseteq source', wakeup' \in [Timers -> Int]
  PROVE  TimerInv'
BY DEF TimerInv, clock, Sorted, ThreadWakesInTime

\* arm: the thread is signalled when the first timeout becomes earlier.
LEMMA ArmKeepsTimers ==
  ASSUME TimerInv, NEW r \in Timers, r \in source, source' = source, wakeup' = wakeup,
         arm(r, wakeup[r])
  PROVE  TimerInv'
<1> DEFINE t == wakeup[r]
           x == [timer |-> r, timeout |-> t]
           w == Without(r)
           s == Inserted(x, w)
<1>1. x \in TimerEntry /\ t \in Int
  BY DEF TimerInv, TimerEntry
<1>2. CASE UNCHANGED clock
  BY <1>2, TimersKept DEF TimerInv
<1>3. CASE /\ timers' = s /\ UNCHANGED <<now, thread>>
           /\ signalled' = (signalled \/ t < (IF timers # <<>> THEN Head(timers).timeout ELSE t + 1))
  <2>1. timers \in Seq(TimerEntry) /\ Sorted(timers)
    BY DEF TimerInv
  <2>2. /\ w \in Seq(TimerEntry) /\ Sorted(w)
        /\ \A i \in 1..Len(w) : w[i].timer # r /\ \E k \in 1..Len(timers) : w[i] = timers[k]
        /\ w # <<>> => timers # <<>> /\ Head(timers).timeout <= Head(w).timeout
    BY <2>1, WithoutFacts
  <2>3. x.timer = r /\ x.timeout = t
    OBVIOUS
  <2> HIDE DEF x, w, t
  <2>4. /\ s \in Seq(TimerEntry) /\ Sorted(s)
        /\ \A i \in 1..Len(s) : s[i] = x \/ \E k \in 1..Len(w) : s[i] = w[k]
        /\ s # <<>>
        /\ Head(s) = x \/ (w # <<>> /\ Head(s) = Head(w))
    BY <1>1, <2>2, <2>3, InsertedFacts
  <2> HIDE DEF s
  <2>5. \A i \in 1..Len(s) : s[i].timer \in source
    <3> TAKE i \in 1..Len(s)
    <3>1. CASE s[i] = x
      BY <3>1, <2>3
    <3>2. CASE \E k \in 1..Len(w) : s[i] = w[k]
      BY <3>2, <2>2 DEF TimerInv
    <3> QED
      BY <3>1, <3>2, <2>4
  <2>6. ThreadWakesInTime'
    <3> SUFFICES ASSUME thread.at = "waiting", ~signalled'
                 PROVE  thread.until <= Head(s).timeout + thread.ago
      BY <1>3, <2>4 DEF ThreadWakesInTime
    <3>0. ~(t < (IF timers # <<>> THEN Head(timers).timeout ELSE t + 1)) /\ ~signalled
      BY <1>3
    <3>1. timers # <<>> /\ ~(t < Head(timers).timeout) /\ ~signalled
      BY <1>1, <3>0
    <3>2. thread.until <= Head(timers).timeout + thread.ago
      BY <3>1 DEF TimerInv, ThreadWakesInTime
    <3>3. thread.until \in Int /\ thread.ago \in Int
      BY DEF TimerInv
    <3>4. Head(timers).timeout \in Int
      BY <3>1, <2>1, HeadIsTimer
    <3>5. Head(s).timeout \in Int
      <4>1. Head(s) \in TimerEntry
        BY <2>4
      <4> QED
        BY <4>1 DEF TimerEntry
    <3>6. Head(timers).timeout <= Head(s).timeout
      BY <1>1, <2>2, <2>3, <2>4, <3>1, <3>4
    <3> QED
      BY <3>2, <3>3, <3>4, <3>5, <3>6
  <2>7. signalled' \in BOOLEAN
    BY <1>3, <1>1 DEF TimerInv
  <2> QED
    BY <1>3, <2>4, <2>5, <2>6, <2>7 DEF TimerInv, Sorted
<1> QED
  BY <1>2, <1>3 DEF arm

\* unregister_resource takes a timer off the list.
LEMMA UnregisterKeepsTimers ==
  ASSUME TimerInv, NEW r \in Resources, UnregisterFromSource(r), wakeup' = wakeup
  PROVE  TimerInv'
<1>1. source' = source \ {r}
  BY DEF UnregisterFromSource
<1>2. CASE r \in Timers
  <2> DEFINE w == Without(r)
  <2>1. /\ timers' = w /\ UNCHANGED <<now, thread>>
        /\ signalled' = (signalled \/ (timers # <<>> /\ Head(timers).timer = r))
    BY <1>2 DEF UnregisterFromSource, Unlinks
  <2>2. /\ w \in Seq(TimerEntry) /\ Sorted(w)
        /\ \A i \in 1..Len(w) : w[i].timer # r /\ \E k \in 1..Len(timers) : w[i] = timers[k]
        /\ w # <<>> => timers # <<>>
        /\ timers # <<>> /\ Head(timers).timer # r => Head(w) = Head(timers)
    BY WithoutFacts DEF TimerInv
  <2> HIDE DEF w
  <2>3. \A i \in 1..Len(w) : w[i].timer \in source'
    BY <1>1, <2>2 DEF TimerInv
  <2>4. ThreadWakesInTime'
    BY <2>1, <2>2 DEF TimerInv, ThreadWakesInTime
  <2>5. signalled' \in BOOLEAN
    BY <2>1 DEF TimerInv
  <2> QED
    BY <2>1, <2>2, <2>3, <2>4, <2>5 DEF TimerInv, Sorted
<1>3. CASE r \notin Timers
  <2>1. UNCHANGED clock
    BY <1>3 DEF UnregisterFromSource
  <2>2. \A i \in 1..Len(timers) : timers[i].timer \in source'
    <3> TAKE i \in 1..Len(timers)
    <3>1. timers[i] \in TimerEntry
      BY DEF TimerInv
    <3>2. timers[i].timer \in Timers
      BY <3>1 DEF TimerEntry
    <3> QED
      BY <1>1, <1>3, <3>2 DEF TimerInv
  <2> QED
    BY <2>1, <2>2 DEF TimerInv, clock, Sorted, ThreadWakesInTime
<1> QED
  BY <1>2, <1>3

\* The steps of the timer thread.
LEMMA ThreadKeepsTimers ==
  ASSUME TimerInv, TimerThread \/ Tick
  PROVE  TimerInv'
<1>1. source' = source /\ wakeup' = wakeup
  BY DEF TimerThread, ThreadWakes, ThreadDispatches, ThreadWaits, Tick, process, memory
<1>2. CASE ThreadWakes
  <2>1. /\ UNCHANGED <<now, timers>> /\ signalled' = FALSE
        /\ thread' = [at |-> "running", time |-> now, ago |-> 0, until |-> 0]
    BY <1>2 DEF ThreadWakes, Running
  <2>2. /\ thread' \in [at : {"waiting", "running"}, time : Int, ago : Int, until : Int]
        /\ ThreadWakesInTime'
    BY <2>1 DEF TimerInv, ThreadWakesInTime
  <2> QED
    BY <1>1, <2>1, <2>2 DEF TimerInv, Sorted
<1>3. CASE ThreadDispatches
  <2>1. /\ timers # <<>> /\ timers' = Tail(timers) /\ UNCHANGED <<now, thread, signalled>>
        /\ thread.at = "running"
    BY <1>3 DEF ThreadDispatches
  <2>2. /\ timers' \in Seq(TimerEntry) /\ Len(timers') = Len(timers) - 1 /\ Len(timers) \in Nat
        /\ \A i \in 1..Len(timers') : timers'[i] = timers[i + 1]
    BY <2>1 DEF TimerInv
  <2>3. \A i \in 1..Len(timers') : i + 1 \in 1..Len(timers)
    BY <2>2
  <2>4. Sorted(timers')
    <3> SUFFICES ASSUME NEW i \in 1..Len(timers'), NEW j \in 1..Len(timers'), i < j
                 PROVE  timers'[i].timer # timers'[j].timer /\ timers'[i].timeout <= timers'[j].timeout
      BY DEF Sorted
    <3>1. i + 1 < j + 1
      BY <2>2
    <3> QED
      BY <2>2, <2>3, <3>1 DEF TimerInv, Sorted
  <2>5. \A i \in 1..Len(timers') : timers'[i].timer \in source'
    BY <1>1, <2>2, <2>3 DEF TimerInv
  <2> QED
    BY <1>1, <2>1, <2>2, <2>4, <2>5 DEF TimerInv, Sorted, ThreadWakesInTime
<1>4. CASE ThreadWaits
  <2> DEFINE u == IF timers = <<>> THEN Forever ELSE now + (Head(timers).timeout - thread.time)
  <2>1. /\ UNCHANGED <<now, timers, signalled>>
        /\ thread' = [at |-> "waiting", time |-> 0, ago |-> now - thread.time, until |-> u]
    BY <1>4 DEF ThreadWaits, Waiting
  <2>2. thread.time \in Int /\ now \in Int /\ Forever \in Int
    BY ConstantsAssumption DEF TimerInv, Forever
  <2>3. timers # <<>> => Head(timers).timeout \in Int
    BY HeadIsTimer DEF TimerInv
  <2>4. u \in Int /\ (timers # <<>> => u <= Head(timers).timeout + (now - thread.time))
    BY <2>2, <2>3
  <2> HIDE DEF u
  <2>5. thread' \in [at : {"waiting", "running"}, time : Int, ago : Int, until : Int]
    BY <2>1, <2>2, <2>4
  <2>6. ThreadWakesInTime'
    BY <2>1, <2>4 DEF ThreadWakesInTime
  <2> QED
    BY <1>1, <2>1, <2>5, <2>6 DEF TimerInv, Sorted
<1>5. CASE Tick
  BY <1>1, <1>5 DEF Tick, TimerInv, Sorted, ThreadWakesInTime
<1> QED
  BY <1>2, <1>3, <1>4, <1>5 DEF TimerThread

LEMMA TimerStep ==
  ASSUME StructInv, TimerInv, [Next]_vars
  PROVE  TimerInv'
<1>0. wakeup \in [Timers -> Int] /\ \A w \in 1..MaxTime : w \in Int
  BY ConstantsAssumption DEF TimerInv
<1>1. CASE UNCHANGED vars
  BY <1>0, <1>1, TimersKept DEF vars, process, memory, clock
<1>2. ASSUME NEW r \in Resources, Event(r) \/ Cancel(r) \/ dispose(r) \/ RegisterMonitor(r)
                                  \/ CheckTime(r) \/ CheckState(r) \/ DeleteResource(r)
      PROVE  TimerInv'
  <2>1. UNCHANGED clock /\ source' = source /\ wakeup' = wakeup
    BY <1>2 DEF Event, Cancel, dispose, RegisterMonitor, CheckTime, CheckState, DeleteResource,
       process, memory
  <2> QED
    BY <1>0, <2>1, TimersKept
<1>3. ASSUME NEW r \in Resources, Open(r) PROVE TimerInv'
  <2>1. UNCHANGED clock /\ source \subseteq source' /\ wakeup' = wakeup
    BY <1>3 DEF Open, register_resource
  <2> QED
    BY <1>0, <2>1, TimersKept
<1>4. ASSUME NEW r \in Timers, NEW w \in 1..MaxTime, sleep_until_(r, w) PROVE TimerInv'
  <2>1. UNCHANGED clock /\ source \subseteq source' /\ wakeup' = [wakeup EXCEPT ![r] = w]
    BY <1>4 DEF sleep_until_, register_resource, memory
  <2>2. wakeup' \in [Timers -> Int]
    BY <1>0, <2>1
  <2> QED
    BY <2>1, <2>2, TimersKept
<1>5. ASSUME NEW r \in Resources, release_timer_(r) PROVE TimerInv'
  <2>1. UNCHANGED clock /\ source' = source /\ wakeup' = [wakeup EXCEPT ![r] = 0] /\ r \in Timers
    BY <1>5 DEF release_timer_, Turn, StructInv
  <2>2. wakeup' \in [Timers -> Int]
    BY <1>0, <2>1
  <2> QED
    BY <2>1, <2>2, TimersKept
<1>6. ASSUME NEW r \in Resources, ArmTimer(r) PROVE TimerInv'
  <2>1. r \in Timers /\ r \in source
    BY <1>6, NoneIsNoResource DEF ArmTimer, Turn, Toit, StructInv
  <2>2. source' = source /\ wakeup' = wakeup /\ arm(r, wakeup[r])
    BY <1>6 DEF ArmTimer, memory
  <2> QED
    BY <2>1, <2>2, ArmKeepsTimers
<1>7. ASSUME NEW r \in Resources, unregister_resource(r) \/ tear_down(r) PROVE TimerInv'
  <2>1. UnregisterFromSource(r) /\ wakeup' = wakeup
    BY <1>7 DEF unregister_resource, tear_down
  <2> QED
    BY <2>1, UnregisterKeepsTimers
<1>8. CASE Handling \/ Ending
  <2>1. UNCHANGED clock /\ source' = source /\ wakeup' = wakeup
    BY <1>8 DEF Handling, Ending, ReceiveMessage, remove_first_message, notify_, Drain, DeleteProcess,
       process, memory
  <2> QED
    BY <1>0, <2>1, TimersKept
<1>9. CASE Terminate
  <2>1. UNCHANGED clock /\ source' = source /\ wakeup' \in [Timers -> Int]
    BY <1>9 DEF Terminate, memory
  <2> QED
    BY <2>1, TimersKept
<1>10. CASE TimerThread \/ Tick
  BY <1>10, ThreadKeepsTimers
<1> QED
  BY <1>1, <1>2, <1>3, <1>4, <1>5, <1>6, <1>7, <1>8, <1>9, <1>10 DEF Next, Step

(***************************************************************************)
(* Events.                                                                 *)
(***************************************************************************)

\* The messages fit, the notifiers of ResourceStates point to them, and the object
\* of a message that is received but not removed is that of the first message.
EventInv ==
  /\ Fit(msg, queue, notifier)
  /\ rstate \in [Resources -> {0, 1}]
  /\ object \in [Resources -> {Sleeper, None} \cup Others]
  /\ removed \in BOOLEAN
  /\ \A r \in Resources : notifier[r] # None => r \in exists
  /\ \A r \in Others : notifier[r] # None => object[r] = r
  /\ (received # None /\ ~removed) =>
       queue # <<>> /\ \A r \in Others : msg[Head(queue)].of = r => received = r
  /\ NoLostEvent

LEMMA EventInit == Init => EventInv
<1> SUFFICES ASSUME Init PROVE EventInv
  OBVIOUS
<1>1. queue = <<>> /\ msg = [m \in Messages |-> None] /\ notifier = [r \in Resources |-> None]
  BY DEF Init
<1>2. queue \in Seq(Messages) /\ Len(queue) = 0
  BY <1>1
<1>3. Fit(msg, queue, notifier)
  BY <1>1, <1>2 DEF Fit
<1> QED
  BY <1>1, <1>3 DEF Init, EventInv, NoLostEvent, Resources

\* A step that neither queues nor removes messages, and sets no state.
LEMMA EventsKept ==
  ASSUME EventInv, UNCHANGED <<msg, queue, notifier, object, received, removed>>,
         proc' = "running" => proc = "running",
         exists \subseteq exists',
         rstate' \in [Resources -> {0, 1}],
         \A r \in Resources : rstate'[r] # 0 => rstate[r] # 0
  PROVE  EventInv'
BY DEF EventInv, NoLostEvent, Resources

\* The first message and its notifier stay as they are while the queue grows.
LEMMA FirstStays ==
  ASSUME EventInv, Grows(msg, msg'), SameHead(queue, queue'), UNCHANGED <<received, removed>>,
         received # None, ~removed
  PROVE  queue' # <<>> /\ \A r \in Others : msg'[Head(queue')].of = r => received' = r
<1>1. queue # <<>> /\ \A r \in Others : msg[Head(queue)].of = r => received = r
  BY DEF EventInv
<1>2. queue \in Seq(Messages) /\ \A i \in 1..Len(queue) : msg[queue[i]] # None
  BY DEF EventInv, Fit
<1>3. Head(queue) \in Messages /\ msg[Head(queue)] # None
  BY <1>1, <1>2
<1>4. queue' # <<>> /\ Head(queue') = Head(queue)
  BY <1>1 DEF SameHead
<1> QED
  BY <1>1, <1>3, <1>4 DEF Grows

\* try_notify: the message of a resource with a new state is queued.
LEMMA NotifyKeepsEvents ==
  ASSUME EventInv, NEW r \in Resources, NEW st, NEW force \in BOOLEAN, try_notify(r, st, force),
         UNCHANGED <<proc, notifier, object, received, removed, exists>>,
         rstate' \in [Resources -> {0, 1}],
         \A z \in Resources : rstate'[z] # 0 => rstate[z] # 0 \/ (z = r /\ st # 0)
  PROVE  EventInv'
<1>1. /\ Fit(msg', queue', notifier') /\ Grows(msg, msg') /\ SameHead(queue, queue')
      /\ proc = "running" /\ st # 0 /\ notifier[r] # None => msg'[notifier[r]].queued
  BY TryNotifyKeepsFit DEF EventInv
<1>2. NoLostEvent'
  <2> SUFFICES ASSUME NEW z \in Others, proc = "running", rstate'[z] # 0, notifier[z] # None
               PROVE  msg'[notifier[z]].queued \/ received = z
    BY DEF NoLostEvent
  <2>1. z \in Resources /\ notifier[z] \in Messages /\ msg[notifier[z]] # None
    BY DEF EventInv, Fit, Resources
  <2>2. CASE z = r /\ st # 0
    BY <1>1, <2>2
  <2>3. CASE rstate[z] # 0
    BY <1>1, <2>1, <2>3 DEF EventInv, NoLostEvent, Grows
  <2> QED
    BY <2>1, <2>2, <2>3
<1>3. (received' # None /\ ~removed') =>
        queue' # <<>> /\ \A z \in Others : msg'[Head(queue')].of = z => received' = z
  BY <1>1, FirstStays
<1> QED
  BY <1>1, <1>2, <1>3 DEF EventInv

\* update_resource_monitor: an event that is already there is notified.
LEMMA UpdateKeepsEvents ==
  ASSUME EventInv, NEW r \in Resources, NEW monitor \in {Sleeper, None} \cup Others,
         r \in Others => monitor = r,
         update_resource_monitor(r, monitor), proc = "running", received = None, r \in exists,
         UNCHANGED <<proc, received, removed, exists, rstate>>
  PROVE  EventInv'
<1>1. /\ Fit(msg', queue', notifier') /\ Grows(msg, msg')
      /\ \A z \in Resources \ {r} : notifier'[z] = notifier[z]
      /\ rstate[r] # 0 => msg'[notifier'[r]].queued
  BY UpdateKeepsFit DEF EventInv
<1>2. object' = [object EXCEPT ![r] = monitor]
  BY DEF update_resource_monitor
<1>3. /\ object' \in [Resources -> {Sleeper, None} \cup Others]
      /\ \A z \in Others : notifier'[z] # None => object'[z] = z
  BY <1>1, <1>2 DEF EventInv, Resources
<1>4. NoLostEvent'
  <2> SUFFICES ASSUME NEW z \in Others, rstate[z] # 0, notifier'[z] # None
               PROVE  msg'[notifier'[z]].queued
    BY DEF NoLostEvent
  <2>1. CASE z = r
    BY <1>1, <2>1
  <2>2. CASE z # r
    <3>1. z \in Resources /\ notifier'[z] = notifier[z]
      BY <1>1, <2>2 DEF Resources
    <3>2. notifier[z] \in Messages /\ msg[notifier[z]] # None /\ msg[notifier[z]].queued
      BY <3>1, NoneIsNoResource DEF EventInv, Fit, NoLostEvent
    <3> QED
      BY <1>1, <3>1, <3>2 DEF Grows
  <2> QED
    BY <2>1, <2>2
<1> QED
  BY <1>1, <1>3, <1>4 DEF EventInv

\* ~ObjectNotifier.
LEMMA DeleteKeepsEvents ==
  ASSUME EventInv, NEW r \in Resources, DeleteNotifier(r), queue' = queue, received = None,
         exists \ {r} \subseteq exists', rstate' \in [Resources -> {0, 1}],
         \A z \in Resources : rstate'[z] # 0 => rstate[z] # 0,
         UNCHANGED <<proc, received, removed>>
  PROVE  EventInv'
<1>1. /\ Fit(msg', queue', notifier') /\ notifier'[r] = None
      /\ \A z \in Resources \ {r} : /\ notifier'[z] = notifier[z]
                                    /\ notifier[z] # None => msg'[notifier[z]] = msg[notifier[z]]
  BY DeleteKeepsFit DEF EventInv
<1>2. object' = [object EXCEPT ![r] = None]
  BY DEF DeleteNotifier
<1>3. /\ object' \in [Resources -> {Sleeper, None} \cup Others]
      /\ \A z \in Others : notifier'[z] # None => object'[z] = z
  BY <1>1, <1>2 DEF EventInv, Resources
<1>4. NoLostEvent'
  <2> SUFFICES ASSUME NEW z \in Others, proc = "running", rstate'[z] # 0, notifier'[z] # None
               PROVE  msg'[notifier'[z]].queued
    BY DEF NoLostEvent
  <2>1. z \in Resources \ {r} /\ rstate[z] # 0
    BY <1>1 DEF Resources
  <2> QED
    BY <1>1, <2>1, NoneIsNoResource DEF EventInv, NoLostEvent
<1>5. \A z \in Resources : notifier'[z] # None => z \in exists'
  BY <1>1 DEF EventInv
<1> QED
  BY <1>1, <1>3, <1>4, <1>5 DEF EventInv

\* task_receive_message, remove_first_message and notify_.
LEMMA HandlingKeepsEvents ==
  ASSUME EventInv, Handling
  PROVE  EventInv'
<1>1. CASE ReceiveMessage
  <2>1. /\ UNCHANGED <<msg, queue, notifier, object, exists, rstate, proc>> /\ removed' = FALSE
        /\ received = None /\ queue # <<>>
    BY <1>1 DEF ReceiveMessage, Toit, memory, messages
  <2>2. Head(queue) \in Messages /\ msg[Head(queue)] # None
    BY <2>1 DEF EventInv, Fit
  <2>3. ASSUME NEW r \in Others, msg[Head(queue)].of = r PROVE received' = r
    <3>1. r # None /\ r \in Resources
      BY NoneIsNoResource DEF Resources
    <3>2. notifier[r] # None
      BY <2>2, <2>3, <3>1, MessageIsNotNone DEF EventInv, Fit
    <3>3. object[r] = r
      BY <3>2 DEF EventInv
    <3> QED
      BY <1>1, <2>3, <3>1, <3>3 DEF ReceiveMessage
  <2>4. NoLostEvent'
    BY <2>1, NoneIsNoResource DEF EventInv, NoLostEvent
  <2> QED
    BY <2>1, <2>3, <2>4 DEF EventInv
<1>2. CASE remove_first_message
  <2>1. /\ UNCHANGED <<notifier, object, exists, rstate, proc, received>> /\ removed' = TRUE
        /\ RemovesFirst /\ received # None /\ ~removed
    BY <1>2 DEF remove_first_message, memory
  <2>2. queue # <<>> /\ \A r \in Others : msg[Head(queue)].of = r => received = r
    BY <2>1 DEF EventInv
  <2>3. /\ Fit(msg', queue', notifier)
        /\ \A m \in Messages : m # Head(queue) => msg'[m] = msg[m]
    BY <2>1, <2>2, RemoveKeepsFit DEF EventInv
  <2>4. NoLostEvent'
    <3> SUFFICES ASSUME NEW z \in Others, proc = "running", rstate[z] # 0, notifier[z] # None,
                        received # z
                 PROVE  msg'[notifier[z]].queued
      BY <2>1 DEF NoLostEvent
    <3>1. /\ notifier[z] \in Messages /\ msg[notifier[z]].of = z /\ msg[notifier[z]].queued
      BY DEF EventInv, Fit, NoLostEvent, Resources
    <3>2. notifier[z] # Head(queue)
      BY <2>2, <3>1
    <3> QED
      BY <2>3, <3>1, <3>2
  <2> QED
    BY <2>1, <2>3, <2>4 DEF EventInv
<1>3. CASE notify_
  <2>1. /\ UNCHANGED <<msg, queue, notifier, object, exists, proc>>
        /\ received' = None /\ removed' = FALSE
        /\ IF received \in Others THEN rstate' = [rstate EXCEPT ![received] = 0] ELSE rstate' = rstate
    BY <1>3 DEF notify_, memory, messages
  <2>2. /\ rstate' \in [Resources -> {0, 1}]
        /\ \A z \in Others : rstate'[z] # 0 => rstate[z] # 0 /\ z # received
    BY <2>1 DEF EventInv, Resources
  <2>3. NoLostEvent'
    BY <2>1, <2>2 DEF EventInv, NoLostEvent
  <2> QED
    BY <2>1, <2>2, <2>3 DEF EventInv
<1> QED
  BY <1>1, <1>2, <1>3 DEF Handling

LEMMA EventStep ==
  ASSUME StructInv, TimerInv, EventInv, [Next]_vars
  PROVE  EventInv'
<1>0. rstate \in [Resources -> {0, 1}]
  BY DEF EventInv
<1>1. CASE UNCHANGED vars
  BY <1>0, <1>1, EventsKept DEF vars, process, memory, messages
<1>2. ASSUME NEW r \in Resources, dispatch(r),
             UNCHANGED <<proc, notifier, object, received, removed, exists>>
      PROVE  EventInv'
  <2>1. rstate' = [rstate EXCEPT ![r] = 1] /\ try_notify(r, 1, FALSE)
    BY <1>2 DEF dispatch
  <2>2. /\ rstate' \in [Resources -> {0, 1}]
        /\ \A z \in Resources : rstate'[z] # 0 => rstate[z] # 0 \/ (z = r /\ 1 # 0)
    BY <1>0, <2>1
  <2> QED
    BY <1>2, <2>1, <2>2, NotifyKeepsEvents
<1>3. ASSUME NEW r \in Resources, Event(r) PROVE EventInv'
  BY <1>2, <1>3 DEF Event, process, memory
<1>4. CASE ThreadDispatches
  <2>1. Head(timers).timer \in Resources
    BY <1>4, HeadIsTimer DEF ThreadDispatches, TimerInv, Resources
  <2> QED
    BY <1>2, <1>4, <2>1 DEF ThreadDispatches, process, memory
<1>5. ASSUME NEW r \in Resources, Open(r) \/ Cancel(r) \/ CheckTime(r) \/ CheckState(r)
      PROVE  EventInv'
  <2>1. /\ UNCHANGED <<msg, queue, notifier, object, received, removed, proc, rstate>>
        /\ exists \subseteq exists'
    BY <1>5 DEF Open, Cancel, CheckTime, CheckState, register_resource, memory, messages
  <2> QED
    BY <1>0, <2>1, EventsKept
<1>6. ASSUME NEW r \in Timers, NEW w \in 1..MaxTime, sleep_until_(r, w) PROVE EventInv'
  <2>1. /\ UNCHANGED <<msg, queue, notifier, object, received, removed, proc, rstate>>
        /\ exists \subseteq exists'
    BY <1>6 DEF sleep_until_, register_resource, memory, messages
  <2> QED
    BY <1>0, <2>1, EventsKept
<1>7. ASSUME NEW r \in Resources, ArmTimer(r) PROVE EventInv'
  <2>1. UNCHANGED <<msg, queue, notifier, object, received, removed, proc, exists>>
    BY <1>7 DEF ArmTimer, memory, messages
  <2>2. rstate' = rstate \/ rstate' = [rstate EXCEPT ![r] = 0]
    BY <1>7 DEF ArmTimer, arm
  <2>3. /\ rstate' \in [Resources -> {0, 1}]
        /\ \A z \in Resources : rstate'[z] # 0 => rstate[z] # 0
    BY <1>0, <2>2
  <2> QED
    BY <2>1, <2>3, EventsKept
<1>8. ASSUME NEW r \in Resources, RegisterMonitor(r) PROVE EventInv'
  <2>1. /\ UNCHANGED <<received, removed, proc, exists, rstate>>
        /\ proc = "running" /\ received = None /\ r \in exists
    BY <1>8 DEF RegisterMonitor, Turn, Toit, StructInv
  <2>2. CASE update_resource_monitor(r, Target(r))
    <3>1. Target(r) \in {Sleeper, None} \cup Others /\ (r \in Others => Target(r) = r)
      BY ConstantsAssumption DEF Target, Resources
    <3> QED
      BY <2>1, <2>2, <3>1, UpdateKeepsEvents
  <2>3. CASE UNCHANGED <<notifier, object, messages>>
    BY <1>0, <2>1, <2>3, EventsKept DEF messages
  <2> QED
    BY <1>8, <2>2, <2>3 DEF RegisterMonitor
<1>9. ASSUME NEW r \in Resources, release_timer_(r) PROVE EventInv'
  <2>1. /\ UNCHANGED <<received, removed, proc, exists, rstate>>
        /\ proc = "running" /\ received = None /\ r \in exists /\ r \in Timers
        /\ update_resource_monitor(r, None)
    BY <1>9 DEF release_timer_, Turn, Toit, StructInv
  <2>2. r \notin Others
    BY <2>1, ConstantsAssumption
  <2> QED
    BY <2>1, <2>2, UpdateKeepsEvents
<1>10. ASSUME NEW r \in Resources, dispose(r) PROVE EventInv'
  <2>1. /\ UNCHANGED <<received, removed, proc, exists, rstate, queue>>
        /\ received = None /\ DeleteNotifier(r)
    BY <1>10 DEF dispose, Turn, Toit
  <2> QED
    BY <1>0, <2>1, DeleteKeepsEvents
<1>11. ASSUME NEW r \in Resources, DeleteResource(r) PROVE EventInv'
  <2>1. /\ UNCHANGED <<received, removed, proc, queue>> /\ exists' = exists \ {r}
        /\ DeleteNotifier(r) /\ rstate' = [rstate EXCEPT ![r] = 0] /\ closing = r
    BY <1>11 DEF DeleteResource
  <2>2. received = None
    BY <2>1, NoneIsNoResource DEF StructInv
  <2>3. /\ rstate' \in [Resources -> {0, 1}]
        /\ \A z \in Resources : rstate'[z] # 0 => rstate[z] # 0
    BY <1>0, <2>1
  <2> QED
    BY <2>1, <2>2, <2>3, DeleteKeepsEvents
<1>12. ASSUME NEW r \in Resources, unregister_resource(r) \/ tear_down(r) PROVE EventInv'
  <2>1. /\ UNCHANGED <<received, removed, proc, exists, notifier, object, rstate>>
        /\ try_notify(r, rstate[r], TRUE)
    BY <1>12 DEF unregister_resource, tear_down, UnregisterFromSource
  <2> QED
    BY <1>0, <2>1, NotifyKeepsEvents
<1>13. CASE Terminate
  <2>1. /\ UNCHANGED <<msg, queue, notifier, object, exists, rstate>>
        /\ proc' = "terminating" /\ received' = None /\ removed' = FALSE
    BY <1>13 DEF Terminate, memory, messages
  <2> QED
    BY <2>1 DEF EventInv, NoLostEvent
<1>14. CASE Drain
  <2>1. /\ UNCHANGED <<notifier, object, exists, rstate, proc, received, removed>>
        /\ RemovesFirst /\ queue # <<>> /\ proc = "terminating"
    BY <1>14 DEF Drain, process, memory
  <2>2. Fit(msg', queue', notifier)
    BY <2>1, RemoveKeepsFit DEF EventInv
  <2>3. received = None
    BY <2>1 DEF StructInv
  <2> QED
    BY <2>1, <2>2, <2>3 DEF EventInv, NoLostEvent
<1>15. CASE DeleteProcess
  <2>1. /\ UNCHANGED <<msg, queue, notifier, object, exists, rstate, received, removed>>
        /\ proc' = "deleted"
    BY <1>15 DEF DeleteProcess, memory, messages
  <2> QED
    BY <1>0, <2>1, EventsKept
<1>16. CASE ThreadWakes \/ ThreadWaits \/ Tick
  <2>1. UNCHANGED <<msg, queue, notifier, object, received, removed, proc, exists, rstate>>
    BY <1>16 DEF ThreadWakes, ThreadWaits, Tick, process, memory, messages
  <2> QED
    BY <1>0, <2>1, EventsKept
<1>17. CASE Handling
  BY <1>17, HandlingKeepsEvents
<1> QED
  BY <1>1, <1>3, <1>4, <1>5, <1>6, <1>7, <1>8, <1>9, <1>10, <1>11, <1>12, <1>13, <1>14,
     <1>15, <1>16, <1>17 DEF Next, Step, Ending, TimerThread

(***************************************************************************)
(* Theorems.                                                               *)
(***************************************************************************)

\* The queue has a message at most once, and knows where.
LEMMA LifetimeFromFit ==
  ASSUME StructInv, EventInv
  PROVE  MessageLifetime
<1>1. ASSUME NEW m \in Messages
      PROVE  LET times == Cardinality({i \in DOMAIN queue : queue[i] = m}) IN
             IF msg[m] = None
             THEN times = 0 /\ \A r \in Resources : notifier[r] # m
             ELSE /\ times = (IF msg[m].queued THEN 1 ELSE 0)
                  /\ \A r \in Resources : notifier[r] = m <=> msg[m].of = r
                  /\ msg[m].of # None \/ msg[m].queued
  <2> DEFINE places == {i \in DOMAIN queue : queue[i] = m}
  <2>1. places = {i \in 1..Len(queue) : queue[i] = m}
    BY DEF EventInv, Fit
  <2>2. (\A i \in 1..Len(queue) : queue[i] # m) => Cardinality(places) = 0
    BY <2>1, FS_EmptySet
  <2>3. (\E i \in 1..Len(queue) : queue[i] = m) => Cardinality(places) = 1
    <3> SUFFICES ASSUME NEW i \in 1..Len(queue), queue[i] = m PROVE Cardinality(places) = 1
      OBVIOUS
    <3>1. places = {i}
      BY <2>1 DEF EventInv, Fit
    <3> QED
      BY <3>1, FS_Singleton
  <2> HIDE DEF places
  <2>4. CASE msg[m] = None
    <3>1. \A i \in 1..Len(queue) : queue[i] # m
      BY <2>4 DEF EventInv, Fit
    <3>2. \A r \in Resources : notifier[r] # m
      BY <2>4, MessageIsNotNone DEF EventInv, Fit
    <3> QED
      BY <2>2, <2>4, <3>1, <3>2 DEF places
  <2>5. CASE msg[m] # None
    <3>1. msg[m].queued <=> \E i \in 1..Len(queue) : queue[i] = m
      BY <2>5 DEF EventInv, Fit
    <3>2. \A r \in Resources : notifier[r] = m <=> msg[m].of = r
      BY <2>5, MessageIsNotNone DEF EventInv, Fit
    <3>3. msg[m].of # None \/ msg[m].queued
      BY <2>5 DEF EventInv, Fit
    <3>4. Cardinality(places) = IF msg[m].queued THEN 1 ELSE 0
      BY <2>2, <2>3, <3>1
    <3> QED
      BY <2>5, <3>2, <3>3, <3>4 DEF places
  <2> QED
    BY <2>4, <2>5
<1>2. \A r \in Resources : notifier[r] # None => r \in exists
  BY DEF EventInv
<1>3. proc = "deleted" => exists = {} /\ queue = <<>>
  BY DEF StructInv
<1> QED
  BY <1>1, <1>2, <1>3 DEF MessageLifetime

\* The three invariants together are inductive.
THEOREM Inductive == Spec => [](StructInv /\ TimerInv /\ EventInv)
<1>1. Init => StructInv /\ TimerInv /\ EventInv
  BY StructInit, TimerInit, EventInit
<1>2. StructInv /\ TimerInv /\ EventInv /\ [Next]_vars => (StructInv /\ TimerInv /\ EventInv)'
  BY StructStep, TimerStep, EventStep DEF TimerInv
<1> QED
  BY <1>1, <1>2, PTL DEF Spec

\* A notify message is in memory exactly as long as its notifier or the queue needs
\* it, whatever events, closes and the end of the process do.
THEOREM MessagesLive == Spec => []MessageLifetime
<1>1. StructInv /\ EventInv => MessageLifetime
  BY LifetimeFromFit
<1> QED
  BY <1>1, Inductive, PTL

\* An event nobody has read is on its way, although try_notify queues no message
\* twice.
THEOREM EventsAreNotLost == Spec => []NoLostEvent
<1>1. EventInv => NoLostEvent
  BY DEF EventInv
<1> QED
  BY <1>1, Inductive, PTL

\* The timer thread meets only timers that are registered, in order.
THEOREM LinkedTimersExist == Spec => []TimersExist
<1>1. ASSUME TimerInv PROVE TimersExist
  <2>1. DOMAIN timers = 1..Len(timers)
    BY <1>1 DEF TimerInv
  <2>2. \A i \in 1..Len(timers) : timers[i].timer \in source
    BY <1>1 DEF TimerInv
  <2>3. Sorted(timers)
    BY <1>1 DEF TimerInv
  <2> QED
    BY <2>1, <2>2, <2>3, Zenon DEF TimersExist, Sorted
<1> QED
  BY <1>1, Inductive, PTL

\* Unless it is about to be signalled, the timer thread wakes up in time for the
\* first timer.
THEOREM ThreadIsInTime == Spec => []ThreadWakesInTime
<1>1. TimerInv => ThreadWakesInTime
  BY DEF TimerInv
<1> QED
  BY <1>1, Inductive, PTL
=============================================================================
