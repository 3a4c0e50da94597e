----------------------------- MODULE BoundedFifo -----------------------------
(***************************************************************************)
(* What lib/monitor.toit's Channel promises: a queue of at most Capacity   *)
(* messages that are received in the order in which they were sent, each   *)
(* exactly once.                                                           *)
(***************************************************************************)
EXTENDS Naturals, Sequences

CONSTANTS Values, Capacity, None

VARIABLES
  queue,  \* the messages that have been sent and not received
  last    \* the message received last

Init == queue = <<>> /\ last = None

Send(v) ==
  /\ Len(queue) < Capacity
  /\ queue' = Append(queue, v) /\ last' = last

Receive ==
  /\ queue # <<>>
  /\ last' = Head(queue) /\ queue' = Tail(queue)

Next == Receive \/ \E v \in Values : Send(v)

Spec == Init /\ [][Next]_<<queue, last>>
==============================================================================
