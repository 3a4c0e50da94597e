-------------------------------- MODULE Gate ---------------------------------
(***************************************************************************)
(* The class Gate of lib/monitor.toit and the monitor Signal it is made    *)
(* of.  The method "wait" is Signal.wait with the condition is_unlocked,   *)
(* the method "raise" is Signal.raise without a maximum.                   *)
(***************************************************************************)
EXTENDS Monitor

VARIABLES
  locked,      \* locked_ of the gate
  current,     \* current_ of the signal
  awaited,     \* awaited_
  my_awaited   \* the local variable awaited of a task in wait_

gateVars == <<locked, current, awaited, my_awaited>>
vars == <<monitorVars, gateVars>>

Init ==
  /\ MonitorInit
  /\ locked \in BOOLEAN
  /\ current = 0 /\ awaited = 0
  /\ my_awaited = [t \in Tasks |-> 0]

\* A round of the loop of wait_ up to its await.  The counters start over when
\* nobody seems to be waiting.
TakeNumber(t) ==
  LET reset == current = awaited
      next == IF reset THEN 1 ELSE awaited + 1
  IN /\ current' = IF reset THEN 0 ELSE current
     /\ awaited' = next
     /\ my_awaited' = [my_awaited EXCEPT ![t] = next]
     /\ UNCHANGED locked

\* Gate.enter: the condition is evaluated on entry, and after that whenever the
\* awaited number has been reached.
enter(t) ==
  \/ LockThrows(t, "wait") /\ UNCHANGED gateVars
  \/ /\ Enters(t, "wait")
     /\ \/ ~locked /\ Returns(t) /\ UNCHANGED gateVars
        \/ /\ locked /\ TakeNumber(t)
           /\ AwaitThrows(t, "wait") \/ await_(t, "wait", TRUE)
  \/ /\ pc[t] = "awaiting" /\ current < my_awaited[t]
     /\ AwaitThrows(t, "wait") \/ await_(t, "wait", FALSE)
     /\ UNCHANGED gateVars
  \/ /\ pc[t] = "awaiting" /\ current >= my_awaited[t]
     /\ \/ AwaitThrows(t, "wait") /\ UNCHANGED gateVars
        \/ Admitted(t, "wait") /\ ~locked /\ Returns(t) /\ UNCHANGED gateVars
        \/ locked /\ TakeNumber(t) /\ await_(t, "wait", TRUE)

\* Gate.unlock: the gate is open before the call of raise, which a cancellation
\* prevents.  No task of this module gives up control inside the signal, so raise
\* never has to wait for the lock.
unlock_gate(t) ==
  /\ locked /\ locked' = FALSE /\ UNCHANGED <<awaited, my_awaited>>
  /\ \/ Enters(t, "raise") /\ Returns(t) /\ current' = awaited
     \/ LockThrows(t, "raise") /\ UNCHANGED current

lock(t) ==
  /\ Current(t) /\ pc[t] = "run" /\ "raise" \in program[t]
  /\ locked' = TRUE
  /\ UNCHANGED <<monitorVars, current, awaited, my_awaited>>

Next ==
  \E t \in Tasks :
    \/ enter(t) \/ unlock_gate(t) \/ lock(t)
    \/ Common(t) /\ UNCHANGED gateVars

Spec == Init /\ [][Next]_vars

------------------------------------------------------------------------------
\* Nobody sleeps in Gate.enter while the gate is open.
OpenGateAdmits ==
  \A t \in Tasks : (pc[t] = "awaiting" /\ ~locked) => state[t] = "RUNNING"
==============================================================================
