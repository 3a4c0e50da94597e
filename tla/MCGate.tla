------------------------------- MODULE MCGate --------------------------------
(* An instance of Gate for TLC: two tasks that enter and two that lock and
   unlock the gate. *)
EXTENDS Gate

CONSTANTS a, b, c, d

AllMethods == {"wait", "raise"}

Entering == {[t \in {a, b, c, d} |-> IF t \in {c, d} THEN {"raise"} ELSE {"wait"}]}
==============================================================================
