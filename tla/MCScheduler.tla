---------------------------- MODULE MCScheduler ----------------------------
(* Small instances of Scheduler for TLC: the boot process sys, programs app  *)
(* and aux, and ext, which a ProcessRunner runs.                             *)
EXTENDS Scheduler, TLC

CONSTANTS sys, app, aux, ext, t1, t2

\* The processes of one program, of the boot program and another one, and
\* every process a program of its own.
OneGroup == [y \in Procs |-> 0]
TwoGroups == [y \in Procs |-> IF y = sys THEN 0 ELSE 1]
ThreeGroups == [y \in Procs |-> CASE y = sys -> 0 [] y = aux -> 1 [] OTHER -> 2]

\* Threads are interchangeable.
ThreadSymmetry == Permutations(Threads)

\* So are app and aux, where each is a program of its own.
Symmetry == ThreadSymmetry \cup Permutations({app, aux})
=============================================================================
