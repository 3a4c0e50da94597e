----------------------------- MODULE MCMessaging -----------------------------
(***************************************************************************)
(* Instances of Messaging: a boot process that spawns another one, and one *)
(* process with an external message handler.                               *)
(***************************************************************************)
EXTENDS Messaging, TLC

CONSTANTS boot, child, runner, b1, b2, b3, b4

MCBlocks == {b1, b2, b3, b4}

\* Messages of one leaf, a list of an area to hand over and one to copy, and a
\* list of two external byte arrays or twice the same.
MCValues == {<<"inline">>, <<"ext">>, <<"ext", "copy">>, <<"ext", "ext">>, <<"bad">>}

\* What a lambda captures.
Captured == {<<"copy">>, <<"ext">>}

\* Areas are interchangeable.
Symmetry == Permutations(MCBlocks)
=============================================================================
