---------------------------- MODULE MCEventSources ----------------------------
(* An instance of EventSources: a task that sleeps and one that waits for a    *)
(* resource.                                                                  *)
EXTENDS EventSources

CONSTANTS t1, o1, m1, m2, m3
=============================================================================
