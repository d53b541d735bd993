----------------------------- MODULE MCEventStore -----------------------------
(* EventStore for TLC. *)
EXTENDS EventStore
CONSTANTS t1, t2
MCTasks == {t1, t2}
===============================================================================
