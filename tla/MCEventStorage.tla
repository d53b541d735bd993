---------------------------- MODULE MCEventStorage ----------------------------
(* EventStorage for TLC. *)
EXTENDS EventStorage
CONSTANTS t1, t2
MCTasks == {t1, t2}
===============================================================================
