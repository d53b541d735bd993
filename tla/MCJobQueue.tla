------------------------------ MODULE MCJobQueue ------------------------------
(* JobQueue for TLC. *)
EXTENDS JobQueue, TLC
CONSTANTS j1, w1, w2, c1, c2
OneJob == {j1}
SingleWorker == {w1}
TwoWorkers == {w1, w2}
OneSlot == {c1}
TwoSlots == {c1, c2}
RetryOnce == [j \in Jobs |-> 1]
Sym == Permutations(TwoSlots)
===============================================================================
