-------------------------------- MODULE MCWeaver --------------------------------
(* Weaver for TLC. *)
EXTENDS Weaver
None == {}
First == {1}
Second == {2}
FirstTwo == {1, 2}

(* No event needs another; or the second changes what the first has added. *)
NoBase == [e \in Events |-> 0]
SecondOnFirst == [e \in Events |-> IF e = 2 THEN 1 ELSE 0]
===============================================================================
