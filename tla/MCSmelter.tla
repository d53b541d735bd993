------------------------------- MODULE MCSmelter -------------------------------
(* Smelter for TLC. *)
EXTENDS Smelter
Second == {2}
================================================================================
