---------------------------- MODULE MCBusStream ----------------------------
(* BusStream for TLC: a session that begins without a watermark, with two events *)
(* to come, and one that resumes after event 1 when event 3 is published already *)
(* and event 2 is not in the log yet.                                            *)
EXTENDS BusStream

MCStarts ==
  {[stored |-> 1, missing |-> {}, published |-> {1}, mark |-> 0],
   [stored |-> 3, missing |-> {2}, published |-> {1, 3}, mark |-> 1]}
================================================================================
