----------------------------- MODULE MCProcess ------------------------------
(* Values for Process' constants.  A unit is two minutes, the sleep of     *)
(* Send; the day is shortened to 18 units, a little more than the shortest *)
(* period and a little less than the longest run.                          *)
EXTENDS Process

MCTimes ==
  [kind : {"0", "neither"}, n : {0}] \cup
  [kind : {"duration"}, n : {-1, 0, MinPeriod - 1, MinPeriod, MinPeriod + 1}] \cup
  [kind : {"clock"}, n : {0, 7, Day - 1}]
=============================================================================
