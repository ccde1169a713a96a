---------------------------- MODULE MCClockEvents ----------------------------
(***************************************************************************)
(* ClockEvents with two nodes and a tick longer than the shortest step of  *)
(* a pattern, so that several events of one node fall into one tick.       *)
(***************************************************************************)
EXTENDS ClockEvents

ShortAndLong == {1, 3}
OneTickAndMore == {2, 3}
===============================================================================
