--------------------------- MODULE MCTdmaBlueprint ---------------------------
(***************************************************************************)
(* TdmaBlueprint with three modes, every way to cut a short cycle in at most *)
(* two segments, and patterns in the shape of SimonV1Factory's next to the *)
(* ones the class rejects.                                                 *)
(***************************************************************************)
EXTENDS TdmaBlueprint

CONSTANTS up, down, rare  \* three modes, the last without a handler

AllModes == {up, down, rare}
TwoModes == {up, down}
OneMode == {up}
(* Cycles that begin in mode `up`, of the right length and of wrong ones.  *)
Lengths == 0..(CycleMs + 1)
AtMostTwoSegments ==
  {<<[mode |-> up, durationMs |-> n]>> : n \in Lengths} \cup
  {<<[mode |-> up, durationMs |-> n], [mode |-> m, durationMs |-> k]>> :
     m \in Modes, n \in Lengths, k \in Lengths}

Step(w, ms) == [state |-> w, durationMs |-> ms]
Whole == <<Step("CanSleep", 1), Step("CanListen", 1),
           Step("CanSleep", 1), Step("CanTransmit", 1)>>
C3Short == <<Step("CanSleep", 1), Step("CanListen", 2)>>
C2Short == <<Step("CanSleep", 1), Step("CanCommunicate", 2)>>
Rejected == {<<Step("CanSleep", 1), Step("CanListen", 0)>>, << >>}

Patterns == [k \in Modes \X Classes |->
  CASE k = <<up, "C3">> -> {Whole, C3Short} \cup Rejected
    [] k = <<up, "C2">> -> {C2Short, <<Step("CanSleep", 2)>>}
    [] k = <<down, "C3">> -> {Whole, C3Short}
    [] k[2] = "C3" -> {C3Short}
    [] OTHER -> {C2Short}]
===============================================================================
