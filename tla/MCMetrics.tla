------------------------------- MODULE MCMetrics -------------------------------
(***************************************************************************)
(* Two hops, b -> a -> g, for Metrics.                                     *)
(***************************************************************************)
EXTENDS Metrics

TwoHops == [n \in {"a", "b"} |-> IF n = "a" THEN "g" ELSE "a"]
===============================================================================
