------------------------------ MODULE MCVisualiser ------------------------------
(***************************************************************************)
(* A gateway and one mesh node, for Visualiser.                            *)
(***************************************************************************)
EXTENDS Visualiser

TwoNodes == <<"gateway", "mesh">>
OneHop == [n \in {"mesh"} |-> "gateway"]
===============================================================================
