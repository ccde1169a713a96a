------------------------------- MODULE HopByHop -------------------------------
(***************************************************************************)
(* What the RRC uplink promises: every payload a C2 node originates is     *)
(* held by exactly one node at a time, and a node hands the oldest payload *)
(* it holds to its next hop in one indivisible step.  Acknowledgements,    *)
(* retransmissions, collisions and the TDMA windows are all below this     *)
(* level; module RrcUplink implements it (refinement mapping `Held`).      *)
(***************************************************************************)
EXTENDS Mesh

VARIABLE held      \* held[n]: the payloads node n is responsible for, oldest first

TypeOK == held \in [Nodes -> Seq(Payload)]

Init == held = [n \in Nodes |->
                  IF n \in C2 THEN [i \in 1..InitialPayloads |-> <<n, i>>]
                              ELSE << >>]

(* Responsibility for the oldest payload of n moves to the next hop of n.  *)
HandOver(n) ==
  /\ held[n] # << >>
  /\ held' = [held EXCEPT ![n] = Tail(@),
                          ![NextHop[n]] = Append(@, Head(held[n]))]

Next == \E n \in C2 : HandOver(n)

Spec == Init /\ [][Next]_held

-------------------------------------------------------------------------------
(* Every payload ever originated is in one place and only one: none is     *)
(* lost, none is duplicated, on any route.                                 *)
ExactlyOnce ==
  \A p \in Payload :
    \E n \in Nodes : \E i \in DOMAIN held[n] :
      /\ held[n][i] = p
      /\ \A m \in Nodes : \A j \in DOMAIN held[m] :
           held[m][j] = p => m = n /\ j = i

(* Payloads of one originator stay in the order they were originated in    *)
(* wherever two of them meet, so a gateway gets them in that order.        *)
FifoPerOrigin ==
  \A n \in Nodes : \A i, j \in DOMAIN held[n] :
    held[n][i][1] = held[n][j][1] /\ i < j => held[n][i][2] < held[n][j][2]
===============================================================================
