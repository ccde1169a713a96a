------------------------------ MODULE MCRrcUplink ------------------------------
(***************************************************************************)
(* Small deployments of RrcUplink, in the shape of the topology files the  *)
(* simulator loads.  A .cfg picks one and gives the sizes.                 *)
(***************************************************************************)
EXTENDS RrcUplink, TLC

CONSTANTS g, a, b, c, d  \* g is the gateway

Gateway == {g}
Symmetric(links) == links \cup {<<l[2], l[1]>> : l \in links}

(* One mesh node next to the gateway: a -> g.                              *)
LeafC2 == {a}
LeafHop == a :> g
LeafCount == a :> 1
LeafReach == Symmetric({<<a, g>>})

(* Two hops: b -> a -> g.                                                  *)
LineC2 == {a, b}
LineHop == (a :> g) @@ (b :> a)
LineCount == (a :> 1) @@ (b :> 2)
LineReach == Symmetric({<<a, g>>, <<b, a>>})

(* Two children that collide at their relay: b -> a -> g, c -> a -> g.     *)
TreeC2 == {a, b, c}
TreeHop == (a :> g) @@ (b :> a) @@ (c :> a)
TreeCount == (a :> 1) @@ (b :> 2) @@ (c :> 2)
TreeReach == Symmetric({<<a, g>>, <<b, a>>, <<c, a>>})

(* Two nodes that collide at the gateway: a -> g, b -> g.                  *)
StarC2 == {a, b}
StarHop == (a :> g) @@ (b :> g)
StarCount == (a :> 1) @@ (b :> 1)
StarReach == Symmetric({<<a, g>>, <<b, g>>})

(* Four hops, the first and the last in one data slot category:            *)
(* d -> c -> b -> a -> g.                                                  *)
ChainC2 == {a, b, c, d}
ChainHop == (a :> g) @@ (b :> a) @@ (c :> b) @@ (d :> c)
ChainCount == (a :> 1) @@ (b :> 2) @@ (c :> 3) @@ (d :> 4)
ChainReach == Symmetric({<<a, g>>, <<b, a>>, <<c, b>>, <<d, c>>})

(* The link a -> b works one way only: while a acknowledges its child c,   *)
(* g acknowledges b, and b hears both.  The distance rule of PhyLayer      *)
(* gives no such reach; the handlers are written for the lost              *)
(* acknowledgements it causes ("ack can be lost",                          *)
(* C2_RRC_UplinkHandler.cpp:55).                                           *)
OneWayC2 == {a, b, c}
OneWayHop == (a :> g) @@ (b :> g) @@ (c :> a)
OneWayCount == (a :> 1) @@ (b :> 2) @@ (c :> 2)
OneWayReach == Symmetric({<<a, g>>, <<b, g>>, <<c, a>>}) \cup {<<a, b>>}
================================================================================
