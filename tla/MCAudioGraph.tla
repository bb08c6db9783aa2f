----------------------------- MODULE MCAudioGraph -----------------------------
(***************************************************************************)
(* Instances of AudioGraph for TLC: nodes 1 and 2 are a client's capture   *)
(* and playback, 3 and 4 a sound card's; a node that is offline is         *)
(* virtual.                                                                *)
(***************************************************************************)
EXTENDS AudioGraph, TLC

CONSTANT MaxChangedRoutes   \* bound: routes in a list that is changed

Jack(who, way, n) ==
  [owner |-> who, direction |-> way, channels |-> n]

FourEndpoints ==
  (1 :> Jack("client", 1, 1)) @@ (2 :> Jack("client", -1, 2)) @@
  (3 :> Jack("hardware", 1, 2)) @@ (4 :> Jack("hardware", -1, 1))

Route(s, sc, d, dc, on) == [src |-> s, sch |-> sc, dst |-> d, dch |-> dc, on |-> on]

(* Chains, fans and cycles through offline nodes, parallel routes, a route *)
(* on a second channel, a disabled one, one that is invalid while its      *)
(* endpoint is open.                                                       *)
Pool == {Route(0, 0, 2, 0, TRUE), Route(1, 0, 2, 1, TRUE), Route(2, 0, 4, 0, TRUE),
         Route(3, 1, 1, 0, TRUE), Route(3, 0, 4, 0, TRUE), Route(4, 0, 3, 0, TRUE),
         Route(2, 0, 3, 0, FALSE), Route(2, 1, 2, 0, TRUE), Route(3, 1, 4, 0, TRUE)}

PoolLists    == SUBSET Pool
ShortLists   == {l \in PoolLists : Cardinality(l) <= MaxChangedRoutes}
===============================================================================
