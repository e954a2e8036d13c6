------------------------------ MODULE MCCaster ------------------------------
(***************************************************************************)
(* The instances of Caster that TLC checks.                                *)
(***************************************************************************)
EXTENDS Caster, TLC

CONSTANTS m1, m2, h1, h2, h3, r1, r2, u1, u2

\* h1 and h2 compete for m1, h3 has m2 to itself.
PutToMap == (h1 :> m1) @@ (h2 :> m1) @@ (h3 :> m2)

\* One rover on each mountpoint.
GetFromMap == (r1 :> m1) @@ (r2 :> m2)
DistinctUsers == (r1 :> u1) @@ (r2 :> u2)

\* The entries of a map for a subset of its domain.
Only(map, dom) == [x \in dom |-> map[x]]
PutToHandlers == Only(PutToMap, Handlers)
GetFromRovers == Only(GetFromMap, Rovers)
UsersOfRovers == Only(DistinctUsers, Rovers)
=============================================================================
