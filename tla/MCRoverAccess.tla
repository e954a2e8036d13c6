--------------------------- MODULE MCRoverAccess ---------------------------
(***************************************************************************)
(* The instance of RoverAccess that TLC checks.                            *)
(***************************************************************************)
EXTENDS RoverAccess, TLC

CONSTANTS m1, p1, p2, anonymous, r1, r2

\* A rover with either password and different dates, one for every mountpoint
\* without a hash, and a base station.
SomeEntries ==
    {[role |-> "rover", mounts |-> {m1}, from |-> 0, until |-> 1, hash |-> p1],
     [role |-> "rover", mounts |-> {ANY}, from |-> 1, until |-> 9, hash |-> p2],
     [role |-> "rover", mounts |-> {ANY}, from |-> 0, until |-> 9, hash |-> None],
     [role |-> "base_station", mounts |-> {m1}, from |-> 1, until |-> 2, hash |-> p1]}

RequestSymmetry == Permutations(Requests)
=============================================================================
