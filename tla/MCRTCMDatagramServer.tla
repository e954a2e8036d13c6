------------------------ MODULE MCRTCMDatagramServer ------------------------
(***************************************************************************)
(* The instances of RTCMDatagramServer that TLC checks.                    *)
(***************************************************************************)
EXTENDS RTCMDatagramServer, TLC

CONSTANTS m1, m2, near1, near2, far, s1, s2

\* near1 and near2 are in range of both bases; far is beyond m1's mask, and m2,
\* which has no mask, is the nearest one there.
TwoBases == (near1 :> <<m1, m2>>) @@ (near2 :> <<m2, m1>>) @@ (far :> <<m2>>)
MaskOfM1 == (near1 :> {}) @@ (near2 :> {}) @@ (far :> {m1})

PreferenceMap == [p \in Places |-> SelectSeq(TwoBases[p], LAMBDA m : m \in Mountpoints)]
BeyondMap == [p \in Places |-> MaskOfM1[p] \cap Mountpoints]

SidSymmetry == Permutations(Sids)
=============================================================================
