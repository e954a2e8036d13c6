--------------------------- MODULE MCJWKSManager ---------------------------
(* Two issuers that share a kid, two requests, a cache of one key.  The      *)
(* audience of B is a kid of A; B may publish a key that is not supported.   *)
EXTENDS JWKSManager, TLC

CONSTANTS A, B, k1, k2, aud

Issuers == <<A, B>>

SomeKeys == {<<A, k1>>, <<A, k2>>, <<B, k1>>, <<B, k2>>}
EllipticKeys == {<<B, k2>>}

Audiences == [p \in {A, B} |-> IF p = A THEN aud ELSE k2]

RequestSymmetry == Permutations(Requests)

============================================================================
