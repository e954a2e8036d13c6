--------------------------- MODULE MCRateLimiter ----------------------------
(***************************************************************************)
(* The instance of RateLimiter that TLC checks: three clients and a cache  *)
(* of two, so that storing a bucket may throw one out; buckets that refill *)
(* in exactly the time after which an idle one expires.  The clients are   *)
(* interchangeable and only invariants are checked, so symmetry is sound.  *)
(***************************************************************************)
EXTENDS RateLimiter, TLC

Symmetry == Permutations(Fingerprints)
=============================================================================
