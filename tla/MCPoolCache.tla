---------------------------- MODULE MCPoolCache -----------------------------
(* Two quotes with a pool in common, for which they share a call and the   *)
(* cache, and a second pool, for which they compete for the only slot.     *)
EXTENDS PoolCache, TLC

CONSTANTS q1, q2, p1, p2

MCWanted == (q1 :> {p1, p2}) @@ (q2 :> {p1})
=============================================================================
