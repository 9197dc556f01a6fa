---------------------------- MODULE MCUniv3Quote ----------------------------
(* Two fee tiers and the base tokens M and A: a request A -> B has six     *)
(* candidates over six pools, a request A -> M two.                        *)
EXTENDS Univ3Quote

CONSTANTS A, B, M

MCRequests   == {<<A, B>>, <<A, M>>}
MCFeeTiers   == <<500, 3000>>
MCBaseTokens == <<M, A>>
=============================================================================
