------------------------------ MODULE MCPayment -----------------------------
(* The program of every chain, run twice, two endpoints, two polls.        *)
EXTENDS Payment, TLC

MCChains == AllChains

MCSymmetry == Permutations(Endpoints)
=============================================================================
