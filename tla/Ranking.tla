------------------------------ MODULE Ranking -------------------------------
(* What a stable sort gives: the elements of S in the order of R, a strict *)
(* total order.                                                            *)
EXTENDS Naturals, FiniteSets

InOrder(S, R) ==
    [k \in 1 .. Cardinality(S) |->
        CHOOSE i \in S : Cardinality({j \in S : <<j, i>> \in R}) = k - 1]
=============================================================================
