------------------------------ MODULE MCTrade -------------------------------
(* Requests of up to three candidates: same chain or not, deep, thin and   *)
(* unknown pools, a token on the scam list; equal and different values.    *)
EXTENDS Trade

Cand(cross, liq) == [cross |-> cross, liq |-> liq, scam |-> FALSE]
Deep  == Cand(FALSE, 4000)
ThinP == Cand(FALSE, 100)
Cross == Cand(TRUE, 0)
Scam  == [Deep EXCEPT !.scam = TRUE]

MCRequests == { <<Cross, Deep, ThinP>>, <<Deep, Deep, Cross>>, <<ThinP, Scam>>, <<>> }

Offer(usd, impact, high) ==
    [kind |-> "route", usd |-> usd, impact |-> impact, high |-> high]

MCOffers == {Bare(k) : k \in Errors \union {"nil", "empty"}} \union
            { Offer(100, 0, FALSE), Offer(102, 0, FALSE), Offer(103, 3, FALSE),
              Offer(110, 40, TRUE), Offer(0, 0, FALSE),
              Offer(101, 100, FALSE), Offer(90, 150, FALSE) }
=============================================================================
