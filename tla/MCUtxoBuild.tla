---------------------------- MODULE MCUtxoBuild -----------------------------
(* Coins and amounts on both sides of every limit: dust, a change of just  *)
(* dust, nothing left over, one unit too much.                             *)
EXTENDS UtxoBuild

Draft(sweep, amount, byteFee, memo, to, from) ==
    [readable |-> TRUE, sweep |-> sweep, amount |-> amount, byteFee |-> byteFee,
     memo |-> memo, to |-> to, from |-> from]

WithUnreadable(drafts) ==
    drafts \union {[d EXCEPT !.readable = FALSE] : d \in {CHOOSE d \in drafts : TRUE}}

Pays(amounts, byteFees, to, from) ==
    WithUnreadable(
        {Draft(FALSE, a, f, m, s, from) : a \in amounts, f \in byteFees, m \in {Nothing, 78}, s \in to}
        \union {Draft(TRUE, 0, f, m, s, from) : f \in byteFees, m \in {Nothing, 20, 78}, s \in to})

SegwitAmounts == {545, 546, 1299, 1300, 1313, 1314, 1888, 1889, 1890, 1891}

KaspaDraft(kind, amount, fee) ==
    [readable |-> TRUE, kind |-> kind, amount |-> amount, fee |-> fee]

MCDrafts ==
    [BTC  |-> Pays(SegwitAmounts, {1, 3}, {22, 34}, 22),
     P2TR |-> Pays(SegwitAmounts, {1, 3}, {22, 34}, 34),
     LTC  |-> Pays(SegwitAmounts, {3}, {22}, 22),
     SYS  |-> Pays(SegwitAmounts, {1}, {22, 34}, 22),
     DOGE |-> Pays({99999, 100000, 6900000, 6900001, 7000000, 7000001}, {1, 25000}, {25, 23}, 25),
     KAS  |-> WithUnreadable({KaspaDraft(k, a, f) :
                k \in {"pay", "reveal", "other"}, f \in {0, 10000},
                a \in {2000000, 2000001, 6990000, 6990001, 8990000, 8990001}})]

MCWallets ==
    [BTC  |-> {<<2000>>, <<655>>, <<656>>, <<2000, 656>>, <<658, 2000, 657>>},
     P2TR |-> {<<2000>>, <<657>>, <<658>>, <<2000, 656>>, <<658, 2000, 657>>},
     LTC  |-> {<<2000>>, <<658, 2000, 657>>},
     SYS  |-> {<<2000>>, <<655>>, <<2000, 656>>},
     DOGE |-> {<<12000000>>, <<5100000>>, <<5099999>>, <<12000000, 5100000>>},
     KAS  |-> {<<9000000>>, <<2000000, 9000000>>, <<2010000>>, <<2010001, 2000000>>, <<7000000, 2000001>>}]

MCTargets ==
    [BTC |-> {0, 656, 1400, 5000}, P2TR |-> {0, 656, 1400, 5000}, LTC |-> {1400, 5000},
     SYS |-> {1400, 5000}, DOGE |-> {5100000, 13000000}, KAS |-> {2000001, 9000000, 20000000}]

MCNetworks == {"BTC", "P2TR", "LTC", "DOGE", "SYS", "KAS"}
=============================================================================
