-------------------------- MODULE MCTradeLifecycle --------------------------
(* TradeLifecycle on two chains and seven configurations: a chain added,   *)
(* kept, changed and removed; a candidate that NewClient rejects in either *)
(* family; a chain listed twice by name and by id; a bridgers section that *)
(* fails once both families are built.                                     *)
EXTENDS TradeLifecycle

CONSTANTS t1, t2, c1, c2, c3, c4, c5, c6

MCKey == {"ETH", "1", "POL", "137"}

Eth(v) == [name |-> "ETH", id |-> "1", ver |-> v, good |-> TRUE]
Pol    == [name |-> "POL", id |-> "137", ver |-> 1, good |-> TRUE]
Bad    == [name |-> "POL", id |-> "137", ver |-> 2, good |-> FALSE]

Conf(u2, u3, b, ok, key, url) ==
    [univ2 |-> u2, univ3 |-> u3, jup |-> "j" \o url, brg |-> b, brgOk |-> ok,
     bng |-> key, server |-> url]

MCConfigs ==
    { Conf(<<Eth(1)>>, <<>>, "none", TRUE, "k1", "s1"),
      Conf(<<Eth(1)>>, <<Eth(1)>>, "b1", TRUE, "k2", "s1"),
      Conf(<<Eth(2)>>, <<>>, "none", TRUE, "k1", "s2"),
      Conf(<<Pol>>, <<Bad>>, "none", TRUE, "k2", ""),
      Conf(<<Pol, [Eth(1) EXCEPT !.id = "137"]>>, <<>>, "none", TRUE, "k1", "s1"),
      Conf(<<>>, <<Pol>>, "b2", FALSE, "k1", "s1"),
      Conf(<<>>, <<>>, "none", TRUE, "", "") }
=============================================================================
