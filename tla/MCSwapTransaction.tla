------------------------- MODULE MCSwapTransaction --------------------------
(* Amounts around the roundings: a quote of 20 001 at 1 % fee and 50 %     *)
(* slippage has a gross minimum of 10 000 and a net one of 9 900.          *)
(* Calldata up to one level deeper than the decoder goes.                  *)
EXTENDS SwapPreview

MCQuoted == {1, 20001}
MCMarket == {0, 9999, 10000, 10099, 30000}

Leaves == {Swap("single1", 1, 2), [Swap("input1", 2, 1) EXCEPT !.bad = TRUE],
           Swap("input1", 3, 1), Swap("input1", 3, 0), Swap("single2", 4, NoDeadline), Other}
Unseen == {Unread("input2", 6), Unread("output1", 7), [Unread("output2", 8) EXCEPT !.bad = TRUE]}

Envelopes == {<<"multicall", NoDeadline>>, <<"multicallDeadline", 1>>, <<"multicallDeadline", 2>>,
              <<"multicallHash", "a">>, <<"multicallHash", "b">>}

Around(lists) == {Multicall(e[1], e[2], l) : e \in Envelopes, l \in lists}

Pairs == {<<>>} \union {<<a>> : a \in Leaves \union Unseen} \union (Leaves \X Leaves)
         \union (Unseen \X {Other, Swap("input1", 3, 1), Swap("single2", 4, NoDeadline)})
Once  == Around(Pairs)
Twice == Around({<<c>> : c \in Once} \union {<<a, c>> : a \in Leaves, c \in Once})
Deep  == Around({<<c>> : c \in {d \in Twice : Len(d.calls) = 1}})

(* What the SDK encodes of one swap, with the swap itself.                 *)
Singles == {Swap("single1", 1, d) : d \in 1 .. 6} \union {Swap("single2", 1, NoDeadline)}
Limits  == {EncodeExactInputSingle(1, d, 2) : d \in 1 .. 6}

Sold == {Swap("input1", 5, d) : d \in 1 .. 4}
Sent == UNION {{Multicall("multicall", NoDeadline, calls) :
                  calls \in {<<s, Other>>, <<Other, s>>, <<Other, s, Other>>}} : s \in Sold}

AllOfIt    == UNION {Leaves, Unseen, Once, Twice, Deep, Singles, Limits, Sold, Sent}
MCCalldata == AllOfIt
=============================================================================
