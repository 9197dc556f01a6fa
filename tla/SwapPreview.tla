----------------------------- MODULE SwapPreview ----------------------------
(***************************************************************************)
(* What the decoder says of calldata that a wallet is given, and of the    *)
(* transactions of SwapTransaction: EncodePermitMulticall decodes the swap *)
(* to see that the permit is for its token and covers its amount.          *)
(***************************************************************************)
EXTENDS SwapTransaction, SwapDecode

VARIABLE shown
preview == <<vars, shown>>

NothingShown == [router |-> 0]

PreviewInit == Init /\ shown = NothingShown

(* Decoding changes nothing: it is enough to show one thing, before        *)
(* anything else happens.                                                  *)
Idle == shown = NothingShown /\ route = NoRoute /\ permit = NoPermit /\ clock + nonce + allowance = 0

(* Somebody asks the wallet to sign a transaction for one of the routers.  *)
Show ==
    /\ Idle
    /\ \E c \in Calldata, router \in Versions :
         shown' = [router |-> router, data |-> c, meant |-> <<>>]
    /\ UNCHANGED vars

(* The caller encodes a swap itself, with a deadline or without.           *)
Encode ==
    /\ Idle
    /\ \E given \in {NoDeadline} \union 1 .. MaxClock, router \in Versions :
         LET deadline == EffectiveDeadline(given, clock)
             is(d)    == <<[id |-> 1, version |-> router, deadline |-> d, hash |-> NoHash]>>
         IN  \/ shown' = [router |-> router, meant |-> is(deadline),
                          data |-> EncodeExactInputSingle(1, deadline, router)]
             \/ /\ router = 2 => given = NoDeadline
                /\ shown' = [router |-> router, meant |-> is(IF router = 1 THEN deadline ELSE NoDeadline),
                             data |-> EncodeExactInputSingleCall(1, deadline, router)]
    /\ UNCHANGED vars

PreviewNext ==
    \/ shown = NothingShown /\ Next /\ UNCHANGED shown
    \/ Show \/ Encode

PreviewSpec == PreviewInit /\ [][PreviewNext]_preview

-----------------------------------------------------------------------------
(* The transactions of SwapTransaction as the decoder sees them.           *)
AsCall(call) ==
    IF call.op = "swap" THEN Swap("input1", call.amountIn, call.deadline) ELSE Other

AsCalldata(calls) ==
    IF Len(calls) = 1 THEN AsCall(calls[1])
    ELSE Multicall("multicall", NoDeadline, [i \in DOMAIN calls |-> AsCall(calls[i])])

(* What the SDK encodes is calldata too: a swap, alone or in a multicall   *)
(* with a payment behind it and a permit in front.                         *)
ASSUME EncodedAssumption ==
    /\ \A d \in 1 .. MaxClock + DefaultDeadlineTTL, router \in Versions :
         /\ EncodeExactInputSingle(1, d, router) \in Calldata
         /\ EncodeExactInputSingleCall(1, d, router) \in Calldata
    /\ \A amount \in AmountsIn, d \in 1 .. MaxClock + DeadlineTTL :
         LET swap == Swap("input1", amount, d)
         IN  /\ swap \in Calldata
             /\ \A calls \in {<<swap, Other>>, <<Other, swap>>, <<Other, swap, Other>>} :
                  Multicall("multicall", NoDeadline, calls) \in Calldata

-----------------------------------------------------------------------------
(* A wallet shows the swap that is executed: the earliest of the deadlines *)
(* around it, and the block hash it needs.                                 *)
Shows(info, swap) ==
    /\ info.id = swap.id
    /\ IF swap.deadlines = {} THEN info.deadline = NoDeadline
       ELSE /\ info.deadline \in swap.deadlines
            /\ \A t \in swap.deadlines : info.deadline <= t
    /\ swap.hashes = {info.hash} \ {NoHash}

TooDeep(c) == ~Within[MaxMulticallDepth + 1][c]

(* No block has two hashes.                                                *)
Contradicts(swap) == \E g, h \in swap.hashes : g # h

(* A decoded swap is one that executes: what DecodeSwapInfos returns is    *)
(* every swap of the calldata that the router would execute and for which  *)
(* the decoder has a selector, in order, each with the earliest of the     *)
(* deadlines around it and with the block hash it needs; only calldata     *)
(* that cannot execute, that is nested too deep, or that is no such swap   *)
(* and no multicall is refused, and only calldata without such a swap has  *)
(* none.  What else the router executes of it (the unread swaps) is not    *)
(* shown: the decoder skips such a call in a multicall, and of a multicall *)
(* of nothing else it says that it has no swap.  An encoded swap decodes   *)
(* to itself; a transaction of the SDK to the one swap of its route, with  *)
(* or without the permit in front.                                         *)
DecodedIsExecuted ==
    /\ shown # NothingShown =>
         LET c  == shown.data
             d  == DecodeSwapInfos(c, shown.router)
             ex == Executed(c, shown.router)
         IN  /\ ex.ok /\ d.err = "" =>
                  /\ Len(d.infos) = Len(ex.swaps)
                  /\ \A i \in DOMAIN ex.swaps : Shows(d.infos[i], ex.swaps[i])
             /\ ex.ok /\ Supported(c) =>
                  /\ d.err = "none" <=> ex.swaps = <<>> /\ ~TooDeep(c)
                  /\ d.err = "error" <=>
                       TooDeep(c) \/ \E i \in DOMAIN ex.swaps : Contradicts(ex.swaps[i])
             /\ ~Supported(c) => d.err = "error"
             /\ shown.meant # <<>> => d = Infos(shown.meant)
    /\ tx # <<>> =>
         LET d == DecodeSwapInfos(AsCalldata(tx), 1)
         IN  /\ d.err = "" /\ Len(d.infos) = 1
             /\ d.infos[1].id = route.request.amountIn
             /\ d.infos[1].deadline = route.expiresAt
=============================================================================
