--------------------------- MODULE SwapTransaction --------------------------
(***************************************************************************)
(* The life of one Uniswap V3 swap: the calldata that Quote builds, the    *)
(* EIP-2612 permit that the wallet signs and attaches to it, and what the  *)
(* SwapRouter does with the transaction, while the clock runs and the      *)
(* owner and others use the token.  The chain is external: the router      *)
(* executes the calls of a multicall in order, all of them or none.        *)
(***************************************************************************)
EXTENDS Integers, Sequences

CONSTANTS
    AmountsIn,      \* amounts a request may sell
    QuotedAmounts,  \* amounts the Quoter may answer
    MarketAmounts,  \* amounts the pools may pay when the swap executes
    FeeRates,       \* platform fees in basis points
    PermitValues,   \* values a permit may be signed for
    Slippage,       \* percentage
    DeadlineTTL,    \* of a swap
    MaxNonce,       \* bound: the last nonce of the owner
    MaxClock        \* bound: the last reading of the clock

ASSUME AmountsAssumption ==
    /\ AmountsIn \subseteq Nat \ {0} /\ QuotedAmounts \subseteq Nat \ {0}
    /\ MarketAmounts \subseteq Nat /\ PermitValues \subseteq Nat \ {0}
ASSUME RatesAssumption == FeeRates \subseteq 0 .. 100 /\ Slippage \in 1 .. 99
ASSUME TimesAssumption == DeadlineTTL \in Nat \ {0} /\ {MaxNonce, MaxClock} \subseteq Nat

-----------------------------------------------------------------------------
GrossMinimum(amount) == (amount * (100 - Slippage)) \div 100
Net(amount, bips) == amount - (amount * bips) \div 10000

Requests == [amountIn : AmountsIn, inNative : BOOLEAN, outNative : BOOLEAN, bips : FeeRates]
ValidRequests == {r \in Requests : ~(r.inNative /\ r.outNative)}

(* The router keeps the output when it has to unwrap it or to take a fee.  *)
ThroughRouter(r) == r.outNative \/ r.bips > 0

(* Mutant: the output stays in the router.                                 *)
CallsUnpaid(r, min, deadline) ==
    <<[op |-> "swap", to |-> IF ThroughRouter(r) THEN "router" ELSE "user",
       amountIn |-> r.amountIn, min |-> min, deadline |-> deadline]>>

(* buildSwapCalldata: exactInput, then unwrapWETH9, unwrapWETH9WithFee or  *)
(* sweepTokenWithFee when the router received the output.                  *)
Calls(r, min, deadline) ==
    LET swap(to) == [op |-> "swap", to |-> to, amountIn |-> r.amountIn, min |-> min, deadline |-> deadline]
    IN  IF ThroughRouter(r)
          THEN <<swap("router"), [op |-> "pay", min |-> min, bips |-> r.bips]>>
          ELSE <<swap("user")>>

-----------------------------------------------------------------------------
VARIABLES
    clock,
    route,      \* what Quote returned: [request, min, expiresAt, calls], or NoRoute
    permit,     \* what the wallet signed: [value, nonce, deadline], or NoPermit
    attach,     \* AttachPermit: "off", "checked" (before the chain), "done"
    ifNeeded,   \* its argument ifNecessary
    tx,         \* the calls of the transaction to submit, <<>>: none
    nonce,      \* external: token.nonces(owner)
    allowance,  \* external: token.allowance(owner, SwapRouter)
    paid,       \* external: what the swap paid to the user, as fee, to nobody
    result      \* external: of the transaction; "none" before it executes

vars == <<clock, route, permit, attach, ifNeeded, tx, nonce, allowance, paid, result>>
wallet == <<route, permit, attach, ifNeeded, tx>>
chain == <<nonce, allowance, paid, result>>

NoRoute  == [expiresAt |-> 0]
NoPermit == [value |-> 0]
Nothing  == [user |-> 0, fee |-> 0, router |-> 0]

Init ==
    /\ clock = 0
    /\ route = NoRoute /\ permit = NoPermit
    /\ attach = "off" /\ ifNeeded = TRUE
    /\ tx = <<>>
    /\ nonce = 0 /\ allowance \in {0} \union AmountsIn
    /\ paid = Nothing /\ result = "none"

Tick == clock < MaxClock /\ clock' = clock + 1 /\ UNCHANGED <<wallet, chain>>

Deadline == clock + DeadlineTTL

(* Quote returns a route, or none when a minimum or an amount after the    *)
(* fee would be zero.                                                      *)
Quote(r, amount) ==
    /\ route = NoRoute
    /\ GrossMinimum(amount) > 0
    /\ Net(amount, r.bips) > 0 /\ Net(GrossMinimum(amount), r.bips) > 0
    /\ route' = [request |-> r, expiresAt |-> Deadline,
                 min |-> Net(GrossMinimum(amount), r.bips),
                 calls |-> Calls(r, GrossMinimum(amount), Deadline)]
    /\ UNCHANGED <<clock, permit, attach, ifNeeded, tx, chain>>

-----------------------------------------------------------------------------
Signable(deadline) == deadline > clock

(* BuildUniv3PermitTypedData, which refuses a nonce that is not current    *)
(* and a deadline that has passed, and the signature of the wallet.        *)
SignPermit(value, deadline) ==
    /\ permit = NoPermit
    /\ Signable(deadline)
    /\ permit' = [value |-> value, nonce |-> nonce, deadline |-> deadline]
    /\ UNCHANGED <<clock, route, attach, ifNeeded, tx, chain>>

(* Mutant: a permit for less than the swap sells.                          *)
CoversAny(p) == TRUE

Outlives(p) == p.deadline > clock /\ p.deadline >= route.expiresAt
Covers(p)   == p.value >= route.request.amountIn

(* AttachPermit up to the signature: what does not need the node.          *)
CheckPermit(necessary) ==
    /\ attach = "off" /\ tx = <<>>
    /\ permit # NoPermit /\ route # NoRoute
    /\ ~route.request.inNative
    /\ Covers(permit)
    /\ Outlives(permit)
    /\ attach' = "checked"
    /\ ifNeeded' = necessary
    /\ UNCHANGED <<clock, route, permit, tx, chain>>

(* EncodePermitMulticall flattens a multicall behind the permit.           *)
WithPermit(calls) ==
    <<[op |-> "permit", value |-> permit.value, nonce |-> permit.nonce,
       deadline |-> permit.deadline, ifNeeded |-> ifNeeded]>> \o calls

(* validatePermitOnChain reads the nonce, and the transaction is complete. *)
ReadNonce ==
    /\ attach = "checked"
    /\ nonce = permit.nonce
    /\ attach' = "done"
    /\ tx' = WithPermit(route.calls)
    /\ UNCHANGED <<clock, route, permit, ifNeeded, chain>>

(* Without a permit: the transaction of the route.                         *)
UseRoute ==
    /\ route # NoRoute /\ tx = <<>> /\ attach = "off"
    /\ tx' = route.calls
    /\ UNCHANGED <<clock, route, permit, attach, ifNeeded, chain>>

-----------------------------------------------------------------------------
(* External: the owner approves the amount of the route.                   *)
Approve ==
    /\ route # NoRoute /\ ~route.request.inNative
    /\ result = "none"
    /\ allowance' = route.request.amountIn
    /\ UNCHANGED <<clock, wallet, nonce, paid, result>>

(* External: another permit of the owner is used.                          *)
UseNonce ==
    /\ nonce < MaxNonce
    /\ result = "none"
    /\ nonce' = nonce + 1
    /\ UNCHANGED <<clock, wallet, allowance, paid, result>>

(* External: somebody submits the signed permit, which is public once the  *)
(* transaction is.                                                         *)
SubmitPermit ==
    /\ permit # NoPermit /\ nonce < MaxNonce
    /\ nonce = permit.nonce /\ clock <= permit.deadline
    /\ result = "none"
    /\ nonce' = nonce + 1
    /\ allowance' = permit.value
    /\ UNCHANGED <<clock, wallet, paid, result>>

(* External: another swap of the owner spends the allowance.               *)
SpendAllowance ==
    /\ allowance > 0
    /\ result = "none"
    /\ allowance' = 0
    /\ UNCHANGED <<clock, wallet, nonce, paid, result>>

(* External: the SwapRouter.  A state of its execution is the allowance    *)
(* and the nonce, what was paid, and "" or the reason of the revert.       *)
Covered(s, call) == call.ifNeeded /\ s.allowance >= call.value

ExecutePermit(s, call) ==
    IF Covered(s, call) THEN s
    ELSE IF s.nonce = call.nonce /\ clock <= call.deadline
      THEN [s EXCEPT !.allowance = call.value, !.nonce = @ + 1]
      ELSE [s EXCEPT !.why = "permit"]

ExecuteSwap(s, call, market) ==
    IF clock > call.deadline THEN [s EXCEPT !.why = "expired"]
    ELSE IF ~route.request.inNative /\ s.allowance < call.amountIn
      THEN [s EXCEPT !.why = "allowance"]
    ELSE IF market < call.min THEN [s EXCEPT !.why = "slippage"]
    ELSE [s EXCEPT !.allowance = IF route.request.inNative THEN @ ELSE @ - call.amountIn,
                   !.paid = [@ EXCEPT ![call.to] = market]]

ExecutePay(s, call) ==
    IF s.paid.router < call.min THEN [s EXCEPT !.why = "payment"]
    ELSE [s EXCEPT !.paid = [user |-> Net(s.paid.router, call.bips),
                             fee |-> s.paid.router - Net(s.paid.router, call.bips),
                             router |-> 0]]

ExecuteCall(s, call, market) ==
    IF s.why # "" THEN s
    ELSE CASE call.op = "permit" -> ExecutePermit(s, call)
           [] call.op = "swap"   -> ExecuteSwap(s, call, market)
           [] call.op = "pay"    -> ExecutePay(s, call)

After(s, i, market) == IF i \in DOMAIN tx THEN ExecuteCall(s, tx[i], market) ELSE s

(* No transaction has more than three calls.                               *)
Outcome(market) ==
    LET s == [allowance |-> allowance, nonce |-> nonce, paid |-> Nothing, why |-> ""]
    IN  After(After(After(s, 1, market), 2, market), 3, market)

Execute(market) ==
    /\ tx # <<>> /\ result = "none"
    /\ LET s == Outcome(market)
       IN  IF s.why = ""
             THEN /\ result' = "success" /\ paid' = s.paid
                  /\ allowance' = s.allowance /\ nonce' = s.nonce
             ELSE result' = s.why /\ UNCHANGED <<allowance, nonce, paid>>
    /\ UNCHANGED <<clock, wallet>>

-----------------------------------------------------------------------------
Next ==
    \/ Tick
    \/ \E r \in ValidRequests, a \in QuotedAmounts : Quote(r, a)
    \/ \E v \in PermitValues, d \in 1 .. MaxClock + DeadlineTTL : SignPermit(v, d)
    \/ \E b \in BOOLEAN : CheckPermit(b)
    \/ ReadNonce \/ UseRoute
    \/ Approve \/ UseNonce \/ SubmitPermit \/ SpendAllowance
    \/ \E m \in MarketAmounts : Execute(m)

Spec == Init /\ [][Next]_vars

-----------------------------------------------------------------------------
TypeOK ==
    /\ clock \in 0 .. MaxClock
    /\ attach \in {"off", "checked", "done"}
    /\ ifNeeded \in BOOLEAN
    /\ route.expiresAt \in 0 .. MaxClock + DeadlineTTL
    /\ permit.value \in {0} \union PermitValues
    /\ \A i \in DOMAIN tx : tx[i].op \in {"permit", "swap", "pay"}
    /\ nonce \in 0 .. MaxNonce + 1
    /\ allowance \in Nat
    /\ result \in {"none", "success", "permit", "expired", "allowance", "slippage", "payment"}

(* The user receives at least the AmountOutMin of the route, whatever the  *)
(* pools pay when the swap executes and although the router computes its   *)
(* fee from what they pay and Quote from the quoted minimum; and no call   *)
(* leaves a part of the output in the router.                              *)
UserProtected ==
    result = "success" =>
        /\ route.min <= paid.user
        /\ paid.router = 0

(* A transaction with a permit attached fails only because the swap itself *)
(* expired or the price moved, or because the owner's nonce was used by    *)
(* another permit in the meantime; never for its allowance, for a permit   *)
(* that expires before the swap, or in the payment.  And a permit that     *)
(* somebody submits ahead of the transaction does no harm when it was      *)
(* attached with ifNecessary and nothing spent its allowance.              *)
AttachedFailsForReason ==
    /\ TypeOK
    /\ attach = "done" /\ result \notin {"none", "success", "slippage", "expired"} =>
        /\ result = "permit"
        /\ nonce # permit.nonce \/ clock > route.expiresAt
    /\ attach = "done" /\ ifNeeded /\ allowance >= permit.value => result # "permit"
=============================================================================
