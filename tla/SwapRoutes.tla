----------------------------- MODULE SwapRoutes -----------------------------
(***************************************************************************)
(* What the channel clients make of the answers of their providers: the    *)
(* transaction the user signs, the allowance it needs, and the minimum the *)
(* user is shown.  A provider is asked once or twice for a quote and says  *)
(* what it likes; a client returns a route, or an error or no route, and   *)
(* the set of routes it can return for a request is <Channel>Routes(ask).  *)
(*                                                                         *)
(* An address is one of two contracts, nothing, or text that is no address.*)
(* Beside what the client returns a route has what the user does not see:  *)
(* the minimum its transaction enforces.                                   *)
(***************************************************************************)
EXTENDS Integers, Sequences, FiniteSets

CONSTANTS
    Amount,         \* FromAmount of the request
    SlippagePct,    \* its slippage, in percent
    MaxFeeLimit,    \* tron.MaxFeeLimitSun
    ProtocolMax     \* tron.ProtocolMaxFeeLimitSun

ASSUME AmountAssumption == Amount \in Nat \ {0}
ASSUME SlippageAssumption == SlippagePct \in 1..99
ASSUME FeeAssumption == /\ MaxFeeLimit \in Nat \ {0}
                        /\ ProtocolMax \in Nat /\ ProtocolMax >= MaxFeeLimit

Contracts == {"x", "y"}
Text == Contracts \union {"", "bad"}
Amounts == 0..(Amount + 1)
Fees == 0..(ProtocolMax + 1)

(* What is asked: is the coin sold the native one, is the chain TRON, does *)
(* the swap leave it, does the partner take a fee, and who is paid it.     *)
Asks == [native: BOOLEAN, tron: BOOLEAN, cross: BOOLEAN,
         fee: BOOLEAN, payee: BOOLEAN]

NoTx == [to |-> "", data |-> FALSE, value |-> 0, limit |-> 0]
NoApproval == [spender |-> "", amount |-> 0]
Calls(to, value, limit) == [to |-> to, data |-> TRUE, value |-> value, limit |-> limit]
Passed(a) == [to |-> a.to, data |-> a.data, value |-> a.value, limit |-> 0]
Allow(spender, amount) == [spender |-> spender, amount |-> amount]

Route(tx, approval, min) ==
    [tx |-> tx, build |-> FALSE, approval |-> approval, min |-> min,
     charged |-> FALSE, enforces |-> min]

(* FeeLimitFromSun: twice the estimate, never above the limit of the SDK;  *)
(* 0 when the estimate cannot be used.                                     *)
FeeLimit(sun) ==
    IF sun = 0 THEN 0 ELSE IF 2 * sun > MaxFeeLimit THEN MaxFeeLimit ELSE 2 * sun

EnergyFeeLimit(sun) == IF sun > ProtocolMax THEN 0 ELSE FeeLimit(sun)

AfterSlippage(out) == (out * (100 - SlippagePct)) \div 100

-----------------------------------------------------------------------------
(* Bridgers: quote, coin codes, swap.  The quote names the contract that   *)
(* will need the allowance, the swap the one that is called; what is sold  *)
(* and the minimum are parameters of the call.                             *)
BridgersAnswers ==
    [contract: {"x", "bad"}, depositMin: {0, Amount + 1}, depositMax: {0, Amount - 1},
     out: 0..2, codes: {"given", "listed", "unlisted"},
     to: Text, shaped: BOOLEAN, value: {0, Amount, Amount + 1},
     sells: {Amount, Amount + 1}, enforces: 0..2,
     limit: {0, 1, MaxFeeLimit, MaxFeeLimit + 1}]

(* A fee per quote is refused, TRON and EVM are the only sources.          *)
BridgersAsked(ask) == ~ask.fee

(* depositMin and depositMax; a maximum of 0 is none.                      *)
InRange(a) ==
    /\ a.depositMin <= Amount
    /\ a.depositMax = 0 \/ Amount <= a.depositMax

(* The codes of both coins are in the request or in the list of tokens.    *)
CodesKnown(a) == a.codes \in {"given", "listed"}

(* On TRON the call is taken apart, each parameter has to be the one asked *)
(* for, and it is put together again.                                      *)
TronCallMatches(ask, a) ==
    /\ a.shaped /\ a.to = a.contract
    /\ a.limit \in 1..MaxFeeLimit
    /\ a.value = (IF ask.native THEN Amount ELSE 0)
    /\ a.sells = Amount /\ a.enforces = a.out

(* Mutant: the swap may call another contract than the quote named.        *)
EvmCallAnywhere(a) == a.shaped /\ a.to \in Contracts

(* On an EVM chain the calldata has to be calldata, for the same contract. *)
EvmCallMatches(a) == a.shaped /\ a.to = a.contract

BridgersApproval(ask, a) ==
    IF ask.native THEN NoApproval ELSE Allow(a.contract, Amount)

BridgersRoutes(ask) ==
    {[Route(Calls(a.to, a.value, IF ask.tron THEN a.limit ELSE 0),
            BridgersApproval(ask, a), AfterSlippage(a.out))
      EXCEPT !.enforces = a.enforces] :
     a \in {b \in BridgersAnswers :
              /\ BridgersAsked(ask) /\ InRange(b) /\ b.out > 0
              /\ b.contract \in Contracts
              /\ CodesKnown(b)
              /\ IF ask.tron THEN TronCallMatches(ask, b) ELSE EvmCallMatches(b)
              /\ b.value = (IF ask.native THEN Amount ELSE 0)
              /\ AfterSlippage(b.out) > 0}}

-----------------------------------------------------------------------------
(* OKX: one answer for a swap on one chain; for a swap across chains the   *)
(* transaction, and then the approval in a call of its own.  An approval   *)
(* names a contract and carries the calldata of approve(spender, amount).  *)
NoMetadata == [contract |-> "", spender |-> "", amount |-> 0]
Metadata == {NoMetadata} \union
            [contract: Text, spender: Contracts, amount: {Amount - 1, Amount, Amount + 1}]

(* applyApproval: exactly one entry that is not blank, for a contract that *)
(* its calldata names, for at least the amount; the user is asked to allow *)
(* the amount and no more.                                                 *)
OkxApproval(entries) ==
    LET given == {i \in DOMAIN entries : entries[i] # NoMetadata}
    IN IF Cardinality(given) # 1 THEN {}
       ELSE {Allow(entries[i].contract, Amount) :
             i \in {j \in given : /\ entries[j].contract \in Contracts
                                  /\ entries[j].spender = entries[j].contract
                                  /\ entries[j].amount >= Amount}}

OkxApprovals(ask, entries) == IF ask.native THEN {NoApproval} ELSE OkxApproval(entries)

(* applyTronTx: on TRON the target is an address and the limit is made     *)
(* from the energy; elsewhere the transaction is passed on.                *)
OkxCall(ask, to, energy) ==
    ask.tron => to \in Contracts /\ EnergyFeeLimit(energy) > 0

OkxTx(ask, a) ==
    Calls(a.to, a.value, IF ask.tron THEN EnergyFeeLimit(a.energy) ELSE 0)

OkxSwaps == [to: Text, value: {0, Amount}, energy: Fees]

OkxRoute(ask, tx, approval) ==
    [Route(tx, approval, Amount) EXCEPT !.charged = ask.fee]

(* aggregator/swap: the entries come with the transaction.  An answer      *)
(* without a target becomes a route without a transaction.                 *)
OkxEntries == {<<m>> : m \in Metadata} \union {<<NoMetadata, m>> : m \in Metadata}
                                      \union {<<m, m>> : m \in Metadata}

OkxKeeps(ask, a) == a.to = "" \/ OkxCall(ask, a.to, a.energy)
OkxBuilt(ask, a) == IF a.to = "" THEN NoTx ELSE OkxTx(ask, a)

OkxSingle(ask) ==
    {OkxRoute(ask, OkxBuilt(ask, a), approval) :
       a \in {b \in OkxSwaps : OkxKeeps(ask, b)},
       approval \in UNION {OkxApprovals(ask, entries) : entries \in OkxEntries}}

(* cross-chain/swap, then cross-chain/approve-tx for the same bridge: the  *)
(* bridge may have moved to another contract in between.                   *)
OkxCross(ask) ==
    {OkxRoute(ask, OkxTx(ask, a), approval) :
       a \in {b \in OkxSwaps : OkxCall(ask, b.to, b.energy)},
       approval \in UNION {OkxApprovals(ask, <<m>>) : m \in Metadata}}

(* aggregator/quote: a price only; the transaction has to be built.        *)
OkxPre == [Route(NoTx, NoApproval, 0) EXCEPT !.build = TRUE]

OkxRoutes(ask) ==
    IF ask.cross THEN OkxCross(ask)
    ELSE OkxSingle(ask) \union (IF ask.tron THEN {} ELSE {OkxPre})
-----------------------------------------------------------------------------
(* LI.FI: one answer, taken as it is.  Whether the transaction is one of   *)
(* TRON and the coin the native one the client reads from the answer, not  *)
(* from the request.                                                       *)
LifiAnswers == [tron: BOOLEAN, native: BOOLEAN, to: {"", "x", "y"}, data: BOOLEAN,
                shaped: BOOLEAN, value: {0, Amount + 1},
                limit: {0, 1, MaxFeeLimit, MaxFeeLimit + 1},
                spender: {"", "x", "y"}, amount: {Amount, Amount + 1}]

LifiHasTx(a) == a.to # "" \/ a.data

(* A TRON transaction is the serialised one ("shaped": it is there, and is *)
(* a contract call), within the fee limit.                                 *)
LifiKeeps(a) == LifiHasTx(a) /\ a.tron => a.shaped /\ a.limit \in 1..MaxFeeLimit

LifiTx(a) ==
    CASE ~LifiHasTx(a)           -> NoTx
      [] LifiHasTx(a) /\ a.tron  -> Calls(a.to, 0, a.limit)
      [] LifiHasTx(a) /\ ~a.tron -> Passed(a)

LifiApproval(a) ==
    IF a.native \/ a.spender = "" THEN NoApproval ELSE Allow(a.spender, a.amount)

LifiRoutes(ask) ==
    {[Route(LifiTx(a), LifiApproval(a), Amount) EXCEPT !.charged = ask.fee] :
     a \in {b \in LifiAnswers : LifiKeeps(b)}}

-----------------------------------------------------------------------------
(* Bungee: a fee needs someone it is paid to; the receiver without a fee   *)
(* is left out of the request.                                             *)
BungeeAsked(ask) == ask.fee => ask.payee

(* The kind of the transaction is the provider's choice.                   *)
BungeeAnswers == [kind: {"tron_tx", "evm_tx", "other"}, parses: BOOLEAN,
                  to: {"", "x", "bad"}, data: BOOLEAN, value: {0, Amount + 1},
                  fee: {0, 1, ProtocolMax + 1}, spender: {"", "x", "bad"},
                  amount: {Amount, Amount + 1}]

(* A TRON transaction that cannot be used is skipped, with its route; one  *)
(* of an EVM chain is left out of its route.                               *)
BungeeKeeps(a) ==
    a.kind = "tron_tx" => a.parses /\ a.to \in Contracts /\ a.data /\ FeeLimit(a.fee) > 0

BungeeTx(a) ==
    CASE a.kind = "tron_tx" -> Calls(a.to, a.value, FeeLimit(a.fee))
      [] a.kind = "evm_tx"  -> IF a.parses /\ a.to # ""
                               THEN Passed(a) ELSE NoTx
      [] a.kind = "other"   -> IF a.data THEN Calls("", 0, 0) ELSE NoTx

BungeeApproval(a) ==
    IF \/ a.spender = ""
       \/ a.kind = "tron_tx" /\ a.spender \notin Contracts
    THEN NoApproval ELSE Allow(a.spender, a.amount)

(* The engine looks at the first route that is left.                       *)
BungeeRoutes(ask) ==
    {[Route(BungeeTx(a), BungeeApproval(a), 0) EXCEPT !.charged = ask.fee] :
     a \in {b \in BungeeAnswers : BungeeAsked(ask) /\ BungeeKeeps(b)}}

-----------------------------------------------------------------------------
(* Jupiter: a quote, then the transaction built from it, each tried up to  *)
(* three times while the error is one that passes (a market that is not    *)
(* there for a moment, a rate limit).  Had the quote been asked for again, *)
(* quotes[n] is what attempt n would have been built from.                 *)
Tries == [1..3 -> {"ok", "passes", "fatal"}]
Attempt(tries) == {n \in 1..3 : /\ tries[n] = "ok"
                                /\ \A m \in 1..(n - 1) : tries[m] = "passes"}

(* Every attempt sends the quote that is shown.                            *)
BuildsFrom(quotes, build) == {quotes[1] : n \in Attempt(build)}

JupiterQuotes == {q \in [tries: Tries, least: [1..3 -> 1..2]] : Attempt(q.tries) # {}}

(* The partner's fee goes with the quote when there is an account for it.  *)
JupiterRoute(ask, least, built) ==
    [Route(Calls("", 0, 0), NoApproval, least)
     EXCEPT !.charged = ask.fee /\ ask.payee, !.enforces = built]

JupiterRoutes(ask) ==
    UNION {{JupiterRoute(ask, q.least[1], built) :
              built \in UNION {BuildsFrom(q.least, build) : build \in Tries}} :
           q \in JupiterQuotes}

-----------------------------------------------------------------------------
(* Uniswap V2, one chain: the pairs of the direct path and of the path over*)
(* a base token, then what each path pays (0: the call fails or its result *)
(* is not an amount).  A pair that cannot be read fails the quote; a path  *)
(* that cannot be priced is left out.                                      *)
Univ2Answers == [1..2 -> [pairs: {"there", "missing", "unread"}, out: 0..3]]

Univ2Viable(a) == {i \in 1..2 : a[i].pairs = "there"}

(* The amount of the best path that has one.                               *)
Univ2Best(a) == {a[i].out : i \in {j \in Univ2Viable(a) :
                    a[j].out > 0 /\ \A k \in Univ2Viable(a) : a[k].out <= a[j].out}}

(* The client's own call of the configured router, "x".                    *)
RouterRoute(ask, out) ==
    Route(Calls("x", IF ask.native THEN Amount ELSE 0, 0),
          IF ask.native THEN NoApproval ELSE Allow("x", Amount), AfterSlippage(out))

Univ2Routes(ask) ==
    {RouterRoute(ask, out) :
       out \in UNION {Univ2Best(a) : a \in {b \in Univ2Answers :
                                           b[1].pairs # "unread" /\ b[2].pairs # "unread"}}}

-----------------------------------------------------------------------------
(* dispatch: a candidate is quoted by its channel's client on the device,  *)
(* or by the server, which answers with a channel of its own choice.       *)
OneChain == {"jupiter", "univ2", "univ3"}
DeviceChannels == {"bungee", "lifi", "bridgers"} \union OneChain
ServerChannels == {"okx", "bungee", "lifi", "bridgers", "jupiter"}

Dispatched(cross) ==
    {p \in [ch: DeviceChannels, via: {"device"}] \union [ch: ServerChannels, via: {"server"}] :
       cross => p.ch \notin OneChain}

(* The requests a channel's client does not refuse for their chains.       *)
AsksOf(ch, cross) ==
    {ask \in Asks : ask.cross = cross /\ (ask.tron => ch \notin OneChain)}

RoutesOf(ch, ask) ==
    CASE ch = "bridgers" -> BridgersRoutes(ask)
      [] ch = "okx"      -> OkxRoutes(ask)
      [] ch = "lifi"     -> LifiRoutes(ask)
      [] ch = "bungee"   -> BungeeRoutes(ask)
      [] ch = "jupiter"  -> JupiterRoutes(ask)
      [] ch = "univ2"    -> Univ2Routes(ask)
      [] ch = "univ3"    -> {[RouterRoute(ask, 2) EXCEPT !.charged = ask.fee]}
=============================================================================
