----------------------------- MODULE Univ3Quote -----------------------------
(***************************************************************************)
(* Quote of the Uniswap V3 client, from the moment the deployment has been *)
(* verified (Deployment): the candidate routes, the state of their pools   *)
(* (each asked through poolExists, see PoolCache), the calls to the Quoter *)
(* that run at once under a limit, the choice of the best and the amounts  *)
(* of the answer.  One quote; its context may end at any moment.           *)
(***************************************************************************)
EXTENDS Integers, Sequences, SequencesExt, FiniteSets

CONSTANTS
    Requests,       \* pairs <<tokenIn, tokenOut>> that validateQuote lets pass
    FeeTiers,       \* sequence of fee tiers, as configured
    BaseTokens,     \* sequence of quoteBaseTokens, as configured
    Amounts,        \* amounts a Quoter may answer
    Slippage,       \* percentage
    FeeBips,        \* platform fee in basis points
    QuoterSlots     \* maxQuoterRPCConcurrency

ASSUME RequestsAssumption == \A r \in Requests : r[1] # r[2]
ASSUME TiersAssumption == FeeTiers \in Seq(Nat) /\ BaseTokens \in Seq(Range(BaseTokens))
ASSUME AmountsAssumption == Amounts \subseteq Nat \ {0}
ASSUME SlippageAssumption == Slippage \in 1 .. 99
ASSUME FeeAssumption == FeeBips \in 0 .. 100
ASSUME QuoterSlotsAssumption == QuoterSlots \in Nat \ {0}

-----------------------------------------------------------------------------
(* poolKey: the order of the two tokens does not matter.                   *)
Pool(a, b, fee) == <<{a, b}, fee>>

Direct(in, out) == [i \in DOMAIN FeeTiers |-> <<Pool(in, out, FeeTiers[i])>>]

Via(in, base, out) ==
    FlattenSeq([i \in DOMAIN FeeTiers |-> [j \in DOMAIN FeeTiers |->
        <<Pool(in, base, FeeTiers[i]), Pool(base, out, FeeTiers[j])>>]])

(* candidateRoutes: each is the sequence of its pools.                     *)
Routes(in, out) ==
    Direct(in, out) \o FlattenSeq([b \in DOMAIN BaseTokens |->
        IF BaseTokens[b] \in {in, out} THEN <<>> ELSE Via(in, BaseTokens[b], out)])

PoolsOf(route) == {route[i] : i \in DOMAIN route}

(* candidatePoolsExist *)
PoolsExist(route, states) == \A p \in PoolsOf(route) : states[p] = "yes"

(* applyQuoteSlippage and deductPlatformFee round down.                    *)
GrossMinimum(amount) == (amount * (100 - Slippage)) \div 100
Net(amount) == amount - (amount * FeeBips) \div 10000

-----------------------------------------------------------------------------
VARIABLES
    request,
    ended,      \* has the context of the quote ended?
    phase,      \* "pools", "quoter", "finish", "returned"
    known,      \* pool -> what poolExists answered, "none" before
    quoted,     \* index of a viable candidate -> its goroutine's [at, amount]
    best,       \* index of the best candidate, 0: none
    answer      \* what Quote returned

quoteVars == <<request, ended, phase, known, quoted, best, answer>>

Candidates == Routes(request[1], request[2])
AllPools(r) == UNION {PoolsOf(Routes(r[1], r[2])[i]) : i \in DOMAIN Routes(r[1], r[2])}

NoAnswer == [kind |-> "none"]

QuoteInit ==
    /\ request \in Requests
    /\ ended = FALSE
    /\ phase = "pools"
    /\ known = [p \in AllPools(request) |-> "none"]
    /\ quoted = <<>>
    /\ best = 0
    /\ answer = NoAnswer

(* External: the deadline of the quote passes, or it is canceled.          *)
EndContext ==
    /\ phase # "returned" /\ ~ended
    /\ ended' = TRUE
    /\ UNCHANGED <<request, phase, known, quoted, best, answer>>

Respond(kind) ==
    /\ phase' = "returned"
    /\ answer' = [kind |-> kind]

-----------------------------------------------------------------------------
(* poolExists of one distinct pool returns.                                *)
PoolKnown(p) ==
    /\ phase = "pools"
    /\ known[p] = "none"
    /\ \E s \in {"yes", "no", "err"} : known' = [known EXCEPT ![p] = s]
    /\ UNCHANGED <<request, ended, phase, quoted, best, answer>>

At(state) == [at |-> state, amount |-> 0]

Viable == {i \in DOMAIN Candidates : PoolsExist(Candidates[i], known)}

PoolError == \E p \in DOMAIN known : known[p] = "err"

(* The end of resolveCandidatePools and the choice of the viable ones: an  *)
(* error matters only when no candidate is known to be complete.           *)
PoolsResolved ==
    /\ phase = "pools"
    /\ \A p \in DOMAIN known : known[p] # "none"
    /\ \/ /\ ended \/ (Viable = {} /\ PoolError)
          /\ Respond("error")
          /\ UNCHANGED quoted
       \/ /\ ~ended /\ Viable = {} /\ ~PoolError
          /\ Respond("empty")
          /\ UNCHANGED quoted
       \/ /\ ~ended /\ Viable # {}
          /\ phase' = "quoter"
          /\ quoted' = [i \in Viable |-> At("slot")]
          /\ UNCHANGED answer
    /\ UNCHANGED <<request, ended, known, best>>

-----------------------------------------------------------------------------
Outcomes ==
    {[at |-> "amount", amount |-> a] : a \in Amounts} \union {At("reverted"), At("failed")}

(* Mutant: a channel without a buffer.                                     *)
QuoterSlotFreeNever == FALSE

QuoterSlotFree == Cardinality({i \in DOMAIN quoted : quoted[i].at = "call"}) < QuoterSlots

TakeQuoterSlot(i) ==
    /\ quoted[i].at = "slot"
    /\ QuoterSlotFree
    /\ quoted' = [quoted EXCEPT ![i] = At("call")]
    /\ UNCHANGED <<request, ended, phase, known, best, answer>>

MissQuoterSlot(i) ==
    /\ quoted[i].at = "slot"
    /\ ended
    /\ quoted' = [quoted EXCEPT ![i] = At("failed")]
    /\ UNCHANGED <<request, ended, phase, known, best, answer>>

(* quoteCandidate: a positive amount, a revert (isExpectedQuoterFailure)   *)
(* or any other error; the result is sent and the slot given back.         *)
Quoted(i) ==
    /\ quoted[i].at = "call"
    /\ \E r \in Outcomes : quoted' = [quoted EXCEPT ![i] = r]
    /\ UNCHANGED <<request, ended, phase, known, best, answer>>

(* The results, by index, whatever their order of arrival.                 *)
Amount(i) == quoted[i].amount

(* Mutant: the last of equal amounts wins.                                 *)
IsBestLast(i) ==
    /\ Amount(i) > 0
    /\ \A j \in DOMAIN quoted :
         Amount(j) < Amount(i) \/ (Amount(j) = Amount(i) /\ j <= i)

IsBest(i) ==
    /\ Amount(i) > 0
    /\ \A j \in DOMAIN quoted :
         Amount(j) < Amount(i) \/ (Amount(j) = Amount(i) /\ i <= j)

(* Mutant: every error is a revert.                                        *)
InfrastructureErrorNever == FALSE

InfrastructureError == \E i \in DOMAIN quoted : quoted[i].at = "failed"

(* The end of bestQuotedCandidate.                                         *)
AllQuoted ==
    /\ phase = "quoter"
    /\ \A i \in DOMAIN quoted : quoted[i].at \notin {"slot", "call"}
    /\ \/ /\ ~ended /\ \E i \in DOMAIN quoted : IsBest(i) /\ best' = i
          /\ phase' = "finish"
          /\ UNCHANGED answer
       \/ /\ ~ended /\ \A i \in DOMAIN quoted : ~IsBest(i)
          /\ Respond(IF InfrastructureError THEN "error" ELSE "empty")
          /\ UNCHANGED best
       \/ ended /\ Respond("error") /\ UNCHANGED best
    /\ UNCHANGED <<request, ended, known, quoted>>

MinimumPositive ==
    /\ GrossMinimum(Amount(best)) > 0
    /\ Net(Amount(best)) > 0
    /\ Net(GrossMinimum(Amount(best))) > 0

Completed == ~ended

(* The rest of Quote: the minimum, the fee, the calldata and the context.  *)
Finish ==
    /\ phase = "finish"
    /\ IF MinimumPositive /\ Completed
         THEN /\ phase' = "returned"
              /\ answer' = [kind |-> "route", index |-> best,
                            amountOut |-> Net(Amount(best)),
                            amountOutMin |-> Net(GrossMinimum(Amount(best)))]
         ELSE Respond("error")
    /\ UNCHANGED <<request, ended, known, quoted, best>>

-----------------------------------------------------------------------------
Step ==
    \/ \E p \in DOMAIN known : PoolKnown(p)
    \/ PoolsResolved
    \/ \E i \in DOMAIN quoted : TakeQuoterSlot(i) \/ MissQuoterSlot(i) \/ Quoted(i)
    \/ AllQuoted \/ Finish

QuoteNext == Step \/ EndContext

QuoteSpec == QuoteInit /\ [][QuoteNext]_quoteVars

(* poolExists returns (PoolCache!LookupsReturn) and every call to the      *)
(* Quoter ends, since both carry the context of the quote.                 *)
FairQuote == QuoteSpec /\ WF_quoteVars(Step)

-----------------------------------------------------------------------------
QuoteTypeOK ==
    /\ request \in Requests
    /\ ended \in BOOLEAN
    /\ phase \in {"pools", "quoter", "finish", "returned"}
    /\ known \in [AllPools(request) -> {"none", "yes", "no", "err"}]
    /\ DOMAIN quoted \subseteq DOMAIN Candidates
    /\ \A i \in DOMAIN quoted : quoted[i] \in {At("slot"), At("call")} \union Outcomes
    /\ best \in 0 .. Len(Candidates)
    /\ answer.kind \in {"none", "route", "empty", "error"}

(* The route Quote returns goes through pools that exist only, pays the    *)
(* most of all the amounts answered and, among equals, comes first in the  *)
(* order of candidateRoutes, in whatever order the answers arrived.  It    *)
(* carries a positive minimum not above its amount, and is not returned    *)
(* once the context of the quote ended, even if every answer came in time. *)
RouteIsBest ==
    answer.kind = "route" =>
        LET i == answer.index
        IN  /\ ~ended
            /\ 0 < answer.amountOutMin /\ answer.amountOutMin <= answer.amountOut
            /\ \A p \in PoolsOf(Candidates[i]) : known[p] = "yes"
            /\ \A j \in DOMAIN quoted :
                 quoted[j].at = "amount" =>
                     \/ quoted[j].amount < quoted[i].amount
                     \/ quoted[j].amount = quoted[i].amount /\ i <= j

(* An answer without a route (not an error) means that nothing failed: no  *)
(* pool of a candidate that could be complete was left unknown, unless     *)
(* another candidate was complete and every Quoter call reverted.  And a   *)
(* quote fails only for a reason: its context ended, some pool or Quoter   *)
(* could not be asked, or the best amount is so small that the protected   *)
(* minimum is zero.                                                        *)
NoRouteExplained ==
    /\ QuoteTypeOK
    /\ answer.kind = "empty" =>
        /\ \A i \in DOMAIN quoted : quoted[i].at = "reverted"
        /\ DOMAIN quoted = {} => \A p \in DOMAIN known : known[p] \in {"yes", "no"}
    /\ answer.kind = "error" =>
        \/ ended
        \/ \E p \in DOMAIN known : known[p] = "err"
        \/ \E i \in DOMAIN quoted : quoted[i].at = "failed"
        \/ best # 0 /\ GrossMinimum(Amount(best)) = 0

(* Every quote returns.                                                    *)
QuoteReturns == <>(phase = "returned")
=============================================================================
