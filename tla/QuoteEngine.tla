---------------------------- MODULE QuoteEngine -----------------------------
(***************************************************************************)
(* Engine.Quote of package dex: ask every candidate channel at once, wait  *)
(* for all of them under one deadline, and turn the answers into a ranked  *)
(* list of routes, one failure per candidate that has none, and a reason   *)
(* when there is no route at all.                                          *)
(*                                                                         *)
(* Amounts are US dollars.  The engine computes in floating point; here a  *)
(* value is an integer in units of 1/Scale dollar.                         *)
(***************************************************************************)
EXTENDS Ranking, Integers, Sequences, SequencesExt, FiniteSetsExt

CONSTANTS
    Requests,   \* sets of candidates a call can carry, each a sequence
    Offers,     \* first routes a channel can answer with
    FromUsd     \* FromAmountUsd of the request

Scale == 1000
ThinLiquidityPct == 5

(* What went wrong with a channel, as classifyQuoteFailure tells errors    *)
(* apart: no client for the chain, an HTTP status 429, the end of a        *)
(* context, the local rate limiter, anything else.                         *)
Errors == {"config", "http429", "deadline", "limiter", "other"}

(* A candidate: does it leave the chain, how deep is its pool (0: unknown),*)
(* is its token on the scam list.                                          *)
Candidate == [cross: BOOLEAN, liq: Nat, scam: BOOLEAN]

(* An answer: an error, no output, no route, or a first route with its     *)
(* gross value, its price impact in percent as the provider sends it (which*)
(* nothing keeps below 100) and the provider's warning.                    *)
Bare(kind) == [kind |-> kind, usd |-> 0, impact |-> 0, high |-> FALSE]
Answer == {Bare(k) : k \in Errors \union {"nil", "empty"}}
          \union [kind: {"route"}, usd: Nat, impact: Int, high: BOOLEAN]
Pending == Bare("pending")

ASSUME RequestsAssumption == Requests \subseteq Seq(Candidate)
ASSUME OffersAssumption == Offers \subseteq Answer
ASSUME FromUsdAssumption == FromUsd \in Nat

VARIABLES
    cands,      \* the candidates of the call
    results,    \* results[i], written by the goroutine of candidate i
    expired,    \* qctx has passed its deadline
    resp        \* the response; NoResponse before wg.Wait returns

engineVars == <<cands, results, expired, resp>>

NoResponse == [routes |-> <<>>, recommended |-> 0, failures |-> <<>>,
               reason |-> "pending"]

EngineInit ==
    /\ cands \in Requests
    /\ results = [i \in DOMAIN cands |-> Pending]
    /\ expired = FALSE
    /\ resp = NoResponse

-----------------------------------------------------------------------------
(* The order in which classifyQuoteFailure tests an error; a limiter whose *)
(* wait the deadline cut short is a "deadline" error, because              *)
(* RateLimitError unwraps to the error of the context.                     *)
ErrorCode(err) ==
    CASE err = "config"   -> "CONFIGURATION_ERROR"
      [] err = "http429"  -> "RATE_LIMITED"
      [] err = "deadline" -> "TIMEOUT"
      [] err = "limiter"  -> "RATE_LIMITED"
      [] OTHER            -> "PROVIDER_ERROR"

FailureCode(r) ==
    CASE r.kind = "nil"   -> "PROVIDER_ERROR"
      [] r.kind = "empty" -> "NO_ROUTE"
      [] OTHER            -> ErrorCode(r.kind)

Asked(cs) == {p \in (DOMAIN cs) \X (DOMAIN cs) : p[1] < p[2]}

(* One failure per candidate without a route, in the order of the request. *)
Failures(cs, rs) ==
    LET without == InOrder({i \in DOMAIN cs : rs[i].kind # "route"}, Asked(cs))
    IN [j \in DOMAIN without |->
          [cand |-> without[j], code |-> FailureCode(rs[without[j]])]]

-----------------------------------------------------------------------------
Gross(r) == r.usd * Scale

(* expectedFillUsd: the price impact if the provider knows it, else the    *)
(* depth of the pool; 0 when neither is known, or when the impact is 100   *)
(* percent, and less than that when it is more.                            *)
ExpectedFill(c, r) ==
    IF r.impact > 0 THEN (Gross(r) * (100 - r.impact)) \div 100
    ELSE IF FromUsd > 0 /\ c.liq > 0 THEN (Gross(r) * c.liq) \div (c.liq + FromUsd)
    ELSE 0

SortKeyGross(c, r) == Gross(r)      \* mutant: rank by the gross amount
SortKey(c, r) == IF ExpectedFill(c, r) = 0 THEN Gross(r) ELSE ExpectedFill(c, r)

Thin(c) == FromUsd > 0 /\ c.liq > 0 /\ FromUsd * 100 > c.liq * ThinLiquidityPct

(* IsRouteUnsafe, with the warning the engine adds for a thin pool.        *)
Unsafe(c, r) == r.high \/ Thin(c)

(* The comparison of sort.SliceStable.                                     *)
Less(cs, rs, i, j) ==
    IF Unsafe(cs[i], rs[i]) # Unsafe(cs[j], rs[j]) THEN ~Unsafe(cs[i], rs[i])
    ELSE IF SortKey(cs[i], rs[i]) # SortKey(cs[j], rs[j])
         THEN SortKey(cs[i], rs[i]) > SortKey(cs[j], rs[j])
    ELSE ~cs[i].cross /\ cs[j].cross

(* The routes, sorted; a stable sort keeps the order of the request.       *)
Before(cs, rs) ==
    {p \in (DOMAIN cs) \X (DOMAIN cs) :
       Less(cs, rs, p[1], p[2]) \/ (~Less(cs, rs, p[2], p[1]) /\ p[1] < p[2])}

Ranked(cs, rs) == InOrder({i \in DOMAIN cs : rs[i].kind = "route"}, Before(cs, rs))

Recommended(cs, rs, ranked) ==
    IF ranked # <<>> /\ ~Unsafe(cs[ranked[1]], rs[ranked[1]]) THEN ranked[1] ELSE 0

(* Mutant: only a channel's own deadline counts, not that of the call.     *)
ReasonOfAnswers(codes, late) ==
    IF "CONFIGURATION_ERROR" \in codes THEN "QUOTE_CONFIGURATION_ERROR"
    ELSE IF "TIMEOUT" \in codes THEN "QUOTE_TIMEOUT"
    ELSE IF "RATE_LIMITED" \in codes THEN "QUOTE_RATE_LIMITED"
    ELSE IF "PROVIDER_ERROR" \in codes THEN "QUOTE_PROVIDER_ERROR"
    ELSE "NO_ROUTE_AVAILABLE"

Reason(codes, late) ==
    IF "CONFIGURATION_ERROR" \in codes THEN "QUOTE_CONFIGURATION_ERROR"
    ELSE IF "TIMEOUT" \in codes \/ late THEN "QUOTE_TIMEOUT"
    ELSE IF "RATE_LIMITED" \in codes THEN "QUOTE_RATE_LIMITED"
    ELSE IF "PROVIDER_ERROR" \in codes THEN "QUOTE_PROVIDER_ERROR"
    ELSE "NO_ROUTE_AVAILABLE"

Aggregate ==
    LET ranked == Ranked(cands, results)
        fails  == Failures(cands, results)
        codes  == {fails[j].code : j \in DOMAIN fails}
    IN [routes |-> ranked,
        recommended |-> Recommended(cands, results, ranked),
        failures |-> fails,
        reason |-> IF cands = <<>> THEN "NO_CANDIDATE"
                   ELSE IF ranked # <<>> THEN ""
                   ELSE Reason(codes, expired)]

-----------------------------------------------------------------------------
(* The goroutine of candidate i: a token on the scam list is not asked     *)
(* about; otherwise the channel answers, before or after the deadline (the *)
(* engine passes the context on, it does not enforce it).                  *)
Answers(i) ==
    /\ results[i] = Pending
    /\ \E r \in Offers :
         /\ cands[i].scam => r = Bare("other")
         /\ results' = [results EXCEPT ![i] = r]
    /\ UNCHANGED <<cands, expired, resp>>

(* qctx passes its deadline while the call waits; when Quote returns, its   *)
(* deferred cancel ends qctx, and the deadline is of no account any more.  *)
Expire ==
    /\ ~expired
    /\ resp = NoResponse
    /\ expired' = TRUE
    /\ UNCHANGED <<cands, results, resp>>

(* wg.Wait.                                                                *)
AllDone == \A i \in DOMAIN cands : results[i] # Pending

Respond ==
    /\ resp = NoResponse
    /\ AllDone
    /\ resp' = Aggregate
    /\ UNCHANGED <<cands, results, expired>>

EngineNext ==
    \/ \E i \in DOMAIN cands : Answers(i)
    \/ Expire
    \/ Respond

EngineSpec == EngineInit /\ [][EngineNext]_engineVars

-----------------------------------------------------------------------------
Responded == resp # NoResponse

EngineTypeOK ==
    /\ cands \in Requests
    /\ results \in [DOMAIN cands -> Answer \union {Pending}]
    /\ expired \in BOOLEAN
    /\ resp.recommended \in {0} \union ToSet(resp.routes)
    /\ resp.reason \in {"pending", "", "NO_CANDIDATE", "QUOTE_CONFIGURATION_ERROR",
                        "QUOTE_TIMEOUT", "QUOTE_RATE_LIMITED",
                        "QUOTE_PROVIDER_ERROR", "NO_ROUTE_AVAILABLE"}

(* What the recipient can expect of a route: the gross value less what the *)
(* trade moves the price by, as far as the engine knows.                   *)
Worth(c, r) ==
    CASE r.impact > 0 -> Gross(r) - (Gross(r) * r.impact) \div 100
      [] r.impact <= 0 /\ c.liq > 0 /\ FromUsd > 0
                      -> Gross(r) - (Gross(r) * FromUsd) \div (c.liq + FromUsd)
      [] OTHER        -> Gross(r)

(* A route of which nothing is left has an expected fill of 0, which the   *)
(* sort takes for an unknown one.                                          *)
NothingLeft(r) == r.impact = 100

(* Every candidate is a route or a failure of the response, once; no route *)
(* with a warning is ranked above one without; and of two routes that the  *)
(* engine cannot tell apart the one asked first is first.                  *)
RankingFair ==
    /\ Responded =>
         \A i \in DOMAIN cands :
             Cardinality({j \in DOMAIN resp.routes : resp.routes[j] = i}) +
             Cardinality({j \in DOMAIN resp.failures : resp.failures[j].cand = i}) = 1
    /\ \A a, b \in DOMAIN resp.routes :
         LET i == resp.routes[a]  j == resp.routes[b]
         IN /\ ~Unsafe(cands[i], results[i]) /\ Unsafe(cands[j], results[j]) => a < b
            /\ i < j /\ cands[i] = cands[j] /\ results[i] = results[j] => a < b

(* The ranking is fair, and the recommended route is the first of it,      *)
(* carries no warning from anyone, and is worth at least as much as every  *)
(* other route without one (within the rounding of one unit), unless it is *)
(* one of which nothing is left: the engine ranks that by its gross value. *)
(* There is one whenever a route without a warning exists.                 *)
RecommendedIsBest ==
    LET clean == {i \in ToSet(resp.routes) : ~results[i].high /\ ~Thin(cands[i])}
        r     == resp.recommended
    IN  /\ EngineTypeOK /\ RankingFair
        /\ clean = {} => r = 0
        /\ clean # {} => r \in clean /\ r = resp.routes[1]
        /\ \A i \in clean :
             NothingLeft(results[r]) \/
             Worth(cands[r], results[r]) + 1 >= Worth(cands[i], results[i])

(* The reason is given exactly when there is no route.  It says that there *)
(* is none only when every channel answered so and the deadline of the     *)
(* call had not passed by then; a call without a route that was late, by   *)
(* its own deadline or by a channel's, says so unless a channel is not     *)
(* configured; and the provider is blamed for no deadline.                 *)
ReasonExplains ==
    Responded =>
        LET codes == {resp.failures[j].code : j \in DOMAIN resp.failures}
        IN /\ resp.reason = "" <=> resp.routes # <<>>
           /\ resp.reason = "NO_ROUTE_AVAILABLE" => codes = {"NO_ROUTE"} /\ ~expired
           /\ /\ cands # <<>> /\ resp.routes = <<>>
              /\ expired \/ "TIMEOUT" \in codes
              /\ "CONFIGURATION_ERROR" \notin codes
              => resp.reason = "QUOTE_TIMEOUT"
           /\ resp.reason = "QUOTE_PROVIDER_ERROR" =>
                "PROVIDER_ERROR" \in codes /\ "TIMEOUT" \notin codes
=============================================================================
