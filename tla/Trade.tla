------------------------------- MODULE Trade --------------------------------
(***************************************************************************)
(* One trade of a wallet: the quotes of the engine, the route the user     *)
(* takes, its transaction, and the status the wallet asks for until it has *)
(* a verdict.  The route's details come with its quote; here they are      *)
(* picked when the route is taken, so that the engine's state stays small, *)
(* and the engine's state is dropped then: its response does not change.   *)
(***************************************************************************)
EXTENDS QuoteEngine, SwapRoutes, SwapStatus

(* A call without a candidate is answered too: NO_CANDIDATE.               *)
ASSUME EmptyAssumption == <<>> \in Requests

VARIABLE trade
tradeVars == <<engineVars, trade>>

NoTrade == [stage |-> "none"]
NoAsk == [native |-> FALSE, tron |-> FALSE, cross |-> FALSE, fee |-> FALSE, payee |-> FALSE]
NoRoute == Route(NoTx, NoApproval, 0)

Taken(ch, cross) ==
    [stage |-> "taken", ch |-> ch, ask |-> [NoAsk EXCEPT !.cross = cross],
     route |-> NoRoute, order |-> "none", source |-> "pool", deal |-> "none",
     verdict |-> Pending_]

TradeInit == EngineInit /\ trade = NoTrade

(* The provider keeps a record of the swap.                                *)
Brokered(t) == \/ t.ch \in {"bridgers", "bungee", "lifi"}
               \/ t.ch = "okx" /\ t.ask.cross

-----------------------------------------------------------------------------
(* AutoQuote: the engine with dispatch.                                    *)
AutoQuote == trade = NoTrade /\ EngineNext /\ UNCHANGED trade

Answered == /\ trade = NoTrade
            /\ Respond \/ \E i \in DOMAIN cands : Answers(i)
            /\ UNCHANGED trade

(* The user takes one of the routes.                                       *)
Take ==
    /\ trade = NoTrade /\ Responded
    /\ \E i \in ToSet(resp.routes) :
         \E p \in Dispatched(cands[i].cross) : trade' = Taken(p.ch, cands[i].cross)
    /\ cands' = <<>> /\ results' = <<>>
    /\ expired' = FALSE /\ resp' = NoResponse

Quoted ==
    /\ trade.stage = "taken"
    /\ \E ask \in AsksOf(trade.ch, trade.ask.cross) : \E r \in RoutesOf(trade.ch, ask) :
         trade' = [trade EXCEPT !.stage = "quoted", !.ask = ask, !.route = r]
    /\ UNCHANGED engineVars

(* BuildTx of a route that was only priced: the server asks OKX again.     *)
(* Every other channel has the transaction in its route.                   *)
BuildTx ==
    /\ trade.stage = "quoted" /\ trade.route.build
    /\ \E r \in OkxSingle(trade.ask) : trade' = [trade EXCEPT !.route = r]
    /\ UNCHANGED engineVars

(* The wallet signs what the route carries and broadcasts it.              *)
Send ==
    /\ trade.stage = "quoted" /\ trade.route.tx # NoTx
    /\ trade' = [trade EXCEPT !.stage = "sent", !.route = NoRoute,
                              !.ask = [NoAsk EXCEPT !.cross = trade.ask.cross,
                                                    !.tron = trade.ask.tron]]
    /\ UNCHANGED engineVars

(* GenerateOrder: when the answer is lost the provider still has the order.*)
OrderAfter(answered) == IF answered THEN "known" ELSE "reported"

(* SubmitIntent: Bridgers is told the hash of the source transaction and   *)
(* answers with the number of the order; told again, it answers with the   *)
(* same number.                                                            *)
Submit(answered) ==
    /\ trade.stage = "sent" /\ trade.ch = "bridgers" /\ trade.order # "known"
    /\ trade' = [trade EXCEPT !.order = OrderAfter(answered)]
    /\ UNCHANGED engineVars

Mine ==
    /\ trade.stage = "sent" /\ trade.source = "pool"
    /\ \E s \in {"ok", "failed", "dropped"} : trade' = [trade EXCEPT !.source = s]
    /\ UNCHANGED engineVars

Provide ==
    /\ trade.stage = "sent" /\ Brokered(trade)
    /\ trade.ch = "bridgers" => trade.order # "none"
    /\ \E d \in Becomes(trade.deal, trade.source) : trade' = [trade EXCEPT !.deal = d]
    /\ UNCHANGED engineVars

(* What the one who is asked can say at this time.                         *)
Words(t) ==
    CASE t.ch = "bridgers"             -> BridgersWords[t.deal]
      [] t.ch = "bungee"               -> BungeeWords[t.deal]
      [] t.ch = "lifi"                 -> LifiWords[t.deal]
      [] t.ch = "okx" /\ t.ask.cross   -> OkxWords[t.deal]
      [] t.ch = "okx" /\ ~t.ask.cross  -> HistoryWords[t.source]
      [] t.ch = "jupiter"              -> SolanaWords[t.source]
      [] t.ch \in {"univ2", "univ3"}   -> ReceiptWords[t.source]

Replies(t) ==
    [status: Words(t), to: ToHashes(t.ch, t.deal), refund: RefundHashes(t.deal)]
    \union {Unreachable}

(* CheckTx, asked again until the verdict is final; an answer that is not  *)
(* final leaves nothing behind.  Bridgers is asked by the order's number.  *)
Poll ==
    /\ trade.stage = "sent" /\ trade.verdict = Pending_
    /\ trade.ch = "bridgers" => trade.order = "known"
    /\ \E r \in Replies(trade) :
         LET v == StatusOf(trade.ch, trade.ask.cross, trade.ask.tron, r)
         IN v.status \in Final /\ trade' = [trade EXCEPT !.verdict = v]
    /\ UNCHANGED engineVars

TradeNext ==
    \/ AutoQuote \/ Take \/ Quoted \/ BuildTx \/ Send
    \/ \E answered \in BOOLEAN : Submit(answered)
    \/ Mine \/ Provide \/ Poll

TradeSpec == TradeInit /\ [][TradeNext]_tradeVars

(* Channels return, because their clients honour the deadline or have one  *)
(* of their own, and the engine answers; a provider goes on with a swap it *)
(* knows of, and the wallet asks again: for the number of the order until  *)
(* it has it, for the status until it is final.  The user need not take a  *)
(* route, and a transaction need not be mined.                             *)
FairTrade ==
    /\ TradeSpec
    /\ WF_tradeVars(Answered)
    /\ WF_tradeVars(Provide)
    /\ WF_tradeVars(Submit(TRUE) \/ Poll)

-----------------------------------------------------------------------------
(* Whatever a provider answers, for every route that is shown: the user is *)
(* asked to allow the contract that is called, or the one that OKX named,  *)
(* no more than the amount of the request, and nothing for a native coin;  *)
(* what a Bridgers swap or a router is paid is that amount or 0; no limit  *)
(* is above the SDK's, and on TRON there is one; where the client builds   *)
(* or reads the call, it enforces the minimum that is shown; and a fee     *)
(* that was asked for is taken or the quote refused.  Exceptions: LI.FI    *)
(* and Bungee are trusted with allowances, and with the chain of the       *)
(* transaction; Uniswap V2 takes no fee, Jupiter none without an account.  *)
RouteBounded ==
    trade.stage = "quoted" =>
        LET r == trade.route  ask == trade.ask  ch == trade.ch
            trusted == ch \in {"lifi", "bungee"}
            ours == ch \in {"univ2", "univ3"}
        IN /\ ~trusted => /\ r.approval.amount <= Amount
                          /\ ask.native => r.approval = NoApproval
                          /\ ask.tron /\ r.tx # NoTx => r.tx.limit > 0
           /\ r.tx.limit <= MaxFeeLimit
           /\ ours \/ ch = "bridgers" =>
                /\ r.approval.spender \in {"", r.tx.to}
                /\ r.tx.value = (IF ask.native THEN Amount ELSE 0)
           /\ ours \/ ch = "jupiter" \/ (ch = "bridgers" /\ ask.tron) => r.min <= r.enforces
           /\ ask.fee => \/ r.charged \/ r.build \/ ch = "univ2"
                         \/ (ch = "jupiter" /\ ~ask.payee)

(* A final verdict is the swap's fate: a success was paid out, and is not  *)
(* proved by a hash of anything else; a refund was paid back; what failed  *)
(* is neither paid nor still to be paid.  Jupiter reports the error of a   *)
(* transaction that is only processed, which a fork may still undo.        *)
FateTold ==
    trade.stage = "sent" =>
        LET v == trade.verdict
        IN CASE v.status = "Succeeded" ->
                  IF Brokered(trade) THEN trade.deal = "paid" /\ v.hash \in {"", "payment"}
                  ELSE trade.source = "ok"
             [] v.status = "Refunded" ->
                  /\ trade.deal = "refunded"
                  /\ trade.ch \in {"okx", "lifi"} => v.hash \in {"", "refund"}
             [] v.status = "Failed" ->
                  IF Brokered(trade) THEN trade.deal \in {"lost", "void", "expired"}
                  ELSE trade.source = "failed" \/ trade.ch = "jupiter"
             [] OTHER -> TRUE

(* The wallet can learn the fate: the source transaction is mined, or a    *)
(* provider notices that it never came.  It can not for OKX's swaps on     *)
(* TRON, OKX's swaps across chains that fail, and a Bridgers order that is *)
(* left to support.  (OKX's swaps to TRON have no status either; where a   *)
(* swap goes is not in the model.)                                         *)
Knowable(t) ==
    /\ \/ t.source \in {"ok", "failed"}
       \/ t.source = "dropped" /\ t.ch \in {"bridgers", "bungee"}
    /\ t.ch = "okx" => ~t.ask.tron
    /\ t.ch = "okx" /\ t.ask.cross => t.source = "ok" /\ t.deal # "lost"
    /\ t.ch = "bridgers" => t.deal # "lost"

(* The caller of AutoQuote gets a response, and a wallet that keeps asking *)
(* gets a final verdict on a swap whose fate can be known.                 *)
SwapEnds ==
    /\ <>(Responded \/ trade # NoTrade)
    /\ []<>(trade.stage = "sent" /\ Knowable(trade) => trade.verdict # Pending_)
=============================================================================
