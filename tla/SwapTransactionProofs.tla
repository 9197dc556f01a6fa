----------------------- MODULE SwapTransactionProofs ------------------------
(***************************************************************************)
(* Why the user is protected by the minimum of the route for every amount, *)
(* fee, slippage and price: the fee rounds down, so what is left of an     *)
(* amount never decreases when the amount grows, and the transaction is    *)
(* always the calls of the route, with at most a permit in front.  And why *)
(* a transaction with a permit attached fails only for a reason: in front  *)
(* of the swap stands a permit that covers and outlives it.                *)
(*                                                                         *)
(* And why what the decoder shows is what executes, by induction on the    *)
(* levels it goes down: when it agrees with the router about the calls of  *)
(* a multicall it agrees about the multicall, because both read the calls  *)
(* in the same order and the multicall's deadline and block hash mean the  *)
(* same to both.                                                           *)
(***************************************************************************)
EXTENDS SwapPreview, FiniteFacts

LEMMA NotLess == \A a, b \in Nat : ~(a < b) => b <= a
OBVIOUS

LEMMA TimesAtMost == \A a \in Nat, b \in Nat : b <= 10000 => a * b <= a * 10000
<1> SUFFICES ASSUME NEW a \in Nat, NEW b \in Nat, b <= 10000 PROVE a * b <= a * 10000
    OBVIOUS
<1>1. 10000 - b \in Nat
    OBVIOUS
<1>2. a * (10000 - b) \in Nat
    BY <1>1, TimesNat
<1>3. a * (10000 - b) = a * 10000 - a * b
    OBVIOUS
<1>4. a * b \in Int /\ a * 10000 \in Int
    OBVIOUS
<1> QED BY <1>2, <1>3, <1>4

(* Steps of arithmetic on amounts and nonces.                              *)
LEMMA AtLeast == \A a, b, c \in Nat : a >= a /\ (a >= b /\ b >= c => ~(a < c))
OBVIOUS

LEMMA NextNat == \A n \in Nat : n + 1 \in Nat
OBVIOUS

(* What is left of an amount after the fee grows with the amount.          *)
LEMMA NetMonotone ==
    \A x, y, bips \in Nat : x <= y /\ bips <= 10000 => Net(x, bips) <= Net(y, bips)
<1> SUFFICES ASSUME NEW x \in Nat, NEW y \in Nat, NEW bips \in Nat, x <= y, bips <= 10000
             PROVE  Net(x, bips) <= Net(y, bips)
    OBVIOUS
<1>1. PICK d \in Nat : y = x + d
  <2>1. y - x \in Nat /\ y = x + (y - x)
      OBVIOUS
  <2> QED BY <2>1
<1> DEFINE px == x * bips
           py == y * bips
           pd == d * bips
<1>2. px \in Int /\ py \in Int /\ pd \in Int /\ py = px + pd
    BY <1>1
<1>3. pd <= d * 10000
    BY TimesAtMost
<1> SUFFICES x - (px \div 10000) <= y - (py \div 10000)
    BY DEF Net
<1> HIDE DEF px, py, pd
<1> QED BY <1>1, <1>2, <1>3

(* Without a fee nothing is taken.                                         *)
LEMMA NetWithoutFee == \A x \in Nat : Net(x, 0) = x
BY DEF Net

-----------------------------------------------------------------------------
(* What the user is promised, of a state of the router's execution.        *)
Protected(s, min) ==
    /\ s.why # "success"
    /\ s.why = "" => min <= s.paid.user /\ s.paid.router = 0

IsPermit(call) == call.op = "permit"

(* A state of the router's execution before the swap.                      *)
Before(s) ==
    /\ s.paid = Nothing /\ s.why # "success"
    /\ DOMAIN s = {"allowance", "nonce", "paid", "why"}

(* A permit pays nothing.                                                  *)
LEMMA PermitPaysNothing ==
    ASSUME NEW s, Before(s), NEW call, IsPermit(call), NEW market
    PROVE  Before(ExecuteCall(s, call, market))
<1>1. ExecuteCall(s, call, market) \in {s, ExecutePermit(s, call)}
    BY DEF ExecuteCall, IsPermit
<1>2. Before(ExecutePermit(s, call))
    BY DEF ExecutePermit, Before
<1> QED BY <1>1, <1>2

(* A transaction that reverted stays reverted.                             *)
LEMMA RevertIsFinal ==
    ASSUME NEW s, s.why # "", NEW call, NEW market
    PROVE  ExecuteCall(s, call, market) = s
BY DEF ExecuteCall

(* Only to has been paid.                                                  *)
PaidTo(paidBy, to, amount) ==
    /\ paidBy[to] = amount
    /\ \A other \in {"user", "fee", "router"} \ {to} : paidBy[other] = 0

LEMMA PayOne ==
    \A m : /\ PaidTo([Nothing EXCEPT !["user"] = m], "user", m)
           /\ PaidTo([Nothing EXCEPT !["router"] = m], "router", m)
BY DEF PaidTo, Nothing

(* A swap reverts, or pays at least its minimum to its recipient.          *)
LEMMA SwapCases ==
    ASSUME NEW s, Before(s), s.why = "", NEW call, call.min \in Nat,
           call.to \in {"user", "router"}, NEW market \in Nat
    PROVE  \/ ExecuteSwap(s, call, market).why \notin {"", "success"}
           \/ /\ ExecuteSwap(s, call, market).why = ""
              /\ call.min <= market
              /\ PaidTo(ExecuteSwap(s, call, market).paid, call.to, market)
              /\ DOMAIN ExecuteSwap(s, call, market) = {"allowance", "nonce", "paid", "why"}
<1> DEFINE left == IF route.request.inNative THEN s.allowance ELSE s.allowance - call.amountIn
           sent == [s EXCEPT !.allowance = left, !.paid = [s.paid EXCEPT ![call.to] = market]]
<1>1. \/ \E why \in {"expired", "allowance", "slippage"} :
              ExecuteSwap(s, call, market) = [s EXCEPT !.why = why]
      \/ call.min <= market /\ ExecuteSwap(s, call, market) = sent
  <2>1. CASE clock > call.deadline
      BY <2>1 DEF ExecuteSwap
  <2>2. CASE ~(clock > call.deadline) /\ ~route.request.inNative /\ s.allowance < call.amountIn
      BY <2>2 DEF ExecuteSwap
  <2>3. CASE /\ ~(clock > call.deadline)
             /\ ~(~route.request.inNative /\ s.allowance < call.amountIn)
    <3>1. CASE market < call.min
        BY <2>3, <3>1 DEF ExecuteSwap
    <3>2. CASE ~(market < call.min)
      <4>1. call.min <= market
          BY <3>2, NotLess, Zenon
      <4>2. ExecuteSwap(s, call, market) = sent
          BY <2>3, <3>2, Zenon DEF ExecuteSwap
      <4> QED BY <4>1, <4>2
    <3> QED BY <3>1, <3>2
  <2> QED BY <2>1, <2>2, <2>3
<1>2. \A why \in {"expired", "allowance", "slippage"} : [s EXCEPT !.why = why].why \notin {"", "success"}
    BY DEF Before
<1>3. /\ sent.why = "" /\ DOMAIN sent = DOMAIN s
      /\ PaidTo(sent.paid, call.to, market)
  <2>1. sent.paid = [s.paid EXCEPT ![call.to] = market]
    <3> HIDE DEF left
    <3> QED BY DEF Before
  <2>2. sent.why = "" /\ DOMAIN sent = DOMAIN s
      BY DEF Before
  <2>3. PaidTo([s.paid EXCEPT ![call.to] = market], call.to, market)
    <3>1. s.paid = Nothing
        BY DEF Before
    <3>2. CASE call.to = "user"
        BY <3>1, <3>2, PayOne, Zenon
    <3>3. CASE call.to = "router"
        BY <3>1, <3>3, PayOne, Zenon
    <3> QED BY <3>2, <3>3
  <2> QED BY <2>1, <2>2, <2>3
<1> HIDE DEF sent
<1> QED BY <1>1, <1>2, <1>3 DEF Before

(* A swap that pays the user pays the minimum.                             *)
LEMMA SwapToUser ==
    ASSUME NEW s, Before(s), NEW call, call.op = "swap", call.to = "user",
           call.min \in Nat, NEW market \in Nat
    PROVE  Protected(ExecuteCall(s, call, market), call.min)
<1>1. CASE s.why # ""
    BY <1>1, RevertIsFinal DEF Protected, Before
<1>2. CASE s.why = ""
  <2>1. ExecuteCall(s, call, market) = ExecuteSwap(s, call, market)
      BY <1>2 DEF ExecuteCall
  <2>2. /\ ExecuteSwap(s, call, market).why # "success"
        /\ ExecuteSwap(s, call, market).why = "" =>
              call.min <= market /\ PaidTo(ExecuteSwap(s, call, market).paid, "user", market)
      BY <1>2, SwapCases
  <2>3. ASSUME NEW spent, PaidTo(spent, "user", market)
        PROVE  spent.user = market /\ spent.router = 0
      BY <2>3 DEF PaidTo
  <2> QED BY <2>1, <2>2, <2>3 DEF Protected
<1> QED BY <1>1, <1>2

(* A swap that pays the router, and the payment that takes the fee.        *)
LEMMA SwapThenPay ==
    ASSUME NEW s, Before(s), NEW c, NEW d, NEW market \in Nat,
           c.op = "swap", c.to = "router", c.min \in Nat,
           d.op = "pay", d.bips \in 0 .. 100
    PROVE  Protected(ExecuteCall(ExecuteCall(s, c, market), d, market), Net(c.min, d.bips))
<1> DEFINE t == ExecuteCall(s, c, market)
<1>0. s.why = "" =>
          \/ ExecuteSwap(s, c, market).why \notin {"", "success"}
          \/ /\ ExecuteSwap(s, c, market).why = ""
             /\ c.min <= market
             /\ PaidTo(ExecuteSwap(s, c, market).paid, "router", market)
             /\ DOMAIN ExecuteSwap(s, c, market) = {"allowance", "nonce", "paid", "why"}
  <2>1. c.to \in {"user", "router"}
      OBVIOUS
  <2>2. s.why = "" =>
          \/ ExecuteSwap(s, c, market).why \notin {"", "success"}
          \/ /\ ExecuteSwap(s, c, market).why = ""
             /\ c.min <= market
             /\ PaidTo(ExecuteSwap(s, c, market).paid, c.to, market)
             /\ DOMAIN ExecuteSwap(s, c, market) = {"allowance", "nonce", "paid", "why"}
      BY <2>1, SwapCases
  <2> QED BY <2>2
<1>1. CASE t.why # ""
  <2>1. t.why # "success"
    <3>1. CASE s.why # ""
        BY <3>1, RevertIsFinal DEF Before
    <3>2. CASE s.why = ""
      <4>1. t = ExecuteSwap(s, c, market)
          BY <3>2 DEF ExecuteCall
      <4> QED BY <3>2, <4>1, <1>0
    <3> QED BY <3>1, <3>2
  <2> HIDE DEF t
  <2>2. ExecuteCall(t, d, market) = t
      BY <1>1, RevertIsFinal
  <2>3. Protected(ExecuteCall(t, d, market), Net(c.min, d.bips))
      BY <1>1, <2>1, <2>2 DEF Protected
  <2> QED BY <2>3 DEF t
<1>2. CASE t.why = ""
  <2>1. s.why = "" /\ t = ExecuteSwap(s, c, market)
      BY <1>2, RevertIsFinal DEF ExecuteCall
  <2>2. /\ c.min <= market
        /\ PaidTo(t.paid, "router", market)
        /\ DOMAIN t = {"allowance", "nonce", "paid", "why"}
      BY <1>2, <2>1, <1>0
  <2>3. t.paid.router = market
      BY <2>2 DEF PaidTo
  <2> HIDE DEF t
  <2>4. ExecuteCall(t, d, market) = ExecutePay(t, d)
      BY <1>2 DEF ExecuteCall
  <2>5. /\ ExecutePay(t, d).why # "success"
        /\ ExecutePay(t, d).why = "" =>
              /\ ExecutePay(t, d).paid.user = Net(market, d.bips)
              /\ ExecutePay(t, d).paid.router = 0
    <3> DEFINE shares == [user |-> Net(market, d.bips), fee |-> market - Net(market, d.bips),
                          router |-> 0]
    <3>1. \/ ExecutePay(t, d) = [t EXCEPT !.why = "payment"]
          \/ ExecutePay(t, d) = [t EXCEPT !.paid = shares]
        BY <2>3 DEF ExecutePay
    <3>2. [t EXCEPT !.why = "payment"].why \notin {"", "success"}
        BY <2>2
    <3>3. shares.user = Net(market, d.bips) /\ shares.router = 0
        OBVIOUS
    <3> HIDE DEF shares
    <3>4. [t EXCEPT !.paid = shares].paid = shares /\ [t EXCEPT !.paid = shares].why = ""
        BY <1>2, <2>2
    <3> QED BY <3>1, <3>2, <3>3, <3>4
  <2>6. Net(c.min, d.bips) <= Net(market, d.bips)
    <3>1. d.bips \in Nat /\ d.bips <= 10000
        OBVIOUS
    <3> QED BY <2>2, <3>1, NetMonotone
  <2>7. Protected(ExecuteCall(t, d, market), Net(c.min, d.bips))
      BY <2>4, <2>5, <2>6 DEF Protected
  <2> QED BY <2>7 DEF t
<1> QED BY <1>1, <1>2

-----------------------------------------------------------------------------
IsRoute(rt) ==
    \E r \in ValidRequests, gross \in Nat, deadline \in Nat :
        rt = [request |-> r, expiresAt |-> deadline, min |-> Net(gross, r.bips),
              calls |-> Calls(r, gross, deadline)]

RouteInv == route = NoRoute \/ IsRoute(route)

(* The transaction is the calls of the route, or a permit and these.       *)
TxInv ==
    tx # <<>> =>
        /\ IsRoute(route)
        /\ \/ tx = route.calls
           \/ \E p : IsPermit(p) /\ tx = <<p>> \o route.calls

(* Executed before anything was paid, the calls of a route protect the     *)
(* user: they are one call or two.                                         *)
LEMMA CallsProtect ==
    ASSUME IsRoute(route), NEW s, Before(s), NEW market \in MarketAmounts
    PROVE  \/ \E c : /\ route.calls = <<c>>
                     /\ Protected(ExecuteCall(s, c, market), route.min)
           \/ \E c, d : /\ route.calls = <<c, d>>
                        /\ Protected(ExecuteCall(ExecuteCall(s, c, market), d, market), route.min)
<1>1. PICK r \in ValidRequests, gross \in Nat, deadline \in Nat :
          route = [request |-> r, expiresAt |-> deadline, min |-> Net(gross, r.bips),
                   calls |-> Calls(r, gross, deadline)]
    BY DEF IsRoute
<1>2. market \in Nat
    BY AmountsAssumption
<1>3. r.bips \in 0 .. 100
    BY RatesAssumption DEF ValidRequests, Requests
<1>4. route.min = Net(gross, r.bips) /\ route.calls = Calls(r, gross, deadline)
    BY <1>1
<1>5. CASE ThroughRouter(r)
  <2> DEFINE c == [op |-> "swap", to |-> "router", amountIn |-> r.amountIn,
                   min |-> gross, deadline |-> deadline]
             d == [op |-> "pay", min |-> gross, bips |-> r.bips]
  <2>1. route.calls = <<c, d>>
      BY <1>4, <1>5 DEF Calls
  <2>2. Protected(ExecuteCall(ExecuteCall(s, c, market), d, market), Net(gross, r.bips))
    <3>1. /\ c.op = "swap" /\ c.to = "router" /\ c.min = gross
          /\ d.op = "pay" /\ d.bips = r.bips
        OBVIOUS
    <3> HIDE DEF c, d
    <3> QED BY <3>1, <1>2, <1>3, SwapThenPay
  <2> QED BY <2>1, <2>2, <1>4
<1>6. CASE ~ThroughRouter(r)
  <2> DEFINE c == [op |-> "swap", to |-> "user", amountIn |-> r.amountIn,
                   min |-> gross, deadline |-> deadline]
  <2>1. r.bips = 0
      BY <1>3, <1>6 DEF ThroughRouter
  <2>2. route.calls = <<c>>
      BY <1>4, <1>6 DEF Calls
  <2>3. route.min = gross
      BY <2>1, <1>4, NetWithoutFee
  <2>4. Protected(ExecuteCall(s, c, market), gross)
    <3>1. c.op = "swap" /\ c.to = "user" /\ c.min = gross
        OBVIOUS
    <3> HIDE DEF c
    <3> QED BY <3>1, <1>2, SwapToUser
  <2> QED BY <2>2, <2>3, <2>4
<1> QED BY <1>5, <1>6

(* A call in front of one call, or of two.                                 *)
LEMMA InFrontOfOne ==
    ASSUME NEW p, NEW c
    PROVE  /\ DOMAIN (<<p>> \o <<c>>) = {1, 2}
           /\ (<<p>> \o <<c>>)[1] = p /\ (<<p>> \o <<c>>)[2] = c
<1> DEFINE S == {p, c}
<1>1. p \in S /\ c \in S
    OBVIOUS
<1> HIDE DEF S
<1> QED BY <1>1

LEMMA InFrontOfTwo ==
    ASSUME NEW p, NEW c, NEW d
    PROVE  /\ DOMAIN (<<p>> \o <<c, d>>) = {1, 2, 3}
           /\ (<<p>> \o <<c, d>>)[1] = p
           /\ (<<p>> \o <<c, d>>)[2] = c /\ (<<p>> \o <<c, d>>)[3] = d
<1> DEFINE S == {p, c, d}
<1>1. p \in S /\ c \in S /\ d \in S
    OBVIOUS
<1> HIDE DEF S
<1> QED BY <1>1

LEMMA OutcomeProtected ==
    ASSUME TxInv, tx # <<>>, NEW market \in MarketAmounts
    PROVE  Protected(Outcome(market), route.min)
<1> DEFINE s0 == [allowance |-> allowance, nonce |-> nonce, paid |-> Nothing, why |-> ""]
           s1 == After(s0, 1, market)
           s2 == After(s1, 2, market)
           s3 == After(s2, 3, market)
<1>1. Before(s0)
    BY DEF Before
<1>2. Outcome(market) = s3
    BY DEF Outcome
<1>3. IsRoute(route)
    BY DEF TxInv
<1> HIDE DEF s0
<1>4. CASE tx = route.calls
  <2>1. ASSUME NEW c, tx = <<c>>,
               Protected(ExecuteCall(s0, c, market), route.min)
        PROVE  Protected(s3, route.min)
    <3>1. DOMAIN tx = {1} /\ tx[1] = c
        BY <2>1
    <3>2. s3 = ExecuteCall(s0, c, market)
        BY <3>1 DEF After
    <3> QED BY <2>1, <3>2
  <2>2. ASSUME NEW c, NEW d, tx = <<c, d>>,
               Protected(ExecuteCall(ExecuteCall(s0, c, market), d, market), route.min)
        PROVE  Protected(s3, route.min)
    <3>1. DOMAIN tx = {1, 2} /\ tx[1] = c /\ tx[2] = d
        BY <2>2
    <3>2. s3 = ExecuteCall(ExecuteCall(s0, c, market), d, market)
        BY <3>1 DEF After
    <3> QED BY <2>2, <3>2
  <2> HIDE DEF s3
  <2> QED BY <1>1, <1>2, <1>3, <1>4, <2>1, <2>2, CallsProtect
<1>5. ASSUME NEW p, IsPermit(p), tx = <<p>> \o route.calls
      PROVE  Protected(Outcome(market), route.min)
  <2> DEFINE q == ExecuteCall(s0, p, market)
  <2>1. Before(q)
      BY <1>1, <1>5, PermitPaysNothing
  <2>2. q = ExecuteCall(s0, p, market)
      OBVIOUS
  <2> HIDE DEF q
  <2>3. ASSUME NEW c, route.calls = <<c>>,
               Protected(ExecuteCall(q, c, market), route.min)
        PROVE  Protected(s3, route.min)
    <3>1. tx = <<p>> \o <<c>>
        BY <1>5, <2>3
    <3>2. DOMAIN tx = {1, 2} /\ tx[1] = p /\ tx[2] = c
        BY <3>1, InFrontOfOne
    <3>3. s3 = ExecuteCall(q, c, market)
        BY <3>2, <2>2 DEF After
    <3> QED BY <2>3, <3>3
  <2>4. ASSUME NEW c, NEW d, route.calls = <<c, d>>,
               Protected(ExecuteCall(ExecuteCall(q, c, market), d, market), route.min)
        PROVE  Protected(s3, route.min)
    <3>1. tx = <<p>> \o <<c, d>>
        BY <1>5, <2>4
    <3>2. DOMAIN tx = {1, 2, 3} /\ tx[1] = p /\ tx[2] = c /\ tx[3] = d
        BY <3>1, InFrontOfTwo
    <3>3. s3 = ExecuteCall(ExecuteCall(q, c, market), d, market)
        BY <3>2, <2>2 DEF After
    <3> QED BY <2>4, <3>3
  <2> HIDE DEF s3
  <2> QED BY <1>2, <1>3, <2>1, <2>3, <2>4, CallsProtect
<1> QED BY <1>2, <1>4, <1>5 DEF TxInv

-----------------------------------------------------------------------------
(* AttachPermit goes on only for a route that has no transaction yet.      *)
AttachInv == attach = "checked" => route # NoRoute /\ tx = <<>>

Inv ==
    /\ clock \in Nat
    /\ RouteInv /\ TxInv /\ AttachInv
    /\ result # "none" => tx # <<>>
    /\ UserProtected

LEMMA InitInv == Init => Inv
BY DEF Init, Inv, RouteInv, TxInv, AttachInv, UserProtected

LEMMA NoRouteIsNone == ~IsRoute(NoRoute)
<1>1. DOMAIN NoRoute = {"expiresAt"}
    BY DEF NoRoute
<1>2. \A r, e, m, c : "request" \in
          DOMAIN [request |-> r, expiresAt |-> e, min |-> m, calls |-> c]
    OBVIOUS
<1> QED BY <1>1, <1>2 DEF IsRoute

(* A step that keeps the route and what was paid, and makes the            *)
(* transaction out of the route if it makes one.                           *)
LEMMA RouteKept ==
    ASSUME Inv, route' = route, clock' \in Nat, paid' = paid, result' = result,
           \/ tx' = tx
           \/ /\ tx = <<>> /\ route # NoRoute
              /\ \/ tx' = route.calls
                 \/ \E p : IsPermit(p) /\ tx' = <<p>> \o route.calls,
           AttachInv'
    PROVE  Inv'
<1>1. IsRoute(route)' <=> IsRoute(route)
    BY DEF IsRoute
<1>2. RouteInv' /\ UserProtected'
    BY <1>1 DEF Inv, RouteInv, UserProtected
<1>3. TxInv'
    BY <1>1 DEF Inv, TxInv, RouteInv
<1>4. result' # "none" => tx' # <<>>
    BY DEF Inv
<1> QED BY <1>2, <1>3, <1>4 DEF Inv

(* Only Quote changes the route, ReadNonce and UseRoute the transaction,   *)
(* and Execute what was paid.                                              *)
LEMMA NextInv == Inv /\ [Next]_vars => Inv'
<1> SUFFICES ASSUME Inv, [Next]_vars PROVE Inv'
    OBVIOUS
<1>1. ASSUME NEW r \in ValidRequests, NEW a \in QuotedAmounts, Quote(r, a) PROVE Inv'
  <2>1. tx = <<>> /\ result = "none"
      BY <1>1, NoRouteIsNone DEF Inv, TxInv, Quote
  <2>2. GrossMinimum(a) \in Nat
    <3>1. a \in Nat /\ 100 - Slippage \in Nat
        BY AmountsAssumption, RatesAssumption
    <3>2. a * (100 - Slippage) \in Nat
        BY <3>1, TimesNat
    <3> QED BY <3>2 DEF GrossMinimum
  <2>3. Deadline \in Nat
      BY TimesAssumption DEF Inv, Deadline
  <2>4. IsRoute(route')
      BY <1>1, <2>2, <2>3 DEF Quote, IsRoute
  <2>5. clock' = clock /\ tx' = tx /\ result' = result /\ attach' = attach
      BY <1>1 DEF Quote, chain
  <2>6. RouteInv' /\ TxInv' /\ UserProtected'
      BY <2>1, <2>4, <2>5 DEF RouteInv, TxInv, UserProtected
  <2>7. AttachInv'
      BY <1>1, <2>5 DEF Inv, AttachInv, Quote
  <2> QED BY <2>1, <2>5, <2>6, <2>7 DEF Inv
<1>2. ASSUME NEW market \in MarketAmounts, Execute(market) PROVE Inv'
  <2>1. /\ route' = route /\ tx' = tx /\ clock' = clock /\ attach' = attach
        /\ tx # <<>>
      BY <1>2 DEF Execute, wallet
  <2>2. IsRoute(route)' <=> IsRoute(route)
      BY <2>1 DEF IsRoute
  <2>3. RouteInv' /\ TxInv' /\ AttachInv'
      BY <2>1, <2>2 DEF Inv, RouteInv, TxInv, AttachInv
  <2>4. Protected(Outcome(market), route.min)
      BY <1>2, <2>1, OutcomeProtected DEF Inv
  <2>5. CASE Outcome(market).why = ""
    <3>1. paid' = Outcome(market).paid
        BY <1>2, <2>5 DEF Execute
    <3>2. /\ route.min <= Outcome(market).paid.user
          /\ Outcome(market).paid.router = 0
        BY <2>4, <2>5 DEF Protected
    <3> QED BY <2>1, <2>3, <3>1, <3>2 DEF Inv, UserProtected
  <2>6. CASE Outcome(market).why # ""
    <3>1. result' = Outcome(market).why
        BY <1>2, <2>6 DEF Execute
    <3>2. result' # "success"
        BY <2>4, <3>1 DEF Protected
    <3> QED BY <2>1, <2>3, <3>2 DEF Inv, UserProtected
  <2> QED BY <2>5, <2>6
<1>3. CASE ReadNonce
  <2>1. \E p : IsPermit(p) /\ tx' = <<p>> \o route.calls
      BY <1>3 DEF ReadNonce, WithPermit, IsPermit
  <2>2. tx = <<>> /\ route # NoRoute /\ AttachInv'
      BY <1>3 DEF ReadNonce, Inv, AttachInv
  <2>3. route' = route /\ clock' \in Nat /\ paid' = paid /\ result' = result
      BY <1>3 DEF ReadNonce, chain, Inv
  <2> QED BY <2>1, <2>2, <2>3, RouteKept
<1>4. CASE UseRoute
  <2>1. tx = <<>> /\ route # NoRoute /\ tx' = route.calls /\ AttachInv'
      BY <1>4 DEF UseRoute, Inv, AttachInv
  <2>2. route' = route /\ clock' \in Nat /\ paid' = paid /\ result' = result
      BY <1>4 DEF UseRoute, chain, Inv
  <2> QED BY <2>1, <2>2, RouteKept
<1>5. ASSUME NEW b \in BOOLEAN, CheckPermit(b) PROVE Inv'
    BY <1>5, RouteKept DEF CheckPermit, chain, Inv, AttachInv
<1>6. ASSUME NEW v, NEW d, SignPermit(v, d) PROVE Inv'
    BY <1>6, RouteKept DEF SignPermit, chain, Inv, AttachInv
<1>7. CASE Tick
    BY <1>7, RouteKept DEF Tick, wallet, chain, Inv, AttachInv
<1>8. CASE Approve \/ UseNonce \/ SubmitPermit \/ SpendAllowance \/ UNCHANGED vars
    BY <1>8, RouteKept
       DEF Approve, UseNonce, SubmitPermit, SpendAllowance, vars, wallet, chain, Inv, AttachInv
<1> QED BY <1>1, <1>2, <1>3, <1>4, <1>5, <1>6, <1>7, <1>8 DEF Next

(* For every amount, price, fee and slippage, and whatever happens between *)
(* the quote and the execution, the user gets the minimum of the route or  *)
(* the transaction reverts, and the router keeps nothing.                  *)
THEOREM MinimumHolds == Spec => []UserProtected
<1>1. Init => Inv BY InitInv
<1>2. Inv /\ [Next]_vars => Inv' BY NextInv
<1>3. Inv => UserProtected BY DEF Inv
<1> QED BY <1>1, <1>2, <1>3, PTL DEF Spec

-----------------------------------------------------------------------------
(* Why a transaction with a permit attached fails.  A state of the         *)
(* router's execution: the router reverts for one of five reasons.         *)
Reasons == {"permit", "expired", "allowance", "slippage", "payment"}

Running(s) ==
    /\ DOMAIN s = {"allowance", "nonce", "paid", "why"}
    /\ s.allowance \in Nat /\ s.nonce \in Nat
    /\ s.why \in Reasons \union {""}

RealCall(c) ==
    \/ c.op = "permit" /\ c.value \in Nat
    \/ c.op = "swap" /\ c.amountIn \in Nat
    \/ c.op = "pay"

(* Only a permit uses a nonce, one.                                        *)
LEMMA CallRuns ==
    ASSUME NEW s, Running(s), NEW c, RealCall(c), NEW market
    PROVE  /\ Running(ExecuteCall(s, c, market))
           /\ ExecuteCall(s, c, market).nonce \in {s.nonce, s.nonce + 1}
           /\ c.op # "permit" => ExecuteCall(s, c, market).nonce = s.nonce
<1>. DEFINE t == ExecuteCall(s, c, market)
<1>1. CASE s.why # ""
  <2>1. t = s
    BY <1>1, RevertIsFinal
  <2>. QED BY <2>1
<1>2. CASE s.why = "" /\ c.op = "permit"
  <2>1. t = ExecutePermit(s, c)
    BY <1>2 DEF ExecuteCall
  <2>2. \/ t = s
        \/ t = [s EXCEPT !.allowance = c.value, !.nonce = s.nonce + 1]
        \/ t = [s EXCEPT !.why = "permit"]
    BY <2>1 DEF ExecutePermit
  <2>3. c.value \in Nat
    BY <1>2 DEF RealCall
  <2>. HIDE DEF t
  <2>4. CASE t = s
    BY <2>4 DEF t
  <2>5. CASE t = [s EXCEPT !.allowance = c.value, !.nonce = s.nonce + 1]
    <3>1. /\ DOMAIN t = DOMAIN s /\ t.allowance = c.value /\ t.nonce = s.nonce + 1 /\ t.why = s.why
      BY <2>5 DEF Running
    <3>2. s.nonce + 1 \in Nat /\ s.why \in Reasons \union {""}
      <4>1. s.nonce \in Nat /\ s.why \in Reasons \union {""}
        BY DEF Running
      <4>. QED BY <4>1, NextNat, Zenon
    <3>3. DOMAIN t = {"allowance", "nonce", "paid", "why"}
      BY <3>1 DEF Running
    <3>4. Running(t) /\ t.nonce = s.nonce + 1
      BY <2>3, <3>1, <3>2, <3>3 DEF Running
    <3>. QED BY <1>2, <3>4 DEF t
  <2>6. CASE t = [s EXCEPT !.why = "permit"]
    <3>1. /\ DOMAIN t = DOMAIN s /\ t.allowance = s.allowance /\ t.nonce = s.nonce /\ t.why = "permit"
      BY <2>6 DEF Running
    <3>. QED BY <1>2, <3>1 DEF Running, Reasons, t
  <2>. QED BY <2>2, <2>4, <2>5, <2>6 DEF t
<1>3. CASE s.why = "" /\ c.op = "swap"
  <2>1. t = ExecuteSwap(s, c, market)
    BY <1>3 DEF ExecuteCall
  <2>. DEFINE left == IF route.request.inNative THEN s.allowance ELSE s.allowance - c.amountIn
              paidBy == [s.paid EXCEPT ![c.to] = market]
  <2>2. \/ \E why \in {"expired", "allowance", "slippage"} : t = [s EXCEPT !.why = why]
        \/ /\ t = [s EXCEPT !.allowance = left, !.paid = paidBy]
           /\ ~route.request.inNative => ~(s.allowance < c.amountIn)
    BY <2>1, Zenon DEF ExecuteSwap
  <2>3. c.amountIn \in Nat /\ s.allowance \in Nat
    BY <1>3 DEF RealCall, Running
  <2>4. (~route.request.inNative => ~(s.allowance < c.amountIn)) => left \in Nat
    <3>1. ~(s.allowance < c.amountIn) => s.allowance - c.amountIn \in Nat
      BY <2>3
    <3>2. CASE route.request.inNative
      BY <2>3, <3>2
    <3>3. CASE ~route.request.inNative
      BY <3>1, <3>3
    <3>. QED BY <3>2, <3>3
  <2>. HIDE DEF t, left, paidBy
  <2>5. ASSUME NEW why \in {"expired", "allowance", "slippage"}, t = [s EXCEPT !.why = why]
        PROVE  Running(t) /\ t.nonce = s.nonce
    <3>1. /\ DOMAIN t = DOMAIN s /\ t.allowance = s.allowance /\ t.nonce = s.nonce /\ t.why = why
      BY <2>5 DEF Running
    <3>. QED BY <3>1 DEF Running, Reasons
  <2>6. CASE t = [s EXCEPT !.allowance = left, !.paid = paidBy] /\ left \in Nat
    <3>1. /\ DOMAIN t = DOMAIN s /\ t.allowance = left /\ t.nonce = s.nonce /\ t.why = s.why
      BY <2>6 DEF Running
    <3>2. Running(t) /\ t.nonce = s.nonce
      BY <2>6, <3>1 DEF Running
    <3>. QED BY <3>2 DEF t
  <2>. QED BY <2>2, <2>4, <2>5, <2>6 DEF t
<1>4. CASE s.why = "" /\ c.op = "pay"
  <2>1. t = ExecutePay(s, c)
    BY <1>4 DEF ExecuteCall
  <2>. DEFINE paidBy == [user |-> Net(s.paid.router, c.bips),
                         fee |-> s.paid.router - Net(s.paid.router, c.bips), router |-> 0]
  <2>2. t = [s EXCEPT !.why = "payment"] \/ t = [s EXCEPT !.paid = paidBy]
    BY <2>1 DEF ExecutePay
  <2>. HIDE DEF t, paidBy
  <2>3. /\ DOMAIN t = DOMAIN s /\ t.allowance = s.allowance /\ t.nonce = s.nonce
        /\ t.why \in {s.why, "payment"}
    BY <2>2 DEF Running
  <2>4. Running(t) /\ t.nonce = s.nonce
    BY <2>3 DEF Running, Reasons
  <2>. QED BY <2>4 DEF t
<1>. QED BY <1>1, <1>2, <1>3, <1>4 DEF RealCall

(* A permit stands in front, if there is one.                              *)
CallsInv == \A i \in DOMAIN tx : RealCall(tx[i]) /\ (i # 1 => tx[i].op # "permit")

(* The transaction uses at most one nonce of the owner.                    *)
LEMMA OutcomeRuns ==
    ASSUME CallsInv, allowance \in Nat, nonce \in Nat, NEW market
    PROVE  /\ Running(Outcome(market))
           /\ Outcome(market).nonce \in {nonce, nonce + 1}
<1>. DEFINE s0 == [allowance |-> allowance, nonce |-> nonce, paid |-> Nothing, why |-> ""]
            s1 == After(s0, 1, market)
            s2 == After(s1, 2, market)
            s3 == After(s2, 3, market)
<1>1. Running(s0) /\ s0.nonce = nonce
  BY DEF Running
<1>. HIDE DEF s0
<1>2. Running(s1) /\ s1.nonce \in {nonce, nonce + 1}
  BY <1>1, CallRuns DEF After, CallsInv
<1>. HIDE DEF s1
<1>3. Running(s2) /\ s2.nonce = s1.nonce
  BY <1>2, CallRuns DEF After, CallsInv
<1>. HIDE DEF s2
<1>4. Running(s3) /\ s3.nonce = s2.nonce
  BY <1>3, CallRuns DEF After, CallsInv
<1>5. Outcome(market) = s3
  BY DEF Outcome, s0, s1, s2
<1>. QED BY <1>2, <1>3, <1>4, <1>5

-----------------------------------------------------------------------------
(* What the wallet signed.                                                 *)
IsSigned(p) == /\ p.value \in PermitValues /\ p.nonce \in Nat /\ p.deadline \in Nat
               /\ p # NoPermit

(* The range of each variable.                                             *)
BoundsInv ==
    /\ clock \in 0 .. MaxClock /\ route.expiresAt \in 0 .. MaxClock + DeadlineTTL
    /\ attach \in {"off", "checked", "done"} /\ ifNeeded \in BOOLEAN
    /\ permit = NoPermit \/ IsSigned(permit)
    /\ nonce \in 0 .. MaxNonce + 1 /\ (result = "none" => nonce <= MaxNonce)
    /\ allowance \in Nat
    /\ result \in Reasons \union {"none", "success"}

(* What AttachPermit has checked, and what it made of the route.           *)
AttachedInv ==
    /\ attach # "off" =>
         /\ IsSigned(permit) /\ IsRoute(route)
         /\ permit.value >= route.request.amountIn
         /\ permit.deadline >= route.expiresAt
    /\ attach = "done" => tx = WithPermit(route.calls)

(* How a transaction with a permit attached ended, and why.                *)
Fate(why) ==
    /\ why \in {"", "success", "slippage", "expired", "permit"}
    /\ why = "permit" => /\ nonce # permit.nonce \/ clock > route.expiresAt
                         /\ ~(ifNeeded /\ allowance >= permit.value)

FateInv == attach = "done" /\ result # "none" => Fate(result)

AttachInvs == Inv /\ BoundsInv /\ CallsInv /\ AttachedInv /\ FateInv

(* The calls of a route: a swap, and a payment of no more than its minimum.*)
LEMMA CallsOfRoute ==
    ASSUME IsRoute(route)
    PROVE  \E c : /\ c.op = "swap" /\ c.amountIn = route.request.amountIn /\ c.amountIn \in Nat
                  /\ c.min \in Nat /\ c.to \in {"user", "router"}
                  /\ \/ route.calls = <<c>>
                     \/ c.to = "router" /\ \E d : d.op = "pay" /\ d.min = c.min /\ route.calls = <<c, d>>
<1>1. PICK r \in ValidRequests, gross \in Nat, deadline \in Nat :
          route = [request |-> r, expiresAt |-> deadline, min |-> Net(gross, r.bips),
                   calls |-> Calls(r, gross, deadline)]
  BY DEF IsRoute
<1>2. route.request = r /\ route.calls = Calls(r, gross, deadline)
  BY <1>1
<1>3. r.amountIn \in Nat
  BY AmountsAssumption DEF ValidRequests, Requests
<1>. DEFINE c(to) == [op |-> "swap", to |-> to, amountIn |-> r.amountIn,
                      min |-> gross, deadline |-> deadline]
            d == [op |-> "pay", min |-> gross, bips |-> r.bips]
<1>4. \A to : /\ c(to).op = "swap" /\ c(to).amountIn = r.amountIn /\ c(to).min = gross
              /\ c(to).to = to
  OBVIOUS
<1>5. d.op = "pay" /\ d.min = gross
  OBVIOUS
<1>6. route.calls = IF ThroughRouter(r) THEN <<c("router"), d>> ELSE <<c("user")>>
  BY <1>2 DEF Calls
<1>. HIDE DEF c, d
<1>7. CASE ThroughRouter(r)
  BY <1>2, <1>3, <1>4, <1>5, <1>6, <1>7
<1>8. CASE ~ThroughRouter(r)
  BY <1>2, <1>3, <1>4, <1>6, <1>8
<1>. QED BY <1>7, <1>8

(* The calls of a transaction with a permit attached.                      *)
Attached(q) ==
    /\ DOMAIN q \in {{1, 2}, {1, 2, 3}}
    /\ q[1].op = "permit" /\ q[1].value = permit.value /\ q[1].nonce = permit.nonce
    /\ q[1].deadline = permit.deadline /\ q[1].ifNeeded = ifNeeded
    /\ q[2].op = "swap" /\ q[2].amountIn = route.request.amountIn /\ q[2].amountIn \in Nat
    /\ q[2].min \in Nat /\ q[2].to \in {"user", "router"}
    /\ 3 \in DOMAIN q => q[2].to = "router" /\ q[3].op = "pay" /\ q[3].min = q[2].min

(* WithPermit puts the permit in front of the calls of the route.          *)
LEMMA PermitInFront ==
    ASSUME IsRoute(route), NEW q, q = WithPermit(route.calls)
    PROVE  Attached(q)
<1>. DEFINE p == [op |-> "permit", value |-> permit.value, nonce |-> permit.nonce,
                  deadline |-> permit.deadline, ifNeeded |-> ifNeeded]
<1>1. /\ p.op = "permit" /\ p.value = permit.value /\ p.nonce = permit.nonce
      /\ p.deadline = permit.deadline /\ p.ifNeeded = ifNeeded
  OBVIOUS
<1>2. q = <<p>> \o route.calls
  BY DEF WithPermit
<1>. HIDE DEF p
<1>3. PICK c : /\ c.op = "swap" /\ c.amountIn = route.request.amountIn /\ c.amountIn \in Nat
               /\ c.min \in Nat /\ c.to \in {"user", "router"}
               /\ \/ route.calls = <<c>>
                  \/ c.to = "router" /\ \E d : d.op = "pay" /\ d.min = c.min /\ route.calls = <<c, d>>
  BY CallsOfRoute
<1>4. CASE route.calls = <<c>>
  <2>1. DOMAIN q = {1, 2} /\ q[1] = p /\ q[2] = c
    BY <1>2, <1>4, InFrontOfOne
  <2>. QED BY <1>1, <1>3, <2>1 DEF Attached
<1>5. ASSUME NEW d, c.to = "router", d.op = "pay", d.min = c.min, route.calls = <<c, d>>
      PROVE  /\ DOMAIN q = {1, 2, 3} /\ q[1] = p /\ q[2] = c /\ q[3] = d
  BY <1>2, <1>5, InFrontOfTwo
<1>6. CASE c.to = "router" /\ \E d : d.op = "pay" /\ d.min = c.min /\ route.calls = <<c, d>>
  <2>1. PICK d : d.op = "pay" /\ d.min = c.min /\ route.calls = <<c, d>>
    BY <1>6
  <2>2. DOMAIN q = {1, 2, 3} /\ q[1] = p /\ q[2] = c /\ q[3] = d
    BY <1>5, <1>6, <2>1
  <2>. QED BY <1>1, <1>3, <1>6, <2>1, <2>2 DEF Attached
<1>. QED BY <1>3, <1>4, <1>6

(* So it is with the transaction that AttachPermit completed.              *)
LEMMA AttachedCalls ==
    ASSUME IsRoute(route), tx = WithPermit(route.calls)
    PROVE  Attached(tx)
BY PermitInFront

(* Behind a permit that was used, or was not needed, the swap has its      *)
(* allowance and the payment its minimum.                                  *)
LEMMA OutcomeAttached ==
    ASSUME IsRoute(route), tx = WithPermit(route.calls), IsSigned(permit),
           clock \in Nat, allowance \in Nat, nonce \in Nat, route.expiresAt \in Nat,
           permit.value >= route.request.amountIn, permit.deadline >= route.expiresAt,
           NEW market \in Nat
    PROVE  Outcome(market).why \in {"", "slippage", "expired"}
           \/ (Outcome(market).why = "permit" /\ Fate("permit"))
<1>. DEFINE s0 == [allowance |-> allowance, nonce |-> nonce, paid |-> Nothing, why |-> ""]
            s1 == After(s0, 1, market)
            s2 == After(s1, 2, market)
            s3 == After(s2, 3, market)
<1>1. /\ s0.allowance = allowance /\ s0.nonce = nonce /\ s0.why = "" /\ Before(s0)
      /\ DOMAIN s0 = {"allowance", "nonce", "paid", "why"}
  BY DEF Before
<1>2. Outcome(market) = s3
  BY DEF Outcome
<1>. HIDE DEF s0
<1>3. s1 = ExecutePermit(s0, tx[1]) /\ Before(s1)
  <2>1. s1 = ExecuteCall(s0, tx[1], market) /\ tx[1].op = "permit"
    BY AttachedCalls DEF After, Attached
  <2>. QED BY <1>1, <2>1, PermitPaysNothing DEF ExecuteCall, IsPermit
<1>4. \/ s1.why = "" /\ s1.allowance \in Nat /\ s1.allowance >= permit.value
      \/ s1.why = "permit" /\ Fate("permit")
  <2>0. /\ tx[1].value = permit.value /\ tx[1].nonce = permit.nonce
        /\ tx[1].deadline = permit.deadline /\ tx[1].ifNeeded = ifNeeded
    BY AttachedCalls DEF Attached
  <2>1. permit.value \in Nat /\ permit.deadline \in Nat
    BY AmountsAssumption DEF IsSigned
  <2>2. CASE Covered(s0, tx[1])
    <3>1. s1 = s0
      BY <1>3, <2>2 DEF ExecutePermit
    <3>. QED BY <1>1, <2>0, <2>2, <3>1 DEF Covered
  <2>3. CASE ~Covered(s0, tx[1]) /\ s0.nonce = tx[1].nonce /\ clock <= tx[1].deadline
    <3>1. s1 = [s0 EXCEPT !.allowance = tx[1].value, !.nonce = s0.nonce + 1]
      BY <1>3, <2>3 DEF ExecutePermit
    <3>2. s1.why = s0.why /\ s1.allowance = tx[1].value
      BY <1>1, <3>1
    <3>3. s1.why = "" /\ s1.allowance = permit.value
      BY <1>1, <2>0, <3>2
    <3>. QED BY <2>1, <3>3, AtLeast, Zenon
  <2>4. CASE ~Covered(s0, tx[1]) /\ ~(s0.nonce = tx[1].nonce /\ clock <= tx[1].deadline)
    <3>1. s1 = [s0 EXCEPT !.why = "permit"]
      BY <1>3, <2>4 DEF ExecutePermit
    <3>2. s1.why = "permit"
      BY <1>1, <3>1
    <3>3. ~(ifNeeded /\ allowance >= permit.value)
      BY <1>1, <2>0, <2>4 DEF Covered
    <3>4. nonce # permit.nonce \/ ~(clock <= permit.deadline)
      BY <1>1, <2>0, <2>4
    <3>5. ~(clock <= permit.deadline) => clock > route.expiresAt
      BY <2>1
    <3>. QED BY <3>2, <3>3, <3>4, <3>5 DEF Fate
  <2>. QED BY <2>2, <2>3, <2>4
<1>5. CASE s1.why = "permit" /\ Fate("permit")
  <2>1. s2 = s1 /\ s3 = s2
    BY <1>5, RevertIsFinal DEF After
  <2>. QED BY <1>2, <1>5, <2>1
<1>6. CASE s1.why = "" /\ s1.allowance \in Nat /\ s1.allowance >= permit.value
  <2>. HIDE DEF s1
  <2>1. s2 = ExecuteSwap(s1, tx[2], market)
    BY <1>6, AttachedCalls DEF After, ExecuteCall, Attached
  <2>2. ~(s1.allowance < tx[2].amountIn)
    <3>1. permit.value \in Nat /\ tx[2].amountIn \in Nat /\ tx[2].amountIn = route.request.amountIn
      BY AmountsAssumption, AttachedCalls DEF IsSigned, Attached
    <3>. QED BY <1>6, <3>1, AtLeast, Zenon
  <2>3. \/ \E why \in {"expired", "slippage"} : s2 = [s1 EXCEPT !.why = why]
        \/ s2.why = ""
    <3>1. CASE clock > tx[2].deadline
      BY <2>1, <3>1 DEF ExecuteSwap
    <3>2. CASE ~(clock > tx[2].deadline) /\ market < tx[2].min
      BY <2>1, <2>2, <3>2, Zenon DEF ExecuteSwap
    <3>3. CASE ~(clock > tx[2].deadline) /\ ~(market < tx[2].min)
      <4>. DEFINE left == IF route.request.inNative THEN s1.allowance ELSE s1.allowance - tx[2].amountIn
                  paidBy == [s1.paid EXCEPT ![tx[2].to] = market]
      <4>1. s2 = [s1 EXCEPT !.allowance = left, !.paid = paidBy]
        BY <2>1, <2>2, <3>3, Zenon DEF ExecuteSwap
      <4>. HIDE DEF left, paidBy
      <4>2. s2.why = s1.why
        BY <1>3, <4>1 DEF Before
      <4>. QED BY <1>6, <4>2
    <3>. QED BY <3>1, <3>2, <3>3
  <2>4. \/ s2.why \notin {"", "success"}
        \/ /\ s2.why = "" /\ tx[2].min <= market /\ PaidTo(s2.paid, tx[2].to, market)
           /\ DOMAIN s2 = {"allowance", "nonce", "paid", "why"}
    <3>1. tx[2].min \in Nat /\ tx[2].to \in {"user", "router"}
      BY AttachedCalls DEF Attached
    <3>2. Before(s1) /\ s1.why = ""
      BY <1>3, <1>6
    <3>3. PICK c : c = tx[2]
      OBVIOUS
    <3>4. c.min \in Nat /\ c.to \in {"user", "router"}
      BY <3>1, <3>3
    <3>5. \/ ExecuteSwap(s1, c, market).why \notin {"", "success"}
          \/ /\ ExecuteSwap(s1, c, market).why = "" /\ c.min <= market
             /\ PaidTo(ExecuteSwap(s1, c, market).paid, c.to, market)
             /\ DOMAIN ExecuteSwap(s1, c, market) = {"allowance", "nonce", "paid", "why"}
      BY <3>2, <3>4, SwapCases
    <3>6. s2 = ExecuteSwap(s1, c, market)
      BY <2>1, <3>3
    <3>. QED BY <3>3, <3>5, <3>6
  <2>5. CASE s2.why # ""
    <3>1. s2.why \in {"expired", "slippage"}
      <4>1. DOMAIN s1 = {"allowance", "nonce", "paid", "why"}
        BY <1>3 DEF Before
      <4>. QED BY <2>3, <2>5, <4>1
    <3>2. s3 = s2
      BY <2>5, RevertIsFinal DEF After
    <3>. QED BY <1>2, <3>1, <3>2
  <2>6. CASE s2.why = ""
    <3>. HIDE DEF s2
    <3>1. CASE 3 \notin DOMAIN tx
      BY <1>2, <2>6, <3>1 DEF After
    <3>2. CASE 3 \in DOMAIN tx
      <4>1. tx[2].to = "router" /\ tx[3].op = "pay" /\ tx[3].min = tx[2].min
        BY <3>2, AttachedCalls DEF Attached
      <4>2. s2.paid.router = market /\ tx[2].min <= market
        BY <2>4, <2>6, <4>1 DEF PaidTo
      <4>3. ~(s2.paid.router < tx[3].min)
        BY <4>1, <4>2, AttachedCalls DEF Attached
      <4>. DEFINE shares == [user |-> Net(s2.paid.router, tx[3].bips),
                             fee |-> s2.paid.router - Net(s2.paid.router, tx[3].bips), router |-> 0]
      <4>4. s3 = [s2 EXCEPT !.paid = shares]
        BY <2>6, <3>2, <4>1, <4>3, Zenon DEF After, ExecuteCall, ExecutePay
      <4>. HIDE DEF shares
      <4>5. s3.why = s2.why
        BY <2>4, <2>6, <4>4
      <4>. QED BY <1>2, <2>6, <4>5
    <3>. QED BY <3>1, <3>2
  <2>. QED BY <2>5, <2>6
<1>. QED BY <1>4, <1>5, <1>6

-----------------------------------------------------------------------------
(* Nothing is attached at first.                                           *)
LEMMA AttachInitInv == Init => AttachInvs
<1>. SUFFICES ASSUME Init PROVE AttachInvs
  OBVIOUS
<1>1. Inv
  BY InitInv
<1>2. BoundsInv
  <2>1. NoRoute.expiresAt = 0
    BY DEF NoRoute
  <2>2. allowance \in Nat
    BY AmountsAssumption DEF Init
  <2>. QED BY <2>1, <2>2, TimesAssumption DEF Init, BoundsInv
<1>3. CallsInv /\ AttachedInv /\ FateInv
  BY DEF Init, CallsInv, AttachedInv, FateInv
<1>. QED BY <1>1, <1>2, <1>3 DEF AttachInvs

(* What does not depend on the step: the route, permit and transaction     *)
(* that AttachPermit has checked stay, and so does the fate.               *)
LEMMA AttachedKept ==
    ASSUME AttachedInv, FateInv, CallsInv, clock \in Nat, clock' \in Nat, clock <= clock',
           route.expiresAt \in Nat,
           UNCHANGED <<route, permit, attach, ifNeeded, tx, result>>,
           result # "none" => UNCHANGED <<nonce, allowance>>
    PROVE  AttachedInv' /\ FateInv' /\ CallsInv'
<1>1. CallsInv'
  BY DEF CallsInv, RealCall
<1>2. AttachedInv'
  BY DEF AttachedInv, IsSigned, IsRoute, WithPermit
<1>3. FateInv'
  <2>1. clock > route.expiresAt => clock' > route.expiresAt
    OBVIOUS
  <2>. QED BY <2>1 DEF FateInv, Fate
<1>. QED BY <1>1, <1>2, <1>3

(* One step per action; BoundsInv of the step is proved with it.           *)
LEMMA AttachNextInv == AttachInvs /\ [Next]_vars => AttachInvs'
<1>. SUFFICES ASSUME AttachInvs, [Next]_vars PROVE AttachInvs'
  OBVIOUS
<1>0. Inv'
  BY NextInv DEF AttachInvs
<1>. USE TimesAssumption
<1>1. /\ clock \in Nat /\ nonce \in Nat /\ allowance \in Nat /\ route.expiresAt \in Nat
      /\ MaxNonce \in Nat /\ MaxClock \in Nat /\ DeadlineTTL \in Nat /\ MaxClock + DeadlineTTL \in Nat
      /\ clock <= MaxClock
  BY DEF AttachInvs, BoundsInv
<1>2. CASE Tick
  <2>1. clock' \in 0 .. MaxClock /\ clock <= clock'
    BY <1>1, <1>2 DEF Tick
  <2>2. BoundsInv'
    BY <1>2, <2>1 DEF Tick, wallet, chain, AttachInvs, BoundsInv, IsSigned
  <2>3. AttachedInv' /\ FateInv' /\ CallsInv'
    BY <1>1, <1>2, <2>1, AttachedKept DEF Tick, wallet, chain, AttachInvs
  <2>. QED BY <1>0, <2>2, <2>3 DEF AttachInvs
<1>3. ASSUME NEW r \in ValidRequests, NEW a \in QuotedAmounts, Quote(r, a) PROVE AttachInvs'
  <2>1. attach = "off" /\ tx = <<>>
    BY <1>3, NoRouteIsNone DEF AttachInvs, Inv, TxInv, AttachedInv, BoundsInv, Quote
  <2>2. route'.expiresAt \in 0 .. MaxClock + DeadlineTTL
    <3>1. route'.expiresAt = Deadline
      BY <1>3 DEF Quote
    <3>. QED BY <1>1, <3>1 DEF Deadline
  <2>3. BoundsInv'
    BY <1>3, <2>2 DEF Quote, chain, AttachInvs, BoundsInv, IsSigned
  <2>4. CallsInv' /\ AttachedInv' /\ FateInv'
    BY <1>3, <2>1 DEF Quote, chain, CallsInv, AttachedInv, FateInv
  <2>. QED BY <1>0, <2>3, <2>4 DEF AttachInvs
<1>4. ASSUME NEW v \in PermitValues, NEW d \in 1 .. MaxClock + DeadlineTTL, SignPermit(v, d)
      PROVE  AttachInvs'
  <2>1. attach = "off"
    BY <1>4 DEF AttachInvs, BoundsInv, AttachedInv, IsSigned, SignPermit
  <2>2. IsSigned(permit')
    <3>1. permit' = [value |-> v, nonce |-> nonce, deadline |-> d]
      BY <1>4 DEF SignPermit
    <3>2. DOMAIN permit' # DOMAIN NoPermit
      BY <3>1 DEF NoPermit
    <3>. QED BY <1>1, <3>1, <3>2 DEF IsSigned
  <2>3. BoundsInv'
    BY <1>4, <2>2 DEF SignPermit, chain, AttachInvs, BoundsInv, IsSigned
  <2>4. CallsInv' /\ AttachedInv' /\ FateInv'
    BY <1>4, <2>1 DEF SignPermit, chain, AttachInvs, CallsInv, RealCall, AttachedInv, FateInv
  <2>. QED BY <1>0, <2>3, <2>4 DEF AttachInvs
<1>5. ASSUME NEW b \in BOOLEAN, CheckPermit(b) PROVE AttachInvs'
  <2>1. /\ IsSigned(permit) /\ IsRoute(route)
        /\ permit.value >= route.request.amountIn /\ permit.deadline >= route.expiresAt
    BY <1>5 DEF AttachInvs, Inv, RouteInv, BoundsInv, CheckPermit, Covers, Outlives
  <2>2. BoundsInv'
    BY <1>5 DEF CheckPermit, chain, AttachInvs, BoundsInv, IsSigned
  <2>3. AttachedInv'
    BY <1>5, <2>1 DEF CheckPermit, AttachedInv, IsSigned, IsRoute
  <2>4. CallsInv' /\ FateInv'
    BY <1>5 DEF CheckPermit, chain, AttachInvs, CallsInv, FateInv
  <2>. QED BY <1>0, <2>2, <2>3, <2>4 DEF AttachInvs
<1>6. CASE ReadNonce
  <2>1. IsRoute(route) /\ IsSigned(permit) /\ tx = <<>> /\ result = "none"
    BY <1>6 DEF AttachInvs, Inv, AttachInv, AttachedInv, ReadNonce
  <2>2. BoundsInv'
    BY <1>6 DEF ReadNonce, chain, AttachInvs, BoundsInv, IsSigned
  <2>3. AttachedInv'
    BY <1>6 DEF ReadNonce, AttachInvs, AttachedInv, IsSigned, IsRoute, WithPermit
  <2>4. CallsInv'
    <3>1. Attached(tx')
      BY <1>6, <2>1, PermitInFront DEF ReadNonce
    <3>2. permit.value \in Nat
      BY <2>1, AmountsAssumption DEF IsSigned
    <3>. QED BY <3>1, <3>2 DEF Attached, CallsInv, RealCall
  <2>5. FateInv'
    BY <1>6, <2>1 DEF ReadNonce, chain, FateInv
  <2>. QED BY <1>0, <2>2, <2>3, <2>4, <2>5 DEF AttachInvs
<1>7. CASE UseRoute
  <2>1. IsRoute(route) /\ attach' = "off" /\ tx' = route.calls
    BY <1>7 DEF AttachInvs, Inv, RouteInv, UseRoute
  <2>2. BoundsInv'
    BY <1>7 DEF UseRoute, chain, AttachInvs, BoundsInv, IsSigned
  <2>3. CallsInv'
    <3>1. PICK c : /\ c.op = "swap" /\ c.amountIn \in Nat
                   /\ \/ tx' = <<c>>
                      \/ \E d : d.op = "pay" /\ tx' = <<c, d>>
      BY <2>1, CallsOfRoute
    <3>2. CASE tx' = <<c>>
      <4>1. DOMAIN tx' = {1} /\ tx'[1] = c
        BY <3>2
      <4>. QED BY <3>1, <4>1 DEF CallsInv, RealCall
    <3>3. ASSUME NEW d, d.op = "pay", tx' = <<c, d>> PROVE CallsInv'
      <4>1. DOMAIN tx' = {1, 2} /\ tx'[1] = c /\ tx'[2] = d
        BY <3>3
      <4>. QED BY <3>1, <3>3, <4>1 DEF CallsInv, RealCall
    <3>. QED BY <3>1, <3>2, <3>3
  <2>4. AttachedInv' /\ FateInv'
    BY <2>1 DEF AttachedInv, FateInv
  <2>. QED BY <1>0, <2>2, <2>3, <2>4 DEF AttachInvs
<1>8. CASE Approve \/ UseNonce \/ SubmitPermit \/ SpendAllowance \/ UNCHANGED vars
  <2>1. /\ UNCHANGED <<route, permit, attach, ifNeeded, tx, result, clock>>
        /\ result # "none" => UNCHANGED <<nonce, allowance>>
    BY <1>8 DEF Approve, UseNonce, SubmitPermit, SpendAllowance, vars, wallet
  <2>2. allowance' \in Nat
    <3>1. CASE Approve
      <4>1. IsRoute(route)
        BY <3>1 DEF Approve, AttachInvs, Inv, RouteInv
      <4>. QED BY <3>1, <4>1, CallsOfRoute DEF Approve
    <3>2. CASE SubmitPermit
      <4>1. permit.value \in PermitValues
        BY <3>2 DEF SubmitPermit, AttachInvs, BoundsInv, IsSigned
      <4>. QED BY <3>2, <4>1, AmountsAssumption DEF SubmitPermit
    <3>3. CASE UseNonce \/ SpendAllowance \/ UNCHANGED vars
      BY <1>1, <3>3 DEF UseNonce, SpendAllowance, vars
    <3>. QED BY <1>8, <3>1, <3>2, <3>3
  <2>3. nonce' = nonce \/ (nonce < MaxNonce /\ nonce' = nonce + 1)
    BY <1>8 DEF Approve, UseNonce, SubmitPermit, SpendAllowance, vars
  <2>4. nonce' \in 0 .. MaxNonce + 1 /\ (result' = "none" => nonce' <= MaxNonce)
    BY <1>1, <2>1, <2>3 DEF AttachInvs, BoundsInv
  <2>5. BoundsInv'
    BY <2>1, <2>2, <2>4 DEF AttachInvs, BoundsInv, IsSigned
  <2>6. AttachedInv' /\ FateInv' /\ CallsInv'
    BY <1>1, <2>1, AttachedKept DEF AttachInvs
  <2>. QED BY <1>0, <2>5, <2>6 DEF AttachInvs
<1>9. ASSUME NEW market \in MarketAmounts, Execute(market) PROVE AttachInvs'
  <2>1. /\ UNCHANGED <<route, permit, attach, ifNeeded, tx, clock>> /\ result = "none"
        /\ nonce <= MaxNonce
    BY <1>9 DEF Execute, wallet, AttachInvs, BoundsInv
  <2>. DEFINE o == Outcome(market)
  <2>2. /\ o.allowance \in Nat /\ o.nonce \in {nonce, nonce + 1} /\ o.why \in Reasons \union {""}
    BY <1>1, OutcomeRuns DEF AttachInvs, Running
  <2>3. \/ o.why = "" /\ result' = "success" /\ allowance' = o.allowance /\ nonce' = o.nonce
        \/ o.why # "" /\ result' = o.why /\ allowance' = allowance /\ nonce' = nonce
    BY <1>9 DEF Execute
  <2>4. attach = "done" =>
          o.why \in {"", "slippage", "expired"} \/ (o.why = "permit" /\ Fate("permit"))
    <3>1. SUFFICES ASSUME attach = "done" PROVE o.why \in {"", "slippage", "expired"} \/ (o.why = "permit" /\ Fate("permit"))
      OBVIOUS
    <3>2. /\ IsRoute(route) /\ tx = WithPermit(route.calls) /\ IsSigned(permit)
          /\ permit.value >= route.request.amountIn /\ permit.deadline >= route.expiresAt
      BY <3>1 DEF AttachInvs, AttachedInv
    <3>3. market \in Nat
      BY AmountsAssumption
    <3>. QED BY <1>1, <3>2, <3>3, OutcomeAttached
  <2>. HIDE DEF o
  <2>5. allowance' \in Nat
    BY <1>1, <2>2, <2>3
  <2>6. nonce' \in 0 .. MaxNonce + 1
    <3>1. nonce' = nonce \/ nonce' = nonce + 1
      BY <2>2, <2>3
    <3>. QED BY <1>1, <2>1, <3>1
  <2>7. result' \in Reasons \union {"success"} /\ result' # "none"
    BY <2>2, <2>3 DEF Reasons
  <2>8. BoundsInv'
    BY <2>1, <2>5, <2>6, <2>7 DEF AttachInvs, BoundsInv, IsSigned
  <2>9. AttachedInv' /\ CallsInv'
    BY <2>1 DEF AttachInvs, AttachedInv, CallsInv, RealCall, IsSigned, IsRoute, WithPermit
  <2>10. FateInv'
    <3>. SUFFICES ASSUME attach = "done" PROVE Fate(result)'
      BY <2>1 DEF FateInv
    <3>1. CASE o.why = "permit"
      <4>1. Fate("permit") /\ result' = "permit" /\ nonce' = nonce /\ allowance' = allowance
        BY <2>3, <2>4, <3>1
      <4>. QED BY <2>1, <4>1 DEF Fate
    <3>2. CASE o.why # "permit"
      <4>1. result' \in {"success", "slippage", "expired"}
        BY <2>3, <2>4, <3>2
      <4>. QED BY <4>1 DEF Fate
    <3>. QED BY <3>1, <3>2
  <2>. QED BY <1>0, <2>8, <2>9, <2>10 DEF AttachInvs
<1>. QED BY <1>2, <1>3, <1>4, <1>5, <1>6, <1>7, <1>8, <1>9 DEF Next

(* For every amount, permit, price and fee, and in every order of the      *)
(* clock, the owner's other transactions and those who submit the signed   *)
(* permit first: a transaction that AttachPermit completed fails only      *)
(* because the swap expired, the price moved or the nonce was used, and a  *)
(* permit submitted ahead of it does no harm under ifNecessary.            *)
THEOREM AttachedExplained == Spec => []AttachedFailsForReason
<1>1. Init => AttachInvs
  BY AttachInitInv
<1>2. AttachInvs /\ [Next]_vars => AttachInvs'
  BY AttachNextInv
<1>3. AttachInvs => AttachedFailsForReason
  <2>. SUFFICES ASSUME AttachInvs PROVE AttachedFailsForReason
    OBVIOUS
  <2>1. TypeOK
    <3>1. permit.value \in {0} \union PermitValues
      BY DEF AttachInvs, BoundsInv, IsSigned, NoPermit
    <3>2. \A i \in DOMAIN tx : tx[i].op \in {"permit", "swap", "pay"}
      BY DEF AttachInvs, CallsInv, RealCall
    <3>. QED BY <3>1, <3>2 DEF AttachInvs, BoundsInv, Reasons, TypeOK
  <2>2. attach = "done" /\ result # "none" => Fate(result)
    BY DEF AttachInvs, FateInv
  <2>3. ASSUME attach = "done", result # "none" PROVE Fate(result)
    BY <2>2, <2>3
  <2>4. ASSUME attach = "done", result \notin {"none", "success", "slippage", "expired"}
        PROVE  result = "permit" /\ (nonce # permit.nonce \/ clock > route.expiresAt)
    <3>1. result \in Reasons
      BY <2>4 DEF AttachInvs, BoundsInv
    <3>2. Fate(result)
      BY <2>3, <2>4
    <3>. QED BY <2>4, <3>1, <3>2 DEF Fate, Reasons
  <2>5. ASSUME attach = "done", ifNeeded, allowance >= permit.value PROVE result # "permit"
    BY <2>3, <2>5 DEF Fate
  <2>. QED BY <2>1, <2>4, <2>5 DEF AttachedFailsForReason
<1>. QED BY <1>1, <1>2, <1>3, PTL DEF Spec

-----------------------------------------------------------------------------
(* What the decoder and a router say of calldata.                          *)
Info      == [id : Nat, version : Versions, deadline : Nat \union {NoDeadline}, hash : Hashes \union {NoHash}]
Verdict   == {"", "none", "error"}
Decoding  == [err : Verdict, infos : Seq(Info)]
SwapRun   == [id : Nat, deadlines : SUBSET Nat, hashes : SUBSET Hashes]
Execution == [ok : BOOLEAN, swaps : Seq(SwapRun), unread : SUBSET Nat]

(* A call is no swap and no multicall, or one of the two.                  *)
LEMMA CallKinds ==
    ASSUME NEW c \in Calldata
    PROVE  \/ ~Supported(c) /\ c.sel = "other"
           \/ ~Supported(c) /\ c.sel \in UnreadSelectors /\ IsUnread(c)
           \/ Supported(c) /\ c.sel \in SwapSelectors /\ IsSwap(c)
           \/ Supported(c) /\ c.sel \in MulticallSelectors /\ c.sel \notin SwapSelectors /\ IsMulticall(c)
<1>1. c = Other \/ IsSwap(c) \/ IsUnread(c) \/ IsMulticall(c)
  BY CalldataAssumption
<1>2. CASE c = Other
  BY <1>2 DEF Other, Supported, SwapSelectors, MulticallSelectors
<1>3. CASE IsSwap(c)
  BY <1>3 DEF IsSwap, Supported
<1>4. CASE IsMulticall(c)
  BY <1>4 DEF IsMulticall, Supported, SwapSelectors, MulticallSelectors
<1>5. CASE IsUnread(c)
  BY <1>5 DEF IsUnread, Supported, SwapSelectors, MulticallSelectors, UnreadSelectors
<1>. QED BY <1>1, <1>2, <1>3, <1>4, <1>5

-----------------------------------------------------------------------------
(* Types: of what is decoded,                                              *)
LEMMA ErrorIs == Error("error") \in Decoding /\ Error("none") \in Decoding
BY DEF Error, Decoding, Verdict

(* of a list of swaps,                                                     *)
LEMMA InfosIs == \A infos \in Seq(Info) : Infos(infos) \in Decoding
BY DEF Infos, Decoding, Verdict

(* of one that a multicall has stamped,                                    *)
LEMMA StampedIs ==
    ASSUME NEW c, IsMulticall(c), NEW info \in Info
    PROVE  Stamped(info, c) \in Info
<1>1. CASE c.sel = "multicall"
  BY <1>1 DEF Stamped
<1>2. CASE c.sel = "multicallDeadline"
  <2>1. Stamped(info, c) \in {info, [info EXCEPT !.deadline = c.limit]}
    BY <1>2 DEF Stamped, Limited
  <2>2. c.limit \in Nat
    BY <1>2 DEF IsMulticall
  <2>. QED BY <2>1, <2>2 DEF Info
<1>3. CASE c.sel = "multicallHash"
  <2>1. Stamped(info, c) = [info EXCEPT !.hash = c.limit]
    BY <1>3 DEF Stamped
  <2>2. c.limit \in Hashes
    BY <1>3 DEF IsMulticall
  <2>. QED BY <2>1, <2>2 DEF Info
<1>. QED BY <1>1, <1>2, <1>3 DEF IsMulticall, MulticallSelectors

(* of all the swaps in a multicall,                                        *)
LEMMA EnvelopeIs ==
    ASSUME NEW c, IsMulticall(c), NEW router \in Versions, NEW infos \in Seq(Info)
    PROVE  Envelope(c, router, infos) \in Decoding
<1>1. [i \in DOMAIN infos |-> Stamped(infos[i], c)] \in Seq(Info)
  <2>1. \A i \in DOMAIN infos : infos[i] \in Info
    OBVIOUS
  <2>2. \A i \in DOMAIN infos : Stamped(infos[i], c) \in Info
    BY <2>1, StampedIs
  <2>3. DOMAIN infos = 1 .. Len(infos) /\ Len(infos) \in Nat
    OBVIOUS
  <2>. QED BY <2>2, <2>3
<1>2. Envelope(c, router, infos) \in
        {Error("none"), Error("error"), Infos([i \in DOMAIN infos |-> Stamped(infos[i], c)])}
  BY DEF Envelope
<1>3. Infos([i \in DOMAIN infos |-> Stamped(infos[i], c)]) \in Decoding
  BY <1>1, InfosIs
<1>. QED BY <1>2, <1>3, ErrorIs

Inner(c, inside) ==
    [i \in DOMAIN c.calls |-> IF Supported(c.calls[i]) THEN inside[c.calls[i]] ELSE Infos(<<>>)]

Found(c, inside) == [i \in DOMAIN Inner(c, inside) |-> Inner(c, inside)[i].infos]

(* of the calls in it and of what they were found to hold,                 *)
LEMMA InnerIs ==
    ASSUME NEW c, IsMulticall(c), NEW inside \in [Calldata -> Decoding]
    PROVE  /\ DOMAIN Inner(c, inside) = 1 .. Len(c.calls)
           /\ Len(c.calls) \in Nat
           /\ \A i \in 1 .. Len(c.calls) : c.calls[i] \in Calldata /\ Inner(c, inside)[i] \in Decoding
           /\ Found(c, inside) \in Seq(Seq(Info)) /\ Len(Found(c, inside)) = Len(c.calls)
           /\ \A i \in 1 .. Len(c.calls) : Found(c, inside)[i] = Inner(c, inside)[i].infos
<1>1. /\ DOMAIN c.calls = 1 .. Len(c.calls) /\ Len(c.calls) \in Nat
      /\ \A i \in 1 .. Len(c.calls) : c.calls[i] \in Calldata
  BY DEF IsMulticall
<1>2. DOMAIN Inner(c, inside) = 1 .. Len(c.calls)
  BY <1>1 DEF Inner
<1>3. ASSUME NEW i \in 1 .. Len(c.calls) PROVE Inner(c, inside)[i] \in Decoding
  <2>1. inside[c.calls[i]] \in Decoding
    BY <1>1
  <2>2. Infos(<<>>) \in Decoding
    <3>1. <<>> \in Seq(Info)
      OBVIOUS
    <3>. QED BY <3>1, InfosIs
  <2>3. Inner(c, inside)[i] \in {inside[c.calls[i]], Infos(<<>>)}
    BY <1>1 DEF Inner
  <2>. QED BY <2>1, <2>2, <2>3
<1>4. \A i \in 1 .. Len(c.calls) : Inner(c, inside)[i].infos \in Seq(Info)
  BY <1>3 DEF Decoding
<1>5. Found(c, inside) = [i \in 1 .. Len(c.calls) |-> Inner(c, inside)[i].infos]
  BY <1>2 DEF Found
<1>6. Found(c, inside) \in Seq(Seq(Info)) /\ Len(Found(c, inside)) = Len(c.calls)
  <2>. HIDE DEF Inner, Found
  <2>. QED BY <1>1, <1>4, <1>5
<1>7. \A i \in 1 .. Len(c.calls) : Found(c, inside)[i] = Inner(c, inside)[i].infos
  BY <1>5
<1>. QED BY <1>1, <1>2, <1>3, <1>6, <1>7

(* of a single swap,                                                       *)
LEMMA SwapDecodes ==
    ASSUME NEW c \in Calldata, c.sel \in SwapSelectors, IsSwap(c)
    PROVE  DecodeSwap(c) \in Decoding
<1>1. VersionOf(c.sel) \in Versions
  BY DEF VersionOf, Versions
<1>2. c.deadline \in Nat \union {NoDeadline} /\ c.id \in Nat
  BY DEF IsSwap
<1>4. [id |-> c.id, version |-> VersionOf(c.sel), deadline |-> c.deadline, hash |-> NoHash] \in Info
  BY <1>1, <1>2 DEF Info
<1>5. <<[id |-> c.id, version |-> VersionOf(c.sel), deadline |-> c.deadline, hash |-> NoHash]>> \in Seq(Info)
  BY <1>4
<1>6. DecodeSwap(c) \in {Error("error"),
         Infos(<<[id |-> c.id, version |-> VersionOf(c.sel), deadline |-> c.deadline, hash |-> NoHash]>>)}
  BY DEF DecodeSwap
<1>. QED BY <1>5, <1>6, ErrorIs, InfosIs

(* DecodeCall of a multicall.                                              *)
LEMMA DecodeMulticall ==
    ASSUME NEW c \in Calldata, IsMulticall(c), NEW router, NEW inside
    PROVE  DecodeCall(c, router, inside) =
             IF c.sel # "multicall" /\ router # 2 THEN Error("error")
             ELSE IF \E i \in DOMAIN Inner(c, inside) : Inner(c, inside)[i].err = "error" THEN Error("error")
             ELSE Envelope(c, router, FlattenSeq(Found(c, inside)))
<1>1. Supported(c) /\ c.sel \notin SwapSelectors
  BY CallKinds DEF IsMulticall, MulticallSelectors, SwapSelectors, UnreadSelectors
<1>. QED BY <1>1 DEF DecodeCall, Inner, Found

(* Types: of what one level decodes,                                       *)
LEMMA DecodeCallIs ==
    ASSUME NEW c \in Calldata, NEW router \in Versions, NEW inside \in [Calldata -> Decoding]
    PROVE  DecodeCall(c, router, inside) \in Decoding
<1>1. CASE ~Supported(c)
  BY <1>1, ErrorIs DEF DecodeCall
<1>2. CASE Supported(c) /\ c.sel \in SwapSelectors /\ IsSwap(c)
  <2>1. DecodeCall(c, router, inside) = DecodeSwap(c)
    BY <1>2 DEF DecodeCall
  <2>. QED BY <1>2, <2>1, SwapDecodes
<1>3. CASE IsMulticall(c)
  <2>1. FlattenSeq(Found(c, inside)) \in Seq(Info)
    BY <1>3, InnerIs, FlattenIs
  <2>2. Envelope(c, router, FlattenSeq(Found(c, inside))) \in Decoding
    BY <1>3, <2>1, EnvelopeIs
  <2>. QED BY <1>3, <2>2, DecodeMulticall, ErrorIs
<1>. QED BY <1>1, <1>2, <1>3, CallKinds

(* and of the decoder that is called by itself.                            *)
LEMMA DecodeAtIs ==
    ASSUME NEW router \in Versions
    PROVE  /\ DecodeAt(router) \in [Nat -> [Calldata -> Decoding]]
           /\ \A c \in Calldata : DecodeAt(router)[0][c] = Error("error")
           /\ \A n \in Nat, c \in Calldata :
                DecodeAt(router)[n + 1][c] = DecodeCall(c, router, DecodeAt(router)[n])
<1>. DEFINE V == [Calldata -> Decoding]
            first == [c \in Calldata |-> Error("error")]
            step == [inside \in V |-> [c \in Calldata |-> DecodeCall(c, router, inside)]]
            Good(f) == f = [left \in Nat |->
                              [c \in Calldata |-> IF left = 0 THEN Error("error")
                                                  ELSE DecodeCall(c, router, f[left - 1])]]
            at == CHOOSE f : Good(f)
<1>1. first \in V
  BY ErrorIs
<1>2. step \in [V -> V]
  BY DecodeCallIs
<1>3. PICK f \in [Nat -> V] : f[0] = first /\ \A n \in Nat : f[n + 1] = step[f[n]]
  <2>. HIDE DEF V, first, step
  <2>1. \E f \in [Nat -> V] : Repeats(f, first, step)
    BY <1>1, <1>2, IteratesForEver
  <2>. QED BY <2>1, Zenon DEF Repeats
<1>4. Good(f)
  <2>1. ASSUME NEW left \in Nat
        PROVE  f[left] = [c \in Calldata |-> IF left = 0 THEN Error("error")
                                             ELSE DecodeCall(c, router, f[left - 1])]
    <3>1. CASE left = 0
      BY <1>3, <3>1
    <3>2. CASE left # 0
      <4>1. PICK n \in Nat : n = left - 1 /\ left = n + 1
        BY <3>2
      <4>2. f[left] = step[f[n]] /\ f[n] \in V
        BY <1>3, <4>1
      <4>3. step[f[n]] = [c \in Calldata |-> DecodeCall(c, router, f[n])]
        BY <4>2
      <4>. QED BY <3>2, <4>1, <4>2, <4>3
    <3>. QED BY <3>1, <3>2
  <2>2. f = [left \in Nat |-> f[left]]
    BY <1>3
  <2>. QED BY <2>1, <2>2, Zenon
<1>5. Good(at)
  <2>. HIDE DEF Good
  <2>. QED BY <1>4, Zenon
<1>6. DecodeAt(router) = at
  BY DEF DecodeAt
<1>7. PICK g : g = at
  OBVIOUS
<1>8. \A left \in Nat :
         g[left] = [c \in Calldata |-> IF left = 0 THEN Error("error")
                                       ELSE DecodeCall(c, router, g[left - 1])]
  <2>. HIDE DEF at
  <2>1. g = [left \in Nat |-> [c \in Calldata |-> IF left = 0 THEN Error("error")
                                                  ELSE DecodeCall(c, router, g[left - 1])]]
    BY <1>5, <1>7, Zenon
  <2>. QED BY <2>1, Zenon
<1>9. g[0] = first
  BY <1>8
<1>10. ASSUME NEW n \in Nat PROVE g[n + 1] = [c \in Calldata |-> DecodeCall(c, router, g[n])]
  <2>1. PICK m \in Nat : m = n + 1 /\ m # 0 /\ m - 1 = n
    OBVIOUS
  <2>. QED BY <1>8, <2>1
<1>11. \A n \in Nat : g[n] \in V
  <2>. DEFINE D == {n \in Nat : g[n] \in V}
  <2>1. 0 \in D
    BY <1>1, <1>9
  <2>2. ASSUME NEW n \in Nat, n \in D PROVE n + 1 \in D
    <3>1. g[n] \in [Calldata -> Decoding]
      BY <2>2
    <3>2. \A c \in Calldata : DecodeCall(c, router, g[n]) \in Decoding
      BY <3>1, DecodeCallIs
    <3>3. g[n + 1] = [c \in Calldata |-> DecodeCall(c, router, g[n])]
      BY <1>10
    <3>. QED BY <3>2, <3>3
  <2>. HIDE DEF D
  <2>3. \A n \in Nat : n \in D
    BY <2>1, <2>2, NatInd
  <2>. QED BY <2>3 DEF D
<1>12. g = [left \in Nat |-> g[left]]
  <2>. HIDE DEF at
  <2>1. g = [left \in Nat |-> [c \in Calldata |-> IF left = 0 THEN Error("error")
                                                  ELSE DecodeCall(c, router, g[left - 1])]]
    BY <1>5, <1>7, Zenon
  <2>. QED BY <2>1, Zenon
<1>. HIDE DEF at
<1>13. DecodeAt(router) = g
  BY <1>6, <1>7
<1>14. g \in [Nat -> [Calldata -> Decoding]]
  BY <1>11, <1>12
<1>15. \A c \in Calldata : g[0][c] = Error("error")
  BY <1>9
<1>16. \A n \in Nat, c \in Calldata : g[n + 1][c] = DecodeCall(c, router, g[n])
  BY <1>10
<1>. HIDE DEF V, first
<1>. QED BY <1>13, <1>14, <1>15, <1>16, Zenon

-----------------------------------------------------------------------------
(* Types of what is executed.                                              *)
LEMMA RunsIs ==
    /\ Reverts \in Execution
    /\ \A swaps \in Seq(SwapRun), unread \in SUBSET Nat : Runs(swaps, unread) \in Execution
<1>1. <<>> \in Seq(SwapRun)
  OBVIOUS
<1>. QED BY <1>1 DEF Reverts, Runs, Execution

(* Of one that is executed in a multicall,                                 *)
LEMMA UnderIs ==
    ASSUME NEW c, IsMulticall(c), NEW swap \in SwapRun
    PROVE  Under(c, swap) \in SwapRun
<1>1. CASE c.sel = "multicall"
  BY <1>1 DEF Under
<1>2. CASE c.sel = "multicallDeadline"
  <2>1. Under(c, swap) = [swap EXCEPT !.deadlines = @ \union {c.limit}]
    BY <1>2 DEF Under
  <2>2. c.limit \in Nat
    BY <1>2 DEF IsMulticall
  <2>. QED BY <2>1, <2>2 DEF SwapRun
<1>3. CASE c.sel = "multicallHash"
  <2>1. Under(c, swap) = [swap EXCEPT !.hashes = @ \union {c.limit}]
    BY <1>3 DEF Under
  <2>2. c.limit \in Hashes
    BY <1>3 DEF IsMulticall
  <2>. QED BY <2>1, <2>2 DEF SwapRun
<1>. QED BY <1>1, <1>2, <1>3 DEF IsMulticall, MulticallSelectors

Ran(c, inside) == [i \in DOMAIN c.calls |-> inside[c.calls[i]].swaps]
RanUnder(c, swaps) == [i \in DOMAIN swaps |-> Under(c, swaps[i])]
RanUnread(c, inside) == UNION {inside[c.calls[i]].unread : i \in DOMAIN c.calls}

(* of all of them,                                                         *)
LEMMA RanUnderIs ==
    ASSUME NEW c, IsMulticall(c), NEW swaps \in Seq(SwapRun)
    PROVE  /\ RanUnder(c, swaps) \in Seq(SwapRun) /\ Len(RanUnder(c, swaps)) = Len(swaps)
           /\ \A i \in 1 .. Len(swaps) : RanUnder(c, swaps)[i] = Under(c, swaps[i])
<1>1. DOMAIN swaps = 1 .. Len(swaps) /\ Len(swaps) \in Nat /\ \A i \in 1 .. Len(swaps) : swaps[i] \in SwapRun
  OBVIOUS
<1>2. \A i \in 1 .. Len(swaps) : Under(c, swaps[i]) \in SwapRun
  BY <1>1, UnderIs
<1>3. RanUnder(c, swaps) = [i \in 1 .. Len(swaps) |-> Under(c, swaps[i])]
  BY <1>1 DEF RanUnder
<1>. QED BY <1>1, <1>2, <1>3

(* of what its calls execute,                                              *)
LEMMA RanIs ==
    ASSUME NEW c, IsMulticall(c), NEW inside \in [Calldata -> Execution]
    PROVE  /\ DOMAIN c.calls = 1 .. Len(c.calls) /\ Len(c.calls) \in Nat
           /\ \A i \in 1 .. Len(c.calls) : c.calls[i] \in Calldata
           /\ Ran(c, inside) \in Seq(Seq(SwapRun)) /\ Len(Ran(c, inside)) = Len(c.calls)
           /\ \A i \in 1 .. Len(c.calls) : Ran(c, inside)[i] = inside[c.calls[i]].swaps
<1>1. /\ DOMAIN c.calls = 1 .. Len(c.calls) /\ Len(c.calls) \in Nat
      /\ \A i \in 1 .. Len(c.calls) : c.calls[i] \in Calldata
  BY DEF IsMulticall
<1>2. \A i \in 1 .. Len(c.calls) : inside[c.calls[i]].swaps \in Seq(SwapRun)
  BY <1>1 DEF Execution
<1>3. Ran(c, inside) = [i \in 1 .. Len(c.calls) |-> inside[c.calls[i]].swaps]
  BY <1>1 DEF Ran
<1>4. Ran(c, inside) \in Seq(Seq(SwapRun)) /\ Len(Ran(c, inside)) = Len(c.calls)
  BY <1>1, <1>2, <1>3
<1>. QED BY <1>1, <1>3, <1>4

(* RunCall of a multicall.                                                 *)
LEMMA RunMulticall ==
    ASSUME NEW c \in Calldata, IsMulticall(c), NEW router, NEW inside
    PROVE  RunCall(c, router, inside) =
             IF ~Knows(router, c.sel) \/ \E i \in DOMAIN c.calls : ~inside[c.calls[i]].ok THEN Reverts
             ELSE Runs(RanUnder(c, FlattenSeq(Ran(c, inside))), RanUnread(c, inside))
<1>1. Supported(c) /\ c.sel \notin SwapSelectors /\ c.sel \notin UnreadSelectors
  BY CallKinds DEF IsMulticall, MulticallSelectors, SwapSelectors, UnreadSelectors
<1>. QED BY <1>1 DEF RunCall, Ran, RanUnder, RanUnread

(* Types: of what one level executes,                                      *)
LEMMA RunCallIs ==
    ASSUME NEW c \in Calldata, NEW router \in Versions, NEW inside \in [Calldata -> Execution]
    PROVE  RunCall(c, router, inside) \in Execution
<1>1. CASE ~Supported(c)
  <2>1. <<>> \in Seq(SwapRun) /\ {} \in SUBSET Nat
    OBVIOUS
  <2>2. CASE c.sel = "other"
    <3>1. RunCall(c, router, inside) \in {Reverts, Runs(<<>>, {})}
      BY <1>1, <2>2 DEF RunCall, UnreadSelectors
    <3>. QED BY <2>1, <3>1, RunsIs
  <2>3. CASE c.sel \in UnreadSelectors /\ IsUnread(c)
    <3>1. RunCall(c, router, inside) \in {Reverts, Runs(<<>>, {c.id})}
      BY <2>3 DEF RunCall, RunUnread
    <3>2. {c.id} \in SUBSET Nat
      BY <2>3 DEF IsUnread
    <3>. QED BY <2>1, <3>1, <3>2, RunsIs
  <2>. QED BY <1>1, <2>2, <2>3, CallKinds
<1>2. CASE Supported(c) /\ c.sel \in SwapSelectors /\ IsSwap(c)
  <2>1. RunCall(c, router, inside) \in {Reverts, RunSwap(c)}
    BY <1>2 DEF RunCall, SwapSelectors, UnreadSelectors
  <2>2. {c.deadline} \ {NoDeadline} \in SUBSET Nat /\ c.id \in Nat
    BY <1>2 DEF IsSwap
  <2>3. [id |-> c.id, deadlines |-> {c.deadline} \ {NoDeadline}, hashes |-> {}] \in SwapRun
    BY <2>2 DEF SwapRun
  <2>4. <<[id |-> c.id, deadlines |-> {c.deadline} \ {NoDeadline}, hashes |-> {}]>> \in Seq(SwapRun)
    BY <2>3
  <2>5. {} \in SUBSET Nat
    OBVIOUS
  <2>. QED BY <2>1, <2>4, <2>5, RunsIs DEF RunSwap
<1>3. CASE IsMulticall(c)
  <2>1. FlattenSeq(Ran(c, inside)) \in Seq(SwapRun)
    BY <1>3, RanIs, FlattenIs
  <2>2. RanUnder(c, FlattenSeq(Ran(c, inside))) \in Seq(SwapRun)
    BY <1>3, <2>1, RanUnderIs
  <2>3. RanUnread(c, inside) \in SUBSET Nat
    <3>1. \A i \in DOMAIN c.calls : inside[c.calls[i]].unread \in SUBSET Nat
      BY <1>3, RanIs DEF Execution
    <3>. QED BY <3>1 DEF RanUnread
  <2>. QED BY <1>3, <2>2, <2>3, RunMulticall, RunsIs
<1>. QED BY <1>1, <1>2, <1>3, CallKinds

(* and of the router that calls itself.                                    *)
LEMMA RunAtIs ==
    ASSUME NEW router \in Versions
    PROVE  /\ RunAt(router) \in [Nat -> [Calldata -> Execution]]
           /\ \A n \in Nat, c \in Calldata :
                RunAt(router)[n + 1][c] = RunCall(c, router, RunAt(router)[n])
<1>. DEFINE V == [Calldata -> Execution]
            first == [c \in Calldata |-> Reverts]
            step == [inside \in V |-> [c \in Calldata |-> RunCall(c, router, inside)]]
            Good(f) == f = [left \in Nat |->
                              [c \in Calldata |-> IF left = 0 THEN Reverts
                                                  ELSE RunCall(c, router, f[left - 1])]]
            at == CHOOSE f : Good(f)
<1>1. first \in V
  BY RunsIs
<1>2. step \in [V -> V]
  BY RunCallIs
<1>3. PICK f \in [Nat -> V] : f[0] = first /\ \A n \in Nat : f[n + 1] = step[f[n]]
  <2>. HIDE DEF V, first, step
  <2>1. \E f \in [Nat -> V] : Repeats(f, first, step)
    BY <1>1, <1>2, IteratesForEver
  <2>. QED BY <2>1, Zenon DEF Repeats
<1>4. Good(f)
  <2>1. ASSUME NEW left \in Nat
        PROVE  f[left] = [c \in Calldata |-> IF left = 0 THEN Reverts
                                             ELSE RunCall(c, router, f[left - 1])]
    <3>1. CASE left = 0
      BY <1>3, <3>1
    <3>2. CASE left # 0
      <4>1. PICK n \in Nat : n = left - 1 /\ left = n + 1
        BY <3>2
      <4>2. f[left] = step[f[n]] /\ f[n] \in V
        BY <1>3, <4>1
      <4>3. step[f[n]] = [c \in Calldata |-> RunCall(c, router, f[n])]
        BY <4>2
      <4>. QED BY <3>2, <4>1, <4>2, <4>3
    <3>. QED BY <3>1, <3>2
  <2>2. f = [left \in Nat |-> f[left]]
    BY <1>3
  <2>. QED BY <2>1, <2>2, Zenon
<1>5. Good(at)
  <2>. HIDE DEF Good
  <2>. QED BY <1>4, Zenon
<1>6. RunAt(router) = at
  BY DEF RunAt
<1>7. PICK g : g = at
  OBVIOUS
<1>8. \A left \in Nat :
         g[left] = [c \in Calldata |-> IF left = 0 THEN Reverts
                                       ELSE RunCall(c, router, g[left - 1])]
  <2>. HIDE DEF at
  <2>1. g = [left \in Nat |-> [c \in Calldata |-> IF left = 0 THEN Reverts
                                                  ELSE RunCall(c, router, g[left - 1])]]
    BY <1>5, <1>7, Zenon
  <2>. QED BY <2>1, Zenon
<1>9. g[0] = first
  BY <1>8
<1>10. ASSUME NEW n \in Nat PROVE g[n + 1] = [c \in Calldata |-> RunCall(c, router, g[n])]
  <2>1. PICK m \in Nat : m = n + 1 /\ m # 0 /\ m - 1 = n
    OBVIOUS
  <2>. QED BY <1>8, <2>1
<1>11. \A n \in Nat : g[n] \in V
  <2>. DEFINE D == {n \in Nat : g[n] \in V}
  <2>1. 0 \in D
    BY <1>1, <1>9
  <2>2. ASSUME NEW n \in Nat, n \in D PROVE n + 1 \in D
    <3>1. g[n] \in [Calldata -> Execution]
      BY <2>2
    <3>2. \A c \in Calldata : RunCall(c, router, g[n]) \in Execution
      BY <3>1, RunCallIs
    <3>3. g[n + 1] = [c \in Calldata |-> RunCall(c, router, g[n])]
      BY <1>10
    <3>. QED BY <3>2, <3>3
  <2>. HIDE DEF D
  <2>3. \A n \in Nat : n \in D
    BY <2>1, <2>2, NatInd
  <2>. QED BY <2>3 DEF D
<1>12. g = [left \in Nat |-> g[left]]
  <2>. HIDE DEF at
  <2>1. g = [left \in Nat |-> [c \in Calldata |-> IF left = 0 THEN Reverts
                                                  ELSE RunCall(c, router, g[left - 1])]]
    BY <1>5, <1>7, Zenon
  <2>. QED BY <2>1, Zenon
<1>. HIDE DEF at
<1>13. RunAt(router) = g
  BY <1>6, <1>7
<1>14. g \in [Nat -> [Calldata -> Execution]]
  BY <1>11, <1>12
<1>16. \A n \in Nat, c \in Calldata : g[n + 1][c] = RunCall(c, router, g[n])
  BY <1>10
<1>. HIDE DEF V, first
<1>. QED BY <1>13, <1>14, <1>16, Zenon

(* How deep calldata goes.                                                 *)
LEMMA WithinIs ==
    /\ \A c \in Calldata : ~Within[0][c]
    /\ \A n \in Nat, c \in Calldata :
          Within[n + 1][c] <=>
            (c.sel \in MulticallSelectors =>
               \A i \in DOMAIN c.calls : Supported(c.calls[i]) => Within[n][c.calls[i]])
<1>. DEFINE V == [Calldata -> BOOLEAN]
            Reaches(c, inside) ==
                c.sel \in MulticallSelectors =>
                  \A i \in DOMAIN c.calls : Supported(c.calls[i]) => inside[c.calls[i]]
            first == [c \in Calldata |-> FALSE]
            step == [inside \in V |-> [c \in Calldata |-> Reaches(c, inside)]]
            Good(f) == f = [levels \in Nat |-> [c \in Calldata |-> levels > 0 /\ Reaches(c, f[levels - 1])]]
            at == CHOOSE f : Good(f)
<1>1. first \in V
  OBVIOUS
<1>2. step \in [V -> V]
  OBVIOUS
<1>3. PICK f \in [Nat -> V] : f[0] = first /\ \A n \in Nat : f[n + 1] = step[f[n]]
  <2>. HIDE DEF V, first, step
  <2>1. \E f \in [Nat -> V] : Repeats(f, first, step)
    BY <1>1, <1>2, IteratesForEver
  <2>. QED BY <2>1, Zenon DEF Repeats
<1>. HIDE DEF Reaches
<1>4. Good(f)
  <2>1. ASSUME NEW levels \in Nat
        PROVE  f[levels] = [c \in Calldata |-> levels > 0 /\ Reaches(c, f[levels - 1])]
    <3>1. CASE levels = 0
      BY <1>3, <3>1
    <3>2. CASE levels # 0
      <4>1. PICK n \in Nat : n = levels - 1 /\ levels = n + 1 /\ levels > 0
        BY <3>2
      <4>2. f[levels] = step[f[n]] /\ f[n] \in V
        BY <1>3, <4>1
      <4>3. step[f[n]] = [c \in Calldata |-> Reaches(c, f[n])]
        BY <4>2
      <4>. QED BY <4>1, <4>2, <4>3
    <3>. QED BY <3>1, <3>2
  <2>2. f = [levels \in Nat |-> f[levels]]
    BY <1>3
  <2>. QED BY <2>1, <2>2, Zenon
<1>5. Good(at)
  <2>. HIDE DEF Good
  <2>. QED BY <1>4, Zenon
<1>6. Within = at
  BY DEF Within, Reaches
<1>7. PICK g : g = at
  OBVIOUS
<1>8. \A levels \in Nat : g[levels] = [c \in Calldata |-> levels > 0 /\ Reaches(c, g[levels - 1])]
  <2>. HIDE DEF at
  <2>1. g = [levels \in Nat |-> [c \in Calldata |-> levels > 0 /\ Reaches(c, g[levels - 1])]]
    BY <1>5, <1>7, Zenon
  <2>. QED BY <2>1, Zenon
<1>9. \A c \in Calldata : ~g[0][c]
  <2>1. g[0] = [c \in Calldata |-> 0 > 0 /\ Reaches(c, g[0 - 1])]
    BY <1>8
  <2>2. \A c \in Calldata : g[0][c] = (0 > 0 /\ Reaches(c, g[0 - 1]))
    BY <2>1, Zenon
  <2>3. ~(0 > 0)
    OBVIOUS
  <2>. QED BY <2>2, <2>3, Zenon
<1>10. ASSUME NEW n \in Nat, NEW c \in Calldata PROVE g[n + 1][c] = Reaches(c, g[n])
  <2>1. PICK m \in Nat : m = n + 1 /\ m > 0 /\ m - 1 = n
    OBVIOUS
  <2>2. g[m][c] = (m > 0 /\ Reaches(c, g[m - 1]))
    BY <1>8
  <2>3. Reaches(c, g[n]) \in BOOLEAN
    BY DEF Reaches
  <2>. QED BY <2>1, <2>2, <2>3
<1>. HIDE DEF at
<1>. QED BY <1>6, <1>7, <1>9, <1>10 DEF Reaches

-----------------------------------------------------------------------------
(* What a decoder finds and what a router executes match, call by call.    *)
Matching(router) == {p \in Info \X SwapRun : p[1].version = router /\ Shows(p[1], p[2])}

(* Of the types above it is only Shows and the version.                    *)
LEMMA MatchingIs ==
    ASSUME NEW router, NEW info \in Info, NEW swap \in SwapRun
    PROVE  <<info, swap>> \in Matching(router) <=> info.version = router /\ Shows(info, swap)
BY DEF Matching

(* A swap that can be shown needs one block at most.                       *)
LEMMA NotContradicting ==
    ASSUME NEW info, NEW swap, Shows(info, swap)
    PROVE  ~Contradicts(swap)
BY DEF Shows, Contradicts

(* The earlier of two deadlines is the earliest of all.                    *)
LEMMA LimitShows ==
    ASSUME NEW c, IsMulticall(c), c.sel = "multicallDeadline",
           NEW info \in Info, NEW swap \in SwapRun, Shows(info, swap)
    PROVE  /\ Stamped(info, c).version = info.version
           /\ Shows(Stamped(info, c), Under(c, swap))
<1>1. c.limit \in Nat
  BY DEF IsMulticall
<1>2. Stamped(info, c) = IF info.deadline = NoDeadline \/ c.limit < info.deadline
                         THEN [info EXCEPT !.deadline = c.limit] ELSE info
  BY DEF Stamped, Limited
<1>3. PICK u : u = Under(c, swap)
  OBVIOUS
<1>4. u.id = swap.id /\ u.deadlines = swap.deadlines \union {c.limit} /\ u.hashes = swap.hashes
  BY <1>3 DEF Under, SwapRun
<1>5. c.limit \in u.deadlines /\ u.deadlines # {}
  BY <1>4
<1>6. info.id = swap.id /\ swap.hashes = {info.hash} \ {NoHash} /\ swap.deadlines \in SUBSET Nat
  BY DEF Shows, SwapRun
<1>7. CASE info.deadline = NoDeadline \/ c.limit < info.deadline
  <2>1. Stamped(info, c) = [info EXCEPT !.deadline = c.limit]
    BY <1>2, <1>7, Zenon
  <2>2. PICK stamped : stamped = Stamped(info, c)
    OBVIOUS
  <2>3. /\ stamped.id = info.id /\ stamped.version = info.version /\ stamped.hash = info.hash
        /\ stamped.deadline = c.limit
    BY <2>1, <2>2 DEF Info
  <2>4. ASSUME NEW t \in swap.deadlines PROVE c.limit <= t
    <3>1. swap.deadlines # {} /\ t \in Nat
      BY <1>6
    <3>2. info.deadline \in swap.deadlines /\ info.deadline <= t
      BY <3>1 DEF Shows
    <3>3. info.deadline \in Nat /\ info.deadline # NoDeadline
      BY <1>6, <3>2 DEF NoDeadline
    <3>. QED BY <1>1, <1>7, <3>1, <3>2, <3>3
  <2>5. \A t \in u.deadlines : c.limit <= t
    BY <1>1, <1>4, <2>4
  <2>6. Shows(stamped, u)
    BY <1>4, <1>5, <1>6, <2>3, <2>5 DEF Shows
  <2>. QED BY <1>3, <2>2, <2>3, <2>6
<1>8. CASE ~(info.deadline = NoDeadline \/ c.limit < info.deadline)
  <2>1. Stamped(info, c) = info
    BY <1>2, <1>8, Zenon
  <2>2. info.deadline \in swap.deadlines /\ \A t \in swap.deadlines : info.deadline <= t
    BY <1>8 DEF Shows
  <2>3. info.deadline \in Nat /\ info.deadline <= c.limit
    BY <1>1, <1>6, <1>8, <2>2
  <2>4. \A t \in u.deadlines : info.deadline <= t
    BY <1>4, <2>2, <2>3
  <2>5. Shows(info, u)
    BY <1>4, <1>5, <1>6, <2>2, <2>4 DEF Shows
  <2>. QED BY <1>3, <2>1, <2>5
<1>. QED BY <1>7, <1>8

(* A block hash is shown, or contradicts the one that was there.           *)
LEMMA HashShows ==
    ASSUME NEW c, IsMulticall(c), c.sel = "multicallHash",
           NEW info \in Info, NEW swap \in SwapRun, Shows(info, swap)
    PROVE  /\ Stamped(info, c).version = info.version
           /\ IF info.hash \in {NoHash, c.limit} THEN Shows(Stamped(info, c), Under(c, swap))
              ELSE Contradicts(Under(c, swap))
<1>1. c.limit \in Hashes /\ c.limit # NoHash
  BY HashesAssumption DEF IsMulticall
<1>2. PICK stamped : stamped = Stamped(info, c)
  OBVIOUS
<1>3. /\ stamped.id = info.id /\ stamped.version = info.version /\ stamped.hash = c.limit
      /\ stamped.deadline = info.deadline
  BY <1>2 DEF Stamped, Info
<1>4. PICK u : u = Under(c, swap)
  OBVIOUS
<1>5. u.id = swap.id /\ u.deadlines = swap.deadlines /\ u.hashes = swap.hashes \union {c.limit}
  BY <1>4 DEF Under, SwapRun
<1>6. swap.hashes = {info.hash} \ {NoHash}
  BY DEF Shows
<1>7. CASE info.hash \in {NoHash, c.limit}
  <2>1. u.hashes = {c.limit} \ {NoHash}
    BY <1>1, <1>5, <1>6, <1>7
  <2>2. Shows(stamped, u)
    BY <1>3, <1>5, <2>1 DEF Shows
  <2>. QED BY <1>2, <1>3, <1>4, <1>7, <2>2
<1>8. CASE info.hash \notin {NoHash, c.limit}
  <2>1. info.hash \in u.hashes /\ c.limit \in u.hashes /\ info.hash # c.limit
    BY <1>5, <1>6, <1>8
  <2>2. Contradicts(u)
    BY <2>1 DEF Contradicts
  <2>. QED BY <1>2, <1>3, <1>4, <1>8, <2>2
<1>. QED BY <1>7, <1>8

(* A swap needs two blocks when the multicall's is not the one it needed.  *)
TwoBlocks(c, info) == c.sel = "multicallHash" /\ info.hash \notin {NoHash, c.limit}

(* So what matched in a multicall matches as it is stamped.                *)
LEMMA StampShows ==
    ASSUME NEW c, IsMulticall(c), NEW router, NEW info \in Info, NEW swap \in SwapRun,
           <<info, swap>> \in Matching(router)
    PROVE  IF TwoBlocks(c, info) THEN Contradicts(Under(c, swap))
           ELSE /\ <<Stamped(info, c), Under(c, swap)>> \in Matching(router)
                /\ ~Contradicts(Under(c, swap))
<1>1. info.version = router /\ Shows(info, swap)
  BY MatchingIs
<1>2. Stamped(info, c) \in Info /\ Under(c, swap) \in SwapRun
  BY StampedIs, UnderIs
<1>3. ASSUME Stamped(info, c).version = info.version, Shows(Stamped(info, c), Under(c, swap))
      PROVE  /\ <<Stamped(info, c), Under(c, swap)>> \in Matching(router)
             /\ ~Contradicts(Under(c, swap))
  BY <1>1, <1>2, <1>3, MatchingIs, NotContradicting
<1>4. CASE c.sel = "multicall"
  <2>1. Stamped(info, c) = info /\ Under(c, swap) = swap
    BY <1>4 DEF Stamped, Under
  <2>2. ~TwoBlocks(c, info)
    BY <1>4 DEF TwoBlocks
  <2>. QED BY <1>1, <1>3, <2>1, <2>2
<1>5. CASE c.sel = "multicallDeadline"
  <2>1. Stamped(info, c).version = info.version /\ Shows(Stamped(info, c), Under(c, swap))
    BY <1>1, <1>5, LimitShows
  <2>2. ~TwoBlocks(c, info)
    BY <1>5 DEF TwoBlocks
  <2>. QED BY <1>3, <2>1, <2>2
<1>6. CASE c.sel = "multicallHash"
  BY <1>1, <1>3, <1>6, HashShows DEF TwoBlocks
<1>. QED BY <1>4, <1>5, <1>6 DEF IsMulticall, MulticallSelectors

Contradictory(swaps) == \E i \in 1 .. Len(swaps) : Contradicts(swaps[i])

(* What the decoder answers, for what the router executes.                 *)
Answers(router, d, swaps) ==
    Pairwise(Matching(router), d.infos, swaps) /\ d.err = IF swaps = <<>> THEN "none" ELSE ""

(* And so do all the swaps of a multicall.                                 *)
LEMMA EnvelopeShows ==
    ASSUME NEW c, IsMulticall(c), NEW router \in Versions, NEW infos \in Seq(Info),
           NEW swaps \in Seq(SwapRun), Pairwise(Matching(router), infos, swaps)
    PROVE  IF Contradictory(RanUnder(c, swaps)) THEN Envelope(c, router, infos) = Error("error")
           ELSE Answers(router, Envelope(c, router, infos), RanUnder(c, swaps))
<1>1. /\ Len(infos) \in Nat /\ Len(swaps) = Len(infos) /\ DOMAIN infos = 1 .. Len(infos)
      /\ \A i \in 1 .. Len(infos) : infos[i] \in Info /\ swaps[i] \in SwapRun
      /\ \A i \in 1 .. Len(infos) : <<infos[i], swaps[i]>> \in Matching(router)
  <2>1. Len(swaps) = Len(infos) /\ \A i \in 1 .. Len(infos) : <<infos[i], swaps[i]>> \in Matching(router)
    BY DEF Pairwise
  <2>. QED BY <2>1
<1>2. PICK run : run = RanUnder(c, swaps)
  OBVIOUS
<1>3. run \in Seq(SwapRun) /\ Len(run) = Len(infos) /\ \A i \in 1 .. Len(infos) : run[i] = Under(c, swaps[i])
  BY <1>1, <1>2, RanUnderIs
<1>4. \A i \in 1 .. Len(infos) : infos[i].version = router
  BY <1>1, MatchingIs
<1>5. \A i \in 1 .. Len(infos) :
         IF TwoBlocks(c, infos[i]) THEN Contradicts(run[i])
         ELSE <<Stamped(infos[i], c), run[i]>> \in Matching(router) /\ ~Contradicts(run[i])
  <2>. SUFFICES ASSUME NEW i \in 1 .. Len(infos)
                PROVE  IF TwoBlocks(c, infos[i]) THEN Contradicts(run[i])
                       ELSE <<Stamped(infos[i], c), run[i]>> \in Matching(router) /\ ~Contradicts(run[i])
    OBVIOUS
  <2>1. PICK info \in Info : info = infos[i]
    BY <1>1
  <2>2. PICK swap \in SwapRun : swap = swaps[i]
    BY <1>1
  <2>3. <<info, swap>> \in Matching(router) /\ run[i] = Under(c, swap)
    BY <1>1, <1>3, <2>1, <2>2
  <2>4. IF TwoBlocks(c, info) THEN Contradicts(Under(c, swap))
        ELSE <<Stamped(info, c), Under(c, swap)>> \in Matching(router) /\ ~Contradicts(Under(c, swap))
    BY <2>3, StampShows
  <2>. QED BY <2>1, <2>3, <2>4, Zenon
<1>6. Envelope(c, router, infos) =
        IF infos = <<>> THEN Error("none")
        ELSE IF \E i \in 1 .. Len(infos) : TwoBlocks(c, infos[i]) THEN Error("error")
        ELSE Infos([i \in 1 .. Len(infos) |-> Stamped(infos[i], c)])
  <2>1. (\E i \in DOMAIN infos : \/ infos[i].version # router
                                 \/ c.sel = "multicallHash" /\ infos[i].hash \notin {NoHash, c.limit})
          <=> \E i \in 1 .. Len(infos) : TwoBlocks(c, infos[i])
    BY <1>1, <1>4, Zenon DEF TwoBlocks
  <2>2. [i \in DOMAIN infos |-> Stamped(infos[i], c)] = [i \in 1 .. Len(infos) |-> Stamped(infos[i], c)]
    BY <1>1, Zenon
  <2>. QED BY <2>1, <2>2, Zenon DEF Envelope
<1>7. CASE Contradictory(run)
  <2>1. PICK i \in 1 .. Len(infos) : Contradicts(run[i])
    BY <1>3, <1>7 DEF Contradictory
  <2>2. TwoBlocks(c, infos[i])
    BY <1>5, <2>1
  <2>3. infos # <<>>
    BY <1>1, <2>1
  <2>. QED BY <1>2, <1>6, <1>7, <2>2, <2>3
<1>8. CASE ~Contradictory(run)
  <2>1. \A i \in 1 .. Len(infos) : ~TwoBlocks(c, infos[i]) /\ <<Stamped(infos[i], c), run[i]>> \in Matching(router)
    BY <1>3, <1>5, <1>8 DEF Contradictory
  <2>2. CASE infos = <<>>
    <3>1. Envelope(c, router, infos) = Error("none") /\ run = <<>>
      BY <1>3, <1>6, <2>2
    <3>2. Answers(router, Error("none"), run)
      BY <3>1 DEF Answers, Pairwise, Error
    <3>. QED BY <1>2, <1>8, <3>1, <3>2
  <2>3. CASE infos # <<>>
    <3>. DEFINE stamped == [i \in 1 .. Len(infos) |-> Stamped(infos[i], c)]
    <3>1. Envelope(c, router, infos) = Infos(stamped)
      BY <1>6, <2>1, <2>3, Zenon
    <3>2. Len(stamped) = Len(infos) /\ \A i \in 1 .. Len(infos) : stamped[i] = Stamped(infos[i], c)
      BY <1>1
    <3>3. run # <<>>
      BY <1>1, <1>3, <2>3
    <3>. HIDE DEF stamped
    <3>4. Pairwise(Matching(router), stamped, run)
      BY <1>3, <2>1, <3>2 DEF Pairwise
    <3>5. Infos(stamped).infos = stamped /\ Infos(stamped).err = ""
      BY DEF Infos
    <3>6. Answers(router, Infos(stamped), run)
      BY <3>3, <3>4, <3>5, Zenon DEF Answers
    <3>. QED BY <1>2, <1>8, <3>1, <3>6
  <2>. QED BY <2>2, <2>3
<1>. QED BY <1>7, <1>8

(* What the decoder must answer: that it decodes nothing nested so deep,   *)
(* or that no block has two hashes, or what is executed.                   *)
Faithful(router, d, deep, swaps) ==
    IF deep \/ Contradictory(swaps) THEN d = Error("error") ELSE Answers(router, d, swaps)

(* A swap by itself is decoded as it executes.                             *)
LEMMA SwapFaithful ==
    ASSUME NEW c \in Calldata, IsSwap(c), NEW router \in Versions, Knows(router, c.sel), RunSwap(c).ok
    PROVE  Faithful(router, DecodeSwap(c), FALSE, RunSwap(c).swaps)
<1>1. ~Unusable(c)
  BY DEF RunSwap, Reverts
<1>2. c.sel \in SwapSelectors /\ c.id \in Nat /\ c.deadline \in Nat \union {NoDeadline}
  BY DEF IsSwap
<1>3. PICK info : info = [id |-> c.id, version |-> VersionOf(c.sel), deadline |-> c.deadline, hash |-> NoHash]
  OBVIOUS
<1>4. PICK swap : swap = [id |-> c.id, deadlines |-> {c.deadline} \ {NoDeadline}, hashes |-> {}]
  OBVIOUS
<1>5. DecodeSwap(c) = Infos(<<info>>) /\ RunSwap(c) = Runs(<<swap>>, {})
  BY <1>1, <1>3, <1>4 DEF DecodeSwap, RunSwap
<1>6. VersionOf(c.sel) = router
  BY <1>2 DEF Knows, VersionOf, SwapSelectors, Versions
<1>7. info \in Info /\ info.version = router
  BY <1>2, <1>3, <1>6 DEF Info
<1>8. swap \in SwapRun
  BY <1>2, <1>4 DEF SwapRun
<1>9. Shows(info, swap)
  <2>1. info.id = swap.id /\ info.deadline = c.deadline /\ info.hash = NoHash
        /\ swap.deadlines = {c.deadline} \ {NoDeadline} /\ swap.hashes = {}
    BY <1>3, <1>4
  <2>2. \A t \in swap.deadlines : info.deadline <= t
    BY <1>2, <2>1 DEF NoDeadline
  <2>. QED BY <2>1, <2>2 DEF Shows
<1>10. <<info, swap>> \in Matching(router)
  BY <1>7, <1>8, <1>9, MatchingIs
<1>11. Pairwise(Matching(router), <<info>>, <<swap>>)
  BY <1>10 DEF Pairwise
<1>12. ~Contradictory(<<swap>>)
  BY <1>9, NotContradicting DEF Contradictory
<1>13. Answers(router, Infos(<<info>>), <<swap>>)
  BY <1>11 DEF Answers, Infos
<1>14. Runs(<<swap>>, {}).swaps = <<swap>>
  BY DEF Runs
<1>. QED BY <1>5, <1>12, <1>13, <1>14 DEF Faithful

(* Every swap that an inner call executes is executed in the multicall.    *)
LEMMA InnerContradicts ==
    ASSUME NEW c, IsMulticall(c), NEW inside \in [Calldata -> Execution],
           NEW i \in 1 .. Len(c.calls), Contradictory(inside[c.calls[i]].swaps)
    PROVE  Contradictory(RanUnder(c, FlattenSeq(Ran(c, inside))))
<1>1. /\ Len(c.calls) \in Nat
      /\ Ran(c, inside) \in Seq(Seq(SwapRun)) /\ Len(Ran(c, inside)) = Len(c.calls)
      /\ Ran(c, inside)[i] = inside[c.calls[i]].swaps
  BY RanIs
<1>2. PICK ss : ss = Ran(c, inside)
  OBVIOUS
<1>3. PICK j \in 1 .. Len(ss[i]) : Contradicts(ss[i][j])
  BY <1>1, <1>2, Zenon DEF Contradictory
<1>4. PICK swaps : swaps = FlattenSeq(ss)
  OBVIOUS
<1>5. swaps \in Seq(SwapRun) /\ \E k \in 1 .. Len(swaps) : swaps[k] = ss[i][j]
  BY <1>1, <1>2, <1>4, FlattenIs, FlattenHas
<1>6. PICK k \in 1 .. Len(swaps) : swaps[k] = ss[i][j]
  BY <1>5, Zenon
<1>7. PICK swap : swap = swaps[k]
  OBVIOUS
<1>8. swap \in SwapRun /\ Contradicts(swap)
  BY <1>3, <1>5, <1>6, <1>7
<1>9. swap.hashes \subseteq Under(c, swap).hashes
  BY <1>8 DEF Under, SwapRun, IsMulticall, MulticallSelectors
<1>10. Contradicts(Under(c, swap))
  BY <1>8, <1>9 DEF Contradicts
<1>11. Len(RanUnder(c, swaps)) = Len(swaps) /\ RanUnder(c, swaps)[k] = Under(c, swap)
  BY <1>5, <1>7, RanUnderIs
<1>12. Contradictory(RanUnder(c, swaps))
  BY <1>10, <1>11 DEF Contradictory
<1>. QED BY <1>2, <1>4, <1>12

(* In a multicall: inside is what the decoder, run what a router says of   *)
(* its calls.                                                              *)
LEMMA MulticallFaithful ==
    ASSUME NEW c \in Calldata, IsMulticall(c), NEW router \in Versions, Knows(router, c.sel),
           NEW inside \in [Calldata -> Decoding], NEW run \in [Calldata -> Execution],
           NEW Deep,
           \A i \in 1 .. Len(c.calls) :
              IF Supported(c.calls[i])
              THEN Faithful(router, inside[c.calls[i]], c.calls[i] \in Deep, run[c.calls[i]].swaps)
              ELSE run[c.calls[i]].swaps = <<>>
    PROVE  Faithful(router, DecodeCall(c, router, inside),
                    \E i \in 1 .. Len(c.calls) : Supported(c.calls[i]) /\ c.calls[i] \in Deep,
                    RanUnder(c, FlattenSeq(Ran(c, run))))
<1>1. /\ DOMAIN Inner(c, inside) = 1 .. Len(c.calls) /\ Len(c.calls) \in Nat
      /\ \A i \in 1 .. Len(c.calls) : c.calls[i] \in Calldata /\ Inner(c, inside)[i] \in Decoding
      /\ Found(c, inside) \in Seq(Seq(Info)) /\ Len(Found(c, inside)) = Len(c.calls)
      /\ \A i \in 1 .. Len(c.calls) : Found(c, inside)[i] = Inner(c, inside)[i].infos
  BY InnerIs
<1>2. /\ Ran(c, run) \in Seq(Seq(SwapRun)) /\ Len(Ran(c, run)) = Len(c.calls)
      /\ \A i \in 1 .. Len(c.calls) : Ran(c, run)[i] = run[c.calls[i]].swaps
      /\ DOMAIN c.calls = 1 .. Len(c.calls)
  BY RanIs
<1>3. ~(c.sel # "multicall" /\ router # 2)
  BY DEF Knows, Versions, IsMulticall, MulticallSelectors
<1>4. DecodeCall(c, router, inside) =
         IF \E i \in 1 .. Len(c.calls) : Inner(c, inside)[i].err = "error" THEN Error("error")
         ELSE Envelope(c, router, FlattenSeq(Found(c, inside)))
  <2>1. DecodeCall(c, router, inside) =
          IF \E i \in DOMAIN Inner(c, inside) : Inner(c, inside)[i].err = "error" THEN Error("error")
          ELSE Envelope(c, router, FlattenSeq(Found(c, inside)))
    BY <1>3, DecodeMulticall
  <2>2. DOMAIN Inner(c, inside) = 1 .. Len(c.calls)
    BY <1>1
  <2>. QED BY <2>1, <2>2, Zenon
<1>5. \A i \in 1 .. Len(c.calls) :
         Inner(c, inside)[i] = IF Supported(c.calls[i]) THEN inside[c.calls[i]] ELSE Infos(<<>>)
  BY <1>2, Zenon DEF Inner
<1>6. Error("error").err = "error" /\ Infos(<<>>).err = "" /\ Infos(<<>>).infos = <<>>
  BY DEF Error, Infos
<1>7. "none" # "error" /\ "" # "error"
  OBVIOUS
<1>. DEFINE Lost(i) == /\ Supported(c.calls[i])
                       /\ c.calls[i] \in Deep \/ Contradictory(run[c.calls[i]].swaps)
<1>8. CASE \E i \in 1 .. Len(c.calls) : Lost(i)
  <2>1. PICK i \in 1 .. Len(c.calls) : Lost(i)
    BY <1>8
  <2>2. Inner(c, inside)[i] = Error("error")
    BY <1>5, <2>1 DEF Faithful
  <2>3. DecodeCall(c, router, inside) = Error("error")
    <3>1. \E j \in 1 .. Len(c.calls) : Inner(c, inside)[j].err = "error"
      BY <1>6, <2>2, Zenon
    <3>. QED BY <1>4, <3>1, Zenon
  <2>4. CASE c.calls[i] \in Deep
    BY <2>1, <2>3, <2>4 DEF Faithful
  <2>5. CASE Contradictory(run[c.calls[i]].swaps)
    <3>1. Contradictory(RanUnder(c, FlattenSeq(Ran(c, run))))
      BY <2>5, InnerContradicts
    <3>. QED BY <2>3, <3>1 DEF Faithful
  <2>. QED BY <2>1, <2>4, <2>5
<1>9. CASE \A i \in 1 .. Len(c.calls) : ~Lost(i)
  <2>1. ASSUME NEW i \in 1 .. Len(c.calls)
        PROVE  /\ Inner(c, inside)[i].err # "error"
               /\ Pairwise(Matching(router), Found(c, inside)[i], Ran(c, run)[i])
    <3>1. CASE Supported(c.calls[i])
      <4>1. Answers(router, inside[c.calls[i]], run[c.calls[i]].swaps)
        BY <1>9, <3>1 DEF Faithful
      <4>2. Inner(c, inside)[i] = inside[c.calls[i]]
        BY <1>5, <3>1, Zenon
      <4>3. Inner(c, inside)[i].err # "error"
        <5>1. Inner(c, inside)[i].err = "none" \/ Inner(c, inside)[i].err = ""
          BY <4>1, <4>2, Zenon DEF Answers
        <5>. QED BY <1>7, <5>1, Zenon
      <4>4. Pairwise(Matching(router), Inner(c, inside)[i].infos, run[c.calls[i]].swaps)
        BY <4>1, <4>2, Zenon DEF Answers
      <4>5. Found(c, inside)[i] = Inner(c, inside)[i].infos /\ Ran(c, run)[i] = run[c.calls[i]].swaps
        BY <1>1, <1>2, Zenon
      <4>. QED BY <4>3, <4>4, <4>5, Zenon
    <3>2. CASE ~Supported(c.calls[i])
      <4>1. Inner(c, inside)[i] = Infos(<<>>)
        BY <1>5, <3>2, Zenon
      <4>2. Inner(c, inside)[i].err = ""
        BY <1>6, <4>1, Zenon
      <4>3. Found(c, inside)[i] = <<>>
        BY <1>1, <1>6, <4>1, Zenon
      <4>4. Ran(c, run)[i] = <<>>
        BY <1>2, <3>2, Zenon
      <4>5. Pairwise(Matching(router), <<>>, <<>>)
        BY DEF Pairwise
      <4>6. Inner(c, inside)[i].err # "error"
        BY <1>7, <4>2, Zenon
      <4>. QED BY <4>3, <4>4, <4>5, <4>6, Zenon
    <3>. QED BY <3>1, <3>2
  <2>2. Pairwise(Matching(router), FlattenSeq(Found(c, inside)), FlattenSeq(Ran(c, run)))
    BY <1>1, <1>2, <2>1, FlattenPairwise
  <2>3. FlattenSeq(Found(c, inside)) \in Seq(Info) /\ FlattenSeq(Ran(c, run)) \in Seq(SwapRun)
    BY <1>1, <1>2, FlattenIs
  <2>4. DecodeCall(c, router, inside) = Envelope(c, router, FlattenSeq(Found(c, inside)))
    BY <1>4, <2>1
  <2>5. ~\E i \in 1 .. Len(c.calls) : Supported(c.calls[i]) /\ c.calls[i] \in Deep
    BY <1>9
  <2>6. IF Contradictory(RanUnder(c, FlattenSeq(Ran(c, run))))
        THEN DecodeCall(c, router, inside) = Error("error")
        ELSE Answers(router, DecodeCall(c, router, inside), RanUnder(c, FlattenSeq(Ran(c, run))))
    BY <2>2, <2>3, <2>4, EnvelopeShows
  <2>. QED BY <2>5, <2>6 DEF Faithful
<1>. QED BY <1>8, <1>9

(* By induction on the levels the decoder goes down.                       *)
LEMMA DecodesFaithfully ==
    ASSUME NEW router \in Versions, NEW n \in Nat
    PROVE  \A m \in Nat, c \in Calldata :
             Supported(c) /\ Within[m][c] /\ RunAt(router)[m + 1][c].ok
               => Faithful(router, DecodeAt(router)[n][c], ~Within[n][c], RunAt(router)[m + 1][c].swaps)
<1>. DEFINE Good(k) ==
              \A m \in Nat, c \in Calldata :
                 Supported(c) /\ Within[m][c] /\ RunAt(router)[m + 1][c].ok
                   => Faithful(router, DecodeAt(router)[k][c], ~Within[k][c], RunAt(router)[m + 1][c].swaps)
            D == {k \in Nat : Good(k)}
<1>1. 0 \in D
  <2>1. \A c \in Calldata : DecodeAt(router)[0][c] = Error("error") /\ ~Within[0][c]
    BY DecodeAtIs, WithinIs
  <2>. QED BY <2>1 DEF Faithful
<1>2. ASSUME NEW k \in Nat, k \in D PROVE k + 1 \in D
  <2>. SUFFICES ASSUME NEW m \in Nat, NEW c \in Calldata,
                       Supported(c), Within[m][c], RunAt(router)[m + 1][c].ok
                PROVE  Faithful(router, DecodeAt(router)[k + 1][c], ~Within[k + 1][c],
                                RunAt(router)[m + 1][c].swaps)
    OBVIOUS
  <2>1. PICK p \in Nat : m = p + 1
    <3>1. m # 0
      BY WithinIs
    <3>2. m - 1 \in Nat /\ m = (m - 1) + 1
      BY <3>1
    <3>. QED BY <3>2
  <2>2. PICK inside \in [Calldata -> Decoding] : inside = DecodeAt(router)[k]
    BY DecodeAtIs
  <2>3. PICK run \in [Calldata -> Execution] : run = RunAt(router)[m]
    BY RunAtIs
  <2>4. DecodeAt(router)[k + 1][c] = DecodeCall(c, router, inside)
    BY <2>2, DecodeAtIs
  <2>5. RunAt(router)[m + 1][c] = RunCall(c, router, run)
    BY <2>3, RunAtIs
  <2>6. RunCall(c, router, run).ok /\ Knows(router, c.sel)
    <3>1. RunCall(c, router, run).ok
      BY <2>5
    <3>. QED BY <3>1 DEF RunCall, Reverts
  <2>7. CASE c.sel \in SwapSelectors /\ IsSwap(c)
    <3>1. DecodeCall(c, router, inside) = DecodeSwap(c) /\ RunCall(c, router, run) = RunSwap(c)
      BY <2>6, <2>7 DEF DecodeCall, RunCall, SwapSelectors, UnreadSelectors
    <3>2. Within[k + 1][c]
      <4>1. c.sel \notin MulticallSelectors
        BY <2>7 DEF SwapSelectors, MulticallSelectors
      <4>. QED BY <4>1, WithinIs
    <3>3. Faithful(router, DecodeSwap(c), FALSE, RunSwap(c).swaps)
      BY <2>6, <2>7, <3>1, SwapFaithful
    <3>. QED BY <2>4, <2>5, <3>1, <3>2, <3>3 DEF Faithful
  <2>8. CASE c.sel \in MulticallSelectors /\ IsMulticall(c)
    <3>1. /\ Len(c.calls) \in Nat /\ DOMAIN c.calls = 1 .. Len(c.calls)
          /\ \A i \in 1 .. Len(c.calls) : c.calls[i] \in Calldata
      BY <2>8, RanIs
    <3>2. /\ \A i \in 1 .. Len(c.calls) : run[c.calls[i]].ok
          /\ RunCall(c, router, run) = Runs(RanUnder(c, FlattenSeq(Ran(c, run))), RanUnread(c, run))
      <4>1. RunCall(c, router, run) # Reverts
        BY <2>6 DEF Reverts
      <4>. QED BY <2>8, <3>1, <4>1, RunMulticall
    <3>3. \A i \in 1 .. Len(c.calls) : Supported(c.calls[i]) => Within[p][c.calls[i]]
      BY <2>1, <2>8, <3>1, WithinIs
    <3>. DEFINE Deep == {e \in Calldata : ~Within[k][e]}
    <3>4. ASSUME NEW i \in 1 .. Len(c.calls)
          PROVE  IF Supported(c.calls[i])
                 THEN Faithful(router, inside[c.calls[i]], c.calls[i] \in Deep, run[c.calls[i]].swaps)
                 ELSE run[c.calls[i]].swaps = <<>>
      <4>1. PICK e \in Calldata : e = c.calls[i]
        BY <3>1
      <4>2. CASE Supported(e)
        <5>1. Within[p][e] /\ RunAt(router)[p + 1][e].ok
          BY <2>1, <2>3, <3>2, <3>3, <4>1, <4>2
        <5>2. Faithful(router, inside[e], ~Within[k][e], run[e].swaps)
          BY <1>2, <2>1, <2>2, <2>3, <4>2, <5>1
        <5>3. e \in Deep <=> ~Within[k][e]
          OBVIOUS
        <5>. QED BY <4>1, <4>2, <5>2, <5>3 DEF Faithful
      <4>3. CASE ~Supported(e)
        <5>1. run[e] = RunCall(e, router, RunAt(router)[p])
          BY <2>1, <2>3, RunAtIs
        <5>2. run[e] \in {Reverts, Runs(<<>>, {}), Runs(<<>>, {e.id})}
          BY <4>3, <5>1 DEF RunCall, RunUnread
        <5>. QED BY <4>1, <4>3, <5>2 DEF Reverts, Runs
      <4>. QED BY <4>2, <4>3, <4>1
    <3>5. (\E i \in 1 .. Len(c.calls) : Supported(c.calls[i]) /\ c.calls[i] \in Deep)
            <=> ~Within[k + 1][c]
      BY <2>8, <3>1, WithinIs
    <3>. HIDE DEF Deep
    <3>6. Faithful(router, DecodeCall(c, router, inside),
                   \E i \in 1 .. Len(c.calls) : Supported(c.calls[i]) /\ c.calls[i] \in Deep,
                   RanUnder(c, FlattenSeq(Ran(c, run))))
      BY <2>6, <2>8, <3>4, MulticallFaithful
    <3>7. Runs(RanUnder(c, FlattenSeq(Ran(c, run))), RanUnread(c, run)).swaps
            = RanUnder(c, FlattenSeq(Ran(c, run)))
      BY DEF Runs
    <3>. QED BY <2>4, <2>5, <3>2, <3>5, <3>6, <3>7 DEF Faithful
  <2>. QED BY <2>7, <2>8, CallKinds
<1>3. \A k \in Nat : k \in D
  <2>. HIDE DEF D
  <2>. QED BY <1>1, <1>2, NatInd
<1>. QED BY <1>3

-----------------------------------------------------------------------------
(* What the SDK encodes: a swap, alone or the only one in a multicall.     *)
InfoOf(c) == [id |-> c.id, version |-> VersionOf(c.sel), deadline |-> c.deadline, hash |-> NoHash]

(* It has the type of what is decoded,                                     *)
LEMMA InfoOfIs == ASSUME NEW c, IsSwap(c) PROVE InfoOf(c) \in Info
<1>1. VersionOf(c.sel) \in Versions
  BY DEF VersionOf, Versions
<1>2. c.deadline \in Nat \union {NoDeadline} /\ c.id \in Nat
  BY DEF IsSwap
<1>. QED BY <1>1, <1>2 DEF Info, InfoOf

(* is decoded on every level,                                              *)
LEMMA SwapAlone ==
    ASSUME NEW c \in Calldata, IsSwap(c), ~Unusable(c), NEW router \in Versions, NEW n \in Nat
    PROVE  DecodeAt(router)[n + 1][c] = Infos(<<InfoOf(c)>>)
<1>1. DecodeAt(router)[n + 1][c] = DecodeCall(c, router, DecodeAt(router)[n])
  BY DecodeAtIs
<1>2. c.sel \in SwapSelectors /\ Supported(c)
  BY DEF IsSwap, Supported
<1>3. DecodeCall(c, router, DecodeAt(router)[n]) = DecodeSwap(c)
  BY <1>2 DEF DecodeCall
<1>. QED BY <1>1, <1>3 DEF DecodeSwap, InfoOf

(* and in a multicall on every level but the first.                        *)
LEMMA SwapInMulticall ==
    ASSUME NEW c \in Calldata, IsMulticall(c), NEW router \in Versions, NEW n \in Nat, n > 1,
           c.sel = "multicall" \/ (c.sel = "multicallDeadline" /\ router = 2),
           NEW i \in 1 .. Len(c.calls), IsSwap(c.calls[i]), ~Unusable(c.calls[i]),
           VersionOf(c.calls[i].sel) = router,
           \A j \in 1 .. Len(c.calls) : j # i => ~Supported(c.calls[j])
    PROVE  DecodeAt(router)[n][c] = Infos(<<Stamped(InfoOf(c.calls[i]), c)>>)
<1>0. PICK k \in Nat : n = (k + 1) + 1
  <2>1. n - 2 \in Nat /\ n = (n - 2 + 1) + 1
    OBVIOUS
  <2>. QED BY <2>1
<1>1. PICK inside \in [Calldata -> Decoding] : inside = DecodeAt(router)[k + 1]
  <2>1. PICK at \in [Nat -> [Calldata -> Decoding]] : at = DecodeAt(router)
    BY DecodeAtIs
  <2>2. at[k + 1] \in [Calldata -> Decoding]
    OBVIOUS
  <2>. QED BY <2>1, <2>2
<1>2. DecodeAt(router)[n][c] = DecodeCall(c, router, inside)
  <2>1. PICK m \in Nat : m = k + 1 /\ n = m + 1
    BY <1>0
  <2>. QED BY <1>1, <2>1, DecodeAtIs
<1>3. PICK info \in Info : info = InfoOf(c.calls[i])
  BY InfoOfIs
<1>4. /\ DOMAIN Inner(c, inside) = 1 .. Len(c.calls) /\ Len(c.calls) \in Nat
      /\ \A j \in 1 .. Len(c.calls) : c.calls[j] \in Calldata /\ Inner(c, inside)[j] \in Decoding
      /\ Found(c, inside) \in Seq(Seq(Info)) /\ Len(Found(c, inside)) = Len(c.calls)
      /\ \A j \in 1 .. Len(c.calls) : Found(c, inside)[j] = Inner(c, inside)[j].infos
  BY InnerIs
<1>5. inside[c.calls[i]] = Infos(<<info>>)
  BY <1>1, <1>3, <1>4, SwapAlone
<1>6. DOMAIN c.calls = 1 .. Len(c.calls) /\ Supported(c.calls[i])
  <2>1. DOMAIN c.calls = 1 .. Len(c.calls)
    BY DEF IsMulticall
  <2>2. Supported(c.calls[i])
    BY DEF IsSwap, Supported
  <2>. QED BY <2>1, <2>2
<1>7. Inner(c, inside)[i] = Infos(<<info>>)
  BY <1>5, <1>6, Zenon DEF Inner
<1>8. \A j \in 1 .. Len(c.calls) : j # i => Inner(c, inside)[j] = Infos(<<>>)
  BY <1>6, Zenon DEF Inner
<1>9. \A infos : Infos(infos).infos = infos /\ Infos(infos).err # "error"
  BY DEF Infos
<1>10. FlattenSeq(Found(c, inside)) = <<info>>
  <2>1. Found(c, inside)[i] = <<info>>
    BY <1>4, <1>7, <1>9, Zenon
  <2>2. \A j \in 1 .. Len(c.calls) : j # i => Found(c, inside)[j] = <<>>
    BY <1>4, <1>8, <1>9, Zenon
  <2>3. FlattenSeq(Found(c, inside)) = Found(c, inside)[i]
    BY <1>4, <2>2, FlattenOne
  <2>. QED BY <2>1, <2>3
<1>11. ~\E j \in DOMAIN Inner(c, inside) : Inner(c, inside)[j].err = "error"
  <2>1. ASSUME NEW j \in 1 .. Len(c.calls) PROVE Inner(c, inside)[j].err # "error"
    <3>1. CASE j = i
      BY <1>7, <1>9, <3>1, Zenon
    <3>2. CASE j # i
      BY <1>8, <1>9, <3>2, Zenon
    <3>. QED BY <3>1, <3>2, Zenon
  <2>. QED BY <1>4, <2>1, Zenon
<1>12. DecodeCall(c, router, inside) = Envelope(c, router, <<info>>)
  <2>1. ~(c.sel # "multicall" /\ router # 2)
    OBVIOUS
  <2>2. DecodeCall(c, router, inside) =
          IF c.sel # "multicall" /\ router # 2 THEN Error("error")
          ELSE IF \E j \in DOMAIN Inner(c, inside) : Inner(c, inside)[j].err = "error" THEN Error("error")
          ELSE Envelope(c, router, FlattenSeq(Found(c, inside)))
    BY DecodeMulticall
  <2>. QED BY <1>10, <1>11, <2>1, <2>2, Zenon
<1>13. Envelope(c, router, <<info>>) = Infos([j \in DOMAIN <<info>> |-> Stamped(<<info>>[j], c)])
  <2>1. <<info>> # <<>> /\ \A j \in DOMAIN <<info>> : <<info>>[j] = info
    OBVIOUS
  <2>2. info.version = router
    BY <1>3 DEF InfoOf
  <2>3. c.sel # "multicallHash"
    OBVIOUS
  <2>. QED BY <2>1, <2>2, <2>3, Zenon DEF Envelope
<1>14. [j \in DOMAIN <<info>> |-> Stamped(<<info>>[j], c)] = <<Stamped(info, c)>>
  <2>1. PICK stamped : stamped = Stamped(info, c)
    OBVIOUS
  <2>2. \A j \in DOMAIN <<info>> : Stamped(<<info>>[j], c) = stamped
    BY <2>1
  <2>3. [j \in DOMAIN <<info>> |-> Stamped(<<info>>[j], c)] = [j \in DOMAIN <<info>> |-> stamped]
    BY <2>2, Zenon
  <2>4. [j \in DOMAIN <<info>> |-> stamped] = <<stamped>>
    OBVIOUS
  <2>. QED BY <2>1, <2>3, <2>4, Zenon
<1>. QED BY <1>2, <1>3, <1>12, <1>13, <1>14, Zenon

(* The decoder goes down more than one level.                              *)
LEMMA Levels ==
    /\ MaxMulticallDepth \in Nat
    /\ MaxMulticallDepth + 1 \in Nat /\ MaxMulticallDepth + 1 > 1
BY DecodeAssumption

(* A swap of either kind as the decoder sees it.                           *)
LEMMA SwapIs ==
    ASSUME NEW sel \in SwapSelectors, NEW id \in Nat, NEW d \in Nat \union {NoDeadline},
           d = NoDeadline <=> sel = "single2", d # 0
    PROVE  /\ IsSwap(Swap(sel, id, d)) /\ ~Unusable(Swap(sel, id, d)) /\ Supported(Swap(sel, id, d))
           /\ Swap(sel, id, d).sel = sel
           /\ InfoOf(Swap(sel, id, d)) = [id |-> id, version |-> VersionOf(sel), deadline |-> d, hash |-> NoHash]
<1>1. PICK c : c = Swap(sel, id, d)
  OBVIOUS
<1>2. c.sel = sel /\ c.id = id /\ c.deadline = d /\ c.bad = FALSE
  BY <1>1 DEF Swap
<1>3. IsSwap(c)
  BY <1>2 DEF IsSwap
<1>4. ~Unusable(c) /\ Supported(c)
  BY <1>2 DEF Unusable, Supported
<1>. QED BY <1>1, <1>2, <1>3, <1>4 DEF InfoOf

(* What an encoder is given is what the decoder finds.                     *)
LEMMA EncodedDecodes ==
    ASSUME NEW router \in Versions, NEW d \in 1 .. MaxClock + DefaultDeadlineTTL
    PROVE  /\ DecodeSwapInfos(EncodeExactInputSingle(1, d, router), router)
                = Infos(<<[id |-> 1, version |-> router, deadline |-> d, hash |-> NoHash]>>)
           /\ DecodeSwapInfos(EncodeExactInputSingleCall(1, d, router), router)
                = Infos(<<[id |-> 1, version |-> router, hash |-> NoHash,
                           deadline |-> IF router = 1 THEN d ELSE NoDeadline]>>)
<1>1. d \in Nat /\ d # 0 /\ d # NoDeadline
  BY DecodeAssumption, TimesAssumption DEF NoDeadline
<1>2. /\ EncodeExactInputSingle(1, d, router) \in Calldata
      /\ EncodeExactInputSingleCall(1, d, router) \in Calldata
  BY EncodedAssumption
<1>3. CASE router = 1
  <2>1. PICK c \in Calldata : c = Swap("single1", 1, d)
    BY <1>2, <1>3 DEF EncodeExactInputSingle
  <2>2. IsSwap(c) /\ ~Unusable(c) /\ InfoOf(c) = [id |-> 1, version |-> 1, deadline |-> d, hash |-> NoHash]
    BY <1>1, <2>1, SwapIs DEF SwapSelectors, VersionOf
  <2>3. DecodeSwapInfos(c, router) = Infos(<<InfoOf(c)>>)
    BY <2>2, Levels, SwapAlone DEF DecodeSwapInfos
  <2>. QED BY <1>3, <2>1, <2>2, <2>3 DEF EncodeExactInputSingle, EncodeExactInputSingleCall
<1>4. CASE router = 2
  <2>1. PICK s \in Calldata : s = Swap("single2", 1, NoDeadline)
    BY <1>2, <1>4 DEF EncodeExactInputSingleCall
  <2>2. /\ IsSwap(s) /\ ~Unusable(s) /\ s.sel = "single2"
        /\ InfoOf(s) = [id |-> 1, version |-> 2, deadline |-> NoDeadline, hash |-> NoHash]
    BY <2>1, SwapIs DEF SwapSelectors, VersionOf, NoDeadline
  <2>3. DecodeSwapInfos(s, router) = Infos(<<InfoOf(s)>>)
    BY <2>2, Levels, SwapAlone DEF DecodeSwapInfos
  <2>4. PICK c \in Calldata : c = Multicall("multicallDeadline", d, <<s>>)
    BY <1>2, <1>4, <2>1 DEF EncodeExactInputSingle
  <2>5. c.sel = "multicallDeadline" /\ c.limit = d /\ c.calls = <<s>>
    BY <2>4 DEF Multicall
  <2>6. IsMulticall(c) /\ Len(c.calls) = 1 /\ c.calls[1] = s
    BY <1>1, <2>5 DEF IsMulticall, MulticallSelectors
  <2>7. DecodeSwapInfos(c, router) = Infos(<<Stamped(InfoOf(c.calls[1]), c)>>)
    <3>1. 1 \in 1 .. Len(c.calls) /\ \A j \in 1 .. Len(c.calls) : j = 1
      BY <2>6
    <3>2. VersionOf(c.calls[1].sel) = router
      BY <1>4, <2>2, <2>6 DEF VersionOf
    <3>3. IsSwap(c.calls[1]) /\ ~Unusable(c.calls[1])
      BY <2>2, <2>6, Zenon
    <3>4. c.sel = "multicallDeadline" /\ IsMulticall(c)
      BY <2>5, <2>6
    <3>5. PICK n \in Nat : n = MaxMulticallDepth + 1 /\ n > 1
      BY Levels
    <3>6. DecodeAt(router)[n][c] = Infos(<<Stamped(InfoOf(c.calls[1]), c)>>)
      BY <1>4, <3>1, <3>2, <3>3, <3>4, <3>5, SwapInMulticall
    <3>. QED BY <3>5, <3>6 DEF DecodeSwapInfos
  <2>8. Stamped(InfoOf(s), c) = [id |-> 1, version |-> 2, deadline |-> d, hash |-> NoHash]
    BY <2>2, <2>5 DEF Stamped, Limited
  <2>9. DecodeSwapInfos(c, router) = Infos(<<[id |-> 1, version |-> 2, deadline |-> d, hash |-> NoHash]>>)
    BY <2>6, <2>7, <2>8
  <2>. QED BY <1>4, <2>1, <2>2, <2>3, <2>4, <2>9 DEF EncodeExactInputSingle, EncodeExactInputSingleCall
<1>. QED BY <1>3, <1>4 DEF Versions

(* The calls of a route: a swap until the route expires, and a payment.    *)
LEMMA RouteSells ==
    ASSUME IsRoute(route)
    PROVE  /\ route.request.amountIn \in AmountsIn
           /\ \E c, d : /\ c.op = "swap" /\ c.amountIn = route.request.amountIn
                        /\ c.deadline = route.expiresAt /\ d.op # "swap"
                        /\ route.calls = <<c>> \/ route.calls = <<c, d>>
<1>1. PICK r \in ValidRequests, gross \in Nat, deadline \in Nat :
          route = [request |-> r, expiresAt |-> deadline, min |-> Net(gross, r.bips),
                   calls |-> Calls(r, gross, deadline)]
  BY DEF IsRoute
<1>2. route.request = r /\ route.expiresAt = deadline /\ route.calls = Calls(r, gross, deadline)
  BY <1>1
<1>3. r.amountIn \in AmountsIn
  BY DEF ValidRequests, Requests
<1>. DEFINE c(to) == [op |-> "swap", to |-> to, amountIn |-> r.amountIn,
                      min |-> gross, deadline |-> deadline]
            d == [op |-> "pay", min |-> gross, bips |-> r.bips]
<1>4. \A to : c(to).op = "swap" /\ c(to).amountIn = r.amountIn /\ c(to).deadline = deadline
  OBVIOUS
<1>5. d.op # "swap"
  OBVIOUS
<1>6. route.calls = IF ThroughRouter(r) THEN <<c("router"), d>> ELSE <<c("user")>>
  BY <1>2 DEF Calls
<1>. HIDE DEF c, d
<1>. QED BY <1>2, <1>3, <1>4, <1>5, <1>6

(* As the decoder sees them, with a permit in front or not.                *)
LEMMA AsCalldataIs ==
    ASSUME NEW c, NEW d, NEW p, c.op = "swap", d.op # "swap", p.op # "swap"
    PROVE  LET swap == Swap("input1", c.amountIn, c.deadline)
               multicall(calls) == Multicall("multicall", NoDeadline, calls)
           IN  /\ AsCalldata(<<c>>) = swap
               /\ AsCalldata(<<c, d>>) = multicall(<<swap, Other>>)
               /\ AsCalldata(<<p, c>>) = multicall(<<Other, swap>>)
               /\ AsCalldata(<<p, c, d>>) = multicall(<<Other, swap, Other>>)
<1>1. PICK swap : swap = Swap("input1", c.amountIn, c.deadline)
  OBVIOUS
<1>2. AsCall(c) = swap /\ AsCall(d) = Other /\ AsCall(p) = Other
  BY <1>1 DEF AsCall
<1>3. \A x, y : /\ Len(<<x, y>>) # 1
                /\ [i \in DOMAIN <<x, y>> |-> AsCall(<<x, y>>[i])] = <<AsCall(x), AsCall(y)>>
  OBVIOUS
<1>5. Len(<<c>>) = 1 /\ <<c>>[1] = c
  OBVIOUS
<1>6. AsCalldata(<<c>>) = swap
  <2>1. AsCalldata(<<c>>) = AsCall(<<c>>[1])
    BY <1>5, Zenon DEF AsCalldata
  <2>. QED BY <1>2, <1>5, <2>1
<1>7. \A x, y : AsCalldata(<<x, y>>) = Multicall("multicall", NoDeadline, <<AsCall(x), AsCall(y)>>)
  BY <1>3, Zenon DEF AsCalldata
<1>8. \A x, y, z : AsCalldata(<<x, y, z>>)
                     = Multicall("multicall", NoDeadline, <<AsCall(x), AsCall(y), AsCall(z)>>)
  <2>. SUFFICES ASSUME NEW x, NEW y, NEW z
                PROVE  AsCalldata(<<x, y, z>>)
                         = Multicall("multicall", NoDeadline, <<AsCall(x), AsCall(y), AsCall(z)>>)
    BY Zenon
  <2>1. Len(<<x, y, z>>) # 1
    OBVIOUS
  <2>2. [i \in DOMAIN <<x, y, z>> |-> AsCall(<<x, y, z>>[i])] = <<AsCall(x), AsCall(y), AsCall(z)>>
    OBVIOUS
  <2>. QED BY <2>1, <2>2, Zenon DEF AsCalldata
<1>9. /\ AsCalldata(<<c, d>>) = Multicall("multicall", NoDeadline, <<swap, Other>>)
      /\ AsCalldata(<<p, c>>) = Multicall("multicall", NoDeadline, <<Other, swap>>)
  BY <1>2, <1>7
<1>10. AsCalldata(<<p, c, d>>) = Multicall("multicall", NoDeadline, <<Other, swap, Other>>)
  BY <1>2, <1>8
<1>. QED BY <1>1, <1>6, <1>9, <1>10

(* A multicall of the SDK: one swap, and calls that are not supported.     *)
LEMMA SentDecodes ==
    ASSUME NEW amount \in AmountsIn, NEW d \in 1 .. MaxClock + DeadlineTTL
    PROVE  LET swap == Swap("input1", amount, d)
               is   == Infos(<<[id |-> amount, version |-> 1, deadline |-> d, hash |-> NoHash]>>)
           IN  /\ DecodeSwapInfos(swap, 1) = is
               /\ \A calls \in {<<swap, Other>>, <<Other, swap>>, <<Other, swap, Other>>} :
                    DecodeSwapInfos(Multicall("multicall", NoDeadline, calls), 1) = is
<1>1. PICK swap : swap = Swap("input1", amount, d)
  OBVIOUS
<1>2. /\ amount \in Nat /\ d \in Nat /\ d # 0 /\ d # NoDeadline
  BY AmountsAssumption, TimesAssumption DEF NoDeadline
<1>3. /\ swap \in Calldata
      /\ \A calls \in {<<swap, Other>>, <<Other, swap>>, <<Other, swap, Other>>} :
           Multicall("multicall", NoDeadline, calls) \in Calldata
  BY <1>1, EncodedAssumption
<1>4. /\ IsSwap(swap) /\ ~Unusable(swap) /\ Supported(swap) /\ swap.sel = "input1"
      /\ InfoOf(swap) = [id |-> amount, version |-> 1, deadline |-> d, hash |-> NoHash]
  BY <1>1, <1>2, SwapIs DEF SwapSelectors, VersionOf
<1>5. PICK n \in Nat : n = MaxMulticallDepth + 1 /\ n > 1
  BY Levels
<1>6. DecodeSwapInfos(swap, 1) = Infos(<<InfoOf(swap)>>)
  BY <1>3, <1>4, Levels, SwapAlone DEF DecodeSwapInfos, Versions
<1>7. ~Supported(Other)
  BY DEF Other, Supported, SwapSelectors, MulticallSelectors
<1>8. ASSUME NEW calls, NEW i \in 1 .. Len(calls), calls[i] = swap, calls \in Seq(Calldata),
             \A j \in 1 .. Len(calls) : j # i => calls[j] = Other,
             Multicall("multicall", NoDeadline, calls) \in Calldata
      PROVE  DecodeSwapInfos(Multicall("multicall", NoDeadline, calls), 1) = Infos(<<InfoOf(swap)>>)
  <2>1. PICK c \in Calldata : c = Multicall("multicall", NoDeadline, calls)
    BY <1>8
  <2>2. c.sel = "multicall" /\ c.calls = calls
    BY <2>1 DEF Multicall
  <2>3. IsMulticall(c)
    BY <1>8, <2>2 DEF IsMulticall, MulticallSelectors
  <2>4. /\ i \in 1 .. Len(c.calls) /\ IsSwap(c.calls[i]) /\ ~Unusable(c.calls[i])
        /\ VersionOf(c.calls[i].sel) = 1
        /\ \A j \in 1 .. Len(c.calls) : j # i => ~Supported(c.calls[j])
    BY <1>4, <1>7, <1>8, <2>2 DEF VersionOf
  <2>5. DecodeAt(1)[n][c] = Infos(<<Stamped(InfoOf(c.calls[i]), c)>>)
    BY <1>5, <2>2, <2>3, <2>4, SwapInMulticall DEF Versions
  <2>6. Stamped(InfoOf(c.calls[i]), c) = InfoOf(swap)
    BY <1>8, <2>2 DEF Stamped
  <2>. QED BY <1>5, <2>1, <2>5, <2>6 DEF DecodeSwapInfos
<1>9. ASSUME NEW calls \in {<<swap, Other>>, <<Other, swap>>, <<Other, swap, Other>>}
      PROVE  DecodeSwapInfos(Multicall("multicall", NoDeadline, calls), 1) = Infos(<<InfoOf(swap)>>)
  <2>1. PICK c : c = Multicall("multicall", NoDeadline, calls)
    OBVIOUS
  <2>2. c \in Calldata /\ c.sel = "multicall" /\ c.calls = calls
    BY <1>3, <2>1 DEF Multicall
  <2>3. calls \in Seq(Calldata)
    <3>1. c = Other \/ IsSwap(c) \/ IsUnread(c) \/ IsMulticall(c)
      BY <2>2, CalldataAssumption
    <3>. QED BY <2>2, <3>1 DEF Other, IsSwap, SwapSelectors, IsUnread, UnreadSelectors, IsMulticall
  <2>4. CASE calls = <<swap, Other>>
    <3>1. 1 \in 1 .. Len(calls) /\ calls[1] = swap /\ \A j \in 1 .. Len(calls) : j # 1 => calls[j] = Other
      BY <2>4
    <3>. QED BY <1>8, <2>1, <2>2, <2>3, <3>1
  <2>5. CASE calls = <<Other, swap>>
    <3>1. 2 \in 1 .. Len(calls) /\ calls[2] = swap /\ \A j \in 1 .. Len(calls) : j # 2 => calls[j] = Other
      BY <2>5
    <3>. QED BY <1>8, <2>1, <2>2, <2>3, <3>1
  <2>6. CASE calls = <<Other, swap, Other>>
    <3>1. 2 \in 1 .. Len(calls) /\ calls[2] = swap /\ \A j \in 1 .. Len(calls) : j # 2 => calls[j] = Other
      BY <2>6
    <3>. QED BY <1>8, <2>1, <2>2, <2>3, <3>1
  <2>. QED BY <2>4, <2>5, <2>6
<1>. QED BY <1>1, <1>4, <1>6, <1>9

(* What the calls are with a permit in front.                              *)
LEMMA SameCalls ==
    ASSUME NEW S, NEW s \in Seq(S), NEW t \in Seq(S), Len(s) = Len(t), \A i \in 1 .. Len(s) : s[i] = t[i]
    PROVE  s = t
OBVIOUS

(* A permit in front of one call or of two.                                *)
LEMMA InFrontOfCalls ==
    ASSUME NEW p, NEW c, NEW d
    PROVE  <<p>> \o <<c>> = <<p, c>> /\ <<p>> \o <<c, d>> = <<p, c, d>>
<1>. DEFINE S == {p, c, d}
<1>1. p \in S /\ c \in S /\ d \in S
  OBVIOUS
<1>. HIDE DEF S
<1>2. /\ <<p>> \in Seq(S) /\ <<c>> \in Seq(S) /\ <<c, d>> \in Seq(S)
      /\ <<p, c>> \in Seq(S) /\ <<p, c, d>> \in Seq(S)
  BY <1>1
<1>3. <<p>> \o <<c>> \in Seq(S) /\ <<p>> \o <<c, d>> \in Seq(S)
  BY <1>2
<1>4. <<p>> \o <<c>> = <<p, c>>
  <2>1. Len(<<p>> \o <<c>>) = 2 /\ Len(<<p, c>>) = 2
    BY <1>2
  <2>2. \A i \in 1 .. 2 : (<<p>> \o <<c>>)[i] = <<p, c>>[i]
    BY InFrontOfOne
  <2>. QED BY <1>2, <1>3, <2>1, <2>2, SameCalls
<1>5. <<p>> \o <<c, d>> = <<p, c, d>>
  <2>1. Len(<<p>> \o <<c, d>>) = 3 /\ Len(<<p, c, d>>) = 3
    BY <1>2
  <2>2. \A i \in 1 .. 3 : (<<p>> \o <<c, d>>)[i] = <<p, c, d>>[i]
    BY InFrontOfTwo
  <2>. QED BY <1>2, <1>3, <2>1, <2>2, SameCalls
<1>. QED BY <1>4, <1>5

(* The transaction of a route decodes to its one swap.                     *)
LEMMA TxDecodes ==
    ASSUME TxInv, tx # <<>>, route.expiresAt \in 1 .. MaxClock + DeadlineTTL
    PROVE  DecodeSwapInfos(AsCalldata(tx), 1)
             = Infos(<<[id |-> route.request.amountIn, version |-> 1,
                        deadline |-> route.expiresAt, hash |-> NoHash]>>)
<1>1. IsRoute(route) /\ (tx = route.calls \/ \E p : IsPermit(p) /\ tx = <<p>> \o route.calls)
  BY DEF TxInv
<1>2. PICK c, d : /\ c.op = "swap" /\ c.amountIn = route.request.amountIn
                  /\ c.deadline = route.expiresAt /\ d.op # "swap"
                  /\ route.calls = <<c>> \/ route.calls = <<c, d>>
  BY <1>1, RouteSells
<1>3. route.request.amountIn \in AmountsIn
  BY <1>1, RouteSells
<1>4. PICK p : p.op = "permit" /\ tx \in {<<c>>, <<c, d>>, <<p, c>>, <<p, c, d>>}
  <2>1. CASE tx = route.calls
    <3>1. [op |-> "permit", value |-> 0].op = "permit"
      OBVIOUS
    <3>. QED BY <1>2, <2>1, <3>1
  <2>2. ASSUME NEW p, IsPermit(p), tx = <<p>> \o route.calls
        PROVE  p.op = "permit" /\ tx \in {<<p, c>>, <<p, c, d>>}
    <3>1. <<p>> \o <<c>> = <<p, c>> /\ <<p>> \o <<c, d>> = <<p, c, d>>
      BY InFrontOfCalls
    <3>2. p.op = "permit"
      BY <2>2 DEF IsPermit
    <3>. QED BY <1>2, <2>2, <3>1, <3>2
  <2>. QED BY <1>1, <2>1, <2>2
<1>5. PICK swap : swap = Swap("input1", route.request.amountIn, route.expiresAt)
  OBVIOUS
<1>6. AsCalldata(tx) \in
        {swap} \union {Multicall("multicall", NoDeadline, calls) :
                         calls \in {<<swap, Other>>, <<Other, swap>>, <<Other, swap, Other>>}}
  <2>1. p.op # "swap"
    BY <1>4
  <2>2. /\ AsCalldata(<<c>>) = swap
        /\ AsCalldata(<<c, d>>) = Multicall("multicall", NoDeadline, <<swap, Other>>)
        /\ AsCalldata(<<p, c>>) = Multicall("multicall", NoDeadline, <<Other, swap>>)
        /\ AsCalldata(<<p, c, d>>) = Multicall("multicall", NoDeadline, <<Other, swap, Other>>)
    BY <1>2, <1>5, <2>1, AsCalldataIs
  <2>. QED BY <1>4, <2>2
<1>. QED BY <1>3, <1>5, <1>6, SentDecodes

-----------------------------------------------------------------------------
(* What somebody shows is calldata, and what the caller encodes decodes to *)
(* what was meant.                                                         *)
ShownInv ==
    shown # NothingShown =>
        /\ shown.router \in Versions /\ shown.data \in Calldata
        /\ shown.meant # <<>> => DecodeSwapInfos(shown.data, shown.router) = Infos(shown.meant)

ExpiresInv == route = NoRoute \/ route.expiresAt > 0

PreviewInv == AttachInvs /\ ExpiresInv /\ ShownInv

(* Whatever is shown next.                                                 *)
LEMMA EncodeShows ==
    ASSUME clock \in 0 .. MaxClock, Idle, Show \/ Encode
    PROVE  ShownInv'
<1>1. CASE Show
  <2>1. PICK c \in Calldata, router \in Versions : shown' = [router |-> router, data |-> c, meant |-> <<>>]
    BY <1>1 DEF Show
  <2>. QED BY <2>1 DEF ShownInv
<1>2. CASE Encode
  <2>1. PICK given \in {NoDeadline} \union 1 .. MaxClock, router \in Versions :
          LET deadline == EffectiveDeadline(given, clock)
              is(d)    == <<[id |-> 1, version |-> router, deadline |-> d, hash |-> NoHash]>>
          IN  \/ shown' = [router |-> router, meant |-> is(deadline),
                           data |-> EncodeExactInputSingle(1, deadline, router)]
              \/ shown' = [router |-> router, meant |-> is(IF router = 1 THEN deadline ELSE NoDeadline),
                           data |-> EncodeExactInputSingleCall(1, deadline, router)]
    BY <1>2 DEF Encode
  <2>2. PICK d : d = EffectiveDeadline(given, clock)
    OBVIOUS
  <2>3. d \in 1 .. MaxClock + DefaultDeadlineTTL
    BY <2>2, DecodeAssumption, TimesAssumption DEF EffectiveDeadline, NoDeadline
  <2>4. /\ EncodeExactInputSingle(1, d, router) \in Calldata
        /\ EncodeExactInputSingleCall(1, d, router) \in Calldata
    BY <2>3, EncodedAssumption
  <2>5. /\ DecodeSwapInfos(EncodeExactInputSingle(1, d, router), router)
             = Infos(<<[id |-> 1, version |-> router, deadline |-> d, hash |-> NoHash]>>)
        /\ DecodeSwapInfos(EncodeExactInputSingleCall(1, d, router), router)
             = Infos(<<[id |-> 1, version |-> router, hash |-> NoHash,
                        deadline |-> IF router = 1 THEN d ELSE NoDeadline]>>)
    BY <2>3, EncodedDecodes
  <2>6. \A e : [id |-> 1, version |-> router, deadline |-> e, hash |-> NoHash]
                 = [id |-> 1, version |-> router, hash |-> NoHash, deadline |-> e]
    OBVIOUS
  <2>7. CASE shown' = [router |-> router, data |-> EncodeExactInputSingle(1, d, router),
                       meant |-> <<[id |-> 1, version |-> router, deadline |-> d, hash |-> NoHash]>>]
    <3>1. /\ shown'.router = router /\ shown'.data = EncodeExactInputSingle(1, d, router)
          /\ shown'.meant = <<[id |-> 1, version |-> router, deadline |-> d, hash |-> NoHash]>>
      BY <2>7
    <3>. QED BY <2>4, <2>5, <3>1 DEF ShownInv
  <2>8. CASE shown' = [router |-> router, data |-> EncodeExactInputSingleCall(1, d, router),
                       meant |-> <<[id |-> 1, version |-> router, hash |-> NoHash,
                                    deadline |-> IF router = 1 THEN d ELSE NoDeadline]>>]
    <3>1. /\ shown'.router = router /\ shown'.data = EncodeExactInputSingleCall(1, d, router)
          /\ shown'.meant = <<[id |-> 1, version |-> router, hash |-> NoHash,
                               deadline |-> IF router = 1 THEN d ELSE NoDeadline]>>
      BY <2>8
    <3>. QED BY <2>4, <2>5, <3>1 DEF ShownInv
  <2>. QED BY <2>1, <2>2, <2>6, <2>7, <2>8
<1>. QED BY <1>1, <1>2

(* Both answer with lists.                                                 *)
LEMMA ListsOf ==
    (\A d \in Decoding : d.infos \in Seq(Info)) /\ \A ex \in Execution : ex.swaps \in Seq(SwapRun)
<1>1. ASSUME NEW d \in Decoding PROVE d.infos \in Seq(Info)
  BY DEF Decoding
<1>2. \A ex \in Execution : ex.swaps \in Seq(SwapRun)
  BY DEF Execution
<1>. QED BY <1>1, <1>2

(* What is no swap the decoder knows and no multicall is refused.          *)
LEMMA Refused ==
    ASSUME NEW c \in Calldata, NEW router \in Versions, ~Supported(c)
    PROVE  DecodeSwapInfos(c, router) = Error("error")
<1>1. PICK n \in Nat : n = MaxMulticallDepth + 1
  BY Levels
<1>2. PICK k \in Nat : n = k + 1
  BY <1>1, Levels
<1>3. DecodeSwapInfos(c, router) = DecodeCall(c, router, DecodeAt(router)[k])
  BY <1>1, <1>2, DecodeAtIs DEF DecodeSwapInfos
<1>. QED BY <1>3 DEF DecodeCall

(* What is shown is decoded as it executes.                                *)
LEMMA ShownDecodes ==
    ASSUME NEW c \in Calldata, NEW router \in Versions, NEW d, d = DecodeSwapInfos(c, router),
           NEW ex, ex = Executed(c, router), ex.ok
    PROVE  /\ d.err = "" => /\ Len(d.infos) = Len(ex.swaps)
                            /\ \A i \in DOMAIN ex.swaps : Shows(d.infos[i], ex.swaps[i])
           /\ Supported(c) =>
                /\ d.err = "none" <=> ex.swaps = <<>> /\ ~TooDeep(c)
                /\ d.err = "error" <=> TooDeep(c) \/ \E i \in DOMAIN ex.swaps : Contradicts(ex.swaps[i])
<1>1. PICK n \in Nat : n = MaxMulticallDepth + 1
  BY Levels
<1>2. MaxLevels \in Nat
  BY LevelsAssumption
<1>3. d \in Decoding
  <2>1. DecodeAt(router) \in [Nat -> [Calldata -> Decoding]]
    BY DecodeAtIs
  <2>. QED BY <1>1, <2>1 DEF DecodeSwapInfos
<1>4. ex \in Execution
  <2>1. RunAt(router) \in [Nat -> [Calldata -> Execution]] /\ MaxLevels + 1 \in Nat
    BY <1>2, RunAtIs
  <2>. QED BY <2>1 DEF Executed
<1>5. /\ d.infos \in Seq(Info) /\ ex.swaps \in Seq(SwapRun)
      /\ DOMAIN ex.swaps = 1 .. Len(ex.swaps) /\ Len(ex.swaps) \in Nat
      /\ \A i \in 1 .. Len(ex.swaps) : ex.swaps[i] \in SwapRun
      /\ \A i \in 1 .. Len(d.infos) : d.infos[i] \in Info
  <2>1. d.infos \in Seq(Info) /\ ex.swaps \in Seq(SwapRun)
    BY <1>3, <1>4, ListsOf, Zenon
  <2>. QED BY <2>1
<1>6. Error("error").err = "error"
  BY DEF Error
<1>7. CASE ~Supported(c)
  <2>1. d = Error("error")
    BY <1>7, Refused
  <2>2. d.err # ""
    BY <2>1 DEF Error
  <2>. QED BY <1>7, <2>2, Zenon
<1>8. CASE Supported(c)
  <2>1. Within[MaxLevels][c]
    BY <1>8, LevelsAssumption
  <2>2. Faithful(router, DecodeAt(router)[n][c], ~Within[n][c], RunAt(router)[MaxLevels + 1][c].swaps)
    BY <1>2, <1>8, <2>1, DecodesFaithfully DEF Executed
  <2>3. Faithful(router, d, TooDeep(c), ex.swaps)
    BY <1>1, <2>2 DEF DecodeSwapInfos, Executed, TooDeep
  <2>4. Contradictory(ex.swaps) <=> \E i \in DOMAIN ex.swaps : Contradicts(ex.swaps[i])
    BY <1>5, Zenon DEF Contradictory
  <2>5. "none" # "error" /\ "" # "error" /\ "none" # ""
    OBVIOUS
  <2>6. CASE TooDeep(c) \/ Contradictory(ex.swaps)
    <3>1. d.err = "error"
      BY <1>6, <2>3, <2>6 DEF Faithful
    <3>2. ~(ex.swaps = <<>> /\ ~TooDeep(c))
      <4>1. Contradictory(ex.swaps) => ex.swaps # <<>>
        BY DEF Contradictory
      <4>. QED BY <2>6, <4>1
    <3>. QED BY <2>4, <2>5, <2>6, <3>1, <3>2, Zenon
  <2>7. CASE ~(TooDeep(c) \/ Contradictory(ex.swaps))
    <3>1. Answers(router, d, ex.swaps)
      BY <2>3, <2>7 DEF Faithful
    <3>2. /\ ex.swaps = <<>> => d.err = "none"
          /\ ex.swaps # <<>> => d.err = ""
          /\ Pairwise(Matching(router), d.infos, ex.swaps)
      BY <3>1, Zenon DEF Answers
    <3>3. /\ Len(d.infos) = Len(ex.swaps)
          /\ \A i \in 1 .. Len(ex.swaps) : <<d.infos[i], ex.swaps[i]>> \in Matching(router)
      <4>1. Len(d.infos) = Len(ex.swaps)
        BY <3>2, Zenon DEF Pairwise
      <4>2. \A i \in 1 .. Len(d.infos) : <<d.infos[i], ex.swaps[i]>> \in Matching(router)
        BY <3>2, Zenon DEF Pairwise
      <4>. QED BY <4>1, <4>2
    <3>4. \A i \in DOMAIN ex.swaps : Shows(d.infos[i], ex.swaps[i])
      <4>1. \A i \in 1 .. Len(ex.swaps) : d.infos[i] \in Info
        BY <1>5, <3>3
      <4>2. ASSUME NEW i \in 1 .. Len(ex.swaps) PROVE Shows(d.infos[i], ex.swaps[i])
        <5>1. PICK info \in Info : info = d.infos[i]
          BY <4>1
        <5>2. PICK swap \in SwapRun : swap = ex.swaps[i]
          BY <1>5
        <5>3. <<info, swap>> \in Matching(router)
          BY <3>3, <5>1, <5>2, Zenon
        <5>4. Shows(info, swap)
          BY <5>3, MatchingIs, Zenon
        <5>. QED BY <5>1, <5>2, <5>4, Zenon
      <4>. QED BY <1>5, <4>2, Zenon
    <3>. QED BY <2>4, <2>5, <2>7, <3>2, <3>3, <3>4, Zenon
  <2>. QED BY <2>6, <2>7, Zenon
<1>. QED BY <1>7, <1>8, Zenon

(* One step per action: only Show and Encode change what is shown, only    *)
(* Quote the route.                                                        *)
LEMMA PreviewNextInv == PreviewInv /\ [PreviewNext]_preview => PreviewInv'
<1>. SUFFICES ASSUME PreviewInv, [PreviewNext]_preview PROVE PreviewInv'
  OBVIOUS
<1>1. [Next]_vars
  BY DEF PreviewNext, Show, Encode, preview
<1>2. AttachInvs'
  BY <1>1, AttachNextInv DEF PreviewInv
<1>3. ShownInv'
  <2>1. CASE shown' = shown
    BY <2>1 DEF PreviewInv, ShownInv
  <2>2. CASE Show \/ Encode
    <3>1. clock \in 0 .. MaxClock
      BY DEF PreviewInv, AttachInvs, BoundsInv
    <3>2. Idle
      BY <2>2 DEF Show, Encode
    <3>. QED BY <2>2, <3>1, <3>2, EncodeShows
  <2>. QED BY <2>1, <2>2 DEF PreviewNext, preview
<1>4. ExpiresInv'
  <2>1. CASE route' = route
    BY <2>1 DEF PreviewInv, ExpiresInv
  <2>2. ASSUME NEW r \in ValidRequests, NEW a \in QuotedAmounts, Quote(r, a) PROVE ExpiresInv'
    <3>1. clock \in Nat
      BY DEF PreviewInv, AttachInvs, BoundsInv
    <3>2. Deadline > 0
      BY <3>1, TimesAssumption DEF Deadline
    <3>3. route'.expiresAt = Deadline
      BY <2>2 DEF Quote
    <3>. QED BY <3>2, <3>3 DEF ExpiresInv
  <2>3. CASE Next
    <3>1. \/ \E r \in ValidRequests, a \in QuotedAmounts : Quote(r, a)
          \/ Tick \/ (\E v, d : SignPermit(v, d)) \/ (\E b : CheckPermit(b)) \/ ReadNonce \/ UseRoute
          \/ Approve \/ UseNonce \/ SubmitPermit \/ SpendAllowance \/ \E m : Execute(m)
      BY <2>3, Zenon DEF Next
    <3>2. ASSUME \/ Tick \/ (\E v, d : SignPermit(v, d)) \/ (\E b : CheckPermit(b)) \/ ReadNonce \/ UseRoute
                 \/ Approve \/ UseNonce \/ SubmitPermit \/ SpendAllowance
                 \/ \E m : Execute(m)
          PROVE  route' = route
      <4>1. ASSUME NEW v, NEW d, SignPermit(v, d) PROVE route' = route
        BY <4>1 DEF SignPermit
      <4>2. ASSUME NEW b, CheckPermit(b) PROVE route' = route
        BY <4>2 DEF CheckPermit
      <4>3. ASSUME NEW m, Execute(m) PROVE route' = route
        BY <4>3 DEF Execute, wallet
      <4>4. CASE Tick \/ ReadNonce \/ UseRoute \/ Approve \/ UseNonce \/ SubmitPermit \/ SpendAllowance
        BY <4>4 DEF Tick, ReadNonce, UseRoute, Approve, UseNonce, SubmitPermit, SpendAllowance, wallet
      <4>. QED BY <3>2, <4>1, <4>2, <4>3, <4>4, Zenon
    <3>. QED BY <2>1, <2>2, <3>1, <3>2, Zenon
  <2>4. CASE UNCHANGED vars
    BY <2>1, <2>4 DEF vars
  <2>. QED BY <1>1, <2>3, <2>4
<1>. QED BY <1>2, <1>3, <1>4 DEF PreviewInv

(* For every calldata, however its multicalls are nested, and every swap   *)
(* and transaction that the SDK encodes: the decoder finds the swaps that  *)
(* the router would execute and that it has a selector for, in their order,*)
(* each with the earliest of the deadlines around it and its block hash,   *)
(* and refuses only calldata that cannot execute, that is nested too deep, *)
(* or that is itself no such swap and no multicall.  What else is executed *)
(* (exactOutput of either router, SwapRouter02's own exactInput) it leaves *)
(* out.                                                                    *)
THEOREM DecodedExecutes == PreviewSpec => []DecodedIsExecuted
<1>1. PreviewInit => PreviewInv
  BY AttachInitInv DEF PreviewInit, Init, PreviewInv, ExpiresInv, ShownInv
<1>2. PreviewInv /\ [PreviewNext]_preview => PreviewInv'
  BY PreviewNextInv
<1>3. PreviewInv => DecodedIsExecuted
  <2>. SUFFICES ASSUME PreviewInv PROVE DecodedIsExecuted
    OBVIOUS
  <2>1. ASSUME shown # NothingShown
        PROVE  LET c  == shown.data
                   d  == DecodeSwapInfos(c, shown.router)
                   ex == Executed(c, shown.router)
               IN  /\ ex.ok /\ d.err = "" =>
                        /\ Len(d.infos) = Len(ex.swaps)
                        /\ \A i \in DOMAIN ex.swaps : Shows(d.infos[i], ex.swaps[i])
                   /\ ex.ok /\ Supported(c) =>
                        /\ d.err = "none" <=> ex.swaps = <<>> /\ ~TooDeep(c)
                        /\ d.err = "error" <=>
                             TooDeep(c) \/ \E i \in DOMAIN ex.swaps : Contradicts(ex.swaps[i])
                   /\ ~Supported(c) => d.err = "error"
                   /\ shown.meant # <<>> => d = Infos(shown.meant)
    <3>1. /\ shown.router \in Versions /\ shown.data \in Calldata
          /\ shown.meant # <<>> => DecodeSwapInfos(shown.data, shown.router) = Infos(shown.meant)
      BY <2>1 DEF PreviewInv, ShownInv
    <3>2. PICK c \in Calldata : c = shown.data
      BY <3>1
    <3>3. PICK router \in Versions : router = shown.router
      BY <3>1
    <3>4. PICK d : d = DecodeSwapInfos(c, router)
      OBVIOUS
    <3>5. PICK ex : ex = Executed(c, router)
      OBVIOUS
    <3>6. ASSUME ex.ok
          PROVE  /\ d.err = "" => /\ Len(d.infos) = Len(ex.swaps)
                                  /\ \A i \in DOMAIN ex.swaps : Shows(d.infos[i], ex.swaps[i])
                 /\ Supported(c) =>
                      /\ d.err = "none" <=> ex.swaps = <<>> /\ ~TooDeep(c)
                      /\ d.err = "error" <=>
                           TooDeep(c) \/ \E i \in DOMAIN ex.swaps : Contradicts(ex.swaps[i])
      BY <3>4, <3>5, <3>6, ShownDecodes, Zenon
    <3>7. ~Supported(c) => d.err = "error"
      <4>1. Error("error").err = "error"
        BY DEF Error
      <4>. QED BY <3>4, <4>1, Refused
    <3>. QED BY <3>1, <3>2, <3>3, <3>4, <3>5, <3>6, <3>7, Zenon
  <2>2. ASSUME tx # <<>>
        PROVE  LET d == DecodeSwapInfos(AsCalldata(tx), 1)
               IN  /\ d.err = "" /\ Len(d.infos) = 1
                   /\ d.infos[1].id = route.request.amountIn
                   /\ d.infos[1].deadline = route.expiresAt
    <3>1. TxInv /\ IsRoute(route)
      BY <2>2 DEF PreviewInv, AttachInvs, Inv, TxInv
    <3>2. route.expiresAt \in 1 .. MaxClock + DeadlineTTL
      <4>1. route # NoRoute
        BY <3>1, NoRouteIsNone
      <4>2. route.expiresAt > 0 /\ route.expiresAt \in 0 .. MaxClock + DeadlineTTL
        BY <4>1 DEF PreviewInv, ExpiresInv, AttachInvs, BoundsInv
      <4>. QED BY <4>2, TimesAssumption
    <3>3. PICK info : info = [id |-> route.request.amountIn, version |-> 1,
                              deadline |-> route.expiresAt, hash |-> NoHash]
      OBVIOUS
    <3>4. DecodeSwapInfos(AsCalldata(tx), 1) = Infos(<<info>>)
      BY <2>2, <3>1, <3>2, <3>3, TxDecodes
    <3>5. Infos(<<info>>).err = "" /\ Infos(<<info>>).infos = <<info>>
      BY DEF Infos
    <3>6. info.id = route.request.amountIn /\ info.deadline = route.expiresAt
      BY <3>3
    <3>7. Len(<<info>>) = 1 /\ <<info>>[1] = info
      OBVIOUS
    <3>. QED BY <3>4, <3>5, <3>6, <3>7, Zenon
  <2>. QED BY <2>1, <2>2, Zenon DEF DecodedIsExecuted
<1>. QED BY <1>1, <1>2, <1>3, PTL DEF PreviewSpec
=============================================================================
