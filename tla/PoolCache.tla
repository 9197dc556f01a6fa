----------------------------- MODULE PoolCache ------------------------------
(***************************************************************************)
(* The pool discovery of a Uniswap V3 client: resolveCandidatePools of     *)
(* several quotes asks poolExists for every pool at once, one goroutine    *)
(* per quote and pool.  The goroutines share a cache with a time to live,  *)
(* one call in flight per pool (the others wait for its answer) and a      *)
(* limited number of slots for the calls to the node.  Every quote has its *)
(* own context with a deadline.                                            *)
(*                                                                         *)
(* Time is the reading of a clock that advances only when no goroutine has *)
(* a local step to take that the deadline of its context makes urgent: a   *)
(* network call ends by the deadline, and what follows it takes no time.   *)
(***************************************************************************)
EXTENDS Naturals, FiniteSets

CONSTANTS
    Quotes, Pools, Nil,
    Wanted,     \* the pools of the candidates of each quote
    TTL,        \* poolCacheTTL
    Timeout,    \* how long the context of a quote lives
    MaxSlots,   \* maxPoolRPCConcurrency
    MaxClock    \* bound: the last reading of the clock

ASSUME WantedAssumption == Wanted \in [Quotes -> SUBSET Pools]
ASSUME TimesAssumption == {TTL, Timeout, MaxClock} \subseteq Nat
ASSUME SlotsAssumption == MaxSlots \in Nat \ {0}
ASSUME NilAssumption == Nil \notin Quotes

Never == MaxClock + TTL + Timeout + 1

VARIABLES
    clock,
    born,       \* external: when the factory created each pool, or Never
    deadline,   \* of the context of each quote; Never before it starts
    pc,         \* of the goroutine of each quote for each pool
    at,         \* "now": the clock as the goroutine read it, or Never
    ans,        \* the answer the goroutine holds
    cache,      \* poolCache: pool -> [exists, expires]; expires 0: no entry
    flight,     \* poolFlights: pool -> the quote that leads, or Nil
    heard       \* what a closed flight left for a goroutine that waits for it

vars == <<clock, born, deadline, pc, at, ans, cache, flight, heard>>

PerCall(x) == [q \in Quotes |-> [p \in Pools |-> x]]

Init ==
    /\ clock = 0
    /\ born \in [Pools -> {0, Never}]
    /\ deadline = [q \in Quotes |-> Never]
    /\ pc = PerCall("off")
    /\ at = PerCall(Never)
    /\ ans = PerCall("none") /\ heard = PerCall("none")
    /\ cache = [p \in Pools |-> [exists |-> "none", expires |-> 0]]
    /\ flight = [p \in Pools |-> Nil]

ExpiredNever(q) == FALSE        \* mutant: a context without a deadline
Expired(q)      == clock >= deadline[q]

Go(q, p, to) == pc' = [pc EXCEPT ![q][p] = to]

(* A goroutine returns r to resolveCandidatePools.                         *)
Return(q, p, r) ==
    /\ Go(q, p, "done")
    /\ ans' = [ans EXCEPT ![q][p] = r]

-----------------------------------------------------------------------------
(* resolveCandidatePools starts one goroutine per pool of its candidates.  *)
Discover(q) ==
    /\ deadline[q] = Never
    /\ clock + Timeout <= MaxClock      \* bound: the context can end
    /\ deadline' = [deadline EXCEPT ![q] = clock + Timeout]
    /\ pc' = [pc EXCEPT ![q] = [p \in Pools |-> IF p \in Wanted[q] THEN "ask" ELSE "off"]]
    /\ UNCHANGED <<clock, born, at, ans, cache, flight, heard>>

(* poolExists reads the clock before it takes poolMu.                      *)
ReadClock(q, p) ==
    /\ pc[q][p] = "ask"
    /\ at' = [at EXCEPT ![q][p] = clock]
    /\ Go(q, p, "lookup")
    /\ UNCHANGED <<clock, born, deadline, ans, cache, flight, heard>>

(* Mutant: two calls for one pool.                                         *)
InFlightNever(p) == FALSE

FreshEntry(q, p) == at[q][p] < cache[p].expires
InFlight(p)      == flight[p] # Nil

(* The first section under poolMu: a fresh entry, a flight to wait for, or *)
(* a new flight.                                                           *)
Hit(q, p) ==
    /\ pc[q][p] = "lookup"
    /\ FreshEntry(q, p)
    /\ Return(q, p, cache[p].exists)
    /\ UNCHANGED <<clock, born, deadline, at, cache, flight, heard>>

Join(q, p) ==
    /\ pc[q][p] = "lookup"
    /\ ~FreshEntry(q, p)
    /\ InFlight(p)
    /\ Go(q, p, "wait")
    /\ UNCHANGED <<clock, born, deadline, at, ans, cache, flight, heard>>

Lead(q, p) ==
    /\ pc[q][p] = "lookup"
    /\ ~FreshEntry(q, p)
    /\ ~InFlight(p)
    /\ flight' = [flight EXCEPT ![p] = q]
    /\ Go(q, p, "slot")
    /\ UNCHANGED <<clock, born, deadline, at, ans, cache, heard>>

-----------------------------------------------------------------------------
InCall(q, p) == pc[q][p] \in {"call", "reply"}
Calls == {c \in Quotes \X Pools : InCall(c[1], c[2])}

SlotFree == Cardinality(Calls) < MaxSlots

TakeSlot(q, p) ==
    /\ pc[q][p] = "slot"
    /\ SlotFree
    /\ Go(q, p, "call")
    /\ UNCHANGED <<clock, born, deadline, at, ans, cache, flight, heard>>

(* The context ends before there is a slot.                                *)
MissSlot(q, p) ==
    /\ pc[q][p] = "slot"
    /\ Expired(q)
    /\ Go(q, p, "store")
    /\ ans' = [ans EXCEPT ![q][p] = "err"]
    /\ UNCHANGED <<clock, born, deadline, at, cache, flight, heard>>

(* External: the node executes Factory.getPool.                            *)
NodeReads(q, p) ==
    /\ pc[q][p] = "call"
    /\ ans' = [ans EXCEPT ![q][p] = IF born[p] = Never THEN "no" ELSE "yes"]
    /\ Go(q, p, "reply")
    /\ UNCHANGED <<clock, born, deadline, at, cache, flight, heard>>

(* fetchPoolExists returns what the node answered and the slot is free; or *)
(* the call fails: the transport, the node, or the end of the context.     *)
Fetched(q, p) ==
    /\ pc[q][p] = "reply"
    /\ Go(q, p, "store")
    /\ UNCHANGED <<clock, born, deadline, at, ans, cache, flight, heard>>

FetchFails(q, p) ==
    /\ InCall(q, p)
    /\ Go(q, p, "store")
    /\ ans' = [ans EXCEPT ![q][p] = "err"]
    /\ UNCHANGED <<clock, born, deadline, at, cache, flight, heard>>

(* Mutant: the time to live counts from the answer.                        *)
EntryFromNow(q, p) ==
    IF ans[q][p] = "err" THEN cache[p]
    ELSE [exists |-> ans[q][p], expires |-> clock + TTL]

(* The cache entry the leader leaves: only an answer is cached, and its    *)
(* time to live counts from the moment the leader's call began.            *)
Entry(q, p) ==
    IF ans[q][p] = "err" THEN cache[p]
    ELSE [exists |-> ans[q][p], expires |-> at[q][p] + TTL]

Landed(q, p) == Nil

(* The second section under poolMu: the flight gets its result, the answer *)
(* is cached, the flight leaves the map and wakes everyone who waits.      *)
Store(q, p) ==
    /\ pc[q][p] = "store"
    /\ cache' = [cache EXCEPT ![p] = Entry(q, p)]
    /\ flight' = [flight EXCEPT ![p] = Landed(q, p)]
    /\ heard' = [r \in Quotes |->
                   IF pc[r][p] = "wait" /\ heard[r][p] = "none"
                   THEN [heard[r] EXCEPT ![p] = ans[q][p]] ELSE heard[r]]
    /\ Go(q, p, "done")
    /\ UNCHANGED <<clock, born, deadline, at, ans>>

(* The select of a goroutine that joined a flight.                         *)
Hear(q, p) ==
    /\ pc[q][p] = "wait"
    /\ heard[q][p] # "none"
    /\ Return(q, p, heard[q][p])
    /\ UNCHANGED <<clock, born, deadline, at, cache, flight, heard>>

GiveUp(q, p) ==
    /\ pc[q][p] = "wait"
    /\ Expired(q)
    /\ Return(q, p, "err")
    /\ UNCHANGED <<clock, born, deadline, at, cache, flight, heard>>

-----------------------------------------------------------------------------
(* External: a pool is created; the factory never removes one.             *)
Create(p) ==
    /\ born[p] = Never
    /\ born' = [born EXCEPT ![p] = clock]
    /\ UNCHANGED <<clock, deadline, pc, at, ans, cache, flight, heard>>

Urgent(q, p) ==
    \/ pc[q][p] = "store"
    \/ pc[q][p] \in {"slot", "call", "reply", "wait"} /\ Expired(q)

Tick ==
    /\ clock < MaxClock
    /\ \A q \in Quotes, p \in Pools : ~Urgent(q, p)
    /\ clock' = clock + 1
    /\ UNCHANGED <<born, deadline, pc, at, ans, cache, flight, heard>>

CallStep(q, p) ==
    \/ ReadClock(q, p)
    \/ Hit(q, p) \/ Join(q, p) \/ Lead(q, p)
    \/ TakeSlot(q, p) \/ MissSlot(q, p)
    \/ NodeReads(q, p) \/ Fetched(q, p) \/ FetchFails(q, p)
    \/ Store(q, p)
    \/ Hear(q, p) \/ GiveUp(q, p)

Next ==
    \/ Tick
    \/ \E p \in Pools : Create(p)
    \/ \E q \in Quotes : Discover(q)
    \/ \E q \in Quotes, p \in Pools : CallStep(q, p)

Spec == Init /\ [][Next]_vars

(* Time passes, goroutines are scheduled, and a context that has ended     *)
(* ends what waits for it; the node need not answer.                       *)
Local(q, p) ==
    \/ ReadClock(q, p) \/ Hit(q, p) \/ Join(q, p) \/ Lead(q, p)
    \/ TakeSlot(q, p) \/ MissSlot(q, p) \/ Store(q, p) \/ Hear(q, p) \/ GiveUp(q, p)
    \/ Expired(q) /\ FetchFails(q, p)

FairSpec ==
    Spec /\ WF_vars(Tick) /\ WF_vars(\E q \in Quotes, p \in Pools : Local(q, p))

-----------------------------------------------------------------------------
Answers == {"none", "yes", "no", "err"}

TypeOK ==
    /\ clock \in 0..MaxClock
    /\ born \in [Pools -> 0..MaxClock \union {Never}]
    /\ deadline \in [Quotes -> 0..(MaxClock + Timeout) \union {Never}]
    /\ pc \in [Quotes -> [Pools -> {"off", "ask", "lookup", "slot", "call", "reply",
                                   "store", "wait", "done"}]]
    /\ at \in [Quotes -> [Pools -> 0..MaxClock \union {Never}]]
    /\ ans \in [Quotes -> [Pools -> Answers]]
    /\ heard \in [Quotes -> [Pools -> Answers]]
    /\ cache \in [Pools -> [exists : {"none", "yes", "no"}, expires : 0..(MaxClock + TTL)]]
    /\ flight \in [Pools -> Quotes \union {Nil}]

(* However many quotes look for a pool at once, one goroutine at a time    *)
(* asks the node for it: the leader of the flight in the map, from the     *)
(* moment it leads until it lands the flight.  Whoever waits without an    *)
(* answer waits for such a flight: nobody waits for one that is over.      *)
SingleFlight ==
    /\ TypeOK
    /\ \A p \in Pools, q \in Quotes :
        /\ pc[q][p] \in {"slot", "call", "reply", "store"} <=> flight[p] = q
        /\ pc[q][p] = "wait" /\ heard[q][p] = "none" => flight[p] # Nil

(* poolExists keeps the promise of PoolOracle: the start of a call is the  *)
(* reading of the clock, its answer shows when the goroutine returns.      *)
Oracle == INSTANCE PoolOracle WITH
    start <- at,
    out <- [q \in Quotes |-> [p \in Pools |->
              IF pc[q][p] = "done" THEN ans[q][p] ELSE "none"]]

ImplementsOracle == Oracle!Spec

(* Every lookup returns: the leader at the end of its context at the       *)
(* latest, and whoever waits for it too.                                   *)
LookupsReturn ==
    []<>(\A q \in Quotes, p \in Pools : pc[q][p] \in {"off", "done"})
=============================================================================
