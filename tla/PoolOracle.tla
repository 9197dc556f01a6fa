----------------------------- MODULE PoolOracle -----------------------------
(***************************************************************************)
(* What poolExists promises to the quotes that call it, whatever it caches *)
(* and shares: a pool reported to exist exists (the factory never removes  *)
(* one), a pool reported missing was missing a bounded time before the     *)
(* call began, and a call may fail.  A caller cannot tell more than this.  *)
(***************************************************************************)
EXTENDS Naturals

CONSTANTS
    Quotes, Pools,
    TTL,        \* poolCacheTTL
    Timeout,    \* how long the context of a quote lives
    MaxClock    \* bound: the last reading of the clock

Never == MaxClock + TTL + Timeout + 1

VARIABLES
    clock,
    born,       \* when each pool was created, or Never
    start,      \* when each call of poolExists began, or Never
    out         \* what it returned: "none" until it returns

vars == <<clock, born, start, out>>

Init ==
    /\ clock = 0
    /\ born \in [Pools -> {0, Never}]
    /\ start = [q \in Quotes |-> [p \in Pools |-> Never]]
    /\ out = [q \in Quotes |-> [p \in Pools |-> "none"]]

Create(p) ==
    /\ born[p] = Never
    /\ born' = [born EXCEPT ![p] = clock]
    /\ UNCHANGED <<clock, start, out>>

Tick ==
    /\ clock' \in clock + 1 .. MaxClock
    /\ UNCHANGED <<born, start, out>>

Begin(q, p) ==
    /\ start[q][p] = Never
    /\ start' = [start EXCEPT ![q][p] = clock]
    /\ UNCHANGED <<clock, born, out>>

(* A missing pool was still missing less than TTL before the call (a       *)
(* cached answer), or at most Timeout before it (an answer shared with a   *)
(* call that began earlier and may not outlive its own context).           *)
Missing(q, p) ==
    \/ born[p] + TTL > start[q][p]
    \/ born[p] + Timeout >= start[q][p]

Return(q, p) ==
    /\ start[q][p] # Never
    /\ out[q][p] = "none"
    /\ \E r \in {"yes", "no", "err"} :
         /\ r = "yes" => born[p] # Never
         /\ r = "no" => Missing(q, p)
         /\ out' = [out EXCEPT ![q][p] = r]
    /\ UNCHANGED <<clock, born, start>>

Next ==
    \/ Tick
    \/ \E p \in Pools : Create(p)
    \/ \E q \in Quotes, p \in Pools : Begin(q, p) \/ Return(q, p)

Spec == Init /\ [][Next]_vars
=============================================================================
