-------------------------- MODULE Univ3QuoteProofs --------------------------
(***************************************************************************)
(* The quote of the Uniswap V3 client, for any quotes, tokens, fee tiers,  *)
(* pools, amounts, times and slots.  First the pool discovery: one call at *)
(* a time for a pool, and answers that keep the promise of PoolOracle.     *)
(* Then the quote that is built on these answers: the route it returns is  *)
(* the best, and it returns none for a reason.                             *)
(***************************************************************************)
EXTENDS PoolCache, Univ3Quote, FiniteFacts

Leads(q, p) == pc[q][p] \in {"slot", "call", "reply", "store"}

(* The leader of the flight in the map is the one goroutine that asks.     *)
FlightInv ==
    \A p \in Pools, q \in Quotes :
        /\ Leads(q, p) <=> flight[p] = q
        /\ pc[q][p] = "wait" /\ heard[q][p] = "none" => flight[p] # Nil

(* A quote starts its goroutines once; a goroutine reads the clock once,   *)
(* while its context has at most Timeout to live.                          *)
TimeInv ==
    \A q \in Quotes, p \in Pools :
        /\ deadline[q] = Never => pc[q][p] = "off"
        /\ deadline[q] # Never => deadline[q] <= clock + Timeout
        /\ pc[q][p] \in {"off", "ask"} => at[q][p] = Never
        /\ pc[q][p] \notin {"off", "ask"} =>
             at[q][p] <= clock /\ deadline[q] # Never /\ deadline[q] <= at[q][p] + Timeout

(* What a leader was answered: a pool that was missing may have been       *)
(* created since the call began, not longer ago than the context lives.    *)
AnswerInv ==
    \A q \in Quotes, p \in Pools :
        /\ pc[q][p] = "reply" => ans[q][p] \in {"yes", "no"}
        /\ pc[q][p] = "store" => ans[q][p] # "none"
        /\ pc[q][p] \in {"reply", "store"} =>
             /\ ans[q][p] = "yes" => born[p] # Never
             /\ ans[q][p] = "no" => born[p] >= at[q][p] /\ born[p] + Timeout >= clock

CacheInv ==
    \A p \in Pools :
        /\ cache[p].expires <= clock + TTL
        /\ cache[p].exists = "none" => cache[p].expires = 0
        /\ cache[p].exists = "yes" => born[p] # Never
        /\ cache[p].exists = "no" => born[p] + TTL >= cache[p].expires

(* What a flight left for those who wait is of their time too.             *)
HeardInv ==
    \A q \in Quotes, p \in Pools :
        /\ heard[q][p] # "none" => pc[q][p] \in {"wait", "done"}
        /\ heard[q][p] = "yes" => born[p] # Never
        /\ heard[q][p] = "no" => born[p] + Timeout >= at[q][p]

PoolInv == TypeOK /\ FlightInv /\ TimeInv /\ AnswerInv /\ CacheInv /\ HeardInv

-----------------------------------------------------------------------------
(* The times are natural numbers, and Never comes after all of them.       *)
LEMMA Times ==
    /\ TTL \in Nat /\ Timeout \in Nat /\ MaxClock \in Nat /\ Never \in Nat
    /\ \A t \in 0 .. MaxClock : t \in Nat /\ t <= MaxClock /\ t # Never /\ t + Timeout # Never
<1>1. TTL \in Nat /\ Timeout \in Nat /\ MaxClock \in Nat
  BY TimesAssumption
<1>. QED BY <1>1 DEF Never

States == {"off", "ask", "lookup", "slot", "call", "reply", "store", "wait", "done"}

(* A goroutine goes on, and no other one does.                             *)
LEMMA Moved ==
    ASSUME TypeOK, NEW q \in Quotes, NEW p \in Pools, NEW to \in States, Go(q, p, to)
    PROVE  /\ pc' \in [Quotes -> [Pools -> States]]
           /\ pc'[q][p] = to
           /\ \A r \in Quotes, s \in Pools : ~(r = q /\ s = p) => pc'[r][s] = pc[r][s]
<1>1. pc \in [Quotes -> [Pools -> States]]
  BY DEF TypeOK, States
<1>. QED BY <1>1 DEF Go

(* And what it was answered is its own.                                    *)
Gets(q, p, x) == ans' = [ans EXCEPT ![q][p] = x]

LEMMA Answered ==
    ASSUME TypeOK, NEW q \in Quotes, NEW p \in Pools, NEW x \in Answers, Gets(q, p, x)
    PROVE  /\ ans' \in [Quotes -> [Pools -> Answers]]
           /\ ans'[q][p] = x
           /\ \A r \in Quotes, s \in Pools : ~(r = q /\ s = p) => ans'[r][s] = ans[r][s]
<1>1. ans \in [Quotes -> [Pools -> Answers]]
  BY DEF TypeOK
<1>. QED BY <1>1 DEF Gets

(* No goroutine runs yet.                                                  *)
LEMMA InitPool == Init => PoolInv
<1>. SUFFICES ASSUME Init PROVE PoolInv
  OBVIOUS
<1>1. \A q \in Quotes, p \in Pools : /\ pc[q][p] = "off" /\ at[q][p] = Never
                                     /\ ans[q][p] = "none" /\ heard[q][p] = "none"
                                     /\ deadline[q] = Never
  BY DEF Init, PerCall
<1>2. \A p \in Pools : flight[p] = Nil /\ cache[p] = [exists |-> "none", expires |-> 0]
  BY DEF Init
<1>3. clock = 0
  BY DEF Init
<1>4. TypeOK
  <2>1. clock \in 0 .. MaxClock /\ 0 \in 0 .. MaxClock + TTL /\ 0 \in 0 .. MaxClock
    BY <1>3, Times
  <2>. QED BY <2>1 DEF Init, TypeOK, PerCall, Answers
<1>5. FlightInv
  BY <1>1, <1>2, NilAssumption DEF FlightInv, Leads
<1>6. TimeInv /\ AnswerInv /\ HeardInv
  BY <1>1 DEF TimeInv, AnswerInv, HeardInv
<1>7. CacheInv
  BY <1>2, <1>3, Times DEF CacheInv
<1>. QED BY <1>4, <1>5, <1>6, <1>7 DEF PoolInv


-----------------------------------------------------------------------------
(* The steps of a goroutine that touch no more than where it is and what   *)
(* it was answered.                                                        *)
LEMMA QuietStep ==
    ASSUME PoolInv, NEW q \in Quotes, NEW p \in Pools, NEW to \in States, NEW x \in Answers,
           to \notin {"off", "ask"}, pc[q][p] \notin {"off", "ask"},
           Go(q, p, to), Gets(q, p, x),
           UNCHANGED <<clock, born, deadline, at, cache, flight, heard>>,
           Leads(q, p) <=> to \in {"slot", "call", "reply", "store"},
           to = "wait" => flight[p] # Nil,
           heard[q][p] # "none" => to \in {"wait", "done"},
           to = "reply" => x \in {"yes", "no"},
           to = "store" => x # "none",
           to \in {"reply", "store"} =>
             /\ x = "yes" => born[p] # Never
             /\ x = "no" => born[p] >= at[q][p] /\ born[p] + Timeout >= clock
    PROVE  PoolInv'
<1>. USE DEF PoolInv
<1>0. TypeOK
  OBVIOUS
<1>1. /\ pc' \in [Quotes -> [Pools -> States]]
      /\ pc'[q][p] = to
      /\ \A r \in Quotes, s \in Pools : ~(r = q /\ s = p) => pc'[r][s] = pc[r][s]
  BY <1>0, Moved
<1>2. /\ ans' \in [Quotes -> [Pools -> Answers]]
      /\ ans'[q][p] = x
      /\ \A r \in Quotes, s \in Pools : ~(r = q /\ s = p) => ans'[r][s] = ans[r][s]
  BY <1>0, Answered
<1>3. TypeOK'
  BY <1>1, <1>2 DEF TypeOK, States, Answers
<1>4. FlightInv'
  BY <1>1 DEF FlightInv, Leads
<1>5. TimeInv'
  BY <1>1 DEF TimeInv
<1>6. AnswerInv'
  BY <1>1, <1>2 DEF AnswerInv
<1>7. CacheInv'
  BY DEF CacheInv
<1>8. HeardInv'
  BY <1>1 DEF HeardInv
<1>. QED BY <1>3, <1>4, <1>5, <1>6, <1>7, <1>8

(* A goroutine is answered within its time, and by the node or the cache.  *)
LEMMA QuietSteps ==
    ASSUME PoolInv, NEW q \in Quotes, NEW p \in Pools,
           \/ Hit(q, p) \/ Join(q, p) \/ TakeSlot(q, p) \/ MissSlot(q, p)
           \/ NodeReads(q, p) \/ Fetched(q, p) \/ FetchFails(q, p)
           \/ Hear(q, p) \/ GiveUp(q, p)
    PROVE  PoolInv'
<1>1. /\ ans[q][p] \in Answers /\ heard[q][p] \in Answers
      /\ cache[p].exists \in Answers /\ ans = [ans EXCEPT ![q][p] = ans[q][p]]
      /\ {"no", "yes", "err"} \subseteq Answers
  BY DEF PoolInv, TypeOK, Answers
<1>2. heard[q][p] # "none" => pc[q][p] \in {"wait", "done"}
  BY DEF PoolInv, HeardInv
<1>. USE DEF States, Leads, InCall, Gets
<1>3. CASE Hit(q, p)
  BY <1>1, <1>2, <1>3, QuietStep DEF Hit, Return
<1>4. CASE Join(q, p)
  BY <1>1, <1>2, <1>4, QuietStep DEF Join, InFlight
<1>5. CASE TakeSlot(q, p)
  BY <1>1, <1>2, <1>5, QuietStep DEF TakeSlot
<1>6. CASE MissSlot(q, p)
  BY <1>1, <1>2, <1>6, QuietStep DEF MissSlot
<1>7. CASE NodeReads(q, p)
  <2>1. at[q][p] \in Nat /\ at[q][p] <= clock /\ clock \in Nat /\ Never >= at[q][p]
        /\ Never + Timeout >= clock
    <3>1. pc[q][p] = "call"
      BY <1>7 DEF NodeReads
    <3>2. at[q][p] <= clock
      BY <3>1 DEF PoolInv, TimeInv
    <3>3. clock \in 0 .. MaxClock /\ at[q][p] \in 0 .. MaxClock \union {Never}
      BY DEF PoolInv, TypeOK
    <3>. QED BY <3>2, <3>3, Times DEF Never
  <2>. QED BY <1>1, <1>2, <1>7, <2>1, QuietStep DEF NodeReads
<1>8. CASE Fetched(q, p)
  <2>1. /\ ans[q][p] # "none"
        /\ ans[q][p] = "yes" => born[p] # Never
        /\ ans[q][p] = "no" => born[p] >= at[q][p] /\ born[p] + Timeout >= clock
    BY <1>8 DEF Fetched, PoolInv, AnswerInv
  <2>. QED BY <1>1, <1>2, <1>8, <2>1, QuietStep DEF Fetched
<1>9. CASE FetchFails(q, p)
  BY <1>1, <1>2, <1>9, QuietStep DEF FetchFails
<1>10. CASE Hear(q, p)
  BY <1>1, <1>2, <1>10, QuietStep DEF Hear, Return
<1>11. CASE GiveUp(q, p)
  BY <1>1, <1>2, <1>11, QuietStep DEF GiveUp, Return
<1>. QED BY <1>3, <1>4, <1>5, <1>6, <1>7, <1>8, <1>9, <1>10, <1>11

(* The clock is read once, and the context still has at most Timeout.      *)
LEMMA ReadClockStep ==
    ASSUME PoolInv, NEW q \in Quotes, NEW p \in Pools, ReadClock(q, p)
    PROVE  PoolInv'
<1>. USE DEF PoolInv
<1>0. TypeOK /\ Go(q, p, "lookup") /\ pc[q][p] = "ask"
      /\ UNCHANGED <<clock, born, deadline, ans, cache, flight, heard>>
  BY DEF ReadClock
<1>1. /\ pc' \in [Quotes -> [Pools -> States]]
      /\ pc'[q][p] = "lookup"
      /\ \A r \in Quotes, s \in Pools : ~(r = q /\ s = p) => pc'[r][s] = pc[r][s]
  BY <1>0, Moved DEF States
<1>2. /\ at' \in [Quotes -> [Pools -> 0 .. MaxClock \union {Never}]]
      /\ at'[q][p] = clock
      /\ \A r \in Quotes, s \in Pools : ~(r = q /\ s = p) => at'[r][s] = at[r][s]
  BY DEF ReadClock, TypeOK
<1>3. heard[q][p] = "none"
  BY <1>0 DEF HeardInv
<1>4. TypeOK'
  BY <1>0, <1>1, <1>2 DEF TypeOK, States
<1>5. FlightInv'
  BY <1>0, <1>1 DEF FlightInv, Leads
<1>6. TimeInv'
  <2>1. clock <= clock /\ deadline[q] # Never /\ deadline[q] <= clock + Timeout
    BY <1>0, Times DEF TimeInv, TypeOK
  <2>. QED BY <1>0, <1>1, <1>2, <2>1 DEF TimeInv
<1>7. AnswerInv'
  BY <1>0, <1>1, <1>2 DEF AnswerInv
<1>8. CacheInv'
  BY <1>0 DEF CacheInv
<1>9. HeardInv'
  BY <1>0, <1>1, <1>2, <1>3 DEF HeardInv
<1>. QED BY <1>4, <1>5, <1>6, <1>7, <1>8, <1>9

(* A flight begins where there is none.                                    *)
LEMMA LeadStep ==
    ASSUME PoolInv, NEW q \in Quotes, NEW p \in Pools, Lead(q, p)
    PROVE  PoolInv'
<1>. USE DEF PoolInv
<1>0. TypeOK /\ Go(q, p, "slot") /\ pc[q][p] = "lookup" /\ flight[p] = Nil
      /\ UNCHANGED <<clock, born, deadline, at, ans, cache, heard>>
  BY DEF Lead, InFlight
<1>1. /\ pc' \in [Quotes -> [Pools -> States]]
      /\ pc'[q][p] = "slot"
      /\ \A r \in Quotes, s \in Pools : ~(r = q /\ s = p) => pc'[r][s] = pc[r][s]
  BY <1>0, Moved DEF States
<1>2. /\ flight' \in [Pools -> Quotes \union {Nil}] /\ flight'[p] = q
      /\ \A s \in Pools : s # p => flight'[s] = flight[s]
  BY DEF Lead, TypeOK
<1>4. TypeOK'
  BY <1>0, <1>1, <1>2 DEF TypeOK, States
<1>5. FlightInv'
  BY <1>0, <1>1, <1>2, NilAssumption DEF FlightInv, Leads
<1>6. TimeInv'
  BY <1>0, <1>1 DEF TimeInv
<1>7. AnswerInv' /\ CacheInv'
  BY <1>0, <1>1 DEF AnswerInv, CacheInv
<1>9. HeardInv'
  BY <1>0, <1>1 DEF HeardInv
<1>. QED BY <1>4, <1>5, <1>6, <1>7, <1>9

(* The flight lands: it is the leader's, its answer is cached from when    *)
(* the call began, and whoever waits hears it within the leader's time.    *)
LEMMA StoreStep ==
    ASSUME PoolInv, NEW q \in Quotes, NEW p \in Pools, Store(q, p)
    PROVE  PoolInv'
<1>. USE DEF PoolInv
<1>0. TypeOK /\ Go(q, p, "done") /\ pc[q][p] = "store"
      /\ UNCHANGED <<clock, born, deadline, at, ans>>
  BY DEF Store
<1>1. /\ pc' \in [Quotes -> [Pools -> States]]
      /\ pc'[q][p] = "done"
      /\ \A r \in Quotes, s \in Pools : ~(r = q /\ s = p) => pc'[r][s] = pc[r][s]
  BY <1>0, Moved DEF States
<1>2. /\ flight' \in [Pools -> Quotes \union {Nil}] /\ flight'[p] = Nil
      /\ \A s \in Pools : s # p => flight'[s] = flight[s]
  BY DEF Store, TypeOK, Landed
<1>3. /\ ans[q][p] \in {"yes", "no", "err"}
      /\ ans[q][p] = "yes" => born[p] # Never
      /\ ans[q][p] = "no" => born[p] >= at[q][p] /\ born[p] + Timeout >= clock
      /\ at[q][p] <= clock
  <2>1. ans[q][p] \in Answers
    BY DEF TypeOK
  <2>2. ans[q][p] # "none" /\ (ans[q][p] = "yes" => born[p] # Never)
    BY <1>0 DEF AnswerInv
  <2>3. ans[q][p] = "no" => born[p] >= at[q][p] /\ born[p] + Timeout >= clock
    BY <1>0 DEF AnswerInv
  <2>4. at[q][p] <= clock
    BY <1>0 DEF TimeInv
  <2>. QED BY <2>1, <2>2, <2>3, <2>4 DEF Answers
<1>4. /\ clock \in Nat /\ clock <= MaxClock /\ at[q][p] \in 0 .. MaxClock
      /\ born[p] \in Nat
  BY <1>3, Times DEF TypeOK, Never
<1>5. /\ \A s \in Pools : s # p => cache'[s] = cache[s]
      /\ \/ ans[q][p] = "err" /\ cache'[p] = cache[p]
         \/ /\ ans[q][p] # "err" /\ cache'[p].exists = ans[q][p]
            /\ cache'[p].expires = at[q][p] + TTL
  BY DEF Store, Entry, TypeOK
<1>6. cache' \in [Pools -> [exists : {"none", "yes", "no"}, expires : 0 .. (MaxClock + TTL)]]
  <2>1. at[q][p] + TTL \in 0 .. (MaxClock + TTL)
    BY <1>4, Times
  <2>2. Entry(q, p) \in [exists : {"none", "yes", "no"}, expires : 0 .. (MaxClock + TTL)]
    BY <1>3, <2>1 DEF Entry, TypeOK
  <2>. QED BY <2>2 DEF Store, TypeOK
<1>7. \A r \in Quotes, s \in Pools :
          heard'[r][s] = IF s = p /\ pc[r][p] = "wait" /\ heard[r][p] = "none"
                         THEN ans[q][p] ELSE heard[r][s]
  BY DEF Store, TypeOK
<1>8. heard' \in [Quotes -> [Pools -> Answers]]
  BY DEF Store, TypeOK
<1>9. TypeOK'
  BY <1>0, <1>1, <1>2, <1>6, <1>8 DEF TypeOK, States
<1>10. FlightInv'
  <2>1. \A r \in Quotes : Leads(r, p) => r = q
    BY <1>0 DEF FlightInv, Leads
  <2>. QED BY <1>0, <1>1, <1>2, <1>3, <1>7, <2>1, NilAssumption DEF FlightInv, Leads
<1>11. TimeInv' /\ AnswerInv'
  BY <1>0, <1>1 DEF TimeInv, AnswerInv
<1>12. CacheInv'
  <2>1. ans[q][p] # "err" => cache'[p].expires <= clock + TTL
    BY <1>3, <1>4, <1>5, Times
  <2>2. ans[q][p] = "no" => born[p] + TTL >= cache'[p].expires
    BY <1>3, <1>4, <1>5, Times
  <2>. QED BY <1>0, <1>3, <1>5, <2>1, <2>2 DEF CacheInv
<1>13. HeardInv'
  <2>1. ASSUME NEW r \in Quotes, pc[r][p] = "wait", ans[q][p] = "no"
        PROVE  born[p] + Timeout >= at[r][p]
    <3>1. at[r][p] <= clock
      BY <2>1 DEF TimeInv
    <3>2. at[r][p] \in Nat
      BY Times DEF TypeOK
    <3>. QED BY <1>3, <1>4, <2>1, <3>1, <3>2, Times
  <2>. QED BY <1>0, <1>1, <1>3, <1>7, <2>1 DEF HeardInv
<1>. QED BY <1>9, <1>10, <1>11, <1>12, <1>13

(* Time passes: not past the context of a flight, and what was cached or   *)
(* heard is of its own time.                                               *)
LEMMA TickStep ==
    ASSUME PoolInv, Tick
    PROVE  PoolInv'
<1>. USE DEF PoolInv
<1>0. clock \in Nat /\ clock' = clock + 1 /\ clock' \in 0 .. MaxClock
      /\ UNCHANGED <<born, deadline, pc, at, ans, cache, flight, heard>>
  BY Times DEF Tick, TypeOK
<1>1. TypeOK' /\ FlightInv' /\ HeardInv'
  BY <1>0 DEF TypeOK, FlightInv, Leads, HeardInv
<1>2. TimeInv'
  <2>1. \A q \in Quotes : deadline[q] \in Nat
    BY Times DEF TypeOK
  <2>2. \A q \in Quotes, p \in Pools : at[q][p] \in Nat
    BY Times DEF TypeOK
  <2>. QED BY <1>0, <2>1, <2>2, Times DEF TimeInv
<1>3. CacheInv'
  <2>1. \A p \in Pools : cache[p].expires \in Nat
    BY Times DEF TypeOK
  <2>. QED BY <1>0, <2>1, Times DEF CacheInv
<1>4. AnswerInv'
  <2>1. ASSUME NEW q \in Quotes, NEW p \in Pools, pc[q][p] \in {"reply", "store"}, ans[q][p] = "no"
        PROVE  born[p] + Timeout >= clock'
    <3>1. pc[q][p] # "store" /\ ~(clock >= deadline[q])
      BY <2>1 DEF Tick, Urgent, Expired
    <3>2. deadline[q] <= at[q][p] + Timeout /\ born[p] >= at[q][p]
      BY <2>1 DEF TimeInv, AnswerInv
    <3>3. deadline[q] \in Nat /\ at[q][p] \in Nat /\ born[p] \in Nat
      BY Times DEF TypeOK
    <3>. QED BY <1>0, <3>1, <3>2, <3>3, Times
  <2>. QED BY <1>0, <2>1 DEF AnswerInv
<1>. QED BY <1>1, <1>2, <1>3, <1>4

(* A pool is created now, after all that was said of it.                   *)
LEMMA CreateStep ==
    ASSUME PoolInv, NEW p \in Pools, Create(p)
    PROVE  PoolInv'
<1>. USE DEF PoolInv
<1>0. /\ born[p] = Never /\ born'[p] = clock /\ \A s \in Pools : s # p => born'[s] = born[s]
      /\ UNCHANGED <<clock, deadline, pc, at, ans, cache, flight, heard>>
  BY DEF Create, TypeOK
<1>1. clock \in Nat /\ clock \in 0 .. MaxClock /\ clock # Never
  BY Times DEF TypeOK
<1>2. TypeOK'
  BY <1>0, <1>1 DEF TypeOK, Create
<1>3. FlightInv' /\ TimeInv'
  BY <1>0 DEF FlightInv, Leads, TimeInv
<1>4. AnswerInv'
  <2>1. \A q \in Quotes : pc[q][p] \in {"reply", "store"} => clock >= at[q][p]
    <3>1. \A q \in Quotes : at[q][p] \in Nat
      BY Times DEF TypeOK
    <3>. QED BY <1>1, <3>1 DEF TimeInv
  <2>2. clock + Timeout >= clock
    BY <1>1, Times
  <2>. QED BY <1>0, <1>1, <2>1, <2>2 DEF AnswerInv
<1>5. CacheInv'
  <2>1. cache[p].expires <= clock + TTL => clock + TTL >= cache[p].expires
    <3>1. cache[p].expires \in Nat
      BY Times DEF TypeOK
    <3>. QED BY <1>1, <3>1, Times
  <2>. QED BY <1>0, <1>1, <2>1 DEF CacheInv
<1>6. HeardInv'
  <2>1. ASSUME NEW q \in Quotes, heard[q][p] # "none"
        PROVE  clock + Timeout >= at[q][p]
    <3>1. at[q][p] <= clock
      BY <2>1 DEF HeardInv, TimeInv
    <3>2. at[q][p] \in Nat
      BY Times DEF TypeOK
    <3>. QED BY <1>1, <3>1, <3>2, Times
  <2>. QED BY <1>0, <1>1, <2>1 DEF HeardInv
<1>. QED BY <1>2, <1>3, <1>4, <1>5, <1>6

(* A quote starts: it had no goroutine before.                             *)
LEMMA DiscoverStep ==
    ASSUME PoolInv, NEW q \in Quotes, Discover(q)
    PROVE  PoolInv'
<1>. USE DEF PoolInv
<1>0. /\ deadline[q] = Never /\ clock + Timeout <= MaxClock
      /\ UNCHANGED <<clock, born, at, ans, cache, flight, heard>>
  BY DEF Discover
<1>1. /\ pc' \in [Quotes -> [Pools -> States]]
      /\ \A p \in Pools : pc'[q][p] \in {"off", "ask"}
      /\ \A r \in Quotes : r # q => pc'[r] = pc[r]
  BY DEF Discover, TypeOK, States
<1>2. clock \in Nat /\ clock + Timeout \in 0 .. MaxClock + Timeout /\ clock + Timeout # Never
  BY <1>0, Times DEF TypeOK, Never
<1>3. /\ deadline' \in [Quotes -> 0 .. (MaxClock + Timeout) \union {Never}]
      /\ deadline'[q] = clock + Timeout /\ \A r \in Quotes : r # q => deadline'[r] = deadline[r]
  BY <1>2 DEF Discover, TypeOK
<1>4. \A p \in Pools : pc[q][p] = "off" /\ at[q][p] = Never
  BY <1>0 DEF TimeInv
<1>5. TypeOK'
  BY <1>0, <1>1, <1>3 DEF TypeOK, States
<1>6. FlightInv'
  BY <1>0, <1>1, <1>4 DEF FlightInv, Leads
<1>7. TimeInv'
  <2>1. deadline'[q] <= clock + Timeout
    BY <1>2, <1>3, Times
  <2>. QED BY <1>0, <1>1, <1>2, <1>3, <1>4, <2>1 DEF TimeInv
<1>8. AnswerInv'
  BY <1>0, <1>1, <1>4 DEF AnswerInv
<1>9. CacheInv'
  BY <1>0 DEF CacheInv
<1>10. HeardInv'
  BY <1>0, <1>1, <1>4 DEF HeardInv
<1>. QED BY <1>5, <1>6, <1>7, <1>8, <1>9, <1>10

-----------------------------------------------------------------------------
(* Every step of a goroutine, of time and of the chain.                    *)
LEMMA StepPool == PoolInv /\ [Next]_vars => PoolInv'
<1>. SUFFICES ASSUME PoolInv, [Next]_vars PROVE PoolInv'
  OBVIOUS
<1>1. CASE UNCHANGED vars
  BY <1>1 DEF vars, PoolInv, TypeOK, FlightInv, Leads, TimeInv, AnswerInv, CacheInv, HeardInv
<1>2. CASE Next
  BY <1>2, QuietSteps, ReadClockStep, LeadStep, StoreStep, TickStep, CreateStep, DiscoverStep
     DEF Next, CallStep
<1>. QED BY <1>1, <1>2

(* The inductive invariant of the cache, its flights and those who wait    *)
(* for them (poolExists, fetchPoolExists, resolveCandidatePools).          *)
THEOREM PoolKept == Spec => []PoolInv
BY InitPool, StepPool, PTL DEF Spec

(* However many quotes look for a pool at once, one goroutine at a time    *)
(* asks the node for it, and nobody waits for a flight that is over        *)
(* (poolFlights, both sections under poolMu).                              *)
THEOREM OneFlight == Spec => []SingleFlight
<1>1. PoolInv => SingleFlight
  BY DEF PoolInv, FlightInv, Leads, SingleFlight
<1>. QED BY <1>1, PoolKept, PTL

-----------------------------------------------------------------------------
(* What a caller sees of the goroutines: PoolOracle's out.                 *)
Out == [q \in Quotes |-> [p \in Pools |-> IF pc[q][p] = "done" THEN ans[q][p] ELSE "none"]]

(* No goroutine returns: the caller sees nothing.                          *)
LEMMA OutSame ==
    ASSUME NEW q \in Quotes, NEW p \in Pools, pc[q][p] # "done", pc'[q][p] # "done",
           \A r \in Quotes, s \in Pools :
              ~(r = q /\ s = p) => pc'[r][s] = pc[r][s] /\ ans'[r][s] = ans[r][s]
    PROVE  Out' = Out
<1>1. \A r \in Quotes, s \in Pools :
        (IF pc'[r][s] = "done" THEN ans'[r][s] ELSE "none")
          = (IF pc[r][s] = "done" THEN ans[r][s] ELSE "none")
  OBVIOUS
<1>. QED BY <1>1 DEF Out

(* One returns: the caller sees its answer.                                *)
LEMMA OutReturns ==
    ASSUME NEW q \in Quotes, NEW p \in Pools, pc'[q][p] = "done",
           \A r \in Quotes, s \in Pools :
              ~(r = q /\ s = p) => pc'[r][s] = pc[r][s] /\ ans'[r][s] = ans[r][s]
    PROVE  Out' = [Out EXCEPT ![q][p] = ans'[q][p]]
<1>1. \A r \in Quotes, s \in Pools :
        (IF pc'[r][s] = "done" THEN ans'[r][s] ELSE "none")
          = IF r = q /\ s = p THEN ans'[q][p]
            ELSE IF pc[r][s] = "done" THEN ans[r][s] ELSE "none"
  OBVIOUS
<1>. DEFINE After == [r \in Quotes |-> [s \in Pools |->
                       IF r = q /\ s = p THEN ans'[q][p]
                       ELSE IF pc[r][s] = "done" THEN ans[r][s] ELSE "none"]]
<1>2. Out' = After
  BY <1>1 DEF Out
<1>3. [Out EXCEPT ![q][p] = ans'[q][p]] = After
  <2>1. Out = [r \in Quotes |-> Out[r]]
    BY DEF Out
  <2>2. [Out EXCEPT ![q][p] = ans'[q][p]]
          = [r \in Quotes |-> IF r = q THEN [Out[q] EXCEPT ![p] = ans'[q][p]] ELSE Out[r]]
    BY <2>1
  <2>3. ASSUME NEW r \in Quotes
        PROVE  (IF r = q THEN [Out[q] EXCEPT ![p] = ans'[q][p]] ELSE Out[r]) = After[r]
    BY DEF Out
  <2>. QED BY <2>2, <2>3
<1>. QED BY <1>2, <1>3

Quiet == UNCHANGED <<clock, born, at>>

(* A goroutine that does not return is silent.                             *)
LEMMA Silent ==
    ASSUME PoolInv, NEW q \in Quotes, NEW p \in Pools,
           \/ Join(q, p) \/ Lead(q, p) \/ TakeSlot(q, p) \/ MissSlot(q, p)
           \/ NodeReads(q, p) \/ Fetched(q, p) \/ FetchFails(q, p)
    PROVE  Out' = Out /\ Quiet
<1>1. TypeOK
  BY DEF PoolInv
<1>2. PICK to \in States \ {"done"} : Go(q, p, to)
  BY DEF Join, Lead, TakeSlot, MissSlot, NodeReads, Fetched, FetchFails, States
<1>3. PICK x \in Answers : Gets(q, p, x)
  <2>1. ans = [ans EXCEPT ![q][p] = ans[q][p]] /\ ans[q][p] \in Answers
    BY <1>1 DEF TypeOK
  <2>. QED BY <2>1 DEF Gets, Answers, Join, Lead, TakeSlot, MissSlot, NodeReads, Fetched, FetchFails
<1>4. pc[q][p] # "done" /\ Quiet
  BY DEF Join, Lead, TakeSlot, MissSlot, NodeReads, Fetched, FetchFails, InCall, Quiet
<1>5. /\ pc'[q][p] # "done"
      /\ \A r \in Quotes, s \in Pools : ~(r = q /\ s = p) => pc'[r][s] = pc[r][s]
  BY <1>1, <1>2, Moved
<1>6. \A r \in Quotes, s \in Pools : ~(r = q /\ s = p) => ans'[r][s] = ans[r][s]
  BY <1>1, <1>3, Answered
<1>. QED BY <1>4, <1>5, <1>6, OutSame

(* One that returns says what PoolOracle allows.                           *)
LEMMA Returns ==
    ASSUME PoolInv, NEW q \in Quotes, NEW p \in Pools,
           Hit(q, p) \/ Store(q, p) \/ Hear(q, p) \/ GiveUp(q, p)
    PROVE  /\ Quiet /\ at[q][p] # Never /\ pc[q][p] # "done"
           /\ Out' = [Out EXCEPT ![q][p] = ans'[q][p]]
           /\ ans'[q][p] \in {"yes", "no", "err"}
           /\ ans'[q][p] = "yes" => born[p] # Never
           /\ ans'[q][p] = "no" => born[p] + TTL > at[q][p] \/ born[p] + Timeout >= at[q][p]
<1>1. TypeOK
  BY DEF PoolInv
<1>2. Go(q, p, "done") /\ Quiet /\ pc[q][p] \in {"lookup", "store", "wait"}
  BY DEF Hit, Store, Hear, GiveUp, Return, Quiet
<1>3. at[q][p] \in Nat /\ at[q][p] # Never /\ clock \in Nat /\ at[q][p] <= clock
  <2>1. at[q][p] <= clock
    BY <1>2 DEF PoolInv, TimeInv
  <2>2. clock \in 0 .. MaxClock /\ at[q][p] \in 0 .. MaxClock \union {Never}
    BY <1>1 DEF TypeOK
  <2>. QED BY <2>1, <2>2, Times DEF Never
<1>4. /\ cache[p].expires \in Nat /\ born[p] \in Nat
      /\ cache[p].exists \in {"none", "yes", "no"} /\ heard[q][p] \in Answers /\ ans[q][p] \in Answers
  BY <1>1, Times DEF TypeOK
<1>5. PICK y \in {"yes", "no", "err"} :
        /\ Gets(q, p, y)
        /\ y = "yes" => born[p] # Never
        /\ y = "no" => born[p] + TTL > at[q][p] \/ born[p] + Timeout >= at[q][p]
  <2>1. CASE Hit(q, p)
    <3>1. Gets(q, p, cache[p].exists) /\ at[q][p] < cache[p].expires
      BY <2>1 DEF Hit, Return, Gets, FreshEntry
    <3>2. cache[p].exists # "none"
      BY <1>3, <3>1 DEF PoolInv, CacheInv
    <3>3. cache[p].exists = "yes" => born[p] # Never
      BY DEF PoolInv, CacheInv
    <3>4. cache[p].exists = "no" => born[p] + TTL > at[q][p]
      BY <1>3, <1>4, <3>1, Times DEF PoolInv, CacheInv
    <3>. QED BY <1>4, <3>1, <3>2, <3>3, <3>4
  <2>2. CASE Store(q, p)
    <3>1. pc[q][p] = "store" /\ ans' = ans
      BY <2>2 DEF Store
    <3>2. Gets(q, p, ans[q][p])
      BY <1>1, <3>1 DEF Gets, TypeOK
    <3>3. ans[q][p] # "none" /\ (ans[q][p] = "yes" => born[p] # Never)
      BY <3>1 DEF PoolInv, AnswerInv
    <3>4. ans[q][p] = "no" => born[p] + Timeout >= clock
      BY <3>1 DEF PoolInv, AnswerInv
    <3>5. ans[q][p] = "no" => born[p] + Timeout >= at[q][p]
      BY <1>3, <1>4, <3>4, Times
    <3>. QED BY <1>4, <3>2, <3>3, <3>5 DEF Answers
  <2>3. CASE Hear(q, p)
    <3>1. Gets(q, p, heard[q][p]) /\ heard[q][p] # "none"
      BY <2>3 DEF Hear, Return, Gets
    <3>2. /\ heard[q][p] = "yes" => born[p] # Never
          /\ heard[q][p] = "no" => born[p] + Timeout >= at[q][p]
      BY DEF PoolInv, HeardInv
    <3>. QED BY <1>4, <3>1, <3>2 DEF Answers
  <2>4. CASE GiveUp(q, p)
    BY <2>4 DEF GiveUp, Return, Gets
  <2>. QED BY <2>1, <2>2, <2>3, <2>4
<1>6. /\ pc'[q][p] = "done"
      /\ \A r \in Quotes, s \in Pools : ~(r = q /\ s = p) => pc'[r][s] = pc[r][s]
  BY <1>1, <1>2, Moved DEF States
<1>7. /\ ans'[q][p] = y
      /\ \A r \in Quotes, s \in Pools : ~(r = q /\ s = p) => ans'[r][s] = ans[r][s]
  BY <1>1, <1>5, Answered DEF Answers
<1>8. Out' = [Out EXCEPT ![q][p] = ans'[q][p]]
  BY <1>6, <1>7, OutReturns
<1>. QED BY <1>2, <1>3, <1>5, <1>7, <1>8

-----------------------------------------------------------------------------
(* The first state is the abstract one's.                                  *)
LEMMA InitOracle == Init => Oracle!Init
BY DEF Init, Oracle!Init, PerCall, Never, Oracle!Never

(* Every step is one of PoolOracle's, or nothing that a caller can see.    *)
LEMMA StepOracle ==
    PoolInv /\ [Next]_vars => [Oracle!Next]_(Oracle!vars)
<1>. SUFFICES ASSUME PoolInv, [Next]_vars PROVE Oracle!Next \/ UNCHANGED Oracle!vars
  OBVIOUS
<1>. USE DEF Quiet
<1>1. TypeOK /\ Oracle!Never = Never
  BY DEF PoolInv, Never, Oracle!Never
<1>2. ASSUME UNCHANGED <<clock, born, at>>, Out' = Out
      PROVE  UNCHANGED Oracle!vars
  BY <1>2 DEF Oracle!vars, Out
<1>3. CASE UNCHANGED vars
  BY <1>2, <1>3 DEF vars, Out
<1>4. CASE Tick
  <2>1. clock' \in clock + 1 .. MaxClock /\ UNCHANGED <<born, at, pc, ans>>
    BY <1>1, <1>4, Times DEF Tick, TypeOK
  <2>2. Oracle!Tick
    BY <2>1 DEF Oracle!Tick
  <2>. QED BY <2>2 DEF Oracle!Next
<1>5. ASSUME NEW p \in Pools, Create(p)
      PROVE  Oracle!Next
  <2>1. Oracle!Create(p)
    BY <1>1, <1>5 DEF Create, Oracle!Create
  <2>. QED BY <2>1 DEF Oracle!Next
<1>6. ASSUME NEW q \in Quotes, Discover(q)
      PROVE  UNCHANGED Oracle!vars
  <2>1. \A p \in Pools : pc[q][p] = "off"
    BY <1>6 DEF Discover, PoolInv, TimeInv
  <2>2. /\ \A p \in Pools : pc'[q][p] # "done"
        /\ \A r \in Quotes : r # q => pc'[r] = pc[r]
    BY <1>1, <1>6 DEF Discover, TypeOK
  <2>3. UNCHANGED <<clock, born, at, ans>>
    BY <1>6 DEF Discover
  <2>4. Out' = Out
    <3>1. \A r \in Quotes, s \in Pools :
            (IF pc'[r][s] = "done" THEN ans'[r][s] ELSE "none")
              = (IF pc[r][s] = "done" THEN ans[r][s] ELSE "none")
      BY <2>1, <2>2, <2>3
    <3>. QED BY <3>1 DEF Out
  <2>. QED BY <1>2, <2>3, <2>4
<1>7. ASSUME NEW q \in Quotes, NEW p \in Pools, ReadClock(q, p)
      PROVE  Oracle!Next
  <2>1. pc[q][p] = "ask" /\ Go(q, p, "lookup") /\ UNCHANGED <<clock, born, ans>>
        /\ at' = [at EXCEPT ![q][p] = clock]
    BY <1>7 DEF ReadClock
  <2>2. at[q][p] = Never
    BY <2>1 DEF PoolInv, TimeInv
  <2>3. Out' = Out
    BY <1>1, <2>1, Moved, OutSame DEF States
  <2>4. Oracle!Begin(q, p)
    BY <1>1, <2>1, <2>2, <2>3 DEF Oracle!Begin, Out
  <2>. QED BY <2>4 DEF Oracle!Next
<1>8. ASSUME NEW q \in Quotes, NEW p \in Pools,
             Hit(q, p) \/ Store(q, p) \/ Hear(q, p) \/ GiveUp(q, p)
      PROVE  Oracle!Next
  <2>1. /\ UNCHANGED <<clock, born, at>> /\ at[q][p] # Never /\ pc[q][p] # "done"
        /\ Out' = [Out EXCEPT ![q][p] = ans'[q][p]]
        /\ ans'[q][p] \in {"yes", "no", "err"}
        /\ ans'[q][p] = "yes" => born[p] # Never
        /\ ans'[q][p] = "no" => born[p] + TTL > at[q][p] \/ born[p] + Timeout >= at[q][p]
    BY <1>8, Returns
  <2>2. Out[q][p] = "none"
    BY <2>1 DEF Out
  <2>3. Oracle!Return(q, p)
    BY <1>1, <2>1, <2>2 DEF Oracle!Return, Oracle!Missing, Out
  <2>. QED BY <2>3 DEF Oracle!Next
<1>9. ASSUME NEW q \in Quotes, NEW p \in Pools,
             \/ Join(q, p) \/ Lead(q, p) \/ TakeSlot(q, p) \/ MissSlot(q, p)
             \/ NodeReads(q, p) \/ Fetched(q, p) \/ FetchFails(q, p)
      PROVE  UNCHANGED Oracle!vars
  BY <1>2, <1>9, Silent
<1>. QED BY <1>3, <1>4, <1>5, <1>6, <1>7, <1>8, <1>9 DEF Next, CallStep

(* poolExists, with its cache, its shared flights and its slots, keeps the *)
(* promise of PoolOracle: it implements the specification that has none.   *)
THEOREM KeepsPromise == Spec => ImplementsOracle
<1>1. Spec => []PoolInv
  BY PoolKept
<1>. QED BY <1>1, InitOracle, StepOracle, PTL DEF Spec, ImplementsOracle, Oracle!Spec

-----------------------------------------------------------------------------
(* The pools that a candidate may go through.                              *)
PoolSet(in, out) ==
    {Pool(a, b, fee) : a \in {in, out} \union Range(BaseTokens),
                       b \in {in, out} \union Range(BaseTokens), fee \in Nat}

LEMMA PoolIsIn ==
    \A in, out : \A a, b \in {in, out} \union Range(BaseTokens), fee \in Nat :
        Pool(a, b, fee) \in PoolSet(in, out)
<1>. SUFFICES ASSUME NEW in, NEW out, NEW a \in {in, out} \union Range(BaseTokens),
                     NEW b \in {in, out} \union Range(BaseTokens), NEW fee \in Nat
              PROVE  Pool(a, b, fee) \in PoolSet(in, out)
  BY Zenon
<1>. QED BY DEF PoolSet

LEMMA ViaIs ==
    ASSUME NEW in, NEW out, NEW base \in Range(BaseTokens)
    PROVE  Via(in, base, out) \in Seq(Seq(PoolSet(in, out)))
<1>. DEFINE T == Seq(PoolSet(in, out))
            row(i) == [j \in DOMAIN FeeTiers |->
                         <<Pool(in, base, FeeTiers[i]), Pool(base, out, FeeTiers[j])>>]
<1>1. DOMAIN FeeTiers = 1 .. Len(FeeTiers) /\ Len(FeeTiers) \in Nat
      /\ \A i \in DOMAIN FeeTiers : FeeTiers[i] \in Nat
  BY TiersAssumption
<1>2. \A i \in DOMAIN FeeTiers : Pool(in, base, FeeTiers[i]) \in PoolSet(in, out)
                              /\ Pool(base, out, FeeTiers[i]) \in PoolSet(in, out)
  BY <1>1, PoolIsIn
<1>3. \A i, j \in DOMAIN FeeTiers :
        <<Pool(in, base, FeeTiers[i]), Pool(base, out, FeeTiers[j])>> \in T
  <2>. HIDE DEF T
  <2>1. \A x, y \in PoolSet(in, out) : <<x, y>> \in T
    BY DEF T
  <2>. QED BY <1>2, <2>1
<1>4. \A i \in DOMAIN FeeTiers : row(i) \in Seq(T)
  <2>. HIDE DEF T
  <2>. QED BY <1>1, <1>3
<1>5. [i \in DOMAIN FeeTiers |-> row(i)] \in Seq(Seq(T))
  <2>. HIDE DEF T, row
  <2>. QED BY <1>1, <1>4
<1>6. FlattenSeq([i \in DOMAIN FeeTiers |-> row(i)]) \in Seq(T)
  <2>. HIDE DEF T, row
  <2>. QED BY <1>5, FlattenIs
<1>. QED BY <1>6 DEF Via

LEMMA RoutesAre ==
    ASSUME NEW in, NEW out
    PROVE  Routes(in, out) \in Seq(Seq(PoolSet(in, out)))
<1>. DEFINE T == Seq(PoolSet(in, out))
            by(b) == IF BaseTokens[b] \in {in, out} THEN <<>> ELSE Via(in, BaseTokens[b], out)
<1>1. Direct(in, out) \in Seq(T)
  <2>1. \A i \in DOMAIN FeeTiers : Pool(in, out, FeeTiers[i]) \in PoolSet(in, out)
    <3>1. \A i \in DOMAIN FeeTiers : FeeTiers[i] \in Nat
      BY TiersAssumption
    <3>. QED BY <3>1, PoolIsIn
  <2>2. \A x \in PoolSet(in, out) : <<x>> \in T
    OBVIOUS
  <2>3. \A i \in DOMAIN FeeTiers : <<Pool(in, out, FeeTiers[i])>> \in T
    BY <2>1, <2>2, Zenon
  <2>4. DOMAIN FeeTiers = 1 .. Len(FeeTiers) /\ Len(FeeTiers) \in Nat
    BY TiersAssumption
  <2>. HIDE DEF T
  <2>. QED BY <2>3, <2>4 DEF Direct
<1>2. DOMAIN BaseTokens = 1 .. Len(BaseTokens) /\ Len(BaseTokens) \in Nat
      /\ \A b \in DOMAIN BaseTokens : BaseTokens[b] \in Range(BaseTokens)
  BY TiersAssumption
<1>3. \A b \in DOMAIN BaseTokens : by(b) \in Seq(T)
  <2>1. <<>> \in Seq(T)
    OBVIOUS
  <2>. HIDE DEF T
  <2>2. \A b \in DOMAIN BaseTokens : Via(in, BaseTokens[b], out) \in Seq(T)
    BY <1>2, ViaIs DEF T
  <2>. QED BY <2>1, <2>2
<1>4. [b \in DOMAIN BaseTokens |-> by(b)] \in Seq(Seq(T))
  <2>. HIDE DEF T, by
  <2>. QED BY <1>2, <1>3
<1>5. FlattenSeq([b \in DOMAIN BaseTokens |-> by(b)]) \in Seq(T)
  <2>. HIDE DEF T, by
  <2>. QED BY <1>4, FlattenIs
<1>6. \A x, y \in Seq(T) : x \o y \in Seq(T)
  <2>. HIDE DEF T
  <2>. QED OBVIOUS
<1>. QED BY <1>1, <1>5, <1>6 DEF Routes

-----------------------------------------------------------------------------
(* What a goroutine of a candidate can have come to.                       *)
Results == {At("slot"), At("call")} \union Outcomes

LEMMA ResultIs ==
    \A r \in Results :
        /\ r.amount \in Nat
        /\ r.at \in {"slot", "call", "amount", "reverted", "failed"}
        /\ r.at = "amount" => r.amount > 0
        /\ r.at # "amount" => r.amount = 0
<1>. SUFFICES ASSUME NEW r \in Results
              PROVE  /\ r.amount \in Nat
                     /\ r.at \in {"slot", "call", "amount", "reverted", "failed"}
                     /\ r.at = "amount" => r.amount > 0
                     /\ r.at # "amount" => r.amount = 0
  OBVIOUS
<1>1. CASE \E a \in Amounts : r = [at |-> "amount", amount |-> a]
  <2>1. PICK a \in Amounts : r = [at |-> "amount", amount |-> a]
    BY <1>1
  <2>2. r.at = "amount" /\ r.amount = a
    BY <2>1
  <2>3. a \in Nat /\ a > 0
    BY AmountsAssumption
  <2>. QED BY <2>2, <2>3
<1>2. CASE \E s \in {"slot", "call", "reverted", "failed"} : r = At(s)
  <2>1. PICK s \in {"slot", "call", "reverted", "failed"} : r = At(s)
    BY <1>2
  <2>2. r.at = s /\ r.amount = 0
    BY <2>1 DEF At
  <2>. QED BY <2>2
<1>. QED BY <1>1, <1>2 DEF Results, Outcomes

(* Of finitely many answers, if one has an amount, one is the best.        *)
Best(amount, n, i) ==
    /\ i \in DOMAIN amount /\ i <= n /\ amount[i] > 0
    /\ \A j \in DOMAIN amount : j <= n =>
         amount[j] < amount[i] \/ (amount[j] = amount[i] /\ i <= j)

LEMMA BestExists ==
    ASSUME NEW n \in Nat, NEW amount, DOMAIN amount \subseteq 1 .. n,
           \A i \in DOMAIN amount : amount[i] \in Nat,
           NEW k \in DOMAIN amount, amount[k] > 0
    PROVE  \E i \in DOMAIN amount : Best(amount, n, i)
<1>. DEFINE Positive(m) == \E j \in DOMAIN amount : j <= m /\ amount[j] > 0
            S == {m \in Nat : Positive(m) => \E i \in DOMAIN amount : Best(amount, m, i)}
<1>1. 0 \in S
  <2>1. \A j \in DOMAIN amount : ~(j <= 0)
    OBVIOUS
  <2>. QED BY <2>1
<1>2. ASSUME NEW m \in Nat, m \in S PROVE m + 1 \in S
  <2>. SUFFICES ASSUME Positive(m + 1) PROVE \E i \in DOMAIN amount : Best(amount, m + 1, i)
    OBVIOUS
  <2>0. \A j \in DOMAIN amount : j \in Nat /\ (j <= m + 1 <=> j <= m \/ j = m + 1)
    OBVIOUS
  <2>1. CASE m + 1 \in DOMAIN amount /\ amount[m + 1] > 0
             /\ \A j \in DOMAIN amount : j <= m => amount[j] < amount[m + 1]
    <3>1. Best(amount, m + 1, m + 1)
      BY <2>0, <2>1 DEF Best
    <3>. QED BY <2>1, <3>1
  <2>2. CASE /\ Positive(m)
             /\ ~(m + 1 \in DOMAIN amount /\ amount[m + 1] > 0
                  /\ \A j \in DOMAIN amount : j <= m => amount[j] < amount[m + 1])
    <3>1. PICK i \in DOMAIN amount : Best(amount, m, i)
      BY <1>2, <2>2
    <3>2. m + 1 \in DOMAIN amount => amount[m + 1] <= amount[i]
      <4>. SUFFICES ASSUME m + 1 \in DOMAIN amount, ~(amount[m + 1] <= amount[i]) PROVE FALSE
        OBVIOUS
      <4>1. amount[m + 1] \in Nat /\ amount[i] \in Nat /\ amount[m + 1] > amount[i]
        OBVIOUS
      <4>2. \A j \in DOMAIN amount : j <= m => amount[j] < amount[m + 1]
        BY <3>1, <4>1 DEF Best
      <4>. QED BY <2>2, <4>1, <4>2
    <3>3. Best(amount, m + 1, i)
      <4>1. ASSUME NEW j \in DOMAIN amount, j <= m + 1
            PROVE  amount[j] < amount[i] \/ (amount[j] = amount[i] /\ i <= j)
        <5>1. CASE j <= m
          BY <5>1, <3>1 DEF Best
        <5>2. CASE j = m + 1
          <6>1. amount[j] <= amount[i] /\ amount[i] \in Nat /\ amount[j] \in Nat
            BY <5>2, <3>2
          <6>2. i <= j
            BY <5>2, <3>1, <2>0 DEF Best
          <6>. QED BY <6>1, <6>2
        <5>. QED BY <5>1, <5>2, <4>1, <2>0
      <4>. QED BY <4>1, <3>1, <2>0 DEF Best
    <3>. QED BY <3>3
  <2>3. CASE /\ ~Positive(m)
             /\ ~(m + 1 \in DOMAIN amount /\ amount[m + 1] > 0
                  /\ \A j \in DOMAIN amount : j <= m => amount[j] < amount[m + 1])
    <3>1. m + 1 \in DOMAIN amount /\ amount[m + 1] > 0
      BY <2>3, <2>0
    <3>2. ASSUME NEW j \in DOMAIN amount, j <= m PROVE amount[j] < amount[m + 1]
      <4>1. ~(amount[j] > 0)
        BY <2>3, <3>2
      <4>. QED BY <4>1, <3>1
    <3>. QED BY <2>3, <3>1, <3>2
  <2>. QED BY <2>1, <2>2, <2>3
<1>3. n \in S
  <2>. HIDE DEF S
  <2>. QED BY <1>1, <1>2, NatInd
<1>4. Positive(n)
  OBVIOUS
<1>. QED BY <1>3, <1>4

-----------------------------------------------------------------------------
(* What is left of an amount, after the slippage and after the fee.        *)
LEMMA GrossIs ==
    ASSUME NEW a \in Nat
    PROVE  GrossMinimum(a) \in Nat /\ GrossMinimum(a) <= a
<1>1. PICK s \in Nat : s = 100 - Slippage /\ s <= 100
  BY SlippageAssumption
<1>2. a * s \in Nat /\ a * s <= a * 100
  <2>1. \A x, y \in Nat : x * y \in Nat
    OBVIOUS
  <2>2. PICK d \in Nat : 100 = s + d
    <3>1. 100 - s \in Nat /\ 100 = s + (100 - s)
      BY <1>1
    <3>. QED BY <3>1
  <2>3. a * (s + d) = a * s + a * d
    OBVIOUS
  <2>. QED BY <2>1, <2>2, <2>3
<1>3. PICK p \in Nat : p = a * s
  BY <1>2
<1>4. p \div 100 \in Nat /\ p \div 100 <= a
  BY <1>2, <1>3
<1>. QED BY <1>1, <1>3, <1>4 DEF GrossMinimum

LEMMA NetIs ==
    ASSUME NEW a \in Nat
    PROVE  Net(a) \in Nat /\ (a > 0 => Net(a) > 0)
<1>1. PICK f \in Nat : f = FeeBips /\ f <= 100
  BY FeeAssumption
<1>2. a * f \in Nat /\ a * f <= a * 100
  <2>1. \A x, y \in Nat : x * y \in Nat
    OBVIOUS
  <2>2. PICK d \in Nat : 100 = f + d
    <3>1. 100 - f \in Nat /\ 100 = f + (100 - f)
      BY <1>1
    <3>. QED BY <3>1
  <2>3. a * (f + d) = a * f + a * d
    OBVIOUS
  <2>. QED BY <2>1, <2>2, <2>3
<1>3. PICK p \in Nat : p = a * f
  BY <1>2
<1>4. p \div 10000 \in Nat /\ p \div 10000 <= a /\ (a > 0 => p \div 10000 < a)
  BY <1>2, <1>3
<1>. QED BY <1>1, <1>3, <1>4 DEF Net

LEMMA NetGrows ==
    ASSUME NEW a \in Nat, NEW b \in Nat, a <= b
    PROVE  Net(a) <= Net(b)
<1>1. PICK f \in Nat : f = FeeBips /\ f <= 100
  BY FeeAssumption
<1>2. PICK d \in Nat : b = a + d
  <2>1. b - a \in Nat /\ b = a + (b - a)
    OBVIOUS
  <2>. QED BY <2>1
<1>3. a * f \in Nat /\ d * f \in Nat /\ d * f <= d * 100 /\ b * f = a * f + d * f
  <2>1. \A x, y \in Nat : x * y \in Nat
    OBVIOUS
  <2>2. PICK c \in Nat : 100 = f + c
    <3>1. 100 - f \in Nat /\ 100 = f + (100 - f)
      BY <1>1
    <3>. QED BY <3>1
  <2>3. d * (f + c) = d * f + d * c
    OBVIOUS
  <2>4. (a + d) * f = a * f + d * f
    OBVIOUS
  <2>. QED BY <1>2, <2>1, <2>2, <2>3, <2>4
<1>4. PICK p \in Nat, q \in Nat : p = a * f /\ q = d * f
  BY <1>3
<1>5. (p + q) \div 10000 <= p \div 10000 + d
  BY <1>3, <1>4
<1>6. Net(a) = a - p \div 10000 /\ Net(b) = b - (p + q) \div 10000
  BY <1>1, <1>3, <1>4 DEF Net
<1>7. p \div 10000 \in Nat /\ (p + q) \div 10000 \in Nat
  OBVIOUS
<1>. QED BY <1>2, <1>5, <1>6, <1>7

-----------------------------------------------------------------------------
(* Where a quote is: what it has asked for and what it has to go on with.  *)
Running == {"pools", "quoter", "finish"}

QuoteTypes ==
    /\ request \in Requests /\ ended \in BOOLEAN
    /\ phase \in Running \union {"returned"}
    /\ known \in [AllPools(request) -> {"none", "yes", "no", "err"}]
    /\ \A i \in DOMAIN quoted : quoted[i] \in Results
    /\ answer.kind \in {"none", "route", "empty", "error"}

(* The candidates that are quoted are complete, all calls are over before  *)
(* the choice, and the choice is the best.                                 *)
ChoiceInv ==
    /\ DOMAIN quoted \subseteq Viable
    /\ phase = "pools" => DOMAIN quoted = {}
    /\ phase = "quoter" => DOMAIN quoted # {}
    /\ phase \in {"finish", "returned"} =>
         \A i \in DOMAIN quoted : quoted[i].at \notin {"slot", "call"}
    /\ phase \in {"pools", "quoter"} => best = 0
    /\ phase = "finish" => best # 0
    /\ best # 0 => best \in DOMAIN quoted /\ IsBest(best)

(* What Quote returned it had a reason for.                                *)
ReturnInv ==
    /\ answer.kind = "none" <=> phase \in Running
    /\ answer.kind = "route" =>
         /\ ~ended /\ best # 0 /\ answer.index = best
         /\ 0 < answer.amountOutMin /\ answer.amountOutMin <= answer.amountOut
    /\ answer.kind = "empty" =>
         /\ \A i \in DOMAIN quoted : quoted[i].at = "reverted"
         /\ DOMAIN quoted = {} => \A p \in DOMAIN known : known[p] \in {"yes", "no"}
    /\ answer.kind = "error" =>
         \/ ended
         \/ \E p \in DOMAIN known : known[p] = "err"
         \/ \E i \in DOMAIN quoted : quoted[i].at = "failed"
         \/ best # 0 /\ GrossMinimum(Amount(best)) = 0

QuoteInv == QuoteTypes /\ ChoiceInv /\ ReturnInv

LEMMA CandidatesAre ==
    ASSUME QuoteTypes
    PROVE  Len(Candidates) \in Nat /\ DOMAIN Candidates = 1 .. Len(Candidates)
<1>1. PICK c : c = Candidates
  OBVIOUS
<1>2. PICK T : T = Seq(PoolSet(request[1], request[2]))
  OBVIOUS
<1>3. c \in Seq(T)
  BY <1>1, <1>2, RoutesAre DEF Candidates
<1>4. Len(c) \in Nat /\ DOMAIN c = 1 .. Len(c)
  BY <1>3
<1>. QED BY <1>1, <1>4

LEMMA ReturnSays == QuoteInv => RouteIsBest /\ NoRouteExplained
<1>. SUFFICES ASSUME QuoteInv PROVE RouteIsBest /\ NoRouteExplained
  OBVIOUS
<1>1. QuoteTypeOK
  <2>1. DOMAIN quoted \subseteq DOMAIN Candidates
    BY DEF QuoteInv, ChoiceInv, Viable
  <2>2. best \in 0 .. Len(Candidates)
    BY <2>1, CandidatesAre DEF QuoteInv, ChoiceInv
  <2>. QED BY <2>1, <2>2 DEF QuoteInv, QuoteTypes, QuoteTypeOK, Results, Running
<1>2. NoRouteExplained
  BY <1>1 DEF QuoteInv, ReturnInv, NoRouteExplained
<1>3. ASSUME answer.kind = "route" PROVE RouteIsBest
  <2>1. /\ ~ended /\ answer.index = best /\ best \in DOMAIN quoted /\ IsBest(best)
        /\ 0 < answer.amountOutMin /\ answer.amountOutMin <= answer.amountOut
    BY <1>3 DEF QuoteInv, ReturnInv, ChoiceInv
  <2>2. \A p \in PoolsOf(Candidates[best]) : known[p] = "yes"
    BY <2>1 DEF QuoteInv, ChoiceInv, Viable, PoolsExist
  <2>3. \A j \in DOMAIN quoted : quoted[j].at = "amount" =>
            \/ quoted[j].amount < quoted[best].amount
            \/ quoted[j].amount = quoted[best].amount /\ best <= j
    BY <2>1 DEF IsBest, Amount
  <2>. QED BY <2>1, <2>2, <2>3 DEF RouteIsBest
<1>. QED BY <1>2, <1>3 DEF RouteIsBest

LEMMA QuoteStarts == QuoteInit => QuoteInv
<1>. SUFFICES ASSUME QuoteInit PROVE QuoteInv
  OBVIOUS
<1>1. quoted = <<>> /\ DOMAIN quoted = {}
  BY DEF QuoteInit
<1>2. answer.kind = "none"
  BY DEF QuoteInit, NoAnswer
<1>3. QuoteTypes
  BY <1>1, <1>2 DEF QuoteInit, QuoteTypes, Running
<1>4. ChoiceInv
  BY <1>1 DEF QuoteInit, ChoiceInv
<1>5. ReturnInv
  BY <1>2 DEF QuoteInit, ReturnInv, Running
<1>. QED BY <1>3, <1>4, <1>5 DEF QuoteInv

(* The end of the context changes nothing but what Quote has to return.    *)
LEMMA EndContextStep == QuoteInv /\ EndContext => QuoteInv'
<1>. SUFFICES ASSUME QuoteInv, EndContext PROVE QuoteInv'
  OBVIOUS
<1>1. UNCHANGED <<request, phase, known, quoted, best, answer>> /\ ended' = TRUE /\ phase # "returned"
  BY DEF EndContext
<1>2. QuoteTypes'
  BY <1>1 DEF QuoteInv, QuoteTypes
<1>3. Viable' = Viable /\ \A i : IsBest(i)' <=> IsBest(i)
  BY <1>1 DEF Viable, Candidates, IsBest, Amount
<1>4. ChoiceInv'
  BY <1>1, <1>3 DEF QuoteInv, ChoiceInv
<1>5. answer.kind = "none" /\ phase \in Running
  BY <1>1 DEF QuoteInv, QuoteTypes, ReturnInv
<1>6. ReturnInv'
  BY <1>1, <1>5 DEF ReturnInv
<1>. QED BY <1>2, <1>4, <1>6 DEF QuoteInv

LEMMA PoolKnownStep ==
    ASSUME QuoteInv, NEW p \in DOMAIN known, PoolKnown(p)
    PROVE  QuoteInv'
<1>1. /\ phase = "pools" /\ DOMAIN quoted = {} /\ best = 0 /\ answer.kind = "none"
      /\ UNCHANGED <<request, ended, phase, quoted, best, answer>>
  BY DEF PoolKnown, QuoteInv, ChoiceInv, ReturnInv, Running
<1>2. known' \in [AllPools(request) -> {"none", "yes", "no", "err"}]
  BY DEF PoolKnown, QuoteInv, QuoteTypes
<1>3. AllPools(request)' = AllPools(request)
  BY <1>1 DEF AllPools
<1>4. QuoteTypes'
  BY <1>1, <1>2, <1>3 DEF QuoteInv, QuoteTypes
<1>5. ChoiceInv'
  BY <1>1 DEF ChoiceInv
<1>6. ReturnInv'
  BY <1>1 DEF ReturnInv, Running
<1>. QED BY <1>4, <1>5, <1>6 DEF QuoteInv

LEMMA PoolsResolvedStep == QuoteInv /\ PoolsResolved => QuoteInv'
<1>. SUFFICES ASSUME QuoteInv, PoolsResolved PROVE QuoteInv'
  OBVIOUS
<1>1. /\ phase = "pools" /\ DOMAIN quoted = {} /\ best = 0
      /\ UNCHANGED <<request, ended, known, best>>
      /\ \A p \in DOMAIN known : known[p] # "none"
  BY DEF PoolsResolved, QuoteInv, ChoiceInv
<1>2. Viable' = Viable
  BY <1>1 DEF Viable, Candidates
<1>3. AllPools(request)' = AllPools(request)
  BY <1>1 DEF AllPools
<1>4. CASE (ended \/ (Viable = {} /\ PoolError)) /\ Respond("error") /\ UNCHANGED quoted
  <2>1. phase' = "returned" /\ answer'.kind = "error" /\ DOMAIN quoted' = {} /\ best' = 0
    BY <1>1, <1>4 DEF Respond
  <2>2. QuoteTypes'
    BY <1>1, <1>3, <2>1 DEF QuoteInv, QuoteTypes
  <2>3. ChoiceInv'
    BY <2>1 DEF ChoiceInv
  <2>4. ReturnInv'
    BY <1>1, <1>4, <2>1 DEF ReturnInv, Running, PoolError
  <2>. QED BY <2>2, <2>3, <2>4 DEF QuoteInv
<1>5. CASE ~ended /\ Viable = {} /\ ~PoolError /\ Respond("empty") /\ UNCHANGED quoted
  <2>1. phase' = "returned" /\ answer'.kind = "empty" /\ DOMAIN quoted' = {} /\ best' = 0
    BY <1>1, <1>5 DEF Respond
  <2>2. QuoteTypes'
    BY <1>1, <1>3, <2>1 DEF QuoteInv, QuoteTypes
  <2>3. ChoiceInv'
    BY <2>1 DEF ChoiceInv
  <2>4. \A p \in DOMAIN known : known[p] \in {"yes", "no"}
    BY <1>1, <1>5 DEF PoolError, QuoteInv, QuoteTypes
  <2>5. ReturnInv'
    BY <1>1, <2>1, <2>4 DEF ReturnInv, Running
  <2>. QED BY <2>2, <2>3, <2>5 DEF QuoteInv
<1>6. CASE /\ ~ended /\ Viable # {}
           /\ phase' = "quoter" /\ quoted' = [i \in Viable |-> At("slot")] /\ UNCHANGED answer
  <2>1. phase' = "quoter" /\ DOMAIN quoted' = Viable /\ Viable # {} /\ best' = 0 /\ answer'.kind = "none"
    BY <1>1, <1>6 DEF QuoteInv, ReturnInv, Running
  <2>2. \A i \in DOMAIN quoted' : quoted'[i] \in Results
    BY <1>6 DEF Results
  <2>3. QuoteTypes'
    BY <1>1, <1>3, <2>1, <2>2 DEF QuoteInv, QuoteTypes, Running
  <2>4. ChoiceInv'
    BY <1>2, <2>1 DEF ChoiceInv
  <2>5. ReturnInv'
    BY <2>1 DEF ReturnInv, Running
  <2>. QED BY <2>3, <2>4, <2>5 DEF QuoteInv
<1>. QED BY <1>4, <1>5, <1>6 DEF PoolsResolved

(* The goroutine of one candidate.                                         *)
LEMMA CandidateStep ==
    ASSUME QuoteInv, NEW i \in DOMAIN quoted,
           TakeQuoterSlot(i) \/ MissQuoterSlot(i) \/ Quoted(i)
    PROVE  QuoteInv'
<1>1. /\ quoted[i].at \in {"slot", "call"}
      /\ UNCHANGED <<request, ended, phase, known, best, answer>>
  BY DEF TakeQuoterSlot, MissQuoterSlot, Quoted
<1>2. PICK r \in Results : quoted' = [quoted EXCEPT ![i] = r]
  BY DEF TakeQuoterSlot, MissQuoterSlot, Quoted, Results, Outcomes
<1>3. DOMAIN quoted' = DOMAIN quoted /\ \A j \in DOMAIN quoted : quoted'[j] \in Results
  BY <1>2 DEF QuoteInv, QuoteTypes
<1>4. phase = "quoter" /\ best = 0 /\ answer.kind = "none"
  BY <1>1 DEF QuoteInv, QuoteTypes, ChoiceInv, ReturnInv, Running
<1>5. Viable' = Viable /\ AllPools(request)' = AllPools(request)
  BY <1>1 DEF Viable, Candidates, AllPools
<1>6. QuoteTypes'
  BY <1>1, <1>3, <1>5 DEF QuoteInv, QuoteTypes
<1>7. ChoiceInv'
  BY <1>1, <1>3, <1>4, <1>5 DEF QuoteInv, ChoiceInv
<1>8. ReturnInv'
  BY <1>1, <1>4 DEF ReturnInv, Running
<1>. QED BY <1>6, <1>7, <1>8 DEF QuoteInv

(* If no candidate is the best then none has an amount.                    *)
LEMMA NoneIsBest ==
    ASSUME QuoteInv, \A i \in DOMAIN quoted : ~IsBest(i)
    PROVE  \A i \in DOMAIN quoted : quoted[i].at # "amount"
<1>. SUFFICES ASSUME NEW k \in DOMAIN quoted, quoted[k].at = "amount" PROVE FALSE
  OBVIOUS
<1>1. PICK n \in Nat : n = Len(Candidates)
  BY CandidatesAre DEF QuoteInv
<1>2. DOMAIN quoted \subseteq 1 .. n
  BY <1>1, CandidatesAre DEF QuoteInv, ChoiceInv, Viable
<1>3. PICK amount : amount = [i \in DOMAIN quoted |-> Amount(i)]
  OBVIOUS
<1>4. DOMAIN amount = DOMAIN quoted /\ \A i \in DOMAIN quoted : amount[i] = Amount(i) /\ amount[i] \in Nat
  BY <1>3, ResultIs DEF QuoteInv, QuoteTypes, Amount
<1>5. amount[k] > 0
  BY <1>4, ResultIs DEF QuoteInv, QuoteTypes, Amount
<1>6. PICK i \in DOMAIN amount : Best(amount, n, i)
  BY <1>2, <1>4, <1>5, BestExists
<1>7. \A j \in DOMAIN amount : j <= n
  BY <1>2, <1>4
<1>8. IsBest(i)
  BY <1>4, <1>6, <1>7 DEF IsBest, Best
<1>. QED BY <1>4, <1>8

LEMMA AllQuotedStep == QuoteInv /\ AllQuoted => QuoteInv'
<1>. SUFFICES ASSUME QuoteInv, AllQuoted PROVE QuoteInv'
  OBVIOUS
<1>1. /\ phase = "quoter" /\ DOMAIN quoted # {} /\ best = 0 /\ answer.kind = "none"
      /\ \A i \in DOMAIN quoted : quoted[i].at \notin {"slot", "call"}
      /\ UNCHANGED <<request, ended, known, quoted>>
  BY DEF AllQuoted, QuoteInv, ChoiceInv, ReturnInv, Running
<1>2. /\ Viable' = Viable /\ AllPools(request)' = AllPools(request)
      /\ \A i : IsBest(i)' <=> IsBest(i)
  BY <1>1 DEF Viable, Candidates, AllPools, IsBest, Amount
<1>3. CASE \E i \in DOMAIN quoted : IsBest(i) /\ best' = i /\ phase' = "finish" /\ UNCHANGED answer
  <2>1. PICK i \in DOMAIN quoted : IsBest(i) /\ best' = i /\ phase' = "finish" /\ answer' = answer
    BY <1>3
  <2>2. i # 0
    BY CandidatesAre DEF QuoteInv, ChoiceInv, Viable
  <2>3. QuoteTypes'
    BY <1>1, <1>2, <2>1 DEF QuoteInv, QuoteTypes, Running
  <2>4. ChoiceInv'
    BY <1>1, <1>2, <2>1, <2>2 DEF QuoteInv, ChoiceInv
  <2>5. ReturnInv'
    BY <1>1, <2>1 DEF ReturnInv, Running
  <2>. QED BY <2>3, <2>4, <2>5 DEF QuoteInv
<1>4. ASSUME NEW kind \in {"error", "empty"}, Respond(kind), UNCHANGED best,
             kind = "error" => ended \/ \E i \in DOMAIN quoted : quoted[i].at = "failed",
             kind = "empty" => \A i \in DOMAIN quoted : quoted[i].at = "reverted"
      PROVE  QuoteInv'
  <2>1. phase' = "returned" /\ answer'.kind = kind /\ best' = 0
    BY <1>1, <1>4 DEF Respond
  <2>2. QuoteTypes'
    BY <1>1, <1>2, <2>1 DEF QuoteInv, QuoteTypes
  <2>3. ChoiceInv'
    BY <1>1, <1>2, <2>1 DEF QuoteInv, ChoiceInv
  <2>4. ReturnInv'
    BY <1>1, <1>4, <2>1 DEF ReturnInv, Running
  <2>. QED BY <2>2, <2>3, <2>4 DEF QuoteInv
<1>5. CASE \A i \in DOMAIN quoted : ~IsBest(i) /\ Respond(IF InfrastructureError THEN "error" ELSE "empty")
           /\ UNCHANGED best
  <2>0. \A i \in DOMAIN quoted : ~IsBest(i)
    BY <1>5
  <2>1. Respond(IF InfrastructureError THEN "error" ELSE "empty") /\ UNCHANGED best
    BY <1>1, <1>5
  <2>2. CASE InfrastructureError
    BY <2>1, <2>2, <1>4 DEF InfrastructureError
  <2>3. CASE ~InfrastructureError
    <3>1. \A i \in DOMAIN quoted : quoted[i].at = "reverted"
      BY <1>1, <2>0, <2>3, NoneIsBest, ResultIs DEF InfrastructureError, QuoteInv, QuoteTypes
    <3>. QED BY <2>1, <2>3, <3>1, <1>4
  <2>. QED BY <2>2, <2>3
<1>6. CASE ended /\ Respond("error") /\ UNCHANGED best
  BY <1>6, <1>4
<1>. QED BY <1>1, <1>3, <1>5, <1>6 DEF AllQuoted

LEMMA FinishStep == QuoteInv /\ Finish => QuoteInv'
<1>. SUFFICES ASSUME QuoteInv, Finish PROVE QuoteInv'
  OBVIOUS
<1>1. /\ phase = "finish" /\ best # 0 /\ best \in DOMAIN quoted
      /\ UNCHANGED <<request, ended, known, quoted, best>>
  BY DEF Finish, QuoteInv, ChoiceInv
<1>2. /\ Viable' = Viable /\ AllPools(request)' = AllPools(request)
      /\ \A i : IsBest(i)' <=> IsBest(i)
  BY <1>1 DEF Viable, Candidates, AllPools, IsBest, Amount
<1>3. phase' = "returned" /\ answer'.kind \in {"route", "error"}
  BY DEF Finish, Respond
<1>4. QuoteTypes'
  BY <1>1, <1>2, <1>3 DEF QuoteInv, QuoteTypes
<1>5. ChoiceInv'
  BY <1>1, <1>2, <1>3 DEF QuoteInv, ChoiceInv
<1>6. PICK a \in Nat : a = Amount(best)
  BY <1>1, ResultIs DEF QuoteInv, QuoteTypes, Amount
<1>7. CASE MinimumPositive /\ Completed
  <2>1. /\ answer'.kind = "route" /\ answer'.index = best
        /\ answer'.amountOut = Net(a) /\ answer'.amountOutMin = Net(GrossMinimum(a))
    BY <1>6, <1>7 DEF Finish
  <2>2. Net(GrossMinimum(a)) > 0 /\ ~ended
    BY <1>6, <1>7 DEF MinimumPositive, Completed
  <2>3. Net(GrossMinimum(a)) <= Net(a)
    BY GrossIs, NetGrows
  <2>4. ReturnInv'
    BY <1>1, <1>3, <2>1, <2>2, <2>3 DEF ReturnInv, Running
  <2>. QED BY <1>4, <1>5, <2>4 DEF QuoteInv
<1>8. CASE ~(MinimumPositive /\ Completed)
  <2>1. answer'.kind = "error"
    BY <1>8 DEF Finish, Respond
  <2>2. ended \/ GrossMinimum(a) = 0
    <3>. SUFFICES ASSUME ~ended, GrossMinimum(a) # 0 PROVE FALSE
      OBVIOUS
    <3>1. GrossMinimum(a) \in Nat /\ GrossMinimum(a) > 0 /\ a > 0
      BY GrossIs
    <3>2. Net(a) > 0 /\ Net(GrossMinimum(a)) > 0
      BY <3>1, NetIs
    <3>. QED BY <1>6, <1>8, <3>1, <3>2 DEF MinimumPositive, Completed
  <2>3. Amount(best)' = a
    BY <1>1, <1>6 DEF Amount
  <2>4. ReturnInv'
    BY <1>1, <1>3, <2>1, <2>2, <2>3 DEF ReturnInv, Running
  <2>. QED BY <1>4, <1>5, <2>4 DEF QuoteInv
<1>. QED BY <1>7, <1>8

LEMMA QuoteStep == QuoteInv /\ [QuoteNext]_quoteVars => QuoteInv'
<1>. SUFFICES ASSUME QuoteInv, [QuoteNext]_quoteVars PROVE QuoteInv'
  OBVIOUS
<1>1. CASE UNCHANGED quoteVars
  <2>1. UNCHANGED <<request, ended, phase, known, quoted, best, answer>>
    BY <1>1 DEF quoteVars
  <2>2. /\ Viable' = Viable /\ \A i : IsBest(i)' <=> IsBest(i)
    BY <2>1 DEF Viable, Candidates, IsBest, Amount
  <2>3. QuoteTypes'
    BY <2>1 DEF QuoteInv, QuoteTypes, AllPools
  <2>4. ChoiceInv'
    BY <2>1, <2>2 DEF QuoteInv, ChoiceInv
  <2>5. ReturnInv'
    BY <2>1 DEF QuoteInv, ReturnInv, Amount
  <2>. QED BY <2>3, <2>4, <2>5 DEF QuoteInv
<1>. QED BY <1>1, EndContextStep, PoolKnownStep, PoolsResolvedStep, CandidateStep,
            AllQuotedStep, FinishStep DEF QuoteNext, Step

(* One quote, for any fee tiers and base tokens, amounts, slippage and fee,*)
(* whatever the node answers and in whatever order: the invariant.         *)
THEOREM QuoteKept == QuoteSpec => []QuoteInv
<1>. QED BY QuoteStarts, QuoteStep, PTL DEF QuoteSpec

(* Quote: the route that is returned has pools that exist, pays the most   *)
(* and comes first of those that do, with a minimum that is positive and   *)
(* not above its amount, and not after the end of the context.             *)
THEOREM ReturnsBest == QuoteSpec => []RouteIsBest
<1>1. QuoteInv => RouteIsBest
  BY ReturnSays
<1>. QED BY <1>1, QuoteKept, PTL

(* Quote: no route only if none of the candidates can be had, an error     *)
(* only if something failed or the amount is too small.                    *)
THEOREM ExplainsNoRoute == QuoteSpec => []NoRouteExplained
<1>1. QuoteInv => NoRouteExplained
  BY ReturnSays
<1>. QED BY <1>1, QuoteKept, PTL
=============================================================================
