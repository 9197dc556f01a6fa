------------------------ MODULE SharedClientsProofs -------------------------
(***************************************************************************)
(* Why the clients that goroutines share keep their promises, for any      *)
(* number of callers, checks and documents: first each of the three        *)
(* (Deployment, RouterCheck, Transport), then what SharedClients makes of  *)
(* them, which is the specification that the run checks.                   *)
(***************************************************************************)
EXTENDS SharedClients, FiniteSetTheorems, TLAPS

-----------------------------------------------------------------------------
(* What ensureDeployment guarantees for any number of callers and checks.  *)
(* The invariant relates the three places that hold a part of the verdict: *)
(* the flag, the lock and what each caller heard so far.                   *)

(* Whoever asks the node holds the lock, and has found the flag unset.     *)
LockInv ==
    /\ \A c \in Callers : Asking(c) => holder = c
    /\ deployChecked => \A c \in Callers : ~Asking(c)

(* The flag and every answer "right" are backed by the chain; the chain ID *)
(* was right for a caller that runs the checks.                            *)
TruthInv ==
    /\ deployChecked => \A f \in Facts : truth[f]
    /\ \A c \in Callers : \A f \in Facts : ans[c][f] = "right" => truth[f]
    /\ \A c \in Callers : pc[c] = "checks" => ans[c][ChainID] = "right"

Inv == TypeOK /\ LockInv /\ TruthInv /\ PassedMeansRight /\ OwnFailure

(* The initial states of the client satisfy the invariant.                 *)
LEMMA InitInv == Init => Inv
<1> SUFFICES ASSUME Init PROVE Inv
    OBVIOUS
<1>1. Unasked \in [Facts -> {"none", "right", "wrong", "err"}]
    BY DEF Unasked
<1>2. TypeOK
    BY <1>1 DEF Init, TypeOK
<1>3. \A c \in Callers : pc[c] = "off" /\ \A f \in Facts : ans[c][f] = "none"
    BY DEF Init, Unasked
<1>4. LockInv /\ TruthInv /\ PassedMeansRight /\ OwnFailure
    BY <1>3 DEF Init, LockInv, TruthInv, PassedMeansRight, OwnFailure, Asking
<1> QED BY <1>2, <1>4 DEF Inv

(* Every step of every caller preserves the invariant.                     *)
LEMMA NextInv == Inv /\ [Next]_vars => Inv'
<1> SUFFICES ASSUME Inv, [Next]_vars PROVE Inv'
    OBVIOUS
<1> USE FactsAssumption, NilAssumption
<1>1. ASSUME NEW c \in Callers, Call(c) PROVE Inv'
  <2>1. /\ Unasked \in [Facts -> {"none", "right", "wrong", "err"}]
        /\ \A f \in Facts : Unasked[f] = "none"
      BY DEF Unasked
  <2>2. TypeOK'
      BY <1>1, <2>1 DEF Inv, TypeOK, Call, Go
  <2>3. LockInv' /\ TruthInv' /\ PassedMeansRight' /\ OwnFailure'
      BY <1>1, <2>1 DEF Inv, TypeOK, LockInv, TruthInv, PassedMeansRight, OwnFailure,
                        Call, Go, Returned, Asking
  <2> QED BY <2>2, <2>3 DEF Inv
<1>2. ASSUME NEW c \in Callers, EndContext(c) PROVE Inv'
    BY <1>2 DEF Inv, TypeOK, LockInv, TruthInv, PassedMeansRight, OwnFailure,
                EndContext, Returned, Asking, Facts
<1>3. ASSUME NEW c \in Callers, ReadFlag(c) PROVE Inv'
    BY <1>3 DEF Inv, TypeOK, LockInv, TruthInv, PassedMeansRight, OwnFailure,
                ReadFlag, Go, Asking
<1>4. ASSUME NEW c \in Callers, Lock(c) PROVE Inv'
  <2>1. holder = Nil /\ pc[c] = "lock"
      BY <1>4 DEF Lock, CanLock
  <2>2. PICK to : /\ pc' = [pc EXCEPT ![c] = to]
                  /\ \/ deployChecked /\ to = "passed" /\ holder' = holder
                     \/ ~deployChecked /\ to = "chain" /\ holder' = c
      BY <1>4 DEF Lock, CheckedMeanwhile, Go
  <2>3. UNCHANGED <<truth, deployChecked, ended, ans>>
      BY <1>4 DEF Lock
  <2>4. TypeOK'
      BY <2>2, <2>3 DEF Inv, TypeOK
  <2>5. LockInv'
      BY <2>1, <2>2, <2>3 DEF Inv, TypeOK, LockInv, Asking
  <2>6. TruthInv'
      BY <2>2, <2>3 DEF Inv, TypeOK, TruthInv
  <2>7. PassedMeansRight'
      BY <2>2, <2>3 DEF Inv, TypeOK, TruthInv, PassedMeansRight
  <2>8. OwnFailure'
      BY <2>2, <2>3 DEF Inv, TypeOK, OwnFailure
  <2> QED BY <2>4, <2>5, <2>6, <2>7, <2>8 DEF Inv
<1>5. ASSUME NEW c \in Callers, ReadChainID(c) PROVE Inv'
  <2>1. PICK r \in Answers(c, ChainID) :
            /\ ans' = [ans EXCEPT ![c][ChainID] = r]
            /\ IF r = "right" THEN Go(c, "checks") /\ UNCHANGED holder
                              ELSE Return(c, "failed")
      BY <1>5 DEF ReadChainID
  <2>2. r \in {"right", "wrong", "err"} /\ (r = "right" => truth[ChainID])
      BY DEF Inv, TypeOK, Answers, Facts
  <2>3. TypeOK' /\ LockInv'
      BY <1>5, <2>1, <2>2
         DEF Inv, TypeOK, LockInv, ReadChainID, Go, Return, Asking, Facts
  <2>4. TruthInv'
      BY <1>5, <2>1, <2>2
         DEF Inv, TypeOK, LockInv, TruthInv, ReadChainID, Go, Return, Asking, Facts
  <2>5. PassedMeansRight' /\ OwnFailure'
      BY <1>5, <2>1, <2>2
         DEF Inv, TypeOK, PassedMeansRight, OwnFailure, ReadChainID, Go, Return, Facts
  <2> QED BY <2>3, <2>4, <2>5 DEF Inv
<1>6. ASSUME NEW c \in Callers, NEW f \in Checks, Check(c, f) PROVE Inv'
  <2>1. PICK r \in Answers(c, f) : ans' = [ans EXCEPT ![c][f] = r]
      BY <1>6 DEF Check
  <2>2. r \in {"right", "wrong", "err"} /\ (r = "right" => truth[f])
      BY DEF Inv, TypeOK, Answers, Facts
  <2>3. TypeOK' /\ LockInv'
      BY <1>6, <2>1, <2>2 DEF Inv, TypeOK, LockInv, Check, Asking, Facts
  <2>4. TruthInv'
      BY <1>6, <2>1, <2>2 DEF Inv, TypeOK, TruthInv, Check, Facts
  <2>5. PassedMeansRight' /\ OwnFailure'
      BY <1>6, <2>1, <2>2 DEF Inv, TypeOK, PassedMeansRight, OwnFailure, Check, Facts
  <2> QED BY <2>3, <2>4, <2>5 DEF Inv
<1>7. ASSUME NEW c \in Callers, Decide(c) PROVE Inv'
  <2>1. Verified(c) => \A f \in Facts : truth[f]
      BY <1>7 DEF Decide, Verified, Errors, Inv, TruthInv, Facts
  <2>2. ~Verified(c) => ended[c] \/ \E f \in Facts : ans[c][f] \in {"wrong", "err"}
      BY <1>7 DEF Decide, Verified, Errors, Inv, TypeOK, Facts
  <2>3. TypeOK' /\ LockInv'
      BY <1>7 DEF Inv, TypeOK, LockInv, Decide, Return, Go, Asking
  <2>4. TruthInv'
      BY <1>7, <2>1 DEF Inv, TypeOK, TruthInv, Decide, Return, Go, Asking
  <2>5. PassedMeansRight' /\ OwnFailure'
      BY <1>7, <2>1, <2>2
         DEF Inv, TypeOK, PassedMeansRight, OwnFailure, Decide, Return, Go
  <2> QED BY <2>3, <2>4, <2>5 DEF Inv
<1>8. CASE UNCHANGED vars
    BY <1>8 DEF vars, Inv, TypeOK, LockInv, TruthInv, PassedMeansRight, OwnFailure, Asking
<1> QED BY <1>1, <1>2, <1>3, <1>4, <1>5, <1>6, <1>7, <1>8 DEF Next, Step, Asks

THEOREM Invariance == Spec => []Inv
<1>1. Init => Inv BY InitInv
<1>2. Inv /\ [Next]_vars => Inv' BY NextInv
<1> QED BY <1>1, <1>2, PTL DEF Spec

(* Whichever way a caller is let pass, by its own calls, by the flag or by *)
(* the flag read again under the lock, the deployment is the configured    *)
(* one.                                                                    *)
THEOREM Sound == Spec => []PassedMeansRight
<1>1. Inv => PassedMeansRight BY DEF Inv
<1> QED BY <1>1, Invariance, PTL

(* One caller verifies at a time, and none after one succeeded.            *)
THEOREM Once == Spec => []OneVerification
<1>1. Inv => OneVerification BY DEF Inv, LockInv, OneVerification
<1> QED BY <1>1, Invariance, PTL

(* A caller fails for its own reason only.                                 *)
THEOREM FailsAlone == Spec => []OwnFailure
<1>1. Inv => OwnFailure BY DEF Inv
<1> QED BY <1>1, Invariance, PTL

-----------------------------------------------------------------------------
(* What the V2 client guarantees although nobody waits for the one that    *)
(* verifies, for any number of callers: a flag is set by a caller that     *)
(* holds the answers itself, and a caller is as far as the chain ID that   *)
(* it, or the one that set the flag, was given.                            *)

(* Each flag, answer and place in the code is backed by the chain.         *)
BackedInv ==
    /\ chainChecked => truth[ChainID]
    /\ deployChecked => \A f \in Facts : truth[f]
    /\ \A c \in Callers : \A f \in Facts : ans[c][f] = "right" => truth[f]
    /\ \A c \in Callers :
         pc[c] \in {"setChain", "receipt", "readRouter", "askRouter"} => truth[ChainID]
    /\ \A c \in Callers : pc[c] = "passed" => \A f \in Facts : truth[f]

RouterInv == RouterTypeOK /\ BackedInv /\ OwnFailure

(* The client is made with both flags unset.                               *)
LEMMA RouterInitInv == RouterInit => RouterInv
<1> SUFFICES ASSUME RouterInit PROVE RouterInv
    OBVIOUS
<1>1. Unasked \in [Facts -> {"none", "right", "wrong", "err"}]
    BY DEF Unasked
<1>2. RouterTypeOK
    BY <1>1 DEF RouterInit, Init, RouterTypeOK
<1>3. \A c \in Callers : pc[c] = "off" /\ \A f \in Facts : ans[c][f] = "none"
    BY DEF RouterInit, Init, Unasked
<1>4. BackedInv /\ OwnFailure
    BY <1>3 DEF RouterInit, Init, BackedInv, OwnFailure
<1> QED BY <1>2, <1>4 DEF RouterInv

(* Every step of every caller preserves the invariant.                     *)
LEMMA RouterNextInv == RouterInv /\ [RouterNext]_routerVars => RouterInv'
<1> SUFFICES ASSUME RouterInv, [RouterNext]_routerVars PROVE RouterInv'
    OBVIOUS
<1> USE FactsAssumption
<1>1. ASSUME NEW c \in Callers, RouterCall(c) PROVE RouterInv'
  <2>1. /\ Unasked \in [Facts -> {"none", "right", "wrong", "err"}]
        /\ \A f \in Facts : Unasked[f] = "none"
      BY DEF Unasked
  <2>2. RouterTypeOK'
      BY <1>1, <2>1 DEF RouterInv, RouterTypeOK, RouterCall, Go
  <2>3. BackedInv' /\ OwnFailure'
      BY <1>1, <2>1 DEF RouterInv, RouterTypeOK, BackedInv, OwnFailure, RouterCall, Go, Returned
  <2> QED BY <2>2, <2>3 DEF RouterInv
<1>2. ASSUME NEW c \in Callers, EndContext(c), UNCHANGED <<kind, chainChecked>> PROVE RouterInv'
    BY <1>2 DEF RouterInv, RouterTypeOK, BackedInv, OwnFailure, EndContext, Returned, Facts
<1>3. ASSUME NEW c \in Callers, ReadChainFlag(c) PROVE RouterInv'
    BY <1>3 DEF RouterInv, RouterTypeOK, BackedInv, OwnFailure, ReadChainFlag, AfterChain, Go
<1>4. ASSUME NEW c \in Callers, AskChain(c) PROVE RouterInv'
  <2>1. PICK r \in Answers(c, ChainID) :
            /\ ans' = [ans EXCEPT ![c][ChainID] = r]
            /\ Go(c, IF r = "right" THEN "setChain" ELSE "failed")
      BY <1>4 DEF AskChain
  <2>2. r \in {"right", "wrong", "err"} /\ (r = "right" => truth[ChainID])
      BY DEF RouterInv, RouterTypeOK, Answers, Facts
  <2>3. RouterTypeOK'
      BY <1>4, <2>1, <2>2 DEF RouterInv, RouterTypeOK, AskChain, Go, Facts
  <2>4. BackedInv'
      BY <1>4, <2>1, <2>2 DEF RouterInv, RouterTypeOK, BackedInv, AskChain, Go, Facts
  <2>5. OwnFailure'
      BY <1>4, <2>1, <2>2 DEF RouterInv, RouterTypeOK, OwnFailure, AskChain, Go, Facts
  <2> QED BY <2>3, <2>4, <2>5 DEF RouterInv
<1>5. ASSUME NEW c \in Callers, SetChainFlag(c) PROVE RouterInv'
    BY <1>5 DEF RouterInv, RouterTypeOK, BackedInv, OwnFailure, SetChainFlag, AfterChain, Go
<1>6. ASSUME NEW c \in Callers, ReadReceipt(c) PROVE RouterInv'
    BY <1>6 DEF RouterInv, RouterTypeOK, BackedInv, OwnFailure, ReadReceipt, Go
<1>7. ASSUME NEW c \in Callers, ReadRouterFlag(c) PROVE RouterInv'
    BY <1>7 DEF RouterInv, RouterTypeOK, BackedInv, OwnFailure, ReadRouterFlag, Go
<1>8. ASSUME NEW c \in Callers, NEW f \in Checks, AskRouter(c, f) PROVE RouterInv'
  <2>1. PICK r \in Answers(c, f) :
            /\ ans' = [ans EXCEPT ![c][f] = r]
            /\ IF r = "right" THEN UNCHANGED pc ELSE Go(c, "failed")
      BY <1>8 DEF AskRouter
  <2>2. r \in {"right", "wrong", "err"} /\ (r = "right" => truth[f])
      BY DEF RouterInv, RouterTypeOK, Answers, Facts
  <2>3. RouterTypeOK'
      BY <1>8, <2>1, <2>2 DEF RouterInv, RouterTypeOK, AskRouter, Go, Facts
  <2>4. BackedInv'
      BY <1>8, <2>1, <2>2 DEF RouterInv, RouterTypeOK, BackedInv, AskRouter, Go, Facts
  <2>5. OwnFailure'
      BY <1>8, <2>1, <2>2 DEF RouterInv, RouterTypeOK, OwnFailure, AskRouter, Go, Facts
  <2> QED BY <2>3, <2>4, <2>5 DEF RouterInv
<1>9. ASSUME NEW c \in Callers, SetRouterFlag(c) PROVE RouterInv'
  <2>1. \A f \in Facts : truth[f]
      BY <1>9 DEF SetRouterFlag, RouterRight, RouterInv, BackedInv, Facts
  <2> QED BY <1>9, <2>1 DEF RouterInv, RouterTypeOK, BackedInv, OwnFailure, SetRouterFlag, Go
<1>10. CASE UNCHANGED routerVars
    BY <1>10 DEF routerVars, vars, RouterInv, RouterTypeOK, BackedInv, OwnFailure
<1> QED BY <1>1, <1>2, <1>3, <1>4, <1>5, <1>6, <1>7, <1>8, <1>9, <1>10 DEF RouterNext, RouterStep

(* What the callers of the V2 client are told and where they are is backed *)
(* by the chain, at every moment (ensureChainID, ensureDeployment).        *)
THEOREM RouterInvariance == RouterSpec => []RouterInv
<1>1. RouterInit => RouterInv BY RouterInitInv
<1>2. RouterInv /\ [RouterNext]_routerVars => RouterInv' BY RouterNextInv
<1> QED BY <1>1, <1>2, PTL DEF RouterSpec

(* However many callers verify at once, no quote reaches its pairs on a    *)
(* router, and no status its receipt on a chain, that is not the           *)
(* configured one.                                                         *)
THEOREM RouterSound == RouterSpec => []RouterTrusted
<1>1. RouterInv => RouterTrusted BY DEF RouterInv, BackedInv, RouterTrusted
<1> QED BY <1>1, RouterInvariance, PTL

(* A caller of the V2 client fails for its own reason only, although it    *)
(* shares both flags with the others.                                      *)
THEOREM RouterFailsAlone == RouterSpec => []OwnFailure
<1>1. RouterInv => OwnFailure BY DEF RouterInv
<1> QED BY <1>1, RouterInvariance, PTL

-----------------------------------------------------------------------------
(* Why an answer belongs to the request of its caller, for any number of   *)
(* callers, documents and tokens: what is known of a request at each step  *)
(* of its caller, and that the IDs of two requests in flight differ.       *)

(* Where a caller is; Out: its URL is built.                               *)
Steps == {"off", "setBase", "build", "number", "wait", "do", "read"}
Out   == {"wait", "do", "read"}

Outcomes == Statuses \union
    {"none", "value", "blank", "rpcError", "other", "deadline", "limiter", "tooLarge"}

RequestType ==
    [doc : Docs \union {Nil}, url : Docs \union {Nil}, id : Nat, sent : BOOLEAN,
     size : Nat, crossed : BOOLEAN, got : Outcomes, from : Docs \union {Nil}]

(* The document is the one asked for, or the base URL was set meanwhile.   *)
Own(d, q) == d = q.doc \/ (user = "ton" /\ q.crossed)

(* What may be told to a caller of its request.                            *)
Honest(q) ==
    /\ q.got \in {"value", "rpcError"} => Own(q.from, q) /\ q.size <= MaxBytes
    /\ q.got = "limiter" => ~q.sent
    /\ q.got \in Statuses \union {"value", "blank", "rpcError"} => q.sent
    /\ q.got = "tooLarge" => q.size > MaxBytes

(* What is known of the request of a caller at a step.                     *)
Known(at, q) ==
    /\ at \notin Out => q.id = 0
    /\ at \in Out /\ user = "rpc" => q.id # 0
    /\ at = "number" => user = "rpc"
    /\ at \in {"setBase", "build"} => user # "rpc"
    /\ at = "build" /\ user = "ton" => Own(base, q)
    /\ at \in Out => Own(q.url, q)
    /\ at \notin {"off", "read"} => ~q.sent
    /\ at = "read" => q.sent
    /\ at = "off" => Honest(q)

(* The range of each variable.                                             *)
Types ==
    /\ user \in {"rest", "ton", "rpc"}
    /\ base \in Docs \union {Nil} /\ tokens \in 0 .. Burst
    /\ pc \in [Callers -> Steps] /\ req \in [Callers -> RequestType]

(* No two requests carry the same ID, but for 0, which none in flight has. *)
IdsDiffer == \A c, d \in Callers : c # d => req[c].id = 0 \/ req[c].id # req[d].id

TransportInv == Types /\ IdsDiffer /\ \A c \in Callers : Known(pc[c], req[c])

-----------------------------------------------------------------------------
(* Only an ID that no other request carries is given to a request.         *)
LEMMA FreshExists ==
    ASSUME TransportInv, NEW c \in Callers, pc[c] = "number"
    PROVE  FreshID \in Nat \ {0} /\ \A d \in Callers : d # c => req[d].id # FreshID
<1>. DEFINE N == Cardinality(Callers)
            rest == Callers \ {c}
<1>1. N \in Nat /\ IsFiniteSet(rest) /\ Cardinality(rest) = N - 1 /\ IsFiniteSet(1 .. N)
  <2>1. IsFiniteSet(Callers)
    BY TransportAssumption
  <2>2. N \in Nat
    BY <2>1, FS_CardinalityType
  <2>3. IsFiniteSet(rest) /\ Cardinality(rest) = N - 1
    BY <2>1, FS_RemoveElement
  <2>4. IsFiniteSet(1 .. N)
    BY <2>2, FS_Interval
  <2>. QED BY <2>2, <2>3, <2>4
<1>2. Cardinality(1 .. N) = N
  BY <1>1, FS_Interval
<1>3. req[c].id = 0 /\ \A d \in Callers : Returned(d) => req[d].id = 0
  BY DEF TransportInv, Known, Types, Steps, Returned, Out
<1>. HIDE DEF N
<1>4. \E i \in 1 .. N : i \notin InFlight
  <2>. SUFFICES ASSUME \A i \in 1 .. N : i \in InFlight PROVE FALSE
    OBVIOUS
  <2>1. \A i \in 1 .. N : \E d \in rest : req[d].id = i
    <3>. TAKE i \in 1 .. N
    <3>1. PICK d \in Callers : req[d].id = i
      BY DEF InFlight
    <3>2. d # c
      BY <1>1, <1>3, <3>1
    <3>. QED BY <3>1, <3>2
  <2>. DEFINE g == [i \in 1 .. N |-> CHOOSE d \in rest : req[d].id = i]
  <2>2. g \in [1 .. N -> rest] /\ \A i \in 1 .. N : req[g[i]].id = i
    BY <2>1
  <2>. HIDE DEF g, rest
  <2>3. Cardinality(rest) < Cardinality(1 .. N)
    BY <1>1, <1>2
  <2>4. \E x, y \in 1 .. N : x # y /\ g[x] = g[y]
    BY <1>1, <2>2, <2>3, FS_PigeonHole
  <2>. QED BY <2>2, <2>4
<1>5. FreshID \in 1 .. N /\ FreshID \notin InFlight
  BY <1>4 DEF FreshID, N
<1>6. \A d \in Callers : req[d].id # FreshID
  <2>. TAKE d \in Callers
  <2>1. CASE Returned(d)
    BY <1>1, <1>3, <1>5, <2>1
  <2>2. CASE ~Returned(d)
    BY <1>5, <2>2 DEF InFlight
  <2>. QED BY <2>1, <2>2
<1>. QED BY <1>1, <1>5, <1>6

(* A caller that goes on with what is known keeps the invariant: nobody    *)
(* else's request changes.                                                 *)
LEMMA OneGoes ==
    ASSUME TransportInv, NEW c \in Callers, NEW at \in Steps, NEW q \in RequestType,
           Go(c, at), req' = [req EXCEPT ![c] = q], UNCHANGED <<user, base>>,
           tokens' \in 0 .. Burst, Known(at, q),
           q.id = 0 \/ \A d \in Callers : d # c => req[d].id # q.id
    PROVE  TransportInv'
<1>1. pc' = [pc EXCEPT ![c] = at]
  BY DEF Go
<1>2. /\ pc'[c] = at /\ req'[c] = q
      /\ \A d \in Callers : d # c => pc'[d] = pc[d] /\ req'[d] = req[d]
  BY <1>1 DEF TransportInv, Types
<1>3. Types'
  BY <1>1 DEF TransportInv, Types
<1>4. IdsDiffer'
  BY <1>2 DEF TransportInv, IdsDiffer
<1>5. \A d \in Callers : Known(pc[d], req[d])'
  <2>. TAKE d \in Callers
  <2>1. Known(pc'[d], req'[d])
    BY <1>2 DEF TransportInv
  <2>. QED BY <2>1 DEF Known, Own, Honest
<1>. QED BY <1>3, <1>4, <1>5 DEF TransportInv

(* A call that ends with what may be told.                                 *)
LEMMA OneEnds ==
    ASSUME TransportInv, NEW c \in Callers, NEW q \in RequestType, Finish(c, q), Honest(q),
           UNCHANGED <<user, base>>, tokens' = tokens
    PROVE  TransportInv'
<1>. DEFINE r == [q EXCEPT !.url = Nil, !.id = 0]
<1>1. r \in RequestType
  BY DEF RequestType
<1>2. /\ r.id = 0 /\ r.got = q.got /\ r.doc = q.doc /\ r.from = q.from /\ r.sent = q.sent
      /\ r.size = q.size /\ r.crossed = q.crossed
  BY DEF RequestType
<1>3. Go(c, "off") /\ req' = [req EXCEPT ![c] = r]
  BY DEF Finish
<1>. HIDE DEF r
<1>4. Known("off", r)
  BY <1>2 DEF Known, Honest, Own, Out
<1>5. "off" \in Steps /\ tokens' \in 0 .. Burst
  BY DEF Steps, TransportInv, Types
<1>. QED BY <1>1, <1>2, <1>3, <1>4, <1>5, OneGoes

(* What a request is when something came of it.                            *)
LEMMA GotIs ==
    ASSUME TransportInv, NEW c \in Callers, NEW o \in Outcomes
    PROVE  /\ Got(c, o) \in RequestType
           /\ Got(c, o).got = o /\ Got(c, o).doc = req[c].doc /\ Got(c, o).url = req[c].url
           /\ Got(c, o).id = req[c].id /\ Got(c, o).sent = req[c].sent
           /\ Got(c, o).size = req[c].size /\ Got(c, o).crossed = req[c].crossed
           /\ Got(c, o).from = req[c].from
<1>1. req[c] \in RequestType
  BY DEF TransportInv, Types
<1>. QED BY <1>1 DEF Got, RequestType

-----------------------------------------------------------------------------
(* Nothing has been asked for at first.                                    *)
LEMMA TransportInit == Init /\ HttpInit => TransportInv
<1>. SUFFICES ASSUME Init, HttpInit PROVE TransportInv
  OBVIOUS
<1>1. Request(Nil) \in RequestType
  BY DEF Request, RequestType, Outcomes
<1>2. Types
  BY <1>1, TransportAssumption DEF Init, HttpInit, Types, Steps
<1>3. \A c \in Callers : req[c] = Request(Nil) /\ pc[c] = "off"
  BY DEF Init, HttpInit
<1>4. Request(Nil).id = 0 /\ Request(Nil).got = "none"
  BY DEF Request
<1>5. Honest(Request(Nil))
  BY <1>4 DEF Honest, Statuses
<1>6. \A c \in Callers : Known(pc[c], req[c])
  BY <1>3, <1>4, <1>5 DEF Known, Out
<1>. QED BY <1>2, <1>3, <1>4, <1>6 DEF TransportInv, IdsDiffer

(* One lemma for each step of a caller: HttpCall,                          *)
LEMMA CallStep ==
    ASSUME TransportInv, NEW c \in Callers, HttpCall(c) PROVE TransportInv'
<1>1. PICK d \in Docs \union {Nil} : req' = [req EXCEPT ![c] = Request(d)]
  BY DEF HttpCall
<1>. DEFINE q == Request(d)
            at == CASE user = "rest" -> "build" [] user = "ton" -> "setBase" [] user = "rpc" -> "number"
<1>2. q \in RequestType /\ q.id = 0 /\ ~q.sent
  BY DEF Request, RequestType, Outcomes
<1>3. /\ Go(c, at) /\ UNCHANGED <<user, base>> /\ tokens' = tokens
      /\ tokens' \in 0 .. Burst
  BY DEF HttpCall, TransportInv, Types
<1>4. at \in Steps /\ Known(at, q)
  BY <1>2 DEF TransportInv, Types, Steps, Known, Out
<1>. HIDE DEF q, at
<1>. QED BY <1>1, <1>2, <1>3, <1>4, OneGoes DEF q

(* Whoever has set the base URL finds it, or is told to have been crossed. *)
LEMMA SetBaseStep ==
    ASSUME TransportInv, NEW c \in Callers, SetBaseUrl(c) PROVE TransportInv'
<1>. DEFINE Crossed(d) == [req[d] EXCEPT !.crossed = d # c /\ (req[d].crossed \/ pc[d] = "build")]
<1>1. /\ pc[c] = "setBase" /\ base' = req[c].doc /\ pc' = [pc EXCEPT ![c] = "build"]
      /\ req' = [d \in Callers |-> Crossed(d)] /\ UNCHANGED <<user, tokens>>
  BY DEF SetBaseUrl, Go
<1>2. \A d \in Callers :
        /\ Crossed(d) \in RequestType
        /\ Crossed(d).crossed = (d # c /\ (req[d].crossed \/ pc[d] = "build"))
        /\ Crossed(d).id = req[d].id /\ Crossed(d).got = req[d].got /\ Crossed(d).doc = req[d].doc
        /\ Crossed(d).url = req[d].url /\ Crossed(d).from = req[d].from
        /\ Crossed(d).sent = req[d].sent /\ Crossed(d).size = req[d].size
  <2>. TAKE d \in Callers
  <2>1. req[d] \in RequestType
    BY DEF TransportInv, Types
  <2>. QED BY <2>1 DEF RequestType
<1>. HIDE DEF Crossed
<1>3. \A d \in Callers : req'[d] = Crossed(d)
  BY <1>1
<1>4. Types'
  <2>1. base' \in Docs \union {Nil}
    BY <1>1 DEF TransportInv, Types, RequestType
  <2>2. req' \in [Callers -> RequestType]
    BY <1>1, <1>2
  <2>. QED BY <1>1, <2>1, <2>2 DEF TransportInv, Types, Steps
<1>5. IdsDiffer'
  BY <1>2, <1>3 DEF TransportInv, IdsDiffer
<1>6. ASSUME NEW d \in Callers PROVE Known(pc[d], req[d])'
  <2>1. Known(pc[d], req[d]) /\ Known("setBase", req[c])
    BY <1>1 DEF TransportInv
  <2>2. CASE d = c
    <3>1. pc'[d] = "build" /\ req'[d].doc = base' /\ ~req'[d].sent /\ req'[d].id = 0 /\ user' = user
          /\ user # "rpc"
      BY <1>1, <1>2, <1>3, <2>1, <2>2 DEF TransportInv, Types, Known, Out
    <3>. QED BY <3>1 DEF Known, Own, Out
  <2>3. CASE d # c
    <3>1. pc'[d] = pc[d] /\ user' = user
      BY <1>1, <2>3 DEF TransportInv, Types
    <3>2. /\ req'[d].crossed = (req[d].crossed \/ pc[d] = "build")
          /\ req'[d].id = req[d].id /\ req'[d].got = req[d].got /\ req'[d].doc = req[d].doc
          /\ req'[d].url = req[d].url /\ req'[d].from = req[d].from
          /\ req'[d].sent = req[d].sent /\ req'[d].size = req[d].size
      BY <1>2, <1>3, <2>3
    <3>. QED BY <2>1, <3>1, <3>2 DEF Known, Own, Honest, Out
  <2>. QED BY <2>2, <2>3
<1>. QED BY <1>4, <1>5, <1>6 DEF TransportInv

(* BuildURL, with the base URL as the caller finds it,                     *)
LEMMA BuildStep ==
    ASSUME TransportInv, NEW c \in Callers, BuildURL(c) PROVE TransportInv'
<1>1. pc[c] = "build" /\ Known("build", req[c]) /\ req[c] \in RequestType
  BY DEF BuildURL, TransportInv, Types
<1>2. UNCHANGED <<user, base>> /\ tokens' = tokens /\ tokens' \in 0 .. Burst
  BY DEF BuildURL, TransportInv, Types
<1>3. CASE Finish(c, Got(c, "other"))
  <2>1. "other" \in Outcomes
    BY DEF Outcomes
  <2>2. Honest(Got(c, "other"))
    BY <2>1, GotIs DEF Honest, Statuses
  <2>. QED BY <1>2, <1>3, <2>1, <2>2, GotIs, OneEnds
<1>4. CASE Target(c) # Nil /\ req' = [req EXCEPT ![c].url = Target(c)] /\ Go(c, "wait")
  <2>. DEFINE q == [req[c] EXCEPT !.url = Target(c)]
  <2>1. Target(c) \in Docs \union {Nil} /\ Own(Target(c), req[c])
    BY <1>1 DEF Target, Own, Known, TransportInv, Types, RequestType
  <2>2. /\ q \in RequestType /\ q.url = Target(c) /\ q.doc = req[c].doc /\ q.id = req[c].id
        /\ q.crossed = req[c].crossed /\ q.sent = req[c].sent
    BY <1>1, <2>1 DEF RequestType
  <2>3. req' = [req EXCEPT ![c] = q]
    BY <1>4
  <2>. HIDE DEF q
  <2>4. Known("wait", q) /\ "wait" \in Steps /\ q.id = 0
    BY <1>1, <2>1, <2>2 DEF Known, Own, Out, Steps
  <2>. QED BY <1>2, <1>4, <2>2, <2>3, <2>4, OneGoes
<1>. QED BY <1>3, <1>4 DEF BuildURL

(* Number, with an ID of its own,                                          *)
LEMMA NumberStep ==
    ASSUME TransportInv, NEW c \in Callers, Number(c) PROVE TransportInv'
<1>1. pc[c] = "number" /\ Known("number", req[c]) /\ req[c] \in RequestType
  BY DEF Number, TransportInv, Types
<1>2. UNCHANGED <<user, base>> /\ tokens' = tokens /\ tokens' \in 0 .. Burst
  BY DEF Number, TransportInv, Types
<1>3. CASE Finish(c, Got(c, "other"))
  <2>1. "other" \in Outcomes
    BY DEF Outcomes
  <2>2. Honest(Got(c, "other"))
    BY <2>1, GotIs DEF Honest, Statuses
  <2>. QED BY <1>2, <1>3, <2>1, <2>2, GotIs, OneEnds
<1>4. CASE req' = [req EXCEPT ![c].id = FreshID, ![c].url = req[c].doc] /\ Go(c, "wait")
  <2>1. FreshID \in Nat \ {0} /\ \A d \in Callers : d # c => req[d].id # FreshID
    BY <1>1, FreshExists
  <2>. DEFINE q == [req[c] EXCEPT !.id = FreshID, !.url = req[c].doc]
  <2>2. /\ q \in RequestType /\ q.url = req[c].doc /\ q.doc = req[c].doc /\ q.id = FreshID
        /\ q.crossed = req[c].crossed /\ q.sent = req[c].sent
    <3>. HIDE DEF FreshID
    <3>. QED BY <1>1, <2>1 DEF RequestType
  <2>3. req' = [req EXCEPT ![c] = q]
    BY <1>4
  <2>. HIDE DEF q
  <2>4. Known("wait", q) /\ "wait" \in Steps
    BY <1>1, <2>1, <2>2 DEF Known, Own, Out, Steps
  <2>5. \A d \in Callers : d # c => req[d].id # q.id
    BY <2>1, <2>2
  <2>. QED BY <1>2, <1>4, <2>2, <2>3, <2>4, <2>5, OneGoes
<1>. QED BY <1>3, <1>4 DEF Number

(* the limiter, which refuses only what has not left,                      *)
LEMMA WaitStep ==
    ASSUME TransportInv, NEW c \in Callers, TakeToken(c) \/ MissToken(c) PROVE TransportInv'
<1>1. pc[c] = "wait" /\ Known("wait", req[c]) /\ req[c] \in RequestType
  BY DEF TakeToken, MissToken, TransportInv, Types
<1>2. UNCHANGED <<user, base>> /\ tokens \in 0 .. Burst
  BY DEF TakeToken, MissToken, TransportInv, Types
<1>3. CASE TakeToken(c)
  <2>1. Go(c, "do") /\ req' = [req EXCEPT ![c] = req[c]] /\ tokens' \in 0 .. Burst
    BY <1>2, <1>3, TransportAssumption DEF TakeToken, TransportInv, Types
  <2>2. Known("do", req[c]) /\ "do" \in Steps
    BY <1>1 DEF Known, Out, Steps
  <2>3. req[c].id = 0 \/ \A d \in Callers : d # c => req[d].id # req[c].id
    BY DEF TransportInv, IdsDiffer
  <2>. QED BY <1>1, <1>2, <2>1, <2>2, <2>3, OneGoes
<1>4. CASE MissToken(c)
  <2>1. PICK o \in {"deadline", "limiter"} : Finish(c, Got(c, o)) /\ tokens' = tokens
    BY <1>4 DEF MissToken
  <2>2. o \in Outcomes
    BY DEF Outcomes
  <2>3. ~req[c].sent
    BY <1>1 DEF Known
  <2>4. Honest(Got(c, o))
    BY <2>2, <2>3, GotIs DEF Honest, Statuses
  <2>. QED BY <1>2, <2>1, <2>2, <2>4, GotIs, OneEnds
<1>. QED BY <1>3, <1>4

(* the exchange with the server,                                           *)
LEMMA ExchangeStep ==
    ASSUME TransportInv, NEW c \in Callers, DoFails(c) \/ Respond(c) PROVE TransportInv'
<1>1. pc[c] = "do" /\ Known("do", req[c]) /\ req[c] \in RequestType
  BY DEF DoFails, Respond, TransportInv, Types
<1>2. UNCHANGED <<user, base>> /\ tokens' = tokens /\ tokens' \in 0 .. Burst
  BY DEF DoFails, Respond, TransportInv, Types
<1>3. CASE DoFails(c)
  <2>1. PICK o \in {"deadline", "other"}, out \in BOOLEAN : Finish(c, [Got(c, o) EXCEPT !.sent = out])
    BY <1>3 DEF DoFails
  <2>2. o \in Outcomes
    BY DEF Outcomes
  <2>. DEFINE q == [Got(c, o) EXCEPT !.sent = out]
  <2>3. q \in RequestType /\ q.got = o
    <3>1. Got(c, o) \in RequestType /\ Got(c, o).got = o
      BY <2>2, GotIs
    <3>. QED BY <3>1 DEF RequestType
  <2>4. Honest(q)
    BY <2>3 DEF Honest, Statuses
  <2>. QED BY <1>2, <2>1, <2>3, <2>4, OneEnds
<1>4. CASE Respond(c)
  <2>1. PICK s \in Statuses, n \in 0 .. MaxBytes + 1, declared \in BOOLEAN :
           LET r == IF s # "2xx" THEN s
                    ELSE IF declared /\ n > MaxBytes THEN "tooLarge" ELSE "none"
               q == [Got(c, r) EXCEPT !.sent = TRUE, !.size = n]
           IN  \/ r = "none" /\ Go(c, "read") /\ req' = [req EXCEPT ![c] = q]
               \/ r # "none" /\ Finish(c, q)
    BY <1>4 DEF Respond
  <2>. DEFINE r == IF s # "2xx" THEN s
                   ELSE IF declared /\ n > MaxBytes THEN "tooLarge" ELSE "none"
              q == [Got(c, r) EXCEPT !.sent = TRUE, !.size = n]
  <2>2. /\ r \in Outcomes /\ r \in (Statuses \ {"2xx"}) \union {"tooLarge", "none"}
        /\ r = "tooLarge" => n > MaxBytes
    BY DEF Outcomes, Statuses
  <2>3. \/ r = "none" /\ Go(c, "read") /\ req' = [req EXCEPT ![c] = q]
        \/ r # "none" /\ Finish(c, q)
    BY <2>1
  <2>. HIDE DEF r
  <2>4. n \in Nat
    BY TransportAssumption
  <2>5. /\ q \in RequestType /\ q.got = r /\ q.sent /\ q.size = n /\ q.url = req[c].url
        /\ q.doc = req[c].doc /\ q.id = req[c].id /\ q.crossed = req[c].crossed
    <3>1. /\ Got(c, r) \in RequestType /\ Got(c, r).got = r /\ Got(c, r).url = req[c].url
          /\ Got(c, r).doc = req[c].doc /\ Got(c, r).id = req[c].id
          /\ Got(c, r).crossed = req[c].crossed
      BY <2>2, GotIs
    <3>. QED BY <2>4, <3>1 DEF RequestType
  <2>. HIDE DEF q
  <2>6. CASE r = "none" /\ Go(c, "read") /\ req' = [req EXCEPT ![c] = q]
    <3>1. Known("read", q) /\ "read" \in Steps
      BY <1>1, <2>5 DEF Known, Own, Out, Steps
    <3>2. q.id = 0 \/ \A d \in Callers : d # c => req[d].id # q.id
      BY <2>5 DEF TransportInv, IdsDiffer
    <3>. QED BY <1>2, <2>5, <2>6, <3>1, <3>2, OneGoes
  <2>7. CASE r # "none" /\ Finish(c, q)
    <3>1. Honest(q)
      BY <2>2, <2>5, <2>7 DEF Honest, Statuses
    <3>. QED BY <1>2, <2>5, <2>7, <3>1, OneEnds
  <2>. QED BY <2>3, <2>6, <2>7
<1>. QED BY <1>3, <1>4

(* A reply that carries the ID of a request in flight is that of the only  *)
(* request with this ID.                                                   *)
LEMMA ReplyIsOwn ==
    ASSUME TransportInv, NEW c \in Callers, pc[c] = "read", user = "rpc",
           NEW d \in DocsOf(req[c].id)
    PROVE  d = req[c].doc
<1>1. req[c].id # 0
  BY DEF TransportInv, Known, Out
<1>2. PICK e \in Callers : d = req[e].doc /\ req[e].id = req[c].id
  BY <1>1 DEF DocsOf
<1>3. e = c
  BY <1>1, <1>2 DEF TransportInv, IdsDiffer
<1>. QED BY <1>2, <1>3

(* and the reply: under the limit, and with the ID of the request.         *)
LEMMA ReadStep ==
    ASSUME TransportInv, NEW c \in Callers, ReadFails(c) \/ Read(c) PROVE TransportInv'
<1>1. pc[c] = "read" /\ Known("read", req[c]) /\ req[c] \in RequestType
  BY DEF ReadFails, Read, TransportInv, Types
<1>2. UNCHANGED <<user, base>> /\ tokens' = tokens
  BY DEF ReadFails, Read
<1>3. ASSUME NEW o \in Outcomes, Finish(c, Got(c, o)),
             o \in {"deadline", "other", "blank"} \/ (o = "tooLarge" /\ req[c].size > MaxBytes)
      PROVE  TransportInv'
  <2>1. req[c].sent
    BY <1>1 DEF Known
  <2>2. Honest(Got(c, o))
    BY <1>3, <2>1, GotIs DEF Honest, Statuses
  <2>. QED BY <1>2, <1>3, <2>2, GotIs, OneEnds
<1>4. ASSUME NEW o \in {"value", "rpcError", "other"}, NEW d \in Docs \union {Nil},
             Finish(c, [Got(c, o) EXCEPT !.from = d]), req[c].size <= MaxBytes,
             o = "other" \/ Own(d, req[c])
      PROVE  TransportInv'
  <2>. DEFINE q == [Got(c, o) EXCEPT !.from = d]
  <2>1. o \in Outcomes /\ req[c].sent
    BY <1>1 DEF Outcomes, Known
  <2>2. /\ q \in RequestType /\ q.got = o /\ q.sent /\ q.size = req[c].size /\ q.from = d
        /\ q.doc = req[c].doc /\ q.crossed = req[c].crossed
    <3>1. /\ Got(c, o) \in RequestType /\ Got(c, o).got = o /\ Got(c, o).sent = req[c].sent
          /\ Got(c, o).doc = req[c].doc /\ Got(c, o).size = req[c].size
          /\ Got(c, o).crossed = req[c].crossed
      BY <2>1, GotIs
    <3>. QED BY <2>1, <3>1 DEF RequestType
  <2>3. Finish(c, q)
    BY <1>4
  <2>. HIDE DEF q
  <2>4. Honest(q)
    BY <1>4, <2>2 DEF Honest, Own, Statuses
  <2>. QED BY <1>2, <2>2, <2>3, <2>4, OneEnds
<1>5. CASE ReadFails(c)
  <2>1. PICK o \in {"deadline", "other"} : Finish(c, Got(c, o))
    BY <1>5 DEF ReadFails
  <2>. QED BY <1>3, <2>1 DEF Outcomes
<1>6. CASE Read(c)
  <2>1. /\ req[c].size \in Nat /\ MaxBytes \in Nat
        /\ BytesRead(req[c].size) > MaxBytes => req[c].size > MaxBytes
        /\ BytesRead(req[c].size) \in 1 .. MaxBytes => req[c].size <= MaxBytes
    BY <1>1, TransportAssumption DEF BytesRead, RequestType
  <2>. DEFINE n == BytesRead(req[c].size)
  <2>2. CASE n > MaxBytes /\ Finish(c, Got(c, "tooLarge"))
    BY <1>3, <2>1, <2>2 DEF Outcomes
  <2>3. CASE \E r \in {"blank", "other"} : Finish(c, Got(c, r))
    BY <1>3, <2>3 DEF Outcomes
  <2>4. CASE /\ n \in 1 .. MaxBytes /\ user # "rpc"
             /\ Finish(c, [Got(c, "value") EXCEPT !.from = req[c].url])
    <3>1. Own(req[c].url, req[c]) /\ req[c].url \in Docs \union {Nil}
      BY <1>1 DEF Known, Out, RequestType
    <3>. QED BY <1>4, <2>1, <2>4, <3>1
  <2>5. CASE /\ n \in 1 .. MaxBytes /\ user = "rpc"
             /\ \E id \in InFlight \union {0}, form \in {"result", "error", "malformed"} :
                  \E d \in DocsOf(id) :
                    Finish(c, [Got(c, RpcOutcome(c, id, form)) EXCEPT !.from = d])
    <3>1. PICK id \in InFlight \union {0}, form \in {"result", "error", "malformed"} :
             \E d \in DocsOf(id) : Finish(c, [Got(c, RpcOutcome(c, id, form)) EXCEPT !.from = d])
      BY <2>5
    <3>2. PICK d \in DocsOf(id) : Finish(c, [Got(c, RpcOutcome(c, id, form)) EXCEPT !.from = d])
      BY <3>1
    <3>. DEFINE o == RpcOutcome(c, id, form)
    <3>3. o \in {"value", "rpcError", "other"} /\ (o # "other" => id = req[c].id)
      BY DEF RpcOutcome, IdMatches
    <3>4. d \in Docs \union {Nil}
      BY DEF DocsOf, TransportInv, Types, RequestType
    <3>5. o = "other" \/ Own(d, req[c])
      BY <1>1, <2>5, <3>3, ReplyIsOwn DEF Own
    <3>6. req[c].size <= MaxBytes
      BY <2>1, <2>5
    <3>. HIDE DEF o
    <3>7. Finish(c, [Got(c, o) EXCEPT !.from = d])
      BY <3>2 DEF o
    <3>. QED BY <1>4, <3>3, <3>4, <3>5, <3>6, <3>7
  <2>6. Finish(c, Got(c, "other")) => TransportInv'
    BY <2>3
  <2>. QED BY <1>6, <2>2, <2>3, <2>4, <2>5, <2>6 DEF Read
<1>. QED BY <1>5, <1>6

(* Every step of every caller, the limiter and the contexts.               *)
LEMMA TransportNext == TransportInv /\ [HttpNext]_<<vars, httpVars>> => TransportInv'
<1>. SUFFICES ASSUME TransportInv, [HttpNext]_<<vars, httpVars>> PROVE TransportInv'
  OBVIOUS
<1>1. ASSUME NEW c \in Callers, HttpCall(c) PROVE TransportInv'
  BY <1>1, CallStep
<1>2. ASSUME NEW c \in Callers, HttpStep(c) PROVE TransportInv'
  BY <1>2, SetBaseStep, BuildStep, NumberStep, WaitStep, ExchangeStep, ReadStep DEF HttpStep
<1>3. CASE UNCHANGED <<pc, user, base, req>> /\ tokens' \in 0 .. Burst
  <2>1. Types' /\ IdsDiffer'
    BY <1>3 DEF TransportInv, Types, IdsDiffer
  <2>2. \A c \in Callers : Known(pc[c], req[c])'
    BY <1>3 DEF TransportInv, Known, Own, Honest
  <2>. QED BY <2>1, <2>2 DEF TransportInv
<1>4. ASSUME NEW c \in Callers, EndContext(c), UNCHANGED httpVars PROVE TransportInv'
  BY <1>3, <1>4 DEF EndContext, httpVars, TransportInv, Types
<1>5. CASE Refill
  BY <1>3, <1>5, TransportAssumption DEF Refill, TransportInv, Types
<1>6. CASE UNCHANGED <<vars, httpVars>>
  BY <1>3, <1>6 DEF vars, httpVars, TransportInv, Types
<1>. QED BY <1>1, <1>2, <1>4, <1>5, <1>6 DEF HttpNext

(* What is known of a request suffices for what is told to its caller.     *)
LEMMA HonestToOwn == TransportInv => AnswerIsOwn
<1>. SUFFICES ASSUME TransportInv PROVE AnswerIsOwn
  OBVIOUS
<1>1. HttpTypeOK
  BY DEF TransportInv, Types, IdsDiffer, HttpTypeOK
<1>2. ASSUME NEW c \in Callers, Told(c) PROVE Honest(req[c])
  <2>1. pc[c] = "off"
    BY <1>2 DEF Told, Returned, TransportInv, Types, Steps
  <2>. QED BY <2>1 DEF TransportInv, Known
<1>. QED BY <1>1, <1>2 DEF AnswerIsOwn, Honest, Own

(* However many callers share a client and its limiter, and whatever the   *)
(* server answers: an answer is that of the document asked for and within  *)
(* the limit, unless another getTokenInfo of TON set the base URL in       *)
(* between; and the errors say truly whether the request left.             *)
THEOREM OwnAnswer == TransportSpec => []AnswerIsOwn
<1>1. Init /\ HttpInit => TransportInv
  BY TransportInit
<1>2. TransportInv /\ [HttpNext]_<<vars, httpVars>> => TransportInv'
  BY TransportNext
<1>3. TransportInv => AnswerIsOwn
  BY HonestToOwn
<1>. QED BY <1>1, <1>2, <1>3, PTL DEF TransportSpec

-----------------------------------------------------------------------------
(* One client of a behaviour moves, the other two are as they were made.   *)
SharedInv ==
    /\ client \in {"v3", "v2", "http"}
    /\ client = "v3" => Inv /\ ~chainChecked
    /\ client = "v2" => RouterInv
    /\ client = "http" => TransportInv /\ ~deployChecked /\ ~chainChecked
    /\ client # "http" => \A c \in Callers : req[c].got = "none"

(* However the three kinds of client are shared.                           *)
LEMMA SharedInvariance == SharedSpec => []SharedInv
<1>1. SharedInit => SharedInv
  <2>. SUFFICES ASSUME SharedInit PROVE SharedInv
    OBVIOUS
  <2>1. Inv /\ RouterInv /\ TransportInv
    BY InitInv, RouterInitInv, TransportInit DEF SharedInit, RouterInit
  <2>2. \A c \in Callers : req[c].got = "none"
    BY DEF SharedInit, HttpInit, Request
  <2>. QED BY <2>1, <2>2 DEF SharedInit, SharedInv, RouterInit, Init
<1>2. SharedInv /\ [SharedNext]_sharedVars => SharedInv'
  <2>. SUFFICES ASSUME SharedInv, [SharedNext]_sharedVars PROVE SharedInv'
    OBVIOUS
  <2>1. CASE client = "v3" /\ client' = client /\ Next /\ UNCHANGED <<kind, chainChecked, httpVars>>
    <3>1. Inv'
      BY <2>1, NextInv DEF SharedInv
    <3>. QED BY <2>1, <3>1 DEF SharedInv, httpVars
  <2>2. CASE client = "v2" /\ client' = client /\ RouterNext /\ UNCHANGED httpVars
    <3>1. RouterInv'
      BY <2>2, RouterNextInv DEF SharedInv
    <3>. QED BY <2>2, <3>1 DEF SharedInv, httpVars
  <2>3. CASE client = "http" /\ client' = client /\ HttpNext /\ UNCHANGED <<kind, chainChecked>>
    <3>1. TransportInv'
      BY <2>3, TransportNext DEF SharedInv
    <3>2. deployChecked' = deployChecked
      BY <2>3 DEF HttpNext, HttpCall, HttpStep, SetBaseUrl, BuildURL, Number, TakeToken, MissToken,
                  DoFails, Respond, ReadFails, Read, EndContext, Refill, Served, vars
    <3>. QED BY <2>3, <3>1, <3>2 DEF SharedInv
  <2>4. CASE UNCHANGED sharedVars
    <3>1. UNCHANGED <<routerVars, vars, httpVars, client>>
      BY <2>4 DEF sharedVars, routerVars
    <3>2. UNCHANGED <<kind, chainChecked, deployChecked, req>>
      BY <3>1 DEF routerVars, vars, httpVars
    <3>3. client = "v3" => Inv'
      BY <3>1, NextInv DEF SharedInv
    <3>4. client = "v2" => RouterInv'
      BY <3>1, RouterNextInv DEF SharedInv
    <3>5. client = "http" => TransportInv'
      BY <3>1, TransportNext DEF SharedInv
    <3>. QED BY <3>1, <3>2, <3>3, <3>4, <3>5 DEF SharedInv
  <2>. QED BY <2>1, <2>2, <2>3, <2>4 DEF SharedNext
<1>. QED BY <1>1, <1>2, PTL DEF SharedSpec

(* Goroutines that share the V3 client, the V2 client or an HTTP client    *)
(* (ensureDeployment, ensureChainID, httpc.Request) are let pass, fail and *)
(* are answered for reasons of their own, in every behaviour of the        *)
(* composed specification.                                                 *)
THEOREM SharedSound ==
    SharedSpec => [](PassedMeansRight /\ OneVerification /\ OwnFailure /\ RouterTrusted /\ AnswerIsOwn)
<1>. DEFINE P == PassedMeansRight /\ OneVerification /\ OwnFailure /\ RouterTrusted /\ AnswerIsOwn
<1>1. SharedInv => P
  <2>. SUFFICES ASSUME SharedInv PROVE P
    OBVIOUS
  <2>1. client # "http" => AnswerIsOwn
    BY DEF SharedInv, AnswerIsOwn, Told
  <2>2. CASE client = "v3"
    <3>1. Inv /\ ~chainChecked
      BY <2>2 DEF SharedInv
    <3>2. PassedMeansRight /\ OneVerification /\ OwnFailure
      BY <3>1 DEF Inv, LockInv, OneVerification
    <3>3. RouterTrusted
      BY <3>1 DEF Inv, TypeOK, TruthInv, PassedMeansRight, RouterTrusted
    <3>. QED BY <2>1, <2>2, <3>2, <3>3
  <2>3. CASE client = "v2"
    <3>1. RouterInv
      BY <2>3 DEF SharedInv
    <3>2. PassedMeansRight /\ OneVerification /\ OwnFailure
      BY <3>1 DEF RouterInv, RouterTypeOK, BackedInv, PassedMeansRight, OneVerification, Asking
    <3>3. RouterTrusted
      BY <3>1 DEF RouterInv, BackedInv, RouterTrusted
    <3>. QED BY <2>1, <2>3, <3>2, <3>3
  <2>4. CASE client = "http"
    <3>1. TransportInv /\ ~deployChecked /\ ~chainChecked
      BY <2>4 DEF SharedInv
    <3>2. \A c \in Callers : pc[c] \in Steps
      BY <3>1 DEF TransportInv, Types
    <3>3. \A c \in Callers : pc[c] \notin {"chain", "checks", "passed", "failed", "receipt", "readRouter", "askRouter"}
      BY <3>2 DEF Steps
    <3>4. PassedMeansRight /\ OneVerification /\ OwnFailure /\ RouterTrusted
      BY <3>1, <3>3 DEF PassedMeansRight, OneVerification, OwnFailure, RouterTrusted, Asking
    <3>. QED BY <3>1, <3>4, HonestToOwn
  <2>. QED BY <2>2, <2>3, <2>4 DEF SharedInv
<1>. QED BY <1>1, SharedInvariance, PTL
=============================================================================
