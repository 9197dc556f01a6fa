---------------------------- MODULE PaymentProofs ----------------------------
(***************************************************************************)
(* Why the runs of a program do not pay twice, for any number of runs and  *)
(* endpoints.  What an endpoint shows as executed is what was executed at  *)
(* some moment (Snaps), and of two of these the one contains the other.    *)
(* A transaction built on one of them claims all that is free there        *)
(* (FullInv), so that two of them can only both be executed if the one is  *)
(* among what the other was built on.                                      *)
(***************************************************************************)
EXTENDS Payment, FiniteSetTheorems, TLAPS

(* What the executed transactions of the account were at some moment.      *)
Snaps ==
    {{}, Done(tx)} \union {Done(view[e]) : e \in Endpoints} \union {shown[p].done : p \in Runs}

(* The first nonce of the runs, the one after the set d, and the coins     *)
(* that are left by it, but for the gift.                                  *)
First0  == history + (IF chain = "near" THEN 1 ELSE 0)
Key(d)  == First0 + Cardinality(d)
Left(d) == ({Coin} \union d) \ Claims(d)

-----------------------------------------------------------------------------
(* Whether the read of the anchor is still ahead of the current run.       *)
Ahead    == pc = "read" /\ \E i \in 1 .. Len(Reads) : step <= i /\ Reads[i] = "anchor"
Fresh(p) == p > run \/ (p = run /\ Ahead)

Runners == {"idle", "read", "send", "answer", "poll"}

Types ==
    /\ chain \in Chains \ {"krc20"} /\ history \in {0, 1} /\ gift \in BOOLEAN
    /\ tx \in [Runs -> Views] /\ view \in [Endpoints -> [Runs -> Views]]
    /\ run \in 0 .. MaxRuns /\ pc \in Runners /\ step \in Nat
    /\ DOMAIN anchor = Runs /\ hash \in [Runs -> Runs]
    /\ outcome \in [Runs -> {"none", "unsent", "sent", "timeout", "succeeded", "failed"}]
    /\ shown \in [Runs -> [done : SUBSET Runs, pool : SUBSET Runs, now : BOOLEAN]]

(* Where the current run is, and that nobody knows of the next ones.       *)
RunInv ==
    /\ pc # "idle" => run \in Runs /\ outcome[run] = "none"
    /\ pc = "read" => step \in 1 .. Len(Reads)
    /\ pc = "poll" => Main(chain).polls # 0
    /\ \A p \in Runs : Fresh(p) =>
         /\ anchor[p] = {} /\ hash[p] = p /\ tx[p].phase = "unknown"
         /\ outcome[p] = "none" /\ shown[p] = Nothing
    /\ pc # "idle" /\ ~Ahead => anchor[run] # {}

(* A transaction that was sent claims something, and is one of the same    *)
(* claim for all the runs that built it.                                   *)
SentInv ==
    /\ \A p \in Runs : hash[p] <= p /\ anchor[hash[p]] = anchor[p]
    /\ \A p \in Runs : tx[p].phase # "unknown" => anchor[p] # {}
    /\ \A p \in Runs : tx[p].phase # "in" /\ (Included(tx[p]) /\ chain \in Infallible => tx[p].ok)
    /\ \A e \in Endpoints, p \in Runs : Included(view[e][p]) => view[e][p] = tx[p]

(* A run tells of the transaction what will always be so.                  *)
OutcomeInv ==
    chain # "algorand" => \A p \in Runs :
        /\ outcome[p] = "failed" => Included(tx[hash[p]]) /\ ~tx[hash[p]].ok
        /\ outcome[p] = "succeeded" => Included(tx[hash[p]]) /\ tx[hash[p]].ok

SnapInv ==
    /\ \A d \in Snaps : d \subseteq Done(tx)
    /\ \A d, e \in Snaps : d \subseteq e \/ e \subseteq d
    /\ chain \in Numbered => \A d \in Snaps : Claims(d) = First0 .. Key(d) - 1
    /\ chain \in Coined => \A d \in Snaps : Left(d) # {}
    /\ chain = "kaspa" /\ ~gift => \A d \in Snaps : \A x, y \in Left(d) : x = y

(* What was executed excludes each other.                                  *)
ExclInv ==
    chain \notin Referring =>
        \A p, q \in Done(tx) : p # q => anchor[p] \cap anchor[q] = {}

(* Chains and views of which the handler does not count the pool.          *)
Counted(p) == chain \notin PoolAware \/ shown[p].pool = {}

FullInv ==
    \A p \in Runs :
        /\ shown[p].done \subseteq 1 .. p - 1
        /\ shown[p].now => anchor[p] # {}
        /\ chain \in Numbered /\ anchor[p] # {} /\ Counted(p) =>
             \/ anchor[p] = {Key(shown[p].done)}
             \/ ~shown[p].now /\ anchor[p] = {First0 - 1}
        /\ chain \in Coined /\ anchor[p] # {} =>
             /\ anchor[p] \subseteq {Coin, Gift} \union shown[p].done
             /\ anchor[p] \cap Claims(shown[p].done) = {}
             /\ Counted(p) /\ ~(chain = "kaspa" /\ gift) => Left(shown[p].done) \subseteq anchor[p]

PayInv == Types /\ RunInv /\ SentInv /\ OutcomeInv /\ SnapInv /\ ExclInv /\ FullInv

-----------------------------------------------------------------------------
(* About the programs and sets of runs.                                    *)

(* Every program reads its anchor exactly once.                            *)
LEMMA ReadsAre ==
    ASSUME chain \in AllChains \ {"krc20"}
    PROVE  /\ Len(Reads) \in Nat \ {0}
           /\ \E i \in 1 .. Len(Reads) : \A j \in 1 .. Len(Reads) : Reads[j] = "anchor" <=> j = i
           /\ Main(chain).fallback =
                IF chain = "near" THEN {1} ELSE IF chain = "filecoin" THEN {0} ELSE {}
<1>1. CASE chain \in {"tron", "kaspa", "cosmos", "ton"}
  <2>1. Reads = <<"anchor">> /\ Main(chain).fallback = {}
    BY <1>1 DEF Reads, Main, Program, TronMain, KaspaMain, CosmosMain, TonMain
  <2> QED BY <1>1, <2>1
<1>2. CASE chain \in {"near", "sui", "stellar"}
  <2>1. CASE chain = "near"
    <3>1. Reads = <<"blockHash", "anchor">> /\ Main(chain).fallback = {1}
      BY <2>1 DEF Reads, Main, Program, NearMain
    <3> QED BY <2>1, <3>1
  <2>2. CASE chain = "sui"
    <3>1. Reads = <<"gasPrice", "anchor">> /\ Main(chain).fallback = {}
      BY <2>2 DEF Reads, Main, Program, SuiMain
    <3> QED BY <2>2, <3>1
  <2>3. CASE chain = "stellar"
    <3>1. Reads = <<"activated", "anchor">> /\ Main(chain).fallback = {}
      BY <2>3 DEF Reads, Main, Program, StellarMain
    <3> QED BY <2>3, <3>1
  <2> QED BY <1>2, <2>1, <2>2, <2>3
<1>3. CASE chain \in {"utxo", "solana", "algorand", "substrate", "filecoin", "multiversx", "starknet"}
  <2>1. /\ Reads[1] = "anchor" /\ Len(Reads) = 2 /\ Reads[2] # "anchor"
        /\ Main(chain).fallback = IF chain = "filecoin" THEN {0} ELSE {}
    BY <1>3 DEF Reads, Main, Program, UtxoMain, SolanaMain, AlgorandMain, SubstrateMain,
                FilecoinMain, MultiversxMain, StarknetMain
  <2> QED BY <1>3, <2>1
<1>4. CASE chain \in {"evm", "aptos"}
  <2>1. /\ Reads[1] = "anchor" /\ Len(Reads) = 3 /\ Reads[2] # "anchor" /\ Reads[3] # "anchor"
        /\ Main(chain).fallback = {}
    BY <1>4 DEF Reads, Main, Program, EvmMain, AptosMain
  <2> QED BY <1>4, <2>1
<1> QED BY <1>1, <1>2, <1>3, <1>4 DEF AllChains

LEMMA Families ==
    ASSUME chain \in AllChains \ {"krc20"}
    PROVE  /\ chain \in Numbered \/ chain \in Coined \/ chain \in Referring
           /\ chain \in Numbered => chain \notin Coined /\ chain \notin Referring
           /\ chain \in Coined => chain \notin Numbered /\ chain \notin Referring
BY DEF AllChains, Numbered, Coined, Referring

LEMMA RunsFinite ==
    /\ Runs \subseteq Nat /\ \A p \in Runs : p \in 1 .. MaxRuns
    /\ \A d : d \subseteq Runs => IsFiniteSet(d) /\ Cardinality(d) \in Nat
    /\ Cardinality({}) = 0
<1>1. IsFiniteSet(Runs) BY RunsAssumption, FS_Interval DEF Runs
<1>2. ASSUME NEW d, d \subseteq Runs PROVE IsFiniteSet(d) /\ Cardinality(d) \in Nat
  BY <1>1, <1>2, FS_Subset, FS_CardinalityType
<1> QED BY <1>2, FS_EmptySet, RunsAssumption DEF Runs

(* Nonces and coins do not change as long as what the runs in d claim does not.  *)
LEMMA Unmoved ==
    ASSUME UNCHANGED <<chain, history>>, NEW d, \A p \in d : anchor'[p] = anchor[p]
    PROVE  Claims(d)' = Claims(d) /\ Key(d)' = Key(d) /\ Left(d)' = Left(d) /\ First0' = First0
<1>1. Claims(d)' = Claims(d) BY DEF Claims
<1>2. First0' = First0 BY DEF First0
<1> QED BY <1>1, <1>2 DEF Key, Left, Coin

(* What an account is told of its next nonce where nothing waits.          *)
LEMMA EmptyPool ==
    ASSUME NEW v, Nonce(v) \in Nat, Pooled(v) = {}
    PROVE  PendingNonce(v) = Nonce(v)
<1>1. Claims(Pooled(v)) = {} BY DEF Claims
<1> DEFINE k == Nonce(v)
           Next1(n) == n \notin Claims(Pooled(v)) /\ \A m \in k .. n - 1 : m \in Claims(Pooled(v))
<1>2. k \in k .. k + MaxRuns /\ Next1(k) BY <1>1, RunsAssumption
<1>3. \A n \in k .. k + MaxRuns : Next1(n) => n = k
  <2> SUFFICES ASSUME NEW n \in k .. k + MaxRuns, Next1(n), n # k PROVE FALSE OBVIOUS
  <2>1. k \in k .. n - 1 BY RunsAssumption
  <2> QED BY <2>1, <1>1
<1>4. PendingNonce(v) = CHOOSE n \in k .. k + MaxRuns : Next1(n) BY DEF PendingNonce
<1> HIDE DEF k, Next1
<1> QED BY <1>2, <1>3, <1>4 DEF k

(* What a handler reads where the pool is empty, or does not matter to it: *)
(* the next nonce, or all the coins that are free.                         *)
LEMMA AnchorsAre ==
    ASSUME chain \in AllChains \ {"krc20"}, history \in {0, 1}, gift \in BOOLEAN,
           NEW v, Done(v) \subseteq Runs, NEW claims \in Anchors(chain, v)
    PROVE  /\ chain \in Numbered /\ (chain \notin PoolAware \/ Pooled(v) = {}) =>
                claims = {Key(Done(v))}
           /\ chain \in Coined =>
                /\ claims \subseteq {Coin, Gift} \union Done(v)
                /\ claims \cap Claims(Done(v)) = {}
                /\ claims # {} /\ (chain \notin PoolAware \/ Pooled(v) = {})
                     /\ (chain = "kaspa" => ~gift /\ \A x, y \in Left(Done(v)) : x = y) =>
                     Left(Done(v)) \subseteq claims
<1>1. Nonce(v) \in Nat BY RunsFinite DEF Nonce
<1>2. ASSUME chain \in Numbered, chain \notin PoolAware \/ Pooled(v) = {}
      PROVE  claims = {Key(Done(v))}
  <2>1. CASE chain \in {"evm", "filecoin", "substrate"}
    <3>1. PendingNonce(v) = Nonce(v) BY <1>1, <1>2, <2>1, EmptyPool DEF PoolAware
    <3>2. claims = {Nonce(v)}
      BY <2>1, <3>1 DEF Anchors, EvmNonce, FilecoinNonce, SubstrateNonce
    <3> QED BY <2>1, <3>2 DEF Nonce, Key, First0
  <2>2. CASE chain \in {"aptos", "cosmos", "stellar", "multiversx", "starknet", "ton"}
    <3>1. claims = {Nonce(v)}
      BY <2>2 DEF Anchors, AptosNonce, CosmosSequence, StellarSequence, MultiversxNonce,
                  StarknetNonce, TonSeqno
    <3> QED BY <2>2, <3>1 DEF Nonce, Key, First0
  <2>3. CASE chain = "near"
    <3>1. claims = {Nonce(v) + 1} BY <2>3 DEF Anchors, NearNonce
    <3> QED BY <2>3, <3>1, RunsFinite DEF Nonce, Key, First0
  <2> QED BY <1>2, <2>1, <2>2, <2>3 DEF Numbered
<1>3. /\ Left(Done(v)) \subseteq Unspent(v)
      /\ Unspent(v) \subseteq {Coin, Gift} \union Done(v)
      /\ Unspent(v) \cap Claims(Done(v)) = {}
      /\ ~gift => Unspent(v) = Left(Done(v))
  BY DEF Left, Unspent
<1>4. ASSUME chain \in Coined
      PROVE  /\ claims \subseteq Unspent(v)
             /\ claims # {} /\ (chain \notin PoolAware \/ Pooled(v) = {})
                  /\ (chain = "kaspa" => ~gift /\ \A x, y \in Left(Done(v)) : x = y) =>
                  Left(Done(v)) \subseteq claims
  <2>1. CASE chain = "utxo"
    <3>1. claims = Unspent(v) \ Claims(Pooled(v)) BY <2>1 DEF Anchors, UtxoCoins
    <3>2. Pooled(v) = {} => Claims(Pooled(v)) = {} BY DEF Claims
    <3> QED BY <1>3, <2>1, <3>1, <3>2 DEF PoolAware
  <2>2. CASE chain = "sui"
    <3>1. claims = Unspent(v) BY <2>2 DEF Anchors, SuiCoins
    <3> QED BY <1>3, <2>2, <3>1
  <2>3. CASE chain = "kaspa"
    <3>1. claims \in {{c} : c \in Unspent(v)} \union {Unspent(v)} BY <2>3 DEF Anchors, KaspaCoins
    <3>2. CASE claims = Unspent(v) BY <1>3, <2>3, <3>2
    <3>3. CASE \E c \in Unspent(v) : claims = {c} BY <1>3, <2>3, <3>3
    <3> QED BY <3>1, <3>2, <3>3
  <2> QED BY <1>4, <2>1, <2>2, <2>3 DEF Coined
<1> QED BY <1>2, <1>3, <1>4

-----------------------------------------------------------------------------
(* The initial states, and the parts of the invariant that a step keeps    *)
(* because it does not touch them.                                         *)

LEMMA InitPay == Init => PayInv
<1> SUFFICES ASSUME Init PROVE PayInv OBVIOUS
<1>1. Unknown \in Views BY ChainsAssumption DEF Views, Unknown, Outside, Phases
<1>2. Types
  <2>1. tx \in [Runs -> Views] BY <1>1 DEF Init
  <2>2. view \in [Endpoints -> [Runs -> Views]] BY <2>1 DEF Init
  <2>3. Nothing \in [done : SUBSET Runs, pool : SUBSET Runs, now : BOOLEAN] BY DEF Nothing
  <2>4. shown \in [Runs -> [done : SUBSET Runs, pool : SUBSET Runs, now : BOOLEAN]]
    BY <2>3 DEF Init
  <2>5. history \in {0, 1} BY DEF Init
  <2>6. gift \in BOOLEAN BY DEF Init
  <2>7. hash \in [Runs -> Runs] /\ run \in 0 .. MaxRuns /\ DOMAIN anchor = Runs
    BY RunsAssumption DEF Init
  <2>8. outcome \in [Runs -> {"none", "unsent", "sent", "timeout", "succeeded", "failed"}]
    BY DEF Init
  <2>9. chain \in Chains \ {"krc20"} /\ pc \in Runners /\ step \in Nat
    BY DEF Init, Runners
  <2> QED BY <2>1, <2>2, <2>4, <2>5, <2>6, <2>7, <2>8, <2>9 DEF Types
<1>3. RunInv BY RunsAssumption DEF Init, RunInv, Unknown, Outside, Ahead, Fresh, Runs
<1>4. \A p \in Runs : ~Included(tx[p]) /\ tx[p].phase = "unknown"
  BY DEF Init, Included, Unknown, Outside
<1>5. \A p \in Runs, e \in Endpoints : ~Included(view[e][p])
  BY DEF Init, Included, Unknown, Outside
<1>6. SentInv BY <1>4, <1>5 DEF Init, SentInv, Runs
<1>7. OutcomeInv BY DEF Init, OutcomeInv
<1>8. Done(tx) = {} /\ \A e \in Endpoints : Done(view[e]) = {} BY <1>4, <1>5 DEF Done
<1>9. \A p \in Runs : shown[p] = Nothing /\ shown[p].done = {} /\ shown[p].now = FALSE /\ anchor[p] = {}
  BY DEF Init, Nothing
<1>10. Snaps = {{}} BY <1>8, <1>9 DEF Snaps
<1>11. Claims({}) = {} /\ Key({}) = First0 /\ First0 \in Nat /\ Left({}) = {Coin}
  <2>1. Claims({}) = {} BY DEF Claims
  <2>2. First0 \in Nat BY <1>2 DEF First0, Types
  <2> QED BY <2>1, <2>2, RunsFinite DEF Key, Left
<1>12. SnapInv
  <2>1. First0 .. Key({}) - 1 = {} BY <1>11
  <2>2. \A d \in Snaps : d = {} BY <1>10
  <2>3. \A d \in Snaps : Claims(d) = First0 .. Key(d) - 1 BY <1>11, <2>1, <2>2
  <2>4. \A d \in Snaps : Left(d) = {Coin} BY <1>11, <2>2
  <2> QED BY <2>2, <2>3, <2>4 DEF SnapInv
<1>13. ExclInv BY <1>8 DEF ExclInv
<1>14. FullInv BY <1>9 DEF FullInv
<1> QED BY <1>2, <1>3, <1>6, <1>7, <1>12, <1>13, <1>14 DEF PayInv

LEMMA SameShown ==
    ASSUME FullInv, UNCHANGED <<chain, history, anchor, shown>>, gift => gift'
    PROVE  FullInv'
<1>1. \A p \in Runs :
        /\ Key(shown[p].done)' = Key(shown[p].done)
        /\ Claims(shown[p].done)' = Claims(shown[p].done)
        /\ Left(shown[p].done)' = Left(shown[p].done)
  <2> TAKE p \in Runs
  <2> QED BY DEF Key, First0, Claims, Left
<1>2. First0' = First0 BY DEF First0
<1> QED BY <1>1, <1>2 DEF FullInv, Counted

LEMMA SameSnaps ==
    ASSUME Types, SnapInv, ExclInv, UNCHANGED <<chain, history>>, gift => gift',
           Snaps' \subseteq Snaps, Done(tx)' = Done(tx),
           \A p \in Done(tx) : anchor'[p] = anchor[p]
    PROVE  SnapInv' /\ ExclInv'
<1>1. ASSUME NEW d \in Snaps
      PROVE  Claims(d)' = Claims(d) /\ Key(d)' = Key(d) /\ Left(d)' = Left(d) /\ First0' = First0
  <2>1. \A p \in d : anchor'[p] = anchor[p] BY <1>1 DEF SnapInv
  <2> QED BY <2>1, Unmoved
<1>2. Done(tx) \in Snaps BY DEF Snaps
<1>3. SnapInv' BY <1>1, <1>2 DEF SnapInv
<1>4. ExclInv' BY DEF ExclInv
<1> QED BY <1>3, <1>4

(* A step that executes nothing, and after which no endpoint shows         *)
(* anything but what it showed or what is so.                              *)
LEMMA SameDone ==
    ASSUME PayInv, UNCHANGED <<chain, history, anchor, shown>>, gift => gift',
           Done(tx)' = Done(tx),
           \A e \in Endpoints : Done(view[e])' \in {Done(view[e]), Done(tx)}
    PROVE  SnapInv' /\ ExclInv' /\ FullInv'
<1>1. Snaps' \subseteq Snaps BY DEF Snaps
<1>2. SnapInv' /\ ExclInv' BY <1>1, SameSnaps DEF PayInv
<1>3. FullInv' BY SameShown DEF PayInv
<1> QED BY <1>2, <1>3

-----------------------------------------------------------------------------
(* The steps of the user and of the program that neither build nor send.   *)

LocalTypes ==
    /\ run \in 0 .. MaxRuns /\ pc \in Runners /\ step \in Nat /\ gift \in BOOLEAN
    /\ outcome \in [Runs -> {"none", "unsent", "sent", "timeout", "succeeded", "failed"}]

LEMMA LocalKeeps ==
    ASSUME PayInv, UNCHANGED <<chain, history, tx, view, built>>, gift => gift',
           LocalTypes', RunInv', OutcomeInv'
    PROVE  PayInv'
<1>1. Types' BY DEF PayInv, Types, LocalTypes, built
<1>2. SentInv' BY DEF PayInv, SentInv, built
<1>3. Done(tx)' = Done(tx) /\ \A e \in Endpoints : Done(view[e])' = Done(view[e]) BY DEF Done
<1>4. SnapInv' /\ ExclInv' /\ FullInv' BY <1>3, SameDone DEF built
<1> QED BY <1>1, <1>2, <1>4 DEF PayInv

(* A run that ends here; a run that ends as failed or succeeded has the    *)
(* verdict of its transaction.                                             *)
LEMMA EndKeeps ==
    ASSUME PayInv, NEW how \in {"unsent", "sent", "timeout", "succeeded", "failed"},
           End(how), pc # "idle", UNCHANGED <<network, built, run>>,
           chain # "algorand" /\ how = "failed" => Included(tx[Mine]) /\ ~tx[Mine].ok,
           chain # "algorand" /\ how = "succeeded" => Included(tx[Mine]) /\ tx[Mine].ok
    PROVE  PayInv'
<1>1. run \in Runs BY DEF PayInv, RunInv
<1>2. outcome' = [outcome EXCEPT ![run] = how] /\ pc' = "idle" /\ step' = 0 BY DEF End
<1>3. LocalTypes'
  <2>1. outcome \in [Runs -> {"none", "unsent", "sent", "timeout", "succeeded", "failed"}]
    BY DEF PayInv, Types
  <2>2. outcome' \in [Runs -> {"none", "unsent", "sent", "timeout", "succeeded", "failed"}]
    BY <1>1, <1>2, <2>1
  <2> QED BY <1>2, <2>2 DEF PayInv, Types, LocalTypes, Runners, network, world
<1>4. \A p \in Runs : p # run => outcome'[p] = outcome[p] BY <1>1, <1>2 DEF PayInv, Types
<1>5. outcome'[run] = how BY <1>1, <1>2 DEF PayInv, Types
<1>6. RunInv'
  <2>1. ~Ahead' BY <1>2 DEF Ahead
  <2>2. \A p \in Runs : Fresh(p)' => p > run /\ Fresh(p) /\ p # run
    BY <1>1, <2>1, RunsFinite DEF Fresh, network, built
  <2> QED BY <1>2, <1>4, <2>1, <2>2 DEF PayInv, RunInv, network, built
<1>7. OutcomeInv'
  <2>1. UNCHANGED <<chain, tx, hash>> BY DEF network, world, built
  <2> QED BY <1>4, <1>5, <2>1 DEF PayInv, OutcomeInv, Mine
<1> QED BY <1>3, <1>6, <1>7, LocalKeeps DEF network, world

LEMMA StartKeeps ==
    ASSUME PayInv, Start
    PROVE  PayInv'
<1>1. run' = run + 1 /\ pc' = "read" /\ step' = 1 /\ UNCHANGED <<network, built, outcome>>
      /\ run < MaxRuns
  BY DEF Start
<1>2. run' \in Runs /\ run' \in 0 .. MaxRuns BY <1>1, RunsAssumption DEF PayInv, Types, Runs
<1>3. chain \in AllChains \ {"krc20"} BY ChainsAssumption DEF PayInv, Types
<1>4. LocalTypes'
  BY <1>1, <1>2 DEF PayInv, Types, LocalTypes, Runners, network, world
<1>5. Reads' = Reads /\ Main(chain)' = Main(chain) BY <1>1 DEF Reads, network, world, Main
<1>6. \A p \in Runs : Fresh(p)' => Fresh(p)
  <2> SUFFICES ASSUME NEW p \in Runs, Fresh(p)' PROVE p > run BY DEF Fresh
  <2> QED BY <1>1, RunsFinite DEF Fresh, PayInv, Types
<1>7. Ahead' BY <1>1, <1>3, <1>5, ReadsAre DEF Ahead
<1>8. outcome[run + 1] = "none"
  <2>1. Fresh(run + 1) BY DEF Fresh, PayInv, Types
  <2> QED BY <1>1, <1>2, <2>1 DEF PayInv, RunInv
<1>9. 1 \in 1 .. Len(Reads) BY <1>3, ReadsAre
<1>10. RunInv'
  <2>1. UNCHANGED <<anchor, hash, tx, outcome, shown>> BY <1>1 DEF network, built
  <2> QED BY <1>1, <1>2, <1>5, <1>6, <1>7, <1>8, <1>9, <2>1 DEF PayInv, RunInv
<1>11. OutcomeInv' BY <1>1 DEF PayInv, OutcomeInv, network, world, built
<1> QED BY <1>1, <1>4, <1>10, <1>11, LocalKeeps DEF network, world

(* After a read: what AfterRead leaves is still ahead if it was, unless    *)
(* this was the read of the anchor.                                        *)
LEMMA AfterReadIs ==
    ASSUME PayInv, AfterRead, pc = "read"
    PROVE  /\ run \in Runs /\ outcome[run] = "none"
           /\ LocalTypes' /\ (pc' = "read" => step' \in 1 .. Len(Reads)')
           /\ pc' \in {"read", "send"}
           /\ Ahead' => Ahead
           /\ Reading => ~Ahead' /\ Ahead
           /\ ~Reading /\ Ahead => Ahead'
<1>1. chain \in AllChains \ {"krc20"} BY ChainsAssumption DEF PayInv, Types
<1>2. run \in Runs /\ outcome[run] = "none" /\ step \in 1 .. Len(Reads)
  BY DEF PayInv, RunInv
<1>3. UNCHANGED <<chain, run, outcome, gift>> BY DEF AfterRead, network, world
<1>4. Reads' = Reads BY <1>3 DEF Reads, Main
<1>5. PICK n \in Nat \ {0} : n = Len(Reads) BY <1>1, ReadsAre
<1>6. PICK a \in 1 .. n : \A j \in 1 .. n : Reads[j] = "anchor" <=> j = a
  BY <1>1, <1>5, ReadsAre
<1>7. Ahead <=> step <= a BY <1>2, <1>5, <1>6 DEF Ahead
<1>8. Ahead' <=> pc' = "read" /\ step' <= a
  BY <1>4, <1>5, <1>6 DEF Ahead
<1>9. Reading <=> step = a BY <1>2, <1>5, <1>6 DEF Reading
<1>10. CASE step = n
  <2>1. step' = 0 /\ pc' = "send" BY <1>5, <1>10 DEF AfterRead
  <2> QED BY <1>2, <1>3, <1>5, <1>7, <1>8, <1>9, <1>10, <2>1 DEF PayInv, Types, LocalTypes, Runners
<1>11. CASE step # n
  <2>1. step' = step + 1 /\ pc' = "read" BY <1>5, <1>11 DEF AfterRead
  <2>2. step' \in 1 .. n BY <1>2, <1>5, <1>11, <2>1
  <2>3. LocalTypes' BY <1>3, <2>1, <2>2 DEF PayInv, Types, LocalTypes, Runners
  <2> QED BY <1>2, <1>4, <1>5, <1>7, <1>8, <1>9, <2>1, <2>2, <2>3
<1> QED BY <1>10, <1>11

LEMMA ReadOtherKeeps ==
    ASSUME PayInv, ReadOther
    PROVE  PayInv'
<1>1. pc = "read" /\ ~Reading /\ AfterRead /\ UNCHANGED built BY DEF ReadOther
<1>2. UNCHANGED <<chain, history, gift, tx, view, run, outcome, anchor, hash, shown>>
  BY <1>1 DEF AfterRead, network, world, built
<1>3. Main(chain)' = Main(chain) BY <1>2 DEF Main
<1>4. \A p \in Runs : Fresh(p)' => Fresh(p) BY <1>1, <1>2, AfterReadIs DEF Fresh
<1>5. RunInv' BY <1>1, <1>2, <1>3, <1>4, AfterReadIs DEF PayInv, RunInv
<1>6. OutcomeInv' BY <1>2 DEF PayInv, OutcomeInv
<1> QED BY <1>1, <1>2, <1>5, <1>6, AfterReadIs, LocalKeeps DEF built

(* What one CheckTx makes of its answers, chain by chain: a verdict is the *)
(* verdict of an answer in which the transaction is included.              *)
LEMMA StatusSays ==
    ASSUME NEW c \in AllChains \ {"krc20", "algorand"}, NEW v \in Views, NEW w \in Views,
           c \in Infallible => (Included(v) => v.ok),
           NEW status, status = IF First(c, v) # "" THEN First(c, v) ELSE Second(c, v, w)
    PROVE  /\ status = "failed" => (Included(v) /\ ~v.ok) \/ (Included(w) /\ ~w.ok)
           /\ status = "succeeded" => (Included(v) /\ v.ok) \/ (Included(w) /\ w.ok)
           /\ status \in {"succeeded", "failed", "pending", "error"}
<1>1. CASE c = "evm"
  <2>1. First(c, v) = EvmFirst(v) /\ Second(c, v, w) = EvmSecond(v, w)
    BY <1>1 DEF First, Second
  <2> QED BY <2>1 DEF EvmFirst, EvmSecond, Executed
<1>2. CASE c = "tron"
  <2>1. First(c, v) = TronFirst(v) /\ Second(c, v, w) = TronSecond(v, w)
    BY <1>2 DEF First, Second
  <2> QED BY <2>1 DEF TronFirst, TronSecond, Executed
<1>3. CASE c \in {"utxo", "kaspa"}
  <2>1. First(c, v) = IF Included(v) THEN "succeeded" ELSE "pending"
    BY <1>3 DEF First, UtxoStatus, KaspaStatus
  <2> QED BY <1>3, <2>1 DEF Infallible
<1>4. CASE c = "solana"
  <2>1. First(c, v) = SolanaStatus(v) BY <1>4 DEF First
  <2> QED BY <2>1 DEF SolanaStatus, Included
<1>5. CASE c = "near"
  <2>1. First(c, v) = NearStatus(v) BY <1>5 DEF First
  <2> QED BY <2>1 DEF NearStatus, Executed
<1>6. CASE c = "sui"
  <2>1. First(c, v) = SuiStatus(v) BY <1>6 DEF First
  <2> QED BY <2>1 DEF SuiStatus, Executed, Included
<1>7. CASE c = "multiversx"
  <2>1. First(c, v) = MultiversxStatus(v) BY <1>7 DEF First
  <2> QED BY <2>1 DEF MultiversxStatus, Executed
<1>8. CASE c = "ton"
  <2>1. First(c, v) = TonStatus(v) BY <1>8 DEF First
  <2> QED BY <2>1 DEF TonStatus, Executed, Included
<1>9. CASE c \in {"aptos", "cosmos", "substrate", "stellar", "filecoin", "starknet"}
  <2>1. First(c, v) = IF Included(v) THEN Executed(v) ELSE "pending"
    BY <1>9 DEF First, AptosStatus, CosmosStatus, SubstrateStatus, StellarStatus,
                FilecoinStatus, StarknetStatus
  <2> QED BY <2>1 DEF Executed
<1> QED BY <1>1, <1>2, <1>3, <1>4, <1>5, <1>6, <1>7, <1>8, <1>9 DEF AllChains

(* A poll that ends the run ends it with the verdict of its transaction.   *)
LEMMA PollSays ==
    ASSUME PayInv, pc = "poll", NEW status \in Statuses, chain # "algorand"
    PROVE  /\ status = "failed" => Included(tx[Mine]) /\ ~tx[Mine].ok
           /\ status = "succeeded" => Included(tx[Mine]) /\ tx[Mine].ok
<1>1. chain \in AllChains \ {"krc20", "algorand"}
  BY ChainsAssumption DEF PayInv, Types
<1>2. chain # "starknet" BY DEF PayInv, RunInv, Main, StarknetMain, Program
<1>3. Mine \in Runs BY DEF PayInv, RunInv, Types, Mine
<1>4. CASE status \in OnError(chain)
  <2>1. OnError(chain) = {"error"} BY <1>1, <1>2 DEF OnError
  <2> QED BY <1>4, <2>1
<1>5. CASE status \notin OnError(chain)
  <2>1. PICK e \in Endpoints, f \in Endpoints :
          status \in Returned(chain, CheckTx(view[e][Mine], view[f][Mine]))
    BY <1>5 DEF Statuses
  <2>2. PICK v : v = view[e][Mine] OBVIOUS
  <2>3. PICK w : w = view[f][Mine] OBVIOUS
  <2>4. v \in Views /\ w \in Views BY <1>3, <2>2, <2>3 DEF PayInv, Types
  <2>5. (Included(v) => v = tx[Mine]) /\ (Included(w) => w = tx[Mine])
    BY <1>3, <2>2, <2>3 DEF PayInv, SentInv
  <2>6. chain \in Infallible => (Included(v) => v.ok)
    BY <1>3, <2>5 DEF PayInv, SentInv
  <2>7. PICK said : said = IF First(chain, v) # "" THEN First(chain, v) ELSE Second(chain, v, w)
    OBVIOUS
  <2>9. status = said \/ status = "unknown"
    BY <2>1, <2>2, <2>3, <2>7 DEF CheckTx, Returned
  <2>8. /\ said = "failed" => (Included(v) /\ ~v.ok) \/ (Included(w) /\ ~w.ok)
        /\ said = "succeeded" => (Included(v) /\ v.ok) \/ (Included(w) /\ w.ok)
    BY <1>1, <2>4, <2>6, <2>7, StatusSays
  <2> QED BY <2>5, <2>8, <2>9
<1> QED BY <1>4, <1>5

LEMMA PollKeeps ==
    ASSUME PayInv, Poll
    PROVE  PayInv'
<1>1. PICK status \in Statuses :
        IF status \in {"succeeded", "failed"} THEN End(status)
        ELSE IF step = Main(chain).polls THEN End("timeout")
        ELSE step' = step + 1 /\ UNCHANGED <<pc, outcome>>
  BY DEF Poll
<1>2. pc = "poll" /\ UNCHANGED <<network, built, run>> BY DEF Poll
<1>3. CASE status \in {"succeeded", "failed"}
  BY <1>1, <1>2, <1>3, PollSays, EndKeeps
<1>4. CASE status \notin {"succeeded", "failed"} /\ step = Main(chain).polls
  BY <1>1, <1>2, <1>4, EndKeeps
<1>5. CASE status \notin {"succeeded", "failed"} /\ step # Main(chain).polls
  <2>1. step' = step + 1 /\ UNCHANGED <<pc, outcome>> BY <1>1, <1>5
  <2>2. UNCHANGED <<chain, history, gift, tx, view, run, anchor, hash, shown>>
    BY <1>2 DEF network, world, built
  <2>3. Main(chain)' = Main(chain) BY <2>2 DEF Main
  <2>4. ~Ahead /\ ~Ahead' BY <1>2, <2>1 DEF Ahead
  <2>5. \A p \in Runs : Fresh(p)' => Fresh(p) BY <2>2, <2>4 DEF Fresh
  <2>6. RunInv' BY <1>2, <2>1, <2>2, <2>3, <2>4, <2>5 DEF PayInv, RunInv
  <2>7. OutcomeInv' BY <2>1, <2>2 DEF PayInv, OutcomeInv
  <2>8. LocalTypes' BY <2>1, <2>2 DEF PayInv, Types, LocalTypes
  <2> QED BY <2>2, <2>6, <2>7, <2>8, LocalKeeps DEF built
<1> QED BY <1>3, <1>4, <1>5

LEMMA AnswerKeeps ==
    ASSUME PayInv, Answer
    PROVE  PayInv'
<1>1. pc = "answer" /\ UNCHANGED <<network, built, run>> BY DEF Answer
<1>2. CASE Main(chain).polls = 0
  <2>1. End("sent") BY <1>2 DEF Answer
  <2> QED BY <1>1, <2>1, EndKeeps
<1>3. CASE Main(chain).polls # 0
  <2>1. pc' = "poll" /\ step' = 1 /\ UNCHANGED outcome BY <1>3 DEF Answer
  <2>2. UNCHANGED <<chain, history, gift, tx, view, run, anchor, hash, shown>>
    BY <1>1 DEF network, world, built
  <2>3. Main(chain)' = Main(chain) BY <2>2 DEF Main
  <2>4. ~Ahead /\ ~Ahead' BY <1>1, <2>1 DEF Ahead
  <2>5. \A p \in Runs : Fresh(p)' => Fresh(p) BY <2>2, <2>4 DEF Fresh
  <2>6. RunInv' BY <1>1, <1>3, <2>1, <2>2, <2>3, <2>4, <2>5 DEF PayInv, RunInv
  <2>7. OutcomeInv' BY <2>1, <2>2 DEF PayInv, OutcomeInv
  <2>8. LocalTypes' BY <2>1, <2>2 DEF PayInv, Types, LocalTypes, Runners
  <2> QED BY <2>2, <2>6, <2>7, <2>8, LocalKeeps DEF built
<1> QED BY <1>2, <1>3

LEMMA UnsentKeeps ==
    ASSUME PayInv, SendFails \/ ReadFails \/ \E e \in Endpoints : NoCoins(e)
    PROVE  PayInv'
<1>1. End("unsent") /\ UNCHANGED <<network, built, run>> /\ pc # "idle"
  BY DEF SendFails, ReadFails, NoCoins, Reading
<1> QED BY <1>1, EndKeeps

LEMMA PayKeeps ==
    ASSUME PayInv, Pay
    PROVE  PayInv'
<1>1. UNCHANGED <<chain, history, tx, view, run, pc, step, anchor, hash, shown, outcome>>
      /\ gift' = TRUE
  BY DEF Pay, local, built
<1>2. Reads' = Reads /\ Main(chain)' = Main(chain) BY <1>1 DEF Reads, Main
<1>3. Ahead' = Ahead BY <1>1, <1>2 DEF Ahead
<1>4. \A p \in Runs : Fresh(p)' <=> Fresh(p) BY <1>1, <1>3 DEF Fresh
<1>5. RunInv' BY <1>1, <1>2, <1>3, <1>4 DEF PayInv, RunInv
<1>6. OutcomeInv' BY <1>1 DEF PayInv, OutcomeInv
<1>7. LocalTypes' BY <1>1 DEF PayInv, Types, LocalTypes
<1> QED BY <1>1, <1>5, <1>6, <1>7, LocalKeeps DEF built

-----------------------------------------------------------------------------
(* The steps of the network.                                               *)

(* A transaction that was built and is in no block is put into the pool or *)
(* taken out of it.                                                        *)
LEMMA PoolKeeps ==
    ASSUME PayInv, NEW p \in Runs, ~Included(tx[p]), anchor[p] # {}, NEW ph \in {"pool", "evicted"},
           tx' = [tx EXCEPT ![p] = Outside(ph, 0)],
           UNCHANGED <<world, view, built, outcome>>
    PROVE  /\ tx' \in [Runs -> Views]
           /\ SentInv' /\ OutcomeInv' /\ SnapInv' /\ ExclInv' /\ FullInv'
<1>1. Outside(ph, 0) \in Views /\ ~Included(Outside(ph, 0)) /\ Outside(ph, 0).phase = ph
  BY ChainsAssumption DEF Views, Outside, Phases, Included
<1>2. tx \in [Runs -> Views] /\ DOMAIN tx = Runs BY DEF PayInv, Types
<1>3. tx' \in [Runs -> Views] BY <1>1, <1>2
<1>4. ~Included(tx'[p]) /\ tx'[p].phase = ph /\ \A q \in Runs : q # p => tx'[q] = tx[q]
  BY <1>1, <1>2
<1>5. UNCHANGED <<chain, history, gift, view, anchor, hash, shown, outcome>>
  BY DEF world, built
<1>6. SentInv'
  <2>1. \A q \in Runs : hash'[q] <= q /\ anchor'[hash'[q]] = anchor'[q] BY <1>5 DEF PayInv, SentInv
  <2>2. \A q \in Runs : tx'[q].phase # "unknown" => anchor'[q] # {}
    BY <1>4, <1>5 DEF PayInv, SentInv
  <2>3. \A q \in Runs : tx'[q].phase # "in" /\ (Included(tx'[q]) /\ chain' \in Infallible => tx'[q].ok)
    BY <1>4, <1>5 DEF PayInv, SentInv
  <2>4. \A e \in Endpoints, q \in Runs : Included(view'[e][q]) => view'[e][q] = tx'[q]
    BY <1>4, <1>5 DEF PayInv, SentInv
  <2> QED BY <2>1, <2>2, <2>3, <2>4 DEF SentInv
<1>7. OutcomeInv'
  <2>1. \A q \in Runs : hash[q] \in Runs /\ (Included(tx[q]) => tx'[q] = tx[q])
    BY <1>4 DEF PayInv, Types
  <2> QED BY <1>5, <2>1 DEF PayInv, OutcomeInv
<1>8. Done(tx)' = Done(tx) /\ \A e \in Endpoints : Done(view[e])' = Done(view[e])
  BY <1>4, <1>5 DEF Done
<1>9. SnapInv' /\ ExclInv' /\ FullInv' BY <1>5, <1>8, SameDone
<1> QED BY <1>3, <1>6, <1>7, <1>9

LEMMA EvictReturnKeeps ==
    ASSUME PayInv, NEW p \in Runs, Evict(p) \/ Return(p)
    PROVE  PayInv'
<1>1. PICK ph \in {"pool", "evicted"} :
        tx' = [tx EXCEPT ![p] = Outside(ph, 0)] /\ UNCHANGED <<world, view, local>>
  BY DEF Evict, Return
<1>2. tx[p].phase \in {"pool", "evicted"} BY DEF Evict, Return
<1>3. ~Included(tx[p]) /\ anchor[p] # {} /\ ~Fresh(p)
  BY <1>2 DEF Included, PayInv, SentInv, RunInv
<1>4. UNCHANGED <<world, view, built, outcome, run, pc, step>> BY <1>1 DEF local
<1>5. tx' \in [Runs -> Views] /\ SentInv' /\ OutcomeInv' /\ SnapInv' /\ ExclInv' /\ FullInv'
  BY <1>1, <1>3, <1>4, PoolKeeps
<1>6. UNCHANGED <<chain, history, gift, view, anchor, hash, shown, outcome, run, pc, step>>
  BY <1>4 DEF world, built
<1>7. Types' BY <1>5, <1>6 DEF PayInv, Types
<1>8. RunInv'
  <2>1. Reads' = Reads /\ Main(chain)' = Main(chain) BY <1>6 DEF Reads, Main
  <2>2. Ahead' = Ahead BY <1>6, <2>1 DEF Ahead
  <2>3. \A q \in Runs : Fresh(q)' <=> Fresh(q) BY <1>6, <2>2 DEF Fresh
  <2>4. \A q \in Runs : Fresh(q) => tx'[q] = tx[q] BY <1>1, <1>3 DEF PayInv, Types
  <2> QED BY <1>6, <2>1, <2>2, <2>3, <2>4 DEF PayInv, RunInv
<1> QED BY <1>5, <1>7, <1>8 DEF PayInv

LEMMA SendKeeps ==
    ASSUME PayInv, NEW e \in Endpoints, Send(e)
    PROVE  PayInv'
<1>1. pc = "send" /\ pc' = "answer" /\ UNCHANGED <<world, view, built, run, step, outcome>>
  BY DEF Send
<1>2. UNCHANGED <<chain, history, gift, view, anchor, hash, shown, outcome, run, step>>
  BY <1>1 DEF world, built
<1>3. run \in Runs /\ Mine \in Runs /\ Mine <= run /\ ~Ahead /\ ~Ahead'
  BY <1>1 DEF PayInv, RunInv, SentInv, Types, Mine, Ahead
<1>4. anchor[Mine] # {} /\ ~Fresh(Mine)
  <2>1. anchor[Mine] # {} BY <1>1, <1>3 DEF PayInv, RunInv, SentInv, Mine
  <2> QED BY <1>3, <2>1 DEF PayInv, RunInv
<1>5. /\ tx' \in [Runs -> Views] /\ \A q \in Runs : q # Mine => tx'[q] = tx[q]
      /\ SentInv' /\ OutcomeInv' /\ SnapInv' /\ ExclInv' /\ FullInv'
  <2>1. CASE Included(tx[Mine])
    <3>1. tx' = tx BY <2>1 DEF Send
    <3>2. SentInv' /\ OutcomeInv' BY <1>2, <3>1 DEF PayInv, SentInv, OutcomeInv
    <3>3. Done(tx)' = Done(tx) /\ \A f \in Endpoints : Done(view[f])' = Done(view[f])
      BY <1>2, <3>1 DEF Done
    <3>4. SnapInv' /\ ExclInv' /\ FullInv' BY <1>2, <3>3, SameDone
    <3> QED BY <3>1, <3>2, <3>4 DEF PayInv, Types
  <2>2. CASE ~Included(tx[Mine])
    <3>1. tx' = [tx EXCEPT ![Mine] = Outside("pool", 0)] BY <2>2 DEF Send
    <3>2. \A q \in Runs : q # Mine => tx'[q] = tx[q] BY <3>1 DEF PayInv, Types
    <3> QED BY <1>1, <1>3, <1>4, <2>2, <3>1, <3>2, PoolKeeps
  <2> QED BY <2>1, <2>2
<1>6. Types' BY <1>1, <1>2, <1>5 DEF PayInv, Types, Runners
<1>7. RunInv'
  <2>1. \A q \in Runs : Fresh(q)' <=> Fresh(q) BY <1>2, <1>3 DEF Fresh
  <2>2. \A q \in Runs : Fresh(q) => tx'[q] = tx[q] BY <1>4, <1>5
  <2> QED BY <1>1, <1>2, <1>3, <2>1, <2>2 DEF PayInv, RunInv
<1> QED BY <1>5, <1>6, <1>7 DEF PayInv

LEMMA SyncKeeps ==
    ASSUME PayInv, NEW e \in Endpoints, Sync(e)
    PROVE  PayInv'
<1>1. view' = [view EXCEPT ![e] = tx] /\ UNCHANGED <<world, tx, local>> BY DEF Sync
<1>2. UNCHANGED <<chain, history, gift, tx, run, pc, step, anchor, hash, shown, outcome>>
  BY <1>1 DEF world, local, built
<1>3. view \in [Endpoints -> [Runs -> Views]] /\ tx \in [Runs -> Views] BY DEF PayInv, Types
<1>4. view' \in [Endpoints -> [Runs -> Views]] BY <1>1, <1>3
<1>5. \A f \in Endpoints : view'[f] = view[f] \/ view'[f] = tx BY <1>1, <1>3
<1>6. Types' BY <1>2, <1>4 DEF PayInv, Types
<1>7. RunInv'
  <2>1. Reads' = Reads /\ Main(chain)' = Main(chain) BY <1>2 DEF Reads, Main
  <2>2. Ahead' = Ahead BY <1>2, <2>1 DEF Ahead
  <2>3. \A q \in Runs : Fresh(q)' <=> Fresh(q) BY <1>2, <2>2 DEF Fresh
  <2> QED BY <1>2, <2>1, <2>2, <2>3 DEF PayInv, RunInv
<1>8. SentInv' BY <1>2, <1>5 DEF PayInv, SentInv
<1>9. OutcomeInv' BY <1>2 DEF PayInv, OutcomeInv
<1>10. Done(tx)' = Done(tx) BY <1>2 DEF Done
<1>11. \A f \in Endpoints : Done(view[f])' \in {Done(view[f]), Done(tx)}
  <2> TAKE f \in Endpoints
  <2>1. CASE view'[f] = view[f] BY <2>1 DEF Done
  <2>2. CASE view'[f] = tx BY <2>2 DEF Done
  <2> QED BY <1>5, <2>1, <2>2
<1>12. SnapInv' /\ ExclInv' /\ FullInv' BY <1>2, <1>10, <1>11, SameDone
<1> QED BY <1>6, <1>7, <1>8, <1>9, <1>12 DEF PayInv

(* What an executed transaction adds: the next nonce, or a coin that it    *)
(* leaves while it takes free ones; of Kaspa's single coin its change is   *)
(* the next.                                                               *)
LEMMA ExecuteAdds ==
    ASSUME PayInv, NEW p \in Runs, p \notin Done(tx), tx[p].phase # "unknown", Fits(p)
    PROVE  /\ Claims(Done(tx) \union {p}) = Claims(Done(tx)) \union anchor[p]
           /\ chain \notin Referring => anchor[p] \cap Claims(Done(tx)) = {}
           /\ chain \in Numbered =>
                Claims(Done(tx) \union {p}) = First0 .. Key(Done(tx) \union {p}) - 1
           /\ chain \in Coined => Left(Done(tx) \union {p}) # {}
           /\ chain = "kaspa" /\ ~gift => Left(Done(tx) \union {p}) = {p}
<1> DEFINE D == Done(tx)
           E == D \union {p}
<1>1. chain \in AllChains \ {"krc20"} BY ChainsAssumption DEF PayInv, Types
<1>2. D \subseteq Runs /\ D \in Snaps BY DEF Done, Snaps
<1>3. Claims(E) = Claims(D) \union anchor[p] BY DEF Claims
<1>4. Cardinality(D) \in Nat /\ Cardinality(E) = Cardinality(D) + 1 /\ First0 \in Nat
  <2>1. IsFiniteSet(D) /\ Cardinality(D) \in Nat BY <1>2, RunsFinite
  <2>2. First0 \in Nat BY DEF First0, PayInv, Types
  <2> QED BY <2>1, <2>2, FS_AddElement
<1>5. ASSUME chain \in Numbered
      PROVE  anchor[p] = {Key(D)} /\ Claims(D) = First0 .. Key(D) - 1 /\ Claims(E) = First0 .. Key(E) - 1
  <2>1. anchor[p] = {Key(D)}
    <3>1. Nonce(tx) + (IF chain = "near" THEN 1 ELSE 0) = Key(D)
      BY <1>4 DEF Nonce, Key, First0, PayInv, Types
    <3> QED BY <1>5, <3>1 DEF Fits
  <2>2. Claims(D) = First0 .. Key(D) - 1 BY <1>2, <1>5 DEF PayInv, SnapInv
  <2>3. Key(E) = Key(D) + 1 /\ Key(D) \in Nat /\ First0 <= Key(D) BY <1>4 DEF Key
  <2>4. \A a, b, c \in Nat : a <= b /\ c = b + 1 => (a .. b - 1) \union {b} = a .. c - 1 OBVIOUS
  <2>5. PICK k \in Nat, m \in Nat : k = Key(D) /\ m = Key(E) BY <2>3
  <2>6. (First0 .. k - 1) \union {k} = First0 .. m - 1 BY <1>4, <2>3, <2>4, <2>5
  <2>7. Claims(E) = (First0 .. k - 1) \union {k} BY <1>3, <2>1, <2>2, <2>5
  <2> QED BY <2>1, <2>2, <2>5, <2>6, <2>7
<1>6. ASSUME chain \in Coined
      PROVE  anchor[p] \cap Claims(D) = {} /\ p \in Left(E)
  <2>1. anchor[p] \cap Claims(D) = {} BY <1>6 DEF Fits
  <2>2. anchor[p] # {} BY DEF PayInv, SentInv
  <2>3. ASSUME NEW q \in E PROVE p \notin anchor[q]
    <3>1. q \in Runs /\ anchor[q] # {} BY <1>2, <2>2, <2>3 DEF PayInv, SentInv, Done, Included
    <3>2. anchor[q] \subseteq {Coin, Gift} \union shown[q].done
      BY <1>6, <3>1 DEF PayInv, FullInv
    <3>3. p \notin {Coin, Gift} BY RunsAssumption DEF Coin, Gift, Runs
    <3>4. CASE q = p
      <4>1. p \notin shown[p].done BY RunsFinite DEF PayInv, FullInv
      <4> QED BY <3>2, <3>3, <3>4, <4>1
    <3>5. CASE q # p
      <4>1. shown[q].done \subseteq D BY <3>1 DEF PayInv, SnapInv, Snaps
      <4> QED BY <3>2, <3>3, <4>1
    <3> QED BY <3>4, <3>5
  <2>4. p \notin Claims(E) BY <2>3 DEF Claims
  <2> QED BY <2>1, <2>4 DEF Left
<1>7. ASSUME chain = "kaspa", ~gift
      PROVE  Left(E) = {p}
  <2>1. chain \in Coined /\ chain \notin PoolAware BY <1>7 DEF Coined, PoolAware
  <2>2. PICK d : d = shown[p].done OBVIOUS
  <2>3. d \in Snaps /\ d \subseteq D BY <2>2 DEF Snaps, PayInv, SnapInv
  <2>4. anchor[p] # {} BY DEF PayInv, SentInv
  <2>5. Left(d) \subseteq anchor[p] BY <1>7, <2>1, <2>2, <2>4 DEF PayInv, FullInv, Counted
  <2>6. PICK y \in Left(d) : TRUE BY <2>1, <2>3 DEF PayInv, SnapInv
  <2>7. y \in anchor[p] /\ y \in Left(D) BY <1>6, <2>1, <2>3, <2>5, <2>6 DEF Left
  <2>8. ASSUME NEW x \in Left(E), x # p PROVE FALSE
    <3>1. x \in Left(D) /\ x \notin anchor[p] BY <1>3, <2>8 DEF Left
    <3>2. x = y BY <1>2, <1>7, <2>7, <3>1 DEF PayInv, SnapInv
    <3> QED BY <2>7, <3>1, <3>2
  <2> QED BY <1>6, <2>1, <2>8
<1>8. chain \notin Referring => anchor[p] \cap Claims(D) = {}
  <2>1. CASE chain \in Numbered
    <3>1. Key(D) \in Nat BY <1>4 DEF Key
    <3> QED BY <1>4, <1>5, <2>1, <3>1
  <2> QED BY <1>1, <1>6, <2>1, Families
<1> QED BY <1>3, <1>5, <1>6, <1>7, <1>8

LEMMA ExecuteKeeps ==
    ASSUME PayInv, NEW p \in Runs, NEW ok \in BOOLEAN, Execute(p, ok)
    PROVE  PayInv'
<1> DEFINE r == [phase |-> "final", era |-> 0, ok |-> ok]
<1>1. /\ tx[p].phase = "pool" /\ Fits(p) /\ (chain \in Infallible => ok)
      /\ tx' = [tx EXCEPT ![p] = r]
      /\ UNCHANGED <<world, view, local>>
  BY DEF Execute
<1>2. UNCHANGED <<chain, history, gift, view, run, pc, step, anchor, hash, shown, outcome>>
  BY <1>1 DEF world, local, built
<1>3. r \in Views /\ Included(r) /\ r.phase = "final" /\ r.ok = ok
  BY ChainsAssumption DEF Views, Phases, Included
<1>4. tx' \in [Runs -> Views] BY <1>1, <1>3 DEF PayInv, Types
<1>5. tx'[p] = r /\ \A q \in Runs : q # p => tx'[q] = tx[q]
  BY <1>1 DEF PayInv, Types
<1>6. ~Included(tx[p]) /\ anchor[p] # {} /\ ~Fresh(p)
  BY <1>1 DEF Included, PayInv, SentInv, RunInv
<1> HIDE DEF r
<1>7. Types' BY <1>2, <1>4 DEF PayInv, Types
<1>8. RunInv'
  <2>1. Reads' = Reads /\ Main(chain)' = Main(chain) BY <1>2 DEF Reads, Main
  <2>2. Ahead' = Ahead BY <1>2, <2>1 DEF Ahead
  <2>3. \A q \in Runs : Fresh(q)' <=> Fresh(q) BY <1>2, <2>2 DEF Fresh
  <2>4. \A q \in Runs : Fresh(q) => tx'[q] = tx[q] BY <1>5, <1>6
  <2> QED BY <1>2, <2>1, <2>2, <2>3, <2>4 DEF PayInv, RunInv
<1>9. SentInv'
  <2>1. \A q \in Runs : hash'[q] <= q /\ anchor'[hash'[q]] = anchor'[q] BY <1>2 DEF PayInv, SentInv
  <2>2. \A q \in Runs : tx'[q].phase # "unknown" => anchor'[q] # {}
    BY <1>2, <1>5, <1>6 DEF PayInv, SentInv
  <2>3. \A q \in Runs : tx'[q].phase # "in" /\ (Included(tx'[q]) /\ chain' \in Infallible => tx'[q].ok)
    BY <1>1, <1>2, <1>3, <1>5 DEF PayInv, SentInv
  <2>4. \A e \in Endpoints, q \in Runs : Included(view'[e][q]) => view'[e][q] = tx'[q]
    BY <1>2, <1>5, <1>6 DEF PayInv, SentInv
  <2> QED BY <2>1, <2>2, <2>3, <2>4 DEF SentInv
<1>10. OutcomeInv'
  <2>1. \A q \in Runs : hash[q] \in Runs /\ (Included(tx[q]) => tx'[q] = tx[q])
    BY <1>5, <1>6 DEF PayInv, Types
  <2> QED BY <1>2, <2>1 DEF PayInv, OutcomeInv
<1>11. p \notin Done(tx) BY <1>6 DEF Done
<1>12. PICK E : E = Done(tx) \union {p} OBVIOUS
<1>13. Done(tx)' = E BY <1>3, <1>5, <1>12 DEF Done
<1>14. Snaps' \subseteq Snaps \union {E}
  <2>1. \A e \in Endpoints : Done(view[e])' = Done(view[e]) BY <1>2 DEF Done
  <2> QED BY <1>2, <1>13, <2>1 DEF Snaps
<1>15. /\ chain \notin Referring => anchor[p] \cap Claims(Done(tx)) = {}
       /\ chain \in Numbered => Claims(E) = First0 .. Key(E) - 1
       /\ chain \in Coined => Left(E) # {}
       /\ chain = "kaspa" /\ ~gift => Left(E) = {p}
  BY <1>1, <1>11, <1>12, ExecuteAdds
<1>16. SnapInv'
  <2>1. ASSUME NEW d \in Snaps \union {E}
        PROVE  Claims(d)' = Claims(d) /\ Key(d)' = Key(d) /\ Left(d)' = Left(d) /\ First0' = First0
    BY <1>2, Unmoved
  <2>2. \A d \in Snaps : d \subseteq Done(tx) BY DEF PayInv, SnapInv
  <2>3. \A d \in Snaps' : d \subseteq E BY <1>12, <1>14, <2>2
  <2>4. \A d, e \in Snaps' : d \subseteq e \/ e \subseteq d
    <3>1. \A d, e \in Snaps : d \subseteq e \/ e \subseteq d BY DEF PayInv, SnapInv
    <3> QED BY <1>14, <2>3, <3>1
  <2>5. chain \in Numbered => \A d \in Snaps' : Claims(d)' = First0' .. Key(d)' - 1
    BY <1>14, <1>15, <2>1 DEF PayInv, SnapInv
  <2>6. chain \in Coined => \A d \in Snaps' : Left(d)' # {}
    BY <1>14, <1>15, <2>1 DEF PayInv, SnapInv
  <2>7. chain = "kaspa" /\ ~gift => \A d \in Snaps' : \A x, y \in Left(d)' : x = y
    BY <1>14, <1>15, <2>1 DEF PayInv, SnapInv
  <2> QED BY <1>2, <1>13, <2>3, <2>4, <2>5, <2>6, <2>7 DEF SnapInv
<1>17. ExclInv'
  <2>1. chain \notin Referring => \A q \in Done(tx) : anchor[p] \cap anchor[q] = {}
    BY <1>15 DEF Claims
  <2> QED BY <1>2, <1>12, <1>13, <2>1 DEF PayInv, ExclInv
<1>18. FullInv' BY <1>2, SameShown DEF PayInv
<1> QED BY <1>7, <1>8, <1>9, <1>10, <1>16, <1>17, <1>18 DEF PayInv

-----------------------------------------------------------------------------
(* The steps that build.  What a run may claim on what it was shown.       *)
Founded(s, claims) ==
    /\ s \in [done : SUBSET Runs, pool : SUBSET Runs, now : BOOLEAN]
    /\ s.done \in Snaps
    /\ chain \in Numbered /\ (chain \notin PoolAware \/ s.pool = {}) =>
         claims = {Key(s.done)} \/ (~s.now /\ claims = {First0 - 1})
    /\ chain \in Coined =>
         /\ claims \subseteq {Coin, Gift} \union s.done
         /\ claims \cap Claims(s.done) = {}
         /\ (chain \notin PoolAware \/ s.pool = {}) /\ ~(chain = "kaspa" /\ gift) =>
              Left(s.done) \subseteq claims

LEMMA BuildKeeps ==
    ASSUME PayInv, Reading, NEW claims, claims # {}, Claim(claims), AfterRead,
           NEW s, Founded(s, claims), shown' = [shown EXCEPT ![run] = s]
    PROVE  PayInv'
<1>1. UNCHANGED <<chain, history, gift, tx, view, run, outcome>>
  BY DEF AfterRead, network, world
<1>2. pc = "read" /\ Fresh(run) /\ run \in Runs /\ ~Ahead'
  BY AfterReadIs DEF Reading, Fresh
<1>3. /\ anchor'[run] = claims /\ \A q \in Runs : q # run => anchor'[q] = anchor[q]
      /\ DOMAIN anchor' = Runs
  BY <1>2 DEF Claim, PayInv, Types
<1>4. PICK p \in {run} \union {q \in 1 .. run - 1 : anchor[q] = claims} :
        hash' = [hash EXCEPT ![run] = hash[p]]
  BY DEF Claim
<1>5. p \in Runs /\ p <= run BY <1>2, <1>4, RunsAssumption DEF Runs
<1>6. hash' \in [Runs -> Runs] /\ hash'[run] = hash[p] /\ \A q \in Runs : q # run => hash'[q] = hash[q]
  BY <1>2, <1>4, <1>5 DEF PayInv, Types
<1>7. /\ shown' \in [Runs -> [done : SUBSET Runs, pool : SUBSET Runs, now : BOOLEAN]]
      /\ shown'[run] = s /\ \A q \in Runs : q # run => shown'[q] = shown[q]
  BY <1>2 DEF PayInv, Types, Founded
<1>8. /\ anchor[run] = {} /\ hash[run] = run /\ tx[run].phase = "unknown"
      /\ outcome[run] = "none"
  BY <1>2 DEF PayInv, RunInv
<1>9. Types'
  <2>1. LocalTypes' BY <1>2, AfterReadIs
  <2> QED BY <1>1, <1>3, <1>6, <1>7, <2>1 DEF PayInv, Types, LocalTypes
<1>10. \A q \in Runs : Fresh(q)' => q # run /\ q > run /\ Fresh(q)
  BY <1>1, <1>2, RunsFinite DEF Fresh
<1>11. RunInv'
  <2>1. Reads' = Reads /\ Main(chain)' = Main(chain) BY <1>1 DEF Reads, Main
  <2>2. (pc' = "read" => step' \in 1 .. Len(Reads)') /\ pc' \in {"read", "send"}
    BY <1>2, AfterReadIs
  <2> QED BY <1>1, <1>2, <1>3, <1>6, <1>7, <1>8, <1>10, <2>1, <2>2 DEF PayInv, RunInv
<1>12. SentInv'
  <2>1. ASSUME NEW q \in Runs PROVE hash'[q] <= q /\ anchor'[hash'[q]] = anchor'[q]
    <3>1. \A x \in Runs : hash[x] \in Runs /\ hash[x] <= x /\ anchor[hash[x]] = anchor[x]
      BY DEF PayInv, Types, SentInv
    <3>2. CASE q = run
      <4>1. CASE p = run BY <1>3, <1>6, <1>8, <3>2, <4>1, RunsFinite
      <4>2. CASE p # run
        <5>1. anchor[p] = claims /\ hash[p] <= p /\ anchor[hash[p]] = claims /\ hash[p] \in Runs
          BY <1>4, <1>5, <3>1, <4>2
        <5>2. hash[p] # run BY <1>8, <5>1
        <5>3. hash[p] <= run
          <6>1. hash[p] \in Nat /\ p \in Nat /\ run \in Nat BY <1>2, <1>5, <5>1, RunsFinite
          <6> QED BY <1>5, <5>1, <6>1
        <5> QED BY <1>3, <1>6, <3>2, <5>1, <5>2, <5>3
      <4> QED BY <4>1, <4>2
    <3>3. CASE q # run
      <4>1. hash'[q] = hash[q] /\ hash[q] \in Runs /\ hash[q] <= q /\ anchor[hash[q]] = anchor[q]
        BY <1>6, <3>1, <3>3
      <4>2. hash[q] # run
        <5>1. CASE q > run BY <1>2, <3>3, <5>1 DEF PayInv, RunInv, Fresh
        <5>2. CASE ~(q > run) BY <1>2, <3>3, <4>1, <5>2, RunsFinite
        <5> QED BY <5>1, <5>2
      <4> QED BY <1>3, <3>3, <4>1, <4>2
    <3> QED BY <3>2, <3>3
  <2>2. \A q \in Runs : tx'[q].phase # "unknown" => anchor'[q] # {}
    BY <1>1, <1>3, <1>8 DEF PayInv, SentInv
  <2> QED BY <1>1, <2>1, <2>2 DEF PayInv, SentInv
<1>13. OutcomeInv' BY <1>1, <1>6, <1>8 DEF PayInv, OutcomeInv
<1>14. Done(tx) \subseteq Runs /\ run \notin Done(tx) /\ \A q \in Done(tx) : anchor'[q] = anchor[q]
  BY <1>3, <1>8 DEF Done, Included
<1>15. Done(tx)' = Done(tx) /\ \A e \in Endpoints : Done(view[e])' = Done(view[e])
  BY <1>1 DEF Done
<1>16. Snaps' \subseteq Snaps
  <2>1. \A q \in Runs : shown'[q].done \in Snaps BY <1>7 DEF Snaps, Founded
  <2> QED BY <1>1, <1>15, <2>1 DEF Snaps
<1>17. SnapInv' /\ ExclInv' BY <1>1, <1>14, <1>15, <1>16, SameSnaps DEF PayInv
<1>18. FullInv'
  <2>1. ASSUME NEW d \in Snaps
        PROVE  Claims(d)' = Claims(d) /\ Key(d)' = Key(d) /\ Left(d)' = Left(d) /\ First0' = First0
    <3>1. \A q \in d : anchor'[q] = anchor[q] BY <1>14, <2>1 DEF PayInv, SnapInv
    <3> QED BY <1>1, <3>1, Unmoved
  <2> SUFFICES ASSUME NEW q \in Runs
               PROVE  /\ shown'[q].done \subseteq 1 .. q - 1
                      /\ shown'[q].now => anchor'[q] # {}
                      /\ chain' \in Numbered /\ anchor'[q] # {} /\ Counted(q)' =>
                           \/ anchor'[q] = {Key(shown[q].done)'}
                           \/ ~shown'[q].now /\ anchor'[q] = {First0' - 1}
                      /\ chain' \in Coined /\ anchor'[q] # {} =>
                           /\ anchor'[q] \subseteq {Coin, Gift} \union shown'[q].done
                           /\ anchor'[q] \cap Claims(shown[q].done)' = {}
                           /\ Counted(q)' /\ ~(chain' = "kaspa" /\ gift') =>
                                Left(shown[q].done)' \subseteq anchor'[q]
    BY DEF FullInv, Coin, Gift
  <2>2. PICK d : d = shown'[q].done OBVIOUS
  <2>3. d \in Snaps BY <1>16, <2>2 DEF Snaps
  <2>4. /\ Claims(shown[q].done)' = Claims(d) /\ Key(shown[q].done)' = Key(d)
        /\ Left(shown[q].done)' = Left(d) /\ First0' = First0
    <3>1. Claims(shown[q].done)' = Claims(d)' BY <2>2 DEF Claims
    <3>2. Key(shown[q].done)' = Key(d)' BY <2>2 DEF Key, First0
    <3>3. Left(shown[q].done)' = Left(d)' BY <2>2 DEF Left, Claims
    <3> QED BY <2>1, <2>3, <3>1, <3>2, <3>3
  <2>5. CASE q = run
    <3>1. d = s.done BY <1>7, <2>2, <2>5
    <3>2. d \subseteq 1 .. run - 1
      <4>1. d \subseteq Done(tx) BY <2>3 DEF PayInv, SnapInv
      <4>2. \A x \in Done(tx) : x \in Runs /\ ~(x > run) /\ x # run
        BY <1>2 DEF Done, Included, PayInv, RunInv, Fresh
      <4>3. run \in Nat /\ \A x \in Runs : x \in Nat /\ 1 <= x BY <1>2, RunsFinite, RunsAssumption
      <4> QED BY <4>1, <4>2, <4>3
    <3>3. Counted(q)' <=> chain \notin PoolAware \/ s.pool = {} BY <1>1, <1>7, <2>5 DEF Counted
    <3> QED BY <1>1, <1>3, <1>7, <2>2, <2>4, <2>5, <3>1, <3>2, <3>3 DEF Founded
  <2>6. CASE q # run
    <3>1. anchor'[q] = anchor[q] /\ shown'[q] = shown[q] /\ d = shown[q].done
      BY <1>3, <1>7, <2>2, <2>6
    <3>2. Counted(q)' <=> Counted(q) BY <1>1, <3>1 DEF Counted
    <3> QED BY <1>1, <2>4, <3>1, <3>2 DEF PayInv, FullInv
  <2> QED BY <2>5, <2>6
<1> QED BY <1>9, <1>11, <1>12, <1>13, <1>17, <1>18 DEF PayInv

LEMMA ReadAnchorKeeps ==
    ASSUME PayInv, NEW e \in Endpoints, ReadAnchor(e)
    PROVE  PayInv'
<1>1. Reading /\ AfterRead BY DEF ReadAnchor
<1>2. PICK claims \in Anchors(chain, view[e]) \ {{}} : Claim(claims) BY DEF ReadAnchor
<1>3. PICK s : s = [done |-> Done(view[e]), pool |-> Pooled(view[e]), now |-> view[e] = tx]
  OBVIOUS
<1>4. shown' = [shown EXCEPT ![run] = s] BY <1>3 DEF ReadAnchor
<1>5. PICK v : v = view[e] OBVIOUS
<1>6. s.done = Done(v) /\ s.pool = Pooled(v) BY <1>3, <1>5
<1>7. Done(v) \subseteq Runs /\ Pooled(v) \subseteq Runs /\ Done(v) \in Snaps
  <2>1. Done(v) = Done(view[e]) BY <1>5
  <2> QED BY <2>1 DEF Done, Pooled, Snaps
<1>8. s \in [done : SUBSET Runs, pool : SUBSET Runs, now : BOOLEAN]
  <2>1. (view[e] = tx) \in BOOLEAN OBVIOUS
  <2> QED BY <1>3, <1>5, <1>7, <2>1
<1>9. chain \in AllChains \ {"krc20"} /\ history \in {0, 1} /\ gift \in BOOLEAN
  BY ChainsAssumption DEF PayInv, Types
<1>10. claims \in Anchors(chain, v) BY <1>2, <1>5
<1>11. /\ chain \in Numbered /\ (chain \notin PoolAware \/ Pooled(v) = {}) =>
            claims = {Key(Done(v))}
       /\ chain \in Coined =>
            /\ claims \subseteq {Coin, Gift} \union Done(v)
            /\ claims \cap Claims(Done(v)) = {}
            /\ claims # {} /\ (chain \notin PoolAware \/ Pooled(v) = {})
                 /\ (chain = "kaspa" => ~gift /\ \A x, y \in Left(Done(v)) : x = y) =>
                 Left(Done(v)) \subseteq claims
  BY <1>7, <1>9, <1>10, AnchorsAre
<1>12. chain = "kaspa" /\ ~gift => \A x, y \in Left(Done(v)) : x = y
  BY <1>7 DEF PayInv, SnapInv
<1>13. Founded(s, claims)
  <2>1. s.done \in Snaps BY <1>6, <1>7
  <2>2. chain \in Numbered /\ (chain \notin PoolAware \/ s.pool = {}) =>
          claims = {Key(s.done)} \/ (~s.now /\ claims = {First0 - 1})
    BY <1>6, <1>11
  <2>3. chain \in Coined =>
          /\ claims \subseteq {Coin, Gift} \union s.done
          /\ claims \cap Claims(s.done) = {}
          /\ (chain \notin PoolAware \/ s.pool = {}) /\ ~(chain = "kaspa" /\ gift) =>
               Left(s.done) \subseteq claims
    BY <1>2, <1>6, <1>11, <1>12
  <2> QED BY <1>8, <2>1, <2>2, <2>3 DEF Founded
<1> QED BY <1>1, <1>2, <1>4, <1>13, BuildKeeps

LEMMA AssumeNewKeeps ==
    ASSUME PayInv, AssumeNew
    PROVE  PayInv'
<1>1. Reading /\ AfterRead /\ UNCHANGED shown BY DEF AssumeNew
<1>2. PICK claims : claims = Main(chain).fallback OBVIOUS
<1>3. Claim(claims) /\ claims # {} BY <1>2 DEF AssumeNew
<1>4. chain \in AllChains \ {"krc20"} /\ history \in {0, 1}
  BY ChainsAssumption DEF PayInv, Types
<1>5. (chain = "near" /\ claims = {1}) \/ (chain = "filecoin" /\ claims = {0})
  BY <1>2, <1>3, <1>4, ReadsAre
<1>6. Fresh(run) /\ run \in Runs BY <1>1, AfterReadIs DEF Reading, Fresh
<1>7. shown[run] = Nothing BY <1>6 DEF PayInv, RunInv
<1>8. shown' = [shown EXCEPT ![run] = Nothing] BY <1>1, <1>6, <1>7 DEF PayInv, Types
<1>9. Nothing \in [done : SUBSET Runs, pool : SUBSET Runs, now : BOOLEAN]
      /\ Nothing.done = {} /\ Nothing.now = FALSE
  BY DEF Nothing
<1>10. Key({}) = First0 /\ (claims = {First0} \/ claims = {First0 - 1})
  <2>1. Key({}) = First0 BY <1>4, RunsFinite DEF Key, First0
  <2> QED BY <1>4, <1>5, <2>1 DEF First0
<1>11. chain \notin Coined BY <1>5 DEF Coined
<1>12. Founded(Nothing, claims)
  <2>1. Nothing.done \in Snaps BY <1>9 DEF Snaps
  <2>2. claims = {Key(Nothing.done)} \/ (~Nothing.now /\ claims = {First0 - 1}) BY <1>9, <1>10
  <2> QED BY <1>9, <1>11, <2>1, <2>2 DEF Founded
<1> QED BY <1>1, <1>3, <1>8, <1>12, BuildKeeps

-----------------------------------------------------------------------------
(* What follows.                                                           *)

(* Of two executed transactions that are built on everything that was free *)
(* the later view contains the other one: what that one claimed would      *)
(* still be free.                                                          *)
LEMMA SecondKnowsFirst ==
    ASSUME PayInv, NEW p \in Done(tx), NEW q \in Done(tx), p # q, Counted(p), Counted(q),
           chain \notin Referring, ~(chain = "kaspa" /\ gift),
           shown[p].done \subseteq shown[q].done
    PROVE  p \in shown[q].done
<1> SUFFICES ASSUME p \notin shown[q].done PROVE FALSE OBVIOUS
<1>1. p \in Runs /\ q \in Runs /\ anchor[p] # {} /\ anchor[q] # {}
  BY DEF Done, Included, PayInv, SentInv
<1>2. PICK d, e : d = shown[p].done /\ e = shown[q].done OBVIOUS
<1>3. d \in Snaps /\ e \in Snaps /\ d \subseteq e /\ e \subseteq Done(tx) /\ p \notin e
  <2>1. d \in Snaps /\ e \in Snaps BY <1>1, <1>2 DEF Snaps
  <2> QED BY <1>2, <2>1 DEF PayInv, SnapInv
<1>4. \A r \in Done(tx) : r # p => anchor[r] \cap anchor[p] = {}
  BY DEF PayInv, ExclInv
<1>5. anchor[p] \cap Claims(e) = {} BY <1>3, <1>4 DEF Claims
<1>6. CASE chain \in Numbered
  <2>1. /\ Done(tx) \in Snaps /\ Done(tx) \subseteq Runs
        /\ \A x \in Snaps : Claims(x) = First0 .. Key(x) - 1
    BY <1>6 DEF PayInv, SnapInv, Snaps, Done
  <2>2. First0 \in Nat BY DEF First0, PayInv, Types
  <2>3. anchor[p] \subseteq Claims(Done(tx)) /\ anchor[q] \subseteq Claims(Done(tx)) BY DEF Claims
  <2>4. First0 - 1 \notin Claims(Done(tx))
    <3>1. Key(Done(tx)) \in Nat BY <2>1, <2>2, RunsFinite DEF Key
    <3> QED BY <2>1, <2>2, <3>1
  <2>5. anchor[p] = {Key(d)} /\ anchor[q] = {Key(e)}
    <3>1. anchor[p] # {First0 - 1} /\ anchor[q] # {First0 - 1} BY <2>3, <2>4
    <3> QED BY <1>1, <1>2, <1>6, <3>1 DEF PayInv, FullInv
  <2>6. /\ Cardinality(d) \in Nat /\ Cardinality(e) \in Nat
        /\ Cardinality(d) <= Cardinality(e)
    <3>1. IsFiniteSet(e) /\ Cardinality(d) \in Nat /\ Cardinality(e) \in Nat
      BY <1>3, <2>1, RunsFinite
    <3> QED BY <1>3, <3>1, FS_Subset
  <2>7. Key(d) \in First0 .. Key(e) - 1 \/ Key(d) = Key(e) BY <2>2, <2>6 DEF Key
  <2>8. Key(d) # Key(e) BY <1>4, <2>5
  <2>9. Claims(e) = First0 .. Key(e) - 1 BY <1>3, <2>1
  <2> QED BY <1>5, <2>5, <2>7, <2>8, <2>9
<1>7. CASE chain \in Coined
  <2>1. Left(d) \subseteq anchor[p] /\ Left(e) \subseteq anchor[q] /\ Left(d) # {}
    BY <1>1, <1>2, <1>3, <1>7 DEF PayInv, FullInv, SnapInv
  <2>2. PICK c \in Left(d) : TRUE BY <2>1
  <2>3. c \in anchor[p] /\ c \notin Claims(e) BY <1>5, <2>1, <2>2
  <2>4. c \in Left(e) BY <1>3, <2>2, <2>3 DEF Left
  <2> QED BY <1>4, <2>1, <2>3, <2>4
<1>8. chain \in AllChains \ {"krc20"} BY ChainsAssumption DEF PayInv, Types
<1> QED BY <1>6, <1>7, <1>8, Families

LEMMA PayInvPaidOnce == PayInv => PaidOnce
<1> SUFFICES ASSUME PayInv PROVE PaidOnce OBVIOUS
<1>1. TypeOK BY DEF PayInv, Types, TypeOK, Runners
<1>2. \A p \in Runs : chain # "algorand" =>
        /\ outcome[p] = "failed" => ~Paid(hash[p])
        /\ outcome[p] = "succeeded" => Paid(hash[p])
  BY DEF PayInv, OutcomeInv, Paid
<1>3. ASSUME NEW p \in Runs, NEW q \in Runs, p < q, Paid(p), Paid(q),
             chain \notin Referring, ~(chain = "kaspa" /\ gift),
             ~(chain \in PoolAware /\ shown[p].pool \union shown[q].pool # {})
      PROVE  p \in shown[q].done
  <2>1. p \in Done(tx) /\ q \in Done(tx) BY <1>3 DEF Paid, Done
  <2>2. Counted(p) /\ Counted(q) BY <1>3 DEF Counted
  <2>3. p # q /\ q \notin shown[p].done
    <3>1. shown[p].done \subseteq 1 .. p - 1 BY DEF PayInv, FullInv
    <3> QED BY <1>3, <3>1, RunsFinite
  <2>4. shown[p].done \subseteq shown[q].done \/ shown[q].done \subseteq shown[p].done
    <3>1. shown[p].done \in Snaps /\ shown[q].done \in Snaps BY DEF Snaps
    <3> QED BY <3>1 DEF PayInv, SnapInv
  <2> QED BY <1>3, <2>1, <2>2, <2>3, <2>4, SecondKnowsFirst
<1> QED BY <1>1, <1>2, <1>3 DEF PaidOnce

LEMMA PayInvAnchorFits == PayInv => AnchorFits
<1> SUFFICES ASSUME PayInv, NEW p \in 1 .. run,
                    shown[p].now, shown[p].pool = {}, Done(tx) = shown[p].done
             PROVE  Fits(p)
  BY DEF AnchorFits
<1>1. p \in Runs BY RunsAssumption DEF PayInv, Types, Runs
<1>2. anchor[p] # {} /\ Counted(p) BY <1>1 DEF PayInv, FullInv, Counted
<1>3. chain \in Numbered => anchor[p] = {Nonce(tx) + (IF chain = "near" THEN 1 ELSE 0)}
  <2> SUFFICES ASSUME chain \in Numbered
               PROVE  anchor[p] = {Nonce(tx) + (IF chain = "near" THEN 1 ELSE 0)}
    OBVIOUS
  <2>1. anchor[p] = {Key(Done(tx))} BY <1>1, <1>2 DEF PayInv, FullInv
  <2>2. Cardinality(Done(tx)) \in Nat /\ history \in Nat
    <3>1. Done(tx) \subseteq Runs BY DEF Done
    <3> QED BY <3>1, RunsFinite DEF PayInv, Types
  <2>3. Nonce(tx) + (IF chain = "near" THEN 1 ELSE 0) = Key(Done(tx))
    BY <2>2 DEF Nonce, Key, First0
  <2> QED BY <2>1, <2>3
<1>4. chain \in Coined => anchor[p] \cap Claims(Done(tx)) = {}
  BY <1>1, <1>2 DEF PayInv, FullInv
<1> QED BY <1>3, <1>4 DEF Fits

LEMMA NextKeeps ==
    ASSUME PayInv, [Next]_vars
    PROVE  PayInv'
<1>1. CASE UNCHANGED vars
  <2>1. UNCHANGED <<chain, history, gift, tx, view, run, pc, step, anchor, hash, shown, outcome>>
    BY <1>1 DEF vars
  <2>2. Reads' = Reads /\ Main(chain)' = Main(chain) BY <2>1 DEF Reads, Main
  <2>3. Ahead' = Ahead BY <2>1, <2>2 DEF Ahead
  <2>4. \A p \in Runs : Fresh(p)' <=> Fresh(p) BY <2>1, <2>3 DEF Fresh
  <2>5. RunInv' BY <2>1, <2>2, <2>3, <2>4 DEF PayInv, RunInv
  <2>6. OutcomeInv' BY <2>1 DEF PayInv, OutcomeInv
  <2>7. LocalTypes' BY <2>1 DEF PayInv, Types, LocalTypes
  <2> QED BY <2>1, <2>5, <2>6, <2>7, LocalKeeps DEF built
<1>2. CASE Next
  <2>1. CASE Start BY <2>1, StartKeeps
  <2>2. CASE AssumeNew BY <2>2, AssumeNewKeeps
  <2>3. CASE ReadOther BY <2>3, ReadOtherKeeps
  <2>4. CASE ReadFails BY <2>4, UnsentKeeps
  <2>5. CASE Answer BY <2>5, AnswerKeeps
  <2>6. CASE SendFails BY <2>6, UnsentKeeps
  <2>7. CASE Poll BY <2>7, PollKeeps
  <2>8. CASE Pay BY <2>8, PayKeeps
  <2>9. ASSUME NEW e \in Endpoints, ReadAnchor(e) PROVE PayInv' BY <2>9, ReadAnchorKeeps
  <2>10. ASSUME NEW e \in Endpoints, NoCoins(e) PROVE PayInv' BY <2>10, UnsentKeeps
  <2>11. ASSUME NEW e \in Endpoints, Send(e) PROVE PayInv' BY <2>11, SendKeeps
  <2>12. ASSUME NEW e \in Endpoints, Sync(e) PROVE PayInv' BY <2>12, SyncKeeps
  <2>13. ASSUME NEW p \in Runs, Evict(p) \/ Return(p) PROVE PayInv'
    BY <2>13, EvictReturnKeeps
  <2>14. ASSUME NEW p \in Runs, NEW ok \in BOOLEAN, Execute(p, ok) PROVE PayInv'
    BY <2>14, ExecuteKeeps
  <2> QED
    BY <1>2, <2>1, <2>2, <2>3, <2>4, <2>5, <2>6, <2>7, <2>8, <2>9, <2>10, <2>11, <2>12,
       <2>13, <2>14 DEF Next
<1> QED BY <1>1, <1>2

(* In every program, on every chain and for any number of runs, endpoints  *)
(* and polls: the invariant holds.                                         *)
THEOREM PaymentKept == Spec => []PayInv
BY InitPay, NextKeeps, PTL DEF Spec

(* Two runs both pay only if the node had told the later one of the first  *)
(* payment, or the pool was not empty where the handler counts it; a run   *)
(* ends with the verdict of its transaction.                               *)
THEOREM PaysOnce == Spec => []PaidOnce
BY PaymentKept, PayInvPaidOnce, PTL

(* What an up-to-date node says and the program builds on fits until the   *)
(* account executes something else.                                        *)
THEOREM AnchorsFit == Spec => []AnchorFits
BY PaymentKept, PayInvAnchorFits, PTL
=============================================================================
