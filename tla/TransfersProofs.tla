-------------------------- MODULE TransfersProofs --------------------------
(***************************************************************************)
(* Why a caller that polls is told the truth about its transaction, for    *)
(* any endpoints that lag behind each other and any number of forks: what  *)
(* an endpoint shows was so once (Past), and what was so once tells enough *)
(* of what is so now.  On TON the same for the transactions of a trace.    *)
(* Of the EVM handler also which transfers it reports, for any executions: *)
(* what it adds up over the frames of a trace is what the execution does,  *)
(* defined by recursion over the calls (EffectSum).                        *)
(***************************************************************************)
EXTENDS TonTrace, EvmTransfers, FiniteFacts, SequenceTheorems

(* View v of the transaction may be an earlier one than w.                 *)
Past(v, w) ==
    /\ v.era <= w.era
    /\ v.era = w.era /\ Included(v) => Included(w) /\ w.ok = v.ok
    /\ v.phase = "final" => w.phase = "final" /\ w.era = v.era

LEMMA ViewFields ==
    ASSUME NEW v \in Views
    PROVE  v.phase \in Phases /\ v.era \in Nat /\ v.ok \in BOOLEAN
BY ChainsAssumption DEF Views

LEMMA PastReflexive == ASSUME NEW v \in Views PROVE Past(v, v)
BY ViewFields DEF Past

LEMMA PastTransitive ==
    ASSUME NEW u \in Views, NEW v \in Views, NEW w \in Views, Past(u, v), Past(v, w)
    PROVE  Past(u, w)
<1>1. u.era \in Nat /\ v.era \in Nat /\ w.era \in Nat
  BY ViewFields
<1>2. u.era <= w.era
  BY <1>1 DEF Past
<1>3. ASSUME u.era = w.era, Included(u) PROVE Included(w) /\ w.ok = u.ok
  <2>1. v.era = u.era /\ v.era = w.era
    BY <1>1, <1>3 DEF Past
  <2>. QED BY <1>3, <2>1 DEF Past
<1>4. ASSUME u.phase = "final" PROVE w.phase = "final" /\ w.era = u.era
  BY <1>4 DEF Past
<1>. QED BY <1>2, <1>3, <1>4 DEF Past

-----------------------------------------------------------------------------
(* What the handlers say of a view: a success only of one that is included *)
(* and, but for Algorand and the chains where nothing in a block fails, of *)
(* one that succeeded; a failure, but for Algorand, only of one that did   *)
(* fail.  Solana says a success only of a final one.                       *)
LEMMA FirstSays ==
    ASSUME NEW c \in AllChains, NEW v \in Views
    PROVE  /\ First(c, v) \in {"", "pending", "succeeded", "failed", "error"}
           /\ First(c, v) = "" => c \in {"evm", "tron"}
           /\ First(c, v) = "succeeded" =>
                Included(v) /\ (c \notin {"algorand"} \union Infallible => v.ok)
           /\ First(c, v) = "succeeded" /\ c = "solana" => v.phase = "final"
           /\ First(c, v) = "failed" /\ c # "algorand" => Included(v) /\ ~v.ok
<1>. USE DEF Included, Executed, Infallible
<1>1. CASE c \in {"evm", "tron"}
  BY <1>1 DEF First, EvmFirst, TronFirst
<1>2. CASE c \in {"utxo", "kaspa"}
  BY <1>2 DEF First, UtxoStatus, KaspaStatus
<1>3. CASE c \in {"solana", "ton"}
  BY <1>3 DEF First, SolanaStatus, TonStatus
<1>4. CASE c \in {"near", "multiversx", "sui"}
  BY <1>4 DEF First, NearStatus, MultiversxStatus, SuiStatus
<1>5. CASE c = "algorand"
  BY <1>5 DEF First, AlgorandStatus
<1>6. CASE c \in {"krc20", "aptos", "cosmos", "substrate"}
  BY <1>6 DEF First, Krc20Status, AptosStatus, CosmosStatus, SubstrateStatus
<1>7. CASE c \in {"stellar", "filecoin", "starknet"}
  BY <1>7 DEF First, StellarStatus, FilecoinStatus, StarknetStatus
<1>. QED BY <1>1, <1>2, <1>3, <1>4, <1>5, <1>6, <1>7 DEF AllChains

LEMMA SecondSays ==
    ASSUME NEW c \in {"evm", "tron"}, NEW u, NEW v
    PROVE  /\ Second(c, u, v) \in {"pending", "succeeded", "failed"}
           /\ Second(c, u, v) = "succeeded" => Included(v) /\ v.ok
           /\ Second(c, u, v) = "failed" => Included(v) /\ ~v.ok
BY DEF Second, EvmSecond, TronSecond, Included, Executed

LEMMA ErrorSays ==
    ASSUME NEW c, NEW s \in OnError(c)
    PROVE  s \in {"pending", "error", "failed"} /\ (s = "failed" => c = "starknet")
BY DEF OnError

-----------------------------------------------------------------------------
(* The transaction, and what the endpoints show of it.                     *)
ViewInv ==
    /\ chain \in Chains
    /\ tx \in Views /\ view \in [Endpoints -> Views]
    /\ \A e \in Endpoints : Past(view[e], tx)
    /\ chain \notin Forking => tx.era = 0
    /\ chain \in Infallible /\ Included(tx) => tx.ok

(* The caller: the first of two answers is that of an endpoint, and of the *)
(* era that the call has seen.                                             *)
CallerInv ==
    /\ first \in Views \union {NoAnswer}
    /\ first # NoAnswer =>
         /\ chain \in {"evm", "tron"} /\ call = "status" /\ report = "none"
         /\ Past(first, tx) /\ seen = first.era
    /\ told \subseteq {"succeeded", "failed"}
    /\ last \in {"none", "pending", "succeeded", "failed", "unknown", "error"}
    /\ form \in {"native", "token", "other"} /\ deep \in BOOLEAN
    /\ TransfersTypeOK
    /\ seen <= tx.era
    /\ call \in {"height", "contents"} => chain \in Reporting /\ report = "none"

(* What the call knows unless a fork took the era that it saw.             *)
Arrived   == seen = tx.era => Included(tx) /\ (chain # "algorand" => tx.ok)
DeepEnough == deep /\ seen = tx.era => tx.phase = "final"

CreditInv ==
    /\ call \in {"height", "contents"} => Arrived
    /\ call = "contents" => DeepEnough
    /\ report = "transfers" /\ chain # "ton" => Arrived /\ DeepEnough

(* Solana's verdict is that of a slot that no fork replaces.               *)
FinalInv == "succeeded" \in told /\ chain = "solana" => tx.phase = "final"

StatusInv ==
    ViewInv /\ CallerInv /\ CreditInv /\ FinalInv /\ VerdictHolds /\ RejectionHolds

(* Nothing is known at first, and nothing is told.                         *)
LEMMA StatusInit == TransfersInit => StatusInv
<1>. SUFFICES ASSUME TransfersInit PROVE StatusInv
  OBVIOUS
<1>1. Unknown \in Views /\ Unknown.phase = "unknown" /\ Unknown.era = 0
  BY ChainsAssumption DEF Unknown, Outside, Views, Phases
<1>2. ViewInv
  BY <1>1, PastReflexive DEF TransfersInit, Init, ViewInv, Included
<1>3. form \in {"native", "token", "other"}
  BY DEF TransfersInit, FormsOf
<1>4. CallerInv
  BY <1>1, <1>3, ChainsAssumption DEF TransfersInit, Init, CallerInv, TransfersTypeOK
<1>5. CreditInv /\ FinalInv /\ RejectionHolds
  BY DEF TransfersInit, Init, CreditInv, FinalInv, RejectionHolds
<1>6. TypeOK
  BY <1>2, <1>4 DEF TypeOK, ViewInv, CallerInv
<1>7. VerdictHolds
  BY <1>6 DEF TransfersInit, Init, VerdictHolds
<1>. QED BY <1>2, <1>4, <1>5, <1>7 DEF StatusInv

-----------------------------------------------------------------------------
(* Whatever the chain does, what is now will have been: a block of the     *)
(* same era stays, with what it says of the execution.                     *)
LEMMA ChainMoves ==
    ASSUME ViewInv, UNCHANGED chain,
           Submit \/ Evict \/ Fork \/ Finalize \/ \E ok \in BOOLEAN : Include(ok)
    PROVE  /\ tx' \in Views /\ Past(tx, tx')
           /\ chain \notin Forking => tx'.era = 0
           /\ chain \in Infallible /\ Included(tx') => tx'.ok
<1>1. tx \in Views /\ tx.phase \in Phases /\ tx.era \in 0 .. MaxForks /\ tx.ok \in BOOLEAN /\ tx.era \in Nat
  BY ViewFields, ChainsAssumption DEF ViewInv, Views
<1>2. ASSUME NEW p \in {"pool", "evicted"}, NEW n \in 0 .. MaxForks,
             tx' = Outside(p, n), tx.era <= n, ~Included(tx) \/ tx.era < n, tx.phase # "final",
             chain \in Forking \/ n = tx.era
      PROVE  /\ tx' \in Views /\ Past(tx, tx')
             /\ chain \notin Forking => tx'.era = 0
             /\ chain \in Infallible /\ Included(tx') => tx'.ok
  <2>1. tx' \in Views /\ tx'.phase = p /\ tx'.era = n
    BY <1>2 DEF Outside, Views, Phases
  <2>. QED BY <1>1, <1>2, <2>1 DEF Past, Included, ViewInv
<1>3. CASE Submit
  BY <1>1, <1>2, <1>3 DEF Submit, Included
<1>4. CASE Evict
  BY <1>1, <1>2, <1>4 DEF Evict, Included
<1>5. CASE Fork
  <2>1. tx.era + 1 \in 0 .. MaxForks /\ tx.era < tx.era + 1
    BY <1>1, <1>5, ChainsAssumption DEF Fork
  <2>. QED BY <1>1, <1>2, <1>5, <2>1 DEF Fork
<1>6. CASE Finalize
  <2>1. tx' \in Views /\ tx'.phase = "final" /\ tx'.era = tx.era /\ tx'.ok = tx.ok
    BY <1>1, <1>6 DEF Finalize, Views, Phases
  <2>. QED BY <1>1, <1>6, <2>1 DEF Finalize, Past, Included, ViewInv
<1>7. ASSUME NEW ok \in BOOLEAN, Include(ok)
      PROVE  /\ tx' \in Views /\ Past(tx, tx')
             /\ chain \notin Forking => tx'.era = 0
             /\ chain \in Infallible /\ Included(tx') => tx'.ok
  <2>1. tx' \in Views /\ tx'.phase = "in" /\ tx'.era = tx.era /\ tx'.ok = ok
    BY <1>1, <1>7 DEF Include, Views, Phases
  <2>2. tx.phase = "pool" /\ (chain \in Infallible => ok)
    BY <1>7 DEF Include
  <2>3. Past(tx, tx')
    BY <1>1, <2>1, <2>2 DEF Past, Included
  <2>. QED BY <2>1, <2>2, <2>3 DEF ViewInv
<1>. QED BY <1>3, <1>4, <1>5, <1>6, <1>7

(* The chain or an endpoint moves while the caller does not.               *)
LEMMA NetworkStep ==
    ASSUME StatusInv, Network PROVE StatusInv'
<1>. USE DEF StatusInv
<1>1. UNCHANGED <<chain, first, last, told, form, deep, call, seen, report>>
  BY DEF Network, Submit, Evict, Fork, Finalize, Include, Sync, caller
<1>. DEFINE moved ==
       /\ tx' \in Views /\ Past(tx, tx')
       /\ chain \notin Forking => tx'.era = 0
       /\ chain \in Infallible /\ Included(tx') => tx'.ok
       /\ view' \in [Endpoints -> Views]
       /\ \A e \in Endpoints : Past(view'[e], tx')
<1>2. moved
  <2>1. CASE Submit \/ Evict \/ Fork \/ Finalize \/ \E ok \in BOOLEAN : Include(ok)
    <3>1. view' = view
      BY <2>1 DEF Submit, Evict, Fork, Finalize, Include
    <3>2. /\ tx' \in Views /\ Past(tx, tx')
          /\ chain \notin Forking => tx'.era = 0
          /\ chain \in Infallible /\ Included(tx') => tx'.ok
      BY <1>1, <2>1, ChainMoves
    <3>3. \A e \in Endpoints : Past(view'[e], tx')
      BY <3>1, <3>2, PastTransitive DEF ViewInv
    <3>. QED BY <3>1, <3>2, <3>3 DEF ViewInv
  <2>2. ASSUME NEW e \in Endpoints, Sync(e) PROVE moved
    <3>1. tx' = tx /\ view' = [view EXCEPT ![e] = tx]
      BY <2>2 DEF Sync
    <3>. QED BY <3>1, PastReflexive DEF ViewInv
  <2>. QED BY <2>1, <2>2 DEF Network
<1>3. ViewInv'
  BY <1>1, <1>2 DEF ViewInv
<1>4. seen \in Nat /\ tx.era \in Nat /\ tx'.era \in Nat /\ seen <= tx.era /\ tx.era <= tx'.era
  BY <1>2, ViewFields, ChainsAssumption DEF ViewInv, CallerInv, TransfersTypeOK, Past
<1>5. ASSUME seen = tx'.era
      PROVE  /\ seen = tx.era
             /\ Included(tx) => Included(tx') /\ tx'.ok = tx.ok
             /\ tx.phase = "final" => tx'.phase = "final"
  BY <1>2, <1>4, <1>5 DEF Past
<1>6. CallerInv'
  <2>1. first # NoAnswer => Past(first, tx')
    BY <1>2, PastTransitive DEF ViewInv, CallerInv
  <2>. QED BY <1>1, <1>4, <2>1 DEF CallerInv, TransfersTypeOK
<1>7. (Arrived => Arrived') /\ (DeepEnough => DeepEnough')
  BY <1>1, <1>5 DEF Arrived, DeepEnough
<1>8. CreditInv'
  BY <1>1, <1>7 DEF CreditInv
<1>9. FinalInv'
  BY <1>1, <1>2 DEF FinalInv, Past
<1>10. RejectionHolds'
  BY <1>1, <1>5 DEF RejectionHolds
<1>11. TypeOK'
  BY <1>3, <1>6 DEF TypeOK, ViewInv, CallerInv
<1>12. VerdictHolds'
  <2>1. chain \notin Forking /\ Included(tx) => Included(tx') /\ tx'.ok = tx.ok
    BY <1>2 DEF Past, ViewInv
  <2>2. tx.phase = "final" => Included(tx') /\ tx'.ok = tx.ok
    BY <1>2 DEF Past, Included
  <2>. QED BY <1>1, <1>11, <2>1, <2>2 DEF VerdictHolds, FinalInv
<1>. QED BY <1>3, <1>6, <1>8, <1>9, <1>10, <1>12

-----------------------------------------------------------------------------
(* CheckTx answers s, from a view v that is not earlier than what the call *)
(* has seen.                                                               *)
LEMMA Answered ==
    ASSUME StatusInv, chain # "ton", NEW v \in Views, Past(v, tx),
           NEW s \in {"pending", "succeeded", "failed", "unknown", "error"},
           s = "succeeded" =>
             /\ Included(v) /\ (chain \notin {"algorand"} \union Infallible => v.ok)
             /\ chain = "solana" => v.phase = "final",
           s = "failed" /\ chain \notin {"algorand", "starknet"} => Included(v) /\ ~v.ok,
           UNCHANGED node, Tell(s), first' = NoAnswer, AfterStatus, UNCHANGED <<form, deep>>,
           seen' \in 0 .. MaxForks, seen' <= v.era
    PROVE  StatusInv'
<1>. USE DEF StatusInv
<1>1. UNCHANGED <<chain, tx, view, form, deep>> /\ last' = s
  BY DEF node, Tell
<1>2. ViewInv'
  BY <1>1 DEF ViewInv
<1>3. /\ chain \in AllChains /\ tx \in Views
      /\ v.era \in Nat /\ tx.era \in Nat /\ seen' \in Nat /\ v.era <= tx.era /\ seen' <= tx.era
      /\ v.ok \in BOOLEAN /\ tx.ok \in BOOLEAN
  BY ViewFields, ChainsAssumption DEF ViewInv, Past
<1>4. seen' = tx.era \/ chain \notin Forking \/ v.phase = "final" =>
        (Included(v) => Included(tx) /\ tx.ok = v.ok)
  BY <1>3 DEF Past, ViewInv
<1>5. s = "succeeded" => Arrived'
  BY <1>1, <1>3, <1>4 DEF Arrived, ViewInv
<1>6. /\ call' \in {"status", "height", "contents"} /\ report' \in {"none", "rejected"}
      /\ call' \in {"height", "contents"} => s = "succeeded" /\ chain \in Reporting /\ report' = "none"
      /\ call' = "contents" => ~deep
      /\ report' = "rejected" => s = "failed"
  BY <1>1 DEF AfterStatus
<1>7. told' \subseteq {"succeeded", "failed"} /\ \A w \in told' : w \in told \/ w = s
  BY DEF Tell, CallerInv
<1>8. CallerInv'
  BY <1>1, <1>3, <1>6, <1>7 DEF CallerInv, TransfersTypeOK
<1>9. CreditInv'
  BY <1>1, <1>5, <1>6 DEF CreditInv, DeepEnough
<1>10. FinalInv'
  BY <1>1, <1>7 DEF FinalInv, Past
<1>11. RejectionHolds'
  BY <1>1, <1>4, <1>6 DEF RejectionHolds
<1>12. TypeOK'
  BY <1>2, <1>8 DEF TypeOK, ViewInv, CallerInv
<1>13. VerdictHolds'
  <2>1. s = "succeeded" /\ chain \in (AllChains \ (Forking \union {"ton"})) \union {"solana"} =>
          Included(tx) /\ (chain # "algorand" => tx.ok)
    BY <1>3, <1>4 DEF Infallible, Forking
  <2>2. s = "failed" /\ chain \in AllChains \ (Forking \union {"algorand", "ton"}) =>
          Included(tx) /\ ~tx.ok
    BY <1>3, <1>4 DEF Forking
  <2>. QED BY <1>1, <1>7, <1>12, <2>1, <2>2 DEF VerdictHolds
<1>. QED BY <1>2, <1>8, <1>9, <1>10, <1>11, <1>13

(* The reads of CheckTx.                                                   *)
LEMMA StatusStep ==
    ASSUME StatusInv, chain # "ton",
           StatusError \/ \E e \in Endpoints : ReadStatus(e) \/ ReadStatusAgain(e)
    PROVE  StatusInv'
<1>. USE DEF StatusInv
<1>1. ASSUME NEW e \in Endpoints, ReadStatus(e) PROVE StatusInv'
  <2>. DEFINE v == view[e]
  <2>1. v \in Views /\ Past(v, tx) /\ v # NoAnswer /\ chain \in AllChains
    BY ChainsAssumption DEF ViewInv, NoAnswer, Outside, Views, Phases
  <2>2. v.era \in 0 .. MaxForks /\ v.era \in Nat
    BY <2>1, ViewFields DEF Views
  <2>3. /\ first = NoAnswer /\ UNCHANGED <<chain, tx, view, form, deep>>
        /\ seen' = v.era /\ AfterStatus
    BY <1>1 DEF ReadStatus, Ask, node
  <2>4. CASE First(chain, v) = ""
    <3>1. first' = v /\ UNCHANGED <<last, told>> /\ chain \in {"evm", "tron"}
      BY <1>1, <2>1, <2>4, FirstSays DEF ReadStatus, Ask
    <3>2. call' = "status" /\ report' = "none"
      BY <2>1, <2>3, <3>1 DEF AfterStatus
    <3>3. ViewInv'
      BY <2>3 DEF ViewInv
    <3>4. CallerInv'
      <4>1. seen' <= tx.era
        BY <2>1, <2>3 DEF Past
      <4>. QED BY <2>1, <2>2, <2>3, <3>1, <3>2, <4>1 DEF CallerInv, TransfersTypeOK
    <3>5. CreditInv' /\ RejectionHolds'
      BY <3>2 DEF CreditInv, RejectionHolds
    <3>6. FinalInv'
      BY <2>3, <3>1 DEF FinalInv
    <3>7. TypeOK'
      BY <3>3, <3>4 DEF TypeOK, ViewInv, CallerInv
    <3>8. VerdictHolds'
      BY <2>3, <3>1, <3>7 DEF VerdictHolds
    <3>. QED BY <3>3, <3>4, <3>5, <3>6, <3>8
  <2>5. CASE First(chain, v) # ""
    <3>1. PICK s \in Returned(chain, First(chain, v)) : Tell(s)
      BY <1>1, <2>3, <2>5 DEF ReadStatus, Ask
    <3>4. first' = NoAnswer /\ UNCHANGED node
      BY <1>1, <2>3, <2>5 DEF ReadStatus, Ask
    <3>. HIDE DEF v
    <3>2. /\ s \in {"pending", "succeeded", "failed", "unknown", "error"}
          /\ s = "succeeded" => Included(v) /\ (chain \notin {"algorand"} \union Infallible => v.ok)
          /\ s = "succeeded" /\ chain = "solana" => v.phase = "final"
          /\ s = "failed" /\ chain # "algorand" => Included(v) /\ ~v.ok
      <4>1. PICK w : w = v
        OBVIOUS
      <4>2. w \in Views /\ chain \in AllChains
        BY <2>1, <4>1
      <4>3. /\ First(chain, w) \in {"", "pending", "succeeded", "failed", "error"}
            /\ First(chain, w) = "succeeded" =>
                 Included(w) /\ (chain \notin {"algorand"} \union Infallible => w.ok)
            /\ First(chain, w) = "succeeded" /\ chain = "solana" => w.phase = "final"
            /\ First(chain, w) = "failed" /\ chain # "algorand" => Included(w) /\ ~w.ok
        BY <4>2, FirstSays
      <4>4. s = First(chain, w) \/ s = "unknown"
        BY <3>1, <4>1 DEF Returned
      <4>. QED BY <2>5, <4>1, <4>3, <4>4
    <3>3. v.era <= v.era
      BY <2>2
    <3>. QED BY <2>1, <2>2, <2>3, <3>1, <3>2, <3>3, <3>4, Answered
  <2>. QED BY <2>4, <2>5
<1>2. ASSUME NEW e \in Endpoints, ReadStatusAgain(e) PROVE StatusInv'
  <2>. DEFINE v == view[e]
              s == Second(chain, first, v)
  <2>1. /\ first # NoAnswer /\ chain \in {"evm", "tron"} /\ seen \in 0 .. MaxForks
        /\ Tell(s) /\ first' = NoAnswer /\ UNCHANGED node /\ AfterStatus /\ UNCHANGED <<form, deep>>
        /\ seen' = IF v.era < seen THEN v.era ELSE seen
    BY <1>2 DEF ReadStatusAgain, AskAgain, CallerInv, TransfersTypeOK
  <2>2. v \in Views /\ Past(v, tx)
    BY DEF ViewInv
  <2>3. v.era \in 0 .. MaxForks
    BY <2>2 DEF Views
  <2>4. seen' \in 0 .. MaxForks /\ seen' <= v.era
    BY <2>1, <2>3, ChainsAssumption
  <2>5. /\ s \in {"pending", "succeeded", "failed"}
        /\ s = "succeeded" => Included(v) /\ v.ok
        /\ s = "failed" => Included(v) /\ ~v.ok
    BY <2>1, SecondSays
  <2>. HIDE DEF s, v
  <2>. QED BY <2>1, <2>2, <2>4, <2>5, Answered
<1>3. ASSUME StatusError PROVE StatusInv'
  <2>1. PICK s \in OnError(chain) : Tell(s)
    BY <1>3 DEF StatusError, NodeError
  <2>2. s \in {"pending", "error", "failed"} /\ (s = "failed" => chain = "starknet")
    BY <2>1, ErrorSays
  <2>3. tx \in Views /\ Past(tx, tx)
    BY PastReflexive DEF ViewInv
  <2>4. seen' \in 0 .. MaxForks /\ seen' <= tx.era
    BY <1>3 DEF StatusError, CallerInv, TransfersTypeOK
  <2>. QED BY <1>3, <2>1, <2>2, <2>3, <2>4, Answered DEF StatusError, NodeError
<1>. QED BY <1>1, <1>2, <1>3

-----------------------------------------------------------------------------
(* What the handlers make of the contents.                                 *)
LEMMA ContentsSay ==
    ASSUME NEW c \in Reporting, NEW v \in Views, NEW r \in Contents(c, v),
           form \in {"native", "token", "other"}
    PROVE  /\ r \in {"transfers", "rejected", "error", "panic"}
           /\ r = "rejected" /\ c \notin {"utxo", "cosmos", "starknet", "algorand"} =>
                form = "other" \/ (c = "stellar" /\ (form = "token" \/ (Included(v) /\ ~v.ok)))
<1>1. \A forms : /\ Supporting(forms) \in {"transfers", "rejected"}
                 /\ Supporting(forms) = "rejected" => form \notin forms
  BY DEF Supporting
<1>2. CASE c = "cosmos"
  BY <1>1, <1>2 DEF Contents, CosmosContents
<1>3. CASE c = "utxo"
  BY <1>1, <1>3 DEF Contents, UtxoContents
<1>4. CASE c = "tron"
  BY <1>1, <1>4 DEF Contents, TronContents
<1>5. CASE c = "near"
  BY <1>1, <1>5 DEF Contents, NearContents
<1>6. CASE c = "algorand"
  BY <1>1, <1>6 DEF Contents, AlgorandContents
<1>7. CASE c = "filecoin"
  BY <1>1, <1>7 DEF Contents, FilecoinContents
<1>8. CASE c = "stellar"
  BY <1>1, <1>8 DEF Contents, StellarContents
<1>9. CASE c = "starknet"
  BY <1>1, <1>9 DEF Contents, StarknetContents
<1>. QED BY <1>2, <1>3, <1>4, <1>5, <1>6, <1>7, <1>8, <1>9 DEF Reporting

(* The reads of GetTransfersByHash that follow.                            *)
LEMMA ReadStep ==
    ASSUME StatusInv, chain # "ton",
           \/ \E e \in Endpoints : ReadHeight(e) \/ ReadContents(e)
           \/ ReadError \/ Restart
    PROVE  StatusInv'
<1>. USE DEF StatusInv
<1>1. UNCHANGED <<chain, tx, view, first, last, told, form, deep, seen>>
  BY DEF ReadHeight, ReadContents, ReadError, Restart, vars
<1>2. ViewInv' /\ FinalInv'
  BY <1>1 DEF ViewInv, FinalInv
<1>3. VerdictHolds'
  BY <1>1 DEF VerdictHolds, TypeOK
<1>4. Arrived' = Arrived /\ DeepEnough' = DeepEnough
  BY <1>1 DEF Arrived, DeepEnough
<1>5. ASSUME NEW e \in Endpoints, ReadHeight(e)
      PROVE  CallerInv' /\ CreditInv' /\ RejectionHolds'
  <2>. DEFINE v == view[e]
  <2>1. /\ call = "height" /\ report = "none" /\ report' = report /\ chain \in Reporting
        /\ call' \in {"contents", "status"} /\ (call' = "contents" => TRUE \in Enough(v))
    BY <1>5 DEF ReadHeight, CallerInv
  <2>2. Past(v, tx) /\ v.era \in Nat /\ tx.era \in Nat /\ seen \in Nat
    BY ViewFields, ChainsAssumption DEF ViewInv, CallerInv, TransfersTypeOK
  <2>3. TRUE \in Enough(v) => v.era > seen \/ (v.era = seen /\ v.phase = "final")
    <3>1. CASE v.era = seen
      <4>1. Enough(v) = {v.phase = "final"}
        BY <3>1 DEF Enough
      <4>. QED BY <3>1, <4>1
    <3>2. CASE v.era < seen
      <4>1. Enough(v) = {FALSE}
        <5>1. v.era # seen
          BY <2>2, <3>2
        <5>. QED BY <3>2, <5>1 DEF Enough
      <4>. QED BY <4>1
    <3>. QED BY <2>2, <3>1, <3>2
  <2>4. TRUE \in Enough(v) => DeepEnough
    BY <2>2, <2>3 DEF DeepEnough, Past
  <2>5. CallerInv'
    BY <1>1, <2>1 DEF CallerInv, TransfersTypeOK
  <2>6. CreditInv'
    BY <1>4, <2>1, <2>4 DEF CreditInv
  <2>. QED BY <2>1, <2>5, <2>6 DEF RejectionHolds
<1>6. ASSUME NEW e \in Endpoints, ReadContents(e)
      PROVE  CallerInv' /\ CreditInv' /\ RejectionHolds'
  <2>1. PICK r \in Contents(chain, view[e]) :
          /\ call' = IF r = "panic" THEN "panic" ELSE "status"
          /\ report' = IF r \in {"error", "panic"} THEN "none" ELSE r
    BY <1>6 DEF ReadContents
  <2>2. call = "contents" /\ chain \in Reporting /\ form \in {"native", "token", "other"}
    BY <1>6 DEF ReadContents, CallerInv
  <2>3. view[e] \in Views /\ Past(view[e], tx)
    BY DEF ViewInv
  <2>4. /\ r \in {"transfers", "rejected", "error", "panic"}
        /\ r = "rejected" /\ chain \notin {"utxo", "cosmos", "starknet", "algorand"} =>
             \/ form = "other"
             \/ chain = "stellar" /\ (form = "token" \/ (Included(view[e]) /\ ~view[e].ok))
    BY <2>1, <2>2, <2>3, ContentsSay
  <2>5. first = NoAnswer
    BY <2>2 DEF CallerInv
  <2>6. CallerInv'
    BY <1>1, <2>1, <2>2, <2>4, <2>5 DEF CallerInv, TransfersTypeOK
  <2>7. CreditInv'
    BY <1>4, <2>1, <2>2 DEF CreditInv
  <2>8. chain = "stellar" /\ Included(view[e]) /\ ~view[e].ok => Included(tx) /\ ~tx.ok
    <3>1. view[e].era \in Nat /\ tx.era \in Nat /\ (chain = "stellar" => tx.era = 0)
      BY <2>3, ViewFields DEF ViewInv, Forking
    <3>. QED BY <2>3, <3>1 DEF Past
  <2>. QED BY <1>1, <2>1, <2>4, <2>6, <2>7, <2>8 DEF RejectionHolds
<1>7. ASSUME ReadError PROVE CallerInv' /\ CreditInv' /\ RejectionHolds'
  <2>1. /\ call \in {"height", "contents"} /\ call' = "status"
        /\ report' \in {"none", "rejected"} /\ (report' = "rejected" => chain = "utxo")
    BY <1>7 DEF ReadError
  <2>2. first = NoAnswer
    BY <2>1 DEF CallerInv
  <2>. QED BY <1>1, <1>4, <2>1, <2>2 DEF CallerInv, TransfersTypeOK, CreditInv, RejectionHolds
<1>8. ASSUME Restart PROVE CallerInv' /\ CreditInv' /\ RejectionHolds'
  <2>1. call = "panic" /\ call' = "status" /\ report' = report
    BY <1>8 DEF Restart
  <2>2. first = NoAnswer
    BY <2>1 DEF CallerInv
  <2>. QED BY <1>1, <1>4, <2>1, <2>2 DEF CallerInv, TransfersTypeOK, CreditInv, RejectionHolds
<1>. QED BY <1>2, <1>3, <1>5, <1>6, <1>7, <1>8

LEMMA TransfersStep == ASSUME StatusInv, chain # "ton", TransfersNext PROVE StatusInv'
BY NetworkStep, StatusStep, ReadStep DEF TransfersNext

-----------------------------------------------------------------------------
(* TON.  The end of a trace is the only transaction that sends nothing.    *)
Transactions == [ok : BOOLEAN, outs : 0 .. 2]

Ended(t) ==
    /\ t \in Seq(Transactions) /\ Len(t) > 0
    /\ \A i \in 1 .. Len(t) : t[i].outs = 0 <=> i = Len(t)

LEMMA StepIs ==
    ASSUME NEW ok \in BOOLEAN, NEW n \in 0 .. 2
    PROVE  /\ Step(ok, n) \in Transactions
           /\ Step(ok, n).ok = ok /\ Step(ok, n).outs = n
BY DEF Step, Transactions

LEMMA EndedAlone ==
    ASSUME NEW s \in Transactions, s.outs = 0 PROVE Ended(<<s>>)
BY DEF Ended

LEMMA EndedShort ==
    ASSUME NEW g \in Transactions, g.outs # 0, NEW s \in Transactions, s.outs = 0
    PROVE  Ended(<<g, s>>) /\ Ended(<<g, g, s>>)
BY DEF Ended

LEMMA EndedBehind ==
    ASSUME NEW s \in Transactions, s.outs # 0, NEW t, Ended(t) PROVE Ended(<<s>> \o t)
<1>. DEFINE u == <<s>> \o t
<1>1. t \in Seq(Transactions) /\ Len(t) \in Nat /\ Len(t) > 0
  BY DEF Ended
<1>2. u \in Seq(Transactions) /\ Len(u) = Len(t) + 1
  BY <1>1
<1>3. u[1] = s /\ \A i \in 1 .. Len(t) : u[i + 1] = t[i]
  BY <1>1
<1>4. ASSUME NEW i \in 1 .. Len(u) PROVE u[i].outs = 0 <=> i = Len(u)
  <2>1. CASE i = 1
    BY <1>1, <1>2, <1>3, <2>1
  <2>2. CASE i # 1
    <3>1. i - 1 \in 1 .. Len(t) /\ u[i] = t[i - 1]
      <4>1. i - 1 \in 1 .. Len(t) /\ (i - 1) + 1 = i
        BY <1>1, <1>2, <2>2
      <4>. QED BY <1>3, <4>1
    <3>2. t[i - 1].outs = 0 <=> i - 1 = Len(t)
      BY <3>1 DEF Ended
    <3>. QED BY <1>1, <1>2, <3>1, <3>2
  <2>. QED BY <2>1, <2>2
<1>5. \A i \in 1 .. Len(u) : u[i].outs = 0 <=> i = Len(u)
  BY <1>4
<1>6. Len(u) > 0
  BY <1>1, <1>2
<1>. HIDE DEF u
<1>7. Ended(u)
  BY <1>2, <1>5, <1>6 DEF Ended
<1>. QED BY <1>7 DEF u

(* Every trace of a payment comes to its end.                              *)
LEMMA TracesEnd ==
    ASSUME NEW f \in {"native", "token", "other"}, NEW t \in Traces(f) PROVE Ended(t)
<1>1. \A ok \in BOOLEAN : Ended(<<Step(ok, 0)>>)
  BY StepIs, EndedAlone
<1>2. \A s \in Ends : Ended(<<s>>)
  BY <1>1 DEF Ends
<1>3. \A ok \in BOOLEAN, n \in 1 .. 2 : \A u : Ended(u) => Ended(<<Step(ok, n)>> \o u)
  <2>. SUFFICES ASSUME NEW ok \in BOOLEAN, NEW n \in 1 .. 2, NEW u, Ended(u)
                PROVE  Ended(<<Step(ok, n)>> \o u)
    OBVIOUS
  <2>1. Step(ok, n) \in Transactions /\ Step(ok, n).outs = n
    BY StepIs
  <2>. QED BY <2>1, EndedBehind
<1>4. \A u : Ended(u) => Ended(<<Go>> \o u)
  <2>1. 1 \in 1 .. 2 /\ TRUE \in BOOLEAN
    OBVIOUS
  <2>2. \A u : Ended(u) => Ended(<<Step(TRUE, 1)>> \o u)
    BY <1>3, <2>1
  <2>. QED BY <2>2 DEF Go
<1>5. Ended(Bounced)
  <2>1. Step(FALSE, 1) \in Transactions /\ Step(FALSE, 1).outs # 0
    BY DEF Step, Transactions
  <2>2. Step(TRUE, 0) \in Transactions /\ Step(TRUE, 0).outs = 0
    BY DEF Step, Transactions
  <2>3. Ended(<<Step(FALSE, 1), Step(TRUE, 0)>>)
    <3>. DEFINE g == Step(FALSE, 1)
                s == Step(TRUE, 0)
    <3>1. g \in Transactions /\ g.outs # 0 /\ s \in Transactions /\ s.outs = 0
      BY <2>1, <2>2
    <3>. HIDE DEF g, s
    <3>2. Ended(<<g, s>>)
      BY <3>1, EndedShort
    <3>. QED BY <3>2 DEF g, s
  <2>. QED BY <2>3 DEF Bounced
<1>6. \A u \in Native : Ended(u)
  BY <1>2, <1>5 DEF Native
<1>7. \A ok \in BOOLEAN : Ended(<<Go, Step(ok, 0)>>) /\ Ended(<<Go, Go, Step(ok, 0)>>)
  <2>. SUFFICES ASSUME NEW ok \in BOOLEAN
                PROVE  Ended(<<Go, Step(ok, 0)>>) /\ Ended(<<Go, Go, Step(ok, 0)>>)
    OBVIOUS
  <2>1. Go \in Transactions /\ Go.outs = 1
    BY DEF Go, Step, Transactions
  <2>2. Step(ok, 0) \in Transactions /\ Step(ok, 0).outs = 0
    BY StepIs
  <2>. QED BY <2>1, <2>2, EndedShort
<1>8. \A u \in Token : Ended(u)
  <2>1. \A s \in Ends : Ended(<<Go, Go, s>>)
    BY <1>7 DEF Ends
  <2>2. Ended(<<Go>> \o Bounced)
    BY <1>4, <1>5
  <2>3. Ended(<<Go, Step(TRUE, 0)>>)
    BY <1>7
  <2>. QED BY <1>5, <2>1, <2>2, <2>3 DEF Token
<1>9. CASE f = "native"
  <2>1. Traces(f) = {<<s>> : s \in Ends} \union {<<Go>> \o u : u \in Native}
    BY <1>9 DEF Traces
  <2>. QED BY <1>2, <1>4, <1>6, <2>1, Zenon
<1>10. CASE f = "token"
  <2>1. Traces(f) = {<<s>> : s \in Ends} \union {<<Go>> \o u : u \in Token}
    BY <1>10 DEF Traces
  <2>. QED BY <1>2, <1>4, <1>8, <2>1, Zenon
<1>11. CASE f = "other"
  <2>1. Traces(f) = {<<s>> : s \in Ends} \union 
                UNION {{<<Step(TRUE, n)>> \o u : u \in Native \union Token} : n \in 1 .. 2}
    BY <1>11 DEF Traces
  <2>2. \A n \in 1 .. 2, u \in Native \union Token : Ended(<<Step(TRUE, n)>> \o u)
    BY <1>3, <1>6, <1>8
  <2>3. \/ \E s \in Ends : t = <<s>>
        \/ \E n \in 1 .. 2, u \in Native \union Token : t = <<Step(TRUE, n)>> \o u
    BY <2>1
  <2>. QED BY <1>2, <2>2, <2>3, Zenon
<1>. QED BY <1>9, <1>10, <1>11

-----------------------------------------------------------------------------
(* Every endpoint has a part of what is executed of the trace.             *)
TraceInv ==
    /\ chain = "ton" => Ended(trace)
    /\ chain # "ton" => trace = <<>>
    /\ TraceVerdictHolds

LEMMA FoundIs ==
    ASSUME TonTypeOK, trace \in Seq(Transactions), NEW k \in 1 .. Len(trace), TRUE \in Found(k)
    PROVE  k <= done
<1>1. PICK e \in Endpoints : synced[e] >= k
  BY DEF Found
<1>2. synced[e] \in 0 .. done /\ done \in Nat
  BY DEF TonTypeOK
<1>. QED BY <1>1, <1>2

(* The walk ends well only behind the last transaction, all of which but   *)
(* the last it saw succeed; and badly only where one failed, which is not  *)
(* the last unless it is the first as well.                                *)
LEMMA WalkSays ==
    ASSUME TonTypeOK, Ended(trace), Len(trace) > 1
    PROVE  /\ Walk(2) \subseteq {"missing", "good", "bad"}
           /\ "good" \in Walk(2) =>
                done = Len(trace) /\ \A i \in 2 .. Len(trace) : trace[i].ok \/ i = Len(trace)
           /\ "bad" \in Walk(2) =>
                \E i \in 2 .. Len(trace) : ~trace[i].ok /\ (i # Len(trace) \/ i = 2)
<1>. DEFINE reached == {k \in 2 .. Len(trace) :
                          \A j \in 2 .. k - 1 : TRUE \in Found(j) /\ GoesOn(j)}
            at(k) == IF trace[k].outs = 0 /\ (k > 2 \/ trace[k].ok) THEN "good" ELSE "bad"
            stops == {r \in reached : TRUE \in Found(r) /\ ~GoesOn(r)}
<1>1. trace \in Seq(Transactions) /\ Len(trace) \in Nat /\ done \in 0 .. Len(trace)
  BY DEF Ended, TonTypeOK
<1>2. Walk(2) = {"missing" : k \in {r \in reached : FALSE \in Found(r)}} \union {at(k) : k \in stops}
  BY DEF Walk
<1>3. \A k \in 2 .. Len(trace) : k \in 1 .. Len(trace) /\ trace[k].ok \in BOOLEAN
  <2>1. \A k \in 1 .. Len(trace) : trace[k] \in Transactions
    BY <1>1
  <2>. QED BY <1>1, <2>1 DEF Transactions
<1>4. ASSUME NEW k \in stops, trace[k].outs = 0
      PROVE  done = Len(trace) /\ \A i \in 2 .. Len(trace) : trace[i].ok \/ i = Len(trace)
  <2>1. k \in 2 .. Len(trace) /\ k \in 1 .. Len(trace) /\ TRUE \in Found(k)
    BY <1>3
  <2>2. k = Len(trace)
    BY <1>4, <2>1 DEF Ended
  <2>3. done = Len(trace)
    <3>1. k <= done
      BY <1>1, <2>1, FoundIs
    <3>. QED BY <1>1, <2>2, <3>1
  <2>4. \A i \in 2 .. Len(trace) - 1 : GoesOn(i)
    BY <2>2
  <2>5. \A i \in 2 .. Len(trace) : i \in 2 .. Len(trace) - 1 \/ i = Len(trace)
    BY <1>1
  <2>. QED BY <2>3, <2>4, <2>5 DEF GoesOn
<1>5. ASSUME NEW k \in stops, at(k) = "bad"
      PROVE  \E i \in 2 .. Len(trace) : ~trace[i].ok /\ (i # Len(trace) \/ i = 2)
  <2>1. k \in 2 .. Len(trace) /\ k \in 1 .. Len(trace) /\ ~GoesOn(k)
    BY <1>3
  <2>2. ~(trace[k].outs = 0 /\ (k > 2 \/ trace[k].ok))
    BY <1>5
  <2>3. CASE trace[k].outs = 0
    BY <1>1, <2>1, <2>2, <2>3
  <2>4. CASE trace[k].outs # 0
    <3>1. k # Len(trace)
      BY <2>1, <2>4 DEF Ended
    <3>. QED BY <2>1, <2>4, <3>1 DEF GoesOn
  <2>. QED BY <2>3, <2>4
<1>6. \A k \in stops : at(k) = "good" => trace[k].outs = 0
  OBVIOUS
<1>7. \A k : at(k) \in {"good", "bad"}
  OBVIOUS
<1>. HIDE DEF reached, at, stops
<1>. QED BY <1>2, <1>4, <1>5, <1>6, <1>7

(* What CheckTx makes of the trace, whatever the endpoints have of it.     *)
LEMMA TonSays ==
    ASSUME TonTypeOK, Ended(trace), NEW s \in TonStatuses
    PROVE  /\ s \in {"pending", "succeeded", "failed"}
           /\ s = "succeeded" => done = Len(trace) /\ Moved
           /\ s = "failed" => ~Moved \/ KeptByContract
<1>1. PICK found \in Found(1), in \in InStatus, out \in OutStatus :
        s = IF ~found \/ "missing" \in {in, out} THEN "pending"
            ELSE IF in = "good" /\ out = "good" THEN "succeeded" ELSE "failed"
  BY DEF TonStatuses
<1>2. /\ trace \in Seq(Transactions) /\ Len(trace) \in Nat /\ Len(trace) > 0
      /\ 1 \in 1 .. Len(trace) /\ trace[1].ok \in BOOLEAN
  <2>1. /\ trace \in Seq(Transactions) /\ Len(trace) \in Nat /\ Len(trace) > 0
        /\ 1 \in 1 .. Len(trace)
    BY DEF Ended
  <2>2. trace[1] \in Transactions
    BY <2>1
  <2>. QED BY <2>1, <2>2 DEF Transactions
<1>3. /\ in \in {"missing", "good", "bad"}
      /\ in = "good" => trace[1].ok
      /\ in = "bad" => ~trace[1].ok
  BY <1>2 DEF InStatus
<1>4. trace[1].outs = 0 <=> Len(trace) = 1
  BY <1>2 DEF Ended
<1>5. CASE Len(trace) = 1
  <2>1. out = "bad" /\ ~Moved
    BY <1>4, <1>5 DEF OutStatus, Moved
  <2>. QED BY <1>1, <2>1
<1>6. CASE Len(trace) > 1
  <2>1. out \in Walk(2)
    BY <1>4, <1>6 DEF OutStatus
  <2>2. out \in {"missing", "good", "bad"}
    BY <1>6, <2>1, WalkSays
  <2>3. s = "succeeded" => in = "good" /\ out = "good"
    BY <1>1
  <2>4. s = "failed" => in = "bad" \/ out = "bad"
    BY <1>1, <1>3, <2>2
  <2>5. s \in {"pending", "succeeded", "failed"}
    BY <1>1
  <2>6. s = "succeeded" => done = Len(trace) /\ Moved
    BY <1>3, <1>6, <2>1, <2>3, WalkSays DEF Moved
  <2>7. out = "bad" => ~Moved \/ KeptByContract
    <3>. SUFFICES ASSUME out = "bad" PROVE ~Moved \/ KeptByContract
      OBVIOUS
    <3>1. PICK i \in 2 .. Len(trace) : ~trace[i].ok /\ (i # Len(trace) \/ i = 2)
      BY <1>6, <2>1, WalkSays
    <3>2. CASE i # Len(trace)
      BY <3>1, <3>2 DEF Moved
    <3>3. CASE i = Len(trace)
      BY <3>1, <3>3 DEF KeptByContract
    <3>. QED BY <3>2, <3>3
  <2>8. in = "bad" => ~Moved
    BY <1>3 DEF Moved
  <2>. QED BY <2>4, <2>5, <2>6, <2>7, <2>8
<1>7. Len(trace) = 1 \/ Len(trace) > 1
  <2>1. \A n \in Nat : n > 0 => n = 1 \/ n > 1
    OBVIOUS
  <2>. QED BY <1>2, <2>1
<1>. QED BY <1>5, <1>6, <1>7

-----------------------------------------------------------------------------
AllInv == StatusInv /\ TraceInv

LEMMA AllInit == TonInit => AllInv
<1>. SUFFICES ASSUME TonInit PROVE AllInv
  OBVIOUS
<1>1. StatusInv
  BY StatusInit DEF TonInit
<1>2. chain = "ton" => Ended(trace)
  <2>1. form \in {"native", "token", "other"}
    BY <1>1 DEF StatusInv, CallerInv
  <2>. QED BY <2>1, TracesEnd DEF TonInit
<1>3. chain # "ton" => trace = <<>>
  BY DEF TonInit
<1>4. TonTypeOK
  <2>1. Len(trace) \in Nat
    BY <1>2, <1>3 DEF Ended
  <2>2. done = 0 /\ blamed = FALSE /\ synced = [e \in Endpoints |-> 0]
    BY DEF TonInit
  <2>3. done \in 0 .. Len(trace) /\ 0 \in 0 .. done
    BY <2>1, <2>2
  <2>4. synced \in [Endpoints -> 0 .. done]
    BY <2>2, <2>3
  <2>. QED BY <1>3, <2>2, <2>3, <2>4 DEF TonTypeOK
<1>5. told = {} /\ report = "none"
  BY DEF TonInit, TransfersInit, Init
<1>6. TraceVerdictHolds
  BY <1>4, <1>5 DEF TraceVerdictHolds
<1>. QED BY <1>1, <1>2, <1>3, <1>6 DEF AllInv, TraceInv

(* The caller of TON is told s.                                            *)
LEMMA TonTold ==
    ASSUME AllInv, chain = "ton", NEW s \in {"pending", "succeeded", "failed", "error"},
           Tell(s), report' = TonReport(s), blamed' \in BOOLEAN, blamed => blamed',
           UNCHANGED <<node, first, form, deep, call, seen, trace, done, synced>>,
           s = "succeeded" => done = Len(trace) /\ Moved,
           s = "failed" => ~Moved \/ KeptByContract \/ blamed'
    PROVE  AllInv'
<1>. USE DEF AllInv, StatusInv
<1>1. UNCHANGED <<chain, tx, view>> /\ last' = s
  BY DEF node, Tell
<1>2. told' \subseteq {"succeeded", "failed"} /\ \A w \in told' : w \in told \/ w = s
  BY DEF Tell, CallerInv
<1>3. /\ report' \in {"none", "transfers", "rejected"}
      /\ report' = "transfers" => s = "succeeded"
      /\ report' = "rejected" => s = "failed"
  BY DEF TonReport
<1>4. ViewInv'
  BY <1>1 DEF ViewInv
<1>5. call \notin {"height", "contents"} /\ first = NoAnswer
  BY DEF CallerInv, Reporting
<1>6. CallerInv'
  BY <1>1, <1>2, <1>3, <1>5 DEF CallerInv, TransfersTypeOK
<1>7. CreditInv' /\ RejectionHolds' /\ FinalInv'
  BY <1>1, <1>5 DEF CreditInv, RejectionHolds, FinalInv
<1>8. TypeOK'
  BY <1>4, <1>6 DEF TypeOK, ViewInv, CallerInv
<1>9. VerdictHolds'
  BY <1>1, <1>8 DEF VerdictHolds, Forking
<1>10. Moved' = Moved /\ KeptByContract' = KeptByContract
  BY DEF Moved, KeptByContract
<1>11. TonTypeOK'
  BY <1>1 DEF TonTypeOK, TraceInv, TraceVerdictHolds
<1>12. TraceVerdictHolds'
  BY <1>1, <1>2, <1>3, <1>10, <1>11 DEF TraceVerdictHolds, TraceInv
<1>13. TraceInv'
  BY <1>1, <1>12 DEF TraceInv, Ended
<1>. QED BY <1>4, <1>6, <1>7, <1>9, <1>13

LEMMA AllStep == AllInv /\ [AllNext]_everything => AllInv'
<1>. SUFFICES ASSUME AllInv, [AllNext]_everything PROVE AllInv'
  OBVIOUS
<1>. USE DEF AllInv
<1>1. ASSUME UNCHANGED all PROVE StatusInv'
  BY <1>1 DEF all, vars, StatusInv, ViewInv, CallerInv, CreditInv, FinalInv, VerdictHolds,
              RejectionHolds, TypeOK, TransfersTypeOK, Arrived, DeepEnough
<1>2. TonTypeOK /\ Len(trace) \in Nat /\ done \in Nat
  <2>1. TonTypeOK /\ Len(trace) \in Nat
    BY DEF TraceInv, TraceVerdictHolds, Ended
  <2>. QED BY <2>1 DEF TonTypeOK
<1>3. CASE chain # "ton" /\ TransfersNext /\ UNCHANGED ton
  <2>1. StatusInv'
    BY <1>3, TransfersStep
  <2>2. chain' = chain
    BY <1>3 DEF TransfersNext, Network, Submit, Evict, Fork, Finalize, Include, Sync,
                ReadStatus, ReadStatusAgain, ReadHeight, ReadContents, StatusError, ReadError,
                Restart, Ask, AskAgain, NodeError, node, vars
  <2>3. TonTypeOK'
    BY <1>2, <1>3, <2>2 DEF ton, TonTypeOK
  <2>. QED BY <1>3, <2>1, <2>2, <2>3 DEF TraceInv, TraceVerdictHolds, ton
<1>4. CASE TonExecute
  <2>1. UNCHANGED <<all, trace, synced, blamed>> /\ done < Len(trace) /\ done' = done + 1
    BY <1>4 DEF TonExecute
  <2>2. UNCHANGED <<chain, told, report>>
    BY <2>1 DEF all, vars
  <2>3. TonTypeOK'
    <3>1. done' \in 0 .. Len(trace) /\ 0 .. done \subseteq 0 .. done'
      BY <1>2, <2>1
    <3>2. synced' \in [Endpoints -> 0 .. done']
      BY <1>2, <2>1, <3>1 DEF TonTypeOK
    <3>. QED BY <1>2, <2>1, <2>2, <3>1, <3>2 DEF TonTypeOK
  <2>4. done # Len(trace)
    BY <1>2, <2>1
  <2>5. Moved' = Moved /\ KeptByContract' = KeptByContract
    BY <2>1 DEF Moved, KeptByContract
  <2>6. TraceVerdictHolds'
    BY <2>1, <2>2, <2>3, <2>4, <2>5 DEF TraceInv, TraceVerdictHolds
  <2>. QED BY <1>1, <2>1, <2>2, <2>6 DEF TraceInv, Ended
<1>5. ASSUME NEW e \in Endpoints, TonSync(e) PROVE AllInv'
  <2>1. UNCHANGED <<all, trace, done, blamed>> /\ synced' = [synced EXCEPT ![e] = done]
    BY <1>5 DEF TonSync
  <2>2. UNCHANGED <<chain, told, report>>
    BY <2>1 DEF all, vars
  <2>3. TonTypeOK'
    BY <1>2, <2>1, <2>2 DEF TonTypeOK
  <2>4. Moved' = Moved /\ KeptByContract' = KeptByContract
    BY <2>1 DEF Moved, KeptByContract
  <2>5. TraceVerdictHolds'
    BY <2>1, <2>2, <2>3, <2>4 DEF TraceInv, TraceVerdictHolds
  <2>. QED BY <1>1, <2>1, <2>2, <2>5 DEF TraceInv, Ended
<1>6. CASE TonCall
  <2>1. /\ chain = "ton"
        /\ UNCHANGED <<node, first, form, deep, call, seen, trace, done, synced, blamed>>
    BY <1>6 DEF TonCall, ton
  <2>2. PICK s \in TonStatuses : Tell(s) /\ report' = TonReport(s)
    BY <1>6 DEF TonCall
  <2>3. Ended(trace)
    BY <2>1 DEF TraceInv
  <2>4. /\ s \in {"pending", "succeeded", "failed"}
        /\ s = "succeeded" => done = Len(trace) /\ Moved
        /\ s = "failed" => ~Moved \/ KeptByContract
    BY <1>2, <2>2, <2>3, TonSays
  <2>5. blamed' \in BOOLEAN /\ (blamed => blamed')
    BY <1>2, <2>1 DEF TonTypeOK
  <2>. QED BY <2>1, <2>2, <2>4, <2>5, TonTold
<1>7. CASE TonError
  <2>1. /\ chain = "ton"
        /\ UNCHANGED <<node, first, form, deep, call, seen, trace, done, synced>>
    BY <1>7 DEF TonError
  <2>2. PICK s \in {"error", "failed"} :
          Tell(s) /\ report' = TonReport(s) /\ blamed' = (blamed \/ s = "failed")
    BY <1>7 DEF TonError
  <2>3. blamed' \in BOOLEAN /\ (blamed => blamed') /\ (s = "failed" => blamed')
    BY <2>2
  <2>. QED BY <2>1, <2>2, <2>3, TonTold
<1>8. CASE UNCHANGED everything
  <2>1. UNCHANGED <<all, trace, done, synced, blamed>>
    BY <1>8 DEF everything, ton
  <2>2. UNCHANGED <<chain, told, report>>
    BY <2>1 DEF all, vars
  <2>. QED BY <1>1, <2>1, <2>2 DEF TraceInv, Ended, TraceVerdictHolds, TonTypeOK, Moved, KeptByContract
<1>. QED BY <1>3, <1>4, <1>5, <1>6, <1>7, <1>8 DEF AllNext

(* What is known of the transaction and its caller at every moment.        *)
THEOREM StatusKept == AllSpec => []AllInv
<1>1. TonInit => AllInv
  BY AllInit
<1>2. AllInv /\ [AllNext]_everything => AllInv'
  BY AllStep
<1>. QED BY <1>1, <1>2, PTL DEF AllSpec

(* A verdict of CheckTx is never taken back, on the chains without forks   *)
(* and on Solana, whichever of the endpoints answer and how late they are. *)
THEOREM VerdictSound == AllSpec => []VerdictHolds
<1>1. AllInv => VerdictHolds
  BY DEF AllInv, StatusInv
<1>. QED BY <1>1, StatusKept, PTL

(* GetTransfersByHash reports transfers only of a transaction that         *)
(* succeeded, with the confirmations asked for, unless a fork took it.     *)
THEOREM TransfersSound == AllSpec => []TransfersSettled
<1>1. AllInv => TransfersSettled
  BY DEF AllInv, StatusInv, CallerInv, CreditInv, Arrived, DeepEnough, TransfersSettled
<1>. QED BY <1>1, StatusKept, PTL

(* GetTransfersByHash rejects only what failed or what it does not know,   *)
(* but for the four handlers that take a node's mistake for a rejection.   *)
THEOREM RejectionSound == AllSpec => []RejectionHolds
<1>1. AllInv => RejectionHolds
  BY DEF AllInv, StatusInv
<1>. QED BY <1>1, StatusKept, PTL

(* CheckTx and GetTransfersByHash of TON never speak before the trace has  *)
(* come to its end, or has failed on the way (getHashStatus).              *)
THEOREM TraceVerdictSound == AllSpec => []TraceVerdictHolds
<1>1. AllInv => TraceVerdictHolds
  BY DEF AllInv, TraceInv
<1>. QED BY <1>1, StatusKept, PTL

-----------------------------------------------------------------------------
(* Trace addresses: a frame is a prefix of those that run in it.           *)
LEMMA PrefixIs ==
    ASSUME NEW p \in Seq(Nat), NEW q \in Seq(Nat)
    PROVE  IsPrefix(p, q) <=> Len(p) <= Len(q) /\ \A i \in 1 .. Len(p) : p[i] = q[i]
<1>1. CASE Len(p) <= Len(q)
  <2>1. SubSeq(p, 1, Len(p)) \in Seq(Nat) /\ Len(SubSeq(p, 1, Len(p))) = Len(p)
        /\ \A i \in 1 .. Len(p) : SubSeq(p, 1, Len(p))[i] = p[i]
    OBVIOUS
  <2>2. SubSeq(q, 1, Len(p)) \in Seq(Nat) /\ Len(SubSeq(q, 1, Len(p))) = Len(p)
        /\ \A i \in 1 .. Len(p) : SubSeq(q, 1, Len(p))[i] = q[i]
    BY <1>1
  <2>3. PICK s \in Seq(Nat), t \in Seq(Nat) : s = SubSeq(p, 1, Len(p)) /\ t = SubSeq(q, 1, Len(p))
    BY <2>1, <2>2
  <2>4. s = t <=> \A i \in 1 .. Len(p) : s[i] = t[i]
    BY <2>1, <2>2, <2>3
  <2>. QED BY <1>1, <2>1, <2>2, <2>3, <2>4 DEF IsPrefix
<1>2. CASE ~(Len(p) <= Len(q))
  BY <1>2 DEF IsPrefix
<1>. QED BY <1>1, <1>2

LEMMA PrefixesAre ==
    ASSUME NEW q \in Seq(Nat)
    PROVE  \A p \in Seq(Nat) : p \in Prefixes(q) <=> IsPrefix(p, q)
<1>. SUFFICES ASSUME NEW p \in Seq(Nat) PROVE p \in Prefixes(q) <=> IsPrefix(p, q)
  OBVIOUS
<1>1. ASSUME NEW k \in 0 .. Len(q)
      PROVE  /\ SubSeq(q, 1, k) \in Seq(Nat) /\ Len(SubSeq(q, 1, k)) = k
             /\ \A i \in 1 .. k : SubSeq(q, 1, k)[i] = q[i]
  OBVIOUS
<1>2. ASSUME p \in Prefixes(q) PROVE IsPrefix(p, q)
  <2>1. PICK k \in 0 .. Len(q) : p = SubSeq(q, 1, k)
    BY <1>2 DEF Prefixes
  <2>2. Len(p) = k /\ \A i \in 1 .. k : p[i] = q[i]
    BY <1>1, <2>1
  <2>3. Len(p) <= Len(q)
    BY <2>2
  <2>. QED BY <2>2, <2>3, PrefixIs
<1>3. ASSUME IsPrefix(p, q) PROVE p \in Prefixes(q)
  <2>1. Len(p) \in 0 .. Len(q) /\ \A i \in 1 .. Len(p) : p[i] = q[i]
    BY <1>3, PrefixIs
  <2>2. PICK t : t = SubSeq(q, 1, Len(p))
    OBVIOUS
  <2>3. t \in Seq(Nat) /\ Len(t) = Len(p) /\ \A i \in 1 .. Len(p) : t[i] = q[i]
    BY <1>1, <2>1, <2>2
  <2>4. p = t
    BY <2>1, <2>3, SeqEqual
  <2>. QED BY <2>1, <2>2, <2>4 DEF Prefixes
<1>. QED BY <1>2, <1>3

LEMMA PrefixOrder ==
    ASSUME NEW p \in Seq(Nat), NEW q \in Seq(Nat), NEW r \in Seq(Nat)
    PROVE  /\ IsPrefix(p, p) /\ IsPrefix(<<>>, p)
           /\ IsPrefix(p, q) => Len(p) <= Len(q)
           /\ IsPrefix(p, q) /\ Len(p) = Len(q) => p = q
           /\ IsPrefix(p, q) /\ IsPrefix(q, r) => IsPrefix(p, r)
           /\ IsPrefix(p, r) /\ IsPrefix(q, r) /\ Len(p) <= Len(q) => IsPrefix(p, q)
<1>0. Len(p) \in Nat /\ Len(q) \in Nat /\ Len(r) \in Nat
  OBVIOUS
<1>1. IsPrefix(p, p) /\ IsPrefix(<<>>, p)
  <2>1. <<>> \in Seq(Nat) /\ Len(<<>>) = 0
    BY EmptySeq
  <2>2. IsPrefix(p, p)
    BY <1>0, PrefixIs
  <2>3. IsPrefix(<<>>, p)
    <3>1. Len(<<>>) <= Len(p) /\ \A i \in 1 .. Len(<<>>) : (<<>>)[i] = p[i]
      BY <1>0, <2>1
    <3>. QED BY <2>1, <3>1, PrefixIs
  <2>. QED BY <2>2, <2>3
<1>2. IsPrefix(p, q) => Len(p) <= Len(q)
  BY PrefixIs
<1>3. IsPrefix(p, q) /\ Len(p) = Len(q) => p = q
  <2>1. IsPrefix(p, q) => \A i \in 1 .. Len(p) : p[i] = q[i]
    BY PrefixIs
  <2>. QED BY <2>1, SeqEqual
<1>4. IsPrefix(p, q) /\ IsPrefix(q, r) => IsPrefix(p, r)
  <2>. SUFFICES ASSUME IsPrefix(p, q), IsPrefix(q, r) PROVE IsPrefix(p, r)
    OBVIOUS
  <2>1. Len(p) <= Len(q) /\ Len(q) <= Len(r)
    BY PrefixIs
  <2>2. \A i \in 1 .. Len(p) : p[i] = q[i] /\ i \in 1 .. Len(q)
    BY <2>1, PrefixIs
  <2>3. \A i \in 1 .. Len(q) : q[i] = r[i]
    BY PrefixIs
  <2>. QED BY <2>1, <2>2, <2>3, PrefixIs
<1>5. IsPrefix(p, r) /\ IsPrefix(q, r) /\ Len(p) <= Len(q) => IsPrefix(p, q)
  <2>. SUFFICES ASSUME IsPrefix(p, r), IsPrefix(q, r), Len(p) <= Len(q) PROVE IsPrefix(p, q)
    OBVIOUS
  <2>1. \A i \in 1 .. Len(p) : p[i] = r[i] /\ i \in 1 .. Len(q)
    <3>1. \A i \in 1 .. Len(p) : p[i] = r[i]
      BY PrefixIs
    <3>2. \A i \in 1 .. Len(p) : i \in 1 .. Len(q)
      BY <1>0
    <3>. QED BY <3>1, <3>2
  <2>2. \A i \in 1 .. Len(q) : q[i] = r[i]
    BY PrefixIs
  <2>. QED BY <2>1, <2>2, PrefixIs
<1>. QED BY <1>1, <1>2, <1>3, <1>4, <1>5

-----------------------------------------------------------------------------
(* What ExecutionsAssumption says of the frames of an execution.           *)
Tree(frames) ==
    /\ IsFiniteSet(DOMAIN frames) /\ DOMAIN frames \subseteq Seq(Nat)
    /\ <<>> \in DOMAIN frames
    /\ \A p \in DOMAIN frames :
         Prefixes(p) \subseteq DOMAIN frames /\ frames[p].error \in BOOLEAN /\ frames[p].value \in Nat

(* The frames that run in p, p itself among them, and are not undone by    *)
(* the failure of one of those from p on.                                  *)
Under(frames, p) ==
    {q \in DOMAIN frames :
        IsPrefix(p, q) /\ \A r \in DOMAIN frames : IsPrefix(p, r) /\ IsPrefix(r, q) => ~frames[r].error}

LEMMA UnderRoot ==
    ASSUME NEW F, Tree(F)
    PROVE  Under(F, <<>>) = {q \in DOMAIN F : ~InFailedFrame(F, q)}
<1>1. ASSUME NEW q \in DOMAIN F PROVE q \in Under(F, <<>>) <=> ~InFailedFrame(F, q)
  <2>1. q \in Seq(Nat) /\ <<>> \in Seq(Nat) /\ IsPrefix(<<>>, q)
    BY PrefixOrder DEF Tree
  <2>2. \A r \in DOMAIN F : r \in Seq(Nat) /\ IsPrefix(<<>>, r) /\ (r \in Prefixes(q) <=> IsPrefix(r, q))
    BY <2>1, PrefixOrder, PrefixesAre DEF Tree
  <2>. QED BY <2>1, <2>2 DEF Under, InFailedFrame
<1>. QED BY <1>1 DEF Under

LEMMA UnderFailed ==
    ASSUME NEW F, Tree(F), NEW p \in DOMAIN F, F[p].error
    PROVE  Under(F, p) = {}
<1>1. p \in Seq(Nat) /\ IsPrefix(p, p)
  BY PrefixOrder DEF Tree
<1>. QED BY <1>1 DEF Under

LEMMA UnderInside ==
    ASSUME NEW F, Tree(F), NEW p \in DOMAIN F, ~F[p].error
    PROVE  /\ Under(F, p) = {p} \union UNION {Under(F, q) : q \in Inside(F, p)}
           /\ p \notin UNION {Under(F, q) : q \in Inside(F, p)}
           /\ \A q, r \in Inside(F, p) : q # r => Under(F, q) \cap Under(F, r) = {}
<1>0. DOMAIN F \subseteq Seq(Nat)
  BY DEF Tree
<1>1. \A q \in Inside(F, p) : q \in DOMAIN F /\ Len(q) = Len(p) + 1 /\ IsPrefix(p, q)
  BY DEF Inside
<1>2. ASSUME NEW q \in Under(F, p), q # p
      PROVE  \E c \in Inside(F, p) : q \in Under(F, c)
  <2>1. q \in DOMAIN F /\ IsPrefix(p, q)
    BY DEF Under
  <2>2. Len(p) < Len(q) /\ Len(p) \in Nat /\ Len(q) \in Nat
    <3>1. p \in Seq(Nat) /\ q \in Seq(Nat)
      BY <1>0, <2>1
    <3>2. Len(p) <= Len(q) /\ Len(p) # Len(q)
      BY <1>2, <2>1, <3>1, PrefixOrder
    <3>. QED BY <3>1, <3>2
  <2>3. PICK c : c = SubSeq(q, 1, Len(p) + 1)
    OBVIOUS
  <2>4. c \in Prefixes(q) /\ c \in Seq(Nat) /\ Len(c) = Len(p) + 1
    <3>1. Len(p) + 1 \in 0 .. Len(q)
      BY <2>2
    <3>2. q \in Seq(Nat)
      BY <1>0, <2>1
    <3>. QED BY <2>3, <3>1, <3>2 DEF Prefixes
  <2>5. c \in DOMAIN F
    BY <2>1, <2>4 DEF Tree
  <2>6. IsPrefix(c, q)
    BY <1>0, <2>1, <2>4, PrefixesAre
  <2>7. IsPrefix(p, c)
    BY <1>0, <2>1, <2>2, <2>4, <2>6, PrefixOrder
  <2>8. c \in Inside(F, p)
    BY <2>4, <2>5, <2>7 DEF Inside
  <2>9. \A r \in DOMAIN F : IsPrefix(c, r) => IsPrefix(p, r)
    BY <1>0, <2>5, <2>7, PrefixOrder
  <2>10. q \in Under(F, c)
    BY <2>1, <2>6, <2>9 DEF Under
  <2>. QED BY <2>8, <2>10
<1>3. ASSUME NEW c \in Inside(F, p), NEW q \in Under(F, c)
      PROVE  q \in Under(F, p) /\ q # p /\ IsPrefix(c, q)
  <2>1. q \in DOMAIN F /\ IsPrefix(c, q)
    BY DEF Under
  <2>2. p \in Seq(Nat) /\ c \in Seq(Nat) /\ q \in Seq(Nat)
    BY <1>0, <1>1, <2>1
  <2>3. IsPrefix(p, q)
    BY <1>1, <2>1, <2>2, PrefixOrder
  <2>4. q # p
    <3>1. Len(c) <= Len(q) /\ Len(c) = Len(p) + 1
      BY <1>1, <2>1, <2>2, PrefixOrder
    <3>2. Len(q) # Len(p)
      BY <2>2, <3>1
    <3>. QED BY <3>2
  <2>5. ASSUME NEW r \in DOMAIN F, IsPrefix(p, r), IsPrefix(r, q) PROVE ~F[r].error
    <3>1. r \in Seq(Nat)
      BY <1>0
    <3>2. CASE Len(r) = Len(p)
      <4>1. r = p
        BY <2>2, <2>5, <3>1, <3>2, PrefixOrder
      <4>. QED BY <4>1
    <3>3. CASE Len(r) # Len(p)
      <4>1. Len(p) <= Len(r)
        BY <2>2, <2>5, <3>1, PrefixOrder
      <4>2. Len(c) <= Len(r)
        BY <1>1, <2>2, <3>1, <3>3, <4>1
      <4>3. IsPrefix(c, r)
        BY <2>1, <2>2, <2>5, <3>1, <4>2, PrefixOrder
      <4>. QED BY <2>5, <4>3 DEF Under
    <3>. QED BY <3>2, <3>3
  <2>6. q \in Under(F, p)
    BY <2>1, <2>3, <2>5 DEF Under
  <2>. QED BY <2>1, <2>4, <2>6
<1>4. p \in Under(F, p)
  <2>1. p \in Seq(Nat) /\ IsPrefix(p, p)
    BY <1>0, PrefixOrder
  <2>2. \A r \in DOMAIN F : IsPrefix(p, r) /\ IsPrefix(r, p) => r = p
    <3>. SUFFICES ASSUME NEW r \in DOMAIN F, IsPrefix(p, r), IsPrefix(r, p) PROVE r = p
      OBVIOUS
    <3>1. r \in Seq(Nat)
      BY <1>0
    <3>2. Len(r) <= Len(p) /\ Len(p) <= Len(r)
      BY <2>1, <3>1, PrefixOrder
    <3>3. Len(r) = Len(p)
      BY <2>1, <3>1, <3>2
    <3>. QED BY <2>1, <3>1, <3>3, PrefixOrder
  <2>. QED BY <2>1, <2>2 DEF Under
<1>5. ASSUME NEW q \in Inside(F, p), NEW r \in Inside(F, p), NEW x \in Under(F, q), x \in Under(F, r)
      PROVE  q = r
  <2>1. x \in DOMAIN F /\ IsPrefix(q, x) /\ IsPrefix(r, x)
    BY <1>5 DEF Under
  <2>2. q \in Seq(Nat) /\ r \in Seq(Nat) /\ x \in Seq(Nat)
    BY <1>0, <1>1, <2>1
  <2>3. Len(q) = Len(r) /\ Len(q) \in Nat
    BY <1>1, <2>2
  <2>4. IsPrefix(q, r)
    BY <2>1, <2>2, <2>3, PrefixOrder
  <2>. QED BY <2>2, <2>3, <2>4, PrefixOrder
<1>6. Under(F, p) = {p} \union UNION {Under(F, q) : q \in Inside(F, p)}
  BY <1>2, <1>3, <1>4
<1>7. p \notin UNION {Under(F, q) : q \in Inside(F, p)}
  BY <1>3
<1>8. \A q, r \in Inside(F, p) : q # r => Under(F, q) \cap Under(F, r) = {}
  BY <1>5
<1>. QED BY <1>6, <1>7, <1>8

-----------------------------------------------------------------------------
(* What a frame moves, and a solution of the recursion in Effect.          *)
Due(frames, a) == [p \in DOMAIN frames |-> Own(frames[p], a)]

Totals(frames, a, t) ==
    t = [p \in DOMAIN frames |->
            IF frames[p].error THEN 0
            ELSE Own(frames[p], a) + SumFunction([q \in Inside(frames, p) |-> t[q]])]

LEMMA EffectIs ==
    ASSUME NEW e
    PROVE  Effect(e) = [a \in Accounts |-> (CHOOSE t : Totals(e.frames, a, t))[<<>>]]
BY DEF Effect, Totals

LEMMA DueInt ==
    ASSUME NEW F, Tree(F), NEW a
    PROVE  \A p \in DOMAIN F : Due(F, a)[p] = Own(F[p], a) /\ Due(F, a)[p] \in Int
<1>. SUFFICES ASSUME NEW p \in DOMAIN F PROVE Own(F[p], a) \in Int
  BY DEF Due
<1>1. F[p].value \in Nat
  BY DEF Tree
<1>. QED BY <1>1 DEF Own

LEMMA TotalsUnfold ==
    ASSUME NEW F, NEW a, NEW t, Totals(F, a, t), NEW p \in DOMAIN F
    PROVE  t[p] = IF F[p].error THEN 0
                  ELSE Own(F[p], a) + Sum([q \in Inside(F, p) |-> t[q]], Inside(F, p))
<1>. DEFINE Body(u) == [r \in DOMAIN F |->
                           IF F[r].error THEN 0
                           ELSE Own(F[r], a) + SumFunction([q \in Inside(F, r) |-> u[q]])]
<1>1. t = Body(t)
  BY DEF Totals
<1>2. t[p] = Body(t)[p]
  BY <1>1, Zenon
<1>3. Body(t)[p] = IF F[p].error THEN 0
                   ELSE Own(F[p], a) + SumFunction([q \in Inside(F, p) |-> t[q]])
  OBVIOUS
<1>4. SumFunction([q \in Inside(F, p) |-> t[q]]) = Sum([q \in Inside(F, p) |-> t[q]], Inside(F, p))
  BY SumOfFunction
<1>. QED BY <1>2, <1>3, <1>4, Zenon

(* The sum over what runs in a frame, frame by frame.                      *)
LEMMA UnderSum ==
    ASSUME NEW F, Tree(F), NEW a, NEW p \in DOMAIN F
    PROVE  Sum(Due(F, a), Under(F, p)) =
             IF F[p].error THEN 0
             ELSE Own(F[p], a) + Sum([q \in Inside(F, p) |-> Sum(Due(F, a), Under(F, q))], Inside(F, p))
<1>0. IsFiniteSet(DOMAIN F) /\ Inside(F, p) \subseteq DOMAIN F /\ \A q : Under(F, q) \subseteq DOMAIN F
  BY DEF Tree, Inside, Under
<1>1. IsFiniteSet(Inside(F, p)) /\ \A q : IsFiniteSet(Under(F, q))
  BY <1>0, FS_Subset
<1>2. CASE F[p].error
  <2>1. Under(F, p) = {}
    BY <1>2, UnderFailed
  <2>2. Sum(Due(F, a), {}) = 0
    BY FS_EmptySet, SumIs
  <2>. QED BY <1>2, <2>1, <2>2
<1>3. CASE ~F[p].error
  <2>. DEFINE K == Inside(F, p)
              D == [q \in K |-> Under(F, q)]
              W == UNION {D[q] : q \in K}
              g == [q \in K |-> Sum(Due(F, a), D[q])]
  <2>1. /\ Under(F, p) = {p} \union W
        /\ p \notin W
        /\ \A q, r \in K : q # r => D[q] \cap D[r] = {}
    <3>1. {D[q] : q \in K} = {Under(F, q) : q \in K}
      OBVIOUS
    <3>2. \A q \in K : D[q] = Under(F, q)
      OBVIOUS
    <3>. QED BY <1>3, <3>1, <3>2, UnderInside, Zenon
  <2>2. \A q \in K : IsFiniteSet(D[q]) /\ D[q] \subseteq DOMAIN F
    BY <1>0, <1>1
  <2>3. \A q \in K : \A x \in D[q] : Due(F, a)[x] \in Int
    BY <2>2, DueInt
  <2>4. g = [q \in K |-> Sum(Due(F, a), Under(F, q))]
    OBVIOUS
  <2>5. IsFiniteSet(K)
    BY <1>1
  <2>6. W \subseteq DOMAIN F
    BY <2>2
  <2>. HIDE DEF K, D
  <2>7. IsFiniteSet(W) /\ Sum(Due(F, a), W) = Sum(g, K)
    <3>. DEFINE f == Due(F, a)
    <3>1. \A q \in K : IsFiniteSet(D[q])
      BY <2>2
    <3>2. \A q, r \in K : q # r => D[q] \cap D[r] = {}
      BY <2>1
    <3>3. \A q \in K : \A x \in D[q] : f[x] \in Int
      BY <2>3
    <3>. HIDE DEF f
    <3>4. /\ IsFiniteSet(UNION {D[q] : q \in K})
          /\ Sum(f, UNION {D[q] : q \in K}) = Sum([q \in K |-> Sum(f, D[q])], K)
      BY <2>5, <3>1, <3>2, <3>3, SumFamily, Zenon
    <3>. USE DEF f
    <3>. QED BY <3>4
  <2>. HIDE DEF W, g
  <2>8. \A x \in W \union {p} : Due(F, a)[x] \in Int
    BY <2>6, DueInt
  <2>9. Sum(Due(F, a), W \union {p}) = Due(F, a)[p] + Sum(Due(F, a), W)
    BY <2>1, <2>7, <2>8, SumAdd
  <2>10. W \union {p} = Under(F, p)
    BY <2>1
  <2>11. Sum(Due(F, a), Under(F, p)) = Own(F[p], a) + Sum(g, K)
    BY <2>7, <2>9, <2>10, DueInt
  <2>. QED BY <1>3, <2>4, <2>11, Zenon DEF K
<1>. QED BY <1>2, <1>3

LEMMA DepthBound ==
    ASSUME NEW D, IsFiniteSet(D), D \subseteq Seq(Nat)
    PROVE  \E n \in Nat : \A p \in D : Len(p) <= n
<1>. DEFINE U == {T \in SUBSET D : \E n \in Nat : \A p \in T : Len(p) <= n}
<1>1. {} \in U
  OBVIOUS
<1>2. ASSUME NEW T \in SUBSET D, NEW x \in D, T \in U PROVE T \union {x} \in U
  <2>1. PICK n \in Nat : \A p \in T : Len(p) <= n
    BY <1>2
  <2>2. Len(x) \in Nat /\ \A p \in T : Len(p) \in Nat
    OBVIOUS
  <2>3. n + Len(x) \in Nat /\ \A p \in T \union {x} : Len(p) <= n + Len(x)
    BY <2>1, <2>2
  <2>. QED BY <2>3
<1>3. D \in U
  <2>. HIDE DEF U
  <2>. QED BY <1>1, <1>2, SetInd
<1>. QED BY <1>3

LEMMA TotalsExist ==
    ASSUME NEW F, Tree(F), NEW a
    PROVE  \E t : Totals(F, a, t)
<1>. DEFINE t == [p \in DOMAIN F |-> Sum(Due(F, a), Under(F, p))]
<1>1. ASSUME NEW p \in DOMAIN F
      PROVE  t[p] = IF F[p].error THEN 0
                    ELSE Own(F[p], a) + SumFunction([q \in Inside(F, p) |-> t[q]])
  <2>1. [q \in Inside(F, p) |-> t[q]] = [q \in Inside(F, p) |-> Sum(Due(F, a), Under(F, q))]
    BY DEF Inside
  <2>2. SumFunction([q \in Inside(F, p) |-> t[q]]) = Sum([q \in Inside(F, p) |-> t[q]], Inside(F, p))
    BY SumOfFunction
  <2>3. t[p] = Sum(Due(F, a), Under(F, p))
    OBVIOUS
  <2>. HIDE DEF t
  <2>. QED BY <2>1, <2>2, <2>3, UnderSum
<1>2. t = [p \in DOMAIN F |-> t[p]]
  OBVIOUS
<1>. HIDE DEF t
<1>3. Totals(F, a, t)
  BY <1>1, <1>2 DEF Totals
<1>. QED BY <1>3

LEMMA TotalsAny ==
    ASSUME NEW F, Tree(F), NEW a, NEW t, Totals(F, a, t), NEW p \in DOMAIN F
    PROVE  t[p] = Sum(Due(F, a), Under(F, p))
<1>1. IsFiniteSet(DOMAIN F) /\ DOMAIN F \subseteq Seq(Nat)
  BY DEF Tree
<1>2. PICK depth \in Nat : \A q \in DOMAIN F : Len(q) <= depth
  BY <1>1, DepthBound
<1>. DEFINE Same(q) == t[q] = Sum(Due(F, a), Under(F, q))
            N == {n \in Nat : \A q \in DOMAIN F : n + Len(q) > depth => Same(q)}
<1>3. \A q \in DOMAIN F : Len(q) \in Nat
  BY <1>1
<1>4. 0 \in N
  <2>. HIDE DEF Same
  <2>. QED BY <1>2, <1>3
<1>5. ASSUME NEW n \in Nat, n \in N PROVE n + 1 \in N
  <2>1. ASSUME NEW q \in DOMAIN F, n + 1 + Len(q) > depth PROVE Same(q)
    <3>1. \A r \in Inside(F, q) : r \in DOMAIN F /\ Len(r) = Len(q) + 1
      BY DEF Inside
    <3>2. \A r \in Inside(F, q) : n + Len(r) > depth
      BY <1>3, <2>1, <3>1
    <3>3. \A r \in Inside(F, q) : t[r] = Sum(Due(F, a), Under(F, r))
      BY <1>5, <3>1, <3>2
    <3>4. [r \in Inside(F, q) |-> t[r]] = [r \in Inside(F, q) |-> Sum(Due(F, a), Under(F, r))]
      BY <3>3
    <3>5. t[q] = IF F[q].error THEN 0
                 ELSE Own(F[q], a) + Sum([r \in Inside(F, q) |-> t[r]], Inside(F, q))
      BY TotalsUnfold
    <3>. QED BY <3>4, <3>5, UnderSum, Zenon
  <2>. HIDE DEF Same
  <2>. QED BY <2>1
<1>6. Nat \subseteq N
  <2>. HIDE DEF N
  <2>. QED BY <1>4, <1>5, NatInd
<1>7. depth + 1 \in N
  <2>. HIDE DEF N
  <2>. QED BY <1>6
<1>8. depth + 1 + Len(p) > depth
  BY <1>3
<1>9. Same(p)
  <2>. HIDE DEF Same
  <2>. QED BY <1>7, <1>8
<1>. QED BY <1>9

(* What a transaction adds to an account: what its frames move, those that *)
(* failed or ran in one that failed left out.                              *)
LEMMA EffectSum ==
    ASSUME NEW e, Tree(e.frames), NEW a \in Accounts
    PROVE  Effect(e)[a] = Sum(Due(e.frames, a), Under(e.frames, <<>>))
<1>1. PICK t : t = CHOOSE u : Totals(e.frames, a, u)
  OBVIOUS
<1>2. Totals(e.frames, a, t)
  BY <1>1, TotalsExist
<1>3. Effect(e)[a] = t[<<>>]
  BY <1>1, EffectIs
<1>4. <<>> \in DOMAIN e.frames
  BY DEF Tree
<1>. QED BY <1>2, <1>3, <1>4, TotalsAny

-----------------------------------------------------------------------------
(* The frames that the handler counts and those that it overlooks are the  *)
(* ones that move something.                                               *)
LEMMA CountedSum ==
    ASSUME NEW F, Tree(F), NEW a
    PROVE  /\ IsFiniteSet(Counted(F)) /\ Counted(F) \subseteq DOMAIN F
           /\ IsFiniteSet(Overlooked(F)) /\ Overlooked(F) \subseteq DOMAIN F
           /\ Sum(Due(F, a), Under(F, <<>>)) = Sum(Due(F, a), Counted(F)) + Sum(Due(F, a), Overlooked(F))
<1>1. Under(F, <<>>) = {q \in DOMAIN F : ~InFailedFrame(F, q)}
  BY UnderRoot
<1>2. /\ Counted(F) \subseteq Under(F, <<>>) /\ Overlooked(F) \subseteq Under(F, <<>>)
      /\ Under(F, <<>>) \subseteq DOMAIN F /\ Counted(F) \cap Overlooked(F) = {}
  <2>1. Under(F, <<>>) \subseteq DOMAIN F
    BY <1>1
  <2>2. Counted(F) \subseteq Under(F, <<>>) /\ Overlooked(F) \subseteq Under(F, <<>>)
    BY <1>1 DEF Counted, Overlooked
  <2>3. Counted(F) \cap Overlooked(F) = {}
    BY DEF Counted, Overlooked
  <2>. QED BY <2>1, <2>2, <2>3
<1>3. IsFiniteSet(Under(F, <<>>)) /\ IsFiniteSet(Counted(F)) /\ IsFiniteSet(Overlooked(F))
  <2>1. IsFiniteSet(DOMAIN F)
    BY DEF Tree
  <2>. QED BY <1>2, <2>1, FS_Subset
<1>4. \A q \in Under(F, <<>>) : Due(F, a)[q] \in Int
  BY <1>2, DueInt
<1>5. ASSUME NEW q \in Under(F, <<>>), q \notin Counted(F) \union Overlooked(F) PROVE Due(F, a)[q] = 0
  <2>1. q \in DOMAIN F /\ ~InFailedFrame(F, q)
    BY <1>1
  <2>2. F[q].callType \notin Moving \/ ~(F[q].value > 0)
    BY <1>5, <2>1 DEF Counted, Overlooked, Moving
  <2>3. CASE F[q].callType \notin Moving
    BY <2>1, <2>3 DEF Due, Own
  <2>4. CASE ~(F[q].value > 0)
    <3>1. F[q].value = 0
      BY <2>1, <2>4 DEF Tree
    <3>2. Own(F[q], a) = 0
      <4>. PICK v : v = F[q].value
        OBVIOUS
      <4>. QED BY <3>1 DEF Own
    <3>. QED BY <2>1, <3>2 DEF Due
  <2>. QED BY <2>2, <2>3, <2>4
<1>. DEFINE U == Under(F, <<>>)
            C == Counted(F)
            O == Overlooked(F)
            d == Due(F, a)
<1>6. Sum(d, U) = Sum(d, C) + Sum(d, O)
  <2>1. (C \union O) \in SUBSET U /\ \A x \in U \ (C \union O) : d[x] = 0
    BY <1>2, <1>5
  <2>. HIDE DEF U, C, O, d
  <2>2. IsFiniteSet(U) /\ IsFiniteSet(C) /\ IsFiniteSet(O) /\ \A q \in U : d[q] \in Int
    BY <1>3, <1>4 DEF U, C, O, d
  <2>3. C \cap O = {}
    BY <1>2 DEF C, O
  <2>4. Sum(d, U) = Sum(d, C \union O)
    BY <2>1, <2>2, SumOfPart
  <2>5. Sum(d, C \union O) = Sum(d, C) + Sum(d, O)
    BY <2>1, <2>2, <2>3, SumUnion
  <2>. QED BY <2>4, <2>5
<1>. QED BY <1>2, <1>3, <1>6

(* A sum of changes is what comes in less what goes out.                   *)
LEMMA ChangeIs ==
    ASSUME NEW F, Tree(F), NEW a,
           NEW C, IsFiniteSet(C), C \subseteq DOMAIN F, \A p \in C : F[p].callType \in Moving
    PROVE  Change(Moves(F, C), a) = Sum(Due(F, a), C) /\ Change(Moves(F, C), a) \in Int
<1>. DEFINE M == [p \in C |-> [from |-> F[p].from, to |-> F[p].to, amount |-> F[p].value]]
            tos == [x \in C |-> IF F[x].to = a THEN F[x].value ELSE 0]
            froms == [x \in C |-> IF F[x].from = a THEN F[x].value ELSE 0]
<1>1. DOMAIN M = C /\ \A x \in C : M[x].from = F[x].from /\ M[x].to = F[x].to /\ M[x].amount = F[x].value
  OBVIOUS
<1>2. [x \in DOMAIN M |-> IF M[x].to = a THEN M[x].amount ELSE 0] = tos
  BY <1>1
<1>3. [x \in DOMAIN M |-> IF M[x].from = a THEN M[x].amount ELSE 0] = froms
  BY <1>1
<1>4. DOMAIN tos = C /\ DOMAIN froms = C
  OBVIOUS
<1>5. IsFiniteSet(C) /\ C \subseteq DOMAIN F
  OBVIOUS
<1>6. ASSUME NEW x \in C
      PROVE  tos[x] \in Int /\ froms[x] \in Int /\ Due(F, a)[x] = tos[x] - froms[x]
  <2>1. F[x].value \in Nat /\ x \in DOMAIN F
    BY <1>5 DEF Tree
  <2>2. F[x].callType \in Moving
    OBVIOUS
  <2>3. tos[x] = (IF F[x].to = a THEN F[x].value ELSE 0) /\ froms[x] = (IF F[x].from = a THEN F[x].value ELSE 0)
    OBVIOUS
  <2>4. Due(F, a)[x] = (IF F[x].to = a THEN F[x].value ELSE 0) - (IF F[x].from = a THEN F[x].value ELSE 0)
    BY <2>1, <2>2 DEF Due, Own
  <2>. HIDE DEF tos, froms
  <2>5. tos[x] \in Int /\ froms[x] \in Int
    BY <2>1, <2>3
  <2>. QED BY <2>3, <2>4, <2>5
<1>7. Change(M, a) = Sum(tos, C) - Sum(froms, C)
  <2>1. Change(M, a) = SumFunction(tos) - SumFunction(froms)
    BY <1>2, <1>3, Zenon DEF Change
  <2>. QED BY <1>4, <2>1, SumOfFunction
<1>. HIDE DEF M, tos, froms
<1>8. Sum(Due(F, a), C) = Sum(tos, C) - Sum(froms, C)
  BY <1>5, <1>6, SumDifference
<1>9. Change(M, a) = Sum(Due(F, a), C)
  BY <1>7, <1>8
<1>10. Sum(Due(F, a), C) \in Int
  <2>1. \A x \in C : Due(F, a)[x] \in Int
    BY DueInt
  <2>. QED BY <2>1, SumIs
<1>11. Moves(F, C) = M
  BY DEF M, Moves
<1>. QED BY <1>9, <1>10, <1>11

LEMMA MovesIs ==
    ASSUME NEW F, Tree(F), NEW a
    PROVE  /\ Change(Moves(F, Counted(F)), a) = Sum(Due(F, a), Counted(F))
           /\ Change(Moves(F, Overlooked(F)), a) = Sum(Due(F, a), Overlooked(F))
           /\ Change(Moves(F, Counted(F)), a) \in Int
           /\ Change(Moves(F, Overlooked(F)), a) \in Int
<1>1. IsFiniteSet(Counted(F)) /\ Counted(F) \subseteq DOMAIN F /\ \A p \in Counted(F) : F[p].callType \in Moving
  BY CountedSum DEF Counted, Moving
<1>2. IsFiniteSet(Overlooked(F)) /\ Overlooked(F) \subseteq DOMAIN F
      /\ \A p \in Overlooked(F) : F[p].callType \in Moving
  BY CountedSum DEF Overlooked, Moving
<1>. QED BY <1>1, <1>2, ChangeIs

(* What an execution adds to an account, and what its calls alone add.     *)
LEMMA EffectInt ==
    ASSUME NEW e, Tree(e.frames)
    PROVE  /\ Effect(e) \in [Accounts -> Int] /\ ByCalls(e) \in [Accounts -> Int]
           /\ \A a \in Accounts : ByCalls(e)[a] = Change(Moves(e.frames, Counted(e.frames)), a)
<1>1. ASSUME NEW a \in Accounts
      PROVE  /\ Effect(e)[a] \in Int
             /\ Effect(e)[a] - Change(Moves(e.frames, Overlooked(e.frames)), a)
                  = Change(Moves(e.frames, Counted(e.frames)), a)
             /\ Change(Moves(e.frames, Counted(e.frames)), a) \in Int
  <2>1. PICK c \in Int : c = Change(Moves(e.frames, Counted(e.frames)), a)
                         /\ c = Sum(Due(e.frames, a), Counted(e.frames))
    BY MovesIs
  <2>2. PICK o \in Int : o = Change(Moves(e.frames, Overlooked(e.frames)), a)
                         /\ o = Sum(Due(e.frames, a), Overlooked(e.frames))
    BY MovesIs
  <2>3. Sum(Due(e.frames, a), Under(e.frames, <<>>)) = c + o
    BY <2>1, <2>2, CountedSum
  <2>4. Effect(e)[a] = c + o
    BY <2>3, EffectSum
  <2>. QED BY <2>1, <2>2, <2>4
<1>. DEFINE f == [a \in Accounts |-> (CHOOSE t : Totals(e.frames, a, t))[<<>>]]
<1>2. Effect(e) = f
  BY EffectIs
<1>3. \A a \in Accounts : f[a] \in Int
  BY <1>1, <1>2
<1>4. f \in [Accounts -> Int]
  BY <1>3
<1>. HIDE DEF f
<1>5. ByCalls(e) \in [Accounts -> Int]
      /\ \A a \in Accounts : ByCalls(e)[a] = Change(Moves(e.frames, Counted(e.frames)), a)
  BY <1>1 DEF ByCalls
<1>. QED BY <1>2, <1>4, <1>5

(* What the handler computes from a trace is what the calls in it do.      *)
LEMMA NativeIs ==
    ASSUME NEW e, Tree(e.frames), NEW v
    PROVE  NativeChange(e.frames, v) = ByCalls(e)
<1>. DEFINE M(a) == Change(Moves(e.frames, Counted(e.frames)), a)
<1>1. ~RootMoves(e.frames, v)
  BY DEF RootMoves, Tree
<1>2. NativeChange(e.frames, v) = [a \in Accounts |-> M(a) + 0]
  BY <1>1 DEF NativeChange
<1>3. ByCalls(e) \in [Accounts -> Int] /\ \A a \in Accounts : ByCalls(e)[a] = M(a)
  BY EffectInt
<1>. HIDE DEF M
<1>4. \A a \in Accounts : M(a) + 0 = ByCalls(e)[a]
  BY <1>3
<1>5. [a \in Accounts |-> M(a) + 0] = [a \in Accounts |-> ByCalls(e)[a]]
  BY <1>4
<1>. QED BY <1>2, <1>3, <1>5

-----------------------------------------------------------------------------
(* A root that did not fail is in no failed frame.                         *)
LEMMA RootFails ==
    ASSUME NEW F, Tree(F), ~F[<<>>].error
    PROVE  ~InFailedFrame(F, <<>>)
<1>1. <<>> \in Seq(Nat)
  BY EmptySeq
<1>2. ASSUME NEW q \in Prefixes(<<>>) \cap DOMAIN F PROVE q = <<>>
  <2>1. q \in Seq(Nat)
    BY DEF Tree
  <2>2. IsPrefix(q, <<>>)
    BY <1>1, <2>1, PrefixesAre
  <2>3. IsPrefix(<<>>, q)
    BY <2>1, PrefixOrder
  <2>4. PICK r \in Seq(Nat) : r = <<>>
    BY <1>1
  <2>5. Len(q) = Len(r)
    <3>1. Len(q) <= Len(r) /\ Len(r) <= Len(q)
      BY <2>1, <2>2, <2>3, <2>4, PrefixOrder
    <3>. QED BY <2>1, <3>1
  <2>. QED BY <2>1, <2>2, <2>4, <2>5, PrefixOrder
<1>. QED BY <1>2 DEF InFailedFrame

(* A transfer of value from Sender to Target.                              *)
Payment(v) == [a \in Accounts |-> (IF a = Target THEN v ELSE 0) - (IF a = Sender THEN v ELSE 0)]

LEMMA ExecutionIs ==
    ASSUME NEW e \in Executions
    PROVE  /\ Tree(e.frames)
           /\ e.frames[<<>>].value \in Nat /\ Failed(e) \in BOOLEAN
           /\ e.frames[<<>>].from = Sender /\ e.frames[<<>>].to = Target
           /\ e.frames[<<>>].callType = "call"
BY ExecutionsAssumption DEF Tree, Failed

LEMMA NothingSummed == Sum(<<>>, {}) = 0 /\ \A f : DOMAIN f = {} => SumFunction(f) = 0
<1>1. \A f : Sum(f, {}) = 0
  BY FS_EmptySet, SumIs
<1>. QED BY <1>1, SumOfFunction

LEMMA NoChangeOfNothing ==
    ASSUME NEW moved, DOMAIN moved = {}, NEW a
    PROVE  Change(moved, a) = 0
<1>. DEFINE tos == [x \in DOMAIN moved |-> IF moved[x].to = a THEN moved[x].amount ELSE 0]
            froms == [x \in DOMAIN moved |-> IF moved[x].from = a THEN moved[x].amount ELSE 0]
<1>1. DOMAIN tos = {} /\ DOMAIN froms = {}
  OBVIOUS
<1>2. Change(moved, a) = SumFunction(tos) - SumFunction(froms)
  BY Zenon DEF Change
<1>. HIDE DEF tos, froms
<1>3. SumFunction(tos) = 0 /\ SumFunction(froms) = 0
  BY <1>1, NothingSummed
<1>. QED BY <1>2, <1>3

(* An execution that calls nothing is a payment.                           *)
LEMMA PaymentIs ==
    ASSUME NEW e \in Executions, DOMAIN e.frames = {<<>>}, ~Failed(e)
    PROVE  ByCalls(e) = Payment(e.frames[<<>>].value)
<1>. DEFINE v == e.frames[<<>>].value
<1>1. Inside(e.frames, <<>>) = {}
  <2>1. Len(<<>>) = 0
    BY EmptySeq
  <2>. QED BY <2>1 DEF Inside
<1>2. ASSUME NEW a \in Accounts
      PROVE  Effect(e)[a] = (IF a = Target THEN v ELSE 0) - (IF a = Sender THEN v ELSE 0)
  <2>1. Effect(e)[a] = Sum(Due(e.frames, a), Under(e.frames, <<>>))
    BY ExecutionIs, EffectSum
  <2>2. <<>> \in DOMAIN e.frames /\ ~e.frames[<<>>].error /\ Tree(e.frames)
    BY ExecutionIs DEF Failed
  <2>3. PICK g : g = [q \in Inside(e.frames, <<>>) |-> Sum(Due(e.frames, a), Under(e.frames, q))]
    OBVIOUS
  <2>4. Sum(Due(e.frames, a), Under(e.frames, <<>>)) = Own(e.frames[<<>>], a) + Sum(g, Inside(e.frames, <<>>))
    BY <2>2, <2>3, UnderSum, Zenon
  <2>5. Sum(g, Inside(e.frames, <<>>)) = 0
    BY <1>1, FS_EmptySet, SumIs
  <2>6. Own(e.frames[<<>>], a) \in Int
    BY <2>2, DueInt
  <2>7. Effect(e)[a] = Own(e.frames[<<>>], a)
    BY <2>1, <2>4, <2>5, <2>6
  <2>8. PICK w : w = e.frames[<<>>]
    OBVIOUS
  <2>9. Own(w, a) = (IF Target = a THEN w.value ELSE 0) - (IF Sender = a THEN w.value ELSE 0)
    <3>1. w.callType \in Moving /\ w.from = Sender /\ w.to = Target
      BY <2>8, ExecutionIs DEF Moving
    <3>. QED BY <3>1, Zenon DEF Own
  <2>10. Effect(e)[a] = (IF Target = a THEN v ELSE 0) - (IF Sender = a THEN v ELSE 0)
    BY <2>7, <2>8, <2>9
  <2>. HIDE DEF v
  <2>. QED BY <2>10, Zenon
<1>3. ByCalls(e) \in [Accounts -> Int] /\ Effect(e) \in [Accounts -> Int]
  BY ExecutionIs, EffectInt
<1>4. ASSUME NEW a \in Accounts PROVE ByCalls(e)[a] = Effect(e)[a]
  <2>1. Overlooked(e.frames) = {}
    <3>1. e.frames[<<>>].callType = "call"
      BY ExecutionIs
    <3>. QED BY <3>1 DEF Overlooked
  <2>2. DOMAIN Moves(e.frames, Overlooked(e.frames)) = {}
    BY <2>1 DEF Moves
  <2>3. Change(Moves(e.frames, Overlooked(e.frames)), a) = 0
    BY <2>2, NoChangeOfNothing
  <2>. QED BY <1>3, <2>3 DEF ByCalls
<1>. HIDE DEF v
<1>5. ByCalls(e) = Payment(v)
  BY <1>2, <1>3, <1>4 DEF Payment
<1>. QED BY <1>5 DEF v

(* Without a trace the handler counts the value of the transaction.        *)
LEMMA UntracedIs ==
    ASSUME NEW v \in Nat
    PROVE  NativeChange(NoTrace, v) = Payment(v)
<1>1. Counted(NoTrace) = {} /\ (RootMoves(NoTrace, v) <=> v > 0)
  <2>1. DOMAIN NoTrace = {}
    BY DEF NoTrace
  <2>. QED BY <2>1 DEF Counted, RootMoves
<1>. DEFINE M(a) == Change(Moves(NoTrace, Counted(NoTrace)), a)
            Rest(a) == (IF a = Target THEN v ELSE 0) - (IF a = Sender THEN v ELSE 0)
<1>2. \A a \in Accounts : M(a) = 0
  <2>1. DOMAIN Moves(NoTrace, Counted(NoTrace)) = {}
    BY <1>1 DEF Moves
  <2>. QED BY <2>1, NoChangeOfNothing
<1>3. NativeChange(NoTrace, v) = [a \in Accounts |-> M(a) + IF ~RootMoves(NoTrace, v) THEN 0 ELSE Rest(a)]
  BY DEF NativeChange
<1>4. Payment(v) = [a \in Accounts |-> Rest(a)]
  BY DEF Payment
<1>5. \A a \in Accounts : Rest(a) \in Int /\ (v = 0 => Rest(a) = 0)
  OBVIOUS
<1>. HIDE DEF M, Rest
<1>6. \A a \in Accounts : (M(a) + IF ~RootMoves(NoTrace, v) THEN 0 ELSE Rest(a)) = Rest(a)
  BY <1>1, <1>2, <1>5
<1>. QED BY <1>3, <1>4, <1>6

-----------------------------------------------------------------------------
(* The logs of a receipt.                                                  *)
Receipt(l) == l \in Seq(Range(l)) /\ \A i \in DOMAIN l : l[i].amount \in Nat

LEMMA ReceiptOf ==
    ASSUME NEW e \in Executions
    PROVE  Receipt(e.logs) /\ Receipt(LogsOf(e)) /\ Receipt(<<>>)
<1>1. Receipt(e.logs)
  BY ExecutionsAssumption DEF Receipt
<1>2. Receipt(<<>>)
  BY EmptySeq DEF Receipt
<1>. QED BY <1>1, <1>2 DEF LogsOf

LEMMA TokenInt ==
    ASSUME NEW l, Receipt(l)
    PROVE  /\ TokenChange(l) \in [Accounts -> Int]
           /\ CountedLogs(l) = {} => TokenChange(l) = NoChange
<1>. DEFINE C == CountedLogs(l)
            moved == [i \in C |-> l[i]]
<1>1. IsFiniteSet(C) /\ \A i \in C : l[i].amount \in Nat
  <2>1. DOMAIN l = 1 .. Len(l) /\ Len(l) \in Nat
    BY DEF Receipt
  <2>2. IsFiniteSet(1 .. Len(l))
    BY <2>1, FS_Interval
  <2>3. C \subseteq DOMAIN l
    BY DEF CountedLogs
  <2>. QED BY <2>1, <2>2, <2>3, FS_Subset DEF Receipt
<1>2. ASSUME NEW a \in Accounts PROVE Change(moved, a) \in Int
  <2>. DEFINE tos == [x \in DOMAIN moved |-> IF moved[x].to = a THEN moved[x].amount ELSE 0]
              froms == [x \in DOMAIN moved |-> IF moved[x].from = a THEN moved[x].amount ELSE 0]
  <2>1. DOMAIN tos = C /\ DOMAIN froms = C
    OBVIOUS
  <2>2. \A x \in C : tos[x] \in Int /\ froms[x] \in Int
    <3>. SUFFICES ASSUME NEW x \in C PROVE tos[x] \in Int /\ froms[x] \in Int
      OBVIOUS
    <3>1. l[x].amount \in Nat
      BY <1>1
    <3>. QED BY <3>1
  <2>3. Change(moved, a) = SumFunction(tos) - SumFunction(froms)
    BY Zenon DEF Change
  <2>. HIDE DEF tos, froms, C
  <2>4. SumFunction(tos) = Sum(tos, C) /\ SumFunction(froms) = Sum(froms, C)
    BY <2>1, SumOfFunction
  <2>5. Sum(tos, C) \in Int /\ Sum(froms, C) \in Int
    BY <1>1, <2>2, SumIs
  <2>. QED BY <2>3, <2>4, <2>5
<1>3. TokenChange(l) = [a \in Accounts |-> Change(moved, a)]
  BY DEF TokenChange
<1>4. ASSUME C = {}, NEW a \in Accounts PROVE Change(moved, a) = 0
  <2>1. DOMAIN moved = {}
    BY <1>4
  <2>. HIDE DEF moved
  <2>. QED BY <2>1, NoChangeOfNothing
<1>. HIDE DEF moved
<1>. QED BY <1>2, <1>3, <1>4 DEF NoChange

-----------------------------------------------------------------------------
(* The transaction runs in its block, as one of its executions.            *)
Runs == IF block = 0 THEN execution = {} ELSE \E e \in Executions : execution = {e} /\ Possible(e)

Fits == value \in Nat /\ contract \in BOOLEAN /\ Receipt(logs)

(* While the transaction keeps its block: what was read of it is still so. *)
ReadsHold ==
    ~disturbed /\ pc # "done" =>
        /\ pc # "tx" => block # 0
        /\ pc \in {"height", "code", "logs", "trace"} =>
              height = block /\ \A e \in execution : ~Failed(e)
        /\ pc \in {"code", "logs", "trace"} => head - block >= Required
        /\ pc = "trace" /\ logged => \A e \in execution : logs = LogsOf(e)

(* A verdict says that the transaction is in a block.                      *)
Verdict == returned.status \in {"transfers", "failed", "rejected"}

ReturnHolds ==
    /\ pc # "done" => returned = NoReport
    /\ pc \notin {"trace", "done"} => logged
    /\ ~disturbed /\ Verdict => block # 0

EvmInv == TransfersTrue /\ NativeOfOneExecution /\ Runs /\ Fits /\ ReadsHold /\ ReturnHolds

LEMMA Bounds ==
    /\ Required \in Nat /\ MaxHead \in Nat /\ MaxHead >= 1 /\ MaxReorgs \in Nat /\ MaxDepth \in Nat
    /\ NoChange \in [Accounts -> Int]
BY BoundsAssumption DEF NoChange

LEMMA ReportIs ==
    /\ NoReport.status = "none" /\ NoReport.traced = FALSE
    /\ NoReport.native = NoChange /\ NoReport.tokens = NoChange /\ NoReport.ran = {}
BY DEF NoReport

LEMMA ReturnIs ==
    ASSUME NEW status, Return(status)
    PROVE  /\ pc' = "done" /\ returned'.status = status /\ returned'.traced = FALSE
           /\ returned'.native = NoChange /\ returned'.tokens = NoChange /\ returned'.ran = {}
BY DEF Return, NoReport

LEMMA EvmStarts == EvmInit => EvmInv
<1>. SUFFICES ASSUME EvmInit PROVE EvmInv
  OBVIOUS
<1>1. returned.status = "none" /\ returned.traced = FALSE
      /\ returned.native = NoChange /\ returned.tokens = NoChange /\ returned.ran = {}
  BY ReportIs DEF EvmInit
<1>2. head = 1 /\ block = 0 /\ height = 0 /\ pc = "tx" /\ execution = {} /\ logs = <<>> /\ logged = TRUE /\ contract \in BOOLEAN
  BY DEF EvmInit
<1>3. EvmTypeOK
  BY <1>1, <1>2, Bounds DEF EvmTypeOK
<1>4. Runs
  BY <1>2 DEF Runs
<1>5. Fits
  <2>1. value \in Nat
    BY ExecutionIs DEF EvmInit
  <2>. QED BY <1>2, <2>1, ReceiptOf DEF Fits, Receipt
<1>6. ReadsHold
  BY <1>2 DEF ReadsHold
<1>7. ReturnHolds
  BY <1>1 DEF ReturnHolds, EvmInit, Verdict
<1>8. TransfersTrue /\ NativeOfOneExecution
  BY <1>1, <1>3 DEF TransfersTrue, NativeOfOneExecution
<1>. QED BY <1>4, <1>5, <1>6, <1>7, <1>8 DEF EvmInv

(* The parts of EvmTypeOK that a step has to show.                         *)
LEMMA EvmTypes ==
    /\ EvmTypeOK => /\ head \in 1 .. MaxHead /\ block \in 0 .. head /\ height \in 0 .. head
                    /\ head \in Nat /\ block \in Nat /\ height \in Nat
    /\ EvmTypeOK => returned.native \in [Accounts -> Int] /\ returned.tokens \in [Accounts -> Int]
BY Bounds DEF EvmTypeOK

LEMMA GrowStep == EvmInv /\ Grow => EvmInv'
<1>. SUFFICES ASSUME EvmInv, Grow PROVE EvmInv'
  OBVIOUS
<1>1. /\ head' = head + 1 /\ head < MaxHead
      /\ contract' = contract /\ value' = value /\ block' = block /\ execution' = execution
      /\ disturbed' = disturbed /\ pc' = pc /\ height' = height /\ logs' = logs /\ logged' = logged /\ returned' = returned
  BY DEF Grow, evmCall
<1>2. EvmTypeOK /\ head \in Nat /\ block \in Nat /\ head \in 1 .. MaxHead /\ block \in 0 .. head /\ height \in 0 .. head
  BY EvmTypes DEF EvmInv, TransfersTrue
<1>3. EvmTypeOK'
  <2>1. head' \in 1 .. MaxHead /\ block' \in 0 .. head' /\ height' \in 0 .. head'
    BY <1>1, <1>2, Bounds
  <2>. QED BY <1>1, <1>2, <2>1 DEF EvmTypeOK
<1>4. head - block >= Required => head' - block' >= Required
  BY <1>1, <1>2, Bounds
<1>5. TransfersTrue' /\ NativeOfOneExecution'
  BY <1>1, <1>3, <1>4 DEF EvmInv, TransfersTrue, NativeOfOneExecution
<1>6. Runs' /\ Fits' /\ ReturnHolds'
  BY <1>1 DEF EvmInv, Runs, Possible, Fits, ReturnHolds, Verdict
<1>7. ReadsHold'
  BY <1>1, <1>4 DEF EvmInv, ReadsHold
<1>. QED BY <1>5, <1>6, <1>7 DEF EvmInv

LEMMA MineStep == ASSUME NEW e \in Executions PROVE EvmInv /\ Mine(e) => EvmInv'
<1>. SUFFICES ASSUME EvmInv, Mine(e) PROVE EvmInv'
  OBVIOUS
<1>1. /\ head' = head + 1 /\ head < MaxHead /\ block = 0 /\ block' = head + 1 /\ execution' = {e} /\ Possible(e)
      /\ contract' = contract /\ value' = value
      /\ disturbed' = disturbed /\ pc' = pc /\ height' = height /\ logs' = logs /\ logged' = logged /\ returned' = returned
  BY DEF Mine, evmCall
<1>2. EvmTypeOK /\ head \in Nat /\ block \in Nat /\ head \in 1 .. MaxHead /\ block \in 0 .. head /\ height \in 0 .. head
  BY EvmTypes DEF EvmInv, TransfersTrue
<1>3. EvmTypeOK'
  <2>1. head' \in 1 .. MaxHead /\ block' \in 0 .. head' /\ height' \in 0 .. head'
    BY <1>1, <1>2, Bounds
  <2>. QED BY <1>1, <1>2, <2>1 DEF EvmTypeOK
<1>4. ~Verdict \/ disturbed
  BY <1>1 DEF EvmInv, ReturnHolds
<1>5. TransfersTrue' /\ NativeOfOneExecution'
  BY <1>1, <1>3, <1>4 DEF EvmInv, TransfersTrue, NativeOfOneExecution, Verdict
<1>6. Runs'
  <2>1. block' # 0
    BY <1>1, <1>2
  <2>. QED BY <1>1, <2>1 DEF Runs, Possible
<1>7. Fits' /\ ReturnHolds'
  BY <1>1, <1>4 DEF EvmInv, Fits, ReturnHolds, Verdict
<1>8. ReadsHold'
  BY <1>1 DEF EvmInv, ReadsHold
<1>. QED BY <1>5, <1>6, <1>7, <1>8 DEF EvmInv

LEMMA ReorgStep ==
    ASSUME NEW depth \in 1 .. MaxDepth, NEW now \in 0 .. MaxHead, NEW e \in Executions
    PROVE  EvmInv /\ Reorg(depth, now, e) => EvmInv'
<1>. SUFFICES ASSUME EvmInv, Reorg(depth, now, e) PROVE EvmInv'
  OBVIOUS
<1>1. /\ pc # "done" /\ block # 0 /\ block > head - depth
      /\ now \in {0} \union (head - depth + 1) .. head /\ Possible(e)
      /\ block' = now /\ execution' = (IF now = 0 THEN {} ELSE {e})
      /\ disturbed' = (disturbed \/ pc # "tx")
      /\ head' = head /\ contract' = contract /\ value' = value
      /\ pc' = pc /\ height' = height /\ logs' = logs /\ logged' = logged /\ returned' = returned
  BY DEF Reorg, evmCall
<1>2. EvmTypeOK /\ head \in Nat /\ head \in 1 .. MaxHead /\ height \in 0 .. head
  BY EvmTypes DEF EvmInv, TransfersTrue
<1>3. EvmTypeOK'
  <2>1. block' \in 0 .. head'
    BY <1>1, <1>2, Bounds
  <2>. QED BY <1>1, <1>2, <2>1 DEF EvmTypeOK
<1>4. returned = NoReport
  BY <1>1 DEF EvmInv, ReturnHolds
<1>5. returned'.status = "none" /\ returned'.ran = {}
  BY <1>1, <1>4, ReportIs
<1>6. TransfersTrue' /\ NativeOfOneExecution'
  BY <1>3, <1>5 DEF TransfersTrue, NativeOfOneExecution
<1>7. Runs'
  BY <1>1 DEF Runs, Possible
<1>8. Fits'
  BY <1>1 DEF EvmInv, Fits
<1>9. ReturnHolds'
  BY <1>1, <1>4, <1>5 DEF EvmInv, ReturnHolds, Verdict
<1>10. ReadsHold'
  BY <1>1 DEF ReadsHold
<1>. QED BY <1>6, <1>7, <1>8, <1>9, <1>10 DEF EvmInv

-----------------------------------------------------------------------------
(* What the reads of a call leave as it is.                                *)
LEMMA ReadKeeps ==
    ASSUME EvmInv, UNCHANGED evmChain,
           pc' \in {"tx", "receipt", "height", "code", "logs", "trace", "done"},
           height' \in {height, block}, logs' = logs \/ Receipt(logs'), logged' \in BOOLEAN,
           returned'.status \in {"none", "pending", "failed", "unconfirmed", "rejected", "transfers", "error"},
           returned'.native \in [Accounts -> Int], returned'.tokens \in [Accounts -> Int],
           returned'.ran \subseteq Executions
    PROVE  EvmTypeOK' /\ Runs' /\ Fits'
<1>1. /\ contract' = contract /\ value' = value /\ head' = head /\ block' = block
      /\ execution' = execution /\ disturbed' = disturbed
  BY DEF evmChain
<1>2. EvmTypeOK /\ head \in 1 .. MaxHead /\ block \in 0 .. head /\ height \in 0 .. head
  BY EvmTypes DEF EvmInv, TransfersTrue
<1>3. head' \in 1 .. MaxHead /\ block' \in 0 .. head' /\ height' \in 0 .. head'
  BY <1>1, <1>2
<1>4. {returned'.native, returned'.tokens} \subseteq [Accounts -> Int]
  OBVIOUS
<1>5. EvmTypeOK'
  BY <1>3, <1>4 DEF EvmTypeOK
<1>6. Runs' /\ Fits'
  BY <1>1 DEF EvmInv, Runs, Possible, Fits
<1>. QED BY <1>5, <1>6

(* Until the second receipt none is missing.                               *)
LEMMA LoggedIs ==
    ASSUME EvmInv
    PROVE  logged \in BOOLEAN /\ (pc \notin {"trace", "done"} => logged)
BY DEF EvmInv, TransfersTrue, EvmTypeOK, ReturnHolds

(* A call that returns early, with a status that says nothing of the       *)
(* transaction or that it failed.                                          *)
LEMMA EarlyReturn ==
    ASSUME EvmInv, UNCHANGED <<evmChain, height, logs, logged>>,
           NEW status \in {"pending", "failed", "unconfirmed", "error"}, Return(status),
           status = "failed" => block # 0 /\ \A e \in execution : Failed(e)
    PROVE  EvmInv'
<1>1. /\ pc' = "done" /\ returned'.status = status /\ returned'.traced = FALSE
      /\ returned'.native = NoChange /\ returned'.tokens = NoChange /\ returned'.ran = {}
  BY ReturnIs
<1>2. block' = block /\ execution' = execution
  BY DEF evmChain
<1>3. EvmTypeOK' /\ Runs' /\ Fits'
  BY <1>1, Bounds, LoggedIs, ReadKeeps
<1>4. status # "transfers" /\ status # "rejected"
  OBVIOUS
<1>5. TransfersTrue'
  <2>1. returned'.status = "failed" => \A e \in execution' : Failed(e)
    BY <1>1, <1>2
  <2>. QED BY <1>1, <1>3, <1>4, <2>1 DEF TransfersTrue
<1>6. NativeOfOneExecution'
  BY <1>1 DEF NativeOfOneExecution
<1>7. ReadsHold'
  BY <1>1 DEF ReadsHold
<1>8. ReturnHolds'
  BY <1>1, <1>2, <1>4 DEF ReturnHolds, Verdict
<1>. QED BY <1>3, <1>5, <1>6, <1>7, <1>8 DEF EvmInv

(* A call that goes on.                                                    *)
LEMMA GoOn ==
    ASSUME EvmInv, UNCHANGED <<evmChain, returned>>, pc # "done",
           pc' \in {"receipt", "height", "code", "logs", "trace"},
           height' \in {height, block}, logs' = logs \/ Receipt(logs'),
           logged' \in BOOLEAN, pc' = "trace" \/ logged', ReadsHold'
    PROVE  EvmInv'
<1>1. returned = NoReport /\ returned' = returned
  BY DEF EvmInv, ReturnHolds
<1>2. returned'.status = "none" /\ returned'.traced = FALSE /\ returned'.native = NoChange
      /\ returned'.tokens = NoChange /\ returned'.ran = {}
  BY <1>1, ReportIs
<1>3. EvmTypeOK' /\ Runs' /\ Fits'
  <2>1. returned'.status \in {"none", "pending", "failed", "unconfirmed", "rejected", "transfers", "error"}
    BY <1>2
  <2>. QED BY <1>2, <2>1, Bounds, ReadKeeps
<1>4. TransfersTrue' /\ NativeOfOneExecution'
  BY <1>2, <1>3 DEF TransfersTrue, NativeOfOneExecution
<1>5. ReturnHolds'
  BY <1>1, <1>2 DEF ReturnHolds, Verdict
<1>. QED BY <1>3, <1>4, <1>5 DEF EvmInv

LEMMA ReadTxStep == EvmInv /\ ReadTx => EvmInv'
<1>. SUFFICES ASSUME EvmInv, ReadTx PROVE EvmInv'
  OBVIOUS
<1>1. pc = "tx" /\ UNCHANGED <<evmChain, height, logs, logged>>
  BY DEF ReadTx
<1>2. CASE Return("pending")
  BY <1>1, <1>2, EarlyReturn
<1>3. CASE block # 0 /\ pc' = "receipt" /\ returned' = returned
  <2>1. ReadsHold'
    BY <1>1, <1>3 DEF ReadsHold, evmChain
  <2>. QED BY <1>1, <1>3, <2>1, GoOn, LoggedIs
<1>. QED BY <1>2, <1>3 DEF ReadTx

LEMMA OneRun ==
    ASSUME Runs
    PROVE  /\ block = 0 => execution = {}
           /\ block # 0 => \E e \in Executions : execution = {e} /\ Possible(e)
           /\ \A e \in execution : block # 0 /\ e \in Executions /\ Possible(e) /\ execution = {e}
BY DEF Runs

LEMMA ReadReceiptStep == EvmInv /\ ReadReceipt => EvmInv'
<1>. SUFFICES ASSUME EvmInv, ReadReceipt PROVE EvmInv'
  OBVIOUS
<1>1. pc = "receipt" /\ UNCHANGED <<evmChain, logs, logged>>
  BY DEF ReadReceipt
<1>2. CASE Return("pending") /\ height' = height
  BY <1>1, <1>2, EarlyReturn
<1>3. ASSUME NEW e \in execution, Failed(e), Return("failed"), height' = height PROVE EvmInv'
  <2>1. block # 0 /\ \A x \in execution : Failed(x)
    BY <1>3, OneRun DEF EvmInv
  <2>. QED BY <1>1, <1>3, <2>1, EarlyReturn
<1>4. ASSUME NEW e \in execution, ~Failed(e), pc' = "height", height' = block, returned' = returned PROVE EvmInv'
  <2>1. block # 0 /\ \A x \in execution : ~Failed(x)
    BY <1>4, OneRun DEF EvmInv
  <2>2. ReadsHold'
    BY <1>1, <1>4, <2>1 DEF ReadsHold, evmChain
  <2>. QED BY <1>1, <1>4, <2>2, GoOn, LoggedIs
<1>. QED BY <1>2, <1>3, <1>4 DEF ReadReceipt

LEMMA ReadHeightStep ==
    ASSUME NEW latest \in 1 .. MaxHead
    PROVE  EvmInv /\ EvmReadHeight(latest) => EvmInv'
<1>. SUFFICES ASSUME EvmInv, EvmReadHeight(latest) PROVE EvmInv'
  OBVIOUS
<1>1. pc = "height" /\ UNCHANGED <<evmChain, height, logs, logged>> /\ latest \in 1 .. head
  BY DEF EvmReadHeight
<1>2. CASE Confirmed(latest) < Required
  <2>1. Return("unconfirmed")
    BY <1>2 DEF EvmReadHeight
  <2>. QED BY <1>1, <2>1, EarlyReturn
<1>3. CASE ~(Confirmed(latest) < Required)
  <2>1. pc' = "code" /\ returned' = returned
    BY <1>3 DEF EvmReadHeight
  <2>2. EvmTypeOK /\ head \in Nat /\ block \in 0 .. head /\ height \in 0 .. head
    BY EvmTypes DEF EvmInv, TransfersTrue
  <2>3. height = block => head - block >= Required
    BY <1>1, <1>3, <2>2, Bounds DEF Confirmed
  <2>4. ~disturbed => height = block /\ block # 0 /\ \A e \in execution : ~Failed(e)
    BY <1>1 DEF EvmInv, ReadsHold
  <2>5. ReadsHold'
    BY <1>1, <2>1, <2>3, <2>4 DEF ReadsHold, evmChain
  <2>. QED BY <1>1, <2>1, <2>5, GoOn, LoggedIs
<1>. QED BY <1>2, <1>3

LEMMA ReadLogsStep == EvmInv /\ ReadLogs => EvmInv'
<1>. SUFFICES ASSUME EvmInv, ReadLogs PROVE EvmInv'
  OBVIOUS
<1>1. pc = "logs" /\ pc' = "trace" /\ UNCHANGED <<evmChain, height, returned>>
  BY DEF ReadLogs
<1>2. ~disturbed => /\ height = block /\ block # 0 /\ head - block >= Required
                    /\ \A e \in execution : ~Failed(e)
  BY <1>1 DEF EvmInv, ReadsHold
<1>3. ASSUME NEW e \in execution, logs' = LogsOf(e), logged' = TRUE PROVE EvmInv'
  <2>1. e \in Executions /\ execution = {e}
    BY OneRun DEF EvmInv
  <2>2. Receipt(logs')
    BY <1>3, <2>1, ReceiptOf
  <2>3. ReadsHold'
    BY <1>1, <1>2, <1>3, <2>1 DEF ReadsHold, evmChain
  <2>. QED BY <1>1, <1>3, <2>2, <2>3, GoOn
<1>4. CASE logs' = <<>> /\ logged' = FALSE
  <2>1. Receipt(logs')
    BY <1>4, EmptySeq DEF Receipt
  <2>2. ReadsHold'
    BY <1>1, <1>2, <1>4 DEF ReadsHold, evmChain
  <2>. QED BY <1>1, <1>4, <2>1, <2>2, GoOn
<1>. QED BY <1>3, <1>4 DEF ReadLogs

(* A call that returns transfers: they are what the transaction did.       *)
LEMMA TransfersReturn ==
    ASSUME EvmInv, UNCHANGED <<evmChain, height, logs, logged>>,
           pc \in {"code", "logs", "trace"}, pc' = "done", returned'.status = "transfers",
           returned'.native \in [Accounts -> Int], returned'.tokens \in [Accounts -> Int],
           returned'.ran \subseteq Executions, returned'.traced \in BOOLEAN,
           ~disturbed => \A e \in execution :
              /\ logged => returned'.tokens = TokenChange(e.logs)
              /\ returned'.traced \/ DOMAIN e.frames = {<<>>} => returned'.native = ByCalls(e),
           \A e \in returned'.ran : returned'.native = ByCalls(e)
    PROVE  EvmInv'
<1>1. /\ head' = head /\ block' = block /\ execution' = execution /\ disturbed' = disturbed
      /\ value' = value /\ logged' = logged
  BY DEF evmChain
<1>2. EvmTypeOK' /\ Runs' /\ Fits'
  BY ReadKeeps, LoggedIs
<1>3. ~disturbed => /\ height = block /\ block # 0 /\ head - block >= Required
                    /\ \A e \in execution : ~Failed(e)
  BY DEF EvmInv, ReadsHold
<1>4. TransfersTrue'
  BY <1>1, <1>2, <1>3 DEF TransfersTrue
<1>5. NativeOfOneExecution' /\ ReadsHold'
  BY DEF NativeOfOneExecution, ReadsHold
<1>6. ReturnHolds'
  BY <1>1, <1>3 DEF ReturnHolds
<1>. QED BY <1>2, <1>4, <1>5, <1>6 DEF EvmInv

(* A call that rejects: the transaction moved nothing that was looked at.  *)
LEMMA RejectReturn ==
    ASSUME EvmInv, UNCHANGED <<evmChain, height, logs, logged>>,
           pc' = "done", returned'.status = "rejected",
           returned'.native \in [Accounts -> Int], returned'.tokens \in [Accounts -> Int],
           returned'.ran \subseteq Executions, returned'.traced \in BOOLEAN,
           ~disturbed =>
              /\ block # 0 /\ value = 0
              /\ \A e \in execution :
                    /\ logged => TokenChange(LogsOf(e)) = NoChange
                    /\ returned'.traced => ByCalls(e) = NoChange,
           \A e \in returned'.ran : returned'.native = ByCalls(e)
    PROVE  EvmInv'
<1>1. /\ head' = head /\ block' = block /\ execution' = execution /\ disturbed' = disturbed
      /\ value' = value /\ logged' = logged
  BY DEF evmChain
<1>2. EvmTypeOK' /\ Runs' /\ Fits'
  BY ReadKeeps, LoggedIs
<1>3. TransfersTrue'
  BY <1>1, <1>2 DEF TransfersTrue
<1>4. NativeOfOneExecution' /\ ReadsHold'
  BY DEF NativeOfOneExecution, ReadsHold
<1>5. ReturnHolds'
  BY <1>1 DEF ReturnHolds, Verdict
<1>. QED BY <1>2, <1>3, <1>4, <1>5 DEF EvmInv

LEMMA ReadCodeStep == EvmInv /\ ReadCode => EvmInv'
<1>. SUFFICES ASSUME EvmInv, ReadCode PROVE EvmInv'
  OBVIOUS
<1>1. pc = "code" /\ UNCHANGED <<evmChain, height, logs, logged>>
  BY DEF ReadCode
<1>2. CASE contract
  <2>1. pc' = "logs" /\ returned' = returned
    BY <1>2 DEF ReadCode
  <2>2. ~disturbed => /\ height = block /\ block # 0 /\ head - block >= Required
                      /\ \A e \in execution : ~Failed(e)
    BY <1>1 DEF EvmInv, ReadsHold
  <2>3. ReadsHold'
    BY <1>1, <2>1, <2>2 DEF ReadsHold, evmChain
  <2>. QED BY <1>1, <2>1, <2>3, GoOn, LoggedIs
<1>3. CASE ~contract
  <2>1. /\ pc' = "done"
        /\ returned' = [NoReport EXCEPT !.status = "transfers", !.native = Payment(value)]
    BY <1>3 DEF ReadCode, Payment
  <2>2. /\ returned'.status = "transfers" /\ returned'.native = Payment(value)
        /\ returned'.traced = FALSE /\ returned'.tokens = NoChange /\ returned'.ran = {}
    BY <2>1 DEF NoReport
  <2>3. value \in Nat
    BY DEF EvmInv, Fits
  <2>4. Payment(value) \in [Accounts -> Int]
    BY <2>3 DEF Payment
  <2>5. ASSUME NEW e \in execution
        PROVE  TokenChange(e.logs) = NoChange /\ ByCalls(e) = Payment(value)
    <3>1. e \in Executions /\ IsPlain(e) /\ e.frames[<<>>].value = value
      BY <1>3, OneRun DEF EvmInv, Possible
    <3>2. CountedLogs(e.logs) = {}
      <4>1. DOMAIN <<>> = {}
        OBVIOUS
      <4>. QED BY <3>1, <4>1 DEF IsPlain, CountedLogs
    <3>3. TokenChange(e.logs) = NoChange
      BY <3>1, <3>2, ReceiptOf, TokenInt
    <3>4. ByCalls(e) = Payment(value)
      BY <3>1, PaymentIs DEF IsPlain
    <3>. QED BY <3>3, <3>4
  <2>. QED BY <1>1, <2>1, <2>2, <2>4, <2>5, Bounds, TransfersReturn
<1>. QED BY <1>2, <1>3

(* The two forms of what Summary returns.                                  *)
LEMMA SummaryIs ==
    ASSUME NEW frames, NEW ran, Summary(frames, ran)
    PROVE  /\ pc' = "done" /\ returned'.traced = (frames # NoTrace) /\ returned'.ran = ran
           /\ MovesNothing(frames, logs, value) =>
                /\ returned'.status = "rejected" /\ returned'.native = NoChange /\ returned'.tokens = NoChange
           /\ ~MovesNothing(frames, logs, value) =>
                /\ returned'.status = "transfers" /\ returned'.native = NativeChange(frames, value)
                /\ returned'.tokens = TokenChange(logs)
<1>1. CASE MovesNothing(frames, logs, value)
  <2>1. returned' = [NoReport EXCEPT !.status = "rejected", !.traced = (frames # NoTrace), !.ran = ran]
    BY <1>1 DEF Summary
  <2>. QED BY <1>1, <2>1 DEF Summary, NoReport
<1>2. CASE ~MovesNothing(frames, logs, value)
  <2>1. returned' = [status |-> "transfers", traced |-> frames # NoTrace,
                     native |-> NativeChange(frames, value), tokens |-> TokenChange(logs), ran |-> ran]
    BY <1>2 DEF Summary
  <2>. QED BY <1>2, <2>1 DEF Summary
<1>. QED BY <1>1, <1>2

LEMMA ReadTraceStep == EvmInv /\ ReadTrace => EvmInv'
<1>. SUFFICES ASSUME EvmInv, ReadTrace PROVE EvmInv'
  OBVIOUS
<1>1. pc = "trace" /\ UNCHANGED <<evmChain, height, logs, logged>>
  BY DEF ReadTrace
<1>2. PICK e \in execution : Summary(e.frames, {e})
  BY DEF ReadTrace
<1>3. /\ block # 0 /\ e \in Executions /\ execution = {e} /\ Tree(e.frames)
      /\ e.frames[<<>>].value = value /\ value \in Nat
  BY OneRun, ExecutionIs DEF EvmInv, Possible
<1>4. NativeChange(e.frames, value) = ByCalls(e) /\ ByCalls(e) \in [Accounts -> Int]
  BY <1>3, NativeIs, EffectInt
<1>5. Receipt(logs) /\ TokenChange(logs) \in [Accounts -> Int]
  BY TokenInt DEF EvmInv, Fits
<1>6. ~disturbed => (logged => logs = LogsOf(e)) /\ ~Failed(e)
  BY <1>1 DEF EvmInv, ReadsHold
<1>7. pc' = "done" /\ returned'.traced \in BOOLEAN /\ returned'.ran = {e}
  BY <1>2, SummaryIs
<1>8. CASE MovesNothing(e.frames, logs, value)
  <2>1. returned'.status = "rejected" /\ returned'.native = NoChange /\ returned'.tokens = NoChange
    BY <1>2, <1>8, SummaryIs
  <2>2. Counted(e.frames) = {} /\ CountedLogs(logs) = {}
    BY <1>8 DEF MovesNothing
  <2>3. TokenChange(logs) = NoChange
    BY <1>5, <2>2, TokenInt
  <2>4. ByCalls(e) = NoChange
    <3>1. ASSUME NEW a \in Accounts PROVE ByCalls(e)[a] = 0
      <4>1. ByCalls(e)[a] = Change(Moves(e.frames, Counted(e.frames)), a)
        BY <1>3, EffectInt
      <4>2. DOMAIN Moves(e.frames, Counted(e.frames)) = {}
        BY <2>2 DEF Moves
      <4>. QED BY <4>1, <4>2, NoChangeOfNothing
    <3>. QED BY <1>4, <3>1 DEF NoChange
  <2>5. ~disturbed /\ logged => TokenChange(LogsOf(e)) = NoChange
    BY <1>6, <2>3
  <2>6. ~disturbed => value = 0
    <3>. SUFFICES ASSUME ~disturbed PROVE ~(value > 0)
      BY <1>3
    <3>1. ~Failed(e) /\ e.frames[<<>>].callType = "call" /\ <<>> \in DOMAIN e.frames
      BY <1>3, <1>6, ExecutionIs DEF Tree
    <3>2. ~InFailedFrame(e.frames, <<>>)
      BY <1>3, <3>1, RootFails DEF Failed
    <3>. QED BY <1>3, <2>2, <3>1, <3>2 DEF Counted
  <2>. QED BY <1>1, <1>3, <1>4, <1>7, <2>1, <2>4, <2>5, <2>6, Bounds, RejectReturn
<1>9. CASE ~MovesNothing(e.frames, logs, value)
  <2>1. /\ returned'.status = "transfers" /\ returned'.native = ByCalls(e)
        /\ returned'.tokens = TokenChange(logs)
    BY <1>2, <1>4, <1>9, SummaryIs
  <2>2. ~disturbed /\ logged => logs = e.logs
    BY <1>6 DEF LogsOf
  <2>. QED BY <1>1, <1>3, <1>4, <1>5, <1>7, <2>1, <2>2, TransfersReturn
<1>. QED BY <1>8, <1>9

LEMMA NoTraceStep == EvmInv /\ NoTraceRead => EvmInv'
<1>. SUFFICES ASSUME EvmInv, NoTraceRead PROVE EvmInv'
  OBVIOUS
<1>1. pc = "trace" /\ UNCHANGED <<evmChain, height, logs, logged>> /\ Summary(NoTrace, {})
  BY DEF NoTraceRead
<1>2. pc' = "done" /\ returned'.traced = FALSE /\ returned'.ran = {}
  BY <1>1, SummaryIs
<1>3. /\ value \in Nat /\ Receipt(logs)
      /\ ~disturbed => /\ block # 0
                       /\ \A e \in execution : ~Failed(e) /\ (logged => logs = LogsOf(e))
  BY <1>1 DEF EvmInv, Fits, ReadsHold
<1>4. CASE MovesNothing(NoTrace, logs, value)
  <2>1. returned'.status = "rejected" /\ returned'.native = NoChange /\ returned'.tokens = NoChange
    BY <1>1, <1>4, SummaryIs
  <2>2. CountedLogs(logs) = {} /\ value = 0
    <3>1. DOMAIN NoTrace = {}
      BY DEF NoTrace
    <3>. QED BY <1>3, <1>4, <3>1 DEF MovesNothing, RootMoves
  <2>3. TokenChange(logs) = NoChange
    BY <1>3, <2>2, TokenInt
  <2>. QED BY <1>1, <1>2, <1>3, <2>1, <2>2, <2>3, Bounds, RejectReturn
<1>5. CASE ~MovesNothing(NoTrace, logs, value)
  <2>2. /\ returned'.status = "transfers" /\ returned'.native = Payment(value)
        /\ returned'.tokens = TokenChange(logs)
    BY <1>1, <1>3, <1>5, SummaryIs, UntracedIs
  <2>3. Payment(value) \in [Accounts -> Int] /\ TokenChange(logs) \in [Accounts -> Int]
    BY <1>3, TokenInt DEF Payment
  <2>4. ASSUME ~disturbed, NEW e \in execution
        PROVE  /\ logged => returned'.tokens = TokenChange(e.logs)
               /\ DOMAIN e.frames = {<<>>} => returned'.native = ByCalls(e)
    <3>1. e \in Executions /\ ~Failed(e) /\ (logged => logs = LogsOf(e)) /\ e.frames[<<>>].value = value
      BY <1>3, <2>4, OneRun DEF EvmInv, Possible
    <3>2. logged => logs = e.logs
      BY <3>1 DEF LogsOf
    <3>. QED BY <2>2, <3>1, <3>2, PaymentIs
  <2>. QED BY <1>1, <1>2, <2>2, <2>3, <2>4, Bounds, TransfersReturn
<1>. QED BY <1>4, <1>5

LEMMA NodeErrorStep == EvmInv /\ EvmNodeError => EvmInv'
<1>. SUFFICES ASSUME EvmInv, EvmNodeError PROVE EvmInv'
  OBVIOUS
<1>1. Return("error") /\ UNCHANGED <<evmChain, height, logs, logged>>
  BY DEF EvmNodeError
<1>. QED BY <1>1, EarlyReturn

LEMMA EvmStep == EvmInv /\ [Next]_evmVars => EvmInv'
<1>. SUFFICES ASSUME EvmInv, [Next]_evmVars PROVE EvmInv'
  OBVIOUS
<1>1. CASE UNCHANGED evmVars
  <2>1. /\ contract' = contract /\ value' = value /\ head' = head /\ block' = block
        /\ execution' = execution /\ disturbed' = disturbed /\ pc' = pc
        /\ height' = height /\ logs' = logs /\ logged' = logged /\ returned' = returned
    BY <1>1 DEF evmVars, evmChain, evmCall
  <2>. QED BY <2>1 DEF EvmInv, TransfersTrue, EvmTypeOK, NativeOfOneExecution, Runs, Possible, Fits,
                       ReadsHold, ReturnHolds, Verdict
<1>2. ASSUME NEW e \in Executions, Mine(e) PROVE EvmInv'
  BY <1>2, MineStep
<1>3. ASSUME NEW d \in 1 .. MaxDepth, NEW n \in 0 .. MaxHead, NEW e \in Executions, Reorg(d, n, e)
      PROVE  EvmInv'
  BY <1>3, ReorgStep
<1>4. ASSUME NEW latest \in 1 .. MaxHead, EvmReadHeight(latest) PROVE EvmInv'
  BY <1>4, ReadHeightStep
<1>. QED BY <1>1, <1>2, <1>3, <1>4, GrowStep, ReadTxStep, ReadReceiptStep, ReadCodeStep, ReadLogsStep,
            ReadTraceStep, NoTraceStep, NodeErrorStep DEF Next

(* The reads of a call hold as long as the transaction keeps its block.    *)
THEOREM EvmKept == Spec => []EvmInv
<1>. QED BY EvmStarts, EvmStep, PTL DEF Spec

(* If the transaction kept its block during the call, GetTransfersByHash   *)
(* of the EVM handler returns what it did, rejects it only when it moved   *)
(* nothing or failed, and counts the confirmations; but it overlooks the   *)
(* tokens when the second receipt is missing, what calls inside it moved   *)
(* when there is no trace, and what creations and self-destructions move.  *)
THEOREM EvmTransfersSound == Spec => []TransfersTrue
<1>1. EvmInv => TransfersTrue
  BY DEF EvmInv
<1>. QED BY <1>1, EvmKept, PTL

(* The native transfers of a traced answer are those of one execution,     *)
(* whatever the chain does during the call, less what its creations and    *)
(* self-destructions move: a call frame that failed, or that ran in one    *)
(* that did, credits nobody (getTxTransferForEVMFromContract).             *)
THEOREM NativeSound == Spec => []NativeOfOneExecution
<1>1. EvmInv => NativeOfOneExecution
  BY DEF EvmInv
<1>. QED BY <1>1, EvmKept, PTL
=============================================================================
