------------------------------ MODULE Payment -------------------------------
(***************************************************************************)
(* The programs of mobile/example: read what the transaction is built on,  *)
(* build and sign it, send it, and poll CheckTx until there is a verdict   *)
(* or no patience left.  A user whose run did not succeed runs the program *)
(* again.  The endpoints behind the URL lag, answers get lost, and the     *)
(* chain executes what is in its pool in any order.                        *)
(*                                                                         *)
(* A transaction claims something that only one of them can have: the      *)
(* nonce it carries or the coins it spends.                                *)
(***************************************************************************)
EXTENDS NodeAnswers, FiniteSets, Sequences

CONSTANTS
    MaxRuns,    \* bound: how often the user runs the program
    MaxPolls    \* 40 in every program

ASSUME RunsAssumption == MaxRuns \in Nat /\ MaxPolls \in Nat \ {0}

Runs == 1 .. MaxRuns

(* Chains whose accounts number their transactions, whose accounts have    *)
(* coins, and whose transactions only refer to a recent block.             *)
Numbered  == {"evm", "substrate", "filecoin", "near", "aptos", "cosmos", "stellar", "multiversx", "starknet", "ton"}
Coined    == {"utxo", "kaspa", "sui"}
Referring == {"solana", "tron", "algorand"}

(* The coin of the account, and one that somebody pays into it meanwhile.  *)
(* The change of a payment is a coin with the number of its run.           *)
Coin    == 0
Gift    == MaxRuns + 1

VARIABLES
    chain,
    history,    \* external: the account's transactions before the first run
    gift,       \* external: the second coin has been paid
    tx,         \* external: the transaction of each run, as the best endpoint sees it
    view,       \* external: as each endpoint sees them
    run, pc,    \* the current run, and where it is
    step,       \* which read of the program, or which poll, comes next
    anchor,     \* what the transaction of each run claims
    hash,       \* the run whose transaction it is: a run may build the same one again
    outcome,    \* how each run ended
    shown       \* history: what each run was shown when it read its anchor

vars == <<chain, history, gift, tx, view, run, pc, step, anchor, hash, outcome, shown>>
world == <<chain, history, gift>>

Done(v)   == {p \in Runs : Included(v[p])}
Pooled(v) == {p \in Runs : v[p].phase = "pool"}
Claims(ps) == UNION {anchor[p] : p \in ps}

-----------------------------------------------------------------------------
(* What the handlers read from an endpoint with view v: the claims that a  *)
(* transaction may be built on.                                            *)

(* External: the next nonce after the executed transactions, and the next  *)
(* one that no transaction in the endpoint's pool carries.                 *)
Nonce(v) == history + Cardinality(Done(v))
PendingNonce(v) ==
    CHOOSE n \in Nonce(v) .. Nonce(v) + MaxRuns :
        /\ n \notin Claims(Pooled(v))
        /\ \A m \in Nonce(v) .. n - 1 : m \in Claims(Pooled(v))

EvmNonce(v)      == {{PendingNonce(v)}}
FilecoinNonce(v) == {{PendingNonce(v)}}

(* system_accountNextIndex, or when it fails the nonce in the storage.     *)
SubstrateNonce(v) == {{PendingNonce(v)}, {Nonce(v)}}

NearNonceOfKey(v) == {{Nonce(v)}}           \* mutant: the last nonce, not the next
NearNonce(v)      == {{Nonce(v) + 1}}

AptosNonce(v) == {{Nonce(v)}}

CosmosSequencePending(v) == {{PendingNonce(v)}}     \* mutant: counts the pool
CosmosSequence(v)        == {{Nonce(v)}}

StellarSequence(v) == {{Nonce(v)}}
MultiversxNonce(v) == {{Nonce(v)}}
StarknetNonce(v)   == {{Nonce(v)}}

(* An account that is not active yet has no seqno: the program takes 0,    *)
(* as if it had read it.                                                   *)
TonSeqno(v) == {{Nonce(v)}}

(* External: the coins of the account that no executed transaction spends. *)
Unspent(v) ==
    ({Coin} \union (IF gift THEN {Gift} ELSE {}) \union Done(v)) \ Claims(Done(v))

(* BlockCypher leaves out what its pool spends; the handler leaves out     *)
(* what is not confirmed; the transaction spends all the others.           *)
UtxoCoins(v) == {Unspent(v) \ Claims(Pooled(v))}

(* The coins come in the order of a Go map and are sorted by value only:   *)
(* of coins of one value any can be the first to be enough.                *)
KaspaCoins(v) == {{c} : c \in Unspent(v)} \union {Unspent(v)}

SuiCoins(v) == {Unspent(v)}

(* A recent block: the one of an earlier run, or another.                  *)
SolanaBlock(v)   == {{p} : p \in 1 .. run}
TronBlock(v)     == {{p} : p \in 1 .. run}
AlgorandRound(v) == {{p} : p \in 1 .. run}

Anchors(c, v) ==
    CASE c = "evm" -> EvmNonce(v)            [] c = "filecoin" -> FilecoinNonce(v)
      [] c = "substrate" -> SubstrateNonce(v) [] c = "near" -> NearNonce(v)
      [] c = "aptos" -> AptosNonce(v)        [] c = "cosmos" -> CosmosSequence(v)
      [] c = "stellar" -> StellarSequence(v) [] c = "multiversx" -> MultiversxNonce(v)
      [] c = "starknet" -> StarknetNonce(v)  [] c = "utxo" -> UtxoCoins(v)
      [] c = "kaspa" -> KaspaCoins(v)        [] c = "sui" -> SuiCoins(v)
      [] c = "solana" -> SolanaBlock(v)      [] c = "tron" -> TronBlock(v)
      [] c = "algorand" -> AlgorandRound(v)
      [] c = "ton" -> TonSeqno(v)

-----------------------------------------------------------------------------
(* The programs: what they read before they build, what they claim when    *)
(* the read of the anchor fails (nothing: they end), how often they poll.  *)
Program(reads, fallback) == [reads |-> reads, fallback |-> fallback, polls |-> MaxPolls]

EvmMain        == Program(<<"anchor", "gasPrice", "gasLimit">>, {})
UtxoMain       == Program(<<"anchor", "byteFee">>, {})
SolanaMain     == Program(<<"anchor", "priorityFee">>, {})
TronMain       == Program(<<"anchor">>, {})
NearMain       == Program(<<"blockHash", "anchor">>, {1})
KaspaMain      == Program(<<"anchor">>, {})
AlgorandMain   == Program(<<"anchor", "minFee">>, {})
AptosMain      == Program(<<"anchor", "gasPrice", "ledgerInfo">>, {})
SuiMain        == Program(<<"gasPrice", "anchor">>, {})
CosmosMain     == Program(<<"anchor">>, {})
SubstrateMain  == Program(<<"anchor", "chainInfo">>, {})
StellarMain    == Program(<<"activated", "anchor">>, {})
FilecoinMain   == Program(<<"anchor", "gas">>, {0})
MultiversxMain == Program(<<"anchor", "networkConfig">>, {})
TonMain        == Program(<<"anchor">>, {})
StarknetMain   == [Program(<<"anchor", "fee">>, {}) EXCEPT !.polls = 0]

Main(c) ==
    CASE c = "evm" -> EvmMain             [] c = "utxo" -> UtxoMain
      [] c = "solana" -> SolanaMain       [] c = "tron" -> TronMain
      [] c = "near" -> NearMain           [] c = "kaspa" -> KaspaMain
      [] c = "algorand" -> AlgorandMain   [] c = "aptos" -> AptosMain
      [] c = "sui" -> SuiMain             [] c = "cosmos" -> CosmosMain
      [] c = "substrate" -> SubstrateMain [] c = "stellar" -> StellarMain
      [] c = "filecoin" -> FilecoinMain   [] c = "multiversx" -> MultiversxMain
      [] c = "starknet" -> StarknetMain
      [] c = "ton" -> TonMain

(* SendTx of NEAR and Sui answers after the execution.                     *)
Committing == {"near", "sui"}

-----------------------------------------------------------------------------
Nothing == [done |-> {}, pool |-> {}, now |-> FALSE]

Init ==
    /\ chain \in Chains \ {"krc20"}
    /\ history \in IF chain \in Numbered THEN {0, 1} ELSE {0}
    /\ gift = FALSE
    /\ tx = [p \in Runs |-> Unknown] /\ view = [e \in Endpoints |-> tx]
    /\ run = 0 /\ pc = "idle" /\ step = 0
    /\ anchor = [p \in Runs |-> {}] /\ hash = [p \in Runs |-> p]
    /\ outcome = [p \in Runs |-> "none"] /\ shown = [p \in Runs |-> Nothing]

network == <<world, tx, view>>
built   == <<anchor, hash, shown>>

End(how) ==
    /\ pc' = "idle" /\ step' = 0
    /\ outcome' = [outcome EXCEPT ![run] = how]

(* The user runs the program, again unless it reported success.            *)
Start ==
    /\ pc = "idle" /\ run < MaxRuns
    /\ run > 0 => outcome[run] # "succeeded"
    /\ run' = run + 1 /\ pc' = "read" /\ step' = 1
    /\ UNCHANGED <<network, built, outcome>>

Reads   == Main(chain).reads
Reading == pc = "read" /\ Reads[step] = "anchor"

(* Building and signing follow the last read.                              *)
AfterRead ==
    /\ step' = IF step = Len(Reads) THEN 0 ELSE step + 1
    /\ pc' = IF step = Len(Reads) THEN "send" ELSE "read"
    /\ UNCHANGED <<network, run, outcome>>

(* The same claim with the same fees is the same transaction.              *)
Claim(claims) ==
    /\ anchor' = [anchor EXCEPT ![run] = claims]
    /\ \E p \in {run} \union {q \in 1 .. run - 1 : anchor[q] = claims} :
         hash' = [hash EXCEPT ![run] = hash[p]]

ReadAnchor(e) ==
    /\ Reading
    /\ \E claims \in Anchors(chain, view[e]) \ {{}} : Claim(claims)
    /\ shown' = [shown EXCEPT ![run] =
                    [done |-> Done(view[e]), pool |-> Pooled(view[e]), now |-> view[e] = tx]]
    /\ AfterRead

(* Build fails: there is no coin to spend.                                 *)
NoCoins(e) ==
    /\ Reading /\ {} \in Anchors(chain, view[e])
    /\ End("unsent")
    /\ UNCHANGED <<network, built, run>>

(* NEAR and Filecoin take the account for a new one.                       *)
AssumeNew ==
    /\ Reading /\ Main(chain).fallback # {}
    /\ Claim(Main(chain).fallback)
    /\ AfterRead /\ UNCHANGED shown

ReadOther ==
    /\ pc = "read" /\ ~Reading
    /\ AfterRead /\ UNCHANGED built

ReadFails ==
    /\ pc = "read" /\ (Reading => Main(chain).fallback = {})
    /\ End("unsent")
    /\ UNCHANGED <<network, built, run>>

-----------------------------------------------------------------------------
(* External: whether the transaction of run p can be executed, and whether *)
(* an endpoint with view v takes it into its pool.                         *)
Fits(p) ==
    /\ chain \in Numbered => anchor[p] = {Nonce(tx) + (IF chain = "near" THEN 1 ELSE 0)}
    /\ chain \in Coined => anchor[p] \cap Claims(Done(tx)) = {}

Takes(v, p) ==
    /\ chain \in Numbered => \A n \in anchor[p] : n >= Nonce(v)
    /\ chain \in Coined => anchor[p] \subseteq Unspent(v)

Mine == hash[run]

(* SendTx: the endpoint takes the transaction, or has it already.          *)
Send(e) ==
    /\ pc = "send" /\ Takes(view[e], run)
    /\ tx' = IF Included(tx[Mine]) THEN tx ELSE [tx EXCEPT ![Mine] = Outside("pool", 0)]
    /\ pc' = "answer"
    /\ UNCHANGED <<world, view, built, run, step, outcome>>

(* SendTx returns the hash.  The program of Starknet ends with it.         *)
Answer ==
    /\ pc = "answer" /\ (chain \in Committing => Included(tx[Mine]))
    /\ IF Main(chain).polls = 0 THEN End("sent")
       ELSE pc' = "poll" /\ step' = 1 /\ UNCHANGED outcome
    /\ UNCHANGED <<network, built, run>>

(* SendTx fails: the endpoint refuses, Kaspa's with SEND_RETRY_ONCE when   *)
(* an input is spent in its pool; or the answer is lost.                   *)
SendFails ==
    /\ pc \in {"send", "answer"}
    /\ End("unsent")
    /\ UNCHANGED <<network, built, run>>

(* One CheckTx, of whose two reads each may go to another endpoint.        *)
CheckTx(v, w) == IF First(chain, v) # "" THEN First(chain, v) ELSE Second(chain, v, w)

Statuses ==
    OnError(chain) \union
    UNION {Returned(chain, CheckTx(view[e][Mine], view[f][Mine])) : e \in Endpoints, f \in Endpoints}

Poll ==
    /\ pc = "poll"
    /\ \E status \in Statuses :
         IF status \in {"succeeded", "failed"} THEN End(status)
         ELSE IF step = Main(chain).polls THEN End("timeout")
         ELSE step' = step + 1 /\ UNCHANGED <<pc, outcome>>
    /\ UNCHANGED <<network, built, run>>

-----------------------------------------------------------------------------
local == <<run, pc, step, built, outcome>>

(* External: execution, eviction, return to the pool from another one, a   *)
(* payment to the account, and endpoints that catch up.                    *)
Execute(p, ok) ==
    /\ tx[p].phase = "pool" /\ Fits(p) /\ (chain \in Infallible => ok)
    /\ tx' = [tx EXCEPT ![p] = [phase |-> "final", era |-> 0, ok |-> ok]]
    /\ UNCHANGED <<world, view, local>>

Evict(p) ==
    /\ tx[p].phase = "pool"
    /\ tx' = [tx EXCEPT ![p] = Outside("evicted", 0)]
    /\ UNCHANGED <<world, view, local>>

Return(p) ==
    /\ tx[p].phase = "evicted"
    /\ tx' = [tx EXCEPT ![p] = Outside("pool", 0)]
    /\ UNCHANGED <<world, view, local>>

Pay ==
    /\ chain \in Coined /\ ~gift
    /\ gift' = TRUE
    /\ UNCHANGED <<chain, history, tx, view, local>>

Sync(e) ==
    /\ view[e] # tx
    /\ view' = [view EXCEPT ![e] = tx]
    /\ UNCHANGED <<world, tx, local>>

Next ==
    \/ Start \/ AssumeNew \/ ReadOther \/ ReadFails
    \/ Answer \/ SendFails \/ Poll \/ Pay
    \/ \E e \in Endpoints : ReadAnchor(e) \/ NoCoins(e) \/ Send(e) \/ Sync(e)
    \/ \E p \in Runs : Evict(p) \/ Return(p) \/ \E ok \in BOOLEAN : Execute(p, ok)

Spec == Init /\ [][Next]_vars

-----------------------------------------------------------------------------
TypeOK ==
    /\ run \in 0 .. MaxRuns /\ pc \in {"idle", "read", "send", "answer", "poll"}
    /\ tx \in [Runs -> Views] /\ hash \in [Runs -> Runs]
    /\ outcome \in [Runs -> {"none", "unsent", "sent", "timeout", "succeeded", "failed"}]

Paid(p) == Included(tx[p]) /\ tx[p].ok

(* Chains whose handlers count what is in the pool of a node.              *)
PoolAware == {"evm", "filecoin", "substrate", "utxo"}

(* Two runs both pay only if the node had told the later one that the      *)
(* earlier payment was executed or, on chains whose handler reads the      *)
(* pool, one of them that a payment of the account waits there.  Whatever  *)
(* else is lost, late or stale, the transactions exclude each other.       *)
(* Chains that only refer to a block, and Kaspa with two coins, promise    *)
(* nothing.  A run that reported a failure paid nothing and never will,    *)
(* but for Algorand's, whose handler gives up on a full pool.              *)
PaidOnce ==
    /\ TypeOK
    /\ \A p \in Runs : chain # "algorand" =>
        /\ outcome[p] = "failed" => ~Paid(hash[p])
        /\ outcome[p] = "succeeded" => Paid(hash[p])
    /\ \A p, q \in Runs :
         p < q /\ Paid(p) /\ Paid(q) /\ chain \notin Referring /\ ~(chain = "kaspa" /\ gift) =>
           \/ p \in shown[q].done
           \/ chain \in PoolAware /\ shown[p].pool \union shown[q].pool # {}

(* What a node that is up to date says, nothing waiting in its pool, fits  *)
(* until something else of the account is executed: no run is refused for  *)
(* what the handler read and the program set.                              *)
AnchorFits ==
    \A p \in 1 .. run :
        shown[p].now /\ shown[p].pool = {} /\ Done(tx) = shown[p].done => Fits(p)
=============================================================================
