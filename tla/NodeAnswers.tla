----------------------------- MODULE NodeAnswers ----------------------------
(***************************************************************************)
(* What CheckTx of the chain handlers makes of a node's answer about a     *)
(* transaction, chain by chain.  ChainStatus lets the transaction move     *)
(* under a caller that polls; Payment puts sending and paying around it.   *)
(***************************************************************************)
EXTENDS Naturals

CONSTANTS
    Chains,     \* the chains of this instance
    Endpoints,  \* behind the URL of the node
    MaxForks    \* bound: inclusions that a fork undoes

AllChains == {"evm", "utxo", "solana", "tron", "near", "kaspa", "krc20", "algorand", "aptos", "sui",
              "cosmos", "substrate", "stellar", "filecoin", "multiversx", "starknet", "ton"}

ASSUME ChainsAssumption == Chains \subseteq AllChains /\ Endpoints # {} /\ MaxForks \in Nat

-----------------------------------------------------------------------------
(* External: chains whose blocks can be replaced before they are final,    *)
(* and chains where a transaction in a block cannot have failed.           *)
Forking    == {"evm", "utxo", "solana", "tron", "kaspa", "krc20", "substrate", "filecoin", "starknet"}
Infallible == {"utxo", "kaspa"}

(* A view of the transaction: its phase, its era (the number of times that *)
(* a fork had undone its inclusion), and whether its execution in the      *)
(* block of that era succeeded.  An evicted transaction left the pool of   *)
(* an endpoint with an error: another one may still include it.            *)
Phases == {"unknown", "pool", "evicted", "in", "final"}
Views == [phase : Phases, era : 0 .. MaxForks, ok : BOOLEAN]
Outside(phase, era) == [phase |-> phase, era |-> era, ok |-> FALSE]
Unknown == Outside("unknown", 0)

Included(v) == v.phase \in {"in", "final"}
Executed(v) == IF v.ok THEN "succeeded" ELSE "failed"

-----------------------------------------------------------------------------
(* What each handler makes of one answer of the node.                      *)
UtxoStatus(v) == IF Included(v) THEN "succeeded" ELSE "pending"

(* Mutant: a confirmed slot is enough.                                     *)
SolanaStatusConfirmed(v) == IF Included(v) THEN Executed(v) ELSE "pending"

SolanaStatus(v) ==
    IF Included(v) /\ ~v.ok THEN "failed"
    ELSE IF v.phase = "final" THEN "succeeded" ELSE "pending"

NearStatus(v) ==
    IF v.phase = "unknown" THEN "error" ELSE IF Included(v) THEN Executed(v) ELSE "pending"

KaspaStatus(v) == IF Included(v) THEN "succeeded" ELSE "pending"

Krc20Status(v) == IF Included(v) THEN Executed(v) ELSE "pending"

AlgorandStatus(v) ==
    IF Included(v) THEN "succeeded" ELSE IF v.phase = "evicted" THEN "failed" ELSE "pending"

AptosStatus(v) == IF Included(v) THEN Executed(v) ELSE "pending"

SuiStatus(v) ==
    IF v.phase = "unknown" THEN "error" ELSE IF v.phase = "final" THEN Executed(v) ELSE "pending"

(* Mutant: a failed transaction stays pending.                             *)
CosmosStatusNeverFailed(v) == IF Included(v) /\ v.ok THEN "succeeded" ELSE "pending"

CosmosStatus(v) == IF Included(v) THEN Executed(v) ELSE "pending"

SubstrateStatus(v) == IF Included(v) THEN Executed(v) ELSE "pending"

StellarStatus(v) == IF Included(v) THEN Executed(v) ELSE "pending"

FilecoinStatus(v) == IF Included(v) THEN Executed(v) ELSE "pending"

(* Of a native transfer; a token's also needs its contract results.        *)
MultiversxStatus(v) ==
    IF v.phase = "unknown" THEN "error" ELSE IF Included(v) THEN Executed(v) ELSE "pending"

StarknetStatus(v) == IF Included(v) THEN Executed(v) ELSE "pending"

(* Of TON, as long as nobody looks into the trace: "in" is the wallet's    *)
(* transaction, "final" the end of the trace (see TonTrace).               *)
TonStatus(v) == IF v.phase = "final" THEN Executed(v) ELSE "pending"

(* Handlers that read twice: what the first answer decides, "" if nothing, *)
(* and what they make of both.                                             *)
EvmFirst(v) == IF Included(v) THEN "" ELSE "pending"
EvmSecond(first, v) == IF Included(v) THEN Executed(v) ELSE "pending"

TronFirst(v) == IF Included(v) /\ ~v.ok THEN "failed" ELSE ""
TronSecond(first, v) == IF Included(first) /\ Included(v) /\ v.ok THEN "succeeded" ELSE "pending"

First(c, v) ==
    CASE c = "evm" -> EvmFirst(v)              [] c = "tron" -> TronFirst(v)
      [] c = "utxo" -> UtxoStatus(v)           [] c = "solana" -> SolanaStatus(v)
      [] c = "near" -> NearStatus(v)           [] c = "kaspa" -> KaspaStatus(v)
      [] c = "krc20" -> Krc20Status(v)         [] c = "algorand" -> AlgorandStatus(v)
      [] c = "aptos" -> AptosStatus(v)         [] c = "sui" -> SuiStatus(v)
      [] c = "cosmos" -> CosmosStatus(v)       [] c = "substrate" -> SubstrateStatus(v)
      [] c = "stellar" -> StellarStatus(v)     [] c = "filecoin" -> FilecoinStatus(v)
      [] c = "multiversx" -> MultiversxStatus(v) [] c = "starknet" -> StarknetStatus(v)
      [] c = "ton" -> TonStatus(v)

Second(c, first, v) == IF c = "evm" THEN EvmSecond(first, v) ELSE TronSecond(first, v)

(* What CheckTx returns of that.  The handler of MultiversX knows a         *)
(* transaction that failed by "invalid"; of the one whose status is "fail" *)
(* it returns Unknown, now and at every later call.  (Which of both words  *)
(* the node uses is chosen anew at every call.)                            *)
Returned(c, status) ==
    {status} \union (IF c = "multiversx" /\ status = "failed" THEN {"unknown"} ELSE {})

(* What they make of a request that fails, or of an error in the answer    *)
(* that does not say "not found".                                          *)
OnError(c) ==
    CASE c = "starknet" -> {"error", "failed"}
      [] c = "krc20"    -> {"pending", "error"}
      [] OTHER          -> {"error"}
=============================================================================
