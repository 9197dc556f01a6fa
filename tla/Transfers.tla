----------------------------- MODULE Transfers ------------------------------
(***************************************************************************)
(* GetTransfersByHash of the chain handlers other than EVM: CheckTx, then  *)
(* the confirmations, then another read for what the transaction moved.    *)
(* Each read may be answered by another endpoint, and the chain goes on    *)
(* between them.  The caller credits a deposit when transfers are reported *)
(* and gives it up when it is rejected.                                    *)
(***************************************************************************)
EXTENDS ChainStatus

Reporting == {"utxo", "tron", "near", "algorand", "cosmos", "stellar", "filecoin", "starknet"}

(* A transfer of the native coin, of a token, or a transaction of any      *)
(* other form: several operations, another call, no movement at all.       *)
FormsOf(c) ==
    IF c \notin Reporting \union {"ton"} THEN {"native"}
    ELSE IF c \in {"utxo", "filecoin"} THEN {"native", "other"} ELSE {"native", "token", "other"}

VARIABLES
    form,       \* external: the form of the transaction
    deep,       \* the caller asks for as many confirmations as make it final, or for none
    call,       \* what the call of GetTransfersByHash reads next
    seen,       \* the earliest era that its CheckTx saw
    report      \* what the last call returned

all == <<vars, form, deep, call, seen, report>>

TransfersInit ==
    /\ Init
    /\ form \in FormsOf(chain) /\ deep \in BOOLEAN /\ (deep => chain \in Reporting)
    /\ call = "status" /\ seen = 0 /\ report = "none"

-----------------------------------------------------------------------------
(* What each handler makes of the read for the contents.                   *)
Supporting(forms) == IF form \in forms THEN "transfers" ELSE "rejected"

(* Of Bitcoin, the other networks have none.  Electrs answers, under the   *)
(* URL of BlockCypher, and whatever its error, it is a rejection.          *)
UtxoContents(v) == IF v.phase = "unknown" THEN "rejected" ELSE Supporting({"native"})

(* A node that does not have the transaction answers with no contract: the *)
(* handler takes the first one of none and panics.                         *)
TronContents(v) == IF Included(v) THEN Supporting({"native", "token"}) ELSE "panic"

(* Mutant: an unknown transaction is rejected, not an error.               *)
NearContentsRejecting(v) ==
    IF v.phase = "unknown" THEN "rejected" ELSE Supporting({"native", "token"})

NearContents(v) == IF v.phase = "unknown" THEN "error" ELSE Supporting({"native", "token"})

AlgorandContents(v) == IF v.phase = "unknown" THEN "error" ELSE Supporting({"native", "token"})

(* Nodes say that they do not have a transaction with the HTTP status, or  *)
(* with a code in the answer, which CheckTx takes for pending and this     *)
(* read for a rejection.                                                   *)
CosmosContents(v) ==
    IF Included(v) THEN {Supporting({"native", "token"})} ELSE {"error", "rejected"}

StellarContents(v) ==
    IF ~Included(v) THEN "error" ELSE IF v.ok THEN Supporting({"native"}) ELSE "rejected"

(* Every message has a sender, a recipient and a value.                    *)
FilecoinContents(v) == IF v.phase = "unknown" THEN "error" ELSE "transfers"

StarknetContents(v) ==
    IF ~Included(v) THEN "error" ELSE IF v.ok THEN Supporting({"native", "token"}) ELSE "rejected"

Contents(c, v) ==
    IF c = "cosmos" THEN CosmosContents(v)
    ELSE {CASE c = "utxo" -> UtxoContents(v)         [] c = "tron" -> TronContents(v)
            [] c = "near" -> NearContents(v)         [] c = "algorand" -> AlgorandContents(v)
            [] c = "filecoin" -> FilecoinContents(v) [] c = "stellar" -> StellarContents(v)
            [] c = "starknet" -> StarknetContents(v)}

(* Mutant: a height below that of the transaction counts as enough.        *)
EnoughWrapping(v) ==
    IF v.era = seen THEN {v.phase # "in"} ELSE IF v.era < seen THEN {TRUE} ELSE BOOLEAN

(* Confirmations: whether an endpoint with this view is as many blocks     *)
(* above the block that was seen as the caller asks for.  One of an        *)
(* earlier era is not: a fork is shorter than that.  To one of a later era *)
(* the block that was seen is none of its own, only a height.              *)
Enough(v) ==
    IF v.era = seen THEN {v.phase = "final"} ELSE IF v.era < seen THEN {FALSE} ELSE BOOLEAN

-----------------------------------------------------------------------------
(* What GetTransfersByHash makes of the result of its CheckTx.             *)
AfterStatus ==
    /\ call' = IF first' # NoAnswer \/ chain \notin Reporting \/ last' # "succeeded"
                 THEN "status" ELSE IF deep THEN "height" ELSE "contents"
    /\ report' = IF first' = NoAnswer /\ last' = "failed" THEN "rejected" ELSE "none"

ReadStatus(e) ==
    /\ call = "status" /\ Ask(e)
    /\ seen' = view[e].era
    /\ AfterStatus
    /\ UNCHANGED <<form, deep>>

ReadStatusAgain(e) ==
    /\ call = "status" /\ AskAgain(e)
    /\ seen' = IF view[e].era < seen THEN view[e].era ELSE seen
    /\ AfterStatus
    /\ UNCHANGED <<form, deep>>

StatusError ==
    /\ call = "status" /\ NodeError
    /\ AfterStatus
    /\ UNCHANGED <<form, deep, seen>>

ReadHeight(e) ==
    /\ call = "height"
    /\ \E enough \in Enough(view[e]) : call' = IF enough THEN "contents" ELSE "status"
    /\ UNCHANGED <<vars, form, deep, seen, report>>

ReadContents(e) ==
    /\ call = "contents"
    /\ \E result \in Contents(chain, view[e]) :
         /\ call' = IF result = "panic" THEN "panic" ELSE "status"
         /\ report' = IF result \in {"error", "panic"} THEN "none" ELSE result
    /\ UNCHANGED <<vars, form, deep, seen>>

(* The request for the height or the contents fails.                       *)
ReadError ==
    /\ call \in {"height", "contents"}
    /\ call' = "status"
    /\ report' = IF chain = "utxo" /\ call = "contents" THEN "rejected" ELSE "none"
    /\ UNCHANGED <<vars, form, deep, seen>>

(* The application starts again after a panic.                             *)
Restart ==
    /\ call = "panic" /\ call' = "status"
    /\ UNCHANGED <<vars, form, deep, seen, report>>

(* External: the chain and the endpoints.                                  *)
Network ==
    /\ \/ Submit \/ Evict \/ Fork \/ Finalize
       \/ \E ok \in BOOLEAN : Include(ok)
       \/ \E e \in Endpoints : Sync(e)
    /\ UNCHANGED <<form, deep, call, seen, report>>

TransfersNext ==
    \/ Network
    \/ \E e \in Endpoints : ReadStatus(e) \/ ReadStatusAgain(e) \/ ReadHeight(e) \/ ReadContents(e)
    \/ StatusError \/ ReadError \/ Restart

(* The endpoints catch up, and the caller calls until it knows: each of    *)
(* the reads is answered now and then, by any endpoint.                    *)
TransfersFairness ==
    /\ \A e \in Endpoints : WF_all(Sync(e) /\ Network)
    /\ SF_all(\E e \in Endpoints : ReadStatus(e)) /\ SF_all(\E e \in Endpoints : ReadStatusAgain(e))
    /\ SF_all(\E e \in Endpoints : ReadHeight(e)) /\ SF_all(\E e \in Endpoints : ReadContents(e))
    /\ WF_all(Restart)

TransfersSpec == TransfersInit /\ [][TransfersNext]_all /\ TransfersFairness

-----------------------------------------------------------------------------
TransfersTypeOK ==
    /\ call \in {"status", "height", "contents", "panic"}
    /\ seen \in 0 .. MaxForks
    /\ report \in {"none", "transfers", "rejected"}

(* Transfers are reported only of a transaction that succeeded and has the *)
(* confirmations that the caller asked for, whichever endpoints answered,  *)
(* unless a fork took it from a block that CheckTx saw.                    *)
TransfersSettled ==
    /\ TransfersTypeOK
    /\ report = "transfers" /\ seen = tx.era /\ chain # "ton" =>
        /\ Included(tx) /\ (chain # "algorand" => tx.ok)
        /\ deep => tx.phase = "final"

(* No deposit that arrived is given up: a rejected transaction failed, or  *)
(* is of a form the handler does not know.  The handlers of Bitcoin,       *)
(* Cosmos, Starknet and Algorand reject when only a node is wrong as well. *)
(* (Of TON see TonTrace.)                                                  *)
RejectionHolds ==
    /\ report = "rejected" /\ seen = tx.era /\ chain \notin {"utxo", "cosmos", "starknet", "algorand", "ton"} =>
        \/ Included(tx) /\ ~tx.ok
        \/ form = "other"
        \/ chain = "stellar" /\ form = "token"
=============================================================================
