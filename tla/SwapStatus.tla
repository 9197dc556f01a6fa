----------------------------- MODULE SwapStatus -----------------------------
(***************************************************************************)
(* How a client tells the fate of a swap from what its provider, or a      *)
(* node, says of it.  The words of the providers are external: the table   *)
(* Words is what each of them calls a stage of a swap.                     *)
(*                                                                         *)
(* A swap of one chain is its source transaction.  A swap with a provider  *)
(* between is a deal the provider keeps a record of: none yet, waiting for *)
(* the source transaction, working, paid; refunding and refunded; lost;    *)
(* void when the source transaction failed, expired when it never came.    *)
(***************************************************************************)
Sources == {"pool", "ok", "failed", "dropped"}
Deals == {"none", "waiting", "working", "paid", "refunding", "refunded",
          "lost", "void", "expired"}

(* What can become of a deal.  A provider that cannot pay out refunds, or  *)
(* does neither and leaves the swap to its support.                        *)
Becomes(deal, source) ==
    CASE deal = "none"      -> {"waiting"}
      [] deal = "waiting"   -> CASE source = "ok"      -> {"working"}
                                 [] source = "failed"  -> {"void"}
                                 [] source = "dropped" -> {"expired"}
                                 [] OTHER              -> {}
      [] deal = "working"   -> {"paid", "refunding", "lost"}
      [] deal = "refunding" -> {"refunded", "lost"}
      [] OTHER              -> {}

BridgersWords ==
    [none |-> {"415"}, waiting |-> {"wait_deposit_send"},
     working |-> {"wait_exchange_push", "wait_receive_confirm"},
     paid |-> {"receive_complete"}, refunding |-> {"wait_refund_send"},
     refunded |-> {"refund_complete"}, lost |-> {"error", "wait_for_information"},
     void |-> {"wait_deposit_send_fail"}, expired |-> {"timeout"}]

BungeeWords ==
    [none |-> {"404"}, waiting |-> {"PENDING"}, working |-> {"IN_PROGRESS"},
     paid |-> {"COMPLETED"}, refunding |-> {"REFUNDING"}, refunded |-> {"REFUNDED"},
     lost |-> {"FAILED"}, void |-> {"FAILED"}, expired |-> {"EXPIRED"}]

LifiWords ==
    [none |-> {"NOT_FOUND"}, waiting |-> {"NOT_FOUND", "PENDING"},
     working |-> {"PENDING"}, paid |-> {"DONE"}, refunding |-> {"PENDING"},
     refunded |-> {"DONE/REFUNDED", "FAILED/REFUNDED"}, lost |-> {"FAILED"},
     void |-> {"FAILED", "INVALID"}, expired |-> {"NOT_FOUND"}]

OkxWords ==
    [none |-> {"empty", "NOT_FOUND"}, waiting |-> {"WAITING"}, working |-> {"BRIDGING"},
     paid |-> {"SUCCESS"}, refunding |-> {"REFUNDING"}, refunded |-> {"REFUNDED"},
     lost |-> {"BRIDGING"}, void |-> {"WAITING"}, expired |-> {"WAITING"}]

(* What nodes and indexes say of a source transaction.  One that is only   *)
(* processed may have failed on a fork that is given up.                   *)
HistoryWords ==
    [pool |-> {"pending"}, ok |-> {"success"}, failed |-> {"fail"}, dropped |-> {"pending"}]
SolanaWords ==
    [pool |-> {"null", "processed", "err"}, ok |-> {"confirmed", "finalized"},
     failed |-> {"err"}, dropped |-> {"null"}]
ReceiptWords ==
    [pool |-> {"absent"}, ok |-> {"1"}, failed |-> {"0"}, dropped |-> {"absent"}]

(* Hashes an answer carries: where the deal was paid out or, when it was   *)
(* refunded, an attempt to pay it out, and the refund.  LI.FI has one.     *)
ToHashes(ch, deal) ==
    CASE deal = "paid"     -> {"", "payment"}
      [] deal = "refunded" -> IF ch = "lifi" THEN {"", "refund"} ELSE {"", "attempt"}
      [] OTHER             -> {""}
RefundHashes(deal) == IF deal = "refunded" THEN {"", "refund"} ELSE {""}

Unreachable == [status |-> "unreachable", to |-> "", refund |-> ""]

-----------------------------------------------------------------------------
Verdict(status, hash) == [status |-> status, hash |-> hash]
Pending_ == Verdict("Pending", "")
NotFound == Verdict("NotFound", "")
NoAnswer == Verdict("error", "")
Final == {"Succeeded", "Refunded", "Failed"}

BridgersMeaning(word) ==
    CASE word = "receive_complete" -> "Succeeded"
      [] word = "refund_complete"  -> "Refunded"
      [] word \in {"wait_deposit_send_fail", "timeout"} -> "Failed"
      [] OTHER                     -> "Pending"

(* Bridgers answers with code 415 when it has no such order.               *)
BridgersStatus(r) ==
    LET status == BridgersMeaning(r.status)
    IN IF r.status = "415" THEN NotFound
       ELSE Verdict(status, IF status = "Refunded" /\ r.refund # "" THEN r.refund ELSE r.to)

(* Mutant: only what the provider calls failed is failed.                  *)
BungeeStatusUnexpired(r) ==
    CASE r.status = "404"       -> NotFound
      [] r.status = "COMPLETED" -> Verdict("Succeeded", r.to)
      [] r.status = "REFUNDED"  ->
            Verdict("Refunded", IF r.refund = "" THEN r.to ELSE r.refund)
      [] r.status = "FAILED"    -> Verdict("Failed", "")
      [] OTHER                  -> Pending_

BungeeStatus(r) ==
    CASE r.status = "404"       -> NotFound
      [] r.status = "COMPLETED" -> Verdict("Succeeded", r.to)
      [] r.status = "REFUNDED"  ->
            Verdict("Refunded", IF r.refund = "" THEN r.to ELSE r.refund)
      [] r.status \in {"FAILED", "EXPIRED"} -> Verdict("Failed", "")
      [] OTHER                  -> Pending_

(* Mutant: a transaction LI.FI does not know, or not yet, has failed.      *)
LifiStatusImpatient(r) ==
    CASE r.status = "DONE"                                -> Verdict("Succeeded", r.to)
      [] r.status \in {"DONE/REFUNDED", "FAILED/REFUNDED"} -> Verdict("Refunded", r.to)
      [] r.status \in {"FAILED", "INVALID", "NOT_FOUND"}  -> Verdict("Failed", r.to)
      [] OTHER                                            -> Pending_

LifiStatus(r) ==
    CASE r.status = "DONE"                                -> Verdict("Succeeded", r.to)
      [] r.status \in {"DONE/REFUNDED", "FAILED/REFUNDED"} -> Verdict("Refunded", r.to)
      [] r.status \in {"FAILED", "INVALID"}               -> Verdict("Failed", r.to)
      [] OTHER                                            -> Pending_

(* A success has to name where it was paid, a refund where it was paid     *)
(* back; nothing OKX says of a swap across chains makes it failed.         *)
OkxCrossStatus(r) ==
    CASE r.status \in {"empty", "NOT_FOUND"} -> NotFound
      [] r.status = "SUCCESS"  -> IF r.to = "" THEN NoAnswer ELSE Verdict("Succeeded", r.to)
      [] r.status = "REFUNDED" -> IF r.refund = "" THEN Pending_
                                  ELSE Verdict("Refunded", r.refund)
      [] OTHER                 -> Pending_

OkxHistoryStatus(r) ==
    CASE r.status = "success" -> Verdict("Succeeded", "source")
      [] r.status = "fail"    -> Verdict("Failed", "source")
      [] OTHER                -> Pending_

JupiterStatus(r) ==
    CASE r.status = "err" -> Verdict("Failed", "source")
      [] r.status \in {"confirmed", "finalized"} -> Verdict("Succeeded", "source")
      [] OTHER            -> Pending_

Univ2Status(r) ==
    CASE r.status = "1"      -> Verdict("Succeeded", "source")
      [] r.status = "absent" -> Pending_
      [] OTHER               -> Verdict("Failed", "source")

Univ3Status(r) == Univ2Status(r)

(* OKX: the chains of the request are EVM chains or there is no status.    *)
OkxStatus(cross, tron, r) ==
    CASE tron           -> NoAnswer
      [] cross /\ ~tron -> OkxCrossStatus(r)
      [] OTHER          -> OkxHistoryStatus(r)

(* CheckTx, and the server for the channels it has (checkTxViaServer).     *)
StatusOf(ch, cross, tron, r) ==
    CASE r = Unreachable -> NoAnswer
      [] ch = "bridgers" /\ r # Unreachable -> BridgersStatus(r)
      [] ch = "bungee"   /\ r # Unreachable -> BungeeStatus(r)
      [] ch = "lifi"     /\ r # Unreachable -> LifiStatus(r)
      [] ch = "okx"      /\ r # Unreachable -> OkxStatus(cross, tron, r)
      [] ch = "jupiter"  /\ r # Unreachable -> JupiterStatus(r)
      [] ch = "univ2"    /\ r # Unreachable -> Univ2Status(r)
      [] ch = "univ3"    /\ r # Unreachable -> Univ3Status(r)
=============================================================================
