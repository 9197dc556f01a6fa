------------------------------ MODULE TonTrace ------------------------------
(***************************************************************************)
(* The status and the transfers of TON.  A payment there is no transaction *)
(* but a trace: the wallet's transaction sends a message, which causes a   *)
(* transaction of another account, which sends messages, and so on, block  *)
(* after block.  The handler walks along the first message of each, while  *)
(* the trace goes on and the endpoints lag behind it.                      *)
(*                                                                         *)
(* The caller is that of Transfers: last, told and report are what it was  *)
(* told, form is the form of the payment.                                  *)
(***************************************************************************)
EXTENDS Transfers, Sequences

VARIABLES
    trace,  \* external: the transactions along the first messages, what they will do
    done,   \* external: how many of them are executed
    synced, \* external: how many of them each endpoint has
    blamed  \* history: an answer carried an error other than "entity not found"

ton == <<trace, done, synced, blamed>>

Step(ok, outs) == [ok |-> ok, outs |-> outs]
Go   == Step(TRUE, 1)
Ends == {Step(TRUE, 0), Step(FALSE, 0)}

(* External: a transaction that fails sends the message back, which is     *)
(* credited, unless the message does not bounce.                           *)
Bounced == <<Step(FALSE, 1), Step(TRUE, 0)>>

(* External: what follows the wallet's transaction.  Coins reach their     *)
(* account or come back; jettons go from the sender's jetton wallet to the *)
(* recipient's, which may notify its owner.                                *)
Native == {<<s>> : s \in Ends} \union {Bounced}
Token  == {Bounced, <<Go>> \o Bounced, <<Go, Step(TRUE, 0)>>} \union {<<Go, Go, s>> : s \in Ends}

(* External: a wallet whose transaction fails, or skips what it cannot     *)
(* pay, sends nothing; one that sends two messages makes no transfer that  *)
(* the handler knows.                                                      *)
Traces(f) ==
    {<<s>> : s \in Ends} \union
    CASE f = "native" -> {<<Go>> \o t : t \in Native}
      [] f = "token"  -> {<<Go>> \o t : t \in Token}
      [] f = "other"  -> UNION {{<<Step(TRUE, n)>> \o t : t \in Native \union Token} : n \in 1 .. 2}

-----------------------------------------------------------------------------
(* What a read of transaction k may find, at any of the endpoints.         *)
Found(k) == {synced[e] >= k : e \in Endpoints}

(* Mutant: the transaction of the first message decides.                   *)
WalkShallow(from) ==
    UNION {IF ~found THEN {"missing"} ELSE IF trace[from].ok THEN {"good"} ELSE {"bad"} :
             found \in Found(from)}

(* getHashStatus goes on to the transaction of the first message.          *)
GoesOn(k) == trace[k].ok /\ trace[k].outs # 0

(* getHashStatus, a loop from the message that causes transaction from on: *)
(* the end of the trace counts as good whatever became of it, unless it is *)
(* the transaction of the first message.                                   *)
Walk(from) ==
    LET reached == {k \in from .. Len(trace) :
                      \A j \in from .. k - 1 : TRUE \in Found(j) /\ GoesOn(j)}
    IN  {"missing" : k \in {r \in reached : FALSE \in Found(r)}} \union
        {IF trace[k].outs = 0 /\ (k > from \/ trace[k].ok) THEN "good" ELSE "bad" :
           k \in {r \in reached : TRUE \in Found(r) /\ ~GoesOn(r)}}

(* The message that came in leads back to the wallet's own transaction.    *)
InStatus ==
    UNION {IF ~found THEN {"missing"} ELSE IF trace[1].ok THEN {"good"} ELSE {"bad"} :
             found \in Found(1)}

(* Without a message that went out there is nothing that succeeded.        *)
OutStatus == IF trace[1].outs = 0 THEN {"bad"} ELSE Walk(2)

(* CheckTx: the wallet's transaction, then both messages.  Every read asks *)
(* for another transaction, and none is ever taken back: what the chain    *)
(* does between two reads, an endpoint could have done before the first.   *)
TonStatuses ==
    {IF ~found \/ "missing" \in {in, out} THEN "pending"
     ELSE IF in = "good" /\ out = "good" THEN "succeeded" ELSE "failed" :
       found \in Found(1), in \in InStatus, out \in OutStatus}

(* GetTransfersByHash reads the transfer from the message first, without   *)
(* which it returns an error, and asks for no confirmations.               *)
TonReport(status) ==
    IF form = "other" \/ trace[1].outs # 1 \/ TRUE \notin Found(1) THEN "none"
    ELSE CASE status = "succeeded" -> "transfers"
           [] status = "failed"    -> "rejected"
           [] OTHER                -> "none"

-----------------------------------------------------------------------------
TonInit ==
    /\ TransfersInit
    /\ trace \in IF chain = "ton" THEN Traces(form) ELSE {<<>>}
    /\ done = 0 /\ synced = [e \in Endpoints |-> 0] /\ blamed = FALSE

(* External: the chain and its endpoints.                                  *)
TonExecute ==
    /\ done < Len(trace)
    /\ done' = done + 1
    /\ UNCHANGED <<all, trace, synced, blamed>>

TonSync(e) ==
    /\ synced[e] < done
    /\ synced' = [synced EXCEPT ![e] = done]
    /\ UNCHANGED <<all, trace, done, blamed>>

TonCall ==
    /\ chain = "ton"
    /\ \E status \in TonStatuses : Tell(status) /\ report' = TonReport(status)
    /\ UNCHANGED <<node, first, form, deep, call, seen, ton>>

(* A request fails; or the first one is answered with an error in the body,*)
(* which CheckTx takes for a failure.                                      *)
TonError ==
    /\ chain = "ton"
    /\ \E status \in {"error", "failed"} :
         /\ Tell(status) /\ report' = TonReport(status)
         /\ blamed' = (blamed \/ status = "failed")
    /\ UNCHANGED <<node, first, form, deep, call, seen, trace, done, synced>>

AllNext ==
    \/ chain # "ton" /\ TransfersNext /\ UNCHANGED ton
    \/ TonExecute \/ TonCall \/ TonError
    \/ \E e \in Endpoints : TonSync(e)

(* TON delivers every message, the endpoints catch up, and the caller      *)
(* keeps calling; the message to the wallet may never be accepted.         *)
everything == <<all, ton>>
TonFairness ==
    /\ WF_everything(TonExecute /\ done > 0)
    /\ \A e \in Endpoints : WF_everything(TonSync(e))
    /\ WF_everything(TonCall)

AllSpec == TonInit /\ [][AllNext]_everything /\ TransfersFairness /\ TonFairness

-----------------------------------------------------------------------------
TonTypeOK ==
    /\ trace # <<>> => chain = "ton"
    /\ done \in 0 .. Len(trace) /\ synced \in [Endpoints -> 0 .. done]
    /\ blamed \in BOOLEAN

(* The money left and did not come back.  Coins of a message that does not *)
(* bounce stay with an account whose contract fails.                       *)
Moved ==
    /\ trace[1].ok /\ Len(trace) > 1
    /\ \A i \in 2 .. Len(trace) : trace[i].ok \/ i = Len(trace)
KeptByContract == Len(trace) = 2 /\ ~trace[2].ok

(* CheckTx and GetTransfersByHash of TON never speak too early: whatever   *)
(* of the trace is executed and known to whom, "succeeded" and transfers   *)
(* mean that it has come to its end and the money arrived, "failed" and a  *)
(* rejection that it came back, was not sent, or was left with a contract  *)
(* that failed; or that a node answered with an error (see TonError).      *)
TraceVerdictHolds ==
    /\ TonTypeOK
    /\ chain = "ton" /\ ("succeeded" \in told \/ report = "transfers") =>
         done = Len(trace) /\ Moved
    /\ chain = "ton" /\ ("failed" \in told \/ report = "rejected") =>
         ~Moved \/ KeptByContract \/ blamed

(* A caller that keeps polling learns the fate of every transaction that   *)
(* became final and, on TON, of every trace that began; and one that keeps *)
(* asking is told the transfers of every such transaction of the native    *)
(* coin that succeeded, on TON of every payment that arrived.  Who polls   *)
(* MultiversX may wait for ever for the verdict of one that failed: its    *)
(* handler does not know the status "fail" (see Returned).                 *)
PollingEnds ==
    []<>(/\ (tx.phase = "final" /\ (chain = "multiversx" => tx.ok)) \/ done > 0 => told # {}
         /\ \/ tx.phase = "final" /\ tx.ok /\ form = "native" /\ chain \in Reporting
            \/ /\ done > 0 /\ done = Len(trace) /\ form # "other"
               /\ Moved /\ ~KeptByContract
            => report = "transfers")
=============================================================================
