---------------------------- MODULE EvmTransfers ----------------------------
(***************************************************************************)
(* GetTransfersByHash of the EVM handler: what a transaction moved, read   *)
(* from a node in up to seven calls while the chain grows and reorganises. *)
(* The chain and its executions are external.  An execution is a tree of   *)
(* call frames, a frame at its trace address, and the logs of its receipt. *)
(***************************************************************************)
EXTENDS Integers, Sequences, FiniteSetsExt, SequencesExt

CONSTANTS
    Accounts, Sender, Target,
    Executions,     \* what the transaction may do: [frames, logs]
    Required,       \* confirmations the caller asks for
    MaxHead,        \* bound: the last block
    MaxReorgs,      \* bound: reorganisations
    MaxDepth,       \* bound: blocks that a reorganisation replaces
    WordSize        \* bound: 2^w, the numbers of the code wrap there

ASSUME AccountsAssumption == {Sender, Target} \subseteq Accounts
ASSUME ExecutionsAssumption ==
    \A e \in Executions :
        /\ IsFiniteSet(DOMAIN e.frames) /\ DOMAIN e.frames \subseteq Seq(Nat)
        /\ <<>> \in DOMAIN e.frames
        /\ \A p \in DOMAIN e.frames :
             /\ Prefixes(p) \subseteq DOMAIN e.frames
             /\ e.frames[p].error \in BOOLEAN /\ e.frames[p].value \in Nat
        /\ e.logs \in Seq(Range(e.logs)) /\ \A i \in DOMAIN e.logs : e.logs[i].amount \in Nat
        /\ e.frames[<<>>].from = Sender /\ e.frames[<<>>].to = Target
        /\ e.frames[<<>>].callType = "call"
ASSUME BoundsAssumption ==
    /\ WordSize \in Nat /\ {Required, MaxHead, MaxReorgs, MaxDepth} \subseteq 0 .. WordSize \div 2 - 1
    /\ MaxHead >= 1

-----------------------------------------------------------------------------
(* What a family of transfers between accounts adds to one of them.        *)
Change(moved, a) ==
    SumFunction([x \in DOMAIN moved |-> IF moved[x].to = a THEN moved[x].amount ELSE 0])
  - SumFunction([x \in DOMAIN moved |-> IF moved[x].from = a THEN moved[x].amount ELSE 0])

NoChange == [a \in Accounts |-> 0]
NoTrace == <<>>

(* The counted logs: events Transfer of two accounts and an amount.        *)
CountedLogs(logs) == {i \in DOMAIN logs : logs[i].event = "Transfer" /\ logs[i].amount > 0}

TokenChange(logs) == [a \in Accounts |-> Change([i \in CountedLogs(logs) |-> logs[i]], a)]

(* inFailedFrame: the frame or one that it runs in failed.                 *)
InFailedFrame(trace, p) == \E q \in Prefixes(p) \cap DOMAIN trace : trace[q].error

(* Mutant: only the frame itself is looked at.                             *)
CountedUnlessFailed(trace) ==
    {p \in DOMAIN trace : /\ ~trace[p].error
                          /\ trace[p].callType = "call" /\ trace[p].value > 0}

Counted(trace) ==
    {p \in DOMAIN trace : /\ ~InFailedFrame(trace, p)
                          /\ trace[p].callType = "call" /\ trace[p].value > 0}

(* Without a trace of the root: the value of the transaction.              *)
RootMoves(trace, value) == <<>> \notin DOMAIN trace /\ value > 0

Moves(trace, ps) ==
    [p \in ps |-> [from |-> trace[p].from, to |-> trace[p].to, amount |-> trace[p].value]]

NativeChange(trace, value) ==
    [a \in Accounts |->
        Change(Moves(trace, Counted(trace)), a)
      + IF ~RootMoves(trace, value) THEN 0
        ELSE (IF a = Target THEN value ELSE 0) - (IF a = Sender THEN value ELSE 0)]

MovesNothing(trace, logs, value) ==
    Counted(trace) = {} /\ CountedLogs(logs) = {} /\ ~RootMoves(trace, value)

-----------------------------------------------------------------------------
(* What an execution does: a frame that fails undoes all that it called,   *)
(* a delegatecall runs with the value of its caller and moves none, and a  *)
(* creation or a self-destruction moves its value as a call does.          *)
Inside(frames, p) == {q \in DOMAIN frames : Len(q) = Len(p) + 1 /\ IsPrefix(p, q)}

Moving == {"call", "create", "selfdestruct"}

Own(frame, a) ==
    IF frame.callType \notin Moving THEN 0
    ELSE (IF frame.to = a THEN frame.value ELSE 0) - (IF frame.from = a THEN frame.value ELSE 0)

Effect(e) ==
    [a \in Accounts |->
        LET total[p \in DOMAIN e.frames] ==
                IF e.frames[p].error THEN 0
                ELSE Own(e.frames[p], a) + SumFunction([q \in Inside(e.frames, p) |-> total[q]])
        IN  total[<<>>]]

(* What the handler takes for nothing, as they have no type of call, and   *)
(* what an execution does but for them.                                    *)
Overlooked(frames) ==
    {p \in DOMAIN frames : /\ ~InFailedFrame(frames, p)
                           /\ frames[p].callType \in {"create", "selfdestruct"}
                           /\ frames[p].value > 0}

ByCalls(e) ==
    [a \in Accounts |-> Effect(e)[a] - Change(Moves(e.frames, Overlooked(e.frames)), a)]

Failed(e) == e.frames[<<>>].error
LogsOf(e) == IF Failed(e) THEN <<>> ELSE e.logs
IsPlain(e) == DOMAIN e.frames = {<<>>} /\ ~Failed(e) /\ e.logs = <<>>

-----------------------------------------------------------------------------
VARIABLES
    contract,   \* external: the target has code
    value,      \* external: of the transaction
    head,       \* external: the height of the chain
    block,      \* external: the block of the transaction, 0: none
    execution,  \* external: of the transaction in that block, {} or a singleton
    reorgs,     \* external: their number
    disturbed,  \* whether the transaction changed its block during the call
    pc,         \* the read that comes next
    height,     \* of the block in the receipt
    logs,       \* of the second receipt
    logged,     \* whether there was a second receipt
    returned    \* what the call returned

evmChain == <<contract, value, head, block, execution, reorgs, disturbed>>
evmCall == <<pc, height, logs, logged, returned>>
evmVars == <<evmChain, evmCall>>

NoReport == [status |-> "none", traced |-> FALSE, native |-> NoChange,
             tokens |-> NoChange, ran |-> {}]

EvmInit ==
    /\ contract \in BOOLEAN
    /\ value \in {e.frames[<<>>].value : e \in Executions}
    /\ head = 1 /\ block = 0 /\ execution = {} /\ reorgs = 0
    /\ disturbed = FALSE
    /\ pc = "tx" /\ height = 0 /\ logs = <<>> /\ logged = TRUE
    /\ returned = NoReport

Possible(e) == e.frames[<<>>].value = value /\ (contract \/ IsPlain(e))

(* External: a block, with the transaction or without it.                  *)
Grow ==
    /\ head < MaxHead
    /\ head' = head + 1
    /\ UNCHANGED <<contract, value, block, execution, reorgs, disturbed, evmCall>>

Mine(e) ==
    /\ head < MaxHead /\ block = 0 /\ Possible(e)
    /\ head' = head + 1 /\ block' = head + 1 /\ execution' = {e}
    /\ UNCHANGED <<contract, value, reorgs, disturbed, evmCall>>

(* External: other blocks replace the last ones, where the transaction is  *)
(* in another one of them, with another execution, or in none.             *)
Reorg(depth, now, e) ==
    /\ reorgs < MaxReorgs /\ pc # "done"
    /\ block # 0 /\ block > head - depth
    /\ now \in {0} \union (head - depth + 1) .. head
    /\ Possible(e)
    /\ reorgs' = reorgs + 1
    /\ block' = now
    /\ execution' = IF now = 0 THEN {} ELSE {e}
    /\ disturbed' = (disturbed \/ pc # "tx")
    /\ UNCHANGED <<contract, value, head, evmCall>>

-----------------------------------------------------------------------------
Return(status) == pc' = "done" /\ returned' = [NoReport EXCEPT !.status = status]

(* CheckTx, first call: eth_getTransactionByHash.  A node that is behind   *)
(* has no block for the transaction, or no receipt.                        *)
ReadTx ==
    /\ pc = "tx"
    /\ \/ Return("pending")
       \/ block # 0 /\ pc' = "receipt" /\ UNCHANGED returned
    /\ UNCHANGED <<evmChain, height, logs, logged>>

ReadReceipt ==
    /\ pc = "receipt"
    /\ \/ Return("pending") /\ UNCHANGED height
       \/ \E e \in execution :
             IF Failed(e) THEN Return("failed") /\ UNCHANGED height
             ELSE pc' = "height" /\ height' = block /\ UNCHANGED returned
    /\ UNCHANGED <<evmChain, logs, logged>>

(* Mutant: a latest height below the height of the transaction wraps.      *)
ConfirmedWrapping(latest) == (latest - height) % WordSize

Confirmed(latest) == IF latest >= height THEN latest - height ELSE 0

(* GetHeight, from a node that may be behind.                              *)
EvmReadHeight(latest) ==
    /\ pc = "height" /\ latest \in 1 .. head
    /\ IF Confirmed(latest) < Required THEN Return("unconfirmed")
       ELSE pc' = "code" /\ UNCHANGED returned
    /\ UNCHANGED <<evmChain, height, logs, logged>>

(* eth_getTransactionByHash again, and the code of the target: without     *)
(* code the transaction moves its value.                                   *)
ReadCode ==
    /\ pc = "code"
    /\ IF contract THEN pc' = "logs" /\ UNCHANGED returned
       ELSE /\ pc' = "done"
            /\ returned' = [NoReport EXCEPT !.status = "transfers",
                            !.native = [a \in Accounts |-> (IF a = Target THEN value ELSE 0)
                                                         - (IF a = Sender THEN value ELSE 0)]]
    /\ UNCHANGED <<evmChain, height, logs, logged>>

(* The receipt again, for its logs: its status is not looked at, and where *)
(* a node that is behind has no receipt, there are no logs.                *)
ReadLogs ==
    /\ pc = "logs"
    /\ pc' = "trace"
    /\ \/ \E e \in execution : logs' = LogsOf(e) /\ logged' = TRUE
       \/ logs' = <<>> /\ logged' = FALSE
    /\ UNCHANGED <<evmChain, height, returned>>

Summary(trace, ran) ==
    /\ pc' = "done"
    /\ returned' =
        IF MovesNothing(trace, logs, value)
          THEN [NoReport EXCEPT !.status = "rejected", !.traced = (trace # NoTrace), !.ran = ran]
          ELSE [status |-> "transfers", traced |-> trace # NoTrace,
                native |-> NativeChange(trace, value),
                tokens |-> TokenChange(logs), ran |-> ran]

(* trace_transaction.                                                      *)
ReadTrace ==
    /\ pc = "trace"
    /\ \E e \in execution : Summary(e.frames, {e})
    /\ UNCHANGED <<evmChain, height, logs, logged>>

(* The caller asks for no trace, or the node has none; and an error of the *)
(* call is not looked at.                                                  *)
NoTraceRead ==
    /\ pc = "trace"
    /\ Summary(NoTrace, {})
    /\ UNCHANGED <<evmChain, height, logs, logged>>

(* A call to the node that the handler needs fails.                        *)
EvmNodeError ==
    /\ pc \notin {"trace", "done"}
    /\ Return("error")
    /\ UNCHANGED <<evmChain, height, logs, logged>>

Next ==
    \/ Grow
    \/ \E e \in Executions : Mine(e)
    \/ \E d \in 1 .. MaxDepth, n \in 0 .. MaxHead, e \in Executions : Reorg(d, n, e)
    \/ ReadTx \/ ReadReceipt
    \/ \E latest \in 1 .. MaxHead : EvmReadHeight(latest)
    \/ ReadCode \/ ReadLogs \/ ReadTrace \/ NoTraceRead
    \/ EvmNodeError

Spec == EvmInit /\ [][Next]_evmVars

-----------------------------------------------------------------------------
EvmTypeOK ==
    /\ head \in 1 .. MaxHead /\ block \in 0 .. head
    /\ height \in 0 .. head
    /\ pc \in {"tx", "receipt", "height", "code", "logs", "trace", "done"}
    /\ returned.status \in {"none", "pending", "failed", "unconfirmed", "rejected", "transfers", "error"}
    /\ {returned.native, returned.tokens} \subseteq [Accounts -> Int]
    /\ returned.ran \subseteq Executions /\ logged \in BOOLEAN

(* If the transaction kept its block during the call, the transfers that   *)
(* are reported are what the transaction did, it succeeded, and it has the *)
(* confirmations that the caller asked for; and it is rejected only if it  *)
(* failed or moved nothing.  A transfer is overlooked, and with it a       *)
(* deposit given up that did arrive, in three cases and no others: the     *)
(* second receipt was missing (~logged), then a token that moved; there    *)
(* was no trace, or its error was dropped (~traced), then value that moved *)
(* in a call of the target; value that a creation or a self-destruction    *)
(* moved (ByCalls).  The value of the transaction itself is never lost.    *)
TransfersTrue ==
    /\ EvmTypeOK
    /\ returned.status = "transfers" /\ ~disturbed =>
          /\ head - block >= Required
          /\ \A e \in execution :
                /\ ~Failed(e)
                /\ logged => returned.tokens = TokenChange(e.logs)
                /\ returned.traced \/ DOMAIN e.frames = {<<>>} => returned.native = ByCalls(e)
    /\ returned.status = "failed" /\ ~disturbed => \A e \in execution : Failed(e)
    /\ returned.status = "rejected" /\ ~disturbed =>
          /\ value = 0
          /\ \A e \in execution :
                /\ logged => TokenChange(LogsOf(e)) = NoChange
                /\ returned.traced => ByCalls(e) = NoChange

(* Whatever the chain does during the call, the native balance changes of  *)
(* a traced answer are those of one execution, what its creations and      *)
(* self-destructions move left out: a failed call inside it, or a failed   *)
(* execution, credits nobody.                                              *)
NativeOfOneExecution == \A e \in returned.ran : returned.native = ByCalls(e)
=============================================================================
