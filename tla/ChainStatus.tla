---------------------------- MODULE ChainStatus -----------------------------
(***************************************************************************)
(* CheckTx of the chain handlers: what they make of a node's answer about  *)
(* a transaction, while the transaction moves through the chain, forks     *)
(* undo it, and the endpoints behind the node's URL lag behind each other. *)
(* The caller polls, and acts on the first verdict: succeeded or failed.   *)
(***************************************************************************)
EXTENDS NodeAnswers

VARIABLES
    chain,  \* the chain of this behaviour
    tx,     \* external: the transaction, as the best endpoint sees it
    view,   \* external: as each endpoint sees it
    first,  \* the first answer of a handler that reads twice, or NoAnswer
    last,   \* what CheckTx returned last
    told    \* the verdicts it ever returned

vars == <<chain, tx, view, first, last, told>>

NoAnswer == Outside("none", 0)

Init ==
    /\ chain \in Chains
    /\ tx = Unknown /\ view = [e \in Endpoints |-> Unknown]
    /\ first = NoAnswer /\ last = "none" /\ told = {}

node == <<chain, tx, view>>
caller == <<first, last, told>>

(* External: the transaction is submitted, again after its eviction.       *)
Submit ==
    /\ tx.phase \in {"unknown", "evicted"}
    /\ tx' = Outside("pool", tx.era)
    /\ UNCHANGED <<chain, view, caller>>

Evict ==
    /\ tx.phase = "pool"
    /\ tx' = Outside("evicted", tx.era)
    /\ UNCHANGED <<chain, view, caller>>

Include(ok) ==
    /\ tx.phase = "pool" /\ (chain \in Infallible => ok)
    /\ tx' = [tx EXCEPT !.phase = "in", !.ok = ok]
    /\ UNCHANGED <<chain, view, caller>>

Fork ==
    /\ tx.phase = "in" /\ chain \in Forking /\ tx.era < MaxForks
    /\ tx' = Outside("pool", tx.era + 1)
    /\ UNCHANGED <<chain, view, caller>>

Finalize ==
    /\ tx.phase = "in"
    /\ tx' = [tx EXCEPT !.phase = "final"]
    /\ UNCHANGED <<chain, view, caller>>

(* External: an endpoint catches up.                                       *)
Sync(e) ==
    /\ view[e] # tx
    /\ view' = [view EXCEPT ![e] = tx]
    /\ UNCHANGED <<chain, tx, caller>>

-----------------------------------------------------------------------------
Tell(status) ==
    /\ last' = status
    /\ told' = told \union ({status} \cap {"succeeded", "failed"})

(* The first or the only request of CheckTx, answered by an endpoint.      *)
Ask(e) ==
    /\ first = NoAnswer
    /\ IF First(chain, view[e]) = ""
         THEN first' = view[e] /\ UNCHANGED <<last, told>>
         ELSE /\ \E status \in Returned(chain, First(chain, view[e])) : Tell(status)
              /\ UNCHANGED first
    /\ UNCHANGED node

(* The second request of EVM and Tron, maybe answered by another one.      *)
AskAgain(e) ==
    /\ first # NoAnswer
    /\ Tell(Second(chain, first, view[e]))
    /\ first' = NoAnswer
    /\ UNCHANGED node

(* A request fails, or is answered with an error.                          *)
NodeError ==
    /\ \E status \in OnError(chain) : Tell(status)
    /\ first' = NoAnswer
    /\ UNCHANGED node

-----------------------------------------------------------------------------
TypeOK ==
    /\ tx \in Views /\ view \in [Endpoints -> Views]
    /\ first \in Views \union {NoAnswer}
    /\ last \in {"none", "pending", "succeeded", "failed", "unknown", "error"}
    /\ told \subseteq {"succeeded", "failed"}

(* A verdict is never taken back, however the endpoints lag.  After        *)
(* "succeeded" on a chain without forks, and on Solana, whose handler      *)
(* waits for the finalized slot, the transaction stays in the chain and    *)
(* its execution succeeded; after "failed" on a chain without forks whose  *)
(* handler takes neither an error of the node nor a full pool for a        *)
(* failure, its execution failed.  (Of TON see TonTrace.)                  *)
VerdictHolds ==
    /\ TypeOK
    /\ "succeeded" \in told /\ chain \in (AllChains \ (Forking \union {"ton"})) \union {"solana"} =>
        Included(tx) /\ (chain # "algorand" => tx.ok)
    /\ "failed" \in told /\ chain \in AllChains \ (Forking \union {"algorand", "ton"}) =>
        Included(tx) /\ ~tx.ok
=============================================================================
