----------------------------- MODULE RouterCheck -----------------------------
(***************************************************************************)
(* ensureChainID and ensureDeployment of the Uniswap V2 client, the        *)
(* counterpart of Deployment.  There is no single verification: each flag  *)
(* is read under its lock, the node is asked without one, and the flag is  *)
(* set under the lock again, so any number of callers verify at once.  A   *)
(* quote needs the chain and the router, a status only the chain.          *)
(*                                                                         *)
(* The callers, their contexts and the node are those of Deployment; the   *)
(* Checks are factory() and WETH() of the router, asked one by one (in     *)
(* either order here).                                                     *)
(***************************************************************************)
EXTENDS Deployment

VARIABLES
    kind,           \* caller -> "quote" or "status"
    chainChecked

routerVars == <<vars, kind, chainChecked>>

RouterInit ==
    /\ Init
    /\ kind = [c \in Callers |-> "quote"]
    /\ chainChecked = FALSE

(* External: a Quote whose input is valid, or a Status, begins.            *)
RouterCall(c) ==
    /\ Returned(c)
    /\ Go(c, "readChain")
    /\ ended' = [ended EXCEPT ![c] = FALSE]
    /\ ans' = [ans EXCEPT ![c] = Unasked]
    /\ \E k \in {"quote", "status"} : kind' = [kind EXCEPT ![c] = k]
    /\ UNCHANGED <<truth, deployChecked, holder, chainChecked>>

(* What follows the chain ID: the router, or the receipt.                  *)
AfterChain(c) == IF kind[c] = "quote" THEN "readRouter" ELSE "receipt"

(* ensureChainID: chainMu is held only to read the flag and to set it.     *)
ReadChainFlag(c) ==
    /\ pc[c] = "readChain"
    /\ Go(c, IF chainChecked THEN AfterChain(c) ELSE "askChain")
    /\ UNCHANGED <<truth, deployChecked, holder, ended, ans, kind, chainChecked>>

AskChain(c) ==
    /\ pc[c] = "askChain"
    /\ \E r \in Answers(c, ChainID) :
         /\ ans' = [ans EXCEPT ![c][ChainID] = r]
         /\ Go(c, IF r = "right" THEN "setChain" ELSE "failed")
    /\ UNCHANGED <<truth, deployChecked, holder, ended, kind, chainChecked>>

SetChainFlag(c) ==
    /\ pc[c] = "setChain"
    /\ chainChecked' = TRUE
    /\ Go(c, AfterChain(c))
    /\ UNCHANGED <<truth, deployChecked, holder, ended, ans, kind>>

(* The rest of Status returns, see SwapStatus!Univ2Status.                 *)
ReadReceipt(c) ==
    /\ pc[c] = "receipt"
    /\ Go(c, "off")
    /\ UNCHANGED <<truth, deployChecked, holder, ended, ans, kind, chainChecked>>

-----------------------------------------------------------------------------
(* ensureDeployment, with deployMu.                                        *)
ReadRouterFlag(c) ==
    /\ pc[c] = "readRouter"
    /\ Go(c, IF deployChecked THEN "passed" ELSE "askRouter")
    /\ UNCHANGED <<truth, deployChecked, holder, ended, ans, kind, chainChecked>>

(* callRouterAddress and the comparison with the configuration.            *)
AskRouter(c, f) ==
    /\ pc[c] = "askRouter"
    /\ ans[c][f] = "none"
    /\ \E r \in Answers(c, f) :
         /\ ans' = [ans EXCEPT ![c][f] = r]
         /\ IF r = "right" THEN UNCHANGED pc ELSE Go(c, "failed")
    /\ UNCHANGED <<truth, deployChecked, holder, ended, kind, chainChecked>>

(* Mutant: the flag is set once the factory is right.                      *)
RouterRightFirst(c) == \E f \in Checks : ans[c][f] = "right"

RouterRight(c) == \A f \in Checks : ans[c][f] = "right"

SetRouterFlag(c) ==
    /\ pc[c] = "askRouter"
    /\ RouterRight(c)
    /\ deployChecked' = TRUE
    /\ Go(c, "passed")
    /\ UNCHANGED <<truth, holder, ended, ans, kind, chainChecked>>

-----------------------------------------------------------------------------
RouterStep(c) ==
    \/ ReadChainFlag(c) \/ AskChain(c) \/ SetChainFlag(c) \/ ReadReceipt(c)
    \/ ReadRouterFlag(c) \/ SetRouterFlag(c)
    \/ \E f \in Checks : AskRouter(c, f)

RouterNext ==
    \E c \in Callers :
        \/ RouterCall(c)
        \/ EndContext(c) /\ UNCHANGED <<kind, chainChecked>>
        \/ RouterStep(c)

RouterSpec == RouterInit /\ [][RouterNext]_routerVars

-----------------------------------------------------------------------------
RouterTypeOK ==
    /\ truth \in [Facts -> BOOLEAN]
    /\ deployChecked \in BOOLEAN /\ chainChecked \in BOOLEAN
    /\ pc \in [Callers -> {"off", "readChain", "askChain", "setChain", "receipt",
                           "readRouter", "askRouter", "passed", "failed"}]
    /\ ended \in [Callers -> BOOLEAN]
    /\ ans \in [Callers -> [Facts -> {"none", "right", "wrong", "err"}]]
    /\ kind \in [Callers -> {"quote", "status"}]

(* However the callers of the V2 client overlap, a flag is never set while *)
(* what it stands for is not so, the router is never trusted on a chain    *)
(* that was not verified, and no caller goes on (a quote to its pairs, a   *)
(* status to its receipt) against a node of another chain.                 *)
RouterTrusted ==
    /\ chainChecked => truth[ChainID]
    /\ deployChecked => \A f \in Facts : truth[f]
    /\ \A c \in Callers :
         /\ pc[c] \in {"receipt", "readRouter", "askRouter"} => truth[ChainID]
         /\ pc[c] = "passed" => \A f \in Facts : truth[f]
=============================================================================
