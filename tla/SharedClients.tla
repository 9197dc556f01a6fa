---------------------------- MODULE SharedClients ----------------------------
(***************************************************************************)
(* Several goroutines and one client: the verification of the Uniswap V3   *)
(* deployment under one lock (Deployment), that of the V2 router without   *)
(* one (RouterCheck), and requests over one httpc.Request (Transport).     *)
(***************************************************************************)
EXTENDS RouterCheck, Transport

VARIABLE client

sharedVars == <<routerVars, httpVars, client>>

SharedInit ==
    /\ client \in {"v3", "v2", "http"}
    /\ RouterInit /\ HttpInit
    /\ client # "http" => user = "rest"
    /\ client = "http" => truth = [f \in Facts |-> TRUE]

SharedNext ==
    /\ UNCHANGED client
    /\ \/ client = "v3" /\ Next /\ UNCHANGED <<kind, chainChecked, httpVars>>
       \/ client = "v2" /\ RouterNext /\ UNCHANGED httpVars
       \/ client = "http" /\ HttpNext /\ UNCHANGED <<kind, chainChecked>>

(* What a caller does that is not waiting for deployMu.                    *)
Serves(c) ==
    /\ UNCHANGED client
    /\ \/ Asks(c) /\ UNCHANGED <<kind, chainChecked, httpVars>>
       \/ RouterStep(c) /\ UNCHANGED httpVars
       \/ HttpStep(c) /\ UNCHANGED <<kind, chainChecked>>

(* Every call to a node and every exchange with a server ends, since each  *)
(* carries a context or has a timeout of its own; the limiter serves who   *)
(* waits, and the locks of the Go runtime starve nobody.                   *)
SharedSpec ==
    /\ SharedInit /\ [][SharedNext]_sharedVars
    /\ \A c \in Callers :
         SF_vars(ReadFlag(c)) /\ SF_vars(Lock(c)) /\ WF_sharedVars(Serves(c))
=============================================================================
