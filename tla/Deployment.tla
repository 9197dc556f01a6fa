----------------------------- MODULE Deployment -----------------------------
(***************************************************************************)
(* ensureDeployment of the Uniswap V3 client: the first Quote or Status    *)
(* verifies the chain ID of the node and, with calls that run at once,     *)
(* the contracts the configuration names; the later ones read a flag.      *)
(* deployMu, a readers/writer lock, is held through all the calls to the   *)
(* node, and a caller that waits for it cannot be canceled.                *)
(*                                                                         *)
(* A caller may call again after it returned, whatever it was told.        *)
(***************************************************************************)
CONSTANTS
    Callers,    \* goroutines in Quote or Status
    Checks,     \* what is verified once the chain ID is right
    ChainID,    \* the fact verified first
    Nil

ASSUME FactsAssumption == ChainID \notin Checks
ASSUME NilAssumption == Nil \notin Callers

Facts == Checks \union {ChainID}

VARIABLES
    truth,          \* external: fact -> does the chain agree with the config?
    deployChecked,
    holder,         \* the caller that holds deployMu for writing, or Nil
    pc,
    ended,          \* has the context of the caller ended?
    ans             \* caller -> fact -> what the node answered it

vars == <<truth, deployChecked, holder, pc, ended, ans>>

Unasked == [f \in Facts |-> "none"]

Init ==
    /\ truth \in [Facts -> BOOLEAN]
    /\ deployChecked = FALSE
    /\ holder = Nil
    /\ pc = [c \in Callers |-> "off"]
    /\ ended = [c \in Callers |-> FALSE]
    /\ ans = [c \in Callers |-> Unasked]

Go(c, to) == pc' = [pc EXCEPT ![c] = to]

Returned(c) == pc[c] \in {"off", "passed", "failed"}

Asking(c) == pc[c] \in {"chain", "checks"}

(* External: a Quote or a Status begins, with a context of its own.        *)
Call(c) ==
    /\ Returned(c)
    /\ Go(c, "read")
    /\ ended' = [ended EXCEPT ![c] = FALSE]
    /\ ans' = [ans EXCEPT ![c] = Unasked]
    /\ UNCHANGED <<truth, deployChecked, holder>>

(* External: the deadline passes, or the caller cancels.                   *)
EndContext(c) ==
    /\ ~Returned(c)
    /\ ~ended[c]
    /\ ended' = [ended EXCEPT ![c] = TRUE]
    /\ UNCHANGED <<truth, deployChecked, holder, pc, ans>>

-----------------------------------------------------------------------------
(* The flag under RLock, which waits while a writer holds deployMu.        *)
ReadFlag(c) ==
    /\ pc[c] = "read"
    /\ holder = Nil
    /\ Go(c, IF deployChecked THEN "passed" ELSE "lock")
    /\ UNCHANGED <<truth, deployChecked, holder, ended, ans>>

(* Mutant: the flag is not read again under the lock.                      *)
CheckedMeanwhileNever == FALSE

CheckedMeanwhile == deployChecked
CanLock          == holder = Nil

(* Lock, and the flag again: another caller may have verified meanwhile.   *)
Lock(c) ==
    /\ pc[c] = "lock"
    /\ CanLock
    /\ IF CheckedMeanwhile
         THEN Go(c, "passed") /\ UNCHANGED holder
         ELSE Go(c, "chain") /\ holder' = c
    /\ UNCHANGED <<truth, deployChecked, ended, ans>>

(* Mutant: a call that fails leaves the lock held.                         *)
ReturnHolding(c, r) == Go(c, r) /\ holder' = IF r = "failed" THEN c ELSE Nil

(* The deferred Unlock and the return.                                     *)
Return(c, r) == Go(c, r) /\ holder' = Nil

(* What a call to the node gives: the truth, or an error of the transport, *)
(* of the response or of the context.                                      *)
Answers(c, f) == {IF truth[f] THEN "right" ELSE "wrong", "err"}

ReadChainID(c) ==
    /\ pc[c] = "chain"
    /\ \E r \in Answers(c, ChainID) :
         /\ ans' = [ans EXCEPT ![c][ChainID] = r]
         /\ IF r = "right" THEN Go(c, "checks") /\ UNCHANGED holder
                           ELSE Return(c, "failed")
    /\ UNCHANGED <<truth, deployChecked, ended>>

(* One goroutine per check: the answers arrive in any order.               *)
Check(c, f) ==
    /\ pc[c] = "checks"
    /\ ans[c][f] = "none"
    /\ \E r \in Answers(c, f) : ans' = [ans EXCEPT ![c][f] = r]
    /\ UNCHANGED <<truth, deployChecked, holder, pc, ended>>

(* Mutants: the results are only counted; errorsByIndex is kept in the     *)
(* client.                                                                 *)
VerifiedUnread(c)  == ~ended[c]
ErrorsOfAnyone(c)  == {f \in Checks : \E d \in Callers : ans[d][f] \in {"wrong", "err"}}

Errors(c) == {f \in Checks : ans[c][f] # "right"}

(* The flag is set when every check passed and the context has not ended.  *)
Verified(c) == ~ended[c] /\ Errors(c) = {}

Decide(c) ==
    /\ pc[c] = "checks"
    /\ \A f \in Checks : ans[c][f] # "none"
    /\ deployChecked' = (deployChecked \/ Verified(c))
    /\ Return(c, IF Verified(c) THEN "passed" ELSE "failed")
    /\ UNCHANGED <<truth, ended, ans>>

-----------------------------------------------------------------------------
Asks(c) == ReadChainID(c) \/ Decide(c) \/ \E f \in Checks : Check(c, f)

Step(c) == ReadFlag(c) \/ Lock(c) \/ Asks(c)

Next == \E c \in Callers : Call(c) \/ EndContext(c) \/ Step(c)

Spec == Init /\ [][Next]_vars

(* Every call to the node ends, since it carries the context of the quote, *)
(* and the lock of the Go runtime starves no goroutine that waits for it.  *)
Fairness ==
    \A c \in Callers :
        /\ SF_vars(ReadFlag(c)) /\ SF_vars(Lock(c))
        /\ WF_vars(Asks(c))

FairSpec == Spec /\ Fairness

-----------------------------------------------------------------------------
TypeOK ==
    /\ truth \in [Facts -> BOOLEAN]
    /\ deployChecked \in BOOLEAN
    /\ holder \in Callers \union {Nil}
    /\ pc \in [Callers -> {"off", "read", "lock", "chain", "checks", "passed", "failed"}]
    /\ ended \in [Callers -> BOOLEAN]
    /\ ans \in [Callers -> [Facts -> {"none", "right", "wrong", "err"}]]

(* ensureDeployment lets no quote pass, on whichever path it returns nil,  *)
(* unless the node is on the configured chain and every contract of the    *)
(* configuration is what it says.                                          *)
PassedMeansRight ==
    \A c \in Callers : pc[c] = "passed" => \A f \in Facts : truth[f]

(* One caller at a time verifies (deployMu is held through the calls), and *)
(* nobody asks the node again once a caller has verified everything.       *)
OneVerification ==
    /\ \A c, d \in Callers : Asking(c) /\ Asking(d) => c = d
    /\ deployChecked => \A c \in Callers : ~Asking(c)

(* A failure is the caller's own: its context ended or one of its own      *)
(* calls did not confirm a fact.  No failure or cancellation of another    *)
(* caller is kept or passed on (unlike the flights of poolExists).         *)
OwnFailure ==
    \A c \in Callers :
        pc[c] = "failed" => ended[c] \/ \E f \in Facts : ans[c][f] \in {"wrong", "err"}

(* Every caller of ensureDeployment returns.                               *)
CallersReturn == \A c \in Callers : ~Returned(c) ~> Returned(c)
=============================================================================
