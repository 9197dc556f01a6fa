------------------------------ MODULE Transport ------------------------------
(***************************************************************************)
(* httpc.Request, shared by all the calls of a handler or of a provider's  *)
(* client, and the JSON-RPC client on top of it: the URL built from a base *)
(* that may be set at any time, the local rate limiter, the request, the   *)
(* status, the body under its size limit, and what is told to the caller.  *)
(* The callers and their contexts are those of Deployment.                 *)
(*                                                                         *)
(* Three users: "rest", a handler whose base URL never changes; "ton",     *)
(* getTokenInfo of the TON handler, which sets the base URL of one client  *)
(* to the metadata of the token before each request; "rpc", JSON-RPC.      *)
(* SetRateLimit is called while a client is made, never while it is used.  *)
(***************************************************************************)
EXTENDS Deployment, Integers, FiniteSets

CONSTANTS
    Docs,       \* what can be asked for
    Burst,      \* burst of the limiter
    MaxBytes    \* maxResponseBytes

ASSUME TransportAssumption ==
    IsFiniteSet(Callers) /\ Burst \in Nat \ {0} /\ MaxBytes \in Nat \ {0}

VARIABLES
    user,
    base,       \* baseUrl: the document it leads to, Nil: not an absolute URL
    tokens,     \* of the limiter
    req         \* caller -> its request

httpVars == <<user, base, tokens, req>>

(* sent: has it left; size: of the body; crossed: did another caller set   *)
(* the base URL since this one did; got, from: the outcome, and the        *)
(* document it is about.                                                   *)
Request(d) == [doc |-> d, url |-> Nil, id |-> 0, sent |-> FALSE, size |-> 0,
               crossed |-> FALSE, got |-> "none", from |-> Nil]

HttpInit ==
    /\ user \in {"rest", "ton", "rpc"}
    /\ base = Nil
    /\ tokens = Burst
    /\ req \in [Callers -> {Request(Nil)}]

Served == <<truth, deployChecked, holder, ans>>

(* Call c returns q, an error unless it is "value", "blank" or "rpcError". *)
Finish(c, q) ==
    /\ Go(c, "off")
    /\ req' = [req EXCEPT ![c] = [q EXCEPT !.url = Nil, !.id = 0]]

Got(c, r) == [req[c] EXCEPT !.got = r]

-----------------------------------------------------------------------------
(* External: a call begins.  The URI of a token is whatever its contract   *)
(* says: Nil is one that leads nowhere.                                    *)
HttpCall(c) ==
    /\ Returned(c)
    /\ \E d \in IF user = "ton" THEN Docs \union {Nil} ELSE Docs :
         req' = [req EXCEPT ![c] = Request(d)]
    /\ Go(c, CASE user = "rest" -> "build" [] user = "ton" -> "setBase" [] user = "rpc" -> "number")
    /\ ended' = [ended EXCEPT ![c] = FALSE]
    /\ UNCHANGED <<Served, user, base, tokens>>

SetBaseUrl(c) ==
    /\ pc[c] = "setBase"
    /\ base' = req[c].doc
    /\ req' = [d \in Callers |->
                 [req[d] EXCEPT !.crossed = d # c /\ (@ \/ pc[d] = "build")]]
    /\ Go(c, "build")
    /\ UNCHANGED <<Served, ended, user, tokens>>

Target(c) == IF user = "rest" THEN req[c].doc ELSE base

(* Fails for a base that is not absolute, or a body that is not encoded.   *)
BuildURL(c) ==
    /\ pc[c] = "build"
    /\ \/ Finish(c, Got(c, "other"))
       \/ /\ Target(c) # Nil
          /\ req' = [req EXCEPT ![c].url = Target(c)]
          /\ Go(c, "wait")
    /\ UNCHANGED <<Served, ended, user, base, tokens>>

(* JSONRPCClient.Call: the parameters, and the next ID.  The counter is    *)
(* abstracted to what is in flight: an ID that no other request carries; 0 *)
(* stands for the IDs of requests that have ended.                         *)
InFlight == {req[d].id : d \in {e \in Callers : ~Returned(e)}}
FreshID  == CHOOSE i \in 1 .. Cardinality(Callers) : i \notin InFlight

Number(c) ==
    /\ pc[c] = "number"
    /\ \/ Finish(c, Got(c, "other"))
       \/ /\ req' = [req EXCEPT ![c].id = FreshID, ![c].url = req[c].doc]
          /\ Go(c, "wait")
    /\ UNCHANGED <<Served, ended, user, base, tokens>>

-----------------------------------------------------------------------------
(* limiter.Wait.  It fails when the context has ended, and as soon as the  *)
(* token would come after the deadline; both make a RateLimitError, and    *)
(* the first unwraps to the error of the context.                          *)
TakeToken(c) ==
    /\ pc[c] = "wait"
    /\ tokens > 0
    /\ tokens' = tokens - 1
    /\ Go(c, "do")
    /\ UNCHANGED <<Served, ended, user, base, req>>

MissToken(c) ==
    /\ pc[c] = "wait"
    /\ \/ ended[c] /\ Finish(c, Got(c, "deadline"))
       \/ tokens = 0 /\ ~ended[c] /\ Finish(c, Got(c, "limiter"))
    /\ UNCHANGED <<Served, ended, user, base, tokens>>

(* External: time passes.                                                  *)
Refill ==
    /\ tokens < Burst
    /\ tokens' = tokens + 1
    /\ UNCHANGED <<Served, pc, ended, user, base, req>>

(* client.Do fails: the context, the timeout of the client, the connection.*)
DoFails(c) ==
    /\ pc[c] = "do"
    /\ \E r \in {"deadline", "other"}, out \in BOOLEAN :
         Finish(c, [Got(c, r) EXCEPT !.sent = out])
    /\ UNCHANGED <<Served, ended, user, base, tokens>>

Statuses == {"2xx", "http404", "http429", "http5xx"}

(* A response arrives.  Of a body that is not wanted a bounded prefix is   *)
(* read and dropped; a declared length over the limit is refused at once.  *)
Respond(c) ==
    /\ pc[c] = "do"
    /\ \E s \in Statuses, n \in 0 .. MaxBytes + 1, declared \in BOOLEAN :
         LET r == IF s # "2xx" THEN s
                  ELSE IF declared /\ n > MaxBytes THEN "tooLarge" ELSE "none"
             q == [Got(c, r) EXCEPT !.sent = TRUE, !.size = n]
         IN  \/ r = "none" /\ Go(c, "read") /\ req' = [req EXCEPT ![c] = q]
             \/ r # "none" /\ Finish(c, q)
    /\ UNCHANGED <<Served, ended, user, base, tokens>>

-----------------------------------------------------------------------------
(* The reader stops one byte after the limit, to see that there is more.   *)
BytesRead(n) == IF n > MaxBytes THEN MaxBytes + 1 ELSE n

(* The documents that a reply with this ID answers: any, when the request  *)
(* it belongs to has ended.                                                *)
DocsOf(id) == IF id = 0 THEN Docs
              ELSE {req[d].doc : d \in {e \in Callers : ~Returned(e) /\ req[e].id = id}}

(* Mutant: the reply is taken for that of the request.                     *)
IdMatchesAny(c, id) == TRUE

IdMatches(c, id) == id = req[c].id

(* The checks of Call: version, ID, one of result and error, and an error  *)
(* with a code and a message.                                              *)
RpcOutcome(c, id, form) ==
    IF form = "malformed" \/ ~IdMatches(c, id) THEN "other"
    ELSE IF form = "error" THEN "rpcError" ELSE "value"

(* readResponseBody and the decoding; a reply without a body is an error   *)
(* unless its status says so.                                              *)
ReadFails(c) ==
    /\ pc[c] = "read"
    /\ \E r \in {"deadline", "other"} : Finish(c, Got(c, r))
    /\ UNCHANGED <<Served, ended, user, base, tokens>>

Read(c) ==
    /\ pc[c] = "read"
    /\ LET n == BytesRead(req[c].size)
       IN  \/ n > MaxBytes /\ Finish(c, Got(c, "tooLarge"))
           \/ n = 0 /\ \E r \in {"blank", "other"} : Finish(c, Got(c, r))
           \/ n \in 1 .. MaxBytes /\ Finish(c, Got(c, "other"))
           \/ /\ n \in 1 .. MaxBytes /\ user # "rpc"
              /\ Finish(c, [Got(c, "value") EXCEPT !.from = req[c].url])
           \/ /\ n \in 1 .. MaxBytes /\ user = "rpc"
              /\ \E id \in InFlight \union {0}, form \in {"result", "error", "malformed"} :
                   \E d \in DocsOf(id) :
                     Finish(c, [Got(c, RpcOutcome(c, id, form)) EXCEPT !.from = d])
    /\ UNCHANGED <<Served, ended, user, base, tokens>>

-----------------------------------------------------------------------------
HttpStep(c) ==
    \/ SetBaseUrl(c) \/ BuildURL(c) \/ Number(c) \/ TakeToken(c) \/ MissToken(c)
    \/ DoFails(c) \/ Respond(c) \/ ReadFails(c) \/ Read(c)

(* The end of a context matters while the limiter is waited for; anywhere  *)
(* later it is one of the ways to fail.                                    *)
HttpNext ==
    \/ \E c \in Callers :
         \/ HttpCall(c) \/ HttpStep(c)
         \/ pc[c] = "wait" /\ EndContext(c) /\ UNCHANGED httpVars
    \/ Refill

TransportSpec == Init /\ HttpInit /\ [][HttpNext]_<<vars, httpVars>>

-----------------------------------------------------------------------------
HttpTypeOK ==
    /\ base \in Docs \union {Nil}
    /\ tokens \in 0 .. Burst
    /\ \A c, d \in Callers :
         ~Returned(c) /\ ~Returned(d) /\ c # d => req[c].id = 0 \/ req[c].id # req[d].id

Told(c) == Returned(c) /\ req[c].got \notin {"none"}

(* Whatever calls share a client, an answer is that of the document (with  *)
(* JSON-RPC, of the very request) the caller asked for, all of it, and not *)
(* over the limit; except on TON, when another getTokenInfo set the base   *)
(* URL before this one built its own.  And the errors tell the truth that  *)
(* retries, "not found" and the reasons of a quote rely on: a request that *)
(* the limiter refused never left, one with a status did, and only a body  *)
(* over the limit is refused for its size.                                 *)
AnswerIsOwn ==
    \A c \in Callers : Told(c) =>
        LET r == req[c]
        IN  /\ HttpTypeOK
            /\ r.got \in {"value", "rpcError"} =>
                 /\ r.from = r.doc \/ (user = "ton" /\ r.crossed)
                 /\ r.size <= MaxBytes
            /\ r.got = "limiter" => ~r.sent
            /\ r.got \in Statuses \union {"value", "blank", "rpcError"} => r.sent
            /\ r.got = "tooLarge" => r.size > MaxBytes
=============================================================================
