--------------------------- MODULE TradeLifecycle ---------------------------
(***************************************************************************)
(* The client registry of mobile/trade: the package variables that hold    *)
(* one client per trading channel, Init, which replaces all of them while  *)
(* calls are in flight, and the accessors through which every exported     *)
(* call (AutoQuote, CheckTx, the permit calls) reaches a client.           *)
(*                                                                         *)
(* Two locks protect the registry.  tradeInitMu serialises Init.  tradeMu  *)
(* is a sync.RWMutex: a Uniswap call keeps its read lock for the length of *)
(* the network call (acquireUniv2Client returns tradeMu.RUnlock as the     *)
(* release function), the other accessors only while they read a pointer.  *)
(* A client of the Uniswap families owns a connection and must be closed   *)
(* exactly when nobody can use it any more; the HTTP clients of the other  *)
(* channels are never closed and are modelled by their configuration.      *)
(***************************************************************************)
EXTENDS Naturals, Sequences

CONSTANTS
    Callers,    \* threads that quote, check or build
    ClientId,   \* identities of Uniswap clients (pointers)
    Key,        \* keys of the client maps: upper-cased names and decimal ids
    Configs,    \* the configurations an Init call can carry
    MaxInits,   \* bound: number of Init calls in a behaviour
    Nil

Family == {"univ2", "univ3"}
Phase  == {"idle", "snapshot", "univ2", "univ3", "bridgers", "lock", "swap",
           "close"}

(* One element of the univ2 or univ3 list of a configuration.  "good" is   *)
(* FALSE for a configuration NewClient rejects; "ver" stands for every     *)
(* field sameUniv2Config compares besides the chain name and id.           *)
Entry == [name: Key, id: Key, ver: Nat, good: BOOLEAN]

(* A configuration as Init decodes it; "none" is an absent option.  brgOk  *)
(* is FALSE when bridgers.NewClient rejects the bridgers section.          *)
Config == [univ2: Seq(Entry), univ3: Seq(Entry), jup: STRING, brg: STRING,
           brgOk: BOOLEAN, bng: STRING, server: STRING]

ASSUME ConfigsAssumption == Configs \subseteq Config
ASSUME NilAssumption == Nil \notin ClientId \union Callers \union Entry \union {"init"}
ASSUME CallersAssumption == "init" \notin Callers
ASSUME MaxInitsAssumption == MaxInits \in Nat

VARIABLES
    clients,    \* univ2Clients and univ3Clients: key -> client or Nil
    cfgOf,      \* the configuration a client was made from; Nil: not made yet
    open,       \* clients whose connection is open
    jup, brg,   \* configuration of the jupiter and bridgers clients
    bng,        \* configuration of the lazily made bungee client, or "none"
    bngKey,     \* bungeeAPIKey and bungeeAffiliateID, "" when neither is set
    proxy,      \* server of the lazily made proxy client, or "none"
    server,     \* the configured server URL, or ""
    readers,    \* callers holding tradeMu.RLock across a network call
    wwait,      \* who has called tradeMu.Lock and waits for the readers
    pc, held,   \* what a caller does, and the Uniswap client it holds
    phase,      \* where the running Init is; "idle" when tradeInitMu is free
    cfg, idx,   \* its configuration, and the loop index of newUnivXClients
    snap,       \* the client maps it read under the first read lock
    built,      \* the client maps it is building
    created,    \* the clients it made and did not take from snap
    retired,    \* per family, the replaced clients it still has to close
    active,     \* history: the configuration of the last successful Init
    inits       \* number of Init calls so far

registry == <<clients, jup, brg, bng, bngKey, proxy, server, active>>
conns    == <<cfgOf, open>>
caller   == <<readers, pc, held>>
local    == <<cfg, idx, snap, built, created, retired>>
vars     == <<registry, conns, caller, wwait, phase, local, inits>>

NoClients == [k \in Key |-> Nil]
NoMaps    == [f \in Family |-> NoClients]
NoSets    == [f \in Family |-> {}]

(* The clients a map holds.                                                *)
Held(m) == {m[k] : k \in Key} \ {Nil}

Installed == UNION {Held(clients[f]) : f \in Family}

Unconfigured == [univ2 |-> <<>>, univ3 |-> <<>>, jup |-> "none",
                 brg |-> "none", brgOk |-> TRUE, bng |-> "", server |-> ""]

Init ==
    /\ clients = NoMaps
    /\ cfgOf = [c \in ClientId |-> Nil]
    /\ open = {}
    /\ jup = "none" /\ brg = "none"
    /\ bng = "none" /\ bngKey = ""
    /\ proxy = "none" /\ server = ""
    /\ readers = {} /\ wwait = Nil
    /\ pc = [t \in Callers |-> "idle"]
    /\ held = [t \in Callers |-> Nil]
    /\ phase = "idle"
    /\ cfg = Unconfigured /\ idx = 1
    /\ snap = NoMaps /\ built = NoMaps
    /\ created = NoSets /\ retired = NoSets
    /\ active = Unconfigured
    /\ inits = 0

-----------------------------------------------------------------------------
(* sync.RWMutex: a reader waits while a writer holds the lock or waits for *)
(* it; a writer first waits for other writers, then for the readers.  The  *)
(* code never stays inside a write lock across a call, so the whole write  *)
(* section is the step that finds no reader left.                          *)
CanRLockPastWriter == TRUE          \* mutant: readers overtake a waiting writer
CanRLock           == wwait = Nil
CanAskLock         == wwait = Nil

CanLockAmongReaders(w) == wwait = w \* mutant: the writer does not wait
CanLock(w)             == wwait = w /\ readers = {}

-----------------------------------------------------------------------------
(* acquireUniv2Client, acquireUniv3Client: look the client up and keep the *)
(* read lock.  When the chain has no client the lock is given back and the *)
(* call fails without any effect.                                          *)
Acquire(t, f, k) ==
    /\ pc[t] = "idle"
    /\ CanRLock
    /\ clients[f][k] # Nil
    /\ readers' = readers \union {t}
    /\ pc' = [pc EXCEPT ![t] = "using"]
    /\ held' = [held EXCEPT ![t] = clients[f][k]]
    /\ UNCHANGED <<registry, conns, wwait, phase, local, inits>>

(* The deferred release of dispatch, CheckTx and the permit calls, after   *)
(* the client answered or the context of the call expired.                 *)
Release(t) ==
    /\ pc[t] = "using"
    /\ readers' = readers \ {t}
    /\ pc' = [pc EXCEPT ![t] = "idle"]
    /\ held' = [held EXCEPT ![t] = Nil]
    /\ UNCHANGED <<registry, conns, wwait, phase, local, inits>>

(* jupClient, autoQuoteBridgers and the first half of autoQuoteBungee and  *)
(* serverProxy when there is a client: read a pointer under the read lock. *)
ReadPointer(t) ==
    /\ pc[t] = "idle"
    /\ CanRLock
    /\ UNCHANGED vars

(* autoQuoteBungee and serverProxy when there is no client yet: the read   *)
(* lock is given back before the write lock is asked for.                  *)
LazyMiss(t) ==
    /\ pc[t] = "idle"
    /\ CanRLock
    /\ \/ bng = "none" /\ pc' = [pc EXCEPT ![t] = "bungee"]
       \/ proxy = "none" /\ server # "" /\ pc' = [pc EXCEPT ![t] = "proxy"]
    /\ UNCHANGED <<registry, conns, readers, held, wwait, phase, local, inits>>

LazyAskLock(t) ==
    /\ pc[t] \in {"bungee", "proxy"}
    /\ CanAskLock
    /\ wwait' = t
    /\ UNCHANGED <<registry, conns, caller, phase, local, inits>>

(* bungee.NewClient with the settings that hold once the lock is owned.    *)
MakeBungee == IF bng = "none" THEN bngKey ELSE bng

(* httpc.NewRequest, unless Init has removed the server in the meantime.   *)
MakeProxy == IF proxy = "none" /\ server # "" THEN server ELSE proxy

LazyCreate(t) ==
    /\ CanLock(t)
    /\ \/ pc[t] = "bungee" /\ bng' = MakeBungee /\ UNCHANGED proxy
       \/ pc[t] = "proxy" /\ proxy' = MakeProxy /\ UNCHANGED bng
    /\ wwait' = Nil
    /\ pc' = [pc EXCEPT ![t] = "idle"]
    /\ UNCHANGED <<clients, jup, brg, bngKey, server, active>>
    /\ UNCHANGED <<conns, readers, held, phase, local, inits>>

-----------------------------------------------------------------------------
(* Init of the code: lock tradeInitMu and decode the configuration.        *)
InitStart(c) ==
    /\ phase = "idle"
    /\ inits < MaxInits
    /\ inits' = inits + 1
    /\ phase' = "snapshot"
    /\ cfg' = c
    /\ UNCHANGED <<registry, conns, caller, wwait>>
    /\ UNCHANGED <<idx, snap, built, created, retired>>

(* Read the current clients under the read lock.                           *)
InitSnapshot ==
    /\ phase = "snapshot"
    /\ CanRLock
    /\ snap' = clients
    /\ built' = NoMaps /\ created' = NoSets /\ idx' = 1
    /\ phase' = "univ2"
    /\ UNCHANGED <<registry, conns, caller, wwait, cfg, retired, inits>>

Duplicate(f, e) == built[f][e.name] # Nil \/ built[f][e.id] # Nil

(* Mutant: a client is kept for its chain name alone.                      *)
ReusableByName(f, e) == snap[f][e.name] # Nil

(* The client of the same chain and settings that Init keeps, if any.      *)
Reusable(f, e) == snap[f][e.name] # Nil /\ cfgOf[snap[f][e.name]] = e

Fresh == CHOOSE c \in ClientId : cfgOf[c] = Nil

(* Mutant: the failure of one family forgets the family built before.      *)
CloseOnFailOwn(f) == created[f]

(* The clients an Init that fails while it builds f closes: the ones it    *)
(* created for f (closeCreated) and for the families built before.         *)
CloseOnFail(f) ==
    IF f = "univ2" THEN created["univ2"]
                   ELSE created["univ2"] \union created["univ3"]

InitFail(f) ==
    /\ open' = open \ CloseOnFail(f)
    /\ phase' = "idle"
    /\ UNCHANGED <<registry, caller, wwait, local, inits>>

(* One iteration of the loop of newUniv2Clients or newUniv3Clients: dial a *)
(* candidate, then reject it as a duplicate, drop it for the client that   *)
(* is already there, or take it.  A candidate that is not taken is closed  *)
(* in the same iteration and nobody else ever sees it.                     *)
BuildReject(f) ==
    /\ phase = f
    /\ idx <= Len(cfg[f])
    /\ ~cfg[f][idx].good \/ Duplicate(f, cfg[f][idx])
    /\ UNCHANGED cfgOf
    /\ InitFail(f)

Install(f, e, c) ==
    /\ built' = [built EXCEPT ![f] = [@ EXCEPT ![e.name] = c, ![e.id] = c]]
    /\ idx' = idx + 1
    /\ UNCHANGED <<registry, caller, wwait, phase, cfg, snap, retired, inits>>

BuildReuse(f) ==
    /\ phase = f
    /\ idx <= Len(cfg[f])
    /\ LET e == cfg[f][idx]
       IN /\ e.good /\ ~Duplicate(f, e) /\ Reusable(f, e)
          /\ Install(f, e, snap[f][e.name])
    /\ UNCHANGED <<conns, created>>

BuildCreate(f) ==
    /\ phase = f
    /\ idx <= Len(cfg[f])
    /\ LET e == cfg[f][idx]
           c == Fresh
       IN /\ e.good /\ ~Duplicate(f, e) /\ ~Reusable(f, e)
          /\ \E u \in ClientId : cfgOf[u] = Nil
          /\ cfgOf' = [cfgOf EXCEPT ![c] = e]
          /\ open' = open \union {c}
          /\ created' = [created EXCEPT ![f] = @ \union {c}]
          /\ Install(f, e, c)

BuildDone(f) ==
    /\ phase = f
    /\ idx > Len(cfg[f])
    /\ phase' = IF f = "univ2" THEN "univ3" ELSE "bridgers"
    /\ idx' = 1
    /\ UNCHANGED <<registry, conns, caller, wwait, inits>>
    /\ UNCHANGED <<cfg, snap, built, created, retired>>

(* bridgers.NewClient, unless the section is absent or unchanged.          *)
BridgersFail ==
    /\ phase = "bridgers"
    /\ cfg.brg # "none" /\ cfg.brg # brg /\ ~cfg.brgOk
    /\ UNCHANGED cfgOf
    /\ InitFail("univ3")

BridgersOk ==
    /\ phase = "bridgers"
    /\ cfg.brg = "none" \/ cfg.brg = brg \/ cfg.brgOk
    /\ phase' = "lock"
    /\ UNCHANGED <<registry, conns, caller, wwait, local, inits>>

InitAskLock ==
    /\ phase = "lock"
    /\ CanAskLock
    /\ wwait' = "init"
    /\ phase' = "swap"
    /\ UNCHANGED <<registry, conns, caller, local, inits>>

(* Mutant: a lazily made client survives a change of its settings.         *)
KeepBungeeAlways(c) == bng

KeepBungee(c) == IF bngKey # c.bng THEN "none" ELSE bng
KeepProxy(c)  == IF server # c.server THEN "none" ELSE proxy
Retired(f)    == Held(clients[f]) \ Held(built[f])

(* The write section of Init: replace everything at once, drop the lazily  *)
(* made clients whose settings changed, remember what was replaced.        *)
InitSwap ==
    /\ phase = "swap"
    /\ CanLock("init")
    /\ clients' = built
    /\ jup' = cfg.jup
    /\ brg' = cfg.brg
    /\ proxy' = KeepProxy(cfg)
    /\ server' = cfg.server
    /\ bng' = KeepBungee(cfg)
    /\ bngKey' = cfg.bng
    /\ active' = cfg
    /\ retired' = [f \in Family |-> Retired(f)]
    /\ wwait' = Nil
    /\ phase' = "close"
    /\ UNCHANGED <<conns, caller, cfg, idx, snap, built, created, inits>>

(* closeRetiredUniv2Clients, then closeRetiredUniv3Clients: outside the    *)
(* lock, each client once although its map holds it under two keys.        *)
CloseRetired(f, c) ==
    /\ phase = "close"
    /\ c \in retired[f]
    /\ f = "univ3" => retired["univ2"] = {}
    /\ open' = open \ {c}
    /\ retired' = [retired EXCEPT ![f] = @ \ {c}]
    /\ UNCHANGED <<registry, cfgOf, caller, wwait, phase, inits>>
    /\ UNCHANGED <<cfg, idx, snap, built, created>>

InitReturn ==
    /\ phase = "close"
    /\ retired = NoSets
    /\ phase' = "idle"
    /\ UNCHANGED <<registry, conns, caller, wwait, local, inits>>

-----------------------------------------------------------------------------
CallerStep(t) ==
    \/ \E f \in Family, k \in Key : Acquire(t, f, k)
    \/ Release(t)
    \/ ReadPointer(t)
    \/ LazyMiss(t)
    \/ LazyAskLock(t)
    \/ LazyCreate(t)

InitStep ==
    \/ InitSnapshot
    \/ \E f \in Family : BuildReject(f) \/ BuildReuse(f) \/ BuildCreate(f) \/ BuildDone(f)
    \/ BridgersFail \/ BridgersOk
    \/ InitAskLock \/ InitSwap
    \/ \E f \in Family, c \in ClientId : CloseRetired(f, c)
    \/ InitReturn

Next ==
    \/ \E t \in Callers : CallerStep(t)
    \/ \E c \in Configs : InitStart(c)
    \/ InitStep

Spec == Init /\ [][Next]_vars

(* A call ends because its context has a deadline; threads waiting for a   *)
(* lock are scheduled; nobody has to call anything.                        *)
Fairness ==
    /\ WF_vars(InitStep)
    /\ \A t \in Callers : /\ WF_vars(Release(t))
                          /\ WF_vars(LazyAskLock(t))
                          /\ WF_vars(LazyCreate(t))

FairSpec == Spec /\ Fairness

-----------------------------------------------------------------------------
Client  == ClientId \union {Nil}
Maps    == [Family -> [Key -> Client]]

Settings(c) == {c.jup, c.brg, c.bng, c.server}
Setting     == {"none", ""} \union UNION {Settings(c) : c \in Configs}

(* Every variable of the registry, of the callers and of Init holds a      *)
(* value of its type.                                                      *)
TypeOK ==
    /\ clients \in Maps /\ snap \in Maps /\ built \in Maps
    /\ cfgOf \in [ClientId -> Entry \union {Nil}]
    /\ open \subseteq ClientId
    /\ {jup, brg, bng, bngKey, proxy, server} \subseteq Setting
    /\ readers \subseteq Callers
    /\ wwait \in Callers \union {Nil, "init"}
    /\ pc \in [Callers -> {"idle", "using", "bungee", "proxy"}]
    /\ held \in [Callers -> Client]
    /\ phase \in Phase
    /\ cfg \in Configs \union {Unconfigured}
    /\ active \in Configs \union {Unconfigured}
    /\ idx \in Nat \ {0}
    /\ created \in [Family -> SUBSET ClientId]
    /\ retired \in [Family -> SUBSET ClientId]
    /\ inits \in 0..MaxInits

(* No call uses a client whose connection Init has closed: what            *)
(* closeRetiredUniv2Clients closes after the swap, or an Init that fails   *)
(* half way, is held by no reader of tradeMu.                              *)
NoUseAfterClose ==
    \A t \in Callers : pc[t] = "using" => held[t] \in open

(* Between two Inits the open connections are exactly those of the         *)
(* installed clients: neither a failed Init, nor a dropped candidate, nor  *)
(* a replaced client leaves a connection behind, and none in the registry  *)
(* is closed.  An Init closes only what is open, so no client twice.       *)
NoLeak ==
    /\ phase = "idle" => open = Installed
    /\ phase = "close" => UNION {retired[f] : f \in Family} \subseteq open

(* The registry is always that of the last Init that succeeded, whole: the *)
(* map of each family has exactly the chains of that configuration, under  *)
(* both keys, each with a client of exactly the configured settings,       *)
(* whether it was made for it or kept from an earlier Init.                *)
RegistryMatchesConfig ==
    /\ TypeOK
    /\ \A f \in Family :
        LET es == {active[f][i] : i \in 1..Len(active[f])}
        IN /\ \A k \in Key :
                 clients[f][k] # Nil <=> \E e \in es : k \in {e.name, e.id}
           /\ \A e \in es : /\ clients[f][e.name] = clients[f][e.id]
                            /\ cfgOf[clients[f][e.name]] = e

(* A lazily made client has the settings of the current configuration,     *)
(* however the creation and an Init interleave: autoQuoteBungee and        *)
(* serverProxy ask for the write lock after they gave the read lock back,  *)
(* and Init may run in between.                                            *)
LazyMatchesConfig ==
    /\ bng \in {"none", bngKey} /\ bngKey = active.bng
    /\ proxy \in {"none", server} /\ server = active.server

(* Every Init returns although calls keep coming: the calls that hold the  *)
(* read lock end with their deadlines and later ones queue behind Init;    *)
(* and a call that makes a client lazily gets the write lock in the end.   *)
CallsReturn ==
    /\ phase # "idle" ~> phase = "idle"
    /\ \A t \in Callers : pc[t] \in {"bungee", "proxy"} ~> pc[t] = "idle"
=============================================================================
