----------------------------- MODULE TradeProofs -----------------------------
(***************************************************************************)
(* The clients of mobile/trade, and the trades they serve.                 *)
(*                                                                         *)
(* First the client registry, for every set of callers, clients and        *)
(* configurations and any number of Inits: types, connections, what no     *)
(* caller uses once it is closed, the lazily made clients, no leak, and    *)
(* that the registry is that of the last Init that succeeded.              *)
(*                                                                         *)
(* Then why the engine recommends the best route and gives the right       *)
(* reason, why every route that is shown keeps to its bounds, and why a    *)
(* verdict is the fate of the swap, for any requests, offers, amounts and  *)
(* limits.  The ranking is a strict total order of the candidates, so that *)
(* counting who comes before gives every route a place of its own; the     *)
(* channels are taken one by one; and a provider's record that says how a  *)
(* swap ended never changes again.                                         *)
(***************************************************************************)
EXTENDS TradeLifecycle, Trade, FiniteFacts

Building == {"univ2", "univ3", "bridgers", "lock", "swap"}

(* Where every connection is, during every step of an Init.                *)
OpenAreMade == \A c \in open : cfgOf[c] # Nil

InstalledAreOpen == Installed \subseteq open

UsersHoldInstalled ==
    \A t \in Callers : pc[t] = "using" => t \in readers /\ held[t] \in Installed

OneFamily == Held(clients["univ2"]) \cap Held(clients["univ3"]) = {}

BuildOwns ==
    phase \in Building =>
        /\ snap = clients
        /\ \A f \in Family : /\ created[f] \subseteq open \ Installed
                             /\ Held(built[f]) \subseteq Held(clients[f]) \union created[f]
        /\ created["univ2"] \cap created["univ3"] = {}

RetiredAreLoose ==
    phase = "close" => \A f \in Family : retired[f] \cap Installed = {}

ConnInv ==
    /\ OpenAreMade /\ InstalledAreOpen /\ UsersHoldInstalled
    /\ OneFamily /\ BuildOwns /\ RetiredAreLoose

-----------------------------------------------------------------------------
(* Every entry of a list of a configuration is an Entry.                   *)
LEMMA EntryType ==
    ASSUME NEW c \in Configs \union {Unconfigured}, NEW f \in Family
    PROVE  /\ c[f] \in Seq(Entry)
           /\ \A i \in Nat \ {0} : i <= Len(c[f]) => c[f][i] \in Entry
<1>1. c[f] \in Seq(Entry)
  <2>1. CASE c \in Configs
    BY <2>1, ConfigsAssumption DEF Config, Family
  <2>2. CASE c = Unconfigured
    <3>1. << >> \in Seq(Entry)
      OBVIOUS
    <3>2. c["univ2"] = << >> /\ c["univ3"] = << >>
      BY <2>2 DEF Unconfigured
    <3>. QED BY <3>1, <3>2 DEF Family
  <2>. QED BY <2>1, <2>2
<1>2. QED BY <1>1

LEMMA SettingType ==
    ASSUME NEW c \in Configs \union {Unconfigured}
    PROVE  {c.jup, c.brg, c.bng, c.server} \subseteq Setting
<1>1. CASE c \in Configs
  BY <1>1 DEF Setting, Settings
<1>2. CASE c = Unconfigured
  BY <1>2 DEF Unconfigured, Setting
<1>. QED BY <1>1, <1>2

LEMMA FreshType ==
    ASSUME \E u \in ClientId : cfgOf[u] = Nil
    PROVE  Fresh \in ClientId /\ cfgOf[Fresh] = Nil
BY DEF Fresh

LEMMA InitType == Init => TypeOK
<1>. SUFFICES ASSUME Init PROVE TypeOK
  OBVIOUS
<1>1. NoMaps \in Maps /\ NoSets \in [Family -> SUBSET ClientId]
  BY DEF NoMaps, NoClients, NoSets, Maps, Client
<1>2. /\ clients \in Maps /\ snap \in Maps /\ built \in Maps
      /\ created \in [Family -> SUBSET ClientId]
      /\ retired \in [Family -> SUBSET ClientId]
  BY <1>1 DEF Init
<1>3. {jup, brg, bng, bngKey, proxy, server} \subseteq Setting
  BY DEF Init, Setting
<1>4. 0 \in 0..MaxInits /\ 1 \in Nat \ {0}
  BY MaxInitsAssumption
<1>5. inits \in 0..MaxInits /\ idx \in Nat \ {0}
  BY <1>4 DEF Init
<1>6. /\ cfgOf \in [ClientId -> Entry \union {Nil}]
      /\ pc \in [Callers -> {"idle", "using", "bungee", "proxy"}]
      /\ held \in [Callers -> Client]
  BY DEF Init, Client
<1>7. /\ open \subseteq ClientId /\ readers \subseteq Callers
      /\ wwait \in Callers \union {Nil, "init"} /\ phase \in Phase
      /\ cfg \in Configs \union {Unconfigured}
      /\ active \in Configs \union {Unconfigured}
  BY DEF Init, Phase
<1>. QED BY <1>2, <1>3, <1>5, <1>6, <1>7 DEF TypeOK

LEMMA StepType == TypeOK /\ [Next]_vars => TypeOK'
<1>. SUFFICES ASSUME TypeOK, [Next]_vars PROVE TypeOK'
  OBVIOUS
<1>. USE DEF TypeOK, registry, conns, caller, local
<1>1. ASSUME NEW t \in Callers, NEW f \in Family, NEW k \in Key, Acquire(t, f, k)
      PROVE  TypeOK'
  <2>1. clients[f][k] \in Client
    BY DEF Maps
  <2>. QED BY <1>1, <2>1 DEF Acquire
<1>2. ASSUME NEW t \in Callers, Release(t) PROVE TypeOK'
  BY <1>2 DEF Release, Client
<1>3. ASSUME NEW t \in Callers, LazyMiss(t) PROVE TypeOK'
  BY <1>3 DEF LazyMiss
<1>4. ASSUME NEW t \in Callers, LazyAskLock(t) PROVE TypeOK'
  BY <1>4 DEF LazyAskLock
<1>5. ASSUME NEW t \in Callers, LazyCreate(t) PROVE TypeOK'
  BY <1>5 DEF LazyCreate, MakeBungee, MakeProxy
<1>6. ASSUME NEW c \in Configs, InitStart(c) PROVE TypeOK'
  BY <1>6, MaxInitsAssumption DEF InitStart, Phase
<1>7. ASSUME InitSnapshot PROVE TypeOK'
  <2>1. NoMaps \in Maps
    BY DEF NoMaps, NoClients, Maps, Client
  <2>. QED BY <1>7, <2>1 DEF InitSnapshot, NoSets, Phase
<1>8. ASSUME NEW f \in Family, BuildReject(f) PROVE TypeOK'
  BY <1>8 DEF BuildReject, InitFail, Phase
<1>9. ASSUME NEW f \in Family, NEW e \in Entry, NEW c \in ClientId, Install(f, e, c)
      PROVE  built' \in Maps /\ idx' \in Nat \ {0}
  <2>1. /\ built[f] \in [Key -> Client]
        /\ c \in Client /\ e.name \in Key /\ e.id \in Key
    BY DEF Maps, Client, Entry
  <2>. DEFINE b == [built[f] EXCEPT ![e.name] = c, ![e.id] = c]
  <2>2. b \in [Key -> Client]
    BY <2>1
  <2>3. built' = [built EXCEPT ![f] = b]
    BY <1>9 DEF Install
  <2>4. idx' \in Nat \ {0}
    BY <1>9 DEF Install
  <2>. HIDE DEF b
  <2>. QED BY <2>2, <2>3, <2>4 DEF Maps
<1>10. ASSUME NEW f \in Family, BuildReuse(f) PROVE TypeOK'
  <2>. DEFINE e == cfg[f][idx]
              c == snap[f][e.name]
  <2>1. e \in Entry
    BY <1>10, EntryType DEF BuildReuse
  <2>2. Reusable(f, e) /\ Install(f, e, c)
    BY <1>10 DEF BuildReuse
  <2>3. c \in ClientId
    BY <2>1, <2>2 DEF Reusable, Maps, Client, Entry
  <2>4. built' \in Maps /\ idx' \in Nat \ {0}
    BY <2>1, <2>2, <2>3, <1>9
  <2>. QED BY <1>10, <2>2, <2>4 DEF BuildReuse, Install
<1>11. ASSUME NEW f \in Family, BuildCreate(f) PROVE TypeOK'
  <2>. DEFINE e == cfg[f][idx]
  <2>1. e \in Entry
    BY <1>11, EntryType DEF BuildCreate
  <2>2. Fresh \in ClientId
    BY <1>11, FreshType DEF BuildCreate
  <2>3. Install(f, e, Fresh)
    BY <1>11 DEF BuildCreate
  <2>4. built' \in Maps /\ idx' \in Nat \ {0}
    BY <2>1, <2>2, <2>3, <1>9
  <2>5. /\ cfgOf' = [cfgOf EXCEPT ![Fresh] = e]
        /\ open' = open \union {Fresh}
        /\ created' = [created EXCEPT ![f] = @ \union {Fresh}]
    BY <1>11 DEF BuildCreate
  <2>. QED BY <2>1, <2>2, <2>3, <2>4, <2>5 DEF Install
<1>12. ASSUME NEW f \in Family, BuildDone(f) PROVE TypeOK'
  BY <1>12 DEF BuildDone, Phase
<1>13. ASSUME BridgersFail PROVE TypeOK'
  BY <1>13 DEF BridgersFail, InitFail, Phase
<1>14. ASSUME BridgersOk PROVE TypeOK'
  BY <1>14 DEF BridgersOk, Phase
<1>15. ASSUME InitAskLock PROVE TypeOK'
  BY <1>15 DEF InitAskLock, Phase
<1>16. ASSUME InitSwap PROVE TypeOK'
  <2>1. {cfg.jup, cfg.brg, cfg.bng, cfg.server} \subseteq Setting
    BY SettingType DEF TypeOK
  <2>2. "none" \in Setting
    BY DEF Setting
  <2>3. retired' \in [Family -> SUBSET ClientId]
    <3>1. ASSUME NEW f \in Family PROVE Retired(f) \subseteq ClientId
      BY DEF Retired, Held, Maps, Client
    <3>. QED BY <1>16, <3>1 DEF InitSwap
  <2>. QED BY <1>16, <2>1, <2>2, <2>3 DEF InitSwap, KeepBungee, KeepProxy, Phase
<1>17. ASSUME NEW f \in Family, NEW c \in ClientId, CloseRetired(f, c) PROVE TypeOK'
  BY <1>17 DEF CloseRetired
<1>18. ASSUME InitReturn PROVE TypeOK'
  BY <1>18 DEF InitReturn, Phase
<1>19. CASE UNCHANGED vars
  BY <1>19 DEF vars
<1>20. ASSUME NEW t \in Callers, ReadPointer(t) PROVE TypeOK'
  BY <1>20 DEF ReadPointer, vars
<1>. QED
  BY <1>1, <1>2, <1>3, <1>4, <1>5, <1>6, <1>7, <1>8, <1>10, <1>11, <1>12, <1>13,
     <1>14, <1>15, <1>16, <1>17, <1>18, <1>19, <1>20
     DEF Next, CallerStep, InitStep

(* The registry, the callers and Init stay within their types.             *)
THEOREM TypeCorrect == Spec => []TypeOK
<1>1. TypeOK /\ [Next]_vars => TypeOK'
  BY StepType
<1>. QED BY InitType, <1>1, PTL DEF Spec

-----------------------------------------------------------------------------
LEMMA InitConn == Init => ConnInv
<1>. SUFFICES ASSUME Init PROVE ConnInv
  OBVIOUS
<1>1. \A f \in Family : Held(clients[f]) = {}
  BY DEF Init, NoMaps, NoClients, Held
<1>2. Installed = {} /\ OneFamily
  BY <1>1 DEF Installed, OneFamily, Family
<1>3. OpenAreMade /\ InstalledAreOpen
  BY <1>2 DEF Init, OpenAreMade, InstalledAreOpen
<1>4. UsersHoldInstalled
  BY DEF Init, UsersHoldInstalled
<1>5. BuildOwns /\ RetiredAreLoose
  BY DEF Init, BuildOwns, RetiredAreLoose, Building
<1>. QED BY <1>2, <1>3, <1>4, <1>5 DEF ConnInv

(* What a map holds after an entry was installed in it.                    *)
LEMMA HeldInstall ==
    ASSUME TypeOK, NEW f \in Family, NEW e \in Entry, NEW c \in ClientId,
           Install(f, e, c)
    PROVE  \A g \in Family :
               Held(built[g])' \subseteq IF g = f THEN Held(built[g]) \union {c}
                                         ELSE Held(built[g])
<1>1. built \in Maps /\ e.name \in Key /\ e.id \in Key
  BY DEF TypeOK, Entry
<1>. DEFINE b == [built[f] EXCEPT ![e.name] = c, ![e.id] = c]
<1>2. built' = [built EXCEPT ![f] = b]
  BY DEF Install
<1>3. \A k \in Key : b[k] = c \/ b[k] = built[f][k]
  BY <1>1 DEF Maps
<1>. HIDE DEF b
<1>4. ASSUME NEW g \in Family, NEW x \in Held(built[g])'
      PROVE  x \in Held(built[g]) \/ (g = f /\ x = c)
  <2>1. PICK k \in Key : x = built'[g][k] /\ x # Nil
    BY DEF Held
  <2>2. CASE g = f
    <3>1. built'[g] = b
      BY <1>1, <1>2, <2>2 DEF Maps
    <3>. QED BY <3>1, <1>3, <2>1, <2>2 DEF Held
  <2>3. CASE g # f
    BY <1>1, <1>2, <2>1, <2>3 DEF Held, Maps
  <2>. QED BY <2>2, <2>3
<1>. QED BY <1>4

(* Steps that leave the maps and the connections alone keep what ConnInv   *)
(* says of them.                                                           *)
LEMMA SameMaps ==
    ASSUME ConnInv, clients' = clients, open' = open, cfgOf' = cfgOf
    PROVE  /\ OpenAreMade' /\ InstalledAreOpen' /\ OneFamily'
           /\ Installed' = Installed
           /\ \A f \in Family : Held(clients[f])' = Held(clients[f])
BY DEF ConnInv, OpenAreMade, InstalledAreOpen, OneFamily, Installed, Held

LEMMA SameInit ==
    ASSUME ConnInv, clients' = clients, open' = open, cfgOf' = cfgOf,
           phase' = phase, snap' = snap, built' = built, created' = created,
           retired' = retired
    PROVE  BuildOwns' /\ RetiredAreLoose'
BY SameMaps DEF ConnInv, BuildOwns, RetiredAreLoose, Held

LEMMA SameCallers ==
    ASSUME ConnInv, clients' = clients, pc' = pc, readers' = readers, held' = held
    PROVE  UsersHoldInstalled' /\ Installed' = Installed
BY DEF ConnInv, UsersHoldInstalled, Installed, Held

LEMMA StepConn == TypeOK /\ ConnInv /\ [Next]_vars => ConnInv'
<1>. SUFFICES ASSUME TypeOK, ConnInv, [Next]_vars PROVE ConnInv'
  OBVIOUS
<1>. USE DEF registry, conns, caller, local
<1>1. ASSUME NEW t \in Callers, NEW f \in Family, NEW k \in Key, Acquire(t, f, k)
      PROVE  ConnInv'
  <2>1. clients[f][k] \in Installed
    BY <1>1 DEF Acquire, Installed, Held
  <2>2. UsersHoldInstalled'
    BY <1>1, <2>1, SameMaps DEF Acquire, ConnInv, UsersHoldInstalled, TypeOK
  <2>. QED BY <1>1, <2>2, SameMaps, SameInit DEF Acquire, ConnInv
<1>2. ASSUME NEW t \in Callers, Release(t) PROVE ConnInv'
  <2>1. UsersHoldInstalled'
    BY <1>2, SameMaps DEF Release, ConnInv, UsersHoldInstalled, TypeOK
  <2>. QED BY <1>2, <2>1, SameMaps, SameInit DEF Release, ConnInv
<1>3. ASSUME NEW t \in Callers, LazyMiss(t) PROVE ConnInv'
  <2>1. UsersHoldInstalled'
    BY <1>3, SameMaps DEF LazyMiss, ConnInv, UsersHoldInstalled, TypeOK
  <2>. QED BY <1>3, <2>1, SameMaps, SameInit DEF LazyMiss, ConnInv
<1>4. ASSUME NEW t \in Callers, LazyAskLock(t) PROVE ConnInv'
  BY <1>4, SameMaps, SameInit, SameCallers DEF LazyAskLock, ConnInv
<1>5. ASSUME NEW t \in Callers, LazyCreate(t) PROVE ConnInv'
  <2>1. UsersHoldInstalled'
    BY <1>5, SameMaps DEF LazyCreate, ConnInv, UsersHoldInstalled, TypeOK
  <2>. QED BY <1>5, <2>1, SameMaps, SameInit DEF LazyCreate, ConnInv
<1>6. ASSUME NEW c \in Configs, InitStart(c) PROVE ConnInv'
  <2>1. BuildOwns' /\ RetiredAreLoose'
    BY <1>6 DEF InitStart, BuildOwns, RetiredAreLoose, Building
  <2>. QED BY <1>6, <2>1, SameMaps, SameCallers DEF InitStart, ConnInv
<1>7. ASSUME InitSnapshot PROVE ConnInv'
  <2>1. RetiredAreLoose'
    BY <1>7 DEF InitSnapshot, RetiredAreLoose
  <2>2. \A f \in Family : created'[f] = {} /\ Held(built[f])' = {}
    BY <1>7 DEF InitSnapshot, NoSets, NoMaps, NoClients, Held
  <2>3. BuildOwns'
    BY <1>7, <2>2 DEF InitSnapshot, BuildOwns, Family
  <2>. QED BY <1>7, <2>1, <2>3, SameMaps, SameCallers DEF InitSnapshot, ConnInv
<1>8. ASSUME NEW f \in Family, phase = f \/ phase = "bridgers", InitFail(f),
             cfgOf' = cfgOf
      PROVE  ConnInv'
  <2>1. f \in Building /\ phase \in Building
    BY <1>8 DEF Building, Family
  <2>2. CloseOnFail(f) \cap Installed = {}
    BY <2>1 DEF ConnInv, BuildOwns, CloseOnFail, Family
  <2>3. Installed' = Installed
    BY <1>8, SameCallers DEF InitFail
  <2>4. OpenAreMade' /\ InstalledAreOpen'
    BY <1>8, <2>2, <2>3 DEF InitFail, ConnInv, OpenAreMade, InstalledAreOpen
  <2>5. OneFamily'
    BY <1>8 DEF InitFail, ConnInv, OneFamily, Held
  <2>6. BuildOwns' /\ RetiredAreLoose'
    BY <1>8 DEF InitFail, BuildOwns, RetiredAreLoose, Building
  <2>. QED BY <1>8, <2>4, <2>5, <2>6, SameCallers DEF InitFail, ConnInv
<1>9. ASSUME NEW f \in Family, BuildReject(f) PROVE ConnInv'
  BY <1>8, <1>9 DEF BuildReject
<1>10. ASSUME NEW f \in Family, BuildReuse(f) PROVE ConnInv'
  <2>. DEFINE e == cfg[f][idx]
              c == snap[f][e.name]
  <2>1. e \in Entry
    BY <1>10, EntryType DEF BuildReuse, TypeOK
  <2>2. Reusable(f, e) /\ Install(f, e, c)
    BY <1>10 DEF BuildReuse
  <2>3. phase \in Building /\ snap = clients
    BY <1>10 DEF BuildReuse, Building, Family, ConnInv, BuildOwns
  <2>4. c \in ClientId /\ c \in Held(clients[f])
    BY <2>1, <2>2, <2>3 DEF Reusable, Held, TypeOK, Maps, Client, Entry
  <2>5. \A g \in Family :
          Held(built[g])' \subseteq Held(clients[g]) \union created[g]
    <3>1. \A g \in Family :
            Held(built[g])' \subseteq IF g = f THEN Held(built[g]) \union {c}
                                      ELSE Held(built[g])
      <4>1. f \in Family BY <1>10
      <4>. HIDE DEF e, c
      <4>. QED BY <4>1, <2>1, <2>2, <2>4, HeldInstall
    <3>2. \A g \in Family :
            Held(built[g]) \subseteq Held(clients[g]) \union created[g]
      BY <2>3 DEF ConnInv, BuildOwns
    <3>. HIDE DEF c
    <3>. QED BY <2>4, <3>1, <3>2
  <2>6. BuildOwns'
    <3>1. /\ clients' = clients /\ open' = open /\ cfgOf' = cfgOf
          /\ snap' = snap /\ created' = created
      BY <1>10, <2>2 DEF BuildReuse, Install
    <3>2. /\ Installed' = Installed
          /\ \A g \in Family : Held(clients[g])' = Held(clients[g])
      BY <3>1, SameMaps
    <3>. QED BY <2>3, <2>5, <3>1, <3>2 DEF ConnInv, BuildOwns
  <2>7. RetiredAreLoose'
    BY <2>2, <2>3 DEF Install, RetiredAreLoose, Building
  <2>. QED BY <1>10, <2>2, <2>6, <2>7, SameMaps, SameCallers
           DEF BuildReuse, Install, ConnInv
<1>11. ASSUME NEW f \in Family, BuildCreate(f) PROVE ConnInv'
  <2>. DEFINE e == cfg[f][idx]
  <2>1. e \in Entry /\ e # Nil
    BY <1>11, EntryType, NilAssumption DEF BuildCreate, TypeOK
  <2>2. Fresh \in ClientId /\ cfgOf[Fresh] = Nil
    BY <1>11, FreshType DEF BuildCreate
  <2>3. Install(f, e, Fresh)
    BY <1>11 DEF BuildCreate
  <2>4. /\ cfgOf' = [cfgOf EXCEPT ![Fresh] = e]
        /\ open' = open \union {Fresh}
        /\ created' = [created EXCEPT ![f] = @ \union {Fresh}]
        /\ phase \in Building
    BY <1>11 DEF BuildCreate, Building, Family
  <2>5. Fresh \notin open /\ Fresh \notin Installed
    BY <2>2 DEF ConnInv, OpenAreMade, InstalledAreOpen
  <2>6. clients' = clients /\ UsersHoldInstalled' /\ Installed' = Installed
    BY <2>3, SameCallers DEF Install
  <2>7. OpenAreMade'
    BY <2>1, <2>2, <2>4 DEF TypeOK, ConnInv, OpenAreMade
  <2>8. InstalledAreOpen' /\ OneFamily'
    BY <2>4, <2>6 DEF ConnInv, InstalledAreOpen, OneFamily, Held
  <2>9. /\ snap' = clients' /\ phase' = phase
        /\ \A g \in Family : created'[g] \subseteq open' \ Installed'
    BY <2>3, <2>4, <2>5, <2>6 DEF Install, ConnInv, BuildOwns, TypeOK
  <2>10. \A g \in Family :
           Held(built[g])' \subseteq Held(clients[g])' \union created'[g]
    <3>1. \A g \in Family : created'[g] = IF g = f THEN created[g] \union {Fresh}
                                          ELSE created[g]
      BY <2>4 DEF TypeOK
    <3>2. \A g \in Family : Held(clients[g])' = Held(clients[g])
      BY <2>6 DEF Held
    <3>. QED BY <2>1, <2>2, <2>3, <2>4, <3>1, <3>2, HeldInstall DEF ConnInv, BuildOwns
  <2>11. created'["univ2"] \cap created'["univ3"] = {}
    BY <2>4, <2>5 DEF ConnInv, BuildOwns, TypeOK, Family
  <2>12. BuildOwns' /\ RetiredAreLoose'
    BY <2>4, <2>9, <2>10, <2>11 DEF BuildOwns, RetiredAreLoose, Building
  <2>. QED BY <2>6, <2>7, <2>8, <2>12 DEF ConnInv
<1>12. ASSUME NEW f \in Family, BuildDone(f) PROVE ConnInv'
  <2>1. phase \in Building /\ phase' \in Building
    BY <1>12 DEF BuildDone, Building, Family
  <2>2. BuildOwns' /\ RetiredAreLoose'
    BY <1>12, <2>1, SameMaps
       DEF BuildDone, ConnInv, BuildOwns, RetiredAreLoose, Building, Held
  <2>. QED BY <1>12, <2>2, SameMaps, SameCallers DEF BuildDone, ConnInv
<1>13. ASSUME BridgersFail PROVE ConnInv'
  BY <1>13, <1>8 DEF BridgersFail, Family
<1>14. ASSUME BridgersOk \/ InitAskLock PROVE ConnInv'
  <2>1. /\ phase \in Building /\ phase' \in Building
        /\ clients' = clients /\ open' = open /\ cfgOf' = cfgOf
        /\ snap' = snap /\ built' = built /\ created' = created
        /\ pc' = pc /\ readers' = readers /\ held' = held
    BY <1>14 DEF BridgersOk, InitAskLock, Building
  <2>2. BuildOwns' /\ RetiredAreLoose'
    BY <2>1, SameMaps DEF ConnInv, BuildOwns, RetiredAreLoose, Building, Held
  <2>. QED BY <2>1, <2>2, SameMaps, SameCallers DEF ConnInv
<1>15. ASSUME InitSwap PROVE ConnInv'
  <2>1. /\ phase = "swap" /\ phase' = "close" /\ readers = {}
        /\ clients' = built /\ open' = open /\ cfgOf' = cfgOf
        /\ pc' = pc /\ held' = held /\ readers' = readers
        /\ retired' = [f \in Family |-> Retired(f)]
    BY <1>15 DEF InitSwap, CanLock
  <2>2. /\ \A f \in Family :
             /\ created[f] \subseteq open \ Installed
             /\ Held(clients[f]) \subseteq Installed
             /\ Held(clients[f])' = Held(built[f])
             /\ Held(built[f]) \subseteq Held(clients[f]) \union created[f]
        /\ created["univ2"] \cap created["univ3"] = {}
        /\ Held(clients["univ2"]) \cap Held(clients["univ3"]) = {}
    BY <2>1 DEF ConnInv, BuildOwns, OneFamily, Building, Installed, Held
  <2>3. OneFamily'
    BY <2>2 DEF OneFamily, Family
  <2>4. InstalledAreOpen'
    BY <2>1, <2>2 DEF ConnInv, InstalledAreOpen, Installed
  <2>5. OpenAreMade'
    BY <2>1 DEF ConnInv, OpenAreMade
  <2>6. UsersHoldInstalled'
    BY <2>1 DEF ConnInv, UsersHoldInstalled
  <2>7. BuildOwns'
    BY <2>1 DEF BuildOwns, Building
  <2>8. \A f, g \in Family : Retired(f) \cap Held(built[g]) = {}
    BY <2>2 DEF Retired, Family
  <2>9. RetiredAreLoose'
    BY <2>1, <2>2, <2>8 DEF RetiredAreLoose, Installed
  <2>. QED BY <2>3, <2>4, <2>5, <2>6, <2>7, <2>9 DEF ConnInv
<1>16. ASSUME NEW f \in Family, NEW c \in ClientId, CloseRetired(f, c) PROVE ConnInv'
  <2>1. c \notin Installed /\ Installed' = Installed /\ UsersHoldInstalled'
    BY <1>16, SameCallers DEF CloseRetired, ConnInv, RetiredAreLoose
  <2>2. OpenAreMade' /\ InstalledAreOpen'
    BY <1>16, <2>1 DEF CloseRetired, ConnInv, OpenAreMade, InstalledAreOpen
  <2>3. OneFamily'
    BY <1>16 DEF CloseRetired, ConnInv, OneFamily, Held
  <2>4. BuildOwns'
    BY <1>16 DEF CloseRetired, BuildOwns, Building
  <2>5. RetiredAreLoose'
    BY <1>16, <2>1 DEF CloseRetired, ConnInv, RetiredAreLoose, TypeOK
  <2>. QED BY <2>1, <2>2, <2>3, <2>4, <2>5 DEF ConnInv
<1>17. ASSUME InitReturn PROVE ConnInv'
  <2>1. BuildOwns' /\ RetiredAreLoose'
    BY <1>17 DEF InitReturn, BuildOwns, RetiredAreLoose, Building
  <2>. QED BY <1>17, <2>1, SameMaps, SameCallers DEF InitReturn, ConnInv
<1>18. ASSUME UNCHANGED vars PROVE ConnInv'
  BY <1>18, SameMaps, SameInit, SameCallers DEF vars, ConnInv
<1>. QED
  BY <1>1, <1>2, <1>3, <1>4, <1>5, <1>6, <1>7, <1>9, <1>10, <1>11, <1>12, <1>13,
     <1>14, <1>15, <1>16, <1>17, <1>18
     DEF Next, CallerStep, InitStep, ReadPointer

(* Where each connection is: in the registry, made by the running Init, or *)
(* waiting to be closed, and never two of these.                           *)
THEOREM Connections == Spec => []ConnInv
<1>1. TypeOK /\ ConnInv /\ [Next]_vars => ConnInv'
  BY StepConn
<1>. QED BY InitConn, TypeCorrect, <1>1, PTL DEF Spec

(* No call uses a client that Init has closed, whatever the callers and    *)
(* configurations are.                                                     *)
THEOREM Safety == Spec => []NoUseAfterClose
<1>1. ConnInv => NoUseAfterClose
  BY DEF ConnInv, UsersHoldInstalled, InstalledAreOpen, NoUseAfterClose
<1>. QED BY Connections, <1>1, PTL

(* The lazily made clients always have the current settings.               *)
THEOREM LazyConfig == Spec => []LazyMatchesConfig
<1>1. Init => LazyMatchesConfig
  <2>1. Unconfigured.bng = "" /\ Unconfigured.server = ""
    BY DEF Unconfigured
  <2>. QED BY <2>1 DEF Init, LazyMatchesConfig
<1>2. LazyMatchesConfig /\ [Next]_vars => LazyMatchesConfig'
  <2>. SUFFICES ASSUME LazyMatchesConfig, [Next]_vars PROVE LazyMatchesConfig'
    OBVIOUS
  <2>. DEFINE same == UNCHANGED <<bng, bngKey, proxy, server, active>>
  <2>1. same => LazyMatchesConfig'
    BY DEF LazyMatchesConfig
  <2>2. ASSUME NEW t \in Callers, CallerStep(t), ~LazyCreate(t) PROVE same
    BY <2>2 DEF CallerStep, Acquire, Release, ReadPointer, LazyMiss, LazyAskLock,
                registry, vars
  <2>3. ASSUME NEW t \in Callers, LazyCreate(t) PROVE LazyMatchesConfig'
    BY <2>3 DEF LazyCreate, MakeBungee, MakeProxy, LazyMatchesConfig
  <2>4. ASSUME InitSwap PROVE LazyMatchesConfig'
    BY <2>4 DEF InitSwap, KeepBungee, KeepProxy, LazyMatchesConfig
  <2>5. ASSUME InitStep, ~InitSwap PROVE same
    BY <2>5 DEF InitStep, InitSnapshot, BuildReject, BuildReuse, BuildCreate,
                Install, BuildDone, BridgersFail, BridgersOk, InitFail, InitAskLock,
                CloseRetired, InitReturn, registry
  <2>6. ASSUME NEW c \in Configs, InitStart(c) PROVE same
    BY <2>6 DEF InitStart, registry
  <2>7. ASSUME UNCHANGED vars PROVE same
    BY <2>7 DEF vars, registry
  <2>. QED BY <2>1, <2>2, <2>3, <2>4, <2>5, <2>6, <2>7 DEF Next
<1>. QED BY <1>1, <1>2, PTL DEF Spec

-----------------------------------------------------------------------------
(* Every open connection is accounted for: installed, made by the running  *)
(* Init and already in the maps that it builds, or replaced and waiting to *)
(* be closed.                                                              *)
LeakInv ==
    /\ phase \in {"idle", "snapshot"} => open = Installed
    /\ phase \in Building =>
         /\ open = Installed \union created["univ2"] \union created["univ3"]
         /\ \A f \in Family : created[f] \subseteq Held(built[f])
    /\ phase = "univ2" => created["univ3"] = {}
    /\ phase = "close" =>
         /\ open = Installed \union retired["univ2"] \union retired["univ3"]
         /\ retired["univ2"] \cap retired["univ3"] = {}

LEMMA InitLeak == Init => LeakInv
<1>. SUFFICES ASSUME Init PROVE LeakInv
  OBVIOUS
<1>1. \A f \in Family : Held(clients[f]) = {}
  BY DEF Init, NoMaps, NoClients, Held
<1>2. Installed = {} /\ open = {} /\ phase = "idle"
  BY <1>1 DEF Installed, Init
<1>. QED BY <1>2 DEF LeakInv, Building

(* What Install keeps: an entry that is no duplicate takes no client's     *)
(* place, so the map holds what it held and the new client.                *)
LEMMA InstallKeeps ==
    ASSUME TypeOK, NEW f \in Family, NEW e \in Entry, NEW c \in ClientId,
           ~Duplicate(f, e), Install(f, e, c)
    PROVE  /\ \A g \in Family : Held(built[g]) \subseteq Held(built[g])'
           /\ c \in Held(built[f])'
<1>1. built \in Maps /\ e.name \in Key /\ e.id \in Key /\ c # Nil
  BY NilAssumption DEF TypeOK, Entry
<1>. DEFINE b == [built[f] EXCEPT ![e.name] = c, ![e.id] = c]
<1>2. built' = [built EXCEPT ![f] = b]
  BY DEF Install
<1>3. \A k \in Key : b[k] = IF k \in {e.name, e.id} THEN c ELSE built[f][k]
  BY <1>1 DEF Maps
<1>4. \A k \in Key : k \in {e.name, e.id} => built[f][k] = Nil
  BY DEF Duplicate
<1>. HIDE DEF b
<1>5. built'[f] = b /\ \A g \in Family : g # f => built'[g] = built[g]
  BY <1>1, <1>2 DEF Maps
<1>6. ASSUME NEW g \in Family, NEW x \in Held(built[g]) PROVE x \in Held(built[g])'
  <2>1. PICK k \in Key : x = built[g][k] /\ x # Nil
    BY DEF Held
  <2>2. built'[g][k] = x
    BY <1>3, <1>4, <1>5, <2>1
  <2>. QED BY <2>1, <2>2 DEF Held
<1>7. built'[f][e.name] = c
  BY <1>1, <1>3, <1>5
<1>8. c \in Held(built[f])'
  BY <1>1, <1>7 DEF Held
<1>. QED BY <1>6, <1>8

(* Steps that leave the connections and the progress of Init alone.        *)
LEMMA SameLeak ==
    ASSUME LeakInv, clients' = clients, open' = open, phase' = phase,
           built' = built, created' = created, retired' = retired
    PROVE  LeakInv'
BY DEF LeakInv, Installed, Held, Building

(* Every step of callers and of Init accounts for the connections.         *)
LEMMA StepLeak == TypeOK /\ ConnInv /\ LeakInv /\ [Next]_vars => LeakInv'
<1>. SUFFICES ASSUME TypeOK, ConnInv, LeakInv, [Next]_vars PROVE LeakInv'
  OBVIOUS
<1>. USE DEF registry, conns, caller, local
<1>1. ASSUME NEW t \in Callers, CallerStep(t) PROVE LeakInv'
  BY <1>1, SameLeak
     DEF CallerStep, Acquire, Release, ReadPointer, LazyMiss, LazyAskLock, LazyCreate, vars
<1>2. ASSUME NEW c \in Configs, InitStart(c) PROVE LeakInv'
  BY <1>2 DEF InitStart, LeakInv, Building, Installed, Held
<1>3. ASSUME InitSnapshot PROVE LeakInv'
  <2>1. /\ phase = "snapshot" /\ phase' = "univ2" /\ clients' = clients /\ open' = open
        /\ \A f \in Family : created'[f] = {}
    BY <1>3 DEF InitSnapshot, NoSets
  <2>2. Installed' = Installed
    BY <2>1 DEF Installed, Held
  <2>. QED BY <2>1, <2>2 DEF LeakInv, Building, Family
<1>4. ASSUME NEW f \in Family, phase = f \/ (phase = "bridgers" /\ f = "univ3"), InitFail(f)
      PROVE  LeakInv'
  <2>1. phase \in Building /\ phase' = "idle" /\ clients' = clients
    BY <1>4 DEF InitFail, Building, Family
  <2>2. Installed' = Installed
    BY <2>1 DEF Installed, Held
  <2>3. open = Installed \union created["univ2"] \union created["univ3"]
    BY <2>1 DEF LeakInv
  <2>4. CloseOnFail(f) = created["univ2"] \union created["univ3"]
    BY <1>4 DEF CloseOnFail, LeakInv, Family
  <2>5. (created["univ2"] \union created["univ3"]) \cap Installed = {}
    BY <2>1 DEF ConnInv, BuildOwns, Family
  <2>6. open' = Installed
    BY <1>4, <2>3, <2>4, <2>5 DEF InitFail
  <2>. QED BY <2>1, <2>2, <2>6 DEF LeakInv, Building
<1>5. ASSUME NEW f \in Family, BuildReject(f) PROVE LeakInv'
  BY <1>4, <1>5 DEF BuildReject
<1>6. ASSUME BridgersFail PROVE LeakInv'
  BY <1>4, <1>6 DEF BridgersFail, Family
<1>7. ASSUME NEW f \in Family, BuildReuse(f) PROVE LeakInv'
  <2>. DEFINE e == cfg[f][idx]
              c == snap[f][e.name]
  <2>1. e \in Entry
    BY <1>7, EntryType DEF BuildReuse, TypeOK
  <2>2. Reusable(f, e) /\ ~Duplicate(f, e) /\ Install(f, e, c)
    BY <1>7 DEF BuildReuse
  <2>3. c \in ClientId
    BY <2>1, <2>2 DEF Reusable, TypeOK, Maps, Client, Entry
  <2>4. \A g \in Family : Held(built[g]) \subseteq Held(built[g])'
    BY <2>1, <2>2, <2>3, InstallKeeps
  <2>5. /\ phase \in Building /\ phase' = phase /\ created' = created
        /\ open' = open /\ clients' = clients
    BY <1>7, <2>2 DEF BuildReuse, Install, Building, Family
  <2>6. Installed' = Installed
    BY <2>5 DEF Installed, Held
  <2>. QED BY <2>4, <2>5, <2>6 DEF LeakInv, Building
<1>8. ASSUME NEW f \in Family, BuildCreate(f) PROVE LeakInv'
  <2>. DEFINE e == cfg[f][idx]
  <2>1. e \in Entry
    BY <1>8, EntryType DEF BuildCreate, TypeOK
  <2>2. Fresh \in ClientId
    BY <1>8, FreshType DEF BuildCreate
  <2>3. ~Duplicate(f, e) /\ Install(f, e, Fresh)
    BY <1>8 DEF BuildCreate
  <2>4. /\ \A g \in Family : Held(built[g]) \subseteq Held(built[g])'
        /\ Fresh \in Held(built[f])'
    BY <2>1, <2>2, <2>3, InstallKeeps
  <2>5. /\ phase = f /\ phase \in Building /\ phase' = phase /\ clients' = clients
        /\ open' = open \union {Fresh}
        /\ created' = [created EXCEPT ![f] = @ \union {Fresh}]
    BY <1>8, <2>3 DEF BuildCreate, Install, Building, Family
  <2>6. Installed' = Installed
    BY <2>5 DEF Installed, Held
  <2>7. \A g \in Family : created'[g] = IF g = f THEN created[g] \union {Fresh}
                                        ELSE created[g]
    BY <2>5 DEF TypeOK
  <2>8. open' = Installed' \union created'["univ2"] \union created'["univ3"]
    BY <2>5, <2>6, <2>7 DEF LeakInv, Family
  <2>9. \A g \in Family : created'[g] \subseteq Held(built[g])'
    BY <2>4, <2>5, <2>7 DEF LeakInv
  <2>10. phase' = "univ2" => created'["univ3"] = {}
    BY <2>5, <2>7 DEF LeakInv, Family
  <2>. QED BY <2>5, <2>8, <2>9, <2>10 DEF LeakInv, Building
<1>9. ASSUME NEW f \in Family, BuildDone(f) PROVE LeakInv'
  BY <1>9 DEF BuildDone, LeakInv, Building, Installed, Held, Family
<1>10. ASSUME BridgersOk \/ InitAskLock PROVE LeakInv'
  BY <1>10 DEF BridgersOk, InitAskLock, LeakInv, Building, Installed, Held
<1>11. ASSUME InitSwap PROVE LeakInv'
  <2>1. /\ phase = "swap" /\ phase' = "close" /\ clients' = built /\ open' = open
        /\ retired' = [f \in Family |-> Retired(f)]
    BY <1>11 DEF InitSwap
  <2>2. /\ \A f \in Family : /\ created[f] \subseteq Held(built[f])
                             /\ Held(built[f]) \subseteq Held(clients[f]) \union created[f]
        /\ open = Installed \union created["univ2"] \union created["univ3"]
        /\ Held(clients["univ2"]) \cap Held(clients["univ3"]) = {}
    BY <2>1 DEF LeakInv, ConnInv, BuildOwns, OneFamily, Building
  <2>3. /\ Installed = Held(clients["univ2"]) \union Held(clients["univ3"])
        /\ Installed' = Held(built["univ2"]) \union Held(built["univ3"])
    BY <2>1 DEF Installed, Family, Held
  <2>4. \A f \in Family : retired'[f] = Held(clients[f]) \ Held(built[f])
    BY <2>1 DEF Retired
  <2>5. open' = Installed' \union retired'["univ2"] \union retired'["univ3"]
    BY <2>1, <2>2, <2>3, <2>4 DEF Family
  <2>6. retired'["univ2"] \cap retired'["univ3"] = {}
    BY <2>2, <2>4 DEF Family
  <2>. QED BY <2>1, <2>5, <2>6 DEF LeakInv, Building
<1>12. ASSUME NEW f \in Family, NEW c \in ClientId, CloseRetired(f, c) PROVE LeakInv'
  <2>1. /\ phase = "close" /\ phase' = "close" /\ clients' = clients /\ open' = open \ {c}
        /\ c \in retired[f] /\ retired' = [retired EXCEPT ![f] = @ \ {c}]
    BY <1>12 DEF CloseRetired
  <2>2. Installed' = Installed /\ c \notin Installed
    BY <2>1 DEF Installed, Held, ConnInv, RetiredAreLoose
  <2>3. \A g \in Family : retired'[g] = IF g = f THEN retired[g] \ {c} ELSE retired[g]
    BY <2>1 DEF TypeOK
  <2>4. /\ open = Installed \union retired["univ2"] \union retired["univ3"]
        /\ retired["univ2"] \cap retired["univ3"] = {}
    BY <2>1 DEF LeakInv
  <2>5. /\ open' = Installed' \union retired'["univ2"] \union retired'["univ3"]
        /\ retired'["univ2"] \cap retired'["univ3"] = {}
    <3>1. CASE f = "univ2"
      BY <2>1, <2>2, <2>3, <2>4, <3>1 DEF Family
    <3>2. CASE f = "univ3"
      BY <2>1, <2>2, <2>3, <2>4, <3>2 DEF Family
    <3>. QED BY <3>1, <3>2 DEF Family
  <2>. QED BY <2>1, <2>5 DEF LeakInv, Building
<1>13. ASSUME InitReturn PROVE LeakInv'
  <2>1. /\ phase = "close" /\ phase' = "idle" /\ clients' = clients /\ open' = open
        /\ retired["univ2"] = {} /\ retired["univ3"] = {}
    BY <1>13 DEF InitReturn, NoSets, Family
  <2>2. Installed' = Installed
    BY <2>1 DEF Installed, Held
  <2>. QED BY <2>1, <2>2 DEF LeakInv, Building
<1>14. ASSUME UNCHANGED vars PROVE LeakInv'
  BY <1>14, SameLeak DEF vars
<1>. QED
  BY <1>1, <1>2, <1>3, <1>5, <1>6, <1>7, <1>8, <1>9, <1>10, <1>11, <1>12, <1>13, <1>14
     DEF Next, InitStep

(* Between two Inits exactly the installed clients are open, whether the   *)
(* last Init succeeded or failed at whichever entry, and what a successful *)
(* one closes is open until it closes it.                                  *)
THEOREM NoneLeaked == Spec => []NoLeak
<1>1. Init => LeakInv
  BY InitLeak
<1>2. TypeOK /\ ConnInv /\ LeakInv /\ [Next]_vars => LeakInv'
  BY StepLeak
<1>3. LeakInv => NoLeak
  BY DEF LeakInv, NoLeak, Family
<1>. QED BY <1>1, <1>2, <1>3, TypeCorrect, Connections, PTL DEF Spec

-----------------------------------------------------------------------------
(* A map has exactly the chains of the first n entries of a list, under    *)
(* both keys, each with a client made from that entry.                     *)
Matches(m, es, n, made) ==
    /\ \A k \in Key : m[k] # Nil <=> \E i \in 1..n : k \in {es[i].name, es[i].id}
    /\ \A i \in 1..n : m[es[i].name] = m[es[i].id] /\ made[m[es[i].name]] = es[i]

(* How many entries of a family the running Init has been through.         *)
Through(f) ==
    IF phase = f THEN idx - 1
    ELSE IF phase = "univ2" THEN 0 ELSE Len(cfg[f])

(* The registry matches the last configuration, and the maps Init builds   *)
(* match the entries of its own that it has been through.                  *)
RegistryInv ==
    /\ \A f \in Family : Matches(clients[f], active[f], Len(active[f]), cfgOf)
    /\ phase \in Building => \A f \in Family : Matches(built[f], cfg[f], Through(f), cfgOf)
    /\ \A f \in Family : phase = f => idx <= Len(cfg[f]) + 1

LEMMA NothingMatches ==
    ASSUME NEW es, NEW made PROVE Matches(NoClients, es, 0, made)
BY DEF Matches, NoClients

LEMMA InitRegistry == Init => RegistryInv
<1>. SUFFICES ASSUME Init PROVE RegistryInv
  OBVIOUS
<1>1. \A f \in Family : clients[f] = NoClients
  BY DEF Init, NoMaps
<1>2. active["univ2"] = << >> /\ active["univ3"] = << >>
  BY DEF Init, Unconfigured
<1>3. \A f \in Family : Len(active[f]) = 0
  BY <1>2 DEF Family
<1>4. phase = "idle"
  BY DEF Init
<1>5. \A f \in Family : Matches(clients[f], active[f], Len(active[f]), cfgOf)
  BY <1>1, <1>3, NothingMatches
<1>. QED BY <1>4, <1>5 DEF RegistryInv, Building, Family

(* Steps that leave the maps, the configurations and the progress alone.   *)
LEMMA SameRegistry ==
    ASSUME RegistryInv, clients' = clients, active' = active, phase' = phase,
           built' = built, cfg' = cfg, idx' = idx, cfgOf' = cfgOf
    PROVE  RegistryInv'
BY DEF RegistryInv, Matches, Through, Building

(* A client that gets its configuration now was in no map before.          *)
LEMMA MatchesKept ==
    ASSUME NEW m \in [Key -> Client], NEW es, NEW n \in Nat, NEW made, NEW next,
           Matches(m, es, n, made), \A i \in 1..n : es[i] \in Entry,
           \A c \in ClientId : made[c] # Nil => next[c] = made[c]
    PROVE  Matches(m, es, n, next)
<1>1. ASSUME NEW i \in 1..n PROVE next[m[es[i].name]] = made[m[es[i].name]]
  <2>1. es[i] \in Entry /\ es[i].name \in Key
    BY DEF Entry
  <2>2. m[es[i].name] # Nil /\ m[es[i].name] \in ClientId
    BY <2>1 DEF Matches, Client
  <2>3. made[m[es[i].name]] # Nil
    BY <2>1, NilAssumption DEF Matches
  <2>. QED BY <2>2, <2>3
<1>. QED BY <1>1 DEF Matches

(* One entry more, which is no duplicate.                                  *)
LEMMA MatchesOneMore ==
    ASSUME NEW m \in [Key -> Client], NEW es, NEW n \in Nat, NEW made,
           Matches(m, es, n, made),
           \A i \in 1..n + 1 : es[i] \in Entry,
           NEW c \in ClientId, made[c] = es[n + 1],
           m[es[n + 1].name] = Nil, m[es[n + 1].id] = Nil
    PROVE  Matches([m EXCEPT ![es[n + 1].name] = c, ![es[n + 1].id] = c], es, n + 1, made)
<1>. DEFINE e == es[n + 1]
            b == [m EXCEPT ![e.name] = c, ![e.id] = c]
<1>1. e \in Entry /\ e.name \in Key /\ e.id \in Key /\ c # Nil
  BY NilAssumption DEF Entry
<1>2. \A k \in Key : b[k] = IF k \in {e.name, e.id} THEN c ELSE m[k]
  BY <1>1
<1>3. \A i \in 1..n : es[i].name \in Key /\ es[i].id \in Key
  BY DEF Entry
<1>. HIDE DEF b
<1>4. \A i \in 1..n : m[es[i].name] # Nil /\ m[es[i].id] # Nil
  BY <1>3 DEF Matches
<1>5. \A k \in Key : b[k] # Nil <=> \E i \in 1..n + 1 : k \in {es[i].name, es[i].id}
  <2>1. ASSUME NEW k \in Key, b[k] # Nil
        PROVE  \E i \in 1..n + 1 : k \in {es[i].name, es[i].id}
    <3>1. CASE k \in {e.name, e.id}
      BY <3>1
    <3>2. CASE k \notin {e.name, e.id}
      <4>1. m[k] # Nil
        BY <1>2, <2>1, <3>2
      <4>2. PICK i \in 1..n : k \in {es[i].name, es[i].id}
        BY <4>1 DEF Matches
      <4>3. i \in 1..n + 1
        BY <4>2
      <4>. QED BY <4>2, <4>3
    <3>. QED BY <3>1, <3>2
  <2>2. ASSUME NEW k \in Key, NEW i \in 1..n + 1, k \in {es[i].name, es[i].id}
        PROVE  b[k] # Nil
    <3>1. CASE i = n + 1
      BY <1>1, <1>2, <2>2, <3>1
    <3>2. CASE i # n + 1
      <4>1. i \in 1..n
        BY <3>2
      <4>2. m[k] # Nil
        BY <4>1, <2>2 DEF Matches
      <4>. QED BY <1>1, <1>2, <4>2
    <3>. QED BY <3>1, <3>2
  <2>. QED BY <2>1, <2>2
<1>6. ASSUME NEW i \in 1..n + 1
      PROVE  b[es[i].name] = b[es[i].id] /\ made[b[es[i].name]] = es[i]
  <2>1. CASE i = n + 1
    BY <1>1, <1>2, <2>1
  <2>2. CASE i # n + 1
    <3>1. i \in 1..n
      BY <2>2
    <3>2. b[es[i].name] = m[es[i].name] /\ b[es[i].id] = m[es[i].id]
      BY <1>2, <1>3, <1>4, <3>1
    <3>. QED BY <3>1, <3>2 DEF Matches
  <2>. QED BY <2>1, <2>2
<1>7. Matches(b, es, n + 1, made)
  BY <1>5, <1>6 DEF Matches
<1>. QED BY <1>7 DEF b

(* An iteration that takes a client made from the entry it is about.       *)
LEMMA InstallRegistry ==
    ASSUME TypeOK, RegistryInv, NEW f \in Family, phase = f, idx <= Len(cfg[f]),
           NEW c \in ClientId, ~Duplicate(f, cfg[f][idx]),
           Install(f, cfg[f][idx], c), cfgOf'[c] = cfg[f][idx],
           \A x \in ClientId : cfgOf[x] # Nil => cfgOf'[x] = cfgOf[x]
    PROVE  RegistryInv'
<1>. DEFINE e == cfg[f][idx]
<1>1. /\ phase' = phase /\ idx' = idx + 1 /\ cfg' = cfg
      /\ clients' = clients /\ active' = active
      /\ built' = [built EXCEPT ![f] = [@ EXCEPT ![e.name] = c, ![e.id] = c]]
  BY DEF Install, registry
<1>2. \A g \in Family : /\ clients[g] \in [Key -> Client] /\ built[g] \in [Key -> Client]
                        /\ Len(active[g]) \in Nat /\ Len(cfg[g]) \in Nat
                        /\ \A i \in 1..Len(active[g]) : active[g][i] \in Entry
                        /\ \A i \in 1..Len(cfg[g]) : cfg[g][i] \in Entry
  BY EntryType DEF TypeOK, Maps
<1>3. \A g \in Family : Matches(clients[g], active[g], Len(active[g]), cfgOf')
  BY <1>2, MatchesKept DEF RegistryInv
<1>4. idx \in Nat \ {0} /\ phase \in Building
  BY DEF TypeOK, Building, Family
<1>5. \A g \in Family : Through(g) \in Nat /\ Through(g) <= Len(cfg[g])
  BY <1>2, <1>4 DEF Through, Family
<1>6. \A g \in Family : Matches(built[g], cfg[g], Through(g), cfgOf')
  <2>1. ASSUME NEW g \in Family PROVE \A i \in 1..Through(g) : cfg[g][i] \in Entry
    BY <1>2, <1>5
  <2>. QED BY <1>2, <1>4, <1>5, <2>1, MatchesKept DEF RegistryInv
<1>7. \A g \in Family : Matches(built'[g], cfg[g], Through(g)', cfgOf')
  <2>1. ASSUME NEW g \in Family, g # f
        PROVE  Matches(built'[g], cfg[g], Through(g)', cfgOf')
    <3>1. built'[g] = built[g] /\ Through(g)' = Through(g)
      BY <1>1, <2>1 DEF Through, TypeOK, Maps
    <3>. QED BY <1>6, <3>1
  <2>2. Matches(built'[f], cfg[f], Through(f)', cfgOf')
    <3>1. Through(f) = idx - 1 /\ Through(f)' = idx /\ Through(f) + 1 = idx
      BY <1>1, <1>4 DEF Through
    <3>2. built'[f] = [built[f] EXCEPT ![e.name] = c, ![e.id] = c]
      BY <1>1 DEF TypeOK, Maps
    <3>3. built[f][e.name] = Nil /\ built[f][e.id] = Nil
      BY DEF Duplicate
    <3>4. \A i \in 1..Through(f) + 1 : cfg[f][i] \in Entry
      BY <1>2, <1>4, <3>1
    <3>5. Matches([built[f] EXCEPT ![cfg[f][Through(f) + 1].name] = c,
                                   ![cfg[f][Through(f) + 1].id] = c],
                  cfg[f], Through(f) + 1, cfgOf')
      BY <1>2, <1>5, <1>6, <3>1, <3>3, <3>4, MatchesOneMore
    <3>. QED BY <3>1, <3>2, <3>5
  <2>. QED BY <2>1, <2>2
<1>8. \A g \in Family : phase' = g => idx' <= Len(cfg'[g]) + 1
  BY <1>1, <1>2, <1>4
<1>. QED BY <1>1, <1>3, <1>7, <1>8 DEF RegistryInv

(* The end of an Init, or its start: nothing is being built.               *)
LEMMA IdleRegistry ==
    ASSUME RegistryInv, clients' = clients, active' = active, cfgOf' = cfgOf,
           phase' \in {"idle", "snapshot", "close"}
    PROVE  RegistryInv'
BY DEF RegistryInv, Building, Family

LEMMA StepRegistry == TypeOK /\ ConnInv /\ RegistryInv /\ [Next]_vars => RegistryInv'
<1>. SUFFICES ASSUME TypeOK, ConnInv, RegistryInv, [Next]_vars PROVE RegistryInv'
  OBVIOUS
<1>. USE DEF registry, conns, caller, local
<1>1. ASSUME NEW t \in Callers, CallerStep(t) PROVE RegistryInv'
  BY <1>1, SameRegistry
     DEF CallerStep, Acquire, Release, ReadPointer, LazyMiss, LazyAskLock, LazyCreate, vars
<1>2. ASSUME NEW c \in Configs, InitStart(c) PROVE RegistryInv'
  BY <1>2, IdleRegistry DEF InitStart
<1>3. ASSUME InitSnapshot PROVE RegistryInv'
  <2>1. /\ phase' = "univ2" /\ idx' = 1 /\ cfg' = cfg /\ cfgOf' = cfgOf
        /\ clients' = clients /\ active' = active
        /\ \A f \in Family : built'[f] = NoClients
    BY <1>3 DEF InitSnapshot, NoMaps
  <2>2. \A f \in Family : Through(f)' = 0 /\ Len(cfg[f]) \in Nat
    BY <2>1, EntryType DEF Through, TypeOK
  <2>3. \A f \in Family : Matches(built'[f], cfg[f], Through(f)', cfgOf)
    BY <2>1, <2>2, NothingMatches
  <2>4. \A f \in Family : phase' = f => idx' <= Len(cfg'[f]) + 1
    BY <2>1, <2>2
  <2>. QED BY <2>1, <2>3, <2>4 DEF RegistryInv
<1>4. ASSUME NEW f \in Family, BuildReject(f) PROVE RegistryInv'
  BY <1>4, IdleRegistry DEF BuildReject, InitFail
<1>5. ASSUME BridgersFail PROVE RegistryInv'
  BY <1>5, IdleRegistry DEF BridgersFail, InitFail
<1>6. ASSUME NEW f \in Family, BuildReuse(f) PROVE RegistryInv'
  <2>. DEFINE e == cfg[f][idx]
              c == snap[f][e.name]
  <2>1. e \in Entry
    BY <1>6, EntryType DEF BuildReuse, TypeOK
  <2>2. Reusable(f, e) /\ ~Duplicate(f, e) /\ Install(f, e, c) /\ cfgOf' = cfgOf
        /\ phase = f /\ idx <= Len(cfg[f])
    BY <1>6 DEF BuildReuse
  <2>3. c \in ClientId /\ cfgOf[c] = e
    BY <2>1, <2>2 DEF Reusable, TypeOK, Maps, Client, Entry
  <2>. QED BY <2>2, <2>3, InstallRegistry
<1>7. ASSUME NEW f \in Family, BuildCreate(f) PROVE RegistryInv'
  <2>. DEFINE e == cfg[f][idx]
  <2>1. Fresh \in ClientId /\ cfgOf[Fresh] = Nil
    BY <1>7, FreshType DEF BuildCreate
  <2>2. ~Duplicate(f, e) /\ Install(f, e, Fresh) /\ cfgOf' = [cfgOf EXCEPT ![Fresh] = e]
        /\ phase = f /\ idx <= Len(cfg[f])
    BY <1>7 DEF BuildCreate
  <2>3. cfgOf'[Fresh] = e /\ \A x \in ClientId : cfgOf[x] # Nil => cfgOf'[x] = cfgOf[x]
    BY <2>1, <2>2 DEF TypeOK
  <2>. QED BY <2>1, <2>2, <2>3, InstallRegistry
<1>8. ASSUME NEW f \in Family, BuildDone(f) PROVE RegistryInv'
  <2>1. /\ phase = f /\ idx > Len(cfg[f]) /\ idx' = 1
        /\ phase' = IF f = "univ2" THEN "univ3" ELSE "bridgers"
        /\ cfg' = cfg /\ cfgOf' = cfgOf /\ clients' = clients /\ active' = active
        /\ built' = built
    BY <1>8 DEF BuildDone
  <2>2. \A g \in Family : Len(cfg[g]) \in Nat
    BY EntryType DEF TypeOK
  <2>3. idx <= Len(cfg[f]) + 1 /\ idx \in Nat
    BY <2>1 DEF RegistryInv, TypeOK
  <2>4. idx - 1 = Len(cfg[f])
    BY <2>1, <2>2, <2>3
  <2>5. \A g \in Family : Through(g)' = Through(g)
    <3>1. CASE f = "univ2"
      BY <2>1, <2>4, <3>1 DEF Through, Family
    <3>2. CASE f = "univ3"
      BY <2>1, <2>4, <3>2 DEF Through, Family
    <3>. QED BY <3>1, <3>2 DEF Family
  <2>6. phase \in Building /\ \A g \in Family : phase' = g => idx' <= Len(cfg'[g]) + 1
    BY <2>1, <2>2 DEF Building, Family
  <2>7. \A g \in Family : Matches(built'[g], cfg'[g], Through(g)', cfgOf')
    BY <2>1, <2>5, <2>6 DEF RegistryInv
  <2>8. \A g \in Family : Matches(clients'[g], active'[g], Len(active'[g]), cfgOf')
    BY <2>1 DEF RegistryInv
  <2>. QED BY <2>6, <2>7, <2>8 DEF RegistryInv
<1>9. ASSUME BridgersOk \/ InitAskLock PROVE RegistryInv'
  <2>1. /\ phase \in {"bridgers", "lock"} /\ phase' \in {"lock", "swap"}
        /\ cfg' = cfg /\ idx' = idx /\ cfgOf' = cfgOf /\ clients' = clients
        /\ active' = active /\ built' = built
    BY <1>9 DEF BridgersOk, InitAskLock
  <2>2. \A g \in Family : Through(g)' = Through(g)
    BY <2>1 DEF Through, Family
  <2>3. \A g \in Family : Matches(built'[g], cfg'[g], Through(g)', cfgOf')
    BY <2>1, <2>2 DEF RegistryInv, Building
  <2>4. \A g \in Family : Matches(clients'[g], active'[g], Len(active'[g]), cfgOf')
    BY <2>1 DEF RegistryInv
  <2>. QED BY <2>1, <2>3, <2>4 DEF RegistryInv, Family
<1>10. ASSUME InitSwap PROVE RegistryInv'
  <2>1. /\ phase = "swap" /\ phase' = "close" /\ cfgOf' = cfgOf
        /\ clients' = built /\ active' = cfg
    BY <1>10 DEF InitSwap
  <2>2. \A f \in Family : Through(f) = Len(cfg[f])
    BY <2>1 DEF Through, Family
  <2>3. \A f \in Family : Matches(clients'[f], active'[f], Len(active'[f]), cfgOf')
    BY <2>1, <2>2 DEF RegistryInv, Building
  <2>. QED BY <2>1, <2>3 DEF RegistryInv, Building, Family
<1>11. ASSUME NEW f \in Family, NEW c \in ClientId, CloseRetired(f, c)
       PROVE  RegistryInv'
  BY <1>11, IdleRegistry DEF CloseRetired
<1>12. ASSUME InitReturn PROVE RegistryInv'
  BY <1>12, IdleRegistry DEF InitReturn
<1>13. ASSUME UNCHANGED vars PROVE RegistryInv'
  BY <1>13, SameRegistry DEF vars
<1>. QED
  BY <1>1, <1>2, <1>3, <1>4, <1>5, <1>6, <1>7, <1>8, <1>9, <1>10, <1>11, <1>12, <1>13
     DEF Next, InitStep

(* The registry is that of the last Init that succeeded, whole: the chains *)
(* of its configuration under both keys, each with a client of exactly     *)
(* those settings, whether newUniv2Clients and newUniv3Clients made it for *)
(* this Init or kept it from an earlier one.                               *)
THEOREM RegistryKept == Spec => []RegistryMatchesConfig
<1>1. Init => RegistryInv
  BY InitRegistry
<1>2. TypeOK /\ ConnInv /\ RegistryInv /\ [Next]_vars => RegistryInv'
  BY StepRegistry
<1>3. TypeOK /\ RegistryInv => RegistryMatchesConfig
  <2>. SUFFICES ASSUME TypeOK, RegistryInv, NEW f \in Family
                PROVE  LET es == {active[f][i] : i \in 1..Len(active[f])}
                       IN /\ \A k \in Key :
                               clients[f][k] # Nil <=> \E e \in es : k \in {e.name, e.id}
                          /\ \A e \in es : /\ clients[f][e.name] = clients[f][e.id]
                                           /\ cfgOf[clients[f][e.name]] = e
    BY DEF RegistryMatchesConfig
  <2>1. Matches(clients[f], active[f], Len(active[f]), cfgOf)
    BY DEF RegistryInv
  <2>. QED BY <2>1 DEF Matches
<1>. QED BY <1>1, <1>2, <1>3, TypeCorrect, Connections, PTL DEF Spec

-----------------------------------------------------------------------------
(* The engine and the trades.                                              *)

(* The quotient, rounded down.                                             *)
LEMMA DivIs ==
    ASSUME NEW a \in Nat, NEW n \in Nat \ {0}
    PROVE  a \div n \in Nat /\ n * (a \div n) <= a /\ a < n * (a \div n) + n
OBVIOUS

(* First the smaller of one key, then the greater of another, then the     *)
(* smaller of a third, then what was asked first.                          *)
ByKeys(S, U, K, C, R) ==
    \A i, j \in S : <<i, j>> \in R <=>
        \/ U[i] < U[j]
        \/ U[i] = U[j] /\ K[i] > K[j]
        \/ U[i] = U[j] /\ K[i] = K[j] /\ C[i] < C[j]
        \/ U[i] = U[j] /\ K[i] = K[j] /\ C[i] = C[j] /\ i < j

LEMMA Lexicographic ==
    ASSUME NEW S, S \subseteq Nat,
           NEW U \in [S -> Nat], NEW K \in [S -> Int], NEW C \in [S -> Nat],
           NEW R, ByKeys(S, U, K, C, R)
    PROVE  StrictOrder(S, R)
<1>. USE DEF ByKeys
<1>1. ASSUME NEW i \in S PROVE <<i, i>> \notin R
  <2>1. i \in Nat OBVIOUS
  <2> QED BY <2>1
<1>2. ASSUME NEW i \in S, NEW j \in S, i # j PROVE <<i, j>> \in R \/ <<j, i>> \in R
  <2>1. i \in Nat /\ j \in Nat OBVIOUS
  <2> QED BY <1>2, <2>1
<1>3. ASSUME NEW i \in S, NEW j \in S, NEW k \in S, <<i, j>> \in R, <<j, k>> \in R
      PROVE  <<i, k>> \in R
  <2>1. i \in Nat /\ j \in Nat /\ k \in Nat OBVIOUS
  <2>2. U[i] \in Nat /\ U[j] \in Nat /\ U[k] \in Nat OBVIOUS
  <2>3. K[i] \in Int /\ K[j] \in Int /\ K[k] \in Int OBVIOUS
  <2>4. C[i] \in Nat /\ C[j] \in Nat /\ C[k] \in Nat OBVIOUS
  <2> QED BY <1>3, <2>1, <2>2, <2>3, <2>4
<1> QED BY <1>1, <1>2, <1>3 DEF StrictOrder

-----------------------------------------------------------------------------
(* The engine.                                                             *)

AnswerTypes(r) ==
    /\ r.usd \in Nat /\ r.impact \in Int /\ r.high \in BOOLEAN
    /\ r.kind \in Errors \union {"nil", "empty", "route", "pending"}
    /\ r.kind = "pending" => r = Pending

EngineTypes ==
    /\ cands \in Seq(Candidate)
    /\ results \in [DOMAIN cands -> Answer \union {Pending}]
    /\ expired \in BOOLEAN

LEMMA AnswerIs == \A r \in Answer \union {Pending} : AnswerTypes(r)
<1> SUFFICES ASSUME NEW r \in Answer \union {Pending} PROVE AnswerTypes(r) OBVIOUS
<1>1. CASE r = Pending BY <1>1 DEF AnswerTypes, Pending, Bare
<1>2. CASE \E k \in Errors \union {"nil", "empty"} : r = Bare(k)
  <2>1. PICK k \in Errors \union {"nil", "empty"} : r = Bare(k) BY <1>2
  <2> QED BY <2>1 DEF AnswerTypes, Bare, Errors
<1>3. CASE r \in [kind: {"route"}, usd: Nat, impact: Int, high: BOOLEAN]
  BY <1>3 DEF AnswerTypes
<1> QED BY <1>1, <1>2, <1>3 DEF Answer

LEMMA CandIs ==
    ASSUME EngineTypes, NEW i \in DOMAIN cands
    PROVE  /\ cands[i].cross \in BOOLEAN /\ cands[i].liq \in Nat /\ cands[i].scam \in BOOLEAN
           /\ AnswerTypes(results[i])
           /\ i \in Nat
<1>1. cands[i] \in Candidate BY DEF EngineTypes
<1>2. results[i] \in Answer \union {Pending} BY DEF EngineTypes
<1> QED BY <1>1, <1>2, AnswerIs DEF Candidate, EngineTypes

(* A percentage of an amount in units of a thousandth is not rounded, be   *)
(* it more than the whole or less than nothing.                            *)
LEMMA WholePercent ==
    ASSUME NEW u \in Nat, NEW z \in Int
    PROVE  u * z \in Int /\ ((u * 1000) * z) \div 100 = 10 * (u * z)
<1>1. PICK t : t = u * z OBVIOUS
<1>2. t \in Int BY <1>1
<1>3. (u * 1000) * z = 1000 * t BY <1>1
<1>4. (1000 * t) \div 100 = 10 * t BY <1>2
<1> QED BY <1>1, <1>2, <1>3, <1>4

LEMMA KeyIsInt ==
    ASSUME EngineTypes, NEW i \in DOMAIN cands
    PROVE  /\ Gross(results[i]) \in Nat
           /\ ExpectedFill(cands[i], results[i]) \in Int
           /\ SortKey(cands[i], results[i]) \in Int
           /\ Unsafe(cands[i], results[i]) \in BOOLEAN
<1> DEFINE r == results[i]
           c == cands[i]
<1>1. r.usd \in Nat /\ r.impact \in Int /\ r.high \in BOOLEAN /\ c.liq \in Nat
  BY CandIs DEF AnswerTypes
<1>2. Gross(r) \in Nat BY <1>1 DEF Gross, Scale
<1>3. ExpectedFill(c, r) \in Int
  <2>1. CASE r.impact > 0
    <3>1. PICK u, z : u = r.usd /\ z = 100 - r.impact OBVIOUS
    <3>2. u \in Nat /\ z \in Int BY <1>1, <3>1
    <3>3. ((u * 1000) * z) \div 100 \in Int BY <3>2, WholePercent
    <3> QED BY <2>1, <3>1, <3>3 DEF ExpectedFill, Gross, Scale
  <2>2. CASE ~(r.impact > 0) /\ FromUsd > 0 /\ c.liq > 0
    <3>1. Gross(r) * c.liq \in Nat BY <1>1, <1>2, TimesNat
    <3>2. c.liq + FromUsd \in Nat \ {0} BY <1>1, <2>2, FromUsdAssumption
    <3>3. (Gross(r) * c.liq) \div (c.liq + FromUsd) \in Nat BY <3>1, <3>2, DivIs
    <3> QED BY <2>2, <3>3 DEF ExpectedFill
  <2>3. CASE ~(r.impact > 0) /\ ~(FromUsd > 0 /\ c.liq > 0)
    BY <2>3 DEF ExpectedFill
  <2> QED BY <2>1, <2>2, <2>3
<1>4. SortKey(c, r) \in Int BY <1>2, <1>3 DEF SortKey
<1>5. Unsafe(c, r) \in BOOLEAN BY <1>1 DEF Unsafe
<1> QED BY <1>2, <1>3, <1>4, <1>5

Routed     == {i \in DOMAIN cands : results[i].kind = "route"}
Unrouted   == {i \in DOMAIN cands : results[i].kind # "route"}

LEMMA DomainIs ==
    ASSUME EngineTypes
    PROVE  /\ DOMAIN cands \subseteq Nat /\ (cands = <<>> <=> DOMAIN cands = {})
           /\ IsFiniteSet(Routed) /\ IsFiniteSet(Unrouted)
<1>1. DOMAIN cands = 1 .. Len(cands) /\ Len(cands) \in Nat BY DEF EngineTypes
<1>2. IsFiniteSet(1 .. Len(cands)) BY <1>1, FS_Interval
<1>3. Routed \subseteq 1 .. Len(cands) /\ Unrouted \subseteq 1 .. Len(cands)
  BY <1>1 DEF Routed, Unrouted
<1>4. IsFiniteSet(Routed) /\ IsFiniteSet(Unrouted) BY <1>2, <1>3, FS_Subset
<1>5. cands = <<>> <=> DOMAIN cands = {} BY <1>1 DEF EngineTypes
<1> QED BY <1>1, <1>4, <1>5

LEMMA OrdersAreStrict ==
    ASSUME EngineTypes
    PROVE  StrictOrder(Routed, Before(cands, results)) /\ StrictOrder(Unrouted, Asked(cands))
<1>1. StrictOrder(Routed, Before(cands, results))
  <2> DEFINE S == Routed
             U == [i \in S |-> IF Unsafe(cands[i], results[i]) THEN 1 ELSE 0]
             K == [i \in S |-> SortKey(cands[i], results[i])]
             C == [i \in S |-> IF cands[i].cross THEN 1 ELSE 0]
             R == Before(cands, results)
  <2>1. S \subseteq DOMAIN cands /\ S \subseteq Nat BY DomainIs DEF Routed
  <2>2. /\ \A i \in S : Unsafe(cands[i], results[i]) \in BOOLEAN
        /\ \A i \in S : SortKey(cands[i], results[i]) \in Int
        /\ \A i \in S : cands[i].cross \in BOOLEAN
    BY <2>1, KeyIsInt, CandIs
  <2>3. U \in [S -> Nat] /\ K \in [S -> Int] /\ C \in [S -> Nat] BY <2>2
  <2>4. ASSUME NEW i \in S, NEW j \in S
        PROVE  <<i, j>> \in R <=>
                 \/ U[i] < U[j]
                 \/ U[i] = U[j] /\ K[i] > K[j]
                 \/ U[i] = U[j] /\ K[i] = K[j] /\ C[i] < C[j]
                 \/ U[i] = U[j] /\ K[i] = K[j] /\ C[i] = C[j] /\ i < j
    <3>1. <<i, j>> \in (DOMAIN cands) \X (DOMAIN cands) BY <2>1
    <3>2. <<i, j>> \in R <=>
            Less(cands, results, i, j) \/ (~Less(cands, results, j, i) /\ i < j)
      BY <3>1 DEF Before
    <3>3. /\ U[i] = IF Unsafe(cands[i], results[i]) THEN 1 ELSE 0
          /\ U[j] = IF Unsafe(cands[j], results[j]) THEN 1 ELSE 0
          /\ K[i] = SortKey(cands[i], results[i]) /\ K[j] = SortKey(cands[j], results[j])
          /\ C[i] = IF cands[i].cross THEN 1 ELSE 0
          /\ C[j] = IF cands[j].cross THEN 1 ELSE 0
      OBVIOUS
    <3> HIDE DEF U, K, C, R
    <3>4. K[i] \in Int /\ K[j] \in Int BY <2>3
    <3>5. Unsafe(cands[i], results[i]) # Unsafe(cands[j], results[j]) <=> U[i] # U[j]
      BY <2>2, <3>3
    <3>6. Less(cands, results, i, j) <=>
                 \/ U[i] < U[j]
                 \/ U[i] = U[j] /\ K[i] > K[j]
                 \/ U[i] = U[j] /\ K[i] = K[j] /\ C[i] < C[j]
      BY <2>2, <3>3, <3>4, <3>5 DEF Less
    <3>7. Less(cands, results, j, i) <=>
                 \/ U[j] < U[i]
                 \/ U[i] = U[j] /\ K[j] > K[i]
                 \/ U[i] = U[j] /\ K[i] = K[j] /\ C[j] < C[i]
      BY <2>2, <3>3, <3>4, <3>5 DEF Less
    <3>8. U[i] \in Nat /\ U[j] \in Nat /\ C[i] \in Nat /\ C[j] \in Nat BY <2>3
    <3> QED BY <3>2, <3>4, <3>6, <3>7, <3>8
  <2> HIDE DEF S, U, K, C, R
  <2>5. ByKeys(S, U, K, C, R) BY <2>4, Zenon DEF ByKeys
  <2>6. StrictOrder(S, R) BY <2>1, <2>3, <2>5, Lexicographic
  <2> QED BY <2>6 DEF S, R
<1>2. StrictOrder(Unrouted, Asked(cands))
  <2>1. Unrouted \subseteq DOMAIN cands /\ Unrouted \subseteq Nat BY DomainIs DEF Unrouted
  <2>2. \A i, j \in Unrouted : <<i, j>> \in Asked(cands) <=> i < j
    BY <2>1 DEF Asked
  <2>3. \A i, j, k \in Unrouted : i < j /\ j < k => i < k BY <2>1
  <2>4. \A i, j \in Unrouted : ~(i < i) /\ (i # j => i < j \/ j < i) BY <2>1
  <2> QED BY <2>2, <2>3, <2>4 DEF StrictOrder
<1> QED BY <1>1, <1>2
-----------------------------------------------------------------------------
(* The places of the ranking, and those of the failures.                   *)

Positions(f, S) ==
    /\ f \in [1 .. Cardinality(S) -> S] /\ Cardinality(S) \in Nat
    /\ \A i \in S : \E a \in 1 .. Cardinality(S) : f[a] = i

Without == InOrder(Unrouted, Asked(cands))

LEMMA PositionsOnce ==
    ASSUME EngineTypes
    PROVE  /\ Positions(Ranked(cands, results), Routed)
           /\ Positions(Without, Unrouted)
           /\ \A a, b \in 1 .. Cardinality(Routed) :
                a < b => <<Ranked(cands, results)[a], Ranked(cands, results)[b]>>
                           \in Before(cands, results)
           /\ \A a, b \in 1 .. Cardinality(Unrouted) : a < b => Without[a] # Without[b]
<1>1. IsFiniteSet(Routed) /\ IsFiniteSet(Unrouted) BY DomainIs
<1>2. StrictOrder(Routed, Before(cands, results)) /\ StrictOrder(Unrouted, Asked(cands))
  BY OrdersAreStrict
<1>3. Ranked(cands, results) = InOrder(Routed, Before(cands, results))
  BY DEF Ranked, Routed
<1>4. PICK R : R = Before(cands, results) OBVIOUS
<1>5. PICK S : S = Routed OBVIOUS
<1>6. Positions(InOrder(S, R), S) /\ \A a, b \in 1 .. Cardinality(S) :
                a < b => <<InOrder(S, R)[a], InOrder(S, R)[b]>> \in R
  BY <1>1, <1>2, <1>4, <1>5, InOrderIs DEF Positions
<1>7. PICK Q : Q = Asked(cands) OBVIOUS
<1>8. PICK T : T = Unrouted OBVIOUS
<1>9. Positions(InOrder(T, Q), T) /\ \A a, b \in 1 .. Cardinality(T) :
                a < b => <<InOrder(T, Q)[a], InOrder(T, Q)[b]>> \in Q
  BY <1>1, <1>2, <1>7, <1>8, InOrderIs DEF Positions
<1>10. \A a, b \in 1 .. Cardinality(T) : a < b => InOrder(T, Q)[a] # InOrder(T, Q)[b]
  <2>1. \A a \in 1 .. Cardinality(T) : InOrder(T, Q)[a] \in T BY <1>9 DEF Positions
  <2> QED BY <1>2, <1>7, <1>8, <1>9, <2>1 DEF StrictOrder
<1> QED BY <1>3, <1>4, <1>5, <1>6, <1>7, <1>8, <1>9, <1>10 DEF Without

LEMMA OnePlace ==
    ASSUME NEW S, NEW f, Positions(f, S), NEW i,
           \A a, b \in 1 .. Cardinality(S) : a < b => f[a] # f[b]
    PROVE  Cardinality({a \in DOMAIN f : f[a] = i}) = IF i \in S THEN 1 ELSE 0
<1>1. DOMAIN f = 1 .. Cardinality(S) BY DEF Positions
<1>2. CASE i \notin S
  <2>1. {a \in DOMAIN f : f[a] = i} = {} BY <1>1, <1>2 DEF Positions
  <2> QED BY <1>2, <2>1, FS_EmptySet
<1>3. CASE i \in S
  <2>1. PICK a \in 1 .. Cardinality(S) : f[a] = i BY <1>3 DEF Positions
  <2>2. \A b \in 1 .. Cardinality(S) : f[b] = i => b = a BY <2>1 DEF Positions
  <2>3. {b \in DOMAIN f : f[b] = i} = {a} BY <1>1, <2>1, <2>2
  <2> QED BY <1>3, <2>3, FS_Singleton
<1> QED BY <1>2, <1>3

-----------------------------------------------------------------------------
(* The response: what the engine told, in time or late.             *)

Codes == {FailureCode(results[Without[j]]) : j \in DOMAIN Without}

Told ==
    [routes |-> Ranked(cands, results),
     recommended |-> Recommended(cands, results, Ranked(cands, results)),
     failures |-> Failures(cands, results),
     reason |-> IF cands = <<>> THEN "NO_CANDIDATE"
                ELSE IF Ranked(cands, results) # <<>> THEN ""
                ELSE Reason(Codes, expired)]

EngineInv ==
    /\ EngineTypes
    /\ cands \in Requests
    /\ resp = NoResponse \/ (AllDone /\ resp = Told)

LEMMA FailuresAre ==
    ASSUME EngineTypes
    PROVE  /\ DOMAIN Failures(cands, results) = DOMAIN Without
           /\ \A j \in DOMAIN Without :
                /\ Failures(cands, results)[j].cand = Without[j]
                /\ Failures(cands, results)[j].code = FailureCode(results[Without[j]])
           /\ {Failures(cands, results)[j].code : j \in DOMAIN Failures(cands, results)} = Codes
<1>1. Failures(cands, results) =
        [j \in DOMAIN Without |->
           [cand |-> Without[j], code |-> FailureCode(results[Without[j]])]]
  BY DEF Failures, Without, Unrouted
<1>2. PICK W : W = Without OBVIOUS
<1>3. PICK F : F = Failures(cands, results) OBVIOUS
<1>4. F = [j \in DOMAIN W |-> [cand |-> W[j], code |-> FailureCode(results[W[j]])]]
  BY <1>1, <1>2, <1>3
<1>5. DOMAIN F = DOMAIN W /\ \A j \in DOMAIN W :
         F[j].cand = W[j] /\ F[j].code = FailureCode(results[W[j]])
  BY <1>4
<1>6. {F[j].code : j \in DOMAIN F} = {FailureCode(results[W[j]]) : j \in DOMAIN W}
  BY <1>5
<1> QED BY <1>2, <1>3, <1>5, <1>6 DEF Codes

LEMMA AggregateIsTold == EngineTypes => Aggregate = Told
<1> SUFFICES ASSUME EngineTypes PROVE Aggregate = Told OBVIOUS
<1>1. {Failures(cands, results)[j].code : j \in DOMAIN Failures(cands, results)} = Codes
  BY FailuresAre
<1> QED BY <1>1 DEF Aggregate, Told

LEMMA EngineStarts == EngineInit => EngineInv
<1> SUFFICES ASSUME EngineInit PROVE EngineInv OBVIOUS
<1>1. cands \in Seq(Candidate) BY RequestsAssumption DEF EngineInit
<1>2. results \in [DOMAIN cands -> Answer \union {Pending}] BY DEF EngineInit
<1> QED BY <1>1, <1>2 DEF EngineInv, EngineTypes, EngineInit

LEMMA EngineStep == EngineInv /\ EngineNext => EngineInv'
<1> SUFFICES ASSUME EngineInv, EngineNext PROVE EngineInv' OBVIOUS
<1>1. CASE \E i \in DOMAIN cands : Answers(i)
  <2>1. PICK i \in DOMAIN cands : Answers(i) BY <1>1
  <2>2. ~AllDone BY <2>1 DEF Answers, AllDone
  <2>3. resp = NoResponse BY <2>2 DEF EngineInv
  <2>4. results' \in [DOMAIN cands -> Answer \union {Pending}]
    <3>1. PICK r \in Offers : results' = [results EXCEPT ![i] = r] BY <2>1 DEF Answers
    <3> QED BY <3>1, OffersAssumption DEF EngineInv, EngineTypes
  <2> QED BY <2>1, <2>3, <2>4 DEF EngineInv, EngineTypes, Answers
<1>2. CASE Expire
  BY <1>2 DEF EngineInv, EngineTypes, Expire
<1>3. CASE Respond
  <2>1. resp' = Told BY <1>3, AggregateIsTold DEF Respond, EngineInv
  <2> QED BY <1>3, <2>1 DEF EngineInv, EngineTypes, Respond, AllDone, Told, Codes,
                            Without, Unrouted
<1> QED BY <1>1, <1>2, <1>3 DEF EngineNext

(* The engine's state is dropped.                                          *)
LEMMA EngineDropped ==
    (cands' = <<>> /\ results' = <<>> /\ expired' = FALSE /\ resp' = NoResponse) => EngineInv'
<1>1. <<>> \in Seq(Candidate) OBVIOUS
<1>2. \A S : <<>> \in [DOMAIN <<>> -> S] OBVIOUS
<1> QED BY <1>1, <1>2, EmptyAssumption DEF EngineInv, EngineTypes
-----------------------------------------------------------------------------
(* What a route is worth, and the key it is sorted by.                     *)

LEMMA DivUnique ==
    ASSUME NEW a \in Nat, NEW n \in Nat \ {0}, NEW q \in Nat, NEW m \in Nat,
           n * q <= a, a < n * m
    PROVE  q < m
<1> SUFFICES ASSUME m <= q PROVE FALSE OBVIOUS
<1>1. m * n <= q * n BY TimesLe
<1>2. m * n = n * m /\ q * n = n * q OBVIOUS
<1>3. n * m \in Nat /\ n * q \in Nat BY TimesNat
<1> QED BY <1>1, <1>2, <1>3

(* Two shares that are each rounded down miss at most one unit of the      *)
(* whole.                                                                  *)
LEMMA Shares ==
    ASSUME NEW g \in Nat, NEW x \in Nat, NEW y \in Nat, x + y > 0
    PROVE  LET p == (g * x) \div (x + y)
               q == (g * y) \div (x + y)
           IN p \in Nat /\ q \in Nat /\ p + q <= g /\ g <= p + q + 1
<1> DEFINE n == x + y
           p == (g * x) \div n
           q == (g * y) \div n
<1>1. n \in Nat \ {0} OBVIOUS
<1>2. g * x \in Nat /\ g * y \in Nat BY TimesNat
<1> HIDE DEF n
<1>3. p \in Nat /\ n * p <= g * x /\ g * x < n * p + n BY <1>1, <1>2, DivIs
<1>4. q \in Nat /\ n * q <= g * y /\ g * y < n * q + n BY <1>1, <1>2, DivIs
<1> HIDE DEF p, q
<1>5. g * x + g * y = n * g BY DEF n
<1>6. n * p + n * q = n * (p + q) BY <1>1, <1>3, <1>4
<1>7. (n * p + n) + (n * q + n) = n * (p + q + 2) BY <1>1, <1>3, <1>4
<1>8. n * g \in Nat /\ n * p \in Nat /\ n * q \in Nat BY <1>1, <1>3, <1>4, TimesNat
<1>9. n * (p + q) <= n * g BY <1>2, <1>3, <1>4, <1>5, <1>6, <1>8
<1>10. n * g < n * (p + q + 2) BY <1>1, <1>2, <1>3, <1>4, <1>5, <1>7, <1>8
<1>11. g < p + q + 2
  <2>1. PICK m \in Nat : m = p + q + 2 BY <1>3, <1>4
  <2>2. n * g <= n * g /\ n * g < n * m BY <1>8, <1>10, <2>1
  <2> QED BY <1>1, <1>8, <2>1, <2>2, DivUnique
<1>12. p + q < g + 1
  <2>1. PICK m \in Nat : m = p + q BY <1>3, <1>4
  <2>2. PICK h \in Nat : h = g + 1 OBVIOUS
  <2>3. n * h = n * g + n BY <1>1, <2>2
  <2>4. n * m <= n * g /\ n * g < n * h BY <1>1, <1>8, <1>9, <2>1, <2>3
  <2> QED BY <1>1, <1>8, <2>1, <2>2, <2>4, DivUnique
<1> QED BY <1>3, <1>4, <1>11, <1>12 DEF n, p, q

(* A quotient of an amount that is no less than the divisor is not 0.      *)
LEMMA DivPositive ==
    ASSUME NEW a \in Nat, NEW n \in Nat \ {0}, a >= n
    PROVE  a \div n > 0
OBVIOUS

(* What is left of an amount, and when nothing is.                         *)
LEMMA RestOfIt ==
    ASSUME NEW u \in Nat, NEW z \in Int
    PROVE  u * (100 - z) = 100 * u - u * z
OBVIOUS

LEMMA AllOfIt ==
    ASSUME NEW u \in Nat, NEW z \in Int, 100 * u = u * z
    PROVE  u = 0 \/ z = 100
<1> SUFFICES ASSUME u # 0 PROVE z = 100 OBVIOUS
<1>1. CASE z >= 101
  <2>1. PICK d \in Nat : z = 101 + d
    <3>1. z - 101 \in Nat /\ z = 101 + (z - 101) BY <1>1
    <3> QED BY <3>1
  <2>2. u * z = 101 * u + u * d BY <2>1
  <2>3. u * d \in Nat BY <2>1, TimesNat
  <2> QED BY <2>2, <2>3
<1>2. CASE z <= 99
  <2>1. PICK d \in Nat : z = 99 - d
    <3>1. 99 - z \in Nat /\ z = 99 - (99 - z) BY <1>2
    <3> QED BY <3>1
  <2>2. u * z = 99 * u - u * d BY <2>1
  <2>3. u * d \in Nat BY <2>1, TimesNat
  <2> QED BY <2>2, <2>3
<1> QED BY <1>1, <1>2

(* So the fill after a price impact and what the impact takes are the      *)
(* whole, and the fill is 0 only when the impact is 100 percent.           *)
Takes(u, z, t) ==
    /\ ((u * 1000) * (100 - z)) \div 100 = 1000 * u - t
    /\ ((u * 1000) * z) \div 100 = t
    /\ 1000 * u - t = 0 => u = 0 \/ z = 100

LEMMA FillAndImpact ==
    ASSUME NEW u \in Nat, NEW z \in Int
    PROVE  \E t \in Int : Takes(u, z, t)
<1>1. PICK v : v = u * z
  OBVIOUS
<1>2. v \in Int
  BY <1>1, WholePercent
<1>3. PICK y : y = 100 - z
  OBVIOUS
<1>4. y \in Int
  BY <1>3
<1>5. u * y = 100 * u - v
  BY <1>1, <1>3, RestOfIt
<1>6. ((u * 1000) * y) \div 100 = 10 * (u * y)
  BY <1>4, WholePercent
<1>7. ((u * 1000) * z) \div 100 = 10 * v
  BY <1>1, WholePercent
<1>8. 100 * u = v => u = 0 \/ z = 100
  BY <1>1, AllOfIt
<1>9. PICK t \in Int : t = 10 * v
  BY <1>2
<1>10. ((u * 1000) * y) \div 100 = 1000 * u - t
  BY <1>2, <1>5, <1>6, <1>9
<1>11. 1000 * u - t = 0 => 100 * u = v
  BY <1>2, <1>9
<1>. QED BY <1>3, <1>7, <1>8, <1>9, <1>10, <1>11 DEF Takes

(* For a route that carries no warning the key is its worth, or a unit     *)
(* less, if anything is left of it; it is never less than that.            *)
LEMMA KeyIsWorth ==
    ASSUME EngineTypes, NEW i \in DOMAIN cands, ~Thin(cands[i])
    PROVE  LET w == Worth(cands[i], results[i])
               k == SortKey(cands[i], results[i])
           IN w \in Int /\ (k <= w \/ NothingLeft(results[i])) /\ w <= k + 1
<1> DEFINE r == results[i]
           c == cands[i]
           g == Gross(r)
           fill == ExpectedFill(c, r)
<1>1. r.usd \in Nat /\ r.impact \in Int /\ c.liq \in Nat /\ FromUsd \in Nat
  BY CandIs, FromUsdAssumption DEF AnswerTypes
<1>2. g \in Nat /\ (g = 0 \/ g >= 1000) BY <1>1 DEF Gross, Scale
<1>3. CASE r.impact > 0
  <2>1. PICK u \in Nat, z \in Int : u = r.usd /\ z = r.impact BY <1>1
  <2>2. g = u * 1000 BY <2>1 DEF Gross, Scale
  <2>3. PICK t \in Int : Takes(u, z, t)
    <3> HIDE DEF g, fill, r, c
    <3> QED BY <2>1, FillAndImpact
  <2>4. fill = (g * (100 - z)) \div 100 /\ Worth(c, r) = g - (g * z) \div 100
    BY <1>3, <2>1 DEF ExpectedFill, Worth
  <2>5. fill = 1000 * u - t BY <2>2, <2>3, <2>4 DEF Takes
  <2>6. Worth(c, r) = 1000 * u - t
    <3>1. Worth(c, r) = u * 1000 - t BY <2>2, <2>3, <2>4 DEF Takes
    <3>2. u * 1000 = 1000 * u BY <2>1
    <3> QED BY <3>1, <3>2
  <2>7. SortKey(c, r) = IF 1000 * u - t = 0 THEN u * 1000 ELSE 1000 * u - t
    BY <2>2, <2>5 DEF SortKey
  <2>9. z = 100 => NothingLeft(r) BY <2>1 DEF NothingLeft
  <2> HIDE DEF g, fill, r, c
  <2>10. Worth(c, r) \in Int /\ (SortKey(c, r) <= Worth(c, r) \/ NothingLeft(r))
         /\ Worth(c, r) <= SortKey(c, r) + 1
    <3>1. PICK k : k = SortKey(c, r) OBVIOUS
    <3>2. PICK w : w = Worth(c, r) OBVIOUS
    <3>3. PICK n \in Int : n = 1000 * u - t BY <2>1, <2>3
    <3>4. w = n /\ w \in Int BY <2>6, <3>2, <3>3
    <3>5. CASE n # 0
      <4>1. k = n BY <2>7, <3>1, <3>3, <3>5
      <4> QED BY <3>1, <3>2, <3>4, <4>1
    <3>6. CASE n = 0
      <4>1. k = u * 1000 BY <2>7, <3>1, <3>3, <3>6
      <4>2. u = 0 \/ NothingLeft(r) BY <2>3, <2>9, <3>3, <3>6 DEF Takes
      <4>3. k \in Nat /\ (u = 0 => k = 0) BY <2>1, <4>1
      <4> QED BY <3>1, <3>2, <3>4, <3>6, <4>2, <4>3
    <3> QED BY <3>5, <3>6
  <2> QED BY <2>10 DEF r, c
<1>4. CASE ~(r.impact > 0) /\ FromUsd > 0 /\ c.liq > 0
  <2>1. PICK x \in Nat : x = c.liq BY <1>1
  <2>2. PICK y \in Nat : y = FromUsd BY <1>1
  <2>3. x > 0 /\ y > 0 /\ y * 100 <= x * 5 BY <1>4, <2>1, <2>2 DEF Thin, ThinLiquidityPct
  <2>4. PICK p \in Nat, q \in Nat : p = (g * x) \div (x + y) /\ q = (g * y) \div (x + y)
                                    /\ p + q <= g /\ g <= p + q + 1
    <3> HIDE DEF g
    <3> QED BY <1>2, <2>3, Shares
  <2>5. fill = p BY <1>4, <2>1, <2>2, <2>4 DEF ExpectedFill
  <2>6. Worth(c, r) = g - q
    <3>1. r.impact <= 0 BY <1>1, <1>4
    <3> QED BY <1>4, <2>1, <2>2, <2>4, <3>1 DEF Worth
  <2>7. p = 0 => g = 0
    <3> SUFFICES ASSUME g >= 1000 PROVE p > 0 BY <1>2
    <3> HIDE DEF g
    <3>1. y <= x BY <2>3
    <3>2. 2 * x <= g * x
      <4>1. 2 * x <= g * x BY <1>2, TimesLe
      <4> QED BY <4>1
    <3>3. g * x \in Nat BY <1>2, TimesNat
    <3>4. g * x >= x + y BY <3>1, <3>2, <3>3
    <3>5. PICK n \in Nat \ {0} : n = x + y BY <2>3
    <3> QED BY <2>4, <3>3, <3>4, <3>5, DivPositive
  <2>8. SortKey(c, r) = IF p = 0 THEN g ELSE p BY <2>5 DEF SortKey
  <2> HIDE DEF g, fill, r, c
  <2>9. Worth(c, r) \in Int /\ SortKey(c, r) <= Worth(c, r)
        /\ Worth(c, r) <= SortKey(c, r) + 1
    BY <1>2, <2>4, <2>6, <2>7, <2>8
  <2> QED BY <2>9 DEF r, c
<1>5. CASE ~(r.impact > 0) /\ ~(FromUsd > 0 /\ c.liq > 0)
  <2>1. fill = 0 BY <1>5 DEF ExpectedFill
  <2>2. SortKey(c, r) = g BY <2>1 DEF SortKey
  <2>3. Worth(c, r) = g BY <1>5 DEF Worth
  <2> HIDE DEF g, fill, r, c
  <2>4. Worth(c, r) \in Int /\ SortKey(c, r) <= Worth(c, r)
        /\ Worth(c, r) <= SortKey(c, r) + 1
    BY <1>2, <2>2, <2>3
  <2> QED BY <2>4 DEF r, c
<1> QED BY <1>3, <1>4, <1>5

-----------------------------------------------------------------------------
(* What a response says, when there is one.                                *)

LEMMA NothingTold ==
    ASSUME EngineInv, resp = NoResponse
    PROVE  RecommendedIsBest /\ ReasonExplains
<1>1. /\ resp.routes = <<>> /\ resp.recommended = 0 /\ resp.failures = <<>>
      /\ resp.reason = "pending" /\ ~Responded
  BY DEF NoResponse, Responded
<1>2. ToSet(resp.routes) = {} BY <1>1 DEF ToSet
<1>3. EngineTypeOK BY <1>1 DEF EngineTypeOK, EngineInv, EngineTypes
<1>4. DOMAIN resp.routes = {} BY <1>1
<1>5. RankingFair BY <1>1, <1>4 DEF RankingFair
<1> QED BY <1>1, <1>2, <1>3, <1>5 DEF RecommendedIsBest, ReasonExplains

(* Who comes first carries no warning if anybody is without one, and its   *)
(* key is the greatest of theirs.                                          *)
LEMMA FirstIsBest ==
    ASSUME EngineTypes, NEW i \in Routed, ~Unsafe(cands[i], results[i])
    PROVE  LET f == Ranked(cands, results)
           IN /\ 1 \in 1 .. Cardinality(Routed) /\ f[1] \in Routed
              /\ ~Unsafe(cands[f[1]], results[f[1]])
              /\ SortKey(cands[f[1]], results[f[1]]) >= SortKey(cands[i], results[i])
<1> DEFINE f == Ranked(cands, results)
           n == Cardinality(Routed)
<1>1. PICK a \in 1 .. n : f[a] = i BY PositionsOnce DEF Positions
<1>2. n \in Nat BY PositionsOnce DEF Positions
<1>3. 1 \in 1 .. n /\ f[1] \in Routed
  <2>1. 1 \in 1 .. n BY <1>1, <1>2
  <2> QED BY <2>1, PositionsOnce DEF Positions
<1>4. PICK j \in Routed : j = f[1] BY <1>3
<1>5. i \in DOMAIN cands /\ j \in DOMAIN cands BY DEF Routed
<1>6. SortKey(cands[i], results[i]) \in Int /\ SortKey(cands[j], results[j]) \in Int
  BY <1>5, KeyIsInt
<1>7. ~Unsafe(cands[j], results[j]) /\ SortKey(cands[j], results[j]) >= SortKey(cands[i], results[i])
  <2>1. CASE a = 1
    <3>1. i = j BY <1>1, <1>4, <2>1
    <3> QED BY <1>6, <3>1
  <2>2. CASE a # 1
    <3>1. 1 < a BY <1>1, <1>2, <2>2
    <3>2. <<j, i>> \in Before(cands, results)
      <4> HIDE DEF f
      <4>1. <<f[1], f[a]>> \in Before(cands, results) BY <1>1, <1>3, <3>1, PositionsOnce DEF f
      <4> QED BY <1>1, <1>4, <4>1
    <3>3. Less(cands, results, j, i) \/ ~Less(cands, results, i, j)
      BY <1>5, <3>2 DEF Before
    <3>4. Unsafe(cands[j], results[j]) \in BOOLEAN /\ Unsafe(cands[i], results[i]) \in BOOLEAN
      BY <1>5, KeyIsInt
    <3> QED BY <1>6, <3>3, <3>4 DEF Less
  <2> QED BY <2>1, <2>2
<1> QED BY <1>3, <1>4, <1>7

LEMMA ToldRoutes ==
    ASSUME EngineInv, resp = Told
    PROVE  /\ resp.routes = Ranked(cands, results)
           /\ resp.recommended = Recommended(cands, results, Ranked(cands, results))
           /\ resp.failures = Failures(cands, results)
           /\ DOMAIN resp.routes = 1 .. Cardinality(Routed)
           /\ ToSet(resp.routes) = Routed
           /\ resp.routes = <<>> <=> Routed = {}
<1>1. /\ resp.routes = Ranked(cands, results)
      /\ resp.recommended = Recommended(cands, results, Ranked(cands, results))
      /\ resp.failures = Failures(cands, results)
  BY DEF Told
<1>2. PICK f : f = Ranked(cands, results) OBVIOUS
<1>3. PICK S : S = Routed OBVIOUS
<1>4. Positions(f, S) BY <1>2, <1>3, PositionsOnce DEF EngineInv
<1>5. DOMAIN f = 1 .. Cardinality(S) BY <1>4 DEF Positions
<1>6. ToSet(f) = S BY <1>4, <1>5 DEF Positions, ToSet
<1>7. f = <<>> <=> S = {}
  <2>1. CASE S = {}
    <3>1. Cardinality(S) = 0 BY <2>1, FS_EmptySet
    <3>2. f \in [1 .. 0 -> S] BY <1>4, <3>1 DEF Positions
    <3> QED BY <2>1, <3>2
  <2>2. CASE S # {}
    <3>1. \E a \in DOMAIN f : TRUE BY <1>4, <1>5, <2>2 DEF Positions
    <3> QED BY <2>2, <3>1
  <2> QED BY <2>1, <2>2
<1> QED BY <1>1, <1>2, <1>3, <1>5, <1>6, <1>7

LEMMA ToldType ==
    ASSUME EngineInv, resp = Told
    PROVE  EngineTypeOK
<1>1. resp.recommended \in {0} \union ToSet(resp.routes)
  <2>1. resp.routes # <<>> => resp.routes[1] \in ToSet(resp.routes)
    <3> SUFFICES ASSUME resp.routes # <<>> PROVE 1 \in DOMAIN resp.routes BY DEF ToSet
    <3>1. PICK i \in Routed : TRUE BY ToldRoutes
    <3>2. Cardinality(Routed) \in Nat /\ \E a \in 1 .. Cardinality(Routed) : TRUE
      BY <3>1, PositionsOnce DEF Positions, EngineInv
    <3>3. 1 \in 1 .. Cardinality(Routed) BY <3>2
    <3> QED BY <3>3, ToldRoutes
  <2> QED BY <2>1, ToldRoutes DEF Recommended
<1>2. resp.reason \in {"pending", "", "NO_CANDIDATE", "QUOTE_CONFIGURATION_ERROR",
                        "QUOTE_TIMEOUT", "QUOTE_RATE_LIMITED",
                        "QUOTE_PROVIDER_ERROR", "NO_ROUTE_AVAILABLE"}
  BY DEF Told, Reason
<1> QED BY <1>1, <1>2 DEF EngineTypeOK, EngineInv, EngineTypes

LEMMA ToldFair ==
    ASSUME EngineInv, resp = Told
    PROVE  RankingFair
<1>1. EngineTypes BY DEF EngineInv
<1>2. ASSUME NEW i \in DOMAIN cands
      PROVE  Cardinality({j \in DOMAIN resp.routes : resp.routes[j] = i}) +
             Cardinality({j \in DOMAIN resp.failures : resp.failures[j].cand = i}) = 1
  <2>1. PICK f, S : f = resp.routes /\ S = Routed OBVIOUS
  <2>2. Positions(f, S) BY <1>1, <2>1, PositionsOnce, ToldRoutes
  <2>3. \A a, b \in 1 .. Cardinality(S) : a < b => f[a] # f[b]
    <3>1. \A a, b \in 1 .. Cardinality(S) : a < b => <<f[a], f[b]>> \in Before(cands, results)
      BY <1>1, <2>1, PositionsOnce, ToldRoutes
    <3>2. \A k \in S : <<k, k>> \notin Before(cands, results)
      BY <1>1, <2>1, OrdersAreStrict DEF StrictOrder
    <3>3. \A a \in 1 .. Cardinality(S) : f[a] \in S BY <2>2 DEF Positions
    <3> QED BY <3>1, <3>2, <3>3
  <2>4. Cardinality({a \in DOMAIN f : f[a] = i}) = IF i \in S THEN 1 ELSE 0
    BY <2>2, <2>3, OnePlace
  <2>5. PICK g, T : g = Without /\ T = Unrouted OBVIOUS
  <2>6. Positions(g, T) /\ \A a, b \in 1 .. Cardinality(T) : a < b => g[a] # g[b]
    BY <1>1, <2>5, PositionsOnce
  <2>7. Cardinality({a \in DOMAIN g : g[a] = i}) = IF i \in T THEN 1 ELSE 0
    BY <2>6, OnePlace
  <2>8. PICK F : F = resp.failures OBVIOUS
  <2>9. DOMAIN F = DOMAIN g /\ \A j \in DOMAIN g : F[j].cand = g[j]
    BY <1>1, <2>5, <2>8, FailuresAre, ToldRoutes
  <2>10. {j \in DOMAIN F : F[j].cand = i} = {a \in DOMAIN g : g[a] = i} BY <2>9
  <2>11. i \in S <=> i \notin T BY <2>1, <2>5 DEF Routed, Unrouted
  <2>12. PICK x, y : /\ x = Cardinality({a \in DOMAIN f : f[a] = i})
                     /\ y = Cardinality({a \in DOMAIN g : g[a] = i})
    OBVIOUS
  <2>13. x + y = 1 BY <2>4, <2>7, <2>11, <2>12
  <2>14. Cardinality({j \in DOMAIN resp.routes : resp.routes[j] = i}) = x BY <2>1, <2>12
  <2>15. Cardinality({j \in DOMAIN resp.failures : resp.failures[j].cand = i}) = y
    BY <2>8, <2>10, <2>12
  <2> QED BY <2>13, <2>14, <2>15
<1>3. ASSUME NEW a \in DOMAIN resp.routes, NEW b \in DOMAIN resp.routes,
             NEW i, NEW j, i = resp.routes[a], j = resp.routes[b]
      PROVE  /\ ~Unsafe(cands[i], results[i]) /\ Unsafe(cands[j], results[j]) => a < b
             /\ i < j /\ cands[i] = cands[j] /\ results[i] = results[j] => a < b
  <2>1. PICK f, S : f = resp.routes /\ S = Routed OBVIOUS
  <2>2. Positions(f, S) BY <1>1, <2>1, PositionsOnce, ToldRoutes
  <2>3. DOMAIN f = 1 .. Cardinality(S) /\ Cardinality(S) \in Nat BY <2>2 DEF Positions
  <2>4. a \in Nat /\ b \in Nat /\ i \in S /\ j \in S BY <1>3, <2>1, <2>2, <2>3 DEF Positions
  <2>5. i \in DOMAIN cands /\ j \in DOMAIN cands /\ i \in Nat /\ j \in Nat
    BY <1>1, <2>1, <2>4, DomainIs DEF Routed
  <2>6. b < a => <<j, i>> \in Before(cands, results)
    BY <1>1, <1>3, <2>1, <2>3, PositionsOnce, ToldRoutes
  <2>7. b < a => Less(cands, results, j, i) \/ (~Less(cands, results, i, j) /\ j < i)
    BY <2>5, <2>6 DEF Before
  <2>8. a = b => i = j BY <1>3
  <2>9. /\ Unsafe(cands[i], results[i]) \in BOOLEAN /\ Unsafe(cands[j], results[j]) \in BOOLEAN
        /\ cands[i].cross \in BOOLEAN /\ cands[j].cross \in BOOLEAN
        /\ SortKey(cands[i], results[i]) \in Int /\ SortKey(cands[j], results[j]) \in Int
    BY <1>1, <2>5, KeyIsInt, CandIs
  <2>10. ~Unsafe(cands[i], results[i]) /\ Unsafe(cands[j], results[j]) =>
            ~Less(cands, results, j, i) /\ Less(cands, results, i, j) /\ i # j
    BY <2>9 DEF Less
  <2>11. cands[i] = cands[j] /\ results[i] = results[j] => ~Less(cands, results, j, i)
    BY <2>9 DEF Less
  <2>12. ~(a < b) => b < a \/ a = b BY <2>4
  <2>13. i < j => ~(j < i) /\ i # j BY <2>5
  <2> QED BY <2>7, <2>8, <2>10, <2>11, <2>12, <2>13
<1> QED BY <1>2, <1>3 DEF RankingFair

LEMMA BestTold ==
    ASSUME EngineInv, resp = Told
    PROVE  RecommendedIsBest
<1> DEFINE clean == {i \in ToSet(resp.routes) : ~results[i].high /\ ~Thin(cands[i])}
           r == resp.recommended
<1>1. EngineTypes BY DEF EngineInv
<1>2. clean = {i \in Routed : ~Unsafe(cands[i], results[i])} BY ToldRoutes DEF Unsafe
<1>3. PICK f : f = resp.routes OBVIOUS
<1>4. r = IF f # <<>> /\ ~Unsafe(cands[f[1]], results[f[1]]) THEN f[1] ELSE 0
  BY <1>3, ToldRoutes DEF Recommended
<1>5. f # <<>> => f[1] \in Routed
  <2> SUFFICES ASSUME f # <<>> PROVE f[1] \in Routed OBVIOUS
  <2>1. PICK i \in Routed : TRUE BY <1>3, ToldRoutes
  <2>2. PICK n : n = Cardinality(Routed) OBVIOUS
  <2>3. n \in Nat /\ \E a \in 1 .. n : TRUE BY <1>1, <2>1, <2>2, PositionsOnce DEF Positions
  <2>4. 1 \in 1 .. n BY <2>3
  <2> QED BY <1>1, <1>3, <2>2, <2>4, PositionsOnce, ToldRoutes DEF Positions
<1>6. clean = {} => r = 0 BY <1>2, <1>4, <1>5
<1>7. ASSUME NEW i \in clean
      PROVE  /\ r \in clean /\ r = resp.routes[1]
             /\ \/ NothingLeft(results[r])
                \/ Worth(cands[r], results[r]) + 1 >= Worth(cands[i], results[i])
  <2>1. i \in Routed /\ ~Unsafe(cands[i], results[i]) BY <1>2
  <2>2. /\ f[1] \in Routed /\ ~Unsafe(cands[f[1]], results[f[1]])
        /\ SortKey(cands[f[1]], results[f[1]]) >= SortKey(cands[i], results[i])
    BY <1>1, <1>3, <2>1, FirstIsBest, ToldRoutes
  <2>3. f # <<>> BY <1>3, <2>1, ToldRoutes
  <2>4. r = f[1] /\ r \in clean BY <1>2, <1>4, <2>2, <2>3
  <2>5. r \in DOMAIN cands /\ i \in DOMAIN cands BY <2>1, <2>2, <2>4 DEF Routed
  <2>6. ~Thin(cands[r]) /\ ~Thin(cands[i]) BY <2>4
  <2>7. PICK wi, ki : wi = Worth(cands[i], results[i]) /\ ki = SortKey(cands[i], results[i])
    OBVIOUS
  <2>8. PICK wr, kr : wr = Worth(cands[r], results[r]) /\ kr = SortKey(cands[r], results[r])
    OBVIOUS
  <2>9. wi \in Int /\ wi <= ki + 1 /\ ki \in Int
    BY <1>1, <2>5, <2>6, <2>7, KeyIsWorth, KeyIsInt
  <2>10. wr \in Int /\ (kr <= wr \/ NothingLeft(results[r])) /\ kr \in Int
    BY <1>1, <2>5, <2>6, <2>8, KeyIsWorth, KeyIsInt
  <2>11. kr >= ki BY <2>2, <2>4, <2>7, <2>8
  <2>12. NothingLeft(results[r]) \/ wr + 1 >= wi BY <2>9, <2>10, <2>11
  <2> QED BY <1>3, <2>4, <2>7, <2>8, <2>12
<1>8. EngineTypeOK /\ RankingFair BY ToldType, ToldFair
<1>9. clean # {} => r \in clean /\ r = resp.routes[1] BY <1>7
<1>10. \A i \in clean : NothingLeft(results[r])
                         \/ Worth(cands[r], results[r]) + 1 >= Worth(cands[i], results[i])
  BY <1>7
<1> HIDE DEF clean, r
<1>11. /\ EngineTypeOK /\ RankingFair
       /\ clean = {} => r = 0
       /\ clean # {} => r \in clean /\ r = resp.routes[1]
       /\ \A i \in clean : NothingLeft(results[r])
                           \/ Worth(cands[r], results[r]) + 1 >= Worth(cands[i], results[i])
  BY <1>6, <1>8, <1>9, <1>10
<1> QED BY <1>11 DEF RecommendedIsBest, clean, r

LEMMA ReasonTold ==
    ASSUME EngineInv, resp = Told
    PROVE  ReasonExplains
<1> DEFINE codes == {resp.failures[j].code : j \in DOMAIN resp.failures}
<1>1. EngineTypes BY DEF EngineInv
<1>2. codes = Codes BY <1>1, FailuresAre, ToldRoutes
<1>3. resp.reason = IF cands = <<>> THEN "NO_CANDIDATE"
                    ELSE IF resp.routes # <<>> THEN "" ELSE Reason(Codes, expired)
  BY DEF Told
<1>4. cands = <<>> => resp.routes = <<>>
  <2>1. cands = <<>> => Routed = {} BY <1>1, DomainIs DEF Routed
  <2> QED BY <2>1, ToldRoutes
<1>5. Reason(Codes, expired) # "" BY DEF Reason
<1>6. resp.reason = "" <=> resp.routes # <<>> BY <1>3, <1>4, <1>5
<1>7. resp.reason = "NO_ROUTE_AVAILABLE" => codes = {"NO_ROUTE"} /\ ~expired
  <2> SUFFICES ASSUME resp.reason = "NO_ROUTE_AVAILABLE" PROVE Codes = {"NO_ROUTE"} /\ ~expired
    BY <1>2
  <2>1. cands # <<>> /\ resp.routes = <<>> BY <1>3
  <2>2. /\ "CONFIGURATION_ERROR" \notin Codes /\ "TIMEOUT" \notin Codes
        /\ "RATE_LIMITED" \notin Codes /\ "PROVIDER_ERROR" \notin Codes /\ ~expired
    BY <1>3, <2>1 DEF Reason
  <2>3. \A c \in Codes : c \in {"CONFIGURATION_ERROR", "TIMEOUT", "RATE_LIMITED",
                                 "PROVIDER_ERROR", "NO_ROUTE"}
    BY DEF Codes, FailureCode, ErrorCode
  <2>4. Codes # {}
    <3>1. PICK i \in DOMAIN cands : TRUE BY <1>1, <2>1, DomainIs
    <3>2. i \in Unrouted BY <2>1, ToldRoutes DEF Routed, Unrouted
    <3>3. DOMAIN Without # {}
      <4>1. PICK W, T : W = Without /\ T = Unrouted OBVIOUS
      <4>2. Positions(W, T) BY <1>1, <4>1, PositionsOnce
      <4> QED BY <3>2, <4>1, <4>2 DEF Positions
    <3> QED BY <3>3 DEF Codes
  <2> QED BY <2>2, <2>3, <2>4
<1>8. resp.reason = "QUOTE_PROVIDER_ERROR" => "PROVIDER_ERROR" \in codes /\ "TIMEOUT" \notin codes
  BY <1>2, <1>3 DEF Reason
<1>9. /\ cands # <<>> /\ resp.routes = <<>>
      /\ expired \/ "TIMEOUT" \in codes
      /\ "CONFIGURATION_ERROR" \notin codes
      => resp.reason = "QUOTE_TIMEOUT"
  BY <1>2, <1>3 DEF Reason
<1> HIDE DEF codes
<1>10. /\ resp.reason = "" <=> resp.routes # <<>>
       /\ resp.reason = "NO_ROUTE_AVAILABLE" => codes = {"NO_ROUTE"} /\ ~expired
       /\ /\ cands # <<>> /\ resp.routes = <<>>
          /\ expired \/ "TIMEOUT" \in codes
          /\ "CONFIGURATION_ERROR" \notin codes
          => resp.reason = "QUOTE_TIMEOUT"
       /\ resp.reason = "QUOTE_PROVIDER_ERROR" =>
            "PROVIDER_ERROR" \in codes /\ "TIMEOUT" \notin codes
  BY <1>6, <1>7, <1>8, <1>9
<1> QED BY <1>10 DEF ReasonExplains, codes

LEMMA EngineSays == EngineInv => RecommendedIsBest /\ ReasonExplains
BY NothingTold, BestTold, ReasonTold DEF EngineInv

-----------------------------------------------------------------------------
(* The routes, channel by channel.                                         *)

Fits(ch, ask, r) ==
    LET trusted == ch \in {"lifi", "bungee"}
        ours == ch \in {"univ2", "univ3"}
    IN /\ ~trusted => /\ r.approval.amount <= Amount
                      /\ ask.native => r.approval = NoApproval
                      /\ ask.tron /\ r.tx # NoTx => r.tx.limit > 0
       /\ r.tx.limit <= MaxFeeLimit
       /\ ours \/ ch = "bridgers" =>
            /\ r.approval.spender \in {"", r.tx.to}
            /\ r.tx.value = (IF ask.native THEN Amount ELSE 0)
       /\ ours \/ ch = "jupiter" \/ (ch = "bridgers" /\ ask.tron) => r.min <= r.enforces
       /\ ask.fee => \/ r.charged \/ r.build \/ ch = "univ2"
                     \/ (ch = "jupiter" /\ ~ask.payee)

LEMMA SlippageLowers == \A out \in Nat : AfterSlippage(out) \in Nat /\ AfterSlippage(out) <= out
<1> SUFFICES ASSUME NEW out \in Nat
             PROVE  AfterSlippage(out) \in Nat /\ AfterSlippage(out) <= out
  OBVIOUS
<1>1. PICK s \in Nat : s = 100 - SlippagePct /\ s <= 100 BY SlippageAssumption
<1>2. out * s \in Nat BY TimesNat
<1>3. PICK q : q = (out * s) \div 100 OBVIOUS
<1>4. q \in Nat /\ 100 * q <= out * s BY <1>2, <1>3, DivIs
<1>5. out * s <= out * 100
  <2>1. s * out <= 100 * out BY <1>1, TimesLe
  <2>2. s * out = out * s /\ 100 * out = out * 100 OBVIOUS
  <2> QED BY <2>1, <2>2
<1>6. q <= out BY <1>2, <1>4, <1>5
<1> QED BY <1>1, <1>3, <1>4, <1>6 DEF AfterSlippage

LEMMA LimitsKept ==
    \A sun \in Nat : FeeLimit(sun) <= MaxFeeLimit /\ EnergyFeeLimit(sun) <= MaxFeeLimit
BY FeeAssumption DEF FeeLimit, EnergyFeeLimit

LEMMA Numbers ==
    /\ NoTx.limit = 0 /\ NoApproval.amount = 0
    /\ \A to, value, limit : Calls(to, value, limit).limit = limit
    /\ \A a : Passed(a).limit = 0
    /\ \A spender, amount : Allow(spender, amount).amount = amount
BY DEF NoTx, NoApproval, Calls, Passed, Allow

LEMMA MaximaAre == Amount \in Nat /\ MaxFeeLimit \in Nat /\ MaxFeeLimit > 0 /\ ProtocolMax \in Nat
BY FeeAssumption, AmountAssumption

LEMMA BridgersFit ==
    ASSUME NEW ask \in Asks, NEW r \in BridgersRoutes(ask)
    PROVE  Fits("bridgers", ask, r) /\ ~r.build
<1>1. PICK a \in BridgersAnswers :
         /\ BridgersAsked(ask) /\ a.contract \in Contracts
         /\ IF ask.tron THEN TronCallMatches(ask, a) ELSE EvmCallMatches(a)
         /\ a.value = (IF ask.native THEN Amount ELSE 0)
         /\ r = [Route(Calls(a.to, a.value, IF ask.tron THEN a.limit ELSE 0),
                       BridgersApproval(ask, a), AfterSlippage(a.out))
                 EXCEPT !.enforces = a.enforces]
  BY DEF BridgersRoutes
<1>2. /\ r.tx.to = a.to /\ r.tx.value = a.value
      /\ r.tx.limit = (IF ask.tron THEN a.limit ELSE 0)
      /\ r.approval = BridgersApproval(ask, a)
      /\ r.min = AfterSlippage(a.out) /\ r.enforces = a.enforces /\ r.build = FALSE
  BY <1>1 DEF Route, Calls
<1>3. a.out \in Nat BY DEF BridgersAnswers
<1>4. /\ r.approval.amount <= Amount /\ (ask.native => r.approval = NoApproval)
      /\ r.approval.spender \in {"", a.contract}
  <2>1. r.approval = NoApproval \/ (~ask.native /\ r.approval = Allow(a.contract, Amount))
    BY <1>2 DEF BridgersApproval
  <2>2. r.approval.amount <= Amount BY <2>1, Numbers, MaximaAre
  <2>3. NoApproval.spender = "" BY DEF NoApproval
  <2>4. Allow(a.contract, Amount).spender = a.contract BY DEF Allow
  <2>5. r.approval.spender \in {"", a.contract} BY <2>1, <2>3, <2>4
  <2> QED BY <2>1, <2>2, <2>5
<1>5. a.to = a.contract BY <1>1 DEF TronCallMatches, EvmCallMatches
<1>6. ask.tron => a.limit > 0 /\ a.limit <= MaxFeeLimit /\ a.enforces = a.out
  BY <1>1, FeeAssumption DEF TronCallMatches
<1>7. r.tx.limit <= MaxFeeLimit BY <1>2, <1>6, FeeAssumption
<1>8. ask.tron => r.min <= r.enforces BY <1>2, <1>3, <1>6, SlippageLowers
<1>9. ~ask.fee BY <1>1 DEF BridgersAsked
<1> QED BY <1>1, <1>2, <1>4, <1>5, <1>6, <1>7, <1>8, <1>9 DEF Fits

LEMMA OkxApproved ==
    ASSUME NEW ask \in Asks, NEW entries, NEW approval \in OkxApprovals(ask, entries)
    PROVE  approval.amount <= Amount /\ (ask.native => approval = NoApproval)
<1>1. CASE ask.native
  <2>1. approval = NoApproval BY <1>1 DEF OkxApprovals
  <2> QED BY <2>1, Numbers, MaximaAre
<1>2. CASE ~ask.native
  <2>1. approval \in OkxApproval(entries) BY <1>2 DEF OkxApprovals
  <2>2. PICK spender : approval = Allow(spender, Amount) BY <2>1 DEF OkxApproval
  <2> QED BY <1>2, <2>2, Numbers, MaximaAre
<1> QED BY <1>1, <1>2

LEMMA OkxRouteFits ==
    ASSUME NEW ask \in Asks, NEW tx, NEW approval,
           tx = NoTx \/ \E a \in OkxSwaps : OkxCall(ask, a.to, a.energy) /\ tx = OkxTx(ask, a),
           approval.amount <= Amount, ask.native => approval = NoApproval
    PROVE  Fits("okx", ask, OkxRoute(ask, tx, approval))
<1> DEFINE r == OkxRoute(ask, tx, approval)
<1>1. r.tx = tx /\ r.approval = approval /\ r.charged = ask.fee
  BY DEF OkxRoute, Route
<1>2. tx.limit <= MaxFeeLimit /\ (ask.tron /\ tx # NoTx => tx.limit > 0)
  <2>1. CASE tx = NoTx BY <2>1, Numbers, MaximaAre
  <2>2. CASE \E a \in OkxSwaps : OkxCall(ask, a.to, a.energy) /\ tx = OkxTx(ask, a)
    <3>1. PICK a \in OkxSwaps : OkxCall(ask, a.to, a.energy) /\ tx = OkxTx(ask, a) BY <2>2
    <3>2. a.energy \in Nat BY FeeAssumption DEF OkxSwaps, Fees
    <3>3. tx.limit = IF ask.tron THEN EnergyFeeLimit(a.energy) ELSE 0
      BY <3>1 DEF OkxTx, Calls
    <3>4. EnergyFeeLimit(a.energy) <= MaxFeeLimit BY <3>2, LimitsKept
    <3> QED BY <3>1, <3>3, <3>4, FeeAssumption DEF OkxCall
  <2> QED BY <2>1, <2>2
<1> HIDE DEF r
<1>3. Fits("okx", ask, r) BY <1>1, <1>2 DEF Fits, Asks
<1> QED BY <1>3 DEF r

LEMMA OkxSingleFits ==
    ASSUME NEW ask \in Asks, NEW r \in OkxSingle(ask)
    PROVE  Fits("okx", ask, r)
<1>1. PICK a \in {b \in OkxSwaps : OkxKeeps(ask, b)},
           approval \in UNION {OkxApprovals(ask, entries) : entries \in OkxEntries} :
         r = OkxRoute(ask, OkxBuilt(ask, a), approval)
  BY DEF OkxSingle
<1>2. PICK entries : approval \in OkxApprovals(ask, entries) BY <1>1
<1>3. approval.amount <= Amount /\ (ask.native => approval = NoApproval)
  BY <1>2, OkxApproved
<1>4. PICK tx : tx = OkxBuilt(ask, a) OBVIOUS
<1>5. tx = NoTx \/ \E b \in OkxSwaps : OkxCall(ask, b.to, b.energy) /\ tx = OkxTx(ask, b)
  BY <1>1, <1>4 DEF OkxKeeps, OkxBuilt
<1> QED BY <1>1, <1>3, <1>4, <1>5, OkxRouteFits

LEMMA OkxFits ==
    ASSUME NEW ask \in Asks, NEW r \in OkxRoutes(ask)
    PROVE  Fits("okx", ask, r)
<1>1. CASE ask.cross
  <2>1. r \in OkxCross(ask) BY <1>1 DEF OkxRoutes
  <2>2. PICK a \in {b \in OkxSwaps : OkxCall(ask, b.to, b.energy)},
             approval \in UNION {OkxApprovals(ask, <<m>>) : m \in Metadata} :
           r = OkxRoute(ask, OkxTx(ask, a), approval)
    BY <2>1 DEF OkxCross
  <2>3. PICK entries : approval \in OkxApprovals(ask, entries) BY <2>2
  <2>4. approval.amount <= Amount /\ (ask.native => approval = NoApproval)
    BY <2>3, OkxApproved
  <2>5. PICK tx : tx = OkxTx(ask, a) OBVIOUS
  <2> QED BY <2>2, <2>4, <2>5, OkxRouteFits
<1>2. CASE ~ask.cross /\ r \in OkxSingle(ask) BY <1>2, OkxSingleFits
<1>3. CASE ~ask.tron /\ r = OkxPre
  <2>1. /\ r.tx = NoTx /\ r.approval = NoApproval /\ r.build = TRUE
    BY <1>3 DEF OkxPre, Route
  <2>2. r.approval.amount <= Amount /\ r.tx.limit <= MaxFeeLimit
    BY <2>1, Numbers, MaximaAre
  <2> QED BY <2>1, <2>2 DEF Fits
<1> QED BY <1>1, <1>2, <1>3 DEF OkxRoutes

LEMMA LifiFits ==
    ASSUME NEW ask \in Asks, NEW r \in LifiRoutes(ask)
    PROVE  Fits("lifi", ask, r) /\ ~r.build
<1>1. PICK a \in LifiAnswers :
         /\ LifiKeeps(a)
         /\ r = [Route(LifiTx(a), LifiApproval(a), Amount) EXCEPT !.charged = ask.fee]
  BY DEF LifiRoutes
<1>2. r.tx = LifiTx(a) /\ r.charged = ask.fee /\ r.build = FALSE BY <1>1 DEF Route
<1>3. LifiTx(a).limit <= MaxFeeLimit
  <2>1. a.tron \in BOOLEAN BY DEF LifiAnswers
  <2>2. CASE ~LifiHasTx(a)
    BY <2>2, Numbers, MaximaAre DEF LifiTx
  <2>3. CASE LifiHasTx(a) /\ a.tron
    <3>1. LifiTx(a) = Calls(a.to, 0, a.limit) BY <2>3 DEF LifiTx
    <3>2. a.limit \in 1 .. MaxFeeLimit BY <1>1, <2>3 DEF LifiKeeps
    <3> QED BY <3>1, <3>2, Numbers, MaximaAre
  <2>4. CASE LifiHasTx(a) /\ ~a.tron
    <3>1. LifiTx(a) = Passed(a) BY <2>4 DEF LifiTx
    <3> QED BY <3>1, Numbers, MaximaAre
  <2> QED BY <2>1, <2>2, <2>3, <2>4
<1> QED BY <1>2, <1>3 DEF Fits

LEMMA BungeeFits ==
    ASSUME NEW ask \in Asks, NEW r \in BungeeRoutes(ask)
    PROVE  Fits("bungee", ask, r) /\ ~r.build
<1>1. PICK a \in BungeeAnswers :
         r = [Route(BungeeTx(a), BungeeApproval(a), 0) EXCEPT !.charged = ask.fee]
  BY DEF BungeeRoutes
<1>2. r.tx = BungeeTx(a) /\ r.charged = ask.fee /\ r.build = FALSE BY <1>1 DEF Route
<1>3. a.fee \in Nat
  <2>1. a.fee \in {0, 1, ProtocolMax + 1} BY DEF BungeeAnswers
  <2> QED BY <2>1, MaximaAre
<1>4. FeeLimit(a.fee) <= MaxFeeLimit BY <1>3, LimitsKept
<1>5. BungeeTx(a).limit <= MaxFeeLimit
  <2>1. CASE a.kind = "tron_tx"
    <3>1. BungeeTx(a) = Calls(a.to, a.value, FeeLimit(a.fee)) BY <2>1 DEF BungeeTx
    <3> QED BY <1>4, <3>1, Numbers
  <2>2. CASE a.kind = "evm_tx"
    <3>1. BungeeTx(a) = Passed(a) \/ BungeeTx(a) = NoTx BY <2>2 DEF BungeeTx
    <3> QED BY <3>1, Numbers, MaximaAre
  <2>3. CASE a.kind = "other"
    <3>1. BungeeTx(a) = Calls("", 0, 0) \/ BungeeTx(a) = NoTx BY <2>3 DEF BungeeTx
    <3>2. Calls("", 0, 0).limit = 0 BY DEF Calls
    <3>3. BungeeTx(a).limit = 0 BY <3>1, <3>2, Numbers
    <3> QED BY <3>3, MaximaAre
  <2> QED BY <2>1, <2>2, <2>3 DEF BungeeAnswers
<1> QED BY <1>2, <1>5 DEF Fits

LEMMA JupiterFits ==
    ASSUME NEW ask \in Asks, ~ask.tron, NEW r \in JupiterRoutes(ask)
    PROVE  Fits("jupiter", ask, r) /\ ~r.build
<1>1. PICK q \in JupiterQuotes : \E build \in Tries : \E made \in BuildsFrom(q.least, build) :
         r = JupiterRoute(ask, q.least[1], made)
  <2>1. PICK q \in JupiterQuotes :
           \E made \in UNION {BuildsFrom(q.least, build) : build \in Tries} :
              r = JupiterRoute(ask, q.least[1], made)
    BY DEF JupiterRoutes
  <2> QED BY <2>1
<1>2. PICK made : made = q.least[1] /\ r = JupiterRoute(ask, q.least[1], made)
  BY <1>1 DEF BuildsFrom
<1>3. made \in Nat BY <1>2 DEF JupiterQuotes
<1>4. /\ r.tx = Calls("", 0, 0) /\ r.approval = NoApproval /\ r.min = q.least[1]
      /\ r.charged = (ask.fee /\ ask.payee) /\ r.enforces = made /\ r.build = FALSE
  BY <1>2 DEF JupiterRoute, Route
<1>5. r.tx.limit = 0 /\ r.approval.amount = 0
  <2>1. Calls("", 0, 0).limit = 0 BY DEF Calls
  <2> QED BY <1>4, <2>1, Numbers
<1>6. ask.fee \in BOOLEAN /\ ask.payee \in BOOLEAN BY DEF Asks
<1>7. r.approval.amount <= Amount /\ r.tx.limit <= MaxFeeLimit BY <1>5, MaximaAre
<1>8. r.min <= r.enforces
  <2>1. r.min = made /\ r.enforces = made BY <1>2, <1>4
  <2> QED BY <1>3, <2>1
<1> QED BY <1>2, <1>4, <1>6, <1>7, <1>8 DEF Fits

LEMMA RouterFits ==
    ASSUME NEW ask \in Asks, ~ask.tron, NEW out \in Nat
    PROVE  /\ Fits("univ2", ask, RouterRoute(ask, out))
           /\ Fits("univ3", ask, [RouterRoute(ask, out) EXCEPT !.charged = ask.fee])
           /\ ~RouterRoute(ask, out).build
           /\ ~[RouterRoute(ask, out) EXCEPT !.charged = ask.fee].build
<1>1. AfterSlippage(out) \in Nat BY SlippageLowers
<1>2. PICK m \in Nat : m = AfterSlippage(out) BY <1>1
<1>3. PICK v : v = IF ask.native THEN Amount ELSE 0 OBVIOUS
<1>4. PICK w : w = IF ask.native THEN NoApproval ELSE Allow("x", Amount) OBVIOUS
<1>5. /\ w.amount <= Amount /\ w.spender \in {"", "x"} /\ (ask.native => w = NoApproval)
  <2>1. w = NoApproval \/ (~ask.native /\ w = Allow("x", Amount)) BY <1>4
  <2>2. w.amount <= Amount BY <2>1, Numbers, MaximaAre
  <2>3. NoApproval.spender = "" BY DEF NoApproval
  <2>4. Allow("x", Amount).spender = "x" BY DEF Allow
  <2>5. w.spender \in {"", "x"} BY <2>1, <2>3, <2>4
  <2> QED BY <2>1, <2>2, <2>5
<1>6. RouterRoute(ask, out) = Route(Calls("x", v, 0), w, m) BY <1>2, <1>3, <1>4 DEF RouterRoute
<1>7. PICK r, s : r = RouterRoute(ask, out) /\ s = [r EXCEPT !.charged = ask.fee] OBVIOUS
<1>8. /\ r.tx.to = "x" /\ r.tx.value = v /\ r.tx.limit = 0 /\ r.approval = w
      /\ r.min = m /\ r.enforces = m /\ r.build = FALSE
  BY <1>6, <1>7 DEF Route, Calls
<1>9. /\ s.tx.to = "x" /\ s.tx.value = v /\ s.tx.limit = 0 /\ s.approval = w
      /\ s.min = m /\ s.enforces = m /\ s.build = FALSE /\ s.charged = ask.fee
  BY <1>6, <1>7 DEF Route, Calls
<1>10. /\ r.tx.limit <= MaxFeeLimit /\ r.min <= r.enforces
       /\ s.tx.limit <= MaxFeeLimit /\ s.min <= s.enforces
  BY <1>8, <1>9, MaximaAre
<1>11. Fits("univ2", ask, r) BY <1>3, <1>5, <1>8, <1>10 DEF Fits
<1>12. Fits("univ3", ask, s) BY <1>3, <1>5, <1>9, <1>10 DEF Fits
<1> QED BY <1>7, <1>8, <1>9, <1>11, <1>12

Channels == DeviceChannels \union ServerChannels

LEMMA RoutesFit ==
    ASSUME NEW ch \in Channels, NEW cross, NEW ask \in AsksOf(ch, cross),
           NEW r \in RoutesOf(ch, ask)
    PROVE  Fits(ch, ask, r) /\ (r.build => ch = "okx")
<1>1. ask \in Asks /\ (ask.tron => ch \notin OneChain) BY DEF AsksOf
<1>2. CASE ch = "bridgers" BY <1>1, <1>2, BridgersFit DEF RoutesOf
<1>3. CASE ch = "okx" BY <1>1, <1>3, OkxFits DEF RoutesOf
<1>4. CASE ch = "lifi" BY <1>1, <1>4, LifiFits DEF RoutesOf
<1>5. CASE ch = "bungee" BY <1>1, <1>5, BungeeFits DEF RoutesOf
<1>6. CASE ch = "jupiter" BY <1>1, <1>6, JupiterFits DEF RoutesOf, OneChain
<1>7. CASE ch = "univ2"
  <2>1. r \in Univ2Routes(ask) /\ ~ask.tron BY <1>1, <1>7 DEF RoutesOf, OneChain
  <2>2. PICK a \in Univ2Answers : \E o \in Univ2Best(a) : r = RouterRoute(ask, o)
    BY <2>1 DEF Univ2Routes
  <2>3. PICK out \in Univ2Best(a) : r = RouterRoute(ask, out) BY <2>2
  <2>4. out \in Nat BY DEF Univ2Best, Univ2Viable, Univ2Answers
  <2> QED BY <1>1, <1>7, <2>1, <2>3, <2>4, RouterFits
<1>8. CASE ch = "univ3"
  <2>1. ~ask.tron /\ r = [RouterRoute(ask, 2) EXCEPT !.charged = ask.fee]
    BY <1>1, <1>8 DEF RoutesOf, OneChain
  <2> QED BY <1>1, <1>8, <2>1, RouterFits
<1> QED BY <1>2, <1>3, <1>4, <1>5, <1>6, <1>7, <1>8
        DEF Channels, DeviceChannels, ServerChannels, OneChain

-----------------------------------------------------------------------------
(* The verdicts, channel by channel.                                       *)

(* What a final verdict says of a deal.                                    *)
DealTold(v, ch, deal) ==
    /\ v.status = "Succeeded" => deal = "paid" /\ v.hash \in {"", "payment"}
    /\ v.status = "Refunded" =>
         deal = "refunded" /\ (ch \in {"okx", "lifi"} => v.hash \in {"", "refund"})
    /\ v.status = "Failed" => deal \in {"lost", "void", "expired"}

(* What a final verdict says of a source transaction.                      *)
SourceTold(v, ch, source) ==
    /\ v.status = "Succeeded" => source = "ok"
    /\ v.status # "Refunded"
    /\ v.status = "Failed" => source = "failed" \/ ch = "jupiter"

LEMMA VerdictIs ==
    /\ \A status, hash : Verdict(status, hash).status = status /\ Verdict(status, hash).hash = hash
    /\ Pending_.status \notin Final /\ NotFound.status \notin Final /\ NoAnswer.status \notin Final
BY DEF Verdict, Pending_, NotFound, NoAnswer, Final

LEMMA HashesAre ==
    ASSUME NEW deal \in Deals, NEW ch
    PROVE  /\ deal = "paid" => ToHashes(ch, deal) = {"", "payment"}
           /\ deal = "refunded" /\ ch = "lifi" => ToHashes(ch, deal) = {"", "refund"}
           /\ deal = "refunded" => RefundHashes(deal) = {"", "refund"}
BY DEF ToHashes, RefundHashes

LEMMA BridgersTells ==
    ASSUME NEW deal \in Deals, NEW r, r.status \in BridgersWords[deal],
           r.to \in ToHashes("bridgers", deal), r.refund \in RefundHashes(deal),
           BridgersStatus(r).status \in Final
    PROVE  DealTold(BridgersStatus(r), "bridgers", deal)
<1> DEFINE v == BridgersStatus(r)
<1>1. r.status # "415" BY VerdictIs DEF BridgersStatus
<1>2. v.status = BridgersMeaning(r.status)
      /\ (v.status = "Succeeded" => v.hash = r.to)
  <2>1. PICK m, h : /\ m = BridgersMeaning(r.status) /\ v = Verdict(m, h)
                    /\ (m = "Succeeded" => h = r.to)
    BY <1>1 DEF BridgersStatus
  <2> HIDE DEF v
  <2>2. v.status = m /\ v.hash = h BY <2>1, VerdictIs, Zenon
  <2> QED BY <2>1, <2>2
<1>3. /\ v.status = "Succeeded" => r.status = "receive_complete"
      /\ v.status = "Refunded" => r.status = "refund_complete"
      /\ v.status = "Failed" => r.status \in {"wait_deposit_send_fail", "timeout"}
  BY <1>2 DEF BridgersMeaning
<1>4. /\ r.status = "receive_complete" => deal = "paid"
      /\ r.status = "refund_complete" => deal = "refunded"
      /\ r.status \in {"wait_deposit_send_fail", "timeout"} => deal \in {"void", "expired"}
  BY DEF BridgersWords, Deals
<1> HIDE DEF v
<1>5. DealTold(v, "bridgers", deal) BY <1>2, <1>3, <1>4, HashesAre DEF DealTold
<1> QED BY <1>5 DEF v

LEMMA BungeeTells ==
    ASSUME NEW deal \in Deals, NEW r, r.status \in BungeeWords[deal],
           r.to \in ToHashes("bungee", deal), BungeeStatus(r).status \in Final
    PROVE  DealTold(BungeeStatus(r), "bungee", deal)
<1> DEFINE v == BungeeStatus(r)
<1>1. /\ v.status = "Succeeded" => r.status = "COMPLETED" /\ v.hash = r.to
      /\ v.status = "Refunded" => r.status = "REFUNDED"
      /\ v.status = "Failed" => r.status \in {"FAILED", "EXPIRED"}
  <2>1. \/ v = NotFound \/ v = Pending_
        \/ r.status = "COMPLETED" /\ v = Verdict("Succeeded", r.to)
        \/ r.status = "REFUNDED" /\ \E h : v = Verdict("Refunded", h)
        \/ r.status \in {"FAILED", "EXPIRED"} /\ v = Verdict("Failed", "")
    BY DEF BungeeStatus
  <2>2. v.status \in Final OBVIOUS
  <2> HIDE DEF v
  <2>3. CASE v = NotFound \/ v = Pending_ BY <2>2, <2>3, VerdictIs
  <2>4. CASE r.status = "COMPLETED" /\ v = Verdict("Succeeded", r.to) BY <2>4, VerdictIs
  <2>5. CASE r.status = "REFUNDED" /\ \E h : v = Verdict("Refunded", h) BY <2>5, VerdictIs
  <2>6. CASE r.status \in {"FAILED", "EXPIRED"} /\ v = Verdict("Failed", "") BY <2>6, VerdictIs
  <2> QED BY <2>1, <2>3, <2>4, <2>5, <2>6
<1>2. /\ r.status = "COMPLETED" => deal = "paid"
      /\ r.status = "REFUNDED" => deal = "refunded"
      /\ r.status \in {"FAILED", "EXPIRED"} => deal \in {"lost", "void", "expired"}
  BY DEF BungeeWords, Deals
<1> HIDE DEF v
<1>3. DealTold(v, "bungee", deal) BY <1>1, <1>2, HashesAre DEF DealTold
<1> QED BY <1>3 DEF v

LEMMA LifiTells ==
    ASSUME NEW deal \in Deals, NEW r, r.status \in LifiWords[deal],
           r.to \in ToHashes("lifi", deal), LifiStatus(r).status \in Final
    PROVE  DealTold(LifiStatus(r), "lifi", deal)
<1> DEFINE v == LifiStatus(r)
<1>1. /\ v.status = "Succeeded" => r.status = "DONE" /\ v.hash = r.to
      /\ v.status = "Refunded" => r.status \in {"DONE/REFUNDED", "FAILED/REFUNDED"} /\ v.hash = r.to
      /\ v.status = "Failed" => r.status \in {"FAILED", "INVALID"}
  BY VerdictIs DEF LifiStatus, Final
<1>2. /\ r.status = "DONE" => deal = "paid"
      /\ r.status \in {"DONE/REFUNDED", "FAILED/REFUNDED"} => deal = "refunded"
      /\ r.status \in {"FAILED", "INVALID"} => deal \in {"lost", "void"}
  BY DEF LifiWords, Deals
<1> HIDE DEF v
<1>3. DealTold(v, "lifi", deal) BY <1>1, <1>2, HashesAre DEF DealTold
<1> QED BY <1>3 DEF v

LEMMA OkxCrossTells ==
    ASSUME NEW deal \in Deals, NEW r, r.status \in OkxWords[deal],
           r.to \in ToHashes("okx", deal), r.refund \in RefundHashes(deal),
           OkxCrossStatus(r).status \in Final
    PROVE  DealTold(OkxCrossStatus(r), "okx", deal)
<1> DEFINE v == OkxCrossStatus(r)
<1>1. /\ v.status = "Succeeded" => r.status = "SUCCESS" /\ v.hash = r.to
      /\ v.status = "Refunded" => r.status = "REFUNDED" /\ v.hash = r.refund
      /\ v.status # "Failed"
  <2>1. CASE r.status \in {"empty", "NOT_FOUND"}
    <3>1. v = NotFound BY <2>1 DEF OkxCrossStatus
    <3> QED BY <3>1, VerdictIs
  <2>2. CASE r.status = "SUCCESS"
    <3>1. v = NoAnswer \/ v = Verdict("Succeeded", r.to) BY <2>2 DEF OkxCrossStatus
    <3> QED BY <2>2, <3>1, VerdictIs
  <2>3. CASE r.status = "REFUNDED"
    <3>1. v = Pending_ \/ v = Verdict("Refunded", r.refund) BY <2>3 DEF OkxCrossStatus
    <3> QED BY <2>3, <3>1, VerdictIs
  <2>4. CASE r.status \notin {"empty", "NOT_FOUND", "SUCCESS", "REFUNDED"}
    <3>1. v = Pending_ BY <2>4 DEF OkxCrossStatus
    <3> QED BY <3>1, VerdictIs
  <2> QED BY <2>1, <2>2, <2>3, <2>4
<1>2. /\ r.status = "SUCCESS" => deal = "paid"
      /\ r.status = "REFUNDED" => deal = "refunded"
  BY DEF OkxWords, Deals
<1> HIDE DEF v
<1>3. DealTold(v, "okx", deal) BY <1>1, <1>2, HashesAre DEF DealTold
<1> QED BY <1>3 DEF v

LEMMA OkxHistoryTells ==
    ASSUME NEW source \in Sources, NEW r, r.status \in HistoryWords[source],
           OkxHistoryStatus(r).status \in Final
    PROVE  SourceTold(OkxHistoryStatus(r), "okx", source)
<1> DEFINE v == OkxHistoryStatus(r)
<1>1. /\ v.status = "Succeeded" => r.status = "success"
      /\ v.status # "Refunded"
      /\ v.status = "Failed" => r.status = "fail"
  BY VerdictIs DEF OkxHistoryStatus, Final
<1>2. (r.status = "success" => source = "ok") /\ (r.status = "fail" => source = "failed")
  BY DEF HistoryWords, Sources
<1> QED BY <1>1, <1>2 DEF SourceTold

LEMMA JupiterTells ==
    ASSUME NEW source \in Sources, NEW r, r.status \in SolanaWords[source],
           JupiterStatus(r).status \in Final
    PROVE  SourceTold(JupiterStatus(r), "jupiter", source)
<1> DEFINE v == JupiterStatus(r)
<1>1. /\ v.status = "Succeeded" => r.status \in {"confirmed", "finalized"}
      /\ v.status # "Refunded"
  BY VerdictIs DEF JupiterStatus, Final
<1>2. r.status \in {"confirmed", "finalized"} => source = "ok"
  BY DEF SolanaWords, Sources
<1> QED BY <1>1, <1>2 DEF SourceTold

LEMMA ReceiptTells ==
    ASSUME NEW source \in Sources, NEW r, r.status \in ReceiptWords[source], NEW ch,
           Univ2Status(r).status \in Final
    PROVE  SourceTold(Univ2Status(r), ch, source)
<1> DEFINE v == Univ2Status(r)
<1>1. /\ v.status = "Succeeded" => r.status = "1"
      /\ v.status # "Refunded"
      /\ v.status = "Failed" => r.status \notin {"1", "absent"}
  BY VerdictIs DEF Univ2Status, Final
<1>2. (r.status = "1" => source = "ok") /\ (r.status \notin {"1", "absent"} => source = "failed")
  BY DEF ReceiptWords, Sources
<1> QED BY <1>1, <1>2 DEF SourceTold

FateIs(v, t) == IF Brokered(t) THEN DealTold(v, t.ch, t.deal) ELSE SourceTold(v, t.ch, t.source)

LEMMA StatusTells ==
    ASSUME NEW t, t.ch \in Channels, t.ask.cross \in BOOLEAN, t.deal \in Deals,
           t.source \in Sources, NEW r \in Replies(t),
           StatusOf(t.ch, t.ask.cross, t.ask.tron, r).status \in Final
    PROVE  FateIs(StatusOf(t.ch, t.ask.cross, t.ask.tron, r), t)
<1> DEFINE v == StatusOf(t.ch, t.ask.cross, t.ask.tron, r)
<1>1. r # Unreachable
  <2>1. r = Unreachable => v = NoAnswer BY DEF StatusOf
  <2> QED BY <2>1, VerdictIs
<1>2. r.status \in Words(t) /\ r.to \in ToHashes(t.ch, t.deal) /\ r.refund \in RefundHashes(t.deal)
  BY <1>1 DEF Replies
<1>3. CASE t.ch = "bridgers"
  <2>1. v = BridgersStatus(r) BY <1>1, <1>3 DEF StatusOf
  <2>2. Words(t) = BridgersWords[t.deal] BY <1>3 DEF Words
  <2>3. DealTold(v, "bridgers", t.deal) BY <1>2, <1>3, <2>1, <2>2, BridgersTells
  <2> QED BY <1>3, <2>3 DEF FateIs, Brokered
<1>4. CASE t.ch = "bungee"
  <2>1. v = BungeeStatus(r) BY <1>1, <1>4 DEF StatusOf
  <2>2. Words(t) = BungeeWords[t.deal] BY <1>4 DEF Words
  <2>3. DealTold(v, "bungee", t.deal) BY <1>2, <1>4, <2>1, <2>2, BungeeTells
  <2> QED BY <1>4, <2>3 DEF FateIs, Brokered
<1>5. CASE t.ch = "lifi"
  <2>1. v = LifiStatus(r) BY <1>1, <1>5 DEF StatusOf
  <2>2. Words(t) = LifiWords[t.deal] BY <1>5 DEF Words
  <2>3. DealTold(v, "lifi", t.deal) BY <1>2, <1>5, <2>1, <2>2, LifiTells
  <2> QED BY <1>5, <2>3 DEF FateIs, Brokered
<1>6. CASE t.ch = "okx"
  <2>1. v = OkxStatus(t.ask.cross, t.ask.tron, r) BY <1>1, <1>6 DEF StatusOf
  <2>2. v.status # NoAnswer.status BY VerdictIs
  <2>3. ~t.ask.tron BY <2>1, <2>2 DEF OkxStatus
  <2>4. CASE t.ask.cross
    <3>1. v = OkxCrossStatus(r) BY <2>1, <2>3, <2>4 DEF OkxStatus
    <3>2. Words(t) = OkxWords[t.deal] BY <1>6, <2>4 DEF Words
    <3>3. DealTold(v, "okx", t.deal) BY <1>2, <1>6, <3>1, <3>2, OkxCrossTells
    <3> QED BY <1>6, <2>4, <3>3 DEF FateIs, Brokered
  <2>5. CASE ~t.ask.cross
    <3>1. v = OkxHistoryStatus(r) BY <2>1, <2>3, <2>5 DEF OkxStatus
    <3>2. Words(t) = HistoryWords[t.source] BY <1>6, <2>5 DEF Words
    <3>3. SourceTold(v, "okx", t.source) BY <1>2, <3>1, <3>2, OkxHistoryTells
    <3> QED BY <1>6, <2>5, <3>3 DEF FateIs, Brokered
  <2> QED BY <2>4, <2>5
<1>7. CASE t.ch = "jupiter"
  <2>1. v = JupiterStatus(r) BY <1>1, <1>7 DEF StatusOf
  <2>2. Words(t) = SolanaWords[t.source] BY <1>7 DEF Words
  <2>3. SourceTold(v, "jupiter", t.source) BY <1>2, <2>1, <2>2, JupiterTells
  <2> QED BY <1>7, <2>3 DEF FateIs, Brokered
<1>8. CASE t.ch \in {"univ2", "univ3"}
  <2>1. v = Univ2Status(r) BY <1>1, <1>8 DEF StatusOf, Univ3Status
  <2>2. Words(t) = ReceiptWords[t.source] BY <1>8 DEF Words
  <2>3. SourceTold(v, t.ch, t.source) BY <1>2, <2>1, <2>2, ReceiptTells
  <2> QED BY <1>8, <2>3 DEF FateIs, Brokered
<1> QED BY <1>3, <1>4, <1>5, <1>6, <1>7, <1>8
        DEF Channels, DeviceChannels, ServerChannels, OneChain

-----------------------------------------------------------------------------
(* The trade.                                                              *)

Stages == {"taken", "quoted", "sent"}

(* The fields of a trade that has been taken.                              *)
TradeTypes(t) ==
    /\ t = [stage |-> t.stage, ch |-> t.ch, ask |-> t.ask, route |-> t.route,
            order |-> t.order, source |-> t.source, deal |-> t.deal, verdict |-> t.verdict]
    /\ t.stage \in Stages /\ t.ch \in Channels
    /\ t.ask.cross \in BOOLEAN
    /\ t.source \in Sources /\ t.deal \in Deals

(* The route of a quoted trade fits the request, and is one that only OKX  *)
(* has if it is still to be built; a verdict is there when a trade was     *)
(* sent, and it is the fate of the trade.                                  *)
TradeInv ==
    trade = NoTrade \/
    /\ TradeTypes(trade)
    /\ trade.stage = "quoted" =>
         /\ trade.ask \in Asks
         /\ Fits(trade.ch, trade.ask, trade.route)
         /\ trade.route.build => trade.ch = "okx"
    /\ trade.verdict = Pending_ \/ trade.verdict.status \in Final
    /\ trade.verdict # Pending_ => trade.stage = "sent" /\ FateIs(trade.verdict, trade)

IInv == EngineInv /\ TradeInv

(* A trade that has a verdict keeps it: what is told of the trade is so    *)
(* for good.                                                               *)
LEMMA FateStays ==
    ASSUME NEW v, NEW ch, NEW deal \in Deals, NEW source \in Sources, v.status \in Final
    PROVE  /\ DealTold(v, ch, deal) => Becomes(deal, source) = {}
           /\ SourceTold(v, ch, source) /\ source = "pool" => ch = "jupiter" /\ v.status = "Failed"
<1>1. ASSUME DealTold(v, ch, deal) PROVE Becomes(deal, source) = {}
  <2>1. deal \in {"paid", "refunded", "lost", "void", "expired"} BY <1>1 DEF DealTold, Final
  <2> QED BY <2>1 DEF Becomes
<1>2. SourceTold(v, ch, source) /\ source = "pool" => ch = "jupiter" /\ v.status = "Failed"
  BY DEF SourceTold, Final
<1> QED BY <1>1, <1>2

LEMMA NoTradeIs == NoTrade.stage = "none"
BY DEF NoTrade

LEMMA TakeStep == IInv /\ Take => IInv'
<1> SUFFICES ASSUME IInv, Take PROVE IInv' OBVIOUS
<1>1. EngineInv' BY EngineDropped DEF Take
<1>2. EngineTypes BY DEF IInv, EngineInv
<1>3. PICK i \in ToSet(resp.routes) : \E p \in Dispatched(cands[i].cross) :
         trade' = Taken(p.ch, cands[i].cross)
  BY DEF Take
<1>4. PICK p \in Dispatched(cands[i].cross) : trade' = Taken(p.ch, cands[i].cross) BY <1>3
<1>5. p.ch \in Channels BY DEF Dispatched, Channels
<1>6. i \in Routed
  <2>1. resp # NoResponse BY DEF Take, Responded
  <2> QED BY <2>1, ToldRoutes DEF IInv, EngineInv
<1>7. cands[i].cross \in BOOLEAN BY <1>2, <1>6, CandIs DEF Routed
<1>8. PICK cross, ch : cross = cands[i].cross /\ ch = p.ch OBVIOUS
<1>9. trade' = Taken(ch, cross) BY <1>4, <1>8
<1>10. TradeTypes(trade')
  BY <1>5, <1>7, <1>8, <1>9 DEF Taken, TradeTypes, Stages, NoAsk, Sources, Deals
<1>11. trade'.stage = "taken" /\ trade'.verdict = Pending_ BY <1>9 DEF Taken
<1> QED BY <1>1, <1>10, <1>11 DEF IInv, TradeInv

(* The other steps leave the engine alone.                                 *)
LEMMA EngineRests == EngineInv /\ UNCHANGED engineVars => EngineInv'
BY DEF EngineInv, EngineTypes, engineVars, AllDone, Told, Codes, Without, Unrouted

LEMMA NotNone ==
    ASSUME TradeInv, trade.stage # "none"
    PROVE  /\ TradeTypes(trade)
           /\ trade.stage = "quoted" =>
                /\ trade.ask \in Asks
                /\ Fits(trade.ch, trade.ask, trade.route)
                /\ trade.route.build => trade.ch = "okx"
           /\ trade.verdict = Pending_ \/ trade.verdict.status \in Final
           /\ trade.verdict # Pending_ => trade.stage = "sent" /\ FateIs(trade.verdict, trade)
BY NoTradeIs DEF TradeInv

LEMMA QuotedStep == TradeInv /\ Quoted => TradeInv'
<1> SUFFICES ASSUME TradeInv, Quoted PROVE TradeInv' OBVIOUS
<1>1. trade.stage = "taken" BY DEF Quoted
<1>2. TradeTypes(trade) /\ trade.verdict = Pending_ BY <1>1, NotNone
<1>3. PICK ask \in AsksOf(trade.ch, trade.ask.cross) : \E r \in RoutesOf(trade.ch, ask) :
         trade' = [trade EXCEPT !.stage = "quoted", !.ask = ask, !.route = r]
  BY DEF Quoted
<1>4. PICK r \in RoutesOf(trade.ch, ask) :
         trade' = [trade EXCEPT !.stage = "quoted", !.ask = ask, !.route = r]
  BY <1>3
<1>5. Fits(trade.ch, ask, r) /\ (r.build => trade.ch = "okx")
  <2>1. PICK ch, cross : ch = trade.ch /\ cross = trade.ask.cross OBVIOUS
  <2> QED BY <1>2, <2>1, RoutesFit DEF TradeTypes
<1>6. ask \in Asks /\ ask.cross \in BOOLEAN BY DEF AsksOf, Asks
<1>7. trade' = [stage |-> "quoted", ch |-> trade.ch, ask |-> ask, route |-> r,
                order |-> trade.order, source |-> trade.source, deal |-> trade.deal,
                verdict |-> trade.verdict]
  BY <1>2, <1>4 DEF TradeTypes
<1>8. TradeTypes(trade') BY <1>2, <1>6, <1>7 DEF TradeTypes, Stages
<1> QED BY <1>2, <1>5, <1>6, <1>7, <1>8 DEF TradeInv

LEMMA BuildTxStep == TradeInv /\ BuildTx => TradeInv'
<1> SUFFICES ASSUME TradeInv, BuildTx PROVE TradeInv' OBVIOUS
<1>1. trade.stage = "quoted" /\ trade.route.build BY DEF BuildTx
<1>2. /\ TradeTypes(trade) /\ trade.verdict = Pending_
      /\ trade.ask \in Asks /\ trade.ch = "okx"
  BY <1>1, NotNone
<1>3. PICK r \in OkxSingle(trade.ask) : trade' = [trade EXCEPT !.route = r] BY DEF BuildTx
<1>4. Fits("okx", trade.ask, r) BY <1>2, OkxSingleFits
<1>5. trade' = [stage |-> trade.stage, ch |-> trade.ch, ask |-> trade.ask, route |-> r,
                order |-> trade.order, source |-> trade.source, deal |-> trade.deal,
                verdict |-> trade.verdict]
  BY <1>2, <1>3 DEF TradeTypes
<1>6. TradeTypes(trade') BY <1>2, <1>5 DEF TradeTypes
<1> QED BY <1>2, <1>4, <1>5, <1>6 DEF TradeInv

LEMMA SendStep == TradeInv /\ Send => TradeInv'
<1> SUFFICES ASSUME TradeInv, Send PROVE TradeInv' OBVIOUS
<1>1. trade.stage = "quoted" BY DEF Send
<1>2. TradeTypes(trade) /\ trade.verdict = Pending_ BY <1>1, NotNone
<1>3. PICK ask : ask = [NoAsk EXCEPT !.cross = trade.ask.cross, !.tron = trade.ask.tron]
  OBVIOUS
<1>4. ask.cross = trade.ask.cross BY <1>3 DEF NoAsk
<1>5. trade' = [trade EXCEPT !.stage = "sent", !.route = NoRoute, !.ask = ask]
  BY <1>3 DEF Send
<1>6. trade' = [stage |-> "sent", ch |-> trade.ch, ask |-> ask, route |-> NoRoute,
                order |-> trade.order, source |-> trade.source, deal |-> trade.deal,
                verdict |-> trade.verdict]
  BY <1>2, <1>5 DEF TradeTypes
<1>7. TradeTypes(trade') BY <1>2, <1>4, <1>6 DEF TradeTypes, Stages
<1> QED BY <1>2, <1>6, <1>7 DEF TradeInv

LEMMA SubmitStep == \A answered : TradeInv /\ Submit(answered) => TradeInv'
<1> SUFFICES ASSUME NEW answered, TradeInv, Submit(answered) PROVE TradeInv' OBVIOUS
<1>1. trade.stage = "sent" BY DEF Submit
<1>2. TradeTypes(trade) BY <1>1, NotNone
<1>3. PICK o : trade' = [trade EXCEPT !.order = o] BY DEF Submit
<1>4. trade' = [stage |-> trade.stage, ch |-> trade.ch, ask |-> trade.ask,
                route |-> trade.route, order |-> o, source |-> trade.source,
                deal |-> trade.deal, verdict |-> trade.verdict]
  BY <1>2, <1>3 DEF TradeTypes
<1>5. TradeTypes(trade') BY <1>2, <1>4 DEF TradeTypes
<1>6. trade'.verdict = trade.verdict /\ trade'.stage = "sent" BY <1>1, <1>4
<1>7. trade.verdict = Pending_ \/ trade.verdict.status \in Final BY <1>1, NotNone
<1>8. trade.verdict # Pending_ => FateIs(trade.verdict, trade')
  BY <1>1, <1>4, NotNone DEF FateIs, Brokered
<1> QED BY <1>1, <1>5, <1>6, <1>7, <1>8 DEF TradeInv

LEMMA MineStep == TradeInv /\ Mine => TradeInv'
<1> SUFFICES ASSUME TradeInv, Mine PROVE TradeInv' OBVIOUS
<1>1. trade.stage = "sent" /\ trade.source = "pool" BY DEF Mine
<1>2. TradeTypes(trade) BY <1>1, NotNone
<1>3. PICK s \in {"ok", "failed", "dropped"} : trade' = [trade EXCEPT !.source = s] BY DEF Mine
<1>4. trade' = [stage |-> trade.stage, ch |-> trade.ch, ask |-> trade.ask,
                route |-> trade.route, order |-> trade.order, source |-> s,
                deal |-> trade.deal, verdict |-> trade.verdict]
  BY <1>2, <1>3 DEF TradeTypes
<1>5. TradeTypes(trade') BY <1>2, <1>4 DEF TradeTypes, Sources
<1>6. trade'.verdict = trade.verdict /\ trade'.stage = "sent" BY <1>1, <1>4
<1>7. trade.verdict = Pending_ \/ trade.verdict.status \in Final BY <1>1, NotNone
<1>8. trade.verdict # Pending_ => FateIs(trade.verdict, trade')
  <2> SUFFICES ASSUME trade.verdict # Pending_ PROVE FateIs(trade.verdict, trade') OBVIOUS
  <2>1. FateIs(trade.verdict, trade) /\ trade.verdict.status \in Final BY <1>1, NotNone
  <2>2. Brokered(trade') = Brokered(trade) /\ trade'.ch = trade.ch /\ trade'.deal = trade.deal
    BY <1>4 DEF Brokered
  <2>3. CASE Brokered(trade) BY <2>1, <2>2, <2>3 DEF FateIs
  <2>4. CASE ~Brokered(trade)
    <3>1. SourceTold(trade.verdict, trade.ch, trade.source) BY <2>1, <2>4 DEF FateIs
    <3>2. trade.ch = "jupiter" /\ trade.verdict.status = "Failed"
      BY <1>1, <2>1, <3>1 DEF SourceTold, Final
    <3>3. SourceTold(trade.verdict, trade'.ch, trade'.source) BY <2>2, <3>2 DEF SourceTold
    <3> QED BY <2>2, <2>4, <3>3 DEF FateIs
  <2> QED BY <2>3, <2>4
<1> QED BY <1>1, <1>5, <1>6, <1>7, <1>8 DEF TradeInv

LEMMA ProvideStep == TradeInv /\ Provide => TradeInv'
<1> SUFFICES ASSUME TradeInv, Provide PROVE TradeInv' OBVIOUS
<1>1. trade.stage = "sent" /\ Brokered(trade) BY DEF Provide
<1>2. TradeTypes(trade) BY <1>1, NotNone
<1>3. PICK d \in Becomes(trade.deal, trade.source) : trade' = [trade EXCEPT !.deal = d]
  BY DEF Provide
<1>4. trade' = [stage |-> trade.stage, ch |-> trade.ch, ask |-> trade.ask,
                route |-> trade.route, order |-> trade.order, source |-> trade.source,
                deal |-> d, verdict |-> trade.verdict]
  BY <1>2, <1>3 DEF TradeTypes
<1>5. d \in Deals BY DEF Becomes, Deals
<1>6. TradeTypes(trade') BY <1>2, <1>4, <1>5 DEF TradeTypes
<1>7. trade.verdict = Pending_
  <2> SUFFICES ASSUME trade.verdict # Pending_ PROVE FALSE OBVIOUS
  <2>1. FateIs(trade.verdict, trade) /\ trade.verdict.status \in Final BY <1>1, NotNone
  <2>2. DealTold(trade.verdict, trade.ch, trade.deal) BY <1>1, <2>1 DEF FateIs
  <2>3. PICK v, ch, deal, source : /\ v = trade.verdict /\ ch = trade.ch
                                   /\ deal = trade.deal /\ source = trade.source
    OBVIOUS
  <2>4. deal \in Deals /\ source \in Sources BY <1>2, <2>3 DEF TradeTypes
  <2> QED BY <2>1, <2>2, <2>3, <2>4, FateStays
<1>8. trade'.verdict = Pending_ /\ trade'.stage = "sent" BY <1>1, <1>4, <1>7
<1> QED BY <1>6, <1>8 DEF TradeInv

LEMMA PollStep == TradeInv /\ Poll => TradeInv'
<1> SUFFICES ASSUME TradeInv, Poll PROVE TradeInv' OBVIOUS
<1>1. trade.stage = "sent" BY DEF Poll
<1>2. TradeTypes(trade) BY <1>1, NotNone
<1>3. PICK r \in Replies(trade) :
         LET v == StatusOf(trade.ch, trade.ask.cross, trade.ask.tron, r)
         IN v.status \in Final /\ trade' = [trade EXCEPT !.verdict = v]
  BY DEF Poll
<1>4. PICK v : v = StatusOf(trade.ch, trade.ask.cross, trade.ask.tron, r) OBVIOUS
<1>5. v.status \in Final /\ trade' = [trade EXCEPT !.verdict = v] BY <1>3, <1>4
<1>6. trade' = [stage |-> trade.stage, ch |-> trade.ch, ask |-> trade.ask,
                route |-> trade.route, order |-> trade.order, source |-> trade.source,
                deal |-> trade.deal, verdict |-> v]
  BY <1>2, <1>5 DEF TradeTypes
<1>7. TradeTypes(trade') BY <1>2, <1>6 DEF TradeTypes
<1>8. FateIs(v, trade)
  <2>1. PICK t : t = trade OBVIOUS
  <2> QED BY <1>2, <1>4, <1>5, <2>1, StatusTells DEF TradeTypes
<1>9. FateIs(v, trade') BY <1>6, <1>8 DEF FateIs, Brokered
<1>10. trade'.verdict = v /\ trade'.stage = "sent" BY <1>1, <1>6
<1> QED BY <1>5, <1>7, <1>9, <1>10 DEF TradeInv

LEMMA TradeStarts == TradeInit => IInv
BY EngineStarts DEF TradeInit, IInv, TradeInv

LEMMA TradeStep == IInv /\ [TradeNext]_tradeVars => IInv'
<1> SUFFICES ASSUME IInv, [TradeNext]_tradeVars PROVE IInv' OBVIOUS
<1> USE DEF IInv
<1>1. CASE AutoQuote
  <2>1. EngineInv' BY <1>1, EngineStep DEF AutoQuote
  <2>2. TradeInv' BY <1>1 DEF AutoQuote, TradeInv
  <2> QED BY <2>1, <2>2
<1>2. CASE Take BY <1>2, TakeStep
<1>3. CASE Quoted BY <1>3, QuotedStep, EngineRests DEF Quoted
<1>4. CASE BuildTx BY <1>4, BuildTxStep, EngineRests DEF BuildTx
<1>5. CASE Send BY <1>5, SendStep, EngineRests DEF Send
<1>6. CASE \E answered \in BOOLEAN : Submit(answered)
  BY <1>6, SubmitStep, EngineRests DEF Submit
<1>7. CASE Mine BY <1>7, MineStep, EngineRests DEF Mine
<1>8. CASE Provide BY <1>8, ProvideStep, EngineRests DEF Provide
<1>9. CASE Poll BY <1>9, PollStep, EngineRests DEF Poll
<1>10. CASE UNCHANGED tradeVars
  <2>1. UNCHANGED engineVars /\ trade' = trade BY <1>10 DEF tradeVars
  <2>2. TradeInv' BY <2>1 DEF TradeInv, TradeTypes, Fits, FateIs, Brokered, DealTold, SourceTold
  <2> QED BY <2>1, <2>2, EngineRests
<1> QED BY <1>1, <1>2, <1>3, <1>4, <1>5, <1>6, <1>7, <1>8, <1>9, <1>10 DEF TradeNext

LEMMA TradeSays == IInv => RouteBounded /\ FateTold
<1> SUFFICES ASSUME IInv PROVE RouteBounded /\ FateTold OBVIOUS
<1>1. RouteBounded
  <2> SUFFICES ASSUME trade.stage = "quoted" PROVE RouteBounded BY DEF RouteBounded
  <2>1. Fits(trade.ch, trade.ask, trade.route) BY NotNone DEF IInv
  <2> QED BY <2>1 DEF Fits, RouteBounded
<1>2. FateTold
  <2> SUFFICES ASSUME trade.stage = "sent" PROVE FateTold BY DEF FateTold
  <2>1. CASE trade.verdict = Pending_
    <3>1. Pending_.status = "Pending" BY DEF Pending_, Verdict
    <3>2. trade.verdict.status = "Pending" BY <2>1, <3>1
    <3> QED BY <3>2 DEF FateTold
  <2>2. CASE trade.verdict # Pending_
    <3>1. FateIs(trade.verdict, trade) BY <2>2, NotNone DEF IInv
    <3>2. CASE Brokered(trade)
      BY <3>1, <3>2 DEF FateIs, DealTold, FateTold
    <3>3. CASE ~Brokered(trade)
      BY <3>1, <3>3 DEF FateIs, SourceTold, FateTold
    <3> QED BY <3>2, <3>3
  <2> QED BY <2>1, <2>2
<1> QED BY <1>1, <1>2

-----------------------------------------------------------------------------
(* The invariant holds from the first request to the last answer.          *)
THEOREM TradeKept == TradeSpec => []IInv
<1>1. TradeInit => IInv BY TradeStarts
<1>2. IInv /\ [TradeNext]_tradeVars => IInv' BY TradeStep
<1> QED BY <1>1, <1>2, PTL DEF TradeSpec

(* Engine.Quote: for every set of candidates, whatever the channels answer *)
(* and in whatever order they do, every candidate becomes one route or one *)
(* failure, the route that is recommended is the first, carries no warning *)
(* and is worth no less than any other without one, and it is there when   *)
(* there is such a route.                                                  *)
THEOREM RecommendsBest == TradeSpec => []RecommendedIsBest
<1>1. IInv => RecommendedIsBest BY EngineSays DEF IInv
<1> QED BY <1>1, TradeKept, PTL

(* Engine.Quote: a response without a route says why, and it does not say  *)
(* that there is none when a channel failed or ran into the deadline.      *)
THEOREM ExplainsWhy == TradeSpec => []ReasonExplains
<1>1. IInv => ReasonExplains BY EngineSays DEF IInv
<1> QED BY <1>1, TradeKept, PTL

(* The channel clients: for every amount, slippage and fee limit, no       *)
(* answer of a provider becomes a route that asks for a greater allowance, *)
(* payment or fee limit, or shows a minimum that its call does not keep.   *)
THEOREM BoundsRoutes == TradeSpec => []RouteBounded
<1>1. IInv => RouteBounded BY TradeSays
<1> QED BY <1>1, TradeKept, PTL

(* CheckTx: whenever a wallet asks and whatever it is told, a verdict it   *)
(* ends with is, and stays, what became of the swap.                       *)
THEOREM TellsFate == TradeSpec => []FateTold
<1>1. IInv => FateTold BY TradeSays
<1> QED BY <1>1, TradeKept, PTL

==============================================================================
