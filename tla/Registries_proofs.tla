-------------------------- MODULE Registries_proofs --------------------------
(* The registries, for any providers, adapters, assets and chains: what a      *)
(* composition pinned keeps its meaning, and the two lists are the registry.   *)
(* And the worker over them, for any lists, disturbances and crashes: a run    *)
(* that ended with nobody interfering leaves the registry as the list says.    *)
EXTENDS ProviderSync, FiniteSetTheorems, TLAPS


(* Entries of the registries themselves.                                       *)
EntriesOK ==
  /\ DOMAIN assets \subseteq Assets /\ assets \in [DOMAIN assets -> Statuses]
  /\ DOMAIN providers \subseteq Providers /\ providers \in [DOMAIN providers -> Provider]
  /\ DOMAIN reps \subseteq RepIds /\ reps \in [DOMAIN reps -> Representation]

ListsOK == repsByAsset \in [Assets -> Seq(RepIds)] /\ repsByProvider \in [Providers -> Seq(RepIds)]

(* What a step keeps of the representations there are, but for those in S.     *)
Pins == \A id \in DOMAIN reps : /\ id \in DOMAIN reps'
                                /\ reps'[id].asset = reps[id].asset
                                /\ reps'[id].multiplier = reps[id].multiplier

LEMMA TypeIsParts == RegistryTypeOK <=> EntriesOK /\ ListsOK
  BY DEF RegistryTypeOK, EntriesOK, ListsOK

----------------------------------------------------------------------------
(* A representation's status and feed may change; the rest of it does not.     *)
LEMMA FieldsStay ==
  ASSUME EntriesOK, NEW id \in DOMAIN reps, NEW new \in Representation,
         new.asset = reps[id].asset, new.multiplier = reps[id].multiplier,
         reps' = [reps EXCEPT ![id] = new], UNCHANGED <<assets, providers>>
  PROVE  EntriesOK' /\ Pins /\ DOMAIN reps' = DOMAIN reps
  <1>1. DOMAIN reps' = DOMAIN reps /\ reps' \in [DOMAIN reps' -> Representation]
    BY DEF EntriesOK
  <1>2. Pins
    BY <1>1 DEF Pins, EntriesOK
  <1> QED BY <1>1, <1>2 DEF EntriesOK

(* The lists are what they were when the representations are.                  *)
LEMMA ListsStay ==
  ASSUME EntriesOK, ListsOK, RegistriesConsistent, Pins, DOMAIN reps' = DOMAIN reps,
         UNCHANGED <<repsByAsset, repsByProvider>>,
         DOMAIN assets \subseteq DOMAIN assets', DOMAIN providers \subseteq DOMAIN providers'
  PROVE  ListsOK' /\ RegistriesConsistent'
  <1>1. \A id \in DOMAIN reps : reps'[id].asset = reps[id].asset
    BY DEF Pins
  <1>2. \A a : {id \in DOMAIN reps' : reps'[id].asset = a} = {id \in DOMAIN reps : reps[id].asset = a}
    BY <1>1
  <1>3. \A p : {id \in DOMAIN reps' : ProviderOf(id) = p} = {id \in DOMAIN reps : ProviderOf(id) = p}
    OBVIOUS
  <1>4. \A id \in DOMAIN reps' : reps'[id].asset \in DOMAIN assets' /\ ProviderOf(id) \in DOMAIN providers'
    BY <1>1 DEF RegistriesConsistent, AssetExists
  <1>5. \A a \in Assets : ListsOnce(repsByAsset', {id \in DOMAIN reps : reps[id].asset = a})
           <=> ListsOnce(repsByAsset', {id \in DOMAIN reps' : reps'[id].asset = a})
    BY <1>2
  <1>6. ListsOK'
    BY DEF ListsOK
  <1> QED BY <1>2, <1>3, <1>4, <1>6 DEF RegistriesConsistent, AssetExists

(* A new representation is listed once more in each list.                      *)
LEMMA AppendListsOnce ==
  ASSUME NEW S, NEW row \in Seq(RepIds), NEW id \in RepIds, id \notin S, ListsOnce(row, S)
  PROVE  ListsOnce(Append(row, id), S \cup {id})
  <1> DEFINE new == Append(row, id)
  <1>1. /\ DOMAIN new = DOMAIN row \cup {Len(row) + 1} /\ new[Len(row) + 1] = id
        /\ \A i \in DOMAIN row : new[i] = row[i] /\ i # Len(row) + 1
    OBVIOUS
  <1> HIDE DEF new
  <1>2. {new[i] : i \in DOMAIN new} = {row[i] : i \in DOMAIN row} \cup {id}
    BY <1>1
  <1>3. \A i, j \in DOMAIN new : i # j => new[i] # new[j]
    <2>1. \A i \in DOMAIN row : row[i] # id
      BY DEF ListsOnce
    <2>2. \A i, j \in DOMAIN row : i # j => row[i] # row[j]
      BY DEF ListsOnce
    <2> QED BY <1>1, <2>1, <2>2
  <1>4. ListsOnce(new, S \cup {id})
    BY <1>2, <1>3 DEF ListsOnce
  <1> QED BY <1>4 DEF new

(* What is asked of a new representation.                                      *)
New(p) ==
  /\ p.provider \in Providers /\ p.asset \in Assets /\ p.chain \in Chains /\ p.token \in Tokens
  /\ p.multiplier \in Multipliers \ {0} /\ p.oracle \in Oracles
  /\ RepIdOf(p.provider, p.chain, p.token) \notin DOMAIN reps

LEMMA AdmitEntries ==
  ASSUME EntriesOK, NEW p, New(p), Admit(p),
         DOMAIN assets' \subseteq Assets, assets' \in [DOMAIN assets' -> Statuses], UNCHANGED providers
  PROVE  EntriesOK' /\ Pins
  <1> DEFINE id == RepIdOf(p.provider, p.chain, p.token)
             rep == [asset |-> p.asset, oracle |-> p.oracle,
                     multiplier |-> p.multiplier, status |-> "ACTIVE"]
  <1>1. id \in RepIds /\ id \notin DOMAIN reps
    BY DEF New, RepIdOf, RepIds
  <1>2. rep \in Representation
    BY DEF New, Representation, Statuses
  <1>3. reps' = With(reps, id, rep)
    BY DEF Admit
  <1> HIDE DEF id, rep
  <1>4. /\ DOMAIN reps' = DOMAIN reps \cup {id} /\ reps' \in [DOMAIN reps' -> Representation]
        /\ \A x \in DOMAIN reps : reps'[x] = reps[x]
    BY <1>1, <1>2, <1>3 DEF EntriesOK, With
  <1> QED BY <1>1, <1>4 DEF EntriesOK, Pins

LEMMA AdmitLists ==
  ASSUME EntriesOK, ListsOK, RegistriesConsistent, NEW p, New(p), Admit(p),
         DOMAIN assets \cup {p.asset} \subseteq DOMAIN assets', UNCHANGED providers,
         p.provider \in DOMAIN providers
  PROVE  ListsOK' /\ RegistriesConsistent'
  <1> DEFINE id == RepIdOf(p.provider, p.chain, p.token)
             rep == [asset |-> p.asset, oracle |-> p.oracle,
                     multiplier |-> p.multiplier, status |-> "ACTIVE"]
             of(a) == {x \in DOMAIN reps : reps[x].asset = a}
             from(q) == {x \in DOMAIN reps : ProviderOf(x) = q}
  <1>1. id \in RepIds /\ id \notin DOMAIN reps /\ ProviderOf(id) = p.provider
    BY DEF New, RepIdOf, RepIds, ProviderOf
  <1>2. rep.asset = p.asset /\ p.asset \in Assets /\ p.provider \in Providers
    BY DEF New
  <1>3. /\ reps' = With(reps, id, rep)
        /\ repsByAsset' = [repsByAsset EXCEPT ![p.asset] = Append(@, id)]
        /\ repsByProvider' = [repsByProvider EXCEPT ![p.provider] = Append(@, id)]
    BY DEF Admit
  <1> HIDE DEF id, rep
  <1>4. /\ DOMAIN reps' = DOMAIN reps \cup {id} /\ reps'[id].asset = p.asset
        /\ \A x \in DOMAIN reps : reps'[x] = reps[x]
    BY <1>1, <1>2, <1>3 DEF With
  <1>5. ListsOK'
    BY <1>1, <1>2, <1>3 DEF ListsOK
  <1>6. ASSUME NEW a \in Assets
        PROVE  ListsOnce(repsByAsset'[a], {x \in DOMAIN reps' : reps'[x].asset = a})
    <2>1. ListsOnce(repsByAsset[a], of(a)) /\ repsByAsset[a] \in Seq(RepIds)
      BY DEF RegistriesConsistent, ListsOK
    <2>2. CASE a = p.asset
      <3>1. {x \in DOMAIN reps' : reps'[x].asset = a} = of(a) \cup {id}
        BY <1>4, <2>2
      <3>2. repsByAsset'[a] = Append(repsByAsset[a], id)
        BY <1>3, <2>2 DEF ListsOK
      <3>3. ListsOnce(Append(repsByAsset[a], id), of(a) \cup {id})
        BY <1>1, <2>1, AppendListsOnce
      <3> QED BY <3>1, <3>2, <3>3
    <2>3. CASE a # p.asset
      <3>1. {x \in DOMAIN reps' : reps'[x].asset = a} = of(a)
        BY <1>1, <1>4, <2>3
      <3>2. repsByAsset'[a] = repsByAsset[a]
        BY <1>3, <2>3 DEF ListsOK
      <3> QED BY <2>1, <3>1, <3>2
    <2> QED BY <2>2, <2>3
  <1>7. ASSUME NEW q \in Providers
        PROVE  ListsOnce(repsByProvider'[q], {x \in DOMAIN reps' : ProviderOf(x) = q})
    <2>1. ListsOnce(repsByProvider[q], from(q)) /\ repsByProvider[q] \in Seq(RepIds)
      BY DEF RegistriesConsistent, ListsOK
    <2>2. CASE q = p.provider
      <3>1. {x \in DOMAIN reps' : ProviderOf(x) = q} = from(q) \cup {id}
        BY <1>1, <1>4, <2>2
      <3>2. repsByProvider'[q] = Append(repsByProvider[q], id)
        BY <1>3, <2>2 DEF ListsOK
      <3>3. ListsOnce(Append(repsByProvider[q], id), from(q) \cup {id})
        BY <1>1, <2>1, AppendListsOnce
      <3> QED BY <3>1, <3>2, <3>3
    <2>3. CASE q # p.provider
      <3>1. {x \in DOMAIN reps' : ProviderOf(x) = q} = from(q)
        BY <1>1, <1>4, <2>3
      <3>2. repsByProvider'[q] = repsByProvider[q]
        BY <1>3, <2>3 DEF ListsOK
      <3> QED BY <2>1, <3>1, <3>2
    <2> QED BY <2>2, <2>3
  <1>8. \A x \in DOMAIN reps' : reps'[x].asset \in DOMAIN assets' /\ ProviderOf(x) \in DOMAIN providers'
    BY <1>1, <1>4 DEF RegistriesConsistent, AssetExists
  <1> QED BY <1>5, <1>6, <1>7, <1>8 DEF RegistriesConsistent, AssetExists

----------------------------------------------------------------------------
(* The steps that admit or refresh a representation, an adapter's included.    *)
LEMMA StatusStep ==
  ASSUME EntriesOK, NEW caller, NEW id, NEW s \in Statuses, SetRepresentationStatus(caller, id, s)
  PROVE  /\ EntriesOK' /\ Pins
         /\ ListsOK /\ RegistriesConsistent => ListsOK' /\ RegistriesConsistent'
  <1> DEFINE new == [asset |-> reps[id].asset, oracle |-> reps[id].oracle,
                     multiplier |-> reps[id].multiplier, status |-> s]
  <1>1. id \in DOMAIN reps /\ reps[id] \in Representation
    BY DEF SetRepresentationStatus, RepresentationExists, EntriesOK
  <1>2. new \in Representation /\ new = [reps[id] EXCEPT !.status = s]
    BY <1>1 DEF Representation
  <1>3. /\ reps' = [reps EXCEPT ![id] = new]
        /\ UNCHANGED <<assets, providers, repsByAsset, repsByProvider>>
    BY <1>2 DEF SetRepresentationStatus
  <1>4. new.asset = reps[id].asset /\ new.multiplier = reps[id].multiplier
    OBVIOUS
  <1> HIDE DEF new
  <1>5. EntriesOK' /\ Pins /\ DOMAIN reps' = DOMAIN reps
    BY <1>1, <1>2, <1>3, <1>4, FieldsStay
  <1> QED BY <1>3, <1>5, ListsStay

LEMMA OracleStep ==
  ASSUME EntriesOK, NEW caller, NEW id, NEW o \in Oracles, UpdateOracleMetadata(caller, id, o)
  PROVE  /\ EntriesOK' /\ Pins
         /\ ListsOK /\ RegistriesConsistent => ListsOK' /\ RegistriesConsistent'
  <1> DEFINE new == [asset |-> reps[id].asset, oracle |-> o,
                     multiplier |-> reps[id].multiplier, status |-> reps[id].status]
  <1>1. id \in DOMAIN reps /\ reps[id] \in Representation
    BY DEF UpdateOracleMetadata, RepresentationExists, EntriesOK
  <1>2. new \in Representation /\ new = [reps[id] EXCEPT !.oracle = o]
    BY <1>1 DEF Representation
  <1>3. /\ reps' = [reps EXCEPT ![id] = new]
        /\ UNCHANGED <<assets, providers, repsByAsset, repsByProvider>>
    BY <1>2 DEF UpdateOracleMetadata
  <1>4. new.asset = reps[id].asset /\ new.multiplier = reps[id].multiplier
    OBVIOUS
  <1> HIDE DEF new
  <1>5. EntriesOK' /\ Pins /\ DOMAIN reps' = DOMAIN reps
    BY <1>1, <1>2, <1>3, <1>4, FieldsStay
  <1> QED BY <1>3, <1>5, ListsStay

LEMMA RegisterStep ==
  ASSUME EntriesOK, NEW caller,
         NEW p \in [provider : Providers, asset : Assets, chain : Chains, token : Tokens,
                    multiplier : Multipliers, oracle : Oracles, decimals : Decimals],
         RegisterRepresentation(caller, p)
  PROVE  /\ EntriesOK' /\ Pins
         /\ ListsOK /\ RegistriesConsistent => ListsOK' /\ RegistriesConsistent'
  <1>1. /\ p.provider \in DOMAIN providers /\ IsActiveAsset(p.asset) /\ p.multiplier # 0
        /\ RepIdOf(p.provider, p.chain, p.token) \notin DOMAIN reps
        /\ Admit(p) /\ UNCHANGED <<assets, providers>>
    BY DEF RegisterRepresentation, Admissible, NotPresent, RepresentationExists, ValidMultiplier
  <1>2. New(p)
    BY <1>1 DEF New
  <1>3. EntriesOK' /\ Pins
    BY <1>1, <1>2, AdmitEntries DEF EntriesOK
  <1>4. p.asset \in DOMAIN assets
    BY <1>1 DEF IsActiveAsset, AssetExists
  <1> QED BY <1>1, <1>2, <1>3, <1>4, AdmitLists

LEMMA RefreshedFields ==
  ASSUME NEW r \in Representation, NEW o
  PROVE  Refreshed(r, o) = [asset |-> r.asset, oracle |-> o,
                            multiplier |-> r.multiplier, status |-> "ACTIVE"]
  <1> DEFINE mid == [asset |-> r.asset, oracle |-> o, multiplier |-> r.multiplier, status |-> r.status]
  <1>1. mid = [r EXCEPT !.oracle = o]
    BY DEF Representation
  <1>2. [mid EXCEPT !.status = "ACTIVE"] = [asset |-> r.asset, oracle |-> o,
                                            multiplier |-> r.multiplier, status |-> "ACTIVE"]
    OBVIOUS
  <1>3. Refreshed(r, o) = [[r EXCEPT !.oracle = o] EXCEPT !.status = "ACTIVE"]
    BY DEF Refreshed
  <1> QED BY <1>1, <1>2, <1>3

LEMMA UpsertStep ==
  ASSUME EntriesOK, NEW q \in Providers,
         NEW e, e.symbol \in Symbols, e.token \in Tokens, e.multiplier \in Multipliers, e.oracle \in Oracles,
         SyncUpsert(q, e)
  PROVE  /\ EntriesOK' /\ Pins
         /\ ListsOK /\ RegistriesConsistent => ListsOK' /\ RegistriesConsistent'
  <1> DEFINE a == UpsertAsset(q, e)
             id == UpsertRep(q, e)
             p == UpsertParams(q, e)
             new == [asset |-> reps[id].asset, oracle |-> e.oracle,
                     multiplier |-> reps[id].multiplier, status |-> "ACTIVE"]
  <1>1. a \in Assets
    BY RegistryAssumption DEF UpsertAsset, Assets
  <1>2. /\ p.provider = q /\ p.asset = a /\ p.chain = HomeChain /\ p.token = e.token
        /\ p.multiplier = e.multiplier /\ p.oracle = e.oracle
        /\ id = RepIdOf(p.provider, p.chain, p.token)
    BY DEF UpsertParams, UpsertRep
  <1>3. assets' = (IF AssetExists(a) THEN assets ELSE With(assets, a, "ACTIVE")) /\ UNCHANGED providers
    BY DEF SyncUpsert
  <1>4. CASE RepresentationExists(id)
    <2>1. id \in DOMAIN reps /\ reps[id] \in Representation
      BY <1>4 DEF RepresentationExists, EntriesOK
    <2>2. /\ reps' = [reps EXCEPT ![id] = Refreshed(@, e.oracle)]
          /\ UNCHANGED <<repsByAsset, repsByProvider>>
      BY <1>4 DEF SyncUpsert
    <2>3. new \in Representation /\ new = Refreshed(reps[id], e.oracle)
      BY <2>1, RefreshedFields DEF Representation, Statuses
    <2>4. new.asset = reps[id].asset /\ new.multiplier = reps[id].multiplier
      OBVIOUS
    <2> HIDE DEF new, a, p, id
    <2>5. reps' = [reps EXCEPT ![id] = new]
      BY <2>2, <2>3
    <2>6. DOMAIN reps' = DOMAIN reps /\ reps' \in [DOMAIN reps' -> Representation]
      BY <2>1, <2>3, <2>5 DEF EntriesOK
    <2>7. Pins
      BY <2>1, <2>4, <2>5, <2>6 DEF Pins, EntriesOK
    <2>8. DOMAIN assets \subseteq DOMAIN assets' /\ EntriesOK'
      BY <1>1, <1>3, <2>6 DEF EntriesOK, With, Statuses
    <2> QED BY <1>3, <2>2, <2>6, <2>7, <2>8, ListsStay
  <1>5. CASE ~RepresentationExists(id)
    <2> DEFINE ActiveBy(x) == AssetExists(x) => IsActiveAsset(x)
    <2>1. Admissible(AdapterOf[q], p, ActiveBy) /\ Admit(p)
      BY <1>5 DEF SyncUpsert, CanUpsert
    <2>2. p.provider \in DOMAIN providers /\ p.multiplier # 0
      BY <2>1 DEF Admissible, ValidMultiplier
    <2> HIDE DEF a, p, id, ActiveBy
    <2>3. New(p)
      BY <1>1, <1>2, <1>5, <2>2, RegistryAssumption DEF New, RepresentationExists
    <2>4. /\ DOMAIN assets \cup {a} \subseteq DOMAIN assets' /\ DOMAIN assets' \subseteq Assets
          /\ assets' \in [DOMAIN assets' -> Statuses]
      BY <1>1, <1>3 DEF EntriesOK, With, Statuses, AssetExists
    <2>5. EntriesOK' /\ Pins
      BY <1>3, <2>1, <2>3, <2>4, AdmitEntries
    <2> QED BY <1>2, <1>3, <2>1, <2>2, <2>3, <2>4, <2>5, AdmitLists
  <1> QED BY <1>4, <1>5

LEMMA SyncKeeps ==
  ASSUME EntriesOK, SyncStep
  PROVE  /\ EntriesOK' /\ Pins
         /\ ListsOK /\ RegistriesConsistent => ListsOK' /\ RegistriesConsistent'
  <1>1. CASE \E p \in Providers, s \in Symbols, t \in Tokens, m \in Multipliers, o \in Oracles,
                d \in Decimals :
               SyncUpsert(p, [symbol |-> s, token |-> t, decimals |-> d, multiplier |-> m, oracle |-> o])
    BY <1>1, UpsertStep
  <1>2. CASE \/ \E p \in Providers, t \in Tokens : SyncDeactivateByToken(p, t)
             \/ \E p \in Providers, id \in RepIds : SyncDeactivate(p, id)
    <2>1. "INACTIVE" \in Statuses
      BY DEF Statuses
    <2> QED BY <1>2, <2>1, StatusStep DEF SyncDeactivateByToken, SyncDeactivate, DeactivateRepresentation
  <1> QED BY <1>1, <1>2 DEF SyncStep

LEMMA RepresentationKeeps ==
  ASSUME EntriesOK, RepresentationStep
  PROVE  /\ EntriesOK' /\ Pins
         /\ ListsOK /\ RegistriesConsistent => ListsOK' /\ RegistriesConsistent'
  <1>1. CASE \E c \in Callers, t \in Tokens, p \in Providers, a \in Assets, ch \in Chains,
               m \in Multipliers, o \in Oracles, d \in Decimals :
               RegisterRepresentation(c, [provider |-> p, asset |-> a, chain |-> ch, token |-> t,
                                          decimals |-> d, multiplier |-> m, oracle |-> o])
    BY <1>1, RegisterStep
  <1>2. CASE \E c \in Callers, id \in RepIds, s \in Statuses : SetRepresentationStatus(c, id, s)
    BY <1>2, StatusStep
  <1>3. CASE \E c \in Callers, id \in RepIds, o \in Oracles : UpdateOracleMetadata(c, id, o)
    BY <1>3, OracleStep
  <1> QED BY <1>1, <1>2, <1>3 DEF RepresentationStep

(* An administrator touches assets and providers only.                         *)
LEMMA AdminKeeps ==
  ASSUME EntriesOK, AdminStep
  PROVE  /\ EntriesOK' /\ Pins
         /\ ListsOK /\ RegistriesConsistent => ListsOK' /\ RegistriesConsistent'
  <1>1. /\ UNCHANGED <<reps, repsByAsset, repsByProvider>>
        /\ DOMAIN assets \subseteq DOMAIN assets' /\ DOMAIN providers \subseteq DOMAIN providers'
        /\ DOMAIN assets' \subseteq Assets /\ assets' \in [DOMAIN assets' -> Statuses]
        /\ DOMAIN providers' \subseteq Providers /\ providers' \in [DOMAIN providers' -> Provider]
    <2>1. CASE \E a \in Assets : RegisterAssetIdentity(RegistryAdmin, a)
      BY <2>1 DEF RegisterAssetIdentity, EntriesOK, With, Statuses
    <2>2. CASE \E a \in Assets, s \in Statuses : SetAssetStatus(RegistryAdmin, a, s)
      BY <2>2 DEF SetAssetStatus, EntriesOK
    <2>3. CASE \E p \in Providers, x \in Callers \cup {NoAdapter} : RegisterProvider(RegistryAdmin, p, x)
      BY <2>3 DEF RegisterProvider, EntriesOK, With, Provider
    <2>4. CASE \E p \in Providers, x \in Callers \cup {NoAdapter} : SetProviderAdapter(RegistryAdmin, p, x)
      <3>1. PICK p \in Providers, x \in Callers \cup {NoAdapter} : SetProviderAdapter(RegistryAdmin, p, x)
        BY <2>4
      <3>2. p \in DOMAIN providers /\ providers[p] \in Provider
            /\ [providers[p] EXCEPT !.adapter = x] \in Provider
        BY <3>1 DEF SetProviderAdapter, EntriesOK, Provider
      <3> QED BY <3>1, <3>2 DEF SetProviderAdapter, EntriesOK
    <2>5. CASE \E p \in Providers, b \in BOOLEAN : SetProviderActive(RegistryAdmin, p, b)
      <3>1. PICK p \in Providers, b \in BOOLEAN : SetProviderActive(RegistryAdmin, p, b)
        BY <2>5
      <3>2. p \in DOMAIN providers /\ providers[p] \in Provider
            /\ [providers[p] EXCEPT !.active = b] \in Provider
        BY <3>1 DEF SetProviderActive, EntriesOK, Provider
      <3> QED BY <3>1, <3>2 DEF SetProviderActive, EntriesOK
    <2> QED BY <2>1, <2>2, <2>3, <2>4, <2>5 DEF AdminStep
  <1>2. EntriesOK' /\ Pins
    BY <1>1 DEF EntriesOK, Pins
  <1> QED BY <1>1, <1>2, ListsStay

LEMMA RegistryKeeps ==
  ASSUME EntriesOK, [RegistryNext]_registryVars
  PROVE  /\ EntriesOK' /\ [Pins]_registryVars
         /\ ListsOK /\ RegistriesConsistent => ListsOK' /\ RegistriesConsistent'
  <1>1. CASE RegistryNext
    BY <1>1, AdminKeeps, RepresentationKeeps, SyncKeeps DEF RegistryNext
  <1>2. CASE UNCHANGED registryVars
    BY <1>2, ListsStay DEF registryVars, EntriesOK, ListsOK, Pins
  <1> QED BY <1>1, <1>2

LEMMA EmptyRegistries == RegistryInit => EntriesOK /\ ListsOK /\ RegistriesConsistent
  <1> SUFFICES ASSUME RegistryInit PROVE EntriesOK /\ ListsOK /\ RegistriesConsistent
    OBVIOUS
  <1>1. DOMAIN assets = {} /\ DOMAIN providers = {} /\ DOMAIN reps = {}
    BY DEF RegistryInit
  <1>2. EntriesOK
    BY <1>1 DEF RegistryInit, EntriesOK
  <1>3. ListsOK
    BY DEF RegistryInit, ListsOK
  <1>4. ListsOnce(<<>>, {})
    BY DEF ListsOnce
  <1>5. RegistriesConsistent
    BY <1>1, <1>4 DEF RegistryInit, RegistriesConsistent
  <1> QED BY <1>2, <1>3, <1>5

----------------------------------------------------------------------------
(* The lists are the registry, and nothing in it dangles (RepresentationRegis- *)
(* try.sol, ProviderAdapterBase.sol).                                          *)
THEOREM ListsAreTheRegistry == RegistrySpec => [](RegistryTypeOK /\ RegistriesConsistent)
  <1> DEFINE IInv == EntriesOK /\ ListsOK /\ RegistriesConsistent
  <1>1. RegistryInit => IInv
    BY EmptyRegistries
  <1>2. IInv /\ [RegistryNext]_registryVars => IInv'
    BY RegistryKeeps
  <1>3. IInv => RegistryTypeOK /\ RegistriesConsistent
    BY TypeIsParts
  <1> QED BY <1>1, <1>2, <1>3, PTL DEF RegistrySpec

(* No step of anyone takes a representation away, or gives it another asset or *)
(* multiplier.                                                                 *)
THEOREM MeaningIsForGood == RegistrySpec => RepresentationsPinned
  <1>1. RegistryInit => EntriesOK
    BY EmptyRegistries
  <1>2. EntriesOK /\ [RegistryNext]_registryVars => EntriesOK' /\ [Pins]_registryVars
    BY RegistryKeeps
  <1>3. RegistrySpec => [][Pins]_registryVars
    BY <1>1, <1>2, PTL DEF RegistrySpec
  <1> QED BY <1>3 DEF RepresentationsPinned, Pins

----------------------------------------------------------------------------
(* The worker.                                                                 *)
IsCall(call) == \/ call.kind = "upsert" /\ call.entry \in SyncEntry
                \/ call.kind = "deactivate" /\ call.token \in Tokens
Ours == {id \in DOMAIN reps : ProviderOf(id) = P}
Right(l, id) == IsActiveRepresentation(id) /\ \E e \in Entries(l) : UpsertRep(P, e) = id /\ reps[id].oracle = e.oracle

(* What the run has read, and the calls it still means to make.                *)
RunOK ==
  /\ published \in Lists
  /\ pc \in {"idle", "reading", "applying", "sent"}
  /\ pc = "idle" => DOMAIN view = {}
  /\ pc # "idle" => list \in Lists /\ ids \in Seq(RepIds) /\ Entries(ids) \subseteq Ours
  /\ pc \in {"applying", "sent"} =>
       toUpsert \subseteq DOMAIN list /\ toDeactivate \subseteq {k \in DOMAIN ids : ids[k] \notin Listed(list)}
  /\ orphan = <<>> \/ (orphan = <<orphan[1]>> /\ IsCall(orphan[1]))

(* A call that undoes nothing of a list.                                       *)
Harmless(l, call) == IF call.kind = "upsert" THEN call.entry \in Entries(l)
                                             ELSE DeactivateTarget(call) \notin Listed(l)

(* A run nobody has interfered with is alone, and works for today's list; and  *)
(* so does whatever runs while the registry is settled.                        *)
AloneOK ==
  /\ pc # "idle" /\ (undisturbed \/ settled) => list = published
  /\ pc # "idle" /\ undisturbed => orphan = <<>>

(* What such a run has read is still so, and all there is.                     *)
ReadsOK ==
  pc = "reading" /\ undisturbed =>
    /\ Entries(ids) = Ours
    /\ DOMAIN view \subseteq Ours /\ \A id \in DOMAIN view : view[id] = reps[id]

(* What is not yet as the list says is in what is left of its plan.            *)
PlanOK ==
  pc \in {"applying", "sent"} /\ undisturbed =>
    /\ \A id \in Listed(list) : Right(list, id) \/ \E i \in toUpsert : UpsertRep(P, list[i]) = id
    /\ \A id \in Ours \ Listed(list) : ~IsActiveRepresentation(id) \/ \E k \in toDeactivate : ids[k] = id
    /\ pc = "sent" => \A call \in NextCalls : Accepted(call)

SyncIInv ==
  /\ EntriesOK /\ ListsOK /\ RegistriesConsistent
  /\ RunOK /\ AloneOK
  /\ OneChain => /\ ReadsOK /\ PlanOK /\ SettledMirrorsList
                 /\ settled /\ orphan # <<>> => Harmless(published, orphan[1])

----------------------------------------------------------------------------
(* The registries a first sync leaves.                                         *)
LEMMA ListOfLists ==
  ASSUME NEW S, IsFiniteSet(S) PROVE ListOf(S) \in Seq(S) /\ ListsOnce(ListOf(S), S)
  <1> DEFINE n == Cardinality(S)
  <1>1. n \in Nat
    BY FS_CardinalityType
  <1>2. PICK f \in Bijection(1..n, S) : TRUE
    BY FS_CardinalityType, Zenon DEF ExistsBijection
  <1>3. f \in [1..n -> S] /\ ListsOnce(f, S)
    BY <1>2 DEF ListsOnce, Bijection, Injection, Surjection, IsInjective
  <1>4. ListOf(S) \in [1..n -> S] /\ ListsOnce(ListOf(S), S)
    BY <1>3, Zenon DEF ListOf
  <1> QED BY <1>1, <1>4

LEMMA SeededRegistries ==
  ASSUME SeededInit(Seed) PROVE EntriesOK /\ ListsOK /\ RegistriesConsistent
  <1> DEFINE of(a) == {id \in DOMAIN Seed : Seed[id] = a}
             from(p) == {id \in DOMAIN Seed : id[1] = p}
  <1>1. PICK o \in Oracles, m \in Multipliers \ {0} :
          reps = [id \in DOMAIN Seed |->
                    [asset |-> Seed[id], oracle |-> o, multiplier |-> m, status |-> "ACTIVE"]]
    BY DEF SeededInit
  <1>2. /\ DOMAIN reps = DOMAIN Seed /\ \A id \in DOMAIN reps : reps[id].asset = Seed[id]
        /\ reps \in [DOMAIN reps -> Representation]
    BY <1>1, SyncAssumption DEF Representation, Statuses
  <1>3. /\ assets = [a \in {Seed[id] : id \in DOMAIN Seed} |-> "ACTIVE"]
        /\ providers = [p \in Providers |-> [active |-> TRUE, adapter |-> AdapterOf[p]]]
        /\ repsByAsset = [a \in Assets |-> ListOf(of(a))]
        /\ repsByProvider = [p \in Providers |-> ListOf(from(p))]
    BY DEF SeededInit
  <1>4. DOMAIN assets \subseteq Assets /\ assets \in [DOMAIN assets -> Statuses]
    BY <1>3, SyncAssumption DEF Statuses
  <1>5. DOMAIN providers = Providers /\ providers \in [DOMAIN providers -> Provider]
    BY <1>3 DEF Provider, Callers
  <1>6. EntriesOK
    BY <1>2, <1>4, <1>5, SyncAssumption DEF EntriesOK
  <1>7. ASSUME NEW S \in SUBSET DOMAIN Seed PROVE ListOf(S) \in Seq(RepIds) /\ ListsOnce(ListOf(S), S)
    <2>1. IsFiniteSet(S)
      BY FS_Subset, SyncAssumption
    <2>2. ListOf(S) \in Seq(S) /\ ListsOnce(ListOf(S), S)
      BY <2>1, ListOfLists
    <2>3. Len(ListOf(S)) \in Nat /\ ListOf(S) \in [1..Len(ListOf(S)) -> S] /\ S \subseteq RepIds
      BY <2>2, SyncAssumption
    <2> QED BY <2>2, <2>3
  <1>8. ListsOK
    BY <1>3, <1>7 DEF ListsOK
  <1>9. \A a : {id \in DOMAIN reps : reps[id].asset = a} = of(a)
    BY <1>2
  <1>10. \A p : {id \in DOMAIN reps : ProviderOf(id) = p} = from(p)
    BY <1>2 DEF ProviderOf
  <1>11. \A id \in DOMAIN reps : reps[id].asset \in DOMAIN assets /\ ProviderOf(id) \in DOMAIN providers
    BY <1>2, <1>3, <1>5, SyncAssumption DEF ProviderOf, RepIds
  <1>12. /\ \A a \in Assets : ListsOnce(repsByAsset[a], of(a))
         /\ \A p \in Providers : ListsOnce(repsByProvider[p], from(p))
    BY <1>3, <1>7
  <1> QED BY <1>6, <1>8, <1>9, <1>10, <1>11, <1>12 DEF RegistriesConsistent, AssetExists

LEMMA SyncInitHolds == SyncInit => SyncIInv
  <1> SUFFICES ASSUME SyncInit PROVE SyncIInv
    OBVIOUS
  <1>1. EntriesOK /\ ListsOK /\ RegistriesConsistent
    BY SeededRegistries DEF SyncInit
  <1>2. RunOK /\ AloneOK /\ ReadsOK /\ PlanOK /\ SettledMirrorsList
    BY DEF SyncInit, RunOK, AloneOK, ReadsOK, PlanOK, SettledMirrorsList
  <1> QED BY <1>1, <1>2 DEF SyncIInv, SyncInit

----------------------------------------------------------------------------
(* What a transaction does: nothing, or what it says to one representation.    *)
Target(call) == IF call.kind = "upsert" THEN UpsertRep(P, call.entry) ELSE DeactivateTarget(call)

Done(call) ==
  /\ Target(call) \in DOMAIN reps
  /\ reps[Target(call)].status = (IF call.kind = "upsert" THEN "ACTIVE" ELSE "INACTIVE")
  /\ call.kind = "upsert" => reps[Target(call)].oracle = call.entry.oracle

LEMMA UpsertDoes ==
  ASSUME EntriesOK, NEW e \in SyncEntry, SyncUpsert(P, e)
  PROVE  LET id == UpsertRep(P, e) IN
         /\ DOMAIN reps' = DOMAIN reps \cup {id}
         /\ reps'[id].status = "ACTIVE" /\ reps'[id].oracle = e.oracle
         /\ \A x \in DOMAIN reps : x # id => reps'[x] = reps[x]
  <1> DEFINE id == UpsertRep(P, e)
  <1>1. CASE RepresentationExists(id)
    <2>1. id \in DOMAIN reps /\ reps[id] \in Representation
      BY <1>1 DEF RepresentationExists, EntriesOK
    <2>2. reps' = [reps EXCEPT ![id] = Refreshed(@, e.oracle)]
      BY <1>1 DEF SyncUpsert
    <2>3. Refreshed(reps[id], e.oracle).status = "ACTIVE" /\ Refreshed(reps[id], e.oracle).oracle = e.oracle
      BY <2>1, RefreshedFields
    <2> HIDE DEF id
    <2> QED BY <2>1, <2>2, <2>3 DEF id
  <1>2. CASE ~RepresentationExists(id)
    <2>1. Admit(UpsertParams(P, e)) /\ id = RepIdOf(P, HomeChain, e.token) /\ id \notin DOMAIN reps
      BY <1>2 DEF SyncUpsert, UpsertRep, RepresentationExists
    <2>2. reps' = With(reps, id, [asset |-> UpsertAsset(P, e), oracle |-> e.oracle,
                                  multiplier |-> e.multiplier, status |-> "ACTIVE"])
      BY <2>1 DEF Admit, UpsertParams
    <2> HIDE DEF id
    <2> QED BY <2>1, <2>2 DEF With, id
  <1> QED BY <1>1, <1>2

LEMMA DeactivateDoes ==
  ASSUME EntriesOK, NEW id, SyncDeactivate(P, id)
  PROVE  /\ id \in DOMAIN reps /\ DOMAIN reps' = DOMAIN reps /\ reps'[id].status = "INACTIVE"
         /\ \A x \in DOMAIN reps : x # id => reps'[x] = reps[x]
  <1>1. id \in DOMAIN reps /\ reps[id] \in Representation /\ reps' = [reps EXCEPT ![id].status = "INACTIVE"]
    BY DEF SyncDeactivate, DeactivateRepresentation, SetRepresentationStatus, RepresentationExists, EntriesOK
  <1>2. [reps[id] EXCEPT !.status = "INACTIVE"].status = "INACTIVE"
    BY <1>1 DEF Representation
  <1> QED BY <1>1, <1>2

LEMMA ExecuteDoes ==
  ASSUME EntriesOK, ListsOK, RegistriesConsistent, NEW call, IsCall(call), Execute(call)
  PROVE  /\ EntriesOK' /\ ListsOK' /\ RegistriesConsistent'
         /\ Accepted(call) => DOMAIN reps' = DOMAIN reps \cup {Target(call)} /\ Done(call)'
         /\ ~Accepted(call) => UNCHANGED reps
         /\ \A x \in DOMAIN reps : x # Target(call) => reps'[x] = reps[x]
         /\ ProviderOf(Target(call)) = P /\ Target(call)[2] = HomeChain
  <1>1. ProviderOf(Target(call)) = P /\ Target(call)[2] = HomeChain
    BY DEF Target, UpsertRep, DeactivateTarget, RepIdOf, ProviderOf
  <1>2. CASE Accepted(call) /\ call.kind = "upsert" /\ SyncUpsert(P, call.entry)
    <2>1. call.entry \in SyncEntry /\ Target(call) = UpsertRep(P, call.entry)
      BY <1>2 DEF IsCall, Target
    <2>2. call.entry.symbol \in Symbols /\ call.entry.token \in Tokens
          /\ call.entry.multiplier \in Multipliers /\ call.entry.oracle \in Oracles
      BY <2>1 DEF SyncEntry
    <2>3. EntriesOK' /\ ListsOK' /\ RegistriesConsistent'
      BY <1>2, <2>2, UpsertStep, SyncAssumption
    <2>4. /\ DOMAIN reps' = DOMAIN reps \cup {Target(call)}
          /\ reps'[Target(call)].status = "ACTIVE" /\ reps'[Target(call)].oracle = call.entry.oracle
          /\ \A x \in DOMAIN reps : x # Target(call) => reps'[x] = reps[x]
      BY <1>2, <2>1, UpsertDoes
    <2>5. Done(call)'
      BY <1>2, <2>4 DEF Done, Target
    <2> QED BY <1>1, <1>2, <2>3, <2>4, <2>5
  <1>3. CASE Accepted(call) /\ call.kind = "deactivate" /\ SyncDeactivate(P, DeactivateTarget(call))
    <2>1. Target(call) = DeactivateTarget(call)
      BY <1>3 DEF Target
    <2>2. SetRepresentationStatus(AdapterOf[P], Target(call), "INACTIVE") /\ "INACTIVE" \in Statuses
      BY <1>3, <2>1 DEF SyncDeactivate, DeactivateRepresentation, Statuses
    <2>3. EntriesOK' /\ ListsOK' /\ RegistriesConsistent'
      BY <2>2, StatusStep
    <2>4. /\ DOMAIN reps' = DOMAIN reps \cup {Target(call)} /\ reps'[Target(call)].status = "INACTIVE"
          /\ \A x \in DOMAIN reps : x # Target(call) => reps'[x] = reps[x]
      BY <1>3, <2>1, DeactivateDoes
    <2>5. Done(call)'
      BY <1>3, <2>4 DEF Done, Target
    <2> QED BY <1>1, <1>3, <2>3, <2>4, <2>5
  <1>4. CASE ~Accepted(call) /\ UNCHANGED registryVars
    BY <1>1, <1>4 DEF registryVars, EntriesOK, ListsOK, RegistriesConsistent, AssetExists
  <1> QED BY <1>2, <1>3, <1>4 DEF Execute

(* A harmless call leaves a registry that is as the list says so.              *)
LEMMA HarmlessKeepsMirrors ==
  ASSUME NEW l, NEW call, Harmless(l, call), Mirrors(l), call.kind \in {"upsert", "deactivate"},
         Accepted(call) => DOMAIN reps' = DOMAIN reps \cup {Target(call)} /\ Done(call)',
         ~Accepted(call) => UNCHANGED reps,
         \A x \in DOMAIN reps : x # Target(call) => reps'[x] = reps[x]
  PROVE  Mirrors(l)'
  <1>1. CASE ~Accepted(call)
    BY <1>1 DEF Mirrors, IsActiveRepresentation, RepresentationExists
  <1>2. CASE Accepted(call) /\ call.kind = "upsert"
    <2>1. call.entry \in Entries(l) /\ Target(call) = UpsertRep(P, call.entry) /\ Target(call) \in Listed(l)
      BY <1>2 DEF Harmless, Target, Listed
    <2>2. reps'[Target(call)].status = "ACTIVE" /\ reps'[Target(call)].oracle = call.entry.oracle
      BY <1>2 DEF Done, Target
    <2>3. DOMAIN reps' = DOMAIN reps \cup {Target(call)}
      BY <1>2
    <2> QED BY <2>1, <2>2, <2>3 DEF Mirrors, IsActiveRepresentation, RepresentationExists
  <1>3. CASE Accepted(call) /\ call.kind = "deactivate"
    <2>1. Target(call) \notin Listed(l)
      BY <1>3 DEF Harmless, Target
    <2>2. reps'[Target(call)].status = "INACTIVE"
      BY <1>3 DEF Done, Target
    <2>3. DOMAIN reps' = DOMAIN reps \cup {Target(call)}
      BY <1>3
    <2> QED BY <2>1, <2>2, <2>3 DEF Mirrors, IsActiveRepresentation, RepresentationExists
  <1> QED BY <1>1, <1>2, <1>3

----------------------------------------------------------------------------
(* The call that comes next.                                                   *)
LEMMA NextCallsAre ==
  ASSUME RunOK, pc \in {"applying", "sent"}
  PROVE  /\ \A c, d \in NextCalls : c = d
         /\ \A c \in NextCalls : IsCall(c) /\ (OneChain => Harmless(list, c))
  <1>1. /\ toUpsert \subseteq DOMAIN list /\ list \in Seq(SyncEntry)
        /\ toDeactivate \subseteq {k \in DOMAIN ids : ids[k] \notin Listed(list)}
        /\ ids \in Seq(RepIds) /\ Entries(ids) \subseteq Ours
    BY SyncAssumption DEF RunOK
  <1>2. \A S \in SUBSET Int : \A i, j \in FirstOf(S) : i = j
    BY DEF FirstOf
  <1>3. toUpsert \in SUBSET Int /\ toDeactivate \in SUBSET Int
    BY <1>1
  <1>4. FirstOf(toUpsert) \subseteq toUpsert /\ FirstOf(toDeactivate) \subseteq toDeactivate
        /\ (toUpsert = {} => FirstOf(toUpsert) = {})
    BY DEF FirstOf
  <1>5. \A c, d \in NextCalls : c = d
    <2>1. CASE toUpsert = {}
      BY <1>2, <1>3, <1>4, <2>1 DEF NextCalls
    <2>2. CASE toUpsert # {}
      BY <1>2, <1>3, <2>2 DEF NextCalls
    <2> QED BY <2>1, <2>2
  <1>6. ASSUME NEW i \in FirstOf(toUpsert)
        PROVE  IsCall(Upsert(list[i])) /\ Harmless(list, Upsert(list[i]))
    <2>1. i \in DOMAIN list /\ list[i] \in SyncEntry
      BY <1>1, <1>4
    <2> QED BY <2>1 DEF IsCall, Harmless, Upsert, Entries
  <1>7. ASSUME NEW k \in FirstOf(toDeactivate)
        PROVE  IsCall(Deactivate(ids[k])) /\ (OneChain => Harmless(list, Deactivate(ids[k])))
    <2>1. k \in DOMAIN ids /\ ids[k] \in RepIds /\ ids[k] \in DOMAIN reps /\ ids[k][1] = P
          /\ ids[k] \notin Listed(list)
      BY <1>1, <1>4 DEF Entries, Ours, ProviderOf
    <2>2. ids[k] = <<ids[k][1], ids[k][2], ids[k][3]>> /\ ids[k][3] \in Tokens
      BY <2>1 DEF RepIds
    <2>3. OneChain => ids[k] = DeactivateTarget(Deactivate(ids[k]))
      BY <2>1, <2>2 DEF OneChain, ProviderOf, DeactivateTarget, Deactivate, RepIdOf
    <2> QED BY <2>1, <2>2, <2>3 DEF IsCall, Harmless, Deactivate
  <1> QED BY <1>5, <1>6, <1>7 DEF NextCalls

----------------------------------------------------------------------------
(* The steps of a run that leave the registries alone.                         *)
LEMMA RegistriesStay ==
  ASSUME EntriesOK, ListsOK, RegistriesConsistent, UNCHANGED registryVars
  PROVE  /\ EntriesOK' /\ ListsOK' /\ RegistriesConsistent' /\ Ours' = Ours
         /\ OneChain' <=> OneChain
  BY DEF registryVars, EntriesOK, ListsOK, RegistriesConsistent, AssetExists, Ours, OneChain

LEMMA MirrorsStay == ASSUME UNCHANGED <<reps, published>> PROVE Mirrors(published)' <=> Mirrors(published)
  BY DEF Mirrors, IsActiveRepresentation, RepresentationExists

LEMMA HarmlessStays ==
  ASSUME UNCHANGED <<published, orphan>>
  PROVE  Harmless(published, orphan[1])' <=> Harmless(published, orphan[1])
  BY DEF Harmless

LEMMA StartKeeps == ASSUME SyncIInv, Start PROVE SyncIInv'
  <1>1. /\ pc' = "reading" /\ list' = published /\ ids' = repsByProvider[P] /\ undisturbed' = (orphan = <<>>)
        /\ pc = "idle" /\ UNCHANGED <<published, view, orphan, settled, reps>> /\ UNCHANGED registryVars
    BY DEF Start, registryVars
  <1>2. /\ EntriesOK' /\ ListsOK' /\ RegistriesConsistent' /\ Ours' = Ours /\ (OneChain' <=> OneChain)
    BY <1>1, RegistriesStay DEF SyncIInv
  <1>3. repsByProvider[P] \in Seq(RepIds) /\ Entries(repsByProvider[P]) = Ours
    BY SyncAssumption DEF SyncIInv, ListsOK, RegistriesConsistent, ListsOnce, Entries, Ours
  <1>4. RunOK'
    BY <1>1, <1>2, <1>3 DEF SyncIInv, RunOK, IsCall, Entries
  <1>5. AloneOK'
    BY <1>1 DEF AloneOK
  <1>6. ReadsOK'
    BY <1>1, <1>2, <1>3 DEF SyncIInv, RunOK, ReadsOK, Entries
  <1>7. PlanOK'
    BY <1>1 DEF PlanOK
  <1>8. OneChain' => SettledMirrorsList' /\ (settled' /\ orphan' # <<>> => Harmless(published, orphan[1])')
    BY <1>1, <1>2, MirrorsStay, HarmlessStays DEF SyncIInv, SettledMirrorsList
  <1> QED BY <1>2, <1>4, <1>5, <1>6, <1>7, <1>8 DEF SyncIInv

LEMMA ReadOneKeeps == ASSUME SyncIInv, ReadOne PROVE SyncIInv'
  <1>1. PICK id \in Entries(ids) \ DOMAIN view : view' = With(view, id, reps[id])
    BY DEF ReadOne
  <1>2. /\ pc = "reading" /\ pc' = pc /\ UNCHANGED registryVars
        /\ UNCHANGED <<published, list, ids, toUpsert, toDeactivate, orphan, undisturbed, settled, reps>>
    BY DEF ReadOne, registryVars
  <1>3. EntriesOK' /\ ListsOK' /\ RegistriesConsistent' /\ Ours' = Ours /\ (OneChain' <=> OneChain)
    BY <1>2, RegistriesStay DEF SyncIInv
  <1>4. RunOK'
    BY <1>2, <1>3 DEF SyncIInv, RunOK, IsCall, Entries
  <1>5. AloneOK' /\ PlanOK'
    BY <1>2 DEF SyncIInv, AloneOK, PlanOK
  <1>6. ReadsOK => ReadsOK'
    BY <1>1, <1>2, <1>3 DEF ReadsOK, With, Entries
  <1>7. OneChain' => SettledMirrorsList' /\ (settled' /\ orphan' # <<>> => Harmless(published, orphan[1])')
    BY <1>2, <1>3, MirrorsStay, HarmlessStays DEF SyncIInv, SettledMirrorsList
  <1> QED BY <1>3, <1>4, <1>5, <1>6, <1>7 DEF SyncIInv

(* What was read one at a time makes a plan that misses nothing.               *)
LEMMA PlanKeeps == ASSUME SyncIInv, Plan PROVE SyncIInv'
  <1>1. /\ pc = "reading" /\ pc' = "applying" /\ Entries(ids) \subseteq DOMAIN view
        /\ toUpsert' = {i \in DOMAIN list : NeedsUpsert(view, list[i])}
        /\ toDeactivate' = ToDeactivate(view, list, ids)
        /\ UNCHANGED <<published, list, ids, view, orphan, undisturbed, settled, reps>> /\ UNCHANGED registryVars
    BY DEF Plan, registryVars
  <1>2. EntriesOK' /\ ListsOK' /\ RegistriesConsistent' /\ Ours' = Ours /\ (OneChain' <=> OneChain)
    BY <1>1, RegistriesStay DEF SyncIInv
  <1>3. RunOK'
    BY <1>1, <1>2 DEF SyncIInv, RunOK, IsCall, ToDeactivate, Listed, Entries
  <1>4. AloneOK' /\ ReadsOK'
    BY <1>1 DEF SyncIInv, AloneOK, ReadsOK
  <1>5. ASSUME ReadsOK, undisturbed PROVE PlanOK'
    <2>1. DOMAIN view = Ours /\ Entries(ids) = Ours /\ \A id \in DOMAIN view : view[id] = reps[id]
      BY <1>1, <1>5 DEF ReadsOK
    <2>2. ASSUME NEW id \in Listed(list)
          PROVE  Right(list, id) \/ \E i \in toUpsert' : UpsertRep(P, list[i]) = id
      <3>1. PICK i \in DOMAIN list : UpsertRep(P, list[i]) = id
        BY DEF Listed, Entries
      <3>2. CASE NeedsUpsert(view, list[i])
        BY <1>1, <3>1, <3>2
      <3>3. CASE ~NeedsUpsert(view, list[i])
        <4>1. id \in DOMAIN view /\ view[id].status = "ACTIVE" /\ view[id].oracle = list[i].oracle
          BY <3>1, <3>3 DEF NeedsUpsert
        <4> QED BY <2>1, <3>1, <4>1 DEF Right, Ours, IsActiveRepresentation, RepresentationExists, Entries
      <3> QED BY <3>2, <3>3
    <2>3. ASSUME NEW id \in Ours \ Listed(list)
          PROVE  ~IsActiveRepresentation(id) \/ \E k \in toDeactivate' : ids[k] = id
      <3>1. PICK k \in DOMAIN ids : ids[k] = id
        BY <2>1 DEF Entries
      <3> QED BY <1>1, <2>1, <3>1 DEF ToDeactivate, IsActiveRepresentation
    <2>4. \A id \in Listed(list) : Right(list, id)' <=> Right(list, id)
      BY <1>1 DEF Right, IsActiveRepresentation, RepresentationExists
    <2>5. \A id : IsActiveRepresentation(id)' <=> IsActiveRepresentation(id)
      BY <1>1 DEF IsActiveRepresentation, RepresentationExists
    <2>6. Listed(list)' = Listed(list)
      BY <1>1 DEF Listed, Entries
    <2> QED BY <1>1, <1>2, <2>2, <2>3, <2>4, <2>5, <2>6 DEF PlanOK
  <1>6. ~undisturbed => PlanOK'
    BY <1>1 DEF PlanOK
  <1>7. OneChain' => SettledMirrorsList' /\ (settled' /\ orphan' # <<>> => Harmless(published, orphan[1])')
    BY <1>1, <1>2, MirrorsStay, HarmlessStays DEF SyncIInv, SettledMirrorsList
  <1> QED BY <1>2, <1>3, <1>4, <1>5, <1>6, <1>7 DEF SyncIInv

LEMMA SendKeeps == ASSUME SyncIInv, Send PROVE SyncIInv'
  <1>1. /\ pc = "applying" /\ pc' = "sent" /\ UNCHANGED registryVars
        /\ UNCHANGED <<published, list, ids, view, toUpsert, toDeactivate, orphan, undisturbed, settled, reps>>
    BY DEF Send, registryVars
  <1>2. EntriesOK' /\ ListsOK' /\ RegistriesConsistent' /\ Ours' = Ours /\ (OneChain' <=> OneChain)
    BY <1>1, RegistriesStay DEF SyncIInv
  <1>3. RunOK'
    BY <1>1, <1>2 DEF SyncIInv, RunOK, IsCall, Listed, Entries
  <1>4. AloneOK' /\ ReadsOK'
    BY <1>1 DEF SyncIInv, AloneOK, ReadsOK
  <1>5. \A call \in NextCalls : Accepted(call)
    BY <1>1, NextCallsAre DEF Send, SyncIInv
  <1>6. NextCalls' = NextCalls /\ \A call : Accepted(call)' <=> Accepted(call)
    <2>1. NextCalls' = NextCalls
      BY <1>1 DEF NextCalls, FirstOf
    <2>2. \A call : Accepted(call)' <=> Accepted(call)
      BY <1>1 DEF registryVars, Accepted, CanUpsert, CanDeactivate, DeactivateTarget, Admissible, ProviderAuth,
                  NotPresent, AssetExists, IsActiveAsset, RepresentationExists, UpsertParams, UpsertRep, UpsertAsset
    <2> QED BY <2>1, <2>2
  <1>7. PlanOK => PlanOK'
    <2>1. Listed(list)' = Listed(list) /\ \A id : Right(list, id)' <=> Right(list, id)
      BY <1>1 DEF Listed, Entries, Right, IsActiveRepresentation, RepresentationExists
    <2>2. \A id : IsActiveRepresentation(id)' <=> IsActiveRepresentation(id)
      BY <1>1 DEF IsActiveRepresentation, RepresentationExists
    <2> QED BY <1>1, <1>2, <1>5, <1>6, <2>1, <2>2 DEF PlanOK
  <1>8. OneChain' => SettledMirrorsList' /\ (settled' /\ orphan' # <<>> => Harmless(published, orphan[1])')
    BY <1>1, <1>2, MirrorsStay, HarmlessStays DEF SyncIInv, SettledMirrorsList
  <1> QED BY <1>2, <1>3, <1>4, <1>7, <1>8 DEF SyncIInv

(* A run that ends, one way or another, forgets.                               *)
LEMMA EndsKeep ==
  ASSUME SyncIInv, Fresh, UNCHANGED registryVars, UNCHANGED <<published, undisturbed>>,
         orphan' = <<>> \/ (orphan' = <<orphan'[1]>> /\ IsCall(orphan'[1])),
         OneChain => SettledMirrorsList' /\ (settled' /\ orphan' # <<>> => Harmless(published, orphan'[1]))
  PROVE  SyncIInv'
  <1>1. /\ pc' = "idle" /\ DOMAIN view' = {} /\ published' = published
    BY DEF Fresh
  <1>2. EntriesOK' /\ ListsOK' /\ RegistriesConsistent' /\ (OneChain' <=> OneChain)
    BY RegistriesStay DEF SyncIInv
  <1>3. RunOK'
    BY <1>1 DEF SyncIInv, RunOK, IsCall
  <1>4. AloneOK' /\ ReadsOK' /\ PlanOK'
    BY <1>1 DEF AloneOK, ReadsOK, PlanOK
  <1>5. OneChain' => (settled' /\ orphan' # <<>> => Harmless(published, orphan[1])')
    BY <1>1, <1>2 DEF Harmless, Entries, Listed, DeactivateTarget
  <1> QED BY <1>2, <1>3, <1>4, <1>5 DEF SyncIInv

LEMMA ThrowKeeps == ASSUME SyncIInv, Throw PROVE SyncIInv'
  <1>1. Fresh /\ UNCHANGED registryVars /\ UNCHANGED <<published, orphan, undisturbed, settled, reps>>
    BY DEF Throw, registryVars
  <1>2. OneChain => SettledMirrorsList' /\ (settled' /\ orphan' # <<>> => Harmless(published, orphan'[1]))
    BY <1>1, MirrorsStay, RegistriesStay DEF SyncIInv, SettledMirrorsList
  <1>3. orphan' = <<>> \/ (orphan' = <<orphan'[1]>> /\ IsCall(orphan'[1]))
    BY <1>1 DEF SyncIInv, RunOK
  <1> QED BY <1>1, <1>2, <1>3, EndsKeep

(* A run that has applied all of its plan has nothing left to correct.         *)
LEMMA CompleteKeeps == ASSUME SyncIInv, Complete PROVE SyncIInv'
  <1>1. /\ Fresh /\ UNCHANGED registryVars /\ UNCHANGED <<published, orphan, undisturbed, reps>>
        /\ pc = "applying" /\ toUpsert = {} /\ toDeactivate = {} /\ settled' = undisturbed
    BY DEF Complete, registryVars
  <1>2. ASSUME OneChain, undisturbed PROVE Mirrors(published) /\ orphan = <<>>
    <2>1. list = published /\ orphan = <<>> /\ PlanOK
      BY <1>1, <1>2 DEF SyncIInv, AloneOK
    <2>2. /\ \A id \in Listed(published) : Right(published, id)
          /\ \A id \in Ours \ Listed(published) : ~IsActiveRepresentation(id)
      BY <1>1, <1>2, <2>1 DEF PlanOK
    <2> QED BY <2>1, <2>2 DEF Mirrors, Right, Ours
  <1>3. OneChain => SettledMirrorsList' /\ (settled' /\ orphan' # <<>> => Harmless(published, orphan'[1]))
    BY <1>1, <1>2, MirrorsStay, RegistriesStay DEF SyncIInv, SettledMirrorsList
  <1>4. orphan' = <<>> \/ (orphan' = <<orphan'[1]>> /\ IsCall(orphan'[1]))
    BY <1>1 DEF SyncIInv, RunOK
  <1> QED BY <1>1, <1>3, <1>4, EndsKeep

LEMMA StopKeeps == ASSUME SyncIInv, Stop PROVE SyncIInv'
  <1>1. Fresh /\ UNCHANGED registryVars /\ UNCHANGED <<published, undisturbed, settled, reps>> /\ pc # "idle"
    BY DEF Stop, registryVars
  <1>2. OneChain => SettledMirrorsList'
    BY <1>1, MirrorsStay, RegistriesStay DEF SyncIInv, SettledMirrorsList
  <1>3. CASE pc = "sent" /\ \E call \in NextCalls : orphan' = <<call>>
    <2>1. PICK call \in NextCalls : orphan' = <<call>>
      BY <1>3
    <2>2. IsCall(call) /\ (OneChain => Harmless(list, call))
      BY <1>3, NextCallsAre DEF SyncIInv
    <2>3. settled => list = published
      BY <1>1 DEF SyncIInv, AloneOK
    <2>4. orphan'[1] = call /\ orphan' = <<orphan'[1]>>
      BY <2>1
    <2> QED BY <1>1, <1>2, <2>2, <2>3, <2>4, EndsKeep
  <1>4. CASE orphan' = orphan
    <2>1. orphan' = <<>> \/ (orphan' = <<orphan'[1]>> /\ IsCall(orphan'[1]))
      BY <1>4 DEF SyncIInv, RunOK
    <2>2. OneChain => (settled' /\ orphan' # <<>> => Harmless(published, orphan'[1]))
      BY <1>1, <1>4 DEF SyncIInv
    <2> QED BY <1>1, <1>2, <2>1, <2>2, EndsKeep
  <1> QED BY <1>3, <1>4 DEF Stop

----------------------------------------------------------------------------
(* The steps that change the registries.                                       *)
LEMMA MoreOfOurs ==
  ASSUME NEW call, ProviderOf(Target(call)) = P,
         (DOMAIN reps' = DOMAIN reps \cup {Target(call)}) \/ reps' = reps
  PROVE  (OneChain' => OneChain) /\ Ours \subseteq Ours' /\ Ours' \subseteq Ours \cup {Target(call)}
  BY DEF OneChain, Ours

LEMMA SettledStays ==
  ASSUME SyncIInv, OneChain, NEW l, l = published, NEW call, IsCall(call), Execute(call),
         settled => Harmless(l, call), UNCHANGED <<published, settled>>
  PROVE  settled => Mirrors(l)'
  <1>1. settled => Mirrors(l)
    BY DEF SyncIInv, SettledMirrorsList
  <1>2. call.kind \in {"upsert", "deactivate"}
    BY DEF IsCall
  <1> QED BY <1>1, <1>2, ExecuteDoes, HarmlessKeepsMirrors DEF SyncIInv

LEMMA MineOrphanKeeps == ASSUME SyncIInv, MineOrphan PROVE SyncIInv'
  <1>1. PICK call : call = orphan[1]
    OBVIOUS
  <1>2. /\ IsCall(call) /\ Execute(call) /\ orphan' = <<>>
        /\ UNCHANGED <<published, pc, list, ids, view, toUpsert, toDeactivate, undisturbed, settled>>
    BY <1>1 DEF MineOrphan, SyncIInv, RunOK, runVars
  <1>3. /\ EntriesOK' /\ ListsOK' /\ RegistriesConsistent' /\ ProviderOf(Target(call)) = P
        /\ (DOMAIN reps' = DOMAIN reps \cup {Target(call)}) \/ reps' = reps
    BY <1>2, ExecuteDoes DEF SyncIInv
  <1>4. (OneChain' => OneChain) /\ Ours \subseteq Ours'
    BY <1>3, MoreOfOurs
  <1>5. RunOK'
    BY <1>2, <1>4 DEF SyncIInv, RunOK, Listed, Entries
  <1>6. AloneOK' /\ ReadsOK' /\ PlanOK'
    <2>1. pc # "idle" => ~undisturbed
      BY DEF MineOrphan, SyncIInv, AloneOK
    <2> QED BY <1>2, <2>1 DEF SyncIInv, AloneOK, ReadsOK, PlanOK
  <1>7. ASSUME OneChain, settled PROVE Mirrors(published)'
    <2>1. PICK l : l = published
      OBVIOUS
    <2>2. Harmless(l, call)
      BY <1>1, <1>7, <2>1 DEF SyncIInv, MineOrphan
    <2>3. Mirrors(l)'
      BY <1>2, <1>7, <2>1, <2>2, SettledStays
    <2>4. published' = l
      BY <1>2, <2>1
    <2> QED BY <2>3, <2>4 DEF Mirrors
  <1> QED BY <1>2, <1>3, <1>4, <1>5, <1>6, <1>7 DEF SyncIInv, SettledMirrorsList

(* The plan's next call, and what it leaves of the plan.                       *)
LEMMA MinedKeeps == ASSUME SyncIInv, Mined PROVE SyncIInv'
  <1>1. PICK call \in NextCalls : Execute(call)
    BY DEF Mined
  <1>2. /\ pc = "sent" /\ orphan = <<>> /\ pc' = "applying"
        /\ toUpsert' = toUpsert \ FirstOf(toUpsert)
        /\ toDeactivate' = (IF toUpsert = {} THEN toDeactivate \ FirstOf(toDeactivate) ELSE toDeactivate)
        /\ UNCHANGED <<published, list, ids, view, orphan, undisturbed, settled>>
    BY DEF Mined
  <1>3. IsCall(call) /\ (OneChain => Harmless(list, call)) /\ \A c \in NextCalls : c = call
    BY <1>2, NextCallsAre DEF SyncIInv
  <1>4. /\ EntriesOK' /\ ListsOK' /\ RegistriesConsistent' /\ ProviderOf(Target(call)) = P
        /\ Target(call)[2] = HomeChain
        /\ Accepted(call) => DOMAIN reps' = DOMAIN reps \cup {Target(call)} /\ Done(call)'
        /\ ~Accepted(call) => UNCHANGED reps
        /\ \A x \in DOMAIN reps : x # Target(call) => reps'[x] = reps[x]
    BY <1>1, <1>3, ExecuteDoes DEF SyncIInv
  <1>5. (OneChain' => OneChain) /\ Ours \subseteq Ours' /\ Ours' \subseteq Ours \cup {Target(call)}
    BY <1>4, MoreOfOurs
  <1>6. RunOK'
    BY <1>2, <1>5 DEF SyncIInv, RunOK, Listed, Entries
  <1>7. AloneOK' /\ ReadsOK'
    BY <1>2 DEF SyncIInv, AloneOK, ReadsOK
  <1>8. ASSUME OneChain, settled PROVE Mirrors(published)'
    <2>1. PICK l : l = published
      OBVIOUS
    <2>2. Harmless(l, call)
      BY <1>2, <1>3, <1>8, <2>1 DEF SyncIInv, AloneOK
    <2>3. Mirrors(l)'
      BY <1>1, <1>2, <1>3, <1>8, <2>1, <2>2, SettledStays
    <2>4. published' = l
      BY <1>2, <2>1
    <2> QED BY <2>3, <2>4 DEF Mirrors
  <1>9. ASSUME OneChain, undisturbed PROVE PlanOK'
    <2>1. /\ Accepted(call) /\ Harmless(list, call)
          /\ \A id \in Listed(list) : Right(list, id) \/ \E i \in toUpsert : UpsertRep(P, list[i]) = id
          /\ \A id \in Ours \ Listed(list) : ~IsActiveRepresentation(id) \/ \E k \in toDeactivate : ids[k] = id
      BY <1>1, <1>2, <1>3, <1>9 DEF SyncIInv, PlanOK
    <2>2. DOMAIN reps' = DOMAIN reps \cup {Target(call)} /\ Done(call)'
      BY <1>4, <2>1
    <2>3. Listed(list)' = Listed(list) /\ Entries(list)' = Entries(list)
      BY <1>2 DEF Listed, Entries
    <2>4. \A id : id # Target(call) => /\ Right(list, id)' <=> Right(list, id)
                                       /\ IsActiveRepresentation(id)' <=> IsActiveRepresentation(id)
      BY <1>2, <1>4, <2>2 DEF Right, IsActiveRepresentation, RepresentationExists, Entries
    <2>5. CASE toUpsert # {}
      <3>1. PICK i \in FirstOf(toUpsert) : call = Upsert(list[i])
        BY <1>1, <2>5 DEF NextCalls
      <3>2. i \in DOMAIN list /\ list[i] \in Entries(list) /\ \A j \in FirstOf(toUpsert) : j = i
        BY <1>2, <3>1 DEF SyncIInv, RunOK, FirstOf, Entries
      <3>3. Target(call) = UpsertRep(P, list[i]) /\ Target(call) \in Listed(list) /\ Right(list, Target(call))'
        BY <1>2, <2>2, <3>1, <3>2 DEF Target, Upsert, Listed, Done, Right, IsActiveRepresentation,
                                 RepresentationExists, Entries
      <3>4. \A id \in Listed(list) : Right(list, id)' \/ \E j \in toUpsert' : UpsertRep(P, list[j]) = id
        BY <1>2, <2>1, <2>4, <3>2, <3>3
      <3>5. \A id \in Ours' \ Listed(list) :
              ~IsActiveRepresentation(id)' \/ \E k \in toDeactivate' : ids[k] = id
        BY <1>2, <1>5, <2>1, <2>4, <2>5, <3>3
      <3> QED BY <1>2, <2>3, <3>4, <3>5 DEF PlanOK
    <2>6. CASE toUpsert = {}
      <3>1. PICK k \in FirstOf(toDeactivate) : call = Deactivate(ids[k])
        BY <1>1, <2>6 DEF NextCalls, FirstOf
      <3>2. k \in toDeactivate /\ k \in DOMAIN ids /\ ids[k] \in RepIds /\ ids[k] \in Ours
            /\ \A j \in FirstOf(toDeactivate) : j = k
        BY <1>2, <3>1 DEF SyncIInv, RunOK, FirstOf, Entries
      <3>3. ids[k] = <<ids[k][1], ids[k][2], ids[k][3]>>
        BY <3>2 DEF RepIds
      <3>4. Target(call) = ids[k]
        BY <1>9, <3>1, <3>2, <3>3 DEF Target, Deactivate, DeactivateTarget, RepIdOf, Ours, OneChain, ProviderOf
      <3>5. ~IsActiveRepresentation(Target(call))' /\ Target(call) \notin Listed(list)
        BY <2>1, <2>2, <3>1 DEF Done, Deactivate, IsActiveRepresentation, RepresentationExists, Harmless, Target
      <3>6. \A id \in Listed(list) : Right(list, id)' \/ \E j \in toUpsert' : UpsertRep(P, list[j]) = id
        BY <2>1, <2>4, <2>6, <3>5
      <3>7. \A id \in Ours' \ Listed(list) :
              ~IsActiveRepresentation(id)' \/ \E j \in toDeactivate' : ids[j] = id
        BY <1>2, <1>5, <2>1, <2>4, <2>6, <3>2, <3>4, <3>5
      <3> QED BY <1>2, <2>3, <3>6, <3>7 DEF PlanOK
    <2> QED BY <2>5, <2>6
  <1>10. ~undisturbed => PlanOK'
    BY <1>2 DEF PlanOK
  <1> QED BY <1>2, <1>4, <1>5, <1>6, <1>7, <1>8, <1>9, <1>10 DEF SyncIInv, SettledMirrorsList

(* Whoever interferes leaves nothing settled, and takes no representation away.*)
LEMMA DisturbKeeps == ASSUME SyncIInv, Disturb PROVE SyncIInv'
  <1>1. /\ ~undisturbed' /\ ~settled'
        /\ UNCHANGED <<pc, list, ids, view, toUpsert, toDeactivate, orphan>>
    BY DEF Disturb, runVars
  <1>2. published' \in Lists /\ EntriesOK' /\ ListsOK' /\ RegistriesConsistent' /\ Ours \subseteq Ours'
    <2>1. CASE published' \in Lists /\ UNCHANGED registryVars
      BY <2>1, RegistriesStay DEF SyncIInv
    <2>2. CASE published' = published /\ \E id \in DOMAIN reps, s \in Statuses :
                                           SetRepresentationStatus(RegistryAdmin, id, s)
      <3>1. DOMAIN reps' = DOMAIN reps
        BY <2>2 DEF SetRepresentationStatus
      <3>2. EntriesOK' /\ ListsOK' /\ RegistriesConsistent'
        BY <2>2, StatusStep DEF SyncIInv
      <3> QED BY <2>2, <3>1, <3>2 DEF Ours, SyncIInv, RunOK
    <2>3. CASE published' = published /\ \E a \in DOMAIN assets, s \in Statuses :
                                           SetAssetStatus(RegistryAdmin, a, s)
      <3>1. AdminStep /\ reps' = reps
        BY <2>3 DEF SyncIInv, EntriesOK, AdminStep, SetAssetStatus
      <3> QED BY <2>3, <3>1, AdminKeeps DEF SyncIInv, RunOK, Ours
    <2> QED BY <2>1, <2>2, <2>3 DEF Disturb
  <1>3. RunOK'
    BY <1>1, <1>2 DEF SyncIInv, RunOK, IsCall, Listed, Entries
  <1>4. AloneOK' /\ ReadsOK' /\ PlanOK' /\ SettledMirrorsList'
    BY <1>1 DEF AloneOK, ReadsOK, PlanOK, SettledMirrorsList
  <1> QED BY <1>1, <1>2, <1>3, <1>4 DEF SyncIInv

LEMMA StutterKeeps == ASSUME SyncIInv, UNCHANGED syncVars PROVE SyncIInv'
  <1>1. /\ UNCHANGED registryVars
        /\ UNCHANGED <<reps, published, pc, list, ids, view, toUpsert, toDeactivate, orphan, undisturbed, settled>>
    BY DEF syncVars, runVars, registryVars
  <1>2. EntriesOK' /\ ListsOK' /\ RegistriesConsistent' /\ Ours' = Ours /\ (OneChain' <=> OneChain)
    BY <1>1, RegistriesStay DEF SyncIInv
  <1>3. RunOK'
    BY <1>1, <1>2 DEF SyncIInv, RunOK, IsCall, Listed, Entries
  <1>4. AloneOK' /\ (ReadsOK => ReadsOK')
    BY <1>1, <1>2 DEF SyncIInv, AloneOK, ReadsOK, Entries
  <1>5. PlanOK => PlanOK'
    <2>1. Listed(list)' = Listed(list) /\ \A id : Right(list, id)' <=> Right(list, id)
      BY <1>1 DEF Listed, Entries, Right, IsActiveRepresentation, RepresentationExists
    <2>2. \A id : IsActiveRepresentation(id)' <=> IsActiveRepresentation(id)
      BY <1>1 DEF IsActiveRepresentation, RepresentationExists
    <2>3. NextCalls' = NextCalls
      BY <1>1 DEF NextCalls, FirstOf
    <2>4. \A call : Accepted(call)' <=> Accepted(call)
      BY <1>1 DEF registryVars, Accepted, CanUpsert, CanDeactivate, DeactivateTarget, Admissible, ProviderAuth,
                  NotPresent, AssetExists, IsActiveAsset, RepresentationExists, UpsertParams, UpsertRep, UpsertAsset
    <2> QED BY <1>1, <1>2, <2>1, <2>2, <2>3, <2>4 DEF PlanOK
  <1>6. OneChain' => SettledMirrorsList' /\ (settled' /\ orphan' # <<>> => Harmless(published, orphan[1])')
    BY <1>1, <1>2, MirrorsStay, HarmlessStays DEF SyncIInv, SettledMirrorsList
  <1> QED BY <1>2, <1>3, <1>4, <1>5, <1>6 DEF SyncIInv

----------------------------------------------------------------------------
(* A run of runProviderSync that ended in full while nobody else touched the   *)
(* registry or the list leaves, and later runs keep, the registry as the list  *)
(* says, for any lists, any registry it found and any crash before it.         *)
THEOREM SettledRunsMirror == SyncSpec => []SettledMirrorsList
  <1>1. SyncInit => SyncIInv
    BY SyncInitHolds
  <1>2. SyncIInv /\ [SyncNext]_syncVars => SyncIInv'
    <2> SUFFICES ASSUME SyncIInv, [SyncNext]_syncVars PROVE SyncIInv'
      OBVIOUS
    <2>1. CASE WorkerStep
      BY <2>1, StartKeeps, ReadOneKeeps, PlanKeeps, SendKeeps, ThrowKeeps, MinedKeeps, CompleteKeeps DEF WorkerStep
    <2> QED BY <2>1, StopKeeps, MineOrphanKeeps, DisturbKeeps, StutterKeeps DEF SyncNext
  <1>3. SyncIInv => SettledMirrorsList
    BY DEF SyncIInv, SettledMirrorsList
  <1> QED BY <1>1, <1>2, <1>3, PTL DEF SyncSpec
=============================================================================
