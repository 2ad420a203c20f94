----------------------------- MODULE Registries -----------------------------
(* AssetIdentityRegistry.sol, RepresentationRegistry.sol and the adapters      *)
(* (ProviderAdapterBase.sol, with RobinhoodAdapter and CryptoAdapter as its    *)
(* two instances). An asset identity is a class and a symbol, an economic      *)
(* thing; a representation is one provider's token for it on one chain. The    *)
(* ids the contracts hash are the tuples they hash. A call that reverts is no  *)
(* step; timestamps and names are left out.                                    *)
EXTENDS Integers, FiniteSets, Sequences

CONSTANTS Providers, Symbols, Tokens, Oracles,
          Chains, HomeChain,  \* HomeChain: the chainId the adapters are built with
          Classes, ClassOf,   \* ClassOf[p]: the asset class of p's adapter
          AdapterOf,          \* AdapterOf[p]: the address of p's adapter
          RegistryAdmin,      \* holds REGISTRY_ADMIN_ROLE on both registries
          AssetAdmins,        \* holders of that role on the asset registry
          TokenDecimals,      \* what each token's decimals() answers, or NoMetadata
          NoMetadata, NoAdapter,
          Multipliers         \* bound: multipliers submitted, 0 among them

Decimals == {TokenDecimals[t] : t \in Tokens} \ {NoMetadata}
Assets == Classes \X Symbols                 \* keccak256(assetClass, symbol)
RepIds == Providers \X Chains \X Tokens      \* keccak256(providerId, chainId, token)
Callers == {RegistryAdmin} \cup {AdapterOf[p] : p \in Providers}

ASSUME RegistryAssumption ==
  /\ HomeChain \in Chains
  /\ ClassOf \in [Providers -> Classes]
  /\ NoAdapter \notin Callers
  /\ RegistryAdmin \in AssetAdmins
  /\ RegistryAdmin \notin {AdapterOf[p] : p \in Providers}

VARIABLES assets, providers, reps, repsByAsset, repsByProvider
registryVars == <<assets, providers, reps, repsByAsset, repsByProvider>>

Statuses == {"ACTIVE", "INACTIVE"}
Provider == [active : BOOLEAN, adapter : Callers \cup {NoAdapter}]
Representation == [asset : Assets, oracle : Oracles, multiplier : Multipliers \ {0}, status : Statuses]
RegisterParams == [provider : Providers, asset : Assets, chain : Chains, token : Tokens,
                   decimals : Nat, multiplier : Multipliers, oracle : Oracles]
SyncEntry == [symbol : Symbols, token : Tokens, decimals : Nat,
              multiplier : Multipliers, oracle : Oracles]

RegistryTypeOK ==
  /\ DOMAIN assets \subseteq Assets /\ assets \in [DOMAIN assets -> Statuses]
  /\ DOMAIN providers \subseteq Providers /\ providers \in [DOMAIN providers -> Provider]
  /\ DOMAIN reps \subseteq RepIds /\ reps \in [DOMAIN reps -> Representation]
  /\ repsByAsset \in [Assets -> Seq(RepIds)]
  /\ repsByProvider \in [Providers -> Seq(RepIds)]

With(f, k, v) == [x \in DOMAIN f \cup {k} |-> IF x = k THEN v ELSE f[x]]

AssetExists(a) == a \in DOMAIN assets
IsActiveAsset(a) == AssetExists(a) /\ assets[a] = "ACTIVE"
RepresentationExists(id) == id \in DOMAIN reps
IsActiveRepresentation(id) == RepresentationExists(id) /\ reps[id].status = "ACTIVE"
ResolvesTo(id, a) == RepresentationExists(id) /\ reps[id].asset = a
RepIdOf(p, c, t) == <<p, c, t>>
ProviderOf(id) == id[1]

(* _requireProviderAuth: an admin, or the provider's adapter, active or not.   *)
ProviderAuth(caller, p) ==
  \/ caller = RegistryAdmin
  \/ p \in DOMAIN providers /\ caller = providers[p].adapter

RegistryInit ==
  /\ assets = [a \in {} |-> "ACTIVE"]
  /\ providers = [p \in {} |-> [active |-> TRUE, adapter |-> NoAdapter]]
  /\ reps = [id \in {} |-> {}]
  /\ repsByAsset = [a \in Assets |-> <<>>]
  /\ repsByProvider = [p \in Providers |-> <<>>]

ListsOnce(list, S) ==
  {list[i] : i \in DOMAIN list} = S /\ \A i, j \in DOMAIN list : i # j => list[i] # list[j]
ListOf(S) == CHOOSE list \in [1..Cardinality(S) -> S] : ListsOnce(list, S)

(* The registries as a first sync of seed, a function from representation ids  *)
(* to their assets, leaves them.                                               *)
SeededInit(seed) ==
  /\ assets = [a \in {seed[id] : id \in DOMAIN seed} |-> "ACTIVE"]
  /\ providers = [p \in Providers |-> [active |-> TRUE, adapter |-> AdapterOf[p]]]
  /\ \E o \in Oracles, m \in Multipliers \ {0} :
       reps = [id \in DOMAIN seed |->
                 [asset |-> seed[id], oracle |-> o, multiplier |-> m, status |-> "ACTIVE"]]
  /\ repsByAsset = [a \in Assets |-> ListOf({id \in DOMAIN seed : seed[id] = a})]
  /\ repsByProvider = [p \in Providers |-> ListOf({id \in DOMAIN seed : id[1] = p})]

----------------------------------------------------------------------------
(* AssetIdentityRegistry                                                       *)
RegisterAssetIdentity(caller, a) ==
  /\ caller \in AssetAdmins
  /\ ~AssetExists(a)
  /\ assets' = With(assets, a, "ACTIVE")
  /\ UNCHANGED <<providers, reps, repsByAsset, repsByProvider>>

SetAssetStatus(caller, a, status) ==
  /\ caller \in AssetAdmins
  /\ AssetExists(a)
  /\ assets' = [assets EXCEPT ![a] = status]
  /\ UNCHANGED <<providers, reps, repsByAsset, repsByProvider>>

(* RepresentationRegistry: providers                                           *)
RegisterProvider(caller, p, adapter) ==
  /\ caller = RegistryAdmin
  /\ p \notin DOMAIN providers
  /\ providers' = With(providers, p, [active |-> TRUE, adapter |-> adapter])
  /\ UNCHANGED <<assets, reps, repsByAsset, repsByProvider>>

SetProviderAdapter(caller, p, adapter) ==
  /\ caller = RegistryAdmin
  /\ p \in DOMAIN providers
  /\ providers' = [providers EXCEPT ![p].adapter = adapter]
  /\ UNCHANGED <<assets, reps, repsByAsset, repsByProvider>>

SetProviderActive(caller, p, active) ==
  /\ caller = RegistryAdmin
  /\ p \in DOMAIN providers
  /\ providers' = [providers EXCEPT ![p].active = active]
  /\ UNCHANGED <<assets, reps, repsByAsset, repsByProvider>>

(* RepresentationRegistry: representations. active(a) is the asset registry's *)
(* answer inside the same transaction.                                         *)
\* Mutant of NotPresent: an id may be registered over.
NotPresentUnchecked(id) == TRUE
NotPresent(id) == ~RepresentationExists(id)

ValidMultiplier(m) == m # 0

Admissible(caller, p, active(_)) ==
  /\ p.provider \in DOMAIN providers
  /\ providers[p.provider].active
  /\ ProviderAuth(caller, p.provider)
  /\ active(p.asset)
  /\ ValidMultiplier(p.multiplier)
  /\ p.decimals = TokenDecimals[p.token]
  /\ NotPresent(RepIdOf(p.provider, p.chain, p.token))

Admit(p) ==
  LET id == RepIdOf(p.provider, p.chain, p.token) IN
  /\ reps' = With(reps, id, [asset |-> p.asset, oracle |-> p.oracle,
                             multiplier |-> p.multiplier, status |-> "ACTIVE"])
  /\ repsByAsset' = [repsByAsset EXCEPT ![p.asset] = Append(@, id)]
  /\ repsByProvider' = [repsByProvider EXCEPT ![p.provider] = Append(@, id)]

RegisterRepresentation(caller, p) ==
  /\ Admissible(caller, p, IsActiveAsset)
  /\ Admit(p)
  /\ UNCHANGED <<assets, providers>>

SetRepresentationStatus(caller, id, status) ==
  /\ RepresentationExists(id) /\ ProviderAuth(caller, ProviderOf(id))
  /\ reps' = [reps EXCEPT ![id].status = status]
  /\ UNCHANGED <<assets, providers, repsByAsset, repsByProvider>>

DeactivateRepresentation(caller, id) == SetRepresentationStatus(caller, id, "INACTIVE")

UpdateOracleMetadata(caller, id, oracle) ==
  /\ RepresentationExists(id) /\ ProviderAuth(caller, ProviderOf(id))
  /\ reps' = [reps EXCEPT ![id].oracle = oracle]
  /\ UNCHANGED <<assets, providers, repsByAsset, repsByProvider>>

----------------------------------------------------------------------------
(* ProviderAdapterBase, called by the worker's key (SYNC_ROLE).                *)

(* syncUpsert: the asset identity if there is none, then the representation if *)
(* there is none, else its oracle metadata and its status back to ACTIVE. One  *)
(* transaction: a failure of any call undoes them all.                         *)
Refreshed(rep, oracle) == [rep EXCEPT !.oracle = oracle, !.status = "ACTIVE"]

UpsertAsset(p, e) == <<ClassOf[p], e.symbol>>
UpsertRep(p, e) == RepIdOf(p, HomeChain, e.token)
UpsertParams(p, e) ==
  [provider |-> p, asset |-> UpsertAsset(p, e), chain |-> HomeChain, token |-> e.token,
   decimals |-> e.decimals, multiplier |-> e.multiplier, oracle |-> e.oracle]

(* When the transaction goes through.                                          *)
CanUpsert(p, e) ==
  LET ActiveBy(x) == AssetExists(x) => IsActiveAsset(x) IN
  /\ AssetExists(UpsertAsset(p, e)) \/ AdapterOf[p] \in AssetAdmins
  /\ IF RepresentationExists(UpsertRep(p, e)) THEN ProviderAuth(AdapterOf[p], p)
     ELSE Admissible(AdapterOf[p], UpsertParams(p, e), ActiveBy)

SyncUpsert(p, e) ==
  LET a == UpsertAsset(p, e)  id == UpsertRep(p, e) IN
  /\ CanUpsert(p, e)
  /\ assets' = IF AssetExists(a) THEN assets ELSE With(assets, a, "ACTIVE")
  /\ UNCHANGED providers
  /\ IF RepresentationExists(id)
     THEN /\ reps' = [reps EXCEPT ![id] = Refreshed(@, e.oracle)]
          /\ UNCHANGED <<repsByAsset, repsByProvider>>
     ELSE Admit(UpsertParams(p, e))

SyncDeactivate(p, id) == DeactivateRepresentation(AdapterOf[p], id)

SyncDeactivateByToken(p, t) == SyncDeactivate(p, RepIdOf(p, HomeChain, t))

----------------------------------------------------------------------------
AdminStep ==
  \/ \E a \in Assets : RegisterAssetIdentity(RegistryAdmin, a)
  \/ \E a \in Assets, s \in Statuses : SetAssetStatus(RegistryAdmin, a, s)
  \/ \E p \in Providers, x \in Callers \cup {NoAdapter} :
       RegisterProvider(RegistryAdmin, p, x) \/ SetProviderAdapter(RegistryAdmin, p, x)
  \/ \E p \in Providers, b \in BOOLEAN : SetProviderActive(RegistryAdmin, p, b)

RepresentationStep ==
  \/ \E c \in Callers, t \in Tokens, p \in Providers, a \in Assets, ch \in Chains,
        m \in Multipliers, o \in Oracles, d \in Decimals :
       RegisterRepresentation(c, [provider |-> p, asset |-> a, chain |-> ch, token |-> t,
                                  decimals |-> d, multiplier |-> m, oracle |-> o])
  \/ \E c \in Callers, id \in RepIds, s \in Statuses : SetRepresentationStatus(c, id, s)
  \/ \E c \in Callers, id \in RepIds, o \in Oracles : UpdateOracleMetadata(c, id, o)

SyncStep ==
  \/ \E p \in Providers, s \in Symbols, t \in Tokens, m \in Multipliers, o \in Oracles,
        d \in Decimals :
       SyncUpsert(p, [symbol |-> s, token |-> t, decimals |-> d, multiplier |-> m, oracle |-> o])
  \/ \E p \in Providers, t \in Tokens : SyncDeactivateByToken(p, t)
  \/ \E p \in Providers, id \in RepIds : SyncDeactivate(p, id)

RegistryNext == AdminStep \/ RepresentationStep \/ SyncStep
RegistrySpec == RegistryInit /\ [][RegistryNext]_registryVars

----------------------------------------------------------------------------
(* The two lists the sync worker and the views read are exactly the           *)
(* representations there are, each listed once under its asset and once under  *)
(* its provider, whatever mix of admins and adapters registered them; and      *)
(* every one's asset and provider exist, so that no resolved component makes   *)
(* getAssetIdentity revert.                                                    *)
RegistriesConsistent ==
  /\ \A a \in Assets : ListsOnce(repsByAsset[a], {id \in DOMAIN reps : reps[id].asset = a})
  /\ \A p \in Providers : ListsOnce(repsByProvider[p], {id \in DOMAIN reps : ProviderOf(id) = p})
  /\ \A id \in DOMAIN reps : AssetExists(reps[id].asset) /\ ProviderOf(id) \in DOMAIN providers

(* A representation, once registered, is there for good and stands for the     *)
(* same asset with the same multiplier: what a minted composition pinned keeps *)
(* its meaning through every upsert, rename and re-registration.               *)
RepresentationsPinned ==
  [][\A id \in DOMAIN reps :
       /\ id \in DOMAIN reps'
       /\ reps'[id].asset = reps[id].asset
       /\ reps'[id].multiplier = reps[id].multiplier]_registryVars
=============================================================================
