---------------------------- MODULE ProviderSync ----------------------------
(* workers/provider-sync: one run of a provider's worker reads the provider's  *)
(* token list and, in calls that are answered in any order, the registry;      *)
(* plans; and applies the plan one transaction at a time, each estimated, sent *)
(* and waited for, with its receipt's status unread. Meanwhile the list        *)
(* changes, an administrator works on the registry and the process is stopped  *)
(* or dies; what it knew is gone and a scheduler starts it again.              *)
EXTENDS Registries

CONSTANTS P,              \* the provider this worker syncs
          Lists,          \* token lists the provider may publish, parsed
          Seed,           \* the registry's representations at the start
          MaxDisturbances,\* bound: changes of the list or by an administrator
          MaxCrashes,     \* bound: stops and crashes of the worker
          AdminDeactivatesAssets

(* The schema the list file is parsed with; a file that fails it ends the run  *)
(* before anything is read, and is not modelled.                               *)
WellFormedList(l) == \A i \in DOMAIN l : l[i] \in SyncEntry

ASSUME SyncAssumption ==
  P \in Providers /\ MaxDisturbances \in Nat /\ MaxCrashes \in Nat
  /\ (\A l \in Lists : l \in Seq(SyncEntry) /\ WellFormedList(l))
  /\ IsFiniteSet(DOMAIN Seed) /\ DOMAIN Seed \subseteq RepIds /\ Seed \in [DOMAIN Seed -> Assets]

VARIABLES published,               \* the provider's list
          pc, list, ids, view,     \* the run: what it has read so far
          toUpsert, toDeactivate,  \* the plan not yet applied: places in list, in ids
          disturbances, crashes,
          orphan,                  \* a transaction a dead worker had sent, not yet mined
          undisturbed, settled     \* nobody interfered since this run, or the last
                                   \* complete one, began
runVars == <<pc, list, ids, view, toUpsert, toDeactivate>>
syncVars == <<registryVars, published, runVars, disturbances, crashes,
              orphan, undisturbed, settled>>

Fresh == /\ pc' = "idle" /\ list' = <<>> /\ ids' = <<>> /\ view' = [id \in {} |-> {}]
         /\ toUpsert' = {} /\ toDeactivate' = {}

Entries(l) == {l[i] : i \in DOMAIN l}
Listed(l) == {UpsertRep(P, e) : e \in Entries(l)}

(* reconcile: what to register, re-activate or refresh, and what to delist.    *)
\* Mutant of NeedsUpsert: an inactive representation is not brought back.
NeedsUpsertMissing(v, e) ==
  LET id == UpsertRep(P, e) IN id \in DOMAIN v => v[id].oracle # e.oracle
NeedsUpsert(v, e) ==
  LET id == UpsertRep(P, e) IN
  id \in DOMAIN v => v[id].status # "ACTIVE" \/ v[id].oracle # e.oracle

ToDeactivate(v, l, order) == {k \in DOMAIN order : /\ v[order[k]].status = "ACTIVE"
                                                   /\ order[k] \notin Listed(l)}

SyncInit ==
  /\ SeededInit(Seed)
  /\ published \in Lists
  /\ pc = "idle" /\ list = <<>> /\ ids = <<>> /\ view = [id \in {} |-> {}]
  /\ toUpsert = {} /\ toDeactivate = {}
  /\ disturbances = 0 /\ crashes = 0
  /\ orphan = <<>> /\ undisturbed = FALSE /\ settled = FALSE

----------------------------------------------------------------------------
(* runProviderSync: the list and the provider's ids, then all representations  *)
(* at once (Promise.all).                                                      *)
Start ==
  /\ pc = "idle"
  /\ pc' = "reading" /\ list' = published /\ ids' = repsByProvider[P]
  /\ undisturbed' = (orphan = <<>>)
  /\ UNCHANGED <<registryVars, published, view, toUpsert, toDeactivate, disturbances, crashes,
                 orphan, settled>>

ReadOne ==
  /\ pc = "reading"
  /\ \E id \in Entries(ids) \ DOMAIN view : view' = With(view, id, reps[id])
  /\ UNCHANGED <<registryVars, published, pc, list, ids, toUpsert, toDeactivate,
                 disturbances, crashes, orphan, undisturbed, settled>>

Plan ==
  /\ pc = "reading" /\ Entries(ids) \subseteq DOMAIN view
  /\ pc' = "applying"
  /\ toUpsert' = {i \in DOMAIN list : NeedsUpsert(view, list[i])}
  /\ toDeactivate' = ToDeactivate(view, list, ids)
  /\ UNCHANGED <<registryVars, published, list, ids, view, disturbances, crashes,
                 orphan, undisturbed, settled>>

(* The transactions: syncUpsert, then syncDeactivateByToken, which computes    *)
(* the id again with the adapter's chain. The plan is applied in order.        *)
Upsert(e) == [kind |-> "upsert", entry |-> e]
Deactivate(id) == [kind |-> "deactivate", token |-> id[3]]
DeactivateTarget(call) == RepIdOf(P, HomeChain, call.token)

FirstOf(S) == {i \in S : \A j \in S : i <= j}
NextCalls ==
  {Upsert(list[i]) : i \in FirstOf(toUpsert)}
    \cup {Deactivate(ids[k]) : k \in IF toUpsert = {} THEN FirstOf(toDeactivate) ELSE {}}

CanDeactivate(id) == RepresentationExists(id) /\ ProviderAuth(AdapterOf[P], P)
Accepted(call) == IF call.kind = "upsert" THEN CanUpsert(P, call.entry)
                                          ELSE CanDeactivate(DeactivateTarget(call))

(* A call that was sent is mined later, on the registry as it then is; that it *)
(* reverts there is not noticed.                                               *)
Execute(call) ==
  \/ Accepted(call) /\ call.kind = "upsert" /\ SyncUpsert(P, call.entry)
  \/ Accepted(call) /\ call.kind = "deactivate" /\ SyncDeactivate(P, DeactivateTarget(call))
  \/ ~Accepted(call) /\ UNCHANGED registryVars

(* writeContract: the node estimates the call, and a call that reverts is not  *)
(* sent: the error ends the run.                                               *)
Send ==
  /\ pc = "applying" /\ \E call \in NextCalls : Accepted(call)
  /\ pc' = "sent"
  /\ UNCHANGED <<registryVars, published, list, ids, view, toUpsert, toDeactivate,
                 disturbances, crashes, orphan, undisturbed, settled>>

Throw ==
  /\ pc = "applying" /\ \E call \in NextCalls : ~Accepted(call)
  /\ Fresh
  /\ UNCHANGED <<registryVars, published, disturbances, crashes, orphan, undisturbed, settled>>

Mined ==
  /\ pc = "sent" /\ orphan = <<>>        \* nonces: the orphan goes first
  /\ pc' = "applying"
  /\ \E call \in NextCalls : Execute(call)
  /\ toUpsert' = toUpsert \ FirstOf(toUpsert)
  /\ toDeactivate' = IF toUpsert = {} THEN toDeactivate \ FirstOf(toDeactivate) ELSE toDeactivate
  /\ UNCHANGED <<published, list, ids, view, disturbances, crashes, orphan, undisturbed, settled>>

Complete ==
  /\ pc = "applying" /\ toUpsert = {} /\ toDeactivate = {}
  /\ Fresh
  /\ settled' = undisturbed
  /\ UNCHANGED <<registryVars, published, disturbances, crashes, orphan, undisturbed>>

(* A signal is looked at between two transactions; a crash, or a read or a     *)
(* wait that fails, needs no occasion, and the transaction already sent        *)
(* outlives the worker.                                                        *)
Stop ==
  /\ pc # "idle" /\ crashes < MaxCrashes
  /\ crashes' = crashes + 1
  /\ Fresh
  /\ \/ pc = "sent" /\ orphan = <<>> /\ \E call \in NextCalls : orphan' = <<call>>
     \/ ~ (pc = "sent" /\ orphan = <<>>) /\ orphan' = orphan
  /\ UNCHANGED <<registryVars, published, disturbances, undisturbed, settled>>

MineOrphan ==
  /\ orphan # <<>>
  /\ orphan' = <<>>
  /\ Execute(orphan[1])
  /\ UNCHANGED <<published, runVars, disturbances, crashes, undisturbed, settled>>

WorkerStep == Start \/ ReadOne \/ Plan \/ Send \/ Throw \/ Mined \/ Complete

Disturb ==
  /\ disturbances < MaxDisturbances
  /\ disturbances' = disturbances + 1
  /\ undisturbed' = FALSE /\ settled' = FALSE
  /\ UNCHANGED <<runVars, crashes, orphan>>
  /\ \/ published' \in Lists /\ UNCHANGED registryVars
     \/ /\ UNCHANGED published
        /\ \/ \E id \in DOMAIN reps, s \in Statuses : SetRepresentationStatus(RegistryAdmin, id, s)
           \/ AdminDeactivatesAssets
              /\ \E a \in DOMAIN assets, s \in Statuses : SetAssetStatus(RegistryAdmin, a, s)

SyncNext == WorkerStep \/ Stop \/ MineOrphan \/ Disturb
SyncSpec == SyncInit /\ [][SyncNext]_syncVars
(* The scheduler starts the worker again and again, and a run that can go on   *)
(* does; a sent transaction is mined.                                          *)
FairSync == SyncSpec /\ WF_syncVars(WorkerStep) /\ WF_syncVars(MineOrphan)

----------------------------------------------------------------------------
(* What it is for the registry to be what the list says. A list the schema    *)
(* lets through may name a token twice, with two feeds: either will do.        *)
Mirrors(l) ==
  /\ \A id \in Listed(l) : /\ IsActiveRepresentation(id)
                           /\ \E e \in Entries(l) : UpsertRep(P, e) = id /\ reps[id].oracle = e.oracle
  /\ \A id \in DOMAIN reps : ProviderOf(id) = P /\ id \notin Listed(l) => ~IsActiveRepresentation(id)

(* The provider has no representation on a chain its adapter does not serve:   *)
(* the worker would take one for a token of its own chain.                     *)
OneChain == \A id \in DOMAIN reps : ProviderOf(id) = P => id[2] = HomeChain

(* Once a run has ended in full with nobody interfering, the registry is what *)
(* the list says: what was planned from reads made one at a time was enough.   *)
SettledMirrorsList == settled /\ OneChain => Mirrors(published)

(* Whatever was stale in a plan, reverted unnoticed or died halfway, the       *)
(* registry comes to mirror the last list once everybody else is done, unless  *)
(* an entry of it is refused for good (syncRegistry ends at the first revert). *)
RegistryConverges ==
  <>[](\A i \in DOMAIN published : CanUpsert(P, published[i])) => <>[]Mirrors(published)
=============================================================================
