------------------------------ MODULE FeeWiring ------------------------------
(* FeeConfig.sol and Collection.sol, the two contracts that point at each     *)
(* other: a Collection is constructed with the FeeConfig, the FeeConfig is    *)
(* told its Collection afterwards (setCollection), and the Marketplace keeps, *)
(* for good, the Collection it was constructed with. A state is what storage  *)
(* holds between transactions; a transaction that reverts is no step. The fee *)
(* recipient's callback runs last in createCollection and under its lock, so  *)
(* what it does before it accepts is a transaction of its own after it.       *)
EXTENDS Integers, FiniteSets

CONSTANTS Deployments,    \* Collection contracts that may ever be deployed
          First,          \* the one the Marketplace was constructed with
          Accounts,
          MaxId,          \* bound: collections per deployment
          MaxN,  \* 20 in the code
          CurveCap,       \* MAX_CURVE_FEE_AT_MAX_N
          BpsCap,         \* MAX_MARKETPLACE_FEE_BPS and MAX_ROYALTY_BPS
          Amounts,        \* bound: bases, slopes and rates an admin submits
          Values,         \* bound: ether a creator sends
          URIs            \* metadata URIs, the empty one among them

ASSUME WiringAssumption ==
  /\ First \in Deployments
  /\ MaxId \in Nat /\ MaxN \in Nat \ {0}
  /\ CurveCap \in Nat /\ BpsCap \in Nat /\ Amounts \subseteq Nat /\ Values \subseteq Nat

Ids == 1..MaxId
Unset == "unset"                       \* address(0)
Curves == {"collection", "mint"}
Curve == [base : Nat, slope : Nat]

ASSUME UnsetAssumption == Unset \notin Deployments /\ Unset \notin Accounts

VARIABLES collection,   \* FeeConfig.collection
          curve, marketplaceFeeBps, feeRecipient, royaltyBps,
          deployed, nextId, owner, metadataURI, paused
feeVars == <<collection, curve, marketplaceFeeBps, feeRecipient, royaltyBps>>
collVars == <<deployed, nextId, owner, metadataURI, paused>>
vars == <<feeVars, collVars>>

Fee(k, n) == curve[k].base + curve[k].slope * (n - 1)

\* Mutant of WithinCap: the slope is counted one component short.
WithinCapShort(base, slope) == base + slope * (MaxN - 2) <= CurveCap
WithinCap(base, slope) == base + slope * (MaxN - 1) <= CurveCap
Exists(d, id) == owner[d][id] # Unset

WithinBpsCap(bps) == bps <= BpsCap

\* Mutant of MayHaveRoyalty: an unwired FeeConfig skips the check.
MayHaveRoyaltyOpen(id) == IF collection = Unset THEN TRUE ELSE Exists(collection, id)
MayHaveRoyalty(id) == collection # Unset /\ Exists(collection, id)

\* Mutant of IdAfter: the counter is not advanced.
IdReused(id) == id
IdAfter(id) == id + 1

TypeOK ==
  /\ collection \in Deployments \cup {Unset}
  /\ curve \in [Curves -> Curve]
  /\ marketplaceFeeBps \in 0..BpsCap /\ royaltyBps \in [Ids -> 0..BpsCap]
  /\ feeRecipient \in Accounts
  /\ deployed \subseteq Deployments
  /\ nextId \in [Deployments -> Nat \ {0}]
  /\ owner \in [Deployments -> [Ids -> Accounts \cup {Unset}]]
  /\ metadataURI \in [Deployments -> [Ids -> URIs \cup {Unset}]]
  /\ paused \in [Deployments -> BOOLEAN]

----------------------------------------------------------------------------
(* The deployment order of FeeConfig's header: FeeConfig, with no collection,  *)
(* then a Collection constructed with it.                                      *)
Init ==
  /\ collection = Unset
  /\ \E b, s \in Amounts : WithinCap(b, s) /\ curve = [k \in Curves |-> [base |-> b, slope |-> s]]
  /\ marketplaceFeeBps \in Amounts \cap 0..BpsCap
  /\ feeRecipient \in Accounts
  /\ royaltyBps = [i \in Ids |-> 0]
  /\ deployed = {First}
  /\ nextId = [d \in Deployments |-> 1]
  /\ owner = [d \in Deployments |-> [i \in Ids |-> Unset]]
  /\ metadataURI = [d \in Deployments |-> [i \in Ids |-> Unset]]
  /\ paused = [d \in Deployments |-> FALSE]

DeployCollection(d) ==
  /\ d \notin deployed
  /\ deployed' = deployed \cup {d}
  /\ UNCHANGED <<feeVars, nextId, owner, metadataURI, paused>>

SetCollection(d) ==
  /\ d \in deployed
  /\ collection' = d
  /\ UNCHANGED <<curve, marketplaceFeeBps, feeRecipient, royaltyBps, collVars>>

SetCurve(k, b, s) ==
  /\ WithinCap(b, s)
  /\ curve' = [curve EXCEPT ![k] = [base |-> b, slope |-> s]]
  /\ UNCHANGED <<collection, marketplaceFeeBps, feeRecipient, royaltyBps, collVars>>

SetMarketplaceFeeBps(bps) ==
  /\ WithinBpsCap(bps)
  /\ marketplaceFeeBps' = bps
  /\ UNCHANGED <<collection, curve, feeRecipient, royaltyBps, collVars>>

SetRoyaltyBps(id, bps) ==
  /\ WithinBpsCap(bps)
  /\ MayHaveRoyalty(id)
  /\ royaltyBps' = [royaltyBps EXCEPT ![id] = bps]
  /\ UNCHANGED <<collection, curve, marketplaceFeeBps, feeRecipient, collVars>>

SetFeeRecipient(a) ==
  /\ feeRecipient' = a
  /\ UNCHANGED <<collection, curve, marketplaceFeeBps, royaltyBps, collVars>>

(* createCollection: the exact fee for the announced component count, then the *)
(* next id, then the fee to the recipient, who may refuse it (no step).        *)
CreateCollection(d, a, n, value, uri) ==
  /\ d \in deployed /\ ~paused[d]
  /\ n \in 1..MaxN
  /\ value = Fee("collection", n)
  /\ nextId[d] <= MaxId
  /\ owner' = [owner EXCEPT ![d][nextId[d]] = a]
  /\ metadataURI' = [metadataURI EXCEPT ![d][nextId[d]] = uri]
  /\ nextId' = [nextId EXCEPT ![d] = IdAfter(@)]
  /\ UNCHANGED <<feeVars, deployed, paused>>

SetCollectionMetadata(d, id, sender, uri) ==
  /\ Exists(d, id)
  /\ owner[d][id] = sender
  /\ metadataURI' = [metadataURI EXCEPT ![d][id] = uri]
  /\ UNCHANGED <<feeVars, deployed, nextId, owner, paused>>

SetPaused(d, b) ==
  /\ d \in deployed /\ paused[d] # b
  /\ paused' = [paused EXCEPT ![d] = b]
  /\ UNCHANGED <<feeVars, deployed, nextId, owner, metadataURI>>

Next ==
  \/ \E d \in Deployments : DeployCollection(d) \/ SetCollection(d)
  \/ \E k \in Curves, b, s \in Amounts : SetCurve(k, b, s)
  \/ \E bps \in Amounts : SetMarketplaceFeeBps(bps)
  \/ \E id \in Ids, bps \in Amounts : SetRoyaltyBps(id, bps)
  \/ \E a \in Accounts : SetFeeRecipient(a)
  \/ \E d \in Deployments, a \in Accounts, n \in 1..MaxN :
       \E v \in Values, u \in URIs : CreateCollection(d, a, n, v, u)
  \/ \E d \in Deployments, id \in Ids, a \in Accounts, u \in URIs :
       SetCollectionMetadata(d, id, a, u)
  \/ \E d \in Deployments, b \in BOOLEAN : SetPaused(d, b)

Spec == Init /\ [][Next]_vars

----------------------------------------------------------------------------
(* The cap is checked at the largest component count only; it has to bound    *)
(* what a creator or a minter is asked for at every count.                    *)
FeesWithinCap == \A k \in Curves, n \in 1..MaxN : Fee(k, n) <= CurveCap

(* A collection id with a royalty is some creator's, in a Collection that was  *)
(* deployed: wiring, rewiring and creations in any order leave no royalty on   *)
(* an id that nobody owns. (It need not be the Collection the Marketplace asks,*)
(* once a second one is deployed.)                                             *)
RoyaltyHasOwner ==
  \A id \in Ids : royaltyBps[id] > 0 => \E d \in deployed : Exists(d, id)

(* Whoever created a collection owns it for good: no later creation, pause,   *)
(* redeployment or metadata update hands its id, and so its royalties, to     *)
(* someone else.                                                              *)
OwnersPermanent ==
  [][\A d \in Deployments, id \in Ids :
       Exists(d, id) => owner'[d][id] = owner[d][id]]_vars
=============================================================================
