-------------------------- MODULE Contracts_proofs --------------------------
(* The contracts behind the market: the wiring of FeeConfig.sol and            *)
(* Collection.sol, for every number of deployments, accounts and ids and every *)
(* cap; and NFFC's promises for any parties, fees, compositions and            *)
(* registries, with the fee recipient and the minter's receiver free to act in *)
(* mid-mint: every token's composition obeys the rules for good, and no mint   *)
(* is left half done. Inductive: what a refusal would restore is itself a      *)
(* state between transactions, one token short.                                *)
EXTENDS FeeWiring, NFFCMint, Registries_proofs, SequenceTheorems

(* A curve within the cap at the largest count is within it at every count.   *)
LEMMA CurveBounded ==
  ASSUME NEW b \in Nat, NEW s \in Nat, NEW N \in Nat, NEW n \in 1..N, NEW cap \in Nat,
         b + s * (N - 1) <= cap
  PROVE  b + s * (n - 1) <= cap
<1>1. s * (N - 1) = s * (n - 1) + s * (N - n)
  BY SMT
<1>2. s * (N - n) >= 0
  BY SMT
<1> QED BY <1>1, <1>2, SMT

(* Storage of the two contracts keeps its types; ids below the counter are     *)
(* the ones that have an owner.                                                *)
IdsDense == \A d \in Deployments, id \in Ids : Exists(d, id) => id < nextId[d]
CurvesCapped == \A k \in Curves : WithinCap(curve[k].base, curve[k].slope)
IInv == TypeOK /\ IdsDense /\ CurvesCapped

LEMMA InitIInv == Init => IInv
<1> SUFFICES ASSUME Init PROVE IInv
  OBVIOUS
<1>1. TypeOK
  BY WiringAssumption, UnsetAssumption DEF Init, TypeOK, Curve, Curves, Ids
<1>2. IdsDense
  BY DEF Init, IdsDense, Exists
<1>3. CurvesCapped
  BY DEF Init, CurvesCapped
<1> QED BY <1>1, <1>2, <1>3 DEF IInv

LEMMA NextIInv == IInv /\ [Next]_vars => IInv'
<1> SUFFICES ASSUME IInv, [Next]_vars PROVE IInv'
  OBVIOUS
<1> USE WiringAssumption, UnsetAssumption DEF IInv
<1>1. ASSUME NEW d \in Deployments, DeployCollection(d) PROVE IInv'
  BY <1>1 DEF DeployCollection, TypeOK, IdsDense, CurvesCapped, feeVars, Exists
<1>2. ASSUME NEW d \in Deployments, SetCollection(d) PROVE IInv'
  BY <1>2 DEF SetCollection, TypeOK, IdsDense, CurvesCapped, collVars, Exists
<1>3. ASSUME NEW k \in Curves, NEW b \in Amounts, NEW s \in Amounts, SetCurve(k, b, s)
      PROVE IInv'
  <2>1. b \in Nat /\ s \in Nat
    OBVIOUS
  <2>2. curve' = [curve EXCEPT ![k] = [base |-> b, slope |-> s]] /\ WithinCap(b, s)
    BY <1>3 DEF SetCurve
  <2>3. TypeOK'
    BY <1>3, <2>1 DEF SetCurve, TypeOK, collVars, Curve
  <2>4. CurvesCapped'
    BY <2>1, <2>2 DEF CurvesCapped, TypeOK, Curve, WithinCap
  <2>5. IdsDense'
    BY <1>3 DEF SetCurve, IdsDense, collVars, Exists
  <2> QED BY <2>3, <2>4, <2>5
<1>4. ASSUME NEW bps \in Amounts, SetMarketplaceFeeBps(bps) PROVE IInv'
  BY <1>4 DEF SetMarketplaceFeeBps, WithinBpsCap, TypeOK, IdsDense, CurvesCapped, collVars, Exists
<1>5. ASSUME NEW id \in Ids, NEW bps \in Amounts, SetRoyaltyBps(id, bps) PROVE IInv'
  BY <1>5 DEF SetRoyaltyBps, WithinBpsCap, TypeOK, IdsDense, CurvesCapped, collVars, Exists
<1>6. ASSUME NEW a \in Accounts, SetFeeRecipient(a) PROVE IInv'
  BY <1>6 DEF SetFeeRecipient, TypeOK, IdsDense, CurvesCapped, collVars, Exists
<1>7. ASSUME NEW d \in Deployments, NEW a \in Accounts, NEW n \in 1..MaxN,
             NEW v \in Values, NEW u \in URIs, CreateCollection(d, a, n, v, u)
      PROVE IInv'
  <2>1. PICK i \in Nat \ {0} : i = nextId[d]
    BY DEF TypeOK
  <2>2. /\ i \in Ids
        /\ owner' = [owner EXCEPT ![d][i] = a]
        /\ metadataURI' = [metadataURI EXCEPT ![d][i] = u]
        /\ nextId' = [nextId EXCEPT ![d] = i + 1]
    BY <1>7, <2>1 DEF CreateCollection, IdAfter, Ids, TypeOK
  <2>3. TypeOK'
    <3>1. owner' \in [Deployments -> [Ids -> Accounts \cup {Unset}]]
      BY <2>2 DEF TypeOK
    <3>2. metadataURI' \in [Deployments -> [Ids -> URIs \cup {Unset}]]
      BY <2>2 DEF TypeOK
    <3>3. nextId' \in [Deployments -> Nat \ {0}]
      BY <2>1, <2>2 DEF TypeOK
    <3>4. UNCHANGED <<feeVars, deployed, paused>>
      BY <1>7 DEF CreateCollection
    <3> QED BY <3>1, <3>2, <3>3, <3>4 DEF TypeOK, feeVars
  <2>4. IdsDense'
    <3> SUFFICES ASSUME NEW e \in Deployments, NEW j \in Ids, owner'[e][j] # Unset
                 PROVE j < nextId'[e]
      BY DEF IdsDense, Exists
    <3>1. CASE e = d /\ j = i
      BY <3>1, <2>2, <2>1 DEF TypeOK
    <3>2. CASE ~(e = d /\ j = i)
      <4>1. owner[e][j] # Unset
        BY <3>2, <2>2 DEF TypeOK
      <4>2. j < nextId[e]
        BY <4>1 DEF IdsDense, Exists
      <4>3. nextId[e] \in Nat /\ nextId'[e] \in {nextId[e], nextId[e] + 1}
        BY <2>1, <2>2 DEF TypeOK
      <4> QED BY <4>2, <4>3 DEF Ids
    <3> QED BY <3>1, <3>2
  <2>5. CurvesCapped'
    BY <1>7 DEF CreateCollection, CurvesCapped, feeVars
  <2> QED BY <2>3, <2>4, <2>5
<1>8. ASSUME NEW d \in Deployments, NEW id \in Ids, NEW a \in Accounts, NEW u \in URIs,
             SetCollectionMetadata(d, id, a, u)
      PROVE IInv'
  BY <1>8 DEF SetCollectionMetadata, TypeOK, IdsDense, CurvesCapped, feeVars, Exists
<1>9. ASSUME NEW d \in Deployments, NEW b \in BOOLEAN, SetPaused(d, b) PROVE IInv'
  BY <1>9 DEF SetPaused, TypeOK, IdsDense, CurvesCapped, feeVars, Exists
<1>10. CASE UNCHANGED vars
  BY <1>10 DEF vars, feeVars, collVars, TypeOK, IdsDense, CurvesCapped, Exists
<1> QED BY <1>1, <1>2, <1>3, <1>4, <1>5, <1>6, <1>7, <1>8, <1>9, <1>10 DEF Next

(* The storage of FeeConfig and Collection always has its types, the basis     *)
(* points within their caps included.                                          *)
THEOREM TypeCorrect == Spec => []TypeOK
<1>1. IInv => TypeOK
  BY DEF IInv
<1> QED BY InitIInv, NextIInv, <1>1, PTL DEF Spec

(* No collection creator and no minter is ever asked for more than             *)
(* MAX_CURVE_FEE_AT_MAX_N, whatever the fee admin sets and at every count.     *)
THEOREM FeesBounded == Spec => []FeesWithinCap
<1>1. IInv => FeesWithinCap
  <2> SUFFICES ASSUME IInv, NEW k \in Curves, NEW n \in 1..MaxN
               PROVE Fee(k, n) <= CurveCap
    BY DEF FeesWithinCap
  <2>1. curve[k].base \in Nat /\ curve[k].slope \in Nat
    BY DEF IInv, TypeOK, Curve
  <2>2. curve[k].base + curve[k].slope * (MaxN - 1) <= CurveCap
    BY DEF IInv, CurvesCapped, WithinCap
  <2> QED BY <2>1, <2>2, CurveBounded, WiringAssumption DEF Fee
<1> QED BY InitIInv, NextIInv, <1>1, PTL DEF Spec

(* A collection's owner never changes, in any deployment.                      *)
THEOREM OwnersAreForGood == Spec => OwnersPermanent
<1>1. IInv /\ [Next]_vars =>
        [\A d \in Deployments, id \in Ids : Exists(d, id) => owner'[d][id] = owner[d][id]]_vars
  <2> SUFFICES ASSUME IInv, Next, NEW d \in Deployments, NEW id \in Ids, Exists(d, id)
               PROVE owner'[d][id] = owner[d][id]
    OBVIOUS
  <2>1. ASSUME NEW e \in Deployments, NEW a \in Accounts, NEW n \in 1..MaxN,
               NEW v \in Values, NEW u \in URIs, CreateCollection(e, a, n, v, u)
        PROVE owner'[d][id] = owner[d][id]
    <3>1. id < nextId[d] /\ nextId[d] \in Nat
      BY DEF IInv, IdsDense, TypeOK
    <3>2. ~(e = d /\ id = nextId[d])
      BY <3>1 DEF Ids
    <3> QED BY <2>1, <3>2 DEF CreateCollection, IInv, TypeOK
  <2>2. CASE UNCHANGED owner
    BY <2>2
  <2> QED BY <2>1, <2>2 DEF Next, DeployCollection, SetCollection, SetCurve,
       SetMarketplaceFeeBps, SetRoyaltyBps, SetFeeRecipient, SetCollectionMetadata,
       SetPaused, collVars
<1> QED BY InitIInv, NextIInv, <1>1, PTL DEF Spec, OwnersPermanent

(* FeeConfig is only ever pointed at a Collection that was deployed.           *)
WiredIsDeployed == collection = Unset \/ collection \in deployed

LEMMA NextWired == WiredIsDeployed /\ [Next]_vars => WiredIsDeployed'
<1> SUFFICES ASSUME WiredIsDeployed, [Next]_vars PROVE WiredIsDeployed'
  OBVIOUS
<1>1. ASSUME NEW d \in Deployments, SetCollection(d) PROVE WiredIsDeployed'
  BY <1>1 DEF SetCollection, WiredIsDeployed, collVars
<1>2. CASE UNCHANGED collection /\ deployed \subseteq deployed'
  BY <1>2 DEF WiredIsDeployed
<1> QED BY <1>1, <1>2 DEF Next, DeployCollection, SetCurve, SetMarketplaceFeeBps,
     SetRoyaltyBps, SetFeeRecipient, CreateCollection, SetCollectionMetadata, SetPaused,
     collVars, feeVars, vars

(* An id that has a royalty has an owner, in some deployed Collection.         *)
THEOREM RoyaltiesHaveOwners == Spec => []RoyaltyHasOwner
<1> DEFINE J == IInv /\ WiredIsDeployed /\ RoyaltyHasOwner
<1>1. Init => J
  <2>1. Init => WiredIsDeployed /\ RoyaltyHasOwner
    BY DEF Init, RoyaltyHasOwner, WiredIsDeployed
  <2> QED BY <2>1, InitIInv
<1>2. J /\ [Next]_vars => J'
  <2> SUFFICES ASSUME J, [Next]_vars PROVE RoyaltyHasOwner'
    BY NextIInv, NextWired
  <2>1. IInv /\ IInv'
    BY NextIInv
  <2> SUFFICES ASSUME NEW id \in Ids, royaltyBps'[id] > 0
               PROVE  \E d \in deployed' : owner'[d][id] # Unset
    BY DEF RoyaltyHasOwner, Exists
  <2>2. ASSUME NEW d \in deployed, owner[d][id] # Unset
        PROVE  d \in deployed' /\ owner'[d][id] # Unset
    <3>0. d \in Deployments
      BY DEF IInv, TypeOK
    <3>1. ASSUME NEW e \in Deployments, NEW a \in Accounts, NEW n \in 1..MaxN,
               NEW v \in Values, NEW u \in URIs, CreateCollection(e, a, n, v, u)
          PROVE d \in deployed' /\ owner'[d][id] # Unset
      BY <3>0, <3>1, <2>2, UnsetAssumption, WiringAssumption DEF CreateCollection, IInv, TypeOK
    <3>2. CASE UNCHANGED owner /\ deployed \subseteq deployed'
      BY <3>2, <2>2
    <3> QED BY <3>1, <3>2 DEF Next, DeployCollection, SetCollection, SetCurve,
       SetMarketplaceFeeBps, SetRoyaltyBps, SetFeeRecipient, SetCollectionMetadata,
       SetPaused, collVars, vars
  <2>3. CASE royaltyBps[id] > 0
    <3>1. PICK d \in deployed : owner[d][id] # Unset
      BY <2>3 DEF RoyaltyHasOwner, Exists
    <3> QED BY <3>1, <2>2
  <2>4. CASE ~(royaltyBps[id] > 0)
    <3>1. royaltyBps' # royaltyBps
      BY <2>4
    <3>2. PICK i \in Ids, bps \in Amounts : SetRoyaltyBps(i, bps)
      BY <3>1 DEF Next, DeployCollection, SetCollection, SetCurve, SetMarketplaceFeeBps,
         SetFeeRecipient, CreateCollection, SetCollectionMetadata, SetPaused, collVars,
         feeVars, vars
    <3>3. i = id
      BY <3>2, <2>4 DEF SetRoyaltyBps, IInv, TypeOK
    <3>4. collection \in deployed /\ owner[collection][id] # Unset
      BY <3>2, <3>3 DEF SetRoyaltyBps, MayHaveRoyalty, Exists, IInv, TypeOK, WiredIsDeployed
    <3> QED BY <3>4, <2>2
  <2> QED BY <2>3, <2>4
<1>3. J => RoyaltyHasOwner
  OBVIOUS
<1> QED BY <1>1, <1>2, <1>3, PTL DEF Spec

(* With one Collection ever deployed the owner is one the Marketplace can pay. *)
(* With a second one it need not be: the id may exist in the other only.       *)
COROLLARY SingleDeployment ==
  ASSUME Deployments = {First}
  PROVE  Spec => [](\A id \in Ids : royaltyBps[id] > 0 => Exists(First, id))
<1>1. TypeOK /\ RoyaltyHasOwner => \A id \in Ids : royaltyBps[id] > 0 => Exists(First, id)
  BY DEF TypeOK, RoyaltyHasOwner
<1> QED BY <1>1, TypeCorrect, RoyaltiesHaveOwners, PTL

----------------------------------------------------------------------------
(* A composition and its segment, against the representations R.               *)
Holds(c, seg, R) ==
  /\ Len(c) \in 1..MaxComponents /\ \A i, j \in DOMAIN c : i # j => c[i].asset # c[j].asset
  /\ WeightSum(c) = BpsTotal
  /\ \A i \in DOMAIN c : c[i].weight > 0 /\ c[i].rep \in DOMAIN R /\ R[c[i].rep].asset = c[i].asset
  /\ SegmentFits(seg, {c[i].asset[1] : i \in DOMAIN c})

Owners == Parties \cup {NoOwner}
Segments721 == {"CRYPTO_ONLY", "STOCK_ONLY", "MIXED"}

(* The tokens there are, against the representations R.                        *)
TokensOK(comp, seg, own, R) ==
  /\ comp \in Seq(Candidates) /\ seg \in Seq(Segments721) /\ own \in Seq(Owners)
  /\ Len(seg) = Len(comp) /\ Len(own) = Len(comp)
  /\ \A t \in 1..Len(comp) : Holds(comp[t], seg[t], R)
AllOwned(own) == \A t \in 1..Len(own) : own[t] # NoOwner

LedgerEntries(a, p, R) ==
  /\ DOMAIN a \subseteq Assets /\ a \in [DOMAIN a -> Statuses]
  /\ DOMAIN p \subseteq Providers /\ p \in [DOMAIN p -> Provider]
  /\ DOMAIN R \subseteq RepIds /\ R \in [DOMAIN R -> Representation]

FeesOK(fees, to) == fees \in MintCurves /\ to \in Parties

(* What a refusal restores.                                                    *)
SavedOK ==
  /\ LedgerEntries(saved.reg[1], saved.reg[2], saved.reg[3])
  /\ TokensOK(saved.tok[1], saved.tok[2], saved.tok[3], saved.reg[3])
  /\ saved.tok[4] = 0 /\ AllOwned(saved.tok[3])
  /\ FeesOK(saved.fee[1], saved.fee[2])
  /\ Len(composition) > 0 /\ saved.tok[1] = SubSeq(composition, 1, Len(composition) - 1)

CallType == [at : {"fee", "received"}, callee : Parties, minter : Parties, required : Nat]

BetweenOK == call = NoCall => balance = 0 /\ AllOwned(ownerOf)
FeeOK == call.at = "fee" => /\ balance = call.required
                            /\ \A t \in 1..Len(ownerOf) : ownerOf[t] = NoOwner => t = Len(ownerOf)
ReceivedOK == call.at = "received" => balance = 0 /\ AllOwned(ownerOf)
CallOK == /\ call = NoCall \/ call \in CallType
          /\ call # NoCall => SavedOK
          /\ BetweenOK /\ FeeOK /\ ReceivedOK

MintIInv == /\ EntriesOK /\ TokensOK(composition, segment, ownerOf, reps)
            /\ FeesOK(mintCurve, mintRecipient) /\ CallOK

LEMMA EntriesAre == EntriesOK <=> LedgerEntries(assets, providers, reps)
  BY DEF EntriesOK, LedgerEntries

(* Calls are told from no call by where they are.                              *)
LEMMA CallsAt ==
  /\ NoCall.at = "none"
  /\ \A c \in CallType : c.at # "none" /\ c # NoCall
  BY DEF NoCall, CallType

----------------------------------------------------------------------------
LEMMA SegmentsFit ==
  ASSUME NEW c, NEW k, k \in DOMAIN c
  PROVE  /\ SegmentOf(c) \in Segments721
         /\ SegmentFits(SegmentOf(c), {c[i].asset[1] : i \in DOMAIN c})
  <1> DEFINE crypto(i) == c[i].asset[1] = "CRYPTO"
             classes == {c[i].asset[1] : i \in DOMAIN c}
             any == \E i \in DOMAIN c : crypto(i)
             stock == \E i \in DOMAIN c : ~crypto(i)
  <1>1. SegmentOf(c) = IF any /\ stock THEN "MIXED" ELSE IF any THEN "CRYPTO_ONLY" ELSE "STOCK_ONLY"
    BY DEF SegmentOf, DeriveSegment
  <1>2. ("CRYPTO" \in classes <=> any) /\ (classes = {"CRYPTO"} <=> any /\ ~stock)
    OBVIOUS
  <1> HIDE DEF any, stock, classes
  <1>3. SegmentOf(c) \in Segments721 /\ SegmentFits(SegmentOf(c), classes)
    BY <1>1, <1>2 DEF SegmentFits, Segments721
  <1> QED BY <1>3 DEF classes

(* What mint accepts obeys the rules, and says so by its segment.              *)
LEMMA AcceptedHolds ==
  ASSUME NEW c \in Candidates, MintAccepts(c, Lookup)
  PROVE  Holds(c, SegmentOf(c), reps) /\ SegmentOf(c) \in Segments721
  <1>1. PICK n \in 0..MaxComponents : c \in [1..n -> Component]
    BY DEF Candidates
  <1>2. c \in Seq(Component) /\ Len(c) = n /\ DOMAIN c = 1..n /\ n \in Nat
    BY <1>1, RulesAssumption
  <1>3. n \in 1..MaxComponents /\ WeightSum(c) = BpsTotal
        /\ \A i, j \in DOMAIN c : i # j => c[i].asset # c[j].asset
    BY <1>2 DEF MintAccepts, DistinctAssets
  <1>5. \A i \in DOMAIN c : c[i].weight > 0 /\ c[i].rep \in DOMAIN reps /\ reps[c[i].rep].asset = c[i].asset
    BY DEF MintAccepts, Resolves, Lookup
  <1>6. 1 \in DOMAIN c
    BY <1>2, <1>3
  <1>7. SegmentOf(c) \in Segments721 /\ SegmentFits(SegmentOf(c), {c[i].asset[1] : i \in DOMAIN c})
    BY <1>6, SegmentsFit
  <1> QED BY <1>2, <1>3, <1>5, <1>7 DEF Holds

(* What is pinned stays right.                                                 *)
LEMMA HoldsStays ==
  ASSUME Pins, NEW c, NEW seg, Holds(c, seg, reps) PROVE Holds(c, seg, reps')
  BY DEF Pins, Holds

LEMMA TokensStay ==
  ASSUME Pins, NEW comp, NEW seg, NEW own, TokensOK(comp, seg, own, reps)
  PROVE  TokensOK(comp, seg, own, reps')
  BY HoldsStays DEF TokensOK

----------------------------------------------------------------------------
(* The first sync leaves registries that are well formed and no token.         *)
LEMMA MintInitHolds == MintInit => MintIInv
  <1> SUFFICES ASSUME MintInit PROVE MintIInv
    OBVIOUS
  <1>1. /\ DOMAIN assets \subseteq Assets /\ assets \in [DOMAIN assets -> Statuses]
        /\ DOMAIN providers \subseteq Providers /\ providers \in [DOMAIN providers -> Provider]
    BY MintAssumption DEF MintInit, SeededInit, Statuses, Provider, Callers
  <1>2. PICK o \in Oracles, m \in Multipliers \ {0} :
          reps = [id \in DOMAIN Deployed |->
                   [asset |-> Deployed[id], oracle |-> o, multiplier |-> m, status |-> "ACTIVE"]]
    BY DEF MintInit, SeededInit
  <1>3. DOMAIN reps \subseteq RepIds /\ reps \in [DOMAIN reps -> Representation]
    BY <1>2, MintAssumption DEF Representation, Statuses
  <1>4. TokensOK(composition, segment, ownerOf, reps)
    BY DEF MintInit, TokensOK
  <1>5. CallOK /\ FeesOK(mintCurve, mintRecipient)
    BY CallsAt DEF MintInit, CallOK, BetweenOK, FeeOK, ReceivedOK, AllOwned, FeesOK
  <1> QED BY <1>1, <1>3, <1>4, <1>5 DEF MintIInv, EntriesOK

(* What is saved does not depend on the registries as they are now.            *)
LEMMA SavedStays ==
  ASSUME SavedOK, UNCHANGED <<saved, composition>> PROVE SavedOK'
  BY DEF SavedOK

LEMMA MintStep ==
  ASSUME MintIInv, NEW sender \in Parties, NEW c \in Candidates, NEW value \in Payments,
         Mint(sender, c, value)
  PROVE  MintIInv'
  <1>1. /\ call = NoCall /\ value = MintFee(Len(c)) /\ MintAccepts(c, Lookup)
        /\ composition' = Append(composition, c) /\ segment' = Append(segment, SegmentOf(c))
        /\ ownerOf' = Append(ownerOf, NoOwner) /\ balance' = balance + value
        /\ call' = Calling("fee", mintRecipient, sender, MintFee(Len(c)))
        /\ saved' = Snapshot /\ UNCHANGED <<assets, providers, reps, mintCurve, mintRecipient>>
    BY DEF Mint, Unlocked, FeeMet, Recorded, registryVars, mintFeeVars
  <1>2. Holds(c, SegmentOf(c), reps) /\ SegmentOf(c) \in Segments721
    BY <1>1, AcceptedHolds
  <1>3. /\ composition \in Seq(Candidates) /\ segment \in Seq(Segments721) /\ ownerOf \in Seq(Owners)
        /\ Len(segment) = Len(composition) /\ Len(ownerOf) = Len(composition)
        /\ \A t \in 1..Len(composition) : Holds(composition[t], segment[t], reps)
    BY DEF MintIInv, TokensOK
  <1>4. NoOwner \in Owners
    BY DEF Owners
  <1>5. TokensOK(composition', segment', ownerOf', reps')
    <2>1. /\ composition' \in Seq(Candidates) /\ segment' \in Seq(Segments721) /\ ownerOf' \in Seq(Owners)
          /\ Len(composition') = Len(composition) + 1
          /\ Len(segment') = Len(composition') /\ Len(ownerOf') = Len(composition')
      BY <1>1, <1>2, <1>3, <1>4
    <2>2. ASSUME NEW t \in 1..Len(composition') PROVE Holds(composition'[t], segment'[t], reps)
      <3>1. CASE t \in 1..Len(composition)
        <4>1. composition'[t] = composition[t] /\ segment'[t] = segment[t]
          BY <1>1, <1>3, <3>1
        <4> QED BY <1>3, <3>1, <4>1
      <3>2. CASE t = Len(composition) + 1
        <4>1. composition'[t] = c /\ segment'[t] = SegmentOf(c)
          BY <1>1, <1>3, <3>2
        <4> QED BY <1>2, <4>1
      <3> QED BY <1>3, <2>1, <3>1, <3>2
    <2> QED BY <1>1, <2>1, <2>2 DEF TokensOK
  <1>6. balance = 0 /\ AllOwned(ownerOf) /\ FeesOK(mintCurve, mintRecipient)
    BY <1>1 DEF MintIInv, CallOK, BetweenOK
  <1>7. Len(composition') > 0 /\ composition = SubSeq(composition', 1, Len(composition') - 1)
    BY <1>1, <1>3
  <1>8. SavedOK'
    <2>1. /\ saved'.reg = <<assets, providers, reps, repsByAsset, repsByProvider>>
          /\ saved'.tok = <<composition, segment, ownerOf, balance>>
          /\ saved'.fee = <<mintCurve, mintRecipient, mintPaused>>
      BY <1>1 DEF Snapshot, registryVars, tokenVars, mintFeeVars
    <2>2. LedgerEntries(saved'.reg[1], saved'.reg[2], saved'.reg[3])
      BY <2>1, EntriesAre DEF MintIInv
    <2>3. TokensOK(saved'.tok[1], saved'.tok[2], saved'.tok[3], saved'.reg[3])
      BY <2>1 DEF MintIInv
    <2> QED BY <1>6, <1>7, <2>1, <2>2, <2>3 DEF SavedOK
  <1>9. MintFee(Len(c)) \in Nat
    <2>1. Len(c) \in Nat /\ Len(c) >= 1
      BY <1>2, RulesAssumption DEF Holds
    <2>2. mintCurve.base \in Nat /\ mintCurve.slope \in Nat
      BY <1>6, MintAssumption DEF FeesOK
    <2> QED BY <2>1, <2>2 DEF MintFee
  <1>10. call' \in CallType /\ call'.at = "fee" /\ call'.required = MintFee(Len(c)) /\ call' # NoCall
    <2>1. call' \in CallType /\ call'.at = "fee" /\ call'.required = MintFee(Len(c))
      BY <1>1, <1>6, <1>9 DEF Calling, CallType, FeesOK
    <2> QED BY <2>1, CallsAt
  <1>11. FeeOK'
    BY <1>1, <1>3, <1>6, <1>9, <1>10 DEF FeeOK, AllOwned
  <1>12. CallOK'
    BY <1>8, <1>10, <1>11 DEF CallOK, BetweenOK, ReceivedOK
  <1>13. EntriesOK'
    BY <1>1 DEF MintIInv, EntriesOK
  <1> QED BY <1>1, <1>5, <1>6, <1>12, <1>13 DEF MintIInv, FeesOK

(* The last token gets its owner.                                              *)
LEMMA Replaced ==
  ASSUME NEW S, NEW q \in Seq(S), NEW k, NEW x \in S
  PROVE  /\ [q EXCEPT ![k] = x] \in Seq(S) /\ Len([q EXCEPT ![k] = x]) = Len(q)
         /\ \A i \in 1..Len(q) : [q EXCEPT ![k] = x][i] = IF i = k THEN x ELSE q[i]
  <1>1. q \in [1..Len(q) -> S] /\ Len(q) \in Nat
    OBVIOUS
  <1> DEFINE r == [q EXCEPT ![k] = x]
  <1>2. r \in [1..Len(q) -> S] /\ \A i \in 1..Len(q) : r[i] = IF i = k THEN x ELSE q[i]
    BY <1>1
  <1> HIDE DEF r
  <1>3. r \in Seq(S) /\ Len(r) = Len(q)
    BY <1>1, <1>2
  <1> QED BY <1>2, <1>3 DEF r

LEMMA FeeForwardedStep == ASSUME MintIInv, FeeForwarded PROVE MintIInv'
  <1>1. /\ call.at = "fee" /\ balance' = balance - call.required
        /\ ownerOf' = [ownerOf EXCEPT ![Len(ownerOf)] = call.minter]
        /\ call' = Calling("received", call.minter, call.minter, call.required)
        /\ UNCHANGED <<assets, providers, reps, composition, segment, mintCurve, mintRecipient, saved>>
    BY DEF FeeForwarded, registryVars, mintFeeVars
  <1>2. call # NoCall /\ call \in CallType /\ SavedOK
    BY <1>1, CallsAt DEF MintIInv, CallOK
  <1>3. /\ call.minter \in Parties /\ call.required \in Nat /\ call.minter # NoOwner /\ call.minter \in Owners
    BY <1>2, MintAssumption DEF CallType, Owners
  <1>4. balance = call.required /\ \A t \in 1..Len(ownerOf) : ownerOf[t] = NoOwner => t = Len(ownerOf)
    BY <1>1 DEF MintIInv, CallOK, FeeOK
  <1>5. ownerOf \in Seq(Owners)
    BY DEF MintIInv, TokensOK
  <1>6. /\ ownerOf' \in Seq(Owners) /\ Len(ownerOf') = Len(ownerOf)
        /\ \A i \in 1..Len(ownerOf) : ownerOf'[i] = IF i = Len(ownerOf) THEN call.minter ELSE ownerOf[i]
    BY <1>1, <1>3, <1>5, Replaced
  <1>7. AllOwned(ownerOf)'
    BY <1>3, <1>4, <1>6 DEF AllOwned
  <1>8. balance' = 0
    BY <1>1, <1>3, <1>4
  <1>9. call' \in CallType /\ call'.at = "received" /\ call' # NoCall
    <2>1. call' \in CallType /\ call'.at = "received"
      BY <1>1, <1>3 DEF Calling, CallType
    <2> QED BY <2>1, CallsAt
  <1>10. CallOK'
    BY <1>1, <1>2, <1>7, <1>8, <1>9, SavedStays DEF CallOK, BetweenOK, FeeOK, ReceivedOK
  <1>11. TokensOK(composition, segment, ownerOf, reps)'
    BY <1>1, <1>6 DEF MintIInv, TokensOK
  <1> QED BY <1>1, <1>10, <1>11 DEF MintIInv, EntriesOK, FeesOK

LEMMA ReceivedStep == ASSUME MintIInv, Received PROVE MintIInv'
  <1>1. /\ call.at = "received" /\ call' = NoCall
        /\ UNCHANGED <<assets, providers, reps, composition, segment, ownerOf, balance, mintCurve, mintRecipient>>
    BY DEF Received, registryVars, mintFeeVars, tokenVars
  <1>2. balance = 0 /\ AllOwned(ownerOf)
    BY <1>1 DEF MintIInv, CallOK, ReceivedOK
  <1>3. CallOK'
    BY <1>1, <1>2, CallsAt DEF CallOK, BetweenOK, FeeOK, ReceivedOK
  <1> QED BY <1>1, <1>3 DEF MintIInv, EntriesOK, FeesOK

(* A refusal brings back what was between transactions.                        *)
LEMMA RefuseStep == ASSUME MintIInv, Refuse PROVE MintIInv'
  <1>1. /\ call # NoCall /\ call' = NoCall
        /\ assets' = saved.reg[1] /\ providers' = saved.reg[2] /\ reps' = saved.reg[3]
        /\ composition' = saved.tok[1] /\ segment' = saved.tok[2]
        /\ ownerOf' = saved.tok[3] /\ balance' = saved.tok[4]
        /\ mintCurve' = saved.fee[1] /\ mintRecipient' = saved.fee[2]
    BY DEF Refuse
  <1>2. SavedOK
    BY <1>1 DEF MintIInv, CallOK
  <1>3. LedgerEntries(assets', providers', reps') /\ TokensOK(composition', segment', ownerOf', reps')
        /\ balance' = 0 /\ AllOwned(ownerOf') /\ FeesOK(mintCurve', mintRecipient')
    BY <1>1, <1>2 DEF SavedOK
  <1>4. CallOK'
    BY <1>1, <1>3, CallsAt DEF CallOK, BetweenOK, FeeOK, ReceivedOK
  <1>5. EntriesOK'
    BY <1>3 DEF EntriesOK, LedgerEntries
  <1> QED BY <1>3, <1>4, <1>5 DEF MintIInv

(* A transfer is between owners.                                               *)
LEMMA TransferStep ==
  ASSUME MintIInv, NEW from \in Parties, NEW to \in Parties, NEW t \in Tokens721, Transfer(from, t, to)
  PROVE  MintIInv'
  <1>1. /\ ownerOf[t] = from /\ ownerOf' = [ownerOf EXCEPT ![t] = to]
        /\ UNCHANGED <<assets, providers, reps, composition, segment, balance, mintCurve, mintRecipient, call, saved>>
    BY DEF Transfer, registryVars, mintFeeVars
  <1>2. ownerOf \in Seq(Owners) /\ to \in Owners /\ to # NoOwner
    BY MintAssumption DEF MintIInv, TokensOK, Owners
  <1>3. /\ ownerOf' \in Seq(Owners) /\ Len(ownerOf') = Len(ownerOf)
        /\ \A i \in 1..Len(ownerOf) : ownerOf'[i] = IF i = t THEN to ELSE ownerOf[i]
    BY <1>1, <1>2, Replaced
  <1>4. \A i \in 1..Len(ownerOf) : ownerOf'[i] = NoOwner => ownerOf[i] = NoOwner
    BY <1>2, <1>3
  <1>5. TokensOK(composition, segment, ownerOf, reps)'
    BY <1>1, <1>3 DEF MintIInv, TokensOK
  <1>6. BetweenOK' /\ FeeOK' /\ ReceivedOK'
    BY <1>1, <1>3, <1>4 DEF MintIInv, CallOK, BetweenOK, FeeOK, ReceivedOK, AllOwned
  <1>7. CallOK'
    BY <1>1, <1>6, SavedStays DEF MintIInv, CallOK
  <1> QED BY <1>1, <1>5, <1>7 DEF MintIInv, EntriesOK, FeesOK

(* Steps that leave the tokens alone: of the fee settings, of the registries.  *)
LEMMA OthersStep ==
  ASSUME MintIInv, EntriesOK', Pins, FeesOK(mintCurve, mintRecipient)',
         UNCHANGED <<composition, segment, ownerOf, balance, call, saved>>
  PROVE  MintIInv'
  <1>1. TokensOK(composition, segment, ownerOf, reps')
    BY TokensStay DEF MintIInv
  <1>2. BetweenOK' /\ FeeOK' /\ ReceivedOK'
    BY DEF MintIInv, CallOK, BetweenOK, FeeOK, ReceivedOK
  <1>3. CallOK'
    BY <1>2, SavedStays DEF MintIInv, CallOK
  <1> QED BY <1>1, <1>3 DEF MintIInv

LEMMA SettingsStep ==
  ASSUME MintIInv, UNCHANGED <<registryVars, tokenVars, call, saved>>, FeesOK(mintCurve, mintRecipient)'
  PROVE  MintIInv'
  <1>1. EntriesOK' /\ Pins /\ UNCHANGED <<composition, segment, ownerOf, balance, call, saved>>
    BY DEF MintIInv, EntriesOK, registryVars, tokenVars, Pins
  <1> QED BY <1>1, OthersStep

LEMMA RegistryChangeStep == ASSUME MintIInv, NEW a \in Parties, RegistryChange(a) PROVE MintIInv'
  <1>1. EntriesOK
    BY DEF MintIInv
  <1>2. CASE \E id \in RepIds, s \in Statuses : SetRepresentationStatus(RegistryAdmin, id, s)
    <2>1. EntriesOK' /\ Pins
      BY <1>1, <1>2, StatusStep
    <2> QED BY <2>1, OthersStep DEF RegistryChange, mintVars, tokenVars, mintFeeVars, MintIInv, FeesOK
  <1>3. CASE SyncStep
    <2>1. EntriesOK' /\ Pins
      BY <1>1, <1>3, SyncKeeps
    <2> QED BY <2>1, OthersStep DEF RegistryChange, mintVars, tokenVars, mintFeeVars, MintIInv, FeesOK
  <1> QED BY <1>2, <1>3 DEF RegistryChange

LEMMA MintStepHolds == MintIInv /\ [MintNext]_allVars => MintIInv'
  <1> SUFFICES ASSUME MintIInv, [MintNext]_allVars PROVE MintIInv'
    OBVIOUS
  <1>1. CASE \E a \in Parties, c \in Candidates, v \in Payments : Mint(a, c, v)
    BY <1>1, MintStep
  <1>2. CASE FeeForwarded \/ Received \/ Refuse
    BY <1>2, FeeForwardedStep, ReceivedStep, RefuseStep
  <1>3. CASE \E a, b \in Parties, t \in Tokens721 : Transfer(a, t, b)
    BY <1>3, TransferStep
  <1>4. CASE \E a \in Parties, c \in MintCurves : SetMintFee(a, c)
    BY <1>4, SettingsStep DEF SetMintFee, FeesOK, MintIInv
  <1>5. CASE \E a, b \in Parties : SetRecipient(a, b)
    BY <1>5, SettingsStep DEF SetRecipient, FeesOK, MintIInv
  <1>6. CASE \E a \in Parties, b \in BOOLEAN : SetMintPaused(a, b)
    BY <1>6, SettingsStep DEF SetMintPaused, FeesOK, MintIInv
  <1>7. CASE \E a \in Parties : RegistryChange(a)
    BY <1>7, RegistryChangeStep
  <1>8. CASE UNCHANGED allVars
    BY <1>8, SettingsStep DEF allVars, mintVars, mintFeeVars, FeesOK, MintIInv
  <1> QED BY <1>1, <1>2, <1>3, <1>4, <1>5, <1>6, <1>7, <1>8 DEF MintNext

LEMMA MintSafe == MintSpec => []MintIInv
  BY MintInitHolds, MintStepHolds, PTL DEF MintSpec

----------------------------------------------------------------------------
LEMMA PartsOfTokens ==
  ASSUME MintIInv
  PROVE  Len(composition) \in Nat /\ Len(segment) = Len(composition) /\ Len(ownerOf) = Len(composition)
  BY DEF MintIInv, TokensOK

(* Every token's composition obeys the rules as long as the token exists, with *)
(* the registry as it is by then, and its segment tells what it is of          *)
(* (NFFC.mint, CompositionSegmentLib, RepresentationRegistry).                 *)
THEOREM RulesForGood == MintSpec => []CompositionsHold
  <1>1. MintIInv => CompositionsHold
    BY DEF MintIInv, TokensOK, Holds, CompositionsHold, RulesHold, ResolvesTo, RepresentationExists, Tokens721
  <1> QED BY <1>1, MintSafe, PTL

(* Whoever refuses, and whatever they do before, no mint is left half done and *)
(* the contract keeps no ether (NFFC.mint).                                    *)
THEOREM WholeMints == MintSpec => []NoHalfMint
  <1>1. MintIInv => NoHalfMint
    BY PartsOfTokens DEF MintIInv, CallOK, BetweenOK, NoHalfMint, AllOwned, Tokens721
  <1> QED BY <1>1, MintSafe, PTL

(* A token that has an owner has had its fee forwarded (NFFC.mint).            *)
THEOREM OwnedTokensPaid == MintSpec => []OwnedMeansPaid
  <1>1. ASSUME MintIInv PROVE OwnedMeansPaid
    <2>1. Len(composition) \in Nat /\ Len(ownerOf) = Len(composition)
      BY <1>1, PartsOfTokens
    <2>2. call = NoCall \/ call.at \in {"fee", "received"}
      BY <1>1 DEF MintIInv, CallOK, CallType
    <2>3. CASE call = NoCall \/ call.at = "received"
      BY <1>1, <2>1, <2>3 DEF MintIInv, CallOK, BetweenOK, ReceivedOK, AllOwned, OwnedMeansPaid, Tokens721
    <2>4. CASE call.at = "fee"
      BY <1>1, <2>1, <2>4 DEF MintIInv, CallOK, FeeOK, OwnedMeansPaid, Tokens721
    <2> QED BY <2>2, <2>3, <2>4
  <1> QED BY <1>1, MintSafe, PTL

----------------------------------------------------------------------------
(* Until its receiver has answered, a mint has given the ledger nothing.       *)
LEMMA LedgerStands ==
  ASSUME MintIInv, UNCHANGED composition, (call = NoCall) <=> (call' = NoCall)
  PROVE  UNCHANGED Committed
  BY DEF Committed

(* The steps that mint nothing.                                                *)
Elsewhere ==
  \/ \E a, b \in Parties, t \in Tokens721 : Transfer(a, t, b)
  \/ \E a \in Parties, c \in MintCurves : SetMintFee(a, c)
  \/ \E a, b \in Parties : SetRecipient(a, b)
  \/ \E a \in Parties, b \in BOOLEAN : SetMintPaused(a, b)
  \/ \E a \in Parties : RegistryChange(a)
  \/ UNCHANGED allVars

LEMMA LedgerStep ==
  ASSUME MintIInv, [MintNext]_allVars
  PROVE  [Ledger!Record]_Committed
  <1>1. composition \in Seq(Candidates) /\ Len(composition) \in Nat
    BY DEF MintIInv, TokensOK
  <1>2. CASE \E a \in Parties, c \in Candidates, v \in Payments : Mint(a, c, v)
    <2>1. PICK c \in Candidates, a \in Parties, v \in Payments : Mint(a, c, v)
      BY <1>2
    <2>2. /\ call = NoCall /\ composition' = Append(composition, c)
          /\ call'.at = "fee"
      BY <2>1 DEF Mint, Unlocked, Recorded, Calling
    <2>3. call' # NoCall
      BY <2>2, CallsAt
    <2>4. Len(composition') = Len(composition) + 1 /\ SubSeq(composition', 1, Len(composition)) = composition
      BY <1>1, <2>2
    <2>5. Committed' = composition /\ Committed = composition
      BY <1>1, <2>2, <2>3, <2>4 DEF Committed
    <2> QED BY <2>5
  <1>3. CASE FeeForwarded
    <2>1. call.at = "fee" /\ call'.at = "received" /\ UNCHANGED composition
      BY <1>3 DEF FeeForwarded, Calling
    <2> QED BY <2>1, LedgerStands, CallsAt
  <1>4. CASE Received
    <2>1. call.at = "received" /\ call' = NoCall /\ UNCHANGED composition
      BY <1>4 DEF Received, tokenVars
    <2>2. call # NoCall /\ Len(composition) > 0
      BY <2>1, CallsAt DEF MintIInv, CallOK, SavedOK
    <2> DEFINE short == SubSeq(composition, 1, Len(composition) - 1)
    <2>3. Committed = short /\ Committed' = composition
      BY <2>1, <2>2 DEF Committed
    <2>4. Len(short) = Len(composition) - 1 /\ composition[Len(composition)] \in Candidates
      <3>1. \A i \in 1..Len(composition) : composition[i] \in Candidates
        BY <1>1
      <3>2. \A i \in 1..(Len(composition) - 1) : composition[i] \in Candidates
        BY <1>1, <3>1
      <3>3. Len(short) = IF 1 <= Len(composition) - 1 THEN Len(composition) - 1 - 1 + 1 ELSE 0
        BY <1>1, <3>2, SubSeqProperties
      <3>4. \A n \in Nat : \A m :
              n > 0 /\ m = (IF 1 <= n - 1 THEN n - 1 - 1 + 1 ELSE 0) => m = n - 1
        OBVIOUS
      <3>5. Len(short) = Len(composition) - 1
        BY <1>1, <2>2, <3>3, <3>4, Zenon
      <3> QED BY <1>1, <2>2, <3>1, <3>5
    <2> HIDE DEF short
    <2>5. Len(composition) = Len(short) + 1 /\ SubSeq(composition, 1, Len(short)) = short
      BY <1>1, <2>4 DEF short
    <2>6. Ledger!Record
      BY <2>3, <2>4, <2>5 DEF Ledger!Record
    <2> QED BY <2>6
  <1>5. CASE Refuse
    <2>1. call # NoCall /\ call' = NoCall /\ composition' = saved.tok[1]
      BY <1>5 DEF Refuse
    <2>2. saved.tok[1] = SubSeq(composition, 1, Len(composition) - 1)
      BY <2>1 DEF MintIInv, CallOK, SavedOK
    <2> QED BY <2>1, <2>2 DEF Committed
  <1>6. ASSUME Elsewhere PROVE [Ledger!Record]_Committed
    <2>1. UNCHANGED <<composition, call>>
      BY <1>6 DEF Elsewhere, Transfer, SetMintFee, SetRecipient, SetMintPaused, RegistryChange, tokenVars,
                  mintVars, allVars
    <2> QED BY <2>1, LedgerStands
  <1>7. \/ \E a \in Parties, c \in Candidates, v \in Payments : Mint(a, c, v)
        \/ FeeForwarded \/ Received \/ Refuse \/ Elsewhere
    BY DEF MintNext, Elsewhere
  <1> QED BY <1>2, <1>3, <1>4, <1>5, <1>6, <1>7

(* Seen between transactions, NFFC gives each next token its composition and   *)
(* never touches one again: it implements the ledger (NFFC.sol, I7).           *)
THEOREM LedgerRefinement == MintSpec => ImplementsLedger
  <1>1. MintInit => Ledger!Init
    BY DEF MintInit, Ledger!Init, Committed
  <1>2. MintIInv /\ [MintNext]_allVars => [Ledger!Record]_Committed
    BY LedgerStep
  <1> QED BY <1>1, <1>2, MintSafe, PTL DEF MintSpec, ImplementsLedger, Ledger!Spec
=============================================================================
