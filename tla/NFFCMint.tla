------------------------------ MODULE NFFCMint ------------------------------
(* NFFC.sol over the registries and the fee curve it reads. A mint is one      *)
(* transaction with two calls out of it, the fee to the recipient and          *)
(* onERC721Received to a contract minter; between them the callee may do       *)
(* whatever its roles allow, and a refusal undoes everything since the mint    *)
(* began. The lock keeps mint itself out; nothing else is locked.              *)
EXTENDS Registries, CompositionRules

CONSTANTS Parties, Contracts, \* Contracts: the accounts with code
          Powerful,            \* accounts that hold the admin and sync keys
          MaxTokens,           \* bound: tokens ever minted
          MintCurves, Payments,      \* bounds: fee curves an admin sets, ether a minter sends
          MintWeights,         \* bound: weights submitted
          MintReps,            \* bound: representations submitted
          Deployed             \* representation id -> asset, after the first sync

NoOwner == "nobody"

ASSUME MintAssumption ==
  /\ Contracts \subseteq Parties /\ Powerful \subseteq Parties
  /\ MaxTokens \in Nat /\ MintCurves \subseteq [base : Nat, slope : Nat]
  /\ Payments \subseteq Nat
  /\ DOMAIN Deployed \subseteq RepIds /\ Deployed \in [DOMAIN Deployed -> Assets]
  /\ MintReps \subseteq RepIds /\ MintWeights \subseteq Nat /\ NoOwner \notin Parties

Component == [asset : Assets, rep : MintReps, weight : MintWeights]
NoCall == [at |-> "none"]
Calling(at, callee, minter, required) ==
  [at |-> at, callee |-> callee, minter |-> minter, required |-> required]
NoSnapshot == [reg |-> <<>>]

VARIABLES composition, segment, ownerOf,  \* by token id; ownerOf is 0 before _safeMint
          mintCurve, mintRecipient, mintPaused,
          balance,                        \* NFFC's own ether
          call, saved                     \* the call in progress and what its revert restores
tokenVars == <<composition, segment, ownerOf, balance>>
mintFeeVars == <<mintCurve, mintRecipient, mintPaused>>
mintVars == <<tokenVars, mintFeeVars, call, saved>>
allVars == <<registryVars, mintVars>>

Tokens721 == 1..Len(composition)           \* ids below _nextTokenId
MintFee(n) == mintCurve.base + mintCurve.slope * (n - 1)
Lookup == [active |-> {id \in DOMAIN reps : IsActiveRepresentation(id)},
           assetOf |-> [id \in DOMAIN reps |-> reps[id].asset]]
SegmentOf(comps) == DeriveSegment([i \in DOMAIN comps |-> comps[i].asset[1] = "CRYPTO"])

MintInit ==
  /\ SeededInit(Deployed)
  /\ composition = <<>> /\ segment = <<>> /\ ownerOf = <<>> /\ balance = 0
  /\ mintCurve \in MintCurves /\ mintRecipient \in Parties
  /\ mintPaused = FALSE
  /\ call = NoCall /\ saved = NoSnapshot

Snapshot == [reg |-> registryVars, tok |-> tokenVars, fee |-> mintFeeVars]

----------------------------------------------------------------------------
(* mint: checks, then every write, then the fee call, then _safeMint.          *)
\* Mutant of FeeMet: at least the fee, the surplus staying in the contract.
FeeMetOrMore(value, required) == value >= required
FeeMet(value, required) == value = required

\* Mutant of Unlocked: the nonReentrant modifier is missing.
NeverLocked == call.at \in {"none", "fee", "received"}
Unlocked == call = NoCall

\* Mutant of Recorded: the token counter is not advanced.
RecordedOver(comps) ==
  IF composition = <<>> THEN <<comps>> ELSE [composition EXCEPT ![Len(composition)] = comps]
Recorded(comps) == Append(composition, comps)

Mint(sender, comps, value) ==
  /\ Unlocked /\ ~mintPaused
  /\ Len(composition) < MaxTokens
  /\ comps # <<>> /\ FeeMet(value, MintFee(Len(comps)))
  /\ MintAccepts(comps, Lookup)
  /\ composition' = Recorded(comps)
  /\ segment' = Append(segment, SegmentOf(comps))
  /\ ownerOf' = Append(ownerOf, NoOwner)
  /\ balance' = balance + value
  /\ call' = Calling("fee", mintRecipient, sender, MintFee(Len(comps)))
  /\ saved' = Snapshot
  /\ UNCHANGED <<registryVars, mintFeeVars>>

(* The recipient accepted (or the fee is zero and nobody is called).           *)
FeeForwarded ==
  /\ call.at = "fee"
  /\ balance' = balance - call.required
  /\ ownerOf' = [ownerOf EXCEPT ![Len(ownerOf)] = call.minter]
  /\ call' = Calling("received", call.minter, call.minter, call.required)
  /\ UNCHANGED <<registryVars, composition, segment, mintFeeVars, saved>>

Received ==
  /\ call.at = "received"
  /\ call' = NoCall /\ saved' = NoSnapshot
  /\ UNCHANGED <<registryVars, tokenVars, mintFeeVars>>

(* The recipient or the receiver refuses: the transaction never happened.      *)
Refuse ==
  /\ call # NoCall
  /\ call.at = "received" => call.minter \in Contracts
  /\ assets' = saved.reg[1] /\ providers' = saved.reg[2] /\ reps' = saved.reg[3]
  /\ repsByAsset' = saved.reg[4] /\ repsByProvider' = saved.reg[5]
  /\ composition' = saved.tok[1] /\ segment' = saved.tok[2]
  /\ ownerOf' = saved.tok[3] /\ balance' = saved.tok[4]
  /\ mintCurve' = saved.fee[1] /\ mintRecipient' = saved.fee[2] /\ mintPaused' = saved.fee[3]
  /\ call' = NoCall /\ saved' = NoSnapshot

(* Who can act: anyone between transactions; during a call out, the callee,    *)
(* if it is a contract. A zero fee calls nobody. Of the registries' changes    *)
(* the ones mint reads are interleaved here; Registries has them all.          *)
MayAct(a) ==
  \/ Unlocked
  \/ call # NoCall /\ a = call.callee /\ a \in Contracts /\ (call.at = "fee" => call.required > 0)

Transfer(from, t, to) ==
  /\ MayAct(from)
  /\ t \in Tokens721 /\ ownerOf[t] = from
  /\ ownerOf' = [ownerOf EXCEPT ![t] = to]
  /\ UNCHANGED <<registryVars, composition, segment, balance, mintFeeVars, call, saved>>

SetMintFee(a, curve) ==
  /\ MayAct(a) /\ a \in Powerful
  /\ mintCurve' = curve
  /\ UNCHANGED <<registryVars, tokenVars, mintRecipient, mintPaused, call, saved>>

SetRecipient(a, r) ==
  /\ MayAct(a) /\ a \in Powerful
  /\ mintRecipient' = r
  /\ UNCHANGED <<registryVars, tokenVars, mintCurve, mintPaused, call, saved>>

SetMintPaused(a, b) ==
  /\ MayAct(a) /\ a \in Powerful
  /\ mintPaused' = b
  /\ UNCHANGED <<registryVars, tokenVars, mintCurve, mintRecipient, call, saved>>

RegistryChange(a) ==
  /\ MayAct(a) /\ a \in Powerful
  /\ \/ \E id \in RepIds, s \in Statuses : SetRepresentationStatus(RegistryAdmin, id, s)
     \/ SyncStep
  /\ UNCHANGED mintVars

Candidates == UNION {[1..n -> Component] : n \in 0..MaxComponents}

MintNext ==
  \/ \E a \in Parties, c \in Candidates, v \in Payments : Mint(a, c, v)
  \/ FeeForwarded \/ Received \/ Refuse
  \/ \E a, b \in Parties, t \in Tokens721 : Transfer(a, t, b)
  \/ \E a \in Parties, c \in MintCurves : SetMintFee(a, c)
  \/ \E a, b \in Parties : SetRecipient(a, b)
  \/ \E a \in Parties, b \in BOOLEAN : SetMintPaused(a, b)
  \/ \E a \in Parties : RegistryChange(a)

MintSpec == MintInit /\ [][MintNext]_allVars

----------------------------------------------------------------------------
MintTypeOK ==
  /\ RegistryTypeOK
  /\ composition \in Seq(Seq(Component)) /\ Len(composition) <= MaxTokens
  /\ segment \in [Tokens721 -> {"CRYPTO_ONLY", "STOCK_ONLY", "MIXED"}]
  /\ ownerOf \in [Tokens721 -> Parties \cup {NoOwner}]
  /\ balance \in Nat /\ mintPaused \in BOOLEAN

(* I1-I4 and I6 hold of every token for as long as it exists, against the      *)
(* registry as it is now and not only as it was at mint: each component still  *)
(* resolves to its asset, whatever was delisted, refreshed or renamed since;   *)
(* and the segment recorded then, which decides a geographic restriction, says *)
(* crypto-only or stock-only exactly of the tokens that are.                   *)
RulesHold(c) ==
  /\ Len(c) \in 1..MaxComponents /\ \A i, j \in DOMAIN c : i # j => c[i].asset # c[j].asset
  /\ WeightSum(c) = BpsTotal
  /\ \A i \in DOMAIN c : c[i].weight > 0 /\ ResolvesTo(c[i].rep, c[i].asset)
SegmentFits(seg, classes) == /\ seg = "CRYPTO_ONLY" <=> classes = {"CRYPTO"}
                             /\ seg = "STOCK_ONLY" <=> "CRYPTO" \notin classes
CompositionsHold ==
  \A t \in Tokens721 :
    LET c == composition[t] IN
    /\ RulesHold(c)
    /\ SegmentFits(segment[t], {c[i].asset[1] : i \in DOMAIN c})

(* Between transactions the contract holds no ether and every id below the     *)
(* counter has an owner: no refused fee or refused token leaves a half mint.   *)
NoHalfMint == call = NoCall => balance = 0 /\ \A t \in Tokens721 : ownerOf[t] # NoOwner

(* What other contracts read: a token with an owner has had its fee paid, and  *)
(* the only token without one is the one being minted.                         *)
OwnedMeansPaid ==
  \A t \in Tokens721 : ownerOf[t] = NoOwner => call.at = "fee" /\ t = Len(composition)

(* NFFC is the composition ledger, seen between transactions.                  *)
Committed == IF call = NoCall THEN composition ELSE SubSeq(composition, 1, Len(composition) - 1)
Ledger == INSTANCE CompositionLedger
            WITH Entries <- Candidates, ledger <- Committed
ImplementsLedger == Ledger!Spec
=============================================================================
