---------------------------- MODULE TokenDocument ----------------------------
(* The document an NFFC's staticMetadataURI points at: prepared from the       *)
(* wizard's composition in three awaits (the block, the oracle observations,   *)
(* the pin) before the mint is sent, while the user edits, blocks pass and     *)
(* feeds move; and its verification against the chain alone. A composition is  *)
(* a sequence of [asset, rep, weight]; an asset stands for its symbol.         *)
EXTENDS Integers, Sequences, FiniteSets, CompositionRules

CONSTANTS Drafts,          \* compositions that pass the wizard
          CryptoAssets,    \* the assets of class CRYPTO
          MarketWords,     \* the assets whose symbol reads as market data ("USD")
          FeedReps, FeedPrices,
          MaxMintBlock,    \* bound: blocks
          MaxTokens        \* bound: tokens minted

ASSUME DocumentAssumption ==
  /\ \A d \in Drafts : /\ d \in Seq({d[i] : i \in DOMAIN d})
                       /\ Len(d) \in 1..MaxComponents /\ WeightSum(d) = BpsTotal
                       /\ \A i \in DOMAIN d : d[i].weight \in Nat \ {0} /\ d[i].rep \in FeedReps
  /\ FeedPrices \subseteq Nat \ {0} /\ {MaxMintBlock, MaxTokens} \subseteq Nat

VARIABLES draft,      \* what the wizard shows
          feeds,      \* of each block so far, each feed's [price, ath]
          run,        \* the preparation under way, as a set of at most one
          nfts        \* the tokens minted: the chain's record and the document pinned for it
documentVars == <<draft, feeds, run, nfts>>

Block == Len(feeds)

----------------------------------------------------------------------------
(* domain/mint-condition: all-time highs are of the rounds up to the mint's.   *)
Rounded(a, b) == (2 * a + b) \div (2 * b)          \* Math.round(a / b)
ClampBps(n) == IF n < 0 THEN 0 ELSE IF n > BpsTotal THEN BpsTotal ELSE n

AT_HIGH_BPS == 100
RegimeFor(bps) == CASE bps <= 149 -> "at-highs"
                    [] bps \in 150..999 -> "near-highs"
                    [] bps \in 1000..2999 -> "mid"
                    [] bps >= 3000 -> "deep-drawdown"

Drawdown(o) == ClampBps(Rounded((o.ath - o.price) * BpsTotal, o.ath))

\* Observations by representation: one of each component, or the computation throws.
RepsOf(comps) == {comps[i].rep : i \in DOMAIN comps}
Computable(comps, observations) == RepsOf(comps) = DOMAIN observations
ComputeMintCondition(comps, observations, block) ==
  LET drawdown == [i \in DOMAIN comps |-> Drawdown(observations[comps[i].rep])]
      weighted == Rounded(SumFunction([i \in DOMAIN comps |-> comps[i].weight * drawdown[i]]),
                          BpsTotal)
  IN [weightedDrawdownBps |-> weighted, regime |-> RegimeFor(weighted),
      componentsAtHigh |-> Cardinality({i \in DOMAIN comps : drawdown[i] <= AT_HIGH_BPS}),
      mintedAtBlock |-> block]

----------------------------------------------------------------------------
(* composition-hash.ts and NFFC.mint: keccak256 of the tuples in order, and so *)
(* the tuples.                                                                 *)
CompositionHash(comps) == [i \in DOMAIN comps |-> <<comps[i].asset, comps[i].rep, comps[i].weight>>]

(* domain/art: what is drawn follows from the seed and each component's asset, *)
(* place and weight; the arcs' spans add up along the circle. Colours, radii   *)
(* and the seam come from generators seeded with those, and are those.         *)
CursorAt(comps, i) == SumFunction([k \in 1..i-1 |-> comps[k].weight])
Art(seed, comps) ==
  [seed |-> seed,
   arcs |-> [i \in DOMAIN comps |->
     [asset |-> comps[i].asset, from |-> CursorAt(comps, i),
      to |-> CursorAt(comps, i) + comps[i].weight, stream |-> <<seed, comps[i].asset, i>>]]]

Segment(comps) == DeriveSegment([i \in DOMAIN comps |-> comps[i].asset \in CryptoAssets])
(* The preview step draws from the draft's own hash.                           *)
Preview(comps) == [art |-> Art(CompositionHash(comps), comps), segment |-> Segment(comps),
                   score |-> Score(Weights(comps))]

(* What Nffc.mint records of it.                                               *)
OnChain(comps, id) == [tokenId |-> id, compositionHash |-> CompositionHash(comps),
                       segment |-> Segment(comps), components |-> comps,
                       staticRarity |-> Score(Weights(comps))]

PENDING_TOKEN_ID == 0     \* no token's id

Facts(comps, block, observations) ==
  [tokenId |-> PENDING_TOKEN_ID, compositionHash |-> CompositionHash(comps),
   segment |-> Segment(comps), componentCount |-> Len(comps),
   components |-> [i \in DOMAIN comps |-> [position |-> i, asset |-> comps[i].asset,
                                           rep |-> comps[i].rep, weight |-> comps[i].weight]],
   staticRarity |-> Score(Weights(comps)),
   mintConditionTrait |-> ComputeMintCondition(comps, observations, block)]

(* buildStaticNffcMetadata: the attributes are named by words of the schema    *)
(* and by the components' symbols. Pinning is by content: the URI is the       *)
(* document.                                                                   *)
StaticMetadata(facts, art) ==
  [image |-> art, nffc |-> facts, attributes |-> {facts.components[i].asset : i \in DOMAIN facts.components}]

(* verifyStaticMetadataAgainstChain: the set of mismatches, each by its field  *)
(* and the component it is about (0: the document as a whole).                 *)
Mismatches(meta, chain) ==
  LET f == meta.nffc IN
  {<<field, 0>> : field \in {k \in {"tokenId", "compositionHash", "segment"} : f[k] # chain[k]}}
  \cup (IF f.componentCount # Len(f.components) THEN {<<"componentCount", 0>>} ELSE {})
  \cup (IF Len(f.components) # Len(chain.components) THEN {<<"components length", 0>>}
        ELSE {<<"position", i>> : i \in {k \in DOMAIN f.components : f.components[k].position # k}}
             \cup {p \in {"asset", "rep", "weight"} \X DOMAIN f.components :
                      f.components[p[2]][p[1]] # chain.components[p[2]][p[1]]})
  \cup (IF WeightSum(f.components) # BpsTotal THEN {<<"weightBps sum", 0>>} ELSE {})
  \cup {<<"attribute", a>> : a \in meta.attributes \cap MarketWords}

----------------------------------------------------------------------------
EditDraft(d) == d # draft /\ draft' = d /\ UNCHANGED <<feeds, run, nfts>>

\* A block, with each feed where it was or at a new round.
FeedsMove(prices) ==
  /\ Block < MaxMintBlock
  /\ feeds' = Append(feeds, [r \in FeedReps |->
       [price |-> prices[r],
        ath |-> IF prices[r] > feeds[Block][r].ath THEN prices[r] ELSE feeds[Block][r].ath]])
  /\ UNCHANGED <<draft, run, nfts>>

Press ==
  /\ run = {} /\ Cardinality(nfts) < MaxTokens
  /\ run' = {[pc |-> "block", comps |-> draft, shown |-> Preview(draft).art,
              block |-> 0, observations |-> <<>>, doc |-> <<>>]}
  /\ UNCHANGED <<draft, feeds, nfts>>

\* The preparation moves on.
At(r, pc, block, observations, doc) ==
  [pc |-> pc, comps |-> r.comps, shown |-> r.shown, block |-> block,
   observations |-> observations, doc |-> doc]

\* Mutant of ComponentsOf: the closure reads the wizard's state as it is now.
DraftNow(r) == draft
ComponentsOf(r) == r.comps

CurrentBlock(r) ==
  /\ r.pc = "block"
  /\ run' = {At(r, "observations", Block, r.observations, r.doc)}
  /\ UNCHANGED <<draft, feeds, nfts>>

FetchObservations(r) ==
  /\ r.pc = "observations"
  /\ run' = {At(r, "pin", r.block,
               [rep \in RepsOf(ComponentsOf(r)) |-> feeds[Block][rep]], r.doc)}
  /\ UNCHANGED <<draft, feeds, nfts>>

\* Everything else is computed between the observations and the pin.
Pin(r) ==
  /\ r.pc = "pin" /\ Computable(ComponentsOf(r), r.observations)
  /\ run' = {At(r, "mint", r.block, r.observations,
               StaticMetadata(Facts(ComponentsOf(r), r.block, r.observations),
                              Art(CompositionHash(ComponentsOf(r)), ComponentsOf(r))))}
  /\ UNCHANGED <<draft, feeds, nfts>>

\* The mint of the composition that was pressed is mined with the document's URI.
MintMined(r) ==
  /\ r.pc = "mint"
  /\ nfts' = nfts \cup {[chain |-> OnChain(r.comps, Cardinality(nfts) + 1), block |-> Block,
                         shown |-> r.shown, meta |-> r.doc]}
  /\ run' = {} /\ UNCHANGED <<draft, feeds>>

\* An await that rejects, a computation that throws, a mint refused or reverted.
Dropped(r) == run' = {} /\ UNCHANGED <<draft, feeds, nfts>>

DocumentInit ==
  /\ draft \in Drafts /\ run = {} /\ nfts = {}
  /\ feeds \in {<<[r \in FeedReps |-> [price |-> p, ath |-> p]]>> : p \in FeedPrices}

DocumentNext ==
  \/ \E d \in Drafts : EditDraft(d)
  \/ \E prices \in [FeedReps -> FeedPrices] : FeedsMove(prices)
  \/ Press
  \/ \E r \in run : CurrentBlock(r) \/ FetchObservations(r) \/ Pin(r) \/ MintMined(r) \/ Dropped(r)
DocumentSpec == DocumentInit /\ [][DocumentNext]_documentVars

----------------------------------------------------------------------------
(* The document of every token verifies against the chain alone but for what   *)
(* the code's documents concede: its token id, and a component whose symbol is *)
(* a market word. Its image is the one redrawn from the chain and the one the  *)
(* user saw when they pressed Mint; its rarity is the contract's; and its mint *)
(* condition is that of the composition's feeds at a block between the one it  *)
(* names and the mint's (prepareMintMetadata, renderNffcArt,                   *)
(* computeMintCondition, verifyStaticMetadataAgainstChain).                    *)
ImageVerifies(n) ==
  n.meta.image = Art(n.chain.compositionHash, n.chain.components) /\ n.meta.image = n.shown
ConditionVerifies(n) ==
  LET trait == n.meta.nffc.mintConditionTrait IN
  \E b \in trait.mintedAtBlock..n.block :
    trait = ComputeMintCondition(n.chain.components, feeds[b], trait.mintedAtBlock)
PinnedVerifies ==
  \A n \in nfts :
    /\ Mismatches(n.meta, n.chain) \subseteq
         {<<"tokenId", 0>>} \cup {<<"attribute", a>> : a \in MarketWords}
    /\ n.meta.nffc.staticRarity = n.chain.staticRarity
    /\ ImageVerifies(n) /\ ConditionVerifies(n)
=============================================================================
