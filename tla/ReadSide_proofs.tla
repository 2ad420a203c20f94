-------------------------- MODULE ReadSide_proofs ---------------------------
(* What is kept and read off the chain, for any constants.                     *)
(*   The document of a mint: whatever the user edits, the blocks and the feeds *)
(* do while a mint is prepared, the document pinned for it verifies.           *)
(* Inductive: the preparation carries the composition that was pressed, and    *)
(* observations that were of one block since.                                  *)
(*   The schema is what its log says, for any runners, releases and number of  *)
(* runs. Inductive: what a runner has passed is logged, so the migration it    *)
(* commits, not logged yet, is the one after the newest.                       *)
(*   The NAVs on record rest on prices on record, and an undegraded one on     *)
(* fresh ones. Inductive: a feed's answer at a time is one, so a point stored  *)
(* by an earlier run under the key of a price in hand is that price.           *)
(*   The pages of listings and activity show each row once, strand no one and  *)
(* count alike: Sorted lists each place once, after those that come first, and *)
(* what was walked is a prefix of one list. The portfolio shown is the         *)
(* connected wallet's and adds up. Inductive: a fetch that stands is of the    *)
(* address the effect ran for.                                                 *)
EXTENDS TokenDocument, Migrations, NavHistory, Portfolio, Sums_proofs, SequenceTheorems

(* The document of a composition, its trait over the feeds f at block.         *)
DocumentOf(comps, block, f) ==
  StaticMetadata(Facts(comps, block, [rep \in RepsOf(comps) |-> f[rep]]),
                 Art(CompositionHash(comps), comps))

Rounds == [FeedReps -> [price : FeedPrices, ath : FeedPrices]]

DocumentTypeOK == draft \in Drafts /\ feeds \in Seq(Rounds) /\ Len(feeds) > 0

(* A preparation under way: what each await left behind.                       *)
Prepares(r) ==
  /\ r.comps \in Drafts /\ r.shown = Art(CompositionHash(r.comps), r.comps)
  /\ r.pc \in {"block", "observations", "pin", "mint"}
  /\ r.pc # "block" => r.block \in 1..Len(feeds)
  /\ r.pc = "pin" => \E b \in r.block..Len(feeds) :
                       r.observations = [rep \in RepsOf(r.comps) |-> feeds[b][rep]]
  /\ r.pc = "mint" => \E b \in r.block..Len(feeds) :
                        r.doc = DocumentOf(r.comps, r.block, feeds[b])

(* A token minted with a document of its composition.                          *)
Pinned(n) ==
  \E comps \in Drafts, block \in 1..Len(feeds) :
    \E b \in block..Len(feeds) :
      /\ n.chain = OnChain(comps, n.chain.tokenId) /\ n.shown = Art(CompositionHash(comps), comps)
      /\ n.block \in b..Len(feeds) /\ n.meta = DocumentOf(comps, block, feeds[b])

DocumentIInv == DocumentTypeOK /\ (\A r \in run : Prepares(r)) /\ (\A n \in nfts : Pinned(n))

----------------------------------------------------------------------------
(* Only the observations of the components count.                              *)
LEMMA ConditionOfReps ==
  ASSUME NEW comps, NEW f, NEW block
  PROVE  ComputeMintCondition(comps, [rep \in RepsOf(comps) |-> f[rep]], block)
           = ComputeMintCondition(comps, f, block)
  <1> DEFINE g == [rep \in RepsOf(comps) |-> f[rep]]
  <1>1. \A i \in DOMAIN comps : g[comps[i].rep] = f[comps[i].rep]
    BY DEF RepsOf
  <1> HIDE DEF g
  <1>2. [i \in DOMAIN comps |-> Drawdown(g[comps[i].rep])]
          = [i \in DOMAIN comps |-> Drawdown(f[comps[i].rep])]
    BY <1>1
  <1>3. ComputeMintCondition(comps, g, block) = ComputeMintCondition(comps, f, block)
    BY <1>2, Zenon DEF ComputeMintCondition
  <1> QED BY <1>3 DEF g

(* The components the document lists are as many, and weigh as much.           *)
ListedDocument(comps) == [i \in DOMAIN comps |-> [position |-> i, asset |-> comps[i].asset,
                                          rep |-> comps[i].rep, weight |-> comps[i].weight]]
LEMMA ListedComponents ==
  ASSUME NEW comps \in Drafts
  PROVE  /\ Len(ListedDocument(comps)) = Len(comps) /\ DOMAIN ListedDocument(comps) = DOMAIN comps
         /\ WeightSum(ListedDocument(comps)) = BpsTotal
         /\ \A i \in DOMAIN comps : /\ ListedDocument(comps)[i].position = i
                                    /\ ListedDocument(comps)[i].asset = comps[i].asset
                                    /\ ListedDocument(comps)[i].rep = comps[i].rep
                                    /\ ListedDocument(comps)[i].weight = comps[i].weight
  <1>1. comps \in Seq({comps[i] : i \in DOMAIN comps}) /\ WeightSum(comps) = BpsTotal
    BY DocumentAssumption
  <1>2. DOMAIN comps = 1..Len(comps) /\ Len(comps) \in Nat
    BY <1>1
  <1>3. ListedDocument(comps) \in Seq({ListedDocument(comps)[i] : i \in DOMAIN comps})
    BY <1>2 DEF ListedDocument
  <1>4. DOMAIN ListedDocument(comps) = DOMAIN comps
    BY DEF ListedDocument
  <1>5. Len(ListedDocument(comps)) = Len(comps)
    BY <1>2, <1>3, <1>4
  <1>6. \A i \in DOMAIN comps : ListedDocument(comps)[i].weight = comps[i].weight
    BY DEF ListedDocument
  <1>7. Weights(ListedDocument(comps)) = Weights(comps)
    BY <1>4, <1>6 DEF Weights
  <1>8. WeightSum(ListedDocument(comps)) = BpsTotal
    BY <1>1, <1>7 DEF WeightSum
  <1> QED BY <1>4, <1>5, <1>8 DEF ListedDocument

(* The parts of a document and of the chain's record.                          *)
LEMMA DocumentParts ==
  ASSUME NEW comps \in Drafts, NEW id, NEW block, NEW f
  PROVE  LET meta == DocumentOf(comps, block, f)  chain == OnChain(comps, id) IN
         /\ meta.image = Art(CompositionHash(comps), comps)
         /\ meta.nffc.compositionHash = CompositionHash(comps)
         /\ meta.nffc.segment = Segment(comps)
         /\ meta.nffc.componentCount = Len(comps)
         /\ meta.nffc.components = ListedDocument(comps)
         /\ meta.nffc.staticRarity = Score(Weights(comps))
         /\ meta.nffc.mintConditionTrait = ComputeMintCondition(comps, f, block)
         /\ chain.compositionHash = CompositionHash(comps) /\ chain.segment = Segment(comps)
         /\ chain.components = comps /\ chain.staticRarity = Score(Weights(comps))
  BY ConditionOfReps DEF DocumentOf, StaticMetadata, Facts, OnChain, ListedDocument

(* A document verifies against the record of the composition it was made of.   *)
LEMMA DocumentVerifies ==
  ASSUME NEW comps \in Drafts, NEW id, NEW block, NEW f
  PROVE  Mismatches(DocumentOf(comps, block, f), OnChain(comps, id))
           \subseteq {<<"tokenId", 0>>} \cup {<<"attribute", a>> : a \in MarketWords}
  <1> DEFINE meta == DocumentOf(comps, block, f)
             chain == OnChain(comps, id)
             facts == meta.nffc
  <1>1. /\ facts.compositionHash = chain.compositionHash /\ facts.segment = chain.segment
        /\ facts.componentCount = Len(comps) /\ facts.components = ListedDocument(comps)
        /\ chain.components = comps
    BY DocumentParts
  <1> HIDE DEF meta, chain
  <1>2. facts.componentCount = Len(facts.components) /\ Len(facts.components) = Len(chain.components)
    BY <1>1, ListedComponents
  <1>3. {k \in DOMAIN facts.components : facts.components[k].position # k} = {}
    BY <1>1, ListedComponents
  <1>4. {p \in {"asset", "rep", "weight"} \X DOMAIN facts.components :
           facts.components[p[2]][p[1]] # chain.components[p[2]][p[1]]} = {}
    <2> SUFFICES ASSUME NEW field \in {"asset", "rep", "weight"}, NEW i \in DOMAIN comps
                 PROVE  ListedDocument(comps)[i][field] = comps[i][field]
      BY <1>1, ListedComponents
    <2> QED BY ListedComponents
  <1>5. WeightSum(facts.components) = BpsTotal
    BY <1>1, ListedComponents
  <1>6. \A k \in {"tokenId", "compositionHash", "segment"} :
          facts[k] # chain[k] => k = "tokenId"
    BY <1>1
  <1>7. Mismatches(meta, chain)
          = {<<field, 0>> : field \in {k \in {"tokenId", "compositionHash", "segment"} : facts[k] # chain[k]}}
            \cup {<<"attribute", a>> : a \in meta.attributes \cap MarketWords}
    BY <1>2, <1>3, <1>4, <1>5 DEF Mismatches
  <1>8. Mismatches(meta, chain) \subseteq {<<"tokenId", 0>>} \cup {<<"attribute", a>> : a \in MarketWords}
    BY <1>6, <1>7
  <1> QED BY <1>8 DEF meta, chain

----------------------------------------------------------------------------
(* What a preparation or a token rests on stays where it is as blocks pass.    *)
LEMMA PreparationKeeps ==
  ASSUME DocumentIInv, feeds' \in Seq(Rounds), Len(feeds') >= Len(feeds),
         \A b \in 1..Len(feeds) : feeds'[b] = feeds[b]
  PROVE  (\A r \in run : Prepares(r)') /\ (\A n \in nfts : Pinned(n)')
  <1>1. feeds \in Seq(Rounds) /\ Len(feeds) \in Nat /\ Len(feeds') \in Nat
    BY DEF DocumentIInv, DocumentTypeOK
  <1>2. ASSUME NEW r \in run PROVE Prepares(r)'
    <2>1. Prepares(r)
      BY DEF DocumentIInv
    <2>2. r.pc # "block" => r.block \in 1..Len(feeds')
      BY <1>1, <2>1 DEF Prepares
    <2>3. ASSUME r.pc = "pin"
          PROVE  \E b \in r.block..Len(feeds') : r.observations = [rep \in RepsOf(r.comps) |-> feeds'[b][rep]]
      <3>1. PICK b \in r.block..Len(feeds) : r.observations = [rep \in RepsOf(r.comps) |-> feeds[b][rep]]
        BY <2>1, <2>3 DEF Prepares
      <3>2. r.block \in 1..Len(feeds)
        BY <2>1, <2>3 DEF Prepares
      <3>3. b \in 1..Len(feeds) /\ b \in r.block..Len(feeds')
        BY <1>1, <3>2
      <3>4. feeds'[b] = feeds[b]
        BY <3>3
      <3> QED BY <3>1, <3>3, <3>4
    <2>4. ASSUME r.pc = "mint"
          PROVE  \E b \in r.block..Len(feeds') : r.doc = DocumentOf(r.comps, r.block, feeds'[b])
      <3>1. PICK b \in r.block..Len(feeds) : r.doc = DocumentOf(r.comps, r.block, feeds[b])
        BY <2>1, <2>4 DEF Prepares
      <3>2. r.block \in 1..Len(feeds)
        BY <2>1, <2>4 DEF Prepares
      <3>3. b \in 1..Len(feeds) /\ b \in r.block..Len(feeds')
        BY <1>1, <3>2
      <3>4. feeds'[b] = feeds[b]
        BY <3>3
      <3> QED BY <3>1, <3>3, <3>4
    <2> QED BY <2>1, <2>2, <2>3, <2>4 DEF Prepares
  <1>3. ASSUME NEW n \in nfts PROVE Pinned(n)'
    <2>1. Pinned(n)
      BY DEF DocumentIInv
    <2>2. PICK comps \in Drafts, block \in 1..Len(feeds) : \E b \in block..Len(feeds) :
            /\ n.chain = OnChain(comps, n.chain.tokenId) /\ n.shown = Art(CompositionHash(comps), comps)
            /\ n.block \in b..Len(feeds) /\ n.meta = DocumentOf(comps, block, feeds[b])
      BY <2>1 DEF Pinned
    <2>3. PICK b \in block..Len(feeds) :
            /\ n.chain = OnChain(comps, n.chain.tokenId) /\ n.shown = Art(CompositionHash(comps), comps)
            /\ n.block \in b..Len(feeds) /\ n.meta = DocumentOf(comps, block, feeds[b])
      BY <2>2
    <2>4. b \in 1..Len(feeds) /\ block \in 1..Len(feeds') /\ b \in block..Len(feeds') /\ n.block \in b..Len(feeds')
      BY <1>1, <2>3
    <2>5. feeds'[b] = feeds[b]
      BY <2>4
    <2> QED BY <2>3, <2>4, <2>5 DEF Pinned
  <1> QED BY <1>2, <1>3

LEMMA FeedsKept ==
  ASSUME DocumentIInv, UNCHANGED feeds
  PROVE  (\A r \in run : Prepares(r)') /\ (\A n \in nfts : Pinned(n)')
  <1>1. feeds' \in Seq(Rounds) /\ Len(feeds') >= Len(feeds)
        /\ \A b \in 1..Len(feeds) : feeds'[b] = feeds[b]
    BY DEF DocumentIInv, DocumentTypeOK
  <1> QED BY <1>1, PreparationKeeps

LEMMA InitHolds == DocumentInit => DocumentIInv
  <1> SUFFICES ASSUME DocumentInit PROVE DocumentIInv
    OBVIOUS
  <1>1. PICK p \in FeedPrices : feeds = <<[r \in FeedReps |-> [price |-> p, ath |-> p]]>>
    BY DEF DocumentInit
  <1>2. [r \in FeedReps |-> [price |-> p, ath |-> p]] \in Rounds
    BY DEF Rounds
  <1>3. feeds \in Seq(Rounds) /\ Len(feeds) > 0
    BY <1>1, <1>2
  <1> QED BY <1>3 DEF DocumentInit, DocumentIInv, DocumentTypeOK

----------------------------------------------------------------------------
(* Editing, or dropping a preparation, leaves the others as they are.          *)
LEMMA EditKeeps ==
  ASSUME DocumentIInv, NEW d \in Drafts, EditDraft(d) PROVE DocumentIInv'
  <1>1. UNCHANGED <<feeds, run, nfts>> /\ draft' \in Drafts
    BY DEF EditDraft
  <1>2. DocumentTypeOK'
    BY <1>1 DEF DocumentIInv, DocumentTypeOK
  <1> QED BY <1>1, <1>2, FeedsKept DEF DocumentIInv

LEMMA FeedsMoveKeeps ==
  ASSUME DocumentIInv, NEW moved \in [FeedReps -> FeedPrices], FeedsMove(moved)
  PROVE  DocumentIInv'
  <1> DEFINE update == [r \in FeedReps |->
       [price |-> moved[r],
        ath |-> IF moved[r] > feeds[Block][r].ath THEN moved[r] ELSE feeds[Block][r].ath]]
  <1>1. feeds \in Seq(Rounds) /\ Len(feeds) > 0 /\ Len(feeds) \in Nat
    BY DEF DocumentIInv, DocumentTypeOK
  <1>2. feeds[Block] \in Rounds
    BY <1>1 DEF Block
  <1>3. update \in Rounds
    <2>1. \A r \in FeedReps : moved[r] \in FeedPrices /\ feeds[Block][r].ath \in FeedPrices
      BY <1>2 DEF Rounds
    <2> QED BY <2>1 DEF Rounds
  <1>4. feeds' = Append(feeds, update) /\ UNCHANGED <<draft, run, nfts>>
    BY DEF FeedsMove
  <1> HIDE DEF update
  <1>5. feeds' \in Seq(Rounds) /\ Len(feeds') = Len(feeds) + 1
        /\ \A b \in 1..Len(feeds) : feeds'[b] = feeds[b]
    BY <1>1, <1>3, <1>4
  <1>6. (\A r \in run : Prepares(r)') /\ (\A n \in nfts : Pinned(n)')
    BY <1>1, <1>5, PreparationKeeps
  <1>7. DocumentTypeOK'
    BY <1>1, <1>4, <1>5 DEF DocumentIInv, DocumentTypeOK
  <1> QED BY <1>4, <1>6, <1>7 DEF DocumentIInv

(* A preparation that moves on, the feeds and tokens where they were.          *)
LEMMA RunKeeps ==
  ASSUME DocumentIInv, UNCHANGED <<draft, feeds, nfts>>, NEW r, run' = {r}, Prepares(r)
  PROVE  DocumentIInv'
  <1>1. DocumentTypeOK' /\ (\A n \in nfts' : Pinned(n)')
    BY FeedsKept DEF DocumentIInv, DocumentTypeOK
  <1>2. Prepares(r)'
    BY DEF Prepares
  <1> QED BY <1>1, <1>2 DEF DocumentIInv

LEMMA PressKeeps == ASSUME DocumentIInv, Press PROVE DocumentIInv'
  <1> DEFINE r == [pc |-> "block", comps |-> draft, shown |-> Preview(draft).art,
                   block |-> 0, observations |-> <<>>, doc |-> <<>>]
  <1>1. run' = {r} /\ UNCHANGED <<draft, feeds, nfts>>
    BY DEF Press
  <1>2. r.comps \in Drafts /\ r.pc = "block" /\ r.shown = Art(CompositionHash(r.comps), r.comps)
    BY DEF DocumentIInv, DocumentTypeOK, Preview
  <1> HIDE DEF r
  <1>3. Prepares(r)
    BY <1>2 DEF Prepares
  <1> QED BY <1>1, <1>3, RunKeeps

LEMMA CurrentBlockKeeps ==
  ASSUME DocumentIInv, NEW r \in run, CurrentBlock(r) PROVE DocumentIInv'
  <1> DEFINE s == At(r, "observations", Block, r.observations, r.doc)
  <1>1. run' = {s} /\ UNCHANGED <<draft, feeds, nfts>> /\ Prepares(r)
    BY DEF CurrentBlock, DocumentIInv
  <1>2. s.comps = r.comps /\ s.shown = r.shown /\ s.pc = "observations" /\ s.block = Len(feeds)
    BY DEF At, Block
  <1>3. Len(feeds) \in Nat /\ Len(feeds) > 0
    BY DEF DocumentIInv, DocumentTypeOK
  <1> HIDE DEF s
  <1>4. Prepares(s)
    BY <1>1, <1>2, <1>3 DEF Prepares
  <1> QED BY <1>1, <1>4, RunKeeps

LEMMA FetchObservationsKeeps ==
  ASSUME DocumentIInv, NEW r \in run, FetchObservations(r) PROVE DocumentIInv'
  <1> DEFINE s == At(r, "pin", r.block, [rep \in RepsOf(r.comps) |-> feeds[Block][rep]], r.doc)
  <1>1. run' = {s} /\ UNCHANGED <<draft, feeds, nfts>> /\ Prepares(r) /\ r.pc = "observations"
    BY DEF FetchObservations, ComponentsOf, DocumentIInv
  <1>2. /\ s.comps = r.comps /\ s.shown = r.shown /\ s.pc = "pin" /\ s.block = r.block
        /\ s.observations = [rep \in RepsOf(r.comps) |-> feeds[Len(feeds)][rep]]
    BY DEF At, Block
  <1>3. r.block \in 1..Len(feeds) /\ Len(feeds) \in r.block..Len(feeds)
    BY <1>1 DEF Prepares, DocumentIInv, DocumentTypeOK
  <1> HIDE DEF s
  <1>4. Prepares(s)
    BY <1>1, <1>2, <1>3 DEF Prepares
  <1> QED BY <1>1, <1>4, RunKeeps

LEMMA PinKeeps ==
  ASSUME DocumentIInv, NEW r \in run, Pin(r) PROVE DocumentIInv'
  <1> DEFINE doc == StaticMetadata(Facts(r.comps, r.block, r.observations),
                                   Art(CompositionHash(r.comps), r.comps))
             s == At(r, "mint", r.block, r.observations, doc)
  <1>1. run' = {s} /\ UNCHANGED <<draft, feeds, nfts>> /\ Prepares(r) /\ r.pc = "pin"
    BY DEF Pin, ComponentsOf, DocumentIInv
  <1>2. PICK b \in r.block..Len(feeds) : r.observations = [rep \in RepsOf(r.comps) |-> feeds[b][rep]]
    BY <1>1 DEF Prepares
  <1>3. doc = DocumentOf(r.comps, r.block, feeds[b])
    BY <1>2 DEF DocumentOf
  <1>4. s.comps = r.comps /\ s.shown = r.shown /\ s.pc = "mint" /\ s.block = r.block /\ s.doc = doc
    BY DEF At
  <1> HIDE DEF s, doc
  <1>5. Prepares(s)
    BY <1>1, <1>2, <1>3, <1>4 DEF Prepares
  <1> QED BY <1>1, <1>5, RunKeeps

LEMMA MintMinedKeeps ==
  ASSUME DocumentIInv, NEW r \in run, MintMined(r) PROVE DocumentIInv'
  <1>1. PICK id, n : /\ n = [chain |-> OnChain(r.comps, id), block |-> Block,
                             shown |-> r.shown, meta |-> r.doc]
                     /\ nfts' = nfts \cup {n} /\ run' = {} /\ UNCHANGED <<draft, feeds>>
    BY DEF MintMined
  <1>2. /\ n.chain = OnChain(r.comps, id) /\ n.block = Len(feeds) /\ n.shown = r.shown
        /\ n.meta = r.doc /\ n.chain.tokenId = id
    BY <1>1 DEF Block, OnChain
  <1>3. Prepares(r) /\ r.pc = "mint"
    BY DEF MintMined, DocumentIInv
  <1>4. PICK b \in r.block..Len(feeds) : r.doc = DocumentOf(r.comps, r.block, feeds[b])
    BY <1>3 DEF Prepares
  <1>5. r.comps \in Drafts /\ r.block \in 1..Len(feeds) /\ Len(feeds) \in b..Len(feeds)
        /\ r.shown = Art(CompositionHash(r.comps), r.comps)
    BY <1>3, <1>4 DEF Prepares, DocumentIInv, DocumentTypeOK
  <1>6. Pinned(n)
    BY <1>2, <1>4, <1>5 DEF Pinned
  <1>7. Pinned(n)'
    BY <1>1, <1>6 DEF Pinned
  <1>8. DocumentTypeOK' /\ (\A m \in nfts : Pinned(m)')
    BY <1>1, FeedsKept DEF DocumentIInv, DocumentTypeOK
  <1> QED BY <1>1, <1>7, <1>8 DEF DocumentIInv

LEMMA DroppedKeeps ==
  ASSUME DocumentIInv, NEW r \in run, Dropped(r) PROVE DocumentIInv'
  <1>1. run' = {} /\ UNCHANGED <<draft, feeds, nfts>>
    BY DEF Dropped
  <1> QED BY <1>1, FeedsKept DEF DocumentIInv, DocumentTypeOK

LEMMA StutterKeeps == ASSUME DocumentIInv, UNCHANGED documentVars PROVE DocumentIInv'
  <1>1. UNCHANGED <<draft, feeds, run, nfts>>
    BY DEF documentVars
  <1> QED BY <1>1, FeedsKept DEF DocumentIInv, DocumentTypeOK

LEMMA StepHolds == DocumentIInv /\ [DocumentNext]_documentVars => DocumentIInv'
  BY EditKeeps, FeedsMoveKeeps, PressKeeps, CurrentBlockKeeps, FetchObservationsKeeps, PinKeeps,
     MintMinedKeeps, DroppedKeeps, StutterKeeps DEF DocumentNext

----------------------------------------------------------------------------
(* What was pinned of a composition's document verifies.                       *)
LEMMA PinnedDocumentVerifies == DocumentIInv => PinnedVerifies
  <1> SUFFICES ASSUME DocumentIInv, NEW n \in nfts
               PROVE  /\ Mismatches(n.meta, n.chain) \subseteq
                           {<<"tokenId", 0>>} \cup {<<"attribute", a>> : a \in MarketWords}
                      /\ n.meta.nffc.staticRarity = n.chain.staticRarity
                      /\ ImageVerifies(n) /\ ConditionVerifies(n)
    BY DEF PinnedVerifies
  <1>1. Pinned(n)
    BY DEF DocumentIInv
  <1>2. PICK comps \in Drafts, block \in 1..Len(feeds) : \E b \in block..Len(feeds) :
          /\ n.chain = OnChain(comps, n.chain.tokenId) /\ n.shown = Art(CompositionHash(comps), comps)
          /\ n.block \in b..Len(feeds) /\ n.meta = DocumentOf(comps, block, feeds[b])
    BY <1>1 DEF Pinned
  <1>3. PICK b \in block..Len(feeds) :
          /\ n.chain = OnChain(comps, n.chain.tokenId) /\ n.shown = Art(CompositionHash(comps), comps)
          /\ n.block \in b..Len(feeds) /\ n.meta = DocumentOf(comps, block, feeds[b])
    BY <1>2
  <1> DEFINE id == n.chain.tokenId
             meta == n.meta
  <1> HIDE DEF id
  <1>4. n.chain = OnChain(comps, id)
    BY <1>3 DEF id
  <1>5. Mismatches(n.meta, n.chain) \subseteq
          {<<"tokenId", 0>>} \cup {<<"attribute", a>> : a \in MarketWords}
    BY <1>3, <1>4, DocumentVerifies
  <1>6. /\ n.meta.image = Art(CompositionHash(comps), comps)
        /\ n.meta.nffc.staticRarity = Score(Weights(comps))
        /\ n.meta.nffc.mintConditionTrait = ComputeMintCondition(comps, feeds[b], block)
        /\ n.chain.compositionHash = CompositionHash(comps) /\ n.chain.components = comps
        /\ n.chain.staticRarity = Score(Weights(comps))
    BY <1>3, <1>4, DocumentParts
  <1>7. ComputeMintCondition(comps, feeds[b], block).mintedAtBlock = block
    BY DEF ComputeMintCondition
  <1>8. b \in block..n.block
    BY <1>3 DEF DocumentIInv, DocumentTypeOK
  <1>9. ConditionVerifies(n)
    BY <1>6, <1>7, <1>8 DEF ConditionVerifies
  <1> QED BY <1>3, <1>5, <1>6, <1>9 DEF ImageVerifies

(* Whatever is edited and whenever the blocks and feeds move, every pinned     *)
(* document verifies against the chain, shows what the user saw, and dates its *)
(* mint condition to a block between the one it names and its own              *)
(* (prepareMintMetadata, verifyStaticMetadataAgainstChain).                    *)
THEOREM DocumentsVerify == DocumentSpec => []PinnedVerifies
  <1>1. DocumentSpec => []DocumentIInv
    BY InitHolds, StepHolds, PTL DEF DocumentSpec
  <1> QED BY <1>1, PinnedDocumentVerifies, PTL

----------------------------------------------------------------------------
RunnerStates == [pc : {"exited", "loop", "sql"}, release : Nat, applied : SUBSET Nat, next : Nat]

(* The types of the variables.                                                 *)
MigrateTypeOK == /\ schema \in Seq(Nat) /\ logged \subseteq Nat /\ runs \in Nat
                 /\ runner \in [Runners -> RunnerStates]

(* A runner that is in its loop has behind it only migrations that are logged. *)
PassedAreLogged ==
  \A r \in Runners :
    runner[r].pc # "exited" =>
      /\ runner[r].next \in Nat \ {0}
      /\ runner[r].applied \subseteq logged /\ 1..(runner[r].next - 1) \subseteq logged

MigrateIInv == MigrateTypeOK /\ SchemaIsTheLog /\ PassedAreLogged

LEMMA MigrateInitHolds == MigrateInit => MigrateIInv
  BY DEF MigrateInit, MigrateIInv, MigrateTypeOK, SchemaIsTheLog, PassedAreLogged, RunnerStates,
         Exited, Ran

(* A step of one runner that only moves it keeps the invariant when the place  *)
(* it moves to does.                                                           *)
LEMMA MoveHolds ==
  ASSUME MigrateIInv, NEW r \in Runners, NEW to \in RunnerStates, Moves(r, to),
         UNCHANGED <<schema, logged>>, runs' \in Nat,
         to.pc # "exited" => /\ to.next \in Nat \ {0} /\ to.applied \subseteq logged
                             /\ 1..(to.next - 1) \subseteq logged
  PROVE  MigrateIInv'
  <1>1. MigrateTypeOK'
    BY DEF MigrateIInv, MigrateTypeOK, Moves
  <1>2. SchemaIsTheLog'
    BY DEF MigrateIInv, SchemaIsTheLog
  <1>3. PassedAreLogged'
    BY DEF MigrateIInv, MigrateTypeOK, PassedAreLogged, Moves
  <1> QED BY <1>1, <1>2, <1>3 DEF MigrateIInv

LEMMA CommitHolds ==
  ASSUME MigrateIInv, NEW r \in Runners, CommitMigration(r)
  PROVE  MigrateIInv'
  <1> DEFINE at == runner[r]
  <1>1. /\ at \in RunnerStates /\ at.pc = "sql" /\ at.next \notin logged
        /\ at.next \in Nat \ {0} /\ 1..(at.next - 1) \subseteq logged /\ at.applied \subseteq logged
    BY DEF MigrateIInv, MigrateTypeOK, PassedAreLogged, CommitMigration, MayLog
  <1>2. schema \in Seq(Nat) /\ Len(schema) \in Nat /\ logged = 1..Len(schema)
    BY DEF MigrateIInv, MigrateTypeOK, SchemaIsTheLog
  <1>3. at.next = Len(schema) + 1
    <2>1. at.next > Len(schema)
      BY <1>1, <1>2
    <2>2. at.next - 1 <= Len(schema)
      BY <1>1, <1>2
    <2> QED BY <1>1, <1>2, <2>1, <2>2
  <1>4. /\ schema' = Append(schema, at.next) /\ logged' = logged \cup {at.next}
        /\ runner' = [runner EXCEPT ![r] = Ran("loop", at.release, at.applied, at.next + 1)]
        /\ runs' = runs
    BY DEF CommitMigration, Moves
  <1>5. /\ Len(schema') = Len(schema) + 1
        /\ \A i \in 1..Len(schema) : schema'[i] = schema[i]
        /\ schema'[Len(schema) + 1] = at.next
        /\ schema' \in Seq(Nat) /\ DOMAIN schema' = 1..(Len(schema) + 1)
    BY <1>1, <1>2, <1>4
  <1>6. Ran("loop", at.release, at.applied, at.next + 1) \in RunnerStates
    BY <1>1 DEF RunnerStates, Ran
  <1>7. MigrateTypeOK'
    BY <1>1, <1>4, <1>5, <1>6 DEF MigrateIInv, MigrateTypeOK
  <1>8. SchemaIsTheLog'
    <2>1. logged' = 1..Len(schema')
      BY <1>2, <1>3, <1>4, <1>5
    <2>2. \A i \in DOMAIN schema' : schema'[i] = i
      <3>1. \A i \in 1..Len(schema) : schema[i] = i
        BY <1>2 DEF MigrateIInv, SchemaIsTheLog
      <3>2. \A i \in 1..Len(schema) : schema'[i] = i
        BY <1>5, <3>1
      <3>3. schema'[Len(schema) + 1] = Len(schema) + 1
        BY <1>3, <1>5
      <3> QED BY <1>2, <1>5, <3>2, <3>3
    <2> QED BY <2>1, <2>2 DEF SchemaIsTheLog
  <1>9. PassedAreLogged'
    <2> SUFFICES ASSUME NEW q \in Runners, runner'[q].pc # "exited"
                 PROVE  /\ runner'[q].next \in Nat \ {0}
                        /\ runner'[q].applied \subseteq logged'
                        /\ 1..(runner'[q].next - 1) \subseteq logged'
      BY DEF PassedAreLogged
    <2>1. CASE q = r
      <3>1. runner'[q].next = at.next + 1 /\ runner'[q].applied = at.applied
        BY <1>4, <2>1 DEF MigrateIInv, MigrateTypeOK, Ran
      <3> QED BY <1>1, <1>2, <1>3, <1>4, <3>1
    <2>2. CASE q # r
      BY <1>4, <2>2 DEF MigrateIInv, MigrateTypeOK, PassedAreLogged
    <2> QED BY <2>1, <2>2
  <1> QED BY <1>7, <1>8, <1>9 DEF MigrateIInv

LEMMA NextHolds == MigrateIInv /\ [MigrateNext]_migrateVars => MigrateIInv'
  <1> SUFFICES ASSUME MigrateIInv, [MigrateNext]_migrateVars PROVE MigrateIInv'
    OBVIOUS
  <1>t. \A r \in Runners : runner[r] \in RunnerStates
    BY DEF MigrateIInv, MigrateTypeOK
  <1>1. ASSUME NEW r \in Runners, NEW n \in Releases, Started(r, n) PROVE MigrateIInv'
    <2>1. Ran("loop", n, logged, 1) \in RunnerStates
      BY MigrationsAssumption DEF Ran, RunnerStates, MigrateIInv, MigrateTypeOK
    <2>2. Moves(r, Ran("loop", n, logged, 1)) /\ UNCHANGED <<schema, logged>> /\ runs' \in Nat
      BY <1>1 DEF Started, MigrateIInv, MigrateTypeOK
    <2>3. /\ Ran("loop", n, logged, 1).next \in Nat \ {0}
          /\ Ran("loop", n, logged, 1).applied \subseteq logged
          /\ 1..(Ran("loop", n, logged, 1).next - 1) \subseteq logged
      BY DEF Ran
    <2> QED BY <2>1, <2>2, <2>3, MoveHolds
  <1>2. ASSUME NEW r \in Runners, SkipApplied(r) PROVE MigrateIInv'
    <2> DEFINE to == [runner[r] EXCEPT !.next = @ + 1]
    <2>1. to \in RunnerStates
      BY <1>t DEF RunnerStates
    <2>2. Moves(r, to) /\ UNCHANGED <<schema, logged>> /\ runs' \in Nat
      BY <1>2 DEF SkipApplied, Keeps, MigrateIInv, MigrateTypeOK
    <2>3. to.next = runner[r].next + 1 /\ to.applied = runner[r].applied
      BY <1>t DEF RunnerStates
    <2>4. /\ runner[r].next \in Nat \ {0} /\ runner[r].next \in logged
          /\ 1..(runner[r].next - 1) \subseteq logged /\ runner[r].applied \subseteq logged
      BY <1>2 DEF SkipApplied, MigrateIInv, PassedAreLogged
    <2>5. 1..(to.next - 1) \subseteq logged
      BY <2>3, <2>4
    <2> HIDE DEF to
    <2> QED BY <2>1, <2>2, <2>3, <2>4, <2>5, MoveHolds
  <1>3. ASSUME NEW r \in Runners, RunSql(r) PROVE MigrateIInv'
    <2> DEFINE to == [runner[r] EXCEPT !.pc = "sql"]
    <2>1. to \in RunnerStates /\ to.next = runner[r].next /\ to.applied = runner[r].applied
      BY <1>t DEF RunnerStates
    <2>2. Moves(r, to) /\ UNCHANGED <<schema, logged>> /\ runs' \in Nat
      BY <1>3 DEF RunSql, Keeps, MigrateIInv, MigrateTypeOK
    <2>3. /\ runner[r].next \in Nat \ {0} /\ runner[r].applied \subseteq logged
          /\ 1..(runner[r].next - 1) \subseteq logged
      BY <1>3 DEF RunSql, MigrateIInv, PassedAreLogged
    <2> HIDE DEF to
    <2> QED BY <2>1, <2>2, <2>3, MoveHolds
  <1>4. ASSUME NEW r \in Runners, CommitMigration(r) PROVE MigrateIInv'
    BY <1>4, CommitHolds
  <1>5. ASSUME NEW r \in Runners, Quit(r) PROVE MigrateIInv'
    <2>1. Exited \in RunnerStates /\ Exited.pc = "exited"
      BY DEF Exited, Ran, RunnerStates
    <2>2. Moves(r, Exited) /\ UNCHANGED <<schema, logged>> /\ runs' \in Nat
      BY <1>5 DEF Quit, Keeps, MigrateIInv, MigrateTypeOK
    <2> QED BY <2>1, <2>2, MoveHolds
  <1>6. CASE UNCHANGED migrateVars
    BY <1>6 DEF migrateVars, MigrateIInv, MigrateTypeOK, SchemaIsTheLog, PassedAreLogged
  <1> QED BY <1>1, <1>2, <1>3, <1>4, <1>5, <1>6 DEF MigrateNext

(* The migrations that were run are those that are logged, each once and in    *)
(* order, whoever else was migrating and wherever they died (db/migrate.mjs).  *)
THEOREM SchemaFollowsLog == MigrateSpec => []SchemaIsTheLog
  <1>1. MigrateIInv => SchemaIsTheLog
    BY DEF MigrateIInv
  <1> QED BY MigrateInitHolds, NextHolds, <1>1, PTL DEF MigrateSpec

----------------------------------------------------------------------------
(* The key a price in hand is stored under.                                    *)
PointKey(r) == <<r, prices[r].observedAt, prices[r].source>>

NavTypeOK ==
  /\ now \in Nat /\ DOMAIN navPoint \subseteq 0..now
  /\ round \in [Feeds -> [raw : Int, at : Nat]] /\ \A f \in Feeds : round[f].at <= now
  /\ feedOf \in [Reps -> Feeds \cup {NoFeed}]
  /\ DOMAIN pricePoint \subseteq Reps \X Nat \X Feeds

(* An observation of a feed is of its latest answer, or of an earlier one.     *)
Observed(r, at, f, normalized) ==
  at <= round[f].at /\ (at = round[f].at => normalized = round[f].raw * Multiplier[r])

PointsObserved == \A k \in DOMAIN pricePoint : Observed(k[1], k[2], k[3], pricePoint[k].normalized)

InHand(r) ==
  /\ prices[r].source \in Feeds /\ prices[r].observedAt \in Nat /\ prices[r].readAt \in Nat
  /\ Observed(r, prices[r].observedAt, prices[r].source, prices[r].normalized)
  /\ prices[r].stale <=> prices[r].readAt - prices[r].observedAt > Heartbeat + Grace
  /\ PointKey(r) \in DOMAIN pricePoint => pricePoint[PointKey(r)].normalized = prices[r].normalized

(* A run has a price for each component it has read, and a stored point for    *)
(* each of those that is not waiting to be stored.                             *)
RunInOrder ==
  /\ DOMAIN prices \subseteq Reps /\ \A r \in DOMAIN prices : InHand(r)
  /\ pc \in {"idle", "pricing", "storing"}
  /\ pc = "idle" => DOMAIN prices = {}
  /\ pc = "pricing" => unread \subseteq Reps /\ DOMAIN prices = Reps \ unread
  /\ pc = "storing" => DOMAIN prices = Reps
  /\ \A r \in DOMAIN prices \ unstored : PointKey(r) \in DOMAIN pricePoint

NavIInv == NavTypeOK /\ PointsObserved /\ RunInOrder /\ NavRestsOnStoredPrices

LEMMA NavInit == ASSUME Init PROVE NavIInv
<1> USE NavAssumption DEF Init
<1>1. NavTypeOK
  <2>1. \A f \in Feeds : round[f] \in [raw : Int, at : Nat] /\ round[f].at = 0
    <3>1. \A f \in Feeds : round[f] \in [raw : Answers, at : {0}]
      OBVIOUS
    <3>2. \A f \in Feeds : /\ round[f] = [raw |-> round[f].raw, at |-> round[f].at]
                           /\ round[f].raw \in Int /\ round[f].at = 0
      BY <3>1
    <3>3. \A x \in Int : [raw |-> x, at |-> 0] \in [raw : Int, at : Nat]
      OBVIOUS
    <3> QED BY <3>2, <3>3
  <2> QED BY <2>1 DEF NavTypeOK, Empty, Reps
<1>2. PointsObserved /\ RunInOrder /\ NavRestsOnStoredPrices
  BY DEF PointsObserved, RunInOrder, NavRestsOnStoredPrices, Empty
<1> QED BY <1>1, <1>2 DEF NavIInv

(* A NAV on record stays explained while its row stays and no point is changed.*)
LEMMA StillExplained ==
  ASSUME NavTypeOK, NEW t \in DOMAIN navPoint, \E e \in Explanations(t) : Explains(e, t),
         DOMAIN pricePoint \subseteq DOMAIN pricePoint',
         \A k \in DOMAIN pricePoint : pricePoint'[k] = pricePoint[k],
         navPoint'[t] = navPoint[t]
  PROVE  (\E e \in Explanations(t) : Explains(e, t))'
<1>1. PICK e \in Explanations(t) : Explains(e, t)
  OBVIOUS
<1>2. e \in Explanations(t)'
  BY <1>1 DEF Explanations
<1>3. \A r \in Reps : e[r] \in DOMAIN pricePoint
  BY <1>1 DEF Explanations
<1>4. [r \in Reps |-> Components[r] * pricePoint'[e[r]].normalized]
        = [r \in Reps |-> Components[r] * pricePoint[e[r]].normalized]
  BY <1>3
<1>5. Worth(e)' = Worth(e)
  BY <1>4, Zenon DEF Worth
<1>6. Explains(e, t)'
  BY <1>5, <1>1 DEF Explains
<1> QED BY <1>2, <1>6

LEMMA NavsStay ==
  ASSUME NavTypeOK, NavRestsOnStoredPrices, navPoint' = navPoint,
         DOMAIN pricePoint \subseteq DOMAIN pricePoint',
         \A k \in DOMAIN pricePoint : pricePoint'[k] = pricePoint[k]
  PROVE  NavRestsOnStoredPrices'
<1> SUFFICES ASSUME NEW t \in DOMAIN navPoint'
             PROVE  (\E e \in Explanations(t) : Explains(e, t))'
  BY DEF NavRestsOnStoredPrices
<1>1. t \in DOMAIN navPoint /\ \E e \in Explanations(t) : Explains(e, t)
  BY DEF NavRestsOnStoredPrices
<1> QED BY <1>1, StillExplained

LEMMA TickKeeps == ASSUME NavIInv, Tick PROVE NavIInv'
<1> USE DEF NavIInv, Tick, runVars
<1>1. NavTypeOK'
  BY DEF NavTypeOK
<1>2. PointsObserved' /\ RunInOrder'
  BY DEF PointsObserved, RunInOrder, InHand, PointKey, Observed
<1>3. NavRestsOnStoredPrices'
  BY NavsStay
<1> QED BY <1>1, <1>2, <1>3

(* A run that begins or ends has nothing in hand.                              *)
LEMMA EmptyHanded ==
  ASSUME NavIInv, UNCHANGED <<now, round, active, feedOf, pricePoint, navPoint, disturbances>>,
         prices' = Empty, \/ pc' = "pricing" /\ unread' = Reps
                          \/ pc' = "idle"
  PROVE  NavIInv'
<1> USE DEF NavIInv
<1>1. NavTypeOK'
  BY DEF NavTypeOK
<1>2. PointsObserved'
  BY DEF PointsObserved, Observed
<1>3. RunInOrder'
  BY DEF RunInOrder, Empty
<1>4. NavRestsOnStoredPrices'
  BY NavsStay
<1> QED BY <1>1, <1>2, <1>3, <1>4

LEMMA GetPriceKeeps == ASSUME NavIInv, NEW r \in Reps, GetPrice(r) PROVE NavIInv'
<1> USE DEF NavIInv
<1>1. NavTypeOK' /\ PointsObserved'
  BY DEF GetPrice, NavTypeOK, PointsObserved, Observed
<1>2. NavRestsOnStoredPrices'
  BY NavsStay DEF GetPrice
<1>3. feedOf[r] \in Feeds /\ round[feedOf[r]] \in [raw : Int, at : Nat] /\ round[feedOf[r]].at \in Nat
  BY DEF GetPrice, Priceable, NavTypeOK
<1>4. /\ DOMAIN prices' = DOMAIN prices \cup {r} /\ prices'[r] = Price(r)
      /\ \A q \in DOMAIN prices \ {r} : prices'[q] = prices[q]
      /\ r \notin DOMAIN prices /\ unstored' = unstored \cup {r}
  BY DEF GetPrice, RunInOrder
<1>5. \A q \in DOMAIN prices : InHand(q)'
  BY <1>4 DEF GetPrice, RunInOrder, InHand, PointKey, Observed
<1>6. InHand(r)'
  <2>1. /\ prices'[r].source = feedOf[r] /\ prices'[r].observedAt = round[feedOf[r]].at
        /\ prices'[r].normalized = round[feedOf[r]].raw * Multiplier[r]
        /\ prices'[r].stale = (now - round[feedOf[r]].at > Heartbeat + Grace)
        /\ prices'[r].readAt = now
    BY <1>4 DEF Price, Stale
  <2>2. pricePoint' = pricePoint /\ round' = round
    BY DEF GetPrice
  <2>3. PointKey(r)' = <<r, round[feedOf[r]].at, feedOf[r]>>
    BY <2>1 DEF PointKey
  <2>4. ASSUME <<r, round[feedOf[r]].at, feedOf[r]>> \in DOMAIN pricePoint
        PROVE  pricePoint[<<r, round[feedOf[r]].at, feedOf[r]>>].normalized = round[feedOf[r]].raw * Multiplier[r]
    BY <2>4 DEF PointsObserved, Observed
  <2>5. prices'[r].source \in Feeds /\ prices'[r].observedAt \in Nat /\ prices'[r].readAt \in Nat
    BY <2>1, <1>3 DEF NavTypeOK
  <2>6. Observed(r, prices[r].observedAt, prices[r].source, prices[r].normalized)'
    BY <2>1, <2>2, <1>3 DEF Observed
  <2>7. (prices[r].stale <=> prices[r].readAt - prices[r].observedAt > Heartbeat + Grace)'
    BY <2>1
  <2>8. (PointKey(r) \in DOMAIN pricePoint => pricePoint[PointKey(r)].normalized = prices[r].normalized)'
    BY <2>1, <2>2, <2>3, <2>4
  <2> QED BY <2>5, <2>6, <2>7, <2>8 DEF InHand
<1>7. RunInOrder'
  <2>1. \A q \in DOMAIN prices' : InHand(q)'
    BY <1>4, <1>5, <1>6
  <2>2. \A q \in DOMAIN prices' \ unstored' : PointKey(q)' \in DOMAIN pricePoint'
    BY <1>4 DEF GetPrice, RunInOrder, PointKey
  <2>3. DOMAIN prices' \subseteq Reps /\ pc' \in {"idle", "pricing", "storing"}
        /\ (pc' = "idle" => DOMAIN prices' = {}) /\ (pc' = "storing" => DOMAIN prices' = Reps)
        /\ (pc' = "pricing" => unread' \subseteq Reps /\ DOMAIN prices' = Reps \ unread')
    BY <1>4 DEF GetPrice, RunInOrder
  <2> QED BY <2>1, <2>2, <2>3 DEF RunInOrder
<1> QED BY <1>1, <1>2, <1>7

LEMMA RecordPriceKeeps == ASSUME NavIInv, NEW r \in Reps, RecordPrice(r) PROVE NavIInv'
<1> USE DEF NavIInv
<1> DEFINE row == [normalized |-> prices[r].normalized, raw |-> prices[r].raw,
                   stale |-> prices[r].stale]
<1>1. r \in DOMAIN prices /\ InHand(r)
  BY DEF RecordPrice, RunInOrder
<1>2. /\ DOMAIN pricePoint' = DOMAIN pricePoint \cup {PointKey(r)}
      /\ \A k \in DOMAIN pricePoint : pricePoint'[k] = pricePoint[k]
      /\ PointKey(r) \notin DOMAIN pricePoint => pricePoint'[PointKey(r)] = row
  BY DEF RecordPrice, InsertOnce, PointKey
<1>3. pricePoint'[PointKey(r)].normalized = prices[r].normalized
  BY <1>1, <1>2 DEF InHand
<1>4. NavTypeOK'
  BY <1>1, <1>2 DEF RecordPrice, NavTypeOK, InHand, PointKey
<1>5. PointsObserved'
  BY <1>1, <1>2, <1>3 DEF RecordPrice, PointsObserved, Observed, InHand, PointKey
<1>6. RunInOrder'
  <2>1. \A q \in DOMAIN prices : PointKey(q)' = PointKey(q)
    BY DEF RecordPrice, PointKey
  <2>2. \A q \in DOMAIN prices : PointKey(q) = PointKey(r) => q = r
    BY DEF PointKey
  <2>3. \A q \in DOMAIN prices : InHand(q)'
    BY <1>2, <1>3, <2>1, <2>2 DEF RecordPrice, RunInOrder, InHand, Observed
  <2>4. \A q \in DOMAIN prices \ (unstored \ {r}) : PointKey(q) \in DOMAIN pricePoint'
    BY <1>2 DEF RunInOrder
  <2> QED BY <2>1, <2>3, <2>4 DEF RecordPrice, RunInOrder
<1>7. NavRestsOnStoredPrices'
  BY <1>2, NavsStay DEF RecordPrice
<1> QED BY <1>4, <1>5, <1>6, <1>7

LEMMA RecordNavKeeps == ASSUME NavIInv, RecordNav PROVE NavIInv'
<1> USE DEF NavIInv
<1> DEFINE nav == ReferenceNav(Components, prices)
<1>1. /\ DOMAIN prices = Reps /\ unstored = {} /\ \A r \in Reps : InHand(r)
      /\ \A r \in Reps : PointKey(r) \in DOMAIN pricePoint
  BY DEF RecordNav, MayRecordNav, RunInOrder
<1>2. /\ DOMAIN navPoint' = DOMAIN navPoint \cup {now}
      /\ \A t \in DOMAIN navPoint : navPoint'[t] = navPoint[t]
      /\ now \notin DOMAIN navPoint => navPoint'[now] = nav
  BY DEF RecordNav, InsertOnce
<1>3. NavTypeOK'
  BY <1>2 DEF RecordNav, NavTypeOK
<1>4. PointsObserved' /\ RunInOrder'
  BY DEF RecordNav, PointsObserved, RunInOrder, Empty, Observed
<1>5. pricePoint' = pricePoint
  BY DEF RecordNav
<1>6. ASSUME now \notin DOMAIN navPoint
      PROVE  (\E e \in Explanations(now) : Explains(e, now))'
  <2> PICK e : e = [r \in Reps |-> PointKey(r)]
    OBVIOUS
  <2>1. navPoint'[now].basis = [r \in Reps |-> prices[r].source]
    BY <1>1, <1>2, <1>6 DEF ReferenceNav, PricedIn, Reps
  <2>2. navPoint'[now].value = SumFunction([r \in Reps |-> Components[r] * prices[r].normalized])
    <3>1. navPoint'[now].value = NavValue(Components, prices)
      BY <1>2, <1>6 DEF ReferenceNav
    <3>2. PricedIn(Components, prices) = Reps
      BY <1>1 DEF PricedIn, Reps
    <3> QED BY <3>1, <3>2 DEF NavValue
  <2>3. \A r \in Reps : PointKey(r)[2] <= now /\ PointKey(r)[3] = prices[r].source /\ PointKey(r)[1] = r
    <3> SUFFICES ASSUME NEW r \in Reps PROVE prices[r].observedAt <= now
      BY DEF PointKey
    <3>1. /\ prices[r].source \in Feeds /\ prices[r].observedAt \in Nat
          /\ prices[r].observedAt <= round[prices[r].source].at
      BY <1>1 DEF InHand, Observed
    <3>2. round[prices[r].source].at \in Nat /\ round[prices[r].source].at <= now /\ now \in Nat
      BY <3>1 DEF NavTypeOK
    <3> QED BY <3>1, <3>2
  <2>4. \A r \in Reps : PointKey(r) \in {k \in DOMAIN pricePoint :
            k[2] <= now /\ k[3] = navPoint'[now].basis[k[1]]}
    BY <2>1, <2>3, <1>1
  <2>5. e \in {x \in [Reps -> {k \in DOMAIN pricePoint :
                                 k[2] <= now /\ k[3] = navPoint'[now].basis[k[1]]}] :
                 \A r \in Reps : x[r][1] = r}
    BY <2>3, <2>4
  <2>6. e \in Explanations(now)'
    BY <2>5, <1>5 DEF Explanations, RecordNav
  <2>7. [r \in Reps |-> Components[r] * pricePoint[e[r]].normalized]
          = [r \in Reps |-> Components[r] * prices[r].normalized]
    BY <1>1 DEF InHand
  <2>8. Worth(e)' = SumFunction([r \in Reps |-> Components[r] * pricePoint[e[r]].normalized])
    BY <1>5 DEF Worth
  <2>9. Explains(e, now)'
    BY <2>2, <2>7, <2>8, <1>5 DEF Explains, RecordNav
  <2> QED BY <2>6, <2>9 DEF RecordNav
<1>7. NavRestsOnStoredPrices'
  <2> SUFFICES ASSUME NEW t \in DOMAIN navPoint'
               PROVE  (\E e \in Explanations(t) : Explains(e, t))'
    BY DEF NavRestsOnStoredPrices
  <2>1. CASE t \in DOMAIN navPoint
    BY <2>1, <1>2, <1>5, StillExplained DEF NavRestsOnStoredPrices
  <2>2. CASE t \notin DOMAIN navPoint
    <3>1. t = now' /\ now \notin DOMAIN navPoint
      BY <2>2, <1>2 DEF RecordNav
    <3>2. t = now
      BY <2>2, <1>2
    <3> QED BY <3>1, <3>2, <1>6
  <2> QED BY <2>1, <2>2
<1> QED BY <1>3, <1>4, <1>7

LEMMA DisturbKeeps == ASSUME NavIInv, Disturb PROVE NavIInv'
<1> USE DEF NavIInv
<1>1. UNCHANGED <<now, pricePoint, navPoint, pc, unread, prices, unstored>>
  BY DEF Disturb, runVars
<1>2. NavRestsOnStoredPrices'
  BY <1>1, NavsStay
<1>3. /\ round' \in [Feeds -> [raw : Int, at : Nat]]
      /\ feedOf' \in [Reps -> Feeds \cup {NoFeed}]
      /\ \A f \in Feeds : round'[f] = round[f] \/ (round[f].at < now /\ round'[f].at = now)
  <2>1. CASE \E f \in Feeds, x \in Answers :
               /\ round[f].at < now
               /\ round' = [round EXCEPT ![f] = [raw |-> x, at |-> now]]
               /\ UNCHANGED <<active, feedOf>>
    <3>1. PICK f \in Feeds, x \in Answers :
               /\ round[f].at < now
               /\ round' = [round EXCEPT ![f] = [raw |-> x, at |-> now]]
               /\ UNCHANGED <<active, feedOf>>
      BY <2>1
    <3>2. [raw |-> x, at |-> now] \in [raw : Int, at : Nat]
      BY NavAssumption DEF NavTypeOK
    <3> QED BY <3>1, <3>2 DEF NavTypeOK
  <2>2. CASE round' = round
    BY <2>2 DEF Disturb, NavTypeOK
  <2> QED BY <2>1, <2>2 DEF Disturb
<1>4. \A f \in Feeds : round[f].at \in Nat /\ round[f].at <= round'[f].at /\ round'[f].at <= now
        /\ (round'[f].at = round[f].at => round'[f] = round[f])
  BY <1>3 DEF NavTypeOK
<1>5. NavTypeOK'
  BY <1>1, <1>3, <1>4 DEF NavTypeOK
<1>6. \A r, normalized : \A at \in Nat, f \in Feeds :
        Observed(r, at, f, normalized) => Observed(r, at, f, normalized)'
  <2> SUFFICES ASSUME NEW r, NEW normalized, NEW at \in Nat, NEW f \in Feeds,
                      Observed(r, at, f, normalized)
               PROVE  at <= round'[f].at /\ (at = round'[f].at => normalized = round'[f].raw * Multiplier[r])
    BY DEF Observed
  <2>1. round'[f].at \in Nat /\ round[f].at \in Nat
    BY <1>3, <1>4 DEF NavTypeOK
  <2> QED BY <1>4, <2>1 DEF Observed
<1>7. PointsObserved'
  BY <1>1, <1>6 DEF PointsObserved, NavTypeOK
<1>8. RunInOrder'
  <2>1. \A r \in DOMAIN prices : InHand(r)'
    BY <1>1, <1>6 DEF RunInOrder, InHand, PointKey
  <2>2. \A r \in DOMAIN prices : PointKey(r)' = PointKey(r)
    BY <1>1 DEF PointKey
  <2> QED BY <1>1, <2>1, <2>2 DEF RunInOrder
<1> QED BY <1>2, <1>5, <1>7, <1>8

LEMMA NavStep == ASSUME NavIInv, [Next]_navVars PROVE NavIInv'
<1>1. CASE Tick
  BY <1>1, TickKeeps
<1>2. CASE WorkerStep
  <2>1. CASE Begin \/ GetPricesFails
    BY <2>1, EmptyHanded DEF Begin, GetPricesFails, Abandon
  <2>2. CASE \E r \in Reps : GetPrice(r) \/ RecordPrice(r)
    BY <2>2, GetPriceKeeps, RecordPriceKeeps
  <2>3. CASE RecordNav
    BY <2>3, RecordNavKeeps
  <2> QED BY <1>2, <2>1, <2>2, <2>3 DEF WorkerStep
<1>3. CASE Stop
  BY <1>3, EmptyHanded DEF Stop, Abandon
<1>4. CASE Disturb
  BY <1>4, DisturbKeeps
<1>5. CASE UNCHANGED navVars
  <2>1. UNCHANGED <<now, round, feedOf, pricePoint, navPoint, pc, unread, prices, unstored>>
    BY <1>5 DEF navVars, runVars
  <2>2. NavTypeOK' /\ PointsObserved' /\ RunInOrder'
    BY <2>1 DEF NavIInv, NavTypeOK, PointsObserved, RunInOrder, InHand, PointKey, Observed
  <2>3. NavRestsOnStoredPrices'
    BY <2>1, NavsStay DEF NavIInv
  <2> QED BY <2>2, <2>3 DEF NavIInv
<1> QED BY <1>1, <1>2, <1>3, <1>4, <1>5 DEF Next

LEMMA NavInvariant == Spec => []NavIInv
<1> QED BY NavInit, NavStep, PTL DEF Spec

(* Every NAV on record rests on stored prices of each component, wherever runs *)
(* were cut short and whatever feeds and registry did (materializeToken).      *)
THEOREM NavsAreExplained == Spec => []NavRestsOnStoredPrices
<1>1. NavIInv => NavRestsOnStoredPrices
  BY DEF NavIInv
<1> QED BY <1>1, NavInvariant, PTL

(* A step that stores a NAV is RecordNav, with a price in hand for each component. *)
LEMMA FreshStep ==
  ASSUME NavIInv, [Next]_navVars,
         NEW t \in DOMAIN navPoint' \ DOMAIN navPoint, ~navPoint'[t].degraded, NEW r \in Reps
  PROVE  prices[r].readAt - prices[r].observedAt <= Heartbeat + Grace
<1>1. RecordNav
  BY DEF Next, navVars, Tick, WorkerStep, Begin, GetPrice, RecordPrice, GetPricesFails, Abandon,
         Stop, Disturb
<1>2. navPoint'[t] = ReferenceNav(Components, prices) /\ r \in DOMAIN prices /\ InHand(r)
  BY <1>1 DEF RecordNav, InsertOnce, NavIInv, RunInOrder
<1>3. ~prices[r].stale
  BY <1>2 DEF ReferenceNav, NavDegraded, Reps
<1>4. prices[r].readAt \in Int /\ prices[r].observedAt \in Int
  BY <1>2 DEF InHand
<1> QED BY <1>2, <1>3, <1>4, NavAssumption DEF InHand

(* No step stores an undegraded NAV of a price that was older than heartbeat   *)
(* and grace when it was read (getPrice, computeReferenceNav).                 *)
THEOREM OnlyFreshIsUndegraded == Spec => UndegradedIsFresh
<1>1. ASSUME NavIInv, [Next]_navVars
      PROVE  [ \A t \in DOMAIN navPoint' \ DOMAIN navPoint :
                 ~navPoint'[t].degraded =>
                   \A r \in Reps : prices[r].readAt - prices[r].observedAt <= Heartbeat + Grace ]_navVars
  BY <1>1, FreshStep
<1> QED BY <1>1, NavInvariant, PTL DEF Spec, UndegradedIsFresh

----------------------------------------------------------------------------
(* A set of times up to n has a first and a last.                              *)
LEMMA LatestIs ==
  ASSUME NEW n \in Nat, NEW T, T \subseteq 0..n, T # {}
  PROVE  Latest(T) \in T /\ \A y \in T : y <= Latest(T)
<1>1. \E x \in T : \A y \in T : y <= x
  BY Greatest
<1> QED BY <1>1 DEF Latest

LEMMA EarliestIs ==
  ASSUME NEW T, T \subseteq Nat, T # {}
  PROVE  Earliest(T) \in T /\ \A y \in T : Earliest(T) <= y
<1>1. \E x \in T : \A y \in T : x <= y
  BY Least
<1> QED BY <1>1 DEF Earliest

(* A point is found whenever one is old enough.                                *)
LEMMA PointFound ==
  ASSUME NEW n \in Nat, NEW T, T \subseteq 0..n, NEW target \in Int, NEW t \in T, t <= target
  PROVE  AtOrBefore(T, target) # {}
<1>1. {u \in T : u <= target} \subseteq 0..n /\ {u \in T : u <= target} # {}
  OBVIOUS
<1>2. PICK x \in {u \in T : u <= target} : \A y \in {u \in T : u <= target} : y <= x
  BY <1>1, Greatest
<1>3. x \in AtOrBefore(T, target)
  BY <1>2 DEF AtOrBefore
<1> QED BY <1>3

LEMMA SinceMintIsOne ==
  ASSUME NEW n \in Nat, NEW T, T \subseteq 0..n, T # {}, NEW mintedAt \in Nat
  PROVE  \E x \in T : SinceMint(T, mintedAt) = {x}
<1>1. CASE AtOrBefore(T, mintedAt) # {}
  <2>1. PICK x : x \in AtOrBefore(T, mintedAt)
    BY <1>1
  <2>2. \A y \in AtOrBefore(T, mintedAt) : y = x
    BY <2>1 DEF AtOrBefore
  <2>3. AtOrBefore(T, mintedAt) = {x} /\ x \in T
    BY <2>1, <2>2 DEF AtOrBefore
  <2> QED BY <1>1, <2>3 DEF SinceMint
<1>2. CASE AtOrBefore(T, mintedAt) = {}
  <2>1. T \subseteq Nat
    OBVIOUS
  <2>2. Earliest(T) \in T
    BY <2>1, EarliestIs
  <2> QED BY <1>2, <2>2 DEF SinceMint
<1> QED BY <1>1, <1>2

(* The points that are shown, one by one.                                      *)
LEMMA ShownPoints ==
  ASSUME NEW history, NEW at, NEW mintedAt, DOMAIN history # {}
  PROVE  \A p : p \in PerformanceWindows(history, at, mintedAt) <=>
           \/ \E w \in Windows : \E from \in AtOrBefore(DOMAIN history, at - w) :
                p = PerformancePoint(history, w, from)
           \/ \E from \in SinceMint(DOMAIN history, mintedAt) :
                p = PerformancePoint(history, SinceMintWindow, from)
<1>1. \A p : p \in FixedWindows(history, at) <=>
              \E w \in Windows : \E from \in AtOrBefore(DOMAIN history, at - w) :
                p = PerformancePoint(history, w, from)
  BY SMT DEF FixedWindows
<1>2. \A p : p \in PerformanceWindows(history, at, mintedAt) <=>
              \/ p \in FixedWindows(history, at)
              \/ p \in {PerformancePoint(history, SinceMintWindow, from) :
                          from \in SinceMint(DOMAIN history, mintedAt)}
  BY Zenon DEF PerformanceWindows
<1> QED BY <1>1, <1>2, Zenon

LEMMA HonestStep == ASSUME NavIInv PROVE WindowsAreHonest
<1> DEFINE times == DOMAIN navPoint
           shown == PerformanceWindows(History, now, MintedAt)
           last == Latest(times)
<1>1. times \subseteq 0..now /\ now \in Nat /\ DOMAIN History = times
  BY DEF NavIInv, NavTypeOK, History
<1>2. CASE times = {}
  <2>1. shown = {}
    BY <1>2, <1>1 DEF PerformanceWindows
  <2> QED BY <1>2, <2>1 DEF WindowsAreHonest
<1>3. CASE times # {}
  <2> DEFINE point(w, from) == PerformancePoint(History, w, from)
  <2>1. \A w, from : /\ point(w, from).window = w /\ point(w, from).from = from
                     /\ point(w, from).to = last
                     /\ point(w, from).change = Change(History[from], History[last])
    BY <1>1 DEF PerformancePoint
  <2>2. \A p : p \in shown <=>
           \/ \E w \in Windows : \E from \in AtOrBefore(times, now - w) : p = point(w, from)
           \/ \E from \in SinceMint(times, MintedAt) : p = point(SinceMintWindow, from)
    BY <1>1, <1>3, ShownPoints
  <2>3. last \in times /\ \A t \in times : t <= last
    BY <1>1, <1>3, LatestIs
  <2>4. PICK mint \in times : SinceMint(times, MintedAt) = {mint}
    BY <1>1, <1>3, SinceMintIsOne, NavAssumption
  <2>5. \A from, to : Change(from, to)[2] # 0
    BY DEF Change
  <2>6. \A w \in Windows : w \in Nat /\ w # SinceMintWindow
    BY NavAssumption DEF SinceMintWindow
  <2> HIDE DEF point, shown, times, last
  <2>7. ASSUME NEW p \in shown
        PROVE  \/ /\ p.window \in Windows /\ p.from \in AtOrBefore(times, now - p.window)
                  /\ p = point(p.window, p.from)
               \/ p.window = SinceMintWindow /\ p = point(SinceMintWindow, mint)
    BY <2>1, <2>2, <2>4
  <2>8. ASSUME NEW p \in shown
        PROVE  p.to \in times /\ p.from \in times /\ p.change[2] # 0 /\ \A t \in times : t <= p.to
    <3>1. p.to = last /\ p.change[2] # 0 /\ p.from \in times
      BY <2>1, <2>4, <2>5, <2>7 DEF AtOrBefore
    <3> QED BY <3>1, <2>3
  <2>9. ASSUME NEW p \in shown, p.window # SinceMintWindow
        PROVE  now - p.from >= p.window /\ \A t \in times : t > p.from => now - t < p.window
    <3>1. p.window \in Nat /\ p.from \in AtOrBefore(times, now - p.window)
      BY <2>6, <2>7, <2>9
    <3>2. \A t \in times : t \in Nat
      BY <1>1 DEF times
    <3>3. /\ p.from \in times /\ p.from <= now - p.window
          /\ \A t \in times : t <= now - p.window => t <= p.from
      BY <3>1 DEF AtOrBefore
    <3>4. p.from \in Nat /\ p.window \in Nat /\ now \in Nat
      BY <3>1, <3>2, <3>3, <1>1
    <3>5. now - p.from >= p.window
      BY <3>3, <3>4
    <3>6. ASSUME NEW t \in times, t > p.from PROVE now - t < p.window
      <4>1. t \in Nat /\ ~ (t <= now - p.window)
        BY <3>2, <3>3, <3>4, <3>6
      <4> QED BY <4>1, <3>4
    <3> QED BY <3>5, <3>6
  <2>10. ASSUME NEW p \in shown, NEW q \in shown, p.window \in Windows, q.window \in Windows,
                p.window <= q.window
         PROVE  q.from <= p.from
    <3>1. /\ p.window \in Nat /\ p.from \in AtOrBefore(times, now - p.window)
          /\ q.window \in Nat /\ q.from \in AtOrBefore(times, now - q.window)
      BY <2>6, <2>7, <2>10
    <3>2. q.from \in times /\ q.from <= now - q.window /\ q.from \in Nat
      BY <3>1, <1>1 DEF AtOrBefore, times
    <3>3. q.from <= now - p.window
      BY <3>1, <3>2, <2>10, <1>1
    <3> QED BY <3>1, <3>2, <3>3 DEF AtOrBefore
  <2>11. ASSUME NEW t \in times, NEW w \in Windows, now - t >= w
         PROVE  \E p \in shown : p.window = w
    <3>1. t \in Nat /\ w \in Nat /\ t <= now - w /\ now - w \in Int /\ times \subseteq 0..now
      BY <2>6, <2>11, <1>1 DEF times
    <3>2. PICK from : from \in AtOrBefore(times, now - w)
      BY <3>1, <1>1, PointFound
    <3>3. point(w, from) \in shown
      BY <2>2, <3>2
    <3> QED BY <3>3, <2>1
  <2>12. \E p \in shown : /\ p.window = SinceMintWindow
                          /\ \A q \in shown : q.window = SinceMintWindow => q = p
    <3>1. point(SinceMintWindow, mint) \in shown
      BY <2>2, <2>4
    <3>2. \A q \in shown : q.window = SinceMintWindow => q = point(SinceMintWindow, mint)
      BY <2>6, <2>7
    <3> QED BY <3>1, <3>2, <2>1
  <2> QED BY <2>8, <2>9, <2>10, <2>11, <2>12 DEF WindowsAreHonest, shown, times
<1> QED BY <1>2, <1>3

(* The windows shown are honest, whatever was stored when, for any windows and *)
(* any time of mint (computePerformanceWindows).                               *)
THEOREM WindowsHonest == Spec => []WindowsAreHonest
<1> QED BY HonestStep, NavInvariant, PTL

----------------------------------------------------------------------------
(* A comparator a stable sort can use: rows that compare equal are one class.  *)
Comparator(ahead, places) ==
  /\ \A i, j \in places : <<i, j>> \in ahead => <<j, i>> \notin ahead
  /\ \A i, j, k \in places : <<i, k>> \in ahead => <<i, j>> \in ahead \/ <<j, k>> \in ahead

LEMMA FirstIsOrder ==
  ASSUME NEW places, places \subseteq Nat, NEW ahead, Comparator(ahead, places),
         NEW i \in places, NEW j \in places, NEW k \in places
  PROVE  /\ ~First(ahead, i, i)
         /\ i # j => First(ahead, i, j) \/ First(ahead, j, i)
         /\ First(ahead, i, j) => ~First(ahead, j, i)
         /\ First(ahead, i, j) /\ First(ahead, j, k) => First(ahead, i, k)
<1>1. i \in Nat /\ j \in Nat /\ k \in Nat
  OBVIOUS
<1>2. ~First(ahead, i, i) /\ (First(ahead, i, j) => ~First(ahead, j, i))
  BY <1>1 DEF First, Comparator
<1>3. i # j => First(ahead, i, j) \/ First(ahead, j, i)
  BY <1>1 DEF First, Comparator
<1>4. First(ahead, i, j) /\ First(ahead, j, k) => First(ahead, i, k)
  <2>1. /\ <<i, j>> \in ahead => <<j, i>> \notin ahead
        /\ <<j, k>> \in ahead => <<k, j>> \notin ahead
        /\ <<i, k>> \in ahead => <<k, i>> \notin ahead
        /\ <<i, j>> \in ahead => <<i, k>> \in ahead \/ <<k, j>> \in ahead
        /\ <<j, k>> \in ahead => <<j, i>> \in ahead \/ <<i, k>> \in ahead
        /\ <<k, i>> \in ahead => <<k, j>> \in ahead \/ <<j, i>> \in ahead
    BY DEF Comparator
  <2> QED BY <1>1, <2>1 DEF First
<1> QED BY <1>2, <1>3, <1>4

(* How many places come first.                                                 *)
Rank(places, ahead, i) == Cardinality({j \in places : First(ahead, j, i)})

LEMMA RankGrows ==
  ASSUME NEW places, places \subseteq Nat, IsFiniteSet(places),
         NEW ahead, Comparator(ahead, places),
         NEW i \in places, NEW j \in places, First(ahead, i, j)
  PROVE  Rank(places, ahead, i) < Rank(places, ahead, j)
<1> DEFINE to(x) == {y \in places : First(ahead, y, x)}
<1>1. IsFiniteSet(to(i)) /\ IsFiniteSet(to(j))
  <2>1. to(i) \in SUBSET places /\ to(j) \in SUBSET places
    OBVIOUS
  <2> HIDE DEF to
  <2> QED BY <2>1, FS_Subset
<1>2. to(i) \subseteq to(j) \ {i} /\ i \in to(j)
  <2>1. i \notin to(i)
    BY FirstIsOrder
  <2>2. \A x \in to(i) : x \in to(j)
    BY FirstIsOrder
  <2> QED BY <2>1, <2>2
<1> HIDE DEF to
<1>3. IsFiniteSet(to(j) \ {i}) /\ Cardinality(to(j) \ {i}) = Cardinality(to(j)) - 1
  BY <1>1, <1>2, FS_RemoveElement
<1>4. Cardinality(to(i)) <= Cardinality(to(j) \ {i})
  BY <1>2, <1>3, FS_Subset
<1>5. Cardinality(to(i)) \in Nat /\ Cardinality(to(j)) \in Nat
  BY <1>1, FS_CardinalityType
<1>6. Cardinality(to(i)) < Cardinality(to(j))
  BY <1>3, <1>4, <1>5
<1> QED BY <1>6 DEF Rank, to

LEMMA RankType ==
  ASSUME NEW places, places \subseteq Nat, IsFiniteSet(places),
         NEW ahead, Comparator(ahead, places), NEW i \in places
  PROVE  Rank(places, ahead, i) \in 0..Cardinality(places) - 1
<1> DEFINE to == {y \in places : First(ahead, y, i)}
<1>1. to \in SUBSET (places \ {i})
  BY FirstIsOrder
<1>2. IsFiniteSet(places \ {i}) /\ Cardinality(places \ {i}) = Cardinality(places) - 1
  BY FS_RemoveElement
<1> HIDE DEF to
<1>3. IsFiniteSet(to) /\ Cardinality(to) <= Cardinality(places \ {i})
  BY <1>1, <1>2, FS_Subset
<1>4. Cardinality(to) \in Nat /\ Cardinality(places) \in Nat
  BY <1>3, FS_CardinalityType
<1>5. Cardinality(to) \in 0..Cardinality(places) - 1
  BY <1>2, <1>3, <1>4
<1> QED BY <1>5 DEF Rank, to

LEMMA SameRank ==
  ASSUME NEW places, places \subseteq Nat, IsFiniteSet(places),
         NEW ahead, Comparator(ahead, places),
         NEW i \in places, NEW j \in places, Rank(places, ahead, i) = Rank(places, ahead, j)
  PROVE  i = j
<1>1. Cardinality(places) \in Nat /\ Rank(places, ahead, i) \in Int
  <2>1. Rank(places, ahead, i) \in 0..Cardinality(places) - 1
    BY RankType
  <2> QED BY <2>1, FS_CardinalityType
<1>2. ASSUME First(ahead, i, j) PROVE FALSE
  <2>1. Rank(places, ahead, i) < Rank(places, ahead, j)
    BY <1>2, RankGrows
  <2> QED BY <1>1, <2>1
<1>3. ASSUME First(ahead, j, i) PROVE FALSE
  <2>1. Rank(places, ahead, j) < Rank(places, ahead, i)
    BY <1>3, RankGrows
  <2> QED BY <1>1, <2>1
<1> QED BY <1>2, <1>3, FirstIsOrder

(* Each rank is some place's: they are as many, and no two have the same.      *)
LEMMA RankTaken ==
  ASSUME NEW places, places \subseteq Nat, IsFiniteSet(places),
         NEW ahead, Comparator(ahead, places), NEW k \in 0..Cardinality(places) - 1
  PROVE  \E i \in places : Rank(places, ahead, i) = k
<1> DEFINE n == Cardinality(places)
           rank == [i \in places |-> Rank(places, ahead, i)]
<1>1. n \in Nat
  BY FS_CardinalityType
<1>2. rank \in [places -> 0..n-1]
  BY RankType
<1>3. ASSUME NEW i \in places, NEW j \in places, rank[i] = rank[j] PROVE i = j
  <2>1. Rank(places, ahead, i) = Rank(places, ahead, j)
    BY <1>3
  <2> QED BY <2>1, SameRank
<1> HIDE DEF rank
<1>4. rank \in Injection(places, 0..n-1)
  BY <1>2, <1>3 DEF Injection, IsInjective
<1>5. IsFiniteSet(0..n-1) /\ Cardinality(0..n-1) = n
  <2> HIDE DEF n
  <2> DEFINE m == n - 1
  <2>1. m \in Int /\ 0 \in Int
    BY <1>1
  <2> HIDE DEF m
  <2>2. IsFiniteSet(0..m) /\ Cardinality(0..m) = IF 0 > m THEN 0 ELSE m - 0 + 1
    BY <2>1, FS_Interval
  <2> QED BY <1>1, <2>2 DEF m
<1>6. rank \in Surjection(places, 0..n-1)
  BY <1>4, <1>5, FS_Injection
<1>7. PICK i \in places : rank[i] = k
  BY <1>6 DEF Surjection
<1> QED BY <1>7 DEF rank

(* A sorted list has each place once, and none before one that is ahead of it. *)
LEMMA SortedIs ==
  ASSUME NEW places, places \subseteq Nat, IsFiniteSet(places),
         NEW ahead, Comparator(ahead, places)
  PROVE  LET s == Sorted(places, ahead) IN
         /\ s \in Seq(places) /\ Len(s) = Cardinality(places) /\ Range(s) = places
         /\ \A i, j \in DOMAIN s : i < j => <<s[j], s[i]>> \notin ahead
<1> DEFINE n == Cardinality(places)
<1> PICK s : s = Sorted(places, ahead)
  OBVIOUS
<1> DEFINE at(k) == CHOOSE i \in places : Rank(places, ahead, i) = k - 1
<1>1. n \in Nat
  BY FS_CardinalityType
<1>0. s = [k \in 1..n |-> at(k)]
  BY Zenon DEF Sorted, Rank
<1>2. ASSUME NEW k \in 1..n PROVE s[k] \in places /\ Rank(places, ahead, s[k]) = k - 1
  <2>1. k - 1 \in 0..n-1
    BY <1>1
  <2>2. \E i \in places : Rank(places, ahead, i) = k - 1
    BY <2>1, RankTaken
  <2>3. s[k] = at(k)
    BY <1>0
  <2> QED BY <2>2, <2>3
<1> HIDE DEF at
<1>3. DOMAIN s = 1..n /\ s = [k \in 1..n |-> s[k]]
  BY <1>0
<1>4. s \in Seq(places) /\ Len(s) = n
  <2>1. s \in [1..n -> places]
    BY <1>2, <1>3
  <2> QED BY <1>1, <2>1
<1> HIDE DEF n
<1>5. ASSUME NEW i \in places PROVE \E k \in 1..n : s[k] = i
  <2>1. Rank(places, ahead, i) \in 0..n-1
    BY RankType DEF n
  <2>2. PICK k \in 1..n : k - 1 = Rank(places, ahead, i)
    <3>1. Rank(places, ahead, i) + 1 \in 1..n /\ (Rank(places, ahead, i) + 1) - 1 = Rank(places, ahead, i)
      BY <1>1, <2>1
    <3> QED BY <3>1
  <2>3. s[k] \in places /\ Rank(places, ahead, s[k]) = Rank(places, ahead, i)
    BY <1>2, <2>2
  <2>4. s[k] = i
    BY <2>3, SameRank
  <2> QED BY <2>4
<1>6. Range(s) = places
  BY <1>2, <1>3, <1>5 DEF Range
<1>7. ASSUME NEW i \in DOMAIN s, NEW j \in DOMAIN s, i < j PROVE <<s[j], s[i]>> \notin ahead
  <2>1. /\ s[i] \in places /\ Rank(places, ahead, s[i]) = i - 1
        /\ s[j] \in places /\ Rank(places, ahead, s[j]) = j - 1
    BY <1>2, <1>3
  <2>2. i \in Int /\ j \in Int
    BY <1>3
  <2>3. ASSUME First(ahead, s[j], s[i]) PROVE FALSE
    <3>1. Rank(places, ahead, s[j]) < Rank(places, ahead, s[i])
      BY <2>1, <2>3, RankGrows
    <3> QED BY <1>7, <2>1, <2>2, <3>1
  <2> QED BY <2>3 DEF First
<1> QED BY <1>4, <1>6, <1>7 DEF n

(* The order of listings and of entries is one a stable sort can use.          *)
TablesOK == \E world \in Worlds : nffcs = world.nffcs /\ activity = world.activity

LEMMA TableTypes ==
  ASSUME TablesOK
  PROVE  /\ DOMAIN nffcs \subseteq Nat /\ IsFiniteSet(DOMAIN nffcs)
         /\ DOMAIN activity \subseteq Nat /\ IsFiniteSet(DOMAIN activity)
         /\ \A i \in DOMAIN nffcs : IsSummary(nffcs[i])
         /\ \A i \in DOMAIN activity : IsEntry(activity[i])
<1>1. IsTable(nffcs) /\ IsTable(activity)
  BY ViewsAssumption DEF TablesOK
<1>2. \A rows : IsTable(rows) => DOMAIN rows = 1..Len(rows) /\ Len(rows) \in Nat
  BY DEF IsTable
<1>3. \A n \in Nat : IsFiniteSet(1..n)
  BY FS_Interval
<1>4. \A rows : IsTable(rows) => DOMAIN rows \subseteq Nat /\ IsFiniteSet(DOMAIN rows)
  BY <1>2, <1>3
<1>5. /\ \A i \in DOMAIN nffcs : IsSummary(nffcs[i])
      /\ \A i \in DOMAIN activity : IsEntry(activity[i])
  BY ViewsAssumption DEF TablesOK
<1> QED BY <1>1, <1>4, <1>5

LEMMA BeforeCompares ==
  ASSUME NEW a, NEW b, NEW c, IsSummary(a), IsSummary(b), IsSummary(c), NEW sort
  PROVE  /\ Before(sort, a, b) => ~Before(sort, b, a)
         /\ Before(sort, a, c) => Before(sort, a, b) \/ Before(sort, b, c)
<1>1. {a.mintedAt, b.mintedAt, c.mintedAt, a.rarity, b.rarity, c.rarity} \subseteq Nat
  BY ViewsAssumption DEF IsSummary
<1>2. \A n : IsSummary(n) /\ Listed(n) => PriceOf(n) \in Nat
  <2> SUFFICES ASSUME NEW n, IsSummary(n), Listed(n) PROVE PriceOf(n) \in Nat
    OBVIOUS
  <2>1. PICK l \in Listing : n.active = {l}
    BY DEF IsSummary, Listed, Optional
  <2>2. PriceOf(n) = l.price
    BY <2>1 DEF PriceOf
  <2> QED BY <2>2, ViewsAssumption DEF Listing
<1>3. CASE sort = "newest"
  BY <1>1, <1>3 DEF Before, Newer
<1>4. CASE sort = "rarity_desc"
  BY <1>1, <1>4 DEF Before
<1>5. CASE sort = "price_asc"
  BY <1>1, <1>2, <1>5 DEF Before, Newer
<1>6. CASE sort = "price_desc"
  BY <1>1, <1>2, <1>6 DEF Before, Newer
<1>7. CASE sort \notin Sorts
  BY <1>7 DEF Before, Sorts
<1> QED BY <1>3, <1>4, <1>5, <1>6, <1>7 DEF Sorts

LEMMA ListingsCompare ==
  ASSUME TablesOK, NEW sort, NEW places \in SUBSET DOMAIN nffcs
  PROVE  Comparator(ListingsOrder(sort), places)
<1>1. \A i, j \in places : <<i, j>> \in ListingsOrder(sort) <=> Before(sort, nffcs[i], nffcs[j])
  BY DEF ListingsOrder
<1>2. \A i \in places : IsSummary(nffcs[i])
  BY TableTypes
<1> QED BY <1>1, <1>2, BeforeCompares DEF Comparator

LEMMA EntriesCompare ==
  ASSUME TablesOK, NEW places \in SUBSET DOMAIN activity
  PROVE  Comparator(EntriesOrder, places)
<1>1. \A i, j \in places : <<i, j>> \in EntriesOrder <=> NewestFirst(activity[i], activity[j])
  BY DEF EntriesOrder
<1>2. \A i \in places : activity[i].occurredAt \in Nat /\ activity[i].block \in Nat
  BY TableTypes, ViewsAssumption DEF IsEntry
<1> QED BY <1>1, <1>2 DEF Comparator, NewestFirst

(* The pages of an address are pages of one list.                              *)
InOrder(p, u) ==
  IF p = "market" THEN Sorted(ListingsFound(ParseMarket(u).filter), ListingsOrder(ParseMarket(u).sort))
  ELSE Sorted(EntriesFound(ParseActivity(u).filter), EntriesOrder)
SizeOf(p) == IF p = "market" THEN Smaller(Larger(1, DEFAULT_PAGE_SIZE), MAX_PAGE_SIZE)
             ELSE Smaller(Larger(1, ACTIVITY_DEFAULT_PAGE_SIZE), ACTIVITY_MAX_PAGE_SIZE)

LEMMA ShownIs ==
  ASSUME NEW p \in {"market", "activity"}, NEW u, IsUrl(u)
  PROVE  /\ Shown(p, u) = [items |-> PageOf(InOrder(p, u), ParsedPage(u), SizeOf(p)),
                           total |-> Len(InOrder(p, u)),
                           page |-> ParsedPage(u), pageSize |-> SizeOf(p)]
         /\ ParsedPage(u) \in Nat \ {0} /\ SizeOf(p) \in Nat \ {0}
<1>1. ParsedPage(u) \in Nat \ {0} /\ Larger(1, ParsedPage(u)) = ParsedPage(u)
  BY DEF ParsedPage, IsUrl, Larger
<1>2. SizeOf(p) \in Nat \ {0}
  BY ViewsAssumption DEF SizeOf, Smaller, Larger
<1>3. CASE p = "market"
  <2>1. ParseMarket(u).page = ParsedPage(u) /\ ParseMarket(u).pageSize = DEFAULT_PAGE_SIZE
    BY DEF ParseMarket
  <2>2. Shown(p, u) = Result(InOrder(p, u), ParsedPage(u), DEFAULT_PAGE_SIZE, DEFAULT_PAGE_SIZE,
                             MAX_PAGE_SIZE)
    BY <1>3, <2>1, Zenon DEF Shown, MarketPage, QueryListings, InOrder
  <2>3. DEFAULT_PAGE_SIZE # 0
    BY ViewsAssumption
  <2> QED BY <1>1, <1>2, <1>3, <2>2, <2>3, Zenon DEF Result, SizeOf
<1>4. CASE p = "activity"
  <2>1. /\ ParseActivity(u).page = ParsedPage(u)
        /\ ParseActivity(u).pageSize = ACTIVITY_DEFAULT_PAGE_SIZE
    BY DEF ParseActivity
  <2>2. p # "market"
    BY <1>4
  <2>3. Shown(p, u) = Result(InOrder(p, u), ParsedPage(u), ACTIVITY_DEFAULT_PAGE_SIZE,
                             ACTIVITY_DEFAULT_PAGE_SIZE, ACTIVITY_MAX_PAGE_SIZE)
    BY <2>1, <2>2, Zenon DEF Shown, ActivityPage, QueryActivity, InOrder
  <2>4. ACTIVITY_DEFAULT_PAGE_SIZE # 0
    BY ViewsAssumption
  <2> QED BY <1>1, <1>2, <2>2, <2>3, <2>4, Zenon DEF Result, SizeOf
<1> QED BY <1>1, <1>2, <1>3, <1>4

LEMMA InOrderIs ==
  ASSUME TablesOK, NEW p \in {"market", "activity"}, NEW u
  PROVE  \E places \in SUBSET Nat : InOrder(p, u) \in Seq(places)
<1>1. CASE p = "market"
  <2> DEFINE places == ListingsFound(ParseMarket(u).filter)
  <2>1. places \in SUBSET DOMAIN nffcs
    BY DEF ListingsFound
  <2> HIDE DEF places
  <2>2. Comparator(ListingsOrder(ParseMarket(u).sort), places)
    BY <2>1, ListingsCompare
  <2>3. places \subseteq Nat /\ IsFiniteSet(places)
    BY <2>1, TableTypes, FS_Subset
  <2>4. Sorted(places, ListingsOrder(ParseMarket(u).sort)) \in Seq(places)
    BY <2>2, <2>3, SortedIs
  <2> QED BY <1>1, <2>3, <2>4 DEF InOrder, places
<1>2. CASE p = "activity"
  <2> DEFINE places == EntriesFound(ParseActivity(u).filter)
  <2>1. places \in SUBSET DOMAIN activity
    BY DEF EntriesFound
  <2> HIDE DEF places
  <2>2. Comparator(EntriesOrder, places)
    BY <2>1, EntriesCompare
  <2>3. places \subseteq Nat /\ IsFiniteSet(places)
    BY <2>1, TableTypes, FS_Subset
  <2>4. Sorted(places, EntriesOrder) \in Seq(places)
    BY <2>2, <2>3, SortedIs
  <2> QED BY <1>2, <2>3, <2>4 DEF InOrder, places
<1> QED BY <1>1, <1>2

----------------------------------------------------------------------------
(* Arithmetic of pages.                                                        *)
LEMMA Monotone ==
  ASSUME NEW a \in Nat, NEW b \in Nat, NEW c \in Nat, a <= b PROVE a * c <= b * c
<1>1. PICK d \in Nat : b = a + d
  <2>1. b - a \in Nat /\ b = a + (b - a)
    OBVIOUS
  <2> QED BY <2>1
<1>2. (a + d) * c = a * c + d * c
  BY Z3
<1>3. d * c \in Nat /\ a * c \in Nat
  OBVIOUS
<1> QED BY <1>1, <1>2, <1>3

(* There is a page after the p-th if and only if it does not reach the end.    *)
LEMMA MorePages ==
  ASSUME NEW len \in Nat, NEW size \in Nat \ {0}, NEW p \in Nat \ {0}
  PROVE  p < Larger(1, (len + size - 1) \div size) <=> p * size < len
<1> DEFINE n == len + size - 1
           q == n \div size
<1>1. n \in Nat /\ q \in Nat /\ q * size <= n /\ n < q * size + size
  OBVIOUS
<1>2. p * size \in Nat /\ q * size \in Nat
  BY <1>1
<1> HIDE DEF q
<1>3. ASSUME p < q PROVE p * size < len
  <2>1. (p + 1) * size <= q * size
    BY <1>1, <1>3, Monotone
  <2>2. (p + 1) * size = p * size + size
    BY Z3
  <2> QED BY <1>1, <1>2, <2>1, <2>2
<1>4. ASSUME q <= p PROVE len <= p * size
  <2>1. q * size <= p * size
    BY <1>1, <1>4, Monotone
  <2> QED BY <1>1, <1>2, <2>1
<1>5. p < Larger(1, q) <=> p < q
  BY <1>1 DEF Larger
<1> QED BY <1>1, <1>2, <1>3, <1>4, <1>5 DEF q

----------------------------------------------------------------------------
(* A walk has read the list up to the end of the page shown.                   *)
WalkOK ==
  LET list == InOrder(path, url) IN
  \A w \in walked : w = SubSeq(list, 1, Smaller(ParsedPage(url) * SizeOf(path), Len(list)))

ViewTypeOK == TablesOK /\ path \in {"market", "activity"} /\ IsUrl(url)
ControlsFirst == by = "control" => url.page = {}
ViewIInv == ViewTypeOK /\ ControlsFirst /\ WalkOK

LEMMA FirstPage ==
  ASSUME NEW list, NEW size \in Nat \ {0}
  PROVE  PageOf(list, 1, size) = SubSeq(list, 1, Smaller(1 * size, Len(list)))
<1>1. (1 - 1) * size + 1 = 1
  OBVIOUS
<1> QED BY <1>1, Zenon DEF PageOf

LEMMA AnotherPage ==
  ASSUME NEW S, NEW list \in Seq(S), NEW size \in Nat \ {0}, NEW p \in Nat \ {0},
         p * size < Len(list)
  PROVE  SubSeq(list, 1, Smaller(p * size, Len(list))) \o PageOf(list, p + 1, size)
           = SubSeq(list, 1, Smaller((p + 1) * size, Len(list)))
<1> DEFINE k == p * size
           n == Smaller((p + 1) * size, Len(list))
<1>1. k \in Nat /\ Len(list) \in Nat /\ (p + 1) * size = k + size
  <2>1. (p + 1) * size = p * size + size
    BY Z3
  <2> QED BY <2>1
<1>2. (p + 1 - 1) * size + 1 = k + 1
  OBVIOUS
<1>3. Smaller(k, Len(list)) = k
  BY <1>1 DEF Smaller
<1>4. PageOf(list, p + 1, size) = SubSeq(list, k + 1, n)
  <2> HIDE DEF k
  <2>1. PICK q : q = p + 1
    OBVIOUS
  <2>2. PageOf(list, q, size) = SubSeq(list, (q - 1) * size + 1, Smaller(q * size, Len(list)))
    BY Zenon DEF PageOf
  <2>3. (q - 1) * size + 1 = k + 1
    BY <1>2, <2>1
  <2> QED BY <2>1, <2>2, <2>3
<1> HIDE DEF k
<1>5. n \in k..Len(list) /\ 1 \in 1..Len(list) + 1 /\ k \in 1 - 1..Len(list)
  BY <1>1 DEF Smaller, k
<1> HIDE DEF n
<1>6. SubSeq(list, 1, k) \o SubSeq(list, k + 1, n) = SubSeq(list, 1, n)
  BY <1>5, ConcatAdjacentSubSeq
<1>7. SubSeq(list, 1, Smaller(k, Len(list))) \o PageOf(list, p + 1, size) = SubSeq(list, 1, n)
  BY <1>3, <1>4, <1>6
<1> QED BY <1>7 DEF k, n

LEMMA ViewInitOK == ASSUME ViewInit PROVE ViewIInv
<1>1. ViewTypeOK /\ ControlsFirst /\ url.page = {}
  <2>1. IsUrl(NoParams) /\ NoParams.page = {}
    BY DEF IsUrl, NoParams, Params
  <2> QED BY <2>1 DEF ViewInit, ViewTypeOK, TablesOK, ControlsFirst
<1>2. ParsedPage(url) = 1
  BY <1>1 DEF ParsedPage
<1>3. WalkOK
  BY <1>1, <1>2, ShownIs, FirstPage DEF ViewInit, ViewTypeOK, WalkOK
<1> QED BY <1>1, <1>3 DEF ViewIInv

(* The tables stand still, so a list is the same before and after a step.      *)
LEMMA SameList ==
  ASSUME UNCHANGED <<nffcs, activity>>, NEW p, NEW u
  PROVE  InOrder(p, u)' = InOrder(p, u)
<1> QED BY DEF InOrder, ListingsFound, ListingsOrder, EntriesFound, EntriesOrder

LEMMA OpenedKeeps ==
  ASSUME ViewIInv, NEW p \in {"market", "activity"}, NEW u, IsUrl(u), NEW how, Opened(p, u, how),
         how = "control" => u.page = {}
  PROVE  ViewIInv'
<1>1. UNCHANGED <<nffcs, activity>> /\ path' = p /\ url' = u /\ by' = how
  BY DEF Opened
<1>2. ViewTypeOK' /\ ControlsFirst'
  BY <1>1 DEF ViewIInv, ViewTypeOK, TablesOK, ControlsFirst
<1>3. /\ Shown(p, u).items = PageOf(InOrder(p, u), ParsedPage(u), SizeOf(p))
      /\ Shown(p, u).page = ParsedPage(u) /\ SizeOf(p) \in Nat \ {0}
  BY ShownIs
<1>4. ASSUME NEW w \in walked'
      PROVE  w = SubSeq(InOrder(p, u), 1, Smaller(ParsedPage(u) * SizeOf(p), Len(InOrder(p, u))))
  BY <1>3, <1>4, FirstPage DEF Opened
<1>5. WalkOK'
  BY <1>1, <1>4, SameList DEF WalkOK
<1> QED BY <1>2, <1>5 DEF ViewIInv

LEMMA NextPageKeeps == ASSUME ViewIInv, NextPage PROVE ViewIInv'
<1> DEFINE page == ParsedPage(url)
           size == SizeOf(path)
<1> PICK to : to = [url EXCEPT !.page = {page + 1}]
  OBVIOUS
<1> PICK list : list = InOrder(path, url)
  OBVIOUS
<1>1. ViewTypeOK /\ path \in {"market", "activity"} /\ IsUrl(url) /\ TablesOK
  BY DEF ViewIInv, ViewTypeOK
<1>2. /\ Shown(path, url) = [items |-> PageOf(list, page, size), total |-> Len(list),
                             page |-> page, pageSize |-> size]
      /\ page \in Nat \ {0} /\ size \in Nat \ {0}
  BY <1>1, ShownIs
<1>3. IsUrl(to) /\ to.page = {page + 1} /\ \A k \in Params \ {"page"} : to[k] = url[k]
  BY <1>1, <1>2 DEF IsUrl, Params
<1>4. ParsedPage(to) = page + 1
  <2> HIDE DEF page
  <2>1. \A p : p \in to.page /\ p >= 1 <=> p = page + 1
    BY <1>2, <1>3
  <2> QED BY <2>1 DEF ParsedPage
<1>5. InOrder(path, to) = list
  <2>1. /\ to.segment = url.segment /\ to.minRarity = url.minRarity /\ to.regime = url.regime
        /\ to.listed = url.listed /\ to.sort = url.sort /\ to.tokenId = url.tokenId
        /\ to.wallet = url.wallet /\ to.kind = url.kind
    BY <1>3 DEF Params
  <2>2. /\ ParseMarket(to).filter = ParseMarket(url).filter
        /\ ParseMarket(to).sort = ParseMarket(url).sort
        /\ ParseActivity(to).filter = ParseActivity(url).filter
    BY <2>1 DEF ParseMarket, ParseActivity
  <2> QED BY <2>2, Zenon DEF InOrder
<1>6. Shown(path, to).items = PageOf(list, page + 1, size)
  BY <1>1, <1>3, <1>4, <1>5, ShownIs
<1>7. Len(list) \in Nat /\ \E places \in SUBSET Nat : list \in Seq(places)
  BY <1>1, InOrderIs
<1>8. page * size < Len(list)
  BY <1>2, <1>7, MorePages DEF NextPage, HasNext, PageCount
<1>9. /\ url' = to /\ by' = "link" /\ UNCHANGED <<nffcs, activity, path>>
      /\ walked' = {w \o Shown(path, to).items : w \in walked}
  BY <1>2 DEF NextPage
<1>10. ViewTypeOK' /\ ControlsFirst'
  BY <1>1, <1>3, <1>9 DEF ViewTypeOK, TablesOK, ControlsFirst
<1> HIDE DEF page, size
<1>11. ASSUME NEW w \in walked'
       PROVE  w = SubSeq(list, 1, Smaller((page + 1) * size, Len(list)))
  <2>1. PICK v \in walked : w = v \o PageOf(list, page + 1, size)
    BY <1>6, <1>9
  <2>2. v = SubSeq(list, 1, Smaller(page * size, Len(list)))
    BY DEF ViewIInv, WalkOK, page, size
  <2> QED BY <1>2, <1>7, <1>8, <2>1, <2>2, AnotherPage
<1>12. WalkOK'
  BY <1>4, <1>5, <1>9, <1>11, SameList DEF WalkOK, size
<1> QED BY <1>10, <1>12 DEF ViewIInv

(* What a control makes of the address has no page.                            *)
LEMMA ControlKeeps == ASSUME ViewIInv, Control PROVE ViewIInv'
<1>1. IsUrl(url) /\ path \in {"market", "activity"}
  BY DEF ViewIInv, ViewTypeOK
<1>2. \A u : DOMAIN u = Params => IsUrl(WithoutPage(u)) /\ WithoutPage(u).page = {}
  BY DEF WithoutPage, IsUrl, Params
<1>3. ASSUME NEW u, DOMAIN u = Params, Opened(path, WithoutPage(u), "control") PROVE ViewIInv'
  BY <1>1, <1>2, <1>3, OpenedKeeps
<1>4. ASSUME NEW name, NEW value, SetParam(name, value) PROVE ViewIInv'
  <2>1. DOMAIN [url EXCEPT ![name] = value] = Params
    BY <1>1 DEF IsUrl
  <2> QED BY <1>3, <1>4, <2>1 DEF SetParam
<1>5. ASSUME NEW r, ToggleRegime(r) PROVE ViewIInv'
  <2>1. \A v : DOMAIN [url EXCEPT !.regime = v] = Params
    BY <1>1 DEF IsUrl
  <2> QED BY <1>3, <1>5, <2>1 DEF ToggleRegime
<1>6. ASSUME NEW w, NEW t, ApplyTextFilters(w, t) PROVE ViewIInv'
  <2>1. DOMAIN [url EXCEPT !.wallet = w, !.tokenId = t] = Params
    BY <1>1 DEF IsUrl
  <2> QED BY <1>3, <1>6, <2>1 DEF ApplyTextFilters
<1>7. ASSUME NEW k, ToggleKind(k) PROVE ViewIInv'
  <2>1. \A v : DOMAIN [url EXCEPT !.kind = v] = Params
    BY <1>1 DEF IsUrl
  <2> QED BY <1>3, <1>7, <2>1 DEF ToggleKind
<1> QED BY <1>4, <1>5, <1>6, <1>7 DEF Control

LEMMA ViewStep == ASSUME ViewIInv, [ViewNext]_viewVars PROVE ViewIInv'
<1>1. ASSUME NEW p \in {"market", "activity"}, NEW u \in Links, OpenLink(p, u) PROVE ViewIInv'
  BY <1>1, OpenedKeeps, ViewsAssumption DEF OpenLink
<1>2. CASE Control
  BY <1>2, ControlKeeps
<1>3. CASE NextPage
  BY <1>3, NextPageKeeps
<1>4. CASE PreviousPage
  <2> DEFINE u == [url EXCEPT !.page = {Shown(path, url).page - 1}]
  <2>1. path \in {"market", "activity"} /\ IsUrl(url)
    BY DEF ViewIInv, ViewTypeOK
  <2>2. Shown(path, url).page \in Int
    BY <2>1, ShownIs
  <2>3. IsUrl(u)
    BY <2>1, <2>2 DEF IsUrl, Params
  <2>4. Opened(path, u, "link")
    BY <1>4 DEF PreviousPage
  <2> HIDE DEF u
  <2> QED BY <2>1, <2>3, <2>4, OpenedKeeps
<1>5. CASE UNCHANGED viewVars
  <2>1. UNCHANGED <<nffcs, activity, path, url, by, walked>>
    BY <1>5 DEF viewVars
  <2> QED BY <2>1, SameList
          DEF ViewIInv, ViewTypeOK, TablesOK, ControlsFirst, WalkOK
<1> QED BY <1>1, <1>2, <1>3, <1>4, <1>5 DEF ViewNext

LEMMA ViewInvariant == ViewSpec => []ViewIInv
<1> QED BY ViewInitOK, ViewStep, PTL DEF ViewSpec

----------------------------------------------------------------------------
LEMMA NotStranded == ASSUME ViewIInv PROVE ControlsNeverStrand
<1> SUFFICES ASSUME by = "control", Shown(path, url).items = <<>>
             PROVE  Shown(path, url).total = 0
  BY DEF ControlsNeverStrand
<1> PICK list : list = InOrder(path, url)
  OBVIOUS
<1> DEFINE size == SizeOf(path)
<1>1. path \in {"market", "activity"} /\ IsUrl(url) /\ TablesOK /\ url.page = {}
  BY DEF ViewIInv, ViewTypeOK, ControlsFirst
<1>2. ParsedPage(url) = 1
  BY <1>1 DEF ParsedPage
<1>3. PageOf(list, 1, size) = <<>> /\ Shown(path, url).total = Len(list) /\ size \in Nat \ {0}
  BY <1>1, <1>2, ShownIs
<1>4. PICK places \in SUBSET Nat : list \in Seq(places)
  BY <1>1, InOrderIs
<1> HIDE DEF size
<1> DEFINE n == Smaller(1 * size, Len(list))
<1>5. SubSeq(list, 1, n) = <<>> /\ Len(list) \in Nat
  <2>1. PageOf(list, 1, size) = SubSeq(list, 1, n)
    BY <1>3, FirstPage
  <2> HIDE DEF n
  <2>2. SubSeq(list, 1, n) = <<>>
    BY <1>3, <2>1, Zenon
  <2>3. Len(list) \in Nat
    BY <1>4
  <2> QED BY <2>2, <2>3
<1>6. n \in Nat /\ n <= Len(list) /\ (n = 0 => Len(list) = 0)
  BY <1>3, <1>5 DEF Smaller
<1> HIDE DEF n
<1>7. Len(SubSeq(list, 1, n)) = IF 1 <= n THEN n - 1 + 1 ELSE 0
  <2>1. \A i \in 1..n : list[i] \in places
    BY <1>4, <1>5, <1>6
  <2> QED BY <1>6, <2>1, SubSeqProperties
<1>8. n = 0
  BY <1>5, <1>6, <1>7
<1> QED BY <1>3, <1>6, <1>8

LEMMA ReadOnce == ASSUME ViewIInv PROVE BrowsedOnce
<1> SUFFICES ASSUME NEW w \in walked, ~HasNext(Shown(path, url))
             PROVE  /\ Range(w) = Asked /\ Len(w) = Cardinality(Asked)
                    /\ \A i, j \in DOMAIN w : i < j => InTurn(w[i], w[j])
  BY DEF BrowsedOnce
<1> PICK list : list = InOrder(path, url)
  OBVIOUS
<1> DEFINE page == ParsedPage(url)
           size == SizeOf(path)
<1>1. path \in {"market", "activity"} /\ IsUrl(url) /\ TablesOK
  BY DEF ViewIInv, ViewTypeOK
<1>2. /\ Shown(path, url) = [items |-> PageOf(list, page, size), total |-> Len(list),
                             page |-> page, pageSize |-> size]
      /\ page \in Nat \ {0} /\ size \in Nat \ {0}
  BY <1>1, ShownIs
<1>3. PICK places \in SUBSET Nat : list \in Seq(places)
  BY <1>1, InOrderIs
<1>4. w = SubSeq(list, 1, Smaller(page * size, Len(list)))
  BY DEF ViewIInv, WalkOK
<1> HIDE DEF page, size
<1>5. w = list
  <2>1. Len(list) \in Nat /\ page * size \in Nat
    BY <1>2, <1>3
  <2>2. ~ (page * size < Len(list))
    BY <1>2, <2>1, MorePages DEF HasNext, PageCount
  <2>3. Smaller(page * size, Len(list)) = Len(list)
    BY <2>1, <2>2 DEF Smaller
  <2> QED BY <1>3, <1>4, <2>3, SubSeqFull
<1>6. CASE path = "market"
  <2> DEFINE asked == ListingsFound(ParseMarket(url).filter)
             ahead == ListingsOrder(ParseMarket(url).sort)
  <2>1. asked \in SUBSET DOMAIN nffcs /\ Asked = asked
    BY <1>6 DEF ListingsFound, Asked
  <2>2. list = Sorted(asked, ahead)
    BY <1>6 DEF InOrder
  <2>3. ahead = ListingsOrder(ParseMarket(url).sort)
    OBVIOUS
  <2> HIDE DEF asked, ahead
  <2>4. asked \subseteq Nat /\ IsFiniteSet(asked) /\ Comparator(ahead, asked)
    BY <1>1, <2>1, <2>3, TableTypes, FS_Subset, ListingsCompare
  <2>5. /\ list \in Seq(asked) /\ Len(list) = Cardinality(asked) /\ Range(list) = asked
        /\ \A i, j \in DOMAIN list : i < j => <<list[j], list[i]>> \notin ahead
    BY <2>2, <2>4, SortedIs
  <2>6. \A i, j \in asked : <<j, i>> \notin ahead => InTurn(i, j)
    BY <1>6, <2>1, <2>3 DEF InTurn, ListingsOrder
  <2>7. \A i \in DOMAIN list : list[i] \in asked
    BY <2>5 DEF Range
  <2> QED BY <1>5, <2>1, <2>5, <2>6, <2>7
<1>7. CASE path = "activity"
  <2> DEFINE asked == EntriesFound(ParseActivity(url).filter)
  <2>1. asked \in SUBSET DOMAIN activity /\ Asked = asked
    BY <1>7 DEF EntriesFound, Asked
  <2>2. list = Sorted(asked, EntriesOrder)
    BY <1>7 DEF InOrder
  <2> HIDE DEF asked
  <2>3. asked \subseteq Nat /\ IsFiniteSet(asked) /\ Comparator(EntriesOrder, asked)
    BY <1>1, <2>1, TableTypes, FS_Subset, EntriesCompare
  <2>4. /\ list \in Seq(asked) /\ Len(list) = Cardinality(asked) /\ Range(list) = asked
        /\ \A i, j \in DOMAIN list : i < j => <<list[j], list[i]>> \notin EntriesOrder
    BY <2>2, <2>3, SortedIs
  <2>5. \A i, j \in asked : <<j, i>> \notin EntriesOrder => InTurn(i, j)
    BY <1>7, <2>1 DEF InTurn, EntriesOrder
  <2>6. \A i \in DOMAIN list : list[i] \in asked
    BY <2>4 DEF Range
  <2> QED BY <1>5, <2>1, <2>4, <2>5, <2>6
<1> QED BY <1>1, <1>6, <1>7

(* No control of the pages leads to an empty page while rows match, whatever   *)
(* the tables, the page sizes and the links opened (setParam, toggleKind).     *)
THEOREM NeverStranded == ViewSpec => []ControlsNeverStrand
<1> QED BY NotStranded, ViewInvariant, PTL

(* Reading on to the last page shows each matching row once and in turn,       *)
(* whatever the tables, the page sizes and the links (queryListings).          *)
THEOREM EveryRowOnce == ViewSpec => []BrowsedOnce
<1> QED BY ReadOnce, ViewInvariant, PTL

----------------------------------------------------------------------------
(* Lists and counts over the tables.                                           *)
LEMMA ListedOnce ==
  ASSUME TablesOK, NEW places \in SUBSET DOMAIN nffcs, NEW sort
  PROVE  LET s == Sorted(places, ListingsOrder(sort)) IN
         /\ Len(s) = Cardinality(places) /\ Cardinality(places) \in Nat
         /\ s = <<>> <=> places = {}
<1> PICK s : s = Sorted(places, ListingsOrder(sort))
  OBVIOUS
<1>1. places \subseteq Nat /\ IsFiniteSet(places)
  BY TableTypes, FS_Subset
<1>2. Comparator(ListingsOrder(sort), places)
  BY ListingsCompare
<1>3. s \in Seq(places) /\ Len(s) = Cardinality(places)
  BY <1>1, <1>2, SortedIs
<1>4. Cardinality(places) \in Nat /\ (Cardinality(places) = 0 <=> places = {})
  BY <1>1, FS_CardinalityType, FS_EmptySet
<1>5. s = <<>> <=> Len(s) = 0
  BY <1>3, EmptySeq
<1> QED BY <1>3, <1>4, <1>5

LEMMA TableSize ==
  ASSUME TablesOK PROVE Cardinality(DOMAIN nffcs) = Len(nffcs) /\ Len(nffcs) \in Nat
<1>1. DOMAIN nffcs = 1..Len(nffcs) /\ Len(nffcs) \in Nat
  BY ViewsAssumption DEF TablesOK, IsTable
<1>2. \A n \in Nat : Cardinality(1..n) = n
  BY FS_Interval
<1> QED BY <1>1, <1>2

----------------------------------------------------------------------------
(* Search and a profile on one wallet.                                         *)
Made(w) == {i \in DOMAIN nffcs : nffcs[i].creator = w}
Has(w) == {i \in DOMAIN nffcs : nffcs[i].owner = w}
MadeIn(w, c) == {i \in DOMAIN nffcs : nffcs[i].creator = w /\ nffcs[i].collection = c}
Of(c) == {i \in DOMAIN nffcs : nffcs[i].collection = c}

LEMMA ProfileIs ==
  ASSUME NEW w
  PROVE  /\ Profile(w).created = Sorted(Made(w), ListingsOrder("newest"))
         /\ Profile(w).owned = Sorted(Has(w), ListingsOrder("newest"))
         /\ DOMAIN Profile(w).collections = {nffcs[i].collection : i \in Made(w)}
         /\ \A c \in DOMAIN Profile(w).collections :
              Profile(w).collections[c] = Cardinality(MadeIn(w, c))
         /\ Profile(w).recentActivity = RecentActivity(w)
<1>1. /\ Profile(w).created = Sorted(Made(w), ListingsOrder("newest"))
      /\ Profile(w).owned = Sorted(Has(w), ListingsOrder("newest"))
      /\ Profile(w).recentActivity = RecentActivity(w)
  BY DEF Profile, NewestOf, Made, Has
<1>2. Profile(w).collections =
        [c \in UNION {IF nffcs[i].creator = w THEN {nffcs[i].collection} ELSE {} : i \in DOMAIN nffcs}
           |-> Cardinality(MadeIn(w, c))]
  BY DEF Profile, Occurring, CountOf, MadeIn
<1>3. UNION {IF nffcs[i].creator = w THEN {nffcs[i].collection} ELSE {} : i \in DOMAIN nffcs}
        = {nffcs[i].collection : i \in Made(w)}
  BY DEF Made
<1> QED BY <1>1, <1>2, <1>3

LEMMA WalletFound ==
  ASSUME NEW w
  PROVE  LET found == Search(Only({w})).wallets IN
         /\ w \in DOMAIN found <=> Made(w) # {} \/ Has(w) # {}
         /\ w \in DOMAIN found => /\ found[w].created = Cardinality(Made(w))
                                  /\ found[w].owned = Cardinality(Has(w))
<1> PICK found : found = Search(Only({w})).wallets
  OBVIOUS
<1> DEFINE there == (UNION {{nffcs[i].creator, nffcs[i].owner} : i \in DOMAIN nffcs}) \cap {w}
<1> PICK q : q = Only({w})
  OBVIOUS
<1>0. q.names = {w} /\ found = SearchWallets(q)
  BY DEF Only, Search
<1> DEFINE made(v) == Cardinality({i \in DOMAIN nffcs : Bumps(nffcs[i], v).created})
           has(v) == Cardinality({i \in DOMAIN nffcs : Bumps(nffcs[i], v).owned})
<1>1. found = [v \in there |-> [created |-> made(v), owned |-> has(v)]]
  BY <1>0 DEF SearchWallets, Occurring, CountOf
<1>2. {i \in DOMAIN nffcs : Bumps(nffcs[i], w).created} = Made(w)
  BY DEF Bumps, Made
<1>3. {i \in DOMAIN nffcs : Bumps(nffcs[i], w).owned} = Has(w)
  BY DEF Bumps, Has
<1>4. w \in there <=> \E i \in DOMAIN nffcs : nffcs[i].creator = w \/ nffcs[i].owner = w
  OBVIOUS
<1>5. w \in there <=> Made(w) # {} \/ Has(w) # {}
  BY <1>4 DEF Made, Has
<1>6. made(w) = Cardinality(Made(w)) /\ has(w) = Cardinality(Has(w))
  BY <1>2, <1>3
<1> HIDE DEF there, made, has
<1> QED BY <1>1, <1>5, <1>6

(* A profile's recent entries are the first the activity page shows.           *)
LEMMA RecentIsShown ==
  ASSUME TablesOK, NEW w
  PROVE  LET entries == ActivityPage([Unfiltered EXCEPT !.wallet = {w}]).items IN
         RecentActivity(w) = SubSeq(entries, 1, Len(RecentActivity(w)))
<1> DEFINE filter == [tokenId |-> {}, wallet |-> {w}, kind |-> {}]
           u == [Unfiltered EXCEPT !.wallet = {w}]
           found == EntriesFound(filter)
           list == Sorted(found, EntriesOrder)
           few == Smaller(RECENT_ACTIVITY_LIMIT, ACTIVITY_MAX_PAGE_SIZE)
           many == Smaller(ACTIVITY_DEFAULT_PAGE_SIZE, ACTIVITY_MAX_PAGE_SIZE)
<1>1. ParseActivity(u) = [filter |-> filter, page |-> 1, pageSize |-> ACTIVITY_DEFAULT_PAGE_SIZE]
  <2>1. u.page = {1} /\ u.wallet = {w} /\ u.tokenId = {} /\ u.kind = {}
    BY DEF Unfiltered, NoParams, Params
  <2>2. ParsedPage(u) = 1
    BY <2>1 DEF ParsedPage
  <2> HIDE DEF u
  <2> QED BY <2>1, <2>2 DEF ParseActivity
<1>2. /\ few \in Nat \ {0} /\ many \in Nat \ {0} /\ few <= many
      /\ Larger(1, RECENT_ACTIVITY_LIMIT) = RECENT_ACTIVITY_LIMIT /\ RECENT_ACTIVITY_LIMIT # 0
      /\ Larger(1, ACTIVITY_DEFAULT_PAGE_SIZE) = ACTIVITY_DEFAULT_PAGE_SIZE
      /\ ACTIVITY_DEFAULT_PAGE_SIZE # 0 /\ Larger(1, 1) = 1
  BY ViewsAssumption DEF Smaller, Larger
<1>3. list \in Seq(found)
  <2>1. found \in SUBSET DOMAIN activity
    BY DEF EntriesFound
  <2> HIDE DEF found
  <2> QED BY <2>1, TableTypes, FS_Subset, EntriesCompare, SortedIs
<1>4. RecentActivity(w) = PageOf(list, 1, few)
  BY <1>2, Zenon DEF RecentActivity, QueryActivity, Result
<1>5. ActivityPage(u).items = PageOf(list, 1, many)
  <2> PICK q : q = ParseActivity(u)
    OBVIOUS
  <2>1. q.filter = filter /\ q.page = 1 /\ q.pageSize = ACTIVITY_DEFAULT_PAGE_SIZE
    BY <1>1
  <2> HIDE DEF u, filter
  <2>2. ActivityPage(u) = QueryActivity(q)
    BY DEF ActivityPage
  <2>3. QueryActivity(q) = Result(list, 1, ACTIVITY_DEFAULT_PAGE_SIZE, ACTIVITY_DEFAULT_PAGE_SIZE,
                                  ACTIVITY_MAX_PAGE_SIZE)
    BY <2>1, Zenon DEF QueryActivity
  <2>4. (IF ACTIVITY_DEFAULT_PAGE_SIZE = 0 THEN ACTIVITY_DEFAULT_PAGE_SIZE
         ELSE ACTIVITY_DEFAULT_PAGE_SIZE) = ACTIVITY_DEFAULT_PAGE_SIZE
    OBVIOUS
  <2> QED BY <1>2, <2>2, <2>3, <2>4 DEF Result
<1> HIDE DEF few, many, list, found, filter, u
<1>6. \A size \in Nat : PageOf(list, 1, size) = SubSeq(list, 1, Smaller(size, Len(list)))
  <2>1. \A size \in Nat : (1 - 1) * size + 1 = 1 /\ 1 * size = size
    OBVIOUS
  <2> QED BY <2>1 DEF PageOf
<1> PICK n, m : n = Smaller(few, Len(list)) /\ m = Smaller(many, Len(list))
  OBVIOUS
<1>7. n \in Nat /\ m \in Nat /\ n <= m /\ m <= Len(list) /\ Len(list) \in Nat
  BY <1>2, <1>3 DEF Smaller
<1>8. Len(SubSeq(list, 1, n)) = n
  <2>1. \A i \in 1..n : list[i] \in found
    BY <1>3, <1>7
  <2>2. Len(SubSeq(list, 1, n)) = IF 1 <= n THEN n - 1 + 1 ELSE 0
    BY <1>7, <2>1, SubSeqProperties
  <2> QED BY <1>7, <2>2
<1>9. SubSeq(SubSeq(list, 1, m), 1, n) = SubSeq(list, 1, n)
  <2>1. \A k \in Nat : k <= Len(list) => SubSeq(list, 1, k) = [i \in 1..k |-> list[i]]
    OBVIOUS
  <2>2. SubSeq([i \in 1..m |-> list[i]], 1, n) = [i \in 1..n |-> list[i]]
    BY <1>7
  <2> QED BY <1>7, <2>1, <2>2
<1> QED BY <1>2, <1>4, <1>5, <1>6, <1>8, <1>9 DEF u

----------------------------------------------------------------------------
(* Search, the admin's collections and the profiles on one collection; search  *)
(* on one asset.                                                               *)
Within == UNION {{nffcs[i].collection} : i \in DOMAIN nffcs}

LEMMA CollectionsAre ==
  ASSUME NEW c
  PROVE  LET found == Search(Only({c})).collections IN
         /\ c \in Within <=> Of(c) # {}
         /\ DOMAIN found = Within \cap {c} /\ (c \in Within => found[c] = Cardinality(Of(c)))
         /\ DOMAIN ListAllCollections = Within
         /\ c \in Within => ListAllCollections[c].nffcCount = Cardinality(Of(c))
<1> PICK found, q : found = Search(Only({c})).collections /\ q = Only({c})
  OBVIOUS
<1>0. q.names = {c} /\ found = SearchCollections(q)
  BY DEF Only, Search
<1> DEFINE first(d) == nffcs[CHOOSE i \in DOMAIN nffcs :
                               /\ nffcs[i].collection = d
                               /\ \A j \in 1..i-1 : nffcs[j].collection # d].creator
<1>1. found = [d \in Within \cap q.names |-> Cardinality(Of(d))]
  BY <1>0 DEF SearchCollections, Occurring, CountOf, Within, Of
<1>2. ListAllCollections = [d \in Within |-> [creator |-> first(d), nffcCount |-> Cardinality(Of(d))]]
  BY DEF ListAllCollections, Occurring, CountOf, Within, Of
<1>3. c \in Within <=> Of(c) # {}
  BY DEF Within, Of
<1> HIDE DEF first
<1> QED BY <1>0, <1>1, <1>2, <1>3

LEMMA NamedNffcs ==
  ASSUME TablesOK, NEW name, NEW places,
         places = {i \in DOMAIN nffcs : \/ nffcs[i].collection = name
                                        \/ name \in DOMAIN nffcs[i].components}
  PROVE  Len(Search(Only({name})).nffcs) = Cardinality(places) /\ Cardinality(places) \in Nat
<1> PICK q : q = Only({name})
  OBVIOUS
<1>1. q.names = {name} /\ q.ids = {} /\ Search(Only({name})).nffcs = SearchNffcs(q)
  BY DEF Only, Search
<1>2. {i \in DOMAIN nffcs : i \in q.ids \/ nffcs[i].collection \in q.names
                            \/ DOMAIN nffcs[i].components \cap q.names # {}} = places
  BY <1>1
<1>3. SearchNffcs(q) = Sorted(places, ListingsOrder("newest"))
  BY <1>2 DEF SearchNffcs
<1> QED BY <1>1, <1>3, ListedOnce

(* The makers of a collection made all of it.                                  *)
LEMMA MadeAll ==
  ASSUME TablesOK, NEW c, NEW minted, minted = {w \in Wallets : c \in DOMAIN Profile(w).collections},
         NEW g, g = [w \in minted |-> Profile(w).collections[c]]
  PROVE  SumFunction(g) = Cardinality(Of(c))
<1> DEFINE one == [i \in Of(c) |-> 1]
           maker == [i \in DOMAIN nffcs |-> nffcs[i].creator]
<1>1. IsFiniteSet(Of(c)) /\ Of(c) \subseteq DOMAIN nffcs
  BY TableTypes, FS_Subset DEF Of
<1>2. \A i \in Of(c) : maker[i] = nffcs[i].creator /\ nffcs[i].collection = c /\ one[i] = 1
  BY DEF Of
<1>3. \A i \in Of(c) : maker[i] \in minted
  <2> SUFFICES ASSUME NEW i \in Of(c) PROVE maker[i] \in minted
    OBVIOUS
  <2>1. maker[i] = nffcs[i].creator /\ nffcs[i].creator \in Wallets /\ i \in Made(nffcs[i].creator)
    BY <1>1, <1>2, TableTypes DEF IsSummary, Made
  <2>2. c \in {nffcs[j].collection : j \in Made(nffcs[i].creator)}
    BY <1>2, <2>1
  <2>3. c \in DOMAIN Profile(nffcs[i].creator).collections
    BY <2>2, ProfileIs
  <2> HIDE DEF maker
  <2> QED BY <2>1, <2>3
<1>4. \A w \in minted : MadeIn(w, c) = {i \in Of(c) : maker[i] = w}
  BY DEF MadeIn, Of
<1>5. IsFiniteSet(minted)
  <2>1. IsFiniteSet({maker[i] : i \in DOMAIN nffcs})
    BY TableTypes, ImageFinite
  <2>2. \A w \in minted : \E i \in DOMAIN nffcs : maker[i] = w
    <3> SUFFICES ASSUME NEW w \in minted PROVE \E i \in DOMAIN nffcs : maker[i] = w
      OBVIOUS
    <3>1. c \in {nffcs[i].collection : i \in Made(w)}
      BY ProfileIs
    <3>2. PICK i \in Made(w) : nffcs[i].collection = c
      BY <3>1
    <3> QED BY <3>2 DEF Made
  <2> HIDE DEF maker
  <2>3. minted \subseteq {maker[i] : i \in DOMAIN nffcs}
    BY <2>2
  <2> QED BY <2>1, <2>3, FS_Subset
<1> HIDE DEF one, maker
<1>6. \A w \in minted : g[w] = SumFunctionOnSet(one, {i \in Of(c) : maker[i] = w})
  <2> SUFFICES ASSUME NEW w \in minted PROVE g[w] = SumFunctionOnSet(one, {i \in Of(c) : maker[i] = w})
    OBVIOUS
  <2>1. g[w] = Cardinality(MadeIn(w, c))
    BY ProfileIs
  <2> PICK S : S = {i \in Of(c) : maker[i] = w}
    OBVIOUS
  <2>2. IsFiniteSet(S) /\ \A i \in S : one[i] = 1
    BY <1>1, <1>2, FS_Subset
  <2>3. SumFunctionOnSet(one, S) = Cardinality(S)
    BY <2>2, SumOnes
  <2> QED BY <1>4, <2>1, <2>3
<1>7. \A i \in Of(c) : one[i] \in Int
  BY <1>2
<1>8. SumFunctionOnSet(g, minted) = SumFunctionOnSet(one, Of(c))
  BY <1>1, <1>3, <1>5, <1>6, <1>7, SumGroups
<1>9. SumFunctionOnSet(one, Of(c)) = Cardinality(Of(c))
  BY <1>1, <1>2, SumOnes
<1>10. DOMAIN g = minted
  OBVIOUS
<1> QED BY <1>8, <1>9, <1>10 DEF SumFunction

LEMMA AssetsFound ==
  ASSUME TablesOK, NEW a, a \notin Collections
  PROVE  SumFunction(Search(Only({a})).assets) = Len(Search(Only({a})).nffcs)
<1> DEFINE with(b) == {i \in DOMAIN nffcs : b \in DOMAIN nffcs[i].components}
           there == (UNION {DOMAIN nffcs[i].components : i \in DOMAIN nffcs}) \cap {a}
<1> PICK found, q : found = Search(Only({a})).assets /\ q = Only({a})
  OBVIOUS
<1>1. q.names = {a} /\ found = SearchAssets(q)
  BY DEF Only, Search
<1>2. found = [b \in there |-> Cardinality(with(b))]
  BY <1>1 DEF SearchAssets, Occurring, CountOf
<1>3. Len(Search(Only({a})).nffcs) = Cardinality(with(a)) /\ Cardinality(with(a)) \in Nat
  <2>1. with(a) = {i \in DOMAIN nffcs : nffcs[i].collection = a \/ a \in DOMAIN nffcs[i].components}
    BY TableTypes DEF IsSummary
  <2> QED BY <2>1, NamedNffcs
<1>4. a \in there <=> with(a) # {}
  <2>1. a \in there <=> \E i \in DOMAIN nffcs : a \in DOMAIN nffcs[i].components
    OBVIOUS
  <2> QED BY <2>1
<1>5. there \subseteq {a}
  OBVIOUS
<1> HIDE DEF with, there
<1>6. CASE a \in there
  <2>1. there = {a} /\ found[a] = Cardinality(with(a)) /\ DOMAIN found = {a}
    BY <1>2, <1>5, <1>6
  <2>2. SumFunctionOnSet(found, {} \cup {a}) = found[a] + SumFunctionOnSet(found, {})
    <3>1. \A x \in {} \cup {a} : found[x] \in Int
      BY <1>3, <2>1
    <3> QED BY <3>1, FS_EmptySet, SumAdd
  <2>3. {} \cup {a} = {a} /\ SumFunctionOnSet(found, {}) = 0
    BY SumNothing
  <2>4. SumFunction(found) = SumFunctionOnSet(found, {a})
    BY <2>1 DEF SumFunction
  <2>5. SumFunctionOnSet(found, {a}) = Cardinality(with(a)) + 0
    BY <2>1, <2>2, <2>3
  <2> QED BY <1>3, <2>4, <2>5
<1>7. CASE a \notin there
  <2>1. there = {} /\ DOMAIN found = {}
    BY <1>2, <1>5, <1>7
  <2>2. Cardinality(with(a)) = 0
    BY <1>4, <1>7, FS_EmptySet
  <2>3. SumFunction(found) = 0
    BY <2>1, SumNothing DEF SumFunction
  <2> QED BY <1>3, <2>2, <2>3
<1> QED BY <1>6, <1>7

----------------------------------------------------------------------------
(* The report and the lists it sums up.                                        *)
LEMMA MarketTotal ==
  ASSUME TablesOK, NEW u, IsUrl(u)
  PROVE  MarketPage(u).total = Cardinality(ListingsFound(ParseMarket(u).filter))
<1>1. Shown("market", u).total = Len(InOrder("market", u))
  BY ShownIs
<1>2. ListingsFound(ParseMarket(u).filter) \in SUBSET DOMAIN nffcs
  BY DEF ListingsFound
<1>3. InOrder("market", u) = Sorted(ListingsFound(ParseMarket(u).filter), ListingsOrder(ParseMarket(u).sort))
  BY DEF InOrder
<1>4. Len(InOrder("market", u)) = Cardinality(ListingsFound(ParseMarket(u).filter))
  BY <1>2, <1>3, ListedOnce
<1>5. Shown("market", u) = MarketPage(u)
  BY DEF Shown
<1> QED BY <1>1, <1>4, <1>5

LEMMA NoFilter ==
  ASSUME TablesOK, NEW listed \in {{}, {"1"}}, NEW u, u = [Unfiltered EXCEPT !.listed = listed]
  PROVE  IsUrl(u) /\ ListingsFound(ParseMarket(u).filter)
                       = {i \in DOMAIN nffcs : listed # {} => Listed(nffcs[i])}
<1>1. IsUrl(u) /\ u.segment = {} /\ u.minRarity = {} /\ u.regime = {} /\ u.listed = listed
  BY DEF Unfiltered, NoParams, Params, IsUrl
<1> PICK f : f = ParseMarket(u).filter
  OBVIOUS
<1>2. f.segment = {} /\ f.minRarity = {} /\ f.regime = {} /\ (f.listedOnly <=> listed = {"1"})
  BY <1>1 DEF ParseMarket
<1>3. listed # {} <=> listed = {"1"}
  OBVIOUS
<1> QED BY <1>1, <1>2, <1>3 DEF ListingsFound, MatchesFilter

LEMMA SegmentsAddUp ==
  ASSUME TablesOK PROVE SumFunction(ProtocolReport.segmentCounts) = Len(nffcs)
<1> DEFINE one == [i \in DOMAIN nffcs |-> 1]
           key == [i \in DOMAIN nffcs |-> nffcs[i].segment]
           there == UNION {{nffcs[i].segment} : i \in DOMAIN nffcs}
           of(s) == {i \in DOMAIN nffcs : nffcs[i].segment = s}
<1> PICK g : g = ProtocolReport.segmentCounts
  OBVIOUS
<1>1. g = [s \in there |-> Cardinality(of(s))]
  BY DEF ProtocolReport, Occurring, CountOf
<1>2. there = {key[i] : i \in DOMAIN nffcs}
  OBVIOUS
<1>3. \A s : of(s) = {i \in DOMAIN nffcs : key[i] = s}
  OBVIOUS
<1>4. \A i \in DOMAIN nffcs : one[i] = 1 /\ one[i] \in Int /\ key[i] \in there
  BY <1>2
<1>5. IsFiniteSet(DOMAIN nffcs)
  BY TableTypes
<1> HIDE DEF one, key, there
<1>6. IsFiniteSet(there)
  BY <1>2, <1>5, ImageFinite
<1>7. \A s \in there : g[s] = SumFunctionOnSet(one, {i \in DOMAIN nffcs : key[i] = s})
  <2> SUFFICES ASSUME NEW s \in there
               PROVE  g[s] = SumFunctionOnSet(one, {i \in DOMAIN nffcs : key[i] = s})
    OBVIOUS
  <2>1. g[s] = Cardinality(of(s))
    BY <1>1
  <2>2. IsFiniteSet(of(s)) /\ \A i \in of(s) : one[i] = 1
    BY <1>4, <1>5, FS_Subset
  <2>3. SumFunctionOnSet(one, of(s)) = Cardinality(of(s))
    BY <2>2, SumOnes
  <2> QED BY <1>3, <2>1, <2>3
<1> HIDE DEF of
<1>8. SumFunctionOnSet(g, there) = SumFunctionOnSet(one, DOMAIN nffcs)
  <2>1. (\A i \in DOMAIN nffcs : one[i] \in Int) /\ (\A i \in DOMAIN nffcs : key[i] \in there)
    BY <1>4
  <2> QED BY <1>5, <1>6, <1>7, <2>1, SumGroups
<1>9. SumFunctionOnSet(one, DOMAIN nffcs) = Cardinality(DOMAIN nffcs)
  BY <1>4, <1>5, SumOnes
<1>10. DOMAIN g = there
  BY <1>1
<1> QED BY <1>8, <1>9, <1>10, TableSize DEF SumFunction

LEMMA SalesAreListed ==
  ASSUME TablesOK, Len(activity) <= ACTIVITY_MAX_PAGE_SIZE
  PROVE  ProtocolReport.saleCount = ActivityPage([Unfiltered EXCEPT !.kind = {"SALE"}]).total
<1> DEFINE none == [tokenId |-> {}, wallet |-> {}, kind |-> {}]
           u == [Unfiltered EXCEPT !.kind = {"SALE"}]
           sales == {i \in DOMAIN activity : activity[i].kind = "SALE"}
           all == EntriesFound(none)
<1>1. all = DOMAIN activity
  BY DEF EntriesFound, MatchesEntry
<1>2. /\ DOMAIN activity = 1..Len(activity) /\ Len(activity) \in Nat
      /\ Cardinality(DOMAIN activity) = Len(activity)
  <2>1. DOMAIN activity = 1..Len(activity) /\ Len(activity) \in Nat
    BY ViewsAssumption DEF TablesOK, IsTable
  <2>2. \A n \in Nat : Cardinality(1..n) = n
    BY FS_Interval
  <2> QED BY <2>1, <2>2
<1> PICK list : list = Sorted(DOMAIN activity, EntriesOrder)
  OBVIOUS
<1>3. list \in Seq(DOMAIN activity) /\ Len(list) = Len(activity) /\ Range(list) = DOMAIN activity
  <2>1. Comparator(EntriesOrder, DOMAIN activity)
    BY EntriesCompare
  <2> QED BY <1>2, <2>1, TableTypes, SortedIs
<1>4. ReportedEntries = list
  <2>1. /\ ACTIVITY_MAX_PAGE_SIZE \in Nat \ {0} /\ ACTIVITY_MAX_PAGE_SIZE # 0 /\ Larger(1, 1) = 1
        /\ Smaller(Larger(1, ACTIVITY_MAX_PAGE_SIZE), ACTIVITY_MAX_PAGE_SIZE) = ACTIVITY_MAX_PAGE_SIZE
    BY ViewsAssumption DEF Smaller, Larger
  <2>2. ReportedEntries = PageOf(list, 1, ACTIVITY_MAX_PAGE_SIZE)
    <3>1. ReportedEntries = Result(list, 1, ACTIVITY_MAX_PAGE_SIZE, ACTIVITY_DEFAULT_PAGE_SIZE,
                                   ACTIVITY_MAX_PAGE_SIZE).items
      BY <1>1, Zenon DEF ReportedEntries, QueryActivity
    <3> QED BY <2>1, <3>1 DEF Result
  <2>3. PageOf(list, 1, ACTIVITY_MAX_PAGE_SIZE) = SubSeq(list, 1, Len(list))
    <3>1. (1 - 1) * ACTIVITY_MAX_PAGE_SIZE + 1 = 1 /\ 1 * ACTIVITY_MAX_PAGE_SIZE = ACTIVITY_MAX_PAGE_SIZE
      BY <2>1
    <3>2. Smaller(ACTIVITY_MAX_PAGE_SIZE, Len(list)) = Len(list)
      BY <1>2, <1>3, <2>1 DEF Smaller
    <3> QED BY <3>1, <3>2 DEF PageOf
  <2> QED BY <1>3, <2>2, <2>3, SubSeqFull
<1>5. ProtocolReport.saleCount = Cardinality(sales)
  <2>1. \A i \in DOMAIN activity : activity[i].kind = "SALE" => activity[i].amount # {}
    BY TableTypes DEF IsEntry
  <2>2. {i \in Range(ReportedEntries) : activity[i].kind = "SALE" /\ activity[i].amount # {}} = sales
    BY <1>3, <1>4, <2>1
  <2> HIDE DEF sales
  <2> QED BY <2>2 DEF ProtocolReport
<1>6. IsUrl(u) /\ EntriesFound(ParseActivity(u).filter) = sales
  <2>1. IsUrl(u) /\ u.tokenId = {} /\ u.wallet = {} /\ u.kind = {"SALE"}
    BY DEF Unfiltered, NoParams, Params, IsUrl
  <2> HIDE DEF u
  <2> PICK f : f = ParseActivity(u).filter
    OBVIOUS
  <2>2. f.tokenId = {} /\ f.wallet = {} /\ f.kind = {"SALE"}
    BY <2>1 DEF ParseActivity, Kinds
  <2> QED BY <2>1, <2>2 DEF EntriesFound, MatchesEntry
<1> HIDE DEF u, none
<1>7. ActivityPage(u).total = Len(Sorted(sales, EntriesOrder))
  <2>1. Shown("activity", u).total = Len(InOrder("activity", u))
    BY <1>6, ShownIs
  <2> QED BY <1>6, <2>1 DEF Shown, InOrder
<1>8. Len(Sorted(sales, EntriesOrder)) = Cardinality(sales)
  <2>1. sales \in SUBSET DOMAIN activity
    OBVIOUS
  <2> HIDE DEF sales
  <2> QED BY <2>1, TableTypes, FS_Subset, EntriesCompare, SortedIs
<1> QED BY <1>5, <1>7, <1>8 DEF u

LEMMA ReportIs ==
  ASSUME TablesOK
  PROVE  /\ ProtocolReport.totalNffcs = MarketPage(Unfiltered).total
         /\ ProtocolReport.totalNffcs = Len(nffcs)
         /\ ProtocolReport.activeListingCount = MarketPage([Unfiltered EXCEPT !.listed = {"1"}]).total
<1>1. /\ ProtocolReport.totalNffcs = Len(nffcs)
      /\ ProtocolReport.activeListingCount = Cardinality({i \in DOMAIN nffcs : Listed(nffcs[i])})
  BY DEF ProtocolReport, CountOf
<1>2. Unfiltered = [Unfiltered EXCEPT !.listed = {}]
  BY DEF Unfiltered, NoParams, Params
<1>3. MarketPage(Unfiltered).total = Cardinality(DOMAIN nffcs)
  <2> PICK u : u = [Unfiltered EXCEPT !.listed = {}]
    OBVIOUS
  <2>1. IsUrl(u) /\ ListingsFound(ParseMarket(u).filter) = DOMAIN nffcs
    BY NoFilter
  <2> QED BY <1>2, <2>1, MarketTotal
<1>4. MarketPage([Unfiltered EXCEPT !.listed = {"1"}]).total
        = Cardinality({i \in DOMAIN nffcs : Listed(nffcs[i])})
  <2> PICK u : u = [Unfiltered EXCEPT !.listed = {"1"}]
    OBVIOUS
  <2>1. IsUrl(u) /\ ListingsFound(ParseMarket(u).filter) = {i \in DOMAIN nffcs : Listed(nffcs[i])}
    BY NoFilter
  <2> QED BY <2>1, MarketTotal
<1> QED BY <1>1, <1>3, <1>4, TableSize

----------------------------------------------------------------------------
LEMMA PagesAgree == ASSUME TablesOK PROVE ViewsAgree
<1>1. ASSUME NEW w \in Wallets
      PROVE  LET found == Search(Only({w})).wallets  shown == Profile(w) IN
             /\ w \in DOMAIN found <=> shown.created # <<>> \/ shown.owned # <<>>
             /\ w \in DOMAIN found => /\ found[w].created = Len(shown.created)
                                      /\ found[w].owned = Len(shown.owned)
             /\ LET entries == ActivityPage([Unfiltered EXCEPT !.wallet = {w}]).items IN
                shown.recentActivity = SubSeq(entries, 1, Len(shown.recentActivity))
  <2> PICK found, shown : found = Search(Only({w})).wallets /\ shown = Profile(w)
    OBVIOUS
  <2>1. Made(w) \in SUBSET DOMAIN nffcs /\ Has(w) \in SUBSET DOMAIN nffcs
    BY DEF Made, Has
  <2>2. /\ shown.created = Sorted(Made(w), ListingsOrder("newest"))
        /\ shown.owned = Sorted(Has(w), ListingsOrder("newest"))
        /\ shown.recentActivity = RecentActivity(w)
    BY ProfileIs
  <2>3. /\ Len(shown.created) = Cardinality(Made(w)) /\ (shown.created = <<>> <=> Made(w) = {})
        /\ Len(shown.owned) = Cardinality(Has(w)) /\ (shown.owned = <<>> <=> Has(w) = {})
    BY <2>1, <2>2, ListedOnce
  <2>4. /\ w \in DOMAIN found <=> Made(w) # {} \/ Has(w) # {}
        /\ w \in DOMAIN found => /\ found[w].created = Cardinality(Made(w))
                                 /\ found[w].owned = Cardinality(Has(w))
    BY WalletFound
  <2> PICK entries : entries = ActivityPage([Unfiltered EXCEPT !.wallet = {w}]).items
    OBVIOUS
  <2>5. RecentActivity(w) = SubSeq(entries, 1, Len(RecentActivity(w)))
    BY RecentIsShown
  <2> QED BY <2>2, <2>3, <2>4, <2>5
<1>2. ASSUME NEW c \in Collections
      PROVE  LET found == Search(Only({c})).collections IN
             /\ DOMAIN found = DOMAIN ListAllCollections \cap {c}
             /\ c \in DOMAIN found =>
                  /\ found[c] = ListAllCollections[c].nffcCount
                  /\ found[c] = Len(Search(Only({c})).nffcs)
                  /\ LET minted == {w \in Wallets : c \in DOMAIN Profile(w).collections} IN
                     found[c] = SumFunction([w \in minted |-> Profile(w).collections[c]])
  <2> PICK found : found = Search(Only({c})).collections
    OBVIOUS
  <2>1. /\ DOMAIN found = Within \cap {c} /\ (c \in Within => found[c] = Cardinality(Of(c)))
        /\ DOMAIN ListAllCollections = Within
        /\ c \in Within => ListAllCollections[c].nffcCount = Cardinality(Of(c))
    BY CollectionsAre
  <2>2. Len(Search(Only({c})).nffcs) = Cardinality(Of(c))
    <3>1. Of(c) = {i \in DOMAIN nffcs : nffcs[i].collection = c \/ c \in DOMAIN nffcs[i].components}
      BY TableTypes, ViewsAssumption DEF Of, IsSummary
    <3> QED BY <3>1, NamedNffcs
  <2> PICK minted : minted = {w \in Wallets : c \in DOMAIN Profile(w).collections}
    OBVIOUS
  <2> PICK g : g = [w \in minted |-> Profile(w).collections[c]]
    OBVIOUS
  <2>3. SumFunction(g) = Cardinality(Of(c))
    BY MadeAll
  <2> QED BY <2>1, <2>2, <2>3
<1>3. \A a \in Assets : LET found == Search(Only({a})) IN
                        SumFunction(found.assets) = Len(found.nffcs)
  BY AssetsFound, ViewsAssumption
<1> QED BY <1>1, <1>2, <1>3, ReportIs, SegmentsAddUp, SalesAreListed DEF ViewsAgree

(* Pages that count the same thing say the same, whatever the tables hold and  *)
(* whatever is opened (search, profile, admin, listings, activity).            *)
THEOREM PagesCountAlike == ViewSpec => []ViewsAgree
<1>1. ViewIInv => ViewsAgree
  BY PagesAgree DEF ViewIInv, ViewTypeOK
<1> QED BY <1>1, ViewInvariant, PTL

----------------------------------------------------------------------------
----------------------------------------------------------------------------
(* The hook's invariant: an effect's fetch stands only for the address it ran  *)
(* for; what the reducer holds is of that address.                             *)
Priced == /\ DOMAIN market = DOMAIN nffcs
          /\ \A i \in DOMAIN nffcs : IsSnapshot(market[i])
Standing == \A f \in fetches : f.address \in Wallets /\ (~f.cancelled => {f.address} = effectOf)
Awaited == effectOf # {} /\ fetched.loading => \E f \in fetches : ~f.cancelled
TheirsOnly == \A p \in fetched.portfolio :
                /\ effectOf # {} => {p.ownerAddress} = effectOf
                /\ p.holdings = Held(p.ownerAddress) /\ AddsUp(p)
HookIInv == TablesOK /\ Priced /\ Standing /\ Awaited /\ TheirsOnly

(* What the aggregate of any holdings adds up to.                              *)
LEMMA ValueType ==
  ASSUME NEW m, IsSnapshot(m)
  PROVE  (IF m.nav = {} THEN 0 ELSE CHOOSE v \in m.nav : TRUE) \in Nat
<1> QED BY DEF IsSnapshot

LEMMA GroupsAddUp ==
  ASSUME NEW held, IsFiniteSet(held), NEW V, \A i \in held : V[i] \in Nat, NEW key,
         NEW groups, groups = {key[i] : i \in held}
  PROVE  SumFunction([k \in groups |-> SumFunctionOnSet(V, {i \in held : key[i] = k})])
           = SumFunctionOnSet(V, held)
<1> DEFINE g == [k \in groups |-> SumFunctionOnSet(V, {i \in held : key[i] = k})]
<1>1. DOMAIN g = groups /\ \A k \in groups : g[k] = SumFunctionOnSet(V, {i \in held : key[i] = k})
  OBVIOUS
<1>2. IsFiniteSet(groups)
  BY ImageFinite
<1>3. \A i \in held : key[i] \in groups /\ V[i] \in Int
  OBVIOUS
<1> HIDE DEF g
<1>4. SumFunctionOnSet(g, groups) = SumFunctionOnSet(V, held)
  BY <1>1, <1>2, <1>3, SumGroups
<1> QED BY <1>1, <1>4 DEF SumFunction, g

(* The holdings worth something, their assets, and what is held by asset, where*)
(* V[i] is what holding i is worth and C[i] what it is made of.                *)
Worthy(V, held) == {i \in held : V[i] # 0}
AssetsIn(C, valued) == UNION {DOMAIN C[i] : i \in valued}
ByAsset(V, C, valued, assets) ==
  [a \in assets |-> SumFunction([i \in {j \in valued : a \in DOMAIN C[j]} |-> V[i] * C[i][a]])]

(* Assets: C[i] is what holding i is made of, weighing total in all.           *)
LEMMA AssetsAddUp ==
  ASSUME NEW held, IsFiniteSet(held), NEW V, \A i \in held : V[i] \in Nat, NEW total \in Nat,
         NEW C, \A i \in held : IsFiniteSet(DOMAIN C[i]) /\ SumFunction(C[i]) = total,
         \A i \in held : \A a \in DOMAIN C[i] : C[i][a] \in Nat,
         NEW valued, valued = Worthy(V, held), NEW assets, assets = AssetsIn(C, valued)
  PROVE  SumFunction(ByAsset(V, C, valued, assets)) = SumFunctionOnSet(V, held) * total
<1> USE DEF Worthy, AssetsIn
<1> DEFINE f == [i \in valued |-> [a \in assets |-> IF a \in DOMAIN C[i] THEN V[i] * C[i][a] ELSE 0]]
           with(a) == {j \in valued : a \in DOMAIN C[j]}
           byColumn == [a \in assets |-> SumFunction([i \in with(a) |-> V[i] * C[i][a]])]
           byRow == [i \in valued |-> total * V[i]]
<1>1. IsFiniteSet(valued) /\ IsFiniteSet(assets)
  <2>1. IsFiniteSet(valued)
    BY FS_Subset
  <2>2. IsFiniteSet({DOMAIN C[i] : i \in valued})
    <3> DEFINE d == [i \in valued |-> DOMAIN C[i]]
    <3>1. {d[i] : i \in valued} = {DOMAIN C[i] : i \in valued}
      OBVIOUS
    <3> HIDE DEF d
    <3>2. IsFiniteSet({d[i] : i \in valued})
      BY <2>1, ImageFinite
    <3> QED BY <3>1, <3>2
  <2>3. \A d \in {DOMAIN C[i] : i \in valued} : IsFiniteSet(d)
    OBVIOUS
  <2> QED BY <2>1, <2>2, <2>3, FS_UNION
<1>2. \A i \in valued, a \in assets : f[i][a] \in Int
  <2> SUFFICES ASSUME NEW i \in valued, NEW a \in assets PROVE f[i][a] \in Int
    OBVIOUS
  <2>1. CASE a \in DOMAIN C[i]
    <3>1. V[i] \in Nat /\ C[i][a] \in Nat
      BY <2>1
    <3>2. V[i] * C[i][a] \in Int
      <4>1. \A x, y \in Nat : x * y \in Int
        BY Z3
      <4> QED BY <3>1, <4>1
    <3> QED BY <2>1, <3>2
  <2>2. CASE a \notin DOMAIN C[i]
    BY <2>2
  <2> QED BY <2>1, <2>2
<1>3. ASSUME NEW i \in valued PROVE byRow[i] = SumFunctionOnSet(f[i], assets)
  <2> DEFINE D == DOMAIN C[i]
             g == [a \in D |-> V[i] * C[i][a]]
  <2>1. D \in SUBSET assets /\ IsFiniteSet(D) /\ V[i] \in Int
    OBVIOUS
  <2>2. \A a \in D : g[a] = f[i][a]
    BY <2>1
  <2>3. \A a \in assets \ D : f[i][a] = 0
    OBVIOUS
  <2>4. \A a \in D : C[i][a] \in Int /\ g[a] = V[i] * C[i][a]
    BY <2>1
  <2>5. SumFunctionOnSet(C[i], D) = total
    BY DEF SumFunction
  <2>6. \A a \in assets : f[i][a] \in Int
    BY <1>2
  <2> HIDE DEF D, g, f
  <2>7. SumFunctionOnSet(g, D) = SumFunctionOnSet(f[i], assets)
    <3> PICK h : h = f[i]
      OBVIOUS
    <3> QED BY <1>1, <2>1, <2>2, <2>3, <2>6, SumOnly
  <2>8. SumFunctionOnSet(g, D) = V[i] * total
    <3> PICK c, v : c = C[i] /\ v = V[i]
      OBVIOUS
    <3>1. SumFunctionOnSet(g, D) = v * SumFunctionOnSet(c, D)
      BY <2>1, <2>4, SumScale
    <3> QED BY <2>5, <3>1
  <2>9. V[i] * total = total * V[i]
    <3>1. \A x, y \in Int : x * y = y * x
      BY Z3
    <3> QED BY <2>1, <3>1
  <2> QED BY <2>7, <2>8, <2>9
<1>4. ASSUME NEW a \in assets
      PROVE  byColumn[a] = SumFunctionOnSet([i \in valued |-> f[i][a]], valued)
  <2> DEFINE g == [i \in with(a) |-> V[i] * C[i][a]]
             h == [i \in valued |-> f[i][a]]
  <2>1. \A i \in valued : h[i] \in Int
    BY <1>2
  <2>2. \A i \in with(a) : g[i] = h[i]
    OBVIOUS
  <2>3. \A i \in valued \ with(a) : h[i] = 0
    OBVIOUS
  <2>4. with(a) \in SUBSET valued /\ DOMAIN g = with(a)
    OBVIOUS
  <2>5. byColumn[a] = SumFunctionOnSet(g, with(a))
    BY <2>4 DEF SumFunction
  <2> HIDE DEF g, h, with, byColumn
  <2>6. SumFunctionOnSet(g, with(a)) = SumFunctionOnSet(h, valued)
    BY <1>1, <2>1, <2>2, <2>3, <2>4, SumOnly
  <2> QED BY <2>5, <2>6 DEF h
<1>5. DOMAIN byColumn = assets
  OBVIOUS
<1>6. SumFunctionOnSet(byRow, valued) = total * SumFunctionOnSet(V, held)
  <2>1. \A i \in valued : V[i] \in Int /\ byRow[i] = total * V[i]
    OBVIOUS
  <2>2. valued \in SUBSET held /\ (\A i \in held : V[i] \in Int) /\ (\A i \in held \ valued : V[i] = 0)
    OBVIOUS
  <2>3. SumFunctionOnSet(V, valued) = SumFunctionOnSet(V, held)
    BY <2>2, SumOnly
  <2> HIDE DEF byRow
  <2>4. SumFunctionOnSet(byRow, valued) = total * SumFunctionOnSet(V, valued)
    BY <1>1, <2>1, SumScale
  <2> QED BY <2>3, <2>4
<1>7. SumFunctionOnSet(V, held) \in Int
  <2>1. \A i \in held : V[i] \in Int
    OBVIOUS
  <2> QED BY <2>1, SumType
<1> HIDE DEF f, byColumn, byRow
<1>8. SumFunctionOnSet(byColumn, assets) = SumFunctionOnSet(byRow, valued)
  <2>1. \A i \in valued : byRow[i] = SumFunctionOnSet(f[i], assets)
    BY <1>3
  <2>2. \A a \in assets : byColumn[a] = SumFunctionOnSet([i \in valued |-> f[i][a]], valued)
    BY <1>4
  <2>3. /\ Grid(f, valued, assets) /\ RowSums(f, valued, assets, byRow)
        /\ ColumnSums(f, valued, assets, byColumn)
    BY <1>2, <2>1, <2>2 DEF Grid, RowSums, ColumnSums
  <2> QED BY <1>1, <2>3, SumSwap
<1>9. total * SumFunctionOnSet(V, held) = SumFunctionOnSet(V, held) * total
  <2>1. \A x, y \in Int : x * y = y * x
    BY Z3
  <2> QED BY <1>7, <2>1
<1>10. SumFunction(byColumn) = SumFunctionOnSet(V, held) * total
  BY <1>5, <1>6, <1>8, <1>9 DEF SumFunction
<1> QED BY <1>10 DEF byColumn, ByAsset

(* What is answered for a wallet is its own, and adds up.                      *)
LEMMA AggregateIs ==
  ASSUME TablesOK, Priced, NEW a
  PROVE  LET p == GetPortfolio(a) IN p.ownerAddress = a /\ p.holdings = Held(a) /\ AddsUp(p)
<1> DEFINE held == Held(a)
           V == [i \in held |-> HoldingValue(i)]
           C == [i \in held |-> nffcs[i].components]
           valued == {i \in held : V[i] # 0}
           assets == UNION {DOMAIN C[i] : i \in valued}
           segment == [i \in held |-> nffcs[i].segment]
           collection == [i \in held |-> nffcs[i].collection]
<1> PICK p : p = GetPortfolio(a)
  OBVIOUS
<1>1. /\ p.ownerAddress = a /\ p.holdings = held /\ p.totalReferenceValue = Total(held)
      /\ p.exposureByAsset = ExposureByAsset(held)
      /\ p.exposureBySegment = ExposureBySegment(held)
      /\ p.exposureByCollection = ExposureByCollection(held)
  BY DEF GetPortfolio, AggregatePortfolio, Held
<1>2. IsFiniteSet(held)
  BY TableTypes, FS_Subset DEF Held
<1>3. \A i \in held : V[i] \in Nat /\ V[i] = HoldingValue(i)
  BY ValueType DEF HoldingValue, Priced, Held
<1>4. \A T \in SUBSET held : Total(T) = SumFunctionOnSet(V, T)
  <2> SUFFICES ASSUME NEW T \in SUBSET held PROVE Total(T) = SumFunctionOnSet(V, T)
    OBVIOUS
  <2> DEFINE g == [i \in T |-> HoldingValue(i)]
  <2>1. DOMAIN g = T /\ \A i \in T : g[i] = V[i]
    OBVIOUS
  <2>2. IsFiniteSet(T)
    BY <1>2, FS_Subset
  <2>3. Total(T) = SumFunctionOnSet(g, T)
    BY <2>1, Zenon DEF Total, SumFunction
  <2> HIDE DEF g, V
  <2> QED BY <2>1, <2>2, <2>3, SumSame
<1>5. \A i \in held : /\ IsSummary(nffcs[i]) /\ C[i] = nffcs[i].components
                      /\ SumFunction(C[i]) = BpsTotal
  <2>1. held \subseteq DOMAIN nffcs
    BY DEF Held
  <2>2. \A i \in DOMAIN nffcs : SumFunction(nffcs[i].components) = BpsTotal
    BY PortfolioAssumption DEF TablesOK
  <2> QED BY <2>1, <2>2, TableTypes
<1>6. \A i \in held : /\ IsFiniteSet(DOMAIN C[i]) /\ SumFunction(C[i]) = BpsTotal
                      /\ \A b \in DOMAIN C[i] : C[i][b] \in Nat
  BY <1>5 DEF IsSummary
<1> USE DEF Sums
<1>7. Sums(p.exposureBySegment) = Total(held)
  <2> DEFINE groups == {segment[i] : i \in held}
             e == p.exposureBySegment
             g == [k \in groups |-> SumFunctionOnSet(V, {i \in held : segment[i] = k})]
  <2>1. DOMAIN e = groups /\ \A k \in groups : e[k].value = Total({i \in held : segment[i] = k})
    <3>1. e = [k \in {nffcs[i].segment : i \in held} |->
                 [value |-> Total({i \in held : nffcs[i].segment = k}),
                  holdingCount |-> Cardinality({i \in held : nffcs[i].segment = k})]]
      BY <1>1 DEF ExposureBySegment, ExposureBy
    <3>2. {nffcs[i].segment : i \in held} = groups
      OBVIOUS
    <3>3. \A k : {i \in held : nffcs[i].segment = k} = {i \in held : segment[i] = k}
      OBVIOUS
    <3> HIDE DEF e, groups, segment
    <3> QED BY <3>1, <3>2, <3>3
  <2>2. [k \in DOMAIN e |-> e[k].value] = g
    BY <1>4, <2>1
  <2> HIDE DEF e, segment, V
  <2>3. SumFunction(g) = SumFunctionOnSet(V, held)
    BY <1>2, <1>3, GroupsAddUp
  <2> QED BY <1>4, <2>2, <2>3 DEF e
<1>8. Sums(p.exposureByCollection) = Total(held)
  <2> DEFINE groups == {collection[i] : i \in held}
             e == p.exposureByCollection
             g == [k \in groups |-> SumFunctionOnSet(V, {i \in held : collection[i] = k})]
  <2>1. DOMAIN e = groups /\ \A k \in groups : e[k].value = Total({i \in held : collection[i] = k})
    <3>1. e = [k \in {nffcs[i].collection : i \in held} |->
                 [value |-> Total({i \in held : nffcs[i].collection = k}),
                  holdingCount |-> Cardinality({i \in held : nffcs[i].collection = k})]]
      BY <1>1 DEF ExposureByCollection, ExposureBy
    <3>2. {nffcs[i].collection : i \in held} = groups
      OBVIOUS
    <3>3. \A k : {i \in held : nffcs[i].collection = k} = {i \in held : collection[i] = k}
      OBVIOUS
    <3> HIDE DEF e, groups, collection
    <3> QED BY <3>1, <3>2, <3>3
  <2>2. [k \in DOMAIN e |-> e[k].value] = g
    BY <1>4, <2>1
  <2> HIDE DEF e, collection, V
  <2>3. SumFunction(g) = SumFunctionOnSet(V, held)
    BY <1>2, <1>3, GroupsAddUp
  <2> QED BY <1>4, <2>2, <2>3 DEF e
<1>9. SumFunction(p.exposureByAsset) = Total(held) * BpsTotal
  <2> DEFINE whole == ByAsset(V, C, valued, assets)
  <2>1. p.exposureByAsset = whole
    <3>1. {i \in held : HoldingValue(i) # 0} = valued
      BY <1>3
    <3>2. valued \subseteq held
      OBVIOUS
    <3>3. \A i \in valued : V[i] = HoldingValue(i) /\ C[i] = nffcs[i].components
      BY <1>3, <1>5
    <3>4. assets = UNION {DOMAIN nffcs[i].components : i \in valued}
      BY <3>3
    <3>5. ExposureByAsset(held) =
            [b \in UNION {DOMAIN nffcs[i].components : i \in valued} |->
               SumFunction([i \in {j \in valued : b \in DOMAIN nffcs[j].components} |->
                              HoldingValue(i) * nffcs[i].components[b]])]
      BY <3>1, Zenon DEF ExposureByAsset
    <3> HIDE DEF valued, V, C, assets
    <3>6. ASSUME NEW b \in assets
          PROVE  SumFunction([i \in {j \in valued : b \in DOMAIN nffcs[j].components} |->
                                HoldingValue(i) * nffcs[i].components[b]])
                   = SumFunction([i \in {j \in valued : b \in DOMAIN C[j]} |-> V[i] * C[i][b]])
      <4>1. {j \in valued : b \in DOMAIN nffcs[j].components} = {j \in valued : b \in DOMAIN C[j]}
        BY <3>3
      <4>2. [i \in {j \in valued : b \in DOMAIN nffcs[j].components} |->
                                HoldingValue(i) * nffcs[i].components[b]]
              = [i \in {j \in valued : b \in DOMAIN C[j]} |-> V[i] * C[i][b]]
        BY <3>3, <4>1
      <4> QED BY <4>2
    <3> QED BY <1>1, <3>4, <3>5, <3>6 DEF ByAsset
  <2> HIDE DEF V, C
  <2>2. BpsTotal \in Nat
    BY RulesAssumption
  <2>3. SumFunction(whole) = SumFunctionOnSet(V, held) * BpsTotal
    <3>1. \A i \in held : V[i] \in Nat
      BY <1>3
    <3>2. \A i \in held : IsFiniteSet(DOMAIN C[i]) /\ SumFunction(C[i]) = BpsTotal
      BY <1>6
    <3>3. \A i \in held : \A b \in DOMAIN C[i] : C[i][b] \in Nat
      BY <1>6
    <3>4. valued = Worthy(V, held) /\ assets = AssetsIn(C, valued)
      BY DEF Worthy, AssetsIn
    <3> HIDE DEF valued, assets, held
    <3> QED BY <1>2, <2>2, <3>1, <3>2, <3>3, <3>4, AssetsAddUp
  <2> QED BY <1>4, <2>1, <2>3
<1> HIDE DEF Sums
<1> QED BY <1>1, <1>7, <1>8, <1>9 DEF AddsUp

LEMMA HookInit == ASSUME ViewInit, PortfolioInit PROVE HookIInv
<1>1. TablesOK
  BY DEF ViewInit, TablesOK
<1>2. IsSnapshot(EmptyMarketSnapshot)
  BY FS_EmptySet DEF IsSnapshot, EmptyMarketSnapshot
<1>3. Priced
  BY <1>2 DEF PortfolioInit, Priced
<1>4. Standing /\ Awaited
  BY DEF PortfolioInit, Standing, Awaited
<1>5. TheirsOnly
  BY DEF PortfolioInit, TheirsOnly, InitialState
<1> QED BY <1>1, <1>3, <1>4, <1>5 DEF HookIInv

(* Held and AddsUp speak of the tables and the answer alone.                   *)
LEMMA StillTheirs ==
  ASSUME nffcs' = nffcs
  PROVE  /\ \A a : Held(a)' = Held(a)
         /\ TablesOK /\ activity' = activity => TablesOK'
<1>1. \A a : Held(a)' = Held(a)
  BY DEF Held
<1> QED BY <1>1 DEF TablesOK

LEMMA RenderKeeps ==
  ASSUME HookIInv, UNCHANGED viewVars, NEW a, Render(a) PROVE HookIInv'
<1>1. nffcs' = nffcs /\ activity' = activity
  BY DEF viewVars
<1>2. TablesOK'
  BY <1>1, StillTheirs DEF HookIInv
<1>3. UNCHANGED <<market, effectOf, fetched, fetches>>
  BY DEF Render
<1>4. Priced'
  BY <1>1, <1>3 DEF HookIInv, Priced
<1>5. Standing' /\ Awaited'
  BY <1>3 DEF HookIInv, Standing, Awaited
<1>6. TheirsOnly'
  BY <1>1, <1>3, StillTheirs DEF HookIInv, TheirsOnly, AddsUp, Sums
<1> QED BY <1>2, <1>4, <1>5, <1>6 DEF HookIInv

LEMMA RunEffectKeeps ==
  ASSUME HookIInv, UNCHANGED viewVars, address \in {{w} : w \in Wallets} \cup {{}}, RunEffect
  PROVE  HookIInv'
<1>1. nffcs' = nffcs /\ activity' = activity
  BY DEF viewVars
<1>2. TablesOK'
  BY <1>1, StillTheirs DEF HookIInv
<1>3. UNCHANGED <<market, address, renders>> /\ effectOf' = address
  BY DEF RunEffect
<1>4. Priced'
  BY <1>1, <1>3 DEF HookIInv, Priced
<1> PICK new : new = {[id |-> renders, address |-> a, cancelled |-> FALSE] : a \in address}
  OBVIOUS
<1> PICK old : old = CleanedUp(fetches)
  OBVIOUS
<1>5. fetches' = old \cup new
  BY DEF RunEffect
<1>6. \A f \in old : f.cancelled /\ f.address \in Wallets
  <2>1. \A g \in fetches : LET h == [g EXCEPT !.cancelled = TRUE] IN
          h.cancelled /\ h.address \in Wallets
    BY DEF HookIInv, Standing
  <2> QED BY <2>1 DEF CleanedUp
<1>7. \A f \in new : ~f.cancelled /\ f.address \in address
  OBVIOUS
<1>8. Standing'
  BY <1>3, <1>5, <1>6, <1>7 DEF Standing
<1>9. Awaited'
  <2>1. ASSUME NEW a \in address
        PROVE  [id |-> renders, address |-> a, cancelled |-> FALSE] \in new
    OBVIOUS
  <2> QED BY <1>3, <1>5, <1>7, <2>1 DEF Awaited
<1>10. TheirsOnly'
  <2>1. CASE address = {}
    <3>1. fetched' = fetched
      BY <2>1 DEF RunEffect
    <3> QED BY <1>1, <1>3, <2>1, <3>1, StillTheirs DEF HookIInv, TheirsOnly, AddsUp, Sums
  <2>2. CASE address # {}
    BY <2>2 DEF RunEffect, FetchStart, TheirsOnly
  <2> QED BY <2>1, <2>2
<1> QED BY <1>2, <1>4, <1>8, <1>9, <1>10 DEF HookIInv

LEMMA ArrivesKeeps ==
  ASSUME HookIInv, UNCHANGED viewVars, NEW f \in fetches, NEW state, Arrives(f, state),
         state = FetchSuccess(GetPortfolio(f.address)) \/ state = FetchError
  PROVE  HookIInv'
<1>1. nffcs' = nffcs /\ activity' = activity
  BY DEF viewVars
<1>2. TablesOK'
  BY <1>1, StillTheirs DEF HookIInv
<1>3. UNCHANGED <<market, address, effectOf, renders>>
  BY DEF Arrives
<1>4. Priced'
  BY <1>1, <1>3 DEF HookIInv, Priced
<1>5. fetches' = fetches \ {f} /\ fetched' = IF f.cancelled THEN fetched ELSE state
  BY DEF Arrives
<1>6. Standing'
  BY <1>3, <1>5 DEF HookIInv, Standing
<1>7. ~state.loading
  BY DEF FetchSuccess, FetchError
<1>8. Awaited'
  <2>1. CASE f.cancelled
    BY <1>3, <1>5, <2>1 DEF HookIInv, Awaited
  <2>2. CASE ~f.cancelled
    BY <1>5, <1>7, <2>2 DEF Awaited
  <2> QED BY <2>1, <2>2
<1>9. ASSUME ~f.cancelled, NEW p \in state.portfolio
      PROVE  {p.ownerAddress} = effectOf /\ p.holdings = Held(p.ownerAddress) /\ AddsUp(p)
  <2>1. p = GetPortfolio(f.address)
    BY <1>9 DEF FetchSuccess, FetchError
  <2>2. p.ownerAddress = f.address /\ p.holdings = Held(f.address) /\ AddsUp(p)
    BY <2>1, AggregateIs DEF HookIInv
  <2> QED BY <1>9, <2>2 DEF HookIInv, Standing
<1>10. TheirsOnly'
  <2>1. CASE f.cancelled
    BY <1>1, <1>3, <1>5, <2>1, StillTheirs DEF HookIInv, TheirsOnly, AddsUp, Sums
  <2>2. CASE ~f.cancelled
    <3>1. fetched' = state
      BY <1>5, <2>2
    <3> QED BY <1>1, <1>3, <1>9, <2>2, <3>1, StillTheirs DEF TheirsOnly, AddsUp, Sums
  <2> QED BY <2>1, <2>2
<1> QED BY <1>2, <1>4, <1>6, <1>8, <1>10 DEF HookIInv

LEMMA RepriceKeeps ==
  ASSUME HookIInv, UNCHANGED viewVars, NEW i \in DOMAIN nffcs, NEW m \in Snapshots, Reprice(i, m)
  PROVE  HookIInv'
<1>1. nffcs' = nffcs /\ activity' = activity
  BY DEF viewVars
<1>2. TablesOK'
  BY <1>1, StillTheirs DEF HookIInv
<1>3. UNCHANGED <<address, effectOf, fetched, fetches, renders>> /\ market' = [market EXCEPT ![i] = m]
  BY DEF Reprice
<1>4. Priced'
  <2>1. IsSnapshot(m)
    BY PortfolioAssumption
  <2>2. DOMAIN market' = DOMAIN nffcs' /\ \A j \in DOMAIN nffcs : market'[j] = m \/ market'[j] = market[j]
    BY <1>1, <1>3 DEF HookIInv, Priced
  <2> QED BY <1>1, <2>1, <2>2 DEF HookIInv, Priced
<1>5. Standing' /\ Awaited'
  BY <1>3 DEF HookIInv, Standing, Awaited
<1>6. TheirsOnly'
  BY <1>1, <1>3, StillTheirs DEF HookIInv, TheirsOnly, AddsUp, Sums
<1> QED BY <1>2, <1>4, <1>5, <1>6 DEF HookIInv

AddressOK == address \in {{w} : w \in Wallets} \cup {{}}

LEMMA HookStep ==
  ASSUME HookIInv, AddressOK,
         [PortfolioNext /\ UNCHANGED viewVars]_<<viewVars, portfolioVars>>
  PROVE  HookIInv' /\ AddressOK'
<1>1. CASE PortfolioNext /\ UNCHANGED viewVars
  <2>1. ASSUME NEW a \in {{w} : w \in Wallets} \cup {{}}, Render(a) PROVE HookIInv' /\ AddressOK'
    BY <1>1, <2>1, RenderKeeps DEF Render, AddressOK
  <2>2. CASE RunEffect
    BY <1>1, <2>2, RunEffectKeeps DEF RunEffect, AddressOK
  <2>3. ASSUME NEW f \in fetches, Respond(f) \/ Fail(f) PROVE HookIInv' /\ AddressOK'
    BY <1>1, <2>3, ArrivesKeeps DEF Respond, Fail, Arrives, AddressOK
  <2>4. ASSUME NEW i \in DOMAIN nffcs, NEW m \in Snapshots, Reprice(i, m) PROVE HookIInv' /\ AddressOK'
    BY <1>1, <2>4, RepriceKeeps DEF Reprice, AddressOK
  <2> QED BY <1>1, <2>1, <2>2, <2>3, <2>4 DEF PortfolioNext
<1>2. CASE UNCHANGED <<viewVars, portfolioVars>>
  <2>1. UNCHANGED <<market, address, effectOf, fetched, fetches>> /\ nffcs' = nffcs /\ activity' = activity
    BY <1>2 DEF viewVars, portfolioVars
  <2>2. TablesOK' /\ Priced' /\ Standing' /\ Awaited' /\ AddressOK'
    BY <2>1, StillTheirs DEF HookIInv, Priced, Standing, Awaited, AddressOK
  <2>3. TheirsOnly'
    BY <2>1, StillTheirs DEF HookIInv, TheirsOnly, AddsUp, Sums
  <2> QED BY <2>2, <2>3 DEF HookIInv
<1> QED BY <1>1, <1>2

LEMMA ShownIsTheirs == ASSUME HookIInv PROVE PortfolioIsTheWallets
<1> SUFFICES ASSUME effectOf = address
             PROVE  /\ \A p \in Returned.portfolio :
                         {p.ownerAddress} = address /\ p.holdings = Held(p.ownerAddress) /\ AddsUp(p)
                    /\ Returned.loading => \E f \in fetches : ~f.cancelled /\ {f.address} = address
  BY DEF PortfolioIsTheWallets
<1>1. CASE address = {}
  BY <1>1 DEF Returned, InitialState
<1>2. CASE address # {}
  <2>1. Returned = fetched
    BY <1>2 DEF Returned
  <2> QED BY <1>2, <2>1 DEF HookIInv, TheirsOnly, Awaited, Standing
<1> QED BY <1>1, <1>2

(* The page shows the connected wallet's portfolio and nobody else's, adding   *)
(* up, whatever the wallets, the rows, the prices and the order answers come   *)
(* back in (usePortfolio, aggregatePortfolio).                                 *)
THEOREM TheWalletsOwn == PortfolioSpec => []PortfolioIsTheWallets
<1>1. ViewInit /\ PortfolioInit => HookIInv /\ AddressOK
  BY HookInit DEF PortfolioInit, AddressOK
<1>2. HookIInv /\ AddressOK /\ [PortfolioNext /\ UNCHANGED viewVars]_<<viewVars, portfolioVars>>
        => HookIInv' /\ AddressOK'
  BY HookStep
<1>3. HookIInv => PortfolioIsTheWallets
  BY ShownIsTheirs
<1> QED BY <1>1, <1>2, <1>3, PTL DEF PortfolioSpec
=============================================================================
