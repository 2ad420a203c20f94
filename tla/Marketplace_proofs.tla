------------------------- MODULE Marketplace_proofs -------------------------
(***************************************************************************)
(* Theorems about Marketplace, for any accounts, tokens, prices and bounds. *)
(***************************************************************************)
EXTENDS Marketplace, FiniteSetTheorems, TLAPS

----------------------------------------------------------------------------
(* The escrow as a set of wei *)

\* The n wei of one offer are n.
LEMMA WeiOfOneOffer ==
    ASSUME NEW o, NEW n \in Nat
    PROVE  IsFiniteSet({o} \X (1..n)) /\ Cardinality({o} \X (1..n)) = n
<1>1. IsFiniteSet({o}) /\ Cardinality({o}) = 1
  BY FS_Singleton
<1>2. IsFiniteSet(1..n) /\ Cardinality(1..n) = n
  BY FS_Interval
<1>3. /\ IsFiniteSet({o} \X (1..n))
      /\ Cardinality({o} \X (1..n)) = Cardinality({o}) * Cardinality(1..n)
  BY <1>1, <1>2, FS_Product, Zenon
<1> QED
  BY <1>1, <1>2, <1>3

\* Two disjoint finite parts add up.
LEMMA DisjointParts ==
    ASSUME NEW S, NEW T, IsFiniteSet(S), IsFiniteSet(T), S \cap T = {}
    PROVE  /\ IsFiniteSet(S \cup T)
           /\ Cardinality(S \cup T) = Cardinality(S) + Cardinality(T)
<1>1. Cardinality(S) \in Nat /\ Cardinality(T) \in Nat
  BY FS_CardinalityType
<1>2. Cardinality(S \cap T) = 0
  BY FS_EmptySet
<1>3. /\ IsFiniteSet(S \cup T)
      /\ Cardinality(S \cup T)
           = Cardinality(S) + Cardinality(T) - Cardinality(S \cap T)
  BY FS_Union, Zenon
<1> QED
  BY <1>1, <1>2, <1>3

\* A wei is in escrow when it is one of the price of an open offer.
LEMMA WeiMembership ==
    ASSUME NEW b \in Seq(Offer), NEW x
    PROVE  x \in EscrowedWei(b) <=>
             \E o \in 1..Len(b) : b[o].active /\ x \in {o} \X (1..b[o].price)
BY DEF EscrowedWei

\* Adding an open offer adds its price to the worth of the book.
LEMMA WorthOfAppend ==
    ASSUME NEW b \in Seq(Offer), NEW offer \in Offer, offer.active,
           IsFiniteSet(EscrowedWei(b))
    PROVE  /\ IsFiniteSet(EscrowedWei(Append(b, offer)))
           /\ Worth(Append(b, offer)) = Worth(b) + offer.price
<1> DEFINE c == Append(b, offer)
           n == Len(b) + 1
           Old == EscrowedWei(b)
           New == {n} \X (1..offer.price)
<1>1. /\ c \in Seq(Offer) /\ Len(c) = n /\ c[n] = offer
      /\ \A o \in 1..Len(b) : c[o] = b[o]
      /\ Len(b) \in Nat /\ offer.price \in Nat
  BY DEF Offer
<1>2. EscrowedWei(c) = Old \cup New
  <2>1. ASSUME NEW x
        PROVE  x \in EscrowedWei(c) <=> x \in Old \/ x \in New
    <3>1. x \in EscrowedWei(c) <=>
             \E o \in 1..n : c[o].active /\ x \in {o} \X (1..c[o].price)
      BY <1>1, WeiMembership
    <3>2. x \in Old <=>
             \E o \in 1..Len(b) : b[o].active /\ x \in {o} \X (1..b[o].price)
      BY WeiMembership
    <3>3. \A o : o \in 1..n <=> o \in 1..Len(b) \/ o = n
      BY <1>1
    <3> HIDE DEF c, n, Old
    <3> QED
      BY <1>1, <3>1, <3>2, <3>3
  <2> QED
    BY <2>1
<1>3. Old \cap New = {}
  <2>1. ASSUME NEW x \in Old, x \in New
        PROVE  FALSE
    <3>1. PICK o \in 1..Len(b) : x \in {o} \X (1..b[o].price)
      BY <2>1, WeiMembership
    <3>2. x[1] = o /\ x[1] = n
      BY <2>1, <3>1
    <3> QED
      BY <1>1, <3>2
  <2> QED
    BY <2>1
<1>4. IsFiniteSet(New) /\ Cardinality(New) = offer.price
  BY <1>1, WeiOfOneOffer
<1>5. /\ IsFiniteSet(Old \cup New)
      /\ Cardinality(Old \cup New) = Cardinality(Old) + Cardinality(New)
  BY <1>3, <1>4, DisjointParts, Zenon
<1>6. Worth(b) = Cardinality(Old) /\ Worth(c) = Cardinality(Old \cup New)
  BY <1>2, Zenon DEF Worth
<1> QED
  BY <1>2, <1>4, <1>5, <1>6, Zenon

\* Closing an open offer takes its price out of the worth of the book.
LEMMA WorthOfClose ==
    ASSUME NEW b \in Seq(Offer), NEW k \in 1..Len(b), b[k].active,
           IsFiniteSet(EscrowedWei(b))
    PROVE  LET c == [b EXCEPT ![k].active = FALSE]
           IN  /\ IsFiniteSet(EscrowedWei(c))
               /\ Worth(c) \in Nat
               /\ Worth(b) = Worth(c) + b[k].price
<1> DEFINE c == [b EXCEPT ![k].active = FALSE]
           Rest == EscrowedWei(c)
           Gone == {k} \X (1..b[k].price)
<1>1. /\ c \in Seq(Offer) /\ Len(c) = Len(b) /\ ~c[k].active
      /\ \A o \in 1..Len(b) : o # k => c[o] = b[o]
      /\ b[k].price \in Nat
  <2>1. b \in [1..Len(b) -> Offer] /\ Len(b) \in Nat
    OBVIOUS
  <2>2. [b[k] EXCEPT !.active = FALSE] \in Offer
    BY <2>1 DEF Offer
  <2>3. /\ c \in [1..Len(b) -> Offer] /\ ~c[k].active
        /\ \A o \in 1..Len(b) : o # k => c[o] = b[o]
    BY <2>1, <2>2 DEF Offer
  <2>4. c \in Seq(Offer) /\ Len(c) = Len(b)
    BY <2>1, <2>3
  <2> QED
    BY <2>1, <2>3, <2>4 DEF Offer
<1>2. EscrowedWei(b) = Rest \cup Gone
  <2>1. ASSUME NEW x
        PROVE  x \in EscrowedWei(b) <=> x \in Rest \/ x \in Gone
    <3>1. x \in EscrowedWei(b) <=>
             \E o \in 1..Len(b) : b[o].active /\ x \in {o} \X (1..b[o].price)
      BY WeiMembership
    <3>2. x \in Rest <=>
             \E o \in 1..Len(b) : c[o].active /\ x \in {o} \X (1..c[o].price)
      BY <1>1, WeiMembership
    <3> HIDE DEF c, Rest
    <3> QED
      BY <1>1, <3>1, <3>2
  <2> QED
    BY <2>1
<1>3. Rest \cap Gone = {}
  <2>1. ASSUME NEW x \in Rest, x \in Gone
        PROVE  FALSE
    <3>1. PICK o \in 1..Len(c) : c[o].active /\ x \in {o} \X (1..c[o].price)
      BY <1>1, <2>1, WeiMembership
    <3>2. x[1] = o /\ x[1] = k
      BY <2>1, <3>1
    <3> QED
      BY <1>1, <3>1, <3>2
  <2> QED
    BY <2>1
<1>4. IsFiniteSet(Gone) /\ Cardinality(Gone) = b[k].price
  BY <1>1, WeiOfOneOffer
<1>5. IsFiniteSet(Rest)
  BY <1>2, FS_Subset
<1>6. Cardinality(Rest) \in Nat
  BY <1>5, FS_CardinalityType
<1>7. Cardinality(Rest \cup Gone) = Cardinality(Rest) + Cardinality(Gone)
  BY <1>3, <1>4, <1>5, DisjointParts, Zenon
<1>8. Worth(c) = Cardinality(Rest) /\ Worth(b) = Cardinality(Rest \cup Gone)
  BY <1>2, Zenon DEF Worth
<1> QED
  BY <1>4, <1>5, <1>6, <1>7, <1>8, Zenon

----------------------------------------------------------------------------
(* Types and solvency *)

\* The inductive invariant behind solvency. Solvency alone is not inductive:
\* a payout needs the cuts to fit in the price, and a revert needs the state
\* it goes back to to be solvent.
CutsFit == pc # "idle" => call.fee + call.royalty <= call.price

SavedSolvent ==
    pc # "idle" => /\ IsFiniteSet(EscrowedWei(saved.offers))
                   /\ saved.balance = Worth(saved.offers)

Solvency ==
    /\ TypeOK
    /\ IsFiniteSet(EscrowedWei(offers))
    /\ EscrowSolvent
    /\ CutsFit
    /\ SavedSolvent

\* What a guarded call saves has the type of what a revert restores.
LEMMA SnapshotType == TypeOK => Snapshot \in ChainState
BY DEF TypeOK, Snapshot, ChainState

\* The worth of a finite escrow is a number.
LEMMA WorthType ==
    ASSUME NEW b, IsFiniteSet(EscrowedWei(b))
    PROVE  Worth(b) \in Nat
BY FS_CardinalityType DEF Worth

\* Cuts are numbers and a cut at zero basis points is nothing.
LEMMA CutType ==
    ASSUME NEW price \in Nat, NEW bps \in Nat
    PROVE  /\ Cut(price, bps) \in Nat
           /\ bps = 0 => Cut(price, bps) = 0
BY DEF Cut, BPS_TOTAL

\* The contract starts empty and solvent.
LEMMA InitSolvency == Init => Solvency
<1> SUFFICES ASSUME Init PROVE Solvency
  OBVIOUS
<1>1. TypeOK
  <2>1. owner \in [Tokens -> Holders] /\ listings \in [Tokens -> Listing]
    BY DEF Init, Holders, Listing
  <2>2. feeBps \in Nat /\ royaltyBps \in [CollectionIds -> Nat] /\ offers \in Seq(Offer)
    BY AmountsAssumption DEF Init
  <2> QED
    BY <2>1, <2>2 DEF Init, TypeOK, Holders
<1>2. EscrowedWei(offers) = {}
  BY DEF Init, EscrowedWei
<1>3. IsFiniteSet(EscrowedWei(offers)) /\ Worth(offers) = 0
  BY <1>2, FS_EmptySet DEF Worth
<1> QED
  BY <1>1, <1>3 DEF Init, Solvency, EscrowSolvent, Undisbursed, CutsFit, SavedSolvent

\* One lemma per group of actions: what a step that leaves the escrow, the
\* balance and the running call alone keeps.
LEMMA QuietStep ==
    ASSUME Solvency, TypeOK',
           offers' = offers, balance' = balance, UNCHANGED callVars
    PROVE  Solvency'
BY DEF Solvency, EscrowSolvent, Undisbursed, CutsFit, SavedSolvent, callVars,
       Proceeds

LEMMA ListingStep ==
    ASSUME Solvency, NEW a \in Accounts, NEW t \in Tokens, NEW price \in Prices,
           CreateListing(a, t, price)
    PROVE  Solvency'
<1>1. TypeOK
  BY DEF Solvency
<1>2. [seller |-> a, price |-> price, active |-> TRUE] \in Listing
  BY AmountsAssumption DEF Listing, Holders
<1>3. TypeOK'
  BY <1>1, <1>2 DEF TypeOK, CreateListing, nftVars, feeVars, callVars
<1> QED
  BY <1>3, QuietStep DEF CreateListing

LEMMA CancelListingStep ==
    ASSUME Solvency, NEW a \in Accounts, NEW t \in Tokens, CancelListing(a, t)
    PROVE  Solvency'
<1>1. TypeOK
  BY DEF Solvency
<1>2. listings' \in [Tokens -> Listing]
  BY <1>1 DEF TypeOK, CancelListing, CloseListing, Listing
<1>3. TypeOK'
  BY <1>1, <1>2 DEF TypeOK, CancelListing, nftVars, feeVars, callVars
<1> QED
  BY <1>3, QuietStep DEF CancelListing

LEMMA OutsideStep ==
    ASSUME Solvency, AdminCall \/ TokenCall \/ Tick
    PROVE  Solvency'
<1> USE DEF TypeOK, nftVars, marketVars, feeVars, callVars
<1>1. TypeOK
  BY DEF Solvency
<1>2. CASE AdminCall
  <2>1. CASE Pause \/ Unpause
    BY <1>1, <2>1, QuietStep DEF Pause, Unpause
  <2>2. CASE \E bps \in BpsChoices : SetMarketplaceFeeBps(bps)
    BY <1>1, <2>2, QuietStep, AmountsAssumption DEF SetMarketplaceFeeBps
  <2>3. CASE \E c \in CollectionIds, bps \in BpsChoices : SetRoyaltyBps(c, bps)
    BY <1>1, <2>3, QuietStep, AmountsAssumption DEF SetRoyaltyBps
  <2>4. CASE \E r \in Accounts : SetFeeRecipient(r)
    BY <1>1, <2>4, QuietStep DEF SetFeeRecipient
  <2> QED
    BY <1>2, <2>1, <2>2, <2>3, <2>4 DEF AdminCall
<1>3. CASE TokenCall
  <2>1. PICK a \in Accounts :
           \/ \E t \in Tokens : Mint(a, t)
           \/ \E t \in Tokens, to \in Accounts : Transfer(a, t, to)
           \/ SetApprovalForAll(a)
    BY <1>3 DEF TokenCall
  <2>2. CASE \E t \in Tokens : Mint(a, t)
    BY <1>1, <2>2, QuietStep DEF Mint, Holders
  <2>3. CASE \E t \in Tokens, to \in Accounts : Transfer(a, t, to)
    BY <1>1, <2>3, QuietStep DEF Transfer, Holders
  <2>4. CASE SetApprovalForAll(a)
    BY <1>1, <2>4, QuietStep DEF SetApprovalForAll
  <2> QED
    BY <2>1, <2>2, <2>3, <2>4
<1>4. CASE Tick
  BY <1>1, <1>4, QuietStep DEF Tick
<1> QED
  BY <1>2, <1>3, <1>4

\* createOffer: escrow and balance grow by the same amount.
LEMMA CreateOfferStep ==
    ASSUME Solvency, NEW a \in Accounts, NEW t \in Tokens,
           NEW price \in Prices, NEW expiry \in Expiries,
           CreateOffer(a, t, price, expiry)
    PROVE  Solvency'
<1> DEFINE offer == [tokenId |-> t, buyer |-> a, price |-> price,
                     expiry |-> expiry, active |-> TRUE]
<1>1. TypeOK /\ price \in Nat
  BY AmountsAssumption DEF Solvency
<1>2. offer \in Offer /\ offer.active /\ offer.price = price
  BY AmountsAssumption DEF Offer
<1>3. offers' = Append(offers, offer) /\ balance' = balance + price
  BY DEF CreateOffer, WithNewOffer
<1>4. offers \in Seq(Offer) /\ IsFiniteSet(EscrowedWei(offers))
  BY <1>1 DEF Solvency, TypeOK
<1> HIDE DEF offer
<1>5. /\ IsFiniteSet(EscrowedWei(Append(offers, offer)))
      /\ Worth(Append(offers, offer)) = Worth(offers) + offer.price
  BY <1>2, <1>4, WorthOfAppend
<1>6. IsFiniteSet(EscrowedWei(offers))' /\ Worth(offers)' = Worth(offers) + price
  BY <1>2, <1>3, <1>5
<1>7. TypeOK'
  <2>1. offers' \in Seq(Offer) /\ balance' \in Nat
    BY <1>1, <1>2, <1>3, <1>4 DEF TypeOK
  <2> QED
    BY <1>1, <2>1 DEF TypeOK, CreateOffer, nftVars, feeVars, callVars
<1>8. UNCHANGED <<pc, call, saved>>
  BY DEF CreateOffer, callVars
<1>9. Undisbursed' = Undisbursed
  BY <1>8 DEF Undisbursed, Proceeds
<1>10. Undisbursed \in Int /\ Worth(offers) \in Nat
  <2>1. Worth(offers) \in Nat
    BY <1>4, WorthType
  <2>2. CASE pc = "idle"
    BY <2>1, <2>2 DEF Undisbursed
  <2>3. CASE pc # "idle"
    BY <1>1, <2>1, <2>3 DEF Undisbursed, TypeOK, Call, Proceeds
  <2> QED
    BY <2>2, <2>3
<1>11. EscrowSolvent'
  BY <1>1, <1>3, <1>6, <1>9, <1>10 DEF Solvency, EscrowSolvent
<1> QED
  BY <1>6, <1>7, <1>8, <1>11 DEF Solvency, CutsFit, SavedSolvent

\* A payout takes its amount out of the balance and of what is undisbursed.
LEMMA PayStep ==
    ASSUME Solvency, PayFee \/ PayRoyalty \/ PayProceeds
    PROVE  Solvency'
<1>1. TypeOK /\ pc # "idle" /\ call \in Call /\ balance \in Nat
  BY DEF Solvency, TypeOK, PayFee, PayRoyalty, PayProceeds
<1>2. /\ call.price \in Nat /\ call.fee \in Nat /\ call.royalty \in Nat
      /\ call.fee + call.royalty <= call.price
      /\ call.seller \in Accounts
  BY <1>1 DEF Call, Solvency, CutsFit
<1>3. Worth(offers) \in Nat
  BY WorthType DEF Solvency
<1>4. UNCHANGED <<now, owner, operators, paused, listings, offers, feeBps,
                  royaltyBps, feeRecipient, call, saved>>
  BY DEF PayFee, PayRoyalty, PayProceeds, nftVars, feeVars
<1>5. balance = Worth(offers) + Undisbursed /\ Worth(offers)' = Worth(offers)
  BY <1>4 DEF Solvency, EscrowSolvent, Worth, EscrowedWei
<1>6. /\ pc' \in Stages /\ pc' # "idle" /\ running' \in Holders
      /\ Undisbursed' \in Nat /\ balance' \in Int
      /\ balance' - Undisbursed' = balance - Undisbursed
  <2>1. CASE PayFee
    <3>1. pc = "moved" /\ pc' = "feePaid" /\ balance' = balance - call.fee
      BY <2>1 DEF PayFee
    <3>2. Undisbursed = call.price /\ Undisbursed' = call.price - call.fee
      BY <1>4, <3>1 DEF Undisbursed
    <3>3. running' \in Holders
      BY <1>1, <2>1 DEF PayFee, Callee, TypeOK, Holders
    <3> QED
      BY <1>1, <1>2, <3>1, <3>2, <3>3 DEF Stages, SettlementStages
  <2>2. CASE PayRoyalty
    <3>1. pc = "feePaid" /\ pc' = "royaltyPaid" /\ balance' = balance - call.royalty
      BY <2>2 DEF PayRoyalty
    <3>2. /\ Undisbursed = call.price - call.fee
          /\ Undisbursed' = call.price - call.fee - call.royalty
      BY <1>4, <3>1 DEF Undisbursed, Proceeds
    <3>3. running' \in Holders
      BY <2>2, AccountsAssumption DEF PayRoyalty, Callee, CreatorOf, Holders
    <3> QED
      BY <1>1, <1>2, <3>1, <3>2, <3>3 DEF Stages, SettlementStages
  <2>3. CASE PayProceeds
    <3>1. /\ pc = "royaltyPaid" /\ pc' = "proceedsPaid"
          /\ balance' = balance - (call.price - call.fee - call.royalty)
      BY <2>3 DEF PayProceeds, Proceeds
    <3>2. /\ Undisbursed = call.price - call.fee - call.royalty
          /\ Undisbursed' = 0
      BY <1>4, <3>1 DEF Undisbursed, Proceeds
    <3>3. running' \in Holders
      BY <1>2, <2>3 DEF PayProceeds, Callee, Holders
    <3> QED
      BY <1>1, <1>2, <3>1, <3>2, <3>3 DEF Stages, SettlementStages
  <2> QED
    BY <2>1, <2>2, <2>3
<1>7. Undisbursed \in Int
  BY <1>1, <1>2 DEF Undisbursed, Proceeds
<1>8. balance' \in Nat /\ EscrowSolvent'
  <2>1. balance' = Worth(offers) + Undisbursed'
    BY <1>1, <1>3, <1>5, <1>6, <1>7
  <2> QED
    BY <1>3, <1>5, <1>6, <2>1 DEF EscrowSolvent
<1>9. TypeOK'
  BY <1>1, <1>4, <1>6, <1>8 DEF TypeOK
<1> QED
  BY <1>1, <1>4, <1>6, <1>8, <1>9 DEF Solvency, CutsFit, SavedSolvent

\* The end of a guarded call leaves nothing undisbursed.
LEMMA ReturnStep ==
    ASSUME Solvency, Return
    PROVE  Solvency'
<1>1. TypeOK'
  BY DEF Solvency, TypeOK, Return, nftVars, marketVars, feeVars, Holders
<1>2. Undisbursed = 0 /\ Undisbursed' = 0
  BY DEF Return, Undisbursed
<1>3. EscrowSolvent' /\ IsFiniteSet(EscrowedWei(offers))'
  BY <1>2 DEF Solvency, EscrowSolvent, Return, marketVars
<1> QED
  BY <1>1, <1>3 DEF Solvency, CutsFit, SavedSolvent, Return

\* A revert goes back to a solvent state in which nothing was running.
LEMMA RevertStep ==
    ASSUME Solvency, Revert
    PROVE  Solvency'
<1>1. pc \in Stages /\ pc # "idle" /\ saved \in ChainState
  BY DEF Solvency, TypeOK, Revert, Stages, SettlementStages
<1>2. TypeOK'
  BY <1>1 DEF Solvency, TypeOK, Revert, ChainState, Holders
<1>3. IsFiniteSet(EscrowedWei(offers))' /\ balance' = Worth(offers)'
  BY <1>1 DEF Solvency, SavedSolvent, Revert
<1>4. Undisbursed' = 0 /\ pc' = "idle"
  BY DEF Revert, Undisbursed
<1>5. EscrowSolvent'
  BY <1>2, <1>3, <1>4 DEF EscrowSolvent, TypeOK
<1> QED
  BY <1>2, <1>3, <1>4, <1>5 DEF Solvency, CutsFit, SavedSolvent

\* What a guarded call saves when it starts is solvent.
LEMMA SnapshotSolvent ==
    ASSUME Solvency, pc = "idle"
    PROVE  /\ Snapshot \in ChainState
           /\ IsFiniteSet(EscrowedWei(Snapshot.offers))
           /\ Snapshot.balance = Worth(Snapshot.offers)
           /\ balance = Worth(offers) /\ Worth(offers) \in Nat
<1>1. Snapshot.offers = offers /\ Snapshot.balance = balance
  BY DEF Snapshot
<1>2. Worth(offers) \in Nat /\ Undisbursed = 0
  BY WorthType DEF Solvency, Undisbursed
<1> QED
  BY <1>1, <1>2, SnapshotType DEF Solvency, EscrowSolvent

\* The cuts a settlement starts with are numbers and fit in the price.
LEMMA SettleCutsType ==
    ASSUME TypeOK, NEW t \in Tokens, NEW seller \in Accounts,
           NEW buyer \in Accounts, NEW price \in Nat
    PROVE  LET c == SettleCuts(t, seller, buyer, price)
           IN  /\ c \in Call /\ c.price = price
               /\ Proceeds(c) >= 0 => c.fee + c.royalty <= c.price
<1>1. feeBps \in Nat /\ royaltyBps[CollectionOf[t]] \in Nat
  BY AccountsAssumption DEF TypeOK
<1>2. Cut(price, feeBps) \in Nat /\ Cut(price, royaltyBps[CollectionOf[t]]) \in Nat
  BY <1>1, CutType
<1> QED
  BY <1>2 DEF SettleCuts, Call, Proceeds

\* buy takes in the price that the settlement then owes.
LEMMA BuyStep ==
    ASSUME Solvency, NEW a \in Accounts, NEW t \in Tokens, Buy(a, t)
    PROVE  Solvency'
<1> DEFINE l == listings[t]
           c == SettleCuts(t, l.seller, a, l.price)
<1>1. /\ TypeOK /\ pc = "idle" /\ l \in Listing /\ l.price \in Nat
      /\ owner[t] \in Holders /\ owner \in [Tokens -> Holders]
  BY DEF Solvency, TypeOK, Buy, Listing
<1>2. l.seller \in Accounts
  BY <1>1 DEF Buy, Settle, Solvency, TypeOK
<1>3. /\ call' = c /\ pc' = "moved" /\ saved' = Snapshot
      /\ balance' = balance + l.price /\ Proceeds(c) >= 0
      /\ offers' = offers
  BY DEF Buy, Settle
<1>4. c \in Call /\ c.price = l.price /\ c.fee + c.royalty <= c.price
  BY <1>1, <1>2, <1>3, SettleCutsType
<1> HIDE DEF c
<1>5. /\ Snapshot \in ChainState
      /\ IsFiniteSet(EscrowedWei(Snapshot.offers))
      /\ Snapshot.balance = Worth(Snapshot.offers)
      /\ balance = Worth(offers) /\ Worth(offers) \in Nat
  BY <1>1, SnapshotSolvent
<1>6. TypeOK'
  <2>1. listings' \in [Tokens -> Listing]
    BY <1>1 DEF Buy, CloseListing, TypeOK, Listing
  <2>2. owner' \in [Tokens -> Holders] /\ running' \in Holders
    BY <1>1 DEF Buy, Settle, Holders
  <2>3. balance' \in Nat
    BY <1>1, <1>3, <1>5
  <2> QED
    BY <1>1, <1>3, <1>4, <1>5, <2>1, <2>2, <2>3
    DEF TypeOK, Buy, feeVars, Stages, SettlementStages
<1>7. Undisbursed' = l.price
  BY <1>3, <1>4 DEF Undisbursed
<1>8. EscrowSolvent' /\ IsFiniteSet(EscrowedWei(offers))'
  BY <1>3, <1>5, <1>7 DEF EscrowSolvent, Solvency
<1> QED
  BY <1>3, <1>4, <1>5, <1>6, <1>8 DEF Solvency, CutsFit, SavedSolvent

\* Closing an open offer frees exactly its price.
LEMMA CloseOfferWorth ==
    ASSUME Solvency, NEW o \in ActiveOffers
    PROVE  /\ offers[o] \in Offer /\ o \in 1..Len(offers)
           /\ CloseOffer(o) \in Seq(Offer)
           /\ IsFiniteSet(EscrowedWei(CloseOffer(o)))
           /\ Worth(CloseOffer(o)) \in Nat
           /\ Worth(offers) = Worth(CloseOffer(o)) + offers[o].price
<1>1. /\ offers \in Seq(Offer) /\ o \in 1..Len(offers) /\ offers[o].active
      /\ IsFiniteSet(EscrowedWei(offers))
  BY DEF Solvency, TypeOK, ActiveOffers, OfferIds
<1>2. offers[o] \in Offer /\ [offers[o] EXCEPT !.active = FALSE] \in Offer
  <2>1. offers[o] \in Offer
    BY <1>1
  <2> QED
    BY <2>1 DEF Offer
<1>3. CloseOffer(o) \in Seq(Offer)
  BY <1>1, <1>2 DEF CloseOffer
<1> QED
  BY <1>1, <1>2, <1>3, WorthOfClose DEF CloseOffer

\* acceptOffer turns escrow into the price the settlement owes.
LEMMA AcceptOfferStep ==
    ASSUME Solvency, NEW a \in Accounts, NEW o \in OfferIds, AcceptOffer(a, o)
    PROVE  Solvency'
<1> DEFINE t == offers[o].tokenId
           price == offers[o].price
           c == SettleCuts(t, a, offers[o].buyer, price)
<1>1. /\ TypeOK /\ pc = "idle" /\ o \in ActiveOffers
      /\ owner \in [Tokens -> Holders] /\ listings \in [Tokens -> Listing]
  BY DEF Solvency, TypeOK, AcceptOffer
<1>2. /\ offers[o] \in Offer
      /\ CloseOffer(o) \in Seq(Offer)
      /\ IsFiniteSet(EscrowedWei(CloseOffer(o)))
      /\ Worth(CloseOffer(o)) \in Nat
      /\ Worth(offers) = Worth(CloseOffer(o)) + offers[o].price
  BY <1>1, CloseOfferWorth
<1>3. t \in Tokens /\ offers[o].buyer \in Accounts /\ price \in Nat
  BY <1>2 DEF Offer
<1>4. /\ call' = c /\ pc' = "moved" /\ saved' = Snapshot
      /\ balance' = balance /\ Proceeds(c) >= 0 /\ offers' = CloseOffer(o)
  BY DEF AcceptOffer, Settle
<1>5. c \in Call /\ c.price = price /\ c.fee + c.royalty <= c.price
  BY <1>1, <1>3, <1>4, SettleCutsType
<1>6. /\ Snapshot \in ChainState
      /\ IsFiniteSet(EscrowedWei(Snapshot.offers))
      /\ Snapshot.balance = Worth(Snapshot.offers)
      /\ balance = Worth(offers) /\ Worth(offers) \in Nat
  BY <1>1, SnapshotSolvent
<1>7. TypeOK'
  <2>1. listings' \in [Tokens -> Listing]
    BY <1>1, <1>3 DEF AcceptOffer, CloseListing, Listing
  <2>2. owner' \in [Tokens -> Holders] /\ running' \in Holders
    BY <1>1, <1>3 DEF AcceptOffer, Settle, Holders
  <2> HIDE DEF c
  <2> QED
    BY <1>1, <1>2, <1>4, <1>5, <1>6, <2>1, <2>2
    DEF TypeOK, AcceptOffer, feeVars, Stages, SettlementStages
<1> HIDE DEF c
<1>8. Undisbursed' = price
  BY <1>4, <1>5 DEF Undisbursed
<1>9. EscrowSolvent' /\ IsFiniteSet(EscrowedWei(offers))'
  BY <1>2, <1>4, <1>6, <1>8 DEF EscrowSolvent
<1> QED
  BY <1>4, <1>5, <1>6, <1>7, <1>9 DEF Solvency, CutsFit, SavedSolvent

\* cancelOffer pays out what closing the offer frees.
LEMMA CancelOfferStep ==
    ASSUME Solvency, NEW a \in Accounts, NEW o \in OfferIds, CancelOffer(a, o)
    PROVE  Solvency'
<1>1. TypeOK /\ pc = "idle" /\ o \in ActiveOffers
  BY DEF Solvency, CancelOffer
<1>2. /\ offers[o] \in Offer
      /\ CloseOffer(o) \in Seq(Offer)
      /\ IsFiniteSet(EscrowedWei(CloseOffer(o)))
      /\ Worth(CloseOffer(o)) \in Nat
      /\ Worth(offers) = Worth(CloseOffer(o)) + offers[o].price
  BY <1>1, CloseOfferWorth
<1>3. offers[o].tokenId \in Tokens /\ offers[o].price \in Nat
  BY <1>2 DEF Offer
<1>4. /\ pc' = "refunded" /\ saved' = Snapshot /\ offers' = CloseOffer(o)
      /\ balance' = balance - offers[o].price
      /\ call' = [tokenId |-> offers[o].tokenId, seller |-> a, buyer |-> a,
                  price |-> offers[o].price, fee |-> 0, royalty |-> 0]
  BY DEF CancelOffer
<1>5. /\ Snapshot \in ChainState
      /\ IsFiniteSet(EscrowedWei(Snapshot.offers))
      /\ Snapshot.balance = Worth(Snapshot.offers)
      /\ balance = Worth(offers) /\ Worth(offers) \in Nat
  BY <1>1, SnapshotSolvent
<1>6. call' \in Call /\ (call.fee + call.royalty <= call.price)'
  BY <1>3, <1>4 DEF Call
<1>7. balance' \in Nat /\ balance' = Worth(offers)'
  BY <1>2, <1>3, <1>4, <1>5
<1>8. TypeOK'
  <2>1. running' \in Holders
    BY DEF CancelOffer, Callee, Holders
  <2> QED
    BY <1>1, <1>2, <1>4, <1>5, <1>6, <1>7, <2>1
    DEF TypeOK, CancelOffer, nftVars, feeVars, Stages, SettlementStages
<1>9. Undisbursed' = 0
  BY <1>4 DEF Undisbursed
<1>10. EscrowSolvent' /\ IsFiniteSet(EscrowedWei(offers))'
  BY <1>2, <1>4, <1>7, <1>9 DEF EscrowSolvent
<1> QED
  BY <1>4, <1>5, <1>6, <1>8, <1>10 DEF Solvency, CutsFit, SavedSolvent

\* Every step of the contract keeps the inductive invariant.
LEMMA StepSolvency == Solvency /\ [Next]_vars => Solvency'
<1> SUFFICES ASSUME Solvency, [Next]_vars PROVE Solvency'
  OBVIOUS
<1>1. CASE UNCHANGED vars
  <2>1. UNCHANGED <<now, owner, operators, paused, listings, offers, balance,
                    feeBps, royaltyBps, feeRecipient, pc, call, running, saved>>
    BY <1>1 DEF vars, nftVars, marketVars, feeVars, callVars
  <2>2. TypeOK'
    BY <2>1 DEF Solvency, TypeOK
  <2> QED
    BY <2>1, <2>2, QuietStep DEF callVars
<1>2. CASE Advance
  BY <1>2, PayStep, ReturnStep DEF Advance
<1>3. CASE Revert
  BY <1>3, RevertStep
<1>4. CASE MarketCall
  <2>1. PICK a \in Accounts :
           \/ \E t \in Tokens, price \in Prices : CreateListing(a, t, price)
           \/ \E t \in Tokens : CancelListing(a, t) \/ Buy(a, t)
           \/ \E t \in Tokens, price \in Prices, expiry \in Expiries :
                  CreateOffer(a, t, price, expiry)
           \/ \E o \in OfferIds : CancelOffer(a, o) \/ AcceptOffer(a, o)
    BY <1>4 DEF MarketCall
  <2>2. CASE \E t \in Tokens, price \in Prices : CreateListing(a, t, price)
    BY <2>2, ListingStep
  <2>3. CASE \E t \in Tokens : CancelListing(a, t) \/ Buy(a, t)
    <3>1. CASE \E t \in Tokens : CancelListing(a, t)
      BY <3>1, CancelListingStep
    <3>2. CASE \E t \in Tokens : Buy(a, t)
      BY <3>2, BuyStep
    <3> QED
      BY <2>3, <3>1, <3>2
  <2>4. CASE \E t \in Tokens, price \in Prices, expiry \in Expiries :
                CreateOffer(a, t, price, expiry)
    BY <2>4, CreateOfferStep
  <2>5. CASE \E o \in OfferIds : CancelOffer(a, o) \/ AcceptOffer(a, o)
    BY <2>5, CancelOfferStep, AcceptOfferStep
  <2> QED
    BY <2>1, <2>2, <2>3, <2>4, <2>5
<1>5. CASE AdminCall \/ TokenCall \/ Tick
  BY <1>5, OutsideStep
<1> QED
  BY <1>1, <1>2, <1>3, <1>4, <1>5 DEF Next

\* Solvency is an invariant.
LEMMA SpecSolvency == Spec => []Solvency
BY InitSolvency, StepSolvency, PTL DEF Spec

\* Every reachable state is well typed; in particular the ether the contract
\* holds never goes below zero, whatever payouts it makes.
THEOREM TypeCorrect == Spec => []TypeOK
<1>1. Solvency => TypeOK
  BY DEF Solvency
<1> QED
  BY <1>1, SpecSolvency, PTL

\* The contract's ether is exactly what it owes in every reachable state, the
\* ones a contract called in the middle of a settlement acts in included
\* (Marketplace.sol createOffer, cancelOffer, acceptOffer, buy, _settle).
THEOREM Solvent == Spec => []EscrowSolvent
<1>1. Solvency => EscrowSolvent
  BY DEF Solvency
<1> QED
  BY <1>1, SpecSolvency, PTL

----------------------------------------------------------------------------
(* Fees and royalties *)

\* Rates within the caps of FeeConfig, and royalties only where there is a
\* creator to pay. A revert restores rates, so the saved ones are included.
RatesInBounds(bps, royalties) ==
    /\ bps <= MAX_MARKETPLACE_FEE_BPS
    /\ \A c \in CollectionIds :
          /\ royalties[c] <= MAX_ROYALTY_BPS
          /\ royalties[c] # 0 => Creator[c] # NoAccount

Rates ==
    /\ RatesInBounds(feeBps, royaltyBps)
    /\ pc # "idle" => RatesInBounds(saved.feeBps, saved.royaltyBps)
    /\ SellerKeepsEightTenths
    /\ RoyaltyHasPayee

\* A cut of at most a thousand basis points is at most a tenth.
LEMMA CutIsATenth ==
    ASSUME NEW price \in Nat, NEW bps \in Nat, bps <= 1000
    PROVE  10 * Cut(price, bps) <= price
<1>1. price * bps <= price * 1000
  OBVIOUS
<1>2. ASSUME NEW x \in Nat, x <= price * 1000
      PROVE  10 * (x \div 10000) <= price
  BY <1>2
<1>3. price * bps \in Nat
  OBVIOUS
<1> QED
  BY <1>1, <1>2, <1>3 DEF Cut, BPS_TOTAL

\* What a settlement that starts now would take from the seller.
LEMMA SettleCutsBounded ==
    ASSUME TypeOK, RatesInBounds(feeBps, royaltyBps),
           NEW t \in Tokens, NEW seller, NEW buyer, NEW price \in Nat
    PROVE  LET c == SettleCuts(t, seller, buyer, price)
           IN  /\ 10 * (c.fee + c.royalty) <= 2 * c.price
               /\ c.royalty # 0 => CreatorOf(c.tokenId) # NoAccount
<1> DEFINE r == royaltyBps[CollectionOf[t]]
<1>1. /\ CollectionOf[t] \in CollectionIds /\ r \in Nat /\ feeBps \in Nat
      /\ feeBps <= 1000 /\ r <= 1000
      /\ r # 0 => Creator[CollectionOf[t]] # NoAccount
  BY AccountsAssumption
  DEF TypeOK, RatesInBounds, MAX_MARKETPLACE_FEE_BPS, MAX_ROYALTY_BPS
<1> HIDE DEF r
<1>2. /\ Cut(price, feeBps) \in Nat /\ 10 * Cut(price, feeBps) <= price
      /\ Cut(price, r) \in Nat /\ 10 * Cut(price, r) <= price
      /\ r = 0 => Cut(price, r) = 0
  BY <1>1, CutType, CutIsATenth
<1> QED
  BY <1>1, <1>2 DEF SettleCuts, CreatorOf, r

LEMMA InitRates == Init => Rates
BY AmountsAssumption
DEF Init, Rates, RatesInBounds, SellerKeepsEightTenths, RoyaltyHasPayee,
    SettlementStages, MAX_MARKETPLACE_FEE_BPS, MAX_ROYALTY_BPS

\* Every step keeps the rates in bounds and the running settlement payable.
LEMMA StepRates == TypeOK /\ Rates /\ [Next]_vars => Rates'
<1> SUFFICES ASSUME TypeOK, Rates, [Next]_vars PROVE Rates'
  OBVIOUS
<1> USE DEF nftVars, marketVars, feeVars, callVars
<1>1. CASE UNCHANGED <<feeBps, royaltyBps, pc, call, saved>>
  BY <1>1
  DEF Rates, RatesInBounds, SellerKeepsEightTenths, RoyaltyHasPayee, CreatorOf
<1>2. CASE PayFee \/ PayRoyalty \/ PayProceeds
  <2>1. /\ UNCHANGED <<feeBps, royaltyBps, call, saved>>
        /\ pc \in SettlementStages /\ pc # "idle"
    BY <1>2 DEF PayFee, PayRoyalty, PayProceeds, SettlementStages
  <2> QED
    BY <2>1
    DEF Rates, RatesInBounds, SellerKeepsEightTenths, RoyaltyHasPayee, CreatorOf
<1>3. CASE Return
  BY <1>3
  DEF Return, Rates, RatesInBounds, SellerKeepsEightTenths, RoyaltyHasPayee,
      SettlementStages
<1>4. CASE Revert
  BY <1>4
  DEF Revert, Rates, RatesInBounds, SellerKeepsEightTenths, RoyaltyHasPayee,
      Stages, SettlementStages
<1>5. ASSUME NEW t \in Tokens, NEW seller, NEW buyer, NEW price \in Nat,
             Settle(t, seller, buyer, price), UNCHANGED <<feeBps, royaltyBps>>
      PROVE  Rates'
  <2>1. /\ call' = SettleCuts(t, seller, buyer, price) /\ saved' = Snapshot
    BY <1>5 DEF Settle
  <2>2. RatesInBounds(feeBps, royaltyBps)
    BY DEF Rates
  <2>3. /\ 10 * (call'.fee + call'.royalty) <= 2 * call'.price
        /\ call'.royalty # 0 => CreatorOf(call'.tokenId) # NoAccount
    BY <2>1, <2>2, SettleCutsBounded
  <2>4. RatesInBounds(saved'.feeBps, saved'.royaltyBps)
    BY <2>1, <2>2 DEF Snapshot
  <2>5. RatesInBounds(feeBps, royaltyBps)'
    BY <1>5, <2>2 DEF RatesInBounds
  <2> QED
    BY <2>3, <2>4, <2>5
    DEF Rates, RatesInBounds, SellerKeepsEightTenths, RoyaltyHasPayee, CreatorOf
<1>6. CASE MarketCall
  <2>1. PICK a \in Accounts :
           \/ \E t \in Tokens, price \in Prices : CreateListing(a, t, price)
           \/ \E t \in Tokens : CancelListing(a, t) \/ Buy(a, t)
           \/ \E t \in Tokens, price \in Prices, expiry \in Expiries :
                  CreateOffer(a, t, price, expiry)
           \/ \E o \in OfferIds : CancelOffer(a, o) \/ AcceptOffer(a, o)
    BY <1>6 DEF MarketCall
  <2>2. CASE \/ \E t \in Tokens, price \in Prices : CreateListing(a, t, price)
             \/ \E t \in Tokens : CancelListing(a, t)
             \/ \E t \in Tokens, price \in Prices, expiry \in Expiries :
                    CreateOffer(a, t, price, expiry)
    BY <1>1, <2>2 DEF CreateListing, CancelListing, CreateOffer
  <2>3. CASE \E t \in Tokens : Buy(a, t)
    <3>1. PICK t \in Tokens : Buy(a, t)
      BY <2>3
    <3>2. listings[t].price \in Nat
      BY DEF TypeOK, Listing
    <3> QED
      BY <1>5, <3>1, <3>2 DEF Buy
  <2>4. CASE \E o \in OfferIds : AcceptOffer(a, o)
    <3>1. PICK o \in OfferIds : AcceptOffer(a, o)
      BY <2>4
    <3>2. offers[o] \in Offer
      BY DEF TypeOK, OfferIds
    <3>3. offers[o].tokenId \in Tokens /\ offers[o].price \in Nat
      BY <3>2 DEF Offer
    <3> QED
      BY <1>5, <3>1, <3>3 DEF AcceptOffer
  <2>5. CASE \E o \in OfferIds : CancelOffer(a, o)
    BY <2>5
    DEF CancelOffer, Snapshot, Rates, RatesInBounds, SellerKeepsEightTenths,
        RoyaltyHasPayee, SettlementStages
  <2> QED
    BY <2>1, <2>2, <2>3, <2>4, <2>5
<1>7. CASE AdminCall
  <2>1. UNCHANGED <<pc, call, saved>> /\ RatesInBounds(feeBps, royaltyBps)'
    BY <1>7
    DEF AdminCall, Pause, Unpause, SetMarketplaceFeeBps, SetRoyaltyBps,
        SetFeeRecipient, TypeOK, Rates, RatesInBounds, WithinFeeCap,
        CollectionExists
  <2> QED
    BY <2>1
    DEF Rates, RatesInBounds, SellerKeepsEightTenths, RoyaltyHasPayee, CreatorOf
<1>8. CASE TokenCall \/ Tick
  BY <1>1, <1>8 DEF TokenCall, Mint, Transfer, SetApprovalForAll, Tick
<1> QED
  BY <1>1, <1>2, <1>3, <1>4, <1>6, <1>7, <1>8 DEF Next, Advance, vars

\* Rates stay in bounds along every behavior.
LEMMA SpecRates == Spec => []Rates
BY InitRates, StepRates, TypeCorrect, PTL DEF Spec

\* Whatever the fee admin does, before a settlement or in the middle of it,
\* the seller is left at least eight tenths of the price (FeeConfig.sol caps,
\* Marketplace._settle).
THEOREM SellerShare == Spec => []SellerKeepsEightTenths
<1>1. Rates => SellerKeepsEightTenths
  BY DEF Rates
<1> QED
  BY <1>1, SpecRates, PTL

\* A settlement that owes a royalty has a creator to pay it to, for a
\* FeeConfig wired to the marketplace's own Collection (FeeConfig.sol
\* setRoyaltyBps, Marketplace._settle).
THEOREM RoyaltyPayable == Spec => []RoyaltyHasPayee
<1>1. Rates => RoyaltyHasPayee
  BY DEF Rates
<1> QED
  BY <1>1, SpecRates, PTL

----------------------------------------------------------------------------
(* The marketplace implements the offer book *)

LEMMA ExtendsItself ==
    ASSUME NEW b \in Seq(Offer)
    PROVE  Book!Extends(b, b)
<1>1. Len(b) \in Nat /\ 0 \in 0..Len(b)
  OBVIOUS
<1> QED
  BY <1>1 DEF Book!Extends, Book!Open

LEMMA ExtendsAppend ==
    ASSUME NEW b \in Seq(Offer), NEW c \in Seq(Offer), Book!Extends(b, c),
           NEW offer \in Offer, offer.active
    PROVE  Book!Extends(b, Append(c, offer))
<1> DEFINE d == Append(c, offer)
<1>1. /\ Len(d) = Len(c) + 1 /\ d[Len(d)] = offer
      /\ \A o \in 1..Len(c) : d[o] = c[o]
      /\ Len(b) \in Nat /\ Len(c) \in Nat /\ Len(b) <= Len(c)
  BY DEF Book!Extends
<1> HIDE DEF d
<1>2. \A o \in 1..Len(b) : d[o] = c[o]
  BY <1>1
<1>3. \A o \in Len(b) + 1..Len(d) : d[o].active
  BY <1>1 DEF Book!Extends
<1>4. Len(d) >= Len(b)
  BY <1>1
<1>5. Book!Extends(b, d)
  BY <1>2, <1>3, <1>4 DEF Book!Extends, Book!Open
<1> QED
  BY <1>5 DEF d

LEMMA ExtendsClose ==
    ASSUME NEW b \in Seq(Offer), NEW k \in 1..Len(b)
    PROVE  Book!Extends(b, [b EXCEPT ![k].active = FALSE])
<1> DEFINE c == [b EXCEPT ![k].active = FALSE]
<1>1. b \in [1..Len(b) -> Offer] /\ Len(b) \in Nat
  OBVIOUS
<1>2. [b[k] EXCEPT !.active = FALSE] \in Offer
  BY <1>1 DEF Offer
<1>3. c \in [1..Len(b) -> Offer] /\ \A o \in 1..Len(b) : o # k => c[o] = b[o]
  BY <1>1, <1>2
<1>4. Len(c) = Len(b)
  BY <1>1, <1>3
<1>5. ~c[k].active /\ Book!Terms(c[k]) = Book!Terms(b[k])
  BY <1>1, <1>3 DEF Offer, Book!Terms
<1> HIDE DEF c
<1>6. \A o \in 1..Len(b) : /\ Book!Terms(c[o]) = Book!Terms(b[o])
                           /\ c[o].active => b[o].active
  BY <1>3, <1>5
<1>7. \E gone \in 0..Len(b) : \A o \in Book!Open(b) : c[o].active \/ o = gone
  <2>1. k \in 0..Len(b) /\ \A o \in Book!Open(b) : c[o].active \/ o = k
    BY <1>3 DEF Book!Open
  <2> QED
    BY <2>1
<1>8. \A o \in Len(b) + 1..Len(c) : c[o].active
  BY <1>1, <1>4
<1>9. Book!Extends(b, c)
  BY <1>1, <1>4, <1>6, <1>7, <1>8 DEF Book!Extends
<1> QED
  BY <1>9 DEF c

\* While a guarded call runs, the offers are an extension of the ones it
\* started from: it closed at most one, and no other call can close another.
CallExtends == pc # "idle" => Book!Extends(saved.offers, offers)

BookVars == <<Committed.offers, Committed.balance>>

\* A step between calls that leaves the offers alone, or a step inside one:
\* the committed book does not change.
LEMMA BookStutter ==
    ASSUME Solvency, Solvency', CallExtends,
           \/ UNCHANGED <<pc, saved, offers, balance>>
           \/ pc # "idle" /\ pc' # "idle" /\ UNCHANGED <<saved, offers>>
    PROVE  CallExtends' /\ UNCHANGED BookVars
BY DEF CallExtends, BookVars, Committed, Snapshot

\* The start of a guarded call: nothing is committed yet.
LEMMA BookBegin ==
    ASSUME Solvency, pc = "idle", pc' # "idle", saved' = Snapshot,
           offers' = offers \/ \E o \in ActiveOffers : offers' = CloseOffer(o)
    PROVE  CallExtends' /\ UNCHANGED BookVars
<1>1. offers \in Seq(Offer) /\ ActiveOffers \subseteq 1..Len(offers)
  BY DEF Solvency, TypeOK, ActiveOffers, OfferIds
<1>2. Book!Extends(offers, offers')
  BY <1>1, ExtendsItself, ExtendsClose DEF CloseOffer
<1>3. saved'.offers = offers /\ saved'.balance = balance
  BY DEF Snapshot
<1> QED
  BY <1>2, <1>3 DEF CallExtends, BookVars, Committed, Snapshot

\* A new offer inside a guarded call extends what that call will commit; one
\* made between calls is committed at once.
LEMMA BookCreateOffer ==
    ASSUME Solvency, Solvency', CallExtends,
           NEW a \in Accounts, NEW t \in Tokens,
           NEW price \in Prices, NEW expiry \in Expiries,
           CreateOffer(a, t, price, expiry)
    PROVE  CallExtends' /\ (Book!Step \/ UNCHANGED BookVars)
<1> DEFINE offer == [tokenId |-> t, buyer |-> a, price |-> price,
                     expiry |-> expiry, active |-> TRUE]
<1>1. offer \in Offer /\ offer.active
  BY AmountsAssumption DEF Offer
<1>2. offers \in Seq(Offer) /\ offers' = Append(offers, offer)
  BY DEF Solvency, TypeOK, CreateOffer, WithNewOffer
<1> HIDE DEF offer
<1>3. UNCHANGED <<pc, saved>>
  BY DEF CreateOffer, callVars
<1>4. CASE pc = "idle"
  <2>1. Book!Extends(offers, offers')
    BY <1>1, <1>2, ExtendsItself, ExtendsAppend
  <2>2. balance' = Worth(offers')
    <3>1. Undisbursed' = 0 /\ Worth(offers)' \in Nat
      BY <1>3, <1>4, WorthType DEF Solvency, Undisbursed
    <3>2. balance' = Worth(offers)' + Undisbursed'
      BY DEF Solvency, EscrowSolvent
    <3> QED
      BY <3>1, <3>2
  <2> QED
    BY <1>3, <1>4, <2>1, <2>2 DEF CallExtends, Book!Step, Committed, Snapshot
<1>5. CASE pc # "idle"
  <2>1. saved.offers \in Seq(Offer)
    BY <1>5 DEF Solvency, TypeOK, ChainState
  <2>2. Book!Extends(saved.offers, offers')
    BY <1>1, <1>2, <1>5, <2>1, ExtendsAppend DEF CallExtends
  <2> QED
    BY <1>3, <1>5, <2>2 DEF CallExtends, BookVars, Committed
<1> QED
  BY <1>4, <1>5

\* A guarded call that returns commits the extension it made; one that
\* reverts commits nothing.
LEMMA BookEnd ==
    ASSUME Solvency, Solvency', CallExtends, Return \/ Revert
    PROVE  CallExtends' /\ (Book!Step \/ UNCHANGED BookVars)
<1>1. CASE Return
  <2>1. pc # "idle" /\ pc' = "idle" /\ UNCHANGED <<offers, balance>>
    BY <1>1 DEF Return, marketVars
  <2>2. Undisbursed = 0
    BY <1>1 DEF Return, Undisbursed
  <2>3. balance' = Worth(offers')
    BY <2>1, <2>2, WorthType DEF Solvency, EscrowSolvent
  <2> QED
    BY <2>1, <2>3 DEF CallExtends, Book!Step, Committed, Snapshot
<1>2. CASE Revert
  <2>1. /\ pc # "idle" /\ pc' = "idle"
        /\ offers' = saved.offers /\ balance' = saved.balance
    BY <1>2 DEF Revert, Stages, SettlementStages
  <2> QED
    BY <2>1 DEF CallExtends, BookVars, Committed, Snapshot
<1> QED
  BY <1>1, <1>2

LEMMA StepBook ==
    ASSUME Solvency, Solvency', CallExtends, [Next]_vars
    PROVE  CallExtends' /\ (Book!Step \/ UNCHANGED BookVars)
<1> USE DEF nftVars, marketVars, feeVars, callVars
<1>1. CASE UNCHANGED <<pc, saved, offers, balance>>
  BY <1>1, BookStutter
<1>2. CASE PayFee \/ PayRoyalty \/ PayProceeds
  <2>1. pc # "idle" /\ pc' # "idle" /\ UNCHANGED <<saved, offers>>
    BY <1>2 DEF PayFee, PayRoyalty, PayProceeds
  <2> QED
    BY <2>1, BookStutter
<1>3. CASE Return \/ Revert
  BY <1>3, BookEnd
<1>4. CASE MarketCall
  <2>1. PICK a \in Accounts :
           \/ \E t \in Tokens, price \in Prices : CreateListing(a, t, price)
           \/ \E t \in Tokens : CancelListing(a, t) \/ Buy(a, t)
           \/ \E t \in Tokens, price \in Prices, expiry \in Expiries :
                  CreateOffer(a, t, price, expiry)
           \/ \E o \in OfferIds : CancelOffer(a, o) \/ AcceptOffer(a, o)
    BY <1>4 DEF MarketCall
  <2>2. CASE \/ \E t \in Tokens, price \in Prices : CreateListing(a, t, price)
             \/ \E t \in Tokens : CancelListing(a, t)
    BY <1>1, <2>2 DEF CreateListing, CancelListing
  <2>3. CASE \E t \in Tokens, price \in Prices, expiry \in Expiries :
                CreateOffer(a, t, price, expiry)
    BY <2>3, BookCreateOffer
  <2>4. CASE \/ \E t \in Tokens : Buy(a, t)
             \/ \E o \in OfferIds : CancelOffer(a, o) \/ AcceptOffer(a, o)
    <3>1. /\ pc = "idle" /\ pc' # "idle" /\ saved' = Snapshot
          /\ offers' = offers \/ \E o \in ActiveOffers : offers' = CloseOffer(o)
      BY <2>4 DEF Buy, CancelOffer, AcceptOffer, Settle
    <3> QED
      BY <3>1, BookBegin
  <2> QED
    BY <2>1, <2>2, <2>3, <2>4
<1>5. CASE AdminCall \/ TokenCall \/ Tick
  BY <1>1, <1>5
  DEF AdminCall, Pause, Unpause, SetMarketplaceFeeBps, SetRoyaltyBps,
      SetFeeRecipient, TokenCall, Mint, Transfer, SetApprovalForAll, Tick
<1> QED
  BY <1>1, <1>2, <1>3, <1>4, <1>5 DEF Next, Advance, vars

\* Looked at between top-level calls, the contract is the offer book: no
\* interleaving of callbacks, reverts and administration makes an offer change
\* its terms, come back, vanish two at a time or leave the vault short.
THEOREM Refinement == Spec => ImplementsOfferBook
<1>1. Init => CallExtends /\ Book!Init
  BY DEF Init, CallExtends, Book!Init, Committed, Snapshot
<1>2. Solvency /\ Solvency' /\ CallExtends /\ [Next]_vars =>
         CallExtends' /\ [Book!Step]_<<Committed.offers, Committed.balance>>
  BY StepBook DEF BookVars
<1> QED
  BY <1>1, <1>2, SpecSolvency, PTL DEF Spec, ImplementsOfferBook, Book!Spec

----------------------------------------------------------------------------
(* What a step may do *)

LEMMA BuyIsAgreed ==
    ASSUME TypeOK, NEW a \in Accounts, NEW t \in Tokens, Buy(a, t)
    PROVE  AgreedSale
<1> DEFINE l == listings[t]
<1>1. /\ l \in Listing /\ owner \in [Tokens -> Holders]
      /\ listings \in [Tokens -> Listing] /\ l.active
  BY DEF TypeOK, Buy
<1>2. /\ call'.tokenId = t /\ call'.seller = l.seller /\ call'.buyer = a
      /\ call'.price = l.price
  BY DEF Buy, Settle, SettleCuts
<1>3. /\ owner[t] = l.seller /\ owner'[t] = a /\ ~listings'[t].active
      /\ balance' = balance + l.price
  BY <1>1 DEF Buy, Settle, CloseListing, Listing
<1>4. l = [seller |-> l.seller, price |-> l.price, active |-> TRUE]
  BY <1>1 DEF Listing
<1>5. <<t, l>> \in OpenListings
  BY <1>1 DEF OpenListings
<1> HIDE DEF l
<1>6. <<t, [seller |-> l.seller, price |-> l.price, active |-> TRUE]>> \in OpenListings
  BY <1>4, <1>5
<1> QED
  BY <1>2, <1>3, <1>6 DEF AgreedSale

LEMMA AcceptIsAgreed ==
    ASSUME TypeOK, NEW a \in Accounts, NEW o \in OfferIds, AcceptOffer(a, o)
    PROVE  AgreedSale
<1> DEFINE t == offers[o].tokenId
<1>1. /\ offers \in Seq(Offer) /\ o \in 1..Len(offers) /\ o \in ActiveOffers
      /\ owner \in [Tokens -> Holders] /\ listings \in [Tokens -> Listing]
  BY DEF TypeOK, OfferIds, AcceptOffer
<1>2. offers[o] \in Offer
  BY <1>1
<1>3. t \in Tokens /\ [offers[o] EXCEPT !.active = FALSE].active = FALSE
  BY <1>2 DEF Offer
<1>4. /\ call'.tokenId = t /\ call'.seller = a /\ call'.buyer = offers[o].buyer
      /\ call'.price = offers[o].price
  BY DEF AcceptOffer, Settle, SettleCuts
<1>5. /\ owner[t] = a /\ owner'[t] = offers[o].buyer /\ ~listings'[t].active
      /\ balance' = balance /\ now <= offers[o].expiry
  BY <1>1, <1>3 DEF AcceptOffer, Settle, CloseListing, Listing, NotExpired
<1>6. ~offers'[o].active
  BY <1>1, <1>3 DEF AcceptOffer, CloseOffer
<1> QED
  BY <1>1, <1>4, <1>5, <1>6 DEF AgreedSale

\* A token leaves its owner through the marketplace only on terms that both
\* the owner and the buyer put up themselves (Marketplace.buy, acceptOffer).
THEOREM AgreedSales == Spec => SalesAreAgreed
<1>1. ASSUME TypeOK, [Next]_vars, pc = "idle", pc' = "moved"
      PROVE  AgreedSale
  <2> USE DEF nftVars, marketVars, feeVars, callVars
  <2>1. CASE MarketCall
    <3>1. PICK a \in Accounts :
             \/ \E t \in Tokens : Buy(a, t)
             \/ \E o \in OfferIds : AcceptOffer(a, o)
      BY <1>1, <2>1
      DEF MarketCall, CreateListing, CancelListing, CreateOffer, CancelOffer
    <3> QED
      BY <1>1, <3>1, BuyIsAgreed, AcceptIsAgreed
  <2>2. CASE Advance \/ Revert \/ AdminCall \/ TokenCall \/ Tick \/ UNCHANGED vars
    BY <1>1, <2>2
    DEF Advance, PayFee, PayRoyalty, PayProceeds, Return, Revert,
        AdminCall, Pause, Unpause, SetMarketplaceFeeBps, SetRoyaltyBps,
        SetFeeRecipient, TokenCall, Mint, Transfer, SetApprovalForAll, Tick, vars
  <2> QED
    BY <1>1, <2>1, <2>2 DEF Next
<1>2. TypeOK /\ [Next]_vars => [pc = "idle" /\ pc' = "moved" => AgreedSale]_vars
  BY <1>1
<1>3. Spec => [][pc = "idle" /\ pc' = "moved" => AgreedSale]_vars
  BY <1>2, TypeCorrect, PTL DEF Spec
<1> QED
  BY <1>3 DEF SalesAreAgreed

\* Closing entries of a table opens none.
LEMMA ClosingOpensNothing ==
    ASSUME TypeOK
    PROVE  /\ \A t \in Tokens : listings' = CloseListing(t) =>
                 OpenListings' \subseteq OpenListings
           /\ listings' = listings => OpenListings' = OpenListings
           /\ \A o \in OfferIds : offers' = CloseOffer(o) =>
                 Len(offers') = Len(offers) /\ ActiveOffers' \subseteq ActiveOffers
           /\ offers' = offers =>
                 Len(offers') = Len(offers) /\ ActiveOffers' = ActiveOffers
<1>1. ASSUME NEW t \in Tokens, listings' = CloseListing(t)
      PROVE  OpenListings' \subseteq OpenListings
  <2>1. listings \in [Tokens -> Listing]
    BY DEF TypeOK
  <2>2. \A u \in Tokens : listings'[u].active => u # t /\ listings'[u] = listings[u]
    BY <1>1, <2>1 DEF CloseListing, Listing
  <2> QED
    BY <2>2 DEF OpenListings
<1>2. ASSUME NEW o \in OfferIds, offers' = CloseOffer(o)
      PROVE  Len(offers') = Len(offers) /\ ActiveOffers' \subseteq ActiveOffers
  <2>1. /\ offers \in Seq(Offer) /\ o \in 1..Len(offers)
        /\ offers \in [1..Len(offers) -> Offer]
    BY DEF TypeOK, OfferIds
  <2>2. /\ DOMAIN offers' = 1..Len(offers) /\ Len(offers') = Len(offers)
        /\ \A u \in 1..Len(offers) : offers'[u].active => offers[u].active
    BY <1>2, <2>1 DEF CloseOffer, Offer
  <2> QED
    BY <2>2 DEF ActiveOffers, OfferIds
<1> QED
  BY <1>1, <1>2 DEF OpenListings, ActiveOffers, OfferIds

\* A pause lets the market drain and nothing else (Marketplace.sol's
\* whenNotPaused modifiers, and their absence on cancelListing, cancelOffer).
THEOREM PauseDrains == Spec => PausedMarketOnlyDrains
<1>1. ASSUME TypeOK, [Next]_vars, paused, paused'
      PROVE  OpensNothing
  <2> USE DEF nftVars, marketVars, feeVars, callVars, WhenNotPaused
  <2>1. CASE Return \/ Revert
    BY <2>1 DEF Return, Revert, OpensNothing, Stages, SettlementStages
  <2>2. CASE PayFee \/ PayRoyalty \/ PayProceeds
    BY <1>1, <2>2, ClosingOpensNothing
    DEF PayFee, PayRoyalty, PayProceeds, OpensNothing
  <2>3. CASE MarketCall
    <3>1. PICK a \in Accounts :
             \/ \E t \in Tokens : CancelListing(a, t)
             \/ \E o \in OfferIds : CancelOffer(a, o)
      BY <1>1, <2>3
      DEF MarketCall, CreateListing, Buy, CreateOffer, AcceptOffer
    <3>2. CASE \E t \in Tokens : CancelListing(a, t)
      BY <1>1, <3>2, ClosingOpensNothing DEF CancelListing, OpensNothing
    <3>3. CASE \E o \in OfferIds : CancelOffer(a, o)
      BY <1>1, <3>3, ClosingOpensNothing DEF CancelOffer, OpensNothing
    <3> QED
      BY <3>1, <3>2, <3>3
  <2>4. CASE AdminCall \/ TokenCall \/ Tick \/ UNCHANGED vars
    <3>1. UNCHANGED <<listings, offers, pc>>
      BY <2>4
      DEF AdminCall, Pause, Unpause, SetMarketplaceFeeBps, SetRoyaltyBps,
          SetFeeRecipient, TokenCall, Mint, Transfer, SetApprovalForAll, Tick,
          vars
    <3> QED
      BY <1>1, <3>1, ClosingOpensNothing DEF OpensNothing
  <2> QED
    BY <1>1, <2>1, <2>2, <2>3, <2>4 DEF Next, Advance
<1>2. TypeOK /\ [Next]_vars => [paused /\ paused' => OpensNothing]_vars
  BY <1>1
<1> QED
  BY <1>2, TypeCorrect, PTL DEF Spec, PausedMarketOnlyDrains
=============================================================================
