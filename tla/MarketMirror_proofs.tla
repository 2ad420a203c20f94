------------------------- MODULE MarketMirror_proofs -------------------------
(***************************************************************************)
(* Theorems about MarketMirror: whatever the marketplace does, the tables  *)
(* its events build say what the contracts say. They rest on the types     *)
(* Marketplace_proofs proves of the contract.                              *)
(***************************************************************************)
EXTENDS MarketMirror, Marketplace_proofs

----------------------------------------------------------------------------
(* What each event leaves in the tables *)

Tables ==
    [nffc : [Tokens -> NFFCRows \cup {NoRow}], components : SUBSET Tokens,
     listing : [Tokens -> ListingRows \cup {NoRow}],
     offer : [1..MaxOffers -> OfferRows \cup {NoRow}]]

IsOpenRow(row) == row # NoRow /\ row.status = "active"

\* n is m but for the row of one token or offer.
SetsNFFC(m, n, t, row) ==
    /\ n \in Tables
    /\ n.listing = m.listing /\ n.offer = m.offer
    /\ n.nffc = [m.nffc EXCEPT ![t] = row]
SetsListing(m, n, t, row) ==
    /\ n \in Tables
    /\ n.nffc = m.nffc /\ n.components = m.components /\ n.offer = m.offer
    /\ n.listing = [m.listing EXCEPT ![t] = row]
SetsOffer(m, n, o, row) ==
    /\ n \in Tables
    /\ n.nffc = m.nffc /\ n.components = m.components /\ n.listing = m.listing
    /\ n.offer = [m.offer EXCEPT ![o] = row]

\* n is m, where the token's listing may have been closed and is not open.
ClosesListing(m, n, t) ==
    \/ n = m /\ ~IsOpenRow(m.listing[t])
    \/ \E row \in ListingRows : ~IsOpenRow(row) /\ SetsListing(m, n, t, row)

\* n is m, where the offer's row, if there is one, was closed in its terms.
ClosesOffer(m, n, o) ==
    \/ /\ n = m
       /\ m.offer[o] # NoRow => m.offer[o].status # "ACTIVE"
    \/ \E status \in {"CANCELLED", "ACCEPTED"} :
          /\ m.offer[o] # NoRow
          /\ SetsOffer(m, n, o, [tokenId |-> m.offer[o].tokenId,
                buyer |-> m.offer[o].buyer, price |-> m.offer[o].price,
                expiry |-> m.offer[o].expiry, status |-> status])

\* Tables are their four columns.
LEMMA TablesShape ==
    ASSUME NEW m \in Tables
    PROVE  /\ m = [nffc |-> m.nffc, components |-> m.components,
                   listing |-> m.listing, offer |-> m.offer]
           /\ m.nffc \in [Tokens -> NFFCRows \cup {NoRow}]
           /\ m.components \in SUBSET Tokens
           /\ m.listing \in [Tokens -> ListingRows \cup {NoRow}]
           /\ m.offer \in [1..MaxOffers -> OfferRows \cup {NoRow}]
BY DEF Tables

\* Rewriting one row of well-typed tables.
LEMMA RowSet ==
    ASSUME NEW m \in Tables
    PROVE  /\ \A t \in Tokens, row \in NFFCRows :
                 SetsNFFC(m, [m EXCEPT !.nffc[t] = row], t, row)
                   /\ [m EXCEPT !.nffc[t] = row].components = m.components
           /\ \A t \in Tokens, row \in ListingRows :
                 SetsListing(m, [m EXCEPT !.listing[t] = row], t, row)
           /\ \A o \in 1..MaxOffers, row \in OfferRows :
                 SetsOffer(m, [m EXCEPT !.offer[o] = row], o, row)
<1> USE TablesShape
<1>1. ASSUME NEW t \in Tokens, NEW row \in NFFCRows
      PROVE  SetsNFFC(m, [m EXCEPT !.nffc[t] = row], t, row)
               /\ [m EXCEPT !.nffc[t] = row].components = m.components
  <2>1. [m EXCEPT !.nffc[t] = row]
          = [nffc |-> [m.nffc EXCEPT ![t] = row], components |-> m.components,
             listing |-> m.listing, offer |-> m.offer]
    OBVIOUS
  <2>2. [m.nffc EXCEPT ![t] = row] \in [Tokens -> NFFCRows \cup {NoRow}]
    OBVIOUS
  <2> QED
    BY <2>1, <2>2 DEF SetsNFFC, Tables
<1>2. ASSUME NEW t \in Tokens, NEW row \in ListingRows
      PROVE  SetsListing(m, [m EXCEPT !.listing[t] = row], t, row)
  <2>1. [m EXCEPT !.listing[t] = row]
          = [nffc |-> m.nffc, components |-> m.components,
             listing |-> [m.listing EXCEPT ![t] = row], offer |-> m.offer]
    OBVIOUS
  <2>2. [m.listing EXCEPT ![t] = row] \in [Tokens -> ListingRows \cup {NoRow}]
    OBVIOUS
  <2> QED
    BY <2>1, <2>2 DEF SetsListing, Tables
<1>3. ASSUME NEW o \in 1..MaxOffers, NEW row \in OfferRows
      PROVE  SetsOffer(m, [m EXCEPT !.offer[o] = row], o, row)
  <2>1. [m EXCEPT !.offer[o] = row]
          = [nffc |-> m.nffc, components |-> m.components,
             listing |-> m.listing, offer |-> [m.offer EXCEPT ![o] = row]]
    OBVIOUS
  <2>2. [m.offer EXCEPT ![o] = row] \in [1..MaxOffers -> OfferRows \cup {NoRow}]
    OBVIOUS
  <2> QED
    BY <2>1, <2>2 DEF SetsOffer, Tables
<1> QED
  BY <1>1, <1>2, <1>3

\* A token with a row that is no newer than the block gets its new owner.
LEMMA AfterTransferred ==
    ASSUME NEW m \in Tables, NEW t \in Tokens, NEW from \in Accounts,
           NEW to \in Accounts, now \in Nat, m.nffc[t] # NoRow,
           m.nffc[t].syncedBlock <= now
    PROVE  LET n == After(m, Store!Transferred(t, from, to))
           IN  /\ SetsNFFC(m, n, t, [owner |-> to, syncedBlock |-> now])
               /\ n.components = m.components
<1> DEFINE e == Store!Transferred(t, from, to)
           row == [owner |-> to, syncedBlock |-> now]
<1>1. /\ e.kind = "TRANSFER" /\ e.tokenId = t /\ e.seller = from /\ e.buyer = to
  BY DEF Store!Transferred, Store!Event
<1>2. row \in NFFCRows
  BY DEF NFFCRows
<1> HIDE DEF e
<1>3. Store!HasMirror(e) /\ ~Store!Rejected(m, e)
  BY <1>1, AccountsAssumption
  DEF Store!HasMirror, Store!IsMintTransfer, Store!Rejected
<1>4. After(m, e) = Store!OwnerRow(m, e, now)
  BY <1>1, <1>3 DEF After, Store!Replayed, Store!Applied
<1>5. Store!OwnerIsNewer(m.nffc[t], now)
  BY DEF Store!OwnerIsNewer
<1>6. After(m, e) = [m EXCEPT !.nffc[t] = row]
  BY <1>1, <1>4, <1>5 DEF Store!OwnerRow
<1> QED
  BY <1>2, <1>6, RowSet DEF e

\* A listing overwrites the row of a token that has an owner.
LEMMA AfterListingCreated ==
    ASSUME NEW m \in Tables, NEW t \in Tokens, NEW a \in Accounts,
           NEW price \in Nat, m.nffc[t] # NoRow
    PROVE  SetsListing(m, After(m, Store!ListingCreated(t, a, price)), t,
                       [seller |-> a, price |-> price, status |-> "active"])
<1> DEFINE e == Store!ListingCreated(t, a, price)
           row == [seller |-> a, price |-> price, status |-> "active"]
<1>1. /\ e.kind = "LISTING_CREATED" /\ e.tokenId = t /\ e.seller = a
      /\ e.price = price
  BY DEF Store!ListingCreated, Store!Event
<1>2. row \in ListingRows
  BY DEF ListingRows
<1> HIDE DEF e
<1>3. Store!HasMirror(e) /\ ~Store!Rejected(m, e)
  BY <1>1 DEF Store!HasMirror, Store!IsMintTransfer, Store!Rejected
<1>4. After(m, e) = [m EXCEPT !.listing[t] = row]
  BY <1>1, <1>3
  DEF After, Store!Replayed, Store!Applied, Store!OpenedListing
<1> QED
  BY <1>2, <1>4, RowSet DEF e

\* Closing a listing, cancelled or sold, closes its row.
LEMMA ClosedListingCloses ==
    ASSUME NEW m \in Tables, NEW e, e.tokenId \in Tokens,
           NEW status \in {"cancelled", "sold"}
    PROVE  ClosesListing(m, Store!ClosedListing(m, e, status), e.tokenId)
<1> DEFINE t == e.tokenId
           row == [seller |-> m.listing[t].seller, price |-> m.listing[t].price,
                   status |-> status]
<1>1. CASE m.listing[t] = NoRow \/ m.listing[t].status # "active"
  BY <1>1 DEF ClosesListing, IsOpenRow, Store!ClosedListing
<1>2. CASE ~(m.listing[t] = NoRow \/ m.listing[t].status # "active")
  <2>1. m.listing[t] \in ListingRows
    BY <1>2, TablesShape
  <2>2. row \in ListingRows /\ ~IsOpenRow(row)
    BY <2>1 DEF ListingRows, IsOpenRow
  <2>3. [m.listing[t] EXCEPT !.status = status] = row
    BY <2>1 DEF ListingRows
  <2>4. Store!ClosedListing(m, e, status)
          = [m EXCEPT !.listing[t] = [m.listing[t] EXCEPT !.status = status]]
    <3>1. [m EXCEPT !.listing[t].status = status]
            = [m EXCEPT !.listing[t] = [m.listing[t] EXCEPT !.status = status]]
      BY TablesShape
    <3> QED
      BY <1>2, <3>1 DEF Store!ClosedListing
  <2> HIDE DEF row
  <2>5. Store!ClosedListing(m, e, status) = [m EXCEPT !.listing[t] = row]
    BY <2>3, <2>4
  <2>6. SetsListing(m, Store!ClosedListing(m, e, status), t, row)
    BY <2>2, <2>5, RowSet
  <2> QED
    BY <2>2, <2>6 DEF ClosesListing
<1> QED
  BY <1>1, <1>2

LEMMA AfterListingClosed ==
    ASSUME NEW m \in Tables, NEW t \in Tokens, NEW a, NEW b, NEW price
    PROVE  /\ ClosesListing(m, After(m, Store!ListingCancelled(t, a)), t)
           /\ ClosesListing(m, After(m, Store!Sold(t, a, b, price)), t)
<1>1. ClosesListing(m, After(m, Store!ListingCancelled(t, a)), t)
  <2> DEFINE e == Store!ListingCancelled(t, a)
  <2>1. e.kind = "LISTING_CANCELLED" /\ e.tokenId = t
    BY DEF Store!ListingCancelled, Store!Event
  <2> HIDE DEF e
  <2>2. After(m, e) = Store!ClosedListing(m, e, "cancelled")
    BY <2>1 DEF After, Store!Replayed, Store!Applied, Store!HasMirror,
                Store!IsMintTransfer, Store!Rejected
  <2> QED
    BY <2>1, <2>2, ClosedListingCloses DEF e
<1>2. ClosesListing(m, After(m, Store!Sold(t, a, b, price)), t)
  <2> DEFINE e == Store!Sold(t, a, b, price)
  <2>1. e.kind = "SALE" /\ e.tokenId = t
    BY DEF Store!Sold, Store!Event
  <2> HIDE DEF e
  <2>2. After(m, e) = Store!ClosedListing(m, e, "sold")
    BY <2>1 DEF After, Store!Replayed, Store!Applied, Store!HasMirror,
                Store!IsMintTransfer, Store!Rejected
  <2> QED
    BY <2>1, <2>2, ClosedListingCloses DEF e
<1> QED
  BY <1>1, <1>2

\* Closing an offer, cancelled or accepted, closes its row.
LEMMA ClosedOfferCloses ==
    ASSUME NEW m \in Tables, NEW e, e.offerId \in 1..MaxOffers,
           NEW status \in {"CANCELLED", "ACCEPTED"}
    PROVE  ClosesOffer(m, Store!ClosedOffer(m, e, status), e.offerId)
<1> DEFINE o == e.offerId
           row == [tokenId |-> m.offer[o].tokenId, buyer |-> m.offer[o].buyer,
                   price |-> m.offer[o].price, expiry |-> m.offer[o].expiry,
                   status |-> status]
<1>1. CASE m.offer[o] = NoRow \/ m.offer[o].status # "ACTIVE"
  BY <1>1 DEF ClosesOffer, Store!ClosedOffer
<1>2. CASE ~(m.offer[o] = NoRow \/ m.offer[o].status # "ACTIVE")
  <2>1. m.offer[o] \in OfferRows
    BY <1>2, TablesShape
  <2>2. row \in OfferRows
    BY <2>1 DEF OfferRows
  <2>3. [m.offer[o] EXCEPT !.status = status] = row
    BY <2>1 DEF OfferRows
  <2>4. Store!ClosedOffer(m, e, status)
          = [m EXCEPT !.offer[o] = [m.offer[o] EXCEPT !.status = status]]
    <3>1. [m EXCEPT !.offer[o].status = status]
            = [m EXCEPT !.offer[o] = [m.offer[o] EXCEPT !.status = status]]
      BY TablesShape
    <3> QED
      BY <1>2, <3>1 DEF Store!ClosedOffer
  <2>5. SetsOffer(m, Store!ClosedOffer(m, e, status), o, row)
    BY <2>2, <2>3, <2>4, RowSet
  <2> QED
    BY <1>2, <2>5 DEF ClosesOffer
<1> QED
  BY <1>1, <1>2

LEMMA AfterOfferClosed ==
    ASSUME NEW m \in Tables, NEW o \in 1..MaxOffers, NEW t, NEW a, NEW b, NEW price
    PROVE  /\ ClosesOffer(m, After(m, Store!OfferCancelled(o)), o)
           /\ ClosesOffer(m, After(m, Store!OfferAccepted(o, t, a, b, price)), o)
<1>1. ClosesOffer(m, After(m, Store!OfferCancelled(o)), o)
  <2> DEFINE e == Store!OfferCancelled(o)
  <2>1. e.kind = "OFFER_CANCELLED" /\ e.offerId = o
    BY DEF Store!OfferCancelled, Store!Event
  <2> HIDE DEF e
  <2>2. After(m, e) = Store!ClosedOffer(m, e, "CANCELLED")
    BY <2>1 DEF After, Store!Replayed, Store!Applied, Store!HasMirror,
                Store!IsMintTransfer, Store!Rejected
  <2> QED
    BY <2>1, <2>2, ClosedOfferCloses DEF e
<1>2. ClosesOffer(m, After(m, Store!OfferAccepted(o, t, a, b, price)), o)
  <2> DEFINE e == Store!OfferAccepted(o, t, a, b, price)
  <2>1. e.kind = "OFFER_ACCEPTED" /\ e.offerId = o
    BY DEF Store!OfferAccepted, Store!Event
  <2> HIDE DEF e
  <2>2. After(m, e) = Store!ClosedOffer(m, e, "ACCEPTED")
    BY <2>1 DEF After, Store!Replayed, Store!Applied, Store!HasMirror,
                Store!IsMintTransfer, Store!Rejected
  <2> QED
    BY <2>1, <2>2, ClosedOfferCloses DEF e
<1> QED
  BY <1>1, <1>2

\* A new offer gets a row at its own terms, or none: on a token nobody minted
\* and at an expiry the column cannot hold.
LEMMA AfterOfferCreated ==
    ASSUME NEW m \in Tables, NEW o \in 1..MaxOffers, NEW t \in Tokens,
           NEW a \in Accounts, NEW price \in Nat, NEW expiry \in Nat,
           m.offer[o] = NoRow
    PROVE  LET n == After(m, Store!OfferCreated(o, t, a, price, expiry))
           IN  \/ n = m
               \/ SetsOffer(m, n, o, [tokenId |-> t, buyer |-> a, price |-> price,
                                      expiry |-> expiry, status |-> "ACTIVE"])
<1> DEFINE e == Store!OfferCreated(o, t, a, price, expiry)
           row == [tokenId |-> t, buyer |-> a, price |-> price,
                   expiry |-> expiry, status |-> "ACTIVE"]
<1>1. /\ e.kind = "OFFER_CREATED" /\ e.tokenId = t /\ e.buyer = a
      /\ e.offerId = o /\ e.price = price /\ e.expiry = expiry
  BY DEF Store!OfferCreated, Store!Event
<1>2. row \in OfferRows
  BY DEF OfferRows
<1> HIDE DEF e
<1>3. Store!HasMirror(e)
  BY <1>1 DEF Store!HasMirror, Store!IsMintTransfer
<1>4. After(m, e) = m \/ After(m, e) = Store!OpenedOffer(m, e)
  BY <1>1, <1>3 DEF After, Store!Replayed, Store!Applied
<1>5. Store!OpenedOffer(m, e) = [m EXCEPT !.offer[o] = row]
  BY <1>1 DEF Store!OpenedOffer
<1>6. SetsOffer(m, Store!OpenedOffer(m, e), o, row)
  BY <1>2, <1>5, RowSet
<1> QED
  BY <1>4, <1>6 DEF e

\* The three events of a mint give a new token its row and its composition;
\* the mint's own Transfer adds nothing.
LEMMA AfterMinted ==
    ASSUME mirror \in Tables, NEW t \in Tokens, NEW a \in Accounts,
           now \in Nat, mirror.nffc[t] = NoRow
    PROVE  /\ SetsNFFC(mirror, Minted(a, t), t, [owner |-> a, syncedBlock |-> now])
           /\ Minted(a, t).components = mirror.components \cup {t}
<1> DEFINE mint == Store!NFFCMinted(t, a)
           composed == Store!NFFCCompositionRecorded(t)
           moved == Store!Transferred(t, NoAccount, a)
           row == [owner |-> a, syncedBlock |-> now]
           m1 == After(mirror, mint)
           m2 == After(m1, composed)
<1>1. mint.kind = "NFFC_MINTED" /\ mint.tokenId = t /\ mint.buyer = a
  BY DEF Store!NFFCMinted, Store!Event
<1>2. composed.kind = "NFFC_COMPOSITION_RECORDED" /\ composed.tokenId = t
  BY DEF Store!NFFCCompositionRecorded, Store!Event
<1>3. moved.kind = "TRANSFER" /\ moved.seller = NoAccount
  BY DEF Store!Transferred, Store!Event
<1>4. row \in NFFCRows
  BY DEF NFFCRows
<1> HIDE DEF mint, composed, moved, m1, m2
<1>5. m1 = [mirror EXCEPT !.nffc[t] = row]
  <2>1. Store!HasMirror(mint) /\ ~Store!Rejected(mirror, mint)
    BY <1>1 DEF Store!HasMirror, Store!IsMintTransfer, Store!Rejected
  <2> QED
    BY <1>1, <2>1 DEF m1, After, Store!Replayed, Store!Applied, Store!MintRow
<1>6. SetsNFFC(mirror, m1, t, row) /\ m1.components = mirror.components
  BY <1>4, <1>5, RowSet
<1>7. m1 \in Tables /\ m1.nffc[t] # NoRow
  BY <1>4, <1>6, TablesShape, NoRowAssumption DEF SetsNFFC
<1>8. m2 = [m1 EXCEPT !.components = m1.components \cup {t}]
  <2>1. Store!HasMirror(composed) /\ ~Store!Rejected(m1, composed)
    BY <1>2, <1>7 DEF Store!HasMirror, Store!IsMintTransfer, Store!Rejected
  <2> QED
    BY <1>2, <2>1 DEF m2, After, Store!Replayed, Store!Applied
<1>9. /\ m2 \in Tables /\ m2.nffc = m1.nffc /\ m2.listing = m1.listing
      /\ m2.offer = m1.offer /\ m2.components = m1.components \cup {t}
  <2> DEFINE both == m1.components \cup {t}
  <2>1. \A S : [m1 EXCEPT !.components = S]
                 = [nffc |-> m1.nffc, components |-> S,
                    listing |-> m1.listing, offer |-> m1.offer]
    BY <1>7 DEF Tables
  <2>2. m2 = [nffc |-> m1.nffc, components |-> both,
              listing |-> m1.listing, offer |-> m1.offer]
    BY <1>8, <2>1
  <2> QED
    BY <1>7, <2>2, TablesShape DEF Tables
<1>10. After(m2, moved) = m2
  BY <1>3 DEF After, Store!Replayed, Store!HasMirror, Store!IsMintTransfer
<1>11. Minted(a, t) = m2
  BY <1>10, Zenon DEF Minted, m1, m2, mint, composed, moved
<1> QED
  BY <1>6, <1>9, <1>11 DEF SetsNFFC

----------------------------------------------------------------------------
(* The tables agree with the contracts *)

\* Tables m say what the contract state s says: owners, with rows no newer
\* than block; listings, but for those of tokens being sold; offers, but for
\* the status of the one being taken (0: none is).
OwnersAgree(m, s, block) ==
    \A t \in Tokens :
        IF s.owner[t] = NoAccount THEN m.nffc[t] = NoRow
        ELSE /\ m.nffc[t] # NoRow
             /\ m.nffc[t].owner = s.owner[t]
             /\ m.nffc[t].syncedBlock <= block
             /\ t \in m.components

ListingsAgree(m, s, selling) ==
    \A t \in Tokens \ selling :
        IsOpenRow(m.listing[t]) =>
            /\ s.listings[t].active
            /\ m.listing[t].seller = s.listings[t].seller
            /\ m.listing[t].price = s.listings[t].price

OffersAgree(m, s, taken) ==
    /\ Len(s.offers) <= MaxOffers
    /\ \A o \in 1..Len(s.offers) :
          m.offer[o] # NoRow =>
              /\ m.offer[o].tokenId = s.offers[o].tokenId
              /\ m.offer[o].buyer = s.offers[o].buyer
              /\ m.offer[o].price = s.offers[o].price
              /\ o # taken => (m.offer[o].status = "ACTIVE" <=> s.offers[o].active)
    /\ \A o \in 1..MaxOffers : o > Len(s.offers) => m.offer[o] = NoRow
    /\ taken # 0 => taken \in 1..Len(s.offers) /\ ~s.offers[taken].active

TablesAgree(m, s, block, selling, taken) ==
    /\ m \in Tables
    /\ OwnersAgree(m, s, block)
    /\ ListingsAgree(m, s, selling)
    /\ OffersAgree(m, s, taken)

Sold == {t \in Tokens : Selling(t)}

\* The inductive invariant: the tables agree with the contracts now, and
\* while a guarded call runs those it goes back to agree with the state a
\* revert restores.
Mirrors ==
    /\ TablesAgree(mirror, Snapshot, now, Sold, accepting)
    /\ pc \in {"idle", "refunded"} => accepting = 0
    /\ pc # "idle" => TablesAgree(mirrorSaved, saved, now, {}, 0)

\* Agreement is about owners, listings and offers only, stays when time
\* passes, and asks less while more tokens are being sold.
LEMMA AgreeAlike ==
    ASSUME NEW m, NEW s, NEW r, NEW block \in Nat, NEW later \in Nat,
           NEW fewer, NEW more, NEW taken,
           TablesAgree(m, s, block, fewer, taken),
           r.owner = s.owner, r.listings = s.listings, r.offers = s.offers,
           block <= later, fewer \cap Tokens \subseteq more
    PROVE  TablesAgree(m, r, later, more, taken)
<1>1. m \in Tables
  BY DEF TablesAgree
<1>2. OwnersAgree(m, r, later)
  <2>1. \A t \in Tokens : m.nffc[t] # NoRow => m.nffc[t].syncedBlock \in Nat
    BY <1>1, TablesShape DEF NFFCRows
  <2> QED
    BY <2>1 DEF TablesAgree, OwnersAgree
<1>3. ListingsAgree(m, r, more)
  BY DEF TablesAgree, ListingsAgree
<1>4. OffersAgree(m, r, taken)
  BY DEF TablesAgree, OffersAgree
<1> QED
  BY <1>1, <1>2, <1>3, <1>4 DEF TablesAgree

\* A token moves, or is minted, on the chain and in its row.
LEMMA AgreeMoved ==
    ASSUME NEW m \in Tables, NEW n, NEW s \in ChainState, NEW r, NEW block \in Nat,
           NEW selling, NEW taken, NEW t \in Tokens, NEW to \in Accounts,
           TablesAgree(m, s, block, selling, taken),
           SetsNFFC(m, n, t, [owner |-> to, syncedBlock |-> block]),
           n.components = m.components \cup {t},
           r.owner = [s.owner EXCEPT ![t] = to],
           r.listings = s.listings, r.offers = s.offers
    PROVE  TablesAgree(n, r, block, selling, taken)
<1> DEFINE row == [owner |-> to, syncedBlock |-> block]
<1>1. /\ row \in NFFCRows /\ row # NoRow /\ row.owner = to
      /\ row.syncedBlock = block /\ block <= block /\ to # NoAccount
  BY NoRowAssumption, AccountsAssumption DEF NFFCRows
<1>2. /\ n \in Tables /\ n.nffc = [m.nffc EXCEPT ![t] = row]
      /\ n.listing = m.listing /\ n.offer = m.offer
  BY DEF SetsNFFC
<1>3. s.owner \in [Tokens -> Holders] /\ m.nffc \in [Tokens -> NFFCRows \cup {NoRow}]
  BY TablesShape DEF ChainState
<1> HIDE DEF row
<1>4. OwnersAgree(n, r, block)
  <2>1. ASSUME NEW u \in Tokens
        PROVE  IF r.owner[u] = NoAccount THEN n.nffc[u] = NoRow
               ELSE /\ n.nffc[u] # NoRow
                    /\ n.nffc[u].owner = r.owner[u]
                    /\ n.nffc[u].syncedBlock <= block
                    /\ u \in n.components
    <3>1. CASE u = t
      <4>1. n.nffc[u] = row /\ r.owner[u] = to /\ u \in n.components
        BY <1>2, <1>3, <3>1
      <4> QED
        BY <1>1, <4>1
    <3>2. CASE u # t
      <4>1. /\ n.nffc[u] = m.nffc[u] /\ r.owner[u] = s.owner[u]
            /\ u \in m.components => u \in n.components
        BY <1>2, <1>3, <3>2
      <4> QED
        BY <4>1 DEF TablesAgree, OwnersAgree
    <3> QED
      BY <3>1, <3>2
  <2> QED
    BY <2>1 DEF OwnersAgree
<1>5. ListingsAgree(n, r, selling) /\ OffersAgree(n, r, taken)
  BY <1>2 DEF TablesAgree, ListingsAgree, OffersAgree
<1> QED
  BY <1>2, <1>4, <1>5 DEF TablesAgree

\* A token is listed, on the contract and in its row.
LEMMA AgreeListed ==
    ASSUME NEW m \in Tables, NEW n, NEW s \in ChainState, NEW r, NEW block,
           NEW selling, NEW taken, NEW t \in Tokens, NEW a, NEW price,
           TablesAgree(m, s, block, selling, taken),
           SetsListing(m, n, t, [seller |-> a, price |-> price, status |-> "active"]),
           r.listings = [s.listings EXCEPT ![t] =
                           [seller |-> a, price |-> price, active |-> TRUE]],
           r.owner = s.owner, r.offers = s.offers
    PROVE  TablesAgree(n, r, block, selling, taken)
<1>1. /\ n \in Tables /\ n.nffc = m.nffc /\ n.offer = m.offer
      /\ n.components = m.components
      /\ n.listing = [m.listing EXCEPT ![t] =
                        [seller |-> a, price |-> price, status |-> "active"]]
  BY DEF SetsListing
<1>2. /\ s.listings \in [Tokens -> Listing]
      /\ m.listing \in [Tokens -> ListingRows \cup {NoRow}]
  BY TablesShape DEF ChainState
<1>3. ListingsAgree(n, r, selling)
  BY <1>1, <1>2 DEF TablesAgree, ListingsAgree
<1>4. OwnersAgree(n, r, block) /\ OffersAgree(n, r, taken)
  BY <1>1 DEF TablesAgree, OwnersAgree, OffersAgree
<1> QED
  BY <1>1, <1>3, <1>4 DEF TablesAgree

\* The row of a listing is closed: what the contract's listing of the token
\* is no longer matters, and neither does whether the token is being sold.
LEMMA AgreeListingClosed ==
    ASSUME NEW m \in Tables, NEW n, NEW t \in Tokens, ClosesListing(m, n, t),
           NEW s, NEW r, NEW block, NEW before, NEW after, NEW taken,
           TablesAgree(m, s, block, before, taken),
           r.owner = s.owner, r.offers = s.offers,
           \A u \in Tokens \ {t} : r.listings[u] = s.listings[u],
           before \subseteq after \cup {t}
    PROVE  TablesAgree(n, r, block, after, taken)
<1>1. n \in Tables /\ n.nffc = m.nffc /\ n.components = m.components /\ n.offer = m.offer
  BY DEF ClosesListing, SetsListing
<1>2. ~IsOpenRow(n.listing[t])
  BY TablesShape DEF ClosesListing, SetsListing
<1>3. \A u \in Tokens \ {t} : n.listing[u] = m.listing[u]
  BY TablesShape DEF ClosesListing, SetsListing
<1>4. ListingsAgree(n, r, after)
  BY <1>2, <1>3 DEF TablesAgree, ListingsAgree
<1>5. OwnersAgree(n, r, block) /\ OffersAgree(n, r, taken)
  BY <1>1 DEF TablesAgree, OwnersAgree, OffersAgree
<1> QED
  BY <1>1, <1>4, <1>5 DEF TablesAgree

\* The contract closes the listing of a token it starts to sell, before the
\* row is closed.
LEMMA AgreeSelling ==
    ASSUME NEW m, NEW s \in ChainState, NEW r, NEW block, NEW before, NEW after,
           NEW taken, NEW t \in Tokens,
           TablesAgree(m, s, block, before, taken),
           \A u \in Tokens \ {t} : r.listings[u] = s.listings[u],
           r.owner = s.owner, r.offers = s.offers,
           before \subseteq after, t \in after
    PROVE  TablesAgree(m, r, block, after, taken)
BY DEF TablesAgree, OwnersAgree, ListingsAgree, OffersAgree

\* An offer is made on the contract, and gets its row or none.
LEMMA AgreeOffered ==
    ASSUME NEW m \in Tables, NEW n, NEW s \in ChainState, NEW r, NEW block,
           NEW selling, NEW taken, NEW offer \in Offer, offer.active,
           TablesAgree(m, s, block, selling, taken),
           Len(s.offers) < MaxOffers,
           \/ n = m
           \/ SetsOffer(m, n, Len(s.offers) + 1,
                        [tokenId |-> offer.tokenId, buyer |-> offer.buyer,
                         price |-> offer.price, expiry |-> offer.expiry,
                         status |-> "ACTIVE"]),
           r.offers = Append(s.offers, offer),
           r.owner = s.owner, r.listings = s.listings
    PROVE  TablesAgree(n, r, block, selling, taken)
<1> DEFINE row == [tokenId |-> offer.tokenId, buyer |-> offer.buyer,
                   price |-> offer.price, expiry |-> offer.expiry,
                   status |-> "ACTIVE"]
           k == Len(s.offers) + 1
<1>1. /\ s.offers \in Seq(Offer) /\ Len(s.offers) \in Nat /\ MaxOffers \in Nat
      /\ k \in 1..MaxOffers
  BY AmountsAssumption DEF ChainState
<1>2. /\ Len(r.offers) = k /\ r.offers[k] = offer
      /\ \A o \in 1..Len(s.offers) : r.offers[o] = s.offers[o]
  BY <1>1
<1>3. /\ n \in Tables /\ n.nffc = m.nffc /\ n.components = m.components
      /\ n.listing = m.listing
      /\ n.offer = m.offer \/ n.offer = [m.offer EXCEPT ![k] = row]
  BY DEF SetsOffer
<1>4. m.offer \in [1..MaxOffers -> OfferRows \cup {NoRow}]
  BY TablesShape
<1>5. /\ row.tokenId = offer.tokenId /\ row.buyer = offer.buyer
      /\ row.price = offer.price /\ row.status = "ACTIVE"
  OBVIOUS
<1> HIDE DEF row
<1>6. /\ \A o \in 1..MaxOffers : o # k => n.offer[o] = m.offer[o]
      /\ n.offer[k] = m.offer[k] \/ n.offer[k] = row
  BY <1>1, <1>3, <1>4
<1>7. m.offer[k] = NoRow
  BY <1>1 DEF TablesAgree, OffersAgree
<1> HIDE DEF k
<1>8. OffersAgree(n, r, taken)
  <2>1. ASSUME NEW o \in 1..k, n.offer[o] # NoRow
        PROVE  /\ n.offer[o].tokenId = r.offers[o].tokenId
               /\ n.offer[o].buyer = r.offers[o].buyer
               /\ n.offer[o].price = r.offers[o].price
               /\ o # taken => (n.offer[o].status = "ACTIVE" <=> r.offers[o].active)
    <3>1. CASE o = k
      BY <1>2, <1>5, <1>6, <1>7, <2>1, <3>1
    <3>2. CASE o # k
      <4>1. o \in 1..Len(s.offers) /\ o \in 1..MaxOffers
        BY <1>1, <3>2 DEF k
      <4>2. n.offer[o] = m.offer[o] /\ r.offers[o] = s.offers[o]
        BY <1>2, <1>6, <3>2, <4>1
      <4> QED
        BY <2>1, <4>1, <4>2 DEF TablesAgree, OffersAgree
    <3> QED
      BY <3>1, <3>2
  <2>2. ASSUME NEW o \in 1..MaxOffers, o > k
        PROVE  n.offer[o] = NoRow
    <3>1. o # k /\ o > Len(s.offers)
      BY <1>1, <2>2 DEF k
    <3> QED
      BY <1>6, <3>1 DEF TablesAgree, OffersAgree
  <2>3. taken # 0 => taken \in 1..k /\ ~r.offers[taken].active
    <3>1. taken # 0 => taken \in 1..Len(s.offers) /\ ~s.offers[taken].active
      BY DEF TablesAgree, OffersAgree
    <3>2. 1..Len(s.offers) \subseteq 1..k
      BY <1>1 DEF k
    <3> QED
      BY <1>2, <3>1, <3>2
  <2>4. k <= MaxOffers
    BY <1>1
  <2> QED
    BY <1>2, <2>1, <2>2, <2>3, <2>4 DEF OffersAgree
<1>9. OwnersAgree(n, r, block) /\ ListingsAgree(n, r, selling)
  BY <1>3 DEF TablesAgree, OwnersAgree, ListingsAgree
<1> QED
  BY <1>3, <1>8, <1>9 DEF TablesAgree

\* The contract closes an offer whose row is closed later.
LEMMA AgreeTaken ==
    ASSUME NEW m, NEW s \in ChainState, NEW r, NEW block, NEW selling,
           NEW o \in 1..Len(s.offers),
           TablesAgree(m, s, block, selling, 0),
           r.offers = [s.offers EXCEPT ![o].active = FALSE],
           r.owner = s.owner, r.listings = s.listings
    PROVE  TablesAgree(m, r, block, selling, o)
<1>1. s.offers \in Seq(Offer) /\ Len(s.offers) \in Nat
  BY DEF ChainState
<1>2. /\ Len(r.offers) = Len(s.offers)
      /\ \A i \in 1..Len(s.offers) : i # o => r.offers[i] = s.offers[i]
  BY <1>1
<1>3. r.offers[o] = [s.offers[o] EXCEPT !.active = FALSE] /\ s.offers[o] \in Offer
  BY <1>1
<1>4. /\ r.offers[o].tokenId = s.offers[o].tokenId
      /\ r.offers[o].buyer = s.offers[o].buyer
      /\ r.offers[o].price = s.offers[o].price
      /\ ~r.offers[o].active
  BY <1>3 DEF Offer
<1>5. OffersAgree(m, r, o)
  <2>1. o # 0 /\ \A i \in 1..Len(s.offers) : i # 0
    BY <1>1
  <2> QED
    BY <1>2, <1>4, <2>1 DEF TablesAgree, OffersAgree
<1> QED
  BY <1>5 DEF TablesAgree, OwnersAgree, ListingsAgree

\* The row of the offer being taken is closed, or there is none.
LEMMA AgreeOfferClosed ==
    ASSUME NEW m \in Tables, NEW n, NEW s \in ChainState, NEW block, NEW selling,
           NEW o \in 1..Len(s.offers),
           TablesAgree(m, s, block, selling, o), ClosesOffer(m, n, o)
    PROVE  TablesAgree(n, s, block, selling, 0)
<1>1. /\ n \in Tables /\ n.nffc = m.nffc /\ n.components = m.components
      /\ n.listing = m.listing
  BY DEF ClosesOffer, SetsOffer
<1>2. /\ m.offer \in [1..MaxOffers -> OfferRows \cup {NoRow}]
      /\ Len(s.offers) \in Nat /\ MaxOffers \in Nat
      /\ Len(s.offers) <= MaxOffers /\ o \in 1..MaxOffers /\ o # 0
  BY TablesShape, AmountsAssumption DEF ChainState, TablesAgree, OffersAgree
<1>3. ~s.offers[o].active
  BY <1>2 DEF TablesAgree, OffersAgree
<1>4. /\ \A i \in 1..MaxOffers : i # o => n.offer[i] = m.offer[i]
      /\ \/ n.offer[o] = m.offer[o]
            /\ (m.offer[o] # NoRow => m.offer[o].status # "ACTIVE")
         \/ /\ m.offer[o] # NoRow
            /\ n.offer[o].tokenId = m.offer[o].tokenId
            /\ n.offer[o].buyer = m.offer[o].buyer
            /\ n.offer[o].price = m.offer[o].price
            /\ n.offer[o].status # "ACTIVE"
  BY <1>2 DEF ClosesOffer, SetsOffer
<1>5. OffersAgree(n, s, 0)
  <2>1. ASSUME NEW i \in 1..Len(s.offers), n.offer[i] # NoRow
        PROVE  /\ n.offer[i].tokenId = s.offers[i].tokenId
               /\ n.offer[i].buyer = s.offers[i].buyer
               /\ n.offer[i].price = s.offers[i].price
               /\ n.offer[i].status = "ACTIVE" <=> s.offers[i].active
    <3>1. i \in 1..MaxOffers
      BY <1>2
    <3>2. CASE i = o
      BY <1>3, <1>4, <2>1, <3>2 DEF TablesAgree, OffersAgree
    <3>3. CASE i # o
      BY <1>4, <2>1, <3>1, <3>3 DEF TablesAgree, OffersAgree
    <3> QED
      BY <3>2, <3>3
  <2>2. ASSUME NEW i \in 1..MaxOffers, i > Len(s.offers)
        PROVE  n.offer[i] = NoRow
    <3>1. i # o
      BY <1>2, <2>2
    <3> QED
      BY <1>4, <2>2, <3>1 DEF TablesAgree, OffersAgree
  <2> QED
    BY <1>2, <2>1, <2>2 DEF OffersAgree
<1> QED
  BY <1>1, <1>5 DEF TablesAgree, OwnersAgree, ListingsAgree

----------------------------------------------------------------------------
(* Every step keeps the agreement *)

\* A snapshot is of the contracts' state.
LEMMA SnapshotFields ==
    ASSUME TypeOK
    PROVE  /\ Snapshot \in ChainState
           /\ Snapshot.owner = owner /\ Snapshot.listings = listings
           /\ Snapshot.offers = offers
BY SnapshotType DEF Snapshot

\* The same of the state after a step.
LEMMA SnapshotFieldsNext ==
    /\ Snapshot'.owner = owner' /\ Snapshot'.listings = listings'
    /\ Snapshot'.offers = offers'
BY DEF Snapshot

\* A step that leaves the tables, the owners, listings and offers alone.
LEMMA QuietMirrors ==
    ASSUME TypeOK, TypeOK', Mirrors, now <= now',
           UNCHANGED <<mirrorVars, owner, listings, offers, saved>>,
           pc = "idle" <=> pc' = "idle", pc' = "refunded" => pc = "refunded",
           Sold \subseteq Sold'
    PROVE  Mirrors'
<1>1. now \in Nat /\ now' \in Nat
  BY DEF TypeOK
<1>2. UNCHANGED <<mirror, mirrorSaved, accepting>>
  BY DEF mirrorVars
<1>3. TablesAgree(mirror, Snapshot, now, Sold, accepting)
  BY DEF Mirrors
<1>4. TablesAgree(mirror', Snapshot', now', Sold', accepting')
  BY <1>1, <1>2, <1>3, SnapshotFields, SnapshotFieldsNext, AgreeAlike
<1>5. pc' # "idle" => TablesAgree(mirrorSaved', saved', now', {}, 0)
  BY <1>1, <1>2, AgreeAlike DEF Mirrors
<1> QED
  BY <1>2, <1>4, <1>5 DEF Mirrors

\* A step that leaves guarded calls alone: only the tables now have to agree.
LEMMA OpenStep ==
    ASSUME Mirrors, UNCHANGED <<now, pc, call, saved, mirrorSaved, accepting>>,
           TablesAgree(mirror', Snapshot', now, Sold, accepting)
    PROVE  Mirrors'
<1>1. Sold' = Sold
  BY DEF Sold, Selling
<1> QED
  BY <1>1 DEF Mirrors

\* What the first step of a guarded call has to establish.
LEMMA BeginStep ==
    ASSUME TypeOK, Mirrors, pc = "idle", pc' # "idle", now' = now,
           saved' = Snapshot, mirrorSaved' = mirror,
           pc' = "refunded" => accepting' = 0,
           TablesAgree(mirror', Snapshot', now, Sold', accepting')
    PROVE  Mirrors'
<1>1. Sold = {} /\ accepting = 0
  BY DEF Sold, Selling, SettlementStages, Mirrors
<1>2. TablesAgree(mirrorSaved', saved', now', {}, 0)
  BY <1>1 DEF Mirrors
<1> QED
  BY <1>2 DEF Mirrors

LEMMA ListingCallsMirror ==
    ASSUME TypeOK, TypeOK', Mirrors, ListingCalls
    PROVE  Mirrors'
<1>1. /\ TablesAgree(mirror, Snapshot, now, Sold, accepting)
      /\ mirror \in Tables /\ Snapshot \in ChainState
      /\ listings \in [Tokens -> Listing] /\ now \in Nat
  BY SnapshotFields DEF Mirrors, TablesAgree, TypeOK
<1>2. PICK a \in Accounts, t \in Tokens :
         \/ \E price \in Prices :
               CreateListing(a, t, price) /\ Emits(Store!ListingCreated(t, a, price))
         \/ CancelListing(a, t) /\ Emits(Store!ListingCancelled(t, a))
  BY DEF ListingCalls
<1>3. UNCHANGED <<now, owner, offers, pc, call, saved, mirrorSaved, accepting>>
  BY <1>2 DEF CreateListing, CancelListing, Emits, nftVars, callVars
<1>4. ASSUME NEW price \in Prices, CreateListing(a, t, price),
             Emits(Store!ListingCreated(t, a, price))
      PROVE  Mirrors'
  <2>1. /\ owner[t] = a /\ a # NoAccount
        /\ listings' = [listings EXCEPT ![t] =
                          [seller |-> a, price |-> price, active |-> TRUE]]
        /\ mirror' = After(mirror, Store!ListingCreated(t, a, price))
    BY <1>4, AccountsAssumption DEF CreateListing, Emits
  <2>2. mirror.nffc[t] # NoRow /\ price \in Nat
    BY <1>1, <2>1, SnapshotFields, AmountsAssumption DEF TablesAgree, OwnersAgree
  <2>3. SetsListing(mirror, mirror', t,
                    [seller |-> a, price |-> price, status |-> "active"])
    BY <1>1, <2>1, <2>2, AfterListingCreated
  <2>4. TablesAgree(mirror', Snapshot', now, Sold, accepting)
    <3>1. Snapshot'.listings = [Snapshot.listings EXCEPT ![t] =
                                  [seller |-> a, price |-> price, active |-> TRUE]]
      BY <2>1, SnapshotFields, SnapshotFieldsNext
    <3>2. Snapshot'.owner = Snapshot.owner /\ Snapshot'.offers = Snapshot.offers
      BY <1>3, SnapshotFields, SnapshotFieldsNext
    <3> QED
      BY <1>1, <2>3, <3>1, <3>2, AgreeListed
  <2> QED
    BY <1>3, <2>4, OpenStep
<1>5. ASSUME CancelListing(a, t), Emits(Store!ListingCancelled(t, a))
      PROVE  Mirrors'
  <2>1. \A u \in Tokens \ {t} : listings'[u] = listings[u]
    BY <1>1, <1>5 DEF CancelListing, CloseListing
  <2>2. ClosesListing(mirror, mirror', t)
    BY <1>1, <1>5, AfterListingClosed DEF Emits
  <2>3. TablesAgree(mirror', Snapshot', now, Sold, accepting)
    <3>1. \A u \in Tokens \ {t} : Snapshot'.listings[u] = Snapshot.listings[u]
      BY <2>1, SnapshotFields, SnapshotFieldsNext
    <3>2. Snapshot'.owner = Snapshot.owner /\ Snapshot'.offers = Snapshot.offers
      BY <1>3, SnapshotFields, SnapshotFieldsNext
    <3> QED
      BY <1>1, <2>2, <3>1, <3>2, AgreeListingClosed
  <2> QED
    BY <1>3, <2>3, OpenStep
<1> QED
  BY <1>2, <1>4, <1>5

\* What safeTransferFrom leaves of the tables m.
LEMMA SaleMoves ==
    ASSUME TypeOK, NEW m \in Tables, NEW s, NEW r, NEW selling, NEW taken,
           s \in ChainState, TablesAgree(m, s, now, selling, taken),
           NEW t \in Tokens, NEW from \in Accounts, NEW to \in Accounts,
           s.owner[t] = from, r.owner = [s.owner EXCEPT ![t] = to],
           r.listings = s.listings, r.offers = s.offers
    PROVE  TablesAgree(After(m, Store!Transferred(t, from, to)), r, now, selling, taken)
<1>1. now \in Nat /\ from # NoAccount
  BY AccountsAssumption DEF TypeOK
<1>2. m.nffc[t] # NoRow /\ m.nffc[t].syncedBlock <= now /\ t \in m.components
  BY <1>1 DEF TablesAgree, OwnersAgree
<1> DEFINE n == After(m, Store!Transferred(t, from, to))
<1>3. SetsNFFC(m, n, t, [owner |-> to, syncedBlock |-> now]) /\ n.components = m.components
  BY <1>1, <1>2, AfterTransferred
<1> HIDE DEF n
<1>4. n.components = m.components \cup {t}
  BY <1>2, <1>3
<1>5. TablesAgree(n, r, now, selling, taken)
  BY <1>1, <1>3, <1>4, AgreeMoved
<1> QED
  BY <1>5 DEF n

LEMMA TokenCallsMirror ==
    ASSUME TypeOK, TypeOK', Mirrors, TokenCalls
    PROVE  Mirrors'
<1>1. /\ TablesAgree(mirror, Snapshot, now, Sold, accepting)
      /\ mirror \in Tables /\ Snapshot \in ChainState
      /\ owner \in [Tokens -> Holders] /\ now \in Nat
  BY SnapshotFields DEF Mirrors, TablesAgree, TypeOK
<1>2. PICK a \in Accounts :
        \/ \E t \in Tokens :
              Mint(a, t) /\ mirror' = Minted(a, t) /\ UNCHANGED <<mirrorSaved, accepting>>
        \/ \E t \in Tokens, to \in Accounts :
              Transfer(a, t, to) /\ Emits(Store!Transferred(t, a, to))
        \/ SetApprovalForAll(a) /\ Silent
  BY DEF TokenCalls
<1>3. UNCHANGED <<now, listings, offers, pc, call, saved, mirrorSaved, accepting>>
  BY <1>2 DEF Mint, Transfer, SetApprovalForAll, Emits, Silent, mirrorVars,
              marketVars, callVars
<1>4. Snapshot'.listings = Snapshot.listings /\ Snapshot'.offers = Snapshot.offers
  BY <1>3, SnapshotFields, SnapshotFieldsNext
<1>5. ASSUME NEW t \in Tokens, Mint(a, t), mirror' = Minted(a, t)
      PROVE  Mirrors'
  <2>1. owner[t] = NoAccount /\ owner' = [owner EXCEPT ![t] = a]
    BY <1>5 DEF Mint
  <2>2. mirror.nffc[t] = NoRow
    BY <1>1, <2>1, SnapshotFields DEF TablesAgree, OwnersAgree
  <2>3. /\ SetsNFFC(mirror, mirror', t, [owner |-> a, syncedBlock |-> now])
        /\ mirror'.components = mirror.components \cup {t}
    BY <1>1, <1>5, <2>2, AfterMinted
  <2>4. Snapshot'.owner = [Snapshot.owner EXCEPT ![t] = a]
    BY <2>1, SnapshotFields, SnapshotFieldsNext
  <2>5. TablesAgree(mirror', Snapshot', now, Sold, accepting)
    BY <1>1, <1>4, <2>3, <2>4, AgreeMoved
  <2> QED
    BY <1>3, <2>5, OpenStep
<1>6. ASSUME NEW t \in Tokens, NEW to \in Accounts, Transfer(a, t, to),
             Emits(Store!Transferred(t, a, to))
      PROVE  Mirrors'
  <2>1. owner[t] = a /\ owner' = [owner EXCEPT ![t] = to]
    BY <1>6 DEF Transfer
  <2>2. /\ Snapshot.owner[t] = a
        /\ Snapshot'.owner = [Snapshot.owner EXCEPT ![t] = to]
    BY <2>1, SnapshotFields, SnapshotFieldsNext
  <2>3. TablesAgree(mirror', Snapshot', now, Sold, accepting)
    BY <1>1, <1>4, <1>6, <2>2, SaleMoves DEF Emits
  <2> QED
    BY <1>3, <2>3, OpenStep
<1>7. ASSUME SetApprovalForAll(a), Silent
      PROVE  Mirrors'
  <2>1. UNCHANGED <<mirror, owner>>
    BY <1>7 DEF SetApprovalForAll, Silent, mirrorVars
  <2>2. TablesAgree(mirror', Snapshot', now, Sold, accepting)
    <3>1. Snapshot'.owner = Snapshot.owner /\ now <= now /\ Sold \cap Tokens \subseteq Sold
      BY <1>1, <2>1, SnapshotFields, SnapshotFieldsNext
    <3>2. TablesAgree(mirror, Snapshot', now, Sold, accepting)
      BY <1>1, <1>4, <3>1, AgreeAlike
    <3> QED
      BY <2>1, <3>2
  <2> QED
    BY <1>3, <2>2, OpenStep
<1> QED
  BY <1>2, <1>5, <1>6, <1>7

\* buy: the token moves, and its listing's row stays open until the Sale.
LEMMA BuyMirrors ==
    ASSUME TypeOK, TypeOK', Mirrors, NEW a \in Accounts, NEW t \in Tokens,
           Buy(a, t), Begins(After(mirror, Store!Transferred(t, owner[t], a)), 0)
    PROVE  Mirrors'
<1>1. /\ mirror \in Tables /\ Snapshot \in ChainState
      /\ listings \in [Tokens -> Listing] /\ owner \in [Tokens -> Holders]
      /\ operators \subseteq Accounts
      /\ TablesAgree(mirror, Snapshot, now, Sold, accepting)
  BY SnapshotFields DEF Mirrors, TablesAgree, TypeOK
<1>2. /\ pc = "idle" /\ pc' = "moved" /\ now' = now /\ saved' = Snapshot
      /\ owner' = [owner EXCEPT ![t] = a] /\ owner[t] \in operators
      /\ listings' = CloseListing(t) /\ offers' = offers
      /\ call' = SettleCuts(t, listings[t].seller, a, listings[t].price)
  BY DEF Buy, Settle
<1>3. accepting = 0 /\ owner[t] \in Accounts /\ Sold = {}
  BY <1>1, <1>2 DEF Mirrors, Sold, Selling, SettlementStages
<1>4. call'.tokenId = t
  BY <1>2 DEF SettleCuts
<1>5. Sold' = {t}
  BY <1>2, <1>4 DEF Sold, Selling, SettlementStages
<1> DEFINE moved == [Snapshot EXCEPT !.owner = owner']
<1>6. moved.owner = owner' /\ moved.listings = listings /\ moved.offers = offers
  BY DEF Snapshot
<1> HIDE DEF moved
<1>7. TablesAgree(mirror', moved, now, {}, 0)
  <2>1. moved.owner = [Snapshot.owner EXCEPT ![t] = a] /\ Snapshot.owner[t] = owner[t]
    BY <1>2, <1>6, SnapshotFields
  <2>2. moved.listings = Snapshot.listings /\ moved.offers = Snapshot.offers
    BY <1>6, SnapshotFields
  <2>3. mirror' = After(mirror, Store!Transferred(t, owner[t], a))
    BY DEF Begins
  <2> QED
    BY <1>1, <1>3, <2>1, <2>2, <2>3, SaleMoves
<1>8. \A u \in Tokens \ {t} : Snapshot'.listings[u] = moved.listings[u]
  BY <1>1, <1>2, <1>6, SnapshotFieldsNext DEF CloseListing
<1>9. Snapshot'.owner = moved.owner /\ Snapshot'.offers = moved.offers
  BY <1>2, <1>6, SnapshotFieldsNext
<1>10. TablesAgree(mirror', Snapshot', now, {t}, 0)
  BY <1>7, <1>8, <1>9 DEF TablesAgree, OwnersAgree, ListingsAgree, OffersAgree
<1>11. mirrorSaved' = mirror /\ accepting' = 0
  BY DEF Begins
<1> QED
  BY <1>2, <1>5, <1>10, <1>11, BeginStep

\* acceptOffer: a listing still open is cancelled, the token moves, and the
\* offer's row stays open until OfferAccepted.
LEMMA AcceptOfferMirrors ==
    ASSUME TypeOK, TypeOK', Mirrors, NEW a \in Accounts, NEW o \in OfferIds,
           NEW t, t = offers[o].tokenId, NEW cancelled,
           cancelled = (IF listings[t].active
                        THEN After(mirror, Store!ListingCancelled(t, a))
                        ELSE mirror),
           AcceptOffer(a, o),
           Begins(After(cancelled, Store!Transferred(t, a, offers[o].buyer)), o)
    PROVE  Mirrors'
<1>1. /\ mirror \in Tables /\ Snapshot \in ChainState
      /\ listings \in [Tokens -> Listing] /\ owner \in [Tokens -> Holders]
      /\ offers \in Seq(Offer) /\ o \in 1..Len(offers)
      /\ TablesAgree(mirror, Snapshot, now, Sold, accepting)
  BY SnapshotFields DEF Mirrors, TablesAgree, TypeOK, OfferIds
<1>2. offers[o] \in Offer
  BY <1>1
<1>3. t \in Tokens /\ offers[o].buyer \in Accounts
  BY <1>2 DEF Offer
<1> DEFINE b == offers[o].buyer
<1>4. /\ pc = "idle" /\ pc' = "moved" /\ now' = now /\ saved' = Snapshot
      /\ owner' = [owner EXCEPT ![t] = b] /\ owner[t] = a
      /\ listings' = CloseListing(t) /\ offers' = CloseOffer(o)
      /\ call' = SettleCuts(t, a, b, offers[o].price)
  BY DEF AcceptOffer, Settle
<1>5. accepting = 0 /\ Sold = {}
  BY <1>4 DEF Mirrors, Sold, Selling, SettlementStages
<1>6. call'.tokenId = t
  BY <1>4 DEF SettleCuts
<1>7. Sold' = {t}
  BY <1>3, <1>4, <1>6 DEF Sold, Selling, SettlementStages
<1>8. TablesAgree(cancelled, Snapshot, now, {t}, 0)
  <2>1. CASE listings[t].active
    <3>1. ClosesListing(mirror, cancelled, t)
      BY <1>1, <1>3, <2>1, AfterListingClosed
    <3>2. {} \subseteq {t} \cup {t}
      OBVIOUS
    <3> QED
      BY <1>1, <1>3, <1>5, <3>1, <3>2, AgreeListingClosed
  <2>2. CASE ~listings[t].active
    <3>1. cancelled = mirror
      BY <2>2
    <3> QED
      BY <1>1, <1>5, <3>1 DEF TablesAgree, ListingsAgree
  <2> QED
    BY <2>1, <2>2
<1>9. cancelled \in Tables
  BY <1>8 DEF TablesAgree
<1> DEFINE moved == [Snapshot EXCEPT !.owner = owner']
<1>10. moved.owner = owner' /\ moved.listings = listings /\ moved.offers = offers
  BY DEF Snapshot
<1> HIDE DEF moved
<1>11. TablesAgree(mirror', moved, now, {t}, 0)
  <2>1. moved.owner = [Snapshot.owner EXCEPT ![t] = b] /\ Snapshot.owner[t] = a
    BY <1>4, <1>10, SnapshotFields
  <2>2. moved.listings = Snapshot.listings /\ moved.offers = Snapshot.offers
    BY <1>10, SnapshotFields
  <2>3. mirror' = After(cancelled, Store!Transferred(t, a, b))
    BY DEF Begins
  <2> QED
    BY <1>1, <1>3, <1>8, <1>9, <2>1, <2>2, <2>3, SaleMoves
<1> DEFINE taken == [Snapshot EXCEPT !.owner = owner', !.offers = offers']
<1>12. taken.owner = owner' /\ taken.listings = listings /\ taken.offers = offers'
  BY DEF Snapshot
<1> HIDE DEF taken
<1>13. TablesAgree(mirror', taken, now, {t}, o)
  <2>1. moved.owner = owner' /\ moved \in ChainState
    <3>1. owner' \in [Tokens -> Holders]
      BY DEF TypeOK
    <3> QED
      BY <1>1, <3>1 DEF moved, ChainState
  <2>2. o \in 1..Len(moved.offers)
    BY <1>1, <1>10
  <2>3. taken.offers = [moved.offers EXCEPT ![o].active = FALSE]
    BY <1>4, <1>10, <1>12 DEF CloseOffer
  <2>4. taken.owner = moved.owner /\ taken.listings = moved.listings
    BY <1>10, <1>12
  <2> QED
    BY <1>11, <2>1, <2>2, <2>3, <2>4, AgreeTaken
<1>14. \A u \in Tokens \ {t} : Snapshot'.listings[u] = taken.listings[u]
  BY <1>1, <1>4, <1>12, SnapshotFieldsNext DEF CloseListing
<1>15. Snapshot'.owner = taken.owner /\ Snapshot'.offers = taken.offers
  BY <1>12, SnapshotFieldsNext
<1>16. TablesAgree(mirror', Snapshot', now, {t}, o)
  BY <1>13, <1>14, <1>15 DEF TablesAgree, OwnersAgree, ListingsAgree, OffersAgree
<1>17. mirrorSaved' = mirror /\ accepting' = o
  BY DEF Begins
<1> QED
  BY <1>4, <1>7, <1>16, <1>17, BeginStep

LEMMA SaleCallsMirror ==
    ASSUME TypeOK, TypeOK', Mirrors, SaleCalls
    PROVE  Mirrors'
BY BuyMirrors, AcceptOfferMirrors DEF SaleCalls

LEMMA OfferCallsMirror ==
    ASSUME TypeOK, TypeOK', Mirrors, OfferCalls
    PROVE  Mirrors'
<1>1. /\ mirror \in Tables /\ Snapshot \in ChainState
      /\ offers \in Seq(Offer) /\ Len(offers) \in Nat
      /\ TablesAgree(mirror, Snapshot, now, Sold, accepting)
  BY SnapshotFields DEF Mirrors, TablesAgree, TypeOK
<1>2. ASSUME NEW a \in Accounts, NEW t \in Tokens, NEW price \in Prices,
             NEW expiry \in Expiries, CreateOffer(a, t, price, expiry),
             Emits(Store!OfferCreated(Len(offers) + 1, t, a, price, expiry))
      PROVE  Mirrors'
  <2> DEFINE offer == [tokenId |-> t, buyer |-> a, price |-> price,
                       expiry |-> expiry, active |-> TRUE]
             k == Len(offers) + 1
  <2>1. price \in Nat /\ expiry \in Nat /\ MaxOffers \in Nat
    BY AmountsAssumption
  <2>2. offer \in Offer /\ offer.active
    BY <2>1 DEF Offer
  <2>3. /\ offers' = Append(offers, offer) /\ Len(offers) < MaxOffers
        /\ UNCHANGED <<now, owner, listings, pc, call, saved, mirrorSaved, accepting>>
        /\ mirror' = After(mirror, Store!OfferCreated(k, t, a, price, expiry))
    BY <1>2 DEF CreateOffer, WithNewOffer, Emits, nftVars, callVars
  <2>4. k \in 1..MaxOffers /\ k > Len(offers)
    BY <1>1, <2>1, <2>3
  <2>5. mirror.offer[k] = NoRow
    BY <1>1, <2>4, SnapshotFields DEF TablesAgree, OffersAgree
  <2>6. \/ mirror' = mirror
        \/ SetsOffer(mirror, mirror', k,
              [tokenId |-> t, buyer |-> a, price |-> price,
               expiry |-> expiry, status |-> "ACTIVE"])
    BY <1>1, <2>1, <2>3, <2>4, <2>5, AfterOfferCreated
  <2>7. /\ offer.tokenId = t /\ offer.buyer = a /\ offer.price = price
        /\ offer.expiry = expiry
    OBVIOUS
  <2>8. /\ Snapshot'.offers = Append(Snapshot.offers, offer)
        /\ Len(Snapshot.offers) < MaxOffers /\ k = Len(Snapshot.offers) + 1
        /\ Snapshot'.owner = Snapshot.owner /\ Snapshot'.listings = Snapshot.listings
    BY <2>3, SnapshotFields, SnapshotFieldsNext
  <2> HIDE DEF offer, k
  <2>9. TablesAgree(mirror', Snapshot', now, Sold, accepting)
    BY <1>1, <2>2, <2>6, <2>7, <2>8, AgreeOffered
  <2> QED
    BY <2>3, <2>9, OpenStep
<1>3. ASSUME NEW a \in Accounts, NEW o \in OfferIds, CancelOffer(a, o),
             Begins(After(mirror, Store!OfferCancelled(o)), 0)
      PROVE  Mirrors'
  <2>1. /\ pc = "idle" /\ pc' = "refunded" /\ now' = now /\ saved' = Snapshot
        /\ offers' = CloseOffer(o) /\ UNCHANGED <<owner, listings>>
    BY <1>3 DEF CancelOffer, nftVars
  <2>2. accepting = 0 /\ Sold = {} /\ Sold' = {}
    BY <2>1 DEF Mirrors, Sold, Selling, SettlementStages
  <2>3. /\ mirror' = After(mirror, Store!OfferCancelled(o))
        /\ mirrorSaved' = mirror /\ accepting' = 0
    BY <1>3 DEF Begins
  <2>4. o \in 1..Len(offers) /\ o \in 1..MaxOffers /\ o \in 1..Len(Snapshot.offers)
    BY <1>1, SnapshotFields, AmountsAssumption DEF OfferIds, TablesAgree, OffersAgree
  <2>5. ClosesOffer(mirror, mirror', o)
    BY <1>1, <2>3, <2>4, AfterOfferClosed
  <2>6. TablesAgree(mirror, Snapshot', now, {}, o)
    <3>1. /\ Snapshot'.offers = [Snapshot.offers EXCEPT ![o].active = FALSE]
          /\ Snapshot'.owner = Snapshot.owner /\ Snapshot'.listings = Snapshot.listings
      BY <2>1, SnapshotFields, SnapshotFieldsNext DEF CloseOffer
    <3> QED
      BY <1>1, <2>2, <2>4, <3>1, AgreeTaken
  <2>7. TablesAgree(mirror', Snapshot', now, {}, 0)
    <3>1. Snapshot' \in ChainState
      BY SnapshotType DEF Snapshot, TypeOK, ChainState
    <3>2. Len(Snapshot'.offers) = Len(offers)
      BY <1>1, <2>1, SnapshotFieldsNext DEF CloseOffer
    <3> QED
      BY <1>1, <2>4, <2>5, <2>6, <3>1, <3>2, AgreeOfferClosed
  <2> QED
    BY <2>1, <2>2, <2>3, <2>7, BeginStep
<1> QED
  BY <1>2, <1>3 DEF OfferCalls

\* Payouts touch neither the tables nor what they mirror.
LEMMA PayMirrors ==
    ASSUME TypeOK, TypeOK', Mirrors, PayFee \/ PayRoyalty \/ PayProceeds, Silent
    PROVE  Mirrors'
<1>1. /\ UNCHANGED <<now, owner, listings, offers, saved, call>>
      /\ pc \in SettlementStages /\ pc' \in SettlementStages
  BY DEF PayFee, PayRoyalty, PayProceeds, nftVars, SettlementStages
<1>2. Sold' = Sold
  BY <1>1 DEF Sold, Selling
<1>3. now <= now' /\ UNCHANGED mirrorVars
  BY <1>1 DEF TypeOK, Silent
<1>4. (pc = "idle" <=> pc' = "idle") /\ pc' # "refunded"
  BY <1>1 DEF SettlementStages
<1> QED
  BY <1>1, <1>2, <1>3, <1>4, QuietMirrors

\* A settlement that returns closes the rows of its listing and its offer.
LEMMA ReturnMirrors ==
    ASSUME TypeOK, TypeOK', Mirrors, Return,
           Ends(IF pc = "refunded" THEN mirror ELSE ClosingEvents(mirror))
    PROVE  Mirrors'
<1>1. /\ mirror \in Tables /\ Snapshot \in ChainState
      /\ offers \in Seq(Offer) /\ Len(offers) \in Nat /\ now \in Nat
      /\ TablesAgree(mirror, Snapshot, now, Sold, accepting)
  BY SnapshotFields DEF Mirrors, TablesAgree, TypeOK
<1>2. /\ pc' = "idle" /\ UNCHANGED <<now, owner, listings, offers>>
      /\ pc \in {"proceedsPaid", "refunded"} /\ accepting' = 0
  BY DEF Return, nftVars, marketVars, Ends
<1>3. Sold' = {} /\ Snapshot'.owner = Snapshot.owner
        /\ Snapshot'.listings = Snapshot.listings /\ Snapshot'.offers = Snapshot.offers
  BY <1>2, SnapshotFields, SnapshotFieldsNext DEF Sold, Selling, SettlementStages
<1>4. SUFFICES TablesAgree(mirror', Snapshot, now, {}, 0)
  BY <1>2, <1>3 DEF Mirrors, TablesAgree, OwnersAgree, ListingsAgree, OffersAgree
<1>5. CASE pc = "refunded"
  <2>1. mirror' = mirror /\ Sold = {} /\ accepting = 0
    BY <1>5 DEF Ends, Mirrors, Sold, Selling, SettlementStages
  <2> QED
    BY <1>1, <2>1
<1>6. CASE pc = "proceedsPaid"
  <2> DEFINE t == call.tokenId
             sold == After(mirror, Store!Sold(call.tokenId, call.seller, call.buyer,
                                              call.price))
  <2>1. t \in Tokens /\ call \in Call
    BY <1>6 DEF TypeOK, Call
  <2>2. Sold \subseteq {} \cup {t}
    BY DEF Sold, Selling
  <2>3. ClosesListing(mirror, sold, t)
    BY <1>1, <2>1, AfterListingClosed
  <2>4. mirror' = ClosingEvents(mirror)
    BY <1>6 DEF Ends
  <2> HIDE DEF sold
  <2>5. TablesAgree(sold, Snapshot, now, {}, accepting)
    BY <1>1, <2>1, <2>2, <2>3, AgreeListingClosed
  <2>6. CASE accepting = 0
    BY <2>4, <2>5, <2>6 DEF ClosingEvents, sold
  <2>7. CASE accepting # 0
    <3>1. accepting \in 1..Len(Snapshot.offers) /\ accepting \in 1..MaxOffers
      BY <1>1, <2>7, AmountsAssumption, SnapshotFields DEF TablesAgree, OffersAgree
    <3>2. sold \in Tables
      BY <2>5 DEF TablesAgree
    <3>3. mirror' = After(sold, Store!OfferAccepted(accepting, call.tokenId, call.seller,
                                                    call.buyer, call.price))
      BY <2>4, <2>7 DEF ClosingEvents, sold
    <3>4. ClosesOffer(sold, mirror', accepting)
      BY <3>1, <3>2, <3>3, AfterOfferClosed
    <3> QED
      BY <1>1, <2>5, <3>1, <3>2, <3>4, AgreeOfferClosed
  <2> QED
    BY <2>6, <2>7
<1> QED
  BY <1>2, <1>5, <1>6

\* A revert takes back the rows with the state they mirror.
LEMMA RevertMirrors ==
    ASSUME TypeOK, TypeOK', Mirrors, Revert, Ends(mirrorSaved)
    PROVE  Mirrors'
<1>1. /\ pc # "idle" /\ pc' = "idle" /\ now' = now
      /\ owner' = saved.owner /\ listings' = saved.listings
      /\ offers' = saved.offers /\ mirror' = mirrorSaved /\ accepting' = 0
  BY DEF Revert, Ends, Stages, SettlementStages
<1>2. Sold' = {}
  BY <1>1 DEF Sold, Selling, SettlementStages
<1>3. TablesAgree(mirror', saved, now, {}, 0)
  BY <1>1 DEF Mirrors
<1>4. TablesAgree(mirror', Snapshot', now, {}, 0)
  BY <1>1, <1>3, SnapshotFieldsNext
  DEF TablesAgree, OwnersAgree, ListingsAgree, OffersAgree
<1> QED
  BY <1>1, <1>2, <1>4 DEF Mirrors

\* Administration and the clock emit nothing the tables hold.
LEMMA OutsideMirrors ==
    ASSUME TypeOK, TypeOK', Mirrors, AdminCall \/ Tick, Silent
    PROVE  Mirrors'
<1>1. UNCHANGED <<owner, listings, offers, saved, call, pc>>
  BY DEF AdminCall, Pause, Unpause, SetMarketplaceFeeBps, SetRoyaltyBps,
         SetFeeRecipient, Tick, nftVars, marketVars, feeVars, callVars
<1>2. now <= now'
  <2>1. CASE AdminCall
    BY <2>1 DEF AdminCall, Pause, Unpause, SetMarketplaceFeeBps, SetRoyaltyBps,
                SetFeeRecipient, TypeOK
  <2>2. CASE Tick
    BY <2>2 DEF Tick, TypeOK
  <2> QED
    BY <2>1, <2>2
<1>3. Sold' = Sold
  BY <1>1 DEF Sold, Selling
<1>4. UNCHANGED mirrorVars
  BY DEF Silent
<1> QED
  BY <1>1, <1>2, <1>3, <1>4, QuietMirrors

\* Initially there are no tokens, listings or offers, and no rows.
LEMMA InitMirrors == MirrorInit => Mirrors
<1> SUFFICES ASSUME MirrorInit PROVE Mirrors
  OBVIOUS
<1>1. mirror = [nffc |-> [t \in Tokens |-> NoRow], components |-> {},
                listing |-> [t \in Tokens |-> NoRow],
                offer |-> [o \in 1..MaxOffers |-> NoRow]]
  BY DEF MirrorInit, Store!NoRows
<1>2. mirror \in Tables
  BY <1>1 DEF Tables
<1>3. /\ Snapshot.owner = [t \in Tokens |-> NoAccount]
      /\ Snapshot.offers = <<>> /\ pc = "idle" /\ accepting = 0
  BY DEF MirrorInit, Init, Snapshot
<1>4. Len(<<>>) = 0 /\ 0 <= MaxOffers
  BY AmountsAssumption
<1>5. OwnersAgree(mirror, Snapshot, now) /\ ListingsAgree(mirror, Snapshot, Sold)
  BY <1>1, <1>3 DEF OwnersAgree, ListingsAgree, IsOpenRow
<1>6. OffersAgree(mirror, Snapshot, accepting)
  BY <1>1, <1>3, <1>4 DEF OffersAgree
<1> QED
  BY <1>2, <1>3, <1>5, <1>6 DEF Mirrors, TablesAgree

LEMMA StepMirrors ==
    TypeOK /\ TypeOK' /\ Mirrors /\ [MirrorNext]_<<vars, mirrorVars>> => Mirrors'
<1> SUFFICES ASSUME TypeOK, TypeOK', Mirrors, [MirrorNext]_<<vars, mirrorVars>>
             PROVE  Mirrors'
  OBVIOUS
<1>1. CASE ListingCalls \/ SaleCalls \/ OfferCalls \/ TokenCalls
  BY <1>1, ListingCallsMirror, SaleCallsMirror, OfferCallsMirror, TokenCallsMirror
<1>2. CASE GuardedSteps
  BY <1>2, PayMirrors, ReturnMirrors, RevertMirrors DEF GuardedSteps
<1>3. CASE (AdminCall \/ Tick) /\ Silent
  BY <1>3, OutsideMirrors
<1>4. CASE UNCHANGED <<vars, mirrorVars>>
  <2>1. UNCHANGED <<now, owner, listings, offers, pc, call, saved>>
    BY <1>4 DEF vars, nftVars, marketVars, callVars
  <2>2. Sold' = Sold /\ now <= now'
    BY <2>1 DEF Sold, Selling, TypeOK
  <2> QED
    BY <1>4, <2>1, <2>2, QuietMirrors
<1> QED
  BY <1>1, <1>2, <1>3, <1>4 DEF MirrorNext

----------------------------------------------------------------------------
(* Theorems *)

\* Writing the tables never gets in the contracts' way: with them, the
\* marketplace takes the steps it takes without them, so everything proved of
\* it holds here.
THEOREM MirrorOnlyWatches == MirrorSpec => Spec
<1>1. MirrorInit => Init
  BY DEF MirrorInit
<1>2. [MirrorNext]_<<vars, mirrorVars>> => [Next]_vars
  <2>1. ListingCalls \/ SaleCalls \/ OfferCalls => MarketCall
    BY DEF ListingCalls, SaleCalls, OfferCalls, MarketCall
  <2>2. GuardedSteps => Advance \/ Revert
    BY DEF GuardedSteps, Advance
  <2>3. TokenCalls => TokenCall
    BY DEF TokenCalls, TokenCall
  <2> QED
    BY <2>1, <2>2, <2>3 DEF MirrorNext, Next
<1> QED
  BY <1>1, <1>2, PTL DEF MirrorSpec, Spec

\* The inductive invariant holds of the composition.
LEMMA SpecMirrors == MirrorSpec => []Mirrors
<1>1. MirrorSpec => []TypeOK
  BY MirrorOnlyWatches, TypeCorrect, PTL
<1> QED
  BY <1>1, InitMirrors, StepMirrors, PTL DEF MirrorSpec

\* The owner column is the contract's owner in every state, callbacks in the
\* middle of a settlement and reverts included, and every minted token has
\* its composition (plan.ts OWNER_CHANGED, NFFC_MINTED; Marketplace._settle).
THEOREM OwnersAlwaysMirrored == MirrorSpec => []OwnersMirrored
<1>1. Mirrors => OwnersMirrored
  BY DEF Mirrors, TablesAgree, OwnersAgree, Snapshot, OwnersMirrored
<1> QED
  BY <1>1, SpecMirrors, PTL

\* Between calls the offer table shows as open exactly the offers that can
\* still be accepted or refunded, at their own terms (plan.ts OFFER_OPENED,
\* OFFER_CLOSED; Marketplace.acceptOffer, cancelOffer).
THEOREM OffersAlwaysMirrored == MirrorSpec => []OffersMirrored
<1>1. Mirrors /\ TypeOK => OffersMirrored
  <2> SUFFICES ASSUME Mirrors, TypeOK, pc = "idle"
               PROVE  \A o \in OfferIds :
                         mirror.offer[o] # NoRow =>
                            /\ mirror.offer[o].tokenId = offers[o].tokenId
                            /\ mirror.offer[o].buyer = offers[o].buyer
                            /\ mirror.offer[o].price = offers[o].price
                            /\ mirror.offer[o].status = "ACTIVE" <=> offers[o].active
    BY DEF OffersMirrored
  <2>1. accepting = 0 /\ OffersAgree(mirror, Snapshot, accepting)
    BY DEF Mirrors, TablesAgree
  <2>2. Snapshot.offers = offers /\ \A o \in OfferIds : o # 0
    BY SnapshotFields DEF OfferIds, TypeOK
  <2> QED
    BY <2>1, <2>2 DEF OffersAgree, OfferIds
<1>2. MirrorSpec => []TypeOK
  BY MirrorOnlyWatches, TypeCorrect, PTL
<1> QED
  BY <1>1, <1>2, SpecMirrors, PTL

\* The listing table never offers a listing, or terms, the contract does not
\* have (plan.ts LISTING_OPENED, LISTING_CLOSED; Marketplace.createListing,
\* cancelListing, buy, acceptOffer).
THEOREM ListingsNeverInvented == MirrorSpec => []ListingsNotInvented
<1>1. Mirrors => ListingsNotInvented
  <2> SUFFICES ASSUME Mirrors, NEW t \in Tokens, mirror.listing[t] # NoRow,
                      mirror.listing[t].status = "active", ~Selling(t)
               PROVE  /\ listings[t].active
                      /\ mirror.listing[t].seller = listings[t].seller
                      /\ mirror.listing[t].price = listings[t].price
    BY DEF ListingsNotInvented
  <2>1. t \in Tokens \ Sold /\ Snapshot.listings = listings
    BY DEF Sold, Snapshot
  <2> QED
    BY <2>1 DEF Mirrors, TablesAgree, ListingsAgree, IsOpenRow
<1> QED
  BY <1>1, SpecMirrors, PTL
=============================================================================
