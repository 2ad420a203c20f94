---------------------------- MODULE MirrorTables ----------------------------
(***************************************************************************)
(* What one contract event does to the read model in Postgres:             *)
(* domain/indexer/plan.ts decides which rows an event writes, and          *)
(* infra/indexer/postgres-indexer-store.ts writes them over the tables of  *)
(* db/migrations/0003_indexer_mirror.sql, with their keys, their foreign   *)
(* keys and the range of their columns. A table is a function from its     *)
(* primary key, None where there is no row.                                *)
(***************************************************************************)
EXTENDS Naturals

CONSTANTS
    Tokens,        \* token ids events may name
    WideTokens,    \* those too large for a bigint column
    StrayTokens,   \* those minted into a collection whose id is too large for one
    OfferKeys,     \* offer ids events may name
    None,          \* no row, or a field the event does not have
    ZeroAddress,   \* address(0)
    MaxTimestamp   \* last second timestamptz can hold

\* A decoded event. seller and buyer stand for the two parties every kind
\* names in its own way: from and to of a Transfer, creator of a mint.
Event(kind, t, seller, buyer, o, price, expiry) ==
    [kind |-> kind, tokenId |-> t, seller |-> seller, buyer |-> buyer,
     offerId |-> o, price |-> price, expiry |-> expiry]

NFFCMinted(t, creator) == Event("NFFC_MINTED", t, None, creator, None, 0, 0)
NFFCCompositionRecorded(t) ==
    Event("NFFC_COMPOSITION_RECORDED", t, None, None, None, 0, 0)
Transferred(t, from, to) == Event("TRANSFER", t, from, to, None, 0, 0)
ListingCreated(t, seller, price) ==
    Event("LISTING_CREATED", t, seller, None, None, price, 0)
ListingCancelled(t, seller) ==
    Event("LISTING_CANCELLED", t, seller, None, None, 0, 0)
Sold(t, seller, buyer, price) == Event("SALE", t, seller, buyer, None, price, 0)
OfferCreated(o, t, buyer, price, expiry) ==
    Event("OFFER_CREATED", t, None, buyer, o, price, expiry)
OfferCancelled(o) == Event("OFFER_CANCELLED", None, None, None, o, 0, 0)
OfferAccepted(o, t, seller, buyer, price) ==
    Event("OFFER_ACCEPTED", t, seller, buyer, o, price, 0)

----------------------------------------------------------------------------
(* planWrite *)

\* The Transfer of _mint says nothing NFFCMinted did not.
IsMintTransfer(e) == e.kind = "TRANSFER" /\ e.seller = ZeroAddress

HasActivity(e) == e.kind # "NFFC_COMPOSITION_RECORDED" /\ ~IsMintTransfer(e)
HasMirror(e) == ~IsMintTransfer(e)

\* The activity insert fails: its token_id column is a bigint.
Unrecordable(e) == e.tokenId \in WideTokens

----------------------------------------------------------------------------
(* applyMirrorWrite *)

NoRows == [nffc |-> [t \in Tokens |-> None], components |-> {},
           listing |-> [t \in Tokens |-> None],
           offer |-> [o \in OfferKeys |-> None]]

\* The write fails: nffc_component, listing and offer reference nffc, the
\* collection_id column is a bigint, and an expiry beyond the range of
\* timestamptz has no representation.
Rejected(m, e) ==
    \/ e.kind = "NFFC_MINTED" /\ e.tokenId \in StrayTokens
    \/ /\ e.kind \in {"NFFC_COMPOSITION_RECORDED", "LISTING_CREATED", "OFFER_CREATED"}
       /\ m.nffc[e.tokenId] = None
    \/ e.kind = "OFFER_CREATED" /\ e.expiry > MaxTimestamp

\* ON CONFLICT (token_id) DO NOTHING
MintRow(m, e, block) ==
    IF m.nffc[e.tokenId] # None THEN m
    ELSE [m EXCEPT !.nffc[e.tokenId] = [owner |-> e.buyer, syncedBlock |-> block]]

\* Mutant of OwnerIsNewer: a second transfer in a block is taken for old news.
OwnerIsStrictlyNewer(row, block) == row.syncedBlock < block
\* WHERE last_synced_block <= $3
OwnerIsNewer(row, block) == row.syncedBlock <= block

OwnerRow(m, e, block) ==
    IF m.nffc[e.tokenId] = None \/ ~OwnerIsNewer(m.nffc[e.tokenId], block) THEN m
    ELSE [m EXCEPT !.nffc[e.tokenId] = [owner |-> e.buyer, syncedBlock |-> block]]

\* Mutant of OpenedListing: the first listing of a token is kept for ever.
OpenedListingOnce(m, e) ==
    IF m.listing[e.tokenId] # None THEN m
    ELSE [m EXCEPT !.listing[e.tokenId] =
             [seller |-> e.seller, price |-> e.price, status |-> "active"]]
\* ON CONFLICT (token_id) DO UPDATE: a relisting overwrites the row.
OpenedListing(m, e) ==
    [m EXCEPT !.listing[e.tokenId] =
        [seller |-> e.seller, price |-> e.price, status |-> "active"]]

\* WHERE token_id = $1 AND active = true
ClosedListing(m, e, status) ==
    IF m.listing[e.tokenId] = None \/ m.listing[e.tokenId].status # "active" THEN m
    ELSE [m EXCEPT !.listing[e.tokenId].status = status]

\* ON CONFLICT (offer_id) DO NOTHING
OpenedOffer(m, e) ==
    IF m.offer[e.offerId] # None THEN m
    ELSE [m EXCEPT !.offer[e.offerId] =
             [tokenId |-> e.tokenId, buyer |-> e.buyer, price |-> e.price,
              expiry |-> e.expiry, status |-> "ACTIVE"]]

\* Mutant of ClosedOffer: the row keeps its status.
ClosedOfferForgotten(m, e, status) == m
\* WHERE offer_id = $1 AND status = 'ACTIVE'
ClosedOffer(m, e, status) ==
    IF m.offer[e.offerId] = None \/ m.offer[e.offerId].status # "ACTIVE" THEN m
    ELSE [m EXCEPT !.offer[e.offerId].status = status]

\* The rows after the event's write, for an event that has one and is not
\* rejected.
Applied(m, e, block) ==
    CASE e.kind = "NFFC_MINTED" -> MintRow(m, e, block)
      [] e.kind = "NFFC_COMPOSITION_RECORDED" ->
             [m EXCEPT !.components = @ \cup {e.tokenId}]
      [] e.kind = "TRANSFER" -> OwnerRow(m, e, block)
      [] e.kind = "LISTING_CREATED" -> OpenedListing(m, e)
      [] e.kind = "LISTING_CANCELLED" -> ClosedListing(m, e, "cancelled")
      [] e.kind = "SALE" -> ClosedListing(m, e, "sold")
      [] e.kind = "OFFER_CREATED" -> OpenedOffer(m, e)
      [] e.kind = "OFFER_CANCELLED" -> ClosedOffer(m, e, "CANCELLED")
      [] OTHER -> ClosedOffer(m, e, "ACCEPTED")

\* What is left of the event in a table that is only written by replaying.
Replayed(m, e, block) ==
    IF ~HasMirror(e) \/ Rejected(m, e) THEN m ELSE Applied(m, e, block)
=============================================================================
