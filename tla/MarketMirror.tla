---------------------------- MODULE MarketMirror ----------------------------
(***************************************************************************)
(* The marketplace and the read model its events build: every step of      *)
(* contracts/Marketplace.sol and of the NFFC token also writes, in         *)
(* emission order, the rows domain/indexer/plan.ts plans for the events it *)
(* emits. Module Indexer is about getting every event to the tables; here  *)
(* each is applied once and in order, and the question is whether the      *)
(* tables then say what the contracts say.                                 *)
(*                                                                         *)
(* A transaction that reverts emits nothing, so a reverting guarded call   *)
(* also takes back the rows. now counts blocks.                            *)
(***************************************************************************)
EXTENDS Marketplace

CONSTANTS NoRow, LastTimestamp

VARIABLES
    mirror,       \* the tables
    mirrorSaved,  \* the tables a failing guarded call goes back to
    accepting     \* offer acceptOffer is settling, 0 if none

Store == INSTANCE MirrorTables WITH
             WideTokens <- {}, StrayTokens <- {}, OfferKeys <- 1..MaxOffers, None <- NoRow,
             ZeroAddress <- NoAccount, MaxTimestamp <- LastTimestamp

mirrorVars == <<mirror, mirrorSaved, accepting>>

\* The rows of the tables.
NFFCRows == [owner : Accounts, syncedBlock : Nat]
ListingRows == [seller : Accounts, price : Nat,
               status : {"active", "cancelled", "sold"}]
OfferRows == [tokenId : Tokens, buyer : Accounts, price : Nat, expiry : Nat,
             status : {"ACTIVE", "CANCELLED", "ACCEPTED"}]

\* A missing row is none of them.
ASSUME NoRowAssumption ==
    NoRow \notin NFFCRows /\ NoRow \notin ListingRows /\ NoRow \notin OfferRows

After(m, event) == Store!Replayed(m, event, now)

\* A step of the contracts that emits one event, or none.
Emits(event) == mirror' = After(mirror, event) /\ UNCHANGED <<mirrorSaved, accepting>>
Silent == UNCHANGED mirrorVars

\* A guarded call starts, having emitted what leaves the tables as m.
Begins(m, o) == mirror' = m /\ mirrorSaved' = mirror /\ accepting' = o
Ends(m) == mirror' = m /\ mirrorSaved' = NoRow /\ accepting' = 0

----------------------------------------------------------------------------
(* What each call emits *)

ListingCalls ==
    \E a \in Accounts, t \in Tokens :
        \/ \E price \in Prices :
              CreateListing(a, t, price) /\ Emits(Store!ListingCreated(t, a, price))
        \/ CancelListing(a, t) /\ Emits(Store!ListingCancelled(t, a))

SaleCalls ==
    \E a \in Accounts :
        \/ \E t \in Tokens :
              /\ Buy(a, t)
              /\ Begins(After(mirror, Store!Transferred(t, owner[t], a)), 0)
        \/ \E o \in OfferIds :
              LET t == offers[o].tokenId
                  cancelled == IF listings[t].active
                               THEN After(mirror, Store!ListingCancelled(t, a))
                               ELSE mirror
              IN  /\ AcceptOffer(a, o)
                  /\ Begins(After(cancelled, Store!Transferred(t, a, offers[o].buyer)), o)

\* Sale is the last thing _settle does, OfferAccepted the last of acceptOffer.
ClosingEvents(m) ==
    LET sold == After(m, Store!Sold(call.tokenId, call.seller, call.buyer, call.price))
    IN  IF accepting = 0 THEN sold
        ELSE After(sold, Store!OfferAccepted(accepting, call.tokenId, call.seller,
                                             call.buyer, call.price))

GuardedSteps ==
    \/ (PayFee \/ PayRoyalty \/ PayProceeds) /\ Silent
    \/ Return /\ Ends(IF pc = "refunded" THEN mirror ELSE ClosingEvents(mirror))
    \/ Revert /\ Ends(mirrorSaved)

OfferCalls ==
    \E a \in Accounts :
        \/ \E t \in Tokens, price \in Prices, expiry \in Expiries :
              /\ CreateOffer(a, t, price, expiry)
              /\ Emits(Store!OfferCreated(Len(offers) + 1, t, a, price, expiry))
        \/ \E o \in OfferIds :
              CancelOffer(a, o) /\ Begins(After(mirror, Store!OfferCancelled(o)), 0)

\* NFFC.mint announces the token and its composition before _safeMint moves it.
Minted(a, t) ==
    After(After(After(mirror, Store!NFFCMinted(t, a)), Store!NFFCCompositionRecorded(t)),
          Store!Transferred(t, NoAccount, a))

TokenCalls ==
    \E a \in Accounts :
        \/ \E t \in Tokens :
              Mint(a, t) /\ mirror' = Minted(a, t) /\ UNCHANGED <<mirrorSaved, accepting>>
        \/ \E t \in Tokens, to \in Accounts :
              Transfer(a, t, to) /\ Emits(Store!Transferred(t, a, to))
        \/ SetApprovalForAll(a) /\ Silent

MirrorInit == Init /\ mirror = Store!NoRows /\ mirrorSaved = NoRow /\ accepting = 0

MirrorNext ==
    ListingCalls \/ SaleCalls \/ GuardedSteps \/ OfferCalls \/ TokenCalls
      \/ ((AdminCall \/ Tick) /\ Silent)

MirrorSpec == MirrorInit /\ [][MirrorNext]_<<vars, mirrorVars>>

\* The market's own fairness: callbacks end, and a buyer without code keeps
\* asking for its refund.
MirrorFairSpec == MirrorSpec /\ Fairness

----------------------------------------------------------------------------
(* Properties *)

\* Tokens a settlement in progress is selling: its Sale event is still to come.
Selling(t) == pc \in SettlementStages /\ call.tokenId = t

\* Every token that exists has its composition, and
\* the owner column follows every way a token can move: mint, transfer, buy,
\* acceptOffer, several of them in one block, from inside a callback, and
\* taken back by a revert (OWNER_CHANGED only applies to rows as old as its
\* block).
OwnersMirrored ==
    \A t \in Tokens :
        IF owner[t] = NoAccount THEN mirror.nffc[t] = NoRow
        ELSE /\ mirror.nffc[t] # NoRow
             /\ mirror.nffc[t].owner = owner[t]
             /\ t \in mirror.components

\* The offer table shows an offer as open exactly when cancelOffer would
\* refund it, at its own terms (OfferAccepted comes only after every callback
\* of the settlement).
OffersMirrored ==
    pc = "idle" =>
        \A o \in OfferIds :
            LET row == mirror.offer[o]
            IN  row # NoRow =>
                    /\ row.tokenId = offers[o].tokenId
                    /\ row.buyer = offers[o].buyer
                    /\ row.price = offers[o].price
                    /\ row.status = "ACTIVE" <=> offers[o].active

\* The listing table never shows a listing the contract does not have at
\* those terms, whatever was relisted or cancelled inside a callback; only
\* while a token is being sold is its Sale event still outstanding.
ListingsNotInvented ==
    \A t \in Tokens :
        LET row == mirror.listing[t]
        IN  row # NoRow /\ row.status = "active" /\ ~Selling(t) =>
                /\ listings[t].active
                /\ row.seller = listings[t].seller
                /\ row.price = listings[t].price

\* docs/spec/09-data-model.md: the tables can be rebuilt by replaying the
\* chain. A listing that is open on the contract is open in the table.
ListingsMirrored ==
    pc = "idle" =>
        \A t \in Tokens :
            listings[t].active =>
                mirror.listing[t] # NoRow /\ mirror.listing[t].status = "active"
=============================================================================
