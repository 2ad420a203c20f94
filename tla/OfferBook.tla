----------------------------- MODULE OfferBook -----------------------------
(***************************************************************************)
(* What the marketplace promises the people who escrow ether in it, one    *)
(* step per completed top-level call (contracts/Marketplace.sol:           *)
(* createOffer, cancelOffer, acceptOffer): the book only grows, the terms  *)
(* of an offer never change, at most one offer leaves the book in a call   *)
(* and none comes back, and the vault holds exactly what the open offers   *)
(* are worth.                                                              *)
(***************************************************************************)
EXTENDS Integers, Sequences

CONSTANT Worth(_)  \* the prices of a book's open offers, added up

VARIABLES
    book,  \* the offers ever made, by offerId
    vault  \* ether held

Open(b) == {o \in 1..Len(b) : b[o].active}

Terms(offer) == [tokenId |-> offer.tokenId, buyer |-> offer.buyer,
                 price |-> offer.price, expiry |-> offer.expiry]

\* What one call may make of the book: any number of offers are added and
\* still open, and at most one old one is gone.
Extends(b, c) ==
    /\ Len(c) >= Len(b)
    /\ \A o \in 1..Len(b) : Terms(c[o]) = Terms(b[o])
    /\ \A o \in 1..Len(b) : c[o].active => b[o].active
    /\ \A o \in Len(b) + 1..Len(c) : c[o].active
    /\ \E gone \in 0..Len(b) : \A o \in Open(b) : c[o].active \/ o = gone

Init == book = <<>> /\ vault = 0

Step == Extends(book, book') /\ vault' = Worth(book')

Spec == Init /\ [][Step]_<<book, vault>>
=============================================================================
