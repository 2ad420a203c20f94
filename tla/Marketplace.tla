---------------------------- MODULE Marketplace ----------------------------
(***************************************************************************)
(* contracts/Marketplace.sol: fixed-price listings (no escrow), offers     *)
(* (escrowed ether), and the settlement that moves a token and splits its  *)
(* price into marketplace fee, creator royalty and seller proceeds.        *)
(*                                                                         *)
(* A settlement or a refund hands control to other contracts (the ERC-721  *)
(* receiver hook, each payout), so a guarded call is modelled step by step *)
(* with the reentrancy lock held: pc says which external call was made     *)
(* last, running who was called, and while that is a contract any contract *)
(* may call the operations that carry no lock. A guarded call that fails   *)
(* restores the state it started from (saved). Everything else the EVM     *)
(* executes atomically, one action per external function.                  *)
(*                                                                         *)
(* The marketplace reads the fee parameters of contracts/FeeConfig.sol and *)
(* the ownership table of the NFFC token when it needs them, so both are   *)
(* variables here and may change between two steps.                        *)
(***************************************************************************)
EXTENDS Integers, Sequences, FiniteSets

CONSTANTS
    Accounts,      \* addresses that call or are paid
    Contracts,     \* those with code: they get control when called or paid
    Admin,         \* holder of PAUSER_ROLE and FEE_ADMIN_ROLE
    NoAccount,     \* address(0)
    Tokens,        \* NFFC token ids
    CollectionIds, \* collection ids tokens were minted with
    CollectionOf,  \* INFFC.getCollectionId, write-once at mint
    Creator,       \* Collection._owner, NoAccount where none was created
    Prices,        \* amounts of wei tried for listings and offers
    Expiries,      \* offer expiries tried
    BpsChoices,    \* basis points the fee admin tries to set
    MaxOffers,     \* bound: offers ever made
    MaxTime,       \* bound: clock ticks
    NoCall,        \* value of call when no guarded call runs
    NoSnapshot     \* value of saved when no guarded call runs

BPS_TOTAL == 10000
MAX_MARKETPLACE_FEE_BPS == 1000
MAX_ROYALTY_BPS == 1000

ASSUME AccountsAssumption ==
    /\ Contracts \subseteq Accounts
    /\ Admin \in Accounts
    /\ NoAccount \notin Accounts
    /\ CollectionOf \in [Tokens -> CollectionIds]
    /\ Creator \in [CollectionIds -> Accounts \cup {NoAccount}]

ASSUME AmountsAssumption ==
    /\ Prices \subseteq Nat
    /\ Expiries \subseteq Nat
    /\ BpsChoices \subseteq Nat
    /\ MaxOffers \in Nat
    /\ MaxTime \in Nat

VARIABLES
    now,          \* block.timestamp
    owner,        \* ERC-721 owner of each token, NoAccount before the mint
    operators,    \* accounts that made the marketplace an approved operator
    paused,       \* Pausable._paused
    listings,     \* _listings
    offers,       \* _offers, indexed by offerId; _nextOfferId is Len(offers) + 1
    balance,      \* ether the marketplace contract holds
    feeBps,       \* FeeConfig._marketplaceFeeBps
    royaltyBps,   \* FeeConfig._royaltyBps
    feeRecipient, \* FeeConfig._feeRecipient
    pc,           \* last external call of the guarded call, "idle" if none runs
    call,         \* locals of the guarded call
    running,      \* contract that has control, NoAccount if none
    saved         \* state a failing guarded call goes back to

nftVars == <<owner, operators>>
marketVars == <<paused, listings, offers, balance>>
feeVars == <<feeBps, royaltyBps, feeRecipient>>
callVars == <<pc, call, running, saved>>
vars == <<now, nftVars, marketVars, feeVars, callVars>>

----------------------------------------------------------------------------
(* Types *)

Holders == Accounts \cup {NoAccount}

Listing == [seller : Holders, price : Nat, active : BOOLEAN]

Offer == [tokenId : Tokens, buyer : Accounts, price : Nat, expiry : Nat,
          active : BOOLEAN]

\* What a guarded call keeps in memory: the price and the two cuts of it.
Call == [tokenId : Tokens, seller : Accounts, buyer : Accounts,
         price : Nat, fee : Nat, royalty : Nat]

ChainState ==
    [owner : [Tokens -> Holders], operators : SUBSET Accounts,
     paused : BOOLEAN, listings : [Tokens -> Listing], offers : Seq(Offer),
     balance : Nat, feeBps : Nat, royaltyBps : [CollectionIds -> Nat],
     feeRecipient : Accounts]

\* The external calls a guarded call makes, in the order _settle makes them;
\* cancelOffer makes one, the refund.
SettlementStages == {"moved", "feePaid", "royaltyPaid", "proceedsPaid"}
Stages == SettlementStages \cup {"refunded"}

\* Everything a revert takes back.
Snapshot ==
    [owner |-> owner, operators |-> operators, paused |-> paused,
     listings |-> listings, offers |-> offers, balance |-> balance,
     feeBps |-> feeBps, royaltyBps |-> royaltyBps,
     feeRecipient |-> feeRecipient]

\* The state as of the last completed top-level call.
Committed == IF pc = "idle" THEN Snapshot ELSE saved

----------------------------------------------------------------------------
(* Guards and helpers *)

\* Who may be msg.sender now: anyone between calls, a contract while an
\* external call has handed control to one.
MayCall(a) == pc = "idle" \/ (running \in Contracts /\ a \in Contracts)

\* Mutant of WhenNotPaused: the modifier is missing.
PauseIgnored == TRUE
WhenNotPaused == ~paused

OfferIds == 1..Len(offers)
ActiveOffers == {o \in OfferIds : offers[o].active}

\* Mutant of CloseOffer: the offer's flag is left set until the call ends.
CloseOfferForgotten(o) == offers
\* The offer is closed before any external call.
CloseOffer(o) == [offers EXCEPT ![o].active = FALSE]

CloseListing(t) == [listings EXCEPT ![t].active = FALSE]

\* An account paid (or sent a token) gets control if it has code and the
\* amount is not zero: the code skips payouts of zero.
Callee(a, amount) == IF a \in Contracts /\ amount # 0 THEN a ELSE NoAccount

Cut(price, bps) == (price * bps) \div BPS_TOTAL
Proceeds(c) == c.price - c.fee - c.royalty

----------------------------------------------------------------------------
(* Listings *)

\* createListing overwrites whatever listing the token has; it does not look
\* at approvals.
CreateListing(a, t, price) ==
    /\ MayCall(a)
    /\ WhenNotPaused
    /\ owner[t] = a
    /\ listings' = [listings EXCEPT ![t] =
                      [seller |-> a, price |-> price, active |-> TRUE]]
    /\ UNCHANGED <<now, nftVars, paused, offers, balance, feeVars, callVars>>

\* cancelListing asks for the seller, not for the owner, and ignores a pause.
CancelListing(a, t) ==
    /\ MayCall(a)
    /\ listings[t].active
    /\ listings[t].seller = a
    /\ listings' = CloseListing(t)
    /\ UNCHANGED <<now, nftVars, paused, offers, balance, feeVars, callVars>>

----------------------------------------------------------------------------
(* Settlement *)

\* The amounts _settle fixes before it moves anything.
SettleCuts(t, seller, buyer, price) ==
    [tokenId |-> t, seller |-> seller, buyer |-> buyer, price |-> price,
     fee |-> Cut(price, feeBps),
     royalty |-> Cut(price, royaltyBps[CollectionOf[t]])]

\* First part of _settle: the cuts, the checked subtraction, and the token
\* moved by safeTransferFrom, which wants the seller to be the owner and the
\* marketplace approved, and calls a contract buyer's receiver hook.
Settle(t, seller, buyer, price) ==
    /\ Proceeds(SettleCuts(t, seller, buyer, price)) >= 0
    /\ owner[t] = seller
    /\ seller \in operators
    /\ owner' = [owner EXCEPT ![t] = buyer]
    /\ call' = SettleCuts(t, seller, buyer, price)
    /\ pc' = "moved"
    /\ running' = IF buyer \in Contracts THEN buyer ELSE NoAccount
    /\ saved' = Snapshot

\* buy: msg.value equals the listed price, and a listing whose seller no
\* longer owns the token does not sell.
Buy(a, t) ==
    /\ pc = "idle"
    /\ WhenNotPaused
    /\ listings[t].active
    /\ owner[t] = listings[t].seller
    /\ listings' = CloseListing(t)
    /\ balance' = balance + listings[t].price
    /\ Settle(t, listings[t].seller, a, listings[t].price)
    /\ UNCHANGED <<now, operators, paused, offers, feeVars>>

\* Mutant of NotExpired: one tick too generous.
NotExpiredOffByOne(o) == now <= offers[o].expiry + 1
NotExpired(o) == now <= offers[o].expiry

\* acceptOffer: the owner takes an unexpired offer; a listing still open on
\* the token is closed with it.
AcceptOffer(a, o) ==
    LET t == offers[o].tokenId
    IN  /\ pc = "idle"
        /\ WhenNotPaused
        /\ o \in ActiveOffers
        /\ NotExpired(o)
        /\ owner[t] = a
        /\ offers' = CloseOffer(o)
        /\ listings' = CloseListing(t)
        /\ Settle(t, a, offers[o].buyer, offers[o].price)
        /\ UNCHANGED <<now, operators, paused, balance, feeVars>>

\* The payouts, each skipped when its amount is zero. The fee recipient and
\* the creator are looked up when they are paid, the amounts are not.
PayFee ==
    /\ pc = "moved"
    /\ balance' = balance - call.fee
    /\ running' = Callee(feeRecipient, call.fee)
    /\ pc' = "feePaid"
    /\ UNCHANGED <<now, nftVars, paused, listings, offers, feeVars, call, saved>>

CreatorOf(t) == Creator[CollectionOf[t]]

PayRoyalty ==
    /\ pc = "feePaid"
    /\ call.royalty # 0 => CreatorOf(call.tokenId) # NoAccount
    /\ balance' = balance - call.royalty
    /\ running' = Callee(CreatorOf(call.tokenId), call.royalty)
    /\ pc' = "royaltyPaid"
    /\ UNCHANGED <<now, nftVars, paused, listings, offers, feeVars, call, saved>>

PayProceeds ==
    /\ pc = "royaltyPaid"
    /\ balance' = balance - Proceeds(call)
    /\ running' = Callee(call.seller, Proceeds(call))
    /\ pc' = "proceedsPaid"
    /\ UNCHANGED <<now, nftVars, paused, listings, offers, feeVars, call, saved>>

\* The last external call came back: the guarded call returns and the lock
\* is released.
Return ==
    /\ pc \in {"proceedsPaid", "refunded"}
    /\ pc' = "idle"
    /\ call' = NoCall
    /\ running' = NoAccount
    /\ saved' = NoSnapshot
    /\ UNCHANGED <<now, nftVars, marketVars, feeVars>>

\* The contract called rejects (or has no creator to look up): the guarded
\* call reverts as a whole.
Revert ==
    /\ \/ pc \in Stages /\ running \in Contracts
       \/ pc = "feePaid" /\ call.royalty # 0 /\ CreatorOf(call.tokenId) = NoAccount
    /\ owner' = saved.owner
    /\ operators' = saved.operators
    /\ paused' = saved.paused
    /\ listings' = saved.listings
    /\ offers' = saved.offers
    /\ balance' = saved.balance
    /\ feeBps' = saved.feeBps
    /\ royaltyBps' = saved.royaltyBps
    /\ feeRecipient' = saved.feeRecipient
    /\ pc' = "idle"
    /\ call' = NoCall
    /\ running' = NoAccount
    /\ saved' = NoSnapshot
    /\ UNCHANGED now

----------------------------------------------------------------------------
(* Offers *)

\* Mutant of WithNewOffer: the offer counter is not advanced, so a second
\* offer is written over the first.
WithOfferIdReused(offer) ==
    IF offers = <<>> THEN <<offer>> ELSE [offers EXCEPT ![Len(offers)] = offer]
\* offerId = _nextOfferId++
WithNewOffer(offer) == Append(offers, offer)

\* createOffer escrows msg.value. It holds no lock, so a contract may call it
\* from inside a payout, and the token need not exist.
CreateOffer(a, t, price, expiry) ==
    /\ MayCall(a)
    /\ WhenNotPaused
    /\ Len(offers) < MaxOffers
    /\ offers' = WithNewOffer([tokenId |-> t, buyer |-> a, price |-> price,
                               expiry |-> expiry, active |-> TRUE])
    /\ balance' = balance + price
    /\ UNCHANGED <<now, nftVars, paused, listings, feeVars, callVars>>

\* Mutant of CancelGate: cancelOffer becomes whenNotPaused.
CancelGateWhenNotPaused == WhenNotPaused
\* cancelOffer is deliberately not whenNotPaused.
CancelGate == TRUE

\* cancelOffer: closed first, then refunded in full by one call.
CancelOffer(a, o) ==
    /\ pc = "idle"
    /\ CancelGate
    /\ o \in ActiveOffers
    /\ offers[o].buyer = a
    /\ offers' = CloseOffer(o)
    /\ balance' = balance - offers[o].price
    /\ call' = [tokenId |-> offers[o].tokenId, seller |-> a, buyer |-> a,
                price |-> offers[o].price, fee |-> 0, royalty |-> 0]
    /\ pc' = "refunded"
    /\ running' = Callee(a, offers[o].price)
    /\ saved' = Snapshot
    /\ UNCHANGED <<now, nftVars, paused, listings, feeVars>>

----------------------------------------------------------------------------
(* Administration, the token and the clock *)

Pause ==
    /\ MayCall(Admin)
    /\ ~paused
    /\ paused' = TRUE
    /\ UNCHANGED <<now, nftVars, listings, offers, balance, feeVars, callVars>>

Unpause ==
    /\ MayCall(Admin)
    /\ paused
    /\ paused' = FALSE
    /\ UNCHANGED <<now, nftVars, listings, offers, balance, feeVars, callVars>>

\* Mutant of WithinFeeCap: the setter's check is missing.
FeeUncapped(bps) == TRUE
WithinFeeCap(bps) == bps <= MAX_MARKETPLACE_FEE_BPS

SetMarketplaceFeeBps(bps) ==
    /\ MayCall(Admin)
    /\ WithinFeeCap(bps)
    /\ feeBps' = bps
    /\ UNCHANGED <<now, nftVars, marketVars, royaltyBps, feeRecipient, callVars>>

\* Mutant of CollectionExists: the royalty of any id can be set.
CollectionUnchecked(c) == TRUE
\* collection.collectionExists
CollectionExists(c) == Creator[c] # NoAccount

\* A royalty may only be set for a collection that exists.
SetRoyaltyBps(c, bps) ==
    /\ MayCall(Admin)
    /\ bps <= MAX_ROYALTY_BPS
    /\ CollectionExists(c)
    /\ royaltyBps' = [royaltyBps EXCEPT ![c] = bps]
    /\ UNCHANGED <<now, nftVars, marketVars, feeBps, feeRecipient, callVars>>

SetFeeRecipient(r) ==
    /\ MayCall(Admin)
    /\ feeRecipient' = r
    /\ UNCHANGED <<now, nftVars, marketVars, feeBps, royaltyBps, callVars>>

\* NFFC.mint as the marketplace sees it: a token gets its first owner.
Mint(a, t) ==
    /\ MayCall(a)
    /\ owner[t] = NoAccount
    /\ owner' = [owner EXCEPT ![t] = a]
    /\ UNCHANGED <<now, operators, marketVars, feeVars, callVars>>

\* The owner gives the token away outside the marketplace.
Transfer(a, t, to) ==
    /\ MayCall(a)
    /\ owner[t] = a
    /\ owner' = [owner EXCEPT ![t] = to]
    /\ UNCHANGED <<now, operators, marketVars, feeVars, callVars>>

SetApprovalForAll(a) ==
    /\ MayCall(a)
    /\ \/ operators' = operators \cup {a}
       \/ operators' = operators \ {a}
    /\ UNCHANGED <<now, owner, marketVars, feeVars, callVars>>

\* Block time moves between transactions, never inside one.
Tick ==
    /\ pc = "idle"
    /\ now < MaxTime
    /\ now' = now + 1
    /\ UNCHANGED <<nftVars, marketVars, feeVars, callVars>>

----------------------------------------------------------------------------
(* Specification *)

Init ==
    /\ now = 0
    /\ owner = [t \in Tokens |-> NoAccount]
    /\ operators = {}
    /\ paused = FALSE
    /\ listings = [t \in Tokens |->
                     [seller |-> NoAccount, price |-> 0, active |-> FALSE]]
    /\ offers = <<>>
    /\ balance = 0
    /\ feeBps \in BpsChoices \cap 0..MAX_MARKETPLACE_FEE_BPS
    /\ royaltyBps = [c \in CollectionIds |-> 0]
    /\ feeRecipient \in Accounts
    /\ pc = "idle"
    /\ call = NoCall
    /\ running = NoAccount
    /\ saved = NoSnapshot

\* Steps of a guarded call that has started.
Advance == PayFee \/ PayRoyalty \/ PayProceeds \/ Return

\* Calls to the marketplace.
MarketCall ==
    \E a \in Accounts :
        \/ \E t \in Tokens, price \in Prices : CreateListing(a, t, price)
        \/ \E t \in Tokens : CancelListing(a, t) \/ Buy(a, t)
        \/ \E t \in Tokens, price \in Prices, expiry \in Expiries :
               CreateOffer(a, t, price, expiry)
        \/ \E o \in OfferIds : CancelOffer(a, o) \/ AcceptOffer(a, o)

AdminCall ==
    \/ Pause
    \/ Unpause
    \/ \E bps \in BpsChoices : SetMarketplaceFeeBps(bps)
    \/ \E c \in CollectionIds, bps \in BpsChoices : SetRoyaltyBps(c, bps)
    \/ \E r \in Accounts : SetFeeRecipient(r)

TokenCall ==
    \E a \in Accounts :
        \/ \E t \in Tokens : Mint(a, t)
        \/ \E t \in Tokens, to \in Accounts : Transfer(a, t, to)
        \/ SetApprovalForAll(a)

Next == Advance \/ Revert \/ MarketCall \/ AdminCall \/ TokenCall \/ Tick

Spec == Init /\ [][Next]_vars
----------------------------------------------------------------------------
(* Properties *)

\* One element per wei in escrow: the n-th wei of open offer o is <<o, n>>.
\* A sum written as a cardinality, so that proofs about it need no induction.
EscrowedWei(b) ==
    UNION {{o} \X (1..b[o].price) : o \in {i \in 1..Len(b) : b[i].active}}
Worth(b) == Cardinality(EscrowedWei(b))

\* The offer book this contract keeps, as of the last completed call.
Book == INSTANCE OfferBook WITH book <- Committed.offers,
                                vault <- Committed.balance

\* Every variable has its type, and the locals of a guarded call and the
\* state it would revert to exist exactly while it runs.
TypeOK ==
    /\ now \in Nat
    /\ owner \in [Tokens -> Holders] /\ operators \in SUBSET Accounts
    /\ paused \in BOOLEAN /\ listings \in [Tokens -> Listing]
    /\ offers \in Seq(Offer) /\ balance \in Nat
    /\ feeBps \in Nat /\ royaltyBps \in [CollectionIds -> Nat]
    /\ feeRecipient \in Accounts
    /\ pc \in Stages \cup {"idle"}
    /\ running \in Holders
    /\ IF pc = "idle"
       THEN call = NoCall /\ running = NoAccount /\ saved = NoSnapshot
       ELSE call \in Call /\ saved \in ChainState

\* What a running settlement has taken in and not paid out yet.
Undisbursed ==
    CASE pc = "moved" -> call.price
      [] pc = "feePaid" -> call.price - call.fee
      [] pc = "royaltyPaid" -> Proceeds(call)
      [] OTHER -> 0

\* The contract holds exactly the escrow of the open offers and what the
\* settlement in progress still has to pay, in every state an external callee
\* can observe and act in (createOffer, cancelOffer, acceptOffer, buy, _settle:
\* the flag is closed before each payout, and a revert takes everything back).
EscrowSolvent ==
    balance = Worth(offers) + Undisbursed

\* The caps of FeeConfig leave the seller at least eight tenths of the price
\* whatever the admin sets, so the checked subtraction of _settle never fails.
SellerKeepsEightTenths ==
    pc \in SettlementStages =>
        10 * (call.fee + call.royalty) <= 2 * call.price

\* A settlement never finds itself owing a royalty to a collection nobody
\* created: setRoyaltyBps refuses such collections, so ownerOfCollection does
\* not revert with UnknownCollection.
RoyaltyHasPayee ==
    pc \in SettlementStages /\ call.royalty # 0 =>
        CreatorOf(call.tokenId) # NoAccount

\* Open trade interests: listings by token and the terms they were opened at.
OpenListings == {<<t, listings[t]>> : t \in {u \in Tokens : listings[u].active}}

\* A step that opens nothing and starts no sale. A guarded call that ends in
\* a revert brings back what was open when it started.
OpensNothing ==
    \/ pc # "idle" /\ pc' = "idle"
    \/ /\ OpenListings' \subseteq OpenListings
       /\ Len(offers') = Len(offers)
       /\ ActiveOffers' \subseteq ActiveOffers
       /\ pc = "idle" => pc' \in {"idle", "refunded"}

\* Under a pause the market only drains: no step opens a listing or an offer
\* or starts a sale, while cancellations and the rest of a settlement that
\* was running go on.
PausedMarketOnlyDrains == [][paused /\ paused' => OpensNothing]_vars

\* The sale a step starts has the terms of both its sides: the owner listed
\* the token at the very amount the buyer sends into the contract, or takes
\* an open, unexpired offer of that buyer for that token, in escrow already.
AgreedSale ==
    LET t == call'.tokenId
    IN  /\ owner[t] = call'.seller
        /\ owner'[t] = call'.buyer
        /\ ~listings'[t].active
        /\ \/ /\ <<t, [seller |-> call'.seller, price |-> call'.price,
                       active |-> TRUE]>> \in OpenListings
              /\ balance' = balance + call'.price
           \/ \E o \in ActiveOffers :
                 /\ offers[o].tokenId = t
                 /\ offers[o].buyer = call'.buyer
                 /\ offers[o].price = call'.price
                 /\ now <= offers[o].expiry
                 /\ ~offers'[o].active
                 /\ balance' = balance

\* A token leaves its owner through the marketplace only on terms that both
\* the owner and the buyer put up themselves.
SalesAreAgreed == [][pc = "idle" /\ pc' = "moved" => AgreedSale]_vars

\* The step-by-step contract, looked at between top-level calls, is the
\* offer book.
ImplementsOfferBook == Book!Spec

\* Guarded calls end (gas is finite), and an account without code that keeps
\* sending cancelOffer has it included again and again.
Fairness ==
    /\ WF_vars(Advance \/ Revert)
    /\ \A a \in Accounts \ Contracts, o \in 1..MaxOffers :
           SF_vars(o \in OfferIds /\ CancelOffer(a, o))

FairSpec == Spec /\ Fairness

CommittedOpen(o) ==
    o \in 1..Len(Committed.offers) /\ Committed.offers[o].active

\* Escrow is never stranded: the offer of an account without code is settled
\* or refunded, whether the market is paused, the offer expired or the token
\* gone, and whatever other contracts do in between.
EscrowIsRecoverable ==
    \A o \in 1..MaxOffers :
        (CommittedOpen(o) /\ Committed.offers[o].buyer \notin Contracts)
            ~> ~CommittedOpen(o)
=============================================================================
