------------------------------ MODULE Indexer ------------------------------
(***************************************************************************)
(* The chain indexer: workers/indexer/run.ts (one pass), the cursor and    *)
(* activity tables of infra/indexer/postgres-indexer-store.ts, and the     *)
(* chain head workers/indexer/onchain.ts reads. A scheduler starts a pass  *)
(* in a fresh process again and again; nothing stops it from starting one  *)
(* while another runs, so a pass is a worker with its own locals.          *)
(*                                                                         *)
(* Every await on the database is a step of its own: a process may die, or *)
(* a query fail, between two of them.                                      *)
(***************************************************************************)
EXTENDS MirrorTables, Integers, Sequences

CONSTANTS
    Workers,                  \* indexer processes
    Accounts,                 \* owners, sellers and buyers
    Expiries,                 \* offer expiries tried, later than every block
    REORG_SAFE_DEPTH,         \* blocks below the head treated as final
    reorgSafetyMarginBlocks,  \* blocks re-read below the cursor
    maxBlockRange,            \* blocks one pass reads at most
    MaxLog,                   \* bound: events on the chain
    MaxBlock,                 \* bound: blocks
    MaxCrashes,               \* bound: passes that die
    MaxAborts                 \* bound: passes stopped by a signal

ASSUME IndexerAssumption ==
    /\ None \notin Nat
    /\ OfferKeys \subseteq Nat
    /\ REORG_SAFE_DEPTH \in Nat
    /\ reorgSafetyMarginBlocks \in Nat
    /\ maxBlockRange \in Nat
    /\ reorgSafetyMarginBlocks < maxBlockRange

VARIABLES
    block,     \* the block being built
    log,       \* events of the canonical chain, each with its block
    cursor,    \* sync_cursor.last_block, None before the first pass ends
    activity,  \* the activity table in insertion order, as positions of log
    mirror,    \* the tables of MirrorTables
    worker,    \* program counter and locals of each pass
    crashes, aborts

chainVars == <<block, log>>
tableVars == <<cursor, activity, mirror>>
vars == <<chainVars, tableVars, worker, crashes, aborts>>

----------------------------------------------------------------------------
(* The chain *)

Latest == block - 1

\* Blocks above this one may still be replaced.
Final == Latest - REORG_SAFE_DEPTH

\* getSafeHead
SafeHead == IF Latest > REORG_SAFE_DEPTH THEN Latest - REORG_SAFE_DEPTH ELSE 0

Logged(kind, t) == {i \in DOMAIN log : log[i].event.kind = kind /\ log[i].event.tokenId = t}
Minted(t) == Logged("NFFC_MINTED", t) # {}

\* The last event of these.
LastOf(S) == CHOOSE i \in S : \A j \in S : j <= i

OwnerOf(t) == log[LastOf(Logged("TRANSFER", t))].event.buyer
SellerOf(t) == log[LastOf(Logged("LISTING_CREATED", t))].event.seller

\* Open on the chain: opened, and not closed by a later event.
Listed(t) ==
    \E i \in Logged("LISTING_CREATED", t) :
        \A j \in Logged("LISTING_CANCELLED", t) \cup Logged("SALE", t) : j < i

OfferEvents(o) == {i \in DOMAIN log : log[i].event.offerId = o}
OpenOffer(o) == \E i \in OfferEvents(o) : OfferEvents(o) = {i}

\* A transaction emits its events in this order, into the block being built.
Emit(events) ==
    /\ Len(log) + Len(events) <= MaxLog
    /\ log' = log \o [i \in 1..Len(events) |-> [event |-> events[i], block |-> block]]
    /\ UNCHANGED <<block, tableVars, worker, crashes, aborts>>

Mint(t, a) ==
    /\ t \notin WideTokens
    /\ ~Minted(t)
    /\ Emit(<<NFFCMinted(t, a), NFFCCompositionRecorded(t), Transferred(t, ZeroAddress, a)>>)

Transfer(t, a) == Minted(t) /\ Emit(<<Transferred(t, OwnerOf(t), a)>>)

CreateListing(t) == Minted(t) /\ Emit(<<ListingCreated(t, OwnerOf(t), 0)>>)

CancelListing(t) == Listed(t) /\ Emit(<<ListingCancelled(t, SellerOf(t))>>)

Buy(t, a) ==
    /\ Listed(t)
    /\ SellerOf(t) = OwnerOf(t)
    /\ Emit(<<Transferred(t, OwnerOf(t), a), Sold(t, OwnerOf(t), a, 0)>>)

CreateOffer(o, t, a, expiry) ==
    /\ OfferEvents(o) = {}
    /\ \A p \in OfferKeys : p < o => OfferEvents(p) # {}
    /\ Emit(<<OfferCreated(o, t, a, 0, expiry)>>)

CancelOffer(o) == OpenOffer(o) /\ Emit(<<OfferCancelled(o)>>)

\* A listing the token still has is cancelled first.
AcceptOffer(o) ==
    LET e == log[LastOf(OfferEvents(o))].event
        t == e.tokenId
        sale == <<Transferred(t, OwnerOf(t), e.buyer), Sold(t, OwnerOf(t), e.buyer, 0),
                  OfferAccepted(o, t, OwnerOf(t), e.buyer, 0)>>
    IN  /\ OpenOffer(o)
        /\ Minted(t)
        /\ Emit(IF Listed(t) THEN <<ListingCancelled(t, OwnerOf(t))>> \o sale ELSE sale)

Transact ==
    \/ \E t \in Tokens, a \in Accounts : Mint(t, a) \/ Transfer(t, a) \/ Buy(t, a)
    \/ \E t \in Tokens : CreateListing(t) \/ CancelListing(t)
    \/ \E o \in OfferKeys, t \in Tokens, a \in Accounts, expiry \in Expiries :
           CreateOffer(o, t, a, expiry)
    \/ \E o \in OfferKeys : CancelOffer(o) \/ AcceptOffer(o)

NextBlock ==
    /\ block < MaxBlock
    /\ block' = block + 1
    /\ UNCHANGED <<log, tableVars, worker, crashes, aborts>>

\* Where the events of block b and above begin.
FirstFrom(b, first) ==
    /\ first \in 1..Len(log) + 1
    /\ \A i \in 1..first - 1 : log[i].block < b
    /\ \A i \in first..Len(log) : log[i].block >= b

Reorg ==
    \E b \in 1..block, n \in 0..Len(log) - 1 :
        /\ b > Final
        /\ FirstFrom(b, n + 1)
        /\ log' = SubSeq(log, 1, n)
        /\ UNCHANGED <<block, tableVars, worker, crashes, aborts>>

----------------------------------------------------------------------------
(* One pass *)

At(pc, from, to, next) == [pc |-> pc, from |-> from, to |-> to, next |-> next]
Stopped == At("stopped", 0, 0, 0)

Recorded(i) == \E k \in DOMAIN activity : activity[k] = i

\* fromBlock
FirstBlock ==
    IF cursor = None \/ cursor < reorgSafetyMarginBlocks THEN 0
    ELSE cursor - reorgSafetyMarginBlocks

\* The pass reads the cursor.
Start(w) ==
    /\ worker[w].pc = "stopped"
    /\ worker' = [worker EXCEPT ![w] = At("head", FirstBlock, 0, 0)]
    /\ UNCHANGED <<chainVars, tableVars, crashes, aborts>>

\* Mutant of LastBlock: the range is capped at the overlap.
LastBlockOfOverlap(from) ==
    IF SafeHead < from + reorgSafetyMarginBlocks THEN SafeHead
    ELSE from + reorgSafetyMarginBlocks
\* toBlock
LastBlock(from) ==
    IF SafeHead < from + maxBlockRange THEN SafeHead ELSE from + maxBlockRange

\* It reads the head and the events of its range, or stops, caught up.
Fetch(w) ==
    /\ worker[w].pc = "head"
    /\ \/ /\ worker[w].from > LastBlock(worker[w].from)
          /\ worker' = [worker EXCEPT ![w] = Stopped]
       \/ /\ worker[w].from <= LastBlock(worker[w].from)
          /\ \E first \in 1..Len(log) + 1 :
                /\ FirstFrom(worker[w].from, first)
                /\ worker' = [worker EXCEPT ![w] =
                       At("loop", worker[w].from, LastBlock(worker[w].from), first)]
    /\ UNCHANGED <<chainVars, tableVars, crashes, aborts>>

Done(w) == worker[w].next <= Len(log) => log[worker[w].next].block > worker[w].to
Current(w) == log[worker[w].next].event
AtEvent(w) == worker[w].pc = "loop" /\ ~Done(w)

Pass(w) == [worker EXCEPT ![w].pc = "loop", ![w].next = @ + 1]

\* A log that plans nothing.
Skip(w) ==
    /\ AtEvent(w)
    /\ ~HasActivity(Current(w))
    /\ ~HasMirror(Current(w))
    /\ worker' = Pass(w)
    /\ UNCHANGED <<chainVars, tableVars, crashes, aborts>>

\* Mutant of IsNew: the unique key on (tx_hash, log_index) is missing.
IsNewAlways(i) == TRUE
\* recordActivity returns whether it inserted a row.
IsNew(i) == ~Recorded(i)

\* recordActivity: a new row opens the gate for the mirror write, a duplicate
\* is passed over.
Record(w) ==
    /\ AtEvent(w)
    /\ HasActivity(Current(w))
    /\ ~Unrecordable(Current(w))
    /\ IF IsNew(worker[w].next)
       THEN /\ activity' = Append(activity, worker[w].next)
            /\ worker' = [worker EXCEPT ![w].pc = "mirror"]
       ELSE /\ worker' = Pass(w)
            /\ UNCHANGED activity
    /\ UNCHANGED <<chainVars, cursor, mirror, crashes, aborts>>

\* applyMirrorWrite, behind the gate or, for a log without an activity row,
\* without one.
AtMirror(w) ==
    \/ worker[w].pc = "mirror"
    \/ AtEvent(w) /\ ~HasActivity(Current(w)) /\ HasMirror(Current(w))

ApplyMirrorWrite(w) ==
    /\ AtMirror(w)
    /\ ~Rejected(mirror, Current(w))
    /\ mirror' = Applied(mirror, Current(w), log[worker[w].next].block)
    /\ worker' = Pass(w)
    /\ UNCHANGED <<chainVars, cursor, activity, crashes, aborts>>

\* A row the database refuses: the query throws and so does the pass.
Throw(w) ==
    /\ \/ AtEvent(w) /\ HasActivity(Current(w)) /\ Unrecordable(Current(w))
       \/ AtMirror(w) /\ Rejected(mirror, Current(w))
    /\ worker' = [worker EXCEPT ![w] = Stopped]
    /\ UNCHANGED <<chainVars, tableVars, crashes, aborts>>

\* The signal is looked at before each event.
Abort(w) ==
    /\ AtEvent(w)
    /\ aborts < MaxAborts
    /\ aborts' = aborts + 1
    /\ worker' = [worker EXCEPT ![w] = Stopped]
    /\ UNCHANGED <<chainVars, tableVars, crashes>>

\* Mutant of BatchFinished: the cursor may move before the batch is through.
BatchStarted(w) == TRUE
BatchFinished(w) == Done(w)

AdvanceCursor(w) ==
    /\ worker[w].pc = "loop"
    /\ BatchFinished(w)
    /\ cursor' = worker[w].to
    /\ worker' = [worker EXCEPT ![w] = Stopped]
    /\ UNCHANGED <<chainVars, activity, mirror, crashes, aborts>>

\* The process dies, or a query or an RPC call fails, at any await.
Crash(w) ==
    /\ worker[w].pc # "stopped"
    /\ crashes < MaxCrashes
    /\ crashes' = crashes + 1
    /\ worker' = [worker EXCEPT ![w] = Stopped]
    /\ UNCHANGED <<chainVars, tableVars, aborts>>

----------------------------------------------------------------------------
(* Specification *)

Init ==
    /\ block = 1
    /\ log = <<>>
    /\ cursor = None
    /\ activity = <<>>
    /\ mirror = NoRows
    /\ worker = [w \in Workers |-> Stopped]
    /\ crashes = 0
    /\ aborts = 0

Chain == Transact \/ NextBlock \/ Reorg

Step(w) == Start(w) \/ Fetch(w) \/ Skip(w) \/ Record(w) \/ ApplyMirrorWrite(w)
             \/ Throw(w) \/ AdvanceCursor(w)

Next == Chain \/ \E w \in Workers : Step(w) \/ Abort(w) \/ Crash(w)

Spec == Init /\ [][Next]_vars

\* The scheduler starts a pass after each one that ended, and a process that
\* is not killed runs on.
FairSpec == Spec /\ \A w \in Workers : WF_vars(Step(w))
----------------------------------------------------------------------------
(* Properties *)

\* Every variable has its type.
TypeOK ==
    /\ block \in Nat \ {0}
    /\ \A i \in DOMAIN log : log[i].block \in 1..block
    /\ cursor \in Nat \cup {None}
    /\ activity \in Seq(DOMAIN log)
    /\ worker \in [Workers -> [pc : {"stopped", "head", "loop", "mirror"},
                               from : Nat, to : Nat, next : Nat]]

\* No activity at or below the cursor is missing, however many passes ran at
\* once, died or were stopped (runIndexerPass advances the cursor only when
\* the whole batch is through).
NothingSkipped ==
    \A i \in DOMAIN log :
        cursor # None /\ log[i].block <= cursor /\ HasActivity(log[i].event) => Recorded(i)

EntryIsActivity(entry) == HasActivity(entry.event)

Feed == INSTANCE ActivityFeed WITH chain <- log, feed <- activity,
                                   IsActivity <- EntryIsActivity

\* The activity table is the feed: each activity once, in chain order,
\* without a gap, out of reach of a reorg (the gate of recordActivity and the
\* safe head together).
ImplementsActivityFeed == Feed!Spec

\* The tables a replay of the first n events leaves.
Replay[n \in Nat] ==
    IF n = 0 THEN NoRows
    ELSE Replayed(Replay[n - 1], log[n].event, log[n].block)

\* The tables are what a replay of the chain gives, as far as at least the
\* cursor says: no write is lost, applied twice or out of order, though the
\* activity row and the mirror write are two transactions (run.ts).
MirrorIsReplay ==
    \E n \in 0..Len(log) :
        /\ mirror = Replay[n]
        /\ \A i \in n + 1..Len(log) : cursor = None \/ log[i].block > cursor

\* The indexer recovers by itself: whatever block becomes final, the cursor
\* reaches it.
CatchesUp ==
    \A b \in 0..MaxBlock : SafeHead >= b ~> cursor # None /\ cursor >= b
=============================================================================
