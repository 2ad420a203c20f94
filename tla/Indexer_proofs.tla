--------------------------- MODULE Indexer_proofs ---------------------------
(***************************************************************************)
(* What module Indexer says of the activity table, proved for any number   *)
(* of passes at once, any chain, and any reorg above the safe head.        *)
(*                                                                         *)
(* The argument: every entry at or below the safe head is final (Final     *)
(* steps of the chain do not touch it), a pass only looks at those, and it *)
(* never stands past an activity that has no row. So whoever inserts the   *)
(* next row inserts the next activity, and whoever moves the cursor has    *)
(* left nothing behind.                                                    *)
(*                                                                         *)
(* With one pass at a time, and none that dies between its two writes, the *)
(* entries with a row are also those the tables have, but for the one the  *)
(* pass is about to mirror: the tables are a replay of the chain.          *)
(***************************************************************************)
EXTENDS Indexer, Sums_proofs, SequenceTheorems

\* The chain is a sequence of entries in block order.
LogOK ==
    /\ block \in Nat \ {0}
    /\ log \in Seq(Range(log))
    /\ \A i \in DOMAIN log : log[i].block \in 1..block
    /\ \A i, j \in DOMAIN log : i < j => log[i].block <= log[j].block

\* Rows are of settled activities, and leave no gap.
FeedOK ==
    /\ activity \in Seq(DOMAIN log)
    /\ \A i \in DOMAIN log : Recorded(i) =>
           /\ HasActivity(log[i].event)
           /\ log[i].block <= SafeHead
           /\ \A j \in 1..i - 1 : HasActivity(log[j].event) => Recorded(j)

CursorOK ==
    /\ cursor \in Nat \cup {None}
    /\ cursor # None => cursor <= SafeHead
    /\ NothingSkipped

\* No activity is missing below block b.
ThroughBlock(b) ==
    \A i \in DOMAIN log : log[i].block < b /\ HasActivity(log[i].event) => Recorded(i)

\* No activity is missing below position n, and everything there is settled.
ThroughEntry(n) ==
    /\ n \in 1..Len(log) + 1
    /\ \A i \in 1..n - 1 :
           log[i].block <= SafeHead /\ (HasActivity(log[i].event) => Recorded(i))

WorkerOK(w) ==
    /\ worker[w].pc = "head" => worker[w].from <= SafeHead /\ ThroughBlock(worker[w].from)
    /\ worker[w].pc \in {"loop", "mirror"} =>
           worker[w].to <= SafeHead /\ ThroughEntry(worker[w].next)
    /\ worker[w].pc = "mirror" =>
           /\ worker[w].next \in DOMAIN log
           /\ log[worker[w].next].block <= worker[w].to
           /\ Recorded(worker[w].next)

Locals == [pc : {"stopped", "head", "loop", "mirror"}, from : Nat, to : Nat, next : Nat]

WorkersOK ==
    /\ worker \in [Workers -> Locals]
    /\ \A w \in Workers : WorkerOK(w)

IInv == LogOK /\ FeedOK /\ CursorOK /\ WorkersOK

USE IndexerAssumption

----------------------------------------------------------------------------
(* The chain *)

LEMMA HeadType ==
    ASSUME NEW b \in Nat \ {0}
    PROVE  (IF b - 1 > REORG_SAFE_DEPTH THEN b - 1 - REORG_SAFE_DEPTH ELSE 0) \in Nat
BY SMT

LEMMA SafeHeadType == ASSUME LogOK PROVE SafeHead \in Nat /\ SafeHead < block
BY SMT DEF LogOK, SafeHead, Latest

LEMMA LogType ==
    ASSUME LogOK
    PROVE  Len(log) \in Nat /\ DOMAIN log = 1..Len(log)
BY LenProperties DEF LogOK

\* What a step of the chain leaves alone: what is settled stays, and nothing
\* is settled as it appears.
Settled(i) == i \in DOMAIN log /\ log[i].block <= SafeHead

ChainKeeps ==
    /\ LogOK'
    /\ SafeHead <= SafeHead'
    /\ \A i \in DOMAIN log : Settled(i) => i \in DOMAIN log' /\ log'[i] = log[i]
    /\ \A i \in DOMAIN log' :
           log'[i].block <= SafeHead => i \in DOMAIN log /\ log'[i] = log[i]

LEMMA EmitKeeps ==
    ASSUME LogOK, NEW events, Len(events) \in Nat, Emit(events)
    PROVE  ChainKeeps
PROOF
<1> DEFINE n == Len(events)
           new == [i \in 1..n |-> [event |-> events[i], block |-> block]]
           N == {[event |-> events[i], block |-> block] : i \in 1..n}
           T == Range(log) \cup N
<1>1. new \in Seq(N) /\ Len(new) = n
  OBVIOUS
<1>2. new \in Seq(T) /\ log \in Seq(T)
  BY <1>1, SeqMonotonic DEF LogOK
<1>3. log' = log \o new /\ block' = block
  BY DEF Emit
<1>4. /\ log' \in Seq(T)
      /\ Len(log') = Len(log) + n
      /\ \A i \in 1..Len(log) + n : log'[i] = IF i <= Len(log) THEN log[i] ELSE new[i - Len(log)]
  BY <1>1, <1>2, <1>3, ConcatProperties
<1>5. log' \in Seq(Range(log'))
  BY <1>4, SeqOfRange
<1>6. DOMAIN log' = 1..Len(log) + n
  BY <1>4, LenProperties
<1>7. \A i \in 1..n : new[i].block = block
  OBVIOUS
<1> HIDE DEF new, N, T, n
<1>8. n \in Nat
  BY DEF n
<1>9. \A i \in DOMAIN log' : 
          \/ i \in DOMAIN log /\ log'[i] = log[i]
          \/ i > Len(log) /\ log'[i].block = block
  BY <1>4, <1>6, <1>7, <1>8, LogType
<1>10. LogOK'
  <2>1. \A i \in DOMAIN log' : log'[i].block \in 1..block
    BY <1>9, SMT DEF LogOK
  <2>2. \A i, j \in DOMAIN log' : i < j => log'[i].block <= log'[j].block
    BY <1>9, <1>6, <1>8, <2>1, LogType, SMT DEF LogOK
  <2> QED
    BY <1>3, <1>5, <2>1, <2>2, SMT DEF LogOK
<1>11. \A i \in DOMAIN log' : log'[i].block <= SafeHead => i \in DOMAIN log /\ log'[i] = log[i]
  BY <1>9, SafeHeadType, SMT DEF LogOK
<1>12. UNCHANGED SafeHead
  BY <1>3 DEF SafeHead, Latest
<1>13. \A i \in DOMAIN log : i \in DOMAIN log' /\ log'[i] = log[i]
  BY <1>4, <1>6, <1>8, LogType, SMT
<1> QED
  BY <1>10, <1>11, <1>12, <1>13, SafeHeadType DEF ChainKeeps

LEMMA TransactKeeps ==
    ASSUME LogOK, Transact
    PROVE  ChainKeeps
PROOF
<1> SUFFICES \E events : Len(events) \in Nat /\ Emit(events)
  BY EmitKeeps
<1>1. ASSUME NEW t, NEW a, Mint(t, a) \/ Transfer(t, a) \/ Buy(t, a)
      PROVE  \E events : Len(events) \in Nat /\ Emit(events)
  <2>1. CASE Mint(t, a)
    <3>1. Len(<<NFFCMinted(t, a), NFFCCompositionRecorded(t), Transferred(t, ZeroAddress, a)>>) \in Nat
      OBVIOUS
    <3> QED
      BY <2>1, <3>1 DEF Mint
  <2>2. CASE Transfer(t, a)
    <3>1. Len(<<Transferred(t, OwnerOf(t), a)>>) \in Nat
      OBVIOUS
    <3> QED
      BY <2>2, <3>1 DEF Transfer
  <2>3. CASE Buy(t, a)
    <3>1. Len(<<Transferred(t, OwnerOf(t), a), Sold(t, OwnerOf(t), a, 0)>>) \in Nat
      OBVIOUS
    <3> QED
      BY <2>3, <3>1 DEF Buy
  <2> QED
    BY <1>1, <2>1, <2>2, <2>3
<1>2. ASSUME NEW t, CreateListing(t) \/ CancelListing(t)
      PROVE  \E events : Len(events) \in Nat /\ Emit(events)
  <2>1. Len(<<ListingCreated(t, OwnerOf(t), 0)>>) \in Nat /\ Len(<<ListingCancelled(t, SellerOf(t))>>) \in Nat
    OBVIOUS
  <2> QED
    BY <1>2, <2>1 DEF CreateListing, CancelListing
<1>3. ASSUME NEW o, NEW t, NEW a, NEW expiry, CreateOffer(o, t, a, expiry)
      PROVE  \E events : Len(events) \in Nat /\ Emit(events)
  <2>1. Len(<<OfferCreated(o, t, a, 0, expiry)>>) \in Nat
    OBVIOUS
  <2> QED
    BY <1>3, <2>1 DEF CreateOffer
<1>4. ASSUME NEW o, CancelOffer(o) \/ AcceptOffer(o)
      PROVE  \E events : Len(events) \in Nat /\ Emit(events)
  <2>1. CASE CancelOffer(o)
    <3>1. Len(<<OfferCancelled(o)>>) \in Nat
      OBVIOUS
    <3> QED
      BY <2>1, <3>1 DEF CancelOffer
  <2>2. CASE AcceptOffer(o)
    <3> DEFINE e == log[LastOf(OfferEvents(o))].event
               t == e.tokenId
               sale == <<Transferred(t, OwnerOf(t), e.buyer), Sold(t, OwnerOf(t), e.buyer, 0),
                         OfferAccepted(o, t, OwnerOf(t), e.buyer, 0)>>
               first == <<ListingCancelled(t, OwnerOf(t))>>
    <3>1. sale \in Seq(Range(sale)) /\ Len(sale) = 3
      BY DEF Range
    <3>2. first \in Seq(Range(first)) /\ Len(first) = 1
      BY DEF Range
    <3>3. Len(first \o sale) \in Nat
      <4>1. first \in Seq(Range(first) \cup Range(sale)) /\ sale \in Seq(Range(first) \cup Range(sale))
        BY <3>1, <3>2, SeqMonotonic
      <4> HIDE DEF first, sale
      <4> QED
        BY <4>1, <3>1, <3>2, ConcatProperties
    <3>4. Emit(IF Listed(t) THEN first \o sale ELSE sale)
      BY <2>2 DEF AcceptOffer
    <3> HIDE DEF first, sale, t, e
    <3> QED
      BY <3>1, <3>3, <3>4
  <2> QED
    BY <1>4, <2>1, <2>2
<1> QED
  BY <1>1, <1>2, <1>3, <1>4 DEF Transact

LEMMA ReorgKeeps ==
    ASSUME LogOK, Reorg
    PROVE  ChainKeeps
PROOF
<1>1. PICK b \in 1..block, n \in 0..Len(log) - 1 :
          b > Final /\ FirstFrom(b, n + 1) /\ log' = SubSeq(log, 1, n) /\ block' = block
  BY DEF Reorg
<1>2. n \in Nat /\ n < Len(log)
  BY <1>1, LogType, SMT
<1>3. \A i \in 1..n : log[i] \in Range(log)
  BY <1>2, LogType, SMT DEF Range
<1>4. /\ log' \in Seq(Range(log))
      /\ Len(log') = n
      /\ \A i \in 1..n : log'[i] = log[i]
  BY <1>1, <1>2, <1>3, SubSeqProperties, SMT
<1>5. DOMAIN log' = 1..n /\ log' \in Seq(Range(log'))
  BY <1>4, LenProperties, SeqOfRange
<1>6. LogOK'
  BY <1>1, <1>2, <1>4, <1>5, LogType, SMT DEF LogOK
<1>7. \A i \in DOMAIN log : Settled(i) => i \in 1..n
  <2> SUFFICES ASSUME NEW i \in DOMAIN log, i > n
               PROVE  log[i].block > SafeHead
    BY LogType, <1>2, SMT DEF Settled, LogOK, SafeHead, Latest
  <2>1. log[i].block >= b
    BY <1>1, <1>2, LogType, SMT DEF FirstFrom
  <2> QED
    BY <1>1, <2>1, SMT DEF SafeHead, Final, Latest, LogOK
<1>8. SafeHead' = SafeHead
  BY <1>1 DEF SafeHead, Latest
<1> QED
  BY <1>2, <1>4, <1>5, <1>6, <1>7, <1>8, LogType, SafeHeadType, SMT DEF ChainKeeps

LEMMA NextBlockKeeps ==
    ASSUME LogOK, NextBlock
    PROVE  ChainKeeps
PROOF
<1>1. block' = block + 1 /\ log' = log
  BY DEF NextBlock
<1>2. LogOK'
  BY <1>1, LogType, SMT DEF LogOK
<1>3. SafeHead <= SafeHead'
  BY <1>1, SMT DEF SafeHead, Latest, LogOK
<1> QED
  BY <1>1, <1>2, <1>3 DEF ChainKeeps

----------------------------------------------------------------------------
(* The inductive invariant *)

LEMMA InitOK == Init => IInv
PROOF
<1> SUFFICES ASSUME Init PROVE IInv
  OBVIOUS
<1>1. DOMAIN log = {} /\ log \in Seq({}) /\ log \in Seq(Range(log)) /\ Len(log) = 0
  BY EmptySeq, SeqOfRange DEF Init
<1>2. LogOK
  BY <1>1 DEF Init, LogOK
<1>3. FeedOK
  BY <1>1, EmptySeq DEF Init, FeedOK
<1>4. CursorOK
  BY <1>1 DEF Init, CursorOK, NothingSkipped
<1>5. WorkersOK
  BY DEF Init, WorkersOK, WorkerOK, Stopped, At, Locals
<1> QED
  BY <1>2, <1>3, <1>4, <1>5 DEF IInv

\* A step of the chain: every conjunct speaks of settled entries only.
LEMMA ChainStep ==
    ASSUME IInv, ChainKeeps, UNCHANGED <<tableVars, worker>>
    PROVE  IInv'
PROOF
<1> USE DEF IInv
<1>1. cursor' = cursor /\ activity' = activity /\ worker' = worker
  BY DEF tableVars
<1>2. \A i : Recorded(i)' <=> Recorded(i)
  BY <1>1 DEF Recorded
<1>3. LogOK'
  BY DEF ChainKeeps
<1>4. /\ Len(log) \in Nat /\ DOMAIN log = 1..Len(log)
      /\ Len(log') \in Nat /\ DOMAIN log' = 1..Len(log')
  BY <1>3, LogType, LenProperties DEF LogOK
<1>5. SafeHead \in Nat /\ SafeHead' \in Nat /\ SafeHead <= SafeHead'
  <2>1. block' \in Nat \ {0}
    BY <1>3 DEF LogOK
  <2>2. SafeHead' \in Nat
    BY <2>1, HeadType DEF SafeHead, Latest
  <2> QED
    BY <2>2, SafeHeadType DEF ChainKeeps
<1>6. FeedOK'
  <2>1. \A k \in DOMAIN activity : activity[k] \in DOMAIN log'
    <3>1. \A k \in DOMAIN activity : activity[k] \in DOMAIN log
      BY ElementOfSeq, LenProperties DEF FeedOK
    <3>2. \A k \in DOMAIN activity : Recorded(activity[k])
      BY DEF Recorded
    <3> QED
      BY <3>1, <3>2 DEF FeedOK, ChainKeeps, Settled
  <2>2. activity' \in Seq(DOMAIN log')
    <3>1. activity \in Seq(Range(activity))
      BY SeqOfRange DEF FeedOK
    <3>2. Range(activity) \subseteq DOMAIN log'
      BY <2>1 DEF Range
    <3> QED
      BY <1>1, <3>1, <3>2, SeqMonotonic
  <2>3. ASSUME NEW i \in DOMAIN log', Recorded(i)
        PROVE  /\ HasActivity(log'[i].event)
               /\ log'[i].block <= SafeHead'
               /\ \A j \in 1..i - 1 : HasActivity(log'[j].event) => Recorded(j)
    <3>1. i \in DOMAIN log
      <4>1. PICK k \in DOMAIN activity : activity[k] = i
        BY <2>3 DEF Recorded
      <4> QED
        BY <4>1, ElementOfSeq, LenProperties DEF FeedOK
    <3>2. HasActivity(log[i].event) /\ log[i].block <= SafeHead /\ log'[i] = log[i]
      BY <2>3, <3>1 DEF FeedOK, ChainKeeps, Settled
    <3>3. ASSUME NEW j \in 1..i - 1, HasActivity(log'[j].event)
          PROVE  Recorded(j)
      <4>1. j \in DOMAIN log /\ j < i
        BY <3>1, <1>4, SMT
      <4>2. log[j].block <= SafeHead
        BY <3>1, <3>2, <4>1, <1>5, SMT DEF LogOK
      <4>3. log'[j] = log[j]
        BY <4>1, <4>2 DEF ChainKeeps, Settled
      <4> QED
        BY <2>3, <3>1, <3>3, <4>3 DEF FeedOK
    <3>4. log'[i].block <= SafeHead'
      BY <3>1, <3>2, <1>5, SMT DEF LogOK
    <3> QED
      BY <3>2, <3>3, <3>4
  <2> QED
    BY <2>2, <2>3, <1>2 DEF FeedOK
<1>7. ASSUME NEW b \in Nat, b <= SafeHead,
             \A i \in DOMAIN log : log[i].block <= b /\ HasActivity(log[i].event) => Recorded(i)
      PROVE  \A i \in DOMAIN log' : log'[i].block <= b /\ HasActivity(log'[i].event) => Recorded(i)'
  <2> SUFFICES ASSUME NEW i \in DOMAIN log', log'[i].block <= b, HasActivity(log'[i].event)
               PROVE  Recorded(i)'
    OBVIOUS
  <2>1. log'[i].block <= SafeHead
    BY <1>3, <1>5, <1>7, SMT DEF LogOK
  <2>2. i \in DOMAIN log /\ log'[i] = log[i]
    BY <2>1 DEF ChainKeeps
  <2> QED
    BY <2>2, <1>2, <1>7
<1>8. CursorOK'
  <2>1. CASE cursor = None
    BY <2>1, <1>1 DEF CursorOK, NothingSkipped
  <2>2. CASE cursor # None
    <3>1. cursor \in Nat /\ cursor <= SafeHead
      BY <2>2 DEF CursorOK
    <3>2. NothingSkipped'
      BY <2>2, <3>1, <1>1, <1>7 DEF CursorOK, NothingSkipped
    <3> QED
      BY <3>1, <3>2, <1>1, <1>5, SMT DEF CursorOK
  <2> QED
    BY <2>1, <2>2
<1>9. ASSUME NEW w \in Workers PROVE WorkerOK(w)'
  <2>0. PICK l \in Locals : worker[w] = l /\ worker'[w] = l
    BY <1>1 DEF WorkersOK
  <2>1. l.pc = "head" => l.from <= SafeHead' /\ ThroughBlock(l.from)'
    <3> SUFFICES ASSUME l.pc = "head" PROVE l.from <= SafeHead' /\ ThroughBlock(l.from)'
      OBVIOUS
    <3>1. l.from \in Nat /\ l.from <= SafeHead /\ ThroughBlock(l.from)
      BY <2>0 DEF WorkersOK, WorkerOK, Locals
    <3>2. ASSUME NEW i \in DOMAIN log', log'[i].block < l.from, HasActivity(log'[i].event)
          PROVE  Recorded(i)
      <4>1. log'[i].block <= SafeHead
        BY <3>1, <3>2, <1>3, <1>5, SMT DEF LogOK
      <4> QED
        BY <4>1, <3>1, <3>2 DEF ChainKeeps, ThroughBlock
    <3> QED
      BY <3>1, <3>2, <1>1, <1>2, <1>5, <2>0 DEF ThroughBlock
  <2>2. ASSUME NEW n, ThroughEntry(n)
        PROVE  ThroughEntry(n)'
    <3>1. n \in 1..Len(log) + 1
      BY <2>2 DEF ThroughEntry
    <3>2. \A i \in 1..n - 1 : i \in DOMAIN log /\ log[i].block <= SafeHead
      BY <2>2, <1>4, <3>1, SMT DEF ThroughEntry
    <3>3. \A i \in 1..n - 1 : i \in DOMAIN log' /\ log'[i] = log[i]
      BY <3>2 DEF ChainKeeps, Settled
    <3>4. n \in 1..Len(log') + 1
      BY <3>1, <3>3, <1>4, SMT
    <3>5. \A i \in 1..n - 1 : log'[i].block <= SafeHead'
      BY <3>2, <3>3, <1>5, SMT DEF LogOK
    <3>6. \A i \in 1..n - 1 : HasActivity(log'[i].event) => Recorded(i)
      BY <2>2, <3>3 DEF ThroughEntry
    <3> QED
      BY <3>4, <3>5, <3>6, <1>2 DEF ThroughEntry
  <2>3. l.pc \in {"loop", "mirror"} => l.to <= SafeHead' /\ ThroughEntry(l.next)'
    <3> SUFFICES ASSUME l.pc \in {"loop", "mirror"} PROVE l.to <= SafeHead' /\ ThroughEntry(l.next)'
      OBVIOUS
    <3>1. l.to \in Nat /\ l.to <= SafeHead /\ ThroughEntry(l.next)
      BY <2>0 DEF WorkersOK, WorkerOK, Locals
    <3>2. ThroughEntry(l.next)'
      BY <3>1, <2>2
    <3> QED
      BY <3>1, <3>2, <1>5, <2>0, SMT
  <2>4. l.pc = "mirror" => /\ l.next \in DOMAIN log'
                           /\ log'[l.next].block <= l.to
                           /\ Recorded(l.next)'
    <3> SUFFICES ASSUME l.pc = "mirror"
                 PROVE  l.next \in DOMAIN log' /\ log'[l.next].block <= l.to /\ Recorded(l.next)
      BY <1>2, <2>0
    <3>1. /\ l.to \in Nat /\ l.to <= SafeHead /\ l.next \in DOMAIN log
          /\ log[l.next].block <= l.to /\ Recorded(l.next)
      BY <2>0 DEF WorkersOK, WorkerOK, Locals
    <3>2. log[l.next].block <= SafeHead
      BY <3>1, <1>5, SMT DEF LogOK
    <3> QED
      BY <3>1, <3>2 DEF ChainKeeps, Settled
  <2> QED
    BY <2>0, <2>1, <2>3, <2>4 DEF WorkerOK
<1>10. WorkersOK'
  BY <1>1, <1>9 DEF WorkersOK
<1> QED
  BY <1>3, <1>6, <1>8, <1>10

\* A step of pass w that records at most the activity it stands at: it is
\* enough that the rows stay in order and that w's own locals are right.
LEMMA PassStep ==
    ASSUME IInv, NEW w \in Workers, UNCHANGED chainVars,
           NEW l \in Locals, worker' = [worker EXCEPT ![w] = l],
           \A i : Recorded(i) => Recorded(i)',
           FeedOK', CursorOK', WorkerOK(w)'
    PROVE  IInv'
PROOF
<1>1. block' = block /\ log' = log /\ SafeHead' = SafeHead
  BY DEF chainVars, SafeHead, Latest
<1>2. LogOK'
  BY <1>1 DEF IInv, LogOK
<1>3. ASSUME NEW v \in Workers PROVE WorkerOK(v)'
  <2>1. CASE v = w
    BY <2>1
  <2>2. CASE v # w
    <3>1. worker'[v] = worker[v] /\ WorkerOK(v)
      BY <2>2 DEF IInv, WorkersOK
    <3>2. ASSUME NEW b, ThroughBlock(b) PROVE ThroughBlock(b)'
      BY <3>2, <1>1 DEF ThroughBlock
    <3>3. ASSUME NEW n, ThroughEntry(n) PROVE ThroughEntry(n)'
      BY <3>3, <1>1 DEF ThroughEntry
    <3>4. PICK k \in Locals : worker[v] = k /\ worker'[v] = k
      BY <3>1 DEF IInv, WorkersOK
    <3>5. k.pc = "head" => k.from <= SafeHead /\ ThroughBlock(k.from)'
      BY <3>1, <3>2, <3>4 DEF WorkerOK
    <3>6. k.pc \in {"loop", "mirror"} => k.to <= SafeHead /\ ThroughEntry(k.next)'
      BY <3>1, <3>3, <3>4 DEF WorkerOK
    <3>7. k.pc = "mirror" => k.next \in DOMAIN log /\ log[k.next].block <= k.to /\ Recorded(k.next)'
      BY <3>1, <3>4 DEF WorkerOK
    <3> QED
      BY <3>4, <3>5, <3>6, <3>7, <1>1 DEF WorkerOK
  <2> QED
    BY <2>1, <2>2
<1>4. worker' \in [Workers -> Locals]
  BY DEF IInv, WorkersOK
<1> QED
  BY <1>2, <1>3, <1>4 DEF IInv, WorkersOK

\* Steps of a pass that leave the activity table alone.
LEMMA QuietStep ==
    ASSUME IInv, NEW w \in Workers, UNCHANGED <<chainVars, activity>>,
           NEW l \in Locals, worker' = [worker EXCEPT ![w] = l],
           CursorOK', WorkerOK(w)'
    PROVE  IInv'
PROOF
<1>1. block' = block /\ log' = log /\ activity' = activity
  BY DEF chainVars
<1>2. FeedOK'
  BY <1>1 DEF IInv, FeedOK, Recorded, SafeHead, Latest
<1>3. \A i : Recorded(i) => Recorded(i)'
  BY <1>1 DEF Recorded
<1> QED
  BY <1>2, <1>3, PassStep

LEMMA SameTables ==
    ASSUME IInv, UNCHANGED <<chainVars, cursor, activity>>
    PROVE  /\ CursorOK'
           /\ \A n : ThroughEntry(n)' <=> ThroughEntry(n)
           /\ \A n : ThroughBlock(n)' <=> ThroughBlock(n)
           /\ \A n : Recorded(n)' <=> Recorded(n)
           /\ log' = log /\ SafeHead' = SafeHead
PROOF
<1>1. block' = block /\ log' = log /\ activity' = activity /\ cursor' = cursor
  BY DEF chainVars
<1> QED
  BY <1>1 DEF IInv, CursorOK, NothingSkipped, ThroughEntry, ThroughBlock, Recorded, SafeHead, Latest

LEMMA StartOK ==
    ASSUME IInv, NEW w \in Workers, Start(w)
    PROVE  IInv'
PROOF
<1>1. UNCHANGED <<chainVars, cursor, activity>>
  BY DEF Start, tableVars
<1>2. cursor \in Nat \cup {None} /\ (cursor # None => cursor <= SafeHead)
  BY DEF IInv, CursorOK
<1>3. SafeHead \in Nat /\ reorgSafetyMarginBlocks \in Nat
  BY SafeHeadType DEF IInv
<1>4. FirstBlock \in Nat /\ FirstBlock <= SafeHead
      /\ (FirstBlock # 0 => cursor # None /\ FirstBlock <= cursor)
  BY <1>2, <1>3, SMT DEF FirstBlock
<1>5. ThroughBlock(FirstBlock)
  <2> SUFFICES ASSUME NEW i \in DOMAIN log, log[i].block < FirstBlock, HasActivity(log[i].event)
               PROVE  Recorded(i)
    BY DEF ThroughBlock
  <2>1. log[i].block \in Nat
    BY DEF IInv, LogOK
  <2>2. cursor \in Nat /\ cursor # None /\ log[i].block <= cursor
    BY <1>2, <1>4, <2>1, SMT
  <2> QED
    BY <2>2 DEF IInv, CursorOK, NothingSkipped
<1>6. PICK b \in Nat : b = FirstBlock
  BY <1>4
<1> DEFINE l == [pc |-> "head", from |-> b, to |-> 0, next |-> 0]
<1>7. l \in Locals
  BY DEF Locals
<1>8. worker' = [worker EXCEPT ![w] = l]
  BY <1>6 DEF Start, At
<1>9. worker'[w] = l
  BY <1>8 DEF IInv, WorkersOK
<1>10. b <= SafeHead' /\ ThroughBlock(b)'
  BY <1>1, <1>4, <1>5, <1>6, SameTables
<1>11. WorkerOK(w)'
  BY <1>9, <1>10 DEF WorkerOK
<1> HIDE DEF l
<1> QED
  BY <1>1, <1>7, <1>8, <1>11, SameTables, QuietStep

\* However a pass ends without moving the cursor.
LEMMA StopOK ==
    ASSUME IInv, NEW w \in Workers, UNCHANGED <<chainVars, cursor, activity>>,
           worker' = [worker EXCEPT ![w] = Stopped]
    PROVE  IInv'
PROOF
<1>1. Stopped \in Locals
  BY DEF Stopped, At, Locals
<1>2. worker'[w] = Stopped
  BY DEF IInv, WorkersOK
<1>3. WorkerOK(w)'
  BY <1>2 DEF WorkerOK, Stopped, At
<1> QED
  BY <1>1, <1>3, SameTables, QuietStep

LEMMA FetchOK ==
    ASSUME IInv, NEW w \in Workers, Fetch(w)
    PROVE  IInv'
PROOF
<1>1. UNCHANGED <<chainVars, cursor, activity>>
  BY DEF Fetch, tableVars
<1>2. CASE worker' = [worker EXCEPT ![w] = Stopped]
  BY <1>1, <1>2, StopOK
<1>3. CASE /\ worker[w].from <= LastBlock(worker[w].from)
           /\ \E first \in 1..Len(log) + 1 :
                /\ FirstFrom(worker[w].from, first)
                /\ worker' = [worker EXCEPT ![w] =
                       At("loop", worker[w].from, LastBlock(worker[w].from), first)]
  <2>1. PICK k \in Locals : worker[w] = k
    BY DEF IInv, WorkersOK
  <2>2. k.pc = "head" /\ k.from \in Nat /\ k.from <= SafeHead /\ ThroughBlock(k.from)
    BY <2>1 DEF Fetch, IInv, WorkersOK, WorkerOK, Locals
  <2>3. SafeHead \in Nat /\ maxBlockRange \in Nat
    BY SafeHeadType DEF IInv
  <2>4. LastBlock(k.from) \in Nat /\ LastBlock(k.from) <= SafeHead
    BY <2>2, <2>3, SMT DEF LastBlock
  <2>5. PICK to \in Nat : to = LastBlock(k.from)
    BY <2>4
  <2>6. PICK first \in 1..Len(log) + 1 :
            /\ FirstFrom(k.from, first)
            /\ worker' = [worker EXCEPT ![w] = At("loop", k.from, to, first)]
    BY <1>3, <2>1, <2>5
  <2> DEFINE l == [pc |-> "loop", from |-> k.from, to |-> to, next |-> first]
  <2>7. Len(log) \in Nat /\ DOMAIN log = 1..Len(log) /\ first \in Nat
    BY LogType, SMT DEF IInv
  <2>8. l \in Locals
    BY <2>2, <2>7 DEF Locals
  <2>9. worker' = [worker EXCEPT ![w] = l]
    BY <2>6 DEF At
  <2>10. worker'[w] = l
    BY <2>9 DEF IInv, WorkersOK
  <2>11. ThroughEntry(first)
    <3> SUFFICES ASSUME NEW i \in 1..first - 1
                 PROVE  log[i].block <= SafeHead /\ (HasActivity(log[i].event) => Recorded(i))
      BY DEF ThroughEntry
    <3>1. i \in DOMAIN log /\ log[i].block < k.from
      BY <2>6, <2>7, SMT DEF FirstFrom
    <3>2. log[i].block \in Nat
      BY <3>1 DEF IInv, LogOK
    <3> QED
      BY <3>1, <3>2, <2>2, <2>3, SMT DEF ThroughBlock
  <2>12. to <= SafeHead' /\ ThroughEntry(first)'
    BY <1>1, <2>4, <2>5, <2>11, SameTables
  <2>13. WorkerOK(w)'
    BY <2>10, <2>12 DEF WorkerOK
  <2> HIDE DEF l
  <2> QED
    BY <1>1, <2>8, <2>9, <2>13, SameTables, QuietStep
<1> QED
  BY <1>2, <1>3 DEF Fetch

\* What a pass in its loop knows of the entry it stands at.
LEMMA AtEntry ==
    ASSUME IInv, NEW w \in Workers, NEW k \in Locals, worker[w] = k,
           \/ k.pc = "loop" /\ ~Done(w)
           \/ k.pc = "mirror"
    PROVE  /\ k.next \in DOMAIN log
           /\ log[k.next].block <= k.to
           /\ k.to \in Nat /\ k.to <= SafeHead /\ SafeHead \in Nat
           /\ log[k.next].block <= SafeHead
           /\ ThroughEntry(k.next)
PROOF
<1>1. k.to \in Nat /\ k.to <= SafeHead /\ ThroughEntry(k.next)
  BY DEF IInv, WorkersOK, WorkerOK, Locals
<1>2. Len(log) \in Nat /\ DOMAIN log = 1..Len(log) /\ SafeHead \in Nat
  BY LogType, SafeHeadType DEF IInv
<1>3. k.next \in 1..Len(log) + 1
  BY <1>1 DEF ThroughEntry
<1>4. k.next \in DOMAIN log /\ log[k.next].block <= k.to
  <2>1. CASE k.pc = "loop" /\ ~Done(w)
    <3>1. k.next <= Len(log) /\ ~(log[k.next].block > k.to)
      BY <2>1 DEF Done
    <3>2. k.next \in DOMAIN log
      BY <3>1, <1>2, <1>3, SMT
    <3>3. log[k.next].block \in Nat
      BY <3>2 DEF IInv, LogOK
    <3> QED
      BY <3>1, <3>2, <3>3, <1>1, SMT
  <2>2. CASE k.pc = "mirror"
    BY <2>2 DEF IInv, WorkersOK, WorkerOK
  <2> QED
    BY <2>1, <2>2
<1>5. log[k.next].block \in Nat
  BY <1>4 DEF IInv, LogOK
<1>6. log[k.next].block <= SafeHead
  BY <1>1, <1>2, <1>4, <1>5, SMT
<1> QED
  BY <1>1, <1>2, <1>4, <1>6

\* The pass goes on to the next entry, this one being recorded or no activity.
LEMMA PassOK ==
    ASSUME IInv, NEW w \in Workers, NEW k \in Locals, worker[w] = k,
           UNCHANGED <<chainVars, cursor, activity>>, worker' = Pass(w),
           \/ k.pc = "loop" /\ ~Done(w)
           \/ k.pc = "mirror",
           HasActivity(log[k.next].event) => Recorded(k.next)
    PROVE  IInv'
PROOF
<1>1. /\ k.next \in DOMAIN log
      /\ log[k.next].block <= SafeHead
      /\ k.to \in Nat /\ k.to <= SafeHead
      /\ ThroughEntry(k.next)
  BY AtEntry
<1>2. Len(log) \in Nat /\ DOMAIN log = 1..Len(log)
  BY LogType DEF IInv
<1> DEFINE n == k.next + 1
           l == [pc |-> "loop", from |-> k.from, to |-> k.to, next |-> n]
<1>3. k.next \in Nat /\ k.from \in Nat /\ n \in Nat
  BY SMT DEF Locals
<1>4. l \in Locals
  BY <1>1, <1>3 DEF Locals
<1>5. worker' = [worker EXCEPT ![w] = l]
  BY DEF Pass, IInv, WorkersOK, Locals
<1>6. worker'[w] = l
  BY <1>5 DEF IInv, WorkersOK
<1>7. ThroughEntry(n)
  <2>1. n \in 1..Len(log) + 1
    BY <1>1, <1>2, <1>3, SMT
  <2>2. \A i \in 1..n - 1 : i \in 1..k.next - 1 \/ i = k.next
    BY <1>3, SMT
  <2> HIDE DEF n
  <2> QED
    BY <1>1, <2>1, <2>2 DEF ThroughEntry
<1> HIDE DEF n
<1>8. k.to <= SafeHead' /\ ThroughEntry(n)'
  BY <1>1, <1>7, SameTables
<1>9. WorkerOK(w)'
  BY <1>6, <1>8 DEF WorkerOK
<1> HIDE DEF l
<1> QED
  BY <1>4, <1>5, <1>9, SameTables, QuietStep

LEMMA SkipOK ==
    ASSUME IInv, NEW w \in Workers, Skip(w)
    PROVE  IInv'
PROOF
<1>1. PICK k \in Locals : worker[w] = k
  BY DEF IInv, WorkersOK
<1>2. UNCHANGED <<chainVars, cursor, activity>> /\ worker' = Pass(w)
  BY DEF Skip, tableVars
<1>3. k.pc = "loop" /\ ~Done(w) /\ ~HasActivity(log[k.next].event)
  BY <1>1 DEF Skip, AtEvent, Current
<1> QED
  BY <1>1, <1>2, <1>3, PassOK

LEMMA RecordOK ==
    ASSUME IInv, NEW w \in Workers, Record(w)
    PROVE  IInv'
PROOF
<1>1. PICK k \in Locals : worker[w] = k
  BY DEF IInv, WorkersOK
<1>2. k.pc = "loop" /\ ~Done(w) /\ HasActivity(log[k.next].event)
  BY <1>1 DEF Record, AtEvent, Current
<1>3. UNCHANGED <<chainVars, cursor>>
  BY DEF Record
<1>4. CASE Recorded(k.next) /\ worker' = Pass(w) /\ UNCHANGED activity
  BY <1>1, <1>2, <1>3, <1>4, PassOK
<1>5. CASE /\ ~Recorded(k.next)
           /\ activity' = Append(activity, k.next)
           /\ worker' = [worker EXCEPT ![w].pc = "mirror"]
  <2>1. /\ k.next \in DOMAIN log /\ log[k.next].block <= k.to
        /\ k.to <= SafeHead /\ log[k.next].block <= SafeHead /\ ThroughEntry(k.next)
    BY <1>1, <1>2, AtEntry
  <2>2. log' = log /\ SafeHead' = SafeHead /\ cursor' = cursor
    BY <1>3 DEF chainVars, SafeHead, Latest
  <2>3. activity \in Seq(DOMAIN log)
    BY DEF IInv, FeedOK
  <2>4. /\ activity' \in Seq(DOMAIN log)
        /\ Len(activity') = Len(activity) + 1
        /\ \A j \in 1..Len(activity) : activity'[j] = activity[j]
        /\ activity'[Len(activity) + 1] = k.next
    BY <1>5, <2>1, <2>3, AppendProperties
  <2>5. /\ Len(activity) \in Nat /\ DOMAIN activity = 1..Len(activity)
        /\ DOMAIN activity' = 1..Len(activity) + 1
    BY <2>3, <2>4, LenProperties
  <2>6. \A i : Recorded(i) => Recorded(i)'
    BY <2>4, <2>5, SMT DEF Recorded
  <2>7. Recorded(k.next)'
    BY <2>4, <2>5, SMT DEF Recorded
  <2>8. \A i : Recorded(i)' => Recorded(i) \/ i = k.next
    BY <2>4, <2>5, SMT DEF Recorded
  <2>9. FeedOK'
    <3>1. ASSUME NEW i \in DOMAIN log, Recorded(i)'
          PROVE  /\ HasActivity(log[i].event)
                 /\ log[i].block <= SafeHead
                 /\ \A j \in 1..i - 1 : HasActivity(log[j].event) => Recorded(j)
      <4>1. CASE Recorded(i)
        BY <4>1 DEF IInv, FeedOK
      <4>2. CASE i = k.next
        BY <4>2, <1>2, <2>1 DEF ThroughEntry
      <4> QED
        BY <3>1, <4>1, <4>2, <2>8
    <3> QED
      BY <3>1, <2>2, <2>4, <2>6 DEF FeedOK
  <2>10. CursorOK'
    BY <2>2, <2>6 DEF IInv, CursorOK, NothingSkipped
  <2> DEFINE l == [pc |-> "mirror", from |-> k.from, to |-> k.to, next |-> k.next]
  <2>11. l \in Locals
    BY DEF Locals
  <2>12. worker' = [worker EXCEPT ![w] = l]
    <3>1. worker' = [worker EXCEPT ![w] = [worker[w] EXCEPT !.pc = "mirror"]]
      BY <1>5
    <3>2. [k EXCEPT !.pc = "mirror"] = l
      BY DEF Locals
    <3> QED
      BY <1>1, <3>1, <3>2
  <2>13. worker'[w] = l
    BY <2>12 DEF IInv, WorkersOK
  <2>14. ThroughEntry(k.next)'
    BY <2>1, <2>2, <2>6 DEF ThroughEntry
  <2>15. WorkerOK(w)'
    BY <2>1, <2>2, <2>7, <2>13, <2>14 DEF WorkerOK
  <2> HIDE DEF l
  <2> QED
    BY <1>3, <2>6, <2>9, <2>10, <2>11, <2>12, <2>15, PassStep
<1> QED
  BY <1>1, <1>4, <1>5 DEF Record, IsNew

LEMMA ApplyMirrorWriteOK ==
    ASSUME IInv, NEW w \in Workers, ApplyMirrorWrite(w)
    PROVE  IInv'
PROOF
<1>1. PICK k \in Locals : worker[w] = k
  BY DEF IInv, WorkersOK
<1>2. UNCHANGED <<chainVars, cursor, activity>> /\ worker' = Pass(w)
  BY DEF ApplyMirrorWrite
<1>3. CASE k.pc = "mirror"
  <2>1. Recorded(k.next)
    BY <1>1, <1>3 DEF IInv, WorkersOK, WorkerOK
  <2> QED
    BY <1>1, <1>2, <1>3, <2>1, PassOK
<1>4. CASE k.pc = "loop" /\ ~Done(w) /\ ~HasActivity(log[k.next].event)
  BY <1>1, <1>2, <1>4, PassOK
<1> QED
  BY <1>1, <1>3, <1>4 DEF ApplyMirrorWrite, AtMirror, AtEvent, Current

LEMMA AdvanceCursorOK ==
    ASSUME IInv, NEW w \in Workers, AdvanceCursor(w)
    PROVE  IInv'
PROOF
<1>1. PICK k \in Locals : worker[w] = k
  BY DEF IInv, WorkersOK
<1>2. k.pc = "loop" /\ Done(w) /\ cursor' = k.to /\ worker' = [worker EXCEPT ![w] = Stopped]
  BY <1>1 DEF AdvanceCursor, BatchFinished
<1>3. UNCHANGED <<chainVars, activity>>
  BY DEF AdvanceCursor
<1>4. k.to \in Nat /\ k.to <= SafeHead /\ ThroughEntry(k.next) /\ k.next \in Nat
  BY <1>1, <1>2 DEF IInv, WorkersOK, WorkerOK, Locals
<1>5. log' = log /\ activity' = activity /\ SafeHead' = SafeHead
  BY <1>3 DEF chainVars, SafeHead, Latest
<1>6. Len(log) \in Nat /\ DOMAIN log = 1..Len(log)
  BY LogType DEF IInv
<1>7. ASSUME NEW i \in DOMAIN log, log[i].block <= k.to, HasActivity(log[i].event)
      PROVE  Recorded(i)
  <2>1. CASE i < k.next
    <3>1. i \in 1..k.next - 1
      BY <2>1, <1>4, <1>6, SMT
    <3> QED
      BY <3>1, <1>4, <1>7 DEF ThroughEntry
  <2>2. CASE k.next <= i
    <3>1. k.next \in DOMAIN log /\ k.next <= Len(log)
      BY <2>2, <1>4, <1>6, SMT DEF ThroughEntry
    <3>2. log[k.next].block > k.to
      BY <3>1, <1>1, <1>2 DEF Done
    <3>3. log[k.next].block <= log[i].block
      BY <3>1, <2>2, <1>4, <1>6, SMT DEF IInv, LogOK
    <3>4. log[i].block \in Nat /\ log[k.next].block \in Nat
      BY <3>1 DEF IInv, LogOK
    <3> QED
      BY <3>2, <3>3, <3>4, <1>4, <1>7, SMT
  <2> QED
    BY <2>1, <2>2, <1>4, <1>6, SMT
<1>8. NothingSkipped'
  BY <1>2, <1>5, <1>7 DEF NothingSkipped, Recorded
<1>9. CursorOK'
  BY <1>2, <1>4, <1>5, <1>8 DEF CursorOK
<1>10. Stopped \in Locals
  BY DEF Stopped, At, Locals
<1>11. worker'[w] = Stopped
  BY <1>2 DEF IInv, WorkersOK
<1>12. WorkerOK(w)'
  BY <1>11 DEF WorkerOK, Stopped, At
<1> QED
  BY <1>2, <1>3, <1>9, <1>10, <1>12, QuietStep

LEMMA NextOK == IInv /\ [Next]_vars => IInv'
PROOF
<1> SUFFICES ASSUME IInv, [Next]_vars PROVE IInv'
  OBVIOUS
<1>1. CASE Chain
  <2>1. LogOK
    BY DEF IInv
  <2>2. CASE Transact
    <3>1. UNCHANGED <<tableVars, worker>>
      BY <2>2 DEF Transact, Mint, Transfer, Buy, CreateListing, CancelListing,
                  CreateOffer, CancelOffer, AcceptOffer, Emit
    <3> QED
      BY <2>1, <2>2, <3>1, TransactKeeps, ChainStep
  <2>3. CASE NextBlock
    <3>1. UNCHANGED <<tableVars, worker>>
      BY <2>3 DEF NextBlock
    <3> QED
      BY <2>1, <2>3, <3>1, NextBlockKeeps, ChainStep
  <2>4. CASE Reorg
    <3>1. UNCHANGED <<tableVars, worker>>
      BY <2>4 DEF Reorg
    <3> QED
      BY <2>1, <2>4, <3>1, ReorgKeeps, ChainStep
  <2> QED
    BY <1>1, <2>2, <2>3, <2>4 DEF Chain
<1>2. ASSUME NEW w \in Workers, Throw(w) \/ Abort(w) \/ Crash(w)
      PROVE  IInv'
  <2>1. /\ UNCHANGED <<chainVars, cursor, activity>>
        /\ worker' = [worker EXCEPT ![w] = Stopped]
    BY <1>2 DEF Throw, Abort, Crash, tableVars
  <2> QED
    BY <2>1, StopOK
<1>3. CASE UNCHANGED vars
  <2>1. UNCHANGED <<chainVars, cursor, activity, worker>>
    BY <1>3 DEF vars, tableVars
  <2>2. FeedOK' /\ LogOK'
    BY <2>1 DEF IInv, FeedOK, LogOK, Recorded, chainVars, SafeHead, Latest
  <2>3. WorkersOK'
    BY <2>1, SameTables DEF IInv, WorkersOK, WorkerOK
  <2> QED
    BY <2>1, <2>2, <2>3, SameTables DEF IInv
<1> QED
  BY <1>1, <1>2, <1>3, StartOK, FetchOK, SkipOK, RecordOK, ApplyMirrorWriteOK, AdvanceCursorOK
     DEF Next, Step

THEOREM Invariance == Spec => []IInv
PROOF
<1> QED
  BY InitOK, NextOK, PTL DEF Spec

----------------------------------------------------------------------------
(* Theorems *)

\* Every variable keeps its type; in particular a row never outlives the
\* entry of the chain it was made for.
THEOREM TypeCorrect == Spec => []TypeOK
PROOF
<1>1. IInv => TypeOK
  BY DEF IInv, LogOK, FeedOK, CursorOK, WorkersOK, Locals, TypeOK
<1> QED
  BY <1>1, Invariance, PTL

\* Whatever passes run, die or are stopped, no activity at or below the
\* cursor is missing.
THEOREM NoSkip == Spec => []NothingSkipped
PROOF
<1>1. IInv => NothingSkipped
  BY DEF IInv, CursorOK
<1> QED
  BY <1>1, Invariance, PTL

\* Entries that have a row survive every step of the chain.
LEMMA ChainReorganises ==
    ASSUME IInv, ChainKeeps, activity' = activity
    PROVE  Feed!Reorganise
PROOF
<1> SUFFICES ASSUME NEW i \in Feed!Published
             PROVE  i \in DOMAIN log' /\ log'[i] = log[i]
  BY DEF Feed!Reorganise
<1>1. PICK k \in DOMAIN activity : activity[k] = i
  BY DEF Feed!Published
<1>2. i \in DOMAIN log /\ Recorded(i)
  BY <1>1, ElementOfSeq, LenProperties DEF IInv, FeedOK, Recorded
<1> QED
  BY <1>2 DEF IInv, FeedOK, ChainKeeps, Settled

\* The row a pass inserts is that of the next activity.
LEMMA RecordPublishes ==
    ASSUME IInv, NEW w \in Workers, Record(w)
    PROVE  Feed!Publish \/ UNCHANGED <<log, activity>>
PROOF
<1>1. PICK k \in Locals : worker[w] = k
  BY DEF IInv, WorkersOK
<1>2. k.pc = "loop" /\ ~Done(w) /\ HasActivity(log[k.next].event) /\ log' = log
  BY <1>1 DEF Record, AtEvent, Current, chainVars
<1>3. CASE UNCHANGED activity
  BY <1>2, <1>3
<1>4. CASE ~Recorded(k.next) /\ activity' = Append(activity, k.next)
  <2>1. k.next \in DOMAIN log /\ ThroughEntry(k.next)
    BY <1>1, <1>2, AtEntry
  <2>2. DOMAIN log = 1..Len(log) /\ Len(log) \in Nat
    BY LogType DEF IInv
  <2>3. ASSUME NEW j, j \in Feed!Published
        PROVE  j \in 1..k.next - 1 /\ HasActivity(log[j].event)
    <3>1. PICK m \in DOMAIN activity : activity[m] = j
      BY <2>3 DEF Feed!Published
    <3>2. j \in DOMAIN log /\ Recorded(j)
      BY <3>1, ElementOfSeq, LenProperties DEF IInv, FeedOK, Recorded
    <3>3. HasActivity(log[j].event) /\ ~(k.next \in 1..j - 1)
      BY <3>2, <2>1, <1>2, <1>4 DEF IInv, FeedOK
    <3>4. j # k.next
      BY <3>2, <1>4
    <3> QED
      BY <3>2, <3>3, <3>4, <2>1, <2>2, SMT
  <2>4. ASSUME NEW j \in 1..k.next - 1, HasActivity(log[j].event)
        PROVE  j \in Feed!Published
    BY <2>1, <2>4 DEF ThroughEntry, Recorded, Feed!Published
  <2>5. Feed!Published = {j \in 1..k.next - 1 : EntryIsActivity(log[j])}
    BY <2>3, <2>4 DEF EntryIsActivity
  <2> QED
    BY <1>2, <1>4, <2>1, <2>5 DEF Feed!Publish, EntryIsActivity
<1> QED
  BY <1>1, <1>3, <1>4 DEF Record, IsNew

\* The activity table implements the feed: each activity once, in chain
\* order, without a gap, and never taken back by a reorg.
THEOREM Refinement == Spec => ImplementsActivityFeed
PROOF
<1>1. Init => Feed!Init
  BY DEF Init, Feed!Init
<1>2. ASSUME IInv, [Next]_vars
      PROVE  [Feed!Publish \/ Feed!Reorganise]_<<log, activity>>
  <2>1. LogOK
    BY <1>2 DEF IInv
  <2>2. CASE Chain
    <3>1. activity' = activity
      BY <2>2 DEF Chain, Transact, NextBlock, Reorg, Mint, Transfer, Buy, CreateListing,
                  CancelListing, CreateOffer, CancelOffer, AcceptOffer, Emit, tableVars
    <3>2. ChainKeeps
      BY <2>1, <2>2, TransactKeeps, NextBlockKeeps, ReorgKeeps DEF Chain
    <3> QED
      BY <1>2, <3>1, <3>2, ChainReorganises
  <2>3. ASSUME NEW w \in Workers, Record(w)
        PROVE  Feed!Publish \/ UNCHANGED <<log, activity>>
    BY <1>2, <2>3, RecordPublishes
  <2>4. ASSUME NEW w \in Workers,
               \/ Start(w) \/ Fetch(w) \/ Skip(w) \/ ApplyMirrorWrite(w)
               \/ Throw(w) \/ AdvanceCursor(w) \/ Abort(w) \/ Crash(w)
        PROVE  UNCHANGED <<log, activity>>
    BY <2>4 DEF Start, Fetch, Skip, ApplyMirrorWrite, Throw, AdvanceCursor, Abort, Crash,
                chainVars, tableVars
  <2>5. CASE UNCHANGED vars
    BY <2>5 DEF vars, chainVars, tableVars
  <2> QED
    BY <1>2, <2>2, <2>3, <2>4, <2>5 DEF Next, Step
<1> QED
  BY <1>1, <1>2, Invariance, PTL DEF Spec, ImplementsActivityFeed, Feed!Spec

----------------------------------------------------------------------------
(* Replaying a chain *)

(* Tables that the first m entries of a chain L leave, for every m up to n.    *)
Replays(h, L, n) ==
    h = [m \in 0..n |-> IF m = 0 THEN NoRows ELSE Replayed(h[m - 1], L[m].event, L[m].block)]

LEMMA ReplaysAgree ==
    ASSUME NEW L, NEW K, NEW n \in Nat, NEW k \in Nat, NEW h, NEW g, Replays(h, L, n), Replays(g, K, k),
           NEW j \in Nat, j <= n, j <= k, \A i \in 1..j : L[i] = K[i]
    PROVE  h[j] = g[j]
<1> DEFINE S == {m \in Nat : m <= j => h[m] = g[m]}
<1>1. 0 \in S
    BY DEF Replays
<1>2. ASSUME NEW m \in S \cap Nat PROVE m + 1 \in S
    <2> SUFFICES ASSUME m + 1 <= j PROVE h[m + 1] = g[m + 1]
        OBVIOUS
    <2>1. h[m] = g[m] /\ L[m + 1] = K[m + 1]
        BY <1>2
    <2>2. m + 1 \in 0..n /\ m + 1 \in 0..k /\ m + 1 # 0 /\ (m + 1) - 1 = m
        BY <1>2
    <2>3. h[m + 1] = Replayed(h[m], L[m + 1].event, L[m + 1].block)
        BY <2>2 DEF Replays
    <2>4. g[m + 1] = Replayed(g[m], K[m + 1].event, K[m + 1].block)
        BY <2>2 DEF Replays
    <2> QED
        BY <2>1, <2>3, <2>4
<1>3. Nat \subseteq S
    <2> HIDE DEF S
    <2> QED
        BY <1>1, <1>2, Induction
<1> QED
    BY <1>3

LEMMA ReplaysExist ==
    ASSUME NEW L, NEW n \in Nat PROVE \E h : Replays(h, L, n)
<1> DEFINE S == {m \in Nat : \E h : Replays(h, L, m)}
<1>1. 0 \in S
    <2>1. Replays([m \in 0..0 |-> NoRows], L, 0)
        BY DEF Replays
    <2> QED
        BY <2>1
<1>2. ASSUME NEW m \in S \cap Nat PROVE m + 1 \in S
    <2>1. PICK h : Replays(h, L, m)
        BY <1>2
    <2> DEFINE g == [i \in 0..(m + 1) |-> IF i <= m THEN h[i] ELSE Replayed(h[m], L[m + 1].event, L[m + 1].block)]
    <2>2. ASSUME NEW i \in 0..(m + 1)
          PROVE  g[i] = IF i = 0 THEN NoRows ELSE Replayed(g[i - 1], L[i].event, L[i].block)
        <3>1. CASE i = m + 1
            <4>1. g[i] = Replayed(h[m], L[m + 1].event, L[m + 1].block) /\ g[m] = h[m] /\ i - 1 = m /\ i # 0
                BY <3>1, <1>2
            <4> QED
                BY <4>1, <3>1
        <3>2. CASE i \in 0..m
            <4>1. g[i] = h[i] /\ (i # 0 => g[i - 1] = h[i - 1])
                BY <3>2, <1>2
            <4>2. h[i] = IF i = 0 THEN NoRows ELSE Replayed(h[i - 1], L[i].event, L[i].block)
                BY <3>2, <2>1 DEF Replays
            <4> HIDE DEF g
            <4> QED
                BY <4>1, <4>2
        <3> QED
            BY <2>2, <3>1, <3>2, <1>2
    <2>3. g = [i \in 0..(m + 1) |-> g[i]]
        OBVIOUS
    <2> HIDE DEF g
    <2>4. Replays(g, L, m + 1)
        BY <2>2, <2>3 DEF Replays
    <2> QED
        BY <2>4, <1>2
<1>3. Nat \subseteq S
    <2> HIDE DEF S
    <2> QED
        BY <1>1, <1>2, Induction
<1> QED
    BY <1>3

(* The function of Indexer is such a replay, of the whole chain.               *)
IsReplay(g, L) == g = [n \in Nat |-> IF n = 0 THEN NoRows ELSE Replayed(g[n - 1], L[n].event, L[n].block)]

LEMMA ReplayExists == ASSUME NEW L PROVE \E g : IsReplay(g, L)
<1> DEFINE chosen(n) == CHOOSE h : Replays(h, L, n)
           g == [n \in Nat |-> chosen(n)[n]]
<1>1. \A n \in Nat : Replays(chosen(n), L, n)
    BY ReplaysExist
<1>2. ASSUME NEW n \in Nat
      PROVE  g[n] = IF n = 0 THEN NoRows ELSE Replayed(g[n - 1], L[n].event, L[n].block)
    <2>1. Replays(chosen(n), L, n)
        BY <1>1
    <2>2. g[n] = chosen(n)[n]
        OBVIOUS
    <2>3. n # 0 => n - 1 \in Nat /\ g[n - 1] = chosen(n - 1)[n - 1] /\ Replays(chosen(n - 1), L, n - 1)
        BY <1>1
    <2> HIDE DEF chosen, g
    <2>4. chosen(n)[n] = IF n = 0 THEN NoRows ELSE Replayed(chosen(n)[n - 1], L[n].event, L[n].block)
        BY <2>1 DEF Replays
    <2>5. n # 0 => chosen(n)[n - 1] = chosen(n - 1)[n - 1]
        <3> SUFFICES ASSUME n # 0 PROVE chosen(n)[n - 1] = chosen(n - 1)[n - 1]
            OBVIOUS
        <3>1. n - 1 \in Nat /\ n - 1 <= n /\ n - 1 <= n - 1
            OBVIOUS
        <3> QED
            BY <3>1, <2>1, <2>3, ReplaysAgree
    <2> QED
        BY <2>2, <2>3, <2>4, <2>5
<1>3. g = [n \in Nat |-> g[n]]
    OBVIOUS
<1> HIDE DEF g
<1>4. IsReplay(g, L)
    BY <1>2, <1>3 DEF IsReplay
<1> QED
    BY <1>4

LEMMA ReplayIs == IsReplay(Replay, log)
<1>1. Replay = CHOOSE g : IsReplay(g, log)
    BY DEF Replay, IsReplay
<1> QED
    BY <1>1, ReplayExists
LEMMA ReplaySteps ==
    /\ Replay[0] = NoRows
    /\ \A n \in Nat : Replay[n + 1] = Replayed(Replay[n], log[n + 1].event, log[n + 1].block)
<1> QED
    BY ReplayIs DEF IsReplay

LEMMA ReplayFirst ==
    ASSUME NEW g, NEW L, IsReplay(g, L), NEW n \in Nat
    PROVE  Replays([m \in 0..n |-> g[m]], L, n)
<1> DEFINE h == [m \in 0..n |-> g[m]]
<1>1. ASSUME NEW m \in 0..n
      PROVE  h[m] = IF m = 0 THEN NoRows ELSE Replayed(h[m - 1], L[m].event, L[m].block)
    <2>1. m \in Nat /\ h[m] = g[m] /\ (m # 0 => h[m - 1] = g[m - 1])
        OBVIOUS
    <2>2. g[m] = IF m = 0 THEN NoRows ELSE Replayed(g[m - 1], L[m].event, L[m].block)
        BY <2>1 DEF IsReplay
    <2> HIDE DEF h
    <2> QED
        BY <2>1, <2>2
<1>2. h = [m \in 0..n |-> h[m]]
    OBVIOUS
<1> HIDE DEF h
<1>3. Replays(h, L, n)
    BY <1>1, <1>2 DEF Replays
<1> QED
    BY <1>3 DEF h

\* What a replay leaves is a matter of the entries replayed.
LEMMA ReplayPrefix ==
    ASSUME NEW n \in Nat, \A i \in 1..n : log'[i] = log[i]
    PROVE  Replay'[n] = Replay[n]
<1>1. IsReplay(Replay', log')
    <2>1. Replay' = CHOOSE g : IsReplay(g, log')
        BY DEF Replay, IsReplay
    <2> QED
        BY <2>1, ReplayExists
<1>2. PICK g, h, K : g = Replay' /\ h = Replay /\ K = log' /\ IsReplay(g, K) /\ IsReplay(h, log)
    BY <1>1, ReplayIs
<1> DEFINE f(q) == [m \in 0..n |-> q[m]]
<1>3. Replays(f(g), K, n) /\ Replays(f(h), log, n)
    BY <1>2, ReplayFirst
<1>4. f(g)[n] = g[n] /\ f(h)[n] = h[n] /\ \A i \in 1..n : K[i] = log[i]
    BY <1>2
<1> HIDE DEF f
<1>5. n <= n
    OBVIOUS
<1>6. f(g)[n] = f(h)[n]
    <2>1. PICK x, y : x = f(g) /\ y = f(h) /\ Replays(x, K, n) /\ Replays(y, log, n)
        BY <1>3
    <2>2. x[n] = y[n]
        BY <2>1, <1>4, <1>5, ReplaysAgree
    <2> QED
        BY <2>1, <2>2
<1> QED
    BY <1>2, <1>4, <1>6

\* Tables are four columns; the rows of components are only added to.
IsTables(m) == \E a, c, l, o : m = [nffc |-> a, components |-> c, listing |-> l, offer |-> o]

LEMMA AppliedTables ==
    ASSUME NEW m, IsTables(m), NEW e, NEW b
    PROVE  /\ IsTables(Applied(m, e, b))
           /\ m.components \subseteq Applied(m, e, b).components
           /\ e.kind = "NFFC_COMPOSITION_RECORDED" =>
                  /\ e.tokenId \in Applied(m, e, b).components
                  /\ e.tokenId \in m.components => Applied(m, e, b) = m
<1>1. PICK a, c, l, o : m = [nffc |-> a, components |-> c, listing |-> l, offer |-> o]
    BY DEF IsTables
<1>2. /\ m.components = c
      /\ \A x : [m EXCEPT !.components = x] = [nffc |-> a, components |-> x, listing |-> l, offer |-> o]
      /\ \A x : [m EXCEPT !.nffc = x] = [nffc |-> x, components |-> c, listing |-> l, offer |-> o]
      /\ \A x : [m EXCEPT !.listing = x] = [nffc |-> a, components |-> c, listing |-> x, offer |-> o]
      /\ \A x : [m EXCEPT !.offer = x] = [nffc |-> a, components |-> c, listing |-> l, offer |-> x]
    BY <1>1
<1>3. ASSUME NEW x, \/ x = m \/ \E y : x = [m EXCEPT !.nffc = y] \/ x = [m EXCEPT !.listing = y]
                                          \/ x = [m EXCEPT !.offer = y]
      PROVE  IsTables(x) /\ x.components = c
    BY <1>1, <1>2, <1>3 DEF IsTables
<1>4. CASE e.kind = "NFFC_COMPOSITION_RECORDED"
    <2>1. Applied(m, e, b) = [m EXCEPT !.components = c \cup {e.tokenId}]
        BY <1>2, <1>4 DEF Applied
    <2>2. Applied(m, e, b) = [nffc |-> a, components |-> c \cup {e.tokenId}, listing |-> l, offer |-> o]
        BY <2>1, <1>2
    <2>3. e.tokenId \in c => c \cup {e.tokenId} = c
        OBVIOUS
    <2>4. PICK x, d : x = Applied(m, e, b) /\ d = c \cup {e.tokenId}
        OBVIOUS
    <2>5. x = [nffc |-> a, components |-> d, listing |-> l, offer |-> o]
        BY <2>2, <2>4
    <2>6. IsTables(x) /\ x.components = d
        BY <2>5 DEF IsTables
    <2>7. c \subseteq d /\ e.tokenId \in d /\ (e.tokenId \in c => d = c)
        BY <2>3, <2>4
    <2>8. e.tokenId \in c => x = m
        BY <2>5, <2>7, <1>1
    <2> QED
        BY <1>2, <1>4, <2>4, <2>6, <2>7, <2>8
<1>5. CASE e.kind # "NFFC_COMPOSITION_RECORDED"
    <2>1. /\ MintRow(m, e, b) = m \/ \E y : MintRow(m, e, b) = [m EXCEPT !.nffc = y]
          /\ OwnerRow(m, e, b) = m \/ \E y : OwnerRow(m, e, b) = [m EXCEPT !.nffc = y]
        BY DEF MintRow, OwnerRow
    <2>2. /\ \E y : OpenedListing(m, e) = [m EXCEPT !.listing = y]
          /\ \A s : ClosedListing(m, e, s) = m \/ \E y : ClosedListing(m, e, s) = [m EXCEPT !.listing = y]
        BY DEF OpenedListing, ClosedListing
    <2>3. /\ OpenedOffer(m, e) = m \/ \E y : OpenedOffer(m, e) = [m EXCEPT !.offer = y]
          /\ \A s : ClosedOffer(m, e, s) = m \/ \E y : ClosedOffer(m, e, s) = [m EXCEPT !.offer = y]
        BY DEF OpenedOffer, ClosedOffer
    <2>4. \/ Applied(m, e, b) \in {MintRow(m, e, b), OwnerRow(m, e, b), OpenedListing(m, e), OpenedOffer(m, e)}
          \/ \E s : Applied(m, e, b) \in {ClosedListing(m, e, s), ClosedOffer(m, e, s)}
        BY <1>5 DEF Applied
    <2>5. PICK x : x = Applied(m, e, b)
        OBVIOUS
    <2>6. x = m \/ \E y : x = [m EXCEPT !.nffc = y] \/ x = [m EXCEPT !.listing = y]
                          \/ x = [m EXCEPT !.offer = y]
        BY <2>1, <2>2, <2>3, <2>4, <2>5
    <2> QED
        BY <1>2, <1>3, <1>5, <2>5, <2>6
<1> QED
    BY <1>4, <1>5

----------------------------------------------------------------------------
(* The tables are a replay *)

\* The first n entries are in the tables, and no other is.
ReplayedThrough(n) ==
    /\ n \in 0..Len(log)
    /\ mirror = Replay[n]
    /\ \A i \in 1..n :
           /\ log[i].block <= SafeHead
           /\ HasActivity(log[i].event) => Recorded(i)
           /\ log[i].event.kind = "NFFC_COMPOSITION_RECORDED" => log[i].event.tokenId \in mirror.components
    /\ \A i \in DOMAIN log : cursor # None /\ log[i].block <= cursor => i <= n
    /\ \A i \in DOMAIN log :
           i > n /\ Recorded(i) => \E w \in Workers : worker[w].pc = "mirror" /\ worker[w].next = i
    /\ \A w \in Workers :
           /\ worker[w].pc = "head" => \A i \in DOMAIN log : log[i].block < worker[w].from => i <= n
           /\ worker[w].pc = "loop" => worker[w].next <= n + 1
           /\ worker[w].pc = "mirror" => worker[w].next = n + 1

\* As long as no pass died.
ReplayIInv ==
    /\ crashes \in Nat
    /\ crashes = 0 => IsTables(mirror) /\ \E n : ReplayedThrough(n)

\* A step of the chain: what has been replayed is settled.
LEMMA ChainReplays ==
    ASSUME IInv, IInv', ChainKeeps, UNCHANGED <<tableVars, worker, crashes>>, ReplayIInv
    PROVE  ReplayIInv'
<1> SUFFICES ASSUME crashes = 0 PROVE IsTables(mirror') /\ \E n : ReplayedThrough(n)'
    BY DEF ReplayIInv
<1>1. cursor' = cursor /\ activity' = activity /\ worker' = worker /\ mirror' = mirror
    BY DEF tableVars
<1>2. PICK n : ReplayedThrough(n)
    BY DEF ReplayIInv
<1>3. \A i : Recorded(i)' <=> Recorded(i)
    BY <1>1 DEF Recorded
<1>4. /\ Len(log) \in Nat /\ DOMAIN log = 1..Len(log)
      /\ Len(log') \in Nat /\ DOMAIN log' = 1..Len(log')
    <2>1. LogOK /\ LogOK'
        BY DEF IInv
    <2> QED
        BY <2>1, LogType, LenProperties DEF LogOK
<1>5. n \in Nat /\ \A i \in 1..n : i \in DOMAIN log /\ Settled(i)
    BY <1>2, <1>4 DEF ReplayedThrough, Settled
<1>6. \A i \in 1..n : i \in DOMAIN log' /\ log'[i] = log[i]
    BY <1>5 DEF ChainKeeps
<1>7. n \in 0..Len(log')
    <2>1. n # 0 => n \in 1..n
        BY <1>5
    <2> QED
        BY <2>1, <1>4, <1>5, <1>6
<1>8. mirror' = Replay'[n]
    BY <1>1, <1>2, <1>5, <1>6, ReplayPrefix DEF ReplayedThrough
<1>9. SafeHead \in Nat /\ SafeHead' \in Nat /\ SafeHead <= SafeHead'
    <2>1. block' \in Nat \ {0}
        BY DEF IInv, LogOK
    <2>2. SafeHead' \in Nat
        BY <2>1, HeadType DEF SafeHead, Latest
    <2> QED
        BY <2>2, SafeHeadType DEF ChainKeeps, IInv
<1>10. ASSUME NEW i \in 1..n
       PROVE  /\ log'[i].block <= SafeHead'
              /\ HasActivity(log'[i].event) => Recorded(i)
              /\ log'[i].event.kind = "NFFC_COMPOSITION_RECORDED" => log'[i].event.tokenId \in mirror.components
    <2>1. log'[i] = log[i] /\ log[i].block <= SafeHead /\ log[i].block \in Nat
        BY <1>2, <1>5, <1>6 DEF ReplayedThrough, IInv, LogOK
    <2>2. log[i].block <= SafeHead'
        BY <2>1, <1>9
    <2> QED
        BY <2>1, <2>2, <1>2 DEF ReplayedThrough
<1>11. \A i \in DOMAIN log' : log'[i].block \in Nat
    BY DEF IInv, LogOK
<1>12. ASSUME NEW i \in DOMAIN log', cursor # None, log'[i].block <= cursor PROVE i <= n
    <2>1. cursor \in Nat /\ cursor <= SafeHead
        BY <1>12 DEF IInv, CursorOK
    <2>2. log'[i].block <= SafeHead
        BY <2>1, <1>9, <1>11, <1>12
    <2>3. i \in DOMAIN log /\ log'[i] = log[i]
        BY <2>2 DEF ChainKeeps
    <2> QED
        BY <2>3, <1>2, <1>12 DEF ReplayedThrough
<1>13. ASSUME NEW i \in DOMAIN log', i > n, Recorded(i)
       PROVE  \E w \in Workers : worker[w].pc = "mirror" /\ worker[w].next = i
    <2>1. i \in DOMAIN log
        <3>1. PICK k \in DOMAIN activity : activity[k] = i
            BY <1>13 DEF Recorded
        <3> QED
            BY <3>1, ElementOfSeq, LenProperties DEF IInv, FeedOK
    <2> QED
        BY <2>1, <1>2, <1>13 DEF ReplayedThrough
<1>14. ASSUME NEW w \in Workers
       PROVE  /\ worker[w].pc = "head" => \A i \in DOMAIN log' : log'[i].block < worker[w].from => i <= n
              /\ worker[w].pc = "loop" => worker[w].next <= n + 1
              /\ worker[w].pc = "mirror" => worker[w].next = n + 1
    <2>1. ASSUME worker[w].pc = "head", NEW i \in DOMAIN log', log'[i].block < worker[w].from PROVE i <= n
        <3>1. worker[w].from \in Nat /\ worker[w].from <= SafeHead
            BY <2>1 DEF IInv, WorkersOK, WorkerOK, Locals
        <3>2. log'[i].block <= SafeHead
            BY <3>1, <2>1, <1>9, <1>11
        <3>3. i \in DOMAIN log /\ log'[i] = log[i]
            BY <3>2 DEF ChainKeeps
        <3> QED
            BY <3>3, <1>2, <2>1 DEF ReplayedThrough
    <2> QED
        BY <2>1, <1>2 DEF ReplayedThrough
<1>15. ReplayedThrough(n)'
    BY <1>1, <1>3, <1>7, <1>8, <1>10, <1>12, <1>13, <1>14 DEF ReplayedThrough
<1> QED
    BY <1>1, <1>15 DEF ReplayIInv

\* One process at a time: no pass is started while another runs.
OneProcess == \E w : Workers = {w}

\* What a step of the one pass w has to keep, its locals then being l.
LEMMA PassReplays ==
    ASSUME IInv, NEW w, Workers = {w}, NEW l, worker'[w] = l, UNCHANGED chainVars,
           NEW n \in 0..Len(log), mirror' = Replay[n],
           \A i \in 1..n :
               /\ log[i].block <= SafeHead
               /\ HasActivity(log[i].event) => Recorded(i)'
               /\ log[i].event.kind = "NFFC_COMPOSITION_RECORDED" => log[i].event.tokenId \in mirror'.components,
           \A i \in DOMAIN log : cursor' # None /\ log[i].block <= cursor' => i <= n,
           \A i \in DOMAIN log : i > n /\ Recorded(i)' => l.pc = "mirror" /\ l.next = i,
           l.pc = "head" => \A i \in DOMAIN log : log[i].block < l.from => i <= n,
           l.pc = "loop" => l.next <= n + 1,
           l.pc = "mirror" => l.next = n + 1
    PROVE  ReplayedThrough(n)'
<1>1. log' = log /\ SafeHead' = SafeHead
    BY DEF chainVars, SafeHead, Latest
<1>2. n \in Nat
    BY LogType DEF IInv
<1>3. Replay'[n] = Replay[n]
    BY <1>1, <1>2, ReplayPrefix
<1>4. \A i \in 1..n : /\ log'[i].block <= SafeHead'
                      /\ HasActivity(log'[i].event) => Recorded(i)'
                      /\ log'[i].event.kind = "NFFC_COMPOSITION_RECORDED" =>
                             log'[i].event.tokenId \in mirror'.components
    BY <1>1
<1>5. \A i \in DOMAIN log' : i > n /\ Recorded(i)' =>
           \E x \in Workers : worker'[x].pc = "mirror" /\ worker'[x].next = i
    BY <1>1
<1>6. \A x \in Workers :
           /\ worker'[x].pc = "head" => \A i \in DOMAIN log' : log'[i].block < worker'[x].from => i <= n
           /\ worker'[x].pc = "loop" => worker'[x].next <= n + 1
           /\ worker'[x].pc = "mirror" => worker'[x].next = n + 1
    BY <1>1
<1> QED
    BY <1>1, <1>3, <1>4, <1>5, <1>6 DEF ReplayedThrough

\* A step that writes nothing.
LEMMA ReadingReplays ==
    ASSUME IInv, NEW w, Workers = {w}, NEW l, worker'[w] = l, UNCHANGED <<chainVars, cursor, activity, mirror>>,
           NEW n, ReplayedThrough(n), worker[w].pc # "mirror",
           l.pc = "head" => \A i \in DOMAIN log : log[i].block < l.from => i <= n,
           l.pc = "loop" => l.next <= n + 1,
           l.pc # "mirror"
    PROVE  ReplayedThrough(n)'
<1>1. n \in 0..Len(log) /\ mirror' = Replay[n] /\ cursor' = cursor
    BY DEF ReplayedThrough
<1>2. \A i : Recorded(i)' <=> Recorded(i)
    BY DEF Recorded
<1>3. \A i \in 1..n :
           /\ log[i].block <= SafeHead
           /\ HasActivity(log[i].event) => Recorded(i)'
           /\ log[i].event.kind = "NFFC_COMPOSITION_RECORDED" => log[i].event.tokenId \in mirror'.components
    BY <1>2 DEF ReplayedThrough
<1>4. \A i \in DOMAIN log : cursor' # None /\ log[i].block <= cursor' => i <= n
    BY <1>1 DEF ReplayedThrough
<1>5. \A i \in DOMAIN log : i > n /\ Recorded(i)' => l.pc = "mirror" /\ l.next = i
    BY <1>2 DEF ReplayedThrough
<1> QED
    BY <1>1, <1>3, <1>4, <1>5, PassReplays

LEMMA StartReplays ==
    ASSUME IInv, NEW w, Workers = {w}, Start(w), NEW n, ReplayedThrough(n) PROVE ReplayedThrough(n)'
<1>1. /\ worker[w].pc = "stopped" /\ worker' = [worker EXCEPT ![w] = At("head", FirstBlock, 0, 0)]
      /\ UNCHANGED <<chainVars, cursor, activity, mirror>>
    BY DEF Start, tableVars
<1> DEFINE l == At("head", FirstBlock, 0, 0)
<1>2. worker'[w] = l /\ l.pc = "head" /\ l.from = FirstBlock
    BY <1>1 DEF IInv, WorkersOK, At
<1>3. ASSUME NEW i \in DOMAIN log, log[i].block < FirstBlock PROVE i <= n
    <2>1. log[i].block \in Nat
        BY DEF IInv, LogOK
    <2>2. cursor \in Nat \cup {None}
        BY DEF IInv, CursorOK
    <2>3. cursor # None /\ log[i].block <= cursor
        BY <1>3, <2>1, <2>2, IndexerAssumption DEF FirstBlock
    <2> QED
        BY <2>3 DEF ReplayedThrough
<1> HIDE DEF l
<1>4. l.pc # "mirror" /\ l.pc # "loop" /\ worker[w].pc # "mirror"
    BY <1>1, <1>2
<1> QED
    BY <1>1, <1>2, <1>3, <1>4, ReadingReplays

\* A pass that ends, or is stopped, between two writes.
LEMMA StopReplays ==
    ASSUME IInv, NEW w, Workers = {w}, worker' = [worker EXCEPT ![w] = Stopped], worker[w].pc # "mirror",
           UNCHANGED <<chainVars, cursor, activity, mirror>>, NEW n, ReplayedThrough(n)
    PROVE  ReplayedThrough(n)'
<1>1. worker'[w] = Stopped /\ Stopped.pc = "stopped"
    BY DEF IInv, WorkersOK, Stopped, At
<1>2. PICK l : l = Stopped /\ worker'[w] = l /\ l.pc # "mirror" /\ l.pc # "loop" /\ l.pc # "head"
    BY <1>1
<1> QED
    BY <1>2, ReadingReplays

LEMMA FetchReplays ==
    ASSUME IInv, NEW w, Workers = {w}, Fetch(w), NEW n, ReplayedThrough(n) PROVE ReplayedThrough(n)'
<1>1. worker[w].pc = "head" /\ UNCHANGED <<chainVars, cursor, activity, mirror>>
    BY DEF Fetch, tableVars
<1>2. CASE worker' = [worker EXCEPT ![w] = Stopped]
    BY <1>1, <1>2, StopReplays
<1>3. CASE \E first \in 1..Len(log) + 1 :
               /\ FirstFrom(worker[w].from, first)
               /\ worker' = [worker EXCEPT ![w] = At("loop", worker[w].from, LastBlock(worker[w].from), first)]
    <2>1. PICK first \in 1..Len(log) + 1 :
               /\ FirstFrom(worker[w].from, first)
               /\ worker' = [worker EXCEPT ![w] = At("loop", worker[w].from, LastBlock(worker[w].from), first)]
        BY <1>3
    <2>2. worker'[w] = At("loop", worker[w].from, LastBlock(worker[w].from), first)
        BY <2>1 DEF IInv, WorkersOK
    <2>3. PICK l : worker'[w] = l /\ l.pc = "loop" /\ l.next = first
        BY <2>2 DEF At
    <2>4. first <= n + 1
        <3>1. Len(log) \in Nat /\ DOMAIN log = 1..Len(log) /\ n \in 0..Len(log)
            BY LogType DEF IInv, ReplayedThrough
        <3>2. \A i \in 1..first - 1 : i \in DOMAIN log /\ log[i].block < worker[w].from
            BY <2>1, <3>1 DEF FirstFrom
        <3>3. \A i \in 1..first - 1 : i <= n
            BY <3>2, <1>1 DEF ReplayedThrough
        <3>4. first > n + 1 => n + 1 \in 1..first - 1
            BY <3>1
        <3> QED
            BY <3>1, <3>3, <3>4
    <2>5. l.pc # "mirror" /\ l.pc # "head" /\ worker[w].pc # "mirror" /\ l.next <= n + 1
        BY <1>1, <2>3, <2>4
    <2> QED
        BY <1>1, <2>3, <2>5, ReadingReplays
<1> QED
    BY <1>2, <1>3 DEF Fetch

\* An entry that changes no table is passed over, or counted in.
LEMMA SkipReplays ==
    ASSUME IInv, NEW w, Workers = {w}, Skip(w), NEW n, ReplayedThrough(n)
    PROVE  \E m : ReplayedThrough(m)'
<1>1. PICK k \in Locals : worker[w] = k
    BY DEF IInv, WorkersOK
<1>2. /\ k.pc = "loop" /\ ~Done(w) /\ ~HasActivity(log[k.next].event) /\ ~HasMirror(log[k.next].event)
      /\ UNCHANGED <<chainVars, cursor, activity, mirror>> /\ worker' = Pass(w)
    BY <1>1 DEF Skip, AtEvent, Current, tableVars
<1>3. k.next \in DOMAIN log /\ log[k.next].block <= SafeHead /\ k.next \in Nat
    BY <1>1, <1>2, AtEntry DEF Locals
<1>4. PICK l : worker'[w] = l /\ l.pc = "loop" /\ l.next = k.next + 1
    BY <1>1, <1>2 DEF Pass, IInv, WorkersOK, Locals
<1>5. n \in Nat /\ n \in 0..Len(log) /\ DOMAIN log = 1..Len(log) /\ Len(log) \in Nat /\ k.next <= n + 1
    BY <1>1, <1>2, LogType DEF IInv, ReplayedThrough
<1>6. worker[w].pc # "mirror" /\ l.pc # "mirror" /\ l.pc # "head"
    BY <1>1, <1>2, <1>4
<1>7. CASE k.next <= n
    <2>1. l.next <= n + 1
        BY <1>3, <1>4, <1>5, <1>7
    <2> QED
        BY <2>1, <1>2, <1>4, <1>6, ReadingReplays
<1>8. CASE k.next = n + 1
    <2>1. Replay[n + 1] = Replay[n]
        BY <1>2, <1>5, <1>8, ReplaySteps DEF Replayed
    <2>2. log[k.next].event.kind # "NFFC_COMPOSITION_RECORDED"
        BY <1>2 DEF HasMirror, IsMintTransfer
    <2>3. ReplayedThrough(n + 1)
        <3>1. n + 1 \in 0..Len(log) /\ mirror = Replay[n + 1]
            BY <1>3, <1>5, <1>8, <2>1 DEF ReplayedThrough
        <3>2. \A i \in 1..(n + 1) :
                  /\ log[i].block <= SafeHead
                  /\ HasActivity(log[i].event) => Recorded(i)
                  /\ log[i].event.kind = "NFFC_COMPOSITION_RECORDED" => log[i].event.tokenId \in mirror.components
            <4>1. \A i \in 1..(n + 1) : i \in 1..n \/ i = k.next
                BY <1>5, <1>8
            <4> QED
                BY <4>1, <1>2, <1>3, <2>2 DEF ReplayedThrough
        <3>3. \A i \in DOMAIN log : i <= n => i <= n + 1
            BY <1>5
        <3>4. \A i \in DOMAIN log : i > n + 1 => i > n
            BY <1>5
        <3>5. \A x \in Workers :
                  /\ worker[x].pc = "head" => \A i \in DOMAIN log : log[i].block < worker[x].from => i <= n + 1
                  /\ worker[x].pc = "loop" => worker[x].next <= (n + 1) + 1
                  /\ worker[x].pc = "mirror" => worker[x].next = (n + 1) + 1
            BY <1>1, <1>2, <1>3, <1>5, <1>8
        <3> QED
            BY <3>1, <3>2, <3>3, <3>4, <3>5 DEF ReplayedThrough
    <2>4. l.next <= (n + 1) + 1
        BY <1>4, <1>5, <1>8
    <2>5. PICK m : m = n + 1
        OBVIOUS
    <2> QED
        BY <2>3, <2>4, <2>5, <1>2, <1>4, <1>6, ReadingReplays
<1> QED
    BY <1>3, <1>5, <1>7, <1>8

LEMMA RecordReplays ==
    ASSUME IInv, NEW w, Workers = {w}, Record(w), NEW n, ReplayedThrough(n)
    PROVE  ReplayedThrough(n)'
<1>1. PICK k \in Locals : worker[w] = k
    BY DEF IInv, WorkersOK
<1>2. /\ k.pc = "loop" /\ ~Done(w) /\ HasActivity(log[k.next].event)
      /\ UNCHANGED <<chainVars, cursor, mirror>>
    BY <1>1 DEF Record, AtEvent, Current
<1>3. k.next \in DOMAIN log /\ k.next \in Nat
    BY <1>1, <1>2, AtEntry DEF Locals
<1>4. n \in Nat /\ n \in 0..Len(log) /\ DOMAIN log = 1..Len(log) /\ Len(log) \in Nat /\ k.next <= n + 1
    BY <1>1, <1>2, LogType DEF IInv, ReplayedThrough
<1>5. CASE Recorded(k.next) /\ worker' = Pass(w) /\ UNCHANGED activity
    <2>1. k.next <= n
        BY <1>1, <1>2, <1>3, <1>5 DEF ReplayedThrough
    <2>2. PICK l : worker'[w] = l /\ l.pc = "loop" /\ l.next = k.next + 1
        BY <1>1, <1>5 DEF Pass, IInv, WorkersOK, Locals
    <2>3. l.next <= n + 1 /\ worker[w].pc # "mirror" /\ l.pc # "mirror" /\ l.pc # "head"
        BY <1>1, <1>2, <1>3, <1>4, <2>1, <2>2
    <2> QED
        BY <1>2, <1>5, <2>2, <2>3, ReadingReplays
<1>6. CASE /\ ~Recorded(k.next)
           /\ activity' = Append(activity, k.next)
           /\ worker' = [worker EXCEPT ![w].pc = "mirror"]
    <2>1. k.next = n + 1
        <3>1. k.next <= n => k.next \in 1..n
            BY <1>3, <1>4
        <3>2. ~(k.next <= n)
            BY <3>1, <1>2, <1>6 DEF ReplayedThrough
        <3> QED
            BY <3>2, <1>3, <1>4
    <2>2. PICK l : worker'[w] = l /\ l.pc = "mirror" /\ l.next = k.next
        BY <1>1, <1>6 DEF IInv, WorkersOK, Locals
    <2>3. activity \in Seq(DOMAIN log)
        BY DEF IInv, FeedOK
    <2>4. /\ Len(activity) \in Nat /\ DOMAIN activity = 1..Len(activity)
          /\ DOMAIN activity' = 1..Len(activity) + 1
          /\ \A j \in 1..Len(activity) : activity'[j] = activity[j]
          /\ activity'[Len(activity) + 1] = k.next
        BY <1>3, <1>6, <2>3, AppendProperties, LenProperties
    <2>5. (\A i : Recorded(i) => Recorded(i)') /\ (\A i : Recorded(i)' => Recorded(i) \/ i = k.next)
        BY <2>4, SMT DEF Recorded
    <2>6. cursor' = cursor /\ mirror' = mirror /\ mirror' = Replay[n]
        BY <1>2 DEF ReplayedThrough
    <2>7. \A i \in 1..n :
               /\ log[i].block <= SafeHead
               /\ HasActivity(log[i].event) => Recorded(i)'
               /\ log[i].event.kind = "NFFC_COMPOSITION_RECORDED" => log[i].event.tokenId \in mirror'.components
        BY <2>5, <2>6 DEF ReplayedThrough
    <2>8. \A i \in DOMAIN log : cursor' # None /\ log[i].block <= cursor' => i <= n
        BY <2>6 DEF ReplayedThrough
    <2>9. \A i \in DOMAIN log : i > n /\ Recorded(i)' => l.pc = "mirror" /\ l.next = i
        <3>1. \A i \in DOMAIN log : i > n => ~Recorded(i)
            BY <1>1, <1>2 DEF ReplayedThrough
        <3> QED
            BY <3>1, <2>2, <2>5
    <2>10. UNCHANGED chainVars /\ l.next = n + 1 /\ l.pc = "mirror"
        BY <1>2, <2>1, <2>2
    <2> QED
        BY <1>4, <2>2, <2>6, <2>7, <2>8, <2>9, <2>10, PassReplays
<1> QED
    BY <1>1, <1>5, <1>6 DEF Record, IsNew

\* The pass has written, or could not write, entry n + 1, and goes on to l.
LEMMA EntryReplays ==
    ASSUME IInv, NEW w, Workers = {w}, NEW l, worker'[w] = l, UNCHANGED <<chainVars, cursor, activity>>,
           NEW n, ReplayedThrough(n), n + 1 \in DOMAIN log, log[n + 1].block <= SafeHead,
           HasActivity(log[n + 1].event) => Recorded(n + 1),
           worker[w].pc = "mirror" => worker[w].next = n + 1,
           IsTables(mirror),
           mirror' = Replayed(mirror, log[n + 1].event, log[n + 1].block),
           Rejected(mirror, log[n + 1].event) => HasActivity(log[n + 1].event),
           l.pc = "loop" => l.next <= (n + 1) + 1, l.pc # "head", l.pc # "mirror"
    PROVE  IsTables(mirror') /\ ReplayedThrough(n + 1)'
<1>1. n \in Nat /\ n \in 0..Len(log) /\ DOMAIN log = 1..Len(log) /\ Len(log) \in Nat
    BY LogType DEF IInv, ReplayedThrough
<1>2. PICK m : m = n + 1 /\ m \in 0..Len(log)
    BY <1>1
<1>3. mirror' = Replay[m]
    BY <1>1, <1>2, ReplaySteps DEF ReplayedThrough
<1>4. \A i : Recorded(i)' <=> Recorded(i)
    BY DEF Recorded
<1> DEFINE e == log[m].event
           b == log[m].block
<1>5. /\ IsTables(mirror') /\ mirror.components \subseteq mirror'.components
      /\ e.kind = "NFFC_COMPOSITION_RECORDED" => e.tokenId \in mirror'.components
    <2>1. CASE ~HasMirror(e) \/ Rejected(mirror, e)
        <3>1. mirror' = mirror
            BY <1>2, <2>1 DEF Replayed
        <3>2. e.kind # "NFFC_COMPOSITION_RECORDED"
            BY <1>2, <2>1 DEF HasMirror, IsMintTransfer, HasActivity
        <3> QED
            BY <3>1, <3>2
    <2>2. CASE HasMirror(e) /\ ~Rejected(mirror, e)
        <3>1. mirror' = Applied(mirror, e, b)
            BY <1>2, <2>2 DEF Replayed
        <3> QED
            BY <3>1, AppliedTables
    <2> QED
        BY <2>1, <2>2
<1>6. \A i \in 1..m :
          /\ log[i].block <= SafeHead
          /\ HasActivity(log[i].event) => Recorded(i)'
          /\ log[i].event.kind = "NFFC_COMPOSITION_RECORDED" => log[i].event.tokenId \in mirror'.components
    <2>1. \A i \in 1..m : i \in 1..n \/ i = m
        BY <1>1, <1>2
    <2>2. \A i \in 1..n :
              /\ log[i].block <= SafeHead
              /\ HasActivity(log[i].event) => Recorded(i)'
              /\ log[i].event.kind = "NFFC_COMPOSITION_RECORDED" => log[i].event.tokenId \in mirror'.components
        BY <1>4, <1>5 DEF ReplayedThrough
    <2>3. /\ log[m].block <= SafeHead
          /\ HasActivity(log[m].event) => Recorded(m)'
          /\ log[m].event.kind = "NFFC_COMPOSITION_RECORDED" => log[m].event.tokenId \in mirror'.components
        BY <1>2, <1>4, <1>5
    <2> QED
        BY <2>1, <2>2, <2>3
<1>7. \A i \in DOMAIN log : cursor' # None /\ log[i].block <= cursor' => i <= m
    <2>1. \A i \in DOMAIN log : i <= n => i <= m
        BY <1>1, <1>2
    <2> QED
        BY <2>1 DEF ReplayedThrough
<1>8. \A i \in DOMAIN log : i > m /\ Recorded(i)' => l.pc = "mirror" /\ l.next = i
    <2>1. \A i \in DOMAIN log : i > m => i > n /\ i # n + 1
        BY <1>1, <1>2
    <2> QED
        BY <2>1, <1>4 DEF ReplayedThrough
<1>9. l.pc = "loop" => l.next <= m + 1
    BY <1>2
<1>10. UNCHANGED chainVars
    OBVIOUS
<1>11. ReplayedThrough(m)'
    BY <1>2, <1>3, <1>6, <1>7, <1>8, <1>9, <1>10, PassReplays
<1> QED
    BY <1>2, <1>5, <1>11

LEMMA WriteReplays ==
    ASSUME IInv, NEW w, Workers = {w}, ApplyMirrorWrite(w), NEW n, ReplayedThrough(n), IsTables(mirror)
    PROVE  IsTables(mirror') /\ \E m : ReplayedThrough(m)'
<1>1. PICK k \in Locals : worker[w] = k
    BY DEF IInv, WorkersOK
<1> DEFINE e == log[k.next].event
<1>2. /\ \/ k.pc = "mirror"
         \/ k.pc = "loop" /\ ~Done(w) /\ ~HasActivity(e) /\ HasMirror(e)
      /\ ~Rejected(mirror, e) /\ mirror' = Applied(mirror, e, log[k.next].block)
      /\ UNCHANGED <<chainVars, cursor, activity>> /\ worker' = Pass(w)
    BY <1>1 DEF ApplyMirrorWrite, AtMirror, AtEvent, Current
<1>3. k.next \in DOMAIN log /\ log[k.next].block <= SafeHead /\ k.next \in Nat
    BY <1>1, <1>2, AtEntry DEF Locals
<1>4. PICK l : worker'[w] = l /\ l.pc = "loop" /\ l.next = k.next + 1
    BY <1>1, <1>2 DEF Pass, IInv, WorkersOK, Locals
<1>5. n \in Nat /\ n \in 0..Len(log) /\ DOMAIN log = 1..Len(log) /\ Len(log) \in Nat
    BY LogType DEF IInv, ReplayedThrough
<1>6. /\ k.pc = "loop" => k.next <= n + 1
      /\ k.pc = "mirror" => k.next = n + 1 /\ Recorded(k.next)
    BY <1>1 DEF ReplayedThrough, IInv, WorkersOK, WorkerOK
<1>7. HasMirror(e)
    <2>1. CASE k.pc = "mirror"
        <3>1. HasActivity(e)
            BY <1>3, <1>6, <2>1 DEF IInv, FeedOK
        <3> QED
            BY <3>1 DEF HasActivity, HasMirror
    <2> QED
        BY <2>1, <1>2
<1>8. CASE k.next = n + 1
    <2>1. mirror' = Replayed(mirror, log[n + 1].event, log[n + 1].block)
        BY <1>2, <1>7, <1>8 DEF Replayed
    <2>2. HasActivity(log[n + 1].event) => Recorded(n + 1)
        BY <1>2, <1>6, <1>8
    <2>3. worker[w].pc = "mirror" => worker[w].next = n + 1
        BY <1>1, <1>8
    <2>4. ~Rejected(mirror, log[n + 1].event) /\ l.next <= (n + 1) + 1 /\ l.pc # "head" /\ l.pc # "mirror"
          /\ n + 1 \in DOMAIN log /\ log[n + 1].block <= SafeHead
        BY <1>2, <1>3, <1>4, <1>5, <1>8
    <2> QED
        BY <2>1, <2>2, <2>3, <2>4, <1>2, <1>4, EntryReplays
<1>9. CASE k.next <= n
    <2>1. k.pc = "loop" /\ ~HasActivity(e) /\ HasMirror(e)
        BY <1>2, <1>5, <1>6, <1>9
    <2>2. e.kind = "NFFC_COMPOSITION_RECORDED"
        BY <2>1 DEF HasActivity, HasMirror
    <2>3. k.next \in 1..n
        BY <1>3, <1>5, <1>9
    <2>4. e.tokenId \in mirror.components
        BY <2>2, <2>3 DEF ReplayedThrough
    <2>5. mirror' = mirror
        BY <1>2, <2>2, <2>4, AppliedTables
    <2>6. worker[w].pc # "mirror" /\ l.pc # "mirror" /\ l.pc # "head" /\ l.next <= n + 1
        BY <1>1, <1>3, <1>4, <1>5, <1>9, <2>1
    <2>7. UNCHANGED <<chainVars, cursor, activity, mirror>>
        BY <1>2, <2>5
    <2> QED
        BY <2>5, <2>6, <2>7, <1>4, ReadingReplays
<1> QED
    BY <1>1, <1>2, <1>3, <1>5, <1>6, <1>8, <1>9

LEMMA ThrowReplays ==
    ASSUME IInv, NEW w, Workers = {w}, Throw(w), NEW n, ReplayedThrough(n), IsTables(mirror)
    PROVE  \E m : ReplayedThrough(m)'
<1>1. PICK k \in Locals : worker[w] = k
    BY DEF IInv, WorkersOK
<1>2. UNCHANGED <<chainVars, cursor, activity, mirror>> /\ worker' = [worker EXCEPT ![w] = Stopped]
    BY DEF Throw, tableVars
<1>3. CASE k.pc # "mirror"
    BY <1>1, <1>2, <1>3, StopReplays
<1>4. CASE k.pc = "mirror"
    <2>1. Rejected(mirror, log[k.next].event)
        BY <1>1, <1>4 DEF Throw, AtEvent, Current
    <2>2. k.next = n + 1 /\ Recorded(k.next) /\ k.next \in DOMAIN log /\ log[k.next].block <= SafeHead
        BY <1>1, <1>4, AtEntry DEF ReplayedThrough, IInv, WorkersOK, WorkerOK
    <2>3. HasActivity(log[k.next].event)
        BY <2>2 DEF IInv, FeedOK
    <2>4. mirror' = Replayed(mirror, log[n + 1].event, log[n + 1].block)
        BY <1>2, <2>1, <2>2 DEF Replayed
    <2>5. worker'[w] = Stopped /\ Stopped.pc = "stopped"
        BY <1>2 DEF IInv, WorkersOK, Stopped, At
    <2>6. PICK l : worker'[w] = l /\ l.pc # "loop" /\ l.pc # "head" /\ l.pc # "mirror"
        BY <2>5
    <2>7. /\ n + 1 \in DOMAIN log /\ log[n + 1].block <= SafeHead
          /\ HasActivity(log[n + 1].event) /\ Recorded(n + 1) /\ worker[w].next = n + 1
        BY <1>1, <2>2, <2>3
    <2> QED
        BY <1>2, <2>4, <2>6, <2>7, EntryReplays
<1> QED
    BY <1>3, <1>4

\* The cursor moves to the end of a batch that is through.
LEMMA CursorReplays ==
    ASSUME IInv, NEW w, Workers = {w}, AdvanceCursor(w), NEW n, ReplayedThrough(n)
    PROVE  ReplayedThrough(n)'
<1>1. PICK k \in Locals : worker[w] = k
    BY DEF IInv, WorkersOK
<1>2. /\ k.pc = "loop" /\ Done(w) /\ cursor' = k.to /\ worker' = [worker EXCEPT ![w] = Stopped]
      /\ UNCHANGED <<chainVars, activity, mirror>>
    BY <1>1 DEF AdvanceCursor, BatchFinished
<1>3. k.next \in Nat /\ k.to \in Nat
    BY DEF Locals
<1>4. n \in Nat /\ n \in 0..Len(log) /\ DOMAIN log = 1..Len(log) /\ Len(log) \in Nat /\ k.next <= n + 1
    BY <1>1, <1>2, LogType DEF IInv, ReplayedThrough
<1>5. ASSUME NEW i \in DOMAIN log, log[i].block <= k.to PROVE i <= n
    <2> SUFFICES ASSUME k.next <= i PROVE FALSE
        BY <1>3, <1>4
    <2>1. k.next <= Len(log) /\ log[k.next].block > k.to
        BY <1>1, <1>2, <1>3, <1>4 DEF Done
    <2>2. k.next >= 1
        BY <1>1, <1>2 DEF IInv, WorkersOK, WorkerOK, ThroughEntry
    <2>3. k.next \in DOMAIN log
        BY <1>3, <1>4, <2>1, <2>2
    <2>4. log[k.next].block <= log[i].block
        BY <2>3, <1>3, <1>4 DEF IInv, LogOK
    <2>5. log[k.next].block \in Nat /\ log[i].block \in Nat
        BY <2>3 DEF IInv, LogOK
    <2> QED
        BY <2>1, <2>4, <2>5, <1>3, <1>5
<1>6. PICK l : worker'[w] = l /\ l.pc # "mirror" /\ l.pc # "loop" /\ l.pc # "head"
    BY <1>2 DEF IInv, WorkersOK, Stopped, At
<1>7. \A i : Recorded(i)' <=> Recorded(i)
    BY <1>2 DEF Recorded
<1>8. \A i \in 1..n :
           /\ log[i].block <= SafeHead
           /\ HasActivity(log[i].event) => Recorded(i)'
           /\ log[i].event.kind = "NFFC_COMPOSITION_RECORDED" => log[i].event.tokenId \in mirror'.components
    BY <1>2, <1>7 DEF ReplayedThrough
<1>9. \A i \in DOMAIN log : i > n /\ Recorded(i)' => l.pc = "mirror" /\ l.next = i
    BY <1>1, <1>2, <1>7 DEF ReplayedThrough
<1>10. mirror' = Replay[n]
    BY <1>2 DEF ReplayedThrough
<1>11. \A i \in DOMAIN log : cursor' # None /\ log[i].block <= cursor' => i <= n
    BY <1>2, <1>5
<1> QED
    BY <1>2, <1>4, <1>6, <1>8, <1>9, <1>10, <1>11, PassReplays

LEMMA WorkerReplays ==
    ASSUME IInv, NEW w, Workers = {w}, Step(w) \/ Abort(w), IsTables(mirror), NEW n, ReplayedThrough(n)
    PROVE  IsTables(mirror') /\ \E m : ReplayedThrough(m)'
<1>1. CASE ApplyMirrorWrite(w)
    BY <1>1, WriteReplays
<1>2. CASE ~ApplyMirrorWrite(w)
    <2>1. mirror' = mirror
        BY <1>2 DEF Step, Start, Fetch, Skip, Record, Throw, AdvanceCursor, Abort, tableVars
    <2>2. CASE Abort(w)
        <3>1. /\ worker[w].pc # "mirror" /\ worker' = [worker EXCEPT ![w] = Stopped]
              /\ UNCHANGED <<chainVars, cursor, activity, mirror>>
            BY <2>2 DEF Abort, AtEvent, tableVars
        <3> QED
            BY <3>1, <2>1, StopReplays
    <2>3. CASE Start(w) \/ Fetch(w) \/ Record(w) \/ AdvanceCursor(w)
        <3>1. ReplayedThrough(n)'
            BY <2>3, StartReplays, FetchReplays, RecordReplays, CursorReplays
        <3> QED
            BY <3>1, <2>1
    <2>4. CASE Skip(w) \/ Throw(w)
        <3>1. \E m : ReplayedThrough(m)'
            BY <2>4, SkipReplays, ThrowReplays
        <3> QED
            BY <3>1, <2>1
    <2> QED
        BY <1>2, <2>2, <2>3, <2>4 DEF Step
<1> QED
    BY <1>1, <1>2

LEMMA ReplayStep == OneProcess /\ IInv /\ IInv' /\ ReplayIInv /\ [Next]_vars => ReplayIInv'
<1> SUFFICES ASSUME OneProcess, IInv, IInv', ReplayIInv, [Next]_vars PROVE ReplayIInv'
    OBVIOUS
<1>1. CASE Chain
    <2>1. UNCHANGED <<tableVars, worker, crashes>>
        BY <1>1 DEF Chain, Transact, NextBlock, Reorg, Mint, Transfer, Buy, CreateListing,
                    CancelListing, CreateOffer, CancelOffer, AcceptOffer, Emit
    <2>2. LogOK
        BY DEF IInv
    <2>3. ChainKeeps
        BY <1>1, <2>2, TransactKeeps, NextBlockKeeps, ReorgKeeps DEF Chain
    <2> QED
        BY <2>1, <2>3, ChainReplays
<1>2. ASSUME NEW w \in Workers, Step(w) \/ Abort(w) PROVE ReplayIInv'
    <2>1. Workers = {w}
        BY DEF OneProcess
    <2>2. crashes' = crashes
        BY <1>2 DEF Step, Start, Fetch, Skip, Record, ApplyMirrorWrite, Throw, AdvanceCursor, Abort
    <2>3. ASSUME crashes = 0 PROVE IsTables(mirror') /\ \E m : ReplayedThrough(m)'
        <3>1. PICK n : IsTables(mirror) /\ ReplayedThrough(n)
            BY <2>3 DEF ReplayIInv
        <3> QED
            BY <1>2, <2>1, <3>1, WorkerReplays
    <2> QED
        BY <2>2, <2>3 DEF ReplayIInv
<1>3. ASSUME NEW w \in Workers, Crash(w) PROVE ReplayIInv'
    <2>1. crashes' = crashes + 1
        BY <1>3 DEF Crash
    <2> QED
        BY <2>1 DEF ReplayIInv
<1>4. CASE UNCHANGED vars
    <2>1. /\ log' = log /\ block' = block /\ cursor' = cursor /\ activity' = activity /\ mirror' = mirror
          /\ worker' = worker /\ crashes' = crashes
        BY <1>4 DEF vars, chainVars, tableVars
    <2>2. LogOK /\ LogOK'
        BY DEF IInv
    <2>3. SafeHead' = SafeHead
        BY <2>1 DEF SafeHead, Latest
    <2>4. ChainKeeps
        BY <2>1, <2>2, <2>3, SafeHeadType DEF ChainKeeps
    <2> QED
        BY <2>1, <2>4, ChainReplays DEF tableVars
<1> QED
    BY <1>1, <1>2, <1>3, <1>4 DEF Next

LEMMA InitReplays == Init => ReplayIInv
<1> SUFFICES ASSUME Init PROVE ReplayIInv
    OBVIOUS
<1>1. log = <<>> /\ Len(log) = 0 /\ DOMAIN log = {} /\ mirror = NoRows /\ cursor = None
      /\ \A w \in Workers : worker[w].pc = "stopped"
    BY DEF Init, Stopped, At
<1>2. ReplayedThrough(0)
    BY <1>1, ReplaySteps DEF ReplayedThrough
<1>3. IsTables(NoRows)
    BY DEF IsTables, NoRows
<1> QED
    BY <1>1, <1>2, <1>3 DEF ReplayIInv, Init

\* With one process at a time, and as long as none has died, the tables are
\* a replay of the chain as far as at least the cursor says, through reorgs,
\* stopped passes, blocks read twice and rows the database refuses
\* (runIndexerPass, recordActivity, applyMirrorWrite).
THEOREM TablesAreReplay ==
    ASSUME OneProcess
    PROVE  Spec => [](crashes = 0 => MirrorIsReplay)
<1>1. IInv /\ IInv' /\ ReplayIInv /\ [Next]_vars => ReplayIInv'
    BY ReplayStep
<1>2. IInv /\ ReplayIInv => (crashes = 0 => MirrorIsReplay)
    <2> SUFFICES ASSUME IInv, ReplayIInv, crashes = 0 PROVE MirrorIsReplay
        OBVIOUS
    <2>1. PICK n : ReplayedThrough(n)
        BY DEF ReplayIInv
    <2>2. n \in 0..Len(log) /\ n \in Nat /\ Len(log) \in Nat /\ DOMAIN log = 1..Len(log)
        BY <2>1, LogType DEF IInv, ReplayedThrough
    <2>3. ASSUME NEW i \in n + 1..Len(log) PROVE cursor = None \/ log[i].block > cursor
        <3>1. i \in DOMAIN log /\ ~(i <= n)
            BY <2>2
        <3>2. log[i].block \in Nat /\ cursor \in Nat \cup {None}
            BY <3>1 DEF IInv, LogOK, CursorOK
        <3> QED
            BY <3>1, <3>2, <2>1 DEF ReplayedThrough
    <2> QED
        BY <2>1, <2>2, <2>3 DEF ReplayedThrough, MirrorIsReplay
<1> QED
    BY <1>1, <1>2, InitReplays, Invariance, PTL DEF Spec
=============================================================================
