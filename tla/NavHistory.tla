----------------------------- MODULE NavHistory -----------------------------
(* The Reference NAV of one token: ChainlinkPriceOracle reads a price for each *)
(* component of its composition, the materializer stores them one by one and   *)
(* then the NAV it computed from them, and the stored history is turned into   *)
(* performance windows. Meanwhile time passes, feeds are updated, the provider *)
(* delists a representation or points it at another feed, a run stops halfway  *)
(* and another begins. Each query is one statement in a transaction of its own.*)
EXTENDS Integers, FiniteSets, Functions

CONSTANTS Components,    \* the composition: representation -> weight
          Multiplier,    \* representation -> units of the asset per token
          Feeds, NoFeed, \* price feeds
          FeedOf,        \* the feed each representation has at first
          Heartbeat, Grace,  \* how old an answer may be, and how much later still
          Answers,       \* what a feed may answer
          MintedAt,      \* when the token was minted
          Windows,       \* the fixed windows' lengths
          MaxTime,       \* bound: the clock
          MaxDisturbances\* bound: updates of feeds and of representations

Reps == DOMAIN Components

ASSUME NavAssumption ==
  /\ Components \in [Reps -> Nat \ {0}] /\ Multiplier \in [Reps -> Nat \ {0}]
  /\ FeedOf \in [Reps -> Feeds] /\ NoFeed \notin Feeds
  /\ {Heartbeat, Grace, MintedAt, MaxTime, MaxDisturbances} \subseteq Nat /\ Windows \subseteq Nat \ {0}
  /\ Answers \subseteq Int

VARIABLES now, round,       \* the clock; each feed's latest answer and its time
          active, feedOf,   \* the registry: the representation's status and feed
          pricePoint,       \* (representation, observed at, source) -> the observation
          navPoint,         \* computed at -> the NAV stored
          pc, unread, prices, unstored,    \* the run: what is read, what is stored
          disturbances
runVars == <<pc, unread, prices, unstored>>
navVars == <<now, round, active, feedOf, pricePoint, navPoint, runVars, disturbances>>

Empty == [x \in {} |-> x]

\* record: ON CONFLICT DO NOTHING.
InsertOnce(table, key, row) ==
  [k \in DOMAIN table \cup {key} |-> IF k \in DOMAIN table THEN table[k] ELSE row]

----------------------------------------------------------------------------
(* ChainlinkPriceOracle.getPrice.                                              *)
Priceable(r) == active[r] /\ feedOf[r] # NoFeed

\* Mutant of Stale: the comparison is turned round at the boundary of the grace.
StaleLate(age) == age > Heartbeat + 2 * Grace
Stale(age) == age > Heartbeat + Grace

Price(r) ==
  LET answer == round[feedOf[r]] IN
  [raw |-> answer.raw, normalized |-> answer.raw * Multiplier[r],
   observedAt |-> answer.at, source |-> feedOf[r], stale |-> Stale(now - answer.at),
   readAt |-> now]                        \* auxiliary

(* computeReferenceNav over a composition and the prices there are for it; a   *)
(* component without one counts for nothing and is not named.                  *)
PricedIn(c, got) == {r \in DOMAIN c : r \in DOMAIN got}
NavDegraded(c, got) == \E r \in DOMAIN c : r \in DOMAIN got => got[r].stale
NavValue(c, got) == SumFunction([r \in PricedIn(c, got) |-> c[r] * got[r].normalized])
ReferenceNav(c, got) ==
  [value |-> NavValue(c, got), degraded |-> NavDegraded(c, got),
   basis |-> [r \in PricedIn(c, got) |-> got[r].source]]

(* computePerformanceWindows over a history: computed at -> value.             *)
Latest(times) == CHOOSE t \in times : \A u \in times : u <= t
Earliest(times) == CHOOSE t \in times : \A u \in times : t <= u
\* Mutant of AtOrBefore: the first old enough point instead of the last.
FirstAtOrBefore(times, target) == {t \in times : t <= target /\ \A u \in times : t <= u}
AtOrBefore(times, target) ==
  {t \in times : t <= target /\ \A u \in times : u <= target => u <= t}
SinceMint(times, mintedAt) ==
  IF AtOrBefore(times, mintedAt) # {} THEN AtOrBefore(times, mintedAt) ELSE {Earliest(times)}
Change(from, to) == IF from = 0 THEN <<0, 1>> ELSE <<to - from, from>>
SinceMintWindow == 0      \* no fixed window is that short
PerformancePoint(history, window, from) ==
  LET to == Latest(DOMAIN history) IN
  [window |-> window, from |-> from, to |-> to, change |-> Change(history[from], history[to])]
FixedWindows(history, at) ==
  UNION {{PerformancePoint(history, w, from) : from \in AtOrBefore(DOMAIN history, at - w)} :
           w \in Windows}
PerformanceWindows(history, at, mintedAt) ==
  IF DOMAIN history = {} THEN {}
  ELSE FixedWindows(history, at)
       \cup {PerformancePoint(history, SinceMintWindow, from) :
               from \in SinceMint(DOMAIN history, mintedAt)}

----------------------------------------------------------------------------
Init ==
  /\ now = 0 /\ round \in [Feeds -> [raw : Answers, at : {0}]]
  /\ active = [r \in Reps |-> TRUE] /\ feedOf = FeedOf
  /\ pricePoint = Empty /\ navPoint = Empty
  /\ pc = "idle" /\ unread = {} /\ prices = Empty /\ unstored = {}
  /\ disturbances = 0

Tick == now < MaxTime /\ now' = now + 1
        /\ UNCHANGED <<round, active, feedOf, pricePoint, navPoint, runVars, disturbances>>

\* getComposition, then getPrices: every price is asked for at once.
Begin ==
  /\ pc = "idle"
  /\ pc' = "pricing" /\ unread' = Reps /\ prices' = Empty /\ unstored' = {}
  /\ UNCHANGED <<now, round, active, feedOf, pricePoint, navPoint, disturbances>>

GetPrice(r) ==
  /\ pc = "pricing" /\ r \in unread /\ Priceable(r)
  /\ unread' = unread \ {r}
  /\ prices' = [q \in DOMAIN prices \cup {r} |-> IF q = r THEN Price(r) ELSE prices[q]]
  /\ unstored' = unstored \cup {r}
  /\ pc' = IF unread' = {} THEN "storing" ELSE pc
  /\ UNCHANGED <<now, round, active, feedOf, pricePoint, navPoint, disturbances>>

Abandon == /\ pc' = "idle" /\ unread' = {} /\ prices' = Empty /\ unstored' = {}
           /\ UNCHANGED <<now, round, active, feedOf, pricePoint, navPoint, disturbances>>

\* One price that cannot be had rejects them all, and the run ends.
GetPricesFails == pc = "pricing" /\ (\E r \in unread : ~Priceable(r)) /\ Abandon

\* The prices are stored one by one; the worker may be stopped at any point.
RecordPrice(r) ==
  /\ pc = "storing" /\ r \in unstored
  /\ pricePoint' = InsertOnce(pricePoint, <<r, prices[r].observedAt, prices[r].source>>,
                              [normalized |-> prices[r].normalized, raw |-> prices[r].raw,
                               stale |-> prices[r].stale])
  /\ unstored' = unstored \ {r}
  /\ UNCHANGED <<now, round, active, feedOf, navPoint, pc, unread, prices, disturbances>>

\* Mutant of MayRecordNav: the NAV does not wait for its prices to be stored.
NavFirst(left) == TRUE
MayRecordNav(left) == left = {}

RecordNav ==
  /\ pc = "storing" /\ MayRecordNav(unstored)
  /\ navPoint' = InsertOnce(navPoint, now, ReferenceNav(Components, prices))
  /\ pc' = "idle" /\ unread' = {} /\ prices' = Empty /\ unstored' = {}
  /\ UNCHANGED <<now, round, active, feedOf, pricePoint, disturbances>>

Stop == pc # "idle" /\ Abandon

Disturb ==
  /\ disturbances < MaxDisturbances
  /\ disturbances' = disturbances + 1
  /\ UNCHANGED <<now, pricePoint, navPoint, runVars>>
  /\ \/ \E f \in Feeds, x \in Answers :
          /\ round[f].at < now              \* one answer a second
          /\ round' = [round EXCEPT ![f] = [raw |-> x, at |-> now]]
          /\ UNCHANGED <<active, feedOf>>
     \/ \E r \in Reps : active' = [active EXCEPT ![r] = ~active[r]] /\ UNCHANGED <<round, feedOf>>
     \/ \E r \in Reps, f \in Feeds \cup {NoFeed} :
          f # feedOf[r] /\ feedOf' = [feedOf EXCEPT ![r] = f] /\ UNCHANGED <<round, active>>

WorkerStep ==
  Begin \/ (\E r \in Reps : GetPrice(r) \/ RecordPrice(r)) \/ GetPricesFails \/ RecordNav
Next == Tick \/ WorkerStep \/ Stop \/ Disturb
Spec == Init /\ [][Next]_navVars
----------------------------------------------------------------------------
(* Stored prices that were there at a time, one per component, from the        *)
(* sources a NAV names.                                                        *)
Explanations(t) ==
  LET rows == {k \in DOMAIN pricePoint : k[2] <= t /\ k[3] = navPoint[t].basis[k[1]]} IN
  {e \in [Reps -> rows] : \A r \in Reps : e[r][1] = r}
Worth(e) == SumFunction([r \in Reps |-> Components[r] * pricePoint[e[r]].normalized])
Explains(e, t) == Worth(e) = navPoint[t].value

(* Every NAV on record can be accounted for by prices on record, wherever the  *)
(* run that stored it or another was cut short.                                *)
NavRestsOnStoredPrices == \A t \in DOMAIN navPoint : \E e \in Explanations(t) : Explains(e, t)

(* A NAV is only undegraded if each of its prices was within heartbeat and     *)
(* grace when it was read (the run computes later: that much age goes unseen). *)
UndegradedIsFresh ==
  [][ \A t \in DOMAIN navPoint' \ DOMAIN navPoint :
        ~navPoint'[t].degraded =>
          \A r \in Reps : prices[r].readAt - prices[r].observedAt <= Heartbeat + Grace ]_navVars

\* The history a chart reads.
History == [t \in DOMAIN navPoint |-> navPoint[t].value]

(* A window is shown as soon as a point is old enough for it, with that of     *)
(* mint always; each ends at the last point and starts at the latest that is   *)
(* old enough, so longer ones start no later, and no change is divided by 0.   *)
WindowsAreHonest ==
  LET shown == PerformanceWindows(History, now, MintedAt)
      times == DOMAIN navPoint IN
  /\ \A p \in shown : /\ p.to \in times /\ p.from \in times /\ p.change[2] # 0
                      /\ \A t \in times : t <= p.to
  /\ \A p \in shown : p.window # SinceMintWindow =>
       now - p.from >= p.window /\ \A t \in times : t > p.from => now - t < p.window
  /\ \A p, q \in shown : p.window \in Windows /\ q.window \in Windows /\ p.window <= q.window
                           => q.from <= p.from
  /\ \A t \in times, w \in Windows : now - t >= w => \E p \in shown : p.window = w
  /\ times # {} => \E p \in shown : /\ p.window = SinceMintWindow
                                    /\ \A q \in shown : q.window = SinceMintWindow => q = p
=============================================================================
