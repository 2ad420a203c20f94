------------------------------ MODULE ReadViews ------------------------------
(* The pages that only read: explore, activity, search, profiles and the       *)
(* admin's reports, all over one table of NFFCs and one of activity. A visitor *)
(* opens links and presses the controls of the explore and activity pages; the *)
(* address bar is the only state. A URL parameter is the set of its values:    *)
(* a repeated single-valued one counts as its first value, which is the one    *)
(* modelled. The tables stand still, as the fixtures behind the pages do: the  *)
(* 300-second caches, keyed by every argument, then change no answer.          *)
EXTENDS Integers, Sequences, FiniteSets, Functions

CONSTANTS Worlds,          \* what the tables may hold, each [nffcs, activity], in table order
          Wallets, Collections, Assets, Prices, Rarities, Times,
          Links,           \* URLs shared or typed by hand
          Toggles,         \* bound: the regimes and kinds the visitor toggles
          DEFAULT_PAGE_SIZE, MAX_PAGE_SIZE,
          ACTIVITY_DEFAULT_PAGE_SIZE, ACTIVITY_MAX_PAGE_SIZE,
          RECENT_ACTIVITY_LIMIT

Segments == {"CRYPTO_ONLY", "STOCK_ONLY", "MIXED"}
Regimes == {"at-highs", "near-highs", "mid", "deep-drawdown"}
Sorts == {"newest", "price_asc", "price_desc", "rarity_desc"}
Kinds == {"MINT", "TRANSFER", "LISTING_CREATED", "LISTING_CANCELLED", "SALE",
          "OFFER_CREATED", "OFFER_ACCEPTED", "OFFER_CANCELLED"}

(* One row each. An optional value is a set of at most one; the token id of a  *)
(* summary is its place in the table.                                          *)
Optional(S) == {{}} \cup {{x} : x \in S}
Listing == [seller : Wallets, price : Prices]
IsSummary(n) ==
  /\ n.collection \in Collections /\ {n.creator, n.owner} \subseteq Wallets
  /\ n.segment \in Segments /\ n.rarity \in Rarities /\ n.regime \in Regimes
  /\ n.mintedAt \in Times /\ DOMAIN n.components \subseteq Assets
  /\ IsFiniteSet(DOMAIN n.components)
  /\ \A a \in DOMAIN n.components : n.components[a] \in Nat \ {0}
  /\ n.active \in Optional(Listing)
IsEntry(e) ==
  /\ e.kind \in Kinds /\ e.tokenId \in Nat /\ e.actor \in Wallets
  /\ e.counterparty \in Optional(Wallets) /\ e.amount \in Optional(Prices)
  /\ e.kind = "SALE" => e.amount # {}
  /\ e.occurredAt \in Times /\ e.block \in Nat

\* The parameters of a URL; a page that is no number is no page.
Params == {"segment", "minRarity", "regime", "listed", "sort", "page", "tokenId", "wallet", "kind"}
IsUrl(u) == DOMAIN u = Params /\ u.page \subseteq Int

IsTable(rows) == rows \in Seq(Range(rows))

ASSUME ViewsAssumption ==
  /\ \A world \in Worlds : /\ IsTable(world.nffcs) /\ IsTable(world.activity)
                           /\ \A i \in DOMAIN world.nffcs : IsSummary(world.nffcs[i])
                           /\ \A i \in DOMAIN world.activity : IsEntry(world.activity[i])
  /\ {DEFAULT_PAGE_SIZE, MAX_PAGE_SIZE, ACTIVITY_DEFAULT_PAGE_SIZE, ACTIVITY_MAX_PAGE_SIZE,
      RECENT_ACTIVITY_LIMIT} \subseteq Nat \ {0}
  /\ RECENT_ACTIVITY_LIMIT <= ACTIVITY_DEFAULT_PAGE_SIZE /\ Collections \cap Assets = {}
  /\ Prices \cup Rarities \cup Times \subseteq Nat /\ \A u \in Links : IsUrl(u)

VARIABLES nffcs, activity,  \* the tables
          path, url,        \* the address bar
          by,               \* auxiliary: how the visitor came here, "link" or "control"
          walked            \* auxiliary: what the pages showed since the first, if every
                            \* one was reached from the one before it; else the set is empty
viewVars == <<nffcs, activity, path, url, by, walked>>

----------------------------------------------------------------------------
(* Array.prototype.sort is stable: rows that compare equal keep their order.   *)
First(ahead, i, j) == <<i, j>> \in ahead \/ (<<j, i>> \notin ahead /\ i < j)

\* The places in the table, each after as many of them as come first.
Sorted(places, ahead) ==
  [k \in 1..Cardinality(places) |->
     CHOOSE i \in places : Cardinality({j \in places : First(ahead, j, i)}) = k - 1]

Smaller(a, b) == IF a <= b THEN a ELSE b
Larger(a, b) == IF a >= b THEN a ELSE b

\* Mutant of PageOf: pages counted from zero.
PageOfZero(sorted, page, size) ==
  SubSeq(sorted, page * size + 1, Smaller((page + 1) * size, Len(sorted)))
PageOf(sorted, page, size) ==
  SubSeq(sorted, (page - 1) * size + 1, Smaller(page * size, Len(sorted)))

\* What a query answers: page and size clamped, the total of all pages.
Result(sorted, page, size, default, max) ==
  LET s == Smaller(Larger(1, IF size = 0 THEN default ELSE size), max)
      p == Larger(1, page)
  IN [items |-> PageOf(sorted, p, s), total |-> Len(sorted), page |-> p, pageSize |-> s]

PageCount(result) == Larger(1, (result.total + result.pageSize - 1) \div result.pageSize)

(* domain/marketplace/listings.ts *)
Listed(n) == n.active # {}
PriceOf(n) == (CHOOSE l \in n.active : TRUE).price
Newer(a, b) == a.mintedAt > b.mintedAt

MatchesFilter(n, f) ==
  /\ f.segment # {} => n.segment \in f.segment
  /\ \A floor \in f.minRarity : n.rarity >= floor
  /\ f.regime # {} => n.regime \in f.regime
  /\ f.listedOnly => Listed(n)

\* Unlisted items come after every listed one, newest first, in either direction.
Before(sort, a, b) ==
  \/ sort = "newest" /\ Newer(a, b)
  \/ sort = "rarity_desc" /\ a.rarity > b.rarity
  \/ /\ sort \in {"price_asc", "price_desc"}
     /\ \/ Listed(a) /\ ~Listed(b)
        \/ ~Listed(a) /\ ~Listed(b) /\ Newer(a, b)
        \/ /\ Listed(a) /\ Listed(b)
           /\ IF sort = "price_asc" THEN PriceOf(a) < PriceOf(b) ELSE PriceOf(a) > PriceOf(b)

ListingsFound(f) == {i \in DOMAIN nffcs : MatchesFilter(nffcs[i], f)}
ListingsOrder(sort) ==
  {p \in (DOMAIN nffcs) \X (DOMAIN nffcs) : Before(sort, nffcs[p[1]], nffcs[p[2]])}

QueryListings(q) ==
  Result(Sorted(ListingsFound(q.filter), ListingsOrder(q.sort)),
         q.page, q.pageSize, DEFAULT_PAGE_SIZE, MAX_PAGE_SIZE)

(* domain/activity/activity.ts *)
MatchesEntry(e, f) ==
  /\ f.tokenId # {} => e.tokenId \in f.tokenId
  /\ f.wallet # {} => (e.actor \in f.wallet \/ e.counterparty \cap f.wallet # {})
  /\ f.kind # {} => e.kind \in f.kind

NewestFirst(a, b) ==
  \/ a.occurredAt > b.occurredAt
  \/ a.occurredAt = b.occurredAt /\ a.block > b.block

EntriesFound(f) == {i \in DOMAIN activity : MatchesEntry(activity[i], f)}
EntriesOrder ==
  {p \in (DOMAIN activity) \X (DOMAIN activity) : NewestFirst(activity[p[1]], activity[p[2]])}

QueryActivity(q) ==
  Result(Sorted(EntriesFound(q.filter), EntriesOrder),
         q.page, q.pageSize, ACTIVITY_DEFAULT_PAGE_SIZE, ACTIVITY_MAX_PAGE_SIZE)

----------------------------------------------------------------------------
(* What each page makes of its URL: a value it does not know is no filter.     *)
ParsedPage(u) == IF \E p \in u.page : p >= 1 THEN CHOOSE p \in u.page : p >= 1 ELSE 1

ParseMarket(u) ==
  [filter |-> [segment |-> u.segment \cap Segments,
               minRarity |-> {Smaller(100, Larger(0, x)) : x \in u.minRarity},
               regime |-> u.regime \cap Regimes,
               listedOnly |-> u.listed = {"1"}],
   sort |-> IF u.sort \cap Sorts = {} THEN "newest" ELSE CHOOSE s \in u.sort : TRUE,
   page |-> ParsedPage(u), pageSize |-> DEFAULT_PAGE_SIZE]

ParseActivity(u) ==
  [filter |-> [tokenId |-> u.tokenId, wallet |-> u.wallet, kind |-> u.kind \cap Kinds],
   page |-> ParsedPage(u), pageSize |-> ACTIVITY_DEFAULT_PAGE_SIZE]

MarketPage(u) == QueryListings(ParseMarket(u))
ActivityPage(u) == QueryActivity(ParseActivity(u))
Shown(p, u) == IF p = "market" THEN MarketPage(u) ELSE ActivityPage(u)

----------------------------------------------------------------------------
NoParams == [k \in Params |-> {}]

\* What the visitor has read once the page at p, u is shown.
Opened(p, u, how) ==
  /\ path' = p /\ url' = u /\ by' = how
  /\ walked' = IF Shown(p, u).page = 1 THEN {Shown(p, u).items} ELSE {}
  /\ UNCHANGED <<nffcs, activity>>

OpenLink(p, u) == Opened(p, u, "link")

\* Mutant of WithoutPage: a filter leaves the page where it is.
KeepPage(u) == u
WithoutPage(u) == [u EXCEPT !.page = {}]

(* market-filters.tsx *)
SetParam(name, value) ==
  path = "market" /\ Opened(path, WithoutPage([url EXCEPT ![name] = value]), "control")

ToggleRegime(r) ==
  /\ path = "market"
  /\ Opened(path, WithoutPage([url EXCEPT !.regime =
               IF r \in @ THEN @ \ {r} ELSE @ \cup {r}]), "control")

(* activity-filters.tsx *)
ApplyTextFilters(wallet, tokenId) ==
  /\ path = "activity"
  /\ Opened(path, WithoutPage([url EXCEPT !.wallet = wallet, !.tokenId = tokenId]), "control")

ToggleKind(k) ==
  /\ path = "activity"
  /\ Opened(path, WithoutPage([url EXCEPT !.kind = IF k \in @ THEN @ \ {k} ELSE @ \cup {k}]),
            "control")

(* pagination.tsx: the links of the page shown, to the page before and after.  *)
HasPrevious(r) == r.page > 1 /\ PageCount(r) > 1
HasNext(r) == r.page < PageCount(r)

NextPage ==
  LET to == [url EXCEPT !.page = {Shown(path, url).page + 1}] IN
  /\ HasNext(Shown(path, url))
  /\ url' = to /\ by' = "link"
  /\ walked' = {w \o Shown(path, to).items : w \in walked}
  /\ UNCHANGED <<nffcs, activity, path>>

PreviousPage ==
  /\ HasPrevious(Shown(path, url))
  /\ Opened(path, [url EXCEPT !.page = {Shown(path, url).page - 1}], "link")

Control ==
  \/ \E s \in Optional(Segments) : SetParam("segment", s)
  \/ \E s \in Sorts : SetParam("sort", {s})
  \/ \E x \in Optional(Rarities) : SetParam("minRarity", x)
  \/ \E x \in Optional({"1"}) : SetParam("listed", x)
  \/ \E r \in Regimes \cap Toggles : ToggleRegime(r)
  \/ \E w \in Optional(Wallets), t \in Optional(DOMAIN nffcs) : ApplyTextFilters(w, t)
  \/ \E k \in Kinds \cap Toggles : ToggleKind(k)

ViewInit ==
  /\ \E world \in Worlds : nffcs = world.nffcs /\ activity = world.activity
  /\ path \in {"market", "activity"} /\ url = NoParams /\ by = "link"
  /\ walked = {Shown(path, url).items}

ViewNext == \/ \E p \in {"market", "activity"}, u \in Links : OpenLink(p, u)
            \/ Control \/ NextPage \/ PreviousPage
ViewSpec == ViewInit /\ [][ViewNext]_viewVars

----------------------------------------------------------------------------
(* domain/search/search.ts. A query stands for the names it is part of, and    *)
(* the token ids it spells; a blank one for nothing.                           *)
Occurring(Of(_)) == UNION {Of(nffcs[i]) : i \in DOMAIN nffcs}
CountOf(P(_)) == Cardinality({i \in DOMAIN nffcs : P(nffcs[i])})

SearchNffcs(q) ==
  Sorted({i \in DOMAIN nffcs : i \in q.ids \/ nffcs[i].collection \in q.names
                               \/ DOMAIN nffcs[i].components \cap q.names # {}},
         ListingsOrder("newest"))

SearchAssets(q) ==
  [a \in Occurring(LAMBDA n : DOMAIN n.components) \cap q.names |->
     CountOf(LAMBDA n : a \in DOMAIN n.components)]

SearchCollections(q) ==
  [c \in Occurring(LAMBDA n : {n.collection}) \cap q.names |->
     CountOf(LAMBDA n : n.collection = c)]

\* Mutant of Bumps: a minter who kept the token is counted once.
BumpsOnce(n, w) == [created |-> n.creator = w, owned |-> n.owner = w /\ n.creator # w]
Bumps(n, w) == [created |-> n.creator = w, owned |-> n.owner = w]

SearchWallets(q) ==
  [w \in Occurring(LAMBDA n : {n.creator, n.owner}) \cap q.names |->
     [created |-> CountOf(LAMBDA n : Bumps(n, w).created),
      owned |-> CountOf(LAMBDA n : Bumps(n, w).owned)]]

Search(q) == [nffcs |-> SearchNffcs(q), assets |-> SearchAssets(q),
              collections |-> SearchCollections(q), wallets |-> SearchWallets(q)]

(* domain/profile/profile.ts *)
RecentActivity(w) ==
  QueryActivity([filter |-> [tokenId |-> {}, wallet |-> {w}, kind |-> {}],
                 page |-> 1, pageSize |-> RECENT_ACTIVITY_LIMIT]).items

NewestOf(P(_)) == Sorted({i \in DOMAIN nffcs : P(nffcs[i])}, ListingsOrder("newest"))

Profile(w) ==
  [created |-> NewestOf(LAMBDA n : n.creator = w),
   owned |-> NewestOf(LAMBDA n : n.owner = w),
   listed |-> NewestOf(LAMBDA n : \E l \in n.active : l.seller = w),
   collections |-> [c \in Occurring(LAMBDA n : IF n.creator = w THEN {n.collection} ELSE {}) |->
                      CountOf(LAMBDA n : n.creator = w /\ n.collection = c)],
   recentActivity |-> RecentActivity(w)]

(* domain/admin/admin.ts *)
ListAllCollections ==
  [c \in Occurring(LAMBDA n : {n.collection}) |->
     [creator |-> nffcs[CHOOSE i \in DOMAIN nffcs : /\ nffcs[i].collection = c
                                            /\ \A j \in 1..i-1 : nffcs[j].collection # c].creator,
      nffcCount |-> CountOf(LAMBDA n : n.collection = c)]]

ReportedEntries ==
  QueryActivity([filter |-> [tokenId |-> {}, wallet |-> {}, kind |-> {}],
                 page |-> 1, pageSize |-> ACTIVITY_MAX_PAGE_SIZE]).items

ProtocolReport ==
  LET sales == {i \in Range(ReportedEntries) : activity[i].kind = "SALE" /\ activity[i].amount # {}}
  IN [totalNffcs |-> Len(nffcs),
      totalCollections |-> Cardinality(DOMAIN ListAllCollections),
      segmentCounts |-> [s \in Occurring(LAMBDA n : {n.segment}) |->
                           CountOf(LAMBDA n : n.segment = s)],
      activeListingCount |-> CountOf(Listed),
      totalSaleVolume |-> SumFunction([i \in sales |-> CHOOSE x \in activity[i].amount : TRUE]),
      saleCount |-> Cardinality(sales)]

----------------------------------------------------------------------------
(* Reading from the first page to the last by the Next links shows every row   *)
(* the filters match, each once and none ahead of its turn, whatever links     *)
(* were opened before (queryListings, queryActivity, Pagination).              *)
InTurn(i, j) ==
  IF path = "market" THEN ~Before(ParseMarket(url).sort, nffcs[j], nffcs[i])
  ELSE ~NewestFirst(activity[j], activity[i])
Asked ==
  IF path = "market" THEN {i \in DOMAIN nffcs : MatchesFilter(nffcs[i], ParseMarket(url).filter)}
  ELSE {i \in DOMAIN activity : MatchesEntry(activity[i], ParseActivity(url).filter)}
BrowsedOnce ==
  \A w \in walked : ~HasNext(Shown(path, url)) =>
    /\ Range(w) = Asked /\ Len(w) = Cardinality(Asked)
    /\ \A i, j \in DOMAIN w : i < j => InTurn(w[i], w[j])

(* A filter or sort control never leads to an empty page while rows match it   *)
(* (setParam, toggleRegime, applyTextFilters, toggleKind).                     *)
ControlsNeverStrand ==
  by = "control" => (Shown(path, url).items = <<>> => Shown(path, url).total = 0)

(* Two pages that count the same thing say the same: search and profiles,      *)
(* search and the admin's collections, the report and the filtered lists. The  *)
(* report is held to the sales among the entries it reads.                     *)
Only(names) == [names |-> names, ids |-> {}]
Unfiltered == [NoParams EXCEPT !.page = {1}]
ViewsAgree ==
  /\ \A w \in Wallets :
       LET found == Search(Only({w})).wallets  shown == Profile(w) IN
       /\ w \in DOMAIN found <=> shown.created # <<>> \/ shown.owned # <<>>
       /\ w \in DOMAIN found => /\ found[w].created = Len(shown.created)
                                /\ found[w].owned = Len(shown.owned)
       /\ LET entries == ActivityPage([Unfiltered EXCEPT !.wallet = {w}]).items IN
          shown.recentActivity = SubSeq(entries, 1, Len(shown.recentActivity))
  /\ \A c \in Collections :
       LET found == Search(Only({c})).collections IN
       /\ DOMAIN found = DOMAIN ListAllCollections \cap {c}
       /\ c \in DOMAIN found =>
            /\ found[c] = ListAllCollections[c].nffcCount
            /\ found[c] = Len(Search(Only({c})).nffcs)
            /\ LET minted == {w \in Wallets : c \in DOMAIN Profile(w).collections} IN
               found[c] = SumFunction([w \in minted |-> Profile(w).collections[c]])
  /\ \A a \in Assets :
       LET found == Search(Only({a})) IN
       SumFunction(found.assets) = Len(found.nffcs)
  /\ ProtocolReport.totalNffcs = MarketPage(Unfiltered).total
  /\ ProtocolReport.totalNffcs = SumFunction(ProtocolReport.segmentCounts)
  /\ ProtocolReport.activeListingCount = MarketPage([Unfiltered EXCEPT !.listed = {"1"}]).total
  /\ Len(activity) <= ACTIVITY_MAX_PAGE_SIZE =>
       ProtocolReport.saleCount = ActivityPage([Unfiltered EXCEPT !.kind = {"SALE"}]).total
=============================================================================
