------------------------------ MODULE Portfolio ------------------------------
(* The portfolio page: the aggregate of a wallet's holdings, computed by the   *)
(* server at each request, and the hook that fetches it for the connected      *)
(* wallet while the visitor connects, switches and disconnects and answers     *)
(* come back late or not at all. A render shows what the hook returns; its     *)
(* effects run after it. Values are natural numbers; what an asset contributes *)
(* is counted in BpsTotal parts of one.                                        *)
EXTENDS ReadViews, CompositionRules

CONSTANTS Snapshots,      \* what the market seam may answer for a token
          MaxRenders,     \* bound: changes of the connected wallet
          MaxFetches      \* bound: requests on their way

WindowNames == {"1D", "7D", "30D", "SINCE_MINT"}

\* No price or NAV engine yet: what the seam answers today.
EmptyMarketSnapshot == [nav |-> {}, degraded |-> TRUE, performance |-> [w \in {} |-> {}]]

(* nav: the reference NAV, if there is one; performance: the change and the    *)
(* value at the end of the windows there are.                                  *)
IsSnapshot(m) == /\ m.nav \subseteq Nat /\ Cardinality(m.nav) <= 1 /\ m.degraded \in BOOLEAN
                 /\ (m.nav = {} => m.degraded)
                 /\ DOMAIN m.performance \subseteq WindowNames
                 /\ \A w \in DOMAIN m.performance : m.performance[w] \in [change : Int, to : Int]

\* What is minted weighs BpsTotal in all (NFFC.mint).
ASSUME PortfolioAssumption ==
  /\ \A m \in Snapshots : IsSnapshot(m)
  /\ \A world \in Worlds : \A i \in DOMAIN world.nffcs :
       SumFunction(world.nffcs[i].components) = BpsTotal
  /\ {MaxRenders, MaxFetches} \subseteq Nat

VARIABLES market,     \* the snapshot of each token
          address,    \* the connected wallet, if any, as the page last rendered it
          effectOf,   \* the address the hook's effect last ran for
          fetched,    \* the reducer's state
          fetches,    \* requests on their way: whose, and whether their effect was cleaned up
          renders
portfolioVars == <<market, address, effectOf, fetched, fetches, renders>>

----------------------------------------------------------------------------
HoldingValue(i) == IF market[i].nav = {} THEN 0 ELSE CHOOSE v \in market[i].nav : TRUE
Total(held) == SumFunction([i \in held |-> HoldingValue(i)])

\* What each group of the holdings is worth, and how many are in it.
ExposureBy(held, KeyOf(_)) ==
  [k \in {KeyOf(i) : i \in held} |->
     LET of == {i \in held : KeyOf(i) = k} IN [value |-> Total(of), holdingCount |-> Cardinality(of)]]

ExposureBySegment(held) == ExposureBy(held, LAMBDA i : nffcs[i].segment)
ExposureByCollection(held) == ExposureBy(held, LAMBDA i : nffcs[i].collection)

\* A holding worth nothing is not exposed to its assets.
ExposureByAsset(held) ==
  LET valued == {i \in held : HoldingValue(i) # 0} IN
  [a \in UNION {DOMAIN nffcs[i].components : i \in valued} |->
     SumFunction([i \in {j \in valued : a \in DOMAIN nffcs[j].components} |->
                    HoldingValue(i) * nffcs[i].components[a]])]

\* The value-weighted change over the holdings that have the window, as a fraction.
PortfolioPerformance(held) ==
  LET having(w) == {i \in held : w \in DOMAIN market[i].performance
                                 /\ market[i].performance[w].to > 0} IN
  [w \in {x \in WindowNames : having(x) # {}} |->
     [sum |-> SumFunction([i \in having(w) |->
                             market[i].performance[w].change * market[i].performance[w].to]),
      weight |-> SumFunction([i \in having(w) |-> market[i].performance[w].to]),
      holdingsIncluded |-> Cardinality(having(w))]]

AggregatePortfolio(owner, held) ==
  [ownerAddress |-> owner, holdings |-> held, totalReferenceValue |-> Total(held),
   degraded |-> \E i \in held : market[i].degraded,
   performance |-> PortfolioPerformance(held),
   exposureByAsset |-> ExposureByAsset(held),
   exposureBySegment |-> ExposureBySegment(held),
   exposureByCollection |-> ExposureByCollection(held)]

GetPortfolio(a) == AggregatePortfolio(a, {i \in DOMAIN nffcs : nffcs[i].owner = a})

----------------------------------------------------------------------------
(* use-portfolio.ts. An optional value is a set of at most one.                *)
InitialState == [portfolio |-> {}, loading |-> FALSE, error |-> FALSE]
FetchStart == [portfolio |-> {}, loading |-> TRUE, error |-> FALSE]
FetchSuccess(p) == [portfolio |-> {p}, loading |-> FALSE, error |-> FALSE]
FetchError == [portfolio |-> {}, loading |-> FALSE, error |-> TRUE]

\* What the hook returns to the page.
Returned == IF address = {} THEN InitialState ELSE fetched

\* A wallet connects, is switched, or leaves.
Render(a) ==
  /\ renders < MaxRenders /\ a # address
  /\ address' = a /\ renders' = renders + 1
  /\ UNCHANGED <<market, effectOf, fetched, fetches>>

\* Mutant of CleanedUp: the effect has no cleanup.
LeftRunning(of) == of
CleanedUp(of) == {[f EXCEPT !.cancelled = TRUE] : f \in of}

\* The old effect's cleanup, then the new effect.
RunEffect ==
  /\ effectOf # address /\ Cardinality(fetches) < MaxFetches
  /\ effectOf' = address
  /\ fetches' = CleanedUp(fetches)
                \cup {[id |-> renders, address |-> a, cancelled |-> FALSE] : a \in address}
  /\ fetched' = IF address = {} THEN fetched ELSE FetchStart
  /\ UNCHANGED <<market, address, renders>>

\* The server computes and the answer arrives; it counts only while its effect stands.
Arrives(f, state) ==
  /\ fetches' = fetches \ {f}
  /\ fetched' = IF f.cancelled THEN fetched ELSE state
  /\ UNCHANGED <<market, address, effectOf, renders>>

Respond(f) == Arrives(f, FetchSuccess(GetPortfolio(f.address)))
Fail(f) == Arrives(f, FetchError)

\* The market seam is recomputed on every read.
Reprice(i, m) ==
  /\ market[i] # m
  /\ market' = [market EXCEPT ![i] = m]
  /\ UNCHANGED <<address, effectOf, fetched, fetches, renders>>

PortfolioInit ==
  /\ market = [i \in DOMAIN nffcs |-> EmptyMarketSnapshot]
  /\ address = {} /\ effectOf = {} /\ fetched = InitialState /\ fetches = {} /\ renders = 0

PortfolioNext ==
  \/ \E a \in {{w} : w \in Wallets} \cup {{}} : Render(a)
  \/ RunEffect
  \/ \E f \in fetches : Respond(f) \/ Fail(f)
  \/ \E i \in DOMAIN nffcs, m \in Snapshots : Reprice(i, m)

PortfolioSpec == ViewInit /\ PortfolioInit
                 /\ [][PortfolioNext /\ UNCHANGED viewVars]_<<viewVars, portfolioVars>>

----------------------------------------------------------------------------
(* Once the page's effects have run it shows the connected wallet's portfolio  *)
(* and nobody else's, and is loading only while an answer it will take is on   *)
(* its way. What it shows adds up: by segment and collection to the total, by  *)
(* asset to what the holdings are worth (usePortfolio, aggregatePortfolio).    *)
Held(a) == {i \in DOMAIN nffcs : nffcs[i].owner = a}
Sums(exposure) == SumFunction([k \in DOMAIN exposure |-> exposure[k].value])
AddsUp(p) ==
  /\ Sums(p.exposureBySegment) = p.totalReferenceValue
  /\ Sums(p.exposureByCollection) = p.totalReferenceValue
  /\ SumFunction(p.exposureByAsset) = p.totalReferenceValue * BpsTotal
PortfolioIsTheWallets ==
  effectOf = address =>
    /\ \A p \in Returned.portfolio : {p.ownerAddress} = address /\ p.holdings = Held(p.ownerAddress)
                                     /\ AddsUp(p)
    /\ Returned.loading => \E f \in fetches : ~f.cancelled /\ {f.address} = address
=============================================================================
