------------------------------ MODULE MCReadSide ------------------------------
(* What is kept and read off the chain, for TLC: the NAV materializer, a       *)
(* visitor of the pages that read, the portfolio page, the document of a mint  *)
(* and the migrations. They share no state but the table of NFFCs, so a        *)
(* behaviour runs one of them and the others stay at rest.                     *)
EXTENDS NavHistory, Portfolio, TokenDocument, Migrations
CONSTANTS r1, r2, f1, f2, nofeed, ann, bob, c1, c2, btc, usd, m1, m2

VARIABLE part

OneEach == [r \in {r1, r2} |-> IF r = r1 THEN 1 ELSE 2]
OneFeedEach == [r \in {r1, r2} |-> IF r = r1 THEN f1 ELSE f2]

\* The NFFCs of the tables: of each segment, one not listed, two listed at one price.
Row(c, from, to, seg, rarity, at, comps, listing) ==
  [collection |-> c, creator |-> from, owner |-> to, segment |-> seg, rarity |-> rarity,
   regime |-> IF rarity = 80 THEN "mid" ELSE "at-highs", components |-> comps, mintedAt |-> at,
   active |-> listing]
For(w, p) == {[seller |-> w, price |-> p]}
Pure == [a \in {btc} |-> 10000]
Mix == [a \in {btc, usd} |-> IF a = btc THEN 2500 ELSE 7500]
Rows == <<Row(c1, ann, ann, "CRYPTO_ONLY", 80, 1, Pure, For(ann, 2)),
          Row(c1, ann, bob, "MIXED", 20, 2, Mix, {}),
          Row(c2, bob, ann, "MIXED", 20, 2, Mix, For(ann, 1)),
          Row(c2, ann, ann, "CRYPTO_ONLY", 80, 3, Pure, For(ann, 2)),
          Row(c1, bob, bob, "STOCK_ONLY", 80, 1, [a \in {usd} |-> 10000], {})>>

Event(kind, t, from, to, amount, at, b) ==
  [kind |-> kind, tokenId |-> t, actor |-> from, counterparty |-> to, amount |-> amount,
   occurredAt |-> at, block |-> b]
Events == <<Event("MINT", 1, ann, {}, {}, 1, 1), Event("SALE", 2, ann, {bob}, {1}, 2, 2),
            Event("SALE", 1, bob, {ann}, {2}, 2, 3), Event("TRANSFER", 2, bob, {ann}, {}, 3, 4),
            Event("SALE", 2, ann, {bob}, {2}, 3, 4)>>
SomeWorlds ==
  {[nffcs |-> <<>>, activity |-> <<>>], [nffcs |-> Rows, activity |-> Events],
   [nffcs |-> <<Rows[2], Rows[3]>>, activity |-> <<Events[3], Events[1], Events[2]>>],
   [nffcs |-> <<Rows[5], Rows[4], Rows[3], Rows[1]>>, activity |-> <<Events[1]>>]}

\* Shared and typed links: filters, an unknown value, pages before and beyond.
SomeLinks == {NoParams, [NoParams EXCEPT !.page = {2}], [NoParams EXCEPT !.page = {-1}],
              [NoParams EXCEPT !.page = {9}, !.sort = {"price_desc"}],
              [NoParams EXCEPT !.segment = {"?"}, !.minRarity = {500}, !.regime = {"mid", "?"}],
              [NoParams EXCEPT !.wallet = {ann}, !.page = {2}]}

\* No price yet, a stale one, a fresh one with its windows.
SomeSnapshots ==
  {EmptyMarketSnapshot,
   [nav |-> {0}, degraded |-> TRUE, performance |-> [w \in {"1D"} |-> [change |-> 0, to |-> 0]]],
   [nav |-> {3}, degraded |-> FALSE, performance |-> [w \in {"1D", "SINCE_MINT"} |-> [change |-> -1, to |-> 3]]]}

Part(a, r, w) == [asset |-> a, rep |-> r, weight |-> w]
SomeDrafts == {<<Part(btc, r1, 10000)>>, <<Part(btc, r1, 2500), Part(usd, r2, 7500)>>,
               <<Part(usd, r2, 7500), Part(btc, r1, 2500)>>}

ViewsAtRest == nffcs = <<>> /\ activity = <<>> /\ path = "market" /\ url = NoParams
               /\ by = "link" /\ walked = {}
NavAtRest == Init /\ \A f \in Feeds : round[f].raw = 0
DocumentAtRest == DocumentInit /\ draft = <<Part(btc, r1, 10000)>> /\ feeds[1][r1].price = 100

ReadSideInit ==
  /\ MigrateInit
  /\ \/ part = "nav" /\ Init /\ ViewsAtRest /\ DocumentAtRest
     \/ part = "browse" /\ ViewInit /\ NavAtRest /\ DocumentAtRest
     \/ /\ part = "portfolio" /\ ViewInit /\ path = "market" /\ Len(nffcs) <= 4
        /\ NavAtRest /\ DocumentAtRest
     \/ part = "mint" /\ DocumentInit /\ ViewsAtRest /\ NavAtRest
     \/ part = "migrate" /\ ViewsAtRest /\ NavAtRest /\ DocumentAtRest
  /\ PortfolioInit

ReadSideNext ==
  /\ UNCHANGED part
  /\ \/ part = "nav" /\ Next /\ UNCHANGED <<viewVars, portfolioVars, documentVars, migrateVars>>
     \/ part = "browse" /\ ViewNext /\ UNCHANGED <<navVars, portfolioVars, documentVars, migrateVars>>
     \/ part = "portfolio" /\ PortfolioNext /\ UNCHANGED <<navVars, viewVars, documentVars, migrateVars>>
     \/ part = "mint" /\ DocumentNext /\ UNCHANGED <<navVars, viewVars, portfolioVars, migrateVars>>
     \/ part = "migrate" /\ MigrateNext /\ UNCHANGED <<navVars, viewVars, portfolioVars, documentVars>>
readSideVars == <<part, navVars, viewVars, portfolioVars, documentVars, migrateVars>>
ReadSideSpec == ReadSideInit /\ [][ReadSideNext]_readSideVars
=============================================================================
