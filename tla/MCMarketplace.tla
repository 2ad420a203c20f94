--------------------------- MODULE MCMarketplace ---------------------------
(* Instances of Marketplace for TLC. *)
EXTENDS Marketplace

CONSTANTS alice, bot, t1, t2, c1, c2

\* bot created c1; nobody created c2, an id a token can be minted with since
\* NFFC.mint does not validate it.
BotCreatesFirst == [c \in CollectionIds |-> IF c = c1 THEN bot ELSE NoAccount]
TokensByCollection == [t \in Tokens |-> IF t = t1 THEN c1 ELSE c2]
=============================================================================
