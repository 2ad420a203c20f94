--------------------------- MODULE MCMarketMirror ---------------------------
(* Instances of MarketMirror for TLC. *)
EXTENDS MarketMirror

CONSTANTS alice, bot, t1, c1

NobodyCreates == [c \in CollectionIds |-> NoAccount]
TokensOfOneCollection == [t \in Tokens |-> c1]
=============================================================================
