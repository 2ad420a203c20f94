--------------------------- MODULE MCProviderSync ---------------------------
(* Instances of ProviderSync for TLC. *)
EXTENDS ProviderSync
CONSTANTS hood, hoodAdapter, s1, s2, t1, t2, feed1, feed2, admin
AllEquity == [p \in Providers |-> "EQUITY"]
AdapterByProvider == [p \in Providers |-> hoodAdapter]
Eighteen == [t \in Tokens |-> 18]
Entry(s, t, f) == [symbol |-> s, token |-> t, decimals |-> 18, multiplier |-> 1, oracle |-> f]
\* Listed, joined by a second token, renamed with another feed, delisted for the second,
\* and, as the schema does not forbid it, named twice.
SomeLists == {<<Entry(s1, t1, feed1)>>, <<Entry(s1, t1, feed1), Entry(s2, t2, feed1)>>,
              <<Entry(s2, t1, feed2)>>, <<Entry(s2, t2, feed1)>>,
              <<Entry(s1, t1, feed1), Entry(s1, t1, feed2)>>}
TwoLists == {<<Entry(s1, t1, feed1)>>, <<Entry(s2, t2, feed1)>>}
\* The asset's token is replaced by a new contract.
Reissued == {<<Entry(s1, t1, feed1)>>, <<Entry(s1, t2, feed1)>>}
OneRep == [id \in {<<hood, 4663, t1>>} |-> <<"EQUITY", s1>>]
\* The same token listed on the other chain too.
TwoChains == [id \in {<<hood, 4663, t1>>, <<hood, 1, t1>>} |-> <<"EQUITY", s1>>]
=============================================================================
