---------------------------- MODULE ActivityFeed ----------------------------
(***************************************************************************)
(* What the activity table promises its readers (docs/indexer.md,          *)
(* workers/indexer/run.ts): every event of the chain that is an activity   *)
(* appears exactly once, in chain order and without a gap, and what has    *)
(* been published is never taken back, whatever becomes of the head of     *)
(* the chain.                                                              *)
(***************************************************************************)
EXTENDS Integers, Sequences

CONSTANT IsActivity(_)  \* of an entry of the chain

VARIABLES
    chain,  \* entries, in chain order
    feed    \* positions of the published ones

Published == {feed[k] : k \in DOMAIN feed}

Init == chain = <<>> /\ feed = <<>>

\* The next activity is published: all before it are, and nothing else is.
Publish ==
    \E i \in DOMAIN chain :
        /\ IsActivity(chain[i])
        /\ Published = {j \in 1..i - 1 : IsActivity(chain[j])}
        /\ feed' = Append(feed, i)
        /\ UNCHANGED chain

\* The chain grows, or replaces entries that were not published yet.
Reorganise ==
    /\ \A i \in Published : i \in DOMAIN chain' /\ chain'[i] = chain[i]
    /\ UNCHANGED feed

Spec == Init /\ [][Publish \/ Reorganise]_<<chain, feed>>
=============================================================================
