----------------------------- MODULE MCIndexer -----------------------------
(* Instances of Indexer for TLC. *)
EXTENDS Indexer

CONSTANTS ann, t1, t2, w1, w2

\* A chain whose first block holds a mint and an offer for it, for good.
Offered == <<NFFCMinted(t1, ann), NFFCCompositionRecorded(t1), Transferred(t1, ZeroAddress, ann),
             OfferCreated(1, t1, ann, 0, 1)>>
OfferedInit ==
    /\ block = 1
    /\ log = [i \in DOMAIN Offered |-> [event |-> Offered[i], block |-> 0]]
    /\ cursor = None /\ activity = <<>> /\ mirror = NoRows
    /\ worker = [w \in Workers |-> Stopped]
    /\ crashes = 0 /\ aborts = 0
OfferedSpec == OfferedInit /\ [][Next]_vars /\ \A w \in Workers : WF_vars(Step(w))
=============================================================================
