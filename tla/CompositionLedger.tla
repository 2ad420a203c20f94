------------------------- MODULE CompositionLedger -------------------------
(* What NFFC promises about compositions (I7): a ledger that gives the next    *)
(* token id its entry and never touches an entry again.                        *)
EXTENDS Integers, Sequences
CONSTANT Entries
VARIABLE ledger        \* ledger[t]: the entry of token t

Init == ledger = <<>>
Record == /\ Len(ledger') = Len(ledger) + 1
          /\ ledger'[Len(ledger')] \in Entries
          /\ SubSeq(ledger', 1, Len(ledger)) = ledger
Spec == Init /\ [][Record]_ledger
=============================================================================
