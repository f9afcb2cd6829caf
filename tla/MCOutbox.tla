------------------------------ MODULE MCOutbox ------------------------------
(* Instances of Outbox for TLC.                                            *)
EXTENDS Outbox, TLC

CONSTANT MaxLedger      \* bound on the length of a document's ledger

Symmetry == Permutations(Docs) \cup Permutations(Workers)

LedgerBound == \A d \in Docs : Len(ledger[d]) <= MaxLedger
==============================================================================
