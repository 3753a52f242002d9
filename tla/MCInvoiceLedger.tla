--------------------------- MODULE MCInvoiceLedger ---------------------------
(* Instances of InvoiceLedger for TLC. *)
EXTENDS InvoiceLedger, TLC

CONSTANTS e1, e2, f1, f2, i1, x1, x2, s1, s2

TwoEvents == {e1, e2}
OneFile == {f1}
TwoFiles == {f1, f2}
OneInvoice == {i1}
TwoLines == {x1, x2}
OneSession == {s1}
TwoSessions == {s1, s2}

Symmetry == Permutations(TwoEvents) \cup Permutations(TwoFiles) \cup Permutations(TwoLines)
==============================================================================
