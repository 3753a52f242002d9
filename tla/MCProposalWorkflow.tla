-------------------------- MODULE MCProposalWorkflow --------------------------
(* Instances of ProposalWorkflow for TLC. *)
EXTENDS ProposalWorkflow, TLC

CONSTANTS p1, p2, c1, c2, x1, x2, hall, other, today, tomorrow

OneProposal == {p1}
TwoProposals == {p1, p2}
OneContent == {c1}
TwoContents == {c1, c2}
NoItem == {}
OneItem == {x1}
TwoItems == {x1, x2}
TwoHalls == {hall, other}
TwoDates == {today, tomorrow}

Morning == [hall |-> hall, date |-> today, from |-> 1, to |-> 3]
\* The same hour, under the wrong date.
Misdated == [hall |-> hall, date |-> tomorrow, from |-> 2, to |-> 4]
\* Begins when the morning ends.
Noon == [hall |-> hall, date |-> today, from |-> 3, to |-> 4]
Elsewhere == [hall |-> other, date |-> today, from |-> 1, to |-> 3]

OverlappingSlots == {Morning, Misdated, Noon}
TwoSlots == {Morning, Noon}
OneSlot == {Morning}

Alike == Permutations(TwoProposals)
===============================================================================
