----------------------------- MODULE BudgetService -----------------------------
(***************************************************************************)
(* A club budgets its proposal in line items; a Finance Officer marks the  *)
(* budget verified or queried.  Each operation runs alone.                 *)
(***************************************************************************)
EXTENDS ProposalState

SetBudget(p, b) ==
    /\ budget' = [budget EXCEPT ![p] = b]
    /\ UNCHANGED <<request, versions, venue, booking, workflow, confirmed>>

\* A sum of amounts is the number of pairs of an item and one of its units.
TotalOf(items) == Cardinality({u \in Items \X Amounts : u[2] <= items[u[1]]})

\* A patched header must balance against the stored total, when there is one.
Balanced(income, contribution, total) == income + contribution <= total

CreateBudgetProposal(p, row, income, contribution, items) ==
    /\ Editable(row)
    /\ budget[p].finance = "NONE"
    /\ contribution <= Cap
    /\ items = NoItems \/ Balanced(income, contribution, TotalOf(items))
    /\ SetBudget(p, [finance |-> "PENDING", income |-> income, contribution |-> contribution,
                     total |-> TotalOf(items), items |-> items])

UpdateBudgetProposal(p, row, income, contribution) ==
    /\ Editable(row)
    /\ budget[p].finance # "NONE"
    /\ contribution <= Cap
    /\ budget[p].total > 0 => Balanced(income, contribution, budget[p].total)
    /\ SetBudget(p, [budget[p] EXCEPT !.income = income, !.contribution = contribution])

DeleteBudgetProposal(p, row) ==
    /\ Editable(row)
    /\ budget[p].finance # "NONE"
    /\ SetBudget(p, NoBudget)

\* Slip: the total is left as it was.
SetItemOnly(p, x, amount) == SetBudget(p, [budget[p] EXCEPT !.items[x] = amount])

\* Every change of a line recomputes the total from the lines.
SetItem(p, x, amount) ==
    LET items == [budget[p].items EXCEPT ![x] = amount]
    IN  SetBudget(p, [budget[p] EXCEPT !.items = items, !.total = TotalOf(items)])

AddLineItem(p, row, x, amount) ==
    /\ Editable(row)
    /\ budget[p].finance # "NONE"
    /\ budget[p].items[x] = 0
    /\ SetItem(p, x, amount)

UpdateLineItem(p, row, x, amount) ==
    /\ Editable(row)
    /\ budget[p].finance # "NONE"
    /\ budget[p].items[x] > 0
    /\ SetItem(p, x, amount)

DeleteLineItem(p, row, x) ==
    /\ Editable(row)
    /\ budget[p].finance # "NONE"
    /\ budget[p].items[x] > 0
    /\ SetItem(p, x, 0)

\* Finance may mark a budget at any time, whatever the proposal's status.
VerifyBudget(p, mark) ==
    /\ budget[p].finance # "NONE"
    /\ SetBudget(p, [budget[p] EXCEPT !.finance = mark])

BudgetNext ==
    \E p \in Proposals :
        \/ \E income, contribution \in 0 .. MaxAmount, items \in [Items -> 0 .. MaxAmount] :
              CreateBudgetProposal(p, request[p], income, contribution, items)
        \/ \E income, contribution \in 0 .. MaxAmount :
              UpdateBudgetProposal(p, request[p], income, contribution)
        \/ DeleteBudgetProposal(p, request[p])
        \/ \E x \in Items, amount \in Amounts : AddLineItem(p, request[p], x, amount)
        \/ \E x \in Items, amount \in Amounts : UpdateLineItem(p, request[p], x, amount)
        \/ \E x \in Items : DeleteLineItem(p, request[p], x)
        \/ \E mark \in {"VERIFIED", "QUERIED"} : VerifyBudget(p, mark)
================================================================================
