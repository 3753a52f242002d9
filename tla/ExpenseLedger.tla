---------------------------- MODULE ExpenseLedger ----------------------------
(***************************************************************************)
(* The ledger of actual expenses (ExpenseService): the club secretary      *)
(* drafts, amends, discards and submits expense lines, and the finance     *)
(* officer verifies, partially verifies, queries or disallows each.  A     *)
(* handler reads the event without a lock: `ev' is the status it found.    *)
(***************************************************************************)
EXTENDS PostEventState

\* Only the ledger of expenses changes.
SetExpenses(new) ==
    /\ expenses' = new
    /\ UNCHANGED <<eventVars, advance, incomes, settlementVars, closureVars>>

SetExpense(x, row) == SetExpenses([expenses EXCEPT ![x] = row])

\* A line the secretary may still change.
Editable(x) == expenses[x].status \in {"DRAFT", "QUERIED"}

\* Neither this nor any other ledger operation looks at the settlement.
CreateDraftExpense(ev, x, amount) ==
    /\ MutableIn(ev)
    /\ ev = "COMPLETED"
    /\ expenses[x].status = "NONE"
    /\ SetExpense(x, [status |-> "DRAFT", claimed |-> amount, verified |-> 0])

UpdateExpense(ev, x, amount) ==
    /\ MutableIn(ev)
    /\ Editable(x)
    /\ SetExpense(x, [expenses[x] EXCEPT !.claimed = amount])

DeleteDraftExpense(ev, x) ==
    /\ MutableIn(ev)
    /\ Editable(x)
    /\ SetExpense(x, NoExpense)

\* Submits the listed lines that are editable, or every editable line when the
\* request lists none; at least one must be.
SubmitExpenses(lines) ==
    /\ Mutable
    /\ eventStatus = "COMPLETED"
    /\ lines # {}
    /\ \A x \in lines : Editable(x)
    /\ SetExpenses([x \in Expenses |->
                       IF x \in lines
                       THEN [expenses[x] EXCEPT !.status = "SUBMITTED"]
                       ELSE expenses[x]])

\* What every finance decision on a line requires.
Auditable(ev, x) ==
    /\ MutableIn(ev)
    /\ report = "CERTIFIED"
    /\ expenses[x].status = "SUBMITTED"

VerifyExpense(ev, x) ==
    /\ Auditable(ev, x)
    /\ SetExpense(x, [expenses[x] EXCEPT !.status = "VERIFIED",
                                         !.verified = expenses[x].claimed])

PartialVerifyExpense(ev, x, amount) ==
    /\ Auditable(ev, x)
    /\ 0 < amount
    /\ amount < expenses[x].claimed
    /\ SetExpense(x, [expenses[x] EXCEPT !.status = "PARTIALLY_VERIFIED",
                                         !.verified = amount])

QueryExpense(ev, x) ==
    /\ Auditable(ev, x)
    /\ SetExpense(x, [expenses[x] EXCEPT !.status = "QUERIED"])

DisallowExpense(ev, x) ==
    /\ Auditable(ev, x)
    /\ SetExpense(x, [expenses[x] EXCEPT !.status = "DISALLOWED", !.verified = 0])

ExpenseNext ==
    \/ \E lines \in SUBSET Expenses : SubmitExpenses(lines)
    \/ \E x \in Expenses :
          \/ DeleteDraftExpense(eventStatus, x)
          \/ VerifyExpense(eventStatus, x)
          \/ QueryExpense(eventStatus, x)
          \/ DisallowExpense(eventStatus, x)
    \/ \E x \in Expenses, amount \in Amounts :
          \/ CreateDraftExpense(eventStatus, x, amount)
          \/ UpdateExpense(eventStatus, x, amount)
          \/ PartialVerifyExpense(eventStatus, x, amount)
==============================================================================
