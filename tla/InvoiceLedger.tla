------------------------------ MODULE InvoiceLedger ------------------------------
(***************************************************************************)
(* What the expense ledger claims and on which bills (ExpenseService): the *)
(* duplicate-invoice check of a new or changed line, the bill it names,    *)
(* and the statuses that decide whether a claim still counts.              *)
(***************************************************************************)
EXTENDS DocumentService

Editable == {"DRAFT", "QUERIED"}

\* Some session has locked the line for its update.
Locked(x) == \E s \in Sessions : session[s].op = "update" /\ session[s].line = x

\* The document is active and belongs to the event.
BillAccepted(e, d) ==
    /\ documents[d].active
    /\ documents[d].event = e

\* Lines other than x that claim the invoice and were not disallowed.
Claims(i, x) ==
    {y \in Lines \ {x} : /\ lines[y].status \notin {"NONE", "DISALLOWED"}
                         /\ lines[y].invoice = i}

\* Slip: two bills of one event may carry the same invoice.
DuplicateOfOtherEvent(e, i, d, x) ==
    /\ i # NoInvoice
    /\ \E y \in Claims(i, x) : lines[y].event # e

\* Another event claims the invoice, or this one does with another bill.
DuplicateInvoice(e, i, d, x) ==
    /\ i # NoInvoice
    /\ \E y \in Claims(i, x) : lines[y].event # e \/ lines[y].bill # d

\* x is a row that does not exist yet.
ReadForCreate(s, x, e, i, d) ==
    /\ session[s].op = "idle"
    /\ lines[x] = NoLine
    /\ phase[e] = "COMPLETED"
    /\ BillAccepted(e, d)
    /\ ~DuplicateInvoice(e, i, d, x)
    /\ Open(s, [op |-> "create",
                row |-> [event |-> e, invoice |-> i, bill |-> d, status |-> "DRAFT"]])
    /\ UNCHANGED <<phase, disk, documents, lines>>

CreateDraftExpense(s, x) ==
    /\ session[s].op = "create"
    /\ lines[x] = NoLine
    /\ lines' = [lines EXCEPT ![x] = session[s].row]
    /\ Open(s, Idle)
    /\ UNCHANGED <<phase, disk, documents>>

\* A replaced bill is checked, and the invoice as it will be after the update.
ReadForUpdate(s, x, i, d) ==
    /\ session[s].op = "idle"
    /\ lines[x].status \in Editable
    /\ ~Locked(x)
    /\ phase[lines[x].event] # "CLOSED"
    /\ d # lines[x].bill => BillAccepted(lines[x].event, d)
    /\ ~DuplicateInvoice(lines[x].event, i, d, x)
    /\ Open(s, [op |-> "update", line |-> x,
                row |-> [lines[x] EXCEPT !.invoice = i, !.bill = d]])
    /\ UNCHANGED <<phase, disk, documents, lines>>

UpdateExpense(s) ==
    /\ session[s].op = "update"
    /\ lines' = [lines EXCEPT ![session[s].line] = session[s].row]
    /\ Open(s, Idle)
    /\ UNCHANGED <<phase, disk, documents>>

SetLine(x, row) ==
    /\ ~Locked(x)
    /\ phase[lines[x].event] # "CLOSED"
    /\ lines' = [lines EXCEPT ![x] = row]
    /\ UNCHANGED <<phase, disk, documents, session>>

\* Slip: the line is emptied but its row remains.
DeleteKeepingRow(x) ==
    /\ lines[x].status \in Editable
    /\ SetLine(x, [lines[x] EXCEPT !.status = "NONE"])

DeleteDraftExpense(x) ==
    /\ lines[x].status \in Editable
    /\ SetLine(x, NoLine)

SubmitExpenses(x) ==
    /\ lines[x].status \in Editable
    /\ phase[lines[x].event] = "COMPLETED"
    /\ SetLine(x, [lines[x] EXCEPT !.status = "SUBMITTED"])

\* The finance officer's three decisions; the certified report they wait for is not
\* part of this state.
AuditExpense(x, decision) ==
    /\ lines[x].status = "SUBMITTED"
    /\ SetLine(x, [lines[x] EXCEPT !.status = decision])

-----------------------------------------------------------------------------
\* The life of an event, which other components decide.
Moves ==
    {<<"DRAFT", "IN_REVIEW">>, <<"IN_REVIEW", "DRAFT">>, <<"IN_REVIEW", "SCHEDULED">>,
     <<"SCHEDULED", "IN_PROGRESS">>, <<"SCHEDULED", "COMPLETED">>, <<"IN_PROGRESS", "COMPLETED">>,
     <<"SCHEDULED", "CANCELLED">>, <<"IN_PROGRESS", "CANCELLED">>,
     <<"COMPLETED", "CLOSED">>, <<"CLOSED", "COMPLETED">>}

\* certify_closeout wants every line of the event decided.
Undecided(e) == {x \in Lines : /\ lines[x].status \in Editable \cup {"SUBMITTED"}
                               /\ lines[x].event = e}

MoveEvent(e, to) ==
    /\ <<phase[e], to>> \in Moves
    /\ to = "CLOSED" => Undecided(e) = {}
    /\ phase' = [phase EXCEPT ![e] = to]
    /\ UNCHANGED <<disk, documents, lines, session>>

LedgerNext ==
    \/ \E s \in Sessions, x \in Lines :
          \/ \E i \in Invoices \cup {NoInvoice}, d \in DOMAIN documents :
                \/ \E e \in Events : ReadForCreate(s, x, e, i, d)
                \/ ReadForUpdate(s, x, i, d)
          \/ CreateDraftExpense(s, x)
    \/ \E s \in Sessions : UpdateExpense(s)
    \/ \E x \in Lines :
          \/ DeleteDraftExpense(x)
          \/ SubmitExpenses(x)
          \/ \E decision \in {"VERIFIED", "QUERIED", "DISALLOWED"} : AuditExpense(x, decision)

Next ==
    \/ DocumentNext
    \/ LedgerNext
    \/ \E e \in Events, to \in Phases : MoveEvent(e, to)

Spec == Init /\ [][Next]_vars

-----------------------------------------------------------------------------
(* Safety *)

\* Every document has its file, with the content that was hashed, whatever uploads
\* were rolled back before: no two documents share a file.
StoredFile ==
    /\ \A d \in DOMAIN documents :
          /\ documents[d].path \in DOMAIN disk
          /\ documents[d].hash \in {NoHash, disk[documents[d].path]}
    /\ \A c, d \in DOMAIN documents : documents[c].path = documents[d].path => c = d

\* A bill uploaded as an invoice is one document of one event.
BillUploadedOnce ==
    \A c, d \in DOMAIN documents :
        (/\ documents[c].active /\ documents[d].active
         /\ documents[c].kind = "invoice" /\ documents[d].kind = "invoice"
         /\ documents[c].hash = documents[d].hash)
        => c = d

\* An invoice is claimed by one event on one bill, through every creation, edit,
\* query and resubmission of the lines that share it, until it is disallowed.
OneClaim ==
    \A x \in Lines : \A y \in (IF lines[x].status \in {"NONE", "DISALLOWED"} THEN {}
                               ELSE Claims(lines[x].invoice, x)) :
        lines[x].invoice # NoInvoice =>
            lines[x].event = lines[y].event /\ lines[x].bill = lines[y].bill

\* The bill of a line stays an active document of the line's event: what only a
\* proposal in DRAFT may delete cannot be a bill yet.
BillInForce ==
    \A x \in Lines :
        lines[x].status # "NONE" =>
            /\ lines[x].bill \in DOMAIN documents
            /\ BillAccepted(lines[x].event, lines[x].bill)
===============================================================================
