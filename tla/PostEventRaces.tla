----------------------------- MODULE PostEventRaces -----------------------------
(***************************************************************************)
(* The post-event services with overlapping requests.  The ledger handlers *)
(* read the event without a lock, and the endpoints of the settlement load *)
(* it with its payments before the service waits for its row: a session    *)
(* decides on what it has read, while sums over ledgers and payments are   *)
(* queried after the wait.  Handlers that lock the event first, and        *)
(* requests nobody interrupts, remain single steps.                        *)
(***************************************************************************)
EXTENDS PostEvent

CONSTANT Sessions   \* the requests that may be under way at the same time

VARIABLE read   \* what a session has read, as a set of at most one

raceVars == <<vars, read>>

RaceInit == Init /\ read = [s \in Sessions |-> {}]

-----------------------------------------------------------------------------
\* get_settlement loads the settlement with its payments and revisions.
Rows == [status |-> eventStatus, settlement |-> settlement, paid |-> payments,
         history |-> Len(revisions)]

ReadRows(s) ==
    /\ read[s] = {}
    /\ read' = [read EXCEPT ![s] = {Rows}]
    /\ UNCHANGED vars

\* The rest of a ledger handler that has found the event in status ev.
DecideOnLedger(ev) ==
    \/ \E x \in Expenses :
          \/ DeleteDraftExpense(ev, x)
          \/ VerifyExpense(ev, x)
          \/ QueryExpense(ev, x)
          \/ DisallowExpense(ev, x)
    \/ \E x \in Expenses, amount \in Amounts :
          \/ CreateDraftExpense(ev, x, amount)
          \/ UpdateExpense(ev, x, amount)
          \/ PartialVerifyExpense(ev, x, amount)
    \/ \E amount \in Amounts : ApproveAdvance(ev, amount)
    \/ \E i \in Incomes : VerifyIncome(ev, i)

\* Slip: the payments are summed up before the wait for the row.
PayAsSeen(seen) ==
    /\ seen.settlement.status \in Pending
    /\ MutableIn(seen.status)
    /\ payments' = IF seen.settlement.type = "REIMBURSEMENT_DUE"
                   THEN [payments EXCEPT !.reimbursed = @ + seen.settlement.payout
                            - seen.settlement.advance - seen.paid.reimbursed + seen.paid.refunded]
                   ELSE [payments EXCEPT !.refunded = @ + seen.settlement.advance
                            - seen.settlement.payout + seen.paid.reimbursed - seen.paid.refunded]
    /\ settlement' = [settlement EXCEPT !.status = "SETTLED"]
    /\ UNCHANGED <<eventVars, advance, ledgerVars, revisions, closureVars>>

\* A payment is limited by the figures the session holds and the payments of now.
Pay(seen) == \E amount \in PaymentAmounts : RecordPayment(seen.status, seen.settlement, amount)

\* Slip: the revision is numbered by the history that was loaded with the row.
ReopenAsSeen(seen) ==
    /\ MutableIn(seen.status)
    /\ seen.settlement.status = "SETTLED"
    /\ Len(revisions) < MaxReopenings
    /\ revisions' = Append(revisions, [number     |-> seen.history + 1,
                                       status     |-> "SETTLED",
                                       advance    |-> seen.settlement.advance,
                                       payout     |-> seen.settlement.payout,
                                       reimbursed |-> seen.paid.reimbursed,
                                       refunded   |-> seen.paid.refunded])
    /\ settlement' = [settlement EXCEPT !.status = "REOPENED"]
    /\ UNCHANGED <<eventVars, advance, ledgerVars, payments, closureVars>>

\* The snapshot is of the rows the session holds; its number is counted now.
Reopen(seen) == ReopenSettlement(seen.status, seen.settlement, seen.paid)

\* The rest of a settlement handler, which tests the rows its session holds.
DecideOnSettlement(seen) ==
    \/ SubmitSettlement(seen.status, seen.settlement)
    \/ QuerySettlement(seen.status, seen.settlement)
    \/ ApproveSettlement(seen.status, seen.settlement)
    \/ Pay(seen)
    \/ Reopen(seen)

Answer(s) ==
    /\ \E seen \in read[s] : DecideOnLedger(seen.status) \/ DecideOnSettlement(seen)
    /\ read' = [read EXCEPT ![s] = {}]

\* The handler raises, and its transaction is rolled back.
Refuse(s) ==
    /\ read[s] # {}
    /\ read' = [read EXCEPT ![s] = {}]
    /\ UNCHANGED vars

\* Bound: no request is under way for as long as a whole revision takes, from the
\* reopening by Finance to the settlement the club prepares again.
NotWhileReading == \A s \in Sessions : read[s] = {}

Uninterrupted ==
    /\ Next
    /\ (settlement.status = "REOPENED" /\ settlement'.status = "DRAFT") => NotWhileReading
    /\ UNCHANGED read

RaceNext ==
    \/ \E s \in Sessions : ReadRows(s) \/ Answer(s) \/ Refuse(s)
    \/ Uninterrupted

RaceSpec == RaceInit /\ [][RaceNext]_raceVars
===============================================================================
