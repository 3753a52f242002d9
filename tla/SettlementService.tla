-------------------------- MODULE SettlementService --------------------------
(***************************************************************************)
(* The money of one event (SettlementService): its cash advance, its       *)
(* income ledger, and the settlement that is prepared from the ledgers,    *)
(* submitted, audited, paid and, on petition, reopened.                    *)
(*                                                                         *)
(* The settlement endpoints load the settlement row before they lock it,   *)
(* and the locking read does not refresh a row the session already holds.  *)
(* Their handlers therefore take that row as the parameter `row': every    *)
(* test they make of the settlement is a test of `row'.  Likewise `ev' is  *)
(* the status of the event in a handler that reads it without a lock.      *)
(***************************************************************************)
EXTENDS PostEventState

-----------------------------------------------------------------------------
(* Cash advance *)

SetAdvance(row) ==
    /\ advance' = row
    /\ UNCHANGED <<eventVars, ledgerVars, settlementVars, closureVars>>

\* One advance per event, at any time before the settlement is SETTLED.
RequestAdvance ==
    /\ Mutable
    /\ eventStatus # "CANCELLED"
    /\ settlement.status # "SETTLED"
    /\ advance.status = "NONE"
    /\ SetAdvance([NoAdvance EXCEPT !.status = "REQUESTED"])

ApproveAdvance(ev, amount) ==
    /\ advance.status = "REQUESTED"
    /\ MutableIn(ev)
    /\ 0 < amount
    /\ amount <= Grant
    /\ SetAdvance([advance EXCEPT !.status = "APPROVED", !.approved = amount])

\* Rejecting and disbursing do not look at the event.
RejectAdvance ==
    /\ advance.status = "REQUESTED"
    /\ SetAdvance([advance EXCEPT !.status = "REJECTED"])

DisburseAdvance(amount) ==
    /\ advance.status = "APPROVED"
    /\ 0 < amount
    /\ amount = advance.approved
    /\ SetAdvance([advance EXCEPT !.status = "DISBURSED", !.disbursed = amount])

-----------------------------------------------------------------------------
(* Income ledger *)

SetIncome(i, row) ==
    /\ incomes' = [incomes EXCEPT ![i] = row]
    /\ UNCHANGED <<eventVars, advance, expenses, settlementVars, closureVars>>

RecordIncome(i, amount) ==
    /\ Mutable
    /\ eventStatus # "CANCELLED"
    /\ settlement.status # "SETTLED"
    /\ 0 < amount
    /\ incomes[i].status = "NONE"
    /\ SetIncome(i, [status |-> "RECORDED", amount |-> amount])

VerifyIncome(ev, i) ==
    /\ MutableIn(ev)
    /\ incomes[i].status = "RECORDED"
    /\ SetIncome(i, [incomes[i] EXCEPT !.status = "VERIFIED"])

\* Rejecting does not look at the event.
RejectIncome(i) ==
    /\ incomes[i].status = "RECORDED"
    /\ SetIncome(i, [incomes[i] EXCEPT !.status = "REJECTED"])

-----------------------------------------------------------------------------
(* Settlement *)

SetSettlementStatus(status) ==
    /\ settlement' = [settlement EXCEPT !.status = status]
    /\ UNCHANGED <<eventVars, advance, ledgerVars, payments, revisions, closureVars>>

\* Slip: a balance of zero counts as a reimbursement.
TypeOfBalanceZeroDue(balance) ==
    IF balance >= 0 THEN "REIMBURSEMENT_DUE" ELSE "REFUND_DUE"

TypeOfBalance(balance) ==
    CASE balance > 0 -> "REIMBURSEMENT_DUE"
      [] balance < 0 -> "REFUND_DUE"
      [] OTHER       -> "BALANCED"

\* Slip: the payments of earlier revisions are forgotten.
PrepareSettlementAnew ==
    /\ Mutable
    /\ eventStatus = "COMPLETED"
    /\ report = "CERTIFIED"
    /\ settlement.status \in {"NONE", "REOPENED"}
    /\ Resolved
    /\ settlement' = [status      |-> "DRAFT",
                      type        |-> TypeOfBalance(Entitlement - DisbursedAdvance),
                      verified    |-> Verified,
                      income      |-> VerifiedIncome,
                      advance     |-> DisbursedAdvance,
                      payout      |-> Entitlement,
                      fingerprint |-> PreparedFingerprint]
    /\ UNCHANGED <<eventVars, advance, ledgerVars, payments, revisions, closureVars>>

\* Compiles the figures from the live rows, counting every payment ever made.
\* Only a missing or a REOPENED settlement may be compiled.
PrepareSettlement ==
    /\ Mutable
    /\ eventStatus = "COMPLETED"
    /\ report = "CERTIFIED"
    /\ settlement.status \in {"NONE", "REOPENED"}
    /\ Resolved
    /\ settlement' = [status      |-> "DRAFT",
                      type        |-> TypeOfBalance(Entitlement - NetCash(DisbursedAdvance)),
                      verified    |-> Verified,
                      income      |-> VerifiedIncome,
                      advance     |-> DisbursedAdvance,
                      payout      |-> Entitlement,
                      fingerprint |-> PreparedFingerprint]
    /\ UNCHANGED <<eventVars, advance, ledgerVars, payments, revisions, closureVars>>

\* Slip: only the totals are compared.
LiveTotalsConsistent(row) ==
    /\ Resolved
    /\ row.verified = Verified
    /\ row.income = VerifiedIncome
    /\ row.advance = DisbursedAdvance

\* The live rows are resolved and still are what the row was compiled from.
LiveSourceConsistent(row) ==
    /\ Resolved
    /\ \A prepared \in row.fingerprint : prepared = SourceRecords
    /\ row.verified = Verified
    /\ row.income = VerifiedIncome
    /\ row.advance = DisbursedAdvance

SubmitSettlement(ev, row) ==
    /\ row.status \in {"DRAFT", "QUERIED", "REOPENED"}
    /\ MutableIn(ev)
    /\ LiveSourceConsistent(row)
    /\ SetSettlementStatus("UNDER_AUDIT")

\* What both audit decisions require.
UnderAudit(ev, row) ==
    /\ row.status = "UNDER_AUDIT"
    /\ MutableIn(ev)
    /\ LiveSourceConsistent(row)

QuerySettlement(ev, row) ==
    /\ UnderAudit(ev, row)
    /\ SetSettlementStatus("QUERIED")

ApprovedStatus(type) ==
    CASE type = "BALANCED"          -> "SETTLED"
      [] type = "REIMBURSEMENT_DUE" -> "PENDING_REIMBURSEMENT"
      [] type = "REFUND_DUE"        -> "PENDING_REFUND"

ApproveSettlement(ev, row) ==
    /\ UnderAudit(ev, row)
    /\ row.type # "NONE"
    /\ SetSettlementStatus(ApprovedStatus(row.type))

Pending == {"PENDING_REIMBURSEMENT", "PENDING_REFUND"}

\* Slip: the payments already recorded are not deducted.
RemainingOfWhole(row) ==
    IF row.type = "REIMBURSEMENT_DUE"
    THEN row.payout - row.advance
    ELSE row.advance - row.payout

\* What is still due in the direction of the settlement.
Remaining(row) ==
    IF row.type = "REIMBURSEMENT_DUE"
    THEN row.payout - NetCash(row.advance)
    ELSE NetCash(row.advance) - row.payout

\* The payment that clears the settlement also settles it.
RecordPayment(ev, row, amount) ==
    /\ row.status \in Pending
    /\ MutableIn(ev)
    /\ row.type # "BALANCED"
    /\ 0 < amount
    /\ amount <= Remaining(row)
    /\ payments' = IF row.type = "REIMBURSEMENT_DUE"
                   THEN [payments EXCEPT !.reimbursed = @ + amount]
                   ELSE [payments EXCEPT !.refunded = @ + amount]
    /\ settlement' = IF Remaining(row) - amount <= 0
                     THEN [settlement EXCEPT !.status = "SETTLED"]
                     ELSE settlement
    /\ UNCHANGED <<eventVars, advance, ledgerVars, revisions, closureVars>>

\* Slip: an approved settlement can be reopened before it is paid.
ReopeningUnpaid(row, paid) ==
    /\ row.status \in Pending \cup {"SETTLED"}
    /\ Len(revisions) < MaxReopenings
    /\ revisions' = Append(revisions, [number     |-> Len(revisions) + 1,
                                       status     |-> row.status,
                                       advance    |-> row.advance,
                                       payout     |-> row.payout,
                                       reimbursed |-> paid.reimbursed,
                                       refunded   |-> paid.refunded])
    /\ settlement' = [settlement EXCEPT !.status = "REOPENED"]

\* Snapshots the row and every payment, then unseals the settlement.  Used by
\* the settlement endpoint and, on a CLOSED event, by approve_reopen.
Reopening(row, paid) ==
    /\ row.status = "SETTLED"
    /\ Len(revisions) < MaxReopenings                                 \* bound
    /\ revisions' = Append(revisions, [number     |-> Len(revisions) + 1,
                                       status     |-> row.status,
                                       advance    |-> row.advance,
                                       payout     |-> row.payout,
                                       reimbursed |-> paid.reimbursed,
                                       refunded   |-> paid.refunded])
    /\ settlement' = [settlement EXCEPT !.status = "REOPENED"]

ReopenSettlement(ev, row, paid) ==
    /\ MutableIn(ev)
    /\ Reopening(row, paid)
    /\ UNCHANGED <<eventVars, advance, ledgerVars, payments, closureVars>>

\* The institution is never more than an advance and a payout ahead.
PaymentAmounts == 1 .. 2 * Grant

SettlementNext ==
    \/ RequestAdvance
    \/ RejectAdvance
    \/ \E amount \in Amounts :
          \/ ApproveAdvance(eventStatus, amount)
          \/ DisburseAdvance(amount)
          \/ \E i \in Incomes : RecordIncome(i, amount)
    \/ \E i \in Incomes :
          \/ VerifyIncome(eventStatus, i)
          \/ RejectIncome(i)
    \/ PrepareSettlement
    \/ SubmitSettlement(eventStatus, settlement)
    \/ QuerySettlement(eventStatus, settlement)
    \/ ApproveSettlement(eventStatus, settlement)
    \/ \E amount \in PaymentAmounts : RecordPayment(eventStatus, settlement, amount)
    \/ ReopenSettlement(eventStatus, settlement, payments)
==============================================================================
