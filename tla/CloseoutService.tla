--------------------------- MODULE CloseoutService ---------------------------
(***************************************************************************)
(* Closing an event for good (CloseoutService): the secretary requests     *)
(* closeout, the dean or the principal certifies or rejects it, a closed   *)
(* event may be reopened on petition, and a system administrator archives  *)
(* it.  A petition (request_reopen) only writes the audit log.             *)
(***************************************************************************)
EXTENDS SettlementService

\* Slips: the ledgers, or only the advance, are not looked at.
ClosureEligibleUnresolved ==
    /\ eventStatus # "CANCELLED"
    /\ report = "CERTIFIED"
    /\ settlement.status = "SETTLED"
    /\ NetCash(settlement.advance) = settlement.payout
    /\ bookingActive => clock = "ENDED"

ClosureEligibleAdvanceOpen ==
    /\ eventStatus # "CANCELLED"
    /\ report = "CERTIFIED"
    /\ UnresolvedExpenses = {}
    /\ UnresolvedIncomes = {}
    /\ settlement.status = "SETTLED"
    /\ NetCash(settlement.advance) = settlement.payout
    /\ bookingActive => clock = "ENDED"

\* No blocker of get_closure_eligibility remains.  The event's own status is the
\* caller's test.
ClosureEligible ==
    /\ eventStatus # "CANCELLED"
    /\ report = "CERTIFIED"
    /\ Resolved
    /\ settlement.status = "SETTLED"
    /\ NetCash(settlement.advance) = settlement.payout
    /\ bookingActive => clock = "ENDED"

RequestCloseout ==
    /\ eventStatus = "COMPLETED"
    /\ ClosureEligible
    /\ eventStatus' = "CLOSURE_REQUESTED"
    /\ UNCHANGED <<clock, bookingActive, report, advance, ledgerVars,
                   settlementVars, closureVars>>

\* Slip: the certificate of an earlier closing is kept.
CertifyCloseoutOnce ==
    /\ eventStatus = "CLOSURE_REQUESTED"
    /\ ClosureEligible
    /\ closure' = IF closure.certified
                  THEN closure
                  ELSE [certified |-> TRUE,
                        verified  |-> settlement.verified,
                        income    |-> settlement.income,
                        payout    |-> settlement.payout]
    /\ eventStatus' = "CLOSED"
    /\ UNCHANGED <<clock, bookingActive, report, advance, ledgerVars,
                   settlementVars, closureRevisions>>

\* Checks everything again, seals the settlement's figures in the certificate
\* (inserted, or overwritten when the event was closed before) and closes.
CertifyCloseout ==
    /\ eventStatus = "CLOSURE_REQUESTED"
    /\ ClosureEligible
    /\ closure' = [certified |-> TRUE,
                   verified  |-> settlement.verified,
                   income    |-> settlement.income,
                   payout    |-> settlement.payout]
    /\ eventStatus' = "CLOSED"
    /\ UNCHANGED <<clock, bookingActive, report, advance, ledgerVars,
                   settlementVars, closureRevisions>>

RejectCloseout ==
    /\ eventStatus = "CLOSURE_REQUESTED"
    /\ eventStatus' = "COMPLETED"
    /\ UNCHANGED <<clock, bookingActive, report, advance, ledgerVars,
                   settlementVars, closureVars>>

\* Slip: the settlement is unsealed without a snapshot of its own.
ApproveReopenUnrecorded ==
    /\ eventStatus = "CLOSED"
    /\ closure.certified
    /\ Len(closureRevisions) < MaxReopenings
    /\ closureRevisions' = Append(closureRevisions,
                                  [number  |-> Len(closureRevisions) + 1,
                                   closure |-> closure,
                                   status  |-> settlement.status,
                                   payout  |-> settlement.payout])
    /\ eventStatus' = "COMPLETED"
    /\ settlement' = [settlement EXCEPT !.status = "REOPENED"]
    /\ UNCHANGED <<clock, bookingActive, report, advance, ledgerVars, payments,
                   revisions, closure>>

\* Snapshots the certificate, then reopens event and settlement together.  The
\* event is COMPLETED in this session when reopen_settlement tests it.
ApproveReopen ==
    /\ eventStatus = "CLOSED"
    /\ closure.certified
    /\ closureRevisions' = Append(closureRevisions,
                                  [number  |-> Len(closureRevisions) + 1,
                                   closure |-> closure,
                                   status  |-> settlement.status,
                                   payout  |-> settlement.payout])
    /\ eventStatus' = "COMPLETED"
    /\ Reopening(settlement, payments)
    /\ UNCHANGED <<clock, bookingActive, report, advance, ledgerVars, payments,
                   closure>>

ArchiveEvent ==
    /\ eventStatus = "CLOSED"
    /\ closure.certified
    /\ eventStatus' = "ARCHIVED"
    /\ UNCHANGED <<clock, bookingActive, report, advance, ledgerVars,
                   settlementVars, closureVars>>

CloseoutNext ==
    \/ RequestCloseout
    \/ CertifyCloseout
    \/ RejectCloseout
    \/ ApproveReopen
    \/ ArchiveEvent
==============================================================================
