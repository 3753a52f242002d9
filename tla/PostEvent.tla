------------------------------ MODULE PostEvent ------------------------------
(***************************************************************************)
(* One confirmed event with every service that acts on it.  Each request   *)
(* is one step: its transaction runs alone, and the settlement row that    *)
(* its session holds is the current one.                                   *)
(***************************************************************************)
EXTENDS EventExecution, ExpenseLedger, CloseoutService

Next ==
    \/ ExecutionNext
    \/ ExpenseNext
    \/ SettlementNext
    \/ CloseoutNext

Spec == Init /\ [][Next]_vars

\* Finance keeps recording payments while one is accepted.
PayNext == \E amount \in PaymentAmounts : RecordPayment(eventStatus, settlement, amount)
PaymentSpec == Spec /\ WF_vars(PayNext)

-----------------------------------------------------------------------------
(* Safety *)

\* A settlement is marked SETTLED only when the advance it counts plus all
\* reimbursements minus all refunds, over every revision, is the entitlement:
\* audit_settlement settles a balanced one, record_payment a cleared one.
SettledMeansCleared ==
    settlement.status = "SETTLED" => NetCash(settlement.advance) = settlement.payout

\* record_payment never overshoots: while a reimbursement is pending the
\* institution has not paid more than the entitlement, while a refund is
\* pending it has not collected more than the excess.
NeverOverpaid ==
    /\ settlement.status = "PENDING_REIMBURSEMENT" =>
          NetCash(settlement.advance) <= settlement.payout
    /\ settlement.status = "PENDING_REFUND" =>
          NetCash(settlement.advance) >= settlement.payout

\* As long as a settlement was never reopened, an approved one always has
\* something left to pay, so record_payment can clear it.
FirstSettlementIsPayable ==
    (revisions = <<>> /\ settlement.status \in Pending) => Remaining(settlement) > 0

\* A closed or archived event has a certified report, a settled settlement and
\* a certificate, no claim, income or advance awaits a decision, and its hall
\* is no longer in use -- although reject_income, reject_advance and
\* disburse_advance do not look at the event's status.
ClosedIsResolved ==
    eventStatus \in {"CLOSED", "ARCHIVED"} =>
        /\ report = "CERTIFIED"
        /\ settlement.status = "SETTLED"
        /\ closure.certified
        /\ Resolved
        /\ bookingActive => clock = "ENDED"

\* While the event is closed, the figures sealed in the certificate are the
\* settlement's: nothing recompiles the settlement under a valid certificate.
CertificateMatchesSettlement ==
    eventStatus \in {"CLOSED", "ARCHIVED"} =>
        /\ closure.payout = settlement.payout
        /\ closure.verified = settlement.verified
        /\ closure.income = settlement.income

\* The revision history is an audit trail: numbered without gaps, each snapshot
\* taken of a cleared settlement, and the cash it had seen never less than what
\* an earlier snapshot had seen.
RevisionHistory ==
    \A k \in 1 .. Len(revisions) :
        /\ revisions[k].number = k
        /\ revisions[k].status = "SETTLED"
        /\ revisions[k].advance + revisions[k].reimbursed - revisions[k].refunded
              = revisions[k].payout
        /\ revisions[k].reimbursed <= payments.reimbursed
        /\ revisions[k].refunded <= payments.refunded
        /\ \A j \in 1 .. k :
              /\ revisions[j].reimbursed <= revisions[k].reimbursed
              /\ revisions[j].refunded <= revisions[k].refunded

\* approve_reopen records the certificate it revokes in the event's history and
\* the settlement it unseals in the settlement's: every closure revision seals a
\* settled settlement, with the payout of one of the settlement revisions.
ReopeningRecordedTwice ==
    \A k \in 1 .. Len(closureRevisions) :
        /\ closureRevisions[k].number = k
        /\ closureRevisions[k].closure.certified
        /\ closureRevisions[k].status = "SETTLED"
        /\ closureRevisions[k].closure.payout = closureRevisions[k].payout
        /\ \E r \in k .. Len(revisions) : revisions[r].payout = closureRevisions[k].payout

\* A closed or archived event is cleared: nothing is due to anybody, whatever its
\* settlement's status says, and the payout is within the grant.  If the event has cost
\* more, it is for an advance the settlement knows nothing of, disbursed after it was
\* prepared.
ClosedIsCleared ==
    eventStatus \in {"CLOSED", "ARCHIVED"} =>
        /\ NetCash(settlement.advance) = settlement.payout
        /\ settlement.payout <= Grant
        /\ settlement.advance \in {0, DisbursedAdvance}

-----------------------------------------------------------------------------
(* Steps *)

\* Between closing and reopening, no money, ledger, certificate or history
\* changes, archiving included.
ClosedIsFrozen ==
    [][~Mutable /\ ~Mutable' =>
          UNCHANGED <<report, advance, ledgerVars, settlementVars, closureVars>>]_vars

\* Finance approves only what was prepared: with the fingerprint at hand, an
\* approval finds every source record exactly as the settlement was compiled
\* from, even where the totals agree.
ApprovedAsPrepared ==
    [][settlement.status = "UNDER_AUDIT" /\ settlement'.status \in Pending \cup {"SETTLED"}
          => settlement.fingerprint = {SourceRecords}]_vars

Account == INSTANCE EventAccount WITH
    payout     <- settlement.payout,
    advance    <- settlement.advance,
    reimbursed <- payments.reimbursed,
    refunded   <- payments.refunded,
    open       <- settlement.status \in {"NONE", "REOPENED"},
    closed     <- ~Mutable,
    sealed     <- closure.payout,
    history    <- revisions

\* The settlement is an account that is drawn up, paid, closed and reopened as
\* EventAccount says, for the ledgers and the event around it.
SettlementIsAnAccount == Account!Spec

-----------------------------------------------------------------------------
(* Progress *)

\* An approved settlement that was never reopened is paid and settled, whatever
\* else happens to the event's ledgers.
PaymentsClear ==
    (revisions = <<>> /\ settlement.status \in Pending) ~> settlement.status = "SETTLED"

-----------------------------------------------------------------------------
(* What the documents say of the system *)

\* "The college never contributes more than it originally sanctioned": the advance
\* paid out and the payments of a closed event stay within the grant.
CashOutWithinGrant ==
    eventStatus = "CLOSED" => NetCash(DisbursedAdvance) <= Grant
==============================================================================
