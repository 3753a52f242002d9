--------------------------- MODULE PostEventState ---------------------------
(***************************************************************************)
(* The database rows of one confirmed event, from the day it is scheduled  *)
(* to the day it is archived: the event itself, its hall booking, the      *)
(* post-event report, the cash advance, the expense and income ledgers,    *)
(* the financial settlement with its payments and revisions, and the       *)
(* closure certificate.  The services that change these rows are in        *)
(* EventExecution, ExpenseLedger, SettlementService and CloseoutService.   *)
(*                                                                         *)
(* Money is a natural number of units.  A row that does not exist has      *)
(* status "NONE".                                                          *)
(***************************************************************************)
EXTENDS Integers, FiniteSets, Sequences

CONSTANTS
    Expenses,          \* identities of the expense lines the club may file
    Incomes,           \* identities of the income entries the club may record
    MaxAmount,         \* bound on a claimed, received or requested amount
    Grant,             \* sanctioned institute contribution of the approved version
    MaxReopenings,     \* bound on the number of settlement reopenings
    FingerprintFound   \* can a later request look up the prepared fingerprint?

ASSUME SlotsAssumption == IsFiniteSet(Expenses) /\ IsFiniteSet(Incomes)
ASSUME AmountsAssumption == MaxAmount \in Nat /\ Grant \in Nat
ASSUME BoundsAssumption == MaxReopenings \in Nat /\ FingerprintFound \in BOOLEAN

VARIABLES
    eventStatus,       \* Event.status
    clock,             \* the present, relative to the booked time window
    bookingActive,     \* HallBookingConfirmed.is_active
    report,            \* PostEventReport.status
    advance,           \* CashAdvance: status, amount_approved, amount_disbursed
    expenses,          \* ActualExpense rows: status, claimed_ and verified_amount
    incomes,           \* ActualIncome rows: status and amount
    settlement,        \* FinancialSettlement
    payments,          \* SettlementPayment totals, per direction
    revisions,         \* SettlementRevision snapshots, oldest first
    closure,           \* EventClosure and the figures its manifest hash seals
    closureRevisions   \* EventClosureRevision snapshots, oldest first

eventVars == <<eventStatus, clock, bookingActive, report>>
ledgerVars == <<expenses, incomes>>
settlementVars == <<settlement, payments, revisions>>
closureVars == <<closure, closureRevisions>>
vars == <<eventVars, advance, ledgerVars, settlementVars, closureVars>>

-----------------------------------------------------------------------------
(* Statuses and rows *)

Amounts == 1 .. MaxAmount

EventStatuses == {"SCHEDULED", "IN_PROGRESS", "COMPLETED", "CANCELLED",
                  "CLOSURE_REQUESTED", "CLOSED", "ARCHIVED"}
ReportStatuses == {"NONE", "SUBMITTED", "REVISION_REQUIRED", "CERTIFIED"}
AdvanceStatuses == {"NONE", "REQUESTED", "APPROVED", "REJECTED", "DISBURSED"}
ExpenseStatuses == {"NONE", "DRAFT", "SUBMITTED", "QUERIED", "VERIFIED",
                    "PARTIALLY_VERIFIED", "DISALLOWED"}
IncomeStatuses == {"NONE", "RECORDED", "VERIFIED", "REJECTED"}
SettlementStatuses == {"NONE", "DRAFT", "UNDER_AUDIT", "QUERIED",
                       "PENDING_REIMBURSEMENT", "PENDING_REFUND",
                       "SETTLED", "REOPENED"}
SettlementTypes == {"NONE", "REIMBURSEMENT_DUE", "REFUND_DUE", "BALANCED"}

Advance == [status : AdvanceStatuses, approved : Nat, disbursed : Nat]
Expense == [status : ExpenseStatuses, claimed : Nat, verified : Nat]
Income == [status : IncomeStatuses, amount : Nat]
Ledger == [expenses : [Expenses -> Expense],
           incomes  : [Incomes -> Income],
           advance  : Advance]

\* The fingerprint hashes every source record: two fingerprints are equal exactly
\* when the records are, so the records stand for it.  It is kept as a set of at
\* most one member, empty when a later request cannot look it up.
Settlement == [status      : SettlementStatuses,
               type        : SettlementTypes,
               verified    : Nat,    \* total_verified_expenditure
               income      : Nat,    \* total_verified_income
               advance     : Nat,    \* cash_advance_disbursed
               payout      : Nat,    \* institutional_payout
               fingerprint : SUBSET Ledger]

Payments == [reimbursed : Nat, refunded : Nat]
Revision == [number : Nat, status : SettlementStatuses, advance : Nat,
             payout : Nat, reimbursed : Nat, refunded : Nat]
Closure == [certified : BOOLEAN, verified : Nat, income : Nat, payout : Nat]
ClosureRevision == [number : Nat, closure : Closure,
                    status : SettlementStatuses, payout : Nat]

NoAdvance == [status |-> "NONE", approved |-> 0, disbursed |-> 0]
NoExpense == [status |-> "NONE", claimed |-> 0, verified |-> 0]
NoIncome == [status |-> "NONE", amount |-> 0]
NoSettlement == [status |-> "NONE", type |-> "NONE", verified |-> 0, income |-> 0,
                 advance |-> 0, payout |-> 0, fingerprint |-> {}]
NoClosure == [certified |-> FALSE, verified |-> 0, income |-> 0, payout |-> 0]

TypeOK ==
    /\ eventStatus \in EventStatuses
    /\ clock \in {"BEFORE", "OPEN", "ENDED"}
    /\ bookingActive \in BOOLEAN
    /\ report \in ReportStatuses
    /\ advance \in Advance
    /\ expenses \in [Expenses -> Expense]
    /\ incomes \in [Incomes -> Income]
    /\ settlement \in Settlement
    /\ payments \in Payments
    /\ revisions \in Seq(Revision)
    /\ closure \in Closure
    /\ closureRevisions \in Seq(ClosureRevision)

\* create_confirmed_event: the event is SCHEDULED, its hall is booked, and
\* nothing of the post-event process exists yet.
Init ==
    /\ eventStatus = "SCHEDULED"
    /\ clock = "BEFORE"
    /\ bookingActive = TRUE
    /\ report = "NONE"
    /\ advance = NoAdvance
    /\ expenses = [x \in Expenses |-> NoExpense]
    /\ incomes = [i \in Incomes |-> NoIncome]
    /\ settlement = NoSettlement
    /\ payments = [reimbursed |-> 0, refunded |-> 0]
    /\ revisions = <<>>
    /\ closure = NoClosure
    /\ closureRevisions = <<>>

-----------------------------------------------------------------------------
(* What the services compute from the rows *)

\* CLOSED and ARCHIVED events refuse operational mutations.
MutableIn(status) == status \notin {"CLOSED", "ARCHIVED"}
Mutable == MutableIn(eventStatus)

UnresolvedExpenses ==
    {x \in Expenses : expenses[x].status \in {"DRAFT", "SUBMITTED", "QUERIED"}}
UnresolvedIncomes == {i \in Incomes : incomes[i].status = "RECORDED"}
AdvanceUnresolved == advance.status \in {"REQUESTED", "APPROVED"}

Resolved == /\ UnresolvedExpenses = {}
            /\ UnresolvedIncomes = {}
            /\ ~AdvanceUnresolved

\* A sum of amounts is the number of pairs of a row and one of its units.
Verified ==
    Cardinality({u \in Expenses \X Amounts :
                    /\ expenses[u[1]].status \in {"VERIFIED", "PARTIALLY_VERIFIED"}
                    /\ u[2] <= expenses[u[1]].verified})
VerifiedIncome ==
    Cardinality({u \in Incomes \X Amounts :
                    /\ incomes[u[1]].status = "VERIFIED"
                    /\ u[2] <= incomes[u[1]].amount})
DisbursedAdvance == IF advance.status = "DISBURSED" THEN advance.disbursed ELSE 0

\* Slip: the deficit is not clamped at zero.
NetDeficitUnclamped == Verified - VerifiedIncome

\* net_deficit = max(0, V - I);  institutional_payout = min(G, net_deficit)
NetDeficit == IF Verified > VerifiedIncome THEN Verified - VerifiedIncome ELSE 0
Entitlement == IF Grant < NetDeficit THEN Grant ELSE NetDeficit

SourceRecords == [expenses |-> expenses, incomes |-> incomes, advance |-> advance]
PreparedFingerprint == IF FingerprintFound THEN {SourceRecords} ELSE {}

\* Cash the institution has put into the event, given the advance it counts.
NetCash(adv) == adv + payments.reimbursed - payments.refunded
=============================================================================
