--------------------------- MODULE PostEventProofs ---------------------------
(***************************************************************************)
(* Theorems about PostEvent, for every set of expense and income lines,    *)
(* every grant and every bound.                                            *)
(***************************************************************************)
EXTENDS PostEvent, FiniteSetTheorems, TLAPS

-----------------------------------------------------------------------------
(* The figures computed from the ledgers *)

\* The amount Verified sums up is a natural number, whatever the ledger holds.
LEMMA VerifiedNat == Verified \in Nat
<1> DEFINE Units == {u \in Expenses \X Amounts :
                        /\ expenses[u[1]].status \in {"VERIFIED", "PARTIALLY_VERIFIED"}
                        /\ u[2] <= expenses[u[1]].verified}
<1>1. IsFiniteSet(Amounts)
  BY FS_Interval, AmountsAssumption DEF Amounts
<1>2. IsFiniteSet(Expenses \X Amounts)
  BY <1>1, SlotsAssumption, FS_Product
<1>3. IsFiniteSet(Units)
  BY <1>2, FS_Subset
<1> QED
  BY <1>3, FS_CardinalityType DEF Verified

\* So is the amount VerifiedIncome sums up.
LEMMA VerifiedIncomeNat == VerifiedIncome \in Nat
<1> DEFINE Units == {u \in Incomes \X Amounts :
                        /\ incomes[u[1]].status = "VERIFIED"
                        /\ u[2] <= incomes[u[1]].amount}
<1>1. IsFiniteSet(Amounts)
  BY FS_Interval, AmountsAssumption DEF Amounts
<1>2. IsFiniteSet(Incomes \X Amounts)
  BY <1>1, SlotsAssumption, FS_Product
<1>3. IsFiniteSet(Units)
  BY <1>2, FS_Subset
<1> QED
  BY <1>3, FS_CardinalityType DEF VerifiedIncome

\* min(G, max(0, V - I)) is a natural number no greater than the grant.
LEMMA EntitlementBound == Entitlement \in 0 .. Grant
BY VerifiedNat, VerifiedIncomeNat, AmountsAssumption DEF Entitlement, NetDeficit

LEMMA DisbursedNat == TypeOK => DisbursedAdvance \in Nat
BY DEF TypeOK, Advance, DisbursedAdvance

LEMMA FingerprintType == TypeOK => PreparedFingerprint \in SUBSET Ledger
BY DEF TypeOK, PreparedFingerprint, SourceRecords, Ledger

-----------------------------------------------------------------------------
(* Type correctness *)

LEMMA InitType == Init => TypeOK
<1> SUFFICES ASSUME Init PROVE TypeOK
  OBVIOUS
<1>1. expenses \in [Expenses -> Expense] /\ incomes \in [Incomes -> Income]
  BY DEF Init, NoExpense, NoIncome, Expense, ExpenseStatuses, Income, IncomeStatuses
<1>2. advance \in Advance /\ settlement \in Settlement /\ closure \in Closure
  BY DEF Init, NoAdvance, Advance, AdvanceStatuses, NoSettlement, Settlement,
         SettlementStatuses, SettlementTypes, NoClosure, Closure
<1>3. revisions \in Seq(Revision) /\ closureRevisions \in Seq(ClosureRevision)
  BY DEF Init
<1> QED
  BY <1>1, <1>2, <1>3 DEF Init, TypeOK, EventStatuses, ReportStatuses, Payments

LEMMA ExecutionType == TypeOK /\ ExecutionNext => TypeOK'
<1> SUFFICES ASSUME TypeOK, ExecutionNext PROVE TypeOK'
  OBVIOUS
<1> USE DEF TypeOK, ledgerVars, settlementVars, closureVars
<1>1. CASE ClockAdvances
  BY <1>1 DEF ClockAdvances
<1>2. CASE StartEvent
  BY <1>2 DEF StartEvent, EventStatuses
<1>3. CASE AdminStartEvent
  BY <1>3 DEF AdminStartEvent, EventStatuses
<1>4. CASE CompleteAndSubmitReport
  BY <1>4 DEF CompleteAndSubmitReport, EventStatuses, ReportStatuses
<1>5. CASE CertifyReport
  BY <1>5 DEF CertifyReport, ReportTransition, ReportStatuses
<1>6. CASE RequestReportRevision
  BY <1>6 DEF RequestReportRevision, ReportTransition, ReportStatuses
<1>7. CASE ResubmitReport
  BY <1>7 DEF ResubmitReport, ReportTransition, ReportStatuses
<1>8. CASE CancelConfirmedEvent
  <2>1. advance' \in Advance
    BY <1>8 DEF CancelConfirmedEvent, Advance, AdvanceStatuses
  <2> QED
    BY <1>8, <2>1 DEF CancelConfirmedEvent, EventStatuses
<1> QED
  BY <1>1, <1>2, <1>3, <1>4, <1>5, <1>6, <1>7, <1>8 DEF ExecutionNext

\* A ledger step keeps TypeOK when the row it writes is an expense row.
LEMMA SetExpenseType ==
  ASSUME NEW x \in Expenses, NEW row \in Expense, TypeOK, SetExpense(x, row)
  PROVE  TypeOK'
BY DEF SetExpense, SetExpenses, TypeOK, eventVars, settlementVars, closureVars

LEMMA ExpenseType == TypeOK /\ ExpenseNext => TypeOK'
<1> SUFFICES ASSUME TypeOK, ExpenseNext PROVE TypeOK'
  OBVIOUS
<1>0. \A x \in Expenses : expenses[x] \in Expense
  BY DEF TypeOK
<1>1. ASSUME NEW lines \in SUBSET Expenses, SubmitExpenses(lines) PROVE TypeOK'
  <2>1. expenses' \in [Expenses -> Expense]
    BY <1>0, <1>1 DEF SubmitExpenses, SetExpenses, Expense, ExpenseStatuses
  <2> QED
    BY <1>1, <2>1 DEF SubmitExpenses, SetExpenses, TypeOK, eventVars, settlementVars,
                      closureVars
<1>2. ASSUME NEW x \in Expenses, DeleteDraftExpense(eventStatus, x) PROVE TypeOK'
  <2>1. NoExpense \in Expense
    BY DEF NoExpense, Expense, ExpenseStatuses
  <2> QED
    BY <1>2, <2>1, SetExpenseType DEF DeleteDraftExpense
<1>3. ASSUME NEW x \in Expenses, VerifyExpense(eventStatus, x) PROVE TypeOK'
  <2>1. [expenses[x] EXCEPT !.status = "VERIFIED",
                            !.verified = expenses[x].claimed] \in Expense
    BY <1>0 DEF Expense, ExpenseStatuses
  <2> QED
    BY <1>3, <2>1, SetExpenseType DEF VerifyExpense
<1>4. ASSUME NEW x \in Expenses, QueryExpense(eventStatus, x) PROVE TypeOK'
  <2>1. [expenses[x] EXCEPT !.status = "QUERIED"] \in Expense
    BY <1>0 DEF Expense, ExpenseStatuses
  <2> QED
    BY <1>4, <2>1, SetExpenseType DEF QueryExpense
<1>5. ASSUME NEW x \in Expenses, DisallowExpense(eventStatus, x) PROVE TypeOK'
  <2>1. [expenses[x] EXCEPT !.status = "DISALLOWED", !.verified = 0] \in Expense
    BY <1>0 DEF Expense, ExpenseStatuses
  <2> QED
    BY <1>5, <2>1, SetExpenseType DEF DisallowExpense
<1>6. ASSUME NEW x \in Expenses, NEW amount \in Amounts, CreateDraftExpense(eventStatus, x, amount)
      PROVE TypeOK'
  <2>1. [status |-> "DRAFT", claimed |-> amount, verified |-> 0] \in Expense
    BY AmountsAssumption DEF Expense, ExpenseStatuses, Amounts
  <2> QED
    BY <1>6, <2>1, SetExpenseType DEF CreateDraftExpense
<1>7. ASSUME NEW x \in Expenses, NEW amount \in Amounts, UpdateExpense(eventStatus, x, amount)
      PROVE TypeOK'
  <2>1. [expenses[x] EXCEPT !.claimed = amount] \in Expense
    BY <1>0, AmountsAssumption DEF Expense, Amounts
  <2> QED
    BY <1>7, <2>1, SetExpenseType DEF UpdateExpense
<1>8. ASSUME NEW x \in Expenses, NEW amount \in Amounts, PartialVerifyExpense(eventStatus, x, amount)
      PROVE TypeOK'
  <2>1. amount \in Nat
    BY AmountsAssumption DEF Amounts
  <2>2. [expenses[x] EXCEPT !.status = "PARTIALLY_VERIFIED", !.verified = amount]
           \in Expense
    BY <1>0, <2>1 DEF Expense, ExpenseStatuses
  <2> QED
    BY <1>8, <2>2, SetExpenseType DEF PartialVerifyExpense
<1> QED
  BY <1>1, <1>2, <1>3, <1>4, <1>5, <1>6, <1>7, <1>8 DEF ExpenseNext

\* The advance and income handlers write one row.
LEMMA SetAdvanceType ==
  ASSUME NEW row \in Advance, TypeOK, SetAdvance(row)
  PROVE  TypeOK'
BY DEF SetAdvance, TypeOK, eventVars, ledgerVars, settlementVars, closureVars

LEMMA SetIncomeType ==
  ASSUME NEW i \in Incomes, NEW row \in Income, TypeOK, SetIncome(i, row)
  PROVE  TypeOK'
BY DEF SetIncome, TypeOK, eventVars, settlementVars, closureVars

LEMMA SetStatusType ==
  ASSUME NEW status \in SettlementStatuses, TypeOK, SetSettlementStatus(status)
  PROVE  TypeOK'
BY DEF SetSettlementStatus, TypeOK, Settlement, eventVars, ledgerVars, closureVars

LEMMA SnapshotType ==
  ASSUME NEW row \in Settlement, NEW paid \in Payments, TypeOK, Reopening(row, paid)
  PROVE  \E last \in Revision : revisions' = Append(revisions, last)
<1>1. [number     |-> Len(revisions) + 1,
       status     |-> row.status,
       advance    |-> row.advance,
       payout     |-> row.payout,
       reimbursed |-> paid.reimbursed,
       refunded   |-> paid.refunded] \in Revision
  BY DEF TypeOK, Settlement, Payments, Revision
<1> QED
  BY <1>1 DEF Reopening

LEMMA ReopeningType ==
  ASSUME TypeOK, Reopening(settlement, payments)
  PROVE  settlement' \in Settlement /\ revisions' \in Seq(Revision)
<1>1. settlement' \in Settlement
  BY DEF Reopening, TypeOK, Settlement, SettlementStatuses
<1>2. [number     |-> Len(revisions) + 1,
       status     |-> settlement.status,
       advance    |-> settlement.advance,
       payout     |-> settlement.payout,
       reimbursed |-> payments.reimbursed,
       refunded   |-> payments.refunded] \in Revision
  BY DEF TypeOK, Settlement, Payments, Revision
<1> QED
  BY <1>1, <1>2 DEF Reopening, TypeOK

LEMMA SettlementType == TypeOK /\ SettlementNext => TypeOK'
<1> SUFFICES ASSUME TypeOK, SettlementNext PROVE TypeOK'
  OBVIOUS
<1>a. \A amount \in Amounts : amount \in Nat
  BY AmountsAssumption DEF Amounts
<1>b. advance \in Advance /\ (\A i \in Incomes : incomes[i] \in Income)
  BY DEF TypeOK
<1>1. CASE RequestAdvance
  <2>1. [NoAdvance EXCEPT !.status = "REQUESTED"] \in Advance
    BY DEF NoAdvance, Advance, AdvanceStatuses
  <2> QED
    BY <1>1, <2>1, SetAdvanceType DEF RequestAdvance
<1>2. CASE RejectAdvance
  <2>1. [advance EXCEPT !.status = "REJECTED"] \in Advance
    BY <1>b DEF Advance, AdvanceStatuses
  <2> QED
    BY <1>2, <2>1, SetAdvanceType DEF RejectAdvance
<1>3. ASSUME NEW amount \in Amounts, ApproveAdvance(eventStatus, amount) PROVE TypeOK'
  <2>1. [advance EXCEPT !.status = "APPROVED", !.approved = amount] \in Advance
    BY <1>a, <1>b DEF Advance, AdvanceStatuses
  <2> QED
    BY <1>3, <2>1, SetAdvanceType DEF ApproveAdvance
<1>4. ASSUME NEW amount \in Amounts, DisburseAdvance(amount) PROVE TypeOK'
  <2>1. [advance EXCEPT !.status = "DISBURSED", !.disbursed = amount] \in Advance
    BY <1>a, <1>b DEF Advance, AdvanceStatuses
  <2> QED
    BY <1>4, <2>1, SetAdvanceType DEF DisburseAdvance
<1>5. ASSUME NEW i \in Incomes, NEW amount \in Amounts, RecordIncome(i, amount)
      PROVE TypeOK'
  <2>1. [status |-> "RECORDED", amount |-> amount] \in Income
    BY <1>a DEF Income, IncomeStatuses
  <2> QED
    BY <1>5, <2>1, SetIncomeType DEF RecordIncome
<1>6. ASSUME NEW i \in Incomes, VerifyIncome(eventStatus, i) PROVE TypeOK'
  <2>1. [incomes[i] EXCEPT !.status = "VERIFIED"] \in Income
    BY <1>b DEF Income, IncomeStatuses
  <2> QED
    BY <1>6, <2>1, SetIncomeType DEF VerifyIncome
<1>7. ASSUME NEW i \in Incomes, RejectIncome(i) PROVE TypeOK'
  <2>1. [incomes[i] EXCEPT !.status = "REJECTED"] \in Income
    BY <1>b DEF Income, IncomeStatuses
  <2> QED
    BY <1>7, <2>1, SetIncomeType DEF RejectIncome
<1>8. CASE PrepareSettlement
  <2>1. TypeOfBalance(Entitlement - NetCash(DisbursedAdvance)) \in SettlementTypes
    BY DEF TypeOfBalance, SettlementTypes
  <2>2. Entitlement \in Nat
    BY EntitlementBound, AmountsAssumption
  <2>3. settlement' \in Settlement
    BY <1>8, <2>1, <2>2, VerifiedNat, VerifiedIncomeNat, DisbursedNat, FingerprintType
       DEF PrepareSettlement, Settlement, SettlementStatuses
  <2> QED
    BY <1>8, <2>3 DEF PrepareSettlement, TypeOK, eventVars, ledgerVars, closureVars
<1>9. CASE SubmitSettlement(eventStatus, settlement)
  BY <1>9, SetStatusType DEF SubmitSettlement, SettlementStatuses
<1>10. CASE QuerySettlement(eventStatus, settlement)
  BY <1>10, SetStatusType DEF QuerySettlement, SettlementStatuses
<1>11. CASE ApproveSettlement(eventStatus, settlement)
  <2>1. settlement.type \in SettlementTypes \ {"NONE"}
    BY <1>11 DEF ApproveSettlement, TypeOK, Settlement
  <2>2. ApprovedStatus(settlement.type) \in SettlementStatuses
    BY <2>1 DEF ApprovedStatus, SettlementTypes, SettlementStatuses
  <2> QED
    BY <1>11, <2>2, SetStatusType DEF ApproveSettlement
<1>12. ASSUME NEW amount \in PaymentAmounts, RecordPayment(eventStatus, settlement, amount)
       PROVE TypeOK'
  <2>1. amount \in Nat
    BY AmountsAssumption DEF PaymentAmounts
  <2>2. payments' \in Payments
    BY <1>12, <2>1 DEF RecordPayment, TypeOK, Payments
  <2>3. settlement' \in Settlement
    <3>1. [settlement EXCEPT !.status = "SETTLED"] \in Settlement
      BY DEF TypeOK, Settlement, SettlementStatuses
    <3> QED
      BY <1>12, <3>1 DEF RecordPayment, TypeOK
  <2> QED
    BY <1>12, <2>2, <2>3 DEF RecordPayment, TypeOK, eventVars, ledgerVars, closureVars
<1>13. CASE ReopenSettlement(eventStatus, settlement, payments)
  BY <1>13, ReopeningType DEF ReopenSettlement, TypeOK, eventVars, ledgerVars,
                              closureVars
<1> QED
  BY <1>1, <1>2, <1>3, <1>4, <1>5, <1>6, <1>7, <1>8, <1>9, <1>10, <1>11, <1>12, <1>13
     DEF SettlementNext

LEMMA CloseoutType == TypeOK /\ CloseoutNext => TypeOK'
<1> SUFFICES ASSUME TypeOK, CloseoutNext PROVE TypeOK'
  OBVIOUS
<1> USE DEF TypeOK, ledgerVars, settlementVars, closureVars
<1>1. CASE RequestCloseout
  BY <1>1 DEF RequestCloseout, EventStatuses
<1>2. CASE CertifyCloseout
  <2>1. closure' \in Closure
    BY <1>2 DEF CertifyCloseout, Closure, Settlement
  <2> QED
    BY <1>2, <2>1 DEF CertifyCloseout, EventStatuses
<1>3. CASE RejectCloseout
  BY <1>3 DEF RejectCloseout, EventStatuses
<1>4. CASE ApproveReopen
  <2>1. [number  |-> Len(closureRevisions) + 1,
         closure |-> closure,
         status  |-> settlement.status,
         payout  |-> settlement.payout] \in ClosureRevision
    BY DEF ClosureRevision, Settlement
  <2>2. closureRevisions' \in Seq(ClosureRevision)
    BY <1>4, <2>1 DEF ApproveReopen
  <2>3. settlement' \in Settlement /\ revisions' \in Seq(Revision)
    BY <1>4, ReopeningType DEF ApproveReopen
  <2> QED
    BY <1>4, <2>2, <2>3 DEF ApproveReopen, EventStatuses
<1>5. CASE ArchiveEvent
  BY <1>5 DEF ArchiveEvent, EventStatuses
<1> QED
  BY <1>1, <1>2, <1>3, <1>4, <1>5 DEF CloseoutNext

LEMMA TypeStep == TypeOK /\ [Next]_vars => TypeOK'
<1> SUFFICES ASSUME TypeOK, [Next]_vars PROVE TypeOK'
  OBVIOUS
<1>1. CASE UNCHANGED vars
  BY <1>1 DEF TypeOK, vars, eventVars, ledgerVars, settlementVars, closureVars
<1> QED
  BY <1>1, ExecutionType, ExpenseType, SettlementType, CloseoutType DEF Next

\* Every row keeps its shape, and every figure of the settlement stays a natural
\* number: the payout that prepare_settlement computes is never negative.
THEOREM TypeCorrect == Spec => []TypeOK
BY InitType, TypeStep, PTL DEF Spec

-----------------------------------------------------------------------------
(* Payments: the invariant behind SettledMeansCleared *)

\* What the institution still owes (or, negative, is owed).
Balance == settlement.payout - NetCash(settlement.advance)

\* The type a settlement was given at preparation keeps telling the sign of the
\* balance, and the two pending statuses agree with it.
Directed ==
    /\ settlement.type = "BALANCED" => Balance = 0
    /\ settlement.type = "REIMBURSEMENT_DUE" => Balance >= 0
    /\ settlement.type = "REFUND_DUE" => Balance <= 0
    /\ settlement.status = "PENDING_REIMBURSEMENT" => settlement.type = "REIMBURSEMENT_DUE"
    /\ settlement.status = "PENDING_REFUND" => settlement.type = "REFUND_DUE"

\* Before the first reopening, every step but SETTLED comes with an open balance.
FirstOpen ==
    revisions = <<>> =>
        /\ settlement.status # "REOPENED"
        /\ settlement.status # "SETTLED" =>
              /\ settlement.type = "REIMBURSEMENT_DUE" => Balance > 0
              /\ settlement.type = "REFUND_DUE" => Balance < 0

PaymentInv == TypeOK /\ Directed /\ SettledMeansCleared /\ FirstOpen

\* Cash figures of typed rows are numbers the provers can calculate with.
LEMMA CashNat ==
  ASSUME TypeOK
  PROVE  /\ settlement.payout \in Nat
         /\ settlement.advance \in Nat
         /\ payments.reimbursed \in Nat
         /\ payments.refunded \in Nat
BY DEF TypeOK, Settlement, Payments

\* Running the event and auditing its ledger leave settlement and certificate alone.
LEMMA LedgerStepsKeepSettlement ==
  ASSUME ExecutionNext \/ ExpenseNext
  PROVE  UNCHANGED <<settlementVars, closureVars>>
<1>1. CASE ExecutionNext
  BY <1>1 DEF ExecutionNext, ClockAdvances, StartEvent, AdminStartEvent,
              CompleteAndSubmitReport, CertifyReport, RequestReportRevision,
              ResubmitReport, ReportTransition, CancelConfirmedEvent
<1>2. CASE ExpenseNext
  BY <1>2 DEF ExpenseNext, CreateDraftExpense, UpdateExpense, DeleteDraftExpense,
              SubmitExpenses, VerifyExpense, PartialVerifyExpense, QueryExpense,
              DisallowExpense, SetExpense, SetExpenses
<1> QED
  BY <1>1, <1>2

\* A step that leaves the settlement's rows alone keeps the payment invariant.
LEMMA PaymentFrame ==
  ASSUME PaymentInv, TypeOK', UNCHANGED settlementVars
  PROVE  PaymentInv'
BY DEF PaymentInv, Directed, SettledMeansCleared, FirstOpen, Balance, NetCash,
       settlementVars

\* A new status keeps it when the type allows that status.
LEMMA PaymentStatus ==
  ASSUME NEW status, PaymentInv, TypeOK', SetSettlementStatus(status),
         settlement.status # "SETTLED",
         status # "REOPENED",
         status = "PENDING_REIMBURSEMENT" => settlement.type = "REIMBURSEMENT_DUE",
         status = "PENDING_REFUND" => settlement.type = "REFUND_DUE",
         status = "SETTLED" => settlement.type = "BALANCED"
  PROVE  PaymentInv'
<1>1. settlement' = [settlement EXCEPT !.status = status] /\ settlement \in Settlement
  BY DEF SetSettlementStatus, PaymentInv, TypeOK
<1>2. /\ settlement'.status = status
      /\ settlement'.type = settlement.type
      /\ settlement'.payout = settlement.payout
      /\ settlement'.advance = settlement.advance
  BY <1>1 DEF Settlement
<1>3. UNCHANGED <<payments, revisions>>
  BY DEF SetSettlementStatus
<1>4. Balance' = Balance /\ Balance \in Int
  BY <1>2, <1>3, CashNat DEF PaymentInv, Balance, NetCash
<1>5. Directed' /\ FirstOpen'
  BY <1>2, <1>3, <1>4 DEF PaymentInv, Directed, FirstOpen
<1>6. SettledMeansCleared'
  BY <1>2, <1>3, CashNat DEF PaymentInv, Directed, SettledMeansCleared, Balance, NetCash
<1> QED
  BY <1>5, <1>6 DEF PaymentInv

\* Reopening a cleared settlement keeps it.
LEMMA PaymentReopening ==
  ASSUME PaymentInv, TypeOK', Reopening(settlement, payments), UNCHANGED payments
  PROVE  PaymentInv'
<1>1. settlement' = [settlement EXCEPT !.status = "REOPENED"] /\ settlement \in Settlement
  BY DEF Reopening, PaymentInv, TypeOK
<1>2. /\ settlement'.status = "REOPENED"
      /\ settlement'.type = settlement.type
      /\ settlement'.payout = settlement.payout
      /\ settlement'.advance = settlement.advance
  BY <1>1 DEF Settlement
<1>3. revisions' # <<>>
  <2> DEFINE snapshot == [number     |-> Len(revisions) + 1,
                          status     |-> settlement.status,
                          advance    |-> settlement.advance,
                          payout     |-> settlement.payout,
                          reimbursed |-> payments.reimbursed,
                          refunded   |-> payments.refunded]
  <2>1. revisions' = Append(revisions, snapshot)
    BY DEF Reopening
  <2> HIDE DEF snapshot
  <2>2. revisions \in Seq(Revision)
    BY DEF PaymentInv, TypeOK
  <2>3. Len(revisions') = Len(revisions) + 1 /\ Len(revisions) \in Nat
    BY <2>1, <2>2
  <2> QED
    BY <2>3
<1> QED
  BY <1>2, <1>3 DEF PaymentInv, Directed, SettledMeansCleared, FirstOpen, Balance, NetCash

LEMMA PaymentInit == Init => PaymentInv
BY InitType DEF Init, PaymentInv, Directed, SettledMeansCleared, FirstOpen, Balance,
                NetCash, NoSettlement

LEMMA PaymentStep == PaymentInv /\ [Next]_vars => PaymentInv'
<1> SUFFICES ASSUME PaymentInv, [Next]_vars PROVE PaymentInv'
  OBVIOUS
<1>t. TypeOK'
  BY TypeStep DEF PaymentInv
<1>1. CASE UNCHANGED vars
  BY <1>1, <1>t, PaymentFrame DEF vars, settlementVars
<1>2. CASE ExecutionNext \/ ExpenseNext
  BY <1>2, <1>t, LedgerStepsKeepSettlement, PaymentFrame
<1>3. CASE CloseoutNext
  <2>1. CASE ApproveReopen
    BY <2>1, <1>t, PaymentReopening DEF ApproveReopen
  <2>2. CASE RequestCloseout \/ CertifyCloseout \/ RejectCloseout \/ ArchiveEvent
    BY <2>2, <1>t, PaymentFrame
       DEF RequestCloseout, CertifyCloseout, RejectCloseout, ArchiveEvent
  <2> QED
    BY <1>3, <2>1, <2>2 DEF CloseoutNext
<1>4. CASE SettlementNext
  <2>1. CASE \/ RequestAdvance
             \/ RejectAdvance
             \/ \E amount \in Amounts : ApproveAdvance(eventStatus, amount) \/ DisburseAdvance(amount)
             \/ \E i \in Incomes, amount \in Amounts : RecordIncome(i, amount)
             \/ \E i \in Incomes : VerifyIncome(eventStatus, i) \/ RejectIncome(i)
    BY <2>1, <1>t, PaymentFrame
       DEF RequestAdvance, RejectAdvance, ApproveAdvance, DisburseAdvance, SetAdvance,
           RecordIncome, VerifyIncome, RejectIncome, SetIncome
  <2>2. CASE PrepareSettlement
    <3>1. Entitlement \in Int /\ DisbursedAdvance \in Int
      BY EntitlementBound, DisbursedNat, AmountsAssumption DEF PaymentInv
    <3>2. /\ settlement'.status = "DRAFT"
          /\ settlement'.type = TypeOfBalance(Entitlement - NetCash(DisbursedAdvance))
          /\ settlement'.payout = Entitlement
          /\ settlement'.advance = DisbursedAdvance
          /\ payments' = payments
      BY <2>2 DEF PrepareSettlement
    <3>3. NetCash(DisbursedAdvance) \in Int
      BY <3>1, CashNat DEF PaymentInv, NetCash
    <3>4. Balance' = Entitlement - NetCash(DisbursedAdvance)
      BY <3>2 DEF Balance, NetCash
    <3> QED
      BY <1>t, <3>1, <3>2, <3>3, <3>4
         DEF PaymentInv, Directed, SettledMeansCleared, FirstOpen, TypeOfBalance
  <2>3. CASE SubmitSettlement(eventStatus, settlement)
    BY <2>3, <1>t, PaymentStatus DEF SubmitSettlement
  <2>4. CASE QuerySettlement(eventStatus, settlement)
    BY <2>4, <1>t, PaymentStatus DEF QuerySettlement, UnderAudit
  <2>5. CASE ApproveSettlement(eventStatus, settlement)
    <3>1. settlement.type \in {"REIMBURSEMENT_DUE", "REFUND_DUE", "BALANCED"}
      BY <2>5 DEF ApproveSettlement, PaymentInv, TypeOK, Settlement, SettlementTypes
    <3> QED
      BY <2>5, <3>1, <1>t, PaymentStatus
         DEF ApproveSettlement, UnderAudit, ApprovedStatus
  <2>6. ASSUME NEW amount \in PaymentAmounts, RecordPayment(eventStatus, settlement, amount)
        PROVE PaymentInv'
    <3>1. amount \in Nat
      BY AmountsAssumption DEF PaymentAmounts
    <3>2. /\ settlement \in Settlement
          /\ settlement'.type = settlement.type
          /\ settlement'.payout = settlement.payout
          /\ settlement'.advance = settlement.advance
          /\ settlement'.status = IF Remaining(settlement) - amount <= 0
                                  THEN "SETTLED" ELSE settlement.status
      BY <2>6 DEF RecordPayment, PaymentInv, TypeOK, Settlement
    <3>3. /\ payments'.reimbursed = IF settlement.type = "REIMBURSEMENT_DUE"
                                    THEN payments.reimbursed + amount
                                    ELSE payments.reimbursed
          /\ payments'.refunded = IF settlement.type = "REIMBURSEMENT_DUE"
                                  THEN payments.refunded
                                  ELSE payments.refunded + amount
      BY <2>6 DEF RecordPayment, PaymentInv, TypeOK, Payments
    <3>4. settlement.type \in {"REIMBURSEMENT_DUE", "REFUND_DUE"}
      BY <2>6 DEF RecordPayment, Pending, PaymentInv, Directed
    <3>5. revisions' = revisions /\ 0 < amount /\ amount <= Remaining(settlement)
      BY <2>6 DEF RecordPayment
    <3>6. CASE settlement.type = "REIMBURSEMENT_DUE"
      <4>1. /\ Remaining(settlement) = Balance
            /\ Balance \in Int
            /\ Balance' = Balance - amount
        BY <3>1, <3>2, <3>3, <3>6, CashNat DEF Remaining, Balance, NetCash, PaymentInv
      <4>2. SettledMeansCleared' = (settlement'.status = "SETTLED" => Balance' = 0)
        BY <3>1, <3>2, <3>3, CashNat DEF SettledMeansCleared, Balance, NetCash, PaymentInv
      <4>3. /\ Balance' >= 0
            /\ settlement'.status = "SETTLED" => Balance' = 0
            /\ settlement'.status # "SETTLED" => /\ settlement'.status = settlement.status
                                                 /\ Balance' > 0
        BY <2>6, <3>1, <3>2, <3>5, <4>1 DEF RecordPayment, Pending
      <4>4. Directed'
        BY <3>2, <3>6, <4>3 DEF PaymentInv, Directed
      <4>5. FirstOpen'
        BY <3>2, <3>5, <3>6, <4>3 DEF PaymentInv, FirstOpen
      <4> QED
        BY <1>t, <4>2, <4>3, <4>4, <4>5 DEF PaymentInv
    <3>7. CASE settlement.type = "REFUND_DUE"
      <4>1. /\ Remaining(settlement) = -Balance
            /\ Balance \in Int
            /\ Balance' = Balance + amount
        BY <3>1, <3>2, <3>3, <3>7, CashNat DEF Remaining, Balance, NetCash, PaymentInv
      <4>2. SettledMeansCleared' = (settlement'.status = "SETTLED" => Balance' = 0)
        BY <3>1, <3>2, <3>3, CashNat DEF SettledMeansCleared, Balance, NetCash, PaymentInv
      <4>3. /\ Balance' <= 0
            /\ settlement'.status = "SETTLED" => Balance' = 0
            /\ settlement'.status # "SETTLED" => /\ settlement'.status = settlement.status
                                                 /\ Balance' < 0
        BY <2>6, <3>1, <3>2, <3>5, <4>1 DEF RecordPayment, Pending
      <4>4. Directed'
        BY <3>2, <3>7, <4>3 DEF PaymentInv, Directed
      <4>5. FirstOpen'
        BY <3>2, <3>5, <3>7, <4>3 DEF PaymentInv, FirstOpen
      <4> QED
        BY <1>t, <4>2, <4>3, <4>4, <4>5 DEF PaymentInv
    <3> QED
      BY <3>4, <3>6, <3>7
  <2>7. CASE ReopenSettlement(eventStatus, settlement, payments)
    BY <2>7, <1>t, PaymentReopening DEF ReopenSettlement
  <2> QED
    BY <1>4, <2>1, <2>2, <2>3, <2>4, <2>5, <2>6, <2>7 DEF SettlementNext
<1> QED
  BY <1>1, <1>2, <1>3, <1>4 DEF Next

LEMMA PaymentAlways == Spec => []PaymentInv
BY PaymentInit, PaymentStep, PTL DEF Spec, PaymentInv

\* Whenever audit or a payment marks a settlement SETTLED, the cash really
\* transferred is the entitlement: neither more nor less was paid, over any
\* number of reopenings.
THEOREM SettledIsCleared == Spec => []SettledMeansCleared
<1>1. PaymentInv => SettledMeansCleared
  BY DEF PaymentInv
<1> QED
  BY <1>1, PaymentAlways, PTL

\* No sequence of payments, refunds and reopenings overshoots the entitlement.
THEOREM PaymentsNeverOvershoot == Spec => []NeverOverpaid
<1>1. PaymentInv => NeverOverpaid
  <2> SUFFICES ASSUME PaymentInv PROVE NeverOverpaid
    OBVIOUS
  <2>1. NetCash(settlement.advance) \in Int /\ settlement.payout \in Int
    BY CashNat DEF PaymentInv, NetCash
  <2> QED
    BY <2>1 DEF PaymentInv, NeverOverpaid, Directed, Balance
<1> QED
  BY <1>1, PaymentAlways, PTL

\* A settlement that was never reopened is not approved with nothing to pay, so
\* it cannot be stuck in a pending status.
THEOREM FirstIsPayable == Spec => []FirstSettlementIsPayable
<1>1. PaymentInv => FirstSettlementIsPayable
  <2> SUFFICES ASSUME PaymentInv, revisions = <<>>, settlement.status \in Pending
               PROVE  Remaining(settlement) > 0
    BY DEF FirstSettlementIsPayable
  <2>1. NetCash(settlement.advance) \in Int /\ settlement.payout \in Int
    BY CashNat DEF PaymentInv, NetCash
  <2>2. settlement.status \in {"PENDING_REIMBURSEMENT", "PENDING_REFUND"}
    BY DEF Pending
  <2> QED
    BY <2>1, <2>2 DEF PaymentInv, Directed, FirstOpen, Balance, Remaining
<1> QED
  BY <1>1, PaymentAlways, PTL

-----------------------------------------------------------------------------
(* Closing *)

ClosedInv == TypeOK /\ ClosedIsResolved /\ CertificateMatchesSettlement

\* Once closed, the only steps left are the clock's, archiving and reopening:
\* handlers that do not look at the event find nothing to decide.
LEMMA ClosedSteps ==
  ASSUME ClosedIsResolved, ~Mutable, Next
  PROVE  ClockAdvances \/ ArchiveEvent \/ ApproveReopen
<1>0. /\ eventStatus \in {"CLOSED", "ARCHIVED"}
      /\ UnresolvedIncomes = {}
      /\ advance.status \notin {"REQUESTED", "APPROVED"}
  BY DEF Mutable, MutableIn, ClosedIsResolved, Resolved, AdvanceUnresolved
<1>1. CASE ExecutionNext
  BY <1>0, <1>1
     DEF ExecutionNext, StartEvent, AdminStartEvent, CompleteAndSubmitReport, Mutable, MutableIn,
         CertifyReport, RequestReportRevision, ResubmitReport, ReportTransition,
         CancelConfirmedEvent
<1>2. CASE ExpenseNext
  BY <1>2
     DEF ExpenseNext, CreateDraftExpense, UpdateExpense, DeleteDraftExpense,
         SubmitExpenses, VerifyExpense, PartialVerifyExpense, QueryExpense,
         DisallowExpense, Auditable, Mutable
<1>3. CASE SettlementNext
  BY <1>0, <1>3
     DEF SettlementNext, RequestAdvance, RejectAdvance, ApproveAdvance, DisburseAdvance,
         RecordIncome, VerifyIncome, RejectIncome, UnresolvedIncomes, PrepareSettlement,
         SubmitSettlement, QuerySettlement, ApproveSettlement, UnderAudit, RecordPayment,
         ReopenSettlement, Mutable
<1>4. CASE CloseoutNext
  BY <1>0, <1>4 DEF CloseoutNext, RequestCloseout, CertifyCloseout, RejectCloseout
<1> QED
  BY <1>1, <1>2, <1>3, <1>4 DEF Next

\* Only certify_closeout closes an event.
LEMMA ClosingStep ==
  ASSUME Mutable, ~Mutable', Next
  PROVE  CertifyCloseout
<1>1. CASE ExecutionNext
  BY <1>1
     DEF ExecutionNext, ClockAdvances, StartEvent, AdminStartEvent, Mutable, MutableIn,
         CompleteAndSubmitReport, CertifyReport, RequestReportRevision, ResubmitReport,
         ReportTransition, CancelConfirmedEvent
<1>2. CASE ExpenseNext
  BY <1>2
     DEF ExpenseNext, CreateDraftExpense, UpdateExpense, DeleteDraftExpense,
         SubmitExpenses, VerifyExpense, PartialVerifyExpense, QueryExpense,
         DisallowExpense, SetExpense, SetExpenses, eventVars, Mutable, MutableIn
<1>3. CASE SettlementNext
  BY <1>3
     DEF SettlementNext, RequestAdvance, RejectAdvance, ApproveAdvance, DisburseAdvance,
         SetAdvance, RecordIncome, VerifyIncome, RejectIncome, SetIncome,
         PrepareSettlement, SubmitSettlement, QuerySettlement, ApproveSettlement,
         SetSettlementStatus, RecordPayment, ReopenSettlement, eventVars, Mutable, MutableIn
<1>4. CASE CloseoutNext
  BY <1>4 DEF CloseoutNext, RequestCloseout, RejectCloseout, ApproveReopen, ArchiveEvent,
              Mutable, MutableIn
<1> QED
  BY <1>1, <1>2, <1>3, <1>4 DEF Next

LEMMA ClosedInit == Init => ClosedInv
BY InitType DEF Init, ClosedInv, ClosedIsResolved, CertificateMatchesSettlement

LEMMA ClosedStep == ClosedInv /\ [Next]_vars => ClosedInv'
<1> SUFFICES ASSUME ClosedInv, [Next]_vars PROVE ClosedInv'
  OBVIOUS
<1>t. TypeOK'
  BY TypeStep DEF ClosedInv
<1> USE DEF Resolved, UnresolvedExpenses, UnresolvedIncomes, AdvanceUnresolved
<1>1. CASE UNCHANGED vars
  BY <1>1, <1>t DEF ClosedInv, ClosedIsResolved, CertificateMatchesSettlement, vars,
                    eventVars, ledgerVars, settlementVars, closureVars
<1>2. CASE Next /\ Mutable'
  BY <1>2, <1>t DEF ClosedInv, ClosedIsResolved, CertificateMatchesSettlement, Mutable, MutableIn
<1>3. CASE Next /\ Mutable /\ ~Mutable'
  <2>1. CertifyCloseout
    BY <1>3, ClosingStep
  <2>2. /\ closure'.certified
        /\ closure'.payout = settlement.payout
        /\ closure'.verified = settlement.verified
        /\ closure'.income = settlement.income
    BY <2>1 DEF CertifyCloseout
  <2> QED
    BY <2>1, <2>2, <1>t
       DEF CertifyCloseout, ClosureEligible, ClosedInv, ClosedIsResolved,
           CertificateMatchesSettlement, ledgerVars, settlementVars
<1>4. CASE Next /\ ~Mutable /\ ~Mutable'
  <2>1. ClockAdvances \/ ArchiveEvent
    BY <1>4, ClosedSteps DEF ClosedInv, ApproveReopen, Mutable, MutableIn
  <2> QED
    BY <2>1, <1>4, <1>t
       DEF ClockAdvances, ArchiveEvent, Mutable, MutableIn, ClosedInv, ClosedIsResolved,
           CertificateMatchesSettlement, ledgerVars, settlementVars, closureVars
<1> QED
  BY <1>1, <1>2, <1>3, <1>4

LEMMA ClosedAlways == Spec => []ClosedInv
BY ClosedInit, ClosedStep, PTL DEF Spec

\* A closed event has no open claim, income or advance, a certified report and a
\* settled settlement, although three handlers do not check that it is closed.
THEOREM ClosedEventsAreResolved == Spec => []ClosedIsResolved
<1>1. ClosedInv => ClosedIsResolved
  BY DEF ClosedInv
<1> QED
  BY <1>1, ClosedAlways, PTL

\* The certificate of a closed event seals the settlement's own figures.
THEOREM CertificatesMatch == Spec => []CertificateMatchesSettlement
<1>1. ClosedInv => CertificateMatchesSettlement
  BY DEF ClosedInv
<1> QED
  BY <1>1, ClosedAlways, PTL

\* Between closing and reopening no money, ledger, certificate or history moves.
THEOREM ClosedEventsAreFrozen == Spec => ClosedIsFrozen
<1>1. ClosedInv /\ [Next]_vars =>
         [~Mutable /\ ~Mutable' =>
             UNCHANGED <<report, advance, ledgerVars, settlementVars, closureVars>>]_vars
  <2> SUFFICES ASSUME ClosedInv, Next, ~Mutable, ~Mutable'
               PROVE  UNCHANGED <<report, advance, ledgerVars, settlementVars, closureVars>>
    BY DEF vars
  <2>1. ClockAdvances \/ ArchiveEvent
    BY ClosedSteps DEF ClosedInv, ApproveReopen, Mutable, MutableIn
  <2> QED
    BY <2>1 DEF ClockAdvances, ArchiveEvent
<1> QED
  BY <1>1, ClosedAlways, PTL DEF Spec, ClosedIsFrozen

-----------------------------------------------------------------------------
(* Histories *)

HistoryInv ==
    /\ PaymentInv
    /\ ClosedInv
    /\ RevisionHistory
    /\ Len(closureRevisions) <= Len(revisions)
    /\ ReopeningRecordedTwice

\* What the last snapshot of a reopening holds, and that the others are untouched.
LEMMA ReopeningAppends ==
  ASSUME TypeOK, Reopening(settlement, payments)
  PROVE  /\ Len(revisions') = Len(revisions) + 1
         /\ \A k \in 1 .. Len(revisions) : revisions'[k] = revisions[k]
         /\ LET last == revisions'[Len(revisions) + 1]
            IN  /\ last.number = Len(revisions) + 1
                /\ last.status = "SETTLED"
                /\ last.advance = settlement.advance
                /\ last.payout = settlement.payout
                /\ last.reimbursed = payments.reimbursed
                /\ last.refunded = payments.refunded
<1> DEFINE snapshot == [number     |-> Len(revisions) + 1,
                        status     |-> settlement.status,
                        advance    |-> settlement.advance,
                        payout     |-> settlement.payout,
                        reimbursed |-> payments.reimbursed,
                        refunded   |-> payments.refunded]
<1>1. revisions' = Append(revisions, snapshot) /\ settlement.status = "SETTLED"
  BY DEF Reopening
<1>2. revisions \in Seq(Revision)
  BY DEF TypeOK
<1>3. /\ snapshot.number = Len(revisions) + 1
      /\ snapshot.status = "SETTLED"
      /\ snapshot.advance = settlement.advance
      /\ snapshot.payout = settlement.payout
      /\ snapshot.reimbursed = payments.reimbursed
      /\ snapshot.refunded = payments.refunded
  BY <1>1
<1> HIDE DEF snapshot
<1>4. /\ Len(revisions') = Len(revisions) + 1
      /\ \A k \in 1 .. Len(revisions) : revisions'[k] = revisions[k]
      /\ revisions'[Len(revisions) + 1] = snapshot
  BY <1>1, <1>2
<1> QED
  BY <1>3, <1>4

\* Payments are only ever added.
LEMMA PaymentsGrow ==
  ASSUME TypeOK, [Next]_vars
  PROVE  /\ payments.reimbursed <= payments'.reimbursed
         /\ payments.refunded <= payments'.refunded
<1>1. CASE UNCHANGED payments
  BY <1>1, CashNat
<1>2. ASSUME NEW amount \in PaymentAmounts, RecordPayment(eventStatus, settlement, amount)
      PROVE  /\ payments.reimbursed <= payments'.reimbursed
             /\ payments.refunded <= payments'.refunded
  <2>1. amount \in Nat
    BY AmountsAssumption DEF PaymentAmounts
  <2> QED
    BY <1>2, <2>1, CashNat DEF RecordPayment, TypeOK, Payments
<1>3. CASE UNCHANGED vars
  BY <1>1, <1>3 DEF vars, settlementVars
<1>4. CASE ExecutionNext \/ ExpenseNext
  BY <1>1, <1>4, LedgerStepsKeepSettlement DEF settlementVars
<1>5. CASE CloseoutNext
  BY <1>1, <1>5 DEF CloseoutNext, RequestCloseout, CertifyCloseout, RejectCloseout,
                    ApproveReopen, ArchiveEvent, settlementVars
<1>6. CASE SettlementNext
  BY <1>1, <1>2, <1>6
     DEF SettlementNext, RequestAdvance, RejectAdvance, ApproveAdvance, DisburseAdvance,
         SetAdvance, RecordIncome, VerifyIncome, RejectIncome, SetIncome,
         PrepareSettlement, SubmitSettlement, QuerySettlement, ApproveSettlement,
         SetSettlementStatus, ReopenSettlement, settlementVars
<1> QED
  BY <1>3, <1>4, <1>5, <1>6 DEF Next

\* A step either leaves the revisions alone or reopens the settlement.
LEMMA RevisionSteps ==
  ASSUME [Next]_vars, revisions' # revisions
  PROVE  Reopening(settlement, payments) /\ UNCHANGED payments
<1>1. CASE UNCHANGED vars
  BY <1>1 DEF vars, settlementVars
<1>2. CASE ExecutionNext \/ ExpenseNext
  BY <1>2, LedgerStepsKeepSettlement DEF settlementVars
<1>3. CASE CloseoutNext
  BY <1>3 DEF CloseoutNext, RequestCloseout, CertifyCloseout, RejectCloseout,
              ApproveReopen, ArchiveEvent, settlementVars
<1>4. CASE SettlementNext
  BY <1>4
     DEF SettlementNext, RequestAdvance, RejectAdvance, ApproveAdvance, DisburseAdvance,
         SetAdvance, RecordIncome, VerifyIncome, RejectIncome, SetIncome,
         PrepareSettlement, SubmitSettlement, QuerySettlement, ApproveSettlement,
         SetSettlementStatus, RecordPayment, ReopenSettlement, settlementVars
<1> QED
  BY <1>1, <1>2, <1>3, <1>4 DEF Next

\* A step either leaves the closure revisions alone or approves a reopening.
LEMMA ClosureRevisionSteps ==
  ASSUME [Next]_vars, closureRevisions' # closureRevisions
  PROVE  ApproveReopen
<1>1. CASE UNCHANGED vars
  BY <1>1 DEF vars, closureVars
<1>2. CASE ExecutionNext \/ ExpenseNext
  BY <1>2, LedgerStepsKeepSettlement DEF closureVars
<1>3. CASE CloseoutNext
  BY <1>3 DEF CloseoutNext, RequestCloseout, CertifyCloseout, RejectCloseout,
              ArchiveEvent, closureVars
<1>4. CASE SettlementNext
  BY <1>4
     DEF SettlementNext, RequestAdvance, RejectAdvance, ApproveAdvance, DisburseAdvance,
         SetAdvance, RecordIncome, VerifyIncome, RejectIncome, SetIncome,
         PrepareSettlement, SubmitSettlement, QuerySettlement, ApproveSettlement,
         SetSettlementStatus, RecordPayment, ReopenSettlement, closureVars
<1> QED
  BY <1>1, <1>2, <1>3, <1>4 DEF Next

LEMMA RevisionHistoryStep ==
  ASSUME PaymentInv, RevisionHistory, [Next]_vars
  PROVE  RevisionHistory'
<1>t. /\ TypeOK
      /\ revisions \in Seq(Revision)
      /\ \A k \in 1 .. Len(revisions) : revisions[k].reimbursed \in Nat
                                      /\ revisions[k].refunded \in Nat
  <2>1. TypeOK /\ revisions \in Seq(Revision)
    BY DEF PaymentInv, TypeOK
  <2>2. \A k \in 1 .. Len(revisions) : revisions[k] \in Revision
    BY <2>1
  <2> QED
    BY <2>1, <2>2 DEF Revision
<1>g. /\ payments.reimbursed <= payments'.reimbursed
      /\ payments.refunded <= payments'.refunded
      /\ payments'.reimbursed \in Nat
      /\ payments'.refunded \in Nat
  BY <1>t, PaymentsGrow, TypeStep, CashNat DEF TypeOK, Payments
<1>1. CASE revisions' = revisions
  BY <1>1, <1>t, <1>g, CashNat DEF RevisionHistory
<1>2. CASE revisions' # revisions
  <2>1. Reopening(settlement, payments) /\ UNCHANGED payments
    BY <1>2, RevisionSteps
  <2>2. settlement.advance + payments.reimbursed - payments.refunded = settlement.payout
    BY <2>1 DEF PaymentInv, SettledMeansCleared, Reopening, NetCash
  <2> DEFINE n == Len(revisions)
             last == revisions'[n + 1]
  <2>3. /\ n \in Nat
        /\ Len(revisions') = n + 1
        /\ \A k \in 1 .. n : revisions'[k] = revisions[k]
        /\ last.number = n + 1
        /\ last.status = "SETTLED"
        /\ last.advance + last.reimbursed - last.refunded = last.payout
        /\ last.reimbursed = payments.reimbursed
        /\ last.refunded = payments.refunded
    BY <1>t, <2>1, <2>2, ReopeningAppends
  <2> HIDE DEF n, last
  <2>4. \A k \in 1 .. n :
           /\ revisions[k].number = k
           /\ revisions[k].status = "SETTLED"
           /\ revisions[k].advance + revisions[k].reimbursed - revisions[k].refunded
                 = revisions[k].payout
           /\ revisions[k].reimbursed <= payments.reimbursed
           /\ revisions[k].refunded <= payments.refunded
           /\ \A j \in 1 .. k :
                 /\ revisions[j].reimbursed <= revisions[k].reimbursed
                 /\ revisions[j].refunded <= revisions[k].refunded
    BY DEF RevisionHistory, n
  <2>5. payments' = payments /\ payments.reimbursed \in Nat /\ payments.refunded \in Nat
    BY <1>t, <2>1, CashNat
  <2>6. SUFFICES ASSUME NEW k \in 1 .. n + 1
                 PROVE  /\ revisions'[k].number = k
                        /\ revisions'[k].status = "SETTLED"
                        /\ revisions'[k].advance + revisions'[k].reimbursed
                              - revisions'[k].refunded = revisions'[k].payout
                        /\ revisions'[k].reimbursed <= payments.reimbursed
                        /\ revisions'[k].refunded <= payments.refunded
                        /\ \A j \in 1 .. k :
                              /\ revisions'[j].reimbursed <= revisions'[k].reimbursed
                              /\ revisions'[j].refunded <= revisions'[k].refunded
    BY <2>3, <2>5 DEF RevisionHistory
  <2>7. CASE k \in 1 .. n
    <3>1. \A j \in 1 .. k : revisions'[j] = revisions[j]
      BY <2>3, <2>7
    <3> QED
      BY <2>3, <2>4, <2>7, <3>1
  <2>8. CASE k = n + 1
    <3>1. revisions'[k] = last
      BY <2>8 DEF last
    <3>2. \A j \in 1 .. k : revisions'[j].reimbursed <= last.reimbursed
                           /\ revisions'[j].refunded <= last.refunded
      BY <2>3, <2>4, <2>5, <2>8, <3>1
    <3> QED
      BY <2>3, <2>5, <2>8, <3>1, <3>2
  <2> QED
    BY <2>3, <2>7, <2>8
<1> QED
  BY <1>1, <1>2

\* A reopening appends to both histories what they hold in common, and nothing else
\* touches the closure revisions.
LEMMA ReopeningHistoryStep ==
  ASSUME TypeOK, ReopeningRecordedTwice, Len(closureRevisions) <= Len(revisions),
         eventStatus = "CLOSED" => closure.payout = settlement.payout,
         closureRevisions' = closureRevisions \/ ApproveReopen,
         \/ revisions' = revisions
         \/ \E last \in Revision : revisions' = Append(revisions, last)
  PROVE  ReopeningRecordedTwice' /\ (Len(closureRevisions) <= Len(revisions))'
<1>t. TypeOK /\ revisions \in Seq(Revision) /\ closureRevisions \in Seq(ClosureRevision)
  BY DEF TypeOK
<1> DEFINE n == Len(closureRevisions)
           m == Len(revisions)
<1>n. n \in Nat /\ m \in Nat /\ n <= m
  BY <1>t
<1>r. /\ Len(revisions') \in Nat
      /\ m <= Len(revisions')
      /\ \A k \in 1 .. m : revisions'[k] = revisions[k]
  <2>1. CASE revisions' = revisions
    BY <2>1, <1>n
  <2>2. CASE revisions' # revisions
    BY <2>2, <1>t, <1>n
  <2> QED
    BY <2>1, <2>2
<1>h. \A k \in 1 .. n :
         /\ closureRevisions[k].number = k
         /\ closureRevisions[k].closure.certified
         /\ closureRevisions[k].status = "SETTLED"
         /\ closureRevisions[k].closure.payout = closureRevisions[k].payout
         /\ \E r \in k .. m : revisions[r].payout = closureRevisions[k].payout
  BY DEF ReopeningRecordedTwice
<1>1. \A k \in 1 .. n :
         \E r \in k .. Len(revisions') : revisions'[r].payout = closureRevisions[k].payout
  <2> SUFFICES ASSUME NEW k \in 1 .. n
               PROVE  \E r \in k .. Len(revisions') :
                         revisions'[r].payout = closureRevisions[k].payout
    OBVIOUS
  <2>1. PICK r \in k .. m : revisions[r].payout = closureRevisions[k].payout
    BY <1>h
  <2>2. r \in 1 .. m /\ r \in k .. Len(revisions')
    BY <1>n, <1>r
  <2> QED
    BY <1>r, <2>1, <2>2
<1>2. CASE closureRevisions' = closureRevisions
  BY <1>2, <1>n, <1>r, <1>h, <1>1 DEF ReopeningRecordedTwice
<1>3. CASE closureRevisions' # closureRevisions
  <2>1. ApproveReopen
    BY <1>3
  <2> DEFINE snapshot == [number  |-> n + 1,
                          closure |-> closure,
                          status  |-> settlement.status,
                          payout  |-> settlement.payout]
  <2>2. /\ closureRevisions' = Append(closureRevisions, snapshot)
        /\ eventStatus = "CLOSED"
        /\ closure.certified
        /\ Reopening(settlement, payments)
    BY <2>1 DEF ApproveReopen
  <2>3. /\ snapshot.number = n + 1
        /\ snapshot.closure.certified
        /\ snapshot.status = "SETTLED"
        /\ snapshot.closure.payout = snapshot.payout
        /\ snapshot.payout = settlement.payout
    BY <2>2 DEF Reopening
  <2>4. /\ Len(revisions') = m + 1
        /\ revisions'[m + 1].payout = settlement.payout
    BY <1>t, <2>2, ReopeningAppends
  <2> HIDE DEF snapshot
  <2>5. /\ Len(closureRevisions') = n + 1
        /\ \A k \in 1 .. n : closureRevisions'[k] = closureRevisions[k]
        /\ closureRevisions'[n + 1] = snapshot
    BY <1>t, <2>2
  <2> HIDE DEF n, m
  <2>6. \A k \in 1 .. n :
           /\ closureRevisions'[k].number = k
           /\ closureRevisions'[k].closure.certified
           /\ closureRevisions'[k].status = "SETTLED"
           /\ closureRevisions'[k].closure.payout = closureRevisions'[k].payout
           /\ \E r \in k .. Len(revisions') :
                 revisions'[r].payout = closureRevisions'[k].payout
    BY <1>h, <1>1, <2>5
  <2>7. m + 1 \in n + 1 .. Len(revisions')
    BY <1>n, <2>4
  <2>8. \E r \in n + 1 .. Len(revisions') :
           revisions'[r].payout = closureRevisions'[n + 1].payout
    BY <2>3, <2>4, <2>5, <2>7
  <2>9. \A k \in 1 .. n + 1 : k \in 1 .. n \/ k = n + 1
    BY <1>n
  <2>10. ReopeningRecordedTwice'
    BY <2>3, <2>5, <2>6, <2>8, <2>9 DEF ReopeningRecordedTwice
  <2> QED
    BY <1>n, <2>4, <2>5, <2>10
<1> QED
  BY <1>2, <1>3

LEMMA HistoryInit == Init => HistoryInv
BY PaymentInit, ClosedInit DEF HistoryInv, Init, RevisionHistory, ReopeningRecordedTwice

LEMMA HistoryAlways == Spec => []HistoryInv
<1>1. HistoryInv /\ [Next]_vars => HistoryInv'
  <2> SUFFICES ASSUME HistoryInv, [Next]_vars PROVE HistoryInv'
    OBVIOUS
  <2>1. PaymentInv' /\ ClosedInv'
    BY PaymentStep, ClosedStep DEF HistoryInv
  <2>2. RevisionHistory'
    BY RevisionHistoryStep DEF HistoryInv
  <2>3. \/ revisions' = revisions
        \/ \E last \in Revision : revisions' = Append(revisions, last)
    <3>1. TypeOK /\ settlement \in Settlement /\ payments \in Payments
      BY DEF HistoryInv, PaymentInv, TypeOK
    <3> QED
      BY <3>1, RevisionSteps, SnapshotType
  <2>4. closureRevisions' = closureRevisions \/ ApproveReopen
    BY ClosureRevisionSteps
  <2>5. eventStatus = "CLOSED" => closure.payout = settlement.payout
    BY DEF HistoryInv, ClosedInv, CertificateMatchesSettlement
  <2>6. ReopeningRecordedTwice' /\ (Len(closureRevisions) <= Len(revisions))'
    BY <2>3, <2>4, <2>5, ReopeningHistoryStep DEF HistoryInv, PaymentInv
  <2> QED
    BY <2>1, <2>2, <2>6 DEF HistoryInv
<1> QED
  BY <1>1, HistoryInit, PTL DEF Spec

\* The settlement's revisions are numbered without gaps, each snapshots a cleared
\* settlement, and the cash they saw only grows.
THEOREM RevisionsAreAnAuditTrail == Spec => []RevisionHistory
<1>1. HistoryInv => RevisionHistory
  BY DEF HistoryInv
<1> QED
  BY <1>1, HistoryAlways, PTL

\* Every certificate that approve_reopen revokes is kept, with the settlement it
\* sealed, and the settlement's own history holds that settlement's payout.
THEOREM ReopeningsAreRecordedTwice == Spec => []ReopeningRecordedTwice
<1>1. HistoryInv => ReopeningRecordedTwice
  BY DEF HistoryInv
<1> QED
  BY <1>1, HistoryAlways, PTL

-----------------------------------------------------------------------------
(* Approval *)

\* prepare_settlement left a fingerprint that every later request can find.
FingerprintKept ==
    TypeOK /\ (settlement.status # "NONE" => settlement.fingerprint # {})

LEMMA FingerprintStep ==
  ASSUME FingerprintFound, FingerprintKept, [Next]_vars
  PROVE  FingerprintKept'
<1>1. TypeOK'
  BY TypeStep DEF FingerprintKept
<1>2. CASE ExecutionNext \/ ExpenseNext \/ UNCHANGED settlement
  <2>1. UNCHANGED settlement
    BY <1>2, LedgerStepsKeepSettlement DEF settlementVars
  <2> QED
    BY <1>1, <2>1 DEF FingerprintKept
<1>3. CASE SettlementNext
  <2>1. CASE PrepareSettlement
    BY <1>1, <2>1 DEF PrepareSettlement, PreparedFingerprint, FingerprintKept
  <2>2. CASE \/ SubmitSettlement(eventStatus, settlement)
             \/ QuerySettlement(eventStatus, settlement)
             \/ ApproveSettlement(eventStatus, settlement)
    <3>1. /\ settlement.status # "NONE"
          /\ settlement'.fingerprint = settlement.fingerprint
      BY <2>2 DEF SubmitSettlement, QuerySettlement, ApproveSettlement, UnderAudit,
                  SetSettlementStatus, FingerprintKept, TypeOK, Settlement
    <3> QED
      BY <1>1, <3>1 DEF FingerprintKept
  <2>3. ASSUME NEW amount \in PaymentAmounts, RecordPayment(eventStatus, settlement, amount)
        PROVE  FingerprintKept'
    <3>1. /\ settlement.status # "NONE"
          /\ settlement'.fingerprint = settlement.fingerprint
      BY <2>3 DEF RecordPayment, Pending, FingerprintKept, TypeOK, Settlement
    <3> QED
      BY <1>1, <3>1 DEF FingerprintKept
  <2>4. CASE ReopenSettlement(eventStatus, settlement, payments)
    <3>1. /\ settlement.status # "NONE"
          /\ settlement'.fingerprint = settlement.fingerprint
      BY <2>4 DEF ReopenSettlement, Reopening, FingerprintKept, TypeOK, Settlement
    <3> QED
      BY <1>1, <3>1 DEF FingerprintKept
  <2>5. CASE UNCHANGED settlement
    BY <1>2, <2>5
  <2> QED
    BY <1>3, <2>1, <2>2, <2>3, <2>4, <2>5
       DEF SettlementNext, RequestAdvance, RejectAdvance, ApproveAdvance,
           DisburseAdvance, RecordIncome, VerifyIncome, RejectIncome, SetAdvance,
           SetIncome, settlementVars
<1>4. CASE CloseoutNext
  <2>1. CASE ApproveReopen
    <3>1. /\ settlement.status # "NONE"
          /\ settlement'.fingerprint = settlement.fingerprint
      BY <2>1 DEF ApproveReopen, Reopening, FingerprintKept, TypeOK, Settlement
    <3> QED
      BY <1>1, <3>1 DEF FingerprintKept
  <2>2. CASE UNCHANGED settlement
    BY <1>2, <2>2
  <2> QED
    BY <1>4, <2>1, <2>2 DEF CloseoutNext, RequestCloseout, CertifyCloseout,
                            RejectCloseout, ArchiveEvent, settlementVars
<1> QED
  BY <1>2, <1>3, <1>4 DEF Next, vars, settlementVars

\* Only audit_settlement approves what is under audit.
LEMMA ApprovalStep ==
  ASSUME FingerprintKept, [Next]_vars, settlement.status = "UNDER_AUDIT",
         settlement'.status \in Pending \cup {"SETTLED"}
  PROVE  LiveSourceConsistent(settlement)
<1>1. ~UNCHANGED settlement
  BY DEF Pending
<1>2. ~ExecutionNext /\ ~ExpenseNext
  BY <1>1, LedgerStepsKeepSettlement DEF settlementVars
<1>3. ~CloseoutNext
  BY <1>1 DEF CloseoutNext, RequestCloseout, CertifyCloseout, RejectCloseout,
              ApproveReopen, Reopening, ArchiveEvent, settlementVars
<1>4. SettlementNext
  BY <1>1, <1>2, <1>3 DEF Next, vars, settlementVars
<1>5. \/ QuerySettlement(eventStatus, settlement)
      \/ ApproveSettlement(eventStatus, settlement)
  BY <1>1, <1>4 DEF SettlementNext, RequestAdvance, RejectAdvance, ApproveAdvance,
                    DisburseAdvance, RecordIncome, VerifyIncome, RejectIncome,
                    SetAdvance, SetIncome, settlementVars, PrepareSettlement,
                    SubmitSettlement, RecordPayment, ReopenSettlement, Reopening,
                    Pending
<1> QED
  BY <1>5 DEF QuerySettlement, ApproveSettlement, UnderAudit

\* When the prepared fingerprint can be looked up, Finance approves a settlement
\* only over exactly the source records it was compiled from.
THEOREM ApprovalsAreAsPrepared ==
  ASSUME FingerprintFound
  PROVE  Spec => ApprovedAsPrepared
<1>1. Init => FingerprintKept
  BY InitType DEF Init, NoSettlement, FingerprintKept
<1>2. FingerprintKept /\ [Next]_vars => FingerprintKept'
  BY FingerprintStep
<1>3. FingerprintKept /\ [Next]_vars =>
        [settlement.status = "UNDER_AUDIT" /\ settlement'.status \in Pending \cup {"SETTLED"}
            => settlement.fingerprint = {SourceRecords}]_vars
  <2> SUFFICES ASSUME FingerprintKept, [Next]_vars, settlement.status = "UNDER_AUDIT",
                      settlement'.status \in Pending \cup {"SETTLED"}
               PROVE  settlement.fingerprint = {SourceRecords}
    OBVIOUS
  <2>1. settlement.fingerprint # {}
    BY DEF FingerprintKept
  <2>2. \A prepared \in settlement.fingerprint : prepared = SourceRecords
    BY ApprovalStep DEF LiveSourceConsistent
  <2> QED
    BY <2>1, <2>2
<1> QED
  BY <1>1, <1>2, <1>3, PTL DEF Spec, ApprovedAsPrepared
=============================================================================
