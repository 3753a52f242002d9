--------------------------- MODULE RacePaymentProofs ---------------------------
(***************************************************************************)
(* Theorems about PostEventRaces: the settlement's money and its history   *)
(* when any number of requests decide on rows they read earlier.           *)
(***************************************************************************)
EXTENDS PostEventRaces, PostEventProofs

-----------------------------------------------------------------------------
(* Types *)

\* A ledger handler that found the event in status ev writes one expense row.
LEMMA LedgerDecisionType ==
  ASSUME NEW ev, TypeOK, DecideOnLedger(ev)
  PROVE  TypeOK' /\ UNCHANGED settlementVars
<1>0. /\ advance \in Advance
      /\ \A x \in Expenses : expenses[x] \in Expense
      /\ \A i \in Incomes : incomes[i] \in Income
      /\ \A amount \in Amounts : amount \in Nat
  BY AmountsAssumption DEF TypeOK, Amounts
<1>1. ASSUME NEW x \in Expenses, NEW row \in Expense, SetExpense(x, row)
      PROVE  TypeOK' /\ UNCHANGED settlementVars
  BY <1>1, SetExpenseType DEF SetExpense, SetExpenses
<1>2. ASSUME NEW row \in Advance, SetAdvance(row)
      PROVE  TypeOK' /\ UNCHANGED settlementVars
  BY <1>2, SetAdvanceType DEF SetAdvance
<1>3. ASSUME NEW i \in Incomes, NEW row \in Income, SetIncome(i, row)
      PROVE  TypeOK' /\ UNCHANGED settlementVars
  BY <1>3, SetIncomeType DEF SetIncome
<1>4. ASSUME NEW x \in Expenses, DeleteDraftExpense(ev, x)
      PROVE  TypeOK' /\ UNCHANGED settlementVars
  <2>1. NoExpense \in Expense
    BY DEF NoExpense, Expense, ExpenseStatuses
  <2> QED
    BY <1>1, <1>4, <2>1 DEF DeleteDraftExpense
<1>5. ASSUME NEW x \in Expenses, VerifyExpense(ev, x)
      PROVE  TypeOK' /\ UNCHANGED settlementVars
  <2>1. [expenses[x] EXCEPT !.status = "VERIFIED",
                            !.verified = expenses[x].claimed] \in Expense
    BY <1>0 DEF Expense, ExpenseStatuses
  <2> QED
    BY <1>1, <1>5, <2>1 DEF VerifyExpense
<1>6. ASSUME NEW x \in Expenses, QueryExpense(ev, x)
      PROVE  TypeOK' /\ UNCHANGED settlementVars
  <2>1. [expenses[x] EXCEPT !.status = "QUERIED"] \in Expense
    BY <1>0 DEF Expense, ExpenseStatuses
  <2> QED
    BY <1>1, <1>6, <2>1 DEF QueryExpense
<1>7. ASSUME NEW x \in Expenses, DisallowExpense(ev, x)
      PROVE  TypeOK' /\ UNCHANGED settlementVars
  <2>1. [expenses[x] EXCEPT !.status = "DISALLOWED", !.verified = 0] \in Expense
    BY <1>0 DEF Expense, ExpenseStatuses
  <2> QED
    BY <1>1, <1>7, <2>1 DEF DisallowExpense
<1>8. ASSUME NEW x \in Expenses, NEW amount \in Amounts, CreateDraftExpense(ev, x, amount)
      PROVE  TypeOK' /\ UNCHANGED settlementVars
  <2>1. [status |-> "DRAFT", claimed |-> amount, verified |-> 0] \in Expense
    BY <1>0 DEF Expense, ExpenseStatuses
  <2> QED
    BY <1>1, <1>8, <2>1 DEF CreateDraftExpense
<1>9. ASSUME NEW x \in Expenses, NEW amount \in Amounts, UpdateExpense(ev, x, amount)
      PROVE  TypeOK' /\ UNCHANGED settlementVars
  <2>1. [expenses[x] EXCEPT !.claimed = amount] \in Expense
    BY <1>0 DEF Expense
  <2> QED
    BY <1>1, <1>9, <2>1 DEF UpdateExpense
<1>10. ASSUME NEW x \in Expenses, NEW amount \in Amounts, PartialVerifyExpense(ev, x, amount)
       PROVE  TypeOK' /\ UNCHANGED settlementVars
  <2>1. [expenses[x] EXCEPT !.status = "PARTIALLY_VERIFIED", !.verified = amount] \in Expense
    BY <1>0 DEF Expense, ExpenseStatuses
  <2> QED
    BY <1>1, <1>10, <2>1 DEF PartialVerifyExpense
<1>11. ASSUME NEW amount \in Amounts, ApproveAdvance(ev, amount)
       PROVE  TypeOK' /\ UNCHANGED settlementVars
  <2>1. [advance EXCEPT !.status = "APPROVED", !.approved = amount] \in Advance
    BY <1>0 DEF Advance, AdvanceStatuses
  <2> QED
    BY <1>2, <1>11, <2>1 DEF ApproveAdvance
<1>12. ASSUME NEW i \in Incomes, VerifyIncome(ev, i)
       PROVE  TypeOK' /\ UNCHANGED settlementVars
  <2>1. [incomes[i] EXCEPT !.status = "VERIFIED"] \in Income
    BY <1>0 DEF Income, IncomeStatuses
  <2> QED
    BY <1>3, <1>12, <2>1 DEF VerifyIncome
<1> QED
  BY <1>4, <1>5, <1>6, <1>7, <1>8, <1>9, <1>10, <1>11, <1>12 DEF DecideOnLedger

-----------------------------------------------------------------------------
(* What a session has read *)

RaceRow == [status : EventStatuses, settlement : Settlement, paid : Payments, history : Nat]

SameFigures(row) ==
    /\ row.type = settlement.type
    /\ row.payout = settlement.payout
    /\ row.advance = settlement.advance

\* A settlement that was there has kept its figures, as it is not compiled while a
\* request is under way; if it was SETTLED, nothing has been paid since.
SeenOK(seen) ==
    /\ seen.settlement.status # "NONE" => settlement.status # "NONE" /\ SameFigures(seen.settlement)
    /\ seen.settlement.status = "SETTLED" => seen.paid = payments /\ Balance = 0

\* What a step that does not compile the settlement leaves to those that have read it.
Kept ==
    /\ settlement'.type = settlement.type
    /\ settlement'.payout = settlement.payout
    /\ settlement'.advance = settlement.advance
    /\ settlement.status # "NONE" => settlement'.status # "NONE"
    /\ Balance = 0 => payments' = payments

LEMMA SeenKept ==
  ASSUME NEW seen, SeenOK(seen), Kept
  PROVE  SeenOK(seen)'
BY DEF SeenOK, Kept, SameFigures, Balance, NetCash

MoneyInv == TypeOK /\ Directed /\ SettledMeansCleared /\ RevisionHistory

LEMMA MoneyFrame ==
  ASSUME MoneyInv, TypeOK', UNCHANGED settlementVars
  PROVE  MoneyInv' /\ Kept
BY DEF MoneyInv, Directed, SettledMeansCleared, RevisionHistory, Balance, NetCash,
       settlementVars, Kept

\* The current rows are what a session would read now.
LEMMA RowsOK == MoneyInv => Rows \in RaceRow /\ SeenOK(Rows)
<1> SUFFICES ASSUME MoneyInv PROVE Rows \in RaceRow /\ SeenOK(Rows)
  OBVIOUS
<1>1. Rows \in RaceRow
  BY DEF MoneyInv, TypeOK, Rows, RaceRow
<1>2. settlement.status = "SETTLED" => Balance = 0
  BY CashNat DEF MoneyInv, SettledMeansCleared, Balance, NetCash
<1> QED
  BY <1>1, <1>2 DEF SeenOK, Rows, SameFigures

\* Whoever gives the settlement a status that its type allows keeps the invariant.
LEMMA MoneyStatus ==
  ASSUME NEW status \in SettlementStatuses \ {"NONE"}, MoneyInv, SetSettlementStatus(status),
         status = "PENDING_REIMBURSEMENT" => settlement.type = "REIMBURSEMENT_DUE",
         status = "PENDING_REFUND" => settlement.type = "REFUND_DUE",
         status = "SETTLED" => settlement.type = "BALANCED"
  PROVE  MoneyInv' /\ Kept
<1>1. settlement' = [settlement EXCEPT !.status = status] /\ settlement \in Settlement
  BY DEF SetSettlementStatus, MoneyInv, TypeOK
<1>2. /\ settlement'.status = status
      /\ settlement'.type = settlement.type
      /\ settlement'.payout = settlement.payout
      /\ settlement'.advance = settlement.advance
  BY <1>1 DEF Settlement
<1>3. UNCHANGED <<payments, revisions>>
  BY DEF SetSettlementStatus
<1>4. TypeOK'
  BY SetStatusType DEF MoneyInv
<1>5. Balance' = Balance /\ Balance \in Int
  BY <1>2, <1>3, CashNat DEF MoneyInv, Balance, NetCash
<1>6. Directed'
  BY <1>2, <1>5 DEF MoneyInv, Directed
<1>7. SettledMeansCleared'
  BY <1>2, <1>3, CashNat DEF MoneyInv, Directed, SettledMeansCleared, Balance, NetCash
<1>8. RevisionHistory'
  BY <1>3 DEF MoneyInv, RevisionHistory
<1> QED
  BY <1>2, <1>3, <1>4, <1>6, <1>7, <1>8 DEF MoneyInv, Kept

\* A payment on a row with the current figures, whatever the status has become: nothing
\* remains to be paid on a settlement that is cleared.
LEMMA MoneyPaid ==
  ASSUME NEW ev, NEW row \in Settlement, NEW amount \in PaymentAmounts, MoneyInv,
         SameFigures(row), RecordPayment(ev, row, amount)
  PROVE  MoneyInv' /\ Kept
<1>1. amount \in Nat /\ 0 < amount /\ amount <= Remaining(row)
  BY AmountsAssumption DEF PaymentAmounts, RecordPayment
<1>2. /\ settlement \in Settlement /\ payments \in Payments
      /\ settlement.status \in SettlementStatuses
  BY DEF MoneyInv, TypeOK, Settlement
<1>3. /\ row.type = settlement.type /\ row.type # "BALANCED"
      /\ UNCHANGED revisions
      /\ Remaining(row) = IF settlement.type = "REIMBURSEMENT_DUE" THEN Balance ELSE -Balance
      /\ Balance \in Int
  BY CashNat DEF MoneyInv, SameFigures, RecordPayment, Remaining, Balance, NetCash
<1>4. /\ settlement'.type = settlement.type
      /\ settlement'.payout = settlement.payout
      /\ settlement'.advance = settlement.advance
      /\ settlement'.status = IF Remaining(row) - amount <= 0
                              THEN "SETTLED" ELSE settlement.status
  BY <1>2 DEF RecordPayment, Settlement
<1>5. /\ payments'.reimbursed = IF row.type = "REIMBURSEMENT_DUE"
                                THEN payments.reimbursed + amount ELSE payments.reimbursed
      /\ payments'.refunded = IF row.type = "REIMBURSEMENT_DUE"
                              THEN payments.refunded ELSE payments.refunded + amount
  BY <1>2 DEF RecordPayment, Payments
<1>6. TypeOK'
  <2>1. payments' \in Payments
    BY <1>1, <1>2 DEF RecordPayment, Payments
  <2>2. [settlement EXCEPT !.status = "SETTLED"] \in Settlement
    BY <1>2 DEF Settlement, SettlementStatuses
  <2>3. settlement' \in Settlement
    BY <1>2, <2>2 DEF RecordPayment
  <2> QED
    BY <2>1, <2>3 DEF MoneyInv, RecordPayment, TypeOK, eventVars, ledgerVars, closureVars
<1>7. /\ Balance # 0
      /\ Balance' = IF settlement.type = "REIMBURSEMENT_DUE" THEN Balance - amount ELSE Balance + amount
  BY <1>1, <1>3, <1>4, <1>5, CashNat DEF MoneyInv, Balance, NetCash
<1>8. settlement.status # "SETTLED"
  BY <1>7, CashNat DEF MoneyInv, SettledMeansCleared, Balance, NetCash
<1>9. settlement'.status = "SETTLED" => Balance' = 0
  BY <1>1, <1>3, <1>4, <1>7, <1>8
<1>10. /\ settlement.type = "REIMBURSEMENT_DUE" => Balance' >= 0
       /\ settlement.type = "REFUND_DUE" => Balance' <= 0
  BY <1>1, <1>3, <1>7
<1>11. Directed'
  BY <1>3, <1>4, <1>10 DEF MoneyInv, Directed
<1>12. SettledMeansCleared'
  <2>1. payments'.reimbursed \in Nat /\ payments'.refunded \in Nat
        /\ settlement'.payout \in Nat /\ settlement'.advance \in Nat
    BY <1>6 DEF TypeOK, Payments, Settlement
  <2> QED
    BY <1>9, <2>1 DEF SettledMeansCleared, Balance, NetCash
<1>13. RevisionHistory'
  <2>1. /\ payments.reimbursed <= payments'.reimbursed
        /\ payments.refunded <= payments'.refunded
        /\ payments'.reimbursed \in Nat /\ payments'.refunded \in Nat
    BY <1>1, <1>5, CashNat DEF MoneyInv
  <2>2. \A k \in 1 .. Len(revisions) : revisions[k].reimbursed \in Nat /\ revisions[k].refunded \in Nat
    <3>1. \A k \in 1 .. Len(revisions) : revisions[k] \in Revision
      BY DEF MoneyInv, TypeOK
    <3> QED
      BY <3>1 DEF Revision
  <2> QED
    BY <1>3, <2>1, <2>2, CashNat DEF MoneyInv, RevisionHistory
<1> QED
  BY <1>4, <1>6, <1>7, <1>8, <1>11, <1>12, <1>13 DEF MoneyInv, Kept

\* Reopening from a SETTLED row that is up to date with the payments.
LEMMA MoneyReopened ==
  ASSUME NEW row \in Settlement, NEW paid \in Payments, MoneyInv, SameFigures(row),
         paid = payments, Balance = 0, settlement.status # "NONE", Reopening(row, paid),
         UNCHANGED payments,
         UNCHANGED <<eventVars, advance, ledgerVars, closureVars>> \/ TypeOK'
  PROVE  MoneyInv' /\ Kept
<1> DEFINE n == Len(revisions)
           last == [number     |-> n + 1,
                    status     |-> row.status,
                    advance    |-> row.advance,
                    payout     |-> row.payout,
                    reimbursed |-> paid.reimbursed,
                    refunded   |-> paid.refunded]
<1>1. /\ revisions' = Append(revisions, last) /\ revisions \in Seq(Revision) /\ n \in Nat
      /\ row.status = "SETTLED"
      /\ settlement' = [settlement EXCEPT !.status = "REOPENED"] /\ settlement \in Settlement
  BY DEF Reopening, MoneyInv, TypeOK
<1>2. /\ last \in Revision /\ last.number = n + 1 /\ last.status = "SETTLED"
      /\ last.advance + last.reimbursed - last.refunded = last.payout
      /\ last.reimbursed = payments.reimbursed /\ last.refunded = payments.refunded
  <2>1. last \in Revision
    BY <1>1 DEF Revision, Settlement, Payments
  <2>2. row.advance + payments.reimbursed - payments.refunded = row.payout
    BY CashNat DEF MoneyInv, SameFigures, Balance, NetCash
  <2> QED
    BY <1>1, <2>1, <2>2
<1>3. /\ settlement' \in Settlement
      /\ settlement'.status = "REOPENED"
      /\ settlement'.type = settlement.type
      /\ settlement'.payout = settlement.payout
      /\ settlement'.advance = settlement.advance
  BY <1>1 DEF Settlement, SettlementStatuses
<1> HIDE DEF last
<1>4. /\ revisions' \in Seq(Revision) /\ Len(revisions') = n + 1
      /\ \A k \in 1 .. n : revisions'[k] = revisions[k]
      /\ revisions'[n + 1] = last
  BY <1>1, <1>2
<1>5. TypeOK'
  BY <1>3, <1>4 DEF MoneyInv, TypeOK, eventVars, ledgerVars, closureVars
<1>6. Directed' /\ SettledMeansCleared'
  BY <1>3 DEF MoneyInv, Directed, SettledMeansCleared, Balance, NetCash
<1>7. RevisionHistory'
  <2>1. payments.reimbursed \in Nat /\ payments.refunded \in Nat /\ n \in Nat
    BY <1>1, CashNat DEF MoneyInv
  <2>2. \A k \in 1 .. n :
           /\ revisions[k].number = k
           /\ revisions[k].status = "SETTLED"
           /\ revisions[k].advance + revisions[k].reimbursed - revisions[k].refunded
                 = revisions[k].payout
           /\ revisions[k].reimbursed <= payments.reimbursed
           /\ revisions[k].refunded <= payments.refunded
           /\ \A j \in 1 .. k :
                 /\ revisions[j].reimbursed <= revisions[k].reimbursed
                 /\ revisions[j].refunded <= revisions[k].refunded
    BY DEF MoneyInv, RevisionHistory
  <2> HIDE DEF n
  <2>3. SUFFICES ASSUME NEW k \in 1 .. n + 1
                 PROVE  /\ revisions'[k].number = k
                        /\ revisions'[k].status = "SETTLED"
                        /\ revisions'[k].advance + revisions'[k].reimbursed
                              - revisions'[k].refunded = revisions'[k].payout
                        /\ revisions'[k].reimbursed <= payments.reimbursed
                        /\ revisions'[k].refunded <= payments.refunded
                        /\ \A j \in 1 .. k :
                              /\ revisions'[j].reimbursed <= revisions'[k].reimbursed
                              /\ revisions'[j].refunded <= revisions'[k].refunded
    BY <1>4 DEF RevisionHistory
  <2>4. CASE k \in 1 .. n
    <3>1. \A j \in 1 .. k : revisions'[j] = revisions[j]
      BY <1>1, <1>4, <2>4
    <3> QED
      BY <1>4, <2>2, <2>4, <3>1
  <2>5. CASE k = n + 1
    <3>1. \A j \in 1 .. k : /\ revisions'[j].reimbursed <= last.reimbursed
                            /\ revisions'[j].refunded <= last.refunded
      BY <1>1, <1>2, <1>4, <2>1, <2>2, <2>5
    <3> QED
      BY <1>2, <1>4, <2>1, <2>5, <3>1
  <2> QED
    BY <2>1, <2>4, <2>5
<1> QED
  BY <1>3, <1>5, <1>6, <1>7 DEF MoneyInv, Kept

\* The rest of a settlement handler on rows that are still in order.
LEMMA MoneyDecided ==
  ASSUME NEW seen \in RaceRow, MoneyInv, SeenOK(seen), DecideOnSettlement(seen)
  PROVE  MoneyInv' /\ Kept
<1> DEFINE row == seen.settlement
<1>1. row \in Settlement /\ seen.paid \in Payments
  BY DEF RaceRow
<1>2. row.status # "NONE" => SameFigures(row) /\ settlement.status # "NONE"
  BY DEF SeenOK
<1>3. CASE SubmitSettlement(seen.status, row)
  BY <1>3, MoneyStatus DEF SubmitSettlement, SettlementStatuses
<1>4. CASE QuerySettlement(seen.status, row)
  BY <1>4, MoneyStatus DEF QuerySettlement, SettlementStatuses
<1>5. CASE ApproveSettlement(seen.status, row)
  <2>1. row.type = settlement.type /\ row.type \in SettlementTypes \ {"NONE"}
    BY <1>1, <1>2, <1>5 DEF ApproveSettlement, UnderAudit, SameFigures, Settlement
  <2>2. /\ ApprovedStatus(row.type) \in SettlementStatuses \ {"NONE"}
        /\ ApprovedStatus(row.type) = "PENDING_REIMBURSEMENT" => row.type = "REIMBURSEMENT_DUE"
        /\ ApprovedStatus(row.type) = "PENDING_REFUND" => row.type = "REFUND_DUE"
        /\ ApprovedStatus(row.type) = "SETTLED" => row.type = "BALANCED"
    BY <2>1 DEF ApprovedStatus, SettlementTypes, SettlementStatuses
  <2>3. SetSettlementStatus(ApprovedStatus(row.type))
    BY <1>5 DEF ApproveSettlement
  <2> QED
    BY <2>1, <2>2, <2>3, MoneyStatus
<1>6. CASE Pay(seen)
  <2> PICK amount \in PaymentAmounts : RecordPayment(seen.status, row, amount)
    BY <1>6 DEF Pay
  <2>1. SameFigures(row)
    BY <1>2 DEF RecordPayment, Pending
  <2> QED
    BY <1>1, <2>1, MoneyPaid
<1>7. CASE Reopen(seen)
  <2>1. /\ Reopening(row, seen.paid) /\ row.status = "SETTLED"
        /\ UNCHANGED <<eventVars, advance, ledgerVars, payments, closureVars>>
    BY <1>7 DEF Reopen, ReopenSettlement, Reopening
  <2>2. SameFigures(row) /\ settlement.status # "NONE" /\ seen.paid = payments /\ Balance = 0
    BY <1>2, <2>1 DEF SeenOK
  <2> QED
    BY <1>1, <2>1, <2>2, MoneyReopened
<1> QED
  BY <1>3, <1>4, <1>5, <1>6, <1>7 DEF DecideOnSettlement

\* A request nobody interrupts: it decides on the current rows, compiles the settlement,
\* or leaves it alone.
LEMMA MoneyUninterrupted ==
  ASSUME MoneyInv, Next
  PROVE  /\ MoneyInv'
         /\ \/ Kept
            \/ settlement.status \in {"NONE", "REOPENED"} /\ settlement'.status = "DRAFT"
<1>t. TypeOK'
  BY TypeStep DEF MoneyInv
<1>r. Rows \in RaceRow /\ SeenOK(Rows)
  BY RowsOK
<1>d. ASSUME DecideOnSettlement(Rows) PROVE MoneyInv' /\ Kept
  BY <1>d, <1>r, MoneyDecided
<1>1. CASE ExecutionNext \/ ExpenseNext
  BY <1>1, <1>t, LedgerStepsKeepSettlement, MoneyFrame
<1>2. CASE CloseoutNext
  <2>1. CASE ApproveReopen
    <3>1. Reopening(settlement, payments) /\ settlement.status = "SETTLED"
      BY <2>1 DEF ApproveReopen, Reopening
    <3>2. /\ settlement \in Settlement /\ payments \in Payments
          /\ SameFigures(settlement) /\ Balance = 0
      BY <1>r, <3>1 DEF SeenOK, Rows, SameFigures, MoneyInv, TypeOK
    <3> QED
      BY <1>t, <2>1, <3>1, <3>2, MoneyReopened DEF ApproveReopen
  <2>2. CASE RequestCloseout \/ CertifyCloseout \/ RejectCloseout \/ ArchiveEvent
    BY <2>2, <1>t, MoneyFrame
       DEF RequestCloseout, CertifyCloseout, RejectCloseout, ArchiveEvent
  <2> QED
    BY <1>2, <2>1, <2>2 DEF CloseoutNext
<1>3. CASE SettlementNext
  <2>1. CASE \/ RequestAdvance
             \/ RejectAdvance
             \/ \E amount \in Amounts : ApproveAdvance(eventStatus, amount) \/ DisburseAdvance(amount)
             \/ \E i \in Incomes, amount \in Amounts : RecordIncome(i, amount)
             \/ \E i \in Incomes : VerifyIncome(eventStatus, i) \/ RejectIncome(i)
    BY <2>1, <1>t, MoneyFrame
       DEF RequestAdvance, RejectAdvance, ApproveAdvance, DisburseAdvance, SetAdvance,
           RecordIncome, VerifyIncome, RejectIncome, SetIncome
  <2>2. CASE PrepareSettlement
    <3>1. Entitlement \in Int /\ DisbursedAdvance \in Int
      BY EntitlementBound, DisbursedNat, AmountsAssumption DEF MoneyInv
    <3>2. /\ settlement.status \in {"NONE", "REOPENED"} /\ settlement'.status = "DRAFT"
          /\ settlement'.type = TypeOfBalance(Entitlement - NetCash(DisbursedAdvance))
          /\ settlement'.payout = Entitlement
          /\ settlement'.advance = DisbursedAdvance
          /\ UNCHANGED <<payments, revisions>>
      BY <2>2 DEF PrepareSettlement
    <3>3. NetCash(DisbursedAdvance) \in Int
      BY <3>1, CashNat DEF MoneyInv, NetCash
    <3>4. Balance' = Entitlement - NetCash(DisbursedAdvance)
      BY <3>2 DEF Balance, NetCash
    <3>5. Directed' /\ SettledMeansCleared'
      BY <3>1, <3>2, <3>3, <3>4 DEF Directed, SettledMeansCleared, TypeOfBalance
    <3>6. RevisionHistory'
      BY <3>2 DEF MoneyInv, RevisionHistory
    <3> QED
      BY <1>t, <3>2, <3>5, <3>6 DEF MoneyInv
  <2>3. CASE \/ SubmitSettlement(eventStatus, settlement)
             \/ QuerySettlement(eventStatus, settlement)
             \/ ApproveSettlement(eventStatus, settlement)
             \/ \E amount \in PaymentAmounts : RecordPayment(eventStatus, settlement, amount)
             \/ ReopenSettlement(eventStatus, settlement, payments)
    BY <2>3, <1>d DEF DecideOnSettlement, Rows, Pay, Reopen
  <2> QED
    BY <1>3, <2>1, <2>2, <2>3 DEF SettlementNext
<1> QED
  BY <1>1, <1>2, <1>3 DEF Next

-----------------------------------------------------------------------------
(* Any number of sessions *)

SeenInv ==
    /\ read \in [Sessions -> SUBSET RaceRow]
    /\ \A s \in Sessions : \A seen \in read[s] : SeenOK(seen)

RaceMoneyInv == MoneyInv /\ SeenInv

LEMMA RaceMoneyStep == RaceMoneyInv /\ [RaceNext]_raceVars => RaceMoneyInv'
<1> SUFFICES ASSUME MoneyInv, SeenInv, [RaceNext]_raceVars PROVE MoneyInv' /\ SeenInv'
  BY DEF RaceMoneyInv
<1>k. ASSUME Kept, NEW s \in Sessions, read' = [read EXCEPT ![s] = {}] PROVE SeenInv'
  BY <1>k, SeenKept DEF SeenInv
<1>u. ASSUME Kept, UNCHANGED read PROVE SeenInv'
  BY <1>u, SeenKept DEF SeenInv
<1>v. ASSUME UNCHANGED vars PROVE MoneyInv' /\ Kept
  <2>1. TypeOK'
    BY <1>v, TypeStep DEF MoneyInv
  <2> QED
    BY <1>v, <2>1, MoneyFrame DEF vars
<1>1. ASSUME NEW s \in Sessions, ReadRows(s) PROVE MoneyInv' /\ SeenInv'
  <2>1. MoneyInv' /\ Kept
    BY <1>1, <1>v DEF ReadRows
  <2>2. Rows \in RaceRow /\ SeenOK(Rows)
    BY RowsOK
  <2>3. \A r \in Sessions : \A seen \in read'[r] : SeenOK(seen)
    BY <1>1, <2>2 DEF ReadRows, SeenInv
  <2>4. read' \in [Sessions -> SUBSET RaceRow]
    BY <1>1, <2>2 DEF ReadRows, SeenInv
  <2>5. \A r \in Sessions : \A seen \in read'[r] : SeenOK(seen)'
    BY <2>1, <2>3, SeenKept
  <2> QED
    BY <2>1, <2>4, <2>5 DEF SeenInv
<1>2. ASSUME NEW s \in Sessions, Answer(s) PROVE MoneyInv' /\ SeenInv'
  <2> PICK seen \in read[s] : DecideOnLedger(seen.status) \/ DecideOnSettlement(seen)
    BY <1>2 DEF Answer
  <2>1. seen \in RaceRow /\ SeenOK(seen)
    BY DEF SeenInv
  <2>2. MoneyInv' /\ Kept
    <3>1. CASE DecideOnLedger(seen.status)
      BY <3>1, LedgerDecisionType, MoneyFrame DEF MoneyInv
    <3>2. CASE DecideOnSettlement(seen)
      BY <2>1, <3>2, MoneyDecided
    <3> QED
      BY <3>1, <3>2
  <2> QED
    BY <1>2, <1>k, <2>2 DEF Answer
<1>3. ASSUME NEW s \in Sessions, Refuse(s) PROVE MoneyInv' /\ SeenInv'
  BY <1>3, <1>k, <1>v DEF Refuse
<1>4. ASSUME Uninterrupted PROVE MoneyInv' /\ SeenInv'
  <2>1. CASE Kept
    BY <1>4, <1>u, <2>1, MoneyUninterrupted DEF Uninterrupted
  <2>2. CASE settlement.status = "REOPENED" /\ settlement'.status = "DRAFT"
    <3>1. \A s \in Sessions : read'[s] = {}
      BY <1>4, <2>2 DEF Uninterrupted, NotWhileReading
    <3> QED
      BY <1>4, <3>1, MoneyUninterrupted DEF Uninterrupted, SeenInv
  <2>3. CASE settlement.status = "NONE"
    <3>1. \A s \in Sessions : \A seen \in read[s] : seen.settlement.status = "NONE"
      BY <2>3 DEF SeenInv, SeenOK
    <3> QED
      BY <1>4, <3>1, MoneyUninterrupted DEF Uninterrupted, SeenInv, SeenOK
  <2> QED
    BY <1>4, <2>1, <2>2, <2>3, MoneyUninterrupted DEF Uninterrupted
<1>5. CASE UNCHANGED raceVars
  BY <1>5, <1>u, <1>v DEF raceVars
<1> QED
  BY <1>1, <1>2, <1>3, <1>4, <1>5 DEF RaceNext

LEMMA RaceMoneyInit == RaceInit => RaceMoneyInv
<1> SUFFICES ASSUME RaceInit PROVE RaceMoneyInv
  OBVIOUS
<1>1. PaymentInv /\ revisions = <<>>
  BY PaymentInit DEF RaceInit, Init
<1>2. MoneyInv
  BY <1>1 DEF PaymentInv, MoneyInv, RevisionHistory
<1>3. SeenInv
  BY DEF RaceInit, SeenInv
<1> QED
  BY <1>2, <1>3 DEF RaceMoneyInv

LEMMA RaceMoneyAlways == RaceSpec => []RaceMoneyInv
BY RaceMoneyInit, RaceMoneyStep, PTL DEF RaceSpec

\* However many requests act on rows they read before others committed, a settlement
\* that is marked SETTLED is cleared.
THEOREM SettledIsClearedInRaces == RaceSpec => []SettledMeansCleared
<1>1. RaceMoneyInv => SettledMeansCleared
  BY DEF RaceMoneyInv, MoneyInv
<1> QED
  BY <1>1, RaceMoneyAlways, PTL

\* And the revisions stay an audit trail: a snapshot taken of rows read earlier still
\* counts every payment.
THEOREM RevisionsAreAnAuditTrailInRaces == RaceSpec => []RevisionHistory
<1>1. RaceMoneyInv => RevisionHistory
  BY DEF RaceMoneyInv, MoneyInv
<1> QED
  BY <1>1, RaceMoneyAlways, PTL
===============================================================================
