------------------------------ MODULE AccountProofs ------------------------------
(***************************************************************************)
(* Theorems about the settlement as an account: PostEvent implements       *)
(* EventAccount, alone and with any number of overlapping requests, and    *)
(* what follows from that for a closed event.                              *)
(***************************************************************************)
EXTENDS RacePaymentProofs

-----------------------------------------------------------------------------
(* The account *)

\* What is due in the account is the settlement's balance.
LEMMA DueIsBalance ==
  ASSUME TypeOK
  PROVE  Account!Due = Balance /\ Balance \in Int
BY CashNat DEF Account!Due, Balance, NetCash

\* An account that is drawn up, paid, closed and reopened as it should be is cleared
\* whenever it is open or closed.
LEMMA ClearedStep ==
  ASSUME TypeOK, Account!Cleared, [Account!Next]_Account!account
  PROVE  Account!Cleared'
<1>1. CASE Account!DrawUp
  BY <1>1 DEF Account!DrawUp, Account!Cleared, Account!Due, Account!figures
<1>2. CASE Account!Reimburse \/ Account!Refund
  <2>1. Account!Due # 0
    BY <1>2, DueIsBalance DEF Account!Reimburse, Account!Refund
  <2> QED
    BY <1>2, <2>1 DEF Account!Reimburse, Account!Refund, Account!Cleared
<1>3. CASE Account!Close
  BY <1>3 DEF Account!Close, Account!Cleared, Account!Due, Account!figures
<1>4. CASE Account!Reopen
  BY <1>4 DEF Account!Reopen, Account!Cleared, Account!Due, Account!figures
<1>5. CASE UNCHANGED Account!account
  BY <1>5 DEF Account!account, Account!figures, Account!Cleared, Account!Due
<1> QED
  BY <1>1, <1>2, <1>3, <1>4, <1>5 DEF Account!Next

-----------------------------------------------------------------------------
(* Every handler is a step of the account *)

LEMMA FrameOfAccount ==
  ASSUME UNCHANGED <<settlementVars, closure>>, Mutable' = Mutable
  PROVE  UNCHANGED Account!account
BY DEF Account!account, Account!figures, settlementVars

\* A new status draws up an account that was open, and is no concern of any other.
LEMMA StatusInAccount ==
  ASSUME NEW status \in SettlementStatuses \ {"NONE", "REOPENED"}, TypeOK,
         SetSettlementStatus(status)
  PROVE  [Account!Next]_Account!account
<1>1. /\ settlement'.status = status
      /\ settlement'.payout = settlement.payout
      /\ settlement'.advance = settlement.advance
      /\ settlement.payout \in Nat /\ settlement.advance \in Nat
      /\ UNCHANGED <<payments, revisions, closure, Mutable>>
  BY CashNat DEF SetSettlementStatus, TypeOK, Settlement, eventVars, closureVars, Mutable
<1>2. CASE settlement.status \in {"NONE", "REOPENED"}
  BY <1>1, <1>2 DEF Account!Next, Account!DrawUp, Account!figures
<1>3. CASE settlement.status \notin {"NONE", "REOPENED"}
  BY <1>1, <1>3 DEF Account!account, Account!figures
<1> QED
  BY <1>2, <1>3

\* A payment on a row with the current figures goes to whom something is due.
LEMMA PaymentInAccount ==
  ASSUME NEW ev, NEW row \in Settlement, NEW amount \in PaymentAmounts, MoneyInv,
         Account!Cleared, SameFigures(row), RecordPayment(ev, row, amount)
  PROVE  Account!Next
<1>1. amount \in Nat /\ 0 < amount /\ amount <= Remaining(row)
  BY AmountsAssumption DEF PaymentAmounts, RecordPayment
<1>2. /\ TypeOK /\ settlement \in Settlement /\ payments \in Payments
      /\ Account!Due = Balance /\ Balance \in Int
  BY DueIsBalance DEF MoneyInv, TypeOK
<1>3. /\ row.type = settlement.type
      /\ Remaining(row) = IF settlement.type = "REIMBURSEMENT_DUE" THEN Balance ELSE -Balance
  BY <1>2, CashNat DEF SameFigures, Remaining, Balance, NetCash
<1>4. settlement.status \notin {"NONE", "REOPENED"}
  BY <1>1, <1>2, <1>3 DEF Account!Cleared
<1>5. /\ settlement'.payout = settlement.payout
      /\ settlement'.advance = settlement.advance
      /\ settlement'.status \in {settlement.status, "SETTLED"}
      /\ UNCHANGED <<revisions, closure, Mutable>>
  BY <1>2 DEF RecordPayment, Settlement, eventVars, closureVars, Mutable
<1>6. /\ payments'.reimbursed = IF row.type = "REIMBURSEMENT_DUE"
                                THEN payments.reimbursed + amount ELSE payments.reimbursed
      /\ payments'.refunded = IF row.type = "REIMBURSEMENT_DUE"
                              THEN payments.refunded ELSE payments.refunded + amount
  BY <1>2 DEF RecordPayment, Payments
<1>7. CASE row.type = "REIMBURSEMENT_DUE"
  <2>1. amount \in 1 .. Account!Due
    BY <1>1, <1>2, <1>3, <1>7
  <2>2. Account!Reimburse
    BY <1>4, <1>5, <1>6, <1>7, <2>1 DEF Account!Reimburse, Account!figures
  <2> QED
    BY <2>2 DEF Account!Next
<1>8. CASE row.type # "REIMBURSEMENT_DUE"
  <2>1. amount \in 1 .. -Account!Due
    BY <1>1, <1>2, <1>3, <1>8
  <2>2. Account!Refund
    BY <1>4, <1>5, <1>6, <1>8, <2>1 DEF Account!Refund, Account!figures
  <2> QED
    BY <2>2 DEF Account!Next
<1> QED
  BY <1>7, <1>8

\* Reopening from rows that are up to date records an account in which nothing is due.
LEMMA ReopeningInAccount ==
  ASSUME NEW row \in Settlement, TypeOK, Balance = 0, SameFigures(row),
         Reopening(row, payments), UNCHANGED <<payments, closure>>,
         ~Mutable' => ~Mutable
  PROVE  Account!Next
<1>1. /\ settlement'.status = "REOPENED"
      /\ settlement'.payout = settlement.payout
      /\ settlement'.advance = settlement.advance
  BY DEF Reopening, TypeOK, Settlement
<1>2. revisions' = Append(revisions, [number     |-> Len(revisions) + 1,
                                      status     |-> "SETTLED",
                                      advance    |-> settlement.advance,
                                      payout     |-> settlement.payout,
                                      reimbursed |-> payments.reimbursed,
                                      refunded   |-> payments.refunded])
  BY DEF Reopening, SameFigures
<1>3. Mutable \in BOOLEAN /\ Mutable' \in BOOLEAN
  BY DEF Mutable, MutableIn
<1>4. Account!Due = 0
  BY DueIsBalance
<1>5. Account!Reopen
  BY <1>1, <1>2, <1>3, <1>4 DEF Account!Reopen, Account!figures
<1> QED
  BY <1>5 DEF Account!Next

\* The rest of a settlement handler, on rows its session read earlier.
LEMMA DecisionInAccount ==
  ASSUME NEW seen \in RaceRow, MoneyInv, SeenOK(seen), Account!Cleared,
         DecideOnSettlement(seen)
  PROVE  [Account!Next]_Account!account
<1> DEFINE row == seen.settlement
<1>1. row \in Settlement /\ seen.paid \in Payments /\ TypeOK
  BY DEF RaceRow, MoneyInv
<1>2. CASE SubmitSettlement(seen.status, row) \/ QuerySettlement(seen.status, row)
  BY <1>1, <1>2, StatusInAccount DEF SubmitSettlement, QuerySettlement, SettlementStatuses
<1>3. CASE ApproveSettlement(seen.status, row)
  <2>1. row.type \in SettlementTypes \ {"NONE"}
    BY <1>1, <1>3 DEF ApproveSettlement, Settlement
  <2>2. ApprovedStatus(row.type) \in SettlementStatuses \ {"NONE", "REOPENED"}
    BY <2>1 DEF ApprovedStatus, SettlementTypes, SettlementStatuses
  <2> QED
    BY <1>1, <1>3, <2>2, StatusInAccount DEF ApproveSettlement
<1>4. CASE Pay(seen)
  <2> PICK amount \in PaymentAmounts : RecordPayment(seen.status, row, amount)
    BY <1>4 DEF Pay
  <2>1. SameFigures(row)
    BY DEF RecordPayment, Pending, SeenOK
  <2> QED
    BY <1>1, <2>1, PaymentInAccount
<1>5. CASE Reopen(seen)
  <2>1. /\ Reopening(row, seen.paid) /\ row.status = "SETTLED"
        /\ UNCHANGED <<eventVars, payments, closureVars>>
    BY <1>5 DEF Reopen, ReopenSettlement, Reopening
  <2>2. SameFigures(row) /\ seen.paid = payments /\ Balance = 0
    BY <2>1 DEF SeenOK
  <2>3. UNCHANGED <<payments, closure>> /\ Mutable' = Mutable
    BY <2>1 DEF eventVars, closureVars, Mutable
  <2> QED
    BY <1>1, <2>1, <2>2, <2>3, ReopeningInAccount
<1> QED
  BY <1>2, <1>3, <1>4, <1>5 DEF DecideOnSettlement

\* What a ledger handler finds the event to be is no concern of the account.
LEMMA LedgerDecisionSteps ==
  ASSUME NEW ev, DecideOnLedger(ev)
  PROVE  UNCHANGED <<eventVars, settlementVars, closureVars>>
BY DEF DecideOnLedger, DeleteDraftExpense, VerifyExpense, QueryExpense, DisallowExpense,
       CreateDraftExpense, UpdateExpense, PartialVerifyExpense, SetExpense, SetExpenses,
       ApproveAdvance, SetAdvance, VerifyIncome, SetIncome

\* A closed event is opened again only by approve_reopen, whatever is still pending.
LEMMA OpeningStep ==
  ASSUME ~Mutable, Mutable', Next
  PROVE  ApproveReopen
<1>1. CASE ExecutionNext
  BY <1>1
     DEF ExecutionNext, ClockAdvances, StartEvent, AdminStartEvent, Mutable, MutableIn,
         CompleteAndSubmitReport, CertifyReport, RequestReportRevision, ResubmitReport,
         ReportTransition, CancelConfirmedEvent
<1>2. CASE ExpenseNext
  BY <1>2
     DEF ExpenseNext, CreateDraftExpense, UpdateExpense, DeleteDraftExpense,
         SubmitExpenses, VerifyExpense, PartialVerifyExpense, QueryExpense,
         DisallowExpense, SetExpense, SetExpenses, eventVars, Mutable, MutableIn
<1>3. CASE SettlementNext
  BY <1>3
     DEF SettlementNext, RequestAdvance, RejectAdvance, ApproveAdvance, DisburseAdvance,
         SetAdvance, RecordIncome, VerifyIncome, RejectIncome, SetIncome,
         PrepareSettlement, SubmitSettlement, QuerySettlement, ApproveSettlement,
         SetSettlementStatus, RecordPayment, ReopenSettlement, eventVars, Mutable, MutableIn
<1>4. CASE CloseoutNext
  BY <1>4 DEF CloseoutNext, RequestCloseout, CertifyCloseout, RejectCloseout, ArchiveEvent,
              Mutable, MutableIn
<1> QED
  BY <1>1, <1>2, <1>3, <1>4 DEF Next

\* A request nobody interrupts.
LEMMA RequestInAccount ==
  ASSUME MoneyInv, Account!Cleared, Next
  PROVE  [Account!Next]_Account!account
<1>t. TypeOK /\ settlement \in Settlement
  BY DEF MoneyInv, TypeOK
<1>1. CASE CertifyCloseout
  <2>1. /\ settlement.status = "SETTLED"
        /\ NetCash(settlement.advance) = settlement.payout
        /\ closure'.payout = settlement.payout
        /\ Mutable /\ ~Mutable'
        /\ UNCHANGED settlementVars
    BY <1>1 DEF CertifyCloseout, ClosureEligible, Mutable, MutableIn
  <2>2. Account!Due = 0
    BY <1>t, <2>1, DueIsBalance, CashNat DEF Balance, NetCash
  <2>3. Account!Close
    BY <2>1, <2>2 DEF Account!Close, Account!figures, settlementVars
  <2> QED
    BY <2>3 DEF Account!Next
<1>2. CASE UNCHANGED <<settlementVars, closure>>
  <2>1. CASE Mutable' = Mutable
    BY <1>2, <2>1, FrameOfAccount
  <2>2. CASE Mutable /\ ~Mutable'
    BY <1>1, <2>2, ClosingStep
  <2>3. CASE ~Mutable /\ Mutable'
    <3>1. Reopening(settlement, payments)
      BY <2>3, OpeningStep DEF ApproveReopen
    <3>2. settlement'.status = "REOPENED" /\ settlement.status = "SETTLED"
      BY <1>t, <3>1 DEF Reopening, Settlement
    <3> QED
      BY <1>2, <3>2 DEF settlementVars
  <2> QED
    BY <2>1, <2>2, <2>3 DEF Mutable, MutableIn
<1>3. CASE SettlementNext
  <2>1. CASE PrepareSettlement
    <3>1. Entitlement \in Nat /\ DisbursedAdvance \in Nat
      BY <1>t, EntitlementBound, DisbursedNat, AmountsAssumption
    <3>2. /\ settlement.status \in {"NONE", "REOPENED"} /\ settlement'.status = "DRAFT"
          /\ settlement'.payout \in Nat /\ settlement'.advance \in Nat
          /\ Mutable /\ UNCHANGED <<Mutable, payments, revisions, closure>>
      BY <2>1, <3>1 DEF PrepareSettlement, eventVars, closureVars, Mutable
    <3> QED
      BY <3>2 DEF Account!Next, Account!DrawUp
  <2>2. CASE \/ SubmitSettlement(eventStatus, settlement)
             \/ QuerySettlement(eventStatus, settlement)
             \/ ApproveSettlement(eventStatus, settlement)
             \/ \E amount \in PaymentAmounts : RecordPayment(eventStatus, settlement, amount)
             \/ ReopenSettlement(eventStatus, settlement, payments)
    <3>1. DecideOnSettlement(Rows)
      BY <2>2 DEF DecideOnSettlement, Rows, Pay, Reopen
    <3> QED
      BY <3>1, RowsOK, DecisionInAccount
  <2>3. CASE UNCHANGED settlementVars /\ UNCHANGED closureVars
    BY <1>2, <2>3 DEF closureVars
  <2> QED
    BY <1>3, <2>1, <2>2, <2>3
       DEF SettlementNext, RequestAdvance, RejectAdvance, ApproveAdvance, DisburseAdvance,
           SetAdvance, RecordIncome, VerifyIncome, RejectIncome, SetIncome
<1>4. CASE ApproveReopen
  <2>1. /\ Reopening(settlement, payments) /\ UNCHANGED <<payments, closure>>
        /\ ~Mutable /\ settlement.status = "SETTLED"
    BY <1>4 DEF ApproveReopen, Reopening, Mutable, MutableIn
  <2>2. Balance = 0 /\ SameFigures(settlement)
    BY <2>1, RowsOK DEF SeenOK, Rows, SameFigures
  <2> QED
    BY <1>t, <2>1, <2>2, ReopeningInAccount
<1>5. CASE ExecutionNext \/ ExpenseNext
  BY <1>2, <1>5, LedgerStepsKeepSettlement DEF closureVars
<1>6. CASE RequestCloseout \/ RejectCloseout \/ ArchiveEvent
  BY <1>2, <1>6 DEF RequestCloseout, RejectCloseout, ArchiveEvent, closureVars
<1> QED
  BY <1>1, <1>3, <1>4, <1>5, <1>6 DEF Next, CloseoutNext

-----------------------------------------------------------------------------
(* The certificate and the histories *)

\* A decision on rows read earlier changes no figure of the settlement and no
\* certificate, and adds at most one revision.
LEMMA DecisionSteps ==
  ASSUME NEW seen \in RaceRow, TypeOK, DecideOnSettlement(seen)
  PROVE  /\ settlement'.payout = settlement.payout
         /\ settlement'.verified = settlement.verified
         /\ settlement'.income = settlement.income
         /\ UNCHANGED <<eventStatus, closureVars>>
         /\ \/ revisions' = revisions
            \/ \E last \in Revision : revisions' = Append(revisions, last)
<1>1. settlement \in Settlement /\ seen.settlement \in Settlement /\ seen.paid \in Payments
  BY DEF TypeOK, RaceRow
<1>2. ASSUME NEW status, SetSettlementStatus(status)
      PROVE  /\ settlement'.payout = settlement.payout
             /\ settlement'.verified = settlement.verified
             /\ settlement'.income = settlement.income
             /\ UNCHANGED <<eventStatus, closureVars, revisions>>
  BY <1>1, <1>2 DEF SetSettlementStatus, Settlement, eventVars
<1>3. CASE \/ SubmitSettlement(seen.status, seen.settlement)
           \/ QuerySettlement(seen.status, seen.settlement)
           \/ ApproveSettlement(seen.status, seen.settlement)
  BY <1>2, <1>3 DEF SubmitSettlement, QuerySettlement, ApproveSettlement
<1>4. CASE Pay(seen)
  <2>1. settlement' \in {settlement, [settlement EXCEPT !.status = "SETTLED"]}
        /\ UNCHANGED <<eventStatus, closureVars, revisions>>
    BY <1>4 DEF Pay, RecordPayment, eventVars
  <2> QED
    BY <1>1, <2>1 DEF Settlement
<1>5. CASE Reopen(seen)
  <2>1. /\ Reopening(seen.settlement, seen.paid)
        /\ settlement' = [settlement EXCEPT !.status = "REOPENED"]
        /\ UNCHANGED <<eventStatus, closureVars>>
    BY <1>5 DEF Reopen, ReopenSettlement, Reopening, eventVars
  <2>2. \E last \in Revision : revisions' = Append(revisions, last)
    BY <1>1, <2>1, SnapshotType
  <2> QED
    BY <1>1, <2>1, <2>2 DEF Settlement
<1> QED
  BY <1>3, <1>4, <1>5 DEF DecideOnSettlement

\* A certificate is sealed when the event is closed, and until it is opened again no
\* request compiles the settlement or certifies anything.
LEMMA CertificateStep ==
  ASSUME MoneyInv, CertificateMatchesSettlement, Next
  PROVE  CertificateMatchesSettlement'
<1>1. CASE Mutable'
  BY <1>1 DEF CertificateMatchesSettlement, Mutable, MutableIn
<1>2. CASE CertifyCloseout
  BY <1>2 DEF CertifyCloseout, CertificateMatchesSettlement, settlementVars
<1>3. ASSUME UNCHANGED <<settlement, closure>>, ~Mutable
      PROVE  CertificateMatchesSettlement'
  BY <1>3 DEF CertificateMatchesSettlement, Mutable, MutableIn
<1>4. CASE ~Mutable /\ SettlementNext
  <2>1. ~PrepareSettlement
    BY <1>4 DEF PrepareSettlement
  <2>2. CASE DecideOnSettlement(Rows)
    <3>1. /\ settlement'.payout = settlement.payout
          /\ settlement'.verified = settlement.verified
          /\ settlement'.income = settlement.income
          /\ UNCHANGED <<eventStatus, closureVars>>
      BY <2>2, RowsOK, DecisionSteps DEF MoneyInv
    <3> QED
      BY <3>1 DEF CertificateMatchesSettlement, closureVars
  <2>3. CASE UNCHANGED <<settlementVars, closureVars>>
    BY <1>3, <1>4, <2>3 DEF settlementVars, closureVars
  <2>4. CASE \/ SubmitSettlement(eventStatus, settlement)
             \/ QuerySettlement(eventStatus, settlement)
             \/ ApproveSettlement(eventStatus, settlement)
             \/ \E amount \in PaymentAmounts : RecordPayment(eventStatus, settlement, amount)
             \/ ReopenSettlement(eventStatus, settlement, payments)
    BY <2>2, <2>4 DEF DecideOnSettlement, Rows, Pay, Reopen
  <2> QED
    BY <1>4, <2>1, <2>3, <2>4
       DEF SettlementNext, RequestAdvance, RejectAdvance, ApproveAdvance, DisburseAdvance,
           SetAdvance, RecordIncome, VerifyIncome, RejectIncome, SetIncome
<1>5. CASE ~Mutable /\ CloseoutNext
  <2>1. CASE ApproveReopen
    BY <1>1, <2>1 DEF ApproveReopen, Mutable, MutableIn
  <2> QED
    BY <1>2, <1>3, <1>5, <2>1 DEF CloseoutNext, RequestCloseout, RejectCloseout, ArchiveEvent,
                                  settlementVars, closureVars
<1>6. CASE ~Mutable /\ (ExecutionNext \/ ExpenseNext)
  BY <1>3, <1>6, LedgerStepsKeepSettlement DEF settlementVars, closureVars
<1>7. CASE Mutable /\ ~Mutable'
  BY <1>2, <1>7, ClosingStep
<1> QED
  BY <1>1, <1>4, <1>5, <1>6, <1>7 DEF Next, Mutable, MutableIn

-----------------------------------------------------------------------------
(* Requests one at a time *)

LEMMA MoneyOfHistory == HistoryInv => MoneyInv
BY DEF HistoryInv, PaymentInv, MoneyInv

LEMMA ClearedInit == Init => Account!Init /\ Account!Cleared
BY DEF Init, NoSettlement, NoClosure, Mutable, MutableIn, Account!Init, Account!figures,
       Account!Cleared, Account!Due

LEMMA AccountStep ==
  ASSUME MoneyInv, Account!Cleared, [Next]_vars
  PROVE  [Account!Next]_Account!account /\ Account!Cleared'
<1>1. [Account!Next]_Account!account
  <2>1. CASE UNCHANGED vars
    <3>1. UNCHANGED <<settlementVars, closure>> /\ Mutable' = Mutable
      BY <2>1 DEF vars, eventVars, closureVars, Mutable
    <3> QED
      BY <3>1, FrameOfAccount
  <2> QED
    BY <2>1, RequestInAccount
<1> QED
  BY <1>1, ClearedStep DEF MoneyInv

\* The settlement is an account: drawn up once per reopening, paid only to whom
\* something is due, closed when nothing is, and reopened on the record -- for every
\* ledger, grant and advance.
THEOREM SettlementRefinesAccount == Spec => SettlementIsAnAccount
<1>1. Spec => []MoneyInv
  BY HistoryAlways, MoneyOfHistory, PTL
<1>2. Init => Account!Init /\ Account!Cleared
  BY ClearedInit
<1>3. MoneyInv /\ Account!Cleared /\ [Next]_vars
         => [Account!Next]_Account!account /\ Account!Cleared'
  BY AccountStep
<1> QED
  BY <1>1, <1>2, <1>3, PTL DEF Spec, SettlementIsAnAccount, Account!Spec

-----------------------------------------------------------------------------
(* Any number of sessions *)

RaceAccountInv ==
    /\ RaceMoneyInv
    /\ Account!Cleared
    /\ CertificateMatchesSettlement
    /\ ReopeningRecordedTwice
    /\ Len(closureRevisions) <= Len(revisions)

\* What the invariant adds to RaceMoneyInv, and the step it needs of the account.
RaceAccountStepOK ==
    /\ [Account!Next]_Account!account
    /\ CertificateMatchesSettlement'
    /\ ReopeningRecordedTwice'
    /\ (Len(closureRevisions) <= Len(revisions))'

LEMMA RaceFrameInAccount ==
  ASSUME RaceAccountInv, UNCHANGED <<eventStatus, settlementVars, closureVars>>
  PROVE  RaceAccountStepOK
<1>1. [Account!Next]_Account!account
  BY FrameOfAccount DEF closureVars, Mutable
<1>2. CertificateMatchesSettlement'
  BY DEF RaceAccountInv, CertificateMatchesSettlement, settlementVars, closureVars
<1>3. ReopeningRecordedTwice' /\ (Len(closureRevisions) <= Len(revisions))'
  BY DEF RaceAccountInv, ReopeningRecordedTwice, settlementVars, closureVars
<1> QED
  BY <1>1, <1>2, <1>3 DEF RaceAccountStepOK

LEMMA RaceDecisionInAccount ==
  ASSUME NEW seen \in RaceRow, SeenOK(seen), RaceAccountInv, DecideOnSettlement(seen)
  PROVE  RaceAccountStepOK
<1>t. MoneyInv /\ TypeOK /\ Account!Cleared
  BY DEF RaceAccountInv, RaceMoneyInv, MoneyInv
<1>1. [Account!Next]_Account!account
  BY <1>t, DecisionInAccount
<1>2. /\ settlement'.payout = settlement.payout
      /\ settlement'.verified = settlement.verified
      /\ settlement'.income = settlement.income
      /\ UNCHANGED <<eventStatus, closureVars>>
      /\ \/ revisions' = revisions
         \/ \E last \in Revision : revisions' = Append(revisions, last)
  BY <1>t, DecisionSteps
<1>3. CertificateMatchesSettlement'
  BY <1>2 DEF RaceAccountInv, CertificateMatchesSettlement, closureVars
<1>4. ReopeningRecordedTwice' /\ (Len(closureRevisions) <= Len(revisions))'
  BY <1>t, <1>2, ReopeningHistoryStep
     DEF RaceAccountInv, CertificateMatchesSettlement, closureVars
<1> QED
  BY <1>1, <1>3, <1>4 DEF RaceAccountStepOK

LEMMA RaceRequestInAccount ==
  ASSUME RaceAccountInv, Next
  PROVE  RaceAccountStepOK
<1>t. /\ MoneyInv /\ TypeOK /\ Account!Cleared /\ CertificateMatchesSettlement
      /\ settlement \in Settlement /\ payments \in Payments
  BY DEF RaceAccountInv, RaceMoneyInv, MoneyInv, TypeOK
<1>1. [Account!Next]_Account!account
  BY <1>t, RequestInAccount
<1>2. CertificateMatchesSettlement'
  BY <1>t, CertificateStep
<1>3. \/ revisions' = revisions
      \/ \E last \in Revision : revisions' = Append(revisions, last)
  BY <1>t, RevisionSteps, SnapshotType
<1>4. closureRevisions' = closureRevisions \/ ApproveReopen
  BY ClosureRevisionSteps
<1>5. ReopeningRecordedTwice' /\ (Len(closureRevisions) <= Len(revisions))'
  BY <1>t, <1>3, <1>4, ReopeningHistoryStep DEF RaceAccountInv, CertificateMatchesSettlement
<1> QED
  BY <1>1, <1>2, <1>5 DEF RaceAccountStepOK

LEMMA RaceAccountStep ==
  ASSUME RaceAccountInv, [RaceNext]_raceVars
  PROVE  [Account!Next]_Account!account /\ RaceAccountInv'
<1>1. ASSUME UNCHANGED vars PROVE RaceAccountStepOK
  BY <1>1, RaceFrameInAccount DEF vars, eventVars
<1>2. ASSUME NEW s \in Sessions, Answer(s) PROVE RaceAccountStepOK
  <2> PICK seen \in read[s] : DecideOnLedger(seen.status) \/ DecideOnSettlement(seen)
    BY <1>2 DEF Answer
  <2>1. seen \in RaceRow /\ SeenOK(seen)
    BY DEF RaceAccountInv, RaceMoneyInv, SeenInv
  <2>2. CASE DecideOnLedger(seen.status)
    BY <2>2, LedgerDecisionSteps, RaceFrameInAccount DEF eventVars
  <2>3. CASE DecideOnSettlement(seen)
    BY <2>1, <2>3, RaceDecisionInAccount
  <2> QED
    BY <2>2, <2>3
<1>3. RaceAccountStepOK
  BY <1>1, <1>2, RaceRequestInAccount
     DEF RaceNext, ReadRows, Refuse, Uninterrupted, raceVars
<1>4. RaceMoneyInv'
  BY RaceMoneyStep DEF RaceAccountInv
<1>5. Account!Cleared'
  BY <1>3, ClearedStep DEF RaceAccountStepOK, RaceAccountInv, RaceMoneyInv, MoneyInv
<1> QED
  BY <1>3, <1>4, <1>5 DEF RaceAccountStepOK, RaceAccountInv

LEMMA RaceAccountInit == RaceInit => RaceAccountInv /\ Account!Init
<1> SUFFICES ASSUME RaceInit PROVE RaceAccountInv /\ Account!Init
  OBVIOUS
<1>1. Init
  BY DEF RaceInit
<1>2. RaceMoneyInv /\ Account!Cleared /\ Account!Init
  BY <1>1, RaceMoneyInit, ClearedInit
<1>3. CertificateMatchesSettlement
  BY <1>1, ClosedInit DEF ClosedInv
<1>4. ReopeningRecordedTwice /\ Len(closureRevisions) <= Len(revisions)
  BY <1>1, HistoryInit DEF HistoryInv
<1> QED
  BY <1>2, <1>3, <1>4 DEF RaceAccountInv

LEMMA RaceAccountAlways == RaceSpec => []RaceAccountInv
<1>1. RaceAccountInv /\ [RaceNext]_raceVars => RaceAccountInv'
  BY RaceAccountStep
<1> QED
  BY <1>1, RaceAccountInit, PTL DEF RaceSpec

\* Requests that decide on rows they read before others committed still treat the
\* settlement as the account it is.
THEOREM SettlementRefinesAccountInRaces == RaceSpec => SettlementIsAnAccount
<1>1. RaceInit => Account!Init
  BY RaceAccountInit
<1>2. RaceAccountInv /\ [RaceNext]_raceVars => [Account!Next]_Account!account
  BY RaceAccountStep
<1> QED
  BY <1>1, <1>2, RaceAccountAlways, PTL DEF RaceSpec, SettlementIsAnAccount, Account!Spec

\* record_payment sums the payments after its wait, so that even a request that read
\* the settlement before other payments does not overshoot.
THEOREM PaymentsNeverOvershootInRaces == RaceSpec => []NeverOverpaid
<1>1. MoneyInv => NeverOverpaid
  <2> SUFFICES ASSUME MoneyInv PROVE NeverOverpaid
    OBVIOUS
  <2>1. NetCash(settlement.advance) \in Int /\ settlement.payout \in Int
    BY CashNat DEF MoneyInv, NetCash
  <2> QED
    BY <2>1 DEF MoneyInv, NeverOverpaid, Directed, Balance
<1> QED
  BY <1>1, RaceMoneyAlways, PTL DEF RaceMoneyInv

\* Nor does a late decision change a figure that a valid certificate seals.
THEOREM CertificatesMatchInRaces == RaceSpec => []CertificateMatchesSettlement
<1>1. RaceAccountInv => CertificateMatchesSettlement
  BY DEF RaceAccountInv
<1> QED
  BY <1>1, RaceAccountAlways, PTL

\* Every revoked certificate is kept with the settled settlement it sealed: approve_reopen
\* locks the event and refuses when a late decision has moved the settlement on.
THEOREM ReopeningsAreRecordedTwiceInRaces == RaceSpec => []ReopeningRecordedTwice
<1>1. RaceAccountInv => ReopeningRecordedTwice
  BY DEF RaceAccountInv
<1> QED
  BY <1>1, RaceAccountAlways, PTL

-----------------------------------------------------------------------------
(* The grant *)

\* The settlement's payout is within the grant, and the advance it counts is the one
\* that was disbursed, unless none was when it was prepared.
GrantInv == settlement.payout <= Grant /\ settlement.advance \in {0, DisbursedAdvance}

\* What a step that does not compile the settlement may do to the advance.
AdvanceKept == DisbursedAdvance' = DisbursedAdvance \/ DisbursedAdvance = 0

LEMMA GrantKept ==
  ASSUME GrantInv, AdvanceKept, Kept
  PROVE  GrantInv'
BY DEF GrantInv, AdvanceKept, Kept

\* An advance is disbursed at most once, and then stays as it is.
LEMMA AdvanceSteps ==
  ASSUME TypeOK,
         \/ RequestAdvance
         \/ RejectAdvance
         \/ \E ev, amount : ApproveAdvance(ev, amount)
         \/ \E amount : DisburseAdvance(amount)
         \/ CancelConfirmedEvent
  PROVE  AdvanceKept
<1>1. ASSUME advance.status = "DISBURSED" PROVE DisbursedAdvance' = DisbursedAdvance
  BY <1>1 DEF RequestAdvance, RejectAdvance, ApproveAdvance, DisburseAdvance,
              CancelConfirmedEvent, AdvanceUnresolved, DisbursedAdvance
<1> QED
  BY <1>1 DEF AdvanceKept, DisbursedAdvance

LEMMA AdvanceOfOthers == ASSUME UNCHANGED advance PROVE AdvanceKept
BY DEF AdvanceKept, DisbursedAdvance

\* A decision on the ledgers, in a status that was read earlier.
LEMMA AdvanceOfLedger ==
  ASSUME NEW ev, TypeOK, DecideOnLedger(ev)
  PROVE  AdvanceKept
<1>1. CASE \E amount \in Amounts : ApproveAdvance(ev, amount)
  BY <1>1, AdvanceSteps
<1>2. CASE ~\E amount \in Amounts : ApproveAdvance(ev, amount)
  <2>1. UNCHANGED advance
    BY <1>2 DEF DecideOnLedger, DeleteDraftExpense, VerifyExpense, QueryExpense,
                DisallowExpense, CreateDraftExpense, UpdateExpense, PartialVerifyExpense,
                VerifyIncome, SetIncome, SetExpense, SetExpenses
  <2> QED
    BY <2>1, AdvanceOfOthers
<1> QED
  BY <1>1, <1>2

\* A decision on the settlement, as it was read earlier.
LEMMA AdvanceOfSettlement ==
  ASSUME NEW seen, DecideOnSettlement(seen)
  PROVE  AdvanceKept
<1>1. UNCHANGED advance
  BY DEF DecideOnSettlement, SubmitSettlement, QuerySettlement, ApproveSettlement,
         SetSettlementStatus, Pay, RecordPayment, Reopen, ReopenSettlement
<1> QED
  BY <1>1, AdvanceOfOthers

LEMMA GrantOfRequest ==
  ASSUME MoneyInv, GrantInv, Next
  PROVE  GrantInv'
<1>t. TypeOK
  BY DEF MoneyInv
<1>1. CASE PrepareSettlement
  <2>1. /\ settlement'.payout = Entitlement /\ settlement'.advance = DisbursedAdvance
        /\ UNCHANGED advance
    BY <1>1 DEF PrepareSettlement
  <2> QED
    BY <2>1, EntitlementBound, AmountsAssumption DEF GrantInv, DisbursedAdvance
<1>2. CASE ExecutionNext \/ ExpenseNext
  <2>1. Kept
    BY <1>2, LedgerStepsKeepSettlement, MoneyFrame, TypeStep DEF MoneyInv
  <2>2. CASE CancelConfirmedEvent
    BY <1>t, <2>1, <2>2, AdvanceSteps, GrantKept
  <2>3. CASE ~CancelConfirmedEvent
    <3>1. UNCHANGED advance
      BY <1>2, <2>3 DEF ExecutionNext, ClockAdvances, StartEvent, AdminStartEvent,
              CompleteAndSubmitReport, CertifyReport, RequestReportRevision,
              ResubmitReport, ReportTransition, ExpenseNext, CreateDraftExpense,
              UpdateExpense, DeleteDraftExpense, SubmitExpenses, VerifyExpense,
              PartialVerifyExpense, QueryExpense, DisallowExpense, SetExpense, SetExpenses
    <3> QED
      BY <2>1, <3>1, AdvanceOfOthers, GrantKept
  <2> QED
    BY <2>2, <2>3
<1>3. CASE CloseoutNext
  <2>1. /\ settlement'.payout = settlement.payout /\ settlement'.advance = settlement.advance
        /\ UNCHANGED advance
    BY <1>3, <1>t DEF CloseoutNext, RequestCloseout, CertifyCloseout, RejectCloseout,
                      ApproveReopen, ArchiveEvent, Reopening, settlementVars, TypeOK, Settlement
  <2> QED
    BY <2>1 DEF GrantInv, DisbursedAdvance
<1>4. CASE SettlementNext /\ ~PrepareSettlement
  <2>1. CASE \/ RequestAdvance
             \/ RejectAdvance
             \/ \E amount \in Amounts : ApproveAdvance(eventStatus, amount) \/ DisburseAdvance(amount)
    <3>1. UNCHANGED settlement
      BY <2>1 DEF RequestAdvance, RejectAdvance, ApproveAdvance, DisburseAdvance, SetAdvance,
                  settlementVars
    <3>2. AdvanceKept
      BY <1>t, <2>1, AdvanceSteps
    <3> QED
      BY <3>1, <3>2 DEF GrantInv, AdvanceKept
  <2>2. CASE \/ \E i \in Incomes, amount \in Amounts : RecordIncome(i, amount)
             \/ \E i \in Incomes : VerifyIncome(eventStatus, i) \/ RejectIncome(i)
    BY <2>2 DEF RecordIncome, VerifyIncome, RejectIncome, SetIncome, settlementVars, GrantInv,
                DisbursedAdvance
  <2>3. CASE \/ SubmitSettlement(eventStatus, settlement)
             \/ QuerySettlement(eventStatus, settlement)
             \/ ApproveSettlement(eventStatus, settlement)
             \/ \E amount \in PaymentAmounts : RecordPayment(eventStatus, settlement, amount)
             \/ ReopenSettlement(eventStatus, settlement, payments)
    <3>1. DecideOnSettlement(Rows)
      BY <2>3 DEF DecideOnSettlement, Rows, Pay, Reopen
    <3> QED
      BY <3>1, RowsOK, MoneyDecided, AdvanceOfSettlement, GrantKept
  <2> QED
    BY <1>4, <2>1, <2>2, <2>3 DEF SettlementNext
<1> QED
  BY <1>1, <1>2, <1>3, <1>4 DEF Next

LEMMA GrantStep == RaceMoneyInv /\ GrantInv /\ [RaceNext]_raceVars => GrantInv'
<1> SUFFICES ASSUME RaceMoneyInv, GrantInv, [RaceNext]_raceVars PROVE GrantInv'
  OBVIOUS
<1>t. MoneyInv /\ TypeOK
  BY DEF RaceMoneyInv, MoneyInv
<1>1. ASSUME UNCHANGED vars PROVE GrantInv'
  BY <1>1 DEF vars, settlementVars, GrantInv, DisbursedAdvance
<1>2. ASSUME NEW s \in Sessions, Answer(s) PROVE GrantInv'
  <2> PICK seen \in read[s] : DecideOnLedger(seen.status) \/ DecideOnSettlement(seen)
    BY <1>2 DEF Answer
  <2>1. seen \in RaceRow /\ SeenOK(seen)
    BY DEF RaceMoneyInv, SeenInv
  <2>2. CASE DecideOnLedger(seen.status)
    BY <1>t, <2>2, LedgerDecisionType, MoneyFrame, AdvanceOfLedger, GrantKept
  <2>3. CASE DecideOnSettlement(seen)
    BY <1>t, <2>1, <2>3, MoneyDecided, AdvanceOfSettlement, GrantKept
  <2> QED
    BY <2>2, <2>3
<1> QED
  BY <1>t, <1>1, <1>2, GrantOfRequest DEF RaceNext, ReadRows, Refuse, Uninterrupted, raceVars

LEMMA GrantAlways == RaceSpec => []GrantInv
<1>1. RaceInit => GrantInv
  BY AmountsAssumption DEF RaceInit, Init, GrantInv, NoSettlement
<1> QED
  BY <1>1, GrantStep, RaceMoneyAlways, PTL DEF RaceSpec

\* A late decision can give the settlement of a closed event any status, but nothing
\* is due to anybody; and only an advance that was disbursed after prepare_settlement
\* summed up the ledgers can make the event cost more than its grant.
THEOREM ClosedIsClearedInRaces == RaceSpec => []ClosedIsCleared
<1>1. RaceAccountInv /\ GrantInv => ClosedIsCleared
  <2> SUFFICES ASSUME RaceAccountInv, ~Mutable
               PROVE  NetCash(settlement.advance) = settlement.payout
    BY DEF ClosedIsCleared, GrantInv, Mutable, MutableIn
  <2>1. TypeOK /\ Account!Cleared
    BY DEF RaceAccountInv, RaceMoneyInv, MoneyInv
  <2> QED
    BY <2>1, DueIsBalance, CashNat DEF Account!Cleared, Balance, NetCash
<1> QED
  BY <1>1, RaceAccountAlways, GrantAlways, PTL
=================================================================================
