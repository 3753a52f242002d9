------------------------------ MODULE EventAccount ------------------------------
(***************************************************************************)
(* What the settlement of an event promises: it is drawn up once, and once *)
(* more after every reopening; payments go to whom something is due and    *)
(* never overshoot; an event is closed when nothing is due, and then its   *)
(* figures and payments stay as they were sealed; and every reopening      *)
(* records an account in which nothing was due.                            *)
(***************************************************************************)
EXTENDS Integers, Sequences

VARIABLES
    payout,       \* what the institution contributes to the event
    advance,      \* what it has paid out beforehand
    reimbursed,   \* all payments to the club so far
    refunded,     \* all payments by the club so far
    open,         \* may the account be drawn up?
    closed,       \* is the event closed?
    sealed,       \* the payout its certificate names
    history       \* the accounts that were reopened, oldest first

figures == <<payout, advance>>
account == <<figures, reimbursed, refunded, open, closed, sealed, history>>

\* What the institution owes the club; negative when the club owes.
Due == payout - advance - reimbursed + refunded

Init ==
    /\ figures = <<0, 0>>
    /\ reimbursed = 0 /\ refunded = 0
    /\ open = TRUE
    /\ closed = FALSE /\ sealed = 0
    /\ history = <<>>

DrawUp ==
    /\ open
    /\ open' = FALSE
    /\ payout' \in Nat /\ advance' \in Nat
    /\ closed => UNCHANGED figures
    /\ UNCHANGED <<reimbursed, refunded, closed, sealed, history>>

Reimburse ==
    /\ \E amount \in 1 .. Due : reimbursed' = reimbursed + amount
    /\ UNCHANGED <<figures, refunded, open, closed, sealed, history>>

Refund ==
    /\ \E amount \in 1 .. -Due : refunded' = refunded + amount
    /\ UNCHANGED <<figures, reimbursed, open, closed, sealed, history>>

Close ==
    /\ ~open /\ ~closed
    /\ Due = 0
    /\ closed' = TRUE
    /\ sealed' = payout
    /\ UNCHANGED <<figures, reimbursed, refunded, open, history>>

\* A closed event may be reopened with its account.
Reopen ==
    /\ Due = 0
    /\ history' = Append(history, [number |-> Len(history) + 1, status |-> "SETTLED",
                                   advance |-> advance, payout |-> payout,
                                   reimbursed |-> reimbursed, refunded |-> refunded])
    /\ open' = TRUE
    /\ closed' \in BOOLEAN /\ (closed' => closed)
    /\ UNCHANGED <<figures, reimbursed, refunded, sealed>>

-----------------------------------------------------------------------------
\* While an account waits to be drawn up, or its event is closed, nothing is due; a
\* closed event's certificate names the payout.
Cleared ==
    /\ open \/ closed => Due = 0
    /\ closed => sealed = payout

Next == DrawUp \/ Reimburse \/ Refund \/ Close \/ Reopen

Spec == Init /\ [][Next]_account
================================================================================
