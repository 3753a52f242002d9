---------------------------- MODULE WorkflowService ----------------------------
(***************************************************************************)
(* The approval workflow of a proposal: one instance per submission, with  *)
(* one step per reviewer, decided in order.  Who may decide a step is      *)
(* fixed by roles that no handler here changes, so any current step may be *)
(* decided.  Approving the hall's step confirms the hall, approving the    *)
(* finance step verifies the budget, approving the last one creates the    *)
(* event.                                                                  *)
(***************************************************************************)
EXTENDS ProposalState

-----------------------------------------------------------------------------
(* Instances *)

\* Slip: steps are counted from zero.
NewInstanceFromZero(version) ==
    [status |-> "IN_PROGRESS", current |-> 0, version |-> version,
     steps |-> [k \in Steps |-> "PENDING"]]

NewInstance(version) ==
    [status |-> "IN_PROGRESS", current |-> 1, version |-> version,
     steps |-> [k \in Steps |-> "PENDING"]]

\* Slip: an earlier instance is left in progress.
SupersededNever(p, row) == workflow[p]

\* The instance the request points to is superseded if it is still in progress.
Superseded(p, row) ==
    IF row.instance # 0 /\ workflow[p][row.instance].status = "IN_PROGRESS"
    THEN [workflow[p] EXCEPT ![row.instance].status = "SUPERSEDED"]
    ELSE workflow[p]

\* Slip: the instance is given the number of the version before.
InstantiateWorkflowBefore(p, row, version) == Append(Superseded(p, row), NewInstance(row.version))

\* Slip: a resubmission goes on with the step that sent it back.
InstantiateWorkflowResumed(p, row, version) ==
    Append(Superseded(p, row),
           IF row.instance = 0 THEN NewInstance(version)
           ELSE [NewInstance(version) EXCEPT !.current = workflow[p][row.instance].current])

InstantiateWorkflow(p, row, version) == Append(Superseded(p, row), NewInstance(version))

\* Slip: any undecided step may be decided.
AwaitingAnyOrder(p, i, k) ==
    workflow[p][i].status = "IN_PROGRESS" /\ workflow[p][i].steps[k] = "PENDING"

\* Step k of instance i is the one a decision is awaited on.
Awaiting(p, i, k) ==
    /\ workflow[p][i].status = "IN_PROGRESS"
    /\ workflow[p][i].current = k
    /\ workflow[p][i].steps[k] = "PENDING"

-----------------------------------------------------------------------------
(* Approving *)

\* The reviewer's own look at the calendar, by the date the request names.
HallTaken(p) ==
    \E q \in Proposals \ {p} :
        /\ booking[q].active
        /\ booking[q].slot.date = venue[p].slot.date
        /\ Overlap(booking[q].slot, venue[p].slot)

\* A booking row of an earlier review is only made active again, as it is.
BookedSlot(p) == IF booking[p].slot = NoSlot THEN venue[p].slot ELSE booking[p].slot

\* Slip: the booking is written without its constraint.
ConfirmHallUnchecked(p) ==
    IF venue[p].status = "NONE" \/ HallTaken(p) THEN UNCHANGED <<venue, booking>>
    ELSE /\ venue' = [venue EXCEPT ![p].status = "APPROVED"]
         /\ booking' = [booking EXCEPT ![p] = [slot |-> BookedSlot(p), active |-> TRUE]]

ConfirmHall(p) ==
    \/ /\ venue[p].status = "NONE"
       /\ UNCHANGED <<venue, booking>>
    \/ /\ venue[p].status # "NONE"
       /\ ~HallTaken(p)
       /\ Exclusive(p, BookedSlot(p))
       /\ venue' = [venue EXCEPT ![p].status = "APPROVED"]
       /\ booking' = [booking EXCEPT ![p] = [slot |-> BookedSlot(p), active |-> TRUE]]

VerifyBudgetOf(p) ==
    budget' = IF budget[p].finance = "NONE" THEN budget
              ELSE [budget EXCEPT ![p].finance = "VERIFIED"]

\* Slip: the event is announced in the hall the request names.
ConfirmedEventAsRequested(p) ==
    [status |-> "SCHEDULED", slot |-> venue[p].slot, version |-> Len(versions[p])]

\* The event is created once, in the booked hall or else the requested one,
\* from the latest snapshot.
ConfirmedEvent(p) ==
    IF confirmed[p].status # "NONE" THEN confirmed[p]
    ELSE [status  |-> "SCHEDULED",
          slot    |-> IF booking[p].active THEN booking[p].slot ELSE venue[p].slot,
          version |-> Len(versions[p])]

\* Slip: the pointer stays on the approved step.
AdvanceStuck(p, i, k) ==
    /\ k < LastStep
    /\ workflow' = [workflow EXCEPT ![p][i] = [@ EXCEPT !.steps[k] = "APPROVED"]]
    /\ request' = IF request[p].status = "SUBMITTED"
                  THEN [request EXCEPT ![p].status = "IN_REVIEW"] ELSE request
    /\ UNCHANGED confirmed

Advance(p, i, k) ==
    /\ k < LastStep
    /\ workflow' = [workflow EXCEPT ![p][i] = [@ EXCEPT !.steps[k] = "APPROVED", !.current = k + 1]]
    /\ request' = IF request[p].status = "SUBMITTED"
                  THEN [request EXCEPT ![p].status = "IN_REVIEW"] ELSE request
    /\ UNCHANGED confirmed

Complete(p, i, k) ==
    /\ k = LastStep
    /\ workflow' = [workflow EXCEPT ![p][i] =
                       [@ EXCEPT !.steps[k] = "APPROVED", !.status = "COMPLETED"]]
    /\ request' = [request EXCEPT ![p].status = "APPROVED"]
    /\ confirmed' = [confirmed EXCEPT ![p] = ConfirmedEvent(p)]

ApproveStep(p, i, k) ==
    /\ Awaiting(p, i, k)
    /\ IF k = HallStep THEN ConfirmHall(p) ELSE UNCHANGED <<venue, booking>>
    /\ IF k = FinanceStep THEN VerifyBudgetOf(p) ELSE UNCHANGED budget
    /\ Advance(p, i, k) \/ Complete(p, i, k)
    /\ UNCHANGED versions

-----------------------------------------------------------------------------
(* Rejecting and sending back *)

\* Slip: the hall of a rejected proposal stays booked.
RejectStepKeepsHall(p, i, k) ==
    /\ Awaiting(p, i, k)
    /\ workflow' = [workflow EXCEPT ![p][i] =
                       [@ EXCEPT !.steps[k] = "REJECTED", !.status = "REJECTED"]]
    /\ request' = [request EXCEPT ![p].status = "REJECTED"]
    /\ UNCHANGED <<versions, venue, booking, budget, confirmed>>

\* Ends the proposal, and releases the hall if it was confirmed.
RejectStep(p, i, k) ==
    /\ Awaiting(p, i, k)
    /\ workflow' = [workflow EXCEPT ![p][i] =
                       [@ EXCEPT !.steps[k] = "REJECTED", !.status = "REJECTED"]]
    /\ request' = [request EXCEPT ![p].status = "REJECTED"]
    /\ venue' = IF venue[p].status = "NONE" THEN venue
                ELSE [venue EXCEPT ![p].status = "REJECTED"]
    /\ booking' = [booking EXCEPT ![p].active = FALSE]
    /\ UNCHANGED <<versions, budget, confirmed>>

\* Unlocks the proposal for its club; the instance stays in progress and the
\* hall stays booked.
RequestRevision(p, i, k) ==
    /\ Awaiting(p, i, k)
    /\ workflow' = [workflow EXCEPT ![p][i] = [@ EXCEPT !.steps[k] = "REVISION_REQUESTED"]]
    /\ request' = [request EXCEPT ![p].status = "REVISION_REQUIRED"]
    /\ UNCHANGED <<versions, venue, booking, budget, confirmed>>

DecideStep(p) ==
    \E i \in 1 .. Len(workflow[p]), k \in Steps :
        \/ ApproveStep(p, i, k)
        \/ RejectStep(p, i, k)
        \/ RequestRevision(p, i, k)

WorkflowNext == \E p \in Proposals : DecideStep(p)
================================================================================
