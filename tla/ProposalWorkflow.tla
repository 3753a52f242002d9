--------------------------- MODULE ProposalWorkflow ---------------------------
(***************************************************************************)
(* The proposals with every service that acts on them, from draft to       *)
(* confirmed event.  Each request is one step: the row its session read is *)
(* the current one.                                                        *)
(***************************************************************************)
EXTENDS EventService, VenueService, BudgetService

Next == EventNext \/ VenueNext \/ BudgetNext \/ WorkflowNext

Spec == Init /\ [][Next]_vars

\* The part of the system that decides on halls: proposals without a budget.
HallSpec == Init /\ [][EventNext \/ VenueNext \/ WorkflowNext]_vars

\* Reviewers decide on what waits in their queues.
ReviewSpec == Spec /\ \A p \in Proposals : WF_vars(DecideStep(p))

-----------------------------------------------------------------------------
(* Halls *)

\* No two proposals hold the same hall for overlapping times: approve_step's
\* query, which goes by the requested date, and the database's constraint, which
\* goes by the times, together admit no second booking.
NoDoubleBooking ==
    \A p, q \in Proposals :
        (p # q /\ booking[p].active /\ booking[q].active)
            => ~Overlap(booking[p].slot, booking[q].slot)

\* A hall is held only by a proposal under review, sent back, or approved with
\* its event still on: rejection and both cancellations release it.
HallReleased ==
    \A p \in Proposals :
        booking[p].active =>
            \/ request[p].status \in {"IN_REVIEW", "SUBMITTED", "REVISION_REQUIRED"}
            \/ request[p].status = "APPROVED" /\ confirmed[p].status = "SCHEDULED"

\* A scheduled event has the hall it is announced in: the booking behind it is
\* active and for the very slot the event carries.
EventHasItsHall ==
    \A p \in Proposals :
        (confirmed[p].status = "SCHEDULED" /\ confirmed[p].slot # NoSlot) =>
            booking[p] = [slot |-> confirmed[p].slot, active |-> TRUE]

Held == [p \in Proposals |-> IF booking[p].active THEN booking[p].slot ELSE NoSlot]

Calendar == INSTANCE HallCalendar WITH held <- Held

\* The bookings are a hall calendar: a hall is taken when free, kept unchanged,
\* and released before another is taken.
BookingsAreACalendar == Calendar!Spec

-----------------------------------------------------------------------------
(* Review *)

LiveInstances(p) == {i \in 1 .. Len(workflow[p]) : workflow[p][i].status = "IN_PROGRESS"}

\* A proposal has an instance in progress exactly while it is under review or
\* sent back, and then it is the one the request points to: resubmission
\* supersedes, the three endings end it.
OneLiveInstance ==
    \A p \in Proposals :
        LiveInstances(p) =
            IF request[p].instance # 0
               /\ request[p].status \in {"SUBMITTED", "IN_REVIEW", "REVISION_REQUIRED"}
            THEN {request[p].instance} ELSE {}

\* Reviews happen in order: every step before the current one is approved, none
\* after it has been decided, and a live instance of a proposal under review has
\* an undecided current step.
ReviewsInOrder ==
    \A p \in Proposals : \A i \in 1 .. Len(workflow[p]) :
        LET w == workflow[p][i] IN
        /\ \A k \in Steps : k < w.current => w.steps[k] = "APPROVED"
        /\ \A k \in Steps : k > w.current => w.steps[k] \in {"PENDING", "SKIPPED"}
        /\ (i = request[p].instance /\ request[p].status \in {"SUBMITTED", "IN_REVIEW"})
              => w.steps[w.current] = "PENDING"

\* An approved proposal was approved by every reviewer, on its latest snapshot,
\* and its event was created from that snapshot.
ApprovedIsReviewed ==
    \A p \in Proposals :
        request[p].status = "APPROVED" =>
            LET w == workflow[p][request[p].instance] IN
            /\ w.status = "COMPLETED"
            /\ \A k \in Steps : w.steps[k] = "APPROVED"
            /\ w.version = Len(versions[p])
            /\ confirmed[p].status # "NONE"
            /\ confirmed[p].version = w.version

\* What reviewers look at is what was submitted: while the proposal is under
\* review and once it is approved, content, hall and budget are those of the
\* latest snapshot.
ReviewedIsSnapshot ==
    \A p \in Proposals :
        request[p].status \in {"SUBMITTED", "IN_REVIEW", "APPROVED"} =>
            versions[p][Len(versions[p])] = SnapshotOf(p, request[p])

\* A rejected or cancelled proposal, and an approved one, stays as it is.
DecisionsAreFinal ==
    [][\A p \in Proposals :
          request[p].status \in {"APPROVED", "REJECTED", "CANCELLED"} =>
              request'[p] = request[p] /\ versions'[p] = versions[p]]_vars

\* For its club and its reviewers a proposal stands as its status says; those of the
\* reviewers who have approved the last submission have signed it.
Standing(status) ==
    CASE status \in {"SUBMITTED", "IN_REVIEW"} -> "TABLED"
      [] status = "REVISION_REQUIRED"         -> "SENT_BACK"
      [] status = "APPROVED"                  -> "AGREED"
      [] status = "CANCELLED"                 -> "WITHDRAWN"
      [] OTHER                                -> status

Signed(flow) ==
    IF flow = <<>> THEN 0
    ELSE LET w == flow[Len(flow)]
         IN  IF w.status = "COMPLETED" THEN LastStep ELSE w.current - 1

Standings == [p \in Proposals |-> Standing(request[p].status)]
Terms == [p \in Proposals |-> SnapshotOf(p, request[p])]
Signatures == [p \in Proposals |-> Signed(workflow[p])]
Agreements == [p \in Proposals |-> IF confirmed[p].status = "NONE" THEN {}
                                   ELSE {versions[p][confirmed[p].version]}]

Board == INSTANCE ReviewBoard WITH
    Members  <- LastStep,
    standing <- Standings,
    terms    <- Terms,
    tabled   <- versions,
    signed   <- Signatures,
    agreed   <- Agreements

\* The workflow is a board that signs what it was shown: no edit of the proposal, its
\* hall or its budget reaches reviewers who have begun to sign, a resubmission is
\* reviewed from the first step again, and the event is what all of them signed.
ReviewsAreABoard == Board!Spec

\* A submitted proposal does not stay with its reviewers for ever: it is decided,
\* sent back or withdrawn.
ReviewsEnd ==
    \A p \in Proposals :
        request[p].status = "SUBMITTED" ~>
            request[p].status \in {"APPROVED", "REJECTED", "REVISION_REQUIRED", "CANCELLED"}

-----------------------------------------------------------------------------
(* Budget *)

\* The total of a budget is the sum of its lines and the contribution asked for
\* is within the cap, after any sequence of edits.
BudgetAddsUp ==
    \A p \in Proposals :
        /\ budget[p].total = TotalOf(budget[p].items)
        /\ budget[p].contribution <= Cap

-----------------------------------------------------------------------------
(* What the documents say of the system *)

\* "A confirmed hall booking that exists when a VenueRequest is approved": the
\* approved request's own hall and time are booked.
ApprovedVenueIsBooked ==
    \A p \in Proposals :
        (venue[p].status = "APPROVED" /\ request[p].status = "APPROVED"
           /\ confirmed[p].status = "SCHEDULED")
        => booking[p] = [slot |-> venue[p].slot, active |-> TRUE]
===============================================================================
