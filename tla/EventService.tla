----------------------------- MODULE EventService -----------------------------
(***************************************************************************)
(* The life of the proposal itself: drafted, edited, submitted, cancelled. *)
(***************************************************************************)
EXTENDS WorkflowService

CreateDraft(p, content) ==
    /\ request[p].status = "NONE"
    /\ request' = [request EXCEPT ![p] = [status |-> "DRAFT", content |-> content,
                                          version |-> 0, instance |-> 0]]
    /\ UNCHANGED <<versions, venue, booking, budget, workflow, confirmed>>

\* Decides on the row it has locked.
UpdateDraft(p, content) ==
    /\ Editable(request[p])
    /\ request' = [request EXCEPT ![p].content = content]
    /\ UNCHANGED <<versions, venue, booking, budget, workflow, confirmed>>

-----------------------------------------------------------------------------
(* Submission *)

SnapshotOf(p, row) ==
    [content |-> row.content, slot |-> venue[p].slot, budget |-> FiguresOf(budget[p])]

\* Slip: snapshots are not unique by number.
VersionFreeAlways(p, row) == TRUE

\* uq_event_request_versions_request_version: a second snapshot of one number
\* fails, and with it the submission.
VersionFree(p, row) == row.version = Len(versions[p])

\* The row read is not locked.
SubmitProposal(p, row) ==
    /\ Editable(row)
    /\ VersionFree(p, row)
    /\ row.version < MaxVersions
    /\ versions' = [versions EXCEPT ![p] = Append(@, SnapshotOf(p, row))]
    /\ workflow' = [workflow EXCEPT ![p] = InstantiateWorkflow(p, row, row.version + 1)]
    /\ request' = [request EXCEPT ![p].status = "SUBMITTED",
                                  ![p].version = row.version + 1,
                                  ![p].instance = Len(workflow[p]) + 1]
    /\ UNCHANGED <<venue, booking, budget, confirmed>>

-----------------------------------------------------------------------------
(* Cancellation *)

\* Slip: an approved proposal can still be withdrawn.
CancellableApproved == {"DRAFT", "SUBMITTED", "IN_REVIEW", "REVISION_REQUIRED", "APPROVED"}

Cancellable == {"DRAFT", "SUBMITTED", "IN_REVIEW", "REVISION_REQUIRED"}

\* The workflow instances of p once the one its request points to is cancelled.
WithdrawnWorkflow(p, row) ==
    LET i == row.instance
    IN  IF i # 0 /\ workflow[p][i].status = "IN_PROGRESS"
        THEN [workflow[p] EXCEPT ![i].status = "CANCELLED",
                 ![i].steps = [k \in Steps |-> IF @[k] = "PENDING" THEN "SKIPPED" ELSE @[k]]]
        ELSE workflow[p]

\* cancel_any_event has read the row before cancel_proposal locks it, and the
\* session goes on with it as it was read.
CancelProposal(p, row) ==
    /\ row.status \in Cancellable
    /\ workflow' = [workflow EXCEPT ![p] = WithdrawnWorkflow(p, row)]
    /\ booking' = [booking EXCEPT ![p].active = FALSE]
    /\ venue' = IF venue[p].status = "APPROVED"
                THEN [venue EXCEPT ![p].status = "REJECTED"] ELSE venue
    /\ request' = [request EXCEPT ![p].status = "CANCELLED"]
    /\ UNCHANGED <<versions, budget, confirmed>>

CancelConfirmedEvent(p) ==
    /\ confirmed[p].status = "SCHEDULED"
    /\ booking' = [booking EXCEPT ![p].active = FALSE]
    /\ confirmed' = [confirmed EXCEPT ![p].status = "CANCELLED"]
    /\ UNCHANGED <<request, versions, venue, budget, workflow>>

EventNext ==
    \E p \in Proposals :
        \/ \E content \in Contents : CreateDraft(p, content)
        \/ \E content \in Contents : UpdateDraft(p, content)
        \/ SubmitProposal(p, request[p])
        \/ CancelProposal(p, request[p])
        \/ CancelConfirmedEvent(p)
===============================================================================
