----------------------------- MODULE ProposalRaces -----------------------------
(***************************************************************************)
(* Proposals with overlapping requests.  submit_proposal, cancel_any_event *)
(* and the venue handlers read the proposal without a lock and decide on   *)
(* the row their session keeps; meanwhile other requests commit.  What the *)
(* session writes are the columns it changes, so the rest of the row is    *)
(* what the others left.  update_draft and the review handlers decide on   *)
(* rows they have locked and remain single steps, and so does a request    *)
(* that nobody interrupts.  Budgets are left out.                          *)
(***************************************************************************)
EXTENDS ProposalWorkflow

CONSTANT Sessions   \* the requests that may be under way at the same time

VARIABLE read   \* the proposal and row a session has read, as a set of at most one

raceVars == <<vars, read>>

RaceInit == Init /\ read = [s \in Sessions |-> {}]

-----------------------------------------------------------------------------
(* Sessions *)

ReadProposal(s, p) ==
    /\ read[s] = {}
    /\ read' = [read EXCEPT ![s] = {[proposal |-> p, row |-> request[p]]}]
    /\ UNCHANGED vars

\* The rest of a handler that has read the row.
Decide(p, row) ==
    \/ SubmitProposal(p, row)
    \/ CancelProposal(p, row)
    \/ \E slot \in Slots : CreateVenueRequest(p, row, slot)
    \/ \E slot \in Slots : UpdateVenueRequest(p, row, slot)
    \/ DeleteVenueRequest(p, row)

Answer(s) ==
    /\ \E r \in read[s] : Decide(r.proposal, r.row)
    /\ read' = [read EXCEPT ![s] = {}]

\* The handler raises, and its transaction is rolled back.
Refuse(s) ==
    /\ read[s] # {}
    /\ read' = [read EXCEPT ![s] = {}]
    /\ UNCHANGED vars

SessionNext ==
    \E s \in Sessions :
        \/ \E p \in Proposals : ReadProposal(s, p)
        \/ Answer(s)
        \/ Refuse(s)

RaceNext ==
    \/ SessionNext
    \/ (EventNext \/ VenueNext \/ WorkflowNext) /\ UNCHANGED read

RaceSpec == RaceInit /\ [][RaceNext]_raceVars

-----------------------------------------------------------------------------
(* What survives *)

\* Submissions that overlap, a double click among them, end as one: snapshots and
\* instances are numbered alike and the proposal carries the last number.
SubmissionsAreNumbered ==
    \A p \in Proposals :
        /\ request[p].version = Len(versions[p])
        /\ request[p].instance = Len(workflow[p])
        /\ \A i \in 1 .. Len(workflow[p]) : workflow[p][i].version = i

\* Whatever overlaps, reviewers are never asked about two instances of a proposal.
AtMostOneLive == \A p \in Proposals : Cardinality(LiveInstances(p)) <= 1

\* An approval, even one of a proposal that a late cancellation has marked
\* CANCELLED in between, is every reviewer's approval of the latest snapshot.
EventIsReviewed ==
    \A p \in Proposals :
        confirmed[p].status # "NONE" =>
            \E i \in 1 .. Len(workflow[p]) :
                /\ workflow[p][i].status = "COMPLETED"
                /\ \A k \in Steps : workflow[p][i].steps[k] = "APPROVED"
                /\ confirmed[p].version = i

===============================================================================
