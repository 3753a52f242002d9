------------------------------ MODULE BoardProofs ------------------------------
(***************************************************************************)
(* The approval of proposals, one request after the other, implements      *)
(* ReviewBoard: for any number of reviewers, proposals and submissions.    *)
(***************************************************************************)
EXTENDS ReviewProofs

-----------------------------------------------------------------------------
(* One proposal on the board *)

\* A step that touches the rows of p changes the board at p only.
LEMMA AtOne ==
  ASSUME SerialInv, FlowInv', NEW p \in Proposals, Beside(p)
  PROVE  /\ Standings' = [Standings EXCEPT ![p] = Standings'[p]]
         /\ Terms' = [Terms EXCEPT ![p] = Terms'[p]]
         /\ versions' = [versions EXCEPT ![p] = versions'[p]]
         /\ Signatures' = [Signatures EXCEPT ![p] = Signatures'[p]]
         /\ Agreements' = [Agreements EXCEPT ![p] = Agreements'[p]]
<1>1. Standings' = [Standings EXCEPT ![p] = Standings'[p]]
  BY DEF Standings, Beside
<1>2. Terms' = [Terms EXCEPT ![p] = Terms'[p]]
  BY DEF Terms, SnapshotOf, Beside
<1>3. versions' = [versions EXCEPT ![p] = versions'[p]]
  BY SerialRows DEF Beside, FlowInv, TypeOK
<1>4. Signatures' = [Signatures EXCEPT ![p] = Signatures'[p]]
  BY DEF Signatures, Beside
<1>5. Agreements' = [Agreements EXCEPT ![p] = Agreements'[p]]
  BY DEF Agreements, Beside
<1> QED
  BY <1>1, <1>2, <1>3, <1>4, <1>5

\* What the board shows of p.
LEMMA OnBoard ==
  ASSUME NEW p \in Proposals
  PROVE  /\ Standings[p] = Standing(request[p].status)
         /\ Terms[p] = SnapshotOf(p, request[p])
         /\ Signatures[p] = Signed(workflow[p])
         /\ Agreements[p] = IF confirmed[p].status = "NONE" THEN {}
                            ELSE {versions[p][confirmed[p].version]}
BY DEF Standings, Terms, Signatures, Agreements

LEMMA OnNextBoard ==
  ASSUME NEW p \in Proposals
  PROVE  /\ Standings'[p] = Standing(request'[p].status)
         /\ Terms'[p] = SnapshotOf(p, request[p])'
         /\ Signatures'[p] = Signed(workflow'[p])
         /\ Agreements'[p] = IF confirmed'[p].status = "NONE" THEN {}
                             ELSE {versions'[p][confirmed'[p].version]}
BY DEF Standings, Terms, Signatures, Agreements

LEMMA OnBoardFunctions ==
  /\ DOMAIN Standings = Proposals /\ DOMAIN Terms = Proposals
  /\ DOMAIN Signatures = Proposals /\ DOMAIN Agreements = Proposals
  /\ Standings = [q \in Proposals |-> Standings[q]]
  /\ Terms = [q \in Proposals |-> Terms[q]]
  /\ Signatures = [q \in Proposals |-> Signatures[q]]
  /\ Agreements = [q \in Proposals |-> Agreements[q]]
BY DEF Standings, Terms, Signatures, Agreements

\* A step that changes nothing the board shows of p is none of the board's.
LEMMA OffBoard ==
  ASSUME SerialInv, FlowInv', NEW p \in Proposals, Beside(p),
         UNCHANGED <<request, versions, workflow>>,
         venue'[p].slot = venue[p].slot, FiguresOf(budget'[p]) = FiguresOf(budget[p]),
         confirmed'[p].version = confirmed[p].version,
         confirmed'[p].status = "NONE" <=> confirmed[p].status = "NONE"
  PROVE  UNCHANGED Board!board
<1>1. /\ Standings'[p] = Standings[p] /\ Signatures'[p] = Signatures[p]
      /\ Agreements'[p] = Agreements[p]
  BY OnBoard, OnNextBoard
<1>2. Terms'[p] = Terms[p]
  BY OnBoard, OnNextBoard DEF SnapshotOf
<1> QED
  BY <1>1, <1>2, AtOne, OnBoardFunctions DEF Board!board

-----------------------------------------------------------------------------
(* The club *)

\* Editing the proposal, its hall or its budget.
LEMMA WriteOnBoard ==
  ASSUME SerialInv, FlowInv', NEW p \in Proposals, Beside(p),
         \/ request[p].status = "NONE" /\ request'[p].status = "DRAFT"
         \/ Editable(request[p]) /\ request'[p].status = request[p].status,
         UNCHANGED <<versions, workflow, confirmed>>
  PROVE  Board!Next
<1>1. UNCHANGED <<Signatures, Agreements>>
  BY DEF Signatures, Agreements
<1>2. /\ Standings[p] \in {"NONE", "DRAFT", "SENT_BACK"}
      /\ Standings'[p] = IF Standings[p] = "NONE" THEN "DRAFT" ELSE Standings[p]
  BY OnBoard, OnNextBoard DEF Editable, Standing
<1>3. Standings' = IF Standings[p] = "NONE" THEN [Standings EXCEPT ![p] = "DRAFT"] ELSE Standings
  BY <1>2, AtOne, OnBoardFunctions
<1>4. Board!Write(p)
  BY <1>1, <1>2, <1>3, AtOne DEF Board!Write, Board!ItsClubs
<1> QED
  BY <1>4 DEF Board!Next

LEMMA SubmitOnBoard ==
  ASSUME SerialInv, FlowInv', NEW p \in Proposals, SubmitProposal(p, request[p])
  PROVE  Board!Next
<1> DEFINE n == Len(versions[p])
<1>1. /\ request[p].version = n /\ n \in Nat /\ RowOK(request[p]) /\ Len(workflow[p]) = n
      /\ Beside(p)
  BY SerialRows, RowsCurrent DEF FlowOK, SerialInv, SubmitProposal, Beside
<1>2. /\ request'[p].status = "SUBMITTED" /\ request'[p].instance = n + 1
      /\ request'[p].version = n + 1
      /\ workflow'[p] = InstantiateWorkflow(p, request[p], n + 1)
      /\ versions'[p] = Append(versions[p], Terms[p])
      /\ UNCHANGED <<venue, booking, budget, confirmed>>
  BY <1>1, SerialRows, OnBoard DEF SubmitProposal, Request
<1>3. workflow'[p][n + 1] = NewInstance(n + 1)
  BY <1>1, <1>2, FlowSubmitted DEF SerialInv
<1>4. Len(workflow'[p]) = n + 1 /\ workflow'[p] # <<>>
  <2>1. workflow'[p] \in Seq(Instance) /\ Len(workflow'[p]) = request'[p].instance
    BY Rows DEF FlowInv, FlowOK, TypeOK
  <2> QED
    BY <1>1, <1>2, <2>1
<1>5. Signed(workflow'[p]) = 0
  BY <1>3, <1>4 DEF Signed, NewInstance
<1>6. /\ Standings[p] \in {"DRAFT", "SENT_BACK"} /\ Standings'[p] = "TABLED"
      /\ Signatures'[p] = 0
  BY <1>2, <1>5, OnBoard, OnNextBoard DEF SubmitProposal, Editable, Standing
<1>7. Terms'[p] = Terms[p]
  <2>1. request'[p].content = request[p].content
    BY <1>1, SerialRows DEF SubmitProposal, Request
  <2> QED
    BY <1>2, <2>1, OnBoard, OnNextBoard DEF SnapshotOf
<1>8. Agreements'[p] = Agreements[p]
  <2>1. confirmed[p].status = "NONE"
    BY SerialRows DEF SubmitProposal, Editable, ReviewOK
  <2> QED
    BY <1>2, <2>1, OnBoard, OnNextBoard
<1>9. Board!Table(p)
  BY <1>1, <1>2, <1>6, <1>7, <1>8, AtOne, OnBoardFunctions DEF Board!Table, Board!ItsClubs
<1> QED
  BY <1>9 DEF Board!Next

LEMMA CancelOnBoard ==
  ASSUME SerialInv, FlowInv', NEW p \in Proposals, CancelProposal(p, request[p])
  PROVE  Board!Next
<1> DEFINE n == Len(versions[p])
<1>1. /\ request[p].instance = n /\ n \in Nat /\ Len(workflow[p]) = n /\ Beside(p)
      /\ workflow[p] \in Seq(Instance)
  BY SerialRows DEF FlowOK, CancelProposal, Beside
<1>2. /\ request'[p].status = "CANCELLED" /\ request'[p].content = request[p].content
      /\ workflow'[p] = WithdrawnWorkflow(p, request[p])
      /\ venue'[p].slot = venue[p].slot
      /\ UNCHANGED <<versions, budget, confirmed>>
  BY SerialRows DEF CancelProposal, Request, Venue
<1>3. Signed(workflow'[p]) = Signed(workflow[p])
  <2>1. CASE n # 0 /\ workflow[p][n].status = "IN_PROGRESS"
    <3> DEFINE w == [workflow[p][n] EXCEPT !.status = "CANCELLED",
                        !.steps = [k \in Steps |-> IF @[k] = "PENDING" THEN "SKIPPED" ELSE @[k]]]
    <3>1. n \in 1 .. Len(workflow[p]) /\ workflow[p][n] \in Instance
      BY <1>1, <2>1
    <3>2. w.status = "CANCELLED" /\ w.current = workflow[p][n].current
      BY <3>1 DEF Instance
    <3>3. WithdrawnWorkflow(p, request[p]) = [workflow[p] EXCEPT ![n] = w]
      BY <1>1, <2>1 DEF WithdrawnWorkflow
    <3> HIDE DEF w
    <3>4. workflow'[p][n] = w /\ Len(workflow'[p]) = n
      BY <1>1, <1>2, <3>1, <3>3, ExceptSeq
    <3>5. workflow[p] # <<>> /\ workflow'[p] # <<>>
      BY <1>1, <2>1, <3>4
    <3> QED
      BY <1>1, <2>1, <3>2, <3>4, <3>5 DEF Signed
  <2>2. CASE ~(n # 0 /\ workflow[p][n].status = "IN_PROGRESS")
    BY <1>1, <1>2, <2>2 DEF WithdrawnWorkflow
  <2> QED
    BY <2>1, <2>2
<1>4. /\ Standings[p] \in {"DRAFT", "SENT_BACK", "TABLED"} /\ Standings'[p] = "WITHDRAWN"
      /\ Signatures'[p] = Signatures[p] /\ Terms'[p] = Terms[p]
      /\ Agreements'[p] = Agreements[p] /\ versions'[p] = versions[p]
  BY <1>2, <1>3, OnBoard, OnNextBoard DEF CancelProposal, Cancellable, Standing, SnapshotOf
<1>5. Board!Withdraw(p)
  BY <1>1, <1>2, <1>4, AtOne, OnBoardFunctions DEF Board!Withdraw, Board!ItsClubs
<1> QED
  BY <1>5 DEF Board!Next

\* A confirmed event that is called off stays what was agreed.
LEMMA CalledOffOffBoard ==
  ASSUME SerialInv, FlowInv', NEW p \in Proposals, CancelConfirmedEvent(p)
  PROVE  UNCHANGED Board!board
<1>1. /\ UNCHANGED <<request, versions, venue, budget, workflow>> /\ Beside(p)
      /\ confirmed[p].status # "NONE"
  BY SerialRows DEF CancelConfirmedEvent, Beside
<1>2. confirmed'[p].status = "CANCELLED" /\ confirmed'[p].version = confirmed[p].version
  BY SerialRows DEF CancelConfirmedEvent, Event
<1> QED
  BY <1>1, <1>2, OffBoard

LEMMA DraftOnBoard ==
  ASSUME SerialInv, FlowInv', NEW p \in Proposals, NEW content \in Contents,
         CreateDraft(p, content) \/ UpdateDraft(p, content)
  PROVE  Board!Next
<1>1. UNCHANGED <<versions, venue, booking, budget, workflow, confirmed>> /\ Beside(p)
  BY SerialRows DEF CreateDraft, UpdateDraft, Beside
<1>2. \/ request[p].status = "NONE" /\ request'[p].status = "DRAFT"
      \/ Editable(request[p]) /\ request'[p].status = request[p].status
  BY SerialRows DEF CreateDraft, UpdateDraft, Request
<1> QED
  BY <1>1, <1>2, WriteOnBoard

LEMMA VenueOnBoard ==
  ASSUME SerialInv, FlowInv', NEW p \in Proposals, VenueStep(p, request[p])
  PROVE  Board!Next
<1>1. ASSUME NEW v, SetVenue(p, v)
      PROVE  Beside(p) /\ UNCHANGED <<request, versions, workflow, confirmed>>
  BY <1>1, SerialRows DEF SetVenue, Beside
<1>2. Editable(request[p])
  BY DEF VenueStep, CreateVenueRequest, UpdateVenueRequest, DeleteVenueRequest
<1>3. Beside(p) /\ UNCHANGED <<request, versions, workflow, confirmed>>
  BY <1>1 DEF VenueStep, CreateVenueRequest, UpdateVenueRequest, DeleteVenueRequest
<1> QED
  BY <1>2, <1>3, WriteOnBoard

\* The club edits its budget; a mark of the Finance Officer is not part of the terms.
LEMMA BudgetOnBoard ==
  ASSUME SerialInv, FlowInv', BudgetNext
  PROVE  [Board!Next]_(Board!board)
<1>1. ASSUME NEW p \in Proposals, NEW b, SetBudget(p, b)
      PROVE  /\ Beside(p) /\ budget'[p] = b
             /\ UNCHANGED <<request, versions, venue, booking, workflow, confirmed>>
  BY <1>1, SerialRows DEF SetBudget, Beside
<1>2. ASSUME NEW p \in Proposals, NEW b, SetBudget(p, b), Editable(request[p])
      PROVE  Board!Next
  BY <1>1, <1>2, WriteOnBoard
<1>3. ASSUME NEW p \in Proposals, NEW mark \in {"VERIFIED", "QUERIED"}, VerifyBudget(p, mark)
      PROVE  UNCHANGED Board!board
  <2> DEFINE b == [budget[p] EXCEPT !.finance = mark]
  <2>1. SetBudget(p, b) /\ budget[p].finance # "NONE"
    BY <1>3 DEF VerifyBudget
  <2>2. /\ b.finance # "NONE" /\ b.income = budget[p].income
        /\ b.contribution = budget[p].contribution /\ b.total = budget[p].total
        /\ b.items = budget[p].items
    BY SerialRows DEF Budget
  <2> HIDE DEF b
  <2>3. FiguresOf(b) = FiguresOf(budget[p])
    BY <2>1, <2>2 DEF FiguresOf
  <2> QED
    BY <1>1, <2>1, <2>3, OffBoard
<1> QED
  BY <1>2, <1>3 DEF BudgetNext, CreateBudgetProposal, UpdateBudgetProposal, DeleteBudgetProposal,
                    AddLineItem, UpdateLineItem, DeleteLineItem, SetItem

-----------------------------------------------------------------------------
(* The reviewers *)

\* A reviewer decides on the last instance, on what was submitted last.
LEMMA DecideOnBoard ==
  ASSUME SerialInv, FlowInv', NEW p \in Proposals, NEW i \in 1 .. Len(workflow[p]), NEW k \in Steps,
         ApproveStep(p, i, k) \/ RejectStep(p, i, k) \/ RequestRevision(p, i, k)
  PROVE  Board!Next
<1> DEFINE w == workflow[p][i]
           n == Len(versions[p])
<1>1. Awaiting(p, i, k)
  BY DEF ApproveStep, RejectStep, RequestRevision
<1>2. /\ i = n /\ n > 0 /\ n \in Nat /\ w \in Instance /\ w.current = k
      /\ w.status = "IN_PROGRESS" /\ n \in 1 .. Len(workflow[p]) /\ Len(workflow[p]) = n
  BY <1>1, AwaitedIsLast, SerialRows DEF Awaiting, SerialInv
<1>3. request[p].status \in {"SUBMITTED", "IN_REVIEW"} /\ confirmed[p].status = "NONE"
  BY <1>1, <1>2, SerialRows DEF ReviewOK, UnderReview, Awaiting
<1>4. k \in Nat /\ LastStep \in Nat /\ w.steps \in [Steps -> StepStatuses]
  BY <1>2, ReviewAssumption DEF Steps, Instance
<1>5. /\ Standings[p] = "TABLED" /\ Signatures[p] = k - 1 /\ Agreements[p] = {}
      /\ versions[p][n] = Terms[p]
  <2>1. workflow[p] # <<>>
    BY <1>2
  <2>2. versions[p][n] = SnapshotOf(p, request[p])
    BY <1>3, SerialRows DEF SnapOK, SnapshotOf
  <2> QED
    BY <1>2, <1>3, <2>1, <2>2, OnBoard DEF Standing, Signed
\* The instance becomes v, and the rows of the others stay.
<1>6. ASSUME NEW v, workflow' = [workflow EXCEPT ![p] = [workflow[p] EXCEPT ![n] = v]]
      PROVE  /\ Signatures'[p] = IF v.status = "COMPLETED" THEN LastStep ELSE v.current - 1
             /\ \A q \in Proposals : q # p => workflow'[q] = workflow[q]
  <2>1. [workflow[p] EXCEPT ![n] = v][n] = v /\ Len([workflow[p] EXCEPT ![n] = v]) = n
    BY <1>2, SerialRows, ExceptSeq
  <2>2. /\ workflow'[p][n] = v /\ Len(workflow'[p]) = n
        /\ \A q \in Proposals : q # p => workflow'[q] = workflow[q]
    BY <1>6, <2>1, SerialRows
  <2>3. workflow'[p] # <<>>
    BY <1>2, <2>2
  <2> QED
    BY <2>2, <2>3, OnNextBoard DEF Signed
<1>7. CASE ApproveStep(p, i, k)
  <2>1. /\ UNCHANGED versions
        /\ venue'[p].slot = venue[p].slot /\ FiguresOf(budget'[p]) = FiguresOf(budget[p])
        /\ \A q \in Proposals : q # p => /\ venue'[q] = venue[q] /\ booking'[q] = booking[q]
                                         /\ budget'[q] = budget[q]
    BY <1>7, ApprovedRows DEF ApproveStep
  <2>2. ASSUME request'[p].content = request[p].content
        PROVE  Terms'[p] = Terms[p]
    BY <2>1, <2>2, OnBoard, OnNextBoard DEF SnapshotOf
  <2>3. CASE Advance(p, i, k)
    <3> DEFINE v == [w EXCEPT !.steps[k] = "APPROVED", !.current = k + 1]
    <3>1. v.status = "IN_PROGRESS" /\ v.current = k + 1
      BY <1>2, <1>4 DEF Instance
    <3>2. workflow' = [workflow EXCEPT ![p] = [workflow[p] EXCEPT ![n] = v]]
      BY <1>2, <2>3 DEF Advance
    <3> HIDE DEF v
    <3>3. /\ Signatures'[p] = k
          /\ \A q \in Proposals : q # p => workflow'[q] = workflow[q]
      <4>1. /\ Signatures'[p] = v.current - 1
            /\ \A q \in Proposals : q # p => workflow'[q] = workflow[q]
        BY <1>6, <3>1, <3>2
      <4> QED
        BY <1>4, <3>1, <4>1
    <3>4. /\ request'[p].status = "IN_REVIEW" /\ request'[p].content = request[p].content
          /\ \A q \in Proposals : q # p => request'[q] = request[q]
          /\ UNCHANGED confirmed /\ k < LastStep
      BY <1>3, <2>3, SerialRows DEF Advance, Request
    <3>5. /\ Standings'[p] = Standings[p] /\ Agreements'[p] = Agreements[p]
      BY <1>3, <1>5, <2>1, <3>4, OnBoard, OnNextBoard DEF Standing
    <3>6. Beside(p)
      BY <2>1, <3>3, <3>4 DEF Beside
    <3>7. UNCHANGED <<Standings, Terms, versions, Agreements>>
      BY <2>1, <2>2, <3>4, <3>5, <3>6, AtOne, OnBoardFunctions
    <3>8. Signatures[p] + 1 = k /\ Signatures' = [Signatures EXCEPT ![p] = @ + 1]
      BY <1>4, <1>5, <3>3, <3>6, AtOne
    <3>9. Board!Sign(p)
      BY <1>5, <3>4, <3>7, <3>8 DEF Board!Sign
    <3> QED
      BY <3>9 DEF Board!Next
  <2>4. CASE Complete(p, i, k)
    <3> DEFINE v == [w EXCEPT !.steps[k] = "APPROVED", !.status = "COMPLETED"]
    <3>1. v.status = "COMPLETED"
      BY <1>2 DEF Instance
    <3>2. workflow' = [workflow EXCEPT ![p] = [workflow[p] EXCEPT ![n] = v]]
      BY <1>2, <2>4 DEF Complete
    <3> HIDE DEF v
    <3>3. /\ Signatures'[p] = k /\ k = LastStep
          /\ \A q \in Proposals : q # p => workflow'[q] = workflow[q]
      BY <1>6, <2>4, <3>1, <3>2 DEF Complete
    <3>4. /\ request'[p].status = "APPROVED" /\ request'[p].content = request[p].content
          /\ \A q \in Proposals : q # p => request'[q] = request[q] /\ confirmed'[q] = confirmed[q]
          /\ confirmed'[p].status = "SCHEDULED" /\ confirmed'[p].version = n
      BY <1>3, <2>4, SerialRows DEF Complete, ConfirmedEvent, Request
    <3>5. Standings'[p] = "AGREED" /\ Agreements'[p] = {Terms[p]}
      BY <1>5, <2>1, <3>4, OnNextBoard DEF Standing
    <3>6. Beside(p)
      BY <2>1, <3>3, <3>4 DEF Beside
    <3>7. /\ Standings' = [Standings EXCEPT ![p] = "AGREED"]
          /\ Agreements' = [Agreements EXCEPT ![p] = {Terms[p]}]
          /\ UNCHANGED <<Terms, versions>>
      BY <2>1, <2>2, <3>4, <3>5, <3>6, AtOne, OnBoardFunctions
    <3>8. Signatures[p] + 1 = k /\ Signatures' = [Signatures EXCEPT ![p] = @ + 1]
      BY <1>4, <1>5, <3>3, <3>6, AtOne
    <3>9. Board!Sign(p)
      BY <1>4, <1>5, <3>3, <3>7, <3>8 DEF Board!Sign
    <3> QED
      BY <3>9 DEF Board!Next
  <2> QED
    BY <1>7, <2>3, <2>4 DEF ApproveStep
<1>8. CASE RejectStep(p, i, k) \/ RequestRevision(p, i, k)
  <2>1. \E v : /\ workflow' = [workflow EXCEPT ![p] = [workflow[p] EXCEPT ![n] = v]]
               /\ v.status # "COMPLETED" /\ v.current = k
    <3>1. CASE RejectStep(p, i, k)
      <4> DEFINE v == [w EXCEPT !.steps[k] = "REJECTED", !.status = "REJECTED"]
      <4>1. v.status # "COMPLETED" /\ v.current = k
        BY <1>2 DEF Instance
      <4>2. workflow' = [workflow EXCEPT ![p] = [workflow[p] EXCEPT ![n] = v]]
        BY <1>2, <3>1 DEF RejectStep
      <4> QED
        BY <4>1, <4>2
    <3>2. CASE RequestRevision(p, i, k)
      <4> DEFINE v == [w EXCEPT !.steps[k] = "REVISION_REQUESTED"]
      <4>1. v.status # "COMPLETED" /\ v.current = k
        BY <1>2 DEF Instance
      <4>2. workflow' = [workflow EXCEPT ![p] = [workflow[p] EXCEPT ![n] = v]]
        BY <1>2, <3>2 DEF RequestRevision
      <4> QED
        BY <4>1, <4>2
    <3> QED
      BY <1>8, <3>1, <3>2
  <2>2. /\ Signatures'[p] = Signatures[p]
        /\ \A q \in Proposals : q # p => workflow'[q] = workflow[q]
    BY <1>5, <1>6, <2>1
  <2>3. /\ request'[p].status \in {"REJECTED", "REVISION_REQUIRED"}
        /\ request'[p].content = request[p].content /\ venue'[p].slot = venue[p].slot
        /\ UNCHANGED <<versions, budget, confirmed>>
        /\ \A q \in Proposals : q # p => /\ request'[q] = request[q] /\ venue'[q] = venue[q]
                                         /\ booking'[q] = booking[q]
    BY <1>8, SerialRows DEF RejectStep, RequestRevision, Request, Venue
  <2>4. /\ Standings'[p] \in {"SENT_BACK", "REJECTED"} /\ Terms'[p] = Terms[p]
        /\ Agreements'[p] = Agreements[p]
    <3>1. Standings'[p] \in {"SENT_BACK", "REJECTED"}
      BY <2>3, OnNextBoard DEF Standing
    <3>2. Terms'[p] = Terms[p]
      <4>1. FiguresOf(budget'[p]) = FiguresOf(budget[p])
        BY <2>3
      <4> QED
        BY <2>3, <4>1, OnBoard, OnNextBoard DEF SnapshotOf
    <3>3. Agreements'[p] = Agreements[p]
      BY <2>3, OnBoard, OnNextBoard
    <3> QED
      BY <3>1, <3>2, <3>3
  <2>5. Beside(p)
    BY <2>2, <2>3 DEF Beside
  <2>6. /\ Standings' = [Standings EXCEPT ![p] = Standings'[p]]
        /\ UNCHANGED <<Terms, versions, Signatures, Agreements>>
    BY <2>2, <2>3, <2>4, <2>5, AtOne, OnBoardFunctions
  <2>7. Board!Answer(p)
    BY <1>5, <2>4, <2>6 DEF Board!Answer
  <2> QED
    BY <2>7 DEF Board!Next
<1> QED
  BY <1>7, <1>8

-----------------------------------------------------------------------------
(* The refinement *)

LEMMA StepOnBoard == SerialInv /\ [Next]_vars => [Board!Next]_(Board!board)
<1> SUFFICES ASSUME SerialInv, [Next]_vars PROVE [Board!Next]_(Board!board)
  OBVIOUS
<1>1. FlowInv'
  BY FlowStep DEF SerialInv
<1>2. CASE UNCHANGED vars
  BY <1>2 DEF vars, Board!board, Standings, Terms, Signatures, Agreements, SnapshotOf
<1>3. CASE EventNext
  BY <1>1, <1>3, DraftOnBoard, SubmitOnBoard, CancelOnBoard, CalledOffOffBoard DEF EventNext
<1>4. CASE VenueNext
  BY <1>1, <1>4, VenueOnBoard DEF VenueNext, VenueStep
<1>5. CASE BudgetNext
  BY <1>1, <1>5, BudgetOnBoard
<1>6. CASE WorkflowNext
  BY <1>1, <1>6, DecideOnBoard DEF WorkflowNext, DecideStep
<1> QED
  BY <1>2, <1>3, <1>4, <1>5, <1>6 DEF Next

LEMMA InitOnBoard == Init => Board!Init
<1> SUFFICES ASSUME Init PROVE Board!Init
  OBVIOUS
<1>1. ASSUME NEW p \in Proposals
      PROVE  /\ Standing(request[p].status) = "NONE" /\ Signed(workflow[p]) = 0
             /\ confirmed[p].status = "NONE"
  BY <1>1 DEF Init, Standing, Signed, NoEvent
<1> QED
  BY <1>1 DEF Init, Board!Init, Standings, Signatures, Agreements

\* A proposal is decided by its reviewers on what was laid before them: every request
\* handled alone (submit_event_request, update_draft, the hall's and the budget's edits,
\* approve_step, reject_step, request_revision, cancel_proposal) is a step of the board
\* or none of its business.
THEOREM ReviewsRefineBoard == Spec => ReviewsAreABoard
<1>1. Init => Board!Init
  BY InitOnBoard
<1>2. SerialInv /\ [Next]_vars => [Board!Next]_(Board!board)
  BY StepOnBoard
<1> QED
  BY <1>1, <1>2, SerialInvariant, PTL DEF Spec, ReviewsAreABoard, Board!Spec
===============================================================================
