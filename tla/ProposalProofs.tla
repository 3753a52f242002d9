---------------------------- MODULE ProposalProofs ----------------------------
(***************************************************************************)
(* Theorems about ProposalWorkflow and ProposalRaces, for every set of     *)
(* proposals, halls, slots, line items and sessions, and any number of     *)
(* review steps.                                                           *)
(***************************************************************************)
EXTENDS ProposalRaces, FiniteSetTheorems, SequenceTheorems, TLAPS

-----------------------------------------------------------------------------
(* Type correctness *)

\* The sum of a budget's lines is a natural number.
LEMMA TotalNat == ASSUME NEW items PROVE TotalOf(items) \in Nat
<1> DEFINE Units == {u \in Items \X Amounts : u[2] <= items[u[1]]}
<1>1. IsFiniteSet(Amounts)
  BY FS_Interval, BudgetAssumption DEF Amounts
<1>2. IsFiniteSet(Items \X Amounts)
  BY <1>1, BudgetAssumption, FS_Product
<1>3. IsFiniteSet(Units)
  BY <1>2, FS_Subset
<1> QED
  BY <1>3, FS_CardinalityType DEF TotalOf

\* A workflow history stays one when one of its instances is rewritten.
LEMMA RewrittenInstance ==
  ASSUME NEW s \in Seq(Instance), NEW i, NEW w, i \in 1 .. Len(s) => w \in Instance
  PROVE  [s EXCEPT ![i] = w] \in Seq(Instance)
<1>1. CASE i \in 1 .. Len(s)
  BY <1>1, ExceptSeq
<1>2. CASE i \notin 1 .. Len(s)
  <2>1. [s EXCEPT ![i] = w] = s
    BY <1>2
  <2> QED
    BY <2>1
<1> QED
  BY <1>1, <1>2

\* The same for the histories of all proposals.
LEMMA RewrittenHistory ==
  ASSUME NEW p \in Proposals, NEW s \in Seq(Instance),
         workflow \in [Proposals -> Seq(Instance)]
  PROVE  [workflow EXCEPT ![p] = s] \in [Proposals -> Seq(Instance)]
OBVIOUS

LEMMA InitType == Init => TypeOK
<1> SUFFICES ASSUME Init PROVE TypeOK
  OBVIOUS
<1>1. request \in [Proposals -> Request]
  BY DEF Init, Request, RequestStatuses
<1>2. /\ venue \in [Proposals -> Venue]
      /\ booking \in [Proposals -> Booking]
      /\ confirmed \in [Proposals -> Event]
  BY DEF Init, NoVenue, Venue, VenueStatuses, SomeSlot, NoBooking, Booking, NoEvent, Event
<1>3. budget \in [Proposals -> Budget]
  BY DEF Init, NoBudget, NoItems, Budget, FinanceStatuses
<1>4. versions \in [Proposals -> Seq(Snapshot)] /\ workflow \in [Proposals -> Seq(Instance)]
  BY DEF Init
<1> QED
  BY <1>1, <1>2, <1>3, <1>4 DEF TypeOK

\* A handler of the hall requests, on whatever row it has read.
VenueStep(p, row) ==
    \/ \E slot \in Slots : CreateVenueRequest(p, row, slot)
    \/ \E slot \in Slots : UpdateVenueRequest(p, row, slot)
    \/ DeleteVenueRequest(p, row)

LEMMA VenueType ==
  ASSUME TypeOK, NEW p \in Proposals, NEW row, VenueStep(p, row)
  PROVE  TypeOK'
<1>1. ASSUME NEW v \in Venue, SetVenue(p, v) PROVE TypeOK'
  BY <1>1 DEF SetVenue, TypeOK
<1>2. venue[p] \in Venue
  BY DEF TypeOK
<1>3. \A slot \in Slots :
         /\ [status |-> "PENDING", slot |-> slot] \in Venue
         /\ [venue[p] EXCEPT !.slot = slot] \in Venue
  BY <1>2 DEF Venue, VenueStatuses, SomeSlot
<1>4. NoVenue \in Venue
  BY DEF NoVenue, Venue, VenueStatuses, SomeSlot
<1> QED
  BY <1>1, <1>3, <1>4 DEF VenueStep, CreateVenueRequest, UpdateVenueRequest, DeleteVenueRequest

LEMMA BudgetType == TypeOK /\ BudgetNext => TypeOK'
<1> SUFFICES ASSUME TypeOK, BudgetNext PROVE TypeOK'
  OBVIOUS
<1>1. ASSUME NEW p \in Proposals, NEW b \in Budget, SetBudget(p, b) PROVE TypeOK'
  BY <1>1 DEF SetBudget, TypeOK
<1>2. \A p \in Proposals : budget[p] \in Budget
  BY DEF TypeOK
<1>3. 0 .. MaxAmount \subseteq Nat /\ Amounts \subseteq Nat
  BY BudgetAssumption DEF Amounts
<1>4. ASSUME NEW p \in Proposals, NEW income \in 0 .. MaxAmount,
             NEW contribution \in 0 .. MaxAmount, NEW items \in [Items -> 0 .. MaxAmount],
             CreateBudgetProposal(p, request[p], income, contribution, items)
      PROVE  TypeOK'
  <2>1. items \in [Items -> Nat]
    BY <1>3
  <2>2. [finance |-> "PENDING", income |-> income, contribution |-> contribution,
         total |-> TotalOf(items), items |-> items] \in Budget
    BY <1>3, <2>1, TotalNat DEF Budget, FinanceStatuses
  <2> QED
    BY <1>1, <1>4, <2>2 DEF CreateBudgetProposal
<1>5. ASSUME NEW p \in Proposals, NEW income \in 0 .. MaxAmount,
             NEW contribution \in 0 .. MaxAmount,
             UpdateBudgetProposal(p, request[p], income, contribution)
      PROVE  TypeOK'
  <2>1. [budget[p] EXCEPT !.income = income, !.contribution = contribution] \in Budget
    BY <1>2, <1>3 DEF Budget
  <2> QED
    BY <1>1, <1>5, <2>1 DEF UpdateBudgetProposal
<1>6. ASSUME NEW p \in Proposals, DeleteBudgetProposal(p, request[p]) PROVE TypeOK'
  <2>1. NoBudget \in Budget
    BY DEF NoBudget, NoItems, Budget, FinanceStatuses
  <2> QED
    BY <1>1, <1>6, <2>1 DEF DeleteBudgetProposal
<1>7. ASSUME NEW p \in Proposals, NEW x \in Items, NEW amount \in Nat, SetItem(p, x, amount)
      PROVE  TypeOK'
  <2> DEFINE items == [budget[p].items EXCEPT ![x] = amount]
             b == [budget[p] EXCEPT !.items = items, !.total = TotalOf(items)]
  <2>1. items \in [Items -> Nat]
    BY <1>2 DEF Budget
  <2>2. TotalOf(items) \in Nat
    BY TotalNat
  <2>3. b \in Budget
    BY <1>2, <2>1, <2>2 DEF Budget
  <2>4. SetBudget(p, b)
    BY <1>7 DEF SetItem
  <2> QED
    BY <1>1, <2>3, <2>4
<1>8. ASSUME NEW p \in Proposals, NEW mark \in {"VERIFIED", "QUERIED"}, VerifyBudget(p, mark)
      PROVE  TypeOK'
  <2>1. [budget[p] EXCEPT !.finance = mark] \in Budget
    BY <1>2 DEF Budget, FinanceStatuses
  <2> QED
    BY <1>1, <1>8, <2>1 DEF VerifyBudget
<1> QED
  BY <1>3, <1>4, <1>5, <1>6, <1>7, <1>8
     DEF BudgetNext, AddLineItem, UpdateLineItem, DeleteLineItem

\* Deciding a step leaves an instance an instance.
LEMMA DecidedInstance ==
  ASSUME NEW w \in Instance, NEW k \in Steps, NEW decision \in StepStatuses,
         NEW status \in InstanceStatuses
  PROVE  /\ [w EXCEPT !.steps[k] = decision] \in Instance
         /\ [w EXCEPT !.steps[k] = decision, !.status = status] \in Instance
         /\ k < LastStep => [w EXCEPT !.steps[k] = decision, !.current = k + 1] \in Instance
<1>1. [w.steps EXCEPT ![k] = decision] \in [Steps -> StepStatuses]
  BY DEF Instance
<1>2. k < LastStep => k + 1 \in Steps
  BY ReviewAssumption DEF Steps
<1> QED
  BY <1>1, <1>2 DEF Instance

LEMMA WorkflowType == TypeOK /\ WorkflowNext => TypeOK'
<1> SUFFICES ASSUME TypeOK, NEW p \in Proposals, NEW i \in 1 .. Len(workflow[p]), NEW k \in Steps,
                    ApproveStep(p, i, k) \/ RejectStep(p, i, k) \/ RequestRevision(p, i, k)
             PROVE  TypeOK'
  BY DEF WorkflowNext, DecideStep
<1>1. /\ workflow \in [Proposals -> Seq(Instance)]
      /\ workflow[p] \in Seq(Instance)
      /\ workflow[p][i] \in Instance
  BY DEF TypeOK
<1>2. /\ \A q \in Proposals : request[q] \in Request /\ venue[q] \in Venue
      /\ \A q \in Proposals : booking[q] \in Booking /\ budget[q] \in Budget
      /\ \A q \in Proposals : confirmed[q] \in Event /\ Len(versions[q]) \in Nat
  BY DEF TypeOK
<1>3. \A w \in Instance :
         [workflow EXCEPT ![p][i] = w] \in [Proposals -> Seq(Instance)]
  BY <1>1, RewrittenInstance, RewrittenHistory
<1>4. \A status \in RequestStatuses :
         [request EXCEPT ![p].status = status] \in [Proposals -> Request]
  BY <1>2 DEF TypeOK, Request
<1>5. \A status \in VenueStatuses :
         [venue EXCEPT ![p].status = status] \in [Proposals -> Venue]
  BY <1>2 DEF TypeOK, Venue
<1>6. [booking EXCEPT ![p].active = FALSE] \in [Proposals -> Booking]
  BY <1>2 DEF TypeOK, Booking
<1>7. CASE ApproveStep(p, i, k)
  <2>1. venue' \in [Proposals -> Venue] /\ booking' \in [Proposals -> Booking]
    <3>1. BookedSlot(p) \in SomeSlot
      BY <1>2 DEF BookedSlot, Venue, Booking
    <3>2. [slot |-> BookedSlot(p), active |-> TRUE] \in Booking
      BY <3>1 DEF Booking
    <3>3. CASE ConfirmHall(p)
      BY <1>5, <3>2, <3>3 DEF ConfirmHall, TypeOK, VenueStatuses
    <3>4. CASE UNCHANGED <<venue, booking>>
      BY <3>4 DEF TypeOK
    <3> QED
      BY <1>7, <3>3, <3>4 DEF ApproveStep
  <2>2. budget' \in [Proposals -> Budget]
    <3>1. [budget[p] EXCEPT !.finance = "VERIFIED"] \in Budget
      BY <1>2 DEF Budget, FinanceStatuses
    <3> QED
      BY <1>7, <3>1 DEF ApproveStep, VerifyBudgetOf, TypeOK
  <2>3. ConfirmedEvent(p) \in Event
    BY <1>2 DEF ConfirmedEvent, Event, Booking, Venue
  <2>4. CASE Advance(p, i, k)
    <3>1. workflow' \in [Proposals -> Seq(Instance)]
      <4>1. [workflow[p][i] EXCEPT !.steps[k] = "APPROVED", !.current = k + 1] \in Instance
        BY <1>1, <2>4, DecidedInstance DEF Advance, StepStatuses, InstanceStatuses
      <4> QED
        BY <1>1, <1>3, <2>4, <4>1 DEF Advance
    <3>2. request' \in [Proposals -> Request]
      BY <1>4, <2>4 DEF Advance, RequestStatuses, TypeOK
    <3> QED
      BY <1>7, <2>1, <2>2, <2>4, <3>1, <3>2 DEF ApproveStep, Advance, TypeOK
  <2>5. CASE Complete(p, i, k)
    <3>1. workflow' \in [Proposals -> Seq(Instance)]
      <4>1. [workflow[p][i] EXCEPT !.steps[k] = "APPROVED", !.status = "COMPLETED"] \in Instance
        BY <1>1, DecidedInstance DEF StepStatuses, InstanceStatuses
      <4> QED
        BY <1>1, <1>3, <2>5, <4>1 DEF Complete
    <3>2. request' \in [Proposals -> Request]
      BY <1>4, <2>5 DEF Complete, RequestStatuses
    <3>3. confirmed' \in [Proposals -> Event]
      BY <2>3, <2>5 DEF Complete, TypeOK
    <3> QED
      BY <1>7, <2>1, <2>2, <3>1, <3>2, <3>3 DEF ApproveStep, TypeOK
  <2> QED
    BY <1>7, <2>4, <2>5 DEF ApproveStep
<1>8. CASE RejectStep(p, i, k)
  <2>1. [workflow[p][i] EXCEPT !.steps[k] = "REJECTED", !.status = "REJECTED"] \in Instance
    BY <1>1, DecidedInstance DEF StepStatuses, InstanceStatuses
  <2>2. workflow' \in [Proposals -> Seq(Instance)]
    BY <1>1, <1>3, <1>8, <2>1 DEF RejectStep
  <2>3. request' \in [Proposals -> Request]
    BY <1>4, <1>8 DEF RejectStep, RequestStatuses
  <2>4. venue' \in [Proposals -> Venue] /\ booking' \in [Proposals -> Booking]
    BY <1>5, <1>6, <1>8 DEF RejectStep, VenueStatuses, TypeOK
  <2> QED
    BY <1>8, <2>2, <2>3, <2>4 DEF RejectStep, TypeOK
<1>9. CASE RequestRevision(p, i, k)
  <2>1. [workflow[p][i] EXCEPT !.steps[k] = "REVISION_REQUESTED"] \in Instance
    BY <1>1, DecidedInstance DEF StepStatuses, InstanceStatuses
  <2>2. workflow' \in [Proposals -> Seq(Instance)]
    BY <1>1, <1>3, <1>9, <2>1 DEF RequestRevision
  <2>3. request' \in [Proposals -> Request]
    BY <1>4, <1>9 DEF RequestRevision, RequestStatuses
  <2> QED
    BY <1>9, <2>2, <2>3 DEF RequestRevision, TypeOK
<1> QED
  BY <1>7, <1>8, <1>9

LEMMA Rows ==
  ASSUME TypeOK, NEW p \in Proposals
  PROVE  /\ workflow[p] \in Seq(Instance)
         /\ \A i \in 1 .. Len(workflow[p]) : workflow[p][i] \in Instance
         /\ request[p] \in Request /\ booking[p] \in Booking /\ venue[p] \in Venue
         /\ confirmed[p] \in Event /\ budget[p] \in Budget /\ versions[p] \in Seq(Snapshot)
BY DEF TypeOK

\* A submission, on whatever row it has read.
LEMMA SubmitType ==
  ASSUME TypeOK, NEW p \in Proposals, NEW row \in Request, SubmitProposal(p, row)
  PROVE  TypeOK'
<1>1. SnapshotOf(p, row) \in Snapshot
  BY Rows DEF SnapshotOf, Snapshot, FiguresOf, Figures, Request, Venue, Budget
<1>2. versions' \in [Proposals -> Seq(Snapshot)]
  BY Rows, <1>1 DEF SubmitProposal, TypeOK
<1>3. InstantiateWorkflow(p, row, row.version + 1) \in Seq(Instance)
  <2>1. NewInstance(row.version + 1) \in Instance
    BY ReviewAssumption DEF NewInstance, Instance, InstanceStatuses, StepStatuses,
                            Steps, Request
  <2>2. Superseded(p, row) \in Seq(Instance)
    <3> DEFINE i == row.instance
    <3>1. i \in 1 .. Len(workflow[p]) =>
            [workflow[p][i] EXCEPT !.status = "SUPERSEDED"] \in Instance
      BY Rows DEF Instance, InstanceStatuses
    <3>2. [workflow[p] EXCEPT ![i] = [workflow[p][i] EXCEPT !.status = "SUPERSEDED"]]
             \in Seq(Instance)
      BY Rows, <3>1, RewrittenInstance
    <3> QED
      BY Rows, <3>2 DEF Superseded
  <2> QED
    BY <2>1, <2>2 DEF InstantiateWorkflow
<1>4. workflow' \in [Proposals -> Seq(Instance)]
  BY <1>3 DEF SubmitProposal, TypeOK
<1>5. [request[p] EXCEPT !.status = "SUBMITTED", !.version = row.version + 1,
                         !.instance = Len(workflow[p]) + 1] \in Request
  <2>1. row.version + 1 \in Nat /\ Len(workflow[p]) + 1 \in Nat
    BY Rows DEF Request
  <2> QED
    BY Rows, <2>1 DEF Request, RequestStatuses
<1>6. request' \in [Proposals -> Request]
  BY <1>5 DEF SubmitProposal, TypeOK
<1> QED
  BY <1>2, <1>4, <1>6 DEF SubmitProposal, TypeOK

LEMMA ReleaseType ==
  ASSUME TypeOK, NEW p \in Proposals
  PROVE  [booking EXCEPT ![p].active = FALSE] \in [Proposals -> Booking]
BY Rows DEF TypeOK, Booking

\* A cancellation, on whatever row it has read.
LEMMA CancelType ==
  ASSUME TypeOK, NEW p \in Proposals, NEW row \in Request, CancelProposal(p, row)
  PROVE  TypeOK'
<1>1. WithdrawnWorkflow(p, row) \in Seq(Instance)
  <2> DEFINE i == row.instance
             w == [workflow[p][i] EXCEPT !.status = "CANCELLED",
                      !.steps = [k \in Steps |-> IF @[k] = "PENDING" THEN "SKIPPED" ELSE @[k]]]
  <2>1. ASSUME i \in 1 .. Len(workflow[p]) PROVE w \in Instance
    <3>1. workflow[p][i] \in Instance
      BY Rows, <2>1
    <3> QED
      BY <3>1 DEF Instance, InstanceStatuses, StepStatuses
  <2>2. [workflow[p] EXCEPT ![i] = w] \in Seq(Instance)
    BY Rows, <2>1, RewrittenInstance
  <2> QED
    BY Rows, <2>2 DEF WithdrawnWorkflow
<1>2. workflow' \in [Proposals -> Seq(Instance)]
  BY <1>1 DEF CancelProposal, TypeOK
<1>3. [request[p] EXCEPT !.status = "CANCELLED"] \in Request
  BY Rows DEF Request, RequestStatuses
<1>4. [venue[p] EXCEPT !.status = "REJECTED"] \in Venue
  BY Rows DEF Venue, VenueStatuses
<1> QED
  BY ReleaseType, <1>2, <1>3, <1>4 DEF CancelProposal, TypeOK

LEMMA EventType == TypeOK /\ EventNext => TypeOK'
<1> SUFFICES ASSUME TypeOK, NEW p \in Proposals,
                    \/ \E content \in Contents : CreateDraft(p, content)
                    \/ \E content \in Contents : UpdateDraft(p, content)
                    \/ SubmitProposal(p, request[p])
                    \/ CancelProposal(p, request[p])
                    \/ CancelConfirmedEvent(p)
             PROVE  TypeOK'
  BY DEF EventNext
<1>1. ASSUME NEW content \in Contents, CreateDraft(p, content) PROVE TypeOK'
  <2>1. [status |-> "DRAFT", content |-> content, version |-> 0, instance |-> 0] \in Request
    BY DEF Request, RequestStatuses
  <2> QED
    BY <1>1, <2>1 DEF CreateDraft, TypeOK
<1>2. ASSUME NEW content \in Contents, UpdateDraft(p, content) PROVE TypeOK'
  <2>1. [request[p] EXCEPT !.content = content] \in Request
    BY Rows DEF Request
  <2> QED
    BY <1>2, <2>1 DEF UpdateDraft, TypeOK
<1>3. CASE CancelConfirmedEvent(p)
  <2>1. [confirmed[p] EXCEPT !.status = "CANCELLED"] \in Event
    BY Rows DEF Event
  <2> QED
    BY ReleaseType, <1>3, <2>1 DEF CancelConfirmedEvent, TypeOK
<1> QED
  BY Rows, SubmitType, CancelType, <1>1, <1>2, <1>3

\* A request that acts on the row it has read, at whatever time it read it.
LateStep == \E p \in Proposals, row \in Request : Decide(p, row)

LEMMA LateType == TypeOK /\ LateStep => TypeOK'
BY SubmitType, CancelType, VenueType DEF LateStep, Decide, VenueStep

\* Every step of the process, overlapping requests included.
AnyStep == Next \/ UNCHANGED vars \/ LateStep

LEMMA TypeStep == TypeOK /\ AnyStep => TypeOK'
<1>1. TypeOK /\ UNCHANGED vars => TypeOK'
  BY DEF vars, TypeOK
<1>2. TypeOK /\ VenueNext => TypeOK'
  BY VenueType, Rows DEF VenueNext, VenueStep
<1> QED
  BY <1>1, <1>2, EventType, BudgetType, WorkflowType, LateType DEF Next, AnyStep

\* Every row of every proposal keeps its shape through every handler.
THEOREM TypeCorrect == Spec => []TypeOK
<1>1. TypeOK /\ [Next]_vars => TypeOK'
  BY TypeStep DEF AnyStep
<1> QED
  BY <1>1, InitType, PTL DEF Spec

-----------------------------------------------------------------------------
(* Halls *)

\* A hall that is asked for or held is a real one.
HallsNamed ==
    \A p \in Proposals :
        /\ venue[p].status # "NONE" => venue[p].slot \in Slots
        /\ booking[p].active => booking[p].slot \in Slots

HallInv == TypeOK /\ HallsNamed /\ NoDoubleBooking

\* All a step can do to the bookings: release the hall of one proposal, or hold
\* a slot for it that no other proposal's booking overlaps.
ReleaseBooking(p) == booking' = [booking EXCEPT ![p].active = FALSE]
HoldBooking(p) ==
    /\ BookedSlot(p) \in Slots
    /\ Exclusive(p, BookedSlot(p))
    /\ booking' = [booking EXCEPT ![p] = [slot |-> BookedSlot(p), active |-> TRUE]]
BookingStep == \E p \in Proposals : ReleaseBooking(p) \/ HoldBooking(p)

LEMMA BookingSteps ==
  ASSUME TypeOK, HallsNamed, AnyStep
  PROVE  UNCHANGED booking \/ BookingStep
<1>1. ASSUME NEW p \in Proposals, NEW i, NEW k, ApproveStep(p, i, k)
      PROVE  UNCHANGED booking \/ BookingStep
  <2>1. CASE ConfirmHall(p) /\ venue[p].status # "NONE"
    <3>1. BookedSlot(p) \in Slots
      BY <2>1 DEF BookedSlot, HallsNamed, TypeOK, Booking, SomeSlot
    <3> QED
      BY <2>1, <3>1 DEF ConfirmHall, HoldBooking, BookingStep
  <2>2. CASE UNCHANGED booking
    BY <2>2
  <2> QED
    BY <1>1, <2>1, <2>2 DEF ApproveStep, ConfirmHall
<1>2. WorkflowNext => UNCHANGED booking \/ BookingStep
  BY <1>1 DEF WorkflowNext, DecideStep, RejectStep, RequestRevision, BookingStep, ReleaseBooking
<1>3. EventNext => UNCHANGED booking \/ BookingStep
  BY DEF EventNext, CreateDraft, UpdateDraft, SubmitProposal, CancelProposal,
         CancelConfirmedEvent, BookingStep, ReleaseBooking
<1>4. VenueNext => UNCHANGED booking
  BY DEF VenueNext, CreateVenueRequest, UpdateVenueRequest, DeleteVenueRequest, SetVenue
<1>5. BudgetNext => UNCHANGED booking
  BY DEF BudgetNext, CreateBudgetProposal, UpdateBudgetProposal, DeleteBudgetProposal,
         AddLineItem, UpdateLineItem, DeleteLineItem, SetItem, VerifyBudget, SetBudget
<1>6. LateStep => UNCHANGED booking \/ BookingStep
  BY DEF LateStep, Decide, SubmitProposal, CancelProposal, CreateVenueRequest,
         UpdateVenueRequest, DeleteVenueRequest, SetVenue, BookingStep, ReleaseBooking
<1> QED
  BY <1>2, <1>3, <1>4, <1>5, <1>6 DEF Next, AnyStep, vars

\* Such a step leaves no hall booked twice.
LEMMA BookingStepExcludes ==
  ASSUME TypeOK, NoDoubleBooking, BookingStep
  PROVE  NoDoubleBooking'
<1> PICK p \in Proposals : ReleaseBooking(p) \/ HoldBooking(p)
  BY DEF BookingStep
<1> SUFFICES ASSUME NEW q \in Proposals, NEW r \in Proposals, q # r,
                    booking'[q].active, booking'[r].active
             PROVE  ~Overlap(booking'[q].slot, booking'[r].slot)
  BY DEF NoDoubleBooking, Overlap
<1>1. CASE ReleaseBooking(p)
  BY <1>1 DEF ReleaseBooking, NoDoubleBooking, TypeOK, Booking
<1>2. CASE HoldBooking(p)
  <2>1. ASSUME NEW o \in Proposals, o # p, booking'[o].active
        PROVE  /\ booking'[o] = booking[o]
               /\ ~Overlap(booking[o].slot, BookedSlot(p))
               /\ ~Overlap(BookedSlot(p), booking[o].slot)
    <3>1. booking'[o] = booking[o]
      BY <1>2, <2>1 DEF HoldBooking, TypeOK
    <3>2. ~Overlap(booking[o].slot, BookedSlot(p))
      BY <1>2, <2>1, <3>1 DEF HoldBooking, Exclusive, Booked
    <3> QED
      BY <3>1, <3>2 DEF Overlap
  <2>2. booking'[p].slot = BookedSlot(p)
    BY <1>2 DEF HoldBooking, TypeOK
  <2>3. CASE q = p
    BY <2>1, <2>2, <2>3
  <2>4. CASE r = p
    BY <2>1, <2>2, <2>4
  <2>5. CASE q # p /\ r # p
    BY <2>1, <2>5 DEF NoDoubleBooking
  <2> QED
    BY <2>3, <2>4, <2>5
<1> QED
  BY <1>1, <1>2

\* What a step can do to the hall requests.
LEMMA VenueSteps ==
  ASSUME AnyStep
  PROVE  \/ UNCHANGED venue
         \/ \E p \in Proposals, status \in VenueStatuses :
               venue[p].status # "NONE" /\ venue' = [venue EXCEPT ![p].status = status]
         \/ \E p \in Proposals, slot \in Slots :
               venue' = [venue EXCEPT ![p] = [status |-> "PENDING", slot |-> slot]]
         \/ \E p \in Proposals, slot \in Slots :
               venue' = [venue EXCEPT ![p] = [venue[p] EXCEPT !.slot = slot]]
         \/ \E p \in Proposals : venue' = [venue EXCEPT ![p] = NoVenue]
<1>1. ASSUME NEW p \in Proposals, NEW row, VenueStep(p, row)
      PROVE  \/ \E slot \in Slots :
                   venue' = [venue EXCEPT ![p] = [status |-> "PENDING", slot |-> slot]]
             \/ \E slot \in Slots : venue' = [venue EXCEPT ![p] = [venue[p] EXCEPT !.slot = slot]]
             \/ venue' = [venue EXCEPT ![p] = NoVenue]
  BY <1>1 DEF VenueStep, CreateVenueRequest, UpdateVenueRequest, DeleteVenueRequest, SetVenue
<1>2. ASSUME NEW p \in Proposals, NEW i, NEW k,
             ApproveStep(p, i, k) \/ RejectStep(p, i, k) \/ RequestRevision(p, i, k)
      PROVE  \/ UNCHANGED venue
             \/ \E status \in VenueStatuses :
                   venue[p].status # "NONE" /\ venue' = [venue EXCEPT ![p].status = status]
  BY <1>2 DEF ApproveStep, RejectStep, RequestRevision, ConfirmHall, VenueStatuses
<1>3. ASSUME NEW p \in Proposals, NEW row, CancelProposal(p, row)
      PROVE  \/ UNCHANGED venue
             \/ \E status \in VenueStatuses :
                   venue[p].status # "NONE" /\ venue' = [venue EXCEPT ![p].status = status]
  BY <1>3 DEF CancelProposal, VenueStatuses
<1>4. EventNext => UNCHANGED venue \/ \E p \in Proposals : CancelProposal(p, request[p])
  BY DEF EventNext, CreateDraft, UpdateDraft, SubmitProposal, CancelConfirmedEvent
<1>5. BudgetNext => UNCHANGED venue
  BY DEF BudgetNext, CreateBudgetProposal, UpdateBudgetProposal, DeleteBudgetProposal,
         AddLineItem, UpdateLineItem, DeleteLineItem, SetItem, VerifyBudget, SetBudget
<1>6. CASE WorkflowNext
  BY <1>2, <1>6 DEF WorkflowNext, DecideStep
<1>7. CASE EventNext
  BY <1>3, <1>4, <1>7
<1>8. CASE VenueNext
  BY <1>1, <1>8 DEF VenueNext, VenueStep
<1>9. CASE LateStep
  <2> PICK p \in Proposals, row \in Request : Decide(p, row)
    BY <1>9 DEF LateStep
  <2>1. SubmitProposal(p, row) => UNCHANGED venue
    BY DEF SubmitProposal
  <2> QED
    BY <1>1, <1>3, <2>1 DEF Decide, VenueStep
<1> QED
  BY <1>5, <1>6, <1>7, <1>8, <1>9 DEF Next, AnyStep, vars

LEMMA HallsStayNamed ==
  ASSUME TypeOK, HallsNamed, AnyStep
  PROVE  HallsNamed'
<1>1. ASSUME NEW q \in Proposals, booking'[q].active PROVE booking'[q].slot \in Slots
  <2>0. booking[q].active => booking[q].slot \in Slots
    BY DEF HallsNamed
  <2>1. CASE UNCHANGED booking
    BY <1>1, <2>0, <2>1
  <2>2. ASSUME NEW p \in Proposals, ReleaseBooking(p) PROVE booking'[q].slot \in Slots
    BY <1>1, <2>0, <2>2 DEF ReleaseBooking, TypeOK, Booking
  <2>3. ASSUME NEW p \in Proposals, HoldBooking(p) PROVE booking'[q].slot \in Slots
    BY <1>1, <2>0, <2>3 DEF HoldBooking, TypeOK
  <2> QED
    BY <2>1, <2>2, <2>3, BookingSteps DEF BookingStep
<1>2. ASSUME NEW q \in Proposals, venue'[q].status # "NONE" PROVE venue'[q].slot \in Slots
  <2>0. venue[q] \in Venue /\ (venue[q].status # "NONE" => venue[q].slot \in Slots)
    BY DEF HallsNamed, TypeOK
  <2>1. ASSUME NEW p \in Proposals, NEW status, venue[p].status # "NONE",
               venue' = [venue EXCEPT ![p].status = status]
        PROVE  venue'[q].slot \in Slots
    BY <1>2, <2>0, <2>1 DEF TypeOK, Venue
  <2>2. ASSUME NEW p \in Proposals, NEW slot \in Slots,
               \/ venue' = [venue EXCEPT ![p] = [status |-> "PENDING", slot |-> slot]]
               \/ venue' = [venue EXCEPT ![p] = [venue[p] EXCEPT !.slot = slot]]
        PROVE  venue'[q].slot \in Slots
    <3>0. DOMAIN venue = Proposals /\ venue[p] \in Venue
      BY DEF TypeOK
    <3>1. [status |-> "PENDING", slot |-> slot].slot = slot
      OBVIOUS
    <3>2. [venue[p] EXCEPT !.slot = slot].slot = slot
      BY <3>0 DEF Venue
    <3>3. CASE q = p
      <4>1. \/ venue'[q] = [status |-> "PENDING", slot |-> slot]
            \/ venue'[q] = [venue[p] EXCEPT !.slot = slot]
        BY <2>2, <3>0, <3>3
      <4> QED
        BY <4>1, <3>1, <3>2
    <3>4. CASE q # p
      <4>1. venue'[q] = venue[q]
        BY <2>2, <3>0, <3>4
      <4> QED
        BY <4>1, <1>2, <2>0
    <3> QED
      BY <3>3, <3>4
  <2>3. ASSUME NEW p \in Proposals, venue' = [venue EXCEPT ![p] = NoVenue]
        PROVE  venue'[q].slot \in Slots
    BY <1>2, <2>0, <2>3 DEF TypeOK, NoVenue
  <2>4. CASE UNCHANGED venue
    BY <1>2, <2>0, <2>4
  <2> QED
    BY <2>1, <2>2, <2>3, <2>4, VenueSteps
<1> QED
  BY <1>1, <1>2 DEF HallsNamed

LEMMA HallStepInv == HallInv /\ AnyStep => HallInv'
<1> SUFFICES ASSUME HallInv, AnyStep PROVE HallInv'
  OBVIOUS
<1>1. TypeOK /\ HallsNamed /\ NoDoubleBooking
  BY DEF HallInv
<1>2. TypeOK'
  BY <1>1, TypeStep
<1>3. HallsNamed'
  BY <1>1, HallsStayNamed
<1>4. NoDoubleBooking'
  <2>1. CASE UNCHANGED booking
    BY <1>1, <2>1 DEF NoDoubleBooking, Overlap
  <2> QED
    BY <1>1, <2>1, BookingSteps, BookingStepExcludes
<1> QED
  BY <1>2, <1>3, <1>4 DEF HallInv

LEMMA HallInit == Init => HallInv
<1> SUFFICES ASSUME Init PROVE HallInv
  OBVIOUS
<1>1. \A p \in Proposals : venue[p].status = "NONE" /\ booking[p].active = FALSE
  BY DEF Init, NoVenue, NoBooking
<1> QED
  BY <1>1, InitType DEF HallInv, HallsNamed, NoDoubleBooking

LEMMA HallInvariant == Spec => []HallInv
<1>1. HallInv /\ [Next]_vars => HallInv'
  BY HallStepInv DEF AnyStep
<1> QED
  BY <1>1, HallInit, PTL DEF Spec

\* However many proposals compete for a hall, and whatever dates their requests
\* name, it is never booked twice for overlapping times.
THEOREM HallsNeverDoubleBooked == Spec => []NoDoubleBooking
<1>1. HallInv => NoDoubleBooking
  BY DEF HallInv
<1> QED
  BY <1>1, HallInvariant, PTL

-----------------------------------------------------------------------------
(* The bookings implement the abstract calendar *)

LEMMA CalendarInit == Init => Calendar!Init
BY DEF Init, Calendar!Init, Held, NoBooking

LEMMA CalendarStep ==
  ASSUME TypeOK, HallsNamed, AnyStep
  PROVE  Calendar!Next \/ UNCHANGED Held
<1>1. CASE UNCHANGED booking
  BY <1>1 DEF Held
<1>2. CASE BookingStep
  <2> PICK p \in Proposals : ReleaseBooking(p) \/ HoldBooking(p)
    BY <1>2 DEF BookingStep
  <2>0. \A q \in Proposals : booking[q] \in Booking
    BY DEF TypeOK
  <2>1. CASE ReleaseBooking(p)
    <3>1. Held' = [Held EXCEPT ![p] = NoSlot]
      BY <2>0, <2>1 DEF ReleaseBooking, Held, TypeOK, Booking
    <3>2. CASE Held[p] = NoSlot
      <4>1. [Held EXCEPT ![p] = NoSlot] = Held
        BY <3>2 DEF Held
      <4> QED
        BY <3>1, <4>1
    <3>3. CASE Held[p] # NoSlot
      BY <3>1, <3>3 DEF Calendar!Next, Calendar!Release
    <3> QED
      BY <3>2, <3>3
  <2>2. CASE HoldBooking(p)
    <3>1. Held' = [Held EXCEPT ![p] = BookedSlot(p)]
      BY <2>0, <2>2 DEF HoldBooking, Held, TypeOK
    <3>2. CASE booking[p].active
      <4>1. BookedSlot(p) = Held[p]
        BY <3>2, SlotsAssumption DEF BookedSlot, HallsNamed, Held
      <4>2. [Held EXCEPT ![p] = Held[p]] = Held
        BY DEF Held
      <4> QED
        BY <3>1, <4>1, <4>2
    <3>3. CASE ~booking[p].active
      <4>1. Held[p] = NoSlot
        BY <3>3 DEF Held
      <4>2. \A q \in Proposals : ~Calendar!Clash(Held[q], BookedSlot(p))
        <5> SUFFICES ASSUME NEW q \in Proposals, Calendar!Clash(Held[q], BookedSlot(p))
                     PROVE  FALSE
          OBVIOUS
        <5>1. booking[q].active /\ Held[q] = booking[q].slot
          BY DEF Calendar!Clash, Held
        <5>2. q # p
          BY <3>3, <5>1
        <5>3. Overlap(booking[q].slot, BookedSlot(p))
          BY <5>1 DEF Calendar!Clash, Overlap
        <5> QED
          BY <2>2, <5>1, <5>2, <5>3 DEF HoldBooking, Exclusive, Booked
      <4>3. Calendar!Take(p, BookedSlot(p))
        BY <3>1, <4>1, <4>2 DEF Calendar!Take
      <4> QED
        BY <2>2, <4>3 DEF Calendar!Next, HoldBooking
    <3> QED
      BY <3>2, <3>3
  <2> QED
    BY <2>1, <2>2
<1> QED
  BY <1>1, <1>2, BookingSteps

\* The bookings of the whole approval process implement HallCalendar: a hall is
\* taken only when free, kept as taken, and released before another is taken.
THEOREM BookingsImplementCalendar == Spec => BookingsAreACalendar
<1>1. HallInv /\ [Next]_vars => [Calendar!Next]_Held
  BY CalendarStep DEF HallInv, AnyStep
<1> QED
  BY <1>1, CalendarInit, HallInvariant, PTL DEF Spec, BookingsAreACalendar, Calendar!Spec

-----------------------------------------------------------------------------
(* Overlapping requests *)

\* What sessions have read are rows of proposals, however old.
ReadOK == read \in [Sessions -> SUBSET [proposal : Proposals, row : Request]]

RaceInv == HallInv /\ ReadOK

\* A step of the overlapping requests is one on current rows or on an older row.
LEMMA RaceSteps == TypeOK /\ ReadOK /\ [RaceNext]_raceVars => AnyStep
<1> SUFFICES ASSUME TypeOK, ReadOK, [RaceNext]_raceVars PROVE AnyStep
  OBVIOUS
<1>1. ASSUME NEW s \in Sessions, Answer(s) PROVE AnyStep
  <2> PICK r \in read[s] : Decide(r.proposal, r.row)
    BY <1>1 DEF Answer
  <2>1. r.proposal \in Proposals /\ r.row \in Request
    BY DEF ReadOK
  <2> QED
    BY <2>1 DEF AnyStep, LateStep
<1>2. ASSUME NEW s \in Sessions, NEW p \in Proposals, ReadProposal(s, p) PROVE AnyStep
  BY <1>2 DEF ReadProposal, AnyStep
<1>3. ASSUME NEW s \in Sessions, Refuse(s) PROVE AnyStep
  BY <1>3 DEF Refuse, AnyStep
<1>4. CASE EventNext \/ VenueNext \/ WorkflowNext
  BY <1>4 DEF AnyStep, Next
<1>5. CASE UNCHANGED raceVars
  BY <1>5 DEF raceVars, AnyStep
<1> QED
  BY <1>1, <1>2, <1>3, <1>4, <1>5 DEF RaceNext, SessionNext

LEMMA ReadStep == TypeOK /\ ReadOK /\ [RaceNext]_raceVars => ReadOK'
<1> SUFFICES ASSUME TypeOK, ReadOK, [RaceNext]_raceVars PROVE ReadOK'
  OBVIOUS
<1>1. ASSUME NEW s \in Sessions, NEW p \in Proposals, ReadProposal(s, p) PROVE ReadOK'
  BY <1>1, Rows DEF ReadProposal, ReadOK
<1>2. ASSUME NEW s \in Sessions, read' = [read EXCEPT ![s] = {}] PROVE ReadOK'
  BY <1>2 DEF ReadOK
<1>3. CASE UNCHANGED read
  BY <1>3 DEF ReadOK
<1> QED
  BY <1>1, <1>2, <1>3 DEF RaceNext, SessionNext, Answer, Refuse, raceVars

LEMMA RaceInvariant == RaceSpec => []RaceInv
<1>1. RaceInit => RaceInv
  BY HallInit DEF RaceInit, RaceInv, ReadOK
<1>2. RaceInv /\ [RaceNext]_raceVars => RaceInv'
  BY RaceSteps, ReadStep, HallStepInv DEF RaceInv, HallInv
<1> QED
  BY <1>1, <1>2, PTL DEF RaceSpec

\* Nor is a hall booked twice when handlers act on rows that others have changed
\* since: however many sessions overlap, and however old what they read.
THEOREM HallsNeverDoubleBookedInRaces == RaceSpec => []NoDoubleBooking
<1>1. RaceInv => NoDoubleBooking
  BY DEF RaceInv, HallInv
<1> QED
  BY <1>1, RaceInvariant, PTL

\* Under overlapping requests too the bookings implement HallCalendar.
THEOREM RacingBookingsImplementCalendar == RaceSpec => BookingsAreACalendar
<1>1. RaceInv /\ [RaceNext]_raceVars => [Calendar!Next]_Held
  BY RaceSteps, CalendarStep DEF RaceInv, HallInv
<1>2. RaceInit => Calendar!Init
  BY CalendarInit DEF RaceInit
<1> QED
  BY <1>1, <1>2, RaceInvariant, PTL DEF RaceSpec, BookingsAreACalendar, Calendar!Spec
===============================================================================
