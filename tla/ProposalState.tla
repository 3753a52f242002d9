---------------------------- MODULE ProposalState ----------------------------
(***************************************************************************)
(* The database rows of the proposals on their way to approval: the        *)
(* request itself, the snapshots taken of it, its hall requirement and the *)
(* confirmed booking, its budget, its approval workflows and the event     *)
(* created at the end.  The services that change these rows are in         *)
(* EventService, VenueService, BudgetService and WorkflowService.          *)
(*                                                                         *)
(* A row that does not exist has status "NONE".  Handlers that decide on   *)
(* the request as their session read it take that row as a parameter.      *)
(***************************************************************************)
EXTENDS Integers, FiniteSets, Sequences

CONSTANTS
    Proposals,      \* identities of the proposals
    Contents,       \* what a proposal may say: title, description, date, guests
    Halls, Dates,   \* the halls, and the days a request may name as its date
    Slots,          \* the hall, date and times a club may ask for
    NoSlot,         \* no hall
    Items,          \* identities of the budget's line items
    MaxAmount,      \* bound on a budgeted amount
    Cap,            \* BUDGET_INSTITUTE_CONTRIBUTION_CAP
    LastStep,       \* number of the last review step, 6 in the default template
    MaxVersions     \* bound on the number of submissions

\* The date a request names and the times it books are independent fields.
ASSUME SlotsAssumption ==
    /\ Slots \subseteq [hall : Halls, date : Dates, from : Nat, to : Nat]
    /\ \A s \in Slots : s.from < s.to
    /\ NoSlot \notin Slots
ASSUME ReviewAssumption == LastStep \in Nat /\ LastStep >= 3
ASSUME BudgetAssumption == IsFiniteSet(Items) /\ MaxAmount \in Nat /\ Cap \in Nat
ASSUME VersionsAssumption == MaxVersions \in Nat

VARIABLES
    request,     \* EventRequest: status, content, current_version, workflow_instance_id
    versions,    \* EventRequestVersion snapshots, oldest first
    venue,       \* VenueRequest
    booking,     \* HallBookingConfirmed
    budget,      \* BudgetProposal with its line items
    workflow,    \* WorkflowInstance rows with their steps, oldest first
    confirmed    \* Event, up to the day it is held or cancelled

vars == <<request, versions, venue, booking, budget, workflow, confirmed>>

-----------------------------------------------------------------------------
(* Statuses and rows *)

Steps == 1 .. LastStep
HallStep == 2      \* "Hall In-Charge Review"
FinanceStep == 3   \* "Finance Officer Pre-Audit"
Amounts == 1 .. MaxAmount

RequestStatuses == {"NONE", "DRAFT", "SUBMITTED", "IN_REVIEW", "REVISION_REQUIRED",
                    "APPROVED", "REJECTED", "CANCELLED"}
VenueStatuses == {"NONE", "PENDING", "APPROVED", "REJECTED"}
FinanceStatuses == {"NONE", "PENDING", "VERIFIED", "QUERIED"}
InstanceStatuses == {"IN_PROGRESS", "COMPLETED", "REJECTED", "CANCELLED", "SUPERSEDED"}
StepStatuses == {"PENDING", "APPROVED", "REJECTED", "REVISION_REQUESTED", "SKIPPED"}

SomeSlot == Slots \cup {NoSlot}

Request == [status : RequestStatuses, content : Contents, version : Nat, instance : Nat]
Venue == [status : VenueStatuses, slot : SomeSlot]
Booking == [slot : SomeSlot, active : BOOLEAN]
Budget == [finance : FinanceStatuses, income : Nat, contribution : Nat,
           total : Nat, items : [Items -> Nat]]
Figures == [income : Nat, contribution : Nat, total : Nat, items : [Items -> Nat]]
Snapshot == [content : Contents, slot : SomeSlot, budget : SUBSET Figures]
Instance == [status : InstanceStatuses, current : Steps, version : Nat,
             steps : [Steps -> StepStatuses]]
Event == [status : {"NONE", "SCHEDULED", "CANCELLED"}, slot : SomeSlot, version : Nat]

NoVenue == [status |-> "NONE", slot |-> NoSlot]
NoBooking == [slot |-> NoSlot, active |-> FALSE]
NoItems == [x \in Items |-> 0]
NoBudget == [finance |-> "NONE", income |-> 0, contribution |-> 0,
             total |-> 0, items |-> NoItems]
NoEvent == [status |-> "NONE", slot |-> NoSlot, version |-> 0]

TypeOK ==
    /\ request \in [Proposals -> Request]
    /\ versions \in [Proposals -> Seq(Snapshot)]
    /\ venue \in [Proposals -> Venue]
    /\ booking \in [Proposals -> Booking]
    /\ budget \in [Proposals -> Budget]
    /\ workflow \in [Proposals -> Seq(Instance)]
    /\ confirmed \in [Proposals -> Event]

Init ==
    /\ request \in [Proposals -> [status : {"NONE"}, content : Contents,
                                  version : {0}, instance : {0}]]
    /\ versions = [p \in Proposals |-> <<>>]
    /\ venue = [p \in Proposals |-> NoVenue]
    /\ booking = [p \in Proposals |-> NoBooking]
    /\ budget = [p \in Proposals |-> NoBudget]
    /\ workflow = [p \in Proposals |-> <<>>]
    /\ confirmed = [p \in Proposals |-> NoEvent]

-----------------------------------------------------------------------------
(* What the services ask of the rows *)

\* Slip: a submitted proposal is still open to its club.
EditableWhileSubmitted(row) == row.status \in {"DRAFT", "REVISION_REQUIRED", "SUBMITTED"}

\* Only proposals in DRAFT or REVISION_REQUIRED can be modified or submitted.
Editable(row) == row.status \in {"DRAFT", "REVISION_REQUIRED"}

\* [start, end) intervals of the same hall that have a moment in common.
Overlap(s, t) == s.hall = t.hall /\ s.from < t.to /\ t.from < s.to

\* One of the proposals holds the slot's hall for part of the slot's time.
Booked(slot, others) == \E q \in others : booking[q].active /\ Overlap(booking[q].slot, slot)

\* Slip: the constraint compares the requested dates first.
ExclusiveByDate(p, slot) ==
    ~\E q \in Proposals \ {p} :
        booking[q].active /\ booking[q].slot.date = slot.date /\ Overlap(booking[q].slot, slot)

\* excl_hall_bookings_no_overlap: the database refuses a booking of p that would
\* be active beside an overlapping one.
Exclusive(p, slot) == ~Booked(slot, Proposals \ {p})

\* The figures a snapshot keeps of a budget.
FiguresOf(b) ==
    IF b.finance = "NONE" THEN {}
    ELSE {[income |-> b.income, contribution |-> b.contribution,
           total |-> b.total, items |-> b.items]}
=============================================================================
