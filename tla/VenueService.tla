----------------------------- MODULE VenueService -----------------------------
(***************************************************************************)
(* A club states which hall its proposal needs.  Policy checks that        *)
(* compare with the clock or the hall's capacity are not modelled: Slots   *)
(* are the wishes that pass them.                                          *)
(***************************************************************************)
EXTENDS ProposalState

SetVenue(p, v) ==
    /\ venue' = [venue EXCEPT ![p] = v]
    /\ UNCHANGED <<request, versions, booking, budget, workflow, confirmed>>

CreateVenueRequest(p, row, slot) ==
    /\ Editable(row)
    /\ venue[p].status = "NONE"
    /\ ~Booked(slot, Proposals)
    /\ SetVenue(p, [status |-> "PENDING", slot |-> slot])

SameWindow(s, t) == s.hall = t.hall /\ s.from = t.from /\ s.to = t.to

\* A patch that names a hall or a time is checked against every active booking,
\* the proposal's own included; one that only names a date is not.  The status
\* stays what the last review made it.
UpdateVenueRequest(p, row, slot) ==
    /\ Editable(row)
    /\ venue[p].status # "NONE"
    /\ SameWindow(slot, venue[p].slot) \/ ~Booked(slot, Proposals)
    /\ SetVenue(p, [venue[p] EXCEPT !.slot = slot])

\* A booking row, active or not, refers to the request and forbids its deletion.
DeleteVenueRequest(p, row) ==
    /\ Editable(row)
    /\ venue[p].status # "NONE"
    /\ booking[p].slot = NoSlot
    /\ SetVenue(p, NoVenue)

VenueNext ==
    \E p \in Proposals :
        \/ \E slot \in Slots : CreateVenueRequest(p, request[p], slot)
        \/ \E slot \in Slots : UpdateVenueRequest(p, request[p], slot)
        \/ DeleteVenueRequest(p, request[p])
===============================================================================
