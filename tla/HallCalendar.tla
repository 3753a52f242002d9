----------------------------- MODULE HallCalendar -----------------------------
(***************************************************************************)
(* What the hall bookings promise: a proposal takes a hall for a time only *)
(* when nobody holds that hall for part of it, keeps exactly what it took, *)
(* and gives it up before it takes anything else.                          *)
(***************************************************************************)
EXTENDS Naturals

CONSTANTS Proposals, Slots, NoSlot

VARIABLE held   \* the slot each proposal holds, or NoSlot

Clash(s, t) == s # NoSlot /\ t # NoSlot /\ s.hall = t.hall /\ s.from < t.to /\ t.from < s.to

Init == held = [p \in Proposals |-> NoSlot]

Take(p, s) ==
    /\ held[p] = NoSlot
    /\ \A q \in Proposals : ~Clash(held[q], s)
    /\ held' = [held EXCEPT ![p] = s]

Release(p) ==
    /\ held[p] # NoSlot
    /\ held' = [held EXCEPT ![p] = NoSlot]

Next == \E p \in Proposals : Release(p) \/ \E s \in Slots : Take(p, s)

Spec == Init /\ [][Next]_held
===============================================================================
