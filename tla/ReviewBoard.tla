------------------------------ MODULE ReviewBoard ------------------------------
(***************************************************************************)
(* What the approval of proposals promises: terms are tabled before a      *)
(* board that signs them one member after the other, they do not change    *)
(* while the board looks at them, every tabling starts without a           *)
(* signature, what all members have signed is agreed, and agreed, rejected *)
(* and withdrawn proposals stay as they are.                               *)
(***************************************************************************)
EXTENDS Integers, Sequences

CONSTANTS
    Proposals,
    Members      \* how many have to sign

VARIABLES
    standing,    \* where each proposal stands
    terms,       \* what it says now
    tabled,      \* what was laid before the board, oldest first
    signed,      \* how many have signed what was tabled last
    agreed       \* the terms of its event, as a set of at most one

board == <<standing, terms, tabled, signed, agreed>>

Init ==
    /\ standing = [p \in Proposals |-> "NONE"]
    /\ tabled = [p \in Proposals |-> <<>>]
    /\ signed = [p \in Proposals |-> 0]
    /\ agreed = [p \in Proposals |-> {}]

ItsClubs == {"DRAFT", "SENT_BACK"}

\* The club writes its proposal, or changes it while it is its own.
Write(p) ==
    /\ standing[p] \in {"NONE"} \cup ItsClubs
    /\ standing' = IF standing[p] = "NONE" THEN [standing EXCEPT ![p] = "DRAFT"] ELSE standing
    /\ terms' = [terms EXCEPT ![p] = terms'[p]]
    /\ UNCHANGED <<tabled, signed, agreed>>

Table(p) ==
    /\ standing[p] \in ItsClubs
    /\ standing' = [standing EXCEPT ![p] = "TABLED"]
    /\ tabled' = [tabled EXCEPT ![p] = Append(@, terms[p])]
    /\ signed' = [signed EXCEPT ![p] = 0]
    /\ UNCHANGED <<terms, agreed>>

\* The last signature makes the terms agreed.
Sign(p) ==
    /\ standing[p] = "TABLED"
    /\ signed' = [signed EXCEPT ![p] = @ + 1]
    /\ IF signed[p] + 1 < Members
       THEN UNCHANGED <<standing, agreed>>
       ELSE /\ standing' = [standing EXCEPT ![p] = "AGREED"]
            /\ agreed' = [agreed EXCEPT ![p] = {terms[p]}]
    /\ UNCHANGED <<terms, tabled>>

Answer(p) ==
    /\ standing[p] = "TABLED"
    /\ \E answer \in {"SENT_BACK", "REJECTED"} : standing' = [standing EXCEPT ![p] = answer]
    /\ UNCHANGED <<terms, tabled, signed, agreed>>

Withdraw(p) ==
    /\ standing[p] \in ItsClubs \cup {"TABLED"}
    /\ standing' = [standing EXCEPT ![p] = "WITHDRAWN"]
    /\ UNCHANGED <<terms, tabled, signed, agreed>>

Next == \E p \in Proposals : Write(p) \/ Table(p) \/ Sign(p) \/ Answer(p) \/ Withdraw(p)

Spec == Init /\ [][Next]_board
===============================================================================
