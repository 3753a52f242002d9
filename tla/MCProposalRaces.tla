---------------------------- MODULE MCProposalRaces ----------------------------
(* Instances of ProposalRaces for TLC. *)
EXTENDS ProposalRaces, MCProposalWorkflow

CONSTANTS s1, s2

OneSession == {s1}
TwoSessions == {s1, s2}
===============================================================================
