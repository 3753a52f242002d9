--------------------------- MODULE MCPostEventRaces ---------------------------
(* Instances of PostEventRaces for TLC. *)
EXTENDS PostEventRaces, MCPostEvent

CONSTANTS s1, s2

NoIncomes == {}
OneSession == {s1}
TwoSessions == {s1, s2}
==============================================================================
