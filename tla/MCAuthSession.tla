---------------------------- MODULE MCAuthSession ----------------------------
(* Instances of AuthSession for TLC. *)
EXTENDS AuthSession

CONSTANTS t1, t2, r1, r2

OneTab == {t1}
TwoTabs == {t1, t2}
OneRequest == {Check, r1}
TwoRequests == {Check, r1, r2}
==============================================================================
