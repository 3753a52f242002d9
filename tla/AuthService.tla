------------------------------ MODULE AuthService ------------------------------
(***************************************************************************)
(* The refresh tokens on the server (AuthService and the endpoints of      *)
(* /auth).  A rotation reads the token's row without locking it and        *)
(* commits later; the other handlers are decided at their commit.          *)
(***************************************************************************)
EXTENDS AuthState

Active(parent) == [status |-> "active", parent |-> parent]

Revoked(row, why) == IF row.status \in Unrevoked THEN [row EXCEPT !.status = why] ELSE row

\* Slip: the answer names a token whose row was never committed.
IssueUncommitted == Len(tokens) < MaxTokens /\ UNCHANGED tokens

\* A successful authenticate_user issues a token that descends from no other.
IssueToken ==
    /\ Len(tokens) < MaxTokens
    /\ tokens' = Append(tokens, Active(0))

\* The seven days of a token are over.
ExpireRefreshToken(i) ==
    /\ tokens[i].status = "active"
    /\ tokens' = [tokens EXCEPT ![i].status = "lapsed"]
    /\ UNCHANGED <<cookie, losses, tabVars, refresh, logout>>

ReadRefreshToken(t) ==
    /\ refresh[t].at = "sent"
    /\ refresh' = [refresh EXCEPT
          ![t].at = "read",
          ![t].seen = IF refresh[t].cookie = 0 THEN "missing"
                      ELSE tokens[refresh[t].cookie].status]
    /\ UNCHANGED <<tokens, cookie, losses, tabVars, logout>>

Finish(t, new) ==
    /\ refresh' = [refresh EXCEPT ![t].at = "done", ![t].new = new]
    /\ UNCHANGED <<cookie, losses, tabVars, logout>>

\* No cookie, or the transaction failed and was rolled back.
RefuseRefresh(t) ==
    /\ refresh[t].at = "read"
    /\ Finish(t, 0)
    /\ UNCHANGED tokens

\* A revoked token is presented: every token of the account is revoked.
DetectReuse(t) ==
    /\ refresh[t].at = "read"
    /\ refresh[t].seen \in {"rotated", "revoked"}
    /\ tokens' = [i \in DOMAIN tokens |-> Revoked(tokens[i], "revoked")]
    /\ Finish(t, 0)

RevokeExpired(t) ==
    /\ refresh[t].at = "read"
    /\ refresh[t].seen = "lapsed"
    /\ tokens' = [tokens EXCEPT ![refresh[t].cookie] = Revoked(@, "revoked")]
    /\ Finish(t, 0)

\* Slip: the new token is issued and the old one stays valid.
RotateWithoutRevoking(t) ==
    /\ refresh[t].at = "read"
    /\ refresh[t].seen = "active"
    /\ Len(tokens) < MaxTokens
    /\ tokens' = Append(tokens, Active(refresh[t].cookie))
    /\ Finish(t, Len(tokens) + 1)

\* The old token is revoked and its successor issued, in one transaction.
RotateRefreshToken(t) ==
    /\ refresh[t].at = "read"
    /\ refresh[t].seen = "active"
    /\ Len(tokens) < MaxTokens
    /\ tokens' = Append([tokens EXCEPT ![refresh[t].cookie] = Revoked(@, "rotated")],
                        Active(refresh[t].cookie))
    /\ Finish(t, Len(tokens) + 1)

\* revoke_refresh_token leaves a token alone that is unknown or revoked already.
ServeLogout(t) ==
    /\ logout[t].at = "sent"
    /\ logout' = [logout EXCEPT ![t].at = "served"]
    /\ tokens' = [i \in DOMAIN tokens |->
                     IF i = logout[t].cookie THEN Revoked(tokens[i], "revoked") ELSE tokens[i]]
    /\ UNCHANGED <<cookie, losses, tabVars, refresh>>

ServeRefresh(t) ==
    \/ ReadRefreshToken(t)
    \/ RefuseRefresh(t)
    \/ DetectReuse(t)
    \/ RevokeExpired(t)
    \/ RotateRefreshToken(t)

ServerNext ==
    \/ \E i \in DOMAIN tokens : ExpireRefreshToken(i)
    \/ \E t \in Tabs : ServeRefresh(t) \/ ServeLogout(t)
===============================================================================
