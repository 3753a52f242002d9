------------------------------ MODULE AuthSession ------------------------------
(***************************************************************************)
(* A browser and the server it keeps a session with.                       *)
(***************************************************************************)
EXTENDS ApiClient

Next == ServerNext \/ ClientNext

Spec == Init /\ [][Next]_vars

\* The server answers what reaches it, and every call is answered or fails.
Fairness ==
    \A t \in Tabs :
        /\ WF_vars(ServeRefresh(t))
        /\ WF_vars(EndRefresh(t))
        /\ \A r \in Requests : WF_vars(Respond(t, r))

FairSpec == Spec /\ Fairness

-----------------------------------------------------------------------------
(* Safety *)

\* A tab's flag is set exactly while its call is under way, and no request waits
\* in refreshQueue without a refresh that will answer it: the finally of the
\* interceptor never runs between a push and the drain that should see it.
QueueHasRefresh ==
    \A t \in Tabs :
        /\ isRefreshing[t] <=> refresh[t].at # "none"
        /\ (\E r \in Requests : requests[t][r].state \in Waiting) => isRefreshing[t]

\* A tab shows its loader only while a session check is under way that will end
\* it: neither a failed refresh, a login nor a logout leaves it spinning.
LoaderHasCheck ==
    \A t \in Tabs : store[t].loading => requests[t][Check].state # "idle"

\* Every successor was issued for an older token, and no token keeps working
\* beside its successor: what was rotated is revoked in the same transaction.
Lineage ==
    \A i \in DOMAIN tokens :
        LET p == tokens[i].parent IN
            p # 0 => p < i /\ tokens[p].status \notin Unrevoked

\* The cookie never holds a token that was rotated, except while the answer that
\* replaces it is under way, or after such an answer was lost: otherwise the next
\* refresh of an honest browser would be taken for a theft.
CookieIsFresh ==
    (losses = 0 /\ cookie # 0 /\ tokens[cookie].status = "rotated")
        => \E t \in Tabs : refresh[t].at = "done" /\ refresh[t].cookie = cookie

-----------------------------------------------------------------------------
(* Progress *)

\* Every request ends: answered, failed, or sent again after a refresh and then
\* answered or failed.
RequestsEnd ==
    \A t \in Tabs, r \in Requests :
        requests[t][r].state # "idle" ~> requests[t][r].state = "idle"

-----------------------------------------------------------------------------
(* What the documents say of the system *)

\* "Enforces single-use token rotation": no token has two successors.
SingleUse ==
    \A i, j \in DOMAIN tokens :
        (tokens[i].parent = tokens[j].parent /\ tokens[i].parent # 0) => i = j
===============================================================================
