------------------------------- MODULE ApiClient -------------------------------
(***************************************************************************)
(* The browser's side of a session: apiClient's interceptors, which answer *)
(* a 401 with one refresh per tab and queue the other requests behind it,  *)
(* the auth store, AppRouter's session check, the login page and the       *)
(* logout button.  A page load abandons whatever the tab had under way.    *)
(***************************************************************************)
EXTENDS AuthService

\* The fields of setAuth and clearAuth.
SignedIn(access) == [token |-> access, signedIn |-> TRUE, loading |-> FALSE]
Cleared == [token |-> "none", signedIn |-> FALSE, loading |-> FALSE]

\* A tab that is neither signed in nor loading is sent to the login page.
SetStore(t, new) ==
    /\ store' = [store EXCEPT ![t] = new]
    /\ page' = [page EXCEPT ![t] = IF new.signedIn THEN "app"
                                   ELSE IF new.loading THEN @ ELSE "login"]

SendRequest(t, r) ==
    /\ store[t].signedIn
    /\ r # Check
    /\ requests[t][r].state = "idle"
    /\ requests' = [requests EXCEPT ![t][r] = Sent(store[t].token, FALSE)]
    /\ UNCHANGED <<tokens, cookie, losses, store, page, isRefreshing, refresh, logout>>

\* Slip: a failed check does not end the loading.
SettleStillLoading(t, r, answered) ==
    /\ requests' = [requests EXCEPT ![t][r] = Idle]
    /\ IF r = Check /\ answered THEN SetStore(t, SignedIn(store[t].token))
       ELSE UNCHANGED <<store, page>>
    /\ UNCHANGED <<tokens, cookie, losses, isRefreshing, refresh, logout>>

\* The request is over; AppRouter's check then signs the tab in with the token the
\* store holds by now, or ends the loading.
Settle(t, r, answered) ==
    /\ requests' = [requests EXCEPT ![t][r] = Idle]
    /\ IF r = Check
       THEN SetStore(t, IF answered THEN SignedIn(store[t].token)
                        ELSE [store[t] EXCEPT !.loading = FALSE])
       ELSE UNCHANGED <<store, page>>
    /\ UNCHANGED <<tokens, cookie, losses, isRefreshing, refresh, logout>>

RequestAnswered(t, r) ==
    /\ requests[t][r].state = "sent"
    /\ requests[t][r].token = "live"
    /\ Settle(t, r, TRUE)

\* A network error, a timeout, or a 401 for a request that was retried already.
RequestFailed(t, r) ==
    /\ requests[t][r].state = "sent"
    /\ Settle(t, r, FALSE)

Unauthorized(t, r) ==
    /\ requests[t][r].state = "sent"
    /\ requests[t][r].token # "live"
    /\ ~requests[t][r].retry

\* A 401 while the tab refreshes: the request waits.
QueueRequest(t, r) ==
    /\ Unauthorized(t, r)
    /\ isRefreshing[t]
    /\ requests' = [requests EXCEPT ![t][r].state = "queued"]
    /\ UNCHANGED <<tokens, cookie, losses, store, page, isRefreshing, refresh, logout>>

\* Any other 401 starts a refresh with the cookie of the moment.
StartRefresh(t, r) ==
    /\ Unauthorized(t, r)
    /\ ~isRefreshing[t]
    /\ requests' = [requests EXCEPT ![t][r] = [@ EXCEPT !.state = "leading", !.retry = TRUE]]
    /\ isRefreshing' = [isRefreshing EXCEPT ![t] = TRUE]
    /\ refresh' = [refresh EXCEPT ![t] = [NoRefresh EXCEPT !.at = "sent", !.cookie = cookie]]
    /\ UNCHANGED <<tokens, cookie, losses, store, page, logout>>

Waiting == {"leading", "queued"}

\* Slip: the queue is not drained when the refresh has succeeded.
ResendLeaderOnly(t) ==
    [r \in Requests |-> IF requests[t][r].state = "leading"
                        THEN Sent("live", requests[t][r].retry) ELSE requests[t][r]]

\* The requests that waited are sent again with the new access token.
Resend(t) ==
    [r \in Requests |-> IF requests[t][r].state \in Waiting
                        THEN Sent("live", requests[t][r].retry) ELSE requests[t][r]]

\* The answer brings the new cookie and access token, and the flag is reset.
Succeed(t, newCookie, refreshing) ==
    /\ refresh[t].at = "done"
    /\ refresh[t].new # 0
    /\ cookie' = newCookie
    /\ store' = [store EXCEPT ![t].token = "live"]
    /\ requests' = [requests EXCEPT ![t] = Resend(t)]
    /\ isRefreshing' = [isRefreshing EXCEPT ![t] = refreshing]
    /\ refresh' = [refresh EXCEPT ![t] = NoRefresh]
    /\ UNCHANGED <<tokens, losses, page, logout>>

\* Slip: the answer's cookie is not stored.
SucceedKeepingCookie(t) == Succeed(t, cookie, FALSE)

\* Slip: the flag is reset only when the refresh fails.
SucceedKeepingFlag(t) == Succeed(t, refresh[t].new, TRUE)

RefreshSucceeded(t) == Succeed(t, refresh[t].new, FALSE)

\* A page load: AppRouter starts over and whatever was under way is abandoned.
Load(t, where) ==
    /\ store' = [store EXCEPT ![t] = FreshStore]
    /\ page' = [page EXCEPT ![t] = where]
    /\ requests' = [requests EXCEPT ![t] = FreshRequests]
    /\ isRefreshing' = [isRefreshing EXCEPT ![t] = FALSE]
    /\ refresh' = [refresh EXCEPT ![t] = NoRefresh]
    /\ logout' = [logout EXCEPT ![t] = NoLogout]
    /\ UNCHANGED <<tokens, cookie>>

\* The waiting requests fail and the store is cleared; away from the login page,
\* the tab is then loaded anew there.
GiveUp(t) ==
    \/ /\ page[t] = "app"
       /\ Load(t, "login")
    \/ /\ page[t] = "login"
       /\ store' = [store EXCEPT ![t] = Cleared]
       /\ requests' = [requests EXCEPT ![t] =
             [r \in Requests |-> IF requests[t][r].state \in Waiting THEN Idle
                                 ELSE requests[t][r]]]
       /\ isRefreshing' = [isRefreshing EXCEPT ![t] = FALSE]
       /\ refresh' = [refresh EXCEPT ![t] = NoRefresh]
       /\ UNCHANGED <<tokens, cookie, page, logout>>

RefreshRefused(t) ==
    /\ refresh[t].at = "done"
    /\ refresh[t].new = 0
    /\ GiveUp(t)
    /\ UNCHANGED losses

\* The call, or its answer, is lost in the network.
RefreshLost(t) ==
    /\ refresh[t].at \in {"sent", "done"}
    /\ losses < MaxLosses
    /\ losses' = losses + 1
    /\ GiveUp(t)

\* The user reloads the page; not while the server has the refresh in hand, which
\* a reload right after that stands for.
Reload(t) ==
    /\ refresh[t].at # "read"
    /\ losses < MaxLosses
    /\ losses' = losses + 1
    /\ Load(t, page[t])

\* The login page: authenticate_user, the cookie of its answer, and setAuth.
SignIn(t) ==
    /\ page[t] = "login"
    /\ ~store[t].signedIn
    /\ IssueToken
    /\ cookie' = Len(tokens) + 1
    /\ SetStore(t, SignedIn("live"))
    /\ UNCHANGED <<losses, requests, isRefreshing, refresh, logout>>

SignOut(t) ==
    /\ store[t].signedIn
    /\ logout[t].at = "none"
    /\ logout' = [logout EXCEPT ![t] = [at |-> "sent", cookie |-> cookie]]
    /\ UNCHANGED <<tokens, cookie, losses, tabVars, refresh>>

\* handleLogout clears the store whether the call succeeded or not, which makes
\* AppRouter ask for the session again (unless its last check is still under way).
LeaveSession(t) ==
    /\ SetStore(t, Cleared)
    /\ requests' = [requests EXCEPT ![t][Check] =
                       IF @.state = "idle" THEN Sent("none", FALSE) ELSE @]
    /\ logout' = [logout EXCEPT ![t] = NoLogout]
    /\ UNCHANGED <<tokens, losses, isRefreshing, refresh>>

LogoutAnswered(t) ==
    /\ logout[t].at = "served"
    /\ cookie' = 0
    /\ LeaveSession(t)

LogoutLost(t) ==
    /\ logout[t].at # "none"
    /\ LeaveSession(t)
    /\ UNCHANGED cookie

Stale(access) == IF access = "live" THEN "stale" ELSE access

\* The fifteen minutes of the tab's access token are over, and with it those of
\* every older one that a request still carries.
ExpireAccessToken(t) ==
    /\ store[t].token = "live" \/ \E r \in Requests : requests[t][r].token = "live"
    /\ store' = [store EXCEPT ![t].token = Stale(@)]
    /\ requests' = [requests EXCEPT ![t] = [r \in Requests |->
                       [requests[t][r] EXCEPT !.token = Stale(@)]]]
    /\ UNCHANGED <<tokens, cookie, losses, page, isRefreshing, refresh, logout>>

Respond(t, r) ==
    \/ RequestAnswered(t, r)
    \/ RequestFailed(t, r)
    \/ QueueRequest(t, r)
    \/ StartRefresh(t, r)

EndRefresh(t) == RefreshSucceeded(t) \/ RefreshRefused(t) \/ RefreshLost(t)

ClientNext ==
    \E t \in Tabs :
        \/ \E r \in Requests : SendRequest(t, r) \/ Respond(t, r)
        \/ EndRefresh(t)
        \/ Reload(t)
        \/ SignIn(t)
        \/ SignOut(t)
        \/ LogoutAnswered(t)
        \/ LogoutLost(t)
        \/ ExpireAccessToken(t)
===============================================================================
