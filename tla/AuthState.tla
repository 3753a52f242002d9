------------------------------- MODULE AuthState -------------------------------
(***************************************************************************)
(* One account's sessions: the refresh tokens the server keeps, and one    *)
(* browser with the refresh cookie its tabs share.  Every tab runs its own *)
(* copy of the API client: the access token in its store, the requests it  *)
(* has under way, and its calls to refresh and to log out.                 *)
(***************************************************************************)
EXTENDS Integers, Sequences

CONSTANTS
    Tabs,        \* the browser's tabs
    Requests,    \* identities of the requests a tab may have under way
    Check,       \* the request by which a tab asks who is signed in
    MaxTokens,   \* bound on the refresh tokens ever issued
    MaxLosses    \* bound on the reloads of a tab and the refresh answers lost

ASSUME RequestsAssumption == Check \in Requests
ASSUME TokensAssumption == MaxTokens \in Nat /\ MaxLosses \in Nat

VARIABLES
    tokens,        \* the RefreshToken rows, oldest first
    cookie,        \* the token in the refresh cookie, 0 when there is none
    losses,        \* reloads and refresh answers lost so far
    store,         \* authStore: access token, isAuthenticated, isLoading
    page,          \* is the tab on the login page?
    requests,      \* the requests of each tab
    isRefreshing,  \* apiClient's flag
    refresh,       \* the tab's call to /auth/refresh
    logout         \* the tab's call to /auth/logout

tabVars == <<store, page, requests, isRefreshing>>
vars == <<tokens, cookie, losses, tabVars, refresh, logout>>

-----------------------------------------------------------------------------
TokenIds == 1 .. MaxTokens
Cookies == 0 .. MaxTokens

\* A token is revoked because it was rotated, or for any other reason; a lapsed
\* one is past its expiry and not revoked yet.
Unrevoked == {"active", "lapsed"}
Token == [status : Unrevoked \cup {"rotated", "revoked"}, parent : Cookies]

Access == {"none", "live", "stale"}
Store == [token : Access, signedIn : BOOLEAN, loading : BOOLEAN]

\* A request that was answered 401 leads a refresh or waits in refreshQueue.
Request == [state : {"idle", "sent", "leading", "queued"},
            token : Access, retry : BOOLEAN]

RefreshCall == [at : {"none", "sent", "read", "done"}, cookie : Cookies,
                seen : Unrevoked \cup {"rotated", "revoked", "missing"}, new : Cookies]
LogoutCall == [at : {"none", "sent", "served"}, cookie : Cookies]

Idle == [state |-> "idle", token |-> "none", retry |-> FALSE]
Sent(access, retry) == [state |-> "sent", token |-> access, retry |-> retry]
NoRefresh == [at |-> "none", cookie |-> 0, seen |-> "missing", new |-> 0]
NoLogout == [at |-> "none", cookie |-> 0]

\* What a page load leaves: an empty store, and AppRouter asking for the session.
FreshStore == [token |-> "none", signedIn |-> FALSE, loading |-> TRUE]
FreshRequests == [r \in Requests |-> IF r = Check THEN Sent("none", FALSE) ELSE Idle]

TypeOK ==
    /\ tokens \in Seq(Token)
    /\ Len(tokens) <= MaxTokens
    /\ cookie \in 0 .. Len(tokens)
    /\ losses \in 0 .. MaxLosses
    /\ store \in [Tabs -> Store]
    /\ page \in [Tabs -> {"app", "login"}]
    /\ requests \in [Tabs -> [Requests -> Request]]
    /\ isRefreshing \in [Tabs -> BOOLEAN]
    /\ refresh \in [Tabs -> RefreshCall]
    /\ logout \in [Tabs -> LogoutCall]

Init ==
    /\ tokens = <<>>
    /\ cookie = 0
    /\ losses = 0
    /\ store = [t \in Tabs |-> FreshStore]
    /\ page = [t \in Tabs |-> "app"]
    /\ requests = [t \in Tabs |-> FreshRequests]
    /\ isRefreshing = [t \in Tabs |-> FALSE]
    /\ refresh = [t \in Tabs |-> NoRefresh]
    /\ logout = [t \in Tabs |-> NoLogout]
===============================================================================
