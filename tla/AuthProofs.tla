------------------------------ MODULE AuthProofs ------------------------------
(***************************************************************************)
(* Theorems about AuthSession, for any tabs, requests and bounds.          *)
(***************************************************************************)
EXTENDS AuthSession, SequenceTheorems, TLAPS

-----------------------------------------------------------------------------
(* The rows of the refresh tokens *)

\* What a refresh in the server's hands knows of its token is a row of the table.
CallsKnown ==
    \A t \in Tabs :
        /\ refresh[t].cookie <= Len(tokens)
        /\ refresh[t].new <= Len(tokens)
        /\ (refresh[t].at = "read" /\ refresh[t].seen # "missing") => refresh[t].cookie # 0

TypeInv == TypeOK /\ CallsKnown

\* A row keeps its parent, and a revoked one stays exactly as it is.
Ages(old, new) ==
    /\ new.parent = old.parent
    /\ old.status \notin Unrevoked => new = old

\* The table keeps its rows and has room for them.
Grows ==
    /\ tokens' \in Seq(Token)
    /\ Len(tokens) <= Len(tokens')
    /\ Len(tokens') <= MaxTokens
    /\ \A i \in 1 .. Len(tokens) : Ages(tokens[i], tokens'[i])

\* Rewriting every row by one that ages it.
LEMMA Rewritten ==
  ASSUME TypeOK, DOMAIN tokens' = 1 .. Len(tokens), tokens' = [i \in DOMAIN tokens |-> tokens'[i]],
         \A i \in 1 .. Len(tokens) : tokens'[i] \in Token /\ Ages(tokens[i], tokens'[i])
  PROVE  Grows /\ Len(tokens') = Len(tokens)
<1>1. tokens \in Seq(Token) /\ Len(tokens) \in Nat /\ Len(tokens) <= MaxTokens
  BY LenProperties DEF TypeOK
<1>2. tokens' \in [1 .. Len(tokens) -> Token]
  OBVIOUS
<1>3. tokens' \in Seq(Token)
  BY <1>1, <1>2, SeqDef
<1>4. Len(tokens') = Len(tokens)
  BY <1>1, <1>2, <1>3, LenProperties
<1> QED
  BY <1>1, <1>3, <1>4 DEF Grows

\* A row that is revoked, if it was not yet, for any reason.
LEMMA RevokedRow ==
  ASSUME NEW row \in Token, NEW why \in {"rotated", "revoked"}
  PROVE  /\ Revoked(row, why) \in Token
         /\ Ages(row, Revoked(row, why))
         /\ Revoked(row, why).status \notin Unrevoked
BY DEF Token, Revoked, Ages, Unrevoked

\* Appending a row.
LEMMA Appended ==
  ASSUME TypeOK, NEW s \in Seq(Token), NEW row \in Token, Len(s) = Len(tokens),
         Len(tokens) < MaxTokens, tokens' = Append(s, row),
         \A i \in 1 .. Len(tokens) : Ages(tokens[i], s[i])
  PROVE  /\ Grows
         /\ Len(tokens') = Len(tokens) + 1
         /\ \A i \in 1 .. Len(tokens) : tokens'[i] = s[i]
         /\ tokens'[Len(tokens) + 1] = row
<1>1. Len(tokens) \in Nat
  BY LenProperties DEF TypeOK
<1>2. /\ tokens' \in Seq(Token)
      /\ Len(tokens') = Len(tokens) + 1
      /\ \A i \in 1 .. Len(tokens) : tokens'[i] = s[i]
      /\ tokens'[Len(tokens) + 1] = row
  BY AppendProperties
<1>3. Len(tokens) + 1 <= MaxTokens
  BY <1>1, TokensAssumption
<1> QED
  BY <1>1, <1>2, <1>3 DEF Grows

\* The rows a step adds descend from none, or from a token that is revoked.
Descends ==
    \A i \in 1 .. Len(tokens') :
        (i > Len(tokens) /\ tokens'[i].parent # 0) =>
            /\ tokens'[i].parent < i
            /\ tokens'[tokens'[i].parent].status \notin Unrevoked

TableStep == Grows /\ Descends

\* Nothing happens to the table.
LEMMA TableKept == TypeOK /\ UNCHANGED tokens => TableStep
<1> SUFFICES ASSUME TypeOK, UNCHANGED tokens PROVE TableStep
  OBVIOUS
<1>1. tokens \in Seq(Token) /\ Len(tokens) \in Nat /\ Len(tokens) <= MaxTokens
  BY LenProperties DEF TypeOK
<1> QED
  BY <1>1 DEF TableStep, Grows, Descends, Ages

\* A successful login.
LEMMA TableIssued ==
  ASSUME TypeOK, IssueToken
  PROVE  TableStep /\ Len(tokens') = Len(tokens) + 1 /\ tokens'[Len(tokens) + 1] = Active(0)
<1>1. tokens \in Seq(Token) /\ Len(tokens) \in Nat
  BY LenProperties DEF TypeOK
<1>2. Active(0) \in Token
  BY TokensAssumption DEF Active, Token, Cookies, Unrevoked
<1>3. /\ Grows
      /\ Len(tokens') = Len(tokens) + 1
      /\ tokens'[Len(tokens) + 1] = Active(0)
  BY <1>1, <1>2, Appended DEF IssueToken, Ages
<1>4. Descends
  BY <1>1, <1>3 DEF Descends, Active
<1> QED
  BY <1>3, <1>4 DEF TableStep

\* A rewritten table has no new rows.
LEMMA TableRewritten ==
  ASSUME TypeOK, Grows, Len(tokens') = Len(tokens) PROVE TableStep
<1>1. Len(tokens) \in Nat
  BY LenProperties DEF TypeOK
<1> QED
  BY <1>1 DEF TableStep, Descends

\* A rotation: the row is revoked and its successor added.
LEMMA TableRotated ==
  ASSUME TypeInv, NEW t \in Tabs, RotateRefreshToken(t)
  PROVE  /\ TableStep
         /\ Len(tokens') = Len(tokens) + 1
         /\ tokens'[Len(tokens) + 1] = Active(refresh[t].cookie)
         /\ \A i \in 1 .. Len(tokens) : i # refresh[t].cookie => tokens'[i] = tokens[i]
<1> DEFINE c == refresh[t].cookie
           s == [tokens EXCEPT ![c] = Revoked(@, "rotated")]
<1>1. tokens \in Seq(Token) /\ Len(tokens) \in Nat /\ Len(tokens) <= MaxTokens /\ MaxTokens \in Nat
  BY TokensAssumption, LenProperties DEF TypeInv, TypeOK
<1>2. c \in 1 .. Len(tokens) /\ c \in Cookies
  BY <1>1 DEF TypeInv, TypeOK, CallsKnown, RefreshCall, RotateRefreshToken, Cookies
<1>3. tokens[c] \in Token
  BY <1>1, <1>2, ElementOfSeq
<1>4. /\ Revoked(tokens[c], "rotated") \in Token
      /\ Ages(tokens[c], Revoked(tokens[c], "rotated"))
      /\ Revoked(tokens[c], "rotated").status \notin Unrevoked
  BY <1>3, RevokedRow
<1>5. s = [tokens EXCEPT ![c] = Revoked(tokens[c], "rotated")]
  OBVIOUS
<1>6. /\ s \in Seq(Token)
      /\ Len(s) = Len(tokens)
      /\ \A i \in 1 .. Len(tokens) : s[i] = IF i = c THEN Revoked(tokens[c], "rotated") ELSE tokens[i]
  BY <1>1, <1>2, <1>4, <1>5, ExceptSeq
<1>7. \A i \in 1 .. Len(tokens) : Ages(tokens[i], s[i])
  BY <1>4, <1>6 DEF Ages
<1>8. Active(c) \in Token
  BY <1>2 DEF Active, Token, Unrevoked
<1>9. tokens' = Append(s, Active(c)) /\ Len(tokens) < MaxTokens
  BY DEF RotateRefreshToken
<1>10. /\ Grows
       /\ Len(tokens') = Len(tokens) + 1
       /\ \A i \in 1 .. Len(tokens) : tokens'[i] = s[i]
       /\ tokens'[Len(tokens) + 1] = Active(c)
  BY <1>6, <1>7, <1>8, <1>9, Appended DEF TypeInv
<1>11. Descends
  <2>1. tokens'[c] = Revoked(tokens[c], "rotated")
    BY <1>2, <1>6, <1>10
  <2> QED
    BY <1>1, <1>2, <1>4, <1>10, <2>1 DEF Descends, Active
<1> QED
  BY <1>6, <1>10, <1>11 DEF TableStep

\* The three other handlers that revoke rows.
LEMMA TableRevoked ==
  ASSUME TypeInv, NEW t \in Tabs, DetectReuse(t) \/ RevokeExpired(t) \/ ServeLogout(t)
  PROVE  /\ TableStep
         /\ Len(tokens') = Len(tokens)
         /\ \A i \in 1 .. Len(tokens) : tokens'[i] \in {tokens[i], Revoked(tokens[i], "revoked")}
<1>1. tokens \in Seq(Token) /\ Len(tokens) \in Nat /\ DOMAIN tokens = 1 .. Len(tokens)
  BY LenProperties DEF TypeInv, TypeOK
<1>2. /\ DOMAIN tokens' = 1 .. Len(tokens)
      /\ tokens' = [i \in DOMAIN tokens |-> tokens'[i]]
      /\ \A i \in 1 .. Len(tokens) : tokens'[i] \in {tokens[i], Revoked(tokens[i], "revoked")}
  <2>1. CASE DetectReuse(t)
    BY <1>1, <2>1 DEF DetectReuse
  <2>2. CASE RevokeExpired(t)
    BY <1>1, <2>2 DEF RevokeExpired
  <2>3. CASE ServeLogout(t)
    BY <1>1, <2>3 DEF ServeLogout
  <2> QED
    BY <2>1, <2>2, <2>3
<1>3. \A i \in 1 .. Len(tokens) : tokens'[i] \in Token /\ Ages(tokens[i], tokens'[i])
  BY <1>1, <1>2, ElementOfSeq, RevokedRow DEF Ages
<1> QED
  BY <1>2, <1>3, Rewritten, TableRewritten DEF TypeInv

\* A token that lapses.
LEMMA TableLapsed ==
  ASSUME TypeInv, NEW i \in DOMAIN tokens, ExpireRefreshToken(i)
  PROVE  /\ TableStep
         /\ Len(tokens') = Len(tokens)
         /\ \A j \in 1 .. Len(tokens) : tokens'[j] = tokens[j] \/ tokens'[j].status = "lapsed"
<1>1. tokens \in Seq(Token) /\ Len(tokens) \in Nat /\ DOMAIN tokens = 1 .. Len(tokens)
  BY LenProperties DEF TypeInv, TypeOK
<1>2. \A j \in 1 .. Len(tokens) : tokens[j] \in Token
  BY <1>1, ElementOfSeq
<1>3. /\ DOMAIN tokens' = 1 .. Len(tokens)
      /\ tokens' = [j \in DOMAIN tokens |-> tokens'[j]]
      /\ \A j \in 1 .. Len(tokens) :
            tokens'[j] = IF j = i THEN [tokens[j] EXCEPT !.status = "lapsed"] ELSE tokens[j]
  BY <1>1, <1>2 DEF ExpireRefreshToken
<1>4. [tokens[i] EXCEPT !.status = "lapsed"] \in Token
  BY <1>1, <1>2 DEF Token, Unrevoked
<1>5. Ages(tokens[i], [tokens[i] EXCEPT !.status = "lapsed"])
  BY <1>1, <1>2 DEF Ages, Token, Unrevoked, ExpireRefreshToken
<1>6. \A j \in 1 .. Len(tokens) : tokens'[j] \in Token /\ Ages(tokens[j], tokens'[j])
  BY <1>1, <1>2, <1>3, <1>4, <1>5 DEF Ages
<1>7. \A j \in 1 .. Len(tokens) : tokens'[j] = tokens[j] \/ tokens'[j].status = "lapsed"
  BY <1>1, <1>2, <1>3 DEF Token
<1> QED
  BY <1>3, <1>6, <1>7, Rewritten, TableRewritten DEF TypeInv

LEMMA TableSteps == TypeInv /\ [Next]_vars => TableStep
<1> SUFFICES ASSUME TypeInv, [Next]_vars PROVE TableStep
  OBVIOUS
<1>1. UNCHANGED tokens => TableStep
  BY TableKept DEF TypeInv
<1>2. CASE UNCHANGED vars
  BY <1>1, <1>2 DEF vars
<1>3. ASSUME NEW i \in DOMAIN tokens, ExpireRefreshToken(i) PROVE TableStep
  BY <1>3, TableLapsed
<1>4. ASSUME NEW t \in Tabs, ServeRefresh(t) \/ ServeLogout(t) PROVE TableStep
  <2>1. CASE ReadRefreshToken(t) \/ RefuseRefresh(t)
    BY <1>1, <2>1 DEF ReadRefreshToken, RefuseRefresh
  <2>2. CASE DetectReuse(t) \/ RevokeExpired(t) \/ ServeLogout(t)
    BY <2>2, TableRevoked
  <2>3. CASE RotateRefreshToken(t)
    BY <2>3, TableRotated
  <2> QED
    BY <1>4, <2>1, <2>2, <2>3 DEF ServeRefresh
<1>5. ASSUME NEW t \in Tabs, NEW r \in Requests, SendRequest(t, r) \/ Respond(t, r)
      PROVE  TableStep
  BY <1>1, <1>5 DEF SendRequest, Respond, RequestAnswered, RequestFailed, Settle,
                    QueueRequest, StartRefresh
<1>6. ASSUME NEW t \in Tabs, SignIn(t) PROVE TableStep
  BY <1>6, TableIssued DEF SignIn, TypeInv
<1>7. ASSUME NEW t \in Tabs, EndRefresh(t) \/ Reload(t) PROVE TableStep
  BY <1>1, <1>7 DEF EndRefresh, RefreshSucceeded, Succeed, RefreshRefused, RefreshLost, GiveUp,
                    Reload, Load
<1>8. ASSUME NEW t \in Tabs,
             SignOut(t) \/ LogoutAnswered(t) \/ LogoutLost(t) \/ ExpireAccessToken(t)
      PROVE  TableStep
  BY <1>1, <1>8 DEF SignOut, LogoutAnswered, LogoutLost, LeaveSession, ExpireAccessToken
<1> QED
  BY <1>2, <1>3, <1>4, <1>5, <1>6, <1>7, <1>8 DEF Next, ServerNext, ClientNext

-----------------------------------------------------------------------------
(* Type correctness *)

\* The part of the types that a tab keeps for itself.
TabsTyped ==
    /\ store \in [Tabs -> Store]
    /\ page \in [Tabs -> {"app", "login"}]
    /\ requests \in [Tabs -> [Requests -> Request]]
    /\ isRefreshing \in [Tabs -> BOOLEAN]
    /\ logout \in [Tabs -> LogoutCall]

\* A call to /auth/refresh, and what it knows of a table of n rows.
CallTyped(call, n) ==
    /\ call \in RefreshCall
    /\ call.cookie <= n
    /\ call.new <= n
    /\ (call.at = "read" /\ call.seen # "missing") => call.cookie # 0

CallsTyped == refresh \in [Tabs -> RefreshCall] /\ \A t \in Tabs : CallTyped(refresh[t], Len(tokens))

LEMMA TypeParts ==
  TypeInv <=> /\ tokens \in Seq(Token) /\ Len(tokens) <= MaxTokens
              /\ cookie \in 0 .. Len(tokens)
              /\ losses \in 0 .. MaxLosses
              /\ TabsTyped /\ CallsTyped
BY DEF TypeInv, TypeOK, CallsKnown, TabsTyped, CallsTyped, CallTyped

LEMMA TypeInit == Init => TypeInv
<1> SUFFICES ASSUME Init PROVE TypeInv
  OBVIOUS
<1>1. tokens \in Seq(Token) /\ Len(tokens) = 0
  BY EmptySeq DEF Init
<1>2. FreshRequests \in [Requests -> Request]
  BY DEF FreshRequests, Sent, Idle, Request, Access
<1>3. TabsTyped
  BY <1>2, TokensAssumption DEF Init, TabsTyped, FreshStore, Store, Access, NoLogout, LogoutCall, Cookies
<1>4. CallsTyped
  BY <1>1, TokensAssumption DEF Init, CallsTyped, CallTyped, NoRefresh, RefreshCall, Cookies
<1> QED
  BY <1>1, <1>3, <1>4, TypeParts, TokensAssumption DEF Init

\* A call that stays as it was is typed in the table that has grown.
LEMMA CallsKept ==
  ASSUME TypeInv, TableStep, UNCHANGED refresh PROVE CallsTyped'
<1>1. Len(tokens) \in Nat /\ Len(tokens') \in Nat /\ Len(tokens) <= Len(tokens')
  BY LenProperties DEF TypeInv, TypeOK, TableStep, Grows
<1> QED
  BY <1>1, TypeParts DEF CallsTyped, CallTyped, RefreshCall, Cookies

\* A call that a step replaces.
LEMMA CallReplaced ==
  ASSUME TypeInv, TableStep, NEW t \in Tabs, NEW call,
         refresh' = [refresh EXCEPT ![t] = call], CallTyped(call, Len(tokens'))
  PROVE  CallsTyped'
<1>1. Len(tokens) \in Nat /\ Len(tokens') \in Nat /\ Len(tokens) <= Len(tokens')
  BY LenProperties DEF TypeInv, TypeOK, TableStep, Grows
<1> QED
  BY <1>1, TypeParts DEF CallsTyped, CallTyped, RefreshCall, Cookies

\* The values a tab's store, requests and calls are set to.
LEMMA Values ==
  /\ Idle \in Request /\ Cleared \in Store /\ FreshStore \in Store
  /\ FreshRequests \in [Requests -> Request]
  /\ \A access \in Access : SignedIn(access) \in Store
  /\ \A access \in Access, retry \in BOOLEAN : Sent(access, retry) \in Request
  /\ NoLogout \in LogoutCall
  /\ NoRefresh \in RefreshCall
<1>1. 0 \in Cookies
  BY TokensAssumption DEF Cookies
<1>2. FreshRequests \in [Requests -> Request]
  BY DEF FreshRequests, Sent, Idle, Request, Access
<1>3. NoRefresh \in RefreshCall
  BY <1>1 DEF NoRefresh, RefreshCall
<1> QED
  BY <1>1, <1>2, <1>3 DEF Idle, Request, Cleared, FreshStore, Store, SignedIn, Sent, Access, NoLogout, LogoutCall

\* A tab that starts over, and a tab whose refresh is given up.
LEMMA NoCall ==
  ASSUME TypeInv, TableStep, NEW t \in Tabs, refresh' = [refresh EXCEPT ![t] = NoRefresh]
  PROVE  CallsTyped'
<1>1. Len(tokens') \in Nat
  BY LenProperties DEF TableStep, Grows
<1>2. CallTyped(NoRefresh, Len(tokens'))
  BY <1>1, Values DEF CallTyped, NoRefresh
<1> QED
  BY <1>2, CallReplaced

LEMMA LoadType ==
  ASSUME TypeInv, TableStep, NEW t \in Tabs, NEW where \in {"app", "login"}, Load(t, where)
  PROVE  TabsTyped' /\ CallsTyped'
<1>1. TabsTyped'
  BY Values, TypeParts DEF Load, TabsTyped
<1> QED
  BY <1>1, NoCall DEF Load

LEMMA GiveUpType ==
  ASSUME TypeInv, TableStep, NEW t \in Tabs, GiveUp(t)
  PROVE  TabsTyped' /\ CallsTyped'
<1>1. CASE Load(t, "login")
  BY <1>1, LoadType
<1>2. CASE ~Load(t, "login")
  <2>1. \A u \in Tabs : requests[u] \in [Requests -> Request]
    BY TypeParts DEF TabsTyped
  <2>2. [q \in Requests |-> IF requests[t][q].state \in Waiting THEN Idle ELSE requests[t][q]]
            \in [Requests -> Request]
    BY <2>1, Values
  <2>3. requests' \in [Tabs -> [Requests -> Request]]
    BY <1>2, <2>2, TypeParts DEF GiveUp, TabsTyped
  <2>4. store' \in [Tabs -> Store] /\ isRefreshing' \in [Tabs -> BOOLEAN]
    BY <1>2, Values, TypeParts DEF GiveUp, TabsTyped
  <2>5. TabsTyped'
    BY <1>2, <2>3, <2>4, TypeParts DEF GiveUp, TabsTyped
  <2> QED
    BY <1>2, <2>5, NoCall DEF GiveUp
<1> QED
  BY <1>1, <1>2

\* The actions of a tab that leave its call to /auth/refresh alone.
LEMMA TabType ==
  ASSUME TypeInv, NEW t \in Tabs, NEW r \in Requests,
         \/ SendRequest(t, r) \/ RequestAnswered(t, r) \/ RequestFailed(t, r) \/ QueueRequest(t, r)
         \/ SignIn(t) \/ SignOut(t) \/ LogoutAnswered(t) \/ LogoutLost(t) \/ ExpireAccessToken(t)
  PROVE  TabsTyped'
<1> USE TypeParts DEF TabsTyped
<1>1. \A u \in Tabs : store[u].token \in Access /\ requests[u] \in [Requests -> Request]
  BY DEF Store
<1>2. CASE SendRequest(t, r)
  BY <1>1, <1>2, Values DEF SendRequest
<1>3. ASSUME NEW answered \in BOOLEAN, Settle(t, r, answered) PROVE TabsTyped'
  <2>1. /\ SignedIn(store[t].token) \in Store
        /\ [store[t] EXCEPT !.loading = FALSE] \in Store
    BY <1>1, Values DEF Store
  <2>2. requests' \in [Tabs -> [Requests -> Request]]
    BY <1>1, <1>3, Values DEF Settle
  <2>3. store' \in [Tabs -> Store] /\ page' \in [Tabs -> {"app", "login"}]
    BY <1>3, <2>1 DEF Settle, SetStore
  <2> QED
    BY <1>3, <2>2, <2>3 DEF Settle
<1>4. CASE RequestAnswered(t, r) \/ RequestFailed(t, r)
  BY <1>3, <1>4 DEF RequestAnswered, RequestFailed
<1>5. CASE QueueRequest(t, r)
  <2> DEFINE request == requests[t][r]
  <2>0. request \in Request
    BY <1>1
  <2> HIDE DEF request
  <2>1. [request EXCEPT !.state = "queued"] \in Request
    BY <2>0 DEF Request
  <2> USE DEF request
  <2>2. requests' = [requests EXCEPT ![t] = [requests[t] EXCEPT
                        ![r] = [requests[t][r] EXCEPT !.state = "queued"]]]
    BY <1>5 DEF QueueRequest
  <2>3. requests' \in [Tabs -> [Requests -> Request]]
    BY <1>1, <2>1, <2>2
  <2> QED
    BY <1>5, <2>3 DEF QueueRequest
<1>6. CASE SignIn(t)
  <2>1. SignedIn("live") \in Store
    BY Values DEF Access
  <2> QED
    BY <1>6, <2>1 DEF SignIn, SetStore
<1>7. CASE SignOut(t)
  <2>1. [at |-> "sent", cookie |-> cookie] \in LogoutCall
    BY LenProperties, TokensAssumption DEF LogoutCall, Cookies
  <2> QED
    BY <1>7, <2>1 DEF SignOut, tabVars
<1>8. CASE LogoutAnswered(t) \/ LogoutLost(t)
  <2>1. Sent("none", FALSE) \in Request
    BY Values DEF Access
  <2>2. LeaveSession(t)
    BY <1>8 DEF LogoutAnswered, LogoutLost
  <2>3. requests' = [requests EXCEPT ![t] = [requests[t] EXCEPT
            ![Check] = IF requests[t][Check].state = "idle" THEN Sent("none", FALSE)
                       ELSE requests[t][Check]]]
    BY <2>2 DEF LeaveSession
  <2>4. requests' \in [Tabs -> [Requests -> Request]]
    BY <1>1, <2>1, <2>3, RequestsAssumption
  <2>5. /\ store' = [store EXCEPT ![t] = Cleared]
        /\ page' \in [Tabs -> {"app", "login"}]
        /\ logout' = [logout EXCEPT ![t] = NoLogout]
    BY <2>2 DEF LeaveSession, SetStore
  <2>6. store' \in [Tabs -> Store] /\ logout' \in [Tabs -> LogoutCall]
    BY <2>5, Values
  <2> QED
    BY <2>2, <2>4, <2>5, <2>6 DEF LeaveSession
<1>9. CASE ExpireAccessToken(t)
  <2>1. \A access \in Access : Stale(access) \in Access
    BY DEF Stale, Access
  <2>2. /\ store' = [store EXCEPT ![t] = [store[t] EXCEPT !.token = Stale(store[t].token)]]
        /\ requests' = [requests EXCEPT ![t] = [q \in Requests |->
              [requests[t][q] EXCEPT !.token = Stale(requests[t][q].token)]]]
    BY <1>9 DEF ExpireAccessToken
  <2>3. /\ [store[t] EXCEPT !.token = Stale(store[t].token)] \in Store
        /\ \A q \in Requests :
              [requests[t][q] EXCEPT !.token = Stale(requests[t][q].token)] \in Request
    <3>1. ASSUME NEW row \in Request
          PROVE  [row EXCEPT !.token = Stale(row.token)] \in Request
      BY <2>1 DEF Request
    <3>2. ASSUME NEW row \in Store PROVE [row EXCEPT !.token = Stale(row.token)] \in Store
      BY <2>1 DEF Store
    <3> QED
      BY <1>1, <3>1, <3>2
  <2>4. store' \in [Tabs -> Store] /\ requests' \in [Tabs -> [Requests -> Request]]
    BY <2>2, <2>3
  <2> QED
    BY <1>9, <2>4 DEF ExpireAccessToken
<1> QED
  BY <1>2, <1>4, <1>5, <1>6, <1>7, <1>8, <1>9

\* A request that starts a refresh.
LEMMA StartType ==
  ASSUME TypeInv, TableStep, NEW t \in Tabs, NEW r \in Requests, StartRefresh(t, r)
  PROVE  TabsTyped' /\ CallsTyped'
<1>1. requests[t][r] \in Request /\ requests[t] \in [Requests -> Request]
  BY TypeParts DEF TabsTyped
<1>2. ASSUME NEW row \in Request
      PROVE  [row EXCEPT !.state = "leading", !.retry = TRUE] \in Request
  BY <1>2 DEF Request
<1>3. TabsTyped'
  BY <1>1, <1>2, TypeParts DEF StartRefresh, TabsTyped
<1> DEFINE call == [NoRefresh EXCEPT !.at = "sent", !.cookie = cookie]
<1>4. Len(tokens) \in Nat /\ cookie \in 0 .. Len(tokens) /\ tokens' = tokens
  BY LenProperties, TypeParts DEF StartRefresh
<1>5. cookie \in Cookies
  BY <1>4, TypeParts, TokensAssumption DEF Cookies
<1>6. /\ call \in RefreshCall
      /\ call.cookie = cookie /\ call.new = 0 /\ call.at = "sent"
  BY <1>5, Values DEF NoRefresh, RefreshCall
<1>7. CallTyped(call, Len(tokens'))
  BY <1>4, <1>6 DEF CallTyped
<1> QED
  BY <1>3, <1>7, CallReplaced DEF StartRefresh

\* What the server does with a refresh.
LEMMA ServeType ==
  ASSUME TypeInv, TableStep, NEW t \in Tabs, ServeRefresh(t)
  PROVE  CallsTyped' /\ UNCHANGED <<cookie, losses, tabVars, logout>>
<1> DEFINE c == refresh[t]
<1>1. c \in RefreshCall /\ c.cookie <= Len(tokens) /\ c.new <= Len(tokens)
  BY TypeParts DEF CallsTyped, CallTyped
<1>2. /\ Len(tokens) \in Nat /\ Len(tokens') \in Nat /\ MaxTokens \in Nat
      /\ Len(tokens) <= Len(tokens') /\ Len(tokens') <= MaxTokens
  BY TokensAssumption, TypeParts, LenProperties DEF TableStep, Grows
<1>3. CASE ReadRefreshToken(t)
  <2> DEFINE seen == IF c.cookie = 0 THEN "missing" ELSE tokens[c.cookie].status
             call == [c EXCEPT !.at = "read", !.seen = seen]
  <2>1. c.cookie # 0 => tokens[c.cookie] \in Token
    BY <1>1, <1>2, TypeParts, ElementOfSeq DEF RefreshCall, Cookies
  <2>2. seen \in Unrevoked \cup {"rotated", "revoked", "missing"} /\ (seen # "missing" => c.cookie # 0)
    BY <2>1 DEF Token
  <2>3. refresh' = [refresh EXCEPT ![t] = call] /\ tokens' = tokens
    BY <1>3 DEF ReadRefreshToken
  <2> HIDE DEF seen
  <2>4. call \in RefreshCall /\ call.cookie = c.cookie /\ call.new = c.new /\ call.seen = seen
    BY <1>1, <2>2 DEF RefreshCall
  <2>5. CallTyped(call, Len(tokens'))
    BY <1>1, <1>2, <2>2, <2>3, <2>4 DEF CallTyped
  <2> QED
    BY <1>3, <2>3, <2>5, CallReplaced DEF ReadRefreshToken
<1>4. ASSUME NEW new \in 0 .. Len(tokens'), Finish(t, new)
      PROVE  CallsTyped' /\ UNCHANGED <<cookie, losses, tabVars, logout>>
  <2> DEFINE call == [c EXCEPT !.at = "done", !.new = new]
  <2>1. new \in Cookies
    BY <1>2 DEF Cookies
  <2>2. /\ call \in RefreshCall /\ call.cookie = c.cookie /\ call.new = new /\ call.at = "done"
    BY <1>1, <2>1 DEF RefreshCall
  <2>3. CallTyped(call, Len(tokens'))
    BY <1>1, <1>2, <2>2 DEF CallTyped, RefreshCall, Cookies
  <2>4. refresh' = [refresh EXCEPT ![t] = call]
    BY <1>4 DEF Finish
  <2> QED
    BY <1>4, <2>3, <2>4, CallReplaced DEF Finish
<1>5. CASE RefuseRefresh(t) \/ DetectReuse(t) \/ RevokeExpired(t)
  <2>1. Finish(t, 0)
    BY <1>5 DEF RefuseRefresh, DetectReuse, RevokeExpired
  <2> QED
    BY <1>2, <1>4, <2>1
<1>6. CASE RotateRefreshToken(t)
  <2>1. Finish(t, Len(tokens) + 1)
    BY <1>6 DEF RotateRefreshToken
  <2>2. Len(tokens') = Len(tokens) + 1
    BY <1>6, TableRotated
  <2>3. Len(tokens) + 1 \in 0 .. Len(tokens')
    BY <1>2, <2>2
  <2> QED
    BY <1>4, <2>1, <2>3
<1> QED
  BY <1>3, <1>5, <1>6 DEF ServeRefresh

\* The answer to a refresh, or its loss.
LEMMA EndType ==
  ASSUME TypeInv, TableStep, NEW t \in Tabs, EndRefresh(t)
  PROVE  /\ TabsTyped' /\ CallsTyped'
         /\ cookie' \in 0 .. Len(tokens') /\ losses' \in 0 .. MaxLosses
<1>1. /\ Len(tokens) \in Nat /\ cookie \in 0 .. Len(tokens) /\ losses \in 0 .. MaxLosses
      /\ MaxLosses \in Nat
  BY LenProperties, TypeParts, TokensAssumption
<1>2. CASE RefreshSucceeded(t)
  <2>1. Succeed(t, refresh[t].new, FALSE)
    BY <1>2 DEF RefreshSucceeded
  <2>2. requests[t] \in [Requests -> Request] /\ \A r \in Requests : requests[t][r].retry \in BOOLEAN
    BY TypeParts DEF TabsTyped, Request
  <2>3. Resend(t) \in [Requests -> Request]
    BY <2>2, Values DEF Resend, Access
  <2>4. \A row \in Store : [row EXCEPT !.token = "live"] \in Store
    BY DEF Store, Access
  <2>5. TabsTyped'
    BY <2>1, <2>3, <2>4, TypeParts DEF Succeed, TabsTyped
  <2>6. refresh[t].new \in 0 .. Len(tokens)
    BY <1>1, TypeParts DEF CallsTyped, CallTyped, RefreshCall, Cookies
  <2> QED
    BY <1>1, <2>1, <2>5, <2>6, NoCall DEF Succeed
<1>3. CASE RefreshRefused(t) \/ RefreshLost(t)
  <2>1. GiveUp(t) /\ losses' \in 0 .. MaxLosses
    BY <1>1, <1>3 DEF RefreshRefused, RefreshLost
  <2>2. UNCHANGED <<tokens, cookie>>
    BY <2>1 DEF GiveUp, Load
  <2> QED
    BY <1>1, <2>1, <2>2, GiveUpType
<1> QED
  BY <1>2, <1>3 DEF EndRefresh

LEMMA TypeStep == TypeInv /\ [Next]_vars => TypeInv'
<1> SUFFICES ASSUME TypeInv, [Next]_vars PROVE TypeInv'
  OBVIOUS
<1>1. TableStep
  BY TableSteps
<1>2. /\ Len(tokens) \in Nat /\ Len(tokens') \in Nat /\ Len(tokens) <= Len(tokens')
      /\ tokens' \in Seq(Token) /\ Len(tokens') <= MaxTokens
      /\ cookie \in 0 .. Len(tokens) /\ losses \in 0 .. MaxLosses /\ MaxLosses \in Nat
  BY <1>1, LenProperties, TypeParts, TokensAssumption DEF TableStep, Grows
<1>3. ASSUME TabsTyped', CallsTyped', cookie' \in 0 .. Len(tokens'), losses' \in 0 .. MaxLosses
      PROVE  TypeInv'
  BY <1>2, <1>3, TypeParts DEF TypeInv, TypeOK, CallsKnown, TabsTyped, CallsTyped, CallTyped
<1>4. cookie' \in {0, cookie} => cookie' \in 0 .. Len(tokens')
  BY <1>2
<1>5. UNCHANGED <<store, page, requests, isRefreshing, logout>> => TabsTyped'
  BY TypeParts DEF TabsTyped
<1>6. CASE UNCHANGED vars
  BY <1>1, <1>2, <1>3, <1>4, <1>5, <1>6, CallsKept DEF vars, tabVars
<1>7. ASSUME NEW i \in DOMAIN tokens, ExpireRefreshToken(i) PROVE TypeInv'
  BY <1>1, <1>2, <1>3, <1>4, <1>5, <1>7, CallsKept DEF ExpireRefreshToken, tabVars
<1>8. ASSUME NEW t \in Tabs, ServeRefresh(t) PROVE TypeInv'
  BY <1>1, <1>2, <1>3, <1>4, <1>5, <1>8, ServeType DEF tabVars
<1>9. ASSUME NEW t \in Tabs, ServeLogout(t) PROVE TypeInv'
  <2>1. \A call \in LogoutCall : [call EXCEPT !.at = "served"] \in LogoutCall
    BY DEF LogoutCall
  <2>2. TabsTyped'
    BY <1>9, <2>1, TypeParts DEF ServeLogout, TabsTyped, tabVars
  <2> QED
    BY <1>1, <1>2, <1>3, <1>4, <1>9, <2>2, CallsKept DEF ServeLogout, tabVars
<1>10. ASSUME NEW t \in Tabs, NEW r \in Requests, SendRequest(t, r) \/ Respond(t, r)
       PROVE  TypeInv'
  <2>1. CASE StartRefresh(t, r)
    BY <1>1, <1>2, <1>3, <1>4, <2>1, StartType DEF StartRefresh
  <2>2. CASE SendRequest(t, r) \/ RequestAnswered(t, r) \/ RequestFailed(t, r) \/ QueueRequest(t, r)
    <3>1. TabsTyped'
      BY <2>2, TabType
    <3>2. UNCHANGED <<cookie, losses, refresh>>
      BY <2>2 DEF SendRequest, RequestAnswered, RequestFailed, Settle, QueueRequest
    <3> QED
      BY <1>1, <1>2, <1>3, <1>4, <3>1, <3>2, CallsKept
  <2> QED
    BY <1>10, <2>1, <2>2 DEF Respond
<1>11. ASSUME NEW t \in Tabs, EndRefresh(t) PROVE TypeInv'
  BY <1>1, <1>3, <1>11, EndType
<1>12. ASSUME NEW t \in Tabs, Reload(t) PROVE TypeInv'
  <2>1. page[t] \in {"app", "login"} /\ Load(t, page[t]) /\ losses' \in 0 .. MaxLosses
    BY <1>2, <1>12, TypeParts DEF Reload, TabsTyped
  <2> QED
    BY <1>1, <1>2, <1>3, <1>4, <2>1, LoadType DEF Load
<1>13. ASSUME NEW t \in Tabs, SignIn(t) PROVE TypeInv'
  <2>1. TabsTyped'
    BY <1>13, RequestsAssumption, TabType
  <2>2. cookie' \in 0 .. Len(tokens')
    BY <1>2, <1>13, TableIssued DEF SignIn, TypeInv
  <2> QED
    BY <1>1, <1>2, <1>3, <1>13, <2>1, <2>2, CallsKept DEF SignIn
<1>14. ASSUME NEW t \in Tabs,
              SignOut(t) \/ LogoutAnswered(t) \/ LogoutLost(t) \/ ExpireAccessToken(t)
       PROVE  TypeInv'
  <2>1. TabsTyped'
    BY <1>14, RequestsAssumption, TabType
  <2>2. cookie' \in {0, cookie} /\ UNCHANGED <<losses, refresh>>
    BY <1>14 DEF SignOut, LogoutAnswered, LogoutLost, LeaveSession, ExpireAccessToken
  <2> QED
    BY <1>1, <1>2, <1>3, <1>4, <2>1, <2>2, CallsKept
<1> QED
  BY <1>6, <1>7, <1>8, <1>9, <1>10, <1>11, <1>12, <1>13, <1>14 DEF Next, ServerNext, ClientNext

\* Every reachable state of the session has the shape of its rows, cookie and calls.
THEOREM TypeCorrect == Spec => []TypeOK
<1>1. TypeInv => TypeOK
  BY DEF TypeInv
<1> QED
  BY <1>1, TypeInit, TypeStep, PTL DEF Spec

-----------------------------------------------------------------------------
(* The requests behind a refresh *)

\* A step that leaves the flag and the call of every tab alone, and makes nothing wait.
LEMMA QueueUndisturbed ==
  ASSUME QueueHasRefresh, UNCHANGED isRefreshing,
         \A t \in Tabs : refresh'[t].at = "none" <=> refresh[t].at = "none",
         \A t \in Tabs, r \in Requests :
            requests'[t][r].state \in Waiting => requests[t][r].state \in Waiting
  PROVE  QueueHasRefresh'
BY DEF QueueHasRefresh

\* A step that changes one tab, and leaves it without a refresh and without a queue.
LEMMA QueueEnded ==
  ASSUME TypeInv, QueueHasRefresh, NEW t \in Tabs, NEW flying \in [Requests -> Request],
         requests' = [requests EXCEPT ![t] = flying],
         \A r \in Requests : flying[r].state \notin Waiting,
         isRefreshing' = [isRefreshing EXCEPT ![t] = FALSE],
         refresh' = [refresh EXCEPT ![t] = NoRefresh]
  PROVE  QueueHasRefresh'
<1>1. \A u \in Tabs : u # t => /\ requests'[u] = requests[u]
                               /\ isRefreshing'[u] = isRefreshing[u]
                               /\ refresh'[u] = refresh[u]
  BY TypeParts DEF TabsTyped, CallsTyped
<1>2. requests'[t] = flying /\ isRefreshing'[t] = FALSE /\ refresh'[t] = NoRefresh
  BY TypeParts DEF TabsTyped, CallsTyped
<1>3. NoRefresh.at = "none"
  BY DEF NoRefresh
<1> QED
  BY <1>1, <1>2, <1>3 DEF QueueHasRefresh

LEMMA QueueStep == TypeInv /\ QueueHasRefresh /\ [Next]_vars => QueueHasRefresh'
<1> SUFFICES ASSUME TypeInv, QueueHasRefresh, [Next]_vars PROVE QueueHasRefresh'
  OBVIOUS
<1> USE DEF Waiting
<1>1. /\ requests \in [Tabs -> [Requests -> Request]]
      /\ isRefreshing \in [Tabs -> BOOLEAN]
      /\ refresh \in [Tabs -> RefreshCall]
  BY TypeParts DEF TabsTyped, CallsTyped
<1>2. UNCHANGED <<isRefreshing, refresh, requests>> => QueueHasRefresh'
  BY DEF QueueHasRefresh
<1>3. CASE UNCHANGED vars
  BY <1>2, <1>3 DEF vars, tabVars
<1>4. ASSUME NEW i \in DOMAIN tokens, ExpireRefreshToken(i) PROVE QueueHasRefresh'
  BY <1>2, <1>4 DEF ExpireRefreshToken, tabVars
<1>5. ASSUME NEW t \in Tabs, ServeRefresh(t) PROVE QueueHasRefresh'
  <2>1. UNCHANGED <<isRefreshing, requests>> /\ refresh[t].at \in {"sent", "read"}
    BY <1>5 DEF ServeRefresh, ReadRefreshToken, RefuseRefresh, DetectReuse, RevokeExpired,
                RotateRefreshToken, Finish, tabVars
  <2>2. /\ \A u \in Tabs : u # t => refresh'[u] = refresh[u]
        /\ refresh'[t].at \in {"read", "done"}
    BY <1>1, <1>5 DEF ServeRefresh, ReadRefreshToken, RefuseRefresh, DetectReuse, RevokeExpired,
                RotateRefreshToken, Finish, RefreshCall
  <2> QED
    BY <2>1, <2>2, QueueUndisturbed
<1>6. ASSUME NEW t \in Tabs, ServeLogout(t) PROVE QueueHasRefresh'
  BY <1>2, <1>6 DEF ServeLogout, tabVars
<1>7. ASSUME NEW t \in Tabs, NEW r \in Requests,
             SendRequest(t, r) \/ RequestAnswered(t, r) \/ RequestFailed(t, r)
      PROVE  QueueHasRefresh'
  <2>1. UNCHANGED <<isRefreshing, refresh>>
    BY <1>7 DEF SendRequest, RequestAnswered, RequestFailed, Settle
  <2>2. \E row : /\ requests' = [requests EXCEPT ![t][r] = row]
                 /\ row.state \in {"idle", "sent"}
    BY <1>7 DEF SendRequest, RequestAnswered, RequestFailed, Settle, Sent, Idle
  <2>3. \A u \in Tabs, q \in Requests :
           requests'[u][q].state \in Waiting => requests[u][q].state \in Waiting
    BY <1>1, <2>2
  <2> QED
    BY <2>1, <2>3, QueueUndisturbed
<1>8. ASSUME NEW t \in Tabs, NEW r \in Requests, QueueRequest(t, r) PROVE QueueHasRefresh'
  <2>1. UNCHANGED <<isRefreshing, refresh>> /\ isRefreshing[t]
    BY <1>8 DEF QueueRequest
  <2>2. \A u \in Tabs : u # t => requests'[u] = requests[u]
    BY <1>1, <1>8 DEF QueueRequest
  <2> QED
    BY <2>1, <2>2 DEF QueueHasRefresh
<1>9. ASSUME NEW t \in Tabs, NEW r \in Requests, StartRefresh(t, r) PROVE QueueHasRefresh'
  <2>1. \A u \in Tabs : u # t => /\ requests'[u] = requests[u]
                                 /\ isRefreshing'[u] = isRefreshing[u]
                                 /\ refresh'[u] = refresh[u]
    BY <1>1, <1>9 DEF StartRefresh
  <2>2. isRefreshing'[t] = TRUE /\ refresh'[t].at = "sent"
    BY <1>1, <1>9 DEF StartRefresh, NoRefresh
  <2> QED
    BY <2>1, <2>2 DEF QueueHasRefresh
<1>10. \A r \in Requests : FreshRequests[r].state \notin Waiting
  BY DEF FreshRequests, Sent, Idle
<1>11. ASSUME NEW t \in Tabs, NEW where, Load(t, where) PROVE QueueHasRefresh'
  BY <1>10, <1>11, QueueEnded, Values DEF Load
<1>12. ASSUME NEW t \in Tabs, GiveUp(t) PROVE QueueHasRefresh'
  <2>1. CASE Load(t, "login")
    BY <1>11, <2>1
  <2>2. CASE ~Load(t, "login")
    <3> DEFINE flying == [r \in Requests |-> IF requests[t][r].state \in Waiting THEN Idle
                                             ELSE requests[t][r]]
    <3>1. flying \in [Requests -> Request] /\ \A r \in Requests : flying[r].state \notin Waiting
      BY <1>1, Values DEF Idle
    <3> QED
      BY <1>12, <2>2, <3>1, QueueEnded DEF GiveUp
  <2> QED
    BY <2>1, <2>2
<1>13. ASSUME NEW t \in Tabs, EndRefresh(t) PROVE QueueHasRefresh'
  <2>1. CASE RefreshSucceeded(t)
    <3>1. \A r \in Requests : Resend(t)[r].state \notin Waiting
      BY DEF Resend, Sent
    <3>2. Resend(t) \in [Requests -> Request]
      <4>1. requests[t] \in [Requests -> Request] /\ \A r \in Requests : requests[t][r].retry \in BOOLEAN
        BY <1>1 DEF Request
      <4> QED
        BY <4>1, Values DEF Resend, Access
    <3> QED
      BY <2>1, <3>1, <3>2, QueueEnded DEF RefreshSucceeded, Succeed
  <2>2. CASE RefreshRefused(t) \/ RefreshLost(t)
    BY <1>12, <2>2 DEF RefreshRefused, RefreshLost
  <2> QED
    BY <1>13, <2>1, <2>2 DEF EndRefresh
<1>14. ASSUME NEW t \in Tabs, Reload(t) PROVE QueueHasRefresh'
  BY <1>11, <1>14 DEF Reload
<1>15. ASSUME NEW t \in Tabs, SignIn(t) \/ SignOut(t) PROVE QueueHasRefresh'
  BY <1>2, <1>15 DEF SignIn, SignOut, tabVars
<1>16. ASSUME NEW t \in Tabs, LogoutAnswered(t) \/ LogoutLost(t) PROVE QueueHasRefresh'
  <2>1. LeaveSession(t)
    BY <1>16 DEF LogoutAnswered, LogoutLost
  <2>2. UNCHANGED <<isRefreshing, refresh>>
    BY <2>1 DEF LeaveSession
  <2>3. \A u \in Tabs, q \in Requests :
           requests'[u][q].state \in Waiting => requests[u][q].state \in Waiting
    BY <1>1, <2>1, RequestsAssumption DEF LeaveSession, Sent
  <2> QED
    BY <2>2, <2>3, QueueUndisturbed
<1>17. ASSUME NEW t \in Tabs, ExpireAccessToken(t) PROVE QueueHasRefresh'
  <2>1. UNCHANGED <<isRefreshing, refresh>>
    BY <1>17 DEF ExpireAccessToken
  <2>2. \A u \in Tabs, q \in Requests : requests'[u][q].state = requests[u][q].state
    BY <1>1, <1>17 DEF ExpireAccessToken, Request
  <2> QED
    BY <2>1, <2>2, QueueUndisturbed
<1> QED
  BY <1>3, <1>4, <1>5, <1>6, <1>7, <1>8, <1>9, <1>13, <1>14, <1>15, <1>16, <1>17
     DEF Next, ServerNext, ClientNext, Respond

LEMMA QueueInit == Init => QueueHasRefresh
<1> SUFFICES ASSUME Init PROVE QueueHasRefresh
  OBVIOUS
<1>1. \A r \in Requests : FreshRequests[r].state \notin Waiting
  BY DEF FreshRequests, Sent, Idle, Waiting
<1> QED
  BY <1>1 DEF Init, QueueHasRefresh, NoRefresh

\* No request waits without a refresh of its tab that will answer it.
THEOREM QueuesHaveRefreshes == Spec => []QueueHasRefresh
<1> QED
  BY QueueInit, TypeInit, TypeStep, QueueStep, PTL DEF Spec

-----------------------------------------------------------------------------
(* The rotated tokens *)

LEMMA LineageStep == TypeInv /\ Lineage /\ [Next]_vars => Lineage'
<1> SUFFICES ASSUME TypeInv, Lineage, [Next]_vars PROVE Lineage'
  OBVIOUS
<1>1. Grows /\ Descends
  BY TableSteps DEF TableStep
<1>2. /\ Len(tokens) \in Nat /\ DOMAIN tokens = 1 .. Len(tokens)
      /\ Len(tokens') \in Nat /\ DOMAIN tokens' = 1 .. Len(tokens')
      /\ \A i \in 1 .. Len(tokens) : tokens[i] \in Token
  BY <1>1, TypeParts, LenProperties, ElementOfSeq DEF Grows
<1> SUFFICES ASSUME NEW i \in 1 .. Len(tokens'), tokens'[i].parent # 0
             PROVE  /\ tokens'[i].parent < i
                    /\ tokens'[tokens'[i].parent].status \notin Unrevoked
  BY <1>2 DEF Lineage
<1>3. CASE i \in 1 .. Len(tokens)
  <2> DEFINE p == tokens[i].parent
  <2>1. tokens'[i].parent = p
    BY <1>1, <1>3 DEF Grows, Ages
  <2>2. p < i /\ tokens[p].status \notin Unrevoked
    BY <1>2, <1>3, <2>1 DEF Lineage
  <2>3. p \in 1 .. Len(tokens)
    BY <1>2, <1>3, <2>1, <2>2, TokensAssumption DEF Token, Cookies
  <2>4. tokens'[p] = tokens[p]
    BY <1>1, <2>2, <2>3 DEF Grows, Ages
  <2> QED
    BY <2>1, <2>2, <2>4
<1>4. CASE i \notin 1 .. Len(tokens)
  BY <1>1, <1>2, <1>4 DEF Descends
<1> QED
  BY <1>3, <1>4

\* No token works beside the successor it was rotated to.
THEOREM SuccessorsReplace == Spec => []Lineage
<1>1. Init => Lineage
  BY DEF Init, Lineage
<1> QED
  BY <1>1, TypeInit, TypeStep, LineageStep, PTL DEF Spec

-----------------------------------------------------------------------------
(* The loader *)

LEMMA LoaderStep == TypeInv /\ LoaderHasCheck /\ [Next]_vars => LoaderHasCheck'
<1> SUFFICES ASSUME TypeInv, LoaderHasCheck, [Next]_vars PROVE LoaderHasCheck'
  OBVIOUS
<1> USE RequestsAssumption
<1>1. /\ requests \in [Tabs -> [Requests -> Request]]
      /\ store \in [Tabs -> Store]
  BY TypeParts DEF TabsTyped
\* A step of one tab: the others keep their loader and their check.
<1>2. ASSUME NEW t \in Tabs,
             \A u \in Tabs : u # t => store'[u] = store[u] /\ requests'[u] = requests[u],
             store'[t].loading => requests'[t][Check].state # "idle"
      PROVE  LoaderHasCheck'
  BY <1>2 DEF LoaderHasCheck
<1>3. UNCHANGED <<store, requests>> => LoaderHasCheck'
  BY DEF LoaderHasCheck
<1>4. CASE UNCHANGED vars
  BY <1>3, <1>4 DEF vars, tabVars
<1>5. ASSUME NEW i \in DOMAIN tokens, ExpireRefreshToken(i) PROVE LoaderHasCheck'
  BY <1>3, <1>5 DEF ExpireRefreshToken, tabVars
<1>6. ASSUME NEW t \in Tabs, ServeRefresh(t) \/ ServeLogout(t) PROVE LoaderHasCheck'
  BY <1>3, <1>6 DEF ServeRefresh, ReadRefreshToken, RefuseRefresh, DetectReuse, RevokeExpired,
                    RotateRefreshToken, Finish, ServeLogout, tabVars
<1>7. ASSUME NEW t \in Tabs, NEW r \in Requests, SendRequest(t, r) PROVE LoaderHasCheck'
  BY <1>1, <1>7 DEF SendRequest, LoaderHasCheck
<1>8. ASSUME NEW t \in Tabs, NEW r \in Requests, NEW answered \in BOOLEAN, Settle(t, r, answered)
      PROVE  LoaderHasCheck'
  <2>1. CASE r = Check
    <3>1. store'[t].loading = FALSE
      BY <1>1, <1>8, <2>1 DEF Settle, SetStore, SignedIn, Store
    <3>2. \A u \in Tabs : u # t => store'[u] = store[u] /\ requests'[u] = requests[u]
      BY <1>1, <1>8, <2>1 DEF Settle, SetStore
    <3> QED
      BY <1>2, <3>1, <3>2
  <2>2. CASE r # Check
    BY <1>1, <1>8, <2>2 DEF Settle, LoaderHasCheck
  <2> QED
    BY <2>1, <2>2
<1>9. ASSUME NEW t \in Tabs, NEW r \in Requests, QueueRequest(t, r) \/ StartRefresh(t, r)
      PROVE  LoaderHasCheck'
  <2>1. UNCHANGED store /\ \A u \in Tabs : u # t => requests'[u] = requests[u]
    BY <1>1, <1>9 DEF QueueRequest, StartRefresh
  <2>2. requests'[t][Check].state = requests[t][Check].state \/ requests'[t][Check].state # "idle"
    <3>1. ASSUME NEW row \in Request
          PROVE  /\ [row EXCEPT !.state = "queued"].state = "queued"
                 /\ [row EXCEPT !.state = "leading", !.retry = TRUE].state = "leading"
      BY DEF Request
    <3>2. requests[t][Check] \in Request
      BY <1>1
    <3>3. CASE QueueRequest(t, r)
      <4>1. requests'[t][Check] \in {requests[t][Check], [requests[t][Check] EXCEPT !.state = "queued"]}
        BY <1>1, <3>3 DEF QueueRequest
      <4> QED
        BY <3>1, <3>2, <4>1
    <3>4. CASE StartRefresh(t, r)
      <4>1. requests' = [requests EXCEPT ![t] = [requests[t] EXCEPT
                ![r] = [requests[t][r] EXCEPT !.state = "leading", !.retry = TRUE]]]
        BY <3>4 DEF StartRefresh
      <4>2. requests'[t][Check] \in {requests[t][Check],
                                    [requests[t][Check] EXCEPT !.state = "leading", !.retry = TRUE]}
        BY <1>1, <4>1
      <4> QED
        BY <3>1, <3>2, <4>2
    <3> QED
      BY <1>9, <3>3, <3>4
  <2> QED
    BY <1>2, <2>1, <2>2 DEF LoaderHasCheck
<1>10. ASSUME NEW t \in Tabs, NEW where, Load(t, where) PROVE LoaderHasCheck'
  <2>1. \A u \in Tabs : u # t => store'[u] = store[u] /\ requests'[u] = requests[u]
    BY <1>1, <1>10 DEF Load
  <2>2. requests'[t][Check].state # "idle"
    BY <1>1, <1>10 DEF Load, FreshRequests, Sent
  <2> QED
    BY <1>2, <2>1, <2>2
<1>11. ASSUME NEW t \in Tabs, GiveUp(t) PROVE LoaderHasCheck'
  <2>1. CASE Load(t, "login")
    BY <1>10, <2>1
  <2>2. CASE ~Load(t, "login")
    <3>1. \A u \in Tabs : u # t => store'[u] = store[u] /\ requests'[u] = requests[u]
      BY <1>1, <1>11, <2>2 DEF GiveUp
    <3>2. store'[t].loading = FALSE
      BY <1>1, <1>11, <2>2 DEF GiveUp, Cleared
    <3> QED
      BY <1>2, <3>1, <3>2
  <2> QED
    BY <2>1, <2>2
<1>12. ASSUME NEW t \in Tabs, EndRefresh(t) PROVE LoaderHasCheck'
  <2>1. CASE RefreshSucceeded(t)
    <3>1. \A u \in Tabs : u # t => store'[u] = store[u] /\ requests'[u] = requests[u]
      BY <1>1, <2>1 DEF RefreshSucceeded, Succeed
    <3>2. store'[t].loading = store[t].loading
      BY <1>1, <2>1 DEF RefreshSucceeded, Succeed, Store
    <3>3. requests'[t] = Resend(t)
      BY <1>1, <2>1 DEF RefreshSucceeded, Succeed
    <3>4. requests[t][Check].state # "idle" => Resend(t)[Check].state # "idle"
      BY DEF Resend, Sent
    <3> QED
      BY <1>2, <3>1, <3>2, <3>3, <3>4 DEF LoaderHasCheck
  <2>2. CASE RefreshRefused(t) \/ RefreshLost(t)
    BY <1>11, <2>2 DEF RefreshRefused, RefreshLost
  <2> QED
    BY <1>12, <2>1, <2>2 DEF EndRefresh
<1>13. ASSUME NEW t \in Tabs, Reload(t) PROVE LoaderHasCheck'
  BY <1>10, <1>13 DEF Reload
<1>14. ASSUME NEW t \in Tabs, SignIn(t) PROVE LoaderHasCheck'
  <2>1. \A u \in Tabs : u # t => store'[u] = store[u] /\ requests'[u] = requests[u]
    BY <1>1, <1>14 DEF SignIn, SetStore
  <2>2. store'[t].loading = FALSE
    BY <1>1, <1>14 DEF SignIn, SetStore, SignedIn
  <2> QED
    BY <1>2, <2>1, <2>2
<1>15. ASSUME NEW t \in Tabs, SignOut(t) PROVE LoaderHasCheck'
  BY <1>3, <1>15 DEF SignOut, tabVars
<1>16. ASSUME NEW t \in Tabs, LeaveSession(t) PROVE LoaderHasCheck'
  <2>1. \A u \in Tabs : u # t => store'[u] = store[u] /\ requests'[u] = requests[u]
    BY <1>1, <1>16 DEF LeaveSession, SetStore
  <2>2. store'[t].loading = FALSE
    BY <1>1, <1>16 DEF LeaveSession, SetStore, Cleared
  <2> QED
    BY <1>2, <2>1, <2>2
<1>17. ASSUME NEW t \in Tabs, ExpireAccessToken(t) PROVE LoaderHasCheck'
  <2>1. \A u \in Tabs : u # t => store'[u] = store[u] /\ requests'[u] = requests[u]
    BY <1>1, <1>17 DEF ExpireAccessToken
  <2>2. store'[t].loading = store[t].loading
    BY <1>1, <1>17 DEF ExpireAccessToken, Store
  <2>3. requests'[t][Check].state = requests[t][Check].state
    BY <1>1, <1>17 DEF ExpireAccessToken, Request
  <2> QED
    BY <1>2, <2>1, <2>2, <2>3 DEF LoaderHasCheck
<1> QED
  BY <1>4, <1>5, <1>6, <1>7, <1>8, <1>9, <1>12, <1>13, <1>14, <1>15, <1>16, <1>17
     DEF Next, ServerNext, ClientNext, Respond, RequestAnswered, RequestFailed,
         LogoutAnswered, LogoutLost

\* No tab shows its loader without the session check that will end it.
THEOREM LoadersEnd == Spec => []LoaderHasCheck
<1>1. Init => LoaderHasCheck
  BY RequestsAssumption DEF Init, LoaderHasCheck, FreshRequests, Sent
<1> QED
  BY <1>1, TypeInit, TypeStep, LoaderStep, PTL DEF Spec

-----------------------------------------------------------------------------
(* The cookie *)

\* A call that was answered with a new token.
Granted(call) == call.at = "done" /\ call.new # 0

\* Until the tab takes it up, nobody knows the token that a refresh has been granted.
GrantsUnknown ==
    \A t \in Tabs : Granted(refresh[t]) =>
        LET n == refresh[t].new IN
            /\ n # cookie
            /\ tokens[n].status # "rotated"
            /\ \A u \in Tabs : refresh[u].cookie # n /\ (u # t => refresh[u].new # n)

\* A cookie that was rotated is about to be replaced, unless an answer was lost.
CookieReplaced ==
    (losses = 0 /\ cookie # 0 /\ tokens[cookie].status = "rotated")
        => \E t \in Tabs : Granted(refresh[t]) /\ refresh[t].cookie = cookie

CookieInv == GrantsUnknown /\ CookieReplaced

\* A step that rotates no row, and by which a tab starts or ends a call without grant,
\* or drops a grant that is lost.
LEMMA CookieQuiet ==
  ASSUME TypeInv, TableStep, CookieInv,
         \A i \in 1 .. Len(tokens) : tokens'[i].status = "rotated" => tokens[i].status = "rotated",
         cookie' \in {0, cookie}, losses' = 0 => losses = 0,
         \A u \in Tabs :
            \/ refresh'[u] = refresh[u]
            \/ /\ ~Granted(refresh'[u])
               /\ losses' = 0 => ~Granted(refresh[u])
               /\ refresh'[u].cookie \in {0, cookie, refresh[u].cookie}
               /\ refresh'[u].new \in {0, refresh[u].new}
  PROVE  CookieInv'
<1>1. /\ Len(tokens) \in Nat /\ cookie \in 0 .. Len(tokens)
      /\ \A u \in Tabs : refresh[u].new \in 0 .. Len(tokens)
  BY LenProperties, TypeParts, TokensAssumption DEF CallsTyped, CallTyped, RefreshCall, Cookies
<1>2. GrantsUnknown'
  <2> SUFFICES ASSUME NEW t \in Tabs, Granted(refresh'[t])
               PROVE  /\ refresh'[t].new # cookie'
                      /\ tokens'[refresh'[t].new].status # "rotated"
                      /\ \A u \in Tabs : /\ refresh'[u].cookie # refresh'[t].new
                                         /\ u # t => refresh'[u].new # refresh'[t].new
    BY DEF GrantsUnknown
  <2>1. refresh'[t] = refresh[t] /\ refresh[t].new # 0 /\ refresh[t].new \in 1 .. Len(tokens)
    BY <1>1 DEF Granted
  <2> QED
    BY <1>1, <2>1 DEF CookieInv, GrantsUnknown
<1>3. CookieReplaced'
  <2> SUFFICES ASSUME losses' = 0, cookie' # 0, tokens'[cookie'].status = "rotated"
               PROVE  \E t \in Tabs : Granted(refresh'[t]) /\ refresh'[t].cookie = cookie'
    BY DEF CookieReplaced
  <2>1. cookie' = cookie /\ losses = 0 /\ tokens[cookie].status = "rotated"
    BY <1>1
  <2>2. PICK t \in Tabs : Granted(refresh[t]) /\ refresh[t].cookie = cookie
    BY <2>1 DEF CookieInv, CookieReplaced
  <2> QED
    BY <2>1, <2>2
<1> QED
  BY <1>2, <1>3 DEF CookieInv

\* The rotation grants a token nobody knows, and replaces the cookie if that is its token.
LEMMA CookieRotated ==
  ASSUME TypeInv, CookieInv, NEW t \in Tabs, RotateRefreshToken(t)
  PROVE  CookieInv'
<1> DEFINE c == refresh[t].cookie
           n == Len(tokens) + 1
<1>1. /\ Len(tokens) \in Nat /\ cookie \in 0 .. Len(tokens)
      /\ \A u \in Tabs : refresh[u].new \in 0 .. Len(tokens) /\ refresh[u].cookie \in 0 .. Len(tokens)
      /\ refresh \in [Tabs -> RefreshCall]
  BY LenProperties, TypeParts, TokensAssumption DEF CallsTyped, CallTyped, RefreshCall, Cookies
<1>2. /\ tokens'[n] = Active(c)
      /\ \A i \in 1 .. Len(tokens) : i # c => tokens'[i] = tokens[i]
  BY TableRotated
<1>3. /\ UNCHANGED <<cookie, losses>> /\ refresh[t].at = "read"
      /\ \A u \in Tabs : u # t => refresh'[u] = refresh[u]
      /\ refresh'[t].cookie = c /\ refresh'[t].new = n /\ refresh'[t].at = "done"
  BY <1>1 DEF RotateRefreshToken, Finish, RefreshCall
<1>4. \A u \in Tabs : Granted(refresh[u]) => u # t
  BY <1>3 DEF Granted
<1>5. GrantsUnknown'
  <2> SUFFICES ASSUME NEW v \in Tabs, Granted(refresh'[v])
               PROVE  /\ refresh'[v].new # cookie'
                      /\ tokens'[refresh'[v].new].status # "rotated"
                      /\ \A u \in Tabs : /\ refresh'[u].cookie # refresh'[v].new
                                         /\ u # v => refresh'[u].new # refresh'[v].new
    BY DEF GrantsUnknown
  <2>1. CASE v = t
    <3>1. tokens'[n].status # "rotated"
      BY <1>2 DEF Active
    <3>2. \A u \in Tabs : refresh'[u].cookie = refresh[u].cookie
      BY <1>3
    <3> QED
      BY <1>1, <1>3, <2>1, <3>1, <3>2
  <2>2. CASE v # t
    <3>1. Granted(refresh[v]) /\ refresh'[v] = refresh[v] /\ refresh[v].new \in 1 .. Len(tokens)
      BY <1>1, <1>3, <2>2 DEF Granted
    <3>2. /\ refresh[v].new # cookie /\ refresh[v].new # c
          /\ tokens[refresh[v].new].status # "rotated"
          /\ \A u \in Tabs : /\ refresh[u].cookie # refresh[v].new
                             /\ u # v => refresh[u].new # refresh[v].new
      BY <3>1 DEF CookieInv, GrantsUnknown
    <3>3. n # refresh[v].new
      BY <1>1
    <3> QED
      BY <1>2, <1>3, <3>1, <3>2, <3>3
  <2> QED
    BY <2>1, <2>2
<1>6. CookieReplaced'
  <2> SUFFICES ASSUME losses' = 0, cookie' # 0, tokens'[cookie'].status = "rotated"
               PROVE  \E v \in Tabs : Granted(refresh'[v]) /\ refresh'[v].cookie = cookie'
    BY DEF CookieReplaced
  <2>1. CASE cookie = c
    BY <1>1, <1>3, <2>1 DEF Granted
  <2>2. CASE cookie # c
    <3>1. losses = 0 /\ cookie # 0 /\ tokens[cookie].status = "rotated"
      BY <1>1, <1>2, <1>3, <2>2
    <3>2. PICK v \in Tabs : Granted(refresh[v]) /\ refresh[v].cookie = cookie
      BY <3>1 DEF CookieInv, CookieReplaced
    <3> QED
      BY <1>3, <1>4, <3>2
  <2> QED
    BY <2>1, <2>2
<1> QED
  BY <1>5, <1>6 DEF CookieInv

\* The grant becomes the cookie.
LEMMA CookieTaken ==
  ASSUME TypeInv, CookieInv, NEW t \in Tabs, RefreshSucceeded(t)
  PROVE  CookieInv'
<1> DEFINE n == refresh[t].new
<1>1. /\ refresh \in [Tabs -> RefreshCall]
      /\ \A u \in Tabs : refresh[u].new \in Nat /\ refresh[u].cookie \in Nat
  BY TypeParts, TokensAssumption DEF CallsTyped, RefreshCall, Cookies
<1>2. /\ cookie' = n /\ tokens' = tokens /\ Granted(refresh[t])
      /\ \A u \in Tabs : u # t => refresh'[u] = refresh[u]
      /\ refresh'[t] = NoRefresh
  BY <1>1 DEF RefreshSucceeded, Succeed, Granted
<1>3. tokens[n].status # "rotated"
  BY <1>2 DEF CookieInv, GrantsUnknown
<1>4. ~Granted(NoRefresh) /\ NoRefresh.cookie = 0 /\ NoRefresh.new = 0
  BY DEF Granted, NoRefresh
<1>5. GrantsUnknown'
  <2> SUFFICES ASSUME NEW v \in Tabs, Granted(refresh'[v])
               PROVE  /\ refresh'[v].new # cookie'
                      /\ tokens'[refresh'[v].new].status # "rotated"
                      /\ \A u \in Tabs : /\ refresh'[u].cookie # refresh'[v].new
                                         /\ u # v => refresh'[u].new # refresh'[v].new
    BY DEF GrantsUnknown
  <2>1. v # t /\ refresh'[v] = refresh[v] /\ Granted(refresh[v]) /\ refresh[v].new # 0
    BY <1>2, <1>4 DEF Granted
  <2>2. /\ tokens[refresh[v].new].status # "rotated"
        /\ \A u \in Tabs : /\ refresh[u].cookie # refresh[v].new
                           /\ u # v => refresh[u].new # refresh[v].new
    BY <2>1 DEF CookieInv, GrantsUnknown
  <2> QED
    BY <1>2, <1>4, <2>1, <2>2
<1>6. CookieReplaced'
  BY <1>2, <1>3 DEF CookieReplaced
<1> QED
  BY <1>5, <1>6 DEF CookieInv

\* A login brings a cookie of its own.
LEMMA CookieIssued ==
  ASSUME TypeInv, CookieInv, NEW t \in Tabs, SignIn(t)
  PROVE  CookieInv'
<1>1. /\ tokens'[Len(tokens) + 1] = Active(0) /\ cookie' = Len(tokens) + 1
      /\ UNCHANGED refresh
      /\ \A i \in 1 .. Len(tokens) : tokens'[i] = tokens[i]
  <2>1. TypeOK /\ IssueToken /\ tokens \in Seq(Token)
    BY DEF SignIn, TypeInv, TypeOK
  <2>2. Active(0) \in Token
    BY TokensAssumption DEF Active, Token, Cookies, Unrevoked
  <2>3. \A i \in 1 .. Len(tokens) : tokens'[i] = tokens[i]
    BY <2>1, <2>2, AppendProperties DEF IssueToken
  <2> QED
    BY <2>1, <2>3, TableIssued DEF SignIn
<1>2. /\ Len(tokens) \in Nat
      /\ \A u \in Tabs : refresh[u].new \in 0 .. Len(tokens)
  BY LenProperties, TypeParts, TokensAssumption DEF CallsTyped, CallTyped, RefreshCall, Cookies
<1>3. GrantsUnknown'
  <2> SUFFICES ASSUME NEW v \in Tabs, Granted(refresh'[v])
               PROVE  /\ refresh'[v].new # cookie'
                      /\ tokens'[refresh'[v].new].status # "rotated"
                      /\ \A u \in Tabs : /\ refresh'[u].cookie # refresh'[v].new
                                         /\ u # v => refresh'[u].new # refresh'[v].new
    BY DEF GrantsUnknown
  <2>1. refresh[v].new \in 1 .. Len(tokens) /\ Granted(refresh[v])
    BY <1>1, <1>2 DEF Granted
  <2> QED
    BY <1>1, <1>2, <2>1 DEF CookieInv, GrantsUnknown
<1>4. CookieReplaced'
  BY <1>1 DEF CookieReplaced, Active
<1> QED
  BY <1>3, <1>4 DEF CookieInv

LEMMA CookieStep == TypeInv /\ QueueHasRefresh /\ CookieInv /\ [Next]_vars => CookieInv'
<1> SUFFICES ASSUME TypeInv, QueueHasRefresh, CookieInv, [Next]_vars PROVE CookieInv'
  OBVIOUS
<1>1. TableStep
  BY TableSteps
<1>2. /\ refresh \in [Tabs -> RefreshCall] /\ losses \in Nat
      /\ DOMAIN tokens = 1 .. Len(tokens)
      /\ \A i \in 1 .. Len(tokens) : tokens[i] \in Token
  BY TypeParts, LenProperties, ElementOfSeq, TokensAssumption DEF CallsTyped
\* The steps that leave the calls alone and rotate no row.
<1>3. ASSUME UNCHANGED refresh, cookie' \in {0, cookie}, losses' = 0 => losses = 0,
             \A i \in 1 .. Len(tokens) : tokens'[i].status = "rotated" => tokens[i].status = "rotated"
      PROVE  CookieInv'
  BY <1>1, <1>3, CookieQuiet
\* The steps that replace one call.
<1>4. ASSUME NEW t \in Tabs, NEW call, refresh' = [refresh EXCEPT ![t] = call],
             ~Granted(call), losses' = 0 => (losses = 0 /\ ~Granted(refresh[t])),
             call.cookie \in {0, cookie, refresh[t].cookie}, call.new \in {0, refresh[t].new},
             cookie' = cookie,
             \A i \in 1 .. Len(tokens) : tokens'[i].status = "rotated" => tokens[i].status = "rotated"
      PROVE  CookieInv'
  BY <1>1, <1>2, <1>4, CookieQuiet
<1>5. CASE UNCHANGED vars
  BY <1>3, <1>5 DEF vars
<1>6. ASSUME NEW i \in DOMAIN tokens, ExpireRefreshToken(i) PROVE CookieInv'
  <2>1. \A j \in 1 .. Len(tokens) : tokens'[j] = tokens[j] \/ tokens'[j].status = "lapsed"
    BY <1>6, TableLapsed
  <2> QED
    BY <1>3, <1>6, <2>1 DEF ExpireRefreshToken
<1>7. ASSUME NEW t \in Tabs, DetectReuse(t) \/ RevokeExpired(t) \/ ServeLogout(t)
      PROVE  \A i \in 1 .. Len(tokens) : tokens'[i].status = "rotated" => tokens[i].status = "rotated"
  <2>1. \A i \in 1 .. Len(tokens) : tokens'[i] \in {tokens[i], Revoked(tokens[i], "revoked")}
    BY <1>7, TableRevoked
  <2>2. \A row \in Token : Revoked(row, "revoked").status = "rotated" => row.status = "rotated"
    BY DEF Revoked, Token
  <2> QED
    BY <1>2, <2>1, <2>2
<1>8. ASSUME NEW t \in Tabs, ServeLogout(t) PROVE CookieInv'
  BY <1>3, <1>7, <1>8 DEF ServeLogout
<1>9. ASSUME NEW t \in Tabs, ServeRefresh(t) PROVE CookieInv'
  <2>1. CASE RotateRefreshToken(t)
    BY <2>1, CookieRotated
  <2>2. CASE ReadRefreshToken(t)
    <3> DEFINE seen == IF refresh[t].cookie = 0 THEN "missing" ELSE tokens[refresh[t].cookie].status
               call == [refresh[t] EXCEPT !.at = "read", !.seen = seen]
    <3>1. refresh' = [refresh EXCEPT ![t] = call] /\ UNCHANGED <<tokens, cookie, losses>>
          /\ refresh[t].at = "sent"
      BY <2>2 DEF ReadRefreshToken
    <3> HIDE DEF seen
    <3>2. call.at = "read" /\ call.cookie = refresh[t].cookie /\ call.new = refresh[t].new
      BY <1>2 DEF RefreshCall
    <3> QED
      BY <1>4, <3>1, <3>2 DEF Granted
  <2>3. CASE RefuseRefresh(t) \/ DetectReuse(t) \/ RevokeExpired(t)
    <3> DEFINE call == [refresh[t] EXCEPT !.at = "done", !.new = 0]
    <3>1. refresh' = [refresh EXCEPT ![t] = call] /\ UNCHANGED <<cookie, losses>>
          /\ refresh[t].at = "read"
      BY <2>3 DEF RefuseRefresh, DetectReuse, RevokeExpired, Finish
    <3>2. call.new = 0 /\ call.cookie = refresh[t].cookie
      BY <1>2 DEF RefreshCall
    <3>3. \A i \in 1 .. Len(tokens) : tokens'[i].status = "rotated" => tokens[i].status = "rotated"
      BY <1>7, <2>3 DEF RefuseRefresh
    <3> QED
      BY <1>4, <3>1, <3>2, <3>3 DEF Granted
  <2> QED
    BY <1>9, <2>1, <2>2, <2>3 DEF ServeRefresh
<1>10. ASSUME NEW t \in Tabs, NEW r \in Requests,
              SendRequest(t, r) \/ RequestAnswered(t, r) \/ RequestFailed(t, r) \/ QueueRequest(t, r)
       PROVE  CookieInv'
  BY <1>3, <1>10 DEF SendRequest, RequestAnswered, RequestFailed, Settle, QueueRequest
<1>11. ASSUME NEW t \in Tabs, NEW r \in Requests, StartRefresh(t, r) PROVE CookieInv'
  <2> DEFINE call == [NoRefresh EXCEPT !.at = "sent", !.cookie = cookie]
  <2>1. refresh[t].at = "none"
    BY <1>11 DEF StartRefresh, QueueHasRefresh
  <2>2. refresh' = [refresh EXCEPT ![t] = call] /\ UNCHANGED <<tokens, cookie, losses>>
    BY <1>11 DEF StartRefresh
  <2>3. call.at = "sent" /\ call.cookie = cookie /\ call.new = 0
    BY DEF NoRefresh
  <2> QED
    BY <1>4, <2>1, <2>2, <2>3 DEF Granted
<1>12. ~Granted(NoRefresh) /\ NoRefresh.cookie = 0 /\ NoRefresh.new = 0
  BY DEF Granted, NoRefresh
<1>13. ASSUME NEW t \in Tabs, UNCHANGED <<tokens, cookie>>,
              refresh' = [refresh EXCEPT ![t] = NoRefresh],
              losses' = 0 => (losses = 0 /\ ~Granted(refresh[t]))
       PROVE  CookieInv'
  BY <1>4, <1>12, <1>13
<1>14. ASSUME NEW t \in Tabs, GiveUp(t) PROVE UNCHANGED <<tokens, cookie>> /\ refresh' = [refresh EXCEPT ![t] = NoRefresh]
  BY <1>14 DEF GiveUp, Load
<1>15. ASSUME NEW t \in Tabs, EndRefresh(t) PROVE CookieInv'
  <2>1. CASE RefreshSucceeded(t)
    BY <2>1, CookieTaken
  <2>2. CASE RefreshRefused(t)
    BY <1>13, <1>14, <2>2 DEF RefreshRefused, Granted
  <2>3. CASE RefreshLost(t)
    <3>1. losses' # 0
      BY <1>2, <2>3 DEF RefreshLost
    <3> QED
      BY <1>13, <1>14, <2>3, <3>1 DEF RefreshLost
  <2> QED
    BY <1>15, <2>1, <2>2, <2>3 DEF EndRefresh
<1>16. ASSUME NEW t \in Tabs, Reload(t) PROVE CookieInv'
  <2>1. losses' # 0 /\ UNCHANGED <<tokens, cookie>> /\ refresh' = [refresh EXCEPT ![t] = NoRefresh]
    BY <1>2, <1>16 DEF Reload, Load
  <2> QED
    BY <1>13, <2>1
<1>17. ASSUME NEW t \in Tabs, SignIn(t) PROVE CookieInv'
  BY <1>17, CookieIssued
<1>18. ASSUME NEW t \in Tabs,
              SignOut(t) \/ LogoutAnswered(t) \/ LogoutLost(t) \/ ExpireAccessToken(t)
       PROVE  CookieInv'
  BY <1>3, <1>18 DEF SignOut, LogoutAnswered, LogoutLost, LeaveSession, ExpireAccessToken
<1> QED
  BY <1>5, <1>6, <1>8, <1>9, <1>10, <1>11, <1>15, <1>16, <1>17, <1>18
     DEF Next, ServerNext, ClientNext, Respond

\* An honest browser's cookie is never one that was rotated, unless the answer that
\* replaces it is on its way or an answer was lost.
THEOREM CookiesAreFresh == Spec => []CookieIsFresh
<1>1. Init => CookieInv
  BY DEF Init, CookieInv, GrantsUnknown, CookieReplaced, Granted, NoRefresh
<1>2. CookieInv => CookieIsFresh
  BY DEF CookieInv, CookieReplaced, CookieIsFresh, Granted
<1> QED
  BY <1>1, <1>2, QueueInit, TypeInit, TypeStep, QueueStep, CookieStep, PTL DEF Spec
===============================================================================
