--------------------------- MODULE AuthClientProofs ---------------------------
(***************************************************************************)
(* Theorems about AuthClient for any number of callers, providers,         *)
(* exchanges and grants, under any provider policy.                        *)
(***************************************************************************)
EXTENDS AuthClient, TLAPS

-----------------------------------------------------------------------------
(* What the token path makes of the replies a server can send. *)

\* A whole grant becomes a credential with its access token and, unless it is
\* blank, its refresh token (post_token_form).
LEMMA GrantedIsMinted ==
  ASSUME NEW access \in Grants, NEW refresh \in Grants \cup {NoToken, Blank}
  PROVE  LET result == PostTokenForm(Granted(access, refresh)) IN
           /\ result.ok
           /\ result.access = access
           /\ result.refresh = IF refresh = Blank THEN NoToken ELSE refresh
BY DEF PostTokenForm, Granted, IsGrant, Whole, Minted, Blank, NoToken, Grants

\* No refusal is ever taken for a grant (post_token_form).
LEMMA RefusalFails ==
  ASSUME NEW reply \in Refusals
  PROVE  ~PostTokenForm(reply).ok
BY DEF PostTokenForm, Refusals, Refused, Hollow, Silence, IsGrant, Whole, Failure, Blank

\* Every reply, deliverable or not, ends in a credential or in an error that
\* has a name (post_token_form).
LEMMA ResultType ==
  ASSUME NEW reply \in Reply(Grants, Codes)
  PROVE  LET result == PostTokenForm(reply) IN
           /\ result.ok \in BOOLEAN
           /\ result.error \in Outcomes
           /\ result.ok => /\ result.access \in Grants
                           /\ result.refresh \in Grants \cup {NoToken}
BY DEF PostTokenForm, Reply, IsGrant, Whole, Minted, Failure, Outcomes, Blank,
       NoToken, Grants

\* No answer is an error, never a credential (post_token_form).
LEMMA SilenceFails ==
  /\ PostTokenForm(Silence).error = "http"
  /\ ~PostTokenForm(Silence).ok
BY DEF PostTokenForm, Silence, Failure, IsGrant, Whole

\* The provider's answers to a refresh are replies in the sense of the token path.
LEMMA RepliesTyped ==
  /\ Silence \in Reply(Grants, Codes)
  /\ Refusals \subseteq Reply(Grants, Codes)
  /\ \A access \in Grants, refresh \in Grants \cup {NoToken, Blank} :
        Granted(access, refresh) \in Reply(Grants, Codes)
<1>1. Silence \in Reply(Grants, Codes)
  BY DEF Silence, Reply
<1>2. Refusals \subseteq Reply(Grants, Codes)
  BY DEF Refusals, Refused, Hollow, Reply, Codes
<1>3. \A access \in Grants, refresh \in Grants \cup {NoToken, Blank} :
        Granted(access, refresh) \in Reply(Grants, Codes)
  BY DEF Granted, Reply
<1> QED
  BY <1>1, <1>2, <1>3

-----------------------------------------------------------------------------
(* Type correctness. *)

\* A credential made of typed parts is one.
LEMMA CredentialsTyped ==
  /\ NoCred \in Credentials
  /\ \A n \in Grants : ApiKey(n) \in Credentials
  /\ \A n \in Grants, r \in Grants \cup {NoToken} : OAuth(n, r) \in Credentials
BY DEF NoCred, ApiKey, OAuth, Credentials

\* A credential's fields are minted tokens or missing.
LEMMA CredentialFields ==
  ASSUME NEW cred \in Credentials
  PROVE  /\ cred.access \in Grants \cup {NoToken}
         /\ cred.refresh \in Grants \cup {NoToken}
BY DEF NoCred, Credentials, NoToken

\* An idle caller or a busy one, as call records it.
LEMMA CallsTyped ==
  /\ \A p \in Providers \cup {None}, o \in Outcomes : Return(p, o) \in Calls
  /\ \A phase \in {"waiting", "holding"}, p \in Providers, cred \in Credentials,
        x \in Exchanges \cup {None} : Busy(phase, p, cred, x) \in Calls
BY CredentialsTyped DEF Return, Busy, Outcomes, Calls

\* The two ways a request record changes.
LEMMA RespondTyped ==
  ASSUME TypeOK, NEW x \in Exchanges, NEW answer \in {"rotated", "kept", "refused"},
         NEW reply \in Reply(Grants, Codes), Respond(x, answer, reply)
  PROVE  exchange' \in [Exchanges -> Requests]
<1>1. [exchange[x] EXCEPT !.answer = answer, !.reply = reply] \in Requests
  BY DEF TypeOK, Requests
<1> QED
  BY <1>1 DEF Respond, TypeOK

\* An exchange marked as stored keeps its type.
LEMMA MarkTyped ==
  ASSUME TypeOK, NEW x \in Exchanges,
         exchange' = [exchange EXCEPT ![x] = [@ EXCEPT !.stored = TRUE]]
  PROVE  exchange' \in [Exchanges -> Requests]
<1>1. [exchange[x] EXCEPT !.stored = TRUE] \in Requests
  BY DEF TypeOK, Requests
<1> QED
  BY <1>1 DEF TypeOK

\* The store starts empty and nobody is calling.
LEMMA InitTyped == Init => TypeOK
<1>1. SUFFICES ASSUME Init PROVE TypeOK
  OBVIOUS
<1>2. call \in [Callers -> Calls]
  BY <1>1, CallsTyped DEF Init, Outcomes
<1>3. Unsent \in Requests
  BY RepliesTyped DEF Unsent, Requests
<1> QED
  BY <1>1, <1>2, <1>3, CredentialsTyped, BoundsAssumption DEF Init, TypeOK

\* The shape of a call record, taken apart.
LEMMA CallFields ==
  ASSUME TypeOK, NEW c \in Callers
  PROVE  /\ call[c].provider \in Providers \cup {None}
         /\ call[c].cred \in Credentials
         /\ call[c].exchange \in Exchanges \cup {None}
BY DEF TypeOK, Calls

\* A caller that returns goes back to idle and nothing else.
LEMMA FinishTyped ==
  ASSUME TypeOK, NEW c \in Callers, NEW o \in Outcomes, Finish(c, o)
  PROVE  call' \in [Callers -> Calls]
BY CallsTyped, CallFields DEF Finish, TypeOK

\* What a waiting caller may rely on about the request it sent.
WaitingOK ==
  \A c \in Callers : call[c].phase = "waiting" =>
    /\ call[c].provider \in Providers
    /\ call[c].exchange \in Exchanges
    /\ Refreshable(call[c].cred)
    /\ exchange[call[c].exchange].provider = call[c].provider
    /\ exchange[call[c].exchange].token = call[c].cred.refresh
    /\ ~exchange[call[c].exchange].stored
    /\ \A d \in Callers \ {c} :
         call[d].phase = "waiting" => call[d].exchange # call[c].exchange

HoldingOK ==
  \A c \in Callers : call[c].phase = "holding" => call[c].provider \in Providers

\* At the start nobody waits and nobody holds a credential.
LEMMA InitCalls == Init => WaitingOK /\ HoldingOK
BY DEF Init, WaitingOK, HoldingOK, Return

\* The actions after which a caller is idle and nothing else has moved.
Leaves(c) ==
  /\ UNCHANGED <<store, exchange, live, issued, session, newest>>
  /\ \E p \in Providers \cup {None}, o \in Outcomes :
       call' = [call EXCEPT ![c] = Return(p, o)]

\* What a refresh merges and puts is a credential (refresh_stored).
LEMMA ResultTyped ==
  ASSUME TypeOK, NEW c \in Callers, WaitingOK, call[c].phase = "waiting"
  PROVE  /\ Result(c).ok \in BOOLEAN
         /\ Result(c).error \in Outcomes
         /\ Result(c).ok => /\ Result(c).access \in Grants
                            /\ Result(c).refresh \in Grants \cup {NoToken}
         /\ Result(c).ok => Merge(call[c].cred, Result(c)) \in Credentials
<1>1. exchange[call[c].exchange].reply \in Reply(Grants, Codes)
  BY DEF TypeOK, Requests, WaitingOK
<1>2. call[c].cred.refresh \in Grants \cup {NoToken}
  BY CallFields, CredentialFields
<1>3. /\ Result(c).ok \in BOOLEAN
      /\ Result(c).error \in Outcomes
      /\ Result(c).ok => /\ Result(c).access \in Grants
                         /\ Result(c).refresh \in Grants \cup {NoToken}
  BY <1>1, ResultType DEF Result
<1> QED
  BY <1>2, <1>3, CredentialsTyped DEF Merge

\* A call that fails at its lookups leaves no trace.
LEMMA RejectLeaves ==
  ASSUME NEW c \in Callers, NEW p \in Providers, NEW o \in Outcomes, Reject(c, p, o)
  PROVE  Leaves(c)
BY DEF Reject, Leaves

\* The steps by which a caller leaves with an error or is dropped.
LEMMA LeavingActions ==
  ASSUME TypeOK, WaitingOK, NEW c \in Callers,
         \/ \E p \in Providers, method \in {"oauth", "device", "api_key"} :
              SignInRejected(c, p, method)
         \/ \E p \in Providers : RefreshRejected(c, p)
         \/ SignInUnsaved(c)
         \/ RefreshUnsaved(c)
         \/ RefreshFailed(c)
         \/ RefreshTimeout(c)
         \/ RefreshDropped(c)
  PROVE  Leaves(c)
<1>1. ASSUME NEW p \in Providers, NEW method \in {"oauth", "device", "api_key"},
             SignInRejected(c, p, method)
      PROVE  Leaves(c)
  BY <1>1, RejectLeaves DEF SignInRejected, Outcomes
<1>2. ASSUME NEW p \in Providers, RefreshRejected(c, p)
      PROVE  Leaves(c)
  BY <1>2, RejectLeaves DEF RefreshRejected, Outcomes
<1>3. ASSUME NEW o \in Outcomes, Finish(c, o),
             UNCHANGED <<store, exchange, live, issued, session, newest>>
      PROVE  Leaves(c)
  BY <1>3, CallFields DEF Finish, Leaves
<1>4. CASE SignInUnsaved(c)
  BY <1>3, <1>4 DEF SignInUnsaved, Outcomes
<1>5. CASE RefreshUnsaved(c)
  BY <1>3, <1>5 DEF RefreshUnsaved, Outcomes
<1>6. CASE RefreshFailed(c)
  <2>1. Result(c).error \in Outcomes
    BY <1>6, ResultTyped DEF RefreshFailed, Answered
  <2> QED
    BY <1>3, <1>6, <2>1 DEF RefreshFailed
<1>7. CASE RefreshTimeout(c)
  BY <1>3, <1>7, SilenceFails DEF RefreshTimeout, Outcomes
<1>8. CASE RefreshDropped(c)
  BY <1>3, <1>8 DEF RefreshDropped, Outcomes
<1> QED
  BY <1>1, <1>2, <1>4, <1>5, <1>6, <1>7, <1>8

\* Every step is one of nine, or a stutter.
LEMMA StepCases ==
  ASSUME TypeOK, WaitingOK, [Next]_vars
  PROVE  \/ \E c \in Callers : Leaves(c)
         \/ \E c \in Callers, p \in Providers,
              method \in {"oauth", "device", "api_key"} : SignInGranted(c, p, method)
         \/ \E c \in Callers : SignInStored(c)
         \/ \E c \in Callers, p \in Providers, x \in Exchanges : RefreshSend(c, p, x)
         \/ \E c \in Callers : RefreshStored(c)
         \/ \E c \in Callers, p \in Providers : Logout(c, p)
         \/ \E x \in Exchanges : ServerRotates(x)
         \/ \E x \in Exchanges : ServerKeeps(x)
         \/ \E x \in Exchanges : ServerRefuses(x)
         \/ UNCHANGED vars
BY LeavingActions DEF Next, Sign, Refresh, Server

\* A put leaves a typed store (CredentialStore::put).
LEMMA PutTyped ==
  ASSUME TypeOK, NEW p \in Providers, NEW cred \in Credentials, Put(p, cred)
  PROVE  /\ store' \in [Providers -> Credentials]
         /\ newest' \in [Providers -> Grants \cup {0}]
BY CredentialFields DEF Put, TypeOK, NoToken

\* Every step keeps every variable's type.
LEMMA TypePreserved ==
  ASSUME TypeOK, WaitingOK, HoldingOK, [Next]_vars
  PROVE  TypeOK'
<1>1. ASSUME NEW c \in Callers, Leaves(c)
      PROVE  TypeOK'
  BY <1>1, CallsTyped DEF Leaves, TypeOK
<1>2. ASSUME NEW c \in Callers, NEW p \in Providers,
             NEW method \in {"oauth", "device", "api_key"}, SignInGranted(c, p, method)
      PROVE  TypeOK'
  <2>1. issued + 1 \in Grants
    BY <1>2 DEF SignInGranted
  <2>2. /\ Busy("holding", p, ApiKey(issued + 1), None) \in Calls
        /\ \A r \in Grants \cup {NoToken} :
             Busy("holding", p, OAuth(issued + 1, r), None) \in Calls
    BY <2>1, CallsTyped, CredentialsTyped
  <2>3. /\ issued' \in 0 .. MaxGrants
        /\ session' \in [Grants -> Grants \cup {0}]
        /\ live' \in [Providers -> SUBSET Grants]
    BY <1>2, <2>1 DEF SignInGranted, TypeOK, Grants
  <2>4. call' \in [Callers -> Calls]
    BY <1>2, <2>1, <2>2 DEF SignInGranted, TypeOK
  <2> QED
    BY <1>2, <2>3, <2>4 DEF SignInGranted, TypeOK
<1>3. ASSUME NEW c \in Callers, SignInStored(c)
      PROVE  TypeOK'
  <2>1. call[c].provider \in Providers /\ call[c].cred \in Credentials
    BY <1>3, CallFields DEF SignInStored, HoldingOK
  <2> QED
    BY <1>3, <2>1, PutTyped, FinishTyped DEF SignInStored, TypeOK, Outcomes
<1>4. ASSUME NEW c \in Callers, NEW p \in Providers, NEW x \in Exchanges,
             RefreshSend(c, p, x)
      PROVE  TypeOK'
  <2>1. store[p] \in Credentials /\ store[p].refresh \in Grants \cup {NoToken}
    BY CredentialFields DEF TypeOK
  <2>2. call' \in [Callers -> Calls]
    BY <1>4, <2>1, CallsTyped DEF RefreshSend, TypeOK
  <2>3. [Unsent EXCEPT !.provider = p, !.token = store[p].refresh] \in Requests
    BY <2>1, RepliesTyped DEF Unsent, Requests
  <2> QED
    BY <1>4, <2>2, <2>3 DEF RefreshSend, TypeOK
<1>5. ASSUME NEW c \in Callers, RefreshStored(c)
      PROVE  TypeOK'
  <2>1. /\ call[c].provider \in Providers
        /\ call[c].exchange \in Exchanges
        /\ Merge(call[c].cred, Result(c)) \in Credentials
    BY <1>5, ResultTyped DEF RefreshStored, Answered, WaitingOK
  <2> QED
    BY <1>5, <2>1, PutTyped, MarkTyped, FinishTyped DEF RefreshStored, TypeOK, Outcomes
<1>6. ASSUME NEW c \in Callers, NEW p \in Providers, Logout(c, p)
      PROVE  TypeOK'
  BY <1>6, CallsTyped, CredentialsTyped DEF Logout, TypeOK, Outcomes
<1>7. ASSUME NEW x \in Exchanges, GrantAgain(x)
      PROVE  /\ issued + 1 \in Grants
             /\ exchange[x].provider \in Providers
             /\ exchange[x].token \in Grants
             /\ issued' \in 0 .. MaxGrants
             /\ session' \in [Grants -> Grants \cup {0}]
  <2>1. exchange[x].provider \in Providers
    BY <1>7 DEF GrantAgain, Pending, TypeOK, Requests
  <2>2. exchange[x].token \in Grants
    BY <1>7, <2>1 DEF GrantAgain, Honoured, TypeOK
  <2> QED
    BY <1>7, <2>1, <2>2 DEF GrantAgain, TypeOK, Grants
<1>8. ASSUME NEW x \in Exchanges, ServerRotates(x)
      PROVE  TypeOK'
  <2>1. GrantAgain(x)
    BY <1>8 DEF ServerRotates
  <2>2. Granted(issued + 1, issued + 1) \in Reply(Grants, Codes)
    BY <1>7, <2>1, RepliesTyped
  <2>3. exchange' \in [Exchanges -> Requests]
    BY <1>8, <2>2, RespondTyped DEF ServerRotates
  <2>4. live' \in [Providers -> SUBSET Grants]
    BY <1>7, <1>8, <2>1 DEF ServerRotates, TypeOK
  <2> QED
    BY <1>7, <1>8, <2>1, <2>3, <2>4 DEF ServerRotates, GrantAgain, TypeOK
<1>9. ASSUME NEW x \in Exchanges, ServerKeeps(x)
      PROVE  TypeOK'
  <2>1. GrantAgain(x)
    BY <1>9 DEF ServerKeeps
  <2>2. \A r \in {NoToken, Blank, exchange[x].token} :
           Granted(issued + 1, r) \in Reply(Grants, Codes)
    BY <1>7, <2>1, RepliesTyped
  <2>3. exchange' \in [Exchanges -> Requests]
    BY <1>9, <2>2, RespondTyped DEF ServerKeeps
  <2> QED
    BY <1>7, <1>9, <2>1, <2>3 DEF ServerKeeps, GrantAgain, TypeOK
<1>10. ASSUME NEW x \in Exchanges, ServerRefuses(x)
       PROVE  TypeOK'
  <2>1. exchange' \in [Exchanges -> Requests]
    BY <1>10, RepliesTyped, RespondTyped DEF ServerRefuses
  <2> QED
    BY <1>10, <2>1 DEF ServerRefuses, TypeOK
<1>11. CASE UNCHANGED vars
  BY <1>11 DEF vars, TypeOK
<1> QED
  BY <1>1, <1>2, <1>3, <1>4, <1>5, <1>6, <1>8, <1>9, <1>10, <1>11, StepCases

-----------------------------------------------------------------------------
(* Callers and their requests. *)

\* Every step leaves a caller that holds a credential with one a flow made.
LEMMA HoldingPreserved ==
  ASSUME TypeOK, WaitingOK, HoldingOK, [Next]_vars
  PROVE  HoldingOK'
<1>1. ASSUME NEW c \in Callers, NEW o \in Outcomes, Finish(c, o)
      PROVE  HoldingOK'
  BY <1>1 DEF Finish, Return, HoldingOK, TypeOK
<1>2. ASSUME NEW c \in Callers, NEW p \in Providers, NEW cred, NEW x, NEW phase,
             call' = [call EXCEPT ![c] = Busy(phase, p, cred, x)]
      PROVE  HoldingOK'
  BY <1>2 DEF Busy, HoldingOK, TypeOK
<1>3. ASSUME NEW c \in Callers, NEW p, NEW o, call' = [call EXCEPT ![c] = Return(p, o)]
      PROVE  HoldingOK'
  BY <1>3 DEF Return, HoldingOK, TypeOK
<1>4. ASSUME NEW c \in Callers, Leaves(c)
      PROVE  HoldingOK'
  BY <1>3, <1>4 DEF Leaves
<1>5. ASSUME NEW c \in Callers, NEW p \in Providers,
             NEW method \in {"oauth", "device", "api_key"}, SignInGranted(c, p, method)
      PROVE  HoldingOK'
  BY <1>2, <1>5 DEF SignInGranted
<1>6. ASSUME NEW c \in Callers, SignInStored(c) \/ RefreshStored(c)
      PROVE  HoldingOK'
  BY <1>1, <1>6 DEF SignInStored, RefreshStored, Outcomes
<1>7. ASSUME NEW c \in Callers, NEW p \in Providers, NEW x \in Exchanges,
             RefreshSend(c, p, x)
      PROVE  HoldingOK'
  BY <1>2, <1>7 DEF RefreshSend
<1>8. ASSUME NEW c \in Callers, NEW p \in Providers, Logout(c, p)
      PROVE  HoldingOK'
  BY <1>3, <1>8 DEF Logout
<1>9. CASE UNCHANGED call
  BY <1>9 DEF HoldingOK
<1> QED
  BY <1>4, <1>5, <1>6, <1>7, <1>8, <1>9, StepCases
     DEF ServerRotates, ServerKeeps, ServerRefuses, GrantAgain, vars

\* Every step leaves a waiting caller with the request it sent.
LEMMA WaitingPreserved ==
  ASSUME TypeOK, WaitingOK, HoldingOK, [Next]_vars
  PROVE  WaitingOK'
\* Requests keep what their callers know of them, and no new caller waits.
<1>1. ASSUME \A c \in Callers :
               call'[c].phase = "waiting" => call[c].phase = "waiting" /\ call'[c] = call[c],
             \A x \in Exchanges : /\ exchange'[x].provider = exchange[x].provider
                                  /\ exchange'[x].token = exchange[x].token,
             \A c \in Callers : call'[c].phase = "waiting" =>
               exchange'[call[c].exchange].stored = exchange[call[c].exchange].stored
      PROVE  WaitingOK'
  BY <1>1 DEF WaitingOK
<1>2. ASSUME NEW c \in Callers, Leaves(c)
      PROVE  WaitingOK'
  BY <1>1, <1>2 DEF Leaves, Return, TypeOK
<1>3. ASSUME NEW c \in Callers, NEW p \in Providers,
             NEW method \in {"oauth", "device", "api_key"}, SignInGranted(c, p, method)
      PROVE  WaitingOK'
  BY <1>1, <1>3 DEF SignInGranted, Busy, TypeOK
<1>4. ASSUME NEW c \in Callers, SignInStored(c)
      PROVE  WaitingOK'
  BY <1>1, <1>4 DEF SignInStored, Finish, Return, TypeOK
<1>5. ASSUME NEW c \in Callers, NEW p \in Providers, NEW x \in Exchanges,
             RefreshSend(c, p, x)
      PROVE  WaitingOK'
  <2>1. /\ \A d \in Callers \ {c} : call'[d] = call[d]
        /\ call'[c] = Busy("waiting", p, store[p], x)
        /\ \A y \in Exchanges \ {x} : exchange'[y] = exchange[y]
        /\ exchange'[x].provider = p
        /\ exchange'[x].token = store[p].refresh
        /\ ~exchange'[x].stored
    BY <1>5 DEF RefreshSend, TypeOK, Unsent
  <2>2. \A d \in Callers : call[d].phase = "waiting" => call[d].exchange # x
    BY <1>5, NoneAssumption DEF RefreshSend, WaitingOK, Unsent
  <2>3. Refreshable(store[p])
    BY <1>5 DEF RefreshSend
  <2> QED
    BY <2>1, <2>2, <2>3 DEF WaitingOK, Busy, Refreshable
<1>6. ASSUME NEW c \in Callers, RefreshStored(c)
      PROVE  WaitingOK'
  <2>1. call[c].phase = "waiting" /\ call[c].exchange \in Exchanges
    BY <1>6 DEF RefreshStored, Answered, WaitingOK
  <2>2. /\ \A d \in Callers \ {c} : call'[d] = call[d]
        /\ call'[c].phase = "idle"
    BY <1>6 DEF RefreshStored, Finish, Return, TypeOK
  <2>3. /\ \A y \in Exchanges \ {call[c].exchange} : exchange'[y] = exchange[y]
        /\ exchange'[call[c].exchange].provider = exchange[call[c].exchange].provider
        /\ exchange'[call[c].exchange].token = exchange[call[c].exchange].token
    BY <1>6, <2>1 DEF RefreshStored, TypeOK, Requests
  <2>4. \A d \in Callers \ {c} :
          call[d].phase = "waiting" => call[d].exchange \in Exchanges \ {call[c].exchange}
    BY <2>1 DEF WaitingOK
  <2> QED
    BY <1>1, <2>2, <2>3, <2>4
<1>7. ASSUME NEW c \in Callers, NEW p \in Providers, Logout(c, p)
      PROVE  WaitingOK'
  BY <1>1, <1>7 DEF Logout, Return, TypeOK
<1>8. ASSUME NEW x \in Exchanges, NEW answer, NEW reply, Respond(x, answer, reply),
             UNCHANGED call
      PROVE  WaitingOK'
  <2>1. \A y \in Exchanges : /\ exchange'[y].provider = exchange[y].provider
                             /\ exchange'[y].token = exchange[y].token
                             /\ exchange'[y].stored = exchange[y].stored
    BY <1>8 DEF Respond, TypeOK, Requests
  <2> QED
    BY <1>1, <1>8, <2>1 DEF WaitingOK
<1>9. ASSUME NEW x \in Exchanges, ServerRotates(x) \/ ServerKeeps(x) \/ ServerRefuses(x)
      PROVE  WaitingOK'
  BY <1>8, <1>9 DEF ServerRotates, ServerKeeps, ServerRefuses, GrantAgain
<1>10. CASE UNCHANGED vars
  BY <1>1, <1>10 DEF vars
<1> QED
  BY <1>2, <1>3, <1>4, <1>5, <1>6, <1>7, <1>9, <1>10, StepCases

CallsOK == TypeOK /\ WaitingOK /\ HoldingOK

\* The invariant holds in every behaviour.
LEMMA CallsInvariant == Spec => []CallsOK
<1>1. Init => CallsOK
  BY InitTyped, InitCalls DEF CallsOK
<1>2. CallsOK /\ [Next]_vars => CallsOK'
  BY TypePreserved, HoldingPreserved, WaitingPreserved DEF CallsOK
<1> QED
  BY <1>1, <1>2, PTL DEF Spec

\* Type correctness of the facade: credentials, calls, requests and tokens stay
\* of their kind whatever the callers and the servers do.
THEOREM TypeCorrect == Spec => []TypeOK
<1>1. CallsOK => TypeOK
  BY DEF CallsOK
<1> QED
  BY <1>1, CallsInvariant, PTL

-----------------------------------------------------------------------------
(* Which credentials refresh_stored serves. *)

\* Every provider with a device flow declares an OAuth flow as well.
DeviceFlowsRefresh ==
  \A p \in Providers : "device" \in Methods[p] => "oauth" \in Methods[p]

HoldsRefreshable(c) == call[c].phase = "holding" /\ Refreshable(call[c].cred)

\* Whoever has a refresh token has it from a provider that refreshes.
ServedOK ==
  /\ \A p \in Providers : Refreshable(store[p]) => "oauth" \in Methods[p]
  /\ \A c \in Callers :
       call[c].phase = "waiting" \/ HoldsRefreshable(c) => "oauth" \in Methods[call[c].provider]

\* A flow that hands out refresh tokens is one whose provider refreshes them.
LEMMA ServedPreserved ==
  ASSUME DeviceFlowsRefresh, CallsOK, ServedOK, [Next]_vars
  PROVE  ServedOK'
<1>1. ASSUME UNCHANGED store,
             \A c \in Callers : \/ call'[c] = call[c]
                                \/ call'[c].phase = "idle"
                                \/ "oauth" \in Methods[call'[c].provider]
                                \/ call'[c].phase = "holding" /\ ~Refreshable(call'[c].cred)
      PROVE  ServedOK'
  BY <1>1 DEF ServedOK, HoldsRefreshable, Refreshable
<1>2. ASSUME NEW c \in Callers, Leaves(c)
      PROVE  ServedOK'
  BY <1>1, <1>2 DEF Leaves, Return, CallsOK, TypeOK
<1>3. ASSUME NEW c \in Callers, NEW p \in Providers,
             NEW method \in {"oauth", "device", "api_key"}, SignInGranted(c, p, method)
      PROVE  ServedOK'
  <2>1. \/ ~Refreshable(call'[c].cred)
        \/ "oauth" \in Methods[p]
    BY <1>3 DEF SignInGranted, DeviceFlowsRefresh, Busy, ApiKey, Refreshable, CallsOK, TypeOK
  <2> QED
    BY <1>1, <1>3, <2>1 DEF SignInGranted, Busy, CallsOK, TypeOK
<1>4. ASSUME NEW c \in Callers, NEW p \in Providers, NEW x \in Exchanges, RefreshSend(c, p, x)
      PROVE  ServedOK'
  BY <1>1, <1>4 DEF RefreshSend, Busy, CallsOK, TypeOK
<1>5. ASSUME NEW c \in Callers, SignInStored(c) \/ RefreshStored(c)
      PROVE  ServedOK'
  <2>1. \E cred :
          /\ store' = [store EXCEPT ![call[c].provider] = cred]
          /\ \/ call[c].phase = "waiting"
             \/ call[c].phase = "holding" /\ cred = call[c].cred
    <3>1. CASE SignInStored(c)
      BY <3>1 DEF SignInStored, Put
    <3>2. CASE RefreshStored(c)
      BY <3>2 DEF RefreshStored, Answered, Put
    <3> QED
      BY <1>5, <3>1, <3>2
  <2>2. PICK cred :
          /\ store' = [store EXCEPT ![call[c].provider] = cred]
          /\ \/ call[c].phase = "waiting"
             \/ call[c].phase = "holding" /\ cred = call[c].cred
    BY <2>1
  <2>3. call' = [call EXCEPT ![c] = Return(call[c].provider, "ok")]
    BY <1>5 DEF SignInStored, RefreshStored, Finish
  <2>4. Refreshable(cred) => "oauth" \in Methods[call[c].provider]
    BY <2>2 DEF ServedOK, HoldsRefreshable
  <2> QED
    BY <2>2, <2>3, <2>4 DEF ServedOK, HoldsRefreshable, Refreshable, Return, CallsOK, TypeOK
<1>6. ASSUME NEW c \in Callers, NEW p \in Providers, Logout(c, p)
      PROVE  ServedOK'
  BY <1>6 DEF Logout, ServedOK, HoldsRefreshable, Refreshable, Return, NoCred, CallsOK, TypeOK
<1>7. ASSUME UNCHANGED <<store, call>>
      PROVE  ServedOK'
  BY <1>1, <1>7
<1> QED
  BY <1>2, <1>3, <1>4, <1>5, <1>6, <1>7, StepCases
     DEF CallsOK, ServerRotates, ServerKeeps, ServerRefuses, GrantAgain, vars

\* Where every provider with a device flow declares an OAuth flow as well,
\* refresh_stored turns no stored refresh token away as an unsupported method.
THEOREM ServedWhereDeclared == DeviceFlowsRefresh => (Spec => RefreshableIsServed)
<1> SUFFICES ASSUME DeviceFlowsRefresh PROVE Spec => RefreshableIsServed
  OBVIOUS
<1>1. Init => ServedOK
  BY DEF Init, ServedOK, HoldsRefreshable, Refreshable, NoCred, Return
<1>2. CallsOK /\ ServedOK /\ [Next]_vars => ServedOK'
  BY ServedPreserved
<1>3. ASSUME CallsOK, ServedOK, NEW c \in Callers, NEW p \in Providers,
             RefreshRejected(c, p), Refreshable(store[p])
      PROVE  call'[c].outcome # "unsupported_method"
  <2>1. call' = [call EXCEPT ![c] = Return(p, "store")]
    BY <1>3 DEF ServedOK, RefreshRejected, Reject
  <2> QED
    BY <1>3, <2>1 DEF Return, CallsOK, TypeOK
<1>4. CallsOK /\ ServedOK =>
        [\A c \in Callers, p \in Providers :
           RefreshRejected(c, p) /\ Refreshable(store[p]) =>
             call'[c].outcome # "unsupported_method"]_vars
  BY <1>3
<1> QED
  BY <1>1, <1>2, <1>4, CallsInvariant, PTL DEF Spec, RefreshableIsServed
=============================================================================
