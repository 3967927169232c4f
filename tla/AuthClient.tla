------------------------------ MODULE AuthClient ------------------------------
(***************************************************************************)
(* The AuthClient facade (lib.rs): concurrent callers of one client sign   *)
(* in, refresh and sign out against one credential store, while the        *)
(* providers' token endpoints answer, refuse, rotate refresh tokens or     *)
(* stay silent.                                                            *)
(*                                                                         *)
(* Every grant a provider makes has a number; the access token and the     *)
(* refresh token it mints carry it.  A caller that has sent a refresh      *)
(* request is suspended at the one await of refresh_stored: what it read   *)
(* from the store before is used after, whatever happened in between.      *)
(***************************************************************************)
EXTENDS TokenPath

CONSTANTS
  Callers,     \* tasks or threads sharing one AuthClient
  Providers,   \* provider ids the callers name
  Methods,     \* the methods each provider declares; {} for an unknown id
  Rotates,     \* providers that may mint a new refresh token on refresh
  Keeps,       \* providers that may leave the refresh token as it is
  Serialized,  \* TRUE: the application runs one call per provider at a time
  Exchanges,   \* refresh requests that can be sent in all (a bound)
  MaxGrants,   \* grants that can be made in all (a bound)
  None         \* no provider, no exchange

ASSUME MethodsAssumption ==
  Methods \in [Providers -> SUBSET {"oauth", "device", "api_key"}]
ASSUME PolicyAssumption == Rotates \subseteq Providers /\ Keeps \subseteq Providers
ASSUME BoundsAssumption == Serialized \in BOOLEAN /\ MaxGrants \in Nat
ASSUME NoneAssumption == None \notin Providers /\ None \notin Exchanges

VARIABLES
  store,     \* the credential held for each provider
  call,      \* what each caller is doing, or how its last call ended
  exchange,  \* the refresh requests sent, and what became of them
  live,      \* the refresh tokens each provider still honours
  issued,    \* the number of grants made so far
  session,   \* history: the sign-in each grant descends from
  newest     \* history: the newest grant ever stored for each provider

vars == <<store, call, exchange, live, issued, session, newest>>

-----------------------------------------------------------------------------
Grants == 1 .. MaxGrants
Codes  == {"invalid_grant"}

Outcomes == {"none", "ok", "dropped", "unknown_provider", "unsupported_method",
             "store", "http", "authorization", "malformed"}

NoCred == [kind |-> "none", access |-> NoToken, refresh |-> NoToken]
OAuth(access, refresh) ==
  [kind |-> "oauth", access |-> access, refresh |-> refresh]
ApiKey(secret) == [kind |-> "api_key", access |-> secret, refresh |-> NoToken]

Credentials ==
  {NoCred} \cup [kind : {"oauth"}, access : Grants, refresh : Grants \cup {NoToken}]
           \cup [kind : {"api_key"}, access : Grants, refresh : {NoToken}]

Refreshable(cred) == cred.refresh # NoToken

\* One reply for each error a caller can be told.
Refusals == {Refused(FALSE, "invalid_grant"), Refused(TRUE, "none"), Hollow}

Unsent == [provider |-> None, token |-> NoToken, answer |-> "pending",
           reply |-> Silence, stored |-> FALSE]

Requests ==
  [provider : Providers \cup {None}, token : Grants \cup {NoToken},
   answer : {"pending", "rotated", "kept", "refused"},
   reply : Reply(Grants, Codes), stored : BOOLEAN]

\* A call in progress; an idle caller remembers how its last call ended.
Busy(phase, p, cred, x) ==
  [phase |-> phase, provider |-> p, cred |-> cred, exchange |-> x,
   outcome |-> "none"]
Return(p, outcome) ==
  [phase |-> "idle", provider |-> p, cred |-> NoCred, exchange |-> None,
   outcome |-> outcome]

Calls ==
  [phase : {"idle", "waiting", "holding"}, provider : Providers \cup {None},
   cred : Credentials, exchange : Exchanges \cup {None}, outcome : Outcomes]

Init ==
  /\ store = [p \in Providers |-> NoCred]
  /\ call = [c \in Callers |-> Return(None, "none")]
  /\ exchange = [x \in Exchanges |-> Unsent]
  /\ live = [p \in Providers |-> {}]
  /\ issued = 0
  /\ session = [n \in Grants |-> 0]
  /\ newest = [p \in Providers |-> 0]

-----------------------------------------------------------------------------
(* Helpers of the callers' actions. *)

IdleCaller(c) == call[c].phase = "idle"

\* The discipline a careful application may impose.
MayStart(p) ==
  Serialized => \A d \in Callers : call[d].phase # "idle" => call[d].provider # p

Finish(c, outcome) ==
  call' = [call EXCEPT ![c] = Return(call[c].provider, outcome)]

Reject(c, p, outcome) ==
  /\ IdleCaller(c)
  /\ MayStart(p)
  /\ call' = [call EXCEPT ![c] = Return(p, outcome)]
  /\ UNCHANGED <<store, exchange, live, issued, session, newest>>

Put(p, cred) ==
  /\ store' = [store EXCEPT ![p] = cred]
  /\ newest' = [newest EXCEPT ![p] = IF cred.access > @ THEN cred.access ELSE @]

-----------------------------------------------------------------------------
(* Signing in. *)

\* begin_oauth, begin_device and accept_api_key look the provider up, then the
\* method; then the flow itself may fail.  Its errors (a timeout, a state mismatch, no
\* loopback port, ...) all leave the client as it was; three stand for them here, and
\* DeviceCode and AuthorizationCode say which comes when.
SignInRejected(c, p, method) ==
  \/ /\ method \notin Methods[p]
     /\ Reject(c, p, IF Methods[p] = {} THEN "unknown_provider"
                                        ELSE "unsupported_method")
  \/ /\ method \in Methods[p]
     /\ \E error \in {"http", "authorization", "malformed"} : Reject(c, p, error)

\* A flow has handed the caller a fresh credential, not stored yet.  An OAuth
\* server may or may not grant a refresh token with it.
SignInGranted(c, p, method) ==
  LET n == issued + 1 IN
  /\ IdleCaller(c)
  /\ MayStart(p)
  /\ method \in Methods[p]
  /\ n \in Grants
  /\ issued' = n
  /\ session' = [session EXCEPT ![n] = n]
  /\ \/ /\ method = "api_key"
        /\ call' = [call EXCEPT ![c] = Busy("holding", p, ApiKey(n), None)]
        /\ UNCHANGED live
     \/ /\ method # "api_key"
        /\ call' = [call EXCEPT ![c] = Busy("holding", p, OAuth(n, n), None)]
        /\ live' = [live EXCEPT ![p] = @ \cup {n}]
     \/ /\ method # "api_key"
        /\ call' = [call EXCEPT ![c] = Busy("holding", p, OAuth(n, NoToken), None)]
        /\ UNCHANGED live
  /\ UNCHANGED <<store, exchange, newest>>

\* The application puts the credential it was handed into the store, which may
\* fail.
SignInStored(c) ==
  /\ call[c].phase = "holding"
  /\ Put(call[c].provider, call[c].cred)
  /\ Finish(c, "ok")
  /\ UNCHANGED <<exchange, live, issued, session>>

SignInUnsaved(c) ==
  /\ call[c].phase = "holding"
  /\ Finish(c, "store")
  /\ UNCHANGED <<store, exchange, live, issued, session, newest>>

-----------------------------------------------------------------------------
(* refresh_stored, up to its await and after it. *)

\* The lookups in the order of the code.  Reading the store may fail whatever
\* it holds; a missing credential and a missing refresh token are store errors
\* as well.
RefreshRejected(c, p) ==
  \/ /\ "oauth" \notin Methods[p]
     /\ Reject(c, p, IF Methods[p] = {} THEN "unknown_provider"
                                        ELSE "unsupported_method")
  \/ /\ "oauth" \in Methods[p]
     /\ Reject(c, p, "store")

\* Mutant: a refresh of the client's own accord, whatever else is under way.
RefreshSendInBackground(c, p, x) ==
  /\ IdleCaller(c)
  /\ "oauth" \in Methods[p]
  /\ Refreshable(store[p])
  /\ exchange[x] = Unsent
  /\ exchange' = [exchange EXCEPT ![x] =
                    [Unsent EXCEPT !.provider = p, !.token = store[p].refresh]]
  /\ call' = [call EXCEPT ![c] = Busy("waiting", p, store[p], x)]
  /\ UNCHANGED <<store, live, issued, session, newest>>

RefreshSend(c, p, x) ==
  /\ IdleCaller(c)
  /\ MayStart(p)
  /\ "oauth" \in Methods[p]
  /\ Refreshable(store[p])
  /\ exchange[x] = Unsent
  /\ exchange' = [exchange EXCEPT ![x] =
                    [Unsent EXCEPT !.provider = p, !.token = store[p].refresh]]
  /\ call' = [call EXCEPT ![c] = Busy("waiting", p, store[p], x)]
  /\ UNCHANGED <<store, live, issued, session, newest>>

\* Mutants: the old token wins; the old token is forgotten.
MergeKeepsOld(existing, result) == OAuth(result.access, existing.refresh)
MergeForgets(existing, result)  == OAuth(result.access, result.refresh)

\* A provider that returned no refresh token reuses the one it was shown.
Merge(existing, result) ==
  OAuth(result.access,
        IF result.refresh = NoToken THEN existing.refresh ELSE result.refresh)

Answered(c) ==
  call[c].phase = "waiting" /\ exchange[call[c].exchange].answer # "pending"
Result(c) == PostTokenForm(exchange[call[c].exchange].reply)

RefreshStored(c) ==
  /\ Answered(c)
  /\ Result(c).ok
  /\ Put(call[c].provider, Merge(call[c].cred, Result(c)))
  /\ exchange' = [exchange EXCEPT ![call[c].exchange] = [@ EXCEPT !.stored = TRUE]]
  /\ Finish(c, "ok")
  /\ UNCHANGED <<live, issued, session>>

\* The store refused the new credential: the old one stays.
RefreshUnsaved(c) ==
  /\ Answered(c)
  /\ Result(c).ok
  /\ Finish(c, "store")
  /\ UNCHANGED <<store, exchange, live, issued, session, newest>>

RefreshFailed(c) ==
  /\ Answered(c)
  /\ ~Result(c).ok
  /\ Finish(c, Result(c).error)
  /\ UNCHANGED <<store, exchange, live, issued, session, newest>>

\* Mutant: an HTTP client without a timeout.
RefreshNoTimeout(c) ==
  /\ Answered(c)
  /\ Finish(c, PostTokenForm(Silence).error)
  /\ UNCHANGED <<store, exchange, live, issued, session, newest>>

\* The HTTP client gives up: the request or the answer was lost, or is late.
RefreshTimeout(c) ==
  /\ call[c].phase = "waiting"
  /\ Finish(c, PostTokenForm(Silence).error)
  /\ UNCHANGED <<store, exchange, live, issued, session, newest>>

\* The caller drops the future: nothing of refresh_stored runs after the await.
RefreshDropped(c) ==
  /\ call[c].phase = "waiting"
  /\ Finish(c, "dropped")
  /\ UNCHANGED <<store, exchange, live, issued, session, newest>>

-----------------------------------------------------------------------------
(* Signing out.  The registry is not asked. *)

Logout(c, p) ==
  /\ IdleCaller(c)
  /\ MayStart(p)
  /\ \/ /\ store' = [store EXCEPT ![p] = NoCred]
        /\ call' = [call EXCEPT ![c] = Return(p, "ok")]
     \/ /\ UNCHANGED store
        /\ call' = [call EXCEPT ![c] = Return(p, "store")]
  /\ UNCHANGED <<exchange, live, issued, session, newest>>

-----------------------------------------------------------------------------
(* The providers' token endpoints.  A request may reach one after its       *)
(* caller has gone.                                                         *)

Pending(x) == exchange[x].provider # None /\ exchange[x].answer = "pending"
Honoured(x) == exchange[x].token \in live[exchange[x].provider]

Respond(x, answer, reply) ==
  exchange' = [exchange EXCEPT ![x] = [@ EXCEPT !.answer = answer, !.reply = reply]]

GrantAgain(x) ==
  /\ Pending(x)
  /\ Honoured(x)
  /\ issued + 1 \in Grants
  /\ issued' = issued + 1
  /\ session' = [session EXCEPT ![issued + 1] = session[exchange[x].token]]
  /\ UNCHANGED <<store, call, newest>>

\* The refresh token shown is consumed, a new one takes its place.
ServerRotates(x) ==
  /\ GrantAgain(x)
  /\ exchange[x].provider \in Rotates
  /\ Respond(x, "rotated", Granted(issued + 1, issued + 1))
  /\ live' = [live EXCEPT ![exchange[x].provider] =
                (@ \ {exchange[x].token}) \cup {issued + 1}]

\* The refresh token stays good; the response omits it, leaves it blank or
\* repeats it.
ServerKeeps(x) ==
  /\ GrantAgain(x)
  /\ exchange[x].provider \in Keeps
  /\ \E refresh \in {NoToken, Blank, exchange[x].token} :
        Respond(x, "kept", Granted(issued + 1, refresh))
  /\ UNCHANGED live

ServerRefuses(x) ==
  /\ Pending(x)
  /\ \E reply \in Refusals : Respond(x, "refused", reply)
  /\ UNCHANGED <<store, call, live, issued, session, newest>>

-----------------------------------------------------------------------------
Sign(c) ==
  \/ \E p \in Providers, method \in {"oauth", "device", "api_key"} :
        SignInRejected(c, p, method) \/ SignInGranted(c, p, method)
  \/ SignInStored(c)
  \/ SignInUnsaved(c)
  \/ \E p \in Providers : Logout(c, p)

Refresh(c) ==
  \/ \E p \in Providers : RefreshRejected(c, p)
  \/ \E p \in Providers, x \in Exchanges : RefreshSend(c, p, x)
  \/ RefreshStored(c)
  \/ RefreshUnsaved(c)
  \/ RefreshFailed(c)
  \/ RefreshTimeout(c)
  \/ RefreshDropped(c)

Server(x) == ServerRotates(x) \/ ServerKeeps(x) \/ ServerRefuses(x)

Next ==
  \/ \E c \in Callers : Sign(c) \/ Refresh(c)
  \/ \E x \in Exchanges : Server(x)

Spec == Init /\ [][Next]_vars

\* The 30 s timeout of the HTTP client ends every wait.  Nothing else is fair:
\* a provider may stay silent, and no caller has to call.
Fairness == \A c \in Callers : WF_vars(RefreshTimeout(c))

FairSpec == Spec /\ Fairness

-----------------------------------------------------------------------------
TypeOK ==
  /\ store \in [Providers -> Credentials]
  /\ call \in [Callers -> Calls]
  /\ exchange \in [Exchanges -> Requests]
  /\ live \in [Providers -> SUBSET Grants]
  /\ issued \in 0 .. MaxGrants
  /\ session \in [Grants -> Grants \cup {0}]
  /\ newest \in [Providers -> Grants \cup {0}]

\* A rotated refresh token whose replacement never reached the store.
LostRotation(p, token) ==
  \E x \in Exchanges : /\ exchange[x].provider = p
                       /\ exchange[x].token = token
                       /\ exchange[x].answer = "rotated"
                       /\ ~exchange[x].stored

DeathExplained(p) ==
  Refreshable(store[p]) =>
    store[p].refresh \in live[p] \/ LostRotation(p, store[p].refresh)

\* The refresh token in the store is one its provider still honours, unless an
\* exchange that rotated exactly that token never got its result stored: with a
\* provider that always rotates or never does, no interleaving of refreshes,
\* sign-ins and sign-outs writes a consumed token back (refresh_stored).
TokenDeathExplained ==
  \A p \in Providers : p \notin Rotates \cap Keeps => DeathExplained(p)

\* The same for providers that rotate at will, when calls are serialized.
TokenDeathExplainedSerialized ==
  Serialized => \A p \in Providers : DeathExplained(p)

RefreshedBy(c) == call[c].phase = "waiting" /\ call'[c].phase = "idle" /\ call'[c].outcome = "ok"

\* A refresh never costs a provider's session its refresh token: whatever the
\* response leaves out, what refresh_stored writes can be refreshed again.
RefreshStaysRefreshable ==
  [][\A c \in Callers :
       RefreshedBy(c) => Refreshable(store'[call[c].provider])]_vars

\* Once signed out, only a sign-in brings a credential back (logout: "Sign out
\* of a provider by deleting any stored credential").
SignedOutUntilSignIn ==
  [][\A p \in Providers :
       store[p] = NoCred /\ store'[p] # NoCred =>
         \E c \in Callers : call[c].phase = "holding" /\ call[c].provider = p]_vars

\* refresh_stored does not turn away a stored OAuth credential that has a
\* refresh token, however it was minted, as an unsupported method.
RefreshableIsServed ==
  [][\A c \in Callers, p \in Providers :
       RefreshRejected(c, p) /\ Refreshable(store[p]) =>
         call'[c].outcome # "unsupported_method"]_vars

\* Every refresh returns, even when the provider never answers.
RefreshReturns ==
  \A c \in Callers : call[c].phase = "waiting" ~> call[c].phase = "idle"

-----------------------------------------------------------------------------
(* What the store and its callers implement when calls are serialized. *)

SessionOf(cred) == IF cred = NoCred THEN 0 ELSE session[cred.access]

Lifecycle ==
  INSTANCE CredentialLifecycle WITH
    session <- [p \in Providers |-> SessionOf(store[p])],
    access <- [p \in Providers |-> store[p].access],
    newest <- newest

\* Sign-ins, refreshes and sign-outs of one provider take effect one at a time
\* and in order: a refresh renews the session that is stored and no other, and
\* nothing but a sign-in follows a sign-out.
LifecycleSpec == Lifecycle!Spec
=============================================================================
