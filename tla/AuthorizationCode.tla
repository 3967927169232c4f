--------------------------- MODULE AuthorizationCode ---------------------------
(***************************************************************************)
(* The browser sign-in (flow/authorization_code.rs): begin() binds a       *)
(* loopback listener and names it in the redirect URI; wait() accepts      *)
(* requests there until one is the redirect it is for, and redeems the     *)
(* code.  Several sign-ins of one machine may be under way, or follow each *)
(* other on one port, while old browser tabs are still around.             *)
(*                                                                         *)
(* The anti-CSRF state of a session and the code minted for it are the     *)
(* session itself: they are random, so no two sessions share one.          *)
(***************************************************************************)
EXTENDS TokenPath, Sequences

CONSTANTS
  Sessions,    \* the sign-ins
  Config,      \* per session, the redirect it is configured with
  Families,    \* the loopback families this machine has
  Ports,
  AnyPort,     \* a port of 0: the operating system picks one
  Timeouts,    \* what an application may pass to wait
  InstantMax,  \* the last representable instant
  MaxLoads,    \* requests that reach a listener in all (a bound)
  LastStart,   \* no wait starts later than this (a bound)
  LocalRequests, \* what other programs of the machine may send to a listener
  None

Hosts == {"v4", "v6", "localhost"}

\* kind "loopback": begin chooses host and path; "fixed": a registered redirect.
ASSUME ConfigAssumption ==
  Config \in [Sessions -> [kind : {"loopback", "fixed"}, host : Hosts,
                           port : Ports \cup {AnyPort}]]
ASSUME MachineAssumption ==
  Families \subseteq {"v4", "v6"} /\ AnyPort \notin Ports
ASSUME TimeAssumption ==
  Timeouts \subseteq Nat /\ {InstantMax, MaxLoads, LastStart} \subseteq Nat
ASSUME NoneAssumption == None \notin Sessions

Addresses == {"v4", "v6"} \X Ports

VARIABLES
  now,
  phase,     \* where each sign-in is: see Phases
  result,    \* what begin or wait returned
  listener,  \* the session listening on each address
  named,     \* the host and port of each session's redirect URI
  inbox,     \* the requests a listener has accepted, oldest first
  deadline,  \* accept_code's local
  recv_end,  \* when the recv_timeout under way gives up
  code,      \* the code wait has taken from a redirect
  tabs,      \* the redirects sitting in browser tabs, to be loaded or reloaded
  decided,   \* the sign-ins the user has approved or denied at the provider
  approved,  \* those approved
  redeemed,  \* the codes the provider has turned into tokens
  loads      \* how many requests have been accepted so far

clocks  == <<now, deadline, recv_end>>
binding == <<listener, named>>
browser == <<tabs, decided, approved>>
vars == <<phase, result, clocks, binding, inbox, code, browser, redeemed, loads>>

Phases == {"new", "begun", "waiting", "exchanging", "done"}
Results == {"none", "ok", "timeout", "state_mismatch", "loopback", "dropped",
            "http", "authorization", "malformed"}
Codes == {"invalid_grant"}

Requests == [callback : BOOLEAN, code : Sessions \cup {None},
             state : Sessions \cup {None}, error : BOOLEAN]
ASSUME LocalAssumption == LocalRequests \subseteq Requests
Redirects == [host : Hosts, port : Ports]

Init ==
  /\ now = 0
  /\ phase = [s \in Sessions |-> "new"]
  /\ result = [s \in Sessions |-> "none"]
  /\ listener = [a \in Addresses |-> None]
  /\ named = [s \in Sessions |-> None]
  /\ inbox = [s \in Sessions |-> <<>>]
  /\ deadline = [s \in Sessions |-> 0]
  /\ recv_end = [s \in Sessions |-> 0]
  /\ code = [s \in Sessions |-> None]
  /\ tabs = {} /\ decided = {} /\ approved = {}
  /\ redeemed = {}
  /\ loads = 0

-----------------------------------------------------------------------------
(* begin: bind a listener, preferring one family and falling back to the   *)
(* other.                                                                  *)

First(config)  == IF config.kind = "fixed" /\ config.host = "v6" THEN "v6" ELSE "v4"
Other(family)  == IF family = "v4" THEN "v6" ELSE "v4"
Choices(config) == IF config.port = AnyPort THEN Ports ELSE {config.port}

Free(family, port) == family \in Families /\ listener[<<family, port>>] = None

\* Mutant: always the IPv4 loopback.
RedirectHostV4(config, family) ==
  IF config.kind = "loopback" THEN "v4" ELSE config.host

\* A redirect begin makes up names the family that bound; a registered one
\* keeps its host.
RedirectHost(config, family) ==
  IF config.kind = "loopback" THEN family ELSE config.host

\* Mutant: the redirect names the port asked for, not the one bound.
BindUnnamed(s, family) ==
  \E port \in Choices(Config[s]) :
    /\ Free(family, port)
    /\ listener' = [listener EXCEPT ![<<family, port>>] = s]
    /\ named' = [named EXCEPT ![s] =
                   [host |-> RedirectHost(Config[s], family), port |-> Config[s].port]]

Bind(s, family) ==
  \E port \in Choices(Config[s]) :
    /\ Free(family, port)
    /\ listener' = [listener EXCEPT ![<<family, port>>] = s]
    /\ named' = [named EXCEPT ![s] = [host |-> RedirectHost(Config[s], family), port |-> port]]

\* A free address may still refuse, held by some other program.
BeginOk(s) ==
  /\ phase[s] = "new"
  /\ LET family == First(Config[s]) IN Bind(s, family) \/ Bind(s, Other(family))
  /\ phase' = [phase EXCEPT ![s] = "begun"]
  /\ UNCHANGED <<result, clocks, inbox, code, browser, redeemed, loads>>

BeginFailed(s) ==
  /\ phase[s] = "new"
  /\ phase' = [phase EXCEPT ![s] = "done"]
  /\ result' = [result EXCEPT ![s] = "loopback"]
  /\ UNCHANGED <<clocks, binding, inbox, code, browser, redeemed, loads>>

-----------------------------------------------------------------------------
(* wait: accept requests until one ends it. *)

\* Mutant: the server outlives its sign-in.
CloseLeaking(s) ==
  /\ inbox' = [inbox EXCEPT ![s] = <<>>]
  /\ deadline' = [deadline EXCEPT ![s] = 0]
  /\ recv_end' = [recv_end EXCEPT ![s] = 0]
  /\ UNCHANGED <<listener, named>>

\* Dropping the server closes the listener and whatever it had accepted; the
\* task's clocks go with the task.
Close(s) ==
  /\ listener' = [a \in Addresses |-> IF listener[a] = s THEN None ELSE listener[a]]
  /\ inbox' = [inbox EXCEPT ![s] = <<>>]
  /\ deadline' = [deadline EXCEPT ![s] = 0]
  /\ recv_end' = [recv_end EXCEPT ![s] = 0]
  /\ UNCHANGED named

\* A caller that has gone learns nothing any more.
Return(s, outcome) ==
  /\ phase' = [phase EXCEPT ![s] = "done"]
  /\ result' = [result EXCEPT ![s] = IF @ = "dropped" THEN @ ELSE outcome]

\* The blocking task starts; a deadline past the last instant panics in it, which
\* wait reports as a loopback error.
WaitStart(s) ==
  /\ phase[s] = "begun"
  /\ now <= LastStart
  /\ \E timeout \in Timeouts :
       IF now + timeout > InstantMax
       THEN Return(s, "loopback") /\ Close(s)
       ELSE /\ phase' = [phase EXCEPT ![s] = "waiting"]
            /\ deadline' = [deadline EXCEPT ![s] = now + timeout]
            /\ recv_end' = [recv_end EXCEPT ![s] = now + timeout]
            /\ UNCHANGED <<result, binding, inbox>>
  /\ UNCHANGED <<now, code, browser, redeemed, loads>>

\* Mutant: a receive without a timeout.
WaitNoTimeout(s) ==
  /\ phase[s] = "waiting"
  /\ inbox[s] # <<>>
  /\ now >= deadline[s]
  /\ Return(s, "timeout")
  /\ Close(s)
  /\ UNCHANGED <<now, code, browser, redeemed, loads>>

\* recv_timeout gives up, or the loop finds no time left.
WaitTimeout(s) ==
  /\ phase[s] = "waiting"
  /\ now >= recv_end[s] \/ now >= deadline[s]
  /\ Return(s, "timeout")
  /\ Close(s)
  /\ UNCHANGED <<now, code, browser, redeemed, loads>>

\* Accepting connections failed.
WaitBroken(s) ==
  /\ phase[s] = "waiting"
  /\ Return(s, "loopback")
  /\ Close(s)
  /\ UNCHANGED <<now, code, browser, redeemed, loads>>

Accept(s, request) ==
  /\ phase[s] = "waiting"
  /\ now < deadline[s]
  /\ inbox[s] # <<>>
  /\ request = Head(inbox[s])
  /\ UNCHANGED <<now, browser, redeemed, loads>>

\* A favicon, a probe, a request with neither a code nor an error: answered, and
\* the loop waits for what is left of the time.
Stray(request) == ~request.callback \/ (~request.error /\ request.code = None)

\* Mutant: every stray request starts a whole timeout again.
AcceptStrayAnew(s) ==
  \E request \in Requests :
    /\ Accept(s, request)
    /\ Stray(request)
    /\ inbox' = [inbox EXCEPT ![s] = Tail(@)]
    /\ \E timeout \in Timeouts :
         /\ now + timeout <= InstantMax
         /\ recv_end' = [recv_end EXCEPT ![s] = now + timeout]
    /\ UNCHANGED <<phase, result, deadline, binding, code>>

AcceptStray(s) ==
  \E request \in Requests :
    /\ Accept(s, request)
    /\ Stray(request)
    /\ inbox' = [inbox EXCEPT ![s] = Tail(@)]
    /\ recv_end' = [recv_end EXCEPT ![s] = deadline[s]]
    /\ UNCHANGED <<phase, result, deadline, binding, code>>

\* Mutant: an error redirect is taken whatever its state, as before 0.2.4.
AcceptAnyError(s) ==
  \E request \in Requests :
    /\ Accept(s, request)
    /\ ~Stray(request) /\ request.error
    /\ Return(s, "authorization")
    /\ Close(s)
    /\ UNCHANGED code

\* The session's own error redirect.
AcceptError(s) ==
  \E request \in Requests :
    /\ Accept(s, request)
    /\ ~Stray(request) /\ request.error /\ request.state = s
    /\ Return(s, "authorization")
    /\ Close(s)
    /\ UNCHANGED code

\* A code or an error with another state, or with none.
AcceptMismatch(s) ==
  \E request \in Requests :
    /\ Accept(s, request)
    /\ ~Stray(request) /\ request.state # s
    /\ Return(s, "state_mismatch")
    /\ Close(s)
    /\ UNCHANGED code

\* Mutant: a code is taken whatever its state.
AcceptAnyCode(s) ==
  \E request \in Requests :
    /\ Accept(s, request)
    /\ ~Stray(request) /\ ~request.error
    /\ phase' = [phase EXCEPT ![s] = "exchanging"]
    /\ code' = [code EXCEPT ![s] = request.code]
    /\ Close(s)
    /\ UNCHANGED result

\* The page says SIGNED IN; the listener closes, the code goes to the exchange if
\* anyone still waits for it.
AcceptCode(s) ==
  \E request \in Requests :
    /\ Accept(s, request)
    /\ ~Stray(request) /\ ~request.error /\ request.state = s
    /\ IF result[s] = "dropped"
       THEN Return(s, "dropped") /\ UNCHANGED code
       ELSE /\ phase' = [phase EXCEPT ![s] = "exchanging"]
            /\ code' = [code EXCEPT ![s] = request.code]
            /\ UNCHANGED result
    /\ Close(s)

\* Redeeming the code: the provider grants a code once, to the verifier of the
\* session it was minted for.  Whether the answer arrives is another matter.
Replies(s) ==
  {Silence, Refused(FALSE, "invalid_grant"), Refused(TRUE, "none"), Hollow}
    \cup (IF code[s] = s /\ s \notin redeemed THEN {Granted(1, 1)} ELSE {})

Exchange(s) ==
  /\ phase[s] = "exchanging"
  /\ \E reply \in Replies(s) :
       /\ Return(s, IF PostTokenForm(reply).ok THEN "ok" ELSE PostTokenForm(reply).error)
       /\ \/ redeemed' = IF reply = Granted(1, 1) THEN redeemed \cup {s} ELSE redeemed
          \/ /\ reply = Silence /\ code[s] = s
             /\ redeemed' = redeemed \cup {s}
  /\ UNCHANGED <<clocks, binding, inbox, code, browser, loads>>

-----------------------------------------------------------------------------
(* Callers that leave.  A session dropped before wait closes its listener;  *)
(* a dropped wait leaves its blocking task, and the listener, behind.       *)

SessionDropped(s) ==
  /\ phase[s] = "begun"
  /\ Return(s, "dropped")
  /\ Close(s)
  /\ UNCHANGED <<now, code, browser, redeemed, loads>>

WaitDropped(s) ==
  /\ phase[s] \in {"waiting", "exchanging"}
  /\ result[s] # "dropped"
  /\ result' = [result EXCEPT ![s] = "dropped"]
  /\ phase' = IF phase[s] = "waiting" THEN phase ELSE [phase EXCEPT ![s] = "done"]
  /\ UNCHANGED <<clocks, binding, inbox, code, browser, redeemed, loads>>

-----------------------------------------------------------------------------
(* The provider, the user's browser and the rest of the machine. *)

\* begin returned a URL to open.
Begun(s) == named[s] # None

Redirect(s, request) ==
  /\ tabs' = tabs \cup {[to |-> named[s], request |-> request]}
  /\ UNCHANGED <<phase, result, clocks, binding, inbox, code, redeemed, loads>>

\* The authorize URL was opened and the user consented, perhaps much later.
Approve(s) ==
  /\ Begun(s) /\ s \notin decided
  /\ decided' = decided \cup {s} /\ approved' = approved \cup {s}
  /\ Redirect(s, [callback |-> TRUE, code |-> s, state |-> s, error |-> FALSE])

\* Some providers leave the state out of an error redirect.
Deny(s) ==
  /\ Begun(s) /\ s \notin decided
  /\ decided' = decided \cup {s} /\ UNCHANGED approved
  /\ \E state \in {s, None} :
       Redirect(s, [callback |-> TRUE, code |-> None, state |-> state, error |-> TRUE])

\* localhost is tried in both families.
HostFamilies(host) == IF host = "localhost" THEN {"v4", "v6"} ELSE {host}

Reach(address, request) ==
  /\ listener[address] # None
  /\ loads < MaxLoads
  /\ loads' = loads + 1
  /\ inbox' = [inbox EXCEPT ![listener[address]] = Append(@, request)]
  /\ UNCHANGED <<phase, result, clocks, binding, code, browser, redeemed>>

\* The browser loads a tab, for the first time or again.
Load ==
  \E tab \in tabs, family \in Families :
    /\ family \in HostFamilies(tab.to.host)
    /\ Reach(<<family, tab.to.port>>, tab.request)

\* Another program of the machine sends what it likes.  Only a code or an error with
\* the listening session's own state is beyond it: that state is random, and shown
\* to the user's browser and the provider alone.
Probe ==
  \E address \in Addresses, request \in LocalRequests :
    /\ request.code # None \/ request.error => request.state # listener[address]
    /\ Reach(address, request)

\* A receive that is due returns before the clock moves on.
Tick ==
  /\ now < LastStart \/ \E s \in Sessions : phase[s] = "waiting"
  /\ \A s \in Sessions : phase[s] = "waiting" => now < recv_end[s]
  /\ now' = now + 1
  /\ UNCHANGED <<phase, result, deadline, recv_end, binding, inbox, code, browser,
                 redeemed, loads>>

SignIn(s) ==
  \/ BeginOk(s) \/ BeginFailed(s)
  \/ WaitStart(s) \/ WaitTimeout(s) \/ WaitBroken(s)
  \/ AcceptStray(s) \/ AcceptError(s) \/ AcceptMismatch(s) \/ AcceptCode(s)
  \/ Exchange(s)
  \/ SessionDropped(s) \/ WaitDropped(s)

Next ==
  \/ \E s \in Sessions : SignIn(s) \/ Approve(s) \/ Deny(s)
  \/ Load \/ Probe \/ Tick

Spec == Init /\ [][Next]_vars

\* Time passes, a receive that is due returns, the HTTP client times out.
Fairness ==
  /\ WF_vars(Tick)
  /\ \A s \in Sessions : WF_vars(WaitTimeout(s)) /\ WF_vars(Exchange(s))

FairSpec == Spec /\ Fairness

-----------------------------------------------------------------------------
TypeOK ==
  /\ now \in Nat
  /\ phase \in [Sessions -> Phases] /\ result \in [Sessions -> Results]
  /\ listener \in [Addresses -> Sessions \cup {None}]
  /\ named \in [Sessions -> Redirects \cup {None}]
  /\ inbox \in [Sessions -> Seq(Requests)]
  /\ deadline \in [Sessions -> Nat] /\ recv_end \in [Sessions -> Nat]
  /\ code \in [Sessions -> Sessions \cup {None}]
  /\ tabs \subseteq [to : Redirects, request : Requests]
  /\ approved \subseteq decided /\ decided \subseteq Sessions
  /\ redeemed \subseteq Sessions
  /\ loads \in 0 .. MaxLoads

Listening(s) == \E a \in Addresses : listener[a] = s

\* Whatever tabs of other sign-ins are loaded on its port, a session only ever
\* sends the token endpoint the code minted for it (accept_code's state check).
OwnCodeOnly == \A s \in Sessions : code[s] \in {s, None}

\* A sign-in succeeds only if the user approved that very sign-in.
SignedInMeansApproved ==
  \A s \in Sessions : result[s] = "ok" => s \in approved /\ s \in redeemed

\* A sign-in is reported refused only if its own user denied it, or the token
\* endpoint refused its own code: no other session's error redirect and no local
\* request is taken for a denial (the state that ?error= must carry).
DenialIsOwn ==
  \A s \in Sessions :
    result[s] = "authorization" => s \in decided /\ (s \in approved => code[s] = s)

\* However many strays arrive, no receive goes on past the deadline.
WaitIsBounded ==
  \A s \in Sessions : phase[s] = "waiting" => now <= deadline[s]

\* No port outlives its sign-in: a listener is open exactly while the session is
\* held or its blocking task runs.
ListenersOwned ==
  \A s \in Sessions : Listening(s) <=> phase[s] \in {"begun", "waiting"}

\* The redirect URI of a loopback redirect leads to the session's own listener,
\* whichever family bound.
LoopbackReachable ==
  \A s \in Sessions :
    Listening(s) /\ Config[s].kind = "loopback" =>
      listener[<<named[s].host, named[s].port>>] = s

\* A wait that has begun is over in the end and has given its port back, even
\* when its caller has gone and no redirect ever comes.
PortReleased ==
  \A s \in Sessions : phase[s] = "waiting" ~> ~Listening(s)

\* The redirect of a registered URI leads to the session's listener too.  It need
\* not: begin falls back on the other family and leaves a registered URI as it is.
FixedReachable ==
  \A s \in Sessions :
    Listening(s) =>
      \E family \in HostFamilies(named[s].host) :
        listener[<<family, named[s].port>>] = s

\* "Preventing unauthenticated local session aborts", "a probe to the ephemeral
\* callback port can no longer cancel an in-progress sign-in": a wait ends in a state
\* mismatch only if some sign-in's redirect to its port carried another state, or none.
NoLocalAbort ==
  \A s \in Sessions :
    result[s] = "state_mismatch" =>
      \E tab \in tabs : tab.to.port = named[s].port /\ tab.request.state # s

\* "Block until the browser redirect arrives (or timeout elapses)": wait on an
\* open listener reports no loopback error.
WaitBlocks ==
  [][\A s \in Sessions : phase[s] = "begun" => result'[s] # "loopback"]_vars
=============================================================================
