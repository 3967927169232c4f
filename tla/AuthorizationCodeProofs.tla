------------------------ MODULE AuthorizationCodeProofs ------------------------
(***************************************************************************)
(* The browser sign-in for any number of sessions, ports and requests,     *)
(* any configuration of redirects and any loopback families.               *)
(*                                                                         *)
(* The invariant follows a code from the approval that minted it into a    *)
(* tab, from the tab into a listener's inbox, and from there to the token  *)
(* endpoint, and ties each open listener to the session that holds it.     *)
(***************************************************************************)
EXTENDS AuthorizationCode, TLAPS

\* What a redirect of the provider may carry: a code comes with the state of the
\* session it was minted for, and only once that one is approved; an error comes
\* with the state of a session its user denied, or with none.
Genuine ==
  {r \in Requests :
     /\ r.code # None => r.code = r.state /\ r.code \in approved
     /\ r.error => r.state = None \/ r.state \in decided \ approved}

\* What may wait in the inbox of a session: a request with neither a code nor an
\* error, another program's without the session's state, or a redirect to its port.
Arrived(s) ==
  {r \in Requests :
     r.code # None \/ r.error =>
       \/ r \in LocalRequests /\ r.state # s
       \/ r \in Genuine /\ \E tab \in tabs : tab.request = r /\ tab.to.port = named[s].port}

\* No other program of the machine sends a code or an error.
QuietMachine == \A r \in LocalRequests : r.code = None /\ ~r.error

Held(s) == phase[s] \in {"begun", "waiting"}

\* Listeners and the redirects that name them.
BindingOK ==
  /\ ListenersOwned
  /\ \A a \in Addresses, s \in Sessions :
       listener[a] = s =>
         /\ named[s].port = a[2]
         /\ Config[s].kind = "loopback" => named[s].host = a[1]

\* Where the requests come from.
TabsOK    == \A tab \in tabs : tab.request \in Genuine
InboxOK   == \A s \in Sessions : inbox[s] \in Seq(Arrived(s))
EmptyOK   == \A s \in Sessions : ~Held(s) => inbox[s] = <<>>
BrowserOK == TabsOK /\ InboxOK /\ EmptyOK

\* A code is the session's own, and was approved.
CodeOK ==
  \A s \in Sessions :
    /\ code[s] \in {s, None}
    /\ code[s] = s => s \in approved
    /\ phase[s] = "exchanging" => code[s] = s

\* What wait's clock is at.
ClockOK ==
  \A s \in Sessions :
    phase[s] = "waiting" => now <= recv_end[s] /\ recv_end[s] <= deadline[s]

\* What the application has been told.
ToldOK ==
  /\ \A s \in Sessions : phase[s] = "new" => result[s] = "none"
  /\ SignedInMeansApproved /\ DenialIsOwn
  /\ QuietMachine => NoLocalAbort

SignInOK ==
  /\ TypeOK /\ BindingOK /\ BrowserOK /\ CodeOK /\ ClockOK /\ ToldOK

-----------------------------------------------------------------------------
(* The pieces steps are made of. *)

\* More tabs and approvals make no request less genuine, nor one that has arrived
\* at a listener less explained.
LEMMA RequestsGrow ==
  ASSUME approved \subseteq approved', decided \ approved \subseteq decided' \ approved',
         tabs \subseteq tabs', NEW s \in Sessions, named'[s] = named[s]
  PROVE  /\ Genuine \subseteq Genuine'
         /\ Arrived(s) \subseteq Arrived(s)'
         /\ inbox[s] \in Seq(Arrived(s)) => inbox[s] \in Seq(Arrived(s)')
<1>1. Genuine \subseteq Genuine'
  BY DEF Genuine
<1>2. Arrived(s) \subseteq Arrived(s)'
  BY <1>1 DEF Arrived
<1> QED
  BY <1>1, <1>2

\* Dropping a server closes every listener of the session, and no other.
LEMMA Closed ==
  ASSUME TypeOK, NEW s \in Sessions, Close(s)
  PROVE  /\ listener' \in [Addresses -> Sessions \cup {None}]
         /\ inbox' \in [Sessions -> Seq(Requests)]
         /\ deadline' \in [Sessions -> Nat] /\ recv_end' \in [Sessions -> Nat]
         /\ named' = named
         /\ inbox'[s] = <<>>
         /\ ~Listening(s)'
         /\ \A t \in Sessions \ {s} :
              /\ Listening(t)' <=> Listening(t)
              /\ inbox'[t] = inbox[t] /\ deadline'[t] = deadline[t] /\ recv_end'[t] = recv_end[t]
         /\ \A a \in Addresses, t \in Sessions : listener'[a] = t => listener[a] = t
<1>1. /\ listener' = [a \in Addresses |-> IF listener[a] = s THEN None ELSE listener[a]]
      /\ inbox' = [inbox EXCEPT ![s] = <<>>]
      /\ deadline' = [deadline EXCEPT ![s] = 0]
      /\ recv_end' = [recv_end EXCEPT ![s] = 0]
      /\ named' = named
  BY DEF Close
<1>2. <<>> \in Seq(Requests)
  OBVIOUS
<1>3. None \notin Sessions
  BY NoneAssumption
<1>4. listener \in [Addresses -> Sessions \cup {None}]
  BY DEF TypeOK
<1>5. /\ ~Listening(s)'
      /\ \A t \in Sessions \ {s} : Listening(t)' <=> Listening(t)
      /\ \A a \in Addresses, t \in Sessions : listener'[a] = t => listener[a] = t
      /\ listener' \in [Addresses -> Sessions \cup {None}]
  BY <1>1, <1>3, <1>4 DEF Listening
<1> QED
  BY <1>1, <1>2, <1>5 DEF TypeOK

\* What becomes of a session whose listener closes: told what, carrying which code.
LEMMA LeavingKeeps ==
  ASSUME SignInOK, NEW s \in Sessions, Close(s), phase[s] # "new",
         UNCHANGED <<now, browser, redeemed, loads>>,
         NEW next \in {"done", "exchanging"}, NEW told \in Results,
         NEW kept \in {code[s], s},
         phase' = [phase EXCEPT ![s] = next],
         result' = [result EXCEPT ![s] = told],
         code' = [code EXCEPT ![s] = kept],
         told = "ok" => result[s] = "ok",
         told = "authorization" =>
           result[s] = "authorization" \/ (s \in decided /\ (s \in approved => kept = s)),
         QuietMachine /\ told = "state_mismatch" =>
           \/ result[s] = "state_mismatch"
           \/ \E tab \in tabs : tab.to.port = named[s].port /\ tab.request.state # s,
         next = "exchanging" => kept = s,
         kept = s => code[s] = s \/ s \in approved
  PROVE  SignInOK'
<1>1. /\ listener' \in [Addresses -> Sessions \cup {None}]
      /\ inbox' \in [Sessions -> Seq(Requests)]
      /\ deadline' \in [Sessions -> Nat] /\ recv_end' \in [Sessions -> Nat]
      /\ named' = named
      /\ inbox'[s] = <<>>
      /\ ~Listening(s)'
      /\ \A t \in Sessions \ {s} :
           /\ Listening(t)' <=> Listening(t)
           /\ inbox'[t] = inbox[t] /\ deadline'[t] = deadline[t] /\ recv_end'[t] = recv_end[t]
      /\ \A a \in Addresses, t \in Sessions : listener'[a] = t => listener[a] = t
  BY Closed DEF SignInOK
<1>2. UNCHANGED <<now, tabs, decided, approved, redeemed, loads>>
  BY DEF browser
<1>3. /\ phase \in [Sessions -> Phases] /\ result \in [Sessions -> Results]
      /\ code \in [Sessions -> Sessions \cup {None}]
  BY DEF SignInOK, TypeOK
<1>4. /\ phase' \in [Sessions -> Phases] /\ result' \in [Sessions -> Results]
      /\ code' \in [Sessions -> Sessions \cup {None}]
  <2>1. next \in Phases /\ kept \in Sessions \cup {None}
    BY <1>3 DEF Phases
  <2> QED
    BY <1>3, <2>1
<1>5. /\ phase'[s] = next /\ result'[s] = told /\ code'[s] = kept
      /\ \A t \in Sessions \ {s} :
           phase'[t] = phase[t] /\ result'[t] = result[t] /\ code'[t] = code[t]
  BY <1>3
<1>6. TypeOK'
  BY <1>1, <1>2, <1>4 DEF SignInOK, TypeOK
<1>7. BindingOK'
  <2>1. ASSUME NEW t \in Sessions
        PROVE  Listening(t)' <=> phase'[t] \in {"begun", "waiting"}
    BY <1>1, <1>5 DEF SignInOK, BindingOK, ListenersOwned
  <2>2. ListenersOwned'
    BY <2>1 DEF ListenersOwned, Listening
  <2> QED
    BY <1>1, <2>2 DEF SignInOK, BindingOK
<1>8. BrowserOK'
  <2>1. Genuine' = Genuine /\ \A t \in Sessions : Arrived(t)' = Arrived(t)
    BY <1>1, <1>2 DEF Genuine, Arrived
  <2>2. \A t \in Sessions : <<>> \in Seq(Arrived(t))
    OBVIOUS
  <2>3. \A t \in Sessions : inbox'[t] \in Seq(Arrived(t))
    BY <1>1, <2>2 DEF SignInOK, BrowserOK, InboxOK
  <2>4. \A t \in Sessions : inbox'[t] \in Seq(Arrived(t)')
    BY <2>1, <2>3
  <2>5. EmptyOK'
    BY <1>1, <1>5 DEF SignInOK, BrowserOK, EmptyOK, Held
  <2> QED
    BY <1>2, <2>1, <2>4, <2>5 DEF SignInOK, BrowserOK, TabsOK, InboxOK
<1>9. CodeOK'
  BY <1>2, <1>5 DEF SignInOK, CodeOK
<1>10. ClockOK'
  BY <1>1, <1>2, <1>5 DEF SignInOK, ClockOK
<1>11. ToldOK'
  BY <1>1, <1>2, <1>5 DEF SignInOK, ToldOK, SignedInMeansApproved, DenialIsOwn, NoLocalAbort
<1> QED
  BY <1>6, <1>7, <1>8, <1>9, <1>10, <1>11 DEF SignInOK

\* What becomes of a session whose listener stays as it is.
LEMMA StayingKeeps ==
  ASSUME SignInOK, NEW s \in Sessions,
         NEW next \in Phases \ {"new"}, NEW told \in Results, NEW d \in Nat, NEW r \in Nat,
         phase' = [phase EXCEPT ![s] = next],
         result' = [result EXCEPT ![s] = told],
         deadline' = [deadline EXCEPT ![s] = d],
         recv_end' = [recv_end EXCEPT ![s] = r],
         redeemed \subseteq redeemed', redeemed' \subseteq Sessions,
         UNCHANGED <<now, listener, named, inbox, code, tabs, decided, approved, loads>>,
         Held(s) <=> next \in {"begun", "waiting"},
         next = "waiting" => now <= r /\ r <= d,
         next = "exchanging" => phase[s] = "exchanging",
         told = "ok" => result[s] = "ok" \/ (s \in approved /\ s \in redeemed'),
         told = "authorization" =>
           result[s] = "authorization" \/ (s \in decided /\ (s \in approved => code[s] = s)),
         told = "state_mismatch" => result[s] = "state_mismatch"
  PROVE  SignInOK'
<1>1. /\ phase \in [Sessions -> Phases] /\ result \in [Sessions -> Results]
      /\ deadline \in [Sessions -> Nat] /\ recv_end \in [Sessions -> Nat]
  BY DEF SignInOK, TypeOK
<1>2. /\ phase' \in [Sessions -> Phases] /\ result' \in [Sessions -> Results]
      /\ deadline' \in [Sessions -> Nat] /\ recv_end' \in [Sessions -> Nat]
  BY <1>1
<1>3. /\ phase'[s] = next /\ result'[s] = told /\ deadline'[s] = d /\ recv_end'[s] = r
      /\ \A t \in Sessions \ {s} :
           /\ phase'[t] = phase[t] /\ result'[t] = result[t]
           /\ deadline'[t] = deadline[t] /\ recv_end'[t] = recv_end[t]
  BY <1>1
<1>4. \A t \in Sessions : Held(t) <=> phase'[t] \in {"begun", "waiting"}
  BY <1>3 DEF Held
<1>5. TypeOK'
  BY <1>2 DEF SignInOK, TypeOK
<1>6. BindingOK'
  BY <1>4 DEF SignInOK, BindingOK, ListenersOwned, Listening, Held
<1>7. BrowserOK'
  <2>1. Genuine' = Genuine /\ \A t \in Sessions : Arrived(t)' = Arrived(t)
    BY DEF Genuine, Arrived
  <2>2. EmptyOK'
    BY <1>4 DEF SignInOK, BrowserOK, EmptyOK, Held
  <2> QED
    BY <2>1, <2>2 DEF SignInOK, BrowserOK, TabsOK, InboxOK
<1>8. CodeOK'
  BY <1>3 DEF SignInOK, CodeOK
<1>9. ClockOK'
  BY <1>3 DEF SignInOK, ClockOK
<1>10. ToldOK'
  BY <1>3 DEF SignInOK, ToldOK, SignedInMeansApproved, DenialIsOwn, NoLocalAbort
<1> QED
  BY <1>5, <1>6, <1>7, <1>8, <1>9, <1>10 DEF SignInOK

-----------------------------------------------------------------------------
(* One step of a sign-in. *)

\* Before any sign-in nothing listens and no tab is open.
LEMMA InitOK == Init => SignInOK
<1> SUFFICES ASSUME Init PROVE SignInOK
  OBVIOUS
<1>1. None \notin Sessions /\ <<>> \in Seq(Requests) /\ 0 \in 0 .. MaxLoads
  BY NoneAssumption, TimeAssumption
<1>2. TypeOK
  BY <1>1 DEF Init, TypeOK, Phases, Results
<1>3. BindingOK
  BY <1>1 DEF Init, BindingOK, ListenersOwned, Listening
<1>4. BrowserOK
  <2>1. \A s \in Sessions : <<>> \in Seq(Arrived(s))
    OBVIOUS
  <2> QED
    BY <2>1 DEF Init, BrowserOK, TabsOK, InboxOK, EmptyOK
<1>5. CodeOK /\ ClockOK /\ ToldOK
  BY <1>1 DEF Init, CodeOK, ClockOK, ToldOK, SignedInMeansApproved, DenialIsOwn, NoLocalAbort
<1> QED
  BY <1>2, <1>3, <1>4, <1>5 DEF SignInOK

\* The address a listener is bound to, and the redirect that names it.
LEMMA Bound ==
  ASSUME TypeOK, NEW s \in Sessions, NEW family, family \in {"v4", "v6"}, Bind(s, family)
  PROVE  \E a \in Addresses, redirect \in Redirects :
           /\ listener[a] = None
           /\ listener' = [listener EXCEPT ![a] = s]
           /\ named' = [named EXCEPT ![s] = redirect]
           /\ redirect.port = a[2]
           /\ Config[s].kind = "loopback" => redirect.host = a[1]
<1>1. PICK port \in Choices(Config[s]) :
        /\ Free(family, port)
        /\ listener' = [listener EXCEPT ![<<family, port>>] = s]
        /\ named' = [named EXCEPT ![s] = [host |-> RedirectHost(Config[s], family), port |-> port]]
  BY DEF Bind
<1>2. Config[s] \in [kind : {"loopback", "fixed"}, host : Hosts, port : Ports \cup {AnyPort}]
  BY ConfigAssumption
<1>3. port \in Ports
  BY <1>2 DEF Choices
<1>4. RedirectHost(Config[s], family) \in Hosts
  BY <1>2 DEF RedirectHost, Hosts
<1> DEFINE a == <<family, port>>
           redirect == [host |-> RedirectHost(Config[s], family), port |-> port]
<1>5. a \in Addresses /\ redirect \in Redirects
  BY <1>3, <1>4 DEF Addresses, Redirects
<1>6. /\ redirect.port = a[2]
      /\ Config[s].kind = "loopback" => redirect.host = a[1]
  BY DEF RedirectHost
<1>7. listener[a] = None
  BY <1>1 DEF Free
<1> QED
  BY <1>1, <1>5, <1>6, <1>7

\* begin opens a listener, or fails (begin).
LEMMA BeginKeeps ==
  ASSUME SignInOK, NEW s \in Sessions, BeginOk(s) \/ BeginFailed(s)
  PROVE  SignInOK'
<1>1. CASE BeginOk(s)
  <2>1. /\ phase[s] = "new" /\ phase' = [phase EXCEPT ![s] = "begun"]
        /\ UNCHANGED <<result, now, deadline, recv_end, inbox, code, tabs, decided, approved,
                       redeemed, loads>>
    BY <1>1 DEF BeginOk, clocks, browser
  <2>2. First(Config[s]) \in {"v4", "v6"} /\ Other(First(Config[s])) \in {"v4", "v6"}
    BY DEF First, Other
  <2>3. PICK a \in Addresses, redirect \in Redirects :
          /\ listener[a] = None
          /\ listener' = [listener EXCEPT ![a] = s]
          /\ named' = [named EXCEPT ![s] = redirect]
          /\ redirect.port = a[2]
          /\ Config[s].kind = "loopback" => redirect.host = a[1]
    BY <1>1, <2>2, Bound DEF BeginOk, SignInOK
  <2>4. /\ None \notin Sessions
        /\ phase \in [Sessions -> Phases] /\ listener \in [Addresses -> Sessions \cup {None}]
        /\ named \in [Sessions -> Redirects \cup {None}]
        /\ tabs \subseteq [to : Redirects, request : Requests]
    BY NoneAssumption DEF SignInOK, TypeOK
  <2>5. /\ phase' \in [Sessions -> Phases] /\ listener' \in [Addresses -> Sessions \cup {None}]
        /\ named' \in [Sessions -> Redirects \cup {None}]
        /\ \A t \in Sessions \ {s} : phase'[t] = phase[t] /\ named'[t] = named[t]
        /\ phase'[s] = "begun" /\ named'[s] = redirect
    BY <2>1, <2>3, <2>4 DEF Phases
  <2>6. TypeOK'
    BY <2>1, <2>5 DEF SignInOK, TypeOK
  <2>7. BindingOK'
    <3>1. /\ listener'[a] = s
          /\ \A b \in Addresses \ {a} : listener'[b] = listener[b]
      BY <2>3, <2>4
    <3>2. \A t \in Sessions \ {s} : Listening(t)' <=> Listening(t)
      BY <2>3, <2>4, <3>1 DEF Listening
    <3>3. Listening(s)'
      BY <3>1 DEF Listening
    <3>4. ASSUME NEW t \in Sessions
          PROVE  Listening(t)' <=> phase'[t] \in {"begun", "waiting"}
      BY <2>5, <3>2, <3>3 DEF SignInOK, BindingOK, ListenersOwned
    <3>5. ListenersOwned'
      BY <3>4 DEF ListenersOwned, Listening
    <3>6. \A b \in Addresses : listener[b] # s
      BY <2>1 DEF SignInOK, BindingOK, ListenersOwned, Listening
    <3> QED
      BY <2>3, <2>5, <3>1, <3>5, <3>6 DEF SignInOK, BindingOK
  <2>8. BrowserOK'
    <3>1. Genuine' = Genuine
      BY <2>1 DEF Genuine
    <3>2. inbox[s] = <<>>
      BY <2>1 DEF SignInOK, BrowserOK, EmptyOK, Held
    <3>3. ASSUME NEW t \in Sessions PROVE inbox'[t] \in Seq(Arrived(t)')
      <4>1. CASE t = s
        <5>1. <<>> \in Seq(Arrived(t)')
          OBVIOUS
        <5> QED
          BY <2>1, <3>2, <4>1, <5>1
      <4>2. CASE t # s
        <5>1. Arrived(t)' = Arrived(t)
          BY <2>1, <2>5, <3>1, <4>2 DEF Arrived
        <5> QED
          BY <2>1, <5>1 DEF SignInOK, BrowserOK, InboxOK
      <4> QED
        BY <4>1, <4>2
    <3>4. EmptyOK'
      BY <2>1, <2>5 DEF SignInOK, BrowserOK, EmptyOK, Held
    <3> QED
      BY <2>1, <3>1, <3>3, <3>4 DEF SignInOK, BrowserOK, TabsOK, InboxOK
  <2>9. CodeOK' /\ ClockOK'
    BY <2>1, <2>5 DEF SignInOK, CodeOK, ClockOK
  <2>10. ToldOK'
    BY <2>1, <2>5 DEF SignInOK, ToldOK, SignedInMeansApproved, DenialIsOwn, NoLocalAbort
  <2> QED
    BY <2>6, <2>7, <2>8, <2>9, <2>10 DEF SignInOK
<1>2. CASE BeginFailed(s)
  <2>1. /\ phase[s] = "new" /\ phase' = [phase EXCEPT ![s] = "done"]
        /\ result' = [result EXCEPT ![s] = "loopback"]
        /\ UNCHANGED <<now, deadline, recv_end, listener, named, inbox, code, tabs, decided,
                       approved, redeemed, loads>>
    BY <1>2 DEF BeginFailed, clocks, browser, binding
  <2>2. /\ deadline' = [deadline EXCEPT ![s] = deadline[s]] /\ deadline[s] \in Nat
        /\ recv_end' = [recv_end EXCEPT ![s] = recv_end[s]] /\ recv_end[s] \in Nat
        /\ redeemed \subseteq Sessions
    BY <2>1 DEF SignInOK, TypeOK
  <2>3. ~Held(s)
    BY <2>1 DEF Held
  <2>4. "loopback" \in Results /\ "done" \in Phases
    BY DEF Results, Phases
  <2> QED
    BY <2>1, <2>2, <2>3, <2>4, StayingKeeps
<1> QED
  BY <1>1, <1>2

\* What an application that still waits, or has left, is told.
LEMMA Returned ==
  ASSUME SignInOK, NEW s \in Sessions, NEW outcome \in Results, Return(s, outcome)
  PROVE  \E told \in {outcome, result[s]} :
           /\ told \in Results
           /\ phase' = [phase EXCEPT ![s] = "done"]
           /\ result' = [result EXCEPT ![s] = told]
           /\ told = outcome \/ told = "dropped"
<1>1. result \in [Sessions -> Results]
  BY DEF SignInOK, TypeOK
<1>2. result[s] \in Results
  BY <1>1
<1> QED
  BY <1>1, <1>2 DEF Return

\* A wait or a session that ends without a code.
LEMMA EndingKeeps ==
  ASSUME SignInOK, NEW s \in Sessions, phase[s] # "new",
         NEW outcome \in Results \ {"ok"}, Return(s, outcome), Close(s),
         UNCHANGED <<now, browser, redeemed, loads, code>>,
         outcome = "authorization" => s \in decided \ approved,
         QuietMachine /\ outcome = "state_mismatch" =>
           \E tab \in tabs : tab.to.port = named[s].port /\ tab.request.state # s
  PROVE  SignInOK'
<1>1. PICK told \in {outcome, result[s]} :
        /\ told \in Results
        /\ phase' = [phase EXCEPT ![s] = "done"]
        /\ result' = [result EXCEPT ![s] = told]
  BY Returned
<1>2. code' = [code EXCEPT ![s] = code[s]]
  BY DEF SignInOK, TypeOK
<1>3. code[s] = s => code[s] = s \/ s \in approved
  OBVIOUS
<1> QED
  BY <1>1, <1>2, <1>3, LeavingKeeps

\* The oldest request of a listener, and what its session knows of it.
LEMMA Accepted ==
  ASSUME SignInOK, NEW s \in Sessions, NEW request \in Requests, Accept(s, request)
  PROVE  /\ phase[s] = "waiting" /\ now < deadline[s]
         /\ inbox[s] # <<>> /\ inbox[s] \in Seq(Arrived(s))
         /\ request \in Arrived(s)
         /\ UNCHANGED <<now, browser, redeemed, loads>>
<1>1. inbox[s] \in Seq(Arrived(s))
  BY DEF SignInOK, BrowserOK, InboxOK
<1> QED
  BY <1>1 DEF Accept

\* wait and accept_code, when they end the wait.
LEMMA WaitEndKeeps ==
  ASSUME SignInOK, NEW s \in Sessions,
         \/ WaitTimeout(s) \/ WaitBroken(s) \/ SessionDropped(s)
         \/ AcceptError(s) \/ AcceptMismatch(s) \/ AcceptCode(s)
  PROVE  SignInOK'
<1>1. CASE WaitTimeout(s)
  <2>1. /\ phase[s] = "waiting" /\ Return(s, "timeout") /\ Close(s)
        /\ UNCHANGED <<now, browser, redeemed, loads, code>>
    BY <1>1 DEF WaitTimeout
  <2> QED
    BY <2>1, EndingKeeps DEF Results
<1>2. CASE WaitBroken(s)
  <2>1. /\ phase[s] = "waiting" /\ Return(s, "loopback") /\ Close(s)
        /\ UNCHANGED <<now, browser, redeemed, loads, code>>
    BY <1>2 DEF WaitBroken
  <2> QED
    BY <2>1, EndingKeeps DEF Results
<1>3. CASE SessionDropped(s)
  <2>1. /\ phase[s] = "begun" /\ Return(s, "dropped") /\ Close(s)
        /\ UNCHANGED <<now, browser, redeemed, loads, code>>
    BY <1>3 DEF SessionDropped
  <2> QED
    BY <2>1, EndingKeeps DEF Results
<1>4. CASE AcceptError(s)
  <2>1. PICK request \in Requests :
          /\ Accept(s, request)
          /\ request.error /\ request.state = s
          /\ Return(s, "authorization") /\ Close(s) /\ UNCHANGED code
    BY <1>4 DEF AcceptError
  <2>2. /\ phase[s] = "waiting" /\ UNCHANGED <<now, browser, redeemed, loads, code>>
        /\ request \in Arrived(s)
    BY <2>1, Accepted
  <2>3. s \in decided \ approved
    BY <2>1, <2>2, NoneAssumption DEF Arrived, Genuine
  <2> QED
    BY <2>1, <2>2, <2>3, EndingKeeps DEF Results
<1>5. CASE AcceptMismatch(s)
  <2>1. PICK request \in Requests :
          /\ Accept(s, request)
          /\ ~Stray(request) /\ request.state # s
          /\ Return(s, "state_mismatch") /\ Close(s) /\ UNCHANGED code
    BY <1>5 DEF AcceptMismatch
  <2>2. /\ phase[s] = "waiting" /\ UNCHANGED <<now, browser, redeemed, loads, code>>
        /\ request \in Arrived(s)
    BY <2>1, Accepted
  <2>3. QuietMachine =>
          \E tab \in tabs : tab.to.port = named[s].port /\ tab.request.state # s
    BY <2>1, <2>2 DEF Arrived, Stray, QuietMachine
  <2> QED
    BY <2>1, <2>2, <2>3, EndingKeeps DEF Results
<1>6. CASE AcceptCode(s)
  <2>1. PICK request \in Requests :
          /\ Accept(s, request)
          /\ ~Stray(request) /\ ~request.error /\ request.state = s
          /\ IF result[s] = "dropped"
             THEN Return(s, "dropped") /\ UNCHANGED code
             ELSE /\ phase' = [phase EXCEPT ![s] = "exchanging"]
                  /\ code' = [code EXCEPT ![s] = request.code]
                  /\ UNCHANGED result
          /\ Close(s)
    BY <1>6 DEF AcceptCode
  <2>2. /\ phase[s] = "waiting" /\ UNCHANGED <<now, browser, redeemed, loads>>
        /\ request \in Arrived(s)
    BY <2>1, Accepted
  <2>3. request.code = s /\ s \in approved
    BY <2>1, <2>2 DEF Arrived, Genuine, Stray
  <2>4. CASE result[s] = "dropped"
    BY <2>1, <2>2, <2>4, EndingKeeps DEF Results
  <2>5. CASE result[s] # "dropped"
    <3>1. /\ result' = [result EXCEPT ![s] = result[s]] /\ result[s] \in Results
          /\ phase' = [phase EXCEPT ![s] = "exchanging"] /\ code' = [code EXCEPT ![s] = s]
      BY <2>1, <2>3, <2>5 DEF SignInOK, TypeOK
    <3> QED
      BY <2>1, <2>2, <2>3, <3>1, LeavingKeeps
  <2> QED
    BY <2>4, <2>5
<1> QED
  BY <1>1, <1>2, <1>3, <1>4, <1>5, <1>6

\* wait begins: a deadline out of reach ends it at once (wait, accept_code).
LEMMA WaitStartKeeps ==
  ASSUME SignInOK, NEW s \in Sessions, WaitStart(s)
  PROVE  SignInOK'
<1>1. PICK timeout \in Timeouts :
        IF now + timeout > InstantMax
        THEN Return(s, "loopback") /\ Close(s)
        ELSE /\ phase' = [phase EXCEPT ![s] = "waiting"]
             /\ deadline' = [deadline EXCEPT ![s] = now + timeout]
             /\ recv_end' = [recv_end EXCEPT ![s] = now + timeout]
             /\ UNCHANGED <<result, binding, inbox>>
  BY DEF WaitStart
<1>2. phase[s] = "begun" /\ UNCHANGED <<now, code, browser, redeemed, loads>>
  BY DEF WaitStart
<1>3. CASE now + timeout > InstantMax
  BY <1>1, <1>2, <1>3, EndingKeeps DEF Results
<1>4. CASE ~(now + timeout > InstantMax)
  <2>1. /\ timeout \in Nat /\ now \in Nat /\ now + timeout \in Nat /\ now <= now + timeout
    BY TimeAssumption DEF SignInOK, TypeOK
  <2>2. /\ result' = [result EXCEPT ![s] = result[s]] /\ result[s] \in Results
        /\ redeemed \subseteq Sessions
    BY <1>1, <1>4 DEF SignInOK, TypeOK
  <2>3. UNCHANGED <<listener, named, inbox, tabs, decided, approved, redeemed>>
    BY <1>1, <1>2, <1>4 DEF binding, browser
  <2>4. Held(s) /\ "waiting" \in Phases
    BY <1>2 DEF Held, Phases
  <2>5. now + timeout <= now + timeout
    BY <2>1
  <2> QED
    BY <1>1, <1>2, <1>4, <2>1, <2>2, <2>3, <2>4, <2>5, StayingKeeps
<1> QED
  BY <1>3, <1>4

\* A stray request is answered and forgotten; the wait goes on to its deadline.
LEMMA StrayKeeps ==
  ASSUME SignInOK, NEW s \in Sessions, AcceptStray(s)
  PROVE  SignInOK'
<1>1. PICK request \in Requests :
        /\ Accept(s, request)
        /\ inbox' = [inbox EXCEPT ![s] = Tail(@)]
        /\ recv_end' = [recv_end EXCEPT ![s] = deadline[s]]
        /\ UNCHANGED <<phase, result, deadline, binding, code>>
  BY DEF AcceptStray
<1>2. /\ phase[s] = "waiting" /\ now < deadline[s]
      /\ inbox[s] # <<>> /\ inbox[s] \in Seq(Arrived(s))
      /\ UNCHANGED <<now, tabs, decided, approved, redeemed, loads>>
  BY <1>1, Accepted DEF browser
<1>3. UNCHANGED <<phase, result, deadline, listener, named, code>>
  BY <1>1 DEF binding
<1>4. /\ inbox \in [Sessions -> Seq(Requests)] /\ deadline \in [Sessions -> Nat]
      /\ recv_end \in [Sessions -> Nat] /\ now \in Nat
  BY DEF SignInOK, TypeOK
<1>5. Tail(inbox[s]) \in Seq(Requests) /\ Tail(inbox[s]) \in Seq(Arrived(s))
  BY <1>2, <1>4
<1>6. /\ inbox' \in [Sessions -> Seq(Requests)] /\ recv_end' \in [Sessions -> Nat]
      /\ inbox'[s] = Tail(inbox[s]) /\ recv_end'[s] = deadline[s]
      /\ \A t \in Sessions \ {s} : inbox'[t] = inbox[t] /\ recv_end'[t] = recv_end[t]
  BY <1>1, <1>4, <1>5
<1>7. TypeOK'
  BY <1>2, <1>3, <1>6 DEF SignInOK, TypeOK
<1>8. BindingOK'
  BY <1>3 DEF SignInOK, BindingOK, ListenersOwned, Listening
<1>9. BrowserOK'
  <2>1. Genuine' = Genuine /\ \A t \in Sessions : Arrived(t)' = Arrived(t)
    BY <1>2, <1>3 DEF Genuine, Arrived
  <2>2. \A t \in Sessions : inbox'[t] \in Seq(Arrived(t))
    BY <1>5, <1>6 DEF SignInOK, BrowserOK, InboxOK
  <2>3. \A t \in Sessions : inbox'[t] \in Seq(Arrived(t)')
    BY <2>1, <2>2
  <2>4. EmptyOK'
    BY <1>2, <1>3, <1>6 DEF SignInOK, BrowserOK, EmptyOK, Held
  <2> QED
    BY <1>2, <2>1, <2>3, <2>4 DEF SignInOK, BrowserOK, TabsOK, InboxOK
<1>10. CodeOK'
  BY <1>2, <1>3 DEF SignInOK, CodeOK
<1>11. ClockOK'
  <2>1. now <= deadline[s] /\ deadline[s] <= deadline[s]
    BY <1>2, <1>4
  <2> QED
    BY <1>2, <1>3, <1>6, <2>1 DEF SignInOK, ClockOK
<1>12. ToldOK'
  BY <1>2, <1>3 DEF SignInOK, ToldOK, SignedInMeansApproved, DenialIsOwn, NoLocalAbort
<1> QED
  BY <1>7, <1>8, <1>9, <1>10, <1>11, <1>12 DEF SignInOK

\* What the code exchange returns, and what of it is a success (post_token_form).
LEMMA Redeemed ==
  ASSUME NEW s \in Sessions, NEW reply \in Replies(s)
  PROVE  /\ PostTokenForm(reply).ok =>
              reply = Granted(1, 1) /\ code[s] = s
         /\ ~PostTokenForm(reply).ok =>
              PostTokenForm(reply).error \in {"http", "authorization", "malformed"}
<1>1. CASE reply = Granted(1, 1)
  <2>1. code[s] = s
    BY <1>1 DEF Replies, Granted, Silence, Refused, Hollow
  <2>2. IsGrant(reply) /\ Whole(reply) /\ reply.delivered
    BY <1>1 DEF Granted, IsGrant, Whole, Blank
  <2>3. PostTokenForm(reply) = Minted(reply)
    BY <2>2 DEF PostTokenForm
  <2>4. PostTokenForm(reply).ok
    BY <2>3 DEF Minted
  <2> QED
    BY <1>1, <2>1, <2>4
<1>2. CASE reply # Granted(1, 1)
  <2>1. \/ ~reply.delivered
        \/ reply.delivered /\ IsGrant(reply) /\ ~Whole(reply)
        \/ reply.delivered /\ ~IsGrant(reply)
    BY <1>2 DEF Replies, Silence, Refused, Hollow, IsGrant, Whole, Blank
  <2>2. PostTokenForm(reply) \in
          {Failure("http", "none"), Failure("malformed", "none"),
           Failure("authorization", reply.error), Failure("authorization", "http_status")}
    <3>1. CASE ~reply.delivered
      BY <3>1 DEF PostTokenForm, IsGrant
    <3>2. CASE reply.delivered /\ IsGrant(reply) /\ ~Whole(reply)
      BY <3>2 DEF PostTokenForm
    <3>3. CASE reply.delivered /\ ~IsGrant(reply)
      <4>1. PostTokenForm(reply) =
              IF reply.error # "none" THEN Failure("authorization", reply.error)
              ELSE IF reply.success THEN Failure("malformed", "none")
              ELSE Failure("authorization", "http_status")
        BY <3>3 DEF PostTokenForm
      <4> QED
        BY <4>1
    <3> QED
      BY <2>1, <3>1, <3>2, <3>3
  <2> QED
    BY <2>2 DEF Failure
<1> QED
  BY <1>1, <1>2

\* The exchange of a code, and callers that leave while wait is under way.
LEMMA ExchangeKeeps ==
  ASSUME SignInOK, NEW s \in Sessions, Exchange(s) \/ WaitDropped(s)
  PROVE  SignInOK'
<1>1. /\ phase \in [Sessions -> Phases] /\ result \in [Sessions -> Results]
      /\ result[s] \in Results /\ redeemed \subseteq Sessions
  BY DEF SignInOK, TypeOK
<1>2. UNCHANGED <<clocks, binding, inbox, code, browser, loads>>
  BY DEF Exchange, WaitDropped
<1>3. UNCHANGED <<now, listener, named, inbox, code, tabs, decided, approved, loads>>
  BY <1>2 DEF clocks, binding, browser
<1>4. /\ deadline' = [deadline EXCEPT ![s] = deadline[s]] /\ deadline[s] \in Nat
      /\ recv_end' = [recv_end EXCEPT ![s] = recv_end[s]] /\ recv_end[s] \in Nat
  BY <1>2 DEF clocks, SignInOK, TypeOK
<1>5. CASE Exchange(s)
  <2>1. PICK reply \in Replies(s) :
          /\ Return(s, IF PostTokenForm(reply).ok THEN "ok" ELSE PostTokenForm(reply).error)
          /\ \/ redeemed' = IF reply = Granted(1, 1) THEN redeemed \cup {s} ELSE redeemed
             \/ /\ reply = Silence /\ code[s] = s
                /\ redeemed' = redeemed \cup {s}
    BY <1>5 DEF Exchange
  <2> DEFINE outcome == IF PostTokenForm(reply).ok THEN "ok" ELSE PostTokenForm(reply).error
  <2>2. phase[s] = "exchanging"
    BY <1>5 DEF Exchange
  <2>3. outcome \in Results /\ outcome \notin {"state_mismatch"}
    BY <2>1, Redeemed DEF Results
  <2>4. outcome = "ok" => reply = Granted(1, 1) /\ code[s] = s
    <3>1. "ok" \notin {"http", "authorization", "malformed"}
      OBVIOUS
    <3> QED
      BY <2>1, <3>1, Redeemed
  <2>5. redeemed \subseteq redeemed' /\ redeemed' \subseteq Sessions
    BY <1>1, <2>1
  <2>6. outcome = "ok" => s \in approved /\ s \in redeemed'
    <3>1. Granted(1, 1) # Silence
      BY DEF Granted, Silence
    <3>2. outcome = "ok" => s \in redeemed'
      BY <2>1, <2>4, <3>1
    <3> QED
      BY <2>4, <3>2 DEF SignInOK, CodeOK
  <2> HIDE DEF outcome
  <2>7. PICK told \in {outcome, result[s]} :
          /\ told \in Results
          /\ phase' = [phase EXCEPT ![s] = "done"]
          /\ result' = [result EXCEPT ![s] = told]
          /\ told = outcome \/ told = "dropped"
    <3>1. Return(s, outcome)
      BY <2>1 DEF outcome
    <3> QED
      BY <2>3, <3>1, Returned
  <2>8. ~Held(s) /\ "done" \in Phases
    BY <2>2 DEF Held, Phases
  <2>9. told = "ok" => result[s] = "ok" \/ (s \in approved /\ s \in redeemed')
    BY <2>6, <2>7
  <2>10. told = "state_mismatch" => result[s] = "state_mismatch"
    BY <2>3, <2>7
  <2>11. s \in decided /\ code[s] = s
    BY <2>2 DEF SignInOK, TypeOK, CodeOK
  <2> QED
    BY <1>3, <1>4, <2>5, <2>7, <2>8, <2>9, <2>10, <2>11, StayingKeeps
<1>6. CASE WaitDropped(s)
  <2>1. /\ phase[s] \in {"waiting", "exchanging"}
        /\ result' = [result EXCEPT ![s] = "dropped"]
        /\ phase' = IF phase[s] = "waiting" THEN phase ELSE [phase EXCEPT ![s] = "done"]
        /\ redeemed' = redeemed
    BY <1>6 DEF WaitDropped
  <2>2. "dropped" \in Results /\ {"waiting", "done"} \subseteq Phases
    BY DEF Results, Phases
  <2>3. CASE phase[s] = "waiting"
    <3>1. phase' = [phase EXCEPT ![s] = "waiting"] /\ Held(s)
      BY <1>1, <2>1, <2>3 DEF Held
    <3>2. now <= recv_end[s] /\ recv_end[s] <= deadline[s]
      BY <2>3 DEF SignInOK, ClockOK
    <3> QED
      BY <1>1, <1>3, <1>4, <2>1, <2>2, <3>1, <3>2, StayingKeeps
  <2>4. CASE phase[s] = "exchanging"
    <3>1. phase' = [phase EXCEPT ![s] = "done"] /\ ~Held(s)
      BY <2>1, <2>4 DEF Held
    <3> QED
      BY <1>1, <1>3, <1>4, <2>1, <2>2, <3>1, StayingKeeps
  <2> QED
    BY <2>1, <2>3, <2>4
<1> QED
  BY <1>5, <1>6

-----------------------------------------------------------------------------
(* The provider, the browser and the clock. *)

\* A consent or a refusal leaves one more redirect in a tab.
LEMMA DecisionKeeps ==
  ASSUME SignInOK, NEW s \in Sessions, Approve(s) \/ Deny(s)
  PROVE  SignInOK'
<1> DEFINE Own == [callback |-> TRUE, code |-> s, state |-> s, error |-> FALSE]
           No(state) == [callback |-> TRUE, code |-> None, state |-> state, error |-> TRUE]
<1>1. \E request \in Requests :
        /\ Redirect(s, request)
        /\ request \in Genuine'
  <2>1. CASE Approve(s)
    <3>1. Redirect(s, Own) /\ approved' = approved \cup {s}
      BY <2>1 DEF Approve
    <3>2. Own \in Requests
      BY DEF Requests
    <3>3. Own.code = Own.state /\ Own.code \in approved' /\ ~Own.error
      BY <3>1
    <3> QED
      BY <3>1, <3>2, <3>3 DEF Genuine
  <2>2. CASE Deny(s)
    <3>1. PICK state \in {s, None} : Redirect(s, No(state))
      BY <2>2 DEF Deny
    <3>2. /\ No(state) \in Requests /\ No(state).code = None
          /\ No(state).state = state
      BY DEF Requests
    <3>3. s \in decided' \ approved'
      BY <2>2 DEF Deny, SignInOK, TypeOK
    <3> QED
      BY <3>1, <3>2, <3>3 DEF Genuine
  <2> QED
    BY <2>1, <2>2
<1>2. PICK request \in Requests : Redirect(s, request) /\ request \in Genuine'
  BY <1>1
<1>3. /\ tabs' = tabs \cup {[to |-> named[s], request |-> request]}
      /\ UNCHANGED <<phase, result, now, deadline, recv_end, listener, named, inbox, code,
                     redeemed, loads>>
  BY <1>2 DEF Redirect, clocks, binding
<1>4. /\ named[s] \in Redirects
      /\ approved \subseteq approved' /\ approved' \subseteq decided' /\ decided' \subseteq Sessions
      /\ decided \subseteq decided' /\ decided \ approved \subseteq decided' \ approved'
  <2>1. named \in [Sessions -> Redirects \cup {None}] /\ named[s] # None
    BY DEF SignInOK, TypeOK, Approve, Deny, Begun
  <2> QED
    BY <2>1 DEF SignInOK, TypeOK, Approve, Deny
<1>5. TypeOK'
  BY <1>2, <1>3, <1>4 DEF SignInOK, TypeOK
<1>6. BindingOK'
  BY <1>3 DEF SignInOK, BindingOK, ListenersOwned, Listening
<1>7. BrowserOK'
  <2>1. Genuine \subseteq Genuine'
    BY <1>4 DEF Genuine
  <2>2. TabsOK'
    BY <1>2, <1>3, <2>1 DEF SignInOK, BrowserOK, TabsOK
  <2>3. ASSUME NEW t \in Sessions PROVE inbox'[t] \in Seq(Arrived(t)')
    <3>1. inbox[t] \in Seq(Arrived(t))
      BY DEF SignInOK, BrowserOK, InboxOK
    <3>2. tabs \subseteq tabs' /\ named'[t] = named[t]
      BY <1>3
    <3>3. inbox[t] \in Seq(Arrived(t)')
      BY <1>4, <3>1, <3>2, RequestsGrow
    <3> QED
      BY <1>3, <3>3
  <2>4. EmptyOK'
    BY <1>3 DEF SignInOK, BrowserOK, EmptyOK, Held
  <2> QED
    BY <2>2, <2>3, <2>4 DEF BrowserOK, InboxOK
<1>8. CodeOK'
  BY <1>3, <1>4 DEF SignInOK, CodeOK
<1>9. ClockOK'
  BY <1>3 DEF SignInOK, ClockOK
<1>10. ToldOK'
  BY <1>3, <1>4 DEF SignInOK, ToldOK, SignedInMeansApproved, DenialIsOwn, NoLocalAbort
<1> QED
  BY <1>5, <1>6, <1>7, <1>8, <1>9, <1>10 DEF SignInOK

\* A request that a listener accepts joins its inbox.
LEMMA ReachKeeps ==
  ASSUME SignInOK, NEW a \in Addresses, NEW request \in Requests, Reach(a, request),
         request.code # None \/ request.error =>
           \/ request \in LocalRequests /\ request.state # listener[a]
           \/ /\ request \in Genuine
              /\ \E tab \in tabs : tab.request = request /\ tab.to.port = a[2]
  PROVE  SignInOK'
<1>1. /\ listener[a] # None /\ loads < MaxLoads /\ loads' = loads + 1
      /\ inbox' = [inbox EXCEPT ![listener[a]] = Append(@, request)]
      /\ UNCHANGED <<phase, result, now, deadline, recv_end, listener, named, code, tabs,
                     decided, approved, redeemed>>
  BY DEF Reach, clocks, binding, browser
<1> DEFINE s == listener[a]
<1>2. s \in Sessions
  BY <1>1 DEF SignInOK, TypeOK
<1>3. named[s].port = a[2] /\ Held(s)
  BY <1>2 DEF SignInOK, BindingOK, ListenersOwned, Listening, Held
<1>4. request \in Arrived(s)
  BY <1>3 DEF Arrived
<1>5. inbox \in [Sessions -> Seq(Requests)] /\ inbox[s] \in Seq(Arrived(s))
  BY <1>2 DEF SignInOK, TypeOK, BrowserOK, InboxOK
<1> HIDE DEF s
<1>6. Append(inbox[s], request) \in Seq(Requests) /\ Append(inbox[s], request) \in Seq(Arrived(s))
  BY <1>2, <1>4, <1>5
<1>7. /\ inbox' \in [Sessions -> Seq(Requests)]
      /\ inbox'[s] = Append(inbox[s], request)
      /\ \A t \in Sessions \ {s} : inbox'[t] = inbox[t]
  BY <1>1, <1>2, <1>5, <1>6 DEF s
<1>8. TypeOK'
  <2>1. loads' \in 0 .. MaxLoads
    BY <1>1, TimeAssumption DEF SignInOK, TypeOK
  <2> QED
    BY <1>1, <1>7, <2>1 DEF SignInOK, TypeOK
<1>9. BindingOK'
  BY <1>1 DEF SignInOK, BindingOK, ListenersOwned, Listening
<1>10. BrowserOK'
  <2>1. Genuine' = Genuine /\ \A t \in Sessions : Arrived(t)' = Arrived(t)
    BY <1>1 DEF Genuine, Arrived
  <2>2. \A t \in Sessions : inbox'[t] \in Seq(Arrived(t))
    BY <1>6, <1>7 DEF SignInOK, BrowserOK, InboxOK
  <2>3. \A t \in Sessions : inbox'[t] \in Seq(Arrived(t)')
    BY <2>1, <2>2
  <2>4. EmptyOK'
    BY <1>1, <1>3, <1>7 DEF SignInOK, BrowserOK, EmptyOK, Held
  <2> QED
    BY <1>1, <2>1, <2>3, <2>4 DEF SignInOK, BrowserOK, TabsOK, InboxOK
<1>11. CodeOK'
  BY <1>1 DEF SignInOK, CodeOK
<1>12. ClockOK'
  BY <1>1 DEF SignInOK, ClockOK
<1>13. ToldOK'
  BY <1>1 DEF SignInOK, ToldOK, SignedInMeansApproved, DenialIsOwn, NoLocalAbort
<1> QED
  BY <1>8, <1>9, <1>10, <1>11, <1>12, <1>13 DEF SignInOK

\* The browser, any other program of the machine, and time.
LEMMA OutsideKeeps ==
  ASSUME SignInOK, Load \/ Probe \/ Tick
  PROVE  SignInOK'
<1>1. CASE Load
  <2>1. PICK tab \in tabs, family \in Families :
          /\ family \in HostFamilies(tab.to.host)
          /\ Reach(<<family, tab.to.port>>, tab.request)
    BY <1>1 DEF Load
  <2>2. tab.to.port \in Ports /\ family \in {"v4", "v6"} /\ tab.request \in Genuine
    BY MachineAssumption DEF SignInOK, TypeOK, BrowserOK, TabsOK, Redirects
  <2>3. /\ <<family, tab.to.port>> \in Addresses /\ <<family, tab.to.port>>[2] = tab.to.port
        /\ tab.request \in Requests
    BY <2>2 DEF Addresses, Genuine
  <2> QED
    BY <2>1, <2>2, <2>3, ReachKeeps
<1>2. CASE Probe
  <2>1. PICK a \in Addresses, request \in LocalRequests :
          /\ request.code # None \/ request.error => request.state # listener[a]
          /\ Reach(a, request)
    BY <1>2 DEF Probe
  <2>2. request \in Requests
    BY LocalAssumption
  <2> QED
    BY <2>1, <2>2, ReachKeeps
<1>3. CASE Tick
  <2>1. /\ now' = now + 1
        /\ \A s \in Sessions : phase[s] = "waiting" => now < recv_end[s]
        /\ UNCHANGED <<phase, result, deadline, recv_end, listener, named, inbox, code, tabs,
                       decided, approved, redeemed, loads>>
    BY <1>3 DEF Tick, binding, browser
  <2>2. TypeOK'
    BY <2>1 DEF SignInOK, TypeOK
  <2>3. BindingOK'
    BY <2>1 DEF SignInOK, BindingOK, ListenersOwned, Listening
  <2>4. BrowserOK'
    <3>1. Genuine' = Genuine /\ \A t \in Sessions : Arrived(t)' = Arrived(t)
      BY <2>1 DEF Genuine, Arrived
    <3>2. EmptyOK'
      BY <2>1 DEF SignInOK, BrowserOK, EmptyOK, Held
    <3> QED
      BY <2>1, <3>1, <3>2 DEF SignInOK, BrowserOK, TabsOK, InboxOK
  <2>5. CodeOK'
    BY <2>1 DEF SignInOK, CodeOK
  <2>6. ClockOK'
    <3>1. now \in Nat /\ recv_end \in [Sessions -> Nat]
      BY DEF SignInOK, TypeOK
    <3>2. ASSUME NEW s \in Sessions, phase[s] = "waiting"
          PROVE  now + 1 <= recv_end[s] /\ recv_end[s] <= deadline[s]
      <4>1. recv_end[s] \in Nat /\ now < recv_end[s]
        BY <2>1, <3>1, <3>2
      <4>2. now + 1 <= recv_end[s]
        BY <3>1, <4>1
      <4> QED
        BY <3>2, <4>2 DEF SignInOK, ClockOK
    <3> QED
      BY <2>1, <3>2 DEF ClockOK
  <2>7. ToldOK'
    BY <2>1 DEF SignInOK, ToldOK, SignedInMeansApproved, DenialIsOwn, NoLocalAbort
  <2> QED
    BY <2>2, <2>3, <2>4, <2>5, <2>6, <2>7 DEF SignInOK
<1> QED
  BY <1>1, <1>2, <1>3

\* Every step keeps the invariant.
LEMMA SignInOKNext == SignInOK /\ [Next]_vars => SignInOK'
<1> SUFFICES ASSUME SignInOK, [Next]_vars PROVE SignInOK'
  OBVIOUS
<1>1. CASE UNCHANGED vars
  <2>1. UNCHANGED <<phase, result, now, deadline, recv_end, listener, named, inbox, code, tabs,
                    decided, approved, redeemed, loads>>
    BY <1>1 DEF vars, clocks, binding, browser
  <2>2. TypeOK' /\ CodeOK' /\ ClockOK'
    BY <2>1 DEF SignInOK, TypeOK, CodeOK, ClockOK
  <2>3. BindingOK'
    BY <2>1 DEF SignInOK, BindingOK, ListenersOwned, Listening
  <2>4. BrowserOK'
    <3>1. Genuine' = Genuine /\ \A t \in Sessions : Arrived(t)' = Arrived(t)
      BY <2>1 DEF Genuine, Arrived
    <3>2. EmptyOK'
      BY <2>1 DEF SignInOK, BrowserOK, EmptyOK, Held
    <3> QED
      BY <2>1, <3>1, <3>2 DEF SignInOK, BrowserOK, TabsOK, InboxOK
  <2>5. ToldOK'
    BY <2>1 DEF SignInOK, ToldOK, SignedInMeansApproved, DenialIsOwn, NoLocalAbort
  <2> QED
    BY <2>2, <2>3, <2>4, <2>5 DEF SignInOK
<1>2. CASE Next
  BY <1>2, BeginKeeps, WaitStartKeeps, WaitEndKeeps, StrayKeeps, ExchangeKeeps, DecisionKeeps,
     OutsideKeeps DEF Next, SignIn
<1> QED
  BY <1>1, <1>2

\* The invariant holds in every behaviour.
LEMMA SignInAlwaysOK == Spec => []SignInOK
<1> QED
  BY InitOK, SignInOKNext, PTL DEF Spec

-----------------------------------------------------------------------------
(* The properties. *)

\* The state of the sign-ins keeps its type: in particular a redirect URI names a
\* real port even when 0 was asked for (begin).
THEOREM SignInTypeCorrect == Spec => []TypeOK
<1>1. SignInOK => TypeOK
  BY DEF SignInOK
<1> QED
  BY <1>1, SignInAlwaysOK, PTL

\* No session redeems the code of another, however many share its port
\* (accept_code's state check).
THEOREM CodesAreNotMixed == Spec => []OwnCodeOnly
<1>1. SignInOK => OwnCodeOnly
  BY DEF SignInOK, CodeOK, OwnCodeOnly
<1> QED
  BY <1>1, SignInAlwaysOK, PTL

\* wait returns a credential only for a sign-in its user approved.
THEOREM SignInsAreApproved == Spec => []SignedInMeansApproved
<1>1. SignInOK => SignedInMeansApproved
  BY DEF SignInOK, ToldOK
<1> QED
  BY <1>1, SignInAlwaysOK, PTL

\* Whatever other sessions' tabs and other programs send, a sign-in is reported
\* refused only by its own user or for its own code (accept_code's error branch).
THEOREM DenialsAreOwn == Spec => []DenialIsOwn
<1>1. SignInOK => DenialIsOwn
  BY DEF SignInOK, ToldOK
<1> QED
  BY <1>1, SignInAlwaysOK, PTL

\* No number of stray requests makes accept_code wait beyond its deadline.
THEOREM WaitsAreBounded == Spec => []WaitIsBounded
<1>1. SignInOK => WaitIsBounded
  <2> SUFFICES ASSUME SignInOK, NEW s \in Sessions, phase[s] = "waiting"
               PROVE  now <= deadline[s]
    BY DEF WaitIsBounded
  <2>1. now \in Nat /\ recv_end[s] \in Nat /\ deadline[s] \in Nat
    BY DEF SignInOK, TypeOK
  <2>2. now <= recv_end[s] /\ recv_end[s] <= deadline[s]
    BY DEF SignInOK, ClockOK
  <2> QED
    BY <2>1, <2>2
<1> QED
  BY <1>1, SignInAlwaysOK, PTL

\* A port is held exactly by a session that is begun or waiting.
THEOREM ListenersAreOwned == Spec => []ListenersOwned
<1>1. SignInOK => ListenersOwned
  BY DEF SignInOK, BindingOK
<1> QED
  BY <1>1, SignInAlwaysOK, PTL

\* The redirect URI begin makes up leads to its own listener (bind_loopback).
THEOREM LoopbackIsReachable == Spec => []LoopbackReachable
<1>1. SignInOK => LoopbackReachable
  <2> SUFFICES ASSUME SignInOK, NEW s \in Sessions, Listening(s), Config[s].kind = "loopback"
               PROVE  listener[<<named[s].host, named[s].port>>] = s
    BY DEF LoopbackReachable
  <2>1. PICK a \in Addresses : listener[a] = s
    BY DEF Listening
  <2>2. named[s].port = a[2] /\ named[s].host = a[1]
    BY <2>1 DEF SignInOK, BindingOK
  <2>3. a = <<a[1], a[2]>>
    BY DEF Addresses
  <2> QED
    BY <2>1, <2>2, <2>3
<1> QED
  BY <1>1, SignInAlwaysOK, PTL

-----------------------------------------------------------------------------
(* Where the promises that fail in general hold. *)

\* Where no other program of the machine sends a code or an error, a mismatch has a
\* redirect of some sign-in to blame: probes and reloads of the session's own tab
\* cause none (accept_code).
THEOREM MismatchesAreExplained == QuietMachine => (Spec => []NoLocalAbort)
<1> SUFFICES ASSUME QuietMachine PROVE Spec => []NoLocalAbort
  OBVIOUS
<1>1. SignInOK => NoLocalAbort
  BY DEF SignInOK, ToldOK
<1> QED
  BY <1>1, SignInAlwaysOK, PTL

\* Every registered redirect names a host that each family of the machine
\* answers to: a machine with one family and URIs that name it, or URIs that
\* name localhost.
HostsReachAll ==
  \A s \in Sessions :
    Config[s].kind = "fixed" => Families \subseteq HostFamilies(Config[s].host)

\* A listener is where its redirect leads.
LedOK ==
  \A a \in Addresses, s \in Sessions :
    listener[a] = s => a[1] \in HostFamilies(named[s].host)

\* What begin names leads to what it has bound (bind_loopback).
LEMMA BoundIsLed ==
  ASSUME HostsReachAll, NEW s \in Sessions, NEW family, Bind(s, family)
  PROVE  \E a \in Addresses, redirect \in Redirects :
           /\ listener' = [listener EXCEPT ![a] = s]
           /\ named' = [named EXCEPT ![s] = redirect]
           /\ a[1] \in HostFamilies(redirect.host)
<1>1. PICK port \in Choices(Config[s]) :
        /\ Free(family, port)
        /\ listener' = [listener EXCEPT ![<<family, port>>] = s]
        /\ named' = [named EXCEPT ![s] = [host |-> RedirectHost(Config[s], family), port |-> port]]
  BY DEF Bind
<1>2. /\ Config[s].kind \in {"loopback", "fixed"}
      /\ Config[s].port \in Ports \cup {AnyPort}
  BY ConfigAssumption
<1>3. family \in Families /\ family \in {"v4", "v6"} /\ port \in Ports
  BY <1>1, <1>2, MachineAssumption DEF Free, Choices
<1>4. family \in HostFamilies(RedirectHost(Config[s], family))
  BY <1>2, <1>3 DEF HostsReachAll, RedirectHost, HostFamilies
<1> DEFINE a == <<family, port>>
           redirect == [host |-> RedirectHost(Config[s], family), port |-> port]
<1>5. RedirectHost(Config[s], family) \in Hosts
  BY <1>3, ConfigAssumption DEF RedirectHost, Hosts
<1>6. /\ a \in Addresses /\ a[1] = family
      /\ redirect \in Redirects /\ redirect.host = RedirectHost(Config[s], family)
  BY <1>3, <1>5 DEF Addresses, Redirects
<1> QED
  BY <1>1, <1>4, <1>6

\* Only begin opens a listener or names a redirect.
LEMMA OnlyBeginBinds ==
  ASSUME SignInOK, [Next]_vars, \A s \in Sessions : ~BeginOk(s)
  PROVE  /\ named' = named
         /\ \A a \in Addresses, t \in Sessions : listener'[a] = t => listener[a] = t
<1>1. ASSUME NEW s \in Sessions, Close(s)
      PROVE  /\ named' = named
             /\ \A a \in Addresses, t \in Sessions : listener'[a] = t => listener[a] = t
  BY <1>1, Closed DEF SignInOK
<1>2. ASSUME UNCHANGED binding
      PROVE  /\ named' = named
             /\ \A a \in Addresses, t \in Sessions : listener'[a] = t => listener[a] = t
  BY <1>2 DEF binding
<1>3. ASSUME NEW s \in Sessions, SignIn(s)
      PROVE  Close(s) \/ UNCHANGED binding
  BY <1>3 DEF SignIn, BeginFailed, WaitStart, WaitTimeout, WaitBroken, AcceptStray,
     AcceptError, AcceptMismatch, AcceptCode, Exchange, SessionDropped, WaitDropped
<1>4. ASSUME NEW s \in Sessions, Approve(s) \/ Deny(s)
      PROVE  UNCHANGED binding
  BY <1>4 DEF Approve, Deny, Redirect
<1>5. ASSUME Load \/ Probe \/ Tick
      PROVE  UNCHANGED binding
  BY <1>5 DEF Load, Probe, Tick, Reach
<1> QED
  BY <1>1, <1>2, <1>3, <1>4, <1>5 DEF Next, vars, binding

\* Every step keeps listeners where their redirects lead.
LEMMA LedPreserved ==
  ASSUME HostsReachAll, SignInOK, LedOK, [Next]_vars
  PROVE  LedOK'
<1>1. ASSUME NEW s \in Sessions, BeginOk(s)
      PROVE  LedOK'
  <2>1. PICK b \in Addresses, redirect \in Redirects :
          /\ listener' = [listener EXCEPT ![b] = s]
          /\ named' = [named EXCEPT ![s] = redirect]
          /\ b[1] \in HostFamilies(redirect.host)
    BY <1>1, BoundIsLed DEF BeginOk
  <2>2. /\ listener \in [Addresses -> Sessions \cup {None}]
        /\ named \in [Sessions -> Redirects \cup {None}]
    BY DEF SignInOK, TypeOK
  <2>3. \A a \in Addresses : listener[a] # s
    BY <1>1 DEF BeginOk, SignInOK, BindingOK, ListenersOwned, Listening
  <2> SUFFICES ASSUME NEW a \in Addresses, NEW t \in Sessions, listener'[a] = t
               PROVE  a[1] \in HostFamilies(named'[t].host)
    BY DEF LedOK, HostFamilies
  <2>4. CASE t = s
    <3>1. a = b /\ named'[t] = redirect
      BY <2>1, <2>2, <2>3, <2>4
    <3> QED
      BY <2>1, <3>1
  <2>5. CASE t # s
    BY <2>1, <2>2, <2>5 DEF LedOK
  <2> QED
    BY <2>4, <2>5
<1>2. CASE \A s \in Sessions : ~BeginOk(s)
  BY <1>2, OnlyBeginBinds DEF LedOK, HostFamilies
<1> QED
  BY <1>1, <1>2

\* Where every registered redirect names a host that each family of the machine
\* answers to, it leads to the session's listener, whichever family begin could
\* bind (bind_loopback).
THEOREM RegisteredIsReachable == HostsReachAll => (Spec => []FixedReachable)
<1> SUFFICES ASSUME HostsReachAll PROVE Spec => []FixedReachable
  OBVIOUS
<1>1. Init => LedOK
  BY NoneAssumption DEF Init, LedOK
<1>2. SignInOK /\ LedOK /\ [Next]_vars => LedOK'
  BY LedPreserved
<1>3. SignInOK /\ LedOK => FixedReachable
  <2> SUFFICES ASSUME SignInOK, LedOK, NEW s \in Sessions, Listening(s)
               PROVE  \E family \in HostFamilies(named[s].host) :
                        listener[<<family, named[s].port>>] = s
    BY DEF FixedReachable
  <2>1. PICK a \in Addresses : listener[a] = s
    BY DEF Listening
  <2>2. named[s].port = a[2] /\ a[1] \in HostFamilies(named[s].host)
    BY <2>1 DEF SignInOK, BindingOK, LedOK
  <2>3. a = <<a[1], a[2]>>
    BY DEF Addresses
  <2> QED
    BY <2>1, <2>2, <2>3
<1> QED
  BY <1>1, <1>2, <1>3, SignInAlwaysOK, PTL DEF Spec

-----------------------------------------------------------------------------
\* No deadline of a wait lies past the last instant.
DeadlinesExist == \A timeout \in Timeouts : LastStart + timeout <= InstantMax

\* A session in the application's hands has been told nothing.
HeldOK == \A s \in Sessions : phase[s] = "begun" => result[s] = "none"

\* What can happen to a session that is begun.
LEMMA BegunSteps ==
  ASSUME SignInOK, [Next]_vars, NEW s \in Sessions
  PROVE  \/ phase[s] = "begun" /\ (WaitStart(s) \/ SessionDropped(s))
         \/ phase[s] = "new" /\ result'[s] = result[s]
         \/ phase'[s] = phase[s] /\ result'[s] = result[s]
         \/ phase[s] # "begun" /\ phase'[s] # "begun"
<1>0. phase \in [Sessions -> Phases] /\ result \in [Sessions -> Results]
  BY DEF SignInOK, TypeOK
<1>1. ASSUME NEW t \in Sessions \ {s}, SignIn(t)
      PROVE  phase'[s] = phase[s] /\ result'[s] = result[s]
  BY <1>0, <1>1 DEF SignIn, BeginOk, BeginFailed, WaitStart, WaitTimeout, WaitBroken,
     AcceptStray, AcceptError, AcceptMismatch, AcceptCode, Exchange, SessionDropped,
     WaitDropped, Return, Accept
<1>2. ASSUME SignIn(s)
      PROVE  \/ phase[s] = "begun" /\ (WaitStart(s) \/ SessionDropped(s))
             \/ phase[s] = "new" /\ result'[s] = result[s]
             \/ phase[s] # "begun" /\ phase'[s] # "begun"
  <2>1. CASE BeginOk(s)
    BY <2>1 DEF BeginOk
  <2>2. CASE BeginFailed(s)
    BY <1>0, <2>2 DEF BeginFailed
  <2>3. CASE WaitStart(s) \/ SessionDropped(s)
    BY <2>3 DEF WaitStart, SessionDropped
  <2>4. CASE WaitTimeout(s) \/ WaitBroken(s) \/ AcceptError(s) \/ AcceptMismatch(s) \/ Exchange(s)
    BY <1>0, <2>4 DEF WaitTimeout, WaitBroken, AcceptError, AcceptMismatch, Exchange,
       Return, Accept
  <2>5. CASE AcceptStray(s) \/ AcceptCode(s) \/ WaitDropped(s)
    BY <1>0, <2>5 DEF AcceptStray, AcceptCode, WaitDropped, Return, Accept
  <2> QED
    BY <1>2, <2>1, <2>2, <2>3, <2>4, <2>5 DEF SignIn
<1>3. ASSUME NEW t \in Sessions, Approve(t) \/ Deny(t)
      PROVE  phase'[s] = phase[s] /\ result'[s] = result[s]
  BY <1>3 DEF Approve, Deny, Redirect
<1>4. ASSUME Load \/ Probe \/ Tick
      PROVE  phase'[s] = phase[s] /\ result'[s] = result[s]
  BY <1>4 DEF Load, Probe, Tick, Reach
<1> QED
  BY <1>1, <1>2, <1>3, <1>4 DEF Next, vars

\* What the application hears when it calls wait or drops its session.
LEMMA BegunHears ==
  ASSUME DeadlinesExist, SignInOK, HeldOK, NEW s \in Sessions, phase[s] = "begun",
         WaitStart(s) \/ SessionDropped(s)
  PROVE  phase'[s] # "begun" /\ result'[s] # "loopback"
<1>0. phase \in [Sessions -> Phases] /\ result \in [Sessions -> Results] /\ now \in Nat
  BY DEF SignInOK, TypeOK
<1>1. CASE WaitStart(s)
  <2>1. PICK timeout \in Timeouts :
          IF now + timeout > InstantMax
          THEN Return(s, "loopback") /\ Close(s)
          ELSE /\ phase' = [phase EXCEPT ![s] = "waiting"]
               /\ deadline' = [deadline EXCEPT ![s] = now + timeout]
               /\ recv_end' = [recv_end EXCEPT ![s] = now + timeout]
               /\ UNCHANGED <<result, binding, inbox>>
    BY <1>1 DEF WaitStart
  <2>2. now <= LastStart /\ LastStart + timeout <= InstantMax
    BY <1>1 DEF WaitStart, DeadlinesExist
  <2>3. ~(now + timeout > InstantMax)
    BY <1>0, <2>2, TimeAssumption
  <2> QED
    BY <1>0, <2>1, <2>3 DEF HeldOK
<1>2. CASE SessionDropped(s)
  BY <1>0, <1>2 DEF SessionDropped, Return, HeldOK
<1> QED
  BY <1>1, <1>2

\* Where no deadline lies past the last instant, wait on an open listener blocks
\* as its comment says and reports no loopback error of its own making.
THEOREM WaitsBlock == DeadlinesExist => (Spec => WaitBlocks)
<1> SUFFICES ASSUME DeadlinesExist PROVE Spec => WaitBlocks
  OBVIOUS
<1>1. Init => HeldOK
  BY DEF Init, HeldOK
<1>2. SignInOK /\ HeldOK /\ [Next]_vars => HeldOK'
  BY BegunSteps, BegunHears DEF HeldOK, SignInOK, ToldOK
<1>3. SignInOK /\ HeldOK /\ [Next]_vars =>
        [\A s \in Sessions : phase[s] = "begun" => result'[s] # "loopback"]_vars
  BY BegunSteps, BegunHears DEF HeldOK
<1> QED
  BY <1>1, <1>2, <1>3, SignInAlwaysOK, PTL DEF Spec, WaitBlocks
=============================================================================
