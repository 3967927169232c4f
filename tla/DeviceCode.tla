------------------------------ MODULE DeviceCode ------------------------------
(***************************************************************************)
(* The device-code sign-in (flow/device_code.rs): request() obtains a      *)
(* code, the user decides in a browser, and poll() asks the token endpoint *)
(* again and again until it has an answer or runs out of time.             *)
(*                                                                         *)
(* Time is counted in whole seconds by `now`.  Code between two awaits     *)
(* takes no time; a sleep ends exactly when it is due; an HTTP exchange    *)
(* takes any time up to the client's timeout.                              *)
(***************************************************************************)
EXTENDS TokenPath

CONSTANTS
  Expiries,         \* the expires_in a server may state, {} when it omits it
  Intervals,        \* the interval a server may state, {} when it omits it
  MaxWaits,         \* the max_wait an application may pass to poll
  DefaultExpiry,    \* 900 s in the code
  DefaultInterval,  \* 5 s
  SlowDownStep,     \* 5 s
  HttpTimeout,      \* 30 s
  InstantMax,       \* the last representable instant
  Patience          \* the application calls poll by then (a bound)

ASSUME StatedAssumption ==
  /\ Expiries \subseteq SUBSET Int
  /\ Intervals \subseteq SUBSET Int
ASSUME DurationsAssumption ==
  /\ MaxWaits \subseteq Nat
  /\ {DefaultExpiry, DefaultInterval, SlowDownStep, HttpTimeout,
      InstantMax, Patience} \subseteq Nat
  /\ DefaultInterval > 0 /\ HttpTimeout > 0

VARIABLES
  now,
  phase,      \* where the flow is: see Phases
  auth,       \* the DeviceAuthorization: expires_in and interval
  deadline,   \* poll's local: when it stops polling
  interval,   \* poll's local: how long it sleeps
  wake,       \* when the current sleep ends
  sent_at,    \* when the current or last HTTP request was sent
  reply,      \* the answer on its way to poll, Silence when there is none
  result,     \* what request or poll returned
  user,       \* the user's decision
  issued_at,  \* history: when the server issued the code
  lifetime,   \* history: how long the server said the code lives
  budget,     \* history: when the application's max_wait is over
  required,   \* history: the polling interval the server has asked for so far
  granted     \* history: the server has made the grant

local   == <<deadline, interval, wake>>
server  == <<issued_at, lifetime, required, granted>>
vars == <<now, phase, auth, local, sent_at, reply, result, user, server, budget>>

Phases == {"requesting", "ready", "sleeping", "polling", "done"}
Results == {"none", "ok", "timeout", "cancelled", "dropped", "panicked",
            "http", "authorization", "malformed"}
Codes == {"authorization_pending", "slow_down", "access_denied", "expired_token",
          "invalid_client"}

Least(a, b) == IF a < b THEN a ELSE b
Greatest(a, b) == IF a > b THEN a ELSE b
UnwrapOr(option, default) == IF option = {} THEN default ELSE CHOOSE v \in option : TRUE

Unissued == -1

Init ==
  /\ now = 0
  /\ phase = "requesting"
  /\ auth = [expires_in |-> 0, interval |-> 0]
  /\ deadline = 0 /\ interval = 0 /\ wake = 0
  /\ sent_at = 0
  /\ reply = Silence
  /\ result = "none"
  /\ user = "undecided"
  /\ issued_at = Unissued /\ lifetime = 0 /\ required = 0 /\ granted = FALSE
  /\ budget = 0

-----------------------------------------------------------------------------
(* request. *)

\* The server's answer is on its way: the code lives from here on.
ServerIssues ==
  /\ phase = "requesting"
  /\ issued_at = Unissued
  /\ issued_at' = now
  /\ \E expires_in \in Expiries, stated \in Intervals :
       /\ lifetime' = UnwrapOr(expires_in, DefaultExpiry)
       /\ required' = UnwrapOr(stated, DefaultInterval)
  /\ UNCHANGED <<now, phase, auth, local, sent_at, reply, result, user, granted, budget>>

\* Mutant: a negative expires_in is kept.
RequestOkUnclamped ==
  /\ phase = "requesting"
  /\ issued_at # Unissued
  /\ phase' = "ready"
  /\ auth' = [expires_in |-> lifetime, interval |-> Greatest(required, 1)]
  /\ UNCHANGED <<now, local, sent_at, reply, result, user, server, budget>>

RequestOk ==
  /\ phase = "requesting"
  /\ issued_at # Unissued
  /\ phase' = "ready"
  /\ auth' = [expires_in |-> Greatest(lifetime, 0), interval |-> Greatest(required, 1)]
  /\ UNCHANGED <<now, local, sent_at, reply, result, user, server, budget>>

\* Unreachable, late, a refusal, not JSON, or a required field that is blank.
RequestFailed ==
  /\ phase = "requesting"
  /\ \E error \in {"http", "authorization", "malformed"} : result' = error
  /\ phase' = "done"
  /\ UNCHANGED <<now, auth, local, sent_at, reply, user, server, budget>>

-----------------------------------------------------------------------------
(* poll. *)

Stop(outcome) ==
  /\ phase' = "done"
  /\ result' = outcome
  /\ UNCHANGED wake

\* Mutants: a sleep of the whole interval whatever is left, and a loop that
\* leaves out the last, shorter sleep.
LoopOversleeping(until, pause) ==
  IF now >= until THEN Stop("timeout")
  ELSE phase' = "sleeping" /\ wake' = now + pause /\ UNCHANGED result
LoopGivingUp(until, pause) ==
  IF now + pause > until THEN Stop("timeout")
  ELSE phase' = "sleeping" /\ wake' = now + pause /\ UNCHANGED result

\* The head of the loop: out of time, or a sleep that never passes the deadline.
Loop(until, pause) ==
  IF now >= until THEN Stop("timeout")
  ELSE /\ phase' = "sleeping"
       /\ wake' = now + Least(pause, until - now)
       /\ UNCHANGED result

PollStart ==
  /\ phase = "ready"
  /\ \E max_wait \in MaxWaits :
       /\ budget' = now + max_wait
       /\ deadline' = now + Least(max_wait, auth.expires_in)
       /\ deadline' <= InstantMax
  /\ interval' = auth.interval
  /\ sent_at' = now
  /\ Loop(deadline', interval')
  /\ UNCHANGED <<now, auth, reply, user, server>>

\* Mutant: the code's own end is computed before the minimum is taken.
PollPanicsEarly ==
  /\ phase = "ready"
  /\ \E max_wait \in MaxWaits :
       /\ now + auth.expires_in > InstantMax
       /\ budget' = now + max_wait
  /\ Stop("panicked")
  /\ UNCHANGED <<now, auth, deadline, interval, sent_at, reply, user, server>>

\* A deadline past the last instant: the sum panics in the caller's task.
PollPanics ==
  /\ phase = "ready"
  /\ \E max_wait \in MaxWaits :
       /\ now + Least(max_wait, auth.expires_in) > InstantMax
       /\ budget' = now + max_wait
  /\ Stop("panicked")
  /\ UNCHANGED <<now, auth, deadline, interval, sent_at, reply, user, server>>

\* No HTTP client to poll with.
PollUnstarted ==
  /\ phase = "ready"
  /\ Stop("http")
  /\ UNCHANGED <<now, auth, deadline, interval, sent_at, reply, user, server, budget>>

PollSend ==
  /\ phase = "sleeping"
  /\ now >= wake
  /\ phase' = "polling"
  /\ sent_at' = now
  /\ reply' = Silence
  /\ UNCHANGED <<now, auth, local, result, user, server, budget>>

\* Mutants: slow_down read as pending; the last two verdicts swapped.
ClassifyHurried(detail) ==
  CASE detail \in {"authorization_pending", "slow_down"} -> "pending"
    [] detail = "access_denied" -> "denied"
    [] detail = "expired_token" -> "expired"
    [] OTHER -> "fatal"
ClassifySwapped(detail) ==
  CASE detail = "authorization_pending" -> "pending"
    [] detail = "slow_down"     -> "slow_down"
    [] detail = "access_denied" -> "expired"
    [] detail = "expired_token" -> "denied"
    [] OTHER -> "fatal"

\* The meaning of an error code while polling.
Classify(detail) ==
  CASE detail = "authorization_pending" -> "pending"
    [] detail = "slow_down"             -> "slow_down"
    [] detail = "access_denied"         -> "denied"
    [] detail = "expired_token"         -> "expired"
    [] OTHER                            -> "fatal"

\* The answers that end the poll.
Verdict == [denied |-> "cancelled", expired |-> "timeout", fatal |-> "authorization"]

\* What poll makes of one exchange.
Receive(answer) ==
  LET minted  == PostTokenForm(answer)
      outcome == Classify(minted.detail)
  IN  /\ \/ /\ minted.ok
            /\ Stop("ok")
            /\ UNCHANGED interval
         \/ /\ minted.error = "authorization" /\ outcome = "pending"
            /\ Loop(deadline, interval)
            /\ UNCHANGED interval
         \/ /\ minted.error = "authorization" /\ outcome = "slow_down"
            /\ interval' = interval + SlowDownStep
            /\ Loop(deadline, interval')
         \/ /\ minted.error = "authorization" /\ outcome \in DOMAIN Verdict
            /\ Stop(Verdict[outcome])
            /\ UNCHANGED interval
         \/ /\ minted.error \in {"http", "malformed"}
            /\ Stop(minted.error)
            /\ UNCHANGED interval
      /\ reply' = Silence
      /\ UNCHANGED <<now, auth, deadline, sent_at, user, server, budget>>

\* Mutant: an answer is thrown away when the deadline has passed meanwhile.
PollAnsweredInTime ==
  /\ phase = "polling"
  /\ reply # Silence
  /\ IF now < deadline THEN Receive(reply)
     ELSE /\ Stop("timeout")
          /\ UNCHANGED <<now, auth, deadline, interval, sent_at, reply, user, server, budget>>

PollAnswered ==
  /\ phase = "polling"
  /\ reply # Silence
  /\ Receive(reply)

\* Mutant: an HTTP client without a timeout.
PollNoTimeout ==
  /\ phase = "polling"
  /\ reply # Silence
  /\ Receive(Silence)

\* A connection error at any time, and the client's timeout at the latest.
PollFailed ==
  /\ phase = "polling"
  /\ Receive(Silence)

\* The application drops the future while it sleeps or waits.
PollDropped ==
  /\ phase \in {"sleeping", "polling"}
  /\ Stop("dropped")
  /\ UNCHANGED <<now, auth, deadline, interval, sent_at, reply, user, server, budget>>

-----------------------------------------------------------------------------
(* The user and the token endpoint. *)

Lapsed == now >= issued_at + lifetime

UserDecides ==
  /\ phase \in {"ready", "sleeping", "polling"}
  /\ user = "undecided"
  /\ ~Lapsed
  /\ user' \in {"approved", "denied"}
  /\ UNCHANGED <<now, phase, auth, local, sent_at, reply, result, server, budget>>

Asked == phase = "polling" /\ reply = Silence

Answer(code) == \E success \in BOOLEAN : reply' = Refused(success, code)

ServerAnswers ==
  /\ Asked
  /\ ~granted
  /\ \/ /\ Lapsed
        /\ Answer("expired_token")
        /\ UNCHANGED <<required, granted>>
     \/ /\ ~Lapsed /\ user = "undecided"
        /\ Answer("authorization_pending")
        /\ UNCHANGED <<required, granted>>
     \/ /\ ~Lapsed /\ user = "undecided"
        /\ Answer("slow_down")
        /\ required' = required + SlowDownStep
        /\ UNCHANGED granted
     \/ /\ ~Lapsed /\ user = "denied"
        /\ Answer("access_denied")
        /\ UNCHANGED <<required, granted>>
     \/ /\ ~Lapsed /\ user = "approved"
        /\ reply' = Granted(1, 1)
        /\ granted' = TRUE
        /\ UNCHANGED required
  /\ UNCHANGED <<now, phase, auth, local, sent_at, result, user, issued_at, lifetime, budget>>

\* Broken or misconfigured.
ServerFails ==
  /\ Asked
  /\ ~granted
  /\ reply' \in {Refused(FALSE, "none"), Refused(TRUE, "none"),
                 Refused(FALSE, "invalid_client"), Hollow}
  /\ UNCHANGED <<now, phase, auth, local, sent_at, result, user, server, budget>>

-----------------------------------------------------------------------------
(* The clock stops for whatever is due: the end of a sleep, an HTTP timeout. *)

Tick ==
  /\ phase \in {"requesting", "polling"} => now < sent_at + HttpTimeout
  /\ phase = "sleeping" => now < wake
  /\ phase = "ready" => now < Patience
  /\ phase # "done"
  /\ now' = now + 1
  /\ UNCHANGED <<phase, auth, local, sent_at, reply, result, user, server, budget>>

Request == RequestOk \/ RequestFailed
Poll ==
  \/ PollStart \/ PollPanics \/ PollUnstarted
  \/ PollSend \/ PollAnswered \/ PollFailed \/ PollDropped
Server == ServerIssues \/ ServerAnswers \/ ServerFails

Next == Request \/ Poll \/ Server \/ UserDecides \/ Tick

Spec == Init /\ [][Next]_vars

\* Time passes, and tokio runs what is due.  Nobody has to answer.
Fairness == WF_vars(Tick) /\ WF_vars(PollSend) /\ WF_vars(PollFailed)

FairSpec == Spec /\ Fairness

-----------------------------------------------------------------------------
TypeOK ==
  /\ now \in Nat
  /\ phase \in Phases
  /\ auth \in [expires_in : Nat, interval : Nat]
  /\ deadline \in Nat /\ interval \in Nat /\ wake \in Nat
  /\ sent_at \in 0 .. now
  /\ reply \in Reply({1}, Codes)
  /\ result \in Results
  /\ user \in {"undecided", "approved", "denied"}
  /\ issued_at \in Nat \cup {Unissued} /\ lifetime \in Int /\ required \in Int
  /\ granted \in BOOLEAN
  /\ budget \in Nat

Polling == phase \in {"sleeping", "polling"}

\* However slow the endpoint and however long the interval it asks for, poll is
\* back within max_wait plus one HTTP timeout.
BoundedWait == Polling => now <= budget + HttpTimeout

\* Polls are as far apart as the server has asked, slow_down included; only the
\* last one, which is sent when the deadline falls, may come early.
EarlyPollOnlyAtDeadline ==
  [][PollSend => now - sent_at >= required \/ now = deadline]_vars

\* poll does not give up early: when it reports a timeout, the code's own time is
\* over, or the deadline has passed and the last poll was still under way or due
\* within one HTTP timeout of it.
TimeoutIsEarned ==
  phase = "done" /\ result = "timeout" =>
    \/ Lapsed
    \/ now >= deadline /\ sent_at + HttpTimeout >= deadline

\* A grant the server made is returned, unless its answer never arrives or the
\* caller has left.
GrantReturned ==
  phase = "done" /\ granted => result \in {"ok", "http", "dropped"}

\* No server can make poll panic, whatever lifetime it states: only an
\* application whose own max_wait reaches past the last instant risks it.
PanicIsOwn == result = "panicked" => budget > InstantMax

\* The user's decision is what the application is told.
DecisionReported ==
  /\ result = "ok" => user = "approved"
  /\ result = "cancelled" => user = "denied"

\* poll always returns, even when the server never answers.
PollReturns == Polling ~> phase = "done"
=============================================================================
