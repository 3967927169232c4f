--------------------------- MODULE DeviceCodeProofs ---------------------------
(***************************************************************************)
(* The device-code sign-in for any durations: what a server states, what   *)
(* an application waits for, and the constants of the code.                *)
(*                                                                         *)
(* The invariant says what each phase of poll knows: a sleep ends by the   *)
(* deadline and leaves the interval asked for, an exchange is no older     *)
(* than the HTTP timeout, and the answer on its way is one the server had  *)
(* reason to give.                                                         *)
(***************************************************************************)
EXTENDS DeviceCode, TLAPS

\* The answers a device exchange may end in.
Answers ==
  {Silence, Granted(1, 1), Hollow}
    \cup {Refused(success, code) : success \in BOOLEAN, code \in Codes \cup {"none"}}

Says(code) == reply \in {Refused(success, code) : success \in BOOLEAN}

\* A slow_down that poll has not received yet.
Owed == IF Says("slow_down") THEN SlowDownStep ELSE 0

\* What the phases know of time.
TimeOK ==
  /\ phase = "ready" => auth.interval >= required
  /\ Polling => deadline <= budget
  /\ phase = "sleeping" =>
       /\ sent_at <= now /\ now <= wake /\ wake <= deadline
       /\ wake = deadline \/ wake - sent_at >= interval
       /\ interval >= required
  /\ phase = "polling" =>
       /\ sent_at <= deadline /\ now <= sent_at + HttpTimeout
       /\ interval + Owed >= required

\* What stands behind the answer on its way.
AnswerOK ==
  phase = "polling" =>
    /\ reply = Granted(1, 1) => user = "approved"
    /\ Says("access_denied") => user = "denied"
    /\ Says("expired_token") => Lapsed

\* A grant is on its way, or poll is over.
GrantOK ==
  granted => phase = "done" \/ (phase = "polling" /\ reply = Granted(1, 1))

\* What the caller has been told.
ResultOK ==
  /\ phase # "done" => result = "none"
  /\ TimeoutIsEarned /\ GrantReturned /\ PanicIsOwn /\ DecisionReported

PollOK ==
  /\ TypeOK /\ reply \in Answers
  /\ TimeOK /\ AnswerOK /\ GrantOK /\ ResultOK

-----------------------------------------------------------------------------
(* One exchange. *)

\* Every answer is a reply in the sense of the token path.
LEMMA AnswersTyped == Answers \subseteq Reply({1}, Codes)
<1>1. \A success \in BOOLEAN, code \in Codes \cup {"none"} :
        Refused(success, code) \in Reply({1}, Codes)
  BY DEF Reply, Refused
<1>2. {Silence, Granted(1, 1), Hollow} \subseteq Reply({1}, Codes)
  BY DEF Reply, Silence, Granted, Hollow
<1> QED
  BY <1>1, <1>2 DEF Answers

\* What the shared token path makes of each (post_token_form).
LEMMA Exchanged ==
  /\ PostTokenForm(Silence) = Failure("http", "none")
  /\ PostTokenForm(Granted(1, 1)).ok
  /\ PostTokenForm(Granted(1, 1)).error = "none"
  /\ PostTokenForm(Hollow) = Failure("malformed", "none")
  /\ \A success \in BOOLEAN, code \in Codes :
       PostTokenForm(Refused(success, code)) = Failure("authorization", code)
  /\ PostTokenForm(Refused(TRUE, "none")) = Failure("malformed", "none")
  /\ PostTokenForm(Refused(FALSE, "none")) = Failure("authorization", "http_status")
<1>1. PostTokenForm(Silence) = Failure("http", "none")
  <2>1. ~Silence.delivered /\ ~IsGrant(Silence)
    BY DEF Silence, IsGrant
  <2> QED
    BY <2>1 DEF PostTokenForm
<1>2. /\ IsGrant(Granted(1, 1)) /\ Whole(Granted(1, 1)) /\ Granted(1, 1).delivered
      /\ IsGrant(Hollow) /\ ~Whole(Hollow) /\ Hollow.delivered
  BY DEF Granted, Hollow, IsGrant, Whole, Blank
<1>3. PostTokenForm(Granted(1, 1)) = Minted(Granted(1, 1))
  BY <1>2 DEF PostTokenForm
<1>4. PostTokenForm(Granted(1, 1)).ok /\ PostTokenForm(Granted(1, 1)).error = "none"
  BY <1>3 DEF Minted
<1>5. PostTokenForm(Hollow) = Failure("malformed", "none")
  BY <1>2 DEF PostTokenForm
<1>6. ASSUME NEW success \in BOOLEAN, NEW code
      PROVE  PostTokenForm(Refused(success, code)) =
               IF code # "none" THEN Failure("authorization", code)
               ELSE IF success THEN Failure("malformed", "none")
               ELSE Failure("authorization", "http_status")
  <2>1. /\ Refused(success, code).delivered /\ ~IsGrant(Refused(success, code))
        /\ Refused(success, code).error = code /\ Refused(success, code).success = success
    BY DEF Refused, IsGrant
  <2> QED
    BY <2>1 DEF PostTokenForm
<1>7. "none" \notin Codes
  BY DEF Codes
<1> QED
  BY <1>1, <1>4, <1>5, <1>6, <1>7

\* The answers are told apart by their fields.
LEMMA AnswersDiffer ==
  /\ Granted(1, 1) # Silence /\ Granted(1, 1) # Hollow /\ Hollow # Silence
  /\ \A success \in BOOLEAN, code \in Codes \cup {"none"} :
       /\ Refused(success, code) \notin {Silence, Granted(1, 1), Hollow}
       /\ Refused(success, code).error = code
BY DEF Silence, Granted, Hollow, Refused

\* The match on the outcome, answer by answer (DeviceAuthorization::poll).
LEMMA Received ==
  ASSUME NEW answer \in Answers, Receive(answer)
  PROVE  /\ reply' = Silence
         /\ UNCHANGED <<now, auth, deadline, sent_at, user, server, budget>>
         /\ \/ answer = Granted(1, 1) /\ Stop("ok") /\ UNCHANGED interval
            \/ /\ \E success \in BOOLEAN : answer = Refused(success, "authorization_pending")
               /\ Loop(deadline, interval) /\ UNCHANGED interval
            \/ /\ \E success \in BOOLEAN : answer = Refused(success, "slow_down")
               /\ interval' = interval + SlowDownStep /\ Loop(deadline, interval')
            \/ /\ \E success \in BOOLEAN : answer = Refused(success, "access_denied")
               /\ Stop("cancelled") /\ UNCHANGED interval
            \/ /\ \E success \in BOOLEAN : answer = Refused(success, "expired_token")
               /\ Stop("timeout") /\ UNCHANGED interval
            \/ answer = Silence /\ Stop("http") /\ UNCHANGED interval
            \/ /\ answer \notin {Silence, Granted(1, 1)}
               /\ Stop("authorization") \/ Stop("malformed")
               /\ UNCHANGED interval
<1> DEFINE minted == PostTokenForm(answer)
<1>1. /\ reply' = Silence
      /\ UNCHANGED <<now, auth, deadline, sent_at, user, server, budget>>
  BY DEF Receive
<1>2. CASE answer = Granted(1, 1)
  BY <1>1, <1>2, Exchanged DEF Receive
<1>3. CASE answer = Silence
  BY <1>1, <1>3, Exchanged DEF Receive, Failure
<1>4. CASE answer = Hollow
  BY <1>1, <1>4, Exchanged, AnswersDiffer DEF Receive, Failure
<1>5. ASSUME NEW success \in BOOLEAN, NEW code \in Codes, answer = Refused(success, code)
      PROVE  \/ code = "authorization_pending" /\ Loop(deadline, interval) /\ UNCHANGED interval
             \/ /\ code = "slow_down"
                /\ interval' = interval + SlowDownStep /\ Loop(deadline, interval')
             \/ code = "access_denied" /\ Stop("cancelled") /\ UNCHANGED interval
             \/ code = "expired_token" /\ Stop("timeout") /\ UNCHANGED interval
             \/ Stop("authorization") /\ UNCHANGED interval
  <2>1. /\ ~minted.ok /\ minted.error = "authorization" /\ minted.detail = code
    BY <1>5, Exchanged DEF Failure
  <2> HIDE DEF minted
  <2>2. \/ code = "authorization_pending" /\ Classify(code) = "pending"
        \/ code = "slow_down" /\ Classify(code) = "slow_down"
        \/ code = "access_denied" /\ Classify(code) = "denied"
        \/ code = "expired_token" /\ Classify(code) = "expired"
        \/ code = "invalid_client" /\ Classify(code) = "fatal"
    BY DEF Classify, Codes
  <2> QED
    BY <2>1, <2>2 DEF Receive, minted, Verdict
<1>6. ASSUME NEW success \in BOOLEAN, answer = Refused(success, "none")
      PROVE  (Stop("authorization") \/ Stop("malformed")) /\ UNCHANGED interval
  <2>1. CASE success
    <3>1. minted = Failure("malformed", "none")
      BY <1>6, <2>1, Exchanged
    <3> QED
      BY <3>1 DEF Receive, Failure
  <2>2. CASE ~success
    <3>1. minted = Failure("authorization", "http_status")
      BY <1>6, <2>2, Exchanged
    <3>2. Classify("http_status") = "fatal"
      BY DEF Classify
    <3> QED
      BY <3>1, <3>2 DEF Receive, Failure, Verdict
  <2> QED
    BY <2>1, <2>2
<1> HIDE DEF minted
<1>7. CASE answer \in {Refused(success, code) : success \in BOOLEAN, code \in Codes}
  BY <1>1, <1>5, <1>7, AnswersDiffer
<1>8. CASE answer \in {Refused(success, "none") : success \in BOOLEAN}
  BY <1>1, <1>6, <1>8, AnswersDiffer
<1> QED
  BY <1>2, <1>3, <1>4, <1>7, <1>8 DEF Answers

-----------------------------------------------------------------------------
(* The invariant. *)

\* The head of the loop: the time is up, or a sleep of the interval or up to the deadline.
LEMMA LoopTimes ==
  ASSUME NEW until \in Nat, NEW pause \in Nat, now \in Nat, Loop(until, pause)
  PROVE  \/ now >= until /\ phase' = "done" /\ result' = "timeout" /\ UNCHANGED wake
         \/ /\ now < until /\ phase' = "sleeping" /\ UNCHANGED result
            /\ wake' \in Nat /\ now <= wake' /\ wake' <= until
            /\ wake' = until \/ wake' - now >= pause
BY DEF Loop, Stop, Least

\* At the start the user has not heard of the sign-in.
LEMMA PollOKInit == Init => PollOK
<1> SUFFICES ASSUME Init PROVE PollOK
  OBVIOUS
<1>1. reply \in Answers /\ reply \in Reply({1}, Codes)
  BY AnswersTyped DEF Init, Answers
<1>2. TypeOK
  <2>1. auth \in [expires_in : Nat, interval : Nat]
    BY DEF Init
  <2>2. phase \in Phases /\ result \in Results /\ user \in {"undecided", "approved", "denied"}
    BY DEF Init, Phases, Results
  <2>3. granted \in BOOLEAN
    BY DEF Init
  <2> QED
    BY <1>1, <2>1, <2>2, <2>3 DEF Init, TypeOK, Unissued
<1>3. TimeOK /\ AnswerOK /\ GrantOK
  BY DEF Init, TimeOK, AnswerOK, GrantOK, Polling
<1>4. ResultOK
  BY DEF Init, ResultOK, TimeoutIsEarned, GrantReturned, PanicIsOwn, DecisionReported
<1> QED
  BY <1>1, <1>2, <1>3, <1>4 DEF PollOK

\* Optional fields the server states are integers, or the defaults.
LEMMA StatedInt ==
  ASSUME NEW option \in SUBSET Int, NEW default \in Nat
  PROVE  UnwrapOr(option, default) \in Int
<1>1. CASE option = {}
  BY <1>1 DEF UnwrapOr
<1>2. CASE option # {}
  BY <1>2 DEF UnwrapOr
<1> QED
  BY <1>1, <1>2

\* request: what the server states and what the application keeps of it.
LEMMA RequestKeeps ==
  ASSUME PollOK, ServerIssues \/ RequestOk \/ RequestFailed
  PROVE  PollOK'
<1> USE DEF Phases, Results, Unissued
<1>1. CASE ServerIssues
  <2>1. lifetime' \in Int /\ required' \in Int
    BY <1>1, StatedInt, StatedAssumption, DurationsAssumption DEF ServerIssues
  <2>2. /\ phase = "requesting" /\ issued_at' = now
        /\ UNCHANGED <<now, phase, auth, deadline, interval, wake, sent_at, reply, result, user,
                       granted, budget>>
    BY <1>1 DEF ServerIssues, local
  <2>3. TypeOK'
    BY <2>1, <2>2 DEF PollOK, TypeOK
  <2>4. (TimeOK /\ AnswerOK)'
    BY <2>2 DEF TimeOK, AnswerOK, Polling
  <2>5. (GrantOK /\ ResultOK)'
    BY <2>2 DEF PollOK, GrantOK, ResultOK, TimeoutIsEarned, GrantReturned, PanicIsOwn,
                DecisionReported
  <2> QED
    BY <2>2, <2>3, <2>4, <2>5 DEF PollOK
<1>2. CASE RequestOk
  <2>1. /\ phase = "requesting" /\ phase' = "ready"
        /\ auth' = [expires_in |-> Greatest(lifetime, 0), interval |-> Greatest(required, 1)]
        /\ UNCHANGED <<now, deadline, interval, wake, sent_at, reply, result, user,
                       issued_at, lifetime, required, granted, budget>>
    BY <1>2 DEF RequestOk, local, server
  <2>2. Greatest(lifetime, 0) \in Nat /\ Greatest(required, 1) \in Nat
        /\ Greatest(required, 1) >= required
    BY DEF PollOK, TypeOK, Greatest
  <2>3. auth' \in [expires_in : Nat, interval : Nat] /\ auth'.interval >= required
    BY <2>1, <2>2
  <2>4. TypeOK'
    BY <2>1, <2>3 DEF PollOK, TypeOK
  <2>5. (TimeOK /\ AnswerOK)'
    BY <2>1, <2>3 DEF TimeOK, AnswerOK, Polling
  <2>6. (GrantOK /\ ResultOK)'
    BY <2>1 DEF PollOK, GrantOK, ResultOK, TimeoutIsEarned, GrantReturned, PanicIsOwn,
                DecisionReported
  <2> QED
    BY <2>1, <2>4, <2>5, <2>6 DEF PollOK
<1>3. CASE RequestFailed
  <2>1. /\ phase = "requesting" /\ phase' = "done"
        /\ result' \in {"http", "authorization", "malformed"}
        /\ UNCHANGED <<now, auth, deadline, interval, wake, sent_at, reply, user,
                       issued_at, lifetime, required, granted, budget>>
    BY <1>3 DEF RequestFailed, local, server
  <2>2. TypeOK'
    BY <2>1 DEF PollOK, TypeOK
  <2>3. (TimeOK /\ AnswerOK)'
    BY <2>1 DEF TimeOK, AnswerOK, Polling
  <2>4. ~granted
    BY <2>1 DEF PollOK, GrantOK
  <2>5. (GrantOK /\ ResultOK)'
    BY <2>1, <2>4 DEF GrantOK, ResultOK, TimeoutIsEarned, GrantReturned, PanicIsOwn,
                DecisionReported
  <2> QED
    BY <2>1, <2>2, <2>3, <2>5 DEF PollOK
<1> QED
  BY <1>1, <1>2, <1>3

\* poll up to its first exchange, and a caller who leaves.
LEMMA LeavingKeeps ==
  ASSUME PollOK, PollPanics \/ PollUnstarted \/ PollDropped
  PROVE  PollOK'
<1> USE DEF Phases, Results, Unissued
<1>1. /\ phase' = "done" /\ result' \in {"panicked", "http", "dropped"} /\ budget' \in Nat
      /\ result' = "panicked" => budget' > InstantMax /\ phase = "ready"
      /\ result' = "http" => phase = "ready"
      /\ UNCHANGED <<now, auth, deadline, interval, wake, sent_at, reply, user,
                     issued_at, lifetime, required, granted>>
  <2>1. CASE PollPanics
    <3>1. PICK max_wait \in MaxWaits :
            /\ now + Least(max_wait, auth.expires_in) > InstantMax
            /\ budget' = now + max_wait
      BY <2>1 DEF PollPanics
    <3>2. max_wait \in Nat /\ InstantMax \in Nat /\ now \in Nat /\ auth.expires_in \in Nat
      BY DurationsAssumption DEF PollOK, TypeOK
    <3>3. budget' \in Nat /\ budget' > InstantMax
      BY <3>1, <3>2 DEF Least
    <3> QED
      BY <2>1, <3>3 DEF PollPanics, Stop, server
  <2>2. CASE PollUnstarted
    BY <2>2 DEF PollUnstarted, Stop, server, PollOK, TypeOK
  <2>3. CASE PollDropped
    BY <2>3 DEF PollDropped, Stop, server, PollOK, TypeOK
  <2> QED
    BY <2>1, <2>2, <2>3
<1>2. TypeOK'
  BY <1>1 DEF PollOK, TypeOK
<1>3. (TimeOK /\ AnswerOK)'
  BY <1>1 DEF TimeOK, AnswerOK, Polling
<1>4. phase = "ready" => ~granted
  BY DEF PollOK, GrantOK
<1>5. (GrantOK /\ ResultOK)'
  BY <1>1, <1>4 DEF GrantOK, ResultOK, TimeoutIsEarned, GrantReturned, PanicIsOwn,
               DecisionReported
<1> QED
  BY <1>1, <1>2, <1>3, <1>5 DEF PollOK

\* poll sets its deadline and enters the loop.
LEMMA PollStartKeeps ==
  ASSUME PollOK, PollStart
  PROVE  PollOK'
<1> USE DEF Phases, Results, Unissued
<1>1. /\ phase = "ready" /\ interval' = auth.interval /\ sent_at' = now
      /\ Loop(deadline', interval')
      /\ UNCHANGED <<now, auth, reply, user, issued_at, lifetime, required, granted>>
  BY DEF PollStart, server
<1>2. PICK max_wait \in MaxWaits :
        budget' = now + max_wait /\ deadline' = now + Least(max_wait, auth.expires_in)
  BY DEF PollStart
<1>3. /\ max_wait \in Nat /\ now \in Nat /\ auth.expires_in \in Nat /\ auth.interval \in Nat
      /\ required \in Int /\ auth.interval >= required
  BY <1>1, DurationsAssumption DEF PollOK, TypeOK, TimeOK
<1>4. deadline' \in Nat /\ budget' \in Nat /\ deadline' <= budget' /\ interval' \in Nat
      /\ interval' >= required
  BY <1>1, <1>2, <1>3 DEF Least
<1>5. \/ now >= deadline' /\ phase' = "done" /\ result' = "timeout" /\ UNCHANGED wake
      \/ /\ now < deadline' /\ phase' = "sleeping" /\ UNCHANGED result
         /\ wake' \in Nat /\ now <= wake' /\ wake' <= deadline'
         /\ wake' = deadline' \/ wake' - now >= interval'
  BY <1>1, <1>3, <1>4, LoopTimes
<1>6. TypeOK'
  BY <1>1, <1>3, <1>4, <1>5 DEF PollOK, TypeOK
<1>7. (TimeOK /\ AnswerOK)'
  BY <1>1, <1>3, <1>4, <1>5 DEF TimeOK, AnswerOK, Polling
<1>8. ~granted /\ result = "none"
  BY <1>1 DEF PollOK, GrantOK, ResultOK
<1>9. TimeoutIsEarned'
  BY <1>1, <1>3, <1>4, <1>5, <1>8, DurationsAssumption DEF TimeoutIsEarned
<1>10. (GrantOK /\ ResultOK)'
  BY <1>1, <1>5, <1>8, <1>9
     DEF GrantOK, ResultOK, GrantReturned, PanicIsOwn, DecisionReported
<1> QED
  BY <1>1, <1>6, <1>7, <1>10 DEF PollOK

\* A sleep ends exactly when it is due, by the deadline.
LEMMA PollSendKeeps ==
  ASSUME PollOK, PollSend
  PROVE  PollOK'
<1> USE DEF Phases, Results, Unissued
<1>1. /\ phase = "sleeping" /\ phase' = "polling" /\ now >= wake
      /\ sent_at' = now /\ reply' = Silence
      /\ UNCHANGED <<now, auth, deadline, interval, wake, result, user,
                     issued_at, lifetime, required, granted, budget>>
  BY DEF PollSend, local, server
<1>2. now \in Nat /\ wake \in Nat /\ deadline \in Nat /\ required \in Int /\ interval \in Nat
      /\ HttpTimeout \in Nat
  BY DurationsAssumption DEF PollOK, TypeOK
<1>3. reply' \in Answers /\ reply' \in Reply({1}, Codes)
  BY <1>1, AnswersTyped DEF Answers
<1>4. TypeOK'
  BY <1>1, <1>2, <1>3 DEF PollOK, TypeOK
<1>5. \A code \in Codes : ~Says(code)'
  BY <1>1, AnswersDiffer DEF Says, Codes
<1>6. Owed' = 0
  BY <1>5 DEF Owed, Codes
<1>7. TimeOK'
  BY <1>1, <1>2, <1>6 DEF PollOK, TimeOK, Polling
<1>8. AnswerOK'
  BY <1>1, <1>5, AnswersDiffer DEF AnswerOK, Codes
<1>9. ~granted /\ result = "none"
  BY <1>1 DEF PollOK, GrantOK, ResultOK
<1>10. (GrantOK /\ ResultOK)'
  BY <1>1, <1>9 DEF GrantOK, ResultOK, TimeoutIsEarned, GrantReturned, PanicIsOwn,
               DecisionReported
<1> QED
  BY <1>3, <1>4, <1>7, <1>8, <1>10 DEF PollOK

\* One exchange is over: with the answer on its way, or with none.
LEMMA ReceiveKeeps ==
  ASSUME PollOK, PollAnswered \/ PollFailed
  PROVE  PollOK'
<1> USE DEF Phases, Results, Unissued
<1>1. phase = "polling" /\ \E answer \in {reply, Silence} : Receive(answer)
  BY DEF PollAnswered, PollFailed
<1>2. PICK answer \in {reply, Silence} : Receive(answer)
  BY <1>1
<1>3. answer \in Answers
  BY DEF PollOK, Answers
<1>4. /\ reply' = Silence
      /\ UNCHANGED <<now, auth, deadline, sent_at, user, issued_at, lifetime, required,
                     granted, budget>>
  BY <1>2, <1>3, Received DEF server
<1>5. /\ now \in Nat /\ wake \in Nat /\ deadline \in Nat /\ required \in Int /\ interval \in Nat
      /\ HttpTimeout \in Nat /\ SlowDownStep \in Nat /\ sent_at \in Nat /\ sent_at <= now
      /\ budget \in Nat
  BY DurationsAssumption DEF PollOK, TypeOK
<1>6. /\ sent_at <= deadline /\ now <= sent_at + HttpTimeout /\ deadline <= budget
      /\ interval + Owed >= required
      /\ reply = Granted(1, 1) => user = "approved"
      /\ Says("access_denied") => user = "denied"
      /\ Says("expired_token") => Lapsed
      /\ granted => reply = Granted(1, 1)
      /\ result = "none"
  BY <1>1 DEF PollOK, TimeOK, AnswerOK, GrantOK, ResultOK, Polling
<1>7. reply' \in Answers /\ reply' \in Reply({1}, Codes)
  BY <1>4, AnswersTyped DEF Answers
<1>8. \A success \in BOOLEAN, code \in Codes :
        answer = Refused(success, code) =>
          /\ answer = reply /\ Says(code) /\ answer # Granted(1, 1)
          /\ \A other \in Codes : Says(other) => other = code
  BY <1>2, AnswersDiffer DEF Says, Codes
<1>9. Lapsed' = Lapsed
  BY <1>4 DEF Lapsed
\* The loop goes on, with at least the interval the server has asked for.
<1>10. ASSUME interval' \in Nat, interval' >= required, Loop(deadline, interval'), ~granted
       PROVE  PollOK'
  <2>1. \/ now >= deadline /\ phase' = "done" /\ result' = "timeout" /\ UNCHANGED wake
        \/ /\ now < deadline /\ phase' = "sleeping" /\ UNCHANGED result
           /\ wake' \in Nat /\ now <= wake' /\ wake' <= deadline
           /\ wake' = deadline \/ wake' - now >= interval'
    BY <1>5, <1>10, LoopTimes
  <2>2. TypeOK'
    BY <1>4, <1>5, <1>7, <1>10, <2>1 DEF PollOK, TypeOK
  <2>3. (TimeOK /\ AnswerOK)'
    BY <1>4, <1>5, <1>6, <1>10, <2>1 DEF TimeOK, AnswerOK, Polling
  <2>4. TimeoutIsEarned'
    BY <1>4, <1>5, <1>6, <2>1 DEF TimeoutIsEarned
  <2>5. (GrantOK /\ ResultOK)'
    BY <1>4, <1>6, <1>10, <2>1, <2>4
       DEF GrantOK, ResultOK, GrantReturned, PanicIsOwn, DecisionReported
  <2> QED
    BY <1>7, <2>2, <2>3, <2>5 DEF PollOK
\* Or it stops, with a result the answer accounts for.
<1>11. ASSUME NEW outcome \in {"ok", "http", "cancelled", "timeout", "authorization", "malformed"},
              Stop(outcome), UNCHANGED interval,
              outcome = "ok" => user = "approved",
              outcome = "cancelled" => user = "denied",
              outcome = "timeout" => Lapsed,
              granted => outcome \in {"ok", "http"}
       PROVE  PollOK'
  <2>1. phase' = "done" /\ result' = outcome /\ UNCHANGED <<wake, interval>>
    BY <1>11 DEF Stop
  <2>2. TypeOK'
    BY <1>4, <1>5, <1>7, <2>1 DEF PollOK, TypeOK
  <2>3. (TimeOK /\ AnswerOK)'
    BY <2>1 DEF TimeOK, AnswerOK, Polling
  <2>4. (GrantOK /\ ResultOK)'
    BY <1>4, <1>9, <1>11, <2>1
       DEF GrantOK, ResultOK, TimeoutIsEarned, GrantReturned, PanicIsOwn, DecisionReported
  <2> QED
    BY <1>7, <2>2, <2>3, <2>4 DEF PollOK
<1>12. CASE answer = Granted(1, 1) /\ Stop("ok") /\ UNCHANGED interval
  <2>1. reply = Granted(1, 1)
    BY <1>2, <1>12, AnswersDiffer
  <2> QED
    BY <1>6, <1>11, <1>12, <2>1
<1>13. CASE /\ \E success \in BOOLEAN : answer = Refused(success, "authorization_pending")
            /\ Loop(deadline, interval) /\ UNCHANGED interval
  <2>1. ~Says("slow_down") /\ ~granted
    BY <1>6, <1>8, <1>13 DEF Codes
  <2> QED
    BY <1>5, <1>6, <1>10, <1>13, <2>1 DEF Owed
<1>14. CASE /\ \E success \in BOOLEAN : answer = Refused(success, "slow_down")
            /\ interval' = interval + SlowDownStep /\ Loop(deadline, interval')
  <2>1. Says("slow_down") /\ ~granted
    BY <1>6, <1>8, <1>14 DEF Codes
  <2> QED
    BY <1>5, <1>6, <1>10, <1>14, <2>1 DEF Owed
<1>15. CASE /\ \E success \in BOOLEAN : answer = Refused(success, "access_denied")
            /\ Stop("cancelled") /\ UNCHANGED interval
  <2>1. Says("access_denied") /\ ~granted
    BY <1>6, <1>8, <1>15 DEF Codes
  <2> QED
    BY <1>6, <1>11, <1>15, <2>1
<1>16. CASE /\ \E success \in BOOLEAN : answer = Refused(success, "expired_token")
            /\ Stop("timeout") /\ UNCHANGED interval
  <2>1. Says("expired_token") /\ ~granted
    BY <1>6, <1>8, <1>16 DEF Codes
  <2> QED
    BY <1>6, <1>11, <1>16, <2>1
<1>17. CASE answer = Silence /\ Stop("http") /\ UNCHANGED interval
  BY <1>11, <1>17
<1>18. CASE /\ answer \notin {Silence, Granted(1, 1)}
            /\ Stop("authorization") \/ Stop("malformed")
            /\ UNCHANGED interval
  <2>1. ~granted
    BY <1>2, <1>6, <1>18
  <2> QED
    BY <1>11, <1>18, <2>1
<1> QED
  BY <1>2, <1>3, <1>12, <1>13, <1>14, <1>15, <1>16, <1>17, <1>18, Received

\* The server answers an exchange under way.
LEMMA AnswerKeeps ==
  ASSUME PollOK, ServerAnswers \/ ServerFails
  PROVE  PollOK'
<1> USE DEF Phases, Results, Unissued
<1>1. /\ phase = "polling" /\ reply = Silence /\ ~granted
      /\ UNCHANGED <<now, phase, auth, deadline, interval, wake, sent_at, result, user,
                     issued_at, lifetime, budget>>
  BY DEF ServerAnswers, ServerFails, Asked, local, server
<1>2. required \in Int /\ interval \in Nat /\ SlowDownStep \in Nat
  BY DurationsAssumption DEF PollOK, TypeOK
<1>3. \A code \in Codes : ~Says(code)
  BY <1>1, AnswersDiffer DEF Says, Codes
<1>4. interval >= required
  BY <1>1, <1>2, <1>3 DEF PollOK, TimeOK, Owed, Codes
\* What each answer tells apart.
<1>5. \/ /\ \E success \in BOOLEAN : reply' = Refused(success, "expired_token")
         /\ Lapsed /\ UNCHANGED <<required, granted>>
      \/ /\ \E success \in BOOLEAN : reply' = Refused(success, "authorization_pending")
         /\ UNCHANGED <<required, granted>>
      \/ /\ \E success \in BOOLEAN : reply' = Refused(success, "slow_down")
         /\ required' = required + SlowDownStep /\ UNCHANGED granted
      \/ /\ \E success \in BOOLEAN : reply' = Refused(success, "access_denied")
         /\ user = "denied" /\ UNCHANGED <<required, granted>>
      \/ /\ reply' = Granted(1, 1) /\ user = "approved" /\ granted' = TRUE /\ UNCHANGED required
      \/ /\ \E success \in BOOLEAN, code \in {"none", "invalid_client"} :
              reply' = Refused(success, code)
         /\ UNCHANGED <<required, granted>>
      \/ reply' = Hollow /\ UNCHANGED <<required, granted>>
  <2>1. CASE ServerAnswers
    BY <2>1 DEF ServerAnswers, Answer
  <2>2. CASE ServerFails
    BY <2>2 DEF ServerFails, server
  <2> QED
    BY <2>1, <2>2
<1>6. reply' \in Answers
  BY <1>5 DEF Answers, Codes
<1>7. reply' \in Reply({1}, Codes)
  BY <1>6, AnswersTyped
<1>8. required' \in Int /\ granted' \in BOOLEAN
  <2>1. required' = required \/ required' = required + SlowDownStep
    BY <1>5
  <2>2. UNCHANGED <<required, granted>> => granted' = granted
    BY Zenon
  <2>3. granted' = granted \/ granted' = TRUE
    BY <1>5, <2>2, Zenon
  <2>4. granted \in BOOLEAN
    BY DEF PollOK, TypeOK
  <2>5. granted' \in BOOLEAN
    BY <2>3, <2>4, Zenon
  <2> QED
    BY <1>2, <2>1, <2>5
<1>9. TypeOK'
  BY <1>1, <1>7, <1>8 DEF PollOK, TypeOK
<1>10. /\ required' # required => Says("slow_down")' /\ required' = required + SlowDownStep
       /\ reply' = Granted(1, 1) => user = "approved"
       /\ granted' => reply' = Granted(1, 1)
       /\ Says("access_denied")' => user = "denied"
       /\ Says("expired_token")' => Lapsed
  BY <1>1, <1>5, AnswersDiffer DEF Says, Codes
<1>11. interval + Owed' >= required'
  BY <1>2, <1>4, <1>10 DEF Owed
<1>12. TimeOK'
  BY <1>1, <1>11 DEF PollOK, TimeOK, Polling
<1>13. Lapsed' = Lapsed
  BY <1>1 DEF Lapsed
<1>14. AnswerOK'
  BY <1>1, <1>10, <1>13 DEF AnswerOK
<1>15. (GrantOK /\ ResultOK)'
  BY <1>1, <1>10 DEF PollOK, GrantOK, ResultOK, TimeoutIsEarned, GrantReturned, PanicIsOwn,
                 DecisionReported
<1> QED
  BY <1>6, <1>9, <1>12, <1>14, <1>15 DEF PollOK

\* The user decides, or time passes, up to what is due.
LEMMA OutsideKeeps ==
  ASSUME PollOK, UserDecides \/ Tick
  PROVE  PollOK'
<1> USE DEF Phases, Results, Unissued
<1>1. CASE UserDecides
  <2>1. /\ phase \in {"ready", "sleeping", "polling"} /\ user = "undecided" /\ ~Lapsed
        /\ user' \in {"approved", "denied"}
        /\ UNCHANGED <<now, phase, auth, deadline, interval, wake, sent_at, reply, result,
                       issued_at, lifetime, required, granted, budget>>
    BY <1>1 DEF UserDecides, local, server
  <2>2. TypeOK'
    BY <2>1 DEF PollOK, TypeOK
  <2>3. TimeOK'
    BY <2>1 DEF PollOK, TimeOK, Polling, Owed, Says
  <2>4. AnswerOK'
    BY <2>1 DEF PollOK, AnswerOK, Says, Lapsed
  <2>5. (GrantOK /\ ResultOK)'
    BY <2>1 DEF PollOK, GrantOK, ResultOK, TimeoutIsEarned, GrantReturned, PanicIsOwn,
                DecisionReported
  <2> QED
    BY <2>1, <2>2, <2>3, <2>4, <2>5 DEF PollOK
<1>2. CASE Tick
  <2>1. /\ phase \in {"requesting", "polling"} => now < sent_at + HttpTimeout
        /\ phase = "sleeping" => now < wake
        /\ phase # "done" /\ now' = now + 1
        /\ UNCHANGED <<phase, auth, deadline, interval, wake, sent_at, reply, result, user,
                       issued_at, lifetime, required, granted, budget>>
    BY <1>2 DEF Tick, local, server
  <2>2. /\ now \in Nat /\ wake \in Nat /\ sent_at \in Nat /\ HttpTimeout \in Nat
        /\ issued_at \in Int /\ lifetime \in Int /\ sent_at <= now
    BY DurationsAssumption DEF PollOK, TypeOK
  <2>3. TypeOK'
    BY <2>1, <2>2 DEF PollOK, TypeOK
  <2>4. TimeOK'
    BY <2>1, <2>2 DEF PollOK, TimeOK, Polling, Owed, Says
  <2>5. Lapsed => Lapsed'
    BY <2>1, <2>2 DEF Lapsed
  <2>6. AnswerOK'
    BY <2>1, <2>5 DEF PollOK, AnswerOK, Says
  <2>7. (GrantOK /\ ResultOK)'
    BY <2>1 DEF PollOK, GrantOK, ResultOK, TimeoutIsEarned, GrantReturned, PanicIsOwn,
                DecisionReported
  <2> QED
    BY <2>1, <2>3, <2>4, <2>6, <2>7 DEF PollOK
<1> QED
  BY <1>1, <1>2

\* Every step keeps the invariant.
LEMMA PollOKNext == PollOK /\ [Next]_vars => PollOK'
<1> SUFFICES ASSUME PollOK, [Next]_vars PROVE PollOK'
  OBVIOUS
<1>1. CASE UNCHANGED vars
  BY <1>1 DEF vars, local, server, PollOK, TypeOK, TimeOK, Polling, Owed, Says, AnswerOK, Lapsed,
              GrantOK, ResultOK, TimeoutIsEarned, GrantReturned, PanicIsOwn, DecisionReported
<1>2. CASE Next
  BY <1>2, RequestKeeps, LeavingKeeps, PollStartKeeps, PollSendKeeps, ReceiveKeeps,
     AnswerKeeps, OutsideKeeps DEF Next, Request, Poll, Server
<1> QED
  BY <1>1, <1>2

\* The invariant holds in every behaviour.
LEMMA PollAlwaysOK == Spec => []PollOK
<1> QED
  BY PollOKInit, PollOKNext, PTL DEF Spec

-----------------------------------------------------------------------------
(* The properties. *)

\* The state of a sign-in keeps its type: in particular no server makes the code's
\* lifetime or the polling interval negative (request).
THEOREM DeviceTypeCorrect == Spec => []TypeOK
<1>1. PollOK => TypeOK
  BY DEF PollOK
<1> QED
  BY <1>1, PollAlwaysOK, PTL

\* poll is back within max_wait and one HTTP timeout, for any interval the server
\* asks for and any number of slow_downs (DeviceAuthorization::poll).
THEOREM WaitIsBounded == Spec => []BoundedWait
<1>1. PollOK => BoundedWait
  <2> SUFFICES ASSUME PollOK PROVE BoundedWait
    OBVIOUS
  <2>1. now \in Nat /\ wake \in Nat /\ deadline \in Nat /\ budget \in Nat /\ sent_at \in Nat
        /\ HttpTimeout \in Nat
    BY DurationsAssumption DEF PollOK, TypeOK
  <2> QED
    BY <2>1 DEF PollOK, TimeOK, BoundedWait, Polling
<1> QED
  BY <1>1, PollAlwaysOK, PTL

\* A timeout is never reported while code and deadline have time left.
THEOREM TimeoutEarned == Spec => []TimeoutIsEarned
<1>1. PollOK => TimeoutIsEarned
  BY DEF PollOK, ResultOK
<1> QED
  BY <1>1, PollAlwaysOK, PTL

\* A grant is returned, however late its answer, unless that answer is lost or the
\* caller has left.
THEOREM GrantIsReturned == Spec => []GrantReturned
<1>1. PollOK => GrantReturned
  BY DEF PollOK, ResultOK
<1> QED
  BY <1>1, PollAlwaysOK, PTL

\* No server can bring the caller's task down.
THEOREM PanicIsTheCallers == Spec => []PanicIsOwn
<1>1. PollOK => PanicIsOwn
  BY DEF PollOK, ResultOK
<1> QED
  BY <1>1, PollAlwaysOK, PTL

\* The user's decision is what the application is told (classify_poll_error).
THEOREM DecisionIsReported == Spec => []DecisionReported
<1>1. PollOK => DecisionReported
  BY DEF PollOK, ResultOK
<1> QED
  BY <1>1, PollAlwaysOK, PTL

\* Polls are as far apart as the server has asked, but for one at the deadline.
THEOREM PollsKeepTheInterval == Spec => EarlyPollOnlyAtDeadline
<1>1. PollOK /\ [Next]_vars => [PollSend => now - sent_at >= required \/ now = deadline]_vars
  <2> SUFFICES ASSUME PollOK, PollSend PROVE now - sent_at >= required \/ now = deadline
    OBVIOUS
  <2>1. /\ now \in Nat /\ wake \in Nat /\ deadline \in Nat /\ sent_at \in Nat
        /\ interval \in Nat /\ required \in Int
    BY DEF PollOK, TypeOK
  <2>2. phase = "sleeping" /\ now >= wake
    BY DEF PollSend
  <2> QED
    BY <2>1, <2>2 DEF PollOK, TimeOK
<1> QED
  BY <1>1, PollAlwaysOK, PTL DEF Spec, EarlyPollOnlyAtDeadline
=============================================================================
