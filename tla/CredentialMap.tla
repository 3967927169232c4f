----------------------------- MODULE CredentialMap -----------------------------
(***************************************************************************)
(* What the CredentialStore trait (credentials.rs) promises to threads     *)
(* that share a store: every operation takes effect at one instant between *)
(* its call and its return, on a map from provider to credential; a read   *)
(* delivers what the map held at that instant.  Once the store is broken,  *)
(* every operation is an error and the map stays as it was; measuring and  *)
(* cloning a store are no operations of the trait and go on.               *)
(***************************************************************************)
CONSTANTS
  Threads, Providers, Secrets,
  None   \* no provider

VARIABLES
  held,    \* the credential each provider has: a set of at most one
  broken,  \* the store refuses every further operation
  op       \* per thread, the operation in progress or the last answer

vars == <<held, broken, op>>

Credentials == [provider : Providers, secret : Secrets]

\* A request names a provider; a put carries a credential as well.
Requests ==
  [kind : {"put"}, provider : Providers, cred : {{c} : c \in Credentials}]
    \cup [kind : {"get", "delete", "sealed_len"}, provider : Providers, cred : {{}}]
    \cup [kind : {"providers", "clone"}, provider : {None}, cred : {{}}]

Ok(value) == [ok |-> TRUE, value |-> value]
Error == [ok |-> FALSE, value |-> {}]
Quiet(answer) == [phase |-> "idle", request |-> None, answer |-> answer]

Init ==
  /\ held = [p \in Providers |-> {}]
  /\ broken = FALSE
  /\ op = [t \in Threads |-> Quiet(Ok({}))]

-----------------------------------------------------------------------------
Call(t) ==
  /\ op[t].phase = "idle"
  /\ \E request \in Requests :
       /\ \A cred \in request.cred : request.provider = cred.provider
       /\ op' = [op EXCEPT ![t] = [phase |-> "called", request |-> request, answer |-> None]]
  /\ UNCHANGED <<held, broken>>

Requested(t, kind) == op[t].phase = "called" /\ op[t].request.kind = kind

\* A put may be refused by a store that is not broken: the map stays.
Fail(t) ==
  /\ op[t].phase = "called"
  /\ \/ broken /\ op[t].request.kind \notin {"sealed_len", "clone"}
     \/ op[t].request.kind = "put"
  /\ op' = [op EXCEPT ![t] = Quiet(Error)]
  /\ UNCHANGED <<held, broken>>

Change(t, cred) ==
  /\ ~broken
  /\ held' = [held EXCEPT ![op[t].request.provider] = cred]
  /\ op' = [op EXCEPT ![t] = Quiet(Ok({}))]
  /\ UNCHANGED broken

Put(t)    == Requested(t, "put") /\ Change(t, op[t].request.cred)
Delete(t) == Requested(t, "delete") /\ Change(t, {})

Answer(t, answer) ==
  /\ op' = [op EXCEPT ![t] = Quiet(answer)]
  /\ UNCHANGED <<held, broken>>

\* The answer of a read is settled at one instant, and may be returned later.
Settle(t, answer) ==
  /\ op' = [op EXCEPT ![t] = [phase |-> "read", request |-> None, answer |-> answer]]
  /\ UNCHANGED <<held, broken>>

Get(t) ==
  /\ Requested(t, "get") /\ ~broken
  /\ Settle(t, Ok(held[op[t].request.provider]))

Deliver(t) == op[t].phase = "read" /\ Answer(t, op[t].answer)

List(t) ==
  LET answer == Ok({p \in Providers : held[p] # {}}) IN
  /\ Requested(t, "providers") /\ ~broken
  /\ Answer(t, answer) \/ Settle(t, answer)

\* A copy of the whole map, broken or not.
Clone(t) ==
  /\ Requested(t, "clone")
  /\ Settle(t, Ok(UNION {held[p] : p \in Providers}))

\* Whether there is an entry, broken or not.
Measure(t) ==
  /\ Requested(t, "sealed_len")
  /\ Answer(t, Ok({p \in {op[t].request.provider} : held[p] # {}}))

Break ==
  /\ broken' = TRUE
  /\ UNCHANGED <<held, op>>

Next ==
  \/ \E t \in Threads :
       \/ Call(t) \/ Fail(t) \/ Put(t) \/ Delete(t)
       \/ Get(t) \/ List(t) \/ Clone(t) \/ Deliver(t) \/ Measure(t)
  \/ Break

Spec == Init /\ [][Next]_vars
=============================================================================
