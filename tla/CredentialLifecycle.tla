-------------------------- MODULE CredentialLifecycle --------------------------
(***************************************************************************)
(* What a credential store shared by many callers promises: for each       *)
(* provider, at most one session, which starts with a sign-in, is renewed  *)
(* by refreshes, and ends with a sign-out or with the next sign-in.        *)
(***************************************************************************)
EXTENDS Integers

CONSTANTS Providers, MaxGrants

VARIABLES
  session,  \* the sign-in whose credential is stored, 0 for none
  access,   \* the grant that minted the stored access token, 0 for none
  newest    \* the newest grant ever stored

vars == <<session, access, newest>>

Fresh(p) == newest[p] + 1 .. MaxGrants

Init ==
  /\ session = [p \in Providers |-> 0]
  /\ access = [p \in Providers |-> 0]
  /\ newest = [p \in Providers |-> 0]

SignIn(p) ==
  \E n \in Fresh(p) :
    /\ session' = [session EXCEPT ![p] = n]
    /\ access' = [access EXCEPT ![p] = n]
    /\ newest' = [newest EXCEPT ![p] = n]

\* The same session, with a newer access token.
Renew(p) ==
  /\ session[p] # 0
  /\ \E n \in Fresh(p) :
       /\ access' = [access EXCEPT ![p] = n]
       /\ newest' = [newest EXCEPT ![p] = n]
  /\ UNCHANGED session

SignOut(p) ==
  /\ session' = [session EXCEPT ![p] = 0]
  /\ access' = [access EXCEPT ![p] = 0]
  /\ UNCHANGED newest

Next == \E p \in Providers : SignIn(p) \/ Renew(p) \/ SignOut(p)

Spec == Init /\ [][Next]_vars
=============================================================================
