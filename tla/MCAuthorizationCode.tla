------------------------- MODULE MCAuthorizationCode -------------------------
(***************************************************************************)
(* AuthorizationCode for TLC: two sign-ins that share one port, or one     *)
(* after the other, with redirects configured per run.                     *)
(***************************************************************************)
EXTENDS AuthorizationCode

CONSTANTS s1, s2, port1

LoopbackRedirect(port) == [kind |-> "loopback", host |-> "localhost", port |-> port]
FixedRedirect(host, port) == [kind |-> "fixed", host |-> host, port |-> port]

\* A loopback_port, and a registered redirect with port 0 that may be given it.
Mixed == [s \in Sessions |->
            IF s = s1 THEN LoopbackRedirect(port1) ELSE FixedRedirect("v4", AnyPort)]

\* One loopback_port for both.
SamePort == [s \in Sessions |-> LoopbackRedirect(port1)]

Local(callback, codeSent, stateSent, error) ==
  [callback |-> callback, code |-> codeSent, state |-> stateSent, error |-> error]

\* What other programs send: a favicon, a probe of the callback path with no state or
\* with one, a bare ?error=, a bare ?code=, and the redirect of another session.
Programs ==
  {Local(FALSE, None, None, FALSE), Local(TRUE, None, None, FALSE),
   Local(TRUE, None, s1, FALSE), Local(TRUE, None, None, TRUE),
   Local(TRUE, s2, None, FALSE), Local(TRUE, s2, s2, FALSE)}

\* One bare ?error=, no more.
OneError == {Local(TRUE, None, None, TRUE)}
=============================================================================
