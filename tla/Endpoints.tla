------------------------------- MODULE Endpoints -------------------------------
(***************************************************************************)
(* URLs as provider.rs looks at them.  An optional value is the set of it  *)
(* or the empty set, and so is the outcome of parsing a text: a text that  *)
(* is no URL (the empty text is none) is the empty set.                    *)
(***************************************************************************)
EXTENDS Naturals, Sequences

Option(S) == {option \in SUBSET S : \A x, y \in option : x = y}

\* A URL: scheme, host and port as written, and the keys of its query.
Urls == [scheme : STRING, host : STRING, port : Option(Nat), query : Seq(STRING)]

\* The url crate: the port of a scheme goes without saying, and the name of an
\* IPv6 host keeps its brackets.
DefaultPort(scheme) == IF scheme = "http" THEN {80} ELSE IF scheme = "https" THEN {443} ELSE {}
Port(url)    == url.port \ DefaultPort(url.scheme)
HostStr(url) == IF url.host = "::1" THEN "[::1]" ELSE url.host

\* validate_url: the "::1" of the code's list is no name a parsed host has.
ValidUrl(text) ==
  \E url \in text :
    \/ url.scheme = "https"
    \/ url.scheme = "http" /\ HostStr(url) \in {"127.0.0.1", "localhost", "::1"}

\* Mutant: the port as written, not as parsed.
ValidRedirectWritten(text) ==
  \E url \in text :
    /\ url.scheme = "http"
    /\ HostStr(url) \in {"127.0.0.1", "localhost", "::1", "[::1]"}
    /\ url.port # {}

\* validate_loopback_redirect_uri
ValidRedirect(text) ==
  \E url \in text :
    /\ url.scheme = "http"
    /\ HostStr(url) \in {"127.0.0.1", "localhost", "::1", "[::1]"}
    /\ Port(url) # {}
=============================================================================
