------------------------------ MODULE TokenPath ------------------------------
(***************************************************************************)
(* The token path the three flows share (flow/mod.rs): how one HTTP        *)
(* exchange with a token endpoint becomes a credential or an error.        *)
(*                                                                         *)
(* Tokens are positive numbers, in the order the servers minted them.  A   *)
(* missing token is NoToken; a token that is present but empty or only     *)
(* whitespace is Blank.                                                    *)
(***************************************************************************)
EXTENDS Integers

NoToken == 0
Blank   == -1

(***************************************************************************)
(* What an HTTP exchange hands to post_token_form.  delivered is FALSE     *)
(* when sending the request or reading the body failed (connection error   *)
(* or the client's timeout).  Otherwise success is the status class, error *)
(* the `error` code when the body has one, grant whether the body parses   *)
(* as a TokenResponse, and access, refresh and typed (its token_type is    *)
(* not blank) the fields of that response.                                 *)
(***************************************************************************)
Reply(Tokens, Codes) ==
  [delivered : BOOLEAN, success : BOOLEAN, error : Codes \cup {"none"},
   grant : BOOLEAN, access : Tokens \cup {Blank},
   refresh : Tokens \cup {Blank, NoToken}, typed : BOOLEAN]

\* No answer yet, or none that will ever be read.
Silence ==
  [delivered |-> FALSE, success |-> FALSE, error |-> "none", grant |-> FALSE,
   access |-> Blank, refresh |-> NoToken, typed |-> FALSE]

Granted(access, refresh) ==
  [delivered |-> TRUE, success |-> TRUE, error |-> "none", grant |-> TRUE,
   access |-> access, refresh |-> refresh, typed |-> TRUE]

\* A body with an error code ("none": without one), under either status class.
Refused(success, code) ==
  [delivered |-> TRUE, success |-> success, error |-> code, grant |-> FALSE,
   access |-> Blank, refresh |-> NoToken, typed |-> FALSE]

\* A success whose token response has blank required fields.
Hollow ==
  [delivered |-> TRUE, success |-> TRUE, error |-> "none", grant |-> TRUE,
   access |-> Blank, refresh |-> NoToken, typed |-> FALSE]

IsGrant(reply) == reply.delivered /\ reply.success /\ reply.grant
\* Mutant: the blank fields of a token response go unnoticed.
WholeUnchecked(reply) == TRUE
Whole(reply)   == reply.access # Blank /\ reply.typed

Failure(error, detail) ==
  [ok |-> FALSE, error |-> error, detail |-> detail,
   access |-> NoToken, refresh |-> NoToken]

\* A blank refresh token is filtered out.
Minted(reply) ==
  [ok |-> TRUE, error |-> "none", detail |-> "none", access |-> reply.access,
   refresh |-> IF reply.refresh = Blank THEN NoToken ELSE reply.refresh]

\* An undelivered exchange is an Http error.  An OAuth error code in a body that
\* is no grant is reported whatever the status; without a code, the status is
\* reported when it is a failure and the body is Malformed when it is not.
PostTokenForm(reply) ==
  CASE ~reply.delivered -> Failure("http", "none")
    [] IsGrant(reply) /\ Whole(reply) -> Minted(reply)
    [] IsGrant(reply) /\ ~Whole(reply) -> Failure("malformed", "none")
    [] OTHER ->
         IF reply.error # "none" THEN Failure("authorization", reply.error)
         ELSE IF reply.success THEN Failure("malformed", "none")
         ELSE Failure("authorization", "http_status")
=============================================================================
