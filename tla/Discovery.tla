------------------------------- MODULE Discovery -------------------------------
(***************************************************************************)
(* OpenID Connect discovery (discovery.rs): one exchange whose document is *)
(* checked before anything of it is used.                                  *)
(***************************************************************************)
EXTENDS Registry

\* An issuer as written: its text without trailing slashes, how many there are,
\* what it parses to, and whether it has a query or a fragment, be it an empty one.
Issuers == [text : STRING, slashes : Nat, url : Option(Urls), query : BOOLEAN,
            fragment : BOOLEAN]

Metadata ==
  [issuer : Issuers, authorization_endpoint : Option(Urls),
   token_endpoint : Option(Urls),
   device_authorization_endpoint : Option(Option(Urls)),
   code_challenge_methods : Option(SUBSET STRING)]

\* What comes back: nothing, or a status and what the body parses to.
Lost == [lost |-> TRUE, success |-> FALSE, document |-> {}]
Answer(success, document) == [lost |-> FALSE, success |-> success, document |-> document]

MayFetch(issuer) ==
  \E url \in issuer.url :
    /\ url.scheme \in {"http", "https"}
    /\ ~issuer.query /\ ~issuer.fragment

SameIssuer(issuer, metadata) == metadata.issuer.text = issuer.text

\* Mutant: the token endpoint is taken as it comes.
SoundTokenUnchecked(issuer, metadata) ==
  /\ SameIssuer(issuer, metadata)
  /\ ValidUrl(metadata.authorization_endpoint)
  /\ \A text \in metadata.device_authorization_endpoint : ValidUrl(text)
  /\ \A methods \in metadata.code_challenge_methods : "S256" \in methods

Sound(issuer, metadata) ==
  /\ SameIssuer(issuer, metadata)
  /\ ValidUrl(metadata.authorization_endpoint)
  /\ ValidUrl(metadata.token_endpoint)
  /\ \A text \in metadata.device_authorization_endpoint : ValidUrl(text)
  /\ \A methods \in metadata.code_challenge_methods : "S256" \in methods

\* The error, or "none" and the metadata.
Discover(issuer, reply) ==
  LET sound == {metadata \in reply.document : Sound(issuer, metadata)}
      error == IF ~MayFetch(issuer) THEN "malformed"
               ELSE IF reply.lost THEN "http"
               ELSE IF ~reply.success THEN "authorization"
               ELSE IF sound = {} THEN "malformed" ELSE "none"
  IN [error |-> error, metadata |-> IF error = "none" THEN sound ELSE {}]

ToOauthConfig(metadata, client_id, scopes) ==
  [kind |-> "oauth", authorize_url |-> metadata.authorization_endpoint,
   token_url |-> metadata.token_endpoint, client_id |-> client_id,
   scopes |-> scopes, redirect_uri |-> {}, loopback_port |-> {}, typed |-> {},
   extra |-> <<>>]
=============================================================================
