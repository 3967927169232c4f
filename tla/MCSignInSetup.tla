---------------------------- MODULE MCSignInSetup ----------------------------
(***************************************************************************)
(* SignInSetup for TLC: a few texts of every kind the code tells apart, in *)
(* each field that holds one.                                              *)
(***************************************************************************)
EXTENDS SignInSetup

Url(scheme, host, port) == [scheme |-> scheme, host |-> host, port |-> port, query |-> <<>>]
Good == {Url("https", "login.example", {})}
Texts ==
  {{}, Good, {[Url("https", "login.example", {}) EXCEPT !.query = <<"prompt">>]},
   {Url("http", "login.example", {})}, {Url("http", "localhost", {80})},
   {Url("http", "::1", {7000})}, {Url("http", "127.0.0.1", {7000})},
   {Url("http", "127.0.0.1", {})}, {Url("ftp", "localhost", {7000})}}

Plain ==
  [kind |-> "oauth", authorize_url |-> Good, token_url |-> Good, client_id |-> "client",
   redirect_uri |-> {}, loopback_port |-> {}, scopes |-> <<>>, typed |-> {}, extra |-> <<>>]

Extras ==
  BoundedSeq({[key |-> key, value |-> value] : key \in {"prompt", "tenant"}, value \in {"1", "2"}}, 2)
    \cup {<<[key |-> "scope", value |-> "1"]>>, <<[key |-> "state", value |-> "1"]>>}

Browser ==
  {[Plain EXCEPT !.authorize_url = text, !.typed = typed] :
     text \in Texts, typed \in {{}, {"prompt"}}}
    \cup {[Plain EXCEPT !.token_url = text] : text \in Texts}
    \cup {[Plain EXCEPT !.client_id = ""]}
    \cup {[Plain EXCEPT !.redirect_uri = {text}, !.loopback_port = port] :
            text \in Texts, port \in {{}, {7000}}}
    \cup {[Plain EXCEPT !.typed = typed, !.scopes = scopes, !.extra = extra] :
            typed \in {{}, {"prompt", "login_hint"}}, scopes \in {<<>>, <<"email">>}, extra \in Extras}

Device(text) ==
  [kind |-> "device", device_authorization_url |-> text, token_url |-> Good, client_id |-> "client"]
Key(prefix, declared) ==
  [kind |-> "api_key", env_var |-> declared, key_prefix |-> prefix]

Keys == {Key(prefix, declared) : prefix \in {{}, {"sk-"}}, declared \in BOOLEAN}

MCMethods == Browser \cup {Device(text) : text \in Texts} \cup Keys

Sole(id, method) == [id |-> id, methods |-> <<method>>]

\* Two providers in either order, which may share an id.
MCOverlays ==
  {<<Sole(id1, Key({}, TRUE)), Sole(id2, Key({"sk-"}, TRUE))>> : id1, id2 \in {"p", "q", ""}}
    \cup {<<Sole("q", Plain)>>}

\* These, and one provider with each of its methods, or with several.
MCFiles ==
  MCOverlays \cup {<<Sole("p", method)>> : method \in MCMethods} \cup {<<[id |-> "q", methods |-> methods]>> :
            methods \in {<<>>, <<Device(Good), Plain>>, <<Key({}, TRUE), Key({"sk-"}, TRUE)>>}}

MCHandMade == Browser

Issuer(text, slashes) ==
  [text |-> text, slashes |-> slashes, url |-> Good, query |-> FALSE,
   fragment |-> FALSE]
MCIssuers ==
  {Issuer("https://login.example", 0), Issuer("https://login.example", 1),
   [Issuer("login", 0) EXCEPT !.url = {}],
   [Issuer("https://login.example?", 0) EXCEPT !.query = TRUE],
   [Issuer("https://login.example#x", 0) EXCEPT !.fragment = TRUE],
   [Issuer("ftp://localhost", 0) EXCEPT !.url = {Url("ftp", "localhost", {})}]}
MCMetadata ==
  [issuer : {Issuer("https://login.example", 0), Issuer("https://other.example", 0)},
   authorization_endpoint : {Good, {}}, token_endpoint : Texts,
   device_authorization_endpoint : {{}, {Good}, {{}}},
   code_challenge_methods : {{}, {{"S256"}}, {{"plain"}}}]
MCFetches ==
  [issuer : MCIssuers,
   reply : {Lost, Answer(FALSE, {}), Answer(TRUE, {})}
             \cup {Answer(TRUE, {metadata}) : metadata \in MCMetadata}]

MCKeyValues ==
  [core : {BlankCore, Core({"sk-"}, "1"), Core({"pk-"}, "1")}, padded : BOOLEAN]

\* Five bits, and every lifetime they can hold.
MinOf5Bits  == -16
AllLifetimes == MinOf5Bits .. 15
=============================================================================
