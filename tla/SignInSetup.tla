------------------------------ MODULE SignInSetup ------------------------------
(***************************************************************************)
(* The operations around a sign-in that only compute.  Before it, an       *)
(* application loads and merges provider files, or makes a configuration   *)
(* by hand or by discovery, and begins a browser sign-in or hands in an    *)
(* API key; after it, it asks whether the credential has expired.  The     *)
(* operations are pure, so one call is looked at per behaviour.            *)
(***************************************************************************)
EXTENDS AuthorizeUrl, Discovery, ApiKey, CredentialExpiry

CONSTANTS
  ProviderIds,  \* the ids an application may ask for
  HandMade,     \* configurations an application makes without a registry
  Fetches,      \* the issuers and replies of discovery
  KeyValues     \* what the environment or the user may give for a key

ASSUME HandMadeAssumption == HandMade \subseteq OAuthConfig
ASSUME FetchesAssumption ==
  \A fetch \in Fetches :
    /\ fetch.issuer \in Issuers
    /\ fetch.reply.document \subseteq Metadata
ASSUME KeyValuesAssumption == KeyValues \subseteq KeyTexts

VARIABLE call  \* the one call: its operation, its arguments and its results

None == [op |-> "none"]
setup == <<registry, call>>

-----------------------------------------------------------------------------
(* begin: the redirect, the listener, and the URL to open. *)

RedirectError(config) ==
  IF \E text \in config.redirect_uri : text = {} THEN "redirect_uri"
  ELSE IF \E text \in config.redirect_uri : \E url \in text : Port(url) = {} THEN "no_port"
  ELSE "none"

\* Binding may find no free port in either family.
Begin(config) ==
  IF RedirectError(config) # "none" THEN {Failed(RedirectError(config))}
  ELSE {Failed("loopback"), BuildAuthorizeUrl(config)}

SetupInit == Init /\ call = None

Called(op, config, result) ==
  /\ call = None
  /\ call' = [op |-> op, config |-> config, result |-> result]
  /\ UNCHANGED registry

Serving == Merged /\ call = None

\* What reads no registry is looked at without one.
Alone == providers = <<>> /\ other = <<>>

\* begin_oauth's lookups fail.
BeginRefused ==
  /\ Serving
  /\ \E id \in ProviderIds :
       /\ \A provider \in Get(providers, id) : MethodOf(provider, "oauth") = {}
       /\ Called("begin_oauth", {},
            Failed(IF Get(providers, id) = {} THEN "unknown_provider" ELSE "unsupported_method"))

BeginOauth ==
  /\ Serving
  /\ \E id \in ProviderIds : \E provider \in Get(providers, id) :
       \E config \in MethodOf(provider, "oauth") : \E result \in Begin(config) :
         Called("begin_oauth", {config}, result)

BeginHandMade ==
  Alone /\ \E config \in HandMade : \E result \in Begin(config) :
    Called("begin", {config}, result)

DiscoverRefused ==
  Alone /\ \E fetch \in Fetches :
    LET found == Discover(fetch.issuer, fetch.reply) IN
    /\ found.error # "none"
    /\ Called("discover", {}, Failed(found.error))

\* The application gives its client id to what was discovered and begins.
BeginDiscovered ==
  Alone /\ \E fetch \in Fetches :
    \E metadata \in Discover(fetch.issuer, fetch.reply).metadata :
      LET config == ToOauthConfig(metadata, "client", <<>>) IN
      \E result \in Begin(config) : Called("discover", {config}, result)

\* The declared variable and a paste of the same text.
TakeKey ==
  /\ Serving
  /\ \E id \in ProviderIds, text \in KeyValues : \E provider \in Get(providers, id) :
       \E config \in MethodOf(provider, "api_key") :
         Called("api_key", {config},
                [env |-> FromEnv(config, {text}), pasted |-> AcceptKey(config, text)])

\* A token is minted at one reading of the clock, and asked about at another, which
\* the system may have set back.
AskExpiry ==
  Alone /\ \E expires_in \in {{}} \cup {{e} : e \in Lifetimes}, minted, asked \in 0 .. MaxI64 :
    Called("is_expired", {},
      [expires_in |-> expires_in, minted |-> minted, asked |-> asked,
       expired |-> IsExpired(ExpiryFromExpiresIn(expires_in, minted), asked)])

SetupNext ==
  \/ call = None /\ Next /\ UNCHANGED call
  \/ BeginRefused \/ BeginOauth \/ BeginHandMade
  \/ DiscoverRefused \/ BeginDiscovered \/ TakeKey \/ AskExpiry

SetupSpec == SetupInit /\ [][SetupNext]_setup

-----------------------------------------------------------------------------
\* A flow that validate let into the registry can be begun, given a free port, if and
\* only if none of its custom parameters is one of the protocol's: nothing else that
\* begin and the URL look at is left for a user to run into.  The documents promise
\* more: see CollidingKeysDropped.
OnlyReservedExtrasStop ==
  call.op = "begin_oauth" => \A config \in call.config :
    call.result.error \in
      {"loopback", IF KeysOf(config.extra) \cap Reserved = {} THEN "none" ELSE "reserved"}

\* A discovered configuration is as good as one a registry holds: validate would
\* take it, and begin can begin it.
DiscoveredIsLoadable ==
  call.op = "discover" => \A config \in call.config :
    OauthOk(config) /\ call.result.error \in {"none", "loopback"}

\* The keys of the whole URL: the query the endpoint came with, and what is added.
UrlKeys(result) == result.own \o [i \in DOMAIN result.query |-> result.query[i].key]

\* Whoever made the configuration: of two parameters with one key the first stood in
\* the configured endpoint itself, so begin adds none twice; each custom one is sent
\* unless its key was taken, and then by a typed field or an earlier custom one; and
\* an application never sets one of the protocol's.
NothingAddedTwice ==
  call.op \in {"begin", "begin_oauth"} /\ call.result.error = "none" =>
    \A config \in call.config :
      LET keys  == UrlKeys(call.result)
          query == call.result.query
          first(i) == \A j \in 1 .. i - 1 : config.extra[j].key # config.extra[i].key
      IN /\ \A i, j \in DOMAIN keys :
              i < j /\ keys[i] = keys[j] => i <= Len(call.result.own)
         /\ KeysOf(config.extra) \subseteq KeysOf(query)
         /\ \A pair \in ToSet(query) :
              \/ pair = Own(pair.key) /\ pair.key \in Reserved \cup TypedKeys
              \/ \E i \in DOMAIN config.extra :
                   pair = config.extra[i] /\ first(i) /\ pair.key \notin Reserved \cup config.typed

\* "A custom key here that collides with a parameter oauthkit already emits is
\* dropped to avoid a duplicate query key", "the authorize URL never carries a
\* duplicate query key": no custom key keeps a loaded flow from beginning, and its
\* URL has every key once.
CollidingKeysDropped ==
  call.op = "begin_oauth" /\ call.config # {} =>
    LET keys == UrlKeys(call.result) IN
    /\ call.result.error \in {"none", "loopback"}
    /\ \A i, j \in DOMAIN keys : keys[i] = keys[j] => i = j

\* The environment and a paste of the same text give the same key, trimmed alike,
\* but for one difference: only the paste looks at the declared prefix.
OnlyPrefixDiffers ==
  call.op = "api_key" => \A config \in call.config :
    LET env == call.result.env
        pasted == call.result.pasted
    IN /\ env = {} <=> ~config.env_var \/ pasted.error = "empty"
       /\ config.env_var =>
            pasted.key = {key \in env : config.key_prefix \subseteq key.core.starts}

\* The saturated expiry tells the truth: before the last second of the clock a
\* credential reads as expired exactly when its lifetime is over in unbounded
\* arithmetic, and one without a lifetime never does, whatever expires_in was and
\* however the clock has been set since.
ExpiryIsExact ==
  call.op = "is_expired" =>
    LET life == call.result IN
    life.asked < MaxI64 =>
      (life.expired <=> \E e \in life.expires_in : life.asked >= life.minted + e)
=============================================================================
