------------------------------- MODULE Registry -------------------------------
(***************************************************************************)
(* The provider registry (provider.rs): files are parsed and validated one *)
(* by one, and merged into what is there without another validation.       *)
(***************************************************************************)
EXTENDS Endpoints

CONSTANTS
  Methods,  \* the methods a file may declare
  Files,    \* what the files at hand parse to: lists of providers
  Overlays  \* those of them that are merged into another registry

\* The fields the code reads; a blank text is "".
TypedKeys == {"audience", "prompt", "login_hint"}
Pairs == [key : STRING, value : STRING]
OAuthConfig ==
  [kind : {"oauth"}, authorize_url : Option(Urls), token_url : Option(Urls),
   client_id : STRING, redirect_uri : Option(Option(Urls)), loopback_port : Option(Nat),
   scopes : Seq(STRING), typed : SUBSET TypedKeys,
   extra : Seq(Pairs)]
DeviceCodeConfig ==
  [kind : {"device"}, device_authorization_url : Option(Urls),
   token_url : Option(Urls), client_id : STRING]
\* env_var: whether one is declared.
ApiKeyConfig == [kind : {"api_key"}, env_var : BOOLEAN, key_prefix : Option(STRING)]
Provider == [id : STRING, methods : Seq(Methods)]

ASSUME MethodsAssumption ==
  Methods \subseteq OAuthConfig \cup DeviceCodeConfig \cup ApiKeyConfig
ASSUME FilesAssumption == Files \cup Overlays \subseteq Seq(Provider)

VARIABLES
  providers,  \* the registry
  base,       \* what it was before the merge under way, or the last one
  other,      \* the registry merged into it
  at          \* merge's iterator: the next of the other's providers
registry == <<providers, base, other, at>>

-----------------------------------------------------------------------------
(* validate *)

OauthOk(method) ==
  /\ method.client_id # ""
  /\ ValidUrl(method.authorize_url) /\ ValidUrl(method.token_url)
  /\ method.redirect_uri = {} \/ method.loopback_port = {}
  /\ \A text \in method.redirect_uri : ValidRedirect(text)

DeviceOk(method) ==
  /\ method.client_id # ""
  /\ ValidUrl(method.device_authorization_url) /\ ValidUrl(method.token_url)

MethodOk(method) ==
  \/ method.kind = "oauth" /\ OauthOk(method)
  \/ method.kind = "device" /\ DeviceOk(method)
  \/ method.kind = "api_key"

ProviderOk(provider) ==
  /\ provider.id # ""
  /\ provider.methods # <<>>
  /\ \A i \in DOMAIN provider.methods :
       /\ MethodOk(provider.methods[i])
       /\ \A j \in DOMAIN provider.methods :
            provider.methods[i].kind = provider.methods[j].kind => i = j

Valid(list) ==
  \A i \in DOMAIN list :
    /\ ProviderOk(list[i])
    /\ \A j \in DOMAIN list : list[i].id = list[j].id => i = j

\* from_toml, of a file that parses.
FromToml(file) == IF Valid(file) THEN {file} ELSE {}

-----------------------------------------------------------------------------
(* Lookups: the first provider of an id, the first method of a kind. *)

Places(list, id) ==
  {i \in DOMAIN list : list[i].id = id /\ \A j \in 1 .. i - 1 : list[j].id # id}

Get(list, id) == {list[i] : i \in Places(list, id)}

MethodOf(provider, kind) ==
  {provider.methods[i] : i \in
     {i \in DOMAIN provider.methods :
        /\ provider.methods[i].kind = kind
        /\ \A j \in 1 .. i - 1 : provider.methods[j].kind # kind}}

-----------------------------------------------------------------------------
Init == providers = <<>> /\ base = <<>> /\ other = <<>> /\ at = 1

Merged == at > Len(other)

\* A registry of its own: builtin, or from_toml of the application's file.
Load ==
  /\ Merged
  /\ \E file \in Files : providers' \in FromToml(file)
  /\ base' = providers' /\ other' = <<>> /\ at' = 1

\* merge takes another registry, from a file of its own.
MergeBegin ==
  /\ Merged
  /\ \E file \in Overlays : other' \in FromToml(file)
  /\ base' = providers /\ at' = 1
  /\ UNCHANGED providers

\* Mutant: the merged providers are all appended.
MergeAppend ==
  /\ ~Merged
  /\ providers' = Append(providers, other[at])
  /\ at' = at + 1
  /\ UNCHANGED <<base, other>>

\* Mutant: what is there already stays.
MergeKeep ==
  /\ ~Merged
  /\ providers' = IF Places(providers, other[at].id) = {}
                  THEN Append(providers, other[at]) ELSE providers
  /\ at' = at + 1
  /\ UNCHANGED <<base, other>>

\* Mutant: the iterator is advanced twice.
MergeSkip ==
  /\ ~Merged
  /\ providers' = Append(providers, other[at])
  /\ at' = at + 2
  /\ UNCHANGED <<base, other>>

\* One turn of merge's loop: replace the provider of that id, or append.
MergeNext ==
  /\ ~Merged
  /\ LET provider == other[at]
         existing == Places(providers, provider.id)
     IN \/ \E i \in existing : providers' = [providers EXCEPT ![i] = provider]
        \/ existing = {} /\ providers' = Append(providers, provider)
  /\ at' = at + 1
  /\ UNCHANGED <<base, other>>

Next == Load \/ MergeBegin \/ MergeNext

Spec == Init /\ [][Next]_registry

-----------------------------------------------------------------------------
TypeOK ==
  /\ {providers, base, other} \subseteq Seq(Provider)
  /\ at \in 1 .. Len(other) + 1

\* merge validates nothing, yet what it leaves would pass validate: ids stay
\* unique and every provider whole, at every turn of its loop.
WellFormed == Valid(providers)

\* merge overlays: a lookup finds the other's provider where it has one and the
\* provider that was there before where it has none; what was there keeps its
\* place, and what is new follows in the other's order.
MergeIsOverlay ==
  /\ Merged => \A list \in {base, other} : \A i \in DOMAIN list :
       LET id == list[i].id IN
       Get(providers, id) = IF Get(other, id) = {} THEN Get(base, id) ELSE Get(other, id)
  /\ \A i \in DOMAIN base : i \in DOMAIN providers /\ providers[i].id = base[i].id
  /\ \A i, j \in DOMAIN providers :
       Len(base) < i /\ i < j =>
         \E a, b \in DOMAIN other :
           a < b /\ providers[i] = other[a] /\ providers[j] = other[b]
=============================================================================
