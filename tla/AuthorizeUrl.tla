----------------------------- MODULE AuthorizeUrl -----------------------------
(***************************************************************************)
(* The query of the authorize URL (build_authorize_url of                  *)
(* flow/authorization_code.rs).                                            *)
(***************************************************************************)
EXTENDS Registry, SequencesExt

\* A parameter: its key, and its value where an application chose it.
Own(key) == [key |-> key, value |-> "own"]

Always == <<"response_type", "client_id", "redirect_uri", "state",
            "code_challenge", "code_challenge_method">>

\* "scope" is reserved whether or not it is sent.
Reserved == ToSet(Always) \cup {"scope"}

KeysOf(pairs) == {pairs[i].key : i \in DOMAIN pairs}

\* The protocol's parameters, then the typed fields that are set.
Established(config) ==
  LET typed(key) == IF key \in config.typed THEN <<key>> ELSE <<>>
      keys == Always \o (IF config.scopes # <<>> THEN <<"scope">> ELSE <<>>)
                     \o typed("audience") \o typed("prompt") \o typed("login_hint")
  IN [i \in DOMAIN keys |-> Own(keys[i])]

\* Mutant: only the typed fields are looked at.
AddExtraTwice(pairs, pair) ==
  IF pair.key \in KeysOf(SelectSeq(pairs, LAMBDA p : p.value = "own"))
  THEN pairs ELSE Append(pairs, pair)

\* A custom parameter whose key is already there is dropped.
AddExtra(pairs, pair) ==
  IF pair.key \in KeysOf(pairs) THEN pairs ELSE Append(pairs, pair)

Failed(error) == [error |-> error, own |-> <<>>, query |-> <<>>]

\* The query the endpoint came with stays in front and is not looked at.
BuildAuthorizeUrl(config) ==
  IF config.authorize_url = {} THEN Failed("authorize_url")
  ELSE IF KeysOf(config.extra) \cap Reserved # {} THEN Failed("reserved")
  ELSE [error |-> "none",
        own   |-> (CHOOSE url \in config.authorize_url : TRUE).query,
        query |-> FoldLeft(AddExtra, Established(config), config.extra)]
=============================================================================
