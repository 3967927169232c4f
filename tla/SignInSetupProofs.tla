--------------------------- MODULE SignInSetupProofs ---------------------------
(***************************************************************************)
(* The registry stays well-formed through merges nobody validates, a merge *)
(* is an overlay, and what a registry or a discovery yields can be begun   *)
(* but for reserved extras.  begin adds no parameter twice: its loop, a    *)
(* left fold, is unfolded turn by turn with an induction over the numbers. *)
(* The saturated expiry reads as the exact one would.                      *)
(***************************************************************************)
EXTENDS SignInSetup, TLAPS, WellFoundedInduction

\* How far the merge has come: what was there keeps its place and its id, each
\* provider taken so far is there, and the appended ones follow their order.
Overlaid ==
  /\ \A i \in DOMAIN base :
       /\ i \in DOMAIN providers
       /\ providers[i].id = base[i].id
       /\ providers[i] = base[i] \/ \E k \in 1 .. at - 1 : providers[i] = other[k]
  /\ \A k \in 1 .. at - 1 : \E i \in DOMAIN providers : providers[i] = other[k]
  /\ \A i \in DOMAIN providers :
       i > Len(base) => \E k \in 1 .. at - 1 : providers[i] = other[k]
  /\ \A i, j \in DOMAIN providers :
       Len(base) < i /\ i < j =>
         \E a, b \in 1 .. at - 1 :
           a < b /\ providers[i] = other[a] /\ providers[j] = other[b]

RegistryInv ==
  TypeOK /\ Valid(providers) /\ Valid(base) /\ Valid(other) /\ Overlaid

-----------------------------------------------------------------------------
(* Lookups in a list whose ids are unique. *)

\* A provider of a valid list is the one its id finds.
LEMMA PlaceOfId ==
  ASSUME NEW list \in Seq(Provider), Valid(list), NEW i \in DOMAIN list
  PROVE  Places(list, list[i].id) = {i} /\ Get(list, list[i].id) = {list[i]}
<1>1. \A j \in DOMAIN list : list[j].id = list[i].id => j = i
  BY DEF Valid
<1>2. \A j \in 1 .. i - 1 : j \in DOMAIN list /\ j # i
  OBVIOUS
<1>3. i \in Places(list, list[i].id)
  BY <1>1, <1>2 DEF Places
<1>4. Places(list, list[i].id) = {i}
  BY <1>1, <1>3 DEF Places
<1> QED  BY <1>4 DEF Get

\* An id that finds nothing is nobody's.
LEMMA NoPlace ==
  ASSUME NEW list \in Seq(Provider), Valid(list), NEW id,
         Places(list, id) = {} \/ Get(list, id) = {}
  PROVE  \A i \in DOMAIN list : list[i].id # id
<1> SUFFICES ASSUME NEW i \in DOMAIN list, list[i].id = id  PROVE FALSE
  OBVIOUS
<1>1. Places(list, id) = {i} /\ Get(list, id) = {list[i]}
  BY PlaceOfId
<1> QED  BY <1>1

-----------------------------------------------------------------------------
(* The invariant of the registry, one lemma per action. *)

\* Before its first step a merge has changed nothing.
LEMMA EmptyOverlay ==
  ASSUME TypeOK, base = providers, at = 1
  PROVE  Overlaid
<1>1. 1 .. at - 1 = {}
  OBVIOUS
<1>2. \A i \in DOMAIN providers : i <= Len(base)
  BY DEF TypeOK
<1> QED  BY <1>1, <1>2 DEF Overlaid, TypeOK

\* A registry starts empty.
LEMMA InitRegistry == Init => RegistryInv
<1> SUFFICES ASSUME Init  PROVE RegistryInv
  OBVIOUS
<1>1. TypeOK
  BY DEF Init, TypeOK
<1>2. Valid(<<>>)
  BY DEF Valid
<1> QED  BY <1>1, <1>2, EmptyOverlay DEF Init, RegistryInv

\* from_toml lets in what validate accepts.
LEMMA LoadRegistry == RegistryInv /\ Load => RegistryInv'
<1> SUFFICES ASSUME Load  PROVE RegistryInv'
  OBVIOUS
<1>1. PICK file \in Files : providers' \in FromToml(file)
  BY DEF Load
<1>2. providers' = file /\ Valid(file)
  BY <1>1 DEF FromToml
<1>3. Valid(<<>>)
  BY DEF Valid
<1>4. TypeOK'
  BY <1>2, FilesAssumption DEF Load, TypeOK
<1>5. Overlaid'
  <2>1. 1 .. at' - 1 = {}
    BY DEF Load
  <2>2. \A i \in DOMAIN providers' : i <= Len(base')
    BY <1>4 DEF Load, TypeOK
  <2> QED  BY <2>1, <2>2, <1>4 DEF Overlaid, Load, TypeOK
<1> QED  BY <1>2, <1>3, <1>4, <1>5 DEF RegistryInv, Load

\* A merge begins with a document that from_toml has let in.
LEMMA MergeBeginRegistry == RegistryInv /\ MergeBegin => RegistryInv'
<1> SUFFICES ASSUME RegistryInv, MergeBegin  PROVE RegistryInv'
  OBVIOUS
<1>1. PICK file \in Overlays : other' \in FromToml(file)
  BY DEF MergeBegin
<1>2. other' = file /\ Valid(file)
  BY <1>1 DEF FromToml
<1>3. TypeOK'
  BY <1>2, FilesAssumption DEF RegistryInv, MergeBegin, TypeOK
<1>4. Overlaid'
  <2>1. 1 .. at' - 1 = {}
    BY DEF MergeBegin
  <2>2. \A i \in DOMAIN providers' : i <= Len(base')
    BY <1>3 DEF MergeBegin, TypeOK
  <2> QED  BY <2>1, <2>2, <1>3 DEF Overlaid, MergeBegin, TypeOK
<1> QED  BY <1>2, <1>3, <1>4 DEF RegistryInv, MergeBegin

\* The provider of that id is replaced, where it stands in the old list.
LEMMA Replaced ==
  ASSUME RegistryInv, ~Merged, NEW i \in DOMAIN providers,
         providers[i].id = other[at].id,
         providers' = [providers EXCEPT ![i] = other[at]],
         at' = at + 1, UNCHANGED <<base, other>>
  PROVE  RegistryInv'
<1> USE DEF RegistryInv, Merged
<1>1. /\ at \in DOMAIN other /\ at \in 1 .. at' - 1
      /\ \A k \in 1 .. at - 1 : k \in DOMAIN other /\ k \in 1 .. at' - 1 /\ k # at
  BY DEF TypeOK
<1>2. other[at] \in Provider /\ ProviderOk(other[at])
  BY <1>1 DEF TypeOK, Valid
<1>3. TypeOK'
  BY <1>1, <1>2 DEF TypeOK
<1>4. DOMAIN providers' = DOMAIN providers /\ Len(providers') = Len(providers)
  BY DEF TypeOK
<1>5. \A j \in DOMAIN providers : providers'[j] = IF j = i THEN other[at] ELSE providers[j]
  OBVIOUS
<1>6. Valid(providers')
  BY <1>2, <1>4, <1>5 DEF Valid
<1>7. \A k \in 1 .. at - 1 : other[k].id # other[at].id
  BY <1>1 DEF Valid
<1>8. i <= Len(base)
  BY <1>7 DEF Overlaid, TypeOK
<1>9. Overlaid'
  <2>1. \A j \in DOMAIN base :
          /\ j \in DOMAIN providers'
          /\ providers'[j].id = base[j].id
          /\ providers'[j] = base[j] \/ \E k \in 1 .. at' - 1 : providers'[j] = other[k]
    BY <1>1, <1>4, <1>5 DEF Overlaid
  <2>2. \A k \in 1 .. at' - 1 : \E j \in DOMAIN providers' : providers'[j] = other[k]
    <3> SUFFICES ASSUME NEW k \in 1 .. at' - 1
                 PROVE  \E j \in DOMAIN providers' : providers'[j] = other[k]
      OBVIOUS
    <3>1. CASE k = at
      BY <3>1, <1>4, <1>5
    <3>2. CASE k # at
      <4>1. k \in 1 .. at - 1
        BY <3>2 DEF TypeOK
      <4>2. PICK j \in DOMAIN providers : providers[j] = other[k]
        BY <4>1 DEF Overlaid
      <4>3. j # i
        BY <4>1, <4>2, <1>7
      <4> QED  BY <4>2, <4>3, <1>4, <1>5
    <3> QED  BY <3>1, <3>2
  <2>3. \A j \in DOMAIN providers' :
          j > Len(base) => \E k \in 1 .. at' - 1 : providers'[j] = other[k]
    BY <1>1, <1>4, <1>5 DEF Overlaid
  <2>4. \A h, j \in DOMAIN providers' :
          Len(base) < h /\ h < j =>
            \E a, b \in 1 .. at' - 1 :
              a < b /\ providers'[h] = other[a] /\ providers'[j] = other[b]
    <3> SUFFICES ASSUME NEW h \in DOMAIN providers, NEW j \in DOMAIN providers,
                        Len(base) < h, h < j
                 PROVE  \E a, b \in 1 .. at' - 1 :
                          a < b /\ providers'[h] = other[a] /\ providers'[j] = other[b]
      BY <1>4
    <3>1. h # i /\ j # i
      BY <1>8 DEF TypeOK
    <3>2. PICK a \in 1 .. at - 1, b \in 1 .. at - 1 :
            a < b /\ providers[h] = other[a] /\ providers[j] = other[b]
      BY DEF Overlaid
    <3> QED  BY <3>1, <3>2, <1>1, <1>5
  <2> QED  BY <2>1, <2>2, <2>3, <2>4 DEF Overlaid
<1> QED  BY <1>3, <1>6, <1>9

\* Nobody has that id: the provider goes to the end.
LEMMA Appended ==
  ASSUME RegistryInv, ~Merged,
         \A i \in DOMAIN providers : providers[i].id # other[at].id,
         providers' = Append(providers, other[at]),
         at' = at + 1, base' = base, other' = other
  PROVE  RegistryInv'
<1> USE DEF RegistryInv, Merged
<1>1. /\ at \in DOMAIN other /\ at \in 1 .. at' - 1
      /\ \A k \in 1 .. at - 1 : k \in DOMAIN other /\ k \in 1 .. at' - 1 /\ k < at
  BY DEF TypeOK
<1>2. other[at] \in Provider /\ ProviderOk(other[at])
  BY <1>1 DEF TypeOK, Valid
<1>3. TypeOK'
  BY <1>1, <1>2 DEF TypeOK
<1> DEFINE end == Len(providers) + 1
<1>4. /\ DOMAIN providers' = DOMAIN providers \cup {end}
      /\ end \notin DOMAIN providers
      /\ \A j \in DOMAIN providers : j < end
      /\ providers'[end] = other[at]
      /\ \A j \in DOMAIN providers : providers'[j] = providers[j]
  BY <1>2 DEF TypeOK
<1> HIDE DEF end
<1>5. Valid(providers')
  BY <1>2, <1>4 DEF Valid
<1>6. Overlaid'
  <2>1. \A j \in DOMAIN base :
          /\ j \in DOMAIN providers'
          /\ providers'[j].id = base[j].id
          /\ providers'[j] = base[j] \/ \E k \in 1 .. at' - 1 : providers'[j] = other[k]
    <3> SUFFICES ASSUME NEW j \in DOMAIN base
                 PROVE  /\ j \in DOMAIN providers'
                        /\ providers'[j].id = base[j].id
                        /\ \/ providers'[j] = base[j]
                           \/ \E k \in 1 .. at' - 1 : providers'[j] = other[k]
      OBVIOUS
    <3>1. /\ j \in DOMAIN providers
          /\ providers[j].id = base[j].id
          /\ providers[j] = base[j] \/ \E k \in 1 .. at - 1 : providers[j] = other[k]
      BY DEF Overlaid
    <3>2. j \in DOMAIN providers' /\ providers'[j] = providers[j]
      BY <3>1, <1>4
    <3> HIDE DEF RegistryInv, Merged
    <3> QED  BY <3>1, <3>2, <1>1
  <2>2. \A k \in 1 .. at' - 1 : \E j \in DOMAIN providers' : providers'[j] = other[k]
    <3> SUFFICES ASSUME NEW k \in 1 .. at' - 1
                 PROVE  \E j \in DOMAIN providers' : providers'[j] = other[k]
      OBVIOUS
    <3>1. CASE k = at
      BY <3>1, <1>4
    <3>2. CASE k # at
      <4>1. k \in 1 .. at - 1
        BY <3>2 DEF TypeOK
      <4> QED  BY <4>1, <1>4 DEF Overlaid
    <3> QED  BY <3>1, <3>2
  <2>3. \A j \in DOMAIN providers' :
          j > Len(base) => \E k \in 1 .. at' - 1 : providers'[j] = other[k]
    <3> SUFFICES ASSUME NEW j \in DOMAIN providers', j > Len(base)
                 PROVE  \E k \in 1 .. at' - 1 : providers'[j] = other[k]
      OBVIOUS
    <3>1. CASE j = end
      BY <3>1, <1>1, <1>4
    <3>2. CASE j # end
      <4>1. j \in DOMAIN providers
        BY <3>2, <1>4
      <4>2. PICK k \in 1 .. at - 1 : providers[j] = other[k]
        BY <4>1 DEF Overlaid
      <4> QED  BY <4>1, <4>2, <1>1, <1>4
    <3> QED  BY <3>1, <3>2
  <2>4. \A h, j \in DOMAIN providers' :
          Len(base) < h /\ h < j =>
            \E a, b \in 1 .. at' - 1 :
              a < b /\ providers'[h] = other[a] /\ providers'[j] = other[b]
    <3> SUFFICES ASSUME NEW h \in DOMAIN providers', NEW j \in DOMAIN providers',
                        Len(base) < h, h < j
                 PROVE  \E a, b \in 1 .. at' - 1 :
                          a < b /\ providers'[h] = other[a] /\ providers'[j] = other[b]
      OBVIOUS
    <3>1. h \in DOMAIN providers
      BY <1>4
    <3>2. CASE j = end
      <4>1. PICK a \in 1 .. at - 1 : providers[h] = other[a]
        BY <3>1 DEF Overlaid
      <4> QED  BY <4>1, <3>1, <3>2, <1>1, <1>4
    <3>3. CASE j # end
      <4>1. j \in DOMAIN providers
        BY <3>3, <1>4
      <4>2. PICK a \in 1 .. at - 1, b \in 1 .. at - 1 :
              a < b /\ providers[h] = other[a] /\ providers[j] = other[b]
        BY <3>1, <4>1 DEF Overlaid
      <4> QED  BY <4>1, <4>2, <3>1, <1>1, <1>4
    <3> QED  BY <3>2, <3>3
  <2>5. \A j \in DOMAIN base' :
          /\ j \in DOMAIN providers'
          /\ providers'[j].id = base'[j].id
          /\ providers'[j] = base'[j] \/ \E k \in 1 .. at' - 1 : providers'[j] = other'[k]
    BY <2>1
  <2>6. \A k \in 1 .. at' - 1 : \E j \in DOMAIN providers' : providers'[j] = other'[k]
    BY <2>2
  <2>7. \A j \in DOMAIN providers' :
          j > Len(base') => \E k \in 1 .. at' - 1 : providers'[j] = other'[k]
    BY <2>3
  <2>8. \A h, j \in DOMAIN providers' :
          Len(base') < h /\ h < j =>
            \E a, b \in 1 .. at' - 1 :
              a < b /\ providers'[h] = other'[a] /\ providers'[j] = other'[b]
    BY <2>4
  <2> QED  BY <2>5, <2>6, <2>7, <2>8 DEF Overlaid
<1> QED  BY <1>3, <1>5, <1>6

\* merge replaces a provider in its place, or appends it.
LEMMA MergeNextRegistry == RegistryInv /\ MergeNext => RegistryInv'
<1> SUFFICES ASSUME RegistryInv, MergeNext  PROVE RegistryInv'
  OBVIOUS
<1>1. ~Merged /\ at' = at + 1 /\ UNCHANGED <<base, other>>
  BY DEF MergeNext
<1>2. CASE \E i \in Places(providers, other[at].id) :
             providers' = [providers EXCEPT ![i] = other[at]]
  <2>1. PICK i \in Places(providers, other[at].id) :
          providers' = [providers EXCEPT ![i] = other[at]]
    BY <1>2
  <2>2. i \in DOMAIN providers /\ providers[i].id = other[at].id
    BY DEF Places
  <2> QED  BY <2>1, <2>2, <1>1, Replaced
<1>3. CASE /\ Places(providers, other[at].id) = {}
           /\ providers' = Append(providers, other[at])
  <2>1. \A i \in DOMAIN providers : providers[i].id # other[at].id
    BY <1>3, NoPlace DEF RegistryInv, TypeOK
  <2> QED  BY <2>1, <1>1, <1>3, Appended
<1> QED  BY <1>2, <1>3 DEF MergeNext

\* Every step keeps the invariant of the registry.
LEMMA NextRegistry == RegistryInv /\ [SetupNext]_setup => RegistryInv'
<1> SUFFICES ASSUME RegistryInv, [SetupNext]_setup  PROVE RegistryInv'
  OBVIOUS
<1>1. CASE Next
  BY <1>1, LoadRegistry, MergeBeginRegistry, MergeNextRegistry DEF Next
<1>2. CASE UNCHANGED registry
  BY <1>2 DEF registry, RegistryInv, TypeOK, Overlaid
<1> QED  BY <1>1, <1>2 DEF SetupNext, setup, Called, BeginRefused, BeginOauth,
            BeginHandMade, DiscoverRefused, BeginDiscovered, TakeKey, AskExpiry

\* The invariant holds in every behaviour.
LEMMA RegistryInvariant == SetupSpec => []RegistryInv
<1>1. SetupInit => RegistryInv
  BY InitRegistry DEF SetupInit
<1> QED  BY <1>1, NextRegistry, PTL DEF SetupSpec

-----------------------------------------------------------------------------
\* Every variable of the registry keeps its type.
THEOREM RegistryTypeCorrect == SetupSpec => []TypeOK
<1>1. RegistryInv => TypeOK
  BY DEF RegistryInv
<1> QED  BY <1>1, RegistryInvariant, PTL

\* However many files are merged, in whatever order, the registry would pass its
\* own validation (Registry::merge).
THEOREM MergedIsWellFormed == SetupSpec => []WellFormed
<1>1. RegistryInv => WellFormed
  BY DEF RegistryInv, WellFormed
<1> QED  BY <1>1, RegistryInvariant, PTL

\* A finished merge is the overlay it has been building.
LEMMA OverlayFollows == RegistryInv => MergeIsOverlay
<1> SUFFICES ASSUME RegistryInv  PROVE MergeIsOverlay
  OBVIOUS
<1> USE DEF RegistryInv
<1>1. ASSUME Merged, NEW list \in {base, other}, NEW i \in DOMAIN list
      PROVE  LET id == list[i].id IN
             Get(providers, id) = IF Get(other, id) = {} THEN Get(base, id) ELSE Get(other, id)
  <2> DEFINE id == list[i].id
  <2>0. at - 1 = Len(other) /\ {providers, base, other} \subseteq Seq(Provider)
    BY <1>1 DEF Merged, TypeOK
  <2>1. CASE Get(other, id) # {}
    <3>1. PICK k \in DOMAIN other : other[k].id = id
      BY <2>1 DEF Get, Places
    <3>2. Get(other, id) = {other[k]}
      BY <3>1, <2>0, PlaceOfId
    <3>3. PICK j \in DOMAIN providers : providers[j] = other[k]
      BY <2>0 DEF Overlaid
    <3>4. Get(providers, providers[j].id) = {providers[j]}
      BY <2>0, PlaceOfId
    <3> QED  BY <2>1, <3>1, <3>2, <3>3, <3>4
  <2>2. CASE Get(other, id) = {}
    <3>1. \A k \in DOMAIN other : other[k].id # id
      BY <2>2, <2>0, NoPlace
    <3>2. list = base
      BY <3>1, <1>1
    <3>3. i \in DOMAIN providers /\ providers[i].id = id /\ i \in DOMAIN base /\ base[i].id = id
      BY <3>2, <1>1 DEF Overlaid
    <3>4. providers[i] = base[i]
      <4>1. providers[i] = base[i] \/ \E k \in 1 .. at - 1 : providers[i] = other[k]
        BY <3>3 DEF Overlaid
      <4>2. 1 .. at - 1 = DOMAIN other
        BY <2>0
      <4> QED  BY <4>1, <4>2, <3>1, <3>3
    <3>5. Get(providers, providers[i].id) = {providers[i]}
      BY <3>3, <2>0, PlaceOfId
    <3>6. Get(base, base[i].id) = {base[i]}
      BY <3>3, <2>0, PlaceOfId
    <3> QED  BY <2>2, <3>3, <3>4, <3>5, <3>6
  <2> QED  BY <2>1, <2>2
<1>2. \A i \in DOMAIN base : i \in DOMAIN providers /\ providers[i].id = base[i].id
  BY DEF Overlaid
<1>3. \A k \in 1 .. at - 1 : k \in DOMAIN other
  BY DEF TypeOK
<1>4. \A i, j \in DOMAIN providers :
        Len(base) < i /\ i < j =>
          \E a, b \in DOMAIN other :
            a < b /\ providers[i] = other[a] /\ providers[j] = other[b]
  BY <1>3 DEF Overlaid
<1> QED  BY <1>1, <1>2, <1>4 DEF MergeIsOverlay

\* A merge is an overlay that keeps the order of first appearance.
THEOREM MergeOverlays == SetupSpec => []MergeIsOverlay
<1> QED  BY OverlayFollows, RegistryInvariant, PTL

-----------------------------------------------------------------------------
(* What validate accepts, begin can begin. *)

\* The two parses of one redirect URI agree, the one of validate and the one of
\* begin.
LEMMA RedirectParsesTwice ==
  ASSUME NEW config, OauthOk(config), config.redirect_uri \in Option(Option(Urls))
  PROVE  RedirectError(config) = "none" /\ config.authorize_url # {}
<1>1. \A text \in config.redirect_uri : text \in Option(Urls)
  BY DEF Option
<1>2. ASSUME NEW text \in config.redirect_uri
      PROVE  text # {} /\ \A url \in text : Port(url) # {}
  <2>1. PICK url \in text : Port(url) # {}
    BY <1>2 DEF OauthOk, ValidRedirect
  <2>2. \A other_url \in text : other_url = url
    BY <1>1, <1>2 DEF Option
  <2> QED  BY <2>1, <2>2
<1>3. RedirectError(config) = "none"
  BY <1>2 DEF RedirectError
<1>4. config.authorize_url # {}
  BY DEF OauthOk, ValidUrl
<1> QED  BY <1>3, <1>4

\* What may still stop a configuration that validate would accept (begin).
LEMMA BeginSucceeds ==
  ASSUME NEW config, OauthOk(config), config.redirect_uri \in Option(Option(Urls)),
         NEW result \in Begin(config)
  PROVE  result.error \in
           {"loopback", IF KeysOf(config.extra) \cap Reserved = {} THEN "none" ELSE "reserved"}
<1>1. RedirectError(config) = "none" /\ config.authorize_url # {}
  BY RedirectParsesTwice
<1>2. result = Failed("loopback") \/ result = BuildAuthorizeUrl(config)
  BY <1>1 DEF Begin
<1>3. CASE result = Failed("loopback")
  BY <1>3 DEF Failed
<1>4. CASE result = BuildAuthorizeUrl(config)
  BY <1>1, <1>4 DEF BuildAuthorizeUrl, Failed
<1> QED  BY <1>2, <1>3, <1>4

\* What the environment yields is what a paste of it would be kept as, if it has the
\* prefix (from_env, accept).
LEMMA SameKey ==
  ASSUME NEW config, config.env_var \in BOOLEAN, NEW text,
         Trim(text).core = text.core
  PROVE  LET env == FromEnv(config, {text})
             pasted == AcceptKey(config, text)
         IN /\ env = {} <=> ~config.env_var \/ pasted.error = "empty"
            /\ config.env_var =>
                 pasted.key = {key \in env : config.key_prefix \subseteq key.core.starts}
<1>1. CASE text.core = BlankCore
  <2>1. FromEnv(config, {text}) = {}
    BY <1>1 DEF FromEnv
  <2>2. AcceptKey(config, text).error = "empty" /\ AcceptKey(config, text).key = {}
    BY <1>1 DEF AcceptKey
  <2> QED  BY <2>1, <2>2
<1>2. CASE text.core # BlankCore
  <2>1. FromEnv(config, {text}) = IF config.env_var THEN {Trim(text)} ELSE {}
    BY <1>2 DEF FromEnv
  <2>2. /\ AcceptKey(config, text).error # "empty"
        /\ AcceptKey(config, text).key =
             IF config.key_prefix \subseteq text.core.starts THEN {Trim(text)} ELSE {}
    BY <1>2 DEF AcceptKey
  <2> QED  BY <2>1, <2>2
<1> QED  BY <1>1, <1>2

\* Before the last second of the clock, saturation cannot be told from the exact sum
\* by a comparison with the clock.
LEMMA SaturatingAddExact ==
  ASSUME NEW minted \in 0 .. MaxI64, NEW e \in I64, NEW asked \in 0 .. MaxI64,
         asked < MaxI64
  PROVE  asked >= SaturatingAdd(minted, e) <=> asked >= minted + e
BY I64Assumption DEF SaturatingAdd, I64

-----------------------------------------------------------------------------
(* Induction, for the one loop of build_authorize_url.  The library's theorem  *)
(* is about predicates; about a set it follows from the order being well       *)
(* founded.                                                                    *)

Below == {ss \in Nat \X Nat : ss[1] < ss[2]}

\* The natural numbers are well ordered.
LEMMA BelowWellFounded == IsWellFoundedOn(Below, Nat)
BY NatLessThanWellFounded, Zenon DEF OpToRel, Below

\* A set that has 0, and with a number the next, has every number.
LEMMA Induction ==
  ASSUME NEW T, 0 \in T, \A n \in Nat : n \in T => n + 1 \in T
  PROVE  \A n \in Nat : n \in T
<1>1. SUFFICES ASSUME Nat \ T # {} PROVE FALSE
  OBVIOUS
<1>2. PICK n \in Nat \ T : \A m \in Nat \ T : <<m, n>> \notin Below
  BY <1>1, BelowWellFounded, WFMin
<1>3. n # 0 /\ n - 1 \in Nat /\ n - 1 < n
  BY <1>2
<1>4. n - 1 \in T
  BY <1>2, <1>3 DEF Below
<1> QED
  BY <1>2, <1>3, <1>4

\* The partial results of the loop over seq, for every set of its places.
Unfolds(base0, seq, n, iter) ==
  iter = [s \in SUBSET (1 .. n) |->
            IF s = {} THEN base0 ELSE AddExtra(iter[s \ {Max(s)}], seq[Max(s)])]

\* The fold is the recursive function its definition says.
LEMMA FoldIsChosen ==
  ASSUME NEW base0, NEW S, NEW seq \in Seq(S)
  PROVE  FoldLeft(AddExtra, base0, seq)
           = (CHOOSE iter : Unfolds(base0, seq, Len(seq), iter))[1 .. Len(seq)]
<1>1. DOMAIN seq = 1 .. Len(seq)
  OBVIOUS
<1>2. FoldLeft(AddExtra, base0, seq)
        = (CHOOSE iter : iter = [s \in SUBSET DOMAIN seq |->
             IF s = {} THEN base0 ELSE AddExtra(iter[s \ {Max(s)}], seq[Max(s)])])[DOMAIN seq]
  BY Zenon DEF FoldLeft, MapThenFoldSet
<1> QED
  BY <1>1, <1>2, Zenon DEF Unfolds

\* A non-empty set of places has a last one.
LEMMA LastPlace ==
  ASSUME NEW n \in Nat, NEW s \in SUBSET (1 .. n), NEW k \in s, \A i \in s : i <= k
  PROVE  Max(s) = k
<1>1. \A x \in s : (\A y \in s : x >= y) <=> x = k
  OBVIOUS
<1> QED
  BY <1>1 DEF Max

\* Such a function exists, whatever the list.
LEMMA UnfoldingExists ==
  ASSUME NEW base0, NEW seq, NEW n \in Nat
  PROVE  \E iter : Unfolds(base0, seq, n, iter)
<1> DEFINE T == {m \in Nat : \E iter : Unfolds(base0, seq, m, iter)}
<1>1. 0 \in T
  <2> DEFINE g == [s \in SUBSET (1 .. 0) |-> base0]
  <2>1. \A s \in SUBSET (1 .. 0) : s = {}
    OBVIOUS
  <2>2. Unfolds(base0, seq, 0, g)
    BY <2>1 DEF Unfolds
  <2> QED
    BY <2>2
<1>2. ASSUME NEW m \in Nat, m \in T
      PROVE  m + 1 \in T
  <2>1. PICK iter : Unfolds(base0, seq, m, iter)
    BY <1>2
  <2> DEFINE g == [s \in SUBSET (1 .. m + 1) |->
                     IF m + 1 \in s THEN AddExtra(iter[s \ {m + 1}], seq[m + 1]) ELSE iter[s]]
             h == [s \in SUBSET (1 .. m + 1) |->
                     IF s = {} THEN base0 ELSE AddExtra(g[s \ {Max(s)}], seq[Max(s)])]
  <2>2. ASSUME NEW s \in SUBSET (1 .. m + 1)
        PROVE  g[s] = h[s]
    <3>1. CASE m + 1 \in s
      <4>1. Max(s) = m + 1
        BY <3>1, LastPlace, m + 1 \in Nat
      <4>2. s \ {m + 1} \in SUBSET (1 .. m + 1) /\ m + 1 \notin s \ {m + 1} /\ s # {}
        BY <3>1
      <4>3. g[s \ {m + 1}] = iter[s \ {m + 1}]
        BY <4>2
      <4> QED
        BY <3>1, <4>1, <4>2, <4>3
    <3>2. CASE m + 1 \notin s
      <4>1. s \in SUBSET (1 .. m)
        BY <3>2
      <4>2. iter[s] = IF s = {} THEN base0 ELSE AddExtra(iter[s \ {Max(s)}], seq[Max(s)])
        BY <2>1, <4>1 DEF Unfolds
      <4>3. g[s] = iter[s]
        BY <3>2
      <4>4. s \ {Max(s)} \in SUBSET (1 .. m + 1) /\ m + 1 \notin s \ {Max(s)}
        BY <3>2
      <4>5. g[s \ {Max(s)}] = iter[s \ {Max(s)}]
        BY <4>4
      <4> QED
        BY <4>2, <4>3, <4>5
    <3> QED
      BY <3>1, <3>2
  <2>3. g = h
    BY <2>2
  <2>4. Unfolds(base0, seq, m + 1, g)
    BY <2>3 DEF Unfolds
  <2> QED
    BY <2>4
<1>3. \A m \in Nat : m \in T
  <2> HIDE DEF T
  <2> QED  BY <1>1, <1>2, Induction
<1> QED
  BY <1>3

\* The loop, turn by turn: what it has after i of the custom parameters.
LEMMA FoldTurns ==
  ASSUME NEW base0, NEW S, NEW seq \in Seq(S)
  PROVE  \E acc :
           /\ acc[0] = base0
           /\ \A i \in 1 .. Len(seq) : acc[i] = AddExtra(acc[i - 1], seq[i])
           /\ FoldLeft(AddExtra, base0, seq) = acc[Len(seq)]
<1> DEFINE n == Len(seq)
<1>0. n \in Nat
  OBVIOUS
<1>1. PICK iter :
        /\ Unfolds(base0, seq, n, iter)
        /\ FoldLeft(AddExtra, base0, seq) = iter[1 .. n]
  BY <1>0, FoldIsChosen, UnfoldingExists
<1> DEFINE acc == [i \in 0 .. n |-> iter[1 .. i]]
<1>2. acc[0] = base0
  BY <1>0, <1>1 DEF Unfolds
<1>3. ASSUME NEW i \in 1 .. n
      PROVE  acc[i] = AddExtra(acc[i - 1], seq[i])
  <2>1. 1 .. i \in SUBSET (1 .. n) /\ i \in 1 .. i /\ 1 .. i # {}
    BY <1>0
  <2>2. Max(1 .. i) = i
    <3>1. \A j \in 1 .. i : j <= i
      BY <1>0
    <3> HIDE DEF n
    <3> QED
      BY <1>0, <2>1, <3>1, LastPlace
  <2>3. (1 .. i) \ {i} = 1 .. i - 1
    BY <1>0
  <2>4. iter[1 .. i] = AddExtra(iter[(1 .. i) \ {Max(1 .. i)}], seq[Max(1 .. i)])
    BY <1>1, <2>1 DEF Unfolds
  <2>5. iter[1 .. i] = AddExtra(iter[1 .. i - 1], seq[i])
    BY <2>2, <2>3, <2>4
  <2>6. i \in 0 .. n /\ i - 1 \in 0 .. n
    BY <1>0
  <2>7. acc[i] = iter[1 .. i] /\ acc[i - 1] = iter[1 .. i - 1]
    BY <2>6
  <2> QED
    BY <2>5, <2>7
<1>4. FoldLeft(AddExtra, base0, seq) = acc[n]
  BY <1>0, <1>1
<1> QED
  BY <1>2, <1>3, <1>4

-----------------------------------------------------------------------------
(* The query of the authorize URL. *)

\* No value twice.
Injective(keys) == \A i, j \in DOMAIN keys : keys[i] = keys[j] => i = j

\* No key twice.
KeysOnce(pairs) == \A i, j \in DOMAIN pairs : pairs[i].key = pairs[j].key => i = j

\* Two lists of keys without a common one make one without a repeated one.
LEMMA JoinedKeys ==
  ASSUME NEW S, NEW s \in Seq(S), NEW t \in Seq(S), Injective(s), Injective(t),
         ToSet(s) \cap ToSet(t) = {}
  PROVE  /\ s \o t \in Seq(S)
         /\ Injective(s \o t)
         /\ ToSet(s \o t) = ToSet(s) \cup ToSet(t)
<1>1. /\ s \o t \in Seq(S)
      /\ Len(s) \in Nat /\ Len(t) \in Nat
      /\ DOMAIN s = 1 .. Len(s) /\ DOMAIN t = 1 .. Len(t)
      /\ DOMAIN (s \o t) = 1 .. Len(s) + Len(t)
      /\ \A i \in 1 .. Len(s) : (s \o t)[i] = s[i]
      /\ \A i \in 1 .. Len(t) : (s \o t)[Len(s) + i] = t[i]
  OBVIOUS
<1>2. \A i \in DOMAIN (s \o t) :
        \/ i \in DOMAIN s /\ (s \o t)[i] = s[i] /\ s[i] \in ToSet(s)
        \/ /\ i - Len(s) \in DOMAIN t /\ (s \o t)[i] = t[i - Len(s)]
           /\ t[i - Len(s)] \in ToSet(t)
  <2> TAKE i \in DOMAIN (s \o t)
  <2>1. CASE i <= Len(s)
    BY <1>1, <2>1 DEF ToSet
  <2>2. CASE i > Len(s)
    <3>1. i - Len(s) \in 1 .. Len(t) /\ i = Len(s) + (i - Len(s))
      BY <1>1, <2>2
    <3> QED
      BY <1>1, <3>1 DEF ToSet
  <2> QED
    BY <1>1, <2>1, <2>2
<1>3. Injective(s \o t)
  BY <1>1, <1>2 DEF Injective
<1>4. ToSet(s) \cup ToSet(t) \subseteq ToSet(s \o t)
  <2>1. \A i \in 1 .. Len(s) : i \in DOMAIN (s \o t)
    BY <1>1
  <2>2. \A i \in 1 .. Len(t) : Len(s) + i \in DOMAIN (s \o t)
    BY <1>1
  <2> QED
    BY <1>1, <2>1, <2>2 DEF ToSet
<1>5. ToSet(s \o t) \subseteq ToSet(s) \cup ToSet(t)
  BY <1>2 DEF ToSet
<1> QED
  BY <1>1, <1>3, <1>4, <1>5

\* A list of one key, or of none.
LEMMA OneKey ==
  ASSUME NEW S, NEW key \in S
  PROVE  /\ <<>> \in Seq(S) /\ Injective(<<>>) /\ ToSet(<<>>) = {}
         /\ <<key>> \in Seq(S) /\ Injective(<<key>>) /\ ToSet(<<key>>) = {key}
<1>1. <<>> \in Seq(S) /\ Injective(<<>>) /\ ToSet(<<>>) = {}
  BY DEF Injective, ToSet
<1>2. <<key>> \in Seq(S) /\ DOMAIN <<key>> = 1 .. 1 /\ <<key>>[1] = key
  OBVIOUS
<1> QED
  BY <1>1, <1>2 DEF Injective, ToSet

\* A key that is sent when it is set.
LEMMA SetKey ==
  ASSUME NEW S, NEW key \in S, NEW typed
  PROVE  LET keys == IF key \in typed THEN <<key>> ELSE <<>> IN
         keys \in Seq(S) /\ Injective(keys) /\ ToSet(keys) = {key} \cap typed
<1>1. CASE key \in typed
  BY <1>1, OneKey
<1>2. CASE key \notin typed
  BY <1>2, OneKey
<1> QED
  BY <1>1, <1>2

\* The protocol's keys, each once.
LEMMA AlwaysOnce ==
  /\ Always \in Seq(Reserved) /\ Injective(Always)
  /\ {"audience", "prompt", "login_hint", "scope"} \cap ToSet(Always) = {}
<1>1. DOMAIN Always = 1 .. 6
  BY Z3 DEF Always
<1>2. ToSet(Always) = {"response_type", "client_id", "redirect_uri", "state",
                       "code_challenge", "code_challenge_method"}
  BY <1>1 DEF ToSet, Always
<1>3. Injective(Always)
  BY <1>1 DEF Injective, Always
<1>4. Always \in Seq(ToSet(Always))
  BY <1>2 DEF Always
<1>5. Always \in Seq(Reserved)
  BY <1>4 DEF Reserved
<1> QED
  BY <1>2, <1>3, <1>5

\* The keys of what is established before the custom parameters, each once, and
\* with every typed field that is set.
LEMMA EstablishedKeys ==
  ASSUME NEW config, config.typed \subseteq TypedKeys
  PROVE  \E keys \in Seq(Reserved \cup TypedKeys) :
           /\ Injective(keys)
           /\ config.typed \subseteq ToSet(keys)
           /\ Established(config) = [i \in DOMAIN keys |-> Own(keys[i])]
<1> DEFINE S == Reserved \cup TypedKeys
           scope == IF config.scopes # <<>> THEN <<"scope">> ELSE <<>>
           audience == IF "audience" \in config.typed THEN <<"audience">> ELSE <<>>
           prompt == IF "prompt" \in config.typed THEN <<"prompt">> ELSE <<>>
           hint == IF "login_hint" \in config.typed THEN <<"login_hint">> ELSE <<>>
           keys1 == Always \o scope
           keys2 == keys1 \o audience
           keys3 == keys2 \o prompt
           keys == keys3 \o hint
<1>1. {"scope", "audience", "prompt", "login_hint"} \subseteq S
  BY DEF Reserved, TypedKeys
<1>2. Established(config) = [i \in DOMAIN keys |-> Own(keys[i])]
  BY DEF Established
<1>3. /\ Always \in Seq(S) /\ Injective(Always)
      /\ {"audience", "prompt", "login_hint", "scope"} \cap ToSet(Always) = {}
  <2>1. Reserved \subseteq S
    OBVIOUS
  <2> QED
    BY <2>1, AlwaysOnce
<1>4. scope \in Seq(S) /\ Injective(scope) /\ ToSet(scope) \subseteq {"scope"}
  BY <1>1, OneKey
<1>5. /\ audience \in Seq(S) /\ Injective(audience)
      /\ ToSet(audience) = {"audience"} \cap config.typed
  <2>1. "audience" \in S
    BY <1>1
  <2> HIDE DEF S
  <2> QED
    BY <2>1, SetKey
<1>6. /\ prompt \in Seq(S) /\ Injective(prompt)
      /\ ToSet(prompt) = {"prompt"} \cap config.typed
  <2>1. "prompt" \in S
    BY <1>1
  <2> HIDE DEF S
  <2> QED
    BY <2>1, SetKey
<1>7. /\ hint \in Seq(S) /\ Injective(hint)
      /\ ToSet(hint) = {"login_hint"} \cap config.typed
  <2>1. "login_hint" \in S
    BY <1>1
  <2> HIDE DEF S
  <2> QED
    BY <2>1, SetKey
<1> HIDE DEF S, scope, audience, prompt, hint
<1>8. /\ keys1 \in Seq(S) /\ Injective(keys1)
      /\ ToSet(keys1) = ToSet(Always) \cup ToSet(scope)
  <2>1. ToSet(Always) \cap ToSet(scope) = {}
    BY <1>3, <1>4
  <2> QED
    BY <1>3, <1>4, <2>1, JoinedKeys
<1> HIDE DEF keys1
<1>9. /\ keys2 \in Seq(S) /\ Injective(keys2)
      /\ ToSet(keys2) = ToSet(keys1) \cup ToSet(audience)
  <2>1. ToSet(keys1) \cap ToSet(audience) = {}
    BY <1>3, <1>4, <1>5, <1>8
  <2> QED
    BY <1>5, <1>8, <2>1, JoinedKeys
<1> HIDE DEF keys2
<1>10. /\ keys3 \in Seq(S) /\ Injective(keys3)
       /\ ToSet(keys3) = ToSet(keys2) \cup ToSet(prompt)
  <2>1. ToSet(keys2) \cap ToSet(prompt) = {}
    BY <1>3, <1>4, <1>5, <1>6, <1>8, <1>9
  <2> QED
    BY <1>6, <1>9, <2>1, JoinedKeys
<1> HIDE DEF keys3
<1>11. /\ keys \in Seq(S) /\ Injective(keys)
       /\ ToSet(keys) = ToSet(keys3) \cup ToSet(hint)
  <2>1. ToSet(keys3) \cap ToSet(hint) = {}
    BY <1>3, <1>4, <1>5, <1>6, <1>7, <1>8, <1>9, <1>10
  <2> QED
    BY <1>7, <1>10, <2>1, JoinedKeys
<1> HIDE DEF keys
<1>12. config.typed \subseteq ToSet(keys)
  BY <1>5, <1>6, <1>7, <1>9, <1>10, <1>11 DEF TypedKeys
<1> QED
  BY <1>2, <1>11, <1>12 DEF S

\* What the query may hold: parameters of the application, and the flow's own.
Sendable == Pairs \cup {Own(key) : key \in Reserved \cup TypedKeys}

\* What is established before the custom parameters has no key twice, every typed
\* field that is set, and nothing of the application's choice.
LEMMA EstablishedOnce ==
  ASSUME NEW config, config.typed \subseteq TypedKeys
  PROVE  /\ Established(config) \in Seq(Sendable)
         /\ KeysOnce(Established(config))
         /\ config.typed \subseteq KeysOf(Established(config))
         /\ \A pair \in ToSet(Established(config)) :
              pair = Own(pair.key) /\ pair.key \in Reserved \cup TypedKeys
<1> DEFINE S == Reserved \cup TypedKeys
<1>1. PICK keys \in Seq(S) :
        /\ Injective(keys)
        /\ config.typed \subseteq ToSet(keys)
        /\ Established(config) = [i \in DOMAIN keys |-> Own(keys[i])]
  BY EstablishedKeys
<1> HIDE DEF S
<1>2. /\ DOMAIN Established(config) = DOMAIN keys
      /\ \A i \in DOMAIN keys :
           /\ Established(config)[i] = Own(keys[i])
           /\ Established(config)[i].key = keys[i]
           /\ keys[i] \in S
  BY <1>1 DEF Own
<1>3. Established(config) \in Seq(Sendable)
  <2>1. DOMAIN keys = 1 .. Len(keys) /\ Len(keys) \in Nat
    BY <1>1
  <2>2. \A i \in DOMAIN keys : Own(keys[i]) \in Sendable
    BY <1>2 DEF Sendable, S
  <2> QED
    BY <1>1, <2>1, <2>2
<1>4. KeysOf(Established(config)) = ToSet(keys)
  BY <1>2 DEF KeysOf, ToSet
<1>5. KeysOnce(Established(config))
  BY <1>1, <1>2 DEF KeysOnce, Injective
<1>6. \A pair \in ToSet(Established(config)) : pair = Own(pair.key) /\ pair.key \in S
  BY <1>2 DEF ToSet
<1> QED
  BY <1>1, <1>3, <1>4, <1>5, <1>6 DEF S

\* One turn of the loop: a key that is new is added, one that is there is not.
LEMMA AddedOnce ==
  ASSUME NEW S, NEW pairs \in Seq(S), NEW pair \in S, KeysOnce(pairs)
  PROVE  /\ AddExtra(pairs, pair) \in Seq(S)
         /\ KeysOnce(AddExtra(pairs, pair))
         /\ KeysOf(AddExtra(pairs, pair)) = KeysOf(pairs) \cup {pair.key}
         /\ ToSet(AddExtra(pairs, pair)) =
              ToSet(pairs) \cup (IF pair.key \in KeysOf(pairs) THEN {} ELSE {pair})
<1>1. CASE pair.key \in KeysOf(pairs)
  BY <1>1 DEF AddExtra
<1>2. CASE pair.key \notin KeysOf(pairs)
  <2> DEFINE longer == Append(pairs, pair)
  <2>1. /\ AddExtra(pairs, pair) = longer
        /\ longer \in Seq(S)
        /\ Len(pairs) \in Nat
        /\ DOMAIN pairs = 1 .. Len(pairs)
        /\ DOMAIN longer = DOMAIN pairs \cup {Len(pairs) + 1}
        /\ \A i \in DOMAIN pairs : longer[i] = pairs[i]
        /\ longer[Len(pairs) + 1] = pair
        /\ Len(pairs) + 1 \notin DOMAIN pairs
    BY <1>2 DEF AddExtra
  <2> HIDE DEF longer
  <2>2. KeysOnce(longer)
    BY <1>2, <2>1 DEF KeysOnce, KeysOf
  <2>3. KeysOf(longer) = KeysOf(pairs) \cup {pair.key}
    BY <2>1 DEF KeysOf
  <2>4. ToSet(longer) = ToSet(pairs) \cup {pair}
    BY <2>1 DEF ToSet
  <2> QED
    BY <1>2, <2>1, <2>2, <2>3, <2>4
<1> QED
  BY <1>1, <1>2

\* What the loop has made of the first k custom parameters: no key twice, every
\* key so far, and of the custom ones each the first of its key that was free.
QueryAfter(pairs, established, extra, k) ==
  /\ pairs \in Seq(Sendable)
  /\ KeysOnce(pairs)
  /\ KeysOf(established) \subseteq KeysOf(pairs)
  /\ \A i \in 1 .. k : extra[i].key \in KeysOf(pairs)
  /\ \A pair \in ToSet(pairs) :
       \/ pair \in ToSet(established)
       \/ \E i \in 1 .. k :
            /\ pair = extra[i]
            /\ \A j \in 1 .. i - 1 : extra[j].key # extra[i].key
            /\ pair.key \notin KeysOf(established)

\* One more custom parameter.
LEMMA QueryTurn ==
  ASSUME NEW established, NEW extra \in Seq(Pairs), NEW k \in Nat, k + 1 \in 1 .. Len(extra),
         NEW pairs, QueryAfter(pairs, established, extra, k)
  PROVE  QueryAfter(AddExtra(pairs, extra[k + 1]), established, extra, k + 1)
<1> DEFINE pair == extra[k + 1]
           more == AddExtra(pairs, pair)
<1>1. pair \in Pairs /\ pair \in Sendable
  BY DEF Sendable
<1>2. pairs \in Seq(Sendable) /\ KeysOnce(pairs)
  BY DEF QueryAfter
<1> HIDE DEF pair
<1>3. /\ more \in Seq(Sendable)
      /\ KeysOnce(more)
      /\ KeysOf(more) = KeysOf(pairs) \cup {pair.key}
      /\ ToSet(more) = ToSet(pairs) \cup (IF pair.key \in KeysOf(pairs) THEN {} ELSE {pair})
  BY <1>1, <1>2, AddedOnce
<1> HIDE DEF more
<1>4. \A i \in 1 .. k + 1 : extra[i].key \in KeysOf(more)
  <2>1. \A i \in 1 .. k + 1 : i \in 1 .. k \/ i = k + 1
    OBVIOUS
  <2> QED
    BY <1>3, <2>1 DEF QueryAfter, pair
<1>5. ASSUME NEW p \in ToSet(more)
      PROVE  \/ p \in ToSet(established)
             \/ \E i \in 1 .. k + 1 :
                  /\ p = extra[i]
                  /\ \A j \in 1 .. i - 1 : extra[j].key # extra[i].key
                  /\ p.key \notin KeysOf(established)
  <2>1. CASE p \in ToSet(pairs)
    <3>1. 1 .. k \subseteq 1 .. k + 1
      OBVIOUS
    <3> QED
      BY <2>1, <3>1 DEF QueryAfter
  <2>2. CASE p = pair /\ pair.key \notin KeysOf(pairs)
    <3>1. k + 1 \in 1 .. k + 1 /\ \A j \in 1 .. (k + 1) - 1 : j \in 1 .. k
      OBVIOUS
    <3>2. \A j \in 1 .. (k + 1) - 1 : extra[j].key # pair.key
      BY <2>2, <3>1 DEF QueryAfter
    <3>3. pair.key \notin KeysOf(established)
      BY <2>2 DEF QueryAfter
    <3> QED
      BY <2>2, <3>1, <3>2, <3>3 DEF pair
  <2> QED
    BY <1>3, <1>5, <2>1, <2>2
<1>6. KeysOf(established) \subseteq KeysOf(more)
  BY <1>3 DEF QueryAfter
<1>7. QueryAfter(more, established, extra, k + 1)
  BY <1>3, <1>4, <1>5, <1>6 DEF QueryAfter
<1> QED
  BY <1>7 DEF more, pair

\* The whole loop of build_authorize_url.
LEMMA QueryBuilt ==
  ASSUME NEW established \in Seq(Sendable), KeysOnce(established), NEW extra \in Seq(Pairs)
  PROVE  QueryAfter(FoldLeft(AddExtra, established, extra), established, extra, Len(extra))
<1> DEFINE n == Len(extra)
<1>1. PICK acc :
        /\ acc[0] = established
        /\ \A i \in 1 .. n : acc[i] = AddExtra(acc[i - 1], extra[i])
        /\ FoldLeft(AddExtra, established, extra) = acc[n]
  BY FoldTurns
<1>2. n \in Nat
  OBVIOUS
<1> DEFINE T == {k \in Nat : k <= n => QueryAfter(acc[k], established, extra, k)}
<1>3. 0 \in T
  BY <1>1 DEF QueryAfter
<1>4. ASSUME NEW k \in Nat, k \in T
      PROVE  k + 1 \in T
  <2>1. CASE k + 1 <= n
    <3>1. k + 1 \in 1 .. n /\ (k + 1) - 1 = k /\ k <= n
      BY <1>2, <2>1
    <3>2. acc[k + 1] = AddExtra(acc[k], extra[k + 1])
      BY <1>1, <3>1
    <3>3. QueryAfter(acc[k], established, extra, k)
      BY <1>4, <3>1
    <3>4. QueryAfter(acc[k + 1], established, extra, k + 1)
      BY <3>1, <3>2, <3>3, QueryTurn
    <3> QED
      BY <3>4
  <2>2. CASE ~(k + 1 <= n)
    BY <2>2
  <2> QED
    BY <2>1, <2>2
<1>5. \A k \in Nat : k \in T
  <2> HIDE DEF T
  <2> QED
    BY <1>3, <1>4, Induction
<1>6. QueryAfter(acc[n], established, extra, n)
  BY <1>2, <1>5
<1> QED
  BY <1>1, <1>6

\* What the user is sent to has no parameter twice, whoever made the configuration.
LEMMA QueryOnce ==
  ASSUME NEW config \in OAuthConfig, NEW result \in Begin(config), result.error = "none"
  PROVE  LET query == result.query
             first(i) == \A j \in 1 .. i - 1 : config.extra[j].key # config.extra[i].key
         IN /\ query \in Seq(Sendable) /\ KeysOnce(query)
            /\ KeysOf(config.extra) \subseteq KeysOf(query)
            /\ \A pair \in ToSet(query) :
                 \/ pair = Own(pair.key) /\ pair.key \in Reserved \cup TypedKeys
                 \/ \E i \in DOMAIN config.extra :
                      pair = config.extra[i] /\ first(i) /\ pair.key \notin Reserved \cup config.typed
<1> DEFINE established == Established(config)
           query == result.query
<1>1. /\ config.extra \in Seq(Pairs)
      /\ config.typed \subseteq TypedKeys
  BY DEF OAuthConfig
<1>2. /\ query = FoldLeft(AddExtra, established, config.extra)
      /\ KeysOf(config.extra) \cap Reserved = {}
  BY DEF Begin, RedirectError, BuildAuthorizeUrl, Failed
<1>3. /\ established \in Seq(Sendable)
      /\ KeysOnce(established)
      /\ config.typed \subseteq KeysOf(established)
      /\ \A pair \in ToSet(established) :
           pair = Own(pair.key) /\ pair.key \in Reserved \cup TypedKeys
  BY <1>1, EstablishedOnce
<1> HIDE DEF established
<1>4. QueryAfter(query, established, config.extra, Len(config.extra))
  BY <1>1, <1>2, <1>3, QueryBuilt
<1> HIDE DEF query
<1>5. DOMAIN config.extra = 1 .. Len(config.extra)
  BY <1>1
<1>6. KeysOf(config.extra) \subseteq KeysOf(query)
  BY <1>4, <1>5 DEF QueryAfter, KeysOf
<1>7. ASSUME NEW pair \in ToSet(query)
      PROVE  \/ pair = Own(pair.key) /\ pair.key \in Reserved \cup TypedKeys
             \/ \E i \in DOMAIN config.extra :
                  /\ pair = config.extra[i]
                  /\ \A j \in 1 .. i - 1 : config.extra[j].key # config.extra[i].key
                  /\ pair.key \notin Reserved \cup config.typed
  <2>1. CASE pair \in ToSet(established)
    BY <1>3, <2>1
  <2>2. CASE \E i \in 1 .. Len(config.extra) :
               /\ pair = config.extra[i]
               /\ \A j \in 1 .. i - 1 : config.extra[j].key # config.extra[i].key
               /\ pair.key \notin KeysOf(established)
    <3>1. \A i \in DOMAIN config.extra : config.extra[i].key \notin Reserved
      BY <1>2 DEF KeysOf
    <3> QED
      BY <1>3, <1>5, <2>2, <3>1
  <2> QED
    BY <1>4, <2>1, <2>2 DEF QueryAfter
<1>8. query \in Seq(Sendable) /\ KeysOnce(query)
  BY <1>4 DEF QueryAfter
<1> QED
  BY <1>6, <1>7, <1>8 DEF query

\* Where the second of two joined lists stands.
LEMMA Joined ==
  ASSUME NEW V, NEW own \in Seq(V), NEW added \in Seq(V)
  PROVE  /\ DOMAIN (own \o added) = 1 .. Len(own) + Len(added)
         /\ DOMAIN added = 1 .. Len(added)
         /\ Len(own) \in Nat /\ Len(added) \in Nat
         /\ \A i \in 1 .. Len(own) + Len(added) :
              Len(own) < i => (own \o added)[i] = added[i - Len(own)]
OBVIOUS

\* Behind the query an endpoint came with, a query without a repeated key repeats
\* none of its own.
LEMMA KeysBehind ==
  ASSUME NEW S, NEW T, NEW result, result.own \in Seq(S), result.query \in Seq(T),
         KeysOnce(result.query)
  PROVE  LET keys == UrlKeys(result) IN
         \A i, j \in DOMAIN keys : i < j /\ keys[i] = keys[j] => i <= Len(result.own)
<1> DEFINE own == result.own
           query == result.query
           added == [i \in DOMAIN query |-> query[i].key]
           V == S \cup KeysOf(query)
           keys == own \o added
<1>1. DOMAIN query = 1 .. Len(query) /\ Len(query) \in Nat
  OBVIOUS
<1>2. \A i, j \in DOMAIN query : query[i].key = query[j].key => i = j
  BY DEF KeysOnce
<1>3. \A i \in DOMAIN query : query[i].key \in V
  BY DEF KeysOf
<1>4. own \in Seq(V)
  OBVIOUS
<1>5. UrlKeys(result) = keys
  BY DEF UrlKeys
<1> HIDE DEF own, query, V
<1>6. added \in Seq(V) /\ Len(added) = Len(query)
  BY <1>1, <1>3
<1>7. \A i, j \in DOMAIN added : added[i] = added[j] => i = j
  BY <1>2
<1> HIDE DEF added
<1>8. /\ DOMAIN (own \o added) = 1 .. Len(own) + Len(added)
      /\ DOMAIN added = 1 .. Len(added)
      /\ Len(own) \in Nat /\ Len(added) \in Nat
      /\ \A i \in 1 .. Len(own) + Len(added) :
           Len(own) < i => (own \o added)[i] = added[i - Len(own)]
  BY <1>4, <1>6, Joined, Zenon
<1>9. ASSUME NEW i \in DOMAIN keys, NEW j \in DOMAIN keys, i < j, keys[i] = keys[j],
             ~(i <= Len(own))
      PROVE  FALSE
  <2> DEFINE m == Len(own)
             n == Len(added)
  <2>1. /\ DOMAIN keys = 1 .. m + n /\ DOMAIN added = 1 .. n /\ m \in Nat /\ n \in Nat
        /\ \A k \in 1 .. m + n : m < k => keys[k] = added[k - m]
    BY <1>8
  <2>2. ~(i <= m)
    BY <1>9
  <2> HIDE DEF keys, m, n
  <2>3. i \in 1 .. m + n /\ j \in 1 .. m + n /\ m < i /\ m < j
    BY <1>9, <2>1, <2>2
  <2>4. i - m \in 1 .. n /\ j - m \in 1 .. n /\ i - m # j - m
    BY <1>9, <2>1, <2>3
  <2> QED
    BY <1>7, <1>9, <2>1, <2>3, <2>4
<1> QED
  BY <1>5, <1>9 DEF own

-----------------------------------------------------------------------------
(* The one call of a behaviour. *)

\* No method of any file has a custom parameter that is reserved, or an endpoint that
\* comes with a query.
PlainMethods ==
  \A method \in Methods :
    method.kind = "oauth" =>
      /\ KeysOf(method.extra) \cap Reserved = {}
      /\ \A url \in method.authorize_url : url.query = <<>>

\* What the registry promises, and what is true of every call.
SetupInv ==
  /\ RegistryInv
  /\ OnlyReservedExtrasStop
  /\ DiscoveredIsLoadable
  /\ NothingAddedTwice
  /\ OnlyPrefixDiffers
  /\ ExpiryIsExact
  /\ PlainMethods => CollidingKeysDropped

\* An OAuth method of a registry's provider is one validate has accepted.
LEMMA OauthOfRegistry ==
  ASSUME RegistryInv, NEW id, NEW provider \in Get(providers, id),
         NEW config \in MethodOf(provider, "oauth")
  PROVE  /\ OauthOk(config)
         /\ config \in OAuthConfig /\ config \in Methods
         /\ config.redirect_uri \in Option(Option(Urls))
<1>1. PICK i \in DOMAIN providers : provider = providers[i]
  BY DEF Get, Places
<1>2. provider \in Provider /\ ProviderOk(provider)
  BY <1>1 DEF RegistryInv, TypeOK, Valid
<1>3. PICK j \in DOMAIN provider.methods : config = provider.methods[j] /\ config.kind = "oauth"
  BY DEF MethodOf
<1>4. config \in Methods
  BY <1>2, <1>3 DEF Provider
<1>5. config \in OAuthConfig
  BY <1>3, <1>4, MethodsAssumption DEF DeviceCodeConfig, ApiKeyConfig
<1>6. OauthOk(config)
  BY <1>2, <1>3 DEF ProviderOk, MethodOk
<1> QED  BY <1>4, <1>5, <1>6 DEF OAuthConfig

\* An API-key method of a registry's provider declares a variable or does not.
LEMMA KeyMethodOfRegistry ==
  ASSUME RegistryInv, NEW id, NEW provider \in Get(providers, id),
         NEW config \in MethodOf(provider, "api_key")
  PROVE  config.env_var \in BOOLEAN
<1>1. PICK i \in DOMAIN providers : provider = providers[i]
  BY DEF Get, Places
<1>2. provider \in Provider
  BY <1>1 DEF RegistryInv, TypeOK
<1>3. PICK j \in DOMAIN provider.methods :
        config = provider.methods[j] /\ config.kind = "api_key"
  BY DEF MethodOf
<1>4. config \in Methods
  BY <1>2, <1>3 DEF Provider
<1> QED
  BY <1>3, <1>4, MethodsAssumption DEF OAuthConfig, DeviceCodeConfig, ApiKeyConfig

\* What discovery lets through is what validate would accept (discover, to_oauth_config).
LEMMA DiscoveredConfig ==
  ASSUME NEW fetch \in Fetches,
         NEW metadata \in Discover(fetch.issuer, fetch.reply).metadata
  PROVE  LET config == ToOauthConfig(metadata, "client", <<>>) IN
         /\ OauthOk(config) /\ config.extra = <<>>
         /\ config.redirect_uri \in Option(Option(Urls))
<1> DEFINE config == ToOauthConfig(metadata, "client", <<>>)
<1>1. metadata \in fetch.reply.document /\ Sound(fetch.issuer, metadata)
  BY DEF Discover
<1>2. OauthOk(config)
  BY <1>1 DEF OauthOk, ToOauthConfig, Sound
<1>3. {} \in Option(Option(Urls))
  BY DEF Option
<1> QED  BY <1>2, <1>3 DEF ToOauthConfig

\* What a URL is made of, and of two parameters with one key the first is the
\* endpoint's own.
LEMMA UrlOfBegin ==
  ASSUME NEW config \in OAuthConfig, NEW result \in Begin(config)
  PROVE  LET keys == UrlKeys(result) IN
         /\ \A i, j \in DOMAIN keys : i < j /\ keys[i] = keys[j] => i <= Len(result.own)
         /\ Len(result.own) \in Nat /\ DOMAIN keys \subseteq Nat
         /\ (\A url \in config.authorize_url : url.query = <<>>) => result.own = <<>>
<1>1. CASE result.error # "none"
  <2>1. result.own = <<>> /\ result.query = <<>>
    BY <1>1 DEF Begin, BuildAuthorizeUrl, Failed
  <2>2. DOMAIN UrlKeys(result) = {}
    BY <2>1 DEF UrlKeys
  <2> QED
    BY <2>1, <2>2
<1>2. CASE result.error = "none"
  <2>1. result.query \in Seq(Sendable) /\ KeysOnce(result.query)
    BY <1>2, QueryOnce
  <2>2. /\ config.authorize_url # {}
        /\ result.own = (CHOOSE url \in config.authorize_url : TRUE).query
    BY <1>2 DEF Begin, BuildAuthorizeUrl, Failed
  <2>3. PICK url \in config.authorize_url : result.own = url.query
    BY <2>2
  <2>4. url \in Urls
    BY DEF OAuthConfig, Option
  <2> DEFINE S == STRING
  <2>5. result.own \in Seq(S)
    BY <2>3, <2>4 DEF Urls
  <2> HIDE DEF S
  <2>6. \A i, j \in DOMAIN UrlKeys(result) :
          i < j /\ UrlKeys(result)[i] = UrlKeys(result)[j] => i <= Len(result.own)
    BY <2>1, <2>5, KeysBehind
  <2>7. DOMAIN UrlKeys(result) \subseteq Nat /\ Len(result.own) \in Nat
    <3> DEFINE added == [i \in DOMAIN result.query |-> result.query[i].key]
               T == {result.query[i].key : i \in DOMAIN result.query}
    <3>1. added \in Seq(T)
      BY <2>1
    <3>2. UrlKeys(result) = result.own \o added
      BY DEF UrlKeys
    <3> HIDE DEF added, T
    <3>3. result.own \in Seq(S \cup T) /\ added \in Seq(S \cup T)
      BY <2>5, <3>1
    <3> QED
      BY <3>2, <3>3
  <2> QED
    BY <2>3, <2>6, <2>7
<1> QED
  BY <1>1, <1>2

\* A call of begin adds nothing to the URL that it has already added.
LEMMA QueryOfCall ==
  ASSUME NEW op, NEW config \in OAuthConfig, NEW result \in Begin(config),
         Called(op, {config}, result)
  PROVE  NothingAddedTwice'
<1>1. CASE result.error = "none"
  <2>1. call'.config = {config} /\ call'.result = result
    BY DEF Called
  <2>2. \A i, j \in DOMAIN UrlKeys(result) :
          i < j /\ UrlKeys(result)[i] = UrlKeys(result)[j] => i <= Len(result.own)
    BY UrlOfBegin
  <2> QED
    BY <1>1, <2>1, <2>2, QueryOnce DEF NothingAddedTwice
<1>2. CASE result.error # "none"
  BY <1>2 DEF Called, NothingAddedTwice
<1> QED  BY <1>1, <1>2

\* Where no method is in the way, a loaded flow begins with every key once.
LEMMA PlainOfCall ==
  ASSUME PlainMethods, NEW config \in OAuthConfig, config \in Methods, NEW result \in Begin(config),
         result.error \in
           {"loopback", IF KeysOf(config.extra) \cap Reserved = {} THEN "none" ELSE "reserved"},
         Called("begin_oauth", {config}, result)
  PROVE  CollidingKeysDropped'
<1>1. KeysOf(config.extra) \cap Reserved = {} /\ \A url \in config.authorize_url : url.query = <<>>
  BY DEF PlainMethods, OAuthConfig
<1>2. call'.result = result
  BY DEF Called
<1> DEFINE keys == UrlKeys(result)
<1>3. /\ \A i, j \in DOMAIN keys : i < j /\ keys[i] = keys[j] => i <= Len(result.own)
      /\ DOMAIN keys \subseteq Nat /\ result.own = <<>>
  BY <1>1, UrlOfBegin
<1> HIDE DEF keys
<1>4. \A i, j \in DOMAIN keys : i < j => keys[i] # keys[j]
  <2>1. \A i \in DOMAIN keys : i \notin 0 .. 0 => ~(i <= 0)
    BY <1>3
  <2>2. 0 \notin DOMAIN keys
    BY DEF keys, UrlKeys
  <2> QED
    BY <1>3, <2>1, <2>2
<1>5. \A i, j \in DOMAIN keys : keys[i] = keys[j] => i = j
  BY <1>3, <1>4
<1>6. UrlKeys(call'.result) = keys
  BY <1>2 DEF keys
<1> QED
  BY <1>1, <1>2, <1>5, <1>6 DEF CollidingKeysDropped, UrlKeys

\* Every step keeps the invariant.
LEMMA NextSetup == SetupInv /\ [SetupNext]_setup => SetupInv'
<1> SUFFICES ASSUME SetupInv, [SetupNext]_setup
             PROVE  /\ OnlyReservedExtrasStop' /\ DiscoveredIsLoadable'
                    /\ NothingAddedTwice' /\ OnlyPrefixDiffers' /\ ExpiryIsExact'
                    /\ PlainMethods => CollidingKeysDropped'
  BY NextRegistry DEF SetupInv
<1>1. CASE UNCHANGED call
  BY <1>1 DEF SetupInv, OnlyReservedExtrasStop, DiscoveredIsLoadable, NothingAddedTwice,
     OnlyPrefixDiffers, ExpiryIsExact, CollidingKeysDropped
<1> USE DEF OnlyReservedExtrasStop, DiscoveredIsLoadable, OnlyPrefixDiffers, ExpiryIsExact, Called
<1>2. CASE BeginRefused
  BY <1>2 DEF BeginRefused, NothingAddedTwice, CollidingKeysDropped
<1>3. CASE BeginOauth
  <2>0. PICK id \in ProviderIds : \E provider \in Get(providers, id) :
          \E config \in MethodOf(provider, "oauth") : \E result \in Begin(config) :
            Called("begin_oauth", {config}, result)
    BY <1>3 DEF BeginOauth
  <2>1. PICK provider \in Get(providers, id) :
          \E config \in MethodOf(provider, "oauth") : \E result \in Begin(config) :
            Called("begin_oauth", {config}, result)
    BY <2>0
  <2>2. PICK config \in MethodOf(provider, "oauth") : \E result \in Begin(config) :
            Called("begin_oauth", {config}, result)
    BY <2>1
  <2>3. PICK result \in Begin(config) : Called("begin_oauth", {config}, result)
    BY <2>2
  <2>4. /\ config \in OAuthConfig /\ config \in Methods
        /\ result.error \in
             {"loopback", IF KeysOf(config.extra) \cap Reserved = {} THEN "none" ELSE "reserved"}
    BY OauthOfRegistry, BeginSucceeds DEF SetupInv
  <2>5. NothingAddedTwice'
    BY <2>3, <2>4, QueryOfCall
  <2>6. PlainMethods => CollidingKeysDropped'
    BY <2>3, <2>4, PlainOfCall
  <2> QED  BY <2>3, <2>4, <2>5, <2>6
<1>4. CASE BeginHandMade
  <2>1. PICK config \in HandMade : \E result \in Begin(config) : Called("begin", {config}, result)
    BY <1>4 DEF BeginHandMade
  <2>2. PICK result \in Begin(config) : Called("begin", {config}, result)
    BY <2>1
  <2>3. config \in OAuthConfig
    BY HandMadeAssumption
  <2>4. NothingAddedTwice'
    BY <2>2, <2>3, QueryOfCall
  <2> QED  BY <2>2, <2>4 DEF CollidingKeysDropped
<1>5. CASE DiscoverRefused
  BY <1>5 DEF DiscoverRefused, NothingAddedTwice, CollidingKeysDropped
<1>6. CASE BeginDiscovered
  <2>1. PICK fetch \in Fetches :
          \E metadata \in Discover(fetch.issuer, fetch.reply).metadata :
            \E result \in Begin(ToOauthConfig(metadata, "client", <<>>)) :
              Called("discover", {ToOauthConfig(metadata, "client", <<>>)}, result)
    BY <1>6 DEF BeginDiscovered
  <2>2. PICK metadata \in Discover(fetch.issuer, fetch.reply).metadata :
            \E result \in Begin(ToOauthConfig(metadata, "client", <<>>)) :
              Called("discover", {ToOauthConfig(metadata, "client", <<>>)}, result)
    BY <2>1
  <2> DEFINE config == ToOauthConfig(metadata, "client", <<>>)
  <2>3. PICK result \in Begin(config) : Called("discover", {config}, result)
    BY <2>2
  <2>4. /\ OauthOk(config) /\ config.extra = <<>>
        /\ config.redirect_uri \in Option(Option(Urls))
    BY DiscoveredConfig
  <2> HIDE DEF config
  <2>5. result.error \in {"none", "loopback"}
    <3>1. KeysOf(config.extra) = {}
      BY <2>4 DEF KeysOf
    <3> QED
      BY <2>4, <3>1, BeginSucceeds
  <2>6. NothingAddedTwice'
    BY <2>3 DEF NothingAddedTwice
  <2> QED  BY <2>3, <2>4, <2>5, <2>6 DEF CollidingKeysDropped
<1>7. CASE TakeKey
  <2>1. PICK id \in ProviderIds, text \in KeyValues :
          \E provider \in Get(providers, id) : \E config \in MethodOf(provider, "api_key") :
            Called("api_key", {config},
                   [env |-> FromEnv(config, {text}), pasted |-> AcceptKey(config, text)])
    BY <1>7 DEF TakeKey
  <2>2. PICK provider \in Get(providers, id) :
          \E config \in MethodOf(provider, "api_key") :
            Called("api_key", {config},
                   [env |-> FromEnv(config, {text}), pasted |-> AcceptKey(config, text)])
    BY <2>1
  <2>3. PICK config \in MethodOf(provider, "api_key") :
          Called("api_key", {config},
                 [env |-> FromEnv(config, {text}), pasted |-> AcceptKey(config, text)])
    BY <2>2
  <2>4. config.env_var \in BOOLEAN
    BY KeyMethodOfRegistry DEF SetupInv
  <2>5. Trim(text).core = text.core
    BY KeyValuesAssumption DEF KeyTexts, Trim
  <2>6. OnlyPrefixDiffers'
    BY <2>3, <2>4, <2>5, SameKey
  <2> QED  BY <2>3, <2>6 DEF NothingAddedTwice, CollidingKeysDropped
<1>8. CASE AskExpiry
  <2>1. PICK expires_in \in {{}} \cup {{e} : e \in Lifetimes},
             minted \in 0 .. MaxI64, asked \in 0 .. MaxI64 :
          Called("is_expired", {},
            [expires_in |-> expires_in, minted |-> minted, asked |-> asked,
             expired |-> IsExpired(ExpiryFromExpiresIn(expires_in, minted), asked)])
    BY <1>8 DEF AskExpiry
  <2>2. \A e \in expires_in : e \in I64
    BY LifetimesAssumption
  <2>3. asked < MaxI64 => \A e \in expires_in :
          asked >= SaturatingAdd(minted, e) <=> asked >= minted + e
    BY <2>2, SaturatingAddExact
  <2>4. asked < MaxI64 =>
          (IsExpired(ExpiryFromExpiresIn(expires_in, minted), asked)
             <=> \E e \in expires_in : asked >= minted + e)
    BY <2>3 DEF IsExpired, ExpiryFromExpiresIn
  <2>5. ExpiryIsExact'
    BY <2>1, <2>4
  <2> QED  BY <2>1, <2>5 DEF NothingAddedTwice, CollidingKeysDropped
<1> QED  BY <1>1, <1>2, <1>3, <1>4, <1>5, <1>6, <1>7, <1>8 DEF SetupNext, setup

\* The invariant holds in every behaviour.
LEMMA SetupInvariant == SetupSpec => []SetupInv
<1>1. SetupInit => SetupInv
  BY InitRegistry DEF SetupInit, SetupInv, OnlyReservedExtrasStop, DiscoveredIsLoadable,
     NothingAddedTwice, OnlyPrefixDiffers, ExpiryIsExact, CollidingKeysDropped, None
<1> QED  BY <1>1, NextSetup, PTL DEF SetupSpec

\* Whatever files were loaded and merged, a browser sign-in the registry offers can
\* begin, given a port, unless a custom parameter is reserved, and then it cannot.
THEOREM RegistryFlowsStart == SetupSpec => []OnlyReservedExtrasStop
<1>1. SetupInv => OnlyReservedExtrasStop
  BY DEF SetupInv
<1> QED  BY <1>1, SetupInvariant, PTL

\* Whatever an issuer answers, a configuration made from it is one the registry
\* would accept, and can begin.
THEOREM DiscoveryYieldsLoadable == SetupSpec => []DiscoveredIsLoadable
<1>1. SetupInv => DiscoveredIsLoadable
  BY DEF SetupInv
<1> QED  BY <1>1, SetupInvariant, PTL

\* begin adds no parameter that it has added before: whatever scopes, typed fields and
\* custom parameters a configuration has, of each key the protocol's value goes, or
\* else the typed one, or else the first custom one (build_authorize_url).
THEOREM ParametersAreAddedOnce == SetupSpec => []NothingAddedTwice
<1>1. SetupInv => NothingAddedTwice
  BY DEF SetupInv
<1> QED  BY <1>1, SetupInvariant, PTL

\* Where no custom parameter is reserved and no endpoint comes with a query, every
\* loaded flow begins, given a port, and no key is in its URL twice: the promise that
\* fails in general (build_authorize_url).
THEOREM PlainUrlsAreSound == PlainMethods => (SetupSpec => []CollidingKeysDropped)
<1> SUFFICES ASSUME PlainMethods PROVE SetupSpec => []CollidingKeysDropped
  OBVIOUS
<1>1. SetupInv => CollidingKeysDropped
  BY DEF SetupInv
<1> QED  BY <1>1, SetupInvariant, PTL

\* Whatever the text, from_env and accept make the same key of it, but that a paste
\* without the declared prefix is refused.
THEOREM KeysAgree == SetupSpec => []OnlyPrefixDiffers
<1>1. SetupInv => OnlyPrefixDiffers
  BY DEF SetupInv
<1> QED  BY <1>1, SetupInvariant, PTL

\* No expires_in, however large or negative, makes a credential read as expired
\* before its time or as fresh after it (expiry_from_expires_in, is_expired).
THEOREM ExpiryExact == SetupSpec => []ExpiryIsExact
<1>1. SetupInv => ExpiryIsExact
  BY DEF SetupInv
<1> QED  BY <1>1, SetupInvariant, PTL
=============================================================================
