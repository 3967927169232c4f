# oauthkit in TLA+

A verification project for oauthkit, a Rust library that signs a desktop or
command-line application in to OAuth and API-key providers and keeps the
credentials. The modules translate the code under `src/src/`; line numbers
below are of those files (`lib.rs` is `src/src/lib.rs`). `PROJECT.json` maps
every definition to its lines.

- [The system](#the-system): components, state, operations, what is hard
- [The modules](#the-modules): which module models what, and how
- [The runs](#the-runs): what TLC checks, on which bounds
- [The proofs](#the-proofs): what holds for every value of the constants
- [Findings](#findings)
- [What is not modelled](#what-is-not-modelled) and [the plan](#the-plan)

## The system

An application builds an `AuthClient` from a provider registry and a
credential store, and calls it from as many tasks as it likes. A sign-in goes
through one of three flows; each ends in a `Credential` which *the application*
puts into the store. Later it asks the client to refresh what is stored, or
deletes it.

    application tasks ──▶ AuthClient ──▶ Registry   (lookup by id, then by method)
            │                 │
            │                 ├──▶ flows: authorization code │ device code │ API key
            │                 │         └─ shared token path ──HTTP──▶ provider
            │                 └──▶ CredentialStore: MemoryStore │ EncryptedStore
            └───── puts the credential a flow returned ──▶┘

| component | source | state | operations |
|---|---|---|---|
| AuthClient facade | `lib.rs` | none of its own; it owns the registry and the store (a clone of the client clones both) | `begin_oauth`, `begin_device`, `accept_api_key`, `refresh_stored`, `logout` |
| Shared token path | `flow/mod.rs` | none | `post_token_form`, `refresh`, `expiry_from_expires_in`, `oauth_error_detail` |
| Credential | `credentials.rs` | kind, tokens, absolute expiry, label | `is_expired` |
| Device-code flow | `flow/device_code.rs` | locals of one `poll`: deadline, interval | `request`, `poll`, `classify_poll_error` |
| Authorization-code flow | `flow/authorization_code.rs` | `AuthSession`: listener, state, verifier; a blocking task | `begin`, `wait`, `accept_code`, `exchange_code` |
| Encrypted store | `encrypted_store.rs` | a mutex around sealed bytes, the cipher's key | `put`, `get`, `delete`, `providers`, `sealed_len` |
| Memory store | `credentials.rs` | a readers-writer lock around a map | `put`, `get`, `delete`, `providers`, `clone` |
| Registry | `provider.rs`, `rules/providers.toml` | a list of providers | `from_toml` with its validation, `merge`, `get`, `method` |
| Discovery | `discovery.rs` | none | `discover`, `to_oauth_config` |
| API key | `flow/api_key.rs` | none | `accept`, `from_env` |
| PKCE, errors | `pkce.rs`, `error.rs` | none | `generate` |

**Interactions.** Calls go down, results come back; there are no callbacks. The
parts that share something are the callers of one store (through
`refresh_stored`, which suspends at an HTTP exchange between its read and its
write), the threads inside one store (through its lock), and the sign-ins of
one machine (through loopback ports and browser tabs). A configuration travels
from a file, a discovery document or the application's own hands through
validation and merges to `begin`, and each stop judges it by rules of its own.
Providers, users and browsers act whenever they please.

**What is hard.** `refresh_stored` reads, awaits and writes: every interleaving
with another refresh, a sign-in or a logout is possible, the provider may
consume the refresh token and the answer get lost, the final `put` may fail, or
the caller may drop the future. `poll` juggles three clocks (the application's
`max_wait`, the code's own lifetime, the interval the server asks for and
raises), each of which a server may state as zero or negative. `wait` runs in a
blocking task that outlives a caller who drops it, on a port that old tabs,
favicons and probes reach as well. `EncryptedStore` seals before its lock and
opens after it; `MemoryStore` lets readers walk its map side by side, and copies
it when it is cloned. `merge` changes a validated registry and validates nothing.
Expiry is a sum of the clock with any `i64` a provider sends.

**What makes each part correct.**

- *AuthClient*: the stored refresh token is one its provider honours, or it is
  known why not; a refresh never costs a session its refresh token; calls that
  do not overlap act on one session in order; every refresh returns.
- *Token path*: what the provider said is what the caller is told; blank tokens
  are never taken for tokens; the expiry is neither wrapped nor off by one.
- *Device code*: the wait is as long as it must be and no longer; a decision is
  reported as what it was; a grant is never thrown away; the server's interval
  is respected.
- *Authorization code*: a session redeems its own code only, and takes no other
  session's or program's denial for its own; the redirect URI leads to the
  session's listener; a wait ends, and its port is given back.
- *Stores*: one map, to every thread, whose operations take effect one at a
  time; nothing unsealed in the encrypted one; a poisoned lock is reported.
- *Registry and discovery*: whatever was loaded, merged or discovered, ids are
  unique and every flow is one that validation would accept; `begin` can begin it
  unless a custom parameter is reserved; the document merged last has its way.
- *Authorize URL*: no parameter added twice, none of the protocol's in the
  application's hands.
- *API key*: the environment and a paste of the same text give the same key, where
  the paste's prefix check lets it pass.

## The modules

    TokenPath ◀── AuthClient ──implements──▶ CredentialLifecycle
        ▲   ▲         ▲── MCAuthClient
        │   │         └── AuthClientProofs ◀── AuthClientTokens
        │   └── DeviceCode ◀── MCDeviceCode, DeviceCodeProofs
        └────── AuthorizationCode ◀── MCAuthorizationCode, AuthorizationCodeProofs
    EncryptedStore ──implements──▶ CredentialMap ◀──implements── MemoryStore
        ▲── MCEncryptedStore, EncryptedStoreProofs                   ▲
                                       MCMemoryStore, MemoryStoreProofs
    Endpoints ◀── Registry ◀── AuthorizeUrl, Discovery ◀── SignInSetup
        ▲── ApiKey, CredentialExpiry ◀─────────────────────────┘ ▲
                              MCSignInSetup, SignInSetupProofs ──┘

An arrow `A ◀── B` reads "B extends A".

Operators that a comment calls *mutants* are deliberate mistakes in the
definition that follows them (a dropped guard, a missing reset). They are not
part of any specification; `PROJECT.json` says which property notices which.

### TokenPath

`PostTokenForm` is `post_token_form` with `oauth_error_detail`: one HTTP exchange
becomes a credential (`ok`) or one of the errors `http`, `authorization` (with
the OAuth error code) and `malformed`, in the order of the code. A body is what
the code tells apart: whether it parses as a token response, whether its
required fields are blank, whether it has an `error` code, and the status class
it came under. Tokens are numbers in the order they were minted; `NoToken` and
`Blank` are the missing and the empty one.

### AuthClient (with CredentialLifecycle)

| TLA+ | code |
|---|---|
| `store` | the map behind the `CredentialStore`; each operation on it is atomic, as both stores make it |
| `call[c]` | the stack of one caller: idle, `waiting` at the await of `refresh_stored` with the credential it has read, or `holding` a credential a flow returned |
| `exchange[x]` | one refresh request, which lives on after its caller has gone |
| `live[p]`, `issued` | the provider: refresh tokens it honours, tokens minted (external) |
| `session`, `newest` | history, read by properties and the refinement only |

`SignInRejected/Granted/Stored/Unsaved` are the `begin_*` and `accept_api_key`
lookups, the flow's outcome and the application's `put`. `RefreshRejected` and
`RefreshSend` are `refresh_stored` up to its await (lookups in the code's order);
`RefreshStored`, `RefreshUnsaved`, `RefreshFailed`, `RefreshTimeout` and
`RefreshDropped` are the ways it goes on: merge and put, a failing put, an error,
the HTTP client's timeout, a dropped future. `Logout` is `logout`. The provider
rotates (`ServerRotates`: the token shown is dead, a new one is minted), keeps
(`ServerKeeps`: it omits, blanks or repeats it) or refuses; the constants
`Rotates` and `Keeps` say which providers do what. `Serialized` models an
application that runs one call per provider at a time.

`CredentialLifecycle` is the abstract promise: per provider at most one session,
begun by a sign-in, renewed by refreshes that only go forward, ended by a
sign-out or the next sign-in. With serialized calls `AuthClient` implements it
(`LifecycleSpec`); without, it does not (see Findings).

### DeviceCode

One sign-in: `request` (`ServerIssues`, `RequestOk`, `RequestFailed`) and `poll`
(`PollStart`, `PollUnstarted`, `PollSend`, `PollAnswered`, `PollFailed`,
`PollDropped`), with a clock in seconds. `deadline`, `interval` and `wake` are
`poll`'s locals. `Loop` is the head of its loop (out of time, or a sleep of the
shorter of the interval and what is left); `Receive` is the `match` on the
outcome, by way of `PostTokenForm` and `Classify`. The user decides at any time
while the code lives; the server answers an exchange according to the decision,
may ask to slow down, may fail, or may say nothing. Code between two awaits
takes no time, a sleep ends when it is due, the clock is monotone. `InstantMax` is
the last instant the platform can represent: `PollPanics` is `poll` on a deadline
past it.

### AuthorizationCode

Several sign-ins on one machine. `BeginOk` binds the listener, in the first family
for the configured host or in the other one, and names it in the redirect URI;
either family may refuse, for a sign-in that has the port or for some other
program, and `BeginFailed` is both refusing. `WaitStart` is the blocking task with its
deadline; `AcceptStray`, `AcceptError`, `AcceptMismatch` and `AcceptCode` are the
branches of the accept loop and `accept_code`; `WaitTimeout` and `WaitBroken` end
it; `Exchange` redeems the code. `SessionDropped` and `WaitDropped` are callers
that leave; a dropped `wait` leaves its task and listener behind, as
`spawn_blocking` does. Users approve or deny, which makes a browser tab that can
be loaded any number of times and reaches whoever listens on its address by
then. Other programs reach it as well (`Probe`): they send whatever `LocalRequests`
lets them, codes and errors included; only a code or an error with the listening
session's own state is beyond them, because that state is random. State, verifier
and code of a session are the session itself: no two sessions share one.

### EncryptedStore (with CredentialMap)

Threads run the five operations; a section under the mutex is one step, sealing
before it and opening after it are steps of their own. Sealed bytes are the key
and the credential: opening under another key fails (cryptography is symbolic,
nonces are left out). `Poison` is a panic in the hands of the lock; `put`, `get`,
`delete` and `providers` then fail, `sealed_len` recovers the guard, as the code
does.

`CredentialMap` is the promise of the `CredentialStore` trait: every operation
takes effect at one instant between call and return, a read returns what the map
held at that instant, and a clone of the store is a snapshot of the whole map.
The refinement mapping opens the sealed map, and shows a thread that has cloned
bytes as one whose answer is settled already.

### MemoryStore

Threads under one `RwLock` (`Turn`: one writer, or any number of readers, in any
order). A write is entered (`WriteEnter`) and done (`Write`) or ends in a panic
that poisons the lock (`WritePanics`); a read walks the map entry by entry
(`ReadEnter`, `ReadEntry`, `ReadDone`), so that several walks overlap and a writer let
in among them would show. `put`, `get`, `delete` and `providers` fail on a poisoned
lock (`LockPoisoned`); `clone` recovers the guard and copies what is there. The
refinement mapping shows a reader as one whose answer is settled: what it has
found, and what it is still to find.

### SignInSetup (with Endpoints, Registry, AuthorizeUrl, Discovery, ApiKey, CredentialExpiry)

The operations that only compute: what happens before anyone waits for anything,
and the question whether a credential has expired. A text is what it parses to: a
URL is its scheme, host, port as written and the keys of its query, and an
optional value is a set of at most one.

| TLA+ | code |
|---|---|
| `Endpoints`: `ValidUrl`, `ValidRedirect`, `Port`, `HostStr` | `validate_url`, `validate_loopback_redirect_uri`, and the `url` crate's `port()` and `host_str()` they call (external) |
| `Registry`: `providers`, `FromToml`, `Valid`, `Get`, `MethodOf` | the registry's list, `from_toml`, `validate`, `get`, the methods' accessors |
| `Registry`: `MergeBegin`, `MergeNext`, with `other` and `at` | `merge`, one step per turn of its loop; no lookup comes between the turns |
| `AuthorizeUrl`: `BuildAuthorizeUrl`, a left fold of `AddExtra` | `build_authorize_url` |
| `Discovery`: `Discover`, `ToOauthConfig` | `discover`, `to_oauth_config` |
| `ApiKey`: `AcceptKey`, `FromEnv` | `accept`, `from_env` |
| `CredentialExpiry`: `SaturatingAdd`, `ExpiryFromExpiresIn`, `IsExpired` | `expiry_from_expires_in`, `is_expired`, on integers of a given width |
| `SignInSetup`: `BeginOauth`, `BeginRefused`, `BeginHandMade`, `BeginDiscovered`, `DiscoverRefused`, `TakeKey`, `AskExpiry` | `begin_oauth` and `begin` on a configuration of each origin, `discover`, `accept_api_key` and `api_key_from_env`, `is_expired` on a token minted earlier |

The operations are pure, so a behaviour makes one call and keeps its arguments
and results in `call`; the registry, which is not, is loaded and merged any
number of times before.

## The runs

Every bound is a constant of a module and has its value in the `.cfg`.

| run | asks | bounds |
|---|---|---|
| `AuthClient_concurrent` | under any interleaving with a rotating provider: is a dead stored token always explained (`TokenDeathExplained`), does every refresh return (`RefreshReturns`)? | 2 callers, 1 provider with OAuth and API keys, 2 refresh requests, 3 grants |
| `AuthClient_serialized` | one call per provider at a time: does the store implement a session's lifecycle (`LifecycleSpec`), even with a provider that rotates and keeps at will (`TokenDeathExplainedSerialized`), and is what a refresh writes refreshable (`RefreshStaysRefreshable`)? | 2 callers, 2 providers, 2 requests, 3 grants; callers and requests symmetric |
| `AuthClient_logout`, `AuthClient_device` | violations, see Findings | 2 callers, 1 provider, 2 requests, 2 grants |
| `DeviceCode` | is the wait bounded (`BoundedWait`) and long enough (`TimeoutIsEarned`), are grants and decisions reported (`GrantReturned`, `DecisionReported`), is the server's interval kept (`EarlyPollOnlyAtDeadline`), can no server make `poll` panic (`PanicIsOwn`), does `poll` return (`PollReturns`)? | every combination of stated expiry {omitted, -1, 0, 3, 6, 30}, interval {omitted, -1, 1, 4} and `max_wait` {0, 3, 5, 8, 30}; last instant 20 |
| `AuthorizationCode` | two sign-ins, one with a `loopback_port`, one with a registered redirect that may be given the same port: only own codes (`OwnCodeOnly`), only own denials (`DenialIsOwn`), success means approval (`SignedInMeansApproved`), waits are bounded (`WaitIsBounded`), redirects reach their listener (`LoopbackReachable`), ports are owned and released (`ListenersOwned`, `PortReleased`)? | 2 sessions, 1 port, 2 families, timeouts 2 and 12 (past the last instant, 9), waits that start at 0 or 1, 2 requests; 6 kinds of local request: a favicon, a probe with no state or with one, a bare error, a bare code, another session's redirect |
| `AuthorizationCode_probe`, `AuthorizationCode_forever` | violations, see Findings | 2 sessions, 1 port, 1 family; the only local request is a bare error |
| `SignInSetup` | do merges keep the registry valid (`WellFormed`) and overlay it (`MergeIsOverlay`), can a loaded or discovered flow begin (`OnlyReservedExtrasStop`, `DiscoveredIsLoadable`), does `begin` add each parameter once (`NothingAddedTwice`), do the two ways to a key agree but for the prefix (`OnlyPrefixDiffers`), is `is_expired` exact for every lifetime (`ExpiryIsExact`)? | documents of up to 2 providers, whose ids may be the same or blank, chains of merges of any length; 9 texts of a URL in each field, up to 2 custom parameters, 6 issuers, every combination of a document's defects; 6 key texts, with and without a prefix and a declared variable; 5-bit integers, all 32 lifetimes and none, every two readings of the clock |
| `SignInSetup_extras` | violation, see Findings | the same |
| `EncryptedStore` | does the store implement the map (`MapSpec`), with nothing unsealed in it (`TypeOK`)? | 2 threads, 2 providers, 2 secrets, 2 keys, all symmetric |
| `MemoryStore` | does the store implement the map, `clone` and overlapping readers included (`MapSpec`), and file each credential under its provider (`TypeOK`)? | 3 threads, 2 providers, 2 secrets, all symmetric |

**Why the bounds are enough to see the cases.** Two callers and two requests are what
a race needs: two refreshes of one token, or one with a sign-in or a logout inside
its await. Three grants allow a sign-in, a rotation and another rotation (or a second
sign-in) behind it, the shortest history in which an old token could be written over
a newer one. In `DeviceCode` durations are scaled down but keep their order:
intervals below and above the budget, expiries below and above `max_wait`, an HTTP
timeout as long as the default interval, so that answers come before, at and after a
deadline, and a `slow_down` may push the next poll past it. Two sessions on one port
are an old tab and its victim; a timeout of two lets a stray arrive in mid-wait,
where a receive begun anew with the whole timeout would pass the deadline; two
requests are a stray and the redirect; one port is what they fight for, and a
redirect configured with port 0 may be given it or not. In `DeviceCode` and
`AuthorizationCode` the last representable instant lies within reach of some timeouts
and out of reach of others. Two threads and one mutex show every order of a clone, an
insert and an open; three under the readers-writer lock are two overlapping readers
and a writer, and two entries are a map that a walk can see in halves. In
`SignInSetup` each field of a configuration takes every kind of text the code tells
apart while the others are sound, two providers are enough to replace one and append
one, in either order, and two custom parameters to collide with each other, with a
typed field and with the protocol. Five bits have every case of the sum: below,
inside and above the range.

**Fairness.** Only what the code schedules itself is fair. `RefreshTimeout` and
`PollFailed`: the HTTP client is built with a 30 s timeout (`flow/mod.rs`).
`PollSend`, `Tick`: tokio's timer wakes a sleep that is due, and time passes.
`WaitTimeout`: `recv_timeout` returns when its time is over. `Exchange` covers
the HTTP timeout of the code exchange. Servers, users, browsers and callers are
never fair: a provider may stay silent for ever.

**Deadlock** is not checked in `DeviceCode`, `AuthorizationCode` and `SignInSetup`: a
sign-in ends (`phase = "done"`, or one call made), and the bounded world then has
nothing left to do. It is checked everywhere else.

**Abstractions to keep in mind.** Clocks are monotone and sleeps exact. HTTP is
one reply that arrives, arrives late or does not. Wording of errors, pages and
logs is left out. The blocking task of `wait` starts as soon as `wait` is called
(tokio's pool is never full). A `RwLock` may hold readers back for a waiting writer,
which only takes behaviours away from those of `Turn`.

## The proofs

The TLA+ proof system checks these for *every* value of the constants that
satisfies the modules' assumptions, so for any number of callers, providers,
threads, sessions, ports, requests, grants and documents, and for any durations.

| theorem | module | says |
|---|---|---|
| `TypeCorrect` | `AuthClientProofs` | `Spec => []TypeOK` |
| `StoredTokenDeathExplained` | `AuthClientTokens` | `Spec => []TokenDeathExplained` |
| `RefreshedIsRefreshable` | `AuthClientTokens` | `Spec => RefreshStaysRefreshable` |
| `SerializedTokenDeathExplained` | `AuthClientTokens` | `Spec => []TokenDeathExplainedSerialized` |
| `LifecycleImplemented` | `AuthClientTokens` | `Serialized => (Spec => LifecycleSpec)`: with serialized calls the facade refines the lifecycle |
| `StoreTypeCorrect` | `EncryptedStoreProofs` | `Spec => []TypeOK` of the encrypted store |
| `MapImplemented` | `EncryptedStoreProofs` | `Spec => MapSpec`: the encrypted store refines the map |
| `MemoryTypeCorrect` | `MemoryStoreProofs` | `Spec => []TypeOK` of the memory store |
| `MemoryMapImplemented` | `MemoryStoreProofs` | `Spec => MapSpec`: the memory store refines the map, clones included |
| `DeviceTypeCorrect`, `WaitIsBounded`, `TimeoutEarned`, `GrantIsReturned`, `PanicIsTheCallers`, `DecisionIsReported` | `DeviceCodeProofs` | `Spec => []P` for `TypeOK`, `BoundedWait`, `TimeoutIsEarned`, `GrantReturned`, `PanicIsOwn`, `DecisionReported` |
| `PollsKeepTheInterval` | `DeviceCodeProofs` | `Spec => EarlyPollOnlyAtDeadline` |
| `SignInTypeCorrect`, `CodesAreNotMixed`, `SignInsAreApproved`, `DenialsAreOwn`, `WaitsAreBounded`, `ListenersAreOwned`, `LoopbackIsReachable` | `AuthorizationCodeProofs` | `Spec => []P` for `TypeOK`, `OwnCodeOnly`, `SignedInMeansApproved`, `DenialIsOwn`, `WaitIsBounded`, `ListenersOwned`, `LoopbackReachable` |
| `RegistryTypeCorrect`, `MergedIsWellFormed`, `MergeOverlays` | `SignInSetupProofs` | `SetupSpec => []P` for `TypeOK`, `WellFormed`, `MergeIsOverlay` |
| `RegistryFlowsStart`, `DiscoveryYieldsLoadable` | `SignInSetupProofs` | `SetupSpec => []P` for `OnlyReservedExtrasStop`, `DiscoveredIsLoadable` |
| `ParametersAreAddedOnce`, `KeysAgree`, `ExpiryExact` | `SignInSetupProofs` | `SetupSpec => []P` for `NothingAddedTwice`, `OnlyPrefixDiffers`, `ExpiryIsExact` |

Six more say where a promise holds that the code breaks in general (see
[Findings](#findings)). Each has a premise on the constants, which the run of the
finding, where there is one, does not meet:

| theorem | module | premise | then |
|---|---|---|---|
| `SerializedSignOutLasts` | `AuthClientTokens` | `Serialized`: one call per provider at a time | `Spec => SignedOutUntilSignIn` |
| `ServedWhereDeclared` | `AuthClientProofs` | `DeviceFlowsRefresh`: whoever declares a device flow declares an OAuth flow | `Spec => RefreshableIsServed` |
| `WaitsBlock` | `AuthorizationCodeProofs` | `DeadlinesExist`: no deadline of a wait lies past the last instant | `Spec => WaitBlocks` |
| `MismatchesAreExplained` | `AuthorizationCodeProofs` | `QuietMachine`: no other program sends a code or an error | `Spec => []NoLocalAbort` |
| `PlainUrlsAreSound` | `SignInSetupProofs` | `PlainMethods`: no custom parameter is reserved, no authorize URL comes with a query | `SetupSpec => []CollidingKeysDropped` |
| `RegisteredIsReachable` | `AuthorizationCodeProofs` | `HostsReachAll`: every registered redirect names a host that each family of the machine answers to | `Spec => []FixedReachable` |

**Assumptions.** `AuthClient`: each provider declares some of the three methods, the
policies name providers, the bounds are natural numbers, `None` is no provider and no
request. `EncryptedStore`: `None` is neither a provider nor bytes; `MemoryStore`:
`None` is no provider. `DeviceCode`: what servers state are integers, the code's own
durations natural numbers, the default interval and the HTTP timeout not zero.
`AuthorizationCode`: a configuration for every session, the families are among the
two, port 0 is no port, times are natural numbers, local requests are requests,
`None` is no session. `SignInSetup`: files, methods, configurations and documents
have the fields the code parses into. `CredentialExpiry`: `MinI64 <= -MaxI64`,
lifetimes are in range. TLC evaluates each of them in the runs.

**AuthClient.** `TypeOK` is not inductive: that a finished refresh writes a
well-formed credential depends on what its reply may be. `CallsOK` adds that a
waiting caller's request carries the refresh token it has read, for its
provider (`WaitingOK`), and that a caller holding a credential holds one a flow
made (`HoldingOK`).

`TokenDeathExplained` speaks of the token in the store only, but the token may
have come from a rotation whose result was still on its way, or from a sign-in
in a caller's hands. `TokensOK` follows a token from its minting: nothing is
ahead of the counter (`MintedOK`); a token that has not reached the store is
live and was shown to nobody (`FreshOK`), and no two of those are the same
(`ApartOK`); a token the store has held is live or was rotated (`KnownOK`); and
a token whose replacement was stored is never in the store again
(`ReplacedOK`). The last is what fails for a provider that both rotates and
keeps: an answer that repeats a token can be overtaken by one that rotates it.
Hence the premise of the property, and the separate one for serialized calls.

`RefreshStaysRefreshable` is an action property: by `WaitingOK` the credential
read had a refresh token, and `Merge` falls back on it.

*Calls in sequence.* With `Serialized`, a caller that is busy with a provider is
the only one (`AloneOK`), though requests of callers that have left may still be
answered. So what a caller read before its await is what the store holds after it
(`CurrentOK`), and the rest of `SerialOK` follows: what will be put is newer than
everything that was (`OrderOK`); a sign-in has a session of its own, and an answer
belongs to the session of the token it was shown (`SessionOK`); a token whose
replacement was stored is not in the store (`ConsumedOK`, which is `ReplacedOK`
without its premise on the provider: an answer that repeats a token repeats the one
that is stored). In the refinement `SignInStored` is the lifecycle's sign-in,
`RefreshStored` its renewal, a `Logout` that deletes its sign-out, and every other
step a stutter: a grant writes `session` at a number no stored credential has.
`SerializedSignOutLasts` is `CurrentOK` once more: a refresh under way has read a
credential, so the store holds one.

`ServedWhereDeclared` follows each refresh token from the method that minted it:
whoever holds, stores or shows one has it from a provider that refreshes
(`ServedOK`).

**EncryptedStore.** The refinement mapping opens bytes, and opening succeeds
only under the key they were sealed under. `StoreOK` says that bytes anywhere
(in the map, carried to the lock by a `put`, carried from it by a `get`) are
sealed under the store's key for the provider they are filed under, and what an
operation carries in each phase. With it, `StoreStep` maps each action to the
abstract operation or to a stutter: a `put` takes effect when it inserts, a
`get` when it clones; sealing is a stutter.

**MemoryStore.** A walk sees the map entry by entry, and the promise is one
instant. `Exclusion` says that a writer inside the lock is alone there; so no entry
changes while a reader is inside, and what a walk will have found at its end is
settled when it begins. `StoreOK` adds the shape of the operations in progress,
and that a thread that panicked leaves the lock poisoned. `StoreStep` maps a
read to the abstract operation at `ReadEnter`, a write at `Write`, and every other
step inside the lock to a stutter.

**DeviceCode.** Each phase knows something about the clocks (`TimeOK`): a sleep
ends by the deadline, and either at it or after the interval; the interval is at
least what the server has asked for, counting a `slow_down` that is still on its
way; an exchange was sent by the deadline and is no older than the HTTP timeout.
`AnswerOK` says that the answer on its way is one the server had reason to give,
`GrantOK` that a grant is on its way until `poll` is over. The properties follow,
because `Receive` maps each answer to one outcome (`Received`).

**AuthorizationCode.** `BindingOK` ties listeners to sessions: who listens where, and
that the redirect names that port, and that host when `begin` chose it. `BrowserOK`
follows the requests: a code in a tab comes with the state of its own session and was
approved, an error with that of a session its user denied or with none (`Genuine`),
and what lies in a session's inbox is noise, another program's without the session's
state, or a redirect of a tab to its port (`Arrived`); what has not been begun or is
over has an empty inbox. With the check of the state in `accept_code`, `CodeOK`
follows: a code kept is the session's own and approved. By the same check an error
that is taken for a denial is the session's own (`DenialsAreOwn`). `ClockOK` says
that no receive ends after the deadline. For `RegisteredIsReachable`, `LedOK` says
that the family of a listener is one its redirect's host leads to; only `begin` opens
listeners or names redirects (`OnlyBeginBinds`). For `WaitsBlock`, a session in the
application's hands has been told nothing (`HeldOK`), and `WaitStart` can tell it
nothing but a panic. For `MismatchesAreExplained`, on a quiet machine nothing but a
tab's redirect in an inbox has a code or an error.

**SignInSetup.** `RegistryInv` carries the merge: the registry, what it was before
and what is merged into it are each valid, and `Overlaid` says how far the loop has
come. Since an id is found where it stands or nowhere, replacing or appending keeps
ids unique (`MergeNextRegistry`); at the end of the loop `Overlaid` gives the
precedence of the merged document. That nothing but a reserved
parameter stops a loaded flow is then a matter of `ValidRedirect` and `ValidUrl` being
as strict as what `begin` asks for.

`NothingAddedTwice` is about the loop of `build_authorize_url`, a left fold. The
provers cannot instantiate the library's induction theorem, so `Induction` derives
it for sets of numbers from the well-foundedness of `<`: the least number that is
missing has a predecessor that is not. With it `FoldTurns` unfolds the fold into its
turns: it starts with what is established, and each turn is one `AddExtra`.
`EstablishedOnce` gives the base case (the protocol's keys and the typed fields that
are set, each once), `QueryTurn` the step: a key that is there is not added again,
one that is not is, so that after `i` turns no key is there twice and each of the
first `i` custom parameters is there unless its key was taken. `PlainUrlsAreSound`
follows where the configured URL brings no key along. `OnlyPrefixDiffers` is that both
paths trim once and refuse what is then empty. For `ExpiryIsExact`, no clock reading
below the last can tell the saturated sum from the true one.

**Only model-checked.** Liveness (`RefreshReturns`, `PollReturns`, `PortReleased`):
fairness and `ENABLED` are beyond the prover. Every invariant, action property and
refinement of the passing runs has its theorem. No module uses a recursive operator.

## Findings

Each has a run in which TLC finds the counterexample.

1. **Sign-out undone by a refresh** (`AuthClient_logout`, `SignedOutUntilSignIn`).
   `refresh_stored` reads the credential (lib.rs:178), awaits the provider, and
   puts the refreshed credential (lib.rs:205) without looking whether the user
   has signed out meanwhile; the credential is back. The same late put can
   replace a newer sign-in. An application that runs one call per provider at a
   time is not affected (`SerializedSignOutLasts`).
2. **Device-code credentials cannot be refreshed** (`AuthClient_device`,
   `RefreshableIsServed`). `refresh_stored` requires an `oauth` method
   (lib.rs:174); a provider that declares a device flow only is answered
   `UnsupportedMethod`, whatever refresh token its credential has. A provider that
   declares an OAuth flow beside it is served (`ServedWhereDeclared`).
3. **A timeout that means "for ever"** (`AuthorizationCode_forever`, `WaitBlocks`).
   `Instant::now() + timeout` panics in the blocking task
   (authorization_code.rs:300), so `wait` fails at once with a loopback error. No
   other timeout does that (`WaitsBlock`).
4. **Any local program can end a wait** (`AuthorizationCode_probe`, `NoLocalAbort`).
   A request to the callback path with `?error=` or `?code=` and no state, or a wrong
   one, ends the wait with `StateMismatch` (authorization_code.rs:352, 366).
   CHANGELOG.md:10 says that the state an error must carry prevents "unauthenticated
   local session aborts", and the comment at line 370 that any local process's noise
   is ignored "rather than letting it abort the sign-in". What the check does achieve
   is that such a request is not taken for a denial (`DenialIsOwn`) and that nothing
   but the session's own code is redeemed (`OwnCodeOnly`); a machine whose programs
   send neither codes nor errors is not affected (`MismatchesAreExplained`). The
   repository's tests expect the `StateMismatch` (tests.rs:576, 613), so it is the
   documents that promise too much.
5. **Colliding keys are not dropped** (`SignInSetup_extras`, `CollidingKeysDropped`).
   A custom parameter named like one of the protocol's is an error of `begin`
   (authorization_code.rs:222), as CHANGELOG.md:34 has it; provider.rs:89 and
   SPEC.md:33 say that it is dropped. Validation accepts such a document, so a loaded
   flow can never begin, though `validate` promises that no user is routed into "a
   half-defined flow" (provider.rs:243). The property has a second half: the URL has
   each key once, which CHANGELOG.md:78 and authorization_code.rs:204 promise. A query
   that the configured `authorize_url` already has is not looked at, so a
   `?prompt=login` there and the typed `prompt` give the key twice (TLC finds this one
   as well once no document has a reserved parameter). Without either the flows begin,
   and each key is there once (`PlainUrlsAreSound`).

**Where code and comments differ in the small.** Each of these is a line that a
reader of the models meets; none has a run of its own.

- `validate_url` lists `"::1"` among the hosts that may use plain http, but a parsed
  IPv6 host has brackets (`HostStr`), so `http://[::1]` is refused.
- A registered redirect to `http://localhost:80/` is refused for having no port,
  because `port()` leaves out the default one (`Port`).
- For a registered redirect to 127.0.0.1, a listener that cannot bind 127.0.0.1 binds
  ::1 and the redirect URI keeps its host (authorization_code.rs:148), so `begin`
  succeeds and the browser reaches nobody; line 135 says that the fallback is there
  "so the flow works on single-family hosts". `FixedReachable` says what is missing,
  `RegisteredIsReachable` where it holds: for a redirect registered under `localhost`,
  or under the only family of the machine.
- `scope` is reserved even when no scope is sent (`Reserved`). CHANGELOG.md:26 counts
  `audience`, `prompt` and `login_hint` among the reserved keys; the code drops them
  when the typed field is set and sends them when it is not.
- `accept` looks at the declared prefix, `from_env` does not: a key without it is
  returned from the environment and refused as a paste (`OnlyPrefixDiffers`).
- `begin`'s error for a redirect without a host cannot occur: an http URL has one.

**Behaviour worth knowing that no document contradicts.** `poll` may be in its
last HTTP exchange when `max_wait` is over and so return up to 30 s later
(`BoundedWait` says exactly that); the last poll may come earlier than the
interval (`EarlyPollOnlyAtDeadline`); a refresh that overlaps a sign-in may put the
old session over the new one; the page says SIGNED IN before the code is redeemed, and
only what `wait` returns tells how that went; a clone of a
`MemoryStore`, and so of a client over it, is a copy: each refreshes apart from the
other from then on.

## What is not modelled

- *Randomness and hashing* (`pkce.rs`), *TLS, URL parsing and form encoding*: data
  that the properties do not look into. State, verifier and code enter as the
  identity of their session, URLs as what they parse to.
- *Account labels*: the application attaches them, and a refresh builds the
  credential anew without one; the credentials of `AuthClient` carry none.
- *A `Registry` deserialized past `from_toml`*: it derives `Deserialize`, and such a
  registry is not validated. `BeginHandMade` covers what `begin` does with its
  configurations.
- *The read-only accessors* of `AuthClient` and `Registry` that neither a flow nor a
  property needs.
- *Poisoning* has one cause, a panic in the locked section, taken to leave the
  map as it was.
- *Several devices or several `poll`s* of one device authorization: a call of `poll`
  shares nothing with another.

## The plan

Every component that keeps state or decides anything is modelled, and every safety
property is proved. What is left: account labels through a refresh, should the code
come to promise something about them.

The runs are kept few: a new question about a component joins the component's
run wherever its bounds allow.
