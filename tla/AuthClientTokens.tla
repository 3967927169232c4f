--------------------------- MODULE AuthClientTokens ---------------------------
(***************************************************************************)
(* Why a dead refresh token in the store is always explained.  A token the *)
(* store has never held (minted by a sign-in still in a caller's hands, or *)
(* by a rotation whose result is still on its way) is unused: it is live   *)
(* and no request has shown it.  Every token the store has held is live or *)
(* was rotated; and one whose rotation was stored cannot come back,        *)
(* because what is put is either unused or, with a provider that keeps     *)
(* tokens, was never rotated.  Then what holds of an application that      *)
(* runs its calls in sequence, up to the lifecycle of its credentials.     *)
(***************************************************************************)
EXTENDS AuthClientProofs

ReplyFits(x) ==
  /\ exchange[x].answer # "pending" => exchange[x].provider \in Providers
  /\ exchange[x].provider \in Providers => exchange[x].token \in Grants
  /\ exchange[x].stored => exchange[x].answer # "pending"
  /\ exchange[x].answer = "rotated" =>
       /\ exchange[x].provider \in Rotates
       /\ \E n \in Grants : exchange[x].reply = Granted(n, n)
  /\ exchange[x].answer = "kept" =>
       /\ exchange[x].provider \in Keeps
       /\ \E n \in Grants, r \in {NoToken, Blank, exchange[x].token} :
            exchange[x].reply = Granted(n, r)
  /\ exchange[x].answer = "refused" => exchange[x].reply \in Refusals

ReplyOK == \A x \in Exchanges : ReplyFits(x)

\* No token is ahead of the counter.
MintedOK ==
  /\ \A p \in Providers : store[p].refresh <= issued /\ live[p] \subseteq 1 .. issued
  /\ \A c \in Callers : call[c].cred.refresh <= issued
  /\ \A x \in Exchanges : /\ exchange[x].token <= issued
                          /\ exchange[x].answer = "rotated" =>
                               exchange[x].reply.refresh <= issued

Holds(c)  == call[c].phase = "holding" /\ Refreshable(call[c].cred)
Awaits(x) == exchange[x].answer = "rotated" /\ ~exchange[x].stored

Unused(p, token) ==
  /\ token \in live[p]
  /\ \A x \in Exchanges : exchange[x].token # token
  /\ \A q \in Providers : store[q].refresh # token

FreshOK ==
  /\ \A c \in Callers : Holds(c) => Unused(call[c].provider, call[c].cred.refresh)
  /\ \A x \in Exchanges :
       Awaits(x) => Unused(exchange[x].provider, exchange[x].reply.refresh)

ApartOK ==
  /\ \A c, d \in Callers :
       Holds(c) /\ Holds(d) /\ c # d => call[c].cred.refresh # call[d].cred.refresh
  /\ \A x, y \in Exchanges :
       Awaits(x) /\ Awaits(y) /\ x # y => exchange[x].reply.refresh # exchange[y].reply.refresh
  /\ \A c \in Callers, x \in Exchanges :
       Holds(c) /\ Awaits(x) => call[c].cred.refresh # exchange[x].reply.refresh

Rotated(p, token) ==
  \E x \in Exchanges : /\ exchange[x].provider = p
                       /\ exchange[x].token = token
                       /\ exchange[x].answer = "rotated"

KnownOK ==
  /\ \A p \in Providers : Refreshable(store[p]) =>
       store[p].refresh \in live[p] \/ Rotated(p, store[p].refresh)
  /\ \A x \in Exchanges : exchange[x].provider \in Providers =>
       \/ exchange[x].token \in live[exchange[x].provider]
       \/ Rotated(exchange[x].provider, exchange[x].token)

ReplacedOK ==
  \A x \in Exchanges :
    exchange[x].answer = "rotated" /\ exchange[x].stored
      /\ exchange[x].provider \notin Rotates \cap Keeps
    => store[exchange[x].provider].refresh # exchange[x].token

TokensOK == ReplyOK /\ MintedOK /\ FreshOK /\ ApartOK /\ KnownOK /\ ReplacedOK

-----------------------------------------------------------------------------
(* What the conjuncts say about the credentials that get stored. *)

\* The refresh token of a stored credential, or none.
LEMMA RefreshTokenTyped ==
  ASSUME CallsOK
  PROVE  /\ \A p \in Providers : store[p].refresh \in Grants \cup {NoToken}
         /\ \A c \in Callers : call[c].cred.refresh \in Grants \cup {NoToken}
         /\ \A x \in Exchanges : exchange[x].token \in Grants \cup {NoToken}
         /\ \A p \in Providers : live[p] \subseteq Grants
BY CredentialFields DEF CallsOK, TypeOK, Calls, Requests

\* A successful refresh carries the token of a rotation, or the one it showed.
LEMMA RefreshedToken ==
  ASSUME CallsOK, ReplyOK, NEW c \in Callers, Answered(c), Result(c).ok
  PROVE  LET x     == call[c].exchange
             token == Merge(call[c].cred, Result(c)).refresh
         IN  \/ exchange[x].answer = "rotated" /\ token = exchange[x].reply.refresh
                /\ token \in Grants
             \/ exchange[x].answer = "kept" /\ token = exchange[x].token
                /\ token \in Grants
<1> DEFINE x == call[c].exchange
<1>1. /\ call[c].phase = "waiting"
      /\ x \in Exchanges
      /\ exchange[x].provider \in Providers
      /\ exchange[x].token = call[c].cred.refresh
      /\ exchange[x].token \in Grants
  BY DEF Answered, CallsOK, WaitingOK, ReplyOK, ReplyFits
<1>2. exchange[x].answer \in {"rotated", "kept", "refused"}
  BY <1>1 DEF Answered, CallsOK, TypeOK, Requests
<1>3. CASE exchange[x].answer = "rotated"
  <2>1. PICK n \in Grants : exchange[x].reply = Granted(n, n)
    BY <1>1, <1>3 DEF ReplyOK, ReplyFits
  <2>2. Result(c).refresh = n /\ exchange[x].reply.refresh = n
    BY <2>1, GrantedIsMinted DEF Result, Granted, Grants, Blank
  <2> QED
    BY <1>3, <2>2 DEF Merge, OAuth, Grants, NoToken
<1>4. CASE exchange[x].answer = "kept"
  <2>1. PICK n \in Grants, r \in {NoToken, Blank, exchange[x].token} :
          exchange[x].reply = Granted(n, r)
    BY <1>1, <1>4 DEF ReplyOK, ReplyFits
  <2>2. Result(c).refresh \in {NoToken, exchange[x].token}
    BY <1>1, <2>1, GrantedIsMinted DEF Result
  <2> QED
    BY <1>1, <1>4, <2>2 DEF Merge, OAuth
<1>5. CASE exchange[x].answer = "refused"
  BY <1>1, <1>5, RefusalFails DEF Result, ReplyOK, ReplyFits
<1> QED
  BY <1>2, <1>3, <1>4, <1>5

\* A provider that rotates answers with the token it has just minted.
LEMMA RotatedReply ==
  ASSUME ReplyOK, NEW x \in Exchanges, exchange[x].answer = "rotated"
  PROVE  exchange[x].reply.refresh \in Grants
<1>1. PICK n \in Grants : exchange[x].reply = Granted(n, n)
  BY DEF ReplyOK, ReplyFits
<1>2. Granted(n, n).refresh = n
  BY DEF Granted
<1> QED
  BY <1>1, <1>2

\* At the start no token has been minted.
LEMMA InitTokens == Init => TokensOK
BY BoundsAssumption, NoneAssumption
   DEF Init, TokensOK, ReplyOK, ReplyFits, MintedOK, FreshOK, ApartOK, KnownOK, ReplacedOK,
       Holds, Awaits, Refreshable, Unsent, NoCred, Return, NoToken

-----------------------------------------------------------------------------
(* Each action preserves the invariant. *)

\* Callers that give up or are turned away.
LEMMA LeavingTokens ==
  ASSUME CallsOK, TokensOK, NEW c \in Callers, Leaves(c)
  PROVE  TokensOK'
<1>1. /\ UNCHANGED <<store, exchange, live, issued>>
      /\ \A d \in Callers \ {c} : call'[d] = call[d]
      /\ call'[c].phase = "idle" /\ call'[c].cred = NoCred
  BY DEF Leaves, Return, CallsOK, TypeOK
<1>2. ReplyOK' /\ KnownOK' /\ ReplacedOK'
  BY <1>1 DEF TokensOK, ReplyOK, ReplyFits, KnownOK, ReplacedOK, Rotated
<1>3. MintedOK'
  BY <1>1, BoundsAssumption DEF TokensOK, MintedOK, NoCred, NoToken, CallsOK, TypeOK
<1>4. \A d \in Callers : Holds(d)' => Holds(d) /\ d # c
  BY <1>1 DEF Holds
<1>5. FreshOK' /\ ApartOK'
  BY <1>1, <1>4 DEF TokensOK, FreshOK, ApartOK, Unused, Awaits
<1> QED
  BY <1>2, <1>3, <1>5 DEF TokensOK

\* A sign-in mints a token nobody has seen.
LEMMA GrantedTokens ==
  ASSUME CallsOK, TokensOK, NEW c \in Callers, NEW p \in Providers,
         NEW method \in {"oauth", "device", "api_key"}, SignInGranted(c, p, method)
  PROVE  TokensOK'
<1>0. PICK n \in Grants : n = issued + 1
  BY DEF SignInGranted
<1>1. /\ UNCHANGED <<store, exchange>>
      /\ issued' = n /\ issued \in Nat /\ issued < n
      /\ \A d \in Callers \ {c} : call'[d] = call[d]
      /\ call'[c].provider = p
      /\ \A q \in Providers \ {p} : live'[q] = live[q]
      /\ \/ call'[c].cred.refresh = NoToken /\ live'[p] = live[p]
         \/ call'[c].cred.refresh = n /\ live'[p] = live[p] \cup {n}
  BY <1>0 DEF SignInGranted, Busy, ApiKey, OAuth, CallsOK, TypeOK
<1>2. ReplyOK' /\ ReplacedOK'
  BY <1>1 DEF TokensOK, ReplyOK, ReplyFits, ReplacedOK
<1>3. KnownOK'
  BY <1>1 DEF TokensOK, KnownOK, Rotated
<1>4. MintedOK'
  <2>1. \A q \in Providers : store'[q].refresh <= n /\ live'[q] \subseteq 1 .. n
    BY <1>1, RefreshTokenTyped DEF TokensOK, MintedOK, Grants, NoToken
  <2>2. \A d \in Callers : call'[d].cred.refresh <= n
    BY <1>1, RefreshTokenTyped DEF TokensOK, MintedOK, Grants, NoToken
  <2>3. \A x \in Exchanges : exchange[x].token <= n
    BY <1>1, RefreshTokenTyped DEF TokensOK, MintedOK, Grants, NoToken
  <2>4. \A x \in Exchanges : exchange[x].answer = "rotated" => exchange[x].reply.refresh <= n
    BY <1>1, RotatedReply DEF TokensOK, MintedOK, Grants
  <2> QED
    BY <1>1, <2>1, <2>2, <2>3, <2>4 DEF MintedOK
<1>5. \A d \in Callers \ {c} : Holds(d)' => Holds(d)
  BY <1>1 DEF Holds
<1>6. FreshOK'
  <2>1. \A q \in Providers : \A token : Unused(q, token) => Unused(q, token)'
    BY <1>1 DEF Unused
  <2>2. n \in live'[p] => Unused(p, n)'
    BY <1>1, RefreshTokenTyped DEF Unused, TokensOK, MintedOK, Grants, NoToken
  <2>3. Holds(c)' => Unused(call[c].provider, call[c].cred.refresh)'
    BY <1>1, <2>2 DEF Holds, Refreshable
  <2>4. \A d \in Callers \ {c} :
          Holds(d)' => Unused(call[d].provider, call[d].cred.refresh)'
    BY <1>1, <1>5, <2>1 DEF TokensOK, FreshOK, Holds, CallsOK, HoldingOK
  <2>5. \A x \in Exchanges :
          Awaits(x)' => Unused(exchange[x].provider, exchange[x].reply.refresh)'
    BY <1>1, <2>1 DEF TokensOK, FreshOK, Awaits, ReplyOK, ReplyFits
  <2> QED
    BY <2>3, <2>4, <2>5 DEF FreshOK
<1>7. ApartOK'
  <2>1. \A d \in Callers : call[d].cred.refresh # n
    BY <1>1, RefreshTokenTyped DEF TokensOK, MintedOK, Grants, NoToken
  <2>2. \A x \in Exchanges : Awaits(x) => exchange[x].reply.refresh # n
    BY <1>1, RotatedReply DEF TokensOK, MintedOK, Awaits, Grants
  <2>3. Holds(c)' => call'[c].cred.refresh = n
    BY <1>1 DEF Holds, Refreshable
  <2> QED
    BY <1>1, <1>5, <2>1, <2>2, <2>3 DEF TokensOK, ApartOK, Awaits
<1> QED
  BY <1>2, <1>3, <1>4, <1>6, <1>7 DEF TokensOK

\* A caller's write to the store: requests may only be marked as stored, and
\* only those of the provider written.
Writes(c, p, cred) ==
  /\ store' = [store EXCEPT ![p] = cred]
  /\ call' = [call EXCEPT ![c] = Return(p, "ok")]
  /\ UNCHANGED <<live, issued>>
  /\ \A x \in Exchanges :
       /\ exchange'[x].provider = exchange[x].provider
       /\ exchange'[x].token = exchange[x].token
       /\ exchange'[x].answer = exchange[x].answer
       /\ exchange'[x].reply = exchange[x].reply
       /\ exchange[x].stored => exchange'[x].stored
       /\ exchange'[x].stored => exchange[x].stored \/ exchange[x].provider = p

\* The token put is out of every caller's hands and every response, is known to
\* its provider, and is none that a stored rotation consumed.
Writable(c, p, cred) ==
  /\ cred.refresh <= issued
  /\ \A d \in Callers \ {c} : Holds(d) => call[d].cred.refresh # cred.refresh
  /\ \A x \in Exchanges : Awaits(x)' => exchange[x].reply.refresh # cred.refresh
  /\ Refreshable(cred) => cred.refresh \in live[p] \/ Rotated(p, cred.refresh)
  /\ \A x \in Exchanges :
       exchange[x].provider = p /\ exchange[x].answer = "rotated" /\ exchange'[x].stored
         /\ p \notin Rotates \cap Keeps => exchange[x].token # cred.refresh

\* A put of a credential whose token is fresh or known keeps the tokens explained.
LEMMA WriteTokens ==
  ASSUME CallsOK, TokensOK, NEW c \in Callers, NEW p \in Providers,
         NEW cred \in Credentials, ReplyOK', Writes(c, p, cred), Writable(c, p, cred)
  PROVE  TokensOK'
<1>1. /\ store'[p] = cred
      /\ \A q \in Providers \ {p} : store'[q] = store[q]
      /\ \A d \in Callers \ {c} : call'[d] = call[d]
      /\ call'[c].phase = "idle" /\ call'[c].cred = NoCred
  BY DEF Writes, Return, CallsOK, TypeOK
<1>2. MintedOK'
  BY <1>1, BoundsAssumption DEF Writes, Writable, TokensOK, MintedOK, NoCred, NoToken, CallsOK, TypeOK
<1>3. /\ \A d \in Callers : Holds(d)' => Holds(d) /\ d # c
      /\ \A x \in Exchanges : Awaits(x)' => Awaits(x)
  BY <1>1 DEF Writes, Holds, Awaits
<1>4. \A q \in Providers : \A token :
         Unused(q, token) /\ token # cred.refresh => Unused(q, token)'
  BY <1>1 DEF Writes, Unused
<1>5. FreshOK'
  <2>1. \A d \in Callers : Holds(d)' => Unused(call[d].provider, call[d].cred.refresh)'
    BY <1>1, <1>3, <1>4 DEF Writable, TokensOK, FreshOK, Holds, CallsOK, HoldingOK
  <2>2. \A x \in Exchanges :
          Awaits(x)' => Unused(exchange[x].provider, exchange[x].reply.refresh)'
    BY <1>3, <1>4 DEF Writes, Writable, TokensOK, FreshOK, Awaits, ReplyOK, ReplyFits
  <2> QED
    BY <2>1, <2>2 DEF FreshOK
<1>6. ApartOK'
  BY <1>1, <1>3 DEF Writes, TokensOK, ApartOK
<1>7. KnownOK'
  <2>1. \A q \in Providers : \A token : Rotated(q, token) => Rotated(q, token)'
    BY DEF Writes, Rotated
  <2> QED
    BY <1>1, <2>1 DEF Writes, Writable, TokensOK, KnownOK
<1>8. ReplacedOK'
  <2> SUFFICES ASSUME NEW x \in Exchanges,
                      exchange'[x].answer = "rotated", exchange'[x].stored,
                      exchange'[x].provider \notin Rotates \cap Keeps
               PROVE  store'[exchange'[x].provider].refresh # exchange'[x].token
    BY DEF ReplacedOK
  <2>1. CASE exchange[x].provider = p
    BY <1>1, <2>1 DEF Writes, Writable
  <2>2. CASE exchange[x].provider # p
    BY <1>1, <2>2 DEF Writes, TokensOK, ReplyOK, ReplyFits, ReplacedOK
  <2> QED
    BY <2>1, <2>2
<1> QED
  BY <1>2, <1>5, <1>6, <1>7, <1>8 DEF TokensOK

\* No minted token is the missing one.
LEMMA ZeroIsNoToken ==
  ASSUME CallsOK, TokensOK
  PROVE  /\ NoToken <= issued
         /\ \A x \in Exchanges : exchange[x].provider \in Providers => exchange[x].token # NoToken
         /\ \A x \in Exchanges : Awaits(x) => exchange[x].reply.refresh # NoToken
BY RotatedReply DEF CallsOK, TypeOK, TokensOK, ReplyOK, ReplyFits, Awaits, Grants, NoToken

\* The application puts a credential a flow returned.
LEMMA SignInStoredTokens ==
  ASSUME CallsOK, TokensOK, NEW c \in Callers, SignInStored(c)
  PROVE  TokensOK'
<1> DEFINE cred == call[c].cred
           p    == call[c].provider
<1>1. /\ call[c].phase = "holding" /\ p \in Providers /\ cred \in Credentials
      /\ store' = [store EXCEPT ![p] = cred]
      /\ call' = [call EXCEPT ![c] = Return(p, "ok")]
      /\ UNCHANGED <<exchange, live, issued>>
  BY CallFields DEF SignInStored, Put, Finish, CallsOK, HoldingOK
<1>2. ReplyOK'
  BY <1>1 DEF TokensOK, ReplyOK, ReplyFits
<1>3. cred.refresh <= issued
  BY DEF TokensOK, MintedOK
<1>4. CASE Refreshable(cred)
  <2>1. Holds(c) /\ Unused(p, cred.refresh)
    BY <1>1, <1>4 DEF Holds, TokensOK, FreshOK
  <2>2. /\ \A d \in Callers \ {c} : Holds(d) => call[d].cred.refresh # cred.refresh
        /\ \A x \in Exchanges : Awaits(x) => exchange[x].reply.refresh # cred.refresh
    BY <2>1 DEF TokensOK, ApartOK
  <2>3. \A x \in Exchanges : Awaits(x)' => Awaits(x)
    BY <1>1 DEF Awaits
  <2>4. cred.refresh \in live[p] /\ \A x \in Exchanges : exchange[x].token # cred.refresh
    BY <2>1 DEF Unused
  <2>5. Writes(c, p, cred) /\ Writable(c, p, cred)
    BY <1>1, <1>3, <2>2, <2>3, <2>4 DEF Writes, Writable
  <2> QED
    BY <1>1, <1>2, <2>5, WriteTokens
<1>5. CASE ~Refreshable(cred)
  <2>1. cred.refresh = NoToken
    BY <1>5 DEF Refreshable
  <2>2. /\ \A d \in Callers : Holds(d) => call[d].cred.refresh # cred.refresh
        /\ \A x \in Exchanges : Awaits(x)' => exchange[x].reply.refresh # cred.refresh
        /\ \A x \in Exchanges : exchange[x].provider = p => exchange[x].token # cred.refresh
    BY <1>1, <2>1, ZeroIsNoToken DEF Holds, Refreshable, Awaits
  <2>3. Writes(c, p, cred) /\ Writable(c, p, cred)
    BY <1>1, <1>3, <1>5, <2>2 DEF Writes, Writable
  <2> QED
    BY <1>1, <1>2, <2>3, WriteTokens
<1> QED
  BY <1>4, <1>5

\* A logout takes a token out of the store and brings none.
LEMMA LogoutTokens ==
  ASSUME CallsOK, TokensOK, NEW c \in Callers, NEW p \in Providers, Logout(c, p)
  PROVE  TokensOK'
<1>1. CASE UNCHANGED store
  <2>1. /\ UNCHANGED <<exchange, live, issued, session, newest>>
        /\ \E o \in Outcomes : call' = [call EXCEPT ![c] = Return(p, o)]
    BY DEF Logout, Outcomes
  <2>2. Leaves(c)
    BY <1>1, <2>1 DEF Leaves
  <2> QED
    BY <2>2, LeavingTokens
<1>2. CASE store' # store
  <2>1. /\ store' = [store EXCEPT ![p] = NoCred]
        /\ call' = [call EXCEPT ![c] = Return(p, "ok")]
        /\ UNCHANGED <<exchange, live, issued>>
    BY <1>2 DEF Logout
  <2>2. ReplyOK'
    BY <2>1 DEF TokensOK, ReplyOK, ReplyFits
  <2>3. NoCred \in Credentials /\ NoCred.refresh = NoToken /\ ~Refreshable(NoCred)
    BY CredentialsTyped DEF NoCred, Refreshable
  <2>4. /\ NoToken <= issued
        /\ \A d \in Callers : Holds(d) => call[d].cred.refresh # NoToken
        /\ \A x \in Exchanges : Awaits(x)' => exchange[x].reply.refresh # NoToken
        /\ \A x \in Exchanges : exchange[x].provider = p => exchange[x].token # NoToken
    BY <2>1, ZeroIsNoToken DEF Holds, Refreshable, Awaits
  <2>5. Writes(c, p, NoCred) /\ Writable(c, p, NoCred)
    BY <2>1, <2>3, <2>4 DEF Writes, Writable
  <2> QED
    BY <2>2, <2>3, <2>5, WriteTokens
<1> QED
  BY <1>1, <1>2

\* What refresh_stored puts is the token of its own rotation, or the one it
\* showed to a provider that keeps tokens.
LEMMA RefreshStoredTokens ==
  ASSUME CallsOK, TokensOK, NEW c \in Callers, RefreshStored(c)
  PROVE  TokensOK'
<1> DEFINE x    == call[c].exchange
           p    == call[c].provider
           cred == Merge(call[c].cred, Result(c))
<1>1. /\ Answered(c) /\ Result(c).ok
      /\ x \in Exchanges /\ p \in Providers /\ cred \in Credentials
      /\ exchange[x].provider = p /\ ~exchange[x].stored
      /\ store' = [store EXCEPT ![p] = cred]
      /\ call' = [call EXCEPT ![c] = Return(p, "ok")]
      /\ UNCHANGED <<live, issued>>
      /\ exchange' = [exchange EXCEPT ![x] = [@ EXCEPT !.stored = TRUE]]
  BY ResultTyped DEF RefreshStored, Answered, Put, Finish, CallsOK, WaitingOK
<1>2. /\ \A y \in Exchanges : /\ exchange'[y].provider = exchange[y].provider
                              /\ exchange'[y].token = exchange[y].token
                              /\ exchange'[y].answer = exchange[y].answer
                              /\ exchange'[y].reply = exchange[y].reply
      /\ \A y \in Exchanges \ {x} : exchange'[y].stored = exchange[y].stored
      /\ exchange'[x].stored
  BY <1>1 DEF CallsOK, TypeOK, Requests
<1>3. Writes(c, p, cred)
  BY <1>1, <1>2 DEF Writes
<1>4. ReplyOK'
  BY <1>1, <1>2 DEF TokensOK, ReplyOK, ReplyFits, Answered
<1>5. \A y \in Exchanges : Awaits(y)' => Awaits(y) /\ y # x
  BY <1>2 DEF Awaits
<1>6. Writable(c, p, cred)
  <2>1. CASE exchange[x].answer = "rotated" /\ cred.refresh = exchange[x].reply.refresh
    <3>1. Awaits(x) /\ Unused(p, cred.refresh)
      BY <1>1, <2>1 DEF Awaits, TokensOK, FreshOK
    <3>2. /\ \A d \in Callers : Holds(d) => call[d].cred.refresh # cred.refresh
          /\ \A y \in Exchanges : Awaits(y)' => exchange[y].reply.refresh # cred.refresh
      BY <1>1, <1>5, <2>1, <3>1 DEF TokensOK, ApartOK
    <3>3. cred.refresh <= issued
      BY <1>1, <2>1 DEF TokensOK, MintedOK
    <3>4. cred.refresh \in live[p] /\ \A y \in Exchanges : exchange[y].token # cred.refresh
      BY <3>1 DEF Unused
    <3> QED
      BY <3>2, <3>3, <3>4 DEF Writable
  <2>2. CASE exchange[x].answer = "kept" /\ cred.refresh = exchange[x].token
    <3>1. /\ \A d \in Callers : Holds(d) => call[d].cred.refresh # cred.refresh
          /\ \A y \in Exchanges : Awaits(y) => exchange[y].reply.refresh # cred.refresh
      BY <1>1, <2>2 DEF TokensOK, FreshOK, Unused
    <3>2. cred.refresh <= issued
      BY <1>1, <2>2 DEF TokensOK, MintedOK
    <3>3. cred.refresh \in live[p] \/ Rotated(p, cred.refresh)
      BY <1>1, <2>2 DEF TokensOK, KnownOK
    <3>4. p \in Keeps
      BY <1>1, <2>2 DEF TokensOK, ReplyOK, ReplyFits
    <3>5. \A y \in Exchanges :
             exchange[y].provider = p /\ exchange[y].answer = "rotated" => p \in Rotates
      BY DEF TokensOK, ReplyOK, ReplyFits
    <3> QED
      BY <1>5, <3>1, <3>2, <3>3, <3>4, <3>5 DEF Writable
  <2> QED
    BY <1>1, <2>1, <2>2, RefreshedToken DEF TokensOK
<1> QED
  BY <1>1, <1>3, <1>4, <1>6, WriteTokens

\* A request shows the token that is stored, which is never an unused one.
LEMMA SendTokens ==
  ASSUME CallsOK, TokensOK, NEW c \in Callers, NEW p \in Providers,
         NEW x \in Exchanges, RefreshSend(c, p, x)
  PROVE  TokensOK'
<1>1. /\ UNCHANGED <<store, live, issued>>
      /\ Refreshable(store[p])
      /\ exchange[x] = Unsent
      /\ \A y \in Exchanges \ {x} : exchange'[y] = exchange[y]
      /\ exchange'[x] = [Unsent EXCEPT !.provider = p, !.token = store[p].refresh]
      /\ \A d \in Callers \ {c} : call'[d] = call[d]
      /\ call'[c].phase = "waiting" /\ call'[c].cred = store[p]
  BY DEF RefreshSend, Busy, CallsOK, TypeOK
<1>2. /\ exchange'[x].provider = p /\ exchange'[x].token = store[p].refresh
      /\ exchange'[x].answer = "pending" /\ ~exchange'[x].stored
      /\ exchange[x].answer = "pending" /\ ~exchange[x].stored
  BY <1>1 DEF Unsent
<1>3. store[p].refresh \in Grants
  BY <1>1, RefreshTokenTyped DEF Refreshable
<1>4. ReplyOK'
  <2> SUFFICES ASSUME NEW y \in Exchanges
               PROVE  ReplyFits(y)'
    BY DEF ReplyOK
  <2>1. CASE y = x
    BY <1>2, <1>3, <2>1 DEF ReplyFits
  <2>2. CASE y # x
    BY <1>1, <2>2 DEF TokensOK, ReplyOK, ReplyFits
  <2> QED
    BY <2>1, <2>2
<1>5. MintedOK'
  BY <1>1, <1>2 DEF TokensOK, MintedOK
<1>6. /\ \A d \in Callers : Holds(d)' => Holds(d) /\ d # c
      /\ \A y \in Exchanges : Awaits(y)' => Awaits(y) /\ y # x
  BY <1>1, <1>2 DEF Holds, Awaits
<1>7. FreshOK'
  <2>1. ASSUME NEW q \in Providers, NEW token, Unused(q, token)
        PROVE  Unused(q, token)'
    <3>1. exchange'[x].token # token
      BY <1>2, <2>1 DEF Unused
    <3> QED
      BY <1>1, <2>1, <3>1 DEF Unused
  <2>2. \A d \in Callers : Holds(d)' => Unused(call[d].provider, call[d].cred.refresh)'
    BY <1>1, <1>6, <2>1 DEF TokensOK, FreshOK, Holds, CallsOK, HoldingOK
  <2>3. \A y \in Exchanges :
          Awaits(y)' => Unused(exchange[y].provider, exchange[y].reply.refresh)'
    BY <1>1, <1>6, <2>1 DEF TokensOK, FreshOK, Awaits, ReplyOK, ReplyFits
  <2> QED
    BY <2>2, <2>3 DEF FreshOK
<1>8. ApartOK'
  BY <1>1, <1>6 DEF TokensOK, ApartOK
<1>9. KnownOK'
  <2>1. \A q \in Providers : \A token : Rotated(q, token) => Rotated(q, token)'
    BY <1>1, <1>2 DEF Rotated
  <2> QED
    BY <1>1, <1>2, <2>1 DEF TokensOK, KnownOK
<1>10. ReplacedOK'
  BY <1>1, <1>2 DEF TokensOK, ReplacedOK
<1> QED
  BY <1>4, <1>5, <1>7, <1>8, <1>9, <1>10 DEF TokensOK

-----------------------------------------------------------------------------
(* The servers. *)

\* What a grant made on a pending request leaves alone.
LEMMA GrantAgainFacts ==
  ASSUME CallsOK, TokensOK, NEW x \in Exchanges, GrantAgain(x)
  PROVE  /\ UNCHANGED <<store, call>>
         /\ exchange[x].provider \in Providers
         /\ exchange[x].token \in Grants
         /\ exchange[x].token \in live[exchange[x].provider]
         /\ exchange[x].answer = "pending" /\ ~exchange[x].stored
         /\ issued + 1 \in Grants /\ issued \in Nat /\ issued' = issued + 1
BY DEF GrantAgain, Pending, Honoured, CallsOK, TypeOK, Requests, TokensOK, ReplyOK, ReplyFits

\* The new token is fresh, and the one it replaces was no unused one.
LEMMA RotatesTokens ==
  ASSUME CallsOK, TokensOK, NEW x \in Exchanges, ServerRotates(x)
  PROVE  TokensOK'
<1>0. PICK p \in Providers, t \in Grants, n \in Grants :
        p = exchange[x].provider /\ t = exchange[x].token /\ n = issued + 1
  BY GrantAgainFacts DEF ServerRotates
<1>1. /\ UNCHANGED <<store, call>>
      /\ p \in Rotates
      /\ exchange[x].answer = "pending" /\ ~exchange[x].stored
      /\ issued \in Nat /\ issued < n /\ issued' = n
      /\ live' = [live EXCEPT ![p] = (@ \ {t}) \cup {n}]
      /\ exchange' = [exchange EXCEPT ![x] =
            [@ EXCEPT !.answer = "rotated", !.reply = Granted(n, n)]]
  BY <1>0, GrantAgainFacts DEF ServerRotates, Respond
<1>2. /\ \A y \in Exchanges \ {x} : exchange'[y] = exchange[y]
      /\ exchange'[x].provider = p /\ exchange'[x].token = t
      /\ exchange'[x].answer = "rotated" /\ ~exchange'[x].stored
      /\ exchange'[x].reply = Granted(n, n)
      /\ exchange'[x].reply.refresh = n
      /\ \A q \in Providers \ {p} : live'[q] = live[q]
      /\ live'[p] = (live[p] \ {t}) \cup {n}
  BY <1>0, <1>1 DEF CallsOK, TypeOK, Requests, Granted
<1>3. ReplyOK'
  <2> SUFFICES ASSUME NEW y \in Exchanges
               PROVE  ReplyFits(y)'
    BY DEF ReplyOK
  <2>1. CASE y = x
    BY <1>1, <1>2, <2>1 DEF ReplyFits
  <2>2. CASE y # x
    BY <1>2, <2>2 DEF TokensOK, ReplyOK, ReplyFits
  <2> QED
    BY <2>1, <2>2
<1>4. /\ \A q \in Providers : store[q].refresh < n /\ \A token \in live[q] : token < n
      /\ \A c \in Callers : call[c].cred.refresh < n
      /\ \A y \in Exchanges : /\ exchange[y].token < n
                              /\ exchange[y].answer = "rotated" =>
                                   exchange[y].reply.refresh < n
  BY <1>1, RefreshTokenTyped, RotatedReply DEF TokensOK, MintedOK, Grants, NoToken
<1>5. MintedOK'
  <2>1. \A q \in Providers : store[q].refresh <= n /\ live'[q] \subseteq 1 .. n
    BY <1>0, <1>1, <1>2, <1>4, RefreshTokenTyped DEF Grants, NoToken
  <2>2. \A c \in Callers : call[c].cred.refresh <= n
    BY <1>4, RefreshTokenTyped DEF Grants, NoToken
  <2>3. \A y \in Exchanges : exchange'[y].token <= n
    BY <1>1, <1>2, <1>4, RefreshTokenTyped DEF Grants, NoToken
  <2>4. \A y \in Exchanges :
          exchange'[y].answer = "rotated" => exchange'[y].reply.refresh <= n
    BY <1>0, <1>2, <1>4, RotatedReply DEF TokensOK, Grants
  <2> QED
    BY <1>1, <2>1, <2>2, <2>3, <2>4 DEF MintedOK
<1>6. /\ \A c \in Callers : Holds(c)' <=> Holds(c)
      /\ \A y \in Exchanges \ {x} : Awaits(y)' => Awaits(y)
  BY <1>1, <1>2 DEF Holds, Awaits
<1>7. FreshOK'
  <2>1. ASSUME NEW q \in Providers, NEW token, Unused(q, token)
        PROVE  Unused(q, token)'
    <3>1. token # t /\ \A y \in Exchanges : exchange'[y].token # token
      BY <1>0, <1>2, <2>1 DEF Unused
    <3> QED
      BY <1>1, <1>2, <2>1, <3>1 DEF Unused
  <2>2. Unused(p, n)'
    <3>1. n \in live'[p]
      BY <1>2
    <3>2. \A y \in Exchanges : exchange'[y].token # n
      BY <1>0, <1>1, <1>2, <1>4, RefreshTokenTyped DEF Grants, NoToken
    <3>3. \A q \in Providers : store'[q].refresh # n
      BY <1>0, <1>1, <1>4, RefreshTokenTyped DEF Grants, NoToken
    <3> QED
      BY <3>1, <3>2, <3>3 DEF Unused
  <2>3. \A c \in Callers : Holds(c)' => Unused(call[c].provider, call[c].cred.refresh)'
    BY <1>1, <1>6, <2>1 DEF TokensOK, FreshOK, Holds, CallsOK, HoldingOK
  <2>4. \A y \in Exchanges \ {x} :
          Awaits(y)' => Unused(exchange[y].provider, exchange[y].reply.refresh)'
    BY <1>2, <1>6, <2>1 DEF TokensOK, FreshOK, Awaits, ReplyOK, ReplyFits
  <2>5. Unused(exchange[x].provider, exchange[x].reply.refresh)'
    BY <1>2, <2>2
  <2> QED
    BY <2>3, <2>4, <2>5 DEF FreshOK
<1>8. ApartOK'
  <2>1. \A c \in Callers : call[c].cred.refresh # n
    BY <1>0, <1>4, RefreshTokenTyped DEF Grants, NoToken
  <2>2. \A y \in Exchanges : Awaits(y) => exchange[y].reply.refresh # n
    BY <1>0, <1>4, RotatedReply DEF TokensOK, Awaits, Grants
  <2> QED
    BY <1>1, <1>2, <1>6, <2>1, <2>2 DEF TokensOK, ApartOK
<1>9. KnownOK'
  <2>1. \A q \in Providers : \A token : Rotated(q, token) => Rotated(q, token)'
    BY <1>1, <1>2 DEF Rotated
  <2>2. Rotated(p, t)'
    BY <1>2 DEF Rotated
  <2>3. \A q \in Providers : \A token : token \in live[q] => token \in live'[q] \/ Rotated(q, token)'
    BY <1>2, <2>2
  <2> QED
    BY <1>1, <1>2, <2>1, <2>2, <2>3 DEF TokensOK, KnownOK
<1>10. ReplacedOK'
  BY <1>1, <1>2 DEF TokensOK, ReplacedOK
<1> QED
  BY <1>3, <1>5, <1>7, <1>8, <1>9, <1>10 DEF TokensOK

\* An answer that mints no refresh token: only one request's answer changes.
LEMMA AnswerTokens ==
  ASSUME CallsOK, TokensOK, NEW x \in Exchanges, NEW answer \in {"kept", "refused"},
         NEW reply, Respond(x, answer, reply), exchange[x].answer = "pending",
         UNCHANGED <<store, call, live>>, issued \in Nat, issued' \in Nat,
         issued <= issued', ReplyFits(x)'
  PROVE  TokensOK'
<1>1. /\ \A y \in Exchanges \ {x} : exchange'[y] = exchange[y]
      /\ exchange'[x].provider = exchange[x].provider
      /\ exchange'[x].token = exchange[x].token
      /\ exchange'[x].answer = answer
      /\ exchange'[x].stored = exchange[x].stored
  BY DEF Respond, CallsOK, TypeOK, Requests
<1>2. ReplyOK'
  BY <1>1 DEF TokensOK, ReplyOK, ReplyFits
<1>3. MintedOK'
  <2>1. \A p \in Providers : store[p].refresh <= issued' /\ live[p] \subseteq 1 .. issued'
    BY RefreshTokenTyped DEF TokensOK, MintedOK, Grants, NoToken
  <2>2. \A c \in Callers : call[c].cred.refresh <= issued'
    BY RefreshTokenTyped DEF TokensOK, MintedOK, Grants, NoToken
  <2>3. \A y \in Exchanges : exchange'[y].token <= issued'
    BY <1>1, RefreshTokenTyped DEF TokensOK, MintedOK, Grants, NoToken
  <2>4. \A y \in Exchanges :
          exchange'[y].answer = "rotated" => exchange'[y].reply.refresh <= issued'
    BY <1>1, RotatedReply DEF TokensOK, MintedOK, Grants
  <2> QED
    BY <2>1, <2>2, <2>3, <2>4 DEF MintedOK
<1>4. /\ \A c \in Callers : Holds(c)' <=> Holds(c)
      /\ \A y \in Exchanges : Awaits(y)' => Awaits(y) /\ y # x
  BY <1>1 DEF Holds, Awaits
<1>5. FreshOK'
  <2>1. \A q \in Providers : \A token : Unused(q, token) => Unused(q, token)'
    BY <1>1 DEF Unused
  <2>2. \A c \in Callers : Holds(c)' => Unused(call[c].provider, call[c].cred.refresh)'
    BY <1>4, <2>1 DEF TokensOK, FreshOK, Holds, CallsOK, HoldingOK
  <2>3. \A y \in Exchanges :
          Awaits(y)' => Unused(exchange[y].provider, exchange[y].reply.refresh)'
    BY <1>1, <1>4, <2>1 DEF TokensOK, FreshOK, Awaits, ReplyOK, ReplyFits
  <2> QED
    BY <2>2, <2>3 DEF FreshOK
<1>6. ApartOK'
  BY <1>1, <1>4 DEF TokensOK, ApartOK
<1>7. KnownOK'
  <2>1. \A q \in Providers : \A token : Rotated(q, token) => Rotated(q, token)'
    BY <1>1 DEF Rotated
  <2> QED
    BY <1>1, <2>1 DEF TokensOK, KnownOK
<1>8. ReplacedOK'
  BY <1>1 DEF TokensOK, ReplacedOK
<1> QED
  BY <1>2, <1>3, <1>5, <1>6, <1>7, <1>8 DEF TokensOK

\* A provider that keeps a token mints none.
LEMMA KeepsTokens ==
  ASSUME CallsOK, TokensOK, NEW x \in Exchanges, ServerKeeps(x)
  PROVE  TokensOK'
<1>1. PICK r \in {NoToken, Blank, exchange[x].token}, n \in Grants :
        n = issued + 1 /\ Respond(x, "kept", Granted(n, r))
  BY GrantAgainFacts DEF ServerKeeps
<1>2. /\ UNCHANGED <<store, call, live>>
      /\ issued \in Nat /\ issued' = issued + 1
      /\ exchange[x].provider \in Providers /\ exchange[x].provider \in Keeps
      /\ exchange[x].token \in Grants
      /\ exchange[x].answer = "pending" /\ ~exchange[x].stored
  BY GrantAgainFacts DEF ServerKeeps
<1>3. /\ exchange'[x].provider = exchange[x].provider
      /\ exchange'[x].token = exchange[x].token
      /\ exchange'[x].answer = "kept" /\ ~exchange'[x].stored
      /\ exchange'[x].reply = Granted(n, r)
  BY <1>1, <1>2 DEF Respond, CallsOK, TypeOK, Requests
<1>4. ReplyFits(x)'
  BY <1>2, <1>3 DEF ReplyFits
<1> QED
  BY <1>1, <1>2, <1>4, AnswerTokens

\* A refusal mints nothing and kills nothing.
LEMMA RefusesTokens ==
  ASSUME CallsOK, TokensOK, NEW x \in Exchanges, ServerRefuses(x)
  PROVE  TokensOK'
<1>1. PICK reply \in Refusals : Respond(x, "refused", reply)
  BY DEF ServerRefuses
<1>2. /\ UNCHANGED <<store, call, live, issued>>
      /\ issued \in Nat
      /\ exchange[x].provider \in Providers
      /\ exchange[x].token \in Grants
      /\ exchange[x].answer = "pending" /\ ~exchange[x].stored
  BY DEF ServerRefuses, Pending, CallsOK, TypeOK, Requests, TokensOK, ReplyOK, ReplyFits
<1>3. /\ exchange'[x].provider = exchange[x].provider
      /\ exchange'[x].token = exchange[x].token
      /\ exchange'[x].answer = "refused" /\ ~exchange'[x].stored
      /\ exchange'[x].reply = reply
  BY <1>1, <1>2 DEF Respond, CallsOK, TypeOK, Requests
<1>4. ReplyFits(x)'
  BY <1>2, <1>3 DEF ReplyFits
<1> QED
  BY <1>1, <1>2, <1>4, AnswerTokens

-----------------------------------------------------------------------------
\* A step that leaves store, provider and callers alone keeps the tokens explained.
LEMMA StutterTokens ==
  ASSUME TokensOK, UNCHANGED vars
  PROVE  TokensOK'
BY DEF vars, TokensOK, ReplyOK, ReplyFits, MintedOK, FreshOK, ApartOK, KnownOK,
       ReplacedOK, Holds, Awaits, Unused, Rotated

\* Every step keeps the tokens explained.
LEMMA TokensPreserved ==
  ASSUME CallsOK, TokensOK, [Next]_vars
  PROVE  TokensOK'
BY StepCases, LeavingTokens, GrantedTokens, SignInStoredTokens, SendTokens,
   RefreshStoredTokens, LogoutTokens, RotatesTokens, KeepsTokens, RefusesTokens,
   StutterTokens DEF CallsOK

\* The invariant holds in every behaviour.
LEMMA TokensInvariant == Spec => []TokensOK
<1>1. CallsOK /\ TokensOK /\ [Next]_vars => TokensOK'
  BY TokensPreserved
<1> QED
  BY <1>1, InitTokens, CallsInvariant, PTL DEF Spec

\* For any callers, providers and interleaving: with a provider that always
\* rotates or never does, the refresh token in the store is live, or a rotation
\* of exactly that token was never stored (refresh_stored).
THEOREM StoredTokenDeathExplained == Spec => []TokenDeathExplained
<1>1. TokensOK => TokenDeathExplained
  BY DEF TokensOK, KnownOK, ReplacedOK, TokenDeathExplained, DeathExplained,
         LostRotation, Rotated
<1> QED
  BY <1>1, TokensInvariant, PTL

-----------------------------------------------------------------------------
\* No failure is reported as "ok" (post_token_form).
LEMMA FailureIsNotOk ==
  ASSUME NEW reply, ~PostTokenForm(reply).ok
  PROVE  PostTokenForm(reply).error # "ok"
BY DEF PostTokenForm, IsGrant, Whole, Minted, Failure

\* Only RefreshStored ends a refresh with "ok".
LEMMA OnlyStoredIsOk ==
  ASSUME CallsOK, Next, NEW c \in Callers, RefreshedBy(c)
  PROVE  RefreshStored(c)
<1>1. call[c].phase = "waiting" /\ call'[c].phase = "idle" /\ call'[c].outcome = "ok"
  BY DEF RefreshedBy
<1>2. ASSUME NEW d \in Callers, NEW o, Finish(d, o), o # "ok"
      PROVE  FALSE
  BY <1>1, <1>2 DEF Finish, Return, CallsOK, TypeOK
<1>3. ASSUME NEW d \in Callers, call[d].phase # "waiting", NEW r,
             call' = [call EXCEPT ![d] = r]
      PROVE  FALSE
  BY <1>1, <1>3 DEF CallsOK, TypeOK
<1>4. ASSUME NEW d \in Callers, Sign(d)
      PROVE  FALSE
  BY <1>3, <1>4 DEF Sign, SignInRejected, Reject, SignInGranted, SignInStored,
     SignInUnsaved, Logout, IdleCaller, Finish
<1>5. ASSUME NEW d \in Callers, Refresh(d)
      PROVE  RefreshStored(c)
  <2>1. CASE \E p \in Providers :
               RefreshRejected(d, p) \/ \E x \in Exchanges : RefreshSend(d, p, x)
    BY <1>3, <2>1 DEF RefreshRejected, Reject, RefreshSend, IdleCaller
  <2>2. CASE RefreshStored(d)
    <3>1. d = c
      BY <1>1, <2>2 DEF RefreshStored, Finish, CallsOK, TypeOK
    <3> QED
      BY <2>2, <3>1
  <2>3. CASE RefreshUnsaved(d)
    BY <1>2, <2>3 DEF RefreshUnsaved
  <2>4. CASE RefreshFailed(d)
    BY <1>2, <2>4, FailureIsNotOk DEF RefreshFailed, Result
  <2>5. CASE RefreshTimeout(d)
    BY <1>2, <2>5, SilenceFails DEF RefreshTimeout
  <2>6. CASE RefreshDropped(d)
    BY <1>2, <2>6 DEF RefreshDropped
  <2> QED
    BY <1>5, <2>1, <2>2, <2>3, <2>4, <2>5, <2>6 DEF Refresh
<1>6. ASSUME NEW x \in Exchanges, Server(x)
      PROVE  FALSE
  BY <1>1, <1>6 DEF Server, ServerRotates, ServerKeeps, ServerRefuses, GrantAgain
<1> QED
  BY <1>4, <1>5, <1>6 DEF Next

\* A refresh that returns Ok leaves a credential that can be refreshed again,
\* whatever the response left out (refresh_stored).
THEOREM RefreshedIsRefreshable == Spec => RefreshStaysRefreshable
<1>1. ASSUME CallsOK, TokensOK, [Next]_vars, NEW c \in Callers, RefreshedBy(c)
      PROVE  Refreshable(store'[call[c].provider])
  <2>1. Next
    BY <1>1 DEF RefreshedBy, vars
  <2>2. RefreshStored(c)
    BY <1>1, <2>1, OnlyStoredIsOk
  <2>3. /\ Merge(call[c].cred, Result(c)).refresh \in Grants
        /\ call[c].provider \in Providers
    BY <1>1, <2>2, RefreshedToken
       DEF RefreshStored, Answered, TokensOK, CallsOK, WaitingOK
  <2>4. store'[call[c].provider] = Merge(call[c].cred, Result(c))
    BY <1>1, <2>2, <2>3 DEF RefreshStored, Put, CallsOK, TypeOK
  <2> QED
    BY <2>3, <2>4 DEF Refreshable, Grants, NoToken
<1>2. CallsOK /\ TokensOK /\ [Next]_vars =>
        [\A c \in Callers :
           RefreshedBy(c) => Refreshable(store'[call[c].provider])]_vars
  BY <1>1
<1> QED
  BY <1>2, CallsInvariant, TokensInvariant, PTL DEF Spec, RefreshStaysRefreshable

-----------------------------------------------------------------------------
(* Calls in sequence.  When the application runs one call per provider at   *)
(* a time, the store still holds, after the await of refresh_stored, what   *)
(* was read before it.  So what is put is newer than all that was put, a    *)
(* refresh stays in the session it read, and a consumed token cannot come   *)
(* back even from a provider that rotates at will.                          *)

\* The caller's refresh has been granted; what it will put is decided.
Granting(c) ==
  /\ call[c].phase = "waiting"
  /\ exchange[call[c].exchange].answer \in {"rotated", "kept"}

Newer(p, n) == newest[p] < n /\ n <= issued

\* One call per provider at a time.
AloneOK ==
  \A c, d \in Callers :
    ~IdleCaller(c) /\ ~IdleCaller(d) /\ call[c].provider = call[d].provider => c = d

\* What a caller read before its await is still what the store holds.
CurrentOK ==
  \A c \in Callers :
    call[c].phase = "waiting" => store[call[c].provider] = call[c].cred

\* What will be put is newer than all that was.
OrderOK ==
  /\ \A p \in Providers : store[p].access <= newest[p] /\ newest[p] <= issued
  /\ \A c \in Callers :
       call[c].phase = "holding" => Newer(call[c].provider, call[c].cred.access)
  /\ \A c \in Callers :
       Granting(c) => Newer(call[c].provider, exchange[call[c].exchange].reply.access)

\* A sign-in starts a session, a refresh stays in the one it read.
SessionOK ==
  /\ \A n \in Grants : n <= issued => session[n] # 0
  /\ \A p \in Providers :
       Refreshable(store[p]) => session[store[p].refresh] = session[store[p].access]
  /\ \A c \in Callers : call[c].phase = "holding" =>
       /\ session[call[c].cred.access] = call[c].cred.access
       /\ call[c].cred.refresh \in {call[c].cred.access, NoToken}
  /\ \A c \in Callers : Granting(c) =>
       session[exchange[call[c].exchange].reply.access] = session[call[c].cred.refresh]

\* No token is stored whose replacement was.
ConsumedOK ==
  \A x \in Exchanges :
    exchange[x].answer = "rotated" /\ exchange[x].stored =>
      store[exchange[x].provider].refresh # exchange[x].token

SerialOK == AloneOK /\ CurrentOK /\ OrderOK /\ SessionOK /\ ConsumedOK

-----------------------------------------------------------------------------
\* The answer a granted refresh is waiting to put.
LEMMA GrantingReply ==
  ASSUME CallsOK, TokensOK, NEW c \in Callers, Granting(c)
  PROVE  LET x == call[c].exchange IN
           /\ x \in Exchanges
           /\ call[c].provider \in Providers
           /\ exchange[x].token = call[c].cred.refresh /\ exchange[x].token \in Grants
           /\ exchange[x].reply.access \in Grants
           /\ Result(c).ok /\ Result(c).access = exchange[x].reply.access
           /\ exchange[x].answer = "rotated" =>
                exchange[x].reply.refresh = exchange[x].reply.access
<1> DEFINE x == call[c].exchange
<1>1. /\ x \in Exchanges
      /\ call[c].provider \in Providers
      /\ exchange[x].token = call[c].cred.refresh /\ exchange[x].token \in Grants
      /\ ReplyFits(x)
  BY DEF Granting, CallsOK, WaitingOK, TokensOK, ReplyOK, ReplyFits
<1>2. PICK n \in Grants, r \in Grants \cup {NoToken, Blank} :
        exchange[x].reply = Granted(n, r) /\ (exchange[x].answer = "rotated" => r = n)
  BY <1>1 DEF Granting, ReplyFits
<1>3. exchange[x].reply.access = n /\ exchange[x].reply.refresh = r
  BY <1>2 DEF Granted
<1>4. Result(c).ok /\ Result(c).access = n
  BY <1>2, GrantedIsMinted DEF Result
<1> QED
  BY <1>1, <1>2, <1>3, <1>4

\* Only a granted refresh puts anything.
LEMMA OkIsGranting ==
  ASSUME CallsOK, TokensOK, NEW c \in Callers, Answered(c), Result(c).ok
  PROVE  Granting(c)
BY RefreshedToken DEF TokensOK, Granting, Answered

\* A caller busy with a provider is the only one.
LEMMA OthersElsewhere ==
  ASSUME AloneOK, NEW c \in Callers, ~IdleCaller(c), NEW d \in Callers \ {c}, ~IdleCaller(d)
  PROVE  call[d].provider # call[c].provider
BY DEF AloneOK

\* At the start nobody is calling and nothing is stored.
LEMMA InitSerial == Init => SerialOK
BY DEF Init, SerialOK, AloneOK, CurrentOK, OrderOK, SessionOK, ConsumedOK, Granting,
       IdleCaller, Refreshable, Unsent, NoCred, Return, NoToken, Grants

\* Callers that leave.
LEMMA LeavingSerial ==
  ASSUME CallsOK, SerialOK, NEW c \in Callers, Leaves(c)
  PROVE  SerialOK'
<1>1. /\ UNCHANGED <<store, exchange, issued, session, newest>>
      /\ \A d \in Callers \ {c} : call'[d] = call[d]
      /\ call'[c].phase = "idle"
  BY DEF Leaves, Return, CallsOK, TypeOK
<1>2. \A d \in Callers : Granting(d)' => Granting(d) /\ d # c
  BY <1>1 DEF Granting
<1>3. AloneOK' /\ CurrentOK' /\ ConsumedOK'
  BY <1>1 DEF SerialOK, AloneOK, CurrentOK, ConsumedOK, IdleCaller
<1>4. OrderOK' /\ SessionOK'
  BY <1>1, <1>2 DEF SerialOK, OrderOK, SessionOK, Newer
<1> QED
  BY <1>3, <1>4 DEF SerialOK

\* The tokens the invariant speaks of are minted ones.
LEMMA MintedFields ==
  ASSUME CallsOK, TokensOK, SerialOK
  PROVE  /\ issued \in Nat
         /\ \A p \in Providers : /\ store[p].access \in Grants \cup {NoToken}
                                 /\ store[p].refresh \in Grants \cup {NoToken}
                                 /\ newest[p] \in Nat
                                 /\ store[p].access <= issued
                                 /\ store[p].refresh <= issued
         /\ \A c \in Callers : /\ call[c].cred.access \in Grants \cup {NoToken}
                               /\ call[c].cred.refresh \in Grants \cup {NoToken}
                               /\ call[c].cred.refresh <= issued
<1>1. /\ issued \in Nat
      /\ \A p \in Providers : /\ store[p].access \in Grants \cup {NoToken}
                              /\ store[p].refresh \in Grants \cup {NoToken}
                              /\ newest[p] \in Nat
      /\ \A c \in Callers : /\ call[c].cred.access \in Grants \cup {NoToken}
                            /\ call[c].cred.refresh \in Grants \cup {NoToken}
  BY CredentialFields, BoundsAssumption DEF CallsOK, TypeOK, Calls, Grants
<1> QED
  BY <1>1 DEF TokensOK, MintedOK, SerialOK, OrderOK, Grants, NoToken

\* Whatever can be refreshed has an access token and is stored as such.
LEMMA RefreshableIsMinted ==
  ASSUME NEW cred \in Credentials
  PROVE  /\ cred # NoCred => cred.access \in Grants
         /\ Refreshable(cred) => cred # NoCred
         /\ cred.access # NoToken => cred # NoCred
BY DEF Credentials, NoCred, Refreshable

\* A sign-in that is granted: its session is new, and nobody else is at it.
LEMMA GrantedSerial ==
  ASSUME CallsOK, TokensOK, SerialOK, Serialized, NEW c \in Callers, NEW p \in Providers,
         NEW method \in {"oauth", "device", "api_key"}, SignInGranted(c, p, method)
  PROVE  SerialOK'
<1>0. PICK n \in Grants : n = issued + 1
  BY DEF SignInGranted
<1>1. /\ UNCHANGED <<store, exchange, newest>>
      /\ issued' = n
      /\ session'[n] = n /\ \A m \in Grants \ {n} : session'[m] = session[m]
      /\ \A d \in Callers \ {c} : call'[d] = call[d]
      /\ call'[c].provider = p /\ call'[c].phase = "holding"
      /\ call'[c].cred.access = n /\ call'[c].cred.refresh \in {n, NoToken}
  BY <1>0 DEF SignInGranted, Busy, ApiKey, OAuth, CallsOK, TypeOK
<1>2. \A d \in Callers : ~IdleCaller(d) => call[d].provider # p
  BY DEF SignInGranted, MayStart, IdleCaller
<1>3. \A d \in Callers : Granting(d)' => Granting(d) /\ d # c
  BY <1>1 DEF Granting
<1>4. AloneOK' /\ CurrentOK' /\ ConsumedOK'
  BY <1>1, <1>2 DEF SerialOK, AloneOK, CurrentOK, ConsumedOK, IdleCaller
<1>5. \A q \in Providers, m \in Grants : Newer(q, m) => Newer(q, m)'
  BY <1>0, <1>1, MintedFields DEF Newer, Grants
<1>6. OrderOK'
  <2>1. \A q \in Providers : store[q].access <= newest[q] /\ newest[q] <= n
    BY <1>0, MintedFields DEF SerialOK, OrderOK, Grants, NoToken
  <2>2. Newer(p, n)'
    BY <1>0, <1>1, MintedFields DEF SerialOK, OrderOK, Newer, Grants
  <2>3. \A d \in Callers \ {c} :
          call[d].phase = "holding" =>
            /\ call[d].provider \in Providers /\ call[d].cred.access \in Grants
            /\ Newer(call[d].provider, call[d].cred.access)
    BY MintedFields DEF SerialOK, OrderOK, Newer, CallsOK, HoldingOK, NoToken
  <2>4. \A d \in Callers : Granting(d)' =>
          Newer(call[d].provider, exchange[call[d].exchange].reply.access)'
    BY <1>1, <1>3, <1>5, GrantingReply DEF SerialOK, OrderOK
  <2> QED
    BY <1>1, <1>5, <2>1, <2>2, <2>3, <2>4 DEF OrderOK
<1>7. SessionOK'
  <2>1. \A m \in Grants : m <= n => session'[m] # 0
    BY <1>0, <1>1, MintedFields DEF SerialOK, SessionOK, Grants
  <2>2. \A q \in Providers : Refreshable(store[q]) =>
          /\ session'[store[q].refresh] = session[store[q].refresh]
          /\ session'[store[q].access] = session[store[q].access]
    BY <1>0, <1>1, MintedFields, RefreshableIsMinted
       DEF CallsOK, TypeOK, Refreshable, Grants, NoToken
  <2>3. \A d \in Callers \ {c} : call[d].phase = "holding" =>
          session'[call[d].cred.access] = session[call[d].cred.access]
    BY <1>0, <1>1, MintedFields DEF SerialOK, OrderOK, Newer, CallsOK, HoldingOK, Grants, NoToken
  <2>4. \A d \in Callers : Granting(d) =>
          LET access == exchange[call[d].exchange].reply.access IN
            /\ session'[access] = session[access]
            /\ session'[call[d].cred.refresh] = session[call[d].cred.refresh]
    BY <1>0, <1>1, MintedFields, GrantingReply DEF SerialOK, OrderOK, Newer, Grants
  <2> QED
    BY <1>1, <1>3, <2>1, <2>2, <2>3, <2>4 DEF SerialOK, SessionOK
<1> QED
  BY <1>4, <1>6, <1>7 DEF SerialOK

\* A request that is sent: it shows the token the store holds.
LEMMA SendSerial ==
  ASSUME CallsOK, TokensOK, SerialOK, Serialized, NEW c \in Callers, NEW p \in Providers,
         NEW x \in Exchanges, RefreshSend(c, p, x)
  PROVE  SerialOK'
<1>1. /\ UNCHANGED <<store, issued, session, newest>>
      /\ \A d \in Callers \ {c} : call'[d] = call[d]
      /\ call'[c].phase = "waiting" /\ call'[c].provider = p
      /\ call'[c].cred = store[p] /\ call'[c].exchange = x
      /\ \A y \in Exchanges \ {x} : exchange'[y] = exchange[y]
      /\ exchange'[x].answer = "pending" /\ ~exchange'[x].stored
  BY DEF RefreshSend, Busy, Unsent, CallsOK, TypeOK
<1>2. \A d \in Callers : ~IdleCaller(d) => call[d].provider # p
  BY DEF RefreshSend, MayStart, IdleCaller
<1>3. \A d \in Callers : call[d].phase = "waiting" => call[d].exchange \in Exchanges \ {x}
  BY NoneAssumption DEF RefreshSend, CallsOK, WaitingOK, Unsent
<1>4. \A d \in Callers :
        Granting(d)' => /\ Granting(d) /\ d # c
                        /\ exchange'[call[d].exchange] = exchange[call[d].exchange]
  BY <1>1, <1>3 DEF Granting
<1>5. AloneOK' /\ CurrentOK' /\ ConsumedOK'
  BY <1>1, <1>2 DEF SerialOK, AloneOK, CurrentOK, ConsumedOK, IdleCaller
<1>6. OrderOK' /\ SessionOK'
  BY <1>1, <1>4 DEF SerialOK, OrderOK, SessionOK, Newer
<1> QED
  BY <1>5, <1>6 DEF SerialOK

\* A caller's put, of a credential newer than all that was stored: nobody else
\* has anything under way with that provider.
LEMMA PutSerial ==
  ASSUME CallsOK, TokensOK, SerialOK, NEW c \in Callers, ~IdleCaller(c),
         NEW p \in Providers, p = call[c].provider, NEW cred \in Credentials,
         Put(p, cred), call' = [call EXCEPT ![c] = Return(p, "ok")],
         UNCHANGED <<issued, session>>,
         \A x \in Exchanges : /\ exchange'[x].answer = exchange[x].answer
                              /\ exchange'[x].reply = exchange[x].reply,
         Newer(p, cred.access), cred.access \in Grants,
         Refreshable(cred) => session[cred.refresh] = session[cred.access]
  PROVE  AloneOK' /\ CurrentOK' /\ OrderOK' /\ SessionOK'
<1>1. /\ store'[p] = cred /\ newest'[p] = cred.access
      /\ \A q \in Providers \ {p} : store'[q] = store[q] /\ newest'[q] = newest[q]
      /\ \A d \in Callers \ {c} : call'[d] = call[d]
      /\ call'[c].phase = "idle"
  BY MintedFields DEF Put, Newer, Return, CallsOK, TypeOK, Grants
<1>2. \A d \in Callers \ {c} : ~IdleCaller(d) => call[d].provider # p
  BY OthersElsewhere DEF SerialOK
<1>3. \A d \in Callers \ {c} : ~IdleCaller(d) => call[d].provider \in Providers \ {p}
  BY <1>2 DEF CallsOK, TypeOK, Calls, WaitingOK, HoldingOK, IdleCaller
<1>4. \A d \in Callers :
        Granting(d)' => Granting(d) /\ d # c /\ call[d].exchange \in Exchanges
  BY <1>1 DEF Granting, CallsOK, WaitingOK
<1>5. AloneOK'
  BY <1>1 DEF SerialOK, AloneOK, IdleCaller
<1>6. CurrentOK'
  BY <1>1, <1>3 DEF SerialOK, CurrentOK, IdleCaller
<1>7. OrderOK'
  <2>1. \A q \in Providers : store'[q].access <= newest'[q] /\ newest'[q] <= issued
    BY <1>1 DEF SerialOK, OrderOK, Newer, Grants
  <2>2. \A d \in Callers : call'[d].phase = "holding" =>
          Newer(call[d].provider, call[d].cred.access)'
    BY <1>1, <1>3 DEF SerialOK, OrderOK, Newer, IdleCaller
  <2>3. \A d \in Callers : Granting(d)' =>
          Newer(call[d].provider, exchange[call[d].exchange].reply.access)'
    BY <1>1, <1>3, <1>4 DEF SerialOK, OrderOK, Newer, IdleCaller, Granting
  <2> QED
    BY <2>1, <2>2, <2>3 DEF OrderOK
<1>8. SessionOK'
  BY <1>1, <1>4 DEF SerialOK, SessionOK
<1> QED
  BY <1>5, <1>6, <1>7, <1>8

\* The application's put of what a flow returned.
LEMMA SignInStoredSerial ==
  ASSUME CallsOK, TokensOK, SerialOK, NEW c \in Callers, SignInStored(c)
  PROVE  SerialOK'
<1> DEFINE cred == call[c].cred
           p    == call[c].provider
<1>1. /\ call[c].phase = "holding" /\ ~IdleCaller(c)
      /\ p \in Providers /\ cred \in Credentials
      /\ Put(p, cred)
      /\ call' = [call EXCEPT ![c] = Return(p, "ok")]
      /\ UNCHANGED <<exchange, issued, session>>
  BY CallFields DEF SignInStored, Finish, CallsOK, HoldingOK, IdleCaller
<1>2. Newer(p, cred.access) /\ cred.access \in Grants
  BY <1>1, MintedFields DEF SerialOK, OrderOK, Newer, NoToken
<1>3. Refreshable(cred) => session[cred.refresh] = session[cred.access]
  BY <1>1 DEF SerialOK, SessionOK, Refreshable
<1>4. AloneOK' /\ CurrentOK' /\ OrderOK' /\ SessionOK'
  BY <1>1, <1>2, <1>3, PutSerial
<1>5. ConsumedOK'
  <2>1. \A x \in Exchanges : exchange[x].provider = p => exchange[x].token # cred.refresh
    BY <1>1, ZeroIsNoToken DEF TokensOK, FreshOK, Holds, Unused, Refreshable
  <2>2. store'[p] = cred /\ \A q \in Providers \ {p} : store'[q] = store[q]
    BY <1>1 DEF Put, CallsOK, TypeOK
  <2>3. \A x \in Exchanges : exchange[x].answer = "rotated" => exchange[x].provider \in Providers
    BY DEF TokensOK, ReplyOK, ReplyFits
  <2> QED
    BY <1>1, <2>1, <2>2, <2>3 DEF SerialOK, ConsumedOK
<1> QED
  BY <1>4, <1>5 DEF SerialOK

\* What refresh_stored has in hand when its provider answered with a grant.
LEMMA RefreshStoredFacts ==
  ASSUME CallsOK, TokensOK, SerialOK, NEW c \in Callers, RefreshStored(c)
  PROVE  LET x    == call[c].exchange
             p    == call[c].provider
             cred == Merge(call[c].cred, Result(c))
         IN  /\ call[c].phase = "waiting" /\ Granting(c)
             /\ x \in Exchanges /\ p \in Providers /\ cred \in Credentials
             /\ exchange[x].provider = p /\ ~exchange[x].stored
             /\ Refreshable(call[c].cred)
             /\ Put(p, cred)
             /\ call' = [call EXCEPT ![c] = Return(p, "ok")]
             /\ UNCHANGED <<issued, session>>
             /\ exchange' = [exchange EXCEPT ![x] = [@ EXCEPT !.stored = TRUE]]
             /\ cred.access = exchange[x].reply.access
             /\ Newer(p, cred.access) /\ cred.access \in Grants
             /\ session[cred.access] = session[call[c].cred.refresh]
             /\ session[cred.refresh] = session[cred.access]
             /\ \/ /\ exchange[x].answer = "rotated"
                   /\ cred.refresh = exchange[x].reply.refresh
                \/ /\ exchange[x].answer = "kept"
                   /\ cred.refresh = call[c].cred.refresh
<1> DEFINE x    == call[c].exchange
           p    == call[c].provider
           cred == Merge(call[c].cred, Result(c))
<1>1. Answered(c) /\ Result(c).ok /\ Granting(c)
  BY OkIsGranting DEF RefreshStored
<1>2. /\ call[c].phase = "waiting"
      /\ x \in Exchanges /\ p \in Providers /\ cred \in Credentials
      /\ exchange[x].provider = p /\ ~exchange[x].stored
      /\ exchange[x].token = call[c].cred.refresh
      /\ Refreshable(call[c].cred)
  BY <1>1, ResultTyped DEF Answered, CallsOK, WaitingOK
<1>3. /\ Put(p, cred)
      /\ call' = [call EXCEPT ![c] = Return(p, "ok")]
      /\ UNCHANGED <<issued, session>>
      /\ exchange' = [exchange EXCEPT ![x] = [@ EXCEPT !.stored = TRUE]]
  BY DEF RefreshStored, Finish
<1>4. cred.access = exchange[x].reply.access /\ cred.access \in Grants
  BY <1>1, GrantingReply DEF Merge, OAuth
<1>5. /\ Newer(p, cred.access)
      /\ session[cred.access] = session[call[c].cred.refresh]
  BY <1>1, <1>4 DEF SerialOK, OrderOK, SessionOK
<1>6. \/ exchange[x].answer = "rotated" /\ cred.refresh = exchange[x].reply.refresh
      \/ exchange[x].answer = "kept" /\ cred.refresh = call[c].cred.refresh
  BY <1>1, <1>2, RefreshedToken DEF TokensOK
<1>7. session[cred.refresh] = session[cred.access]
  BY <1>1, <1>4, <1>5, <1>6, GrantingReply
<1> QED
  BY <1>1, <1>2, <1>3, <1>4, <1>5, <1>6, <1>7

\* Nor does refresh_stored put what others rely on: the store holds what it read.
LEMMA RefreshStoredSerial ==
  ASSUME CallsOK, TokensOK, SerialOK, NEW c \in Callers, RefreshStored(c)
  PROVE  SerialOK'
<1> DEFINE x    == call[c].exchange
           p    == call[c].provider
           cred == Merge(call[c].cred, Result(c))
<1>1. /\ ~IdleCaller(c) /\ x \in Exchanges /\ p \in Providers /\ cred \in Credentials
      /\ exchange[x].provider = p /\ ~exchange[x].stored
      /\ Put(p, cred)
      /\ call' = [call EXCEPT ![c] = Return(p, "ok")]
      /\ UNCHANGED <<issued, session>>
      /\ exchange' = [exchange EXCEPT ![x] = [@ EXCEPT !.stored = TRUE]]
      /\ Newer(p, cred.access) /\ cred.access \in Grants
      /\ session[cred.refresh] = session[cred.access]
  BY RefreshStoredFacts DEF IdleCaller
<1>2. \A y \in Exchanges : /\ exchange'[y].answer = exchange[y].answer
                           /\ exchange'[y].reply = exchange[y].reply
                           /\ exchange'[y].provider = exchange[y].provider
                           /\ exchange'[y].token = exchange[y].token
                           /\ exchange'[y].stored => exchange[y].stored \/ y = x
  BY <1>1 DEF CallsOK, TypeOK, Requests
<1>3. AloneOK' /\ CurrentOK' /\ OrderOK' /\ SessionOK'
  BY <1>1, <1>2, PutSerial
<1>4. ConsumedOK'
  <2>1. store'[p] = cred /\ \A q \in Providers \ {p} : store'[q] = store[q]
    BY <1>1 DEF Put, CallsOK, TypeOK
  <2>2. \A y \in Exchanges : exchange[y].answer = "rotated" => exchange[y].provider \in Providers
    BY DEF TokensOK, ReplyOK, ReplyFits
  <2>3. CASE exchange[x].answer = "rotated" /\ cred.refresh = exchange[x].reply.refresh
    <3>1. \A y \in Exchanges : exchange[y].token # cred.refresh
      BY <1>1, <2>3 DEF TokensOK, FreshOK, Awaits, Unused
    <3> QED
      BY <1>1, <1>2, <2>1, <2>2, <3>1 DEF SerialOK, ConsumedOK
  <2>4. CASE exchange[x].answer = "kept" /\ cred.refresh = call[c].cred.refresh
    <3>1. store[p] = call[c].cred
      BY RefreshStoredFacts DEF SerialOK, CurrentOK
    <3> QED
      BY <1>2, <2>1, <2>2, <2>4, <3>1 DEF SerialOK, ConsumedOK
  <2> QED
    BY <2>3, <2>4, RefreshStoredFacts
<1> QED
  BY <1>3, <1>4 DEF SerialOK

\* A sign-out: nobody has anything under way with that provider.
LEMMA LogoutSerial ==
  ASSUME CallsOK, TokensOK, SerialOK, Serialized, NEW c \in Callers, NEW p \in Providers,
         Logout(c, p)
  PROVE  SerialOK'
<1>1. CASE UNCHANGED store
  <2>1. \E o \in Outcomes : call' = [call EXCEPT ![c] = Return(p, o)]
    BY DEF Logout, Outcomes
  <2>2. Leaves(c)
    BY <1>1, <2>1 DEF Leaves, Logout
  <2> QED
    BY <2>2, LeavingSerial
<1>2. CASE store' # store
  <2>1. /\ store'[p] = NoCred /\ \A q \in Providers \ {p} : store'[q] = store[q]
        /\ \A d \in Callers \ {c} : call'[d] = call[d]
        /\ call'[c].phase = "idle"
        /\ UNCHANGED <<exchange, issued, session, newest>>
    BY <1>2 DEF Logout, Return, CallsOK, TypeOK
  <2>2. \A d \in Callers : ~IdleCaller(d) => call[d].provider # p
    BY DEF Logout, MayStart, IdleCaller
  <2>3. \A d \in Callers : Granting(d)' => Granting(d) /\ d # c
    BY <2>1 DEF Granting
  <2>4. AloneOK'
    BY <2>1 DEF SerialOK, AloneOK, IdleCaller
  <2>5. CurrentOK'
    BY <2>1, <2>2 DEF SerialOK, CurrentOK, IdleCaller, CallsOK, WaitingOK
  <2>6. OrderOK'
    BY <2>1, <2>3, MintedFields DEF SerialOK, OrderOK, Newer, NoCred, NoToken
  <2>7. SessionOK'
    BY <2>1, <2>3 DEF SerialOK, SessionOK, Refreshable, NoCred
  <2>8. ConsumedOK'
    BY <2>1, ZeroIsNoToken DEF SerialOK, ConsumedOK, TokensOK, ReplyOK, ReplyFits, NoCred
  <2> QED
    BY <2>4, <2>5, <2>6, <2>7, <2>8 DEF SerialOK
<1> QED
  BY <1>1, <1>2

\* A provider's grant: the newest of all, in the session of the token shown.
LEMMA AnsweredSerial ==
  ASSUME CallsOK, TokensOK, SerialOK, NEW x \in Exchanges, GrantAgain(x),
         NEW answer \in {"rotated", "kept"}, NEW refresh,
         Respond(x, answer, Granted(issued + 1, refresh))
  PROVE  SerialOK'
<1>0. PICK n \in Grants : n = issued + 1
  BY DEF GrantAgain
<1>1. /\ UNCHANGED <<store, call, newest>>
      /\ issued' = n /\ ~exchange[x].stored /\ exchange[x].token \in Grants
      /\ session'[n] = session[exchange[x].token]
      /\ \A m \in Grants \ {n} : session'[m] = session[m]
      /\ \A y \in Exchanges \ {x} : exchange'[y] = exchange[y]
      /\ exchange'[x].token = exchange[x].token
      /\ exchange'[x].reply.access = n /\ ~exchange'[x].stored
  BY <1>0, GrantAgainFacts DEF GrantAgain, Respond, Granted, CallsOK, TypeOK, Requests
<1>2. \A c \in Callers :
        call[c].phase = "waiting" /\ call[c].exchange = x =>
          call[c].provider \in Providers /\ exchange[x].token = call[c].cred.refresh
  BY DEF CallsOK, WaitingOK
<1>3. \A c \in Callers :
        Granting(c)' => /\ call[c].phase = "waiting"
                        /\ call[c].exchange # x => Granting(c)
  BY <1>1 DEF Granting, CallsOK, WaitingOK
<1>4. AloneOK' /\ CurrentOK' /\ ConsumedOK'
  BY <1>1 DEF SerialOK, AloneOK, CurrentOK, ConsumedOK, IdleCaller
<1>5. \A q \in Providers, m \in Grants : Newer(q, m) => Newer(q, m)'
  BY <1>0, <1>1, MintedFields DEF Newer, Grants
<1>6. OrderOK'
  <2>1. \A q \in Providers : store[q].access <= newest[q] /\ newest[q] <= n
    BY <1>0, MintedFields DEF SerialOK, OrderOK, Grants, NoToken
  <2>2. \A q \in Providers : Newer(q, n)'
    BY <1>0, <1>1, MintedFields DEF SerialOK, OrderOK, Newer, Grants
  <2>3. \A c \in Callers :
          call[c].phase = "holding" =>
            /\ call[c].provider \in Providers /\ call[c].cred.access \in Grants
            /\ Newer(call[c].provider, call[c].cred.access)
    BY MintedFields DEF SerialOK, OrderOK, Newer, CallsOK, HoldingOK, NoToken
  <2>4. ASSUME NEW c \in Callers, Granting(c)'
        PROVE  Newer(call[c].provider, exchange[call[c].exchange].reply.access)'
    <3>1. CASE call[c].exchange = x
      BY <1>1, <1>2, <1>3, <2>2, <2>4, <3>1
    <3>2. CASE call[c].exchange # x
      <4>1. Granting(c) /\ exchange'[call[c].exchange] = exchange[call[c].exchange]
        BY <1>1, <1>3, <2>4, <3>2, GrantingReply
      <4> QED
        BY <1>1, <1>5, <4>1, GrantingReply DEF SerialOK, OrderOK
    <3> QED
      BY <3>1, <3>2
  <2> QED
    BY <1>1, <1>5, <2>1, <2>3, <2>4 DEF OrderOK
<1>7. SessionOK'
  <2>1. \A m \in Grants : m <= n => session'[m] # 0
    BY <1>0, <1>1, MintedFields DEF SerialOK, SessionOK, TokensOK, MintedOK, Grants
  <2>2. \A q \in Providers : Refreshable(store[q]) =>
          /\ session'[store[q].refresh] = session[store[q].refresh]
          /\ session'[store[q].access] = session[store[q].access]
    BY <1>0, <1>1, MintedFields, RefreshableIsMinted
       DEF CallsOK, TypeOK, Refreshable, Grants, NoToken
  <2>3. \A c \in Callers : call[c].phase = "holding" =>
          session'[call[c].cred.access] = session[call[c].cred.access]
    BY <1>0, <1>1, MintedFields DEF SerialOK, OrderOK, Newer, CallsOK, HoldingOK, Grants, NoToken
  <2>4. ASSUME NEW c \in Callers, Granting(c)'
        PROVE  session'[exchange'[call[c].exchange].reply.access]
                 = session'[call[c].cred.refresh]
    <3>1. session'[call[c].cred.refresh] = session[call[c].cred.refresh]
      BY <1>0, <1>1, <1>3, <2>4, MintedFields DEF CallsOK, WaitingOK, Refreshable, Grants, NoToken
    <3>2. CASE call[c].exchange = x
      BY <1>1, <1>2, <1>3, <2>4, <3>1, <3>2
    <3>3. CASE call[c].exchange # x
      <4>1. Granting(c) /\ exchange'[call[c].exchange] = exchange[call[c].exchange]
        BY <1>1, <1>3, <2>4, <3>3, GrantingReply
      <4>2. session'[exchange[call[c].exchange].reply.access]
              = session[exchange[call[c].exchange].reply.access]
        BY <1>0, <1>1, <4>1, MintedFields, GrantingReply DEF SerialOK, OrderOK, Newer, Grants
      <4> QED
        BY <3>1, <4>1, <4>2 DEF SerialOK, SessionOK
    <3> QED
      BY <3>2, <3>3
  <2> QED
    BY <1>1, <2>1, <2>2, <2>3, <2>4 DEF SerialOK, SessionOK
<1> QED
  BY <1>4, <1>6, <1>7 DEF SerialOK

\* A refusal decides nothing.
LEMMA RefusesSerial ==
  ASSUME CallsOK, TokensOK, SerialOK, NEW x \in Exchanges, ServerRefuses(x)
  PROVE  SerialOK'
<1>1. /\ UNCHANGED <<store, call, issued, session, newest>>
      /\ \A y \in Exchanges \ {x} : exchange'[y] = exchange[y]
      /\ exchange'[x].answer = "refused"
  BY DEF ServerRefuses, Respond, CallsOK, TypeOK, Requests
<1>2. \A c \in Callers :
        Granting(c)' => /\ Granting(c)
                        /\ exchange'[call[c].exchange] = exchange[call[c].exchange]
  BY <1>1 DEF Granting, CallsOK, WaitingOK
<1>3. AloneOK' /\ CurrentOK' /\ ConsumedOK'
  BY <1>1 DEF SerialOK, AloneOK, CurrentOK, ConsumedOK, IdleCaller
<1>4. OrderOK' /\ SessionOK'
  BY <1>1, <1>2 DEF SerialOK, OrderOK, SessionOK, Newer
<1> QED
  BY <1>3, <1>4 DEF SerialOK

\* Every step keeps calls in sequence.
LEMMA SerialPreserved ==
  ASSUME CallsOK, TokensOK, SerialOK, Serialized, [Next]_vars
  PROVE  SerialOK'
<1>1. ASSUME NEW x \in Exchanges, ServerRotates(x)
      PROVE  SerialOK'
  BY <1>1, AnsweredSerial DEF ServerRotates
<1>2. ASSUME NEW x \in Exchanges, ServerKeeps(x)
      PROVE  SerialOK'
  BY <1>2, AnsweredSerial DEF ServerKeeps
<1>3. CASE UNCHANGED vars
  BY <1>3 DEF vars, SerialOK, AloneOK, CurrentOK, OrderOK, SessionOK, ConsumedOK,
     Granting, Newer, IdleCaller
<1> QED
  BY <1>1, <1>2, <1>3, StepCases, LeavingSerial, GrantedSerial, SignInStoredSerial,
     SendSerial, RefreshStoredSerial, LogoutSerial, RefusesSerial DEF CallsOK

\* The invariant holds in every behaviour of an application that serializes.
LEMMA SerialInvariant == Serialized => (Spec => []SerialOK)
<1> SUFFICES ASSUME Serialized PROVE Spec => []SerialOK
  OBVIOUS
<1>1. CallsOK /\ TokensOK /\ SerialOK /\ [Next]_vars => SerialOK'
  BY SerialPreserved
<1> QED
  BY <1>1, InitSerial, CallsInvariant, TokensInvariant, PTL DEF Spec

\* For any callers, providers and grants: when the application runs one call per
\* provider at a time, a dead refresh token in the store is a rotation whose
\* result was lost, even with providers that rotate at will (refresh_stored).
THEOREM SerializedTokenDeathExplained == Spec => []TokenDeathExplainedSerialized
<1>1. TokensOK /\ SerialOK => TokenDeathExplainedSerialized
  BY DEF TokensOK, KnownOK, SerialOK, ConsumedOK, TokenDeathExplainedSerialized,
         DeathExplained, LostRotation, Rotated
<1>2. ~Serialized => TokenDeathExplainedSerialized
  BY DEF TokenDeathExplainedSerialized
<1>3. CASE Serialized
  BY <1>1, <1>3, TokensInvariant, SerialInvariant, PTL
<1>4. CASE ~Serialized
  BY <1>2, <1>4, PTL
<1> QED
  BY <1>3, <1>4

\* A step brings a credential into the store only by putting one.
LEMMA OnlyPutsStore ==
  ASSUME CallsOK, [Next]_vars, NEW p \in Providers, store'[p] # store[p], store'[p] # NoCred
  PROVE  \E c \in Callers : /\ call[c].provider = p
                            /\ SignInStored(c) \/ RefreshStored(c)
<1>1. ASSUME NEW c \in Callers, SignInStored(c) \/ RefreshStored(c)
      PROVE  call[c].provider = p
  BY <1>1 DEF SignInStored, RefreshStored, Put, CallsOK, TypeOK
<1>2. ASSUME NEW c \in Callers, NEW q \in Providers, Logout(c, q)
      PROVE  FALSE
  BY <1>2 DEF Logout, CallsOK, TypeOK
<1>3. ASSUME UNCHANGED store
      PROVE  FALSE
  BY <1>3
<1> QED
  BY <1>1, <1>2, <1>3, StepCases
     DEF CallsOK, Leaves, SignInGranted, RefreshSend, ServerRotates, ServerKeeps,
         ServerRefuses, GrantAgain, vars

\* When the application runs one call per provider at a time, a credential that
\* was signed out of comes back by a sign-in only: no refresh is under way then
\* (refresh_stored, logout).
THEOREM SerializedSignOutLasts == Serialized => (Spec => SignedOutUntilSignIn)
<1> SUFFICES ASSUME Serialized PROVE Spec => SignedOutUntilSignIn
  OBVIOUS
<1>1. ASSUME CallsOK, TokensOK, SerialOK, [Next]_vars, NEW p \in Providers,
             store[p] = NoCred, store'[p] # NoCred
      PROVE  \E c \in Callers : call[c].phase = "holding" /\ call[c].provider = p
  <2>1. PICK c \in Callers : call[c].provider = p /\ (SignInStored(c) \/ RefreshStored(c))
    BY <1>1, OnlyPutsStore
  <2>2. CASE SignInStored(c)
    BY <2>1, <2>2 DEF SignInStored
  <2>3. CASE RefreshStored(c)
    <3>1. store[p] = call[c].cred /\ Refreshable(call[c].cred)
      BY <1>1, <2>1, <2>3, RefreshStoredFacts DEF SerialOK, CurrentOK
    <3> QED
      BY <1>1, <3>1 DEF Refreshable, NoCred
  <2> QED
    BY <2>1, <2>2, <2>3
<1>2. CallsOK /\ TokensOK /\ SerialOK /\ [Next]_vars =>
        [\A p \in Providers :
           store[p] = NoCred /\ store'[p] # NoCred =>
             \E c \in Callers : call[c].phase = "holding" /\ call[c].provider = p]_vars
  BY <1>1
<1> QED
  BY <1>2, CallsInvariant, TokensInvariant, SerialInvariant, PTL
     DEF Spec, SignedOutUntilSignIn

-----------------------------------------------------------------------------
(* Each step is a step of the credential lifecycle, or none of it. *)

\* A grant gives its session to a token that nobody has stored.
LEMMA StoredSessionsStand ==
  ASSUME CallsOK, TokensOK, SerialOK, UNCHANGED store,
         \A n \in Grants : n <= issued => session'[n] = session[n]
  PROVE  \A p \in Providers : SessionOf(store[p])' = SessionOf(store[p])
BY MintedFields, RefreshableIsMinted DEF SessionOf, CallsOK, TypeOK

\* What is left alone in the store is left alone in the lifecycle.
LEMMA LifecycleStutters ==
  ASSUME CallsOK, TokensOK, SerialOK, UNCHANGED <<store, newest>>,
         \A n \in Grants : n <= issued => session'[n] = session[n]
  PROVE  UNCHANGED Lifecycle!vars
BY StoredSessionsStand DEF Lifecycle!vars

\* A put shows as the new session and access token of one provider.
LEMMA LifecyclePut ==
  ASSUME CallsOK, NEW p \in Providers, NEW cred \in Credentials, cred.access \in Grants,
         Newer(p, cred.access), Put(p, cred), UNCHANGED session
  PROVE  /\ [q \in Providers |-> SessionOf(store[q])]'
              = [[q \in Providers |-> SessionOf(store[q])]
                   EXCEPT ![p] = session[cred.access]]
         /\ [q \in Providers |-> store[q].access]'
              = [[q \in Providers |-> store[q].access] EXCEPT ![p] = cred.access]
         /\ newest' = [newest EXCEPT ![p] = cred.access]
<1>1. /\ store' = [store EXCEPT ![p] = cred]
      /\ newest' = [newest EXCEPT ![p] = cred.access]
  BY DEF Put, Newer
<1>2. cred # NoCred
  BY DEF NoCred, Grants, NoToken
<1>3. \A q \in Providers :
        /\ SessionOf(store[q])' = IF q = p THEN session[cred.access] ELSE SessionOf(store[q])
        /\ store'[q].access = IF q = p THEN cred.access ELSE store[q].access
  BY <1>1, <1>2 DEF SessionOf, CallsOK, TypeOK
<1> QED
  BY <1>1, <1>3

\* The grants that may still be put are fresh for the lifecycle.
LEMMA NewerIsFresh ==
  ASSUME CallsOK, NEW p \in Providers, NEW n \in Grants, Newer(p, n)
  PROVE  n \in Lifecycle!Fresh(p)
BY DEF Newer, CallsOK, TypeOK, Grants, Lifecycle!Fresh

\* The application's put of a flow's credential is the lifecycle's sign-in.
LEMMA SignInStoredSignsIn ==
  ASSUME CallsOK, TokensOK, SerialOK, NEW c \in Callers, SignInStored(c)
  PROVE  \E p \in Providers : Lifecycle!SignIn(p)
<1>1. PICK p \in Providers, cred \in Credentials :
        /\ p = call[c].provider /\ cred = call[c].cred
        /\ call[c].phase = "holding" /\ Put(p, cred) /\ UNCHANGED session
  BY CallFields DEF SignInStored, CallsOK, HoldingOK
<1>2. /\ Newer(p, cred.access) /\ cred.access \in Grants
      /\ session[cred.access] = cred.access
  BY <1>1, MintedFields DEF SerialOK, OrderOK, SessionOK, Newer, NoToken
<1>3. PICK n \in Lifecycle!Fresh(p) : n = cred.access
  BY <1>2, NewerIsFresh
<1>4. /\ [q \in Providers |-> SessionOf(store[q])]'
           = [[q \in Providers |-> SessionOf(store[q])] EXCEPT ![p] = session[cred.access]]
      /\ [q \in Providers |-> store[q].access]'
           = [[q \in Providers |-> store[q].access] EXCEPT ![p] = cred.access]
      /\ newest' = [newest EXCEPT ![p] = cred.access]
  BY <1>1, <1>2, LifecyclePut
<1>5. Lifecycle!SignIn(p)
  BY <1>2, <1>3, <1>4, Zenon DEF Lifecycle!SignIn
<1> QED
  BY <1>5

\* refresh_stored renews the session the store holds, and no other.
LEMMA RefreshStoredRenews ==
  ASSUME CallsOK, TokensOK, SerialOK, NEW c \in Callers, RefreshStored(c)
  PROVE  \E p \in Providers : Lifecycle!Renew(p)
<1>1. PICK p \in Providers, cred \in Credentials :
        /\ p = call[c].provider /\ cred = Merge(call[c].cred, Result(c))
        /\ Refreshable(call[c].cred) /\ call[c].phase = "waiting"
        /\ Put(p, cred) /\ UNCHANGED session
        /\ Newer(p, cred.access) /\ cred.access \in Grants
        /\ session[cred.access] = session[call[c].cred.refresh]
  BY RefreshStoredFacts
<1>2. store[p] = call[c].cred /\ store[p] # NoCred /\ store[p].access \in Grants
  BY <1>1, RefreshableIsMinted DEF SerialOK, CurrentOK, CallsOK, TypeOK
<1>3. session[cred.access] = session[store[p].access] /\ session[store[p].access] # 0
  BY <1>1, <1>2, MintedFields DEF SerialOK, SessionOK
<1>4. SessionOf(store[p]) = session[cred.access] /\ SessionOf(store[p]) # 0
  BY <1>2, <1>3 DEF SessionOf
<1>5. PICK n \in Lifecycle!Fresh(p) : n = cred.access
  BY <1>1, NewerIsFresh
<1>6. /\ [q \in Providers |-> SessionOf(store[q])]'
           = [[q \in Providers |-> SessionOf(store[q])] EXCEPT ![p] = session[cred.access]]
      /\ [q \in Providers |-> store[q].access]'
           = [[q \in Providers |-> store[q].access] EXCEPT ![p] = cred.access]
      /\ newest' = [newest EXCEPT ![p] = cred.access]
  BY <1>1, LifecyclePut
<1>7. UNCHANGED [q \in Providers |-> SessionOf(store[q])]
  BY <1>4, <1>6
<1>8. [q \in Providers |-> SessionOf(store[q])][p] # 0
  BY <1>4
<1>9. Lifecycle!Renew(p)
  BY <1>5, <1>6, <1>7, <1>8, Zenon DEF Lifecycle!Renew
<1> QED
  BY <1>9

\* A logout that deletes ends the session; one that fails leaves it.
LEMMA LogoutSignsOut ==
  ASSUME CallsOK, TokensOK, SerialOK, NEW c \in Callers, NEW p \in Providers, Logout(c, p)
  PROVE  Lifecycle!SignOut(p) \/ UNCHANGED Lifecycle!vars
<1>1. UNCHANGED <<session, newest>>
  BY DEF Logout
<1>2. CASE UNCHANGED store
  BY <1>1, <1>2, LifecycleStutters
<1>3. CASE store' # store
  <2>1. store' = [store EXCEPT ![p] = NoCred]
    BY <1>3 DEF Logout
  <2>2. \A q \in Providers :
          /\ SessionOf(store[q])' = IF q = p THEN 0 ELSE SessionOf(store[q])
          /\ store'[q].access = IF q = p THEN 0 ELSE store[q].access
    BY <1>1, <2>1 DEF SessionOf, NoCred, NoToken, CallsOK, TypeOK
  <2> QED
    BY <1>1, <2>2 DEF Lifecycle!SignOut
<1> QED
  BY <1>2, <1>3

\* Every other step leaves what is stored, and its session, as they were.
LEMMA OthersStutter ==
  ASSUME CallsOK, TokensOK, SerialOK,
         \/ \E c \in Callers : Leaves(c)
         \/ \E c \in Callers, p \in Providers,
              method \in {"oauth", "device", "api_key"} : SignInGranted(c, p, method)
         \/ \E c \in Callers, p \in Providers, x \in Exchanges : RefreshSend(c, p, x)
         \/ \E x \in Exchanges : ServerRotates(x) \/ ServerKeeps(x) \/ ServerRefuses(x)
         \/ UNCHANGED vars
  PROVE  UNCHANGED Lifecycle!vars
<1>1. UNCHANGED <<store, newest>>
  BY DEF Leaves, SignInGranted, RefreshSend, ServerRotates, ServerKeeps, ServerRefuses,
         GrantAgain, vars
<1>2. \/ UNCHANGED session
      \/ \E s : session' = [session EXCEPT ![issued + 1] = s]
  BY DEF Leaves, SignInGranted, RefreshSend, ServerRotates, ServerKeeps, ServerRefuses,
         GrantAgain, vars
<1>3. \A n \in Grants : n <= issued => session'[n] = session[n]
  <2>1. CASE UNCHANGED session
    BY <2>1
  <2>2. CASE \E s : session' = [session EXCEPT ![issued + 1] = s]
    <3>1. \A n \in Grants : n <= issued => n # issued + 1
      BY MintedFields DEF Grants
    <3> QED
      BY <2>2, <3>1 DEF CallsOK, TypeOK
  <2> QED
    BY <1>2, <2>1, <2>2
<1> QED
  BY <1>1, <1>3, LifecycleStutters

\* One step of the lifecycle, or none.
LEMMA LifecycleStep ==
  ASSUME CallsOK, TokensOK, SerialOK, [Next]_vars
  PROVE  [Lifecycle!Next]_(Lifecycle!vars)
BY StepCases, SignInStoredSignsIn, RefreshStoredRenews, LogoutSignsOut, OthersStutter
   DEF CallsOK, Lifecycle!Next

\* When the application runs one call per provider at a time, sign-ins,
\* refreshes and sign-outs take effect one at a time and in order: a refresh
\* renews the stored session and no other, whatever the servers do, and nothing
\* but a sign-in follows a sign-out (refresh_stored, logout).
THEOREM LifecycleImplemented == Serialized => (Spec => LifecycleSpec)
<1>1. Init => Lifecycle!Init
  BY DEF Init, Lifecycle!Init, SessionOf, NoCred, NoToken
<1>2. CallsOK /\ TokensOK /\ SerialOK /\ [Next]_vars => [Lifecycle!Next]_(Lifecycle!vars)
  BY LifecycleStep
<1> QED
  BY <1>1, <1>2, CallsInvariant, TokensInvariant, SerialInvariant, PTL
     DEF Spec, LifecycleSpec, Lifecycle!Spec
=============================================================================
