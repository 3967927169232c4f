--------------------------- MODULE CredentialExpiry ---------------------------
(***************************************************************************)
(* The life of an access token on the clock: the absolute expiry computed  *)
(* when the token is minted (flow/mod.rs), and what is_expired answers     *)
(* when a caller asks later (credentials.rs).  Seconds are i64 values, of  *)
(* a width given by the constants; an optional number is a set of at most  *)
(* one element.                                                            *)
(***************************************************************************)
EXTENDS Integers

CONSTANTS
  MaxI64,     \* i64::MAX
  MinI64,     \* i64::MIN
  Lifetimes   \* the expires_in values a provider may send

ASSUME I64Assumption ==
  MaxI64 \in Nat /\ MinI64 \in Int /\ MinI64 <= -MaxI64

I64 == MinI64 .. MaxI64

ASSUME LifetimesAssumption == Lifetimes \subseteq I64

\* Mutant: a sum that wraps.
WrappingAdd(a, b) ==
  LET width == MaxI64 - MinI64 + 1 IN
  CASE a + b > MaxI64 -> a + b - width
    [] a + b < MinI64 -> a + b + width
    [] OTHER -> a + b

\* i64::saturating_add.
SaturatingAdd(a, b) ==
  CASE a + b > MaxI64 -> MaxI64
    [] a + b < MinI64 -> MinI64
    [] OTHER -> a + b

\* The expires_at_unix of a token minted at some second.
ExpiryFromExpiresIn(expires_in, minted) == {SaturatingAdd(minted, e) : e \in expires_in}

IsExpired(expires_at, asked) == \E exp \in expires_at : asked >= exp
=============================================================================
