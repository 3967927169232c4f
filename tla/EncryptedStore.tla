---------------------------- MODULE EncryptedStore ----------------------------
(***************************************************************************)
(* The encrypted credential store (encrypted_store.rs): threads share a    *)
(* map of sealed credentials under one mutex.  put seals before it takes   *)
(* the lock and get opens after it has released it, so neither holds the   *)
(* lock over the cipher; a panic while the lock is held poisons it.        *)
(*                                                                         *)
(* A section under the lock is one step.  Sealed bytes are the key they    *)
(* were sealed under and the credential inside; nonces are left out.       *)
(***************************************************************************)
CONSTANTS
  Threads, Providers, Secrets,
  Keys,   \* the keys an application may construct the store with
  None    \* no provider, no bytes

VARIABLES
  key,       \* the cipher's
  sealed,    \* per provider, the sealed bytes
  poisoned,  \* the mutex
  thread     \* per thread, the operation in progress or the last answer

vars == <<key, sealed, poisoned, thread>>

Credentials == [provider : Providers, secret : Secrets]
Bytes == [under : Keys, plain : Credentials]

ASSUME NoneAssumption == None \notin Providers \cup Bytes

\* An answer is a set: of the one credential found, of the providers listed, or
\* empty when there is nothing to tell.
Ok(value) == [ok |-> TRUE, value |-> value]
Error == [ok |-> FALSE, value |-> {}]

\* A put carries its credential until it is sealed, its bytes from then on.
Idle(answer) == [phase |-> "idle", kind |-> "none", provider |-> None,
                 carried |-> None, answer |-> answer]
Busy(phase, kind, p, carried) ==
  [phase |-> phase, kind |-> kind, provider |-> p, carried |-> carried,
   answer |-> None]

Init ==
  /\ key \in Keys
  /\ sealed = [p \in Providers |-> None]
  /\ poisoned = FALSE
  /\ thread = [t \in Threads |-> Idle(Ok({}))]

-----------------------------------------------------------------------------
Seal(cred) == [under |-> key, plain |-> cred]

\* Authenticated decryption: the wrong key yields an error, not a credential.
Open(bytes) == IF bytes.under = key THEN Ok({bytes.plain}) ELSE Error

Opened(entry) == IF entry = None THEN Ok({}) ELSE Open(entry)

Become(t, record) ==
  /\ thread' = [thread EXCEPT ![t] = record]
  /\ UNCHANGED <<key, poisoned>>

Call(t, kind, p, phase, carried) ==
  /\ thread[t].phase = "idle"
  /\ Become(t, Busy(phase, kind, p, carried))
  /\ UNCHANGED sealed

Locking(t, kind) == thread[t].phase = "locking" /\ thread[t].kind = kind

\* Mutant: the guard of a poisoned lock is recovered.
LockedAnyway(t, kind) == Locking(t, kind)

\* The section under a healthy lock; a poisoned one is an error.
Locked(t, kind) == Locking(t, kind) /\ ~poisoned

LockPoisoned(t) ==
  /\ \E kind \in {"put", "get", "delete", "providers"} : Locking(t, kind)
  /\ poisoned
  /\ Become(t, Idle(Error))
  /\ UNCHANGED sealed

-----------------------------------------------------------------------------
PutCall(t) ==
  \E cred \in Credentials : Call(t, "put", cred.provider, "sealing", cred)

\* Mutant: the credential goes into the map as it is.
PutPlain(t) ==
  /\ thread[t].phase = "sealing"
  /\ Become(t, Busy("locking", "put", thread[t].provider, thread[t].carried))
  /\ UNCHANGED sealed

PutSeal(t) ==
  /\ thread[t].phase = "sealing"
  /\ Become(t, Busy("locking", "put", thread[t].provider, Seal(thread[t].carried)))
  /\ UNCHANGED sealed

\* The serializer or the cipher refuses.
PutUnsealed(t) ==
  /\ thread[t].phase = "sealing"
  /\ Become(t, Idle(Error))
  /\ UNCHANGED sealed

PutInsert(t) ==
  /\ Locked(t, "put")
  /\ sealed' = [sealed EXCEPT ![thread[t].provider] = thread[t].carried]
  /\ Become(t, Idle(Ok({})))

\* The bytes are cloned under the lock and opened outside it.
GetCall(t) == \E p \in Providers : Call(t, "get", p, "locking", None)

GetClone(t) ==
  /\ Locked(t, "get")
  /\ Become(t, Busy("opening", "get", thread[t].provider, sealed[thread[t].provider]))
  /\ UNCHANGED sealed

GetOpen(t) ==
  /\ thread[t].phase = "opening"
  /\ Become(t, Idle(Opened(thread[t].carried)))
  /\ UNCHANGED sealed

DeleteCall(t) == \E p \in Providers : Call(t, "delete", p, "locking", None)

DeleteRemove(t) ==
  /\ Locked(t, "delete")
  /\ sealed' = [sealed EXCEPT ![thread[t].provider] = None]
  /\ Become(t, Idle(Ok({})))

ProvidersCall(t) == Call(t, "providers", None, "locking", None)

ProvidersKeys(t) ==
  /\ Locked(t, "providers")
  /\ Become(t, Idle(Ok({p \in Providers : sealed[p] # None})))
  /\ UNCHANGED sealed

\* sealed_len takes the guard of a poisoned lock all the same.
SealedLenCall(t) == \E p \in Providers : Call(t, "sealed_len", p, "locking", None)

SealedLen(t) ==
  /\ Locking(t, "sealed_len")
  /\ Become(t, Idle(Ok({p \in {thread[t].provider} : sealed[p] # None})))
  /\ UNCHANGED sealed

\* A thread panics with the lock in its hands; the map keeps its entries.
Poison ==
  /\ poisoned' = TRUE
  /\ UNCHANGED <<key, sealed, thread>>

Next ==
  \/ \E t \in Threads :
       \/ LockPoisoned(t)
       \/ PutCall(t) \/ PutSeal(t) \/ PutUnsealed(t) \/ PutInsert(t)
       \/ GetCall(t) \/ GetClone(t) \/ GetOpen(t)
       \/ DeleteCall(t) \/ DeleteRemove(t)
       \/ ProvidersCall(t) \/ ProvidersKeys(t)
       \/ SealedLenCall(t) \/ SealedLen(t)
  \/ Poison

Spec == Init /\ [][Next]_vars

-----------------------------------------------------------------------------
\* The state stays well-formed: among others, an operation carries a plain
\* credential only before put has sealed it, and the map never holds one.
TypeOK ==
  /\ key \in Keys
  /\ sealed \in [Providers -> Bytes \cup {None}]
  /\ poisoned \in BOOLEAN
  /\ \A t \in Threads :
       /\ thread[t].phase \in {"idle", "sealing", "locking", "opening"}
       /\ thread[t].provider \in Providers \cup {None}
       /\ thread[t].carried \in
            IF thread[t].phase = "sealing" THEN Credentials ELSE Bytes \cup {None}

-----------------------------------------------------------------------------
(* What the store implements. *)

\* The credentials behind an entry: one, or none.
Plain(entry) == Opened(entry).value

\* The operation in progress as the trait's caller sees it.
Seen(o) ==
  IF o.phase = "idle" THEN [phase |-> "idle", request |-> None, answer |-> o.answer]
  ELSE IF o.phase = "opening"
  THEN [phase |-> "read", request |-> None, answer |-> Opened(o.carried)]
  ELSE [phase |-> "called", answer |-> None,
        request |-> [kind |-> o.kind, provider |-> o.provider,
                     cred |-> IF o.phase = "sealing" THEN {o.carried}
                              ELSE Plain(o.carried)]]

Map ==
  INSTANCE CredentialMap WITH
    held <- [p \in Providers |-> Plain(sealed[p])],
    broken <- poisoned,
    op <- [t \in Threads |-> Seen(thread[t])]

\* However the cipher's work and the locked sections of several threads
\* interleave, every operation takes effect at one instant on a plain map, and
\* a poisoned lock is reported and never served or repaired by put, get, delete
\* and providers.
MapSpec == Map!Spec
=============================================================================
