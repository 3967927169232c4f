------------------------------ MODULE MemoryStore ------------------------------
(***************************************************************************)
(* The in-memory credential store (credentials.rs): threads share a map    *)
(* under one readers-writer lock.  Reads walk the map entry by entry while *)
(* other readers do; a clone is such a walk, on a poisoned lock as well.   *)
(***************************************************************************)
CONSTANTS
  Threads, Providers, Secrets,
  None   \* no provider

ASSUME NoneAssumption == None \notin Providers

VARIABLES
  entries,   \* per provider the credential stored, a set of at most one
  poisoned,  \* the lock
  thread     \* per thread, the operation in progress or the last answer

vars == <<entries, poisoned, thread>>

Credentials == [provider : Providers, secret : Secrets]

Ok(value) == [ok |-> TRUE, value |-> value]
Error == [ok |-> FALSE, value |-> {}]

Idle(answer) == [phase |-> "idle", kind |-> "none", cred |-> {}, left |-> {},
                 found |-> {}, answer |-> answer]

\* An operation on the providers in left, those a read has not seen yet.
Begun(kind, left, cred) ==
  [phase |-> "locking", kind |-> kind, cred |-> cred, left |-> left,
   found |-> {}, answer |-> None]

\* A read between two entries.
Walking(kind, left, found) ==
  [phase |-> "reading", kind |-> kind, cred |-> {}, left |-> left, found |-> found,
   answer |-> None]

Init ==
  /\ entries = [p \in Providers |-> {}]
  /\ poisoned = FALSE
  /\ thread = [t \in Threads |-> Idle(Ok({}))]

-----------------------------------------------------------------------------
Become(t, record) == thread' = [thread EXCEPT ![t] = record]
Enter(t, phase) == Become(t, [thread[t] EXCEPT !.phase = phase])

Inside(phase) == {t \in Threads : thread[t].phase = phase}
Writes == {"put", "delete"}

\* Mutant: a writer waits for writers only.
TurnAmongReaders(t, kinds) ==
  /\ thread[t].phase = "locking" /\ thread[t].kind \in kinds
  /\ Inside("writing") = {}

\* The lock goes to one writer, or to any number of readers.
Turn(t, kinds) ==
  /\ thread[t].phase = "locking" /\ thread[t].kind \in kinds
  /\ Inside("writing") = {}
  /\ thread[t].kind \in Writes => Inside("reading") = {}

Call(t) ==
  /\ thread[t].phase = "idle"
  /\ \/ \E cred \in Credentials : Become(t, Begun("put", {cred.provider}, {cred}))
     \/ \E kind \in {"get", "delete"}, p \in Providers : Become(t, Begun(kind, {p}, {}))
     \/ \E kind \in {"providers", "clone"} : Become(t, Begun(kind, Providers, {}))
  /\ UNCHANGED <<entries, poisoned>>

\* Once the lock is poisoned, every operation is an error; a clone is none.
LockPoisoned(t) ==
  /\ Turn(t, {"put", "delete", "get", "providers"}) /\ poisoned
  /\ Become(t, Idle(Error))
  /\ UNCHANGED <<entries, poisoned>>

WriteEnter(t) ==
  /\ Turn(t, Writes) /\ ~poisoned
  /\ Enter(t, "writing")
  /\ UNCHANGED <<entries, poisoned>>

\* Mutant: a put leaves the credential it should replace.
WriteBeside(t) ==
  /\ thread[t].phase = "writing"
  /\ entries' = [p \in Providers |->
                   IF p \in thread[t].left THEN entries[p] \cup thread[t].cred
                   ELSE entries[p]]
  /\ Become(t, Idle(Ok({})))
  /\ UNCHANGED poisoned

\* insert or remove, and the guard is dropped.
Write(t) ==
  /\ thread[t].phase = "writing"
  /\ entries' = [p \in Providers |->
                   IF p \in thread[t].left THEN thread[t].cred ELSE entries[p]]
  /\ Become(t, Idle(Ok({})))
  /\ UNCHANGED poisoned

\* A panic with the write guard in hand poisons the lock; one with a read guard
\* does not.  What the operation would have done is not done.
WritePanics(t) ==
  /\ thread[t].phase = "writing"
  /\ poisoned' = TRUE
  /\ Enter(t, "panicked")
  /\ UNCHANGED entries

Unwound(t) ==
  /\ thread[t].phase = "panicked"
  /\ Become(t, Idle(Error))
  /\ UNCHANGED <<entries, poisoned>>

ReadEnter(t) ==
  /\ \/ Turn(t, {"get", "providers"}) /\ ~poisoned
     \/ Turn(t, {"clone"})
  /\ Enter(t, "reading")
  /\ UNCHANGED <<entries, poisoned>>

ReadEntry(t) ==
  /\ thread[t].phase = "reading"
  /\ \E p \in thread[t].left :
       Become(t, Walking(thread[t].kind, thread[t].left \ {p},
                         thread[t].found \cup entries[p]))
  /\ UNCHANGED <<entries, poisoned>>

\* providers names what the walk found; get and clone hand it over.
Answer(o, found) ==
  Ok(IF o.kind = "providers" THEN {cred.provider : cred \in found} ELSE found)

ReadDone(t) ==
  /\ thread[t].phase = "reading" /\ thread[t].left = {}
  /\ Become(t, Idle(Answer(thread[t], thread[t].found)))
  /\ UNCHANGED <<entries, poisoned>>

Next ==
  \E t \in Threads :
    \/ Call(t) \/ LockPoisoned(t)
    \/ WriteEnter(t) \/ Write(t) \/ WritePanics(t) \/ Unwound(t)
    \/ ReadEnter(t) \/ ReadEntry(t) \/ ReadDone(t)

Spec == Init /\ [][Next]_vars

-----------------------------------------------------------------------------
\* The state stays well-formed; a credential is only ever stored under its own
\* provider, and at most one.
TypeOK ==
  /\ poisoned \in BOOLEAN
  /\ DOMAIN entries = Providers
  /\ \A p \in Providers :
       entries[p] \in {{}} \cup {{cred} : cred \in {c \in Credentials : c.provider = p}}
  /\ \A t \in Threads :
       /\ thread[t].phase \in {"idle", "locking", "writing", "reading", "panicked"}
       /\ thread[t].left \subseteq Providers
       /\ thread[t].cred \subseteq Credentials /\ thread[t].found \subseteq Credentials

-----------------------------------------------------------------------------
(* What the store implements. *)

Request(o) ==
  [kind |-> o.kind, cred |-> o.cred,
   provider |-> IF o.kind \in {"providers", "clone"} THEN None
                ELSE CHOOSE p \in o.left : TRUE]

\* A reader's answer: what it has found and what is left to find.
Seen(o) ==
  CASE o.phase = "idle"    -> [phase |-> "idle", request |-> None, answer |-> o.answer]
    [] o.phase = "reading" -> [phase |-> "read", request |-> None,
         answer |-> Answer(o, o.found \cup UNION {entries[p] : p \in o.left})]
    [] OTHER               -> [phase |-> "called", request |-> Request(o), answer |-> None]

Map ==
  INSTANCE CredentialMap WITH
    held <- entries, broken <- poisoned, op <- [t \in Threads |-> Seen(thread[t])]

\* However readers overlap, every operation takes effect at one instant: what a
\* walk returns (the list of providers, a clone of the store) the map held all at
\* once, and a poisoned lock is reported by every operation but a clone, which
\* gets the map as the panic left it.
MapSpec == Map!Spec
=============================================================================
