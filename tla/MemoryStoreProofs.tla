--------------------------- MODULE MemoryStoreProofs ---------------------------
(***************************************************************************)
(* The memory store implements the credential map, for any threads,        *)
(* providers and secrets.                                                  *)
(*                                                                         *)
(* A walk through the map answers for the instant it began.  That is so    *)
(* because no entry changes under a reader (the lock never admits a writer *)
(* among readers, and no write happens outside it), which, with the shape  *)
(* of the operations in progress, is the invariant of the first half.      *)
(***************************************************************************)
EXTENDS MemoryStore, TLAPS

EntryOK(p, entry) ==
  \/ entry = {}
  \/ \E cred \in Credentials : cred.provider = p /\ entry = {cred}

Fields(o) == o = [phase |-> o.phase, kind |-> o.kind, cred |-> o.cred,
                  left |-> o.left, found |-> o.found, answer |-> o.answer]

\* What an operation carries until it reaches the map.
PutOK(o)     == o.kind = "put" /\ \E c \in Credentials : o.cred = {c} /\ o.left = {c.provider}
OneOK(o)     == o.kind \in {"get", "delete"} /\ o.cred = {}
                  /\ \E p \in Providers : o.left = {p}
AllOK(o)     == o.kind \in {"providers", "clone"} /\ o.cred = {} /\ o.left = Providers
WaitingOK(o) == (PutOK(o) \/ OneOK(o) \/ AllOK(o)) /\ o.found = {} /\ o.answer = None

OperationOK(o) ==
  /\ Fields(o)
  /\ \/ o = Idle(o.answer)
     \/ o.phase = "locking" /\ WaitingOK(o)
     \/ o.phase \in {"writing", "panicked"} /\ o.kind \in Writes /\ WaitingOK(o)
     \/ /\ o.phase = "reading" /\ o.kind \in {"get", "providers", "clone"}
        /\ o.left \subseteq Providers /\ o.cred = {}
        /\ o.found \subseteq Credentials

\* A writer has the lock to itself, and no writer has it once it is poisoned.
Exclusion ==
  \A t \in Inside("writing") :
    /\ ~poisoned
    /\ Inside("reading") = {}
    /\ Inside("writing") = {t}

StoreOK ==
  /\ poisoned \in BOOLEAN
  /\ thread = [t \in Threads |-> thread[t]]
  /\ entries = [p \in Providers |-> entries[p]]
  /\ \A p \in Providers : EntryOK(p, entries[p])
  /\ \A t \in Threads : OperationOK(thread[t])
  /\ \A t \in Inside("panicked") : poisoned
  /\ Exclusion

-----------------------------------------------------------------------------
(* The lock excludes, and operations stay in order. *)

\* A thread that takes a step outside the lock, or leaves it, keeps the
\* invariant when it leaves the map and the poison alone and its new operation
\* is in order.
LEMMA LeaveKeeps ==
  ASSUME StoreOK, NEW t \in Threads, NEW o, Become(t, o), OperationOK(o),
         o.phase \in {"idle", "locking"}, UNCHANGED <<entries, poisoned>>
  PROVE  StoreOK'
<1>1. thread' = [thread EXCEPT ![t] = o] /\ entries' = entries /\ poisoned' = poisoned
  BY DEF Become
<1>2. \A u \in Threads : OperationOK(thread'[u])
  BY <1>1 DEF StoreOK
<1>3. /\ Inside("writing")' = Inside("writing") \ {t}
      /\ Inside("reading")' = Inside("reading") \ {t}
      /\ Inside("panicked")' = Inside("panicked") \ {t}
  BY <1>1 DEF StoreOK, Inside
<1>4. Exclusion' /\ \A u \in Inside("panicked")' : poisoned'
  BY <1>1, <1>3 DEF StoreOK, Exclusion
<1> QED
  BY <1>1, <1>2, <1>4
     DEF StoreOK, OperationOK, WaitingOK, PutOK, OneOK, AllOK, EntryOK

\* A thread that has returned is in order.
LEMMA IdleInOrder ==
  ASSUME NEW answer
  PROVE  OperationOK(Idle(answer)) /\ Idle(answer).phase = "idle"
BY DEF OperationOK, Fields, Idle

\* The store starts empty and healthy.
LEMMA StoreOKInit == Init => StoreOK
BY IdleInOrder DEF Init, StoreOK, EntryOK, Exclusion, Inside

\* What an operation that enters the lock, or panics in it, carries stays in order.
LEMMA EnterInOrder ==
  ASSUME NEW o, OperationOK(o), NEW phase,
         \/ o.phase = "locking" /\ phase = "writing" /\ o.kind \in Writes
         \/ o.phase = "locking" /\ phase = "reading" /\ o.kind \in {"get", "providers", "clone"}
         \/ o.phase = "writing" /\ phase = "panicked"
  PROVE  /\ OperationOK([o EXCEPT !.phase = phase])
         /\ [o EXCEPT !.phase = phase].phase = phase
<1> DEFINE n == [o EXCEPT !.phase = phase]
<1>1. /\ n.phase = phase /\ n.kind = o.kind /\ n.cred = o.cred /\ n.left = o.left
      /\ n.found = o.found /\ n.answer = o.answer /\ Fields(n)
  BY DEF OperationOK, Fields
<1>2. WaitingOK(o)
  BY DEF OperationOK, Idle
<1>3. WaitingOK(n)
  BY <1>1, <1>2 DEF WaitingOK, PutOK, OneOK, AllOK
<1>4. o.kind \in {"get", "providers", "clone"} =>
        o.left \subseteq Providers /\ o.cred = {} /\ o.found = {}
  BY <1>2 DEF WaitingOK, PutOK, OneOK, AllOK
<1>5. o.phase = "writing" => o.kind \in Writes
  BY DEF OperationOK, Idle
<1> HIDE DEF n
<1>6. OperationOK(n)
  BY <1>1, <1>3, <1>4, <1>5 DEF OperationOK
<1> QED
  BY <1>1, <1>6 DEF n

\* Every step keeps the invariant.
LEMMA StoreOKNext == StoreOK /\ [Next]_vars => StoreOK'
<1> SUFFICES ASSUME StoreOK, [Next]_vars PROVE StoreOK'
  OBVIOUS
<1>1. CASE UNCHANGED vars
  BY <1>1 DEF vars, StoreOK, Exclusion, Inside, OperationOK, WaitingOK, PutOK, OneOK,
              AllOK, EntryOK
<1>2. ASSUME NEW t \in Threads, Call(t) PROVE StoreOK'
  <2>1. \A cred \in Credentials : OperationOK(Begun("put", {cred.provider}, {cred}))
    BY DEF OperationOK, Fields, Begun, WaitingOK, PutOK
  <2>2. \A kind \in {"get", "delete"}, p \in Providers : OperationOK(Begun(kind, {p}, {}))
    BY DEF OperationOK, Fields, Begun, WaitingOK, OneOK
  <2>3. \A kind \in {"providers", "clone"} : OperationOK(Begun(kind, Providers, {}))
    BY DEF OperationOK, Fields, Begun, WaitingOK, AllOK
  <2>4. \A kind, left, cred : Begun(kind, left, cred).phase = "locking"
    BY DEF Begun
  <2> QED
    BY <1>2, <2>1, <2>2, <2>3, <2>4, LeaveKeeps DEF Call
<1>3. ASSUME NEW t \in Threads, LockPoisoned(t) \/ Unwound(t) \/ ReadDone(t)
      PROVE  StoreOK'
  BY <1>3, IdleInOrder, LeaveKeeps DEF LockPoisoned, Unwound, ReadDone
<1>4. ASSUME NEW t \in Threads, WriteEnter(t) PROVE StoreOK'
  <2>1. OperationOK([thread[t] EXCEPT !.phase = "writing"])
        /\ [thread[t] EXCEPT !.phase = "writing"].phase = "writing"
    BY <1>4, EnterInOrder DEF WriteEnter, Turn, StoreOK
  <2>2. ~poisoned /\ Inside("writing") = {} /\ Inside("reading") = {}
    BY <1>4 DEF WriteEnter, Turn
  <2>3. thread' = [thread EXCEPT ![t] = [thread[t] EXCEPT !.phase = "writing"]]
        /\ UNCHANGED <<entries, poisoned>>
    BY <1>4 DEF WriteEnter, Enter, Become
  <2>4. Exclusion' /\ \A u \in Inside("panicked")' : poisoned'
    BY <2>1, <2>2, <2>3 DEF StoreOK, Exclusion, Inside
  <2>5. \A u \in Threads : OperationOK(thread'[u])
    BY <2>1, <2>3 DEF StoreOK
  <2> QED
    BY <2>3, <2>4, <2>5
       DEF StoreOK, OperationOK, WaitingOK, PutOK, OneOK, AllOK, EntryOK
<1>5. ASSUME NEW t \in Threads, Write(t) PROVE StoreOK'
  <2>1. thread[t].phase = "writing" /\ WaitingOK(thread[t]) /\ thread[t].kind \in Writes
    BY <1>5 DEF Write, StoreOK, OperationOK, Idle
  <2>2. ASSUME NEW p \in thread[t].left PROVE EntryOK(p, thread[t].cred)
    BY <2>1, <2>2 DEF WaitingOK, PutOK, OneOK, AllOK, EntryOK, Writes
  <2>3. \A p \in Providers : EntryOK(p, entries'[p])
    BY <1>5, <2>2 DEF Write, StoreOK
  <2>4. entries' = [p \in Providers |-> entries'[p]]
    BY <1>5 DEF Write
  <2>5. thread' = [thread EXCEPT ![t] = Idle(Ok({}))] /\ poisoned' = poisoned
    BY <1>5 DEF Write, Become
  <2>6. \A u \in Threads : OperationOK(thread'[u])
    BY <2>5, IdleInOrder DEF StoreOK
  <2>7. Exclusion' /\ \A u \in Inside("panicked")' : poisoned'
    BY <2>5, IdleInOrder DEF StoreOK, Exclusion, Inside
  <2> QED
    BY <2>3, <2>4, <2>5, <2>6, <2>7
       DEF StoreOK, OperationOK, WaitingOK, PutOK, OneOK, AllOK, EntryOK
<1>6. ASSUME NEW t \in Threads, WritePanics(t) PROVE StoreOK'
  <2>1. OperationOK([thread[t] EXCEPT !.phase = "panicked"])
        /\ [thread[t] EXCEPT !.phase = "panicked"].phase = "panicked"
    BY <1>6, EnterInOrder DEF WritePanics, StoreOK
  <2>2. t \in Inside("writing")
    BY <1>6 DEF WritePanics, Inside
  <2>3. thread' = [thread EXCEPT ![t] = [thread[t] EXCEPT !.phase = "panicked"]]
        /\ entries' = entries /\ poisoned' = TRUE
    BY <1>6 DEF WritePanics, Enter, Become
  <2>4. Inside("writing")' = {}
    BY <2>1, <2>2, <2>3 DEF StoreOK, Exclusion, Inside
  <2>5. \A u \in Threads : OperationOK(thread'[u])
    BY <2>1, <2>3 DEF StoreOK
  <2> QED
    BY <2>3, <2>4, <2>5
       DEF StoreOK, Exclusion, OperationOK, WaitingOK, PutOK, OneOK, AllOK, EntryOK
<1>7. ASSUME NEW t \in Threads, ReadEnter(t) PROVE StoreOK'
  <2>1. OperationOK([thread[t] EXCEPT !.phase = "reading"])
        /\ [thread[t] EXCEPT !.phase = "reading"].phase = "reading"
    BY <1>7, EnterInOrder DEF ReadEnter, Turn, StoreOK
  <2>2. Inside("writing") = {}
    BY <1>7 DEF ReadEnter, Turn
  <2>3. thread' = [thread EXCEPT ![t] = [thread[t] EXCEPT !.phase = "reading"]]
        /\ UNCHANGED <<entries, poisoned>>
    BY <1>7 DEF ReadEnter, Enter, Become
  <2>4. Inside("writing")' = {} /\ \A u \in Inside("panicked")' : poisoned'
    BY <2>1, <2>2, <2>3 DEF StoreOK, Inside
  <2>5. \A u \in Threads : OperationOK(thread'[u])
    BY <2>1, <2>3 DEF StoreOK
  <2> QED
    BY <2>3, <2>4, <2>5
       DEF StoreOK, Exclusion, OperationOK, WaitingOK, PutOK, OneOK, AllOK, EntryOK
<1>8. ASSUME NEW t \in Threads, ReadEntry(t) PROVE StoreOK'
  <2>1. PICK p \in thread[t].left :
          Become(t, Walking(thread[t].kind, thread[t].left \ {p},
                            thread[t].found \cup entries[p]))
    BY <1>8 DEF ReadEntry
  <2> DEFINE o == Walking(thread[t].kind, thread[t].left \ {p},
                          thread[t].found \cup entries[p])
  <2>2. /\ Fields(thread[t]) /\ thread[t].phase = "reading"
        /\ thread[t].kind \in {"get", "providers", "clone"}
        /\ thread[t].left \subseteq Providers /\ thread[t].cred = {}
        /\ thread[t].found \subseteq Credentials
    BY <1>8 DEF ReadEntry, StoreOK, OperationOK, Idle
  <2>3. entries[p] \subseteq Credentials
    BY <2>2 DEF StoreOK, EntryOK
  <2>4. /\ Fields(o) /\ o.phase = "reading" /\ o.kind = thread[t].kind
        /\ o.left = thread[t].left \ {p} /\ o.cred = {}
        /\ o.found = thread[t].found \cup entries[p]
    BY <2>2 DEF Walking, Fields
  <2>5. thread' = [thread EXCEPT ![t] = o] /\ UNCHANGED <<entries, poisoned>>
    BY <1>8, <2>1 DEF ReadEntry, Become
  <2> HIDE DEF o
  <2>6. OperationOK(o)
    BY <2>2, <2>3, <2>4 DEF OperationOK
  <2>7. \A u \in Threads : OperationOK(thread'[u])
    BY <2>5, <2>6 DEF StoreOK
  <2>8. Inside("writing")' = {} /\ \A u \in Inside("panicked")' : poisoned'
    BY <2>2, <2>4, <2>5 DEF StoreOK, Exclusion, Inside
  <2> QED
    BY <2>5, <2>7, <2>8
       DEF StoreOK, Exclusion, OperationOK, WaitingOK, PutOK, OneOK, AllOK, EntryOK
<1> QED
  BY <1>1, <1>2, <1>3, <1>4, <1>5, <1>6, <1>7, <1>8 DEF Next

\* The invariant holds in every behaviour.
LEMMA StoreAlwaysOK == Spec => []StoreOK
<1> QED
  BY StoreOKInit, StoreOKNext, PTL DEF Spec

\* A credential is only ever stored under its own provider, and at most one
\* (MemoryStore::put), and operations stay well-formed.
THEOREM MemoryTypeCorrect == Spec => []TypeOK
<1>1. ASSUME StoreOK PROVE TypeOK
  <2>1. \A p \in Providers :
          entries[p] \in {{}} \cup {{cred} : cred \in {c \in Credentials : c.provider = p}}
    BY <1>1 DEF StoreOK, EntryOK
  <2>2. ASSUME NEW t \in Threads
        PROVE  /\ thread[t].phase \in {"idle", "locking", "writing", "reading", "panicked"}
               /\ thread[t].left \subseteq Providers
               /\ thread[t].cred \subseteq Credentials /\ thread[t].found \subseteq Credentials
    <3>1. OperationOK(thread[t])
      BY <1>1 DEF StoreOK
    <3>2. \A c \in Credentials : c.provider \in Providers
      BY DEF Credentials
    <3>3. WaitingOK(thread[t]) =>
            /\ thread[t].left \subseteq Providers
            /\ thread[t].cred \subseteq Credentials /\ thread[t].found = {}
      BY <3>2 DEF WaitingOK, PutOK, OneOK, AllOK
    <3>4. CASE thread[t] = Idle(thread[t].answer)
      <4>1. /\ thread[t].phase = "idle" /\ thread[t].left = {}
            /\ thread[t].cred = {} /\ thread[t].found = {}
        BY <3>4 DEF Idle
      <4> QED
        BY <4>1
    <3>5. CASE thread[t] # Idle(thread[t].answer)
      BY <3>1, <3>3, <3>5 DEF OperationOK
    <3> QED
      BY <3>4, <3>5
  <2>3. DOMAIN entries = Providers
    BY <1>1 DEF StoreOK
  <2> QED
    BY <1>1, <2>1, <2>2, <2>3 DEF StoreOK, TypeOK
<1> QED
  BY <1>1, StoreAlwaysOK, PTL

-----------------------------------------------------------------------------
(* Every step is a step of the map, or none. *)

\* The mapped variable.
Op == [t \in Threads |-> Seen(thread[t])]

\* What is found and what is left to find, together.
Walked(o) == o.found \cup UNION {entries[p] : p \in o.left}

\* What a thread's step looks like from outside when no entry changes.
LEMMA SeenBecome ==
  ASSUME StoreOK, NEW t \in Threads, NEW o, Become(t, o), UNCHANGED entries
  PROVE  /\ Op' = [Op EXCEPT ![t] = Seen(o)]
         /\ Op[t] = Seen(thread[t])
<1>1. \A u \in Threads : thread'[u] = IF u = t THEN o ELSE thread[u]
  BY DEF StoreOK, Become
<1>2. \A u \in Threads : Seen(thread[u])' = IF u = t THEN Seen(o) ELSE Seen(thread[u])
  BY <1>1 DEF Seen, Answer
<1> QED
  BY <1>2 DEF Op

\* A thread that has returned, seen from outside.
LEMMA SeenIdle ==
  ASSUME NEW answer
  PROVE  Seen(Idle(answer)) = Map!Quiet(answer)
BY DEF Seen, Idle, Map!Quiet

\* An operation that has not taken effect, seen from outside.
LEMMA SeenWaiting ==
  ASSUME NEW o, o.phase \in {"locking", "writing", "panicked"}, WaitingOK(o)
  PROVE  /\ Seen(o) = [phase |-> "called", request |-> Request(o), answer |-> None]
         /\ Request(o).kind = o.kind /\ Request(o).cred = o.cred
         /\ o.kind \in {"put", "get", "delete"} =>
              Request(o).provider \in Providers /\ o.left = {Request(o).provider}
         /\ Request(o) \in Map!Requests
         /\ \A c \in Request(o).cred : Request(o).provider = c.provider
<1>1. Seen(o) = [phase |-> "called", request |-> Request(o), answer |-> None]
  BY DEF Seen
<1>2. \A p : (CHOOSE q \in {p} : TRUE) = p
  OBVIOUS
<1>3. CASE PutOK(o)
  <2>1. PICK c \in Credentials : o.cred = {c} /\ o.left = {c.provider} /\ o.kind = "put"
    BY <1>3 DEF PutOK
  <2>2. Request(o) = [kind |-> "put", cred |-> {c}, provider |-> c.provider]
    BY <1>2, <2>1 DEF Request
  <2>3. c \in Map!Credentials /\ c.provider \in Providers
    BY DEF Credentials, Map!Credentials
  <2> QED
    BY <1>1, <2>1, <2>2, <2>3 DEF Map!Requests
<1>4. CASE OneOK(o)
  <2>1. PICK p \in Providers : o.left = {p} /\ o.cred = {} /\ o.kind \in {"get", "delete"}
    BY <1>4 DEF OneOK
  <2>2. Request(o) = [kind |-> o.kind, cred |-> {}, provider |-> p]
    BY <1>2, <2>1 DEF Request
  <2> QED
    BY <1>1, <2>1, <2>2 DEF Map!Requests
<1>5. CASE AllOK(o)
  <2>1. Request(o) = [kind |-> o.kind, cred |-> {}, provider |-> None]
    BY <1>5 DEF Request, AllOK
  <2> QED
    BY <1>1, <1>5, <2>1 DEF Map!Requests, AllOK
<1> QED
  BY <1>3, <1>4, <1>5 DEF WaitingOK

\* Setting the phase alone changes nothing else of an operation.
LEMMA SetPhase ==
  ASSUME NEW o, OperationOK(o), NEW phase
  PROVE  LET n == [o EXCEPT !.phase = phase] IN
         /\ n.phase = phase /\ n.kind = o.kind /\ n.cred = o.cred /\ n.left = o.left
         /\ n.found = o.found /\ n.answer = o.answer
         /\ Request(n) = Request(o)
         /\ WaitingOK(n) <=> WaitingOK(o)
<1> DEFINE n == [o EXCEPT !.phase = phase]
<1>1. /\ n.phase = phase /\ n.kind = o.kind /\ n.cred = o.cred /\ n.left = o.left
      /\ n.found = o.found /\ n.answer = o.answer
  BY DEF OperationOK, Fields
<1> HIDE DEF n
<1>2. Request(n) = Request(o) /\ (WaitingOK(n) <=> WaitingOK(o))
  BY <1>1 DEF Request, WaitingOK, PutOK, OneOK, AllOK
<1> QED
  BY <1>1, <1>2 DEF n

\* The providers a walk of the whole map names are those with an entry.
LEMMA WalkNamesEntries ==
  ASSUME StoreOK
  PROVE  {c.provider : c \in UNION {entries[p] : p \in Providers}}
           = {p \in Providers : entries[p] # {}}
BY DEF StoreOK, EntryOK

\* The actions, one by one, as steps of the map.
LEMMA StoreStep ==
  ASSUME StoreOK, [Next]_vars
  PROVE  [Map!Next]_(Map!vars)
<1>1. CASE UNCHANGED vars
  <2>1. UNCHANGED <<entries, Op, poisoned>>
    BY <1>1 DEF vars, Op, Seen, Answer
  <2> QED
    BY <2>1 DEF Map!vars, Op
<1>2. ASSUME NEW t \in Threads, Call(t) PROVE Map!Call(t)
  <2>1. PICK kind, left, cred :
          /\ Become(t, Begun(kind, left, cred))
          /\ WaitingOK(Begun(kind, left, cred))
    <3>1. \A c \in Credentials : WaitingOK(Begun("put", {c.provider}, {c}))
      BY DEF Begun, WaitingOK, PutOK
    <3>2. \A k \in {"get", "delete"}, p \in Providers : WaitingOK(Begun(k, {p}, {}))
      BY DEF Begun, WaitingOK, OneOK
    <3>3. \A k \in {"providers", "clone"} : WaitingOK(Begun(k, Providers, {}))
      BY DEF Begun, WaitingOK, AllOK
    <3> QED
      BY <1>2, <3>1, <3>2, <3>3 DEF Call
  <2> DEFINE o == Begun(kind, left, cred)
  <2>2. o.phase = "locking"
    BY DEF Begun
  <2>3. UNCHANGED <<entries, poisoned>> /\ thread[t].phase = "idle"
    BY <1>2 DEF Call
  <2> HIDE DEF o
  <2>4. Op' = [Op EXCEPT ![t] = Seen(o)] /\ Op[t] = Seen(thread[t])
    BY <2>1, <2>3, SeenBecome DEF o
  <2>5. /\ Seen(o) = [phase |-> "called", request |-> Request(o), answer |-> None]
        /\ Request(o) \in Map!Requests
        /\ \A c \in Request(o).cred : Request(o).provider = c.provider
    BY <2>1, <2>2, SeenWaiting DEF o
  <2>6. Op[t].phase = "idle"
    BY <2>3, <2>4 DEF Seen
  <2> QED
    BY <2>3, <2>4, <2>5, <2>6 DEF Map!Call, Op
<1>3. ASSUME NEW t \in Threads, LockPoisoned(t) PROVE Map!Fail(t)
  <2>1. /\ thread[t].phase = "locking" /\ poisoned
        /\ thread[t].kind \in {"put", "delete", "get", "providers"}
        /\ Become(t, Idle(Error)) /\ UNCHANGED <<entries, poisoned>>
    BY <1>3 DEF LockPoisoned, Turn
  <2>2. WaitingOK(thread[t])
    BY <2>1 DEF StoreOK, OperationOK, Idle
  <2>3. Op' = [Op EXCEPT ![t] = Map!Quiet(Error)] /\ Op[t] = Seen(thread[t])
    BY <2>1, SeenBecome, SeenIdle
  <2>4. Op[t].phase = "called" /\ Op[t].request.kind = thread[t].kind
    BY <2>1, <2>2, <2>3, SeenWaiting
  <2> QED
    BY <2>1, <2>3, <2>4 DEF Map!Fail, Map!Error, Error, Op
<1>4. ASSUME NEW t \in Threads, WriteEnter(t) PROVE UNCHANGED Map!vars
  <2> DEFINE o == [thread[t] EXCEPT !.phase = "writing"]
  <2>1. /\ thread[t].phase = "locking"
        /\ Become(t, o) /\ UNCHANGED <<entries, poisoned>>
    BY <1>4 DEF WriteEnter, Turn, Enter
  <2>2. WaitingOK(thread[t]) /\ OperationOK(thread[t])
    BY <2>1 DEF StoreOK, OperationOK, Idle
  <2>3. o.phase = "writing" /\ WaitingOK(o) /\ Request(o) = Request(thread[t])
    BY <2>2, SetPhase
  <2> HIDE DEF o
  <2>4. Seen(o) = Seen(thread[t])
    BY <2>1, <2>2, <2>3, SeenWaiting
  <2>5. Op' = [Op EXCEPT ![t] = Op[t]]
    BY <2>1, <2>4, SeenBecome
  <2>6. Op' = Op
    BY <2>5 DEF Op
  <2> QED
    BY <2>1, <2>6 DEF Map!vars, Op
<1>5. ASSUME NEW t \in Threads, Write(t) PROVE Map!Put(t) \/ Map!Delete(t)
  <2>1. /\ thread[t].phase = "writing" /\ WaitingOK(thread[t])
        /\ thread[t].kind \in Writes
    BY <1>5 DEF Write, StoreOK, OperationOK, Idle
  <2> DEFINE p == Request(thread[t]).provider
  <2>2. /\ Seen(thread[t]) = [phase |-> "called", request |-> Request(thread[t]),
                              answer |-> None]
        /\ Request(thread[t]).kind = thread[t].kind
        /\ Request(thread[t]).cred = thread[t].cred
        /\ p \in Providers /\ thread[t].left = {p}
    BY <2>1, SeenWaiting DEF Writes
  <2>3. ~poisoned /\ Inside("reading") = {} /\ t \in Inside("writing")
    BY <2>1 DEF StoreOK, Exclusion, Inside
  <2>4. entries' = [entries EXCEPT ![p] = thread[t].cred]
    BY <1>5, <2>2 DEF Write, StoreOK
  <2>5. Become(t, Idle(Ok({}))) /\ poisoned' = poisoned
    BY <1>5 DEF Write
  <2>6. \A u \in Threads : thread'[u] = IF u = t THEN Idle(Ok({})) ELSE thread[u]
    BY <2>5 DEF StoreOK, Become
  <2>7. \A u \in Threads : thread[u].phase # "reading"
    BY <2>3 DEF Inside
  <2>8. \A u \in Threads :
          Seen(thread[u])' = IF u = t THEN Map!Quiet(Ok({})) ELSE Seen(thread[u])
    <3>1. ASSUME NEW u \in Threads, u # t PROVE Seen(thread[u])' = Seen(thread[u])
      <4>1. thread'[u] = thread[u] /\ thread[u].phase # "reading"
        BY <2>6, <2>7, <3>1
      <4> QED
        BY <4>1 DEF Seen, Request
    <3>2. Seen(thread[t])' = Seen(Idle(Ok({})))
      BY <2>6 DEF Seen, Request, Idle
    <3> QED
      BY <3>1, <3>2, SeenIdle
  <2>9. Op' = [Op EXCEPT ![t] = Map!Quiet(Ok({}))]
    BY <2>8 DEF Op
  <2>10. /\ Op[t].phase = "called" /\ Op[t].request.kind = thread[t].kind
         /\ Op[t].request.cred = thread[t].cred /\ Op[t].request.provider = p
    BY <2>2 DEF Op
  <2>11. thread[t].kind = "delete" => thread[t].cred = {}
    BY <2>1 DEF WaitingOK, PutOK, OneOK, AllOK
  <2> HIDE DEF p
  <2>12. CASE thread[t].kind = "put"
    BY <2>3, <2>4, <2>5, <2>9, <2>10, <2>12
       DEF Map!Put, Map!Requested, Map!Change, Map!Ok, Ok, Op
  <2>13. CASE thread[t].kind = "delete"
    BY <2>3, <2>4, <2>5, <2>9, <2>10, <2>11, <2>13
       DEF Map!Delete, Map!Requested, Map!Change, Map!Ok, Ok, Op
  <2> QED
    BY <2>1, <2>12, <2>13 DEF Writes
<1>6. ASSUME NEW t \in Threads, WritePanics(t) PROVE Map!Break
  <2> DEFINE o == [thread[t] EXCEPT !.phase = "panicked"]
  <2>1. /\ thread[t].phase = "writing" /\ Become(t, o)
        /\ entries' = entries /\ poisoned' = TRUE
    BY <1>6 DEF WritePanics, Enter
  <2>2. WaitingOK(thread[t]) /\ OperationOK(thread[t])
    BY <2>1 DEF StoreOK, OperationOK, Idle
  <2>3. o.phase = "panicked" /\ WaitingOK(o) /\ Request(o) = Request(thread[t])
    BY <2>2, SetPhase
  <2> HIDE DEF o
  <2>4. Seen(o) = Seen(thread[t])
    BY <2>1, <2>2, <2>3, SeenWaiting
  <2>5. Op' = [Op EXCEPT ![t] = Op[t]]
    BY <2>1, <2>4, SeenBecome
  <2>6. Op' = Op
    BY <2>5 DEF Op
  <2> QED
    BY <2>1, <2>6 DEF Map!Break, Op
<1>7. ASSUME NEW t \in Threads, Unwound(t) PROVE Map!Fail(t)
  <2>1. /\ thread[t].phase = "panicked" /\ Become(t, Idle(Error))
        /\ UNCHANGED <<entries, poisoned>>
    BY <1>7 DEF Unwound
  <2>2. /\ WaitingOK(thread[t]) /\ thread[t].kind \in Writes /\ poisoned
    BY <2>1 DEF StoreOK, OperationOK, Idle, Inside
  <2>3. Op' = [Op EXCEPT ![t] = Map!Quiet(Error)] /\ Op[t] = Seen(thread[t])
    BY <2>1, SeenBecome, SeenIdle
  <2>4. Op[t].phase = "called" /\ Op[t].request.kind = thread[t].kind
    BY <2>1, <2>2, <2>3, SeenWaiting
  <2> QED
    BY <2>1, <2>2, <2>3, <2>4 DEF Map!Fail, Map!Error, Error, Op, Writes
<1>8. ASSUME NEW t \in Threads, ReadEnter(t)
      PROVE  Map!Get(t) \/ Map!List(t) \/ Map!Clone(t)
  <2> DEFINE o == [thread[t] EXCEPT !.phase = "reading"]
  <2>1. /\ thread[t].phase = "locking" /\ Become(t, o)
        /\ \/ thread[t].kind \in {"get", "providers"} /\ ~poisoned
           \/ thread[t].kind = "clone"
        /\ UNCHANGED <<entries, poisoned>>
    BY <1>8 DEF ReadEnter, Turn, Enter
  <2>2. WaitingOK(thread[t]) /\ OperationOK(thread[t])
    BY <2>1 DEF StoreOK, OperationOK, Idle
  <2>3. /\ o.phase = "reading" /\ o.kind = thread[t].kind
        /\ o.left = thread[t].left /\ o.found = {}
    BY <2>2, SetPhase DEF WaitingOK
  <2> HIDE DEF o
  <2> DEFINE walk == UNION {entries[p] : p \in thread[t].left}
             value == IF thread[t].kind = "providers" THEN {c.provider : c \in walk} ELSE walk
  <2>4. Seen(o) = [phase |-> "read", request |-> None, answer |-> Ok(value)]
    BY <2>3 DEF Seen, Answer
  <2>5. Op' = [Op EXCEPT ![t] = [phase |-> "read", request |-> None, answer |-> Ok(value)]]
    BY <2>1, <2>4, SeenBecome
  <2>6. /\ Op[t].phase = "called" /\ Op[t].request.kind = thread[t].kind
        /\ thread[t].kind = "get" =>
             thread[t].left = {Op[t].request.provider}
    BY <2>1, <2>2, SeenWaiting DEF Op
  <2>7. CASE thread[t].kind = "get"
    <3>1. value = entries[Op[t].request.provider]
      BY <2>6, <2>7
    <3> HIDE DEF value
    <3>2. Map!Get(t)
      BY <2>1, <2>5, <2>6, <2>7, <3>1 DEF Map!Get, Map!Requested, Map!Settle, Map!Ok, Ok, Op
    <3> QED
      BY <3>2
  <2>8. thread[t].kind \in {"providers", "clone"} => thread[t].left = Providers
    BY <2>2 DEF WaitingOK, PutOK, OneOK, AllOK
  <2>9. CASE thread[t].kind = "providers"
    <3>1. value = {p \in Providers : entries[p] # {}}
      BY <2>8, <2>9, WalkNamesEntries
    <3> HIDE DEF value
    <3>2. Map!List(t)
      BY <2>1, <2>5, <2>6, <2>9, <3>1 DEF Map!List, Map!Requested, Map!Settle, Map!Ok, Ok, Op
    <3> QED
      BY <3>2
  <2>10. CASE thread[t].kind = "clone"
    <3>1. value = UNION {entries[p] : p \in Providers}
      BY <2>8, <2>10
    <3> HIDE DEF value
    <3>2. Map!Clone(t)
      BY <2>1, <2>5, <2>6, <2>10, <3>1 DEF Map!Clone, Map!Requested, Map!Settle, Map!Ok, Ok, Op
    <3> QED
      BY <3>2
  <2> QED
    BY <2>1, <2>7, <2>9, <2>10
<1>9. ASSUME NEW t \in Threads, ReadEntry(t) PROVE UNCHANGED Map!vars
  <2>1. PICK p \in thread[t].left :
          Become(t, Walking(thread[t].kind, thread[t].left \ {p},
                            thread[t].found \cup entries[p]))
    BY <1>9 DEF ReadEntry
  <2> DEFINE o == Walking(thread[t].kind, thread[t].left \ {p},
                          thread[t].found \cup entries[p])
  <2>2. thread[t].phase = "reading" /\ UNCHANGED <<entries, poisoned>>
    BY <1>9 DEF ReadEntry
  <2>3. /\ o.phase = "reading" /\ o.kind = thread[t].kind
        /\ o.left = thread[t].left \ {p} /\ o.found = thread[t].found \cup entries[p]
    BY <2>2 DEF Walking
  <2> HIDE DEF o
  <2>4. Walked(o) = Walked(thread[t])
    BY <2>3 DEF Walked
  <2>5. Answer(o, Walked(o)) = Answer(thread[t], Walked(thread[t]))
    BY <2>3, <2>4 DEF Answer
  <2>6. Seen(o) = Seen(thread[t])
    BY <2>2, <2>3, <2>5 DEF Seen, Walked
  <2>7. Op' = [Op EXCEPT ![t] = Op[t]]
    BY <2>1, <2>2, <2>6, SeenBecome DEF o
  <2>8. Op' = Op
    BY <2>7 DEF Op
  <2> QED
    BY <2>2, <2>8 DEF Map!vars, Op
<1>10. ASSUME NEW t \in Threads, ReadDone(t) PROVE Map!Deliver(t)
  <2> DEFINE answer == Answer(thread[t], thread[t].found)
  <2>1. /\ thread[t].phase = "reading" /\ thread[t].left = {}
        /\ Become(t, Idle(answer)) /\ UNCHANGED <<entries, poisoned>>
    BY <1>10 DEF ReadDone
  <2>2. Seen(thread[t]) = [phase |-> "read", request |-> None, answer |-> answer]
    <3>1. thread[t].found \cup UNION {entries[p] : p \in thread[t].left} = thread[t].found
      BY <2>1
    <3> QED
      BY <2>1, <3>1 DEF Seen
  <2> HIDE DEF answer
  <2>3. Op[t].phase = "read" /\ Op[t].answer = answer
    BY <2>2 DEF Op
  <2>4. Op' = [Op EXCEPT ![t] = Map!Quiet(answer)]
    BY <2>1, SeenBecome, SeenIdle
  <2> QED
    BY <2>1, <2>3, <2>4 DEF Map!Deliver, Map!Answer, Op
<1> QED
  BY <1>1, <1>2, <1>3, <1>4, <1>5, <1>6, <1>7, <1>8, <1>9, <1>10 DEF Next, Map!Next

\* The memory store implements the CredentialStore trait's map, and its clone
\* takes a snapshot: for any number of threads, whatever readers overlap, and
\* after a writer has panicked under the lock.
THEOREM MemoryMapImplemented == Spec => MapSpec
<1>1. Init => Map!Init
  <2>1. ASSUME Init PROVE Op = [t \in Threads |-> Map!Quiet(Ok({}))]
    BY <2>1, SeenIdle DEF Init, Op
  <2> QED
    BY <2>1 DEF Init, Map!Init, Map!Ok, Ok, Op
<1>2. StoreOK /\ [Next]_vars => [Map!Next]_(Map!vars)
  BY StoreStep
<1> QED
  BY <1>1, <1>2, StoreAlwaysOK, PTL DEF Spec, MapSpec, Map!Spec
=============================================================================
