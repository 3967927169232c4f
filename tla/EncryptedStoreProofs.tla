------------------------- MODULE EncryptedStoreProofs -------------------------
(***************************************************************************)
(* The encrypted store implements the credential map, for any threads,     *)
(* providers, secrets and keys.                                            *)
(*                                                                         *)
(* The refinement mapping opens sealed bytes, and opening yields the       *)
(* credential only under the key the bytes were sealed under.  That they   *)
(* always were, wherever bytes are (in the map, carried by a put to the    *)
(* lock, carried by a get from it), is the invariant of the first half.    *)
(***************************************************************************)
EXTENDS EncryptedStore, TLAPS

\* Bytes this store sealed for p.
SealedFor(p, bytes) ==
  /\ bytes \in Bytes
  /\ bytes.under = key
  /\ bytes.plain.provider = p

EntryOK(p, entry) == entry = None \/ SealedFor(p, entry)

Fields(o) == o = [phase |-> o.phase, kind |-> o.kind, provider |-> o.provider,
                  carried |-> o.carried, answer |-> o.answer]

\* An operation, with what it carries at each point of its way.
OperationOK(o) ==
  /\ Fields(o)
  /\ \/ o = Idle(o.answer)
     \/ /\ o.phase = "sealing" /\ o.kind = "put"
        /\ o.carried \in Credentials /\ o.provider = o.carried.provider
     \/ /\ o.phase = "locking" /\ o.kind = "put"
        /\ o.provider \in Providers /\ SealedFor(o.provider, o.carried)
     \/ /\ o.phase = "locking" /\ o.kind \in {"get", "delete", "sealed_len"}
        /\ o.provider \in Providers /\ o.carried = None
     \/ /\ o.phase = "locking" /\ o.kind = "providers"
        /\ o.provider = None /\ o.carried = None
     \/ /\ o.phase = "opening" /\ o.kind = "get"
        /\ o.provider \in Providers /\ EntryOK(o.provider, o.carried)
  /\ o.phase # "idle" => o.answer = None

StoreOK ==
  /\ key \in Keys
  /\ poisoned \in BOOLEAN
  /\ thread = [t \in Threads |-> thread[t]]
  /\ sealed = [p \in Providers |-> sealed[p]]
  /\ \A p \in Providers : EntryOK(p, sealed[p])
  /\ \A t \in Threads : OperationOK(thread[t])

-----------------------------------------------------------------------------
(* The bytes are the store's own. *)

\* What seal returns for a credential is sealed for the credential's provider
\* (EncryptedStore::seal).
LEMMA SealSeals ==
  ASSUME NEW cred \in Credentials, key \in Keys
  PROVE  SealedFor(cred.provider, Seal(cred))
BY DEF SealedFor, Seal, Bytes

\* A step of one thread that leaves the map alone preserves the invariant when
\* the thread's new operation is in order.
LEMMA BecomeKeeps ==
  ASSUME StoreOK, NEW t \in Threads, NEW o, Become(t, o), UNCHANGED sealed, OperationOK(o)
  PROVE  StoreOK'
BY DEF StoreOK, Become, OperationOK, EntryOK, SealedFor

\* So does one that puts an entry in order into the map.
LEMMA ChangeKeeps ==
  ASSUME StoreOK, NEW t \in Threads, NEW o, Become(t, o), OperationOK(o),
         NEW p \in Providers, NEW entry, EntryOK(p, entry),
         sealed' = [sealed EXCEPT ![p] = entry]
  PROVE  StoreOK'
BY DEF StoreOK, Become, OperationOK, EntryOK, SealedFor

\* A thread that has returned is in order.
LEMMA IdleInOrder ==
  ASSUME NEW answer
  PROVE  OperationOK(Idle(answer))
BY DEF OperationOK, Fields, Idle

\* The store starts empty and healthy.
LEMMA StoreOKInit == Init => StoreOK
BY IdleInOrder DEF Init, StoreOK, EntryOK

\* Every step keeps the invariant.
LEMMA StoreOKNext == StoreOK /\ [Next]_vars => StoreOK'
<1> SUFFICES ASSUME StoreOK, [Next]_vars PROVE StoreOK'
  OBVIOUS
<1>1. CASE UNCHANGED vars
  BY <1>1 DEF vars, StoreOK, OperationOK, EntryOK, SealedFor
<1>2. CASE Poison
  BY <1>2 DEF Poison, StoreOK, OperationOK, EntryOK, SealedFor
<1>3. ASSUME NEW t \in Threads,
             \/ LockPoisoned(t) \/ PutUnsealed(t) \/ GetOpen(t) \/ ProvidersKeys(t)
             \/ SealedLen(t)
      PROVE  StoreOK'
  BY <1>3, BecomeKeeps, IdleInOrder
     DEF LockPoisoned, PutUnsealed, GetOpen, ProvidersKeys, SealedLen
<1>4. ASSUME NEW t \in Threads, PutCall(t) PROVE StoreOK'
  <2>1. PICK cred \in Credentials : Call(t, "put", cred.provider, "sealing", cred)
    BY <1>4 DEF PutCall
  <2>2. OperationOK(Busy("sealing", "put", cred.provider, cred))
    BY DEF OperationOK, Fields, Busy
  <2> QED
    BY <2>1, <2>2, BecomeKeeps DEF Call
<1>5. ASSUME NEW t \in Threads,
             GetCall(t) \/ DeleteCall(t) \/ ProvidersCall(t) \/ SealedLenCall(t)
      PROVE  StoreOK'
  <2>1. \A p \in Providers, kind \in {"get", "delete", "sealed_len"} :
          OperationOK(Busy("locking", kind, p, None))
    BY DEF OperationOK, Fields, Busy
  <2>2. OperationOK(Busy("locking", "providers", None, None))
    BY DEF OperationOK, Fields, Busy
  <2> QED
    BY <1>5, <2>1, <2>2, BecomeKeeps
       DEF GetCall, DeleteCall, ProvidersCall, SealedLenCall, Call
<1>6. ASSUME NEW t \in Threads, PutSeal(t) PROVE StoreOK'
  <2>1. /\ thread[t].carried \in Credentials
        /\ thread[t].provider = thread[t].carried.provider
        /\ key \in Keys
    BY <1>6 DEF PutSeal, StoreOK, OperationOK, Idle
  <2>2. thread[t].provider \in Providers
    BY <2>1 DEF Credentials
  <2>3. OperationOK(Busy("locking", "put", thread[t].provider, Seal(thread[t].carried)))
    BY <2>1, <2>2, SealSeals DEF OperationOK, Fields, Busy
  <2> QED
    BY <1>6, <2>3, BecomeKeeps DEF PutSeal
<1>7. ASSUME NEW t \in Threads, PutInsert(t) PROVE StoreOK'
  <2>1. thread[t].provider \in Providers /\ EntryOK(thread[t].provider, thread[t].carried)
    BY <1>7 DEF PutInsert, Locked, Locking, StoreOK, OperationOK, EntryOK, Idle
  <2> QED
    BY <1>7, <2>1, ChangeKeeps, IdleInOrder DEF PutInsert
<1>8. ASSUME NEW t \in Threads, GetClone(t) PROVE StoreOK'
  <2>1. thread[t].provider \in Providers
    BY <1>8 DEF GetClone, Locked, Locking, StoreOK, OperationOK, Idle
  <2>2. OperationOK(Busy("opening", "get", thread[t].provider, sealed[thread[t].provider]))
    BY <2>1 DEF StoreOK, OperationOK, Fields, Busy
  <2> QED
    BY <1>8, <2>2, BecomeKeeps DEF GetClone
<1>9. ASSUME NEW t \in Threads, DeleteRemove(t) PROVE StoreOK'
  <2>1. thread[t].provider \in Providers /\ EntryOK(thread[t].provider, None)
    BY <1>9 DEF DeleteRemove, Locked, Locking, StoreOK, OperationOK, EntryOK, Idle
  <2> QED
    BY <1>9, <2>1, ChangeKeeps, IdleInOrder DEF DeleteRemove
<1> QED
  BY <1>1, <1>2, <1>3, <1>4, <1>5, <1>6, <1>7, <1>8, <1>9 DEF Next

\* The invariant holds in every behaviour.
LEMMA StoreAlwaysOK == Spec => []StoreOK
<1>1. Init => StoreOK
  BY StoreOKInit
<1>2. StoreOK /\ [Next]_vars => StoreOK'
  BY StoreOKNext
<1> QED
  BY <1>1, <1>2, PTL DEF Spec

\* The state stays well-formed; in particular the map never holds, and no
\* operation takes to the lock, a credential that is not sealed
\* (EncryptedStore::put).
THEOREM StoreTypeCorrect == Spec => []TypeOK
<1>1. ASSUME StoreOK PROVE TypeOK
  <2>1. sealed \in [Providers -> Bytes \cup {None}]
    BY <1>1 DEF StoreOK, EntryOK, SealedFor
  <2>2. ASSUME NEW t \in Threads
        PROVE  /\ thread[t].phase \in {"idle", "sealing", "locking", "opening"}
               /\ thread[t].provider \in Providers \cup {None}
               /\ thread[t].carried \in
                    IF thread[t].phase = "sealing" THEN Credentials ELSE Bytes \cup {None}
    <3>1. OperationOK(thread[t])
      BY <1>1 DEF StoreOK
    <3>2. \A cred \in Credentials : cred.provider \in Providers
      BY DEF Credentials
    <3>3. CASE thread[t] = Idle(thread[t].answer)
      <4>1. /\ thread[t].phase = "idle" /\ thread[t].provider = None
            /\ thread[t].carried = None
        BY <3>3 DEF Idle
      <4> QED
        BY <4>1
    <3>4. CASE thread[t] # Idle(thread[t].answer)
      BY <3>1, <3>2, <3>4 DEF OperationOK, EntryOK, SealedFor
    <3> QED
      BY <3>3, <3>4
  <2> QED
    BY <1>1, <2>1, <2>2 DEF StoreOK, TypeOK
<1> QED
  BY <1>1, StoreAlwaysOK, PTL

-----------------------------------------------------------------------------
(* Every step is a step of the map, or none. *)

\* The mapped variables.
Held == [p \in Providers |-> Plain(sealed[p])]
Op   == [t \in Threads |-> Seen(thread[t])]

\* Opening what this store sealed yields the credential, and an empty entry
\* yields nothing: no read of the map fails (EncryptedStore::open).
LEMMA EntryOpens ==
  ASSUME NEW p, NEW entry, EntryOK(p, entry)
  PROVE  /\ Opened(entry) = Ok(Plain(entry))
         /\ Plain(entry) = {} <=> entry = None
         /\ entry # None => Plain(entry) = {entry.plain}
BY NoneAssumption DEF EntryOK, SealedFor, Opened, Open, Plain, Ok

\* What a thread's step looks like from outside.
LEMMA SeenBecome ==
  ASSUME StoreOK, NEW t \in Threads, NEW o, Become(t, o)
  PROVE  /\ Op' = [Op EXCEPT ![t] = Seen(o)]
         /\ Op[t] = Seen(thread[t])
         /\ UNCHANGED poisoned
         /\ UNCHANGED sealed => UNCHANGED Held
<1>1. key' = key /\ poisoned' = poisoned /\ thread' = [thread EXCEPT ![t] = o]
  BY DEF Become
<1>2. \A u \in Threads : thread'[u] = IF u = t THEN o ELSE thread[u]
  BY <1>1 DEF StoreOK
<1>3. \A u \in Threads : Seen(thread[u])' = IF u = t THEN Seen(o) ELSE Seen(thread[u])
  BY <1>1, <1>2 DEF Seen, Opened, Open, Plain
<1>4. Op' = [Op EXCEPT ![t] = Seen(o)]
  BY <1>3 DEF Op
<1>5. UNCHANGED sealed => UNCHANGED Held
  BY <1>1 DEF Held, Plain, Opened, Open
<1> QED
  BY <1>1, <1>4, <1>5 DEF Op

\* A thread that has returned, seen from outside.
LEMMA SeenIdle ==
  ASSUME NEW answer
  PROVE  Seen(Idle(answer)) = Map!Quiet(answer)
BY DEF Seen, Idle, Map!Quiet

\* A call at the lock, seen from outside.
LEMMA SeenLocking ==
  ASSUME StoreOK, NEW t \in Threads, NEW kind, Locking(t, kind)
  PROVE  /\ Op[t].phase = "called"
         /\ Op[t].request.kind = kind
         /\ Op[t].request.provider = thread[t].provider
         /\ Op[t].request.cred = IF kind = "put" THEN Plain(thread[t].carried) ELSE {}
         /\ kind # "providers" => thread[t].provider \in Providers
<1>1. Op[t] = Seen(thread[t]) /\ OperationOK(thread[t])
  BY DEF Op, StoreOK
<1>2. kind # "put" => thread[t].carried = None
  BY <1>1 DEF OperationOK, Locking, Idle
<1>3. Plain(None) = {}
  BY EntryOpens DEF EntryOK
<1>4. kind # "providers" => thread[t].provider \in Providers
  BY <1>1 DEF OperationOK, Locking, Idle
<1> QED
  BY <1>1, <1>2, <1>3, <1>4 DEF Seen, Locking

\* A locked section that changes the entry of a provider, seen from outside.
LEMMA SeenChange ==
  ASSUME StoreOK, NEW t \in Threads, Become(t, Idle(Ok({}))),
         NEW p \in Providers, NEW entry, sealed' = [sealed EXCEPT ![p] = entry]
  PROVE  /\ UNCHANGED poisoned
         /\ Held' = [Held EXCEPT ![p] = Plain(entry)]
         /\ Op' = [Op EXCEPT ![t] = Map!Quiet(Ok({}))]
<1>1. \A q \in Providers : Plain(sealed[q])' = IF q = p THEN Plain(entry) ELSE Plain(sealed[q])
  BY DEF StoreOK, Become, Plain, Opened, Open
<1>2. Held' = [Held EXCEPT ![p] = Plain(entry)]
  BY <1>1 DEF Held
<1>3. UNCHANGED poisoned /\ Op' = [Op EXCEPT ![t] = Map!Quiet(Ok({}))]
  BY SeenBecome, SeenIdle
<1> QED
  BY <1>2, <1>3

\* The actions, one by one, as steps of the map.
LEMMA StoreStep ==
  ASSUME StoreOK, [Next]_vars
  PROVE  [Map!Next]_(Map!vars)
<1>1. CASE UNCHANGED vars
  <2>1. UNCHANGED <<Held, Op, poisoned>>
    BY <1>1 DEF vars, Held, Op, Plain, Seen, Opened, Open
  <2> QED
    BY <2>1 DEF Map!vars, Held, Op
<1>2. CASE Poison
  <2>1. UNCHANGED <<Held, Op>> /\ poisoned' = TRUE
    BY <1>2 DEF Poison, Held, Op, Plain, Seen, Opened, Open
  <2>2. Map!Break
    BY <2>1 DEF Map!Break, Held, Op
  <2> QED
    BY <2>2 DEF Map!Next
<1>3. ASSUME NEW t \in Threads, LockPoisoned(t) PROVE Map!Fail(t)
  <2>1. PICK kind \in {"put", "get", "delete", "providers"} : Locking(t, kind)
    BY <1>3 DEF LockPoisoned
  <2>2. Op[t].phase = "called" /\ Op[t].request.kind = kind
    BY <2>1, SeenLocking
  <2>3. Become(t, Idle(Error)) /\ UNCHANGED sealed
    BY <1>3 DEF LockPoisoned
  <2>4. UNCHANGED <<Held, poisoned>> /\ Op' = [Op EXCEPT ![t] = Map!Quiet(Error)]
    BY <2>3, SeenBecome, SeenIdle
  <2> QED
    BY <1>3, <2>2, <2>4 DEF LockPoisoned, Map!Fail, Map!Error, Error, Held, Op
<1>4. ASSUME NEW t \in Threads, NEW kind, NEW p, NEW phase, NEW carried,
             Call(t, kind, p, phase, carried),
             \/ /\ kind = "put" /\ phase = "sealing"
                /\ carried \in Credentials /\ p = carried.provider
             \/ /\ kind \in {"get", "delete", "sealed_len"} /\ phase = "locking"
                /\ carried = None /\ p \in Providers
             \/ /\ kind = "providers" /\ phase = "locking"
                /\ carried = None /\ p = None
      PROVE  Map!Call(t)
  <2> DEFINE cred == IF kind = "put" THEN {carried} ELSE {}
             request == [kind |-> kind, provider |-> p, cred |-> cred]
  <2>1. Plain(None) = {}
    BY EntryOpens DEF EntryOK
  <2>2. Seen(Busy(phase, kind, p, carried)) =
          [phase |-> "called", request |-> request, answer |-> None]
    BY <1>4, <2>1 DEF Seen, Busy
  <2>3. carried \in Credentials => carried.provider \in Providers
    BY DEF Credentials
  <2>4. request \in Map!Requests /\ \A c \in request.cred : request.provider = c.provider
    <3>1. CASE kind = "put"
      <4>1. carried \in Map!Credentials /\ p = carried.provider /\ p \in Providers
        BY <1>4, <2>3, <3>1 DEF Map!Credentials, Credentials
      <4>2. request = [kind |-> "put", provider |-> p, cred |-> {carried}]
        BY <3>1
      <4> QED
        BY <4>1, <4>2 DEF Map!Requests
    <3>2. CASE kind \in {"get", "delete", "sealed_len"}
      <4>1. request = [kind |-> kind, provider |-> p, cred |-> {}] /\ p \in Providers
        BY <1>4, <3>2
      <4> QED
        BY <3>2, <4>1 DEF Map!Requests
    <3>3. CASE kind = "providers"
      <4>1. request = [kind |-> "providers", provider |-> None, cred |-> {}]
        BY <1>4, <3>3
      <4> QED
        BY <4>1 DEF Map!Requests
    <3> QED
      BY <1>4, <3>1, <3>2, <3>3
  <2>5. Op[t].phase = "idle"
    BY <1>4 DEF Call, Op, Seen
  <2>6. UNCHANGED <<Held, poisoned>>
        /\ Op' = [Op EXCEPT ![t] =
                    [phase |-> "called", request |-> request, answer |-> None]]
    BY <1>4, <2>2, SeenBecome DEF Call
  <2> HIDE DEF request
  <2> QED
    BY <2>4, <2>5, <2>6 DEF Map!Call, Held, Op
<1>5. ASSUME NEW t \in Threads,
             PutCall(t) \/ GetCall(t) \/ DeleteCall(t) \/ ProvidersCall(t) \/ SealedLenCall(t)
      PROVE  Map!Call(t)
  BY <1>4, <1>5 DEF PutCall, GetCall, DeleteCall, ProvidersCall, SealedLenCall
<1>6. ASSUME NEW t \in Threads, PutSeal(t) PROVE UNCHANGED Map!vars
  <2>1. /\ thread[t].kind = "put" /\ thread[t].phase = "sealing"
        /\ thread[t].carried \in Credentials /\ key \in Keys
    BY <1>6 DEF PutSeal, StoreOK, OperationOK, Idle
  <2>2. Plain(Seal(thread[t].carried)) = {thread[t].carried}
    BY <2>1, NoneAssumption DEF Plain, Opened, Open, Ok, Seal, Bytes
  <2>3. Seen(Busy("locking", "put", thread[t].provider, Seal(thread[t].carried)))
          = Seen(thread[t])
    BY <2>1, <2>2 DEF Seen, Busy
  <2>4. UNCHANGED <<Held, poisoned>> /\ Op' = [Op EXCEPT ![t] = Op[t]]
    BY <1>6, <2>3, SeenBecome DEF PutSeal
  <2>5. Op' = Op
    BY <2>4 DEF Op
  <2> QED
    BY <2>4, <2>5 DEF Map!vars, Held, Op
<1>7. ASSUME NEW t \in Threads, PutUnsealed(t) PROVE Map!Fail(t)
  <2>1. Become(t, Idle(Error)) /\ UNCHANGED sealed
    BY <1>7 DEF PutUnsealed
  <2>2. thread[t].phase = "sealing" /\ thread[t].kind = "put"
    BY <1>7 DEF PutUnsealed, StoreOK, OperationOK, Idle
  <2>3. Op[t].phase = "called" /\ Op[t].request.kind = "put"
    BY <2>2 DEF Op, Seen
  <2>4. UNCHANGED <<Held, poisoned>> /\ Op' = [Op EXCEPT ![t] = Map!Quiet(Error)]
    BY <2>1, SeenBecome, SeenIdle
  <2> QED
    BY <2>3, <2>4 DEF Map!Fail, Map!Error, Error, Held, Op
<1>8. ASSUME NEW t \in Threads, PutInsert(t) PROVE Map!Put(t)
  <2> DEFINE p == thread[t].provider
  <2>1. /\ Op[t].phase = "called" /\ Op[t].request.kind = "put"
        /\ Op[t].request.cred = Plain(thread[t].carried)
        /\ Op[t].request.provider = p /\ p \in Providers
    BY <1>8, SeenLocking DEF PutInsert, Locked
  <2>2. /\ UNCHANGED poisoned
        /\ Held' = [Held EXCEPT ![p] = Plain(thread[t].carried)]
        /\ Op' = [Op EXCEPT ![t] = Map!Quiet(Ok({}))]
    BY <1>8, <2>1, SeenChange DEF PutInsert
  <2>3. ~poisoned
    BY <1>8 DEF PutInsert, Locked
  <2> QED
    BY <2>1, <2>2, <2>3 DEF Map!Put, Map!Requested, Map!Change, Map!Ok, Ok, Held, Op
<1>9. ASSUME NEW t \in Threads, DeleteRemove(t) PROVE Map!Delete(t)
  <2> DEFINE p == thread[t].provider
  <2>1. /\ Op[t].phase = "called" /\ Op[t].request.kind = "delete"
        /\ Op[t].request.provider = p /\ p \in Providers
    BY <1>9, SeenLocking DEF DeleteRemove, Locked
  <2>2. /\ UNCHANGED poisoned
        /\ Held' = [Held EXCEPT ![p] = Plain(None)]
        /\ Op' = [Op EXCEPT ![t] = Map!Quiet(Ok({}))]
    BY <1>9, <2>1, SeenChange DEF DeleteRemove
  <2>3. ~poisoned /\ Plain(None) = {}
    BY <1>9, EntryOpens DEF DeleteRemove, Locked, EntryOK
  <2> QED
    BY <2>1, <2>2, <2>3 DEF Map!Delete, Map!Requested, Map!Change, Map!Ok, Ok, Held, Op
<1>10. ASSUME NEW t \in Threads, GetClone(t) PROVE Map!Get(t)
  <2> DEFINE p == thread[t].provider
  <2>1. /\ Op[t].phase = "called" /\ Op[t].request.kind = "get"
        /\ Op[t].request.provider = p /\ Op[t].request.cred = {}
        /\ p \in Providers
    BY <1>10, SeenLocking DEF GetClone, Locked
  <2>2. Opened(sealed[p]) = Ok(Held[p])
    BY <2>1, EntryOpens DEF Held, StoreOK
  <2>3. UNCHANGED <<Held, poisoned>>
        /\ Op' = [Op EXCEPT ![t] = Seen(Busy("opening", "get", p, sealed[p]))]
    BY <1>10, SeenBecome DEF GetClone
  <2>4. Seen(Busy("opening", "get", p, sealed[p])) =
          [phase |-> "read", request |-> None, answer |-> Ok(Held[p])]
    BY <2>2 DEF Seen, Busy
  <2>5. Op' = [Op EXCEPT ![t] = [phase |-> "read", request |-> None,
                                 answer |-> Ok(Held[p])]]
    BY <2>3, <2>4
  <2> QED
    BY <1>10, <2>1, <2>3, <2>5
       DEF GetClone, Locked, Map!Get, Map!Requested, Map!Settle, Map!Ok, Ok, Held, Op
<1>11. ASSUME NEW t \in Threads, GetOpen(t) PROVE Map!Deliver(t)
  <2>1. Op[t].phase = "read" /\ Op[t].answer = Opened(thread[t].carried)
    BY <1>11 DEF GetOpen, Op, Seen
  <2>2. UNCHANGED <<Held, poisoned>>
        /\ Op' = [Op EXCEPT ![t] = Map!Quiet(Opened(thread[t].carried))]
    BY <1>11, SeenBecome, SeenIdle DEF GetOpen
  <2> QED
    BY <2>1, <2>2 DEF Map!Deliver, Map!Answer, Held, Op
<1>12. ASSUME NEW t \in Threads, ProvidersKeys(t) PROVE Map!List(t)
  <2>1. Op[t].phase = "called" /\ Op[t].request.kind = "providers"
    BY <1>12, SeenLocking DEF ProvidersKeys, Locked
  <2>2. {p \in Providers : sealed[p] # None} = {p \in Providers : Held[p] # {}}
    BY EntryOpens DEF Held, StoreOK
  <2>3. UNCHANGED <<Held, poisoned>>
        /\ Op' = [Op EXCEPT ![t] = Map!Quiet(Ok({p \in Providers : Held[p] # {}}))]
    BY <1>12, <2>2, SeenBecome, SeenIdle DEF ProvidersKeys
  <2> QED
    BY <1>12, <2>1, <2>3
       DEF ProvidersKeys, Locked, Map!List, Map!Requested, Map!Answer, Map!Ok, Ok, Held, Op
<1>13. ASSUME NEW t \in Threads, SealedLen(t) PROVE Map!Measure(t)
  <2> DEFINE q == thread[t].provider
  <2>1. /\ Op[t].phase = "called" /\ Op[t].request.kind = "sealed_len"
        /\ Op[t].request.provider = q /\ q \in Providers
    BY <1>13, SeenLocking DEF SealedLen
  <2>2. {p \in {q} : sealed[p] # None} = {p \in {q} : Held[p] # {}}
    BY <2>1, EntryOpens DEF Held, StoreOK
  <2>3. UNCHANGED <<Held, poisoned>>
        /\ Op' = [Op EXCEPT ![t] = Map!Quiet(Ok({p \in {q} : Held[p] # {}}))]
    BY <1>13, <2>2, SeenBecome, SeenIdle DEF SealedLen
  <2> QED
    BY <2>1, <2>3 DEF Map!Measure, Map!Requested, Map!Answer, Map!Ok, Ok, Held, Op
<1> QED
  BY <1>1, <1>2, <1>3, <1>5, <1>6, <1>7, <1>8, <1>9, <1>10, <1>11, <1>12, <1>13
     DEF Next, Map!Next

\* The encrypted store implements the CredentialStore trait's map: under any
\* interleaving of any number of threads, every operation takes effect at one
\* instant, though put seals before the lock and get opens after it.
THEOREM MapImplemented == Spec => MapSpec
<1>1. Init => Map!Init
  <2>1. ASSUME Init PROVE Held = [p \in Providers |-> {}]
    BY <2>1, EntryOpens DEF Init, Held, EntryOK
  <2>2. ASSUME Init PROVE Op = [t \in Threads |-> Map!Quiet(Ok({}))]
    BY <2>2, SeenIdle DEF Init, Op
  <2> QED
    BY <2>1, <2>2 DEF Init, Map!Init, Map!Ok, Ok, Held, Op
<1>2. StoreOK /\ [Next]_vars => [Map!Next]_(Map!vars)
  BY StoreStep
<1> QED
  BY <1>1, <1>2, StoreAlwaysOK, PTL DEF Spec, MapSpec, Map!Spec
=============================================================================
