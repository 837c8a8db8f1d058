------------------------------ MODULE DirectIo ------------------------------
(***************************************************************************)
(* The value-lock protocol of a shard over one mapstore pool: put, get,    *)
(* erase, and the two-phase put_direct and get_direct, in which a client   *)
(* reads or writes the value's memory by RDMA between a LOCATE and a       *)
(* RELEASE request.  The shard runs one request at a time, so a handler is *)
(* one step; RDMA transfers happen between the steps.                      *)
(*                                                                         *)
(* A put_direct goes to the object "___pending_<key>", which PUT_RELEASE   *)
(* swaps with the key's object.  Signals to ADO processes are off.         *)
(***************************************************************************)
EXTENDS Integers, FiniteSets

CONSTANTS Clients, Keys, Values,
          Len,        \* length of each value
          Targets,    \* value memory of the pool
          NoTarget, NoKey, NoClient, NoValue,
          Torn,       \* memory whose content is no single client's value
          MaxReaders, \* read locks a pthread rwlock admits
          CanClose    \* may sessions end in the middle of an operation?

ASSUME ClientsAssumption == IsFiniteSet(Clients) /\ NoClient \notin Clients
ASSUME NoKeyAssumption == NoKey \notin Keys
ASSUME NoTargetAssumption == NoTarget \notin Targets
ASSUME ValuesAssumption == NoValue \notin Values /\ Torn \notin Values /\ NoValue # Torn
ASSUME LenAssumption == Len \in [Values -> Nat \ {0}]
ASSUME MaxReadersAssumption == MaxReaders \in Nat \ {0}
ASSUME CanCloseAssumption == CanClose \in BOOLEAN

VARIABLES
  \* the mapstore pool
  ptr,       \* _map[k]: value memory of each key, NoTarget when the key is absent
  lk,        \* its RWLock: -1 write locked, n > 0 read locked n times, 0 free
  pend, plk, \* the same for the key "___pending_" + k
  data,      \* content of the value memory
  len,       \* its allocated length
  \* the shard
  sh_key, sh_count, sh_mr,  \* _locked_values_shared: key locked, count, registration owner
  ex_key, ex_count,         \* _locked_values_exclusive: pending key locked, count
  rename,                   \* _pending_renames: the key the target will be renamed to
  \* the clients
  pc, key, tgt, want,       \* operation in progress, its key, remote address and value
  ok                        \* the last operation has ended, with S_OK

pending == <<pend, plk>>
store == <<ptr, lk, pending, data, len>>
shared == <<sh_key, sh_count, sh_mr>>
exclusive == <<ex_key, ex_count, rename>>
client == <<pc, key, tgt, want>>
vars == <<ptr, lk, pend, plk, data, len, sh_key, sh_count, sh_mr, ex_key, ex_count,
          rename, pc, key, tgt, want, ok>>

Present(k) == ptr[k] # NoTarget
PendPresent(k) == pend[k] # NoTarget
Free(t) == \A k \in Keys : ptr[k] # t /\ pend[k] # t
Unlocked(l) == IF l > 0 THEN l - 1 ELSE 0     \* pthread_rwlock_unlock
Writing == {"write", "written"}
Reading == {"read", "send"}

Init == /\ ptr = [k \in Keys |-> NoTarget]
        /\ lk = [k \in Keys |-> 0]
        /\ pend = [k \in Keys |-> NoTarget]
        /\ plk = [k \in Keys |-> 0]
        /\ data = [t \in Targets |-> Torn]
        /\ len = [t \in Targets |-> 0]
        /\ sh_key = [t \in Targets |-> NoKey]
        /\ sh_count = [t \in Targets |-> 0]
        /\ sh_mr = [t \in Targets |-> NoClient]
        /\ ex_key = [t \in Targets |-> NoKey]
        /\ ex_count = [t \in Targets |-> 0]
        /\ rename = [t \in Targets |-> NoKey]
        /\ pc = [c \in Clients |-> "idle"]
        /\ key = [c \in Clients |-> NoKey]
        /\ tgt = [c \in Clients |-> NoTarget]
        /\ want = [c \in Clients |-> NoValue]
        /\ ok = [c \in Clients |-> TRUE]

-----------------------------------------------------------------------------
(* The client's side of an operation *)

Respond(c, s) == ok' = [ok EXCEPT ![c] = s]

Begin(c, step, k, t, v) == /\ pc' = [pc EXCEPT ![c] = step]
                           /\ key' = [key EXCEPT ![c] = k]
                           /\ tgt' = [tgt EXCEPT ![c] = t]
                           /\ want' = [want EXCEPT ![c] = v]

End(c) == /\ pc' = [pc EXCEPT ![c] = "idle"]
          /\ key' = [key EXCEPT ![c] = NoKey]
          /\ tgt' = [tgt EXCEPT ![c] = NoTarget]
          /\ want' = [want EXCEPT ![c] = NoValue]

\* A request the shard answers, changing nothing
ReplyOnly(c, s) == /\ Respond(c, s)
                   /\ UNCHANGED <<store, shared, exclusive, client>>

-----------------------------------------------------------------------------
(* OP_PUT *)

\* Mutant: the put does not look at the lock of the value
PutInPlaceUnlocked(c, k, v) ==
  /\ pc[c] = "idle"
  /\ Present(k)
  /\ len[ptr[k]] = Len[v]
  /\ data' = [data EXCEPT ![ptr[k]] = v]
  /\ Respond(c, TRUE)
  /\ UNCHANGED <<ptr, lk, pending, len, shared, exclusive, client>>

\* The value has the length of the old one and is copied over it
PutInPlace(c, k, v) ==
  /\ pc[c] = "idle"
  /\ Present(k)
  /\ lk[k] = 0
  /\ len[ptr[k]] = Len[v]
  /\ data' = [data EXCEPT ![ptr[k]] = v]
  /\ Respond(c, TRUE)
  /\ UNCHANGED <<ptr, lk, pending, len, shared, exclusive, client>>

\* A new key, or a value of another length: new memory, the old one is freed
PutAlloc(c, k, v, t) ==
  /\ pc[c] = "idle"
  /\ lk[k] = 0
  /\ ~(Present(k) /\ len[ptr[k]] = Len[v])
  /\ Free(t)
  /\ ptr' = [ptr EXCEPT ![k] = t]
  /\ data' = [data EXCEPT ![t] = v]
  /\ len' = [len EXCEPT ![t] = Len[v]]
  /\ Respond(c, TRUE)
  /\ UNCHANGED <<lk, pending, shared, exclusive, client>>

\* E_KEY_EXISTS with FLAGS_DONT_STOMP, E_LOCKED otherwise
PutRefused(c, k, dont_stomp) ==
  /\ pc[c] = "idle"
  /\ Present(k)
  /\ dont_stomp \/ lk[k] # 0
  /\ ReplyOnly(c, FALSE)

-----------------------------------------------------------------------------
(* OP_ERASE *)

\* Mutant: the pair is erased without a check that it is not locked
EraseUnlocked(c, k) ==
  /\ pc[c] = "idle"
  /\ Present(k)
  /\ ptr' = [ptr EXCEPT ![k] = NoTarget]
  /\ Respond(c, TRUE)
  /\ UNCHANGED <<lk, pending, data, len, shared, exclusive, client>>

Erase(c, k) ==
  /\ pc[c] = "idle"
  /\ Present(k)
  /\ lk[k] = 0
  /\ ptr' = [ptr EXCEPT ![k] = NoTarget]
  /\ Respond(c, TRUE)
  /\ UNCHANGED <<lk, pending, data, len, shared, exclusive, client>>

\* E_KEY_NOT_FOUND or E_LOCKED
EraseRefused(c, k) ==
  /\ pc[c] = "idle"
  /\ ~Present(k) \/ lk[k] # 0
  /\ ReplyOnly(c, FALSE)

-----------------------------------------------------------------------------
(* OP_GET and OP_GET_LOCATE *)

\* lock(STORE_LOCK_READ) of an existing key succeeds
CanReadLock(k) == Present(k) /\ lk[k] \in 0 .. MaxReaders - 1

\* The emplace of add_locked_value_shared keeps an existing entry, with its lock
\* handle and its registration; the new registration is then destroyed.
AddLockedValueShared(c, k, t) ==
  /\ sh_key' = IF sh_count[t] = 0 THEN [sh_key EXCEPT ![t] = k] ELSE sh_key
  /\ sh_mr' = IF sh_count[t] = 0 THEN [sh_mr EXCEPT ![t] = c] ELSE sh_mr
  /\ sh_count' = [sh_count EXCEPT ![t] = @ + 1]

\* A value below the two-stage threshold is copied, whatever lock is held;
\* S_OK even where the value is write locked.
GetSmall(c, k) ==
  /\ pc[c] = "idle"
  /\ ReplyOnly(c, Present(k))

\* The response is posted from the value's memory (step "send"), or the client
\* reads the memory itself (step "read")
ReadLocate(c, k, step) ==
  /\ pc[c] = "idle"
  /\ CanReadLock(k)
  /\ lk' = [lk EXCEPT ![k] = @ + 1]
  /\ AddLockedValueShared(c, k, ptr[k])
  /\ Begin(c, step, k, ptr[k], NoValue)
  /\ Respond(c, FALSE)
  /\ UNCHANGED <<ptr, pending, data, len, exclusive>>

GetTwoStage(c, k) == ReadLocate(c, k, "send")
GetLocate(c, k) == ReadLocate(c, k, "read")

\* The lock is refused, or taken and returned when the memory cannot be registered
ReadRefused(c) ==
  /\ pc[c] = "idle"
  /\ ReplyOnly(c, FALSE)

-----------------------------------------------------------------------------
(* OP_GET_RELEASE, and ACTION_RELEASE_VALUE_LOCK_SHARED of a sent response *)

\* Mutant: every reader unlocks, and the entry is dropped by the first
ReleaseFirstShared(t) ==
  /\ lk' = IF sh_count[t] > 0 THEN [lk EXCEPT ![sh_key[t]] = Unlocked(@)] ELSE lk
  /\ sh_key' = [sh_key EXCEPT ![t] = NoKey]
  /\ sh_mr' = [sh_mr EXCEPT ![t] = NoClient]
  /\ sh_count' = [sh_count EXCEPT ![t] = 0]

\* Only the last of the counted readers unlocks
ReleaseLockedValueShared(t) ==
  /\ lk' = IF sh_count[t] = 1 THEN [lk EXCEPT ![sh_key[t]] = Unlocked(@)] ELSE lk
  /\ sh_key' = IF sh_count[t] = 1 THEN [sh_key EXCEPT ![t] = NoKey] ELSE sh_key
  /\ sh_mr' = IF sh_count[t] = 1 THEN [sh_mr EXCEPT ![t] = NoClient] ELSE sh_mr
  /\ sh_count' = IF sh_count[t] > 0 THEN [sh_count EXCEPT ![t] = @ - 1] ELSE sh_count

ReadRelease(c, step) ==
  /\ pc[c] = step
  /\ Respond(c, sh_count[tgt[c]] > 0)
  /\ ReleaseLockedValueShared(tgt[c])
  /\ End(c)
  /\ UNCHANGED <<ptr, pending, data, len, exclusive>>

SendComplete(c) == ReadRelease(c, "send")
GetRelease(c) == ReadRelease(c, "read")

-----------------------------------------------------------------------------
(* OP_PUT_LOCATE *)

\* lock() creates the object on demand, with uninitialised memory
CreatePending(k, v, t) == /\ Free(t)
                          /\ pend' = [pend EXCEPT ![k] = t]
                          /\ len' = [len EXCEPT ![t] = Len[v]]
                          /\ data' = [data EXCEPT ![t] = Torn]

\* The entry of _pending_renames is emplaced: an entry the target already has is kept
PutLocate(c, k, v, t) ==
  /\ pc[c] = "idle"
  /\ plk[k] = 0
  /\ \/ PendPresent(k) /\ t = pend[k] /\ UNCHANGED <<pend, len, data>>
     \/ ~PendPresent(k) /\ CreatePending(k, v, t)
  /\ plk' = [plk EXCEPT ![k] = -1]
  /\ ex_key' = IF ex_count[t] = 0 THEN [ex_key EXCEPT ![t] = k] ELSE ex_key
  /\ ex_count' = [ex_count EXCEPT ![t] = @ + 1]
  /\ rename' = IF rename[t] = NoKey THEN [rename EXCEPT ![t] = k] ELSE rename
  /\ Begin(c, "write", k, t, v)
  /\ Respond(c, FALSE)
  /\ UNCHANGED <<ptr, lk, shared>>

\* FLAGS_DONT_STOMP, the pending object is locked, or it exists and its memory cannot
\* be registered
PutLocateRefused(c, k, dont_stomp) ==
  /\ pc[c] = "idle"
  /\ dont_stomp \/ PendPresent(k)
  /\ ReplyOnly(c, FALSE)

\* The memory of a new object cannot be registered: the lock is returned, the object stays
PutLocateUnregistered(c, k, v, t) ==
  /\ pc[c] = "idle"
  /\ ~PendPresent(k)
  /\ CreatePending(k, v, t)
  /\ Respond(c, FALSE)
  /\ UNCHANGED <<ptr, lk, plk, shared, exclusive, client>>

\* The client's RDMA write.  A value shorter than the object leaves the tail of the
\* old content; a longer one exceeds the registered memory and is not transferred.
RemoteWrite(c) ==
  /\ pc[c] = "write"
  /\ Len[want[c]] <= len[tgt[c]]
  /\ data' = [data EXCEPT ![tgt[c]] = IF Len[want[c]] = len[tgt[c]] THEN want[c] ELSE Torn]
  /\ pc' = [pc EXCEPT ![c] = "written"]
  /\ UNCHANGED <<ptr, lk, pending, len, shared, exclusive, key, tgt, want, ok>>

-----------------------------------------------------------------------------
(* OP_PUT_RELEASE *)

\* Mutant: the entry is not erased when its lock is returned
KeepLockedValueExclusive(t) ==
  /\ UNCHANGED <<ex_key, ex_count>>
  /\ plk' = IF ex_count[t] = 1 THEN [plk EXCEPT ![ex_key[t]] = Unlocked(@)] ELSE plk

ReleaseLockedValueExclusive(t) ==
  /\ ex_key' = IF ex_count[t] = 1 THEN [ex_key EXCEPT ![t] = NoKey] ELSE ex_key
  /\ ex_count' = IF ex_count[t] > 0 THEN [ex_count EXCEPT ![t] = @ - 1] ELSE ex_count
  /\ plk' = IF ex_count[t] = 1 THEN [plk EXCEPT ![ex_key[t]] = Unlocked(@)] ELSE plk

\* Mutant: the old value stays the key's, the new one is erased with the pending key
PutReleaseNoSwap(c) ==
  LET t == tgt[c]
      k == rename[t] IN
  /\ pc[c] = "written"
  /\ k # NoKey /\ lk[k] = 0
  /\ ReleaseLockedValueExclusive(t)
  /\ pend' = [pend EXCEPT ![k] = NoTarget]
  /\ rename' = [rename EXCEPT ![t] = NoKey]
  /\ End(c)
  /\ Respond(c, TRUE)
  /\ UNCHANGED <<ptr, lk, data, len, shared>>

\* release_pending_rename: lock(to, create on demand), swap_keys(from, to), erase(from)
PutRelease(c) ==
  LET t == tgt[c]
      k == rename[t] IN
  /\ pc[c] = "written"
  /\ k # NoKey /\ lk[k] = 0
  /\ ReleaseLockedValueExclusive(t)
  /\ ptr' = [ptr EXCEPT ![k] = t]
  /\ pend' = [pend EXCEPT ![k] = NoTarget]
  /\ rename' = [rename EXCEPT ![t] = NoKey]
  /\ End(c)
  /\ Respond(c, TRUE)
  /\ UNCHANGED <<lk, data, len, shared>>

\* The key is locked: E_INVAL, after the pending object was unlocked
PutReleaseFailed(c) ==
  LET t == tgt[c]
      k == rename[t] IN
  /\ pc[c] = "written"
  /\ k # NoKey /\ lk[k] # 0
  /\ ReleaseLockedValueExclusive(t)
  /\ End(c)
  /\ Respond(c, FALSE)
  /\ UNCHANGED <<ptr, lk, pend, data, len, shared, rename>>

-----------------------------------------------------------------------------
\* The session ends in the middle of an operation; the client may connect again.
\* Nothing of what the shard holds for it is released.
SessionClose(c) ==
  /\ CanClose
  /\ pc[c] # "idle"
  /\ End(c)
  /\ UNCHANGED <<store, shared, exclusive, ok>>

Next ==
  \E c \in Clients :
    \/ \E k \in Keys :
         \/ \E v \in Values : PutInPlace(c, k, v)
         \/ \E v \in Values, t \in Targets : PutAlloc(c, k, v, t)
         \/ \E d \in BOOLEAN : PutRefused(c, k, d)
         \/ Erase(c, k)
         \/ EraseRefused(c, k)
         \/ GetSmall(c, k)
         \/ GetTwoStage(c, k)
         \/ GetLocate(c, k)
         \/ \E v \in Values, t \in Targets : PutLocate(c, k, v, t)
         \/ \E d \in BOOLEAN : PutLocateRefused(c, k, d)
         \/ \E v \in Values, t \in Targets : PutLocateUnregistered(c, k, v, t)
    \/ ReadRefused(c)
    \/ RemoteWrite(c)
    \/ PutRelease(c)
    \/ PutReleaseFailed(c)
    \/ SendComplete(c)
    \/ GetRelease(c)
    \/ SessionClose(c)

Spec == Init /\ [][Next]_vars

-----------------------------------------------------------------------------
(* Properties *)

\* The types of the store, of the shard's lock tables and of the clients.
PoolTypeOK ==
  /\ ptr \in [Keys -> Targets \cup {NoTarget}]
  /\ lk \in [Keys -> 0 .. MaxReaders]
  /\ pend \in [Keys -> Targets \cup {NoTarget}]
  /\ plk \in [Keys -> {-1, 0}]
  /\ data \in [Targets -> Values \cup {Torn}]
  /\ len \in [Targets -> Nat]

TablesTypeOK ==
  /\ sh_key \in [Targets -> Keys \cup {NoKey}]
  /\ sh_count \in [Targets -> Nat]
  /\ sh_mr \in [Targets -> Clients \cup {NoClient}]
  /\ ex_key \in [Targets -> Keys \cup {NoKey}]
  /\ ex_count \in [Targets -> {0, 1}]
  /\ rename \in [Targets -> Keys \cup {NoKey}]

ClientsTypeOK ==
  /\ pc \in [Clients -> {"idle"} \cup Writing \cup Reading]
  /\ key \in [Clients -> Keys \cup {NoKey}]
  /\ tgt \in [Clients -> Targets \cup {NoTarget}]
  /\ want \in [Clients -> Values \cup {NoValue}]
  /\ ok \in [Clients -> BOOLEAN]

\* Type invariant of the store, the shard's lock tables and the clients.
TypeOK == PoolTypeOK /\ TablesTypeOK /\ ClientsTypeOK

\* Memory a client may reach by RDMA stays what it was located as.  As long as a
\* put_direct is between LOCATE and RELEASE, its memory is the pending object of its
\* key, write locked; as long as a get is, its memory is the key's value, read locked.
GrantBacked == \A c \in Clients :
                 /\ pc[c] \in Writing => pend[key[c]] = tgt[c] /\ plk[key[c]] = -1
                 /\ pc[c] \in Reading => ptr[key[c]] = tgt[c] /\ lk[key[c]] > 0

\* No two objects share memory: swap_keys and the erase of the pending key neither
\* duplicate nor lose a value.
NoSharedMemory ==
  /\ \A j, k \in Keys : j # k => /\ Present(j) => ptr[j] # ptr[k]
                                 /\ PendPresent(j) => pend[j] # pend[k]
  /\ \A j, k \in Keys : Present(j) => ptr[j] # pend[k]

\* An entry of _locked_values_shared names the key whose value lies at its target, and
\* the key is read locked at least as often as the entry counts.
SharedBacked == \A t \in Targets : sh_count[t] > 0 =>
                  /\ sh_key[t] \in Keys
                  /\ ptr[sh_key[t]] = t
                  /\ lk[sh_key[t]] >= sh_count[t]

\* The clients reading a value are all counted in its entry.
Readers(t) == {c \in Clients : pc[c] \in Reading /\ tgt[c] = t}
ReadersCounted == \A t \in Targets : Cardinality(Readers(t)) <= sh_count[t]

\* An entry of _locked_values_exclusive names the pending key that is write locked,
\* and has a rename to that key; a pending key is locked only with such an entry.
ExclusiveBacked ==
  /\ \A t \in Targets : ex_count[t] = 1 =>
       ex_key[t] \in Keys /\ pend[ex_key[t]] = t /\ plk[ex_key[t]] = -1 /\ rename[t] = ex_key[t]
  /\ \A k \in Keys : plk[k] = -1 => PendPresent(k) /\ ex_count[pend[k]] = 1

\* A rename that is pending renames the pending object of its key.
RenameBacked == \A t \in Targets : rename[t] \in Keys => pend[rename[t]] = t

\* Each put_direct has the entry of its target to itself.
WritersBacked ==
  \A c \in Clients : pc[c] \in Writing =>
    /\ ex_count[tgt[c]] = 1
    /\ \A d \in Clients \ {c} : pc[d] \in Writing => tgt[d] # tgt[c]

\* A client in the middle of an operation knows its key and its target; an absent key
\* is not locked.
ShapeOK == /\ \A c \in Clients : pc[c] # "idle" => key[c] \in Keys /\ tgt[c] \in Targets
           /\ \A c \in Clients : pc[c] \in Writing => want[c] \in Values
           /\ \A k \in Keys : ~Present(k) => lk[k] = 0

\* The shard's lock tables agree with the locks of the store and with what its clients
\* were told: the invariant from which the others follow.
LockInv == /\ NoSharedMemory
           /\ SharedBacked
           /\ ReadersCounted
           /\ ExclusiveBacked
           /\ RenameBacked
           /\ WritersBacked
           /\ ShapeOK
           /\ GrantBacked

\* A value does not change, in content or in place, while a client reads it by RDMA
\* or the shard's response is being sent from its memory.
ReadStable == [][\A c \in Clients : pc[c] \in Reading =>
                   /\ data'[tgt[c]] = data[tgt[c]]
                   /\ ptr'[key[c]] = tgt[c]]_vars

\* Every key changes as DirectKv says: put_direct is atomic, makes exactly the
\* announced value visible, and one at a time runs on a key.
Kv == INSTANCE DirectKv WITH
        kv <- [k \in Keys |-> IF Present(k) THEN data[ptr[k]] ELSE NoValue],
        staging <- [c \in Clients |-> IF pc[c] \in Writing THEN key[c] ELSE NoKey],
        staged <- [c \in Clients |-> IF pc[c] \in Writing THEN want[c] ELSE NoValue]
ImplementsDirectKv == Kv!Spec

\* info/locking.md: a get-direct takes a read lock at its start and returns it at its
\* end.  With no operation in progress no key is locked.
LocksReturned == (\A c \in Clients : pc[c] = "idle") => \A k \in Keys : lk[k] = 0 /\ plk[k] = 0

\* The integrity check of the put_direct test: what a put_direct makes visible is the
\* value its client passed.
PutDirectIntegrity == [][\A c \in Clients :
                           /\ pc[c] = "written"
                           /\ ptr'[key[c]] = tgt[c]
                           => data'[tgt[c]] = want[c]]_vars
=============================================================================
