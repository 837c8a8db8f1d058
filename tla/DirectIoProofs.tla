--------------------------- MODULE DirectIoProofs ---------------------------
(***************************************************************************)
(* The inductive invariant of DirectIo, what it means for a value that is  *)
(* being read, that every step preserves it (put and erase, the gets,      *)
(* PUT_LOCATE and the remote write, PUT_RELEASE and the end of a session), *)
(* and the theorems.  The last one is that the protocol implements         *)
(* DirectKv when all values have one length.                               *)
(*                                                                         *)
(* That a grant is backed (GrantBacked) is not inductive: a release of one *)
(* reader must not unlock the value under another one, which needs the     *)
(* counts of _locked_values_shared to cover the readers and the store's    *)
(* lock to cover the counts; and PUT_RELEASE must find its own entry and   *)
(* its own rename.  LockInv collects what is needed.                       *)
(***************************************************************************)
EXTENDS DirectIo, TLAPS, FiniteSetTheorems

USE SMTT(60)
USE ClientsAssumption, NoKeyAssumption, NoTargetAssumption, ValuesAssumption,
    LenAssumption, MaxReadersAssumption
USE DEF pending, store, shared, exclusive, client, Present, PendPresent, Free, Unlocked,
        Writing, Reading, Respond, Begin, End

IInv == TypeOK /\ LockInv

-----------------------------------------------------------------------------
(* A conjunct of the invariant is kept by a step that leaves its variables alone *)

\* swap_keys, put and erase are the only ones to move an object.
LEMMA NoSharedMemoryKept ==
  ASSUME IInv, UNCHANGED <<ptr, pend>> PROVE NoSharedMemory'
BY Zenon DEF IInv, LockInv, NoSharedMemory

\* Entries of _locked_values_shared.
LEMMA SharedBackedKept ==
  ASSUME IInv, UNCHANGED <<ptr, lk, sh_key, sh_count>> PROVE SharedBacked'
BY Zenon DEF IInv, LockInv, SharedBacked

\* Counts of _locked_values_shared.
LEMMA ReadersCountedKept ==
  ASSUME IInv, UNCHANGED <<pc, tgt, sh_count>> PROVE ReadersCounted'
BY Zenon DEF IInv, LockInv, ReadersCounted, Readers

\* Entries of _locked_values_exclusive.
LEMMA ExclusiveBackedKept ==
  ASSUME IInv, UNCHANGED <<pend, plk, ex_key, ex_count, rename>> PROVE ExclusiveBacked'
BY Zenon DEF IInv, LockInv, ExclusiveBacked

\* Entries of _pending_renames.
LEMMA RenameBackedKept ==
  ASSUME IInv, UNCHANGED <<pend, rename>> PROVE RenameBacked'
BY Zenon DEF IInv, LockInv, RenameBacked

\* Clients between PUT_LOCATE and PUT_RELEASE.
LEMMA WritersBackedKept ==
  ASSUME IInv, UNCHANGED <<pc, tgt, ex_count>> PROVE WritersBacked'
BY Zenon DEF IInv, LockInv, WritersBacked

\* What a client remembers of its operation.
LEMMA ShapeKept ==
  ASSUME IInv, UNCHANGED <<pc, key, tgt, want, ptr, lk>> PROVE ShapeOK'
BY Zenon DEF IInv, LockInv, ShapeOK

\* What a client may reach by RDMA.
LEMMA GrantKept ==
  ASSUME IInv, UNCHANGED <<pc, key, tgt, ptr, lk, pend, plk>> PROVE GrantBacked'
BY Zenon DEF IInv, LockInv, GrantBacked

\* A step that changes nothing.
LEMMA StutterStep == ASSUME IInv, UNCHANGED vars PROVE IInv'
<1>1. TypeOK'
  BY Zenon DEF IInv, vars, TypeOK, PoolTypeOK, TablesTypeOK, ClientsTypeOK
<1>2. LockInv'
  BY NoSharedMemoryKept, SharedBackedKept, ReadersCountedKept, ExclusiveBackedKept,
     RenameBackedKept, WritersBackedKept, ShapeKept, GrantKept, Zenon DEF vars, LockInv
<1>. QED BY <1>1, <1>2, Zenon DEF IInv

-----------------------------------------------------------------------------
(* put and erase preserve the invariant *)

\* A put over the old value needs the pair unlocked, and changes only its content.
LEMMA PutInPlaceStep ==
  ASSUME NEW c \in Clients, NEW k \in Keys, NEW v \in Values, IInv, PutInPlace(c, k, v)
  PROVE  IInv'
<1>1. /\ ptr[k] # NoTarget
      /\ data' = [data EXCEPT ![ptr[k]] = v]
      /\ ok' = [ok EXCEPT ![c] = TRUE]
      /\ UNCHANGED <<ptr, lk, pend, plk, len, sh_key, sh_count, sh_mr, ex_key, ex_count,
                     rename, pc, key, tgt, want>>
  BY Zenon DEF PutInPlace
<1>2. TypeOK'
  BY <1>1, Zenon DEF IInv, TypeOK, PoolTypeOK, TablesTypeOK, ClientsTypeOK
<1>3. LockInv'
  BY <1>1, NoSharedMemoryKept, SharedBackedKept, ReadersCountedKept, ExclusiveBackedKept,
     RenameBackedKept, WritersBackedKept, ShapeKept, GrantKept, Zenon DEF LockInv
<1>. QED BY <1>2, <1>3, Zenon DEF IInv

\* A put into new memory moves an unlocked pair to memory no object lies in.
LEMMA PutAllocStep ==
  ASSUME NEW c \in Clients, NEW k \in Keys, NEW v \in Values, NEW t \in Targets, IInv,
         PutAlloc(c, k, v, t)
  PROVE  IInv'
<1>1. /\ lk[k] = 0 /\ Free(t)
      /\ ptr' = [ptr EXCEPT ![k] = t]
      /\ UNCHANGED <<lk, pend, plk, sh_key, sh_count, sh_mr, ex_key, ex_count,
                     rename, pc, key, tgt, want>>
  BY Zenon DEF PutAlloc
<1>2. /\ data' = [data EXCEPT ![t] = v]
      /\ len' = [len EXCEPT ![t] = Len[v]]
      /\ ok' = [ok EXCEPT ![c] = TRUE]
  BY Zenon DEF PutAlloc
<1>3. TypeOK'
  BY <1>1, <1>2, Zenon DEF IInv, TypeOK, PoolTypeOK, TablesTypeOK, ClientsTypeOK
<1>4. ptr \in [Keys -> Targets \cup {NoTarget}]
  BY Zenon DEF IInv, TypeOK, PoolTypeOK
<1>5. sh_count \in [Targets -> Nat]
  BY Zenon DEF IInv, TypeOK, TablesTypeOK
<1>6. NoSharedMemory'
  BY <1>1, <1>4, Zenon DEF IInv, LockInv, NoSharedMemory
<1>7. SharedBacked'
  BY <1>1, <1>4, <1>5 DEF IInv, LockInv, SharedBacked
<1>8. ShapeOK'
  BY <1>1, <1>4, Zenon DEF IInv, LockInv, ShapeOK
<1>9. GrantBacked'
  BY <1>1, <1>4 DEF IInv, LockInv, GrantBacked
<1>10. (ReadersCounted /\ ExclusiveBacked /\ RenameBacked /\ WritersBacked)'
  BY <1>1, ReadersCountedKept, ExclusiveBackedKept, RenameBackedKept, WritersBackedKept, Zenon
<1>. QED BY <1>3, <1>6, <1>7, <1>8, <1>9, <1>10, Zenon DEF IInv, LockInv

\* An erase drops an unlocked pair, which no entry of the shard names.
LEMMA EraseStep ==
  ASSUME NEW c \in Clients, NEW k \in Keys, IInv, Erase(c, k)
  PROVE  IInv'
<1>1. /\ lk[k] = 0
      /\ ptr' = [ptr EXCEPT ![k] = NoTarget]
      /\ ok' = [ok EXCEPT ![c] = TRUE]
      /\ UNCHANGED <<lk, pend, plk, data, len, sh_key, sh_count, sh_mr, ex_key, ex_count,
                     rename, pc, key, tgt, want>>
  BY Zenon DEF Erase
<1>2. TypeOK'
  BY <1>1, Zenon DEF IInv, TypeOK, PoolTypeOK, TablesTypeOK, ClientsTypeOK
<1>3. ptr \in [Keys -> Targets \cup {NoTarget}]
  BY Zenon DEF IInv, TypeOK, PoolTypeOK
<1>4. sh_count \in [Targets -> Nat]
  BY Zenon DEF IInv, TypeOK, TablesTypeOK
<1>5. NoSharedMemory'
  BY <1>1, <1>3, Zenon DEF IInv, LockInv, NoSharedMemory
<1>6. SharedBacked'
  BY <1>1, <1>3, <1>4 DEF IInv, LockInv, SharedBacked
<1>7. ShapeOK'
  BY <1>1, <1>3, Zenon DEF IInv, LockInv, ShapeOK
<1>8. GrantBacked'
  BY <1>1, <1>3 DEF IInv, LockInv, GrantBacked
<1>9. (ReadersCounted /\ ExclusiveBacked /\ RenameBacked /\ WritersBacked)'
  BY <1>1, ReadersCountedKept, ExclusiveBackedKept, RenameBackedKept, WritersBackedKept, Zenon
<1>. QED BY <1>2, <1>5, <1>6, <1>7, <1>8, <1>9, Zenon DEF IInv, LockInv

\* A request that only gets an answer changes none of the tables.
LEMMA ReplyOnlyStep ==
  ASSUME NEW c \in Clients, NEW s \in BOOLEAN, IInv, ReplyOnly(c, s)
  PROVE  IInv'
<1>1. /\ ok' = [ok EXCEPT ![c] = s]
      /\ UNCHANGED <<ptr, lk, pend, plk, data, len, sh_key, sh_count, sh_mr, ex_key,
                     ex_count, rename, pc, key, tgt, want>>
  BY Zenon DEF ReplyOnly
<1>2. TypeOK'
  BY <1>1, Zenon DEF IInv, TypeOK, PoolTypeOK, TablesTypeOK, ClientsTypeOK
<1>3. LockInv'
  BY <1>1, NoSharedMemoryKept, SharedBackedKept, ReadersCountedKept, ExclusiveBackedKept,
     RenameBackedKept, WritersBackedKept, ShapeKept, GrantKept, Zenon DEF LockInv
<1>. QED BY <1>2, <1>3, Zenon DEF IInv

-----------------------------------------------------------------------------
(* A value that is being read keeps its content and its place *)

ValuesKept == \A c \in Clients : pc[c] \in Reading =>
                /\ data'[tgt[c]] = data[tgt[c]]
                /\ ptr'[key[c]] = tgt[c]

\* The types of the memory and of the map.
LEMMA PoolTypes ==
  ASSUME IInv
  PROVE  data \in [Targets -> Values \cup {Torn}] /\ ptr \in [Keys -> Targets \cup {NoTarget}]
BY Zenon DEF IInv, TypeOK, PoolTypeOK

\* A value somebody reads is the value of its key, read locked, and no other object's.
LEMMA ReadTarget ==
  ASSUME IInv, NEW d \in Clients, pc[d] \in Reading
  PROVE  /\ key[d] \in Keys /\ tgt[d] \in Targets
         /\ ptr[key[d]] = tgt[d] /\ lk[key[d]] > 0
         /\ \A k \in Keys : (k # key[d] => ptr[k] # tgt[d]) /\ pend[k] # tgt[d]
<1>1. key[d] \in Keys /\ tgt[d] \in Targets /\ ptr[key[d]] = tgt[d] /\ lk[key[d]] > 0
  BY Zenon DEF IInv, LockInv, ShapeOK, GrantBacked
<1>2. \A k \in Keys : (k # key[d] => ptr[k] # tgt[d]) /\ pend[k] # tgt[d]
  BY <1>1, Zenon DEF IInv, LockInv, NoSharedMemory
<1>. QED BY <1>1, <1>2, Zenon

\* Requests that leave the memory and the map alone.
LEMMA UnchangedKeeps ==
  ASSUME IInv, data' = data, ptr' = ptr
  PROVE  ValuesKept
BY ReadTarget, Zenon DEF ValuesKept

\* A put writes to the memory of a key that is not locked.
LEMMA PutInPlaceKeeps ==
  ASSUME IInv, NEW c \in Clients, NEW k \in Keys, NEW v \in Values, PutInPlace(c, k, v)
  PROVE  ValuesKept
<1>1. data' = [data EXCEPT ![ptr[k]] = v] /\ ptr' = ptr /\ lk[k] = 0 /\ Present(k)
  BY Zenon DEF PutInPlace
<1>. QED BY <1>1, ReadTarget, PoolTypes DEF ValuesKept

\* New memory, for a value or for a pending object, is not that of any key.
LEMMA AllocKeeps ==
  ASSUME IInv, NEW t \in Targets, NEW v, Free(t), data' = [data EXCEPT ![t] = v],
         \/ ptr' = ptr
         \/ \E k \in Keys : lk[k] = 0 /\ ptr' = [ptr EXCEPT ![k] = t]
  PROVE  ValuesKept
BY ReadTarget, PoolTypes DEF ValuesKept

\* An erase, or the swap of a PUT_RELEASE, needs the key unlocked.
LEMMA MoveKeeps ==
  ASSUME IInv, NEW k, lk[k] = 0, data' = data, NEW t, ptr' = [ptr EXCEPT ![k] = t]
  PROVE  ValuesKept
BY ReadTarget, PoolTypes DEF ValuesKept

\* A remote write goes to a pending object.
LEMMA RemoteWriteKeeps ==
  ASSUME IInv, NEW c \in Clients, RemoteWrite(c)
  PROVE  ValuesKept
<1>1. tgt[c] = pend[key[c]] /\ key[c] \in Keys
  BY Zenon DEF RemoteWrite, IInv, LockInv, ShapeOK, GrantBacked
<1>2. ptr' = ptr /\ \A t \in Targets : t # tgt[c] => data'[t] = data[t]
  BY PoolTypes, Zenon DEF RemoteWrite
<1>. QED BY <1>1, <1>2, ReadTarget DEF ValuesKept

\* A put into new memory.
LEMMA PutAllocKeeps ==
  ASSUME IInv, NEW c \in Clients, NEW k \in Keys, NEW v \in Values, NEW t \in Targets,
         PutAlloc(c, k, v, t)
  PROVE  ValuesKept
<1>1. Free(t) /\ lk[k] = 0 /\ data' = [data EXCEPT ![t] = v] /\ ptr' = [ptr EXCEPT ![k] = t]
  BY Zenon DEF PutAlloc
<1>. QED BY <1>1, AllocKeeps, ZenonT(60)

\* A PUT_LOCATE, registered or not.
LEMMA PutLocateKeeps ==
  ASSUME IInv, NEW c \in Clients, NEW k \in Keys, NEW v \in Values, NEW t \in Targets,
         PutLocate(c, k, v, t) \/ PutLocateUnregistered(c, k, v, t)
  PROVE  ValuesKept
<1>1. PutLocate(c, k, v, t) =>
        ptr' = ptr /\ (data' = data \/ (Free(t) /\ data' = [data EXCEPT ![t] = Torn]))
  BY Zenon DEF PutLocate, CreatePending
<1>2. PutLocateUnregistered(c, k, v, t) =>
        ptr' = ptr /\ Free(t) /\ data' = [data EXCEPT ![t] = Torn]
  BY Zenon DEF PutLocateUnregistered, CreatePending
<1>. QED BY <1>1, <1>2, AllocKeeps, UnchangedKeeps, ZenonT(60)

\* An erase.
LEMMA EraseKeeps ==
  ASSUME IInv, NEW c \in Clients, NEW k \in Keys, Erase(c, k)
  PROVE  ValuesKept
<1>1. lk[k] = 0 /\ data' = data /\ ptr' = [ptr EXCEPT ![k] = NoTarget]
  BY Zenon DEF Erase
<1>. QED BY <1>1, MoveKeeps, ZenonT(60)

\* A PUT_RELEASE.
LEMMA PutReleaseKeeps ==
  ASSUME IInv, NEW c \in Clients, PutRelease(c)
  PROVE  ValuesKept
<1>1. /\ lk[rename[tgt[c]]] = 0 /\ data' = data
      /\ ptr' = [ptr EXCEPT ![rename[tgt[c]]] = tgt[c]]
  BY Zenon DEF PutRelease
<1>. QED BY <1>1, MoveKeeps, ZenonT(60)

-----------------------------------------------------------------------------
(* The gets *)

\* GET_LOCATE and a two-stage get lock the key once more and count one more reader.
\* (That the counts still cover the readers is ReadLocateCounted in DirectIoProofs.)
LEMMA ReadLocateStep ==
  ASSUME NEW c \in Clients, NEW k \in Keys, NEW step \in Reading, IInv,
         ReadLocate(c, k, step), ReadersCounted'
  PROVE  IInv'
<1>1. pc[c] = "idle" /\ ptr[k] # NoTarget /\ lk[k] \in 0 .. MaxReaders - 1
  BY Zenon DEF ReadLocate, CanReadLock
<1>2. lk' = [lk EXCEPT ![k] = @ + 1] /\ UNCHANGED <<ptr, pend, plk, data, len>>
  BY Zenon DEF ReadLocate
<1>3. /\ sh_key' = IF sh_count[ptr[k]] = 0 THEN [sh_key EXCEPT ![ptr[k]] = k] ELSE sh_key
      /\ sh_count' = [sh_count EXCEPT ![ptr[k]] = @ + 1]
      /\ UNCHANGED <<ex_key, ex_count, rename>>
  BY Zenon DEF ReadLocate, AddLockedValueShared
<1>4. sh_mr' = IF sh_count[ptr[k]] = 0 THEN [sh_mr EXCEPT ![ptr[k]] = c] ELSE sh_mr
  BY Zenon DEF ReadLocate, AddLockedValueShared
<1>5. /\ pc' = [pc EXCEPT ![c] = step]
      /\ key' = [key EXCEPT ![c] = k]
      /\ tgt' = [tgt EXCEPT ![c] = ptr[k]]
  BY Zenon DEF ReadLocate
<1>6. want' = [want EXCEPT ![c] = NoValue] /\ ok' = [ok EXCEPT ![c] = FALSE]
  BY Zenon DEF ReadLocate
<1>7. /\ lk \in [Keys -> 0 .. MaxReaders]
      /\ ptr \in [Keys -> Targets \cup {NoTarget}]
      /\ sh_count \in [Targets -> Nat]
      /\ sh_key \in [Targets -> Keys \cup {NoKey}]
  BY Zenon DEF IInv, TypeOK, PoolTypeOK, TablesTypeOK
<1>8. /\ pc \in [Clients -> {"idle"} \cup Writing \cup Reading]
      /\ key \in [Clients -> Keys \cup {NoKey}]
      /\ tgt \in [Clients -> Targets \cup {NoTarget}]
      /\ want \in [Clients -> Values \cup {NoValue}]
  BY Zenon DEF IInv, TypeOK, ClientsTypeOK
<1>9. TypeOK'
  <2>1. PoolTypeOK'
    BY <1>1, <1>2 DEF IInv, TypeOK, PoolTypeOK
  <2>2. TablesTypeOK'
    BY <1>1, <1>3, <1>4, <1>7 DEF IInv, TypeOK, TablesTypeOK
  <2>3. ClientsTypeOK'
    BY <1>1, <1>5, <1>6, <1>7, Zenon DEF IInv, TypeOK, ClientsTypeOK
  <2>. QED BY <2>1, <2>2, <2>3, Zenon DEF TypeOK
<1>10. SharedBacked'
  BY <1>1, <1>2, <1>3, <1>7 DEF IInv, LockInv, NoSharedMemory, SharedBacked
<1>11. WritersBacked'
  BY <1>1, <1>3, <1>5, <1>8 DEF IInv, LockInv, WritersBacked
<1>12. ShapeOK'
  BY <1>1, <1>2, <1>5, <1>6, <1>7, <1>8, Zenon DEF IInv, LockInv, ShapeOK
<1>13. GrantBacked'
  BY <1>1, <1>2, <1>5, <1>7, <1>8 DEF IInv, LockInv, ShapeOK, GrantBacked
<1>14. (NoSharedMemory /\ ExclusiveBacked /\ RenameBacked)'
  BY <1>2, <1>3, NoSharedMemoryKept, ExclusiveBackedKept, RenameBackedKept, Zenon
<1>. QED BY <1>9, <1>10, <1>11, <1>12, <1>13, <1>14, Zenon DEF IInv, LockInv

\* A released read unlocks its key only with the last counted reader of the target.
LEMMA ReadReleaseStep ==
  ASSUME NEW c \in Clients, NEW step \in Reading, IInv, ReadRelease(c, step),
         sh_count[tgt[c]] > 0,
         \A d \in Readers(tgt[c]) : d # c => sh_count[tgt[c]] > 1,
         ReadersCounted'
  PROVE  IInv'
<1>1. pc[c] \in Reading
  BY Zenon DEF ReadRelease
<1>2. tgt[c] \in Targets /\ key[c] \in Keys /\ c \in Readers(tgt[c])
  BY <1>1, Zenon DEF IInv, LockInv, ShapeOK, Readers
<1>3. sh_count[tgt[c]] > 0
  BY Zenon
<1>4. sh_key[tgt[c]] \in Keys /\ ptr[sh_key[tgt[c]]] = tgt[c] /\ lk[sh_key[tgt[c]]] > 0
  BY <1>2, <1>3 DEF IInv, LockInv, TypeOK, PoolTypeOK, TablesTypeOK, SharedBacked
<1>5. /\ sh_count[tgt[c]] = 1 => lk' = [lk EXCEPT ![sh_key[tgt[c]]] = Unlocked(@)]
      /\ sh_count[tgt[c]] # 1 => lk' = lk
  BY Zenon DEF ReadRelease, ReleaseLockedValueShared
<1>6. /\ sh_count[tgt[c]] = 1 => /\ sh_key' = [sh_key EXCEPT ![tgt[c]] = NoKey]
                                 /\ sh_mr' = [sh_mr EXCEPT ![tgt[c]] = NoClient]
      /\ sh_count[tgt[c]] # 1 => sh_key' = sh_key /\ sh_mr' = sh_mr
  BY Zenon DEF ReadRelease, ReleaseLockedValueShared
<1>7. sh_count' = [sh_count EXCEPT ![tgt[c]] = @ - 1]
  <2>1. sh_count' = IF sh_count[tgt[c]] > 0 THEN [sh_count EXCEPT ![tgt[c]] = @ - 1] ELSE sh_count
    BY Zenon DEF ReadRelease, ReleaseLockedValueShared
  <2>. QED BY <2>1, <1>3, Zenon
<1>8. /\ pc' = [pc EXCEPT ![c] = "idle"]
      /\ key' = [key EXCEPT ![c] = NoKey]
      /\ tgt' = [tgt EXCEPT ![c] = NoTarget]
  BY Zenon DEF ReadRelease
<1>9. /\ want' = [want EXCEPT ![c] = NoValue]
      /\ ok' = [ok EXCEPT ![c] = sh_count[tgt[c]] > 0]
  BY Zenon DEF ReadRelease
<1>10. UNCHANGED <<ptr, pend, plk, data, len, ex_key, ex_count, rename>>
  BY Zenon DEF ReadRelease
<1>11. /\ lk \in [Keys -> 0 .. MaxReaders]
       /\ sh_count \in [Targets -> Nat]
       /\ sh_key \in [Targets -> Keys \cup {NoKey}]
  BY Zenon DEF IInv, TypeOK, PoolTypeOK, TablesTypeOK
<1>12. /\ pc \in [Clients -> {"idle"} \cup Writing \cup Reading]
       /\ key \in [Clients -> Keys \cup {NoKey}]
       /\ tgt \in [Clients -> Targets \cup {NoTarget}]
       /\ want \in [Clients -> Values \cup {NoValue}]
  BY Zenon DEF IInv, TypeOK, ClientsTypeOK
<1>13. TypeOK'
  <2>1. lk' \in [Keys -> 0 .. MaxReaders]
    BY <1>4, <1>5, <1>11
  <2>2. sh_count' \in [Targets -> Nat]
    BY <1>2, <1>3, <1>7, <1>11
  <2>3. sh_key' \in [Targets -> Keys \cup {NoKey}]
    BY <1>6, <1>11, Zenon
  <2>4. sh_mr' \in [Targets -> Clients \cup {NoClient}]
    <3>1. sh_mr \in [Targets -> Clients \cup {NoClient}]
      BY Zenon DEF IInv, TypeOK, TablesTypeOK
    <3>. QED BY <1>6, <3>1, Zenon
  <2>. QED BY <2>1, <2>2, <2>3, <2>4, <1>8, <1>9, <1>10, Zenon DEF IInv, TypeOK, PoolTypeOK,
     TablesTypeOK, ClientsTypeOK
<1>14. SharedBacked'
  <2>. SUFFICES ASSUME NEW u \in Targets, sh_count'[u] > 0
                PROVE  /\ sh_key'[u] \in Keys /\ ptr[sh_key'[u]] = u
                       /\ lk'[sh_key'[u]] >= sh_count'[u]
    BY <1>10, Zenon DEF SharedBacked
  <2>1. sh_count[u] > 0 /\ sh_key'[u] = sh_key[u]
    BY <1>2, <1>6, <1>7, <1>11
  <2>2. sh_key[u] \in Keys /\ ptr[sh_key[u]] = u /\ lk[sh_key[u]] >= sh_count[u]
    BY <2>1, Zenon DEF IInv, LockInv, SharedBacked
  <2>3. lk'[sh_key[u]] >= sh_count'[u]
    BY <2>1, <2>2, <1>2, <1>4, <1>5, <1>7, <1>11
  <2>. QED BY <2>1, <2>2, <2>3, Zenon
<1>15. WritersBacked'
  BY <1>1, <1>8, <1>10, <1>12 DEF IInv, LockInv, WritersBacked
<1>16. ShapeOK'
  BY <1>4, <1>5, <1>8, <1>9, <1>10, <1>11, <1>12 DEF IInv, LockInv, ShapeOK
<1>17. GrantBacked'
  <2>. SUFFICES ASSUME NEW d \in Clients, d # c, pc[d] \in Reading
                PROVE  lk'[key[d]] > 0
    BY <1>8, <1>10, <1>12 DEF IInv, LockInv, GrantBacked
  <2>0. key[d] \in Keys /\ ptr[key[d]] = tgt[d] /\ lk[key[d]] > 0
    BY Zenon DEF IInv, LockInv, ShapeOK, GrantBacked
  <2>1. CASE tgt[d] = tgt[c]
    <3>1. sh_count[tgt[c]] > 1
      BY <1>2, <2>1, Zenon DEF Readers
    <3>. QED BY <3>1, <1>5, <2>0
  <2>2. CASE tgt[d] # tgt[c]
    BY <2>0, <2>2, <1>4, <1>5, <1>11, Zenon
  <2>. QED BY <2>1, <2>2, Zenon
<1>18. (NoSharedMemory /\ ExclusiveBacked /\ RenameBacked)'
  BY <1>10, NoSharedMemoryKept, ExclusiveBackedKept, RenameBackedKept, Zenon
<1>. QED BY <1>13, <1>14, <1>15, <1>16, <1>17, <1>18, Zenon DEF IInv, LockInv

-----------------------------------------------------------------------------
(* PUT_LOCATE and the remote write *)

\* A pending object whose key is not locked has no entry in _locked_values_exclusive,
\* and neither has memory that no object lies in.
LEMMA NoEntry ==
  ASSUME IInv, NEW k \in Keys, NEW t \in Targets, plk[k] = 0,
         t = pend[k] \/ Free(t)
  PROVE  ex_count[t] = 0
<1>1. ex_count[t] \in {0, 1} /\ pend \in [Keys -> Targets \cup {NoTarget}]
  BY Zenon DEF IInv, TypeOK, PoolTypeOK, TablesTypeOK
<1>2. ex_count[t] = 1 => ex_key[t] \in Keys /\ pend[ex_key[t]] = t /\ plk[ex_key[t]] = -1
  BY Zenon DEF IInv, LockInv, ExclusiveBacked
<1>3. \A j \in Keys : j # k /\ pend[j] # NoTarget => pend[j] # pend[k]
  BY Zenon DEF IInv, LockInv, NoSharedMemory
<1>. QED BY <1>1, <1>2, <1>3

\* PUT_LOCATE locks a pending object that had no entry, and so is nobody else's.
LEMMA PutLocateStep ==
  ASSUME NEW c \in Clients, NEW k \in Keys, NEW v \in Values, NEW t \in Targets, IInv,
         PutLocate(c, k, v, t)
  PROVE  IInv'
<1>1. pc[c] = "idle" /\ plk[k] = 0 /\ (t = pend[k] \/ Free(t))
  BY Zenon DEF PutLocate, CreatePending
<1>2. ex_count[t] = 0
  BY <1>1, NoEntry, Zenon
<1>3. /\ \/ t = pend[k] /\ pend' = pend
         \/ pend[k] = NoTarget /\ Free(t) /\ pend' = [pend EXCEPT ![k] = t]
      /\ plk' = [plk EXCEPT ![k] = -1]
  BY Zenon DEF PutLocate, CreatePending
<1>4. /\ len' = len \/ len' = [len EXCEPT ![t] = Len[v]]
      /\ data' = data \/ data' = [data EXCEPT ![t] = Torn]
      /\ ok' = [ok EXCEPT ![c] = FALSE]
  BY Zenon DEF PutLocate, CreatePending
<1>5. /\ ex_key' = [ex_key EXCEPT ![t] = k]
      /\ ex_count' = [ex_count EXCEPT ![t] = 1]
      /\ rename[t] = NoKey => rename' = [rename EXCEPT ![t] = k]
      /\ rename[t] # NoKey => rename' = rename
  BY <1>2 DEF PutLocate, IInv, TypeOK, TablesTypeOK
<1>6. /\ pc' = [pc EXCEPT ![c] = "write"]
      /\ key' = [key EXCEPT ![c] = k]
      /\ tgt' = [tgt EXCEPT ![c] = t]
      /\ want' = [want EXCEPT ![c] = v]
  BY Zenon DEF PutLocate
<1>7. UNCHANGED <<ptr, lk, sh_key, sh_count, sh_mr>>
  BY Zenon DEF PutLocate
<1>8. /\ pend \in [Keys -> Targets \cup {NoTarget}]
      /\ plk \in [Keys -> {-1, 0}]
      /\ ex_key \in [Targets -> Keys \cup {NoKey}]
      /\ ex_count \in [Targets -> {0, 1}]
      /\ rename \in [Targets -> Keys \cup {NoKey}]
  BY Zenon DEF IInv, TypeOK, PoolTypeOK, TablesTypeOK
<1>9. /\ pc \in [Clients -> {"idle"} \cup Writing \cup Reading]
      /\ key \in [Clients -> Keys \cup {NoKey}]
      /\ tgt \in [Clients -> Targets \cup {NoTarget}]
      /\ want \in [Clients -> Values \cup {NoValue}]
  BY Zenon DEF IInv, TypeOK, ClientsTypeOK
<1>10. TypeOK'
  <2>1. PoolTypeOK'
    BY <1>3, <1>4, <1>7 DEF IInv, TypeOK, PoolTypeOK
  <2>2. TablesTypeOK'
    BY <1>5, <1>7 DEF IInv, TypeOK, TablesTypeOK
  <2>3. ClientsTypeOK'
    BY <1>4, <1>6, Zenon DEF IInv, TypeOK, ClientsTypeOK
  <2>. QED BY <2>1, <2>2, <2>3, Zenon DEF TypeOK
<1>11. pend' = [pend EXCEPT ![k] = t]
  BY <1>3, <1>8, Zenon
<1>12. NoSharedMemory'
  BY <1>3, <1>7, <1>8 DEF IInv, LockInv, NoSharedMemory
<1>13. SharedBacked'
  BY <1>7, SharedBackedKept, Zenon
<1>14. ReadersCounted'
  <2>1. \A u \in Targets : Readers(u)' = Readers(u)
    BY <1>1, <1>6, <1>9, Zenon DEF Readers
  <2>. QED BY <2>1, <1>7, Zenon DEF IInv, LockInv, ReadersCounted
<1>15. rename'[t] = k
  <2>1. rename[t] \in Keys => pend[rename[t]] = t
    BY Zenon DEF IInv, LockInv, RenameBacked
  <2>2. rename[t] \in Keys => rename[t] = k
    BY <2>1, <1>3, Zenon DEF IInv, LockInv, NoSharedMemory
  <2>. QED BY <2>2, <1>5, <1>8, Zenon
<1>16. \A u \in Targets : u # t => rename'[u] = rename[u]
  BY <1>5, <1>8, Zenon
<1>17. ExclusiveBacked'
  <2>1. \A u \in Targets : ex_count'[u] = 1 =>
          ex_key'[u] \in Keys /\ pend'[ex_key'[u]] = u /\ plk'[ex_key'[u]] = -1
          /\ rename'[u] = ex_key'[u]
    BY <1>1, <1>3, <1>5, <1>8, <1>11, <1>15, <1>16 DEF IInv, LockInv, ExclusiveBacked
  <2>2. \A j \in Keys : plk'[j] = -1 => pend'[j] # NoTarget /\ ex_count'[pend'[j]] = 1
    BY <1>3, <1>5, <1>8, <1>11 DEF IInv, LockInv, ExclusiveBacked
  <2>. QED BY <2>1, <2>2, Zenon DEF ExclusiveBacked
<1>18. RenameBacked'
  <2>. SUFFICES ASSUME NEW u \in Targets, rename'[u] \in Keys PROVE pend'[rename'[u]] = u
    BY Zenon DEF RenameBacked
  <2>1. CASE u = t
    BY <2>1, <1>8, <1>11, <1>15, Zenon
  <2>2. CASE u # t
    <3>1. rename[u] \in Keys /\ pend[rename[u]] = u
      BY <2>2, <1>16, Zenon DEF IInv, LockInv, RenameBacked
    <3>. QED BY <2>2, <3>1, <1>3, <1>8, <1>16
  <2>. QED BY <2>1, <2>2, Zenon
<1>19. WritersBacked'
  <2>1. \A d \in Clients : pc[d] \in Writing => ex_count[tgt[d]] = 1 /\ tgt[d] # t
    BY <1>2 DEF IInv, LockInv, WritersBacked
  <2>. QED BY <2>1, <1>1, <1>5, <1>6, <1>8, <1>9 DEF IInv, LockInv, WritersBacked, ShapeOK
<1>20. ShapeOK'
  BY <1>6, <1>7, <1>9, Zenon DEF IInv, LockInv, ShapeOK
<1>21. GrantBacked'
  <2>1. \A d \in Clients : d # c => pc'[d] = pc[d] /\ key'[d] = key[d] /\ tgt'[d] = tgt[d]
    BY <1>6, <1>9, Zenon
  <2>2. \A d \in Clients : pc[d] # "idle" => key[d] \in Keys
    BY Zenon DEF IInv, LockInv, ShapeOK
  <2>3. \A d \in Clients : pc[d] \in Writing => key[d] # k
    BY <1>1 DEF IInv, LockInv, GrantBacked
  <2>. QED BY <2>1, <2>2, <2>3, <1>3, <1>6, <1>7, <1>8, <1>9, <1>11 DEF IInv, LockInv, GrantBacked
<1>. QED BY <1>10, <1>12, <1>13, <1>14, <1>17, <1>18, <1>19, <1>20, <1>21, Zenon DEF IInv, LockInv

\* A PUT_LOCATE that fails to register leaves an unlocked pending object behind.
LEMMA PutLocateUnregisteredStep ==
  ASSUME NEW c \in Clients, NEW k \in Keys, NEW v \in Values, NEW t \in Targets, IInv,
         PutLocateUnregistered(c, k, v, t)
  PROVE  IInv'
<1>1. /\ pend[k] = NoTarget /\ Free(t)
      /\ pend' = [pend EXCEPT ![k] = t]
      /\ UNCHANGED <<ptr, lk, plk, sh_key, sh_count, sh_mr, ex_key, ex_count, rename,
                     pc, key, tgt, want>>
  BY Zenon DEF PutLocateUnregistered, CreatePending
<1>2. /\ len' = [len EXCEPT ![t] = Len[v]]
      /\ data' = [data EXCEPT ![t] = Torn]
      /\ ok' = [ok EXCEPT ![c] = FALSE]
  BY Zenon DEF PutLocateUnregistered, CreatePending
<1>3. pend \in [Keys -> Targets \cup {NoTarget}]
  BY Zenon DEF IInv, TypeOK, PoolTypeOK
<1>4. TypeOK'
  BY <1>1, <1>2, Zenon DEF IInv, TypeOK, PoolTypeOK, TablesTypeOK, ClientsTypeOK
<1>5. NoSharedMemory'
  BY <1>1, <1>3, Zenon DEF IInv, LockInv, NoSharedMemory
<1>6. ExclusiveBacked'
  BY <1>1, <1>3, Zenon DEF IInv, LockInv, ExclusiveBacked
<1>7. RenameBacked'
  BY <1>1, <1>3 DEF IInv, LockInv, RenameBacked
<1>8. GrantBacked'
  BY <1>1, <1>3 DEF IInv, LockInv, ShapeOK, GrantBacked
<1>9. (SharedBacked /\ ReadersCounted /\ WritersBacked /\ ShapeOK)'
  BY <1>1, SharedBackedKept, ReadersCountedKept, WritersBackedKept, ShapeKept, Zenon
<1>. QED BY <1>4, <1>5, <1>6, <1>7, <1>8, <1>9, Zenon DEF IInv, LockInv

\* The RDMA write changes the content of the client's pending object only.
LEMMA RemoteWriteStep ==
  ASSUME NEW c \in Clients, IInv, RemoteWrite(c)
  PROVE  IInv'
<1>1. /\ pc[c] = "write"
      /\ pc' = [pc EXCEPT ![c] = "written"]
      /\ UNCHANGED <<ptr, lk, pend, plk, len, sh_key, sh_count, sh_mr, ex_key, ex_count,
                     rename, key, tgt, want, ok>>
  BY Zenon DEF RemoteWrite
<1>2. data' = [data EXCEPT ![tgt[c]] = IF Len[want[c]] = len[tgt[c]] THEN want[c] ELSE Torn]
  BY Zenon DEF RemoteWrite
<1>3. pc \in [Clients -> {"idle"} \cup Writing \cup Reading]
  BY Zenon DEF IInv, TypeOK, ClientsTypeOK
<1>4. want[c] \in Values
  BY <1>1, Zenon DEF IInv, LockInv, ShapeOK
<1>5. TypeOK'
  <2>1. data' \in [Targets -> Values \cup {Torn}]
    <3>1. data \in [Targets -> Values \cup {Torn}]
      BY Zenon DEF IInv, TypeOK, PoolTypeOK
    <3>2. data' = [data EXCEPT ![tgt[c]] = want[c]] \/ data' = [data EXCEPT ![tgt[c]] = Torn]
      BY <1>2, ZenonT(60)
    <3>. QED BY <3>1, <3>2, <1>4, Zenon
  <2>. QED BY <2>1, <1>1, Zenon DEF IInv, TypeOK, PoolTypeOK, TablesTypeOK, ClientsTypeOK
<1>6. ReadersCounted'
  <2>1. \A u \in Targets : Readers(u)' = Readers(u)
    BY <1>1, <1>3, Zenon DEF Readers
  <2>. QED BY <2>1, <1>1, Zenon DEF IInv, LockInv, ReadersCounted
<1>7. WritersBacked'
  BY <1>1, <1>3, Zenon DEF IInv, LockInv, WritersBacked
<1>8. ShapeOK'
  BY <1>1, <1>3, Zenon DEF IInv, LockInv, ShapeOK
<1>9. GrantBacked'
  BY <1>1, <1>3, Zenon DEF IInv, LockInv, GrantBacked
<1>10. (NoSharedMemory /\ SharedBacked /\ ExclusiveBacked /\ RenameBacked)'
  BY <1>1, NoSharedMemoryKept, SharedBackedKept, ExclusiveBackedKept, RenameBackedKept, Zenon
<1>. QED BY <1>5, <1>6, <1>7, <1>8, <1>9, <1>10, Zenon DEF IInv, LockInv

-----------------------------------------------------------------------------
(* PUT_RELEASE and the end of a session *)

\* The entry PUT_RELEASE finds is its own, and so are the lock and the rename.
LEMMA OwnEntry ==
  ASSUME IInv, NEW c \in Clients, pc[c] \in Writing
  PROVE  /\ key[c] \in Keys /\ tgt[c] \in Targets
         /\ ex_count[tgt[c]] = 1 /\ ex_key[tgt[c]] = key[c]
         /\ pend[key[c]] = tgt[c] /\ plk[key[c]] = -1
         /\ rename[tgt[c]] = key[c]
<1>1. key[c] \in Keys /\ tgt[c] \in Targets
  BY Zenon DEF IInv, LockInv, ShapeOK
<1>2. pend[key[c]] = tgt[c] /\ plk[key[c]] = -1
  BY Zenon DEF IInv, LockInv, GrantBacked
<1>3. ex_count[tgt[c]] = 1
  BY Zenon DEF IInv, LockInv, WritersBacked
<1>4. /\ ex_key[tgt[c]] \in Keys /\ pend[ex_key[tgt[c]]] = tgt[c]
      /\ rename[tgt[c]] = ex_key[tgt[c]]
  BY <1>1, <1>3, Zenon DEF IInv, LockInv, ExclusiveBacked
<1>5. ex_key[tgt[c]] = key[c]
  BY <1>1, <1>2, <1>4, Zenon DEF IInv, LockInv, NoSharedMemory
<1>. QED BY <1>1, <1>2, <1>3, <1>4, <1>5, Zenon

\* No other put_direct stages the same key.
LEMMA OtherWriters ==
  ASSUME IInv, NEW c \in Clients, pc[c] \in Writing,
         NEW d \in Clients, d # c, pc[d] \in Writing
  PROVE  key[d] # key[c] /\ tgt[d] # tgt[c]
<1>1. tgt[d] # tgt[c]
  BY Zenon DEF IInv, LockInv, WritersBacked
<1>. QED BY <1>1, OwnEntry

\* The entry of client c and the lock of its pending key are gone ...
ReleasedOwn(c) == /\ ex_key' = [ex_key EXCEPT ![tgt[c]] = NoKey]
                  /\ ex_count' = [ex_count EXCEPT ![tgt[c]] = 0]
                  /\ plk' = [plk EXCEPT ![key[c]] = 0]

\* ... its operation has ended, and the other clients' go on.
OthersUnchanged(c) ==
  /\ pc'[c] = "idle"
  /\ \A d \in Clients : d # c => pc'[d] = pc[d] /\ key'[d] = key[d] /\ tgt'[d] = tgt[d]

\* The other clients still know their key, their target and their value.
LEMMA ShapeOthers ==
  ASSUME IInv, NEW c \in Clients, OthersUnchanged(c), want' = [want EXCEPT ![c] = NoValue]
  PROVE  \A d \in Clients : /\ pc'[d] # "idle" => key'[d] \in Keys /\ tgt'[d] \in Targets
                            /\ pc'[d] \in Writing => want'[d] \in Values
<1>1. want \in [Clients -> Values \cup {NoValue}]
  BY Zenon DEF IInv, TypeOK, ClientsTypeOK
<1>. QED BY <1>1, Zenon DEF IInv, LockInv, ShapeOK, OthersUnchanged

\* What both outcomes of a PUT_RELEASE do to the tables and to the client.
LEMMA PutReleaseCommon ==
  ASSUME NEW c \in Clients, IInv, pc[c] = "written",
         ReleaseLockedValueExclusive(tgt[c]),
         pc' = [pc EXCEPT ![c] = "idle"],
         key' = [key EXCEPT ![c] = NoKey],
         tgt' = [tgt EXCEPT ![c] = NoTarget],
         sh_count' = sh_count
  PROVE  ReleasedOwn(c) /\ OthersUnchanged(c) /\ ReadersCounted' /\ WritersBacked'
<1>1. /\ pc' = [pc EXCEPT ![c] = "idle"]
      /\ key' = [key EXCEPT ![c] = NoKey]
      /\ tgt' = [tgt EXCEPT ![c] = NoTarget]
  BY Zenon
<1>2. /\ pc \in [Clients -> {"idle"} \cup Writing \cup Reading]
      /\ key \in [Clients -> Keys \cup {NoKey}]
      /\ tgt \in [Clients -> Targets \cup {NoTarget}]
  BY Zenon DEF IInv, TypeOK, ClientsTypeOK
<1>3. ex_count[tgt[c]] = 1 /\ ex_key[tgt[c]] = key[c] /\ plk[key[c]] = -1
  BY OwnEntry, Zenon
<1>4. /\ ex_key' = [ex_key EXCEPT ![tgt[c]] = NoKey]
      /\ ex_count' = [ex_count EXCEPT ![tgt[c]] = 0]
      /\ plk' = [plk EXCEPT ![key[c]] = 0]
  BY <1>3 DEF ReleaseLockedValueExclusive
<1>5. \A d \in Clients : d # c => pc'[d] = pc[d] /\ key'[d] = key[d] /\ tgt'[d] = tgt[d]
  BY <1>1, <1>2, Zenon
<1>6. pc'[c] = "idle"
  BY <1>1, <1>2, Zenon
<1>7. ReadersCounted'
  <2>1. \A u \in Targets : Readers(u)' = Readers(u)
    BY <1>5, <1>6, Zenon DEF Readers
  <2>. QED BY <2>1, Zenon DEF IInv, LockInv, ReadersCounted
<1>8. WritersBacked'
  <2>1. ex_count \in [Targets -> {0, 1}]
    BY Zenon DEF IInv, TypeOK, TablesTypeOK
  <2>2. \A d \in Clients : d # c /\ pc[d] \in Writing => tgt[d] # tgt[c] /\ tgt[d] \in Targets
    BY Zenon DEF IInv, LockInv, WritersBacked, ShapeOK
  <2>. QED BY <2>1, <2>2, <1>4, <1>5, <1>6 DEF IInv, LockInv, WritersBacked
<1>. QED BY <1>4, <1>5, <1>6, <1>7, <1>8, Zenon DEF ReleasedOwn, OthersUnchanged

\* PUT_RELEASE frees its own entry and swaps the pending object in under an unlocked key.
LEMMA PutReleaseStep ==
  ASSUME NEW c \in Clients, IInv, PutRelease(c)
  PROVE  IInv'
<1>1. /\ key[c] \in Keys /\ tgt[c] \in Targets /\ rename[tgt[c]] = key[c]
      /\ pend[key[c]] = tgt[c] /\ pc[c] = "written"
  BY OwnEntry, Zenon DEF PutRelease
<1>2. /\ lk[key[c]] = 0
      /\ ptr' = [ptr EXCEPT ![key[c]] = tgt[c]]
      /\ pend' = [pend EXCEPT ![key[c]] = NoTarget]
      /\ rename' = [rename EXCEPT ![tgt[c]] = NoKey]
  BY <1>1, Zenon DEF PutRelease
<1>3. /\ ok' = [ok EXCEPT ![c] = TRUE]
      /\ pc' = [pc EXCEPT ![c] = "idle"]
      /\ key' = [key EXCEPT ![c] = NoKey]
      /\ tgt' = [tgt EXCEPT ![c] = NoTarget]
      /\ want' = [want EXCEPT ![c] = NoValue]
  BY Zenon DEF PutRelease
<1>4. UNCHANGED <<lk, data, len, sh_key, sh_count, sh_mr>>
  BY Zenon DEF PutRelease
<1>5. /\ ReleasedOwn(c) /\ OthersUnchanged(c)
      /\ ReadersCounted' /\ WritersBacked'
  <2>1. ReleaseLockedValueExclusive(tgt[c])
    BY Zenon DEF PutRelease
  <2>. QED BY <1>1, <1>3, <1>4, <2>1, PutReleaseCommon, ZenonT(60)
<1>6. ReleasedOwn(c)
  BY <1>5, Zenon
<1>7. OthersUnchanged(c)
  BY <1>5, Zenon
<1>8. /\ ptr \in [Keys -> Targets \cup {NoTarget}]
      /\ pend \in [Keys -> Targets \cup {NoTarget}]
      /\ plk \in [Keys -> {-1, 0}]
  BY Zenon DEF IInv, TypeOK, PoolTypeOK
<1>9. /\ ex_key \in [Targets -> Keys \cup {NoKey}]
      /\ ex_count \in [Targets -> {0, 1}]
      /\ rename \in [Targets -> Keys \cup {NoKey}]
      /\ sh_count \in [Targets -> Nat]
  BY Zenon DEF IInv, TypeOK, TablesTypeOK
<1>10. TypeOK'
  <2>1. PoolTypeOK'
    BY <1>1, <1>2, <1>4, <1>6, Zenon DEF IInv, TypeOK, PoolTypeOK, ReleasedOwn
  <2>2. TablesTypeOK'
    BY <1>1, <1>2, <1>4, <1>6, Zenon DEF IInv, TypeOK, TablesTypeOK, ReleasedOwn
  <2>3. ClientsTypeOK'
    BY <1>3, Zenon DEF IInv, TypeOK, ClientsTypeOK
  <2>. QED BY <2>1, <2>2, <2>3, Zenon DEF TypeOK
<1>11. NoSharedMemory'
  BY <1>1, <1>2, <1>8 DEF IInv, LockInv, NoSharedMemory
<1>12. SharedBacked'
  BY <1>2, <1>4, <1>8, <1>9 DEF IInv, LockInv, SharedBacked
<1>13. \A j \in Keys : j # key[c] => pend[j] # tgt[c]
  BY <1>1, Zenon DEF IInv, LockInv, NoSharedMemory
<1>14. ExclusiveBacked'
  <2>1. \A u \in Targets : ex_count'[u] = 1 =>
          ex_key'[u] \in Keys /\ pend'[ex_key'[u]] = u /\ plk'[ex_key'[u]] = -1
          /\ rename'[u] = ex_key'[u]
    BY <1>1, <1>2, <1>6, <1>8, <1>9 DEF IInv, LockInv, ExclusiveBacked, ReleasedOwn
  <2>2. \A j \in Keys : plk'[j] = -1 => pend'[j] # NoTarget /\ ex_count'[pend'[j]] = 1
    BY <1>1, <1>2, <1>6, <1>8, <1>9, <1>13 DEF IInv, LockInv, ExclusiveBacked, ReleasedOwn
  <2>. QED BY <2>1, <2>2, Zenon DEF ExclusiveBacked
<1>15. RenameBacked'
  BY <1>1, <1>2, <1>8, <1>9, Zenon DEF IInv, LockInv, RenameBacked
<1>16. ShapeOK'
  <2>1. \A d \in Clients : /\ pc'[d] # "idle" => key'[d] \in Keys /\ tgt'[d] \in Targets
                           /\ pc'[d] \in Writing => want'[d] \in Values
    BY <1>3, <1>7, ShapeOthers, ZenonT(60)
  <2>2. \A k \in Keys : ptr'[k] = NoTarget => lk'[k] = 0
    BY <1>1, <1>2, <1>4, <1>8, Zenon DEF IInv, LockInv, ShapeOK
  <2>. QED BY <2>1, <2>2, Zenon DEF ShapeOK
<1>17. GrantBacked'
  <2>1. \A d \in Clients : pc[d] # "idle" => key[d] \in Keys /\ tgt[d] \in Targets
    BY Zenon DEF IInv, LockInv, ShapeOK
  <2>2. \A d \in Clients : d # c /\ pc[d] \in Writing =>
          pend'[key[d]] = tgt[d] /\ plk'[key[d]] = -1
    <3>1. \A d \in Clients : d # c /\ pc[d] \in Writing => key[d] # key[c]
      BY <1>1, OtherWriters, Zenon
    <3>. QED BY <2>1, <3>1, <1>1, <1>2, <1>6, <1>8, Zenon DEF IInv, LockInv, GrantBacked, ReleasedOwn
  <2>3. \A d \in Clients : d # c /\ pc[d] \in Reading =>
          ptr'[key[d]] = tgt[d] /\ lk'[key[d]] > 0
    BY <2>1, <1>1, <1>2, <1>4, <1>8 DEF IInv, LockInv, GrantBacked
  <2>. QED BY <2>2, <2>3, <1>7 DEF GrantBacked, OthersUnchanged
<1>. QED BY <1>5, <1>10, <1>11, <1>12, <1>14, <1>15, <1>16, <1>17, Zenon DEF IInv, LockInv

\* A PUT_RELEASE that finds its key locked still frees its own entry.
LEMMA PutReleaseFailedStep ==
  ASSUME NEW c \in Clients, IInv, PutReleaseFailed(c)
  PROVE  IInv'
<1>1. /\ key[c] \in Keys /\ tgt[c] \in Targets /\ pend[key[c]] = tgt[c]
      /\ pc[c] = "written"
  BY OwnEntry, Zenon DEF PutReleaseFailed
<1>2. /\ ok' = [ok EXCEPT ![c] = FALSE]
      /\ pc' = [pc EXCEPT ![c] = "idle"]
      /\ key' = [key EXCEPT ![c] = NoKey]
      /\ tgt' = [tgt EXCEPT ![c] = NoTarget]
      /\ want' = [want EXCEPT ![c] = NoValue]
  BY Zenon DEF PutReleaseFailed
<1>3. UNCHANGED <<ptr, lk, pend, data, len, sh_key, sh_count, sh_mr, rename>>
  BY Zenon DEF PutReleaseFailed
<1>4. /\ ReleasedOwn(c) /\ OthersUnchanged(c)
      /\ ReadersCounted' /\ WritersBacked'
  <2>1. ReleaseLockedValueExclusive(tgt[c])
    BY Zenon DEF PutReleaseFailed
  <2>. QED BY <1>1, <1>2, <1>3, <2>1, PutReleaseCommon, ZenonT(60)
<1>5. ReleasedOwn(c)
  BY <1>4, Zenon
<1>6. OthersUnchanged(c)
  BY <1>4, Zenon
<1>7. /\ plk \in [Keys -> {-1, 0}] /\ pend \in [Keys -> Targets \cup {NoTarget}]
      /\ ex_key \in [Targets -> Keys \cup {NoKey}] /\ ex_count \in [Targets -> {0, 1}]
  BY Zenon DEF IInv, TypeOK, PoolTypeOK, TablesTypeOK
<1>8. TypeOK'
  <2>1. PoolTypeOK'
    BY <1>1, <1>3, <1>5, Zenon DEF IInv, TypeOK, PoolTypeOK, ReleasedOwn
  <2>2. TablesTypeOK'
    BY <1>1, <1>3, <1>5, Zenon DEF IInv, TypeOK, TablesTypeOK, ReleasedOwn
  <2>3. ClientsTypeOK'
    BY <1>2, Zenon DEF IInv, TypeOK, ClientsTypeOK
  <2>. QED BY <2>1, <2>2, <2>3, Zenon DEF TypeOK
<1>9. ExclusiveBacked'
  <2>1. \A j \in Keys : j # key[c] => pend[j] # tgt[c]
    BY <1>1, Zenon DEF IInv, LockInv, NoSharedMemory
  <2>. QED BY <2>1, <1>1, <1>3, <1>5, <1>7 DEF IInv, LockInv, ExclusiveBacked, ReleasedOwn
<1>10. ShapeOK'
  <2>1. \A d \in Clients : /\ pc'[d] # "idle" => key'[d] \in Keys /\ tgt'[d] \in Targets
                           /\ pc'[d] \in Writing => want'[d] \in Values
    BY <1>2, <1>6, ShapeOthers, ZenonT(60)
  <2>. QED BY <2>1, <1>3, Zenon DEF IInv, LockInv, ShapeOK
<1>11. GrantBacked'
  <2>1. \A d \in Clients : pc[d] # "idle" => key[d] \in Keys /\ tgt[d] \in Targets
    BY Zenon DEF IInv, LockInv, ShapeOK
  <2>2. \A d \in Clients : d # c /\ pc[d] \in Writing =>
          pend'[key[d]] = tgt[d] /\ plk'[key[d]] = -1
    <3>1. \A d \in Clients : d # c /\ pc[d] \in Writing => key[d] # key[c]
      BY <1>1, OtherWriters, Zenon
    <3>. QED BY <2>1, <3>1, <1>1, <1>3, <1>5, <1>7, Zenon DEF IInv, LockInv, GrantBacked, ReleasedOwn
  <2>3. \A d \in Clients : d # c /\ pc[d] \in Reading =>
          ptr'[key[d]] = tgt[d] /\ lk'[key[d]] > 0
    BY <1>3, Zenon DEF IInv, LockInv, GrantBacked
  <2>. QED BY <2>2, <2>3, <1>6 DEF GrantBacked, OthersUnchanged
<1>12. (NoSharedMemory /\ SharedBacked /\ RenameBacked)'
  BY <1>3, NoSharedMemoryKept, SharedBackedKept, RenameBackedKept, Zenon
<1>. QED BY <1>4, <1>8, <1>9, <1>10, <1>11, <1>12, Zenon DEF IInv, LockInv

\* A session that ends gives up its grant and leaves the tables as they are.
\* (That the counts still cover the readers is SessionCloseCounted in DirectIoProofs.)
LEMMA SessionCloseStep ==
  ASSUME NEW c \in Clients, IInv, SessionClose(c), ReadersCounted'
  PROVE  IInv'
<1>1. /\ pc' = [pc EXCEPT ![c] = "idle"]
      /\ key' = [key EXCEPT ![c] = NoKey]
      /\ tgt' = [tgt EXCEPT ![c] = NoTarget]
      /\ want' = [want EXCEPT ![c] = NoValue]
      /\ UNCHANGED <<ptr, lk, pend, plk, data, len, sh_key, sh_count, sh_mr, ex_key,
                     ex_count, rename, ok>>
  BY Zenon DEF SessionClose
<1>2. /\ pc \in [Clients -> {"idle"} \cup Writing \cup Reading]
      /\ key \in [Clients -> Keys \cup {NoKey}]
      /\ tgt \in [Clients -> Targets \cup {NoTarget}]
      /\ want \in [Clients -> Values \cup {NoValue}]
  BY Zenon DEF IInv, TypeOK, ClientsTypeOK
<1>3. TypeOK'
  BY <1>1, Zenon DEF IInv, TypeOK, PoolTypeOK, TablesTypeOK, ClientsTypeOK
<1>4. WritersBacked'
  BY <1>1, <1>2 DEF IInv, LockInv, WritersBacked
<1>5. ShapeOK'
  BY <1>1, <1>2, Zenon DEF IInv, LockInv, ShapeOK
<1>6. GrantBacked'
  BY <1>1, <1>2, Zenon DEF IInv, LockInv, GrantBacked
<1>7. (NoSharedMemory /\ SharedBacked /\ ExclusiveBacked /\ RenameBacked)'
  BY <1>1, NoSharedMemoryKept, SharedBackedKept, ExclusiveBackedKept, RenameBackedKept, Zenon
<1>. QED BY <1>3, <1>4, <1>5, <1>6, <1>7, Zenon DEF IInv, LockInv

-----------------------------------------------------------------------------
(* The readers of a value *)

\* The clients that read from a target are finitely many.
LEMMA ReadersFinite == ASSUME NEW t PROVE IsFiniteSet(Readers(t))
BY FS_Subset, Zenon DEF Readers

\* One more client makes a set of clients larger by at most one.
LEMMA OneMore ==
  ASSUME NEW S, IsFiniteSet(S), NEW x
  PROVE  /\ Cardinality(S \cup {x}) <= Cardinality(S) + 1
         /\ Cardinality(S) \in Nat
         /\ Cardinality(S \cup {x}) \in Nat
<1>0. Cardinality(S) \in Nat
  BY FS_CardinalityType, Zenon
<1>1. CASE x \in S
  <2>1. S \cup {x} = S
    BY <1>1, Zenon
  <2>. QED BY <1>0, <2>1
<1>2. CASE x \notin S
  <2>1. Cardinality(S \cup {x}) = Cardinality(S) + 1
    BY ZenonT(60), <1>2, FS_AddElement
  <2>. QED BY <1>0, <2>1
<1>. QED BY <1>1, <1>2, Zenon

\* A target somebody reads from has an entry in _locked_values_shared.
LEMMA ReaderCounted ==
  ASSUME IInv, NEW t \in Targets, NEW c \in Readers(t)
  PROVE  sh_count[t] > 0
<1>1. Cardinality(Readers(t)) \in Nat /\ Cardinality(Readers(t)) # 0
  BY ReadersFinite, FS_EmptySet, FS_CardinalityType, Zenon
<1>. QED BY <1>1 DEF IInv, LockInv, TypeOK, TablesTypeOK, ReadersCounted

\* The entry of a target two clients read from counts both.
LEMMA TwoReadersCounted ==
  ASSUME IInv, NEW t \in Targets, NEW c \in Readers(t), NEW d \in Readers(t), c # d
  PROVE  sh_count[t] > 1
<1>1. Cardinality(Readers(t)) \in Nat /\ Cardinality(Readers(t)) # 0
  BY ReadersFinite, FS_EmptySet, FS_CardinalityType
<1>2. Cardinality(Readers(t)) # 1
  BY ReadersFinite, FS_Singleton
<1>. QED BY <1>1, <1>2 DEF IInv, LockInv, TypeOK, TablesTypeOK, ReadersCounted

-----------------------------------------------------------------------------
(* The counts of _locked_values_shared cover the readers after a step *)

\* A located value counts its new reader.
LEMMA ReadLocateCounted ==
  ASSUME NEW c \in Clients, NEW k \in Keys, NEW step \in Reading, IInv,
         ReadLocate(c, k, step)
  PROVE  ReadersCounted'
<1>1. pc[c] = "idle" /\ ptr[k] # NoTarget
  BY Zenon DEF ReadLocate, CanReadLock
<1>2. sh_count' = [sh_count EXCEPT ![ptr[k]] = @ + 1]
  BY Zenon DEF ReadLocate, AddLockedValueShared
<1>3. pc' = [pc EXCEPT ![c] = step] /\ tgt' = [tgt EXCEPT ![c] = ptr[k]]
  BY Zenon DEF ReadLocate
<1>4. sh_count \in [Targets -> Nat]
  BY Zenon DEF IInv, TypeOK, TablesTypeOK
<1>5. /\ pc \in [Clients -> {"idle"} \cup Writing \cup Reading]
      /\ tgt \in [Clients -> Targets \cup {NoTarget}]
  BY Zenon DEF IInv, TypeOK, ClientsTypeOK
<1>. SUFFICES ASSUME NEW u \in Targets PROVE Cardinality(Readers(u)') <= sh_count'[u]
  BY Zenon DEF ReadersCounted
<1>6. Cardinality(Readers(u)) <= sh_count[u] /\ sh_count[u] \in Nat
  BY <1>4, Zenon DEF IInv, LockInv, ReadersCounted
<1>7. CASE u = ptr[k]
  <2>1. Readers(u)' = Readers(u) \cup {c}
    BY <1>7, <1>3, <1>5, Zenon DEF Readers
  <2>2. sh_count'[u] = sh_count[u] + 1
    BY <1>7, <1>2, <1>4, Zenon
  <2>3. /\ Cardinality(Readers(u) \cup {c}) <= Cardinality(Readers(u)) + 1
        /\ Cardinality(Readers(u)) \in Nat
        /\ Cardinality(Readers(u) \cup {c}) \in Nat
    BY ZenonT(60), ReadersFinite, OneMore
  <2>. QED BY <1>6, <2>1, <2>2, <2>3
<1>8. CASE u # ptr[k]
  <2>1. Readers(u)' = Readers(u)
    BY <1>8, <1>1, <1>3, <1>5, Zenon DEF Readers
  <2>2. sh_count'[u] = sh_count[u]
    BY <1>8, <1>2, <1>4, Zenon
  <2>. QED BY <1>6, <2>1, <2>2, Zenon
<1>. QED BY <1>7, <1>8, Zenon

\* A released read was counted, and is one reader less.
LEMMA ReadReleaseCounted ==
  ASSUME NEW c \in Clients, NEW step \in Reading, IInv, ReadRelease(c, step)
  PROVE  /\ sh_count[tgt[c]] > 0
         /\ \A d \in Readers(tgt[c]) : d # c => sh_count[tgt[c]] > 1
         /\ ReadersCounted'
<1>1. pc[c] \in Reading
  BY Zenon DEF ReadRelease
<1>2. tgt[c] \in Targets /\ c \in Readers(tgt[c])
  BY <1>1, Zenon DEF IInv, LockInv, ShapeOK, Readers
<1>3. sh_count[tgt[c]] > 0
  BY <1>2, ReaderCounted, Zenon
<1>4. \A d \in Readers(tgt[c]) : d # c => sh_count[tgt[c]] > 1
  BY <1>2, TwoReadersCounted, Zenon
<1>5. sh_count' = [sh_count EXCEPT ![tgt[c]] = @ - 1]
  <2>1. sh_count' = IF sh_count[tgt[c]] > 0 THEN [sh_count EXCEPT ![tgt[c]] = @ - 1] ELSE sh_count
    BY Zenon DEF ReadRelease, ReleaseLockedValueShared
  <2>. QED BY <2>1, <1>3, Zenon
<1>6. pc' = [pc EXCEPT ![c] = "idle"] /\ tgt' = [tgt EXCEPT ![c] = NoTarget]
  BY Zenon DEF ReadRelease
<1>7. sh_count \in [Targets -> Nat]
  BY Zenon DEF IInv, TypeOK, TablesTypeOK
<1>8. /\ pc \in [Clients -> {"idle"} \cup Writing \cup Reading]
       /\ tgt \in [Clients -> Targets \cup {NoTarget}]
  BY Zenon DEF IInv, TypeOK, ClientsTypeOK
<1>9. ReadersCounted'
  <2>. SUFFICES ASSUME NEW u \in Targets PROVE Cardinality(Readers(u)') <= sh_count'[u]
    BY Zenon DEF ReadersCounted
  <2>1. Cardinality(Readers(u)) <= sh_count[u] /\ sh_count[u] \in Nat
    BY <1>7, Zenon DEF IInv, LockInv, ReadersCounted
  <2>2. CASE u = tgt[c]
    <3>1. Readers(u)' = Readers(u) \ {c}
      BY <2>2, <1>6, <1>8, Zenon DEF Readers
    <3>2. sh_count'[u] = sh_count[u] - 1
      BY <2>2, <1>5, <1>7, Zenon
    <3>3. /\ Cardinality(Readers(u) \ {c}) = Cardinality(Readers(u)) - 1
          /\ Cardinality(Readers(u)) \in Nat
      BY <1>2, <2>2, ReadersFinite, FS_RemoveElement, FS_CardinalityType, Zenon
    <3>. QED BY <2>1, <3>1, <3>2, <3>3
  <2>3. CASE u # tgt[c]
    <3>1. Readers(u)' = Readers(u)
      BY <2>3, <1>6, <1>8, Zenon DEF Readers
    <3>2. sh_count'[u] = sh_count[u]
      BY <2>3, <1>5, <1>7, Zenon
    <3>. QED BY <2>1, <3>1, <3>2, Zenon
  <2>. QED BY <2>2, <2>3, Zenon
<1>. QED BY <1>3, <1>4, <1>9

\* A session that ends leaves no more readers than there were.
LEMMA SessionCloseCounted ==
  ASSUME NEW c \in Clients, IInv, SessionClose(c)
  PROVE  ReadersCounted'
<1>1. /\ pc' = [pc EXCEPT ![c] = "idle"]
      /\ tgt' = [tgt EXCEPT ![c] = NoTarget]
      /\ sh_count' = sh_count
  BY Zenon DEF SessionClose
<1>2. /\ pc \in [Clients -> {"idle"} \cup Writing \cup Reading]
      /\ tgt \in [Clients -> Targets \cup {NoTarget}]
      /\ sh_count \in [Targets -> Nat]
  BY Zenon DEF IInv, TypeOK, TablesTypeOK, ClientsTypeOK
<1>3. \A u \in Targets : Readers(u)' \in SUBSET Readers(u)
  BY <1>1, <1>2, Zenon DEF Readers
<1>4. \A u \in Targets : /\ Cardinality(Readers(u)') <= Cardinality(Readers(u))
                         /\ Cardinality(Readers(u)) \in Nat
                         /\ Cardinality(Readers(u)') \in Nat
  BY <1>3, ReadersFinite, FS_Subset, FS_CardinalityType, Zenon
<1>. QED BY <1>4, <1>2, <1>1 DEF IInv, LockInv, ReadersCounted

-----------------------------------------------------------------------------

\* The initial state satisfies the invariant.
LEMMA InitInv == Init => IInv
<1>. SUFFICES ASSUME Init PROVE IInv
  BY Zenon
<1>1. TypeOK
  BY DEF Init, TypeOK, PoolTypeOK, TablesTypeOK, ClientsTypeOK
<1>2. ReadersCounted
  <2>1. \A t \in Targets : Readers(t) = {}
    BY Zenon DEF Init, Readers
  <2>2. \A t \in Targets : sh_count[t] = 0
    BY Zenon DEF Init
  <2>3. Cardinality({}) = 0
    BY FS_EmptySet, Zenon
  <2>. QED BY <2>1, <2>2, <2>3 DEF ReadersCounted
<1>3. LockInv
  BY <1>2 DEF Init, LockInv, NoSharedMemory, SharedBacked, ExclusiveBacked, RenameBacked,
      WritersBacked, ShapeOK, GrantBacked
<1>. QED BY <1>1, <1>3, Zenon DEF IInv

\* The steps of Next, without the requests that are refused: those only reply.
Step(c) ==
  \/ \E k \in Keys :
       \/ \E v \in Values : PutInPlace(c, k, v)
       \/ \E v \in Values, t \in Targets : PutAlloc(c, k, v, t)
       \/ Erase(c, k)
       \/ \E step \in Reading : ReadLocate(c, k, step)
       \/ \E v \in Values, t \in Targets : PutLocate(c, k, v, t)
       \/ \E v \in Values, t \in Targets : PutLocateUnregistered(c, k, v, t)
  \/ pc[c] = "idle" /\ \E s \in BOOLEAN : ReplyOnly(c, s)
  \/ RemoteWrite(c)
  \/ PutRelease(c)
  \/ PutReleaseFailed(c)
  \/ \E step \in Reading : ReadRelease(c, step)
  \/ SessionClose(c)

\* Every step is one of these.
LEMMA NextSteps == ASSUME Next PROVE \E c \in Clients : Step(c)
BY ZenonT(60) DEF Next, Step, PutRefused, EraseRefused, GetSmall, GetTwoStage, GetLocate,
   ReadRefused, PutLocateRefused, SendComplete, GetRelease

\* Every step of the shard or of a client preserves the invariant.
LEMMA NextInv == IInv /\ [Next]_vars => IInv'
<1>. SUFFICES ASSUME IInv, [Next]_vars PROVE IInv'
  BY Zenon
<1>1. CASE UNCHANGED vars
  BY <1>1, StutterStep, Zenon
<1>2. CASE Next
  <2>. PICK c \in Clients : Step(c)
    BY <1>2, NextSteps, Zenon
  <2>1. \A k \in Keys, step \in Reading : ReadLocate(c, k, step) => IInv'
    BY ReadLocateStep, ReadLocateCounted, ZenonT(60)
  <2>2. \A step \in Reading : ReadRelease(c, step) => IInv'
    BY ReadReleaseStep, ReadReleaseCounted, ZenonT(60)
  <2>3. SessionClose(c) => IInv'
    BY SessionCloseStep, SessionCloseCounted, ZenonT(60)
  <2>. QED BY <2>1, <2>2, <2>3, PutInPlaceStep, PutAllocStep, EraseStep, ReplyOnlyStep,
        PutLocateStep, PutLocateUnregisteredStep, RemoteWriteStep, PutReleaseStep,
        PutReleaseFailedStep, ZenonT(60) DEF Step
<1>. QED BY <1>1, <1>2, Zenon

\* No step changes the content or the place of a value a client reads: the key is read
\* locked, its memory is no other object's, and whoever writes needs the lock.
LEMMA StepKeeps == ASSUME IInv, NEW c \in Clients, Step(c) PROVE ValuesKept
<1>1. \A s \in BOOLEAN : ReplyOnly(c, s) => data' = data /\ ptr' = ptr
  BY Zenon DEF ReplyOnly
<1>2. \A k \in Keys, step \in Reading : ReadLocate(c, k, step) => data' = data /\ ptr' = ptr
  BY Zenon DEF ReadLocate
<1>3. \A step \in Reading : ReadRelease(c, step) => data' = data /\ ptr' = ptr
  BY Zenon DEF ReadRelease
<1>4. PutReleaseFailed(c) => data' = data /\ ptr' = ptr
  BY Zenon DEF PutReleaseFailed
<1>5. SessionClose(c) => data' = data /\ ptr' = ptr
  BY Zenon DEF SessionClose
<1>. QED BY <1>1, <1>2, <1>3, <1>4, <1>5, UnchangedKeeps, PutInPlaceKeeps, PutAllocKeeps,
        PutLocateKeeps, EraseKeeps, RemoteWriteKeeps, PutReleaseKeeps, ZenonT(60) DEF Step

\* The same of every step of the specification.
LEMMA ValuesKeptStep == IInv /\ [Next]_vars => ValuesKept
<1>1. CASE IInv /\ UNCHANGED vars
  BY <1>1, UnchangedKeeps, Zenon DEF vars
<1>. QED BY <1>1, StepKeeps, NextSteps, Zenon

-----------------------------------------------------------------------------
(* Theorems *)

\* The variables have their types in every reachable state, for any number of clients,
\* keys, values and targets.
THEOREM TypeCorrect == Spec => []TypeOK
<1>1. IInv => TypeOK
  BY Zenon DEF IInv
<1>. QED BY InitInv, NextInv, <1>1, PTL DEF Spec

\* The lock tables of the shard (_locked_values_shared, _locked_values_exclusive,
\* _pending_renames) always agree with the locks of the store and with the grants of the
\* clients.
THEOREM LockInvariant == Spec => []LockInv
<1>1. IInv => LockInv
  BY Zenon DEF IInv
<1>. QED BY InitInv, NextInv, <1>1, PTL DEF Spec

\* What a client was given by LOCATE stays the memory it was located as, locked, until
\* its RELEASE.
THEOREM GrantsBacked == Spec => []GrantBacked
<1>1. LockInv => GrantBacked
  BY Zenon DEF LockInv
<1>. QED BY LockInvariant, <1>1, PTL

\* A value does not change while a client reads it or a response is sent from it.
THEOREM ReadStability == Spec => ReadStable
<1>1. IInv /\ [Next]_vars => [ValuesKept]_vars
  BY ValuesKeptStep, Zenon
<1>2. ReadStable <=> [][ValuesKept]_vars
  BY Zenon DEF ReadStable, ValuesKept
<1>. QED BY InitInv, NextInv, <1>1, <1>2, PTL DEF Spec

-----------------------------------------------------------------------------
(* The abstract store *)

\* The state of DirectKv, as the instance Kv of DirectIo maps it.
KvOf == [k \in Keys |-> IF ptr[k] # NoTarget THEN data[ptr[k]] ELSE NoValue]
StagingOf == [c \in Clients |-> IF pc[c] \in Writing THEN key[c] ELSE NoKey]
StagedOf == [c \in Clients |-> IF pc[c] \in Writing THEN want[c] ELSE NoValue]

\* With values of one length, every object has that length, ...
LengthInv == \A k \in Keys, v \in Values :
               /\ Present(k) => len[ptr[k]] = Len[v]
               /\ PendPresent(k) => len[pend[k]] = Len[v]
\* ... and a pending object that was written holds what its client announced.
WrittenInv == \A c \in Clients : pc[c] = "written" => data[tgt[c]] = want[c]

\* The types of the clients' state, and of the answers.
LEMMA ClientTypes ==
  ASSUME IInv
  PROVE  /\ pc \in [Clients -> {"idle"} \cup Writing \cup Reading]
         /\ key \in [Clients -> Keys \cup {NoKey}]
         /\ tgt \in [Clients -> Targets \cup {NoTarget}]
         /\ want \in [Clients -> Values \cup {NoValue}]
         /\ ok \in [Clients -> BOOLEAN]
         /\ pend \in [Keys -> Targets \cup {NoTarget}]
         /\ len \in [Targets -> Nat]
BY Zenon DEF IInv, TypeOK, ClientsTypeOK, PoolTypeOK

\* The memory a put_direct is written to is no key's value and no other put_direct's.
LEMMA WriteTarget ==
  ASSUME IInv, NEW c \in Clients, pc[c] \in Writing
  PROVE  /\ tgt[c] \in Targets /\ key[c] \in Keys /\ want[c] \in Values
         /\ pend[key[c]] = tgt[c]
         /\ \A k \in Keys : ptr[k] # tgt[c]
         /\ \A d \in Clients : pc[d] \in Writing /\ d # c => tgt[d] # tgt[c]
<1>1. tgt[c] \in Targets /\ key[c] \in Keys /\ want[c] \in Values
  BY Zenon DEF IInv, LockInv, ShapeOK
<1>2. pend[key[c]] = tgt[c]
  BY Zenon DEF IInv, LockInv, GrantBacked
<1>3. \A k \in Keys : ptr[k] # tgt[c]
  BY <1>1, <1>2, Zenon DEF IInv, LockInv, NoSharedMemory
<1>4. \A d \in Clients : pc[d] \in Writing /\ d # c => tgt[d] # tgt[c]
  BY Zenon DEF IInv, LockInv, WritersBacked
<1>. QED BY <1>1, <1>2, <1>3, <1>4, Zenon

-----------------------------------------------------------------------------
\* Objects keep their length: new memory has the length of a value, and swap_keys moves
\* the pending object with its memory.
LEMMA LengthStep ==
  ASSUME \A v, w \in Values : Len[v] = Len[w], IInv, LengthInv, NEW c \in Clients, Step(c)
  PROVE  LengthInv'
<1>. USE DEF LengthInv
<1>1. len \in [Targets -> Nat] /\ ptr \in [Keys -> Targets \cup {NoTarget}]
      /\ pend \in [Keys -> Targets \cup {NoTarget}]
  BY ClientTypes, PoolTypes, Zenon
<1>2. ASSUME NEW k \in Keys, NEW v \in Values, NEW t \in Targets, PutAlloc(c, k, v, t) PROVE LengthInv'
  BY <1>1, <1>2 DEF PutAlloc
<1>3. ASSUME NEW k \in Keys, NEW v \in Values, NEW t \in Targets,
             PutLocate(c, k, v, t) \/ PutLocateUnregistered(c, k, v, t) PROVE LengthInv'
  BY <1>1, <1>3 DEF PutLocate, PutLocateUnregistered, CreatePending
<1>4. ASSUME NEW k \in Keys, Erase(c, k) PROVE LengthInv'
  BY <1>1, <1>4, Zenon DEF Erase
<1>5. CASE PutRelease(c)
  <2>1. pc[c] \in Writing
    BY <1>5, Zenon DEF PutRelease
  <2>2. rename[tgt[c]] = key[c] /\ key[c] \in Keys /\ tgt[c] \in Targets /\ pend[key[c]] = tgt[c]
    BY <2>1, OwnEntry, Zenon
  <2>3. ptr' = [ptr EXCEPT ![key[c]] = tgt[c]] /\ pend' = [pend EXCEPT ![key[c]] = NoTarget] /\ len' = len
    BY <1>5, <2>2, Zenon DEF PutRelease
  <2>. QED BY <1>1, <2>2, <2>3
<1>6. ASSUME UNCHANGED <<ptr, pend, len>> PROVE LengthInv'
  BY <1>6, Zenon
<1>7. \/ \E k \in Keys, v \in Values : PutInPlace(c, k, v)
      \/ \E k \in Keys, step \in Reading : ReadLocate(c, k, step)
      \/ \E s \in BOOLEAN : ReplyOnly(c, s)
      \/ RemoteWrite(c) \/ PutReleaseFailed(c) \/ SessionClose(c)
      \/ \E step \in Reading : ReadRelease(c, step)
      => UNCHANGED <<ptr, pend, len>>
  BY Zenon DEF PutInPlace, ReadLocate, ReplyOnly, RemoteWrite, PutReleaseFailed, SessionClose, ReadRelease
<1>. QED BY <1>2, <1>3, <1>4, <1>5, <1>6, <1>7, ZenonT(60) DEF Step

\* What was written stays until PUT_RELEASE.
LEMMA WrittenStep ==
  ASSUME \A v, w \in Values : Len[v] = Len[w], IInv, LengthInv, WrittenInv, NEW c \in Clients, Step(c)
  PROVE  WrittenInv'
<1>1. /\ pc \in [Clients -> {"idle"} \cup Writing \cup Reading]
      /\ tgt \in [Clients -> Targets \cup {NoTarget}]
      /\ want \in [Clients -> Values \cup {NoValue}]
      /\ data \in [Targets -> Values \cup {Torn}]
  BY ClientTypes, PoolTypes, Zenon
<1>a. ASSUME NEW d \in Clients, pc[d] = "written"
      PROVE  tgt[d] \in Targets /\ key[d] \in Keys /\ pend[key[d]] = tgt[d] /\ \A k \in Keys : ptr[k] # tgt[d]
  <2>1. pc[d] \in Writing
    BY <1>a, Zenon
  <2>. QED BY <2>1, WriteTarget, Zenon
<1>2. ASSUME NEW t, \A d \in Clients : pc[d] = "written" => tgt[d] # t,
             \A u \in Targets : u # t => data'[u] = data[u],
             \A d \in Clients : pc'[d] = "written" => pc[d] = "written" /\ tgt'[d] = tgt[d] /\ want'[d] = want[d]
      PROVE  WrittenInv'
  BY <1>2, <1>a DEF WrittenInv
<1>3. ASSUME data' = data,
             \A d \in Clients : pc'[d] = "written" => pc[d] = "written" /\ tgt'[d] = tgt[d] /\ want'[d] = want[d]
      PROVE  WrittenInv'
  BY <1>3, Zenon DEF WrittenInv
<1>4. ASSUME NEW k \in Keys, NEW v \in Values, PutInPlace(c, k, v) PROVE WrittenInv'
  <2>1. \A u \in Targets : u # ptr[k] => data'[u] = data[u]
    BY <1>1, <1>4, Zenon DEF PutInPlace
  <2>2. \A d \in Clients : pc[d] = "written" => tgt[d] # ptr[k]
    BY <1>a, Zenon
  <2>. QED BY <1>2, <1>4, <2>1, <2>2, Zenon DEF PutInPlace
<1>5. ASSUME NEW t \in Targets, Free(t) PROVE \A d \in Clients : pc[d] = "written" => tgt[d] # t
  BY <1>5, <1>a, Zenon
<1>6. ASSUME NEW k \in Keys, NEW v \in Values, NEW t \in Targets, PutAlloc(c, k, v, t) PROVE WrittenInv'
  <2>1. \A u \in Targets : u # t => data'[u] = data[u]
    BY <1>1, <1>6, Zenon DEF PutAlloc
  <2>2. Free(t) /\ UNCHANGED <<pc, tgt, want>>
    BY <1>6, Zenon DEF PutAlloc
  <2>3. \A d \in Clients : pc[d] = "written" => tgt[d] # t
    BY <1>5, <2>2, Zenon
  <2>. QED BY <1>2, <2>1, <2>2, <2>3, Zenon
<1>7. ASSUME NEW k \in Keys, NEW v \in Values, NEW t \in Targets, PutLocate(c, k, v, t) PROVE WrittenInv'
  <2>1. pc' = [pc EXCEPT ![c] = "write"] /\ tgt' = [tgt EXCEPT ![c] = t] /\ want' = [want EXCEPT ![c] = v]
    BY <1>7, Zenon DEF PutLocate
  <2>2. \A d \in Clients : pc'[d] = "written" => pc[d] = "written" /\ tgt'[d] = tgt[d] /\ want'[d] = want[d]
    BY <1>1, <2>1, Zenon
  <2>3. CASE data' = data
    BY <1>3, <2>2, <2>3, Zenon
  <2>4. CASE Free(t) /\ data' = [data EXCEPT ![t] = Torn]
    <3>1. \A u \in Targets : u # t => data'[u] = data[u]
      BY <1>1, <2>4, Zenon
    <3>2. \A d \in Clients : pc[d] = "written" => tgt[d] # t
      BY <1>5, <2>4, Zenon
    <3>. QED BY <1>2, <2>2, <3>1, <3>2, Zenon
  <2>. QED BY <1>7, <2>3, <2>4, Zenon DEF PutLocate, CreatePending
<1>8. ASSUME NEW k \in Keys, NEW v \in Values, NEW t \in Targets, PutLocateUnregistered(c, k, v, t) PROVE WrittenInv'
  <2>1. \A u \in Targets : u # t => data'[u] = data[u]
    BY <1>1, <1>8, Zenon DEF PutLocateUnregistered, CreatePending
  <2>. QED BY <1>2, <1>5, <1>8, <2>1, Zenon DEF PutLocateUnregistered, CreatePending
<1>9. CASE RemoteWrite(c)
  <2>1. pc[c] \in Writing
    BY <1>9, Zenon DEF RemoteWrite
  <2>2. want[c] \in Values /\ tgt[c] \in Targets /\ key[c] \in Keys /\ pend[key[c]] = tgt[c]
        /\ \A d \in Clients : pc[d] \in Writing /\ d # c => tgt[d] # tgt[c]
    BY <2>1, WriteTarget, Zenon
  <2>3. Len[want[c]] = len[tgt[c]]
    BY <2>2 DEF LengthInv
  <2>4. /\ data' = [data EXCEPT ![tgt[c]] = want[c]]
        /\ pc' = [pc EXCEPT ![c] = "written"] /\ UNCHANGED <<tgt, want>>
    BY <1>9, <2>3, Zenon DEF RemoteWrite
  <2>. QED BY <1>1, <2>2, <2>4 DEF WrittenInv
<1>10. ASSUME data' = data, pc' = [pc EXCEPT ![c] = "idle"],
              tgt' = [tgt EXCEPT ![c] = NoTarget], want' = [want EXCEPT ![c] = NoValue]
       PROVE  WrittenInv'
  <2>1. \A d \in Clients : pc'[d] = "written" => pc[d] = "written" /\ tgt'[d] = tgt[d] /\ want'[d] = want[d]
    BY <1>1, <1>10, Zenon
  <2>. QED BY <1>3, <1>10, <2>1, Zenon
<1>11. PutRelease(c) \/ PutReleaseFailed(c) \/ SessionClose(c) \/ (\E step \in Reading : ReadRelease(c, step))
         => WrittenInv'
  BY <1>10, Zenon DEF PutRelease, PutReleaseFailed, SessionClose, ReadRelease
<1>12. ASSUME NEW k \in Keys, NEW step \in Reading, ReadLocate(c, k, step) PROVE WrittenInv'
  <2>1. /\ pc' = [pc EXCEPT ![c] = step] /\ step # "written" /\ data' = data
        /\ tgt' = [tgt EXCEPT ![c] = ptr[k]] /\ want' = [want EXCEPT ![c] = NoValue]
    BY <1>12, Zenon DEF ReadLocate
  <2>2. \A d \in Clients : pc'[d] = "written" => pc[d] = "written" /\ tgt'[d] = tgt[d] /\ want'[d] = want[d]
    BY <1>1, <2>1, Zenon
  <2>. QED BY <1>3, <2>1, <2>2, Zenon
<1>13. (\E k \in Keys : Erase(c, k)) \/ (\E s \in BOOLEAN : ReplyOnly(c, s)) => WrittenInv'
  BY <1>3, Zenon DEF Erase, ReplyOnly
<1>. QED BY <1>4, <1>6, <1>7, <1>8, <1>9, <1>11, <1>12, <1>13, ZenonT(60) DEF Step

-----------------------------------------------------------------------------
(* Every step is a step of DirectKv *)

\* A client in no put_direct has nothing staged.
LEMMA NotStaging ==
  ASSUME NEW c \in Clients, pc[c] \notin Writing
  PROVE  StagingOf[c] = NoKey /\ StagedOf[c] = NoValue
BY Zenon DEF StagingOf, StagedOf

\* A request that only answers, or starts or ends a read.
LEMMA ReadOnlyRefines ==
  ASSUME IInv, NEW c \in Clients, NEW s \in BOOLEAN, ok' = [ok EXCEPT ![c] = s], KvOf' = KvOf,
         pc[c] \notin Writing, pc'[c] \notin Writing,
         \A d \in Clients : d # c => pc'[d] = pc[d] /\ key'[d] = key[d] /\ want'[d] = want[d]
  PROVE  Kv!Next
<1>1. StagingOf' = StagingOf
  BY Zenon DEF StagingOf
<1>2. StagedOf' = StagedOf
  BY Zenon DEF StagedOf
<1>3. Kv!ReadOnly(c)
  BY <1>1, <1>2, NotStaging, Zenon DEF Kv!ReadOnly, Kv!Answer, KvOf, StagingOf, StagedOf
<1>. QED BY <1>3, Zenon DEF Kv!Next

\* Memory that is no key's may change.
LEMMA KvKept ==
  ASSUME IInv, ptr' = ptr, \A k \in Keys : ptr[k] # NoTarget => data'[ptr[k]] = data[ptr[k]]
  PROVE  KvOf' = KvOf
BY Zenon DEF KvOf

\* The requests that are refused, the gets, and PUT_LOCATE without a registration.
LEMMA QuietRefines ==
  ASSUME IInv, NEW c \in Clients,
         \/ pc[c] = "idle" /\ \E s \in BOOLEAN : ReplyOnly(c, s)
         \/ \E k \in Keys, step \in Reading : ReadLocate(c, k, step)
         \/ \E step \in Reading : ReadRelease(c, step)
         \/ \E k \in Keys, v \in Values, t \in Targets : PutLocateUnregistered(c, k, v, t)
  PROVE  Kv!Next
<1>1. /\ pc \in [Clients -> {"idle"} \cup Writing \cup Reading]
      /\ key \in [Clients -> Keys \cup {NoKey}]
      /\ want \in [Clients -> Values \cup {NoValue}]
      /\ data \in [Targets -> Values \cup {Torn}]
  BY ClientTypes, PoolTypes, Zenon
<1>2. ASSUME NEW s \in BOOLEAN, pc[c] = "idle", ReplyOnly(c, s) PROVE Kv!Next
  <2>1. KvOf' = KvOf
    BY <1>2, KvKept, Zenon DEF ReplyOnly
  <2>. QED BY <1>2, <2>1, ReadOnlyRefines, Zenon DEF ReplyOnly
<1>3. ASSUME NEW k \in Keys, NEW step \in Reading, ReadLocate(c, k, step) PROVE Kv!Next
  <2>1. KvOf' = KvOf
    BY <1>3, KvKept, Zenon DEF ReadLocate
  <2>2. /\ pc[c] = "idle" /\ pc' = [pc EXCEPT ![c] = step]
        /\ key' = [key EXCEPT ![c] = k] /\ want' = [want EXCEPT ![c] = NoValue]
        /\ ok' = [ok EXCEPT ![c] = FALSE]
    BY <1>3, Zenon DEF ReadLocate
  <2>3. /\ pc[c] \notin Writing /\ pc'[c] \notin Writing
        /\ \A d \in Clients : d # c => pc'[d] = pc[d] /\ key'[d] = key[d] /\ want'[d] = want[d]
    BY <1>1, <2>2, Zenon
  <2>. QED BY <2>1, <2>2, <2>3, ReadOnlyRefines, Zenon
<1>4. ASSUME NEW step \in Reading, ReadRelease(c, step) PROVE Kv!Next
  <2>1. KvOf' = KvOf
    BY <1>4, KvKept, Zenon DEF ReadRelease
  <2>2. /\ pc[c] = step /\ pc' = [pc EXCEPT ![c] = "idle"]
        /\ key' = [key EXCEPT ![c] = NoKey] /\ want' = [want EXCEPT ![c] = NoValue]
        /\ ok' = [ok EXCEPT ![c] = (sh_count[tgt[c]] > 0)]
    BY <1>4, Zenon DEF ReadRelease
  <2>3. /\ pc[c] \notin Writing /\ pc'[c] \notin Writing
        /\ \A d \in Clients : d # c => pc'[d] = pc[d] /\ key'[d] = key[d] /\ want'[d] = want[d]
    BY <1>1, <2>2, Zenon
  <2>a. (sh_count[tgt[c]] > 0) \in BOOLEAN
    OBVIOUS
  <2>4. PICK s \in BOOLEAN : ok' = [ok EXCEPT ![c] = s]
    BY <2>2, <2>a, Zenon
  <2>. QED BY <2>1, <2>3, <2>4, ReadOnlyRefines, Zenon
<1>5. ASSUME NEW k \in Keys, NEW v \in Values, NEW t \in Targets, PutLocateUnregistered(c, k, v, t)
      PROVE  Kv!Next
  <2>1. Free(t) /\ data' = [data EXCEPT ![t] = Torn] /\ ptr' = ptr
    BY <1>5, Zenon DEF PutLocateUnregistered, CreatePending
  <2>2. \A j \in Keys : ptr[j] # NoTarget => data'[ptr[j]] = data[ptr[j]]
    BY <1>1, <2>1, PoolTypes, Zenon
  <2>3. KvOf' = KvOf
    BY <2>1, <2>2, KvKept, Zenon
  <2>. QED BY <1>5, <2>3, ReadOnlyRefines, Zenon DEF PutLocateUnregistered
<1>. QED BY <1>2, <1>3, <1>4, <1>5, Zenon

\* The visible values, key by key.
LEMMA KvAt ==
  /\ \A k \in Keys : KvOf[k] = IF ptr[k] # NoTarget THEN data[ptr[k]] ELSE NoValue
  /\ \A k \in Keys : KvOf'[k] = IF ptr'[k] # NoTarget THEN data'[ptr'[k]] ELSE NoValue
BY Zenon DEF KvOf

\* One key gets another value.
LEMMA KvUpdated ==
  ASSUME NEW k \in Keys, NEW v, KvOf'[k] = v, \A j \in Keys : j # k => KvOf'[j] = KvOf[j]
  PROVE  KvOf' = [KvOf EXCEPT ![k] = v]
BY Zenon DEF KvOf

\* A put makes its value visible at its key and changes no other.
LEMMA PutRefines ==
  ASSUME IInv, NEW c \in Clients, NEW k \in Keys, NEW v \in Values,
         PutInPlace(c, k, v) \/ \E t \in Targets : PutAlloc(c, k, v, t)
  PROVE  Kv!Next
<1>1. /\ pc[c] \notin Writing /\ ok' = [ok EXCEPT ![c] = TRUE] /\ UNCHANGED <<pc, key, want>>
  BY Zenon DEF PutInPlace, PutAlloc
<1>2. KvOf' = [KvOf EXCEPT ![k] = v]
  <2>1. CASE PutInPlace(c, k, v)
    <3>1. Present(k) /\ data' = [data EXCEPT ![ptr[k]] = v] /\ ptr' = ptr
      BY <2>1, Zenon DEF PutInPlace
    <3>2. \A j \in Keys : j # k => ptr[j] # ptr[k]
      BY <3>1, Zenon DEF IInv, LockInv, NoSharedMemory
    <3>3. ptr[k] \in Targets /\ data'[ptr[k]] = v
      BY <3>1, PoolTypes, Zenon
    <3>4. ASSUME NEW j \in Keys, j # k, ptr[j] # NoTarget PROVE data'[ptr[j]] = data[ptr[j]]
      BY <3>1, <3>2, <3>4, PoolTypes, Zenon
    <3>5. KvOf'[k] = v
      BY <3>1, <3>3, KvAt
    <3>6. \A j \in Keys : j # k => KvOf'[j] = KvOf[j]
      BY <3>1, <3>4, KvAt
    <3>. QED BY <3>5, <3>6, KvUpdated, Zenon
  <2>2. ASSUME NEW t \in Targets, PutAlloc(c, k, v, t) PROVE KvOf' = [KvOf EXCEPT ![k] = v]
    <3>1. Free(t) /\ data' = [data EXCEPT ![t] = v] /\ ptr' = [ptr EXCEPT ![k] = t]
      BY <2>2, Zenon DEF PutAlloc
    <3>2. ptr'[k] = t /\ data'[t] = v
      BY <3>1, PoolTypes, Zenon
    <3>3. ASSUME NEW j \in Keys, j # k
          PROVE  ptr'[j] = ptr[j] /\ (ptr[j] # NoTarget => data'[ptr[j]] = data[ptr[j]])
      BY <3>1, <3>3, PoolTypes, Zenon
    <3>4. KvOf'[k] = v
      BY <3>2, KvAt
    <3>5. \A j \in Keys : j # k => KvOf'[j] = KvOf[j]
      BY <3>3, KvAt
    <3>. QED BY <3>4, <3>5, KvUpdated, Zenon
  <2>. QED BY <2>1, <2>2, Zenon
<1>3. StagingOf' = StagingOf /\ StagedOf' = StagedOf
  BY <1>1, Zenon DEF StagingOf, StagedOf
<1>4. Kv!Put(c, k, v)
  BY <1>1, <1>2, <1>3, NotStaging, Zenon DEF Kv!Put, Kv!Answer, KvOf, StagingOf, StagedOf
<1>. QED BY <1>4, Zenon DEF Kv!Next

\* An erase removes its key.
LEMMA EraseRefines ==
  ASSUME IInv, NEW c \in Clients, NEW k \in Keys, Erase(c, k)
  PROVE  Kv!Next
<1>1. /\ pc[c] \notin Writing /\ ok' = [ok EXCEPT ![c] = TRUE] /\ UNCHANGED <<pc, key, want, data>>
      /\ Present(k) /\ ptr' = [ptr EXCEPT ![k] = NoTarget]
  BY Zenon DEF Erase
<1>2. KvOf' = [KvOf EXCEPT ![k] = NoValue]
  <2>1. ptr'[k] = NoTarget /\ \A j \in Keys : j # k => ptr'[j] = ptr[j]
    BY <1>1, PoolTypes, Zenon
  <2>2. KvOf'[k] = NoValue /\ \A j \in Keys : j # k => KvOf'[j] = KvOf[j]
    BY <1>1, <2>1, KvAt
  <2>. QED BY <2>2, KvUpdated, Zenon
<1>3. KvOf[k] # NoValue
  BY <1>1, PoolTypes DEF KvOf
<1>4. StagingOf' = StagingOf /\ StagedOf' = StagedOf
  BY <1>1, Zenon DEF StagingOf, StagedOf
<1>5. Kv!Erase(c, k)
  BY <1>1, <1>2, <1>3, <1>4, NotStaging, Zenon DEF Kv!Erase, Kv!Answer, KvOf, StagingOf, StagedOf
<1>. QED BY <1>5, Zenon DEF Kv!Next

\* PUT_LOCATE begins a transfer, the only one to its key: the pending key was not locked.
LEMMA LocateRefines ==
  ASSUME IInv, NEW c \in Clients, NEW k \in Keys, NEW v \in Values, NEW t \in Targets, PutLocate(c, k, v, t)
  PROVE  Kv!Next
<1>1. /\ pc[c] \notin Writing /\ plk[k] = 0 /\ ptr' = ptr
      /\ pc' = [pc EXCEPT ![c] = "write"] /\ key' = [key EXCEPT ![c] = k]
      /\ want' = [want EXCEPT ![c] = v] /\ ok' = [ok EXCEPT ![c] = FALSE]
  BY Zenon DEF PutLocate
<1>2. data' = data \/ (Free(t) /\ data' = [data EXCEPT ![t] = Torn])
  BY Zenon DEF PutLocate, CreatePending
<1>3. \A j \in Keys : ptr[j] # NoTarget => data'[ptr[j]] = data[ptr[j]]
  BY <1>2, PoolTypes, Zenon
<1>4. KvOf' = KvOf
  BY <1>1, <1>3, KvKept, Zenon
<1>5. ASSUME NEW d \in Clients PROVE StagingOf[d] # k
  <2>1. CASE pc[d] \in Writing
    <3>1. plk[key[d]] = -1
      BY <2>1, OwnEntry, Zenon
    <3>2. key[d] # k
      BY <1>1, <3>1
    <3>. QED BY <2>1, <3>2, Zenon DEF StagingOf
  <2>2. CASE pc[d] \notin Writing
    BY <2>2, NotStaging, Zenon
  <2>. QED BY <2>1, <2>2, Zenon
<1>6. pc'[c] \in Writing /\ key'[c] = k /\ want'[c] = v
      /\ \A d \in Clients : d # c => pc'[d] = pc[d] /\ key'[d] = key[d] /\ want'[d] = want[d]
  BY <1>1, ClientTypes, Zenon
<1>7. StagingOf' = [StagingOf EXCEPT ![c] = k] /\ StagedOf' = [StagedOf EXCEPT ![c] = v]
  BY <1>6, Zenon DEF StagingOf, StagedOf
<1>8. Kv!Begin(c, k, v)
  BY <1>1, <1>4, <1>5, <1>7, NotStaging, Zenon DEF Kv!Begin, Kv!Answer, KvOf, StagingOf, StagedOf
<1>. QED BY <1>8, Zenon DEF Kv!Next

\* The remote write is invisible: it goes to the pending object.
LEMMA WriteRefines ==
  ASSUME IInv, NEW c \in Clients, RemoteWrite(c)
  PROVE  UNCHANGED <<KvOf, StagingOf, StagedOf, ok>>
<1>1. pc[c] = "write" /\ pc' = [pc EXCEPT ![c] = "written"] /\ UNCHANGED <<ptr, key, tgt, want, ok>>
  BY Zenon DEF RemoteWrite
<1>2. \A u \in Targets : u # tgt[c] => data'[u] = data[u]
  BY PoolTypes, Zenon DEF RemoteWrite
<1>3. \A k \in Keys : ptr[k] # tgt[c]
  BY <1>1, WriteTarget, Zenon
<1>4. KvOf' = KvOf
  BY <1>1, <1>2, <1>3, KvKept, PoolTypes, Zenon
<1>5. \A d \in Clients : pc'[d] \in Writing <=> pc[d] \in Writing
  BY <1>1, ClientTypes, Zenon
<1>6. StagingOf' = StagingOf /\ StagedOf' = StagedOf
  BY <1>1, <1>5, Zenon DEF StagingOf, StagedOf
<1>. QED BY <1>1, <1>4, <1>6, Zenon

\* The transfer of a client ends.
LEMMA EndStaging ==
  ASSUME IInv, NEW c \in Clients, pc[c] \in Writing,
         pc' = [pc EXCEPT ![c] = "idle"], key' = [key EXCEPT ![c] = NoKey],
         want' = [want EXCEPT ![c] = NoValue]
  PROVE  Kv!EndTransfer(c) /\ StagingOf[c] = key[c] /\ StagedOf[c] = want[c]
<1>1. pc'[c] = "idle" /\ \A d \in Clients : d # c => pc'[d] = pc[d] /\ key'[d] = key[d] /\ want'[d] = want[d]
  BY ClientTypes, Zenon
<1>2. StagingOf' = [StagingOf EXCEPT ![c] = NoKey] /\ StagedOf' = [StagedOf EXCEPT ![c] = NoValue]
  BY <1>1, Zenon DEF StagingOf, StagedOf
<1>3. StagingOf[c] = key[c] /\ StagedOf[c] = want[c] /\ key[c] # NoKey
  BY WriteTarget, Zenon DEF StagingOf, StagedOf
<1>. QED BY <1>2, <1>3, Zenon DEF Kv!EndTransfer, StagingOf, StagedOf

\* PUT_RELEASE makes exactly the announced value visible, at the announced key.
LEMMA ReleaseRefines ==
  ASSUME IInv, WrittenInv, NEW c \in Clients, PutRelease(c)
  PROVE  Kv!Next
<1>1. /\ pc[c] = "written" /\ pc[c] \in Writing
      /\ ptr' = [ptr EXCEPT ![rename[tgt[c]]] = tgt[c]] /\ data' = data
      /\ ok' = [ok EXCEPT ![c] = TRUE]
      /\ pc' = [pc EXCEPT ![c] = "idle"] /\ key' = [key EXCEPT ![c] = NoKey]
      /\ want' = [want EXCEPT ![c] = NoValue]
  BY Zenon DEF PutRelease
<1>2. rename[tgt[c]] = key[c] /\ key[c] \in Keys /\ tgt[c] \in Targets
  BY <1>1, OwnEntry, Zenon
<1>3. data[tgt[c]] = want[c]
  BY <1>1, Zenon DEF WrittenInv
<1>4. KvOf' = [KvOf EXCEPT ![key[c]] = want[c]]
  <2>1. ptr'[key[c]] = tgt[c] /\ \A j \in Keys : j # key[c] => ptr'[j] = ptr[j]
    BY <1>1, <1>2, PoolTypes, Zenon
  <2>2. KvOf'[key[c]] = want[c] /\ \A j \in Keys : j # key[c] => KvOf'[j] = KvOf[j]
    BY <1>1, <1>2, <1>3, <2>1, KvAt
  <2>. QED BY <1>2, <2>2, Zenon DEF KvOf
<1>5. Kv!EndTransfer(c) /\ StagingOf[c] = key[c] /\ StagedOf[c] = want[c]
  BY <1>1, EndStaging, Zenon
<1>6. Kv!Commit(c)
  BY <1>1, <1>4, <1>5, Zenon DEF Kv!Commit, Kv!Answer, KvOf, StagingOf, StagedOf
<1>. QED BY <1>6, Zenon DEF Kv!Next

\* A PUT_RELEASE that fails, and a session that ends, leave the values alone.
LEMMA FailRefines ==
  ASSUME IInv, NEW c \in Clients, PutReleaseFailed(c)
  PROVE  Kv!Next
<1>1. /\ pc[c] \in Writing /\ UNCHANGED <<ptr, data>> /\ ok' = [ok EXCEPT ![c] = FALSE]
      /\ pc' = [pc EXCEPT ![c] = "idle"] /\ key' = [key EXCEPT ![c] = NoKey]
      /\ want' = [want EXCEPT ![c] = NoValue]
  BY Zenon DEF PutReleaseFailed
<1>2. KvOf' = KvOf
  BY <1>1, KvKept, Zenon
<1>3. Kv!EndTransfer(c)
  BY <1>1, EndStaging, Zenon
<1>4. Kv!Fail(c)
  BY <1>1, <1>2, <1>3, Zenon DEF Kv!Fail, Kv!Answer, KvOf
<1>. QED BY <1>4, Zenon DEF Kv!Next

\* The end of a session abandons a transfer, or a read, which is invisible.
LEMMA CloseRefines ==
  ASSUME IInv, NEW c \in Clients, SessionClose(c)
  PROVE  Kv!Next \/ UNCHANGED <<KvOf, StagingOf, StagedOf, ok>>
<1>1. /\ UNCHANGED <<ptr, data, ok>>
      /\ pc' = [pc EXCEPT ![c] = "idle"] /\ key' = [key EXCEPT ![c] = NoKey]
      /\ want' = [want EXCEPT ![c] = NoValue]
  BY Zenon DEF SessionClose
<1>2. KvOf' = KvOf
  BY <1>1, KvKept, Zenon
<1>3. CASE pc[c] \in Writing
  <2>1. Kv!EndTransfer(c)
    BY <1>1, <1>3, EndStaging, Zenon
  <2>2. Kv!Abandon(c)
    BY <1>1, <1>2, <2>1, Zenon DEF Kv!Abandon, KvOf
  <2>. QED BY <2>2, Zenon DEF Kv!Next
<1>4. CASE pc[c] \notin Writing
  <2>1. pc'[c] = "idle" /\ \A d \in Clients : d # c => pc'[d] = pc[d] /\ key'[d] = key[d] /\ want'[d] = want[d]
    BY <1>1, ClientTypes, Zenon
  <2>2. StagingOf' = StagingOf /\ StagedOf' = StagedOf
    BY <1>4, <2>1, Zenon DEF StagingOf, StagedOf
  <2>. QED BY <1>1, <1>2, <2>2, Zenon
<1>. QED BY <1>3, <1>4, Zenon

\* With values of one length, put_direct is atomic, makes exactly the announced value
\* visible, and runs one at a time on a key: the shard implements DirectKv.
THEOREM Refinement ==
  ASSUME \A v, w \in Values : Len[v] = Len[w]
  PROVE  Spec => ImplementsDirectKv
<1>1. Init => LengthInv /\ WrittenInv /\ Kv!Init
  <2>. SUFFICES ASSUME Init PROVE LengthInv /\ WrittenInv /\ Kv!Init
    BY Zenon
  <2>1. LengthInv /\ WrittenInv
    BY Zenon DEF Init, LengthInv, WrittenInv
  <2>2. KvOf = [k \in Keys |-> NoValue]
    BY Zenon DEF Init, KvOf
  <2>3. StagingOf = [c \in Clients |-> NoKey] /\ StagedOf = [c \in Clients |-> NoValue]
    BY Zenon DEF Init, StagingOf, StagedOf
  <2>4. ok = [c \in Clients |-> TRUE]
    BY Zenon DEF Init
  <2>. QED BY <2>1, <2>2, <2>3, <2>4, Zenon DEF Kv!Init, KvOf, StagingOf, StagedOf
<1>2. IInv /\ LengthInv /\ WrittenInv /\ [Next]_vars => LengthInv' /\ WrittenInv'
  <2>. SUFFICES ASSUME IInv, LengthInv, WrittenInv, [Next]_vars PROVE LengthInv' /\ WrittenInv'
    BY Zenon
  <2>1. CASE UNCHANGED vars
    BY <2>1, Zenon DEF vars, LengthInv, WrittenInv
  <2>. QED BY <2>1, NextSteps, LengthStep, WrittenStep, Zenon
<1>3. IInv /\ WrittenInv /\ [Next]_vars => [Kv!Next]_(Kv!kvvars)
  <2>. SUFFICES ASSUME IInv, WrittenInv, [Next]_vars
                PROVE  Kv!Next \/ UNCHANGED <<KvOf, StagingOf, StagedOf, ok>>
    BY Zenon DEF Kv!kvvars, KvOf, StagingOf, StagedOf
  <2>1. CASE UNCHANGED vars
    BY <2>1, Zenon DEF vars, KvOf, StagingOf, StagedOf
  <2>2. ASSUME NEW c \in Clients, Step(c)
        PROVE  Kv!Next \/ UNCHANGED <<KvOf, StagingOf, StagedOf, ok>>
    BY <2>2, QuietRefines, PutRefines, EraseRefines, LocateRefines, WriteRefines, ReleaseRefines,
       FailRefines, CloseRefines, ZenonT(60) DEF Step
  <2>. QED BY <2>1, <2>2, NextSteps, Zenon
<1>. QED BY <1>1, <1>2, <1>3, InitInv, NextInv, PTL DEF Spec, ImplementsDirectKv, Kv!Spec
=============================================================================
