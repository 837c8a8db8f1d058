------------------------- MODULE AdoInvokeInvariant -------------------------
(***************************************************************************)
(* Work requests for any number of clients, keys, slots and readers: every *)
(* unlock finds its lock, every completion its request, and the target of  *)
(* a request stays in place.                                               *)
(***************************************************************************)
EXTENDS AdoInvoke, FiniteSetTheorems, TLAPS

-----------------------------------------------------------------------------
(* The inductive invariant *)

\* What a lock n owes to its writers W, to the plugin (e), to its readers R and to the s
\* values being sent.
Backed(n, W, e, R, s) ==
  /\ e # "no" => W = {}
  /\ \A u, w \in W : u = w
  /\ W # {} \/ e # "no" => n = -1
  /\ Cardinality(R) + s > 0 => n >= Cardinality(R) + s

LockInv == \A k \in Keys : Backed(lk[k], Writers(k), explicit[k], Readers(k), shared[k])

\* Only pairs in the map are locked.
PresentInv == \A k \in Keys : k \notin present => lk[k] = 0

\* A free slot owns no deferred unlock, a request that locks has a target, which it did not
\* open a second time, a get reads its key, and nothing is left for the end of the ADO
\* process.
SlotInv == /\ life = {}
           /\ \A w \in Works \ outstanding : deferred[w] = {}
           /\ \A w \in outstanding :
                /\ work[w].lock # "none" => work[w].key \in Keys
                /\ work[w].lock = "write" => work[w].key \notin deferred[w]
                /\ work[w].kind = "value" => work[w].lock = "read"

\* A large value that is being sent, or will be, has its count of sharers.
Getting(k) == {w \in outstanding : work[w].kind = "value" /\ work[w].key = k}
SendingOf(k) == {c \in Clients : sending[c] = k}
SharedInv == /\ \A c \in Clients : sending[c] \in LargeKeys \cup {NoKey}
             /\ \A k \in LargeKeys : Cardinality(SendingOf(k)) + Cardinality(Getting(k)) <= shared[k]

\* Work requests on their way are outstanding, once each.
QueueInv == /\ \A i \in 1 .. Len(queue) : queue[i] \in outstanding
            /\ \A i, j \in 1 .. Len(queue) : queue[i] = queue[j] => i = j
DoneInv == /\ \A i \in 1 .. Len(done) : done[i] \in outstanding
           /\ \A i, j \in 1 .. Len(done) : done[i] = done[j] => i = j
ApartInv == \A i \in 1 .. Len(queue), j \in 1 .. Len(done) : queue[i] # done[j]

\* A client that will be answered waits for that answer only.
Waits(w) == work[w].handler # NoClient /\ work[w].kind # "async"
AnswerInv == \A w \in outstanding : Waits(w) =>
               /\ req[work[w].handler] = "waiting"
               /\ \A u \in outstanding \ {w} : work[u].handler = work[w].handler => work[u].kind = "async"

IInv == /\ TypeOK /\ LockInv /\ PresentInv /\ SlotInv /\ SharedInv
        /\ QueueInv /\ DoneInv /\ ApartInv /\ AnswerInv

-----------------------------------------------------------------------------
(* Locks and those who rely on them *)

\* Sets of work requests and of clients are finite.
LEMMA Finite ==
  ASSUME NEW S, S \subseteq Works \/ S \subseteq Clients
  PROVE  IsFiniteSet(S) /\ Cardinality(S) \in Nat
<1>1. IsFiniteSet(S)
  BY WorksAssumption, ClientsAssumption, FS_Subset, Zenon
<1> QED BY <1>1, FS_CardinalityType, Zenon

\* One member more, one member less, and fewer members.
LEMMA OneMore ==
  ASSUME NEW S, IsFiniteSet(S), Cardinality(S) \in Nat, NEW x, x \notin S
  PROVE  Cardinality(S \cup {x}) = Cardinality(S) + 1
BY FS_AddElement, Zenon

\* A set without one of its members.
LEMMA OneLess ==
  ASSUME NEW S, IsFiniteSet(S), Cardinality(S) \in Nat, NEW x, x \in S
  PROVE  Cardinality(S \ {x}) = Cardinality(S) - 1 /\ Cardinality(S) > 0
<1>1. IsFiniteSet(S \ {x}) /\ Cardinality(S \ {x}) = Cardinality(S) - 1
  BY FS_RemoveElement, Zenon
<1>2. Cardinality(S \ {x}) \in Nat
  BY <1>1, FS_CardinalityType, Zenon
<1> QED BY <1>1, <1>2

\* A part of a finite set.
LEMMA Fewer ==
  ASSUME NEW S, IsFiniteSet(S), Cardinality(S) \in Nat, NEW T, T \subseteq S
  PROVE  Cardinality(T) \in Nat /\ Cardinality(T) <= Cardinality(S)
<1>1. IsFiniteSet(T) /\ Cardinality(T) <= Cardinality(S)
  BY FS_Subset, Zenon
<1> QED BY <1>1, FS_CardinalityType, Zenon

\* A free lock is taken by a reader: without a registered work request, for a value to be
\* sent, for a work request, and for both.
LEMMA ReadTaken ==
  ASSUME NEW n \in Nat, NEW W, NEW e, NEW R, NEW s \in Nat, R \subseteq Works, Backed(n, W, e, R, s)
  PROVE  /\ Backed(n + 1, W, e, R, s) /\ Backed(n + 1, W, e, R, s + 1)
         /\ \A w : w \notin R /\ w \in Works =>
              Backed(n + 1, W, e, R \cup {w}, s) /\ Backed(n + 2, W, e, R \cup {w}, s + 1)
<1>1. IsFiniteSet(R) /\ Cardinality(R) \in Nat
  BY Finite, Zenon
<1>2. W = {} /\ ~(e # "no")
  BY DEF Backed
<1>3. n >= Cardinality(R) + s
  BY <1>1 DEF Backed
<1>4. ASSUME NEW w, w \notin R, w \in Works PROVE Cardinality(R \cup {w}) = Cardinality(R) + 1
  BY <1>1, <1>4, OneMore, Zenon
<1> QED BY <1>1, <1>2, <1>3, <1>4 DEF Backed

\* A free lock is taken by a writer: without an owner, by a work request, by the plugin.
LEMMA WriteTaken ==
  ASSUME NEW W, NEW e, NEW R, NEW s \in Nat, R \subseteq Works, Backed(0, W, e, R, s)
  PROVE  /\ W = {} /\ e = "no" /\ R = {}
         /\ Backed(-1, W, e, R, s)
         /\ \A w : Backed(-1, W \cup {w}, e, R, s)
         /\ \A f : Backed(-1, W, f, R, s)
<1>1. IsFiniteSet(R) /\ Cardinality(R) \in Nat
  BY Finite, Zenon
<1>2. W = {} /\ e = "no"
  BY DEF Backed
<1>3. Cardinality(R) = 0 /\ s = 0
  BY <1>1 DEF Backed
<1>4. R = {}
  BY <1>1, <1>3, FS_EmptySet, Zenon
<1> QED BY <1>2, <1>3, <1>4 DEF Backed

\* Fewer may rely on a lock.
LEMMA FewerBacked ==
  ASSUME NEW n \in Int, NEW W, NEW e, NEW R, NEW s \in Nat, R \subseteq Works, Backed(n, W, e, R, s),
         NEW X, X \subseteq W, NEW f, f \in {e, "no"}, NEW T, T \subseteq R, NEW t \in Nat, t <= s
  PROVE  Backed(n, X, f, T, t)
<1>1. IsFiniteSet(R) /\ Cardinality(R) \in Nat
  BY Finite, Zenon
<1>2. Cardinality(T) \in Nat /\ Cardinality(T) <= Cardinality(R)
  BY <1>1, Fewer, Zenon
<1>3. Cardinality(T) + t > 0 => n >= Cardinality(T) + t
  BY <1>1, <1>2 DEF Backed
<1>4. (f # "no" => X = {}) /\ (\A u, w \in X : u = w) /\ (X # {} \/ f # "no" => n = -1)
  BY Zenon DEF Backed
<1> QED BY <1>3, <1>4, Zenon DEF Backed

\* A lock with a reader or a writer is not free, and has none of the other kind.
LEMMA HolderLocks ==
  ASSUME NEW n \in Int, NEW W, NEW e, NEW R, NEW s \in Nat, R \subseteq Works, Backed(n, W, e, R, s)
  PROVE  /\ W # {} \/ e # "no" => n = -1 /\ R = {} /\ s = 0
         /\ \A w \in R : n > 0 /\ W = {} /\ e = "no" /\ n >= Cardinality(R) + s
         /\ s > 0 => n > 0 /\ n >= s
<1>1. IsFiniteSet(R) /\ Cardinality(R) \in Nat
  BY Finite, Zenon
<1>2. ASSUME W # {} \/ e # "no" PROVE n = -1 /\ R = {} /\ s = 0
  <2>1. n = -1
    BY <1>2, Zenon DEF Backed
  <2>2. Cardinality(R) = 0 /\ s = 0
    BY <1>1, <2>1 DEF Backed
  <2> QED BY <1>1, <2>1, <2>2, FS_EmptySet, Zenon
<1>3. ASSUME NEW w \in R PROVE n > 0 /\ W = {} /\ e = "no" /\ n >= Cardinality(R) + s
  <2>1. Cardinality(R) > 0
    BY <1>1, <1>3, OneLess, Zenon
  <2>2. n >= Cardinality(R) + s /\ n > 0
    BY <1>1, <2>1 DEF Backed
  <2> QED BY <2>2 DEF Backed
<1>4. s > 0 => n > 0 /\ n >= s
  BY <1>1 DEF Backed
<1> QED BY <1>2, <1>3, <1>4, Zenon

\* The invariant about locks is the one that the run checks.
LEMMA LocksBacked ==
  ASSUME TypeOK, LockInv
  PROVE  LockBacked
<1> SUFFICES ASSUME NEW k \in Keys
             PROVE  LET owners == Cardinality(Writers(k)) + (IF explicit[k] # "no" THEN 1 ELSE 0)
                        readers == Cardinality(Readers(k)) + shared[k]
                    IN owners <= 1 /\ (owners = 1 => lk[k] = -1) /\ (readers > 0 => lk[k] >= readers)
  BY Zenon DEF LockBacked
<1>1. Backed(lk[k], Writers(k), explicit[k], Readers(k), shared[k])
  BY Zenon DEF LockInv
<1>2. Writers(k) = {} \/ \E w : Writers(k) = {w}
  BY <1>1, Zenon DEF Backed
<1>3. Cardinality({}) = 0 /\ \A w : Cardinality({w}) = 1
  BY FS_EmptySet, FS_Singleton, Zenon
<1>4. CASE Writers(k) = {}
  BY <1>1, <1>3, <1>4 DEF Backed
<1>5. CASE Writers(k) # {}
  <2>1. Cardinality(Writers(k)) = 1 /\ ~(explicit[k] # "no")
    BY <1>1, <1>2, <1>3, <1>5, Zenon DEF Backed
  <2> QED BY <1>1, <1>5, <2>1 DEF Backed
<1> QED BY <1>4, <1>5, Zenon

-----------------------------------------------------------------------------
(* The parts of the invariant *)

\* The conjuncts of the invariant, before and after a step.
LEMMA Parts ==
  /\ IInv <=> /\ TypeOK /\ LockInv /\ PresentInv /\ SlotInv /\ SharedInv
              /\ QueueInv /\ DoneInv /\ ApartInv /\ AnswerInv
  /\ IInv' <=> /\ TypeOK' /\ LockInv' /\ PresentInv' /\ SlotInv' /\ SharedInv'
               /\ QueueInv' /\ DoneInv' /\ ApartInv' /\ AnswerInv'
BY Zenon DEF IInv

\* The types of what a lock owes.
LEMMA LockTypes ==
  ASSUME TypeOK, NEW k \in Keys
  PROVE  /\ lk[k] \in Int /\ lk[k] >= -1 /\ lk[k] <= MaxReaders /\ MaxReaders \in Nat
         /\ shared[k] \in Nat /\ shared[k] <= MaxReaders
         /\ Readers(k) \subseteq Works /\ Writers(k) \subseteq Works /\ Getting(k) \subseteq Works
         /\ SendingOf(k) \subseteq Clients
<1>1. lk[k] \in -1 .. MaxReaders /\ shared[k] \in 0 .. MaxReaders /\ outstanding \subseteq Works
  BY Zenon DEF TypeOK
<1>2. MaxReaders \in Nat
  BY BoundsAssumption, Zenon
<1>3. /\ Readers(k) \subseteq Works /\ Writers(k) \subseteq Works /\ Getting(k) \subseteq Works
      /\ SendingOf(k) \subseteq Clients
  BY <1>1, Zenon DEF Readers, Writers, Getting, SendingOf
<1> QED BY <1>1, <1>2, <1>3

\* The records of the slots.
WorkRecord == [handler : Clients \cup {NoClient}, key : Keys \cup {NoKey},
               lock : {"none", "read", "write"}, kind : {"sync", "async", "io", "value"}]

\* The types of the work requests, one at a time.
LEMMA WorkTypes ==
  ASSUME TypeOK
  PROVE  /\ outstanding \subseteq Works /\ work \in [Works -> WorkRecord]
         /\ \A w \in Works : /\ work[w] \in WorkRecord
                             /\ work[w].handler \in Clients \cup {NoClient}
                             /\ work[w].key \in Keys \cup {NoKey}
                             /\ work[w].lock \in {"none", "read", "write"}
                             /\ work[w].kind \in {"sync", "async", "io", "value"}
<1>1. outstanding \subseteq Works /\ work \in [Works -> WorkRecord]
  BY Zenon DEF TypeOK, WorkRecord
<1> QED BY <1>1, Zenon DEF WorkRecord

\* The locks a work request holds.
LEMMA Owned ==
  ASSUME TypeOK, SlotInv, LockInv, NEW k \in Keys
  PROVE  /\ Backed(lk[k], Writers(k), explicit[k], Readers(k), shared[k])
         /\ \A w \in outstanding : work[w].key = k /\ work[w].lock = "read" =>
              w \in Readers(k) /\ w \notin Writers(k)
         /\ \A w \in outstanding : (work[w].key = k /\ work[w].lock = "write") \/ k \in deferred[w] =>
              w \in Writers(k) /\ w \notin Readers(k)
<1>1. Backed(lk[k], Writers(k), explicit[k], Readers(k), shared[k])
  BY Zenon DEF LockInv
<1>2. lk[k] \in Int /\ shared[k] \in Nat /\ Readers(k) \subseteq Works
  BY LockTypes, Zenon
<1>3. \A w \in Writers(k) : w \notin Readers(k)
  BY <1>1, <1>2, HolderLocks, Zenon
<1>4. /\ \A w \in outstanding : work[w].key = k /\ work[w].lock = "read" => w \in Readers(k)
      /\ \A w \in outstanding : (work[w].key = k /\ work[w].lock = "write") \/ k \in deferred[w] => w \in Writers(k)
  BY Zenon DEF Readers, Writers
<1> QED BY <1>1, <1>3, <1>4, Zenon

\* Who relies on a lock after a request is registered.
LEMMA SendEffect ==
  ASSUME TypeOK, SlotInv, NEW w, NEW c, NEW k, NEW mode, NEW kind,
         Send(w, c, k, mode, kind), deferred' = deferred, NEW j \in Keys
  PROVE  /\ w \in Works /\ w \notin Readers(j)
         /\ Readers(j)' = IF mode = "read" /\ j = k THEN Readers(j) \cup {w} ELSE Readers(j)
         /\ Writers(j)' = IF mode = "write" /\ j = k THEN Writers(j) \cup {w} ELSE Writers(j)
         /\ Getting(j)' = IF kind = "value" /\ j = k THEN Getting(j) \cup {w} ELSE Getting(j)
<1>1. w \in Works /\ w \notin outstanding /\ outstanding' = outstanding \cup {w}
  BY Zenon DEF Send
<1>2. work'[w] = [handler |-> c, key |-> k, lock |-> mode, kind |-> kind] /\ \A u \in outstanding : work'[u] = work[u]
  BY <1>1, WorkTypes, Zenon DEF Send
<1>3. work'[w].key = k /\ work'[w].lock = mode /\ work'[w].kind = kind
  BY <1>2
<1>7. deferred'[w] = {}
  BY <1>1, Zenon DEF SlotInv
<1>4. Readers(j)' = IF mode = "read" /\ j = k THEN Readers(j) \cup {w} ELSE Readers(j)
  BY <1>1, <1>2, <1>3, Zenon DEF Readers
<1>5. Writers(j)' = IF mode = "write" /\ j = k THEN Writers(j) \cup {w} ELSE Writers(j)
  BY <1>1, <1>2, <1>3, <1>7, Zenon DEF Writers
<1>6. Getting(j)' = IF kind = "value" /\ j = k THEN Getting(j) \cup {w} ELSE Getting(j)
  BY <1>1, <1>2, <1>3, Zenon DEF Getting
<1> QED BY <1>1, <1>4, <1>5, <1>6, Zenon DEF Readers

\* Who relies on a lock after a request is retired.
LEMMA RetireEffect ==
  ASSUME TypeOK, NEW w \in Works, Retire(w), NEW j \in Keys
  PROVE  /\ Readers(j)' = Readers(j) \ {w} /\ Writers(j)' = Writers(j) \ {w}
         /\ Getting(j)' = Getting(j) \ {w} /\ explicit' = explicit
<1>1. outstanding' = outstanding \ {w} /\ explicit' = explicit
  BY Zenon DEF Retire
<1>2. \A u \in outstanding' : u \in Works /\ u # w /\ u \in outstanding
  BY <1>1, WorkTypes, Zenon
<1>3. \A u \in Works : u # w => work'[u] = work[u] /\ deferred'[u] = deferred[u]
  BY Zenon DEF Retire, TypeOK
<1>4. \A u \in outstanding' : work'[u] = work[u] /\ deferred'[u] = deferred[u]
  BY <1>2, <1>3, Zenon
<1> QED BY <1>1, <1>4, Zenon DEF Readers, Writers, Getting

\* The locks that a completion releases back everybody else.
LEMMA ReleasedBacked ==
  ASSUME TypeOK, SlotInv, LockInv, NEW w \in outstanding, NEW k \in Keys
  PROVE  /\ Released(w)[k] \in Int /\ Released(w)[k] >= -1
         /\ Released(w)[k] <= MaxReaders
         /\ lk[k] = 0 => Released(w)[k] = 0
         /\ Backed(Released(w)[k], Writers(k) \ {w}, explicit[k], Readers(k) \ {w}, shared[k])
<1> DEFINE K == IF work[w].lock # "none" THEN {work[w].key} ELSE {}
<1>1. /\ lk[k] \in Int /\ lk[k] >= -1 /\ lk[k] <= MaxReaders /\ MaxReaders \in Nat
      /\ shared[k] \in Nat /\ Readers(k) \subseteq Works
  BY LockTypes, Zenon
<1>2. Backed(lk[k], Writers(k), explicit[k], Readers(k), shared[k])
  BY Zenon DEF LockInv
<1>3. Released(w) = Give(Give(lk, K), deferred[w])
  BY Zenon DEF Released
<1> HIDE DEF K
<1>4. Give(lk, K)[k] = IF k \notin K THEN lk[k] ELSE IF lk[k] > 0 THEN lk[k] - 1 ELSE 0
  BY Zenon DEF Give
<1>5. Released(w)[k] = IF k \notin deferred[w] THEN Give(lk, K)[k]
                       ELSE IF Give(lk, K)[k] > 0 THEN Give(lk, K)[k] - 1 ELSE 0
  BY <1>3, Zenon DEF Give
<1>6. Readers(k) \ {w} \subseteq Readers(k) /\ Writers(k) \ {w} \subseteq Writers(k)
  BY Zenon
<1>7. work[w].lock \in {"none", "read", "write"}
  BY WorkTypes, Zenon
<1>8. CASE work[w].key = k /\ work[w].lock = "read"
  <2>1. w \in Readers(k) /\ k \in K
    BY <1>8, Owned, Zenon DEF K
  <2>2. lk[k] > 0 /\ Writers(k) = {} /\ explicit[k] = "no" /\ lk[k] >= Cardinality(Readers(k)) + shared[k]
    BY <1>1, <1>2, <2>1, HolderLocks, Zenon
  <2>3. k \notin deferred[w]
    BY <2>2, Owned, Zenon
  <2>4. IsFiniteSet(Readers(k)) /\ Cardinality(Readers(k)) \in Nat
    BY <1>1, Finite, Zenon
  <2>5. Cardinality(Readers(k) \ {w}) = Cardinality(Readers(k)) - 1
    BY <2>1, <2>4, OneLess, Zenon
  <2>6. Released(w)[k] = lk[k] - 1
    BY <1>4, <1>5, <2>1, <2>2, <2>3, Zenon
  <2>7. Writers(k) \ {w} = {}
    BY <2>2, Zenon
  <2>8. Backed(lk[k] - 1, {}, "no", Readers(k) \ {w}, shared[k])
    BY <1>1, <2>2, <2>4, <2>5 DEF Backed
  <2> QED BY <1>1, <2>2, <2>6, <2>7, <2>8
<1>9. CASE (work[w].key = k /\ work[w].lock = "write") \/ k \in deferred[w]
  <2>1. w \in Writers(k) /\ Writers(k) # {}
    BY <1>9, Owned, Zenon
  <2>2. lk[k] = -1 /\ Readers(k) = {} /\ shared[k] = 0
    BY <1>1, <1>2, <2>1, HolderLocks
  <2>3. Writers(k) \ {w} = {} /\ explicit[k] = "no"
    BY <1>2, <2>1, Zenon DEF Backed
  <2>4. k \in K \/ k \in deferred[w]
    BY <1>9, Zenon DEF K
  <2>5. Released(w)[k] = 0
    BY <1>4, <1>5, <2>2, <2>4
  <2>6. Readers(k) \ {w} = {}
    BY <2>2, Zenon
  <2>7. Backed(0, {}, "no", {}, 0)
    BY FS_EmptySet DEF Backed
  <2> QED BY <1>1, <2>2, <2>3, <2>5, <2>6, <2>7
<1>10. CASE ~(work[w].key = k /\ work[w].lock \in {"read", "write"}) /\ k \notin deferred[w]
  <2>1. k \notin K
    BY <1>7, <1>10, Zenon DEF K
  <2>2. Released(w)[k] = lk[k]
    BY <1>4, <1>5, <1>10, <2>1, Zenon
  <2>3. Backed(lk[k], Writers(k) \ {w}, explicit[k], Readers(k) \ {w}, shared[k])
    BY <1>1, <1>2, <1>6, FewerBacked
  <2> QED BY <1>1, <2>2, <2>3, Zenon
<1> QED BY <1>8, <1>9, <1>10, Zenon

-----------------------------------------------------------------------------
(* Requests of clients *)

\* The type invariant by the groups of variables that steps change together.
StoreTypes == lk \in [Keys -> -1 .. MaxReaders] /\ val \in [Keys -> Values] /\ present \in SUBSET Keys
SlotTypes == /\ outstanding \in SUBSET Works /\ work \in [Works -> WorkRecord]
             /\ queue \in Seq(Works) /\ done \in Seq(Works) /\ status \in [Works -> {"ok", "error", "erase"}]
PluginTypes == /\ deferred \in [Works -> SUBSET Keys] /\ life \in SUBSET Keys
               /\ explicit \in [Keys -> {"no", "life", "manual"}]
ShardTypes == /\ shared \in [Keys -> 0 .. MaxReaders] /\ sending \in [Clients -> Keys \cup {NoKey}]
              /\ alive \in BOOLEAN /\ signals \in Signals
ClientTypes == req \in [Clients -> {"ok", "error", "waiting"}] /\ connected \in [Clients -> BOOLEAN]

\* The type invariant by groups of variables.
LEMMA TypeParts ==
  /\ TypeOK <=> StoreTypes /\ SlotTypes /\ PluginTypes /\ ShardTypes /\ ClientTypes
  /\ TypeOK' <=> StoreTypes' /\ SlotTypes' /\ PluginTypes' /\ ShardTypes' /\ ClientTypes'
<1>1. TypeOK <=> StoreTypes /\ SlotTypes /\ PluginTypes /\ ShardTypes /\ ClientTypes
  BY Zenon DEF TypeOK, StoreTypes, SlotTypes, PluginTypes, ShardTypes, ClientTypes, WorkRecord
<1>2. TypeOK' <=> StoreTypes' /\ SlotTypes' /\ PluginTypes' /\ ShardTypes' /\ ClientTypes'
  BY Zenon DEF TypeOK, StoreTypes, SlotTypes, PluginTypes, ShardTypes, ClientTypes, WorkRecord
<1> QED BY <1>1, <1>2, Zenon

\* The parts of the invariant that an answer and a new request leave to what they lock.
StoreInv == StoreTypes /\ LockInv /\ PresentInv

\* A lock that is free and taken.
LEMMA TakeEffect ==
  ASSUME TypeOK, NEW k \in Keys, NEW mode \in {"read", "write"}, Free(lk, k, mode)
  PROVE  /\ Take(lk, k, mode) \in [Keys -> -1 .. MaxReaders]
         /\ \A j \in Keys : j # k => Take(lk, k, mode)[j] = lk[j]
         /\ mode = "read" => lk[k] \in Nat /\ lk[k] < MaxReaders /\ Take(lk, k, mode)[k] = lk[k] + 1
         /\ mode = "write" => lk[k] = 0 /\ Take(lk, k, mode)[k] = -1
<1>1. lk \in [Keys -> -1 .. MaxReaders] /\ MaxReaders \in Nat
  BY BoundsAssumption, Zenon DEF TypeOK
<1> QED BY <1>1 DEF Take, Free

\* The lock is taken for no work request, and has no owner.
LEMMA TakenAlone ==
  ASSUME IInv, NEW k \in Keys, NEW mode \in {"read", "write"}, Free(lk, k, mode),
         lk' = Take(lk, k, mode), present' = present \cup {k}, val' \in [Keys -> Values],
         UNCHANGED <<outstanding, work, deferred, explicit, shared>>
  PROVE  StoreInv'
<1>1. TypeOK /\ LockInv /\ PresentInv
  BY Parts, Zenon
<1>2. /\ lk' \in [Keys -> -1 .. MaxReaders]
      /\ \A j \in Keys : j # k => lk'[j] = lk[j]
      /\ mode = "read" => lk[k] \in Nat /\ lk'[k] = lk[k] + 1
      /\ mode = "write" => lk[k] = 0 /\ lk'[k] = -1
  BY <1>1, TakeEffect, Zenon
<1>3. ASSUME NEW j \in Keys
      PROVE  Backed(lk'[j], Writers(j)', explicit'[j], Readers(j)', shared'[j])
  <2>1. Writers(j)' = Writers(j) /\ Readers(j)' = Readers(j) /\ explicit'[j] = explicit[j] /\ shared'[j] = shared[j]
    BY Zenon DEF Writers, Readers
  <2>2. Backed(lk[j], Writers(j), explicit[j], Readers(j), shared[j])
    BY <1>1, Zenon DEF LockInv
  <2>3. shared[j] \in Nat /\ Readers(j) \subseteq Works
    BY <1>1, LockTypes, Zenon
  <2>4. CASE j # k
    BY <1>2, <2>1, <2>2, <2>4, Zenon
  <2>5. CASE j = k /\ mode = "read"
    <3>1. Backed(lk[j] + 1, Writers(j), explicit[j], Readers(j), shared[j])
      BY <1>2, <2>2, <2>3, <2>5, ReadTaken, Zenon
    <3> QED BY <1>2, <2>1, <2>5, <3>1, Zenon
  <2>6. CASE j = k /\ mode = "write"
    <3>1. Backed(0, Writers(j), explicit[j], Readers(j), shared[j])
      BY <1>2, <2>2, <2>6, Zenon
    <3>2. Backed(-1, Writers(j), explicit[j], Readers(j), shared[j])
      BY <2>3, <3>1, WriteTaken, Zenon
    <3> QED BY <1>2, <2>1, <2>6, <3>2, Zenon
  <2> QED BY <2>4, <2>5, <2>6, Zenon
<1>4. LockInv'
  BY <1>3, Zenon DEF LockInv
<1>5. PresentInv'
  BY <1>1, <1>2, Zenon DEF PresentInv
<1>6. StoreTypes'
  BY <1>1, <1>2, Zenon DEF StoreTypes, TypeOK
<1> QED BY <1>4, <1>5, <1>6, Zenon DEF StoreInv

\* The lock is taken, and will be released when the work request completes.
LEMMA TakenBySend ==
  ASSUME IInv, NEW k \in Keys, NEW mode \in {"read", "write"}, Free(lk, k, mode),
         lk' = Take(lk, k, mode), present' = present \cup {k}, val' \in [Keys -> Values],
         NEW w, NEW c, NEW kind, Send(w, c, k, mode, kind),
         UNCHANGED <<deferred, explicit, shared>>
  PROVE  StoreInv'
<1>1. TypeOK /\ LockInv /\ PresentInv /\ SlotInv /\ deferred' = deferred
  BY Parts, Zenon
<1>2. /\ lk' \in [Keys -> -1 .. MaxReaders]
      /\ \A j \in Keys : j # k => lk'[j] = lk[j]
      /\ mode = "read" => lk[k] \in Nat /\ lk'[k] = lk[k] + 1
      /\ mode = "write" => lk[k] = 0 /\ lk'[k] = -1
  BY <1>1, TakeEffect, Zenon
<1>3. ASSUME NEW j \in Keys
      PROVE  Backed(lk'[j], Writers(j)', explicit'[j], Readers(j)', shared'[j])
  <2>1. /\ w \in Works /\ w \notin Readers(j)
        /\ Readers(j)' = IF mode = "read" /\ j = k THEN Readers(j) \cup {w} ELSE Readers(j)
        /\ Writers(j)' = IF mode = "write" /\ j = k THEN Writers(j) \cup {w} ELSE Writers(j)
    BY <1>1, SendEffect
  <2>2. Backed(lk[j], Writers(j), explicit[j], Readers(j), shared[j])
    BY <1>1, Zenon DEF LockInv
  <2>3. shared[j] \in Nat /\ Readers(j) \subseteq Works
    BY <1>1, LockTypes, Zenon
  <2>4. CASE j # k
    BY <1>2, <2>1, <2>2, <2>4, Zenon
  <2>5. CASE j = k /\ mode = "read"
    <3>1. Backed(lk[j] + 1, Writers(j), explicit[j], Readers(j) \cup {w}, shared[j])
      BY <1>2, <2>1, <2>2, <2>3, <2>5, ReadTaken, Zenon
    <3> QED BY <1>2, <2>1, <2>5, <3>1, Zenon
  <2>6. CASE j = k /\ mode = "write"
    <3>1. Backed(0, Writers(j), explicit[j], Readers(j), shared[j])
      BY <1>2, <2>2, <2>6, Zenon
    <3>2. Backed(-1, Writers(j) \cup {w}, explicit[j], Readers(j), shared[j])
      BY <2>3, <3>1, WriteTaken, Zenon
    <3> QED BY <1>2, <2>1, <2>6, <3>2, Zenon
  <2> QED BY <2>4, <2>5, <2>6, Zenon
<1>4. LockInv'
  BY <1>3, Zenon DEF LockInv
<1>5. PresentInv'
  BY <1>1, <1>2, Zenon DEF PresentInv
<1>6. StoreTypes'
  BY <1>1, <1>2, Zenon DEF StoreTypes, TypeOK
<1> QED BY <1>4, <1>5, <1>6, Zenon DEF StoreInv

\* No lock is taken; pairs that are not locked come and go.
LEMMA LocksKept ==
  ASSUME IInv, UNCHANGED <<lk, deferred, explicit, shared>>, val' \in [Keys -> Values], present' \subseteq Keys,
         \A k \in Keys : k \in present /\ k \notin present' => lk[k] = 0,
         \A k \in Keys : Readers(k)' = Readers(k) /\ Writers(k)' = Writers(k)
  PROVE  StoreInv'
<1>1. TypeOK /\ LockInv /\ PresentInv
  BY Parts, Zenon
<1>2. LockInv'
  BY <1>1, Zenon DEF LockInv
<1>3. PresentInv'
  BY <1>1, Zenon DEF PresentInv
<1>4. StoreTypes'
  BY <1>1, Zenon DEF StoreTypes, TypeOK
<1> QED BY <1>2, <1>3, <1>4, Zenon DEF StoreInv

\* A message is handled and a client answered, or left to wait, without a work request.
LEMMA ReplyStep ==
  ASSUME IInv, NEW c \in Clients, NEW s \in {"ok", "error", "waiting"}, Ready(c), Answer(c, s),
         UNCHANGED <<works, plugin, done, status, shared, sending, signals>>, alive' \in BOOLEAN,
         StoreInv'
  PROVE  IInv'
<1>1. /\ TypeOK /\ SlotInv /\ SharedInv /\ QueueInv /\ DoneInv /\ ApartInv /\ AnswerInv
  BY Parts, Zenon
<1>2. StoreTypes' /\ LockInv' /\ PresentInv'
  BY Zenon DEF StoreInv
<1>3. /\ outstanding' = outstanding /\ work' = work /\ queue' = queue /\ deferred' = deferred /\ life' = life
      /\ explicit' = explicit /\ done' = done /\ status' = status /\ shared' = shared /\ sending' = sending
      /\ signals' = signals
  BY Zenon DEF works, plugin
<1>4. SlotTypes /\ PluginTypes /\ ShardTypes /\ ClientTypes
  BY <1>1, TypeParts, Zenon
<1>5. SlotTypes' /\ PluginTypes' /\ ShardTypes'
  BY <1>3, <1>4, Zenon DEF SlotTypes, PluginTypes, ShardTypes
<1>6. req' = [req EXCEPT ![c] = s] /\ connected' = connected
  BY Zenon DEF Answer
<1>7. ClientTypes'
  BY <1>4, <1>6, Zenon DEF ClientTypes
<1>8. SlotInv' /\ SharedInv' /\ QueueInv' /\ DoneInv' /\ ApartInv'
  <2>1. SlotInv' /\ SharedInv'
    BY <1>1, <1>3, Zenon DEF SlotInv, SharedInv, SendingOf, Getting
  <2>2. QueueInv' /\ DoneInv' /\ ApartInv'
    BY <1>1, <1>3, Zenon DEF QueueInv, DoneInv, ApartInv
  <2> QED BY <2>1, <2>2, Zenon
<1>9. \A d \in Clients : req[d] = "waiting" => req'[d] = "waiting"
  BY <1>4, <1>6, Zenon DEF Ready, ClientTypes
<1>10. \A w \in outstanding : Waits(w) => work[w].handler \in Clients
  BY <1>1, WorkTypes, Zenon DEF Waits
<1>11. AnswerInv'
  BY <1>1, <1>3, <1>9, <1>10, ZenonT(60) DEF AnswerInv, Waits
<1>12. TypeOK'
  BY <1>2, <1>5, <1>7, TypeParts, Zenon
<1> QED BY <1>2, <1>8, <1>11, <1>12, Parts, Zenon

\* A work request at the end of the queue.
LEMMA QueueGrows ==
  ASSUME TypeOK, QueueInv, DoneInv, ApartInv, NEW w \in Works, w \notin outstanding,
         outstanding' = outstanding \cup {w}, queue' = Append(queue, w), done' = done
  PROVE  QueueInv' /\ DoneInv' /\ ApartInv' /\ queue' \in Seq(Works)
<1>1. queue \in Seq(Works) /\ done \in Seq(Works)
  BY Zenon DEF TypeOK
<1>2. /\ queue' \in Seq(Works) /\ Len(queue) \in Nat /\ Len(queue') = Len(queue) + 1
      /\ queue'[Len(queue) + 1] = w /\ \A i \in 1 .. Len(queue) : queue'[i] = queue[i]
  BY <1>1
<1>3. \A i \in 1 .. Len(queue') : i \in 1 .. Len(queue) \/ i = Len(queue) + 1
  BY <1>2
<1>4. QueueInv'
  BY <1>2, <1>3 DEF QueueInv
<1>5. DoneInv'
  BY Zenon DEF DoneInv
<1>6. ApartInv'
  BY <1>2, <1>3 DEF ApartInv, DoneInv
<1> QED BY <1>2, <1>4, <1>5, <1>6, Zenon

\* A message is handled by a work request: its client waits, or nobody does.
LEMMA SendStep ==
  ASSUME IInv, NEW c \in Clients, NEW s \in {"ok", "error", "waiting"}, Ready(c), Answer(c, s),
         NEW w, NEW k \in Keys \cup {NoKey}, NEW mode \in {"none", "read", "write"},
         NEW kind \in {"sync", "async", "io", "value"}, Send(w, c, k, mode, kind),
         mode # "none" => k \in Keys, kind = "value" => mode = "read", kind # "async" => s = "waiting",
         UNCHANGED <<plugin, done, status, sending, alive, signals>>,
         StoreInv', SharedInv', shared' \in [Keys -> 0 .. MaxReaders]
  PROVE  IInv'
<1>1. /\ TypeOK /\ SlotInv /\ QueueInv /\ DoneInv /\ ApartInv /\ AnswerInv
  BY Parts, Zenon
<1>2. StoreTypes' /\ LockInv' /\ PresentInv'
  BY Zenon DEF StoreInv
<1>3. /\ deferred' = deferred /\ life' = life /\ explicit' = explicit
      /\ done' = done /\ status' = status /\ sending' = sending /\ alive' = alive /\ signals' = signals
  BY Zenon DEF plugin
<1>4. SlotTypes /\ PluginTypes /\ ShardTypes /\ ClientTypes
  BY <1>1, TypeParts, Zenon
<1>5. /\ w \in Works /\ w \notin outstanding /\ outstanding' = outstanding \cup {w} /\ queue' = Append(queue, w)
      /\ work' = [work EXCEPT ![w] = [handler |-> c, key |-> k, lock |-> mode, kind |-> kind]]
  BY Zenon DEF Send
<1>6. req' = [req EXCEPT ![c] = s] /\ connected' = connected
  BY Zenon DEF Answer
<1>7. QueueInv' /\ DoneInv' /\ ApartInv' /\ queue' \in Seq(Works)
  BY <1>1, <1>3, <1>5, QueueGrows, Zenon
<1>8. /\ work'[w].handler = c /\ work'[w].key = k /\ work'[w].lock = mode /\ work'[w].kind = kind
      /\ \A u \in outstanding : u # w /\ work'[u] = work[u]
      /\ work' \in [Works -> WorkRecord]
  <2>1. [handler |-> c, key |-> k, lock |-> mode, kind |-> kind] \in WorkRecord
    BY Zenon DEF WorkRecord
  <2>2. work \in [Works -> WorkRecord] /\ outstanding \subseteq Works
    BY <1>4, Zenon DEF SlotTypes
  <2>3. work'[w] = [handler |-> c, key |-> k, lock |-> mode, kind |-> kind]
    BY <1>5, <2>2, Zenon
  <2>4. work' \in [Works -> WorkRecord] /\ \A u \in outstanding : u # w /\ work'[u] = work[u]
    BY <1>5, <2>1, <2>2, Zenon
  <2> QED BY <2>3, <2>4
<1>9. SlotTypes' /\ PluginTypes' /\ ShardTypes'
  BY <1>3, <1>4, <1>5, <1>7, <1>8, Zenon DEF SlotTypes, PluginTypes, ShardTypes
<1>10. ClientTypes'
  BY <1>4, <1>6, Zenon DEF ClientTypes
<1>11. SlotInv'
  BY <1>1, <1>3, <1>5, <1>8, ZenonT(60) DEF SlotInv
<1>12. (\A d \in Clients : d # c => req'[d] = req[d]) /\ req'[c] = s /\ req[c] # "waiting" /\ c # NoClient
  BY <1>4, <1>6, ClientsAssumption, Zenon DEF Ready, ClientTypes
<1>13. \A u \in outstanding : Waits(u) => work[u].handler \in Clients /\ work[u].handler # c
  BY <1>1, <1>12, WorkTypes, ZenonT(60) DEF Waits, AnswerInv
<1>14. AnswerInv'
  BY <1>1, <1>5, <1>8, <1>12, <1>13 DEF AnswerInv, Waits
<1>15. TypeOK'
  BY <1>2, <1>9, <1>10, TypeParts, Zenon
<1> QED BY <1>2, <1>7, <1>11, <1>14, <1>15, Parts, Zenon

\* Values on their way are those of before.
LEMMA SharedKept ==
  ASSUME IInv, NEW w, NEW c, NEW k, NEW mode, NEW kind, Send(w, c, k, mode, kind), kind # "value",
         deferred' = deferred, sending' = sending, shared' = shared
  PROVE  SharedInv' /\ shared' \in [Keys -> 0 .. MaxReaders]
<1>1. TypeOK /\ SlotInv /\ SharedInv /\ LargeKeys \subseteq Keys
  BY Parts, KeysAssumption, Zenon
<1>2. \A j \in LargeKeys : Getting(j)' = Getting(j)
  BY <1>1, SendEffect
<1>3. SharedInv'
  BY <1>1, <1>2, Zenon DEF SharedInv, SendingOf
<1> QED BY <1>1, <1>3, Zenon DEF TypeOK

\* The three ways to handle a message: lock and send, lock only, and neither.
LEMMA SentAction ==
  ASSUME IInv, NEW c \in Clients, NEW s \in {"ok", "error", "waiting"}, Ready(c), Answer(c, s),
         NEW w, NEW k \in Keys, NEW mode \in {"read", "write"}, NEW kind \in {"sync", "async", "io"},
         Send(w, c, k, mode, kind), kind # "async" => s = "waiting",
         Free(lk, k, mode), lk' = Take(lk, k, mode), present' = present \cup {k}, val' \in [Keys -> Values],
         UNCHANGED <<plugin, rest>>
  PROVE  IInv'
<1>1. /\ deferred' = deferred /\ explicit' = explicit /\ shared' = shared /\ sending' = sending
      /\ UNCHANGED <<plugin, done, status, sending, alive, signals>> /\ UNCHANGED <<deferred, explicit, shared>>
  BY Zenon DEF plugin, rest
<1>2. StoreInv'
  BY <1>1, TakenBySend, Zenon
<1>3. SharedInv' /\ shared' \in [Keys -> 0 .. MaxReaders]
  <2>1. kind # "value"
    BY Zenon
  <2> QED BY <1>1, <2>1, SharedKept, Zenon
<1>4. /\ k \in Keys \cup {NoKey} /\ mode \in {"none", "read", "write"} /\ kind \in {"sync", "async", "io", "value"}
      /\ (mode # "none" => k \in Keys) /\ (kind = "value" => mode = "read")
  BY Zenon
<1> QED BY <1>1, <1>2, <1>3, <1>4, SendStep, ZenonT(60)

\* A handler that locks a free pair for the plugin or a read and answers.
LEMMA TakenAction ==
  ASSUME IInv, NEW c \in Clients, NEW s \in {"ok", "error", "waiting"}, Ready(c), Answer(c, s),
         NEW k \in Keys, NEW mode \in {"read", "write"},
         Free(lk, k, mode), lk' = Take(lk, k, mode), present' = present \cup {k}, val' \in [Keys -> Values],
         UNCHANGED <<works, plugin, done, status, shared, sending, signals>>, alive' \in BOOLEAN
  PROVE  IInv'
<1>1. UNCHANGED <<outstanding, work, deferred, explicit, shared>>
  BY Zenon DEF works, plugin
<1>2. StoreInv'
  BY <1>1, TakenAlone, Zenon
<1> QED BY <1>2, ReplyStep, Zenon

\* A handler that changes values, and takes out only pairs that are not locked.
LEMMA FreeAction ==
  ASSUME IInv, NEW c \in Clients, NEW s \in {"ok", "error", "waiting"}, Ready(c), Answer(c, s),
         lk' = lk, val' \in [Keys -> Values], present' \subseteq Keys,
         \A k \in Keys : k \in present /\ k \notin present' => lk[k] = 0,
         UNCHANGED <<works, plugin, done, status, shared, sending, signals>>, alive' \in BOOLEAN
  PROVE  IInv'
<1>1. outstanding' = outstanding /\ work' = work /\ UNCHANGED <<lk, deferred, explicit, shared>> /\ deferred' = deferred
  BY Zenon DEF works, plugin
<1>2. \A k \in Keys : Readers(k)' = Readers(k) /\ Writers(k)' = Writers(k)
  BY <1>1, Zenon DEF Readers, Writers
<1>3. StoreInv'
  BY <1>1, <1>2, LocksKept, Zenon
<1> QED BY <1>3, ReplyStep, Zenon

\* A message that is refused, or never answered, changes nothing else.
LEMMA RefusedInv ==
  ASSUME IInv, NEW c \in Clients, NEW s \in {"ok", "error", "waiting"}, Ready(c), Answer(c, s),
         UNCHANGED <<store, works, plugin, done, status, shared, sending, signals>>, alive' \in BOOLEAN
  PROVE  IInv'
<1>1. lk' = lk /\ val' = val /\ present' = present
  BY Zenon DEF store
<1>2. val \in [Keys -> Values] /\ present \subseteq Keys
  BY Parts, Zenon DEF TypeOK
<1>3. UNCHANGED <<works, plugin, done, status, shared, sending, signals>>
  BY Zenon
<1> QED BY <1>1, <1>2, <1>3, FreeAction, Zenon

\* What most handlers have to show about values, and about the rest of the state.
LEMMA ValueTypes ==
  ASSUME IInv
  PROVE  /\ val \in [Keys -> Values] /\ present \subseteq Keys /\ alive \in BOOLEAN
         /\ \A k \in Keys, v \in Values : [val EXCEPT ![k] = v] \in [Keys -> Values]
<1>1. val \in [Keys -> Values] /\ present \subseteq Keys /\ alive \in BOOLEAN
  BY Parts, Zenon DEF TypeOK
<1> QED BY <1>1, Zenon

\* What the handlers of plain requests leave alone.
LEMMA RestParts ==
  ASSUME IInv, UNCHANGED <<plugin, rest>>
  PROVE  UNCHANGED <<plugin, done, status, shared, sending, signals>> /\ alive' \in BOOLEAN
BY ValueTypes, Zenon DEF rest

\* invoke_ado
LEMMA InvokeInv ==
  ASSUME IInv, NEW c \in Clients, NEW k \in Keys, NEW read_only \in BOOLEAN, NEW create \in BOOLEAN,
         NEW async \in Asyncs,
         \/ \E w \in Works : InvokeAdo(c, k, w, read_only, async, create)
         \/ InvokeAdoExhausted(c, k, read_only, async, create)
  PROVE  IInv'
<1> DEFINE s == IF async THEN "ok" ELSE "waiting"
           kind == IF async THEN "async" ELSE "sync"
           mode == Mode(read_only)
<1>1. /\ mode \in {"read", "write"} /\ s \in {"ok", "error", "waiting"} /\ kind \in {"sync", "async", "io"}
      /\ kind # "async" => s = "waiting"
  BY Zenon DEF Mode
<1> HIDE DEF s, kind, mode
<1>2. val \in [Keys -> Values]
  BY ValueTypes, Zenon
<1>3. ASSUME NEW w \in Works, InvokeAdo(c, k, w, read_only, async, create) PROVE IInv'
  <2>1. /\ Ready(c) /\ Free(lk, k, mode) /\ lk' = Take(lk, k, mode) /\ present' = present \cup {k}
        /\ Send(w, c, k, mode, kind) /\ Answer(c, s) /\ val' = val /\ UNCHANGED <<plugin, rest>>
    BY <1>3, Zenon DEF InvokeAdo, CanLock, mode, s, kind
  <2> QED BY <1>1, <1>2, <2>1, SentAction, Zenon
<1>4. ASSUME InvokeAdoExhausted(c, k, read_only, async, create) PROVE IInv'
  <2>1. /\ Ready(c) /\ Free(lk, k, mode) /\ lk' = Take(lk, k, mode) /\ present' = present \cup {k}
        /\ Answer(c, s) /\ val' = val /\ UNCHANGED works /\ UNCHANGED <<plugin, rest>>
    BY <1>4, Zenon DEF InvokeAdoExhausted, CanLock, mode, s
  <2>2. UNCHANGED <<works, plugin, done, status, shared, sending, signals>> /\ alive' \in BOOLEAN
    BY <2>1, RestParts, Zenon
  <2> QED BY <1>1, <1>2, <2>1, <2>2, TakenAction, Zenon
<1> QED BY <1>3, <1>4, Zenon

\* An invocation without a key, and the signal after an erase, lock nothing.
LEMMA UnlockedSend ==
  ASSUME IInv, NEW c \in Clients, NEW s \in {"ok", "error", "waiting"}, Ready(c), Answer(c, s),
         NEW w, NEW k \in Keys \cup {NoKey}, NEW kind \in {"sync", "async"}, Send(w, c, k, "none", kind),
         kind # "async" => s = "waiting", lk' = lk, val' = val, present' \subseteq Keys,
         \A j \in Keys : j \in present /\ j \notin present' => lk[j] = 0,
         UNCHANGED <<plugin, rest>>
  PROVE  IInv'
<1>1. /\ deferred' = deferred /\ explicit' = explicit /\ shared' = shared /\ sending' = sending
      /\ UNCHANGED <<plugin, done, status, sending, alive, signals>> /\ UNCHANGED <<lk, deferred, explicit, shared>>
  BY Zenon DEF plugin, rest
<1>2. TypeOK /\ SlotInv /\ val' \in [Keys -> Values]
  BY Parts, ValueTypes, Zenon
<1>3. \A j \in Keys : Readers(j)' = Readers(j) /\ Writers(j)' = Writers(j)
  BY <1>1, <1>2, SendEffect
<1>4. StoreInv'
  BY <1>1, <1>2, <1>3, LocksKept, Zenon
<1>5. kind # "value" /\ kind \in {"sync", "async", "io", "value"} /\ "none" \in {"none", "read", "write"}
  BY Zenon
<1>6. SharedInv' /\ shared' \in [Keys -> 0 .. MaxReaders]
  BY <1>1, <1>5, SharedKept, Zenon
<1> QED BY <1>1, <1>4, <1>5, <1>6, SendStep, Zenon

\* invoke_ado without a key.
LEMMA KeylessInv ==
  ASSUME IInv, NEW c \in Clients, NEW w \in Works, NEW async \in Asyncs, InvokeAdoKeyless(c, w, async)
  PROVE  IInv'
<1> DEFINE s == IF async THEN "ok" ELSE "waiting"
           kind == IF async THEN "async" ELSE "sync"
<1>1. s \in {"ok", "error", "waiting"} /\ kind \in {"sync", "async"} /\ (kind # "async" => s = "waiting")
  BY Zenon
<1>2. /\ Ready(c) /\ Send(w, c, NoKey, "none", kind) /\ Answer(c, s)
      /\ lk' = lk /\ val' = val /\ present' = present /\ UNCHANGED <<plugin, rest>>
  BY Zenon DEF InvokeAdoKeyless, store
<1> HIDE DEF s, kind
<1>3. NoKey \in Keys \cup {NoKey} /\ present' \subseteq Keys
  BY <1>2, ValueTypes, Zenon
<1> QED BY <1>1, <1>2, <1>3, UnlockedSend, Zenon

\* invoke_put_ado
LEMMA PutAdoInv ==
  ASSUME IInv, NEW c \in Clients, NEW k \in Keys, NEW v \in Values, NEW keep \in BOOLEAN,
         \/ \E w \in Works, async \in Asyncs : PutAdo(c, k, v, w, keep, async)
         \/ PutAdoThrows(c, k, keep)
         \/ PutAdoExhausted(c, k, v)
  PROVE  IInv'
<1>1. "write" \in {"read", "write"} /\ "waiting" \in {"ok", "error", "waiting"} /\ FALSE \in BOOLEAN
  BY Zenon
<1>2. val \in [Keys -> Values] /\ [val EXCEPT ![k] = v] \in [Keys -> Values]
  BY ValueTypes, Zenon
<1>3. ASSUME NEW w \in Works, NEW async \in Asyncs, PutAdo(c, k, v, w, keep, async) PROVE IInv'
  <2> DEFINE s == IF async THEN "ok" ELSE "waiting"
             kind == IF async THEN "async" ELSE "sync"
  <2>1. s \in {"ok", "error", "waiting"} /\ kind \in {"sync", "async", "io"} /\ (kind # "async" => s = "waiting")
    BY Zenon
  <2>2. /\ Ready(c) /\ Free(lk, k, "write") /\ lk' = Take(lk, k, "write") /\ present' = present \cup {k}
        /\ Send(w, c, k, "write", kind) /\ Answer(c, s) /\ UNCHANGED <<plugin, rest>>
    BY <1>3, Zenon DEF PutAdo, CanLock
  <2>3. val' \in [Keys -> Values]
    BY <1>2, <1>3, Zenon DEF PutAdo
  <2> HIDE DEF s, kind
  <2> QED BY <1>1, <2>1, <2>2, <2>3, SentAction, Zenon
<1>4. ASSUME PutAdoThrows(c, k, keep) PROVE IInv'
  <2>1. /\ Ready(c) /\ Answer(c, "waiting") /\ alive' \in BOOLEAN
        /\ UNCHANGED <<store, works, plugin, done, status, shared, sending, signals>>
    BY <1>1, <1>4, Zenon DEF PutAdoThrows
  <2> QED BY <1>1, <2>1, RefusedInv, Zenon
<1>5. ASSUME PutAdoExhausted(c, k, v) PROVE IInv'
  <2>1. /\ Ready(c) /\ Free(lk, k, "write") /\ lk' = Take(lk, k, "write") /\ present' = present \cup {k}
        /\ Answer(c, "waiting") /\ alive' \in BOOLEAN
        /\ UNCHANGED <<works, plugin, done, status, shared, sending, signals>>
    BY <1>1, <1>5, Zenon DEF PutAdoExhausted, CanLock
  <2>2. val' \in [Keys -> Values]
    BY <1>2, <1>5, Zenon DEF PutAdoExhausted
  <2> QED BY <1>1, <2>1, <2>2, TakenAction, Zenon
<1> QED BY <1>3, <1>4, <1>5, Zenon

\* invoke_put_ado with a detached value.
LEMMA DetachedInv ==
  ASSUME IInv, NEW c \in Clients, NEW k \in Keys,
         \/ \E w \in Works, root \in BOOLEAN, async \in Asyncs : PutAdoDetached(c, k, w, root, async)
         \/ PutAdoOutOfMemory(c, k)
  PROVE  IInv'
<1>1. "write" \in {"read", "write"} /\ "error" \in {"ok", "error", "waiting"}
  BY Zenon
<1>2. val \in [Keys -> Values]
  BY ValueTypes, Zenon
<1>3. ASSUME NEW w \in Works, NEW root \in BOOLEAN, NEW async \in Asyncs, PutAdoDetached(c, k, w, root, async)
      PROVE  IInv'
  <2> DEFINE s == IF async THEN "ok" ELSE "waiting"
             kind == IF async THEN "async" ELSE "sync"
  <2>1. s \in {"ok", "error", "waiting"} /\ kind \in {"sync", "async", "io"} /\ (kind # "async" => s = "waiting")
    BY Zenon
  <2>2. /\ Ready(c) /\ Free(lk, k, "write") /\ lk' = Take(lk, k, "write") /\ present' = present \cup {k}
        /\ Send(w, c, k, "write", kind) /\ Answer(c, s) /\ val' = val /\ UNCHANGED <<plugin, rest>>
    BY <1>3, Zenon DEF PutAdoDetached, CanLock
  <2> HIDE DEF s, kind
  <2> QED BY <1>1, <1>2, <2>1, <2>2, SentAction, Zenon
<1>4. ASSUME PutAdoOutOfMemory(c, k) PROVE IInv'
  <2>1. /\ Ready(c) /\ Free(lk, k, "write") /\ lk' = Take(lk, k, "write") /\ present' = present \cup {k}
        /\ Answer(c, "error") /\ val' = val /\ UNCHANGED works /\ UNCHANGED <<plugin, rest>>
    BY <1>4, Zenon DEF PutAdoOutOfMemory, CanLock
  <2>2. UNCHANGED <<works, plugin, done, status, shared, sending, signals>> /\ alive' \in BOOLEAN
    BY <2>1, RestParts, Zenon
  <2> QED BY <1>1, <1>2, <2>1, <2>2, TakenAction, Zenon
<1> QED BY <1>3, <1>4, Zenon

\* put, with and without its signal
LEMMA PutInv ==
  ASSUME IInv, NEW c \in Clients, NEW k \in Keys, NEW v \in Values,
         Put(c, k, v) \/ \E w \in Works : PutSignal(c, k, v, w)
  PROVE  IInv'
<1>1. /\ "read" \in {"read", "write"} /\ {"waiting", "ok"} \subseteq {"ok", "error", "waiting"}
      /\ "io" \in {"sync", "async", "io"}
  BY Zenon
<1>2. val \in [Keys -> Values] /\ [val EXCEPT ![k] = v] \in [Keys -> Values] /\ present \subseteq Keys
  BY ValueTypes, Zenon
<1>3. ASSUME Put(c, k, v) PROVE IInv'
  <2>1. /\ Ready(c) /\ Answer(c, "ok") /\ lk' = lk /\ UNCHANGED works /\ UNCHANGED <<plugin, rest>>
        /\ present' = present \cup {k} /\ val' \in [Keys -> Values]
    BY <1>2, <1>3, Zenon DEF Put
  <2>2. present' \subseteq Keys /\ \A j \in Keys : j \in present /\ j \notin present' => lk[j] = 0
    BY <1>2, <2>1, Zenon
  <2>3. UNCHANGED <<works, plugin, done, status, shared, sending, signals>> /\ alive' \in BOOLEAN
    BY <2>1, RestParts, Zenon
  <2> QED BY <1>1, <2>1, <2>2, <2>3, FreeAction, Zenon
<1>4. ASSUME NEW w \in Works, PutSignal(c, k, v, w) PROVE IInv'
  <2>1. /\ Ready(c) /\ Free(lk, k, "read") /\ lk' = Take(lk, k, "read") /\ present' = present \cup {k}
        /\ Send(w, c, k, "read", "io") /\ Answer(c, "waiting") /\ UNCHANGED <<plugin, rest>>
    BY <1>4, Zenon DEF PutSignal
  <2>2. val' \in [Keys -> Values]
    BY <1>2, <1>4, Zenon DEF PutSignal
  <2> QED BY <1>1, <2>1, <2>2, SentAction, Zenon
<1> QED BY <1>3, <1>4, Zenon

\* erase, with and without its signal, and ADO_FLAG_CREATE_ONLY
LEMMA EraseInv ==
  ASSUME IInv, NEW c \in Clients, NEW k \in Keys,
         Erase(c, k) \/ InvokeAdoCreateOnly(c, k) \/ \E w \in Works : EraseSignal(c, k, w)
  PROVE  IInv'
<1>1. "ok" \in {"ok", "error", "waiting"} /\ "async" \in {"sync", "async"} /\ k \in Keys \cup {NoKey}
  BY Zenon
<1>2. val \in [Keys -> Values] /\ present \subseteq Keys
  BY ValueTypes, Zenon
<1>3. ASSUME Erase(c, k) \/ InvokeAdoCreateOnly(c, k) PROVE IInv'
  <2>1. /\ Ready(c) /\ Answer(c, "ok") /\ lk' = lk /\ val' = val /\ UNCHANGED works /\ UNCHANGED <<plugin, rest>>
        /\ present' \subseteq Keys /\ \A j \in Keys : j \in present /\ j \notin present' => lk[j] = 0
    BY <1>2, <1>3, Zenon DEF Erase, InvokeAdoCreateOnly
  <2>2. UNCHANGED <<works, plugin, done, status, shared, sending, signals>> /\ alive' \in BOOLEAN
    BY <2>1, RestParts, Zenon
  <2> QED BY <1>1, <1>2, <2>1, <2>2, FreeAction, ZenonT(60)
<1>4. ASSUME NEW w \in Works, EraseSignal(c, k, w) PROVE IInv'
  <2> DEFINE s == IF lk[k] = 0 THEN "ok" ELSE "error"
  <2>1. s \in {"ok", "error", "waiting"} /\ ("async" # "async" => s = "waiting")
    BY Zenon
  <2>2. /\ Ready(c) /\ Send(w, c, k, "none", "async") /\ Answer(c, s) /\ lk' = lk /\ val' = val
        /\ UNCHANGED <<plugin, rest>>
    BY <1>4, Zenon DEF EraseSignal
  <2>3. present' \subseteq Keys /\ \A j \in Keys : j \in present /\ j \notin present' => lk[j] = 0
    BY <1>2, <1>4, ZenonT(60) DEF EraseSignal
  <2> HIDE DEF s
  <2> QED BY <1>1, <2>1, <2>2, <2>3, UnlockedSend, ZenonT(60)
<1> QED BY <1>3, <1>4, Zenon

\* get with its signal: one lock for the work request, and one for the value to be sent
LEMMA GetInv ==
  ASSUME IInv, NEW c \in Clients, NEW k \in Keys, NEW w \in Works, GetSignal(c, k, w)
  PROVE  IInv'
<1>1. TypeOK /\ LockInv /\ PresentInv /\ SlotInv /\ SharedInv /\ LargeKeys \subseteq Keys
  BY Parts, KeysAssumption, Zenon
<1>2. /\ Ready(c) /\ k \in present /\ Free(lk, k, "read") /\ Send(w, c, k, "read", "value")
      /\ Answer(c, "waiting") /\ val' = val /\ present' = present
      /\ UNCHANGED <<plugin, done, status, sending, alive, signals>>
  BY Zenon DEF GetSignal, CanLock
<1>3. deferred' = deferred /\ explicit' = explicit /\ sending' = sending /\ val' \in [Keys -> Values]
  BY <1>2, ValueTypes, Zenon DEF plugin
<1>4. \A j \in Keys : /\ w \in Works /\ w \notin Readers(j)
                      /\ Readers(j)' = IF j = k THEN Readers(j) \cup {w} ELSE Readers(j)
                      /\ Writers(j)' = Writers(j)
                      /\ Getting(j)' = IF j = k THEN Getting(j) \cup {w} ELSE Getting(j)
  BY <1>1, <1>2, <1>3, SendEffect
<1>5. /\ "waiting" \in {"ok", "error", "waiting"} /\ k \in Keys \cup {NoKey}
      /\ "read" \in {"none", "read", "write"} /\ "value" \in {"sync", "async", "io", "value"}
  BY Zenon
<1>6. w \notin outstanding /\ \A j \in Keys : w \notin Getting(j)
  BY <1>2, Zenon DEF Send, Getting
<1>7. ASSUME k \notin LargeKeys PROVE IInv'
  <2>1. lk' = Take(lk, k, "read") /\ shared' = shared
    BY <1>7, Zenon DEF GetSignal
  <2>2. present' = present \cup {k} /\ UNCHANGED <<deferred, explicit, shared>> /\ "read" \in {"read", "write"}
    BY <1>2, <1>3, <2>1, Zenon
  <2>3. StoreInv'
    BY <1>2, <1>3, <2>1, <2>2, TakenBySend, ZenonT(60)
  <2>4. \A j \in LargeKeys : Getting(j)' = Getting(j)
    BY <1>1, <1>4, <1>7, ZenonT(60)
  <2>5. SharedInv' /\ shared' \in [Keys -> 0 .. MaxReaders]
    BY <1>1, <1>3, <2>1, <2>4, ZenonT(60) DEF SharedInv, SendingOf, TypeOK
  <2> QED BY <1>2, <1>5, <2>3, <2>5, SendStep, ZenonT(60)
<1>8. ASSUME k \in LargeKeys PROVE IInv'
  <2>1. /\ lk \in [Keys -> -1 .. MaxReaders] /\ shared \in [Keys -> 0 .. MaxReaders]
        /\ MaxReaders \in Nat /\ present \subseteq Keys
    BY <1>1, BoundsAssumption, Zenon DEF TypeOK
  <2>2. /\ lk' = Take(Take(lk, k, "read"), k, "read") /\ Free(Take(lk, k, "read"), k, "read")
        /\ shared' = [shared EXCEPT ![k] = @ + 1]
    BY <1>8, Zenon DEF GetSignal
  <2>3. lk[k] \in Nat /\ lk' \in [Keys -> -1 .. MaxReaders] /\ lk'[k] = lk[k] + 2 /\ \A j \in Keys : j # k => lk'[j] = lk[j]
    BY <1>2, <2>1, <2>2 DEF Free, Take
  <2>4. shared[k] \in Nat /\ shared'[k] = shared[k] + 1 /\ \A j \in Keys : j # k => shared'[j] = shared[j]
    BY <2>1, <2>2
  <2>5. ASSUME NEW j \in Keys
        PROVE  Backed(lk'[j], Writers(j)', explicit'[j], Readers(j)', shared'[j])
    <3>1. Backed(lk[j], Writers(j), explicit[j], Readers(j), shared[j]) /\ Readers(j) \subseteq Works
      BY <1>1, LockTypes, Zenon DEF LockInv
    <3>2. CASE j # k
      BY <1>3, <1>4, <2>3, <2>4, <3>1, <3>2, ZenonT(60)
    <3>3. CASE j = k
      <4>1. Backed(lk[j] + 2, Writers(j), explicit[j], Readers(j) \cup {w}, shared[j] + 1)
        BY <1>4, <2>3, <2>4, <3>1, <3>3, ReadTaken, ZenonT(60)
      <4> QED BY <1>3, <1>4, <2>3, <2>4, <3>3, <4>1, ZenonT(60)
    <3> QED BY <3>2, <3>3, Zenon
  <2>6. LockInv'
    BY <2>5, Zenon DEF LockInv
  <2>7. StoreInv'
    <3>1. PresentInv'
      BY <1>1, <1>2, <2>3, Zenon DEF PresentInv
    <3>2. StoreTypes'
      BY <1>2, <1>3, <2>1, <2>3, ZenonT(60) DEF StoreTypes
    <3> QED BY <2>6, <3>1, <3>2, Zenon DEF StoreInv
  <2>8. shared' \in [Keys -> 0 .. MaxReaders]
    <3>1. Readers(k)' \subseteq Works
      BY <1>1, <1>4, LockTypes, Zenon
    <3>2. Backed(lk'[k], Writers(k)', explicit'[k], Readers(k)', shared'[k])
      BY <2>5, Zenon
    <3>3. lk'[k] \in Int /\ lk'[k] <= MaxReaders /\ shared'[k] \in Nat
      BY <2>1, <2>3, <2>4
    <3>4. shared'[k] > 0 => lk'[k] >= shared'[k]
      BY <3>1, <3>2, <3>3, HolderLocks, ZenonT(60)
    <3> QED BY <2>1, <2>2, <2>4, <3>3, <3>4
  <2>9. SharedInv'
    <3>1. ASSUME NEW j \in LargeKeys PROVE Cardinality(SendingOf(j)') + Cardinality(Getting(j)') <= shared'[j]
      <4>1. j \in Keys /\ SendingOf(j)' = SendingOf(j)
        BY <1>1, <1>3, Zenon DEF SendingOf
      <4>2. Cardinality(SendingOf(j)) + Cardinality(Getting(j)) <= shared[j]
        BY <1>1, Zenon DEF SharedInv
      <4>3. CASE j # k
        BY <1>4, <2>4, <4>1, <4>2, <4>3, ZenonT(60)
      <4>4. CASE j = k
        <5>1. Getting(j) \subseteq Works /\ SendingOf(j) \subseteq Clients
          BY <1>1, <4>1, LockTypes, Zenon
        <5>2. IsFiniteSet(Getting(j)) /\ Cardinality(Getting(j)) \in Nat /\ Cardinality(SendingOf(j)) \in Nat
          BY <5>1, Finite, Zenon
        <5>3. Cardinality(Getting(j) \cup {w}) = Cardinality(Getting(j)) + 1
          BY <1>6, <4>1, <5>2, OneMore, Zenon
        <5>4. Getting(j)' = Getting(j) \cup {w} /\ shared[j] \in Nat /\ shared'[j] = shared[j] + 1
          BY <1>4, <2>4, <4>4, Zenon
        <5>5. Cardinality(Getting(j)') = Cardinality(Getting(j)) + 1
          BY <5>3, <5>4, Zenon
        <5> QED BY <4>1, <4>2, <5>2, <5>4, <5>5, SMTT(60)
      <4> QED BY <4>3, <4>4, Zenon
    <3>2. \A d \in Clients : sending'[d] \in LargeKeys \cup {NoKey}
      BY <1>1, <1>3, Zenon DEF SharedInv
    <3> QED BY <3>1, <3>2, Zenon DEF SharedInv
  <2> QED BY <1>2, <1>5, <2>7, <2>8, <2>9, SendStep, ZenonT(60)
<1> QED BY <1>7, <1>8, Zenon

\* get of a large value without a work request: one lock, for the value that was to be sent
LEMMA KeptInv ==
  ASSUME IInv, NEW c \in Clients, NEW k \in Keys, GetSignalLost(c, k) \/ GetTooLarge(c, k)
  PROVE  IInv'
<1>1. /\ TypeOK /\ LockInv /\ PresentInv /\ SlotInv /\ SharedInv /\ QueueInv /\ DoneInv /\ ApartInv /\ AnswerInv
      /\ LargeKeys \subseteq Keys /\ MaxReaders \in Nat
  BY Parts, KeysAssumption, BoundsAssumption, Zenon
<1>2. /\ Ready(c) /\ k \in present /\ Free(lk, k, "read") /\ KeepLocked(k) /\ val' = val /\ present' = present
      /\ UNCHANGED <<works, plugin, done, status, sending, alive, signals>>
  BY Zenon DEF GetSignalLost, GetTooLarge, CanLock
<1>3. /\ outstanding' = outstanding /\ work' = work /\ queue' = queue /\ deferred' = deferred
      /\ life' = life /\ explicit' = explicit
  BY <1>2, Zenon DEF works, plugin
<1>4. PICK s \in {"ok", "error", "waiting"} : Answer(c, s)
  BY Zenon DEF GetSignalLost, GetTooLarge
<1>5. lk \in [Keys -> -1 .. MaxReaders] /\ shared \in [Keys -> 0 .. MaxReaders]
  BY <1>1, Zenon DEF TypeOK
<1>6. lk[k] \in Nat /\ lk' \in [Keys -> -1 .. MaxReaders] /\ lk'[k] = lk[k] + 1 /\ \A j \in Keys : j # k => lk'[j] = lk[j]
  BY <1>1, <1>2, <1>5 DEF Free, Take, KeepLocked
<1>7. /\ shared[k] \in Nat /\ shared' = [shared EXCEPT ![k] = @ + 1] /\ shared'[k] = shared[k] + 1
      /\ \A j \in Keys : j # k => shared'[j] = shared[j]
  BY <1>1, <1>2, <1>5 DEF KeepLocked
<1>8. \A j \in Keys : Readers(j)' = Readers(j) /\ Writers(j)' = Writers(j)
  BY <1>3, Zenon DEF Readers, Writers
<1>9. LockInv'
  <2>1. ASSUME NEW j \in Keys PROVE Backed(lk'[j], Writers(j)', explicit'[j], Readers(j)', shared'[j])
    <3>1. Backed(lk[j], Writers(j), explicit[j], Readers(j), shared[j]) /\ Readers(j) \subseteq Works
      BY <1>1, LockTypes, Zenon DEF LockInv
    <3>2. CASE j # k
      BY <1>3, <1>6, <1>7, <1>8, <3>1, <3>2, ZenonT(60)
    <3>3. CASE j = k
      <4>1. Backed(lk[j] + 1, Writers(j), explicit[j], Readers(j), shared[j] + 1)
        BY <1>6, <1>7, <3>1, <3>3, ReadTaken, ZenonT(60)
      <4> QED BY <1>3, <1>6, <1>7, <1>8, <3>3, <4>1, ZenonT(60)
    <3> QED BY <3>2, <3>3, Zenon
  <2> QED BY <2>1, Zenon DEF LockInv
<1>10. shared' \in [Keys -> 0 .. MaxReaders]
  <2>1. Readers(k)' \subseteq Works
    BY <1>1, <1>8, LockTypes, Zenon
  <2>2. Backed(lk'[k], Writers(k)', explicit'[k], Readers(k)', shared'[k])
    BY <1>9, Zenon DEF LockInv
  <2>3. lk'[k] \in Int /\ lk'[k] <= MaxReaders /\ shared'[k] \in Nat
    BY <1>1, <1>6, <1>7
  <2>4. shared'[k] > 0 => lk'[k] >= shared'[k]
    BY <2>1, <2>2, <2>3, HolderLocks, ZenonT(60)
  <2>5. shared'[k] \in 0 .. MaxReaders
    BY <1>1, <2>3, <2>4, SMTT(30)
  <2> QED BY <1>5, <1>7, <2>5, ZenonT(60)
<1>11. SharedInv'
  <2>1. ASSUME NEW j \in LargeKeys PROVE Cardinality(SendingOf(j)') + Cardinality(Getting(j)') <= shared'[j]
    <3>1. j \in Keys /\ SendingOf(j)' = SendingOf(j) /\ Getting(j)' = Getting(j)
      BY <1>1, <1>2, <1>3, Zenon DEF SendingOf, Getting
    <3>2. Cardinality(SendingOf(j)) + Cardinality(Getting(j)) <= shared[j]
      BY <1>1, Zenon DEF SharedInv
    <3>3. CASE j # k
      BY <1>7, <3>1, <3>2, <3>3, ZenonT(60)
    <3>4. CASE j = k
      <4>1. Getting(j) \subseteq Works /\ SendingOf(j) \subseteq Clients
        BY <1>1, <3>1, LockTypes, Zenon
      <4>2. Cardinality(Getting(j)) \in Nat /\ Cardinality(SendingOf(j)) \in Nat
        BY <4>1, Finite, Zenon
      <4>3. shared[j] \in Nat /\ shared'[j] = shared[j] + 1
        BY <1>7, <3>4, Zenon
      <4> QED BY <3>1, <3>2, <4>2, <4>3
    <3> QED BY <3>3, <3>4, Zenon
  <2>2. \A d \in Clients : sending'[d] \in LargeKeys \cup {NoKey}
    BY <1>1, <1>2, Zenon DEF SharedInv
  <2> QED BY <2>1, <2>2, Zenon DEF SharedInv
<1>12. PresentInv'
  BY <1>1, <1>2, <1>6, Zenon DEF PresentInv
<1>13. SlotInv' /\ QueueInv' /\ DoneInv' /\ ApartInv'
  BY <1>1, <1>2, <1>3, Zenon DEF SlotInv, QueueInv, DoneInv, ApartInv
<1>14. AnswerInv' /\ ClientTypes'
  <2>1. ClientTypes /\ req' = [req EXCEPT ![c] = s] /\ connected' = connected
    BY <1>1, <1>4, TypeParts, Zenon DEF Answer
  <2>2. \A d \in Clients : req[d] = "waiting" => req'[d] = "waiting"
    BY <1>2, <2>1, Zenon DEF Ready, ClientTypes
  <2>3. \A w \in outstanding : Waits(w) => work[w].handler \in Clients
    BY <1>1, WorkTypes, Zenon DEF Waits
  <2>4. AnswerInv'
    BY <1>1, <1>3, <2>2, <2>3, ZenonT(60) DEF AnswerInv, Waits
  <2>5. ClientTypes'
    BY <2>1, Zenon DEF ClientTypes
  <2> QED BY <2>4, <2>5, Zenon
<1>15. TypeOK'
  <2>1. StoreTypes /\ SlotTypes /\ PluginTypes /\ ShardTypes /\ ClientTypes
    BY <1>1, TypeParts, Zenon
  <2>2. StoreTypes'
    BY <1>2, <1>6, <2>1, Zenon DEF StoreTypes
  <2>3. SlotTypes' /\ PluginTypes'
    BY <1>2, <1>3, <2>1, Zenon DEF SlotTypes, PluginTypes
  <2>4. ShardTypes'
    BY <1>2, <1>10, <2>1, Zenon DEF ShardTypes
  <2> QED BY <1>14, <2>2, <2>3, <2>4, TypeParts, Zenon
<1> QED BY <1>9, <1>11, <1>12, <1>13, <1>14, <1>15, Parts, Zenon

-----------------------------------------------------------------------------
(* Callbacks *)

\* The first request of the queue is outstanding.
LEMMA RunningOut ==
  ASSUME IInv, NEW w, Running(w)
  PROVE  w \in outstanding /\ w \in Works /\ queue # <<>> /\ w = queue[1] /\ 1 \in 1 .. Len(queue)
<1>1. queue \in Seq(Works) /\ outstanding \subseteq Works /\ QueueInv
  BY Parts, Zenon DEF TypeOK
<1>2. queue # <<>> /\ w = Head(queue)
  BY Zenon DEF Running
<1>3. w = queue[1] /\ 1 \in 1 .. Len(queue)
  BY <1>1, <1>2
<1> QED BY <1>1, <1>2, <1>3, Zenon DEF QueueInv

\* What a callback leaves alone.
LEMMA CallbackStep ==
  ASSUME IInv, StoreInv', PluginTypes', SlotInv',
         UNCHANGED <<works, client, done, status, shared, sending, signals>>, alive' \in BOOLEAN
  PROVE  IInv'
<1>1. /\ TypeOK /\ SharedInv /\ QueueInv /\ DoneInv /\ ApartInv /\ AnswerInv
  BY Parts, Zenon
<1>2. StoreTypes' /\ LockInv' /\ PresentInv'
  BY Zenon DEF StoreInv
<1>3. /\ outstanding' = outstanding /\ work' = work /\ queue' = queue /\ req' = req /\ connected' = connected
      /\ done' = done /\ status' = status /\ shared' = shared /\ sending' = sending /\ signals' = signals
  BY Zenon DEF works, client
<1>4. SlotTypes /\ ShardTypes /\ ClientTypes
  BY <1>1, TypeParts, Zenon
<1>5. SlotTypes' /\ ShardTypes' /\ ClientTypes'
  BY <1>3, <1>4, Zenon DEF SlotTypes, ShardTypes, ClientTypes
<1>6. SharedInv' /\ QueueInv' /\ DoneInv' /\ ApartInv'
  BY <1>1, <1>3, ZenonT(60) DEF SharedInv, SendingOf, Getting, QueueInv, DoneInv, ApartInv
<1>7. AnswerInv'
  BY <1>1, <1>3, ZenonT(60) DEF AnswerInv, Waits
<1>8. TypeOK'
  BY <1>2, <1>5, TypeParts, Zenon
<1> QED BY <1>2, <1>6, <1>7, <1>8, Parts, Zenon

\* A callback that locks nothing.
LEMMA FreeCallback ==
  ASSUME IInv, lk' = lk, val' \in [Keys -> Values], present' \subseteq Keys,
         \A k \in Keys : k \in present /\ k \notin present' => lk[k] = 0,
         UNCHANGED <<works, plugin, client, done, status, shared, sending, signals>>, alive' \in BOOLEAN
  PROVE  IInv'
<1>1. /\ outstanding' = outstanding /\ work' = work /\ deferred' = deferred /\ life' = life /\ explicit' = explicit
      /\ UNCHANGED <<lk, deferred, explicit, shared>>
  BY Zenon DEF works, plugin
<1>2. \A k \in Keys : Readers(k)' = Readers(k) /\ Writers(k)' = Writers(k)
  BY <1>1, Zenon DEF Readers, Writers
<1>3. StoreInv'
  BY <1>1, <1>2, LocksKept, Zenon
<1>4. PluginTypes /\ SlotInv
  BY Parts, TypeParts, Zenon
<1>5. PluginTypes' /\ SlotInv'
  BY <1>1, <1>4, Zenon DEF PluginTypes, SlotInv
<1> QED BY <1>3, <1>5, CallbackStep, Zenon

\* Callbacks that erase, resize or write a value.
LEMMA MemoryInv ==
  ASSUME IInv, NEW w \in Works, NEW k \in Keys,
         \/ EraseKey(w, k) \/ ResizeThrows(w, k)
         \/ \E v \in Values : ResizeValue(w, k, v) \/ AdoWrite(w, k, v)
  PROVE  IInv'
<1>1. /\ val \in [Keys -> Values] /\ present \subseteq Keys /\ alive \in BOOLEAN /\ FALSE \in BOOLEAN
      /\ \A v \in Values : [val EXCEPT ![k] = v] \in [Keys -> Values]
  BY ValueTypes, Zenon
<1>2. CASE EraseKey(w, k)
  <2>1. lk' = lk /\ val' \in [Keys -> Values] /\ present' \subseteq Keys /\ alive' \in BOOLEAN
    BY <1>1, <1>2, Zenon DEF EraseKey, rest
  <2>2. \A j \in Keys : j \in present /\ j \notin present' => lk[j] = 0
    BY <1>2, Zenon DEF EraseKey
  <2>3. UNCHANGED <<works, plugin, client, done, status, shared, sending, signals>>
    BY <1>2, Zenon DEF EraseKey, rest
  <2> QED BY <2>1, <2>2, <2>3, FreeCallback, Zenon
<1>3. CASE ResizeThrows(w, k)
  <2>1. lk' = lk /\ val' \in [Keys -> Values] /\ present' = present /\ alive' \in BOOLEAN
    BY <1>1, <1>3, Zenon DEF ResizeThrows, store
  <2>2. UNCHANGED <<works, plugin, client, done, status, shared, sending, signals>>
    BY <1>3, Zenon DEF ResizeThrows
  <2> QED BY <1>1, <2>1, <2>2, FreeCallback, Zenon
<1>4. ASSUME NEW v \in Values, ResizeValue(w, k, v) \/ AdoWrite(w, k, v) PROVE IInv'
  <2>1. lk' = lk /\ val' \in [Keys -> Values] /\ present' = present /\ alive' \in BOOLEAN
    BY <1>1, <1>4, Zenon DEF ResizeValue, AdoWrite, rest
  <2>2. UNCHANGED <<works, plugin, client, done, status, shared, sending, signals>>
    BY <1>4, Zenon DEF ResizeValue, AdoWrite, rest
  <2> QED BY <1>1, <2>1, <2>2, FreeCallback, Zenon
<1> QED BY <1>2, <1>3, <1>4, Zenon

\* Each lifetime is that of the completion or of the plugin: FLAGS_ADO_LIFETIME_UNLOCK
\* shares a bit with FLAGS_NO_IMPLICIT_UNLOCK.
LEMMA LifetimesShare ==
  ASSUME NEW lifetime \in Lifetimes
  PROVE  IF lifetime = "invoke" THEN FlagsOf(lifetime) = {}
         ELSE FlagsOf(lifetime) \cap NoImplicitUnlock # {} /\ lifetime \in {"life", "manual"}
<1>1. lifetime \in {"invoke", "life", "manual"}
  BY LifetimesAssumption, Zenon
<1>2. 32 \in LifetimeUnlock /\ 32 \in NoImplicitUnlock
  BY Zenon DEF LifetimeUnlock, NoImplicitUnlock
<1>3. /\ lifetime = "invoke" => FlagsOf(lifetime) = {}
      /\ lifetime = "life" => FlagsOf(lifetime) = LifetimeUnlock
      /\ lifetime = "manual" => FlagsOf(lifetime) = NoImplicitUnlock
  BY Zenon DEF FlagsOf
<1> QED BY <1>1, <1>2, <1>3, Zenon

\* CREATE and OPEN
LEMMA OpenInv ==
  ASSUME IInv, NEW w \in Works, NEW k \in Keys, NEW lifetime \in Lifetimes, NEW named \in WorkIds,
         NEW create \in BOOLEAN, OpenKey(w, k, lifetime, named, create)
  PROVE  IInv'
<1>1. TypeOK /\ LockInv /\ PresentInv /\ SlotInv /\ PluginTypes
  BY Parts, TypeParts, Zenon
<1>2. /\ Running(w) /\ Free(lk, k, "write") /\ lk' = Take(lk, k, "write") /\ present' = present \cup {k}
      /\ UNCHANGED <<val, works, client, rest>>
  BY Zenon DEF OpenKey, CanLock
<1>3. w \in outstanding
  BY <1>2, RunningOut, Zenon
<1>4. /\ outstanding' = outstanding /\ work' = work /\ shared' = shared /\ val' = val
      /\ UNCHANGED <<works, client, done, status, shared, sending, signals>> /\ alive' \in BOOLEAN
  BY <1>2, ValueTypes, Zenon DEF works, rest
<1>5. /\ life' = life
      /\ \/ deferred' = deferred /\ explicit' = explicit
         \/ deferred' = [deferred EXCEPT ![w] = @ \cup {k}] /\ explicit' = explicit
         \/ deferred' = deferred /\ explicit' = [explicit EXCEPT ![k] = lifetime] /\ lifetime \in {"life", "manual"}
  <2>1. CASE lifetime = "invoke"
    <3>1. FlagsOf(lifetime) \cap NoImplicitUnlock = {} /\ FlagsOf(lifetime) \cap LifetimeUnlock = {}
      BY <2>1, LifetimesShare, Zenon
    <3> QED BY <3>1, Zenon DEF OpenKey
  <2>2. CASE lifetime # "invoke"
    <3>1. FlagsOf(lifetime) \cap NoImplicitUnlock # {} /\ lifetime \in {"life", "manual"}
      BY <2>2, LifetimesShare, Zenon
    <3> QED BY <3>1, Zenon DEF OpenKey
  <2> QED BY <2>1, <2>2, Zenon
<1>6. /\ lk' \in [Keys -> -1 .. MaxReaders]
      /\ \A j \in Keys : j # k => lk'[j] = lk[j]
      /\ lk[k] = 0 /\ lk'[k] = -1
  BY <1>1, <1>2, TakeEffect, Zenon
<1>7. /\ Writers(k) = {} /\ explicit[k] = "no" /\ Readers(k) = {}
      /\ Backed(-1, Writers(k), explicit[k], Readers(k), shared[k])
      /\ Backed(-1, Writers(k) \cup {w}, explicit[k], Readers(k), shared[k])
      /\ \A f : Backed(-1, Writers(k), f, Readers(k), shared[k])
  <2>1. Backed(0, Writers(k), explicit[k], Readers(k), shared[k])
    BY <1>1, <1>6, Zenon DEF LockInv
  <2>2. shared[k] \in Nat /\ Readers(k) \subseteq Works
    BY <1>1, LockTypes, Zenon
  <2>3. /\ Writers(k) = {} /\ explicit[k] = "no" /\ Readers(k) = {}
        /\ Backed(-1, Writers(k), explicit[k], Readers(k), shared[k])
        /\ \A u : Backed(-1, Writers(k) \cup {u}, explicit[k], Readers(k), shared[k])
        /\ \A f : Backed(-1, Writers(k), f, Readers(k), shared[k])
    BY <2>1, <2>2, WriteTaken, Zenon
  <2> QED BY <2>3, Zenon
<1>8. \A j \in Keys : Readers(j)' = Readers(j)
  BY <1>4, Zenon DEF Readers
<1>9. deferred \in [Works -> SUBSET Keys] /\ explicit \in [Keys -> {"no", "life", "manual"}] /\ life \in SUBSET Keys
  BY <1>1, Zenon DEF PluginTypes
<1>10. PluginTypes'
  BY <1>5, <1>9, Zenon DEF PluginTypes
<1>11. \A j \in Keys : j # k => Writers(j)' = Writers(j) /\ explicit'[j] = explicit[j]
  <2>1. \A j \in Keys : j # k => explicit'[j] = explicit[j]
    BY <1>5, <1>9, Zenon
  <2>2. \A j \in Keys : j # k => \A u \in outstanding : j \in deferred'[u] <=> j \in deferred[u]
    BY <1>1, <1>5, <1>9 DEF TypeOK
  <2>3. \A j \in Keys : j # k => Writers(j)' = Writers(j)
    BY <1>4, <2>2, Zenon DEF Writers
  <2> QED BY <2>1, <2>3, Zenon
<1>12. \/ Writers(k)' = Writers(k) /\ explicit'[k] = explicit[k]
       \/ Writers(k)' = Writers(k) \cup {w} /\ explicit'[k] = explicit[k]
       \/ Writers(k)' = Writers(k) /\ explicit'[k] = lifetime
  <2>1. CASE deferred' = deferred
    <3>1. Writers(k)' = Writers(k)
      BY <1>4, <2>1, Zenon DEF Writers
    <3> QED BY <1>5, <1>9, <3>1, Zenon
  <2>2. CASE deferred' = [deferred EXCEPT ![w] = @ \cup {k}] /\ explicit' = explicit
    <3>1. \A u \in outstanding : k \in deferred'[u] <=> k \in deferred[u] \/ u = w
      BY <1>1, <1>3, <1>9, <2>2, Zenon DEF TypeOK
    <3>2. Writers(k)' = Writers(k) \cup {w}
      BY <1>3, <1>4, <3>1, Zenon DEF Writers
    <3> QED BY <2>2, <3>2, Zenon
  <2> QED BY <1>5, <2>1, <2>2, Zenon
<1>13. LockInv'
  <2>1. ASSUME NEW j \in Keys
        PROVE  Backed(lk'[j], Writers(j)', explicit'[j], Readers(j)', shared'[j])
    <3>1. CASE j # k
      <4>1. Backed(lk[j], Writers(j), explicit[j], Readers(j), shared[j])
        BY <1>1, Zenon DEF LockInv
      <4> QED BY <1>4, <1>6, <1>8, <1>11, <3>1, <4>1, Zenon
    <3>2. CASE j = k
      <4>1. Backed(-1, Writers(k)', explicit'[k], Readers(k), shared[k])
        BY <1>7, <1>12, Zenon
      <4> QED BY <1>4, <1>6, <1>8, <3>2, <4>1, Zenon
    <3> QED BY <3>1, <3>2, Zenon
  <2> QED BY <2>1, Zenon DEF LockInv
<1>14. StoreInv'
  <2>1. PresentInv'
    BY <1>1, <1>2, <1>6, Zenon DEF PresentInv
  <2>2. StoreTypes'
    BY <1>1, <1>2, <1>4, <1>6, Zenon DEF StoreTypes, TypeOK
  <2> QED BY <1>13, <2>1, <2>2, Zenon DEF StoreInv
<1>15. SlotInv'
  <2>1. \A u \in Works \ outstanding : deferred'[u] = {}
    BY <1>1, <1>3, <1>5, <1>9, Zenon DEF SlotInv
  <2>2. ASSUME NEW u \in outstanding, work[u].lock = "write" PROVE work[u].key \notin deferred'[u]
    <3>1. work[u].key \notin deferred[u] /\ work[u].key # k /\ u \in Works
      BY <1>1, <1>7, <2>2, Zenon DEF SlotInv, Writers, TypeOK
    <3>2. deferred'[u] \subseteq deferred[u] \cup {k}
      BY <1>5, <1>9, <3>1, Zenon
    <3> QED BY <3>1, <3>2, Zenon
  <2> QED BY <1>1, <1>4, <1>5, <2>1, <2>2, Zenon DEF SlotInv
<1> QED BY <1>4, <1>10, <1>14, <1>15, CallbackStep, Zenon

\* UNLOCK
LEMMA UnlockInv ==
  ASSUME IInv, NEW w \in Works, NEW k \in Keys, UnlockKey(w, k)
  PROVE  IInv'
<1>1. TypeOK /\ LockInv /\ PresentInv /\ SlotInv /\ PluginTypes
  BY Parts, TypeParts, Zenon
<1>2. /\ Running(w) /\ (k \in deferred[w] \/ explicit[k] # "no") /\ lk' = Give(lk, {k})
      /\ deferred' = [deferred EXCEPT ![w] = @ \ {k}] /\ explicit' = [explicit EXCEPT ![k] = "no"]
      /\ life' = life /\ val' = val /\ present' = present /\ UNCHANGED <<works, client, rest>>
  BY Zenon DEF UnlockKey
<1>3. w \in outstanding
  BY <1>2, RunningOut, Zenon
<1>4. /\ outstanding' = outstanding /\ work' = work /\ shared' = shared
      /\ UNCHANGED <<works, client, done, status, shared, sending, signals>> /\ alive' \in BOOLEAN
  BY <1>2, ValueTypes, Zenon DEF works, rest
<1>5. deferred \in [Works -> SUBSET Keys] /\ explicit \in [Keys -> {"no", "life", "manual"}] /\ life \in SUBSET Keys
  BY <1>1, Zenon DEF PluginTypes
<1>6. /\ \A u \in Works : deferred'[u] \subseteq deferred[u] /\ \A j \in Keys : j # k => (j \in deferred'[u] <=> j \in deferred[u])
      /\ k \notin deferred'[w] /\ \A j \in Keys : j # k => explicit'[j] = explicit[j]
      /\ explicit'[k] = "no" /\ PluginTypes'
  BY <1>2, <1>5, Zenon DEF PluginTypes
<1>7. Backed(lk[k], Writers(k), explicit[k], Readers(k), shared[k])
  BY <1>1, Zenon DEF LockInv
<1>8. lk[k] \in Int /\ shared[k] \in Nat /\ Readers(k) \subseteq Works
  BY <1>1, LockTypes, Zenon
<1>9. lk[k] = -1 /\ Readers(k) = {} /\ shared[k] = 0
  <2>1. Writers(k) # {} \/ explicit[k] # "no"
    BY <1>2, <1>3, Zenon DEF Writers
  <2> QED BY <1>7, <1>8, <2>1, HolderLocks
<1>10. lk'[k] = 0 /\ (\A j \in Keys : j # k => lk'[j] = lk[j]) /\ lk' \in [Keys -> -1 .. MaxReaders]
  BY <1>1, <1>2, <1>9, BoundsAssumption DEF Give, TypeOK
<1>11. \A j \in Keys : Readers(j)' = Readers(j)
  BY <1>4, Zenon DEF Readers
<1>12. \A j \in Keys : j # k => Writers(j)' = Writers(j)
  BY <1>1, <1>4, <1>6, Zenon DEF Writers, TypeOK
<1>13. Writers(k)' = {}
  <2>1. ASSUME NEW u \in Writers(k)' PROVE FALSE
    <3>1. u \in outstanding /\ u \in Works /\ ((work[u].key = k /\ work[u].lock = "write") \/ k \in deferred'[u])
      BY <1>1, <1>4, <2>1, Zenon DEF Writers, TypeOK
    <3>2. u \in Writers(k)
      BY <1>6, <3>1, Zenon DEF Writers
    <3>3. k \in deferred[w] /\ w \in Writers(k)
      BY <1>2, <1>3, <1>7, <3>2, Zenon DEF Backed, Writers
    <3>4. u = w
      BY <1>7, <3>2, <3>3, Zenon DEF Backed
    <3>5. work[w].key = k /\ work[w].lock = "write"
      BY <1>6, <3>1, <3>4, Zenon
    <3> QED BY <1>1, <1>3, <3>3, <3>5, Zenon DEF SlotInv
  <2> QED BY <2>1, Zenon
<1>14. LockInv'
  <2>1. ASSUME NEW j \in Keys
        PROVE  Backed(lk'[j], Writers(j)', explicit'[j], Readers(j)', shared'[j])
    <3>1. CASE j # k
      <4>1. Backed(lk[j], Writers(j), explicit[j], Readers(j), shared[j])
        BY <1>1, Zenon DEF LockInv
      <4> QED BY <1>4, <1>6, <1>10, <1>11, <1>12, <3>1, <4>1, Zenon
    <3>2. CASE j = k
      <4>1. Backed(0, {}, "no", {}, 0)
        BY FS_EmptySet DEF Backed
      <4> QED BY <1>4, <1>6, <1>9, <1>10, <1>11, <1>13, <3>2, <4>1, ZenonT(60)
    <3> QED BY <3>1, <3>2, Zenon
  <2> QED BY <2>1, Zenon DEF LockInv
<1>15. StoreInv'
  <2>1. PresentInv'
    BY <1>1, <1>2, <1>10, Zenon DEF PresentInv
  <2>2. StoreTypes'
    BY <1>1, <1>2, <1>10, Zenon DEF StoreTypes, TypeOK
  <2> QED BY <1>14, <2>1, <2>2, Zenon DEF StoreInv
<1>16. SlotInv'
  <2>1. \A u \in Works \ outstanding : deferred'[u] = {}
    BY <1>1, <1>6, Zenon DEF SlotInv
  <2>2. \A u \in outstanding : work[u].key \notin deferred[u] => work[u].key \notin deferred'[u]
    BY <1>1, <1>6, Zenon DEF TypeOK
  <2> QED BY <1>1, <1>2, <1>4, <2>1, <2>2, Zenon DEF SlotInv
<1> QED BY <1>4, <1>6, <1>15, <1>16, CallbackStep, Zenon
=============================================================================
