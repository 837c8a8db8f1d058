--------------------------- MODULE HopHashProofs ---------------------------
(***************************************************************************)
(* The hash table of hstore keeps what it told its client, over moves,     *)
(* resizes and power failures, for any keys, hashes, reach and table size. *)
(***************************************************************************)
EXTENDS HopHashInvariant, FiniteSetTheorems, WellFoundedInduction

-----------------------------------------------------------------------------
(* Numbers and finite sets *)

\* A non-empty set of natural numbers has a least member.
LEMMA LeastNatural == HasLeast
<1> DEFINE R == {ss \in Nat \X Nat : ss[1] < ss[2]}
<1>1. IsWellFoundedOn(R, Nat)
  BY NatLessThanWellFounded, Zenon DEF OpToRel
<1>2. \A x, y \in Nat : x < y => <<x, y>> \in R
  BY Zenon
<1> HIDE DEF R
<1>3. ASSUME NEW T \in SUBSET Nat, T # {} PROVE \E t \in T : \A y \in T : t <= y
  <2>1. PICK t \in T : \A y \in T : ~(<<y, t>> \in R)
    BY <1>1, <1>3, WFMin, Zenon
  <2>2. ASSUME NEW y \in T PROVE t <= y
    <3>1. y \in Nat /\ t \in Nat /\ ~(y < t)
      BY <1>2, <2>1, Zenon
    <3> QED BY <3>1
  <2> QED BY <2>2, Zenon
<1> QED BY <1>3, Zenon DEF HasLeast

\* The buckets are finitely many.
LEMMA OwnedFinite ==
  ASSUME TypeOK
  PROVE  IsFiniteSet(Owned(line, N)) /\ Cardinality(Owned(line, N)) \in Nat
<1>1. 0 \in Int /\ N - 1 \in Int
  BY Facts
<1>2. IsFiniteSet(0 .. N - 1)
  BY <1>1, FS_Interval, Zenon
<1>3. Owned(line, N) \in SUBSET (0 .. N - 1)
  BY DEF Owned
<1>4. IsFiniteSet(Owned(line, N))
  BY <1>2, <1>3, FS_Subset, Zenon
<1> QED BY <1>4, FS_CardinalityType, Zenon

\* Every owned content has a key of its own: the scan of the recovery counts the keys when
\* it counts the contents.
LEMMA OneKeyEach ==
  ASSUME TypeOK, Well(line, N), Unique(line, N)
  PROVE  IsFiniteSet(Located(line, N)) /\ Cardinality(Located(line, N)) = Cardinality(Owned(line, N))
<1> DEFINE f == [c \in Owned(line, N) |-> line[c].key]
<1>1. Sized(N) /\ line \in Table
  BY Facts, Zenon
<1>2. \A k : k \in Located(line, N) <=> \E c \in Owned(line, N) : k = line[c].key
  BY <1>1, LocatedBy
<1>3. \A c, d \in Owned(line, N) : line[c].key = line[d].key => c = d
  BY <1>1, OwnedKeys, Zenon
<1>4. f \in [Owned(line, N) -> Located(line, N)]
  BY <1>2
<1>5. f \in Injection(Owned(line, N), Located(line, N))
  BY <1>3, <1>4 DEF Injection, IsInjective
<1>6. f \in Surjection(Owned(line, N), Located(line, N))
  BY <1>2, <1>4 DEF Surjection
<1>7. ExistsBijection(Owned(line, N), Located(line, N))
  BY <1>5, <1>6 DEF ExistsBijection, Bijection
<1> QED BY <1>7, OwnedFinite, FS_Bijection, Zenon

-----------------------------------------------------------------------------
(* The history of stale flags, and the size *)

\* A resize that began with stale flags is not forgotten.
LEMMA StaleStays ==
  ASSUME [Next]_vars, ~stale'
  PROVE  ~stale
<1>1. CASE \E k \in Keys : Emplace(k) \/ Erase(k)
  BY <1>1, Zenon DEF Emplace, Erase, history
<1>2. CASE NearestFreeBucket \/ NoNearEmptyBucket \/ MoveStart \/ MoveContent \/ MoveOwner \/ FreeContent \/ MoveDone
  BY <1>2, Zenon DEF NearestFreeBucket, NoNearEmptyBucket, MoveStart, MoveContent, MoveOwner, FreeContent, MoveDone, history
<1>3. CASE InsertStart \/ InsertContent \/ InsertOwner \/ InsertDone \/ EraseOwner \/ EraseDone
  BY <1>3, Zenon DEF InsertStart, InsertContent, InsertOwner, InsertDone, EraseOwner, EraseDone, history
<1>4. CASE ResizePass1 \/ ResizeInterlog \/ ResizeAdjustOwner \/ ResizeFree \/ ResizeEpilog
  BY <1>4, Zenon DEF ResizePass1, ResizeInterlog, ResizeAdjustOwner, ResizeFree, ResizeEpilog, history
<1>5. CASE ScanElement \/ ScanDone \/ Crash
  BY <1>5, Zenon DEF ScanElement, ScanDone, Crash, history
<1>6. ASSUME NEW b \in Buckets, Evict(b) PROVE ~stale
  BY <1>6, Zenon DEF Evict, history
<1>7. CASE UNCHANGED vars
  BY <1>7, Zenon DEF vars
<1> QED BY <1>1, <1>2, <1>3, <1>4, <1>5, <1>6, <1>7, ZenonT(60) DEF Next, Step

\* Steps that neither touch the size nor tell the client anything.
LEMMA SizeKept ==
  ASSUME SizeInv, size' = size, told' = told, (live' => live), Present' = Present
  PROVE  SizeInv'
BY Zenon DEF SizeInv

\* They are all but the first and the last step of a call, and the end of a recovery.
Quiet == size' = size /\ told' = told /\ (live' => live)

\* The steps that do not touch the size, nor what the client was told.
LEMMA QuietSteps ==
  /\ \A k \in Keys : Emplace(k) => Quiet
  /\ NearestFreeBucket \/ NoNearEmptyBucket \/ MoveContent \/ MoveOwner \/ FreeContent \/ InsertContent => Quiet
  /\ InsertOwner \/ EraseOwner => Quiet
  /\ ResizePass1 \/ ResizeInterlog \/ ResizeAdjustOwner \/ ResizeFree \/ ResizeEpilog => Quiet
  /\ ScanElement \/ Crash => Quiet
  /\ \A b \in Buckets : Evict(b) => Quiet
  /\ UNCHANGED vars => Quiet
<1>1. ASSUME NEW k \in Keys, Emplace(k) PROVE Quiet
  BY <1>1, Zenon DEF Emplace, history, Quiet
<1>2. ASSUME NEW b \in Buckets, Evict(b) PROVE Quiet
  BY <1>2, Zenon DEF Evict, history, Quiet
<1>3. ASSUME UNCHANGED vars PROVE Quiet
  BY <1>3, Zenon DEF vars, Quiet
<1>4. ASSUME NearestFreeBucket PROVE Quiet
  BY <1>4, Zenon DEF NearestFreeBucket, history, Quiet
<1>5. ASSUME NoNearEmptyBucket PROVE Quiet
  BY <1>5, Zenon DEF NoNearEmptyBucket, history, Quiet
<1>6. ASSUME MoveContent PROVE Quiet
  BY <1>6, Zenon DEF MoveContent, history, Quiet
<1>7. ASSUME MoveOwner PROVE Quiet
  BY <1>7, Zenon DEF MoveOwner, history, Quiet
<1>8. ASSUME FreeContent PROVE Quiet
  BY <1>8, Zenon DEF FreeContent, history, Quiet
<1>9. ASSUME InsertContent PROVE Quiet
  BY <1>9, Zenon DEF InsertContent, history, Quiet
<1>10. ASSUME InsertOwner PROVE Quiet
  BY <1>10, Zenon DEF InsertOwner, history, Quiet
<1>11. ASSUME EraseOwner PROVE Quiet
  BY <1>11, Zenon DEF EraseOwner, history, Quiet
<1>12. ASSUME ResizePass1 PROVE Quiet
  BY <1>12, Zenon DEF ResizePass1, history, Quiet
<1>13. ASSUME ResizeInterlog PROVE Quiet
  BY <1>13, Zenon DEF ResizeInterlog, history, Quiet
<1>14. ASSUME ResizeAdjustOwner PROVE Quiet
  BY <1>14, Zenon DEF ResizeAdjustOwner, history, Quiet
<1>15. ASSUME ResizeFree PROVE Quiet
  BY <1>15, Zenon DEF ResizeFree, history, Quiet
<1>16. ASSUME ResizeEpilog PROVE Quiet
  BY <1>16, Zenon DEF ResizeEpilog, history, Quiet
<1>17. ASSUME ScanElement PROVE Quiet
  BY <1>17, Zenon DEF ScanElement, history, Quiet
<1>18. ASSUME Crash PROVE Quiet
  BY <1>18, Zenon DEF Crash, history, Quiet
<1> QED BY <1>1, <1>2, <1>3, <1>4, <1>5, <1>6, <1>7, <1>8, <1>9, <1>10, <1>11, <1>12, <1>13, <1>14, <1>15, <1>16, <1>17, <1>18, ZenonT(60)

\* The first steps of a call say that the size is not to be trusted.
LEMMA SizeBegins ==
  ASSUME IInv, SizeInv, NEW k, MoveStart \/ InsertStart \/ Erase(k)
  PROVE  SizeInv'
<1>1. size' = [size EXCEPT !.unstable = TRUE] /\ told' = told /\ live' = live
  <2>1. CASE MoveStart
    BY <2>1, Zenon DEF MoveStart, SizeUnstable, history
  <2>2. CASE InsertStart
    BY <2>2, Zenon DEF InsertStart, SizeUnstable, history
  <2>3. CASE Erase(k)
    BY <2>3, Zenon DEF Erase, SizeUnstable, history
  <2> QED BY <2>1, <2>2, <2>3, Zenon
<1>2. size'.n = size.n /\ size'.unstable
  BY <1>1 DEF IInv, TypeOK
<1> QED BY <1>1, <1>2, Zenon DEF SizeInv

\* The end of a move counts nothing.
LEMMA SizeMoved ==
  ASSUME IInv, SizeInv, MoveDone, Present' = Present
  PROVE  SizeInv'
<1>1. /\ pc = "move_done" /\ size' = [n |-> size.n, unstable |-> FALSE] /\ live' = live /\ told' = told
  BY Zenon DEF MoveDone, SizeStable, history
<1>2. live /\ told = Present
  <2>1. live
    BY <1>1 DEF IInv, PhaseInv
  <2> QED BY <1>1, <2>1 DEF IInv, ToldInv
<1>3. size'.n = size.n
  BY <1>1
<1> QED BY <1>1, <1>2, <1>3, Zenon DEF SizeInv

\* The end of emplace counts one more.
LEMMA SizeInserted ==
  ASSUME IInv, SizeInv, InsertDone, Present' = Present
  PROVE  SizeInv'
<1>1. /\ pc = "insert_done" /\ size' = [n |-> size.n + 1, unstable |-> FALSE] /\ live' = live
      /\ told' = told \cup {op.key}
  BY Zenon DEF InsertDone, SizeStable
<1>2. live /\ ~segs.unstable
  BY <1>1 DEF IInv, PhaseInv
<1>3. told = Present \ {op.key} /\ op.key \in Present
  BY <1>1, <1>2 DEF IInv, ToldInv, Emplacing
<1>4. IsFiniteSet(Present)
  BY <1>2, PresentKeys, OneKeyEach, Zenon DEF IInv
<1>5. IsFiniteSet(told)
  BY <1>3, <1>4, FS_RemoveElement, Zenon
<1>6. op.key \notin told
  BY <1>3
<1>7. Cardinality(told') = Cardinality(told) + 1
  BY <1>1, <1>5, <1>6, FS_AddElement, ZenonT(60)
<1>8. told' = Present'
  BY <1>1, <1>3
<1>9. size.n = Cardinality(told) /\ size'.n = size.n + 1
  BY <1>1, <1>2 DEF SizeInv
<1> QED BY <1>7, <1>8, <1>9, Zenon DEF SizeInv

\* The end of erase counts one less.
LEMMA SizeErased ==
  ASSUME IInv, SizeInv, EraseDone, Present' = Present
  PROVE  SizeInv'
<1>1. /\ pc = "erase_done" /\ size' = [n |-> size.n - 1, unstable |-> FALSE] /\ live' = live
      /\ told' = told \ {op.key}
  BY Zenon DEF EraseDone, SizeStable
<1>2. live /\ ~segs.unstable
  BY <1>1 DEF IInv, PhaseInv
<1>3. told = Present \cup {op.key} /\ op.key \notin Present
  BY <1>1, <1>2, SMTT(60) DEF IInv, ToldInv, Emplacing, Erasing
<1>4. IsFiniteSet(Present)
  BY <1>2, PresentKeys, OneKeyEach, Zenon DEF IInv
<1>5. IsFiniteSet(told)
  BY <1>3, <1>4, FS_AddElement, Zenon
<1>6. op.key \in told
  BY <1>3
<1>7. Cardinality(told') = Cardinality(told) - 1
  BY <1>1, <1>5, <1>6, FS_RemoveElement, ZenonT(60)
<1>8. told' = Present'
  BY <1>1, <1>3
<1>9. size.n = Cardinality(told) /\ size'.n = size.n - 1
  BY <1>1, <1>2 DEF SizeInv
<1> QED BY <1>7, <1>8, <1>9, Zenon DEF SizeInv

\* The constructor counts the owned contents, one for each key.
LEMMA SizeScanned ==
  ASSUME IInv, SizeInv, ScanDone, Present' = Present
  PROVE  SizeInv'
<1>1. /\ pc = "scan" /\ told' = Located(line, N)
      /\ \/ size' = [n |-> Cardinality(Owned(line, N)), unstable |-> FALSE]
         \/ ~size.unstable /\ size' = size
  BY Zenon DEF ScanDone, SizeStable, N
<1>2. ~segs.unstable
  BY <1>1 DEF IInv, PhaseInv
<1>3. Present = Located(line, N) /\ Cardinality(Located(line, N)) = Cardinality(Owned(line, N))
  BY <1>2, PresentKeys, OneKeyEach, Zenon DEF IInv
<1>4. told' = Present'
  BY <1>1, <1>3
<1>5. size'.n = Cardinality(Present')
  <2>1. CASE size' = [n |-> Cardinality(Owned(line, N)), unstable |-> FALSE]
    <3>1. size'.n = Cardinality(Owned(line, N))
      BY <2>1
    <3> QED BY <1>3, <3>1, Zenon
  <2>2. CASE ~size.unstable /\ size' = size
    BY <2>2, Zenon DEF SizeInv
  <2> QED BY <1>1, <2>1, <2>2, ZenonT(60)
<1> QED BY <1>4, <1>5, Zenon DEF SizeInv

\* Every step keeps the size right.
LEMMA SizeNext ==
  ASSUME IInv, SizeInv, [Next]_vars, KeysStep
  PROVE  SizeInv'
<1>1. CASE InsertOwner \/ EraseOwner
  <2>1. pc \in {"insert_owner", "erase_owner"}
    BY <1>1, ZenonT(60) DEF InsertOwner, EraseOwner
  <2>2. live
    BY <2>1 DEF IInv, PhaseInv
  <2>3. size.unstable
    BY <2>1, <2>2 DEF IInv, ToldInv, Moving, Erasing
  <2>4. Quiet
    BY <1>1, QuietSteps, Zenon
  <2> QED BY <2>2, <2>3, <2>4, ZenonT(60) DEF Quiet, SizeInv
<1>2. CASE ~(InsertOwner \/ EraseOwner)
  <2>1. Present' = Present
    BY <1>2, Zenon DEF KeysStep
  <2>2. Quiet => SizeInv'
    BY <2>1, SizeKept, Zenon DEF Quiet
  <2>3. ASSUME NEW k \in Keys, Emplace(k) PROVE SizeInv'
    BY <2>2, <2>3, QuietSteps, Zenon
  <2>4. ASSUME NEW k \in Keys, Erase(k) PROVE SizeInv'
    BY <2>4, SizeBegins, Zenon
  <2>5. ASSUME NEW b \in Buckets, Evict(b) PROVE SizeInv'
    BY <2>2, <2>5, QuietSteps, ZenonT(60)
  <2>6. CASE Step
    <3>1. MoveStart \/ InsertStart => SizeInv'
      BY SizeBegins, Zenon
    <3> QED BY <1>2, <2>1, <2>2, <2>6, <3>1, QuietSteps, SizeMoved, SizeInserted, SizeErased, SizeScanned, ZenonT(60) DEF Step
  <2>7. CASE Crash \/ UNCHANGED vars
    BY <2>2, <2>7, QuietSteps, Zenon
  <2> QED BY <2>3, <2>4, <2>5, <2>6, <2>7, ZenonT(60) DEF Next
<1> QED BY <1>1, <1>2

-----------------------------------------------------------------------------
(* The invariant and the properties *)

\* As long as no resize began with stale flags.
Sound == ~stale => IInv /\ SizeInv /\ Durable = Present

\* The empty table counts nothing.
LEMMA InitSize == Init => SizeInv
<1> SUFFICES ASSUME Init PROVE SizeInv
  OBVIOUS
<1>1. /\ pc = "idle" /\ live /\ told = {} /\ size.n = 0 /\ IInv
  <2>1. pc = "idle" /\ live /\ told = {} /\ size = [n |-> 0, unstable |-> FALSE]
    BY Zenon DEF Init
  <2> QED BY <2>1, InitInv
<1>2. Present = {}
  BY <1>1 DEF IInv, ToldInv
<1> QED BY <1>1, <1>2, FS_EmptySet, Zenon DEF SizeInv

\* Sound is an invariant: the steps above, and what is durable is what is present.
LEMMA Soundness == Spec => []Sound
<1>1. Init => (~stale => IInv /\ SizeInv)
  BY InitInv, InitSize, Zenon
<1>2. (~stale => IInv /\ SizeInv) /\ [Next]_vars => (~stale => IInv /\ SizeInv)'
  <2>1. SUFFICES ASSUME ~stale => IInv /\ SizeInv, [Next]_vars, ~stale' PROVE IInv' /\ SizeInv'
    BY Zenon
  <2>2. IInv /\ SizeInv
    BY <2>1, StaleStays, Zenon
  <2>3. Cardinality(Owned(line, N)) \in Nat
    BY <2>2, OwnedFinite, Zenon DEF IInv
  <2>4. IInv' /\ KeysStep
    BY <2>1, <2>2, <2>3, LeastNatural, NextInv, ZenonT(60)
  <2> QED BY <2>1, <2>2, <2>4, SizeNext, ZenonT(60)
<1>3. (~stale => IInv /\ SizeInv) => Sound
  BY DurablePresent, Zenon DEF Sound
<1> QED BY <1>1, <1>2, <1>3, PTL DEF Spec

\* The variables keep their types, and no owner owns beyond its reach, as long as no resize
\* began with stale in-use flags (make_space_for_insert, erase, resize_pass2_adjust_owner).
THEOREM HopTypes == Spec => [](~stale => TypeOK)
<1>1. Sound => (~stale => TypeOK)
  BY Zenon DEF Sound, IInv
<1> QED BY <1>1, Soundness, PTL

\* Between calls the table holds exactly what the client was told, for the program and after
\* a power failure, and the size counts it (emplace, erase, resize and the constructor).
THEOREM HopToldDurable == Spec => []ToldDurable
<1>1. Sound => ToldDurable
  <2>1. SUFFICES ASSUME Sound, pc = "idle", ~stale
                 PROVE  /\ told = Durable /\ told = Located(line, N)
                        /\ size = [n |-> Cardinality(told), unstable |-> FALSE]
                        /\ Cardinality(Owned(line, N)) = size.n
    BY Zenon DEF ToldDurable, N
  <2>2. IInv /\ SizeInv /\ Durable = Present
    BY <2>1, ZenonT(60) DEF Sound
  <2>3. live /\ ~segs.unstable
    BY <2>1, <2>2, SMTT(60) DEF IInv, PhaseInv
  <2>4. told = Present /\ ~size.unstable
    BY <2>1, <2>2, <2>3, SMTT(60) DEF IInv, ToldInv, Moving, Erasing
  <2>5. Present = Located(line, N) /\ Cardinality(Located(line, N)) = Cardinality(Owned(line, N))
    BY <2>2, <2>3, PresentKeys, OneKeyEach, ZenonT(60) DEF IInv
  <2>6. size.n = Cardinality(told)
    BY <2>2, <2>3, ZenonT(60) DEF SizeInv
  <2>7. size \in [n : Int, unstable : BOOLEAN]
    BY <2>2, ZenonT(60) DEF IInv, TypeOK
  <2>8. size = [n |-> Cardinality(told), unstable |-> FALSE]
    BY <2>4, <2>6, <2>7, SMTT(60)
  <2> QED BY <2>2, <2>4, <2>5, <2>6, <2>8, ZenonT(60)
<1> QED BY <1>1, Soundness, PTL

\* No content has two owners outside pass 2 of a resize, in the cache or in memory (the
\* assertion of finish_owner_mask).
THEOREM HopOneOwner == Spec => []OneOwner
<1>1. Sound => OneOwner
  <2>1. SUFFICES ASSUME Sound, ~segs.unstable, ~stale, NEW c \in 0 .. N - 1
                 PROVE  Cardinality(OwnersOf(line, N, c)) <= 1 /\ Cardinality(OwnersOf(pm, N, c)) <= 1
    BY Zenon DEF OneOwner, N
  <2>2. IInv
    BY <2>1, ZenonT(60) DEF Sound
  <2>3. Sized(N) /\ line \in Table /\ pm \in Table
    BY <2>2, Facts, ZenonT(60) DEF IInv
  <2>4. Well(line, N) /\ Unique(line, N) /\ Same(line, pm, N)
    BY <2>1, <2>2, PresentKeys, ZenonT(60)
  <2>5. Well(pm, N) /\ Unique(pm, N)
    BY <2>3, <2>4, SameTable, SMTT(60)
  <2>6. ASSUME NEW L \in Table, Well(L, N), Unique(L, N) PROVE Cardinality(OwnersOf(L, N, c)) <= 1
    <3>1. OwnersOf(L, N, c) = {} \/ OwnersOf(L, N, c) = {BucketIx(N, L[c].key)}
      <4>1. c \in Owned(L, N) => OwnersOf(L, N, c) = {BucketIx(N, L[c].key)}
        BY <2>3, <2>6, OwnedKeys
      <4> QED BY <4>1 DEF Owned
    <3>2. Cardinality(OwnersOf(L, N, c)) = 0 \/ Cardinality(OwnersOf(L, N, c)) = 1
      BY <3>1, FS_EmptySet, FS_Singleton, ZenonT(60)
    <3> QED BY <3>2
  <2> QED BY <2>3, <2>4, <2>5, <2>6, ZenonT(60)
<1> QED BY <1>1, Soundness, PTL

\* An owned content has its in-use flag in persistent memory, in the middle of every call
\* (reconstitute goes by the flag).
THEOREM HopOwnedMarked == Spec => []OwnedMarked
<1>1. Sound => OwnedMarked
  <2>1. SUFFICES ASSUME Sound, ~segs.unstable, ~stale, NEW c \in Owned(pm, N) PROVE pm[c].use
    BY Zenon DEF OwnedMarked, N
  <2>2. IInv
    BY <2>1, Zenon DEF Sound
  <2>3. Sized(N) /\ line \in Table /\ pm \in Table
    BY <2>2, Facts, Zenon DEF IInv
  <2>4. Well(line, N) /\ Unique(line, N) /\ Same(line, pm, N)
    BY <2>1, <2>2, PresentKeys, ZenonT(60)
  <2>5. Well(pm, N) /\ Unique(pm, N)
    BY <2>3, <2>4, SameTable
  <2> QED BY <2>3, <2>5, OwnedKeys
<1> QED BY <1>1, Soundness, PTL

\* Emplace and erase are atomic, and moves, resizes, evictions, failures and recoveries
\* change nothing of what is durable, unless a resize began with stale flags.
THEOREM HopAtomicCalls == Spec => AtomicCalls
<1>1. Sound /\ Sound' /\ [Next]_vars => [DurableStep(stale')]_vars
  <2>1. SUFFICES ASSUME Sound, Sound', [Next]_vars PROVE DurableStep(stale')
    BY Zenon
  <2>2. CASE stale'
    BY <2>2, Zenon DEF DurableStep
  <2>3. CASE ~stale'
    <3>1. IInv /\ Durable = Present /\ Durable' = Present'
      BY <2>1, <2>3, StaleStays, ZenonT(60) DEF Sound
    <3>2. Cardinality(Owned(line, N)) \in Nat
      BY <3>1, OwnedFinite, ZenonT(60) DEF IInv
    <3>3. KeysStep
      BY <2>1, <2>3, <3>1, <3>2, LeastNatural, NextInv, ZenonT(60)
    <3> QED BY <3>1, <3>3, ZenonT(60) DEF KeysStep, DurableStep
  <2> QED BY <2>2, <2>3
<1> QED BY <1>1, Soundness, PTL DEF Spec, AtomicCalls

\* Every move of make_space_for_insert brings the free bucket nearer to the home of the key,
\* as long as no resize began with stale flags: the loop ends.
THEOREM HopMovesApproach ==
  Spec => [][~stale /\ pc = "move_done" /\ pc' = "space" =>
               DistanceWrapped(BucketCount, Home, dst') < DistanceWrapped(BucketCount, Home, dst)]_vars
<1>1. ASSUME Sound, [Next]_vars, ~stale, pc = "move_done", pc' = "space"
      PROVE  DistanceWrapped(BucketCount, Home, dst') < DistanceWrapped(BucketCount, Home, dst)
  <2>1. DistanceWrapped(N, Home, src) < DistanceWrapped(N, Home, dst)
    BY <1>1 DEF Sound, IInv, PhaseInv, Moving
  <2>2. dst' = src
    <3>1. ~\E k \in Keys : Emplace(k) \/ Erase(k)
      BY <1>1, Zenon DEF Emplace, Erase
    <3>2. ~(NearestFreeBucket \/ NoNearEmptyBucket \/ MoveStart \/ MoveContent \/ MoveOwner)
      BY <1>1 DEF NearestFreeBucket, NoNearEmptyBucket, MoveStart, MoveContent, MoveOwner
    <3>3. ~(FreeContent \/ InsertStart \/ InsertContent \/ InsertOwner \/ InsertDone \/ EraseOwner \/ EraseDone)
      BY <1>1 DEF FreeContent, InsertStart, InsertContent, InsertOwner, InsertDone, EraseOwner, EraseDone
    <3>4. ~(ResizePass1 \/ ResizeInterlog \/ ResizeAdjustOwner \/ ResizeFree \/ ResizeEpilog \/ ScanElement \/ ScanDone)
      BY <1>1 DEF ResizePass1, ResizeInterlog, ResizeAdjustOwner, ResizeFree, ResizeEpilog, ScanElement, ScanDone
    <3>5. ~Crash
      BY <1>1 DEF Crash
    <3>6. ~\E b \in Buckets : Evict(b)
      BY <1>1, Zenon DEF Evict
    <3>7. ~UNCHANGED vars
      BY <1>1, Zenon DEF vars
    <3>8. MoveDone
      BY <1>1, <3>1, <3>2, <3>3, <3>4, <3>5, <3>6, <3>7, ZenonT(60) DEF Next, Step
    <3> QED BY <3>8, Zenon DEF MoveDone
  <2> QED BY <2>1, <2>2, ZenonT(60) DEF N
<1>2. Sound /\ [Next]_vars =>
        [~stale /\ pc = "move_done" /\ pc' = "space" =>
           DistanceWrapped(BucketCount, Home, dst') < DistanceWrapped(BucketCount, Home, dst)]_vars
  BY <1>1, Zenon
<1> QED BY <1>2, Soundness, PTL DEF Spec
=============================================================================
