------------------------------ MODULE HopHash ------------------------------
(***************************************************************************)
(* The hopscotch hash table of hstore in persistent memory:                *)
(* src/src/components/store/hstore/src/hop_hash_base.tcc with              *)
(* persist_map_controller, owner, content, size_control, segment_count.    *)
(*                                                                         *)
(* A bucket is one cache line: an owner word (the offsets it owns and the  *)
(* in-use flag of its own content) and a content (here its key).  Stores   *)
(* go to line and reach the persistent memory pm when the code persists    *)
(* the line, or when the cache evicts it.  A power failure leaves pm.      *)
(* The table is used by one thread; emplace and erase are split where a    *)
(* failure between two stores can be told apart.                           *)
(***************************************************************************)
EXTENDS Integers, FiniteSets, FiniteSetsExt

CONSTANTS Keys, NoKey,
          HashOf,          \* the hash of a key
          OwnerSize,       \* owner::size, the reach of an owner
          WordBits,        \* the width of the owner word, 64
          BaseSize,        \* base_segment_size
          MaxSegments,     \* _segment_capacity
          MaxCrashes       \* bound on power failures

(* The table doubles by adding segments; erase shifts by a difference of   *)
(* indexes taken modulo the width of the owner word, and pass 1 of a       *)
(* resize relies on a reach of at most half the table.                     *)
ASSUME HopHashAssumption ==
  /\ HashOf \in [Keys -> Nat]
  /\ NoKey \notin Keys
  /\ OwnerSize \in Nat \ {0} /\ BaseSize \in Nat \ {0}
  /\ MaxSegments \in Nat \ {0} /\ MaxCrashes \in Nat
  /\ WordBits \in Nat /\ OwnerSize < WordBits /\ BaseSize % WordBits = 0
  /\ 2 * OwnerSize <= BaseSize

(* What the sizes of a table that doubles need to know of powers of two.   *)
ASSUME PowersAssumption ==
  \A i, j \in 0 .. MaxSegments :
    2^i \in Nat \ {0} /\ 2^(i + 1) = 2 * 2^i /\ (i <= j => 2^i <= 2^j)

VARIABLES line,     \* the buckets as the program sees them
          pm,       \* the buckets in persistent memory
          size,     \* _size_control, persisted with each change
          segs,     \* _segment_count.actual, persisted with each change
          pc,       \* the next step of the program
          op,       \* the call in progress, kept over a crash
          dst,      \* b_dst: the free bucket
          src,      \* b_src: the bucket whose content is moved or erased
          from,     \* the owner of src
          ix,       \* the index of pass 2
          live,     \* FALSE from a crash to the end of the recovery
          told,     \* history: the keys the client was told to be present
          stale,    \* history: a resize began with stale in-use flags
          crashes

vars == <<line, pm, size, segs, pc, op, dst, src, from, ix, live, told, stale, crashes>>
locals == <<dst, src, from, ix>>
history == <<told, stale, crashes>>

MaxBuckets == BaseSize * 2^(MaxSegments - 1)
Buckets == 0 .. MaxBuckets - 1
Offsets == 0 .. OwnerSize - 1
NoOp == [kind |-> "none", key |-> NoKey]
EmptyBucket == [own |-> {}, use |-> FALSE, key |-> NoKey]

(* bucket_count, bucket_ix and distance_wrapped.                           *)
BucketCount == BaseSize * 2^(segs.n - 1)
BucketIx(n, k) == HashOf[k] % n
DistanceWrapped(n, first, last) == (last - first) % n

(* locate_key: where the owner bits of the home bucket of k lead to k.     *)
LocateKey(L, n, k) ==
  {o \in L[BucketIx(n, k)].own : L[(BucketIx(n, k) + o) % n].key = k}
Located(L, n) == {k \in Keys : LocateKey(L, n, k) # {}}

(* The owners of content c: in_use_by_owner_pre_mask, finish_owner_mask.   *)
OwnersOf(L, n, c) == {b \in 0 .. n - 1 : DistanceWrapped(n, b, c) \in L[b].own}
Owned(L, n) == {c \in 0 .. n - 1 : OwnersOf(L, n, c) # {}}

(* nearest_free_bucket.                                                    *)
FreeDistances(n, h) == {d \in 0 .. n - 1 : ~line[(h + d) % n].use}

(* make_space_for_insert: the owners that precede d in its reach, the      *)
(* farthest first, and what they own before d.                             *)
Eligible(n, d, j) ==
  {p \in line[(d - j) % n].own : p <= j}
Movers(n, d) == {j \in 1 .. OwnerSize - 1 : Eligible(n, d, j) # {}}

(* Mutant: the owner that wraps around the end is forgotten.               *)
StaysNoWrap(n, i, k) ==
  LET o == BucketIx(2 * n, k) IN o <= i /\ i < o + OwnerSize

(* resize_pass1: the content at i may stay when its owner in the table of  *)
(* twice the size still reaches it, directly or around the end.            *)
Stays(n, i, k) ==
  LET o == BucketIx(2 * n, k) IN
  \/ o <= i /\ i < o + OwnerSize
  \/ i < OwnerSize /\ 2 * n < o + OwnerSize
Pass1(L, n) ==
  [b \in Buckets |->
     IF b \notin n .. 2 * n - 1 THEN L[b]
     ELSE IF L[b - n].use /\ ~Stays(n, b - n, L[b - n].key)
          THEN [EmptyBucket EXCEPT !.use = TRUE, !.key = L[b - n].key]
          ELSE EmptyBucket]

(* resize_pass2 over the indexes S: the content of i, in the junior        *)
(* segment if it was copied there, may change its owner from h to h + n.   *)
Pass2Key(L, n, i) == IF L[n + i].use THEN L[n + i].key ELSE L[i].key
Pass2Todo(L, n) == {i \in 0 .. n - 1 : L[n + i].use \/ L[i].use}
Reowned(L, n, i) == BucketIx(n, Pass2Key(L, n, i)) # BucketIx(2 * n, Pass2Key(L, n, i))
Pass2Owners(L, n, S) ==
  LET gone(h) == {DistanceWrapped(n, h, i) :
                    i \in {j \in S \cap Pass2Todo(L, n) :
                             /\ Reowned(L, n, j)
                             /\ BucketIx(n, Pass2Key(L, n, j)) = h}}
  IN [b \in Buckets |->
        IF b < n THEN [L[b] EXCEPT !.own = @ \ gone(b)]
        ELSE IF b < 2 * n THEN [L[b] EXCEPT !.own = @ \cup gone(b - n)]
        ELSE L[b]]
Pass2Erased(L, n, S) ==
  [b \in Buckets |-> IF b \in S /\ L[n + b].use THEN [L[b] EXCEPT !.use = FALSE, !.key = NoKey] ELSE L[b]]

(* What is in the table for whoever opens it after a failure now.          *)
Durable ==
  IF segs.unstable
  THEN Located(Pass2Owners(pm, BucketCount, 0 .. BucketCount - 1), 2 * BucketCount)
  ELSE Located(pm, BucketCount)

Init ==
  /\ line = [b \in Buckets |-> EmptyBucket]
  /\ pm = line
  /\ size = [n |-> 0, unstable |-> FALSE]
  /\ segs = [n |-> 1, unstable |-> FALSE]
  /\ pc = "idle" /\ op = NoOp
  /\ dst = 0 /\ src = 0 /\ from = 0 /\ ix = 0
  /\ live = TRUE /\ told = {} /\ stale = FALSE /\ crashes = 0

(* persist_content, persist_owner: the cache lines of the buckets B.       *)
Persist(B) == pm' = [b \in Buckets |-> IF b \in B THEN line'[b] ELSE pm[b]]
Home == BucketIx(BucketCount, op.key)
SizeUnstable == size' = [size EXCEPT !.unstable = TRUE]
SizeStable(n) == size' = [n |-> n, unstable |-> FALSE]
Return ==
  /\ pc' = "idle" /\ op' = NoOp
  /\ dst' = 0 /\ src' = 0 /\ from' = 0 /\ ix' = 0

(* emplace of a key that is not found; a found key is refused unchanged.   *)
Emplace(k) ==
  /\ pc = "idle"
  /\ LocateKey(line, BucketCount, k) = {}
  /\ op' = [kind |-> "emplace", key |-> k]
  /\ pc' = "probe"
  /\ UNCHANGED <<line, pm, size, segs, live, locals, history>>

NearestFreeBucket ==
  /\ pc = "probe"
  /\ FreeDistances(BucketCount, Home) # {}
  /\ dst' = (Home + Min(FreeDistances(BucketCount, Home))) % BucketCount
  /\ pc' = "space"
  /\ UNCHANGED <<line, pm, size, segs, op, src, from, ix, live, history>>

(* Mutant: one bucket too far.                                             *)
OutOfReachByOne == DistanceWrapped(BucketCount, Home, dst) > OwnerSize

OutOfReach == DistanceWrapped(BucketCount, Home, dst) >= OwnerSize

(* hop_hash_full or move_stuck: double the table, or give up at the limit. *)
NoNearEmptyBucket ==
  /\ \/ pc = "probe" /\ FreeDistances(BucketCount, Home) = {}
     \/ pc = "space" /\ OutOfReach /\ Movers(BucketCount, dst) = {}
  /\ IF segs.n < MaxSegments
     THEN pc' = "resize" /\ UNCHANGED <<op, locals>>
     ELSE Return
  /\ UNCHANGED <<line, pm, size, segs, live, history>>

(* make_space_for_insert: choose the content to move into dst.             *)
MoveStart ==
  /\ pc = "space" /\ OutOfReach
  /\ Movers(BucketCount, dst) # {}
  /\ LET j == Max(Movers(BucketCount, dst))
         p == Min(Eligible(BucketCount, dst, j))
     IN /\ from' = (dst - j) % BucketCount
        /\ src' = (dst - j + p) % BucketCount
  /\ SizeUnstable
  /\ pc' = "move_content"
  /\ UNCHANGED <<line, pm, segs, op, dst, ix, live, history>>

MoveContent ==
  /\ pc = "move_content"
  /\ line' = [line EXCEPT ![dst].key = line[src].key, ![dst].use = TRUE]
  /\ Persist({src, dst})
  /\ pc' = "move_owner"
  /\ UNCHANGED <<size, segs, op, locals, live, history>>

(* Mutant: the owner gains the new place and keeps the old one.            *)
MoveOwnerKeeps ==
  /\ pc = "move_owner"
  /\ line' = [line EXCEPT ![from].own = @ \cup {DistanceWrapped(BucketCount, from, dst)}]
  /\ Persist({from})
  /\ pc' = "move_free"
  /\ UNCHANGED <<size, segs, op, locals, live, history>>

MoveOwner ==
  /\ pc = "move_owner"
  /\ line' = [line EXCEPT ![from].own =
                (@ \cup {DistanceWrapped(BucketCount, from, dst)})
                   \ {DistanceWrapped(BucketCount, from, src)}]
  /\ Persist({from})
  /\ pc' = "move_free"
  /\ UNCHANGED <<size, segs, op, locals, live, history>>

(* content_erase leaves the bytes of a short key, which are not read again *)
(* once the flag is cleared.  The line is not persisted.                   *)
FreeContent ==
  /\ pc \in {"move_free", "erase_free"}
  /\ line' = [line EXCEPT ![src].use = FALSE, ![src].key = NoKey]
  /\ pc' = IF pc = "move_free" THEN "move_done" ELSE "erase_done"
  /\ UNCHANGED <<pm, size, segs, op, locals, live, history>>

(* Mutant: the bucket that became free is not taken over.                  *)
MoveDoneForgets ==
  /\ pc = "move_done"
  /\ SizeStable(size.n)
  /\ src' = 0 /\ from' = 0
  /\ pc' = "space"
  /\ UNCHANGED <<line, pm, segs, op, dst, ix, live, history>>

MoveDone ==
  /\ pc = "move_done"
  /\ SizeStable(size.n)
  /\ dst' = src /\ src' = 0 /\ from' = 0
  /\ pc' = "space"
  /\ UNCHANGED <<line, pm, segs, op, ix, live, history>>

(* emplace: the four steps of the change to the owner.                     *)
InsertStart ==
  /\ pc = "space" /\ ~OutOfReach
  /\ SizeUnstable
  /\ pc' = "insert_content"
  /\ UNCHANGED <<line, pm, segs, op, locals, live, history>>

(* Mutant: the content is not persisted before its owner.                  *)
InsertContentUnflushed ==
  /\ pc = "insert_content"
  /\ line' = [line EXCEPT ![dst].key = op.key, ![dst].use = TRUE]
  /\ pc' = "insert_owner"
  /\ UNCHANGED <<pm, size, segs, op, locals, live, history>>

InsertContent ==
  /\ pc = "insert_content"
  /\ line' = [line EXCEPT ![dst].key = op.key, ![dst].use = TRUE]
  /\ Persist({dst})
  /\ pc' = "insert_owner"
  /\ UNCHANGED <<size, segs, op, locals, live, history>>

InsertOwner ==
  /\ pc = "insert_owner"
  /\ line' = [line EXCEPT ![Home].own = @ \cup {DistanceWrapped(BucketCount, Home, dst)}]
  /\ Persist({Home})
  /\ pc' = "insert_done"
  /\ UNCHANGED <<size, segs, op, locals, live, history>>

InsertDone ==
  /\ pc = "insert_done"
  /\ SizeStable(size.n + 1)
  /\ told' = told \cup {op.key}
  /\ Return
  /\ UNCHANGED <<line, pm, segs, live, stale, crashes>>

(* erase of a key that is found; any other key is refused unchanged.       *)
Erase(k) ==
  /\ pc = "idle"
  /\ LocateKey(line, BucketCount, k) # {}
  /\ op' = [kind |-> "erase", key |-> k]
  /\ from' = BucketIx(BucketCount, k)
  /\ src' = (BucketIx(BucketCount, k) + Min(LocateKey(line, BucketCount, k))) % BucketCount
  /\ pm' = [pm EXCEPT ![src'] = line[src']]
  /\ SizeUnstable
  /\ pc' = "erase_owner"
  /\ UNCHANGED <<line, segs, dst, ix, live, history>>

(* The offset is a plain difference of indexes, shifted modulo the word.   *)
EraseOwner ==
  /\ pc = "erase_owner"
  /\ line' = [line EXCEPT ![from].own = @ \ {(src - from) % WordBits}]
  /\ Persist({from})
  /\ pc' = "erase_free"
  /\ UNCHANGED <<size, segs, op, locals, live, history>>

EraseDone ==
  /\ pc = "erase_done"
  /\ SizeStable(size.n - 1)
  /\ told' = told \ {op.key}
  /\ Return
  /\ UNCHANGED <<line, pm, segs, live, stale, crashes>>

(* Flags that say in use of contents nobody owns, in the program's view or *)
(* in persistent memory.                                                   *)
StaleFlags ==
  {c \in (0 .. BucketCount - 1) \ Owned(line, BucketCount) : line[c].use \/ pm[c].use}

(* resize: a new segment, copies of what has to move into it, persisted.   *)
ResizePass1 ==
  /\ pc = "resize"
  /\ line' = Pass1(line, BucketCount)
  /\ Persist(BucketCount .. 2 * BucketCount - 1)
  /\ stale' = (stale \/ StaleFlags # {})
  /\ pc' = "interlog"
  /\ UNCHANGED <<size, segs, op, locals, live, told, crashes>>

ResizeInterlog ==
  /\ pc = "interlog"
  /\ segs' = [segs EXCEPT !.unstable = TRUE]
  /\ pc' = "pass2" /\ ix' = 0
  /\ UNCHANGED <<line, pm, size, op, dst, src, from, live, history>>

Pass2Left == {i \in Pass2Todo(line, BucketCount) : i >= ix}

(* resize_pass2_adjust_owner, then the freeing of a content that moved.    *)
ResizeAdjustOwner ==
  /\ pc = "pass2" /\ Pass2Left # {}
  /\ ix' = Min(Pass2Left)
  /\ line' = Pass2Owners(line, BucketCount, {ix'})
  /\ pc' = "pass2_free"
  /\ UNCHANGED <<pm, size, segs, op, dst, src, from, live, history>>

ResizeFree ==
  /\ pc = "pass2_free"
  /\ line' = Pass2Erased(line, BucketCount, {ix})
  /\ LET h == BucketIx(BucketCount, Pass2Key(line, BucketCount, ix))
         flushed == IF Reowned(line, BucketCount, ix) THEN {h, BucketCount + h} ELSE {}
     IN pm' = [b \in Buckets |-> IF b \in flushed THEN line[b] ELSE pm[b]]
  /\ ix' = ix + 1
  /\ pc' = "pass2"
  /\ UNCHANGED <<size, segs, op, dst, src, from, live, history>>

(* The end of pass 2 and resize_epilog; then emplace retries, and looks    *)
(* for its key again, or the constructor goes on.                          *)
ResizeEpilog ==
  /\ pc = "pass2" /\ Pass2Left = {}
  /\ pm' = line
  /\ segs' = [n |-> segs.n + 1, unstable |-> FALSE]
  /\ IF live /\ LocateKey(line, 2 * BucketCount, op.key) # {}
     THEN Return
     ELSE /\ pc' = IF live THEN "probe" ELSE "scan"
          /\ ix' = 0
          /\ UNCHANGED <<op, dst, src, from>>
  /\ UNCHANGED <<line, size, live, history>>

(* The constructor, when the size was left unstable: the flags are brought *)
(* in line with the owners, one persisted bucket after the other.          *)
WrongFlags == {c \in 0 .. BucketCount - 1 : line[c].use # (c \in Owned(line, BucketCount))}

ScanElement ==
  /\ pc = "scan" /\ size.unstable /\ WrongFlags # {}
  /\ LET c == Min(WrongFlags)
     IN /\ line' = [line EXCEPT ![c].use = ~@]
        /\ Persist({c})
  /\ UNCHANGED <<size, segs, pc, op, locals, live, history>>

(* Mutant: the scan restores the flags and trusts the size.                *)
ScanDoneTrusts ==
  /\ pc = "scan"
  /\ size.unstable => WrongFlags = {}
  /\ SizeStable(size.n)
  /\ live' = TRUE
  /\ told' = Located(line, BucketCount)
  /\ Return
  /\ UNCHANGED <<line, pm, segs, stale, crashes>>

ScanDone ==
  /\ pc = "scan"
  /\ \/ /\ size.unstable /\ WrongFlags = {}
        /\ SizeStable(Cardinality(Owned(line, BucketCount)))
     \/ ~size.unstable /\ UNCHANGED size
  /\ live' = TRUE
  /\ told' = Located(line, BucketCount)
  /\ Return
  /\ UNCHANGED <<line, pm, segs, stale, crashes>>

(* The bound on failures: the ones after the first strike the recovery.    *)
MayFail == crashes < MaxCrashes /\ (crashes > 0 => ~live)

(* The cache writes back a dirty line when it pleases; it matters only if  *)
(* a failure is still to come.                                             *)
Evict(b) ==
  /\ MayFail
  /\ pm[b] # line[b]
  /\ pm' = [pm EXCEPT ![b] = line[b]]
  /\ UNCHANGED <<line, size, segs, pc, op, locals, live, history>>

(* Power fails; a segment not yet counted is lost.  The constructor first  *)
(* finishes a resize that had begun to change owners.                      *)
Crash ==
  /\ MayFail
  /\ crashes' = crashes + 1
  /\ line' = [b \in Buckets |->
                IF b < BucketCount \/ segs.unstable THEN pm[b] ELSE EmptyBucket]
  /\ pm' = line'
  /\ pc' = IF segs.unstable THEN "pass2" ELSE "scan"
  /\ dst' = 0 /\ src' = 0 /\ from' = 0 /\ ix' = 0
  /\ live' = FALSE
  /\ UNCHANGED <<size, segs, op, told, stale>>

Step ==
  \/ NearestFreeBucket \/ NoNearEmptyBucket
  \/ MoveStart \/ MoveContent \/ MoveOwner \/ FreeContent \/ MoveDone
  \/ InsertStart \/ InsertContent \/ InsertOwner \/ InsertDone
  \/ EraseOwner \/ EraseDone
  \/ ResizePass1 \/ ResizeInterlog \/ ResizeAdjustOwner \/ ResizeFree \/ ResizeEpilog
  \/ ScanElement \/ ScanDone

Next ==
  \/ \E k \in Keys : Emplace(k) \/ Erase(k)
  \/ Step
  \/ \E b \in Buckets : Evict(b)
  \/ Crash

Spec == Init /\ [][Next]_vars

-----------------------------------------------------------------------------
Bucket == [own : SUBSET Offsets, use : BOOLEAN, key : Keys \cup {NoKey}]

(* The variables keep their types; in particular an owner never owns       *)
(* beyond its reach, whatever is moved, erased or resized.                 *)
TypeOK ==
  /\ line \in [Buckets -> Bucket] /\ pm \in [Buckets -> Bucket]
  /\ size \in [n : Int, unstable : BOOLEAN]
  /\ segs \in [n : 1 .. MaxSegments, unstable : BOOLEAN]
  /\ op \in [kind : {"none", "emplace", "erase"}, key : Keys \cup {NoKey}]
  /\ {dst, src, from} \subseteq Buckets /\ ix \in Nat
  /\ told \subseteq Keys /\ crashes \in 0 .. MaxCrashes
  /\ live \in BOOLEAN /\ stale \in BOOLEAN

(* When no call is in progress the table holds exactly the keys the client *)
(* was told of, for the running program and after a failure, each of them  *)
(* once, and the size counts them (emplace, erase, resize, recovery).      *)
ToldDurable ==
  pc = "idle" /\ ~stale =>
    /\ told = Durable
    /\ told = Located(line, BucketCount)
    /\ size = [n |-> Cardinality(told), unstable |-> FALSE]
    /\ Cardinality(Owned(line, BucketCount)) = size.n

(* No content has two owners (the assertion of finish_owner_mask), for the *)
(* program and in persistent memory, outside pass 2 of a resize.           *)
OneOwner ==
  ~segs.unstable /\ ~stale =>
    \A c \in 0 .. BucketCount - 1 :
      /\ Cardinality(OwnersOf(line, BucketCount, c)) <= 1
      /\ Cardinality(OwnersOf(pm, BucketCount, c)) <= 1

(* In persistent memory an owned content always has its in-use flag, in    *)
(* the middle of every call too: reconstitute goes by the flag when it     *)
(* takes the memory of keys and values back from the heap.                 *)
OwnedMarked ==
  ~segs.unstable /\ ~stale => \A c \in Owned(pm, BucketCount) : pm[c].use

(* A step changes what is durable by the key of the call in progress only, *)
(* and a failure, an eviction and the recovery never change it: emplace    *)
(* and erase are atomic, moves and resizes are invisible.                  *)
DurableStep(keeps) ==
  \/ Durable' = Durable
  \/ keeps
  \/ live /\ op.kind = "emplace" /\ Durable' = Durable \cup {op.key}
  \/ live /\ op.kind = "erase" /\ Durable' = Durable \ {op.key}
AtomicCalls == [][DurableStep(stale')]_vars

(* The same without the exception of a resize that read a stale flag.      *)
NoResurrection == [][DurableStep(FALSE)]_vars

(* Each move of make_space_for_insert brings the free bucket nearer to the *)
(* home of the key, so that its loop ends.                                 *)
MovesApproach ==
  [][pc = "move_done" /\ pc' = "space" =>
       DistanceWrapped(BucketCount, Home, dst') < DistanceWrapped(BucketCount, Home, dst)]_vars
=============================================================================
