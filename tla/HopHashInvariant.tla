-------------------------- MODULE HopHashInvariant --------------------------
(***************************************************************************)
(* The inductive invariant of the hopscotch table, and that every step     *)
(* keeps it as long as no resize begins with stale in-use flags.           *)
(*                                                                         *)
(* What the client was told is not inductive: it needs that every owner    *)
(* bit leads to a content in use whose home is that owner (Well), that no  *)
(* key is led to twice (Unique), that persistent memory has the owners and *)
(* the contents in use of the cache (Agree), what a call in progress has   *)
(* found (PhaseInv), and during a resize that both copies of the table are *)
(* on the way from the old owners to the new ones (HalfWay), so that pass  *)
(* 2 may be done again from its beginning.                                 *)
(***************************************************************************)
EXTENDS HopHash, TLAPS

\* The number of buckets, and the bucket at an offset from another one.
N == BucketCount
Place(n, b, o) == (b + o) % n

\* What an owner bit leads to: a content in use, whose key has that owner for its home.
Well(L, n) == \A b \in 0 .. n - 1 : \A o \in L[b].own :
  /\ L[Place(n, b, o)].use
  /\ L[Place(n, b, o)].key \in Keys
  /\ BucketIx(n, L[Place(n, b, o)].key) = b

\* No owner leads to a key twice.
Unique(L, n) == \A b \in 0 .. n - 1 : \A o, p \in L[b].own :
  L[Place(n, b, o)].key = L[Place(n, b, p)].key => o = p

\* Outside a resize only the contents that became free may differ in persistent memory.
Agree(L, M, n) == \A b \in 0 .. n - 1 :
  /\ M[b].own = L[b].own
  /\ L[b].use => M[b].use /\ M[b].key = L[b].key

\* The table outside pass 2.
TableInv == ~segs.unstable => Well(line, N) /\ Unique(line, N) /\ Agree(line, pm, N)

\* Pass 2 of a resize: the offset of the content at i from its home, the offsets that an
\* owner of the old table had, and those of them that its junior takes over
OffsetOf(L, n, i) == DistanceWrapped(n, BucketIx(n, Pass2Key(L, n, i)), i)
Had(L, n, b) == {o \in Offsets : /\ Place(n, b, o) \in Pass2Todo(L, n)
                                 /\ BucketIx(n, Pass2Key(L, n, Place(n, b, o))) = b}
Leaves(L, n, b) == {o \in Had(L, n, b) : Reowned(L, n, Place(n, b, o))}
ResizedKeys(L, n) == {Pass2Key(L, n, i) : i \in Pass2Todo(L, n)}

\* Each content has a key of its own, is in reach of its home, and was copied to the new
\* segment if it may not stay.
Contents(L, n) ==
  /\ \A i \in Pass2Todo(L, n) :
       /\ Pass2Key(L, n, i) \in Keys
       /\ OffsetOf(L, n, i) \in Offsets
       /\ L[n + i].use <=> ~Stays(n, i, Pass2Key(L, n, i))
  /\ \A i, j \in Pass2Todo(L, n) : Pass2Key(L, n, i) = Pass2Key(L, n, j) => i = j

\* M, the cache or the memory, is on the way from the old table to the new one: nothing
\* but contents that were copied is missing, and owner bits are given up or taken over
\* only as pass 2 will do.
HalfWay(L, M, n) == \A b \in 0 .. n - 1 :
  /\ M[n + b].use = L[n + b].use /\ M[n + b].key = L[n + b].key
  /\ M[b].use => b \in Pass2Todo(L, n) /\ M[b].key = Pass2Key(L, n, b)
  /\ b \in Pass2Todo(L, n) => L[n + b].use \/ M[b].use
  /\ Had(L, n, b) \ Leaves(L, n, b) \subseteq M[b].own
  /\ M[b].own \subseteq Had(L, n, b)
  /\ M[n + b].own \subseteq Leaves(L, n, b)

\* What pass 2 has done when it is past the content at i.
Adjusted(L, n, i) ==
  Reowned(L, n, i) => /\ OffsetOf(L, n, i) \notin L[BucketIx(n, Pass2Key(L, n, i))].own
                      /\ OffsetOf(L, n, i) \in L[n + BucketIx(n, Pass2Key(L, n, i))].own
Cleared(L, n, i) == L[n + i].use => ~L[i].use

\* How far a resize has come.
Resizing == pc \in {"interlog", "pass2", "pass2_free"}
PassInv ==
  /\ pc = "interlog" => \A b \in 0 .. N - 1 : line[b].own = Had(line, N, b)
  /\ pc \in {"pass2", "pass2_free"} =>
       \A i \in Pass2Todo(line, N) : i < ix => Adjusted(line, N, i) /\ Cleared(line, N, i)
  /\ pc = "pass2_free" => ix \in Pass2Todo(line, N) /\ Adjusted(line, N, ix)

ResizeInv == Resizing => /\ segs.n < MaxSegments
                         /\ Contents(line, N) /\ HalfWay(line, line, N) /\ HalfWay(line, pm, N)
                         /\ PassInv

\* A content that is not in use, and one that no owner leads to.
Free(c) == c \in 0 .. N - 1 /\ ~line[c].use
Unowned(c) == c \in 0 .. N - 1 /\ c \notin Owned(line, N)

\* The keys of the table.
Present == IF Resizing THEN ResizedKeys(line, N) ELSE Located(line, N)

\* What a call in progress has found, and the phases of the calls.
Emplacing == {"probe", "space", "move_content", "move_owner", "move_free", "move_done",
              "insert_content", "insert_owner", "insert_done", "resize"}
Erasing == {"erase_owner", "erase_free", "erase_done"}
Moving == {"move_content", "move_owner", "move_free", "move_done"}

PhaseInv ==
  /\ pc \in {"idle", "scan", "interlog", "pass2", "pass2_free"} \cup Emplacing \cup Erasing
  /\ live => pc # "scan"
  /\ ~live => pc \in {"scan", "pass2", "pass2_free"}
  /\ segs.unstable <=> pc \in {"pass2", "pass2_free"}
  /\ pc = "resize" => segs.n < MaxSegments
  /\ pc \in {"space", "insert_content", "move_content"} => Free(dst)
  /\ pc = "insert_content" \/ pc = "insert_owner" => ~OutOfReach
  /\ pc = "insert_owner" => Unowned(dst) /\ line[dst].use /\ line[dst].key = op.key
  /\ pc \in Moving => /\ {src, from, dst} \subseteq 0 .. N - 1
                      /\ DistanceWrapped(N, from, src) < DistanceWrapped(N, from, dst)
                      /\ DistanceWrapped(N, from, dst) < OwnerSize
                      /\ DistanceWrapped(N, Home, src) < DistanceWrapped(N, Home, dst)
  /\ pc \in {"move_content", "move_owner"} => DistanceWrapped(N, from, src) \in line[from].own
  /\ pc = "move_owner" => Unowned(dst) /\ line[dst].use /\ line[dst].key = line[src].key
  /\ pc = "move_free" => Unowned(src)
  /\ pc = "move_done" => Free(src)
  /\ pc = "erase_owner" => /\ {src, from} \subseteq 0 .. N - 1
                           /\ from = Home /\ DistanceWrapped(N, from, src) \in line[from].own
                           /\ line[src].key = op.key
  /\ pc = "erase_free" => Unowned(src)

\* What the client was told against the keys of the table.
ToldInv ==
  /\ live => told = CASE pc = "insert_done" -> Present \ {op.key}
                      [] pc \in {"erase_free", "erase_done"} -> Present \cup {op.key}
                      [] OTHER -> Present
  /\ live /\ pc \in Emplacing \cup {"interlog", "pass2", "pass2_free"} =>
       op.kind = "emplace" /\ op.key \in Keys /\ (op.key \in Present <=> pc = "insert_done")
  /\ pc \in Erasing => op.kind = "erase" /\ op.key \in Keys /\ (op.key \in Present <=> pc = "erase_owner")
  /\ live => (size.unstable <=> pc \in Moving \cup Erasing \cup {"insert_content", "insert_owner", "insert_done"})

IInv == TypeOK /\ TableInv /\ ResizeInv /\ PhaseInv /\ ToldInv

\* The size counts the keys that the client was told of, and those of the table unless it
\* says otherwise.
SizeInv ==
  /\ live => size.n = Cardinality(told)
  /\ ~size.unstable => size.n = Cardinality(Present)
-----------------------------------------------------------------------------
(* Arithmetic of indexes *)

\* Division with remainder.
LEMMA Quotient ==
  ASSUME NEW a \in Int, NEW n \in Nat \ {0}
  PROVE  a \div n \in Int /\ a % n \in 0 .. n - 1 /\ a = n * (a \div n) + (a % n)
OBVIOUS

\* The remainder is the only one in its range.
LEMMA Remainder ==
  ASSUME NEW n \in Nat \ {0}, NEW q \in Int, NEW r \in 0 .. n - 1, NEW a \in Int, a = n * q + r
  PROVE  a % n = r
OBVIOUS

\* The bucket at an offset from another one, around the end of the table, and back.
LEMMA PlaceAt ==
  ASSUME NEW n \in Nat \ {0}, NEW b \in 0 .. n - 1, NEW o \in 0 .. n - 1
  PROVE  /\ Place(n, b, o) = IF b + o < n THEN b + o ELSE b + o - n
         /\ Place(n, b, o) \in 0 .. n - 1
         /\ DistanceWrapped(n, b, Place(n, b, o)) = o
<1>1. Place(n, b, o) = IF b + o < n THEN b + o ELSE b + o - n
  <2>1. CASE b + o < n
    <3>1. b + o \in 0 .. n - 1
      BY <2>1
    <3> QED BY <2>1, <3>1 DEF Place
  <2>2. CASE b + o >= n
    <3>1. b + o \in n .. 2 * n - 1
      BY <2>2
    <3>2. (b + o) % n = b + o - n
      BY <3>1
    <3> QED BY <2>2, <3>2 DEF Place
  <2> QED BY <2>1, <2>2
<1>2. Place(n, b, o) \in 0 .. n - 1
  BY <1>1
<1>3. DistanceWrapped(n, b, Place(n, b, o)) = o
  <2>1. CASE b + o < n
    BY <1>1, <2>1 DEF DistanceWrapped
  <2>2. CASE b + o >= n
    <3>1. Place(n, b, o) - b \in -n .. -1 /\ Place(n, b, o) - b + n = o
      BY <1>1, <2>2
    <3> QED BY <3>1 DEF DistanceWrapped
  <2> QED BY <2>1, <2>2
<1> QED BY <1>1, <1>2, <1>3, Zenon

\* The offset of a bucket from another one, around the end of the table, and back.
LEMMA DistanceTo ==
  ASSUME NEW n \in Nat \ {0}, NEW b \in 0 .. n - 1, NEW c \in 0 .. n - 1
  PROVE  /\ DistanceWrapped(n, b, c) = IF b <= c THEN c - b ELSE c - b + n
         /\ DistanceWrapped(n, b, c) \in 0 .. n - 1
         /\ Place(n, b, DistanceWrapped(n, b, c)) = c
<1>1. DistanceWrapped(n, b, c) = IF b <= c THEN c - b ELSE c - b + n
  <2>1. CASE b <= c
    <3>1. c - b \in 0 .. n - 1
      BY <2>1
    <3> QED BY <2>1, <3>1 DEF DistanceWrapped
  <2>2. CASE b > c
    <3>1. c - b \in -n .. -1
      BY <2>2
    <3>2. (c - b) % n = c - b + n
      BY <3>1
    <3> QED BY <2>2, <3>2 DEF DistanceWrapped
  <2> QED BY <2>1, <2>2
<1>2. DistanceWrapped(n, b, c) \in 0 .. n - 1
  BY <1>1
<1>3. PICK d \in 0 .. n - 1 : d = DistanceWrapped(n, b, c)
  BY <1>2, Zenon
<1>4. Place(n, b, d) = IF b + d < n THEN b + d ELSE b + d - n
  BY PlaceAt, Zenon
<1>5. Place(n, b, d) = c
  BY <1>1, <1>3, <1>4
<1> QED BY <1>1, <1>2, <1>3, <1>5, Zenon

\* The home of a key, and its home in the table of twice the size.
LEMMA HomeRange ==
  ASSUME NEW n \in Nat \ {0}, NEW k \in Keys
  PROVE  BucketIx(n, k) \in 0 .. n - 1
<1>1. HashOf[k] \in Int
  BY HopHashAssumption
<1> QED BY <1>1, Quotient, Zenon DEF BucketIx

\* In a doubled table the home of a key is where it was or one old table further.
LEMMA HomeDoubles ==
  ASSUME NEW n \in Nat \ {0}, NEW k \in Keys
  PROVE  BucketIx(2 * n, k) = BucketIx(n, k) \/ BucketIx(2 * n, k) = BucketIx(n, k) + n
<1>1. PICK a \in Int : a = HashOf[k]
  BY HopHashAssumption
<1>2. PICK q \in Int, r \in 0 .. 2 * n - 1 : a = (2 * n) * q + r /\ r = a % (2 * n)
  <2>1. 2 * n \in Nat \ {0}
    OBVIOUS
  <2> QED BY <2>1, Quotient, Zenon
<1>3. CASE r < n
  <2>1. a = n * (2 * q) + r /\ 2 * q \in Int /\ r \in 0 .. n - 1
    BY <1>2, <1>3
  <2>2. a % n = r
    BY <2>1, Remainder
  <2> QED BY <1>1, <1>2, <2>2, Zenon DEF BucketIx
<1>4. CASE r >= n
  <2>1. PICK y \in Int, t \in 0 .. n - 1 : y = 2 * q + 1 /\ t = r - n
    <3>1. 2 * q + 1 \in Int /\ r - n \in 0 .. n - 1
      BY <1>4
    <3> QED BY <3>1, Zenon
  <2>2. a = n * y + t
    BY <1>2, <2>1
  <2>3. a % n = t
    BY <2>2, Remainder, ZenonT(60)
  <2> QED BY <1>1, <1>2, <2>1, <2>3 DEF BucketIx
<1> QED BY <1>3, <1>4

\* The size of the table: it covers the reach of an owner twice, lies within the segments
\* there is room for, and is a multiple of the width of the owner word.
LEMMA Sizes ==
  ASSUME segs \in [n : 1 .. MaxSegments, unstable : BOOLEAN]
  PROVE  /\ N \in Nat \ {0} /\ MaxBuckets \in Nat /\ 2 * OwnerSize <= N /\ N <= MaxBuckets
         /\ 0 .. N - 1 \subseteq Buckets /\ Offsets \subseteq 0 .. N - 1
         /\ segs.n < MaxSegments => 2 * N <= MaxBuckets
         /\ \E q \in Nat : N = WordBits * q
<1>1. PICK m \in 0 .. MaxSegments - 1 : m = segs.n - 1 /\ MaxSegments \in Nat \ {0}
  BY HopHashAssumption
<1>2. PICK p \in Nat \ {0} : p = 2^m
  BY <1>1, PowersAssumption
<1>3. PICK t \in Nat \ {0} : t = 2^(MaxSegments - 1) /\ p <= t
  BY <1>1, <1>2, PowersAssumption
<1>4. PICK z \in Nat \ {0} : z = BaseSize
  BY HopHashAssumption, Zenon
<1>5. N = z * p /\ MaxBuckets = z * t
  BY <1>1, <1>2, <1>3, <1>4, Zenon DEF N, BucketCount, MaxBuckets
<1>6. z * p \in Nat \ {0} /\ z <= z * p /\ z * p <= z * t /\ z * t \in Nat
  BY <1>3
<1>7. OwnerSize \in Nat \ {0} /\ 2 * OwnerSize <= z
  BY <1>4, HopHashAssumption, Zenon
<1>8. segs.n < MaxSegments => 2 * N <= MaxBuckets
  <2>1. SUFFICES ASSUME segs.n < MaxSegments PROVE 2 * p <= t
    <3>1. 2 * p <= t => z * (2 * p) <= z * t
      OBVIOUS
    <3>2. z * (2 * p) = 2 * (z * p)
      OBVIOUS
    <3> QED BY <1>5, <2>1, <3>1, <3>2, Zenon
  <2>2. 2^(m + 1) = 2 * p /\ m + 1 \in 0 .. MaxSegments /\ m + 1 <= MaxSegments - 1
    BY <1>1, <1>2, <2>1, PowersAssumption
  <2> QED BY <1>1, <1>3, <2>2, PowersAssumption
<1>9. \E q \in Nat : N = WordBits * q
  <2>1. WordBits \in Nat \ {0} /\ z % WordBits = 0
    BY <1>4, HopHashAssumption
  <2>2. PICK y \in Int : z = WordBits * y
    <3>1. z \in Int
      OBVIOUS
    <3>2. z = WordBits * (z \div WordBits) + (z % WordBits) /\ z \div WordBits \in Int
      BY <2>1, <3>1, Quotient, Zenon
    <3>3. WordBits * (z \div WordBits) + 0 = WordBits * (z \div WordBits)
      BY <2>1, <3>2
    <3> QED BY <2>1, <3>2, <3>3, Zenon
  <2>3. y \in Nat
    BY <2>1, <2>2
  <2>4. z * p = WordBits * (y * p) /\ y * p \in Nat
    BY <2>1, <2>2, <2>3
  <2> QED BY <1>5, <2>4, Zenon
<1>10. N \in Nat \ {0} /\ MaxBuckets \in Nat /\ 2 * OwnerSize <= N /\ N <= MaxBuckets
  BY <1>5, <1>6, <1>7
<1>11. 0 .. N - 1 \subseteq Buckets /\ Offsets \subseteq 0 .. N - 1
  BY <1>7, <1>10 DEF Buckets, Offsets
<1> QED BY <1>8, <1>9, <1>10, <1>11, Zenon

\* One more segment doubles the table (bucket_count).
LEMMA SizeDoubles ==
  ASSUME segs \in [n : 1 .. MaxSegments, unstable : BOOLEAN], segs.n < MaxSegments,
         segs'.n = segs.n + 1
  PROVE  N' = 2 * N
<1>1. PICK m \in 0 .. MaxSegments - 1 : m = segs.n - 1 /\ MaxSegments \in Nat \ {0}
  BY HopHashAssumption
<1>2. PICK p \in Nat \ {0} : p = 2^m
  BY <1>1, PowersAssumption
<1>3. 2^(m + 1) = 2 * p /\ segs'.n - 1 = m + 1
  BY <1>1, <1>2, PowersAssumption
<1>4. PICK z \in Nat \ {0} : z = BaseSize
  BY HopHashAssumption, Zenon
<1>5. N = z * p /\ N' = z * (2 * p)
  BY <1>1, <1>2, <1>3, <1>4, Zenon DEF N, BucketCount
<1> QED BY <1>5

\* A plain difference of indexes gives the offset modulo the width of the owner word.
LEMMA WordOffset ==
  ASSUME NEW n \in Nat \ {0}, NEW q \in Nat, n = WordBits * q, NEW b \in 0 .. n - 1, NEW c \in 0 .. n - 1,
         DistanceWrapped(n, b, c) \in Offsets
  PROVE  (c - b) % WordBits = DistanceWrapped(n, b, c)
<1>1. WordBits \in Nat \ {0} /\ OwnerSize < WordBits /\ OwnerSize \in Nat
  BY HopHashAssumption
<1>2. PICK d \in 0 .. WordBits - 1 : d = DistanceWrapped(n, b, c)
  BY <1>1 DEF Offsets
<1>3. CASE b <= c
  <2>1. c - b = d
    BY <1>2, <1>3, DistanceTo, Zenon
  <2>2. d % WordBits = d
    BY <1>1
  <2> QED BY <1>2, <2>1, <2>2, Zenon
<1>4. CASE b > c
  <2>1. c - b = d - n
    BY <1>2, <1>4, DistanceTo
  <2>2. c - b = WordBits * (0 - q) + d
    BY <1>1, <2>1
  <2>3. c - b \in Int /\ 0 - q \in Int
    OBVIOUS
  <2>4. (c - b) % WordBits = d
    BY <1>1, <2>2, <2>3, Remainder, ZenonT(60)
  <2> QED BY <1>2, <2>4, Zenon
<1> QED BY <1>3, <1>4
-----------------------------------------------------------------------------
(* Tables: what owners lead to *)

Table == [Buckets -> Bucket]
Sized(n) == n \in Nat \ {0} /\ 0 .. n - 1 \subseteq Buckets /\ Offsets \subseteq 0 .. n - 1

\* An owned content is what some owner leads to.
LEMMA OwnedBy ==
  ASSUME NEW n, Sized(n), NEW L \in Table, NEW c
  PROVE  c \in Owned(L, n) <=> \E b \in 0 .. n - 1 : \E o \in L[b].own : c = Place(n, b, o)
<1>1. \A b \in 0 .. n - 1 : L[b].own \subseteq 0 .. n - 1
  BY Zenon DEF Sized, Table, Bucket
<1>2. ASSUME c \in Owned(L, n) PROVE \E b \in 0 .. n - 1 : \E o \in L[b].own : c = Place(n, b, o)
  <2>1. c \in 0 .. n - 1
    BY <1>2, Zenon DEF Owned
  <2>2. PICK b \in 0 .. n - 1 : DistanceWrapped(n, b, c) \in L[b].own
    BY <1>2, Zenon DEF Owned, OwnersOf
  <2>3. Place(n, b, DistanceWrapped(n, b, c)) = c
    BY <2>1, DistanceTo, Zenon DEF Sized
  <2> QED BY <2>2, <2>3, Zenon
<1>3. ASSUME NEW b \in 0 .. n - 1, NEW o \in L[b].own, c = Place(n, b, o) PROVE c \in Owned(L, n)
  <2>1. o \in 0 .. n - 1
    BY <1>1, Zenon
  <2>2. c \in 0 .. n - 1 /\ DistanceWrapped(n, b, c) = o
    BY <1>3, <2>1, PlaceAt, Zenon DEF Sized
  <2>3. b \in OwnersOf(L, n, c)
    BY <2>2, Zenon DEF OwnersOf
  <2> QED BY <2>2, <2>3, Zenon DEF Owned
<1> QED BY <1>2, <1>3, Zenon

\* The keys of a table are those of its owned contents.
LEMMA LocatedBy ==
  ASSUME NEW n, Sized(n), NEW L \in Table, Well(L, n), NEW k
  PROVE  /\ k \in Located(L, n) <=> \E b \in 0 .. n - 1 : \E o \in L[b].own : k = L[Place(n, b, o)].key
         /\ k \in Located(L, n) <=> \E c \in Owned(L, n) : k = L[c].key
<1>1. ASSUME k \in Located(L, n)
      PROVE  \E b \in 0 .. n - 1 : \E o \in L[b].own : k = L[Place(n, b, o)].key
  <2>1. k \in Keys /\ LocateKey(L, n, k) # {}
    BY <1>1, Zenon DEF Located
  <2>2. PICK o \in L[BucketIx(n, k)].own : L[(BucketIx(n, k) + o) % n].key = k
    BY <2>1, Zenon DEF LocateKey
  <2>3. BucketIx(n, k) \in 0 .. n - 1
    BY <2>1, HomeRange, Zenon DEF Sized
  <2> QED BY <2>2, <2>3, Zenon DEF Place
<1>2. ASSUME NEW b \in 0 .. n - 1, NEW o \in L[b].own, k = L[Place(n, b, o)].key
      PROVE  k \in Located(L, n)
  <2>1. k \in Keys /\ BucketIx(n, k) = b
    BY <1>2, Zenon DEF Well
  <2>2. o \in LocateKey(L, n, k)
    BY <1>2, <2>1, Zenon DEF LocateKey, Place
  <2> QED BY <2>1, <2>2, Zenon DEF Located
<1>3. (\E b \in 0 .. n - 1 : \E o \in L[b].own : k = L[Place(n, b, o)].key) <=> \E c \in Owned(L, n) : k = L[c].key
  BY OwnedBy
<1> QED BY <1>1, <1>2, <1>3, Zenon

\* Well and Unique say of contents that they have one owner, and no two of them a key.
LEMMA OwnedKeys ==
  ASSUME NEW n, Sized(n), NEW L \in Table, Well(L, n), Unique(L, n)
  PROVE  /\ \A c \in Owned(L, n) : L[c].use /\ L[c].key \in Keys /\ OwnersOf(L, n, c) = {BucketIx(n, L[c].key)}
         /\ \A c, d \in Owned(L, n) : L[c].key = L[d].key => c = d
<1>1. ASSUME NEW c \in Owned(L, n)
      PROVE  L[c].use /\ L[c].key \in Keys /\ OwnersOf(L, n, c) = {BucketIx(n, L[c].key)}
  <2>1. c \in 0 .. n - 1
    BY Zenon DEF Owned
  <2>2. ASSUME NEW b \in OwnersOf(L, n, c)
        PROVE  L[c].use /\ L[c].key \in Keys /\ b = BucketIx(n, L[c].key)
    <3>1. b \in 0 .. n - 1 /\ DistanceWrapped(n, b, c) \in L[b].own
      BY Zenon DEF OwnersOf
    <3>2. Place(n, b, DistanceWrapped(n, b, c)) = c
      BY <2>1, <3>1, DistanceTo, Zenon DEF Sized
    <3> QED BY <3>1, <3>2, Zenon DEF Well
  <2>3. OwnersOf(L, n, c) # {}
    BY Zenon DEF Owned
  <2> QED BY <2>2, <2>3, Zenon
<1>2. ASSUME NEW c \in Owned(L, n), NEW d \in Owned(L, n), L[c].key = L[d].key PROVE c = d
  <2>1. PICK b \in 0 .. n - 1 : \E o \in L[b].own : c = Place(n, b, o)
    BY OwnedBy
  <2>2. PICK e \in 0 .. n - 1 : \E p \in L[e].own : d = Place(n, e, p)
    BY OwnedBy
  <2>3. b = e
    BY <1>2, <2>1, <2>2 DEF Well
  <2> QED BY <1>2, <2>1, <2>2, <2>3, Zenon DEF Unique
<1> QED BY <1>1, <1>2, Zenon

\* Two owner bits lead to different contents.
LEMMA PlacesDiffer ==
  ASSUME NEW n, Sized(n), NEW L \in Table, Well(L, n),
         NEW b \in 0 .. n - 1, NEW o \in L[b].own, NEW e \in 0 .. n - 1, NEW p \in L[e].own,
         Place(n, b, o) = Place(n, e, p)
  PROVE  b = e /\ o = p
<1>1. b = e
  BY DEF Well
<1>2. o \in 0 .. n - 1 /\ p \in 0 .. n - 1
  BY Zenon DEF Sized, Table, Bucket
<1>3. DistanceWrapped(n, b, Place(n, b, o)) = o /\ DistanceWrapped(n, e, Place(n, e, p)) = p
  BY <1>2, PlaceAt, Zenon DEF Sized
<1> QED BY <1>1, <1>3, Zenon

\* A table that has the same owner bits and the same owned contents is as good.
Same(L, M, n) == \A b \in 0 .. n - 1 :
  /\ M[b].own = L[b].own
  /\ b \in Owned(L, n) => M[b].use = L[b].use /\ M[b].key = L[b].key

\* Two tables whose owners and owned contents agree hold the same keys.
LEMMA SameTable ==
  ASSUME NEW n, Sized(n), NEW L \in Table, NEW M \in Table, Well(L, n), Unique(L, n), Same(L, M, n)
  PROVE  Well(M, n) /\ Unique(M, n) /\ Owned(M, n) = Owned(L, n) /\ Located(M, n) = Located(L, n)
<1>1. \A b \in 0 .. n - 1 : \A o \in L[b].own : Place(n, b, o) \in Owned(L, n)
  BY OwnedBy, Zenon
<1>2. \A b \in 0 .. n - 1 : M[b].own = L[b].own
  BY Zenon DEF Same
<1>3. \A b \in 0 .. n - 1 : \A o \in L[b].own :
        M[Place(n, b, o)].use = L[Place(n, b, o)].use /\ M[Place(n, b, o)].key = L[Place(n, b, o)].key
  <2>1. Owned(L, n) \subseteq 0 .. n - 1
    BY Zenon DEF Owned
  <2> QED BY <1>1, <2>1, Zenon DEF Same
<1>4. Well(M, n)
  BY <1>2, <1>3, Zenon DEF Well
<1>5. Unique(M, n)
  BY <1>2, <1>3, ZenonT(60) DEF Unique
<1>6. Owned(M, n) = Owned(L, n)
  <2>1. \A c \in 0 .. n - 1 : OwnersOf(M, n, c) = OwnersOf(L, n, c)
    BY <1>2, Zenon DEF OwnersOf
  <2> QED BY <2>1, Zenon DEF Owned
<1>7. ASSUME NEW k PROVE k \in Located(M, n) <=> k \in Located(L, n)
  BY <1>2, <1>3, <1>4, LocatedBy
<1> QED BY <1>4, <1>5, <1>6, <1>7, Zenon

\* M is L, but for the owner bits of bucket b.
Rebit(L, M, n, b, S) ==
  /\ M[b].own = S
  /\ \A c \in 0 .. n - 1 : M[c].use = L[c].use /\ M[c].key = L[c].key /\ (c # b => M[c].own = L[c].own)

\* Setting the bits of one owner is Rebit.
LEMMA RebitExcept ==
  ASSUME NEW n, Sized(n), NEW L \in Table, NEW b \in 0 .. n - 1, NEW S \in SUBSET Offsets
  PROVE  [L EXCEPT ![b].own = S] \in Table /\ Rebit(L, [L EXCEPT ![b].own = S], n, b, S)
BY DEF Table, Bucket, Rebit, Sized

\* A key that the table did not have is added by the owner bit that leads to it.
LEMMA AddBit ==
  ASSUME NEW n, Sized(n), NEW L \in Table, Well(L, n), Unique(L, n),
         NEW k \in Keys, k \notin Located(L, n), NEW c \in 0 .. n - 1, L[c].use, L[c].key = k,
         NEW d \in Offsets, d = DistanceWrapped(n, BucketIx(n, k), c),
         NEW M \in Table, Rebit(L, M, n, BucketIx(n, k), L[BucketIx(n, k)].own \cup {d})
  PROVE  Well(M, n) /\ Unique(M, n) /\ Located(M, n) = Located(L, n) \cup {k}
<1>1. PICK h \in 0 .. n - 1 : h = BucketIx(n, k)
  BY HomeRange, Zenon DEF Sized
<1>4. /\ M[h].own = L[h].own \cup {d}
      /\ \A b \in 0 .. n - 1 : b # h => M[b].own = L[b].own
      /\ \A b \in 0 .. n - 1 : M[b].use = L[b].use /\ M[b].key = L[b].key
  BY <1>1, Zenon DEF Rebit
<1>5. Place(n, h, d) = c
  BY <1>1, DistanceTo, Zenon DEF Sized
<1>6. \A b \in 0 .. n - 1 : \A o \in L[b].own : Place(n, b, o) \in 0 .. n - 1
  <2>1. \A b \in 0 .. n - 1 : \A o \in L[b].own : o \in 0 .. n - 1
    BY Zenon DEF Sized, Table, Bucket
  <2> QED BY <2>1, PlaceAt, Zenon DEF Sized
<1>7. \A b \in 0 .. n - 1 : \A o \in M[b].own : o \in L[b].own \/ (b = h /\ o = d)
  BY <1>4, Zenon
<1>8. Well(M, n)
  BY <1>1, <1>4, <1>5, <1>6, <1>7 DEF Well
<1>9. ASSUME NEW o \in L[h].own, L[Place(n, h, o)].key = k PROVE FALSE
  BY <1>9, LocatedBy
<1>10. Unique(M, n)
  <2>1. SUFFICES ASSUME NEW b \in 0 .. n - 1, NEW o \in M[b].own, NEW p \in M[b].own,
                        M[Place(n, b, o)].key = M[Place(n, b, p)].key
                 PROVE  o = p
    BY Zenon DEF Unique
  <2>2. CASE o \in L[b].own /\ p \in L[b].own
    <3>1. L[Place(n, b, o)].key = L[Place(n, b, p)].key
      BY <1>4, <1>6, <2>1, <2>2, Zenon
    <3> QED BY <2>2, <3>1, Zenon DEF Unique
  <2>3. CASE b = h /\ o = d /\ p \in L[b].own
    <3>1. L[Place(n, h, p)].key = k
      BY <1>4, <1>5, <1>6, <2>1, <2>3
    <3> QED BY <1>9, <2>3, <3>1, Zenon
  <2>4. CASE b = h /\ p = d /\ o \in L[b].own
    <3>1. L[Place(n, h, o)].key = k
      BY <1>4, <1>5, <1>6, <2>1, <2>4
    <3> QED BY <1>9, <2>4, <3>1, Zenon
  <2> QED BY <1>7, <2>2, <2>3, <2>4, Zenon
<1>11. ASSUME NEW x PROVE x \in Located(M, n) <=> x \in Located(L, n) \/ x = k
  <2>1. x \in Located(M, n) <=> \E b \in 0 .. n - 1 : \E o \in M[b].own : x = M[Place(n, b, o)].key
    BY <1>8, LocatedBy
  <2>2. x \in Located(L, n) <=> \E b \in 0 .. n - 1 : \E o \in L[b].own : x = L[Place(n, b, o)].key
    BY LocatedBy
  <2>3. x \in Located(M, n) => x \in Located(L, n) \/ x = k
    BY <1>4, <1>5, <1>6, <1>7, <2>1, <2>2
  <2>4. x \in Located(L, n) => x \in Located(M, n)
    <3>1. \A b \in 0 .. n - 1 : L[b].own \subseteq M[b].own
      BY <1>4, Zenon
    <3> QED BY <1>4, <1>6, <2>1, <2>2, <3>1
  <2>5. k \in Located(M, n)
    <3>1. d \in M[h].own /\ k = M[Place(n, h, d)].key
      BY <1>4, <1>5, Zenon
    <3>2. k \in Located(M, n) <=> \E b \in 0 .. n - 1 : \E o \in M[b].own : k = M[Place(n, b, o)].key
      BY <1>8, LocatedBy
    <3> QED BY <3>1, <3>2, Zenon
  <2> QED BY <2>3, <2>4, <2>5, Zenon
<1> QED BY <1>8, <1>10, <1>11, Zenon

\* Without its owner bit a key is not in the table, and its content is not owned.
LEMMA RemoveBit ==
  ASSUME NEW n, Sized(n), NEW L \in Table, Well(L, n), Unique(L, n),
         NEW b \in 0 .. n - 1, NEW d \in L[b].own, NEW M \in Table, Rebit(L, M, n, b, L[b].own \ {d})
  PROVE  /\ Well(M, n) /\ Unique(M, n)
         /\ \A k : k \in Located(M, n) <=> k \in Located(L, n) /\ k # L[Place(n, b, d)].key
         /\ Place(n, b, d) \notin Owned(M, n)
<1>4. /\ M[b].own = L[b].own \ {d}
      /\ \A e \in 0 .. n - 1 : e # b => M[e].own = L[e].own
      /\ \A e \in 0 .. n - 1 : M[e].use = L[e].use /\ M[e].key = L[e].key
  BY Zenon DEF Rebit
<1>5. \A e \in 0 .. n - 1 : \A o : o \in M[e].own <=> o \in L[e].own /\ ~(e = b /\ o = d)
  BY <1>4, Zenon
<1>6. \A e \in 0 .. n - 1 : \A o \in L[e].own : Place(n, e, o) \in 0 .. n - 1
  <2>1. \A e \in 0 .. n - 1 : \A o \in L[e].own : o \in 0 .. n - 1
    BY Zenon DEF Sized, Table, Bucket
  <2> QED BY <2>1, PlaceAt, Zenon DEF Sized
<1>7. Well(M, n)
  BY <1>4, <1>5, <1>6 DEF Well
<1>8. Unique(M, n)
  BY <1>4, <1>5, <1>6 DEF Unique
<1>9. ASSUME NEW x PROVE x \in Located(M, n) <=> x \in Located(L, n) /\ x # L[Place(n, b, d)].key
  <2>1. x \in Located(M, n) <=> \E e \in 0 .. n - 1 : \E o \in M[e].own : x = M[Place(n, e, o)].key
    BY <1>7, LocatedBy
  <2>2. x \in Located(L, n) <=> \E e \in 0 .. n - 1 : \E o \in L[e].own : x = L[Place(n, e, o)].key
    BY LocatedBy
  <2>3. \A e \in 0 .. n - 1 : \A o \in L[e].own :
          L[Place(n, e, o)].key = L[Place(n, b, d)].key => e = b /\ o = d
    <3>1. \A e \in 0 .. n - 1 : \A o \in L[e].own : L[Place(n, e, o)].key = L[Place(n, b, d)].key => e = b
      BY DEF Well
    <3> QED BY <3>1, Zenon DEF Unique
  <2> QED BY <1>4, <1>5, <1>6, <2>1, <2>2, <2>3
<1>10. ASSUME NEW c PROVE c \in Owned(M, n) <=> c \in Owned(L, n) /\ c # Place(n, b, d)
  <2>1. c \in Owned(M, n) <=> \E e \in 0 .. n - 1 : \E o \in M[e].own : c = Place(n, e, o)
    BY OwnedBy
  <2>2. c \in Owned(L, n) <=> \E e \in 0 .. n - 1 : \E o \in L[e].own : c = Place(n, e, o)
    BY OwnedBy
  <2>3. \A e \in 0 .. n - 1 : \A o \in L[e].own : Place(n, e, o) = Place(n, b, d) => e = b /\ o = d
    BY PlacesDiffer, Zenon
  <2> QED BY <1>5, <2>1, <2>2, <2>3, Zenon
<1> QED BY <1>7, <1>8, <1>9, <1>10, Zenon

\* An owner bit moves from a content to its copy.
LEMMA MoveBit ==
  ASSUME NEW n, Sized(n), NEW L \in Table, Well(L, n), Unique(L, n),
         NEW b \in 0 .. n - 1, NEW d \in L[b].own, NEW e \in Offsets,
         Place(n, b, e) \notin Owned(L, n), L[Place(n, b, e)].use,
         L[Place(n, b, e)].key = L[Place(n, b, d)].key,
         NEW M \in Table, Rebit(L, M, n, b, (L[b].own \cup {e}) \ {d})
  PROVE  /\ Well(M, n) /\ Unique(M, n) /\ Located(M, n) = Located(L, n)
         /\ Place(n, b, d) \notin Owned(M, n)
<1>2. d \in 0 .. n - 1 /\ e \in 0 .. n - 1
  BY Zenon DEF Sized, Table, Bucket
<1>3. /\ M[b].own = (L[b].own \cup {e}) \ {d}
      /\ \A c \in 0 .. n - 1 : c # b => M[c].own = L[c].own
      /\ \A c \in 0 .. n - 1 : M[c].use = L[c].use /\ M[c].key = L[c].key
  BY Zenon DEF Rebit
<1>4. L[Place(n, b, d)].key \in Keys /\ BucketIx(n, L[Place(n, b, d)].key) = b
  BY Zenon DEF Well
<1>5. Place(n, b, e) \in 0 .. n - 1 /\ e # d
  <2>1. Place(n, b, e) \in 0 .. n - 1
    BY <1>2, PlaceAt, Zenon DEF Sized
  <2> QED BY <2>1, OwnedBy, Zenon
<1>6. \A c \in 0 .. n - 1 : \A o \in M[c].own : (o \in L[c].own /\ ~(c = b /\ o = d)) \/ (c = b /\ o = e)
  BY <1>3
<1>7. \A c \in 0 .. n - 1 : \A o \in L[c].own : Place(n, c, o) \in 0 .. n - 1
  <2>1. \A c \in 0 .. n - 1 : \A o \in L[c].own : o \in 0 .. n - 1
    BY Zenon DEF Sized, Table, Bucket
  <2> QED BY <2>1, PlaceAt, Zenon DEF Sized
<1>8. Well(M, n)
  BY <1>3, <1>4, <1>5, <1>6, <1>7 DEF Well
<1>9. Unique(M, n)
  <2>1. SUFFICES ASSUME NEW c \in 0 .. n - 1, NEW o \in M[c].own, NEW p \in M[c].own,
                        M[Place(n, c, o)].key = M[Place(n, c, p)].key
                 PROVE  o = p
    BY Zenon DEF Unique
  <2>2. ASSUME NEW q \in L[b].own, L[Place(n, b, q)].key = L[Place(n, b, d)].key PROVE q = d
    BY <2>2, Zenon DEF Unique
  <2>3. CASE c # b
    <3>1. o \in L[c].own /\ p \in L[c].own
      BY <1>6, <2>3, Zenon
    <3>2. L[Place(n, c, o)].key = L[Place(n, c, p)].key
      BY <1>3, <1>7, <2>1, <3>1, Zenon
    <3> QED BY <3>1, <3>2, Zenon DEF Unique
  <2>4. CASE c = b
    <3>1. \A q \in M[b].own : q = e \/ (q \in L[b].own /\ q # d)
      BY <1>6, Zenon
    <3>2. M[Place(n, b, e)].key = L[Place(n, b, d)].key
      BY <1>3, <1>5, Zenon
    <3>3. \A q \in L[b].own : M[Place(n, b, q)].key = L[Place(n, b, q)].key
      BY <1>3, <1>7, Zenon
    <3>4. CASE o \in L[b].own /\ o # d /\ p \in L[b].own /\ p # d
      BY <2>1, <2>4, <3>3, <3>4 DEF Unique
    <3>5. CASE ~(o \in L[b].own /\ o # d /\ p \in L[b].own /\ p # d)
      BY <2>1, <2>2, <2>4, <3>1, <3>2, <3>3, <3>5
    <3> QED BY <3>4, <3>5, Zenon
  <2> QED BY <2>3, <2>4, Zenon
<1>10. ASSUME NEW x PROVE x \in Located(M, n) <=> x \in Located(L, n)
  <2>1. x \in Located(M, n) <=> \E c \in 0 .. n - 1 : \E o \in M[c].own : x = M[Place(n, c, o)].key
    BY <1>8, LocatedBy
  <2>2. x \in Located(L, n) <=> \E c \in 0 .. n - 1 : \E o \in L[c].own : x = L[Place(n, c, o)].key
    BY LocatedBy
  <2>3. x \in Located(M, n) => x \in Located(L, n)
    BY <1>3, <1>5, <1>6, <1>7, <2>1, <2>2
  <2>4. ASSUME NEW c \in 0 .. n - 1, NEW o \in L[c].own, x = L[Place(n, c, o)].key PROVE x \in Located(M, n)
    <3>1. CASE c = b /\ o = d
      <4>1. e \in M[b].own /\ x = M[Place(n, b, e)].key
        BY <1>3, <1>5, <2>4, <3>1, Zenon
      <4> QED BY <2>1, <4>1, Zenon
    <3>2. CASE ~(c = b /\ o = d)
      <4>1. o \in M[c].own /\ x = M[Place(n, c, o)].key
        BY <1>3, <1>7, <2>4, <3>2, Zenon
      <4> QED BY <2>1, <4>1, Zenon
    <3> QED BY <3>1, <3>2, Zenon
  <2> QED BY <2>2, <2>3, <2>4, Zenon
<1>11. Place(n, b, d) \notin Owned(M, n)
  <2>1. Place(n, b, d) \in Owned(L, n)
    BY OwnedBy, Zenon
  <2>2. ASSUME NEW c \in 0 .. n - 1, NEW o \in M[c].own, Place(n, b, d) = Place(n, c, o) PROVE FALSE
    <3>1. CASE o \in L[c].own /\ ~(c = b /\ o = d)
      BY <2>2, <3>1, PlacesDiffer
    <3>2. CASE c = b /\ o = e
      BY <2>1, <2>2, <3>2, Zenon
    <3> QED BY <1>6, <3>1, <3>2, Zenon
  <2> QED BY <2>2, OwnedBy, Zenon
<1> QED BY <1>8, <1>9, <1>10, <1>11, Zenon
-----------------------------------------------------------------------------
(* Resizing: from the table of n buckets to that of 2n *)

Doubling(n) == /\ n \in Nat \ {0} /\ OwnerSize \in Nat /\ 2 * OwnerSize <= n
               /\ 0 .. 2 * n - 1 \subseteq Buckets

\* A table that may double is large enough before and after.
LEMMA DoublingSized ==
  ASSUME NEW n, Doubling(n)
  PROVE  Sized(n) /\ Sized(2 * n) /\ \A b \in 0 .. n - 1 : b \in Buckets /\ n + b \in Buckets /\ n + b \in 0 .. 2 * n - 1
BY DEF Doubling, Sized, Offsets

\* A content keeps its offset from its home; in the doubled table it is where it was, or
\* n buckets further, as resize_pass1 decides.
LEMMA FinalPlace ==
  ASSUME NEW n, Doubling(n), NEW i \in 0 .. n - 1, NEW k \in Keys,
         NEW d \in Offsets, d = DistanceWrapped(n, BucketIx(n, k), i)
  PROVE  Place(2 * n, BucketIx(2 * n, k), d) = IF Stays(n, i, k) THEN i ELSE n + i
<1>1. n \in Nat \ {0} /\ OwnerSize \in Nat /\ 2 * OwnerSize <= n /\ 2 * n \in Nat \ {0}
  BY DEF Doubling
<1>2. PICK h \in 0 .. n - 1 : h = BucketIx(n, k)
  BY <1>1, HomeRange, Zenon
<1>3. PICK o \in 0 .. 2 * n - 1 : o = BucketIx(2 * n, k)
  BY <1>1, HomeRange, Zenon
<1>4. o = h \/ o = h + n
  BY <1>1, <1>2, <1>3, HomeDoubles, Zenon
<1>5. d = IF h <= i THEN i - h ELSE i - h + n
  BY <1>1, <1>2, DistanceTo, Zenon
<1>6. d \in 0 .. OwnerSize - 1 /\ d \in 0 .. 2 * n - 1
  BY <1>1 DEF Offsets
<1>7. Place(2 * n, o, d) = IF o + d < 2 * n THEN o + d ELSE o + d - 2 * n
  BY <1>1, <1>6, PlaceAt, Zenon
<1>8. Stays(n, i, k) <=> (o <= i /\ i < o + OwnerSize) \/ (i < OwnerSize /\ 2 * n < o + OwnerSize)
  BY <1>3, Zenon DEF Stays
<1>9. CASE o = h
  BY <1>1, <1>3, <1>5, <1>6, <1>7, <1>8, <1>9
<1>10. CASE o = h + n
  BY <1>1, <1>3, <1>5, <1>6, <1>7, <1>8, <1>10
<1> QED BY <1>4, <1>9, <1>10, Zenon

\* What Contents says about one content.
LEMMA ContentFacts ==
  ASSUME NEW n, NEW L, Contents(L, n), NEW i \in Pass2Todo(L, n)
  PROVE  /\ i \in 0 .. n - 1 /\ Pass2Key(L, n, i) \in Keys /\ OffsetOf(L, n, i) \in Offsets
         /\ L[n + i].use <=> ~Stays(n, i, Pass2Key(L, n, i))
<1>1. i \in 0 .. n - 1
  BY Zenon DEF Pass2Todo
<1>2. Pass2Key(L, n, i) \in Keys /\ OffsetOf(L, n, i) \in Offsets
  BY Zenon DEF Contents
<1>3. L[n + i].use <=> ~Stays(n, i, Pass2Key(L, n, i))
  BY Zenon DEF Contents
<1> QED BY <1>1, <1>2, <1>3, Zenon

\* A content that is in reach of its home is one of the offsets its home had, and back.
LEMMA HadBy ==
  ASSUME NEW n, Doubling(n), NEW L \in Table, Contents(L, n)
  PROVE  /\ \A b \in 0 .. n - 1 : \A o \in Had(L, n, b) :
              /\ Place(n, b, o) \in Pass2Todo(L, n) /\ BucketIx(n, Pass2Key(L, n, Place(n, b, o))) = b
              /\ OffsetOf(L, n, Place(n, b, o)) = o
         /\ \A i \in Pass2Todo(L, n) :
              /\ BucketIx(n, Pass2Key(L, n, i)) \in 0 .. n - 1
              /\ OffsetOf(L, n, i) \in Had(L, n, BucketIx(n, Pass2Key(L, n, i)))
              /\ Place(n, BucketIx(n, Pass2Key(L, n, i)), OffsetOf(L, n, i)) = i
<1>1. n \in Nat \ {0} /\ Sized(n)
  BY DoublingSized, Zenon DEF Doubling
<1>2. ASSUME NEW b \in 0 .. n - 1, NEW o \in Had(L, n, b)
      PROVE  /\ Place(n, b, o) \in Pass2Todo(L, n) /\ BucketIx(n, Pass2Key(L, n, Place(n, b, o))) = b
             /\ OffsetOf(L, n, Place(n, b, o)) = o
  <2>1. Place(n, b, o) \in Pass2Todo(L, n) /\ BucketIx(n, Pass2Key(L, n, Place(n, b, o))) = b /\ o \in Offsets
    BY Zenon DEF Had
  <2>2. o \in 0 .. n - 1
    BY <1>1, <2>1, Zenon DEF Sized
  <2>3. DistanceWrapped(n, b, Place(n, b, o)) = o
    BY <1>1, <2>2, PlaceAt, Zenon
  <2> QED BY <2>1, <2>3, Zenon DEF OffsetOf
<1>3. ASSUME NEW i \in Pass2Todo(L, n)
      PROVE  /\ BucketIx(n, Pass2Key(L, n, i)) \in 0 .. n - 1
             /\ OffsetOf(L, n, i) \in Had(L, n, BucketIx(n, Pass2Key(L, n, i)))
             /\ Place(n, BucketIx(n, Pass2Key(L, n, i)), OffsetOf(L, n, i)) = i
  <2>1. i \in 0 .. n - 1 /\ Pass2Key(L, n, i) \in Keys /\ OffsetOf(L, n, i) \in Offsets
    BY ContentFacts, Zenon
  <2>2. BucketIx(n, Pass2Key(L, n, i)) \in 0 .. n - 1
    BY <1>1, <2>1, HomeRange, Zenon
  <2>3. Place(n, BucketIx(n, Pass2Key(L, n, i)), OffsetOf(L, n, i)) = i
    BY <1>1, <2>1, <2>2, DistanceTo, Zenon DEF OffsetOf
  <2> QED BY <2>1, <2>2, <2>3, Zenon DEF Had
<1> QED BY <1>2, <1>3, Zenon

\* The place of a content in the doubled table.
FinalOf(L, n, i) == IF L[n + i].use THEN n + i ELSE i

\* The offset of a content leads from its new home to its final place.
LEMMA FinalAt ==
  ASSUME NEW n, Doubling(n), NEW L \in Table, Contents(L, n), NEW i \in Pass2Todo(L, n)
  PROVE  Place(2 * n, BucketIx(2 * n, Pass2Key(L, n, i)), OffsetOf(L, n, i)) = FinalOf(L, n, i)
<1>1. i \in 0 .. n - 1 /\ Pass2Key(L, n, i) \in Keys /\ OffsetOf(L, n, i) \in Offsets
  BY ContentFacts, Zenon
<1>2. OffsetOf(L, n, i) = DistanceWrapped(n, BucketIx(n, Pass2Key(L, n, i)), i)
  BY Zenon DEF OffsetOf
<1>3. L[n + i].use <=> ~Stays(n, i, Pass2Key(L, n, i))
  BY ContentFacts, Zenon
<1>4. Place(2 * n, BucketIx(2 * n, Pass2Key(L, n, i)), OffsetOf(L, n, i)) =
        IF Stays(n, i, Pass2Key(L, n, i)) THEN i ELSE n + i
  BY <1>1, <1>2, FinalPlace, Zenon
<1> QED BY <1>3, <1>4, Zenon DEF FinalOf

\* The table that pass 2 leads to: every content at its final place, under its new owner.
Final(L, F, n) ==
  /\ \A b \in 0 .. n - 1 : F[b].own = Had(L, n, b) \ Leaves(L, n, b) /\ F[n + b].own = Leaves(L, n, b)
  /\ \A i \in Pass2Todo(L, n) : F[FinalOf(L, n, i)].use /\ F[FinalOf(L, n, i)].key = Pass2Key(L, n, i)

\* When pass 2 has seen every content, the doubled table is sound and holds the same keys.
LEMMA FinalTable ==
  ASSUME NEW n, Doubling(n), NEW L \in Table, NEW F \in Table, Contents(L, n), Final(L, F, n)
  PROVE  Well(F, 2 * n) /\ Unique(F, 2 * n) /\ Located(F, 2 * n) = ResizedKeys(L, n)
<1>1. n \in Nat \ {0} /\ 2 * n \in Nat \ {0} /\ Sized(2 * n)
  <2>1. n \in Nat \ {0} /\ 2 * n \in Nat \ {0}
    BY DEF Doubling
  <2>2. Sized(2 * n)
    BY DoublingSized, Zenon
  <2> QED BY <2>1, <2>2, Zenon
<1>2. ASSUME NEW b \in 0 .. 2 * n - 1, NEW o \in F[b].own
      PROVE  \E i \in Pass2Todo(L, n) : /\ BucketIx(2 * n, Pass2Key(L, n, i)) = b
                                        /\ OffsetOf(L, n, i) = o
                                        /\ Place(2 * n, b, o) = FinalOf(L, n, i)
  <2>1. CASE b < n
    <3>1. b \in 0 .. n - 1
      BY <1>1, <2>1
    <3>2. o \in Had(L, n, b) /\ o \notin Leaves(L, n, b)
      BY <3>1, Zenon DEF Final
    <3>3. PICK i \in Pass2Todo(L, n) : i = Place(n, b, o) /\ BucketIx(n, Pass2Key(L, n, i)) = b /\ OffsetOf(L, n, i) = o
      BY <3>1, <3>2, HadBy
    <3>4. ~Reowned(L, n, i)
      BY <3>2, <3>3, Zenon DEF Leaves
    <3>5. BucketIx(2 * n, Pass2Key(L, n, i)) = b
      BY <3>3, <3>4, Zenon DEF Reowned
    <3> QED BY <3>3, <3>5, FinalAt, Zenon
  <2>2. CASE b >= n
    <3>1. PICK c \in 0 .. n - 1 : b = n + c
      <4>1. b - n \in 0 .. n - 1 /\ b = n + (b - n)
        BY <1>1, <2>2
      <4> QED BY <4>1, Zenon
    <3>2. o \in Leaves(L, n, c) /\ o \in Had(L, n, c)
      BY <3>1, Zenon DEF Final, Leaves
    <3>3. PICK i \in Pass2Todo(L, n) : i = Place(n, c, o) /\ BucketIx(n, Pass2Key(L, n, i)) = c /\ OffsetOf(L, n, i) = o
      BY <3>2, HadBy
    <3>4. Reowned(L, n, i)
      BY <3>2, <3>3, Zenon DEF Leaves
    <3>5. BucketIx(2 * n, Pass2Key(L, n, i)) # c /\ Pass2Key(L, n, i) \in Keys
      <4>1. Pass2Key(L, n, i) \in Keys
        BY ContentFacts, Zenon
      <4> QED BY <3>3, <3>4, <4>1, Zenon DEF Reowned
    <3>6. BucketIx(2 * n, Pass2Key(L, n, i)) = c + n
      BY <1>1, <3>3, <3>5, HomeDoubles, Zenon
    <3>7. BucketIx(2 * n, Pass2Key(L, n, i)) = b
      BY <1>1, <3>1, <3>6
    <3> QED BY <3>3, <3>7, FinalAt, Zenon
  <2> QED BY <1>1, <2>1, <2>2
<1>3. Well(F, 2 * n)
  <2>1. SUFFICES ASSUME NEW b \in 0 .. 2 * n - 1, NEW o \in F[b].own
                 PROVE  /\ F[Place(2 * n, b, o)].use /\ F[Place(2 * n, b, o)].key \in Keys
                        /\ BucketIx(2 * n, F[Place(2 * n, b, o)].key) = b
    BY Zenon DEF Well
  <2>2. PICK i \in Pass2Todo(L, n) : BucketIx(2 * n, Pass2Key(L, n, i)) = b /\ Place(2 * n, b, o) = FinalOf(L, n, i)
    BY <1>2, Zenon
  <2>3. F[FinalOf(L, n, i)].use /\ F[FinalOf(L, n, i)].key = Pass2Key(L, n, i) /\ Pass2Key(L, n, i) \in Keys
    <3>1. Pass2Key(L, n, i) \in Keys
      BY ContentFacts, Zenon
    <3> QED BY <3>1, Zenon DEF Final
  <2> QED BY <2>2, <2>3, Zenon
<1>4. Unique(F, 2 * n)
  <2>1. SUFFICES ASSUME NEW b \in 0 .. 2 * n - 1, NEW o \in F[b].own, NEW p \in F[b].own,
                        F[Place(2 * n, b, o)].key = F[Place(2 * n, b, p)].key
                 PROVE  o = p
    BY Zenon DEF Unique
  <2>2. PICK i \in Pass2Todo(L, n) : OffsetOf(L, n, i) = o /\ Place(2 * n, b, o) = FinalOf(L, n, i)
    BY <1>2, Zenon
  <2>3. PICK j \in Pass2Todo(L, n) : OffsetOf(L, n, j) = p /\ Place(2 * n, b, p) = FinalOf(L, n, j)
    BY <1>2, Zenon
  <2>4. Pass2Key(L, n, i) = Pass2Key(L, n, j)
    BY <2>1, <2>2, <2>3, Zenon DEF Final
  <2>5. i = j
    BY <2>4, Zenon DEF Contents
  <2> QED BY <2>2, <2>3, <2>5, Zenon
<1>5. ASSUME NEW k \in Located(F, 2 * n) PROVE k \in ResizedKeys(L, n)
  <2>1. PICK b \in 0 .. 2 * n - 1 : \E o \in F[b].own : k = F[Place(2 * n, b, o)].key
    BY <1>1, <1>3, LocatedBy
  <2>2. PICK o \in F[b].own : k = F[Place(2 * n, b, o)].key
    BY <2>1, Zenon
  <2>3. PICK i \in Pass2Todo(L, n) : Place(2 * n, b, o) = FinalOf(L, n, i)
    BY <1>2, Zenon
  <2>4. k = Pass2Key(L, n, i)
    BY <2>2, <2>3, Zenon DEF Final
  <2> QED BY <2>4, Zenon DEF ResizedKeys
<1>6. ASSUME NEW i \in Pass2Todo(L, n) PROVE Pass2Key(L, n, i) \in Located(F, 2 * n)
  <2>1. PICK k \in Keys, h \in 0 .. n - 1, o \in Offsets : /\ k = Pass2Key(L, n, i) /\ h = BucketIx(n, k)
                                                         /\ o = OffsetOf(L, n, i) /\ o \in Had(L, n, h) /\ Place(n, h, o) = i
    <3>1. Pass2Key(L, n, i) \in Keys /\ OffsetOf(L, n, i) \in Offsets
      BY ContentFacts, Zenon
    <3> QED BY <3>1, HadBy, Zenon
  <2>2. PICK b \in 0 .. 2 * n - 1 : b = BucketIx(2 * n, k) /\ (b = h \/ b = h + n)
    BY <1>1, <2>1, HomeRange, HomeDoubles, Zenon
  <2>3. o \in F[b].own
    <3>1. CASE b = h
      <4>1. o \notin Leaves(L, n, h)
        BY <2>1, <2>2, <3>1, Zenon DEF Leaves, Reowned
      <4> QED BY <2>1, <3>1, <4>1, Zenon DEF Final
    <3>2. CASE b = h + n
      <4>1. b # h /\ b = n + h
        BY <1>1, <3>2
      <4>2. o \in Leaves(L, n, h)
        BY <2>1, <2>2, <4>1, Zenon DEF Leaves, Reowned
      <4> QED BY <4>1, <4>2, Zenon DEF Final
    <3> QED BY <2>2, <3>1, <3>2, Zenon
  <2>4. Place(2 * n, b, o) = FinalOf(L, n, i)
    BY <2>1, <2>2, FinalAt, Zenon
  <2>5. F[Place(2 * n, b, o)].key = k
    BY <2>1, <2>4, Zenon DEF Final
  <2> QED BY <1>1, <1>3, <2>1, <2>3, <2>5, LocatedBy
<1>7. Located(F, 2 * n) = ResizedKeys(L, n)
  BY <1>5, <1>6, Zenon DEF ResizedKeys
<1> QED BY <1>3, <1>4, <1>7, Zenon

\* L and M hold the same contents, wherever the copies that were freed are.
SameContents(L, M, n) ==
  /\ Pass2Todo(M, n) = Pass2Todo(L, n)
  /\ \A i \in Pass2Todo(L, n) : Pass2Key(M, n, i) = Pass2Key(L, n, i)
  /\ \A b \in 0 .. n - 1 : M[n + b].use = L[n + b].use /\ M[n + b].key = L[n + b].key

\* A table on the way to the new one has the contents of the one it comes from.
LEMMA HalfWaySame ==
  ASSUME NEW n, NEW L, NEW M, HalfWay(L, M, n)
  PROVE  SameContents(L, M, n)
<1>1. \A b \in 0 .. n - 1 : M[n + b].use = L[n + b].use /\ M[n + b].key = L[n + b].key
  BY Zenon DEF HalfWay
<1>2. \A b \in 0 .. n - 1 : M[b].use => b \in Pass2Todo(L, n) /\ M[b].key = Pass2Key(L, n, b)
  BY Zenon DEF HalfWay
<1>3. \A b \in Pass2Todo(L, n) : b \in 0 .. n - 1 /\ (L[n + b].use \/ M[b].use)
  BY Zenon DEF HalfWay, Pass2Todo
<1>4. Pass2Todo(M, n) = Pass2Todo(L, n)
  BY <1>1, <1>2, <1>3, Zenon DEF Pass2Todo
<1>5. \A i \in Pass2Todo(L, n) : Pass2Key(M, n, i) = Pass2Key(L, n, i)
  BY <1>1, <1>2, <1>3, Zenon DEF Pass2Key
<1> QED BY <1>1, <1>4, <1>5, Zenon DEF SameContents

\* Offsets, owners and keys of pass 2 depend on the contents alone.
LEMMA SameHad ==
  ASSUME NEW n, NEW L, NEW M, SameContents(L, M, n)
  PROVE  /\ \A i \in Pass2Todo(L, n) : /\ OffsetOf(M, n, i) = OffsetOf(L, n, i)
                                       /\ Reowned(M, n, i) = Reowned(L, n, i)
         /\ \A b \in 0 .. n - 1 : Had(M, n, b) = Had(L, n, b) /\ Leaves(M, n, b) = Leaves(L, n, b)
         /\ ResizedKeys(M, n) = ResizedKeys(L, n)
<1>1. Pass2Todo(M, n) = Pass2Todo(L, n) /\ \A i \in Pass2Todo(L, n) : Pass2Key(M, n, i) = Pass2Key(L, n, i)
  BY Zenon DEF SameContents
<1>2. \A i \in Pass2Todo(L, n) : OffsetOf(M, n, i) = OffsetOf(L, n, i) /\ Reowned(M, n, i) = Reowned(L, n, i)
  BY <1>1, Zenon DEF OffsetOf, Reowned
<1>3. ASSUME NEW b \in 0 .. n - 1 PROVE Had(M, n, b) = Had(L, n, b) /\ Leaves(M, n, b) = Leaves(L, n, b)
  <2>1. Had(M, n, b) = Had(L, n, b)
    BY <1>1, Zenon DEF Had
  <2>2. \A o \in Had(L, n, b) : Place(n, b, o) \in Pass2Todo(L, n)
    BY Zenon DEF Had
  <2> QED BY <1>2, <2>1, <2>2, Zenon DEF Leaves
<1>4. ResizedKeys(M, n) = ResizedKeys(L, n)
  BY <1>1, Zenon DEF ResizedKeys
<1> QED BY <1>2, <1>3, <1>4, Zenon

\* Tables with the same contents are alike for Contents.
LEMMA ContentsSame ==
  ASSUME NEW n, NEW L, NEW M, SameContents(L, M, n), Contents(L, n)
  PROVE  Contents(M, n)
<1>1. /\ Pass2Todo(M, n) = Pass2Todo(L, n)
      /\ \A i \in Pass2Todo(L, n) : Pass2Key(M, n, i) = Pass2Key(L, n, i)
      /\ \A i \in Pass2Todo(L, n) : M[n + i].use = L[n + i].use
  BY Zenon DEF SameContents, Pass2Todo
<1>2. \A i \in Pass2Todo(L, n) : OffsetOf(M, n, i) = OffsetOf(L, n, i)
  BY SameHad, ZenonT(60)
<1>3. ASSUME NEW i \in Pass2Todo(M, n)
      PROVE  /\ Pass2Key(M, n, i) \in Keys /\ OffsetOf(M, n, i) \in Offsets
             /\ M[n + i].use <=> ~Stays(n, i, Pass2Key(M, n, i))
  <2>1. i \in Pass2Todo(L, n)
    BY <1>1, Zenon
  <2> QED BY <1>1, <1>2, <2>1, Zenon DEF Contents
<1>4. \A i, j \in Pass2Todo(M, n) : Pass2Key(M, n, i) = Pass2Key(M, n, j) => i = j
  BY <1>1, Zenon DEF Contents
<1> QED BY <1>3, <1>4, Zenon DEF Contents

\* HalfWay may be measured from any table with the same contents.
LEMMA HalfWayOf ==
  ASSUME NEW n, NEW L, NEW M, NEW K, SameContents(L, M, n), HalfWay(L, K, n)
  PROVE  HalfWay(M, K, n)
<1>1. /\ Pass2Todo(M, n) = Pass2Todo(L, n)
      /\ \A i \in Pass2Todo(L, n) : Pass2Key(M, n, i) = Pass2Key(L, n, i)
      /\ \A b \in 0 .. n - 1 : M[n + b].use = L[n + b].use /\ M[n + b].key = L[n + b].key
  BY Zenon DEF SameContents
<1>2. \A b \in 0 .. n - 1 : Had(M, n, b) = Had(L, n, b) /\ Leaves(M, n, b) = Leaves(L, n, b)
  BY SameHad, ZenonT(60)
<1> QED BY <1>1, <1>2, Zenon DEF HalfWay

\* The owner bits that the contents of S give up and their juniors take over.
LeavesIn(L, n, b, S) == {o \in Leaves(L, n, b) : Place(n, b, o) \in S}

\* What resize_pass2_adjust_owner does to the owners of the contents in S.
LEMMA Owners ==
  ASSUME NEW n, Doubling(n), NEW L \in Table, Contents(L, n), NEW S \in SUBSET (0 .. n - 1)
  PROVE  /\ Pass2Owners(L, n, S) \in Table
         /\ \A b \in 0 .. n - 1 : /\ Pass2Owners(L, n, S)[b].own = L[b].own \ LeavesIn(L, n, b, S)
                                  /\ Pass2Owners(L, n, S)[n + b].own = L[n + b].own \cup LeavesIn(L, n, b, S)
         /\ \A b \in Buckets : /\ Pass2Owners(L, n, S)[b].use = L[b].use
                               /\ Pass2Owners(L, n, S)[b].key = L[b].key
<1> DEFINE gone(h) == {DistanceWrapped(n, h, i) :
                    i \in {j \in S \cap Pass2Todo(L, n) :
                             /\ Reowned(L, n, j)
                             /\ BucketIx(n, Pass2Key(L, n, j)) = h}}
<1>1. Pass2Owners(L, n, S) = [b \in Buckets |->
        IF b < n THEN [L[b] EXCEPT !.own = @ \ gone(b)]
        ELSE IF b < 2 * n THEN [L[b] EXCEPT !.own = @ \cup gone(b - n)]
        ELSE L[b]]
  BY Zenon DEF Pass2Owners
<1>2. ASSUME NEW b \in 0 .. n - 1 PROVE gone(b) = LeavesIn(L, n, b, S)
  <2>1. ASSUME NEW o \in gone(b) PROVE o \in LeavesIn(L, n, b, S)
    <3>1. PICK i \in S \cap Pass2Todo(L, n) : Reowned(L, n, i) /\ BucketIx(n, Pass2Key(L, n, i)) = b /\ o = DistanceWrapped(n, b, i)
      BY Zenon
    <3>2. o = OffsetOf(L, n, i)
      BY <3>1, Zenon DEF OffsetOf
    <3>3. o \in Had(L, n, b) /\ Place(n, b, o) = i
      BY <3>1, <3>2, HadBy
    <3> QED BY <3>1, <3>3, Zenon DEF LeavesIn, Leaves
  <2>2. ASSUME NEW o \in LeavesIn(L, n, b, S) PROVE o \in gone(b)
    <3>1. o \in Had(L, n, b) /\ Reowned(L, n, Place(n, b, o)) /\ Place(n, b, o) \in S
      BY Zenon DEF LeavesIn, Leaves
    <3>2. /\ Place(n, b, o) \in Pass2Todo(L, n) /\ BucketIx(n, Pass2Key(L, n, Place(n, b, o))) = b
          /\ OffsetOf(L, n, Place(n, b, o)) = o
      BY <3>1, HadBy, Zenon
    <3>3. o = DistanceWrapped(n, b, Place(n, b, o))
      BY <3>2, Zenon DEF OffsetOf
    <3> QED BY <3>1, <3>2, <3>3, Zenon
  <2> QED BY <2>1, <2>2, Zenon
<1> HIDE DEF gone
<1>3. n \in Nat \ {0} /\ 2 * n \in Nat /\ Buckets \subseteq Nat
  BY DEF Doubling, Buckets
<1>4. \A b \in 0 .. n - 1 : b \in Buckets /\ n + b \in Buckets /\ b < n /\ ~(n + b < n) /\ n + b < 2 * n /\ (n + b) - n = b
  BY <1>3, DoublingSized
<1>5. \A b \in 0 .. n - 1 : LeavesIn(L, n, b, S) \subseteq Offsets
  BY Zenon DEF LeavesIn, Leaves, Had
<1>6. \A b \in Buckets : L[b] \in Bucket
  BY Zenon DEF Table
<1>7. ASSUME NEW b \in 0 .. n - 1
      PROVE  /\ Pass2Owners(L, n, S)[b] = [L[b] EXCEPT !.own = @ \ LeavesIn(L, n, b, S)]
             /\ Pass2Owners(L, n, S)[n + b] = [L[n + b] EXCEPT !.own = @ \cup LeavesIn(L, n, b, S)]
  <2>1. b \in Buckets /\ n + b \in Buckets /\ b < n /\ ~(n + b < n) /\ n + b < 2 * n /\ (n + b) - n = b
    BY <1>4, Zenon
  <2> QED BY <1>1, <1>2, <2>1, Zenon
<1>8. ASSUME NEW b \in Buckets
      PROVE  Pass2Owners(L, n, S)[b] \in Bucket /\ Pass2Owners(L, n, S)[b].use = L[b].use /\ Pass2Owners(L, n, S)[b].key = L[b].key
  <2>1. CASE b < n
    <3>1. b \in 0 .. n - 1
      BY <1>3, <2>1
    <3>2. Pass2Owners(L, n, S)[b] = [L[b] EXCEPT !.own = @ \ LeavesIn(L, n, b, S)]
      BY <1>7, <3>1, Zenon
    <3> QED BY <1>6, <3>2 DEF Bucket
  <2>2. CASE ~(b < n) /\ b < 2 * n
    <3>1. b - n \in 0 .. n - 1 /\ n + (b - n) = b
      BY <1>3, <2>2
    <3>2. Pass2Owners(L, n, S)[b] = [L[b] EXCEPT !.own = @ \cup LeavesIn(L, n, b - n, S)]
      BY <1>7, <3>1, Zenon
    <3>3. LeavesIn(L, n, b - n, S) \subseteq Offsets
      BY <1>5, <3>1, Zenon
    <3> QED BY <1>6, <3>2, <3>3 DEF Bucket
  <2>3. CASE ~(b < n) /\ ~(b < 2 * n)
    BY <1>1, <1>6, <2>3, Zenon
  <2> QED BY <2>1, <2>2, <2>3, Zenon
<1>9. Pass2Owners(L, n, S) \in Table
  BY <1>1, <1>8, Zenon DEF Table
<1>10. ASSUME NEW b \in 0 .. n - 1
       PROVE  /\ Pass2Owners(L, n, S)[b].own = L[b].own \ LeavesIn(L, n, b, S)
              /\ Pass2Owners(L, n, S)[n + b].own = L[n + b].own \cup LeavesIn(L, n, b, S)
  <2>1. L[b] \in Bucket /\ L[n + b] \in Bucket
    BY <1>4, <1>6, Zenon
  <2>2. /\ Pass2Owners(L, n, S)[b] = [L[b] EXCEPT !.own = @ \ LeavesIn(L, n, b, S)]
        /\ Pass2Owners(L, n, S)[n + b] = [L[n + b] EXCEPT !.own = @ \cup LeavesIn(L, n, b, S)]
    BY <1>7, Zenon
  <2> QED BY <2>1, <2>2, Zenon DEF Bucket
<1> QED BY <1>8, <1>9, <1>10, Zenon

\* Whoever opens the table in the middle of pass 2 and finishes it finds the final table.
LEMMA Recovered ==
  ASSUME NEW n, Doubling(n), NEW L \in Table, NEW M \in Table, Contents(L, n), HalfWay(L, M, n)
  PROVE  Located(Pass2Owners(M, n, 0 .. n - 1), 2 * n) = ResizedKeys(L, n)
<1> DEFINE F == Pass2Owners(M, n, 0 .. n - 1)
<1>1. SameContents(L, M, n)
  BY HalfWaySame, Zenon
<1>2. Contents(M, n)
  BY <1>1, ContentsSame, Zenon
<1>3. \A b \in 0 .. n - 1 : Had(M, n, b) = Had(L, n, b) /\ Leaves(M, n, b) = Leaves(L, n, b)
  BY <1>1, SameHad, ZenonT(60)
<1>4. /\ F \in Table
      /\ \A b \in 0 .. n - 1 : /\ F[b].own = M[b].own \ LeavesIn(M, n, b, 0 .. n - 1)
                               /\ F[n + b].own = M[n + b].own \cup LeavesIn(M, n, b, 0 .. n - 1)
      /\ \A b \in Buckets : F[b].use = M[b].use /\ F[b].key = M[b].key
  <2>1. PICK S \in SUBSET (0 .. n - 1) : S = 0 .. n - 1
    BY Zenon
  <2>2. /\ Pass2Owners(M, n, S) \in Table
        /\ \A b \in 0 .. n - 1 : /\ Pass2Owners(M, n, S)[b].own = M[b].own \ LeavesIn(M, n, b, S)
                                 /\ Pass2Owners(M, n, S)[n + b].own = M[n + b].own \cup LeavesIn(M, n, b, S)
        /\ \A b \in Buckets : /\ Pass2Owners(M, n, S)[b].use = M[b].use
                              /\ Pass2Owners(M, n, S)[b].key = M[b].key
    BY <1>2, Owners
  <2> QED BY <2>1, <2>2, Zenon
<1> HIDE DEF F
<1>5. ASSUME NEW b \in 0 .. n - 1 PROVE LeavesIn(M, n, b, 0 .. n - 1) = Leaves(L, n, b)
  <2>1. \A o \in Leaves(M, n, b) : Place(n, b, o) \in 0 .. n - 1
    BY Zenon DEF Leaves, Had, Pass2Todo
  <2> QED BY <1>3, <2>1, Zenon DEF LeavesIn
<1>6. \A b \in 0 .. n - 1 : F[b].own = Had(L, n, b) \ Leaves(L, n, b) /\ F[n + b].own = Leaves(L, n, b)
  <2>1. \A b \in 0 .. n - 1 : /\ Had(L, n, b) \ Leaves(L, n, b) \subseteq M[b].own
                              /\ M[b].own \subseteq Had(L, n, b) /\ M[n + b].own \subseteq Leaves(L, n, b)
    BY Zenon DEF HalfWay
  <2>2. \A b \in 0 .. n - 1 : F[b].own = M[b].own \ Leaves(L, n, b) /\ F[n + b].own = M[n + b].own \cup Leaves(L, n, b)
    BY <1>4, <1>5, Zenon
  <2> QED BY <2>1, <2>2, Zenon
<1>7. ASSUME NEW i \in Pass2Todo(L, n)
      PROVE  F[FinalOf(L, n, i)].use /\ F[FinalOf(L, n, i)].key = Pass2Key(L, n, i)
  <2>1. i \in 0 .. n - 1 /\ i \in Buckets /\ n + i \in Buckets
    BY DoublingSized, Zenon DEF Pass2Todo
  <2>2. CASE L[n + i].use
    <3>1. M[n + i].use = L[n + i].use /\ M[n + i].key = L[n + i].key
      BY <2>1, Zenon DEF HalfWay
    <3> QED BY <1>4, <2>1, <2>2, <3>1, Zenon DEF FinalOf, Pass2Key
  <2>3. CASE ~L[n + i].use
    <3>1. M[i].use /\ M[i].key = Pass2Key(L, n, i)
      BY <2>1, <2>3, Zenon DEF HalfWay
    <3> QED BY <1>4, <2>1, <2>3, <3>1, Zenon DEF FinalOf
  <2> QED BY <2>2, <2>3, Zenon
<1>8. Final(L, F, n)
  BY <1>6, <1>7, Zenon DEF Final
<1>9. Located(F, 2 * n) = ResizedKeys(L, n)
  BY <1>4, <1>8, FinalTable, Zenon
<1> QED BY <1>9, Zenon DEF F

\* Pass 1 copies what may not stay; no content is in use without being owned.
LEMMA Copied ==
  ASSUME NEW n, Doubling(n), NEW L \in Table, Well(L, n), Unique(L, n),
         \A c \in 0 .. n - 1 : L[c].use => c \in Owned(L, n)
  PROVE  /\ Pass1(L, n) \in Table
         /\ \A b \in 0 .. n - 1 : /\ Pass1(L, n)[b] = L[b] /\ Pass1(L, n)[n + b].own = {}
                                  /\ L[b].own = Had(Pass1(L, n), n, b)
         /\ Pass2Todo(Pass1(L, n), n) = Owned(L, n)
         /\ \A i \in Owned(L, n) : Pass2Key(Pass1(L, n), n, i) = L[i].key
         /\ Contents(Pass1(L, n), n)
<1> DEFINE M == Pass1(L, n)
<1>1. n \in Nat \ {0} /\ 2 * n \in Nat /\ Buckets \subseteq Nat /\ Sized(n)
  <2>1. Sized(n)
    BY DoublingSized, Zenon
  <2> QED BY <2>1 DEF Doubling, Buckets
<1>2. \A b \in 0 .. n - 1 : b \in Buckets /\ n + b \in Buckets /\ b \notin n .. 2 * n - 1 /\ n + b \in n .. 2 * n - 1 /\ (n + b) - n = b
  BY <1>1, DoublingSized
<1>3. ASSUME NEW b \in 0 .. n - 1
      PROVE  M[b] = L[b] /\ M[n + b] = IF L[b].use /\ ~Stays(n, b, L[b].key)
                                       THEN [EmptyBucket EXCEPT !.use = TRUE, !.key = L[b].key]
                                       ELSE EmptyBucket
  <2>1. b \in Buckets /\ n + b \in Buckets /\ b \notin n .. 2 * n - 1 /\ n + b \in n .. 2 * n - 1 /\ (n + b) - n = b
    BY <1>2, Zenon
  <2> QED BY <2>1, Zenon DEF Pass1
<1>4. M \in Table
  <2>1. \A b \in Buckets : L[b] \in Bucket
    BY Zenon DEF Table
  <2>2. EmptyBucket \in Bucket
    BY Zenon DEF EmptyBucket, Bucket
  <2>3. ASSUME NEW b \in Buckets PROVE M[b] \in Bucket
    <3>1. CASE b \notin n .. 2 * n - 1
      BY <2>1, <3>1, Zenon DEF Pass1
    <3>2. CASE b \in n .. 2 * n - 1
      <4>1. b - n \in 0 .. n - 1 /\ n + (b - n) = b
        BY <1>1, <3>2
      <4>2. b - n \in Buckets
        BY <1>2, <4>1, Zenon
      <4>3. L[b - n].key \in Keys \cup {NoKey}
        BY <2>1, <4>2, Zenon DEF Bucket
      <4>4. [EmptyBucket EXCEPT !.use = TRUE, !.key = L[b - n].key] \in Bucket
        BY <4>3, Zenon DEF EmptyBucket, Bucket
      <4> QED BY <1>3, <2>2, <4>1, <4>4, Zenon
    <3> QED BY <3>1, <3>2, Zenon
  <2> QED BY <2>3, Zenon DEF Pass1, Table
<1>5. \A b \in 0 .. n - 1 : /\ M[b] = L[b] /\ M[n + b].own = {}
                            /\ M[n + b].use <=> L[b].use /\ ~Stays(n, b, L[b].key)
                            /\ M[n + b].use => M[n + b].key = L[b].key
  <2>1. SUFFICES ASSUME NEW b \in 0 .. n - 1
                 PROVE  /\ M[n + b].own = {}
                        /\ M[n + b].use <=> L[b].use /\ ~Stays(n, b, L[b].key)
                        /\ M[n + b].use => M[n + b].key = L[b].key
    BY <1>3, Zenon
  <2>2. CASE L[b].use /\ ~Stays(n, b, L[b].key)
    <3>1. M[n + b] = [EmptyBucket EXCEPT !.use = TRUE, !.key = L[b].key]
      BY <1>3, <2>2, Zenon
    <3>2. M[n + b].own = {} /\ M[n + b].use = TRUE /\ M[n + b].key = L[b].key
      BY <3>1, Zenon DEF EmptyBucket
    <3> QED BY <2>2, <3>2, Zenon
  <2>3. CASE ~(L[b].use /\ ~Stays(n, b, L[b].key))
    <3>1. M[n + b] = EmptyBucket
      BY <1>3, <2>3, Zenon
    <3>2. M[n + b].own = {} /\ M[n + b].use = FALSE
      BY <3>1 DEF EmptyBucket
    <3> QED BY <2>3, <3>2, Zenon
  <2> QED BY <2>2, <2>3, Zenon
<1> HIDE DEF M
<1>6. \A c \in Owned(L, n) : c \in 0 .. n - 1 /\ L[c].use /\ L[c].key \in Keys /\ OwnersOf(L, n, c) = {BucketIx(n, L[c].key)}
  BY <1>1, OwnedKeys, Zenon DEF Owned
<1>7. Pass2Todo(M, n) = Owned(L, n)
  BY <1>5, <1>6, Zenon DEF Pass2Todo
<1>8. \A i \in Owned(L, n) : Pass2Key(M, n, i) = L[i].key
  BY <1>5, <1>6, Zenon DEF Pass2Key
<1>9. ASSUME NEW i \in Owned(L, n) PROVE DistanceWrapped(n, BucketIx(n, L[i].key), i) \in L[BucketIx(n, L[i].key)].own
  BY <1>6, Zenon DEF OwnersOf
<1>10. \A b \in 0 .. n - 1 : L[b].own \subseteq Offsets
  BY <1>2, Zenon DEF Table, Bucket
<1>11. ASSUME NEW i \in Owned(L, n)
       PROVE  /\ Pass2Key(M, n, i) \in Keys
              /\ OffsetOf(M, n, i) \in Offsets
              /\ M[n + i].use <=> ~Stays(n, i, Pass2Key(M, n, i))
  <2>1. i \in 0 .. n - 1 /\ L[i].use /\ L[i].key \in Keys /\ Pass2Key(M, n, i) = L[i].key
    BY <1>6, <1>8, Zenon
  <2>2. BucketIx(n, L[i].key) \in 0 .. n - 1
    BY <1>1, <2>1, HomeRange, Zenon
  <2>3. OffsetOf(M, n, i) \in Offsets
    BY <1>9, <1>10, <2>1, <2>2, Zenon DEF OffsetOf
  <2> QED BY <1>5, <2>1, <2>3
<1>12. \A i, j \in Owned(L, n) : Pass2Key(M, n, i) = Pass2Key(M, n, j) => i = j
  BY <1>1, <1>8, OwnedKeys, Zenon
<1>13. Contents(M, n)
  BY <1>7, <1>11, <1>12, ZenonT(60) DEF Contents
<1>14. ASSUME NEW b \in 0 .. n - 1 PROVE L[b].own = Had(M, n, b)
  <2>1. ASSUME NEW o \in L[b].own PROVE o \in Had(M, n, b)
    <3>1. Place(n, b, o) \in Owned(L, n)
      BY <1>1, OwnedBy, Zenon
    <3>2. BucketIx(n, L[Place(n, b, o)].key) = b
      BY Zenon DEF Well
    <3> QED BY <1>7, <1>8, <1>10, <3>1, <3>2, Zenon DEF Had
  <2>2. ASSUME NEW o \in Had(M, n, b) PROVE o \in L[b].own
    <3>1. o \in Offsets /\ Place(n, b, o) \in Owned(L, n) /\ BucketIx(n, L[Place(n, b, o)].key) = b
      BY <1>7, <1>8, Zenon DEF Had
    <3>2. DistanceWrapped(n, b, Place(n, b, o)) = o
      BY <1>1, <3>1, PlaceAt, Zenon DEF Sized
    <3> QED BY <1>9, <3>1, <3>2, Zenon
  <2> QED BY <2>1, <2>2, Zenon
<1> QED BY <1>4, <1>5, <1>7, <1>8, <1>13, <1>14, Zenon DEF M
-----------------------------------------------------------------------------
(* The steps of the program outside a resize *)

\* Every set of natural numbers that is not empty has a least element.
HasLeast == \A S \in SUBSET Nat : S # {} => \E x \in S : \A y \in S : x <= y

\* Min of a set of naturals is its least member.
LEMMA MinOf ==
  ASSUME HasLeast, NEW S \in SUBSET Nat, S # {}
  PROVE  Min(S) \in S /\ \A y \in S : Min(S) <= y
<1>1. \E x \in S : \A y \in S : x <= y
  BY Zenon DEF HasLeast
<1> QED BY <1>1, Zenon DEF Min

\* Max of a bounded set of naturals is its greatest member.
LEMMA MaxOf ==
  ASSUME HasLeast, NEW m \in Nat, NEW S \in SUBSET (0 .. m), S # {}
  PROVE  Max(S) \in S /\ \A y \in S : Max(S) >= y
<1> DEFINE T == {m - y : y \in S}
<1>1. \A y \in S : y \in Int /\ m - y \in Nat
  OBVIOUS
<1>2. T \in SUBSET Nat /\ T # {}
  BY <1>1, Zenon
<1>3. PICK t \in T : \A u \in T : t <= u
  BY <1>2, Zenon DEF HasLeast
<1>4. PICK x \in S : t = m - x
  BY <1>3, Zenon
<1>5. \A y \in S : x >= y
  <2>1. \A y \in S : m - x <= m - y
    BY <1>3, <1>4, Zenon
  <2> QED BY <1>1, <2>1
<1>6. \E z \in S : \A y \in S : z >= y
  BY <1>5, Zenon
<1> QED BY <1>6, Zenon DEF Max

\* What the types say about the table and its size.
LEMMA Facts ==
  ASSUME TypeOK
  PROVE  /\ line \in Table /\ pm \in Table /\ N \in Nat \ {0} /\ Sized(N)
         /\ segs.n < MaxSegments => Doubling(N)
<1>1. segs \in [n : 1 .. MaxSegments, unstable : BOOLEAN] /\ line \in Table /\ pm \in Table
  BY Zenon DEF TypeOK, Table
<1>2. /\ N \in Nat \ {0} /\ MaxBuckets \in Nat /\ 2 * OwnerSize <= N /\ N <= MaxBuckets
      /\ 0 .. N - 1 \subseteq Buckets /\ Offsets \subseteq 0 .. N - 1
      /\ segs.n < MaxSegments => 2 * N <= MaxBuckets
  BY <1>1, Sizes, Zenon
<1>3. Sized(N)
  BY <1>2, Zenon DEF Sized
<1>4. segs.n < MaxSegments => Doubling(N)
  BY <1>2, HopHashAssumption DEF Doubling, Buckets
<1> QED BY <1>1, <1>2, <1>3, <1>4, Zenon

\* A call that is not resizing works on a table that is settled.
LEMMA Calls ==
  ASSUME IInv, pc \in {"idle", "scan"} \cup Emplacing \cup Erasing
  PROVE  /\ ~segs.unstable /\ ~Resizing /\ (pc # "scan" => live)
         /\ Well(line, N) /\ Unique(line, N) /\ Agree(line, pm, N) /\ Present = Located(line, N)
<1>1. ~segs.unstable /\ ~Resizing /\ (pc # "scan" => live)
  BY Zenon DEF IInv, PhaseInv, Resizing, Emplacing, Erasing
<1> QED BY <1>1, Zenon DEF IInv, TableInv, Present

\* Outside a resize a sound table is all that TableInv and ResizeInv ask for.
LEMMA Settled ==
  ASSUME segs' = segs, Well(line', N), Unique(line', N), Agree(line', pm', N), ~Resizing'
  PROVE  TableInv' /\ ResizeInv' /\ N' = N /\ Present' = Located(line', N)
<1>1. N' = N
  BY Zenon DEF N, BucketCount
<1> QED BY <1>1, Zenon DEF TableInv, ResizeInv, Present

\* Steps of a call that leave the table as it is.
LEMMA Idle ==
  ASSUME IInv, pc \in {"idle", "scan"} \cup Emplacing \cup Erasing,
         line' = line, pm' = pm, segs' = segs, ~Resizing'
  PROVE  TableInv' /\ ResizeInv' /\ N' = N /\ Present' = Present
<1>1. Well(line', N) /\ Unique(line', N) /\ Agree(line', pm', N) /\ Present = Located(line, N)
  BY Calls, Zenon
<1> QED BY <1>1, Settled, Zenon

\* emplace begins: it makes up its mind, the table stays.
LEMMA EmplaceInv ==
  ASSUME IInv, NEW k \in Keys, Emplace(k)
  PROVE  IInv' /\ Present' = Present
<1>1. /\ pc = "idle" /\ LocateKey(line, N, k) = {} /\ op' = [kind |-> "emplace", key |-> k] /\ pc' = "probe"
      /\ line' = line /\ pm' = pm /\ size' = size /\ segs' = segs /\ live' = live
      /\ dst' = dst /\ src' = src /\ from' = from /\ ix' = ix
      /\ told' = told /\ stale' = stale /\ crashes' = crashes
  BY Zenon DEF Emplace, locals, history, N
<1>2. TableInv' /\ ResizeInv' /\ N' = N /\ Present' = Present /\ live /\ ~segs.unstable /\ Present = Located(line, N)
  <2>1. pc \in {"idle", "scan"} \cup Emplacing \cup Erasing /\ ~Resizing'
    BY <1>1, Zenon DEF Resizing
  <2> QED BY <1>1, <2>1, Idle, Calls, Zenon
<1>3. TypeOK'
  BY <1>1, Zenon DEF IInv, TypeOK
<1>4. PhaseInv'
  BY <1>1, <1>2, Zenon DEF PhaseInv, Emplacing, Erasing, Moving
<1>5. ToldInv'
  <2>1. k \notin Present
    BY <1>1, <1>2, Zenon DEF Located
  <2>2. told = Present /\ ~size.unstable
    BY <1>1, <1>2, Zenon DEF IInv, ToldInv, Moving, Erasing
  <2> QED BY <1>1, <1>2, <2>1, <2>2, Zenon DEF ToldInv, Emplacing, Erasing, Moving
<1> QED BY <1>2, <1>3, <1>4, <1>5, Zenon DEF IInv

\* nearest_free_bucket takes a free bucket.
LEMMA NearestFreeBucketInv ==
  ASSUME HasLeast, IInv, NearestFreeBucket
  PROVE  IInv' /\ Present' = Present
<1>1. /\ pc = "probe" /\ FreeDistances(N, Home) # {} /\ pc' = "space"
      /\ dst' = (Home + Min(FreeDistances(N, Home))) % N
      /\ line' = line /\ pm' = pm /\ size' = size /\ segs' = segs /\ op' = op /\ live' = live
      /\ src' = src /\ from' = from /\ ix' = ix
      /\ told' = told /\ stale' = stale /\ crashes' = crashes
  BY Zenon DEF NearestFreeBucket, history, N
<1>2. TableInv' /\ ResizeInv' /\ N' = N /\ Present' = Present /\ live /\ ~segs.unstable
  <2>1. pc \in {"idle", "scan"} \cup Emplacing \cup Erasing /\ ~Resizing'
    BY <1>1, Zenon DEF Resizing, Emplacing
  <2> QED BY <1>1, <2>1, Idle, Calls, Zenon
<1>3. N \in Nat \ {0} /\ 0 .. N - 1 \subseteq Buckets /\ op.key \in Keys
  <2>1. N \in Nat \ {0} /\ Sized(N)
    BY Facts, Zenon DEF IInv
  <2>2. op.key \in Keys
    BY <1>1, <1>2, Zenon DEF IInv, ToldInv, Emplacing
  <2> QED BY <2>1, <2>2, Zenon DEF Sized
<1>4. Home \in 0 .. N - 1
  BY <1>3, HomeRange, Zenon DEF Home, N
<1>5. dst' \in 0 .. N - 1 /\ ~line[dst'].use
  <2>1. FreeDistances(N, Home) \in SUBSET Nat
    BY <1>3 DEF FreeDistances
  <2>2. PICK d \in 0 .. N - 1 : d = Min(FreeDistances(N, Home)) /\ ~line[(Home + d) % N].use
    <3>1. Min(FreeDistances(N, Home)) \in FreeDistances(N, Home)
      BY <1>1, <2>1, MinOf, Zenon
    <3> QED BY <3>1, Zenon DEF FreeDistances
  <2>3. Place(N, Home, d) \in 0 .. N - 1
    BY <1>3, <1>4, PlaceAt, Zenon
  <2> QED BY <1>1, <2>2, <2>3, Zenon DEF Place
<1>6. TypeOK'
  BY <1>1, <1>3, <1>5, Zenon DEF IInv, TypeOK
<1>7. PhaseInv'
  BY <1>1, <1>2, <1>5, Zenon DEF PhaseInv, Emplacing, Erasing, Moving, Free
<1>8. ToldInv'
  BY <1>1, <1>2, Zenon DEF IInv, ToldInv, Emplacing, Erasing, Moving
<1> QED BY <1>2, <1>6, <1>7, <1>8, Zenon DEF IInv

\* no_near_empty_bucket: emplace goes on to resize.
LEMMA NoNearEmptyBucketInv ==
  ASSUME IInv, NoNearEmptyBucket
  PROVE  IInv' /\ Present' = Present
<1>1. /\ pc \in {"probe", "space"}
      /\ \/ segs.n < MaxSegments /\ pc' = "resize" /\ op' = op /\ dst' = dst /\ src' = src /\ from' = from /\ ix' = ix
         \/ pc' = "idle" /\ op' = NoOp /\ dst' = 0 /\ src' = 0 /\ from' = 0 /\ ix' = 0
      /\ line' = line /\ pm' = pm /\ size' = size /\ segs' = segs /\ live' = live
      /\ told' = told /\ stale' = stale /\ crashes' = crashes
  <2>1. \/ segs.n < MaxSegments /\ pc' = "resize" /\ op' = op /\ dst' = dst /\ src' = src /\ from' = from /\ ix' = ix
        \/ pc' = "idle" /\ op' = NoOp /\ dst' = 0 /\ src' = 0 /\ from' = 0 /\ ix' = 0
    BY Zenon DEF NoNearEmptyBucket, Return, locals
  <2>2. pc \in {"probe", "space"}
    BY Zenon DEF NoNearEmptyBucket
  <2> QED BY <2>1, <2>2, Zenon DEF NoNearEmptyBucket, history
<1>2. TableInv' /\ ResizeInv' /\ N' = N /\ Present' = Present /\ live /\ ~segs.unstable
  <2>1. pc \in {"idle", "scan"} \cup Emplacing \cup Erasing /\ ~Resizing'
    BY <1>1, Zenon DEF Resizing, Emplacing
  <2> QED BY <1>1, <2>1, Idle, Calls, Zenon
<1>3. 0 \in Buckets
  BY Facts DEF IInv, Sized
<1>4. TypeOK'
  BY <1>1, <1>3 DEF IInv, TypeOK, NoOp
<1>5. PhaseInv'
  BY <1>1, <1>2, Zenon DEF PhaseInv, Emplacing, Erasing, Moving
<1>6. ToldInv'
  <2>1. told = Present /\ ~size.unstable /\ op.kind = "emplace" /\ op.key \in Keys /\ op.key \notin Present
    BY <1>1, <1>2, Zenon DEF IInv, ToldInv, Emplacing, Erasing, Moving
  <2> QED BY <1>1, <1>2, <2>1, Zenon DEF ToldInv, Emplacing, Erasing, Moving
<1> QED BY <1>2, <1>4, <1>5, <1>6, Zenon DEF IInv

\* The content that moves is nearer to its owner, and to the home of the new key, than the
\* free bucket.
LEMMA Nearer ==
  ASSUME NEW n \in Nat \ {0}, 2 * OwnerSize <= n, NEW d \in 0 .. n - 1, NEW h \in 0 .. n - 1,
         NEW j \in 1 .. OwnerSize - 1, NEW p \in 0 .. j - 1, DistanceWrapped(n, h, d) >= OwnerSize
  PROVE  /\ (d - j) % n \in 0 .. n - 1 /\ (d - j + p) % n = Place(n, (d - j) % n, p)
         /\ Place(n, (d - j) % n, p) \in 0 .. n - 1
         /\ DistanceWrapped(n, (d - j) % n, Place(n, (d - j) % n, p)) = p
         /\ DistanceWrapped(n, (d - j) % n, d) = j
         /\ DistanceWrapped(n, h, Place(n, (d - j) % n, p)) < DistanceWrapped(n, h, d)
<1>0. OwnerSize \in Nat \ {0}
  BY HopHashAssumption, Zenon
<1>1. PICK b \in 0 .. n - 1 : b = (d - j) % n /\ b = IF j <= d THEN d - j ELSE d - j + n
  <2>1. CASE j <= d
    BY <1>0, <2>1
  <2>2. CASE j > d
    <3>1. d - j \in -n .. -1
      BY <1>0, <2>2
    <3> QED BY <2>2, <3>1
  <2> QED BY <1>0, <2>1, <2>2
<1>2. p \in 0 .. n - 1 /\ j \in 0 .. n - 1
  BY <1>0
<1>3. PICK c \in 0 .. n - 1 : c = Place(n, b, p) /\ (c = IF b + p < n THEN b + p ELSE b + p - n) /\ DistanceWrapped(n, b, c) = p
  BY <1>2, PlaceAt, ZenonT(60)
<1>4. (d - j + p) % n = c
  <2>1. c = IF p >= j - d THEN d - j + p ELSE d - j + p + n
    BY <1>0, <1>1, <1>3
  <2>2. CASE p >= j - d
    BY <1>0, <2>1, <2>2
  <2>3. CASE p < j - d
    <3>1. d - j + p \in -n .. -1
      BY <1>0, <2>3
    <3> QED BY <2>1, <2>3, <3>1
  <2> QED BY <1>0, <2>2, <2>3
<1>5. DistanceWrapped(n, b, d) = j
  <2>1. DistanceWrapped(n, b, d) = IF b <= d THEN d - b ELSE d - b + n
    BY DistanceTo, Zenon
  <2> QED BY <1>0, <1>1, <2>1
<1>6. DistanceWrapped(n, h, c) < DistanceWrapped(n, h, d)
  <2>1. DistanceWrapped(n, h, d) = IF h <= d THEN d - h ELSE d - h + n
    BY DistanceTo, Zenon
  <2>2. DistanceWrapped(n, h, c) = IF h <= c THEN c - h ELSE c - h + n
    BY DistanceTo, Zenon
  <2>3. c = IF p >= j - d THEN d - j + p ELSE d - j + p + n
    BY <1>0, <1>1, <1>3
  <2> QED BY <1>0, <2>1, <2>2, <2>3
<1> QED BY <1>1, <1>3, <1>4, <1>5, <1>6, Zenon

\* make_space_for_insert chooses an owner and a content to move; the content is not the
\* free bucket.
LEMMA MoveStartInv ==
  ASSUME HasLeast, IInv, MoveStart
  PROVE  IInv' /\ Present' = Present
<1> DEFINE j == Max(Movers(N, dst))
           p == Min(Eligible(N, dst, j))
<1>1. /\ pc = "space" /\ OutOfReach /\ Movers(N, dst) # {}
      /\ from' = (dst - j) % N /\ src' = (dst - j + p) % N
      /\ size' = [size EXCEPT !.unstable = TRUE] /\ pc' = "move_content"
      /\ line' = line /\ pm' = pm /\ segs' = segs /\ op' = op /\ live' = live
      /\ dst' = dst /\ ix' = ix /\ told' = told /\ stale' = stale /\ crashes' = crashes
  BY Zenon DEF MoveStart, SizeUnstable, history, N
<1>2. TableInv' /\ ResizeInv' /\ N' = N /\ Present' = Present /\ live /\ ~segs.unstable /\ Well(line, N)
  <2>1. pc \in {"idle", "scan"} \cup Emplacing \cup Erasing /\ ~Resizing'
    BY <1>1, Zenon DEF Resizing, Emplacing
  <2> QED BY <1>1, <2>1, Idle, Calls, Zenon
<1>3. N \in Nat \ {0} /\ Sized(N) /\ line \in Table /\ 2 * OwnerSize <= N /\ OwnerSize \in Nat \ {0}
  <2>1. N \in Nat \ {0} /\ Sized(N) /\ line \in Table
    BY Facts, Zenon DEF IInv
  <2>2. 2 * OwnerSize <= N
    BY Sizes, Zenon DEF IInv, TypeOK
  <2> QED BY <2>1, <2>2, HopHashAssumption, Zenon
<1>4. op.kind = "emplace" /\ op.key \in Keys /\ op.key \notin Present /\ told = Present
  BY <1>1, <1>2, Zenon DEF IInv, ToldInv, Emplacing, Erasing
<1>5. Home \in 0 .. N - 1
  BY <1>3, <1>4, HomeRange, Zenon DEF Home, N
<1>6. dst \in 0 .. N - 1 /\ ~line[dst].use
  BY <1>1, Zenon DEF IInv, PhaseInv, Free
<1>7. j \in 1 .. OwnerSize - 1 /\ Eligible(N, dst, j) # {}
  <2>1. Movers(N, dst) \in SUBSET (0 .. OwnerSize - 1) /\ OwnerSize - 1 \in Nat
    BY <1>3 DEF Movers
  <2>2. j \in Movers(N, dst)
    BY <1>1, <2>1, MaxOf, Zenon
  <2> QED BY <2>2, Zenon DEF Movers
<1> HIDE DEF j
<1>8. (dst - j) % N \in 0 .. N - 1
  BY <1>3, <1>6, <1>7
<1>9. p \in line[(dst - j) % N].own /\ p <= j
  <2>1. line[(dst - j) % N].own \subseteq Nat
    BY <1>3, <1>8 DEF Table, Sized, Bucket, Offsets
  <2>2. Eligible(N, dst, j) \in SUBSET Nat
    BY <2>1, Zenon DEF Eligible
  <2>3. p \in Eligible(N, dst, j)
    BY <1>7, <2>2, MinOf, Zenon
  <2> QED BY <2>3, Zenon DEF Eligible
<1> HIDE DEF p
<1>10. p \in 0 .. j - 1
  <2>1. p \in Nat
    BY <1>3, <1>8, <1>9 DEF Table, Sized, Bucket, Offsets
  <2>2. p # j
    <3>1. SUFFICES ASSUME p = j PROVE FALSE
      BY Zenon
    <3>2. line[Place(N, (dst - j) % N, j)].use
      BY <1>2, <1>8, <1>9, <3>1, Zenon DEF Well
    <3>3. DistanceWrapped(N, (dst - j) % N, dst) = j
      <4>1. 0 \in 0 .. j - 1
        BY <1>3, <1>7
      <4>2. DistanceWrapped(N, Home, dst) >= OwnerSize
        BY <1>1, Zenon DEF OutOfReach, N
      <4> QED BY <1>3, <1>5, <1>6, <1>7, <4>1, <4>2, Nearer, SMTT(60)
    <3>4. Place(N, (dst - j) % N, DistanceWrapped(N, (dst - j) % N, dst)) = dst
      BY <1>3, <1>6, <1>8, DistanceTo
    <3> QED BY <1>6, <3>2, <3>3, <3>4, Zenon
  <2> QED BY <1>3, <1>7, <1>9, <2>1, <2>2
<1>11. /\ from' \in 0 .. N - 1 /\ src' \in 0 .. N - 1
       /\ DistanceWrapped(N, from', src') = p /\ DistanceWrapped(N, from', dst) = j
       /\ DistanceWrapped(N, Home, src') < DistanceWrapped(N, Home, dst)
  <2>1. DistanceWrapped(N, Home, dst) >= OwnerSize
    BY <1>1, Zenon DEF OutOfReach, N
  <2> QED BY <1>1, <1>3, <1>5, <1>6, <1>7, <1>10, <2>1, Nearer
<1>12. TypeOK'
  <2>1. src' \in Buckets /\ from' \in Buckets
    BY <1>3, <1>11, Zenon DEF Sized
  <2> QED BY <1>1, <2>1, Zenon DEF IInv, TypeOK
<1>13. Home' = Home
  BY <1>1, <1>2, Zenon DEF Home, N
<1>14. p < j /\ j < OwnerSize
  BY <1>3, <1>7, <1>10
<1>15. PhaseInv'
  <2>1. Free(dst)'
    BY <1>1, <1>2, <1>6, Zenon DEF Free
  <2>2. /\ ({src, from, dst} \subseteq 0 .. N - 1)'
        /\ (DistanceWrapped(N, from, src) < DistanceWrapped(N, from, dst))'
        /\ (DistanceWrapped(N, from, dst) < OwnerSize)'
        /\ (DistanceWrapped(N, Home, src) < DistanceWrapped(N, Home, dst))'
    BY <1>1, <1>2, <1>6, <1>11, <1>13, <1>14, Zenon
  <2>3. (DistanceWrapped(N, from, src) \in line[from].own)'
    BY <1>1, <1>2, <1>9, <1>11, Zenon
  <2> QED BY <1>1, <1>2, <2>1, <2>2, <2>3, Zenon DEF PhaseInv, Emplacing, Erasing
<1>16. ToldInv'
  <2>1. size'.unstable
    BY <1>1, Zenon DEF IInv, TypeOK
  <2> QED BY <1>1, <1>2, <1>4, <2>1, Zenon DEF ToldInv, Emplacing, Erasing, Moving
<1> QED BY <1>2, <1>12, <1>15, <1>16, Zenon DEF IInv

\* make_space_for_insert goes on with the bucket it has freed.
LEMMA MoveDoneInv ==
  ASSUME IInv, MoveDone
  PROVE  IInv' /\ Present' = Present
<1>1. /\ pc = "move_done" /\ size' = [n |-> size.n, unstable |-> FALSE] /\ pc' = "space"
      /\ dst' = src /\ src' = 0 /\ from' = 0
      /\ line' = line /\ pm' = pm /\ segs' = segs /\ op' = op /\ live' = live /\ ix' = ix
      /\ told' = told /\ stale' = stale /\ crashes' = crashes
  BY Zenon DEF MoveDone, SizeStable, history
<1>2. TableInv' /\ ResizeInv' /\ N' = N /\ Present' = Present /\ live /\ ~segs.unstable
  <2>1. pc \in {"idle", "scan"} \cup Emplacing \cup Erasing /\ ~Resizing'
    BY <1>1, Zenon DEF Resizing, Emplacing
  <2> QED BY <1>1, <2>1, Idle, Calls, Zenon
<1>3. 0 \in Buckets
  BY Facts DEF IInv, Sized
<1>4. TypeOK'
  BY <1>1, <1>3, Zenon DEF IInv, TypeOK
<1>5. PhaseInv'
  <2>1. Free(dst)'
    BY <1>1, <1>2, Zenon DEF IInv, PhaseInv, Free
  <2> QED BY <1>1, <1>2, <2>1, Zenon DEF PhaseInv, Emplacing, Erasing, Moving
<1>6. ToldInv'
  <2>1. told = Present /\ op.kind = "emplace" /\ op.key \in Keys /\ op.key \notin Present
    BY <1>1, <1>2, Zenon DEF IInv, ToldInv, Emplacing, Erasing
  <2> QED BY <1>1, <1>2, <2>1, Zenon DEF ToldInv, Emplacing, Erasing, Moving
<1> QED BY <1>2, <1>4, <1>5, <1>6, Zenon DEF IInv

\* emplace has a bucket in reach and marks the size unstable.
LEMMA InsertStartInv ==
  ASSUME IInv, InsertStart
  PROVE  IInv' /\ Present' = Present
<1>1. /\ pc = "space" /\ ~OutOfReach /\ size' = [size EXCEPT !.unstable = TRUE] /\ pc' = "insert_content"
      /\ line' = line /\ pm' = pm /\ segs' = segs /\ op' = op /\ live' = live
      /\ dst' = dst /\ src' = src /\ from' = from /\ ix' = ix
      /\ told' = told /\ stale' = stale /\ crashes' = crashes
  BY Zenon DEF InsertStart, SizeUnstable, locals, history
<1>2. TableInv' /\ ResizeInv' /\ N' = N /\ Present' = Present /\ live /\ ~segs.unstable
  <2>1. pc \in {"idle", "scan"} \cup Emplacing \cup Erasing /\ ~Resizing'
    BY <1>1, Zenon DEF Resizing, Emplacing
  <2> QED BY <1>1, <2>1, Idle, Calls, Zenon
<1>3. TypeOK'
  BY <1>1, Zenon DEF IInv, TypeOK
<1>4. PhaseInv'
  <2>1. Free(dst)' /\ ~OutOfReach'
    BY <1>1, <1>2, Zenon DEF IInv, PhaseInv, Free, OutOfReach, Home, N
  <2> QED BY <1>1, <1>2, <2>1, Zenon DEF PhaseInv, Emplacing, Erasing, Moving
<1>5. ToldInv'
  <2>1. told = Present /\ op.kind = "emplace" /\ op.key \in Keys /\ op.key \notin Present
    BY <1>1, <1>2, Zenon DEF IInv, ToldInv, Emplacing, Erasing
  <2>2. size'.unstable
    BY <1>1, Zenon DEF IInv, TypeOK
  <2> QED BY <1>1, <1>2, <2>1, <2>2, Zenon DEF ToldInv, Emplacing, Erasing, Moving
<1> QED BY <1>2, <1>3, <1>4, <1>5, Zenon DEF IInv

\* emplace answers and the size counts the new key.
LEMMA InsertDoneInv ==
  ASSUME IInv, InsertDone
  PROVE  IInv' /\ Present' = Present
<1>1. /\ pc = "insert_done" /\ size' = [n |-> size.n + 1, unstable |-> FALSE] /\ told' = told \cup {op.key}
      /\ pc' = "idle" /\ op' = NoOp /\ dst' = 0 /\ src' = 0 /\ from' = 0 /\ ix' = 0
      /\ line' = line /\ pm' = pm /\ segs' = segs /\ live' = live /\ stale' = stale /\ crashes' = crashes
  BY Zenon DEF InsertDone, SizeStable, Return
<1>2. TableInv' /\ ResizeInv' /\ N' = N /\ Present' = Present /\ live /\ ~segs.unstable
  <2>1. pc \in {"idle", "scan"} \cup Emplacing \cup Erasing /\ ~Resizing'
    BY <1>1, Zenon DEF Resizing, Emplacing
  <2> QED BY <1>1, <2>1, Idle, Calls, Zenon
<1>3. 0 \in Buckets
  BY Facts DEF IInv, Sized
<1>4. told = Present \ {op.key} /\ op.key \in Keys /\ op.key \in Present
  BY <1>1, <1>2, Zenon DEF IInv, ToldInv, Emplacing, Erasing
<1>5. TypeOK'
  BY <1>1, <1>3, <1>4 DEF IInv, TypeOK, NoOp
<1>6. PhaseInv'
  BY <1>1, <1>2, Zenon DEF PhaseInv, Emplacing, Erasing, Moving
<1>7. ToldInv'
  <2>1. told' = Present
    BY <1>1, <1>4, Zenon
  <2> QED BY <1>1, <1>2, <2>1, Zenon DEF ToldInv, Emplacing, Erasing, Moving
<1> QED BY <1>2, <1>5, <1>6, <1>7, Zenon DEF IInv

\* erase answers and the size counts the key no more.
LEMMA EraseDoneInv ==
  ASSUME IInv, EraseDone
  PROVE  IInv' /\ Present' = Present
<1>1. /\ pc = "erase_done" /\ size' = [n |-> size.n - 1, unstable |-> FALSE] /\ told' = told \ {op.key}
      /\ pc' = "idle" /\ op' = NoOp /\ dst' = 0 /\ src' = 0 /\ from' = 0 /\ ix' = 0
      /\ line' = line /\ pm' = pm /\ segs' = segs /\ live' = live /\ stale' = stale /\ crashes' = crashes
  BY Zenon DEF EraseDone, SizeStable, Return
<1>2. TableInv' /\ ResizeInv' /\ N' = N /\ Present' = Present /\ live /\ ~segs.unstable
  <2>1. pc \in {"idle", "scan"} \cup Emplacing \cup Erasing /\ ~Resizing'
    BY <1>1, Zenon DEF Resizing, Erasing
  <2> QED BY <1>1, <2>1, Idle, Calls, Zenon
<1>3. 0 \in Buckets
  BY Facts DEF IInv, Sized
<1>4. told = Present \cup {op.key} /\ op.key \notin Present
  BY <1>1, <1>2, Zenon DEF IInv, ToldInv, Emplacing, Erasing
<1>5. TypeOK'
  BY <1>1, <1>3, <1>4 DEF IInv, TypeOK, NoOp
<1>6. PhaseInv'
  BY <1>1, <1>2, Zenon DEF PhaseInv, Emplacing, Erasing, Moving
<1>7. ToldInv'
  <2>1. told' = Present
    BY <1>1, <1>4, Zenon
  <2> QED BY <1>1, <1>2, <2>1, Zenon DEF ToldInv, Emplacing, Erasing, Moving
<1> QED BY <1>2, <1>5, <1>6, <1>7, Zenon DEF IInv

\* The constructor has counted the contents and is ready.
LEMMA ScanDoneInv ==
  ASSUME IInv, ScanDone, Cardinality(Owned(line, N)) \in Nat
  PROVE  IInv' /\ Present' = Present
<1>1. /\ pc = "scan" /\ live' = TRUE /\ told' = Located(line, N)
      /\ pc' = "idle" /\ op' = NoOp /\ dst' = 0 /\ src' = 0 /\ from' = 0 /\ ix' = 0
      /\ line' = line /\ pm' = pm /\ segs' = segs /\ stale' = stale /\ crashes' = crashes
      /\ \/ size' = [n |-> Cardinality(Owned(line, N)), unstable |-> FALSE]
         \/ ~size.unstable /\ size' = size
  BY Zenon DEF ScanDone, SizeStable, Return, N
<1>2. TableInv' /\ ResizeInv' /\ N' = N /\ Present' = Present /\ ~segs.unstable /\ Present = Located(line, N)
  <2>1. pc \in {"idle", "scan"} \cup Emplacing \cup Erasing /\ ~Resizing'
    BY <1>1, Zenon DEF Resizing
  <2> QED BY <1>1, <2>1, Idle, Calls, Zenon
<1>3. 0 \in Buckets
  BY Facts DEF IInv, Sized
<1>4. size' \in [n : Int, unstable : BOOLEAN] /\ ~size'.unstable
  <2>1. CASE size' = [n |-> Cardinality(Owned(line, N)), unstable |-> FALSE]
    <3>1. Cardinality(Owned(line, N)) \in Int
      OBVIOUS
    <3> QED BY <2>1, <3>1, Zenon
  <2>2. CASE ~size.unstable /\ size' = size
    BY <2>2, Zenon DEF IInv, TypeOK
  <2> QED BY <1>1, <2>1, <2>2, Zenon
<1>5. TypeOK'
  <2>1. told' \subseteq Keys
    BY <1>1, Zenon DEF Located
  <2> QED BY <1>1, <1>3, <1>4, <2>1, Zenon DEF IInv, TypeOK, NoOp
<1>6. PhaseInv'
  BY <1>1, <1>2, Zenon DEF PhaseInv, Emplacing, Erasing, Moving
<1>7. ToldInv'
  BY <1>1, <1>2, <1>4, Zenon DEF ToldInv, Emplacing, Erasing, Moving
<1> QED BY <1>2, <1>5, <1>6, <1>7, Zenon DEF IInv

\* What is not in use is not owned, and a content that is not owned may change.
LEMMA FreeUnowned ==
  ASSUME NEW n, Sized(n), NEW L \in Table, Well(L, n), NEW c, ~L[c].use
  PROVE  c \notin Owned(L, n)
<1>1. SUFFICES ASSUME c \in Owned(L, n) PROVE FALSE
  BY Zenon
<1>2. PICK b \in 0 .. n - 1 : \E o \in L[b].own : c = Place(n, b, o)
  BY <1>1, OwnedBy
<1> QED BY <1>2, Zenon DEF Well

\* A content that no owner leads to may change.
LEMMA Recontent ==
  ASSUME NEW n, Sized(n), NEW L \in Table, NEW M \in Table, Well(L, n), Unique(L, n), NEW c, c \notin Owned(L, n),
         \A b \in 0 .. n - 1 : M[b].own = L[b].own /\ (b # c => M[b] = L[b])
  PROVE  Well(M, n) /\ Unique(M, n) /\ Owned(M, n) = Owned(L, n) /\ Located(M, n) = Located(L, n)
<1>1. Same(L, M, n)
  BY Zenon DEF Same
<1> QED BY <1>1, SameTable, Zenon

\* make_space_for_insert copies a content to the free bucket, which no owner leads to.
LEMMA MoveContentInv ==
  ASSUME IInv, MoveContent
  PROVE  IInv' /\ Present' = Present
<1>1. /\ pc = "move_content" /\ line' = [line EXCEPT ![dst].key = line[src].key, ![dst].use = TRUE]
      /\ pm' = [b \in Buckets |-> IF b \in {src, dst} THEN line'[b] ELSE pm[b]]
      /\ pc' = "move_owner" /\ size' = size /\ segs' = segs /\ op' = op /\ live' = live
      /\ dst' = dst /\ src' = src /\ from' = from /\ ix' = ix
      /\ told' = told /\ stale' = stale /\ crashes' = crashes
  BY Zenon DEF MoveContent, Persist, locals, history
<1>2. /\ Sized(N) /\ N \in Nat \ {0} /\ line \in Table /\ pm \in Table /\ live /\ ~segs.unstable
      /\ Well(line, N) /\ Unique(line, N) /\ Agree(line, pm, N) /\ Present = Located(line, N)
  <2>1. pc \in {"idle", "scan"} \cup Emplacing \cup Erasing /\ pc # "scan"
    BY <1>1, Zenon DEF Emplacing
  <2> QED BY <2>1, Facts, Calls, Zenon DEF IInv
<1>3. /\ dst \in 0 .. N - 1 /\ ~line[dst].use /\ src \in 0 .. N - 1 /\ from \in 0 .. N - 1
      /\ DistanceWrapped(N, from, src) < DistanceWrapped(N, from, dst)
      /\ DistanceWrapped(N, from, dst) < OwnerSize
      /\ DistanceWrapped(N, Home, src) < DistanceWrapped(N, Home, dst)
      /\ DistanceWrapped(N, from, src) \in line[from].own
  BY <1>1, Zenon DEF IInv, PhaseInv, Moving, Free
<1>4. src # dst
  <2>1. DistanceWrapped(N, from, src) \in Int
    BY <1>2, <1>3, DistanceTo
  <2> QED BY <1>3, <2>1
<1>5. dst \notin Owned(line, N)
  BY <1>2, <1>3, FreeUnowned, Zenon
<1>6. /\ dst \in Buckets /\ src \in Buckets /\ from \in Buckets
      /\ line[src] \in Bucket /\ line[dst] \in Bucket
  BY <1>2, <1>3, Zenon DEF Sized, Table
<1>7. /\ line' \in Table /\ line'[dst].use /\ line'[dst].key = line[src].key /\ line'[dst].own = line[dst].own
      /\ \A b \in Buckets : b # dst => line'[b] = line[b]
  <2>1. line'[dst] = [line[dst] EXCEPT !.key = line[src].key, !.use = TRUE]
    BY <1>1, <1>2, <1>6, Zenon DEF Table
  <2>2. \A b \in Buckets : b # dst => line'[b] = line[b]
    BY <1>1, <1>2, <1>6, Zenon DEF Table
  <2>3. line'[dst].use /\ line'[dst].key = line[src].key /\ line'[dst].own = line[dst].own /\ line'[dst] \in Bucket
    BY <1>6, <2>1, Zenon DEF Bucket
  <2>4. line' \in Table
    BY <1>1, <1>2, <2>2, <2>3, Zenon DEF Table
  <2> QED BY <2>2, <2>3, <2>4, Zenon
<1>8. pm' \in Table /\ \A b \in Buckets : pm'[b] = line'[b] \/ (pm'[b] = pm[b] /\ b # dst)
  BY <1>1, <1>2, <1>7, Zenon DEF Table
<1>9. Well(line', N) /\ Unique(line', N) /\ Owned(line', N) = Owned(line, N) /\ Located(line', N) = Located(line, N)
  <2>1. \A b \in 0 .. N - 1 : line'[b].own = line[b].own /\ (b # dst => line'[b] = line[b])
    BY <1>2, <1>7, Zenon DEF Sized
  <2> QED BY <1>2, <1>5, <1>7, <2>1, Recontent, Zenon
<1>10. Agree(line', pm', N)
  BY <1>2, <1>7, <1>8 DEF Agree, Sized
<1>11. TableInv' /\ ResizeInv' /\ N' = N /\ Present' = Present
  <2>1. ~Resizing'
    BY <1>1, Zenon DEF Resizing
  <2> QED BY <1>1, <1>2, <1>9, <1>10, <2>1, Settled, Zenon
<1>12. TypeOK'
  BY <1>1, <1>7, <1>8, Zenon DEF IInv, TypeOK, Table
<1>13. PhaseInv'
  <2>1. Home' = Home
    BY <1>1, <1>11, Zenon DEF Home, N
  <2>2. (Unowned(dst) /\ line[dst].use /\ line[dst].key = line[src].key)'
    BY <1>1, <1>3, <1>4, <1>5, <1>6, <1>7, <1>9, <1>11, ZenonT(60) DEF Unowned
  <2>3. (DistanceWrapped(N, from, src) \in line[from].own)'
    BY <1>1, <1>3, <1>6, <1>7, <1>11, Zenon
  <2>4. /\ ({src, from, dst} \subseteq 0 .. N - 1)'
        /\ (DistanceWrapped(N, from, src) < DistanceWrapped(N, from, dst))'
        /\ (DistanceWrapped(N, from, dst) < OwnerSize)'
        /\ (DistanceWrapped(N, Home, src) < DistanceWrapped(N, Home, dst))'
    BY <1>1, <1>3, <1>11, <2>1, Zenon
  <2> QED BY <1>1, <1>2, <2>2, <2>3, <2>4, Zenon DEF PhaseInv, Emplacing, Erasing
<1>14. ToldInv'
  <2>1. told = Present /\ op.kind = "emplace" /\ op.key \in Keys /\ op.key \notin Present /\ size.unstable
    BY <1>1, <1>2, ZenonT(60) DEF IInv, ToldInv, Emplacing, Erasing, Moving
  <2> QED BY <1>1, <1>2, <1>11, <2>1, Zenon DEF ToldInv, Emplacing, Erasing, Moving
<1> QED BY <1>11, <1>12, <1>13, <1>14, Zenon DEF IInv

\* emplace writes its content, which no owner leads to.
LEMMA InsertContentInv ==
  ASSUME IInv, InsertContent
  PROVE  IInv' /\ Present' = Present
<1>1. /\ pc = "insert_content" /\ line' = [line EXCEPT ![dst].key = op.key, ![dst].use = TRUE]
      /\ pm' = [b \in Buckets |-> IF b \in {dst} THEN line'[b] ELSE pm[b]]
      /\ pc' = "insert_owner" /\ size' = size /\ segs' = segs /\ op' = op /\ live' = live
      /\ dst' = dst /\ src' = src /\ from' = from /\ ix' = ix
      /\ told' = told /\ stale' = stale /\ crashes' = crashes
  BY Zenon DEF InsertContent, Persist, locals, history
<1>2. /\ Sized(N) /\ N \in Nat \ {0} /\ line \in Table /\ pm \in Table /\ live /\ ~segs.unstable
      /\ Well(line, N) /\ Unique(line, N) /\ Agree(line, pm, N) /\ Present = Located(line, N)
  <2>1. pc \in {"idle", "scan"} \cup Emplacing \cup Erasing /\ pc # "scan"
    BY <1>1, Zenon DEF Emplacing
  <2> QED BY <2>1, Facts, Calls, Zenon DEF IInv
<1>3. dst \in 0 .. N - 1 /\ ~line[dst].use /\ ~OutOfReach
  BY <1>1, Zenon DEF IInv, PhaseInv, Free
<1>4. told = Present /\ op.kind = "emplace" /\ op.key \in Keys /\ op.key \notin Present /\ size.unstable
  BY <1>1, <1>2, Zenon DEF IInv, ToldInv, Emplacing, Erasing, Moving
<1>5. dst \notin Owned(line, N)
  BY <1>2, <1>3, FreeUnowned, Zenon
<1>6. dst \in Buckets /\ line[dst] \in Bucket
  BY <1>2, <1>3, Zenon DEF Sized, Table
<1>7. /\ line' \in Table /\ line'[dst].use /\ line'[dst].key = op.key /\ line'[dst].own = line[dst].own
      /\ \A b \in Buckets : b # dst => line'[b] = line[b]
  <2>1. line'[dst] = [line[dst] EXCEPT !.key = op.key, !.use = TRUE]
    BY <1>1, <1>2, <1>6, Zenon DEF Table
  <2>2. \A b \in Buckets : b # dst => line'[b] = line[b]
    BY <1>1, <1>2, <1>6, Zenon DEF Table
  <2>3. line'[dst].use /\ line'[dst].key = op.key /\ line'[dst].own = line[dst].own /\ line'[dst] \in Bucket
    BY <1>4, <1>6, <2>1, Zenon DEF Bucket
  <2>4. line' \in Table
    BY <1>1, <1>2, <2>2, <2>3, Zenon DEF Table
  <2> QED BY <2>2, <2>3, <2>4, Zenon
<1>8. pm' \in Table /\ \A b \in Buckets : pm'[b] = line'[b] \/ (pm'[b] = pm[b] /\ b # dst)
  BY <1>1, <1>2, <1>7, Zenon DEF Table
<1>9. Well(line', N) /\ Unique(line', N) /\ Owned(line', N) = Owned(line, N) /\ Located(line', N) = Located(line, N)
  <2>1. \A b \in 0 .. N - 1 : line'[b].own = line[b].own /\ (b # dst => line'[b] = line[b])
    BY <1>2, <1>7, Zenon DEF Sized
  <2> QED BY <1>2, <1>5, <1>7, <2>1, Recontent, Zenon
<1>10. Agree(line', pm', N)
  BY <1>2, <1>7, <1>8 DEF Agree, Sized
<1>11. TableInv' /\ ResizeInv' /\ N' = N /\ Present' = Present
  <2>1. ~Resizing'
    BY <1>1, Zenon DEF Resizing
  <2> QED BY <1>1, <1>2, <1>9, <1>10, <2>1, Settled, Zenon
<1>12. TypeOK'
  BY <1>1, <1>7, <1>8, Zenon DEF IInv, TypeOK, Table
<1>13. PhaseInv'
  <2>1. ~OutOfReach'
    BY <1>1, <1>3, <1>11, Zenon DEF OutOfReach, Home, N
  <2>2. (Unowned(dst) /\ line[dst].use /\ line[dst].key = op.key)'
    BY <1>1, <1>3, <1>5, <1>7, <1>9, <1>11, Zenon DEF Unowned
  <2> QED BY <1>1, <1>2, <2>1, <2>2, Zenon DEF PhaseInv, Emplacing, Erasing, Moving
<1>14. ToldInv'
  BY <1>1, <1>2, <1>4, <1>11, Zenon DEF ToldInv, Emplacing, Erasing, Moving
<1> QED BY <1>11, <1>12, <1>13, <1>14, Zenon DEF IInv

\* The content that no owner leads to any more is freed, by a move or an erase.
LEMMA FreeContentInv ==
  ASSUME IInv, FreeContent
  PROVE  IInv' /\ Present' = Present
<1>1. /\ pc \in {"move_free", "erase_free"} /\ line' = [line EXCEPT ![src].use = FALSE, ![src].key = NoKey]
      /\ pc' = (IF pc = "move_free" THEN "move_done" ELSE "erase_done")
      /\ pm' = pm /\ size' = size /\ segs' = segs /\ op' = op /\ live' = live
      /\ dst' = dst /\ src' = src /\ from' = from /\ ix' = ix
      /\ told' = told /\ stale' = stale /\ crashes' = crashes
  BY Zenon DEF FreeContent, locals, history
<1>2. /\ Sized(N) /\ N \in Nat \ {0} /\ line \in Table /\ pm \in Table /\ live /\ ~segs.unstable
      /\ Well(line, N) /\ Unique(line, N) /\ Agree(line, pm, N) /\ Present = Located(line, N)
  <2>1. pc \in {"idle", "scan"} \cup Emplacing \cup Erasing /\ pc # "scan"
    BY <1>1, Zenon DEF Emplacing, Erasing
  <2> QED BY <2>1, Facts, Calls, Zenon DEF IInv
<1>3. src \in 0 .. N - 1 /\ src \notin Owned(line, N)
  BY <1>1, Zenon DEF IInv, PhaseInv, Unowned
<1>4. src \in Buckets /\ line[src] \in Bucket
  BY <1>2, <1>3, Zenon DEF Sized, Table
<1>5. /\ line' \in Table /\ ~line'[src].use /\ line'[src].own = line[src].own
      /\ \A b \in Buckets : b # src => line'[b] = line[b]
  <2>1. line'[src] = [line[src] EXCEPT !.use = FALSE, !.key = NoKey]
    BY <1>1, <1>2, <1>4, Zenon DEF Table
  <2>2. \A b \in Buckets : b # src => line'[b] = line[b]
    BY <1>1, <1>2, <1>4, Zenon DEF Table
  <2>3. ~line'[src].use /\ line'[src].own = line[src].own /\ line'[src] \in Bucket
    BY <1>4, <2>1, Zenon DEF Bucket
  <2>4. line' \in Table
    BY <1>1, <1>2, <2>2, <2>3, Zenon DEF Table
  <2> QED BY <2>2, <2>3, <2>4, Zenon
<1>6. Well(line', N) /\ Unique(line', N) /\ Owned(line', N) = Owned(line, N) /\ Located(line', N) = Located(line, N)
  <2>1. \A b \in 0 .. N - 1 : line'[b].own = line[b].own /\ (b # src => line'[b] = line[b])
    BY <1>2, <1>5, Zenon DEF Sized
  <2> QED BY <1>2, <1>3, <1>5, <2>1, Recontent, Zenon
<1>7. Agree(line', pm', N)
  BY <1>1, <1>2, <1>5, ZenonT(60) DEF Agree, Sized
<1>8. TableInv' /\ ResizeInv' /\ N' = N /\ Present' = Present
  <2>1. ~Resizing'
    BY <1>1, Zenon DEF Resizing
  <2> QED BY <1>1, <1>2, <1>6, <1>7, <2>1, Settled, Zenon
<1>9. TypeOK'
  BY <1>1, <1>2, <1>5, Zenon DEF IInv, TypeOK, Table
<1>10. CASE pc = "move_free"
  <2>1. pc' = "move_done"
    BY <1>1, <1>10, Zenon
  <2>2. Home' = Home
    BY <1>1, <1>8, Zenon DEF Home, N
  <2>3. /\ {src, from, dst} \subseteq 0 .. N - 1
        /\ DistanceWrapped(N, from, src) < DistanceWrapped(N, from, dst)
        /\ DistanceWrapped(N, from, dst) < OwnerSize
        /\ DistanceWrapped(N, Home, src) < DistanceWrapped(N, Home, dst)
    BY <1>10, Zenon DEF IInv, PhaseInv, Moving
  <2>4. Free(src)'
    BY <1>1, <1>3, <1>5, <1>8, Zenon DEF Free
  <2>5. PhaseInv'
    BY <1>1, <1>2, <1>8, <2>1, <2>2, <2>3, <2>4, Zenon DEF PhaseInv, Emplacing, Erasing, Moving
  <2>6. told = Present /\ op.kind = "emplace" /\ op.key \in Keys /\ op.key \notin Present /\ size.unstable
    BY <1>2, <1>10, Zenon DEF IInv, ToldInv, Emplacing, Erasing, Moving
  <2>7. ToldInv'
    BY <1>1, <1>2, <1>8, <2>1, <2>6, Zenon DEF ToldInv, Emplacing, Erasing, Moving
  <2> QED BY <1>8, <1>9, <2>5, <2>7, Zenon DEF IInv
<1>11. CASE pc = "erase_free"
  <2>1. pc' = "erase_done"
    BY <1>1, <1>11, Zenon
  <2>2. PhaseInv'
    BY <1>1, <1>2, <2>1, Zenon DEF PhaseInv, Emplacing, Erasing, Moving
  <2>3. told = Present \cup {op.key} /\ op.kind = "erase" /\ op.key \in Keys /\ op.key \notin Present /\ size.unstable
    BY <1>2, <1>11, Zenon DEF IInv, ToldInv, Emplacing, Erasing, Moving
  <2>4. ToldInv'
    BY <1>1, <1>2, <1>8, <2>1, <2>3, Zenon DEF ToldInv, Emplacing, Erasing, Moving
  <2> QED BY <1>8, <1>9, <2>2, <2>4, Zenon DEF IInv
<1> QED BY <1>1, <1>8, <1>10, <1>11, Zenon

\* reconstitute of one content.
LEMMA ScanElementInv ==
  ASSUME HasLeast, IInv, ScanElement
  PROVE  IInv' /\ Present' = Present
<1> DEFINE c == Min(WrongFlags)
<1>1. /\ pc = "scan" /\ WrongFlags # {} /\ line' = [line EXCEPT ![c].use = ~@]
      /\ pm' = [b \in Buckets |-> IF b \in {c} THEN line'[b] ELSE pm[b]]
      /\ pc' = pc /\ size' = size /\ segs' = segs /\ op' = op /\ live' = live
      /\ dst' = dst /\ src' = src /\ from' = from /\ ix' = ix
      /\ told' = told /\ stale' = stale /\ crashes' = crashes
  BY Zenon DEF ScanElement, Persist, locals, history
<1>2. /\ Sized(N) /\ N \in Nat \ {0} /\ line \in Table /\ pm \in Table /\ ~segs.unstable
      /\ Well(line, N) /\ Unique(line, N) /\ Agree(line, pm, N) /\ Present = Located(line, N)
  <2>1. pc \in {"idle", "scan"} \cup Emplacing \cup Erasing
    BY <1>1, Zenon
  <2> QED BY <2>1, Facts, Calls, Zenon DEF IInv
<1>3. c \in 0 .. N - 1 /\ line[c].use # (c \in Owned(line, N))
  <2>1. WrongFlags \in SUBSET Nat
    BY <1>2 DEF WrongFlags, N
  <2>2. c \in WrongFlags
    BY <1>1, <2>1, MinOf, Zenon
  <2> QED BY <2>2, Zenon DEF WrongFlags, N
<1> HIDE DEF c
<1>4. c \in Buckets /\ line[c] \in Bucket
  BY <1>2, <1>3, Zenon DEF Sized, Table
<1>5. c \notin Owned(line, N)
  <2>1. c \in Owned(line, N) => line[c].use
    BY <1>2, OwnedKeys, Zenon
  <2> QED BY <1>3, <1>4, <2>1, Zenon DEF Bucket
<1>6. /\ line' \in Table /\ line'[c].own = line[c].own
      /\ \A b \in Buckets : b # c => line'[b] = line[b]
  <2>1. line'[c] = [line[c] EXCEPT !.use = ~@]
    BY <1>1, <1>2, <1>4, Zenon DEF Table
  <2>2. \A b \in Buckets : b # c => line'[b] = line[b]
    BY <1>1, <1>2, <1>4, Zenon DEF Table
  <2>3. line'[c].own = line[c].own /\ line'[c] \in Bucket
    BY <1>4, <2>1, Zenon DEF Bucket
  <2>4. line' \in Table
    BY <1>1, <1>2, <2>2, <2>3, Zenon DEF Table
  <2> QED BY <2>2, <2>3, <2>4, Zenon
<1>7. pm' \in Table /\ \A b \in Buckets : pm'[b] = line'[b] \/ (pm'[b] = pm[b] /\ b # c)
  BY <1>1, <1>2, <1>6, Zenon DEF Table
<1>8. Well(line', N) /\ Unique(line', N) /\ Owned(line', N) = Owned(line, N) /\ Located(line', N) = Located(line, N)
  <2>1. \A b \in 0 .. N - 1 : line'[b].own = line[b].own /\ (b # c => line'[b] = line[b])
    BY <1>2, <1>6, Zenon DEF Sized
  <2> QED BY <1>2, <1>5, <1>6, <2>1, Recontent, Zenon
<1>9. Agree(line', pm', N)
  BY <1>2, <1>6, <1>7, Zenon DEF Agree, Sized
<1>10. TableInv' /\ ResizeInv' /\ N' = N /\ Present' = Present
  <2>1. ~Resizing'
    BY <1>1, Zenon DEF Resizing
  <2> QED BY <1>1, <1>2, <1>8, <1>9, <2>1, Settled, Zenon
<1>11. TypeOK'
  BY <1>1, <1>6, <1>7, Zenon DEF IInv, TypeOK, Table
<1>12. PhaseInv'
  BY <1>1, <1>2, Zenon DEF IInv, PhaseInv, Emplacing, Erasing, Moving
<1>13. ToldInv'
  BY <1>1, <1>10, Zenon DEF IInv, PhaseInv, ToldInv, Emplacing, Erasing, Moving
<1> QED BY <1>10, <1>11, <1>12, <1>13, Zenon DEF IInv

\* erase finds the content of its key, or answers that there is none.
LEMMA EraseInv ==
  ASSUME HasLeast, IInv, NEW k \in Keys, Erase(k)
  PROVE  IInv' /\ Present' = Present
<1> DEFINE h == BucketIx(N, k)
           o == Min(LocateKey(line, N, k))
<1>1. /\ pc = "idle" /\ LocateKey(line, N, k) # {} /\ op' = [kind |-> "erase", key |-> k]
      /\ from' = h /\ src' = (h + o) % N /\ pm' = [pm EXCEPT ![src'] = line[src']]
      /\ size' = [size EXCEPT !.unstable = TRUE] /\ pc' = "erase_owner"
      /\ line' = line /\ segs' = segs /\ live' = live /\ dst' = dst /\ ix' = ix
      /\ told' = told /\ stale' = stale /\ crashes' = crashes
  BY Zenon DEF Erase, SizeUnstable, history, N
<1>2. /\ Sized(N) /\ N \in Nat \ {0} /\ line \in Table /\ pm \in Table /\ live /\ ~segs.unstable
      /\ Well(line, N) /\ Unique(line, N) /\ Agree(line, pm, N) /\ Present = Located(line, N)
  <2>1. pc \in {"idle", "scan"} \cup Emplacing \cup Erasing /\ pc # "scan"
    BY <1>1, Zenon
  <2> QED BY <2>1, Facts, Calls, Zenon DEF IInv
<1>3. h \in 0 .. N - 1
  BY <1>2, HomeRange, Zenon
<1>4. o \in line[h].own /\ line[Place(N, h, o)].key = k
  <2>1. LocateKey(line, N, k) \in SUBSET Nat
    BY <1>2, <1>3 DEF LocateKey, Sized, Table, Bucket, Offsets
  <2>2. o \in LocateKey(line, N, k)
    BY <1>1, <2>1, MinOf, Zenon
  <2> QED BY <2>2, Zenon DEF LocateKey, Place
<1>5. o \in 0 .. N - 1
  BY <1>2, <1>3, <1>4, Zenon DEF Sized, Table, Bucket
<1>6. k \in Present
  BY <1>1, <1>2, Zenon DEF Located
<1> HIDE DEF h, o
<1>7. src' \in 0 .. N - 1 /\ src' = Place(N, h, o) /\ DistanceWrapped(N, h, src') = o /\ src' \in Buckets /\ h \in Buckets
  <2>1. src' = Place(N, h, o)
    BY <1>1, Zenon DEF Place
  <2>2. Place(N, h, o) \in 0 .. N - 1 /\ DistanceWrapped(N, h, Place(N, h, o)) = o
    BY <1>2, <1>3, <1>5, PlaceAt, Zenon
  <2> QED BY <1>2, <1>3, <2>1, <2>2, Zenon DEF Sized
<1>8. pm' \in Table /\ \A b \in Buckets : pm'[b] = line[b] \/ pm'[b] = pm[b]
  BY <1>1, <1>2, <1>7, Zenon DEF Table
<1>9. Agree(line, pm', N)
  BY <1>2, <1>8, Zenon DEF Agree, Sized
<1>10. TableInv' /\ ResizeInv' /\ N' = N /\ Present' = Present
  <2>1. ~Resizing'
    BY <1>1, Zenon DEF Resizing
  <2> QED BY <1>1, <1>2, <1>9, <2>1, Settled, Zenon
<1>11. TypeOK'
  BY <1>1, <1>7, <1>8, ZenonT(60) DEF IInv, TypeOK, Table
<1>12. PhaseInv'
  <2>1. Home' = h
    BY <1>1, <1>10, Zenon DEF Home, N, h
  <2>2. /\ ({src, from} \subseteq 0 .. N - 1)'
        /\ (from = Home /\ DistanceWrapped(N, from, src) \in line[from].own)'
        /\ (line[src].key = op.key)'
    BY <1>1, <1>3, <1>4, <1>7, <1>10, <2>1, Zenon
  <2> QED BY <1>1, <1>2, <2>2, Zenon DEF PhaseInv, Emplacing, Erasing, Moving
<1>13. ToldInv'
  <2>1. told = Present
    BY <1>1, <1>2, Zenon DEF IInv, ToldInv
  <2>2. size'.unstable
    BY <1>1, Zenon DEF IInv, TypeOK
  <2> QED BY <1>1, <1>2, <1>6, <1>10, <2>1, <2>2, Zenon DEF ToldInv, Emplacing, Erasing, Moving
<1> QED BY <1>10, <1>11, <1>12, <1>13, Zenon DEF IInv

\* An owner word is changed in the cache and persisted at once.
LEMMA Rewritten ==
  ASSUME Sized(N), line \in Table, pm \in Table, Agree(line, pm, N), NEW b \in 0 .. N - 1, NEW S \in SUBSET Offsets,
         line' = [line EXCEPT ![b].own = S],
         pm' = [c \in Buckets |-> IF c \in {b} THEN line'[c] ELSE pm[c]]
  PROVE  line' \in Table /\ pm' \in Table /\ Rebit(line, line', N, b, S) /\ Agree(line', pm', N)
<1>1. line' \in Table /\ Rebit(line, line', N, b, S)
  BY RebitExcept, Zenon
<1>2. pm' \in Table /\ \A c \in 0 .. N - 1 : IF c = b THEN pm'[c] = line'[c] ELSE pm'[c] = pm[c]
  BY <1>1, Zenon DEF Table, Sized
<1>3. Agree(line', pm', N)
  <2>1. SUFFICES ASSUME NEW c \in 0 .. N - 1
                 PROVE  pm'[c].own = line'[c].own /\ (line'[c].use => pm'[c].use /\ pm'[c].key = line'[c].key)
    BY Zenon DEF Agree
  <2>2. CASE c = b
    BY <1>2, <2>2, Zenon
  <2>3. CASE c # b
    <3>1. line'[c].own = line[c].own /\ line'[c].use = line[c].use /\ line'[c].key = line[c].key
      BY <1>1, <2>3, Zenon DEF Rebit
    <3> QED BY <1>2, <2>3, <3>1, ZenonT(60) DEF Agree
  <2> QED BY <2>2, <2>3, Zenon
<1> QED BY <1>1, <1>2, <1>3, Zenon

\* One owner store moves a key from the old content to its copy.
LEMMA MoveOwnerInv ==
  ASSUME IInv, MoveOwner
  PROVE  IInv' /\ Present' = Present
<1> DEFINE d == DistanceWrapped(N, from, src)
           e == DistanceWrapped(N, from, dst)
<1>1. /\ pc = "move_owner" /\ line' = [line EXCEPT ![from].own = (@ \cup {e}) \ {d}]
      /\ pm' = [b \in Buckets |-> IF b \in {from} THEN line'[b] ELSE pm[b]]
      /\ pc' = "move_free" /\ size' = size /\ segs' = segs /\ op' = op /\ live' = live
      /\ dst' = dst /\ src' = src /\ from' = from /\ ix' = ix
      /\ told' = told /\ stale' = stale /\ crashes' = crashes
  BY Zenon DEF MoveOwner, Persist, locals, history, N
<1>2. /\ Sized(N) /\ N \in Nat \ {0} /\ line \in Table /\ pm \in Table /\ live /\ ~segs.unstable
      /\ Well(line, N) /\ Unique(line, N) /\ Agree(line, pm, N) /\ Present = Located(line, N)
  <2>1. pc \in {"idle", "scan"} \cup Emplacing \cup Erasing /\ pc # "scan"
    BY <1>1, Zenon DEF Emplacing
  <2> QED BY <2>1, Facts, Calls, Zenon DEF IInv
<1>3. /\ dst \in 0 .. N - 1 /\ src \in 0 .. N - 1 /\ from \in 0 .. N - 1
      /\ d < e /\ e < OwnerSize
      /\ DistanceWrapped(N, Home, src) < DistanceWrapped(N, Home, dst)
      /\ d \in line[from].own /\ dst \notin Owned(line, N) /\ line[dst].use /\ line[dst].key = line[src].key
  BY <1>1, Zenon DEF IInv, PhaseInv, Moving, Unowned
<1>4. Place(N, from, d) = src /\ Place(N, from, e) = dst /\ e \in 0 .. N - 1
  BY <1>2, <1>3, DistanceTo, Zenon
<1> HIDE DEF d, e
<1>5. e \in Offsets /\ line[from].own \in SUBSET Offsets /\ from \in Buckets
  BY <1>2, <1>3, <1>4, HopHashAssumption DEF Offsets, Sized, Table, Bucket
<1>6. /\ line' \in Table /\ pm' \in Table /\ Rebit(line, line', N, from, (line[from].own \cup {e}) \ {d})
      /\ Agree(line', pm', N)
  <2>1. (line[from].own \cup {e}) \ {d} \in SUBSET Offsets
    BY <1>5, Zenon
  <2>2. line' = [line EXCEPT ![from].own = (line[from].own \cup {e}) \ {d}]
    BY <1>1, <1>2, <1>5, Zenon DEF Table
  <2> QED BY <1>1, <1>2, <1>3, <2>1, <2>2, Rewritten, Zenon
<1>7. /\ Well(line', N) /\ Unique(line', N) /\ Located(line', N) = Located(line, N)
      /\ src \notin Owned(line', N)
  BY <1>2, <1>3, <1>4, <1>5, <1>6, MoveBit
<1>8. TableInv' /\ ResizeInv' /\ N' = N /\ Present' = Present
  <2>1. ~Resizing'
    BY <1>1, Zenon DEF Resizing
  <2> QED BY <1>1, <1>2, <1>6, <1>7, <2>1, Settled, Zenon
<1>9. TypeOK'
  BY <1>1, <1>6, Zenon DEF IInv, TypeOK, Table
<1>10. PhaseInv'
  <2>1. Home' = Home
    BY <1>1, <1>8, Zenon DEF Home, N
  <2>2. Unowned(src)'
    BY <1>1, <1>3, <1>7, <1>8, Zenon DEF Unowned
  <2>3. /\ ({src, from, dst} \subseteq 0 .. N - 1)'
        /\ (DistanceWrapped(N, from, src) < DistanceWrapped(N, from, dst))'
        /\ (DistanceWrapped(N, from, dst) < OwnerSize)'
        /\ (DistanceWrapped(N, Home, src) < DistanceWrapped(N, Home, dst))'
    BY <1>1, <1>3, <1>8, <2>1, Zenon DEF d, e
  <2> QED BY <1>1, <1>2, <2>2, <2>3, Zenon DEF PhaseInv, Emplacing, Erasing
<1>11. ToldInv'
  <2>1. told = Present /\ op.kind = "emplace" /\ op.key \in Keys /\ op.key \notin Present /\ size.unstable
    BY <1>1, <1>2, Zenon DEF IInv, ToldInv, Emplacing, Erasing, Moving
  <2> QED BY <1>1, <1>2, <1>8, <2>1, Zenon DEF ToldInv, Emplacing, Erasing, Moving
<1> QED BY <1>8, <1>9, <1>10, <1>11, Zenon DEF IInv

\* One owner store adds the key of emplace to the table.
LEMMA InsertOwnerInv ==
  ASSUME IInv, InsertOwner
  PROVE  IInv' /\ Present' = Present \cup {op.key} /\ op.kind = "emplace" /\ live
<1> DEFINE d == DistanceWrapped(N, Home, dst)
<1>1. /\ pc = "insert_owner" /\ line' = [line EXCEPT ![Home].own = @ \cup {d}]
      /\ pm' = [b \in Buckets |-> IF b \in {Home} THEN line'[b] ELSE pm[b]]
      /\ pc' = "insert_done" /\ size' = size /\ segs' = segs /\ op' = op /\ live' = live
      /\ dst' = dst /\ src' = src /\ from' = from /\ ix' = ix
      /\ told' = told /\ stale' = stale /\ crashes' = crashes
  BY Zenon DEF InsertOwner, Persist, locals, history, N
<1>2. /\ Sized(N) /\ N \in Nat \ {0} /\ line \in Table /\ pm \in Table /\ live /\ ~segs.unstable
      /\ Well(line, N) /\ Unique(line, N) /\ Agree(line, pm, N) /\ Present = Located(line, N)
  <2>1. pc \in {"idle", "scan"} \cup Emplacing \cup Erasing /\ pc # "scan"
    BY <1>1, Zenon DEF Emplacing
  <2> QED BY <2>1, Facts, Calls, Zenon DEF IInv
<1>3. dst \in 0 .. N - 1 /\ line[dst].use /\ line[dst].key = op.key /\ ~(d >= OwnerSize)
  BY <1>1, Zenon DEF IInv, PhaseInv, Unowned, OutOfReach, N
<1>4. told = Present /\ op.kind = "emplace" /\ op.key \in Keys /\ op.key \notin Present /\ size.unstable
  BY <1>1, <1>2, Zenon DEF IInv, ToldInv, Emplacing, Erasing, Moving
<1>5. Home \in 0 .. N - 1 /\ Home = BucketIx(N, op.key)
  BY <1>2, <1>4, HomeRange, Zenon DEF Home, N
<1>6. d \in 0 .. N - 1
  BY <1>2, <1>3, <1>5, DistanceTo, ZenonT(60)
<1> HIDE DEF d
<1>7. d \in Offsets /\ line[Home].own \in SUBSET Offsets /\ Home \in Buckets
  BY <1>2, <1>3, <1>5, <1>6, HopHashAssumption DEF Offsets, Sized, Table, Bucket
<1>8. /\ line' \in Table /\ pm' \in Table /\ Rebit(line, line', N, Home, line[Home].own \cup {d})
      /\ Agree(line', pm', N)
  <2>1. line[Home].own \cup {d} \in SUBSET Offsets
    BY <1>7, Zenon
  <2>2. line' = [line EXCEPT ![Home].own = line[Home].own \cup {d}]
    BY <1>1, <1>2, <1>7, ZenonT(60) DEF Table
  <2> QED BY <1>1, <1>2, <1>5, <2>1, <2>2, Rewritten, Zenon
<1>9. Well(line', N) /\ Unique(line', N) /\ Located(line', N) = Located(line, N) \cup {op.key}
  <2>1. d = DistanceWrapped(N, BucketIx(N, op.key), dst)
    BY <1>5, Zenon DEF d
  <2>2. op.key \in Keys /\ op.key \notin Located(line, N)
    BY <1>2, <1>4, Zenon
  <2>3. Rebit(line, line', N, BucketIx(N, op.key), line[BucketIx(N, op.key)].own \cup {d})
    BY <1>5, <1>8, Zenon
  <2> QED BY <1>2, <1>3, <1>7, <1>8, <2>1, <2>2, <2>3, AddBit, SMTT(30)
<1>10. TableInv' /\ ResizeInv' /\ N' = N /\ Present' = Present \cup {op.key}
  <2>1. ~Resizing'
    BY <1>1, Zenon DEF Resizing
  <2> QED BY <1>1, <1>2, <1>8, <1>9, <2>1, Settled, Zenon
<1>11. TypeOK'
  BY <1>1, <1>8, Zenon DEF IInv, TypeOK, Table
<1>12. PhaseInv'
  BY <1>1, <1>2, Zenon DEF PhaseInv, Emplacing, Erasing, Moving
<1>13. ToldInv'
  <2>1. told = Present' \ {op.key} /\ op.key \in Present'
    BY <1>4, <1>10, Zenon
  <2> QED BY <1>1, <1>2, <1>4, <2>1, Zenon DEF ToldInv, Emplacing, Erasing, Moving
<1> QED BY <1>2, <1>4, <1>10, <1>11, <1>12, <1>13, Zenon DEF IInv

\* One owner store takes the key of erase out of the table.
LEMMA EraseOwnerInv ==
  ASSUME IInv, EraseOwner
  PROVE  IInv' /\ Present' = Present \ {op.key} /\ op.kind = "erase" /\ live
<1> DEFINE d == DistanceWrapped(N, from, src)
<1>1. /\ pc = "erase_owner" /\ line' = [line EXCEPT ![from].own = @ \ {(src - from) % WordBits}]
      /\ pm' = [b \in Buckets |-> IF b \in {from} THEN line'[b] ELSE pm[b]]
      /\ pc' = "erase_free" /\ size' = size /\ segs' = segs /\ op' = op /\ live' = live
      /\ dst' = dst /\ src' = src /\ from' = from /\ ix' = ix
      /\ told' = told /\ stale' = stale /\ crashes' = crashes
  BY Zenon DEF EraseOwner, Persist, locals, history
<1>2. /\ Sized(N) /\ N \in Nat \ {0} /\ line \in Table /\ pm \in Table /\ live /\ ~segs.unstable
      /\ Well(line, N) /\ Unique(line, N) /\ Agree(line, pm, N) /\ Present = Located(line, N)
  <2>1. pc \in {"idle", "scan"} \cup Emplacing \cup Erasing /\ pc # "scan"
    BY <1>1, Zenon DEF Erasing
  <2> QED BY <2>1, Facts, Calls, Zenon DEF IInv
<1>3. src \in 0 .. N - 1 /\ from \in 0 .. N - 1 /\ d \in line[from].own /\ line[src].key = op.key
  BY <1>1, Zenon DEF IInv, PhaseInv
<1>4. told = Present /\ op.kind = "erase" /\ op.key \in Keys /\ op.key \in Present /\ size.unstable
  BY <1>1, <1>2, Zenon DEF IInv, ToldInv, Emplacing, Erasing, Moving
<1>5. Place(N, from, d) = src
  BY <1>2, <1>3, DistanceTo, Zenon
<1>6. d \in Offsets /\ line[from].own \in SUBSET Offsets /\ from \in Buckets
  BY <1>2, <1>3, Zenon DEF Sized, Table, Bucket
<1>7. (src - from) % WordBits = d
  <2>1. PICK q \in Nat : N = WordBits * q
    BY Sizes, Zenon DEF IInv, TypeOK
  <2> QED BY <1>2, <1>3, <1>6, <2>1, WordOffset, Zenon
<1> HIDE DEF d
<1>8. /\ line' \in Table /\ pm' \in Table /\ Rebit(line, line', N, from, line[from].own \ {d})
      /\ Agree(line', pm', N)
  <2>1. line[from].own \ {d} \in SUBSET Offsets
    BY <1>6, Zenon
  <2>2. line' = [line EXCEPT ![from].own = line[from].own \ {d}]
    BY <1>1, <1>2, <1>6, <1>7, Zenon DEF Table
  <2> QED BY <1>1, <1>2, <1>3, <2>1, <2>2, Rewritten, Zenon
<1>9. /\ Well(line', N) /\ Unique(line', N) /\ Located(line', N) = Located(line, N) \ {op.key}
      /\ src \notin Owned(line', N)
  <2>1. /\ Well(line', N) /\ Unique(line', N)
        /\ \A k : k \in Located(line', N) <=> k \in Located(line, N) /\ k # line[Place(N, from, d)].key
        /\ Place(N, from, d) \notin Owned(line', N)
    BY <1>2, <1>3, <1>8, RemoveBit, Zenon
  <2> QED BY <1>3, <1>5, <2>1, Zenon
<1>10. TableInv' /\ ResizeInv' /\ N' = N /\ Present' = Present \ {op.key}
  <2>1. ~Resizing'
    BY <1>1, Zenon DEF Resizing
  <2> QED BY <1>1, <1>2, <1>8, <1>9, <2>1, Settled, Zenon
<1>11. TypeOK'
  BY <1>1, <1>8, Zenon DEF IInv, TypeOK, Table
<1>12. PhaseInv'
  <2>1. Unowned(src)'
    BY <1>1, <1>3, <1>9, <1>10, Zenon DEF Unowned
  <2> QED BY <1>1, <1>2, <2>1, Zenon DEF PhaseInv, Emplacing, Erasing, Moving
<1>13. ToldInv'
  <2>1. told = Present' \cup {op.key} /\ op.key \notin Present'
    BY <1>4, <1>10, Zenon
  <2> QED BY <1>1, <1>2, <1>4, <2>1, Zenon DEF ToldInv, Emplacing, Erasing, Moving
<1> QED BY <1>2, <1>4, <1>10, <1>11, <1>12, <1>13, Zenon DEF IInv
-----------------------------------------------------------------------------
(* The steps of a resize *)

\* After pass 1 of a table whose used contents are all owned, pass 2 may begin from either
\* copy.
LEMMA CopiedHalfWay ==
  ASSUME NEW n, Doubling(n), NEW L \in Table, Well(L, n), Unique(L, n),
         \A c \in 0 .. n - 1 : L[c].use => c \in Owned(L, n),
         NEW P, \A b \in 0 .. n - 1 : /\ P[n + b] = Pass1(L, n)[n + b] /\ P[b].own = L[b].own
                                      /\ P[b].use <=> b \in Owned(L, n)
                                      /\ P[b].use => P[b].key = L[b].key
  PROVE  HalfWay(Pass1(L, n), P, n)
<1> DEFINE M == Pass1(L, n)
<1>1. /\ \A b \in 0 .. n - 1 : M[n + b].own = {} /\ L[b].own = Had(M, n, b)
      /\ Pass2Todo(M, n) = Owned(L, n)
      /\ \A i \in Owned(L, n) : Pass2Key(M, n, i) = L[i].key
  BY Copied
<1> HIDE DEF M
<1>2. ASSUME NEW b \in 0 .. n - 1
      PROVE  /\ P[n + b].use = M[n + b].use /\ P[n + b].key = M[n + b].key
             /\ P[b].use => b \in Pass2Todo(M, n) /\ P[b].key = Pass2Key(M, n, b)
             /\ b \in Pass2Todo(M, n) => M[n + b].use \/ P[b].use
             /\ Had(M, n, b) \ Leaves(M, n, b) \subseteq P[b].own
             /\ P[b].own \subseteq Had(M, n, b)
             /\ P[n + b].own \subseteq Leaves(M, n, b)
  <2>1. P[n + b] = M[n + b]
    BY Zenon DEF M
  <2>2. P[b].own = Had(M, n, b) /\ P[n + b].own = {}
    BY <1>1, <2>1, Zenon
  <2> QED BY <1>1, <2>1, <2>2, Zenon
<1> QED BY <1>2, Zenon DEF HalfWay, M

\* Pass 1 of a table whose used contents are all owned has the keys of that table.
LEMMA CopiedKeys ==
  ASSUME NEW n, Doubling(n), NEW L \in Table, Well(L, n), Unique(L, n),
         \A c \in 0 .. n - 1 : L[c].use => c \in Owned(L, n)
  PROVE  ResizedKeys(Pass1(L, n), n) = Located(L, n)
<1>1. /\ Pass2Todo(Pass1(L, n), n) = Owned(L, n)
      /\ \A i \in Owned(L, n) : Pass2Key(Pass1(L, n), n, i) = L[i].key
  BY Copied, SMTT(60)
<1>2. Sized(n)
  BY DoublingSized, Zenon
<1>3. \A k : k \in Located(L, n) <=> \E c \in Owned(L, n) : k = L[c].key
  BY <1>2, LocatedBy
<1> QED BY <1>1, <1>3, SMTT(60) DEF ResizedKeys

\* resize_pass1, when no content is in use without an owner.
LEMMA ResizePass1Inv ==
  ASSUME IInv, ResizePass1, ~stale'
  PROVE  IInv' /\ Present' = Present
<1>1. /\ pc = "resize" /\ line' = Pass1(line, N) /\ StaleFlags = {}
      /\ pm' = [b \in Buckets |-> IF b \in N .. 2 * N - 1 THEN line'[b] ELSE pm[b]]
      /\ pc' = "interlog" /\ size' = size /\ segs' = segs /\ op' = op /\ live' = live
      /\ dst' = dst /\ src' = src /\ from' = from /\ ix' = ix
      /\ told' = told /\ stale' \in BOOLEAN /\ crashes' = crashes
  BY Zenon DEF ResizePass1, Persist, locals, N
<1>2. /\ Sized(N) /\ N \in Nat \ {0} /\ line \in Table /\ pm \in Table /\ live /\ ~segs.unstable
      /\ Well(line, N) /\ Unique(line, N) /\ Agree(line, pm, N) /\ Present = Located(line, N)
  <2>1. pc \in {"idle", "scan"} \cup Emplacing \cup Erasing /\ pc # "scan"
    BY <1>1, Zenon DEF Emplacing
  <2> QED BY <2>1, Facts, Calls, Zenon DEF IInv
<1>3. segs.n < MaxSegments /\ Doubling(N)
  BY <1>1, Facts, Zenon DEF IInv, PhaseInv
<1>4. \A c \in 0 .. N - 1 : (line[c].use \/ pm[c].use) => c \in Owned(line, N)
  BY <1>1, Zenon DEF StaleFlags, N
<1>5. \A c \in Owned(line, N) : line[c].use
  BY <1>2, OwnedKeys, Zenon
<1>6. /\ line' \in Table /\ Contents(line', N) /\ Pass2Todo(line', N) = Owned(line, N)
      /\ \A b \in 0 .. N - 1 : line'[b] = line[b] /\ line[b].own = Had(line', N, b)
  <2>1. /\ Pass1(line, N) \in Table /\ Contents(Pass1(line, N), N) /\ Pass2Todo(Pass1(line, N), N) = Owned(line, N)
        /\ \A b \in 0 .. N - 1 : Pass1(line, N)[b] = line[b] /\ line[b].own = Had(Pass1(line, N), N, b)
    <3>1. \A c \in 0 .. N - 1 : line[c].use => c \in Owned(line, N)
      BY <1>4, Zenon
    <3>2. line \in Table /\ Well(line, N) /\ Unique(line, N) /\ Doubling(N)
      BY <1>2, <1>3, Zenon
    <3> QED BY <3>1, <3>2, Copied, SMT
  <2> QED BY <1>1, <2>1, ZenonT(60)
<1>7. \A b \in 0 .. N - 1 : b \in Buckets /\ N + b \in Buckets /\ N + b \in N .. 2 * N - 1 /\ b \notin N .. 2 * N - 1
  BY <1>2, <1>3, DoublingSized
<1>8. pm' \in Table /\ \A b \in 0 .. N - 1 : pm'[N + b] = line'[N + b] /\ pm'[b] = pm[b]
  BY <1>1, <1>2, <1>6, <1>7, Zenon DEF Table
<1>9. HalfWay(line', line', N)
  <2>1. \A b \in 0 .. N - 1 : /\ line'[N + b] = Pass1(line, N)[N + b] /\ line'[b].own = line[b].own
                              /\ line'[b].use <=> b \in Owned(line, N)
                              /\ line'[b].use => line'[b].key = line[b].key
    BY <1>1, <1>4, <1>5, <1>6, Zenon
  <2>2. HalfWay(Pass1(line, N), line', N)
    BY <1>2, <1>3, <1>4, <2>1, CopiedHalfWay, Zenon
  <2> QED BY <1>1, <2>2, Zenon
<1>10. HalfWay(line', pm', N)
  <2>1. \A b \in 0 .. N - 1 : /\ pm'[N + b] = Pass1(line, N)[N + b] /\ pm'[b].own = line[b].own
                              /\ pm'[b].use <=> b \in Owned(line, N)
                              /\ pm'[b].use => pm'[b].key = line[b].key
    BY <1>1, <1>2, <1>4, <1>5, <1>8 DEF Agree
  <2>2. HalfWay(Pass1(line, N), pm', N)
    BY <1>2, <1>3, <1>4, <2>1, CopiedHalfWay, Zenon
  <2> QED BY <1>1, <2>2, ZenonT(60)
<1>11. N' = N
  BY <1>1, Zenon DEF N, BucketCount
<1>12. Present' = Present
  <2>1. ResizedKeys(line', N) = Located(line, N)
    BY <1>1, <1>2, <1>3, <1>4, CopiedKeys, Zenon
  <2> QED BY <1>1, <1>2, <1>11, <2>1, Zenon DEF Present, Resizing
<1>13. TableInv'
  <2>1. Same(line, line', N)
    BY <1>6, Zenon DEF Same
  <2>2. Well(line', N) /\ Unique(line', N)
    BY <1>2, <1>6, <2>1, SameTable, ZenonT(60)
  <2>3. Agree(line', pm', N)
    BY <1>2, <1>6, <1>8 DEF Agree
  <2> QED BY <1>11, <2>2, <2>3, Zenon DEF TableInv
<1>14. ResizeInv'
  <2>1. PassInv'
    BY <1>1, <1>6, <1>11, Zenon DEF PassInv
  <2> QED BY <1>1, <1>3, <1>6, <1>9, <1>10, <1>11, <2>1, Zenon DEF ResizeInv
<1>15. TypeOK'
  BY <1>1, <1>6, <1>8, Zenon DEF IInv, TypeOK, Table
<1>16. PhaseInv'
  BY <1>1, <1>2, Zenon DEF PhaseInv, Emplacing, Erasing, Moving
<1>17. ToldInv'
  <2>1. told = Present /\ op.kind = "emplace" /\ op.key \in Keys /\ op.key \notin Present /\ ~size.unstable
    BY <1>1, <1>2, Zenon DEF IInv, ToldInv, Emplacing, Erasing, Moving
  <2> QED BY <1>1, <1>2, <1>12, <2>1, Zenon DEF ToldInv, Emplacing, Erasing, Moving
<1> QED BY <1>12, <1>13, <1>14, <1>15, <1>16, <1>17, Zenon DEF IInv

\* What a resize in progress finds.
LEMMA Resize ==
  ASSUME IInv, Resizing
  PROVE  /\ segs.n < MaxSegments /\ Doubling(N) /\ N \in Nat \ {0} /\ Sized(N) /\ line \in Table /\ pm \in Table
         /\ Contents(line, N) /\ HalfWay(line, line, N) /\ HalfWay(line, pm, N) /\ PassInv
         /\ Present = ResizedKeys(line, N)
<1>1. /\ segs.n < MaxSegments
      /\ Contents(line, N) /\ HalfWay(line, line, N) /\ HalfWay(line, pm, N) /\ PassInv
      /\ Present = ResizedKeys(line, N)
  BY Zenon DEF IInv, ResizeInv, Present
<1> QED BY <1>1, Facts, Zenon DEF IInv

\* resize_interlog: from here a failure redoes pass 2.
LEMMA ResizeInterlogInv ==
  ASSUME IInv, ResizeInterlog
  PROVE  IInv' /\ Present' = Present
<1>1. /\ pc = "interlog" /\ segs' = [segs EXCEPT !.unstable = TRUE] /\ pc' = "pass2" /\ ix' = 0
      /\ line' = line /\ pm' = pm /\ size' = size /\ op' = op /\ live' = live
      /\ dst' = dst /\ src' = src /\ from' = from
      /\ told' = told /\ stale' = stale /\ crashes' = crashes
  BY Zenon DEF ResizeInterlog, history
<1>2. /\ segs.n < MaxSegments /\ N \in Nat \ {0} /\ Contents(line, N) /\ HalfWay(line, line, N) /\ HalfWay(line, pm, N)
      /\ Present = ResizedKeys(line, N)
  <2>1. Resizing
    BY <1>1, Zenon DEF Resizing
  <2> QED BY <2>1, Resize, Zenon
<1>3. segs'.n = segs.n /\ segs'.unstable /\ segs' \in [n : 1 .. MaxSegments, unstable : BOOLEAN]
  BY <1>1, Zenon DEF IInv, TypeOK
<1>4. N' = N
  BY <1>3, Zenon DEF N, BucketCount
<1>5. Present' = Present
  BY <1>1, <1>2, <1>4, Zenon DEF Present, Resizing
<1>6. TypeOK'
  BY <1>1, <1>3, Zenon DEF IInv, TypeOK
<1>7. TableInv'
  BY <1>3, Zenon DEF TableInv
<1>8. ResizeInv'
  <2>1. PassInv'
    <3>1. \A i \in Pass2Todo(line, N) : ~(i < 0)
      BY <1>2 DEF Pass2Todo
    <3> QED BY <1>1, <1>4, <3>1, Zenon DEF PassInv
  <2> QED BY <1>1, <1>2, <1>3, <1>4, <2>1, Zenon DEF ResizeInv
<1>9. live
  BY <1>1, Zenon DEF IInv, PhaseInv
<1>10. PhaseInv'
  BY <1>1, <1>3, <1>9, Zenon DEF PhaseInv, Emplacing, Erasing, Moving
<1>11. ToldInv'
  <2>1. told = Present /\ op.kind = "emplace" /\ op.key \in Keys /\ op.key \notin Present /\ ~size.unstable
    BY <1>1, <1>9, Zenon DEF IInv, ToldInv, Emplacing, Erasing, Moving
  <2> QED BY <1>1, <1>5, <1>9, <2>1, Zenon DEF ToldInv, Emplacing, Erasing, Moving
<1> QED BY <1>5, <1>6, <1>7, <1>8, <1>10, <1>11, Zenon DEF IInv

\* Lines that reached the memory are on the way too.
LEMMA Mixed ==
  ASSUME NEW n, Doubling(n), NEW L, NEW M, NEW P, HalfWay(L, L, n), HalfWay(L, M, n),
         \A b \in Buckets : P[b] \in {L[b], M[b]}
  PROVE  HalfWay(L, P, n)
<1>1. SUFFICES ASSUME NEW b \in 0 .. n - 1
               PROVE  /\ P[n + b].use = L[n + b].use /\ P[n + b].key = L[n + b].key
                      /\ P[b].use => b \in Pass2Todo(L, n) /\ P[b].key = Pass2Key(L, n, b)
                      /\ b \in Pass2Todo(L, n) => L[n + b].use \/ P[b].use
                      /\ Had(L, n, b) \ Leaves(L, n, b) \subseteq P[b].own
                      /\ P[b].own \subseteq Had(L, n, b)
                      /\ P[n + b].own \subseteq Leaves(L, n, b)
  BY Zenon DEF HalfWay
<1>2. P[b] \in {L[b], M[b]} /\ P[n + b] \in {L[n + b], M[n + b]}
  BY DoublingSized, Zenon
<1>3. \A Q \in {L, M} :
           /\ Q[n + b].use = L[n + b].use /\ Q[n + b].key = L[n + b].key
           /\ Q[b].use => b \in Pass2Todo(L, n) /\ Q[b].key = Pass2Key(L, n, b)
           /\ b \in Pass2Todo(L, n) => L[n + b].use \/ Q[b].use
           /\ Had(L, n, b) \ Leaves(L, n, b) \subseteq Q[b].own
           /\ Q[b].own \subseteq Had(L, n, b)
           /\ Q[n + b].own \subseteq Leaves(L, n, b)
  BY Zenon DEF HalfWay
<1>4. /\ P[b].use => b \in Pass2Todo(L, n) /\ P[b].key = Pass2Key(L, n, b)
      /\ b \in Pass2Todo(L, n) => L[n + b].use \/ P[b].use
      /\ Had(L, n, b) \ Leaves(L, n, b) \subseteq P[b].own
      /\ P[b].own \subseteq Had(L, n, b)
  BY <1>2, <1>3, Zenon
<1>5. /\ P[n + b].use = L[n + b].use /\ P[n + b].key = L[n + b].key
      /\ P[n + b].own \subseteq Leaves(L, n, b)
  BY <1>2, <1>3, Zenon
<1> QED BY <1>4, <1>5, Zenon

\* Giving owner bits over is another step on the way.
LEMMA OnTheWay ==
  ASSUME NEW n, Doubling(n), NEW L \in Table, Contents(L, n), HalfWay(L, L, n), NEW i \in Pass2Todo(L, n)
  PROVE  /\ Pass2Owners(L, n, {i}) \in Table
         /\ HalfWay(L, Pass2Owners(L, n, {i}), n)
         /\ \A b \in Buckets : /\ Pass2Owners(L, n, {i})[b].use = L[b].use
                               /\ Pass2Owners(L, n, {i})[b].key = L[b].key
         /\ \A j \in Pass2Todo(L, n) : (j = i \/ Adjusted(L, n, j)) => Adjusted(Pass2Owners(L, n, {i}), n, j)
<1> DEFINE F == Pass2Owners(L, n, {i})
<1>1. /\ F \in Table
      /\ \A b \in 0 .. n - 1 : /\ F[b].own = L[b].own \ LeavesIn(L, n, b, {i})
                               /\ F[n + b].own = L[n + b].own \cup LeavesIn(L, n, b, {i})
      /\ \A b \in Buckets : F[b].use = L[b].use /\ F[b].key = L[b].key
  <2>1. PICK S \in SUBSET (0 .. n - 1) : S = {i}
    BY ZenonT(60) DEF Pass2Todo
  <2>2. /\ Pass2Owners(L, n, S) \in Table
        /\ \A b \in 0 .. n - 1 : /\ Pass2Owners(L, n, S)[b].own = L[b].own \ LeavesIn(L, n, b, S)
                                 /\ Pass2Owners(L, n, S)[n + b].own = L[n + b].own \cup LeavesIn(L, n, b, S)
        /\ \A b \in Buckets : /\ Pass2Owners(L, n, S)[b].use = L[b].use
                              /\ Pass2Owners(L, n, S)[b].key = L[b].key
    BY Owners
  <2> QED BY <2>1, <2>2, Zenon
<1> HIDE DEF F
<1>2. \A b \in 0 .. n - 1 : LeavesIn(L, n, b, {i}) \subseteq Leaves(L, n, b)
  BY Zenon DEF LeavesIn
<1>3. \A b \in 0 .. n - 1 : F[b].use = L[b].use /\ F[b].key = L[b].key /\ F[n + b].use = L[n + b].use /\ F[n + b].key = L[n + b].key
  BY <1>1, DoublingSized, Zenon
<1>4. HalfWay(L, F, n)
  <2>1. SUFFICES ASSUME NEW b \in 0 .. n - 1
                 PROVE  /\ F[n + b].use = L[n + b].use /\ F[n + b].key = L[n + b].key
                        /\ F[b].use => b \in Pass2Todo(L, n) /\ F[b].key = Pass2Key(L, n, b)
                        /\ b \in Pass2Todo(L, n) => L[n + b].use \/ F[b].use
                        /\ Had(L, n, b) \ Leaves(L, n, b) \subseteq F[b].own
                        /\ F[b].own \subseteq Had(L, n, b)
                        /\ F[n + b].own \subseteq Leaves(L, n, b)
    BY Zenon DEF HalfWay
  <2>2. /\ L[b].use => b \in Pass2Todo(L, n) /\ L[b].key = Pass2Key(L, n, b)
        /\ b \in Pass2Todo(L, n) => L[n + b].use \/ L[b].use
        /\ Had(L, n, b) \ Leaves(L, n, b) \subseteq L[b].own
        /\ L[b].own \subseteq Had(L, n, b)
        /\ L[n + b].own \subseteq Leaves(L, n, b)
    BY Zenon DEF HalfWay
  <2>3. F[b].own = L[b].own \ LeavesIn(L, n, b, {i}) /\ F[n + b].own = L[n + b].own \cup LeavesIn(L, n, b, {i})
    BY <1>1, Zenon
  <2>4. /\ Had(L, n, b) \ Leaves(L, n, b) \subseteq F[b].own /\ F[b].own \subseteq Had(L, n, b)
        /\ F[n + b].own \subseteq Leaves(L, n, b)
    BY <1>2, <2>2, <2>3, Zenon
  <2> QED BY <1>3, <2>2, <2>4, Zenon
<1>5. ASSUME NEW j \in Pass2Todo(L, n), j = i \/ Adjusted(L, n, j)
      PROVE  Adjusted(F, n, j)
  <2>1. SameContents(L, F, n)
    BY <1>4, HalfWaySame, Zenon
  <2>2. OffsetOf(F, n, j) = OffsetOf(L, n, j) /\ Reowned(F, n, j) = Reowned(L, n, j) /\ Pass2Key(F, n, j) = Pass2Key(L, n, j)
    <3>1. Pass2Key(F, n, j) = Pass2Key(L, n, j)
      BY <2>1, Zenon DEF SameContents
    <3>2. OffsetOf(F, n, j) = OffsetOf(L, n, j) /\ Reowned(F, n, j) = Reowned(L, n, j)
      BY <2>1, SameHad
    <3> QED BY <3>1, <3>2, Zenon
  <2>3. SUFFICES ASSUME Reowned(L, n, j)
                 PROVE  /\ OffsetOf(L, n, j) \notin F[BucketIx(n, Pass2Key(L, n, j))].own
                        /\ OffsetOf(L, n, j) \in F[n + BucketIx(n, Pass2Key(L, n, j))].own
    BY <2>2, Zenon DEF Adjusted
  <2>4. PICK h \in 0 .. n - 1, o \in Offsets : /\ h = BucketIx(n, Pass2Key(L, n, j)) /\ o = OffsetOf(L, n, j)
                                              /\ o \in Had(L, n, h) /\ Place(n, h, o) = j
    <3>1. OffsetOf(L, n, j) \in Offsets
      BY ContentFacts, Zenon
    <3> QED BY <3>1, HadBy, Zenon
  <2>5. F[h].own = L[h].own \ LeavesIn(L, n, h, {i}) /\ F[n + h].own = L[n + h].own \cup LeavesIn(L, n, h, {i})
    BY <1>1, Zenon
  <2>6. CASE j = i
    <3>1. o \in LeavesIn(L, n, h, {i})
      BY <2>3, <2>4, <2>6, Zenon DEF LeavesIn, Leaves
    <3> QED BY <2>4, <2>5, <3>1, Zenon
  <2>7. CASE Adjusted(L, n, j)
    <3>1. o \notin L[h].own /\ o \in L[n + h].own
      BY <2>3, <2>4, <2>7, Zenon DEF Adjusted
    <3> QED BY <2>4, <2>5, <3>1, Zenon
  <2> QED BY <1>5, <2>6, <2>7, Zenon
<1> QED BY <1>1, <1>4, <1>5, Zenon DEF F

\* The first content left to pass 2.
LEMMA NextLeft ==
  ASSUME HasLeast, TypeOK, Pass2Left # {}
  PROVE  /\ Min(Pass2Left) \in Pass2Todo(line, N) /\ Min(Pass2Left) \in Nat
         /\ \A i \in Pass2Todo(line, N) : i < Min(Pass2Left) => i < ix
<1>1. N \in Nat \ {0} /\ ix \in Nat
  BY Facts, Zenon DEF TypeOK
<1>2. Pass2Left \in SUBSET Nat /\ \A i \in Pass2Todo(line, N) : i \in Nat
  BY <1>1 DEF Pass2Left, Pass2Todo, N
<1>3. Min(Pass2Left) \in Pass2Left /\ \A y \in Pass2Left : Min(Pass2Left) <= y
  BY <1>2, MinOf, Zenon
<1>4. ASSUME NEW i \in Pass2Todo(line, N), i < Min(Pass2Left) PROVE i < ix
  <2>1. i >= ix => i \in Pass2Left
    BY Zenon DEF Pass2Left, N
  <2>2. i \in Nat /\ Min(Pass2Left) \in Nat
    BY <1>2, <1>3, Zenon
  <2>3. i >= ix => Min(Pass2Left) <= i
    BY <1>3, <2>1, Zenon
  <2> QED BY <1>1, <1>4, <2>2, <2>3
<1> QED BY <1>2, <1>3, <1>4, Zenon DEF Pass2Left, N

\* resize_pass2_adjust_owner of one content, seen in whatever state a failure left it.
LEMMA ResizeAdjustOwnerInv ==
  ASSUME HasLeast, IInv, ResizeAdjustOwner
  PROVE  IInv' /\ Present' = Present
<1>1. /\ pc = "pass2" /\ Pass2Left # {} /\ ix' = Min(Pass2Left) /\ line' = Pass2Owners(line, N, {ix'})
      /\ pc' = "pass2_free" /\ pm' = pm /\ size' = size /\ segs' = segs /\ op' = op /\ live' = live
      /\ dst' = dst /\ src' = src /\ from' = from
      /\ told' = told /\ stale' = stale /\ crashes' = crashes
  BY Zenon DEF ResizeAdjustOwner, history, N
<1>2. /\ segs.n < MaxSegments /\ Doubling(N) /\ N \in Nat \ {0} /\ line \in Table /\ pm \in Table
      /\ Contents(line, N) /\ HalfWay(line, line, N) /\ HalfWay(line, pm, N) /\ PassInv
      /\ Present = ResizedKeys(line, N)
  <2>1. Resizing
    BY <1>1, Zenon DEF Resizing
  <2> QED BY <2>1, Resize, Zenon
<1>3. ix' \in Pass2Todo(line, N) /\ ix' \in Nat /\ \A i \in Pass2Todo(line, N) : i < ix' => i < ix
  BY <1>1, NextLeft, Zenon DEF IInv
<1>4. PICK i \in Pass2Todo(line, N) : i = ix'
  BY <1>3, Zenon
<1>5. /\ line' \in Table /\ HalfWay(line, line', N)
      /\ \A b \in Buckets : line'[b].use = line[b].use /\ line'[b].key = line[b].key
      /\ \A j \in Pass2Todo(line, N) : (j = i \/ Adjusted(line, N, j)) => Adjusted(line', N, j)
  BY <1>1, <1>2, <1>4, OnTheWay
<1>6. SameContents(line, line', N)
  BY <1>5, HalfWaySame, Zenon
<1>7. Contents(line', N) /\ HalfWay(line', line', N) /\ HalfWay(line', pm, N)
  BY <1>2, <1>5, <1>6, ContentsSame, HalfWayOf, Zenon
<1>8. N' = N
  BY <1>1, Zenon DEF N, BucketCount
<1>9. Pass2Todo(line', N) = Pass2Todo(line, N) /\ ResizedKeys(line', N) = ResizedKeys(line, N)
  BY <1>6, SameHad, Zenon DEF SameContents
<1>10. Present' = Present
  BY <1>1, <1>2, <1>8, <1>9, Zenon DEF Present, Resizing
<1>11. segs.unstable /\ segs'.unstable
  BY <1>1, Zenon DEF IInv, PhaseInv
<1>12. PassInv'
  <2>1. \A j \in Pass2Todo(line, N) : j < ix => Adjusted(line, N, j) /\ Cleared(line, N, j)
    BY <1>1, <1>2, Zenon DEF PassInv
  <2>2. \A j \in Pass2Todo(line, N) : Cleared(line, N, j) => Cleared(line', N, j)
    <3>1. \A j \in Pass2Todo(line, N) : line'[j].use = line[j].use /\ line'[N + j].use = line[N + j].use
      <4>1. \A j \in Pass2Todo(line, N) : j \in Buckets /\ N + j \in Buckets
        BY <1>2, DoublingSized, Zenon DEF Pass2Todo
      <4> QED BY <1>5, <4>1, Zenon
    <3> QED BY <3>1, Zenon DEF Cleared
  <2>3. \A j \in Pass2Todo(line', N) : j < ix' => Adjusted(line', N, j) /\ Cleared(line', N, j)
    BY <1>3, <1>5, <1>9, <2>1, <2>2, Zenon
  <2>4. ix' \in Pass2Todo(line', N) /\ Adjusted(line', N, ix')
    BY <1>3, <1>4, <1>5, <1>9, Zenon
  <2> QED BY <1>1, <1>8, <2>3, <2>4, Zenon DEF PassInv
<1>13. ResizeInv'
  BY <1>1, <1>2, <1>7, <1>8, <1>12, ZenonT(60) DEF ResizeInv
<1>14. TypeOK'
  BY <1>1, <1>3, <1>5, ZenonT(60) DEF IInv, TypeOK, Table
<1>15. TableInv'
  BY <1>11, Zenon DEF TableInv
<1>16. PhaseInv'
  BY <1>1, <1>11, Zenon DEF PhaseInv, Emplacing, Erasing, Moving
<1>17. ToldInv'
  <2>1. live => told = Present /\ op.kind = "emplace" /\ op.key \in Keys /\ op.key \notin Present /\ ~size.unstable
    BY <1>1, Zenon DEF IInv, ToldInv, Emplacing, Erasing, Moving
  <2> QED BY <1>1, <1>10, <2>1, Zenon DEF ToldInv, Emplacing, Erasing, Moving
<1> QED BY <1>10, <1>13, <1>14, <1>15, <1>16, <1>17, Zenon DEF IInv

\* resize_pass2 frees the content that has been copied.
LEMMA ResizeFreeInv ==
  ASSUME IInv, ResizeFree
  PROVE  IInv' /\ Present' = Present
<1> DEFINE h == BucketIx(N, Pass2Key(line, N, ix))
           flushed == IF Reowned(line, N, ix) THEN {h, N + h} ELSE {}
<1>1. /\ pc = "pass2_free" /\ line' = Pass2Erased(line, N, {ix}) /\ ix' = ix + 1
      /\ pm' = [b \in Buckets |-> IF b \in flushed THEN line[b] ELSE pm[b]]
      /\ pc' = "pass2" /\ size' = size /\ segs' = segs /\ op' = op /\ live' = live
      /\ dst' = dst /\ src' = src /\ from' = from
      /\ told' = told /\ stale' = stale /\ crashes' = crashes
  BY Zenon DEF ResizeFree, history, N
<1> HIDE DEF h, flushed
<1>2. /\ segs.n < MaxSegments /\ Doubling(N) /\ N \in Nat \ {0} /\ line \in Table /\ pm \in Table
      /\ Contents(line, N) /\ HalfWay(line, line, N) /\ HalfWay(line, pm, N) /\ PassInv
      /\ Present = ResizedKeys(line, N)
  <2>1. Resizing
    BY <1>1, Zenon DEF Resizing
  <2> QED BY <2>1, Resize, Zenon
<1>3. /\ ix \in Pass2Todo(line, N) /\ ix \in 0 .. N - 1 /\ ix \in Buckets /\ N + ix \in Buckets /\ Adjusted(line, N, ix)
      /\ \A j \in Pass2Todo(line, N) : j < ix => Adjusted(line, N, j) /\ Cleared(line, N, j)
  <2>1. /\ ix \in Pass2Todo(line, N) /\ Adjusted(line, N, ix)
        /\ \A j \in Pass2Todo(line, N) : j < ix => Adjusted(line, N, j) /\ Cleared(line, N, j)
    BY <1>1, <1>2, Zenon DEF PassInv
  <2>2. ix \in 0 .. N - 1
    BY <2>1, Zenon DEF Pass2Todo
  <2> QED BY <1>2, <2>1, <2>2, DoublingSized, Zenon
<1>4. \A b \in 0 .. N - 1 : b \in Buckets /\ N + b \in Buckets /\ N + b # ix
  BY <1>2, <1>3, DoublingSized
<1>5. line' = [b \in Buckets |-> IF b \in {ix} /\ line[N + b].use THEN [line[b] EXCEPT !.use = FALSE, !.key = NoKey] ELSE line[b]]
  BY <1>1, Zenon DEF Pass2Erased
<1>6. /\ \A b \in Buckets : b # ix => line'[b] = line[b]
      /\ line[N + ix].use => line'[ix] = [line[ix] EXCEPT !.use = FALSE, !.key = NoKey]
      /\ ~line[N + ix].use => line'[ix] = line[ix]
  BY <1>3, <1>5, Zenon
<1>7. line[ix] \in Bucket
  BY <1>2, <1>3, Zenon DEF Table
<1>8. /\ line'[ix] \in Bucket /\ line'[ix].own = line[ix].own
      /\ line[N + ix].use => ~line'[ix].use
      /\ line'[ix].use => line'[ix] = line[ix]
  BY <1>6, <1>7, Zenon DEF Bucket
<1>9. line' \in Table
  BY <1>2, <1>5, <1>6, <1>8, Zenon DEF Table
<1>10. pm' \in Table
  BY <1>1, <1>2, Zenon DEF Table
<1>11. \A b \in 0 .. N - 1 : /\ line'[N + b] = line[N + b] /\ line'[b].own = line[b].own
                             /\ line'[b].use => line'[b] = line[b]
                             /\ line[b].use => line'[b].use \/ line[N + b].use
  BY <1>3, <1>4, <1>6, <1>8, Zenon
<1>12. HalfWay(line, line', N)
  <2>1. SUFFICES ASSUME NEW b \in 0 .. N - 1
                 PROVE  /\ line'[N + b].use = line[N + b].use /\ line'[N + b].key = line[N + b].key
                        /\ line'[b].use => b \in Pass2Todo(line, N) /\ line'[b].key = Pass2Key(line, N, b)
                        /\ b \in Pass2Todo(line, N) => line[N + b].use \/ line'[b].use
                        /\ Had(line, N, b) \ Leaves(line, N, b) \subseteq line'[b].own
                        /\ line'[b].own \subseteq Had(line, N, b)
                        /\ line'[N + b].own \subseteq Leaves(line, N, b)
    BY Zenon DEF HalfWay
  <2>2. /\ line[b].use => b \in Pass2Todo(line, N) /\ line[b].key = Pass2Key(line, N, b)
        /\ b \in Pass2Todo(line, N) => line[N + b].use \/ line[b].use
        /\ Had(line, N, b) \ Leaves(line, N, b) \subseteq line[b].own
        /\ line[b].own \subseteq Had(line, N, b)
        /\ line[N + b].own \subseteq Leaves(line, N, b)
    BY <1>2, Zenon DEF HalfWay
  <2>3. /\ line'[N + b] = line[N + b] /\ line'[b].own = line[b].own
        /\ line'[b].use => line'[b] = line[b]
        /\ line[b].use => line'[b].use \/ line[N + b].use
    BY <1>11, Zenon
  <2> QED BY <2>2, <2>3, Zenon
<1>13. HalfWay(line, pm', N)
  <2>1. \A b \in Buckets : pm'[b] \in {line[b], pm[b]}
    BY <1>1, Zenon
  <2> QED BY <1>2, <2>1, Mixed, Zenon
<1>14. SameContents(line, line', N)
  BY <1>12, HalfWaySame, Zenon
<1>15. Contents(line', N) /\ HalfWay(line', line', N) /\ HalfWay(line', pm', N)
  BY <1>2, <1>12, <1>13, <1>14, ContentsSame, HalfWayOf, Zenon
<1>16. N' = N
  BY <1>1, Zenon DEF N, BucketCount
<1>17. Pass2Todo(line', N) = Pass2Todo(line, N) /\ ResizedKeys(line', N) = ResizedKeys(line, N)
  BY <1>14, SameHad, Zenon DEF SameContents
<1>18. Present' = Present
  BY <1>1, <1>2, <1>16, <1>17, Zenon DEF Present, Resizing
<1>19. segs.unstable /\ segs'.unstable
  BY <1>1, Zenon DEF IInv, PhaseInv
<1>20. PassInv'
  <2>1. ASSUME NEW j \in Pass2Todo(line, N), j < ix + 1 PROVE Adjusted(line', N, j)
    <3>1. j \in Int /\ (j < ix \/ j = ix)
      BY <1>2, <1>3, <2>1 DEF Pass2Todo
    <3>2. Adjusted(line, N, j)
      BY <1>3, <3>1, ZenonT(60)
    <3>3. OffsetOf(line', N, j) = OffsetOf(line, N, j) /\ Reowned(line', N, j) = Reowned(line, N, j)
      BY <1>14, SameHad
    <3>4. Pass2Key(line', N, j) = Pass2Key(line, N, j)
      BY <1>14, Zenon DEF SameContents
    <3>5. BucketIx(N, Pass2Key(line, N, j)) \in 0 .. N - 1
      BY <1>2, HadBy, Zenon
    <3>6. /\ line'[BucketIx(N, Pass2Key(line, N, j))].own = line[BucketIx(N, Pass2Key(line, N, j))].own
          /\ line'[N + BucketIx(N, Pass2Key(line, N, j))].own = line[N + BucketIx(N, Pass2Key(line, N, j))].own
      BY <1>11, <3>5, Zenon
    <3> QED BY <3>2, <3>3, <3>4, <3>6, ZenonT(60) DEF Adjusted
  <2>2. ASSUME NEW j \in Pass2Todo(line, N), j < ix + 1 PROVE Cleared(line', N, j)
    <3>1. j \in 0 .. N - 1 /\ (j < ix \/ j = ix)
      BY <1>2, <1>3, <2>2 DEF Pass2Todo
    <3>2. CASE j < ix
      BY <1>3, <1>11, <3>1, <3>2, Zenon DEF Cleared
    <3>3. CASE j = ix
      BY <1>3, <1>8, <1>11, <3>3, Zenon DEF Cleared
    <3> QED BY <3>1, <3>2, <3>3, Zenon
  <2>3. \A j \in Pass2Todo(line', N) : j < ix' => Adjusted(line', N, j) /\ Cleared(line', N, j)
    BY <1>1, <1>17, <2>1, <2>2, Zenon
  <2> QED BY <1>1, <1>16, <2>3, Zenon DEF PassInv
<1>21. ResizeInv'
  BY <1>1, <1>2, <1>15, <1>16, <1>20, Zenon DEF ResizeInv
<1>22. TypeOK'
  <2>1. ix' \in Nat
    BY <1>1, <1>3
  <2> QED BY <1>1, <1>9, <1>10, <2>1, ZenonT(60) DEF IInv, TypeOK, Table
<1>23. TableInv'
  BY <1>19, Zenon DEF TableInv
<1>24. PhaseInv'
  BY <1>1, <1>19, Zenon DEF IInv, PhaseInv, Emplacing, Erasing, Moving
<1>25. ToldInv'
  <2>1. live => told = Present /\ op.kind = "emplace" /\ op.key \in Keys /\ op.key \notin Present /\ ~size.unstable
    BY <1>1, ZenonT(60) DEF IInv, ToldInv, Emplacing, Erasing, Moving
  <2> QED BY <1>1, <1>18, <2>1, Zenon DEF ToldInv, Emplacing, Erasing, Moving
<1> QED BY <1>18, <1>21, <1>22, <1>23, <1>24, <1>25, Zenon DEF IInv

\* resize_epilog: the doubled table is sound and holds the same keys.
LEMMA ResizeEpilogInv ==
  ASSUME IInv, ResizeEpilog
  PROVE  IInv' /\ Present' = Present
<1>1. /\ pc = "pass2" /\ Pass2Left = {} /\ pm' = line /\ segs' = [n |-> segs.n + 1, unstable |-> FALSE]
      /\ line' = line /\ size' = size /\ live' = live
      /\ told' = told /\ stale' = stale /\ crashes' = crashes
  BY Zenon DEF ResizeEpilog, history
<1>2. /\ segs.n < MaxSegments /\ Doubling(N) /\ N \in Nat \ {0} /\ line \in Table /\ pm \in Table
      /\ Contents(line, N) /\ HalfWay(line, line, N) /\ HalfWay(line, pm, N) /\ PassInv
      /\ Present = ResizedKeys(line, N)
  <2>1. Resizing
    BY <1>1, Zenon DEF Resizing
  <2> QED BY <2>1, Resize, Zenon
<1>3. \A j \in Pass2Todo(line, N) : Adjusted(line, N, j) /\ Cleared(line, N, j)
  <2>1. \A j \in Pass2Todo(line, N) : j < ix
    <3>1. \A j \in Pass2Todo(line, N) : ~(j >= ix) /\ j \in Int
      BY <1>1, <1>2 DEF Pass2Left, N, Pass2Todo
    <3> QED BY <3>1 DEF IInv, TypeOK
  <2> QED BY <1>1, <1>2, <2>1, Zenon DEF PassInv
<1>4. ASSUME NEW b \in 0 .. N - 1
      PROVE  line[b].own = Had(line, N, b) \ Leaves(line, N, b) /\ line[N + b].own = Leaves(line, N, b)
  <2>1. /\ Had(line, N, b) \ Leaves(line, N, b) \subseteq line[b].own
        /\ line[b].own \subseteq Had(line, N, b) /\ line[N + b].own \subseteq Leaves(line, N, b)
    BY <1>2, Zenon DEF HalfWay
  <2>2. ASSUME NEW o \in Leaves(line, N, b) PROVE o \notin line[b].own /\ o \in line[N + b].own
    <3>1. o \in Had(line, N, b) /\ Reowned(line, N, Place(N, b, o))
      BY Zenon DEF Leaves
    <3>2. /\ Place(N, b, o) \in Pass2Todo(line, N) /\ BucketIx(N, Pass2Key(line, N, Place(N, b, o))) = b
          /\ OffsetOf(line, N, Place(N, b, o)) = o
      BY <1>2, <3>1, HadBy
    <3> QED BY <1>3, <3>1, <3>2, Zenon DEF Adjusted
  <2> QED BY <2>1, <2>2, Zenon
<1>5. ASSUME NEW i \in Pass2Todo(line, N)
      PROVE  line[FinalOf(line, N, i)].use /\ line[FinalOf(line, N, i)].key = Pass2Key(line, N, i)
  <2>1. i \in 0 .. N - 1
    BY Zenon DEF Pass2Todo
  <2>2. CASE line[N + i].use
    BY <2>2, Zenon DEF FinalOf, Pass2Key
  <2>3. CASE ~line[N + i].use
    <3>1. line[i].use /\ line[i].key = Pass2Key(line, N, i)
      BY <1>2, <2>1, <2>3, Zenon DEF HalfWay
    <3> QED BY <2>3, <3>1, Zenon DEF FinalOf
  <2> QED BY <2>2, <2>3, Zenon
<1>6. Final(line, line, N)
  BY <1>4, <1>5, Zenon DEF Final
<1>7. Well(line, 2 * N) /\ Unique(line, 2 * N) /\ Located(line, 2 * N) = ResizedKeys(line, N)
  BY <1>2, <1>6, FinalTable, ZenonT(60)
<1>8. segs'.n = segs.n + 1 /\ ~segs'.unstable /\ segs' \in [n : 1 .. MaxSegments, unstable : BOOLEAN]
  BY <1>1, <1>2, HopHashAssumption DEF IInv, TypeOK
<1>9. N' = 2 * N
  BY <1>2, <1>8, SizeDoubles DEF IInv, TypeOK
<1>10. live => told = Present /\ op.kind = "emplace" /\ op.key \in Keys /\ op.key \notin Present /\ ~size.unstable
  BY <1>1, Zenon DEF IInv, ToldInv, Emplacing, Erasing, Moving
<1>11. live => LocateKey(line, 2 * N, op.key) = {}
  BY <1>2, <1>7, <1>10, Zenon DEF Located
<1>12. /\ pc' = (IF live THEN "probe" ELSE "scan") /\ ix' = 0 /\ op' = op
       /\ dst' = dst /\ src' = src /\ from' = from
  BY <1>11, Zenon DEF ResizeEpilog, N
<1>13. Present' = Present
  BY <1>1, <1>2, <1>7, <1>9, <1>12, Zenon DEF Present, Resizing
<1>14. TableInv'
  <2>1. Agree(line, line, 2 * N)
    BY Zenon DEF Agree
  <2> QED BY <1>1, <1>7, <1>9, <1>12, <2>1, Zenon DEF TableInv
<1>15. ResizeInv'
  BY <1>12, Zenon DEF ResizeInv, Resizing
<1>16. TypeOK'
  BY <1>1, <1>8, <1>12, Zenon DEF IInv, TypeOK
<1>17. PhaseInv'
  <2>1. live \in BOOLEAN
    BY Zenon DEF IInv, TypeOK
  <2> QED BY <1>1, <1>8, <1>12, <2>1, Zenon DEF PhaseInv, Emplacing, Erasing, Moving
<1>18. ToldInv'
  BY <1>1, <1>13, <1>10, <1>12, Zenon DEF ToldInv, Emplacing, Erasing, Moving
<1> QED BY <1>13, <1>14, <1>15, <1>16, <1>17, <1>18, Zenon DEF IInv
-----------------------------------------------------------------------------
(* The cache and power failures *)

\* Nothing else changes when the memory does.
LEMMA Untouched ==
  ASSUME PhaseInv, ToldInv, line' = line, size' = size, segs' = segs, pc' = pc, op' = op, live' = live,
         dst' = dst, src' = src, from' = from, ix' = ix, told' = told
  PROVE  PhaseInv' /\ ToldInv' /\ N' = N /\ Present' = Present
<1>1. N' = N /\ Home' = Home
  BY Zenon DEF N, BucketCount, Home
<1>2. Resizing' = Resizing
  BY Zenon DEF Resizing
<1>3. Present' = Present
  BY <1>1, <1>2, Zenon DEF Present
<1>4. ToldInv'
  BY <1>3, Zenon DEF ToldInv
<1>5. OutOfReach' = OutOfReach
  BY <1>1, Zenon DEF OutOfReach, N
<1>6. Free(dst)' = Free(dst) /\ Free(src)' = Free(src) /\ Unowned(dst)' = Unowned(dst) /\ Unowned(src)' = Unowned(src)
  BY <1>1, ZenonT(60) DEF Free, Unowned
<1>7. PhaseInv'
  BY <1>1, <1>5, <1>6 DEF PhaseInv
<1> QED BY <1>1, <1>3, <1>4, <1>7, Zenon

\* The cache writes one line to persistent memory of its own accord.
LEMMA EvictInv ==
  ASSUME IInv, NEW b \in Buckets, Evict(b)
  PROVE  IInv' /\ Present' = Present
<1>1. /\ pm' = [pm EXCEPT ![b] = line[b]]
      /\ line' = line /\ size' = size /\ segs' = segs /\ pc' = pc /\ op' = op /\ live' = live
      /\ dst' = dst /\ src' = src /\ from' = from /\ ix' = ix
      /\ told' = told /\ stale' = stale /\ crashes' = crashes
  BY Zenon DEF Evict, locals, history
<1>2. PhaseInv' /\ ToldInv' /\ N' = N /\ Present' = Present
  BY <1>1, Untouched, Zenon DEF IInv
<1>3. line \in Table /\ pm \in Table /\ Sized(N)
  BY Facts, Zenon DEF IInv
<1>4. pm' \in Table /\ \A c \in Buckets : pm'[c] \in {line[c], pm[c]}
  BY <1>1, <1>3, Zenon DEF Table
<1>5. TypeOK'
  BY <1>1, <1>4, Zenon DEF IInv, TypeOK, Table
<1>6. TableInv'
  <2>1. SUFFICES ASSUME ~segs.unstable PROVE Well(line, N) /\ Unique(line, N) /\ Agree(line, pm', N)
    BY <1>1, <1>2, Zenon DEF TableInv
  <2>2. Well(line, N) /\ Unique(line, N) /\ Agree(line, pm, N)
    BY <2>1, Zenon DEF IInv, TableInv
  <2>3. Agree(line, pm', N)
    BY <1>3, <1>4, <2>2, Zenon DEF Agree, Sized
  <2> QED BY <2>2, <2>3, Zenon
<1>7. ResizeInv'
  <2>1. CASE Resizing
    <3>1. /\ segs.n < MaxSegments /\ Doubling(N)
          /\ Contents(line, N) /\ HalfWay(line, line, N) /\ HalfWay(line, pm, N) /\ PassInv
      BY <2>1, Resize, Zenon
    <3>2. HalfWay(line, pm', N)
      BY <1>4, <3>1, Mixed, Zenon
    <3>3. PassInv'
      BY <1>1, <1>2, <3>1, Zenon DEF PassInv
    <3> QED BY <1>1, <1>2, <3>1, <3>2, <3>3, Zenon DEF ResizeInv
  <2>2. CASE ~Resizing
    BY <1>1, <2>2, Zenon DEF ResizeInv, Resizing
  <2> QED BY <2>1, <2>2, Zenon
<1> QED BY <1>2, <1>5, <1>6, <1>7, Zenon DEF IInv

\* A step that changes nothing.
LEMMA StutterInv ==
  ASSUME IInv, UNCHANGED vars
  PROVE  IInv' /\ Present' = Present
<1>1. /\ line' = line /\ pm' = pm /\ size' = size /\ segs' = segs /\ pc' = pc /\ op' = op /\ live' = live
      /\ dst' = dst /\ src' = src /\ from' = from /\ ix' = ix
      /\ told' = told /\ stale' = stale /\ crashes' = crashes
  BY Zenon DEF vars
<1>2. PhaseInv' /\ ToldInv' /\ N' = N /\ Present' = Present
  BY <1>1, Untouched, Zenon DEF IInv
<1>3. TypeOK' /\ TableInv'
  BY <1>1, <1>2, Zenon DEF IInv, TypeOK, TableInv
<1>4. PassInv' = PassInv /\ Resizing' = Resizing
  BY <1>1, <1>2, Zenon DEF PassInv, Resizing
<1>5. ResizeInv'
  BY <1>1, <1>2, <1>4, Zenon DEF IInv, ResizeInv
<1> QED BY <1>2, <1>3, <1>5, Zenon DEF IInv

\* The table in memory is as good as the one of the program.
LEMMA AgreeSame ==
  ASSUME NEW n, Sized(n), NEW L \in Table, NEW M \in Table, Well(L, n), Unique(L, n), Agree(L, M, n)
  PROVE  Same(L, M, n)
<1>1. \A c \in Owned(L, n) : L[c].use
  BY OwnedKeys, Zenon
<1>2. \A b \in 0 .. n - 1 : L[b].use \in BOOLEAN /\ M[b].use \in BOOLEAN
  BY Zenon DEF Sized, Table, Bucket
<1> QED BY <1>1, <1>2, Zenon DEF Same, Agree

\* Before pass 2 the keys are still those of the old table.
LEMMA InterlogKeys ==
  ASSUME NEW n, Doubling(n), NEW L \in Table, Contents(L, n), HalfWay(L, L, n), Well(L, n),
         \A b \in 0 .. n - 1 : L[b].own = Had(L, n, b)
  PROVE  Located(L, n) = ResizedKeys(L, n)
<1>1. Sized(n)
  BY DoublingSized, ZenonT(60)
<1>2. \A k : k \in Located(L, n) <=> \E b \in 0 .. n - 1 : \E o \in L[b].own : k = L[Place(n, b, o)].key
  BY <1>1, LocatedBy
<1>3. \A i \in 0 .. n - 1 : L[i].use => i \in Pass2Todo(L, n) /\ L[i].key = Pass2Key(L, n, i)
  BY Zenon DEF HalfWay
<1>4. \A b \in 0 .. n - 1 : \A o \in L[b].own : /\ Place(n, b, o) \in Pass2Todo(L, n) /\ Place(n, b, o) \in 0 .. n - 1
                                               /\ L[Place(n, b, o)].key = Pass2Key(L, n, Place(n, b, o))
  <2>1. SUFFICES ASSUME NEW b \in 0 .. n - 1, NEW o \in L[b].own
                 PROVE  /\ Place(n, b, o) \in Pass2Todo(L, n) /\ Place(n, b, o) \in 0 .. n - 1
                        /\ L[Place(n, b, o)].key = Pass2Key(L, n, Place(n, b, o))
    BY ZenonT(60)
  <2>2. Place(n, b, o) \in Pass2Todo(L, n)
    BY HadBy, ZenonT(60)
  <2>3. Place(n, b, o) \in 0 .. n - 1
    BY <2>2, Zenon DEF Pass2Todo
  <2>4. L[Place(n, b, o)].use
    BY ZenonT(60) DEF Well
  <2> QED BY <1>3, <2>2, <2>3, <2>4, Zenon
<1>5. \A i \in Pass2Todo(L, n) : \E b \in 0 .. n - 1 : \E o \in L[b].own : i = Place(n, b, o)
  <2> TAKE i \in Pass2Todo(L, n)
  <2> DEFINE h == BucketIx(n, Pass2Key(L, n, i))
             o == OffsetOf(L, n, i)
  <2>1. h \in 0 .. n - 1 /\ o \in Had(L, n, h) /\ Place(n, h, o) = i
    BY HadBy, ZenonT(60)
  <2>2. o \in L[h].own
    BY <2>1, Zenon
  <2> HIDE DEF h, o
  <2> QED BY <2>1, <2>2, Zenon
<1>6. ASSUME NEW k \in Located(L, n) PROVE k \in ResizedKeys(L, n)
  <2>1. PICK b \in 0 .. n - 1 : \E o \in L[b].own : k = L[Place(n, b, o)].key
    BY <1>2, Zenon
  <2> QED BY <1>4, <2>1, Zenon DEF ResizedKeys
<1>7. ASSUME NEW i \in Pass2Todo(L, n) PROVE Pass2Key(L, n, i) \in Located(L, n)
  BY <1>2, <1>4, <1>5, ZenonT(60)
<1> QED BY <1>6, <1>7, Zenon DEF ResizedKeys

\* Outside pass 2 the table is sound, in the cache and in memory.
LEMMA PresentKeys ==
  ASSUME IInv, ~segs.unstable
  PROVE  /\ Well(line, N) /\ Unique(line, N) /\ Agree(line, pm, N) /\ Same(line, pm, N)
         /\ Present = Located(line, N)
<1>1. Well(line, N) /\ Unique(line, N) /\ Agree(line, pm, N)
  BY Zenon DEF IInv, TableInv
<1>2. Same(line, pm, N)
  BY <1>1, Facts, AgreeSame, Zenon DEF IInv
<1>3. CASE Resizing
  <2>1. pc = "interlog"
    BY <1>3, Zenon DEF Resizing, IInv, PhaseInv
  <2>2. /\ Doubling(N) /\ line \in Table /\ Contents(line, N) /\ HalfWay(line, line, N) /\ PassInv
        /\ Present = ResizedKeys(line, N)
    BY <1>3, Resize, Zenon
  <2>3. \A b \in 0 .. N - 1 : line[b].own = Had(line, N, b)
    BY <2>1, <2>2, Zenon DEF PassInv
  <2> QED BY <1>1, <1>2, <2>2, <2>3, InterlogKeys, Zenon
<1>4. CASE ~Resizing
  BY <1>1, <1>2, <1>4, Zenon DEF Present
<1> QED BY <1>3, <1>4, Zenon

\* What is durable are the keys of the table, at every moment.
LEMMA DurablePresent ==
  ASSUME IInv
  PROVE  Durable = Present
<1>1. CASE segs.unstable
  <2>1. Resizing
    BY <1>1, Zenon DEF IInv, PhaseInv, Resizing
  <2>2. /\ Doubling(N) /\ line \in Table /\ pm \in Table /\ Contents(line, N) /\ HalfWay(line, pm, N)
        /\ Present = ResizedKeys(line, N)
    BY <2>1, Resize, Zenon
  <2>3. Located(Pass2Owners(pm, N, 0 .. N - 1), 2 * N) = ResizedKeys(line, N)
    BY <2>2, Recovered, Zenon
  <2> QED BY <1>1, <2>2, <2>3, Zenon DEF Durable, N
<1>2. CASE ~segs.unstable
  <2>1. line \in Table /\ pm \in Table /\ Sized(N)
    BY Facts, Zenon DEF IInv
  <2>2. Well(line, N) /\ Unique(line, N) /\ Same(line, pm, N) /\ Present = Located(line, N)
    BY <1>2, PresentKeys, Zenon
  <2>3. Located(pm, N) = Located(line, N)
    BY <2>1, <2>2, SameTable, Zenon
  <2> QED BY <1>2, <2>2, <2>3, Zenon DEF Durable, N
<1> QED BY <1>1, <1>2, Zenon

\* A power failure leaves what has been written; pass 2 is redone, anything else is
\* scanned.
LEMMA CrashInv ==
  ASSUME IInv, Crash
  PROVE  IInv' /\ Present' = Present
<1>1. /\ crashes < MaxCrashes /\ crashes' = crashes + 1
      /\ line' = [b \in Buckets |-> IF b < N \/ segs.unstable THEN pm[b] ELSE EmptyBucket]
      /\ pm' = line' /\ pc' = (IF segs.unstable THEN "pass2" ELSE "scan")
      /\ dst' = 0 /\ src' = 0 /\ from' = 0 /\ ix' = 0 /\ live' = FALSE
      /\ size' = size /\ segs' = segs /\ op' = op /\ told' = told /\ stale' = stale
  BY Zenon DEF Crash, MayFail, N
<1>2. line \in Table /\ pm \in Table /\ Sized(N) /\ N \in Nat \ {0}
  BY Facts, Zenon DEF IInv
<1>3. line' \in Table
  BY <1>1, <1>2, Zenon DEF Table, EmptyBucket, Bucket
<1>4. TypeOK'
  <2>1. 0 \in Buckets
    BY <1>2 DEF Sized
  <2>2. crashes' \in 0 .. MaxCrashes
    BY <1>1, HopHashAssumption DEF IInv, TypeOK
  <2> QED BY <1>1, <1>3, <2>1, <2>2, ZenonT(60) DEF IInv, TypeOK, Table
<1>5. N' = N
  BY <1>1, ZenonT(60) DEF N, BucketCount
<1>6. PhaseInv'
  BY <1>1 DEF IInv, TypeOK, PhaseInv, Emplacing, Erasing, Moving
<1>7. ToldInv'
  BY <1>1, Zenon DEF ToldInv, Emplacing, Erasing, Moving
<1>8. CASE segs.unstable
  <2>1. Resizing
    BY <1>8, Zenon DEF IInv, PhaseInv, Resizing
  <2>2. /\ segs.n < MaxSegments /\ Contents(line, N) /\ HalfWay(line, pm, N) /\ Present = ResizedKeys(line, N)
    BY <2>1, Resize, Zenon
  <2>3. line' = pm
    BY <1>1, <1>2, <1>8, Zenon DEF Table
  <2>4. SameContents(line, pm, N)
    BY <2>2, HalfWaySame, Zenon
  <2>5. Contents(pm, N) /\ HalfWay(pm, pm, N) /\ ResizedKeys(pm, N) = ResizedKeys(line, N)
    BY <2>2, <2>4, ContentsSame, HalfWayOf, SameHad, ZenonT(60)
  <2>6. PassInv'
    <3>1. \A i \in Pass2Todo(pm, N) : ~(i < 0)
      BY <1>2 DEF Pass2Todo
    <3>2. pc' = "pass2"
      BY <1>1, <1>8, Zenon
    <3> QED BY <1>1, <1>5, <2>3, <3>1, <3>2 DEF PassInv
  <2>7. ResizeInv'
    BY <1>1, <1>5, <2>2, <2>3, <2>5, <2>6, Zenon DEF ResizeInv
  <2>8. TableInv'
    BY <1>1, <1>8, Zenon DEF TableInv
  <2>9. Present' = Present
    BY <1>1, <1>5, <1>8, <2>2, <2>3, <2>5 DEF Present, Resizing
  <2> QED BY <1>4, <1>6, <1>7, <2>7, <2>8, <2>9, ZenonT(60) DEF IInv
<1>9. CASE ~segs.unstable
  <2>1. /\ Well(line, N) /\ Unique(line, N) /\ Same(line, pm, N) /\ Present = Located(line, N)
    BY <1>9, PresentKeys, Zenon
  <2>2. \A b \in 0 .. N - 1 : line'[b] = pm[b]
    BY <1>1, <1>2 DEF Sized
  <2>3. Same(line, line', N)
    BY <2>1, <2>2, Zenon DEF Same
  <2>4. Well(line', N) /\ Unique(line', N) /\ Located(line', N) = Located(line, N)
    BY <1>2, <1>3, <2>1, <2>3, SameTable
  <2>5. Agree(line', pm', N)
    BY <1>1, Zenon DEF Agree
  <2>6. ~Resizing'
    BY <1>1, <1>9, Zenon DEF Resizing
  <2>7. TableInv' /\ ResizeInv' /\ Present' = Present
    BY <1>1, <2>1, <2>4, <2>5, <2>6, Settled, Zenon
  <2> QED BY <1>4, <1>6, <1>7, <2>7, Zenon DEF IInv
<1> QED BY <1>8, <1>9, Zenon

\* The empty table.
LEMMA InitInv == Init => IInv
<1> SUFFICES ASSUME Init PROVE IInv
  BY Zenon
<1>1. /\ line = [b \in Buckets |-> EmptyBucket] /\ pm = line /\ size = [n |-> 0, unstable |-> FALSE]
      /\ segs = [n |-> 1, unstable |-> FALSE] /\ pc = "idle" /\ op = NoOp
      /\ dst = 0 /\ src = 0 /\ from = 0 /\ ix = 0 /\ live = TRUE /\ told = {} /\ stale = FALSE /\ crashes = 0
  BY Zenon DEF Init
<1>2. segs \in [n : 1 .. MaxSegments, unstable : BOOLEAN]
  BY <1>1, HopHashAssumption
<1>3. 0 \in Buckets /\ 0 .. N - 1 \subseteq Buckets /\ N \in Nat \ {0}
  BY <1>2, Sizes
<1>4. line \in Table
  BY <1>1, Zenon DEF Table, EmptyBucket, Bucket
<1>5. TypeOK
  <2>1. size \in [n : Int, unstable : BOOLEAN] /\ ix \in Nat /\ crashes \in 0 .. MaxCrashes
    BY <1>1, HopHashAssumption
  <2>2. op \in [kind : {"none", "emplace", "erase"}, key : Keys \cup {NoKey}]
    BY <1>1, Zenon DEF NoOp
  <2>3. {dst, src, from} \subseteq Buckets /\ told \subseteq Keys /\ live \in BOOLEAN /\ stale \in BOOLEAN
    BY <1>1, <1>3, Zenon
  <2>4. line \in [Buckets -> Bucket] /\ pm \in [Buckets -> Bucket]
    BY <1>1, <1>4, Zenon DEF Table
  <2> QED BY <1>2, <2>1, <2>2, <2>3, <2>4, ZenonT(60) DEF TypeOK
<1>6. \A b \in 0 .. N - 1 : line[b].own = {} /\ ~line[b].use
  BY <1>1, <1>3, Zenon DEF EmptyBucket
<1>7. TableInv
  BY <1>1, <1>6, Zenon DEF TableInv, Well, Unique, Agree
<1>8. ResizeInv
  BY <1>1, Zenon DEF ResizeInv, Resizing
<1>9. PhaseInv
  BY <1>1, Zenon DEF PhaseInv, Emplacing, Erasing, Moving
<1>10. ToldInv
  <2>1. Present = {}
    <3>1. \A k \in Keys : line[BucketIx(N, k)].own = {}
      BY <1>3, <1>6, HomeRange, Zenon
    <3>2. Located(line, N) = {}
      BY <3>1, Zenon DEF Located, LocateKey
    <3> QED BY <1>1, <3>2, Zenon DEF Present, Resizing
  <2> QED BY <1>1, <2>1, Zenon DEF ToldInv, Emplacing, Erasing, Moving
<1> QED BY <1>5, <1>7, <1>8, <1>9, <1>10, Zenon DEF IInv

\* What a step does to the keys of the table.
KeysStep ==
  \/ Present' = Present
  \/ InsertOwner /\ Present' = Present \cup {op.key} /\ op.kind = "emplace" /\ live
  \/ EraseOwner /\ Present' = Present \ {op.key} /\ op.kind = "erase" /\ live

\* Every step keeps the invariant, and only the owner store of a call changes the keys.
LEMMA NextInv ==
  ASSUME HasLeast, Cardinality(Owned(line, N)) \in Nat, IInv, [Next]_vars, ~stale'
  PROVE  IInv' /\ KeysStep
<1>1. ASSUME NEW k \in Keys, Emplace(k) PROVE IInv' /\ KeysStep
  BY <1>1, EmplaceInv, Zenon DEF KeysStep
<1>2. ASSUME NEW k \in Keys, Erase(k) PROVE IInv' /\ KeysStep
  BY <1>2, EraseInv, Zenon DEF KeysStep
<1>3. CASE NearestFreeBucket
  BY <1>3, NearestFreeBucketInv, Zenon DEF KeysStep
<1>4. CASE NoNearEmptyBucket
  BY <1>4, NoNearEmptyBucketInv, Zenon DEF KeysStep
<1>5. CASE MoveStart
  BY <1>5, MoveStartInv, Zenon DEF KeysStep
<1>6. CASE MoveContent
  BY <1>6, MoveContentInv, ZenonT(60) DEF KeysStep
<1>7. CASE MoveOwner
  BY <1>7, MoveOwnerInv, Zenon DEF KeysStep
<1>8. CASE FreeContent
  BY <1>8, FreeContentInv, Zenon DEF KeysStep
<1>9. CASE MoveDone
  BY <1>9, MoveDoneInv, Zenon DEF KeysStep
<1>10. CASE InsertStart
  BY <1>10, InsertStartInv, Zenon DEF KeysStep
<1>11. CASE InsertContent
  BY <1>11, InsertContentInv, Zenon DEF KeysStep
<1>12. CASE InsertOwner
  BY <1>12, InsertOwnerInv, Zenon DEF KeysStep
<1>13. CASE InsertDone
  BY <1>13, InsertDoneInv, Zenon DEF KeysStep
<1>14. CASE EraseOwner
  BY <1>14, EraseOwnerInv, Zenon DEF KeysStep
<1>15. CASE EraseDone
  BY <1>15, EraseDoneInv, Zenon DEF KeysStep
<1>16. CASE ResizePass1
  BY <1>16, ResizePass1Inv, Zenon DEF KeysStep
<1>17. CASE ResizeInterlog
  BY <1>17, ResizeInterlogInv, Zenon DEF KeysStep
<1>18. CASE ResizeAdjustOwner
  BY <1>18, ResizeAdjustOwnerInv, ZenonT(60) DEF KeysStep
<1>19. CASE ResizeFree
  BY <1>19, ResizeFreeInv, Zenon DEF KeysStep
<1>20. CASE ResizeEpilog
  BY <1>20, ResizeEpilogInv, Zenon DEF KeysStep
<1>21. CASE ScanElement
  BY <1>21, ScanElementInv, Zenon DEF KeysStep
<1>22. CASE ScanDone
  BY <1>22, ScanDoneInv, Zenon DEF KeysStep
<1>23. ASSUME NEW b \in Buckets, Evict(b) PROVE IInv' /\ KeysStep
  BY <1>23, EvictInv, Zenon DEF KeysStep
<1>24. CASE Crash
  BY <1>24, CrashInv, Zenon DEF KeysStep
<1>25. CASE UNCHANGED vars
  BY <1>25, StutterInv, Zenon DEF KeysStep
<1>26. Step => IInv' /\ KeysStep
  BY <1>3, <1>4, <1>5, <1>6, <1>7, <1>8, <1>9, <1>10, <1>11, <1>12, <1>13, <1>14, <1>15, <1>16, <1>17, <1>18, <1>19,
     <1>20, <1>21, <1>22, ZenonT(60) DEF Step
<1> QED BY <1>1, <1>2, <1>23, <1>24, <1>25, <1>26, Zenon DEF Next
=============================================================================
