---------------------------- MODULE CcAllocator ----------------------------
(***************************************************************************)
(* The crash-consistent allocator of libccpm: cca (cca.cpp) over regions   *)
(* of persistent memory, each the tree of area_ctl of an area_top          *)
(* (area_top.cpp, area_ctl.cpp), with the doubt record (doubt.cpp).        *)
(*                                                                         *)
(* An area is a sequence: <<r>> is the root area_ctl of region r, and      *)
(* <<r, i>> the area that subdivides its element i.  Sizes are counted in  *)
(* elements of level 0 (min_alloc_size bytes).  One thread uses the        *)
(* allocator.  Every action but the volatile ones is one store to          *)
(* persistent memory with its PERSIST, so that a crash falls between any   *)
(* two of them.                                                            *)
(***************************************************************************)
EXTENDS Integers, Sequences

CONSTANTS
  NRegions,     \* regions passed to cca::init, 1..NRegions
  TopLevel,     \* level of the root area of each region
  TopCount,     \* _element_count of each root area
  RegionAt,     \* the address of each region
  W,            \* alloc_states_per_word
  HeaderElems,  \* sizeof(area_ctl) in elements of level 0
  FirstLine,    \* elements whose state byte is in the cache line of _alloc_bits
  Slots,        \* the client's persistent pointers
  Units,        \* sizes the client asks for
  Aligns,       \* alignments the client asks for
  MaxCrashes,   \* bound on crashes
  Null          \* nullptr

Regions == 1 .. NRegions
Elems == 0 .. W - 1
Roots == {<<r>> : r \in Regions}
Children == {<<r, i>> : r \in {q \in Regions : TopLevel[q] = 1}, i \in Elems}
Areas == Roots \cup Children
Addrs == [r : Regions, u : 0 .. W * W - 1]
SubStates == {"none", "reserved", "subdivision", "client_aligned", "client_unaligned", "continued"}

ASSUME SizesAssumption ==
  /\ NRegions \in Nat \ {0}
  /\ W \in Nat /\ HeaderElems \in Nat \ {0} /\ 2 * HeaderElems <= W
  /\ TopLevel \in [Regions -> {0, 1}] /\ TopCount \in [Regions -> 1 .. W]
  /\ RegionAt \in [Regions -> Nat]
  /\ FirstLine \subseteq Elems
  /\ Units \subseteq Nat \ {0} /\ Aligns \subseteq Nat \ {0} /\ MaxCrashes \in Nat

VARIABLES
  bits,         \* _alloc_bits of each area: its allocated elements
  state,        \* _element_state of each area, as the program reads it
  saved,        \* _element_state of each area, as it is in persistent memory
  dt,           \* _dt of each root area
  cptr,         \* the client's pointers
  csize,        \* the size the client knows of each pointer's area
  tier,         \* the chain of area_top each area is in, 0 for none
  allRestored,  \* _all_restored of each area_top
  last,         \* _last_top_allocate
  pc, op,       \* the call in progress, and where it is
  crashes

mem == <<bits, state, saved, dt>>
client == <<cptr, csize>>
chains == <<tier, allRestored, last>>
vars == <<bits, state, saved, dt, cptr, csize, tier, allRestored, last, pc, op, crashes>>

-----------------------------------------------------------------------------
(* Geometry *)

Level(a) == TopLevel[a[1]] - (Len(a) - 1)
SubSize(l) == IF l = 0 THEN 1 ELSE W
Base(a) == IF Len(a) = 1 THEN 0 ELSE a[2] * W
Count(a) == IF Len(a) = 1 THEN TopCount[a[1]] ELSE W
DivRoundUp(x, y) == (x + y - 1) \div y
RoundUp(x, y) == DivRoundUp(x, y) * y
Larger(x, y) == IF x < y THEN y ELSE x

\* front_pad_count(header_ct, sub_size) and max_free_element_count(level)
FrontPad(h, l) == DivRoundUp(HeaderElems * h, SubSize(l))
MaxFreeElements(l) == W - FrontPad(1, l)

(* Alloc word and element states *)

Span(ix, n) == ix .. ix + n - 1
FreeRun(b, ix, n) == Span(ix, n) \subseteq Elems \ b

\* aw_count_max_free_run: the longest run of free elements of an alloc word
MaxFreeRun(b) ==
  CHOOSE n \in 0 .. W : /\ \E ix \in 0 .. W : FreeRun(b, ix, n)
                        /\ \A m \in n + 1 .. W : \A ix \in Elems : ~FreeRun(b, ix, m)

\* el_find_n_free: the first run of n free elements
FindFree(b, n) ==
  CHOOSE ix \in Elems : FreeRun(b, ix, n) /\ \A j \in 0 .. ix - 1 : ~FreeRun(b, j, n)

IsFree(a, ix) == ix \notin bits[a]
IsA(a, ix, s) == ix \in bits[a] /\ state[a][ix] = s
IsClientStart(a, ix) == IsA(a, ix, "client_aligned") \/ IsA(a, ix, "client_unaligned")

\* el_run_at: an element and those that continue it
RunAt(a, ix) ==
  CHOOSE n \in 1 .. W :
    /\ \A j \in ix + 1 .. ix + n - 1 : IsA(a, j, "continued")
    /\ ix + n = Count(a) \/ ~IsA(a, ix + n, "continued")

\* the areas of the tree: a child exists when its element is a subdivision
Live(a) == Len(a) = 2 => IsA(<<a[1]>>, a[2], "subdivision")

\* el_reserve_range over a fresh alloc word and fresh states
Reserved(S) == [i \in Elems |-> IF i \notin S THEN "none"
                                ELSE IF i - 1 \in S THEN "continued" ELSE "reserved"]

\* PERSIST flushes whole cache lines: the line of _alloc_bits, which holds the
\* states of FirstLine, and the line of the other states
LinesOf(S) == (IF S \cap FirstLine # {} THEN FirstLine ELSE {})
              \cup (IF S \ FirstLine # {} THEN Elems \ FirstLine ELSE {})
Flush(sv, st, S) == [i \in Elems |-> IF i \in S THEN st[i] ELSE sv[i]]

\* Mutant: the states of the elements that continue the run are not stored.
AllocateNSingle(a, ix, n, s, line) ==
  LET st == [state[a] EXCEPT ![ix] = s]
  IN /\ state' = [state EXCEPT ![a] = st]
     /\ saved' = [saved EXCEPT ![a] = Flush(@, st, line)]
     /\ bits' = [bits EXCEPT ![a] = @ \cup Span(ix, n)]

\* el_allocate_n: the states from ix + 1 on are persisted with their cache lines, and
\* the line of the alloc word where its PERSIST follows
AllocateN(a, ix, n, s, line) ==
  LET st == [i \in Elems |-> IF i = ix THEN s
                             ELSE IF i \in Span(ix, n) THEN "continued" ELSE state[a][i]]
  IN /\ state' = [state EXCEPT ![a] = st]
     /\ saved' = [saved EXCEPT ![a] = Flush(@, st, LinesOf(Span(ix + 1, n - 1)) \cup line)]
     /\ bits' = [bits EXCEPT ![a] = @ \cup Span(ix, n)]

\* el_deallocate_n and the PERSIST of the alloc word
DeallocateN(a, ix, n) ==
  /\ bits' = [bits EXCEPT ![a] = @ \ Span(ix, n)]
  /\ saved' = [saved EXCEPT ![a] = Flush(@, state[a], FirstLine)]
  /\ UNCHANGED state

(* Looking for a place *)

\* the elements needed for n units, and the run that leaves room for the alignment: by
\* the size of the elements, and for a region that does not have the alignment
Need(l, n) == DivRoundUp(n, SubSize(l))
RunLength(r, l, n, al) ==
  Need(l, n) + Larger(al \div SubSize(l) - 1, IF RegionAt[r] % al # 0 THEN 1 ELSE 0)

\* an allocation at u may start within an element, and then reach into one more
OffsetIn(a, u) == (u - Base(a)) % SubSize(Level(a))
Covered(a, u, n) == Need(Level(a), OffsetIn(a, u) + n)
ClientState(a, u) == IF OffsetIn(a, u) = 0 THEN "client_aligned" ELSE "client_unaligned"

\* size_to_level, and the two steps up of area_top::allocate; 2 is above all levels
SizeToLevel(n) == IF n <= W - 1 THEN 0 ELSE IF n <= (W - 1) * W THEN 1 ELSE 2
FitsLevel(r, l, n, al) == /\ l >= SizeToLevel(n)
                          /\ RunLength(r, l, n, al) < W
                          /\ RunLength(r, l, n, al) <= MaxFreeElements(l)
LevelFor(r, n, al) == CHOOSE l \in 0 .. 2 : /\ l = 2 \/ FitsLevel(r, l, n, al)
                                            /\ \A m \in 0 .. l - 1 : ~FitsLevel(r, m, n, al)

\* find_free_ctl: the chained areas of the least tier that is long enough
Chained(r, l, n) == {a \in Areas : a[1] = r /\ Level(a) = l /\ tier[a] >= n}
Viable(r, l, n) == {a \in Chained(r, l, n) : \A b \in Chained(r, l, n) : tier[a] <= tier[b]}

\* locate_element: the element an address is the start of, or Null for a throw
Locate(p) ==
  LET root == <<p.r>>
      i == p.u \div SubSize(Level(root))
      child == <<p.r, i>>
      k == p.u - i * W
  IN IF IsA(root, i, ClientState(root, p.u)) THEN [a |-> root, ix |-> i]
     ELSE IF IsA(root, i, "subdivision") /\ IsA(child, k, "client_aligned") THEN [a |-> child, ix |-> k]
     ELSE Null

-----------------------------------------------------------------------------
(* area_ctl::commission: a root of level 0 reserves its own header, a root of
   level 1 puts the headers of both levels into its first subdivision *)

RootBits(r) == TopCount[r] .. W - 1
InitReserved(a) ==
  IF Len(a) = 1
  THEN RootBits(a[1]) \cup (IF TopLevel[a[1]] = 0 THEN 0 .. FrontPad(1, 0) - 1 ELSE {})
  ELSE IF a[2] = 0 THEN 0 .. FrontPad(2, 0) - 1 ELSE {}
InitStates(a) ==
  IF a \in Roots /\ TopLevel[a[1]] = 1
  THEN [Reserved(InitReserved(a)) EXCEPT ![0] = "subdivision"]
  ELSE Reserved(InitReserved(a))

NoOp == [kind |-> "none", slot |-> Null, n |-> 0, al |-> 1, todo |-> <<>>,
         p |-> Null, a |-> Null, ix |-> 0, len |-> 0, bytes |-> 0]
NoDoubt == [bytes |-> 0, p |-> Null]

Init ==
  /\ bits = [a \in Areas |-> IF a \in Roots THEN InitReserved(a) \cup {0} ELSE InitReserved(a)]
  /\ state = [a \in Areas |-> InitStates(a)]
  /\ saved = state
  /\ dt = [r \in Regions |-> NoDoubt]
  /\ cptr = [s \in Slots |-> Null]
  /\ csize = [s \in Slots |-> 0]
  /\ tier = [a \in Areas |-> 0]
  /\ allRestored = [r \in Regions |-> FALSE]
  /\ last = 1
  /\ pc = "idle" /\ op = NoOp /\ crashes = 0

-----------------------------------------------------------------------------
(* cca::allocate *)

\* the regions from _last_top_allocate on, then those before it
Order == [i \in 1 .. NRegions |-> ((last + i - 2) % NRegions) + 1]

AllocateStart(s, n, al) ==
  /\ pc = "idle" /\ cptr[s] = Null
  /\ op' = [NoOp EXCEPT !.kind = "allocate", !.slot = s, !.n = n, !.al = al, !.todo = Order]
  /\ pc' = "search"
  /\ UNCHANGED <<mem, client, chains, crashes>>

Top == Head(op.todo)
OpLevel == LevelFor(Top, op.n, op.al)
OpRun == RunLength(Top, OpLevel, op.n, op.al)
Probe == Viable(Top, OpLevel, OpRun)
Searching == pc = "search" /\ OpLevel <= TopLevel[Top]

\* area_ctl::allocate up to the doubt record: the address is the first one of the
\* free run that has the alignment
AllocateStrategy1(a) ==
  /\ Searching /\ a \in Probe
  /\ LET l == Level(a)
         first == Base(a) + FindFree(bits[a], OpRun) * SubSize(l)
         u == RoundUp(RegionAt[Top] + first, op.al) - RegionAt[Top]
     IN op' = [op EXCEPT !.p = [r |-> Top, u |-> u], !.a = a,
                         !.ix = (u - Base(a)) \div SubSize(l),
                         !.len = Covered(a, u, op.n), !.bytes = Covered(a, u, op.n) * SubSize(l)]
  /\ pc' = "dt_bytes"
  /\ UNCHANGED <<mem, client, chains, crashes>>

\* allocate_recovery_1 and area_ctl::restore_all
AllocateRecovery1 ==
  /\ Searching /\ Probe = {} /\ ~allRestored[Top]
  /\ allRestored' = [allRestored EXCEPT ![Top] = TRUE]
  /\ tier' = [a \in Areas |-> IF a[1] = Top /\ Live(a) THEN MaxFreeRun(bits[a]) ELSE tier[a]]
  /\ UNCHANGED <<mem, client, last, pc, op, crashes>>

\* allocate_recovery_2: new_subdivision in the parent level, of one element
CanSubdivide == OpLevel = 0 /\ Viable(Top, 1, 1) # {}
AllocateRecovery2 ==
  /\ Searching /\ Probe = {} /\ allRestored[Top] /\ CanSubdivide
  /\ LET root == <<Top>>
         ix == FindFree(bits[root], 1)
         child == <<Top, ix>>
         pad == 0 .. FrontPad(1, 0) - 1
     IN /\ bits' = [bits EXCEPT ![root] = @ \cup {ix}, ![child] = pad]
        /\ state' = [state EXCEPT ![root][ix] = "subdivision", ![child] = Reserved(pad)]
        /\ saved' = [saved EXCEPT ![root] = Flush(@, state'[root], FirstLine),
                                  ![child] = Reserved(pad)]
        /\ tier' = [tier EXCEPT ![root] = MaxFreeRun(bits'[root]), ![child] = MaxFreeRun(pad)]
  /\ UNCHANGED <<dt, client, allRestored, last, pc, op, crashes>>

\* Mutant: a region is given up before its areas were restored to the chains.
ExhaustedEarly == /\ pc = "search"
                  /\ Searching => Probe = {} /\ ~CanSubdivide

\* no place in this region: the next one, or E_FAIL with ptr unchanged
Exhausted == /\ pc = "search"
             /\ Searching => Probe = {} /\ allRestored[Top] /\ ~CanSubdivide
NextRegion ==
  /\ Exhausted /\ Len(op.todo) > 1
  /\ op' = [op EXCEPT !.todo = Tail(@)]
  /\ UNCHANGED <<mem, client, chains, pc, crashes>>
AllocateFail ==
  /\ Exhausted /\ Len(op.todo) = 1
  /\ pc' = "idle" /\ op' = NoOp
  /\ UNCHANGED <<mem, client, chains, crashes>>

-----------------------------------------------------------------------------
(* cca::free: locate_element throws, or deallocate_local frees the run it finds *)

FreeStart(s) ==
  /\ pc = "idle" /\ cptr[s] # Null
  /\ LET loc == Locate(cptr[s])
     IN IF loc = Null THEN pc' = "thrown" /\ UNCHANGED op
        ELSE /\ pc' = "dt_bytes"
             /\ op' = [NoOp EXCEPT !.kind = "free", !.slot = s, !.p = cptr[s], !.a = loc.a,
                                   !.ix = loc.ix, !.len = RunAt(loc.a, loc.ix), !.bytes = csize[s]]
  /\ UNCHANGED <<mem, client, chains, crashes>>

-----------------------------------------------------------------------------
(* The stores of allocate, deallocate_local and restore, in their order.  The
   doubt record is two words, of which _bytes is stored first.               *)

StepTo(from, to) == pc = from /\ pc' = to /\ UNCHANGED <<op, crashes>>
DtStored(r, d) == dt' = [dt EXCEPT ![r] = d]
\* PERSIST of the doubt record flushes its line, which holds the alloc word too
DtFlushed(r) == saved' = [saved EXCEPT ![<<r>>] = Flush(@, state[<<r>>], FirstLine)]

SetDoubtBytes ==
  /\ StepTo("dt_bytes", "dt_ptr")
  /\ DtStored(op.p.r, [dt[op.p.r] EXCEPT !.bytes = op.bytes])
  /\ UNCHANGED <<bits, state, saved, client, chains>>

\* Mutant: the pointer of the doubt record is not stored.
SetDoubtPtrForgets ==
  /\ StepTo("dt_ptr", IF op.kind = "allocate" THEN "tell" ELSE "mark")
  /\ UNCHANGED dt /\ DtFlushed(op.p.r)
  /\ UNCHANGED <<bits, state, client, chains>>

SetDoubtPtr ==
  /\ StepTo("dt_ptr", IF op.kind = "allocate" THEN "tell" ELSE "mark")
  /\ DtStored(op.p.r, [dt[op.p.r] EXCEPT !.p = op.p]) /\ DtFlushed(op.p.r)
  /\ UNCHANGED <<bits, state, client, chains>>

\* ptr_ = pr, or ptr_ = nullptr
TellClient ==
  /\ StepTo("tell", IF op.kind = "allocate" THEN "mark" ELSE "clr_bytes")
  /\ cptr' = [cptr EXCEPT ![op.slot] = IF op.kind = "allocate" THEN op.p ELSE Null]
  /\ csize' = [csize EXCEPT ![op.slot] = IF op.kind = "allocate" THEN op.n ELSE 0]
  /\ UNCHANGED <<mem, chains>>

MarkElements ==
  /\ StepTo("mark", IF op.kind = "allocate" THEN "clr_bytes" ELSE "tell")
  /\ IF op.kind = "allocate" THEN AllocateN(op.a, op.ix, op.len, ClientState(op.a, op.p.u), FirstLine)
                             ELSE DeallocateN(op.a, op.ix, op.len)
  /\ UNCHANGED <<dt, client, chains>>

ClearDoubtBytes ==
  /\ StepTo("clr_bytes", "clr_ptr")
  /\ DtStored(op.p.r, [dt[op.p.r] EXCEPT !.bytes = 0])
  /\ UNCHANGED <<bits, state, saved, client, chains>>

\* Mutant: an area whose longest run became shorter stays in its chain.
RechainLonger ==
  LET new == MaxFreeRun(bits[op.a])
  IN tier' = IF new < tier[op.a] THEN tier ELSE [tier EXCEPT ![op.a] = new]

\* the end of the call: the area moves to the chain of its longest free run (after a
\* free, if the run changed), and restore goes on with the next region
Rechain ==
  LET new == MaxFreeRun(bits[op.a])
      old == MaxFreeRun(bits[op.a] \cup Span(op.ix, op.len))
  IN tier' = IF op.kind = "free" /\ new = old THEN tier ELSE [tier EXCEPT ![op.a] = new]

\* Mutant: _last_top_allocate is counted from the region the search began with.
LastTopFromSplit == op.p.r - last

\* _last_top_allocate = it - _top.begin()
LastTop == op.p.r

ClearDoubtPtr ==
  /\ pc = "clr_ptr"
  /\ DtStored(op.p.r, NoDoubt) /\ DtFlushed(op.p.r)
  /\ IF op.kind = "restore"
     THEN pc' = "restore" /\ op' = [NoOp EXCEPT !.kind = "restore", !.todo = Tail(op.todo)]
          /\ UNCHANGED <<tier, last>>
     ELSE pc' = "idle" /\ op' = NoOp /\ Rechain
          /\ last' = IF op.kind = "allocate" THEN LastTop ELSE last
  /\ UNCHANGED <<bits, state, client, allRestored, crashes>>

-----------------------------------------------------------------------------
(* Crash and cca::init with force_init false *)

\* what was not persisted may be lost; all that is volatile is
Crash ==
  /\ crashes < MaxCrashes /\ pc \notin {"thrown", "refused"}
  /\ crashes' = crashes + 1
  /\ \E kept \in SUBSET {x \in Areas \X Elems : state[x[1]][x[2]] # saved[x[1]][x[2]]} :
       state' = [a \in Areas |-> [i \in Elems |->
                   IF <<a, i>> \in kept THEN state[a][i] ELSE saved[a][i]]]
  /\ saved' = state'
  /\ tier' = [a \in Areas |-> 0]
  /\ allRestored' = [r \in Regions |-> FALSE]
  /\ last' = 1
  /\ pc' = "restore"
  /\ op' = [NoOp EXCEPT !.kind = "restore", !.todo = [r \in Regions |-> r]]
  /\ UNCHANGED <<bits, dt, client>>

\* the ownership callback of the client
Owned(p) == \E s \in Slots : cptr[s] = p

\* area_ctl::restore: set_allocated and set_deallocated go through locate_element, and
\* el_allocate_n and el_deallocate_n assert that the length is not zero
Restore ==
  /\ pc = "restore" /\ op.todo # <<>>
  /\ LET r == Head(op.todo)
         p == dt[r].p
         loc == Locate(p)
         n == Need(Level(loc.a), dt[r].bytes)
     IN IF p = Null
        THEN op' = [op EXCEPT !.todo = Tail(@)] /\ UNCHANGED <<pc, bits, state, saved>>
        ELSE IF loc = Null \/ n = 0
        THEN pc' = "refused" /\ UNCHANGED <<op, bits, state, saved>>
        ELSE /\ pc' = "clr_bytes"
             /\ op' = [op EXCEPT !.p = p, !.a = loc.a, !.ix = loc.ix, !.len = n]
             /\ IF Owned(p) THEN AllocateN(loc.a, loc.ix, n, ClientState(loc.a, p.u), {})
                            ELSE DeallocateN(loc.a, loc.ix, n)
  /\ UNCHANGED <<dt, client, chains, crashes>>

Restored ==
  /\ pc = "restore" /\ op.todo = <<>>
  /\ pc' = "idle" /\ op' = NoOp
  /\ UNCHANGED <<mem, client, chains, crashes>>

Next ==
  \/ \E s \in Slots, n \in Units, al \in Aligns : AllocateStart(s, n, al)
  \/ \E a \in Areas : AllocateStrategy1(a)
  \/ AllocateRecovery1 \/ AllocateRecovery2 \/ NextRegion \/ AllocateFail
  \/ \E s \in Slots : FreeStart(s)
  \/ SetDoubtBytes \/ SetDoubtPtr \/ TellClient \/ MarkElements
  \/ ClearDoubtBytes \/ ClearDoubtPtr
  \/ Crash \/ Restore \/ Restored

Spec == Init /\ [][Next]_vars

-----------------------------------------------------------------------------
(* Properties *)

\* Shapes of the persistent structures, the client's pointers, the chains and the call.
TypeOK ==
  /\ bits \in [Areas -> SUBSET Elems]
  /\ state \in [Areas -> [Elems -> SubStates]] /\ saved \in [Areas -> [Elems -> SubStates]]
  /\ dt \in [Regions -> [bytes : 0 .. W * W, p : Addrs \cup {Null}]]
  /\ cptr \in [Slots -> Addrs \cup {Null}] /\ csize \in [Slots -> Units \cup {0}]
  /\ tier \in [Areas -> 0 .. W] /\ allRestored \in [Regions -> BOOLEAN] /\ last \in Regions
  /\ pc \in {"idle", "search", "dt_bytes", "dt_ptr", "tell", "mark", "clr_bytes", "clr_ptr",
             "restore", "refused", "thrown"}
  /\ crashes \in 0 .. MaxCrashes

\* the elements that are the start of a client's allocation, and the addresses in doubt
Starts == {x \in [a : Areas, ix : Elems] : Live(x.a) /\ IsClientStart(x.a, x.ix)}
InDoubt == {dt[r].p : r \in Regions} \ {Null}

\* At every instant, so at every crash, the alloc words and the client's pointers agree on
\* who owns an area, except for the one address that the doubt record names: nothing else
\* is leaked, or free while a client uses it.  Between calls, and after a recovery that
\* succeeded, nothing is in doubt.
DoubtCovers ==
  /\ {Locate(p) : p \in {cptr[s] : s \in Slots} \ (InDoubt \cup {Null})}
       = Starts \ {Locate(p) : p \in InDoubt}
  /\ pc = "idle" => InDoubt = {}

\* the units a client may use, and those marked as its allocation
Cells(p, n) == {[r |-> p.r, u |-> v] : v \in p.u .. p.u + n - 1}

\* No two clients' areas overlap, none covers an area_ctl or what is past the end of the
\* region, and free accepts every pointer of a client and gives back exactly the elements
\* that were allocated (locate_element, el_client_run_at).
RunsExact ==
  /\ \A s, t \in Slots : s # t /\ cptr[s] # Null /\ cptr[t] # Null =>
       Cells(cptr[s], csize[s]) \cap Cells(cptr[t], csize[t]) = {}
  /\ \A s \in Slots : cptr[s] # Null /\ cptr[s] \notin InDoubt =>
       LET loc == Locate(cptr[s])
       IN loc # Null /\ RunAt(loc.a, loc.ix) = Covered(loc.a, cptr[s].u, csize[s])

\* An area is in the chain of its longest free run or in none; once restore_all has run,
\* every area with a free run is in its chain.  Checked between calls.
ChainsExact ==
  pc = "idle" => \A a \in Areas :
    /\ tier[a] # 0 => Live(a) /\ tier[a] = MaxFreeRun(bits[a])
    /\ allRestored[a[1]] /\ Live(a) => tier[a] = MaxFreeRun(bits[a])

\* allocate fails only if no region has a long enough free run at the level of the
\* request, or a free element to subdivide for it, in whatever chains they are.
HasRoom(r) ==
  LET l == LevelFor(r, op.n, op.al)
  IN /\ l <= TopLevel[r]
     /\ \E a \in Areas : /\ a[1] = r /\ Live(a)
                         /\ \/ Level(a) = l /\ MaxFreeRun(bits[a]) >= RunLength(r, l, op.n, op.al)
                            \/ Level(a) > l /\ MaxFreeRun(bits[a]) >= 1
FailsWhenFull ==
  [][pc = "search" /\ pc' = "idle" => \A r \in Regions : ~HasRoom(r)]_vars

\* Recovery resolves the doubt: restore marks the area in doubt as its client says
\* (comment of area_ctl::restore) and the regions are open again.
DoubtResolved == pc # "refused"

=============================================================================
