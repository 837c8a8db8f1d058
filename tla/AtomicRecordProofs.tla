------------------------- MODULE AtomicRecordProofs -------------------------
(***************************************************************************)
(* The redo record is restartable, all or nothing and exact in its counts, *)
(* for any number of keys, blocks, values and crashes, whether or not a    *)
(* crash may find a null pointer (FreeCrash), where no crash strikes a     *)
(* pending swap_keys (SwapCrash = FALSE).                                  *)
(*                                                                         *)
(* Restartable is not inductive.  That the new value survives the release  *)
(* of the old block, and that a redone assignment finds it, needs the      *)
(* counts of the heap (CountInv), that no block belongs to two keys        *)
(* (CellsInv), what a content without an owner holds (LooseInv), what is   *)
(* being inserted or pinned (TableInv), where the block of the record may  *)
(* be used (CallInv, PendingInv), and how far an update has come           *)
(* (ProgressInv).  A crash that leaves a null pointer leaves a pool that is *)
(* never opened: Recover is not enabled, and what the theorems say of an   *)
(* open pool holds of it trivially; ReplaceRestarts is about it.           *)
(*                                                                         *)
(* The lemmas come in this order: cells, counts, bytes and records; the    *)
(* calls of the client; the steps that carry out a pending change, in the  *)
(* call that made it pending or again in the constructor; the theorems.    *)
(***************************************************************************)
EXTENDS AtomicRecord, TLAPS, FiniteSetTheorems, WellFoundedInduction

\* A persist_fixed_string: out of line, with a block or a null pointer, or inline.
WfCell(c) == c \in Cell /\ (~c.out => c.blk = NoBlock)

\* The cells the counts are about; the second half of a swap is still to come.
Target == IF pc = "swap_part2" THEN [table EXCEPT ![rec.pd1] = rec.temp] ELSE table

\* Cells are well formed, and no block belongs to two keys.
CellsInv ==
  /\ \A k \in Keys : WfCell(table[k])
  /\ WfCell(rec.mapped) /\ rec.mapped.val # Absent
  /\ WfCell(rec.temp)
  /\ \A j, k \in Keys, b \in Blocks : Refers(Target[j], b) /\ Refers(Target[k], b) => j = k

\* A content without an owner is there only while one is made or destroyed, or since a crash.
Owning == {"own", "destroy", "unmark"}
LooseInv == WfCell(loose) /\ (pc \notin Owning \cup {"down"} => loose = Missing)

\* Who counts as a reference to a block: the cells but the one being replaced, the
\* record unless it is being cleared, the call that has just allocated, the content that
\* is made or destroyed, and what the last opening counted for such a content.
KeyCounted(k) == pc \in {"replace_cell", "replace_ref"} => k # rec.key
InTable(b) == \E k \in Keys : KeyCounted(k) /\ Refers(Target[k], b)
InRecord(b) == pc \notin {"unassign", "clear_cell"} /\ Refers(rec.mapped, b)
InCall(b) == pc \in {"assign", "pin_fixed"} /\ op.blk = b
InLoose(b) == pc \in {"own", "destroy"} /\ Refers(loose, b)
One(p) == IF p THEN 1 ELSE 0

\* The counts are exact while the pool is open; after a crash they mean nothing.
CountInv ==
  pc # "down" =>
    \A b \in Blocks : heap[b].ref = One(InTable(b)) + One(InRecord(b)) + One(InCall(b))
                                   + One(InLoose(b)) + One(b = orphan)

\* The record is pending exactly while it is carried out, or was when the process stopped.
Sizes == {-2, -1} \cup Nat
Pinning == {"pin", "pin_fixed"}
Calm == {"idle", "unassign", "allocate", "assign", "size", "clear", "clear_cell"} \cup Owning \cup Pinning
PcInv ==
  /\ rec.size \in Sizes
  /\ pc \in Calm => rec.size = 0
  /\ pc = "update" => rec.size > 0
  /\ pc \in {"replace", "replace_cell", "replace_ref"} => rec.size = -1
  /\ pc \in {"swap", "swap_part2"} => rec.size = -2
  /\ pc = "finish" => rec.size # 0
  /\ pc = "down" => rec.size # -2

\* The cell c does not share the block of key k.
NotIn(c, k) == Counted(c) => ~Refers(table[k], c.blk)
Fits(n, ctl, val) == Len(ctl) = n /\ Len(val) = n
Within(k, ctl) == committed[k] # Absent => \A n \in DOMAIN ctl : ctl[n] \in DOMAIN committed[k]

Holds(k) == ValueOf(table[k]) = committed[k]

\* The value that is inserted, and the one that is pinned.
TableInv ==
  /\ pc = "own" => /\ op.key \in Keys /\ table[op.key] = Missing /\ ValueOf(loose) = op.val
                   /\ \A k \in Keys : NotIn(loose, k)
  /\ pc \in Pinning => /\ op.key \in Keys /\ op.val = committed[op.key]
                        /\ ~table[op.key].out /\ table[op.key] # Missing
                        /\ \A k \in Keys \ {op.key} : Holds(k)
  /\ pc = "pin_fixed" => /\ op.blk \in Blocks /\ heap[op.blk].data = op.val
                         /\ \A k \in Keys : ~Refers(table[k], op.blk)

\* The description of a change on its way into the record.
CallInv ==
  /\ pc \in {"unassign", "allocate", "assign"} => op.size # -2
  /\ pc \in {"unassign", "allocate", "assign", "size"} =>
       op.size \in Sizes \ {0} /\ (op.size # -2 => op.key \in Keys)
  /\ pc \in {"unassign", "allocate", "assign", "size"} /\ op.size > 0 =>
       Fits(op.size, op.ctl, op.val) /\ Within(op.key, op.ctl)
  /\ pc \in {"allocate", "assign"} => rec.key = op.key /\ ~rec.mapped.out
  /\ pc = "assign" => /\ op.blk \in Blocks /\ heap[op.blk].data = op.val
                      /\ Len(op.val) >= SmallLimit
                      /\ \A k \in Keys : ~Refers(table[k], op.blk)
  /\ pc = "size" /\ op.size # -2 =>
       /\ rec.key = op.key /\ ValueOf(rec.mapped) = op.val /\ rec.ctl = op.ctl
       /\ \A k \in Keys : NotIn(rec.mapped, k)

\* The description of the pending change.
PendingInv ==
  /\ rec.size = -1 => rec.key \in Keys /\ \A k \in Keys \ {rec.key} : NotIn(rec.mapped, k)
  /\ rec.size > 0 => /\ rec.key \in Keys /\ \A k \in Keys : NotIn(rec.mapped, k)
                     /\ Fits(rec.size, rec.ctl, ValueOf(rec.mapped)) /\ Within(rec.key, rec.ctl)
  /\ pc = "replace_ref" => table[rec.key] = rec.mapped

\* A swap: the saved cell, and which values are where.
SwapInv ==
  /\ (pc = "size" /\ op.size = -2) \/ pc \in {"swap", "swap_part2"} =>
       rec.pd0 \in Keys /\ rec.pd1 \in Keys /\ rec.pd0 # rec.pd1
  /\ (pc = "size" /\ op.size = -2) \/ pc = "swap" => rec.temp = table[rec.pd0]
  /\ pc = "swap" => /\ committed[rec.pd0] = ValueOf(table[rec.pd1])
                    /\ committed[rec.pd1] = ValueOf(table[rec.pd0])
  /\ pc = "swap_part2" => Holds(rec.pd0) /\ committed[rec.pd1] = ValueOf(rec.temp)
  /\ pc \in {"swap", "swap_part2"} => \A k \in Keys \ {rec.pd0, rec.pd1} : Holds(k)

\* An update has made the entries before i, of which the last one for a byte counts.
Latest(n) == \A m \in n + 1 .. i - 1 : rec.ctl[m] # rec.ctl[n]
ProgressInv ==
  pc = "update" =>
    /\ i \in 1 .. rec.size + 1
    /\ table[rec.key] # Missing =>
         \A n \in 1 .. i - 1 : Latest(n) =>
           ValueOf(table[rec.key])[rec.ctl[n]] = ValueOf(rec.mapped)[n]

\* What table and record mean together: Restartable, key by key.
Change == [dst |-> rec.ctl, src |-> ValueOf(rec.mapped)]
MeaningInv ==
  /\ pc \notin Pinning /\ (rec.size = 0 \/ pc = "finish") => \A k \in Keys : Holds(k)
  /\ rec.size = -1 \/ rec.size > 0 => \A k \in Keys \ {rec.key} : Holds(k)
  /\ rec.size = -1 => committed[rec.key] = ValueOf(rec.mapped)
  /\ rec.size > 0 => IF table[rec.key] = Missing THEN committed[rec.key] = Absent
                     ELSE Written(ValueOf(table[rec.key]), Change) = committed[rec.key]

IInv == /\ TypeOK /\ CellsInv /\ LooseInv /\ CountInv /\ PcInv /\ TableInv /\ CallInv /\ PendingInv
        /\ SwapInv /\ ProgressInv /\ MeaningInv

\* Where the cells that count are simply those of the table.
Plain == pc \notin {"replace_cell", "replace_ref", "swap_part2"}
InCells(b) == \E k \in Keys : Refers(table[k], b)

\* Two facts about numbers and finite sets that the lemmas take as hypotheses.
GreatestExists == \A n \in Nat : \A S \in SUBSET (1 .. n) : S # {} => \E x \in S : \A y \in S : y <= x
SmallCardinals == Cardinality({}) = 0 /\ \A k : Cardinality({k}) = 1

-----------------------------------------------------------------------------
(* The parts of the invariant *)

\* The conjuncts of the invariant, before and after a step.
LEMMA Parts ==
  /\ IInv <=> /\ TypeOK /\ CellsInv /\ LooseInv /\ CountInv /\ PcInv /\ TableInv /\ CallInv /\ PendingInv
              /\ SwapInv /\ ProgressInv /\ MeaningInv
  /\ IInv' <=> /\ TypeOK' /\ CellsInv' /\ LooseInv' /\ CountInv' /\ PcInv' /\ TableInv' /\ CallInv' /\ PendingInv'
               /\ SwapInv' /\ ProgressInv' /\ MeaningInv'
BY Zenon DEF IInv

\* What a step owes to the parts that are about calls and changes it has nothing to do with.
LEMMA Quiet ==
  /\ pc' # "update" => ProgressInv'
  /\ pc' \notin {"size", "swap", "swap_part2"} => SwapInv'
  /\ pc' \notin {"unassign", "allocate", "assign", "size"} => CallInv'
  /\ pc' \notin {"own", "pin", "pin_fixed"} => TableInv'
  /\ rec'.size = 0 /\ pc' # "replace_ref" => PendingInv'
  /\ rec'.size = 0 /\ (\A k \in Keys : Holds(k)') => MeaningInv'
  /\ rec'.size = 0 /\ pc' \in Calm \cup {"down"} => PcInv'
<1>1. pc' # "update" => ProgressInv'
  BY Zenon DEF ProgressInv
<1>2. pc' \notin {"size", "swap", "swap_part2"} => SwapInv'
  BY Zenon DEF SwapInv
<1>3. pc' \notin {"unassign", "allocate", "assign", "size"} => CallInv'
  BY Zenon DEF CallInv
<1>4. pc' \notin {"own", "pin", "pin_fixed"} => TableInv'
  BY Zenon DEF TableInv, Pinning
<1>5. rec'.size = 0 /\ pc' # "replace_ref" => PendingInv'
  BY DEF PendingInv
<1>6. rec'.size = 0 /\ (\A k \in Keys : Holds(k)') => MeaningInv'
  BY DEF MeaningInv
<1>7. rec'.size = 0 /\ pc' \in Calm \cup {"down"} => PcInv'
  BY DEF PcInv, Sizes, Calm, Owning, Pinning
<1> QED BY <1>1, <1>2, <1>3, <1>4, <1>5, <1>6, <1>7, Zenon

\* The states in which nothing is pending.
LEMMA CalmStates ==
  \A p : p \in Calm <=> p \in {"idle", "unassign", "allocate", "assign", "size", "clear", "clear_cell",
                               "own", "destroy", "unmark", "pin", "pin_fixed"}
BY Zenon DEF Calm, Owning, Pinning

\* Outside a replacement and a swap, the references of the table are those of its cells.
LEMMA PlainTable ==
  /\ Plain => Target = table /\ \A b : InTable(b) <=> InCells(b)
  /\ Plain' => Target' = table' /\ \A b : InTable(b)' <=> InCells(b)'
<1>1. Plain => Target = table /\ \A b : InTable(b) <=> InCells(b)
  BY Zenon DEF Plain, Target, InTable, KeyCounted, InCells
<1>2. Plain' => Target' = table' /\ \A b : InTable(b)' <=> InCells(b)'
  BY Zenon DEF Plain, Target, InTable, KeyCounted, InCells
<1> QED BY <1>1, <1>2, Zenon

\* A step that makes and destroys no content, and pins none.
LEMMA Aside ==
  ASSUME IInv, loose' = loose, pc \notin {"own", "destroy", "unmark", "down"}, pc' \notin {"own", "pin", "pin_fixed"}
  PROVE  LooseInv' /\ TableInv'
<1>1. LooseInv
  BY Parts, Zenon
<1>2. WfCell(loose) /\ loose = Missing
  BY <1>1, Zenon DEF LooseInv, Owning
<1>3. LooseInv'
  BY <1>2, Zenon DEF LooseInv
<1> QED BY <1>3, Quiet, Zenon

\* A key keeps its value if its cell and the bytes it refers to stay.
LEMMA HoldsKept ==
  ASSUME NEW k, Holds(k), table'[k] = table[k], committed'[k] = committed[k],
         Counted(table[k]) => heap'[table[k].blk].data = heap[table[k].blk].data
  PROVE  Holds(k)'
BY Zenon DEF Holds, ValueOf, Counted

\* A step that leaves table and heap alone keeps every key.
LEMMA AllKept ==
  ASSUME \A k \in Keys : Holds(k), UNCHANGED <<table, heap, committed>>
  PROVE  \A k \in Keys : Holds(k)'
BY Zenon DEF Holds, ValueOf

\* A step that leaves the table alone keeps its cells apart.
LEMMA CellsKept ==
  ASSUME CellsInv, Plain, Plain', table' = table,
         WfCell(rec'.mapped), rec'.mapped.val # Absent, WfCell(rec'.temp)
  PROVE  CellsInv'
<1>1. Target = table /\ Target' = table
  BY PlainTable, Zenon
<1> QED BY <1>1, Zenon DEF CellsInv

\* A step that leaves the cells, the record's string and the heap alone keeps the counts.
LEMMA CountsKept ==
  ASSUME CountInv, Plain, Plain', table' = table, heap' = heap, rec'.mapped = rec.mapped, orphan' = orphan,
         pc \notin {"unassign", "clear_cell", "assign", "own", "destroy", "pin_fixed", "down"},
         pc' \notin {"unassign", "clear_cell", "assign", "own", "destroy", "pin_fixed"}
  PROVE  CountInv'
<1>1. \A a \in Blocks : InTable(a)' <=> InTable(a)
  BY PlainTable, Zenon DEF InCells
<1>2. \A a \in Blocks : /\ (InRecord(a)' <=> InRecord(a)) /\ ~InCall(a) /\ ~InCall(a)'
                        /\ ~InLoose(a) /\ ~InLoose(a)'
  BY Zenon DEF InRecord, InCall, InLoose
<1> QED BY <1>1, <1>2 DEF CountInv, One

-----------------------------------------------------------------------------
(* Records and arguments *)

\* The types of the record and of the arguments.
LEMMA FieldTypes ==
  ASSUME TypeOK
  PROVE  /\ rec \in Record /\ op \in Args
         /\ op.size \in Int /\ op.key \in KeyRef /\ op.val \in Seq(Bytes) /\ op.ctl \in Seq(Nat)
         /\ rec.key \in KeyRef /\ rec.ctl \in Seq(Nat)
<1>1. rec \in Record /\ op \in Args
  BY Zenon DEF TypeOK
<1>2. op.size \in Int /\ op.key \in KeyRef /\ op.val \in Seq(Bytes) /\ op.ctl \in Seq(Nat)
  BY <1>1, Zenon DEF Args
<1>3. rec.key \in KeyRef /\ rec.ctl \in Seq(Nat)
  BY <1>1, Zenon DEF Record
<1> QED BY <1>1, <1>2, <1>3, Zenon

\* The arguments of a call.
LEMMA ArgsMade ==
  ASSUME NEW n \in Int, NEW k \in KeyRef, NEW v \in Seq(Bytes), NEW s \in Seq(Nat),
         NEW b \in Blocks \cup {NoBlock}
  PROVE  [size |-> n, key |-> k, val |-> v, ctl |-> s, blk |-> b] \in Args
BY Zenon DEF Args

\* No call, and no change, have the types of one.
LEMMA NothingTyped ==
  /\ NoOp \in Args /\ EmptyRecord \in Record /\ NoKey \in KeyRef
  /\ EmptyRecord.mapped = Empty /\ EmptyRecord.temp = Empty /\ EmptyRecord.size = 0
<1>1. <<>> \in Seq(Bytes) /\ <<>> \in Seq(Nat) /\ NoKey \in KeyRef /\ NoBlock \in Blocks \cup {NoBlock}
  BY DEF KeyRef
<1>2. NoOp \in Args
  BY <1>1 DEF NoOp, Args
<1>3. Empty \in Cell
  BY <1>1, Zenon DEF Empty, Inline, Cell
<1>4. EmptyRecord \in Record
  BY <1>1, <1>3 DEF EmptyRecord, Record
<1> QED BY <1>1, <1>2, <1>4, Zenon DEF EmptyRecord

-----------------------------------------------------------------------------
(* Cells, blocks and counts *)

\* The absent key is the only cell whose value is Absent.
LEMMA MissingCell ==
  ASSUME NEW c, WfCell(c)
  PROVE  (c = Missing) <=> (~c.out /\ c.val = Absent)
BY DEF WfCell, Cell, Missing, Inline

\* The empty string is inline and refers to no block; neither does the absent key.
LEMMA EmptyCell ==
  /\ <<>> \in Seq(Bytes) /\ <<>> \in Seq(Nat)
  /\ WfCell(Empty) /\ ~Empty.out /\ Empty.val = <<>> /\ Empty.val # Absent
  /\ WfCell(Missing) /\ ~Missing.out /\ Missing.val = Absent
  /\ \A a \in Blocks : ~Refers(Empty, a) /\ ~Refers(Missing, a)
<1>1. <<>> \in Seq(Bytes) /\ <<>> \in Seq(Nat)
  OBVIOUS
<1>2. WfCell(Empty) /\ ~Empty.out /\ Empty.val = <<>> /\ Empty.val # Absent
  BY <1>1, AtomicRecordAssumption, Zenon DEF WfCell, Cell, Empty, Inline
<1>3. WfCell(Missing) /\ ~Missing.out /\ Missing.val = Absent
  BY Zenon DEF WfCell, Cell, Missing, Inline
<1> QED BY <1>1, <1>2, <1>3, Zenon DEF Refers

\* A key is missing exactly if its value is Absent.
LEMMA ValueAbsent ==
  ASSUME TypeOK, NEW c, WfCell(c)
  PROVE  (c = Missing) <=> (ValueOf(c) = Absent)
<1>1. CASE ~c.out
  BY <1>1, MissingCell, Zenon DEF ValueOf
<1>2. CASE c.out
  <2>1. ValueOf(c) \in Seq(Bytes)
    BY <1>2, EmptyCell, Zenon DEF TypeOK, Heap, ValueOf
  <2> QED BY <1>2, <2>1, MissingCell, AtomicRecordAssumption, Zenon
<1> QED BY <1>1, <1>2, Zenon

\* The values of puts are sequences of bytes.
LEMMA ValuesAreSequences == \A v \in Values : v \in Seq(Bytes)
<1> SUFFICES ASSUME NEW v \in Values PROVE v \in Seq(Bytes)
  BY Zenon
<1>1. PICK n \in Lengths : v \in [1 .. n -> Bytes]
  BY Zenon DEF Values
<1>2. n \in Nat
  BY AtomicRecordAssumption, Zenon
<1> QED BY <1>1, <1>2

\* dec_ref takes one reference, and the bytes go with the last one.
LEMMA DropEffect ==
  ASSUME TypeOK, NEW c, WfCell(c), Counted(c) => heap[c.blk].ref > 0
  PROVE  /\ DropRef(c) \in Heap
         /\ \A b \in Blocks : DropRef(c)[b].ref = heap[b].ref - One(Refers(c, b))
         /\ \A b \in Blocks : (Refers(c, b) /\ heap[b].ref = 1) \/ DropRef(c)[b].data = heap[b].data
<1>1. CASE ~Counted(c)
  <2>1. DropRef(c) = heap /\ heap \in Heap /\ \A b \in Blocks : ~Refers(c, b) /\ heap[b].ref \in Nat
    BY <1>1, Zenon DEF DropRef, Counted, Refers, TypeOK, Heap
  <2> QED BY <2>1 DEF One
<1>2. CASE Counted(c)
  <2>1. heap[c.blk] \in [ref : Nat, data : Seq(Bytes)] /\ c.blk \in Blocks /\ heap[c.blk].ref > 0
    BY <1>2, Zenon DEF Counted, TypeOK, Heap
  <2> DEFINE x == Dropped(heap[c.blk])
  <2>2. /\ x \in [ref : Nat, data : Seq(Bytes)] /\ x.ref = heap[c.blk].ref - 1
        /\ heap[c.blk].ref = 1 \/ x.data = heap[c.blk].data
    BY <2>1 DEF Dropped
  <2>3. DropRef(c) = [heap EXCEPT ![c.blk] = x]
    BY <1>2, Zenon DEF DropRef
  <2> HIDE DEF x
  <2>4. /\ DropRef(c) \in Heap
        /\ DropRef(c)[c.blk] = x
        /\ \A b \in Blocks : b # c.blk => DropRef(c)[b] = heap[b]
    BY <2>1, <2>2, <2>3, Zenon DEF TypeOK, Heap
  <2>5. \A b \in Blocks : heap[b].ref \in Nat
    BY Zenon DEF TypeOK, Heap
  <2>6. \A b \in Blocks : Refers(c, b) <=> b = c.blk
    BY <1>2, Zenon DEF Refers, Counted
  <2>7. ASSUME NEW b \in Blocks
        PROVE  /\ DropRef(c)[b].ref = heap[b].ref - One(Refers(c, b))
               /\ (Refers(c, b) /\ heap[b].ref = 1) \/ DropRef(c)[b].data = heap[b].data
    <3>1. CASE b = c.blk BY <3>1, <2>2, <2>4, <2>6, Zenon DEF One
    <3>2. CASE b # c.blk BY <3>2, <2>4, <2>5, <2>6 DEF One
    <3> QED BY <3>1, <3>2, Zenon
  <2> QED BY <2>4, <2>7, Zenon
<1> QED BY <1>1, <1>2, Zenon

\* free: the cell that gives up its block has a null pointer, or is as it was.
LEMMA ReleasedCell ==
  ASSUME NEW c, WfCell(c), c.val # Absent
  PROVE  /\ WfCell(Released(c)) /\ Released(c).val # Absent
         /\ \A b \in Blocks : Refers(Released(c), b) => Refers(c, b)
<1>1. WfCell(NullCell) /\ NullCell.val # Absent /\ \A b \in Blocks : ~Refers(NullCell, b)
  BY EmptyCell, AtomicRecordAssumption, Zenon DEF NullCell, Outline, WfCell, Cell, Refers
<1> QED BY <1>1, Zenon DEF Released

\* An allocation has one reference and leaves the other blocks alone.
LEMMA AllocEffect ==
  ASSUME TypeOK, NEW b \in Blocks, NEW v \in Seq(Bytes)
  PROVE  /\ Allocated(b, v) \in Heap
         /\ Allocated(b, v)[b].ref = 1 /\ Allocated(b, v)[b].data = v
         /\ \A a \in Blocks \ {b} : Allocated(b, v)[a] = heap[a]
BY Zenon DEF TypeOK, Heap, Allocated

\* inc_ref adds one reference.
LEMMA AddEffect ==
  ASSUME TypeOK, NEW c, WfCell(c)
  PROVE  /\ AddRef(c) \in Heap
         /\ \A b \in Blocks : AddRef(c)[b].ref = heap[b].ref + One(Refers(c, b))
         /\ \A b \in Blocks : AddRef(c)[b].data = heap[b].data
<1>1. CASE ~Counted(c)
  <2>1. AddRef(c) = heap /\ heap \in Heap /\ \A b \in Blocks : ~Refers(c, b) /\ heap[b].ref \in Nat
    BY <1>1, Zenon DEF AddRef, Counted, Refers, TypeOK, Heap
  <2> QED BY <2>1 DEF One
<1>2. CASE Counted(c)
  <2>1. heap[c.blk] \in [ref : Nat, data : Seq(Bytes)] /\ c.blk \in Blocks
    BY <1>2, Zenon DEF Counted, TypeOK, Heap
  <2> DEFINE x == [heap[c.blk] EXCEPT !.ref = @ + 1]
  <2>2. x \in [ref : Nat, data : Seq(Bytes)] /\ x.ref = heap[c.blk].ref + 1 /\ x.data = heap[c.blk].data
    BY <2>1
  <2>3. AddRef(c) = [heap EXCEPT ![c.blk] = x]
    BY <1>2, Zenon DEF AddRef
  <2> HIDE DEF x
  <2>4. /\ AddRef(c) \in Heap
        /\ AddRef(c)[c.blk] = x
        /\ \A b \in Blocks : b # c.blk => AddRef(c)[b] = heap[b]
    BY <2>1, <2>2, <2>3 DEF TypeOK, Heap
  <2>5. \A b \in Blocks : heap[b].ref \in Nat
    BY Zenon DEF TypeOK, Heap
  <2>6. \A b \in Blocks : One(Refers(c, b)) = IF b = c.blk THEN 1 ELSE 0
    BY <1>2, Zenon DEF Refers, One, Counted
  <2>7. ASSUME NEW b \in Blocks
        PROVE  /\ AddRef(c)[b].ref = heap[b].ref + One(Refers(c, b))
               /\ AddRef(c)[b].data = heap[b].data
    <3>1. CASE b = c.blk BY <3>1, <2>2, <2>4, <2>6, Zenon
    <3>2. CASE b # c.blk BY <3>2, <2>4, <2>5, <2>6
    <3> QED BY <3>1, <3>2, Zenon
  <2> QED BY <2>4, <2>7, Zenon
<1> QED BY <1>1, <1>2, Zenon

\* A free block is not referred to, and a block that two refer to is counted twice.
LEMMA CountsMean ==
  ASSUME CountInv, pc # "down", NEW b \in Blocks
  PROVE  /\ heap[b].ref = 0 => ~InTable(b) /\ ~InRecord(b) /\ ~InCall(b) /\ ~InLoose(b) /\ b # orphan
         /\ InTable(b) \/ InRecord(b) \/ InLoose(b) => heap[b].ref > 0
         /\ InTable(b) /\ (InRecord(b) \/ InLoose(b)) => heap[b].ref > 1
BY DEF CountInv, One

\* The references that reconstitute counts: of the table, the record and the loose content.
LEMMA CountReferences ==
  ASSUME SmallCardinals, CellsInv, Target = table, NEW b \in Blocks
  PROVE  References(b) = One(InCells(b)) + One(Refers(rec.mapped, b)) + One(Refers(loose, b))
<1> DEFINE K == {k \in Keys : Refers(table[k], b)}
<1>1. Cardinality(K) = One(InCells(b))
  <2>1. CASE K = {}
    BY <2>1, Zenon DEF SmallCardinals, InCells, One
  <2>2. CASE K # {}
    <3>1. PICK k \in Keys : k \in K
      BY <2>2, Zenon
    <3>2. K = {k}
      BY <3>1, Zenon DEF CellsInv
    <3>3. Cardinality(K) = 1
      BY <3>2, Zenon DEF SmallCardinals
    <3> QED BY <3>1, <3>3, Zenon DEF InCells, One
  <2> QED BY <2>1, <2>2, Zenon
<1>2. References(b) = Cardinality(K) + One(Refers(rec.mapped, b)) + One(Refers(loose, b))
  BY Zenon DEF References, One
<1> QED BY <1>1, <1>2, Zenon

-----------------------------------------------------------------------------
(* What an update makes of a value *)

\* The last writer of a byte that is written.
LEMMA LastWriterMax ==
  ASSUME GreatestExists, NEW u, NEW n \in Nat, DOMAIN u.dst = 1 .. n, NEW o, Writers(u, o) # {}
  PROVE  /\ LastWriter(u, o) \in 1 .. n /\ u.dst[LastWriter(u, o)] = o
         /\ \A m \in 1 .. n : u.dst[m] = o => m <= LastWriter(u, o)
<1>1. Writers(u, o) \subseteq 1 .. n
  BY Zenon DEF Writers
<1>2. \E x \in Writers(u, o) : \A y \in Writers(u, o) : y <= x
  <2>1. Writers(u, o) \in SUBSET (1 .. n)
    BY <1>1, Zenon
  <2> QED BY <2>1, Zenon DEF GreatestExists
<1>3. /\ LastWriter(u, o) \in Writers(u, o)
      /\ \A y \in Writers(u, o) : y <= LastWriter(u, o)
  BY <1>2, Zenon DEF LastWriter
<1> QED BY <1>1, <1>3, Zenon DEF Writers

\* An update keeps the length of a value and writes bytes.
LEMMA WrittenType ==
  ASSUME GreatestExists, NEW v \in Seq(Bytes), NEW u, NEW n \in Nat, DOMAIN u.dst = 1 .. n,
         u.src \in Seq(Bytes), Len(u.src) = n
  PROVE  Written(v, u) \in Seq(Bytes) /\ DOMAIN Written(v, u) = DOMAIN v
<1>1. ASSUME NEW o \in DOMAIN v
      PROVE  (IF Writers(u, o) = {} THEN v[o] ELSE u.src[LastWriter(u, o)]) \in Bytes
  <2>1. CASE Writers(u, o) = {}
    BY <2>1
  <2>2. CASE Writers(u, o) # {}
    <3>1. LastWriter(u, o) \in 1 .. n
      BY <2>2, LastWriterMax, Zenon
    <3> QED BY <2>2, <3>1
  <2> QED BY <2>1, <2>2, Zenon
<1>2. DOMAIN v = 1 .. Len(v) /\ Len(v) \in Nat
  OBVIOUS
<1>3. Written(v, u) \in [1 .. Len(v) -> Bytes]
  BY <1>1, <1>2, Zenon DEF Written
<1> QED BY <1>2, <1>3

\* An entry that is made again, or early, does not change the result.
LEMMA WrittenAgain ==
  ASSUME NEW v, NEW u, NEW n \in DOMAIN u.dst, NEW x
  PROVE  Written([v EXCEPT ![u.dst[n]] = x], u) = Written(v, u)
<1> DEFINE w == [v EXCEPT ![u.dst[n]] = x]
<1>1. DOMAIN w = DOMAIN v
  BY Zenon
<1>2. \A o \in DOMAIN v : Writers(u, o) = {} => w[o] = v[o]
  BY Zenon DEF Writers
<1> QED BY <1>1, <1>2, Zenon DEF Written

\* A value in which the last entry for each byte has been made is the result.
LEMMA WrittenDone ==
  ASSUME GreatestExists, NEW v \in Seq(Bytes), NEW u, NEW n \in Nat, DOMAIN u.dst = 1 .. n,
         \A m \in 1 .. n : (\A l \in m + 1 .. n : u.dst[l] # u.dst[m]) => v[u.dst[m]] = u.src[m]
  PROVE  Written(v, u) = v
<1>1. ASSUME NEW o \in DOMAIN v, Writers(u, o) # {}
      PROVE  u.src[LastWriter(u, o)] = v[o]
  <2> DEFINE m == LastWriter(u, o)
  <2>1. m \in 1 .. n /\ u.dst[m] = o /\ \A l \in 1 .. n : u.dst[l] = o => l <= m
    BY <1>1, LastWriterMax, Zenon
  <2> HIDE DEF m
  <2>2. \A l \in m + 1 .. n : u.dst[l] # u.dst[m]
    BY <2>1
  <2>3. v[u.dst[m]] = u.src[m]
    BY <2>1, <2>2, Zenon
  <2> QED BY <2>1, <2>3, Zenon DEF m
<1>2. v = [o \in DOMAIN v |-> v[o]]
  OBVIOUS
<1> QED BY <1>1, <1>2, Zenon DEF Written

\* A cell keeps its bytes when a reference is dropped, unless it was the last one to them.
LEMMA DropKeeps ==
  ASSUME TypeOK, NEW c, WfCell(c), Counted(c) => heap[c.blk].ref > 0,
         NEW d, Counted(c) /\ Refers(d, c.blk) => heap[c.blk].ref > 1
  PROVE  Counted(d) => DropRef(c)[d.blk].data = heap[d.blk].data
<1> SUFFICES ASSUME Counted(d) PROVE DropRef(c)[d.blk].data = heap[d.blk].data
  BY Zenon
<1>1. d.blk \in Blocks
  BY Zenon DEF Counted
<1>2. ~(Refers(c, d.blk) /\ heap[d.blk].ref = 1)
  BY DEF Refers, Counted
<1> QED BY <1>1, <1>2, DropEffect, Zenon

\* The record after the release of its string.
LEMMA MappedReleased ==
  ASSUME TypeOK, CellsInv, rec' = [rec EXCEPT !.mapped = Released(@)]
  PROVE  /\ rec' \in Record /\ rec'.size = rec.size /\ rec'.temp = rec.temp
         /\ WfCell(rec'.mapped) /\ rec'.mapped.val # Absent
<1>1. rec \in Record /\ WfCell(rec.mapped) /\ rec.mapped.val # Absent
  BY FieldTypes, Zenon DEF CellsInv
<1> DEFINE c == Released(rec.mapped)
<1>2. WfCell(c) /\ c.val # Absent /\ c \in Cell
  BY <1>1, ReleasedCell, Zenon DEF WfCell
<1>3. rec' = [rec EXCEPT !.mapped = c]
  BY Zenon
<1> HIDE DEF c
<1> QED BY <1>1, <1>2, <1>3, Zenon DEF Record

\* The release of the record's string: a key that has the same block keeps it.
LEMMA MappedDrop ==
  ASSUME IInv, pc \in {"idle", "clear"}, pc' \in {"unassign", "clear_cell"},
         heap' = DropRef(rec.mapped), rec' = [rec EXCEPT !.mapped = Released(@)],
         UNCHANGED <<table, i, up, committed, crashes, loose, orphan>>
  PROVE  /\ heap' \in Heap /\ rec' \in Record
         /\ CellsInv' /\ LooseInv' /\ CountInv' /\ PcInv' /\ TableInv' /\ PendingInv' /\ SwapInv'
         /\ ProgressInv' /\ MeaningInv'
<1> DEFINE c == rec.mapped
<1>1. TypeOK /\ CellsInv /\ CountInv /\ PcInv /\ MeaningInv
  BY Parts, Zenon
<1>2. WfCell(c) /\ \A j \in Keys : WfCell(table[j])
  BY <1>1, Zenon DEF CellsInv
<1>3. rec.size = 0 /\ Plain /\ Plain' /\ pc # "down" /\ pc' \in Calm
  BY <1>1, CalmStates, Zenon DEF PcInv, Plain
<1>4. \A j \in Keys : Holds(j)
  BY <1>1, <1>3, Zenon DEF MeaningInv, Pinning
<1>5. \A a \in Blocks : /\ (InRecord(a) <=> Refers(c, a)) /\ ~InRecord(a)' /\ ~InCall(a) /\ ~InCall(a)'
                        /\ ~InLoose(a) /\ ~InLoose(a)'
  BY Zenon DEF InRecord, InCall, InLoose
<1>6. Counted(c) => heap[c.blk].ref > 0
  BY <1>1, <1>2, <1>3, <1>5, CountsMean, Zenon DEF Counted, Refers
<1>7. heap' \in Heap /\ \A a \in Blocks : heap'[a].ref = heap[a].ref - One(Refers(c, a))
  BY <1>1, <1>2, <1>6, DropEffect, Zenon
<1>8. rec' \in Record /\ rec'.size = 0 /\ rec'.temp = rec.temp /\ WfCell(rec'.mapped) /\ rec'.mapped.val # Absent
  BY <1>1, <1>3, MappedReleased, Zenon
<1>9. CellsInv'
  BY <1>1, <1>3, <1>8, CellsKept, Zenon DEF CellsInv
<1>10. CountInv'
  <2>1. \A a \in Blocks : InTable(a)' <=> InTable(a)
    BY <1>3, PlainTable, Zenon DEF InCells
  <2> QED BY <1>1, <1>3, <1>5, <1>7, <2>1 DEF CountInv, One
<1>11. ASSUME NEW j \in Keys PROVE Holds(j)'
  <2>1. \A a \in Blocks : Refers(table[j], a) => InTable(a)
    BY <1>3, PlainTable, Zenon DEF InCells
  <2>2. Counted(c) /\ Refers(table[j], c.blk) => heap[c.blk].ref > 1
    BY <1>1, <1>2, <1>3, <1>5, <2>1, CountsMean, Zenon DEF Counted, Refers
  <2>3. Counted(table[j]) => heap'[table[j].blk].data = heap[table[j].blk].data
    BY <1>1, <1>2, <1>6, <2>2, DropKeeps, Zenon
  <2> QED BY <1>4, <2>3, HoldsKept, Zenon
<1>12. LooseInv' /\ TableInv'
  BY Aside, Zenon
<1> QED BY <1>3, <1>7, <1>8, <1>9, <1>10, <1>11, <1>12, Quiet, Zenon

-----------------------------------------------------------------------------
(* What the invariant means *)

\* A pending replacement, redone, makes the table what became pending.
LEMMA ReplaceRedone ==
  ASSUME IInv, rec.size = -1
  PROVE  Redone = committed
<1> DEFINE key == rec.key
           v == ValueOf(rec.mapped)
<1>1. PendingInv /\ MeaningInv /\ committed = [k \in Keys |-> committed[k]]
  BY Parts, Zenon DEF TypeOK
<1>2. key \in Keys
  BY <1>1, Zenon DEF PendingInv
<1>3. (\A k \in Keys \ {key} : Holds(k)) /\ committed[key] = v
  BY <1>1, Zenon DEF MeaningInv
<1>4. Redone = [Contents EXCEPT ![key] = v]
  BY DEF Redone
<1> HIDE DEF v, key
<1>5. Redone = [k \in Keys |-> IF k = key THEN v ELSE ValueOf(table[k])]
  BY <1>2, <1>4, Zenon DEF Contents
<1>6. \A k \in Keys : (IF k = key THEN v ELSE ValueOf(table[k])) = committed[k]
  BY <1>3, Zenon DEF Holds
<1> QED BY <1>1, <1>5, <1>6

\* A pending update, redone from wherever it was, makes the table what became pending.
LEMMA UpdateRedone ==
  ASSUME IInv, rec.size > 0
  PROVE  Redone = committed
<1> DEFINE key == rec.key
<1>1. /\ TypeOK /\ CellsInv /\ PcInv /\ PendingInv /\ MeaningInv
      /\ committed = [k \in Keys |-> committed[k]]
  BY Parts, Zenon DEF TypeOK
<1>2. rec.size \notin {0, -1}
  BY <1>1 DEF PcInv, Sizes
<1>3. key \in Keys
  BY <1>1, Zenon DEF PendingInv
<1>4. /\ \A k \in Keys \ {key} : Holds(k)
      /\ table[key] = Missing => committed[key] = Absent
      /\ table[key] # Missing => Written(ValueOf(table[key]), Change) = committed[key]
  BY <1>1, Zenon DEF MeaningInv
<1>5. CASE table[key] = Missing
  <2>1. Redone = Contents
    BY <1>2, <1>5, Zenon DEF Redone
  <2>2. Holds(key)
    BY <1>1, <1>3, <1>4, <1>5, ValueAbsent DEF CellsInv, Holds
  <2> QED BY <1>1, <1>4, <2>1, <2>2 DEF Contents, Holds
<1>6. CASE table[key] # Missing
  <2> DEFINE w == Written(ValueOf(table[key]), Change)
  <2>1. Redone = [Contents EXCEPT ![key] = Written(Contents[key], Change)]
    BY <1>2, <1>6, Zenon DEF Redone, Change
  <2>2. Contents[key] = ValueOf(table[key])
    BY <1>3, Zenon DEF Contents
  <2>3. Redone = [Contents EXCEPT ![key] = w]
    BY <2>1, <2>2, Zenon
  <2>4. w = committed[key]
    BY <1>4, <1>6, Zenon
  <2> HIDE DEF w, key
  <2>5. Redone = [k \in Keys |-> IF k = key THEN w ELSE ValueOf(table[k])]
    BY <1>3, <2>3, Zenon DEF Contents
  <2>6. \A k \in Keys : (IF k = key THEN w ELSE ValueOf(table[k])) = committed[k]
    BY <1>4, <2>4, Zenon DEF Holds
  <2> QED BY <1>1, <2>5, <2>6, Zenon
<1> QED BY <1>5, <1>6, Zenon

\* The record and the table mean what became pending, written as one function.
LEMMA MeansCommitted ==
  ASSUME IInv
  PROVE  Restartable /\ AllOrNothing
<1>1. PcInv /\ MeaningInv /\ committed = [k \in Keys |-> committed[k]]
  BY Parts, Zenon DEF TypeOK
<1>2. rec.size \in {-2, -1} \cup Nat /\ (pc = "idle" => rec.size = 0)
  BY <1>1, CalmStates, Zenon DEF PcInv, Sizes
<1>3. rec.size = 0 /\ pc \notin {"pin", "pin_fixed"} => Contents = committed
  BY <1>1, Zenon DEF MeaningInv, Holds, Contents, Pinning
<1>4. rec.size = 0 => Redone = Contents
  BY DEF Redone
<1>5. rec.size # -2 /\ pc \notin {"pin", "pin_fixed"} => Redone = committed
  BY <1>2, <1>3, <1>4, ReplaceRedone, UpdateRedone, SMTT(30)
<1> QED BY <1>2, <1>3, <1>5 DEF Restartable, AllOrNothing

\* Between calls the counts are the numbers of references, and one for the orphan.
LEMMA CountsAreReferences ==
  ASSUME SmallCardinals, IInv
  PROVE  CountsExact
<1> SUFFICES ASSUME pc = "idle", NEW b \in Blocks
             PROVE  heap[b].ref = References(b) + (IF b = orphan THEN 1 ELSE 0)
  BY Zenon DEF CountsExact
<1>1. CellsInv /\ CountInv /\ LooseInv /\ Plain /\ Target = table
  BY Parts, Zenon DEF Plain, Target
<1>2. References(b) = One(InCells(b)) + One(Refers(rec.mapped, b)) + One(Refers(loose, b))
  BY <1>1, CountReferences, Zenon
<1>3. /\ InTable(b) <=> InCells(b)
      /\ InRecord(b) <=> Refers(rec.mapped, b)
      /\ ~InCall(b) /\ ~InLoose(b)
  BY <1>1, PlainTable, Zenon DEF InRecord, InCall, InLoose
<1>4. ~Refers(loose, b)
  BY <1>1, EmptyCell, Zenon DEF LooseInv, Owning
<1> QED BY <1>1, <1>2, <1>3, <1>4 DEF CountInv, One

-----------------------------------------------------------------------------
(* The initial state and the calls of the table *)

\* An empty table with an empty record satisfies the invariant.
LEMMA InitInv == Init => IInv
<1> SUFFICES ASSUME Init PROVE IInv
  BY Zenon
<1>1. /\ table = [k \in Keys |-> Missing] /\ heap = [b \in Blocks |-> [ref |-> 0, data |-> <<>>]]
      /\ rec = EmptyRecord /\ pc = "idle" /\ op = NoOp /\ i = 1 /\ up = TRUE
      /\ loose = Missing /\ orphan = NoBlock
      /\ committed = [k \in Keys |-> Absent] /\ crashes = 0
  BY Zenon DEF Init
<1>2. (\A k \in Keys : table[k] = Missing) /\ rec.mapped = Empty /\ rec.temp = Empty /\ rec.size = 0
  BY <1>1, NothingTyped, Zenon
<1>3. TypeOK
  <2>1. table \in [Keys -> Cell] /\ heap \in Heap /\ loose \in Cell
    BY <1>1, EmptyCell, Zenon DEF WfCell, Heap
  <2> QED BY <1>1, <2>1, NothingTyped, Zenon DEF TypeOK, Pcs
<1>4. Target = table /\ \A b : InTable(b) <=> InCells(b)
  BY <1>1, PlainTable, Zenon DEF Plain
<1>5. CellsInv /\ LooseInv
  BY <1>1, <1>2, <1>4, EmptyCell, Zenon DEF CellsInv, LooseInv
<1>6. CountInv
  <2>1. \A b \in Blocks : ~InTable(b) /\ ~InRecord(b) /\ ~InCall(b) /\ ~InLoose(b) /\ b # orphan
    BY <1>1, <1>2, <1>4, EmptyCell, AtomicRecordAssumption, Zenon DEF InCells, InRecord, InCall, InLoose
  <2> QED BY <1>1, <2>1 DEF CountInv, One
<1>7. \A k \in Keys : Holds(k)
  BY <1>1, <1>2, EmptyCell, Zenon DEF Holds, ValueOf
<1>8. PcInv /\ CallInv /\ TableInv
  BY <1>1, <1>2 DEF PcInv, Sizes, CallInv, TableInv, Pinning
<1>9. PendingInv /\ SwapInv
  BY <1>1, <1>2 DEF PendingInv, SwapInv
<1>10. ProgressInv /\ MeaningInv
  BY <1>1, <1>2, <1>7 DEF ProgressInv, MeaningInv
<1> QED BY <1>3, <1>5, <1>6, <1>8, <1>9, <1>10, Parts, Zenon

\* Where no value is being pinned and nothing is pending the table holds what the calls made.
LEMMA IdleMeans ==
  ASSUME IInv, pc \in {"idle", "own", "destroy", "unmark"}
  PROVE  rec.size = 0 /\ Plain /\ Target = table /\ \A k \in Keys : Holds(k)
<1>1. PcInv /\ MeaningInv
  BY Parts, Zenon
<1>2. rec.size = 0
  BY <1>1, CalmStates, Zenon DEF PcInv
<1>3. \A k \in Keys : Holds(k)
  BY <1>1, <1>2, Zenon DEF MeaningInv, Pinning
<1> QED BY <1>2, <1>3, Zenon DEF Plain, Target

\* What a call of the table owes that leaves the record alone.
LEMMA IdleStep ==
  ASSUME rec.size = 0, rec' = rec, pc' \in {"idle", "destroy", "unmark"},
         TypeOK', CellsInv', LooseInv', CountInv', \A k \in Keys : Holds(k)'
  PROVE  IInv'
<1>1. pc' \in Calm
  BY CalmStates, Zenon
<1> QED BY <1>1, Quiet, Parts, Zenon

\* The arguments of insert and pin.
LEMMA KeyArgs ==
  ASSUME NEW k \in Keys, NEW v \in Seq(Bytes)
  PROVE  [NoOp EXCEPT !.key = k, !.val = v] \in Args
<1> DEFINE o == NoOp
<1>1. o \in [size : Int, key : KeyRef, val : Seq(Bytes), ctl : Seq(Nat), blk : Blocks \cup {NoBlock}]
  BY NothingTyped, Zenon DEF Args
<1> HIDE DEF o
<1>2. [o EXCEPT !.key = k, !.val = v] \in [size : Int, key : KeyRef, val : Seq(Bytes), ctl : Seq(Nat),
                                          blk : Blocks \cup {NoBlock}]
  BY <1>1, Zenon DEF KeyRef
<1> QED BY <1>2, Zenon DEF o, Args

\* emplace makes a content with a new value, in a block nobody uses.
LEMMA InsertInv ==
  ASSUME IInv, NEW k \in Keys, NEW v \in Values, NEW b \in Blocks, Insert(k, v, b)
  PROVE  IInv'
<1> DEFINE c == Placed(v, b)
<1>1. TypeOK /\ CellsInv /\ CountInv
  BY Parts, Zenon
<1>2. /\ pc = "idle" /\ pc' = "own" /\ table[k] = Missing
      /\ Len(v) >= SmallLimit => heap[b].ref = 0
      /\ loose' = c
      /\ heap' = IF Len(v) < SmallLimit THEN heap ELSE Allocated(b, v)
      /\ op' = [NoOp EXCEPT !.key = k, !.val = v]
      /\ UNCHANGED <<table, rec, i, up, orphan, committed, crashes>>
  BY Zenon DEF Insert, FreeBlocks
<1>3. v \in Seq(Bytes) /\ Len(v) \in Nat /\ SmallLimit \in Nat
  BY ValuesAreSequences, AtomicRecordAssumption
<1>4. /\ WfCell(c) /\ c.val \in Seq(Bytes)
      /\ ~c.out => c.val = v /\ Len(v) < SmallLimit
      /\ c.out => c.blk = b /\ ~(Len(v) < SmallLimit)
  BY <1>3, EmptyCell, Zenon DEF WfCell, Cell, Placed, Inline, Outline
<1> HIDE DEF c
<1>5. c.out => heap[b].ref = 0
  BY <1>2, <1>3, <1>4
<1>6. Plain /\ Plain' /\ Target = table /\ rec.size = 0 /\ \A j \in Keys : Holds(j)
  BY <1>2, IdleMeans, Zenon DEF Plain
<1>7. op' \in Args /\ op'.key = k /\ op'.val = v
  BY <1>2, <1>3, KeyArgs, Zenon DEF NoOp
<1>8. /\ heap' \in Heap /\ \A a \in Blocks \ {b} : heap'[a] = heap[a]
      /\ c.out => heap'[b].ref = 1 /\ heap'[b].data = v
      /\ ~c.out => heap' = heap
  <2>1. CASE c.out BY <1>1, <1>2, <1>3, <1>4, <2>1, AllocEffect, SMTT(30)
  <2>2. CASE ~c.out BY <1>1, <1>2, <1>4, <2>2, Zenon DEF TypeOK
  <2> QED BY <2>1, <2>2, Zenon
<1>9. c.out => ~InTable(b) /\ ~InRecord(b) /\ b # orphan /\ \A j \in Keys : ~Refers(table[j], b)
  BY <1>1, <1>2, <1>5, <1>6, CountsMean, PlainTable, Zenon DEF InCells
<1>10. \A a \in Blocks : Refers(c, a) <=> c.out /\ a = b
  BY <1>4, Zenon DEF Refers
<1>11. TypeOK'
  BY <1>1, <1>2, <1>4, <1>7, <1>8, Zenon DEF TypeOK, Pcs, WfCell
<1>12. CellsInv' /\ LooseInv'
  BY <1>1, <1>2, <1>4, <1>6, CellsKept, Zenon DEF CellsInv, LooseInv, Owning
<1>13. CountInv'
  <2>1. \A a \in Blocks : InTable(a)' <=> InTable(a)
    BY <1>2, <1>6, PlainTable, Zenon DEF InCells
  <2>2. \A a \in Blocks : /\ (InRecord(a)' <=> InRecord(a)) /\ ~InCall(a) /\ ~InCall(a)' /\ ~InLoose(a)
                          /\ InLoose(a)' <=> c.out /\ a = b
    BY <1>2, <1>10, Zenon DEF InRecord, InCall, InLoose, Refers
  <2> QED BY <1>1, <1>2, <1>5, <1>8, <1>9, <2>1, <2>2, SMTT(30) DEF CountInv, One
<1>14. ASSUME NEW j \in Keys PROVE Holds(j)'
  <2>1. Counted(table[j]) => heap'[table[j].blk] = heap[table[j].blk]
    BY <1>8, <1>9, Zenon DEF Counted, Refers
  <2> QED BY <1>2, <1>6, <2>1, HoldsKept, Zenon
<1>15. TableInv'
  <2>1. ValueOf(loose)' = v
    BY <1>2, <1>4, <1>8, Zenon DEF ValueOf
  <2>2. \A j \in Keys : NotIn(loose, j)'
    BY <1>2, <1>4, <1>9, Zenon DEF NotIn, Counted, Refers
  <2> QED BY <1>2, <1>7, <2>1, <2>2 DEF TableInv, Pinning
<1>16. pc' \in Calm
  BY <1>2, CalmStates, Zenon
<1> QED BY <1>2, <1>6, <1>11, <1>12, <1>13, <1>14, <1>15, <1>16, Quiet, Parts, Zenon

\* The owner: the key is in the table, with the only cell of its block.
LEMMA InsertOwnerInv ==
  ASSUME IInv, InsertOwner
  PROVE  IInv'
<1> DEFINE k == op.key
<1>1. TypeOK /\ CellsInv /\ CountInv /\ LooseInv
  BY Parts, Zenon
<1>2. /\ pc = "own" /\ pc' = "idle" /\ loose' = Missing /\ op' = NoOp
      /\ table' = [table EXCEPT ![k] = loose] /\ committed' = [committed EXCEPT ![k] = op.val]
      /\ UNCHANGED <<heap, rec, i, up, orphan, crashes>>
  BY Zenon DEF InsertOwner
<1>3. k \in Keys /\ ValueOf(loose) = op.val /\ (\A j \in Keys : NotIn(loose, j)) /\ op.val \in Seq(Bytes)
  BY <1>1, <1>2, Parts, FieldTypes, Zenon DEF TableInv
<1>4. WfCell(loose) /\ loose \in Cell
  BY <1>1, Zenon DEF LooseInv, WfCell
<1>5. Plain /\ Plain' /\ Target = table /\ Target' = table' /\ rec.size = 0 /\ \A j \in Keys : Holds(j)
  BY <1>2, IdleMeans, PlainTable, Zenon DEF Plain
<1> HIDE DEF k
<1>6. table' \in [Keys -> Cell] /\ table'[k] = loose /\ \A j \in Keys \ {k} : table'[j] = table[j]
  BY <1>1, <1>2, <1>3, <1>4, Zenon DEF TypeOK
<1>7. /\ committed' \in [Keys -> Seq(Bytes) \cup {Absent}] /\ committed'[k] = op.val
      /\ \A j \in Keys \ {k} : committed'[j] = committed[j]
  BY <1>1, <1>2, <1>3, Zenon DEF TypeOK
<1>8. \A c : ValueOf(c)' = ValueOf(c)
  BY <1>2, Zenon DEF ValueOf
<1>9. table[k] = Missing
  BY <1>2, <1>3, Parts, Zenon DEF TableInv, k
<1>10. TypeOK'
  BY <1>1, <1>2, <1>6, <1>7, NothingTyped, EmptyCell, Zenon DEF TypeOK, Pcs, WfCell
<1>11. \A j \in Keys, a \in Blocks : ~(Refers(table[j], a) /\ Refers(loose, a))
  BY <1>3, Zenon DEF NotIn, Counted, Refers
<1>12. CellsInv'
  <2>1. \A j \in Keys : WfCell(table'[j])
    BY <1>1, <1>4, <1>6, Zenon DEF CellsInv
  <2>2. \A j, l \in Keys, a \in Blocks : Refers(table[j], a) /\ Refers(table[l], a) => j = l
    BY <1>1, <1>5, Zenon DEF CellsInv
  <2>3. \A j, l \in Keys, a \in Blocks : Refers(table'[j], a) /\ Refers(table'[l], a) => j = l
    BY <1>6, <1>11, <2>2, Zenon
  <2> QED BY <1>1, <1>2, <1>5, <2>1, <2>3, Zenon DEF CellsInv
<1>13. LooseInv'
  BY <1>2, EmptyCell, Zenon DEF LooseInv
<1>14. CountInv'
  <2>1. \A a \in Blocks : InTable(a)' <=> InTable(a) \/ Refers(loose, a)
    BY <1>3, <1>5, <1>6, <1>9, EmptyCell, PlainTable, Zenon DEF InCells
  <2>2. \A a \in Blocks : ~(InTable(a) /\ Refers(loose, a))
    BY <1>5, <1>11, PlainTable, Zenon DEF InCells
  <2>3. \A a \in Blocks : /\ (InRecord(a)' <=> InRecord(a)) /\ ~InCall(a) /\ ~InCall(a)' /\ ~InLoose(a)'
                          /\ InLoose(a) <=> Refers(loose, a)
    BY <1>2, Zenon DEF InRecord, InCall, InLoose
  <2> QED BY <1>1, <1>2, <2>1, <2>2, <2>3 DEF CountInv, One
<1>15. \A j \in Keys : Holds(j)'
  BY <1>3, <1>5, <1>6, <1>7, <1>8, Zenon DEF Holds
<1> QED BY <1>2, <1>5, <1>10, <1>12, <1>13, <1>14, <1>15, IdleStep, Zenon

\* erase: the owner gives the content up, with its block.
LEMMA EraseInv ==
  ASSUME IInv, NEW k \in Keys, Erase(k)
  PROVE  IInv'
<1> DEFINE c == table[k]
<1>1. TypeOK /\ CellsInv /\ CountInv
  BY Parts, Zenon
<1>2. /\ pc = "idle" /\ pc' = "destroy" /\ loose' = c
      /\ table' = [table EXCEPT ![k] = Missing] /\ committed' = [committed EXCEPT ![k] = Absent]
      /\ UNCHANGED <<heap, rec, op, i, up, orphan, crashes>>
  BY Zenon DEF Erase
<1>3. Plain /\ Plain' /\ Target = table /\ Target' = table' /\ rec.size = 0 /\ \A j \in Keys : Holds(j)
  BY <1>2, IdleMeans, PlainTable, Zenon DEF Plain
<1>4. table' \in [Keys -> Cell] /\ table'[k] = Missing /\ \A j \in Keys \ {k} : table'[j] = table[j]
  BY <1>1, <1>2, EmptyCell, Zenon DEF TypeOK, WfCell
<1>5. /\ committed' \in [Keys -> Seq(Bytes) \cup {Absent}] /\ committed'[k] = Absent
      /\ \A j \in Keys \ {k} : committed'[j] = committed[j]
  BY <1>1, <1>2, Zenon DEF TypeOK
<1>6. WfCell(c) /\ c \in Cell
  BY <1>1, Zenon DEF CellsInv, WfCell
<1>7. \A j \in Keys \ {k}, a \in Blocks : ~(Refers(table[j], a) /\ Refers(c, a))
  BY <1>1, <1>3, Zenon DEF CellsInv
<1>8. TypeOK'
  BY <1>1, <1>2, <1>4, <1>5, <1>6, Zenon DEF TypeOK, Pcs
<1>9. CellsInv'
  BY <1>1, <1>2, <1>3, <1>4, EmptyCell, Zenon DEF CellsInv
<1>10. LooseInv'
  BY <1>2, <1>6, Zenon DEF LooseInv, Owning
<1> HIDE DEF c
<1>11. CountInv'
  <2>1. \A a \in Blocks : /\ InTable(a)' <=> InTable(a) /\ ~Refers(c, a)
                          /\ Refers(c, a) => InTable(a)
    BY <1>3, <1>4, <1>7, EmptyCell, PlainTable, Zenon DEF InCells, c
  <2>2. \A a \in Blocks : /\ (InRecord(a)' <=> InRecord(a)) /\ ~InCall(a) /\ ~InCall(a)' /\ ~InLoose(a)
                          /\ InLoose(a)' <=> Refers(c, a)
    BY <1>2, Zenon DEF InRecord, InCall, InLoose, Refers
  <2> QED BY <1>1, <1>2, <2>1, <2>2 DEF CountInv, One
<1>12. Holds(k)'
  BY <1>4, <1>5, EmptyCell, Zenon DEF Holds, ValueOf
<1>13. ASSUME NEW j \in Keys \ {k} PROVE Holds(j)'
  BY <1>2, <1>3, <1>4, <1>5, HoldsKept, Zenon
<1> QED BY <1>2, <1>3, <1>8, <1>9, <1>10, <1>11, <1>12, <1>13, IdleStep, Zenon

\* The content is destroyed; a block that others refer to stays.
LEMMA EraseContentInv ==
  ASSUME IInv, EraseContent
  PROVE  IInv'
<1>1. TypeOK /\ CellsInv /\ CountInv /\ LooseInv
  BY Parts, Zenon
<1>2. /\ pc = "destroy" /\ pc' = "unmark" /\ heap' = DropRef(loose) /\ loose' = Released(loose)
      /\ UNCHANGED <<table, rec, op, i, up, orphan, committed, crashes>>
  BY Zenon DEF EraseContent
<1>3. Plain /\ Plain' /\ Target = table /\ rec.size = 0 /\ \A j \in Keys : Holds(j)
  BY <1>2, IdleMeans, Zenon DEF Plain
<1>4. WfCell(loose)
  BY <1>1, Zenon DEF LooseInv
<1>5. WfCell(loose') /\ loose' \in Cell
  <2>1. WfCell(NullCell)
    BY EmptyCell, Zenon DEF NullCell, Outline, WfCell, Cell
  <2> QED BY <1>2, <1>4, <2>1, Zenon DEF Released, WfCell
<1>6. \A a \in Blocks : /\ (InRecord(a)' <=> InRecord(a)) /\ ~InCall(a) /\ ~InCall(a)' /\ ~InLoose(a)'
                        /\ InLoose(a) <=> Refers(loose, a)
  BY <1>2, Zenon DEF InRecord, InCall, InLoose
<1>7. Counted(loose) => heap[loose.blk].ref > 0
  BY <1>1, <1>2, <1>6, CountsMean, Zenon DEF Counted, Refers
<1>8. heap' \in Heap /\ \A a \in Blocks : heap'[a].ref = heap[a].ref - One(Refers(loose, a))
  BY <1>1, <1>2, <1>4, <1>7, DropEffect, Zenon
<1>9. TypeOK'
  BY <1>1, <1>2, <1>5, <1>8, Zenon DEF TypeOK, Pcs
<1>10. CellsInv' /\ LooseInv'
  BY <1>1, <1>2, <1>3, <1>5, CellsKept, Zenon DEF CellsInv, LooseInv, Owning
<1>11. \A a \in Blocks : InTable(a)' <=> InTable(a)
  BY <1>2, <1>3, PlainTable, Zenon DEF InCells
<1>12. CountInv'
  BY <1>1, <1>2, <1>6, <1>8, <1>11 DEF CountInv, One
<1>13. ASSUME NEW j \in Keys PROVE Holds(j)'
  <2>1. \A a \in Blocks : Refers(table[j], a) => InTable(a)
    BY <1>3, PlainTable, Zenon DEF InCells
  <2>2. Counted(loose) /\ Refers(table[j], loose.blk) => heap[loose.blk].ref > 1
    BY <1>1, <1>2, <1>6, <2>1, CountsMean, Zenon DEF Counted, Refers
  <2>3. Counted(table[j]) => heap'[table[j].blk].data = heap[table[j].blk].data
    BY <1>1, <1>2, <1>4, <1>7, <2>2, DropKeeps, Zenon
  <2> QED BY <1>2, <1>3, <2>3, HoldsKept, Zenon
<1> QED BY <1>2, <1>3, <1>9, <1>10, <1>12, <1>13, IdleStep, Zenon

\* The content is free.
LEMMA EraseMarkInv ==
  ASSUME IInv, EraseMark
  PROVE  IInv'
<1>1. TypeOK /\ CellsInv /\ CountInv
  BY Parts, Zenon
<1>2. /\ pc = "unmark" /\ pc' = "idle" /\ loose' = Missing
      /\ UNCHANGED <<table, heap, rec, op, i, up, orphan, committed, crashes>>
  BY Zenon DEF EraseMark
<1>3. Plain /\ Plain' /\ rec.size = 0 /\ \A j \in Keys : Holds(j)
  BY <1>2, IdleMeans, Zenon DEF Plain
<1>4. TypeOK'
  BY <1>1, <1>2, EmptyCell, Zenon DEF TypeOK, Pcs, WfCell
<1>5. CellsInv' /\ LooseInv'
  BY <1>1, <1>2, <1>3, EmptyCell, CellsKept, Zenon DEF CellsInv, LooseInv
<1>6. CountInv'
  BY <1>1, <1>2, <1>3, CountsKept, Zenon
<1>7. \A j \in Keys : Holds(j)'
  BY <1>2, <1>3, AllKept, Zenon
<1> QED BY <1>2, <1>3, <1>4, <1>5, <1>6, <1>7, IdleStep, Zenon

\* An inline cell may have other bytes without a change to blocks, counts and other keys.
LEMMA InlineCell ==
  ASSUME IInv, pc = "idle", NEW k \in Keys, ~table[k].out, NEW w \in Seq(Bytes),
         table' = [table EXCEPT ![k] = Inline(w)], pc' = "pin",
         UNCHANGED <<loose, heap, rec, orphan, committed>>
  PROVE  /\ table' \in [Keys -> Cell] /\ ~table'[k].out /\ table'[k] # Missing
         /\ CellsInv' /\ CountInv' /\ \A j \in Keys \ {k} : Holds(j)'
<1> DEFINE c == Inline(w)
<1>1. TypeOK /\ CellsInv /\ CountInv
  BY Parts, Zenon
<1>2. Plain /\ Plain' /\ Target = table /\ Target' = table' /\ \A j \in Keys : Holds(j)
  BY IdleMeans, PlainTable, Zenon DEF Plain
<1>3. c \in Cell /\ WfCell(c) /\ ~c.out /\ c.val = w
  BY Zenon DEF Inline, Cell, WfCell
<1>4. c # Missing
  BY <1>3, AtomicRecordAssumption, EmptyCell, Zenon
<1> HIDE DEF c
<1>5. table' \in [Keys -> Cell] /\ table'[k] = c /\ \A j \in Keys \ {k} : table'[j] = table[j]
  BY <1>1, <1>3, Zenon DEF TypeOK, c
<1>6. \A j \in Keys, a \in Blocks : Refers(table'[j], a) <=> Refers(table[j], a)
  BY <1>3, <1>5, Zenon DEF Refers
<1>7. CellsInv'
  BY <1>1, <1>2, <1>3, <1>5, <1>6, Zenon DEF CellsInv
<1>8. CountInv'
  <2>1. \A a \in Blocks : InTable(a)' <=> InTable(a)
    BY <1>2, <1>6, PlainTable, Zenon DEF InCells
  <2>2. \A a \in Blocks : /\ (InRecord(a)' <=> InRecord(a)) /\ ~InCall(a) /\ ~InCall(a)'
                          /\ ~InLoose(a) /\ ~InLoose(a)'
    BY Zenon DEF InRecord, InCall, InLoose
  <2> QED BY <1>1, <2>1, <2>2 DEF CountInv, One
<1>9. \A j \in Keys \ {k} : Holds(j)'
  BY <1>2, <1>5, HoldsKept, Zenon
<1> QED BY <1>3, <1>4, <1>5, <1>7, <1>8, <1>9, Zenon

\* pin overwrites the bytes of an inline value, which the call keeps.
LEMMA PinInv ==
  ASSUME IInv, NEW k \in Keys, NEW w \in Values, Pin(k, w)
  PROVE  IInv'
<1>1. TypeOK /\ CellsInv /\ LooseInv
  BY Parts, Zenon
<1>2. /\ pc = "idle" /\ pc' = "pin" /\ table[k] # Missing /\ ~table[k].out
      /\ op' = [NoOp EXCEPT !.key = k, !.val = table[k].val] /\ table' = [table EXCEPT ![k] = Inline(w)]
      /\ UNCHANGED <<loose, heap, rec, i, up, orphan, committed, crashes>>
  BY Zenon DEF Pin
<1>3. rec.size = 0 /\ Holds(k)
  BY <1>2, IdleMeans, Zenon
<1>4. WfCell(table[k]) /\ table[k].val \in Seq(Bytes) /\ table[k].val = committed[k]
  BY <1>1, <1>2, <1>3, MissingCell, Zenon DEF CellsInv, WfCell, Cell, Holds, ValueOf
<1>5. op' \in Args /\ op'.key = k /\ op'.val = committed[k]
  BY <1>2, <1>4, KeyArgs, Zenon DEF NoOp
<1>6. /\ table' \in [Keys -> Cell] /\ ~table'[k].out /\ table'[k] # Missing
      /\ CellsInv' /\ CountInv' /\ \A j \in Keys \ {k} : Holds(j)'
  <2>1. w \in Seq(Bytes)
    BY ValuesAreSequences, Zenon
  <2> QED BY <1>2, <2>1, InlineCell, Zenon
<1>7. TypeOK'
  BY <1>1, <1>2, <1>5, <1>6, Zenon DEF TypeOK, Pcs
<1>8. LooseInv'
  BY <1>1, <1>2, Zenon DEF LooseInv, Owning
<1>9. TableInv'
  BY <1>2, <1>5, <1>6 DEF TableInv, Pinning
<1>10. MeaningInv'
  BY <1>2, <1>3 DEF MeaningInv, Pinning
<1>11. pc' \in Calm
  BY <1>2, CalmStates, Zenon
<1> QED BY <1>2, <1>3, <1>6, <1>7, <1>8, <1>9, <1>10, <1>11, Quiet, Parts, Zenon

\* What a pin in progress finds.
LEMMA PinMeans ==
  ASSUME IInv, pc \in {"pin", "pin_fixed"}
  PROVE  /\ rec.size = 0 /\ Plain /\ Target = table /\ loose = Missing
         /\ op.key \in Keys /\ op.val = committed[op.key] /\ op.val \in Seq(Bytes)
         /\ ~table[op.key].out /\ table[op.key] # Missing
         /\ \A j \in Keys \ {op.key} : Holds(j)
<1>1. TypeOK /\ PcInv /\ TableInv /\ LooseInv
  BY Parts, Zenon
<1>2. rec.size = 0
  BY <1>1, CalmStates, Zenon DEF PcInv
<1>3. loose = Missing
  BY <1>1, Zenon DEF LooseInv, Owning
<1>4. /\ op.key \in Keys /\ op.val = committed[op.key] /\ ~table[op.key].out /\ table[op.key] # Missing
      /\ \A j \in Keys \ {op.key} : Holds(j)
  BY <1>1, Zenon DEF TableInv, Pinning
<1>5. op.val \in Seq(Bytes)
  BY <1>1, FieldTypes, Zenon
<1> QED BY <1>2, <1>3, <1>4, <1>5, Zenon DEF Plain, Target

\* The value is in a block that nobody else uses.
LEMMA PinAllocateInv ==
  ASSUME IInv, NEW b \in Blocks, PinAllocate(b)
  PROVE  IInv'
<1>1. TypeOK /\ CellsInv /\ CountInv
  BY Parts, Zenon
<1>2. /\ pc = "pin" /\ pc' = "pin_fixed" /\ heap[b].ref = 0 /\ heap' = Allocated(b, op.val)
      /\ op' = [op EXCEPT !.blk = b]
      /\ UNCHANGED <<table, loose, rec, i, up, orphan, committed, crashes>>
  BY Zenon DEF PinAllocate, FreeBlocks
<1>3. /\ rec.size = 0 /\ Plain /\ Target = table /\ loose = Missing
      /\ op.key \in Keys /\ op.val = committed[op.key] /\ op.val \in Seq(Bytes)
      /\ ~table[op.key].out /\ table[op.key] # Missing
      /\ \A j \in Keys \ {op.key} : Holds(j)
  BY <1>2, PinMeans, Zenon
<1>4. op' \in Args /\ op'.blk = b /\ op'.val = op.val /\ op'.key = op.key
  <2>1. op \in Args /\ b \in Blocks \cup {NoBlock}
    BY <1>1, FieldTypes, Zenon
  <2> QED BY <1>2, <2>1, Zenon DEF Args
<1>5. heap' \in Heap /\ heap'[b].ref = 1 /\ heap'[b].data = op.val /\ \A a \in Blocks \ {b} : heap'[a] = heap[a]
  BY <1>1, <1>2, <1>3, AllocEffect, Zenon
<1>6. ~InTable(b) /\ ~InRecord(b) /\ b # orphan /\ \A j \in Keys : ~Refers(table[j], b)
  BY <1>1, <1>2, <1>3, CountsMean, PlainTable, Zenon DEF InCells
<1>7. Plain'
  BY <1>2, Zenon DEF Plain
<1>8. TypeOK'
  BY <1>1, <1>2, <1>4, <1>5, Zenon DEF TypeOK, Pcs
<1>9. CellsInv' /\ LooseInv'
  BY <1>1, <1>2, <1>3, <1>7, EmptyCell, CellsKept, Zenon DEF CellsInv, LooseInv
<1>10. CountInv'
  <2>1. \A a \in Blocks : InTable(a)' <=> InTable(a)
    BY <1>2, <1>3, <1>7, PlainTable, Zenon DEF InCells
  <2>2. \A a \in Blocks : /\ (InRecord(a)' <=> InRecord(a)) /\ ~InCall(a) /\ (InCall(a)' <=> a = b)
                          /\ ~InLoose(a) /\ ~InLoose(a)'
    BY <1>2, <1>4, Zenon DEF InRecord, InCall, InLoose
  <2> QED BY <1>1, <1>2, <1>5, <1>6, <2>1, <2>2, SMTT(30) DEF CountInv, One
<1>11. TableInv'
  <2>1. ASSUME NEW j \in Keys \ {op.key} PROVE Holds(j)'
    <3>1. Counted(table[j]) => heap'[table[j].blk] = heap[table[j].blk]
      BY <1>5, <1>6, Zenon DEF Counted, Refers
    <3> QED BY <1>2, <1>3, <3>1, HoldsKept, Zenon
  <2>2. \A j \in Keys : ~Refers(table[j], op.blk)'
    BY <1>2, <1>4, <1>6, Zenon DEF Refers
  <2> QED BY <1>2, <1>3, <1>4, <1>5, <2>1, <2>2, SMTT(30) DEF TableInv, Pinning
<1>12. MeaningInv'
  BY <1>2, <1>3 DEF MeaningInv, Pinning
<1>13. pc' \in Calm
  BY <1>2, CalmStates, Zenon
<1> QED BY <1>2, <1>3, <1>8, <1>9, <1>10, <1>11, <1>12, <1>13, Quiet, Parts, ZenonT(60)

\* A pin that finds the heap exhausted: the value is what is left of it.
LEMMA PinFailsInv ==
  ASSUME IInv, PinFails
  PROVE  IInv'
<1> DEFINE k == op.key
<1>1. TypeOK /\ CellsInv /\ CountInv
  BY Parts, Zenon
<1>2. /\ pc = "pin" /\ pc' = "idle" /\ op' = NoOp
      /\ committed' = [committed EXCEPT ![k] = table[k].val]
      /\ UNCHANGED <<table, loose, heap, rec, i, up, orphan, crashes>>
  BY Zenon DEF PinFails
<1>3. /\ rec.size = 0 /\ Plain /\ Plain' /\ loose = Missing /\ k \in Keys /\ ~table[k].out
      /\ \A j \in Keys \ {k} : Holds(j)
  BY <1>2, PinMeans, Zenon DEF Plain
<1> HIDE DEF k
<1>4. table[k].val \in Seq(Bytes) \cup {Absent}
  BY <1>1, <1>3, Zenon DEF TypeOK, Cell
<1>5. /\ committed' \in [Keys -> Seq(Bytes) \cup {Absent}] /\ committed'[k] = table[k].val
      /\ \A j \in Keys \ {k} : committed'[j] = committed[j]
  BY <1>1, <1>2, <1>3, <1>4, Zenon DEF TypeOK
<1>6. TypeOK'
  BY <1>1, <1>2, <1>5, NothingTyped, Zenon DEF TypeOK, Pcs
<1>7. CellsInv' /\ LooseInv'
  BY <1>1, <1>2, <1>3, EmptyCell, CellsKept, Zenon DEF CellsInv, LooseInv
<1>8. CountInv'
  BY <1>1, <1>2, <1>3, CountsKept, Zenon
<1>9. ASSUME NEW j \in Keys PROVE Holds(j)'
  <2>1. CASE j = k
    BY <1>2, <1>3, <1>5, <2>1, Zenon DEF Holds, ValueOf
  <2>2. CASE j # k
    BY <1>2, <1>3, <1>5, <2>2, HoldsKept, Zenon
  <2> QED BY <2>1, <2>2, Zenon
<1> QED BY <1>2, <1>3, <1>6, <1>7, <1>8, <1>9, IdleStep, Zenon

\* The cell is marked out of line: the value is in the block, as it was.
LEMMA PinFixedInv ==
  ASSUME IInv, PinFixed
  PROVE  IInv'
<1> DEFINE k == op.key
           b == op.blk
           c == Outline(b)
<1>1. TypeOK /\ CellsInv /\ CountInv /\ TableInv
  BY Parts, Zenon
<1>2. /\ pc = "pin_fixed" /\ pc' = "idle" /\ op' = NoOp /\ table' = [table EXCEPT ![k] = c]
      /\ UNCHANGED <<loose, heap, rec, i, up, orphan, committed, crashes>>
  BY Zenon DEF PinFixed
<1>3. /\ rec.size = 0 /\ Plain /\ Target = table /\ loose = Missing /\ k \in Keys /\ ~table[k].out
      /\ op.val = committed[k] /\ \A j \in Keys \ {k} : Holds(j)
  BY <1>2, PinMeans, Zenon
<1>4. b \in Blocks /\ heap[b].data = op.val /\ \A j \in Keys : ~Refers(table[j], b)
  BY <1>1, <1>2, Zenon DEF TableInv
<1>5. Plain' /\ Target' = table'
  BY <1>2, PlainTable, Zenon DEF Plain
<1> HIDE DEF k, b
<1>6. WfCell(c) /\ c \in Cell /\ c.out /\ c.blk = b /\ \A a \in Blocks : Refers(c, a) <=> a = b
  BY <1>4, EmptyCell, Zenon DEF WfCell, Cell, Outline, Refers
<1> HIDE DEF c
<1>7. table' \in [Keys -> Cell] /\ table'[k] = c /\ \A j \in Keys \ {k} : table'[j] = table[j]
  BY <1>1, <1>2, <1>3, <1>6, Zenon DEF TypeOK
<1>8. TypeOK'
  BY <1>1, <1>2, <1>7, NothingTyped, Zenon DEF TypeOK, Pcs
<1>9. LooseInv'
  BY <1>2, <1>3, EmptyCell, Zenon DEF LooseInv
<1>10. CellsInv'
  <2>1. \A j \in Keys : WfCell(table'[j])
    BY <1>1, <1>6, <1>7, Zenon DEF CellsInv
  <2>2. \A j, l \in Keys, a \in Blocks : Refers(table[j], a) /\ Refers(table[l], a) => j = l
    BY <1>1, <1>3, Zenon DEF CellsInv
  <2>3. \A j, l \in Keys, a \in Blocks : Refers(table'[j], a) /\ Refers(table'[l], a) => j = l
    BY <1>4, <1>6, <1>7, <2>2, ZenonT(60)
  <2> QED BY <1>1, <1>2, <1>5, <2>1, <2>3, Zenon DEF CellsInv
<1>11. CountInv'
  <2>1. \A a \in Blocks : ~Refers(table[k], a)
    BY <1>3, Zenon DEF Refers
  <2>2. \A a \in Blocks : (InTable(a)' <=> InTable(a) \/ a = b) /\ ~InTable(b)
    BY <1>3, <1>4, <1>5, <1>6, <1>7, <2>1, PlainTable, Zenon DEF InCells
  <2>3. \A a \in Blocks : /\ (InRecord(a)' <=> InRecord(a)) /\ (InCall(a) <=> a = b) /\ ~InCall(a)'
                          /\ ~InLoose(a) /\ ~InLoose(a)'
    BY <1>2, Zenon DEF InRecord, InCall, InLoose, b
  <2> QED BY <1>1, <1>2, <2>2, <2>3 DEF CountInv, One
<1>12. ASSUME NEW j \in Keys PROVE Holds(j)'
  <2>1. CASE j = k
    BY <1>2, <1>3, <1>4, <1>6, <1>7, <2>1, Zenon DEF Holds, ValueOf
  <2>2. CASE j # k
    BY <1>2, <1>3, <1>7, <2>2, HoldsKept, Zenon
  <2> QED BY <2>1, <2>2, Zenon
<1> QED BY <1>2, <1>3, <1>8, <1>9, <1>10, <1>11, <1>12, IdleStep, Zenon

-----------------------------------------------------------------------------
(* The description of a change *)

\* enter_replace releases the string of the record.
LEMMA EnterReplaceInv ==
  ASSUME IInv, NEW k \in Keys, NEW v \in Values, EnterReplace(k, v)
  PROVE  IInv'
<1>1. /\ TypeOK /\ pc = "idle" /\ pc' = "unassign" /\ heap' = DropRef(rec.mapped)
      /\ rec' = [rec EXCEPT !.mapped = Released(@)]
      /\ UNCHANGED <<table, i, up, committed, crashes, loose, orphan>>
  BY Parts, Zenon DEF EnterReplace
<1>2. op' = [size |-> -1, key |-> k, val |-> v, ctl |-> <<>>, blk |-> NoBlock]
  BY Zenon DEF EnterReplace, NoOp
<1>3. op' \in Args /\ op'.size = -1 /\ op'.key = k
  <2>1. -1 \in Int /\ k \in KeyRef /\ v \in Seq(Bytes) /\ <<>> \in Seq(Nat) /\ NoBlock \in Blocks \cup {NoBlock}
    BY ValuesAreSequences, EmptyCell DEF KeyRef
  <2> QED BY <1>2, <2>1, ArgsMade, Zenon
<1>4. CallInv'
  BY <1>1, <1>3 DEF CallInv, Sizes
<1>5. TypeOK'
  BY <1>1, <1>3, MappedDrop, Zenon DEF TypeOK, Pcs
<1> QED BY <1>1, <1>4, <1>5, MappedDrop, Parts, Zenon

\* enter_update releases the string of the record; the entries are within the value.
LEMMA EnterUpdateInv ==
  ASSUME IInv, NEW k \in Keys, NEW u \in Updates, EnterUpdate(k, u)
  PROVE  IInv'
<1>1. /\ TypeOK /\ CellsInv /\ pc = "idle" /\ pc' = "unassign" /\ heap' = DropRef(rec.mapped)
      /\ rec' = [rec EXCEPT !.mapped = Released(@)]
      /\ UNCHANGED <<table, i, up, committed, crashes, loose, orphan>>
  BY Parts, Zenon DEF EnterUpdate
<1>2. PICK n \in 1 .. MaxWrites :
        u \in [dst : [1 .. n -> UNION {1 .. m : m \in Lengths}], src : [1 .. n -> Bytes]]
  BY Zenon DEF Updates
<1>3. n \in Nat /\ n > 0
  BY <1>2, AtomicRecordAssumption
<1>4. u.src \in Seq(Bytes) /\ Len(u.src) = n /\ DOMAIN u.dst = 1 .. n
  BY <1>2, <1>3
<1>5. u.dst \in Seq(Nat) /\ Len(u.dst) = n
  <2>1. UNION {1 .. m : m \in Lengths} \subseteq Nat
    BY AtomicRecordAssumption
  <2>2. u.dst \in [1 .. n -> Nat]
    BY <1>2, <2>1, Zenon
  <2> QED BY <1>3, <2>2
<1>6. op' = [size |-> n, key |-> k, val |-> u.src, ctl |-> u.dst, blk |-> NoBlock]
  BY <1>4, Zenon DEF EnterUpdate, NoOp
<1>7. op' \in Args
  <2>1. n \in Int /\ k \in KeyRef /\ NoBlock \in Blocks \cup {NoBlock}
    BY <1>3 DEF KeyRef
  <2> QED BY <1>4, <1>5, <1>6, <2>1, ArgsMade, Zenon
<1>8. op'.size = n /\ op'.key = k /\ op'.val = u.src /\ op'.ctl = u.dst
  BY <1>6, Zenon
<1>9. Within(k, u.dst)
  <2>1. Holds(k) /\ WfCell(table[k])
    BY <1>1, IdleMeans, Zenon DEF CellsInv
  <2>2. committed[k] # Absent => table[k] # Missing
    BY <1>1, <2>1, ValueAbsent, Zenon DEF Holds
  <2> QED BY <2>1, <2>2, Zenon DEF EnterUpdate, Within, Holds
<1>10. Fits(op.size, op.ctl, op.val)'
  BY <1>4, <1>5, <1>8, Zenon DEF Fits
<1>11. Within(op.key, op.ctl)'
  BY <1>1, <1>8, <1>9, Zenon DEF Within
<1>12. CallInv'
  BY <1>1, <1>3, <1>8, <1>10, <1>11, SMTT(30) DEF CallInv, Sizes
<1>13. TypeOK'
  BY <1>1, <1>7, MappedDrop, Zenon DEF TypeOK, Pcs
<1> QED BY <1>1, <1>12, <1>13, MappedDrop, Parts, Zenon

\* What a step of a description owes that leaves nothing pending and the keys alone.
LEMMA DescribeStep ==
  ASSUME IInv, rec.size = 0, rec'.size = 0, UNCHANGED <<table, committed>>,
         pc \in {"idle", "unassign", "allocate", "assign"},
         pc' \in {"idle", "allocate", "assign", "size"},
         WfCell(rec'.mapped), rec'.mapped.val # Absent, WfCell(rec'.temp),
         \A k \in Keys : Holds(k)'
  PROVE  CellsInv' /\ PcInv' /\ PendingInv' /\ ProgressInv' /\ MeaningInv'
<1>1. Plain /\ Plain' /\ CellsInv
  BY Parts, Zenon DEF Plain
<1>2. CellsInv'
  BY <1>1, CellsKept, Zenon
<1>3. pc' \in Calm
  BY CalmStates, Zenon
<1> QED BY <1>2, <1>3, Quiet, Zenon

\* While a change is described nothing is pending, and the table holds what the calls made.
LEMMA DescribeMeans ==
  ASSUME IInv, pc \in {"unassign", "allocate", "assign", "size"}
  PROVE  /\ rec.size = 0 /\ Plain /\ op.size \in Sizes \ {0} /\ (\A k \in Keys : Holds(k))
         /\ WfCell(rec.mapped) /\ WfCell(rec.temp) /\ rec.mapped.val # Absent
<1>1. CellsInv /\ PcInv /\ CallInv /\ MeaningInv
  BY Parts, Zenon
<1>2. rec.size = 0 /\ op.size \in Sizes \ {0}
  BY <1>1, CalmStates, Zenon DEF PcInv, CallInv
<1>3. \A k \in Keys : Holds(k)
  BY <1>1, <1>2, Zenon DEF MeaningInv, Pinning
<1> QED BY <1>1, <1>2, <1>3, Zenon DEF CellsInv, Plain

\* The record's string is empty and its key is set.
LEMMA AssignClearInv ==
  ASSUME IInv, AssignClear
  PROVE  IInv'
<1>1. /\ TypeOK /\ CountInv /\ CallInv /\ pc = "unassign" /\ pc' = "allocate"
      /\ UNCHANGED <<table, heap, op, i, up, committed, crashes, loose, orphan>>
  BY Parts, Zenon DEF AssignClear
<1>2. rec.size = 0 /\ Plain /\ Plain' /\ WfCell(rec.temp) /\ \A k \in Keys : Holds(k)
  BY <1>1, DescribeMeans, Zenon DEF Plain
<1>3. op.key \in KeyRef /\ Empty \in Cell /\ rec \in Record
  BY <1>1, EmptyCell, FieldTypes, Zenon DEF WfCell
<1>4. /\ rec' \in Record /\ rec'.mapped = Empty /\ rec'.key = op.key /\ rec'.size = rec.size
      /\ rec'.temp = rec.temp
  <2>1. rec' = [rec EXCEPT !.mapped = Empty, !.key = op.key]
    BY Zenon DEF AssignClear
  <2> QED BY <1>3, <2>1, Zenon DEF Record
<1>5. TypeOK'
  BY <1>1, <1>4, Zenon DEF TypeOK, Pcs
<1>6. CountInv'
  <2>1. \A a \in Blocks : ~InRecord(a) /\ ~InRecord(a)' /\ ~InCall(a) /\ ~InCall(a)' /\ ~InLoose(a) /\ ~InLoose(a)'
    BY <1>1, <1>4, EmptyCell, Zenon DEF InRecord, InCall, InLoose
  <2>2. \A a \in Blocks : InTable(a)' <=> InTable(a)
    BY <1>1, <1>2, PlainTable, Zenon DEF InCells
  <2> QED BY <1>1, <2>1, <2>2, Zenon DEF CountInv, One
<1>7. CallInv'
  BY <1>1, <1>4, EmptyCell, Zenon DEF CallInv, Fits, Within
<1>8. \A k \in Keys : Holds(k)'
  BY <1>1, <1>2, AllKept, Zenon
<1>9. SwapInv'
  BY <1>1, Quiet, Zenon
<1>10. CellsInv' /\ PcInv' /\ PendingInv' /\ ProgressInv' /\ MeaningInv'
  BY <1>1, <1>2, <1>4, <1>8, EmptyCell, DescribeStep, Zenon
<1>11. LooseInv' /\ TableInv'
  BY <1>1, Aside, Zenon
<1> QED BY <1>5, <1>6, <1>7, <1>9, <1>10, <1>11, Parts, Zenon

\* The new value is in a block that nobody else uses.
LEMMA AssignAllocateInv ==
  ASSUME IInv, NEW b \in Blocks, AssignAllocate(b)
  PROVE  IInv'
<1>1. TypeOK /\ CellsInv /\ CountInv /\ CallInv
  BY Parts, Zenon
<1>2. /\ pc = "allocate" /\ pc' = "assign" /\ heap[b].ref = 0
      /\ heap' = Allocated(b, op.val) /\ Len(op.val) >= SmallLimit
      /\ UNCHANGED <<table, rec, i, up, committed, crashes, loose, orphan>>
  BY Zenon DEF AssignAllocate, FreeBlocks
<1>3. /\ rec.size = 0 /\ Plain /\ Plain' /\ WfCell(rec.mapped) /\ rec.mapped.val # Absent
      /\ WfCell(rec.temp) /\ \A k \in Keys : Holds(k)
  BY <1>2, DescribeMeans, Zenon DEF Plain
<1>4. ~rec.mapped.out
  BY <1>1, <1>2, Zenon DEF CallInv
<1>5. op \in Args /\ op.val \in Seq(Bytes) /\ b \in Blocks \cup {NoBlock}
  BY <1>1, FieldTypes, Zenon
<1>6. /\ op' \in Args /\ op'.blk = b /\ op'.val = op.val /\ op'.size = op.size /\ op'.key = op.key
      /\ op'.ctl = op.ctl
  <2>1. op' = [op EXCEPT !.blk = b]
    BY Zenon DEF AssignAllocate
  <2> QED BY <1>5, <2>1, Zenon DEF Args
<1>7. heap' \in Heap /\ heap'[b].ref = 1 /\ heap'[b].data = op.val /\ \A a \in Blocks \ {b} : heap'[a] = heap[a]
  BY <1>1, <1>2, <1>5, AllocEffect, Zenon
<1>8. ~InTable(b) /\ b # orphan /\ \A j \in Keys : ~Refers(table[j], b)
  BY <1>1, <1>2, <1>3, CountsMean, PlainTable, Zenon DEF InCells
<1>9. TypeOK'
  BY <1>1, <1>2, <1>6, <1>7, ZenonT(60) DEF TypeOK, Pcs
<1>10. CountInv'
  <2>1. \A a \in Blocks : InTable(a)' <=> InTable(a)
    BY <1>2, <1>3, PlainTable, Zenon DEF InCells
  <2>2. \A a \in Blocks : /\ ~InRecord(a) /\ ~InRecord(a)' /\ ~InCall(a) /\ (InCall(a)' <=> a = b)
                          /\ ~InLoose(a) /\ ~InLoose(a)'
    BY <1>2, <1>4, <1>6, Zenon DEF InRecord, InCall, InLoose, Refers
  <2> QED BY <1>1, <1>2, <1>7, <1>8, <2>1, <2>2, SMTT(30) DEF CountInv, One
<1>11. CallInv'
  <2>1. \A k \in Keys : ~Refers(table[k], op.blk)'
    BY <1>2, <1>6, <1>8, Zenon DEF Refers
  <2>2. Within(op.key, op.ctl) => Within(op.key, op.ctl)'
    BY <1>2, <1>6, Zenon DEF Within
  <2> QED BY <1>1, <1>2, <1>6, <1>7, <2>1, <2>2, Zenon DEF CallInv
<1>12. ASSUME NEW j \in Keys PROVE Holds(j)'
  <2>1. Counted(table[j]) => heap'[table[j].blk] = heap[table[j].blk]
    BY <1>1, <1>7, <1>8, Zenon DEF Counted, Refers
  <2> QED BY <1>2, <1>3, <2>1, HoldsKept, Zenon
<1>13. SwapInv'
  BY <1>2, Quiet, Zenon
<1>14. CellsInv' /\ PcInv' /\ PendingInv' /\ ProgressInv' /\ MeaningInv'
  BY <1>2, <1>3, <1>12, DescribeStep, Zenon
<1>15. LooseInv' /\ TableInv'
  BY <1>2, Aside, Zenon
<1> QED BY <1>9, <1>10, <1>11, <1>13, <1>14, <1>15, Parts, ZenonT(60)

\* A call that finds the heap exhausted leaves a record that is not pending.
LEMMA AllocateFailsInv ==
  ASSUME IInv, AllocateFails
  PROVE  IInv'
<1>1. /\ TypeOK /\ CountInv /\ pc = "allocate" /\ pc' = "idle" /\ op' = NoOp
      /\ UNCHANGED <<table, heap, rec, i, up, committed, crashes, loose, orphan>>
  BY Parts, Zenon DEF AllocateFails
<1>2. /\ rec.size = 0 /\ Plain /\ Plain' /\ WfCell(rec.mapped) /\ rec.mapped.val # Absent
      /\ WfCell(rec.temp) /\ \A k \in Keys : Holds(k)
  BY <1>1, DescribeMeans, Zenon DEF Plain
<1>3. TypeOK'
  BY <1>1, NothingTyped, Zenon DEF TypeOK, Pcs
<1>4. CountInv'
  BY <1>1, <1>2, CountsKept, Zenon
<1>5. \A k \in Keys : Holds(k)'
  BY <1>1, <1>2, AllKept, Zenon
<1>6. SwapInv' /\ CallInv'
  BY <1>1, Quiet, Zenon
<1>7. CellsInv' /\ PcInv' /\ PendingInv' /\ ProgressInv' /\ MeaningInv'
  BY <1>1, <1>2, <1>5, DescribeStep, Zenon
<1>8. LooseInv' /\ TableInv'
  BY <1>1, Aside, ZenonT(60)
<1> QED BY <1>3, <1>4, <1>6, <1>7, <1>8, Parts, Zenon

\* The record holds the new value, in the block of the call or in its cell.
LEMMA AssignInv ==
  ASSUME IInv, Assign
  PROVE  IInv'
<1> DEFINE c == Placed(op.val, op.blk)
<1>1. TypeOK /\ CountInv /\ CallInv
  BY Parts, Zenon
<1>2. /\ pc' = "size"
      /\ pc = "assign" \/ (pc = "allocate" /\ Len(op.val) < SmallLimit)
      /\ UNCHANGED <<table, heap, op, i, up, committed, crashes, loose, orphan>>
  BY Zenon DEF Assign
<1>3. rec.size = 0 /\ Plain /\ Plain' /\ WfCell(rec.temp) /\ \A k \in Keys : Holds(k)
  BY <1>2, DescribeMeans, Zenon DEF Plain
<1>4. op.val \in Seq(Bytes) /\ op.ctl \in Seq(Nat) /\ rec \in Record /\ SmallLimit \in Nat
  BY <1>1, FieldTypes, AtomicRecordAssumption, Zenon
<1>5. ~rec.mapped.out /\ op.size # -2 /\ rec.key = op.key
  BY <1>1, <1>2, Zenon DEF CallInv
<1>6. pc = "assign" => /\ op.blk \in Blocks /\ heap[op.blk].data = op.val /\ ~(Len(op.val) < SmallLimit)
                       /\ \A j \in Keys : ~Refers(table[j], op.blk)
  BY <1>1, <1>4 DEF CallInv
<1>7. /\ WfCell(c)
      /\ pc = "assign" => c.out /\ c.blk = op.blk /\ c.val = <<>>
      /\ pc = "allocate" => ~c.out /\ c.val = op.val
  <2>1. CASE pc = "assign" BY <1>6, <2>1, EmptyCell, Zenon DEF Placed, Outline, WfCell, Cell
  <2>2. CASE pc = "allocate" BY <1>2, <1>4, <2>2, Zenon DEF Placed, Inline, WfCell, Cell
  <2> QED BY <1>2, <2>1, <2>2, Zenon
<1>8. c.val # Absent /\ c \in Cell
  BY <1>2, <1>4, <1>7, EmptyCell, AtomicRecordAssumption, Zenon DEF WfCell
<1>9. /\ rec' \in Record /\ rec'.mapped = c /\ rec'.ctl = op.ctl /\ rec'.size = rec.size
      /\ rec'.key = rec.key /\ rec'.temp = rec.temp
  <2>1. rec' = [rec EXCEPT !.mapped = c, !.ctl = op.ctl]
    BY Zenon DEF Assign
  <2> HIDE DEF c
  <2> QED BY <1>4, <1>8, <2>1, Zenon DEF Record
<1> HIDE DEF c
<1>10. ValueOf(rec.mapped)' = op.val
  BY <1>2, <1>6, <1>7, <1>9, Zenon DEF ValueOf
<1>11. TypeOK'
  BY <1>1, <1>2, <1>9, Zenon DEF TypeOK, Pcs
<1>12. CountInv'
  <2>1. \A a \in Blocks : InTable(a)' <=> InTable(a)
    BY <1>2, <1>3, PlainTable, Zenon DEF InCells
  <2>2. \A a \in Blocks : /\ ~InRecord(a) /\ ~InCall(a)' /\ (InRecord(a)' <=> InCall(a))
                          /\ ~InLoose(a) /\ ~InLoose(a)'
    BY <1>2, <1>5, <1>7, <1>9, Zenon DEF InRecord, InCall, InLoose, Refers
  <2> QED BY <1>1, <1>2, <2>1, <2>2, SMTT(30) DEF CountInv, One
<1>13. CallInv'
  <2>1. \A k \in Keys : NotIn(rec.mapped, k)'
    BY <1>2, <1>6, <1>7, <1>9, Zenon DEF NotIn, Refers, Counted
  <2>2. Within(op.key, op.ctl) => Within(op.key, op.ctl)'
    BY <1>2, Zenon DEF Within
  <2> QED BY <1>1, <1>2, <1>5, <1>9, <1>10, <2>1, <2>2, Zenon DEF CallInv
<1>14. \A k \in Keys : Holds(k)'
  BY <1>2, <1>3, AllKept, Zenon
<1>15. SwapInv'
  BY <1>2, <1>5, Zenon DEF SwapInv
<1>16. CellsInv' /\ PcInv' /\ PendingInv' /\ ProgressInv' /\ MeaningInv'
  BY <1>2, <1>3, <1>7, <1>8, <1>9, <1>14, DescribeStep, Zenon
<1>17. LooseInv' /\ TableInv'
  BY <1>2, Aside, Zenon
<1> QED BY <1>11, <1>12, <1>13, <1>15, <1>16, <1>17, Parts, Zenon

\* enter_swap saves the first cell.
LEMMA EnterSwapInv ==
  ASSUME IInv, NEW k0 \in Keys, NEW k1 \in Keys, EnterSwap(k0, k1)
  PROVE  IInv'
<1>1. TypeOK /\ CellsInv /\ CountInv
  BY Parts, Zenon
<1>2. /\ pc = "idle" /\ pc' = "size" /\ k0 # k1
      /\ UNCHANGED <<table, heap, i, up, committed, crashes, loose, orphan>>
  BY Zenon DEF EnterSwap
<1>3. rec.size = 0 /\ Plain /\ Plain' /\ \A k \in Keys : Holds(k)
  BY <1>2, IdleMeans, Zenon DEF Plain
<1>4. WfCell(table[k0]) /\ table[k0] \in Cell /\ WfCell(rec.mapped) /\ rec.mapped.val # Absent
  BY <1>1, Zenon DEF CellsInv, WfCell
<1>5. /\ rec' \in Record /\ rec'.pd0 = k0 /\ rec'.pd1 = k1 /\ rec'.temp = table[k0]
      /\ rec'.mapped = rec.mapped /\ rec'.size = rec.size /\ rec'.key = rec.key
  <2>1. rec' = [rec EXCEPT !.pd0 = k0, !.pd1 = k1, !.temp = table[k0]]
    BY Zenon DEF EnterSwap
  <2>2. rec \in Record /\ k0 \in KeyRef /\ k1 \in KeyRef
    BY <1>1, FieldTypes, Zenon DEF KeyRef
  <2> QED BY <1>4, <2>1, <2>2, Zenon DEF Record
<1>6. op' \in Args /\ op'.size = -2
  <2>1. op' = [size |-> -2, key |-> NoKey, val |-> <<>>, ctl |-> <<>>, blk |-> NoBlock]
    BY Zenon DEF EnterSwap, NoOp
  <2>2. -2 \in Int /\ NoKey \in KeyRef /\ <<>> \in Seq(Bytes) /\ <<>> \in Seq(Nat) /\ NoBlock \in Blocks \cup {NoBlock}
    BY EmptyCell, NothingTyped
  <2> QED BY <2>1, <2>2, ArgsMade, Zenon
<1>7. TypeOK'
  BY <1>1, <1>2, <1>5, <1>6, Zenon DEF TypeOK, Pcs
<1>8. CountInv'
  BY <1>1, <1>2, <1>3, <1>5, CountsKept, Zenon
<1>9. \A k \in Keys : Holds(k)'
  BY <1>2, <1>3, AllKept, Zenon
<1>10. CallInv'
  BY <1>2, <1>6 DEF CallInv, Sizes
<1>11. SwapInv'
  BY <1>2, <1>5, Zenon DEF SwapInv
<1>12. CellsInv' /\ PcInv' /\ PendingInv' /\ ProgressInv' /\ MeaningInv'
  BY <1>2, <1>3, <1>4, <1>5, <1>9, DescribeStep, Zenon
<1>13. LooseInv' /\ TableInv'
  BY <1>2, Aside, Zenon
<1> QED BY <1>7, <1>8, <1>10, <1>11, <1>12, <1>13, Parts, Zenon

-----------------------------------------------------------------------------
(* The change becomes pending *)

\* What is common to the three kinds of change.
LEMMA SetSizeFrame ==
  ASSUME IInv, SetSize
  PROVE  /\ pc = "size" /\ rec.size = 0 /\ (\A k \in Keys : Holds(k))
         /\ op.size \in {-2, -1} \cup (Nat \ {0})
         /\ pc' = DoOp(op.size) /\ i' = 1 /\ committed' = Intended
         /\ UNCHANGED <<table, heap, up, crashes, loose, orphan>>
         /\ rec'.mapped = rec.mapped /\ rec'.size = op.size /\ rec'.key = rec.key /\ rec'.ctl = rec.ctl
         /\ rec'.pd0 = rec.pd0 /\ rec'.pd1 = rec.pd1 /\ rec'.temp = rec.temp
         /\ CellsInv' /\ CountInv' /\ CallInv'
         /\ committed' \in [Keys -> Seq(Bytes) \cup {Absent}] => TypeOK'
<1>1. TypeOK /\ CellsInv /\ CountInv
  BY Parts, Zenon
<1>2. /\ pc = "size" /\ pc' = DoOp(op.size) /\ i' = 1 /\ op' = NoOp /\ committed' = Intended
      /\ UNCHANGED <<table, heap, up, crashes, loose, orphan>>
  BY Zenon DEF SetSize
<1>3. /\ rec.size = 0 /\ Plain /\ op.size \in Sizes \ {0} /\ (\A k \in Keys : Holds(k))
      /\ WfCell(rec.mapped) /\ WfCell(rec.temp) /\ rec.mapped.val # Absent
  BY <1>2, DescribeMeans, Zenon
<1>4. op.size \in {-2, -1} \cup (Nat \ {0})
  BY <1>3, Zenon DEF Sizes
<1>5. /\ rec' \in Record /\ rec'.size = op.size /\ rec'.key = rec.key /\ rec'.mapped = rec.mapped
      /\ rec'.ctl = rec.ctl /\ rec'.pd0 = rec.pd0 /\ rec'.pd1 = rec.pd1 /\ rec'.temp = rec.temp
  <2>1. rec' = [rec EXCEPT !.size = op.size]
    BY Zenon DEF SetSize
  <2>2. rec \in Record /\ op.size \in Int
    BY <1>1, FieldTypes, Zenon
  <2> QED BY <2>1, <2>2, Zenon DEF Record
<1>6. pc' \in {"replace", "swap", "update"}
  BY <1>2, <1>4 DEF DoOp
<1>7. Plain'
  BY <1>6, Zenon DEF Plain
<1>8. CellsInv'
  BY <1>1, <1>2, <1>3, <1>5, <1>7, CellsKept, Zenon
<1>9. CountInv'
  BY <1>1, <1>2, <1>3, <1>5, <1>6, <1>7, CountsKept, Zenon
<1>10. CallInv'
  BY <1>6, Quiet, Zenon
<1>11. committed' \in [Keys -> Seq(Bytes) \cup {Absent}] => TypeOK'
  BY <1>1, <1>2, <1>5, <1>6, NothingTyped, Zenon DEF TypeOK, Pcs
<1> QED BY <1>2, <1>3, <1>4, <1>5, <1>8, <1>9, <1>10, <1>11, ZenonT(60)

\* The 8-byte store that makes a replacement pending.
LEMMA SetReplaceInv ==
  ASSUME IInv, SetSize, op.size = -1
  PROVE  IInv'
<1>1. TypeOK /\ CallInv
  BY Parts, Zenon
<1>2. /\ pc = "size" /\ (\A k \in Keys : Holds(k)) /\ pc' = DoOp(-1) /\ committed' = Intended
      /\ UNCHANGED <<table, heap, up, crashes, loose, orphan>>
      /\ rec'.mapped = rec.mapped /\ rec'.size = -1 /\ rec'.key = rec.key
      /\ CellsInv' /\ CountInv' /\ CallInv'
      /\ committed' \in [Keys -> Seq(Bytes) \cup {Absent}] => TypeOK'
  BY SetSizeFrame, Zenon
<1>3. pc' = "replace" /\ committed' = [committed EXCEPT ![op.key] = op.val]
  BY <1>2, SMTT(30) DEF DoOp, Intended
<1>4. /\ rec.key = op.key /\ op.key \in Keys /\ ValueOf(rec.mapped) = op.val
      /\ \A k \in Keys : NotIn(rec.mapped, k)
  BY <1>1, <1>2 DEF CallInv
<1>5. op.val \in Seq(Bytes) /\ committed \in [Keys -> Seq(Bytes) \cup {Absent}]
  BY <1>1, FieldTypes, Zenon DEF TypeOK
<1>6. /\ committed' \in [Keys -> Seq(Bytes) \cup {Absent}] /\ committed'[op.key] = op.val
      /\ \A k \in Keys \ {op.key} : committed'[k] = committed[k]
  BY <1>3, <1>4, <1>5, Zenon
<1>7. MeaningInv'
  <2>1. \A k \in Keys \ {op.key} : Holds(k)'
    BY <1>2, <1>6, ZenonT(60) DEF Holds, ValueOf
  <2>2. ValueOf(rec.mapped)' = op.val
    BY <1>2, <1>4, Zenon DEF ValueOf
  <2> QED BY <1>2, <1>3, <1>4, <1>6, <2>1, <2>2, SMTT(30) DEF MeaningInv
<1>8. PendingInv'
  <2>1. \A k \in Keys : NotIn(rec.mapped, k)'
    BY <1>2, <1>4, Zenon DEF NotIn, Refers
  <2> QED BY <1>2, <1>3, <1>4, <2>1 DEF PendingInv
<1>9. PcInv'
  BY <1>2, <1>3, Zenon DEF PcInv, Sizes, Calm, Owning, Pinning
<1>10. SwapInv' /\ ProgressInv'
  BY <1>3, Quiet, Zenon
<1>11. LooseInv' /\ TableInv'
  BY <1>2, <1>3, Aside, Zenon
<1> QED BY <1>2, <1>6, <1>7, <1>8, <1>9, <1>10, <1>11, Parts, Zenon

\* The 8-byte store that makes a swap pending.
LEMMA SetSwapInv ==
  ASSUME IInv, SetSize, op.size = -2
  PROVE  IInv'
<1> DEFINE x == rec.pd0
           y == rec.pd1
<1>1. TypeOK /\ SwapInv
  BY Parts, Zenon
<1>2. /\ pc = "size" /\ (\A k \in Keys : Holds(k)) /\ pc' = DoOp(-2) /\ committed' = Intended
      /\ UNCHANGED <<table, heap, up, crashes, loose, orphan>>
      /\ rec'.size = -2 /\ rec'.pd0 = x /\ rec'.pd1 = y /\ rec'.temp = rec.temp
      /\ CellsInv' /\ CountInv' /\ CallInv'
      /\ committed' \in [Keys -> Seq(Bytes) \cup {Absent}] => TypeOK'
  BY SetSizeFrame, Zenon
<1>3. pc' = "swap" /\ committed' = [committed EXCEPT ![x] = committed[y], ![y] = committed[x]]
  BY <1>2 DEF DoOp, Intended
<1>4. x \in Keys /\ y \in Keys /\ x # y /\ rec.temp = table[x]
  BY <1>1, <1>2, Zenon DEF SwapInv
<1> HIDE DEF x, y
<1>5. committed \in [Keys -> Seq(Bytes) \cup {Absent}]
  BY <1>1, Zenon DEF TypeOK
<1>6. /\ committed' \in [Keys -> Seq(Bytes) \cup {Absent}]
      /\ committed'[x] = committed[y] /\ committed'[y] = committed[x]
      /\ \A k \in Keys \ {x, y} : committed'[k] = committed[k]
  BY <1>3, <1>4, <1>5, Zenon
<1>7. SwapInv'
  <2>1. \A k \in Keys : ValueOf(table[k])' = committed[k]
    BY <1>2, Zenon DEF Holds, ValueOf
  <2>2. ValueOf(table[rec.pd0])' = committed[x] /\ ValueOf(table[rec.pd1])' = committed[y]
    BY <1>2, <1>4, <2>1, Zenon
  <2>3. \A k \in Keys \ {x, y} : Holds(k)'
    BY <1>6, <2>1, Zenon DEF Holds
  <2> QED BY <1>2, <1>3, <1>4, <1>6, <2>2, <2>3, Zenon DEF SwapInv
<1>8. PendingInv' /\ MeaningInv'
  BY <1>2, <1>3 DEF PendingInv, MeaningInv
<1>9. PcInv'
  BY <1>2, <1>3, Zenon DEF PcInv, Sizes, Calm, Owning, Pinning
<1>10. ProgressInv'
  BY <1>3, Quiet, Zenon
<1>11. LooseInv' /\ TableInv'
  BY <1>2, <1>3, Aside, Zenon
<1> QED BY <1>2, <1>6, <1>7, <1>8, <1>9, <1>10, <1>11, Parts, Zenon

\* The 8-byte store that makes an update pending.
LEMMA SetUpdateInv ==
  ASSUME GreatestExists, IInv, SetSize, op.size \notin {-1, -2}
  PROVE  IInv'
<1> DEFINE u == [dst |-> op.ctl, src |-> op.val]
           key == op.key
<1>1. TypeOK /\ CellsInv /\ CallInv
  BY Parts, Zenon
<1>2. /\ pc = "size" /\ (\A k \in Keys : Holds(k)) /\ pc' = DoOp(op.size) /\ committed' = Intended
      /\ UNCHANGED <<table, heap, up, crashes, loose, orphan>> /\ i' = 1 /\ op.size \in {-2, -1} \cup (Nat \ {0})
      /\ rec'.mapped = rec.mapped /\ rec'.size = op.size /\ rec'.key = rec.key /\ rec'.ctl = rec.ctl
      /\ CellsInv' /\ CountInv' /\ CallInv'
      /\ committed' \in [Keys -> Seq(Bytes) \cup {Absent}] => TypeOK'
  BY SetSizeFrame, Zenon
<1>3. /\ pc' = "update" /\ op.size \in Nat \ {0}
      /\ committed' = IF table[key] = Missing THEN committed
                      ELSE [committed EXCEPT ![key] = Written(committed[key], u)]
  BY <1>2, Zenon DEF DoOp, Intended
<1>4. /\ rec.key = key /\ key \in Keys /\ ValueOf(rec.mapped) = op.val /\ rec.ctl = op.ctl
      /\ \A k \in Keys : NotIn(rec.mapped, k)
      /\ Fits(op.size, op.ctl, op.val) /\ Within(key, op.ctl)
  BY <1>1, <1>2, <1>3 DEF CallInv
<1>5. op.ctl \in Seq(Nat) /\ op.val \in Seq(Bytes) /\ committed \in [Keys -> Seq(Bytes) \cup {Absent}]
  BY <1>1, FieldTypes, Zenon DEF TypeOK
<1>6. DOMAIN u.dst = 1 .. op.size /\ u.src \in Seq(Bytes) /\ Len(u.src) = op.size
  BY <1>4, <1>5 DEF Fits
<1>7. table[key] = Missing <=> committed[key] = Absent
  BY <1>1, <1>2, <1>4, ValueAbsent, Zenon DEF CellsInv, Holds
<1> HIDE DEF u
<1>8. table[key] # Missing => /\ Written(committed[key], u) \in Seq(Bytes)
                              /\ DOMAIN Written(committed[key], u) = DOMAIN committed[key]
  BY <1>3, <1>4, <1>5, <1>6, <1>7, WrittenType, Zenon
<1>9. /\ committed' \in [Keys -> Seq(Bytes) \cup {Absent}]
      /\ \A k \in Keys \ {key} : committed'[k] = committed[k]
      /\ table[key] = Missing => committed'[key] = Absent
      /\ table[key] # Missing => committed'[key] = Written(committed[key], u)
  BY <1>3, <1>4, <1>5, <1>7, <1>8, Zenon
<1>10. /\ ValueOf(rec.mapped)' = op.val
       /\ \A k \in Keys : ValueOf(table[k])' = ValueOf(table[k])
  BY <1>2, <1>4, Zenon DEF ValueOf
<1>11. Change' = u
  BY <1>2, <1>4, <1>10, Zenon DEF Change, u
<1>12. PendingInv'
  <2>1. Within(rec.key, rec.ctl)'
    BY <1>2, <1>4, <1>7, <1>8, <1>9 DEF Within
  <2>2. \A k \in Keys : NotIn(rec.mapped, k)'
    BY <1>2, <1>4, Zenon DEF NotIn, Refers
  <2>3. Fits(rec.size, rec.ctl, ValueOf(rec.mapped))'
    BY <1>2, <1>4, <1>10, Zenon DEF Fits
  <2> QED BY <1>2, <1>3, <1>4, <2>1, <2>2, <2>3, Zenon DEF PendingInv
<1>13. MeaningInv'
  <2>1. \A k \in Keys \ {key} : Holds(k)'
    BY <1>2, <1>9, <1>10, Zenon DEF Holds
  <2>2. table[key] # Missing => Written(ValueOf(table[key]), u) = committed'[key]
    BY <1>2, <1>4, <1>9, Zenon DEF Holds
  <2>3. rec'.key = key /\ ValueOf(table[rec.key])' = ValueOf(table[key])
    BY <1>2, <1>4, <1>10, Zenon
  <2> QED BY <1>2, <1>3, <1>9, <1>11, <2>1, <2>2, <2>3, Zenon DEF MeaningInv
<1>14. PcInv'
  BY <1>2, <1>3 DEF PcInv, Sizes, Calm, Owning, Pinning
<1>15. ProgressInv'
  BY <1>2, <1>3 DEF ProgressInv
<1>16. SwapInv'
  BY <1>3, Quiet, Zenon
<1>17. LooseInv' /\ TableInv'
  BY <1>2, <1>3, Aside, Zenon
<1> QED BY <1>2, <1>9, <1>12, <1>13, <1>14, <1>15, <1>16, <1>17, Parts, SMTT(30)

-----------------------------------------------------------------------------
(* An update is carried out *)

\* What an update in progress finds.
LEMMA UpdateMeans ==
  ASSUME IInv, pc = "update"
  PROVE  /\ rec.key \in Keys /\ rec.size \in Nat \ {0} /\ i \in 1 .. rec.size + 1
         /\ Fits(rec.size, rec.ctl, ValueOf(rec.mapped)) /\ Within(rec.key, rec.ctl)
         /\ (\A k \in Keys : NotIn(rec.mapped, k)) /\ (\A k \in Keys \ {rec.key} : Holds(k))
         /\ IF table[rec.key] = Missing THEN committed[rec.key] = Absent
            ELSE Written(ValueOf(table[rec.key]), Change) = committed[rec.key]
<1>1. PcInv /\ PendingInv /\ MeaningInv /\ ProgressInv
  BY Parts, Zenon
<1>2. rec.size > 0 /\ rec.size \in Nat \ {0}
  BY <1>1 DEF PcInv, Sizes
<1>3. /\ rec.key \in Keys /\ (\A k \in Keys : NotIn(rec.mapped, k))
      /\ Fits(rec.size, rec.ctl, ValueOf(rec.mapped)) /\ Within(rec.key, rec.ctl)
  BY <1>1, <1>2, Zenon DEF PendingInv
<1>4. /\ (\A k \in Keys \ {rec.key} : Holds(k))
      /\ IF table[rec.key] = Missing THEN committed[rec.key] = Absent
         ELSE Written(ValueOf(table[rec.key]), Change) = committed[rec.key]
  BY <1>1, <1>2, Zenon DEF MeaningInv
<1>5. i \in 1 .. rec.size + 1
  BY <1>1, Zenon DEF ProgressInv
<1> QED BY <1>2, <1>3, <1>4, <1>5, Zenon

\* The value that is being updated, and where its entries are.
LEMMA UpdateTarget ==
  ASSUME GreatestExists, IInv, pc = "update", table[rec.key] # Missing
  PROVE  /\ ValueOf(table[rec.key]) \in Seq(Bytes)
         /\ DOMAIN rec.ctl = 1 .. rec.size
         /\ ValueOf(rec.mapped) \in Seq(Bytes) /\ Len(ValueOf(rec.mapped)) = rec.size
         /\ \A n \in 1 .. rec.size : rec.ctl[n] \in DOMAIN ValueOf(table[rec.key])
<1> DEFINE v == ValueOf(table[rec.key])
<1>1. TypeOK /\ CellsInv
  BY Parts, Zenon
<1>2. /\ rec.key \in Keys /\ rec.size \in Nat \ {0} /\ Fits(rec.size, rec.ctl, ValueOf(rec.mapped))
      /\ Within(rec.key, rec.ctl) /\ Written(v, Change) = committed[rec.key]
  BY UpdateMeans, Zenon
<1>3. WfCell(table[rec.key]) /\ WfCell(rec.mapped) /\ rec.mapped.val # Absent
  BY <1>1, <1>2, Zenon DEF CellsInv
<1>4. v # Absent
  BY <1>1, <1>3, ValueAbsent, Zenon
<1>5. v \in Seq(Bytes) /\ ValueOf(rec.mapped) \in Seq(Bytes)
  <2>1. \A c : WfCell(c) /\ ValueOf(c) # Absent => ValueOf(c) \in Seq(Bytes)
    BY <1>1, EmptyCell, Zenon DEF WfCell, Cell, ValueOf, TypeOK, Heap
  <2>2. ValueOf(rec.mapped) # Absent
    BY <1>1, <1>3, EmptyCell, ValueAbsent, Zenon
  <2> QED BY <1>3, <1>4, <2>1, <2>2, Zenon
<1>6. rec.ctl \in Seq(Nat)
  BY <1>1, FieldTypes, Zenon
<1>7. DOMAIN rec.ctl = 1 .. rec.size /\ Len(ValueOf(rec.mapped)) = rec.size
  BY <1>2, <1>6 DEF Fits
<1>8. committed[rec.key] \in Seq(Bytes) /\ DOMAIN committed[rec.key] = DOMAIN v
  <2> DEFINE u == Change
  <2>1. DOMAIN u.dst = 1 .. rec.size /\ u.src \in Seq(Bytes) /\ Len(u.src) = rec.size
    BY <1>5, <1>7, Zenon DEF Change
  <2> HIDE DEF u, v
  <2>2. Written(v, u) \in Seq(Bytes) /\ DOMAIN Written(v, u) = DOMAIN v
    BY <1>2, <1>5, <2>1, WrittenType, Zenon
  <2> QED BY <1>2, <2>2, Zenon DEF u
<1>9. committed[rec.key] # Absent
  BY <1>8, AtomicRecordAssumption, Zenon
<1> QED BY <1>2, <1>5, <1>7, <1>8, <1>9, Zenon DEF Within

\* One entry changes one byte of the one value, and neither counts nor the record.
LEMMA EntryEffect ==
  ASSUME GreatestExists, IInv, UpdateEntry
  PROVE  /\ ValueOf(table[rec.key])' = [ValueOf(table[rec.key]) EXCEPT ![rec.ctl[i]] = ValueOf(rec.mapped)[i]]
         /\ \A j \in Keys \ {rec.key} : ValueOf(table[j])' = ValueOf(table[j])
         /\ ValueOf(rec.mapped)' = ValueOf(rec.mapped)
         /\ \A j \in Keys : WfCell(table'[j]) /\ table'[j].out = table[j].out /\ table'[j].blk = table[j].blk
         /\ table'[rec.key] # Missing
         /\ \A b \in Blocks : heap'[b].ref = heap[b].ref
         /\ table' \in [Keys -> Cell] /\ heap' \in Heap
<1> DEFINE key == rec.key
           c == table[key]
           d == rec.ctl[i]
           x == ValueOf(rec.mapped)[i]
           v == ValueOf(c)
<1>1. TypeOK /\ CellsInv
  BY Parts, Zenon
<1>2. pc = "update" /\ c # Missing /\ i <= rec.size /\ UNCHANGED rec
  BY Zenon DEF UpdateEntry, EntryLeft
<1>3. key \in Keys /\ i \in 1 .. rec.size /\ \A j \in Keys : NotIn(rec.mapped, j)
  BY <1>2, UpdateMeans
<1>4. v \in Seq(Bytes) /\ d \in DOMAIN v /\ x \in Bytes
  BY <1>2, <1>3, UpdateTarget
<1> DEFINE w == [v EXCEPT ![d] = x]
<1>5. w \in Seq(Bytes)
  BY <1>4
<1>6. (\A j \in Keys : WfCell(table[j])) /\ WfCell(rec.mapped)
  BY <1>1, Zenon DEF CellsInv
<1>7. \A j \in Keys \ {key} : Counted(c) => ~Refers(table[j], c.blk)
  <2>1. Target = table
    BY <1>2, PlainTable, Zenon DEF Plain
  <2> QED BY <1>1, <1>3, <1>6, <2>1, Zenon DEF CellsInv, Refers, Counted
<1>8. CASE c.out
  <2> DEFINE y == [heap[c.blk] EXCEPT !.data = w]
  <2>1. v = heap[c.blk].data /\ c.blk \in Blocks /\ heap[c.blk] \in [ref : Nat, data : Seq(Bytes)]
    <3>1. c.blk \in Blocks
      <4>1. CASE c.blk \notin Blocks
        <5>1. v = <<>>
          BY <1>8, <4>1, Zenon DEF ValueOf
        <5> HIDE DEF v
        <5> QED BY <1>4, <5>1
      <4> QED BY <4>1, Zenon
    <3> QED BY <1>1, <1>8, <3>1, Zenon DEF ValueOf, TypeOK, Heap
  <2>2. heap' = [heap EXCEPT ![c.blk] = y] /\ table' = table
    BY <1>8, <2>1, Zenon DEF UpdateEntry
  <2> HIDE DEF w
  <2>3. y \in [ref : Nat, data : Seq(Bytes)] /\ y.ref = heap[c.blk].ref /\ y.data = w
    BY <1>5, <2>1, Zenon
  <2> HIDE DEF y
  <2>4. /\ heap' \in Heap /\ heap'[c.blk] = y
        /\ \A b \in Blocks \ {c.blk} : heap'[b] = heap[b]
    BY <1>1, <2>1, <2>2, <2>3, Zenon DEF TypeOK, Heap
  <2>5. ValueOf(table[rec.key])' = w
    BY <1>2, <1>8, <2>1, <2>2, <2>3, <2>4, ZenonT(60) DEF ValueOf
  <2>6. ASSUME NEW j \in Keys \ {key} PROVE ValueOf(table[j])' = ValueOf(table[j])
    <3>1. table[j].out /\ table[j].blk \in Blocks => table[j].blk # c.blk
      BY <1>7, <1>8, <2>1, Zenon DEF Refers, Counted
    <3>2. table[j].out /\ table[j].blk \in Blocks => heap'[table[j].blk] = heap[table[j].blk]
      BY <2>4, <3>1, Zenon
    <3> HIDE DEF c
    <3>3. table'[j] = table[j]
      BY <2>2, Zenon
    <3> QED BY <3>2, <3>3 DEF ValueOf
  <2>7. ValueOf(rec.mapped)' = ValueOf(rec.mapped)
    BY <1>2, <1>3, <1>8, <2>4, Zenon DEF ValueOf, NotIn, Refers, Counted
  <2>8. \A b \in Blocks : heap'[b].ref = heap[b].ref
    BY <2>3, <2>4, Zenon
  <2>9. table' \in [Keys -> Cell]
    BY <1>1, <2>2, Zenon DEF TypeOK
  <2> QED BY <1>2, <1>6, <2>2, <2>4, <2>5, <2>6, <2>7, <2>8, <2>9, Zenon DEF w
<1>9. CASE ~c.out
  <2> DEFINE y == [c EXCEPT !.val = w]
  <2>1. v = c.val /\ c \in Cell /\ c.blk = NoBlock
    BY <1>3, <1>6, <1>9, Zenon DEF ValueOf, WfCell
  <2>2. table' = [table EXCEPT ![key] = y] /\ heap' = heap
    BY <1>9, <2>1, Zenon DEF UpdateEntry
  <2>3. y \in Cell /\ y.out = c.out /\ y.blk = c.blk /\ y.val = w
    BY <1>5, <2>1, Zenon DEF Cell
  <2> HIDE DEF y
  <2>4. WfCell(y) /\ ~y.out /\ y # Missing
    BY <1>5, <1>9, <2>1, <2>3, EmptyCell, AtomicRecordAssumption, Zenon DEF WfCell
  <2> HIDE DEF w
  <2>5. table' \in [Keys -> Cell] /\ table'[key] = y /\ \A j \in Keys \ {key} : table'[j] = table[j]
    BY <1>1, <1>3, <2>2, <2>3, Zenon DEF TypeOK
  <2>6. ValueOf(table[rec.key])' = w
    BY <1>2, <2>3, <2>4, <2>5, Zenon DEF ValueOf
  <2>7. ValueOf(rec.mapped)' = ValueOf(rec.mapped) /\ \A j \in Keys \ {key} : ValueOf(table[j])' = ValueOf(table[j])
    BY <1>2, <2>2, <2>5, Zenon DEF ValueOf
  <2>8. \A j \in Keys : WfCell(table'[j]) /\ table'[j].out = table[j].out /\ table'[j].blk = table[j].blk
    BY <1>6, <2>3, <2>4, <2>5, Zenon
  <2>9. heap' \in Heap
    BY <1>1, <2>2, Zenon DEF TypeOK
  <2> QED BY <2>2, <2>4, <2>5, <2>6, <2>7, <2>8, <2>9, SMTT(30) DEF w
<1> QED BY <1>3, <1>6, <1>8, <1>9, Zenon DEF WfCell, Cell

\* An entry keeps the result of the update, and advances it.
LEMMA UpdateEntryInv ==
  ASSUME GreatestExists, IInv, UpdateEntry
  PROVE  IInv'
<1> DEFINE v == ValueOf(table[rec.key])
           w == [v EXCEPT ![rec.ctl[i]] = ValueOf(rec.mapped)[i]]
<1>1. TypeOK /\ CellsInv /\ CountInv /\ PcInv /\ PendingInv /\ ProgressInv /\ MeaningInv
  BY Parts, Zenon
<1>2. /\ pc = "update" /\ table[rec.key] # Missing /\ i <= rec.size /\ i' = i + 1
      /\ UNCHANGED <<rec, pc, op, up, committed, crashes, loose, orphan>>
  BY Zenon DEF UpdateEntry, EntryLeft
<1>3. /\ rec.key \in Keys /\ i \in 1 .. rec.size /\ rec.size \in Nat \ {0}
      /\ Fits(rec.size, rec.ctl, ValueOf(rec.mapped)) /\ Within(rec.key, rec.ctl)
      /\ (\A j \in Keys : NotIn(rec.mapped, j)) /\ (\A k \in Keys \ {rec.key} : Holds(k))
      /\ Written(v, Change) = committed[rec.key]
  BY <1>2, UpdateMeans
<1>4. /\ ValueOf(table[rec.key])' = w /\ ValueOf(rec.mapped)' = ValueOf(rec.mapped)
      /\ \A j \in Keys \ {rec.key} : ValueOf(table[j])' = ValueOf(table[j])
      /\ \A j \in Keys : WfCell(table'[j]) /\ table'[j].out = table[j].out /\ table'[j].blk = table[j].blk
      /\ table'[rec.key] # Missing
      /\ \A b \in Blocks : heap'[b].ref = heap[b].ref
      /\ table' \in [Keys -> Cell] /\ heap' \in Heap
  BY EntryEffect, Zenon
<1>5. /\ v \in Seq(Bytes) /\ DOMAIN rec.ctl = 1 .. rec.size
      /\ \A n \in 1 .. rec.size : rec.ctl[n] \in DOMAIN v
  BY <1>2, UpdateTarget, Zenon
<1>6. Plain /\ Plain' /\ Target = table /\ Target' = table'
  BY <1>2, PlainTable, Zenon DEF Plain
<1>7. \A j \in Keys, b \in Blocks : Refers(table'[j], b) <=> Refers(table[j], b)
  BY <1>4, Zenon DEF Refers
<1>8. TypeOK'
  BY <1>1, <1>2, <1>4 DEF TypeOK
<1>9. CellsInv'
  BY <1>1, <1>2, <1>4, <1>6, <1>7, Zenon DEF CellsInv
<1>10. CountInv'
  <2>1. \A a \in Blocks : InTable(a)' <=> InTable(a)
    BY <1>6, <1>7, PlainTable, Zenon DEF InCells
  <2>2. \A a \in Blocks : (InRecord(a)' <=> InRecord(a)) /\ ~InCall(a) /\ ~InCall(a)' /\ ~InLoose(a) /\ ~InLoose(a)'
    BY <1>2, Zenon DEF InRecord, InCall, InLoose
  <2> QED BY <1>1, <1>2, <1>4, <2>1, <2>2, Zenon DEF CountInv, One
<1>11. Written(w, Change) = committed[rec.key]
  <2>1. Change.dst = rec.ctl
    BY Zenon DEF Change
  <2>2. i \in DOMAIN Change.dst
    BY <1>3, <1>5, <2>1, Zenon
  <2>3. \A x : Written([v EXCEPT ![Change.dst[i]] = x], Change) = Written(v, Change)
    BY <2>2, WrittenAgain, Zenon
  <2> QED BY <1>3, <2>1, <2>3, Zenon
<1>12. ProgressInv'
  <2>1. ASSUME NEW n \in 1 .. i, Latest(n)'
        PROVE  w[rec.ctl[n]] = ValueOf(rec.mapped)[n]
    <3>1. CASE n = i
      BY <1>3, <1>5, <3>1, Zenon
    <3>2. CASE n # i
      <4>1. n \in 1 .. i - 1 /\ Latest(n) /\ rec.ctl[n] # rec.ctl[i]
        BY <1>2, <1>3, <2>1, <3>2 DEF Latest
      <4>2. v[rec.ctl[n]] = ValueOf(rec.mapped)[n]
        BY <1>1, <1>2, <4>1, Zenon DEF ProgressInv
      <4> QED BY <1>3, <1>5, <4>1, <4>2, SMTT(30)
    <3> QED BY <3>1, <3>2, Zenon
  <2> HIDE DEF w
  <2>2. \A n \in 1 .. i' - 1 : n \in 1 .. i
    BY <1>2, <1>3
  <2>3. i' \in 1 .. rec.size + 1
    BY <1>2, <1>3, SMTT(30)
  <2> QED BY <1>2, <1>4, <2>1, <2>2, <2>3, Zenon DEF ProgressInv
<1> HIDE DEF w
<1>13. MeaningInv'
  <2>1. Change' = Change
    BY <1>2, <1>4, Zenon DEF Change
  <2>2. \A j \in Keys \ {rec.key} : Holds(j)'
    BY <1>2, <1>3, <1>4, Zenon DEF Holds
  <2> QED BY <1>2, <1>3, <1>4, <1>11, <2>1, <2>2, SMTT(30) DEF MeaningInv
<1>14. PendingInv'
  <2>1. \A j \in Keys : NotIn(rec.mapped, j)'
    BY <1>2, <1>3, <1>4, Zenon DEF NotIn, Refers
  <2>2. Fits(rec.size, rec.ctl, ValueOf(rec.mapped))' /\ Within(rec.key, rec.ctl)'
    BY <1>2, <1>3, <1>4, Zenon DEF Fits, Within
  <2> QED BY <1>2, <1>3, <2>1, <2>2, Zenon DEF PendingInv
<1>15. PcInv'
  BY <1>1, <1>2, Zenon DEF PcInv
<1>16. CallInv' /\ SwapInv'
  BY <1>2, Quiet, Zenon
<1>17. LooseInv' /\ TableInv'
  BY <1>2, Aside, Zenon
<1> QED BY <1>8, <1>9, <1>10, <1>12, <1>13, <1>14, <1>15, <1>16, <1>17, Parts, ZenonT(60)

\* A value that has all entries is as the update makes it.
LEMMA UpdateComplete ==
  ASSUME GreatestExists, IInv, pc = "update", table[rec.key] # Missing, ~EntryLeft
  PROVE  Holds(rec.key)
<1> DEFINE v == ValueOf(table[rec.key])
<1>1. ProgressInv
  BY Parts, Zenon
<1>2. /\ rec.size \in Nat \ {0} /\ i \in 1 .. rec.size + 1
      /\ Written(v, Change) = committed[rec.key]
  BY UpdateMeans, Zenon
<1>3. v \in Seq(Bytes) /\ DOMAIN rec.ctl = 1 .. rec.size
  BY UpdateTarget, Zenon
<1>4. i = rec.size + 1
  BY <1>2, SMTT(30) DEF EntryLeft
<1>5. \A n \in 1 .. rec.size : Latest(n) => v[rec.ctl[n]] = ValueOf(rec.mapped)[n]
  BY <1>1, <1>2, <1>4, SMTT(30) DEF ProgressInv
<1>6. \A n \in 1 .. rec.size : (\A m \in n + 1 .. rec.size : rec.ctl[m] # rec.ctl[n])
                                  => v[rec.ctl[n]] = ValueOf(rec.mapped)[n]
  BY <1>2, <1>4, <1>5 DEF Latest
<1> DEFINE u == Change
<1>7. u.dst = rec.ctl /\ u.src = ValueOf(rec.mapped)
  BY Zenon DEF Change
<1> HIDE DEF u, v
<1>8. /\ DOMAIN u.dst = 1 .. rec.size /\ rec.size \in Nat
      /\ \A n \in 1 .. rec.size : (\A m \in n + 1 .. rec.size : u.dst[m] # u.dst[n]) => v[u.dst[n]] = u.src[n]
  BY <1>2, <1>3, <1>6, <1>7, SMTT(30)
<1>9. Written(v, u) = v
  BY <1>3, <1>8, WrittenDone, Zenon
<1> QED BY <1>2, <1>9, Zenon DEF Holds, u, v

\* After the last entry, or if the key is missing, the table is as the update makes it.
LEMMA UpdateDoneInv ==
  ASSUME GreatestExists, IInv, UpdateDone
  PROVE  IInv'
<1>1. TypeOK /\ CellsInv /\ CountInv /\ PcInv /\ PendingInv /\ MeaningInv
  BY Parts, Zenon
<1>2. /\ pc = "update" /\ pc' = "finish" /\ (table[rec.key] = Missing \/ ~EntryLeft)
      /\ UNCHANGED <<table, heap, rec, op, i, up, committed, crashes, loose, orphan>>
  BY Zenon DEF UpdateDone
<1>3. /\ rec.key \in Keys /\ rec.size \in Nat \ {0} /\ (\A j \in Keys \ {rec.key} : Holds(j))
      /\ table[rec.key] = Missing => committed[rec.key] = Absent
  BY <1>2, UpdateMeans, Zenon
<1>4. WfCell(rec.mapped) /\ rec.mapped.val # Absent /\ WfCell(rec.temp) /\ WfCell(table[rec.key])
  BY <1>1, <1>3, Zenon DEF CellsInv
<1>5. Holds(rec.key)
  <2>1. CASE table[rec.key] = Missing
    BY <1>1, <1>3, <1>4, <2>1, ValueAbsent, Zenon DEF Holds
  <2>2. CASE table[rec.key] # Missing
    BY <1>2, <2>2, UpdateComplete, Zenon
  <2> QED BY <2>1, <2>2, Zenon
<1>6. \A k \in Keys : Holds(k)'
  BY <1>2, <1>3, <1>5, AllKept, Zenon
<1>7. Plain /\ Plain'
  BY <1>2, Zenon DEF Plain
<1>8. TypeOK'
  BY <1>1, <1>2, Zenon DEF TypeOK, Pcs
<1>9. CellsInv'
  BY <1>1, <1>2, <1>4, <1>7, CellsKept, Zenon
<1>10. CountInv'
  BY <1>1, <1>2, <1>7, CountsKept, Zenon
<1>11. \A c : ValueOf(c)' = ValueOf(c)
  BY <1>2, Zenon DEF ValueOf
<1>12. MeaningInv'
  <2>1. Change' = Change
    BY <1>2, <1>11, Zenon DEF Change
  <2> QED BY <1>1, <1>2, <1>6, <1>11, <2>1, Zenon DEF MeaningInv
<1>13. PendingInv'
  <2>1. (\A k : NotIn(rec.mapped, k)' <=> NotIn(rec.mapped, k)) /\ (Within(rec.key, rec.ctl)' <=> Within(rec.key, rec.ctl))
    BY <1>2, Zenon DEF NotIn, Within
  <2> QED BY <1>1, <1>2, <1>11, <2>1, Zenon DEF PendingInv
<1>14. PcInv'
  BY <1>1, <1>2, <1>3, Zenon DEF PcInv, Calm, Owning, Pinning
<1>15. CallInv' /\ SwapInv' /\ ProgressInv'
  BY <1>2, Quiet, Zenon
<1>16. LooseInv' /\ TableInv'
  BY <1>2, Aside, Zenon
<1> QED BY <1>8, <1>9, <1>10, <1>12, <1>13, <1>14, <1>15, <1>16, Parts, ZenonT(60)

-----------------------------------------------------------------------------
(* A replacement is carried out *)

\* What a replacement in progress finds.
LEMMA ReplaceMeans ==
  ASSUME IInv, pc \in {"replace", "replace_cell", "replace_ref"}
  PROVE  /\ rec.size = -1 /\ rec.key \in Keys /\ (\A k \in Keys \ {rec.key} : NotIn(rec.mapped, k))
         /\ (\A k \in Keys \ {rec.key} : Holds(k)) /\ committed[rec.key] = ValueOf(rec.mapped)
         /\ Target = table /\ (pc = "replace_ref" => table[rec.key] = rec.mapped)
         /\ WfCell(rec.mapped) /\ rec.mapped.val # Absent /\ WfCell(rec.temp)
         /\ \A k \in Keys : WfCell(table[k])
<1>1. PcInv /\ PendingInv /\ MeaningInv /\ CellsInv
  BY Parts, Zenon
<1>2. rec.size = -1
  BY <1>1, Zenon DEF PcInv
<1>3. /\ rec.key \in Keys /\ (\A k \in Keys \ {rec.key} : NotIn(rec.mapped, k))
      /\ pc = "replace_ref" => table[rec.key] = rec.mapped
  BY <1>1, <1>2, Zenon DEF PendingInv
<1>4. (\A k \in Keys \ {rec.key} : Holds(k)) /\ committed[rec.key] = ValueOf(rec.mapped)
  BY <1>1, <1>2, Zenon DEF MeaningInv
<1>5. Target = table
  BY Zenon DEF Target
<1> QED BY <1>1, <1>2, <1>3, <1>4, <1>5, Zenon DEF CellsInv

\* What a step of a replacement owes.
LEMMA ReplaceStep ==
  ASSUME rec.size = -1, rec' = rec, committed' = committed, rec.key \in Keys,
         pc' \in {"replace_cell", "replace_ref", "finish"},
         \A k \in Keys \ {rec.key} : NotIn(rec.mapped, k) /\ table'[k] = table[k],
         pc' = "replace_ref" => table'[rec.key] = rec.mapped,
         \A k \in Keys \ {rec.key} : Holds(k)',
         committed[rec.key] = ValueOf(rec.mapped), ValueOf(rec.mapped)' = ValueOf(rec.mapped),
         pc' = "finish" => Holds(rec.key)'
  PROVE  PcInv' /\ CallInv' /\ PendingInv' /\ SwapInv' /\ ProgressInv' /\ MeaningInv'
<1>1. PcInv'
  BY DEF PcInv, Sizes, Calm, Owning, Pinning
<1>2. \A k \in Keys \ {rec.key} : NotIn(rec.mapped, k)'
  BY Zenon DEF NotIn
<1>3. PendingInv'
  BY <1>2 DEF PendingInv
<1>4. MeaningInv'
  BY DEF MeaningInv
<1> QED BY <1>1, <1>3, <1>4, Quiet, Zenon

\* The release of the old value: the record keeps the new one, even if they share a block.
LEMMA ReplaceDropInv ==
  ASSUME IInv, ReplaceDrop
  PROVE  IInv' /\ ValueOf(rec.mapped)' = ValueOf(rec.mapped)
<1> DEFINE c == table[rec.key]
<1>1. TypeOK /\ CellsInv /\ CountInv
  BY Parts, Zenon
<1>2. /\ pc = "replace" /\ pc' = "replace_cell" /\ heap' = DropRef(c)
      /\ table' = [table EXCEPT ![rec.key] = Released(c)]
      /\ UNCHANGED <<rec, op, i, up, committed, crashes, loose, orphan>>
  BY Zenon DEF ReplaceDrop
<1>3. /\ rec.size = -1 /\ rec.key \in Keys /\ (\A k \in Keys \ {rec.key} : NotIn(rec.mapped, k))
      /\ (\A k \in Keys \ {rec.key} : Holds(k)) /\ committed[rec.key] = ValueOf(rec.mapped)
      /\ Target = table /\ WfCell(rec.mapped) /\ (\A j \in Keys : WfCell(table[j])) /\ WfCell(c)
      /\ rec.mapped.val # Absent /\ WfCell(rec.temp)
  BY <1>2, ReplaceMeans, Zenon
<1>4. Plain /\ Target' = table'
  BY <1>2, Zenon DEF Plain, Target
<1>5. /\ \A j \in Keys, a \in Blocks : Refers(table[j], a) => InTable(a)
      /\ \A a \in Blocks : InRecord(a) <=> Refers(rec.mapped, a)
  BY <1>2, <1>4, PlainTable, Zenon DEF InCells, InRecord
<1>6. Counted(c) => heap[c.blk].ref > 0 /\ (Refers(rec.mapped, c.blk) => heap[c.blk].ref > 1)
  BY <1>1, <1>2, <1>3, <1>5, CountsMean, Zenon DEF Counted, Refers
<1>7. \A j \in Keys \ {rec.key}, a \in Blocks : ~(Refers(table[j], a) /\ Refers(c, a))
  BY <1>1, <1>3, Zenon DEF CellsInv
<1> DEFINE d == Released(c)
<1>8. WfCell(d) /\ d \in Cell /\ \A a \in Blocks : Refers(d, a) => Refers(c, a)
  <2>1. WfCell(NullCell) /\ \A a \in Blocks : ~Refers(NullCell, a)
    BY EmptyCell, AtomicRecordAssumption, Zenon DEF NullCell, Outline, WfCell, Cell, Refers
  <2> QED BY <1>3, <2>1, Zenon DEF Released, WfCell
<1> HIDE DEF c, d
<1>9. table' \in [Keys -> Cell] /\ table'[rec.key] = d /\ \A j \in Keys \ {rec.key} : table'[j] = table[j]
  BY <1>1, <1>2, <1>3, <1>8, Zenon DEF TypeOK, d
<1>10. heap' \in Heap /\ \A a \in Blocks : heap'[a].ref = heap[a].ref - One(Refers(c, a))
  BY <1>1, <1>2, <1>3, <1>6, DropEffect, Zenon
<1>11. ValueOf(rec.mapped)' = ValueOf(rec.mapped)
  <2>1. Counted(rec.mapped) => heap'[rec.mapped.blk].data = heap[rec.mapped.blk].data
    BY <1>1, <1>2, <1>3, <1>6, DropKeeps, Zenon
  <2> QED BY <1>2, <2>1, Zenon DEF ValueOf, Counted
<1>12. ASSUME NEW j \in Keys \ {rec.key} PROVE Holds(j)'
  <2>1. ~(Counted(c) /\ Refers(table[j], c.blk))
    BY <1>7, Zenon DEF Refers, Counted
  <2>2. Counted(table[j]) => heap'[table[j].blk].data = heap[table[j].blk].data
    BY <1>1, <1>2, <1>3, <1>6, <2>1, DropKeeps, Zenon
  <2> QED BY <1>2, <1>3, <1>9, <2>2, HoldsKept, Zenon
<1>13. TypeOK'
  BY <1>1, <1>2, <1>9, <1>10, Zenon DEF TypeOK, Pcs
<1>14. CellsInv'
  <2>1. \A j \in Keys : WfCell(table'[j])
    BY <1>3, <1>8, <1>9, Zenon
  <2>2. \A j, k \in Keys, a \in Blocks : Refers(table[j], a) /\ Refers(table[k], a) => j = k
    BY <1>1, <1>3, Zenon DEF CellsInv
  <2>3. \A j \in Keys, a \in Blocks : Refers(table'[j], a) => Refers(table[j], a)
    BY <1>8, <1>9, Zenon DEF c
  <2>4. \A j, k \in Keys, a \in Blocks : Refers(table'[j], a) /\ Refers(table'[k], a) => j = k
    BY <2>2, <2>3, ZenonT(60)
  <2> QED BY <1>2, <1>3, <1>4, <2>1, <2>4, Zenon DEF CellsInv
<1>15. CountInv'
  <2>1. \A a \in Blocks : InTable(a)' <=> InTable(a) /\ ~Refers(c, a)
    BY <1>2, <1>3, <1>4, <1>7, <1>9, Zenon DEF InTable, KeyCounted, c
  <2>2. \A a \in Blocks : /\ (InRecord(a)' <=> InRecord(a)) /\ ~InCall(a) /\ ~InCall(a)'
                          /\ ~InLoose(a) /\ ~InLoose(a)'
    BY <1>2, Zenon DEF InRecord, InCall, InLoose
  <2>3. \A a \in Blocks : Refers(c, a) => InTable(a)
    BY <1>3, <1>5, Zenon DEF c
  <2> QED BY <1>1, <1>2, <1>10, <2>1, <2>2, <2>3, SMTT(30) DEF CountInv, One
<1>16. PcInv' /\ CallInv' /\ PendingInv' /\ SwapInv' /\ ProgressInv' /\ MeaningInv'
  BY <1>2, <1>3, <1>9, <1>11, <1>12, ReplaceStep, Zenon
<1>17. LooseInv' /\ TableInv'
  BY <1>2, Aside, Zenon
<1> QED BY <1>11, <1>13, <1>14, <1>15, <1>16, <1>17, Parts, ZenonT(60)

\* The copy of the cell: key and record share the block, for the moment with one count.
LEMMA ReplaceCellInv ==
  ASSUME IInv, ReplaceCell
  PROVE  IInv'
<1>1. TypeOK /\ CellsInv /\ CountInv
  BY Parts, Zenon
<1>2. /\ pc = "replace_cell" /\ pc' = "replace_ref" /\ table' = [table EXCEPT ![rec.key] = rec.mapped]
      /\ UNCHANGED <<heap, rec, op, i, up, committed, crashes, loose, orphan>>
  BY Zenon DEF ReplaceCell
<1>3. /\ rec.size = -1 /\ rec.key \in Keys /\ (\A k \in Keys \ {rec.key} : NotIn(rec.mapped, k))
      /\ (\A k \in Keys \ {rec.key} : Holds(k)) /\ committed[rec.key] = ValueOf(rec.mapped)
      /\ Target = table /\ WfCell(rec.mapped) /\ rec.mapped.val # Absent /\ WfCell(rec.temp)
      /\ \A j \in Keys : WfCell(table[j])
  BY <1>2, ReplaceMeans, Zenon
<1>4. /\ table'[rec.key] = rec.mapped /\ \A j \in Keys \ {rec.key} : table'[j] = table[j]
      /\ table' \in [Keys -> Cell]
  BY <1>1, <1>2, <1>3, Zenon DEF TypeOK, WfCell
<1>5. Target' = table' /\ \A c : ValueOf(c)' = ValueOf(c)
  BY <1>2, Zenon DEF Target, ValueOf
<1>6. TypeOK'
  BY <1>1, <1>2, <1>4, Zenon DEF TypeOK, Pcs
<1>7. CellsInv'
  <2>1. \A j \in Keys \ {rec.key}, a \in Blocks : ~(Refers(table[j], a) /\ Refers(rec.mapped, a))
    BY <1>3, Zenon DEF NotIn, Refers, Counted
  <2>2. \A j \in Keys : WfCell(table'[j])
    BY <1>3, <1>4, Zenon
  <2>3. \A j, k \in Keys, b \in Blocks : Refers(table[j], b) /\ Refers(table[k], b) => j = k
    BY <1>1, <1>3, Zenon DEF CellsInv
  <2>4. \A j, k \in Keys, b \in Blocks : Refers(table'[j], b) /\ Refers(table'[k], b) => j = k
    BY <1>4, <2>1, <2>3, Zenon
  <2> QED BY <1>2, <1>3, <1>5, <2>2, <2>4, Zenon DEF CellsInv
<1>8. CountInv'
  <2>1. \A a \in Blocks : InTable(a)' <=> InTable(a)
    BY <1>2, <1>3, <1>4, <1>5, Zenon DEF InTable, KeyCounted
  <2>2. \A a \in Blocks : (InRecord(a)' <=> InRecord(a)) /\ ~InCall(a) /\ ~InCall(a)' /\ ~InLoose(a) /\ ~InLoose(a)'
    BY <1>2, Zenon DEF InRecord, InCall, InLoose
  <2> QED BY <1>1, <1>2, <2>1, <2>2, Zenon DEF CountInv, One
<1>9. \A j \in Keys \ {rec.key} : Holds(j)'
  BY <1>2, <1>3, <1>4, <1>5, Zenon DEF Holds
<1>10. PcInv' /\ CallInv' /\ PendingInv' /\ SwapInv' /\ ProgressInv' /\ MeaningInv'
  <2>1. ValueOf(rec.mapped)' = ValueOf(rec.mapped)
    BY <1>2, <1>5, Zenon
  <2> QED BY <1>2, <1>3, <1>4, <1>9, <2>1, ReplaceStep, Zenon
<1>11. LooseInv' /\ TableInv'
  BY <1>2, Aside, ZenonT(60)
<1> QED BY <1>6, <1>7, <1>8, <1>10, <1>11, Parts, ZenonT(60)

\* The second count: now the key holds the new value, and so does the record.
LEMMA ReplaceRefInv ==
  ASSUME IInv, ReplaceRef
  PROVE  IInv' /\ ValueOf(rec.mapped)' = ValueOf(rec.mapped)
<1>1. TypeOK /\ CellsInv /\ CountInv
  BY Parts, Zenon
<1>2. /\ pc = "replace_ref" /\ pc' = "finish" /\ heap' = AddRef(rec.mapped)
      /\ UNCHANGED <<table, rec, op, i, up, committed, crashes, loose, orphan>>
  BY Zenon DEF ReplaceRef
<1>3. /\ rec.size = -1 /\ rec.key \in Keys /\ (\A k \in Keys \ {rec.key} : NotIn(rec.mapped, k))
      /\ (\A k \in Keys \ {rec.key} : Holds(k)) /\ committed[rec.key] = ValueOf(rec.mapped)
      /\ Target = table /\ table[rec.key] = rec.mapped /\ WfCell(rec.mapped)
      /\ \A j \in Keys : WfCell(table[j])
  BY <1>2, ReplaceMeans, Zenon
<1>4. /\ heap' \in Heap
      /\ \A a \in Blocks : heap'[a].ref = heap[a].ref + One(Refers(rec.mapped, a))
      /\ \A a \in Blocks : heap'[a].data = heap[a].data
  BY <1>1, <1>2, <1>3, AddEffect, Zenon
<1>5. ValueOf(rec.mapped)' = ValueOf(rec.mapped)
  BY <1>2, <1>4, Zenon DEF ValueOf
<1>6. \A j \in Keys : Holds(j)'
  <2>1. \A j \in Keys : Holds(j)
    BY <1>3, Zenon DEF Holds
  <2>2. \A j \in Keys : Counted(table[j]) => heap'[table[j].blk].data = heap[table[j].blk].data
    BY <1>4, Zenon DEF Counted
  <2> QED BY <1>2, <2>1, <2>2, HoldsKept, Zenon
<1>7. Target' = table
  BY <1>2, Zenon DEF Target
<1>8. TypeOK'
  BY <1>1, <1>2, <1>4, Zenon DEF TypeOK, Pcs
<1>9. CellsInv'
  BY <1>1, <1>2, <1>3, <1>7, ZenonT(60) DEF CellsInv
<1>10. CountInv'
  <2>1. \A a \in Blocks : (InTable(a)' <=> InTable(a) \/ Refers(rec.mapped, a)) /\ ~(InTable(a) /\ Refers(rec.mapped, a))
    BY <1>2, <1>3, <1>7, Zenon DEF InTable, KeyCounted, NotIn, Refers, Counted
  <2>2. \A a \in Blocks : (InRecord(a)' <=> InRecord(a)) /\ ~InCall(a) /\ ~InCall(a)' /\ ~InLoose(a) /\ ~InLoose(a)'
    BY <1>2, Zenon DEF InRecord, InCall, InLoose
  <2> QED BY <1>1, <1>2, <1>4, <2>1, <2>2, SMTT(30) DEF CountInv, One
<1>11. PcInv' /\ CallInv' /\ PendingInv' /\ SwapInv' /\ ProgressInv' /\ MeaningInv'
  BY <1>2, <1>3, <1>5, <1>6, ReplaceStep, Zenon
<1>12. LooseInv' /\ TableInv'
  BY <1>2, Aside, Zenon
<1> QED BY <1>5, <1>8, <1>9, <1>10, <1>11, <1>12, Parts, Zenon

-----------------------------------------------------------------------------
(* A swap is carried out; the end of a change *)

\* The first half of a swap: the saved cell makes up for the one overwritten.
LEMMA SwapPart1Inv ==
  ASSUME IInv, SwapPart1
  PROVE  IInv'
<1> DEFINE x == rec.pd0
           y == rec.pd1
<1>1. TypeOK /\ CellsInv /\ CountInv /\ PcInv /\ SwapInv
  BY Parts, Zenon
<1>2. /\ pc = "swap" /\ pc' = "swap_part2" /\ table' = [table EXCEPT ![x] = table[y]]
      /\ UNCHANGED <<heap, rec, op, i, up, committed, crashes, loose, orphan>>
  BY Zenon DEF SwapPart1
<1>3. rec.size = -2
  BY <1>1, <1>2, Zenon DEF PcInv
<1>4. /\ x \in Keys /\ y \in Keys /\ x # y /\ rec.temp = table[x]
      /\ committed[x] = ValueOf(table[y]) /\ committed[y] = ValueOf(table[x])
      /\ \A k \in Keys \ {x, y} : Holds(k)
  BY <1>1, <1>2, Zenon DEF SwapInv
<1>5. /\ WfCell(rec.mapped) /\ rec.mapped.val # Absent /\ WfCell(rec.temp)
      /\ \A j \in Keys : WfCell(table[j])
  BY <1>1, Zenon DEF CellsInv
<1>6. /\ table'[x] = table[y] /\ \A j \in Keys \ {x} : table'[j] = table[j]
      /\ table' \in [Keys -> Cell]
  BY <1>1, <1>2, <1>4, <1>5, Zenon DEF TypeOK, WfCell
<1>7. /\ Target = table /\ Target'[x] = table[y] /\ Target'[y] = table[x]
      /\ \A j \in Keys \ {x, y} : Target'[j] = table[j]
  <2>1. Target' = [table' EXCEPT ![y] = rec.temp] /\ Target = table
    BY <1>2, Zenon DEF Target
  <2> QED BY <1>4, <1>6, <2>1, Zenon
<1>8. TypeOK'
  BY <1>1, <1>2, <1>6, Zenon DEF TypeOK, Pcs
<1>9. CellsInv'
  <2>1. \A j \in Keys : WfCell(table'[j])
    BY <1>4, <1>5, <1>6, Zenon
  <2>2. \A j, k \in Keys, b \in Blocks : Refers(table[j], b) /\ Refers(table[k], b) => j = k
    BY <1>1, <1>7, Zenon DEF CellsInv
  <2> HIDE DEF x, y
  <2>3. ASSUME NEW j \in Keys, NEW k \in Keys, NEW b \in Blocks,
               Refers(Target'[j], b), Refers(Target'[k], b)
        PROVE  j = k
    <3>1. CASE j = x BY <1>4, <1>7, <2>2, <2>3, <3>1, Zenon
    <3>2. CASE j = y BY <1>4, <1>7, <2>2, <2>3, <3>2, Zenon
    <3>3. CASE j \notin {x, y} BY <1>4, <1>7, <2>2, <2>3, <3>3, Zenon
    <3> QED BY <3>1, <3>2, <3>3, Zenon
  <2>4. \A j, k \in Keys, b \in Blocks : Refers(Target[j], b)' /\ Refers(Target[k], b)' => j = k
    BY <2>3, Zenon DEF Refers
  <2> QED BY <1>2, <1>5, <2>1, <2>4, Zenon DEF CellsInv
<1>10. CountInv'
  <2>1. \A a \in Blocks : InTable(a)' <=> InTable(a)
    BY <1>2, <1>4, <1>7 DEF InTable, KeyCounted, Refers
  <2>2. \A a \in Blocks : (InRecord(a)' <=> InRecord(a)) /\ ~InCall(a) /\ ~InCall(a)' /\ ~InLoose(a) /\ ~InLoose(a)'
    BY <1>2, Zenon DEF InRecord, InCall, InLoose
  <2> QED BY <1>1, <1>2, <2>1, <2>2, Zenon DEF CountInv, One
<1>11. SwapInv'
  <2>1. \A c : ValueOf(c)' = ValueOf(c)
    BY <1>2, Zenon DEF ValueOf
  <2>2. \A k \in Keys \ {y} : Holds(k)'
    BY <1>2, <1>4, <1>6, <2>1, Zenon DEF Holds
  <2> QED BY <1>2, <1>4, <2>1, <2>2, Zenon DEF SwapInv
<1>12. PcInv'
  BY <1>2, <1>3, Zenon DEF PcInv, Sizes, Calm, Owning, Pinning
<1>13. PendingInv' /\ MeaningInv'
  BY <1>2, <1>3 DEF PendingInv, MeaningInv
<1>14. CallInv' /\ ProgressInv'
  BY <1>2, Quiet, Zenon
<1>15. LooseInv' /\ TableInv'
  BY <1>2, Aside, Zenon
<1> QED BY <1>8, <1>9, <1>10, <1>11, <1>12, <1>13, <1>14, <1>15, Parts, ZenonT(60)

\* The second half of a swap: both values are where they were to be.
LEMMA SwapPart2Inv ==
  ASSUME IInv, SwapPart2
  PROVE  IInv'
<1> DEFINE x == rec.pd0
           y == rec.pd1
<1>1. TypeOK /\ CellsInv /\ CountInv /\ PcInv /\ SwapInv
  BY Parts, Zenon
<1>2. /\ pc = "swap_part2" /\ pc' = "finish" /\ table' = [table EXCEPT ![y] = rec.temp]
      /\ UNCHANGED <<heap, rec, op, i, up, committed, crashes, loose, orphan>>
  BY Zenon DEF SwapPart2
<1>3. rec.size = -2
  BY <1>1, <1>2, Zenon DEF PcInv
<1>4. /\ x \in Keys /\ y \in Keys /\ x # y /\ Holds(x) /\ committed[y] = ValueOf(rec.temp)
      /\ \A k \in Keys \ {x, y} : Holds(k)
  BY <1>1, <1>2, Zenon DEF SwapInv
<1>5. /\ WfCell(rec.mapped) /\ rec.mapped.val # Absent /\ WfCell(rec.temp)
      /\ \A j \in Keys : WfCell(table[j])
  BY <1>1, Zenon DEF CellsInv
<1>6. /\ table'[y] = rec.temp /\ \A j \in Keys \ {y} : table'[j] = table[j]
      /\ table' \in [Keys -> Cell]
  BY <1>1, <1>2, <1>4, <1>5, Zenon DEF TypeOK, WfCell
<1>7. Target = table' /\ Target' = table'
  BY <1>2, Zenon DEF Target
<1>8. TypeOK'
  BY <1>1, <1>2, <1>6, Zenon DEF TypeOK, Pcs
<1>9. CellsInv'
  <2>1. \A j \in Keys : WfCell(table'[j])
    BY <1>4, <1>5, <1>6, Zenon
  <2> QED BY <1>1, <1>2, <1>5, <1>7, <2>1, Zenon DEF CellsInv
<1>10. CountInv'
  <2>1. \A a \in Blocks : InTable(a)' <=> InTable(a)
    BY <1>2, <1>7, Zenon DEF InTable, KeyCounted
  <2>2. \A a \in Blocks : (InRecord(a)' <=> InRecord(a)) /\ ~InCall(a) /\ ~InCall(a)' /\ ~InLoose(a) /\ ~InLoose(a)'
    BY <1>2, Zenon DEF InRecord, InCall, InLoose
  <2> QED BY <1>1, <1>2, <2>1, <2>2, Zenon DEF CountInv, One
<1>11. \A j \in Keys : Holds(j)'
  <2>1. \A c : ValueOf(c)' = ValueOf(c)
    BY <1>2, Zenon DEF ValueOf
  <2> QED BY <1>2, <1>4, <1>6, <2>1, Zenon DEF Holds
<1>12. PcInv'
  BY <1>2, <1>3, SMTT(30) DEF PcInv, Sizes, Calm, Owning, Pinning
<1>13. PendingInv' /\ MeaningInv'
  BY <1>2, <1>3, <1>11, SMTT(30) DEF PendingInv, MeaningInv
<1>14. CallInv' /\ SwapInv' /\ ProgressInv'
  BY <1>2, Quiet, Zenon
<1>15. LooseInv' /\ TableInv'
  BY <1>2, Aside, Zenon
<1> QED BY <1>8, <1>9, <1>10, <1>12, <1>13, <1>14, <1>15, Parts, ZenonT(60)

\* do_finish: the store that ends the change leaves the table as it is.
LEMMA FinishSizeInv ==
  ASSUME IInv, FinishSize
  PROVE  IInv'
<1>1. TypeOK /\ CellsInv /\ CountInv /\ MeaningInv
  BY Parts, Zenon
<1>2. /\ pc = "finish" /\ pc' = "clear"
      /\ UNCHANGED <<table, heap, op, i, up, committed, crashes, loose, orphan>>
  BY Zenon DEF FinishSize
<1>3. rec' \in Record /\ rec'.mapped = rec.mapped /\ rec'.size = 0 /\ rec'.key = rec.key /\ rec'.temp = rec.temp
  <2>1. rec' = [rec EXCEPT !.size = 0]
    BY Zenon DEF FinishSize
  <2>2. rec \in Record /\ 0 \in Int
    BY <1>1, FieldTypes
  <2> QED BY <2>1, <2>2, Zenon DEF Record
<1>4. WfCell(rec.mapped) /\ rec.mapped.val # Absent /\ WfCell(rec.temp)
  BY <1>1, Zenon DEF CellsInv
<1>5. Plain /\ Plain'
  BY <1>2, Zenon DEF Plain
<1>6. TypeOK'
  BY <1>1, <1>2, <1>3, Zenon DEF TypeOK, Pcs
<1>7. CellsInv'
  BY <1>1, <1>2, <1>3, <1>4, <1>5, CellsKept, Zenon
<1>8. CountInv'
  BY <1>1, <1>2, <1>3, <1>5, CountsKept, Zenon
<1>9. \A k \in Keys : Holds(k)
  BY <1>1, <1>2, Zenon DEF MeaningInv, Pinning
<1>10. \A k \in Keys : Holds(k)'
  BY <1>2, <1>9, AllKept, Zenon
<1>11. LooseInv' /\ TableInv'
  BY <1>2, Aside, Zenon
<1>12. pc' \in Calm
  BY <1>2, CalmStates, Zenon
<1> QED BY <1>2, <1>3, <1>6, <1>7, <1>8, <1>10, <1>11, <1>12, Quiet, Parts, ZenonT(60)

\* The record's reference goes; the key that was replaced keeps its own.
LEMMA ClearDropInv ==
  ASSUME IInv, ClearDrop
  PROVE  IInv'
<1>1. /\ TypeOK /\ pc = "clear" /\ pc' = "clear_cell" /\ heap' = DropRef(rec.mapped)
      /\ rec' = [rec EXCEPT !.mapped = Released(@)]
      /\ UNCHANGED <<table, op, i, up, committed, crashes, loose, orphan>>
  BY Parts, Zenon DEF ClearDrop
<1>2. TypeOK'
  BY <1>1, MappedDrop, Zenon DEF TypeOK, Pcs
<1>3. CallInv'
  BY <1>1, Quiet, Zenon
<1> QED BY <1>1, <1>2, <1>3, MappedDrop, Parts, Zenon

\* The record is empty; the call returns, or the opening fails for a missing key.
LEMMA ClearCellInv ==
  ASSUME IInv, ClearCell
  PROVE  IInv'
<1>1. TypeOK /\ CellsInv /\ CountInv /\ PcInv /\ MeaningInv
  BY Parts, Zenon
<1>2. /\ pc = "clear_cell" /\ pc' \in {"idle", "down"} /\ up' \in BOOLEAN /\ rec' = EmptyRecord /\ i' = 1
      /\ UNCHANGED <<table, heap, op, committed, crashes, loose, orphan>>
  BY Zenon DEF ClearCell
<1>3. rec' \in Record /\ rec'.mapped = Empty /\ rec'.size = 0 /\ rec'.temp = Empty
  BY <1>2, NothingTyped, Zenon
<1>4. Plain /\ Plain'
  BY <1>2, Zenon DEF Plain
<1>5. TypeOK'
  BY <1>1, <1>2, <1>3, Zenon DEF TypeOK, Pcs
<1>6. CellsInv'
  BY <1>1, <1>2, <1>3, <1>4, EmptyCell, CellsKept, Zenon
<1>7. CountInv'
  <2>1. \A a \in Blocks : InTable(a)' <=> InTable(a)
    BY <1>2, <1>4, PlainTable, Zenon DEF InCells
  <2>2. \A a \in Blocks : ~InRecord(a) /\ ~InRecord(a)' /\ ~InCall(a) /\ ~InCall(a)' /\ ~InLoose(a) /\ ~InLoose(a)'
    BY <1>2, <1>3, EmptyCell, Zenon DEF InRecord, InCall, InLoose
  <2> QED BY <1>1, <1>2, <2>1, <2>2, Zenon DEF CountInv, One
<1>8. rec.size = 0
  BY <1>1, <1>2, CalmStates, Zenon DEF PcInv
<1>9. \A k \in Keys : Holds(k)
  BY <1>1, <1>2, <1>8, Zenon DEF MeaningInv, Pinning
<1>10. \A k \in Keys : Holds(k)'
  BY <1>2, <1>9, AllKept, Zenon
<1>11. LooseInv' /\ TableInv'
  BY <1>2, Aside, Zenon
<1>12. pc' \in Calm \cup {"down"}
  BY <1>2, CalmStates, Zenon
<1> QED BY <1>2, <1>3, <1>5, <1>6, <1>7, <1>10, <1>11, <1>12, Quiet, Parts, ZenonT(60)

-----------------------------------------------------------------------------
(* The process stops, and the pool is opened again *)

\* A step that keeps table, record and every value keeps what they mean.
LEMMA MeaningKept ==
  ASSUME MeaningInv, PendingInv, UNCHANGED <<table, rec, committed>>,
         pc \notin {"pin", "pin_fixed"}, pc' # "finish", pc' # "replace_ref",
         ValueOf(rec.mapped)' = ValueOf(rec.mapped),
         \A j \in Keys : ValueOf(table[j])' = ValueOf(table[j])
  PROVE  MeaningInv' /\ PendingInv'
<1>1. Change' = Change /\ \A j \in Keys : Holds(j) => Holds(j)'
  BY Zenon DEF Change, Holds
<1>2. rec.size > 0 \/ rec.size = -1 => rec.key \in Keys
  BY Zenon DEF PendingInv
<1>3. rec.size > 0 => ValueOf(table[rec.key])' = ValueOf(table[rec.key])
  BY <1>2, Zenon
<1>4. MeaningInv'
  <2>1. rec'.size = 0 \/ pc' = "finish" => \A k \in Keys : Holds(k)'
    BY <1>1, Zenon DEF MeaningInv, Pinning
  <2>2. rec'.size = -1 \/ rec'.size > 0 => \A k \in Keys \ {rec.key} : Holds(k)'
    BY <1>1, Zenon DEF MeaningInv
  <2>3. rec'.size = -1 => committed'[rec.key] = ValueOf(rec.mapped)'
    BY Zenon DEF MeaningInv
  <2>4. rec'.size > 0 => IF table[rec.key] = Missing THEN committed[rec.key] = Absent
                         ELSE Written(ValueOf(table[rec.key])', Change') = committed[rec.key]
    BY <1>1, <1>3, Zenon DEF MeaningInv
  <2> QED BY <2>1, <2>2, <2>3, <2>4, Zenon DEF MeaningInv
<1>5. PendingInv'
  <2>1. (\A k : NotIn(rec.mapped, k) => NotIn(rec.mapped, k)') /\ (Within(rec.key, rec.ctl) => Within(rec.key, rec.ctl)')
    BY Zenon DEF NotIn, Within
  <2>2. Fits(rec.size, rec.ctl, ValueOf(rec.mapped)) => Fits(rec.size, rec.ctl, ValueOf(rec.mapped))'
    BY Zenon DEF Fits
  <2> QED BY <2>1, <2>2, Zenon DEF PendingInv
<1> QED BY <1>4, <1>5, Zenon

\* A crash, anywhere but in a pending swap, leaves table and record as they are.
LEMMA CrashInv ==
  ASSUME SwapCrash = FALSE, IInv, Crash
  PROVE  IInv'
<1>1. TypeOK /\ CellsInv /\ LooseInv /\ PcInv /\ PendingInv /\ MeaningInv
  BY Parts, Zenon
<1>2. /\ rec.size # -2 /\ pc' = "down" /\ op' = NoOp /\ up' \in BOOLEAN
      /\ UNCHANGED <<table, loose, heap, rec, i, orphan>>
      /\ pc \notin {"pin", "pin_fixed"} => committed' = committed
  BY Zenon DEF Crash
<1>3. crashes' \in Nat
  <2>1. crashes' = crashes + 1 /\ crashes \in Nat
    BY <1>1, Zenon DEF TypeOK, Crash
  <2> QED BY <2>1
<1>4. committed' \in [Keys -> Seq(Bytes) \cup {Absent}] => TypeOK'
  BY <1>1, <1>2, <1>3, NothingTyped, Zenon DEF TypeOK, Pcs
<1>5. CellsInv'
  <2>1. pc # "swap_part2"
    BY <1>1, <1>2, Zenon DEF PcInv
  <2>2. Target = table /\ Target' = table
    BY <1>2, <2>1, Zenon DEF Target
  <2> QED BY <1>1, <1>2, <2>2, Zenon DEF CellsInv
<1>6. CountInv' /\ LooseInv'
  BY <1>1, <1>2, Zenon DEF CountInv, LooseInv
<1>7. \A c : ValueOf(c)' = ValueOf(c)
  BY <1>2, Zenon DEF ValueOf
<1>8. CASE pc \notin {"pin", "pin_fixed"}
  <2>1. ValueOf(rec.mapped)' = ValueOf(rec.mapped) /\ \A j \in Keys : ValueOf(table[j])' = ValueOf(table[j])
    BY <1>2, <1>7, Zenon
  <2>2. MeaningInv' /\ PendingInv'
    BY <1>1, <1>2, <1>8, <2>1, MeaningKept, Zenon
  <2>3. TypeOK'
    BY <1>1, <1>2, <1>4, <1>8, Zenon DEF TypeOK
  <2>4. PcInv'
    BY <1>1, <1>2, Zenon DEF PcInv, Calm, Owning, Pinning
  <2> QED BY <1>2, <1>5, <1>6, <2>2, <2>3, <2>4, Quiet, Parts, Zenon
<1>9. CASE pc \in {"pin", "pin_fixed"}
  <2> DEFINE k == op.key
  <2>1. rec.size = 0 /\ k \in Keys /\ ~table[k].out /\ \A j \in Keys \ {k} : Holds(j)
    BY <1>9, PinMeans, Zenon
  <2>2. committed' = [committed EXCEPT ![k] = table[k].val]
    BY <1>9, Zenon DEF Crash
  <2> HIDE DEF k
  <2>3. table[k].val \in Seq(Bytes) \cup {Absent}
    BY <1>1, <2>1, Zenon DEF TypeOK, Cell
  <2>4. /\ committed' \in [Keys -> Seq(Bytes) \cup {Absent}] /\ committed'[k] = table[k].val
        /\ \A j \in Keys \ {k} : committed'[j] = committed[j]
    BY <1>1, <2>1, <2>2, <2>3, Zenon DEF TypeOK
  <2>5. ASSUME NEW j \in Keys PROVE Holds(j)'
    <3>1. CASE j = k
      BY <1>2, <2>1, <2>4, <3>1, Zenon DEF Holds, ValueOf
    <3>2. CASE j # k
      BY <1>2, <2>1, <2>4, <3>2, HoldsKept, Zenon
    <3> QED BY <3>1, <3>2, Zenon
  <2> QED BY <1>2, <1>4, <1>5, <1>6, <2>1, <2>4, <2>5, Quiet, Parts, ZenonT(60)
<1> QED BY <1>8, <1>9, Zenon

\* The constructor: the counts are those of the references, and the bytes stay.
LEMMA RecoverEffect ==
  ASSUME SmallCardinals, IInv, Recover
  PROVE  /\ heap' \in Heap
         /\ \A b \in Blocks : heap'[b].ref = One(InCells(b)) + One(Refers(rec.mapped, b)) + One(Refers(loose, b))
         /\ ValueOf(rec.mapped)' = ValueOf(rec.mapped)
         /\ \A j \in Keys : ValueOf(table[j])' = ValueOf(table[j])
<1>1. TypeOK /\ CellsInv
  BY Parts, Zenon
<1>2. /\ pc = "down" /\ heap' = [b \in Blocks |-> [heap[b] EXCEPT !.ref = References(b)]]
      /\ UNCHANGED <<table, rec>>
  BY Zenon DEF Recover
<1>3. Target = table
  BY <1>2, Zenon DEF Target
<1>4. ASSUME NEW b \in Blocks
      PROVE  References(b) = One(InCells(b)) + One(Refers(rec.mapped, b)) + One(Refers(loose, b))
  BY <1>1, <1>3, CountReferences, Zenon
<1>5. \A b \in Blocks : References(b) \in Nat
  BY <1>4 DEF One
<1>6. ASSUME NEW b \in Blocks
      PROVE  /\ heap'[b] \in [ref : Nat, data : Seq(Bytes)]
             /\ heap'[b].ref = References(b) /\ heap'[b].data = heap[b].data
  <2>1. heap'[b] = [heap[b] EXCEPT !.ref = References(b)] /\ heap[b] \in [ref : Nat, data : Seq(Bytes)]
    BY <1>1, <1>2, Zenon DEF TypeOK, Heap
  <2> QED BY <1>5, <2>1, Zenon
<1>7. heap' \in Heap
  <2>1. heap' = [b \in Blocks |-> heap'[b]]
    BY <1>2, Zenon
  <2> QED BY <1>6, <2>1, Zenon DEF Heap
<1>8. ValueOf(rec.mapped)' = ValueOf(rec.mapped) /\ \A j \in Keys : ValueOf(table[j])' = ValueOf(table[j])
  BY <1>2, <1>6, Zenon DEF ValueOf
<1> QED BY <1>4, <1>6, <1>7, <1>8, Zenon

\* A pending change starts over with the opening of the pool.
LEMMA RecoverInv ==
  ASSUME SmallCardinals, IInv, Recover
  PROVE  IInv'
<1>1. TypeOK /\ CellsInv /\ LooseInv /\ PcInv /\ PendingInv /\ MeaningInv
  BY Parts, Zenon
<1>2. /\ pc = "down" /\ pc' = DoOp(rec.size) /\ up' \in BOOLEAN /\ i' = 1
      /\ orphan' = loose.blk /\ loose' = Missing
      /\ UNCHANGED <<table, rec, op, committed, crashes>>
  BY Zenon DEF Recover
<1>3. rec.size \in {-1} \cup Nat
  BY <1>1, <1>2, Zenon DEF PcInv, Sizes
<1>4. /\ rec.size = 0 => pc' = "idle"
      /\ rec.size = -1 => pc' = "replace"
      /\ rec.size > 0 => pc' = "update"
  BY <1>2, <1>3 DEF DoOp
<1>5. pc' \in {"idle", "replace", "update"}
  BY <1>3, <1>4
<1>6. Plain /\ Plain'
  BY <1>2, <1>5, Zenon DEF Plain
<1>7. /\ heap' \in Heap
      /\ \A b \in Blocks : heap'[b].ref = One(InCells(b)) + One(Refers(rec.mapped, b)) + One(Refers(loose, b))
      /\ ValueOf(rec.mapped)' = ValueOf(rec.mapped)
      /\ \A j \in Keys : ValueOf(table[j])' = ValueOf(table[j])
  BY RecoverEffect, Zenon
<1>8. WfCell(loose) /\ loose.blk \in Blocks \cup {NoBlock}
  BY <1>1, Zenon DEF LooseInv, WfCell, Cell
<1>9. TypeOK'
  BY <1>1, <1>2, <1>5, <1>7, <1>8, EmptyCell, ZenonT(60) DEF TypeOK, Pcs, WfCell
<1>10. CellsInv' /\ LooseInv'
  <2>1. WfCell(rec.mapped) /\ rec.mapped.val # Absent /\ WfCell(rec.temp)
    BY <1>1, Zenon DEF CellsInv
  <2> QED BY <1>1, <1>2, <1>6, <2>1, EmptyCell, CellsKept, Zenon DEF LooseInv
<1>11. CountInv'
  <2>1. \A b \in Blocks : InTable(b)' <=> InCells(b)
    BY <1>2, <1>6, PlainTable, Zenon DEF InCells
  <2>2. \A b \in Blocks : (InRecord(b)' <=> Refers(rec.mapped, b)) /\ ~InCall(b)' /\ ~InLoose(b)'
    BY <1>2, <1>5, Zenon DEF InRecord, InCall, InLoose
  <2>3. \A b \in Blocks : b = orphan' <=> Refers(loose, b)
    BY <1>2, <1>8, AtomicRecordAssumption, Zenon DEF WfCell, Refers
  <2> QED BY <1>7, <2>1, <2>2, <2>3, SMTT(30) DEF CountInv, One
<1>12. MeaningInv' /\ PendingInv'
  BY <1>1, <1>2, <1>5, <1>7, MeaningKept, Zenon
<1>13. PcInv'
  BY <1>2, <1>3, <1>4, <1>5, SMTT(30) DEF PcInv, Sizes, Calm, Owning, Pinning
<1>14. ProgressInv'
  BY <1>2, <1>3, <1>4, <1>5, SMTT(30) DEF ProgressInv
<1>15. CallInv' /\ SwapInv' /\ TableInv'
  BY <1>5, Quiet, Zenon
<1> QED BY <1>9, <1>10, <1>11, <1>12, <1>13, <1>14, <1>15, Parts, ZenonT(60)

\* Nothing changes.
LEMMA StutterInv ==
  ASSUME IInv, UNCHANGED vars
  PROVE  IInv'
<1>1. UNCHANGED <<table, loose, heap, rec, pc, op, i, up, orphan, committed, crashes>>
  BY Zenon DEF vars
<1>2. /\ TypeOK /\ CellsInv /\ LooseInv /\ CountInv /\ PcInv /\ TableInv /\ CallInv /\ PendingInv /\ SwapInv
      /\ ProgressInv /\ MeaningInv
  BY Parts, Zenon
<1>3. \A c : ValueOf(c)' = ValueOf(c)
  BY <1>1, Zenon DEF ValueOf
<1>4. /\ \A k : Holds(k)' <=> Holds(k)
      /\ \A k : (NotIn(rec.mapped, k)' <=> NotIn(rec.mapped, k)) /\ (NotIn(loose, k)' <=> NotIn(loose, k))
      /\ \A k, s : Within(k, s)' <=> Within(k, s)
      /\ Target' = Target /\ Change' = Change
  BY <1>1, <1>3, Zenon DEF Holds, NotIn, Within, Target, Change
<1>5. \A b : /\ (InTable(b)' <=> InTable(b)) /\ (InRecord(b)' <=> InRecord(b)) /\ (InCall(b)' <=> InCall(b))
             /\ (InLoose(b)' <=> InLoose(b))
  BY <1>1, <1>4, Zenon DEF InTable, KeyCounted, InRecord, InCall, InLoose
<1>6. TypeOK'
  BY <1>1, <1>2, Zenon DEF TypeOK
<1>7. CellsInv' /\ LooseInv'
  BY <1>1, <1>2, <1>4, ZenonT(60) DEF CellsInv, LooseInv
<1>8. CountInv'
  BY <1>1, <1>2, <1>5, SMTT(30) DEF CountInv, One
<1>9. PcInv'
  BY <1>1, <1>2, Zenon DEF PcInv
<1>10. CallInv'
  BY <1>1, <1>2, <1>3, <1>4, Zenon DEF CallInv
<1>11. PendingInv'
  BY <1>1, <1>2, <1>3, <1>4, Zenon DEF PendingInv
<1>12. SwapInv'
  BY <1>1, <1>2, <1>3, <1>4, Zenon DEF SwapInv
<1>13. ProgressInv'
  <2>1. \A n : Latest(n)' <=> Latest(n)
    BY <1>1, Zenon DEF Latest
  <2> QED BY <1>1, <1>2, <1>3, <2>1, Zenon DEF ProgressInv
<1>14. MeaningInv'
  BY <1>1, <1>2, <1>3, <1>4, Zenon DEF MeaningInv
<1>15. TableInv'
  BY <1>1, <1>2, <1>3, <1>4, Zenon DEF TableInv
<1> QED BY <1>6, <1>7, <1>8, <1>9, <1>10, <1>11, <1>12, <1>13, <1>14, <1>15, Parts, ZenonT(60)

-----------------------------------------------------------------------------
(* What is pending stays as it is described *)

\* While a change is pending, no step alters what the record describes.
LEMMA SourceKept ==
  ASSUME GreatestExists, SmallCardinals, IInv, [Next]_vars, rec.size # 0, rec'.size # 0
  PROVE  ValueOf(rec.mapped)' = ValueOf(rec.mapped) /\ rec'.key = rec.key /\ rec'.ctl = rec.ctl
<1>1. PcInv
  BY Parts, Zenon
<1>2. pc \in {"update", "replace", "replace_cell", "replace_ref", "swap", "swap_part2", "finish", "down"}
  <2>1. TypeOK
    BY Parts, Zenon
  <2> QED BY <1>1, <2>1, CalmStates, Zenon DEF PcInv, TypeOK, Pcs
<1>3. heap' = heap /\ rec' = rec => ValueOf(rec.mapped)' = ValueOf(rec.mapped)
  BY Zenon DEF ValueOf
<1>4. pc \notin {"idle", "unassign", "allocate", "assign", "size", "clear", "clear_cell", "own", "destroy", "unmark",
               "pin", "pin_fixed"}
  BY <1>2, Zenon
<1>5. ~Call /\ ~InsertOwner /\ ~EraseContent /\ ~EraseMark /\ ~PinFails /\ ~PinFixed
      /\ (\A b \in Blocks : ~PinAllocate(b))
      /\ ~AssignClear /\ ~AllocateFails /\ ~Assign /\ ~SetSize /\ ~ClearDrop /\ ~ClearCell
      /\ \A b \in Blocks : ~AssignAllocate(b)
  <2>1. ~Call
    BY <1>4, Zenon DEF Call, Insert, Erase, Pin, EnterReplace, EnterUpdate, EnterSwap
  <2>2. ~AssignClear /\ ~AllocateFails /\ ~Assign /\ \A b \in Blocks : ~AssignAllocate(b)
    BY <1>4, Zenon DEF AssignClear, AllocateFails, Assign, AssignAllocate
  <2>3. ~SetSize /\ ~ClearDrop /\ ~ClearCell
    BY <1>4, Zenon DEF SetSize, ClearDrop, ClearCell
  <2>4. /\ ~InsertOwner /\ ~EraseContent /\ ~EraseMark /\ ~PinFails /\ ~PinFixed
        /\ \A b \in Blocks : ~PinAllocate(b)
    BY <1>4, Zenon DEF InsertOwner, EraseContent, EraseMark, PinFails, PinFixed, PinAllocate
  <2> QED BY <2>1, <2>2, <2>3, <2>4, Zenon
<1>6. ~FinishSize
  <2>1. FinishSize => rec'.size = 0
    <3>1. rec \in Record
      BY Parts, FieldTypes, Zenon
    <3> QED BY <3>1, Zenon DEF FinishSize, Record
  <2> QED BY <2>1, Zenon
<1>7. UpdateEntry => ValueOf(rec.mapped)' = ValueOf(rec.mapped) /\ rec' = rec
  BY EntryEffect, Zenon DEF UpdateEntry
<1>8. ReplaceDrop \/ ReplaceRef => ValueOf(rec.mapped)' = ValueOf(rec.mapped) /\ rec' = rec
  BY ReplaceDropInv, ReplaceRefInv, Zenon DEF ReplaceDrop, ReplaceRef
<1>9. UpdateDone \/ ReplaceCell \/ SwapPart1 \/ SwapPart2 \/ Crash \/ UNCHANGED vars => heap' = heap /\ rec' = rec
  BY Zenon DEF UpdateDone, ReplaceCell, SwapPart1, SwapPart2, Crash, vars
<1>10. Recover => ValueOf(rec.mapped)' = ValueOf(rec.mapped) /\ rec' = rec
  BY RecoverEffect, Zenon DEF Recover
<1>11. ValueOf(rec.mapped)' = ValueOf(rec.mapped) /\ rec' = rec
  BY <1>3, <1>5, <1>6, <1>7, <1>8, <1>9, <1>10, SMTT(30) DEF Next, Step
<1> QED BY <1>11, Zenon

-----------------------------------------------------------------------------
(* Numbers and finite sets *)

\* A non-empty set of natural numbers has a least member.
LEMMA LeastNatural ==
  ASSUME NEW T, T \subseteq Nat, T # {}
  PROVE  \E t \in T : \A y \in T : t <= y
<1> DEFINE R == {ss \in Nat \X Nat : ss[1] < ss[2]}
<1>1. IsWellFoundedOn(R, Nat)
  BY NatLessThanWellFounded, Zenon DEF OpToRel
<1>2. \A x, y \in Nat : x < y => <<x, y>> \in R
  BY Zenon
<1> HIDE DEF R
<1>3. PICK t \in T : \A y \in T : ~(<<y, t>> \in R)
  BY <1>1, WFMin, Zenon
<1>4. ASSUME NEW y \in T PROVE t <= y
  <2>1. y \in Nat /\ t \in Nat /\ ~(y < t)
    BY <1>2, <1>3, Zenon
  <2> QED BY <2>1
<1> QED BY <1>4, Zenon

\* A non-empty set of indexes has a greatest member: the last writer of a byte exists.
LEMMA MaxExists ==
  ASSUME NEW n \in Nat, NEW S, S \subseteq 1 .. n, S # {}
  PROVE  \E x \in S : \A y \in S : y <= x
<1> DEFINE T == {m \in Nat : \E x \in S : m = n - x}
<1>1. \A x \in S : x \in Int /\ n - x \in Nat
  OBVIOUS
<1>2. \A x \in S : n - x \in T
  BY <1>1, Zenon
<1>3. T \subseteq Nat /\ T # {}
  BY <1>2, Zenon
<1>4. \A m \in T : \E x \in S : m = n - x
  BY Zenon
<1> HIDE DEF T
<1>5. PICK t \in T : \A y \in T : t <= y
  BY <1>3, LeastNatural, Zenon
<1>6. PICK x \in S : t = n - x
  BY <1>4, <1>5, Zenon
<1>7. ASSUME NEW y \in S PROVE y <= x
  BY <1>1, <1>2, <1>5, <1>6, SMTT(30)
<1> QED BY <1>7, Zenon


\* The two hypotheses of the lemmas hold.
LEMMA LibraryFacts == GreatestExists /\ SmallCardinals
<1>1. GreatestExists
  BY MaxExists, Zenon DEF GreatestExists
<1>2. SmallCardinals
  BY FS_EmptySet, FS_Singleton, Zenon DEF SmallCardinals
<1> QED BY <1>1, <1>2, Zenon

-----------------------------------------------------------------------------
(* Every step *)

\* Every call keeps the invariant.
LEMMA CallStepInv ==
  ASSUME IInv, Call
  PROVE  IInv'
<1>1. ASSUME NEW k \in Keys, NEW v \in Values, NEW b \in Blocks, Insert(k, v, b) PROVE IInv'
  BY <1>1, InsertInv, Zenon
<1>2. ASSUME NEW k \in Keys, Erase(k) PROVE IInv'
  BY <1>2, EraseInv, Zenon
<1>3. ASSUME NEW k \in Keys, NEW w \in Values, Pin(k, w) PROVE IInv'
  BY <1>3, PinInv, Zenon
<1>4. ASSUME NEW k \in Keys, NEW v \in Values, EnterReplace(k, v) PROVE IInv'
  BY <1>4, EnterReplaceInv, ZenonT(60)
<1>5. ASSUME NEW k \in Keys, NEW u \in Updates, EnterUpdate(k, u) PROVE IInv'
  BY <1>5, EnterUpdateInv, Zenon
<1>6. ASSUME NEW k \in Keys, NEW k1 \in Keys, EnterSwap(k, k1) PROVE IInv'
  BY <1>6, EnterSwapInv, Zenon
<1> QED BY <1>1, <1>2, <1>3, <1>4, <1>5, <1>6, ZenonT(60) DEF Call

\* Every step of a description, a change and an opening keeps the invariant.
LEMMA StepInv ==
  ASSUME IInv, Step
  PROVE  IInv'
<1>1. GreatestExists /\ SmallCardinals
  BY LibraryFacts, Zenon
<1>2. ASSUME NEW b \in Blocks, AssignAllocate(b) PROVE IInv'
  BY <1>2, AssignAllocateInv, Zenon
<1>3. AssignClear \/ AllocateFails \/ Assign => IInv'
  BY AssignClearInv, AllocateFailsInv, AssignInv, Zenon
<1>4. SetSize => IInv'
  BY <1>1, SetReplaceInv, SetSwapInv, SetUpdateInv, SMTT(30)
<1>5. UpdateEntry \/ UpdateDone => IInv'
  BY <1>1, UpdateEntryInv, UpdateDoneInv, Zenon
<1>6. ReplaceDrop \/ ReplaceCell \/ ReplaceRef => IInv'
  BY ReplaceDropInv, ReplaceCellInv, ReplaceRefInv, Zenon
<1>7. SwapPart1 \/ SwapPart2 => IInv'
  BY SwapPart1Inv, SwapPart2Inv, Zenon
<1>8. FinishSize \/ ClearDrop \/ ClearCell => IInv'
  BY FinishSizeInv, ClearDropInv, ClearCellInv, Zenon
<1>9. Recover => IInv'
  BY <1>1, RecoverInv, ZenonT(60)
<1>10. InsertOwner \/ EraseContent \/ EraseMark => IInv'
  BY InsertOwnerInv, EraseContentInv, EraseMarkInv, Zenon
<1>11. ASSUME NEW b \in Blocks, PinAllocate(b) PROVE IInv'
  BY <1>11, PinAllocateInv, Zenon
<1>12. PinFails \/ PinFixed => IInv'
  BY PinFailsInv, PinFixedInv, Zenon
<1> QED BY <1>2, <1>3, <1>4, <1>5, <1>6, <1>7, <1>8, <1>9, <1>10, <1>11, <1>12, ZenonT(60) DEF Step

\* Every step of calls, changes, crashes and openings keeps the invariant.
LEMMA NextInv ==
  ASSUME SwapCrash = FALSE, IInv, [Next]_vars
  PROVE  IInv'
<1>1. Crash => IInv'
  BY CrashInv, Zenon
<1>2. UNCHANGED vars => IInv'
  BY StutterInv, Zenon
<1> QED BY <1>1, <1>2, CallStepInv, StepInv, SMTT(30) DEF Next

-----------------------------------------------------------------------------
(* Theorems *)

\* The inductive invariant of the redo record, where no crash strikes a pending swap_keys:
\* in every step of a put, a resize, an atomic_update, an erase, a pin and an opening.
THEOREM RecordInvariant ==
  ASSUME SwapCrash = FALSE
  PROVE  Spec => []IInv
<1>1. IInv /\ [Next]_vars => IInv'
  BY NextInv, Zenon
<1> QED BY <1>1, InitInv, PTL DEF Spec

\* The types, and no count of references below zero.
THEOREM RecordTypes ==
  ASSUME SwapCrash = FALSE
  PROVE  Spec => []TypeOK
<1>1. IInv => TypeOK
  BY Parts, Zenon
<1> QED BY <1>1, RecordInvariant, PTL

\* persist_atomic_controller: wherever the process stops without a null pointer in a cell,
\* what the constructor makes of table and record is what became pending.  Values being
\* pinned are not covered: pin has no record.
THEOREM RecordRestartable ==
  ASSUME SwapCrash = FALSE
  PROVE  Spec => []Restartable
<1>1. IInv => Restartable
  BY MeansCommitted, Zenon
<1> QED BY <1>1, RecordInvariant, PTL

\* Between calls the table holds what the calls made pending, after a crash and an opening
\* too; of a pin that failed or was cut short it holds what that left of the value.
THEOREM RecordAllOrNothing ==
  ASSUME SwapCrash = FALSE
  PROVE  Spec => []AllOrNothing
<1>1. IInv => AllOrNothing
  BY MeansCommitted, Zenon
<1> QED BY <1>1, RecordInvariant, PTL

\* The reference counts of the strings are exact between calls, across crashes, but for
\* the one reference the last opening counted for a content without an owner.
THEOREM RecordCountsExact ==
  ASSUME SwapCrash = FALSE
  PROVE  Spec => []CountsExact
<1>1. IInv => CountsExact
  BY LibraryFacts, CountsAreReferences, Zenon
<1> QED BY <1>1, RecordInvariant, PTL

\* operator= of the string, do_update and the constructor: while a change is pending
\* nothing alters its description, so that it can be carried out again.
THEOREM RecordSourceStable ==
  ASSUME SwapCrash = FALSE
  PROVE  Spec => SourceStable
<1>1. IInv /\ [Next]_vars =>
        [rec.size # 0 /\ rec'.size # 0 =>
           /\ ValueOf(rec.mapped)' = ValueOf(rec.mapped)
           /\ rec'.key = rec.key /\ rec'.ctl = rec.ctl]_vars
  BY LibraryFacts, SourceKept, Zenon
<1> QED BY <1>1, RecordInvariant, PTL DEF Spec, SourceStable
=============================================================================
