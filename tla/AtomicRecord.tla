---------------------------- MODULE AtomicRecord ----------------------------
(***************************************************************************)
(* The redo record of hstore: persist_atomic and                           *)
(* persist_atomic_controller under src/src/components/store/hstore/src.    *)
(* put over a key, resize, atomic_update and swap_keys describe a change   *)
(* in the record, make it pending by the one store of mod_size, carry it   *)
(* out and clear the record; the constructor carries out a pending change  *)
(* again after a crash.                                                    *)
(*                                                                         *)
(* Values are persist_fixed_string: a short one is held in the cell, a     *)
(* long or a pinned one in a counted block of the reconstituting heap      *)
(* (heap_rc), whose counts are rebuilt from the references when the pool   *)
(* is opened.  A crash is a process that stops between two stores: what    *)
(* was stored stays.  Between the release of a block and the store that    *)
(* makes its cell inline the cell is out of line with a null pointer, and  *)
(* a pool in that state cannot be opened; SwapCrash and FreeCrash say      *)
(* whether crashes strike a pending swap_keys and these intervals.         *)
(***************************************************************************)
EXTENDS Integers, Sequences, FiniteSets

CONSTANTS Keys, NoKey, Blocks, NoBlock, Bytes, Absent,
          Lengths,      \* of the values
          SmallLimit,   \* a value of this length or more is out of line
          MaxWrites,    \* bound on the bytes of an atomic_update
          SwapCrash,    \* whether a crash may strike a pending swap_keys
          FreeCrash,    \* whether a crash may find a null pointer in a cell
          MaxCrashes    \* bound on crashes

ASSUME AtomicRecordAssumption ==
  /\ NoKey \notin Keys
  /\ NoBlock \notin Blocks
  /\ Lengths \subseteq Nat \ {0}
  /\ SmallLimit \in Nat
  /\ MaxWrites \in Nat
  /\ MaxCrashes \in Nat
  /\ SwapCrash \in BOOLEAN /\ FreeCrash \in BOOLEAN
  /\ Absent \notin Seq(Bytes)

VARIABLES table,      \* the cell of each key in the hash table
          loose,      \* the value of a content in use that no bucket owns
          heap,       \* the blocks: reference count (0 is free) and bytes
          rec,        \* persist_atomic
          pc, op,     \* the next step, the arguments of the call
          i,          \* the index of do_update
          up,         \* FALSE from a crash to the end of the constructor
          orphan,     \* the block the last opening counted for such a content
          committed,  \* history: what the calls made pending so far make
          crashes

vars == <<table, loose, heap, rec, pc, op, i, up, orphan, committed, crashes>>

Values == UNION {[1 .. n -> Bytes] : n \in Lengths}
Updates == UNION {[dst : [1 .. n -> UNION {1 .. m : m \in Lengths}], src : [1 .. n -> Bytes]] :
                    n \in 1 .. MaxWrites}

(* A persist_fixed_string; a key that is not in the table has Absent.      *)
Inline(v) == [out |-> FALSE, val |-> v, blk |-> NoBlock]
Outline(b) == [out |-> TRUE, val |-> <<>>, blk |-> b]
Empty == Inline(<<>>)
Missing == Inline(Absent)
NullCell == Outline(NoBlock)
Placed(v, b) == IF Len(v) < SmallLimit THEN Inline(v) ELSE Outline(b)

ValueOf(c) ==
  IF ~c.out THEN c.val ELSE IF c.blk \in Blocks THEN heap[c.blk].data ELSE <<>>
Contents == [k \in Keys |-> ValueOf(table[k])]

(* The rest of a record is not read before it is written again.            *)
EmptyRecord == [size |-> 0, key |-> NoKey, mapped |-> Empty, ctl |-> <<>>,
                pd0 |-> NoKey, pd1 |-> NoKey, temp |-> Empty]
NoOp == [size |-> 0, key |-> NoKey, val |-> <<>>, ctl |-> <<>>, blk |-> NoBlock]

(* What the writes of u, in their order, make of the value v.              *)
Writers(u, o) == {n \in DOMAIN u.dst : u.dst[n] = o}
LastWriter(u, o) == CHOOSE n \in Writers(u, o) : \A m \in Writers(u, o) : m <= n
Written(v, u) ==
  [o \in DOMAIN v |-> IF Writers(u, o) = {} THEN v[o] ELSE u.src[LastWriter(u, o)]]

Init ==
  /\ table = [k \in Keys |-> Missing] /\ loose = Missing
  /\ heap = [b \in Blocks |-> [ref |-> 0, data |-> <<>>]]
  /\ rec = EmptyRecord
  /\ pc = "idle" /\ op = NoOp /\ i = 1 /\ up = TRUE
  /\ orphan = NoBlock
  /\ committed = [k \in Keys |-> Absent]
  /\ crashes = 0

(* outline_t::assign and the counts of operator=, clear and destructor.    *)
(* The bytes of a block are gone with its last reference, and free stores  *)
(* a null pointer in the cell, which is still marked out of line.          *)
Allocated(b, v) == [heap EXCEPT ![b] = [ref |-> 1, data |-> v]]
Dropped(x) == [ref |-> x.ref - 1, data |-> IF x.ref = 1 THEN <<>> ELSE x.data]
Counted(c) == c.out /\ c.blk \in Blocks
DropRef(c) == IF Counted(c) THEN [heap EXCEPT ![c.blk] = Dropped(@)] ELSE heap
Released(c) == IF Counted(c) /\ heap[c.blk].ref = 1 THEN NullCell ELSE c
AddRef(c) == IF Counted(c) THEN [heap EXCEPT ![c.blk].ref = @ + 1] ELSE heap
FreeBlocks == {b \in Blocks : heap[b].ref = 0}

(* emplace: the content, marked in use, then its owner.                    *)
Insert(k, v, b) ==
  /\ pc = "idle" /\ table[k] = Missing
  /\ Len(v) >= SmallLimit => b \in FreeBlocks
  /\ loose' = Placed(v, b)
  /\ heap' = IF Len(v) < SmallLimit THEN heap ELSE Allocated(b, v)
  /\ op' = [NoOp EXCEPT !.key = k, !.val = v]
  /\ pc' = "own"
  /\ UNCHANGED <<table, rec, i, up, orphan, committed, crashes>>

InsertOwner ==
  /\ pc = "own"
  /\ table' = [table EXCEPT ![op.key] = loose] /\ loose' = Missing
  /\ committed' = [committed EXCEPT ![op.key] = op.val]
  /\ op' = NoOp
  /\ pc' = "idle"
  /\ UNCHANGED <<heap, rec, i, up, orphan, crashes>>

(* erase: the owner gives the content up; the content is destroyed; it is  *)
(* marked free.                                                            *)
Erase(k) ==
  /\ pc = "idle" /\ table[k] # Missing
  /\ loose' = table[k] /\ table' = [table EXCEPT ![k] = Missing]
  /\ committed' = [committed EXCEPT ![k] = Absent]
  /\ pc' = "destroy"
  /\ UNCHANGED <<heap, rec, op, i, up, orphan, crashes>>

(* Mutant: the block is released both by the clear and by the destructor.  *)
EraseContentTwice ==
  /\ pc = "destroy"
  /\ heap' = [b \in Blocks |-> IF loose.blk = b THEN Dropped(Dropped(heap[b])) ELSE heap[b]]
  /\ loose' = Released(loose)
  /\ pc' = "unmark"
  /\ UNCHANGED <<table, rec, op, i, up, orphan, committed, crashes>>

EraseContent ==
  /\ pc = "destroy"
  /\ heap' = DropRef(loose) /\ loose' = Released(loose)
  /\ pc' = "unmark"
  /\ UNCHANGED <<table, rec, op, i, up, orphan, committed, crashes>>

EraseMark ==
  /\ pc = "unmark"
  /\ loose' = Missing
  /\ pc' = "idle"
  /\ UNCHANGED <<table, heap, rec, op, i, up, orphan, committed, crashes>>

(* pin, of a value that is to be locked: the pointer is made in the bytes  *)
(* of the value, of which w is left; then the cell is marked out of line.  *)
Pin(k, w) ==
  /\ pc = "idle" /\ table[k] # Missing /\ ~table[k].out
  /\ Len(w) = Len(table[k].val)
  /\ op' = [NoOp EXCEPT !.key = k, !.val = table[k].val]
  /\ table' = [table EXCEPT ![k] = Inline(w)]
  /\ pc' = "pin"
  /\ UNCHANGED <<loose, heap, rec, i, up, orphan, committed, crashes>>

PinAllocate(b) ==
  /\ pc = "pin" /\ b \in FreeBlocks
  /\ heap' = Allocated(b, op.val)
  /\ op' = [op EXCEPT !.blk = b]
  /\ pc' = "pin_fixed"
  /\ UNCHANGED <<table, loose, rec, i, up, orphan, committed, crashes>>

(* The heap is exhausted: the call fails, and the value is what is left.   *)
PinFails ==
  /\ pc = "pin" /\ FreeBlocks = {}
  /\ committed' = [committed EXCEPT ![op.key] = table[op.key].val]
  /\ pc' = "idle" /\ op' = NoOp
  /\ UNCHANGED <<table, loose, heap, rec, i, up, orphan, crashes>>

PinFixed ==
  /\ pc = "pin_fixed"
  /\ table' = [table EXCEPT ![op.key] = Outline(op.blk)]
  /\ pc' = "idle" /\ op' = NoOp
  /\ UNCHANGED <<loose, heap, rec, i, up, orphan, committed, crashes>>

(* enter_replace, of a pinned value: a put of another length, or a resize, *)
(* which may come to the value itself.                                     *)
EnterReplace(k, v) ==
  /\ pc = "idle"
  /\ table[k].out /\ (Len(v) = Len(ValueOf(table[k])) => v = ValueOf(table[k]))
  /\ op' = [NoOp EXCEPT !.size = -1, !.key = k, !.val = v]
  /\ heap' = DropRef(rec.mapped) /\ rec' = [rec EXCEPT !.mapped = Released(@)]
  /\ pc' = "unassign"
  /\ UNCHANGED <<table, loose, i, up, orphan, committed, crashes>>

(* enter_update; the key may be missing.  A write beyond the value, which  *)
(* the code does not refuse, is not of this model.                         *)
EnterUpdate(k, u) ==
  /\ pc = "idle"
  /\ table[k] # Missing => \A n \in DOMAIN u.dst : u.dst[n] \in DOMAIN ValueOf(table[k])
  /\ op' = [NoOp EXCEPT !.size = Len(u.src), !.key = k, !.val = u.src, !.ctl = u.dst]
  /\ heap' = DropRef(rec.mapped) /\ rec' = [rec EXCEPT !.mapped = Released(@)]
  /\ pc' = "unassign"
  /\ UNCHANGED <<table, loose, i, up, orphan, committed, crashes>>

(* assign: the clear of mod_mapped, then a new block if it takes one, then *)
(* the cell.                                                               *)
AssignClear ==
  /\ pc = "unassign"
  /\ rec' = [rec EXCEPT !.mapped = Empty, !.key = op.key]
  /\ pc' = "allocate"
  /\ UNCHANGED <<table, loose, heap, op, i, up, orphan, committed, crashes>>

AssignAllocate(b) ==
  /\ pc = "allocate" /\ Len(op.val) >= SmallLimit /\ b \in FreeBlocks
  /\ heap' = Allocated(b, op.val)
  /\ op' = [op EXCEPT !.blk = b]
  /\ pc' = "assign"
  /\ UNCHANGED <<table, loose, rec, i, up, orphan, committed, crashes>>

(* The heap is exhausted: the call fails with the record not pending.      *)
AllocateFails ==
  /\ pc = "allocate" /\ Len(op.val) >= SmallLimit /\ FreeBlocks = {}
  /\ pc' = "idle" /\ op' = NoOp
  /\ UNCHANGED <<table, loose, heap, rec, i, up, orphan, committed, crashes>>

Assign ==
  /\ \/ pc = "assign"
     \/ pc = "allocate" /\ Len(op.val) < SmallLimit
  /\ rec' = [rec EXCEPT !.mapped = Placed(op.val, op.blk), !.ctl = op.ctl]
  /\ pc' = "size"
  /\ UNCHANGED <<table, loose, heap, op, i, up, orphan, committed, crashes>>

(* enter_swap, of two pinned values.                                       *)
EnterSwap(k0, k1) ==
  /\ pc = "idle"
  /\ k0 # k1 /\ table[k0].out /\ table[k1].out
  /\ rec' = [rec EXCEPT !.pd0 = k0, !.pd1 = k1, !.temp = table[k0]]
  /\ op' = [NoOp EXCEPT !.size = -2]
  /\ pc' = "size"
  /\ UNCHANGED <<table, loose, heap, i, up, orphan, committed, crashes>>

(* do_op.                                                                  *)
DoOp(size) ==
  CASE size = 0 -> "idle" [] size = -1 -> "replace" [] size = -2 -> "swap" [] OTHER -> "update"

(* What the change that becomes pending is to make.                        *)
Intended ==
  CASE op.size = -1 -> [committed EXCEPT ![op.key] = op.val]
    [] op.size = -2 -> [committed EXCEPT ![rec.pd0] = committed[rec.pd1],
                                         ![rec.pd1] = committed[rec.pd0]]
    [] OTHER -> IF table[op.key] = Missing THEN committed
                ELSE [committed EXCEPT ![op.key] = Written(@, [dst |-> op.ctl, src |-> op.val])]

(* The 8-byte atomic write.                                                *)
SetSize ==
  /\ pc = "size"
  /\ rec' = [rec EXCEPT !.size = op.size]
  /\ pc' = DoOp(op.size)
  /\ i' = 1
  /\ committed' = Intended
  /\ op' = NoOp
  /\ UNCHANGED <<table, loose, heap, up, orphan, crashes>>

(* Mutant: the loop of do_update ends one entry early.                     *)
EntryLeftButOne == i < rec.size

EntryLeft == i <= rec.size

(* do_update: the entries one after the other, in place; then, or if the   *)
(* key is missing, update_finish.                                          *)
UpdateEntry ==
  /\ pc = "update" /\ table[rec.key] # Missing /\ EntryLeft
  /\ LET c == table[rec.key]
         d == rec.ctl[i]
         x == ValueOf(rec.mapped)[i]
     IN \/ /\ c.out
           /\ heap' = [heap EXCEPT ![c.blk].data[d] = x] /\ UNCHANGED table
        \/ /\ ~c.out
           /\ table' = [table EXCEPT ![rec.key].val[d] = x] /\ UNCHANGED heap
  /\ i' = i + 1
  /\ UNCHANGED <<loose, rec, pc, op, up, orphan, committed, crashes>>

(* Mutant: the exception of a missing key leaves the constructor with the  *)
(* change still pending.                                                   *)
UpdateDoneThrows ==
  /\ pc = "update" /\ (table[rec.key] = Missing \/ ~EntryLeft)
  /\ pc' = IF up \/ table[rec.key] # Missing THEN "finish" ELSE "down"
  /\ UNCHANGED <<table, loose, heap, rec, op, i, up, orphan, committed, crashes>>

UpdateDone ==
  /\ pc = "update" /\ (table[rec.key] = Missing \/ ~EntryLeft)
  /\ pc' = "finish"
  /\ UNCHANGED <<table, loose, heap, rec, op, i, up, orphan, committed, crashes>>

(* do_replace, the assignment of a persist_fixed_string: the old block is  *)
(* dropped, the cell is copied, the new block is counted.                  *)
ReplaceDrop ==
  /\ pc = "replace"
  /\ heap' = DropRef(table[rec.key])
  /\ table' = [table EXCEPT ![rec.key] = Released(@)]
  /\ pc' = "replace_cell"
  /\ UNCHANGED <<loose, rec, op, i, up, orphan, committed, crashes>>

(* Mutant: the string is moved out of the record, not copied.              *)
ReplaceCellMoves ==
  /\ pc = "replace_cell"
  /\ table' = [table EXCEPT ![rec.key] = rec.mapped]
  /\ rec' = [rec EXCEPT !.mapped = Empty]
  /\ pc' = "replace_ref"
  /\ UNCHANGED <<loose, heap, op, i, up, orphan, committed, crashes>>

ReplaceCell ==
  /\ pc = "replace_cell"
  /\ table' = [table EXCEPT ![rec.key] = rec.mapped]
  /\ pc' = "replace_ref"
  /\ UNCHANGED <<loose, heap, rec, op, i, up, orphan, committed, crashes>>

ReplaceRef ==
  /\ pc = "replace_ref"
  /\ heap' = AddRef(rec.mapped)
  /\ pc' = "finish"
  /\ UNCHANGED <<table, loose, rec, op, i, up, orphan, committed, crashes>>

(* do_swap copies the cells, pointers and all.                             *)
SwapPart1 ==
  /\ pc = "swap"
  /\ table' = [table EXCEPT ![rec.pd0] = table[rec.pd1]]
  /\ pc' = "swap_part2"
  /\ UNCHANGED <<loose, heap, rec, op, i, up, orphan, committed, crashes>>

(* Mutant: the second value is taken from where the first was.             *)
SwapPart2Direct ==
  /\ pc = "swap_part2"
  /\ table' = [table EXCEPT ![rec.pd1] = table[rec.pd0]]
  /\ pc' = "finish"
  /\ UNCHANGED <<loose, heap, rec, op, i, up, orphan, committed, crashes>>

SwapPart2 ==
  /\ pc = "swap_part2"
  /\ table' = [table EXCEPT ![rec.pd1] = rec.temp]
  /\ pc' = "finish"
  /\ UNCHANGED <<loose, heap, rec, op, i, up, orphan, committed, crashes>>

(* do_finish: no longer pending; then the strings of the record.           *)
FinishSize ==
  /\ pc = "finish"
  /\ rec' = [rec EXCEPT !.size = 0]
  /\ pc' = "clear"
  /\ UNCHANGED <<table, loose, heap, op, i, up, orphan, committed, crashes>>

ClearDrop ==
  /\ pc = "clear"
  /\ heap' = DropRef(rec.mapped) /\ rec' = [rec EXCEPT !.mapped = Released(@)]
  /\ pc' = "clear_cell"
  /\ UNCHANGED <<table, loose, op, i, up, orphan, committed, crashes>>

(* An update of a missing key ends with an exception: in the constructor   *)
(* it fails the opening of the pool, and the next opening finds no change. *)
ClearCell ==
  /\ pc = "clear_cell"
  /\ pc' = IF ~up /\ rec.key # NoKey /\ table[rec.key] = Missing THEN "down" ELSE "idle"
  /\ up' = (pc' = "idle")
  /\ rec' = EmptyRecord
  /\ i' = 1
  /\ UNCHANGED <<table, loose, heap, op, orphan, committed, crashes>>

(* A cell marked out of line with a null pointer, where an opening finds it.*)
Unreadable == NullCell \in {table[k] : k \in Keys} \cup {loose, rec.mapped}

(* The bound on crashes: the ones after the first strike the constructor.  *)
(* A value that was being pinned is what is left of it.                    *)
Crash ==
  /\ pc # "down" /\ crashes < MaxCrashes /\ (crashes > 0 => ~up)
  /\ rec.size = -2 => SwapCrash
  /\ Unreadable => FreeCrash
  /\ crashes' = crashes + 1
  /\ committed' = IF pc \in {"pin", "pin_fixed"}
                  THEN [committed EXCEPT ![op.key] = table[op.key].val] ELSE committed
  /\ pc' = "down" /\ up' = FALSE /\ op' = NoOp
  /\ UNCHANGED <<table, loose, heap, rec, i, orphan>>

Refers(c, b) == c.out /\ c.blk = b

(* Mutant: every block that is reconstituted counts one reference.         *)
ReferencesOnce(b) ==
  IF \/ Refers(rec.mapped, b) \/ Refers(loose, b)
     \/ \E k \in Keys : Refers(table[k], b) THEN 1 ELSE 0

References(b) ==
  Cardinality({k \in Keys : Refers(table[k], b)})
  + (IF Refers(rec.mapped, b) THEN 1 ELSE 0) + (IF Refers(loose, b) THEN 1 ELSE 0)

(* The pool is opened: the contents in use and the record reconstitute     *)
(* what they refer to, each block with the number of its references; then  *)
(* a content without an owner is marked free; then do_op.  A null pointer  *)
(* ends the process in reconstitute, each time.                            *)
Recover ==
  /\ pc = "down" /\ ~Unreadable
  /\ heap' = [b \in Blocks |-> [heap[b] EXCEPT !.ref = References(b)]]
  /\ orphan' = loose.blk /\ loose' = Missing
  /\ pc' = DoOp(rec.size)
  /\ up' = (pc' = "idle")
  /\ i' = 1
  /\ UNCHANGED <<table, rec, op, committed, crashes>>

Step ==
  \/ InsertOwner \/ EraseContent \/ EraseMark
  \/ (\E b \in Blocks : PinAllocate(b)) \/ PinFails \/ PinFixed
  \/ AssignClear \/ (\E b \in Blocks : AssignAllocate(b)) \/ AllocateFails \/ Assign
  \/ SetSize
  \/ UpdateEntry \/ UpdateDone
  \/ ReplaceDrop \/ ReplaceCell \/ ReplaceRef
  \/ SwapPart1 \/ SwapPart2
  \/ FinishSize \/ ClearDrop \/ ClearCell
  \/ Recover

Call ==
  \E k \in Keys :
    \/ \E v \in Values, b \in Blocks : Insert(k, v, b)
    \/ Erase(k)
    \/ \E w \in Values : Pin(k, w)
    \/ \E v \in Values : EnterReplace(k, v)
    \/ \E u \in Updates : EnterUpdate(k, u)
    \/ \E k1 \in Keys : EnterSwap(k, k1)

Next == Call \/ Step \/ Crash

(* A process that runs goes on with its call, and a pool that is down is   *)
(* opened again.                                                           *)
Spec == Init /\ [][Next]_vars /\ WF_vars(Step)

-----------------------------------------------------------------------------
Cell == [out : BOOLEAN, val : Seq(Bytes) \cup {Absent}, blk : Blocks \cup {NoBlock}]
Heap == [Blocks -> [ref : Nat, data : Seq(Bytes)]]
KeyRef == Keys \cup {NoKey}
Record == [size : Int, key : KeyRef, mapped : Cell, ctl : Seq(Nat),
           pd0 : KeyRef, pd1 : KeyRef, temp : Cell]
Args == [size : Int, key : KeyRef, val : Seq(Bytes), ctl : Seq(Nat), blk : Blocks \cup {NoBlock}]
Pcs == {"idle", "own", "destroy", "unmark", "pin", "pin_fixed",
        "unassign", "allocate", "assign", "size", "update", "replace",
        "replace_cell", "replace_ref", "swap", "swap_part2", "finish", "clear",
        "clear_cell", "down"}

(* The variables keep their types; no count of references goes below zero  *)
(* (the assertion of fixed_string::dec_ref).                               *)
TypeOK ==
  /\ table \in [Keys -> Cell] /\ loose \in Cell
  /\ heap \in Heap
  /\ rec \in Record
  /\ op \in Args
  /\ pc \in Pcs /\ up \in BOOLEAN
  /\ i \in Nat /\ crashes \in Nat
  /\ orphan \in Blocks \cup {NoBlock}
  /\ committed \in [Keys -> Seq(Bytes) \cup {Absent}]

(* What the constructor makes of the table if the process stops now.       *)
Redone ==
  CASE rec.size = 0 -> Contents
    [] rec.size = -1 -> [Contents EXCEPT ![rec.key] = ValueOf(rec.mapped)]
    [] OTHER -> IF table[rec.key] = Missing THEN Contents
                ELSE [Contents EXCEPT ![rec.key] =
                        Written(@, [dst |-> rec.ctl, src |-> ValueOf(rec.mapped)])]

(* Wherever the process stops, in the call, in the redo or in a redo of a  *)
(* redo, the table and the record together hold exactly the changes that   *)
(* became pending: a put, a resize and an atomic_update are all or nothing.*)
(* Not claimed while swap_keys is pending (AllOrNothing of the run         *)
(* atomic_swap), while a value is pinned (PinHarmless) and while a cell    *)
(* has a null pointer, from which no opening comes (ReplaceRestarts).      *)
Restartable ==
  rec.size # -2 /\ pc \notin {"pin", "pin_fixed"} /\ ~Unreadable => Redone = committed

(* When no call is in progress the table holds what the calls made.        *)
AllOrNothing == pc = "idle" => Contents = committed

(* When no call is in progress every block is counted as often as it is    *)
(* referred to, whatever crashes came before, so that none is freed in use *)
(* and none is leaked but the block of the one value whose insertion or    *)
(* erasure the last crash cut short, until the pool is opened again.       *)
CountsExact ==
  pc = "idle" =>
    \A b \in Blocks : heap[b].ref = References(b) + (IF b = orphan THEN 1 ELSE 0)

(* While a change is pending nothing alters its description: "must not     *)
(* alter other until this is persisted" (operator= of the string).         *)
SourceStable ==
  [][rec.size # 0 /\ rec'.size # 0 =>
       /\ ValueOf(rec.mapped)' = ValueOf(rec.mapped)
       /\ rec'.key = rec.key /\ rec'.ctl = rec.ctl]_vars

(* An opening ends: after a crash that finds no null pointer the pool is   *)
(* again ready for calls, an update of a missing key notwithstanding.      *)
Recovers == pc = "down" ~> pc = "idle"

(* A replacement that a crash cut short is carried out: do_replace "relies *)
(* on the Table::mapped_type::operator= being restartable after a crash".  *)
ReplaceRestarts == (pc = "down" /\ rec.size = -1) ~> pc = "idle"

(* The pinning of a value, which locking it takes, does not change it.     *)
PinHarmless == [][(pc \in {"pin", "pin_fixed"}) => (committed' = committed)]_vars
=============================================================================
