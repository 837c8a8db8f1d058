-------------------------- MODULE AdoInvokeProofs ---------------------------
(***************************************************************************)
(* The completions and sessions keep the invariant of AdoInvokeInvariant,  *)
(* which holds throughout: the types, the backing of the locks, at most    *)
(* one answer for each request, and the stability of the targets of        *)
(* requests follow for every value of the constants.  Where none of the    *)
(* known ways to lose one exists, no lock and no answer is lost.           *)
(***************************************************************************)
EXTENDS AdoInvokeInvariant

-----------------------------------------------------------------------------
(* Completions *)

\* A request leaves the head of the queue for the end of the completions.
LEMMA QueueMoves ==
  ASSUME TypeOK, QueueInv, DoneInv, ApartInv, queue # <<>>, NEW w, w = Head(queue),
         outstanding' = outstanding, queue' = Tail(queue), done' = Append(done, w)
  PROVE  QueueInv' /\ DoneInv' /\ ApartInv' /\ queue' \in Seq(Works) /\ done' \in Seq(Works)
<1>1. queue \in Seq(Works) /\ done \in Seq(Works)
  BY Zenon DEF TypeOK
<1>2. /\ queue' \in Seq(Works) /\ Len(queue) \in Nat /\ Len(queue) > 0 /\ Len(queue') = Len(queue) - 1
      /\ \A i \in 1 .. Len(queue') : i + 1 \in 1 .. Len(queue) /\ queue'[i] = queue[i + 1]
      /\ w = queue[1] /\ 1 \in 1 .. Len(queue) /\ w \in Works
  BY <1>1
<1>3. /\ done' \in Seq(Works) /\ Len(done) \in Nat /\ Len(done') = Len(done) + 1
      /\ done'[Len(done) + 1] = w /\ \A i \in 1 .. Len(done) : done'[i] = done[i]
      /\ \A i \in 1 .. Len(done') : i \in 1 .. Len(done) \/ i = Len(done) + 1
  BY <1>1, <1>2
<1>4. QueueInv'
  <2>1. \A i \in 1 .. Len(queue') : queue'[i] \in outstanding
    BY <1>2, Zenon DEF QueueInv
  <2>2. \A i, j \in 1 .. Len(queue') : queue'[i] = queue'[j] => i + 1 = j + 1
    BY <1>2 DEF QueueInv
  <2>3. \A i, j \in 1 .. Len(queue') : i + 1 = j + 1 => i = j
    OBVIOUS
  <2> QED BY <2>1, <2>2, <2>3, Zenon DEF QueueInv
<1>5. w \in outstanding /\ \A j \in 1 .. Len(done) : done[j] # w
  BY <1>2 DEF QueueInv, ApartInv
<1>6. DoneInv'
  BY <1>3, <1>5 DEF DoneInv
<1>7. ApartInv'
  <2>1. \A i \in 1 .. Len(queue') : i + 1 # 1 /\ queue'[i] # w
    BY <1>2 DEF QueueInv
  <2>2. \A i \in 1 .. Len(queue'), j \in 1 .. Len(done) : queue'[i] # done[j]
    BY <1>2 DEF ApartInv
  <2> QED BY <1>3, <2>1, <2>2 DEF ApartInv
<1> QED BY <1>2, <1>3, <1>4, <1>6, <1>7, Zenon

\* The first completion is taken.
LEMMA DoneShrinks ==
  ASSUME TypeOK, QueueInv, DoneInv, ApartInv, done # <<>>, NEW w, w = Head(done),
         outstanding' = outstanding \ {w}, queue' = queue, done' = Tail(done)
  PROVE  /\ w \in outstanding /\ QueueInv' /\ DoneInv' /\ ApartInv' /\ done' \in Seq(Works)
<1>1. queue \in Seq(Works) /\ done \in Seq(Works)
  BY Zenon DEF TypeOK
<1>2. /\ done' \in Seq(Works) /\ Len(done) \in Nat /\ Len(done) > 0 /\ Len(done') = Len(done) - 1
      /\ \A i \in 1 .. Len(done') : i + 1 \in 1 .. Len(done) /\ done'[i] = done[i + 1]
      /\ w = done[1] /\ 1 \in 1 .. Len(done)
  BY <1>1
<1>3. w \in outstanding
  BY <1>2, Zenon DEF DoneInv
<1>4. \A i \in 1 .. Len(done') : done'[i] # w
  BY <1>2 DEF DoneInv
<1>5. DoneInv'
  <2>1. \A i \in 1 .. Len(done') : done'[i] \in outstanding'
    BY <1>2, <1>4, Zenon DEF DoneInv
  <2>2. \A i, j \in 1 .. Len(done') : done'[i] = done'[j] => i + 1 = j + 1
    BY <1>2 DEF DoneInv
  <2>3. \A i, j \in 1 .. Len(done') : i + 1 = j + 1 => i = j
    OBVIOUS
  <2> QED BY <2>1, <2>2, <2>3, Zenon DEF DoneInv
<1>6. QueueInv'
  <2>1. \A i \in 1 .. Len(queue) : queue[i] # w
    BY <1>2, Zenon DEF ApartInv
  <2> QED BY <2>1, Zenon DEF QueueInv
<1>7. ApartInv'
  BY <1>2, ZenonT(60) DEF ApartInv
<1> QED BY <1>2, <1>3, <1>5, <1>6, <1>7, Zenon

\* The plugin returns from do_work.
LEMMA DoWorkInv ==
  ASSUME IInv, NEW w \in Works, NEW s \in {"ok", "error", "erase"}, DoWork(w, s)
  PROVE  IInv'
<1>1. /\ TypeOK /\ LockInv /\ PresentInv /\ SlotInv /\ SharedInv /\ QueueInv /\ DoneInv /\ ApartInv /\ AnswerInv
  BY Parts, Zenon
<1>2. /\ queue # <<>> /\ w = Head(queue) /\ queue' = Tail(queue) /\ done' = Append(done, w)
      /\ status' = [status EXCEPT ![w] = s]
  BY Zenon DEF DoWork, Running
<1>3. /\ lk' = lk /\ val' = val /\ present' = present /\ outstanding' = outstanding /\ work' = work
      /\ deferred' = deferred /\ life' = life /\ explicit' = explicit /\ req' = req /\ connected' = connected
      /\ shared' = shared /\ sending' = sending /\ alive' = alive /\ signals' = signals
  BY Zenon DEF DoWork, store, plugin, client
<1>4. QueueInv' /\ DoneInv' /\ ApartInv' /\ queue' \in Seq(Works) /\ done' \in Seq(Works)
  BY <1>1, <1>2, <1>3, QueueMoves, Zenon
<1>5. StoreTypes /\ SlotTypes /\ PluginTypes /\ ShardTypes /\ ClientTypes
  BY <1>1, TypeParts, Zenon
<1>6. StoreTypes' /\ PluginTypes' /\ ShardTypes' /\ ClientTypes'
  BY <1>3, <1>5, Zenon DEF StoreTypes, PluginTypes, ShardTypes, ClientTypes
<1>7. SlotTypes'
  <2>1. status' \in [Works -> {"ok", "error", "erase"}]
    BY <1>2, <1>5, Zenon DEF SlotTypes
  <2> QED BY <1>3, <1>4, <1>5, <2>1, Zenon DEF SlotTypes
<1>8. LockInv' /\ PresentInv' /\ SlotInv' /\ SharedInv' /\ AnswerInv'
  <2>1. LockInv' /\ PresentInv'
    BY <1>1, <1>3, Zenon DEF LockInv, Readers, Writers, PresentInv
  <2>2. SlotInv' /\ SharedInv'
    BY <1>1, <1>3, Zenon DEF SlotInv, SharedInv, SendingOf, Getting
  <2>3. AnswerInv'
    BY <1>1, <1>3, ZenonT(60) DEF AnswerInv, Waits
  <2> QED BY <2>1, <2>2, <2>3, Zenon
<1>9. TypeOK'
  BY <1>6, <1>7, TypeParts, Zenon
<1> QED BY <1>4, <1>8, <1>9, Parts, Zenon

\* A request is retired; what becomes of its lock and of its client is left open.
LEMMA RetireStep ==
  ASSUME IInv, NEW w \in Works, Completed(w), Retire(w), StoreInv', SharedInv', shared' = shared,
         sending' \in [Clients -> Keys \cup {NoKey}], alive' \in BOOLEAN,
         req' \in [Clients -> {"ok", "error", "waiting"}],
         \A u \in outstanding \ {w} : Waits(u) => req'[work[u].handler] = req[work[u].handler]
  PROVE  IInv'
<1>1. /\ TypeOK /\ SlotInv /\ QueueInv /\ DoneInv /\ ApartInv /\ AnswerInv
  BY Parts, Zenon
<1>2. StoreTypes' /\ LockInv' /\ PresentInv'
  BY Zenon DEF StoreInv
<1>3. done # <<>> /\ w = Head(done)
  BY Zenon DEF Completed
<1>4. /\ done' = Tail(done) /\ outstanding' = outstanding \ {w} /\ deferred' = [deferred EXCEPT ![w] = {}]
      /\ work' = [work EXCEPT ![w] = NoWork] /\ status' = [status EXCEPT ![w] = "ok"]
      /\ queue' = queue /\ life' = life /\ explicit' = explicit /\ connected' = connected /\ signals' = signals
  BY Zenon DEF Retire
<1>5. QueueInv' /\ DoneInv' /\ ApartInv' /\ done' \in Seq(Works)
  BY <1>1, <1>3, <1>4, DoneShrinks, Zenon
<1>6. SlotTypes /\ PluginTypes /\ ShardTypes /\ ClientTypes
  BY <1>1, TypeParts, Zenon
<1>7. SlotTypes'
  <2>1. NoWork \in WorkRecord
    BY Zenon DEF NoWork, WorkRecord
  <2>2. work' \in [Works -> WorkRecord] /\ status' \in [Works -> {"ok", "error", "erase"}]
    BY <1>4, <1>6, <2>1, Zenon DEF SlotTypes
  <2> QED BY <1>4, <1>5, <1>6, <2>2, Zenon DEF SlotTypes
<1>8. PluginTypes'
  BY <1>4, <1>6, Zenon DEF PluginTypes
<1>9. ShardTypes' /\ ClientTypes'
  BY <1>4, <1>6, Zenon DEF ShardTypes, ClientTypes
<1>10. \A u \in outstanding' : u \in outstanding /\ u # w /\ work'[u] = work[u] /\ deferred'[u] = deferred[u]
  BY <1>4, <1>6, Zenon DEF SlotTypes, PluginTypes
<1>11. \A u \in Works \ outstanding' : deferred'[u] = {}
  BY <1>1, <1>4, <1>6, Zenon DEF SlotInv, PluginTypes
<1>12. SlotInv'
  BY <1>1, <1>4, <1>10, <1>11, ZenonT(60) DEF SlotInv
<1>13. AnswerInv'
  BY <1>1, <1>10 DEF AnswerInv, Waits
<1>14. TypeOK'
  BY <1>2, <1>7, <1>8, <1>9, TypeParts, Zenon
<1> QED BY <1>2, <1>5, <1>12, <1>13, <1>14, Parts, Zenon

\* The locks of the request are released, and its target erased when nobody else has it.
LEMMA ReleasedStore ==
  ASSUME IInv, NEW w \in Works, Completed(w), Retire(w), lk' = Released(w), shared' = shared
  PROVE  StoreInv'
<1>1. TypeOK /\ LockInv /\ PresentInv /\ SlotInv /\ QueueInv /\ DoneInv /\ ApartInv
  BY Parts, Zenon
<1>2. w \in outstanding
  <2>1. /\ done # <<>> /\ w = Head(done) /\ done' = Tail(done) /\ outstanding' = outstanding \ {w} /\ queue' = queue
    BY Zenon DEF Completed, Retire
  <2> QED BY <1>1, <2>1, DoneShrinks, Zenon
<1>3. \A k \in Keys : /\ lk'[k] \in Int /\ lk'[k] >= -1 /\ lk'[k] <= MaxReaders
                      /\ lk[k] = 0 => lk'[k] = 0
                      /\ Backed(lk'[k], Writers(k) \ {w}, explicit[k], Readers(k) \ {w}, shared[k])
  BY <1>1, <1>2, ReleasedBacked, Zenon
<1>4. \A k \in Keys : Readers(k)' = Readers(k) \ {w} /\ Writers(k)' = Writers(k) \ {w} /\ explicit' = explicit
  BY <1>1, RetireEffect, Zenon
<1>5. LockInv'
  BY <1>3, <1>4, Zenon DEF LockInv
<1>6. /\ val' = val /\ present' \subseteq present
      /\ \A k \in present : k \notin present' => Released(w)[k] = 0
  BY Zenon DEF Retire, Erases
<1>7. PresentInv'
  BY <1>1, <1>3, <1>6, Zenon DEF PresentInv
<1>8. StoreTypes'
  <2>1. lk' = [k \in Keys |-> lk'[k]]
    BY Zenon DEF Released, Give
  <2>2. \A k \in Keys : lk'[k] \in -1 .. MaxReaders
    <3> SUFFICES ASSUME NEW k \in Keys PROVE lk'[k] \in -1 .. MaxReaders
      BY Zenon
    <3>1. lk'[k] \in Int /\ lk'[k] >= -1 /\ lk'[k] <= MaxReaders /\ MaxReaders \in Nat
      BY <1>3, BoundsAssumption, Zenon
    <3> QED BY <3>1
  <2>3. lk' \in [Keys -> -1 .. MaxReaders]
    BY <2>1, <2>2, Zenon
  <2> QED BY <1>1, <1>6, <2>3, Zenon DEF StoreTypes, TypeOK
<1> QED BY <1>5, <1>7, <1>8, Zenon DEF StoreInv

\* Nothing more is to be sent.
LEMMA RetireShared ==
  ASSUME IInv, NEW w \in Works, Retire(w), sending' = sending, shared' = shared
  PROVE  SharedInv' /\ sending' \in [Clients -> Keys \cup {NoKey}]
<1>1. TypeOK /\ SharedInv /\ LargeKeys \subseteq Keys
  BY Parts, KeysAssumption, Zenon
<1>2. ASSUME NEW k \in LargeKeys PROVE Cardinality(SendingOf(k)') + Cardinality(Getting(k)') <= shared'[k]
  <2>1. k \in Keys /\ SendingOf(k)' = SendingOf(k) /\ Getting(k)' \subseteq Getting(k)
    BY <1>1, RetireEffect, Zenon DEF SendingOf
  <2>2. shared[k] \in Nat /\ Getting(k) \subseteq Works /\ SendingOf(k) \subseteq Clients
    BY <1>1, <2>1, LockTypes, Zenon
  <2>3. IsFiniteSet(Getting(k)) /\ Cardinality(Getting(k)) \in Nat /\ Cardinality(SendingOf(k)) \in Nat
    BY <2>2, Finite, Zenon
  <2>4. Cardinality(Getting(k)') \in Nat /\ Cardinality(Getting(k)') <= Cardinality(Getting(k))
    BY <2>1, <2>3, Fewer, Zenon
  <2>5. Cardinality(SendingOf(k)) + Cardinality(Getting(k)) <= shared[k]
    BY <1>1, Zenon DEF SharedInv
  <2> QED BY <2>1, <2>2, <2>3, <2>4, <2>5
<1>3. \A c \in Clients : sending'[c] \in LargeKeys \cup {NoKey}
  BY <1>1, Zenon DEF SharedInv
<1> QED BY <1>1, <1>2, <1>3, Zenon DEF SharedInv, TypeOK

\* A completion with an answer, without one, and for a client that has gone.
LEMMA CompleteInv ==
  ASSUME IInv, NEW w \in Works, Complete(w) \/ CompleteStale(w)
  PROVE  IInv'
<1>1. /\ Completed(w) /\ Retire(w) /\ lk' = Released(w) /\ sending' = sending /\ shared' = shared
  BY Zenon DEF Complete, CompleteWith, CompleteStale
<1>2. StoreInv' /\ SharedInv' /\ sending' \in [Clients -> Keys \cup {NoKey}]
  BY <1>1, ReleasedStore, RetireShared, Zenon
<1>3. /\ TypeOK /\ QueueInv /\ DoneInv /\ ApartInv /\ AnswerInv /\ alive \in BOOLEAN
      /\ req \in [Clients -> {"ok", "error", "waiting"}]
  BY Parts, Zenon DEF TypeOK
<1>4. w \in outstanding
  <2>1. /\ done # <<>> /\ w = Head(done) /\ done' = Tail(done) /\ outstanding' = outstanding \ {w} /\ queue' = queue
    BY <1>1, Zenon DEF Completed, Retire
  <2> QED BY <1>3, <2>1, DoneShrinks, Zenon
<1>5. alive' \in BOOLEAN
  BY <1>3, Zenon DEF Complete, CompleteWith, CompleteStale
<1>6. \/ req' = req
      \/ req' = [req EXCEPT ![work[w].handler] = Outcome(w)] /\ Waits(w)
  BY Zenon DEF Complete, CompleteWith, CompleteStale, Waits
<1>7. CASE req' = req
  BY <1>1, <1>2, <1>3, <1>5, <1>7, RetireStep, ZenonT(60)
<1>8. CASE req' = [req EXCEPT ![work[w].handler] = Outcome(w)] /\ Waits(w)
  <2>1. Outcome(w) \in {"ok", "error", "waiting"}
    <3>1. status[w] \in {"ok", "error", "erase"}
      BY <1>3, Zenon DEF TypeOK
    <3> QED BY <3>1, Zenon DEF Outcome
  <2>2. req' \in [Clients -> {"ok", "error", "waiting"}]
    BY <1>3, <1>8, <2>1, Zenon
  <2>3. \A u \in outstanding \ {w} : Waits(u) => work[u].handler \in Clients /\ work[u].handler # work[w].handler
    BY <1>3, <1>4, <1>8, WorkTypes, ZenonT(60) DEF AnswerInv, Waits
  <2>4. \A u \in outstanding \ {w} : Waits(u) => req'[work[u].handler] = req[work[u].handler]
    BY <1>3, <1>8, <2>3, Zenon
  <2> QED BY <1>1, <1>2, <1>5, <2>2, <2>4, RetireStep, ZenonT(60)
<1> QED BY <1>6, <1>7, <1>8, Zenon

\* A get completes: a large value is locked again, and is on its way to the client.
LEMMA ValueInv ==
  ASSUME IInv, NEW w \in Works, CompleteValue(w)
  PROVE  IInv'
<1> DEFINE k == work[w].key
           h == work[w].handler
           locked == ~Erases(w) /\ k \in present /\ Free(Released(w), k, "read")
<1>1. /\ Completed(w) /\ Retire(w) /\ shared' = shared /\ work[w].kind = "value" /\ h # NoClient /\ alive' = locked
  BY Zenon DEF CompleteValue
<1>2. /\ TypeOK /\ LockInv /\ PresentInv /\ SlotInv /\ SharedInv /\ QueueInv /\ DoneInv /\ ApartInv /\ AnswerInv
      /\ req \in [Clients -> {"ok", "error", "waiting"}] /\ sending \in [Clients -> Keys \cup {NoKey}]
      /\ LargeKeys \subseteq Keys
  BY Parts, KeysAssumption, Zenon DEF TypeOK
<1>3. w \in outstanding
  <2>1. /\ done # <<>> /\ w = Head(done) /\ done' = Tail(done) /\ outstanding' = outstanding \ {w} /\ queue' = queue
    BY <1>1, Zenon DEF Completed, Retire
  <2> QED BY <1>2, <2>1, DoneShrinks, Zenon
<1>4. k \in Keys /\ h \in Clients
  <2>1. work[w].lock = "read" /\ (work[w].lock # "none" => k \in Keys)
    BY <1>1, <1>2, <1>3, Zenon DEF SlotInv
  <2>2. h \in Clients \cup {NoClient}
    BY <1>2, WorkTypes, Zenon
  <2> QED BY <1>1, <2>1, <2>2, Zenon
<1>5. alive' \in BOOLEAN
  BY <1>1, Zenon
<1>6. req' \in [Clients -> {"ok", "error", "waiting"}] /\ \A d \in Clients : d # h => req'[d] = req[d]
  <2>1. req' = [req EXCEPT ![h] = "ok"] \/ req' = req
    BY Zenon DEF CompleteValue
  <2> QED BY <1>2, <2>1, Zenon
<1>7. \A u \in outstanding \ {w} : Waits(u) => work[u].handler \in Clients /\ work[u].handler # h
  <2>1. Waits(w)
    BY <1>1, Zenon DEF Waits
  <2> QED BY <1>2, <1>3, <2>1, WorkTypes, Zenon DEF AnswerInv, Waits
<1>8. \A u \in outstanding \ {w} : Waits(u) => req'[work[u].handler] = req[work[u].handler]
  BY <1>6, <1>7, Zenon
<1>9. CASE ~(locked /\ k \in LargeKeys)
  <2>1. lk' = Released(w) /\ sending' = sending
    BY <1>9, Zenon DEF CompleteValue
  <2>2. StoreInv' /\ SharedInv' /\ sending' \in [Clients -> Keys \cup {NoKey}]
    BY <1>1, <2>1, ReleasedStore, RetireShared, ZenonT(60)
  <2> QED BY <1>1, <1>5, <1>6, <1>8, <2>2, RetireStep, ZenonT(60)
<1>10. CASE locked /\ k \in LargeKeys
  <2>1. lk' = Take(Released(w), k, "read") /\ sending' = [sending EXCEPT ![h] = k]
    BY <1>10, Zenon DEF CompleteValue
  <2>2. val' = val /\ present' = present /\ k \in present
    BY <1>1, <1>10, Zenon DEF Retire
  <2>3. Released(w)[k] \in Nat /\ Released(w)[k] < MaxReaders
    BY <1>10, BoundsAssumption DEF Free
  <2>4. /\ lk'[k] = Released(w)[k] + 1 /\ \A j \in Keys : j # k => lk'[j] = Released(w)[j]
        /\ lk' = [j \in Keys |-> lk'[j]]
    BY <1>4, <2>1, <2>3, ZenonT(60) DEF Take, Released, Give
  <2> HIDE DEF k, h, locked
  <2>5. \A j \in Keys : /\ Released(w)[j] \in Int /\ Released(w)[j] >= -1 /\ Released(w)[j] <= MaxReaders
                        /\ lk[j] = 0 => Released(w)[j] = 0
                        /\ Backed(Released(w)[j], Writers(j) \ {w}, explicit[j], Readers(j) \ {w}, shared[j])
    BY <1>2, <1>3, ReleasedBacked, Zenon
  <2>6. \A j \in Keys : /\ Readers(j)' = Readers(j) \ {w} /\ Writers(j)' = Writers(j) \ {w} /\ explicit' = explicit
                        /\ Getting(j)' = Getting(j) \ {w}
    BY <1>1, <1>2, RetireEffect, Zenon
  <2>7. ASSUME NEW j \in Keys
        PROVE  /\ Backed(lk'[j], Writers(j)', explicit'[j], Readers(j)', shared'[j])
               /\ lk'[j] \in -1 .. MaxReaders
    <3>1. /\ Released(w)[j] \in Int /\ Released(w)[j] >= -1 /\ Released(w)[j] <= MaxReaders
          /\ Backed(Released(w)[j], Writers(j) \ {w}, explicit[j], Readers(j) \ {w}, shared[j])
          /\ MaxReaders \in Nat
      BY <2>5, BoundsAssumption, Zenon
    <3>2. shared[j] \in Nat /\ Readers(j) \ {w} \subseteq Works
      BY <1>2, LockTypes, Zenon
    <3>3. CASE j # k
      <4>1. lk'[j] = Released(w)[j]
        BY <2>4, <3>3, Zenon
      <4>2. Backed(lk'[j], Writers(j) \ {w}, explicit[j], Readers(j) \ {w}, shared[j])
        BY <3>1, <4>1, Zenon
      <4>3. lk'[j] \in -1 .. MaxReaders
        BY <3>1, <4>1
      <4> QED BY <1>1, <2>6, <4>2, <4>3, ZenonT(60)
    <3>4. CASE j = k
      <4>1. Backed(Released(w)[j] + 1, Writers(j) \ {w}, explicit[j], Readers(j) \ {w}, shared[j])
        BY <2>3, <3>1, <3>2, <3>4, ReadTaken, ZenonT(60)
      <4>2. lk'[j] = Released(w)[j] + 1 /\ lk'[j] \in -1 .. MaxReaders
        BY <2>3, <2>4, <3>1, <3>4, SMTT(60)
      <4> QED BY <1>1, <2>6, <4>1, <4>2, ZenonT(60)
    <3> QED BY <3>3, <3>4, Zenon
  <2>8. StoreInv'
    <3>1. LockInv'
      BY <2>7, Zenon DEF LockInv
    <3>2. PresentInv'
      BY <1>2, <2>2, <2>4, <2>5, ZenonT(60) DEF PresentInv
    <3>3. lk' \in [Keys -> -1 .. MaxReaders]
      BY <2>4, <2>7, Zenon
    <3>4. StoreTypes'
      BY <1>2, <2>2, <3>3, ZenonT(60) DEF StoreTypes, TypeOK
    <3> QED BY <3>1, <3>2, <3>4, Zenon DEF StoreInv
  <2>9. sending' \in [Clients -> Keys \cup {NoKey}] /\ sending'[h] = k /\ \A d \in Clients : d # h => sending'[d] = sending[d]
    BY <1>2, <1>4, <2>1, ZenonT(60)
  <2>10. ASSUME NEW j \in LargeKeys PROVE Cardinality(SendingOf(j)') + Cardinality(Getting(j)') <= shared'[j]
    <3>1. j \in Keys /\ Getting(j)' = Getting(j) \ {w}
      BY <1>2, <2>6, Zenon
    <3>2. shared[j] \in Nat /\ Getting(j) \subseteq Works /\ SendingOf(j) \subseteq Clients
      BY <1>2, <3>1, LockTypes, Zenon
    <3>3. /\ IsFiniteSet(Getting(j)) /\ Cardinality(Getting(j)) \in Nat
          /\ IsFiniteSet(SendingOf(j)) /\ Cardinality(SendingOf(j)) \in Nat
      BY <3>2, Finite, Zenon
    <3>4. Cardinality(SendingOf(j)) + Cardinality(Getting(j)) <= shared[j]
      BY <1>2, Zenon DEF SharedInv
    <3>5. CASE j # k
      <4>1. SendingOf(j)' \subseteq SendingOf(j) /\ Getting(j) \ {w} \subseteq Getting(j)
        BY <2>9, <3>5, Zenon DEF SendingOf
      <4>2. /\ Cardinality(SendingOf(j)') \in Nat /\ Cardinality(SendingOf(j)') <= Cardinality(SendingOf(j))
            /\ Cardinality(Getting(j) \ {w}) \in Nat /\ Cardinality(Getting(j) \ {w}) <= Cardinality(Getting(j))
        BY <3>3, <4>1, Fewer, ZenonT(60)
      <4> QED BY <1>1, <3>1, <3>2, <3>3, <3>4, <4>2, SMTT(60)
    <3>6. CASE j = k
      <4>1. w \in Getting(j)
        BY <1>1, <1>3, <3>6, Zenon DEF Getting, k
      <4>2. Cardinality(Getting(j) \ {w}) = Cardinality(Getting(j)) - 1
        BY <3>3, <4>1, OneLess, ZenonT(60)
      <4>3. SendingOf(j)' = SendingOf(j) \cup {h}
        BY <1>4, <2>9, <3>6, Zenon DEF SendingOf
      <4>4. Cardinality(SendingOf(j) \cup {h}) \in {Cardinality(SendingOf(j)), Cardinality(SendingOf(j)) + 1}
        <5>1. CASE h \in SendingOf(j)
          <6>1. SendingOf(j) \cup {h} = SendingOf(j)
            BY <5>1, Zenon
          <6> QED BY <6>1, Zenon
        <5>2. CASE h \notin SendingOf(j)
          BY <3>3, <5>2, OneMore, Zenon
        <5> QED BY <5>1, <5>2, Zenon
      <4> QED BY <1>1, <3>1, <3>2, <3>3, <3>4, <4>2, <4>3, <4>4, SMTT(60)
    <3> QED BY <3>5, <3>6, Zenon
  <2>11. SharedInv'
    <3>1. \A d \in Clients : sending'[d] \in LargeKeys \cup {NoKey}
      BY <1>2, <1>10, <2>9, Zenon DEF SharedInv
    <3> QED BY <2>10, <3>1, Zenon DEF SharedInv
  <2> QED BY <1>1, <1>5, <1>6, <1>8, <2>8, <2>9, <2>11, RetireStep, ZenonT(60)
<1> QED BY <1>9, <1>10, Zenon

\* The value was sent: the count of sharers falls, and with the last one the lock.
LEMMA SendCompleteInv ==
  ASSUME IInv, NEW c \in Clients, SendComplete(c)
  PROVE  IInv'
<1> DEFINE k == sending[c]
<1>1. /\ k # NoKey /\ lk' = (IF shared[k] = 1 THEN Give(lk, {k}) ELSE lk)
      /\ shared' = [shared EXCEPT ![k] = @ - 1] /\ sending' = [sending EXCEPT ![c] = NoKey]
      /\ val' = val /\ present' = present /\ UNCHANGED <<works, plugin, client, done, status, alive, signals>>
  BY Zenon DEF SendComplete
<1>2. /\ TypeOK /\ LockInv /\ PresentInv /\ SlotInv /\ SharedInv /\ QueueInv /\ DoneInv /\ ApartInv /\ AnswerInv
      /\ LargeKeys \subseteq Keys
  BY Parts, KeysAssumption, Zenon
<1>3. k \in LargeKeys /\ k \in Keys
  BY <1>1, <1>2, Zenon DEF SharedInv
<1>4. /\ sending \in [Clients -> Keys \cup {NoKey}] /\ shared \in [Keys -> 0 .. MaxReaders]
      /\ lk \in [Keys -> -1 .. MaxReaders] /\ MaxReaders \in Nat
  BY <1>2, BoundsAssumption, Zenon DEF TypeOK
<1>5. /\ outstanding' = outstanding /\ work' = work /\ queue' = queue /\ deferred' = deferred /\ life' = life
      /\ explicit' = explicit /\ req' = req /\ connected' = connected /\ done' = done /\ status' = status
      /\ alive' = alive /\ signals' = signals
  BY <1>1, Zenon DEF works, plugin, client
<1>6. c \in SendingOf(k)
  BY Zenon DEF SendingOf
<1> HIDE DEF k
<1>7. /\ Getting(k) \subseteq Works /\ SendingOf(k) \subseteq Clients /\ Readers(k) \subseteq Works
  BY <1>2, <1>3, LockTypes, Zenon
<1>8. /\ Cardinality(Getting(k)) \in Nat /\ IsFiniteSet(SendingOf(k)) /\ Cardinality(SendingOf(k)) \in Nat
  BY <1>7, Finite, Zenon
<1>9. Cardinality(SendingOf(k) \ {c}) = Cardinality(SendingOf(k)) - 1 /\ Cardinality(SendingOf(k)) > 0
  BY <1>6, <1>8, OneLess, Zenon
<1>10. Cardinality(SendingOf(k)) + Cardinality(Getting(k)) <= shared[k]
  BY <1>2, <1>3, Zenon DEF SharedInv
<1>11. shared[k] \in Nat /\ shared[k] > 0 /\ lk[k] \in Int
  BY <1>3, <1>4, <1>8, <1>9, <1>10
<1>12. Backed(lk[k], Writers(k), explicit[k], Readers(k), shared[k])
  BY <1>2, <1>3, Zenon DEF LockInv
<1>13. lk[k] > 0
  BY <1>7, <1>11, <1>12, HolderLocks, Zenon
<1>14. /\ shared' \in [Keys -> 0 .. MaxReaders] /\ shared'[k] = shared[k] - 1
       /\ \A j \in Keys : j # k => shared'[j] = shared[j]
  BY <1>1, <1>3, <1>4, <1>11
<1>15. /\ lk' \in [Keys -> -1 .. MaxReaders] /\ lk'[k] = (IF shared[k] = 1 THEN lk[k] - 1 ELSE lk[k])
       /\ \A j \in Keys : j # k => lk'[j] = lk[j]
  BY <1>1, <1>3, <1>4, <1>13 DEF Give
<1>16. /\ sending' \in [Clients -> Keys \cup {NoKey}] /\ sending'[c] = NoKey /\ \A d \in Clients : d # c => sending'[d] = sending[d]
  BY <1>1, <1>4, Zenon
<1>17. \A j \in Keys : Readers(j)' = Readers(j) /\ Writers(j)' = Writers(j) /\ Getting(j)' = Getting(j)
  BY <1>5, Zenon DEF Readers, Writers, Getting
<1>18. LockInv'
  <2>1. ASSUME NEW j \in Keys
        PROVE  Backed(lk'[j], Writers(j)', explicit'[j], Readers(j)', shared'[j])
    <3>1. Backed(lk[j], Writers(j), explicit[j], Readers(j), shared[j])
      BY <1>2, Zenon DEF LockInv
    <3>2. CASE j # k
      BY <1>5, <1>14, <1>15, <1>17, <3>1, <3>2, ZenonT(60)
    <3>3. CASE j = k
      <4>1. Cardinality(Readers(k)) \in Nat
        BY <1>7, Finite, Zenon
      <4>2. Backed(lk'[k], Writers(k), explicit[k], Readers(k), shared[k] - 1)
        BY <1>11, <1>12, <1>13, <1>15, <4>1, SMTT(30) DEF Backed
      <4> QED BY <1>5, <1>14, <1>17, <3>3, <4>2, ZenonT(60)
    <3> QED BY <3>2, <3>3, Zenon
  <2> QED BY <2>1, Zenon DEF LockInv
<1>19. SharedInv'
  <2>1. ASSUME NEW j \in LargeKeys PROVE Cardinality(SendingOf(j)') + Cardinality(Getting(j)') <= shared'[j]
    <3>1. j \in Keys /\ Cardinality(SendingOf(j)) + Cardinality(Getting(j)) <= shared[j]
      BY <1>2, Zenon DEF SharedInv
    <3>2. SendingOf(j)' = IF j = k THEN SendingOf(j) \ {c} ELSE SendingOf(j)
      BY <1>1, <1>2, <1>16, <3>1, KeysAssumption, ZenonT(60) DEF SendingOf, k
    <3>3. CASE j # k
      <4>1. shared'[j] = shared[j] /\ Getting(j)' = Getting(j) /\ SendingOf(j)' = SendingOf(j)
        BY <1>14, <1>17, <3>1, <3>2, <3>3, ZenonT(60)
      <4> QED BY <3>1, <4>1, Zenon
    <3>4. CASE j = k
      <4>1. shared'[j] = shared[k] - 1 /\ Getting(j)' = Getting(k) /\ SendingOf(j)' = SendingOf(k) \ {c}
        BY <1>14, <1>17, <3>1, <3>2, <3>4, ZenonT(60)
      <4>2. Cardinality(SendingOf(k) \ {c}) + Cardinality(Getting(k)) <= shared[k] - 1
        BY <1>8, <1>9, <1>10, <1>11, SMTT(60)
      <4> QED BY <4>1, <4>2, Zenon
    <3> QED BY <3>3, <3>4, Zenon
  <2>2. \A d \in Clients : sending'[d] \in LargeKeys \cup {NoKey}
    BY <1>2, <1>16, Zenon DEF SharedInv
  <2> QED BY <2>1, <2>2, ZenonT(60) DEF SharedInv
<1>20. PresentInv'
  <2>1. \A j \in Keys : lk[j] = 0 => lk'[j] = 0
    BY <1>13, <1>15
  <2> QED BY <1>1, <1>2, <2>1, Zenon DEF PresentInv
<1>21. SlotInv' /\ QueueInv' /\ DoneInv' /\ ApartInv'
  BY <1>2, <1>5, Zenon DEF SlotInv, QueueInv, DoneInv, ApartInv
<1>22. AnswerInv'
  BY <1>2, <1>5, ZenonT(60) DEF AnswerInv, Waits
<1>23. TypeOK'
  <2>1. StoreTypes /\ SlotTypes /\ PluginTypes /\ ShardTypes /\ ClientTypes
    BY <1>2, TypeParts, Zenon
  <2>2. SlotTypes' /\ PluginTypes' /\ ClientTypes'
    BY <1>5, <2>1, Zenon DEF SlotTypes, PluginTypes, ClientTypes
  <2>3. StoreTypes' /\ ShardTypes'
    BY <1>1, <1>5, <1>14, <1>15, <1>16, <2>1, ZenonT(60) DEF StoreTypes, ShardTypes
  <2> QED BY <2>2, <2>3, TypeParts, Zenon
<1> QED BY <1>18, <1>19, <1>20, <1>21, <1>22, <1>23, Parts, ZenonT(60)

-----------------------------------------------------------------------------
(* Sessions *)

\* The requests of a session that ends keep their locks; the deferred unlocks of an ADO
\* process that ends are forgotten.
LEMMA CloseInv ==
  ASSUME IInv, NEW c \in Clients, SessionClose(c)
  PROVE  IInv'
<1>1. /\ TypeOK /\ LockInv /\ PresentInv /\ SlotInv /\ SharedInv /\ QueueInv /\ DoneInv /\ ApartInv /\ AnswerInv
      /\ LargeKeys \subseteq Keys
  BY Parts, KeysAssumption, Zenon
<1>2. StoreTypes /\ SlotTypes /\ PluginTypes /\ ShardTypes /\ ClientTypes
  BY <1>1, TypeParts, Zenon
<1>3. /\ connected' = [connected EXCEPT ![c] = FALSE] /\ req' = [req EXCEPT ![c] = "ok"]
      /\ sending' = [sending EXCEPT ![c] = NoKey]
      /\ work' = [w \in Works |-> IF work[w].handler = c THEN [work[w] EXCEPT !.handler = NoClient] ELSE work[w]]
      /\ val' = val /\ present' = present /\ outstanding' = outstanding /\ status' = status /\ shared' = shared
      /\ alive' = alive /\ signals' = signals
  BY Zenon DEF SessionClose
<1>4. \/ /\ lk' = Give(lk, life) /\ queue' = <<>> /\ done' = <<>> /\ deferred' = [w \in Works |-> {}] /\ life' = {}
         /\ explicit' = [k \in Keys |-> "no"]
      \/ /\ lk' = lk /\ queue' = queue /\ done' = done /\ deferred' = deferred /\ life' = life
         /\ explicit' = explicit
  BY Zenon DEF SessionClose
<1>5. lk' = lk /\ life' = {}
  <2>1. life = {} /\ lk \in [Keys -> -1 .. MaxReaders]
    BY <1>1, Zenon DEF SlotInv, TypeOK
  <2>2. Give(lk, {}) = lk
    BY <2>1, Zenon DEF Give
  <2> QED BY <1>4, <2>1, <2>2, Zenon
<1>6. /\ \A w \in Works : deferred'[w] \subseteq deferred[w]
      /\ \A k \in Keys : explicit'[k] \in {explicit[k], "no"}
      /\ PluginTypes'
  BY <1>2, <1>4, <1>5, Zenon DEF PluginTypes
<1>7. ASSUME NEW w \in Works
      PROVE  /\ work'[w] \in WorkRecord /\ work'[w].key = work[w].key /\ work'[w].lock = work[w].lock
             /\ work'[w].kind = work[w].kind
             /\ work'[w].handler = IF work[w].handler = c THEN NoClient ELSE work[w].handler
  <2>1. work[w] \in WorkRecord
    BY <1>1, WorkTypes, Zenon
  <2>2. work'[w] = IF work[w].handler = c THEN [work[w] EXCEPT !.handler = NoClient] ELSE work[w]
    BY <1>3, Zenon
  <2> QED BY <2>1, <2>2, Zenon DEF WorkRecord
<1>8. outstanding \subseteq Works /\ work' \in [Works -> WorkRecord]
  <2>1. work' = [w \in Works |-> work'[w]]
    BY <1>3, Zenon
  <2> QED BY <1>2, <1>7, <2>1, Zenon DEF SlotTypes
<1>9. ASSUME NEW k \in Keys
      PROVE  Readers(k)' = Readers(k) /\ Getting(k)' = Getting(k) /\ Writers(k)' \subseteq Writers(k)
  <2>1. Readers(k)' = Readers(k)
    BY <1>3, <1>7, <1>8, Zenon DEF Readers
  <2>2. Getting(k)' = Getting(k)
    BY <1>3, <1>7, <1>8, Zenon DEF Getting
  <2>3. Writers(k)' \subseteq Writers(k)
    BY <1>3, <1>6, <1>7, <1>8, ZenonT(60) DEF Writers
  <2> QED BY <2>1, <2>2, <2>3, Zenon
<1>10. LockInv'
  <2>1. ASSUME NEW k \in Keys
        PROVE  Backed(lk'[k], Writers(k)', explicit'[k], Readers(k)', shared'[k])
    <3>1. Backed(lk[k], Writers(k), explicit[k], Readers(k), shared[k])
      BY <1>1, Zenon DEF LockInv
    <3>2. lk[k] \in Int /\ shared[k] \in Nat /\ Readers(k) \subseteq Works
      BY <1>1, LockTypes, Zenon
    <3>3. Writers(k)' \subseteq Writers(k) /\ explicit'[k] \in {explicit[k], "no"} /\ shared[k] <= shared[k]
      BY <1>6, <1>9, <3>2
    <3>4. Backed(lk[k], Writers(k)', explicit'[k], Readers(k), shared[k])
      BY <3>1, <3>2, <3>3, FewerBacked
    <3> QED BY <1>3, <1>5, <1>9, <3>4, ZenonT(60)
  <2> QED BY <2>1, Zenon DEF LockInv
<1>11. PresentInv'
  BY <1>1, <1>3, <1>5, Zenon DEF PresentInv
<1>12. SlotInv'
  <2>1. \A w \in Works \ outstanding : deferred'[w] = {}
    BY <1>1, <1>6, Zenon DEF SlotInv
  <2>2. ASSUME NEW w \in outstanding
        PROVE  /\ work'[w].lock # "none" => work'[w].key \in Keys
               /\ work'[w].lock = "write" => work'[w].key \notin deferred'[w]
               /\ work'[w].kind = "value" => work'[w].lock = "read"
    <3>1. /\ w \in Works /\ deferred'[w] \subseteq deferred[w]
          /\ work'[w].key = work[w].key /\ work'[w].lock = work[w].lock /\ work'[w].kind = work[w].kind
      BY <1>6, <1>7, <1>8, Zenon
    <3> QED BY <1>1, <3>1, Zenon DEF SlotInv
  <2> QED BY <1>3, <1>5, <2>1, <2>2, Zenon DEF SlotInv
<1>13. sending' \in [Clients -> Keys \cup {NoKey}] /\ \A d \in Clients : sending'[d] \in {sending[d], NoKey}
  BY <1>2, <1>3, ZenonT(60) DEF ShardTypes
<1>14. SharedInv'
  <2>1. ASSUME NEW k \in LargeKeys PROVE Cardinality(SendingOf(k)') + Cardinality(Getting(k)') <= shared'[k]
    <3>1. k \in Keys /\ k # NoKey
      BY <1>1, KeysAssumption, Zenon
    <3>2. SendingOf(k)' \subseteq SendingOf(k)
      BY <1>13, <3>1, Zenon DEF SendingOf
    <3>3. shared[k] \in Nat /\ Getting(k) \subseteq Works /\ SendingOf(k) \subseteq Clients
      BY <1>1, <3>1, LockTypes, Zenon
    <3>4. Cardinality(Getting(k)) \in Nat /\ IsFiniteSet(SendingOf(k)) /\ Cardinality(SendingOf(k)) \in Nat
      BY <3>3, Finite, Zenon
    <3>5. Cardinality(SendingOf(k)') \in Nat /\ Cardinality(SendingOf(k)') <= Cardinality(SendingOf(k))
      BY <3>2, <3>4, Fewer, Zenon
    <3>6. Cardinality(SendingOf(k)) + Cardinality(Getting(k)) <= shared[k]
      BY <1>1, Zenon DEF SharedInv
    <3>7. Cardinality(SendingOf(k)') + Cardinality(Getting(k)) <= shared[k]
      BY <3>3, <3>4, <3>5, <3>6
    <3> QED BY <1>3, <1>9, <3>1, <3>7, ZenonT(60)
  <2>2. \A d \in Clients : sending'[d] \in LargeKeys \cup {NoKey}
    BY <1>1, <1>13, Zenon DEF SharedInv
  <2> QED BY <2>1, <2>2, Zenon DEF SharedInv
<1>15. QueueInv' /\ DoneInv' /\ ApartInv' /\ queue' \in Seq(Works) /\ done' \in Seq(Works)
  <2>1. CASE queue' = queue /\ done' = done
    BY <1>1, <1>2, <1>3, <2>1, ZenonT(60) DEF QueueInv, DoneInv, ApartInv, SlotTypes
  <2>2. CASE queue' = <<>> /\ done' = <<>>
    <3>1. Len(<<>>) = 0 /\ 1 .. 0 = {} /\ <<>> \in Seq(Works)
      OBVIOUS
    <3> QED BY <2>2, <3>1, Zenon DEF QueueInv, DoneInv, ApartInv
  <2> QED BY <1>4, <2>1, <2>2, Zenon
<1>16. AnswerInv'
  <2>1. ASSUME NEW w \in outstanding, Waits(w)'
        PROVE  /\ Waits(w) /\ work'[w].handler = work[w].handler /\ work[w].handler \in Clients
               /\ work[w].handler # c
    <3>1. w \in Works /\ work[w].handler \in Clients \cup {NoClient} /\ work'[w].kind = work[w].kind
      BY <1>1, <1>7, <1>8, WorkTypes, ZenonT(60)
    <3>2. work'[w].handler = IF work[w].handler = c THEN NoClient ELSE work[w].handler
      BY <1>7, <3>1, Zenon
    <3> QED BY <2>1, <3>1, <3>2, Zenon DEF Waits
  <2>2. ASSUME NEW w \in outstanding, Waits(w)', NEW u \in outstanding \ {w}, work'[u].handler = work'[w].handler
        PROVE  work'[u].kind = "async"
    <3>1. work'[u].handler = (IF work[u].handler = c THEN NoClient ELSE work[u].handler) /\ work'[u].kind = work[u].kind
      BY <1>7, <1>8, Zenon
    <3>2. work[u].handler = work[w].handler /\ Waits(w)
      BY <2>1, <2>2, <3>1, ClientsAssumption, ZenonT(60)
    <3> QED BY <1>1, <3>1, <3>2, Zenon DEF AnswerInv
  <2>3. ASSUME NEW w \in outstanding, Waits(w)' PROVE req'[work'[w].handler] = "waiting"
    <3>1. Waits(w) /\ work'[w].handler = work[w].handler /\ work[w].handler \in Clients /\ work[w].handler # c
      BY <2>1, <2>3, Zenon
    <3>2. req'[work[w].handler] = req[work[w].handler]
      BY <1>2, <1>3, <3>1, Zenon DEF ClientTypes
    <3> QED BY <1>1, <3>1, <3>2, ZenonT(60) DEF AnswerInv
  <2> QED BY <1>3, <2>2, <2>3, Zenon DEF AnswerInv
<1>17. TypeOK'
  <2>1. StoreTypes' /\ SlotTypes' /\ ShardTypes'
    BY <1>2, <1>3, <1>5, <1>8, <1>13, <1>15, ZenonT(60) DEF StoreTypes, SlotTypes, ShardTypes
  <2>2. ClientTypes'
    BY <1>2, <1>3, Zenon DEF ClientTypes
  <2> QED BY <1>6, <2>1, <2>2, TypeParts, ZenonT(60)
<1> QED BY <1>10, <1>11, <1>12, <1>14, <1>15, <1>16, <1>17, Parts, ZenonT(60)

\* A client opens its session again.
LEMMA OpenSessionInv ==
  ASSUME IInv, NEW c \in Clients, SessionOpen(c)
  PROVE  IInv'
<1>1. /\ TypeOK /\ LockInv /\ PresentInv /\ SlotInv /\ SharedInv /\ QueueInv /\ DoneInv /\ ApartInv /\ AnswerInv
  BY Parts, Zenon
<1>2. /\ connected' = [connected EXCEPT ![c] = TRUE] /\ req' = req
      /\ UNCHANGED <<lk, val, present, outstanding, work, queue>> /\ UNCHANGED <<deferred, life, explicit>>
      /\ UNCHANGED <<done, status, shared, sending, alive, signals>>
  BY Zenon DEF SessionOpen, store, works, plugin, rest
<1>3. StoreTypes /\ SlotTypes /\ PluginTypes /\ ShardTypes /\ ClientTypes
  BY <1>1, TypeParts, Zenon
<1>4. StoreTypes' /\ SlotTypes' /\ PluginTypes' /\ ShardTypes'
  BY <1>2, <1>3, Zenon DEF StoreTypes, SlotTypes, PluginTypes, ShardTypes
<1>5. ClientTypes'
  BY <1>2, <1>3, Zenon DEF ClientTypes
<1>6. LockInv' /\ PresentInv'
  BY <1>1, <1>2, Zenon DEF LockInv, Readers, Writers, PresentInv
<1>7. SlotInv' /\ SharedInv' /\ QueueInv' /\ DoneInv' /\ ApartInv'
  BY <1>1, <1>2, ZenonT(60) DEF SlotInv, SharedInv, SendingOf, Getting, QueueInv, DoneInv, ApartInv
<1>8. AnswerInv'
  BY <1>1, <1>2, ZenonT(60) DEF AnswerInv, Waits
<1>9. TypeOK'
  BY <1>4, <1>5, TypeParts, Zenon
<1> QED BY <1>6, <1>7, <1>8, <1>9, Parts, Zenon

-----------------------------------------------------------------------------
(* The specification *)

\* Nothing is locked and nothing is outstanding at the start.
LEMMA InitInv == Init => IInv
<1> SUFFICES ASSUME Init PROVE IInv
  BY Zenon
<1>1. /\ lk = [k \in Keys |-> 0] /\ val \in [Keys -> Values] /\ present = {} /\ outstanding = {}
      /\ work = [w \in Works |-> NoWork] /\ queue = <<>> /\ done = <<>> /\ status = [w \in Works |-> "ok"]
      /\ deferred = [w \in Works |-> {}] /\ life = {} /\ explicit = [k \in Keys |-> "no"]
      /\ shared = [k \in Keys |-> 0] /\ sending = [c \in Clients |-> NoKey] /\ req = [c \in Clients |-> "ok"]
      /\ connected = [c \in Clients |-> TRUE] /\ alive = TRUE /\ signals \in Signals
  BY Zenon DEF Init
<1>2. NoWork \in WorkRecord
  BY Zenon DEF NoWork, WorkRecord
<1>3. MaxReaders \in Nat
  BY BoundsAssumption, Zenon
<1>4. TypeOK
  <2>1. StoreTypes
    BY <1>1, <1>3 DEF StoreTypes
  <2>2. SlotTypes
    BY <1>1, <1>2 DEF SlotTypes
  <2>3. PluginTypes
    BY <1>1, Zenon DEF PluginTypes
  <2>4. ShardTypes
    BY <1>1, <1>3 DEF ShardTypes
  <2>5. ClientTypes
    BY <1>1, Zenon DEF ClientTypes
  <2> QED BY <2>1, <2>2, <2>3, <2>4, <2>5, TypeParts, ZenonT(60)
<1>5. Cardinality({}) = 0
  BY FS_EmptySet, Zenon
<1>6. LockInv
  <2>1. ASSUME NEW k \in Keys PROVE Backed(lk[k], Writers(k), explicit[k], Readers(k), shared[k])
    <3>1. Writers(k) = {} /\ Readers(k) = {} /\ lk[k] = 0 /\ explicit[k] = "no" /\ shared[k] = 0
      BY <1>1, Zenon DEF Writers, Readers
    <3> QED BY <1>5, <3>1 DEF Backed
  <2> QED BY <2>1, Zenon DEF LockInv
<1>7. PresentInv /\ SlotInv /\ AnswerInv
  BY <1>1, Zenon DEF PresentInv, SlotInv, AnswerInv
<1>8. SharedInv
  <2>1. NoKey \notin Keys /\ LargeKeys \subseteq Keys
    BY KeysAssumption, Zenon
  <2>2. ASSUME NEW k \in LargeKeys PROVE Cardinality(SendingOf(k)) + Cardinality(Getting(k)) <= shared[k]
    <3>1. SendingOf(k) = {} /\ Getting(k) = {} /\ shared[k] = 0
      BY <1>1, <2>1, Zenon DEF SendingOf, Getting
    <3> QED BY <1>5, <3>1
  <2>3. \A c \in Clients : sending[c] \in LargeKeys \cup {NoKey}
    BY <1>1, Zenon
  <2> QED BY <2>2, <2>3, Zenon DEF SharedInv
<1>9. QueueInv /\ DoneInv /\ ApartInv
  <2>1. Len(<<>>) = 0 /\ 1 .. 0 = {}
    OBVIOUS
  <2> QED BY <1>1, <2>1, Zenon DEF QueueInv, DoneInv, ApartInv
<1> QED BY <1>4, <1>6, <1>7, <1>8, <1>9, Parts, Zenon

\* The next-state relation by the lemmas that cover it.
Refusal(c, k) ==
  \/ \E read_only, create \in BOOLEAN : InvokeAdoRefused(c, k, read_only, create)
  \/ InvokeAdoExists(c, k) \/ PutAdoRefused(c, k) \/ PutRefused(c, k) \/ PutSignalLost(c, k)
  \/ GetRefused(c, k) \/ EraseRefused(c, k) \/ SignalExhausted(c, k)
Invocation(c, k) ==
  \E read_only, create \in BOOLEAN, async \in Asyncs :
    \/ \E w \in Works : InvokeAdo(c, k, w, read_only, async, create)
    \/ InvokeAdoExhausted(c, k, read_only, async, create)
Storing(c, k) ==
  \/ \E v \in Values, keep \in BOOLEAN :
       \/ \E w \in Works, async \in Asyncs : PutAdo(c, k, v, w, keep, async)
       \/ PutAdoThrows(c, k, keep)
       \/ PutAdoExhausted(c, k, v)
  \/ \E w \in Works, root \in BOOLEAN, async \in Asyncs : PutAdoDetached(c, k, w, root, async)
  \/ PutAdoOutOfMemory(c, k)
  \/ \E v \in Values : Put(c, k, v) \/ \E w \in Works : PutSignal(c, k, v, w)
Reading(c, k) ==
  \/ GetSignalLost(c, k) \/ GetTooLarge(c, k) \/ \E w \in Works : GetSignal(c, k, w)
  \/ Erase(c, k) \/ InvokeAdoCreateOnly(c, k) \/ \E w \in Works : EraseSignal(c, k, w)
Session(c) ==
  \/ \E w \in Works, async \in Asyncs : InvokeAdoKeyless(c, w, async)
  \/ \E async \in Asyncs : InvokeAdoKeylessExhausted(c, async)
  \/ SendComplete(c) \/ SessionClose(c) \/ SessionOpen(c)
Callback(w, k) ==
  \/ \E lifetime \in Lifetimes, named \in WorkIds, create \in BOOLEAN : OpenKey(w, k, lifetime, named, create)
  \/ UnlockKey(w, k)
  \/ EraseKey(w, k) \/ ResizeThrows(w, k)
  \/ \E v \in Values : ResizeValue(w, k, v) \/ AdoWrite(w, k, v)
Completion(w) ==
  \/ \E s \in {"ok", "error", "erase"} : DoWork(w, s)
  \/ Complete(w) \/ CompleteStale(w) \/ CompleteValue(w)

\* The steps by who takes them.
LEMMA NextSteps ==
  ASSUME Next
  PROVE  \/ \E c \in Clients, k \in Keys : Refusal(c, k) \/ Invocation(c, k) \/ Storing(c, k) \/ Reading(c, k)
         \/ \E c \in Clients : Session(c)
         \/ \E w \in Works, k \in Keys : Callback(w, k)
         \/ \E w \in Works : Completion(w)
<1>1. ASSUME NEW c \in Clients, NEW k \in Keys,
       \/ \E read_only, create \in BOOLEAN :
            \/ \E w \in Works, async \in Asyncs : InvokeAdo(c, k, w, read_only, async, create)
            \/ InvokeAdoRefused(c, k, read_only, create)
            \/ \E async \in Asyncs : InvokeAdoExhausted(c, k, read_only, async, create)
       \/ InvokeAdoCreateOnly(c, k)
       \/ InvokeAdoExists(c, k)
       \/ \E v \in Values, keep \in BOOLEAN :
            \/ \E w \in Works, async \in Asyncs : PutAdo(c, k, v, w, keep, async)
            \/ PutAdoThrows(c, k, keep)
            \/ PutAdoExhausted(c, k, v)
       \/ PutAdoRefused(c, k)
       \/ \E w \in Works, root \in BOOLEAN, async \in Asyncs : PutAdoDetached(c, k, w, root, async)
       \/ PutAdoOutOfMemory(c, k)
       \/ \E v \in Values : Put(c, k, v) \/ \E w \in Works : PutSignal(c, k, v, w)
       \/ PutRefused(c, k)
       \/ PutSignalLost(c, k)
       \/ \E w \in Works : GetSignal(c, k, w) \/ EraseSignal(c, k, w)
       \/ GetSignalLost(c, k)
       \/ GetTooLarge(c, k)
       \/ GetRefused(c, k)
       \/ Erase(c, k)
       \/ EraseRefused(c, k)
       \/ SignalExhausted(c, k)
      PROVE  Refusal(c, k) \/ Invocation(c, k) \/ Storing(c, k) \/ Reading(c, k)
  <2>1. CASE \E read_only, create \in BOOLEAN :
            \/ \E w \in Works, async \in Asyncs : InvokeAdo(c, k, w, read_only, async, create)
            \/ InvokeAdoRefused(c, k, read_only, create)
            \/ \E async \in Asyncs : InvokeAdoExhausted(c, k, read_only, async, create)
    BY <2>1, Zenon DEF Refusal, Invocation
  <2>2. CASE \E w \in Works : GetSignal(c, k, w) \/ EraseSignal(c, k, w)
    BY <2>2, Zenon DEF Reading
  <2> QED BY <1>1, <2>1, <2>2, Zenon DEF Refusal, Storing, Reading
<1>2. CASE \E c \in Clients : Session(c)
  BY <1>2, Zenon
<1>3. CASE \E w \in Works, k \in Keys : Callback(w, k)
  BY <1>3, Zenon
<1>4. CASE \E w \in Works : Completion(w)
  BY <1>4, Zenon
<1> QED BY <1>1, <1>2, <1>3, <1>4, ZenonT(60) DEF Next, Session, Callback, Completion

\* Requests that are refused.
LEMMA RefusalInv ==
  ASSUME IInv, NEW c \in Clients, NEW k \in Keys, Refusal(c, k)
  PROVE  IInv'
<1>1. "error" \in {"ok", "error", "waiting"} /\ "waiting" \in {"ok", "error", "waiting"} /\ FALSE \in BOOLEAN
  BY Zenon
<1>2. ASSUME Ready(c), Refused(c) PROVE IInv'
  <2>1. Answer(c, "error") /\ UNCHANGED <<store, works, plugin, rest>>
    BY <1>2, Zenon DEF Refused
  <2>2. UNCHANGED <<store, works, plugin, done, status, shared, sending, signals>> /\ alive' \in BOOLEAN
    BY <2>1, ValueTypes, Zenon DEF rest
  <2> QED BY <1>1, <1>2, <2>1, <2>2, RefusedInv, ZenonT(60)
<1>3. ASSUME PutSignalLost(c, k) PROVE IInv'
  <2>1. Ready(c) /\ Answer(c, "waiting") /\ UNCHANGED <<store, works, plugin, rest>>
    BY <1>3, Zenon DEF PutSignalLost
  <2>2. UNCHANGED <<store, works, plugin, done, status, shared, sending, signals>> /\ alive' \in BOOLEAN
    BY <2>1, ValueTypes, Zenon DEF rest
  <2> QED BY <1>1, <2>1, <2>2, RefusedInv, ZenonT(60)
<1>4. ASSUME SignalExhausted(c, k) PROVE IInv'
  <2>1. /\ Ready(c) /\ Answer(c, "waiting") /\ alive' \in BOOLEAN
        /\ UNCHANGED <<store, works, plugin, done, status, shared, sending, signals>>
    BY <1>1, <1>4, Zenon DEF SignalExhausted
  <2> QED BY <1>1, <2>1, RefusedInv, ZenonT(60)
<1>5. \/ Ready(c) /\ Refused(c)
      \/ PutSignalLost(c, k)
      \/ SignalExhausted(c, k)
  BY Zenon DEF Refusal, InvokeAdoRefused, InvokeAdoExists, PutAdoRefused, PutRefused, GetRefused, EraseRefused
<1> QED BY <1>2, <1>3, <1>4, <1>5, Zenon

\* An invocation without a key that finds no slot.
LEMMA KeylessExhaustedInv ==
  ASSUME IInv, NEW c \in Clients, NEW async \in Asyncs, InvokeAdoKeylessExhausted(c, async)
  PROVE  IInv'
<1>1. PICK s \in {"ok", "error", "waiting"} : Answer(c, s)
  BY Zenon DEF InvokeAdoKeylessExhausted
<1>2. Ready(c) /\ UNCHANGED <<store, works, plugin, rest>>
  BY Zenon DEF InvokeAdoKeylessExhausted
<1>3. UNCHANGED <<store, works, plugin, done, status, shared, sending, signals>> /\ alive' \in BOOLEAN
  BY <1>2, ValueTypes, Zenon DEF rest
<1> QED BY <1>1, <1>2, <1>3, RefusedInv, ZenonT(60)

\* Every step keeps the invariant.
LEMMA NextInv ==
  ASSUME IInv, [Next]_vars
  PROVE  IInv'
<1>1. ASSUME NEW c \in Clients, NEW k \in Keys,
             Refusal(c, k) \/ Invocation(c, k) \/ Storing(c, k) \/ Reading(c, k)
      PROVE  IInv'
  <2>1. CASE Refusal(c, k) BY <2>1, RefusalInv, Zenon
  <2>2. CASE Invocation(c, k) BY <2>2, InvokeInv, Zenon DEF Invocation
  <2>3. CASE Storing(c, k) BY <2>3, PutAdoInv, DetachedInv, PutInv, Zenon DEF Storing
  <2>4. CASE Reading(c, k) BY <2>4, GetInv, KeptInv, EraseInv, ZenonT(60) DEF Reading
  <2> QED BY <1>1, <2>1, <2>2, <2>3, <2>4, ZenonT(60)
<1>2. ASSUME NEW c \in Clients, Session(c) PROVE IInv'
  BY <1>2, KeylessInv, KeylessExhaustedInv, SendCompleteInv, CloseInv, OpenSessionInv, ZenonT(60) DEF Session
<1>3. ASSUME NEW w \in Works, NEW k \in Keys, Callback(w, k) PROVE IInv'
  BY <1>3, OpenInv, UnlockInv, MemoryInv, ZenonT(60) DEF Callback
<1>4. ASSUME NEW w \in Works, Completion(w) PROVE IInv'
  BY <1>4, DoWorkInv, CompleteInv, ValueInv, ZenonT(60) DEF Completion
<1>5. CASE Next
  BY <1>1, <1>2, <1>3, <1>4, <1>5, NextSteps, ZenonT(60)
<1>6. CASE UNCHANGED vars
  <2>1. /\ UNCHANGED <<lk, val, present, outstanding, work, queue, deferred, life, explicit>>
        /\ UNCHANGED <<req, connected, done, status, shared, sending, alive, signals>>
    BY <1>6, Zenon DEF vars, store, works, plugin, client, rest
  <2>2. /\ TypeOK /\ LockInv /\ PresentInv /\ SlotInv /\ SharedInv /\ QueueInv /\ DoneInv /\ ApartInv /\ AnswerInv
    BY Parts, Zenon
  <2>3. TypeOK'
    BY <2>1, <2>2, ZenonT(60) DEF TypeOK
  <2>4. LockInv' /\ PresentInv'
    BY <2>1, <2>2, Zenon DEF LockInv, Readers, Writers, PresentInv
  <2>5. SlotInv' /\ SharedInv' /\ QueueInv' /\ DoneInv' /\ ApartInv'
    BY <2>1, <2>2, ZenonT(60) DEF SlotInv, SharedInv, SendingOf, Getting, QueueInv, DoneInv, ApartInv
  <2>6. AnswerInv'
    BY <2>1, <2>2, ZenonT(60) DEF AnswerInv, Waits
  <2> QED BY <2>3, <2>4, <2>5, <2>6, Parts, ZenonT(60)
<1> QED BY <1>5, <1>6, Zenon

\* Requests on their way, counted over both queues.
LEMMA AnsweredOnce ==
  ASSUME IInv
  PROVE  OneAnswer
<1>1. /\ QueueInv /\ DoneInv /\ ApartInv /\ AnswerInv /\ queue \in Seq(Works) /\ done \in Seq(Works)
  BY Parts, Zenon DEF TypeOK
<1> DEFINE sent == queue \o done
<1>2. /\ Len(queue) \in Nat /\ Len(done) \in Nat /\ DOMAIN sent = 1 .. Len(queue) + Len(done)
      /\ \A i \in 1 .. Len(queue) : sent[i] = queue[i]
      /\ \A i \in Len(queue) + 1 .. Len(queue) + Len(done) :
           i - Len(queue) \in 1 .. Len(done) /\ sent[i] = done[i - Len(queue)]
  BY <1>1
<1>3. \A i \in DOMAIN sent : i \in Int /\ (i \in 1 .. Len(queue) \/ i \in Len(queue) + 1 .. Len(queue) + Len(done))
  BY <1>2
<1> HIDE DEF sent
<1>4. \A i \in DOMAIN sent : sent[i] \in outstanding
  BY <1>1, <1>2, <1>3, Zenon DEF QueueInv, DoneInv
<1>5. ASSUME NEW i \in DOMAIN sent, NEW j \in DOMAIN sent, sent[i] = sent[j] PROVE i = j
  <2>1. CASE i \in 1 .. Len(queue) /\ j \in 1 .. Len(queue)
    BY <1>1, <1>2, <1>5, <2>1, ZenonT(60) DEF QueueInv
  <2>2. CASE i \in Len(queue) + 1 .. Len(queue) + Len(done) /\ j \in Len(queue) + 1 .. Len(queue) + Len(done)
    <3>1. i - Len(queue) = j - Len(queue)
      BY <1>1, <1>2, <1>5, <2>2, SMTT(30) DEF DoneInv
    <3> QED BY <1>2, <1>3, <3>1
  <2>3. CASE i \in 1 .. Len(queue) /\ j \in Len(queue) + 1 .. Len(queue) + Len(done)
    BY <1>1, <1>2, <1>5, <2>3, ZenonT(60) DEF ApartInv
  <2>4. CASE j \in 1 .. Len(queue) /\ i \in Len(queue) + 1 .. Len(queue) + Len(done)
    BY <1>1, <1>2, <1>5, <2>4, ZenonT(60) DEF ApartInv
  <2> QED BY <1>3, <2>1, <2>2, <2>3, <2>4, ZenonT(60)
<1>6. \A w \in outstanding : work[w].handler # NoClient /\ work[w].kind # "async" =>
        /\ req[work[w].handler] = "waiting"
        /\ \A u \in outstanding \ {w} : work[u].handler = work[w].handler => work[u].kind = "async"
  BY <1>1, Zenon DEF AnswerInv, Waits
<1> QED BY <1>4, <1>5, <1>6, Zenon DEF OneAnswer, sent

-----------------------------------------------------------------------------
(* The target of a work request stays in place *)

Holds(w, k) == (work[w].key = k /\ work[w].lock # "none") \/ k \in deferred[w]

\* What a request holds is locked, and in the map; a writer and the plugin hold it alone.
LEMMA HeldLocked ==
  ASSUME IInv, NEW w \in outstanding, NEW k \in Keys, Holds(w, k)
  PROVE  /\ lk[k] # 0 /\ k \in present /\ explicit[k] = "no"
         /\ \A u \in outstanding : Holds(u, k) /\ lk[k] = -1 => u = w
         /\ \A u \in outstanding : work[u].key = k /\ work[u].lock = "read" /\ lk[k] = 1 => u = w
<1>1. TypeOK /\ LockInv /\ PresentInv /\ SlotInv
  BY Parts, Zenon
<1>2. Backed(lk[k], Writers(k), explicit[k], Readers(k), shared[k])
  BY <1>1, Zenon DEF LockInv
<1>3. lk[k] \in Int /\ shared[k] \in Nat /\ Readers(k) \subseteq Works
  BY <1>1, LockTypes, Zenon
<1>4. /\ Writers(k) # {} => lk[k] = -1 /\ explicit[k] = "no"
      /\ \A u \in Readers(k) : lk[k] > 0 /\ explicit[k] = "no" /\ lk[k] >= Cardinality(Readers(k)) + shared[k]
  <2>1. Writers(k) # {} => lk[k] = -1 /\ explicit[k] = "no"
    BY <1>2, Zenon DEF Backed
  <2> QED BY <1>2, <1>3, <2>1, HolderLocks, SMTT(60)
<1>5. ASSUME NEW u \in outstanding, Holds(u, k)
      PROVE  u \in Readers(k) \/ u \in Writers(k)
  <2>1. work[u].lock \in {"none", "read", "write"}
    BY <1>1, <1>5, WorkTypes, ZenonT(60)
  <2> QED BY <1>5, <2>1, Zenon DEF Holds, Readers, Writers
<1>6. lk[k] # 0 /\ explicit[k] = "no"
  BY <1>3, <1>4, <1>5
<1>7. k \in present
  BY <1>1, <1>6, Zenon DEF PresentInv
<1>8. ASSUME NEW u \in outstanding, Holds(u, k), lk[k] = -1 PROVE u = w
  <2>1. u \in Writers(k) /\ w \in Writers(k)
    BY <1>4, <1>5, <1>8
  <2> QED BY <1>2, <2>1, Zenon DEF Backed
<1>9. ASSUME NEW u \in outstanding, work[u].key = k, work[u].lock = "read", lk[k] = 1 PROVE u = w
  <2>1. u \in Readers(k) /\ w \in Readers(k)
    <3>1. u \in Readers(k)
      BY <1>9, Zenon DEF Readers
    <3>2. w \notin Writers(k)
      BY <1>4, <1>9
    <3> QED BY <1>5, <3>1, <3>2, ZenonT(60)
  <2>2. IsFiniteSet(Readers(k)) /\ Cardinality(Readers(k)) \in Nat
    BY <1>3, Finite, ZenonT(60)
  <2>3. Cardinality(Readers(k)) <= 1
    BY <1>3, <1>4, <1>9, <2>1, <2>2, SMTT(60)
  <2>4. IsFiniteSet(Readers(k) \ {u}) /\ Cardinality(Readers(k) \ {u}) = 0
    <3>1. Cardinality(Readers(k) \ {u}) = Cardinality(Readers(k)) - 1 /\ Cardinality(Readers(k)) > 0
      BY <2>1, <2>2, OneLess, ZenonT(60)
    <3>2. IsFiniteSet(Readers(k) \ {u})
      BY <2>2, FS_Subset, Zenon
    <3> QED BY <2>2, <2>3, <3>1, <3>2, SMTT(60)
  <2>5. Readers(k) \ {u} = {}
    BY <2>4, FS_EmptySet, Zenon
  <2> QED BY <2>1, <2>5, Zenon
<1> QED BY <1>6, <1>7, <1>8, <1>9, ZenonT(60)

\* A step that leaves locked pairs alone, and what TargetStable says of a step.
Untouched == \A k \in Keys : lk[k] # 0 /\ k \in present => val'[k] = val[k] /\ k \in present'
Kept == \A w \in outstanding \cap outstanding', k \in Keys :
          Holds(w, k) => k \in present /\ k \in present' /\ (val'[k] = val[k] \/ (queue # <<>> /\ w = Head(queue)))

\* A step that touches only unlocked pairs keeps the targets of the requests.
LEMMA UntouchedKept ==
  ASSUME IInv, Untouched
  PROVE  Kept
BY HeldLocked, Zenon DEF Untouched, Kept

\* Handlers of client messages change, create and erase only pairs that are not locked.
LEMMA RequestsUntouched ==
  ASSUME IInv, NEW c \in Clients, NEW k \in Keys,
         Refusal(c, k) \/ Invocation(c, k) \/ Storing(c, k) \/ Reading(c, k)
  PROVE  Untouched
<1>1. /\ val \in [Keys -> Values] /\ PresentInv
      /\ \A v \in Values, j \in Keys : j # k => [val EXCEPT ![k] = v][j] = val[j]
  <2>1. val \in [Keys -> Values] /\ PresentInv
    BY ValueTypes, Parts, Zenon
  <2> QED BY <2>1, Zenon
<1>2. CASE Refusal(c, k)
  <2>1. UNCHANGED store
    BY <1>2, Zenon DEF Refusal, InvokeAdoRefused, InvokeAdoExists, PutAdoRefused, PutRefused, PutSignalLost,
                       GetRefused, EraseRefused, SignalExhausted, Refused
  <2> QED BY <2>1, Zenon DEF store, Untouched
<1>3. CASE Invocation(c, k)
  BY <1>3, Zenon DEF Invocation, InvokeAdo, InvokeAdoExhausted, Untouched
<1>4. CASE Storing(c, k)
  <2>1. /\ present \subseteq present'
        /\ val' = val \/ ((\E v \in Values : val' = [val EXCEPT ![k] = v]) /\ (k \notin present \/ lk[k] = 0))
    <3>1. ASSUME NEW v \in Values, NEW keep \in BOOLEAN, NEW w \in Works, NEW async \in Asyncs,
                 PutAdo(c, k, v, w, keep, async)
          PROVE  present \subseteq present' /\ (val' = val \/ (val' = [val EXCEPT ![k] = v] /\ lk[k] = 0))
      <4>1. lk[k] = 0
        BY <3>1, Zenon DEF PutAdo, CanLock, Free
      <4> QED BY <3>1, <4>1, Zenon DEF PutAdo
    <3>2. ASSUME NEW keep \in BOOLEAN, PutAdoThrows(c, k, keep)
          PROVE  present \subseteq present' /\ val' = val
      BY <3>2, Zenon DEF PutAdoThrows, store
    <3>3. ASSUME NEW v \in Values, PutAdoExhausted(c, k, v)
          PROVE  present \subseteq present' /\ (val' = val \/ (val' = [val EXCEPT ![k] = v] /\ lk[k] = 0))
      <4>1. lk[k] = 0
        BY <3>3, Zenon DEF PutAdoExhausted, CanLock, Free
      <4> QED BY <3>3, <4>1, Zenon DEF PutAdoExhausted
    <3>4. ASSUME \/ \E w \in Works, root \in BOOLEAN, async \in Asyncs : PutAdoDetached(c, k, w, root, async)
                 \/ PutAdoOutOfMemory(c, k)
          PROVE  present \subseteq present' /\ val' = val
      BY <3>4, Zenon DEF PutAdoDetached, PutAdoOutOfMemory
    <3>5. ASSUME NEW v \in Values, Put(c, k, v)
          PROVE  present \subseteq present' /\ val' = [val EXCEPT ![k] = v] /\ CanPut(k)
      BY <3>5, Zenon DEF Put
    <3>6. ASSUME NEW v \in Values, NEW w \in Works, PutSignal(c, k, v, w)
          PROVE  present \subseteq present' /\ (val' = val \/ (val' = [val EXCEPT ![k] = v] /\ CanPut(k)))
      BY <3>6, Zenon DEF PutSignal
    <3>7. CanPut(k) => k \notin present \/ lk[k] = 0
      BY Zenon DEF CanPut
    <3> DEFINE G == /\ present \subseteq present'
                    /\ val' = val \/ ((\E v \in Values : val' = [val EXCEPT ![k] = v]) /\ (k \notin present \/ lk[k] = 0))
    <3>8. CASE \E v \in Values, keep \in BOOLEAN :
                 \/ \E w \in Works, async \in Asyncs : PutAdo(c, k, v, w, keep, async)
                 \/ PutAdoThrows(c, k, keep)
                 \/ PutAdoExhausted(c, k, v)
      <4>1. G
        BY <3>1, <3>2, <3>3, <3>8, ZenonT(60)
      <4> QED BY <4>1, Zenon
    <3>9. CASE \E v \in Values : Put(c, k, v) \/ \E w \in Works : PutSignal(c, k, v, w)
      <4>1. G
        BY <3>5, <3>6, <3>7, <3>9, ZenonT(60)
      <4> QED BY <4>1, Zenon
    <3> QED BY <1>4, <3>4, <3>8, <3>9, ZenonT(60) DEF Storing
  <2> QED BY <1>1, <2>1, Zenon DEF Untouched
<1>5. CASE Reading(c, k)
  BY <1>5, Zenon DEF Reading, GetSignalLost, GetTooLarge, GetSignal, Erase, InvokeAdoCreateOnly, EraseSignal, Untouched
<1> QED BY <1>2, <1>3, <1>4, <1>5, ZenonT(60)

\* A callback changes the target of its own request, or a pair that nobody else has locked.
LEMMA CallbackKept ==
  ASSUME IInv, NEW w \in Works, NEW k \in Keys, Callback(w, k)
  PROVE  Kept
<1>1. CASE \E v \in Values : ResizeValue(w, k, v) \/ AdoWrite(w, k, v)
  <2>1. PICK v \in Values : ResizeValue(w, k, v) \/ AdoWrite(w, k, v)
    BY <1>1, Zenon
  <2>2. Running(w) /\ val' = [val EXCEPT ![k] = v] /\ present' = present
    BY <2>1, Zenon DEF ResizeValue, AdoWrite
  <2>3. w \in outstanding /\ queue # <<>> /\ w = Head(queue)
    BY <2>2, RunningOut, Zenon DEF Running
  <2>4. \A j \in Keys : j # k => val'[j] = val[j]
    <3>1. val \in [Keys -> Values]
      BY ValueTypes, Zenon
    <3> QED BY <2>2, <3>1, Zenon
  <2>5. ASSUME NEW u \in outstanding, Holds(u, k) PROVE u = w
    <3>1. /\ lk[k] # 0 /\ explicit[k] = "no" /\ lk[k] \in Int /\ lk[k] >= -1
          /\ \A x \in outstanding : Holds(x, k) /\ lk[k] = -1 => x = u
          /\ \A x \in outstanding : work[x].key = k /\ work[x].lock = "read" /\ lk[k] = 1 => x = u
      BY <2>5, HeldLocked, Parts, LockTypes, ZenonT(60)
    <3>2. CASE AdoWrite(w, k, v)
      <4>1. (work[w].key = k /\ work[w].lock = "write") \/ k \in deferred[w]
        BY <3>1, <3>2, Zenon DEF AdoWrite
      <4>2. Holds(w, k) /\ w \in Writers(k)
        BY <2>3, <4>1, Zenon DEF Holds, Writers
      <4>3. lk[k] = -1
        BY <4>2, Parts, Zenon DEF LockInv, Backed
      <4> QED BY <2>3, <3>1, <4>2, <4>3, ZenonT(60)
    <3>3. CASE ResizeValue(w, k, v)
      <4>1. work[w].key = k /\ work[w].lock # "none"
        <5>1. work[w].key # k => lk[k] = 0
          BY <3>3, Zenon DEF ResizeValue
        <5> QED BY <3>1, <3>3, <5>1, ZenonT(60) DEF ResizeValue
      <4>2. Give(lk, {k})[k] = 0
        BY <3>3, <4>1, ZenonT(60) DEF ResizeValue
      <4>3. lk[k] = 1 \/ lk[k] = -1
        BY <3>1, <4>2 DEF Give
      <4>4. CASE lk[k] = -1
        BY <2>3, <3>1, <4>1, <4>4, ZenonT(60) DEF Holds
      <4>5. CASE lk[k] = 1
        <5>1. work[w].lock \in {"none", "read", "write"}
          BY Parts, WorkTypes, ZenonT(60)
        <5>2. work[w].lock # "write"
          <6>1. ASSUME work[w].lock = "write" PROVE FALSE
            <7>1. w \in Writers(k)
              BY <2>3, <4>1, <6>1, ZenonT(60) DEF Writers
            <7>2. lk[k] = -1
              BY <7>1, Parts, Zenon DEF LockInv, Backed
            <7> QED BY <4>5, <7>2
          <6> QED BY <6>1, Zenon
        <5> QED BY <2>3, <3>1, <4>1, <4>5, <5>1, <5>2, ZenonT(60)
      <4> QED BY <4>3, <4>4, <4>5, Zenon
    <3> QED BY <2>1, <3>2, <3>3, ZenonT(60)
  <2>6. \A u \in outstanding, j \in Keys : Holds(u, j) => j \in present
    BY HeldLocked, Zenon
  <2> QED BY <2>2, <2>3, <2>4, <2>5, <2>6, ZenonT(60) DEF Kept
<1>2. CASE ~ \E v \in Values : ResizeValue(w, k, v) \/ AdoWrite(w, k, v)
  <2>1. Untouched
    BY <1>2, Zenon DEF Callback, OpenKey, UnlockKey, EraseKey, ResizeThrows, store, Untouched
  <2> QED BY <2>1, UntouchedKept, Zenon
<1> QED BY <1>1, <1>2, Zenon

\* A completion erases its target only when nobody else has it locked.
LEMMA CompletionKept ==
  ASSUME IInv, IInv', NEW w \in Works, Completion(w)
  PROVE  Kept
<1>1. CASE \E s \in {"ok", "error", "erase"} : DoWork(w, s)
  <2>1. Untouched
    BY <1>1, Zenon DEF DoWork, store, Untouched
  <2> QED BY <2>1, UntouchedKept, Zenon
<1>2. CASE Complete(w) \/ CompleteStale(w) \/ CompleteValue(w)
  <2>1. Retire(w)
    BY <1>2, Zenon DEF Complete, CompleteWith, CompleteStale, CompleteValue
  <2>2. val' = val /\ outstanding' = outstanding \ {w}
    BY <2>1, Zenon DEF Retire
  <2>3. \A u \in Works : u # w => work'[u] = work[u] /\ deferred'[u] = deferred[u]
    <3>1. TypeOK
      BY Parts, Zenon
    <3> QED BY <2>1, <3>1, ZenonT(60) DEF Retire, TypeOK
  <2>4. ASSUME NEW u \in outstanding \cap outstanding', NEW k \in Keys, Holds(u, k)
        PROVE  k \in present /\ k \in present'
    <3>1. k \in present
      BY <2>4, HeldLocked, Zenon
    <3>2. u \in outstanding' /\ u \in Works /\ u # w
      BY <2>2, <2>4, Parts, WorkTypes, ZenonT(60)
    <3>3. (work'[u].key = k /\ work'[u].lock # "none") \/ k \in deferred'[u]
      BY <2>3, <2>4, <3>2, ZenonT(60) DEF Holds
    <3>4. work'[u].lock \in {"none", "read", "write"}
      BY <2>3, <3>2, Parts, WorkTypes, ZenonT(60)
    <3>5. u \in Readers(k)' \/ u \in Writers(k)'
      BY <3>2, <3>3, <3>4, ZenonT(60) DEF Readers, Writers
    <3>6. TypeOK' /\ LockInv' /\ PresentInv'
      BY Parts, Zenon
    <3>7. Backed(lk'[k], Writers(k)', explicit'[k], Readers(k)', shared'[k])
      BY <3>6, Zenon DEF LockInv
    <3>8. lk'[k] \in Int /\ shared'[k] \in Nat /\ Readers(k)' \subseteq Works
      <4>1. lk' \in [Keys -> -1 .. MaxReaders] /\ shared' \in [Keys -> 0 .. MaxReaders] /\ outstanding' \subseteq Works
        BY <3>6, Zenon DEF TypeOK
      <4>2. MaxReaders \in Nat
        BY BoundsAssumption, Zenon
      <4> QED BY <4>1, <4>2 DEF Readers
    <3>9. lk'[k] # 0
      <4>1. CASE u \in Readers(k)'
        BY <3>7, <3>8, <4>1, HolderLocks, SMTT(60)
      <4>2. CASE u \in Writers(k)'
        <5>1. lk'[k] = -1
          BY <3>7, <4>2, ZenonT(60) DEF Backed
        <5> QED BY <5>1
      <4> QED BY <3>5, <4>1, <4>2, ZenonT(60)
    <3> QED BY <3>1, <3>6, <3>9, Zenon DEF PresentInv
  <2> QED BY <2>2, <2>4, Zenon DEF Kept
<1> QED BY <1>1, <1>2, Zenon DEF Completion

\* What TargetStable says of every step.
TargetStep == \A w \in outstanding \cap outstanding', k \in Keys :
  /\ (work[w].key = k /\ work[w].lock # "none") \/ k \in deferred[w]
  /\ val'[k] # val[k] \/ (k \in present' /\ k \notin present) \/ (k \in present /\ k \notin present')
  => queue # <<>> /\ w = Head(queue) /\ k \in present'

\* Every step keeps the target of every outstanding request, unless its own plugin call
\* changes it.
LEMMA StepKept ==
  ASSUME IInv, IInv', Next
  PROVE  TargetStep
<1>1. ASSUME NEW c \in Clients, Session(c) PROVE Kept
  <2>1. Untouched
    BY <1>1, Zenon 
       DEF Session, InvokeAdoKeyless, InvokeAdoKeylessExhausted, SendComplete, SessionClose, SessionOpen, store, Untouched
  <2> QED BY <2>1, UntouchedKept, Zenon
<1>2. Kept
  BY <1>1, NextSteps, RequestsUntouched, UntouchedKept, CallbackKept, CompletionKept, ZenonT(60)
<1> QED BY <1>2, Zenon DEF Kept, TargetStep, Holds

\* The invariant holds throughout.
LEMMA Invariance == Spec => []IInv
<1>1. IInv /\ [Next]_vars => IInv'
  BY NextInv, Zenon
<1> QED BY <1>1, InitInv, PTL DEF Spec

-----------------------------------------------------------------------------
(* No lock and no answer is lost *)

\* What the runs show a lock or an answer to be lost by is left out: a lack of memory, of
\* slots and of deferred unlocks, requests without an answer, large values, the end of a
\* session.  The plugin may still keep its locks, and gets may be signalled.
Undisturbed ==
  /\ Asyncs = {FALSE} /\ WorkIds = {TRUE} /\ LargeKeys = {} /\ ~MemoryFails /\ ~CanClose
  /\ Signals \subseteq {{}, {"post-get"}}
  /\ IsFiniteSet(Keys) /\ Cardinality(Keys) <= MaxDeferred + 1
  /\ Cardinality(Clients) <= Cardinality(Works)

\* A lock n is the lock of its writers W, of the plugin (e) or of its readers R.
Exact(n, W, e, R) == /\ n = -1 => W # {} \/ e # "no"
                     /\ n >= 0 => n = Cardinality(R)

ExactInv == \A k \in Keys : Exact(lk[k], Writers(k), explicit[k], Readers(k))
WaitInv == \A c \in Clients : req[c] = "waiting" => \E w \in outstanding : work[w].handler = c

\* While the shard runs every lock has an owner and every waiting client a request.
OwnedInv == /\ alive => ExactInv /\ WaitInv
            /\ \A k \in Keys : shared[k] = 0
            /\ \A w \in outstanding : work[w].handler \in Clients /\ work[w].kind # "async"

\* As many requests are outstanding as clients wait: a client that does not wait finds a slot.
LEMMA SlotLeft ==
  ASSUME Undisturbed, IInv, OwnedInv, NEW c \in Clients, Ready(c)
  PROVE  outstanding # Works
<1>1. SUFFICES ASSUME outstanding = Works PROVE FALSE
  BY Zenon
<1> DEFINE f == [w \in Works |-> work[w].handler]
<1>2. \A w \in Works : work[w].handler \in Clients /\ work[w].kind # "async" /\ Waits(w)
  BY <1>1, ClientsAssumption, Zenon DEF OwnedInv, Waits
<1>3. AnswerInv
  BY Parts, Zenon
<1>4. \A w \in Works : work[w].handler \in Clients \ {c}
  BY <1>1, <1>2, <1>3, Zenon DEF AnswerInv, Ready
<1>5. \A u, w \in Works : work[u].handler = work[w].handler => u = w
  BY <1>1, <1>2, <1>3, ZenonT(60) DEF AnswerInv
<1>6. f \in Injection(Works, Clients \ {c})
  <2>1. f \in [Works -> Clients \ {c}]
    BY <1>4, Zenon
  <2>2. DOMAIN f = Works /\ \A u, w \in Works : f[u] = f[w] => u = w
    BY <1>5, Zenon
  <2> HIDE DEF f
  <2> QED BY <2>1, <2>2, Zenon DEF Injection, IsInjective
<1> HIDE DEF f
<1>7. IsFiniteSet(Clients) /\ IsFiniteSet(Clients \ {c}) /\ Cardinality(Clients) \in Nat /\ Cardinality(Works) \in Nat
      /\ Cardinality(Clients \ {c}) \in Nat
  BY Finite, Zenon
<1>8. Cardinality(Works) <= Cardinality(Clients \ {c})
  BY <1>6, <1>7, FS_Injection, Zenon
<1>9. Cardinality(Clients \ {c}) = Cardinality(Clients) - 1
  BY <1>7, OneLess, Zenon
<1>10. Cardinality(Clients) <= Cardinality(Works)
  BY Zenon DEF Undisturbed
<1> QED BY <1>7, <1>8, <1>9, <1>10, SMTT(30)

\* There is room for the deferred unlock of every key.
LEMMA DeferralFits ==
  ASSUME Undisturbed, IInv, NEW w \in outstanding, NEW k \in Keys, lk[k] = 0
  PROVE  Cardinality(deferred[w]) <= MaxDeferred
<1>1. TypeOK /\ SlotInv /\ LockInv /\ w \in Works
  BY Parts, WorkTypes, Zenon
<1>2. k \notin deferred[w]
  BY HeldLocked, Zenon DEF Holds
<1>3. deferred[w] \subseteq Keys \ {k}
  <2>1. deferred[w] \in SUBSET Keys
    BY <1>1, TypeParts, Zenon DEF PluginTypes
  <2> QED BY <1>2, <2>1, Zenon
<1>4. IsFiniteSet(Keys) /\ Cardinality(Keys) \in Nat /\ IsFiniteSet(Keys \ {k}) /\ Cardinality(Keys \ {k}) \in Nat
  <2>1. IsFiniteSet(Keys)
    BY Zenon DEF Undisturbed
  <2>2. Keys \ {k} \in SUBSET Keys
    BY Zenon
  <2> QED BY <2>1, <2>2, FS_Subset, FS_CardinalityType, Zenon
<1>5. Cardinality(Keys \ {k}) = Cardinality(Keys) - 1
  BY <1>4, OneLess, Zenon
<1>6. Cardinality(deferred[w]) \in Nat /\ Cardinality(deferred[w]) <= Cardinality(Keys \ {k})
  BY <1>3, <1>4, Fewer, Zenon
<1>7. Cardinality(Keys) <= MaxDeferred + 1 /\ MaxDeferred \in Nat
  BY BoundsAssumption, Zenon DEF Undisturbed
<1> QED BY <1>4, <1>5, <1>6, <1>7, SMTT(30)

\* A step that changes no lock, no owner and no request, and after which nobody else waits.
LEMMA OwnersKept ==
  ASSUME OwnedInv, UNCHANGED <<lk, outstanding, work, deferred, explicit, shared>>, alive' => alive,
         alive' => \A c \in Clients : req'[c] = "waiting" => req[c] = "waiting"
  PROVE  OwnedInv'
<1>1. \A k : Readers(k)' = Readers(k) /\ Writers(k)' = Writers(k)
  BY Zenon DEF Readers, Writers
<1>2. alive' => ExactInv'
  BY <1>1, Zenon DEF OwnedInv, ExactInv
<1>3. alive' => WaitInv'
  BY Zenon DEF OwnedInv, WaitInv
<1> QED BY <1>2, <1>3, Zenon DEF OwnedInv

\* The client of a request that is sent waits, and the lock has its owner.
LEMMA OwnersSent ==
  ASSUME IInv, OwnedInv, NEW c \in Clients, Ready(c), Answer(c, "waiting"),
         NEW w, NEW k, NEW mode, NEW kind \in {"sync", "io", "value"}, Send(w, c, k, mode, kind),
         shared' = shared, alive' = alive, ExactInv'
  PROVE  OwnedInv'
<1>1. TypeOK /\ w \in Works /\ w \notin outstanding /\ outstanding' = outstanding \cup {w} /\ outstanding \subseteq Works
  BY Parts, WorkTypes, Zenon DEF Send
<1>2. /\ work'[w].handler = c /\ work'[w].kind = kind
      /\ \A u \in outstanding : work'[u] = work[u]
  BY <1>1, WorkTypes, Zenon DEF Send
<1>3. \A d \in Clients : d # c => req'[d] = req[d]
  BY <1>1, TypeParts, Zenon DEF Answer, ClientTypes
<1>4. alive /\ WaitInv
  BY Zenon DEF OwnedInv, Ready
<1>5. WaitInv'
  <2>1. SUFFICES ASSUME NEW d \in Clients, req'[d] = "waiting" PROVE \E u \in outstanding' : work'[u].handler = d
    BY Zenon DEF WaitInv
  <2>2. CASE d = c
    BY <1>1, <1>2, <2>2, Zenon
  <2>3. CASE d # c
    BY <1>1, <1>2, <1>3, <1>4, <2>1, <2>3, ZenonT(60) DEF WaitInv
  <2> QED BY <2>2, <2>3, Zenon
<1>6. kind # "async"
  BY Zenon
<1>7. \A u \in outstanding' : work'[u].handler \in Clients /\ work'[u].kind # "async"
  BY <1>1, <1>2, <1>6, Zenon DEF OwnedInv
<1> QED BY <1>5, <1>7, Zenon DEF OwnedInv

\* The lock of a request that is sent.
LEMMA TakenExact ==
  ASSUME IInv, OwnedInv, alive, NEW k \in Keys, NEW mode \in {"read", "write"}, Free(lk, k, mode),
         lk' = Take(lk, k, mode), NEW w, NEW c, NEW kind, Send(w, c, k, mode, kind),
         deferred' = deferred, explicit' = explicit
  PROVE  ExactInv'
<1>1. TypeOK /\ SlotInv /\ LockInv /\ ExactInv
  BY Parts, Zenon DEF OwnedInv
<1>2. SUFFICES ASSUME NEW j \in Keys PROVE Exact(lk'[j], Writers(j)', explicit[j], Readers(j)')
  BY Zenon DEF ExactInv
<1>3. Exact(lk[j], Writers(j), explicit[j], Readers(j)) /\ Readers(j) \subseteq Works
  BY <1>1, LockTypes, Zenon DEF ExactInv
<1>4. /\ w \in Works /\ w \notin Readers(j)
      /\ Readers(j)' = IF mode = "read" /\ j = k THEN Readers(j) \cup {w} ELSE Readers(j)
      /\ Writers(j)' = IF mode = "write" /\ j = k THEN Writers(j) \cup {w} ELSE Writers(j)
  BY <1>1, SendEffect, SMTT(30)
<1>5. /\ j # k => lk'[j] = lk[j]
      /\ mode = "read" => lk[k] \in Nat /\ lk'[k] = lk[k] + 1
      /\ mode = "write" => lk'[k] = -1
  BY <1>1, TakeEffect
<1>6. CASE j # k
  BY <1>3, <1>4, <1>5, <1>6, ZenonT(60)
<1>7. CASE j = k /\ mode = "read"
  <2>1. IsFiniteSet(Readers(j)) /\ Cardinality(Readers(j)) \in Nat
    BY <1>3, Finite, Zenon
  <2>2. Cardinality(Readers(j) \cup {w}) = Cardinality(Readers(j)) + 1
    BY <1>4, <2>1, OneMore, Zenon
  <2>3. lk[j] \in Nat /\ lk'[j] = lk[j] + 1 /\ Readers(j)' = Readers(j) \cup {w}
    BY <1>4, <1>5, <1>7, Zenon
  <2>4. lk[j] = Cardinality(Readers(j))
    BY <1>3, <2>3, SMTT(30) DEF Exact
  <2> QED BY <2>1, <2>2, <2>3, <2>4, SMTT(30) DEF Exact
<1>8. CASE j = k /\ mode = "write"
  <2>1. lk'[j] = -1 /\ Writers(j)' = Writers(j) \cup {w}
    BY <1>4, <1>5, <1>8, Zenon
  <2>2. Writers(j)' # {}
    BY <2>1, Zenon
  <2> QED BY <2>1, <2>2 DEF Exact
<1> QED BY <1>6, <1>7, <1>8, Zenon

\* CREATE and OPEN: the request or the plugin has the lock.
LEMMA OpenOwners ==
  ASSUME Undisturbed, IInv, OwnedInv, NEW w \in Works, NEW k \in Keys, NEW lifetime \in Lifetimes,
         NEW named \in WorkIds, NEW create, OpenKey(w, k, lifetime, named, create)
  PROVE  OwnedInv'
<1>1. TypeOK /\ LockInv /\ deferred \in [Works -> SUBSET Keys] /\ explicit \in [Keys -> {"no", "life", "manual"}]
  BY Parts, TypeParts, Zenon DEF PluginTypes
<1>2. /\ Running(w) /\ Free(lk, k, "write") /\ lk' = Take(lk, k, "write")
      /\ UNCHANGED <<works, client, rest>>
  BY Zenon DEF OpenKey, CanLock
<1>3. w \in outstanding /\ alive
  BY <1>2, RunningOut, Zenon DEF Running
<1>4. outstanding' = outstanding /\ work' = work /\ shared' = shared /\ req' = req
  BY <1>2, Zenon DEF works, rest, client
<1>5. lk[k] = 0 /\ lk'[k] = -1 /\ \A j \in Keys : j # k => lk'[j] = lk[j]
  BY <1>1, <1>2, TakeEffect, Zenon
<1>6. named = TRUE /\ Cardinality(deferred[w]) <= MaxDeferred
  <2>1. Cardinality(deferred[w]) <= MaxDeferred
    BY <1>3, <1>5, DeferralFits, Zenon
  <2> QED BY <2>1, Zenon DEF Undisturbed
<1>7. \/ deferred' = [deferred EXCEPT ![w] = @ \cup {k}] /\ explicit' = explicit
      \/ deferred' = deferred /\ explicit' = [explicit EXCEPT ![k] = lifetime] /\ lifetime \in {"life", "manual"}
  <2>1. CASE lifetime = "invoke"
    <3>1. FlagsOf(lifetime) \cap NoImplicitUnlock = {} /\ FlagsOf(lifetime) \cap LifetimeUnlock = {}
      BY <2>1, LifetimesShare, Zenon
    <3> QED BY <1>6, <3>1, Zenon DEF OpenKey
  <2>2. CASE lifetime # "invoke"
    <3>1. FlagsOf(lifetime) \cap NoImplicitUnlock # {} /\ lifetime \in {"life", "manual"}
      BY <2>2, LifetimesShare, Zenon
    <3> QED BY <3>1, Zenon DEF OpenKey
  <2> QED BY <2>1, <2>2, Zenon
<1>8. w \in Writers(k)' \/ explicit'[k] # "no"
  <2>1. CASE deferred' = [deferred EXCEPT ![w] = @ \cup {k}]
    <3>1. k \in deferred'[w]
      BY <1>1, <2>1, Zenon
    <3> QED BY <1>3, <1>4, <3>1, Zenon DEF Writers
  <2>2. CASE explicit' = [explicit EXCEPT ![k] = lifetime] /\ lifetime \in {"life", "manual"}
    BY <1>1, <2>2, Zenon
  <2> QED BY <1>7, <2>1, <2>2, Zenon
<1>9. ASSUME NEW j \in Keys, j # k
      PROVE  Readers(j)' = Readers(j) /\ Writers(j)' = Writers(j) /\ explicit'[j] = explicit[j]
  <2>1. explicit'[j] = explicit[j]
    BY <1>1, <1>7, <1>9, Zenon
  <2>2. \A u \in outstanding : j \in deferred'[u] <=> j \in deferred[u]
    BY <1>1, <1>7, <1>9, WorkTypes, SMTT(30)
  <2> QED BY <1>4, <2>1, <2>2, Zenon DEF Readers, Writers
<1>10. ExactInv'
  <2>1. ASSUME NEW j \in Keys PROVE Exact(lk'[j], Writers(j)', explicit'[j], Readers(j)')
    <3>1. CASE j # k
      <4>1. Exact(lk[j], Writers(j), explicit[j], Readers(j))
        BY <1>3, Zenon DEF OwnedInv, ExactInv
      <4> QED BY <1>5, <1>9, <3>1, <4>1, Zenon
    <3>2. CASE j = k
      <4>1. lk'[j] = -1 /\ (Writers(j)' # {} \/ explicit'[j] # "no")
        BY <1>5, <1>8, <3>2, Zenon
      <4> QED BY <4>1 DEF Exact
    <3> QED BY <3>1, <3>2, Zenon
  <2> QED BY <2>1, Zenon DEF ExactInv
<1>11. WaitInv'
  BY <1>3, <1>4, Zenon DEF OwnedInv, WaitInv
<1> QED BY <1>4, <1>10, <1>11, Zenon DEF OwnedInv

\* UNLOCK: the lock is free.
LEMMA UnlockOwners ==
  ASSUME IInv, OwnedInv, NEW w \in Works, NEW k \in Keys, UnlockKey(w, k)
  PROVE  OwnedInv'
<1>1. /\ TypeOK /\ LockInv /\ deferred \in [Works -> SUBSET Keys] /\ explicit \in [Keys -> {"no", "life", "manual"}]
  BY Parts, TypeParts, Zenon DEF PluginTypes
<1>2. /\ Running(w) /\ (k \in deferred[w] \/ explicit[k] # "no") /\ lk' = Give(lk, {k})
      /\ deferred' = [deferred EXCEPT ![w] = @ \ {k}] /\ explicit' = [explicit EXCEPT ![k] = "no"]
      /\ UNCHANGED <<works, client, rest>>
  BY Zenon DEF UnlockKey
<1>3. w \in outstanding /\ alive
  BY <1>2, RunningOut, Zenon DEF Running
<1>4. outstanding' = outstanding /\ work' = work /\ shared' = shared /\ req' = req
  BY <1>2, Zenon DEF works, rest, client
<1>5. lk[k] = -1 /\ Readers(k) = {}
  <2>1. Backed(lk[k], Writers(k), explicit[k], Readers(k), shared[k])
    BY <1>1, Zenon DEF LockInv
  <2>2. lk[k] \in Int /\ shared[k] \in Nat /\ Readers(k) \subseteq Works
    BY <1>1, LockTypes, Zenon
  <2>3. Writers(k) # {} \/ explicit[k] # "no"
    BY <1>2, <1>3, Zenon DEF Writers
  <2> QED BY <2>1, <2>2, <2>3, HolderLocks, SMTT(30)
<1>6. lk'[k] = 0 /\ \A j \in Keys : j # k => lk'[j] = lk[j]
  BY <1>2, <1>5, SMTT(30) DEF Give
<1>7. \A j \in Keys : Readers(j)' = Readers(j)
  BY <1>4, Zenon DEF Readers
<1>8. ASSUME NEW j \in Keys, j # k
      PROVE  Writers(j)' = Writers(j) /\ explicit'[j] = explicit[j]
  <2>1. explicit'[j] = explicit[j]
    BY <1>1, <1>2, <1>8, Zenon
  <2>2. \A u \in outstanding : j \in deferred'[u] <=> j \in deferred[u]
    BY <1>1, <1>2, <1>8, WorkTypes, SMTT(30)
  <2> QED BY <1>4, <2>1, <2>2, Zenon DEF Writers
<1>9. ExactInv'
  <2>1. ASSUME NEW j \in Keys PROVE Exact(lk'[j], Writers(j)', explicit'[j], Readers(j)')
    <3>1. CASE j # k
      <4>1. Exact(lk[j], Writers(j), explicit[j], Readers(j))
        BY <1>3, Zenon DEF OwnedInv, ExactInv
      <4> QED BY <1>6, <1>7, <1>8, <3>1, <4>1, ZenonT(60)
    <3>2. CASE j = k
      <4>1. lk'[j] = 0 /\ Readers(j)' = {} /\ Cardinality({}) = 0
        BY <1>5, <1>6, <1>7, <3>2, FS_EmptySet, ZenonT(60)
      <4> QED BY <4>1 DEF Exact
    <3> QED BY <3>1, <3>2, Zenon
  <2> QED BY <2>1, Zenon DEF ExactInv
<1>10. WaitInv'
  BY <1>3, <1>4, Zenon DEF OwnedInv, WaitInv
<1> QED BY <1>4, <1>9, <1>10, Zenon DEF OwnedInv

\* A completion releases what the request held, no more and no less.
LEMMA ReleasedExact ==
  ASSUME IInv, NEW w \in outstanding, NEW k \in Keys, shared[k] = 0,
         Exact(lk[k], Writers(k), explicit[k], Readers(k))
  PROVE  Exact(Released(w)[k], Writers(k) \ {w}, explicit[k], Readers(k) \ {w})
<1> DEFINE K == IF work[w].lock # "none" THEN {work[w].key} ELSE {}
<1>1. TypeOK /\ SlotInv /\ LockInv
  BY Parts, Zenon
<1>2. Backed(lk[k], Writers(k), explicit[k], Readers(k), shared[k])
  BY <1>1, Zenon DEF LockInv
<1>3. lk[k] \in Int /\ shared[k] \in Nat /\ Readers(k) \subseteq Works
  BY <1>1, LockTypes, Zenon
<1>4. Released(w) = Give(Give(lk, K), deferred[w])
  BY Zenon DEF Released
<1> HIDE DEF K
<1>5. Give(lk, K)[k] = IF k \notin K THEN lk[k] ELSE IF lk[k] > 0 THEN lk[k] - 1 ELSE 0
  BY Zenon DEF Give
<1>6. Released(w)[k] = IF k \notin deferred[w] THEN Give(lk, K)[k]
                       ELSE IF Give(lk, K)[k] > 0 THEN Give(lk, K)[k] - 1 ELSE 0
  BY <1>4, Zenon DEF Give
<1>7. work[w].lock \in {"none", "read", "write"}
  BY <1>1, WorkTypes, Zenon
<1>8. CASE work[w].key = k /\ work[w].lock = "read"
  <2>1. w \in Readers(k) /\ k \in K
    BY <1>1, <1>8, Owned, Zenon DEF K
  <2>2. lk[k] > 0 /\ Writers(k) = {}
    BY <1>2, <1>3, <2>1, HolderLocks, Zenon
  <2>3. k \notin deferred[w]
    BY <1>1, <2>2, Owned, Zenon
  <2>4. IsFiniteSet(Readers(k)) /\ Cardinality(Readers(k)) \in Nat
    BY <1>3, Finite, Zenon
  <2>5. Cardinality(Readers(k) \ {w}) = Cardinality(Readers(k)) - 1
    BY <2>1, <2>4, OneLess, Zenon
  <2>6. Released(w)[k] = lk[k] - 1
    BY <1>5, <1>6, <2>1, <2>2, <2>3, ZenonT(60)
  <2>7. lk[k] = Cardinality(Readers(k))
    BY <1>3, <2>2, SMTT(30) DEF Exact
  <2> QED BY <1>3, <2>2, <2>4, <2>5, <2>6, <2>7, SMTT(30) DEF Exact
<1>9. CASE (work[w].key = k /\ work[w].lock = "write") \/ k \in deferred[w]
  <2>1. w \in Writers(k) /\ Writers(k) # {}
    BY <1>1, <1>9, Owned, Zenon
  <2>2. lk[k] = -1 /\ Readers(k) = {}
    BY <1>2, <1>3, <2>1, HolderLocks, Zenon
  <2>3. k \in K \/ k \in deferred[w]
    BY <1>9, Zenon DEF K
  <2>4. Released(w)[k] = 0
    BY <1>5, <1>6, <2>2, <2>3, SMTT(30)
  <2>5. Cardinality(Readers(k) \ {w}) = 0
    <3>1. Readers(k) \ {w} = {}
      BY <2>2, Zenon
    <3> QED BY <3>1, FS_EmptySet, Zenon
  <2> QED BY <2>4, <2>5 DEF Exact
<1>10. CASE ~(work[w].key = k /\ work[w].lock \in {"read", "write"}) /\ k \notin deferred[w]
  <2>1. k \notin K
    BY <1>7, <1>10, Zenon DEF K
  <2>2. Released(w)[k] = lk[k]
    BY <1>5, <1>6, <1>10, <2>1, Zenon
  <2>3. w \notin Readers(k) /\ w \notin Writers(k)
    BY <1>10, Zenon DEF Readers, Writers
  <2>4. Readers(k) \ {w} = Readers(k) /\ Writers(k) \ {w} = Writers(k)
    BY <2>3, Zenon
  <2> QED BY <2>2, <2>4, Zenon
<1> QED BY <1>8, <1>9, <1>10, Zenon

\* A request is completed and its client answered, or the shard ends.
LEMMA RetireOwners ==
  ASSUME IInv, OwnedInv, NEW w \in Works, Completed(w), Retire(w), lk' = Released(w), shared' = shared,
         alive' => \E s : s # "waiting" /\ req' = [req EXCEPT ![work[w].handler] = s]
  PROVE  OwnedInv'
<1>1. TypeOK /\ QueueInv /\ DoneInv /\ ApartInv /\ ClientTypes /\ alive
  BY Parts, TypeParts, Zenon DEF Completed
<1>2. outstanding' = outstanding \ {w} /\ work' = [work EXCEPT ![w] = NoWork] /\ explicit' = explicit
  BY Zenon DEF Retire
<1>3. w \in outstanding
  <2>1. /\ done # <<>> /\ w = Head(done) /\ done' = Tail(done) /\ outstanding' = outstanding \ {w} /\ queue' = queue
    BY Zenon DEF Completed, Retire
  <2> QED BY <1>1, <2>1, DoneShrinks, Zenon
<1>4. \A u \in outstanding' : u \in outstanding /\ work'[u] = work[u]
  BY <1>1, <1>2, WorkTypes, Zenon
<1>5. ExactInv'
  <2>1. ASSUME NEW k \in Keys PROVE Exact(lk'[k], Writers(k)', explicit'[k], Readers(k)')
    <3>1. Exact(lk[k], Writers(k), explicit[k], Readers(k)) /\ shared[k] = 0
      BY <1>1, Zenon DEF OwnedInv, ExactInv
    <3>2. Exact(Released(w)[k], Writers(k) \ {w}, explicit[k], Readers(k) \ {w})
      BY <1>3, <3>1, ReleasedExact, Zenon
    <3>3. Readers(k)' = Readers(k) \ {w} /\ Writers(k)' = Writers(k) \ {w}
      BY <1>1, RetireEffect, Zenon
    <3> QED BY <1>2, <3>2, <3>3, Zenon
  <2> QED BY <2>1, Zenon DEF ExactInv
<1>6. ASSUME alive' PROVE WaitInv'
  <2>1. PICK s : s # "waiting" /\ req' = [req EXCEPT ![work[w].handler] = s]
    BY <1>6, Zenon
  <2>2. SUFFICES ASSUME NEW d \in Clients, req'[d] = "waiting" PROVE \E u \in outstanding' : work'[u].handler = d
    BY Zenon DEF WaitInv
  <2>3. req[d] = "waiting" /\ d # work[w].handler
    BY <1>1, <2>1, <2>2, Zenon DEF ClientTypes
  <2>4. PICK u \in outstanding : work[u].handler = d
    BY <1>1, <2>3, Zenon DEF OwnedInv, WaitInv
  <2> QED BY <1>2, <1>4, <2>3, <2>4, Zenon
<1>7. \A u \in outstanding' : work'[u].handler \in Clients /\ work'[u].kind # "async"
  BY <1>4, Zenon DEF OwnedInv
<1> QED BY <1>5, <1>6, <1>7, Zenon DEF OwnedInv

\* do_work and its completion, with an answer.
LEMMA CompletionOwners ==
  ASSUME Undisturbed, IInv, OwnedInv, NEW w \in Works, Completion(w)
  PROVE  OwnedInv'
<1>1. TypeOK /\ QueueInv /\ DoneInv /\ ApartInv
  BY Parts, Zenon
<1>2. ASSUME Completed(w), Retire(w) PROVE w \in outstanding /\ work[w].handler \in Clients /\ work[w].kind # "async"
  <2>1. /\ done # <<>> /\ w = Head(done) /\ done' = Tail(done) /\ outstanding' = outstanding \ {w} /\ queue' = queue
    BY <1>2, Zenon DEF Completed, Retire
  <2>2. w \in outstanding
    BY <1>1, <2>1, DoneShrinks, Zenon
  <2> QED BY <2>2, Zenon DEF OwnedInv
<1>3. ASSUME NEW s, DoWork(w, s) PROVE OwnedInv'
  <2>1. UNCHANGED <<lk, outstanding, work, deferred, explicit, shared>> /\ alive' = alive /\ req' = req
    BY <1>3, Zenon DEF DoWork, store, plugin, client
  <2> QED BY <2>1, OwnersKept, Zenon
<1>4. ASSUME Complete(w) PROVE OwnedInv'
  <2>1. Completed(w) /\ Retire(w) /\ lk' = Released(w) /\ shared' = shared
    BY <1>4, Zenon DEF Complete, CompleteWith
  <2>2. work[w].kind # "async"
    BY <1>2, <2>1, Zenon
  <2>3. req' = [req EXCEPT ![work[w].handler] = Outcome(w)]
    BY <1>4, <2>2, Zenon DEF Complete, CompleteWith
  <2>4. Outcome(w) # "waiting"
    <3>1. status[w] \in {"ok", "error", "erase"}
      BY <1>1, Zenon DEF TypeOK
    <3> QED BY <3>1, Zenon DEF Outcome
  <2> QED BY <2>1, <2>3, <2>4, RetireOwners, Zenon
<1>5. ASSUME CompleteValue(w) PROVE OwnedInv'
  <2>1. work[w].key \notin LargeKeys
    BY Zenon DEF Undisturbed
  <2>2. Completed(w) /\ Retire(w) /\ lk' = Released(w) /\ shared' = shared
    BY <1>5, <2>1, Zenon DEF CompleteValue
  <2>3. alive' => req' = [req EXCEPT ![work[w].handler] = "ok"]
    BY <1>5, Zenon DEF CompleteValue
  <2>4. "ok" # "waiting"
    OBVIOUS
  <2> QED BY <2>2, <2>3, <2>4, RetireOwners, Zenon
<1>6. ASSUME CompleteStale(w) PROVE FALSE
  <2>1. Completed(w) /\ Retire(w) /\ work[w].handler = NoClient
    BY <1>6, Zenon DEF CompleteStale
  <2> QED BY <1>2, <2>1, ClientsAssumption, Zenon
<1> QED BY <1>3, <1>4, <1>5, <1>6, Zenon DEF Completion

\* The lock of a target is taken and its request sent.
LEMMA TargetOwners ==
  ASSUME IInv, OwnedInv, NEW c \in Clients, Ready(c), Answer(c, "waiting"), NEW k \in Keys,
         NEW mode \in {"read", "write"}, Free(lk, k, mode), lk' = Take(lk, k, mode), NEW w,
         NEW kind \in {"sync", "io", "value"}, Send(w, c, k, mode, kind), UNCHANGED plugin,
         shared' = shared, alive' = alive
  PROVE  OwnedInv'
<1>1. deferred' = deferred /\ explicit' = explicit /\ alive
  BY Zenon DEF plugin, Ready
<1>2. ExactInv'
  BY <1>1, TakenExact, Zenon
<1> QED BY <1>2, OwnersSent, Zenon

\* An answer without a work request.
LEMMA AnswerOwners ==
  ASSUME IInv, OwnedInv, NEW c \in Clients, Ready(c), NEW s, Answer(c, s), alive' => alive /\ s # "waiting",
         UNCHANGED <<lk, works, plugin, shared>>
  PROVE  OwnedInv'
<1>1. ClientTypes
  BY Parts, TypeParts, Zenon
<1>2. UNCHANGED <<lk, outstanding, work, deferred, explicit, shared>>
  BY Zenon DEF works, plugin
<1>3. alive' => \A d \in Clients : req'[d] = "waiting" => req[d] = "waiting"
  BY <1>1, Zenon DEF Answer, ClientTypes
<1> QED BY <1>2, <1>3, OwnersKept, Zenon

\* Requests that are refused.
LEMMA RefusalOwners ==
  ASSUME Undisturbed, IInv, OwnedInv, NEW c \in Clients, NEW k \in Keys, Refusal(c, k)
  PROVE  OwnedInv'
<1>1. signals \in {{}, {"post-get"}}
  BY Parts, Zenon DEF Undisturbed, TypeOK
<1>2. ASSUME Ready(c), Refused(c) PROVE OwnedInv'
  <2>1. Answer(c, "error") /\ UNCHANGED <<lk, works, plugin, shared>> /\ alive' = alive
    BY <1>2, Zenon DEF Refused, store, rest
  <2>2. alive' => alive /\ "error" # "waiting"
    BY <2>1
  <2> QED BY <1>2, <2>1, <2>2, AnswerOwners, Zenon
<1>3. ~PutSignalLost(c, k)
  <2>1. "post-put" \notin signals
    BY <1>1
  <2> QED BY <2>1, Zenon DEF PutSignalLost
<1>4. ~SignalExhausted(c, k)
  BY SlotLeft, Zenon DEF SignalExhausted
<1> QED BY <1>2, <1>3, <1>4, Zenon
        DEF Refusal, InvokeAdoRefused, InvokeAdoExists, PutAdoRefused, PutRefused, GetRefused, EraseRefused

\* Invocations.
LEMMA InvocationOwners ==
  ASSUME Undisturbed, IInv, OwnedInv, NEW c \in Clients, NEW k \in Keys, Invocation(c, k)
  PROVE  OwnedInv'
<1>1. ASSUME NEW w \in Works, NEW r \in BOOLEAN, NEW a \in Asyncs, NEW n, InvokeAdo(c, k, w, r, a, n)
      PROVE  OwnedInv'
  <2>1. a = FALSE /\ Mode(r) \in {"read", "write"} /\ "sync" \in {"sync", "io", "value"}
    BY Zenon DEF Undisturbed, Mode
  <2>2. /\ Ready(c) /\ Answer(c, "waiting") /\ Free(lk, k, Mode(r)) /\ lk' = Take(lk, k, Mode(r))
        /\ Send(w, c, k, Mode(r), "sync") /\ UNCHANGED plugin /\ shared' = shared /\ alive' = alive
    BY <1>1, <2>1, Zenon DEF InvokeAdo, CanLock, rest
  <2> QED BY <2>1, <2>2, TargetOwners, Zenon
<1>2. \A r, a, n : ~InvokeAdoExhausted(c, k, r, a, n)
  BY SlotLeft, Zenon DEF InvokeAdoExhausted
<1> QED BY <1>1, <1>2, Zenon DEF Invocation

\* Puts, with a work request and without.
LEMMA StoringOwners ==
  ASSUME Undisturbed, IInv, OwnedInv, NEW c \in Clients, NEW k \in Keys, Storing(c, k)
  PROVE  OwnedInv'
<1>1. "write" \in {"read", "write"} /\ "sync" \in {"sync", "io", "value"}
  BY Zenon
<1>2. ASSUME NEW v, NEW w \in Works, NEW keep, NEW a \in Asyncs, PutAdo(c, k, v, w, keep, a) PROVE OwnedInv'
  <2>1. a = FALSE
    BY Zenon DEF Undisturbed
  <2>2. /\ Ready(c) /\ Answer(c, "waiting") /\ Free(lk, k, "write") /\ lk' = Take(lk, k, "write")
        /\ Send(w, c, k, "write", "sync") /\ UNCHANGED plugin /\ shared' = shared /\ alive' = alive
    BY <1>2, <2>1, Zenon DEF PutAdo, CanLock, rest
  <2> QED BY <1>1, <2>2, TargetOwners, Zenon
<1>3. ASSUME NEW keep, PutAdoThrows(c, k, keep) PROVE OwnedInv'
  <2>1. Ready(c) /\ Answer(c, "waiting") /\ ~alive' /\ UNCHANGED <<lk, works, plugin, shared>>
    BY <1>3, Zenon DEF PutAdoThrows, store
  <2> QED BY <2>1, AnswerOwners, Zenon
<1>4. \A v : ~PutAdoExhausted(c, k, v)
  BY SlotLeft, ZenonT(60) DEF PutAdoExhausted
<1>5. ASSUME NEW w \in Works, NEW root, NEW a \in Asyncs, PutAdoDetached(c, k, w, root, a) PROVE OwnedInv'
  <2>1. a = FALSE
    BY Zenon DEF Undisturbed
  <2>2. /\ Ready(c) /\ Answer(c, "waiting") /\ Free(lk, k, "write") /\ lk' = Take(lk, k, "write")
        /\ Send(w, c, k, "write", "sync") /\ UNCHANGED plugin /\ shared' = shared /\ alive' = alive
    BY <1>5, <2>1, Zenon DEF PutAdoDetached, CanLock, rest
  <2> QED BY <1>1, <2>2, TargetOwners, Zenon
<1>6. ~PutAdoOutOfMemory(c, k)
  BY Zenon DEF Undisturbed, PutAdoOutOfMemory
<1>7. ASSUME NEW v, Put(c, k, v) PROVE OwnedInv'
  <2>1. Ready(c) /\ Answer(c, "ok") /\ alive' = alive /\ UNCHANGED <<lk, works, plugin, shared>>
    BY <1>7, Zenon DEF Put, rest
  <2>2. alive' => alive /\ "ok" # "waiting"
    BY <2>1
  <2> QED BY <2>1, <2>2, AnswerOwners, Zenon
<1>8. \A v, w : ~PutSignal(c, k, v, w)
  <2>1. signals \in {{}, {"post-get"}}
    BY Parts, Zenon DEF Undisturbed, TypeOK
  <2>2. "post-put" \notin signals
    BY <2>1
  <2> QED BY <2>2, Zenon DEF PutSignal
<1> QED BY <1>2, <1>3, <1>4, <1>5, <1>6, <1>7, <1>8, ZenonT(60) DEF Storing

\* Gets and erases.
LEMMA ReadingOwners ==
  ASSUME Undisturbed, IInv, OwnedInv, NEW c \in Clients, NEW k \in Keys, Reading(c, k)
  PROVE  OwnedInv'
<1>1. ASSUME NEW w \in Works, GetSignal(c, k, w) PROVE OwnedInv'
  <2>1. "read" \in {"read", "write"} /\ "value" \in {"sync", "io", "value"} /\ k \notin LargeKeys
    BY Zenon DEF Undisturbed
  <2>2. /\ Ready(c) /\ Answer(c, "waiting") /\ Free(lk, k, "read") /\ lk' = Take(lk, k, "read")
        /\ Send(w, c, k, "read", "value") /\ UNCHANGED plugin /\ shared' = shared /\ alive' = alive
    BY <1>1, <2>1, ZenonT(60) DEF GetSignal, CanLock
  <2> QED BY <2>1, <2>2, TargetOwners, Zenon
<1>2. ASSUME Erase(c, k) \/ InvokeAdoCreateOnly(c, k) PROVE OwnedInv'
  <2>1. Ready(c) /\ Answer(c, "ok") /\ alive' = alive /\ UNCHANGED <<lk, works, plugin, shared>>
    BY <1>2, Zenon DEF Erase, InvokeAdoCreateOnly, rest
  <2>2. alive' => alive /\ "ok" # "waiting"
    BY <2>1
  <2> QED BY <2>1, <2>2, AnswerOwners, Zenon
<1>3. \A w : ~EraseSignal(c, k, w)
  <2>1. signals \in {{}, {"post-get"}}
    BY Parts, Zenon DEF Undisturbed, TypeOK
  <2>2. "post-erase" \notin signals
    BY <2>1
  <2> QED BY <2>2, Zenon DEF EraseSignal
<1>4. ~GetSignalLost(c, k) /\ ~GetTooLarge(c, k)
  BY Zenon DEF GetSignalLost, GetTooLarge, Undisturbed
<1> QED BY <1>1, <1>2, <1>3, <1>4, Zenon DEF Reading

\* Invocations without a key, and sessions.
LEMMA SessionOwners ==
  ASSUME Undisturbed, IInv, OwnedInv, NEW c \in Clients, Session(c)
  PROVE  OwnedInv'
<1>1. ASSUME NEW w \in Works, NEW a \in Asyncs, InvokeAdoKeyless(c, w, a) PROVE OwnedInv'
  <2>1. a = FALSE /\ "sync" \in {"sync", "io", "value"} /\ TypeOK /\ SlotInv
    BY Parts, Zenon DEF Undisturbed
  <2>2. /\ Ready(c) /\ Answer(c, "waiting") /\ Send(w, c, NoKey, "none", "sync") /\ lk' = lk
        /\ deferred' = deferred /\ explicit' = explicit /\ shared' = shared /\ alive' = alive
    BY <1>1, <2>1, Zenon DEF InvokeAdoKeyless, store, plugin, rest
  <2>3. \A k \in Keys : Readers(k)' = Readers(k) /\ Writers(k)' = Writers(k)
    <3> TAKE k \in Keys
    <3>1. PICK mode : mode = "none"
      BY Zenon
    <3>2. mode # "read" /\ mode # "write" /\ Send(w, c, NoKey, mode, "sync")
      BY <2>2, <3>1, SMTT(30)
    <3>3. /\ Readers(k)' = IF mode = "read" /\ k = NoKey THEN Readers(k) \cup {w} ELSE Readers(k)
          /\ Writers(k)' = IF mode = "write" /\ k = NoKey THEN Writers(k) \cup {w} ELSE Writers(k)
      BY <2>1, <2>2, <3>2, SendEffect, SMTT(30)
    <3> QED BY <3>2, <3>3, Zenon
  <2>4. ExactInv'
    BY <2>2, <2>3, Zenon DEF OwnedInv, ExactInv, Ready
  <2> QED BY <2>1, <2>2, <2>4, OwnersSent, Zenon
<1>2. ~SendComplete(c)
  <2>1. sending[c] \in LargeKeys \cup {NoKey}
    BY Parts, Zenon DEF SharedInv
  <2> QED BY <2>1, Zenon DEF SendComplete, Undisturbed
<1>3. ~SessionClose(c)
  BY Zenon DEF SessionClose, Undisturbed
<1>4. ASSUME SessionOpen(c) PROVE OwnedInv'
  <2>1. UNCHANGED <<lk, outstanding, work, deferred, explicit, shared>> /\ alive' = alive /\ req' = req
    BY <1>4, Zenon DEF SessionOpen, store, works, plugin, rest
  <2> QED BY <2>1, OwnersKept, Zenon
<1>5. \A a : ~InvokeAdoKeylessExhausted(c, a)
  BY SlotLeft, Zenon DEF InvokeAdoKeylessExhausted
<1> QED BY <1>1, <1>2, <1>3, <1>4, <1>5, Zenon DEF Session

\* Callbacks of the plugin.
LEMMA CallbackOwners ==
  ASSUME Undisturbed, IInv, OwnedInv, NEW w \in Works, NEW k \in Keys, Callback(w, k)
  PROVE  OwnedInv'
<1>1. ASSUME \/ EraseKey(w, k) \/ ResizeThrows(w, k)
             \/ \E v \in Values : ResizeValue(w, k, v) \/ AdoWrite(w, k, v)
      PROVE  OwnedInv'
  <2>1. UNCHANGED <<lk, works, plugin, shared>> /\ req' = req /\ alive
    BY <1>1, Zenon DEF EraseKey, ResizeThrows, ResizeValue, AdoWrite, store, client, rest, Running
  <2>2. UNCHANGED <<lk, outstanding, work, deferred, explicit, shared>>
    BY <2>1, Zenon DEF works, plugin
  <2> QED BY <2>1, <2>2, OwnersKept, Zenon
<1> QED BY <1>1, OpenOwners, UnlockOwners, Zenon DEF Callback

\* At the start no lock is taken and nobody waits; every step keeps the invariant.
LEMMA OwnersInvariance ==
  ASSUME Undisturbed
  PROVE  Spec => []OwnedInv
<1>1. Init => OwnedInv
  <2>1. SUFFICES ASSUME Init PROVE OwnedInv
    BY Zenon
  <2>2. outstanding = {} /\ lk = [k \in Keys |-> 0] /\ shared = [k \in Keys |-> 0] /\ req = [c \in Clients |-> "ok"]
    BY <2>1, Zenon DEF Init
  <2>3. \A k \in Keys : Readers(k) = {}
    BY <2>2, Zenon DEF Readers
  <2>4. ExactInv
    BY <2>2, <2>3, FS_EmptySet, SMTT(30) DEF ExactInv, Exact
  <2>5. WaitInv
    BY <2>2 DEF WaitInv
  <2> QED BY <2>2, <2>4, <2>5, Zenon DEF OwnedInv
<1>2. IInv /\ OwnedInv /\ [Next]_vars => OwnedInv'
  <2>1. SUFFICES ASSUME IInv, OwnedInv, [Next]_vars PROVE OwnedInv'
    BY Zenon
  <2>2. CASE Next
    BY <2>1, <2>2, NextSteps, RefusalOwners, InvocationOwners, StoringOwners, ReadingOwners, SessionOwners,
       CallbackOwners, CompletionOwners, ZenonT(60)
  <2>3. CASE UNCHANGED vars
    <3>1. UNCHANGED <<lk, outstanding, work, deferred, explicit, shared>> /\ alive' = alive /\ req' = req
      BY <2>3, Zenon DEF vars, store, works, plugin, client, rest
    <3> QED BY <2>1, <3>1, OwnersKept, Zenon
  <2> QED BY <2>1, <2>2, <2>3, Zenon
<1> QED BY <1>1, <1>2, Invariance, PTL DEF Spec

-----------------------------------------------------------------------------
(* The theorems *)

\* The type invariant, for any number of clients, keys, slots and readers of a lock.
THEOREM AdoTypes == Spec => []TypeOK
<1>1. IInv => TypeOK
  BY Parts, ZenonT(60)
<1> QED BY <1>1, Invariance, PTL

\* Every unlock that the shard has still to make, for a work request, a deferred unlock, a
\* lock of the plugin or a value being sent, finds the lock it releases.
THEOREM AdoLocksBacked == Spec => []LockBacked
<1>1. IInv => LockBacked
  BY Parts, LocksBacked, ZenonT(60)
<1> QED BY <1>1, Invariance, PTL

\* Every completion finds its work request, and a client waits for one answer at a time.
THEOREM AdoOneAnswer == Spec => []OneAnswer
<1>1. IInv => OneAnswer
  BY AnsweredOnce, Zenon
<1> QED BY <1>1, Invariance, PTL

\* While a work request holds a pair, no step of another client or of another work request
\* changes, moves or erases it.
THEOREM AdoTargetStable == Spec => TargetStable
<1>1. IInv /\ IInv' /\ [Next]_vars => [TargetStep]_vars
  BY StepKept, Zenon
<1>2. Spec => [][TargetStep]_vars
  BY <1>1, Invariance, PTL DEF Spec
<1> QED BY <1>2, Zenon DEF TargetStable, TargetStep

\* Without the disturbances above, every write lock belongs to a work request, to a deferred
\* unlock or to the plugin.
THEOREM AdoWriteLocksOwned ==
  ASSUME Undisturbed
  PROVE  Spec => []WriteLocksOwned
<1>1. OwnedInv => WriteLocksOwned
  BY Zenon DEF OwnedInv, ExactInv, Exact, WriteLocksOwned
<1> QED BY <1>1, OwnersInvariance, PTL

\* Without them, a pair has as many read locks as it has work requests that read it.
THEOREM AdoReadLocksOwned ==
  ASSUME Undisturbed
  PROVE  Spec => []ReadLocksOwned
<1>1. IInv /\ OwnedInv => ReadLocksOwned
  <2>1. SUFFICES ASSUME IInv, OwnedInv, alive, NEW k \in Keys, lk[k] > 0
                 PROVE  lk[k] = Cardinality(Readers(k)) + shared[k]
    BY Zenon DEF ReadLocksOwned
  <2>2. lk[k] \in Int /\ Readers(k) \subseteq Works
    BY <2>1, Parts, LockTypes, Zenon
  <2>3. Cardinality(Readers(k)) \in Nat
    BY <2>2, Finite, Zenon
  <2>4. Exact(lk[k], Writers(k), explicit[k], Readers(k)) /\ shared[k] = 0
    BY <2>1, Zenon DEF OwnedInv, ExactInv
  <2> QED BY <2>1, <2>2, <2>3, <2>4, SMTT(30) DEF Exact
<1> QED BY <1>1, Invariance, OwnersInvariance, PTL

\* Without them, a client that waits has a work request whose completion answers it.
THEOREM AdoAnswered ==
  ASSUME Undisturbed
  PROVE  Spec => []Answered
<1>1. OwnedInv => Answered
  BY Zenon DEF OwnedInv, WaitInv, Answered
<1> QED BY <1>1, OwnersInvariance, PTL
=============================================================================
