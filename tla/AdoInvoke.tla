----------------------------- MODULE AdoInvoke ------------------------------
(***************************************************************************)
(* Work requests between a shard and the ADO process of one pool: what a   *)
(* client request locks, what the ADO process locks through its callbacks, *)
(* and what the shard releases and answers when the work completes.        *)
(*                                                                         *)
(* The shard handles one message at a time.  The ADO process takes work    *)
(* requests in order and waits for the answer to each callback, so that a  *)
(* callback is one action.  Completions and callbacks travel on separate   *)
(* queues: a callback of the next work may overtake a completion.          *)
(***************************************************************************)
EXTENDS Integers, Sequences, FiniteSets

CONSTANTS Clients, Keys, Values, NoKey, NoClient,
          Works,        \* the slots of the Work_request_allocator
          Signals,      \* the sets of ado_signals a shard may be configured with
          LargeKeys,    \* keys whose values are too large to be copied into a response
          Asyncs,       \* do clients invoke synchronously, asynchronously, or both?
          Lifetimes,    \* the lifetimes the plugin asks for when it opens a key
          WorkIds,      \* does it name its work request, or none (0)?
          MemoryFails,  \* may the allocation of detached memory fail?
          CanClose,     \* may clients end their sessions?
          MaxDeferred,  \* MAX_ALLOWED_DEFERRED_LOCKS
          MaxReaders    \* readers a lock admits (EAGAIN beyond)

ASSUME ClientsAssumption == IsFiniteSet(Clients) /\ NoClient \notin Clients
ASSUME KeysAssumption == NoKey \notin Keys /\ LargeKeys \subseteq Keys
ASSUME WorksAssumption == IsFiniteSet(Works)
ASSUME SignalsAssumption == Signals \subseteq SUBSET {"post-put", "post-get", "post-erase"}
ASSUME LifetimesAssumption == Lifetimes \subseteq {"invoke", "life", "manual"}
ASSUME FlagsAssumption == {MemoryFails, CanClose} \subseteq BOOLEAN /\ WorkIds \cup Asyncs \subseteq BOOLEAN
ASSUME BoundsAssumption == MaxDeferred \in Nat /\ MaxReaders \in Nat

VARIABLES
  lk,          \* the lock of each pair: -1 a writer, n > 0 readers
  val,         \* the value of each pair and the place of it
  present,     \* the keys in the map
  outstanding, \* _outstanding_work
  work,        \* the record of each slot: handler, key, lock_type, and who is answered
  queue,       \* work requests sent to the ADO process, the first one running
  done,        \* completions sent back
  status,      \* the status the plugin returned for a work request
  deferred,    \* _deferred_unlocks of the proxy
  life,        \* _life_unlocks of the proxy
  explicit,    \* locks without implicit unlock the plugin has the handle of
  shared,      \* _locked_values_shared: read locks kept for values being sent
  sending,     \* the value on the wire to each client
  req,         \* what each client waits for, or its last answer
  connected,   \* is there a handler for the client?
  alive,       \* the shard's main loop is running
  signals      \* _ado_signal_mask

store == <<lk, val, present>>
works == <<outstanding, work, queue>>
plugin == <<deferred, life, explicit>>
client == <<req, connected>>
rest == <<done, status, shared, sending, alive, signals>>
vars == <<store, works, plugin, client, rest>>

NoWork == [handler |-> NoClient, key |-> NoKey, lock |-> "none", kind |-> "sync"]

Init == /\ lk = [k \in Keys |-> 0]
        /\ val \in [Keys -> Values]
        /\ present = {}
        /\ outstanding = {}
        /\ work = [w \in Works |-> NoWork]
        /\ queue = <<>>
        /\ done = <<>>
        /\ status = [w \in Works |-> "ok"]
        /\ deferred = [w \in Works |-> {}]
        /\ life = {}
        /\ explicit = [k \in Keys |-> "no"]
        /\ shared = [k \in Keys |-> 0]
        /\ sending = [c \in Clients |-> NoKey]
        /\ req = [c \in Clients |-> "ok"]
        /\ connected = [c \in Clients |-> TRUE]
        /\ alive = TRUE
        /\ signals \in Signals

-----------------------------------------------------------------------------
(* The locks of the store, and the answers *)

\* Mutant: an unlock counts down, whoever holds the lock
GiveCountDown(l, K) == [k \in Keys |-> IF k \in K THEN l[k] - 1 ELSE l[k]]

\* RWLock trylock and unlock, on a function of locks
Free(l, k, mode) == IF mode = "read" THEN l[k] \in 0 .. MaxReaders - 1 ELSE l[k] = 0
Take(l, k, mode) == [l EXCEPT ![k] = IF mode = "read" THEN @ + 1 ELSE -1]
Give(l, K) == [k \in Keys |-> IF k \notin K THEN l[k] ELSE IF l[k] > 0 THEN l[k] - 1 ELSE 0]

\* Map_store lock: a missing pair is created on demand, given a length
CanLock(k, mode, create) == (k \in present \/ create) /\ Free(lk, k, mode)

Ready(c) == alive /\ connected[c] /\ req[c] # "waiting"

Answer(c, s) == req' = [req EXCEPT ![c] = s] /\ UNCHANGED connected

Refused(c) == /\ Answer(c, "error")
              /\ UNCHANGED <<store, works, plugin, rest>>

\* A work request is registered and sent
Send(w, c, k, mode, kind) ==
  /\ w \in Works \ outstanding
  /\ outstanding' = outstanding \cup {w}
  /\ work' = [work EXCEPT ![w] = [handler |-> c, key |-> k, lock |-> mode, kind |-> kind]]
  /\ queue' = Append(queue, w)

-----------------------------------------------------------------------------
(* invoke_ado *)

Mode(read_only) == IF read_only THEN "read" ELSE "write"

\* process_ado_request: the target is locked until the work completes
InvokeAdo(c, k, w, read_only, async, create) ==
  /\ Ready(c)
  /\ CanLock(k, Mode(read_only), create)
  /\ lk' = Take(lk, k, Mode(read_only))
  /\ present' = present \cup {k}
  /\ Send(w, c, k, Mode(read_only), IF async THEN "async" ELSE "sync")
  /\ Answer(c, IF async THEN "ok" ELSE "waiting")
  /\ UNCHANGED <<val, plugin, rest>>

InvokeAdoRefused(c, k, read_only, create) ==
  /\ Ready(c)
  /\ ~CanLock(k, Mode(read_only), create)
  /\ Refused(c)

\* No free slot: the exception is logged, after the lock was taken
InvokeAdoExhausted(c, k, read_only, async, create) ==
  /\ Ready(c)
  /\ outstanding = Works
  /\ CanLock(k, Mode(read_only), create)
  /\ lk' = Take(lk, k, Mode(read_only))
  /\ present' = present \cup {k}
  /\ Answer(c, IF async THEN "ok" ELSE "waiting")
  /\ UNCHANGED <<val, works, plugin, rest>>

\* An invocation without a key locks nothing
InvokeAdoKeyless(c, w, async) ==
  /\ Ready(c)
  /\ Send(w, c, NoKey, "none", IF async THEN "async" ELSE "sync")
  /\ Answer(c, IF async THEN "ok" ELSE "waiting")
  /\ UNCHANGED <<store, plugin, rest>>

InvokeAdoKeylessExhausted(c, async) ==
  /\ Ready(c)
  /\ outstanding = Works
  /\ Answer(c, IF async THEN "ok" ELSE "waiting")
  /\ UNCHANGED <<store, works, plugin, rest>>

\* ADO_FLAG_CREATE_ONLY: locked and unlocked at once, no work request
InvokeAdoCreateOnly(c, k) ==
  /\ Ready(c)
  /\ k \notin present
  /\ present' = present \cup {k}
  /\ Answer(c, "ok")
  /\ UNCHANGED <<lk, val, works, plugin, rest>>

InvokeAdoExists(c, k) == Ready(c) /\ k \in present /\ Refused(c)

-----------------------------------------------------------------------------
(* invoke_put_ado *)

\* Map_store put, which replaces a pair only when nobody has it locked
CanPut(k) == k \notin present \/ lk[k] = 0

\* The value is put, unless NO_OVERWRITE finds the key, and the pair is locked
PutAdo(c, k, v, w, keep, async) ==
  LET put == ~(keep /\ k \in present) IN
  /\ Ready(c)
  /\ CanLock(k, "write", put)
  /\ val' = IF put THEN [val EXCEPT ![k] = v] ELSE val
  /\ present' = present \cup {k}
  /\ lk' = Take(lk, k, "write")
  /\ Send(w, c, k, "write", IF async THEN "async" ELSE "sync")
  /\ Answer(c, IF async THEN "ok" ELSE "waiting")
  /\ UNCHANGED <<plugin, rest>>

\* A put that is refused ends the main loop
PutAdoThrows(c, k, keep) ==
  /\ Ready(c)
  /\ ~(keep /\ k \in present)
  /\ ~CanPut(k)
  /\ alive' = FALSE
  /\ Answer(c, "waiting")
  /\ UNCHANGED <<store, works, plugin, done, status, shared, sending, signals>>

\* So does the lack of a slot, after the pair was put and locked
PutAdoExhausted(c, k, v) ==
  /\ Ready(c)
  /\ outstanding = Works
  /\ CanLock(k, "write", TRUE)
  /\ lk' = Take(lk, k, "write")
  /\ present' = present \cup {k}
  /\ val' \in {val, [val EXCEPT ![k] = v]}
  /\ alive' = FALSE
  /\ Answer(c, "waiting")
  /\ UNCHANGED <<works, plugin, done, status, shared, sending, signals>>

PutAdoRefused(c, k) ==
  /\ Ready(c)
  /\ k \in present /\ lk[k] # 0
  /\ Refused(c)

\* ADO_FLAG_DETACHED: a root value is created when the key is missing, given a length
PutAdoDetached(c, k, w, root, async) ==
  /\ Ready(c)
  /\ CanLock(k, "write", root)
  /\ lk' = Take(lk, k, "write")
  /\ present' = present \cup {k}
  /\ Send(w, c, k, "write", IF async THEN "async" ELSE "sync")
  /\ Answer(c, IF async THEN "ok" ELSE "waiting")
  /\ UNCHANGED <<val, plugin, rest>>

\* No memory for the detached value, after the root value was locked
PutAdoOutOfMemory(c, k) ==
  /\ Ready(c)
  /\ MemoryFails
  /\ CanLock(k, "write", TRUE)
  /\ lk' = Take(lk, k, "write")
  /\ present' = present \cup {k}
  /\ Answer(c, "error")
  /\ UNCHANGED <<val, works, plugin, rest>>

-----------------------------------------------------------------------------
(* Signals: operations of clients that are reported to the ADO process *)

\* put, without and with the post-put signal, which takes a read lock.  The client is
\* answered when the signal completes, with the status of the signal.
Put(c, k, v) ==
  /\ Ready(c)
  /\ "post-put" \notin signals
  /\ CanPut(k)
  /\ val' = [val EXCEPT ![k] = v]
  /\ present' = present \cup {k}
  /\ Answer(c, "ok")
  /\ UNCHANGED <<lk, works, plugin, rest>>

PutRefused(c, k) == Ready(c) /\ "post-put" \notin signals /\ ~CanPut(k) /\ Refused(c)

PutSignal(c, k, v, w) ==
  /\ Ready(c)
  /\ "post-put" \in signals
  /\ Free(lk, k, "read")
  /\ val' = IF CanPut(k) THEN [val EXCEPT ![k] = v] ELSE val
  /\ present' = present \cup {k}
  /\ lk' = Take(lk, k, "read")
  /\ Send(w, c, k, "read", "io")
  /\ Answer(c, "waiting")
  /\ UNCHANGED <<plugin, rest>>

\* signal_ado: no lock, no signal, and no answer
PutSignalLost(c, k) ==
  /\ Ready(c)
  /\ "post-put" \in signals
  /\ ~Free(lk, k, "read")
  /\ Answer(c, "waiting")
  /\ UNCHANGED <<store, works, plugin, rest>>

\* add_locked_value_shared: the read lock stays, for a value to be sent from its place
KeepLocked(k) == /\ lk' = Take(lk, k, "read")
                 /\ shared' = [shared EXCEPT ![k] = @ + 1]

\* get with the post-get signal.  A large value stays locked, to be sent from its place.
GetSignal(c, k, w) ==
  LET l == IF k \in LargeKeys THEN Take(lk, k, "read") ELSE lk IN
  /\ Ready(c)
  /\ "post-get" \in signals
  /\ CanLock(k, "read", FALSE)
  /\ Free(l, k, "read")
  /\ lk' = Take(l, k, "read")
  /\ shared' = IF k \in LargeKeys THEN [shared EXCEPT ![k] = @ + 1] ELSE shared
  /\ Send(w, c, k, "read", "value")
  /\ Answer(c, "waiting")
  /\ UNCHANGED <<val, present, plugin, done, status, sending, alive, signals>>

\* signal_ado takes no second lock on a large value: no signal, no answer, and the lock
\* of the value to be sent stays
GetSignalLost(c, k) ==
  /\ Ready(c)
  /\ "post-get" \in signals /\ k \in LargeKeys
  /\ CanLock(k, "read", FALSE)
  /\ ~Free(Take(lk, k, "read"), k, "read")
  /\ KeepLocked(k)
  /\ Answer(c, "waiting")
  /\ UNCHANGED <<val, present, works, plugin, done, status, sending, alive, signals>>

\* E_TOO_LARGE for the response, although the value is locked to be sent; with too little
\* space at the client (E_INSUFFICIENT_SPACE) it is unlocked first
GetTooLarge(c, k) ==
  /\ Ready(c)
  /\ k \in LargeKeys
  /\ CanLock(k, "read", FALSE)
  /\ KeepLocked(k)
  /\ Answer(c, "error")
  /\ UNCHANGED <<val, present, works, plugin, done, status, sending, alive, signals>>

GetRefused(c, k) == Ready(c) /\ (k \in LargeKeys \/ ~CanLock(k, "read", FALSE)) /\ Refused(c)

\* Mutant: the pair is removed although it is locked
EraseUnlocked(c, k) ==
  /\ Ready(c)
  /\ "post-erase" \notin signals
  /\ k \in present
  /\ present' = present \ {k}
  /\ Answer(c, "ok")
  /\ UNCHANGED <<lk, val, works, plugin, rest>>

\* erase, without and with the post-erase signal, for which nobody waits
Erase(c, k) ==
  /\ Ready(c)
  /\ "post-erase" \notin signals
  /\ k \in present
  /\ lk[k] = 0
  /\ present' = present \ {k}
  /\ Answer(c, "ok")
  /\ UNCHANGED <<lk, val, works, plugin, rest>>

EraseSignal(c, k, w) ==
  /\ Ready(c)
  /\ "post-erase" \in signals
  /\ CanLock(k, "read", FALSE)
  /\ Send(w, c, k, "none", "async")
  /\ present' = IF lk[k] = 0 THEN present \ {k} ELSE present
  /\ Answer(c, IF lk[k] = 0 THEN "ok" ELSE "error")
  /\ UNCHANGED <<lk, val, plugin, rest>>

EraseRefused(c, k) == Ready(c) /\ (k \notin present \/ lk[k] # 0) /\ Refused(c)

\* The lack of a slot for a signal ends the main loop
SignalExhausted(c, k) ==
  /\ Ready(c)
  /\ signals # {}
  /\ outstanding = Works
  /\ CanLock(k, "read", FALSE)
  /\ alive' = FALSE
  /\ Answer(c, "waiting")
  /\ UNCHANGED <<store, works, plugin, done, status, shared, sending, signals>>

-----------------------------------------------------------------------------
(* Callbacks of the plugin, while the first work request of the queue runs *)

Running(w) == alive /\ queue # <<>> /\ w = Head(queue)

\* FLAGS_ADO_LIFETIME_UNLOCK = 0x21 and FLAGS_NO_IMPLICIT_UNLOCK = 0x22, as sets of bits
LifetimeUnlock == {32, 1}
NoImplicitUnlock == {32, 2}
FlagsOf(lifetime) == CASE lifetime = "invoke" -> {}
                       [] lifetime = "life" -> LifetimeUnlock
                       [] lifetime = "manual" -> NoImplicitUnlock

\* CREATE and OPEN take a write lock, to be released when the work completes, when the
\* ADO process shuts down, or by the plugin.  Without a work id, and beyond the limit of
\* deferred unlocks, an error is sent and the lock stays, without an owner.
OpenKey(w, k, lifetime, named, create) ==
  LET flags == FlagsOf(lifetime)
      by_plugin == flags \cap NoImplicitUnlock # {}
      by_completion == ~by_plugin /\ flags \cap LifetimeUnlock = {}
      fits == named /\ Cardinality(deferred[w]) <= MaxDeferred
  IN /\ Running(w)
     /\ CanLock(k, "write", create)
     /\ lk' = Take(lk, k, "write")
     /\ present' = present \cup {k}
     /\ deferred' = IF by_completion /\ fits THEN [deferred EXCEPT ![w] = @ \cup {k}] ELSE deferred
     /\ life' = IF by_plugin \/ by_completion THEN life ELSE life \cup {k}
     /\ explicit' = IF by_plugin THEN [explicit EXCEPT ![k] = lifetime] ELSE explicit
     /\ UNCHANGED <<val, works, client, rest>>

\* Mutant: the deferred unlock stays when the plugin unlocks the pair itself
UnlockKeyKeepDeferred(w, k) ==
  /\ Running(w)
  /\ k \in deferred[w] \/ explicit[k] # "no"
  /\ lk' = Give(lk, {k})
  /\ explicit' = [explicit EXCEPT ![k] = "no"]
  /\ UNCHANGED <<deferred, life, val, present, works, client, rest>>

UnlockKey(w, k) ==
  /\ Running(w)
  /\ k \in deferred[w] \/ explicit[k] # "no"
  /\ lk' = Give(lk, {k})
  /\ deferred' = [deferred EXCEPT ![w] = @ \ {k}]
  /\ explicit' = [explicit EXCEPT ![k] = "no"]
  /\ UNCHANGED <<life, val, present, works, client, rest>>

EraseKey(w, k) ==
  /\ Running(w)
  /\ k \in present
  /\ lk[k] = 0
  /\ present' = present \ {k}
  /\ UNCHANGED <<lk, val, works, plugin, client, rest>>

\* VALUE_RESIZE moves a value nobody else has locked.  The target of the work request is
\* unlocked for it, and locked again; a target that is not locked ends the main loop.
ResizeValue(w, k, v) ==
  LET l == IF work[w].key = k THEN Give(lk, {k}) ELSE lk IN
  /\ Running(w)
  /\ ~(work[w].key = k /\ work[w].lock = "none")
  /\ k \in present
  /\ l[k] = 0
  /\ val' = [val EXCEPT ![k] = v]
  /\ UNCHANGED <<lk, present, works, plugin, client, rest>>

ResizeThrows(w, k) ==
  /\ Running(w)
  /\ work[w].key = k /\ work[w].lock = "none"
  /\ alive' = FALSE
  /\ UNCHANGED <<store, works, plugin, client, done, status, shared, sending, signals>>

\* The plugin writes to the memory of a pair it has locked for writing
AdoWrite(w, k, v) ==
  /\ Running(w)
  /\ \/ work[w].key = k /\ work[w].lock = "write"
     \/ k \in deferred[w]
     \/ explicit[k] # "no"
  /\ val' = [val EXCEPT ![k] = v]
  /\ UNCHANGED <<lk, present, works, plugin, client, rest>>

\* do_work returns: success, failure, or the request to erase the target
DoWork(w, s) ==
  /\ Running(w)
  /\ queue' = Tail(queue)
  /\ done' = Append(done, w)
  /\ status' = [status EXCEPT ![w] = s]
  /\ UNCHANGED <<store, outstanding, work, plugin, client, shared, sending, alive, signals>>

-----------------------------------------------------------------------------
(* Work completions *)

Completed(w) == alive /\ done # <<>> /\ w = Head(done)

\* The target and the deferred locks are released, then the target may be erased.  The
\* record of a free slot is not read again, and reset here.
Released(w) == Give(Give(lk, IF work[w].lock # "none" THEN {work[w].key} ELSE {}), deferred[w])
Erases(w) == status[w] = "erase" /\ work[w].key \in present /\ Released(w)[work[w].key] = 0
Outcome(w) == IF status[w] # "erase" THEN status[w] ELSE IF Erases(w) THEN "ok" ELSE "error"
Retire(w) == /\ done' = Tail(done)
             /\ outstanding' = outstanding \ {w}
             /\ deferred' = [deferred EXCEPT ![w] = {}]
             /\ present' = IF Erases(w) THEN present \ {work[w].key} ELSE present
             /\ work' = [work EXCEPT ![w] = NoWork]
             /\ status' = [status EXCEPT ![w] = "ok"]
             /\ UNCHANGED <<val, queue, life, explicit, connected, signals>>

CompleteWith(w, l, answered) ==
  LET r == work[w] IN
  /\ Completed(w)
  /\ r.kind = "async" \/ (r.handler # NoClient /\ r.kind \in {"sync", "io"})
  /\ lk' = l
  /\ Retire(w)
  /\ req' = IF answered THEN [req EXCEPT ![r.handler] = Outcome(w)] ELSE req
  /\ UNCHANGED <<shared, sending, alive>>

\* Mutants: the deferred locks stay; a read lock stays; no answer; no completion without a lock
CompleteTarget(w) ==
  CompleteWith(w, Give(lk, {work[w].key}), work[w].kind # "async")
CompleteWriter(w) ==
  CompleteWith(w, IF work[w].lock = "read" THEN lk ELSE Released(w), work[w].kind # "async")
CompleteSilent(w) == CompleteWith(w, Released(w), FALSE)
CompleteLocked(w) == work[w].lock # "none" /\ CompleteWith(w, Released(w), work[w].kind # "async")

\* No answer for an asynchronous request; otherwise the client is answered
Complete(w) == CompleteWith(w, Released(w), work[w].kind # "async")

\* A get locks its value again: to copy it, or to send it from its place
CompleteValue(w) ==
  LET r == work[w]
      locked == ~Erases(w) /\ r.key \in present /\ Free(Released(w), r.key, "read")
      large == r.key \in LargeKeys
  IN /\ Completed(w)
     /\ r.kind = "value" /\ r.handler # NoClient
     /\ Retire(w)
     /\ lk' = IF locked /\ large THEN Take(Released(w), r.key, "read") ELSE Released(w)
     /\ sending' = IF locked /\ large THEN [sending EXCEPT ![r.handler] = r.key] ELSE sending
     /\ req' = IF locked THEN [req EXCEPT ![r.handler] = "ok"] ELSE req
     /\ alive' = locked
     /\ UNCHANGED <<shared>>

\* The handler of the request was deleted: the code reads it, whatever it finds
CompleteStale(w) ==
  /\ Completed(w)
  /\ work[w].handler = NoClient /\ work[w].kind # "async"
  /\ lk' = Released(w)
  /\ Retire(w)
  /\ alive' \in BOOLEAN
  /\ UNCHANGED <<req, shared, sending>>

\* The value is sent: ACTION_RELEASE_VALUE_LOCK_SHARED, of which the last one unlocks
SendComplete(c) ==
  LET k == sending[c] IN
  /\ alive
  /\ k # NoKey
  /\ lk' = IF shared[k] = 1 THEN Give(lk, {k}) ELSE lk
  /\ shared' = [shared EXCEPT ![k] = @ - 1]
  /\ sending' = [sending EXCEPT ![c] = NoKey]
  /\ UNCHANGED <<val, present, works, plugin, client, done, status, alive, signals>>

-----------------------------------------------------------------------------
(* Sessions *)

\* Mutant: the work requests of the session are forgotten
SessionCloseForget(c) ==
  /\ alive /\ CanClose /\ connected[c]
  /\ connected' = [connected EXCEPT ![c] = FALSE]
  /\ req' = [req EXCEPT ![c] = "ok"]
  /\ sending' = [sending EXCEPT ![c] = NoKey]
  /\ outstanding' = {w \in outstanding : work[w].handler # c}
  /\ UNCHANGED <<store, plugin, done, work, queue, status, shared, alive, signals>>

\* The handler is deleted.  With the last session the ADO process is shut down, and the
\* proxy goes with its deferred unlocks.
SessionClose(c) ==
  LET last == \A d \in Clients \ {c} : ~connected[d] IN
  /\ alive /\ CanClose /\ connected[c]
  /\ connected' = [connected EXCEPT ![c] = FALSE]
  /\ req' = [req EXCEPT ![c] = "ok"]
  /\ sending' = [sending EXCEPT ![c] = NoKey]
  /\ work' = [w \in Works |-> IF work[w].handler = c THEN [work[w] EXCEPT !.handler = NoClient] ELSE work[w]]
  /\ IF last
     THEN /\ lk' = Give(lk, life)
          /\ queue' = <<>> /\ done' = <<>>
          /\ deferred' = [w \in Works |-> {}]
          /\ life' = {}
          /\ explicit' = [k \in Keys |-> "no"]
     ELSE UNCHANGED <<lk, queue, done, deferred, life, explicit>>
  /\ UNCHANGED <<val, present, outstanding, status, shared, alive, signals>>

SessionOpen(c) ==
  /\ alive
  /\ ~connected[c]
  /\ connected' = [connected EXCEPT ![c] = TRUE]
  /\ UNCHANGED <<store, works, plugin, req, rest>>

-----------------------------------------------------------------------------
Next ==
  \/ \E c \in Clients, k \in Keys :
       \/ \E read_only, create \in BOOLEAN :
            \/ \E w \in Works, async \in Asyncs : InvokeAdo(c, k, w, read_only, async, create)
            \/ InvokeAdoRefused(c, k, read_only, create)
            \/ \E async \in Asyncs : InvokeAdoExhausted(c, k, read_only, async, create)
       \/ InvokeAdoCreateOnly(c, k)
       \/ InvokeAdoExists(c, k)
       \/ \E v \in Values, keep \in BOOLEAN :
            \/ \E w \in Works, async \in Asyncs : PutAdo(c, k, v, w, keep, async)
            \/ PutAdoThrows(c, k, keep)
            \/ PutAdoExhausted(c, k, v)
       \/ PutAdoRefused(c, k)
       \/ \E w \in Works, root \in BOOLEAN, async \in Asyncs : PutAdoDetached(c, k, w, root, async)
       \/ PutAdoOutOfMemory(c, k)
       \/ \E v \in Values : Put(c, k, v) \/ \E w \in Works : PutSignal(c, k, v, w)
       \/ PutRefused(c, k)
       \/ PutSignalLost(c, k)
       \/ \E w \in Works : GetSignal(c, k, w) \/ EraseSignal(c, k, w)
       \/ GetSignalLost(c, k)
       \/ GetTooLarge(c, k)
       \/ GetRefused(c, k)
       \/ Erase(c, k)
       \/ EraseRefused(c, k)
       \/ SignalExhausted(c, k)
  \/ \E c \in Clients : \/ \E w \in Works, async \in Asyncs : InvokeAdoKeyless(c, w, async)
                        \/ \E async \in Asyncs : InvokeAdoKeylessExhausted(c, async)
                        \/ SendComplete(c)
                        \/ SessionClose(c)
                        \/ SessionOpen(c)
  \/ \E w \in Works, k \in Keys :
       \/ \E lifetime \in Lifetimes, named \in WorkIds, create \in BOOLEAN :
            OpenKey(w, k, lifetime, named, create)
       \/ UnlockKey(w, k)
       \/ EraseKey(w, k)
       \/ \E v \in Values : ResizeValue(w, k, v) \/ AdoWrite(w, k, v)
       \/ ResizeThrows(w, k)
  \/ \E w \in Works : \/ \E s \in {"ok", "error", "erase"} : DoWork(w, s)
                      \/ Complete(w)
                      \/ CompleteValue(w)
                      \/ CompleteStale(w)

Spec == Init /\ [][Next]_vars

\* The plugin returns from do_work, and the main loop polls the ADO proxies
FairSpec == /\ Spec
            /\ \A w \in Works : /\ WF_vars(\E s \in {"ok", "error"} : DoWork(w, s))
                                /\ WF_vars(Complete(w))
                                /\ WF_vars(CompleteValue(w))

-----------------------------------------------------------------------------
(* Properties *)

\* Type invariant of the shard's, the proxy's and the clients' state.
TypeOK == /\ lk \in [Keys -> -1 .. MaxReaders]
          /\ val \in [Keys -> Values]
          /\ present \in SUBSET Keys
          /\ outstanding \in SUBSET Works
          /\ work \in [Works -> [handler : Clients \cup {NoClient}, key : Keys \cup {NoKey},
                                 lock : {"none", "read", "write"},
                                 kind : {"sync", "async", "io", "value"}]]
          /\ queue \in Seq(Works) /\ done \in Seq(Works)
          /\ status \in [Works -> {"ok", "error", "erase"}]
          /\ deferred \in [Works -> SUBSET Keys]
          /\ life \in SUBSET Keys
          /\ explicit \in [Keys -> {"no", "life", "manual"}]
          /\ shared \in [Keys -> 0 .. MaxReaders]
          /\ sending \in [Clients -> Keys \cup {NoKey}]
          /\ req \in [Clients -> {"ok", "error", "waiting"}]
          /\ connected \in [Clients -> BOOLEAN]
          /\ alive \in BOOLEAN
          /\ signals \in Signals

Readers(k) == {w \in outstanding : work[w].key = k /\ work[w].lock = "read"}
Writers(k) == {w \in outstanding : (work[w].key = k /\ work[w].lock = "write") \/ k \in deferred[w]}

\* Every unlock the shard has still to make finds its lock: each outstanding work
\* request, each deferred unlock, each lock of the plugin and each value being sent holds
\* the lock it will release, and no two of them the same write lock.  The exceptions
\* "unlock for KV after ADO work completion failed" and "deferred unlock failed" are not
\* thrown, and no completion releases the lock of another request.
LockBacked == \A k \in Keys :
  LET owners == Cardinality(Writers(k)) + (IF explicit[k] # "no" THEN 1 ELSE 0)
      readers == Cardinality(Readers(k)) + shared[k]
  IN /\ owners <= 1
     /\ owners = 1 => lk[k] = -1
     /\ readers > 0 => lk[k] >= readers

\* While a work request holds its target, or a key it opened, no step of another client
\* or of another work request changes, moves or erases the pair.
TargetStable == [][\A w \in outstanding \cap outstanding', k \in Keys :
  /\ (work[w].key = k /\ work[w].lock # "none") \/ k \in deferred[w]
  /\ val'[k] # val[k] \/ (k \in present' /\ k \notin present) \/ (k \in present /\ k \notin present')
  => queue # <<>> /\ w = Head(queue) /\ k \in present']_vars

\* Requests in the ADO process or on their way back are known to the shard, once each
\* ("bad work request key from ADO" is not thrown), and a client that will be answered
\* is waiting for that answer only.
OneAnswer ==
  LET sent == queue \o done IN
  /\ \A i \in DOMAIN sent : sent[i] \in outstanding
  /\ \A i, j \in DOMAIN sent : sent[i] = sent[j] => i = j
  /\ \A w \in outstanding : work[w].handler # NoClient /\ work[w].kind # "async" =>
       /\ req[work[w].handler] = "waiting"
       /\ \A u \in outstanding \ {w} : work[u].handler = work[w].handler => work[u].kind = "async"

\* locking.md: "invoke-put-ado | wr-lock | ... | wr-unlock".  Every write lock belongs to
\* a work request, to a deferred unlock or to the plugin.
WriteLocksOwned == alive => \A k \in Keys : lk[k] = -1 => Writers(k) # {} \/ explicit[k] # "no"

\* locking.md: "get | rd-lock | n/a | rd-unlock".  The read locks of a pair are those of
\* the work requests on it and of its values being sent.
ReadLocksOwned == alive => \A k \in Keys : lk[k] > 0 => lk[k] = Cardinality(Readers(k)) + shared[k]

\* shard_ado.cpp: "for synchronous call we don't send a response to the client until the
\* work completion has been picked up".  A waiting client waits for a work completion.
Answered == alive => \A c \in Clients : req[c] = "waiting" =>
              \E w \in outstanding : work[w].handler = c /\ work[w].kind # "async"

\* ado_itf.h: "Add a key-value pair for unlock after the life of the ADO".  When the ADO
\* process has ended, the locks it took for its lifetime are free.
LifeLocksReleased == [][(\E c \in Clients : connected[c]) /\ (\A c \in Clients : ~connected'[c]) =>
                        \A k \in Keys : explicit[k] = "life" => lk'[k] = 0]_vars

\* Every work request is completed, as long as the shard runs.
Completes == \A w \in Works : w \in outstanding ~> (w \notin outstanding \/ ~alive)
=============================================================================
