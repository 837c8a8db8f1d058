------------------------------ MODULE MpmcQueue ------------------------------
(***************************************************************************)
(* common::Mpmc_bounded_lfq, the lock-free queue that carries the messages *)
(* between a shard and its ADO processes.                                  *)
(*                                                                         *)
(* Every atomic access is a step of its own: the load of a cursor, the     *)
(* load of a node's sequence word, the compare-and-swap, the plain access  *)
(* to the data and the store that publishes or recycles the node.  The     *)
(* plain access is ordered by the acquire load and the release store of    *)
(* the same node's sequence word, so interleaving the steps is enough.     *)
(***************************************************************************)
EXTENDS Integers, Sequences

CONSTANTS Size,       \* _size, number of nodes
          Producers, Consumers,
          Data,       \* items a producer may enqueue
          NoData,     \* content of a node or of a variable never written
          MaxSeq      \* bound on the cursors, for model checking only

ASSUME SizeAssumption == Size \in Nat \ {0}
ASSUME ThreadAssumption == Producers \cap Consumers = {}
ASSUME MaxSeqAssumption == MaxSeq \in Nat
ASSUME NoDataAssumption == NoData \notin Data

VARIABLES head_seq,   \* _head_seq
          tail_seq,   \* _tail_seq
          node_data,  \* _buffer[i].data
          node_seq,   \* _buffer[i].seq
          pc,         \* where each thread is
          seq,        \* the thread's local head_seq or tail_seq
          item,       \* the caller's data of a producer, the output of a consumer
          avail       \* history: tickets published when a consumer made its pending call

vars == <<head_seq, tail_seq, node_data, node_seq, pc, seq, item, avail>>

Threads == Producers \cup Consumers
Nodes == 0 .. Size - 1
Idx(t) == t % Size                    \* t & _mask, _size being a power of 2
EnqueueSteps == {"e_load", "e_node", "e_cas", "e_data", "e_publish"}
DequeueSteps == {"d_load", "d_node", "d_cas", "d_data", "d_recycle"}
EmptySteps == {"m_load", "m_node"}

\* The items whose enqueue has published them and that no dequeue has claimed
Published == {t \in tail_seq .. head_seq - 1 : node_seq[Idx(t)] = t + 1}

Goto(t, l) == pc' = [pc EXCEPT ![t] = l]

Init == /\ head_seq = 0
        /\ tail_seq = 0
        /\ node_data = [i \in Nodes |-> NoData]
        /\ node_seq = [i \in Nodes |-> i]
        /\ pc = [t \in Threads |-> "idle"]
        /\ seq = [t \in Threads |-> 0]
        /\ item = [t \in Threads |-> NoData]
        /\ avail = [c \in Consumers |-> {}]

-----------------------------------------------------------------------------
(* bool enqueue(const T &data) *)

EnqueueCall(p, d) == /\ pc[p] = "idle"
                     /\ head_seq < MaxSeq
                     /\ item' = [item EXCEPT ![p] = d]
                     /\ Goto(p, "e_load")
                     /\ UNCHANGED <<head_seq, tail_seq, node_data, node_seq, seq, avail>>

EnqueueLoad(p) == /\ pc[p] = "e_load"
                  /\ seq' = [seq EXCEPT ![p] = head_seq]
                  /\ Goto(p, "e_node")
                  /\ UNCHANGED <<head_seq, tail_seq, node_data, node_seq, item, avail>>

\* dif = 0: try to claim; dif < 0: full, return false; dif > 0: start again
EnqueueNode(p) == /\ pc[p] = "e_node"
                  /\ LET n == node_seq[Idx(seq[p])]
                     IN \/ n = seq[p] /\ Goto(p, "e_cas")
                        \/ n < seq[p] /\ Goto(p, "idle")
                        \/ n > seq[p] /\ Goto(p, "e_load")
                  /\ UNCHANGED <<head_seq, tail_seq, node_data, node_seq, seq, item, avail>>

EnqueueClaim_Unchecked(p) == /\ pc[p] = "e_cas"
                             /\ head_seq' = seq[p] + 1
                             /\ Goto(p, "e_data")
                             /\ UNCHANGED <<tail_seq, node_data, node_seq, seq, item, avail>>

EnqueueClaim(p) == /\ pc[p] = "e_cas"
                   /\ head_seq = seq[p]
                   /\ head_seq' = head_seq + 1
                   /\ Goto(p, "e_data")
                   /\ UNCHANGED <<tail_seq, node_data, node_seq, seq, item, avail>>

\* compare_exchange_weak fails, spuriously or not, and refreshes head_seq
EnqueueClaimFails(p) == /\ pc[p] = "e_cas"
                        /\ seq' = [seq EXCEPT ![p] = head_seq]
                        /\ Goto(p, "e_node")
                        /\ UNCHANGED <<head_seq, tail_seq, node_data, node_seq, item, avail>>

EnqueueData(p) == /\ pc[p] = "e_data"
                  /\ node_data' = [node_data EXCEPT ![Idx(seq[p])] = item[p]]
                  /\ Goto(p, "e_publish")
                  /\ UNCHANGED <<head_seq, tail_seq, node_seq, seq, item, avail>>

EnqueuePublish(p) == /\ pc[p] = "e_publish"
                     /\ node_seq' = [node_seq EXCEPT ![Idx(seq[p])] = seq[p] + 1]
                     /\ Goto(p, "idle")
                     /\ UNCHANGED <<head_seq, tail_seq, node_data, seq, item, avail>>

-----------------------------------------------------------------------------
(* bool dequeue(T &data) *)

DequeueCall(c) == /\ pc[c] = "idle"
                  /\ Goto(c, "d_load")
                  /\ avail' = [avail EXCEPT ![c] = Published]
                  /\ UNCHANGED <<head_seq, tail_seq, node_data, node_seq, seq, item>>

DequeueLoad(c) == /\ pc[c] = "d_load"
                  /\ seq' = [seq EXCEPT ![c] = tail_seq]
                  /\ Goto(c, "d_node")
                  /\ UNCHANGED <<head_seq, tail_seq, node_data, node_seq, item, avail>>

DequeueNode_NoReload(c) == /\ pc[c] = "d_node"
                           /\ LET n == node_seq[Idx(seq[c])]
                              IN \/ n = seq[c] + 1 /\ Goto(c, "d_cas") /\ UNCHANGED avail
                                 \/ n # seq[c] + 1 /\ Goto(c, "idle") /\ avail' = [avail EXCEPT ![c] = {}]
                           /\ UNCHANGED <<head_seq, tail_seq, node_data, node_seq, seq, item>>

\* dif = 0: try to claim; dif < 0: empty, return false; dif > 0: start again
DequeueNode(c) == /\ pc[c] = "d_node"
                  /\ LET n == node_seq[Idx(seq[c])]
                     IN \/ n = seq[c] + 1 /\ Goto(c, "d_cas") /\ UNCHANGED avail
                        \/ n < seq[c] + 1 /\ Goto(c, "idle") /\ avail' = [avail EXCEPT ![c] = {}]
                        \/ n > seq[c] + 1 /\ Goto(c, "d_load") /\ UNCHANGED avail
                  /\ UNCHANGED <<head_seq, tail_seq, node_data, node_seq, seq, item>>

DequeueClaim_EarlyRecycle(c) == /\ pc[c] = "d_cas"
                                /\ tail_seq = seq[c]
                                /\ tail_seq' = tail_seq + 1
                                /\ node_seq' = [node_seq EXCEPT ![Idx(seq[c])] = seq[c] + Size]
                                /\ Goto(c, "d_data")
                                /\ avail' = [avail EXCEPT ![c] = {}]
                                /\ UNCHANGED <<head_seq, node_data, seq, item>>

DequeueClaim(c) == /\ pc[c] = "d_cas"
                   /\ tail_seq = seq[c]
                   /\ tail_seq' = tail_seq + 1
                   /\ Goto(c, "d_data")
                   /\ avail' = [avail EXCEPT ![c] = {}]
                   /\ UNCHANGED <<head_seq, node_data, node_seq, seq, item>>

DequeueClaimFails(c) == /\ pc[c] = "d_cas"
                        /\ seq' = [seq EXCEPT ![c] = tail_seq]
                        /\ Goto(c, "d_node")
                        /\ UNCHANGED <<head_seq, tail_seq, node_data, node_seq, item, avail>>

DequeueData(c) == /\ pc[c] = "d_data"
                  /\ item' = [item EXCEPT ![c] = node_data[Idx(seq[c])]]
                  /\ Goto(c, "d_recycle")
                  /\ UNCHANGED <<head_seq, tail_seq, node_data, node_seq, seq, avail>>

DequeueRecycle_Mask(c) == /\ pc[c] = "d_recycle"
                          /\ node_seq' = [node_seq EXCEPT ![Idx(seq[c])] = seq[c] + Size - 1]
                          /\ Goto(c, "idle")
                          /\ UNCHANGED <<head_seq, tail_seq, node_data, seq, item, avail>>

DequeueRecycle_Sign(c) == /\ pc[c] = "d_recycle"
                          /\ node_seq' = [node_seq EXCEPT ![Idx(seq[c])] = seq[c] - Size]
                          /\ Goto(c, "idle")
                          /\ UNCHANGED <<head_seq, tail_seq, node_data, seq, item, avail>>

DequeueRecycle(c) == /\ pc[c] = "d_recycle"
                     /\ node_seq' = [node_seq EXCEPT ![Idx(seq[c])] = seq[c] + Size]
                     /\ Goto(c, "idle")
                     /\ UNCHANGED <<head_seq, tail_seq, node_data, seq, item, avail>>

-----------------------------------------------------------------------------
(* bool empty() *)

EmptyCall(c) == /\ pc[c] = "idle"
                /\ Goto(c, "m_load")
                /\ avail' = [avail EXCEPT ![c] = Published]
                /\ UNCHANGED <<head_seq, tail_seq, node_data, node_seq, seq, item>>

EmptyLoad(c) == /\ pc[c] = "m_load"
                /\ seq' = [seq EXCEPT ![c] = tail_seq]
                /\ Goto(c, "m_node")
                /\ UNCHANGED <<head_seq, tail_seq, node_data, node_seq, item, avail>>

EmptyNode(c) == /\ pc[c] = "m_node"
                /\ LET n == node_seq[Idx(seq[c])]
                   IN \/ n > seq[c] + 1 /\ Goto(c, "m_load") /\ UNCHANGED avail
                      \/ n <= seq[c] + 1 /\ Goto(c, "idle") /\ avail' = [avail EXCEPT ![c] = {}]
                /\ UNCHANGED <<head_seq, tail_seq, node_data, node_seq, seq, item>>

-----------------------------------------------------------------------------
Enqueue(p) == \/ \E d \in Data : EnqueueCall(p, d)
              \/ EnqueueLoad(p)
              \/ EnqueueNode(p)
              \/ EnqueueClaim(p)
              \/ EnqueueClaimFails(p)
              \/ EnqueueData(p)
              \/ EnqueuePublish(p)

Dequeue(c) == \/ DequeueCall(c)
              \/ DequeueLoad(c)
              \/ DequeueNode(c)
              \/ DequeueClaim(c)
              \/ DequeueClaimFails(c)
              \/ DequeueData(c)
              \/ DequeueRecycle(c)

Empty(c) == EmptyCall(c) \/ EmptyLoad(c) \/ EmptyNode(c)

Next == \/ \E p \in Producers : Enqueue(p)
        \/ \E c \in Consumers : Dequeue(c) \/ Empty(c)

Spec == Init /\ [][Next]_vars

-----------------------------------------------------------------------------
(* Properties *)

ClaimsHead(p) == pc[p] \in {"e_data", "e_publish"}
ClaimsTail(c) == pc[c] \in {"d_data", "d_recycle"}

\* The values the variables of the queue and of its callers take.
TypeOK == /\ head_seq \in Nat /\ tail_seq \in Nat
          /\ node_data \in [Nodes -> Data \cup {NoData}]
          /\ node_seq \in [Nodes -> Nat]
          /\ pc \in [Threads -> {"idle"} \cup EnqueueSteps \cup DequeueSteps \cup EmptySteps]
          /\ \A p \in Producers : pc[p] \in {"idle"} \cup EnqueueSteps
          /\ \A c \in Consumers : pc[c] \in {"idle"} \cup DequeueSteps \cup EmptySteps
          /\ seq \in [Threads -> Nat]
          /\ item \in [Threads -> Data \cup {NoData}]
          /\ \A p \in Producers : pc[p] # "idle" => item[p] \in Data
          /\ avail \in [Consumers -> SUBSET Nat]

\* No node is ever used by two threads at once: two enqueues never write the
\* same node, and an enqueue never writes a node a dequeue still reads
\* (node->data in enqueue and dequeue are plain accesses).
ExclusiveNode ==
  /\ \A p1, p2 \in Producers :
       ClaimsHead(p1) /\ ClaimsHead(p2) /\ p1 # p2 => Idx(seq[p1]) # Idx(seq[p2])
  /\ \A c1, c2 \in Consumers :
       ClaimsTail(c1) /\ ClaimsTail(c2) /\ c1 # c2 => Idx(seq[c1]) # Idx(seq[c2])
  /\ \A p \in Producers, c \in Consumers :
       ClaimsHead(p) /\ ClaimsTail(c) => Idx(seq[p]) # Idx(seq[c])

(* The invariant that makes the queue work.  The Size tickets from _tail_seq
   on name every node once.  A ticket below _head_seq has been claimed by an
   enqueue: its node holds the item, or the claiming thread has yet to fill
   it.  A ticket from _head_seq on is free: its node awaits that very ticket,
   or a dequeue is still reading the item of one turn before. *)
CursorInv == tail_seq <= head_seq /\ head_seq <= tail_seq + Size

ClaimedTicketInv ==
  \A t \in tail_seq .. head_seq - 1 :
    \/ node_seq[Idx(t)] = t + 1
    \/ /\ node_seq[Idx(t)] = t
       /\ \E p \in Producers : ClaimsHead(p) /\ seq[p] = t

FreeTicketInv ==
  \A t \in head_seq .. tail_seq + Size - 1 :
    \/ node_seq[Idx(t)] = t
    \/ /\ node_seq[Idx(t)] + Size = t + 1
       /\ \E c \in Consumers : ClaimsTail(c) /\ seq[c] + Size = t

ProducerInv ==
  \A p \in Producers :
    /\ ClaimsHead(p) => /\ tail_seq <= seq[p] /\ seq[p] < head_seq
                        /\ node_seq[Idx(seq[p])] = seq[p]
                        /\ \A p2 \in Producers : ClaimsHead(p2) /\ seq[p2] = seq[p] => p2 = p
    /\ pc[p] \in {"e_node", "e_cas"} => seq[p] <= head_seq
    /\ pc[p] = "e_cas" /\ seq[p] = head_seq => node_seq[Idx(head_seq)] = head_seq

ConsumerInv ==
  \A c \in Consumers :
    /\ ClaimsTail(c) => /\ seq[c] < tail_seq /\ head_seq <= seq[c] + Size
                        /\ node_seq[Idx(seq[c])] = seq[c] + 1
                        /\ \A c2 \in Consumers : ClaimsTail(c2) /\ seq[c2] = seq[c] => c2 = c
    /\ pc[c] \in {"d_node", "d_cas", "m_node"} => seq[c] <= tail_seq
    /\ pc[c] = "d_cas" /\ seq[c] = tail_seq => node_seq[Idx(tail_seq)] = tail_seq + 1

QueueInv == CursorInv /\ ClaimedTicketInv /\ FreeTicketInv /\ ProducerInv /\ ConsumerInv

\* The value behind ticket t: in the node once published, still with the
\* enqueuing thread before.
Claimant(t) == CHOOSE p \in Producers : ClaimsHead(p) /\ seq[p] = t
ItemOf(t) == IF node_seq[Idx(t)] = t + 1 THEN node_data[Idx(t)] ELSE item[Claimant(t)]

Fifo == INSTANCE BoundedFifo
          WITH q <- [i \in 1 .. head_seq - tail_seq |-> ItemOf(tail_seq + i - 1)],
               got <- [c \in Consumers |-> IF pc[c] = "d_data"
                                           THEN node_data[Idx(seq[c])] ELSE item[c]]

\* enqueue and dequeue behave as operations of a bounded first-in first-out
\* queue that take effect when _head_seq and _tail_seq are advanced: no item
\* is lost, duplicated, reordered or changed.
ImplementsFifo == Fifo!Spec

\* dequeue returns false, and empty true ("False on empty queue"), only when every item
\* published before the call has been claimed by some dequeue, or when the oldest item
\* of the queue is still being written: a slow enqueue hides the finished ones behind it.
ReportsEmpty(c) == /\ pc'[c] = "idle"
                   /\ \/ pc[c] = "d_node"
                      \/ pc[c] = "m_node" /\ node_seq[Idx(seq[c])] # seq[c] + 1
EmptyIsEmpty ==
  [][\A c \in Consumers : ReportsEmpty(c) =>
       \/ \A t \in avail[c] : t < tail_seq
       \/ \E p \in Producers : ClaimsHead(p) /\ seq[p] = tail_seq]_vars
=============================================================================
