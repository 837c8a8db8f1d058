--------------------------- MODULE MpmcQueueProofs ---------------------------
(***************************************************************************)
(* Theorems about MpmcQueue for every queue size above one: tickets and    *)
(* the nodes they use, the steps of enqueue and of dequeue, that the       *)
(* invariant is inductive, what a call that finds the queue empty has      *)
(* seen, and that the queue implements BoundedFifo.                        *)
(***************************************************************************)
EXTENDS MpmcQueue, TLAPS

USE SMTT(60)

\* t & _mask is an index of _buffer.
LEMMA IdxType == \A t \in Nat : Idx(t) \in Nodes
  BY SizeAssumption DEF Idx, Nodes

\* The quotient and the remainder of a ticket.
LEMMA IdxDivision ==
  ASSUME NEW t \in Nat
  PROVE  \E k \in Int : t = (Size * k) + Idx(t)
<1>1. t = (Size * (t \div Size)) + (t % Size)
  BY SizeAssumption
<1>2. t \div Size \in Int
  BY SizeAssumption
<1>3. QED
  BY <1>1, <1>2, Zenon DEF Idx

\* A multiple of the size that is strictly between -_size and _size is zero.
LEMMA SmallMultiple ==
  ASSUME NEW k \in Int, Size * k < Size, -Size < Size * k
  PROVE  k = 0
<1>1. ASSUME k >= 1 PROVE FALSE
  BY <1>1, SizeAssumption
<1>2. ASSUME k =< -1 PROVE FALSE
  BY <1>2, SizeAssumption
<1>3. QED
  BY <1>1, <1>2

\* Two tickets of the same node are at least _size apart.
LEMMA IdxDistinct ==
  ASSUME NEW s \in Nat, NEW t \in Nat, s < t, t < s + Size
  PROVE  Idx(s) # Idx(t)
<1> SUFFICES ASSUME Idx(s) = Idx(t) PROVE FALSE
  BY Zenon
<1>1. PICK j \in Int : s = (Size * j) + Idx(s)
  BY IdxDivision, Zenon
<1>2. PICK k \in Int : t = (Size * k) + Idx(t)
  BY IdxDivision, Zenon
<1>3. Idx(s) \in Int /\ Idx(t) \in Int
  BY IdxType, SizeAssumption DEF Nodes
<1>4. t - s = Size * (k - j)
  BY <1>1, <1>2, <1>3, SizeAssumption
<1>5. k - j = 0
  BY <1>4, SmallMultiple, SizeAssumption
<1>6. QED
  BY <1>4, <1>5, SizeAssumption

\* The ticket one turn later uses the same node.
LEMMA IdxPeriod ==
  ASSUME NEW t \in Nat
  PROVE  Idx(t + Size) = Idx(t)
<1>1. PICK j \in Int : t = (Size * j) + Idx(t)
  BY IdxDivision, Zenon
<1>a. t + Size \in Nat
  BY SizeAssumption
<1>2. PICK k \in Int : t + Size = (Size * k) + Idx(t + Size)
  BY <1>a, IdxDivision, Zenon
<1>3. Idx(t) \in 0 .. Size - 1 /\ Idx(t + Size) \in 0 .. Size - 1
  BY IdxType, SizeAssumption DEF Nodes
<1>4. Size * (k - j - 1) = Idx(t) - Idx(t + Size)
  BY <1>1, <1>2, <1>3, SizeAssumption
<1>5. k - j - 1 = 0
  BY <1>3, <1>4, SmallMultiple, SizeAssumption
<1>6. QED
  BY <1>3, <1>4, <1>5, SizeAssumption

-----------------------------------------------------------------------------
\* A node that awaits the ticket _head_seq is neither full nor being read.
LEMMA HeadFree ==
  ASSUME Size > 1, TypeOK, QueueInv, node_seq[Idx(head_seq)] = head_seq
  PROVE  /\ head_seq < tail_seq + Size
         /\ \A c \in Consumers : ClaimsTail(c) => head_seq < seq[c] + Size
<1> USE SizeAssumption DEF TypeOK, Threads
<1>1. ASSUME head_seq = tail_seq + Size PROVE FALSE
  <2>1. Idx(head_seq) = Idx(tail_seq)
    BY <1>1, IdxPeriod, Zenon
  <2>2. node_seq[Idx(tail_seq)] \in {tail_seq, tail_seq + 1}
    BY <1>1 DEF QueueInv, CursorInv, ClaimedTicketInv
  <2>3. QED
    BY <1>1, <2>1, <2>2
<1>2. ASSUME NEW c \in Consumers, ClaimsTail(c), head_seq = seq[c] + Size PROVE FALSE
  <2>1. Idx(head_seq) = Idx(seq[c])
    BY <1>2, IdxPeriod, Zenon
  <2>2. QED
    BY <1>2, <2>1 DEF QueueInv, ConsumerInv
<1>3. QED
  BY <1>1, <1>2 DEF QueueInv, CursorInv, ConsumerInv

\* The exchange of _head_seq claims a node that is free for that ticket.
LEMMA EnqueueClaimStep ==
  ASSUME Size > 1, TypeOK, QueueInv, NEW p \in Producers, EnqueueClaim(p)
  PROVE  QueueInv'
<1> USE DEF TypeOK, Threads, Goto, EnqueueSteps, DequeueSteps, EmptySteps,
            ClaimsHead, ClaimsTail
<1> USE DEF QueueInv, CursorInv, ClaimedTicketInv, FreeTicketInv, ProducerInv, ConsumerInv
<1>1. node_seq[Idx(head_seq)] = head_seq /\ seq[p] = head_seq
  BY Zenon DEF EnqueueClaim
<1>2. head_seq < tail_seq + Size
  BY <1>1, HeadFree, Zenon
<1>3. \A c \in Consumers : ClaimsTail(c) => head_seq < seq[c] + Size
  BY <1>1, HeadFree, Zenon
<1> USE ThreadAssumption DEF EnqueueClaim
<1>4. CursorInv'
  BY <1>2, SizeAssumption
<1>5. ClaimedTicketInv'
  <2> SUFFICES ASSUME NEW t \in tail_seq .. head_seq
               PROVE  \/ node_seq[Idx(t)] = t + 1
                      \/ /\ node_seq[Idx(t)] = t
                         /\ \E r \in Producers : ClaimsHead(r)' /\ seq[r] = t
    OBVIOUS
  <2>1. CASE t = head_seq
    BY <1>1, <2>1, Zenon
  <2>2. CASE t \in tail_seq .. head_seq - 1
    <3> ClaimsHead(p)' /\ ~ClaimsHead(p)
      BY Zenon
    <3> \A r \in Producers : ClaimsHead(r) => ClaimsHead(r)'
      BY Zenon
    <3> QED
      BY <2>2
  <2>3. QED
    BY <2>1, <2>2
<1>6. FreeTicketInv'
  BY SizeAssumption
<1>7. ProducerInv'
  BY <1>1
<1>8. ConsumerInv'
  BY <1>3, SizeAssumption
<1>9. QED
  BY <1>4, <1>5, <1>6, <1>7, <1>8, Zenon

\* The store to node->seq publishes the item of a claimed ticket and no other.
LEMMA EnqueuePublishStep ==
  ASSUME Size > 1, TypeOK, QueueInv, NEW p \in Producers, EnqueuePublish(p)
  PROVE  QueueInv'
<1> USE DEF TypeOK, Threads, Goto, EnqueueSteps, DequeueSteps, EmptySteps,
            ClaimsHead, ClaimsTail
<1> USE DEF QueueInv, CursorInv, ClaimedTicketInv, FreeTicketInv, ProducerInv, ConsumerInv
<1> DEFINE t == seq[p]
<1>1. t \in Nat /\ tail_seq <= t /\ t < head_seq /\ head_seq <= tail_seq + Size /\ node_seq[Idx(t)] = t
  BY Zenon DEF EnqueuePublish
<1>2. ASSUME NEW u \in tail_seq .. tail_seq + Size - 1, u # t PROVE Idx(u) # Idx(t)
  BY <1>1, <1>2, IdxDistinct, SizeAssumption
<1>3. /\ node_seq' = [node_seq EXCEPT ![Idx(t)] = t + 1]
      /\ pc' = [pc EXCEPT ![p] = "idle"]
      /\ Idx(t) \in Nodes
      /\ UNCHANGED <<head_seq, tail_seq, seq>>
  BY <1>1, IdxType, Zenon DEF EnqueuePublish
<1>4. ASSUME NEW u \in tail_seq .. tail_seq + Size - 1, u # t PROVE node_seq'[Idx(u)] = node_seq[Idx(u)]
  BY <1>2, <1>3, <1>4, IdxType, SizeAssumption
<1>5. node_seq'[Idx(t)] = t + 1
  BY <1>3
<1> HIDE DEF t
<1>6. CursorInv'
  BY <1>3, Zenon
<1>7. ClaimedTicketInv'
  <2> SUFFICES ASSUME NEW u \in tail_seq .. head_seq - 1
               PROVE  \/ node_seq'[Idx(u)] = u + 1
                      \/ /\ node_seq'[Idx(u)] = u
                         /\ \E r \in Producers : ClaimsHead(r)' /\ seq[r] = u
    BY <1>3
  <2>1. CASE u = t
    BY <1>5, <2>1, Zenon
  <2>2. CASE u # t
    <3>1. node_seq'[Idx(u)] = node_seq[Idx(u)]
      BY <1>1, <1>4, <2>2, SizeAssumption
    <3>2. \A r \in Producers : ClaimsHead(r) /\ seq[r] = u => ClaimsHead(r)'
      BY <1>3, <2>2, Zenon DEF t
    <3>3. QED
      BY <3>1, <3>2
  <2>3. QED
    BY <2>1, <2>2, Zenon
<1>8. FreeTicketInv'
  BY <1>1, <1>3, <1>4, <1>5, SizeAssumption, ThreadAssumption
<1>9. ProducerInv'
  <2> SUFFICES ASSUME NEW r \in Producers, r # p
               PROVE  /\ ClaimsHead(r) => node_seq'[Idx(seq[r])] = seq[r]
                      /\ pc[r] = "e_cas" /\ seq[r] = head_seq => node_seq'[Idx(head_seq)] = head_seq
    BY <1>3
  <2>1. ASSUME ClaimsHead(r) PROVE node_seq'[Idx(seq[r])] = seq[r]
    <3>1. seq[r] # t /\ seq[r] \in tail_seq .. tail_seq + Size - 1 /\ node_seq[Idx(seq[r])] = seq[r]
      BY <2>1, SizeAssumption DEF EnqueuePublish, t
    <3>2. QED
      BY <3>1, <1>4
  <2>2. ASSUME pc[r] = "e_cas", seq[r] = head_seq PROVE node_seq'[Idx(head_seq)] = head_seq
    <3>1. node_seq[Idx(head_seq)] = head_seq
      BY <2>2, Zenon
    <3>2. head_seq \in tail_seq .. tail_seq + Size - 1 /\ head_seq # t
      BY <3>1, <1>1, HeadFree, SizeAssumption
    <3>3. QED
      BY <3>1, <3>2, <1>4, Zenon
  <2>3. QED
    BY <2>1, <2>2, Zenon
<1>10. ConsumerInv'
  <2> SUFFICES ASSUME NEW r \in Consumers
               PROVE  /\ ClaimsTail(r) => node_seq'[Idx(seq[r])] = seq[r] + 1
                      /\ pc[r] = "d_cas" /\ seq[r] = tail_seq => node_seq'[Idx(tail_seq)] = tail_seq + 1
    BY <1>3, ThreadAssumption
  <2>1. ASSUME ClaimsTail(r) PROVE node_seq'[Idx(seq[r])] = seq[r] + 1
    <3>1. seq[r] \in Nat /\ seq[r] < t /\ t < seq[r] + Size
      BY <1>1, <2>1, SizeAssumption
    <3>2. Idx(seq[r]) # Idx(t) /\ Idx(seq[r]) \in Nodes
      BY <3>1, <1>1, IdxDistinct, IdxType
    <3>3. QED
      BY <2>1, <3>2, <1>3
  <2>2. ASSUME pc[r] = "d_cas", seq[r] = tail_seq PROVE node_seq'[Idx(tail_seq)] = tail_seq + 1
    <3>1. node_seq[Idx(tail_seq)] = tail_seq + 1
      BY <2>2, Zenon
    <3>2. tail_seq # t /\ tail_seq \in tail_seq .. tail_seq + Size - 1
      BY <3>1, <1>1, SizeAssumption
    <3>3. QED
      BY <3>1, <3>2, <1>4, Zenon
  <2>3. QED
    BY <2>1, <2>2, Zenon
<1>11. QED
  BY <1>6, <1>7, <1>8, <1>9, <1>10, Zenon

\* A step of an enqueue call preserves the invariant.
LEMMA EnqueueStep ==
  ASSUME Size > 1, TypeOK, QueueInv, NEW p \in Producers, Enqueue(p)
  PROVE  QueueInv'
<1>1. ASSUME NEW d \in Data, EnqueueCall(p, d) PROVE QueueInv'
  BY <1>1, ThreadAssumption DEF EnqueueCall, TypeOK, Threads, Goto,
      ClaimsHead, ClaimsTail, QueueInv, CursorInv, ClaimedTicketInv, FreeTicketInv, ProducerInv, ConsumerInv
<1>2. CASE EnqueueLoad(p)
  BY <1>2, ThreadAssumption DEF EnqueueLoad, TypeOK, Threads, Goto,
      ClaimsHead, ClaimsTail, QueueInv, CursorInv, ClaimedTicketInv, FreeTicketInv, ProducerInv, ConsumerInv
<1>3. CASE EnqueueNode(p)
  BY <1>3, ThreadAssumption DEF EnqueueNode, TypeOK, Threads, Goto,
      ClaimsHead, ClaimsTail, QueueInv, CursorInv, ClaimedTicketInv, FreeTicketInv, ProducerInv, ConsumerInv
<1>4. CASE EnqueueClaimFails(p)
  BY <1>4, ThreadAssumption DEF EnqueueClaimFails, TypeOK, Threads, Goto,
      ClaimsHead, ClaimsTail, QueueInv, CursorInv, ClaimedTicketInv, FreeTicketInv, ProducerInv, ConsumerInv
<1>5. CASE EnqueueData(p)
  BY <1>5, ThreadAssumption DEF EnqueueData, TypeOK, Threads, Goto,
      ClaimsHead, ClaimsTail, QueueInv, CursorInv, ClaimedTicketInv, FreeTicketInv, ProducerInv, ConsumerInv
<1> QED
  BY <1>1, <1>2, <1>3, <1>4, <1>5, EnqueueClaimStep, EnqueuePublishStep, Zenon DEF Enqueue

\* The exchange of _tail_seq claims a published item.
LEMMA DequeueClaimStep ==
  ASSUME Size > 1, TypeOK, QueueInv, NEW c \in Consumers, DequeueClaim(c)
  PROVE  QueueInv'
<1> USE DEF TypeOK, Threads, Goto, EnqueueSteps, DequeueSteps, EmptySteps,
            ClaimsHead, ClaimsTail
<1> USE DEF QueueInv, CursorInv, ClaimedTicketInv, FreeTicketInv, ProducerInv, ConsumerInv
<1>1. node_seq[Idx(tail_seq)] = tail_seq + 1 /\ seq[c] = tail_seq
  BY Zenon DEF DequeueClaim
<1>2. tail_seq < head_seq
  <2> SUFFICES ASSUME tail_seq = head_seq PROVE FALSE
    BY SizeAssumption
  <2>1. node_seq[Idx(tail_seq)] = tail_seq \/ node_seq[Idx(tail_seq)] + Size = tail_seq + 1
    BY SizeAssumption
  <2>2. QED
    BY <1>1, <2>1, SizeAssumption
<1>3. /\ tail_seq' = tail_seq + 1
      /\ pc' = [pc EXCEPT ![c] = "d_data"]
      /\ UNCHANGED <<head_seq, node_seq, seq>>
  BY Zenon DEF DequeueClaim
<1>4. \A r \in Consumers : ClaimsTail(r) => ClaimsTail(r)'
  BY Zenon DEF DequeueClaim
<1>5. CursorInv'
  BY <1>2, <1>3, SizeAssumption
<1>6. ClaimedTicketInv'
  BY <1>3, ThreadAssumption
<1>7. FreeTicketInv'
  <2> SUFFICES ASSUME NEW t \in head_seq .. tail_seq + Size
               PROVE  \/ node_seq[Idx(t)] = t
                      \/ /\ node_seq[Idx(t)] + Size = t + 1
                         /\ \E r \in Consumers : ClaimsTail(r)' /\ seq[r] + Size = t
    BY <1>3, SizeAssumption
  <2>1. CASE t = tail_seq + Size
    <3>1. Idx(t) = Idx(tail_seq)
      BY <2>1, IdxPeriod, Zenon
    <3>2. ClaimsTail(c)'
      BY <1>3, Zenon
    <3>3. QED
      BY <1>1, <2>1, <3>1, <3>2, SizeAssumption
  <2>2. CASE t \in head_seq .. tail_seq + Size - 1
    BY <1>4, <2>2
  <2>3. QED
    BY <2>1, <2>2, SizeAssumption
<1>8. ProducerInv'
  BY <1>1, <1>3, ThreadAssumption
<1>9. ConsumerInv'
  BY <1>1, <1>3, SizeAssumption
<1>10. QED
  BY <1>5, <1>6, <1>7, <1>8, <1>9, Zenon

\* The store to node->seq frees the node for the ticket one turn later.
LEMMA DequeueRecycleStep ==
  ASSUME Size > 1, TypeOK, QueueInv, NEW c \in Consumers, DequeueRecycle(c)
  PROVE  QueueInv'
<1> USE DEF TypeOK, Threads, Goto, EnqueueSteps, DequeueSteps, EmptySteps,
            ClaimsHead, ClaimsTail
<1> USE DEF QueueInv, CursorInv, ClaimedTicketInv, FreeTicketInv, ProducerInv, ConsumerInv
<1> DEFINE t == seq[c]
<1>1. t \in Nat /\ t < tail_seq /\ head_seq <= t + Size /\ node_seq[Idx(t)] = t + 1
  BY Zenon DEF DequeueRecycle
<1>2. Idx(t + Size) = Idx(t)
  BY <1>1, IdxPeriod, Zenon
<1>3. ASSUME NEW u \in tail_seq .. tail_seq + Size - 1, u # t + Size PROVE Idx(u) # Idx(t)
  <2>1. u \in Nat /\ t + Size \in Nat /\ (u < t + Size \/ t + Size < u)
    BY <1>1, <1>3, SizeAssumption
  <2>2. Idx(u) # Idx(t + Size)
    BY <2>1, <1>1, IdxDistinct, SizeAssumption
  <2>3. QED
    BY <2>2, <1>2, Zenon
<1>4. /\ node_seq' = [node_seq EXCEPT ![Idx(t)] = t + Size]
      /\ pc' = [pc EXCEPT ![c] = "idle"]
      /\ Idx(t) \in Nodes
      /\ UNCHANGED <<head_seq, tail_seq, seq>>
  BY <1>1, IdxType, Zenon DEF DequeueRecycle
<1>5. ASSUME NEW u \in tail_seq .. tail_seq + Size - 1, u # t + Size
      PROVE  node_seq'[Idx(u)] = node_seq[Idx(u)]
  BY <1>3, <1>4, <1>5, IdxType, SizeAssumption
<1>6. node_seq'[Idx(t)] = t + Size
  BY <1>4
<1> HIDE DEF t
<1>7. CursorInv'
  BY <1>4, Zenon
<1>8. ClaimedTicketInv'
  BY <1>1, <1>4, <1>5, SizeAssumption, ThreadAssumption
<1>9. FreeTicketInv'
  <2> SUFFICES ASSUME NEW u \in head_seq .. tail_seq + Size - 1
               PROVE  \/ node_seq'[Idx(u)] = u
                      \/ /\ node_seq'[Idx(u)] + Size = u + 1
                         /\ \E r \in Consumers : ClaimsTail(r)' /\ seq[r] + Size = u
    BY <1>4
  <2>1. CASE u = t + Size
    BY <1>2, <1>6, <2>1, Zenon
  <2>2. CASE u # t + Size
    <3>1. node_seq'[Idx(u)] = node_seq[Idx(u)]
      BY <1>1, <1>5, <2>2, SizeAssumption
    <3>2. \A r \in Consumers : ClaimsTail(r) /\ seq[r] + Size = u => ClaimsTail(r)'
      BY <1>4, <2>2, Zenon DEF t
    <3>3. QED
      BY <3>1, <3>2
  <2>3. QED
    BY <2>1, <2>2, Zenon
<1>10. ProducerInv'
  <2> SUFFICES ASSUME NEW r \in Producers
               PROVE  /\ ClaimsHead(r) => node_seq'[Idx(seq[r])] = seq[r]
                      /\ pc[r] = "e_cas" /\ seq[r] = head_seq => node_seq'[Idx(head_seq)] = head_seq
    BY <1>4, ThreadAssumption
  <2>1. ASSUME ClaimsHead(r) PROVE node_seq'[Idx(seq[r])] = seq[r]
    BY <2>1, <1>1, <1>5, SizeAssumption
  <2>2. ASSUME pc[r] = "e_cas", seq[r] = head_seq PROVE node_seq'[Idx(head_seq)] = head_seq
    <3>1. node_seq[Idx(head_seq)] = head_seq
      BY <2>2, Zenon
    <3>2. CASE head_seq = t + Size
      BY <3>2, <1>2, <1>6, Zenon
    <3>3. CASE head_seq # t + Size
      BY <3>1, <3>3, <1>5, HeadFree, SizeAssumption
    <3>4. QED
      BY <3>2, <3>3, Zenon
  <2>3. QED
    BY <2>1, <2>2, Zenon
<1>11. ConsumerInv'
  <2> SUFFICES ASSUME NEW r \in Consumers, r # c
               PROVE  /\ ClaimsTail(r) => node_seq'[Idx(seq[r])] = seq[r] + 1
                      /\ pc[r] = "d_cas" /\ seq[r] = tail_seq => node_seq'[Idx(tail_seq)] = tail_seq + 1
    BY <1>4
  <2>1. ASSUME ClaimsTail(r) PROVE node_seq'[Idx(seq[r])] = seq[r] + 1
    <3>1. seq[r] \in Nat /\ seq[r] # t /\ seq[r] < tail_seq /\ head_seq <= seq[r] + Size
      BY <2>1 DEF DequeueRecycle, t
    <3>2. Idx(seq[r] + Size) = Idx(seq[r])
      BY <3>1, IdxPeriod, Zenon
    <3>3. seq[r] + Size \in tail_seq .. tail_seq + Size - 1 /\ seq[r] + Size # t + Size
      BY <3>1, <1>1, SizeAssumption
    <3>4. QED
      BY <2>1, <3>2, <3>3, <1>5
  <2>2. ASSUME pc[r] = "d_cas", seq[r] = tail_seq PROVE node_seq'[Idx(tail_seq)] = tail_seq + 1
    <3>1. node_seq[Idx(tail_seq)] = tail_seq + 1
      BY <2>2, Zenon
    <3>2. tail_seq # t + Size
      BY <3>1, <1>1, <1>2, SizeAssumption
    <3>3. QED
      BY <3>1, <3>2, <1>5, SizeAssumption
  <2>3. QED
    BY <2>1, <2>2, Zenon
<1>12. QED
  BY <1>7, <1>8, <1>9, <1>10, <1>11, Zenon

\* A step of a dequeue call preserves the invariant.
LEMMA DequeueStep ==
  ASSUME Size > 1, TypeOK, QueueInv, NEW c \in Consumers, Dequeue(c)
  PROVE  QueueInv'
<1>1. CASE DequeueCall(c)
  BY <1>1, ThreadAssumption DEF DequeueCall, TypeOK, Threads, Goto,
      ClaimsHead, ClaimsTail, QueueInv, CursorInv, ClaimedTicketInv, FreeTicketInv, ProducerInv, ConsumerInv
<1>2. CASE DequeueLoad(c)
  BY <1>2, ThreadAssumption DEF DequeueLoad, TypeOK, Threads, Goto,
      ClaimsHead, ClaimsTail, QueueInv, CursorInv, ClaimedTicketInv, FreeTicketInv, ProducerInv, ConsumerInv
<1>3. CASE DequeueNode(c)
  BY <1>3, ThreadAssumption DEF DequeueNode, TypeOK, Threads, Goto,
      ClaimsHead, ClaimsTail, QueueInv, CursorInv, ClaimedTicketInv, FreeTicketInv, ProducerInv, ConsumerInv
<1>4. CASE DequeueClaimFails(c)
  BY <1>4, ThreadAssumption DEF DequeueClaimFails, TypeOK, Threads, Goto,
      ClaimsHead, ClaimsTail, QueueInv, CursorInv, ClaimedTicketInv, FreeTicketInv, ProducerInv, ConsumerInv
<1>5. CASE DequeueData(c)
  BY <1>5, ThreadAssumption DEF DequeueData, TypeOK, Threads, Goto,
      ClaimsHead, ClaimsTail, QueueInv, CursorInv, ClaimedTicketInv, FreeTicketInv, ProducerInv, ConsumerInv
<1> QED
  BY <1>1, <1>2, <1>3, <1>4, <1>5, DequeueClaimStep, DequeueRecycleStep, Zenon DEF Dequeue

\* A step of an empty() call preserves the invariant.
LEMMA EmptyStep ==
  ASSUME Size > 1, TypeOK, QueueInv, NEW c \in Consumers, Empty(c)
  PROVE  QueueInv'
<1>1. CASE EmptyCall(c)
  BY <1>1, ThreadAssumption DEF EmptyCall, TypeOK, Threads, Goto,
      ClaimsHead, ClaimsTail, QueueInv, CursorInv, ClaimedTicketInv, FreeTicketInv, ProducerInv, ConsumerInv
<1>2. CASE EmptyLoad(c)
  BY <1>2, ThreadAssumption DEF EmptyLoad, TypeOK, Threads, Goto,
      ClaimsHead, ClaimsTail, QueueInv, CursorInv, ClaimedTicketInv, FreeTicketInv, ProducerInv, ConsumerInv
<1>3. CASE EmptyNode(c)
  BY <1>3, ThreadAssumption DEF EmptyNode, TypeOK, Threads, Goto,
      ClaimsHead, ClaimsTail, QueueInv, CursorInv, ClaimedTicketInv, FreeTicketInv, ProducerInv, ConsumerInv
<1> QED
  BY <1>1, <1>2, <1>3, Zenon DEF Empty

\* One step of any thread preserves the invariant on tickets and nodes.
LEMMA QueueInvStep ==
  ASSUME Size > 1, TypeOK, QueueInv, [Next]_vars
  PROVE  QueueInv'
<1>1. CASE UNCHANGED vars
  BY <1>1 DEF vars, QueueInv, CursorInv, ClaimedTicketInv, FreeTicketInv, ProducerInv, ConsumerInv,
      ClaimsHead, ClaimsTail
<1>2. CASE Next
  BY <1>2, EnqueueStep, DequeueStep, EmptyStep, Zenon DEF Next
<1> QED
  BY <1>1, <1>2, Zenon

-----------------------------------------------------------------------------
\* The variables keep their types through every call (Mpmc_bounded_lfq).
THEOREM TypeCorrect == Spec => []TypeOK
<1>1. Init => TypeOK
  BY SizeAssumption DEF Init, TypeOK, Threads, Nodes
<1>2. TypeOK /\ [Next]_vars => TypeOK'
  <2> SUFFICES ASSUME TypeOK, [Next]_vars PROVE TypeOK'
    BY Zenon
  <2> USE DEF TypeOK, Threads, Goto, EnqueueSteps, DequeueSteps, EmptySteps
  <2>1. ASSUME NEW p \in Producers, Enqueue(p) PROVE TypeOK'
    <3>1. ASSUME NEW d \in Data, EnqueueCall(p, d) PROVE TypeOK'
      BY <3>1, ThreadAssumption, Zenon DEF EnqueueCall
    <3>2. CASE EnqueueLoad(p)
      BY <3>2, ThreadAssumption, Zenon DEF EnqueueLoad
    <3>3. CASE EnqueueNode(p)
      BY <3>3, ThreadAssumption DEF EnqueueNode
    <3>4. CASE EnqueueClaim(p)
      BY <3>4, ThreadAssumption DEF EnqueueClaim
    <3>5. CASE EnqueueClaimFails(p)
      BY <3>5, ThreadAssumption, Zenon DEF EnqueueClaimFails
    <3>6. CASE EnqueueData(p)
      BY <3>6, ThreadAssumption, IdxType, Zenon DEF EnqueueData
    <3>7. CASE EnqueuePublish(p)
      BY <3>7, ThreadAssumption, IdxType DEF EnqueuePublish
    <3>8. QED
      BY <2>1, <3>1, <3>2, <3>3, <3>4, <3>5, <3>6, <3>7, Zenon DEF Enqueue
  <2>2. ASSUME NEW c \in Consumers, Dequeue(c) PROVE TypeOK'
    <3>1. CASE DequeueCall(c)
      BY <3>1, ThreadAssumption DEF DequeueCall, Published
    <3>2. CASE DequeueLoad(c)
      BY <3>2, ThreadAssumption, Zenon DEF DequeueLoad
    <3>3. CASE DequeueNode(c)
      BY <3>3, ThreadAssumption DEF DequeueNode
    <3>4. CASE DequeueClaim(c)
      BY <3>4, ThreadAssumption DEF DequeueClaim
    <3>5. CASE DequeueClaimFails(c)
      BY <3>5, ThreadAssumption, Zenon DEF DequeueClaimFails
    <3>6. CASE DequeueData(c)
      BY <3>6, ThreadAssumption, IdxType, Zenon DEF DequeueData
    <3>7. CASE DequeueRecycle(c)
      BY <3>7, ThreadAssumption, IdxType, SizeAssumption DEF DequeueRecycle
    <3>8. QED
      BY <2>2, <3>1, <3>2, <3>3, <3>4, <3>5, <3>6, <3>7, Zenon DEF Dequeue
  <2>3. ASSUME NEW c \in Consumers, Empty(c) PROVE TypeOK'
    <3>1. CASE EmptyCall(c)
      BY <3>1, ThreadAssumption DEF EmptyCall, Published
    <3>2. CASE EmptyLoad(c)
      BY <3>2, ThreadAssumption, Zenon DEF EmptyLoad
    <3>3. CASE EmptyNode(c)
      BY <3>3, ThreadAssumption, Zenon DEF EmptyNode
    <3>4. QED
      BY <2>3, <3>1, <3>2, <3>3, Zenon DEF Empty
  <2>4. CASE UNCHANGED vars
    BY <2>4, Zenon DEF vars
  <2>5. QED
    BY <2>1, <2>2, <2>3, <2>4, Zenon DEF Next
<1>3. QED
  BY <1>1, <1>2, PTL DEF Spec

\* The ticket and node invariant holds in every state (Mpmc_bounded_lfq).
THEOREM QueueInvariant == ASSUME Size > 1 PROVE Spec => [](TypeOK /\ QueueInv)
<1>1. Init => QueueInv
  <2> SUFFICES ASSUME Init PROVE QueueInv
    BY Zenon
  <2>1. \A t \in 0 .. Size - 1 : Idx(t) = t
    BY SizeAssumption DEF Idx
  <2>2. CursorInv /\ ClaimedTicketInv
    BY SizeAssumption DEF Init, CursorInv, ClaimedTicketInv
  <2>3. FreeTicketInv
    BY <2>1, SizeAssumption DEF Init, FreeTicketInv, Nodes
  <2>4. ProducerInv /\ ConsumerInv
    BY Zenon DEF Init, ProducerInv, ConsumerInv, ClaimsHead, ClaimsTail, Threads
  <2>5. QED
    BY <2>2, <2>3, <2>4, Zenon DEF QueueInv
<1>2. TypeOK /\ QueueInv /\ [Next]_vars => QueueInv'
  BY QueueInvStep, Zenon
<1>3. QED
  BY <1>1, <1>2, TypeCorrect, PTL DEF Spec

\* Enqueuing and dequeuing threads never share a node (node->data in enqueue
\* and dequeue), for any number of threads and any size above one.
THEOREM NodeExclusion == ASSUME Size > 1 PROVE Spec => []ExclusiveNode
<1>1. TypeOK /\ QueueInv => ExclusiveNode
  <2> SUFFICES ASSUME TypeOK, QueueInv PROVE ExclusiveNode
    BY Zenon
  <2> USE SizeAssumption DEF TypeOK, Threads, QueueInv, CursorInv
  <2>1. ASSUME NEW s \in Nat, NEW t \in Nat, s # t, s < t + Size, t < s + Size
        PROVE  Idx(s) # Idx(t)
    BY <2>1, IdxDistinct
  <2>2. ASSUME NEW p1 \in Producers, NEW p2 \in Producers, ClaimsHead(p1), ClaimsHead(p2), p1 # p2
        PROVE  Idx(seq[p1]) # Idx(seq[p2])
    BY <2>1, <2>2, Zenon DEF ProducerInv
  <2>3. ASSUME NEW c1 \in Consumers, NEW c2 \in Consumers, ClaimsTail(c1), ClaimsTail(c2), c1 # c2
        PROVE  Idx(seq[c1]) # Idx(seq[c2])
    BY <2>1, <2>3 DEF ConsumerInv
  <2>4. ASSUME NEW p \in Producers, NEW c \in Consumers, ClaimsHead(p), ClaimsTail(c)
        PROVE  Idx(seq[p]) # Idx(seq[c])
    BY <2>1, <2>4 DEF ProducerInv, ConsumerInv
  <2>5. QED
    BY <2>2, <2>3, <2>4, Zenon DEF ExclusiveNode
<1>2. QED
  BY <1>1, QueueInvariant, PTL

-----------------------------------------------------------------------------
(* Calls that find the queue empty *)

\* What a dequeue that finds no item relies on: the node of a ticket that was dequeued
\* has left that ticket behind, and no ticket is published that was not claimed.
NodeAge == \A t \in Nat : t < tail_seq => node_seq[Idx(t)] > t
AvailInv == \A c \in Consumers : \A t \in avail[c] : t < head_seq

\* The sequence word of a node never goes back: node->seq is stored by the thread that
\* owns the node, with a larger value.
LEMMA NodeGrows ==
  ASSUME Size > 1, TypeOK, QueueInv, [Next]_vars, NEW i \in Nodes
  PROVE  node_seq'[i] >= node_seq[i]
<1> USE DEF TypeOK, Threads, Nodes
<1>1. ASSUME NEW p \in Producers, EnqueuePublish(p) PROVE node_seq'[i] >= node_seq[i]
  <2>1. ClaimsHead(p)
    BY <1>1, Zenon DEF EnqueuePublish, ClaimsHead
  <2>2. node_seq[Idx(seq[p])] = seq[p] /\ seq[p] \in Nat
    BY <2>1, Zenon DEF QueueInv, ProducerInv
  <2>3. node_seq' = [node_seq EXCEPT ![Idx(seq[p])] = seq[p] + 1]
    BY <1>1, Zenon DEF EnqueuePublish
  <2> QED
    BY <2>2, <2>3
<1>2. ASSUME NEW c \in Consumers, DequeueRecycle(c) PROVE node_seq'[i] >= node_seq[i]
  <2>1. ClaimsTail(c)
    BY <1>2, Zenon DEF DequeueRecycle, ClaimsTail
  <2>2. node_seq[Idx(seq[c])] = seq[c] + 1 /\ seq[c] \in Nat
    BY <2>1, Zenon DEF QueueInv, ConsumerInv
  <2>3. node_seq' = [node_seq EXCEPT ![Idx(seq[c])] = seq[c] + Size]
    BY <1>2, Zenon DEF DequeueRecycle
  <2> QED
    BY <2>2, <2>3, SizeAssumption
<1>3. ASSUME node_seq' = node_seq PROVE node_seq'[i] >= node_seq[i]
  BY <1>3
<1> QED
  BY <1>1, <1>2, <1>3, Zenon DEF Next, vars, Enqueue, Dequeue, Empty, EnqueueCall, EnqueueLoad, EnqueueNode,
       EnqueueClaim, EnqueueClaimFails, EnqueueData, DequeueCall, DequeueLoad, DequeueNode,
       DequeueClaim, DequeueClaimFails, DequeueData, EmptyCall, EmptyLoad, EmptyNode

\* _head_seq never goes back; _tail_seq advances by one, at the exchange in dequeue.
LEMMA CursorsGrow ==
  ASSUME TypeOK, [Next]_vars
  PROVE  /\ head_seq' >= head_seq
         /\ \/ tail_seq' = tail_seq
            \/ \E c \in Consumers : DequeueClaim(c) /\ tail_seq' = tail_seq + 1
<1>1. head_seq' = head_seq \/ head_seq' = head_seq + 1
  BY Zenon DEF Next, vars, Enqueue, Dequeue, Empty, EnqueueCall, EnqueueLoad, EnqueueNode,
       EnqueueClaim, EnqueueClaimFails, EnqueueData, EnqueuePublish, DequeueCall, DequeueLoad, DequeueNode,
       DequeueClaim, DequeueClaimFails, DequeueData, DequeueRecycle, EmptyCall, EmptyLoad, EmptyNode
<1>2. \/ tail_seq' = tail_seq
      \/ \E c \in Consumers : DequeueClaim(c) /\ tail_seq' = tail_seq + 1
  BY Zenon DEF Next, vars, Enqueue, Dequeue, Empty, EnqueueCall, EnqueueLoad, EnqueueNode,
       EnqueueClaim, EnqueueClaimFails, EnqueueData, EnqueuePublish, DequeueCall, DequeueLoad, DequeueNode,
       DequeueClaim, DequeueClaimFails, DequeueData, DequeueRecycle, EmptyCall, EmptyLoad, EmptyNode
<1> QED
  BY <1>1, <1>2 DEF TypeOK

\* Every step leaves the nodes of dequeued tickets behind (the exchange of _tail_seq finds
\* the item of its ticket published).
LEMMA NodeAgeStep ==
  ASSUME Size > 1, TypeOK, QueueInv, TypeOK', NodeAge, [Next]_vars
  PROVE  NodeAge'
<1> SUFFICES ASSUME NEW t \in Nat, t < tail_seq' PROVE node_seq'[Idx(t)] > t
  BY Zenon DEF NodeAge
<1>1. Idx(t) \in Nodes /\ node_seq'[Idx(t)] \in Nat /\ node_seq[Idx(t)] \in Nat
  BY IdxType, Zenon DEF TypeOK
<1>2. node_seq'[Idx(t)] >= node_seq[Idx(t)]
  BY <1>1, NodeGrows, Zenon
<1>3. CASE t < tail_seq
  <2>1. node_seq[Idx(t)] > t
    BY <1>3, Zenon DEF NodeAge
  <2> QED
    BY <1>1, <1>2, <2>1
<1>4. CASE ~(t < tail_seq)
  <2>1. PICK c \in Consumers : DequeueClaim(c) /\ tail_seq' = tail_seq + 1
    BY <1>4, CursorsGrow, Zenon
  <2>2. t = tail_seq
    BY <1>4, <2>1 DEF TypeOK
  <2>3. node_seq[Idx(tail_seq)] = tail_seq + 1
    BY <2>1, Zenon DEF DequeueClaim, QueueInv, ConsumerInv
  <2> QED
    BY <1>1, <1>2, <2>2, <2>3
<1> QED
  BY <1>3, <1>4, Zenon

\* What was published when a dequeue or an empty was called has been claimed.
LEMMA AvailStep ==
  ASSUME TypeOK, TypeOK', AvailInv, [Next]_vars
  PROVE  AvailInv'
<1> SUFFICES ASSUME NEW c \in Consumers, NEW t \in avail'[c] PROVE t < head_seq'
  BY Zenon DEF AvailInv
<1>1. t \in Nat
  BY Zenon DEF TypeOK
<1>2. t \in avail[c] \/ t \in Published
  BY Zenon DEF TypeOK, Next, vars, Enqueue, Dequeue, Empty, EnqueueCall, EnqueueLoad, EnqueueNode,
       EnqueueClaim, EnqueueClaimFails, EnqueueData, EnqueuePublish, DequeueCall, DequeueLoad, DequeueNode,
       DequeueClaim, DequeueClaimFails, DequeueData, DequeueRecycle, EmptyCall, EmptyLoad, EmptyNode
<1>3. t < head_seq
  <2>1. CASE t \in avail[c]
    BY <2>1, Zenon DEF AvailInv
  <2>2. CASE t \in Published
    BY <2>2 DEF Published, TypeOK
  <2> QED
    BY <1>2, <2>1, <2>2, Zenon
<1> QED
  BY <1>1, <1>3, CursorsGrow DEF TypeOK

\* dequeue returning false and empty returning true: the node of the oldest ticket is not
\* published, so either nothing is queued or its enqueue has not finished.
LEMMA ReportsEmptyStep ==
  ASSUME Size > 1, TypeOK, QueueInv, NodeAge, AvailInv, Next, NEW c \in Consumers, ReportsEmpty(c)
  PROVE  \/ \A t \in avail[c] : t < tail_seq
         \/ \E p \in Producers : ClaimsHead(p) /\ seq[p] = tail_seq
<1>1. seq[c] \in Nat /\ seq[c] <= tail_seq /\ tail_seq \in Nat /\ head_seq \in Nat
  <2>1. pc[c] \in {"d_node", "d_cas", "m_node"}
    BY Zenon DEF ReportsEmpty
  <2> QED
    BY <2>1, Zenon DEF QueueInv, ConsumerInv, TypeOK, Threads
<1>2. node_seq[Idx(seq[c])] \in Nat
  BY <1>1, IdxType, Zenon DEF TypeOK
<1>3. DequeueNode(c) \/ EmptyNode(c)
  <2>1. c \in Threads /\ pc[c] # pc'[c] /\ DOMAIN pc = Threads
    <3>1. pc[c] # pc'[c]
      BY Zenon DEF ReportsEmpty
    <3> QED
      BY <3>1, Zenon DEF TypeOK, Threads
  <2>2. ASSUME NEW t \in Threads, NEW l, Goto(t, l) PROVE t = c
    BY <2>1, <2>2, Zenon DEF Goto
  <2>3. ASSUME NEW p \in Producers, Enqueue(p) PROVE p = c
    BY <2>2, <2>3, Zenon DEF Threads, Enqueue, EnqueueCall, EnqueueLoad, EnqueueNode,
         EnqueueClaim, EnqueueClaimFails, EnqueueData, EnqueuePublish
  <2>4. ASSUME NEW d \in Consumers, Dequeue(d) \/ Empty(d) PROVE d = c
    BY <2>2, <2>4, Zenon DEF Threads, Dequeue, Empty, DequeueCall, DequeueLoad, DequeueNode,
         DequeueClaim, DequeueClaimFails, DequeueData, DequeueRecycle, EmptyCall, EmptyLoad, EmptyNode
  <2>5. Dequeue(c) \/ Empty(c)
    BY <2>3, <2>4, ThreadAssumption, Zenon DEF Next
  <2>6. pc[c] \in {"d_node", "m_node"}
    BY Zenon DEF ReportsEmpty
  <2> QED
    BY <2>5, <2>6, Zenon DEF Dequeue, Empty, DequeueCall, DequeueLoad,
         DequeueClaim, DequeueClaimFails, DequeueData, DequeueRecycle, EmptyCall, EmptyLoad
<1>4. node_seq[Idx(seq[c])] < seq[c] + 1
  <2>1. CASE DequeueNode(c)
    BY <2>1 DEF DequeueNode, ReportsEmpty, TypeOK, Threads, Goto
  <2>2. CASE EmptyNode(c)
    BY <1>1, <1>2, <2>2 DEF EmptyNode, ReportsEmpty, TypeOK, Threads, Goto
  <2> QED
    BY <1>3, <2>1, <2>2, Zenon
<1>5. seq[c] = tail_seq
  <2>1. seq[c] < tail_seq => node_seq[Idx(seq[c])] > seq[c]
    BY <1>1, Zenon DEF NodeAge
  <2> QED
    BY <1>1, <1>2, <1>4, <2>1
<1>6. CASE tail_seq < head_seq
  <2>1. tail_seq \in tail_seq .. head_seq - 1
    BY <1>1, <1>6
  <2>2. \/ node_seq[Idx(tail_seq)] = tail_seq + 1
        \/ \E p \in Producers : ClaimsHead(p) /\ seq[p] = tail_seq
    BY <2>1, Zenon DEF QueueInv, ClaimedTicketInv
  <2> QED
    BY <1>1, <1>4, <1>5, <2>2
<1>7. CASE ~(tail_seq < head_seq)
  <2>1. tail_seq = head_seq
    BY <1>1, <1>7 DEF QueueInv, CursorInv
  <2> QED
    BY <2>1, Zenon DEF AvailInv
<1> QED
  BY <1>6, <1>7, Zenon

\* dequeue returns false and empty returns true only if all that had been published before
\* the call was claimed, or the oldest item is still being written.
THEOREM EmptyReports == ASSUME Size > 1 PROVE Spec => EmptyIsEmpty
<1>1. Init => NodeAge /\ AvailInv
  BY DEF Init, NodeAge, AvailInv
<1>2. TypeOK /\ QueueInv /\ TypeOK' /\ NodeAge /\ AvailInv /\ [Next]_vars => NodeAge' /\ AvailInv'
  BY NodeAgeStep, AvailStep, Zenon
<1>3. TypeOK /\ QueueInv /\ NodeAge /\ AvailInv /\ [Next]_vars =>
        [\A c \in Consumers : ReportsEmpty(c) =>
           \/ \A t \in avail[c] : t < tail_seq
           \/ \E p \in Producers : ClaimsHead(p) /\ seq[p] = tail_seq]_vars
  BY ReportsEmptyStep, Zenon
<1> QED
  BY <1>1, <1>2, <1>3, QueueInvariant, PTL DEF Spec, EmptyIsEmpty

-----------------------------------------------------------------------------
(* The abstract queue *)

\* A sequence with one element more at its end (the advance of _head_seq).
LEMMA AppendIs ==
  ASSUME NEW S, NEW s \in Seq(S), NEW r \in Seq(S), NEW e \in S, Len(r) = Len(s) + 1,
         \A i \in 1 .. Len(s) : r[i] = s[i], r[Len(s) + 1] = e
  PROVE  r = Append(s, e)
  OBVIOUS

\* A sequence without its first element (the advance of _tail_seq).
LEMMA TailIs ==
  ASSUME NEW S, NEW s \in Seq(S), NEW r \in Seq(S), Len(s) > 0, Len(r) = Len(s) - 1,
         \A i \in 1 .. Len(s) - 1 : r[i] = s[i + 1]
  PROVE  s # <<>> /\ Head(s) = s[1] /\ r = Tail(s)
  OBVIOUS

\* The state of BoundedFifo, as the instance Fifo of MpmcQueue maps it.
Q == [i \in 1 .. head_seq - tail_seq |-> ItemOf(tail_seq + i - 1)]
Got == [c \in Consumers |-> IF pc[c] = "d_data" THEN node_data[Idx(seq[c])] ELSE item[c]]

\* enqueue: an item that is written and not yet published is the caller's.
DataInv == \A p \in Producers : pc[p] = "e_publish" => node_data[Idx(seq[p])] = item[p]

\* The item of a claimed ticket is in its node once published, and with the thread that
\* enqueues it before (ItemOf).
LEMMA ItemNow ==
  TypeOK /\ QueueInv =>
    \A t \in tail_seq .. head_seq - 1 :
      /\ node_seq[Idx(t)] = t + 1 => ItemOf(t) = node_data[Idx(t)]
      /\ \A p \in Producers : ClaimsHead(p) /\ seq[p] = t => ItemOf(t) = item[p]
      /\ ItemOf(t) \in Data \cup {NoData}
      /\ node_seq[Idx(t)] = t + 1 \/ \E p \in Producers : ClaimsHead(p) /\ seq[p] = t
<1> SUFFICES ASSUME TypeOK, QueueInv, NEW t \in tail_seq .. head_seq - 1
             PROVE  /\ node_seq[Idx(t)] = t + 1 => ItemOf(t) = node_data[Idx(t)]
                    /\ \A p \in Producers : ClaimsHead(p) /\ seq[p] = t => ItemOf(t) = item[p]
                    /\ ItemOf(t) \in Data \cup {NoData}
                    /\ node_seq[Idx(t)] = t + 1 \/ \E p \in Producers : ClaimsHead(p) /\ seq[p] = t
  BY Zenon
<1>1. t \in Nat /\ Idx(t) \in Nodes
  BY IdxType DEF TypeOK
<1>2. ASSUME NEW p \in Producers, ClaimsHead(p), seq[p] = t
      PROVE  ItemOf(t) = item[p] /\ item[p] \in Data \cup {NoData}
  <2>1. \A p2 \in Producers : ClaimsHead(p2) /\ seq[p2] = t => p2 = p
    BY <1>2, Zenon DEF QueueInv, ProducerInv
  <2>2. Claimant(t) = p
    BY <1>2, <2>1, Zenon DEF Claimant
  <2>3. node_seq[Idx(t)] # t + 1
    BY <1>1, <1>2 DEF QueueInv, ProducerInv
  <2> QED
    BY <2>2, <2>3, Zenon DEF ItemOf, TypeOK, Threads
<1>3. node_seq[Idx(t)] = t + 1 \/ \E p \in Producers : ClaimsHead(p) /\ seq[p] = t
  BY Zenon DEF QueueInv, ClaimedTicketInv
<1>4. node_seq[Idx(t)] = t + 1 => ItemOf(t) = node_data[Idx(t)] /\ node_data[Idx(t)] \in Data \cup {NoData}
  BY <1>1, Zenon DEF ItemOf, TypeOK
<1> QED
  BY <1>2, <1>3, <1>4, Zenon

\* The same in the next state.
LEMMA ItemNext ==
  (TypeOK /\ QueueInv =>
    \A t \in tail_seq .. head_seq - 1 :
      /\ node_seq[Idx(t)] = t + 1 => ItemOf(t) = node_data[Idx(t)]
      /\ \A p \in Producers : ClaimsHead(p) /\ seq[p] = t => ItemOf(t) = item[p]
      /\ ItemOf(t) \in Data \cup {NoData}
      /\ node_seq[Idx(t)] = t + 1 \/ \E p \in Producers : ClaimsHead(p) /\ seq[p] = t)'
  BY ItemNow, PTL

\* The abstract queue is a sequence of _head_seq - _tail_seq items, in the order of the tickets.
LEMMA QType ==
  TypeOK /\ QueueInv =>
    /\ Q \in Seq(Data \cup {NoData})
    /\ head_seq - tail_seq \in Nat
    /\ Len(Q) = head_seq - tail_seq
    /\ \A t \in tail_seq .. head_seq - 1 : Q[t - tail_seq + 1] = ItemOf(t)
<1> SUFFICES ASSUME TypeOK, QueueInv
             PROVE  /\ Q \in Seq(Data \cup {NoData})
                    /\ head_seq - tail_seq \in Nat
                    /\ Len(Q) = head_seq - tail_seq
                    /\ \A t \in tail_seq .. head_seq - 1 : Q[t - tail_seq + 1] = ItemOf(t)
  BY Zenon
<1>1. head_seq - tail_seq \in Nat
  BY DEF TypeOK, QueueInv, CursorInv
<1>2. \A i \in 1 .. head_seq - tail_seq : ItemOf(tail_seq + i - 1) \in Data \cup {NoData}
  <2> TAKE i \in 1 .. head_seq - tail_seq
  <2>1. tail_seq + i - 1 \in tail_seq .. head_seq - 1
    BY DEF TypeOK
  <2> QED
    BY <2>1, ItemNow, Zenon
<1>3. ASSUME NEW t \in tail_seq .. head_seq - 1 PROVE Q[t - tail_seq + 1] = ItemOf(t)
  <2>1. t - tail_seq + 1 \in 1 .. head_seq - tail_seq /\ tail_seq + (t - tail_seq + 1) - 1 = t
    BY DEF TypeOK
  <2> QED
    BY <2>1 DEF Q
<1> QED
  BY <1>1, <1>2, <1>3 DEF Q

\* The same in the next state.
LEMMA QTypeNext ==
  (TypeOK /\ QueueInv =>
    /\ Q \in Seq(Data \cup {NoData})
    /\ head_seq - tail_seq \in Nat
    /\ Len(Q) = head_seq - tail_seq
    /\ \A t \in tail_seq .. head_seq - 1 : Q[t - tail_seq + 1] = ItemOf(t))'
  BY QType, PTL

\* A ticket whose node and whose enqueuing thread a step leaves alone keeps its item.
LEMMA ItemKept ==
  ASSUME TypeOK, QueueInv, TypeOK', QueueInv',
         NEW t \in tail_seq .. head_seq - 1, t \in tail_seq' .. head_seq' - 1,
         node_seq'[Idx(t)] = node_seq[Idx(t)],
         node_seq[Idx(t)] = t + 1 => node_data'[Idx(t)] = node_data[Idx(t)],
         \A p \in Producers : ClaimsHead(p) /\ seq[p] = t =>
           ClaimsHead(p)' /\ seq'[p] = t /\ item'[p] = item[p]
  PROVE  ItemOf(t)' = ItemOf(t)
<1>1. CASE node_seq[Idx(t)] = t + 1
  <2>1. ItemOf(t) = node_data[Idx(t)]
    BY <1>1, ItemNow, Zenon
  <2>2. ItemOf(t)' = node_data'[Idx(t)]
    BY <1>1, ItemNext, Zenon
  <2> QED
    BY <1>1, <2>1, <2>2, Zenon
<1>2. ASSUME NEW p \in Producers, ClaimsHead(p), seq[p] = t PROVE ItemOf(t)' = ItemOf(t)
  <2>1. ItemOf(t) = item[p]
    BY <1>2, ItemNow, Zenon
  <2>2. ClaimsHead(p)' /\ seq'[p] = t /\ item'[p] = item[p]
    BY <1>2, Zenon
  <2>3. ItemOf(t)' = item'[p]
    BY <2>2, ItemNext, Zenon
  <2> QED
    BY <2>1, <2>2, <2>3, Zenon
<1> QED
  BY <1>1, <1>2, ItemNow, Zenon

\* A step that moves no cursor and keeps the items keeps the abstract queue.
LEMMA SameQueue ==
  ASSUME TypeOK, QueueInv, head_seq' = head_seq, tail_seq' = tail_seq,
         \A t \in tail_seq .. head_seq - 1 : ItemOf(t)' = ItemOf(t)
  PROVE  Q' = Q
<1>1. \A i \in 1 .. head_seq - tail_seq : tail_seq + i - 1 \in tail_seq .. head_seq - 1
  BY DEF TypeOK
<1>2. \A i \in 1 .. head_seq - tail_seq : ItemOf(tail_seq + i - 1)' = ItemOf(tail_seq + i - 1)
  BY <1>1, Zenon
<1>3. Q' = [i \in 1 .. head_seq - tail_seq |-> ItemOf(tail_seq + i - 1)']
  BY Zenon DEF Q
<1> QED
  BY <1>2, <1>3, Zenon DEF Q

\* Steps that touch neither the cursors, nor the nodes, nor a claim.
LEMMA QuietStep ==
  ASSUME TypeOK, QueueInv, TypeOK', QueueInv', NEW r \in Threads,
         UNCHANGED <<head_seq, tail_seq, node_data, node_seq>>,
         \A s \in Threads \ {r} : pc'[s] = pc[s] /\ seq'[s] = seq[s] /\ item'[s] = item[s],
         pc[r] \notin {"e_data", "e_publish", "d_data"}, pc'[r] # "d_data",
         r \in Consumers => item'[r] = item[r]
  PROVE  Q' = Q /\ Got' = Got
<1>1. ASSUME NEW t \in tail_seq .. head_seq - 1 PROVE ItemOf(t)' = ItemOf(t)
  <2>1. \A p \in Producers : ClaimsHead(p) =>
           ClaimsHead(p)' /\ seq'[p] = seq[p] /\ item'[p] = item[p]
    BY Zenon DEF ClaimsHead, Threads
  <2>2. t \in tail_seq' .. head_seq' - 1 /\ node_seq'[Idx(t)] = node_seq[Idx(t)]
        /\ node_data'[Idx(t)] = node_data[Idx(t)]
    BY Zenon
  <2> QED
    BY <2>1, <2>2, ItemKept, Zenon
<1>2. Q' = Q
  BY <1>1, SameQueue, Zenon
<1>3. Got' = Got
  <2>1. \A c \in Consumers : (IF pc'[c] = "d_data" THEN node_data'[Idx(seq'[c])] ELSE item'[c])
                         = (IF pc[c] = "d_data" THEN node_data[Idx(seq[c])] ELSE item[c])
    BY Zenon DEF Threads
  <2> QED
    BY <2>1, Zenon DEF Got, Idx
<1> QED
  BY <1>2, <1>3, Zenon

\* bool enqueue(const T &data), the advance of _head_seq: the item is accepted.
LEMMA ClaimRefines ==
  ASSUME Size > 1, TypeOK, QueueInv, TypeOK', QueueInv', NEW p \in Producers, EnqueueClaim(p)
  PROVE  Fifo!Next
<1>1. head_seq = seq[p] /\ head_seq' = head_seq + 1 /\ tail_seq' = tail_seq
      /\ head_seq \in Nat /\ tail_seq \in Nat /\ node_data' = node_data /\ node_seq' = node_seq
      /\ seq' = seq /\ item' = item /\ p \in Threads
  BY Zenon DEF EnqueueClaim, TypeOK, Threads
<1>2. pc' = [pc EXCEPT ![p] = "e_data"] /\ pc[p] = "e_cas" /\ p \notin Consumers
  BY ThreadAssumption, Zenon DEF EnqueueClaim, Goto
<1>3. \A r \in Producers : ClaimsHead(r) => ClaimsHead(r)'
  BY <1>1, <1>2, Zenon DEF ClaimsHead, TypeOK, Threads
<1>4. ClaimsHead(p)'
  BY <1>1, <1>2, Zenon DEF ClaimsHead, TypeOK, Threads
<1>5. item[p] \in Data
  BY <1>2, Zenon DEF TypeOK
<1>6. Len(Q) < Size
  <2>1. node_seq[Idx(head_seq)] = head_seq
    BY <1>1, <1>2, Zenon DEF QueueInv, ProducerInv
  <2>2. head_seq < tail_seq + Size
    BY <2>1, HeadFree, Zenon
  <2> QED
    BY <1>1, <2>2, QType, SizeAssumption
<1>7. ASSUME NEW t \in tail_seq .. head_seq - 1 PROVE ItemOf(t)' = ItemOf(t)
  <2>1. t \in tail_seq' .. head_seq' - 1
    BY <1>1
  <2> QED
    BY <1>1, <1>3, <2>1, ItemKept, Zenon
<1>8. ASSUME NEW t, t = head_seq PROVE ItemOf(t)' = item[p]
  <2>1. t \in tail_seq' .. head_seq' - 1
    BY <1>1, <1>8 DEF QueueInv, CursorInv
  <2> QED
    BY <1>1, <1>4, <1>8, <2>1, ItemNext, Zenon
<1>9. Q' = Append(Q, item[p])
  <2> DEFINE n == head_seq - tail_seq
  <2>1. n \in Nat /\ Len(Q) = n /\ Q \in Seq(Data \cup {NoData})
    BY QType, Zenon
  <2>2. Q' \in Seq(Data \cup {NoData}) /\ Len(Q') = n + 1
    BY <1>1, QTypeNext
  <2>3. ASSUME NEW i \in 1 .. n PROVE Q'[i] = Q[i]
    <3>1. PICK t \in tail_seq .. head_seq - 1 : i = t - tail_seq + 1
      BY <1>1
    <3>2. t \in tail_seq' .. head_seq' - 1 /\ i = t - tail_seq' + 1
      BY <1>1, <3>1
    <3>3. Q'[i] = ItemOf(t)'
      BY <3>2, QTypeNext, Zenon
    <3> QED
      BY <1>7, <3>1, <3>3, QType, Zenon
  <2>4. Q'[n + 1] = item[p]
    <3>1. PICK t \in tail_seq' .. head_seq' - 1 : t = head_seq /\ n + 1 = t - tail_seq' + 1
      BY <1>1 DEF QueueInv, CursorInv
    <3> QED
      BY <1>8, <3>1, QTypeNext, Zenon
  <2>5. item[p] \in Data \cup {NoData}
    BY <1>5, Zenon
  <2> HIDE DEF n
  <2> QED
    BY <2>1, <2>2, <2>3, <2>4, <2>5, AppendIs
<1>10. Got' = Got
  <2>1. \A c \in Consumers : pc'[c] = pc[c]
    BY <1>1, <1>2, Zenon DEF TypeOK, Threads
  <2> QED
    BY <1>1, <2>1, Zenon DEF Got, Idx
<1> QED
  BY <1>5, <1>6, <1>9, <1>10, Zenon DEF Fifo!Next, Fifo!Enqueue, Q, Got

\* Two tickets of the window that starts at the oldest one have nodes of their own.
LEMMA WindowDistinct ==
  ASSUME TypeOK, QueueInv, NEW s \in tail_seq .. head_seq - 1, NEW t \in tail_seq .. head_seq - 1, s # t
  PROVE  Idx(s) # Idx(t)
<1>1. s \in Nat /\ t \in Nat /\ (s < t \/ t < s) /\ t < s + Size /\ s < t + Size
  BY SizeAssumption DEF TypeOK, QueueInv, CursorInv
<1> QED
  BY <1>1, IdxDistinct

\* The plain store to node->data in enqueue changes no item of the queue and no item
\* that a dequeue is reading.
LEMMA DataRefines ==
  ASSUME Size > 1, TypeOK, QueueInv, TypeOK', QueueInv', ExclusiveNode, NEW p \in Producers, EnqueueData(p)
  PROVE  Q' = Q /\ Got' = Got
<1>1. /\ UNCHANGED <<head_seq, tail_seq, node_seq, seq, item>>
      /\ node_data' = [node_data EXCEPT ![Idx(seq[p])] = item[p]]
      /\ pc' = [pc EXCEPT ![p] = "e_publish"]
      /\ p \in Threads /\ p \notin Consumers
      /\ ClaimsHead(p)
  BY ThreadAssumption, Zenon DEF EnqueueData, Goto, Threads, ClaimsHead
<1>2. seq[p] \in tail_seq .. head_seq - 1 /\ node_seq[Idx(seq[p])] = seq[p]
  BY <1>1 DEF QueueInv, ProducerInv, TypeOK, Threads
<1>3. ASSUME NEW t \in tail_seq .. head_seq - 1 PROVE ItemOf(t)' = ItemOf(t)
  <2>1. node_seq[Idx(t)] = t + 1 => node_data'[Idx(t)] = node_data[Idx(t)]
    <3>1. CASE t = seq[p]
      BY <1>2, <3>1 DEF TypeOK, Threads
    <3>2. CASE t # seq[p]
      <4>1. Idx(t) # Idx(seq[p]) /\ Idx(t) \in Nodes
        <5>1. t \in Nat
          BY DEF TypeOK
        <5> QED
          BY <1>2, <3>2, <5>1, WindowDistinct, IdxType, Zenon
      <4> QED
        BY <1>1, <4>1, Zenon DEF TypeOK
    <3> QED
      BY <3>1, <3>2, Zenon
  <2>2. \A r \in Producers : ClaimsHead(r) => ClaimsHead(r)'
    BY <1>1, Zenon DEF ClaimsHead, TypeOK, Threads
  <2> QED
    BY <1>1, <2>1, <2>2, ItemKept, Zenon
<1>4. Q' = Q
  BY <1>1, <1>3, SameQueue, Zenon
<1>5. \A c \in Consumers : pc'[c] = pc[c]
  BY <1>1, Zenon DEF TypeOK, Threads
<1>6. ASSUME NEW c \in Consumers, pc[c] = "d_data" PROVE node_data'[Idx(seq[c])] = node_data[Idx(seq[c])]
  <2>1. Idx(seq[c]) # Idx(seq[p])
    BY <1>1, <1>6, Zenon DEF ExclusiveNode, ClaimsTail
  <2>2. Idx(seq[c]) \in Nodes
    BY IdxType, Zenon DEF TypeOK, Threads
  <2> QED
    BY <1>1, <2>1, <2>2, Zenon DEF TypeOK
<1> QED
  BY <1>1, <1>4, <1>5, <1>6, Zenon DEF Got, Idx

\* The store to node->seq in enqueue publishes the item that the ticket stood for.
LEMMA PublishRefines ==
  ASSUME Size > 1, TypeOK, QueueInv, TypeOK', QueueInv', DataInv, NEW p \in Producers, EnqueuePublish(p)
  PROVE  Q' = Q /\ Got' = Got
<1>1. /\ UNCHANGED <<head_seq, tail_seq, node_data, seq, item>>
      /\ node_seq' = [node_seq EXCEPT ![Idx(seq[p])] = seq[p] + 1]
      /\ pc' = [pc EXCEPT ![p] = "idle"]
      /\ p \in Threads /\ p \notin Consumers
      /\ ClaimsHead(p)
      /\ node_data[Idx(seq[p])] = item[p]
  BY ThreadAssumption, Zenon DEF EnqueuePublish, Goto, Threads, ClaimsHead, DataInv
<1>2. seq[p] \in tail_seq .. head_seq - 1 /\ seq[p] \in Nat /\ Idx(seq[p]) \in Nodes
  BY <1>1, IdxType DEF QueueInv, ProducerInv, TypeOK, Threads
<1>3. ASSUME NEW t \in tail_seq .. head_seq - 1 PROVE ItemOf(t)' = ItemOf(t)
  <2>1. CASE t = seq[p]
    <3>1. ItemOf(t) = item[p]
      BY <1>1, <2>1, ItemNow, Zenon
    <3>2. node_seq'[Idx(t)] = t + 1
      BY <1>1, <1>2, <2>1, Zenon DEF TypeOK
    <3>3. ItemOf(t)' = node_data'[Idx(t)]
      BY <1>1, <3>2, ItemNext, Zenon
    <3> QED
      BY <1>1, <2>1, <3>1, <3>3, Zenon
  <2>2. CASE t # seq[p]
    <3>1. Idx(t) # Idx(seq[p]) /\ t \in Nat
      <4>1. t \in Nat
        BY DEF TypeOK
      <4> QED
        BY <1>2, <2>2, <4>1, WindowDistinct, Zenon
    <3>2. node_seq'[Idx(t)] = node_seq[Idx(t)]
      BY <1>1, <3>1, IdxType, Zenon DEF TypeOK
    <3>3. \A r \in Producers : ClaimsHead(r) /\ seq[r] = t => ClaimsHead(r)'
      BY <1>1, <2>2, Zenon DEF ClaimsHead, TypeOK, Threads
    <3> QED
      BY <1>1, <3>2, <3>3, ItemKept, Zenon
  <2> QED
    BY <2>1, <2>2, Zenon
<1>4. Q' = Q
  BY <1>1, <1>3, SameQueue, Zenon
<1>5. \A c \in Consumers : pc'[c] = pc[c]
  BY <1>1, Zenon DEF TypeOK, Threads
<1> QED
  BY <1>1, <1>4, <1>5, Zenon DEF Got, Idx

\* bool dequeue(T &data), the advance of _tail_seq: the oldest item is handed out.
LEMMA TakeRefines ==
  ASSUME Size > 1, TypeOK, QueueInv, TypeOK', QueueInv', NEW c \in Consumers, DequeueClaim(c)
  PROVE  Fifo!Next
<1>1. /\ tail_seq = seq[c] /\ tail_seq' = tail_seq + 1 /\ head_seq' = head_seq
      /\ head_seq \in Nat /\ tail_seq \in Nat
      /\ UNCHANGED <<node_data, node_seq, seq, item>>
      /\ pc' = [pc EXCEPT ![c] = "d_data"] /\ pc[c] = "d_cas"
      /\ c \in Threads /\ c \notin Producers
  BY ThreadAssumption, Zenon DEF DequeueClaim, TypeOK, Threads, Goto
<1>2. node_seq[Idx(tail_seq)] = tail_seq + 1
  BY <1>1, Zenon DEF QueueInv, ConsumerInv
<1>3. tail_seq < head_seq
  BY <1>1 DEF QueueInv, CursorInv
<1>4. \A r \in Producers : ClaimsHead(r) => ClaimsHead(r)'
  BY <1>1, Zenon DEF ClaimsHead, TypeOK, Threads
<1>5. ASSUME NEW t \in tail_seq + 1 .. head_seq - 1 PROVE ItemOf(t)' = ItemOf(t)
  <2>1. t \in tail_seq' .. head_seq' - 1 /\ t \in tail_seq .. head_seq - 1
    BY <1>1
  <2> QED
    BY <1>1, <1>4, <2>1, ItemKept, Zenon
<1> DEFINE n == head_seq - tail_seq
<1>6. n \in Nat /\ n > 0 /\ Len(Q) = n /\ Q \in Seq(Data \cup {NoData})
  BY <1>1, <1>3, QType
<1>7. Q # <<>> /\ Head(Q) = Q[1] /\ Q' = Tail(Q)
  <2>1. Q' \in Seq(Data \cup {NoData}) /\ Len(Q') = n - 1
    BY <1>1, QTypeNext
  <2>2. ASSUME NEW i \in 1 .. n - 1 PROVE Q'[i] = Q[i + 1]
    <3>a. tail_seq + i \in tail_seq + 1 .. head_seq - 1 /\ i = (tail_seq + i) - tail_seq' + 1
      BY <1>1
    <3>1. PICK t \in tail_seq + 1 .. head_seq - 1 : i = t - tail_seq' + 1
      BY <3>a, Zenon
    <3>2. t \in tail_seq' .. head_seq' - 1 /\ t \in tail_seq .. head_seq - 1 /\ i + 1 = t - tail_seq + 1
      BY <1>1, <3>1
    <3>3. Q'[i] = ItemOf(t)'
      BY <3>1, <3>2, QTypeNext, Zenon
    <3>4. Q[i + 1] = ItemOf(t)
      BY <3>2, QType, Zenon
    <3> QED
      BY <1>5, <3>3, <3>4, Zenon
  <2> HIDE DEF n
  <2> QED
    BY <1>6, <2>1, <2>2, TailIs, Zenon
<1>8. Head(Q) = node_data[Idx(seq[c])]
  <2>1. tail_seq \in tail_seq .. head_seq - 1 /\ tail_seq - tail_seq + 1 = 1
    BY <1>1, <1>3
  <2>2. Q[1] = ItemOf(tail_seq)
    BY <2>1, QType, Zenon
  <2> QED
    BY <1>1, <1>2, <1>7, <2>1, <2>2, ItemNow, Zenon
<1>9. Got' = [Got EXCEPT ![c] = Head(Q)]
  <2>1. \A r \in Consumers : pc'[r] = IF r = c THEN "d_data" ELSE pc[r]
    BY <1>1, Zenon DEF TypeOK, Threads
  <2> QED
    BY <1>1, <1>8, <2>1, Zenon DEF Got, Idx
<1> QED
  BY <1>7, <1>8, <1>9, Zenon DEF Fifo!Next, Fifo!Dequeue, Q, Got

\* The plain load of node->data in dequeue delivers the item that was handed out.
LEMMA LoadRefines ==
  ASSUME TypeOK, QueueInv, TypeOK', QueueInv', NEW c \in Consumers, DequeueData(c)
  PROVE  Q' = Q /\ Got' = Got
<1>1. /\ UNCHANGED <<head_seq, tail_seq, node_data, node_seq, seq>>
      /\ item' = [item EXCEPT ![c] = node_data[Idx(seq[c])]]
      /\ pc' = [pc EXCEPT ![c] = "d_recycle"] /\ pc[c] = "d_data"
      /\ c \in Threads /\ c \notin Producers
  BY ThreadAssumption, Zenon DEF DequeueData, Threads, Goto
<1>2. \A r \in Threads \ {c} : pc'[r] = pc[r] /\ item'[r] = item[r]
  BY <1>1, Zenon DEF TypeOK
<1>3. \A p \in Producers : ClaimsHead(p) => ClaimsHead(p)' /\ item'[p] = item[p]
  BY <1>1, <1>2, Zenon DEF ClaimsHead, Threads
<1>4. Q' = Q
  <2>1. ASSUME NEW t \in tail_seq .. head_seq - 1 PROVE ItemOf(t)' = ItemOf(t)
    BY <1>1, <1>3, ItemKept, Zenon
  <2> QED
    BY <1>1, <2>1, SameQueue, Zenon
<1>5. pc'[c] = "d_recycle" /\ item'[c] = node_data[Idx(seq[c])]
  BY <1>1, Zenon DEF TypeOK
<1>6. ASSUME NEW r \in Consumers
      PROVE  (IF pc'[r] = "d_data" THEN node_data'[Idx(seq'[r])] ELSE item'[r])
             = (IF pc[r] = "d_data" THEN node_data[Idx(seq[r])] ELSE item[r])
  BY <1>1, <1>2, <1>5, Zenon DEF Threads
<1> QED
  BY <1>4, <1>6, Zenon DEF Got, Idx

\* The store to node->seq in dequeue gives the node back for a later ticket.
LEMMA RecycleRefines ==
  ASSUME Size > 1, TypeOK, QueueInv, TypeOK', QueueInv', NEW c \in Consumers, DequeueRecycle(c)
  PROVE  Q' = Q /\ Got' = Got
<1>1. /\ UNCHANGED <<head_seq, tail_seq, node_data, seq, item>>
      /\ node_seq' = [node_seq EXCEPT ![Idx(seq[c])] = seq[c] + Size]
      /\ pc' = [pc EXCEPT ![c] = "idle"] /\ pc[c] = "d_recycle"
      /\ c \in Threads /\ c \notin Producers
      /\ ClaimsTail(c)
  BY ThreadAssumption, Zenon DEF DequeueRecycle, Threads, Goto, ClaimsTail
<1>2. seq[c] \in Nat /\ seq[c] < tail_seq /\ head_seq <= seq[c] + Size
  BY <1>1, Zenon DEF QueueInv, ConsumerInv, TypeOK
<1>3. \A r \in Threads \ {c} : pc'[r] = pc[r]
  BY <1>1, Zenon DEF TypeOK
<1>4. \A p \in Producers : ClaimsHead(p) => ClaimsHead(p)'
  BY <1>1, <1>3, Zenon DEF ClaimsHead, Threads
<1>5. ASSUME NEW t \in tail_seq .. head_seq - 1 PROVE ItemOf(t)' = ItemOf(t)
  <2>1. t \in Nat /\ seq[c] < t /\ t < seq[c] + Size
    BY <1>2, SizeAssumption DEF TypeOK
  <2>2. Idx(seq[c]) # Idx(t) /\ Idx(t) \in Nodes
    BY <1>2, <2>1, IdxDistinct, IdxType, Zenon
  <2>3. node_seq'[Idx(t)] = node_seq[Idx(t)]
    BY <1>1, <2>2, Zenon DEF TypeOK
  <2> QED
    BY <1>1, <1>4, <2>3, ItemKept, Zenon
<1>6. Q' = Q
  BY <1>1, <1>5, SameQueue, Zenon
<1>7. pc'[c] = "idle"
  BY <1>1, Zenon DEF TypeOK
<1>8. ASSUME NEW r \in Consumers PROVE pc'[r] = "d_data" <=> pc[r] = "d_data"
  BY <1>1, <1>3, <1>7, Zenon DEF Threads
<1> QED
  BY <1>1, <1>6, <1>8, Zenon DEF Got, Idx

\* Only enqueue's stores to node->data and its caller's item concern DataInv.
LEMMA DataInvStep ==
  ASSUME Size > 1, TypeOK, QueueInv, ExclusiveNode, DataInv, [Next]_vars
  PROVE  DataInv'
<1> USE DEF TypeOK, Threads, Goto
<1> SUFFICES ASSUME NEW p \in Producers, pc'[p] = "e_publish"
             PROVE  node_data'[Idx(seq'[p])] = item'[p]
  BY Zenon DEF DataInv, Idx
<1>1. Idx(seq[p]) \in Nodes
  BY IdxType, Zenon
<1>2. CASE EnqueueData(p)
  BY <1>1, <1>2, Zenon DEF EnqueueData
<1>3. ASSUME NEW r \in Producers \ {p}, EnqueueData(r) PROVE node_data'[Idx(seq'[p])] = item'[p]
  <2>1. pc[p] = "e_publish"
    BY <1>3, Zenon DEF EnqueueData
  <2>2. Idx(seq[r]) # Idx(seq[p])
    BY <1>3, <2>1, Zenon DEF EnqueueData, ExclusiveNode, ClaimsHead
  <2> QED
    BY <1>1, <1>3, <2>1, <2>2, Zenon DEF EnqueueData, DataInv
<1>4. ASSUME node_data' = node_data, pc[p] = "e_publish", seq'[p] = seq[p], item'[p] = item[p]
      PROVE  node_data'[Idx(seq'[p])] = item'[p]
  BY <1>4, Zenon DEF DataInv
<1>5. ASSUME NEW r \in Threads, NEW l, l # "e_publish", Goto(r, l), node_data' = node_data,
             \A s \in Threads \ {r} : seq'[s] = seq[s] /\ item'[s] = item[s]
      PROVE  node_data'[Idx(seq'[p])] = item'[p]
  <2>1. p # r /\ pc'[p] = pc[p]
    BY <1>5, Zenon
  <2> QED
    BY <1>4, <1>5, <2>1, Zenon
<1>6. ASSUME NEW r \in Producers, Enqueue(r) PROVE node_data'[Idx(seq'[p])] = item'[p]
  <2>1. ASSUME NEW d \in Data, EnqueueCall(r, d) PROVE node_data'[Idx(seq'[p])] = item'[p]
    BY <1>5, <2>1, Zenon DEF EnqueueCall
  <2>2. CASE EnqueueLoad(r) \/ EnqueueClaimFails(r)
    BY <1>5, <2>2, Zenon DEF EnqueueLoad, EnqueueClaimFails
  <2>3. CASE EnqueueNode(r)
    BY <1>5, <2>3, Zenon DEF EnqueueNode
  <2>4. CASE EnqueueClaim(r) \/ EnqueuePublish(r)
    BY <1>5, <2>4, Zenon DEF EnqueueClaim, EnqueuePublish
  <2> QED
    BY <1>2, <1>3, <1>6, <2>1, <2>2, <2>3, <2>4, Zenon DEF Enqueue
<1>7. ASSUME NEW c \in Consumers, Dequeue(c) PROVE node_data'[Idx(seq'[p])] = item'[p]
  <2>1. CASE DequeueCall(c) \/ DequeueClaim(c) \/ DequeueRecycle(c)
    BY <1>5, <2>1, Zenon DEF DequeueCall, DequeueClaim, DequeueRecycle
  <2>2. CASE DequeueLoad(c) \/ DequeueClaimFails(c) \/ DequeueData(c)
    BY <1>5, <2>2, Zenon DEF DequeueLoad, DequeueClaimFails, DequeueData
  <2>3. CASE DequeueNode(c)
    BY <1>5, <2>3, Zenon DEF DequeueNode
  <2> QED
    BY <1>7, <2>1, <2>2, <2>3, Zenon DEF Dequeue
<1>8. ASSUME NEW c \in Consumers, Empty(c) PROVE node_data'[Idx(seq'[p])] = item'[p]
  BY <1>5, <1>8, Zenon DEF Empty, EmptyCall, EmptyLoad, EmptyNode
<1>9. CASE UNCHANGED vars
  BY <1>4, <1>9, Zenon DEF vars
<1> QED
  BY <1>6, <1>7, <1>8, <1>9, Zenon DEF Next

\* The steps of enqueue, as steps of the abstract queue.
LEMMA EnqueueRefines ==
  ASSUME Size > 1, TypeOK, QueueInv, TypeOK', QueueInv', ExclusiveNode, DataInv,
         NEW p \in Producers, Enqueue(p)
  PROVE  Fifo!Next \/ (Q' = Q /\ Got' = Got)
<1> USE ThreadAssumption DEF TypeOK, Threads, Goto
<1>1. ASSUME NEW d \in Data, EnqueueCall(p, d) PROVE Q' = Q /\ Got' = Got
  BY <1>1, QuietStep, Zenon DEF EnqueueCall
<1>2. CASE EnqueueLoad(p)
  BY <1>2, QuietStep, Zenon DEF EnqueueLoad
<1>3. CASE EnqueueNode(p)
  BY <1>3, QuietStep, Zenon DEF EnqueueNode
<1>4. CASE EnqueueClaimFails(p)
  BY <1>4, QuietStep, Zenon DEF EnqueueClaimFails
<1> QED
  BY <1>1, <1>2, <1>3, <1>4, ClaimRefines, DataRefines, PublishRefines, Zenon DEF Enqueue

\* The steps of dequeue and of empty, as steps of the abstract queue.
LEMMA DequeueRefines ==
  ASSUME Size > 1, TypeOK, QueueInv, TypeOK', QueueInv',
         NEW c \in Consumers, Dequeue(c) \/ Empty(c)
  PROVE  Fifo!Next \/ (Q' = Q /\ Got' = Got)
<1> USE ThreadAssumption DEF TypeOK, Threads, Goto
<1>1. CASE DequeueCall(c)
  BY <1>1, QuietStep, Zenon DEF DequeueCall
<1>2. CASE DequeueLoad(c)
  BY <1>2, QuietStep, Zenon DEF DequeueLoad
<1>3. CASE DequeueNode(c)
  BY <1>3, QuietStep, Zenon DEF DequeueNode
<1>4. CASE DequeueClaimFails(c)
  BY <1>4, QuietStep, Zenon DEF DequeueClaimFails
<1>5. CASE EmptyCall(c)
  BY <1>5, QuietStep, Zenon DEF EmptyCall
<1>6. CASE EmptyLoad(c)
  BY <1>6, QuietStep, Zenon DEF EmptyLoad
<1>7. CASE EmptyNode(c)
  BY <1>7, QuietStep, Zenon DEF EmptyNode
<1> QED
  BY <1>1, <1>2, <1>3, <1>4, <1>5, <1>6, <1>7, TakeRefines, LoadRefines, RecycleRefines, Zenon
     DEF Dequeue, Empty

\* For any number of threads and any size above one, the lock-free queue implements the
\* bounded first-in first-out queue.
THEOREM Refinement == ASSUME Size > 1 PROVE Spec => ImplementsFifo
<1>1. Init => DataInv /\ Fifo!Init
  <2> SUFFICES ASSUME Init PROVE DataInv /\ Fifo!Init
    BY Zenon
  <2>1. DataInv
    BY Zenon DEF Init, DataInv, Threads
  <2>2. Got = [c \in Consumers |-> NoData]
    BY Zenon DEF Init, Got, Threads
  <2>3. Q = <<>>
    <3>1. 1 .. head_seq - tail_seq = {}
      BY DEF Init
    <3> QED
      BY <3>1 DEF Q
  <2> QED
    BY <2>1, <2>2, <2>3, Zenon DEF Fifo!Init, Q, Got
<1>2. TypeOK /\ QueueInv /\ ExclusiveNode /\ DataInv /\ [Next]_vars => DataInv'
  BY DataInvStep, Zenon
<1>3. TypeOK /\ QueueInv /\ TypeOK' /\ QueueInv' /\ ExclusiveNode /\ DataInv /\ [Next]_vars
        => [Fifo!Next]_(Fifo!fifovars)
  <2> SUFFICES ASSUME TypeOK, QueueInv, TypeOK', QueueInv', ExclusiveNode, DataInv, [Next]_vars
               PROVE  Fifo!Next \/ (Q' = Q /\ Got' = Got)
    BY Zenon DEF Fifo!fifovars, Q, Got
  <2>1. CASE UNCHANGED vars
    <3>1. \A t \in tail_seq .. head_seq - 1 : ItemOf(t)' = ItemOf(t)
      BY <2>1, ItemKept, Zenon DEF vars, ClaimsHead
    <3>2. Q' = Q
      BY <2>1, <3>1, SameQueue, Zenon DEF vars
    <3> QED
      BY <2>1, <3>2, Zenon DEF vars, Got, Idx
  <2> QED
    BY <2>1, EnqueueRefines, DequeueRefines, Zenon DEF Next
<1> QED
  BY <1>1, <1>2, <1>3, QueueInvariant, NodeExclusion, PTL DEF Spec, ImplementsFifo, Fifo!Spec
=============================================================================
