----------------------------- MODULE BoundedFifo -----------------------------
(***************************************************************************)
(* What the users of common::Mpmc_bounded_lfq rely on: a first-in first-out*)
(* queue of at most Size items, shared by producers and consumers.  An     *)
(* element is handed to exactly one consumer, in the order of arrival, and *)
(* the consumer keeps the value it was handed.                             *)
(***************************************************************************)
EXTENDS Naturals, Sequences

CONSTANTS Data, Consumers, Size, NoData

VARIABLES q,    \* items accepted and not yet handed out, oldest first
          got   \* the item last handed to each consumer

fifovars == <<q, got>>

TypeOK == /\ q \in Seq(Data)
          /\ Len(q) <= Size
          /\ got \in [Consumers -> Data \cup {NoData}]

Init == /\ q = <<>>
        /\ got = [c \in Consumers |-> NoData]

Enqueue(d) == /\ Len(q) < Size
              /\ q' = Append(q, d)
              /\ UNCHANGED got

Dequeue(c) == /\ q # <<>>
              /\ got' = [got EXCEPT ![c] = Head(q)]
              /\ q' = Tail(q)

Next == \/ \E d \in Data : Enqueue(d)
        \/ \E c \in Consumers : Dequeue(c)

Spec == Init /\ [][Next]_fifovars
=============================================================================
