------------------------------ MODULE DirectKv ------------------------------
(***************************************************************************)
(* What a shard promises to the users of put, erase and put_direct: a key  *)
(* changes only by an atomic put or erase, or by the commit of a           *)
(* put_direct, which makes exactly the value its client announced visible; *)
(* and these are the requests that are answered with success.              *)
(***************************************************************************)
CONSTANTS Clients, Keys, Values, NoKey, NoValue

VARIABLES kv,       \* the visible value of each key
          staging,  \* the key each client is transferring a value to
          staged,   \* the value it is transferring
          ok        \* its last operation has ended in success

kvvars == <<kv, staging, staged, ok>>

Init == /\ kv = [k \in Keys |-> NoValue]
        /\ staging = [c \in Clients |-> NoKey]
        /\ staged = [c \in Clients |-> NoValue]
        /\ ok = [c \in Clients |-> TRUE]

Answer(c, s) == ok' = [ok EXCEPT ![c] = s]

Put(c, k, v) == /\ staging[c] = NoKey
                /\ kv' = [kv EXCEPT ![k] = v]
                /\ Answer(c, TRUE)
                /\ UNCHANGED <<staging, staged>>

Erase(c, k) == /\ staging[c] = NoKey
               /\ kv[k] # NoValue
               /\ kv' = [kv EXCEPT ![k] = NoValue]
               /\ Answer(c, TRUE)
               /\ UNCHANGED <<staging, staged>>

\* A read, or a request that is refused
ReadOnly(c) == /\ staging[c] = NoKey
               /\ \E s \in BOOLEAN : Answer(c, s)
               /\ UNCHANGED <<kv, staging, staged>>

\* One transfer at a time to a key
Begin(c, k, v) == /\ staging[c] = NoKey
                  /\ \A d \in Clients : staging[d] # k
                  /\ staging' = [staging EXCEPT ![c] = k]
                  /\ staged' = [staged EXCEPT ![c] = v]
                  /\ Answer(c, FALSE)
                  /\ UNCHANGED kv

EndTransfer(c) == /\ staging[c] # NoKey
                  /\ staging' = [staging EXCEPT ![c] = NoKey]
                  /\ staged' = [staged EXCEPT ![c] = NoValue]

Commit(c) == /\ EndTransfer(c)
             /\ kv' = [kv EXCEPT ![staging[c]] = staged[c]]
             /\ Answer(c, TRUE)

\* The transfer is refused in the end
Fail(c) == /\ EndTransfer(c)
           /\ Answer(c, FALSE)
           /\ UNCHANGED kv

\* The client's session ends before the transfer does
Abandon(c) == /\ EndTransfer(c)
              /\ UNCHANGED <<kv, ok>>

Next == \E c \in Clients :
          \/ \E k \in Keys, v \in Values : Put(c, k, v) \/ Begin(c, k, v)
          \/ \E k \in Keys : Erase(c, k)
          \/ ReadOnly(c)
          \/ Commit(c)
          \/ Fail(c)
          \/ Abandon(c)

Spec == Init /\ [][Next]_kvvars
=============================================================================
