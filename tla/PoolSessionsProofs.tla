------------------------- MODULE PoolSessionsProofs -------------------------
(***************************************************************************)
(* The reference counts of pools and ADO proxies, proved for any number of *)
(* sessions, pools and handles.                                            *)
(***************************************************************************)
EXTENDS PoolSessions, FiniteSetTheorems, TLAPS

USE SMTT(60)
USE SessionsAssumption, NamesAssumption, HandlesAssumption, AdoModesAssumption, BoundsAssumption

-----------------------------------------------------------------------------
(* The inductive invariant *)

\* The sessions that have the handle open, ...
Sharers(h) == {s \in Sessions : refs[s][h] > 0}
\* ... and the opens that a proxy serves
Users(n) == {u \in Sessions \X Handles : refs[u[1]][u[2]] > 0 /\ map_ado[u[2]] = n}

\* Types of _open_pools and of the store's tables
StoreTypes == /\ pools \in SUBSET Names
              /\ opened \in [Handles -> Names \cup {NoName}]
              /\ refs \in [Sessions -> [Handles -> 0 .. MaxRefs]]
              /\ n2p \in [Sessions -> [Names -> Handles \cup {NoHandle}]]
              /\ p2n \in [Sessions -> [Handles -> Names \cup {NoName}]]
              /\ held \in [Sessions -> [Handles -> 0 .. MaxRefs]]
              /\ event \in [Names -> Nat]
              /\ alive \in BOOLEAN
              /\ ado_enabled \in AdoModes

\* Types of _ado_map and _ado_pool_map
AdoTypes == /\ ado_ref \in [Names -> Nat]
            /\ ado_pool \in [Names -> Handles \cup {NoHandle}]
            /\ map_ado \in [Handles -> Names \cup {NoName}]
            /\ map_count \in [Handles -> Nat]
            /\ plugin_ref \in [Names -> Nat]

\* A handle is in _ado_pool_map exactly as long as it has references there.
CountInv == \A h \in Handles : map_count[h] <= MaxAdds /\ (map_ado[h] = NoName <=> map_count[h] = 0)

\* A proxy is in _ado_map exactly as long as it has references.
ProxyInv == \A n \in Names : ado_ref[n] > 0 <=> ado_pool[n] # NoHandle

\* Every session that has a handle open holds a reference of the handle to its proxy.
SharersCounted == ado_enabled => \A h \in Handles : Cardinality(Sharers(h)) <= map_count[h]

\* Every open and every POOL_DELETE event under way holds a reference to the proxy, beside
\* those of the plugins.
EventsCovered == \A n \in Names : event[n] + Cardinality(Users(n)) <= ado_ref[n] - plugin_ref[n]

\* Without ADO processes the ADO tables stay empty.
NoAdo == ~ado_enabled => /\ \A h \in Handles : map_ado[h] = NoName
                         /\ \A n \in Names : event[n] = 0

AdoInv == AdoTypes /\ AdoRefsExact /\ CountInv /\ ProxyInv
UsersInv == SharersCounted /\ EventsCovered
StoreInv == OpenPoolsExist /\ HandleBacked /\ NoAdo
IInv == StoreTypes /\ AdoInv /\ UsersInv /\ StoreInv

-----------------------------------------------------------------------------
(* Counting *)

\* The references to a proxy are finitely many.
LEMMA ReferencesFinite == ASSUME NEW n PROVE IsFiniteSet(References(n))
<1>1. IsFiniteSet(1 .. MaxAdds)
  BY FS_Interval
<1>2. IsFiniteSet(Handles \X (1 .. MaxAdds))
  BY <1>1, FS_Product, Zenon
<1>3. References(n) \in SUBSET (Handles \X (1 .. MaxAdds))
  BY Zenon DEF References
<1>. QED BY <1>2, <1>3, FS_Subset, Zenon

\* So are the opens a proxy serves, and the sessions that share a handle.
LEMMA UsersFinite ==
  /\ \A n : IsFiniteSet(Users(n)) /\ Cardinality(Users(n)) \in Nat
  /\ \A h : IsFiniteSet(Sharers(h)) /\ Cardinality(Sharers(h)) \in Nat
<1>1. IsFiniteSet(Sessions \X Handles)
  BY FS_Product, Zenon
<1>2. ASSUME NEW n PROVE IsFiniteSet(Users(n)) /\ Cardinality(Users(n)) \in Nat
  <2>1. Users(n) \in SUBSET (Sessions \X Handles)
    BY Zenon DEF Users
  <2>2. IsFiniteSet(Users(n))
    BY <1>1, <2>1, FS_Subset, Zenon
  <2>. QED BY <2>2, FS_CardinalityType, Zenon
<1>3. ASSUME NEW h PROVE IsFiniteSet(Sharers(h)) /\ Cardinality(Sharers(h)) \in Nat
  <2>1. Sharers(h) \in SUBSET Sessions
    BY Zenon DEF Sharers
  <2>2. IsFiniteSet(Sharers(h))
    BY <2>1, FS_Subset, Zenon
  <2>. QED BY <2>2, FS_CardinalityType, Zenon
<1>. QED BY <1>2, <1>3, Zenon

\* Sets in one-to-one correspondence have the same cardinality.
LEMMA OneToOne ==
  ASSUME NEW H, IsFiniteSet(H), NEW T, NEW g \in [H -> T],
         \A a, b \in H : g[a] = g[b] => a = b, \A t \in T : \E h \in H : g[h] = t
  PROVE  IsFiniteSet(T) /\ Cardinality(T) = Cardinality(H)
<1>1. g \in Bijection(H, T)
  BY Zenon DEF Bijection, Injection, Surjection, IsInjective
<1>2. ExistsBijection(H, T)
  BY <1>1, Zenon DEF ExistsBijection
<1>. QED BY <1>2, FS_Bijection, Zenon

\* A set of handles has as many last references as handles, ...
LEMMA LastReferences ==
  ASSUME NEW H, IsFiniteSet(H), NEW f
  PROVE  /\ IsFiniteSet({<<h, f[h]>> : h \in H})
         /\ Cardinality({<<h, f[h]>> : h \in H}) = Cardinality(H)
<1>. DEFINE T == {<<h, f[h]>> : h \in H}
            g == [h \in H |-> <<h, f[h]>>]
<1>1. g \in [H -> T]
  BY Zenon
<1>2. \A a, b \in H : g[a] = g[b] => a = b
  OBVIOUS
<1>3. \A t \in T : \E h \in H : g[h] = t
  BY Zenon
<1>. HIDE DEF T, g
<1>4. IsFiniteSet(T) /\ Cardinality(T) = Cardinality(H)
  BY <1>1, <1>2, <1>3, OneToOne, Zenon
<1>. QED BY <1>4, Zenon DEF T

\* ... and a session as many opens.
LEMMA OpensOf ==
  ASSUME NEW H, IsFiniteSet(H), NEW s
  PROVE  /\ IsFiniteSet({<<s, h>> : h \in H})
         /\ Cardinality({<<s, h>> : h \in H}) = Cardinality(H)
<1>. DEFINE T == {<<s, h>> : h \in H}
            g == [h \in H |-> <<s, h>>]
<1>1. g \in [H -> T]
  BY Zenon
<1>2. \A a, b \in H : g[a] = g[b] => a = b
  OBVIOUS
<1>3. \A t \in T : \E h \in H : g[h] = t
  BY Zenon
<1>. HIDE DEF T, g
<1>4. IsFiniteSet(T) /\ Cardinality(T) = Cardinality(H)
  BY <1>1, <1>2, <1>3, OneToOne, Zenon
<1>. QED BY <1>4, Zenon DEF T

\* A larger set has no smaller cardinality.
LEMMA Fewer ==
  ASSUME NEW S, IsFiniteSet(S), NEW T, T \subseteq S
  PROVE  Cardinality(T) <= Cardinality(S) /\ Cardinality(T) \in Nat /\ Cardinality(S) \in Nat
BY FS_Subset, FS_CardinalityType, Zenon

\* A set that loses one of its elements.
LEMMA OneFewer ==
  ASSUME NEW S, IsFiniteSet(S), NEW x \in S, NEW T, T \subseteq S \ {x}
  PROVE  Cardinality(T) <= Cardinality(S) - 1
<1>1. IsFiniteSet(S \ {x}) /\ Cardinality(S \ {x}) = Cardinality(S) - 1
  BY FS_RemoveElement
<1>2. Cardinality(T) <= Cardinality(S \ {x})
  BY <1>1, Fewer, Zenon
<1>. QED BY <1>1, <1>2

\* A set that gains at most one element.
LEMMA OneMore ==
  ASSUME NEW S, IsFiniteSet(S), NEW x, NEW T, T \subseteq S \cup {x}
  PROVE  Cardinality(T) <= Cardinality(S) + 1
<1>1. IsFiniteSet(S \cup {x}) /\ Cardinality(S \cup {x}) = IF x \in S THEN Cardinality(S) ELSE Cardinality(S) + 1
  BY FS_AddElement, Zenon
<1>2. Cardinality(T) <= Cardinality(S \cup {x}) /\ Cardinality(T) \in Nat /\ Cardinality(S) \in Nat
  BY <1>1, Fewer, FS_CardinalityType, Zenon
<1>. QED BY <1>1, <1>2

-----------------------------------------------------------------------------
(* The tables of the ADO processes *)

\* conditional_bootstrap_ado_process adds one reference, on both sides.
LEMMA BootstrapInv ==
  ASSUME AdoInv, NEW h \in Handles, NEW n \in Names, Bootstrap(h, n), ado_enabled,
         UNCHANGED plugin_ref
  PROVE  /\ AdoInv'
         /\ \E q \in Names :
              /\ map_ado[h] \in {q, NoName}
              /\ map_ado' = [map_ado EXCEPT ![h] = q]
              /\ ado_ref' = [ado_ref EXCEPT ![q] = @ + 1]
         /\ map_count' = [map_count EXCEPT ![h] = @ + 1]
<1>0. AdoTypes /\ AdoRefsExact /\ CountInv /\ ProxyInv
  BY Zenon DEF AdoInv
<1>1. PICK q \in Names : q = IF map_ado[h] # NoName THEN map_ado[h] ELSE n
  BY <1>0, Zenon DEF AdoTypes
<1>2. /\ map_count[h] < MaxAdds
      /\ ado_ref' = [ado_ref EXCEPT ![q] = @ + 1]
      /\ ado_pool' = IF ado_ref[q] = 0 THEN [ado_pool EXCEPT ![q] = h] ELSE ado_pool
      /\ map_ado' = [map_ado EXCEPT ![h] = q]
      /\ map_count' = [map_count EXCEPT ![h] = @ + 1]
  BY <1>1, Zenon DEF Bootstrap
<1>3. map_ado[h] \in {q, NoName}
  BY <1>1, Zenon
<1>4. PICK c \in 1 .. MaxAdds : c = map_count[h] + 1
  BY <1>0, <1>2 DEF AdoTypes
<1>5. AdoTypes'
  BY <1>0, <1>2 DEF AdoTypes
<1>6. /\ map_ado'[h] = q /\ map_count'[h] = c /\ ado_ref'[q] = ado_ref[q] + 1
      /\ \A j \in Handles : j # h => map_ado'[j] = map_ado[j] /\ map_count'[j] = map_count[j]
      /\ \A m \in Names : m # q => ado_ref'[m] = ado_ref[m] /\ ado_pool'[m] = ado_pool[m]
      /\ ado_pool'[q] = IF ado_ref[q] = 0 THEN h ELSE ado_pool[q]
  BY <1>0, <1>2, <1>4 DEF AdoTypes
<1>7. CountInv'
  BY <1>0, <1>4, <1>6 DEF CountInv
<1>8. ProxyInv'
  BY <1>0, <1>6 DEF ProxyInv, AdoTypes
<1>9. ASSUME NEW m \in Names, m # q PROVE References(m)' = References(m)
  BY <1>3, <1>6, <1>9, Zenon DEF References
<1>10. References(q)' = References(q) \cup {<<h, c>>} /\ <<h, c>> \notin References(q)
  <2>1. ASSUME NEW j \in Handles, NEW i \in 1 .. MaxAdds
        PROVE  map_ado'[j] = q /\ i <= map_count'[j]
                 <=> (map_ado[j] = q /\ i <= map_count[j]) \/ (j = h /\ i = c)
    <3>1. CASE j # h
      BY <1>6, <3>1, Zenon
    <3>2. CASE j = h
      BY <1>0, <1>3, <1>4, <1>6, <3>2 DEF CountInv, AdoTypes
    <3>. QED BY <3>1, <3>2, Zenon
  <2>2. ~(c <= map_count[h])
    BY <1>0, <1>4 DEF AdoTypes
  <2>3. <<h, c>> \notin References(q)
    BY <2>2 DEF References
  <2>4. \A r : r \in References(q)' <=> r \in References(q) \cup {<<h, c>>}
    BY <2>1 DEF References
  <2>. QED BY <2>3, <2>4, Zenon
<1>11. AdoRefsExact'
  <2>1. IsFiniteSet(References(q))
    BY ReferencesFinite, Zenon
  <2>2. Cardinality(References(q) \cup {<<h, c>>}) = Cardinality(References(q)) + 1
    BY <1>10, <2>1, FS_AddElement, Zenon
  <2>3. References(q)' = References(q) \cup {<<h, c>>}
    BY <1>10, Zenon
  <2>4. ASSUME NEW m \in Names PROVE (ado_ref[m] = Cardinality(References(m)) + plugin_ref[m])'
    <3>1. CASE m = q
      <4>1. /\ ado_ref[q] = Cardinality(References(q)) + plugin_ref[q] /\ plugin_ref[q] \in Nat
            /\ Cardinality(References(q)) \in Nat
        BY <1>0, <2>1, FS_CardinalityType, Zenon DEF AdoRefsExact, AdoTypes
      <4>2. ado_ref'[q] = Cardinality(References(q)') + plugin_ref'[q]
        BY <1>6, <2>2, <2>3, <4>1
      <4>. QED BY <3>1, <4>2, Zenon
    <3>2. CASE m # q
      BY <1>0, <1>6, <1>9, <3>2 DEF AdoRefsExact
    <3>. QED BY <3>1, <3>2, Zenon
  <2>. QED BY <2>4, Zenon DEF AdoRefsExact
<1>12. AdoInv'
  BY <1>5, <1>7, <1>8, <1>11, Zenon DEF AdoInv
<1>. QED BY <1>2, <1>3, <1>12, Zenon

\* The release of handles that are in _ado_pool_map returns one reference of each, on
\* both sides.
LEMMA ReleaseInv ==
  ASSUME AdoInv, NEW H \in SUBSET Handles, \A h \in H : map_count[h] > 0, ReleaseAdo(H), ado_enabled,
         UNCHANGED plugin_ref
  PROVE  /\ AdoInv'
         /\ ado_ref' = [n \in Names |-> ado_ref[n] - Releases(H, n)]
         /\ map_count' = [h \in Handles |-> IF h \in H THEN map_count[h] - 1 ELSE map_count[h]]
         /\ \A h \in Handles : map_ado'[h] \in {map_ado[h], NoName}
<1>0. AdoTypes /\ AdoRefsExact /\ CountInv /\ ProxyInv
  BY Zenon DEF AdoInv
<1>1. /\ ado_ref' = [n \in Names |-> ado_ref[n] - Releases(H, n)]
      /\ ado_pool' = [n \in Names |-> IF LastRelease(H, n) THEN NoHandle ELSE ado_pool[n]]
      /\ map_ado' = [h \in Handles |-> IF h \in H /\ map_count[h] = 1 THEN NoName ELSE map_ado[h]]
      /\ map_count' = [h \in Handles |-> IF h \in H THEN map_count[h] - 1 ELSE map_count[h]]
  BY Zenon DEF ReleaseAdo
<1>2. map_ado' \in [Handles -> Names \cup {NoName}] /\ map_count' \in [Handles -> Nat]
      /\ ado_pool' \in [Names -> Handles \cup {NoHandle}]
  BY <1>0, <1>1 DEF AdoTypes
<1>3. CountInv'
  BY <1>0, <1>1 DEF CountInv, AdoTypes
<1>4. ASSUME NEW n \in Names
      PROVE  /\ Cardinality(References(n)') = Cardinality(References(n)) - Releases(H, n)
             /\ Cardinality(References(n)') \in Nat
             /\ Releases(H, n) \in Nat
  <2>. DEFINE Hn == {h \in H : map_ado[h] = n}
              R == {<<h, map_count[h]>> : h \in Hn}
  <2>1. IsFiniteSet(Hn)
    BY FS_Subset, Zenon
  <2>2. IsFiniteSet(R) /\ Cardinality(R) = Cardinality(Hn)
    BY <2>1, LastReferences, Zenon
  <2>3. \A h \in Hn : map_count[h] \in 1 .. MaxAdds
    BY <1>0 DEF CountInv, AdoTypes
  <2>4. R \subseteq References(n)
    BY <2>3 DEF References
  <2>5. ASSUME NEW j \in Handles, NEW i \in 1 .. MaxAdds
        PROVE  map_ado'[j] = n /\ i <= map_count'[j]
                 <=> (map_ado[j] = n /\ i <= map_count[j]) /\ ~(j \in H /\ map_ado[j] = n /\ i = map_count[j])
    BY <1>0, <1>1 DEF CountInv, AdoTypes
  <2>6. \A r : r \in References(n)' <=> r \in References(n) \ R
    BY <2>5 DEF References
  <2>7. References(n)' = References(n) \ R /\ References(n) \cap R = R
    BY <2>4, <2>6, Zenon
  <2>8. Cardinality(References(n)') = Cardinality(References(n)) - Cardinality(R) /\ IsFiniteSet(References(n)')
    <3>. HIDE DEF R
    <3>1. IsFiniteSet(References(n))
      BY ReferencesFinite, Zenon
    <3>2. IsFiniteSet(References(n) \ R)
          /\ Cardinality(References(n) \ R) = Cardinality(References(n)) - Cardinality(References(n) \cap R)
      BY <3>1, FS_Difference, Zenon
    <3>. QED BY <2>7, <3>2, Zenon
  <2>9. Cardinality(References(n)') \in Nat /\ Releases(H, n) \in Nat
    BY <2>1, <2>8, FS_CardinalityType, Zenon DEF Releases
  <2>. QED BY <2>2, <2>8, <2>9 DEF Releases
<1>5. \A n \in Names : /\ ado_ref'[n] = Cardinality(References(n)') + plugin_ref'[n]
                       /\ plugin_ref'[n] \in Nat
  <2>1. \A n \in Names : Cardinality(References(n)) \in Nat
    BY ReferencesFinite, FS_CardinalityType, Zenon
  <2>. QED BY <1>0, <1>1, <1>4, <2>1 DEF AdoRefsExact, AdoTypes
<1>6. AdoRefsExact'
  BY <1>5, Zenon DEF AdoRefsExact
<1>7. AdoTypes'
  BY <1>0, <1>1, <1>2, <1>4, <1>5 DEF AdoTypes
<1>8. ProxyInv'
  <2>. SUFFICES ASSUME NEW n \in Names PROVE ado_ref'[n] > 0 <=> ado_pool'[n] # NoHandle
    BY Zenon DEF ProxyInv
  <2>1. ado_ref'[n] \in Nat /\ ado_ref[n] \in Nat /\ Releases(H, n) \in Nat /\ ado_ref'[n] = ado_ref[n] - Releases(H, n)
    BY <1>0, <1>1, <1>4, <1>7 DEF AdoTypes
  <2>2. ado_pool'[n] = IF ado_ref[n] > 0 /\ ado_ref[n] = Releases(H, n) THEN NoHandle ELSE ado_pool[n]
    BY <1>1, Zenon DEF LastRelease
  <2>3. ado_ref[n] > 0 <=> ado_pool[n] # NoHandle
    BY <1>0, Zenon DEF ProxyInv
  <2>. QED BY <2>1, <2>2, <2>3
<1>9. \A h \in Handles : map_ado'[h] \in {map_ado[h], NoName}
  BY <1>1, Zenon
<1>. QED BY <1>1, <1>3, <1>6, <1>7, <1>8, <1>9, Zenon DEF AdoInv

-----------------------------------------------------------------------------
(* The users of a proxy *)

\* An open takes the reference that its session, and its proxy's event, rely on.
LEMMA GainUsers ==
  ASSUME IInv, NEW s \in Sessions, NEW h \in Handles, NEW n \in Names, Bootstrap(h, n), ado_enabled,
         \A u \in Sessions, j \in Handles : refs'[u][j] > 0 => refs[u][j] > 0 \/ (u = s /\ j = h),
         event' = event, UNCHANGED plugin_ref
  PROVE  UsersInv'
<1>0. AdoInv /\ AdoTypes /\ CountInv /\ SharersCounted /\ EventsCovered /\ event \in [Names -> Nat]
  BY Zenon DEF IInv, AdoInv, UsersInv, StoreTypes
<1>1. PICK q \in Names : /\ map_ado[h] \in {q, NoName}
                         /\ map_ado' = [map_ado EXCEPT ![h] = q]
                         /\ ado_ref' = [ado_ref EXCEPT ![q] = @ + 1]
  BY <1>0, BootstrapInv, Zenon
<1>2. map_count' = [map_count EXCEPT ![h] = @ + 1]
  BY <1>0, BootstrapInv, Zenon
<1>3. /\ map_ado'[h] = q /\ map_count'[h] = map_count[h] + 1 /\ ado_ref'[q] = ado_ref[q] + 1
      /\ \A j \in Handles : j # h => map_ado'[j] = map_ado[j] /\ map_count'[j] = map_count[j]
      /\ \A m \in Names : m # q => ado_ref'[m] = ado_ref[m]
      /\ \A j \in Handles : map_count[j] \in Nat
      /\ \A m \in Names : ado_ref[m] \in Nat /\ event[m] \in Nat /\ plugin_ref[m] \in Nat
  BY <1>0, <1>1, <1>2 DEF AdoTypes
<1>4. ASSUME NEW j \in Handles PROVE Cardinality(Sharers(j)') <= map_count'[j]
  <2>0. Cardinality(Sharers(j)) <= map_count[j] /\ Cardinality(Sharers(j)) \in Nat /\ IsFiniteSet(Sharers(j))
    BY <1>0, UsersFinite, Zenon DEF SharersCounted
  <2>1. CASE j = h
    <3>1. Sharers(j)' \subseteq Sharers(j) \cup {s}
      BY Zenon DEF Sharers
    <3>2. Cardinality(Sharers(j)') <= Cardinality(Sharers(j)) + 1 /\ Cardinality(Sharers(j)') \in Nat
      <4>1. IsFiniteSet(Sharers(j) \cup {s})
        BY <2>0, FS_AddElement, Zenon
      <4>. QED BY <2>0, <3>1, <4>1, OneMore, Fewer, Zenon
    <3>. QED BY <1>3, <2>0, <2>1, <3>2
  <2>2. CASE j # h
    <3>1. Sharers(j)' \subseteq Sharers(j)
      BY <2>2, Zenon DEF Sharers
    <3>2. Cardinality(Sharers(j)') <= Cardinality(Sharers(j)) /\ Cardinality(Sharers(j)') \in Nat
      BY <2>0, <3>1, Fewer, Zenon
    <3>. QED BY <1>3, <2>0, <2>2, <3>2
  <2>. QED BY <2>1, <2>2, Zenon
<1>5. \A u \in Sessions : refs[u][h] > 0 => map_ado[h] = q
  <2>. SUFFICES ASSUME NEW u \in Sessions, refs[u][h] > 0, map_ado[h] = NoName PROVE FALSE
    BY <1>1, Zenon
  <2>1. Cardinality(Sharers(h)) <= map_count[h] /\ map_count[h] = 0
    BY <1>0, Zenon DEF SharersCounted, CountInv
  <2>2. Cardinality(Sharers(h)) = 0
    BY <2>1, UsersFinite
  <2>3. Sharers(h) = {}
    BY <2>2, UsersFinite, FS_EmptySet, Zenon
  <2>. QED BY <2>3, Zenon DEF Sharers
<1>6. ASSUME NEW m \in Names PROVE event'[m] + Cardinality(Users(m)') <= ado_ref'[m] - plugin_ref'[m]
  <2>0. event[m] + Cardinality(Users(m)) <= ado_ref[m] - plugin_ref[m] /\ Cardinality(Users(m)) \in Nat /\ IsFiniteSet(Users(m))
    BY <1>0, UsersFinite, Zenon DEF EventsCovered
  <2>1. CASE m = q
    <3>1. Users(m)' \subseteq Users(m) \cup {<<s, h>>}
      BY <1>3, <1>5, <2>1 DEF Users
    <3>2. Cardinality(Users(m)') <= Cardinality(Users(m)) + 1 /\ Cardinality(Users(m)') \in Nat
      <4>1. IsFiniteSet(Users(m) \cup {<<s, h>>})
        BY <2>0, FS_AddElement, Zenon
      <4>. QED BY <2>0, <3>1, <4>1, OneMore, Fewer, Zenon
    <3>. QED BY <1>3, <2>0, <2>1, <3>2
  <2>2. CASE m # q
    <3>1. Users(m)' \subseteq Users(m)
      BY <1>3, <2>2 DEF Users
    <3>2. Cardinality(Users(m)') <= Cardinality(Users(m)) /\ Cardinality(Users(m)') \in Nat
      BY <2>0, <3>1, Fewer, Zenon
    <3>. QED BY <1>3, <2>0, <2>2, <3>2
  <2>. QED BY <2>1, <2>2, Zenon
<1>. QED BY <1>4, <1>6, Zenon DEF UsersInv, SharersCounted, EventsCovered

\* A last close, and the end of a session, return the references of the opens they end.
LEMMA LoseUsers ==
  ASSUME IInv, NEW s \in Sessions, NEW H \in SUBSET Handles, \A h \in H : refs[s][h] > 0, ReleaseAdo(H),
         ado_enabled, event' = event, UNCHANGED plugin_ref,
         \A u \in Sessions, j \in Handles : refs'[u][j] > 0 => refs[u][j] > 0 /\ ~(u = s /\ j \in H)
  PROVE  AdoInv' /\ UsersInv'
<1>0. AdoInv /\ AdoTypes /\ SharersCounted /\ EventsCovered /\ event \in [Names -> Nat]
  BY Zenon DEF IInv, AdoInv, UsersInv, StoreTypes
<1>1. ASSUME NEW h \in H PROVE map_count[h] > 0
  <2>1. s \in Sharers(h)
    BY Zenon DEF Sharers
  <2>2. Cardinality(Sharers(h)) # 0
    BY <2>1, UsersFinite, FS_EmptySet, Zenon
  <2>3. Cardinality(Sharers(h)) <= map_count[h] /\ map_count[h] \in Nat /\ Cardinality(Sharers(h)) \in Nat
    BY <1>0, UsersFinite, Zenon DEF SharersCounted, AdoTypes
  <2>. QED BY <2>2, <2>3
<1>2. /\ AdoInv' /\ ado_ref' = [n \in Names |-> ado_ref[n] - Releases(H, n)]
      /\ map_count' = [h \in Handles |-> IF h \in H THEN map_count[h] - 1 ELSE map_count[h]]
      /\ \A h \in Handles : map_ado'[h] \in {map_ado[h], NoName}
  BY <1>0, <1>1, ReleaseInv, Zenon
<1>3. ASSUME NEW j \in Handles PROVE Cardinality(Sharers(j)') <= map_count'[j]
  <2>0. /\ Cardinality(Sharers(j)) <= map_count[j] /\ Cardinality(Sharers(j)) \in Nat
        /\ IsFiniteSet(Sharers(j)) /\ map_count[j] \in Nat
    BY <1>0, UsersFinite, Zenon DEF SharersCounted, AdoTypes
  <2>1. Sharers(j)' \subseteq Sharers(j)
    BY Zenon DEF Sharers
  <2>2. Cardinality(Sharers(j)') <= Cardinality(Sharers(j)) /\ Cardinality(Sharers(j)') \in Nat
    BY <2>0, <2>1, Fewer, Zenon
  <2>3. CASE j \in H
    <3>1. s \in Sharers(j) /\ Sharers(j)' \subseteq Sharers(j) \ {s}
      BY <2>3, Zenon DEF Sharers
    <3>2. Cardinality(Sharers(j)') <= Cardinality(Sharers(j)) - 1
      BY <2>0, <3>1, OneFewer, Zenon
    <3>. QED BY <1>2, <2>0, <2>2, <2>3, <3>2
  <2>4. CASE j \notin H
    BY <1>2, <2>0, <2>2, <2>4
  <2>. QED BY <2>3, <2>4, Zenon
<1>4. ASSUME NEW m \in Names PROVE event'[m] + Cardinality(Users(m)') <= ado_ref'[m] - plugin_ref'[m]
  <2>. DEFINE Hm == {h \in H : map_ado[h] = m}
              D == {<<s, h>> : h \in Hm}
  <2>0. /\ event[m] + Cardinality(Users(m)) <= ado_ref[m] - plugin_ref[m] /\ Cardinality(Users(m)) \in Nat
        /\ IsFiniteSet(Users(m)) /\ event[m] \in Nat /\ ado_ref[m] \in Nat /\ plugin_ref[m] \in Nat
    BY <1>0, UsersFinite, Zenon DEF EventsCovered, AdoTypes
  <2>1. IsFiniteSet(Hm)
    BY FS_Subset, Zenon
  <2>2. Cardinality(D) = Cardinality(Hm) /\ Cardinality(Hm) \in Nat
    BY <2>1, OpensOf, FS_CardinalityType, Zenon
  <2>3. Users(m) \cap D = D
    BY DEF Users
  <2>4. Users(m)' \subseteq Users(m) \ D
    <3>1. ASSUME NEW u \in Sessions, NEW j \in Handles, refs'[u][j] > 0, map_ado'[j] = m
          PROVE  refs[u][j] > 0 /\ map_ado[j] = m /\ ~(u = s /\ j \in H)
      BY <1>2, <3>1, Zenon
    <3>. QED BY <3>1 DEF Users
  <2>. HIDE DEF D
  <2>5. IsFiniteSet(Users(m) \ D) /\ Cardinality(Users(m) \ D) = Cardinality(Users(m)) - Cardinality(D)
    BY <2>0, <2>3, FS_Difference, Zenon
  <2>6. Cardinality(Users(m)') <= Cardinality(Users(m) \ D) /\ Cardinality(Users(m)') \in Nat
    BY <2>4, <2>5, Fewer, Zenon
  <2>7. ado_ref'[m] = ado_ref[m] - Cardinality(Hm)
    BY <1>2, Zenon DEF Releases
  <2>. HIDE DEF Hm
  <2>. QED BY <2>0, <2>2, <2>5, <2>6, <2>7
<1>. QED BY <1>2, <1>3, <1>4, Zenon DEF UsersInv, SharersCounted, EventsCovered

\* A step that leaves the ADO tables alone keeps their invariant.
LEMMA SameAdo == ASSUME AdoInv, UNCHANGED ado, UNCHANGED plugin_ref PROVE AdoInv'
<1>0. AdoTypes /\ AdoRefsExact /\ CountInv /\ ProxyInv
  BY Zenon DEF AdoInv
<1>1. UNCHANGED <<ado_ref, ado_pool, map_ado, map_count>>
  BY Zenon DEF ado
<1>2. AdoTypes' /\ ProxyInv'
  BY <1>0, <1>1, Zenon DEF AdoTypes, ProxyInv
<1>3. CountInv'
  BY <1>0, <1>1, Zenon DEF CountInv
<1>4. \A n \in Names : References(n)' = References(n)
  BY <1>1, Zenon DEF References
<1>5. AdoRefsExact'
  BY <1>0, <1>1, <1>4, Zenon DEF AdoRefsExact
<1>. QED BY <1>2, <1>3, <1>5, Zenon DEF AdoInv

\* A step that adds no open and no event, and leaves the ADO tables alone.
LEMMA KeepUsers ==
  ASSUME IInv, UNCHANGED <<ado, ado_enabled>>, UNCHANGED plugin_ref,
         \A u \in Sessions, j \in Handles : refs'[u][j] > 0 => refs[u][j] > 0,
         \A m \in Names : event'[m] \in Nat /\ event'[m] <= event[m]
  PROVE  AdoInv' /\ UsersInv'
<1>0. AdoInv /\ AdoTypes /\ SharersCounted /\ EventsCovered /\ event \in [Names -> Nat]
  BY Zenon DEF IInv, AdoInv, UsersInv, StoreTypes
<1>1. UNCHANGED <<ado_ref, ado_pool, map_ado, map_count>>
  BY Zenon DEF ado
<1>2. AdoInv'
  BY <1>0, SameAdo, Zenon
<1>3. ASSUME NEW j \in Handles, ado_enabled PROVE Cardinality(Sharers(j)') <= map_count[j]
  <2>1. Sharers(j)' \subseteq Sharers(j)
    BY Zenon DEF Sharers
  <2>2. /\ Cardinality(Sharers(j)') <= Cardinality(Sharers(j)) /\ Cardinality(Sharers(j)') \in Nat
        /\ Cardinality(Sharers(j)) \in Nat /\ map_count[j] \in Nat
        /\ Cardinality(Sharers(j)) <= map_count[j]
    BY <1>0, <1>3, <2>1, UsersFinite, Fewer, Zenon DEF SharersCounted, AdoTypes
  <2>. QED BY <2>2
<1>4. ASSUME NEW m \in Names PROVE event'[m] + Cardinality(Users(m)') <= ado_ref[m] - plugin_ref[m]
  <2>1. Users(m)' \subseteq Users(m)
    BY <1>1 DEF Users
  <2>2. /\ Cardinality(Users(m)') <= Cardinality(Users(m)) /\ Cardinality(Users(m)') \in Nat
        /\ Cardinality(Users(m)) \in Nat /\ ado_ref[m] \in Nat /\ event[m] \in Nat /\ plugin_ref[m] \in Nat
        /\ event[m] + Cardinality(Users(m)) <= ado_ref[m] - plugin_ref[m]
    BY <1>0, <2>1, UsersFinite, Fewer, Zenon DEF EventsCovered, AdoTypes
  <2>. QED BY <2>2
<1>. QED BY <1>1, <1>2, <1>3, <1>4, Zenon DEF UsersInv, SharersCounted, EventsCovered

\* Without ADO processes, the ADO tables stay empty whatever is opened or closed.
LEMMA WithoutAdo ==
  ASSUME IInv, ~ado_enabled, UNCHANGED <<ado, event, ado_enabled>>, UNCHANGED plugin_ref
  PROVE  AdoInv' /\ UsersInv' /\ NoAdo'
<1>0. AdoInv /\ AdoTypes /\ NoAdo
  BY Zenon DEF IInv, AdoInv, StoreInv
<1>1. UNCHANGED <<ado_ref, ado_pool, map_ado, map_count>>
  BY Zenon DEF ado
<1>2. AdoInv' /\ NoAdo'
  BY <1>0, <1>1, SameAdo, Zenon DEF NoAdo
<1>3. ASSUME NEW m \in Names PROVE event'[m] + Cardinality(Users(m)') <= ado_ref'[m] - plugin_ref'[m]
  <2>1. Users(m)' = {}
    BY <1>0, <1>1 DEF Users, NoAdo
  <2>2. Cardinality(Users(m)') = 0
    BY <2>1, FS_EmptySet, Zenon
  <2>3. ado_ref[m] = Cardinality(References(m)) + plugin_ref[m] /\ Cardinality(References(m)) \in Nat
    BY <1>0, ReferencesFinite, FS_CardinalityType, Zenon DEF AdoInv, AdoRefsExact
  <2>. QED BY <1>0, <1>1, <2>2, <2>3 DEF NoAdo, AdoTypes
<1>. QED BY <1>2, <1>3, Zenon DEF UsersInv, SharersCounted, EventsCovered

\* A POOL_DELETE that is under way has its proxy, created with a handle of the store.
LEMMA EventProxy ==
  ASSUME IInv, NEW n \in Names, event[n] > 0
  PROVE  ado_enabled /\ ado_ref[n] > 0 /\ ado_pool[n] \in Handles
<1>1. /\ event[n] + Cardinality(Users(n)) <= ado_ref[n] - plugin_ref[n] /\ Cardinality(Users(n)) \in Nat
      /\ event[n] \in Nat /\ ado_ref[n] \in Nat /\ plugin_ref[n] \in Nat
  BY UsersFinite, Zenon DEF IInv, UsersInv, EventsCovered, StoreTypes, AdoInv, AdoTypes
<1>2. ado_ref[n] > 0
  BY <1>1
<1>3. ado_pool[n] \in Handles
  BY <1>2, Zenon DEF IInv, AdoInv, ProxyInv, AdoTypes
<1>4. ado_enabled
  <2>. SUFFICES ASSUME ~ado_enabled PROVE FALSE
    BY Zenon
  <2>1. event[n] = 0
    BY Zenon DEF IInv, StoreInv, NoAdo
  <2>. QED BY <2>1
<1>. QED BY <1>2, <1>3, <1>4, Zenon

\* A delete by handle turns the session's open into an event of the same proxy.
LEMMA DeleteUsers ==
  ASSUME IInv, NEW s \in Sessions, NEW h \in Handles, refs[s][h] > 0, ado_enabled, UNCHANGED <<ado, ado_enabled>>,
         UNCHANGED plugin_ref, event' = [event EXCEPT ![map_ado[h]] = @ + 1],
         \A u \in Sessions, j \in Handles : refs'[u][j] > 0 => refs[u][j] > 0 /\ ~(u = s /\ j = h)
  PROVE  AdoInv' /\ UsersInv' /\ event' \in [Names -> Nat]
<1>0. AdoInv /\ AdoTypes /\ SharersCounted /\ EventsCovered /\ event \in [Names -> Nat]
  BY Zenon DEF IInv, AdoInv, UsersInv, StoreTypes
<1>1. UNCHANGED <<ado_ref, ado_pool, map_ado, map_count>>
  BY Zenon DEF ado
<1>2. AdoInv'
  BY <1>0, SameAdo, Zenon
<1>3. ASSUME NEW j \in Handles PROVE Cardinality(Sharers(j)') <= map_count[j]
  <2>1. Sharers(j)' \subseteq Sharers(j)
    BY Zenon DEF Sharers
  <2>2. /\ Cardinality(Sharers(j)') <= Cardinality(Sharers(j)) /\ Cardinality(Sharers(j)') \in Nat
        /\ Cardinality(Sharers(j)) \in Nat /\ map_count[j] \in Nat
        /\ Cardinality(Sharers(j)) <= map_count[j]
    BY <1>0, <2>1, UsersFinite, Fewer, Zenon DEF SharersCounted, AdoTypes
  <2>. QED BY <2>2
<1>4. event' \in [Names -> Nat]
  <2>1. CASE map_ado[h] \in Names
    BY <1>0, <2>1
  <2>2. CASE map_ado[h] \notin Names
    <3>1. event' = event
      BY <1>0, <2>2
    <3>. QED BY <1>0, <3>1, Zenon
  <2>. QED BY <2>1, <2>2, Zenon
<1>5. ASSUME NEW m \in Names PROVE event'[m] + Cardinality(Users(m)') <= ado_ref[m] - plugin_ref[m]
  <2>0. /\ event[m] + Cardinality(Users(m)) <= ado_ref[m] - plugin_ref[m] /\ Cardinality(Users(m)) \in Nat
        /\ IsFiniteSet(Users(m)) /\ event[m] \in Nat /\ ado_ref[m] \in Nat /\ plugin_ref[m] \in Nat
    BY <1>0, UsersFinite, Zenon DEF EventsCovered, AdoTypes
  <2>1. Users(m)' \subseteq Users(m)
    BY <1>1 DEF Users
  <2>2. Cardinality(Users(m)') <= Cardinality(Users(m)) /\ Cardinality(Users(m)') \in Nat
    BY <2>0, <2>1, Fewer, Zenon
  <2>3. CASE map_ado[h] = m
    <3>1. <<s, h>> \in Users(m) /\ Users(m)' \subseteq Users(m) \ {<<s, h>>}
      BY <1>1, <2>3 DEF Users
    <3>2. Cardinality(Users(m)') <= Cardinality(Users(m)) - 1
      BY <2>0, <3>1, OneFewer, Zenon
    <3>3. event'[m] = event[m] + 1
      BY <1>0, <2>3
    <3>. QED BY <2>0, <2>2, <3>2, <3>3
  <2>4. CASE map_ado[h] # m
    <3>1. event'[m] = event[m]
      BY <1>0, <2>4
    <3>. QED BY <2>0, <2>2, <3>1
  <2>. QED BY <2>3, <2>4, Zenon
<1>. QED BY <1>1, <1>2, <1>3, <1>4, <1>5, Zenon DEF UsersInv, SharersCounted, EventsCovered

-----------------------------------------------------------------------------
(* The operations *)

\* What the store and the sessions promise, from the parts.
LEMMA Parts == IInv => /\ StoreTypes /\ AdoInv /\ UsersInv /\ StoreInv
                       /\ OpenPoolsExist /\ HandleBacked /\ NoAdo
BY Zenon DEF IInv, StoreInv

\* OP_CREATE and OP_OPEN with a handle the store returns: it is no other session's.
LEMMA OpenNew ==
  ASSUME IInv, NEW s \in Sessions, NEW h \in Handles, NEW n \in Names,
         alive, ~IsOpen(h), pools' = pools \cup {n}, Register(s, h, n), Bootstrap(h, n),
         UNCHANGED <<event, alive, ado_enabled>>, UNCHANGED plugin_ref
  PROVE  IInv'
<1>0. StoreTypes /\ AdoInv /\ UsersInv /\ OpenPoolsExist /\ HandleBacked /\ NoAdo
  BY Parts, Zenon
<1>1. /\ opened' = [opened EXCEPT ![h] = n]
      /\ refs' = [refs EXCEPT ![s][h] = 1]
      /\ n2p' = [n2p EXCEPT ![s][n] = h]
      /\ p2n' = [p2n EXCEPT ![s][h] = n]
      /\ held[s][h] < MaxRefs
      /\ held' = [held EXCEPT ![s][h] = @ + 1]
  BY Zenon DEF Register
<1>2. /\ refs' \in [Sessions -> [Handles -> 0 .. MaxRefs]]
      /\ refs'[s][h] = 1
      /\ \A u \in Sessions, j \in Handles : u # s \/ j # h => refs'[u][j] = refs[u][j]
  BY <1>0, <1>1 DEF StoreTypes
<1>3. n2p' \in [Sessions -> [Names -> Handles \cup {NoHandle}]]
      /\ p2n' \in [Sessions -> [Handles -> Names \cup {NoName}]]
  BY <1>0, <1>1 DEF StoreTypes
<1>4. held' \in [Sessions -> [Handles -> 0 .. MaxRefs]]
  BY <1>0, <1>1 DEF StoreTypes
<1>5. opened' \in [Handles -> Names \cup {NoName}] /\ opened'[h] = n
      /\ \A j \in Handles : j # h => opened'[j] = opened[j]
  BY <1>0, <1>1, Zenon DEF StoreTypes
<1>6. StoreTypes'
  BY <1>0, <1>2, <1>3, <1>4, <1>5, Zenon DEF StoreTypes
<1>7. OpenPoolsExist'
  BY <1>0, <1>5, Zenon DEF OpenPoolsExist, IsOpen
<1>8. CASE ado_enabled
  <2>1. AdoInv'
    BY <1>0, <1>8, BootstrapInv, Zenon
  <2>2. \A u \in Sessions, j \in Handles : refs'[u][j] > 0 => refs[u][j] > 0 \/ (u = s /\ j = h)
    BY <1>2, Zenon
  <2>3. UsersInv'
    BY <1>8, <2>2, GainUsers, Zenon
  <2>4. HandleBacked' /\ NoAdo'
    BY <1>8, Zenon DEF HandleBacked, NoAdo
  <2>. QED BY <1>6, <1>7, <2>1, <2>3, <2>4, Zenon DEF IInv, StoreInv
<1>9. CASE ~ado_enabled
  <2>1. AdoInv' /\ UsersInv' /\ NoAdo'
    BY <1>9, WithoutAdo, Zenon DEF Bootstrap
  <2>2. \A u \in Sessions : ~(refs[u][h] > 0)
    BY <1>0, <1>9, Zenon DEF HandleBacked, StoreTypes, IsOpen
  <2>3. ASSUME NEW u \in Sessions, refs[u][h] \in Nat PROVE refs[u][h] = 0
    BY <2>2, <2>3
  <2>4. \A u \in Sessions : refs[u][h] = 0
    BY <1>0, <2>3 DEF StoreTypes
  <2>5. ASSUME NEW u \in Sessions, NEW j \in Handles, refs'[u][j] > 0
        PROVE  opened'[j] \in pools' /\ \A w \in Sessions \ {u} : refs'[w][j] = 0
    <3>1. CASE j = h
      <4>1. u = s
        BY <1>2, <2>2, <2>5, <3>1, Zenon
      <4>. QED BY <1>2, <1>5, <2>4, <3>1, <4>1, Zenon
    <3>2. CASE j # h
      <4>1. refs[u][j] > 0
        BY <1>2, <2>5, <3>2, Zenon
      <4>2. opened[j] \in pools /\ \A w \in Sessions \ {u} : refs[w][j] = 0
        BY <1>0, <1>9, <4>1, Zenon DEF HandleBacked
      <4>. QED BY <1>2, <1>5, <3>2, <4>2, Zenon
    <3>. QED BY <3>1, <3>2, Zenon
  <2>6. HandleBacked'
    BY <2>5, Zenon DEF HandleBacked
  <2>. QED BY <1>6, <1>7, <2>1, <2>6, Zenon DEF IInv, StoreInv
<1>. QED BY <1>8, <1>9, Zenon

\* OP_CREATE and OP_OPEN of a pool the session has open: the same opens, and a reference
\* more to the proxy.
LEMMA OpenAgain ==
  ASSUME IInv, NEW s \in Sessions, NEW h \in Handles, NEW n \in Names,
         refs' \in [Sessions -> [Handles -> 0 .. MaxRefs]],
         held' \in [Sessions -> [Handles -> 0 .. MaxRefs]],
         \A u \in Sessions, j \in Handles : refs'[u][j] > 0 <=> refs[u][j] > 0,
         Bootstrap(h, n), UNCHANGED <<pools, opened, maps, event, alive, ado_enabled>>,
         UNCHANGED plugin_ref
  PROVE  IInv'
<1>0. StoreTypes /\ AdoInv /\ UsersInv /\ OpenPoolsExist /\ HandleBacked /\ NoAdo
  BY Parts, Zenon
<1>1. UNCHANGED <<pools, opened, n2p, p2n, event, alive, ado_enabled>>
  BY Zenon DEF maps
<1>2. StoreTypes'
  BY <1>0, <1>1, Zenon DEF StoreTypes
<1>3. OpenPoolsExist'
  BY <1>0, <1>1, Zenon DEF OpenPoolsExist, IsOpen
<1>4. HandleBacked'
  <2>1. ASSUME NEW u \in Sessions, NEW j \in Handles, refs[u][j] = 0 PROVE refs'[u][j] = 0
    BY <2>1, <1>0 DEF StoreTypes
  <2>2. ASSUME alive', ~ado_enabled', NEW u \in Sessions, NEW j \in Handles, refs'[u][j] > 0
        PROVE  opened'[j] \in pools' /\ \A w \in Sessions \ {u} : refs'[w][j] = 0
    <3>1. alive /\ ~ado_enabled /\ refs[u][j] > 0
      BY <1>1, <2>2
    <3>2. opened[j] \in pools /\ \A w \in Sessions \ {u} : refs[w][j] = 0
      BY <1>0, <3>1, Zenon DEF HandleBacked
    <3>. QED BY <1>1, <2>1, <3>2, Zenon
  <2>. QED BY <2>2, Zenon DEF HandleBacked
<1>5. CASE ado_enabled
  <2>1. AdoInv' /\ UsersInv'
    BY <1>0, <1>1, <1>5, BootstrapInv, GainUsers, Zenon
  <2>2. NoAdo'
    BY <1>1, <1>5, Zenon DEF NoAdo
  <2>. QED BY <1>2, <1>3, <1>4, <2>1, <2>2, Zenon DEF IInv, StoreInv
<1>6. CASE ~ado_enabled
  <2>1. AdoInv' /\ UsersInv' /\ NoAdo'
    BY <1>1, <1>6, WithoutAdo, Zenon DEF Bootstrap
  <2>. QED BY <1>2, <1>3, <1>4, <2>1, Zenon DEF IInv, StoreInv
<1>. QED BY <1>5, <1>6, Zenon

\* OP_CREATE of a pool the session has not open.
LEMMA CreatePoolInv ==
  ASSUME IInv, NEW s \in Sessions, NEW n \in Names, NEW h \in Handles, NEW create_only \in BOOLEAN,
         CreatePool(s, n, h, create_only), UNCHANGED ado_enabled, UNCHANGED plugin_ref
  PROVE  IInv'
BY OpenNew, Zenon DEF CreatePool

\* OP_OPEN of a pool the session has not open.
LEMMA OpenPoolInv ==
  ASSUME IInv, NEW s \in Sessions, NEW n \in Names, NEW h \in Handles,
         OpenPool(s, n, h), UNCHANGED ado_enabled, UNCHANGED plugin_ref
  PROVE  IInv'
<1>1. pools' = pools \cup {n}
  BY Zenon DEF OpenPool
<1>. QED BY <1>1, OpenNew, Zenon DEF OpenPool

\* OP_CREATE of a pool the session has open, refused or not.
LEMMA CreateOpenPoolInv ==
  ASSUME IInv, NEW s \in Sessions, NEW n \in Names, NEW h \in Handles, NEW create_only \in BOOLEAN,
         CreateOpenPool(s, n, h, create_only), UNCHANGED ado_enabled, UNCHANGED plugin_ref
  PROVE  IInv'
<1>0. StoreTypes /\ refs[s][h] > 0
  BY Parts, Zenon DEF CreateOpenPool, OpenAs
<1>1. /\ Bootstrap(h, n) /\ UNCHANGED <<pools, opened, maps, held, event, alive>>
      /\ IF create_only THEN UNCHANGED refs
         ELSE refs[s][h] < MaxRefs /\ refs' = [refs EXCEPT ![s][h] = @ + 1]
  BY Zenon DEF CreateOpenPool
<1>2. /\ refs' \in [Sessions -> [Handles -> 0 .. MaxRefs]]
      /\ \A u \in Sessions, j \in Handles : refs'[u][j] > 0 <=> refs[u][j] > 0
  <2>1. CASE create_only
    BY <1>0, <1>1, <2>1, Zenon DEF StoreTypes
  <2>2. CASE ~create_only
    <3>1. refs[s][h] < MaxRefs /\ refs' = [refs EXCEPT ![s][h] = @ + 1]
      BY <1>1, <2>2, Zenon
    <3>. QED BY <1>0, <3>1 DEF StoreTypes
  <2>. QED BY <2>1, <2>2, Zenon
<1>3. held' \in [Sessions -> [Handles -> 0 .. MaxRefs]]
  BY <1>0, <1>1, Zenon DEF StoreTypes
<1>. QED BY <1>1, <1>2, <1>3, OpenAgain, Zenon

\* OP_OPEN of a pool the session has open.
LEMMA ReopenPoolInv ==
  ASSUME IInv, NEW s \in Sessions, NEW n \in Names, NEW h \in Handles,
         ReopenPool(s, n, h), UNCHANGED ado_enabled, UNCHANGED plugin_ref
  PROVE  IInv'
<1>0. StoreTypes /\ refs[s][h] > 0
  BY Parts, Zenon DEF ReopenPool, OpenAs
<1>1. /\ Bootstrap(h, n) /\ UNCHANGED <<pools, opened, maps, event, alive>>
      /\ refs[s][h] < MaxRefs /\ held[s][h] < MaxRefs
      /\ refs' = [refs EXCEPT ![s][h] = @ + 1] /\ held' = [held EXCEPT ![s][h] = @ + 1]
  BY Zenon DEF ReopenPool
<1>2. /\ refs' \in [Sessions -> [Handles -> 0 .. MaxRefs]]
      /\ \A u \in Sessions, j \in Handles : refs'[u][j] > 0 <=> refs[u][j] > 0
  BY <1>0, <1>1 DEF StoreTypes
<1>3. held' \in [Sessions -> [Handles -> 0 .. MaxRefs]]
  BY <1>0, <1>1 DEF StoreTypes
<1>. QED BY <1>1, <1>2, <1>3, OpenAgain, Zenon

\* release_pool_reference takes one reference away, and keeps the maps well-formed.
LEMMA Released ==
  ASSUME StoreTypes, NEW s \in Sessions, NEW h \in Handles, refs[s][h] > 0, held[s][h] > 0,
         ReleaseReference(s, h), held' = [held EXCEPT ![s][h] = @ - 1]
  PROVE  /\ refs' \in [Sessions -> [Handles -> 0 .. MaxRefs]]
         /\ refs'[s][h] = refs[s][h] - 1
         /\ \A u \in Sessions, j \in Handles : u # s \/ j # h => refs'[u][j] = refs[u][j]
         /\ \A u \in Sessions, j \in Handles : refs'[u][j] > 0 => refs[u][j] > 0
         /\ n2p' \in [Sessions -> [Names -> Handles \cup {NoHandle}]]
         /\ p2n' \in [Sessions -> [Handles -> Names \cup {NoName}]]
         /\ held' \in [Sessions -> [Handles -> 0 .. MaxRefs]]
<1>1. refs' = [refs EXCEPT ![s][h] = @ - 1]
  BY Zenon DEF ReleaseReference
<1>2. /\ refs' \in [Sessions -> [Handles -> 0 .. MaxRefs]]
      /\ refs'[s][h] = refs[s][h] - 1
      /\ \A u \in Sessions, j \in Handles : u # s \/ j # h => refs'[u][j] = refs[u][j]
  BY <1>1 DEF StoreTypes
<1>3. \A u \in Sessions, j \in Handles : refs'[u][j] > 0 => refs[u][j] > 0
  BY <1>2, Zenon
<1>4. n2p' \in [Sessions -> [Names -> Handles \cup {NoHandle}]]
  <2>1. CASE refs[s][h] = 1 /\ p2n[s][h] \in Names
    <3>1. n2p' = [n2p EXCEPT ![s][p2n[s][h]] = NoHandle]
      BY <2>1, Zenon DEF ReleaseReference
    <3>. QED BY <2>1, <3>1 DEF StoreTypes
  <2>2. CASE ~(refs[s][h] = 1 /\ p2n[s][h] \in Names)
    BY <2>2, Zenon DEF ReleaseReference, StoreTypes
  <2>. QED BY <2>1, <2>2, Zenon
<1>5. p2n' \in [Sessions -> [Handles -> Names \cup {NoName}]]
  <2>1. CASE refs[s][h] = 1
    <3>1. p2n' = [p2n EXCEPT ![s][h] = NoName]
      BY <2>1, Zenon DEF ReleaseReference
    <3>. QED BY <3>1 DEF StoreTypes
  <2>2. CASE refs[s][h] # 1
    BY <2>2, Zenon DEF ReleaseReference, StoreTypes
  <2>. QED BY <2>1, <2>2, Zenon
<1>6. held' \in [Sessions -> [Handles -> 0 .. MaxRefs]]
  BY DEF StoreTypes
<1>. QED BY <1>2, <1>3, <1>4, <1>5, <1>6, Zenon

\* Without ADO processes, the handle that is closed for real is nobody else's.
LEMMA LastClosed ==
  ASSUME IInv, alive, ~ado_enabled, NEW s \in Sessions, NEW h \in Handles, refs[s][h] > 0,
         ~(refs'[s][h] > 0),
         \A u \in Sessions, j \in Handles : u # s \/ j # h => refs'[u][j] = refs[u][j],
         opened' = [opened EXCEPT ![h] = NoName],
         \A j \in Handles : j # h /\ opened[j] \in pools => opened[j] \in pools'
  PROVE  HandleBacked'
<1>0. StoreTypes /\ HandleBacked
  BY Parts, Zenon
<1>1. \A j \in Handles : j # h => opened'[j] = opened[j]
  BY <1>0, Zenon DEF StoreTypes
<1>2. \A u \in Sessions \ {s} : refs[u][h] = 0
  BY <1>0, Zenon DEF HandleBacked
<1>3. ASSUME NEW u \in Sessions, NEW j \in Handles, refs'[u][j] > 0
      PROVE  opened'[j] \in pools' /\ \A w \in Sessions \ {u} : refs'[w][j] = 0
  <2>1. j # h
    <3>. SUFFICES ASSUME j = h PROVE FALSE
      BY Zenon
    <3>1. u # s /\ refs'[u][h] > 0
      BY <1>3, Zenon
    <3>2. refs'[u][h] = 0
      BY <1>2, <3>1, Zenon
    <3>. QED BY <3>1, <3>2
  <2>2. refs[u][j] > 0
    BY <1>3, <2>1, Zenon
  <2>3. opened[j] \in pools /\ \A w \in Sessions \ {u} : refs[w][j] = 0
    BY <1>0, <2>2, Zenon DEF HandleBacked
  <2>. QED BY <1>1, <2>1, <2>3, Zenon
<1>. QED BY <1>3, Zenon DEF HandleBacked

\* The store closes a handle, and deletes a pool only if no handle is left open.
LEMMA Closed ==
  ASSUME StoreTypes, OpenPoolsExist, NEW h \in Handles, opened' = [opened EXCEPT ![h] = NoName],
         \A j \in Handles : j # h /\ opened[j] \in pools => opened[j] \in pools'
  PROVE  OpenPoolsExist' /\ opened' \in [Handles -> Names \cup {NoName}]
<1>1. opened' \in [Handles -> Names \cup {NoName}] /\ opened'[h] = NoName
      /\ \A j \in Handles : j # h => opened'[j] = opened[j]
  BY Zenon DEF StoreTypes
<1>. QED BY <1>1, Zenon DEF OpenPoolsExist, IsOpen

\* OP_CLOSE: the last reference of the session closes the handle and releases the proxy.
LEMMA ClosePoolInv ==
  ASSUME IInv, NEW s \in Sessions, NEW h \in Handles, ClosePool(s, h), UNCHANGED ado_enabled, UNCHANGED plugin_ref
  PROVE  IInv'
<1>0. StoreTypes /\ AdoInv /\ UsersInv /\ OpenPoolsExist /\ HandleBacked /\ NoAdo
  BY Parts, Zenon
<1>1. /\ alive /\ held[s][h] > 0 /\ refs[s][h] > 0 /\ UNCHANGED <<pools, event, alive>>
      /\ held' = [held EXCEPT ![s][h] = @ - 1] /\ ReleaseReference(s, h)
  BY Zenon DEF ClosePool
<1>2. /\ refs' \in [Sessions -> [Handles -> 0 .. MaxRefs]]
      /\ refs'[s][h] = refs[s][h] - 1
      /\ \A u \in Sessions, j \in Handles : u # s \/ j # h => refs'[u][j] = refs[u][j]
      /\ \A u \in Sessions, j \in Handles : refs'[u][j] > 0 => refs[u][j] > 0
      /\ n2p' \in [Sessions -> [Names -> Handles \cup {NoHandle}]]
      /\ p2n' \in [Sessions -> [Handles -> Names \cup {NoName}]]
      /\ held' \in [Sessions -> [Handles -> 0 .. MaxRefs]]
  BY <1>0, <1>1, Released, Zenon
<1>3. CASE refs[s][h] > 1 /\ UNCHANGED <<opened, ado>>
  <2>1. AdoInv' /\ UsersInv'
    <3>1. \A m \in Names : event'[m] \in Nat /\ event'[m] <= event[m]
      BY <1>0, <1>1 DEF StoreTypes
    <3>. QED BY <1>2, <1>3, <3>1, KeepUsers, Zenon
  <2>2. StoreTypes' /\ OpenPoolsExist' /\ NoAdo'
    BY <1>0, <1>1, <1>2, <1>3, Zenon DEF StoreTypes, OpenPoolsExist, IsOpen, NoAdo, ado
  <2>3. ASSUME NEW u \in Sessions, NEW j \in Handles, refs[u][j] = 0 PROVE refs'[u][j] = 0
    BY <1>2, <1>3, <2>3
  <2>4. HandleBacked'
    BY <1>0, <1>1, <1>2, <1>3, <2>3, Zenon DEF HandleBacked
  <2>. QED BY <2>1, <2>2, <2>4, Zenon DEF IInv, StoreInv
<1>4. CASE refs[s][h] = 1 /\ opened' = [opened EXCEPT ![h] = NoName] /\ ReleaseAdo({h})
  <2>0. ~(refs'[s][h] > 0)
    BY <1>2, <1>4
  <2>1. OpenPoolsExist' /\ opened' \in [Handles -> Names \cup {NoName}]
    BY <1>0, <1>1, <1>4, Closed, Zenon
  <2>2. StoreTypes'
    BY <1>0, <1>1, <1>2, <2>1, Zenon DEF StoreTypes
  <2>3. CASE ado_enabled
    <3>1. \A u \in Sessions, j \in Handles : refs'[u][j] > 0 => refs[u][j] > 0 /\ ~(u = s /\ j \in {h})
      BY <1>2, <2>0, Zenon
    <3>2. \A j \in {h} : refs[s][j] > 0
      BY <1>1, Zenon
    <3>3. {h} \in SUBSET Handles
      BY Zenon
    <3>4. AdoInv' /\ UsersInv'
      BY <1>1, <1>4, <2>3, <3>1, <3>2, <3>3, LoseUsers, Zenon
    <3>5. HandleBacked' /\ NoAdo'
      BY <2>3, Zenon DEF HandleBacked, NoAdo
    <3>. QED BY <2>1, <2>2, <3>4, <3>5, Zenon DEF IInv, StoreInv
  <2>4. CASE ~ado_enabled
    <3>1. AdoInv' /\ UsersInv' /\ NoAdo'
      BY <1>1, <1>4, <2>4, WithoutAdo, Zenon DEF ReleaseAdo
    <3>2. \A j \in Handles : j # h /\ opened[j] \in pools => opened[j] \in pools'
      BY <1>1, Zenon
    <3>3. HandleBacked'
      <4>1. alive /\ refs[s][h] > 0 /\ opened' = [opened EXCEPT ![h] = NoName]
        BY <1>1, <1>4, Zenon
      <4>2. \A u \in Sessions, j \in Handles : u # s \/ j # h => refs'[u][j] = refs[u][j]
        BY <1>2, Zenon
      <4>. QED BY <2>0, <2>4, <3>2, <4>1, <4>2, LastClosed, Zenon
    <3>. QED BY <2>1, <2>2, <3>1, <3>3, Zenon DEF IInv, StoreInv
  <2>. QED BY <2>3, <2>4, Zenon
<1>. QED BY <1>3, <1>4, Zenon DEF ClosePool

\* OP_DELETE by handle on a shard without ADO processes.
LEMMA DeleteByHandleInv ==
  ASSUME IInv, NEW s \in Sessions, NEW h \in Handles, DeleteByHandle(s, h), UNCHANGED ado_enabled, UNCHANGED plugin_ref
  PROVE  IInv'
<1>0. StoreTypes /\ AdoInv /\ UsersInv /\ OpenPoolsExist /\ HandleBacked /\ NoAdo
  BY Parts, Zenon
<1>1. /\ alive /\ ~ado_enabled /\ held[s][h] > 0 /\ refs[s][h] = 1 /\ UNCHANGED <<ado, event, alive>>
      /\ held' = [held EXCEPT ![s][h] = @ - 1] /\ ReleaseReference(s, h)
      /\ opened' = [opened EXCEPT ![h] = NoName]
      /\ pools' = IF Deletable(opened[h], {h}) THEN pools \ {opened[h]} ELSE pools
  BY Zenon DEF DeleteByHandle
<1>2. refs[s][h] > 0
  BY <1>1
<1>3. /\ refs' \in [Sessions -> [Handles -> 0 .. MaxRefs]]
      /\ refs'[s][h] = refs[s][h] - 1
      /\ \A u \in Sessions, j \in Handles : u # s \/ j # h => refs'[u][j] = refs[u][j]
      /\ n2p' \in [Sessions -> [Names -> Handles \cup {NoHandle}]]
      /\ p2n' \in [Sessions -> [Handles -> Names \cup {NoName}]]
      /\ held' \in [Sessions -> [Handles -> 0 .. MaxRefs]]
  BY <1>0, <1>1, <1>2, Released, Zenon
<1>4. ~(refs'[s][h] > 0)
  BY <1>1, <1>3
<1>5. \A j \in Handles : j # h /\ opened[j] \in pools => opened[j] \in pools'
  BY <1>1, Zenon DEF Deletable
<1>6. OpenPoolsExist' /\ opened' \in [Handles -> Names \cup {NoName}]
  BY <1>0, <1>1, <1>5, Closed, Zenon
<1>7. pools' \in SUBSET Names
  BY <1>0, <1>1, Zenon DEF StoreTypes
<1>8. StoreTypes'
  BY <1>0, <1>1, <1>3, <1>6, <1>7, Zenon DEF StoreTypes
<1>9. AdoInv' /\ UsersInv' /\ NoAdo'
  BY <1>1, WithoutAdo, Zenon
<1>10. HandleBacked'
  <2>1. alive /\ ~ado_enabled /\ opened' = [opened EXCEPT ![h] = NoName]
    BY <1>1, Zenon
  <2>2. \A u \in Sessions, j \in Handles : u # s \/ j # h => refs'[u][j] = refs[u][j]
    BY <1>3, Zenon
  <2>. QED BY <1>2, <1>4, <1>5, <2>1, <2>2, LastClosed, Zenon
<1>. QED BY <1>6, <1>8, <1>9, <1>10, Zenon DEF IInv, StoreInv

\* OP_DELETE by handle on a shard with ADO processes, which only sends the event.
LEMMA DeleteByHandleAdoInv ==
  ASSUME IInv, NEW s \in Sessions, NEW h \in Handles, DeleteByHandleAdo(s, h), UNCHANGED ado_enabled, UNCHANGED plugin_ref
  PROVE  IInv'
<1>0. StoreTypes /\ AdoInv /\ UsersInv /\ OpenPoolsExist
  BY Parts, Zenon
<1>1. /\ ado_enabled /\ held[s][h] > 0 /\ refs[s][h] = 1 /\ UNCHANGED <<pools, opened, ado, alive>>
      /\ held' = [held EXCEPT ![s][h] = @ - 1] /\ ReleaseReference(s, h)
      /\ event' = [event EXCEPT ![map_ado[h]] = @ + 1]
  BY Zenon DEF DeleteByHandleAdo
<1>2. refs[s][h] > 0
  BY <1>1
<1>3. /\ refs' \in [Sessions -> [Handles -> 0 .. MaxRefs]]
      /\ refs'[s][h] = refs[s][h] - 1
      /\ \A u \in Sessions, j \in Handles : refs'[u][j] > 0 => refs[u][j] > 0
      /\ n2p' \in [Sessions -> [Names -> Handles \cup {NoHandle}]]
      /\ p2n' \in [Sessions -> [Handles -> Names \cup {NoName}]]
      /\ held' \in [Sessions -> [Handles -> 0 .. MaxRefs]]
  BY <1>0, <1>1, <1>2, Released, Zenon
<1>4. ~(refs'[s][h] > 0)
  BY <1>1, <1>3
<1>5. \A u \in Sessions, j \in Handles : refs'[u][j] > 0 => refs[u][j] > 0 /\ ~(u = s /\ j = h)
  BY <1>3, <1>4, Zenon
<1>6. AdoInv' /\ UsersInv' /\ event' \in [Names -> Nat]
  BY <1>1, <1>2, <1>5, DeleteUsers, Zenon
<1>7. StoreTypes' /\ OpenPoolsExist'
  BY <1>0, <1>1, <1>3, <1>6, Zenon DEF StoreTypes, OpenPoolsExist, IsOpen
<1>8. HandleBacked' /\ NoAdo'
  BY <1>1, Zenon DEF HandleBacked, NoAdo
<1>. QED BY <1>6, <1>7, <1>8, Zenon DEF IInv, StoreInv

\* The answer to the event: the handle of the proxy is closed, the pool of the proxy deleted.
LEMMA DeleteEventInv ==
  ASSUME IInv, NEW n \in Names, DeleteEvent(n), UNCHANGED ado_enabled, UNCHANGED plugin_ref
  PROVE  IInv'
<1>0. StoreTypes /\ AdoInv /\ UsersInv /\ OpenPoolsExist
  BY Parts, Zenon
<1>1. /\ event[n] > 0 /\ event' = [event EXCEPT ![n] = @ - 1] /\ UNCHANGED <<refs, maps, held, ado>>
  BY Zenon DEF DeleteEvent
<1>2. ado_enabled /\ ado_pool[n] \in Handles
  BY <1>1, EventProxy, Zenon
<1>3. event' \in [Names -> Nat] /\ \A m \in Names : event'[m] \in Nat /\ event'[m] <= event[m]
  BY <1>0, <1>1 DEF StoreTypes
<1>4. AdoInv' /\ UsersInv'
  BY <1>1, <1>3, KeepUsers, Zenon
<1>5. /\ OpenPoolsExist' /\ opened' \in [Handles -> Names \cup {NoName}]
      /\ pools' \in SUBSET Names /\ alive' \in BOOLEAN
  <2>1. CASE IsOpen(ado_pool[n])
    <3>1. /\ opened' = [opened EXCEPT ![ado_pool[n]] = NoName]
          /\ pools' = IF Deletable(n, {ado_pool[n]}) THEN pools \ {n} ELSE pools
          /\ alive' = (n \in pools /\ Deletable(n, {ado_pool[n]}))
      BY <2>1, Zenon DEF DeleteEvent
    <3>2. \A j \in Handles : j # ado_pool[n] /\ opened[j] \in pools => opened[j] \in pools'
      BY <3>1, Zenon DEF Deletable
    <3>3. OpenPoolsExist' /\ opened' \in [Handles -> Names \cup {NoName}]
      BY <1>0, <1>2, <3>1, <3>2, Closed, Zenon
    <3>4. pools' \in SUBSET Names /\ alive' \in BOOLEAN
      BY <1>0, <3>1, Zenon DEF StoreTypes
    <3>. QED BY <3>3, <3>4, Zenon
  <2>2. CASE ~IsOpen(ado_pool[n])
    <3>1. alive' = FALSE /\ UNCHANGED <<opened, pools>>
      BY <2>2, Zenon DEF DeleteEvent
    <3>. QED BY <1>0, <3>1, Zenon DEF StoreTypes, OpenPoolsExist, IsOpen
  <2>. QED BY <2>1, <2>2, Zenon
<1>6. StoreTypes'
  BY <1>0, <1>1, <1>3, <1>5, Zenon DEF StoreTypes, maps
<1>7. HandleBacked' /\ NoAdo'
  BY <1>2, Zenon DEF HandleBacked, NoAdo
<1>. QED BY <1>4, <1>5, <1>6, <1>7, Zenon DEF IInv, StoreInv

\* OP_DELETE by name: the store refuses while any handle of the pool is open.
LEMMA DeleteByNameInv ==
  ASSUME IInv, NEW s \in Sessions, NEW n \in Names, DeleteByName(s, n), UNCHANGED ado_enabled, UNCHANGED plugin_ref
  PROVE  IInv'
<1>0. StoreTypes /\ AdoInv /\ UsersInv /\ OpenPoolsExist /\ HandleBacked /\ NoAdo
  BY Parts, Zenon
<1>1. alive /\ \A h \in Handles : opened[h] # n
  BY Zenon DEF DeleteByName, Deletable
<1>2. pools' = pools \ {n} /\ UNCHANGED <<opened, refs, n2p, p2n, held, event, alive>> /\ UNCHANGED ado
  BY Zenon DEF DeleteByName, maps
<1>3. \A m \in Names : event'[m] \in Nat /\ event'[m] <= event[m]
  BY <1>0, <1>2 DEF StoreTypes
<1>4. AdoInv' /\ UsersInv'
  BY <1>2, <1>3, KeepUsers, Zenon
<1>5. StoreTypes' /\ OpenPoolsExist'
  BY <1>0, <1>1, <1>2, Zenon DEF StoreTypes, OpenPoolsExist, IsOpen
<1>6. NoAdo'
  BY <1>0, <1>2 DEF NoAdo, ado
<1>7. ASSUME ~ado_enabled, NEW u \in Sessions, NEW j \in Handles, refs'[u][j] > 0
      PROVE  opened'[j] \in pools' /\ \A w \in Sessions \ {u} : refs'[w][j] = 0
  <2>1. opened[j] \in pools /\ \A w \in Sessions \ {u} : refs[w][j] = 0
    BY <1>0, <1>1, <1>2, <1>7, Zenon DEF HandleBacked
  <2>. QED BY <1>1, <1>2, <2>1, Zenon
<1>8. HandleBacked'
  BY <1>7 DEF HandleBacked
<1>. QED BY <1>4, <1>5, <1>6, <1>8, Zenon DEF IInv, StoreInv

\* The end of a session, with its opens and the handles it closes.
LEMMA SessionCloseInv ==
  ASSUME IInv, NEW s \in Sessions, SessionClose(s), UNCHANGED ado_enabled, UNCHANGED plugin_ref
  PROVE  IInv'
<1>. DEFINE H == {h \in Handles : refs[s][h] > 0}
<1>0. StoreTypes /\ AdoInv /\ UsersInv /\ OpenPoolsExist /\ HandleBacked /\ NoAdo
  BY Parts, Zenon
<1>1. /\ alive /\ ReleaseAdo(H) /\ UNCHANGED <<pools, event>>
      /\ refs' = [refs EXCEPT ![s] = [h \in Handles |-> 0]]
      /\ n2p' = [n2p EXCEPT ![s] = [n \in Names |-> NoHandle]]
      /\ p2n' = [p2n EXCEPT ![s] = [h \in Handles |-> NoName]]
      /\ held' = [held EXCEPT ![s] = [h \in Handles |-> 0]]
  BY Zenon DEF SessionClose
<1>2. PICK last \in SUBSET H :
        /\ \A h \in last : map_ado[h] # NoName
        /\ opened' = [h \in Handles |-> IF h \in last THEN NoName ELSE opened[h]]
        /\ alive' = (\A h \in last : IsOpen(h))
  BY Zenon DEF SessionClose
<1>3. /\ refs' \in [Sessions -> [Handles -> 0 .. MaxRefs]]
      /\ held' \in [Sessions -> [Handles -> 0 .. MaxRefs]]
      /\ \A j \in Handles : refs'[s][j] = 0
      /\ \A u \in Sessions : u # s => refs'[u] = refs[u]
  BY <1>0, <1>1 DEF StoreTypes
<1>4. n2p' \in [Sessions -> [Names -> Handles \cup {NoHandle}]]
      /\ p2n' \in [Sessions -> [Handles -> Names \cup {NoName}]]
  BY <1>0, <1>1, Zenon DEF StoreTypes
<1>5. opened' \in [Handles -> Names \cup {NoName}] /\ alive' \in BOOLEAN
  BY <1>0, <1>2, Zenon DEF StoreTypes
<1>6. StoreTypes'
  BY <1>0, <1>1, <1>3, <1>4, <1>5, Zenon DEF StoreTypes
<1>7. OpenPoolsExist'
  BY <1>0, <1>1, <1>2, Zenon DEF OpenPoolsExist, IsOpen
<1>8. ASSUME NEW j \in Handles PROVE ~(refs'[s][j] > 0)
  BY <1>3
<1>9. CASE ado_enabled
  <2>1. \A u \in Sessions, j \in Handles : refs'[u][j] > 0 => refs[u][j] > 0 /\ ~(u = s /\ j \in H)
    BY <1>3, <1>8, Zenon
  <2>2. H \in SUBSET Handles /\ \A h \in H : refs[s][h] > 0
    BY Zenon
  <2>3. ReleaseAdo(H) /\ event' = event
    BY <1>1, Zenon
  <2>. HIDE DEF H
  <2>4. AdoInv' /\ UsersInv'
    BY <1>9, <2>1, <2>2, <2>3, LoseUsers, Zenon
  <2>5. HandleBacked' /\ NoAdo'
    BY <1>9, Zenon DEF HandleBacked, NoAdo
  <2>. QED BY <1>6, <1>7, <2>4, <2>5, Zenon DEF IInv, StoreInv
<1>10. CASE ~ado_enabled
  <2>1. last = {}
    BY <1>0, <1>2, <1>10, Zenon DEF NoAdo
  <2>2. \A j \in Handles : opened'[j] = opened[j]
    BY <1>2, <2>1, Zenon
  <2>3. UNCHANGED <<ado, event>>
    BY <1>1, <1>10, Zenon DEF ReleaseAdo
  <2>4. AdoInv' /\ UsersInv' /\ NoAdo'
    BY <1>10, <2>3, WithoutAdo, Zenon
  <2>5. ASSUME NEW u \in Sessions, NEW j \in Handles, refs'[u][j] > 0
        PROVE  opened'[j] \in pools' /\ \A w \in Sessions \ {u} : refs'[w][j] = 0
    <3>1. refs[u][j] > 0
      BY <1>3, <1>8, <2>5, Zenon
    <3>2. opened[j] \in pools /\ \A w \in Sessions \ {u} : refs[w][j] = 0
      BY <1>0, <1>1, <1>10, <3>1, Zenon DEF HandleBacked
    <3>. QED BY <1>1, <1>3, <2>2, <3>2, Zenon
  <2>6. HandleBacked'
    BY <2>5, Zenon DEF HandleBacked
  <2>. QED BY <1>6, <1>7, <2>4, <2>6, Zenon DEF IInv, StoreInv
<1>. QED BY <1>9, <1>10, Zenon

\* A plugin takes or gives back a reference: the handles through which its process is
\* polled, and the events, keep theirs.
LEMMA ConfigureInv ==
  ASSUME IInv, NEW n \in Names, ConfigureIncRef(n) \/ ConfigureDecRef(n), UNCHANGED ado_enabled
  PROVE  IInv'
<1>0. /\ StoreTypes /\ AdoTypes /\ AdoRefsExact /\ CountInv /\ ProxyInv /\ SharersCounted /\ EventsCovered
      /\ OpenPoolsExist /\ HandleBacked /\ NoAdo
  BY Zenon DEF IInv, AdoInv, UsersInv, StoreInv
<1>1. UNCHANGED <<pools, opened, refs, n2p, p2n, held, ado_pool, map_ado, map_count, event, alive, ado_enabled>>
  BY Zenon DEF ConfigureIncRef, ConfigureDecRef, maps
<1>2. PICK d \in {-1, 1} : /\ ado_ref' = [ado_ref EXCEPT ![n] = @ + d]
                           /\ plugin_ref' = [plugin_ref EXCEPT ![n] = @ + d]
                           /\ d = -1 => plugin_ref[n] > 0
  <2>1. CASE ConfigureIncRef(n)
    BY <1>0, <2>1 DEF ConfigureIncRef
  <2>2. CASE ConfigureDecRef(n)
    <3>1. /\ ado_ref' = [ado_ref EXCEPT ![n] = @ - 1] /\ plugin_ref' = [plugin_ref EXCEPT ![n] = @ - 1]
          /\ plugin_ref[n] > 0
      BY <2>2, Zenon DEF ConfigureDecRef
    <3>2. ado_ref[n] - 1 = ado_ref[n] + (-1) /\ plugin_ref[n] - 1 = plugin_ref[n] + (-1)
      BY <1>0 DEF AdoTypes
    <3>3. /\ ado_ref' = [ado_ref EXCEPT ![n] = @ + (-1)]
          /\ plugin_ref' = [plugin_ref EXCEPT ![n] = @ + (-1)]
      BY <3>1, <3>2, Zenon
    <3>4. -1 \in {-1, 1}
      OBVIOUS
    <3>. QED BY <3>1, <3>3, <3>4, Zenon
  <2>. QED BY <2>1, <2>2, Zenon
<1>3. PICK h \in Handles : map_ado[h] = n
  BY Zenon DEF ConfigureIncRef, ConfigureDecRef, Polled
<1>4. \A m \in Names : References(m)' = References(m) /\ Users(m)' = Users(m)
  BY <1>1, Zenon DEF References, Users
<1>5. Cardinality(References(n)) \in Nat /\ Cardinality(References(n)) # 0
  <2>1. map_count[h] \in Nat /\ map_count[h] # 0
    BY <1>0, <1>3, Zenon DEF CountInv, AdoTypes
  <2>2. 1 \in 1 .. MaxAdds /\ 1 <= map_count[h]
    BY <2>1
  <2>3. <<h, 1>> \in References(n)
    BY <1>3, <2>2 DEF References
  <2>. QED BY <2>3, ReferencesFinite, FS_EmptySet, FS_CardinalityType, Zenon
<1>6. /\ ado_ref[n] = Cardinality(References(n)) + plugin_ref[n]
      /\ ado_ref[n] \in Nat /\ plugin_ref[n] \in Nat
  BY <1>0, Zenon DEF AdoRefsExact, AdoTypes
<1>7. /\ ado_ref'[n] = ado_ref[n] + d /\ plugin_ref'[n] = plugin_ref[n] + d
      /\ \A m \in Names \ {n} : ado_ref'[m] = ado_ref[m] /\ plugin_ref'[m] = plugin_ref[m]
      /\ ado_ref' \in [Names -> Nat] /\ plugin_ref' \in [Names -> Nat]
      /\ ado_ref'[n] > 0 /\ ado_ref[n] > 0
  <2>1. PICK a \in Nat, k \in Nat, c \in Nat \ {0} : ado_ref[n] = a /\ plugin_ref[n] = k /\ a = c + k
    BY <1>5, <1>6, Zenon
  <2>2. ado_ref[n] + d \in Nat /\ plugin_ref[n] + d \in Nat /\ ado_ref[n] + d > 0 /\ ado_ref[n] > 0
    <3>1. CASE d = 1
      BY <2>1, <3>1
    <3>2. CASE d = -1
      <4>1. k > 0
        BY <1>2, <2>1, <3>2
      <4>. QED BY <2>1, <3>2, <4>1
    <3>. QED BY <3>1, <3>2, Zenon
  <2>3. ado_ref \in [Names -> Nat] /\ plugin_ref \in [Names -> Nat]
    BY <1>0, Zenon DEF AdoTypes
  <2>4. ado_ref' \in [Names -> Nat] /\ plugin_ref' \in [Names -> Nat]
    BY <1>2, <2>2, <2>3
  <2>5. ado_ref'[n] = ado_ref[n] + d /\ plugin_ref'[n] = plugin_ref[n] + d
    BY <1>2, <2>3
  <2>6. \A m \in Names \ {n} : ado_ref'[m] = ado_ref[m] /\ plugin_ref'[m] = plugin_ref[m]
    BY <1>2, <2>3
  <2>. QED BY <2>2, <2>4, <2>5, <2>6, Zenon
<1>8. AdoTypes' /\ ProxyInv'
  <2>1. AdoTypes'
    BY <1>0, <1>1, <1>7, Zenon DEF AdoTypes
  <2>2. ProxyInv'
    BY <1>0, <1>1, <1>7, Zenon DEF ProxyInv
  <2>. QED BY <2>1, <2>2, Zenon
<1>9. ASSUME NEW m \in Names
      PROVE  /\ ado_ref'[m] - plugin_ref'[m] = ado_ref[m] - plugin_ref[m]
             /\ (ado_ref[m] = Cardinality(References(m)) + plugin_ref[m])'
  <2>1. /\ ado_ref[m] \in Nat /\ plugin_ref[m] \in Nat /\ Cardinality(References(m)) \in Nat
        /\ ado_ref[m] = Cardinality(References(m)) + plugin_ref[m]
    BY <1>0, ReferencesFinite, FS_CardinalityType, Zenon DEF AdoTypes, AdoRefsExact
  <2>2. CASE m = n
    <3>1. ado_ref'[m] = ado_ref[m] + d /\ plugin_ref'[m] = plugin_ref[m] + d
      BY <1>7, <2>2, Zenon
    <3>2. Cardinality(References(m)') = Cardinality(References(m))
      BY <1>4, Zenon
    <3>. QED BY <1>2, <2>1, <3>1, <3>2
  <2>3. CASE m # n
    BY <1>4, <1>7, <2>1, <2>3, Zenon
  <2>. QED BY <2>2, <2>3, Zenon
<1>10. AdoRefsExact' /\ EventsCovered'
  BY <1>0, <1>1, <1>4, <1>9, Zenon DEF AdoRefsExact, EventsCovered
<1>11. SharersCounted' /\ CountInv'
  <2>1. \A j \in Handles : Sharers(j)' = Sharers(j)
    BY <1>1, Zenon DEF Sharers
  <2>2. ASSUME NEW j \in Handles PROVE Cardinality(Sharers(j)') <= map_count'[j]
    <3>1. ado_enabled
      BY Zenon DEF ConfigureIncRef, ConfigureDecRef, Polled
    <3>. QED BY <1>0, <1>1, <2>1, <3>1, Zenon DEF SharersCounted
  <2>3. CountInv'
    BY <1>0, <1>1, Zenon DEF CountInv
  <2>. QED BY <2>2, <2>3, Zenon DEF SharersCounted
<1>12. StoreTypes' /\ OpenPoolsExist'
  BY <1>0, <1>1, Zenon DEF StoreTypes, OpenPoolsExist, IsOpen
<1>13. HandleBacked' /\ NoAdo'
  BY <1>0, <1>1 DEF HandleBacked, NoAdo
<1>. QED BY <1>8, <1>10, <1>11, <1>12, <1>13, Zenon DEF IInv, AdoInv, UsersInv, StoreInv

\* A step that changes nothing.
LEMMA StutterInv == ASSUME IInv, UNCHANGED vars PROVE IInv'
<1>0. StoreTypes /\ AdoInv /\ UsersInv /\ OpenPoolsExist /\ HandleBacked /\ NoAdo
  BY Parts, Zenon
<1>1. /\ UNCHANGED <<pools, opened, refs, n2p, p2n, held, event, alive, ado_enabled, map_ado>>
      /\ UNCHANGED ado
  BY Zenon DEF vars, ado
<1>. UNCHANGED plugin_ref
  BY Zenon DEF vars
<1>2. StoreTypes' /\ OpenPoolsExist'
  BY <1>0, <1>1, Zenon DEF StoreTypes, OpenPoolsExist, IsOpen
<1>3. \A m \in Names : event'[m] \in Nat /\ event'[m] <= event[m]
  BY <1>0, <1>1 DEF StoreTypes
<1>4. AdoInv' /\ UsersInv'
  BY <1>1, <1>3, KeepUsers, Zenon
<1>5. HandleBacked' /\ NoAdo'
  BY <1>0, <1>1 DEF HandleBacked, NoAdo
<1>. QED BY <1>2, <1>4, <1>5, Zenon DEF IInv, StoreInv

-----------------------------------------------------------------------------
(* The theorems *)

\* The invariant holds when the shard starts, ...
LEMMA InitInv == Init => IInv
<1>. SUFFICES ASSUME Init PROVE IInv
  BY Zenon
<1>1. StoreTypes
  BY DEF Init, StoreTypes
<1>2. AdoTypes /\ CountInv /\ ProxyInv
  BY DEF Init, AdoTypes, CountInv, ProxyInv
<1>3. ASSUME NEW n \in Names PROVE ado_ref[n] = Cardinality(References(n)) + plugin_ref[n]
  <2>1. References(n) = {}
    BY Zenon DEF Init, References
  <2>2. Cardinality(References(n)) = 0
    BY <2>1, FS_EmptySet, Zenon
  <2>. QED BY <2>2 DEF Init
<1>4. AdoInv
  BY <1>2, <1>3, Zenon DEF AdoInv, AdoRefsExact
<1>5. ASSUME NEW n \in Names PROVE event[n] + Cardinality(Users(n)) <= ado_ref[n] - plugin_ref[n]
  <2>1. Users(n) = {}
    BY DEF Init, Users
  <2>2. Cardinality(Users(n)) = 0
    BY <2>1, FS_EmptySet, Zenon
  <2>. QED BY <2>2 DEF Init
<1>6. ASSUME NEW h \in Handles PROVE Cardinality(Sharers(h)) <= map_count[h]
  <2>1. Sharers(h) = {}
    BY DEF Init, Sharers
  <2>2. Cardinality(Sharers(h)) = 0
    BY <2>1, FS_EmptySet, Zenon
  <2>. QED BY <2>2 DEF Init
<1>7. OpenPoolsExist /\ HandleBacked /\ NoAdo
  BY DEF Init, OpenPoolsExist, HandleBacked, NoAdo, IsOpen
<1>. QED BY <1>1, <1>4, <1>5, <1>6, <1>7, Zenon DEF IInv, UsersInv, StoreInv, SharersCounted, EventsCovered

\* ... and every request, event, callback and disconnection keeps it.
LEMMA NextInv == IInv /\ [Next]_vars => IInv'
<1>. SUFFICES ASSUME IInv, [Next]_vars PROVE IInv'
  BY Zenon
<1>. QED BY CreatePoolInv, CreateOpenPoolInv, OpenPoolInv, ReopenPoolInv, ClosePoolInv, DeleteByHandleInv,
            DeleteByHandleAdoInv, DeleteEventInv, DeleteByNameInv, SessionCloseInv, ConfigureInv, StutterInv,
            Zenon DEF Next, Request

\* The tables of the sessions, of the store and of the ADO processes have their types.
THEOREM TypeCorrect == Spec => []TypeOK
<1>1. IInv => TypeOK
  BY Zenon DEF IInv, StoreTypes, AdoInv, AdoTypes, TypeOK
<1>. QED BY InitInv, NextInv, <1>1, PTL DEF Spec

\* Without ADO processes, what a Pool_manager has open is open in the store, for a pool
\* that exists, and belongs to one session.
THEOREM HandlesBacked == Spec => []HandleBacked
<1>1. IInv => HandleBacked
  BY Zenon DEF IInv, StoreInv
<1>. QED BY InitInv, NextInv, <1>1, PTL DEF Spec

\* The mapstore deletes no pool under an open session, whoever deletes it and when.
THEOREM PoolsExist == Spec => []OpenPoolsExist
<1>1. IInv => OpenPoolsExist
  BY Zenon DEF IInv, StoreInv
<1>. QED BY InitInv, NextInv, <1>1, PTL DEF Spec

\* The reference count of an ADO proxy is what _ado_pool_map counts together with what the
\* plugins of its process took.
THEOREM RefsExact == Spec => []AdoRefsExact
<1>1. IInv => AdoRefsExact
  BY Zenon DEF IInv, AdoInv
<1>. QED BY InitInv, NextInv, <1>1, PTL DEF Spec

\* With ADO processes, a pool that is open is served by one.
THEOREM OpensServed == Spec => []AdoServing
<1>1. IInv => AdoServing
  <2>. SUFFICES ASSUME IInv, ado_enabled, NEW s \in Sessions, NEW h \in Handles, refs[s][h] > 0
                PROVE  map_ado[h] # NoName /\ map_count[h] > 0
    BY Zenon DEF AdoServing
  <2>1. s \in Sharers(h)
    BY Zenon DEF Sharers
  <2>2. Cardinality(Sharers(h)) # 0
    BY <2>1, UsersFinite, FS_EmptySet, Zenon
  <2>3. /\ Cardinality(Sharers(h)) <= map_count[h] /\ map_count[h] \in Nat /\ Cardinality(Sharers(h)) \in Nat
        /\ (map_ado[h] = NoName <=> map_count[h] = 0)
    BY UsersFinite, Zenon DEF IInv, UsersInv, SharersCounted, AdoInv, AdoTypes, CountInv
  <2>. QED BY <2>2, <2>3
<1>. QED BY InitInv, NextInv, <1>1, PTL DEF Spec

\* The answer to a POOL_DELETE event finds the proxy it was sent through: no close and no
\* session end destroys it before, so ado->pool_id() and ado->pool_name() are read from
\* a proxy that exists.
THEOREM EventsFindProxy ==
  Spec => [](\A n \in Names : event[n] > 0 => ado_ref[n] > 0 /\ ado_pool[n] \in Handles)
<1>1. IInv => \A n \in Names : event[n] > 0 => ado_ref[n] > 0 /\ ado_pool[n] \in Handles
  BY EventProxy, Zenon
<1>. QED BY InitInv, NextInv, <1>1, PTL DEF Spec
=============================================================================
