---------------------------- MODULE PoolSessions ----------------------------
(***************************************************************************)
(* Pools and their reference counts: the Pool_manager of every session,    *)
(* the sessions of the mapstore, and the ADO processes a shard starts for  *)
(* the pools its clients open.                                             *)
(*                                                                         *)
(* A pool handle is the address of a mapstore Pool_session, so a handle    *)
(* that was closed may be given out again, for another pool.  The shard    *)
(* handles one request at a time.                                          *)
(***************************************************************************)
EXTENDS Integers, FiniteSets

CONSTANTS Sessions,   \* client connections
          Names,      \* pool names
          Handles,    \* addresses of mapstore sessions
          NoName, NoHandle,
          AdoModes,   \* do the shards start ADO processes?
          MaxRefs,    \* bound on the references a session takes to a pool
          MaxAdds,    \* bound on the references to an ADO proxy through one handle
          MaxPlugin   \* bound on the references the plugins of an ADO process take

ASSUME SessionsAssumption == IsFiniteSet(Sessions)
ASSUME NamesAssumption == NoName \notin Names
ASSUME HandlesAssumption == IsFiniteSet(Handles) /\ NoHandle \notin Handles
ASSUME AdoModesAssumption == AdoModes \subseteq BOOLEAN
ASSUME BoundsAssumption == MaxRefs \in Nat \ {0} /\ MaxAdds \in Nat \ {0} /\ MaxPlugin \in Nat

VARIABLES
  pools,       \* _pools of the mapstore: the names of the existing pools
  opened,      \* _pool_sessions: the pool each open handle belongs to
  refs,        \* _open_pools of each session's Pool_manager: references per handle
  n2p, p2n,    \*   its maps from names to handles and back
  held,        \* the handles the session's client was given and has not closed
  ado_ref,     \* _ado_map: reference count of the ADO proxy of a pool, 0 when there is none
  ado_pool,    \* pool_id() of the proxy: the handle it was created with
  map_ado,     \* _ado_pool_map: whose proxy serves the handle
  map_count,   \*   and how often it was added
  plugin_ref,  \* the references to the proxy that the plugins of its process hold
  event,       \* POOL_DELETE events sent to the ADO process and not yet answered
  alive,       \* the shard's main loop is running
  ado_enabled  \* ado_enabled(): it starts ADO processes

vars == <<pools, opened, refs, n2p, p2n, held, ado_ref, ado_pool, map_ado, map_count, plugin_ref,
          event, alive, ado_enabled>>
ado == <<ado_ref, ado_pool, map_ado, map_count>>
maps == <<n2p, p2n>>

IsOpen(h) == opened[h] # NoName

\* check_for_open_pool: the handle under which the session has the pool open
OpenAs(s, n) == {h \in Handles : n2p[s][n] = h /\ refs[s][h] > 0}

Init == /\ pools = {}
        /\ opened = [h \in Handles |-> NoName]
        /\ refs = [s \in Sessions |-> [h \in Handles |-> 0]]
        /\ n2p = [s \in Sessions |-> [n \in Names |-> NoHandle]]
        /\ p2n = [s \in Sessions |-> [h \in Handles |-> NoName]]
        /\ held = [s \in Sessions |-> [h \in Handles |-> 0]]
        /\ ado_ref = [n \in Names |-> 0]
        /\ ado_pool = [n \in Names |-> NoHandle]
        /\ map_ado = [h \in Handles |-> NoName]
        /\ map_count = [h \in Handles |-> 0]
        /\ plugin_ref = [n \in Names |-> 0]
        /\ event = [n \in Names |-> 0]
        /\ alive = TRUE
        /\ ado_enabled \in AdoModes

-----------------------------------------------------------------------------
(* Reference counts of the ADO proxies *)

\* Mutant: the proxy a handle already has is reused without a reference of its own
BootstrapNoRef(h, n) ==
  LET proxy == IF map_ado[h] # NoName THEN map_ado[h] ELSE n IN
  IF ado_enabled
  THEN /\ ado_ref' = IF map_ado[h] # NoName THEN ado_ref ELSE [ado_ref EXCEPT ![proxy] = @ + 1]
       /\ ado_pool' = IF ado_ref[proxy] = 0 THEN [ado_pool EXCEPT ![proxy] = h] ELSE ado_pool
       /\ map_ado' = [map_ado EXCEPT ![h] = proxy]
       /\ map_count' = [map_count EXCEPT ![h] = @ + 1]
  ELSE UNCHANGED ado

\* Mutant: nothing is done for a handle whose pool has a proxy through another handle
BootstrapByName(h, n) ==
  LET proxy == IF map_ado[h] # NoName THEN map_ado[h] ELSE n IN
  IF ado_enabled /\ ~(map_ado[h] = NoName /\ ado_ref[n] > 0)
  THEN /\ map_count[h] < MaxAdds
       /\ ado_ref' = [ado_ref EXCEPT ![proxy] = @ + 1]
       /\ ado_pool' = IF ado_ref[proxy] = 0 THEN [ado_pool EXCEPT ![proxy] = h] ELSE ado_pool
       /\ map_ado' = [map_ado EXCEPT ![h] = proxy]
       /\ map_count' = [map_count EXCEPT ![h] = @ + 1]
  ELSE UNCHANGED ado

\* conditional_bootstrap_ado_process: the proxy of the handle, else the proxy of the
\* pool name, else a new ADO process; then Ado_pool_map::add
Bootstrap(h, n) ==
  LET proxy == IF map_ado[h] # NoName THEN map_ado[h] ELSE n IN
  IF ado_enabled
  THEN /\ map_count[h] < MaxAdds
       /\ ado_ref' = [ado_ref EXCEPT ![proxy] = @ + 1]
       /\ ado_pool' = IF ado_ref[proxy] = 0 THEN [ado_pool EXCEPT ![proxy] = h] ELSE ado_pool
       /\ map_ado' = [map_ado EXCEPT ![h] = proxy]
       /\ map_count' = [map_count EXCEPT ![h] = @ + 1]
  ELSE UNCHANGED ado

\* Release of the proxies of a set of handles: the last reference shuts the process down
\* and removes it from the map; then Ado_pool_map::release
Releases(H, n) == Cardinality({h \in H : map_ado[h] = n})
LastRelease(H, n) == ado_ref[n] > 0 /\ ado_ref[n] = Releases(H, n)
ReleaseAdo(H) ==
  IF ado_enabled
  THEN /\ ado_ref' = [n \in Names |-> ado_ref[n] - Releases(H, n)]
       /\ ado_pool' = [n \in Names |-> IF LastRelease(H, n) THEN NoHandle ELSE ado_pool[n]]
       /\ map_ado' = [h \in Handles |-> IF h \in H /\ map_count[h] = 1 THEN NoName ELSE map_ado[h]]
       /\ map_count' = [h \in Handles |-> IF h \in H THEN map_count[h] - 1 ELSE map_count[h]]
  ELSE UNCHANGED ado

-----------------------------------------------------------------------------
(* OP_CREATE and OP_OPEN *)

Register(s, h, n) == /\ opened' = [opened EXCEPT ![h] = n]
                     /\ refs' = [refs EXCEPT ![s][h] = 1]
                     /\ n2p' = [n2p EXCEPT ![s][n] = h]
                     /\ p2n' = [p2n EXCEPT ![s][h] = n]
                     /\ held[s][h] < MaxRefs
                     /\ held' = [held EXCEPT ![s][h] = @ + 1]

\* A new pool or, without CREATE_ONLY, a new handle of an existing one
CreatePool(s, n, h, create_only) ==
  /\ alive
  /\ OpenAs(s, n) = {}
  /\ ~IsOpen(h)
  /\ create_only => n \notin pools
  /\ pools' = pools \cup {n}
  /\ Register(s, h, n)
  /\ Bootstrap(h, n)
  /\ UNCHANGED <<event, alive>>

\* The session has the pool open: a reference more, and no handle in the response.
\* CREATE_ONLY is refused, but the ADO process gains its reference in both cases.
CreateOpenPool(s, n, h, create_only) ==
  /\ alive
  /\ h \in OpenAs(s, n)
  /\ IF create_only
     THEN UNCHANGED refs
     ELSE refs[s][h] < MaxRefs /\ refs' = [refs EXCEPT ![s][h] = @ + 1]
  /\ Bootstrap(h, n)
  /\ UNCHANGED <<pools, opened, maps, held, event, alive>>

OpenPool(s, n, h) ==
  /\ alive
  /\ OpenAs(s, n) = {}
  /\ n \in pools
  /\ ~IsOpen(h)
  /\ Register(s, h, n)
  /\ Bootstrap(h, n)
  /\ UNCHANGED <<pools, event, alive>>

ReopenPool(s, n, h) ==
  /\ alive
  /\ h \in OpenAs(s, n)
  /\ refs[s][h] < MaxRefs /\ held[s][h] < MaxRefs
  /\ refs' = [refs EXCEPT ![s][h] = @ + 1]
  /\ held' = [held EXCEPT ![s][h] = @ + 1]
  /\ Bootstrap(h, n)
  /\ UNCHANGED <<pools, opened, maps, event, alive>>

-----------------------------------------------------------------------------
(* OP_CLOSE *)

\* release_pool_reference: the last reference erases the entries of the handle
ReleaseReference(s, h) ==
  /\ refs' = [refs EXCEPT ![s][h] = @ - 1]
  /\ n2p' = IF refs[s][h] = 1 /\ p2n[s][h] \in Names
            THEN [n2p EXCEPT ![s][p2n[s][h]] = NoHandle] ELSE n2p
  /\ p2n' = IF refs[s][h] = 1 THEN [p2n EXCEPT ![s][h] = NoName] ELSE p2n

\* Mutant: the pool is closed for real whatever the count
ClosePoolEarly(s, h) ==
  /\ alive
  /\ held[s][h] > 0
  /\ refs[s][h] > 0
  /\ held' = [held EXCEPT ![s][h] = @ - 1]
  /\ ReleaseReference(s, h)
  /\ opened' = [opened EXCEPT ![h] = NoName]
  /\ ReleaseAdo({h})
  /\ UNCHANGED <<pools, event, alive>>

\* Mutant: no check that the handle is open
ClosePoolUnchecked(s, h) ==
  /\ alive
  /\ held' = [held EXCEPT ![s][h] = @ - 1]
  /\ ReleaseReference(s, h)
  /\ \/ refs[s][h] # 1 /\ UNCHANGED <<opened, ado>>
     \/ /\ refs[s][h] = 1
        /\ opened' = [opened EXCEPT ![h] = NoName]
        /\ ReleaseAdo({h})
  /\ UNCHANGED <<pools, event, alive>>

\* Only the last reference of the session closes the pool
ClosePool(s, h) ==
  /\ alive
  /\ held[s][h] > 0
  /\ refs[s][h] > 0
  /\ held' = [held EXCEPT ![s][h] = @ - 1]
  /\ ReleaseReference(s, h)
  /\ \/ refs[s][h] > 1 /\ UNCHANGED <<opened, ado>>
     \/ /\ refs[s][h] = 1
        /\ opened' = [opened EXCEPT ![h] = NoName]
        /\ ReleaseAdo({h})
  /\ UNCHANGED <<pools, event, alive>>

-----------------------------------------------------------------------------
(* OP_DELETE *)

\* Map_store::delete_pool, after the given handles were closed
Deletable(n, closed) == \A h \in Handles \ closed : opened[h] # n

\* By handle, with one reference in this session.  Without ADO processes the pool is
\* closed and deleted at once; E_ALREADY_OPEN when other sessions have it open.
DeleteByHandle(s, h) ==
  /\ alive
  /\ ~ado_enabled
  /\ held[s][h] > 0
  /\ refs[s][h] = 1
  /\ ReleaseReference(s, h)
  /\ held' = [held EXCEPT ![s][h] = @ - 1]
  /\ opened' = [opened EXCEPT ![h] = NoName]
  /\ pools' = IF Deletable(opened[h], {h}) THEN pools \ {opened[h]} ELSE pools
  /\ UNCHANGED <<ado, event, alive>>

\* With an ADO process, the pool is deleted when the process has answered
DeleteByHandleAdo(s, h) ==
  /\ alive
  /\ ado_enabled
  /\ held[s][h] > 0
  /\ refs[s][h] = 1
  /\ ReleaseReference(s, h)
  /\ held' = [held EXCEPT ![s][h] = @ - 1]
  /\ event' = [event EXCEPT ![map_ado[h]] = @ + 1]
  /\ UNCHANGED <<pools, opened, ado, alive>>

\* The answer: close_pool(ado->pool_id()) and delete_pool(ado->pool_name()), of which
\* the failure of either ends the main loop
DeleteEvent(n) ==
  /\ alive
  /\ event[n] > 0
  /\ event' = [event EXCEPT ![n] = @ - 1]
  /\ LET h == ado_pool[n] IN
     IF IsOpen(h)
     THEN /\ opened' = [opened EXCEPT ![h] = NoName]
          /\ pools' = IF Deletable(n, {h}) THEN pools \ {n} ELSE pools
          /\ alive' = (n \in pools /\ Deletable(n, {h}))
     ELSE alive' = FALSE /\ UNCHANGED <<opened, pools>>
  /\ UNCHANGED <<refs, maps, held, ado>>

\* Mutant: only the sessions of this client are looked at
DeleteByNameUnchecked(s, n) ==
  /\ alive
  /\ OpenAs(s, n) = {}
  /\ n \in pools
  /\ pools' = pools \ {n}
  /\ UNCHANGED <<opened, refs, maps, held, ado, event, alive>>

\* By name: E_ALREADY_OPEN when this session or any other has the pool open
DeleteByName(s, n) ==
  /\ alive
  /\ OpenAs(s, n) = {}
  /\ n \in pools
  /\ Deletable(n, {})
  /\ pools' = pools \ {n}
  /\ UNCHANGED <<opened, refs, maps, held, ado, event, alive>>

-----------------------------------------------------------------------------
\* The session ends, and another client may connect in its place.  Pools are closed
\* only together with the ADO process they are the last user of; a failure to close
\* ends the main loop.
SessionClose(s) ==
  LET H == {h \in Handles : refs[s][h] > 0} IN
  /\ alive
  /\ H # {}
  /\ \E last \in SUBSET H :
       /\ \A n \in Names : Releases(last, n) = IF LastRelease(H, n) THEN 1 ELSE 0
       /\ \A h \in last : map_ado[h] # NoName
       /\ opened' = [h \in Handles |-> IF h \in last THEN NoName ELSE opened[h]]
       /\ alive' = (\A h \in last : IsOpen(h))
  /\ ReleaseAdo(H)
  /\ refs' = [refs EXCEPT ![s] = [h \in Handles |-> 0]]
  /\ n2p' = [n2p EXCEPT ![s] = [n \in Names |-> NoHandle]]
  /\ p2n' = [p2n EXCEPT ![s] = [h \in Handles |-> NoName]]
  /\ held' = [held EXCEPT ![s] = [h \in Handles |-> 0]]
  /\ UNCHANGED <<pools, event>>

-----------------------------------------------------------------------------
(* The configure callback of the plugins *)

\* The main loop receives callbacks of the processes that are in _ado_pool_map.
Polled(n) == alive /\ ado_enabled /\ \E h \in Handles : map_ado[h] = n

\* CONFIG_SHARD_INC_REF: the process is to outlive the opens of its pool.
ConfigureIncRef(n) ==
  /\ Polled(n)
  /\ plugin_ref[n] < MaxPlugin
  /\ plugin_ref' = [plugin_ref EXCEPT ![n] = @ + 1]
  /\ ado_ref' = [ado_ref EXCEPT ![n] = @ + 1]
  /\ UNCHANGED <<pools, opened, refs, maps, held, ado_pool, map_ado, map_count, event, alive>>

\* CONFIG_SHARD_DEC_REF, of a reference the plugins took.  The shard does not look:
\* that a plugin gives back no more than it took is the plugin's part.
ConfigureDecRef(n) ==
  /\ Polled(n)
  /\ plugin_ref[n] > 0
  /\ plugin_ref' = [plugin_ref EXCEPT ![n] = @ - 1]
  /\ ado_ref' = [ado_ref EXCEPT ![n] = @ - 1]
  /\ UNCHANGED <<pools, opened, refs, maps, held, ado_pool, map_ado, map_count, event, alive>>

Request == \/ \E s \in Sessions, n \in Names, h \in Handles :
                \/ \E create_only \in BOOLEAN : \/ CreatePool(s, n, h, create_only)
                                                \/ CreateOpenPool(s, n, h, create_only)
                \/ OpenPool(s, n, h)
                \/ ReopenPool(s, n, h)
           \/ \E s \in Sessions, h \in Handles : \/ ClosePool(s, h)
                                                 \/ DeleteByHandle(s, h)
                                                 \/ DeleteByHandleAdo(s, h)
           \/ \E s \in Sessions, n \in Names : DeleteByName(s, n)
           \/ \E n \in Names : DeleteEvent(n)
           \/ \E s \in Sessions : SessionClose(s)

Next == /\ UNCHANGED ado_enabled
        /\ \/ Request /\ UNCHANGED plugin_ref
           \/ \E n \in Names : ConfigureIncRef(n) \/ ConfigureDecRef(n)

Spec == Init /\ [][Next]_vars

-----------------------------------------------------------------------------
(* Properties *)

\* Type invariant of the session, store and ADO tables.
TypeOK == /\ pools \in SUBSET Names
          /\ opened \in [Handles -> Names \cup {NoName}]
          /\ refs \in [Sessions -> [Handles -> 0 .. MaxRefs]]
          /\ n2p \in [Sessions -> [Names -> Handles \cup {NoHandle}]]
          /\ p2n \in [Sessions -> [Handles -> Names \cup {NoName}]]
          /\ held \in [Sessions -> [Handles -> 0 .. MaxRefs]]
          /\ ado_ref \in [Names -> Nat]
          /\ ado_pool \in [Names -> Handles \cup {NoHandle}]
          /\ map_ado \in [Handles -> Names \cup {NoName}]
          /\ map_count \in [Handles -> Nat]
          /\ plugin_ref \in [Names -> Nat]
          /\ event \in [Names -> Nat]
          /\ alive \in BOOLEAN
          /\ ado_enabled \in AdoModes

\* As long as a shard without ADO processes runs, every handle in a Pool_manager is an
\* open session of the store, for a pool that exists, and belongs to one client session
\* only: neither a close, nor a delete or a session end of another client pulls it away.
HandleBacked == alive /\ ~ado_enabled =>
                  \A s \in Sessions, h \in Handles : refs[s][h] > 0 =>
                    /\ opened[h] \in pools
                    /\ \A u \in Sessions \ {s} : refs[u][h] = 0

\* The store deletes no pool under an open session.
OpenPoolsExist == \A h \in Handles : IsOpen(h) => opened[h] \in pools

\* The references the handles hold to the proxy of a pool: one for every add
References(n) == {r \in Handles \X (1 .. MaxAdds) : map_ado[r[1]] = n /\ r[2] <= map_count[r[1]]}

\* A proxy is referenced exactly as often as _ado_pool_map counts and its plugins ask
\* for, whatever opens, closes, deletions and disconnections of several sessions come
\* between: the main loop, which polls the proxies of that map, never polls one that was
\* destroyed, and a process nobody references is shut down.
AdoRefsExact == \A n \in Names : ado_ref[n] = Cardinality(References(n)) + plugin_ref[n]

\* A pool that is open with ADO processes enabled has an ADO process.
AdoServing == ado_enabled => \A s \in Sessions, h \in Handles : refs[s][h] > 0 =>
                map_ado[h] # NoName /\ map_count[h] > 0

\* shard.cpp, main_loop: "close all open pools belonging to session".  Every handle the
\* store has open belongs to a session.
SessionPoolsClosed == \A h \in Handles : IsOpen(h) => \E s \in Sessions : refs[s][h] > 0

\* shard_ado.cpp: "ADO processes are instantiated on a per-pool basis".  The ADO process
\* that serves a handle is the one of the handle's pool.
AdoPerPool == \A s \in Sessions, h \in Handles :
                refs[s][h] > 0 /\ map_ado[h] # NoName => map_ado[h] = opened[h]
=============================================================================
