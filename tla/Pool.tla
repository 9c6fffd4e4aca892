-------------------------------- MODULE Pool --------------------------------
(***************************************************************************)
(* The backend objects (internal/backend/backend.go) and the pool that      *)
(* lists them (internal/backend/pool.go): the state every other part of     *)
(* gobalancer shares.                                                       *)
(*                                                                          *)
(* A backend object is a *Backend: two objects may carry the same ID, since *)
(* nothing in the code compares IDs when one is added.  Objects are created *)
(* once (New) and are never put back once removed.  Health, activeConns are *)
(* atomics, so each load and store is one step; the slice is guarded by the *)
(* pool's RWMutex, and the modules that extend this one say who holds it.   *)
(***************************************************************************)
EXTENDS Integers, Sequences

CONSTANTS
    Backend,      \* the *Backend objects a run may ever create
    BackendID,    \* Backend.ID: the object's configured name
    InitialPool   \* the objects main builds from the configuration file

ASSUME PoolAssumption ==
    /\ InitialPool \in Seq(Backend)
    /\ \A j, k \in DOMAIN InitialPool : InitialPool[j] = InitialPool[k] => j = k
    /\ DOMAIN BackendID = Backend

VARIABLES
    backends,     \* Pool.backends, guarded by Pool.mu
    created,      \* the objects that New has returned so far
    health,       \* Backend.health; only "healthy" is told apart (IsHealthy)
    activeConns   \* Backend.activeConns

poolVars == <<backends, created, health, activeConns>>

Health == {"healthy", "other"}

Members == {backends[k] : k \in DOMAIN backends}

IsHealthy(b) == health[b] = "healthy"

NewPool ==
    /\ backends = InitialPool
    /\ created = {InitialPool[k] : k \in DOMAIN InitialPool}
    /\ health = [b \in Backend |-> "healthy"]
    /\ activeConns = [b \in Backend |-> 0]

\* handleAddBackend: New gives a zero-valued object, Add appends it.
Add(b) ==
    /\ b \notin created
    /\ created' = created \cup {b}
    /\ backends' = Append(backends, b)
    /\ UNCHANGED <<health, activeConns>>

\* The index at which Get and Remove stop: the first object with that ID.
First(id, k) ==
    /\ k \in DOMAIN backends
    /\ BackendID[backends[k]] = id
    /\ \A j \in 1..(k - 1) : BackendID[backends[j]] # id

\* Remove with an unknown ID only returns an error, which changes nothing.
Remove(id) ==
    /\ \E k \in DOMAIN backends :
          /\ First(id, k)
          /\ backends' = SubSeq(backends, 1, k - 1) \o SubSeq(backends, k + 1, Len(backends))
    /\ UNCHANGED <<created, health, activeConns>>

\* Called by the health checkers and by the drainer, on any known object.
SetHealth(b, h) ==
    /\ b \in created
    /\ health' = [health EXCEPT ![b] = h]
    /\ UNCHANGED <<backends, created, activeConns>>

IncConns(b) ==
    /\ activeConns' = [activeConns EXCEPT ![b] = @ + 1]
    /\ UNCHANGED <<backends, created, health>>

DecConns(b) ==
    /\ activeConns' = [activeConns EXCEPT ![b] = @ - 1]
    /\ UNCHANGED <<backends, created, health>>

PoolTypeOK ==
    /\ backends \in Seq(Backend)
    /\ created \subseteq Backend
    /\ health \in [Backend -> Health]
    /\ activeConns \in [Backend -> Int]
=============================================================================
