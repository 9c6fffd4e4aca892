--------------------------- MODULE BreakerRegistry ---------------------------
(***************************************************************************)
(* The registry of internal/circuitbreaker/registry.go: one Breaker per    *)
(* backend ID, created on first use by a Get that looks the ID up under    *)
(* the read lock, and again under the write lock before it creates.        *)
(***************************************************************************)
EXTENDS Integers

CONSTANTS
    Getter,     \* callers of Get
    BackendID,
    Breaker,    \* addresses of Breaker objects
    Nil         \* no entry in the map

ASSUME NilAssumption == Nil \notin Breaker

VARIABLES
    breakers,  \* r.breakers
    created,   \* Breakers allocated so far
    want,      \* {id} while the goroutine's Get(id) waits for the write lock
    got        \* history: every pair <<ID, Breaker>> that a Get returned

registryVars == <<breakers, created, want, got>>

RegistryInit ==
    /\ breakers = [id \in BackendID |-> Nil]
    /\ created = {}
    /\ want = [g \in Getter |-> {}]
    /\ got = {}

Has(id) == breakers[id] # Nil

\* The lookup under RLock: a hit returns, a miss goes on to the write lock.
Lookup(g, id) ==
    /\ want[g] = {}
    /\ IF Has(id)
       THEN got' = got \cup {<<id, breakers[id]>>} /\ want' = want
       ELSE got' = got /\ want' = [want EXCEPT ![g] = {id}]
    /\ UNCHANGED <<breakers, created>>

New(id, b) ==
    /\ b \notin created
    /\ created' = created \cup {b}
    /\ breakers' = [breakers EXCEPT ![id] = b]
    /\ got' = got \cup {<<id, b>>}

\* The second lookup, under the write lock, left out.
CreateUnchecked(g, id) ==
    /\ want[g] = {id}
    /\ want' = [want EXCEPT ![g] = {}]
    /\ \E b \in Breaker : New(id, b)

\* The section under Lock, which readers and writers see as one step.
Create(g, id) ==
    /\ want[g] = {id}
    /\ want' = [want EXCEPT ![g] = {}]
    /\ \/ /\ Has(id)
          /\ got' = got \cup {<<id, breakers[id]>>}
          /\ UNCHANGED <<breakers, created>>
       \/ /\ ~Has(id)
          /\ \E b \in Breaker : New(id, b)

RegistryNext == \E g \in Getter, id \in BackendID : Lookup(g, id) \/ Create(g, id)

RegistrySpec == RegistryInit /\ [][RegistryNext]_registryVars

-----------------------------------------------------------------------------
\* Every variable has its type, and the map holds only allocated Breakers.
RegistryTypeOK ==
    /\ breakers \in [BackendID -> created \cup {Nil}]
    /\ created \subseteq Breaker
    /\ want \in [Getter -> SUBSET BackendID]
    /\ got \subseteq BackendID \X Breaker

\* "Registry manages one Breaker per backend ID": whichever Gets raced, all of
\* them returned the same Breaker for the same ID, and no Breaker serves two.
\* Otherwise failures of one backend would be counted in two places.
OneBreakerPerBackend ==
    \A p, q \in got : p[1] = q[1] <=> p[2] = q[2]

Promise == INSTANCE AtomicRegistry

\* Get behaves as one indivisible step although it takes two locks one after the
\* other: a hit under the read lock and the section under the write lock are
\* the steps of AtomicRegistry, and a miss is none.
GetsAreAtomic == Promise!Spec
=============================================================================
