-------------------------- MODULE DispatchProofs --------------------------
(***************************************************************************)
(* Proofs about what decides whether and where a request is sent, and that  *)
(* all requests share while it is replaced: a circuit breaker, the registry *)
(* of breakers, the live configuration, the live certificate and the rules  *)
(* of the routers.  They hold for any number of goroutines, backends,       *)
(* reloaders, connections, rewrites and rules and any sets of segments,     *)
(* pools, headers and hosts.                                                *)
(***************************************************************************)
EXTENDS CircuitBreaker, BreakerRegistry, ConfigReload, CertReload, RuleRouters, TLAPS
-----------------------------------------------------------------------------
(***************************************************************************)
(* CircuitBreaker.  The inductive invariant is TypeOK together with        *)
(*   MuHeld       mu is held exactly by the goroutine in a critical        *)
(*                section, so two refills never overlap;                   *)
(*   RefillCounts during a refill the channel holds at most the permits    *)
(*                sent so far: the drain loop left none, and only the      *)
(*                holder of mu sends;                                      *)
(*   FreshAges    the openedAt an Allow has loaded is the one of the       *)
(*                current opening, unless an opening overtook that Allow.  *)
(***************************************************************************)
MuHeld == \A g \in Goroutine : pc[g] \in Critical <=> mu = g

RefillCounts ==
    \A g \in Goroutine :
        IF pc[g] = "fill" THEN permits <= i[g] ELSE i[g] = 0

FreshAges ==
    \A g \in Goroutine :
        ~overtaken[g] /\ state = "open" =>
            /\ pc[g] = "since" => seen[g] <= sinceOpened
            /\ pc[g] = "allowLock" => sinceOpened >= OpenDuration

\* The initial state satisfies every part of the invariant: New.
LEMMA InitInvariant ==
    Init => TypeOK /\ MuHeld /\ RefillCounts /\ FreshAges /\ HalfOpenHasWayOut
BY ConfigAssumption, NoOneAssumption
   DEF Init, TypeOK, MuHeld, RefillCounts, FreshAges, HalfOpenHasWayOut,
       State, PC, Critical

\* No step of Allow, RecordSuccess, RecordFailure or the clock leaves the types.
LEMMA TypeStep ==
    ASSUME TypeOK, [Next]_vars
    PROVE  TypeOK'
<1> USE ConfigAssumption DEF TypeOK, State, PC, AllowPC, RecordPC, Goto
<1>1. CASE Tick
  BY <1>1 DEF Tick, Older
<1>2. ASSUME NEW g \in Goroutine, Allow(g)
      PROVE  TypeOK'
  <2>1. CASE AllowLoad(g)
    BY <2>1 DEF AllowLoad
  <2>2. CASE AllowOpenedAt(g)
    BY <2>2 DEF AllowOpenedAt
  <2>3. CASE AllowSince(g)
    BY <2>3 DEF AllowSince
  <2>4. CASE AllowLock(g)
    BY <2>4 DEF AllowLock
  <2>5. CASE Drain(g)
    BY <2>5 DEF Drain
  <2>6. CASE DrainRecv(g)
    BY <2>6 DEF DrainRecv
  <2>7. CASE FillSend(g)
    BY <2>7 DEF FillSend
  <2>8. CASE FillDone(g)
    BY <2>8 DEF FillDone
  <2>9. CASE AllowReload(g)
    BY <2>9 DEF AllowReload
  <2>10. CASE Select(g)
    BY <2>10 DEF Select
  <2> QED
    BY <1>2, <2>1, <2>2, <2>3, <2>4, <2>5, <2>6, <2>7, <2>8, <2>9, <2>10
       DEF Allow
<1>3. ASSUME NEW g \in Goroutine, Record(g)
      PROVE  TypeOK'
  <2>1. CASE RecordSuccess(g)
    BY <2>1 DEF RecordSuccess
  <2>2. CASE SuccessState(g)
    BY <2>2 DEF SuccessState
  <2>3. CASE SuccessLock(g)
    BY <2>3 DEF SuccessLock
  <2>4. CASE RecordFailure(g)
    BY <2>4 DEF RecordFailure
  <2>5. CASE FailureState(g)
    BY <2>5 DEF FailureState
  <2>6. CASE FailureLock(g)
    BY <2>6 DEF FailureLock
  <2>7. CASE Trip(g)
    BY <2>7 DEF Trip
  <2>8. CASE TripReset(g)
    BY <2>8 DEF TripReset
  <2> QED
    BY <1>3, <2>1, <2>2, <2>3, <2>4, <2>5, <2>6, <2>7, <2>8 DEF Record
<1>4. CASE UNCHANGED vars
  BY <1>4 DEF vars
<1> QED
  BY <1>1, <1>2, <1>3, <1>4 DEF Next

\* mu is taken and released only around the critical sections.
LEMMA MuStep ==
    ASSUME TypeOK, MuHeld, [Next]_vars
    PROVE  MuHeld'
<1> USE NoOneAssumption DEF TypeOK, MuHeld, Critical, Goto
<1>1. CASE Tick
  BY <1>1 DEF Tick
<1>2. ASSUME NEW g \in Goroutine, Allow(g)
      PROVE  MuHeld'
  BY <1>2 DEF Allow, AllowLoad, AllowOpenedAt, AllowSince, AllowLock, Drain,
              DrainRecv, FillSend, FillDone, AllowReload, Select
<1>3. ASSUME NEW g \in Goroutine, Record(g)
      PROVE  MuHeld'
  BY <1>3 DEF Record, RecordSuccess, SuccessState, SuccessLock, RecordFailure,
              FailureState, FailureLock, Trip, TripReset
<1>4. CASE UNCHANGED vars
  BY <1>4 DEF vars
<1> QED
  BY <1>1, <1>2, <1>3, <1>4 DEF Next

\* Only the holder of mu sends, and it starts from an empty channel.
LEMMA RefillStep ==
    ASSUME TypeOK, MuHeld, RefillCounts, [Next]_vars
    PROVE  RefillCounts'
<1> USE NoOneAssumption, ConfigAssumption
    DEF TypeOK, MuHeld, Critical, RefillCounts, Goto
<1>1. CASE Tick
  BY <1>1 DEF Tick
<1>2. ASSUME NEW g \in Goroutine, Allow(g)
      PROVE  RefillCounts'
  <2>1. CASE Drain(g)
    BY <2>1 DEF Drain
  <2>2. CASE DrainRecv(g)
    BY <2>2 DEF DrainRecv
  <2>3. CASE FillSend(g)
    BY <2>3 DEF FillSend
  <2>4. CASE FillDone(g)
    BY <2>4 DEF FillDone
  <2>5. CASE Select(g)
    BY <2>5 DEF Select
  <2>6. CASE AllowLoad(g) \/ AllowOpenedAt(g) \/ AllowSince(g) \/ AllowLock(g)
             \/ AllowReload(g)
    BY <2>6 DEF AllowLoad, AllowOpenedAt, AllowSince, AllowLock, AllowReload
  <2> QED
    BY <1>2, <2>1, <2>2, <2>3, <2>4, <2>5, <2>6 DEF Allow
<1>3. ASSUME NEW g \in Goroutine, Record(g)
      PROVE  RefillCounts'
  BY <1>3 DEF Record, RecordSuccess, SuccessState, SuccessLock, RecordFailure,
              FailureState, FailureLock, Trip, TripReset
<1>4. CASE UNCHANGED vars
  BY <1>4 DEF vars
<1> QED
  BY <1>1, <1>2, <1>3, <1>4 DEF Next

\* openedAt is stored only while the circuit is not open, and the store of Open
\* that follows overtakes every Allow under way.
LEMMA FreshStep ==
    ASSUME TypeOK, FreshAges, [Next]_vars
    PROVE  FreshAges'
<1> USE ConfigAssumption DEF TypeOK, FreshAges, Goto
<1>1. CASE Tick
  BY <1>1 DEF Tick, Older
<1>2. ASSUME NEW g \in Goroutine, Allow(g)
      PROVE  FreshAges'
  <2>1. CASE AllowLoad(g)
    BY <2>1 DEF AllowLoad
  <2>2. CASE AllowOpenedAt(g)
    BY <2>2 DEF AllowOpenedAt
  <2>3. CASE AllowSince(g)
    BY <2>3 DEF AllowSince
  <2>4. CASE AllowLock(g)
    BY <2>4 DEF AllowLock
  <2>5. CASE Drain(g) \/ DrainRecv(g) \/ FillSend(g) \/ FillDone(g)
             \/ AllowReload(g) \/ Select(g)
    BY <2>5 DEF Drain, DrainRecv, FillSend, FillDone, AllowReload, Select
  <2> QED
    BY <1>2, <2>1, <2>2, <2>3, <2>4, <2>5 DEF Allow
<1>3. ASSUME NEW g \in Goroutine, Record(g)
      PROVE  FreshAges'
  <2>1. CASE FailureLock(g)
    BY <2>1 DEF FailureLock
  <2>2. CASE Trip(g)
    BY <2>2 DEF Trip
  <2>3. CASE RecordSuccess(g) \/ SuccessState(g) \/ SuccessLock(g)
             \/ RecordFailure(g) \/ FailureState(g) \/ TripReset(g)
    BY <2>3 DEF RecordSuccess, SuccessState, SuccessLock, RecordFailure,
                FailureState, TripReset
  <2> QED
    BY <1>3, <2>1, <2>2, <2>3 DEF Record
<1>4. CASE UNCHANGED vars
  BY <1>4 DEF vars
<1> QED
  BY <1>1, <1>2, <1>3, <1>4 DEF Next

\* A permit taken is a request in flight, a report that finds the circuit
\* half-open goes on to change the state, and a refill that ends has sent a
\* permit: HalfOpenProbes is not zero.
LEMMA WayOutStep ==
    ASSUME TypeOK, RefillCounts, HalfOpenHasWayOut, [Next]_vars
    PROVE  HalfOpenHasWayOut'
<1> USE ConfigAssumption DEF TypeOK, HalfOpenHasWayOut, Resolving, Refilling, Goto
<1>1. CASE Tick
  BY <1>1 DEF Tick
<1>2. ASSUME NEW g \in Goroutine, Allow(g)
      PROVE  HalfOpenHasWayOut'
  <2>1. CASE AllowLoad(g)
    BY <2>1 DEF AllowLoad
  <2>2. CASE AllowOpenedAt(g)
    BY <2>2 DEF AllowOpenedAt
  <2>3. CASE AllowSince(g)
    BY <2>3 DEF AllowSince
  <2>4. CASE AllowLock(g)
    BY <2>4 DEF AllowLock
  <2>5. CASE Drain(g)
    <3>1. CASE permits > 0
      BY <2>5, <3>1 DEF Drain
    <3>2. CASE ~(permits > 0)
      BY <2>5, <3>2 DEF Drain, RefillCounts
    <3> QED
      BY <3>1, <3>2
  <2>6. CASE DrainRecv(g)
    BY <2>6 DEF DrainRecv
  <2>7. CASE FillSend(g)
    BY <2>7 DEF FillSend
  <2>8. CASE FillDone(g)
    BY <2>8 DEF FillDone
  <2>9. CASE AllowReload(g)
    BY <2>9 DEF AllowReload
  <2>10. CASE Select(g)
    BY <2>10 DEF Select
  <2> QED
    BY <1>2, <2>1, <2>2, <2>3, <2>4, <2>5, <2>6, <2>7, <2>8, <2>9, <2>10
       DEF Allow
<1>3. ASSUME NEW g \in Goroutine, Record(g)
      PROVE  HalfOpenHasWayOut'
  <2>1. CASE RecordSuccess(g)
    BY <2>1 DEF RecordSuccess
  <2>2. CASE SuccessState(g)
    BY <2>2 DEF SuccessState
  <2>3. CASE SuccessLock(g)
    BY <2>3 DEF SuccessLock
  <2>4. CASE RecordFailure(g)
    BY <2>4 DEF RecordFailure
  <2>5. CASE FailureState(g)
    BY <2>5 DEF FailureState
  <2>6. CASE FailureLock(g)
    BY <2>6 DEF FailureLock
  <2>7. CASE Trip(g)
    BY <2>7 DEF Trip
  <2>8. CASE TripReset(g)
    BY <2>8 DEF TripReset
  <2> QED
    BY <1>3, <2>1, <2>2, <2>3, <2>4, <2>5, <2>6, <2>7, <2>8 DEF Record
<1>4. CASE UNCHANGED vars
  BY <1>4 DEF vars
<1> QED
  BY <1>1, <1>2, <1>3, <1>4 DEF Next

-----------------------------------------------------------------------------
\* The fields of the breaker and the positions of its callers keep their types,
\* and the probe channel keeps within its capacity.
THEOREM TypeCorrect == Spec => []TypeOK
<1>1. Init => TypeOK
  BY InitInvariant
<1>2. TypeOK /\ [Next]_vars => TypeOK'
  BY TypeStep
<1> QED
  BY <1>1, <1>2, PTL DEF Spec

\* The refill loop of Allow, which sends while it holds mu, never meets a full
\* channel, for any number of goroutines and permits.
THEOREM RefillSafe == Spec => []RefillNeverBlocks
<1>1. Init => TypeOK /\ MuHeld /\ RefillCounts
  BY InitInvariant
<1>2. TypeOK /\ MuHeld /\ RefillCounts /\ [Next]_vars
          => TypeOK' /\ MuHeld' /\ RefillCounts'
  BY TypeStep, MuStep, RefillStep
<1>3. TypeOK /\ RefillCounts => RefillNeverBlocks
  BY ConfigAssumption DEF TypeOK, RefillCounts, RefillNeverBlocks
<1> QED
  BY <1>1, <1>2, <1>3, PTL DEF Spec

\* A half-open circuit always has a permit to give, a report to come or a refill
\* in progress, as long as callers report every request Allow admitted.
THEOREM WayOut == Spec => []HalfOpenHasWayOut
<1>1. Init => TypeOK /\ MuHeld /\ RefillCounts /\ HalfOpenHasWayOut
  BY InitInvariant
<1>2. TypeOK /\ MuHeld /\ RefillCounts /\ HalfOpenHasWayOut /\ [Next]_vars
          => TypeOK' /\ MuHeld' /\ RefillCounts' /\ HalfOpenHasWayOut'
  BY TypeStep, MuStep, RefillStep, WayOutStep
<1> QED
  BY <1>1, <1>2, PTL DEF Spec

\* An Allow that no opening overtook takes the circuit to half-open only after
\* OpenDuration: premature probing needs an Allow that slept through one.
THEOREM FreshAllows == Spec => []FreshAllowsWait
<1>1. Init => TypeOK /\ FreshAges
  BY InitInvariant
<1>2. TypeOK /\ FreshAges /\ [Next]_vars => TypeOK' /\ FreshAges'
  BY TypeStep, FreshStep
<1>3. FreshAges => FreshAllowsWait
  BY DEF FreshAges, FreshAllowsWait
<1> QED
  BY <1>1, <1>2, <1>3, PTL DEF Spec

\* No step puts a closed circuit into half-open: the second check in Allow.
THEOREM HalfOpenFromOpen == Spec => HalfOpenOnlyFromOpen
<1> DEFINE A == state' = "half-open" => state \in {"open", "half-open"}
<1>1. [Next]_vars => [A]_vars
  BY DEF Next, Tick, Allow, AllowLoad, AllowOpenedAt, AllowSince, AllowLock,
         Drain, DrainRecv, FillSend, FillDone, AllowReload, Select, Record,
         RecordSuccess, SuccessState, SuccessLock, RecordFailure, FailureState,
         FailureLock, Trip, TripReset, vars
<1> QED
  BY <1>1, PTL DEF Spec, HalfOpenOnlyFromOpen
-----------------------------------------------------------------------------
(* BreakerRegistry: what a Get returned stays in the map, and the map is      *)
(* injective.                                                                 *)

ReturnedStays == \A p \in got : breakers[p[1]] = p[2]

Injective ==
    \A id, jd \in BackendID :
        Has(id) /\ breakers[id] = breakers[jd] => id = jd

RegistryInv == RegistryTypeOK /\ ReturnedStays /\ Injective

\* RegistryInv is inductive.
LEMMA RegistryInductive == RegistrySpec => []RegistryInv
<1>1. RegistryInit => RegistryInv
  BY DEF RegistryInit, RegistryInv, RegistryTypeOK, ReturnedStays, Injective, Has
<1>2. RegistryInv /\ [RegistryNext]_registryVars => RegistryInv'
  <2> SUFFICES ASSUME RegistryInv, [RegistryNext]_registryVars
               PROVE  RegistryInv'
    OBVIOUS
  <2> USE NilAssumption DEF RegistryInv, RegistryTypeOK, ReturnedStays, Injective, Has
  <2>1. ASSUME NEW g \in Getter, NEW id \in BackendID, Lookup(g, id)
        PROVE  RegistryInv'
    BY <2>1 DEF Lookup
  <2>2. ASSUME NEW g \in Getter, NEW id \in BackendID, Create(g, id)
        PROVE  RegistryInv'
    <3>1. CASE Has(id)
      BY <2>2, <3>1 DEF Create
    <3>2. CASE ~Has(id)
      <4>1. PICK b \in Breaker : New(id, b)
        BY <2>2, <3>2 DEF Create
      <4>2. RegistryTypeOK'
        BY <2>2, <4>1 DEF Create, New
      <4>3. ReturnedStays'
        BY <3>2, <4>1 DEF New
      <4>4. Injective'
        BY <4>1 DEF New
      <4> QED
        BY <4>2, <4>3, <4>4
    <3> QED
      BY <3>1, <3>2
  <2>3. CASE UNCHANGED registryVars
    BY <2>3 DEF registryVars
  <2> QED
    BY <2>1, <2>2, <2>3 DEF RegistryNext
<1> QED
  BY <1>1, <1>2, PTL DEF RegistrySpec

\* However many goroutines race in Get, one Breaker exists per backend ID.
THEOREM OneBreaker == RegistrySpec => []OneBreakerPerBackend
<1>1. RegistryInv => OneBreakerPerBackend
  <2> SUFFICES ASSUME RegistryInv, NEW p \in got, NEW q \in got
               PROVE  p[1] = q[1] <=> p[2] = q[2]
    BY DEF OneBreakerPerBackend
  <2> QED
    BY NilAssumption DEF RegistryInv, RegistryTypeOK, ReturnedStays, Injective, Has
<1> QED
  BY <1>1, RegistryInductive, PTL

\* The registry implements AtomicRegistry for any number of goroutines and IDs.
THEOREM RefinesAtomic == RegistrySpec => GetsAreAtomic
<1>1. RegistryInit => Promise!Init
  BY DEF RegistryInit, Promise!Init
<1>2. RegistryInv /\ [RegistryNext]_registryVars => [Promise!Next]_(Promise!vars)
  <2> SUFFICES ASSUME RegistryInv, [RegistryNext]_registryVars
               PROVE  [Promise!Next]_(Promise!vars)
    OBVIOUS
  <2>1. ASSUME NEW g \in Getter, NEW id \in BackendID, Lookup(g, id)
        PROVE  Promise!Get(id) \/ UNCHANGED Promise!vars
    BY <2>1 DEF Lookup, Has, Promise!Get, Promise!vars
  <2>2. ASSUME NEW g \in Getter, NEW id \in BackendID, Create(g, id)
        PROVE  Promise!Get(id)
    <3>1. CASE Has(id)
      BY <2>2, <3>1 DEF Create, Has, Promise!Get
    <3>2. CASE ~Has(id)
      <4>1. PICK b \in Breaker : New(id, b)
        BY <2>2, <3>2 DEF Create
      <4>2. Promise!Unused(b)
        BY <4>1, NilAssumption DEF New, RegistryInv, RegistryTypeOK, Promise!Unused
      <4>3. breakers'[id] = b
        BY <4>1 DEF New, RegistryInv, RegistryTypeOK
      <4> QED
        BY <3>2, <4>1, <4>2, <4>3 DEF New, Has, Promise!Get
    <3> QED
      BY <3>1, <3>2
  <2>3. CASE UNCHANGED registryVars
    BY <2>3 DEF registryVars, Promise!vars
  <2> QED
    BY <2>1, <2>2, <2>3 DEF RegistryNext, Promise!Next
<1> QED
  BY <1>1, <1>2, RegistryInductive, PTL DEF RegistrySpec, GetsAreAtomic, Promise!Spec
-----------------------------------------------------------------------------
(* ConfigReload: what is live, and what a Reload holds between its load and   *)
(* its store, has passed Validate.                                            *)

Passed(c) == c \in Config /\ Validate(c)

ConfigInv == Passed(ptr) /\ \A r \in Reloader : \A c \in loaded[r] : Passed(c)

LEMMA ConfigStep ==
    ASSUME ConfigInv, loaded \in [Reloader -> SUBSET Config], [ConfigNext]_configVars
    PROVE  ConfigInv' /\ (loaded \in [Reloader -> SUBSET Config])'
<1> USE DEF ConfigInv
<1>1. ASSUME NEW c \in Config \cup {Unreadable}, Edit(c)
      PROVE  UNCHANGED <<ptr, loaded>>
  BY <1>1 DEF Edit
<1>2. ASSUME NEW r \in Reloader, ReloadLoads(r)
      PROVE  ConfigInv' /\ (loaded \in [Reloader -> SUBSET Config])'
  <2>1. PICK c \in Config : Loads(c) /\ loaded' = [loaded EXCEPT ![r] = {c}]
    BY <1>2 DEF ReloadLoads
  <2>2. Passed(c)
    BY <2>1 DEF Loads, Passed
  <2> QED
    BY <1>2, <2>1, <2>2 DEF ReloadLoads, Passed
<1>3. ASSUME NEW r \in Reloader, Store(r)
      PROVE  ConfigInv' /\ (loaded \in [Reloader -> SUBSET Config])'
  BY <1>3 DEF Store, Passed
<1> QED
  BY <1>1, <1>2, <1>3 DEF ConfigNext, configVars, Passed

\* Whatever is edited and however reloads overlap, the live configuration is one
\* that main could be started with: Load returns only what Validate accepts, and
\* ConfigReloader stores only what Load returned.
THEOREM LiveConfigSound == ConfigSpec => []LiveConfigUsable
<1> DEFINE Inv == ConfigInv /\ loaded \in [Reloader -> SUBSET Config]
<1>1. ConfigInit => Inv
  BY DEF ConfigInit, ConfigInv, Passed
<1>2. Inv /\ [ConfigNext]_configVars => Inv'
  BY ConfigStep
<1>3. Inv => LiveConfigUsable
  BY DEF ConfigInv, Passed, Validate, LiveConfigUsable, KnownAlgorithm, ParsesAddr, OneOf
<1> QED
  BY <1>1, <1>2, <1>3, PTL DEF ConfigSpec
-----------------------------------------------------------------------------
(* CertReload: the certificate that connections get never goes back.          *)

LiveCert == [via : {"GetCertificate", "Certificates"}, cert : Version, key : Version]

\* Versions only grow: a file that is whole holds the last one begun.
FilesGrow ==
    /\ begun \in [File -> Version]
    /\ disk \in [File -> Version \cup {Torn}]
    /\ \A f \in File : disk[f] \in {begun[f], Torn}

\* y was stored after x, or is x.
After(x, y) == y.cert >= x.cert /\ (x.via = "Certificates" => y.via = "Certificates")

\* The live configuration is not ahead of the key file, and no connection is
\* ahead of the live configuration.
ConfigsInOrder ==
    /\ cfg \in LiveCert /\ cfg.cert <= begun["key"]
    /\ cfg.via = "GetCertificate" => cfg.cert = 0
    /\ accepted \in [Conn -> SUBSET LiveCert]
    /\ \A c \in Conn : \A x \in accepted[c] : After(x, cfg)

CertInv == FilesGrow /\ ConfigsInOrder

LEMMA VersionNat == (\A v \in Version : v \in Int) /\ Torn \notin Version /\ 0 \in Version
  BY CertAssumption DEF Version

LEMMA CertInvInit == CertInit => CertInv
  BY VersionNat DEF CertInit, CertInv, FilesGrow, ConfigsInOrder, LiveCert,
                    storeCert, After, File

\* What a reload stores is at least as new as what it replaces.
LEMMA ReloadMovesOn ==
  ASSUME CertInv, ReloadCert
  PROVE  cfg' \in LiveCert /\ cfg'.cert <= begun["key"] /\ After(cfg, cfg')
         /\ (cfg'.via = "GetCertificate" => cfg'.cert = 0)
  <1> DEFINE v == CHOOSE w \in certRead : TRUE
  <1>1. CASE Pair(v, disk["key"]) /\ cfg' = [via |-> "Certificates", cert |-> disk["key"],
                                             key |-> disk["key"]]
    <2>1. disk["key"] # Torn
      BY <1>1 DEF Pair
    <2>2. disk["key"] = begun["key"] /\ disk["key"] \in Version
      BY <2>1 DEF CertInv, FilesGrow, File
    <2> QED
      BY <1>1, <2>1, <2>2, VersionNat
      DEF CertInv, ConfigsInOrder, LiveCert, After
  <1>2. CASE cfg' = cfg
    BY <1>2, VersionNat DEF CertInv, ConfigsInOrder, LiveCert, After
  <1> QED
    BY <1>1, <1>2 DEF ReloadCert

LEMMA CertStep == CertInv /\ [CertNext]_certVars => CertInv'
  <1> SUFFICES ASSUME CertInv, [CertNext]_certVars PROVE CertInv'
    OBVIOUS
  <1> USE VersionNat DEF CertInv
  <1>1. ASSUME NEW f \in File, Truncate(f) \/ Fill(f) \/ Replace(f) PROVE CertInv'
    <2>1. UNCHANGED tlsVars
      BY <1>1 DEF Truncate, Fill, Replace
    <2>2. FilesGrow' /\ begun'["key"] >= begun["key"] /\ begun'["key"] \in Version
      BY <1>1, CertAssumption DEF Truncate, Fill, Replace, FilesGrow, File, Version
    <2> QED
      BY <2>1, <2>2 DEF tlsVars, ConfigsInOrder, LiveCert, After,
                       FilesGrow, File
  <1>2. CASE (\E f \in File : AddWatch(f)) \/ Event \/ WatchReturns \/ UNCHANGED certVars
    <2>1. UNCHANGED <<disk, begun, tlsVars>>
      BY <1>2 DEF AddWatch, Event, WatchReturns, certVars, fileVars
    <2> QED
      BY <2>1 DEF tlsVars, FilesGrow, ConfigsInOrder, After
  <1>3. CASE Reload
    <2>1. ReloadCert /\ UNCHANGED <<disk, begun, accepted>>
      BY <1>3 DEF Reload, fileVars
    <2>2. \A c \in Conn : \A x \in accepted[c] : After(x, cfg')
      BY <2>1, ReloadMovesOn DEF ConfigsInOrder, LiveCert, After
    <2> QED
      BY <2>1, <2>2, ReloadMovesOn DEF FilesGrow, ConfigsInOrder, After
  <1>4. ASSUME NEW c \in Conn, Accept(c) PROVE CertInv'
    <2>1. accepted' = [accepted EXCEPT ![c] = {cfg}] /\ UNCHANGED <<disk, begun, cfg>>
      BY <1>4 DEF Accept, fileVars
    <2>2. After(cfg, cfg)
      BY DEF After, ConfigsInOrder, LiveCert
    <2> QED
      BY <2>1, <2>2 DEF FilesGrow, ConfigsInOrder, After
  <1>5. ASSUME NEW c \in Conn, Served(c) \/ Garbled(c) PROVE CertInv'
    <2>1. UNCHANGED <<disk, begun, cfg, accepted>>
      BY <1>5 DEF Served, Garbled, Outcome, fileVars
    <2> QED
      BY <2>1 DEF FilesGrow, ConfigsInOrder, After
  <1> QED
    BY <1>1, <1>2, <1>3, <1>4, <1>5 DEF CertNext, Watcher

LEMMA CertInductive == CertSpec => []CertInv
  BY CertInvInit, CertStep, PTL DEF CertSpec

\* A connection accepted later never gets an older certificate: ReloadCert reads
\* the key last, so what it stores is the newest version of the key file, and a
\* failed reload stores nothing.
THEOREM CertsMoveOn == CertSpec => LaterIsNewer
  <1> DEFINE Newer == \A c, d \in Conn : accepted[d] = {} =>
                        \A x \in accepted[c], y \in accepted'[d] : After(x, y)
  <1>1. CertInv /\ [CertNext]_certVars => [Newer]_certVars
    <2> SUFFICES ASSUME CertInv, CertNext,
                        NEW c \in Conn, NEW d \in Conn, accepted[d] = {},
                        NEW x \in accepted[c], NEW y \in accepted'[d]
                 PROVE  After(x, y)
      OBVIOUS
    <2>1. accepted' # accepted
      OBVIOUS
    <2>2. PICK e \in Conn : Accept(e)
      BY <2>1 DEF CertNext, Watcher, Truncate, Fill, Replace, AddWatch, Event, Reload,
                  WatchReturns, Served, Garbled, Outcome, tlsVars
    <2>3. y = cfg
      BY <2>2 DEF Accept, CertInv, ConfigsInOrder
    <2> QED
      BY <2>3 DEF CertInv, ConfigsInOrder
  <1>2. Newer => (\A c, d \in Conn : accepted[d] = {} =>
                    \A x \in accepted[c], y \in accepted'[d] :
                      y.cert >= x.cert /\ (x.via = "Certificates" => y.via = "Certificates"))
    BY DEF After
  <1> QED
    BY CertInductive, <1>1, <1>2, PTL DEF CertSpec, LaterIsNewer
-----------------------------------------------------------------------------
(***************************************************************************)
(* The routers: HeaderRouter's first match, and the longest prefix that     *)
(* PathTrie.Match finds.  The trie is closed under prefixes (Closed), and   *)
(* each node holds what the last Add for it gave (Remembers).               *)
(***************************************************************************)
-----------------------------------------------------------------------------
(* Induction over the naturals, as the existence of a least element.          *)

INSTANCE WellFoundedInduction

LEMMA LessIsWellFounded ==
    \E R : /\ IsWellFoundedOn(R, Nat)
           /\ \A x, y \in Nat : x < y => <<x, y>> \in R
<1>1. \A x, y \in Nat : x < y => <<x, y>> \in OpToRel(<, Nat)
  BY DEF OpToRel
<1> QED BY <1>1, NatLessThanWellFounded, Zenon

LEMMA LeastNat ==
    ASSUME NEW T, T \subseteq Nat, T # {}
    PROVE  \E x \in T : \A y \in T : x <= y
<1>1. PICK R : /\ IsWellFoundedOn(R, Nat)
               /\ \A x, y \in Nat : x < y => <<x, y>> \in R
  BY LessIsWellFounded
<1>2. IsWellFoundedOn(R, Nat)
  BY <1>1
<1>3. \E x \in T : \A y \in T : ~(<<y, x>> \in R)
  BY <1>2, WFMin, Zenon
<1>4. PICK x \in T : \A y \in T : ~(<<y, x>> \in R)
  BY <1>3
<1>5. ASSUME NEW y \in T PROVE x <= y
  <2>1. x \in Nat /\ y \in Nat
    OBVIOUS
  <2>2. ~(y < x)
    BY <1>1, <1>4, <2>1, Zenon
  <2> QED BY <2>1, <2>2
<1> QED BY <1>5

LEMMA UpTo ==
    ASSUME NEW n \in Nat, NEW P, 0 \in P, \A k \in 1..n : k - 1 \in P => k \in P
    PROVE  \A k \in 0..n : k \in P
<1> DEFINE Bad == {k \in 0..n : k \notin P}
<1>1. Bad # {} => \E k \in Bad : \A j \in Bad : k <= j
  <2>1. Bad \subseteq Nat
    OBVIOUS
  <2> HIDE DEF Bad
  <2> QED BY <2>1, LeastNat, Zenon
<1>2. ASSUME NEW k \in Bad, \A j \in Bad : k <= j PROVE FALSE
  <2>1. k # 0
    OBVIOUS
  <2>2. k \in 1..n /\ k - 1 \in 0..n /\ ~(k <= k - 1)
    BY <2>1
  <2> QED BY <1>2, <2>2
<1> QED BY <1>1, <1>2, Zenon
-----------------------------------------------------------------------------
(* HeaderRouter: a new rule is the last one.                                  *)

Rule == [header : Header, accepts : SUBSET (Value \cup {""}), pool : PoolName]

First(S) == CHOOSE k \in S : \A j \in S : k <= j

\* A rule behind all others does not change which accepting rule is the first.
LEMMA FirstStays ==
    ASSUME NEW n \in Nat, NEW S, NEW T,
           S \subseteq 1..n, S # {}, S \subseteq T, T \subseteq S \cup {n + 1}
    PROVE  First(S) \in S /\ First(T) = First(S)
<1>1. S \subseteq Nat
  OBVIOUS
<1>2. PICK x \in S : \A y \in S : x <= y
  BY <1>1, LeastNat, Zenon
<1>3. x \in Int /\ x <= n
  OBVIOUS
<1>4. x \in T /\ \A y \in T : x <= y
  BY <1>2, <1>3
<1>5. \A k \in S : (\A j \in S : k <= j) => k = x
  BY <1>2, <1>3
<1>6. \A k \in T : (\A j \in T : k <= j) => k = x
  BY <1>3, <1>4
<1>7. First(S) = x
  BY <1>2, <1>5, Zenon DEF First
<1>8. First(T) = x
  BY <1>4, <1>6, Zenon DEF First
<1> QED BY <1>7, <1>8

LEMMA HeaderRulesType == RouterSpec => [](headerRules \in Seq(Rule))
<1>1. RouterInit => headerRules \in Seq(Rule)
  BY DEF RouterInit
<1>2. headerRules \in Seq(Rule) /\ [RouterNext]_routerVars => (headerRules \in Seq(Rule))'
  <2> SUFFICES ASSUME headerRules \in Seq(Rule), [RouterNext]_routerVars
               PROVE  headerRules' \in Seq(Rule)
    OBVIOUS
  <2>1. ASSUME NEW rule \in Rule, AddRule(rule) PROVE headerRules' \in Seq(Rule)
    BY <2>1 DEF AddRule
  <2>2. CASE AddHeaderRule
    BY <2>1, <2>2 DEF AddHeaderRule, AddExact, AddRegex, Rule
  <2>3. CASE UNCHANGED headerRules
    BY <2>3
  <2> QED BY <2>2, <2>3, Zenon DEF RouterNext, AddHost, routerVars
<1> QED BY <1>1, <1>2, PTL DEF RouterSpec

\* A request that AddExact's or AddRegex's rules route keeps its pool when rules
\* are added: HeaderRouter.Match returns at the first accepting rule, and both
\* append.  A request that is routed by its host keeps its pool when a host is
\* added: HostRouter.Add writes the entry of that host only.
THEOREM FirstMatchStays == RouterSpec => RulesKeepTheirRequests
<1> DEFINE Keeps(request) ==
             HeaderMatch(request) # "" => HeaderMatch(request)' = HeaderMatch(request)
           KeepsHost(host) ==
             HostMatch(host) # "" /\ HostMatch(host)' # HostMatch(host) =>
               DOMAIN hostRules' = DOMAIN hostRules
<1>1. ASSUME headerRules \in Seq(Rule), NEW rule, AddRule(rule), NEW request
      PROVE  Keeps(request)
  <2> DEFINE S == {k \in 1..Len(headerRules) : Accepts(headerRules[k], request)}
             T == {k \in 1..Len(headerRules)' : Accepts(headerRules'[k], request)}
  <2>1. PICK n \in Nat : n = Len(headerRules)
    BY <1>1
  <2>2. Len(headerRules)' = n + 1 /\ \A k \in 1..n : headerRules'[k] = headerRules[k]
    BY <1>1, <2>1 DEF AddRule
  <2>3. S \subseteq 1..n /\ S \subseteq T /\ T \subseteq S \cup {n + 1}
    <3>1. \A k \in 1..(n + 1) : k \in 1..n \/ k = n + 1
      OBVIOUS
    <3>2. \A k \in 1..n : k \in 1..(n + 1)
      OBVIOUS
    <3>3. ASSUME NEW k \in T PROVE k \in S \cup {n + 1}
      BY <2>1, <2>2, <3>1, Zenon
    <3>4. ASSUME NEW k \in S PROVE k \in T /\ k \in 1..n
      BY <2>1, <2>2, <3>2, Zenon
    <3> QED BY <3>3, <3>4, Zenon
  <2>4. CASE S = {}
    BY <2>4 DEF HeaderMatch
  <2>5. CASE S # {}
    <3> HIDE DEF S, T
    <3>1. First(S) \in S /\ First(T) = First(S)
      BY <2>1, <2>3, <2>5, FirstStays, Zenon
    <3>2. HeaderMatch(request) = headerRules[First(S)].pool
      BY <2>5 DEF HeaderMatch, First, S
    <3>3. HeaderMatch(request)' = headerRules'[First(T)].pool
      BY <2>3, <2>5 DEF HeaderMatch, First, T
    <3>4. headerRules'[First(T)] = headerRules[First(S)]
      BY <2>2, <2>3, <3>1, Zenon
    <3> QED BY <3>2, <3>3, <3>4
  <2> QED BY <2>4, <2>5
<1>2. ASSUME UNCHANGED headerRules, NEW request
      PROVE  Keeps(request)
  <2>1. headerRules' = headerRules
    BY <1>2
  <2>2. HeaderMatch(request)' = HeaderMatch(request)
    BY <2>1 DEF HeaderMatch
  <2> QED BY <2>2
<1>3. ASSUME RouterNext, NEW host \in Hosts
      PROVE  KeepsHost(host)
  <2>1. CASE UNCHANGED hostRules
    BY <2>1 DEF HostMatch
  <2>2. ASSUME NEW h, NEW p, AddHost(h, p) PROVE KeepsHost(host)
    <3>1. CASE h \in DOMAIN hostRules
      BY <2>2, <3>1 DEF AddHost
    <3>2. CASE h \notin DOMAIN hostRules
      BY <2>2, <3>2 DEF AddHost, HostMatch
    <3> QED BY <3>1, <3>2
  <2>3. (\E h, p : AddHost(h, p)) \/ UNCHANGED hostRules
    BY <1>3, Zenon DEF RouterNext, AddHeaderRule, AddExact, AddRegex, AddRule
  <2> HIDE DEF KeepsHost
  <2> QED BY <2>1, <2>2, <2>3, Zenon
<1>4. headerRules \in Seq(Rule) /\ [RouterNext]_routerVars
        => [/\ \A request \in Requests : Keeps(request)
            /\ \A host \in Hosts : KeepsHost(host)]_routerVars
  <2> HIDE DEF Keeps, KeepsHost
  <2> SUFFICES ASSUME headerRules \in Seq(Rule), RouterNext
               PROVE  /\ \A request \in Requests : Keeps(request)
                      /\ \A host \in Hosts : KeepsHost(host)
    OBVIOUS
  <2>1. (\E rule : AddRule(rule)) \/ UNCHANGED headerRules
    BY Zenon DEF RouterNext, AddHeaderRule, AddExact, AddRegex, AddHost
  <2> QED BY <1>1, <1>2, <1>3, <2>1, Zenon
<1> QED BY <1>4, HeaderRulesType, PTL DEF RouterSpec, RulesKeepTheirRequests
-----------------------------------------------------------------------------
(* PathTrie: what the nodes hold.                                             *)

Paths == Seq(Segment \cup {""})
Names == PoolName \cup {""}

Greatest(S) == CHOOSE k \in S : \A j \in S : j <= k

LEMMA GreatestNat ==
    ASSUME NEW n \in Nat, NEW S, S \subseteq 0..n, S # {}
    PROVE  Greatest(S) \in S /\ \A y \in S : y <= Greatest(S)
<1> DEFINE T == {k \in 0..n : n - k \in S}
<1>1. \A y \in S : n - y \in T
  OBVIOUS
<1>2. T \subseteq Nat /\ T # {}
  <2>1. T \subseteq Nat
    OBVIOUS
  <2> HIDE DEF T
  <2> QED BY <1>1, <2>1, Zenon
<1>3. PICK x \in T : \A y \in T : x <= y
  <2> HIDE DEF T
  <2> QED BY <1>2, LeastNat, Zenon
<1>4. n - x \in S /\ \A y \in S : y <= n - x
  BY <1>1, <1>3
<1> QED BY <1>4, Zenon DEF Greatest

LEMMA GreatestIs ==
    ASSUME NEW S, S \subseteq Int, NEW m \in S, \A y \in S : y <= m
    PROVE  Greatest(S) = m
<1>1. \A k \in S : (\A j \in S : j <= k) => k = m
  OBVIOUS
<1> QED BY <1>1, Zenon DEF Greatest

\* A call of Add replaces the pool registered for its own prefix only.
LEMMA RegisteredStep ==
    ASSUME rules \in Seq(Paths \X Names), NEW prefix \in Paths, NEW p \in Names,
           rules' = Append(rules, <<prefix, p>>), NEW node
    PROVE  Registered(node)' = IF Split(prefix) = node THEN p ELSE Registered(node)
<1> DEFINE S == {n \in 1..Len(rules) : Split(rules[n][1]) = node}
           T == {n \in 1..Len(rules)' : Split(rules'[n][1]) = node}
<1>1. PICK n \in Nat : n = Len(rules)
  OBVIOUS
<1>2. /\ Len(rules)' = n + 1 /\ rules'[n + 1] = <<prefix, p>>
      /\ \A k \in 1..n : rules'[k] = rules[k]
  BY <1>1
<1>3. /\ n + 1 \in 1..(n + 1) /\ \A k \in 1..(n + 1) : k \in 1..n \/ k = n + 1
      /\ \A k \in 1..n : k \in 1..(n + 1)
  OBVIOUS
<1>4. CASE Split(prefix) = node
  <2>1. n + 1 \in T
    BY <1>2, <1>3, <1>4
  <2>2. T \subseteq Int /\ \A k \in T : k <= n + 1
    BY <1>2
  <2> HIDE DEF T
  <2>3. Greatest(T) = n + 1
    BY <2>1, <2>2, GreatestIs, Zenon
  <2>4. Registered(node)' = rules'[Greatest(T)][2]
    BY <2>1 DEF Registered, Greatest, T
  <2> QED BY <1>2, <1>4, <2>3, <2>4
<1>5. CASE Split(prefix) # node
  <2>1. T = S
    <3>1. ASSUME NEW k \in T PROVE k \in S
      BY <1>1, <1>2, <1>3, <1>5
    <3>2. ASSUME NEW k \in S PROVE k \in T
      BY <1>1, <1>2, <1>3, <1>5
    <3> HIDE DEF S, T
    <3> QED BY <3>1, <3>2, Zenon
  <2>2. S \subseteq 1..n /\ S \subseteq 0..n
    BY <1>1
  <2> HIDE DEF S, T
  <2>3. CASE S = {}
    BY <1>5, <2>1, <2>3 DEF Registered, S, T
  <2>4. CASE S # {}
    <3>1. Greatest(S) \in S
      BY <2>2, <2>4, GreatestNat, Zenon
    <3>2. Registered(node)' = rules'[Greatest(T)][2]
      BY <2>1, <2>4 DEF Registered, Greatest, T
    <3>3. Registered(node) = rules[Greatest(S)][2]
      BY <2>4 DEF Registered, Greatest, S
    <3> QED BY <1>2, <1>5, <2>1, <2>2, <3>1, <3>2, <3>3, Zenon
  <2> QED BY <2>3, <2>4
<1> QED BY <1>4, <1>5

\* Every node's prefixes are nodes.
Closed == \A node \in DOMAIN pool : \A k \in 0..Len(node) : SubSeq(node, 1, k) \in DOMAIN pool

\* A node holds what was last registered for it; nothing was for what is no node.
Remembers ==
    \A node \in Seq(Segment) :
        Registered(node) = IF node \in DOMAIN pool THEN pool[node] ELSE ""

TrieInv ==
    /\ rules \in Seq(Paths \X Names)
    /\ DOMAIN pool \subseteq Seq(Segment) /\ <<>> \in DOMAIN pool
    /\ \A node \in DOMAIN pool : pool[node] \in Names
    /\ Closed
    /\ Remembers

LEMMA TrieInit == RouterInit => TrieInv
<1> SUFFICES ASSUME RouterInit PROVE TrieInv
  OBVIOUS
<1>1. rules = <<>>
  BY DEF RouterInit, NewPathTrie
<1>2. pool = [node \in {<<>>} |-> ""]
  BY DEF RouterInit, NewPathTrie
<1>3. ASSUME NEW node PROVE Registered(node) = ""
  <2>1. 1..Len(rules) = {}
    BY <1>1
  <2>2. {n \in 1..Len(rules) : Split(rules[n][1]) = node} = {}
    BY <2>1
  <2> QED BY <2>2 DEF Registered
<1>4. \A k \in 0..0 : SubSeq(<<>>, 1, k) = <<>>
  OBVIOUS
<1>5. Closed
  BY <1>2, <1>4 DEF Closed
<1>6. rules \in Seq(Paths \X Names) /\ <<>> \in Seq(Segment)
  BY <1>1
<1>7. DOMAIN pool = {<<>>} /\ pool[<<>>] = ""
  BY <1>2, Zenon
<1> QED BY <1>3, <1>5, <1>6, <1>7, Zenon DEF TrieInv, Remembers, Names

LEMMA PrefixOfPrefix ==
    ASSUME NEW s \in Seq(Segment), NEW k \in 0..Len(s)
    PROVE  /\ SubSeq(s, 1, k) \in Seq(Segment) /\ Len(SubSeq(s, 1, k)) = k
           /\ \A j \in 0..k : SubSeq(SubSeq(s, 1, k), 1, j) = SubSeq(s, 1, j)
           /\ SubSeq(s, 1, Len(s)) = s
  OBVIOUS

LEMMA AddKeepsTrie ==
    ASSUME TrieInv, NEW prefix \in Paths, NEW p \in Names, Add(prefix, p),
           Split(prefix) \in Seq(Segment)
    PROVE  TrieInv'
<1>1. PICK leaf \in Seq(Segment) : leaf = Split(prefix)
  OBVIOUS
<1>2. pool' = [node \in DOMAIN pool \cup Prefixes(leaf) |->
                 CASE node = leaf -> p
                   [] node # leaf /\ node \in DOMAIN pool -> pool[node]
                   [] OTHER -> ""]
  BY <1>1 DEF Add
<1>3. DOMAIN pool' = DOMAIN pool \cup Prefixes(leaf)
  BY <1>2
<1>4. Prefixes(leaf) \subseteq Seq(Segment) /\ leaf \in Prefixes(leaf)
  BY PrefixOfPrefix DEF Prefixes
<1>5. rules' = Append(rules, <<prefix, p>>) /\ rules' \in Seq(Paths \X Names)
  <2>1. rules' = Append(rules, <<prefix, p>>)
    BY DEF Add
  <2>2. rules \in Seq(Paths \X Names) /\ <<prefix, p>> \in Paths \X Names
    BY DEF TrieInv
  <2> QED BY <2>1, <2>2
<1>6. ASSUME NEW node \in DOMAIN pool'
      PROVE  pool'[node] = IF node = leaf THEN p
                           ELSE IF node \in DOMAIN pool THEN pool[node] ELSE ""
  BY <1>2, <1>3, <1>6
<1>7. \A node \in DOMAIN pool' : pool'[node] \in Names
  BY <1>6 DEF TrieInv, Names
<1>8. Closed'
  <2> SUFFICES ASSUME NEW node \in DOMAIN pool', NEW k \in 0..Len(node)
               PROVE  SubSeq(node, 1, k) \in DOMAIN pool'
    BY DEF Closed
  <2>1. CASE node \in DOMAIN pool
    BY <1>3, <2>1 DEF TrieInv, Closed
  <2>2. CASE node \in Prefixes(leaf)
    <3>1. PICK m \in 0..Len(leaf) : node = SubSeq(leaf, 1, m)
      BY <2>2 DEF Prefixes
    <3>2. Len(node) = m /\ SubSeq(node, 1, k) = SubSeq(leaf, 1, k)
      BY <3>1, PrefixOfPrefix
    <3>3. k \in 0..Len(leaf)
      BY <3>1, <3>2
    <3> QED BY <1>3, <3>2, <3>3 DEF Prefixes
  <2> QED BY <1>3, <2>1, <2>2
<1>9. Remembers'
  <2> SUFFICES ASSUME NEW node \in Seq(Segment)
               PROVE  Registered(node)' = IF node \in DOMAIN pool' THEN pool'[node] ELSE ""
    BY DEF Remembers
  <2>1. Registered(node)' = IF leaf = node THEN p ELSE Registered(node)
    BY <1>1, <1>5, RegisteredStep DEF TrieInv
  <2>2. Registered(node) = IF node \in DOMAIN pool THEN pool[node] ELSE ""
    BY DEF TrieInv, Remembers
  <2> QED BY <1>3, <1>4, <1>6, <2>1, <2>2
<1> QED BY <1>3, <1>4, <1>5, <1>7, <1>8, <1>9 DEF TrieInv
-----------------------------------------------------------------------------
(* PathTrie: what the two loops compute.                                      *)

\* f is what a loop from 1 to m computes that starts at s0.
Loop(f, m, s0, Step) == f[0] = s0 /\ \A k \in 1..m : f[k] = Step[k][f[k - 1]]

\* Such a loop ends, in S when its steps stay in S.
LEMMA LoopEnds ==
    ASSUME NEW S, NEW s0 \in S, NEW n \in Nat, NEW Step,
           \A k \in 1..n : \A x \in S : Step[k][x] \in S
    PROVE  \E f \in [0..n -> S] : Loop(f, n, s0, Step)
<1> DEFINE Ends(m) == \E f \in [0..m -> S] : Loop(f, m, s0, Step)
           P == {m \in 0..n : Ends(m)}
<1>1. 0 \in P
  <2>1. Loop([k \in 0..0 |-> s0], 0, s0, Step)
    BY DEF Loop
  <2>2. [k \in 0..0 |-> s0] \in [0..0 -> S] /\ 0 \in 0..n
    OBVIOUS
  <2> QED BY <2>1, <2>2, Zenon
<1>2. ASSUME NEW m \in 1..n, m - 1 \in P PROVE m \in P
  <2>1. PICK f \in [0..(m - 1) -> S] : Loop(f, m - 1, s0, Step)
    BY <1>2, Zenon
  <2> DEFINE g == [k \in 0..m |-> IF k = m THEN Step[m][f[m - 1]] ELSE f[k]]
  <2>2. m \in Int /\ m > 0 /\ m \in 0..n
    OBVIOUS
  <2>3. f[m - 1] \in S /\ Step[m][f[m - 1]] \in S
    BY <2>2
  <2>4. g \in [0..m -> S]
    BY <2>2, <2>3
  <2>5. g[0] = s0
    BY <2>1, <2>2 DEF Loop
  <2>6. ASSUME NEW k \in 1..m PROVE g[k] = Step[k][g[k - 1]]
    <3>1. CASE k = m
      BY <2>2, <3>1
    <3>2. CASE k # m
      <4>1. k \in 1..(m - 1) /\ k \in 0..m /\ k - 1 \in 0..m /\ k - 1 # m
        BY <2>2, <3>2
      <4>2. f[k] = Step[k][f[k - 1]]
        BY <2>1, <4>1 DEF Loop
      <4> QED BY <3>2, <4>1, <4>2
    <3> QED BY <3>1, <3>2
  <2>7. Loop(g, m, s0, Step)
    <3> HIDE DEF g
    <3> QED BY <2>5, <2>6 DEF Loop
  <2> QED BY <2>2, <2>4, <2>7, Zenon
<1>3. n \in 0..n
  OBVIOUS
<1>4. n \in P
  <2> HIDE DEF P
  <2> QED BY <1>1, <1>2, <1>3, UpTo
<1> QED BY <1>4, Zenon

LEMMA SeqElements ==
    ASSUME NEW W, NEW s \in Seq(W)
    PROVE  Len(s) \in Nat /\ \A k \in 1..Len(s) : s[k] \in W
  OBVIOUS

\* Both loops of trie.go skip the empty segments.
LEMMA SplitType ==
    ASSUME NEW path \in Paths
    PROVE  Split(path) \in Seq(Segment)
<1>1. Len(path) \in Nat /\ \A k \in 1..Len(path) : path[k] \in Segment \cup {""}
  BY SeqElements, Zenon DEF Paths
<1>2. PICK n \in Nat : n = Len(path)
  BY <1>1, Zenon
<1> DEFINE kept[k \in 0..Len(path)] ==
             IF k = 0 THEN <<>>
             ELSE IF path[k] = "" THEN kept[k - 1] ELSE Append(kept[k - 1], path[k])
           Step == [k \in 1..n |-> [x \in Seq(Segment) |->
                      IF path[k] = "" THEN x ELSE Append(x, path[k])]]
<1>3. ASSUME NEW k \in 1..n, NEW x \in Seq(Segment) PROVE Step[k][x] \in Seq(Segment)
  <2>1. path[k] # "" => path[k] \in Segment
    BY <1>1, <1>2, Zenon
  <2>2. ASSUME NEW y \in Segment PROVE Append(x, y) \in Seq(Segment)
    OBVIOUS
  <2> QED BY <2>1, <2>2, Zenon
<1>4. <<>> \in Seq(Segment)
  OBVIOUS
<1>5. PICK f \in [0..n -> Seq(Segment)] : Loop(f, n, <<>>, Step)
  <2> HIDE DEF Step
  <2> QED BY <1>3, <1>4, LoopEnds, Zenon
<1>6. f = [k \in 0..Len(path) |->
             IF k = 0 THEN <<>>
             ELSE IF path[k] = "" THEN f[k - 1] ELSE Append(f[k - 1], path[k])]
  <2>1. ASSUME NEW k \in 1..n
        PROVE  f[k] = IF path[k] = "" THEN f[k - 1] ELSE Append(f[k - 1], path[k])
    <3>1. f[k - 1] \in Seq(Segment)
      OBVIOUS
    <3> QED BY <1>5, <3>1, Zenon DEF Loop
  <2>2. \A k \in 0..n : k = 0 \/ k \in 1..n
    OBVIOUS
  <2>3. f = [k \in 0..n |-> f[k]] /\ f[0] = <<>>
    BY <1>5 DEF Loop
  <2> QED BY <1>2, <2>1, <2>2, <2>3, Zenon
<1>7. kept = [k \in 0..Len(path) |->
                IF k = 0 THEN <<>>
                ELSE IF path[k] = "" THEN kept[k - 1] ELSE Append(kept[k - 1], path[k])]
  BY <1>6, Zenon
<1> HIDE DEF kept
<1>8. kept[0] = <<>>
  <2>1. 0 \in 0..n
    OBVIOUS
  <2> QED BY <1>2, <1>7, <2>1, Zenon
<1>9. ASSUME NEW k \in 1..n, kept[k - 1] \in Seq(Segment) PROVE kept[k] \in Seq(Segment)
  <2>1. kept[k] = IF path[k] = "" THEN kept[k - 1] ELSE Append(kept[k - 1], path[k])
    <3>1. k \in 0..n /\ k # 0
      OBVIOUS
    <3> QED BY <1>2, <1>7, <3>1, Zenon
  <2>2. path[k] # "" => path[k] \in Segment
    BY <1>1, <1>2, Zenon
  <2>3. ASSUME NEW y \in Segment PROVE Append(kept[k - 1], y) \in Seq(Segment)
    BY <1>9
  <2> QED BY <1>9, <2>1, <2>2, <2>3, Zenon
<1>10. kept[n] \in Seq(Segment)
  <2> DEFINE P == {k \in 0..n : kept[k] \in Seq(Segment)}
  <2>1. 0 \in P /\ n \in 0..n
    BY <1>4, <1>8
  <2>2. ASSUME NEW k \in 1..n, k - 1 \in P PROVE k \in P
    BY <1>9, <2>2
  <2>3. n \in P
    <3> HIDE DEF P
    <3> QED BY <2>1, <2>2, UpTo, Zenon
  <2> QED BY <2>3
<1> QED BY <1>2, <1>10, Zenon DEF Split, kept

\* x is the last pool registered below the root among the first k prefixes.
LastOf(x, reg, k) ==
    \/ x = "" /\ \A j \in 1..k : reg[j] = ""
    \/ x # "" /\ \E m \in 1..k : x = reg[m] /\ \A j \in (m + 1)..k : reg[j] = ""

LEMMA LastStep ==
    ASSUME NEW reg, NEW x, NEW k \in Nat \ {0}, LastOf(x, reg, k - 1)
    PROVE  LastOf(IF reg[k] # "" THEN reg[k] ELSE x, reg, k)
<1>1. CASE reg[k] # ""
  <2>1. k \in 1..k /\ \A j : j \notin (k + 1)..k
    OBVIOUS
  <2> QED BY <1>1, <2>1, Zenon DEF LastOf
<1>2. CASE reg[k] = ""
  <2>1. \A j \in 1..k : j \in 1..(k - 1) \/ j = k
    OBVIOUS
  <2>2. \A m \in 1..(k - 1) : m \in 1..k /\ \A j \in (m + 1)..k : j \in (m + 1)..(k - 1) \/ j = k
    OBVIOUS
  <2> QED BY <1>2, <2>1, <2>2, Zenon DEF LastOf
<1> QED BY <1>1, <1>2, Zenon

\* What the loop of Match knows after k segments.
Walked(w, segs, reg, k) ==
    /\ w \in [found : BOOLEAN, last : Names]
    /\ w.found <=> SubSeq(segs, 1, k) \in DOMAIN pool
    /\ LastOf(w.last, reg, k)

Turn(up, node) ==
    IF ~up.found \/ node \notin DOMAIN pool
    THEN [up EXCEPT !.found = FALSE]
    ELSE [up EXCEPT !.last = IF pool[node] # "" THEN pool[node] ELSE @]

LEMMA TurnWalks ==
    ASSUME TrieInv, NEW segs \in Seq(Segment), NEW reg, NEW k \in 1..Len(segs),
           \A j \in 0..Len(segs) : reg[j] = Registered(SubSeq(segs, 1, j)),
           NEW up, Walked(up, segs, reg, k - 1)
    PROVE  Walked(Turn(up, SubSeq(segs, 1, k)), segs, reg, k)
<1>1. k \in 0..Len(segs) /\ k - 1 \in 0..Len(segs) /\ k \in Nat \ {0}
  OBVIOUS
<1>2. PICK node \in Seq(Segment) : node = SubSeq(segs, 1, k)
  BY <1>1, PrefixOfPrefix, Zenon
<1>3. PICK above \in Seq(Segment) : above = SubSeq(segs, 1, k - 1)
  BY <1>1, PrefixOfPrefix, Zenon
<1>4. node \in DOMAIN pool => above \in DOMAIN pool
  <2>1. Len(node) = k /\ SubSeq(node, 1, k - 1) = above /\ k - 1 \in 0..k
    BY <1>2, <1>3, PrefixOfPrefix
  <2> QED BY <2>1, Zenon DEF TrieInv, Closed
<1>5. reg[k] = IF node \in DOMAIN pool THEN pool[node] ELSE ""
  BY <1>1, <1>2, Zenon DEF TrieInv, Remembers
<1>6. LastOf(IF reg[k] # "" THEN reg[k] ELSE up.last, reg, k)
  BY <1>1, LastStep, Zenon DEF Walked
<1>7. PICK f, l : up = [found |-> f, last |-> l] /\ f \in BOOLEAN /\ l \in Names
  BY DEF Walked
<1>8. f <=> above \in DOMAIN pool
  BY <1>3, <1>7 DEF Walked
<1>9. up.last = l
  BY <1>7
<1>10. CASE node \in DOMAIN pool
  <2>1. pool[node] \in Names
    BY <1>10 DEF TrieInv
  <2>2. Turn(up, node) = [found |-> TRUE, last |-> IF reg[k] # "" THEN reg[k] ELSE l]
    BY <1>4, <1>5, <1>7, <1>8, <1>10 DEF Turn
  <2> DEFINE x == IF reg[k] # "" THEN reg[k] ELSE l
  <2>3. x \in Names /\ TRUE \in BOOLEAN
    BY <1>5, <1>7, <1>10, <2>1, Zenon
  <2>4. LastOf(x, reg, k)
    BY <1>6, <1>9, Zenon
  <2> HIDE DEF x
  <2>5. Turn(up, node) = [found |-> TRUE, last |-> x]
    BY <2>2, Zenon DEF x
  <2>6. PICK w : w = Turn(up, node)
    OBVIOUS
  <2>7. w \in [found : BOOLEAN, last : Names] /\ w.found = TRUE /\ w.last = x
    BY <2>3, <2>5, <2>6
  <2> QED BY <1>2, <1>10, <2>4, <2>6, <2>7, Zenon DEF Walked
<1>11. CASE node \notin DOMAIN pool
  <2>1. Turn(up, node) = [found |-> FALSE, last |-> l]
    BY <1>7, <1>11, Zenon DEF Turn
  <2>2. LastOf(l, reg, k)
    BY <1>5, <1>6, <1>9, <1>11, Zenon
  <2>3. PICK w : w = Turn(up, node)
    OBVIOUS
  <2>4. w \in [found : BOOLEAN, last : Names] /\ w.found = FALSE /\ w.last = l
    BY <1>7, <2>1, <2>3
  <2> QED BY <1>2, <1>11, <2>2, <2>3, <2>4, Zenon DEF Walked
<1> QED BY <1>10, <1>11

\* The loop of Match ends with the last pool registered below the root.
LEMMA MatchWalks ==
    ASSUME TrieInv, NEW path, Split(path) \in Seq(Segment), NEW reg,
           \A j \in 0..Len(Split(path)) : reg[j] = Registered(SubSeq(Split(path), 1, j))
    PROVE  \E last : /\ LastOf(last, reg, Len(Split(path)))
                     /\ Match(path) = IF last # "" THEN last ELSE pool[<<>>]
<1> DEFINE segs == Split(path)
<1>1. segs \in Seq(Segment) /\ segs = Split(path)
  OBVIOUS
<1>2. PICK n \in Nat : n = Len(segs)
  BY <1>1
<1> DEFINE walk[k \in 0..Len(segs)] ==
             IF k = 0 THEN [found |-> TRUE, last |-> ""]
             ELSE LET node == SubSeq(segs, 1, k)
                      up == walk[k - 1]
                  IN  IF ~up.found \/ node \notin DOMAIN pool
                        THEN [up EXCEPT !.found = FALSE]
                        ELSE [up EXCEPT !.last = IF pool[node] # "" THEN pool[node] ELSE @]
           S == [found : BOOLEAN, last : Names]
           Step == [k \in 1..n |-> [up \in S |-> Turn(up, SubSeq(segs, 1, k))]]
           w0 == [found |-> TRUE, last |-> ""]
<1>3. ASSUME NEW up \in S, NEW node PROVE Turn(up, node) \in S
  <2>1. node \in DOMAIN pool => pool[node] \in Names
    BY DEF TrieInv
  <2>2. CASE ~up.found \/ node \notin DOMAIN pool
    BY <2>2 DEF Turn
  <2>3. CASE ~(~up.found \/ node \notin DOMAIN pool)
    BY <2>1, <2>3 DEF Turn
  <2> QED BY <2>2, <2>3
<1>4. w0 \in S
  BY DEF Names
<1>5. PICK f \in [0..n -> S] : Loop(f, n, w0, Step)
  <2>1. \A k \in 1..n : \A up \in S : Step[k][up] \in S
    BY <1>3, Zenon
  <2> HIDE DEF Step, S, w0
  <2> QED BY <1>4, <2>1, LoopEnds, Zenon
<1>6. f = [k \in 0..n |-> IF k = 0 THEN w0 ELSE Turn(f[k - 1], SubSeq(segs, 1, k))]
  <2> HIDE DEF w0, S
  <2>1. ASSUME NEW k \in 1..n PROVE f[k] = Turn(f[k - 1], SubSeq(segs, 1, k))
    <3>1. f[k - 1] \in S
      OBVIOUS
    <3> QED BY <1>5, <3>1, Zenon DEF Loop
  <2>2. \A k \in 0..n : k = 0 \/ k \in 1..n
    OBVIOUS
  <2>3. f = [k \in 0..n |-> f[k]] /\ f[0] = w0
    BY <1>5 DEF Loop
  <2> QED BY <2>1, <2>2, <2>3, Zenon
<1> HIDE DEF segs
<1>7. walk = [k \in 0..n |-> IF k = 0 THEN w0 ELSE Turn(walk[k - 1], SubSeq(segs, 1, k))]
  BY <1>2, <1>6, Zenon DEF Turn
<1> HIDE DEF walk
<1> DEFINE P == {k \in 0..n : Walked(walk[k], segs, reg, k)}
<1>8. 0 \in P
  <2>1. 0 \in 0..n /\ SubSeq(segs, 1, 0) = <<>> /\ \A j : j \notin 1..0
    OBVIOUS
  <2>2. walk[0] = w0
    BY <1>7, <2>1, Zenon
  <2>3. w0.found = TRUE /\ w0.last = ""
    OBVIOUS
  <2>4. <<>> \in DOMAIN pool
    BY DEF TrieInv
  <2> HIDE DEF w0
  <2> QED BY <1>4, <2>1, <2>2, <2>3, <2>4, Zenon DEF Walked, LastOf
<1>9. ASSUME NEW k \in 1..n, k - 1 \in P PROVE k \in P
  <2>1. k \in 0..n /\ k # 0
    OBVIOUS
  <2>2. walk[k] = Turn(walk[k - 1], SubSeq(segs, 1, k))
    BY <1>7, <2>1, Zenon
  <2>3. Walked(walk[k - 1], segs, reg, k - 1)
    BY <1>9, Zenon
  <2>4. Walked(walk[k], segs, reg, k)
    BY <1>1, <1>2, <2>2, <2>3, TurnWalks, Zenon
  <2> QED BY <2>1, <2>4, Zenon
<1>10. Walked(walk[n], segs, reg, n)
  <2>1. n \in 0..n
    OBVIOUS
  <2>2. n \in P
    <3> HIDE DEF P
    <3> QED BY <1>8, <1>9, <2>1, UpTo, Zenon
  <2> QED BY <2>2, Zenon
<1>11. LastOf(walk[n].last, reg, n)
  BY <1>10, Zenon DEF Walked
<1>12. Match(path) = IF walk[n].last # "" THEN walk[n].last ELSE pool[<<>>]
  <2>1. Match(path) = IF walk[Len(segs)].last # "" THEN walk[Len(segs)].last ELSE pool[<<>>]
    BY Zenon DEF Match, walk, segs
  <2> QED BY <1>2, <2>1, Zenon
<1> QED BY <1>1, <1>2, <1>11, <1>12, Zenon

LEMMA Deepest ==
    ASSUME TrieInv, NEW path \in Paths
    PROVE  Match(path) = LongestPrefix(path)
<1> DEFINE segs == Split(path)
           reg == [k \in 0..Len(segs) |-> Registered(SubSeq(segs, 1, k))]
           hits == {k \in 0..Len(segs) : Registered(SubSeq(segs, 1, k)) # ""}
<1>1. segs \in Seq(Segment) /\ Split(path) \in Seq(Segment)
  BY SplitType
<1>2. PICK n \in Nat : n = Len(segs)
  BY <1>1
<1>3. \A j \in 0..n : reg[j] = Registered(SubSeq(segs, 1, j))
  BY <1>2, Zenon
<1>4. PICK last : /\ LastOf(last, reg, n)
                  /\ Match(path) = IF last # "" THEN last ELSE pool[<<>>]
  <2>1. \A j \in 0..Len(Split(path)) : reg[j] = Registered(SubSeq(Split(path), 1, j))
    BY Zenon
  <2> HIDE DEF reg
  <2> QED BY <1>1, <1>2, <2>1, MatchWalks, Zenon
<1>5. /\ hits = {} => LongestPrefix(path) = ""
      /\ hits # {} => LongestPrefix(path) = Registered(SubSeq(segs, 1, Greatest(hits)))
  BY Zenon DEF LongestPrefix, Greatest
<1>6. hits \subseteq 0..n /\ \A k \in 0..n : k \in hits <=> reg[k] # ""
  BY <1>2, <1>3, Zenon
<1>7. reg[0] = pool[<<>>] /\ 0 \in 0..n
  <2>1. 0 \in 0..n /\ SubSeq(segs, 1, 0) = <<>> /\ <<>> \in Seq(Segment)
    BY <1>1
  <2>2. Registered(<<>>) = pool[<<>>]
    BY <2>1, Zenon DEF TrieInv, Remembers
  <2> QED BY <1>3, <2>1, <2>2, Zenon
<1> HIDE DEF segs, reg, hits
<1>8. ASSUME NEW m \in hits, \A k \in hits : k <= m
      PROVE  LongestPrefix(path) = reg[m]
  <2>1. \A k \in 0..n : k \in Int
    OBVIOUS
  <2>2. hits \subseteq Int /\ m \in 0..n
    BY <1>6, <2>1, Zenon
  <2>3. Greatest(hits) = m
    BY <1>8, <2>2, GreatestIs, Zenon
  <2> QED BY <1>3, <1>5, <2>2, <2>3, Zenon
<1>9. CASE last # ""
  <2>1. PICK m \in 1..n : last = reg[m] /\ \A j \in (m + 1)..n : reg[j] = ""
    BY <1>4, <1>9, Zenon DEF LastOf
  <2>2. m \in 0..n /\ \A k \in 0..n : k <= m \/ k \in (m + 1)..n
    OBVIOUS
  <2>3. m \in hits /\ \A k \in hits : k <= m
    BY <1>6, <1>9, <2>1, <2>2, Zenon
  <2> QED BY <1>4, <1>8, <1>9, <2>1, <2>3, Zenon
<1>10. CASE last = ""
  <2>1. \A j \in 1..n : reg[j] = ""
    BY <1>4, <1>10, Zenon DEF LastOf
  <2>2. \A k \in 0..n : k = 0 \/ k \in 1..n
    OBVIOUS
  <2>3. \A k \in hits : k = 0
    BY <1>6, <2>1, <2>2, Zenon
  <2>4. CASE reg[0] = ""
    <3>1. hits = {}
      BY <1>6, <1>7, <2>3, <2>4, Zenon
    <3> QED BY <1>4, <1>5, <1>7, <1>10, <2>4, <3>1, Zenon
  <2>5. CASE reg[0] # ""
    <3>1. 0 <= 0
      OBVIOUS
    <3>2. 0 \in hits /\ \A k \in hits : k <= 0
      BY <1>6, <1>7, <2>3, <2>5, <3>1, Zenon
    <3> QED BY <1>4, <1>7, <1>8, <1>10, <3>2, Zenon
  <2> QED BY <2>4, <2>5
<1> QED BY <1>9, <1>10

LEMMA SegmentsArePaths ==
    ASSUME NEW n \in Nat
    PROVE  Segments(n) \subseteq Paths
<1>1. ASSUME NEW W, NEW k \in Nat, NEW s \in [1..k -> W] PROVE s \in Seq(W)
  OBVIOUS
<1>2. \A k \in 0..n : k \in Nat
  OBVIOUS
<1> QED BY <1>1, <1>2, Zenon DEF Segments, Paths

\* After any calls of Add, with repeated, overlapping and emptied rules and doubled
\* slashes, PathTrie.Match gives every path the pool of its longest registered
\* prefix, whatever the sets of segments and pools and the number of rules.
THEOREM MatchesDeepest == RouterSpec => []MatchIsDeepest
<1>1. TrieInv /\ [RouterNext]_routerVars => TrieInv'
  <2> SUFFICES ASSUME TrieInv, [RouterNext]_routerVars PROVE TrieInv'
    OBVIOUS
  <2>1. ASSUME NEW prefix \in Segments(MaxLen), NEW p \in Names, Add(prefix, p)
        PROVE  TrieInv'
    <3>1. prefix \in Paths
      BY SegmentsArePaths, TrieAssumption
    <3> QED BY <2>1, <3>1, SplitType, AddKeepsTrie
  <2>2. CASE UNCHANGED <<pool, rules>>
    <3>1. pool' = pool /\ rules' = rules
      BY <2>2
    <3>2. \A node : Registered(node)' = Registered(node)
      BY <3>1 DEF Registered
    <3> QED BY <3>1, <3>2, Zenon DEF TrieInv, Closed, Remembers
  <2> QED BY <2>1, <2>2 DEF RouterNext, AddPrefix, AddHeaderRule, AddExact, AddRegex, AddRule, AddHost,
                            Names, routerVars, trieVars
<1>2. TrieInv => MatchIsDeepest
  <2>1. MaxLen \in Nat
    BY TrieAssumption, Zenon
  <2>2. MaxLen + 1 \in Nat
    BY <2>1
  <2> QED BY <2>2, SegmentsArePaths, Deepest DEF MatchIsDeepest
<1> QED BY <1>1, <1>2, TrieInit, PTL DEF RouterSpec
=============================================================================
