------------------------ MODULE TableSelectorsProofs ------------------------
(***************************************************************************)
(* Proofs, for any number of requests, backends, admin calls and weight     *)
(* updates, of what the proxy promises with the selectors of TableSelectors.*)
(*                                                                          *)
(* The inductive invariant is TypeInv and                                   *)
(*   Shape      Next runs on a list that is not empty, with its loop index  *)
(*              at the start until the fallback;                            *)
(*   Truthful   the histories agree with the present, and what is fit still *)
(*              lies before the index of the fallback loop;                 *)
(*   Picked, HasTable   WeightedRoutesToHealthy and TablesNeverEmpty, two   *)
(*              of the properties, for one request.                         *)
(* The counters need Real besides: every table holds backends, so that what *)
(* is counted is counted on one.                                            *)
(***************************************************************************)
EXTENDS TableSelectors, TLAPS

PCs == {"idle", "scan", "next", "build", "publish", "reload", "lookup", "fallback", "picked", "serve"}

TypeInv ==
    /\ backends \in Seq(Backend) /\ created \subseteq Backend
    /\ health \in [Backend -> Health] /\ weight \in [Backend -> Int]
    /\ pc \in [Goroutine -> PCs]
    /\ i \in [Goroutine -> Nat \ {0}]
    /\ out \in [Goroutine -> Seq(Backend)]
    /\ sick \in [Goroutine -> SUBSET Backend] /\ fit \in [Goroutine -> SUBSET Backend]
    /\ DOMAIN sel = Goroutine /\ DOMAIN local = Goroutine

Shape(g) ==
    /\ pc[g] \in {"next", "build"} => Len(out[g]) > 0
    /\ pc[g] \in {"idle", "next", "build", "publish", "reload", "lookup"} => i[g] = 1

\* The fallback loop of g has not passed b.
Ahead(g, b) == \E k \in DOMAIN out[g] : k >= i[g] /\ out[g][k] = b

Truthful(g) ==
    /\ \A b \in sick[g] : health[b] # "healthy"
    /\ pc[g] = "fallback" => \A b \in fit[g] : health[b] = "healthy" /\ Ahead(g, b)

Picked(g) ==
    algorithm = "weighted_round_robin" /\ pc[g] = "picked" => sel[g] \notin sick[g]

HasTable(g) ==
    /\ pc[g] \in {"reload", "lookup"} => table # <<>>
    /\ pc[g] \in {"publish", "reload", "lookup"} => local[g] # <<>>

IndInv ==
    TypeInv /\ \A g \in Goroutine : Shape(g) /\ Truthful(g) /\ Picked(g) /\ HasTable(g)

-----------------------------------------------------------------------------
(* The tables *)

\* Rebuild gives each backend of a list at least one slot.
LEMMA ExpandOK ==
    ASSUME weight \in [Backend -> Int], NEW list \in Seq(Backend), Len(list) > 0
    PROVE  /\ \A p \in DOMAIN Expand(list) : Expand(list)[p] \in Backend
           /\ Expand(list) # <<>>
<1>1. DOMAIN list = 1..Len(list) /\ 1 \in DOMAIN list /\ \A k \in DOMAIN list : list[k] \in Backend
  OBVIOUS
<1>2. DOMAIN Expand(list) = UNION {{k} \X (1..Slots(list[k])) : k \in DOMAIN list}
  BY Zenon DEF Expand
<1>3. ASSUME NEW p \in DOMAIN Expand(list) PROVE Expand(list)[p] \in Backend
  <2>1. PICK k \in DOMAIN list : p \in {k} \X (1..Slots(list[k]))
    BY <1>2, <1>3, Zenon
  <2>2. p[1] = k
    BY <2>1
  <2>3. Expand(list)[p] = list[p[1]]
    BY <1>2, <1>3, Zenon DEF Expand
  <2> QED BY <1>1, <2>2, <2>3, Zenon
<1>4. Slots(list[1]) \in Int /\ Slots(list[1]) >= 1
  BY <1>1 DEF Slots
<1>5. <<1, 1>> \in {1} \X (1..Slots(list[1]))
  BY <1>4
<1>6. <<1, 1>> \in DOMAIN Expand(list)
  BY <1>1, <1>2, <1>5, Zenon
<1>7. \A p : p \notin DOMAIN <<>>
  OBVIOUS
<1> QED BY <1>3, <1>6, <1>7, Zenon

\* Build gives each backend of a list at least one key.
LEMMA RingOK ==
    ASSUME NEW list \in Seq(Backend), Len(list) > 0
    PROVE  /\ \A p \in DOMAIN Ring(list) : p \in Nat
           /\ Ring(list) # <<>>
<1>1. 1 \in DOMAIN list /\ \A k \in DOMAIN list : list[k] \in Backend
  OBVIOUS
<1>2. \A b \in Backend : Points(b) \subseteq Nat /\ Points(b) # {}
  BY TableAssumption, Zenon DEF Points
<1>3. DOMAIN Ring(list) = UNION {Points(list[k]) : k \in DOMAIN list}
  BY Zenon DEF Ring
<1>4. \A p \in DOMAIN Ring(list) : p \in Nat
  BY <1>1, <1>2, <1>3, Zenon
<1>5. PICK p : p \in Points(list[1])
  BY <1>1, <1>2, Zenon
<1>6. p \in DOMAIN Ring(list)
  BY <1>1, <1>3, <1>5, Zenon
<1>7. \A q : q \notin DOMAIN <<>>
  OBVIOUS
<1> QED BY <1>4, <1>6, <1>7, Zenon
-----------------------------------------------------------------------------
(* The steps *)

LEMMA SliceType ==
    ASSUME NEW S, NEW s \in Seq(S)
    PROVE  /\ \A e \in S : Append(s, e) \in Seq(S)
           /\ \A k \in DOMAIN s : s[k] \in S
           /\ \A k \in DOMAIN s : SubSeq(s, 1, k - 1) \in Seq(S) /\ SubSeq(s, k + 1, Len(s)) \in Seq(S)
           /\ \A z \in Seq(S) : s \o z \in Seq(S)
  OBVIOUS

LEMMA TypeInit == Init => TypeInv
  BY PoolAssumption, TableAssumption DEF Init, InitProxy, NewPool, TypeInv, PCs, Health

LEMMA ReturnType ==
    ASSUME TypeInv, NEW g \in Goroutine, Return(g),
           UNCHANGED <<backends, created, health, weight>>, DOMAIN local' = Goroutine
    PROVE  TypeInv'
  BY DEF TypeInv, PCs, Return

LEMMA ProxyType ==
    ASSUME TypeInv, NEW g \in Goroutine, Proxy(g)
    PROVE  TypeInv'
<1> USE DEF TypeInv, PCs
<1>1. UNCHANGED tableVars
  BY DEF Proxy
<1>2. CASE ServeHTTP(g)
  BY <1>1, <1>2 DEF ServeHTTP, Well, Members, tableVars
<1>3. CASE HealthyStep(g)
  <2>1. IsHealthy(backends[i[g]]) => Append(out[g], backends[i[g]]) \in Seq(Backend)
    BY <1>3 DEF HealthyStep
  <2>2. out' \in [Goroutine -> Seq(Backend)]
    BY <1>3, <2>1 DEF HealthyStep
  <2>3. i' \in [Goroutine -> Nat \ {0}]
    BY <1>3 DEF HealthyStep
  <2> QED BY <1>1, <1>3, <2>2, <2>3, Zenon DEF HealthyStep, tableVars
<1>4. CASE HealthyEnd(g)
  <2>1. CASE Return(g)
    BY <1>1, <1>4, <2>1, ReturnType DEF HealthyEnd, tableVars
  <2>2. CASE /\ pc' = [pc EXCEPT ![g] = "next"] /\ i' = [i EXCEPT ![g] = 1]
             /\ fit' = [fit EXCEPT ![g] = {}] /\ UNCHANGED <<out, sel, sick, gone>>
    BY <1>1, <1>4, <2>2, SMTT(20) DEF HealthyEnd, tableVars
  <2> QED BY <1>4, <2>1, <2>2, Zenon DEF HealthyEnd
<1>5. CASE Dispatch(g)
  BY <1>1, <1>5 DEF Dispatch, IncConns, tableVars
<1>6. CASE Finish(g)
  BY <1>1, <1>6, ReturnType DEF Finish, DecConns, tableVars
<1> QED BY <1>2, <1>3, <1>4, <1>5, <1>6 DEF Proxy

LEMMA TableType ==
    ASSUME TypeInv, NEW g \in Goroutine,
           \/ LoadTable(g) \/ BuildTable(g) \/ PublishTable(g) \/ ReloadTable(g)
           \/ WeightedPick(g) \/ FallbackStep(g) \/ FallbackEnd(g) \/ ConsistentHashNext(g)
    PROVE  TypeInv'
<1> USE DEF TypeInv, PCs
<1>1. CASE LoadTable(g)
  BY <1>1, Zenon DEF LoadTable, Move
<1>2. CASE BuildTable(g)
  BY <1>2, Zenon DEF BuildTable, Move
<1>3. CASE PublishTable(g)
  BY <1>3 DEF PublishTable, Move
<1>4. CASE ReloadTable(g)
  <2>1. CASE table = <<>>
    BY <1>4, <2>1, ReturnType, Zenon DEF ReloadTable, SelectorError, Drop, poolVars
  <2>2. CASE table # <<>>
    BY <1>4, <2>2, Zenon DEF ReloadTable, Move
  <2> QED BY <2>1, <2>2
<1>5. CASE WeightedPick(g)
  <2>1. ASSUME NEW b, Selected(g, b) PROVE TypeInv'
    BY <1>5, <2>1 DEF WeightedPick, Selected, Drop
  <2>2. CASE \E b : Selected(g, b)
    BY <2>1, <2>2
  <2>3. CASE ~\E b : Selected(g, b)
    <3>1. /\ pc' = [pc EXCEPT ![g] = "fallback"]
          /\ fit' = [fit EXCEPT ![g] = {b \in Well : \E k \in DOMAIN out[g] : out[g][k] = b}]
          /\ local' = [local EXCEPT ![g] = <<>>]
          /\ UNCHANGED <<backends, created, health, weight, i, out, sel, sick>>
      BY <1>5, <2>3, Zenon DEF WeightedPick, Drop
    <3>2. {b \in Well : \E k \in DOMAIN out[g] : out[g][k] = b} \in SUBSET Backend
      BY Zenon DEF Well
    <3> QED BY <3>1, <3>2
  <2> QED BY <2>2, <2>3
<1>6. CASE FallbackStep(g)
  <2>1. ASSUME NEW b, Selected(g, b) PROVE TypeInv'
    BY <1>6, <2>1 DEF FallbackStep, Selected, tableVars
  <2>2. CASE \E b : Selected(g, b)
    BY <2>1, <2>2
  <2>3. CASE /\ i' = [i EXCEPT ![g] = @ + 1]
             /\ UNCHANGED <<backends, created, health, pc, out, sel, sick, fit>>
    BY <1>6, <2>3 DEF FallbackStep, tableVars
  <2> QED BY <1>6, <2>2, <2>3, Zenon DEF FallbackStep
<1>7. CASE FallbackEnd(g)
  BY <1>7, ReturnType DEF FallbackEnd, SelectorError, poolVars, tableVars
<1>8. CASE ConsistentHashNext(g)
  <2>1. PICK b : Selected(g, b)
    BY <1>8 DEF ConsistentHashNext
  <2> QED BY <1>8, <2>1 DEF ConsistentHashNext, Selected, Drop
<1> QED BY <1>1, <1>2, <1>3, <1>4, <1>5, <1>6, <1>7, <1>8

LEMMA WriterType ==
    ASSUME TypeInv, (Environment /\ UNCHANGED tableVars) \/ WeightUpdate
    PROVE  TypeInv'
<1> USE DEF TypeInv
<1>1. CASE WeightUpdate
  BY <1>1, TableAssumption DEF WeightUpdate, HandleUpdateWeight, proxyVars
<1>2. CASE Environment /\ UNCHANGED tableVars
  <2>1. UNCHANGED <<pc, i, out, sel, local, weight>>
    BY <1>2 DEF Environment, HandleAddBackend, HandleRemoveBackend, HealthWrite, tableVars
  <2>2. Witness
    BY <1>2 DEF Environment, HandleAddBackend, HandleRemoveBackend, HealthWrite
  <2>3. sick' \in [Goroutine -> SUBSET Backend] /\ fit' \in [Goroutine -> SUBSET Backend]
    BY <2>2 DEF Witness
  <2>4. backends' \in Seq(Backend) /\ created' \subseteq Backend /\ health' \in [Backend -> Health]
    <3>1. ASSUME NEW b \in Backend, HandleAddBackend(b)
          PROVE  backends' \in Seq(Backend) /\ created' \subseteq Backend /\ health' \in [Backend -> Health]
      BY <3>1 DEF HandleAddBackend, Add
    <3>2. ASSUME NEW id, HandleRemoveBackend(id)
          PROVE  backends' \in Seq(Backend) /\ created' \subseteq Backend /\ health' \in [Backend -> Health]
      <4>1. PICK k \in DOMAIN backends :
                backends' = SubSeq(backends, 1, k - 1) \o SubSeq(backends, k + 1, Len(backends))
        BY <3>2, Zenon DEF HandleRemoveBackend, Remove
      <4>2. backends' \in Seq(Backend)
        BY <4>1, SliceType
      <4> QED BY <3>2, <4>2, Zenon DEF HandleRemoveBackend, Remove
    <3>3. ASSUME NEW b \in created, NEW h \in Health, HealthWrite(b, h)
          PROVE  backends' \in Seq(Backend) /\ created' \subseteq Backend /\ health' \in [Backend -> Health]
      BY <3>3 DEF HealthWrite, SetHealth
    <3> QED BY <1>2, <3>1, <3>2, <3>3 DEF Environment
  <2> QED BY <2>1, <2>3, <2>4
<1> QED BY <1>1, <1>2

\* A step of one request leaves the locals of the others alone.
Alone(g) ==
    /\ UNCHANGED <<health, algorithm>> /\ (table # <<>> => table' # <<>>)
    /\ \A h \in Goroutine \ {g} :
          /\ pc'[h] = pc[h] /\ i'[h] = i[h] /\ out'[h] = out[h] /\ sel'[h] = sel[h]
          /\ sick'[h] = sick[h] /\ fit'[h] = fit[h] /\ local'[h] = local[h]

LEMMA AloneKeeps ==
    ASSUME NEW g \in Goroutine, Alone(g), NEW h \in Goroutine \ {g},
           Shape(h), Truthful(h), Picked(h), HasTable(h)
    PROVE  Shape(h)' /\ Truthful(h)' /\ Picked(h)' /\ HasTable(h)'
<1>1. /\ pc'[h] = pc[h] /\ i'[h] = i[h] /\ out'[h] = out[h] /\ sel'[h] = sel[h]
      /\ sick'[h] = sick[h] /\ fit'[h] = fit[h] /\ local'[h] = local[h]
      /\ health' = health /\ algorithm' = algorithm /\ (table # <<>> => table' # <<>>)
  BY Zenon DEF Alone
<1>2. Shape(h)'
  BY <1>1, Zenon DEF Shape
<1>3. Picked(h)' /\ HasTable(h)'
  BY <1>1, Zenon DEF Picked, HasTable
<1>4. \A b : Ahead(h, b) => Ahead(h, b)'
  BY <1>1, Zenon DEF Ahead
<1>5. Truthful(h)'
  BY <1>1, <1>4, Zenon DEF Truthful
<1> QED BY <1>2, <1>3, <1>5

LEMMA RequestAlone ==
    ASSUME IndInv, NEW g \in Goroutine, Request(g)
    PROVE  Alone(g)
<1> USE DEF IndInv, TypeInv
<1>1. CASE Proxy(g)
  BY <1>1, Zenon DEF Proxy, ServeHTTP, HealthyStep, HealthyEnd, Dispatch, Finish, Return, IncConns,
                     DecConns, tableVars, Alone
<1>2. CASE LoadTable(g) \/ BuildTable(g) \/ ReloadTable(g)
  <2>1. CASE LoadTable(g) \/ BuildTable(g)
    BY <2>1, Zenon DEF LoadTable, BuildTable, Move, Alone
  <2>2. CASE ReloadTable(g) /\ table = <<>>
    <3>1. Return(g) /\ UNCHANGED poolVars /\ Drop(g)
      BY <2>2, Zenon DEF ReloadTable, SelectorError
    <3> QED BY <3>1, Zenon DEF Return, Drop, poolVars, Alone
  <2>3. CASE ReloadTable(g) /\ table # <<>>
    BY <2>3, Zenon DEF ReloadTable, Move, Alone
  <2> QED BY <1>2, <2>1, <2>2, <2>3
<1>3. CASE PublishTable(g)
  BY <1>3, Zenon DEF PublishTable, Move, HasTable, Alone
<1>4. CASE WeightedPick(g) \/ ConsistentHashNext(g)
  BY <1>4, Zenon DEF WeightedPick, ConsistentHashNext, Selected, Drop, Alone
<1>5. CASE FallbackStep(g) \/ FallbackEnd(g)
  BY <1>5, Zenon DEF FallbackStep, FallbackEnd, Selected, SelectorError, Return, poolVars, tableVars, Alone
<1> QED BY <1>1, <1>2, <1>3, <1>4, <1>5 DEF Request

\* The step of a request keeps what is said of the request itself.
LEMMA OwnProxy ==
    ASSUME IndInv, NEW g \in Goroutine, Proxy(g)
    PROVE  Shape(g)' /\ Truthful(g)' /\ Picked(g)' /\ HasTable(g)'
<1> USE DEF IndInv, TypeInv
<1>1. CASE ServeHTTP(g)
  <2>1. pc'[g] = "scan" /\ sick'[g] = Backend \ Well /\ health' = health
    BY <1>1, Zenon DEF ServeHTTP
  <2> QED BY <2>1, Zenon DEF Shape, Truthful, Picked, HasTable, Well, IsHealthy
<1>2. CASE HealthyStep(g) \/ (HealthyEnd(g) /\ ~Return(g))
  <2>1. /\ pc'[g] = "scan" \/ (pc'[g] = "next" /\ i'[g] = 1 /\ Len(out'[g]) > 0)
        /\ sick'[g] = sick[g] /\ health' = health
    BY <1>2, Zenon DEF HealthyStep, HealthyEnd
  <2> QED BY <2>1, Zenon DEF Shape, Truthful, Picked, HasTable
<1>3. CASE Dispatch(g)
  <2>1. pc'[g] = "serve" /\ sick'[g] = {}
    BY <1>3, Zenon DEF Dispatch
  <2> QED BY <2>1, Zenon DEF Shape, Truthful, Picked, HasTable
<1>4. CASE Return(g)
  <2>1. pc'[g] = "idle" /\ i'[g] = 1 /\ sick'[g] = {}
    BY <1>4, Zenon DEF Return
  <2> QED BY <2>1, Zenon DEF Shape, Truthful, Picked, HasTable
<1> QED BY <1>1, <1>2, <1>3, <1>4, Zenon DEF Proxy, Finish

LEMMA OwnTable ==
    ASSUME IndInv, NEW g \in Goroutine,
           LoadTable(g) \/ BuildTable(g) \/ PublishTable(g) \/ ReloadTable(g)
    PROVE  Shape(g)' /\ Truthful(g)' /\ Picked(g)' /\ HasTable(g)'
<1> USE DEF IndInv, TypeInv
<1>1. ASSUME NEW to, Move(g, to), pc[g] \in {"next", "build", "publish", "reload"},
             \/ to = "build" /\ pc[g] = "next"
             \/ to \in {"publish", "reload", "lookup"}
      PROVE  Shape(g)' /\ Truthful(g)' /\ Picked(g)' /\ pc'[g] = to
  <2>1. /\ pc'[g] = to /\ i'[g] = i[g] /\ out'[g] = out[g]
        /\ sick'[g] = sick[g] /\ health' = health
    BY <1>1, Zenon DEF Move
  <2>2. i[g] = 1 /\ (pc[g] = "next" => Len(out[g]) > 0) /\ \A b \in sick[g] : health[b] # "healthy"
    BY <1>1, Zenon DEF Shape, Truthful
  <2>3. Shape(g)'
    BY <1>1, <2>1, <2>2, Zenon DEF Shape
  <2>4. to # "fallback" /\ to # "picked"
    BY <1>1, Zenon
  <2> QED BY <2>1, <2>2, <2>3, <2>4, Zenon DEF Truthful, Picked
<1>2. CASE LoadTable(g)
  <2>1. CASE table = <<>>
    <3>1. Move(g, "build") /\ pc[g] = "next"
      BY <1>2, <2>1, Zenon DEF LoadTable
    <3>2. Shape(g)' /\ Truthful(g)' /\ Picked(g)' /\ pc'[g] = "build"
      BY <1>1, <3>1, Zenon
    <3> QED BY <3>2, Zenon DEF HasTable
  <2>2. CASE table # <<>>
    <3>1. Move(g, "lookup") /\ pc[g] = "next" /\ local'[g] = table /\ table' = table
      BY <1>2, <2>2, Zenon DEF LoadTable
    <3> QED BY <1>1, <2>2, <3>1, Zenon DEF HasTable
  <2> QED BY <2>1, <2>2
<1>3. CASE BuildTable(g)
  <2>1. Move(g, "publish") /\ pc[g] = "build"
    BY <1>3, Zenon DEF BuildTable
  <2>2. out[g] \in Seq(Backend) /\ Len(out[g]) > 0
    BY <2>1, Zenon DEF Shape
  <2>3. Expand(out[g]) # <<>> /\ Ring(out[g]) # <<>>
    BY <2>2, ExpandOK, RingOK, Zenon
  <2>4. local'[g] # <<>>
    BY <1>3, <2>3, Zenon DEF BuildTable
  <2>5. Shape(g)' /\ Truthful(g)' /\ Picked(g)' /\ pc'[g] = "publish"
    BY <1>1, <2>1, Zenon
  <2> QED BY <2>4, <2>5, Zenon DEF HasTable
<1>4. CASE PublishTable(g)
  <2>1. Move(g, "reload") /\ pc[g] = "publish" /\ table' = local[g] /\ local' = local
    BY <1>4, Zenon DEF PublishTable
  <2> QED BY <1>1, <2>1, Zenon DEF HasTable
<1>5. CASE ReloadTable(g)
  <2>1. table # <<>>
    BY <1>5, Zenon DEF ReloadTable, HasTable
  <2>2. Move(g, "lookup") /\ pc[g] = "reload" /\ local'[g] = table /\ table' = table
    BY <1>5, <2>1, Zenon DEF ReloadTable
  <2> QED BY <1>1, <2>1, <2>2, Zenon DEF HasTable
<1> QED BY <1>2, <1>3, <1>4, <1>5

\* Selected hands out what is healthy, or what the ring gives.
LEMMA SelectedKeeps ==
    ASSUME IndInv, NEW g \in Goroutine, NEW b, Selected(g, b), UNCHANGED algorithm,
           algorithm = "weighted_round_robin" => IsHealthy(b)
    PROVE  Shape(g)' /\ Truthful(g)' /\ Picked(g)' /\ HasTable(g)'
<1> USE DEF IndInv, TypeInv
<1>1. /\ pc'[g] = "picked" /\ sel'[g] = b /\ sick'[g] \subseteq sick[g] /\ health' = health
  BY Zenon DEF Selected
<1>2. \A c \in sick[g] : health[c] # "healthy"
  BY Zenon DEF Truthful
<1> QED BY <1>1, <1>2, Zenon DEF Shape, Truthful, Picked, HasTable, IsHealthy

LEMMA OwnPick ==
    ASSUME IndInv, NEW g \in Goroutine,
           WeightedPick(g) \/ FallbackStep(g) \/ FallbackEnd(g) \/ ConsistentHashNext(g)
    PROVE  Shape(g)' /\ Truthful(g)' /\ Picked(g)' /\ HasTable(g)'
<1> USE DEF IndInv, TypeInv
<1>1. CASE WeightedPick(g)
  <2>1. CASE \E b : IsHealthy(b) /\ Selected(g, b)
    BY <1>1, <2>1, SelectedKeeps, Zenon DEF WeightedPick, Drop
  <2>2. CASE /\ pc' = [pc EXCEPT ![g] = "fallback"]
             /\ fit' = [fit EXCEPT ![g] = {b \in Well : \E k \in DOMAIN out[g] : out[g][k] = b}]
             /\ UNCHANGED <<health, i, out, sick>>
    <3>1. /\ pc'[g] = "fallback" /\ i'[g] = i[g] /\ out'[g] = out[g] /\ sick'[g] = sick[g]
          /\ health' = health
          /\ fit'[g] = {b \in Well : \E k \in DOMAIN out[g] : out[g][k] = b}
      BY <2>2, Zenon
    <3>2. i[g] = 1 /\ DOMAIN out[g] = 1..Len(out[g])
      BY <1>1 DEF WeightedPick, Shape
    <3>3. \A k \in DOMAIN out[g] : k >= i[g]
      BY <3>2
    <3>4. \A b \in fit'[g] : health'[b] = "healthy" /\ Ahead(g, b)'
      BY <3>1, <3>3, Zenon DEF Ahead, Well, IsHealthy
    <3> QED BY <3>1, <3>4, Zenon DEF Shape, Truthful, Picked, HasTable
  <2> QED BY <1>1, <2>1, <2>2, Zenon DEF WeightedPick
<1>2. CASE FallbackStep(g)
  <2>1. CASE \E b : IsHealthy(b) /\ Selected(g, b)
    BY <1>2, <2>1, SelectedKeeps, Zenon DEF FallbackStep, tableVars
  <2>2. CASE /\ ~IsHealthy(out[g][i[g]])
             /\ i' = [i EXCEPT ![g] = @ + 1]
             /\ UNCHANGED <<health, pc, out, sick, fit>>
    <3>1. /\ pc'[g] = "fallback" /\ pc[g] = "fallback" /\ i'[g] = i[g] + 1 /\ out'[g] = out[g]
          /\ sick'[g] = sick[g] /\ fit'[g] = fit[g] /\ health' = health
      BY <1>2, <2>2, Zenon DEF FallbackStep
    <3>2. ASSUME NEW b \in fit[g] PROVE Ahead(g, b)'
      <4>1. health[b] = "healthy" /\ Ahead(g, b)
        BY <3>1, Zenon DEF Truthful
      <4>2. PICK k \in DOMAIN out[g] : k >= i[g] /\ out[g][k] = b
        BY <4>1 DEF Ahead
      <4>3. k # i[g]
        BY <2>2, <4>1, <4>2 DEF IsHealthy
      <4>4. k >= i[g] + 1
        BY <4>2, <4>3
      <4> QED BY <3>1, <4>2, <4>4, Zenon DEF Ahead
    <3> QED BY <3>1, <3>2, Zenon DEF Shape, Truthful, Picked, HasTable
  <2> QED BY <1>2, <2>1, <2>2, Zenon DEF FallbackStep
<1>3. CASE FallbackEnd(g)
  <2>1. pc'[g] = "idle" /\ i'[g] = 1 /\ sick'[g] = {}
    BY <1>3, Zenon DEF FallbackEnd, SelectorError, Return
  <2> QED BY <2>1, Zenon DEF Shape, Truthful, Picked, HasTable
<1>4. CASE ConsistentHashNext(g)
  <2>1. algorithm # "weighted_round_robin" /\ UNCHANGED algorithm
    BY <1>4, Zenon DEF ConsistentHashNext, Drop
  <2>2. PICK b : Selected(g, b)
    BY <1>4, Zenon DEF ConsistentHashNext
  <2> QED BY <2>1, <2>2, SelectedKeeps, Zenon
<1> QED BY <1>1, <1>2, <1>3, <1>4

LEMMA WriterKeeps ==
    ASSUME IndInv, (Environment /\ UNCHANGED tableVars) \/ WeightUpdate, NEW g \in Goroutine
    PROVE  Shape(g)' /\ Truthful(g)' /\ Picked(g)' /\ HasTable(g)'
<1> USE DEF IndInv, TypeInv
<1>1. CASE WeightUpdate
  <2>1. UNCHANGED <<proxyVars, algorithm, table, local>>
    BY <1>1, Zenon DEF WeightUpdate, HandleUpdateWeight
  <2>2. UNCHANGED <<pc, i, out, sel, sick, fit, local, health, table, algorithm>>
    BY <2>1, Zenon DEF proxyVars
  <2>3. \A b : Ahead(g, b) => Ahead(g, b)'
    BY <2>2, Zenon DEF Ahead
  <2> QED BY <2>2, <2>3, Zenon DEF Shape, Truthful, Picked, HasTable
<1>2. CASE Environment /\ UNCHANGED tableVars
  <2>1. UNCHANGED <<pc, i, out, sel, table, local, algorithm>>
    BY <1>2, Zenon DEF Environment, HandleAddBackend, HandleRemoveBackend, HealthWrite, tableVars
  <2>2. Witness
    BY <1>2, Zenon DEF Environment, HandleAddBackend, HandleRemoveBackend, HealthWrite
  <2>3. /\ sick'[g] = sick[g] \ {b \in Backend : health'[b] = "healthy"}
        /\ fit'[g] \subseteq fit[g] /\ \A b \in fit'[g] : health'[b] = "healthy"
    BY <2>2, Zenon DEF Witness
  <2>4. sick[g] \subseteq Backend
    OBVIOUS
  <2>5. \A b \in sick'[g] : health'[b] # "healthy" /\ b \in sick[g]
    BY <2>3, <2>4, Zenon
  <2>6. Shape(g)' /\ HasTable(g)'
    BY <2>1, Zenon DEF Shape, HasTable
  <2>7. Picked(g)'
    BY <2>1, <2>5, Zenon DEF Picked
  <2>8. \A b : Ahead(g, b) => Ahead(g, b)'
    BY <2>1, Zenon DEF Ahead
  <2>9. Truthful(g)'
    BY <2>1, <2>3, <2>5, <2>8, Zenon DEF Truthful
  <2> QED BY <2>6, <2>7, <2>9
<1> QED BY <1>1, <1>2

LEMMA Inductive == Spec => []IndInv
<1>1. Init => IndInv
  <2> SUFFICES ASSUME Init PROVE IndInv
    OBVIOUS
  <2>1. \A g \in Goroutine : pc[g] = "idle" /\ i[g] = 1 /\ sick[g] = {}
    BY Zenon DEF Init, InitProxy
  <2>2. \A g \in Goroutine : Shape(g) /\ Truthful(g) /\ Picked(g) /\ HasTable(g)
    BY <2>1, Zenon DEF Shape, Truthful, Picked, HasTable
  <2> QED BY <2>2, TypeInit DEF IndInv
<1>2. IndInv /\ [Next]_vars => IndInv'
  <2> SUFFICES ASSUME IndInv, [Next]_vars PROVE IndInv'
    OBVIOUS
  <2>1. ASSUME NEW g \in Goroutine, Request(g) PROVE IndInv'
    <3>1. TypeInv'
      BY <2>1, ProxyType, TableType, Zenon DEF Request, IndInv
    <3>2. Shape(g)' /\ Truthful(g)' /\ Picked(g)' /\ HasTable(g)'
      BY <2>1, OwnProxy, OwnTable, OwnPick, Zenon DEF Request
    <3>3. ASSUME NEW h \in Goroutine \ {g}
          PROVE  Shape(h)' /\ Truthful(h)' /\ Picked(h)' /\ HasTable(h)'
      <4>1. Alone(g)
        BY <2>1, RequestAlone
      <4> QED BY <4>1, AloneKeeps, Zenon DEF IndInv
    <3> QED BY <3>1, <3>2, <3>3, Zenon DEF IndInv
  <2>2. CASE (Environment /\ UNCHANGED tableVars) \/ WeightUpdate
    BY <2>2, WriterType, WriterKeeps, Zenon DEF IndInv
  <2>3. CASE UNCHANGED vars
    <3>1. UNCHANGED <<backends, created, health, weight, pc, i, out, sel, sick, fit, local, table, algorithm>>
      BY <2>3, Zenon DEF vars, proxyVars
    <3>2. \A g \in Goroutine : \A b : Ahead(g, b) => Ahead(g, b)'
      BY <3>1, Zenon DEF Ahead
    <3> QED BY <3>1, <3>2, Zenon DEF IndInv, TypeInv, Shape, Truthful, Picked, HasTable
  <2> QED BY <2>1, <2>2, <2>3, Zenon DEF Next
<1> QED BY <1>1, <1>2, PTL DEF Spec

\* WeightedRoundRobin hands a request only to a backend that was healthy since the
\* request arrived, for any number of requests and backends: Next checks the slot
\* it takes from the stale table, and the fallback checks what it returns.
THEOREM WeightedOnlyHealthy == Spec => []WeightedRoutesToHealthy
<1>1. IndInv => WeightedRoutesToHealthy
  BY Zenon DEF IndInv, Picked, WeightedRoutesToHealthy, RoutesToHealthy
<1> QED BY <1>1, Inductive, PTL

\* A request that builds the table finds one afterwards, whatever is stored over
\* it meanwhile: Rebuild gives each backend a slot whatever its weight, Build
\* gives each a key, and Next is called with a backend at least.
THEOREM TablesStay == Spec => []TablesNeverEmpty
<1>1. IndInv => TablesNeverEmpty
  BY Zenon DEF IndInv, HasTable, TablesNeverEmpty
<1> QED BY <1>1, Inductive, PTL

\* The fallback of WeightedRoundRobin does not end in ErrNoBackends while a backend
\* of its list stays healthy: one that does is still ahead of the loop's index.
THEOREM No503WhileFit == Spec => NoSpurious503
<1>1. IndInv /\ [Next]_vars =>
        [\A g \in Goroutine : pc[g] = "fallback" /\ pc'[g] = "idle" => fit[g] = {}]_vars
  <2> SUFFICES ASSUME IndInv, Next, NEW g \in Goroutine, pc[g] = "fallback", pc'[g] = "idle"
               PROVE  fit[g] = {}
    BY Zenon
  <2> USE DEF IndInv, TypeInv
  <2>1. PICK h \in Goroutine : Request(h)
    BY Zenon DEF Next, WeightUpdate, HandleUpdateWeight, proxyVars, Environment, HandleAddBackend,
                 HandleRemoveBackend, HealthWrite
  <2>2. h = g
    BY <2>1, RequestAlone, Zenon DEF Alone
  <2>3. FallbackEnd(g)
    BY <2>1, <2>2, Zenon DEF Request, Proxy, ServeHTTP, HealthyStep, HealthyEnd, Dispatch, Finish, LoadTable,
          BuildTable, PublishTable, ReloadTable, WeightedPick, FallbackStep, ConsistentHashNext, Selected
  <2>4. \A k \in DOMAIN out[g] : ~(k >= i[g])
    BY <2>3 DEF FallbackEnd
  <2> QED BY <2>4, Zenon DEF Truthful, Ahead
<1> QED BY <1>1, Inductive, PTL DEF Spec, NoSpurious503
-----------------------------------------------------------------------------
(* Induction over the naturals, as the existence of a least element.          *)

INSTANCE WellFoundedInduction

LEMMA LessIsWellFounded ==
    \E R : /\ IsWellFoundedOn(R, Nat)
           /\ \A x, y \in Nat : x < y => <<x, y>> \in R
<1>1. \A x, y \in Nat : x < y => <<x, y>> \in OpToRel(<, Nat)
  BY DEF OpToRel
<1> QED BY <1>1, NatLessThanWellFounded, Zenon

LEMMA LeastNat ==
    ASSUME NEW T, T \subseteq Nat, T # {}
    PROVE  \E x \in T : \A y \in T : x <= y
<1>1. PICK R : /\ IsWellFoundedOn(R, Nat)
               /\ \A x, y \in Nat : x < y => <<x, y>> \in R
  BY LessIsWellFounded
<1>2. IsWellFoundedOn(R, Nat)
  BY <1>1
<1>3. \E x \in T : \A y \in T : ~(<<y, x>> \in R)
  BY <1>2, WFMin, Zenon
<1>4. PICK x \in T : \A y \in T : ~(<<y, x>> \in R)
  BY <1>3
<1>5. ASSUME NEW y \in T PROVE x <= y
  <2>1. x \in Nat /\ y \in Nat
    OBVIOUS
  <2>2. ~(y < x)
    BY <1>1, <1>4, <2>1, Zenon
  <2> QED BY <2>1, <2>2
<1> QED BY <1>5

Greatest(S) == CHOOSE k \in S : \A j \in S : j <= k

LEMMA GreatestNat ==
    ASSUME NEW n \in Nat, NEW S, S \subseteq 0..n, S # {}
    PROVE  Greatest(S) \in S /\ \A y \in S : y <= Greatest(S)
<1> DEFINE T == {k \in 0..n : n - k \in S}
<1>1. \A y \in S : n - y \in T
  OBVIOUS
<1>2. T \subseteq Nat /\ T # {}
  <2>1. T \subseteq Nat
    OBVIOUS
  <2> HIDE DEF T
  <2> QED BY <1>1, <2>1, Zenon
<1>3. PICK x \in T : \A y \in T : x <= y
  <2> HIDE DEF T
  <2> QED BY <1>2, LeastNat, Zenon
<1>4. n - x \in S /\ \A y \in S : y <= n - x
  BY <1>1, <1>3
<1> QED BY <1>4, Zenon DEF Greatest

-----------------------------------------------------------------------------
(* What is counted is counted on a backend.                                   *)

\* A table of backends; the keys of a ring are numbers.
TableOK(t) ==
    /\ t \in [DOMAIN t -> Backend]
    /\ algorithm = "consistent_hash" => DOMAIN t \subseteq Nat

Real ==
    /\ activeConns \in [Backend -> Int]
    /\ algorithm \in {"weighted_round_robin", "consistent_hash"}
    /\ TableOK(table)
    /\ \A g \in Goroutine :
          TableOK(local[g]) /\ (pc[g] \in {"picked", "serve"} => sel[g] \in Backend)

LEMMA RingBackends ==
    ASSUME NEW list \in Seq(Backend), NEW p \in DOMAIN Ring(list)
    PROVE  Ring(list)[p] \in Backend
<1> DEFINE owners == {k \in DOMAIN list : p \in Points(list[k])}
<1>1. p \in UNION {Points(list[k]) : k \in DOMAIN list}
  BY Zenon DEF Ring
<1>2. owners # {}
  BY <1>1, Zenon
<1>3. DOMAIN list = 1..Len(list) /\ Len(list) \in Nat /\ \A k \in DOMAIN list : list[k] \in Backend
  OBVIOUS
<1>4. owners \subseteq 0..Len(list) /\ owners \subseteq DOMAIN list
  BY <1>3
<1>5. Ring(list)[p] = list[Greatest(owners)]
  BY <1>1, Zenon DEF Ring, Greatest
<1> HIDE DEF owners
<1>6. Greatest(owners) \in owners
  BY <1>2, <1>3, <1>4, GreatestNat
<1> QED BY <1>3, <1>4, <1>5, <1>6, Zenon

\* The ring has a position for every hash: sort.Search wraps around.
LEMMA ClockwiseFinds ==
    ASSUME NEW positions, positions \subseteq Nat, positions # {}, NEW hash
    PROVE  Clockwise(positions, hash) \in positions
<1> DEFINE ahead == {p \in positions : p >= hash}
           from == IF ahead = {} THEN positions ELSE ahead
<1>1. from \subseteq positions /\ from # {}
  BY Zenon
<1>2. from \subseteq Nat
  BY <1>1, Zenon
<1>3. \E p \in from : \A q \in from : p <= q
  <2> HIDE DEF from
  <2> QED BY <1>1, <1>2, LeastNat, Zenon
<1>4. Clockwise(positions, hash) \in from
  BY <1>3, Zenon DEF Clockwise
<1> QED BY <1>1, <1>4, Zenon

LEMMA EmptyTable ==
    ASSUME NEW t, t \in [DOMAIN t -> Backend], t # <<>>
    PROVE  DOMAIN t # {}
<1>1. <<>> = [k \in {} |-> NoBackend]
  OBVIOUS
<1>2. ASSUME DOMAIN t = {} PROVE FALSE
  BY <1>1, <1>2
<1> QED BY <1>2

\* Both loops fill the table with backends of the list.
LEMMA BuiltReal ==
    ASSUME TypeInv, NEW list \in Seq(Backend), Len(list) > 0
    PROVE  /\ Expand(list) \in [DOMAIN Expand(list) -> Backend]
           /\ Ring(list) \in [DOMAIN Ring(list) -> Backend]
           /\ DOMAIN Ring(list) \subseteq Nat
<1>1. Expand(list) \in [DOMAIN Expand(list) -> Backend]
  BY ExpandOK, Zenon DEF Expand, TypeInv
<1>2. Ring(list) \in [DOMAIN Ring(list) -> Backend]
  BY RingBackends, Zenon DEF Ring
<1> QED BY <1>1, <1>2, RingOK, Zenon

LEMMA InitReal == Init => Real
<1> SUFFICES ASSUME Init PROVE Real
  OBVIOUS
<1>1. TableOK(<<>>)
  BY DEF TableOK
<1>2. activeConns \in [Backend -> Int]
  BY DEF Init, InitProxy, NewPool
<1>3. algorithm \in {"weighted_round_robin", "consistent_hash"}
  BY TableAssumption, Zenon DEF Init
<1>4. table = <<>> /\ \A g \in Goroutine : local[g] = <<>> /\ pc[g] = "idle"
  BY Zenon DEF Init, InitProxy
<1> QED BY <1>1, <1>2, <1>3, <1>4, Zenon DEF Real

LEMMA RequestReal ==
    ASSUME IndInv, Real, NEW g \in Goroutine, Request(g)
    PROVE  Real'
<1> USE DEF IndInv, TypeInv
<1>1. Alone(g)
  BY RequestAlone
<1>2. activeConns' \in [Backend -> Int]
  <2>1. CASE Dispatch(g) \/ Finish(g)
    <3>1. sel[g] \in Backend /\ activeConns \in [Backend -> Int]
      BY <2>1, Zenon DEF Real, Dispatch, Finish
    <3> QED BY <2>1, <3>1 DEF Dispatch, Finish, IncConns, DecConns
  <2>2. CASE activeConns' = activeConns
    BY <2>2 DEF Real
  <2> QED
    BY <2>1, <2>2, Zenon DEF Request, Proxy, ServeHTTP, HealthyStep, HealthyEnd, LoadTable, BuildTable,
         PublishTable, ReloadTable, WeightedPick, FallbackStep, FallbackEnd, ConsistentHashNext, Move,
         Selected, SelectorError, poolVars
<1>3. algorithm' = algorithm
  BY <1>1, Zenon DEF Alone
<1>4. TableOK(<<>>)
  BY DEF TableOK
<1>5. TableOK(table') /\ TableOK(local'[g])
  <2>1. CASE BuildTable(g)
    <3>1. Len(out[g]) > 0 /\ out[g] \in Seq(Backend)
      BY <2>1 DEF BuildTable, Shape
    <3>2. /\ local'[g] = IF algorithm = "weighted_round_robin" THEN Expand(out[g]) ELSE Ring(out[g])
          /\ table' = table
      BY <2>1, Zenon DEF BuildTable
    <3>3. TableOK(Ring(out[g])) /\ (algorithm # "consistent_hash" => TableOK(Expand(out[g])))
      BY <3>1, BuiltReal, Zenon DEF TableOK
    <3>4. algorithm = "weighted_round_robin" => algorithm # "consistent_hash"
      OBVIOUS
    <3>5. TableOK(local'[g])
      <4>1. CASE algorithm = "weighted_round_robin"
        BY <3>2, <3>3, <3>4, <4>1, Zenon
      <4>2. CASE algorithm # "weighted_round_robin"
        BY <3>2, <3>3, <4>2, Zenon
      <4> QED BY <4>1, <4>2
    <3> QED BY <3>2, <3>5, Zenon DEF Real
  <2>2. CASE ~BuildTable(g)
    <3>1. table' \in {table, local[g]} /\ local'[g] \in {local[g], table, <<>>}
      BY <2>2, Zenon DEF Request, Proxy, LoadTable, PublishTable, ReloadTable, WeightedPick, FallbackStep,
           FallbackEnd, ConsistentHashNext, Drop, tableVars
    <3> QED BY <1>4, <3>1, Zenon DEF Real
  <2> QED BY <2>1, <2>2
<1>6. ASSUME pc'[g] \in {"picked", "serve"}
      PROVE  sel'[g] \in Backend
  <2>1. CASE WeightedPick(g)
    <3>1. PICK p \in DOMAIN local[g] : sel'[g] = local[g][p]
      BY <1>6, <2>1, Zenon DEF WeightedPick, Selected
    <3> QED BY <3>1, Zenon DEF Real, TableOK
  <2>2. CASE ConsistentHashNext(g)
    <3>1. PICK hash \in ClientHash : sel'[g] = local[g][Clockwise(DOMAIN local[g], hash)]
      BY <2>2, Zenon DEF ConsistentHashNext, Selected
    <3>2. /\ local[g] \in [DOMAIN local[g] -> Backend] /\ DOMAIN local[g] \subseteq Nat
          /\ local[g] # <<>>
      BY <2>2, Zenon DEF ConsistentHashNext, Real, TableOK, HasTable
    <3>3. DOMAIN local[g] # {}
      BY <3>2, EmptyTable, Zenon
    <3>4. Clockwise(DOMAIN local[g], hash) \in DOMAIN local[g]
      BY <3>2, <3>3, ClockwiseFinds, Zenon
    <3> QED BY <3>1, <3>2, <3>4, Zenon
  <2>3. CASE FallbackStep(g)
    <3>1. sel'[g] = out[g][i[g]] /\ i[g] <= Len(out[g])
      BY <1>6, <2>3, Zenon DEF FallbackStep, Selected
    <3>2. out[g] \in Seq(Backend) /\ i[g] \in Nat \ {0}
      BY Zenon
    <3> QED BY <3>1, <3>2
  <2>4. CASE Dispatch(g)
    BY <2>4, Zenon DEF Dispatch, Real
  <2>5. CASE ~(WeightedPick(g) \/ ConsistentHashNext(g) \/ FallbackStep(g) \/ Dispatch(g))
    BY <1>6, <2>5, Zenon DEF Request, Proxy, ServeHTTP, HealthyStep, HealthyEnd, Finish, LoadTable,
         BuildTable, PublishTable, ReloadTable, FallbackEnd, Move, SelectorError, Return
  <2> QED BY <2>1, <2>2, <2>3, <2>4, <2>5
<1>7. ASSUME NEW h \in Goroutine
      PROVE  TableOK(local'[h]) /\ (pc'[h] \in {"picked", "serve"} => sel'[h] \in Backend)
  BY <1>1, <1>5, <1>6, Zenon DEF Alone, Real
<1> QED BY <1>2, <1>3, <1>5, <1>7, Zenon DEF Real, TableOK

LEMMA RealStep ==
    ASSUME IndInv, Real, [Next]_vars
    PROVE  Real'
<1>1. CASE \E g \in Goroutine : Request(g)
  BY <1>1, RequestReal
<1>2. CASE WeightUpdate \/ (Environment /\ UNCHANGED tableVars) \/ UNCHANGED vars
  <2>1. UNCHANGED <<activeConns, algorithm, table, local, pc, sel>>
    BY <1>2, Zenon DEF WeightUpdate, HandleUpdateWeight, Environment, HandleAddBackend,
         HandleRemoveBackend, HealthWrite, Add, Remove, SetHealth, tableVars, vars, proxyVars
  <2> QED BY <2>1, Zenon DEF Real, TableOK
<1> QED BY <1>1, <1>2, Zenon DEF Next
-----------------------------------------------------------------------------
(* Counting the requests in flight *)

INSTANCE FiniteSetTheorems

LEMMA InitConns == Init => ConnsMatchInFlight
<1>1. Init => \A b \in Backend : InFlight(b) = {}
  BY Zenon DEF Init, InitProxy, InFlight
<1>2. Init => \A b \in Backend : activeConns[b] = 0
  BY DEF Init, InitProxy, NewPool
<1> QED BY <1>1, <1>2, FS_EmptySet, Zenon DEF ConnsMatchInFlight

LEMMA ConnsStep ==
    ASSUME IndInv, Real, ConnsMatchInFlight, [Next]_vars
    PROVE  ConnsMatchInFlight'
<1> USE DEF IndInv, TypeInv
<1>1. \A b \in Backend : IsFiniteSet(InFlight(b)) /\ Cardinality(InFlight(b)) \in Nat
  BY ProxyAssumption, FS_Subset, FS_CardinalityType DEF InFlight
<1>2. ASSUME activeConns' = activeConns, \A b \in Backend : InFlight(b)' = InFlight(b)
      PROVE  ConnsMatchInFlight'
  BY <1>2, Zenon DEF ConnsMatchInFlight
<1>3. ASSUME NEW g \in Goroutine, Dispatch(g)
      PROVE  ConnsMatchInFlight'
  <2>1. PICK b \in Backend : b = sel[g]
    BY <1>3, Zenon DEF Dispatch, Real
  <2>2. g \notin InFlight(b) /\ InFlight(b)' = InFlight(b) \cup {g}
    BY <1>3, <2>1 DEF Dispatch, InFlight
  <2>3. \A c \in Backend \ {b} : InFlight(c)' = InFlight(c)
    BY <1>3, <2>1 DEF Dispatch, InFlight
  <2>4. Cardinality(InFlight(b)') = Cardinality(InFlight(b)) + 1
    <3>1. Cardinality(InFlight(b) \cup {g}) =
             IF g \in InFlight(b) THEN Cardinality(InFlight(b)) ELSE Cardinality(InFlight(b)) + 1
      BY <1>1, FS_AddElement, Zenon
    <3> QED BY <2>2, <3>1
  <2> QED BY <1>3, <2>1, <2>3, <2>4 DEF Dispatch, IncConns, ConnsMatchInFlight, Real
<1>4. ASSUME NEW g \in Goroutine, Finish(g)
      PROVE  ConnsMatchInFlight'
  <2>1. PICK b \in Backend : b = sel[g]
    BY <1>4, Zenon DEF Finish, Real
  <2>2. g \in InFlight(b) /\ InFlight(b)' = InFlight(b) \ {g}
    BY <1>4, <2>1 DEF Finish, Return, InFlight
  <2>3. \A c \in Backend \ {b} : InFlight(c)' = InFlight(c)
    BY <1>4, <2>1 DEF Finish, Return, InFlight
  <2>4. Cardinality(InFlight(b)') = Cardinality(InFlight(b)) - 1
    BY <1>1, <2>2, FS_RemoveElement, ZenonT(60)
  <2> QED BY <1>4, <2>1, <2>3, <2>4 DEF Finish, DecConns, ConnsMatchInFlight, Real
<1>5. ASSUME NEW g \in Goroutine, Request(g), ~Dispatch(g), ~Finish(g)
      PROVE  ConnsMatchInFlight'
  <2>1. Alone(g)
    BY <1>5, RequestAlone
  <2>2. pc[g] # "serve" /\ pc'[g] # "serve" /\ activeConns' = activeConns
    BY <1>5, Zenon DEF Request, Proxy, ServeHTTP, HealthyStep, HealthyEnd, LoadTable, BuildTable,
         PublishTable, ReloadTable, WeightedPick, FallbackStep, FallbackEnd, ConsistentHashNext, Move,
         Selected, SelectorError, Return, poolVars
  <2>3. \A h \in Goroutine, b \in Backend :
           (pc'[h] = "serve" /\ sel'[h] = b) <=> (pc[h] = "serve" /\ sel[h] = b)
    BY <2>1, <2>2, Zenon DEF Alone
  <2>4. \A b \in Backend : InFlight(b)' = InFlight(b)
    BY <2>3, Zenon DEF InFlight
  <2> QED BY <1>2, <2>2, <2>4
<1>6. CASE WeightUpdate \/ (Environment /\ UNCHANGED tableVars) \/ UNCHANGED vars
  <2>1. UNCHANGED <<activeConns, pc, sel>>
    BY <1>6, Zenon DEF WeightUpdate, HandleUpdateWeight, Environment, HandleAddBackend,
         HandleRemoveBackend, HealthWrite, Add, Remove, SetHealth, tableVars, vars, proxyVars
  <2> QED BY <1>2, <2>1, Zenon DEF InFlight
<1> QED BY <1>3, <1>4, <1>5, <1>6, Zenon DEF Next

\* activeConns stays exact with these selectors too: whatever a stale table or the
\* ring hands out, the IncConns and the deferred DecConns of ServeHTTP count every
\* request on one backend object and on no other, also after it has left the pool.
THEOREM TableConnsExact == Spec => []ConnsMatchInFlight
<1>1. IndInv /\ Real /\ [Next]_vars => Real'
  BY RealStep
<1>2. IndInv /\ Real /\ ConnsMatchInFlight /\ [Next]_vars => ConnsMatchInFlight'
  BY ConnsStep
<1> QED BY <1>1, <1>2, InitReal, InitConns, Inductive, PTL DEF Spec
=============================================================================
