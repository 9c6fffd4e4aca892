# A TLA+ specification of gobalancer

gobalancer is an HTTP and TCP load balancer written in Go. This directory holds
TLA+ modules that model its concurrent parts, TLC configurations that check them
on small instances, and proofs that TLAPS checks for every instance. The modules
are written from the Go code; the comments of each module name the functions it
models, and `PROJECT.json` maps every definition to its lines.

## 1. The system

| part | code | state | operations |
|---|---|---|---|
| backends and pool | `backend/backend.go`, `pool.go` | per object: health, activeConns (atomics), Weight (plain); the slice under an RWMutex | New, Add, Remove, Get, Healthy, SetHealth, IncConns, DecConns |
| HTTP proxy | `proxy/http.go` | locals of a request | ServeHTTP, ListenAndServe |
| list selectors | `balancer/roundrobin.go`, `iphash.go`, `leastconn.go`, `p2c.go` | an atomic counter; an unlocked random generator | Next |
| table selectors | `balancer/weightedrr.go`, `consistenthash.go` | slots; ring and nodeMap | Next, Rebuild, Build |
| circuit breaker | `circuitbreaker/breaker.go` | state, failures, openedAt (atomics), mu, a channel of probe permits | Allow, RecordSuccess, RecordFailure |
| breaker registry | `circuitbreaker/registry.go` | a map under an RWMutex | Get |
| rate limiter | `middleware/ratelimit.go` | a map of buckets under a mutex; tokens and lastRefill of each (atomics) | Allow, StartCleanup |
| active checker | `health/checker.go` | two counter maps without a lock | Run, probe, transition |
| health state machine | `health/statemachine.go` | counters, backoff and time stamp per backend | Observe |
| passive checker | `health/passive.go` | window, backoff, ejection time per backend, under one mutex | Observe, TryReadmit |
| TCP proxy | `proxy/tcp.go` | a WaitGroup, a listener | Serve, handleConn, tunnel |
| process | `cmd/gobalancer/main.go` | the http.Server, a channel for its error | start, signal, bounded Shutdown, exit |
| admin API | `admin/server.go` | an http.Server | Start; add, remove and reweight a backend, list, reload |
| configuration | `config/config.go`, `admin/reload.go` | a file; an atomic pointer | Load, Store, Reload |
| TLS termination | `tls/termination.go`, `watcher.go` | an atomic pointer to a tls.Config; two watched files | Accept, ReloadCert, Watch |
| middleware | `proxy/middleware.go`, `middleware/*.go`, `metrics/middleware.go`, `routing/shadow.go` | the header maps and writers of a request; a gauge, counters | Chain and eight middlewares |
| routers | `routing/trie.go`, `header.go`, `host.go` | a trie, a rule list, a map | Add, Match |
| drainer | `admin/drain.go` | none of its own | Drain |
| others | canary, TLS passthrough, mTLS, transport, probes | see section 8 | |

Paths without a prefix are under `src/internal/`.

Requests meet in the pool. A request takes a snapshot of the healthy backends,
asks the selector for one, counts itself in, and counts itself out when it ends.
Beside it the admin API changes the slice and the weights, and up to three other
parts (active checker, passive checker, drainer) store the health of a backend
without knowing of one another. Around the proxy stand the middlewares, in
whatever order the caller of Chain lists them, and around those a server that is
told to stop while requests run. Two pointers, to the configuration and to the
certificate, are swapped under everything. `main` wires only the pool, RoundRobin,
the HTTP proxy and its server; the other parts are libraries that the documents
present as parts of the running system, and they are modelled as their callers
would use them.

What is hard here: values read before a lock is taken or before another atomic
is read (breaker, state machine, limiter, pool scan); a channel whose length is
tested by one goroutine and changed by another; tables that are built once and
used for ever; maps and a generator that have no lock at all; shutdown that
waits for connections which still come in; two files that make one pair, written
and read one after the other; a stack of writers in which each layer wraps, keeps
or drops what the next one wrote; liveness that depends on several counters
lining up.

## 2. Modules

| module | models | extends |
|---|---|---|
| `CircuitBreaker` | Breaker, one action per atomic access or lock section | |
| `AtomicRegistry` | what a registry promises: an indivisible Get | |
| `BreakerRegistry` | Registry.Get, and its refinement of `AtomicRegistry` | |
| `RateLimiter` | RateLimiter.Allow and the cleanup goroutine | |
| `Pool` | Backend and Pool: the shared state and its primitive operations | |
| `HTTPProxy` | ServeHTTP over the pool, with the admin API and health writers beside it | `Pool` |
| `ListSelectors` | the proxy composed with RoundRobin, IPHash, LeastConnections, P2C | `HTTPProxy` |
| `TableSelectors` | the proxy composed with WeightedRoundRobin and ConsistentHash, and weight updates | `HTTPProxy` |
| `HealthStateMachine` | StateMachine.Observe by several probers, with a drainer | |
| `PassiveChecker` | PassiveChecker, with the active checker and the drainer beside it | |
| `ActiveChecker` | Checker.Run, probe, transition over the unlocked maps | |
| `TCPProxy` | TCPProxy.Serve, handleConn, tunnel | `Pool` |
| `GracefulShutdown` | what a server promises about its end | |
| `Servers` | TCPProxy.Serve, main, proxy.ListenAndServe and admin Start, each refining `GracefulShutdown` | `TCPProxy` |
| `ConfigReload` | config.Load, its validation, and ConfigReloader.Reload while the file is edited | |
| `CertReload` | TerminationListener and CertReloader.Watch while both files are rewritten | |
| `Middleware` | Chain and the middlewares around the proxy, in any order | |
| `PathTrie` | PathTrie.Add and Match | |
| `RuleRouters` | HeaderRouter and HostRouter, beside a PathTrie | `PathTrie` |
| `ListSelectorsProofs`, `TableSelectorsProofs`, `ServersProofs`, `RateLimiterProofs` | the theorems of the module they are named after | that module |
| `LoadProofs` | the theorems of the list selectors about load and connection counts | `ListSelectorsProofs` |
| `CheckersProofs` | the theorems of the two health checkers | `ActiveChecker`, `PassiveChecker` |
| `DispatchProofs` | the theorems of the breaker, the registry, the live configuration, the certificates and the routers | `CircuitBreaker`, `BreakerRegistry`, `ConfigReload`, `CertReload`, `RuleRouters` |
| `MiddlewareProofs` | the theorems of the middleware chain and of the health state machine | `Middleware`, `HealthStateMachine` |
| `MCRateLimiter`, `MCListSelectors`, `MCTableSelectors`, `MCServers` | constants and symmetry for TLC | the module they are named after |
| `MCSharedCells` | the registry and the live configuration side by side | `BreakerRegistry`, `ConfigReload` |
| `MCFrontend` | the routers and the middleware chain; a behaviour fills one of them | `RuleRouters`, `Middleware` |

How state and actions correspond to the code:

* A goroutine is a member of a constant set with a program counter (`pc`, `at`)
  and its locals as functions of it. Locals that are dead are reset, which only
  merges states the code cannot tell apart.
* An action is one access to shared memory: one atomic load or store, one
  compare-and-swap, one section under a mutex whose inside nobody can see. Where
  a section touches an atomic that others write without the lock, it is split.
* The clock is an action. Time stamps are kept as ages that stop growing at the
  largest value the code compares them with, so the clock of the breaker and of
  the health modules needs no bound.
* http.Server, http.TimeoutHandler, ReverseProxy, fsnotify and LoadX509KeyPair
  are libraries. They are modelled as the code uses them: Shutdown closes the
  listener and waits for the requests the server tracks; a TimeoutHandler gives
  the inner handlers a writer of their own; a watch sees writes to the file it
  was set on, and is gone when another file takes its name.
* In `Middleware` a state is a chain, and one request is one evaluation of
  `Serve`: the exchange (header map, what was sent, what was logged and counted)
  goes in through the chain and comes out again. A panic travels outwards; only
  deferred calls see it, and a TimeoutHandler that has answered swallows it. The
  request says what the upstream does (among others: begin only after the deadline,
  or still be streaming then) and whether the TimeoutHandler sees its deadline or its
  inner handlers' end first, so that the two race.
* In `PassiveChecker` an Observe that ejects is two steps (up to the load of the
  health; from its store on), and a TryReadmit that readmits three (up to the early
  returns; the store of the health; the backoff and the deletes): the health is an
  atomic that others write in between.
* A history variable is written by the actions and read by the properties only:
  `overtaken`, `disturbed`, `admitted`, `sick`, `gone`, `fit`, `calm`, `relapse`,
  `log`, `culprit`, `out` and `lag` (of `PassiveChecker`), `streak`, `got`, `rules`,
  `missed`.
* Undefined behaviour is a choice. Racing draws from P2C's generator yield any
  draw or an index out of range, a panic that net/http recovers. A map access
  that meets another goroutine's write ends the process (`crashed`), as the Go
  runtime does when it notices, or goes unnoticed and takes effect. A handshake
  that reads a tls.Config as a tls.Certificate fails or ends the process.
* Data is abstracted to what is compared: an address is a model value or a kind
  of URL, a client a hash from a small set, a header rule the set of values it
  accepts, a certificate its version, a body the number of its encodings, a path
  the list that `strings.Split` yields.

A definition whose comment says what is left out, forgotten or swapped is a variant
of one that follows it. No specification uses it: each variant is put in the place
of its original to see that a property notices.

## 3. What the runs check

All are run with `tlc -config <cfg> <module>`. "Violation" marks a run in which
TLC is expected to find a counterexample.

| run | module | what it shows |
|---|---|---|
| `breaker` | `CircuitBreaker` | The send in the refill loop, made with mu held, never meets a full channel (`RefillNeverBlocks`). A half-open circuit without a permit has a report on its way (`HalfOpenHasWayOut`), is decided in the end (`HalfOpenResolves`) and is entered from open only (`HalfOpenOnlyFromOpen`), after the whole OpenDuration as far as no newer opening overtook the Allow (`FreshAllowsWait`). An open circuit is left (`OpenIsLeft`). |
| `breaker_returns` | `CircuitBreaker` | Violation: an Allow never returns (section 6). |
| `registry` | `MCSharedCells` | The double-checked Get implements an indivisible one (`GetsAreAtomic`, a refinement of `AtomicRegistry`), whatever creations race. However edits and Reloads overlap, the live configuration is one main could be started with: what NewSelector and backend.New accept and what Load validates agree (`LiveConfigUsable`). |
| `limiter` | `MCRateLimiter` | No interleaving of refills, takes and sweeps takes a bucket out of 0..Burst (`TokensInRange`). A client whose requests do not overlap and whose bucket was not swept never gets more than burst plus rate (`NeverOverAdmits`), and is admitted whenever it has paused for a token (`PacedClientAdmitted`). |
| `proxy_list` | `MCListSelectors` | The connection count of a backend is the number of requests it serves, on every path, removals and panics included (`ConnsMatchInFlight`). A request goes only to a backend that was healthy, and in the pool, at some moment since it arrived (`RoutesToHealthy`, `RoutesToMembers`). No 502 is given while one backend stayed healthy and in the pool during the whole scan (`NoSpurious502`). LeastConnections and P2C choose by load while no count moves (`PicksLessLoaded`). |
| `table_routing` | `MCTableSelectors` | The tables, built by whichever first requests race, are never used empty (`TablesNeverEmpty`). WeightedRoundRobin makes up for its stale slots: it routes to healthy backends only (`WeightedRoutesToHealthy`) and gives no 503 while one stays fit (`NoSpurious503`). |
| `health` | `HealthStateMachine` | With two probers whose Observes interleave, a backend that stays up ends up healthy (`Recovers`) and one that stays down ends up unhealthy (`Ejects`). A backend that failed its probation waits for the doubled backoff (`RelapseWaits`). |
| `passive` | `PassiveChecker` | Trimming a prefix gives the sliding window (`WindowSlides`); an ejection lasts for its backoff, counted from the time Observe read (`ReadmitWaits`), and ends (`EjectedReadmitted`), although two others write the same health. |
| `checker` | `ActiveChecker` | As long as the process survives, every transition follows enough consecutive results of that backend (`TransitionsEarned`), and backends that stay up or down end up healthy or unhealthy (`Recovers`, `Ejects`). |
| `servers` | `MCServers` | The four functions that run a server implement `GracefulShutdown` (`EndsGracefully`): once stopped they take nothing, a clean end means that nothing is in flight, connections accepted during the cancellation included, and an end that is due comes. The end is that nil is returned, in main exit status 0, and for the admin server that its Shutdown returns: Start itself returns nil earlier (section 6). A cancelled server returns if its connections end (`ShutdownCompletes`), main even if they do not (`MainExits`). The TCP proxy counts its connections on every path through handleConn (`ConnsMatchInFlight`). |
| `routing` | `MCFrontend` | After any sequence of Adds Match finds the longest registered prefix (`MatchIsDeepest`, against a definition that knows only the list of rules). The first header rule wins, also over rules added later, and a rule for a new host, or for a host with a port, takes no request from another host (`RulesKeepTheirRequests`). In every order of up to five middlewares, and wherever the deadline of a timeout falls: the gauge comes back to zero and a recorder that no panic passes sees the request once, with the status the client gets unless a timeout around it answered (`RequestsAccounted`); a body that the upstream or the deadline cut short never ends as a complete 200 (`NoTruncated200`); the body is encoded as declared (`EncodingDeclared`); header rules behind a timeout reach the client (`RulesArriveBehindTimeout`). |
| `certs` | `CertReload` | While the two files are rewritten one after the other, in place or by a rename, a later connection never gets an older certificate (`LaterIsNewer`), and a pair that comes to rest under the watch is served in the end, whatever reloads failed on the way (`PairServed`). |

## 4. Bounds

* `breaker`: three goroutines, two probes, a threshold of two. Three are needed:
  one that is late, one that probes, one that reports. `breaker_returns` needs
  only two goroutines and one probe.
* `registry`: three callers, two IDs, three addresses, so that a creation too
  many would have an address to use; two Reloads at a time, files with at most one
  mistake (each tag fails alone) or unreadable.
* `limiter`: two requests of one client at a time, half a token per tick so that
  refills truncate, five ticks with a sweep every two, so that a bucket can be
  dropped while an Allow holds it and be made anew.
* `proxy_list`: two requests, three objects of which two are configured and the
  third is added under an ID that is taken, all four algorithms. Hashes cover
  different remainders. `CounterMod` = 6 is a multiple of every list length, so
  that the reduced counter gives the indices of the full one.
* `table_routing`: two requests, two objects of which one is configured, one
  weight update (to zero or one), a ring of eight positions on which the keys of
  the two backends interleave and collide once.
* `health`: two probers, thresholds 3 and 2, backoffs 1, 2 and 4 ticks.
* `passive`: two callers, a window of two ticks, three events between two resets,
  so that some fall out of the window and others stay; backoffs 1, 2 and 3, the last
  one capped, which the clock can use up between Observe's reading and its store.
* `checker`: two backends and two probes at once, so that probes of different
  backends collide in the maps while no backend is probed twice at a time.
* `servers`: three connections (one finished, one in flight, one that comes in
  late), two backends for the TCP proxy.
* `routing`: one of the routers or the chain is filled per behaviour, as nothing
  relates them. Three Adds, prefixes of up to two segments and paths of up to
  three, empty segments included, two headers, two host names with and without a port.
  Chains of up to five of the eight middlewares, each at most once, are every order of
  every five; a property relates at most three of them.
* `certs`: two connections, three rewrites of each file, so that a reload can meet
  an old pair, a mixed pair, a torn file and a new pair in one behaviour.

Symmetry is used for goroutines and addresses, only in runs without liveness.
Deadlock is checked except in `checker` (a crash ends the process), `servers` (the
process or the function ends), `certs` (a crash, or all files and connections are
done) and `routing` (a program stops adding rules).

## 5. Fairness

* `breaker`: the clock ticks, each goroutine goes on with its Allow or its report,
  and upstream calls return, as the transport's timeouts see to. Acquiring mu is
  strongly fair, which is what sync.Mutex gives (a waiter that starves for 1 ms
  gets the lock). The two liveness properties make an exception for a goroutine
  that is stuck in the drain loop, the defect of section 6.
* `health`: time passes and probes go on. Whether the backend is up is free.
* `passive`: time passes, a method that holds the lock returns, TryReadmit is
  called again and again, as its comment asks; it may find the lock taken
  infinitely often, hence strong fairness.
* `checker`: the ticker fires until ctx is cancelled, goroutines run.
* `servers`: handlers and the functions themselves run, Accept on a closed listener
  fails, the timer of main fires. That a tunnel or an HTTP request ends is no
  fairness of the code: it is the hypothesis `RequestsEnd` inside
  `ShutdownCompletes`, without which that property holds only for main.
* `certs`: the watching goroutine runs until it returns. Nobody has to write a file
  or to connect, and `PairServed` supposes that the last change was of a file with
  a watch.

## 6. Where the code departs from its documents

One departure has a run of its own.

* `breaker_returns`: the drain loop of Allow (`breaker.go:87`) reads the length of
  the channel and then receives. A half-open Allow takes no lock and may take the
  permit in between; the receive then blocks with mu held, and so does every call
  behind it. `breaker.go:52` says all methods are safe for concurrent use.

Others were met while modelling. They were found as counterexamples to stronger
forms of the properties above, or by reading the code; the properties are stated
so as to hold beside them, and no run is kept for each.

* Breaker: probes of an earlier half-open period may still be out when the channel
  is refilled, so more than HalfOpenProbes run at once (`breaker.go:40`, "max
  concurrent probes in half-open"). RecordSuccess stores closed without reading the
  state again under mu, so an open circuit may close directly, an edge the diagram
  of DESIGN.md does not have. An Allow that timed an older opening may end a new one
  at once, hence the history `overtaken`.
* Limiter: the load and store of the refill undo a take in between, and a swept
  bucket comes back full; both give a client more than burst plus rate, hence the
  history `disturbed`. Requests that come faster than one token each lose the
  fraction every time, so a client may get less than its rate.
* P2C: the shared generator has no lock, against `selector.go:14`; a racing draw may
  panic. The canary router has the same.
* ConsistentHash returns a node of its ring without looking at its health or at the
  list it is given (`consistenthash.go:78`), so it routes to backends that are not
  healthy. `drain.go:27` says a drained backend is marked Disabled so that the
  selector stops routing to it.
* Pool and admin: a repeated POST adds a second entry with the same ID, against
  "idempotent" (`DESIGN.md:124`). DELETE does not drain, against `README.md:105`.
  The slots of WeightedRoundRobin are never rebuilt, so a removed backend goes on
  receiving requests and a weight update never takes effect, against
  `README.md:105-106`.
* State machine: unhealthySince is set by the first failed probe and not at the
  ejection, so the backoff of a first ejection may be over when it begins, against
  `statemachine.go:12`. Overlapping Observes may take the health along an edge that
  the diagram does not have, and one that loaded the health before a drain
  overwrites Disabled, against `drain.go:27`. The passive checker has the same.
* Passive checker: the entry of an ejection survives a recovery by the active
  checker, so TryReadmit may readmit a backend that the active checker has taken
  out later (`passive.go:80`). The backoff is counted from the time Observe read on
  entry (`passive.go:41`), so it is short by what passed until the health was stored.
  A backend that the active checker takes out between TryReadmit's store of probation
  and its delete of the entry (`passive.go:96`, `passive.go:99`) is left to the active
  checker alone, hence the exception in EjectedReadmitted.
* Active checker: two probes that write the same map at once make the runtime end
  the process (`checker.go:88`), against "Blocks until ctx is cancelled"
  (`checker.go:62`).
* TCP proxy: handleConn always takes the first healthy backend, against "Simple
  round-robin for TCP" (`tcp.go:71`).
* Shutdown: the waits of TCPProxy.Serve, proxy.ListenAndServe and admin Start have no
  timeout, against `DESIGN.md:110`. Admin Start returns as soon as ListenAndServe
  does, while its Shutdown may still wait for requests. Upgraded connections are not
  waited for at all, by the library's rule.
* Configuration: POST /admin/reload only logs (`server.go:107`), against
  `README.md:107`. main uses RoundRobin whatever the algorithm that was validated.
  Routes has no `dive`, so the tag on a route's weight is never looked at. The url
  tag lets host:port without a scheme pass; such an address parses, but as an opaque
  URL without a host. Two Reloads that overlap may leave the older one stored.
* Certificates: storeCert drops the certificate it is given, so handshakes fail until
  the first reload. A connection that is accepted before that reload and shakes hands
  after it reads a configuration as a certificate, which is undefined, against
  "without dropping connections" (`termination.go:45`). Two ReloadCerts at once, which
  `termination.go:46` allows, may leave the older pair stored; Watch makes one at a
  time, which is what `CertReload` models. A change before the watch is set is
  missed, and a rename over a file ends its watch, against "whenever certFile or
  keyFile change" (`watcher.go:9`).
* Header rules and security headers are applied after the next handler has returned,
  when net/http has sent the headers, unless a TimeoutMiddleware around them holds
  the headers back; `headers.go:9` says "before the handler writes headers".
* Gzip: minBytes is not looked at (`gzip.go:32`). A TimeoutMiddleware inside puts the
  upstream's Content-Encoding in the place of the outer one, so a body that arrives
  encoded is encoded twice and declared once.
* A response that breaks off makes ReverseProxy panic; AccessLogger and the counters
  do not see it, against "every request" (`logger.go:31`). A body that is still being
  copied at the deadline of a TimeoutMiddleware breaks off in the same way: the client
  gets the 503, and a recorder inside the timeout nothing at all. Their recorders also hide
  what ReverseProxy needs for an upgrade, which then gets a 502.
* Shadow: RequestID inside ShadowMiddleware writes the header map that the mirroring
  goroutine ranges over (`shadow.go:37`), which the runtime may answer by ending the
  process, against "the caller's response is unaffected" (`shadow.go:19`). An error
  while the body is read is dropped, so a cut upload goes on as if it were complete.
* Host router: a rule registered with a port is never found, because Match strips
  the port of the request, against `host.go:20`.
* Drainer: its polling goroutine loads through a nil pointer at its first tick
  (`drain.go:40`), which ends the process, against `drain.go:26`.

## 7. What is proved

The theorems hold for every value of the constants that satisfies the named
assumptions of the modules, and TLAPS checks each proof to its leaves. All but three
state a property that a run checks too; `TypeCorrect`, `OneBreaker` and
`RefinesGraceful` are the exceptions.

* **Breaker** (`DispatchProofs`), for any number of goroutines, any
  thresholds and at least one probe: `TypeCorrect`, `RefillSafe`, `WayOut`,
  `FreshAllows`, `HalfOpenFromOpen`. RefillNeverBlocks is not inductive: it needs
  that mu is held exactly by the goroutine inside a critical section (`MuHeld`), so
  that two refills never overlap, and that during a refill the channel holds at most
  the permits sent so far (`RefillCounts`). FreshAllowsWait needs to know which
  opening the loaded openedAt belongs to (`FreshAges`). HalfOpenHasWayOut is
  inductive together with the types, MuHeld and RefillCounts. HalfOpenFromOpen needs
  no more than the guards, step by step.
* **Registry** (`DispatchProofs`), for any number of callers, IDs and addresses:
  `OneBreaker` and `RefinesAtomic`. What a Get has returned is still in the map, and
  the map is injective; both together are inductive. The step that maps to the
  abstract Get is the one that finds the ID, under the read or the write lock;
  injectivity gives that a new Breaker is used for no other ID.
* **Configuration** (`DispatchProofs`), for any number of Reloads:
  `LiveConfigSound`. A Reload may hold a configuration for as long as it likes, so the
  invariant speaks of what is held as well as of what is stored (`ConfigInv`): both
  have passed Load. That the tags of Load imply what the constructors accept is the
  last step.
* **Certificates** (`DispatchProofs`), for any number of connections and rewrites:
  `CertsMoveOn`. A file that is whole holds the last version begun
  (`FilesGrow`), so the stored pair is never ahead of the key file and a reload cannot
  go back; no connection is ahead of the stored pair (`ConfigsInOrder`).
* **Limiter** (`RateLimiterProofs`), for any number of clients and requests, any
  burst and rate, with sweeps: `TokensBounded`, `AdmissionBounded` and, for a burst of
  at least one, `PacedNotDenied` (a burst of zero denies everybody, paced or not). A
  store or a compare-and-swap writes a value computed from an earlier load, so the
  invariant must bound the copies that requests hold (`LocalsInRange`). The other two
  need an account per client (`Ledger`): what was admitted, what the bucket holds and
  the refill under way are paid for by the time up to lastRefill, and the time since
  is still owed. `MaxTime` is any natural number.
* **Proxy with the list selectors** (`ListSelectorsProofs`, `LoadProofs`), for any
  number of requests, objects, IDs and admin calls: `OnlyHealthy`, `OnlyMembers`,
  `No502WhileFit`, `ConnsExact`, `LessLoaded`. The invariant says that the histories
  agree with the present (`Truthful`), that everything a request may still choose was
  healthy and in the pool since it began (`Listed`), that Next runs on a list that is
  not empty with locals that hold backends when they are returned (`Shape`), and that a
  scan which has collected nothing has passed nothing fit (`ScanSoFar`, where the read
  lock is used: the slice stands still under it). PicksLessLoaded needs besides that
  the pool and the snapshots hold no object twice (`SliceDistinct`, `OutDistinct`:
  otherwise the two draws of P2C could be one backend), and that the counts a selector
  has compared are still those of the backends while no count has moved (`Weighed`).
* **Proxy with the table selectors** (`TableSelectorsProofs`), for any number of
  requests, objects and weight updates, and any ring in which every ID has a key:
  `WeightedOnlyHealthy`, `TablesStay`, `No503WhileFit`, `TableConnsExact`. Next runs
  on a list that is not empty (`Shape`), from which either loop builds a table that is
  not empty; what stayed fit lies before the index of the fallback loop (`Truthful`).
  The counts need that every table, in place or held by a request, contains backends
  only and that the search on the ring ends on one of its keys (`Real`).
* **Servers** (`ServersProofs`), for any number of connections and backends:
  `TCPConnsExact` and `RefinesGraceful`, the latter for all four kinds of server. It
  is the safety part of EndsGracefully: the initial states map to initial states and
  every step to a step of `GracefulShutdown` or a stutter. The invariant ties where
  the function is to the state of its listener, its loop and its Shutdown (`Phases`),
  and, for the TCP proxy, the WaitGroup to the number of live connections
  (`Counted`): Wait passes at zero, and zero must mean that nobody is left, also
  among those accepted late. Conn is assumed to be finite.
* **State machine** (`MiddlewareProofs`), for any number of probers, any
  thresholds and backoffs: `RelapseServed`. The invariant follows the Observe that
  failed the probation through its two lock sections (`Relapsed`): the time stamp is
  still to be written or no older than the relapse, and neither it nor the backoff
  changes before the backend leaves unhealthy.
* **Active checker** (`CheckersProofs`), for any number of backends and probes:
  `EarnedTransitions`, under the hypothesis that no backend is probed by two
  goroutines at once (`OneProbe`), as when each probe ends before the next tick. The
  run meets it with as many probes as backends. The invariant relates the two
  counters of a backend to its last results (`Tally`), except between the two writes
  of the probe that is at work on it.
* **Passive checker** (`CheckersProofs`), for any number of callers, any window
  and backoffs: `BackoffServed` and `RateIsSliding`. As long as the passive
  checker took the backend out, the age of the recorded ejection is never above the time
  it has been out plus the age the reading of the clock had at the store
  (`EntryNotOlder`), although the entry may belong to an earlier ejection; for that the
  caller inside a method must be the one that holds the lock, and one that is about to
  eject must find an event in the window, the time of which it stores (`Holds`). The window is the log without a prefix of events that are all too old, and the log is in
  the order of its ages (`Trimmed`), so that trimming a prefix trims all that is old.
* **Routers** (`DispatchProofs`), for any rules: `FirstMatchStays` (header
  and host rules) and `MatchesDeepest`, the latter for prefixes and paths of any length. The trie is closed
  under prefixes and holds at each node the pool of the last Add for it (`TrieInv`).
  The loop of Match is followed turn by turn: it stands at the node of what it has
  read, as long as there is one, and remembers the deepest pool on the way.
* **Middleware** (`MiddlewareProofs`), for chains of any length in any order, every
  request, everything the upstream may do and every place of the deadline:
  `RequestsRecorded`, `WholeOrBroken`, `EncodingsMatch`, `RulesReachClient`. The invariant of the chain is that no middleware is in it twice
  (`Once`), a premise the model puts into Chain; then what is behind a handler is not
  around it. The rest is about one request. What each middleware does before and after
  the handler it wraps is stated once (`Entered`, `Passed`, `TimedOut`, `Proxied`), the
  way in leaves nothing written (`Going`), and the way out carries an invariant from
  handler to handler: what the recorders behind it have seen and where a panic ends
  (`Recording`), that a 200 is whole or broken off by a panic (`Honest`), how often
  the body is encoded and what the headers say of it (`Coded`), and that the rules
  behind it are in the header map that is still held back, or in what was sent once a
  timeout has released it (`Ruled`).

Inductions over data (the turns of a loop, the length of a path) are made with sets:
the numbers for which a claim fails have a least element (`LeastNat`, from the
well-foundedness of the naturals), and that element is contradictory. This reaches
recursive functions, of which `PathTrie` and `Middleware` have two each; no module has
a RECURSIVE operator. The few lemmas this takes are repeated in the modules that use
them.

Only model-checked: every liveness property and the fairness in EndsGracefully, which
are out of the prover's reach. Every invariant and every action property that a run
checks has a theorem.

## 8. What is not modelled

* The result of a probe, of a dial and of an upstream call is a free choice: HTTP,
  TCP and gRPC probes, the transport and the director are I/O.
* Probes of one backend that overlap (a probe slower than the interval) are covered
  in `HealthStateMachine` but not in `ActiveChecker`. Nor has `ActiveChecker` the
  drainer and the passive checker, which in the code may store the health between the
  load and the store of transition; the store then overwrites theirs, and
  TransitionsEarned and its theorem speak of a checker that is alone. Those races are
  modelled from the other side, in `PassiveChecker` and `HealthStateMachine`.
* float64 rounding in the limiter and hash values are abstracted. The counters of
  RoundRobin and WeightedRoundRobin are int64 (`roundrobin.go:12`, `weightedrr.go:18`)
  and are modelled without their width: after 2^63 requests (2^31 where int has 32
  bits) the remainder is negative and the index out of range, so that Next panics.
  NoSpurious502 and the routing properties hold up to there.
* A middleware that is listed twice in one Chain: `Middleware` takes each at most once.
* The polling and the timeout of Drain: the goroutine loads through a nil pointer at
  its first tick, so there is no behaviour behind it. Only its store of Disabled is an
  action. SetWeight of a backend has the same defect and no caller; the admin API
  writes the field itself.
* The canary router draws once per request from a generator without a lock and keeps
  no other state. The race is the one `ListSelectors` models for P2C.
* In `Servers` the handlers of the HTTP servers are opaque; what they do to the pool
  is the subject of `HTTPProxy`. Idle connections are closed by Shutdown and are not
  counted.
* Defaults, environment variables and the shape of the YAML file in `Load`; only the
  validation tags are modelled.
* TLS passthrough and mTLS (byte-level parsing and library calls), the registration
  of metrics, the upstream transport's configuration, and `pipe` of `tunnel.go`, which
  nothing calls: they decide nothing that the modelled parts depend on.

## 9. Plan

1. An abstract breaker whose calls are atomic, and the conditions under which
   `CircuitBreaker` implements it; the same for the limiter.
2. ConsistentHash when the pool grows: which clients move. RoundRobin: how even
   concurrent picks are.
3. RoutesToHealthy as a theorem about any selector that picks from its list; the
   refinement of `GracefulShutdown` with its fairness, when a prover reaches it.
4. When the drainer's poller is repaired: Drain with its timeout, composed with the
   proxy, so that draining and removing can be checked as one protocol.
