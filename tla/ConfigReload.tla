---------------------------- MODULE ConfigReload ----------------------------
(***************************************************************************)
(* The live configuration: config.Load with its validation                  *)
(* (config/config.go) and the pointer that ConfigReloader swaps             *)
(* (internal/admin/reload.go), while the file is edited.                    *)
(*                                                                          *)
(* A configuration is what the tags of the structs look at and what its     *)
(* users need: how many pools and backends there are, and one algorithm,    *)
(* address and backend weight for all of them.  Kinds of address:           *)
(*   "url"     scheme and host;   "opaque"  host:port without a scheme,     *)
(*   "path"    neither;                     which parses as scheme:opaque;  *)
(*   "bad"     url.Parse fails.                                             *)
(***************************************************************************)
EXTENDS Integers

CONSTANTS
    Reloader,   \* goroutines that may call Reload
    Unreadable  \* a file that is missing or not YAML of the right shape

\* The names of PoolConfig.Algorithm's oneof.
OneOf == {"round_robin", "weighted_round_robin", "least_connections",
          "ip_hash", "consistent_hash", "p2c"}

Fields ==
    [pools : 0..1, algorithm : {"p2c", "random"}, backends : 0..1,
     addr : {"url", "opaque", "path", "bad"}, weight : {-1, 0}]

Sound == [pools |-> 1, algorithm |-> "p2c", backends |-> 1, addr |-> "url", weight |-> 0]

\* Bound: files with one mistake at most.
Config == {c \in Fields : \A f, g \in DOMAIN c : f = g \/ c[f] = Sound[f] \/ c[g] = Sound[g]}

ASSUME UnreadableAssumption == Unreadable \notin Config

VARIABLES
    file,       \* what the file holds
    ptr,        \* ConfigReloader.ptr
    loaded      \* {c} while a Reload has loaded c and not yet stored it

configVars == <<file, ptr, loaded>>
-----------------------------------------------------------------------------
\* The url tag left out.
ValidateAnyAddr(c) ==
    /\ c.pools > 0 /\ c.algorithm \in OneOf
    /\ c.backends > 0 /\ c.weight >= 0

\* The tags of Config, PoolConfig and BackendConfig.  The tag of a route's weight
\* is never looked at, for Routes has no dive.  The url tag wants a scheme and a
\* host or an opaque part.
Validate(c) ==
    /\ c.pools > 0 /\ c.algorithm \in OneOf
    /\ c.backends > 0 /\ c.weight >= 0
    /\ c.addr \in {"url", "opaque"}

\* Load, at the moment it reads the file.
Loads(c) == file = c /\ c # Unreadable /\ Validate(c)

\* main loads the file or exits; NewConfigReloader stores what it loaded.
ConfigInit ==
    /\ file \in Config
    /\ Validate(file)
    /\ ptr = file
    /\ loaded = [r \in Reloader |-> {}]

Edit(c) ==
    /\ c # file
    /\ file' = c
    /\ UNCHANGED <<ptr, loaded>>

\* A Reload whose Load fails returns the error and leaves no trace.
ReloadLoads(r) ==
    /\ loaded[r] = {}
    /\ \E c \in Config : Loads(c) /\ loaded' = [loaded EXCEPT ![r] = {c}]
    /\ UNCHANGED <<file, ptr>>

Store(r) ==
    /\ loaded[r] # {}
    /\ \E c \in loaded[r] : ptr' = c
    /\ loaded' = [loaded EXCEPT ![r] = {}]
    /\ UNCHANGED file

ConfigNext ==
    \/ \E c \in Config \cup {Unreadable} : Edit(c)
    \/ \E r \in Reloader : ReloadLoads(r) \/ Store(r)

ConfigSpec == ConfigInit /\ [][ConfigNext]_configVars
-----------------------------------------------------------------------------
\* NewSelector and backend.New return no error.
KnownAlgorithm(c) ==
    c.algorithm \in {"round_robin", "weighted_round_robin", "least_connections",
                     "ip_hash", "consistent_hash", "p2c"}

ParsesAddr(c) == c.addr # "bad"

\* Whatever is edited and however reloads overlap, the live configuration is one
\* that main could be started with: Pools[0] exists and has a backend, NewSelector
\* knows the algorithm, and backend.New parses the address.
LiveConfigUsable ==
    ptr.pools > 0 /\ ptr.backends > 0 /\ KnownAlgorithm(ptr) /\ ParsesAddr(ptr)
=============================================================================
