----------------------------- MODULE CertReload -----------------------------
(***************************************************************************)
(* TLS termination with hot reload: TerminationListener                     *)
(* (internal/tls/termination.go), whose configuration connections load when *)
(* they are accepted and use when they shake hands, and CertReloader.Watch  *)
(* (internal/tls/watcher.go), which calls ReloadCert on the events of two    *)
(* watched files, while both files are rewritten.                            *)
(*                                                                           *)
(* A file holds the version of the pair it belongs to, or Torn while it is   *)
(* being rewritten in place.  A write in place raises two events on the      *)
(* watched file.  A rename over the file raises a Remove, and the watch is    *)
(* gone with the old file; nothing adds it again.                            *)
(***************************************************************************)
EXTENDS Integers, Sequences

CONSTANTS
    Conn,
    MaxVersion,     \* bound: rewrites of each file
    Torn

File == {"cert", "key"}
Version == 0..MaxVersion

ASSUME CertAssumption == MaxVersion \in Nat /\ Torn \notin Version

VARIABLES
    disk,       \* what each file holds
    begun,      \* the last version of each file that was begun
    watched,    \* the files with a watch
    events,     \* fsnotify's events, oldest first
    missed,     \* history: the last change was of an unwatched file
    watch,      \* where Watch is: "start", "select" or "ended"
    certRead,   \* {v} while ReloadCert has read v as the certificate, not yet the key
    cfg,        \* TerminationListener.cfg
    accepted,   \* {cfg loaded by Accept} of each connection
    outcome,    \* of its handshake: "none", "served", "refused"
    crashed     \* a handshake took the process down

fileVars == <<disk, begun, watched, events, missed>>
tlsVars == <<cfg, accepted, outcome, crashed>>
certVars == <<fileVars, watch, certRead, tlsVars>>

\* storeCert drops the certificate it is given; its configuration has none.
storeCert == [via |-> "GetCertificate", cert |-> 0, key |-> 0]

\* NewTerminationListener loaded the pair; Watch is not running yet.
CertInit ==
    /\ disk = [f \in File |-> 0] /\ begun = disk
    /\ watched = {} /\ events = <<>> /\ missed = FALSE
    /\ watch = "start" /\ certRead = {}
    /\ cfg = storeCert
    /\ accepted = [c \in Conn |-> {}] /\ outcome = [c \in Conn |-> "none"]
    /\ crashed = FALSE
-----------------------------------------------------------------------------
(* The files, and fsnotify's view of them *)

\* Events of a file without a watch are not seen; equal neighbours are merged.
Notify(op, f) ==
    /\ events' = IF f \notin watched \/ (events # <<>> /\ events[Len(events)] = <<op, f>>)
                 THEN events ELSE Append(events, <<op, f>>)
    /\ missed' = (f \notin watched)

Truncate(f) ==
    /\ disk[f] # Torn /\ begun[f] < MaxVersion
    /\ disk' = [disk EXCEPT ![f] = Torn]
    /\ begun' = [begun EXCEPT ![f] = @ + 1]
    /\ Notify("write", f)
    /\ UNCHANGED <<watched, watch, certRead, tlsVars>>

Fill(f) ==
    /\ disk[f] = Torn
    /\ disk' = [disk EXCEPT ![f] = begun[f]]
    /\ Notify("write", f)
    /\ UNCHANGED <<begun, watched, watch, certRead, tlsVars>>

Replace(f) ==
    /\ disk[f] # Torn /\ begun[f] < MaxVersion
    /\ disk' = [disk EXCEPT ![f] = begun[f] + 1]
    /\ begun' = [begun EXCEPT ![f] = @ + 1]
    /\ events' = IF f \in watched THEN Append(events, <<"remove", f>>) ELSE events
    /\ watched' = watched \ {f}
    /\ missed' = TRUE
    /\ UNCHANGED <<watch, certRead, tlsVars>>
-----------------------------------------------------------------------------
(* CertReloader.Watch *)

AddWatch(f) ==
    /\ watch = "start" /\ f \notin watched
    /\ f = "cert" \/ "cert" \in watched
    /\ watched' = watched \cup {f}
    /\ watch' = IF f = "key" THEN "select" ELSE "start"
    /\ UNCHANGED <<disk, begun, events, missed, certRead, tlsVars>>

\* Only the certificate's own events.
ReloadsOnCert(event) == event = <<"write", "cert">>

\* event.Has(fsnotify.Write) || event.Has(fsnotify.Create)
Reloads(event) == event[1] = "write"

\* An event is taken; LoadX509KeyPair reads the certificate.
Event ==
    /\ watch = "select" /\ certRead = {} /\ events # <<>>
    /\ events' = Tail(events)
    /\ certRead' = IF Reloads(Head(events)) THEN {disk["cert"]} ELSE {}
    /\ UNCHANGED <<disk, begun, watched, missed, watch, tlsVars>>

\* What LoadX509KeyPair takes for a pair.
Pair(cert, key) == cert # Torn /\ cert = key

\* A failed load puts the first configuration back.
ReloadFallsBack ==
    cfg' = IF Pair(CHOOSE v \in certRead : TRUE, disk["key"])
           THEN [via |-> "Certificates", cert |-> disk["key"], key |-> disk["key"]]
           ELSE storeCert

\* LoadX509KeyPair reads the key.  A pair is stored; otherwise the old
\* configuration stays.
ReloadCert ==
    \/ /\ Pair(CHOOSE v \in certRead : TRUE, disk["key"])
       /\ cfg' = [via |-> "Certificates", cert |-> disk["key"], key |-> disk["key"]]
    \/ /\ ~Pair(CHOOSE v \in certRead : TRUE, disk["key"])
       /\ cfg' = cfg

Reload ==
    /\ certRead # {}
    /\ ReloadCert
    /\ certRead' = {}
    /\ UNCHANGED <<fileVars, watch, accepted, outcome, crashed>>

\* Watch returns: an error of NewWatcher or Add, ctx.Done, a closed channel.
WatchReturns ==
    /\ watch # "ended" /\ certRead = {}
    /\ watch' = "ended"
    /\ UNCHANGED <<fileVars, certRead, tlsVars>>
-----------------------------------------------------------------------------
(* TerminationListener *)

Accept(c) ==
    /\ accepted[c] = {}
    /\ accepted' = [accepted EXCEPT ![c] = {cfg}]
    /\ UNCHANGED <<fileVars, watch, certRead, cfg, outcome, crashed>>

Outcome(c, o) ==
    /\ accepted[c] # {} /\ outcome[c] = "none"
    /\ outcome' = [outcome EXCEPT ![c] = o]
    /\ UNCHANGED <<fileVars, watch, certRead, cfg, accepted>>

Loaded(c, via) == \E x \in accepted[c] : x.via = via

\* The handshake uses the Certificates of the configuration it was accepted with.
Served(c) ==
    /\ Loaded(c, "Certificates")
    /\ Outcome(c, "served")
    /\ UNCHANGED crashed

\* GetCertificate returns the address of the present configuration as that of a
\* certificate.  Of the first configuration all the fields read that way are
\* zero: no certificate, no key.  Of a reloaded one they are not, and what is
\* done with them is undefined.
Garbled(c) ==
    /\ Loaded(c, "GetCertificate")
    /\ Outcome(c, "refused")
    /\ crashed' \in IF cfg.via = "GetCertificate" THEN {FALSE} ELSE BOOLEAN
-----------------------------------------------------------------------------
Watcher == (\E f \in File : AddWatch(f)) \/ Event \/ Reload

CertNext ==
    /\ ~crashed
    /\ \/ \E f \in File : Truncate(f) \/ Fill(f) \/ Replace(f)
       \/ Watcher \/ WatchReturns
       \/ \E c \in Conn : Accept(c) \/ Served(c) \/ Garbled(c)

\* The watching goroutine runs; nobody has to rewrite files or to connect.
CertSpec == CertInit /\ [][CertNext]_certVars /\ WF_certVars(~crashed /\ Watcher)
-----------------------------------------------------------------------------
\* A connection that is accepted after another one gets no older certificate than
\* it, and after a reloaded configuration never the first one, which refuses the
\* handshake: whatever reloads fail, the configuration only moves forward.
LaterIsNewer ==
    [][\A c, d \in Conn : accepted[d] = {} =>
         \A x \in accepted[c], y \in accepted'[d] :
            y.cert >= x.cert /\ (x.via = "Certificates" => y.via = "Certificates")]_certVars

\* When the files come to rest with a pair of version v, and their last change
\* was of a file with a watch, v is what connections get from then on, in whatever
\* order the files were written and whatever reloads failed on the way.
PairServed ==
    \A v \in 1..MaxVersion :
        <>[](disk = [f \in File |-> v] /\ ~missed /\ watch # "ended" /\ ~crashed)
          => <>[](cfg.via = "Certificates" /\ cfg.cert = v)
=============================================================================
