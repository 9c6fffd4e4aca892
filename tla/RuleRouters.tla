----------------------------- MODULE RuleRouters -----------------------------
(***************************************************************************)
(* HeaderRouter and HostRouter (internal/routing/header.go, host.go), built *)
(* beside a PathTrie.  No code of the repository chains the three: each is  *)
(* filled by its own Adds, in any order, and asked by its own Match.        *)
(*                                                                          *)
(* A header value is a member of Value or "" for an absent header; a rule   *)
(* is the set of values it accepts, one value for AddExact and any set for  *)
(* AddRegex, whose expression may well accept "".  A host is a name and a   *)
(* port, "" when the string has no port.                                    *)
(***************************************************************************)
EXTENDS PathTrie, FiniteSets

CONSTANTS
    Header, Value,
    HostName, Port

ASSUME RouterAssumption == "" \notin Value \cup Port

VARIABLES
    headerRules,    \* HeaderRouter.rules
    hostRules       \* HostRouter.rules: registered host -> pool

routerVars == <<pool, rules, headerRules, hostRules>>

Hosts == [name : HostName, port : Port \cup {""}]

RouterInit ==
    /\ NewPathTrie
    /\ headerRules = <<>>
    /\ hostRules = [h \in {} |-> ""]
-----------------------------------------------------------------------------
\* The new rule in front of the others.
AddRuleFront(rule) ==
    /\ headerRules' = <<rule>> \o headerRules
    /\ UNCHANGED <<hostRules, trieVars>>

AddRule(rule) ==
    /\ headerRules' = Append(headerRules, rule)
    /\ UNCHANGED <<hostRules, trieVars>>

AddExact(header, value, p) ==
    AddRule([header |-> header, accepts |-> {value}, pool |-> p])

\* A pattern that does not compile adds nothing.
AddRegex(header, accepted, p) ==
    AddRule([header |-> header, accepts |-> accepted, pool |-> p])

Accepts(rule, request) ==
    /\ request[rule.header] # ""
    /\ request[rule.header] \in rule.accepts

\* HeaderRouter.Match; "" stands for ("", false).
HeaderMatch(request) ==
    LET hits == {k \in 1..Len(headerRules) : Accepts(headerRules[k], request)}
    IN  IF hits = {} THEN ""
        ELSE headerRules[CHOOSE k \in hits : \A j \in hits : k <= j].pool

AddHost(host, p) ==
    /\ hostRules' = [h \in DOMAIN hostRules \cup {host} |->
                       IF h = host THEN p ELSE hostRules[h]]
    /\ UNCHANGED <<headerRules, trieVars>>

\* The text after the last colon is cut off, unless the host ends in the bracket
\* of an IPv6 literal, which then has no port.
StripPort(host) == [host EXCEPT !.port = ""]

\* HostRouter.Match
HostMatch(host) ==
    LET bare == StripPort(host)
    IN  IF bare \in DOMAIN hostRules THEN hostRules[bare] ELSE ""
-----------------------------------------------------------------------------
AddHeaderRule ==
    \E header \in Header, p \in PoolName :
        \/ \E value \in Value \cup {""} : AddExact(header, value, p)
        \/ \E accepted \in SUBSET (Value \cup {""}) : AddRegex(header, accepted, p)

Room == Len(rules) + Len(headerRules) + Cardinality(DOMAIN hostRules) < MaxRules

RouterNext ==
    \/ Room /\ AddPrefix /\ UNCHANGED <<headerRules, hostRules>>
    \/ Room /\ AddHeaderRule
    \/ \E host \in Hosts, p \in PoolName :
          (Room \/ host \in DOMAIN hostRules) /\ AddHost(host, p)

RouterSpec == RouterInit /\ [][RouterNext]_routerVars
-----------------------------------------------------------------------------
Requests == [Header -> Value \cup {""}]

\* First match wins, also over time: a request that some header rule routes keeps its
\* pool however many rules are added behind that rule; and one that is routed by its
\* host keeps its pool when a rule for another host comes, of the same name with a
\* port included.
RulesKeepTheirRequests ==
    [][/\ \A request \in Requests :
            HeaderMatch(request) # "" => HeaderMatch(request)' = HeaderMatch(request)
       /\ \A host \in Hosts :
            HostMatch(host) # "" /\ HostMatch(host)' # HostMatch(host) =>
              DOMAIN hostRules' = DOMAIN hostRules]_routerVars
=============================================================================
