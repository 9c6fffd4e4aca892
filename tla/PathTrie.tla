------------------------------ MODULE PathTrie ------------------------------
(***************************************************************************)
(* The path-prefix trie of internal/routing/trie.go.  A node is named by    *)
(* the segments that lead to it from the root, and the trie is the pool of  *)
(* each node.  Paths and prefixes are what strings.Split(.., "/") yields,    *)
(* so they may hold empty segments.                                         *)
(*                                                                          *)
(* Add takes no lock: the routers are built before requests are served.     *)
(***************************************************************************)
EXTENDS Integers, Sequences

CONSTANTS
    Segment,    \* non-empty path segments
    PoolName,   \* names of pools, without ""
    MaxLen,     \* bound: segments of a prefix; a path may have one more
    MaxRules    \* bound: calls of the Adds of this router and those beside it

ASSUME TrieAssumption ==
    /\ "" \notin Segment
    /\ "" \notin PoolName
    /\ MaxLen \in Nat /\ MaxRules \in Nat

VARIABLES
    pool,   \* node -> trieNode.pool; the domain is the set of nodes
    rules   \* history: the calls of Add, oldest first

trieVars == <<pool, rules>>

Segments(n) == UNION {[1..k -> Segment \cup {""}] : k \in 0..n}

\* The segments both loops do not skip.
Split(path) ==
    LET kept[k \in 0..Len(path)] ==
          IF k = 0 THEN <<>>
          ELSE IF path[k] = "" THEN kept[k - 1] ELSE Append(kept[k - 1], path[k])
    IN  kept[Len(path)]

Prefixes(path) == {SubSeq(path, 1, k) : k \in 0..Len(path)}

NewPathTrie ==
    /\ pool = [node \in {<<>>} |-> ""]
    /\ rules = <<>>
-----------------------------------------------------------------------------
\* Walk down from the root, creating the children that are missing; the last
\* node gets the pool.
Add(prefix, p) ==
    /\ LET leaf == Split(prefix)
       IN  pool' = [node \in DOMAIN pool \cup Prefixes(leaf) |->
                      CASE node = leaf -> p
                        [] node # leaf /\ node \in DOMAIN pool -> pool[node]
                        [] OTHER -> ""]
    /\ rules' = Append(rules, <<prefix, p>>)

\* The first pool found on the way is kept instead of the last one.
MatchFirst(path) ==
    LET segs == Split(path)
        hits == {k \in 1..Len(segs) : LET node == SubSeq(segs, 1, k)
                                      IN  node \in DOMAIN pool /\ pool[node] # ""}
    IN  IF hits = {} THEN pool[<<>>]
        ELSE pool[SubSeq(segs, 1, CHOOSE k \in hits : \A j \in hits : k <= j)]

\* Walk down while there is a child, remembering the last pool seen below the
\* root; then the root's pool; "" stands for ("", false).
Match(path) ==
    LET segs == Split(path)
        walk[k \in 0..Len(segs)] ==
          IF k = 0 THEN [found |-> TRUE, last |-> ""]
          ELSE LET node == SubSeq(segs, 1, k)
                   up == walk[k - 1]
               IN  IF ~up.found \/ node \notin DOMAIN pool
                     THEN [up EXCEPT !.found = FALSE]
                     ELSE [up EXCEPT !.last = IF pool[node] # "" THEN pool[node] ELSE @]
        last == walk[Len(segs)].last
    IN  IF last # "" THEN last ELSE pool[<<>>]
-----------------------------------------------------------------------------
AddPrefix == \E prefix \in Segments(MaxLen), p \in PoolName \cup {""} : Add(prefix, p)
-----------------------------------------------------------------------------
\* The pool of the latest rule for exactly this prefix, "" if there is none.
Registered(prefix) ==
    LET calls == {n \in 1..Len(rules) : Split(rules[n][1]) = prefix}
    IN  IF calls = {} THEN ""
        ELSE rules[CHOOSE n \in calls : \A m \in calls : m <= n][2]

\* The pool of the longest registered prefix of a path, "" if there is none.
LongestPrefix(path) ==
    LET segs == Split(path)
        hits == {k \in 0..Len(segs) : Registered(SubSeq(segs, 1, k)) # ""}
    IN  IF hits = {} THEN ""
        ELSE Registered(SubSeq(segs, 1, CHOOSE k \in hits : \A j \in hits : j <= k))

\* After any sequence of Adds, in any order, with repeated, overlapping and
\* emptied rules and with doubled slashes, Match gives every path the pool of
\* its longest registered prefix, the root's included.
MatchIsDeepest ==
    \A path \in Segments(MaxLen + 1) : Match(path) = LongestPrefix(path)
=============================================================================
