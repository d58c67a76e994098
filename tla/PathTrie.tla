------------------------------ MODULE PathTrie ------------------------------
(* rust/trie: a map from path patterns to values, looked up by path.  A path *)
(* is the sequence of its segments, with no empty segment at its end (the    *)
(* split drops it).  A node is named by the segments that lead to it; nodes  *)
(* without a value answer as if they were not there, so the trie is the      *)
(* function from the patterns that have a value.                             *)
EXTENDS Naturals, Sequences, FiniteSets

CONSTANTS Patterns,   \* the patterns given to set
          Paths,      \* the paths looked up
          Values

VARIABLES trie,       \* pattern -> its value, or NoValue
          refused     \* the last set was refused

vars == <<trie, refused>>

NoValue == 0
Found(v) == v # NoValue

Init == trie = [p \in Patterns |-> NoValue] /\ refused = FALSE

At(p) == IF p \in Patterns THEN trie[p] ELSE NoValue

\* "#" must be the last segment; the segments up to it are created as the walk
\* goes, which no lookup sees.
Set(p, v) ==
  /\ IF \E i \in 1..(Len(p) - 1) : p[i] = "#"
     THEN refused' = TRUE /\ UNCHANGED trie
     ELSE refused' = FALSE /\ trie' = [trie EXCEPT ![p] = v]

\* Not the code: a node that leads nowhere ends the search.
RECURSIVE MatchNoBacktrack(_, _)
MatchNoBacktrack(node, path) ==
  IF path = <<>> THEN <<node, At(node)>>
  ELSE LET first == Head(path) IN
       IF \E p \in Patterns : Found(trie[p]) /\ Len(p) > Len(node)
                              /\ SubSeq(p, 1, Len(node) + 1) = Append(node, first)
       THEN MatchNoBacktrack(Append(node, first), Tail(path))
       ELSE MatchNoBacktrack(Append(node, "+"), Tail(path))

\* The node a path is found at, with its value: the segment itself before "+",
\* and "+" before "#".
RECURSIVE MatchWithRoute(_, _)
MatchWithRoute(node, path) ==
  IF path = <<>> THEN <<node, At(node)>>
  ELSE LET exact == MatchWithRoute(Append(node, Head(path)), Tail(path))
           any   == MatchWithRoute(Append(node, "+"), Tail(path))
           all   == <<Append(node, "#"), At(Append(node, "#"))>>
       IN  IF Found(exact[2]) THEN exact
           ELSE IF Found(any[2]) THEN any
           ELSE IF Found(all[2]) THEN all ELSE <<<<>>, NoValue>>

\* get: the same walk without the route.
RECURSIVE Get(_, _)
Get(node, path) ==
  IF path = <<>> THEN At(node)
  ELSE LET exact == Get(Append(node, Head(path)), Tail(path))
           any   == Get(Append(node, "+"), Tail(path))
       IN  IF Found(exact) THEN exact ELSE IF Found(any) THEN any
           ELSE At(Append(node, "#"))

\* Not the code: see MatchNoBacktrack.
MatchPathNoBacktrack(path) == MatchNoBacktrack(<<>>, path)

\* match_path as it is called, on the whole trie.
MatchPath(path) == MatchWithRoute(<<>>, path)

\* walk: the patterns with a value; len is their number.
Walk == {p \in Patterns : Found(trie[p])}

Next == \E p \in Patterns, v \in Values : Set(p, v)
Spec == Init /\ [][Next]_vars

\* The segments of a pattern, "#" at its end aside, are those of the path or "+".
Fits(p, path) == \A i \in 1 .. Len(p) : i <= Len(path) /\ p[i] \in {path[i], "+"}

\* The patterns get tries for a path: a "#" needs a segment to stand for, since a lookup
\* that has used up the path ends at the node it has reached.
Covers(p, path) ==
  \/ Len(p) = Len(path) /\ Fits(p, path)
  \/ p # <<>> /\ p[Len(p)] = "#" /\ Len(p) <= Len(path) /\ Fits(SubSeq(p, 1, Len(p) - 1), path)

\* The patterns the documentation names: "#" stands for no segment as well.
DocumentedCovers(p, path) ==
  \/ Covers(p, path)
  \/ Len(p) = Len(path) + 1 /\ p[Len(p)] = "#" /\ Fits(SubSeq(p, 1, Len(path)), path)

Rank(s) == IF s = "#" THEN 3 ELSE IF s = "+" THEN 2 ELSE 1
Prefers(p, q) ==
  \E i \in 1..Len(p) :
    /\ i <= Len(q) /\ Rank(p[i]) < Rank(q[i])
    /\ \A j \in 1..(i - 1) : p[j] = q[j]

\* A lookup finds a value exactly when a pattern covers the path, of the covering ones
\* the most specific from the left, and match_path names the pattern that get
\* took the value from.  "#" covers one segment or more here: see HashCoversNone.
MostSpecific ==
  \A path \in Paths :
    LET matching == {p \in Walk : Covers(p, path)}
        m == MatchPath(path)
    IN  /\ Found(m[2]) <=> matching # {}
        /\ Found(m[2]) => /\ m[1] \in matching /\ trie[m[1]] = m[2]
                          /\ \A q \in matching \ {m[1]} : Prefers(m[1], q)
        /\ Get(<<>>, path) = m[2]

\* "Matches zero or more path segments ... `logs/#` matches `logs`"
\* (docs/en/lib/trie/doc.md): a path that a stored pattern covers by the documentation is
\* found.
HashCoversNone ==
  \A path \in Paths : (\E p \in Walk : DocumentedCovers(p, path)) => Found(Get(<<>>, path))
=============================================================================
