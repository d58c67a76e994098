------------------------------ MODULE MqttTrie ------------------------------
(***************************************************************************)
(* TrieNode/Trie (rust/mqtt0/src/trie.rs): the broker's index from topic   *)
(* filters to subscriber handles, and topic_matches                        *)
(* (rust/mqtt0/src/broker.rs), the crate's own statement of when a filter  *)
(* matches a topic.                                                        *)
(*                                                                         *)
(* A pattern or topic string is the non-empty sequence of its levels, what *)
(* split('/') gives; <<"">> is the empty string.  A trie node is named by  *)
(* the path of levels that leads to it ("+" for match_any, "#" for         *)
(* match_all), and the trie is the function from paths to the values held  *)
(* there: a node without values answers every lookup as a missing one.     *)
(***************************************************************************)
EXTENDS Integers, Sequences, FiniteSets

CONSTANTS Pattern,    \* patterns given to insert and remove
          Topic,      \* topics looked up
          Val,        \* values
          MaxValues   \* bound on the values held by one node

VARIABLES node,       \* path -> the values of that node
          inserted    \* the <<pattern, value>> pairs inserted and not removed since

vars == <<node, inserted>>

Empty == <<"">>
Dollar == {"$SYS", "$share", "$queue"}   \* the levels that start with '$'

\* A string split at its first '/': the rest is "" when there is no '/'.
Rest(str) == IF Len(str) = 1 THEN Empty ELSE Tail(str)
From(str, i) == IF i > Len(str) THEN Empty ELSE SubSeq(str, i, Len(str))

Err == <<"error">>

-----------------------------------------------------------------------------
\* TrieNode::set and set_internal: the node a pattern is stored at, below path.
\* "$share/<name>" and "$queue" in front of more levels are skipped, at any depth;
\* "#" must come last.
RECURSIVE SetPath(_, _)
SetPath(path, str) ==
    LET Child(first, subseq) ==
            IF first = "#" THEN (IF subseq = Empty THEN Append(path, "#") ELSE Err)
                           ELSE SetPath(Append(path, first), subseq)
    IN CASE str = Empty -> path
         [] Len(str) > 1 /\ str[1] = "$share" ->
              IF Len(str) = 2 THEN Err ELSE Child(str[3], From(str, 4))
         [] Len(str) > 1 /\ str[1] = "$queue" -> Child(str[2], From(str, 3))
         [] OTHER -> Child(str[1], Rest(str))

\* TrieNode::remove looks a pattern up level by level, with no special prefixes;
\* what follows a "#" is ignored.
RECURSIVE RemovePath(_, _)
RemovePath(path, str) ==
    CASE str = Empty -> path
      [] str[1] = "#" -> Append(path, "#")
      [] OTHER -> RemovePath(Append(path, str[1]), Rest(str))

Values(path) == IF path \in DOMAIN node THEN node[path] ELSE << >>

\* Not the code: a lookup that does not come back from an exact child.
RECURSIVE MatchTopicGreedy(_, _)
MatchTopicGreedy(path, str) ==
    LET exact == Append(path, str[1])
        any == Append(path, "+")
        all == Append(path, "#")
        Below(p) == \E q \in DOMAIN node : Len(q) >= Len(p) /\ SubSeq(q, 1, Len(p)) = p
    IN CASE str = Empty -> IF Values(path) # << >> THEN path ELSE Err
         [] str # Empty /\ Below(exact) -> MatchTopicGreedy(exact, Rest(str))
         [] str # Empty /\ ~Below(exact) /\ Below(any) -> MatchTopicGreedy(any, Rest(str))
         [] str # Empty /\ ~Below(exact) /\ ~Below(any) /\ Values(all) # << >> -> all
         [] OTHER -> Err

\* TrieNode::match_topic: the first node with values among the exact child, the
\* "+" child and the "#" child, in that order and depth first; wildcards at the
\* root do not apply to topics that start with '$'.  The route is the path of
\* that node, Err when there is none.
RECURSIVE MatchTopic(_, _)
MatchTopic(path, str) ==
    LET wild == ~(path = << >> /\ str[1] \in Dollar)
        exact == MatchTopic(Append(path, str[1]), Rest(str))
        any == MatchTopic(Append(path, "+"), Rest(str))
        all == Append(path, "#")
        Below(p) == \E q \in DOMAIN node : Len(q) >= Len(p) /\ SubSeq(q, 1, Len(p)) = p
    IN CASE str = Empty -> IF Values(path) # << >> THEN path ELSE Err
         [] str # Empty /\ Below(Append(path, str[1])) /\ exact # Err -> exact
         [] str # Empty /\ wild /\ Below(Append(path, "+")) /\ any # Err -> any
         [] str # Empty /\ wild /\ Values(all) # << >> -> all
         [] OTHER -> Err

\* TrieNode::get (and with_values): the values of the node match_topic finds.
Get(topic) == LET route == MatchTopic(<< >>, topic)
              IN IF route = Err THEN << >> ELSE Values(route)

\* broker.rs topic_matches.
TopicMatches(p, t) ==
    LET hashes == {i \in DOMAIN p : p[i] = "#"}
        last == IF hashes = {} THEN Len(p)
                ELSE (CHOOSE i \in hashes : \A j \in hashes : i <= j) - 1
    IN /\ ~(t[1] \in Dollar /\ p[1] \in {"#", "+"})
       /\ last <= Len(t)
       /\ \A i \in 1 .. last : p[i] \in {"+", t[i]}
       /\ hashes = {} => Len(p) = Len(t)

-----------------------------------------------------------------------------
Init == node = << >> /\ inserted = {}

\* The trie with the node at path given the values vs.
Store(path, vs) ==
    [q \in (DOMAIN node \cup {path}) \ (IF vs = << >> THEN {path} ELSE {}) |->
        IF q = path THEN vs ELSE node[q]]

Insert(p, v) ==
    LET path == SetPath(<< >>, p) IN
    /\ path # Err
    /\ Len(Values(path)) < MaxValues
    /\ node' = Store(path, Append(Values(path), v))
    /\ inserted' = inserted \cup {<<p, v>>}

\* Not the code: only the first of several equal values is removed.
RemoveFirst(p, v) ==
    LET path == RemovePath(<< >>, p)
        at == {i \in DOMAIN Values(path) : Values(path)[i] = v}
        first == CHOOSE i \in at : \A j \in at : i <= j
    IN /\ <<p, v>> \in inserted
       /\ node' = Store(path, SubSeq(Values(path), 1, first - 1)
                              \o SubSeq(Values(path), first + 1, Len(Values(path))))
       /\ inserted' = inserted \ {<<p, v>>}

\* remove(pattern, |x| x == v): Vec::retain on the values of the node.
Remove(p, v) ==
    LET path == RemovePath(<< >>, p) IN
    /\ <<p, v>> \in inserted
    /\ node' = Store(path, SelectSeq(Values(path), LAMBDA x : x # v))
    /\ inserted' = inserted \ {<<p, v>>}

\* TrieNode::update with a callback that leaves v as the only value of the node: no
\* special prefixes here either, the node is made when it is missing, and "#" must
\* come last.
Update(p, v) ==
    LET path == RemovePath(<< >>, p) IN
    /\ \A i \in DOMAIN p : p[i] = "#" => From(p, i + 1) = Empty
    /\ node' = Store(path, <<v>>)
    /\ inserted' = {e \in inserted : e[1] # p} \cup {<<p, v>>}

Next == \E p \in Pattern, v \in Val : Insert(p, v) \/ Remove(p, v) \/ Update(p, v)

Spec == Init /\ [][Next]_vars

-----------------------------------------------------------------------------
(* Properties.                                                             *)

Elements(s) == {s[i] : i \in DOMAIN s}

\* Precedence of levels in a lookup.
Rank(level) == CASE level = "#" -> 3 [] level = "+" -> 2 [] OTHER -> 1

\* p wins over q at the first level where they differ.
Before(p, q) ==
    \E i \in DOMAIN p \cap DOMAIN q :
        /\ Rank(p[i]) < Rank(q[i])
        /\ \A j \in 1 .. i - 1 : p[j] = q[j]

\* The backtracking lookup finds exactly the most specific pattern: get returns
\* the values of the first, in the order of precedence, of the inserted patterns
\* that topic_matches accepts for the topic, and nothing when there is none.  The
\* lookup differs from topic_matches in one case, left out by Len(p) <= Len(t): it does
\* not find a/# for the topic a, since it ends where the topic ends.  The Broker
\* module's Matching order stands for this.
GetIsFirstMatch ==
    \A t \in Topic :
        LET M == {p \in Pattern : /\ \E v \in Val : <<p, v>> \in inserted
                                  /\ TopicMatches(p, t) /\ Len(p) <= Len(t)}
        IN IF M = {} THEN Get(t) = << >>
           ELSE \E p \in M : /\ Get(t) = Values(SetPath(<< >>, p))
                              /\ \A q \in M : ~Before(q, p)

\* remove undoes insert ("Remove a specific value from the given pattern"): a
\* value is stored only as long as some pattern it was inserted with is.
RemoveUndoesInsert ==
    \A path \in DOMAIN node : \A v \in Elements(node[path]) :
        \E e \in inserted : e[2] = v /\ SetPath(<< >>, e[1]) = path

\* get returns what matches ("Get values matching the given topic"): the values
\* of every inserted pattern that topic_matches accepts for the topic.
GetComplete ==
    \A t \in Topic : \A e \in inserted : TopicMatches(e[1], t) => e[2] \in Elements(Get(t))
=============================================================================
