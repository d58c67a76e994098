-------------------------------- MODULE Hnsw --------------------------------
(***************************************************************************)
(* The vector index (rust/vecstore/src/hnsw.rs): a layered graph of        *)
(* neighbours, changed by insert and delete, searched from an entry point. *)
(* A vector is a number and its distance to another the difference; the    *)
(* level of a node, drawn at random in the code, is any up to MaxLevel.    *)
(* Slots of deleted nodes are used again, last freed first.                *)
(***************************************************************************)
EXTENDS Integers, Sequences, FiniteSets, SequencesExt, FiniteSetsExt

CONSTANTS
    Vectors,      \* function: id -> the vectors it is given
    M,            \* HNSWConfig::m
    Ef,           \* ef_construction and ef_search
    MaxLevel,     \* bound: levels (31 in the code)
    MaxOps        \* bound: calls

Ids == DOMAIN Vectors
Null == [id |-> "none"]
MaxConns(layer) == IF layer = 0 THEN 2 * M ELSE M

VARIABLES
    nodes,        \* slots, from 1: [id, vector, level, friends] or Null
    id_map,       \* id -> slot
    entry_id,     \* the entry point, 0 for none
    max_level,
    free,         \* slots to use again
    ops

vars == <<nodes, id_map, entry_id, max_level, free, ops>>

Init ==
    /\ nodes = << >> /\ id_map = << >> /\ entry_id = 0 /\ max_level = 0 /\ free = << >> /\ ops = 0

Dist(x, y) == IF x < y THEN y - x ELSE x - y
Live(ns, s) == ns[s] # Null
Vec(ns, s) == ns[s].vector
Friends(ns, s, layer) ==
    IF Live(ns, s) /\ layer <= ns[s].level
    THEN SelectSeq(ns[s].friends[layer], LAMBDA f : Live(ns, f)) ELSE << >>
Nearest(ns, q, S) == CHOOSE s \in S : \A t \in S : Dist(q, Vec(ns, s)) <= Dist(q, Vec(ns, t))
Farthest(ns, q, S) == CHOOSE s \in S : \A t \in S : Dist(q, Vec(ns, s)) >= Dist(q, Vec(ns, t))

\* The greedy walk on one layer: to the closest friend as long as it is closer.
RECURSIVE Walk(_, _, _, _)
Walk(ns, q, cur, layer) ==
    LET near == Range(Friends(ns, cur, layer)) \cup {cur}
        next == Nearest(ns, q, near)
    IN IF Dist(q, Vec(ns, next)) < Dist(q, Vec(ns, cur)) THEN Walk(ns, q, next, layer) ELSE cur
RECURSIVE Descend(_, _, _, _, _)
Descend(ns, q, cur, from, to) ==
    IF from < to THEN cur ELSE Descend(ns, q, Walk(ns, q, cur, from), from - 1, to)

\* search_layer: the closest candidate is expanded, as long as it is not farther than the
\* farthest of ef results; the friends of one candidate are added one after the other.
Offer(ns, q, layer, c, st) ==
    FoldLeft(LAMBDA acc, f :
               IF f \in acc.visited THEN acc
               ELSE LET far == Farthest(ns, q, acc.results)
                        add == Cardinality(acc.results) < Ef \/ Dist(q, Vec(ns, f)) < Dist(q, Vec(ns, far))
                        more == acc.results \cup {f}
                    IN [visited |-> acc.visited \cup {f},
                        cands |-> IF add THEN acc.cands \cup {f} ELSE acc.cands,
                        results |-> IF ~add THEN acc.results
                                    ELSE IF Cardinality(more) > Ef THEN more \ {Farthest(ns, q, more)} ELSE more],
             st, Friends(ns, c, layer))
RECURSIVE Expand(_, _, _, _)
Expand(ns, q, layer, st) ==
    IF st.cands = {} THEN st.results
    ELSE LET c == Nearest(ns, q, st.cands)
             far == Farthest(ns, q, st.results)
         IN IF Cardinality(st.results) >= Ef /\ Dist(q, Vec(ns, c)) > Dist(q, Vec(ns, far)) THEN st.results
            ELSE Expand(ns, q, layer, Offer(ns, q, layer, c, [st EXCEPT !.cands = @ \ {c}]))
SearchLayer(ns, q, entries, layer) ==
    LET live == {e \in entries : Live(ns, e)}
    IN Expand(ns, q, layer, [visited |-> live, cands |-> live, results |-> live])

\* select_closest, of a list that may hold a slot twice.
SelectClosest(ns, q, s, n) ==
    IF Len(s) <= n THEN s
    ELSE LET sorted == SortSeq(SelectSeq(s, LAMBDA f : Live(ns, f)),
                               LAMBDA a, b : Dist(q, Vec(ns, a)) < Dist(q, Vec(ns, b)))
         IN SubSeq(sorted, 1, IF Len(sorted) < n THEN Len(sorted) ELSE n)

\* search: down the layers to layer 1 by the greedy walk, then search_layer.
Search(q, k) ==
    IF entry_id = 0 THEN << >>
    ELSE LET found == SearchLayer(nodes, q, {Descend(nodes, q, entry_id, max_level, 1)}, 0)
             sorted == SetToSortSeq(found, LAMBDA a, b : Dist(q, Vec(nodes, a)) < Dist(q, Vec(nodes, b)))
         IN [i \in 1 .. (IF Len(sorted) < k THEN Len(sorted) ELSE k) |-> nodes[sorted[i]].id]

-----------------------------------------------------------------------------
State == [nodes |-> nodes, id_map |-> id_map, entry |-> entry_id, level |-> max_level, free |-> free]

\* find_new_entry: the first of the nodes with the highest level.
NewEntry(ns) ==
    LET live == {s \in DOMAIN ns : Live(ns, s)}
    IN IF live = {} THEN [entry |-> 0, level |-> 0]
       ELSE LET top == Max({ns[s].level : s \in live})
            IN [entry |-> Min({s \in live : ns[s].level = top}), level |-> top]

\* Not the code: the entry point stays where it was.
RemoveKeepsEntry(st, slot) ==
    LET nd == st.nodes[slot]
    IN [st EXCEPT !.nodes = [@ EXCEPT ![slot] = Null],
                  !.id_map = [i \in DOMAIN st.id_map \ {nd.id} |-> st.id_map[i]],
                  !.free = Append(@, slot),
                  !.entry = IF DOMAIN st.id_map = {nd.id} THEN 0 ELSE @,
                  !.level = IF DOMAIN st.id_map = {nd.id} THEN 0 ELSE @]

\* remove_locked: the node is taken out of the lists of the nodes it lists itself.
RemoveLocked(st, slot) ==
    LET nd == st.nodes[slot]
        Without(s, lev) ==
            IF st.nodes[s] # Null /\ lev <= st.nodes[s].level /\ lev <= nd.level /\ s \in Range(nd.friends[lev])
            THEN SelectSeq(st.nodes[s].friends[lev], LAMBDA f : f # slot)
            ELSE st.nodes[s].friends[lev]
        ns == [s \in DOMAIN st.nodes |->
                 IF s = slot \/ st.nodes[s] = Null THEN Null
                 ELSE [st.nodes[s] EXCEPT !.friends = [lev \in 0 .. st.nodes[s].level |-> Without(s, lev)]]]
        new == IF st.entry = slot THEN NewEntry(ns) ELSE [entry |-> st.entry, level |-> st.level]
    IN [nodes |-> ns, id_map |-> [i \in DOMAIN st.id_map \ {nd.id} |-> st.id_map[i]],
        free |-> Append(st.free, slot), entry |-> new.entry, level |-> new.level]

\* Not the code: the neighbours do not learn of the new node.
ConnectOneWay(ns, slot, lev, cands) ==
    [ns EXCEPT ![slot].friends[lev] = SelectClosest(ns, Vec(ns, slot), SetToSeq(cands), MaxConns(lev))]

\* Connecting the new node on one layer: its neighbours, and it to theirs, with pruning.
Connect(ns, slot, lev, cands) ==
    LET v == Vec(ns, slot)
        near == SelectClosest(ns, v, SetToSeq(cands), MaxConns(lev))
        Back(acc, n) ==
            IF acc[n] = Null \/ lev > acc[n].level THEN acc
            ELSE LET longer == [acc EXCEPT ![n].friends[lev] = Append(@, slot)]
                 IN IF Len(longer[n].friends[lev]) <= MaxConns(lev) THEN longer
                    ELSE [longer EXCEPT ![n].friends[lev] = SelectClosest(longer, Vec(longer, n), @, MaxConns(lev))]
    IN FoldLeft(Back, [ns EXCEPT ![slot].friends[lev] = near], near)
RECURSIVE ConnectFrom(_, _, _, _)
ConnectFrom(ns, slot, lev, entries) ==
    IF lev < 0 THEN ns
    ELSE LET cands == SearchLayer(ns, Vec(ns, slot), entries, lev)
         IN ConnectFrom(Connect(ns, slot, lev, cands), slot, lev - 1, cands)

\* insert of an id with its vector at a level: the old node, whose vector may be another,
\* goes first.
Inserted(st0, id, v, level) ==
    LET st == IF id \in DOMAIN st0.id_map THEN RemoveLocked(st0, st0.id_map[id]) ELSE st0
        slot == IF st.free = << >> THEN Len(st.nodes) + 1 ELSE Last(st.free)
        node == [id |-> id, vector |-> v, level |-> level, friends |-> [lev \in 0 .. level |-> << >>]]
        ns == [s \in DOMAIN st.nodes \cup {slot} |-> IF s = slot THEN node ELSE st.nodes[s]]
        cur == Descend(ns, v, st.entry, st.level, level + 1)
        top == IF level < st.level THEN level ELSE st.level
        up == st.entry = 0 \/ level > st.level
    IN [nodes |-> IF st.entry = 0 THEN ns ELSE ConnectFrom(ns, slot, top, {cur}),
        id_map |-> [i \in DOMAIN st.id_map \cup {id} |-> IF i = id THEN slot ELSE st.id_map[i]],
        free |-> IF st.free = << >> THEN << >> ELSE Front(st.free),
        entry |-> IF up THEN slot ELSE st.entry, level |-> IF up THEN level ELSE st.level]

Becomes(st) ==
    /\ ops < MaxOps /\ ops' = ops + 1
    /\ nodes' = st.nodes /\ id_map' = st.id_map /\ entry_id' = st.entry /\ max_level' = st.level /\ free' = st.free

Insert(id, v, level) == Becomes(Inserted(State, id, v, level))
Delete(id) == id \in DOMAIN id_map /\ Becomes(RemoveLocked(State, id_map[id]))

\* save and then load: the links are kept as they are, the entry point and the free slots
\* are worked out anew.
Reload ==
    Becomes([State EXCEPT !.entry = NewEntry(nodes).entry, !.level = NewEntry(nodes).level,
                          !.free = SetToSortSeq({s \in DOMAIN nodes : nodes[s] = Null}, LAMBDA a, b : a < b)])

Next ==
    \/ Reload
    \/ \E id \in Ids, level \in 0 .. MaxLevel : \E v \in Vectors[id] : Insert(id, v, level)
    \/ \E id \in Ids : Delete(id)

Spec == Init /\ [][Next]_vars

-----------------------------------------------------------------------------
\* The entry point is a node of the highest level, so that a search starts at the top of
\* the layers and never at a deleted node (hnsw.rs:475-478 would answer with nothing).
EntryAtTop ==
    IF DOMAIN id_map = {} THEN entry_id = 0
    ELSE /\ entry_id \in Range(id_map) /\ nodes[entry_id].level = max_level
         /\ \A s \in Range(id_map) : nodes[s].level <= max_level

\* The search for the vector of id returns that vector first.
Finds(id) ==
    LET v == nodes[id_map[id]].vector
        found == Search(v, 1)
    IN found # << >> /\ nodes[id_map[found[1]]].vector = v

\* A vector that is stored is found, by its newest value ("Return the top-k nearest
\* vectors to the query", vecstore.rs:26), as the exhaustive MemoryIndex does.  It holds
\* while a layer has no more nodes than a list holds: links are then pruned nowhere.
\* Beyond that lists are pruned on one side only, and the removal of a node looks only at
\* the lists of the nodes it lists itself ("Disconnect from all neighbors at every layer",
\* hnsw.rs:273), so a link to a slot outlives its node.  An update that uses the slot
\* again comes over such a link to the new node itself and links it to nothing else, and
\* a search that follows the link ends there.
StoredIsFound == \A id \in DOMAIN id_map : Finds(id)
=============================================================================
