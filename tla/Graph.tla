-------------------------------- MODULE Graph --------------------------------
(***************************************************************************)
(* The entity graph over a key-value store (rust/graph/src/kvgraph.rs) and *)
(* the updates the memory makes to it (rust/memory/src/memory.rs).         *)
(*                                                                         *)
(* The store holds a key per entity and two keys per relation, one to be   *)
(* found from either end.  Calls of several tasks interleave between their *)
(* accesses to the store; one batch is one access.                         *)
(***************************************************************************)
EXTENDS Integers, FiniteSets, FiniteSetsExt

CONSTANTS
    Label, Type,  \* entity labels and relation types, without the separator
    Attr,         \* attributes an update may carry
    Task,         \* tasks that update the graph
    MaxOps        \* bound: calls

VARIABLES
    ents,         \* label -> its attributes, for the stored entities
    fwd, rev,     \* the relation keys: <<from, type, to>>, <<to, type, from>>
    task,         \* per task: [pc, label, read]
    ops

vars == <<ents, fwd, rev, task, ops>>
Idle == [pc |-> "idle", label |-> "", read |-> {}]

Init ==
    /\ ents = << >> /\ fwd = {} /\ rev = {} /\ ops = 0
    /\ task = [t \in Task |-> Idle]

Goes(t, st) == task' = [task EXCEPT ![t] = st]
Begins(t) == task[t].pc = "idle" /\ ops < MaxOps /\ ops' = ops + 1
SetEntity(l, attrs) == ents' = [x \in DOMAIN ents \cup {l} |-> IF x = l THEN attrs ELSE ents[x]]

\* apply_entity_update: merge_attrs reads the entity and writes it back with the new
\* attributes; an entity that is not there is created.
MergeRead(t, l, a) ==
    /\ Begins(t)
    /\ Goes(t, [pc |-> "write", label |-> l, read |-> {a} \cup IF l \in DOMAIN ents THEN ents[l] ELSE {}])
    /\ UNCHANGED <<ents, fwd, rev>>
MergeWrite(t) ==
    /\ task[t].pc = "write"
    /\ SetEntity(task[t].label, task[t].read)
    /\ Goes(t, Idle)
    /\ UNCHANGED <<fwd, rev, ops>>

AddRelation(t, f, ty, to) ==
    /\ Begins(t)
    /\ fwd' = fwd \cup {<<f, ty, to>>} /\ rev' = rev \cup {<<to, ty, f>>}
    /\ UNCHANGED <<ents, task>>
RemoveRelation(t, f, ty, to) ==
    /\ Begins(t)
    /\ fwd' = fwd \ {<<f, ty, to>>} /\ rev' = rev \ {<<to, ty, f>>}
    /\ UNCHANGED <<ents, task>>

\* relations scans the outgoing keys, and then the incoming ones that are not loops.
Outgoing(l) == {r \in fwd : r[1] = l}
Incoming(l) == {<<k[3], k[2], k[1]>> : k \in {x \in rev : x[1] = l /\ x[3] # l}}

\* delete_entity: the relations are read, and then the entity and they are deleted.
DeleteRead(t, l) ==
    /\ Begins(t)
    /\ Goes(t, [pc |-> "incoming", label |-> l, read |-> Outgoing(l)])
    /\ UNCHANGED <<ents, fwd, rev>>
DeleteReadOn(t) ==
    /\ task[t].pc = "incoming"
    /\ Goes(t, [task[t] EXCEPT !.pc = "delete", !.read = @ \cup Incoming(task[t].label)])
    /\ UNCHANGED <<ents, fwd, rev, ops>>
\* Not the code: the incoming relations keep the key of their other end.
DeleteWriteHalf(t) ==
    /\ task[t].pc = "delete"
    /\ ents' = [x \in DOMAIN ents \ {task[t].label} |-> ents[x]]
    /\ fwd' = fwd \ {r \in task[t].read : r[1] = task[t].label}
    /\ rev' = rev \ {<<r[3], r[2], r[1]>> : r \in task[t].read}
    /\ Goes(t, Idle)
    /\ UNCHANGED ops
DeleteWrite(t) ==
    /\ task[t].pc = "delete"
    /\ ents' = [x \in DOMAIN ents \ {task[t].label} |-> ents[x]]
    /\ fwd' = fwd \ task[t].read
    /\ rev' = rev \ {<<r[3], r[2], r[1]>> : r \in task[t].read}
    /\ Goes(t, Idle)
    /\ UNCHANGED ops

Next ==
    \E t \in Task :
        \/ \E l \in Label, a \in Attr : MergeRead(t, l, a)
        \/ \E l \in Label : DeleteRead(t, l)
        \/ MergeWrite(t) \/ DeleteReadOn(t) \/ DeleteWrite(t)
        \/ \E f, to \in Label, ty \in Type : AddRelation(t, f, ty, to) \/ RemoveRelation(t, f, ty, to)

Spec == Init /\ [][Next]_vars

-----------------------------------------------------------------------------
\* neighbors, in both directions, and expand, the breadth-first search up to hops steps:
\* the frontier holds the labels found in the last round.
Neighbors(l) == {k[3] : k \in {r \in fwd : r[1] = l}} \cup {k[3] : k \in {r \in rev : r[1] = l}}
\* Not the code: the search goes on from the seeds only.
RoundShort(found) == [visited |-> found.visited \cup UNION {Neighbors(l) : l \in found.frontier},
                      frontier |-> {}]
Round(found) ==
    LET near == UNION {Neighbors(l) : l \in found.frontier} \ found.visited
    IN [visited |-> found.visited \cup near, frontier |-> near]
Expand(seeds, hops) ==
    LET after[h \in 0 .. hops] ==
            IF h = 0 THEN [visited |-> seeds, frontier |-> seeds] ELSE Round(after[h - 1])
    IN after[hops].visited

\* Both keys of a relation are there or neither, whatever calls interleave, so that a
\* relation found from one end is found from the other (kvgraph.rs:214-262).
BothEnds == rev = {<<r[3], r[2], r[1]>> : r \in fwd}

\* expand finds exactly what can be reached in at most hops relations, whichever way
\* they point (a path is a sequence of labels, kvgraph.rs:305-337).
Linked(a, b) == \E ty \in Type : <<a, ty, b>> \in fwd \/ <<b, ty, a>> \in fwd
Path(a, b, hops) ==
    \E n \in 0 .. hops : \E p \in [0 .. n -> Label] :
        p[0] = a /\ p[n] = b /\ \A i \in 1 .. n : Linked(p[i - 1], p[i])
ExpandIsReach ==
    \A s \in Label, hops \in 0 .. 2 : Expand({s}, hops) = {l \in Label : Path(s, l, hops)}
=============================================================================
