---------------------------- MODULE GenxRegistry ----------------------------
(* The registries of rust/genx: load_from_dir reads a directory of model     *)
(* configurations in the order the file system gives, and registers          *)
(* generators, then segmentors and profilers; the transformer mux keeps a    *)
(* general route for every pattern its special routes know.                  *)
EXTENDS Integers, Sequences, FiniteSets

LOCAL INSTANCE SequencesExt

CONSTANTS Files,         \* the files of the directory
          Contents,      \* what a file may hold: [type, key, entries]
          Patterns, Transformers, NoT,   \* NoT: no transformer
          MaxHandles

Muxes == {"generator", "segmentor", "profiler"}

VARIABLES order, content,     \* the directory as it is read
          pass, at,           \* which pass of load_from_dir, which file
          routes,             \* mux -> the names it knows, with their models
          names,              \* the names returned so far
          pc,                 \* "load", "ok", "failed"
          table,              \* the transformer mux: [all, tts, asr] -> pattern -> transformer
          calls               \* the registrations that were accepted: <<pattern, transformer>>

load == <<order, content, pass, at, routes, names, pc>>
vars == <<load, table, calls>>

Init ==
  /\ order \in SetToSeqs(Files)
  /\ content \in [Files -> Contents]
  /\ pass = 1 /\ at = 1 /\ names = <<>> /\ pc = "load"
  /\ routes = [m \in Muxes |-> {}]
  /\ table = [k \in {"all", "tts", "asr"} |-> [p \in Patterns |-> NoT]]
  /\ calls = <<>>

\* Not the code: a name that is taken is taken over.
HandleReplaces(mux, e) == e.name # "" /\ e.model # ""

\* Mux::handle and the checks of an entry: a name once registered is refused.
HandleAccepts(mux, e) ==
  e.name # "" /\ e.model # "" /\ \A r \in mux : r.name # e.name

\* register_openai, register_segmentors, register_profilers: entry by entry; at
\* the first that is refused the call fails and the ones before stay.
Accepted(mux, es) ==
  LET Ok(n) == \A i \in 1..n : HandleAccepts(mux \cup {es[j] : j \in 1..(i - 1)}, es[i])
  IN  CHOOSE n \in 0..Len(es) : Ok(n) /\ (n < Len(es) => ~Ok(n + 1))

\* register_config and register_by_schema.  A generator without a key fails
\* with "is required", which the loader takes as a file to skip.
RegisterConfig(c) ==
  LET n == Accepted(routes[c.type], c.entries) IN
  IF c.type = "unknown" THEN pc' = "failed" /\ UNCHANGED <<routes, names>>
  ELSE IF c.type = "generator" /\ ~c.key THEN UNCHANGED <<pc, routes, names>>
  ELSE /\ routes' = [routes EXCEPT ![c.type] = @ \cup {c.entries[j] : j \in 1..n}]
       /\ IF n = Len(c.entries)
          THEN names' = names \o [i \in 1..n |-> <<c.type, c.entries[i].name>>] /\ UNCHANGED pc
          ELSE pc' = "failed" /\ UNCHANGED names

\* One file of one of the two passes of load_from_dir.
LoadFile ==
  /\ pc = "load" /\ at <= Len(order)
  /\ LET c == content[order[at]] IN
       IF (c.type = "generator") = (pass = 1) THEN RegisterConfig(c)
       ELSE UNCHANGED <<pc, routes, names>>
  /\ at' = at + 1
  /\ UNCHANGED <<order, content, pass, table, calls>>

PassEnds ==
  /\ pc = "load" /\ at > Len(order)
  /\ IF pass = 1 THEN pass' = 2 /\ at' = 1 /\ UNCHANGED pc ELSE pc' = "ok" /\ UNCHANGED <<pass, at>>
  /\ UNCHANGED <<order, content, routes, names, table, calls>>

\* TransformerMux: handle, handle_tts, handle_asr.
Handle(p, t) ==
  /\ table["all"][p] = NoT
  /\ table' = [table EXCEPT !["all"][p] = t]
HandleSpecial(k, p, t) ==
  /\ table[k][p] = NoT
  /\ table' = [table EXCEPT ![k][p] = t,
                            !["all"][p] = IF @ = NoT THEN t ELSE @]

Register ==
  /\ Len(calls) < MaxHandles
  /\ \E p \in Patterns, t \in Transformers :
       /\ Handle(p, t) \/ \E k \in {"tts", "asr"} : HandleSpecial(k, p, t)
       /\ calls' = Append(calls, <<p, t>>)
  /\ UNCHANGED load

Next == LoadFile \/ PassEnds \/ Register
Spec == Init /\ [][Next]_vars

------------------------------------------------------------------------------
Usable(f) == ~(content[f].type = "generator" /\ ~content[f].key)
EntriesOf(m) == {<<f, i>> \in Files \X (1..3) :
                   Usable(f) /\ content[f].type = m /\ i \in DOMAIN content[f].entries}
Entry(x) == content[x[1]].entries[x[2]]
BadDirectory ==
  \/ \E f \in Files : content[f].type = "unknown"
  \/ \E m \in Muxes : \E x \in EntriesOf(m) :
       \/ Entry(x).name = "" \/ Entry(x).model = ""
       \/ \E y \in EntriesOf(m) \ {x} : Entry(x).name = Entry(y).name

\* Whether a directory loads, and what is registered then, does not depend on
\* the order its files are read in; the names returned are the names registered;
\* and a pattern of the transformer mux means what was registered for it first.
OrderDoesNotMatter ==
  /\ pc = "failed" => BadDirectory
  /\ pc = "ok" =>
       /\ ~BadDirectory
       /\ \A m \in Muxes : routes[m] = {Entry(x) : x \in EntriesOf(m)}
       /\ Len(names) = Cardinality(UNION {EntriesOf(m) : m \in Muxes})
  /\ \A p \in Patterns :
       table["all"][p] = IF \E i \in 1..Len(calls) : calls[i][1] = p
                         THEN SelectSeq(calls, LAMBDA c : c[1] = p)[1][2] ELSE NoT
=============================================================================
