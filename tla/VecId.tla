-------------------------------- MODULE VecId --------------------------------
(* The identity registry of rust/vecid: embeddings are appended to a store,  *)
(* recluster groups them with DBSCAN and carries the identifiers of the old  *)
(* buckets over to the new ones.  Calls come from several threads; recluster *)
(* reads the store, then the configuration, and takes the write lock only to *)
(* install its buckets.                                                      *)
(*                                                                           *)
(* An embedding is a direction, a number: two are as similar as the numbers  *)
(* are close, so a threshold on the similarity is a bound on the distance.   *)
(* A centroid is the mean direction, kept as a sum and a count.              *)
EXTENDS Integers, Sequences, FiniteSets

CONSTANTS Directions,   \* the embeddings used
          Thresholds,   \* the distances the threshold may stand for
          MinSamples,   \* the values of min_samples tried
          Threads,      \* threads that recluster
          MaxStored,    \* bound: embeddings in the store
          MaxSets       \* bound: set_threshold and reset calls

Abs(x) == IF x < 0 THEN -x ELSE x

VARIABLES store,      \* the embeddings, in order
          buckets,    \* a sequence of [id, sum, count]
          nextId, eps, minPts,
          pc,         \* thread -> "idle", "stored", "configured"
          seen,       \* thread -> the embeddings it read
          with,       \* thread -> the distance it read
          sets        \* set_threshold and reset calls so far

vars == <<store, buckets, nextId, eps, minPts, pc, seen, with, sets>>

(* DBSCAN: labels by position; 0 is not yet seen, -1 noise. *)
RangeQuery(v, i, e) == {j \in 1..Len(v) : Abs(v[i] - v[j]) <= e}

\* Not the code: a point once taken for noise stays so.
AdoptNot(labels, q, c) == labels

\* A point taken for noise that a cluster reaches becomes a member.
Adopt(labels, q, c) == IF labels[q] = -1 THEN [labels EXCEPT ![q] = c] ELSE labels

RECURSIVE Expand(_, _, _, _, _)
Expand(v, e, labels, seed, c) ==
  IF seed = {} THEN labels
  ELSE LET q == CHOOSE x \in seed : \A y \in seed : x <= y IN
       IF labels[q] # 0
       THEN Expand(v, e, Adopt(labels, q, c), seed \ {q}, c)
       ELSE LET near == RangeQuery(v, q, e) IN
            Expand(v, e, [labels EXCEPT ![q] = c],
                   IF Cardinality(near) >= minPts THEN (seed \cup near) \ {q} ELSE seed \ {q}, c)

RECURSIVE Scan(_, _, _, _, _)
Scan(v, e, labels, i, c) ==
  IF i > Len(v) THEN labels
  ELSE IF labels[i] # 0 THEN Scan(v, e, labels, i + 1, c)
  ELSE LET near == RangeQuery(v, i, e) IN
       IF Cardinality(near) < minPts
       THEN Scan(v, e, [labels EXCEPT ![i] = -1], i + 1, c)
       ELSE Scan(v, e, Expand(v, e, [labels EXCEPT ![i] = c + 1], near \ {i}, c + 1), i + 1, c + 1)

Dbscan(v, e) == Scan(v, e, [i \in 1..Len(v) |-> 0], 1, 0)

Init ==
  /\ store = <<>> /\ buckets = <<>> /\ nextId = 0 /\ eps \in Thresholds /\ minPts \in MinSamples
  /\ pc = [t \in Threads |-> "idle"] /\ seen = [t \in Threads |-> <<>>]
  /\ with = [t \in Threads |-> 0] /\ sets = 0

\* The embedding is stored whatever the answer, which is the nearest bucket.
Identify(e) ==
  /\ Len(store) < MaxStored
  /\ store' = Append(store, e)
  /\ UNCHANGED <<minPts, buckets, nextId, eps, pc, seen, with, sets>>

\* How far a direction, or another bucket's centroid, is from a bucket's, as a
\* fraction with the counts as denominator.
Near(a, b, d) == Abs(a.sum * b.count - b.sum * a.count) <= d * a.count * b.count
Closer(a, b, c) == Abs(a.sum * b.count - b.sum * a.count) * c.count
                     < Abs(a.sum * c.count - c.sum * a.count) * b.count

ReclusterReads(t) ==
  /\ pc[t] = "idle" /\ store # <<>>
  /\ seen' = [seen EXCEPT ![t] = store] /\ pc' = [pc EXCEPT ![t] = "stored"]
  /\ UNCHANGED <<minPts, store, buckets, nextId, eps, with, sets>>

ReclusterConfig(t) ==
  /\ pc[t] = "stored"
  /\ with' = [with EXCEPT ![t] = eps] /\ pc' = [pc EXCEPT ![t] = "configured"]
  /\ UNCHANGED <<minPts, store, buckets, nextId, eps, seen, sets>>

RECURSIVE SumOf(_, _)
SumOf(v, s) == IF s = {} THEN 0 ELSE LET i == CHOOSE x \in s : TRUE IN v[i] + SumOf(v, s \ {i})

\* The clusters with their centroids, in the order of their labels.
NewBuckets(t) ==
  LET labels == Dbscan(seen[t], with[t])
      member(c) == {i \in 1..Len(labels) : labels[i] = c}
      top == CHOOSE m \in 0..Len(labels) :
               /\ \A i \in 1..Len(labels) : labels[i] <= m
               /\ m = 0 \/ member(m) # {}
  IN  [c \in 1..top |-> [id |-> 0, sum |-> SumOf(seen[t], member(c)),
                         count |-> Cardinality(member(c))]]

\* Not the code: an old identifier may be carried over more than once.
CandidatesAll(new, used) == 1..Len(buckets)

\* The old buckets whose identifier is still to be had.
Candidates(new, used) == {j \in 1..Len(buckets) : j \notin used}

\* Bucket by bucket: the nearest old bucket's identifier, if it is near
\* enough, or the next one.
RECURSIVE Named(_, _, _, _, _)
Named(new, k, used, n, d) ==
  IF k > Len(new) THEN <<new, n>>
  ELSE LET cand == Candidates(new[k], used)
           best == {j \in cand : \A i \in cand : ~Closer(new[k], buckets[i], buckets[j])}
           j == CHOOSE x \in best : \A y \in best : x <= y
       IN  IF best # {} /\ Near(new[k], buckets[j], d)
           THEN Named([new EXCEPT ![k].id = buckets[j].id], k + 1, used \cup {j}, n, d)
           ELSE Named([new EXCEPT ![k].id = n + 1], k + 1, used, n + 1, d)

ReclusterInstalls(t) ==
  /\ pc[t] = "configured"
  /\ LET r == Named(NewBuckets(t), 1, {}, nextId, with[t]) IN
       buckets' = r[1] /\ nextId' = r[2]
  /\ pc' = [pc EXCEPT ![t] = "idle"] /\ seen' = [seen EXCEPT ![t] = <<>>]
  /\ with' = [with EXCEPT ![t] = 0]
  /\ UNCHANGED <<minPts, store, eps, sets>>

SetThreshold(d) ==
  /\ sets < MaxSets /\ d # eps
  /\ eps' = d /\ sets' = sets + 1
  /\ UNCHANGED <<minPts, store, buckets, nextId, pc, seen, with>>

Reset ==
  /\ sets < MaxSets
  /\ store' = <<>> /\ buckets' = <<>> /\ nextId' = 0 /\ sets' = sets + 1
  /\ UNCHANGED <<minPts, eps, pc, seen, with>>

Next ==
  \/ \E e \in Directions : Identify(e)
  \/ \E t \in Threads : ReclusterReads(t) \/ ReclusterConfig(t) \/ ReclusterInstalls(t)
  \/ \E d \in Thresholds : SetThreshold(d)
  \/ Reset

Spec == Init /\ [][Next]_vars

\* Whatever reclusters, threshold changes and resets overlap, no two
\* identities share an identifier.
IdsUnique == \A i, j \in 1..Len(buckets) : i # j => buckets[i].id # buckets[j].id

\* DBSCAN against its definition: a point is in a cluster exactly when a dense
\* point is near it, and two dense points are in one cluster exactly when a
\* chain of near dense points joins them.
Dense(v, e) == {i \in 1..Len(v) : Cardinality(RangeQuery(v, i, e)) >= minPts}
RECURSIVE Chain(_, _, _)
Chain(v, e, s) ==
  LET t == s \cup {j \in Dense(v, e) : \E i \in s : j \in RangeQuery(v, i, e)} IN
  IF t = s THEN s ELSE Chain(v, e, t)
Clustered ==
  LET l == Dbscan(store, eps) IN
  /\ \A i \in 1..Len(store) : (l[i] > 0) <=> (RangeQuery(store, i, eps) \cap Dense(store, eps) # {})
  /\ \A i, j \in Dense(store, eps) : (l[i] = l[j]) <=> (j \in Chain(store, eps, {i}))

\* After a reset no identity is left (until embeddings are stored again).
ResetForgets == store = <<>> => buckets = <<>>
=============================================================================
