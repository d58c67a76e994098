------------------------------- MODULE Memory -------------------------------
(***************************************************************************)
(* A persona's memory (rust/memory/src, with the segment index of          *)
(* rust/recall/src): conversations grow, are compressed into segments and  *)
(* the segments of a time bucket are compacted into a coarser one.         *)
(*                                                                         *)
(* Every call works on the store in several steps, with awaits in between; *)
(* any of them may fail, and the process may crash and start again.        *)
(* Messages and segments are said by their timestamps; about is the set    *)
(* of messages a segment was made from.  Callers let append choose the     *)
(* time, and every content and summary is one character long.  An embedder *)
(* and a compressor are configured; the entities that the compressor finds *)
(* in a message are said by the message.                                   *)
(***************************************************************************)
EXTENDS Integers, Sequences, FiniteSets, FiniteSetsExt, SequencesExt

CONSTANTS
    Conv,         \* open conversations, each with one handle
    MaxMessages,  \* CompressPolicy::max_messages
    MaxChars,     \* CompressPolicy::max_chars
    Limit,        \* the span of each bucket but the last, finest first
    MaxResults,   \* segments a compressor returns at most (LLMCompressor: one)
    Earlier,      \* how many segments earlier processes may have left, each of one message
    MaxFaults,    \* bound: failed calls and crashes
    MaxCalls,     \* bound: calls other than append and revert
    MaxTime       \* bound: timestamps used

Compactable == 1 .. Len(Limit)

VARIABLES
    clock,        \* LAST_NANO
    msgs,         \* per conversation: the stored messages [ts, user]
    revert,       \* per conversation: the revert point, 0 for none
    segs,         \* the segments [bucket, ts, id, about], at most one per bucket and ts
    sids,         \* id -> <<bucket, ts>>
    vec,          \* ids in the vector index
    graph,        \* messages whose entities and relations are in the graph
    said,         \* every message that was stored
    handle,       \* per conversation, its handle and the call on it: see Idle
    removed,      \* messages that were reverted or cleared by the caller
    cut,          \* how many calls were cut short by a failure or a crash
    torn,         \* messages whose segment a compaction had replaced and deleted when it was
                  \* cut short, others of its segments still being there
    host          \* the caller, [calls], and Host::delete, [pc, deleted, gone], gone the
                  \* ids there were when it took the segments

vars == <<clock, msgs, revert, segs, sids, vec, graph, said, handle, removed, cut, torn, host>>
store == <<segs, sids, vec, graph>>

\* Between calls.  pending is pending_msgs (and pending_chars); auto tells an append that
\* compresses from a call of compress; seen are the messages it works on, old the
\* segments and bucket theirs; fresh results are to be stored, the next at time next;
\* done are the messages of old segments already deleted; id is the segment to embed, then
\* where the call goes on from there.
Idle == [pc |-> "idle", pending |-> 0, auto |-> FALSE, seen |-> {}, bucket |-> 0, old |-> << >>,
         done |-> {}, fresh |-> 0, next |-> 0, id |-> 0, then |-> "idle"]

\* Times before this process are negative: messages first, then their segments.
Init ==
    /\ \E n \in Earlier :
          /\ segs = {[bucket |-> 1, ts |-> t, id |-> t, about |-> {t - n}] : t \in -n .. -1}
          /\ sids = [t \in -n .. -1 |-> <<1, t>>] /\ vec = -n .. -1
          /\ said = (-2 * n) .. (-n - 1) /\ graph = said
    /\ clock = 0 /\ removed = {} /\ cut = 0 /\ torn = {}
    /\ msgs = [c \in Conv |-> {}] /\ revert = [c \in Conv |-> 0]
    /\ handle = [c \in Conv |-> Idle] /\ host = [pc |-> "idle", calls |-> 0, deleted |-> FALSE, gone |-> {}]

\* now_nano never returns the same time twice, in one process; the clock goes on from
\* one process to the next.
Now == clock + 1
Tick == clock < MaxTime /\ clock' = Now

\* CompressPolicy::should_compress.
ShouldCompress(chars, n) == (MaxChars > 0 /\ chars >= MaxChars) \/ (MaxMessages > 0 /\ n >= MaxMessages)

\* bucket_for_span, ensure_coarser.
BucketForSpan(span) == Min({b \in Compactable : span <= Limit[b]} \cup {Len(Limit) + 1})
\* Not the code: a short span may go back to a finer bucket.
AnyBucket(source, target) == target
EnsureCoarser(source, target) ==
    IF target > source THEN target ELSE IF source < Len(Limit) + 1 THEN source + 1 ELSE source

Times(ms) == {m.ts : m \in ms}
LastUser(c) == Max({0} \cup {m.ts : m \in {n \in msgs[c] : n.user}})

Goes(c, h) == handle' = [handle EXCEPT ![c] = h]
\* The caller calls.
Calls == host.calls < MaxCalls /\ host' = [host EXCEPT !.calls = @ + 1]
\* A call returns; a failure is kept in last_compress_err and the counters stay.
Returns(c) == Goes(c, [Idle EXCEPT !.pending = handle[c].pending])
Fails(c) == cut < MaxFaults /\ cut' = cut + 1 /\ torn' = torn \cup handle[c].done /\ Returns(c)

-----------------------------------------------------------------------------
\* Conversation::append stores the message, then the revert point; then, when enough is
\* pending, the conversation is compressed.
Append1(c, user) ==
    /\ handle[c].pc = "idle" /\ Tick
    /\ msgs' = [msgs EXCEPT ![c] = @ \cup {[ts |-> Now, user |-> user]}]
    /\ said' = said \cup {Now}
    /\ Goes(c, [handle[c] EXCEPT !.pc = IF user THEN "point" ELSE "count", !.next = Now])
    /\ UNCHANGED <<revert, store, removed, cut, torn, host>>
Point(c) ==
    /\ handle[c].pc = "point"
    /\ revert' = [revert EXCEPT ![c] = handle[c].next]
    /\ Goes(c, [handle[c] EXCEPT !.pc = "count"])
    /\ UNCHANGED <<clock, msgs, store, said, removed, cut, torn, host>>
Count(c) ==
    /\ handle[c].pc = "count"
    /\ LET n == handle[c].pending + 1
       IN  Goes(c, IF ShouldCompress(n, n) THEN [handle[c] EXCEPT !.pending = n, !.pc = "compress", !.auto = TRUE]
                   ELSE [Idle EXCEPT !.pending = n])
    /\ UNCHANGED <<clock, msgs, revert, store, said, removed, cut, torn, host>>

\* Conversation::revert deletes the last user message and what follows it, and then
\* moves the revert point to the user message before.
Revert(c) ==
    /\ handle[c].pc = "idle" /\ revert[c] # 0
    /\ LET gone == {m \in msgs[c] : m.ts >= revert[c]}
       IN /\ gone # {}
          /\ msgs' = [msgs EXCEPT ![c] = @ \ gone]
          /\ removed' = removed \cup Times(gone)
    /\ Goes(c, [handle[c] EXCEPT !.pc = "repoint"])
    /\ UNCHANGED <<clock, revert, store, said, cut, torn, host>>
\* Not the code: the revert point stays.
RepointLate(c) ==
    /\ handle[c].pc = "repoint"
    /\ Returns(c)
    /\ UNCHANGED <<clock, msgs, revert, store, said, removed, cut, torn, host>>
Repoint(c) ==
    /\ handle[c].pc = "repoint"
    /\ revert' = [revert EXCEPT ![c] = LastUser(c)]
    /\ Returns(c)
    /\ UNCHANGED <<clock, msgs, store, said, removed, cut, torn, host>>

\* Conversation::clear, by the caller.
Clear(c) ==
    /\ handle[c].pc = "idle" /\ msgs[c] # {} /\ Calls
    /\ removed' = removed \cup Times(msgs[c])
    /\ msgs' = [msgs EXCEPT ![c] = {}] /\ revert' = [revert EXCEPT ![c] = 0]
    /\ Goes(c, Idle)
    /\ UNCHANGED <<clock, store, said, cut, torn>>

-----------------------------------------------------------------------------
\* Memory::compress, by the caller.
Compress(c) ==
    /\ handle[c].pc = "idle" /\ msgs[c] # {} /\ Calls
    /\ Goes(c, [handle[c] EXCEPT !.pc = "compress"])
    /\ UNCHANGED <<clock, msgs, revert, store, said, removed, cut, torn>>
\* It returns; append goes on to compact.
Compressed(c, pending) ==
    Goes(c, IF handle[c].auto THEN [Idle EXCEPT !.pc = "compact", !.bucket = 1]
            ELSE [Idle EXCEPT !.pending = pending])

\* It reads all messages ...
ReadAll(c) ==
    /\ handle[c].pc = "compress"
    /\ IF msgs[c] = {} THEN Compressed(c, handle[c].pending)
       ELSE Goes(c, [handle[c] EXCEPT !.pc = "extract", !.seen = Times(msgs[c])])
    /\ UNCHANGED <<clock, msgs, revert, store, said, removed, cut, torn, host>>
\* ... has their entities extracted and puts them into the graph, all or, when the
\* store fails, some ...
Extract(c) ==
    /\ handle[c].pc = "extract"
    /\ \/ /\ graph' = graph \cup handle[c].seen
          /\ Goes(c, [handle[c] EXCEPT !.pc = "summarise"])
          /\ UNCHANGED <<cut, torn>>
       \/ /\ \E some \in SUBSET handle[c].seen : graph' = graph \cup some
          /\ Fails(c)
    /\ UNCHANGED <<clock, msgs, revert, segs, sids, vec, said, removed, host>>
\* Not the code: the conversation is cleared first.
ClearFirst(c) ==
    /\ handle[c].pc = "summarise"
    /\ \E n \in 1 .. MaxResults : Goes(c, [handle[c] EXCEPT !.pc = "store", !.fresh = n])
    /\ msgs' = [msgs EXCEPT ![c] = {}]
    /\ UNCHANGED <<clock, revert, store, said, removed, cut, torn, host>>
\* ... have them compressed ...
CompressMessages(c) ==
    /\ handle[c].pc = "summarise"
    /\ \E n \in 1 .. MaxResults : Goes(c, [handle[c] EXCEPT !.pc = "store", !.fresh = n])
    /\ UNCHANGED <<clock, msgs, revert, store, said, removed, cut, torn, host>>

\* RecallIndex::store_segment: whatever lies under the key is overwritten, and what the
\* id had under another key is deleted ...
StoreSegment(b, ts, id, about) ==
    LET before == IF id \in DOMAIN sids THEN {sids[id]} ELSE {}
    IN  /\ segs' = {s \in segs : <<s.bucket, s.ts>> \notin {<<b, ts>>} \cup before}
                      \cup {[bucket |-> b, ts |-> ts, id |-> id, about |-> about]}
        /\ sids' = [i \in DOMAIN sids \cup {id} |-> IF i = id THEN <<b, ts>> ELSE sids[i]]
\* ... then the summary is embedded and put into the vector index.
Embed(c) ==
    /\ handle[c].pc = "embed"
    /\ vec' = vec \cup {handle[c].id}
    /\ IF handle[c].then = "idle" THEN Returns(c) ELSE Goes(c, [handle[c] EXCEPT !.pc = handle[c].then])
    /\ UNCHANGED <<clock, msgs, revert, segs, sids, graph, said, removed, cut, torn, host>>

\* Memory::store_segment, by the caller.
StoreOwn(c, b) ==
    /\ handle[c].pc = "idle" /\ Tick /\ Calls
    /\ StoreSegment(b, Now, Now, {})
    /\ Goes(c, [handle[c] EXCEPT !.pc = "embed", !.id = Now])
    /\ UNCHANGED <<msgs, revert, vec, graph, said, removed, cut, torn>>

\* ... store the segments ...
StoreNext(c) ==
    /\ handle[c].pc = "store" /\ handle[c].fresh > 0 /\ Tick
    /\ StoreSegment(1, Now, Now, handle[c].seen)
    /\ Goes(c, [handle[c] EXCEPT !.fresh = @ - 1, !.pc = "embed", !.id = Now, !.then = "store"])
    /\ UNCHANGED <<msgs, revert, vec, graph, said, removed, cut, torn, host>>
\* ... and clear the conversation.
ClearStored(c) ==
    /\ handle[c].pc = "store" /\ handle[c].fresh = 0
    /\ msgs' = [msgs EXCEPT ![c] = {}] /\ revert' = [revert EXCEPT ![c] = 0]
    /\ Compressed(c, 0)
    /\ UNCHANGED <<clock, store, said, removed, cut, torn, host>>

-----------------------------------------------------------------------------
\* Memory::compact, by the caller.
Compact(c) ==
    /\ handle[c].pc = "idle" /\ segs # {} /\ Calls
    /\ Goes(c, [handle[c] EXCEPT !.pc = "compact", !.bucket = 1])
    /\ UNCHANGED <<clock, msgs, revert, store, said, removed, cut, torn>>

\* compact_bucket, of one bucket after the other: with enough segments, the oldest of
\* them are compacted.
InBucket(b) == SetToSortSeq({s \in segs : s.bucket = b}, LAMBDA s, t : s.ts < t.ts)
CompactCount(n) == Min({n, Max({1, n \div 2} \cup (IF n > MaxMessages THEN {n - MaxMessages + 1} ELSE {}))})

Pick(c) ==
    LET b == handle[c].bucket  in == InBucket(b)
    IN /\ handle[c].pc = "compact"
       /\ Goes(c, IF b \notin Compactable THEN [Idle EXCEPT !.pending = handle[c].pending]
                  ELSE IF in = << >> \/ ~ShouldCompress(Len(in), Len(in)) THEN [handle[c] EXCEPT !.bucket = @ + 1]
                  ELSE [handle[c] EXCEPT !.pc = "ask", !.old = SubSeq(in, 1, CompactCount(Len(in)))])
       /\ UNCHANGED <<clock, msgs, revert, store, said, removed, cut, torn, host>>

CompactSegments(c) ==
    /\ handle[c].pc = "ask"
    /\ \E n \in 1 .. MaxResults :
          Goes(c, [handle[c] EXCEPT !.pc = "replace", !.fresh = n, !.next = Last(handle[c].old).ts])
    /\ UNCHANGED <<clock, msgs, revert, store, said, removed, cut, torn, host>>

\* Each result gets the time of the newest compacted segment, or one more than the
\* result before it, and an id of its own.
Replace(c) ==
    LET h == handle[c]
        span == Last(h.old).ts - Head(h.old).ts
        b == EnsureCoarser(h.bucket, BucketForSpan(span))
    IN /\ h.pc = "replace" /\ h.fresh > 0 /\ Tick
       /\ StoreSegment(b, h.next, Now, UNION {s.about : s \in Range(h.old)})
       /\ Goes(c, [h EXCEPT !.fresh = @ - 1, !.next = @ + 1, !.pc = "embed", !.id = Now, !.then = "replace"])
       /\ UNCHANGED <<msgs, revert, vec, graph, said, removed, cut, torn, host>>

\* RecallIndex::delete_segment, of one segment after the other.  That the vector index
\* fails goes unnoticed.
DeleteOld(c) ==
    LET h == handle[c]  id == Head(h.old).id
    IN /\ h.pc = "replace" /\ h.fresh = 0
       /\ IF id \in DOMAIN sids
            THEN /\ segs' = {s \in segs : <<s.bucket, s.ts>> # sids[id]}
                 /\ sids' = [i \in DOMAIN sids \ {id} |-> sids[i]]
                 /\ \/ vec' = vec \ {id} /\ UNCHANGED cut
                    \/ cut < MaxFaults /\ cut' = cut + 1 /\ UNCHANGED vec
            ELSE UNCHANGED <<segs, sids, vec, cut>>
       /\ Goes(c, IF Len(h.old) > 1 THEN [h EXCEPT !.old = Tail(@), !.done = @ \cup Head(h.old).about]
                  ELSE [h EXCEPT !.pc = "compact", !.bucket = @ + 1, !.old = << >>, !.done = {}])
       /\ UNCHANGED <<torn, clock, msgs, revert, graph, said, removed, host>>

-----------------------------------------------------------------------------
\* Host::delete: the conversations, the segments, their ids, then the graph, each scanned
\* and deleted.  Calls on an open memory go on in between, and the vectors stay.
DeleteConversations ==
    /\ host.pc = "idle" /\ host.calls < MaxCalls
    /\ removed' = removed \cup UNION {Times(msgs[c]) : c \in Conv}
    /\ msgs' = [c \in Conv |-> {}] /\ revert' = [c \in Conv |-> 0]
    /\ host' = [pc |-> "segments", calls |-> host.calls + 1, deleted |-> TRUE, gone |-> host.gone \cup DOMAIN sids]
    /\ UNCHANGED <<clock, store, said, handle, cut, torn>>
DeleteSegments ==
    /\ host.pc = "segments" /\ host' = [host EXCEPT !.pc = "ids", !.gone = @ \cup DOMAIN sids]
    /\ removed' = removed \cup UNION {s.about : s \in segs} /\ segs' = {}
    /\ UNCHANGED <<clock, msgs, revert, sids, vec, graph, said, handle, cut, torn>>
DeleteIds ==
    /\ host.pc = "ids" /\ host' = [host EXCEPT !.pc = "graph"]
    /\ sids' = << >>
    /\ UNCHANGED <<clock, msgs, revert, segs, vec, graph, said, handle, removed, cut, torn>>
DeleteGraph ==
    /\ host.pc = "graph" /\ host' = [host EXCEPT !.pc = "idle"]
    /\ graph' = {}
    /\ UNCHANGED <<clock, msgs, revert, segs, sids, vec, said, handle, removed, cut, torn>>
\* The store fails: the caller is told, and some of it is deleted.
DeleteFails ==
    /\ host.pc # "idle" /\ cut < MaxFaults /\ cut' = cut + 1
    /\ host' = [host EXCEPT !.pc = "idle"]
    /\ UNCHANGED <<torn, clock, msgs, revert, store, said, handle, removed>>

\* A call to the compressor, the embedder or the store fails.
Fail(c) ==
    /\ handle[c].pc \notin {"idle", "count"} /\ Fails(c)
    /\ UNCHANGED <<clock, msgs, revert, store, said, removed, host>>

\* The process ends and starts again: the store is kept, the handles are not.
Crash ==
    /\ cut < MaxFaults /\ cut' = cut + 1
    /\ torn' = torn \cup UNION {handle[c].done : c \in Conv}
    /\ handle' = [c \in Conv |-> Idle] /\ host' = [host EXCEPT !.pc = "idle"]
    /\ UNCHANGED <<clock, msgs, revert, store, said, removed>>

Step(c) ==
    \/ Point(c) \/ Count(c) \/ Repoint(c) \/ ReadAll(c) \/ Extract(c) \/ CompressMessages(c)
    \/ StoreNext(c) \/ Embed(c) \/ ClearStored(c) \/ Pick(c) \/ CompactSegments(c) \/ Replace(c) \/ DeleteOld(c)

Next ==
    \/ \E c \in Conv : Step(c) \/ Revert(c) \/ Clear(c) \/ Compress(c) \/ Compact(c) \/ Fail(c)
    \/ \E c \in Conv, user \in BOOLEAN : Append1(c, user)
    \/ \E c \in Conv, b \in 1 .. Len(Limit) + 1 : StoreOwn(c, b)
    \/ DeleteConversations \/ DeleteSegments \/ DeleteIds \/ DeleteGraph \/ DeleteFails
    \/ Crash

Spec == Init /\ [][Next]_vars

-----------------------------------------------------------------------------
\* Nothing is forgotten: a message is in its conversation or part of a segment, whatever
\* call fails and wherever the process ends, unless the caller removed it.  The order in
\* which compress and compact_bucket write before they delete is what this is about.  It
\* is said of a memory with one conversation, and one case is excepted: a compaction that
\* was cut short after it deleted some of its old segments and not all.  The next one
\* starts from those that are left and writes its result over that of the first
\* (compact.rs:78, :104).
Kept == UNION {Times(msgs[c]) : c \in Conv} \cup UNION {s.about : s \in segs} \cup removed
Remembered == said \subseteq Kept \cup torn

\* Not so: without the exception, or with two conversations that compact at once, of which
\* the second finds the first between two deletions.
RememberedAlways == said \subseteq Kept

\* get_segment returns the segment that was stored under the id: "Ensure each compacted
\* segment has a distinct timestamp to avoid key collisions" (memory/src/compact.rs:81).
\* And every segment has its id, without which delete_segment leaves it.  What there was
\* when the persona was deleted is not asked for, nor, after a call was cut short, that
\* each id still has its own segment: compact begins anew at the same key.
SegmentsKept ==
    /\ cut = 0 => \A id \in DOMAIN sids \ host.gone : \E s \in segs : s.id = id /\ <<s.bucket, s.ts>> = sids[id]
    /\ ~host.deleted => {s.id : s \in segs} \subseteq DOMAIN sids

\* revert undoes the last turn: between calls, the revert point is the last user message,
\* unless a call was cut short (conversation.rs:145-164 writes in two steps).
RevertIsLastUser ==
    cut = 0 /\ ~host.deleted => \A c \in Conv : handle[c].pc = "idle" => revert[c] = LastUser(c)

\* What a segment tells of is in the graph as well, also when compress failed on the way
\* and began anew: extract_entities comes first (memory/src/memory.rs:136).
GraphComplete == ~host.deleted => UNION {s.about : s \in segs} \subseteq graph
=============================================================================
