---------------------------- MODULE MatchBench -----------------------------
(* The benchmark of cmd/matchtest: the models are registered from files and  *)
(* chosen by a pattern, the runner tries every case with every model, and a  *)
(* client of the live server follows the run through /api/events.            *)
EXTENDS Integers, Sequences, FiniteSets

LOCAL INSTANCE SequencesExt

CONSTANTS ConfigDirs,   \* directories of models: sequences of [kind, key, names]
          Patterns,     \* --model: sequences of sets of names (what a part matches), or All
          Cases,        \* the test cases: a sequence of expected answers [rule, args], args
                        \* a set of <<key, value>>
          All,          \* the pattern "all"
          Nothing,      \* the rule "nothing"
          Answers,      \* lines a model may answer with, [rule, args]
          MaxChunks     \* 1000 in the code: chunks read of one answer

VARIABLES registry, models,        \* REGISTRY, and the models selected
          status, progress, report,   \* RunnerInner
          at,                      \* runner: [model, case, result] or "before", "after"
          call,                    \* the test in progress: generator and stream
          watch                    \* the client's event stream

vars == <<registry, models, status, progress, report, at, call, watch>>

------------------------------------------------------------------------------
\* Registering and choosing the models.

\* register_openai and register_gemini: a missing key or name fails the program.
FileOk(f) == f.key /\ f.kind \in {"openai", "gemini"} /\ \A i \in DOMAIN f.names : f.names[i] # ""

\* load_from_dir: the names in the order of the files.  A name two files give is
\* in the result twice, and once in the registry.
LoadFromDir(dir) == FlattenSeq([i \in DOMAIN dir |-> dir[i].names])

\* match_models: in the order of the parts of the pattern, a name once.
MatchModels(pattern, names) ==
  IF pattern = All THEN names
  ELSE LET Add(acc, part) == acc \o SelectSeq(names, LAMBDA n : n \in part /\ n \notin ToSet(acc))
       IN  FoldLeft(Add, <<>>, pattern)

\* BenchmarkRunner::new.
NewProgress == [status |-> "pending", done |-> 0, passed |-> 0, failed |-> 0, errors |-> 0]

NoCall == [pc |-> "none"]
NoWatch == [pc |-> "none"]

Init ==
  /\ \E dir \in ConfigDirs, p \in Patterns :
       LET names == LoadFromDir(dir) IN
       /\ \A i \in DOMAIN dir : FileOk(dir[i])
       /\ MatchModels(p, names) # <<>>
       /\ registry = ToSet(names) /\ models = MatchModels(p, names)
  /\ status = "idle" /\ progress = [m \in ToSet(models) |-> NewProgress]
  /\ report = <<>> /\ at = [pc |-> "before"] /\ call = NoCall /\ watch = NoWatch

------------------------------------------------------------------------------
\* BenchmarkRunner::run and run_model.

Run ==
  /\ at.pc = "before"
  /\ status' = "running" /\ report' = <<>> /\ at' = [pc |-> "model", m |-> 1]
  /\ UNCHANGED <<registry, models, progress, call, watch>>

RunModel ==
  /\ at.pc = "model" /\ at.m <= Len(models)
  /\ progress' = [progress EXCEPT ![models[at.m]].status = "running"]
  /\ at' = [pc |-> "case", m |-> at.m, c |-> 1, passed |-> 0, failed |-> 0, errors |-> 0]
  /\ UNCHANGED <<registry, models, status, report, call, watch>>

\* run_single_test: a timeout of the request, or an error of it, is an error of
\* the case; otherwise its stream is read.
RequestFails ==
  /\ at.pc = "case" /\ at.c <= Len(Cases) /\ call.pc = "none"
  /\ call' = [pc |-> "over", status |-> "error"]
  /\ UNCHANGED <<registry, models, status, progress, report, at, watch>>

RequestAnswered ==
  /\ at.pc = "case" /\ at.c <= Len(Cases) /\ call.pc = "none" /\ models[at.m] \in registry
  /\ call' = [pc |-> "reading", lines |-> <<>>, n |-> 0]
  /\ UNCHANGED <<registry, models, status, progress, report, at, watch>>

ReadChunk(r) ==
  /\ call.pc = "reading" /\ call.n < MaxChunks
  /\ call' = [call EXCEPT !.lines = Append(@, r), !.n = @ + 1]
  /\ UNCHANGED <<registry, models, status, progress, report, at, watch>>

\* compare_results, of the first line of the output with the answer expected, whose
\* arguments it has to have among others.
CompareResults(expected, lines) ==
  LET actual == IF lines = <<>> THEN [rule |-> "", args |-> {}] ELSE Head(lines)
      saysNothing == \E i \in DOMAIN lines : lines[i].rule = Nothing
  IN  IF IF expected.rule = Nothing THEN actual.rule = "" \/ saysNothing
         ELSE actual.rule = expected.rule /\ expected.args \subseteq actual.args
      THEN "pass" ELSE "fail"

\* The stream ends, a chunk does not come in time, or MaxChunks were read: what
\* was read is compared.  An error that does not say "done" is the case's error.
StreamEnds ==
  /\ call.pc = "reading"
  /\ call' = [pc |-> "over", status |-> CompareResults(Cases[at.c], call.lines)]
  /\ UNCHANGED <<registry, models, status, progress, report, at, watch>>

StreamFails ==
  /\ call.pc = "reading"
  /\ call' = [pc |-> "over", status |-> "error"]
  /\ UNCHANGED <<registry, models, status, progress, report, at, watch>>

Counted(s, k) == IF s = k THEN 1 ELSE 0

CaseDoneErrorless ==
  /\ call.pc = "over" /\ call' = NoCall
  /\ LET new == [at EXCEPT !.c = @ + 1, !.passed = @ + Counted(call.status, "pass"),
                           !.failed = @ + Counted(call.status, "fail")]
     IN  /\ at' = new
         /\ progress' = [progress EXCEPT ![models[at.m]].done = @ + 1, ![models[at.m]].passed = new.passed,
                                         ![models[at.m]].failed = new.failed]
  /\ UNCHANGED <<registry, models, status, report, watch>>

CaseDone ==
  /\ call.pc = "over" /\ call' = NoCall
  /\ LET new == [at EXCEPT !.c = @ + 1, !.passed = @ + Counted(call.status, "pass"),
                           !.failed = @ + Counted(call.status, "fail"),
                           !.errors = @ + Counted(call.status, "error")]
     IN  /\ at' = new
         /\ progress' = [progress EXCEPT ![models[at.m]].done = @ + 1, ![models[at.m]].passed = new.passed,
                                         ![models[at.m]].failed = new.failed, ![models[at.m]].errors = new.errors]
  /\ UNCHANGED <<registry, models, status, report, watch>>

ModelDone ==
  /\ at.pc = "case" /\ at.c > Len(Cases) /\ call.pc = "none"
  /\ report' = Append(report, [model |-> models[at.m], passed |-> at.passed,
                               failed |-> at.failed, errors |-> at.errors])
  /\ progress' = [progress EXCEPT ![models[at.m]].status = "done"]
  /\ at' = [pc |-> "model", m |-> at.m + 1]
  /\ UNCHANGED <<registry, models, status, call, watch>>

RunDone ==
  /\ at.pc = "model" /\ at.m > Len(models)
  /\ status' = "done" /\ at' = [pc |-> "after"]
  /\ UNCHANGED <<registry, models, progress, report, call, watch>>

------------------------------------------------------------------------------
\* live_events: the status and the progress are read under two locks.

\* get_progress lists a model as often as it is in models.
Total(p) == FoldSeq(LAMBDA m, n : n + p[m].done, 0, models)

Watch ==
  /\ watch.pc = "none"
  /\ watch' = [pc |-> "tick", last |-> 0, lastStatus |-> "", status |-> "", update |-> [type |-> "init"]]
  /\ UNCHANGED <<registry, models, status, progress, report, at, call>>

ReadStatus ==
  /\ watch.pc = "tick"
  /\ watch' = [watch EXCEPT !.pc = "progress", !.status = status]
  /\ UNCHANGED <<registry, models, status, progress, report, at, call>>

UpdateType(s, n) == IF s = "done" THEN "all_done" ELSE IF n > 0 THEN "case_done" ELSE "progress"

SeenByCount(s) ==
  LET n == Total(progress) IN
  IF n = watch.last THEN watch' = [watch EXCEPT !.pc = "tick"]
  ELSE watch' = [watch EXCEPT !.pc = IF s = "done" THEN "closed" ELSE "tick",
                              !.last = n, !.lastStatus = s,
                              !.update = [type |-> UpdateType(s, n), done |-> [m \in DOMAIN progress |-> progress[m].done]]]

Seen(s) ==
  LET n == Total(progress) IN
  IF n = watch.last /\ s = watch.lastStatus THEN watch' = [watch EXCEPT !.pc = "tick"]
  ELSE watch' = [watch EXCEPT !.pc = IF s = "done" THEN "closed" ELSE "tick",
                              !.last = n, !.lastStatus = s,
                              !.update = [type |-> UpdateType(s, n), done |-> [m \in DOMAIN progress |-> progress[m].done]]]

\* The stream is closed by the number of cases seen, whatever the status.
ReadProgressCounting ==
  /\ watch.pc = "progress"
  /\ Seen(IF Total(progress) >= Len(models) THEN "done" ELSE watch.status)
  /\ UNCHANGED <<registry, models, status, progress, report, at, call>>

ReadProgress ==
  /\ watch.pc = "progress" /\ Seen(watch.status)
  /\ UNCHANGED <<registry, models, status, progress, report, at, call>>

Runner ==
  \/ Run \/ RunModel \/ RequestFails \/ RequestAnswered \/ (\E r \in Answers : ReadChunk(r))
  \/ StreamEnds \/ StreamFails \/ CaseDone \/ ModelDone \/ RunDone
Client == Watch \/ ReadStatus \/ ReadProgress

Next == Runner \/ Client

\* The runner is a task, the client keeps reading.
Spec == Init /\ [][Next]_vars /\ WF_vars(Runner) /\ WF_vars(ReadStatus \/ ReadProgress)

------------------------------------------------------------------------------
\* A client is told "all_done" only with the progress complete, though it reads
\* status and progress under two locks (server.rs, live_events).
AllDoneIsComplete ==
  watch.pc = "closed" => \A m \in ToSet(models) : watch.update.done[m] = Len(Cases)

\* Every case of every model is in the report once, as passed, failed or error.
CasesCounted ==
  \A i \in DOMAIN report : report[i].model = models[i]
                           /\ report[i].passed + report[i].failed + report[i].errors = Len(Cases)

Watching == watch.pc # "none"
ToldTheEnd == watch.pc = "closed"

\* A client that keeps reading learns the end of the run.
ClientHearsEnd == Watching ~> ToldTheEnd

\* percent is at most 100: refuted when two files give one name and the pattern
\* is "all" (main.rs, match_models).
DoneBounded == \A m \in DOMAIN progress : progress[m].done <= Len(Cases)
=============================================================================
