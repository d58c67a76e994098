---------------------------- MODULE ProviderHttp ----------------------------
(* The HTTP services of rust/doubaospeech and rust/minimax: the clients'     *)
(* request loop with its retries, the verdict on an answer, what each        *)
(* service operation takes for success, and minimax's Task, which polls what *)
(* an operation started.  One caller makes one call at a time.               *)
(*                                                                           *)
(* An answer is its HTTP status (0 when the transport failed) and the code   *)
(* in its body: Absent when the body has none, Junk when it does not parse.  *)
EXTENDS Integers, FiniteSets

CONSTANT MaxRetries   \* the client's max_retries (3)

Absent == -1
Junk   == -2
Codes  == {Absent, Junk, 0, 1000, 3000, 3003, 3005, 1002, 5001}
Reply  == [http : {0, 200, 400, 429, 500}, code : Codes]

(* An operation: the client it goes through, where its body has the code,   *)
(* the codes it takes for success, whether it starts a task at the service. *)
Op(name, via, field, ok, starts) ==
  [name |-> name, via |-> via, field |-> field, ok |-> ok, starts |-> starts]

SynthesizeTts        == Op("SynthesizeTts", "doubao", "code", {3000}, FALSE)
RecognizeOneSentence == Op("RecognizeOneSentence", "doubao", "code", {1000, 0}, FALSE)
RecognizeFile        == Op("RecognizeFile", "doubao", "code", {0}, TRUE)
QueryFileTask        == Op("QueryFileTask", "doubao", "code", {0}, FALSE)
CreateAsyncTts       == Op("CreateAsyncTts", "doubao", "code", {0}, TRUE)
GetAsyncTts          == Op("GetAsyncTts", "doubao", "code", {0}, FALSE)
CreatePodcast        == Op("CreatePodcast", "doubao", "code", {0}, TRUE)
GetPodcast           == Op("GetPodcast", "doubao", "code", {0}, FALSE)
CreateMeeting        == Op("CreateMeeting", "doubao", "code", {0}, TRUE)
GetMeeting           == Op("GetMeeting", "doubao", "code", {0}, FALSE)
ExtractSubtitle      == Op("ExtractSubtitle", "doubao", "code", {0}, TRUE)
GetSubtitle          == Op("GetSubtitle", "doubao", "code", {0}, FALSE)
TrainVoice           == Op("TrainVoice", "doubao", "base_resp", {0}, TRUE)
VoiceStatus          == Op("VoiceStatus", "doubao", "base_resp", {0}, FALSE)
SubmitAsyncAsr       == Op("SubmitAsyncAsr", "direct", "code", Codes \ {Junk}, TRUE)
QueryAsyncAsr        == Op("QueryAsyncAsr", "direct", "code", Codes \ {Junk}, FALSE)
ConsoleRequest       == Op("ConsoleRequest", "console", "code", {0}, FALSE)

DoubaoTasks == {RecognizeFile, QueryFileTask, CreateAsyncTts, GetAsyncTts, CreatePodcast,
                GetPodcast, CreateMeeting, GetMeeting, ExtractSubtitle, GetSubtitle,
                TrainVoice, VoiceStatus}

SynthesizeSpeech     == Op("SynthesizeSpeech", "minimax", "base_resp", {0}, FALSE)
CreateAsyncSpeech    == Op("CreateAsyncSpeech", "minimax", "base_resp", {0}, TRUE)
TextToVideo          == Op("TextToVideo", "minimax", "base_resp", {0}, TRUE)
ImageToVideo         == Op("ImageToVideo", "minimax", "base_resp", {0}, TRUE)
FrameToVideo         == Op("FrameToVideo", "minimax", "base_resp", {0}, TRUE)
SubjectRefVideo      == Op("SubjectRefVideo", "minimax", "base_resp", {0}, TRUE)
AgentTask            == Op("AgentTask", "minimax", "base_resp", {0}, TRUE)
ListVoices           == Op("ListVoices", "minimax", "base_resp", {0}, FALSE)
CloneVoice           == Op("CloneVoice", "minimax", "base_resp", {0}, TRUE)
DesignVoice          == Op("DesignVoice", "minimax", "base_resp", {0}, TRUE)
UploadCloneAudio     == Op("UploadCloneAudio", "upload", "base_resp", {0}, TRUE)
UploadDemoAudio      == Op("UploadDemoAudio", "upload", "base_resp", {0}, TRUE)
DeleteVoice          == Op("DeleteVoice", "minimax", "base_resp", {0}, FALSE)
UploadFile           == Op("UploadFile", "upload", "base_resp", {0}, TRUE)
ListFiles            == Op("ListFiles", "minimax", "base_resp", {0}, FALSE)
GetFile              == Op("GetFile", "minimax", "base_resp", {0}, FALSE)
DeleteFile           == Op("DeleteFile", "minimax", "base_resp", {0}, FALSE)
DownloadFile         == Op("DownloadFile", "stream", "base_resp", Codes, FALSE)
GenerateImage        == Op("GenerateImage", "minimax", "base_resp", {0}, FALSE)
GenerateWithReference == Op("GenerateWithReference", "minimax", "base_resp", {0}, FALSE)
GenerateMusic        == Op("GenerateMusic", "minimax", "base_resp", {0}, FALSE)
ChatCompletion       == Op("ChatCompletion", "minimax", "base_resp", {0}, FALSE)
QuerySpeechStatus    == Op("QuerySpeechStatus", "minimax", "base_resp", {0}, FALSE)
QueryVideoStatus     == Op("QueryVideoStatus", "minimax", "base_resp", {0}, FALSE)
QueryVideoAgentStatus == Op("QueryVideoAgentStatus", "minimax", "base_resp", {0}, FALSE)

Operations ==
  DoubaoTasks \cup
  {SynthesizeTts, RecognizeOneSentence, SubmitAsyncAsr, QueryAsyncAsr, ConsoleRequest,
   SynthesizeSpeech, CreateAsyncSpeech, TextToVideo, ImageToVideo, FrameToVideo,
   SubjectRefVideo, AgentTask, ListVoices, CloneVoice, DesignVoice, UploadCloneAudio,
   UploadDemoAudio, DeleteVoice, UploadFile, ListFiles, GetFile, DeleteFile, DownloadFile,
   GenerateImage, GenerateWithReference, GenerateMusic, ChatCompletion, QuerySpeechStatus,
   QueryVideoStatus, QueryVideoAgentStatus}

\* The operation whose answer tells how a task is: by the task's type.
StatusOf(o) ==
  IF o = AgentTask THEN QueryVideoAgentStatus
  ELSE IF o = CreateAsyncSpeech THEN QuerySpeechStatus ELSE QueryVideoStatus

VARIABLES op,       \* the operation under way
          phase,    \* "idle", "send", "answered", "sleep", "done"; "wait" between two polls
          attempt,  \* the attempt of the request loop
          reply,    \* the last answer
          result,   \* "none", "ok", "error", and of a wait "success" or "failed"
          polling,  \* the call is a wait's status query
          task,     \* the task at the service: "none", "running", "success", "failed"
          made,     \* tasks the service started for this call
          unsure    \* server errors that came although a task had been started

vars == <<op, phase, attempt, reply, result, polling, task, made, unsure>>

NoReply == [http |-> 0, code |-> Absent]

Init ==
  /\ op \in Operations /\ phase = "idle" /\ attempt = 0 /\ reply = NoReply
  /\ result = "none" /\ polling = FALSE
  /\ task = "none" /\ made = 0 /\ unsure = 0

\* A body without the code field is read as 0.
CodeAt(field, r) == IF field # op.field \/ r.code = Absent THEN 0 ELSE r.code

DoubaoRateLimit(code, http)   == code = 3003 \/ http = 429
DoubaoServerError(code, http) == code = 3005 \/ http >= 500
MinimaxRateLimit(code, http)  == code = 1002 \/ http = 429
MinimaxServerError(code, http) == code >= 5000 \/ http >= 500

\* Not the code: a failed transport is retried as well.
DoubaoRetryableAlways(code, http) == code = 3003 \/ http \in {0, 429} \/ http >= 500

DoubaoRetryable(code, http)  == DoubaoRateLimit(code, http) \/ DoubaoServerError(code, http)
MinimaxRetryable(code, http) == MinimaxRateLimit(code, http) \/ MinimaxServerError(code, http)

\* An error answer: its code is the body's, the HTTP status when there is none.
DoubaoParseError(r)  ==
  IF r.code = Junk THEN DoubaoRetryable(r.http, r.http)
  ELSE DoubaoRetryable(CodeAt("code", r), r.http)
MinimaxParseError(r) ==
  IF r.code \in {Junk, Absent} THEN MinimaxRetryable(r.http, r.http)
  ELSE MinimaxRetryable(r.code, r.http)

\* What the two clients make of an answer.
DoubaoHandleResponse(r) ==
  CASE r.http = 0 -> IF DoubaoRetryable(0, 0) THEN "retry" ELSE "error"
    [] r.http # 0 /\ r.http # 200 -> IF DoubaoParseError(r) THEN "retry" ELSE "error"
    [] r.http = 200 /\ r.code = Junk -> "error"
    [] r.http = 200 /\ r.code # Junk ->
         IF CodeAt("code", r) \in {3000, 1000} THEN "ok"
         ELSE IF DoubaoRetryable(CodeAt("code", r), 200) THEN "retry" ELSE "error"

MinimaxHandleResponse(r) ==
  CASE r.http = 0 -> IF MinimaxRetryable(0, 0) THEN "retry" ELSE "error"
    [] r.http # 0 /\ r.http # 200 -> IF MinimaxParseError(r) THEN "retry" ELSE "error"
    [] r.http = 200 /\ r.code = Junk -> "error"
    [] r.http = 200 /\ r.code # Junk ->
         IF CodeAt("base_resp", r) = 0 THEN "ok"
         ELSE IF MinimaxRetryable(CodeAt("base_resp", r), 200) THEN "retry" ELSE "error"

\* The transports without a retry loop.
OnlyOnce(v) == IF v = "retry" THEN "error" ELSE v
Verdict(r) ==
  CASE op.via = "doubao"  -> DoubaoHandleResponse(r)
    [] op.via = "minimax" -> MinimaxHandleResponse(r)
    [] op.via = "upload"  -> OnlyOnce(MinimaxHandleResponse(r))
    [] op.via = "stream"  -> IF r.http = 200 THEN "ok" ELSE "error"
    [] op.via = "direct"  -> IF r.http = 200 /\ r.code # Junk THEN "ok" ELSE "error"
    [] op.via = "console" -> IF r.http # 0 /\ r.code = 0 THEN "ok" ELSE "error"

\* The operation's own look at the code, once the client has passed it.
Accepts(r) == op.via = "stream" \/ CodeAt(op.field, r) \in op.ok

Call ==
  /\ phase = "idle"
  /\ phase' = "send"
  /\ UNCHANGED <<op, attempt, reply, result, polling, task, made, unsure>>

\* The service: it may have started the task whatever it answers, unless it refuses the
\* request or the caller's rate.
Refusal(r) == r.http \in {400, 429} \/ r.code \in {3003, 1002}
ServerError(r) == r.http = 500 \/ r.code \in {3005, 5001}

ServiceAnswers ==
  /\ phase = "send"
  /\ \E r \in Reply, started \in BOOLEAN :
       /\ r.http = 0 => r.code = Absent
       /\ started => op.starts /\ ~Refusal(r)
       /\ (r.http = 200 /\ Accepts(r) /\ ~Refusal(r) /\ ~ServerError(r) /\ op.starts) => started
       /\ reply' = r
       /\ made' = IF started THEN made + 1 ELSE made
       /\ task' = IF started THEN "running" ELSE task
       /\ unsure' = IF started /\ ServerError(r) THEN unsure + 1 ELSE unsure
  /\ phase' = "answered"
  /\ UNCHANGED <<op, attempt, result, polling>>

\* One turn of the request loop, and the operation's check of what it returns; a wait
\* goes on with the status.
Handle ==
  /\ phase = "answered"
  /\ LET v == Verdict(reply) IN
       \/ /\ v = "retry" /\ attempt < MaxRetries
          /\ phase' = "sleep" /\ UNCHANGED result
       \/ /\ v = "error" \/ (v = "retry" /\ attempt = MaxRetries)
          /\ phase' = "done" /\ result' = "error"
       \/ /\ v = "ok" /\ ~polling
          /\ phase' = "done"
          /\ result' = IF Accepts(reply) THEN "ok" ELSE "error"
  /\ UNCHANGED <<op, attempt, reply, polling, task, made, unsure>>

Backoff ==
  /\ phase = "sleep"
  /\ attempt' = attempt + 1 /\ phase' = "send"
  /\ UNCHANGED <<op, reply, result, polling, task, made, unsure>>

\* Task::wait on what a minimax operation started.
Wait ==
  /\ phase = "done" /\ result = "ok" /\ op.starts /\ op.via = "minimax" /\ ~polling
  /\ op' = StatusOf(op) /\ polling' = TRUE
  /\ phase' = "send" /\ result' = "none" /\ attempt' = 0
  /\ UNCHANGED <<reply, task, made, unsure>>

\* Not the code: only a success ends the wait.
StatusOnlySuccess ==
  /\ phase = "answered" /\ polling /\ Verdict(reply) = "ok"
  /\ IF task = "success" THEN phase' = "done" /\ result' = task
     ELSE phase' = "wait" /\ UNCHANGED result
  /\ UNCHANGED <<op, attempt, reply, polling, task, made, unsure>>

Status ==
  /\ phase = "answered" /\ polling /\ Verdict(reply) = "ok"
  /\ \/ /\ task \in {"success", "failed"}
        /\ phase' = "done" /\ result' = task
     \/ /\ task = "running"
        /\ phase' = "wait" /\ UNCHANGED result
  /\ UNCHANGED <<op, attempt, reply, polling, task, made, unsure>>

Poll ==
  /\ phase = "wait" /\ phase' = "send" /\ attempt' = 0
  /\ UNCHANGED <<op, reply, result, polling, task, made, unsure>>

TaskFinishes ==
  /\ task = "running"
  /\ task' \in {"success", "failed"}
  /\ UNCHANGED <<op, phase, attempt, reply, result, polling, made, unsure>>

Next ==
  Call \/ ServiceAnswers \/ Handle \/ Backoff \/ Wait \/ Status \/ Poll \/ TaskFinishes

Fairness ==
  /\ WF_vars(Call) /\ WF_vars(ServiceAnswers) /\ WF_vars(Handle) /\ WF_vars(Backoff)
  /\ WF_vars(Status) /\ WF_vars(Poll) /\ WF_vars(TaskFinishes)

Spec == Init /\ [][Next]_vars /\ Fairness

\* A call starts at most one task, unless an answer was a server error although the task
\* was started: the clients repeat every request alike, the ones that start something too
\* (doubaospeech/src/http.rs:90), but not one whose transport failed or whose answer they
\* cannot read.
StartedOnce == made <= 1 + unsure

\* Not so: after a server error the task that was started is started again.
StartedAtMostOnce == made <= 1

Calling == phase = "send"
Returned == phase = "done"

\* Every call returns: the retries are bounded, and a wait ends with the task, however
\* it ends, or with a status query that fails (minimax/src/task.rs:79).
CallReturns == Calling ~> Returned

\* What the service accepted, by the operation's own reading of the code, is
\* reported as a success.
AcceptedReported ==
  (phase = "done" /\ ~polling /\ reply.http = 200 /\ reply.code # Junk /\ Accepts(reply))
    => result = "ok"
=============================================================================
