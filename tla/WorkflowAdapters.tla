-------------------------- MODULE WorkflowAdapters --------------------------
(***************************************************************************)
(* The adapters of the services that run whatever model or workflow they   *)
(* are configured with: fal, replicate, runninghub, comfydeploy, comfyui.  *)
(* What they make is not known here ("any").  c is the model, endpoint,    *)
(* deployment or address of the configuration.                             *)
(***************************************************************************)
EXTENDS AdapterReplies

WorkflowMedia == {"image", "video"}

-----------------------------------------------------------------------------
(* Fal.  A completed request is fetched with one more call, whose body is  *)
(* the result when it has neither an image nor a video.                    *)
FalSubmit(c, g) ==
  IF c # "" /\ Ready(g, {"key", "prompt"})
  THEN Job("submit", "requests", "any", g \cap {"prompt", "image"}) ELSE Fail

FalCreated(waits, r) == Ticket(waits, r)

FalPoll(r) ==
  CASE r.word = "completed" -> Fetch
    [] r.word = "failed" -> Fail
    [] OTHER -> Wait

FalResult(r) ==
  CASE "image" \in r.has -> Give("image", "url")
    [] "image" \notin r.has /\ "video" \in r.has -> Give("video", "url")
    [] OTHER -> Give("body", "json")

FalResume(g) == IF "key" \in g THEN PollAt("requests") ELSE Fail

-----------------------------------------------------------------------------
(* Replicate.  The output is a string or a list that starts with one: a    *)
(* link, a text, or nothing at all; anything else ("object", "null") is    *)
(* written out as JSON.                                                    *)
ReplicateShape(r) ==
  IF "link" \in r.has THEN "link" ELSE IF "text" \in r.has THEN "text"
  ELSE IF "empty" \in r.has THEN "" ELSE IF "object" \in r.has THEN "object" ELSE "null"

ReplicateOutput(r) ==
  LET s == ReplicateShape(r)
  IN Give(s, IF s \in {"object", "null"} THEN "json" ELSE ClassifyOutput(s))

ReplicateSubmit(c, g) ==
  IF c # "" /\ Ready(g, {"key", "prompt"})
  THEN Job("predictions", "predictions", "any", g \cap {"prompt", "image"}) ELSE Fail

(* A prediction that is ready at once is the result.                       *)
ReplicateCreated(waits, r) ==
  IF "id" \in r.has /\ r.word = "succeeded" THEN ReplicateOutput(r)
  ELSE Ticket(waits, r)

(* The string the poll ends with is classified a second time, by its first *)
(* character: a null is then a plain text.                                 *)
ReplicatePoll(r) ==
  CASE r.word = "succeeded" ->
         LET v == ReplicateOutput(r).value IN Give(v, ClassifyOutput(v))
    [] r.word \in {"failed", "canceled"} -> Fail
    [] OTHER -> Wait

ReplicateResume(g) == IF "key" \in g THEN PollAt("predictions") ELSE Fail

-----------------------------------------------------------------------------
(* RunningHub.  Nothing in the graph is required; a result without a link  *)
(* is its text, empty or not, and is called a URL all the same.            *)
RunningHubMedia == {"image", "video", "audio", "3d", "text"}

RunningHubPayload(g) == g \cap {"prompt", "image", "video", "negative"}

RunningHubSubmit(c, g) ==
  IF c # "" /\ Ready(g, {"key"}) THEN Job(c, "query", "any", RunningHubPayload(g))
  ELSE Fail

RunningHubCreated(waits, r) == Ticket(waits, r)

RunningHubPoll(r) ==
  CASE r.word = "success" -> IF "list" \notin r.has THEN Fail
                             ELSE IF "link" \in r.has THEN Give("link", "url")
                             ELSE IF "text" \in r.has THEN Give("text", "url")
                             ELSE Give("", "url")
    [] r.word \in {"failed", "cancel"} -> Fail
    [] OTHER -> Wait

RunningHubResume(g) == IF "key" \in g THEN PollAt("query") ELSE Fail

-----------------------------------------------------------------------------
(* ComfyDeploy.  Every string input of the graph goes into the request.    *)
ComfyDeployInputs(g) == g \cap {"prompt", "negative", "image", "video"}

ComfyDeploySubmit(c, g) ==
  IF c # "" /\ Ready(g, {"key"}) THEN Job("run", "run", "any", ComfyDeployInputs(g))
  ELSE Fail

ComfyDeployCreated(waits, r) == Ticket(waits, r)

ComfyDeployOutput(r) == FirstOf(<<"image", "file", "gif">>, r, "url")

ComfyDeployPoll(r) ==
  CASE r.word = "success" -> ComfyDeployOutput(r)
    [] r.word \in {"failed", "timeout"} -> Fail
    [] OTHER -> Wait

ComfyDeployResume(g) == IF "key" \in g THEN PollAt("run") ELSE Fail

-----------------------------------------------------------------------------
(* ComfyUI.  The whole graph is sent, with a key only if there is one.     *)
(* The job has ended when the history holds its ID, well or not ("history" *)
(* is the word of such an answer; 404 is none): without a file to show the *)
(* ID itself is the result.  There is no Resume.                           *)
ComfyUISubmit(c, g) ==
  IF c # "" /\ Ready(g, {}) THEN Job("prompt", "history", "any", g \ {"key"}) ELSE Fail

ComfyUICreated(waits, r) == Ticket(waits, r)

ComfyUIAsset(r) == "asset" \in r.has

ComfyUIPoll(r) ==
  CASE r.word = "history" /\ ComfyUIAsset(r) -> Give("asset", "url")
    [] r.word = "history" /\ ~ComfyUIAsset(r) -> Give("id", "text")
    [] OTHER -> Wait
=============================================================================
