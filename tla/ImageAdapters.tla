---------------------------- MODULE ImageAdapters ----------------------------
(***************************************************************************)
(* The adapters of the services that make images: flux, jimeng (images and *)
(* videos), liblib, midjourney, which create jobs, and stability,          *)
(* ideogram, recraft, google, openai, whose answer is the image            *)
(* (<X>Answer).  The parts are named as in VideoAdapters.                  *)
(***************************************************************************)
EXTENDS AdapterReplies

-----------------------------------------------------------------------------
(* Flux. *)
FluxMedia == {"image"}

FluxSubmit(g) ==
  IF Ready(g, {"key", "prompt"}) THEN Job("model", "get_result", "image", {"prompt"})
  ELSE Fail

FluxCreated(waits, r) == Ticket(waits, r)

FluxPoll(r) ==
  CASE r.word = "Ready" -> FirstOf(<<"sample">>, r, "url")
    [] r.word = "Error" -> Fail
    [] OTHER -> Wait

FluxResume(g) == IF "key" \in g THEN PollAt("get_result") ELSE Fail

-----------------------------------------------------------------------------
(* Jimeng.  The endpoint of the configuration alone decides what is made;  *)
(* images come in the answer, videos are jobs polled under the endpoint.   *)
JimengIsVideo(c) == c = "video"

JimengMedia(c) == IF JimengIsVideo(c) THEN {"video"} ELSE {"image"}

JimengSubmit(c, g) ==
  IF ~Ready(g, {"key", "prompt"}) THEN Fail
  ELSE IF JimengIsVideo(c) THEN Job(c, c, "video", g \cap {"prompt", "image"})
  ELSE Ask("images", "image", {"prompt"})

(* "b64" in the graph: the option response_format asks for the bytes.      *)
JimengAnswer(g, r) ==
  IF "error" \in r.has \/ "list" \notin r.has THEN Fail
  ELSE IF "b64" \in g /\ "data" \in r.has THEN Give("data", ClassifyOutput("data"))
  ELSE IF "link" \in r.has THEN Give("link", ClassifyOutput("link"))
  ELSE FirstOf(<<"data">>, r, ClassifyOutput("data"))

JimengCreated(waits, r) == Ticket(waits, r)

JimengPoll(r) ==
  CASE r.word = "succeeded" -> FirstOf(<<"video">>, r, "url")
    [] r.word \in {"failed", "cancelled"} -> Fail
    [] OTHER -> Wait

JimengResume(c, g) ==
  IF "key" \in g THEN PollAt(IF c = "" THEN "video" ELSE c) ELSE Fail

-----------------------------------------------------------------------------
(* LibLib.  What is made depends on the endpoint and the template.         *)
LiblibMedia == {"image", "video"}

LiblibSubmit(g) ==
  IF Ready(g, {"key", "prompt"})
  THEN Job("endpoint", "status", "any", g \cap {"prompt", "image"}) ELSE Fail

LiblibCreated(waits, r) == IF "code" \in r.has THEN Fail ELSE Ticket(waits, r)

\* Mutant: any status but success ends the poll.
LiblibPollImpatient(r) ==
  IF "code" \in r.has \/ r.word # "5" THEN Fail ELSE FirstOf(<<"image", "video">>, r, "url")

(* The status is a number: 5 is success, 6 and 7 are failures.             *)
LiblibPoll(r) ==
  CASE "code" \in r.has \/ r.word \in {"6", "7"} -> Fail
    [] "code" \notin r.has /\ r.word = "5" -> FirstOf(<<"image", "video">>, r, "url")
    [] OTHER -> Wait

LiblibResume(g) == IF "key" \in g THEN PollAt("status") ELSE Fail

-----------------------------------------------------------------------------
(* Midjourney. *)
MidjourneyMedia == {"image"}

MidjourneySubmit(g) ==
  IF Ready(g, {"key", "prompt"}) THEN Job("imagine", "fetch", "image", {"prompt"})
  ELSE Fail

MidjourneyCreated(waits, r) == Ticket(waits, r)

MidjourneyPoll(r) ==
  CASE r.word = "finished" -> FirstOf(<<"image">>, r, "url")
    [] r.word = "failed" -> Fail
    [] OTHER -> Wait

MidjourneyResume(g) == IF "key" \in g THEN PollAt("fetch") ELSE Fail

-----------------------------------------------------------------------------
(* Stability, Ideogram, Recraft, Google: one request, one image.           *)
StabilitySubmit(c, g) ==
  IF Ready(g, {"key", "prompt"})
  THEN Ask(IF c \in {"core", "ultra"} THEN c ELSE "sd3", "image", {"prompt"}) ELSE Fail

StabilityAnswer(r) ==
  IF "link" \in r.has THEN Give("link", "url") ELSE FirstOf(<<"data">>, r, "data")

IdeogramSubmit(g) ==
  IF Ready(g, {"key", "prompt"}) THEN Ask("generate", "image", {"prompt"}) ELSE Fail

IdeogramAnswer(r) == FirstOf(<<"link">>, r, "url")

RecraftSubmit(g) ==
  IF Ready(g, {"key", "prompt"}) THEN Ask("generations", "image", {"prompt"}) ELSE Fail

RecraftAnswer(r) == FirstOf(<<"link">>, r, "url")

(* Google has its credential in the client: New fails without one.  Only   *)
(* an empty list is an error: an image without bytes is a data URI that    *)
(* holds nothing (and a missing one would panic, which is left out).       *)
GoogleSubmit(g) ==
  IF Ready(g, {"key", "prompt"}) THEN Ask("generateImages", "image", {"prompt"}) ELSE Fail

GoogleAnswer(r) == IF "list" \in r.has THEN Give("data", "data") ELSE Fail

-----------------------------------------------------------------------------
(* OpenAI.  An image turns the generation into an edit, whose bytes are    *)
(* loaded first; a remote one ("link") only when the configuration allows  *)
(* it (c = "remote").  "image" and "link" are the kind of source           *)
(* loadImageBytes settles on.                                              *)
OpenAILoads(c, g) == "image" \in g \/ c = "remote"

OpenAIEdits(c, g) ==
  IF OpenAILoads(c, g) THEN Ask("images/edits", "image", {"prompt", "image"}) ELSE Fail

OpenAICompiles(g) == Ready(g, {"prompt"})

OpenAISubmit(c, g) ==
  IF ~OpenAICompiles(g) \/ "key" \notin g THEN Fail
  ELSE IF g \cap {"image", "link"} # {} THEN OpenAIEdits(c, g)
  ELSE Ask("images/generations", "image", {"prompt"})

OpenAIAnswer(r) ==
  IF "link" \in r.has THEN Give("link", "url") ELSE FirstOf(<<"data">>, r, "data")
=============================================================================
