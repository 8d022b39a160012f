---------------------------- MODULE VideoAdapters ----------------------------
(***************************************************************************)
(* The adapters of the services that make videos, and Meshy, which makes   *)
(* 3D models the same way: kling, luma, runway, pika, hailuo, hedra,       *)
(* meshy.  Each has the same five parts: <X>Media (Capabilities),          *)
(* <X>Submit (Execute up to its request), <X>Created (what Execute makes   *)
(* of the answer), <X>Poll (the function given to poll.Poll) and           *)
(* <X>Resume.  Options that only shape the payload (duration, aspect       *)
(* ratio, seed) are left out.                                              *)
(***************************************************************************)
EXTENDS AdapterReplies

-----------------------------------------------------------------------------
(* Kling.  New turns an empty endpoint into text2video; an image in the    *)
(* graph turns a text request into an image one.                           *)
KlingNew(c) == IF c = "" THEN "text2video" ELSE c

KlingMedia(c) == IF KlingNew(c) = "image" THEN {"image"} ELSE {"video"}

KlingVideo(c, g) ==
  IF "image" \in g \/ KlingNew(c) = "image2video"
  THEN Job("videos/image2video", "videos", "video", g \cap {"prompt", "image"})
  ELSE Job("videos/text2video", "videos", "video", {"prompt"})

KlingImage(g) ==
  Job("images/generations", "images", "image", g \cap {"prompt", "image"})

KlingSubmit(c, g) ==
  IF ~Ready(g, {"key", "prompt"}) THEN Fail
  ELSE IF KlingNew(c) = "image" THEN KlingImage(g) ELSE KlingVideo(c, g)

KlingCreated(waits, r) == Ticket(waits, r)

KlingPoll(r) ==
  CASE r.word \in {"completed", "succeed"} -> FirstOf(<<"video", "image">>, r, "url")
    [] r.word = "failed" -> Fail
    [] OTHER -> Wait

(* Resume has only the ID: it polls the videos whatever the job makes.     *)
KlingResume(c, g) == IF "key" \in g THEN PollAt("videos") ELSE Fail

-----------------------------------------------------------------------------
(* Luma.  The model decides what is made; both are polled at one place.    *)
LumaNew(c) == IF c = "" THEN "ray" ELSE c

\* Mutant: the media of every model are those of the first.
LumaMediaOfRay(c) == {"video"}

LumaMedia(c) == IF LumaNew(c) = "photon" THEN {"image"} ELSE {"video"}

LumaVideo(g) ==
  Job("generations", "generations", "video", g \cap {"prompt", "image"})

\* Mutant: Execute polls an image where it has submitted it.
LumaImageApart(g) ==
  Job("generations/image", "generations/image", "image", g \cap {"prompt", "image"})

LumaImage(g) ==
  Job("generations/image", "generations", "image", g \cap {"prompt", "image"})

LumaSubmit(c, g) ==
  IF ~Ready(g, {"key", "prompt"}) THEN Fail
  ELSE IF LumaNew(c) = "photon" THEN LumaImage(g) ELSE LumaVideo(g)

\* Mutant: the ID is not looked at.
LumaCreatedUnnamed(waits, r) ==
  IF waits THEN Wait ELSE Give(IF "id" \in r.has THEN "id" ELSE "", "text")

LumaCreated(waits, r) == Ticket(waits, r)

LumaPoll(r) ==
  CASE r.word = "completed" -> FirstOf(<<"video", "image">>, r, "url")
    [] r.word = "failed" -> Fail
    [] OTHER -> Wait

LumaResume(g) == IF "key" \in g THEN PollAt("generations") ELSE Fail

-----------------------------------------------------------------------------
(* Runway.  Success with a list that is not empty returns its first        *)
(* member, whatever it is: an empty string is a result.                    *)
RunwayMedia == {"video"}

RunwaySubmit(g) ==
  IF ~Ready(g, {"key", "prompt"}) THEN Fail
  ELSE IF "image" \in g
       THEN Job("image_to_video", "tasks", "video", {"prompt", "image"})
       ELSE Job("text_to_video", "tasks", "video", {"prompt"})

RunwayCreated(waits, r) == Ticket(waits, r)

RunwayPoll(r) ==
  CASE r.word = "succeeded" -> IF "list" \notin r.has THEN Fail
                               ELSE IF "video" \in r.has THEN Give("video", "url")
                               ELSE Give("", "url")
    [] r.word \in {"failed", "cancelled"} -> Fail
    [] OTHER -> Wait

RunwayResume(g) == IF "key" \in g THEN PollAt("tasks") ELSE Fail

-----------------------------------------------------------------------------
(* Pika. *)
PikaMedia == {"video"}

PikaSubmit(g) ==
  IF Ready(g, {"key", "prompt"})
  THEN Job("generate", "generate", "video", g \cap {"prompt", "image"}) ELSE Fail

PikaCreated(waits, r) == Ticket(waits, r)

\* Mutant: one of the words for a failure is not known.
PikaPollOneWord(r) ==
  CASE r.word \in {"completed", "finished"} -> FirstOf(<<"video">>, r, "url")
    [] r.word = "failed" -> Fail
    [] OTHER -> Wait

PikaPoll(r) ==
  CASE r.word \in {"completed", "finished"} -> FirstOf(<<"video">>, r, "url")
    [] r.word \in {"failed", "error"} -> Fail
    [] OTHER -> Wait

PikaResume(g) == IF "key" \in g THEN PollAt("generate") ELSE Fail

-----------------------------------------------------------------------------
(* Hailuo.  An error code in the answer ("code") ends the creation; the    *)
(* poll looks at the word alone, and its result is the address the file is *)
(* retrieved from.                                                         *)
HailuoMedia == {"video"}

HailuoSubmit(g) ==
  IF Ready(g, {"key", "prompt"})
  THEN Job("video_generation", "query", "video", g \cap {"prompt", "image"}) ELSE Fail

HailuoCreated(waits, r) == IF "code" \in r.has THEN Fail ELSE Ticket(waits, r)

\* Mutant: the ID of the file is not looked at.
HailuoPollBlank(r) ==
  CASE r.word = "Success" -> Give(IF "file" \in r.has THEN "file" ELSE "", "url")
    [] r.word = "Failed" -> Fail
    [] OTHER -> Wait

HailuoPoll(r) ==
  CASE r.word = "Success" -> FirstOf(<<"file">>, r, "url")
    [] r.word = "Failed" -> Fail
    [] OTHER -> Wait

HailuoResume(g) == IF "key" \in g THEN PollAt("query") ELSE Fail

-----------------------------------------------------------------------------
(* Hedra.  Nothing in the graph is required.                               *)
HedraMedia == {"video"}

HedraSubmit(g) ==
  IF Ready(g, {"key"})
  THEN Job("characters", "projects", "video", g \cap {"prompt", "audio", "image"})
  ELSE Fail

HedraCreated(waits, r) == Ticket(waits, r)

HedraPoll(r) ==
  CASE r.word \in {"completed", "complete"} -> FirstOf(<<"video">>, r, "url")
    [] r.word \in {"failed", "error"} -> Fail
    [] OTHER -> Wait

HedraResume(g) == IF "key" \in g THEN PollAt("projects") ELSE Fail

-----------------------------------------------------------------------------
(* Meshy.  An image in the graph overrides the endpoint and replaces the   *)
(* prompt; the job is polled under the endpoint it was submitted to, but   *)
(* Resume polls under the one in the configuration.                        *)
MeshyNew(c) == IF c = "" THEN "text-to-3d" ELSE c

MeshyMedia == {"3d"}

MeshySubmit(c, g) ==
  IF ~Ready(g, {"key", "prompt"}) THEN Fail
  ELSE IF "image" \in g \/ MeshyNew(c) = "image-to-3d"
       THEN Job("image-to-3d", "image-to-3d", "3d", g \cap {"image"})
       ELSE Job("text-to-3d", "text-to-3d", "3d", {"prompt"})

MeshyCreated(waits, r) == Ticket(waits, r)

MeshyPoll(r) ==
  CASE r.word = "succeeded" -> FirstOf(<<"glb", "fbx", "obj", "usdz">>, r, "url")
    [] r.word = "failed" -> Fail
    [] OTHER -> Wait

MeshyResume(c, g) == IF "key" \in g THEN PollAt(MeshyNew(c)) ELSE Fail
=============================================================================
