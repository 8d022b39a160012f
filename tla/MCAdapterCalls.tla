--------------------------- MODULE MCAdapterCalls ---------------------------
(***************************************************************************)
(* AdapterCalls for TLC: the adapters of AdapterCatalogue, in every        *)
(* configuration each tells apart, with and without each kind of input it  *)
(* looks at, and with every answer it tells apart.                         *)
(***************************************************************************)
EXTENDS AdapterCalls

CONSTANT Adapters   \* the adapters of a run

C == INSTANCE AdapterCatalogue

(* What an adapter tells apart.  asks: the fields of an answer that is the *)
(* result; good, fields and bad: the words and fields of a last status     *)
(* that says the job succeeded, and the words of one that says it failed.  *)
Row(confs, base, extras, asks, good, fields, bad) ==
  [confs |-> confs, base |-> base \cup {"key"}, extras |-> extras, asks |-> asks,
   good |-> good, fields |-> fields, bad |-> bad]

P == {"prompt"}

(* newapi: every route without a kind and with two that fit some routes    *)
(* and not others; every kind without a route.                             *)
NewAPIVideoRoutes == {"video", "kling-text", "kling-image", "jimeng", "sora"}

NewAPIKinds == {"", "image", "video", "speech", "vision", "other"}

NewAPIConfs ==
  [route : {"images", "edits", "speech", "transcriptions", "translations", "qwen", "gemini",
            "chat", "other"} \cup NewAPIVideoRoutes,
   kind : {"", "video", "speech"}]
    \cup [route : {""}, kind : NewAPIKinds]
Asks(confs, base, extras, has) == Row(confs, base, extras, has, {}, {}, {})
Jobs(confs, base, extras, good, fields, bad) == Row(confs, base, extras, {}, good, fields, bad)

RowOf(a) ==
  CASE a = "kling" -> Jobs({"", "image", "image2video"}, P, {"image"},
                           {"completed", "succeed"}, {"video", "image"}, {"failed"})
    [] a = "luma" -> Jobs({"", "photon"}, P, {"image"}, {"completed"}, {"video", "image"}, {"failed"})
    [] a = "runway" -> Jobs({""}, P, {"image"}, {"succeeded"}, {"list", "video"}, {"failed", "cancelled"})
    [] a = "pika" -> Jobs({""}, P, {"image"}, {"completed", "finished"}, {"video"}, {"failed", "error"})
    [] a = "hailuo" -> Jobs({""}, P, {"image"}, {"Success"}, {"file"}, {"Failed"})
    [] a = "hedra" -> Jobs({""}, {}, {"prompt", "audio", "image"}, {"completed", "complete"},
                           {"video"}, {"failed", "error"})
    [] a = "meshy" -> Jobs({"", "image-to-3d"}, P, {"image"}, {"succeeded"},
                           {"glb", "fbx", "obj", "usdz"}, {"failed"})
    [] a = "flux" -> Jobs({""}, P, {}, {"Ready"}, {"sample"}, {"Error"})
    [] a = "jimeng" -> Row({"", "video"}, P, {"image", "b64"}, {"error", "list", "link", "data"},
                           {"succeeded"}, {"video"}, {"failed", "cancelled"})
    [] a = "liblib" -> Jobs({""}, P, {"image"}, {"5"}, {"image", "video"}, {"6", "7"})
    [] a = "midjourney" -> Jobs({""}, P, {}, {"finished"}, {"image"}, {"failed"})
    [] a = "stability" -> Asks({"core", "ultra", "sd3"}, P, {}, {"link", "data"})
    [] a \in {"ideogram", "recraft"} -> Asks({""}, P, {}, {"link"})
    [] a = "google" -> Asks({""}, P, {}, {"list", "data"})
    [] a = "openai" -> Asks({"", "remote"}, P, {"image", "link"}, {"link", "data"})
    [] a = "fal" -> Jobs({"", "model"}, P, {"image"}, {"completed"}, {}, {"failed"})
    [] a = "replicate" -> Jobs({"", "model"}, P, {"image"}, {"succeeded"},
                               {"link", "text", "empty", "object"}, {"failed", "canceled"})
    [] a = "runninghub" -> Jobs({"", "app"}, {}, {"prompt", "negative"}, {"success"},
                                {"list", "link", "text"}, {"failed", "cancel"})
    [] a = "comfydeploy" -> Jobs({"", "id"}, {}, {"prompt", "image"}, {"success"},
                                 {"image", "file", "gif"}, {"failed", "timeout"})
    [] a = "comfyui" -> Jobs({"", "host"}, {}, {"prompt", "image"}, {"history"}, {"asset"}, {})
    [] a = "suno" -> Jobs({"", "host"}, P, {"lyrics"}, {"complete"}, {"list", "audio"}, {"error"})
    [] a = "elevenlabs" -> Asks({"", "sound"}, {}, {"prompt", "text", "voice"}, {"data"})
    [] a = "minimax" -> Asks({"", "music", "speech"}, P, {"lyrics", "hex"}, {"code", "link", "digits"})
    [] a = "volcvoice" -> Asks({"tts", "asr"}, {"app"}, {"prompt", "voice", "audio"},
                               {"code", "data", "text"})
    [] a = "ffmpeg" -> Asks({"sfx", "mix"}, {}, {"prompt", "audio", "odd"}, {"large"})
    [] a = "gemini" -> Asks({""}, P, {"image", "video"}, {"text"})
    [] a = "gpt4o" -> Asks({""}, P, {"image"}, {"list", "text"})
    [] a = "qwenvl" -> Asks({"", "omni"}, P, {"image", "audio"}, {"stream", "list", "text"})
    [] a = "openrouter" -> Asks({"image", "tts", "other"}, P, {"voice", "audio"},
                                {"error", "list", "link", "data", "text"})
    [] a = "ark" -> Row({"", "image", "video"}, {}, {"prompt", "image", "draft", "b64"},
                        {"error", "list", "link", "data"}, {"succeeded"}, {"video"},
                        {"failed", "expired", "cancelled"})
    [] a = "alibabacloud" ->
         Row({"image", "multimodal", "t2v", "i2v", "r2v", "edit", "kling", "horse-t2v",
              "horse-i2v", "horse-r2v", "horse-edit", "tts", "design", "asr", "filetrans",
              "music", "3d", "other"},
             {"design", "voice"}, {"prompt", "image", "video", "audio", "many"},
             {"code", "link", "data", "object", "text"}, {"SUCCEEDED"}, {"any"},
             {"FAILED", "CANCELED", "UNKNOWN"})
    [] a = "newapi" ->
         Row(NewAPIConfs, {"base", "reqkey", "voice"},
             {"prompt", "image", "link", "closed", "plain"},
             {"list", "link", "data", "text"}, {"completed"}, {"url"}, {"failed"})

-----------------------------------------------------------------------------
(* Inputs: all that is needed with each choice of the rest, and each thing *)
(* that is needed missing.                                                 *)
GivenTo(row) ==
  {row.base \cup x : x \in SUBSET row.extras}
    \cup {(row.base \cup row.extras) \ {i} : i \in row.base} \cup {row.base \cup {"bad"}}

SetupsOf(a) ==
  {s \in [a : {a}, c : RowOf(a).confs, g : GivenTo(RowOf(a)), waits : BOOLEAN] :
     s.waits \/ C!SubmitOf(s).do = "job"}

MCSetup == UNION {SetupsOf(a) : a \in Adapters}

With(word, sets) == {[word |-> word, has |-> h] : h \in sets}

(* The fields of the last status of a job of alibabacloud's kind c.        *)
AliEnd(c) ==
  CASE c = "image" -> {"results.url", "result_url"}
    [] c = "filetrans" -> {"result.transcription_url"}
    [] c = "3d" -> {"results.pbr_model_url"}
    [] OTHER -> {"video_url"}

GoodFields(s) ==
  CASE s.a = "alibabacloud" -> SUBSET AliEnd(s.c)
    [] s.a \in {"replicate", "suno"} -> {{"id"} \cup h : h \in SUBSET RowOf(s.a).fields}
    [] OTHER -> SUBSET RowOf(s.a).fields

(* A job of newapi's jimeng has no status word: it has succeeded when      *)
(* there is an address, and failed when there is a code.                   *)
IsJimeng(s) == s.a = "newapi" /\ s.c.route = "jimeng"

MCGood(s) ==
  IF IsJimeng(s) THEN With("", {{"url"}})
  ELSE UNION {With(w, GoodFields(s)) : w \in RowOf(s.a).good}

MCEnds(s) ==
  MCGood(s) \cup
    IF IsJimeng(s) THEN With("refused", {{"code"}})
    ELSE UNION {With(w, {{}}) : w \in RowOf(s.a).bad}

MCBusy(s) ==
  IF IsJimeng(s) THEN [word |-> "waiting", has |-> {"code"}]
  ELSE IF s.a = "suno" THEN [word |-> "running", has |-> {"list"}]
  ELSE [word |-> "running", has |-> {}]

(* The answer that creates a job.  A prediction may be ready, and a clip   *)
(* complete, at once; a clip may have no ID, and audio while it runs.      *)
Creations(s) ==
  CASE s.a = "suno" -> With("running", {{}} \cup {{"list"} \cup h : h \in SUBSET {"id", "audio"}})
                         \cup With("complete", {{"list", "audio", "id"}})
    [] s.a = "replicate" -> With("running", {{}, {"id"}}) \cup MCGood(s)
    [] OTHER -> With("running", {{}, {"id"}, {"code"}})

MCReplies(s) ==
  IF C!SubmitOf(s).do = "job" THEN Creations(s) ELSE With("", SUBSET RowOf(s.a).asks)

MCContents(s) ==
  CASE s.a = "fal" -> With("", SUBSET {"image", "video"})
    [] s.a = "newapi" -> With("", {{}})
    [] OTHER -> With("", {{}, {"text"}})

MCSubmit(s) == C!SubmitOf(s)
MCAnswered(s, r) == C!AnsweredOf(s, r)
MCCreated(s, r) == C!CreatedOf(s, r)
MCPolled(s, r) == C!PolledOf(s, r)
MCRepolled(s, r) == C!RepolledOf(s, r)
MCFetched(s, r) == C!FetchedOf(s, r)
MCResumes(s) == IF C!ResumesOf(s) = C!NotAResumer THEN NoResume ELSE C!ResumesOf(s)
MCMedia(s) == C!MediaOf(s)

-----------------------------------------------------------------------------
(* Kling polls videos for an image, meshy the endpoint it is configured    *)
(* with; alibabacloud looks for a transcription in another field; newapi   *)
(* does not resume jobs of jimeng.                                         *)
MCDivergent(s) ==
  \/ s.a = "kling" /\ s.c = "image"
  \/ s.a = "meshy" /\ s.c = "" /\ "image" \in s.g
  \/ s.a = "alibabacloud" /\ s.c = "filetrans"
  \/ IsJimeng(s)

(* Chats, transcriptions, predictions that are texts, bytes in hex; a      *)
(* ComfyUI job without a file, a Suno clip without an ID.                  *)
MCWordy(s) ==
  \/ s.a \in {"gemini", "gpt4o", "qwenvl", "replicate", "suno"}
  \/ s.a = "comfyui" /\ s.waits
  \/ s.a = "minimax"
  \/ s.a = "volcvoice" /\ s.c = "asr"
  \/ s.a = "openrouter" /\ s.c = "tts" /\ "audio" \in s.g
  \/ s.a = "alibabacloud" /\ s.c \in {"asr", "filetrans"}
  \/ s.a = "newapi" /\ C!NewAPIRoute(s.c) \in
       {"chat", "gemini", "transcriptions", "translations"}

(* The first item of an empty answer; the ID of a job of alibabacloud,     *)
(* which has the kind of the model.                                        *)
MCLoose(s) ==
  \/ s.a \in {"runway", "replicate", "runninghub"}
  \/ s.a = "newapi" /\ s.c.route \in {"transcriptions", "translations"}
  \/ s.a = "alibabacloud" /\ ~s.waits

(* A clip is taken for done as soon as it has an address.                  *)
MCHasty(s) == s.a = "suno"

(* The route is one for videos, pictures or sounds, the kind another.      *)
MCMisdeclared(s) ==
  s.a = "newapi" /\
    \/ s.c.route \in NewAPIVideoRoutes /\ s.c.kind # "video"
    \/ s.c.route \in {"images", "edits", "qwen"} /\ s.c.kind \in {"video", "speech"}
    \/ s.c.route = "speech" /\ s.c.kind # "speech"
=============================================================================
