----------------------------- MODULE HubAdapters -----------------------------
(***************************************************************************)
(* The adapters of the platforms that serve many kinds of model: ark,      *)
(* alibabacloud, newapi.  c is the kind of model the engine is configured  *)
(* with, for newapi a route and a kind, which need not fit each other.     *)
(* The parts are named as in VideoAdapters; <X>Answer is what is made of   *)
(* an answer that is the result.                                           *)
(***************************************************************************)
EXTENDS AdapterReplies

-----------------------------------------------------------------------------
(* Ark.  Images come in the answer, videos are jobs.  A video needs some   *)
(* content, a text or any medium or draft.                                 *)
ArkMedia(c) == IF c = "image" THEN {"image"} ELSE {"video"}

ArkContent(g) == g \cap {"prompt", "image", "video", "audio", "draft"}

ArkImage(g) ==
  IF "prompt" \in g THEN Ask("images", "image", g \cap {"prompt", "image"}) ELSE Fail

ArkSubmit(c, g) ==
  IF c = "" \/ ~Ready(g, {"key"}) THEN Fail
  ELSE IF c = "image" THEN ArkImage(g)
  ELSE IF ArkContent(g) = {} THEN Fail ELSE Job("tasks", "tasks", "video", ArkContent(g))

ArkAnswer(g, r) ==
  IF "error" \in r.has \/ "list" \notin r.has THEN Fail
  ELSE IF "b64" \in g /\ "data" \in r.has THEN Give("data", ClassifyOutput("data"))
  ELSE IF "link" \in r.has THEN Give("link", ClassifyOutput("link"))
  ELSE FirstOf(<<"data">>, r, ClassifyOutput("data"))

ArkCreated(waits, r) == Ticket(waits, r)

ArkPoll(r) ==
  CASE r.word = "succeeded" -> FirstOf(<<"video">>, r, "url")
    [] r.word \in {"failed", "expired", "cancelled"} -> Fail
    [] OTHER -> Wait

ArkResume(g) == IF "key" \in g THEN PollAt("tasks") ELSE Fail

-----------------------------------------------------------------------------
(* Alibabacloud.  modelTable: what a result of the model is called.        *)
AliKind(c) ==
  CASE c = "design" -> "json" [] c \in {"asr", "filetrans"} -> "text" [] OTHER -> "url"

AliMedia(c) ==
  CASE c \in {"image", "multimodal"} -> {"image"}
    [] c = "3d" -> {"3d"}
    [] c \in {"tts", "design", "asr", "filetrans", "music"} -> {"audio"}
    [] OTHER -> {"video"}

(* EnsureRemoteURL: a remote address is kept, a local picture is written   *)
(* into the request, any other local file ("file") is uploaded first, and  *)
(* an address of another kind ("odd") is refused.  An upload ("upload": it *)
(* succeeds) that fails ends the call.                                     *)
AliReaches(g) == "odd" \notin g /\ ("file" \in g => "upload" \in g)

AliVideoJob(sends) == Job("video-synthesis", "tasks", "video", sends)

AliTextToVideo(g) == IF "prompt" \in g THEN AliVideoJob({"prompt"}) ELSE Fail

(* First and last frames, clips and a driving audio, or references.        *)
AliReferenceMedia(c, g) ==
  g \cap ({"image", "video", "file"} \cup IF c = "i2v" THEN {"audio"} ELSE {})

AliReferenceVideo(c, g) ==
  IF "prompt" \in g /\ AliReaches(g) /\ AliReferenceMedia(c, g) # {}
  THEN AliVideoJob({"prompt"} \cup AliReferenceMedia(c, g)) ELSE Fail

(* Exactly one video, and not more pictures than the model takes ("many"). *)
AliEditMedia(g) == {"video", "many"} \cap g = {"video"}

AliVideoEdit(g) ==
  IF "prompt" \in g /\ AliEditMedia(g) /\ AliReaches(g)
  THEN AliVideoJob(g \cap {"prompt", "video", "image"}) ELSE Fail

(* The addresses go into the request as they are.                          *)
AliKlingVideo(g) ==
  IF "prompt" \in g THEN AliVideoJob(g \cap {"prompt", "image", "video"}) ELSE Fail

AliHorseImage(g) ==
  IF "image" \in g /\ AliReaches(g) THEN AliVideoJob(g \cap {"prompt", "image"}) ELSE Fail

AliHorseReference(g) ==
  IF {"prompt", "image"} \subseteq g /\ "many" \notin g /\ AliReaches(g)
  THEN AliVideoJob({"prompt", "image"}) ELSE Fail

AliImage(g) ==
  IF "prompt" \in g THEN Job("image-synthesis", "tasks", "image", {"prompt"}) ELSE Fail

AliMultimodal(g) ==
  IF "prompt" \in g THEN Ask("generation", "image", g \cap {"prompt", "image"}) ELSE Fail

AliTTS(g) ==
  IF {"prompt", "voice"} \subseteq g
  THEN Ask("generation", "audio", {"prompt", "voice"}) ELSE Fail

(* "design": the voice prompt, the preview text and the target model.      *)
AliVoiceDesign(g) ==
  IF "design" \in g THEN Ask("customization", "audio", {"design"}) ELSE Fail

AliASR(g) ==
  IF g \cap {"audio", "link"} # {} THEN Ask("chat/completions", "text", {"audio"})
  ELSE Fail

(* The file is fetched by the service: bytes ("data") are refused.         *)
AliFiletrans(g) ==
  IF g \cap {"audio", "link"} # {} /\ "data" \notin g
  THEN Job("transcription", "tasks", "text", {"audio"}) ELSE Fail

AliMusic(g) ==
  IF g \cap {"prompt", "lyrics"} # {}
  THEN Ask("music", "audio", g \cap {"prompt", "lyrics"}) ELSE Fail

(* Pictures take precedence over the prompt, and both have a limit.        *)
AliTripo(g) ==
  CASE "many" \in g -> Fail
    [] "many" \notin g /\ "image" \in g -> Job("3d-generation", "tasks", "3d", {"image"})
    [] OTHER -> IF "prompt" \in g /\ "long" \notin g
                THEN Job("3d-generation", "tasks", "3d", {"prompt"}) ELSE Fail

AliSubmit(c, g) ==
  IF ~Ready(g, {"key"}) THEN Fail
  ELSE CASE c = "image" -> AliImage(g)
         [] c = "multimodal" -> AliMultimodal(g)
         [] c \in {"t2v", "horse-t2v"} -> AliTextToVideo(g)
         [] c \in {"i2v", "r2v"} -> AliReferenceVideo(c, g)
         [] c \in {"edit", "horse-edit"} -> AliVideoEdit(g)
         [] c = "kling" -> AliKlingVideo(g)
         [] c = "horse-i2v" -> AliHorseImage(g)
         [] c = "horse-r2v" -> AliHorseReference(g)
         [] c = "tts" -> AliTTS(g)
         [] c = "design" -> AliVoiceDesign(g)
         [] c = "asr" -> AliASR(g)
         [] c = "filetrans" -> AliFiletrans(g)
         [] c = "music" -> AliMusic(g)
         [] c = "3d" -> AliTripo(g)
         [] OTHER -> Fail

(* The ID is returned under the kind of the model, not as a text.          *)
AliCreated(c, waits, r) ==
  IF "id" \notin r.has THEN Fail ELSE IF waits THEN Wait ELSE Give("id", AliKind(c))

(* The fields each handler gives to async.Submit ...                       *)
AliHandlerFields(c) ==
  CASE c = "image" -> <<"results.url", "result_url">>
    [] c = "filetrans" -> <<"result.transcription_url">>
    [] c = "3d" -> <<"results.pbr_model_url">>
    [] OTHER -> <<"video_url">>

(* ... and the ones extractorForModel gives to Resume.                     *)
AliResumeFields(c) ==
  CASE c \in {"image", "multimodal"} -> <<"results.url", "result_url">>
    [] c \in {"asr", "filetrans"} -> <<"results.transcription_url", "results.text">>
    [] c = "3d" -> <<"results.pbr_model_url">>
    [] c \in {"tts", "design", "music"} -> <<>>
    [] OTHER -> <<"video_url">>

AliFetch(fields, r, kind) ==
  CASE r.word = "SUCCEEDED" -> FirstOf(fields, r, kind)
    [] r.word \in {"FAILED", "CANCELED", "UNKNOWN"} -> Fail
    [] OTHER -> Wait

(* A transcription is fetched from the address the job ends with.          *)
AliPoll(c, r) ==
  LET v == AliFetch(AliHandlerFields(c), r, AliKind(c))
  IN IF c = "filetrans" /\ v.do = "give" THEN Fetch ELSE v

AliTranscript(r) == FirstOf(<<"text">>, r, "text")

AliResume(g) == IF "key" \in g THEN PollAt("tasks") ELSE Fail

AliResumePoll(c, r) == AliFetch(AliResumeFields(c), r, "url")

AliImageAnswer(r) == FirstOf(<<"link">>, r, "url")

AliAudioAnswer(r) ==
  IF "code" \in r.has THEN Fail
  ELSE IF "link" \in r.has THEN Give("link", "url") ELSE FirstOf(<<"data">>, r, "data")

(* The voice, the target model and the preview, written out: each may be   *)
(* missing.                                                                *)
AliDesignAnswer(r) == IF "code" \in r.has THEN Fail ELSE Give("object", "json")

AliASRAnswer(r) == IF "error" \in r.has THEN Fail ELSE FirstOf(<<"text">>, r, "text")

-----------------------------------------------------------------------------
(* New API.  c has a route and a kind, of which either may be missing and  *)
(* which need not fit: the route says what is asked for and the kind what  *)
(* is declared.  New sets the kind only when both are missing, and a       *)
(* missing route is that of the kind.                                      *)
NewAPIKind(c) == IF c.route = "" /\ c.kind = "" THEN "image" ELSE c.kind

NewAPIRouteOfKind(k) ==
  CASE k = "video" -> "video" [] k = "speech" -> "speech" [] k = "vision" -> "chat"
    [] OTHER -> "images"

NewAPIRoute(c) == IF c.route # "" THEN c.route ELSE NewAPIRouteOfKind(NewAPIKind(c))

NewAPIMedia(c) ==
  CASE NewAPIKind(c) = "video" -> {"video"}
    [] NewAPIKind(c) = "speech" -> {"audio"}
    [] NewAPIKind(c) = "vision" -> {"text", "image", "video"}
    [] OTHER -> {"image"}

(* buildStandardVideoPayload. *)
NewAPIVideo(path, g) ==
  IF "prompt" \in g THEN Job(path, path, "video", g \cap {"prompt", "image"}) ELSE Fail

NewAPIKling(k, g) == NewAPIVideo(k, g)

NewAPISora(g) ==
  IF "prompt" \in g THEN Job("sora", "sora", "video", g \cap {"prompt", "image"}) ELSE Fail

(* "reqkey": the option the service wants with every request of a job.     *)
NewAPIJimeng(g) ==
  IF {"prompt", "reqkey"} \subseteq g
  THEN Job("jimeng", "jimeng", "video", {"prompt"}) ELSE Fail

NewAPIImages(g) == IF "prompt" \in g THEN Ask("images", "image", {"prompt"}) ELSE Fail

NewAPIQwen(g) == IF "prompt" \in g THEN Ask("images", "image", {"prompt"}) ELSE Fail

(* "link": the only source is remote; "closed": fetching it is disabled.   *)
NewAPIEditImage(g) == "image" \in g \/ ("link" \in g /\ "closed" \notin g)

NewAPIEdits(g) ==
  IF "prompt" \in g /\ NewAPIEditImage(g)
  THEN Ask("images/edits", "image", {"prompt", "image"}) ELSE Fail

NewAPISpeech(g) ==
  IF {"prompt", "voice"} \subseteq g
  THEN Ask("audio/speech", "audio", {"prompt", "voice"}) ELSE Fail

NewAPIHears(g) == "audio" \in g \/ ("link" \in g /\ "closed" \notin g)

NewAPIWhisper(k, g) ==
  IF NewAPIHears(g) THEN Ask(k, "text", {"audio"}) ELSE Fail

(* "body": the option that holds the whole request.                        *)
NewAPIGemini(g) ==
  IF g \cap {"prompt", "body"} # {}
  THEN Ask("generateContent", "any", g \cap {"prompt", "body"}) ELSE Fail

NewAPIChat(g) ==
  IF "prompt" \in g THEN Ask("chat/completions", "text", g \cap {"prompt", "image", "video"})
  ELSE Fail

(* dispatch.  "base": there is an address and a model. *)
NewAPIDispatch(k, g) ==
  CASE k = "images" -> NewAPIImages(g)
    [] k = "edits" -> NewAPIEdits(g)
    [] k = "video" -> NewAPIVideo("video", g)
    [] k = "speech" -> NewAPISpeech(g)
    [] k \in {"transcriptions", "translations"} -> NewAPIWhisper(k, g)
    [] k \in {"kling-text", "kling-image"} -> NewAPIKling(k, g)
    [] k = "jimeng" -> NewAPIJimeng(g)
    [] k = "sora" -> NewAPISora(g)
    [] k = "qwen" -> NewAPIQwen(g)
    [] k = "gemini" -> NewAPIGemini(g)
    [] k = "chat" -> NewAPIChat(g)
    [] OTHER -> Fail

NewAPISubmit(c, g) ==
  IF Ready(g, {"key", "base"}) THEN NewAPIDispatch(NewAPIRoute(c), g) ELSE Fail

NewAPICreated(c, waits, r) ==
  IF NewAPIRoute(c) = "jimeng" /\ "code" \in r.has THEN Fail ELSE Ticket(waits, r)

NewAPIVideoPoll(r) ==
  CASE r.word = "completed" -> FirstOf(<<"url">>, r, ClassifyOutput("link"))
    [] r.word = "failed" -> Fail
    [] OTHER -> Wait

NewAPISoraPoll(r) ==
  CASE r.word \in {"completed", "succeeded", "success"} -> Fetch
    [] r.word \in {"failed", "error", "canceled", "cancelled"} -> Fail
    [] OTHER -> Wait

(* The content of a finished video, whatever its length.                   *)
NewAPISoraContent(r) == Give("data", ClassifyOutput("data"))

(* There is no status: an error code whose message speaks of waiting       *)
(* ("waiting") goes on, any other ends; without a code the first address   *)
(* found is the result, and without an address the poll goes on.           *)
NewAPIJimengPoll(r) ==
  IF "code" \in r.has THEN (IF r.word = "waiting" THEN Wait ELSE Fail)
  ELSE IF "url" \in r.has THEN Give("url", ClassifyOutput("link")) ELSE Wait

NewAPIPoll(c, r) ==
  CASE NewAPIRoute(c) = "sora" -> NewAPISoraPoll(r)
    [] NewAPIRoute(c) = "jimeng" -> NewAPIJimengPoll(r)
    [] OTHER -> NewAPIVideoPoll(r)

NewAPIResume(c, g) ==
  IF /\ {"base", "key"} \subseteq g
     /\ NewAPIRoute(c) \in {"video", "kling-text", "kling-image", "sora"}
  THEN PollAt(NewAPIRoute(c)) ELSE Fail

NewAPIImageAnswer(r) ==
  CASE "list" \notin r.has -> Fail
    [] "list" \in r.has /\ "link" \in r.has -> Give("link", ClassifyOutput("link"))
    [] OTHER -> FirstOf(<<"data">>, r, ClassifyOutput("data"))

NewAPISpeechAnswer(r) == Give("data", ClassifyOutput("data"))

(* "plain" in the graph: the option asks for a text, which may be empty;   *)
(* the answer is a JSON object otherwise, and the result is all of it.     *)
NewAPIWhisperAnswer(g, r) ==
  IF "plain" \notin g THEN Give("object", ClassifyOutput("object"))
  ELSE IF "text" \in r.has THEN Give("text", ClassifyOutput("text"))
  ELSE Give("", ClassifyOutput(""))

NewAPIGeminiAnswer(r) ==
  CASE "link" \in r.has -> Give("link", ClassifyOutput("link"))
    [] "link" \notin r.has /\ "data" \in r.has -> Give("data", ClassifyOutput("data"))
    [] OTHER -> FirstOf(<<"text">>, r, ClassifyOutput("text"))

NewAPIChatAnswer(r) == FirstOf(<<"text">>, r, ClassifyOutput("text"))

NewAPIAnswer(c, g, r) ==
  CASE NewAPIRoute(c) = "speech" -> NewAPISpeechAnswer(r)
    [] NewAPIRoute(c) \in {"transcriptions", "translations"} -> NewAPIWhisperAnswer(g, r)
    [] NewAPIRoute(c) = "gemini" -> NewAPIGeminiAnswer(r)
    [] NewAPIRoute(c) = "chat" -> NewAPIChatAnswer(r)
    [] OTHER -> NewAPIImageAnswer(r)
=============================================================================
