-------------------------- MODULE AdapterCatalogue --------------------------
(***************************************************************************)
(* The adapters by name: for each part of AdapterCalls, which definition   *)
(* of the adapter modules is that part of the adapter s.a.  A setup s is   *)
(* the name a, the configuration c, the inputs g and whether Execute waits *)
(* for the end of the job.                                                 *)
(***************************************************************************)
EXTENDS VideoAdapters, ImageAdapters, WorkflowAdapters, AudioAdapters, ChatAdapters,
        HubAdapters

NotAResumer == [do |-> "unsupported"]

SubmitOf(s) ==
  LET c == s.c
      g == s.g
  IN CASE s.a = "kling" -> KlingSubmit(c, g)     [] s.a = "luma" -> LumaSubmit(c, g)
       [] s.a = "runway" -> RunwaySubmit(g)      [] s.a = "pika" -> PikaSubmit(g)
       [] s.a = "hailuo" -> HailuoSubmit(g)      [] s.a = "hedra" -> HedraSubmit(g)
       [] s.a = "meshy" -> MeshySubmit(c, g)     [] s.a = "flux" -> FluxSubmit(g)
       [] s.a = "jimeng" -> JimengSubmit(c, g)   [] s.a = "liblib" -> LiblibSubmit(g)
       [] s.a = "midjourney" -> MidjourneySubmit(g)
       [] s.a = "stability" -> StabilitySubmit(c, g)
       [] s.a = "ideogram" -> IdeogramSubmit(g)  [] s.a = "recraft" -> RecraftSubmit(g)
       [] s.a = "google" -> GoogleSubmit(g)      [] s.a = "openai" -> OpenAISubmit(c, g)
       [] s.a = "fal" -> FalSubmit(c, g)         [] s.a = "replicate" -> ReplicateSubmit(c, g)
       [] s.a = "runninghub" -> RunningHubSubmit(c, g)
       [] s.a = "comfydeploy" -> ComfyDeploySubmit(c, g)
       [] s.a = "comfyui" -> ComfyUISubmit(c, g) [] s.a = "suno" -> SunoSubmit(c, g)
       [] s.a = "elevenlabs" -> ElevenLabsSubmit(c, g)
       [] s.a = "minimax" -> MiniMaxSubmit(c, g) [] s.a = "volcvoice" -> VolcSubmit(c, g)
       [] s.a = "ffmpeg" -> FFmpegSubmit(c, g)   [] s.a = "gemini" -> GeminiSubmit(g)
       [] s.a = "gpt4o" -> GPT4oSubmit(g)        [] s.a = "qwenvl" -> QwenVLSubmit(g)
       [] s.a = "openrouter" -> OpenRouterSubmit(c, g)
       [] s.a = "ark" -> ArkSubmit(c, g)         [] s.a = "alibabacloud" -> AliSubmit(c, g)
       [] s.a = "newapi" -> NewAPISubmit(c, g)

AliAnswered(c, r) ==
  CASE c = "multimodal" -> AliImageAnswer(r) [] c = "design" -> AliDesignAnswer(r)
    [] c = "asr" -> AliASRAnswer(r)          [] OTHER -> AliAudioAnswer(r)

OpenRouterAnswered(e, r) ==
  CASE e = "image" -> OpenRouterImageAnswer(r) [] e = "asr" -> OpenRouterASRAnswer(r)
    [] OTHER -> OpenRouterTTSAnswer(r)

AnsweredOf(s, r) ==
  CASE s.a = "jimeng" -> JimengAnswer(s.g, r)   [] s.a = "stability" -> StabilityAnswer(r)
    [] s.a = "ideogram" -> IdeogramAnswer(r)    [] s.a = "recraft" -> RecraftAnswer(r)
    [] s.a = "google" -> GoogleAnswer(r)        [] s.a = "openai" -> OpenAIAnswer(r)
    [] s.a = "elevenlabs" -> ElevenLabsAnswer(r) [] s.a = "minimax" -> MiniMaxAnswer(r)
    [] s.a = "volcvoice" -> IF s.c = "tts" THEN VolcTTSAnswer(r) ELSE VolcASRAnswer(r)
    [] s.a = "ffmpeg" -> FFmpegAnswer(r)        [] s.a = "gemini" -> GeminiAnswer(r)
    [] s.a = "gpt4o" -> GPT4oAnswer(r)          [] s.a = "qwenvl" -> QwenVLAnswer(r)
    [] s.a = "openrouter" -> OpenRouterAnswered(OpenRouterEntry(s.c, s.g), r)
    [] s.a = "ark" -> ArkAnswer(s.g, r)         [] s.a = "alibabacloud" -> AliAnswered(s.c, r)
    [] s.a = "newapi" -> NewAPIAnswer(s.c, s.g, r)

CreatedOf(s, r) ==
  LET w == s.waits
  IN CASE s.a = "kling" -> KlingCreated(w, r)   [] s.a = "luma" -> LumaCreated(w, r)
       [] s.a = "runway" -> RunwayCreated(w, r) [] s.a = "pika" -> PikaCreated(w, r)
       [] s.a = "hailuo" -> HailuoCreated(w, r) [] s.a = "hedra" -> HedraCreated(w, r)
       [] s.a = "meshy" -> MeshyCreated(w, r)   [] s.a = "flux" -> FluxCreated(w, r)
       [] s.a = "jimeng" -> JimengCreated(w, r) [] s.a = "liblib" -> LiblibCreated(w, r)
       [] s.a = "midjourney" -> MidjourneyCreated(w, r)
       [] s.a = "fal" -> FalCreated(w, r)       [] s.a = "replicate" -> ReplicateCreated(w, r)
       [] s.a = "runninghub" -> RunningHubCreated(w, r)
       [] s.a = "comfydeploy" -> ComfyDeployCreated(w, r)
       [] s.a = "comfyui" -> ComfyUICreated(w, r) [] s.a = "suno" -> SunoCreated(w, r)
       [] s.a = "ark" -> ArkCreated(w, r)
       [] s.a = "alibabacloud" -> AliCreated(s.c, w, r)
       [] s.a = "newapi" -> NewAPICreated(s.c, w, r)

PolledOf(s, r) ==
  CASE s.a = "kling" -> KlingPoll(r)   [] s.a = "luma" -> LumaPoll(r)
    [] s.a = "runway" -> RunwayPoll(r) [] s.a = "pika" -> PikaPoll(r)
    [] s.a = "hailuo" -> HailuoPoll(r) [] s.a = "hedra" -> HedraPoll(r)
    [] s.a = "meshy" -> MeshyPoll(r)   [] s.a = "flux" -> FluxPoll(r)
    [] s.a = "jimeng" -> JimengPoll(r) [] s.a = "liblib" -> LiblibPoll(r)
    [] s.a = "midjourney" -> MidjourneyPoll(r)
    [] s.a = "fal" -> FalPoll(r)       [] s.a = "replicate" -> ReplicatePoll(r)
    [] s.a = "runninghub" -> RunningHubPoll(r)
    [] s.a = "comfydeploy" -> ComfyDeployPoll(r)
    [] s.a = "comfyui" -> ComfyUIPoll(r) [] s.a = "suno" -> SunoPoll(r)
    [] s.a = "ark" -> ArkPoll(r)
    [] s.a = "alibabacloud" -> AliPoll(s.c, r)
    [] s.a = "newapi" -> NewAPIPoll(s.c, r)

(* Resume of alibabacloud looks in other places than Execute.              *)
RepolledOf(s, r) == IF s.a = "alibabacloud" THEN AliResumePoll(s.c, r) ELSE PolledOf(s, r)

FetchedOf(s, r) ==
  CASE s.a = "fal" -> FalResult(r) [] s.a = "newapi" -> NewAPISoraContent(r)
    [] s.a = "alibabacloud" -> AliTranscript(r)

ResumesOf(s) ==
  LET c == s.c
      g == s.g
  IN CASE s.a = "kling" -> KlingResume(c, g)  [] s.a = "luma" -> LumaResume(g)
       [] s.a = "runway" -> RunwayResume(g)   [] s.a = "pika" -> PikaResume(g)
       [] s.a = "hailuo" -> HailuoResume(g)   [] s.a = "hedra" -> HedraResume(g)
       [] s.a = "meshy" -> MeshyResume(c, g)  [] s.a = "flux" -> FluxResume(g)
       [] s.a = "jimeng" -> JimengResume(c, g) [] s.a = "liblib" -> LiblibResume(g)
       [] s.a = "midjourney" -> MidjourneyResume(g)
       [] s.a = "fal" -> FalResume(g)         [] s.a = "replicate" -> ReplicateResume(g)
       [] s.a = "runninghub" -> RunningHubResume(g)
       [] s.a = "comfydeploy" -> ComfyDeployResume(g)
       [] s.a = "suno" -> SunoResume(c, g)    [] s.a = "ark" -> ArkResume(g)
       [] s.a = "alibabacloud" -> AliResume(g) [] s.a = "newapi" -> NewAPIResume(c, g)
       [] OTHER -> NotAResumer

MediaOf(s) ==
  CASE s.a = "kling" -> KlingMedia(s.c)    [] s.a = "luma" -> LumaMedia(s.c)
    [] s.a = "runway" -> RunwayMedia       [] s.a = "pika" -> PikaMedia
    [] s.a = "hailuo" -> HailuoMedia       [] s.a = "hedra" -> HedraMedia
    [] s.a = "meshy" -> MeshyMedia         [] s.a = "flux" -> FluxMedia
    [] s.a = "jimeng" -> JimengMedia(s.c)  [] s.a = "liblib" -> LiblibMedia
    [] s.a = "midjourney" -> MidjourneyMedia
    [] s.a \in {"stability", "ideogram", "recraft", "google", "openai"} -> {"image"}
    [] s.a \in {"fal", "replicate", "comfydeploy", "comfyui"} -> WorkflowMedia
    [] s.a = "runninghub" -> RunningHubMedia
    [] s.a = "suno" -> SunoMedia           [] s.a = "elevenlabs" -> ElevenLabsMedia
    [] s.a = "minimax" -> MiniMaxMedia     [] s.a = "volcvoice" -> VolcMedia
    [] s.a = "ffmpeg" -> {"audio"}         [] s.a = "gemini" -> GeminiMedia
    [] s.a = "gpt4o" -> GPT4oMedia         [] s.a = "qwenvl" -> QwenVLMedia(s.c)
    [] s.a = "openrouter" -> OpenRouterMedia(s.c)
    [] s.a = "ark" -> ArkMedia(s.c)        [] s.a = "alibabacloud" -> AliMedia(s.c)
    [] s.a = "newapi" -> NewAPIMedia(s.c)
=============================================================================
