---------------------------- MODULE ChatAdapters ----------------------------
(***************************************************************************)
(* The adapters of the models that answer in a conversation: gemini,       *)
(* gpt4o, qwenvl, openrouter.  Every one answers at once and none can      *)
(* resume.  The parts are named as in VideoAdapters; <X>Answer is what is  *)
(* made of the answer.                                                     *)
(***************************************************************************)
EXTENDS AdapterReplies

-----------------------------------------------------------------------------
(* Gemini has its credential in the client: New fails without one.  Bytes  *)
(* that do not decode ("broken") are left out.  A text that is not there   *)
(* is the empty text, and a result.                                        *)
GeminiMedia == {"text", "image", "video"}

GeminiSubmit(g) ==
  IF Ready(g, {"key", "prompt"})
  THEN Ask("generateContent", "text", g \cap {"prompt", "image", "video"}) ELSE Fail

GeminiAnswer(r) == Give(IF "text" \in r.has THEN "text" ELSE "", "text")

-----------------------------------------------------------------------------
(* GPT-4o.  A choice with an empty content is a result.                    *)
GPT4oMedia == {"text", "image"}

GPT4oContent(g) == {"prompt"} \cup (g \cap {"image"})

GPT4oSubmit(g) ==
  IF Ready(g, {"key", "prompt"}) THEN Ask("chat/completions", "text", GPT4oContent(g))
  ELSE Fail

GPT4oAnswer(r) ==
  IF "list" \notin r.has THEN Fail
  ELSE Give(IF "text" \in r.has THEN "text" ELSE "", "text")

-----------------------------------------------------------------------------
(* QwenVL.  The answer is a stream of chunks ("stream") or one JSON        *)
(* object; an empty text is an error in both.  In a stream a chunk that    *)
(* cannot be decoded ("junk") is skipped, and one that simply ends is      *)
(* taken for whole.                                                        *)
QwenVLMedia(c) == {"text", "image", "video"} \cup (IF c = "omni" THEN {"audio"} ELSE {})

QwenVLContent(g) == {"prompt"} \cup (g \cap {"image", "video", "audio"})

QwenVLSubmit(g) ==
  IF Ready(g, {"key", "prompt"})
  THEN Ask("chat/completions", "text", QwenVLContent(g)) ELSE Fail

QwenVLJSON(r) == IF "list" \in r.has THEN FirstOf(<<"text">>, r, "text") ELSE Fail

QwenVLStream(r) == FirstOf(<<"text">>, r, "text")

QwenVLAnswer(r) == IF "stream" \in r.has THEN QwenVLStream(r) ELSE QwenVLJSON(r)

-----------------------------------------------------------------------------
(* OpenRouter.  c is the kind of the model.  An audio model that is given  *)
(* an address reads it ("audio": the option; "link": a prompt that looks   *)
(* like an address), and speaks otherwise.                                 *)
OpenRouterMedia(c) ==
  CASE c = "image" -> {"image"} [] c = "tts" -> {"audio"} [] OTHER -> {}

OpenRouterEntry(c, g) == IF c = "tts" /\ "audio" \in g THEN "asr" ELSE c

OpenRouterTTS(g) ==
  IF {"prompt", "voice"} \subseteq g
  THEN Ask("chat/completions", "audio", {"prompt", "voice"}) ELSE Fail

OpenRouterASR(g) ==
  IF g \cap {"audio", "link"} # {} THEN Ask("chat/completions", "text", {"audio"})
  ELSE Fail

OpenRouterImage(g) ==
  IF "prompt" \in g
  THEN Ask("chat/completions", "image", g \cap {"prompt", "image"}) ELSE Fail

OpenRouterSubmit(c, g) ==
  CASE ~Ready(g, {"key"}) -> Fail
    [] Ready(g, {"key"}) /\ OpenRouterEntry(c, g) = "image" -> OpenRouterImage(g)
    [] Ready(g, {"key"}) /\ OpenRouterEntry(c, g) = "tts" -> OpenRouterTTS(g)
    [] Ready(g, {"key"}) /\ OpenRouterEntry(c, g) = "asr" -> OpenRouterASR(g)
    [] OTHER -> Fail

OpenRouterImageAnswer(r) ==
  IF "error" \in r.has \/ "list" \notin r.has THEN Fail
  ELSE IF "link" \in r.has THEN Give("link", ClassifyOutput("link"))
  ELSE FirstOf(<<"data">>, r, ClassifyOutput("data"))

OpenRouterTTSAnswer(r) ==
  IF "error" \in r.has \/ "list" \notin r.has THEN Fail
  ELSE FirstOf(<<"data">>, r, ClassifyOutput("data"))

OpenRouterASRAnswer(r) ==
  IF "error" \in r.has \/ "list" \notin r.has THEN Fail
  ELSE FirstOf(<<"text">>, r, ClassifyOutput("text"))
=============================================================================
