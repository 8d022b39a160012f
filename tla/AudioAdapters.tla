---------------------------- MODULE AudioAdapters ----------------------------
(***************************************************************************)
(* The adapters of the services that make or read audio: suno, which       *)
(* creates jobs; elevenlabs, minimax and volcvoice, which answer at once;  *)
(* and ffmpeg, a local process.  The parts are named as in VideoAdapters;  *)
(* <X>Answer is what is made of an answer that is the result.              *)
(***************************************************************************)
EXTENDS AdapterReplies

-----------------------------------------------------------------------------
(* Suno.  c is the address of the gateway, which has no default.           *)
SunoMedia == {"audio"}

SunoSubmit(c, g) ==
  IF c # "" /\ Ready(g, {"key", "prompt"})
  THEN Job("generate", "feed", "audio", g \cap {"prompt", "lyrics"}) ELSE Fail

(* The first clip ("list": there is one) may have its audio already;       *)
(* its ID is not looked at.                                                *)
SunoCreated(waits, r) ==
  CASE "list" \notin r.has -> Fail
    [] "list" \in r.has /\ "audio" \in r.has -> Give("audio", "url")
    [] OTHER -> IF waits THEN Wait
                ELSE Give(IF "id" \in r.has THEN "id" ELSE "", "text")

SunoPoll(r) ==
  CASE "list" \notin r.has \/ r.word = "error" -> Fail
    [] "list" \in r.has /\ r.word = "complete" -> FirstOf(<<"audio">>, r, "url")
    [] OTHER -> Wait

SunoResume(c, g) == IF c # "" /\ "key" \in g THEN PollAt("feed") ELSE Fail

-----------------------------------------------------------------------------
(* ElevenLabs.  The body is the audio, whatever its length.  "voice": the  *)
(* configuration or the graph names one.                                   *)
ElevenLabsMedia == {"audio"}

ElevenLabsSFX(g) ==
  IF {"key", "prompt"} \subseteq g THEN Ask("sound-generation", "audio", {"prompt"})
  ELSE Fail

(* The option text stands in for a prompt that cannot be extracted.        *)
ElevenLabsTTS(g) ==
  IF "key" \in g /\ g \cap {"prompt", "text"} # {} /\ "voice" \in g
  THEN Ask("text-to-speech", "audio", g \cap {"prompt", "text", "voice"}) ELSE Fail

ElevenLabsSubmit(c, g) ==
  CASE "bad" \in g -> Fail
    [] "bad" \notin g /\ c = "sound" -> ElevenLabsSFX(g)
    [] OTHER -> ElevenLabsTTS(g)

ElevenLabsAnswer(r) == Give("data", "data")

-----------------------------------------------------------------------------
(* MiniMax.  The option output_format ("hex" in the graph) asks for the    *)
(* bytes: they come as a string of digits, which is neither a link nor     *)
(* anything else ClassifyOutput knows.  No model is the default.            *)
MiniMaxMedia == {"audio"}

MiniMaxKnows(c) == c = "music"

MiniMaxSubmit(c, g) ==
  IF MiniMaxKnows(c) /\ Ready(g, {"key", "prompt"})
  THEN Ask("music_generation", "audio", g \cap {"prompt", "lyrics"}) ELSE Fail

MiniMaxMusic(r) ==
  IF "code" \in r.has THEN "" ELSE IF "link" \in r.has THEN "link"
  ELSE IF "digits" \in r.has THEN "digits" ELSE ""

MiniMaxAnswer(r) ==
  LET v == MiniMaxMusic(r) IN IF v = "" THEN Fail ELSE Give(v, ClassifyOutput(v))

-----------------------------------------------------------------------------
(* Volcvoice.  "key" is the token, "app" the application; c is the model.  *)
VolcTTS(g) ==
  IF g \cap {"prompt", "text"} # {} /\ "voice" \in g
  THEN Ask("tts", "audio", g \cap {"prompt", "text", "voice"}) ELSE Fail

(* The audio is named by an option or by a prompt that looks like an       *)
(* address ("link"), and is fetched before the request.                    *)
VolcASR(g) ==
  IF g \cap {"audio", "link"} # {} THEN Ask("asr", "text", {"audio"}) ELSE Fail

VolcMedia == {"audio"}

VolcSubmit(c, g) ==
  CASE ~Ready(g, {"key", "app"}) -> Fail
    [] Ready(g, {"key", "app"}) /\ c = "tts" -> VolcTTS(g)
    [] Ready(g, {"key", "app"}) /\ c = "asr" -> VolcASR(g)
    [] OTHER -> Fail

VolcTTSAnswer(r) == IF "code" \in r.has THEN Fail ELSE FirstOf(<<"data">>, r, "data")

VolcASRAnswer(r) == IF "code" \in r.has THEN Fail ELSE FirstOf(<<"text">>, r, "text")

-----------------------------------------------------------------------------
(* FFmpeg runs a local process; c is the mode of the engine.  The prompt   *)
(* of a sound becomes a filter, and a mix downloads its tracks ("audio":   *)
(* at least two) first, refusing any address that is not a web one.  What  *)
(* comes out must not be too large ("large").                              *)
FFmpegSFX(g) ==
  IF "prompt" \in g THEN Ask("sfx", "audio", {"prompt"}) ELSE Fail

FFmpegDownloads(g) == "odd" \notin g

FFmpegMix(g) ==
  IF "audio" \in g /\ FFmpegDownloads(g) THEN Ask("mix", "audio", {"audio"}) ELSE Fail

FFmpegSubmit(c, g) ==
  CASE "bad" \in g -> Fail
    [] "bad" \notin g /\ c = "sfx" -> FFmpegSFX(g)
    [] "bad" \notin g /\ c = "mix" -> FFmpegMix(g)
    [] OTHER -> Fail

FFmpegAnswer(r) == IF "large" \in r.has THEN Fail ELSE Give("data", "data")
=============================================================================
