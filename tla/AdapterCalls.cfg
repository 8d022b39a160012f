\* Every adapter, every configuration, every kind of answer.
CONSTANTS
  Adapters = {"kling", "luma", "runway", "pika", "hailuo", "hedra", "meshy", "flux",
    "jimeng", "liblib", "midjourney", "stability", "ideogram", "recraft", "google",
    "openai", "fal", "replicate", "runninghub", "comfydeploy", "comfyui", "suno",
    "elevenlabs", "minimax", "volcvoice", "ffmpeg", "gemini", "gpt4o", "qwenvl",
    "openrouter", "ark", "alibabacloud", "newapi"}
  Setup <- MCSetup
  Submit <- MCSubmit
  Answered <- MCAnswered
  Created <- MCCreated
  Polled <- MCPolled
  Repolled <- MCRepolled
  Fetched <- MCFetched
  Resumes <- MCResumes
  Replies <- MCReplies
  Ends <- MCEnds
  Busy <- MCBusy
  Contents <- MCContents
  Good <- MCGood
  Media <- MCMedia
  Divergent <- MCDivergent
  Wordy <- MCWordy
  Loose <- MCLoose
  Hasty <- MCHasty
  Misdeclared <- MCMisdeclared
  NoResume = NoResume
  NoRecord = NoRecord
  NoReply = NoReply
SPECIFICATION FairSpec
INVARIANTS ResumeMatchesWait PendingNamesItsJob CompletedHoldsValue NoJobLeftRunning AsksForItsMedia
PROPERTIES CallsEnd
CHECK_DEADLOCK FALSE
