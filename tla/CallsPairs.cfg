\* Any two calls of different kinds; the graph of the sixth is not valid.
CONSTANTS
  auto = auto
  list = list
  select = select
  pipeline = pipeline
  async = async
  unsound = unsound
  Engine = {1, 2}
  Priority <- Prefer2
  Kind <- KindOf
  Given <- GivenOf
  MaxCalls = 2
  Compatible = {1}
  Call = {auto, list, select, pipeline, async, unsound}
  Invalid = {unsound}
SPECIFICATION FairSpec
INVARIANTS DisabledAreRegistered StartedWasEnabled OneLateStart FailsWhenAllFailed SkippedTellsAll PipelineRunsAll
PROPERTIES CallsEnd
CHECK_DEADLOCK FALSE
