SPECIFICATION Spec
CONSTANTS
  Short = 2
  Base = 2
  DATA_PREAMBLE_MAX_BYTES = 5
  MaxCollect = 12
  FrameStreams <- ManyFrames
  ResponseStreams <- ManyResponses
  RequestStreams <- ManyRequests
INVARIANTS
  FramesIntact
  AnswerRelayed
  LoggedOnce
  RequestIntact
CHECK_DEADLOCK FALSE
