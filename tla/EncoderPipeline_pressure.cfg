SPECIFICATION PipelineFairSpec
CONSTANTS
  VideoCap = 2
  AudioCap = 1
  NetCap = 2
  PreviewCap = 1
  MaxFrames <- ThreeAndOne
CHECK_DEADLOCK FALSE
INVARIANT FramesAreAccounted
PROPERTY Ends
