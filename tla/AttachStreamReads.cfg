\* Portions of every size, timeouts between frames, a daemon that may die in the
\* middle of a frame.
SPECIFICATION FairSpec
CONSTANTS
  MaxFrames = 2
  MaxSize = 2
  FrameSeqs <- MCFrameSeqs
  HeaderLen = 3
  MaxGarbage = 3
  Timeouts = {"idle"}
  Transients = {"payload"}
  AbruptClose = TRUE
INVARIANTS
  OutputFaithful
  InStep
  OutputComplete
PROPERTIES
  ReaderEnds
