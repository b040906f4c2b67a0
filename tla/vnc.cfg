SPECIFICATION FairSpec
CONSTANTS
  v1 = v1
  v2 = v2
  Viewers = {v1, v2}
  StdoutCap = 1
  SinkCap = 1
  BufCap = 2
  MaxChunks = 3
  None = None
INVARIANTS TypeOK HandshakeComplete GapEndsViewer
PROPERTIES EvictedViewerLeaves
CHECK_DEADLOCK FALSE
