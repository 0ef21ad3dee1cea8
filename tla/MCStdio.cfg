SPECIFICATION Spec
CONSTANTS
  Paths = {"p", "q"}
  Bytes <- MCBytes
  LineFeed = "n"
  Zero = "z"
  InitialFiles <- MCFiles
  BufferSize = 2
  StreamsMax = 2
  AtexitMax = 1
  MaxOpens = 2
  Programs <- MCPrograms
INVARIANT HeldIsFlushedAtExit
PROPERTY ImplementsStdio
CHECK_DEADLOCK FALSE
