SPECIFICATION PipelineFairSpec
CONSTANTS
  Jobs = {j1, j2}
  Seeds = 1
  MaxInputs = 2
  MaxQueue = 1
  PipeCap = 1
INVARIANTS WriteEndOwn StraysWereLeft EndsClosed
CHECK_DEADLOCK FALSE
PROPERTIES EventuallyTracked EventuallyStopped
