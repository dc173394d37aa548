SPECIFICATION FairSpec
CONSTANTS
  p1 = p1
  p2 = p2
  User = {p1, p2}
  NumChan = 2
  Frac = 2
  Coarse = 2
  Picos = 2
  Era = 4
  Modes = {"fifo", "dma"}
  ZeroOffset = 1
  WrOffset = 0
  OffsetRange = 3
  HostTime = 2
  MaxTs <- MCMaxTs
  MaxFails = 1
  PerKb = 1
  Skip = 2
  Jobs <- MCJobs
  Options <- MCOptions
INVARIANTS TypeOK OffsetsWhole WrModeMatches EnableMatches Accounted MissesAreLosses FlushForgets LeavesInputsOff LeakIsOneChannel
PROPERTIES LoadWhileOff ProgramsEnd
CHECK_DEADLOCK FALSE
