SPECIFICATION FairSpec
CONSTANT MaxCmds = 3
INVARIANTS HandleAlive StateAgrees MetadataSent
PROPERTIES StopReturns RequestsAnswered
