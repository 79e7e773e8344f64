SPECIFICATION FairSpec
CONSTANT Programs <- MCPrograms
INVARIANT TypeOK
INVARIANT HaltAtSink
INVARIANT ForwardInv
INVARIANT DistinctGuards
INVARIANT Verdict
PROPERTY Implements
PROPERTY Terminates
CHECK_DEADLOCK FALSE
