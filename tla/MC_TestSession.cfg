SPECIFICATION Spec
CONSTANTS
  Suites <- MCSuites
  MaxCmds = 3
  MaxFaults = 1
INVARIANTS TypeOK  TopologyInPlace PrevModuleTold FlushHarmless 
PROPERTIES OnlyAfterFailure
