CONSTANTS
  BridgePorts = {bp1, bp2}
  Tout = 1
  MaxReboots = 3
  MaxMishaps = 2
SPECIFICATION FairWarmSpec
INVARIANTS WarmTypeOK
PROPERTIES SuccessMeansWarmRestart ShutdownPrepared RebootEnds
