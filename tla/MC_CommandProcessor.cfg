CONSTANTS
  Names <- DdNames
  Keyed = {"fdb"}
  Refs <- DdRefs
  Lists <- DdLists
  MaxObjects = 4
  MaxFaults = 2
SPECIFICATION Spec
INVARIANTS TypeOK RegistryLive
PROPERTIES CleanupComplete
