CONSTANTS
  Clients = {pytest, cli}
  Types = {PORT}
  BulkSizes = {1, 2}
  MaxVid = 2
SPECIFICATION VidSpec
INVARIANTS VidTypeOK UniqueUnlessRaced
 
SYMMETRY Symmetry
