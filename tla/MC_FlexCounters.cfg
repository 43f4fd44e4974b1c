SPECIFICATION Spec
CONSTANTS
  Clients = {pytest, cli}
  Testers = {pytest}
  Groups = {g1, g2}
  Oids = {o1}
  MaxOrphans = 1
INVARIANTS TypeOK ClearComplete
