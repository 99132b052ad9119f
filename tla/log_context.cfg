SPECIFICATION Spec
CONSTANTS
  WebThreads = {w1, w2}
  Workers = {x1, x2}
  Ids = {i1, i2}
  Tasks = {k1, k2}
  ann = ann
  bob = bob
  firm1 = firm1
  firm2 = firm2
  Users = {ann, bob}
  Firms = {firm1, firm2}
  FirmOf <- FirmOfUsers
  Headers <- SomeHeaders
  None = None
SYMMETRY Symmetric
INVARIANTS TypeOK RequestRecords TaskRecords CleanThreads
