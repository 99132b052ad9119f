SPECIFICATION FairSpec
CONSTANTS
  ann = ann
  sue = sue
  Users = {ann, sue}
  RoleOf <- RoleOfUsers
  Pages = 2
  Calls = {c1, c2}
  None = None
INVARIANTS TypeOK OnlyOutdatedRefreshesMix TableMatchesChoice
PROPERTIES CallsEnd
