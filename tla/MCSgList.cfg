SPECIFICATION Spec
CONSTANTS
  PageSize = 2
  SgNumMax = 4
  ListRoom = 3
  MaxSegment = 2
  Addresses <- SomeAddresses
  MaxLength = 9
  MaxCalls = 2
INVARIANTS TypeOK NothingLeft ListCovers
CHECK_DEADLOCK FALSE
