\* Two clients that come and go. Caller and io thread may stop for good, see
\* WriteReturns.
CONSTANTS
  Clients = {c1, c2}
  NoClient = NoClient
  Chunks = {1, 2}
  MaxWrites = 3
  MaxBytes = 3
SPECIFICATION LiveSpec
INVARIANTS
  TypeOK
  DeliveredInOrder
  NothingStuck
  ReadInOrder
PROPERTIES
  WriteReturns
CHECK_DEADLOCK FALSE
