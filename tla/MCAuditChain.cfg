\* Three transactions of at most two appends each.
CONSTANTS
  w1 = w1
  w2 = w2
  u1 = u1
  erased = erased
  NoActor = NoActor
  NoWriter = NoWriter
  Writers <- MCWriters
  Users <- MCUsers
  Actions <- MCActions
  MaxBatch = 2
  MaxTxns = 3
SPECIFICATION FairSpec
INVARIANTS
  TypeOK
  ChainVerifies
  TamperEvident
  SiemAgrees
PROPERTIES
  RefinesAuditLog
  AppendersServed
CHECK_DEADLOCK FALSE
