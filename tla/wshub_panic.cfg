SPECIFICATION Spec
CONSTANTS
  c1 = c1  c2 = c2  i1 = i1  i2 = i2
  Clients = {c1}
  Identities = {i1}
  IdentityOf <- One
  Apps = {a1}
  Hub = Hub
  NoJob = NoJob
  SendBuf = 6
  BroadcastBuf = 1
  MaxMessages = 2
INVARIANT NoPanic
CHECK_DEADLOCK FALSE
