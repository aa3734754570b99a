SPECIFICATION FairSpec
CONSTANTS
  u = u
  v = v
  t = t
  m = m
  n = n
  x = x
  s = s
  Writer = {w, c}
  Client = c
  Item <- Items
  Inode = {i1, i2}
  NoFile = NoFile
  Retries = 2
  User = {u, v, t}
  NoUser = NoUser
  Owner <- OwnerOf
  Inbox <- InboxOf
  SeenFails = TRUE
  MaxChange = 2
  MaxFault = 2
INVARIANTS InSync NoLateWrite
PROPERTIES Replicated QueueSpec
CHECK_DEADLOCK FALSE
