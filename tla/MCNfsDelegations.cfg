SPECIFICATION DelegSpec
CONSTANTS
  c1 = c1
  c2 = c2
  Clients = {c1, c2}
  Local = Local
  Threads = {t1, t2}
  t1 = t1
  t2 = t2
  MaxSid = 2
  MaxPerClient = 1
  MaxGlobal = 2
  Rungs = 2
ACTION_CONSTRAINT MCStep
INVARIANT DelegInv
INVARIANT NoStaleCache
INVARIANT TableExact
INVARIANT RevokedTold
PROPERTY OneDeadline
PROPERTY RecallResolves
