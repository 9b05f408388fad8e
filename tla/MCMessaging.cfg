SPECIFICATION FairSpec
CONSTANTS
  Events = {e1}
  NoEvent = NoEvent
  Dispatchers = {d1}
  Workers = {w1, w2}
  Tokens = {t1, t2, t3}
  NoToken = NoToken
  MaxDeliveryAttempts = 2
  BatchSize = 1
  LockLease = 1
  InboxLease = 1
  MaxDelay = 1
  MaxCopies = 2
INVARIANT SingleAuthority
INVARIANT NoLostEvent
PROPERTY NoEarlyHandling
PROPERTY KeepsContract
PROPERTY EventuallySettled
CHECK_DEADLOCK FALSE
