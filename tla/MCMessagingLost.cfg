SPECIFICATION Spec
CONSTANTS
  Events = {e1}
  NoEvent = NoEvent
  Dispatchers = {d1, d2}
  Workers = {w1, w2}
  Tokens = {t1, t2, t3}
  NoToken = NoToken
  MaxDeliveryAttempts = 2
  BatchSize = 1
  LockLease = 1
  InboxLease = 1
  MaxDelay = 1
  MaxCopies = 3
SYMMETRY Symmetry
INVARIANT AtLeastOnceDelivery
CHECK_DEADLOCK FALSE
