SPECIFICATION FairSpec
CONSTANTS
  t1 = t1
  t2 = t2
  Timers <- TheTimers
  Wrap = 6
  Intervals <- TheIntervals
  Adjustments <- TheAdjustments
  NumEvents = 1
  OTHEREV = OTHEREV
  MaxLag = 2
  MaxPosts = 1
INVARIANTS TypeOK PendingIsListed ExpiryIsExact NextExpirationIsFirst
PROPERTIES PostedWhenExpired ExpiredIsPosted
