SPECIFICATION FairSpec
CONSTANTS
  send = send
  wakeup = wakeup
  go = go
  Procs <- TheProcs
  Autostart <- TheOrder
  Evs <- TheEvs
  NumEvents = 2
  IsrPosts <- Nobody
  MaxBacklog = 3
  BROADCAST = BROADCAST
  NULL = NULL
INVARIANTS CountBounded
PROPERTIES RingIsFifo
