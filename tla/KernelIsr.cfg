SPECIFICATION FairSpec
CONSTANTS
  send = send
  wakeup = wakeup
  go = go
  Procs <- TheProcs
  Autostart <- TheOrder
  Evs <- TheEvs
  NumEvents = 2
  IsrPosts <- Both
  MaxBacklog = 3
  BROADCAST = BROADCAST
  NULL = NULL
INVARIANTS TypeOK PollRemembered OneThread
PROPERTY PollServed
