SPECIFICATION FairSpec
CONSTANTS
  send = send
  wakeup = wakeup
  go = go
  Procs <- TheProcs
  Autostart <- TheOrder
  Evs <- TheEvs
  NumEvents = 8
  IsrPosts <- Both
  MaxBacklog = 8
  BROADCAST = BROADCAST
  NULL = NULL
PROPERTY RingIsFifo
