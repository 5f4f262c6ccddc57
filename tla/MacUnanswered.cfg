CONSTANTS
  Class = "C"
  Types <- Confirmed
  NbTrials = 3
  ChannelsNbRep = 1
  MaxDatarate = 1
  TimeOffs <- NoTimeOff
  Frames <- AllFrames
  Eager = FALSE
  CheckPeriod = 2
  RxDelay1 = 1
  RxDelay2 = 2
  AckDelays <- AckTimeouts
  TxLimit = 3
  RxLimit = 3
  MaxAhead = 2
  MaxTrials = 4
SPECIFICATION FairSpec
PROPERTIES Answered
