CONSTANTS
  Class = "C"
  Types <- Both
  NbTrials = 3
  ChannelsNbRep = 1
  MaxDatarate = 1
  TimeOffs <- NoTimeOff
  Frames <- AllFrames
  Eager = TRUE
  CheckPeriod = 2
  RxDelay1 = 1
  RxDelay2 = 2
  AckDelays <- AckTimeouts
  TxLimit = 3
  RxLimit = 3
  MaxAhead = 0
  MaxTrials = 0
SPECIFICATION Spec
INVARIANTS NoStall TxIsLimited
PROPERTIES DeafOnlyAfterRefusal
