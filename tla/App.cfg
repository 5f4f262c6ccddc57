CONSTANTS
  Class = "C"
  Types <- Unconfirmed
  NbTrials = 1
  ChannelsNbRep = 1
  MaxDatarate = 0
  TimeOffs <- NoTimeOff
  Frames <- SomeFrames
  Eager = TRUE
  CheckPeriod = 2
  RxDelay1 = 1
  RxDelay2 = 2
  AckDelays <- AckTimeouts
  TxLimit = 3
  RxLimit = 3
  MaxAhead = 0
  MaxTrials = 0
  NumEvents = 2
  Asking = {TRUE, FALSE}
SPECIFICATION AppSpec
INVARIANTS NoStall OneFramePerEvent NotStranded WokenByConfirm
PROPERTIES CutBy
