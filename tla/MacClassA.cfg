CONSTANTS
  Class = "A"
  Types <- Both
  NbTrials = 8
  ChannelsNbRep = 3
  MaxDatarate = 4
  TimeOffs <- TimeOff
  Frames <- AllFrames
  Eager = FALSE
  CheckPeriod = 2
  RxDelay1 = 1
  RxDelay2 = 2
  AckDelays <- AckTimeouts
  TxLimit = 3
  RxLimit = 3
  MaxAhead = 2
  MaxTrials = 11
SPECIFICATION FairSpec
INVARIANTS TypeOK
PROPERTIES DatarateOfTrial ImplementsService ConfirmTellsAck CountedOnConfirm TransmissionRunsOut Answered
