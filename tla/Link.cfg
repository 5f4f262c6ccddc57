CONSTANTS
    Senders = {a, b}
    Strangers = {x}
    Own = own
    Garbage = {0, 5}
    Modulus = 4
    MaxCounter = 5
    Defaults = {0}
    Wide = {16}
    Ids = {0, 3, 16}
    MaxDr = 1
    MaxLength = 4
    Commands <- SomeCommands
    DefaultDr = 1
    MaxWork = 7

SPECIFICATION LinkSpec
SYMMETRY Same
INVARIANTS AnswersFit AnswersComplete SearchEnds TwiceInARow
PROPERTIES ChangesAreTold EveryFrameHeard
