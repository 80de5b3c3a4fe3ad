SPECIFICATION FairSpec
CONSTANTS
    CompactAfter = 2
    RequestLengths = {1, 4, 7}
    AnswerLengths = {2, 5, 7}
    ErrorLength = 3
    RequestCapacity = 6
    AnswerCapacity = 6
CHECK_DEADLOCK FALSE
INVARIANTS
    TypeOK
    WholeMessages
PROPERTIES
    KeepsExchange
    ExchangeEnds
