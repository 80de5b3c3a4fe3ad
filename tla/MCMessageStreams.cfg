SPECIFICATION Spec
CONSTANTS
    SizeMax = 63
    MaxHeader = 24
    MaxBody = 19
    MaxLine = 24
    Requests <- MCRequests
    Responses <- MCResponses
    RecvSizes = {1, 2, 5}
INVARIANTS
    RequestVerdict
    ResponseVerdict
    SameFraming
    FramingKept
CHECK_DEADLOCK FALSE
