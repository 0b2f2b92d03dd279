CONSTANTS
    NRequests = 2
    MaxBody = 2
    MaxChunks = 2
    Stream = {s1, s2}
    MaxSize = 2
    Window = 1
    MaxUpdates = 1
SPECIFICATION FairSpec
INVARIANTS BodyExact AnswersInOrder ResponseWhole
PROPERTIES RequestAnswered NoLeak
CHECK_DEADLOCK FALSE
