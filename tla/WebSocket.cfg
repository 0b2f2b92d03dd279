CONSTANTS
    Classes = {"tcp", "ssl"}
    NFrames = 2
    MaxSize = 1
    MaxSends <- MCSends
    Scripts <- MCScripts
SPECIFICATION WsFairSpec
INVARIANTS HalfDuplex MessagesExact
PROPERTIES QuietAfterClose SendsGoOut CloseIsTold
CHECK_DEADLOCK FALSE
