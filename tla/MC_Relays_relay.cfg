CONSTANTS
    c1 = c1
    c2 = c2
    c3 = c3
    Chan <- MCChan
    Protos <- MCProtos
    MaxMsgs = 2
SPECIFICATION RelaySpec
INVARIANTS RelayInv
PROPERTIES SiblingsLive EndsTogether Answered
CHECK_DEADLOCK FALSE
