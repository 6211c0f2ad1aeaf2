CONSTANTS
    Terms = {t1}
    Files = {f1}
    Xfers = {x1}
    Socks = {s1, s2}
    NoSock = NoSock
    TermOf <- MCTermOf
    FileOf <- MCFileOf
    MaxRefused = 1
SPECIFICATION RegistrySpec
INVARIANTS RegistryInv
PROPERTIES CloseIsLocal AllSettled
CHECK_DEADLOCK FALSE
