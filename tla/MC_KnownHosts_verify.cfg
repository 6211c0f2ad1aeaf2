CONSTANTS
    v1 = v1
    v2 = v2
    Verifier <- MCVerifier
    Target <- MCTarget
    Key <- MCKey
    InitialFiles <- MCInitialFiles
    MaxConns = 3
SPECIFICATION Spec
INVARIANTS KnownHostsInv
PROPERTIES ChangeIsAnnounced TrustIsKnown
CHECK_DEADLOCK FALSE
