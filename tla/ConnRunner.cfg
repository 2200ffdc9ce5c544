\* One test, both sides, under fair scheduling and a link that is not cut.
SPECIFICATION ConnFairSpec
CONSTANTS
    TxCap = 2
    RxCap = 1
    AirCap = 1
CHECK_DEADLOCK FALSE
INVARIANT
    PeerBeforeSend
PROPERTIES
    StopEnds
    StuckOnlyInLostHandshake
    HandshakeStallCauses
    HearingRearms
