CONSTANTS
    Exchanges = {e1, e2}
    Buffers = {b1, b2}
    NoBuffer = NoBuffer
    Header = 2
    Base = 4
    MaxMessage = 6
    ReqSizes = {4, 5}
    RespSizes = {0, 1, 6, 7}
SPECIFICATION FairSpec
CHECK_DEADLOCK FALSE
INVARIANTS
    BufferIsOwned
    HandedOver
    AcceptedSucceeds
PROPERTY ExchangeReturns
