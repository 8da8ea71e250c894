CONSTANTS
    Radix = 4
    LenBytes = 2
    KindByte <- MCKindByte
    AckByte = 254
    Senders <- MCSenders
    Targets <- MCTargets
    Payloads <- MCPayloads
    Headers <- MCHeaders
    OpIds <- MCOpIds
    Codes = {1, 2}
    MaxFrames = 2
SPECIFICATION Spec
INVARIANT DecodedAsSent
