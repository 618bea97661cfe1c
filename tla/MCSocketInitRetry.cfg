CONSTANTS
    Ports = {1, 2, 3}
    EphemeralOrder <- MCEphemeralOrder
    ReqPorts = {0, 2}
    MaxRetries = 2
SPECIFICATION Spec
INVARIANT TypeOK
INVARIANT NoSocketLeak
INVARIANT PortAgreement
INVARIANT AddressInUseIsReal
