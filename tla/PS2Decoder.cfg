SPECIFICATION Spec
CONSTANT
    Wire <- MCWire
INVARIANTS
    TypeOK
    MessageInFlight
    NoFlowError
