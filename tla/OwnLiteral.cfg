SPECIFICATION Spec
CONSTANTS
    Block = 4
    Marker = 2
    MaxLength = 7
INVARIANT FindsPayload
