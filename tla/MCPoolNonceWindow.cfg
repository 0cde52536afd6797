SPECIFICATION Spec
CONSTANTS
    LimbBits = 2
    MaxNonce = 8
    FieldPrime = 101
INVARIANT BitmapMarksConsumed
CHECK_DEADLOCK FALSE
