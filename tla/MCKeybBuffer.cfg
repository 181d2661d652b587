SPECIFICATION Spec
CONSTANTS
    a = a
    b = b
    zero = zero
    Event <- TwoEvents
    Zero <- zero
    KEYB_BUFFER_LEN = 4
    MaxEvents = 9
CHECK_DEADLOCK FALSE
INVARIANT
    NextScancode
