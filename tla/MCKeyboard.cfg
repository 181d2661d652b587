SPECIFICATION KeyboardFairSpec
CONSTANTS
    Key <- SomeKeys
    Uses <- SomeUses
    Event <- KeyEvent
    Zero <- Untouched
    KEYB_BUFFER_LEN = 4
    MaxEvents = 24
    RETRIES = 1
CHECK_DEADLOCK FALSE
INVARIANTS
    ShiftTracksKeys
    KeysBuffered
    ResetByUser
    KeysReadInOrder
    LedsFollow
    EventsInOrder
    PointersTell
PROPERTIES
    HandlerReturns
