SPECIFICATION Spec
CONSTANTS
    NoSpread = NoSpread
    Levels = {5, 50, 100}
    Owned <- MCOwned
    Seen <- MCSeen
INVARIANT RoundTrip
PROPERTIES
    EachGetsASpread
    KeepsWhatMatters
    SpendsLeast
\* A Pokemon that has its spread is done.
CHECK_DEADLOCK FALSE
