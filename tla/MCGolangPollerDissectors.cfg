\* Spec 3: one dissector goroutine per reader.  Three records are enough
\* for a second request on one connection.
CONSTANTS
    i1 = i1
    i2 = i2
    i3 = i3
    Ids <- MCIds
    GolangMapLimit = 2
    MaxConns = 2
    MaxEvents = 3
SPECIFICATION Spec
INVARIANT OneDissectorPerReader
CHECK_DEADLOCK FALSE
