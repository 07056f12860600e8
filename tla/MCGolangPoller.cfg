\* The Go-runtime loop over five ring-buffer records, three identifiers and a
\* map limit of two.  The loop blocks in rd.Read once the records run out.
CONSTANTS
    i1 = i1
    i2 = i2
    i3 = i3
    Ids <- MCIds
    GolangMapLimit = 2
    MaxConns = 4
    MaxEvents = 5
SPECIFICATION Spec
INVARIANT TypeOK
INVARIANT MapWithinLimit
CHECK_DEADLOCK FALSE
