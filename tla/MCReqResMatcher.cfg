\* Matcher safety: two connections, ids never wrap within the run.
CONSTANTS
    c1 = c1
    c2 = c2
    Conns <- MCConns
    IdWidth = 3
    MaxTry = 2
    MaxRequests = 3
    MaxInFlight = 2
    WireCapacity = 1
    NoMsg = NoMsg
SYMMETRY MCSymmetry
SPECIFICATION Spec
INVARIANT TypeOK
INVARIANT RequestAccountedOnce
 
\* The traffic is bounded: the run ends when every message is dissected.
CHECK_DEADLOCK FALSE
