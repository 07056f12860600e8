\* The clean cycle against live traffic, matcher entries and dumpStats.
CONSTANTS
    c1 = c1
    c2 = c2
    e1 = e1
    e2 = e2
    Conns <- MCConns
    Entries <- MCEntries
SPECIFICATION Spec
INVARIANT TypeOK
INVARIANT StatsAccounted
PROPERTY AbandonedEntryEventuallyDeleted
