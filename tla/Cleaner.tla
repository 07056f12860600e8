------------------------------- MODULE Cleaner -------------------------------
(***************************************************************************)
(* The periodic cleaner of the tapper (src/tap/cleaner.go).  A goroutine   *)
(* started by start() waits on a ticker and runs clean(): under the        *)
(* assembler mutex it flushes the reassembly engine, then asks the        *)
(* matcher to delete entries older than startCleanTime - timeout, then     *)
(* adds what it closed and deleted to the stats under the stats mutex.    *)
(* dumpStats, called by another goroutine, reads and resets the stats.     *)
(*                                                                         *)
(* Time is abstracted to one flag per connection and per matcher entry:    *)
(* "old" means its last packet (its registration) lies further back than   *)
(* connectionTimeout.  The assembler and the matcher are the environment,  *)
(* modelled from spec 4.6 and from deleteOlderThan's contract (spec 4.3).  *)
(***************************************************************************)
EXTENDS Naturals, FiniteSets

CONSTANTS
    Conns,     \* TCP connections the assembler tracks
    Entries    \* pending request/response entries of the matcher

VARIABLES
    conn,      \* conn[c]: "absent", "open" or "closed" in the assembler
    connOld,   \* connOld[c]: no packet for longer than connectionTimeout
    entry,     \* entry[e]: "absent", "pending" or "done" (paired or deleted)
    entryOld,  \* entryOld[e]: registered longer than connectionTimeout ago
    cl,        \* the cleaner goroutine: pc, the locals of clean()
    stats,     \* cl.stats: CleanerStats
    dumped,    \* the sum of every CleanerStats dumpStats has returned
    cleaned    \* what the cleans have closed and deleted so far

vars == <<conn, connOld, entry, entryOld, cl, stats, dumped, cleaned>>

Counters == [flushed: Nat, closed: Nat, deleted: Nat]
NoCounts == [flushed |-> 0, closed |-> 0, deleted |-> 0]

TypeOK ==
    /\ conn \in [Conns -> {"absent", "open", "closed"}]
    /\ connOld \in [Conns -> BOOLEAN]
    /\ entry \in [Entries -> {"absent", "pending", "done"}]
    /\ entryOld \in [Entries -> BOOLEAN]
    /\ cl \in [pc: {"idle", "flush", "delete", "stats"},
               threshold: SUBSET Entries,
               closed: 0 .. Cardinality(Conns),
               deleted: 0 .. Cardinality(Entries)]
    /\ stats \in Counters /\ dumped \in Counters
    /\ cleaned \in [closed: 0 .. Cardinality(Conns),
                    deleted: 0 .. Cardinality(Entries)]

Init ==
    /\ conn = [c \in Conns |-> "absent"]
    /\ connOld = [c \in Conns |-> FALSE]
    /\ entry = [e \in Entries |-> "absent"]
    /\ entryOld = [e \in Entries |-> FALSE]
    /\ cl = [pc |-> "idle", threshold |-> {},
             closed |-> 0, deleted |-> 0]
    /\ stats = NoCounts
    /\ dumped = NoCounts
    /\ cleaned = [closed |-> 0, deleted |-> 0]

----------------------------------------------------------------------------
(* The environment: the capture loop feeding the assembler (under the     *)
(* assembler mutex) and the dissectors using the matcher.                  *)

Open(c) ==
    /\ conn[c] = "absent"
    /\ conn' = [conn EXCEPT ![c] = "open"]
    /\ UNCHANGED <<connOld, entry, entryOld, cl, stats, dumped, cleaned>>

Packet(c) ==
    /\ conn[c] = "open" /\ connOld[c]
    /\ connOld' = [connOld EXCEPT ![c] = FALSE]
    /\ UNCHANGED <<conn, entry, entryOld, cl, stats, dumped, cleaned>>

ConnIdles(c) ==
    /\ conn[c] = "open" /\ ~connOld[c]
    /\ connOld' = [connOld EXCEPT ![c] = TRUE]
    /\ UNCHANGED <<conn, entry, entryOld, cl, stats, dumped, cleaned>>

\* The connection ends with FIN or RST and the assembler closes it.
Teardown(c) ==
    /\ conn[c] = "open"
    /\ conn' = [conn EXCEPT ![c] = "closed"]
    /\ UNCHANGED <<connOld, entry, entryOld, cl, stats, dumped, cleaned>>

Register(e) ==
    /\ entry[e] = "absent"
    /\ entry' = [entry EXCEPT ![e] = "pending"]
    /\ UNCHANGED <<conn, connOld, entryOld, cl, stats, dumped, cleaned>>

EntryAges(e) ==
    /\ entry[e] = "pending" /\ ~entryOld[e]
    /\ entryOld' = [entryOld EXCEPT ![e] = TRUE]
    /\ UNCHANGED <<conn, connOld, entry, cl, stats, dumped, cleaned>>

\* The entry's counterpart arrives and the pair is emitted.
Pair(e) ==
    /\ entry[e] = "pending"
    /\ entry' = [entry EXCEPT ![e] = "done"]
    /\ UNCHANGED <<conn, connOld, entryOld, cl, stats, dumped, cleaned>>

----------------------------------------------------------------------------
(* The cleaner goroutine.                                                 *)

\* Mutant of Tick: startCleanTime taken once when start() runs, so every
\* clean deletes against the first tick's threshold.
TickStaleThreshold ==
    /\ cl.pc = "idle"
    /\ cl' = [cl EXCEPT !.pc = "flush"]
    /\ UNCHANGED <<conn, connOld, entry, entryOld, stats, dumped, cleaned>>

\* <-ticker.C, then clean() takes startCleanTime: what is older than
\* startCleanTime - connectionTimeout is fixed here.  (The threshold of the
\* commented-out FlushCloseOlderThan goes unused: see Flush.)
Tick ==
    /\ cl.pc = "idle"
    /\ cl' = [cl EXCEPT !.pc = "flush",
                        !.threshold = {e \in Entries : entryOld[e]}]
    /\ UNCHANGED <<conn, connOld, entry, entryOld, stats, dumped, cleaned>>

\* Mutant of Flush: the count taken over every connection the assembler
\* has seen, the ones already closed included.
FlushRecountsClosed ==
    LET seen == {c \in Conns : conn[c] # "absent"} IN
    /\ cl.pc = "flush"
    /\ conn' = [c \in Conns |-> IF c \in seen THEN "closed" ELSE conn[c]]
    /\ cl' = [cl EXCEPT !.pc = "delete", !.closed = Cardinality(seen)]
    /\ cleaned' = [cleaned EXCEPT !.closed = @ + Cardinality(seen)]
    /\ UNCHANGED <<connOld, entry, entryOld, stats, dumped>>

\* Under assemblerMutex: closed := cl.assembler.FlushAll(), which closes
\* every connection the assembler holds, whatever its age.
Flush ==
    LET open == {c \in Conns : conn[c] = "open"} IN
    /\ cl.pc = "flush"
    /\ conn' = [c \in Conns |-> IF c \in open THEN "closed" ELSE conn[c]]
    /\ cl' = [cl EXCEPT !.pc = "delete", !.closed = Cardinality(open)]
    /\ cleaned' = [cleaned EXCEPT !.closed = @ + Cardinality(open)]
    /\ UNCHANGED <<connOld, entry, entryOld, stats, dumped>>

\* deleted := cl.matcher.deleteOlderThan(startCleanTime - timeout).
Delete ==
    LET expired == {e \in cl.threshold : entry[e] = "pending"} IN
    /\ cl.pc = "delete"
    /\ entry' = [e \in Entries |-> IF e \in expired THEN "done" ELSE entry[e]]
    /\ cl' = [cl EXCEPT !.pc = "stats", !.deleted = Cardinality(expired)]
    /\ cleaned' = [cleaned EXCEPT !.deleted = @ + Cardinality(expired)]
    /\ UNCHANGED <<conn, connOld, entryOld, stats, dumped>>

\* Mutant of Stats: the counters assigned instead of accumulated.
StatsOverwrite ==
    /\ cl.pc = "stats"
    /\ stats' = [stats EXCEPT !.closed = cl.closed, !.deleted = cl.deleted]
    /\ cl' = [cl EXCEPT !.pc = "idle"]
    /\ UNCHANGED <<conn, connOld, entry, entryOld, dumped, cleaned>>

\* Under statsMutex: stats.closed += closed; stats.deleted += deleted.
\* (The flushed counter is never added to: its line is commented out.)
Stats ==
    /\ cl.pc = "stats"
    /\ stats' = [stats EXCEPT !.closed = @ + cl.closed,
                              !.deleted = @ + cl.deleted]
    /\ cl' = [cl EXCEPT !.pc = "idle"]
    /\ UNCHANGED <<conn, connOld, entry, entryOld, dumped, cleaned>>

CleanerStep == Tick \/ Flush \/ Delete \/ Stats

\* dumpStats: under statsMutex, copy the counters and reset them.
DumpStats ==
    /\ stats # NoCounts
    /\ dumped' = [k \in DOMAIN dumped |-> dumped[k] + stats[k]]
    /\ stats' = NoCounts
    /\ UNCHANGED <<conn, connOld, entry, entryOld, cl, cleaned>>

Next ==
    \/ CleanerStep
    \/ DumpStats
    \/ \E c \in Conns : Open(c) \/ Packet(c) \/ ConnIdles(c) \/ Teardown(c)
    \/ \E e \in Entries : Register(e) \/ EntryAges(e) \/ Pair(e)

\* The ticker fires every cleanPeriod and clean() runs to completion: weak
\* fairness on the cleaner.  Traffic, the matcher and dumpStats' caller
\* need none.
Spec == Init /\ [][Next]_vars /\ WF_vars(CleanerStep)

----------------------------------------------------------------------------
(* Properties.                                                            *)

\* Every connection and entry the cleans remove is counted exactly once in
\* what dumpStats returns, now or later: the dumps so far, the stats not
\* yet dumped and the clean in progress add up to what was removed.  (The
\* accumulation under statsMutex against dumpStats' read and reset.)
StatsAccounted ==
    LET closedHeld == IF cl.pc \in {"delete", "stats"} THEN cl.closed ELSE 0
        deletedHeld == IF cl.pc = "stats" THEN cl.deleted ELSE 0
    IN
    /\ dumped.closed + stats.closed + closedHeld = cleaned.closed
    /\ dumped.deleted + stats.deleted + deletedHeld = cleaned.deleted

\* A matcher entry left pending past the timeout is eventually removed, by
\* its pair or by a clean (spec 4.3 and 4.6: deleteOlderThan bounds the
\* table when a peer never answers).  (startCleanTime taken per clean.)
AbandonedEntryEventuallyDeleted ==
    \A e \in Entries :
        (entry[e] = "pending" /\ entryOld[e]) ~> entry[e] = "done"
=============================================================================
