----------------------------- MODULE ByteStream -----------------------------
(***************************************************************************)
(* What a directional reader promises its dissector (spec 4.3 and 8): a    *)
(* sequential byte source.  Bytes written by the capture side are returned *)
(* by reads in the order written, each read returning a non-empty prefix   *)
(* of what is pending, whatever size was asked; once the writer has        *)
(* closed the stream and every byte has been read, the reader reports end  *)
(* of stream.  A reader that keeps being read eventually delivers every    *)
(* byte and then end of stream.                                            *)
(***************************************************************************)
EXTENDS Naturals, Sequences

VARIABLES
    pending,    \* bytes written and not yet returned by a read
    delivered,  \* bytes returned by reads, in order
    closed,     \* the writer closed the stream
    eof         \* a read has returned end of stream

vars == <<pending, delivered, closed, eof>>

TypeOK ==
    /\ pending \in Seq(Nat)
    /\ delivered \in Seq(Nat)
    /\ closed \in BOOLEAN
    /\ eof \in BOOLEAN

Init ==
    /\ pending = <<>>
    /\ delivered = <<>>
    /\ closed = FALSE
    /\ eof = FALSE

\* A write appends bytes behind those pending.
Write ==
    /\ ~closed
    /\ Len(pending') > Len(pending)
    /\ SubSeq(pending', 1, Len(pending)) = pending
    /\ UNCHANGED <<delivered, closed, eof>>

Close ==
    /\ ~closed
    /\ closed' = TRUE
    /\ UNCHANGED <<pending, delivered, eof>>

\* A read returns the first n pending bytes, n >= 1.
Read ==
    /\ ~eof
    /\ pending # <<>>
    /\ \E n \in 1 .. Len(pending) :
          /\ delivered' = delivered \o SubSeq(pending, 1, n)
          /\ pending' = SubSeq(pending, n + 1, Len(pending))
    /\ UNCHANGED <<closed, eof>>

EndOfStream ==
    /\ closed
    /\ pending = <<>>
    /\ ~eof
    /\ eof' = TRUE
    /\ UNCHANGED <<pending, delivered, closed>>

Next ==
    \/ Write
    \/ Close
    \/ Read
    \/ EndOfStream

Spec == Init /\ [][Next]_vars /\ WF_vars(Read) /\ WF_vars(EndOfStream)
=============================================================================
