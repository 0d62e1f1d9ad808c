-------------------------------- MODULE Klog --------------------------------
(***************************************************************************)
(* The ring of the kernel log, LogRing of src/klog.rs, as operators.  The  *)
(* array is indexed from 0 as in the code; an entry is its sequence number *)
(* and its tag, the text is left out.                                      *)
(***************************************************************************)
EXTENDS Integers, Sequences

CONSTANT LogSize         \* ENTRY_COUNT

ASSUME KlogAssumption == LogSize \in Nat \ {0}

EmptyEntry == [sequence |-> 0, tag |-> "none"]

\* LogRing::new
NewRing ==
    [entries |-> [i \in 0 .. LogSize - 1 |-> EmptyEntry],
     writeIndex |-> 0, count |-> 0, dropped |-> 0, nextSequence |-> 0]

\* LogRing::append
LogAppend(ring, tag) ==
    [entries |-> [ring.entries EXCEPT ![ring.writeIndex] =
                     [sequence |-> ring.nextSequence, tag |-> tag]],
     writeIndex |-> (ring.writeIndex + 1) % LogSize,
     nextSequence |-> ring.nextSequence + 1,
     count |-> IF ring.count < LogSize THEN ring.count + 1 ELSE ring.count,
     dropped |-> IF ring.count < LogSize THEN ring.dropped ELSE ring.dropped + 1]

\* Mutant of LogEntry: the oldest entry is taken to be the one at index 0.
LogEntryFromZero(ring, i) == ring.entries[i % LogSize]

\* LogRing::entry, for an index below count.
LogEntry(ring, i) ==
    LET oldest == IF ring.count < LogSize THEN 0 ELSE ring.writeIndex
    IN ring.entries[(oldest + i) % LogSize]

\* serial::log and its variants, n times: each puts one entry into the ring.
LogLines(ring, tag, n) ==
    LET written[i \in 0 .. n] == IF i = 0 THEN ring ELSE LogAppend(written[i - 1], tag)
    IN  written[n]
=============================================================================
