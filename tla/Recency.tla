------------------------------- MODULE Recency -------------------------------
(***************************************************************************)
(* What FileLRU promises of its list: entries in the order of their last   *)
(* use, the least recent first, and room for a new one made at that end    *)
(* and no further than needed.  FileLRU implements it with pointers.       *)
(***************************************************************************)
EXTENDS Naturals, Sequences, FiniteSets, SequencesExt

CONSTANTS Entries,   \* what can be in the list
          Lengths,   \* lengths of files
          Capacity   \* capacity_: the lengths in the list should not exceed it

VARIABLE recent      \* the list: [entry, length], the least recently used first

Uses == [entry : Entries, length : Lengths]
Total(list) == Cardinality(UNION {{i} \X (1 .. list[i].length) : i \in DOMAIN list})
Listed(e) == \E i \in DOMAIN recent : recent[i].entry = e
From(i) == SubSeq(recent, i + 1, Len(recent))

Init == recent = <<>>

\* A file is asked for or read again, perhaps with another length.  A longer
\* one may leave more in the list than it should hold: nothing is evicted.
Use == \E i \in DOMAIN recent, n \in Lengths :
          recent' = Append(RemoveAt(recent, i), [entry |-> recent[i].entry, length |-> n])

\* A file is read for the first time.  The shortest prefix goes that makes room.
Enter == \E u \in Uses, i \in 0 .. Len(recent) :
           /\ ~Listed(u.entry)
           /\ Total(From(i)) + u.length <= Capacity
           /\ i > 0 => Total(From(i - 1)) + u.length > Capacity
           /\ recent' = Append(From(i), u)

\* A file is deleted.
Leave == \E i \in DOMAIN recent : recent' = RemoveAt(recent, i)

Next == Use \/ Enter \/ Leave

Spec == Init /\ [][Next]_recent
=============================================================================
