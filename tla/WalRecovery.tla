---------------------------- MODULE WalRecovery ----------------------------
(***************************************************************************)
(* What walauthority reads back from WAL files: readWAL for one file and   *)
(* recover for every referenced one.  A WAL is the sequence of its whole   *)
(* records [op, seq, by]; an incomplete last frame is cut off by readWAL's *)
(* callers before anything else happens, so it never shows.  by is the     *)
(* fence the digest covers.                                                *)
(***************************************************************************)
EXTENDS Integers, Sequences, FiniteSets, FiniteSetsExt

Records(log) == {log[k] : k \in 1..Len(log)}

\* readWAL: sequence numbers strictly increase inside one file.
Readable(log) == \A j, k \in 1..Len(log) : j < k => log[j].seq < log[k].seq

\* recover: nothing is corrupt, no sequence number belongs to two operations,
\* and no operation was logged with two digests.
Recoverable(logs, referenced) ==
    LET all == UNION {Records(logs[w]) : w \in referenced} IN
    /\ \A w \in referenced : Readable(logs[w])
    /\ \A r, s \in all : r.seq = s.seq => r.op = s.op
    /\ \A r, s \in all : r.op = s.op => r.by = s.by

\* RecoveryReport.HighestSequence
HighestSequence(records) == Max({0} \cup {r.seq : r \in records})

\* Mutant of Replayed: the newest record is taken for an incomplete one.
ReplayedWithoutNewest(logs, referenced) ==
    LET all == UNION {Records(logs[w]) : w \in referenced} IN
    {r \in all : r.seq < HighestSequence(all)}

\* The operations recover replays: of several records of one operation the
\* first in sequence order.
Replayed(logs, referenced) ==
    LET all == UNION {Records(logs[w]) : w \in referenced} IN
    {r \in all : \A s \in all : s.op = r.op => r.seq <= s.seq}
=============================================================================
