----------------------------- MODULE TabletRow -----------------------------
(***************************************************************************)
(* The Accumulo metadata row of one tablet, as internal/metadatacas reads  *)
(* and writes it: the server that was told to load it (future location),   *)
(* the server that hosts it (current location with the ServiceLock), its   *)
(* WAL references and its data files.  Each write is one conditional       *)
(* mutation; the server that holds the metadata tablet checks every        *)
(* condition and applies every update in one step.  A lost answer is       *)
(* settled by rereading the row, so a write that took effect and a write   *)
(* whose answer was lost but whose reread succeeded are the same step.     *)
(***************************************************************************)
EXTENDS Integers, FiniteSets

CONSTANTS Locks,   \* ServiceLock generations of the tablet servers
          NoLock

VARIABLES location,   \* lock generation of the current location, or NoLock
          future,     \* lock generation the manager chose, or NoLock
          refs,       \* log: references, WAL identifiers
          files       \* file: entries

rowVars == <<location, future, refs, files>>

RowInit ==
    /\ location = NoLock
    /\ future = NoLock
    /\ refs = {}
    /\ files = {}

\* ownerConditions and ownerMatches: the location and lock of this server.
\* The assignment attempt is not among the conditions.
OwnerMatches(lock) == location = lock /\ future = NoLock

\* The manager's side of an assignment: the row of a tablet without a live
\* owner gets a future location.
ChooseServer(lock) ==
    /\ location' = NoLock
    /\ future' = lock
    /\ UNCHANGED <<refs, files>>

\* claim: a row this server already owns is left alone.
Claim(lock) ==
    /\ \/ OwnerMatches(lock)
       \/ future = lock /\ location = NoLock
    /\ location' = lock
    /\ future' = NoLock
    /\ UNCHANGED <<refs, files>>

\* EnsureReference
EnsureReference(lock, w) ==
    /\ OwnerMatches(lock)
    /\ refs' = refs \cup {w}
    /\ UNCHANGED <<location, future, files>>

\* RemoveReference; a reference that is gone already counts as removed.
RemoveReference(lock, w) ==
    /\ OwnerMatches(lock)
    /\ refs' = refs \ {w}
    /\ UNCHANGED <<location, future, files>>

\* Mutant of CommitFile: the references are left to Retire.
CommitFileKeepsReferences(lock, file, covered) ==
    /\ OwnerMatches(lock)
    /\ covered # {}
    /\ covered \subseteq refs
    /\ files' = files \cup {file}
    /\ UNCHANGED <<location, future, refs>>

\* Mutant of CommitFile: every reference goes, not only the covered ones.
CommitFileClearsReferences(lock, file, covered) ==
    /\ OwnerMatches(lock)
    /\ covered # {}
    /\ covered \subseteq refs
    /\ files' = files \cup {file}
    /\ refs' = {}
    /\ UNCHANGED <<location, future>>

\* Commit, after its checks: the file is added and exactly the covered
\* references go, all of which must still be there.
CommitFile(lock, file, covered) ==
    /\ OwnerMatches(lock)
    /\ covered # {}
    /\ covered \subseteq refs
    /\ files' = files \cup {file}
    /\ refs' = refs \ covered
    /\ UNCHANGED <<location, future>>

\* commitApplied and reconcileMetadata: the reread row shows the whole change.
CommitApplied(file, covered) == file \in files /\ covered \cap refs = {}

\* Release; a row owned by another server stays as it is.
ReleaseLocation(lock) ==
    /\ location' = IF OwnerMatches(lock) THEN NoLock ELSE location
    /\ UNCHANGED <<future, refs, files>>
=============================================================================
