------------------------------ MODULE Hosting ------------------------------
(***************************************************************************)
(* The tablet-hosting fence of a tablet server, internal/tserver/          *)
(* hosting.go: one Host, the ServiceLock generations it adopts and loses,  *)
(* the manager lock it observes, the manager's assignments and the         *)
(* completions that loads and drains report asynchronously.  Every call    *)
(* runs under Host.mu, so each is one action; a refused call changes       *)
(* nothing but a metric and is not an action.  Locks are LockIDs with      *)
(* distinct UUIDs, so Equal is equality and only Supersedes looks at the   *)
(* sequence number (two generations of a recreated directory can share     *)
(* it).  Arguments arrive late, twice, or stamped with a dead generation:  *)
(* every fence over the known locks is tried.                              *)
(***************************************************************************)
EXTENDS Extents, Sequences, FiniteSets

CONSTANTS ServerLocks, ManagerLocks, NoLock, Sequence,
          MaxAttempts   \* bound on the assignments of one behaviour

ASSUME LocksAssumption ==
    /\ NoLock \notin ServerLocks \cup ManagerLocks
    /\ \A lock \in ServerLocks \cup ManagerLocks : Sequence[lock] \in Nat

ASSUME MaxAttemptsAssumption == MaxAttempts \in Nat

VARIABLES
    held,           \* ServiceLock currently held
    newest,         \* newest server lock ever adopted
    manager,        \* live manager lock, as observed
    newestManager,  \* newest manager lock ever observed
    tablets,        \* extent -> [state, attempt]; UNASSIGNED when not tracked
    byTable,        \* table -> tracked extents in range order
    nextAttempt,
    attempts,       \* every handle Assign minted, still in some caller's hands
    loaded          \* ids of the attempts whose tablet the backend has loaded

hostVars == <<held, newest, manager, newestManager, tablets, byTable, nextAttempt>>
vars == <<hostVars, attempts, loaded>>

States == {"UNASSIGNED", "LOADING", "HOSTED", "UNLOADING"}
NoEntry == [state |-> "UNASSIGNED", attempt |-> 0]
Fences == [server : ServerLocks, manager : ManagerLocks]
Handles == [extent : Extents, lock : ServerLocks, id : Nat \ {0}]

Tracked == {e \in Extents : tablets[e].state # "UNASSIGNED"}

Supersedes(lock, other) == Sequence[lock] > Sequence[other]

\* Types of the Host's fields; attempts are numbered from 1.
TypeOK ==
    /\ held \in ServerLocks \cup {NoLock}
    /\ newest \in ServerLocks \cup {NoLock}
    /\ manager \in ManagerLocks \cup {NoLock}
    /\ newestManager \in ManagerLocks \cup {NoLock}
    /\ tablets \in [Extents -> [state : States, attempt : Nat]]
    /\ byTable \in [Tables -> Seq(Extents)]
    /\ nextAttempt \in Nat \ {0}
    /\ attempts \subseteq Handles
    /\ loaded \subseteq Nat

----------------------------------------------------------------------------
(* The range index.                                                        *)

\* lowerBoundIndex: sort.Search for the first entry at or above e.  Positions
\* count from 1, so the answer past the end is Len + 1.
LowerBoundIndex(entries, e) ==
    CHOOSE i \in 1..Len(entries) + 1 :
        /\ \A k \in 1..i - 1 : LowerBelow(entries[k].prev, e.prev)
        /\ i <= Len(entries) => ~LowerBelow(entries[i].prev, e.prev)

\* Mutant: only the successor is compared.
OverlappingSuccessorOnly(entries, e) ==
    LET i == LowerBoundIndex(entries, e) IN i <= Len(entries) /\ Overlaps(entries[i], e)

\* overlapping: does either neighbour of the insertion point share rows with e?
Overlapping(entries, e) ==
    LET i == LowerBoundIndex(entries, e) IN
    \/ i > 1 /\ Overlaps(entries[i - 1], e)
    \/ i <= Len(entries) /\ Overlaps(entries[i], e)

\* Mutant: the entry goes to the end of the index.
InsertedLast(entries, e) == Append(entries, e)

\* The index with e placed at its lower bound, as track's copy shifts the tail.
Inserted(entries, e) ==
    LET i == LowerBoundIndex(entries, e) IN
    [k \in 1..Len(entries) + 1 |->
        IF k < i THEN entries[k] ELSE IF k = i THEN e ELSE entries[k - 1]]

\* The index without e; release leaves it alone when e is not where it should be.
Deleted(entries, e) ==
    LET i == LowerBoundIndex(entries, e) IN
    IF i > Len(entries) \/ entries[i] # e THEN entries
    ELSE [k \in 1..Len(entries) - 1 |-> IF k < i THEN entries[k] ELSE entries[k + 1]]

\* track, for the entry of a new assignment
Track(e, entry) ==
    /\ tablets' = [tablets EXCEPT ![e] = entry]
    /\ byTable' = [byTable EXCEPT ![e.table] = Inserted(byTable[e.table], e)]

\* release
Release(e) ==
    /\ tablets' = [tablets EXCEPT ![e] = NoEntry]
    /\ byTable' = [byTable EXCEPT ![e.table] = Deleted(byTable[e.table], e)]

----------------------------------------------------------------------------
(* Fences.                                                                 *)

\* checkServerLock
CheckServerLock(lock) == held # NoLock /\ lock = held

\* checkFence
CheckFence(fence) ==
    /\ CheckServerLock(fence.server)
    /\ manager # NoLock
    /\ fence.manager = manager

\* verifyAssignedState: what VerifyHosted and VerifyAssigned answer for a handle
VerifyAssignedState(fence, h, allowed) ==
    /\ CheckFence(fence)
    /\ tablets[h.extent].attempt = h.id
    /\ tablets[h.extent].state \in allowed

----------------------------------------------------------------------------
(* Locks.                                                                  *)

\* Mutant: attempts are numbered from zero, the number of no attempt.
InitAttemptsFromZero ==
    /\ held = NoLock /\ newest = NoLock
    /\ manager = NoLock /\ newestManager = NoLock
    /\ tablets = [e \in Extents |-> NoEntry]
    /\ byTable = [t \in Tables |-> <<>>]
    /\ nextAttempt = 0
    /\ attempts = {}
    /\ loaded = {}

Init ==
    /\ held = NoLock /\ newest = NoLock
    /\ manager = NoLock /\ newestManager = NoLock
    /\ tablets = [e \in Extents |-> NoEntry]
    /\ byTable = [t \in Tables |-> <<>>]
    /\ nextAttempt = 1
    /\ attempts = {}
    /\ loaded = {}

\* Mutant: the offered lock is compared with the lock held, not the newest seen.
AdoptLockAfterHeld(lock) ==
    /\ Tracked = {}
    /\ held # NoLock => Supersedes(lock, held)
    /\ held' = lock
    /\ newest' = lock
    /\ UNCHANGED <<manager, newestManager, tablets, byTable, nextAttempt, attempts, loaded>>

AdoptLock(lock) ==
    /\ Tracked = {}
    /\ newest # NoLock => Supersedes(lock, newest)
    /\ held' = lock
    /\ newest' = lock
    /\ UNCHANGED <<manager, newestManager, tablets, byTable, nextAttempt, attempts, loaded>>

\* Mutant: tablets survive the loss of their generation.
LoseLockKeepsTablets(lost) ==
    /\ held # NoLock
    /\ lost = held
    /\ held' = NoLock
    /\ UNCHANGED <<newest, manager, newestManager, tablets, byTable, nextAttempt, attempts, loaded>>

\* Mutant: attempt numbers restart with the generation.
LoseLockRestartsAttempts(lost) ==
    /\ held # NoLock
    /\ lost = held
    /\ held' = NoLock
    /\ tablets' = [e \in Extents |-> NoEntry]
    /\ byTable' = [t \in Tables |-> <<>>]
    /\ nextAttempt' = 1
    /\ UNCHANGED <<newest, manager, newestManager, attempts, loaded>>

\* A notification of the loss of one generation, perhaps late or repeated.
LoseLock(lost) ==
    /\ held # NoLock
    /\ lost = held
    /\ held' = NoLock
    /\ tablets' = [e \in Extents |-> NoEntry]
    /\ byTable' = [t \in Tables |-> <<>>]
    /\ UNCHANGED <<newest, manager, newestManager, nextAttempt, attempts, loaded>>

\* ObserveManagerLock of a live lock
ObserveManagerLock(lock) ==
    /\ newestManager # NoLock => lock = newestManager \/ Supersedes(lock, newestManager)
    /\ manager' = lock
    /\ newestManager' = lock
    /\ UNCHANGED <<held, newest, tablets, byTable, nextAttempt, attempts, loaded>>

\* Mutant: clearing the observation forgets the newest manager too.
ClearManagerLockForgets ==
    /\ manager' = NoLock
    /\ newestManager' = NoLock
    /\ UNCHANGED <<held, newest, tablets, byTable, nextAttempt, attempts, loaded>>

\* ObserveManagerLock of the zero LockID: no live manager is known.
ClearManagerLock ==
    /\ manager' = NoLock
    /\ UNCHANGED <<held, newest, newestManager, tablets, byTable, nextAttempt, attempts, loaded>>

----------------------------------------------------------------------------
(* The manager's requests.                                                 *)

Assign(fence, e) ==
    /\ nextAttempt <= MaxAttempts
    /\ Validate(e)
    /\ CheckFence(fence)
    /\ tablets[e].state = "UNASSIGNED"
    /\ ~Overlapping(byTable[e.table], e)
    /\ Track(e, [state |-> "LOADING", attempt |-> nextAttempt])
    /\ nextAttempt' = nextAttempt + 1
    /\ attempts' = attempts \cup {[extent |-> e, lock |-> held, id |-> nextAttempt]}
    /\ UNCHANGED <<held, newest, manager, newestManager, loaded>>

\* Unassign(UnloadImmediate)
UnassignImmediate(fence, e) ==
    /\ Validate(e)
    /\ CheckFence(fence)
    /\ e \in Tracked
    /\ Release(e)
    /\ UNCHANGED <<held, newest, manager, newestManager, nextAttempt, attempts, loaded>>

\* Unassign(UnloadGraceful): draining from whatever state the tablet was in
UnassignGraceful(fence, e) ==
    /\ Validate(e)
    /\ CheckFence(fence)
    /\ e \in Tracked
    /\ tablets' = [tablets EXCEPT ![e].state = "UNLOADING"]
    /\ UNCHANGED <<held, newest, manager, newestManager, byTable, nextAttempt, attempts, loaded>>

----------------------------------------------------------------------------
(* Completions, each for the assignment its handle names.                  *)

\* Mutant: a completion is fenced by extent, lock and state only.
TransitionWithoutAttempt(h, want) ==
    /\ CheckServerLock(h.lock)
    /\ h.extent \in Tracked
    /\ tablets[h.extent].state = want

\* Mutant: a completion is accepted in any state.
TransitionAnyState(h, want) ==
    /\ CheckServerLock(h.lock)
    /\ h.extent \in Tracked
    /\ tablets[h.extent].attempt = h.id

\* transition: the checks every local completion passes
Transition(h, want) ==
    /\ CheckServerLock(h.lock)
    /\ h.extent \in Tracked
    /\ tablets[h.extent].attempt = h.id
    /\ tablets[h.extent].state = want

\* The backend finishes loading the tablet of one attempt (tserverrpc.Backend).
BackendLoads(h) ==
    /\ h.id \notin loaded
    /\ loaded' = loaded \cup {h.id}
    /\ UNCHANGED <<hostVars, attempts>>

LoadComplete(h) ==
    /\ h.id \in loaded
    /\ Transition(h, "LOADING")
    /\ tablets' = [tablets EXCEPT ![h.extent].state = "HOSTED"]
    /\ UNCHANGED <<held, newest, manager, newestManager, byTable, nextAttempt, attempts, loaded>>

LoadFailed(h) ==
    /\ h.id \notin loaded
    /\ Transition(h, "LOADING")
    /\ Release(h.extent)
    /\ UNCHANGED <<held, newest, manager, newestManager, nextAttempt, attempts, loaded>>

UnloadComplete(h) ==
    /\ Transition(h, "UNLOADING")
    /\ Release(h.extent)
    /\ UNCHANGED <<held, newest, manager, newestManager, nextAttempt, attempts, loaded>>

Next ==
    \/ \E lock \in ServerLocks : AdoptLock(lock)
    \/ \E lock \in ServerLocks : LoseLock(lock)
    \/ \E lock \in ManagerLocks : ObserveManagerLock(lock)
    \/ ClearManagerLock
    \/ \E fence \in Fences, e \in Extents : Assign(fence, e)
    \/ \E fence \in Fences, e \in Extents : UnassignImmediate(fence, e)
    \/ \E fence \in Fences, e \in Extents : UnassignGraceful(fence, e)
    \/ \E h \in attempts : BackendLoads(h)
    \/ \E h \in attempts : LoadComplete(h)
    \/ \E h \in attempts : LoadFailed(h)
    \/ \E h \in attempts : UnloadComplete(h)

Spec == Init /\ [][Next]_vars

----------------------------------------------------------------------------
(* Properties.                                                             *)

\* Assign refuses an extent that shares rows with a tracked one, through the
\* two-neighbour check of overlapping: tracked tablets never overlap.
TrackedDisjoint ==
    \A e, f \in Tracked : e # f => ~Overlaps(e, f)

\* The two-neighbour check of overlapping gives the answer a scan of every
\* tracked tablet would give, whatever was tracked and released before.
OverlapCheckExact ==
    \A e \in Extents : Validate(e) =>
        (Overlapping(byTable[e.table], e) <=> \E f \in Tracked : Overlaps(f, e))

\* A tablet is published as HOSTED only after the load of that very assignment
\* finished: a late LoadComplete of an earlier assignment of the same extent,
\* under the same lock, never publishes a later one.
HostedWasLoaded ==
    \A e \in Tracked : tablets[e].state = "HOSTED" => tablets[e].attempt \in loaded

\* Nothing is claimed across a lock loss: every tracked tablet was assigned
\* under the ServiceLock generation that is held now.
ClaimsUnderHeldLock ==
    \A e \in Tracked :
        [extent |-> e, lock |-> held, id |-> tablets[e].attempt] \in attempts

\* Once a generation of the server lock was adopted, no other generation that
\* does not supersede it is ever held, even after both were lost.
GenerationsOnlyAdvance ==
    \A l1, l2 \in ServerLocks :
        (l1 # l2 /\ ~Supersedes(l1, l2)) => [](held = l2 => [](held # l1))

\* Once a manager was observed, an older one never regains authority, although
\* the observation may be cleared and a lagging ZooKeeper replica read again.
SupersededManagerNeverReturns ==
    \A m1, m2 \in ManagerLocks :
        Supersedes(m2, m1) => [](manager = m2 => [](manager # m1))

\* The assignment a handle names is the one the host tracks.
Live(h) == h.extent \in Tracked /\ tablets[h.extent].attempt = h.id

\* An assignment that ended never comes back to life: no step makes the host
\* track an attempt minted earlier, so completions cannot act on a later
\* assignment of the same extent.
AttemptNeverRevived ==
    [][\A h \in attempts : Live(h)' => Live(h)]_vars

----------------------------------------------------------------------------
(* The inductive invariant behind the safety properties (HostingProofs).   *)

Has(entries, e) == \E k \in 1..Len(entries) : entries[k] = e

Sorted(entries) ==
    \A i, j \in 1..Len(entries) : i < j => LowerBelow(entries[i].prev, entries[j].prev)

\* Each table's index holds exactly its tracked extents, in strict range order.
IndexInv ==
    /\ \A t \in Tables : Sorted(byTable[t])
    /\ \A t \in Tables : \A k \in 1..Len(byTable[t]) :
          byTable[t][k].table = t /\ byTable[t][k] \in Tracked
    /\ \A e \in Tracked : Validate(e) /\ Has(byTable[e.table], e)

\* The lock held is the newest one adopted; likewise the manager observed.
NewestInv ==
    /\ held \in {NoLock, newest}
    /\ manager \in {NoLock, newestManager}

\* Attempt numbers are handed out in order and never twice.
AttemptInv ==
    /\ \A h \in attempts : h.id < nextAttempt
    /\ \A g, h \in attempts : g.id = h.id => g = h

Inv ==
    /\ TypeOK
    /\ IndexInv
    /\ TrackedDisjoint
    /\ NewestInv
    /\ AttemptInv
    /\ ClaimsUnderHeldLock
    /\ HostedWasLoaded

----------------------------------------------------------------------------
(* Refinement.                                                             *)

Claims == {[extent |-> e, id |-> tablets[e].attempt, state |-> tablets[e].state] : e \in Tracked}

Contract == INSTANCE HostingContract
    WITH generation <- held, newestSeen <- newest, claims <- Claims, minted <- nextAttempt - 1

\* Host keeps the promise HostingContract states: its maps and its range index
\* implement disjoint, numbered claims under one forward-moving generation.
ImplementsContract == Contract!ContractSpec

=============================================================================
