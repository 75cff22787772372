---------------------------- MODULE ServiceLock ----------------------------
(***************************************************************************)
(* The ZooKeeper lock a tablet server registers with (tserver.ServiceLock) *)
(* and what Participate does around it: queue for the lock with a          *)
(* sequential ephemeral node, host tablets while it is held, and give it   *)
(* back.  A candidate is one ServiceLock of one process, used once; a      *)
(* process that rejoins is another candidate.                              *)
(*                                                                         *)
(* Every read of ZooKeeper is a step of its own, so what a candidate acts  *)
(* on may be stale.  A watch fires once, when the node it was set on goes  *)
(* or the session ends; taking the event is a later step.                  *)
(***************************************************************************)
EXTENDS Integers, FiniteSets, FiniteSetsExt

CONSTANTS Candidates,
          Watchers,          \* goroutines in Maintain; Main is Participate's
          Main,
          NoNode,
          Faults, MaxFaults  \* fault classes that may happen, and how often; failing
                             \* deletes are not counted

FaultClasses == {"lost", "duplicate", "read", "delete", "expire", "operator",
                 "recreate", "cancel", "release", "touch", "refuse"}

ASSUME LockAssumption ==
    /\ IsFiniteSet(Candidates) /\ IsFiniteSet(Watchers) /\ Main \in Watchers
    /\ Faults \subseteq FaultClasses /\ MaxFaults \in Nat
    /\ NoNode \notin [owner : Candidates, seq : Nat]

VARIABLES
    dir,        \* lock nodes in the directory
    counter,    \* next sequence number of the directory
    sessions,   \* candidates whose ZooKeeper session is alive
    step,       \* candidate -> what Participate is doing
    lock,       \* candidate -> the ServiceLock's fields
    queue,      \* candidate -> listing and watches of queueForOwnership
    watching,   \* candidate -> watcher -> where its Maintain is
    releasing,  \* candidate -> the Release of another goroutine
    hosting,    \* candidates whose Host has adopted the lock
    cancelled,  \* candidates whose context was cancelled
    clean,      \* candidates whose sweep ended without an error
    taken,      \* candidates whose node was taken from outside
    faults

zkVars == <<dir, counter, sessions>>
lockVars == <<lock, queue, watching>>
ghostVars == <<clean, taken>>
vars == <<zkVars, step, lockVars, releasing, hosting, cancelled, ghostVars, faults>>

Node == [owner : Candidates, seq : Nat]
NoWatch == [node |-> NoNode, live |-> FALSE]
Watch == [node : Node \cup {NoNode}, live : BOOLEAN]
Reasons == {"none", "RELEASED", "NODE_DELETED", "SUPERSEDED", "UNMONITORABLE"}
Steps == {"create", "replay", "list", "collapse", "decide", "watch", "ahead", "wait", "handover",
          "cleanup", "failed", "adopt", "maintain", "unhost", "release", "sweep", "done"}

\* Types; a lock that is held has a node and no reason for its loss.
TypeOK ==
    /\ dir \subseteq Node /\ counter \in Nat /\ sessions \subseteq Candidates
    /\ step \in [Candidates -> Steps]
    /\ lock \in [Candidates -> [node : Node \cup {NoNode}, held : BOOLEAN, reason : Reasons,
                                released : BOOLEAN, watch : Watch]]
    /\ \A c \in Candidates :
         /\ lock[c].held => lock[c].node # NoNode /\ lock[c].reason = "none"
         /\ queue[c].view \subseteq Node
         /\ queue[c].mine \in Watch /\ queue[c].ahead \in Watch
    /\ watching \in [Candidates -> [Watchers -> {"off", "arming", "parked", "stale", "returned"}]]
    /\ releasing \in [Candidates -> {"none", "sweep", "done"}]
    /\ hosting \subseteq Candidates /\ cancelled \subseteq Candidates
    /\ clean \subseteq Candidates /\ taken \subseteq Candidates /\ faults \in 0..MaxFaults

Init ==
    /\ dir = {} /\ counter = 0 /\ sessions = Candidates
    /\ step = [c \in Candidates |-> "create"]
    /\ lock = [c \in Candidates |-> [node |-> NoNode, held |-> FALSE, reason |-> "none",
                                     released |-> FALSE, watch |-> NoWatch]]
    /\ queue = [c \in Candidates |-> [view |-> {}, mine |-> NoWatch, ahead |-> NoWatch]]
    /\ watching = [c \in Candidates |-> [w \in Watchers |-> "off"]]
    /\ releasing = [c \in Candidates |-> "none"] /\ hosting = {} /\ cancelled = {}
    /\ clean = {} /\ taken = {} /\ faults = 0

Fault(class) ==
    /\ class \in Faults /\ faults < MaxFaults
    /\ faults' = faults + 1

DeleteFails == "delete" \in Faults /\ UNCHANGED faults

----------------------------------------------------------------------------
(* Nodes, watches and the end of a generation.                             *)

Own(c, S) == {n \in S : n.owner = c}
Lower(n, S) == {m \in S : m.seq < n.seq}
LowestOf(S) == CHOOSE n \in S : Lower(n, S) = {}

\* watchNode: a watch is set only on a node that is there.
Armed(n) == [node |-> n, live |-> n \in dir]
Fired(c, w) == w.node # NoNode /\ (c \notin sessions \/ (w.live /\ w.node \notin dir))

\* findLowestPrevPrefix: back from the node just ahead, the lowest of the run of
\* nodes with its owner.
FindLowestPrevPrefix(n, S) ==
    LET previous == CHOOSE m \in Lower(n, S) : \A k \in Lower(n, S) : k.seq <= m.seq
        run == {m \in Lower(n, S) : \A k \in Lower(n, S) : k.seq >= m.seq => k.owner = previous.owner}
    IN LowestOf(run)

LostAsNoted(l, reason) ==
    [l EXCEPT !.reason = IF @ = "none" THEN reason ELSE @]

\* lose: the first ending is the one that is kept.
Lost(l, reason) ==
    [l EXCEPT !.held = FALSE, !.reason = IF @ = "none" THEN reason ELSE @]

\* sweep: every node with this lock's prefix; a delete that fails leaves its node, and
\* without a session nothing can be listed.
Sweep(c) ==
    \/ /\ c \notin sessions /\ UNCHANGED <<dir, clean, faults>>
    \/ /\ c \in sessions /\ dir' = dir \ Own(c, dir) /\ clean' = clean \cup {c}
       /\ UNCHANGED faults
    \/ /\ Own(c, dir) # {} /\ DeleteFails
       /\ \E kept \in SUBSET Own(c, dir) \ {{}} : dir' = (dir \ Own(c, dir)) \cup kept
       /\ UNCHANGED clean

\* A read fails when the session is gone, or by a fault.
ReadFails(c) ==
    \/ c \notin sessions /\ UNCHANGED faults
    \/ c \in sessions /\ Fault("read")
ReadWorks(c) == c \in sessions /\ UNCHANGED faults

GoTo(c, s) == step' = [step EXCEPT ![c] = s]

----------------------------------------------------------------------------
(* Acquire.                                                                *)

NewNode(c) == [owner |-> c, seq |-> counter]

\* What one create may come to: an answer, an answer that is lost with or without the
\* node, or a request the client library sends again after the node was made.
Creating(c) ==
    \/ /\ dir' = dir \cup {NewNode(c)} /\ counter' = counter + 1 /\ GoTo(c, "list")
       /\ UNCHANGED faults
    \/ /\ Fault("lost") /\ GoTo(c, "cleanup")
       /\ \/ dir' = dir \cup {NewNode(c)} /\ counter' = counter + 1
          \/ UNCHANGED <<dir, counter>>
    \/ /\ Fault("duplicate") /\ Own(c, dir) = {}
       /\ dir' = dir \cup {NewNode(c)} /\ counter' = counter + 1 /\ GoTo(c, "replay")

CreateAsUnchecked(c) ==
    /\ step[c] = "create" /\ c \in sessions
    /\ Creating(c)
    /\ UNCHANGED <<sessions, lockVars, releasing, hosting, cancelled, ghostVars>>

\* createNode, refused after a Release.
Create(c) ==
    /\ step[c] = "create" /\ c \in sessions /\ ~lock[c].released
    /\ Creating(c)
    /\ UNCHANGED <<sessions, lockVars, releasing, hosting, cancelled, ghostVars>>

Replay(c) ==
    /\ step[c] = "replay" /\ c \in sessions
    /\ dir' = dir \cup {NewNode(c)} /\ counter' = counter + 1 /\ GoTo(c, "list")
    /\ UNCHANGED <<sessions, lockVars, releasing, hosting, cancelled, ghostVars, faults>>

CreateFails(c) ==
    /\ \/ step[c] = "create" /\ lock[c].released /\ GoTo(c, "failed")
       \/ step[c] \in {"create", "replay"} /\ c \notin sessions /\ GoTo(c, "cleanup")
    /\ UNCHANGED <<zkVars, lockVars, releasing, hosting, cancelled, ghostVars, faults>>

List(c) ==
    /\ step[c] = "list"
    /\ \/ /\ ReadWorks(c)
          /\ queue' = [queue EXCEPT ![c].view = dir, ![c].ahead = NoWatch]
          /\ GoTo(c, IF lock[c].node = NoNode THEN "collapse" ELSE "decide")
       \/ ReadFails(c) /\ GoTo(c, "cleanup") /\ UNCHANGED queue
    /\ UNCHANGED <<zkVars, lock, watching, releasing, hosting, cancelled, ghostVars>>

\* The first pass keeps the node that entered the queue first and drops the rest.
Collapse(c) ==
    LET ours == Own(c, queue[c].view)
        node == LowestOf(ours)
        duplicates == ours \ {node}
    IN /\ step[c] = "collapse"
       /\ IF ours = {}
          THEN GoTo(c, "cleanup") /\ UNCHANGED <<dir, lock, queue, faults>>
          ELSE /\ lock' = [lock EXCEPT ![c].node = node]
               /\ queue' = [queue EXCEPT ![c].view = @ \ duplicates]
               /\ \/ dir' = dir \ duplicates /\ GoTo(c, "decide") /\ UNCHANGED faults
                  \/ /\ duplicates # {} /\ DeleteFails /\ GoTo(c, "cleanup")
                     /\ \E kept \in SUBSET duplicates \ {{}} : dir' = dir \ (duplicates \ kept)
       /\ UNCHANGED <<counter, sessions, watching, releasing, hosting, cancelled, ghostVars>>

\* The turn has come when no node of the listing is lower.
FirstInLineAsWoken(c) ==
    \/ Lower(lock[c].node, queue[c].view) = {}
    \/ Cardinality(Lower(lock[c].node, queue[c].view)) = 1

FirstInLine(c) == Lower(lock[c].node, queue[c].view) = {}

\* acquired: the generation is held, unless it was released or nobody waits for it.
Decide(c) ==
    /\ step[c] = "decide"
    /\ IF lock[c].node \notin queue[c].view
       THEN GoTo(c, "cleanup") /\ UNCHANGED lock
       ELSE IF ~FirstInLine(c) THEN GoTo(c, "watch") /\ UNCHANGED lock
       ELSE IF c \in cancelled \/ lock[c].released THEN GoTo(c, "cleanup") /\ UNCHANGED lock
       ELSE /\ lock' = [lock EXCEPT ![c].held = TRUE, ![c].reason = "none"]
            /\ GoTo(c, "handover")
    /\ UNCHANGED <<zkVars, queue, watching, releasing, hosting, cancelled, ghostVars, faults>>

\* The watch on the own node is kept from pass to pass until it fires.
WatchMine(c) ==
    /\ step[c] = "watch"
    /\ \/ /\ queue[c].mine # NoWatch
          /\ GoTo(c, "ahead") /\ UNCHANGED <<queue, faults>>
       \/ /\ queue[c].mine = NoWatch /\ ReadWorks(c)
          /\ IF lock[c].node \in dir
             THEN queue' = [queue EXCEPT ![c].mine = Armed(lock[c].node)] /\ GoTo(c, "ahead")
             ELSE GoTo(c, "cleanup") /\ UNCHANGED queue
       \/ /\ queue[c].mine = NoWatch /\ ReadFails(c)
          /\ GoTo(c, "cleanup") /\ UNCHANGED queue
    /\ UNCHANGED <<zkVars, lock, watching, releasing, hosting, cancelled, ghostVars>>

Abandoned(c) == c \in cancelled \/ lock[c].released

WatchAheadAsExistence(c) ==
    LET ahead == FindLowestPrevPrefix(lock[c].node, queue[c].view)
    IN /\ step[c] = "ahead"
       /\ \/ Abandoned(c) /\ GoTo(c, "cleanup") /\ UNCHANGED <<queue, faults>>
          \/ /\ ~Abandoned(c) /\ ReadWorks(c)
             /\ queue' = [queue EXCEPT ![c].ahead = Armed(ahead)] /\ GoTo(c, "wait")
          \/ ~Abandoned(c) /\ ReadFails(c) /\ GoTo(c, "cleanup") /\ UNCHANGED queue
       /\ UNCHANGED <<zkVars, lock, watching, releasing, hosting, cancelled, ghostVars>>

\* A node ahead that left since the listing is not waited for: list again.
WatchAhead(c) ==
    LET ahead == FindLowestPrevPrefix(lock[c].node, queue[c].view)
    IN /\ step[c] = "ahead"
       /\ \/ Abandoned(c) /\ GoTo(c, "cleanup") /\ UNCHANGED <<queue, faults>>
          \/ /\ ~Abandoned(c) /\ ReadWorks(c)
             /\ IF ahead \in dir
                THEN queue' = [queue EXCEPT ![c].ahead = Armed(ahead)] /\ GoTo(c, "wait")
                ELSE GoTo(c, "list") /\ UNCHANGED queue
          \/ ~Abandoned(c) /\ ReadFails(c) /\ GoTo(c, "cleanup") /\ UNCHANGED queue
       /\ UNCHANGED <<zkVars, lock, watching, releasing, hosting, cancelled, ghostVars>>

Wake(c) ==
    /\ step[c] = "wait"
    /\ \/ Abandoned(c) /\ GoTo(c, "cleanup") /\ UNCHANGED queue
       \/ /\ Fired(c, queue[c].mine)
          /\ queue' = [queue EXCEPT ![c].mine = NoWatch] /\ GoTo(c, "list")
       \/ Fired(c, queue[c].ahead) /\ GoTo(c, "list") /\ UNCHANGED queue
    /\ UNCHANGED <<zkVars, lock, watching, releasing, hosting, cancelled, ghostVars, faults>>

\* adoptWatch, and waitForOwnership's last look at a release that came in between.
Handover(c) ==
    /\ step[c] = "handover"
    /\ lock' = [lock EXCEPT ![c].watch = IF @ = NoWatch THEN queue[c].mine ELSE @]
    /\ queue' = [queue EXCEPT ![c].mine = NoWatch]
    /\ GoTo(c, IF lock[c].released THEN "cleanup" ELSE "adopt")
    /\ UNCHANGED <<zkVars, watching, releasing, hosting, cancelled, ghostVars, faults>>

\* withCleanup: an acquisition that fails sweeps what it created.
CleanUp(c) ==
    /\ step[c] = "cleanup"
    /\ Sweep(c) /\ GoTo(c, "failed")
    /\ UNCHANGED <<counter, sessions, lockVars, releasing, hosting, cancelled, taken>>

----------------------------------------------------------------------------
(* Participate, Maintain, Verify and Release.                              *)

AdoptLock(c) ==
    /\ step[c] = "adopt"
    /\ \/ /\ hosting' = hosting \cup {c} /\ GoTo(c, "maintain")
          /\ watching' = [watching EXCEPT ![c][Main] = "arming"]
          /\ UNCHANGED faults
       \/ /\ Fault("refuse") /\ GoTo(c, "release")
          /\ UNCHANGED <<hosting, watching>>
    /\ UNCHANGED <<zkVars, lock, queue, releasing, cancelled, ghostVars>>

\* Another goroutine watches the same lock.
WatchToo(c, w) ==
    /\ w # Main /\ watching[c][w] = "off" /\ lock[c].held
    /\ watching' = [watching EXCEPT ![c][w] = "arming"]
    /\ UNCHANGED <<zkVars, step, lock, queue, releasing, hosting, cancelled, ghostVars, faults>>

Returns(c, w) == watching' = [watching EXCEPT ![c][w] = "returned"]
Gone(c) == lock[c].node \notin dir

ArmAsExistence(c, w) ==
    /\ watching[c][w] = "arming"
    /\ \/ /\ w = Main /\ c \in cancelled
          /\ Returns(c, w) /\ UNCHANGED <<lock, faults>>
       \/ /\ lock[c].watch # NoWatch /\ UNCHANGED <<lock, faults>>
          /\ watching' = [watching EXCEPT ![c][w] = "parked"]
       \/ /\ lock[c].watch = NoWatch /\ ReadWorks(c)
          /\ lock' = [lock EXCEPT ![c].watch = Armed(lock[c].node)]
          /\ watching' = [watching EXCEPT ![c][w] = "parked"]
       \/ /\ lock[c].watch = NoWatch /\ ReadFails(c)
          /\ lock' = [lock EXCEPT ![c] = Lost(@, "UNMONITORABLE")] /\ Returns(c, w)
    /\ UNCHANGED <<zkVars, step, queue, releasing, hosting, cancelled, ghostVars>>

\* armWatch: one watch for all watchers; a node that is gone, or cannot be
\* watched, ends the generation.
Arm(c, w) ==
    /\ watching[c][w] = "arming"
    /\ \/ /\ w = Main /\ c \in cancelled
          /\ Returns(c, w) /\ UNCHANGED <<lock, faults>>
       \/ /\ lock[c].watch # NoWatch /\ UNCHANGED <<lock, faults>>
          /\ watching' = [watching EXCEPT ![c][w] = "parked"]
       \/ /\ lock[c].watch = NoWatch /\ ReadWorks(c)
          /\ IF Gone(c)
             THEN lock' = [lock EXCEPT ![c] = Lost(@, "NODE_DELETED")] /\ Returns(c, w)
             ELSE /\ lock' = [lock EXCEPT ![c].watch = Armed(lock[c].node)]
                  /\ watching' = [watching EXCEPT ![c][w] = "parked"]
       \/ /\ lock[c].watch = NoWatch /\ ReadFails(c)
          /\ lock' = [lock EXCEPT ![c] = Lost(@, "UNMONITORABLE")] /\ Returns(c, w)
    /\ UNCHANGED <<zkVars, step, queue, releasing, hosting, cancelled, ghostVars>>

\* The one watcher that takes the event closes the channel for the others.
Spend(c, w, then) ==
    watching' = [watching EXCEPT ![c] =
        [v \in Watchers |-> IF v = w THEN then ELSE IF @[v] = "parked" THEN "stale" ELSE @[v]]]

TakeEvent(c, w) ==
    /\ watching[c][w] = "parked" /\ Fired(c, lock[c].watch)
    /\ lock' = [lock EXCEPT ![c] = Lost([@ EXCEPT !.watch = NoWatch],
                                        IF c \in sessions THEN "NODE_DELETED" ELSE "UNMONITORABLE")]
    /\ Spend(c, w, "returned")
    /\ UNCHANGED <<zkVars, step, queue, releasing, hosting, cancelled, ghostVars, faults>>

\* An event that is no loss, such as a change of the node's data.
TakeOther(c, w) ==
    /\ watching[c][w] = "parked" /\ lock[c].watch.live /\ ~Fired(c, lock[c].watch)
    /\ Fault("touch")
    /\ lock' = [lock EXCEPT ![c].watch = NoWatch]
    /\ Spend(c, w, "arming")
    /\ UNCHANGED <<zkVars, step, queue, releasing, hosting, cancelled, ghostVars>>

TakeClosed(c, w) ==
    /\ watching[c][w] = "stale"
    /\ watching' = [watching EXCEPT ![c][w] = "arming"]
    /\ UNCHANGED <<zkVars, step, lock, queue, releasing, hosting, cancelled, ghostVars, faults>>

SeeEndAsContext(c, w) ==
    /\ watching[c][w] \in {"parked", "stale"}
    /\ w = Main /\ c \in cancelled
    /\ Returns(c, w)
    /\ UNCHANGED <<zkVars, lock, step, queue, releasing, hosting, cancelled, ghostVars, faults>>

\* The release and done channels, and the caller's context.
SeeEnd(c, w) ==
    /\ watching[c][w] \in {"parked", "stale"}
    /\ lock[c].released \/ lock[c].reason # "none" \/ (w = Main /\ c \in cancelled)
    /\ lock' = IF lock[c].released THEN [lock EXCEPT ![c] = Lost(@, "RELEASED")] ELSE lock
    /\ Returns(c, w)
    /\ UNCHANGED <<zkVars, step, queue, releasing, hosting, cancelled, ghostVars, faults>>

\* The verification of a tick: the directory is read and the answer is checked
\* against an ending that came meanwhile.
Verify(c, w) ==
    /\ watching[c][w] = "parked" /\ lock[c].held
    /\ \/ /\ ReadWorks(c)
          /\ Lower(lock[c].node, dir) # {} \/ Gone(c)
          /\ lock' = [lock EXCEPT ![c] = Lost(@, IF Gone(c) THEN "NODE_DELETED" ELSE "SUPERSEDED")]
       \/ ReadFails(c) /\ lock' = [lock EXCEPT ![c] = Lost(@, "UNMONITORABLE")]
    /\ Returns(c, w)
    /\ UNCHANGED <<zkVars, step, queue, releasing, hosting, cancelled, ghostVars>>

\* Maintain returned: the Host loses the lock and its tablets are released.
LoseLockAsRelease(c) ==
    /\ step[c] = "maintain" /\ watching[c][Main] = "returned"
    /\ GoTo(c, "release")
    /\ UNCHANGED <<zkVars, lockVars, releasing, hosting, cancelled, ghostVars, faults>>

LoseLock(c) ==
    /\ step[c] = "maintain" /\ watching[c][Main] = "returned"
    /\ hosting' = hosting \ {c} /\ GoTo(c, "release")
    /\ UNCHANGED <<zkVars, lockVars, releasing, cancelled, ghostVars, faults>>

ReleasedAsQuiet(l) == [l EXCEPT !.released = TRUE]

\* Release records the ending before the nodes are deleted.
Released(l) == Lost([l EXCEPT !.released = TRUE], "RELEASED")

Release(c) ==
    /\ step[c] = "release"
    /\ lock' = [lock EXCEPT ![c] = Released(@)] /\ GoTo(c, "sweep")
    /\ UNCHANGED <<zkVars, queue, watching, releasing, hosting, cancelled, ghostVars, faults>>

ReleaseSweep(c) ==
    /\ step[c] = "sweep"
    /\ Sweep(c) /\ GoTo(c, "done")
    /\ UNCHANGED <<counter, sessions, lockVars, releasing, hosting, cancelled, taken>>

\* A Release from elsewhere: a shutdown path, or a goroutine that outlived its lock.
OtherRelease(c) ==
    /\ ~lock[c].released
    /\ Fault("release")
    /\ lock' = [lock EXCEPT ![c] = Released(@)]
    /\ releasing' = [releasing EXCEPT ![c] = "sweep"]
    /\ UNCHANGED <<zkVars, step, queue, watching, hosting, cancelled, ghostVars>>

\* createMu: the sweep waits for a create under way.
OtherReleaseSweep(c) ==
    /\ releasing[c] = "sweep" /\ step[c] # "replay"
    /\ Sweep(c)
    /\ releasing' = [releasing EXCEPT ![c] = "done"]
    /\ UNCHANGED <<counter, sessions, step, lockVars, hosting, cancelled, taken>>

----------------------------------------------------------------------------
(* What happens outside the process.                                       *)

Cancel(c) ==
    /\ c \notin cancelled /\ Fault("cancel")
    /\ cancelled' = cancelled \cup {c}
    /\ UNCHANGED <<zkVars, step, lockVars, releasing, hosting, ghostVars>>

Expire(c) ==
    /\ c \in sessions /\ Fault("expire")
    /\ sessions' = sessions \ {c} /\ dir' = dir \ Own(c, dir) /\ taken' = taken \cup {c}
    /\ UNCHANGED <<counter, step, lockVars, releasing, hosting, cancelled, clean>>

OperatorDeletes(n) ==
    /\ n \in dir /\ Fault("operator")
    /\ dir' = dir \ {n} /\ taken' = taken \cup {n.owner}
    /\ UNCHANGED <<counter, sessions, step, lockVars, releasing, hosting, cancelled, clean>>

\* The directory is deleted and created again: the numbers start over.
Recreate ==
    /\ dir # {} /\ Fault("recreate")
    /\ dir' = {} /\ counter' = 0 /\ taken' = taken \cup {n.owner : n \in dir}
    /\ UNCHANGED <<sessions, step, lockVars, releasing, hosting, cancelled, clean>>

AcquireNext(c) ==
    \/ Create(c) \/ Replay(c) \/ CreateFails(c) \/ List(c) \/ Collapse(c) \/ Decide(c)
    \/ WatchMine(c) \/ WatchAhead(c) \/ Wake(c) \/ Handover(c) \/ CleanUp(c)
ParticipateNext(c) == AdoptLock(c) \/ LoseLock(c) \/ Release(c) \/ ReleaseSweep(c) \/ OtherReleaseSweep(c)
MaintainNext(c, w) == Arm(c, w) \/ TakeEvent(c, w) \/ TakeClosed(c, w) \/ SeeEnd(c, w)
OutsideNext ==
    \/ \E c \in Candidates : OtherRelease(c) \/ Cancel(c) \/ Expire(c)
    \/ \E c \in Candidates, w \in Watchers : WatchToo(c, w) \/ TakeOther(c, w) \/ Verify(c, w)
    \/ (\E n \in dir : OperatorDeletes(n)) \/ Recreate

Next ==
    \/ \E c \in Candidates : AcquireNext(c) \/ ParticipateNext(c)
    \/ \E c \in Candidates, w \in Watchers : MaintainNext(c, w)
    \/ OutsideNext

\* The goroutines run and ZooKeeper answers and delivers events; nothing is assumed
\* of the verify timer, which may be off.
Fairness ==
    /\ \A c \in Candidates : WF_vars(AcquireNext(c)) /\ WF_vars(ParticipateNext(c))
    /\ \A c \in Candidates, w \in Watchers : WF_vars(MaintainNext(c, w))

Spec == Init /\ [][Next]_vars /\ Fairness

----------------------------------------------------------------------------
(* Properties.                                                             *)

\* The lock is held by the lowest node, the one the manager reads as the holder: a
\* candidate that holds it and still has its node has nobody in front of it, so two
\* servers never hold it at once with their nodes in place.
HolderIsLowest ==
    \A c \in Candidates :
        lock[c].held /\ lock[c].node \in dir => Lower(lock[c].node, dir) = {}

\* A release, or a failed acquisition, that reports no orphan leaves no node behind,
\* and none comes later from a create that was under way.
SweptLeavesNothing == \A c \in clean : Own(c, dir) = {}

\* A server that hosts tablets has its node in the directory, so the manager sees it
\* as alive, unless the node was taken from outside or somebody else released the lock:
\* Participate stops hosting before it gives the node up.
HostingHasNode ==
    \A c \in hosting \ taken : lock[c].node \in dir \/ releasing[c] # "none"

\* A deliberate end is never remembered as an outside deletion, whichever of the
\* watchers and the releases gets there first.
EndingNamed == \A c \in Candidates : lock[c].reason = "NODE_DELETED" => c \in taken

\* No wakeup is lost: a candidate waits only while somebody is in front of it.
WaitEnds ==
    \A c \in Candidates :
        (step[c] = "wait" /\ Lower(lock[c].node, dir) = {}) ~> step[c] # "wait"

\* A server whose node is gone, whose session is over, or whose generation was ended
\* by a release or a verification, stops hosting.
LossEndsHosting ==
    \A c \in Candidates :
        (c \in hosting /\ (c \notin sessions \/ lock[c].node \notin dir \/ lock[c].reason # "none"))
            ~> c \notin hosting

\* Every further watcher of a generation that ended returns, whoever took the event.
WatchersReturn ==
    \A c \in Candidates, w \in Watchers \ {Main} :
        (watching[c][w] \in {"parked", "stale"} /\ lock[c].reason # "none")
            ~> watching[c][w] = "returned"
=============================================================================
