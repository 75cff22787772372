------------------------- MODULE ServiceLockProofs -------------------------
(***************************************************************************)
(* What ServiceLock promises, proved for any number of candidates and of   *)
(* watchers and any number of faults.                                      *)
(*                                                                         *)
(* A candidate decides on a listing that may be old.  What makes the       *)
(* decision sound is that numbers only grow while a node stays: as long as *)
(* a candidate's own node is in the directory, everything in front of it   *)
(* was in front of it in the listing (ViewInv).  A recreated directory     *)
(* starts the numbers over, but takes every node with it, and a candidate  *)
(* that has listed once creates no further node, so its old node never     *)
(* comes back.                                                             *)
(***************************************************************************)
EXTENDS ServiceLock, WellFoundedInduction, TLAPS

Locks == [node : Node \cup {NoNode}, held : BOOLEAN, reason : Reasons, released : BOOLEAN,
          watch : Watch]
Queues == [view : SUBSET Node, mine : Watch, ahead : Watch]
WatcherStates == {"off", "arming", "parked", "stale", "returned"}

Before == {"create", "replay"}                       \* may still make a node
Holding == {"handover", "adopt", "maintain", "release"}
InLine == {"list", "decide", "watch", "ahead", "wait"} \cup Holding

TypeInv == TypeOK /\ queue \in [Candidates -> Queues]

\* A node is numbered below the counter, so a new node is the last.
NumberedInv == \A n \in dir : n.seq < counter

\* The node a candidate queues with is its own, and is chosen after its last create.
NodeInv(c) ==
    /\ lock[c].node # NoNode => lock[c].node.owner = c
    /\ step[c] \in Before => lock[c].node = NoNode /\ queue[c].view = {}
    /\ step[c] = "collapse" => lock[c].node = NoNode
    /\ step[c] \in InLine \ {"list"} => lock[c].node # NoNode

\* A listing has everything in front of an own node that is still there.
ViewInv(c) == \A n \in Own(c, dir) : n \in queue[c].view => Lower(n, dir) \subseteq queue[c].view

\* HolderIsLowest, for one candidate.
LowestInv(c) == lock[c].held /\ lock[c].node \in dir => Lower(lock[c].node, dir) = {}

\* A candidate that was swept makes no further node.
CleanInv(c) == c \in clean => /\ Own(c, dir) = {} /\ step[c] # "replay"
                              /\ step[c] = "create" => lock[c].released

\* A release is on record before its sweep, and only a holder or a released lock is watched.
ReleaseInv(c) ==
    /\ releasing[c] # "none" => lock[c].released
    /\ lock[c].released => /\ lock[c].reason # "none"
                           /\ releasing[c] # "none" \/ step[c] \in {"sweep", "done"}
    /\ lock[c].held \/ (\E w \in Watchers : watching[c][w] # "off")
          => lock[c].released \/ step[c] \in Holding
    /\ c \in hosting => step[c] = "maintain"

\* Watches are on the own node.
WatchInv(c) == queue[c].mine.node \in {NoNode, lock[c].node} /\ lock[c].watch.node \in {NoNode, lock[c].node}

\* Nobody but a release of this lock, or the outside, takes a node that is queued with.
KeptInv(c) ==
    c \notin taken /\ ~lock[c].released =>
        /\ step[c] \in InLine /\ lock[c].node # NoNode => lock[c].node \in dir
        /\ step[c] = "collapse" => Own(c, queue[c].view) \subseteq dir

CandidateInv(c) ==
    /\ NodeInv(c) /\ ViewInv(c) /\ LowestInv(c) /\ CleanInv(c) /\ ReleaseInv(c) /\ WatchInv(c) /\ KeptInv(c)
    /\ lock[c].reason = "NODE_DELETED" => c \in taken

Inv == TypeInv /\ NumberedInv /\ \A c \in Candidates : CandidateInv(c)
----------------------------------------------------------------------------
(* The lowest of some nodes, and endings.                                  *)

\* A set of nodes has a lowest node, because its numbers are natural numbers.
LEMMA LowestExists ==
    ASSUME NEW S \in SUBSET Node, S # {}
    PROVE  LowestOf(S) \in S /\ Lower(LowestOf(S), S) = {}
<1>. DEFINE seqs == {n.seq : n \in S}
<1>1. seqs \subseteq Nat /\ seqs # {}
  BY DEF Node
<1>2. PICK k \in seqs : \A j \in seqs : ~(<<j, k>> \in OpToRel(<, Nat))
  BY <1>1, NatLessThanWellFounded, WFMin
<1>3. \A j \in seqs : ~(j < k)
  BY <1>1, <1>2 DEF OpToRel
<1>4. PICK n \in S : n.seq = k
  OBVIOUS
<1>5. Lower(n, S) = {}
  BY <1>3, <1>4 DEF Lower
<1>. QED  BY <1>5 DEF LowestOf

\* The first ending is kept and nothing else is touched.
LEMMA LostIs ==
    ASSUME NEW l \in Locks, NEW reason \in Reasons \ {"none"}
    PROVE  /\ Lost(l, reason) \in Locks /\ ~Lost(l, reason).held
           /\ Lost(l, reason).reason = (IF l.reason = "none" THEN reason ELSE l.reason)
           /\ Lost(l, reason).node = l.node /\ Lost(l, reason).released = l.released
           /\ Lost(l, reason).watch = l.watch
BY DEF Lost, Locks

\* A release ends the generation too.
LEMMA ReleasedIs ==
    ASSUME NEW l \in Locks
    PROVE  /\ Released(l) \in Locks /\ ~Released(l).held /\ Released(l).released
           /\ Released(l).reason = (IF l.reason = "none" THEN "RELEASED" ELSE l.reason)
           /\ Released(l).node = l.node /\ Released(l).watch = l.watch
BY DEF Released, Lost, Locks, Reasons

\* What is to be shown of a lock that changes.
LEMMA LockType ==
    ASSUME TypeInv, lock' \in [Candidates -> Locks], NEW c \in Candidates,
           \A d \in Candidates \ {c} : lock'[d] = lock[d],
           lock'[c].held => lock'[c].node # NoNode /\ lock'[c].reason = "none",
           dir' \subseteq Node, counter' \in Nat, sessions' \subseteq Candidates,
           step' \in [Candidates -> Steps], queue' \in [Candidates -> Queues],
           watching' \in [Candidates -> [Watchers -> WatcherStates]],
           releasing' \in [Candidates -> {"none", "sweep", "done"}],
           UNCHANGED <<hosting, cancelled, clean, taken>>, faults' \in 0..MaxFaults
    PROVE  TypeInv'
<1>1. \A d \in Candidates :
          /\ lock'[d].held => lock'[d].node # NoNode /\ lock'[d].reason = "none"
          /\ queue'[d].view \subseteq Node /\ queue'[d].mine \in Watch /\ queue'[d].ahead \in Watch
  BY DEF TypeInv, TypeOK, Queues
<1>2. lock' \in [Candidates -> [node : Node \cup {NoNode}, held : BOOLEAN, reason : Reasons,
                                released : BOOLEAN, watch : Watch]]
  BY DEF Locks
<1>3. hosting' \subseteq Candidates /\ cancelled' \subseteq Candidates /\ clean' \subseteq Candidates
      /\ taken' \subseteq Candidates
  BY DEF TypeInv, TypeOK
<1>4. TypeOK'
  BY <1>1, <1>2, <1>3 DEF TypeOK, WatcherStates
<1>. QED  BY <1>4 DEF TypeInv

----------------------------------------------------------------------------
(* A step of one candidate, seen by the others.                            *)

\* Nothing of d changes but that its node may be taken from outside.
Same(d) ==
    /\ step'[d] = step[d] /\ lock'[d] = lock[d] /\ queue'[d] = queue[d]
    /\ watching'[d] = watching[d] /\ releasing'[d] = releasing[d]
    /\ (d \in hosting' => d \in hosting) /\ (d \in clean' => d \in clean)

\* The directory may lose nodes, d's only if they are taken, and new nodes come last.
DirStep(d) ==
    /\ Own(d, dir') \subseteq Own(d, dir) /\ (d \in taken' \/ Own(d, dir) \subseteq dir')
    /\ \A n \in dir' : n \in dir \/ (n.seq \in Nat /\ n.seq >= counter)
    /\ taken \subseteq taken'

\* Whatever the others and the outside do, the invariant of d holds.
LEMMA SameInv ==
    ASSUME Inv, NEW d \in Candidates, Same(d), DirStep(d)
    PROVE  CandidateInv(d)'
<1>1. /\ CandidateInv(d) /\ dir \subseteq Node /\ counter \in Nat
      /\ \A n \in dir : n.seq < counter /\ n.seq \in Nat
  BY DEF Inv, TypeInv, TypeOK, NumberedInv, Node
<1>2. \A n \in Own(d, dir') : n \in Own(d, dir) /\ Lower(n, dir') \subseteq Lower(n, dir)
  BY <1>1 DEF DirStep, Own, Lower
<1>3. NodeInv(d)' /\ WatchInv(d)' /\ CleanInv(d)' /\ ReleaseInv(d)'
  BY <1>1, <1>2 DEF CandidateInv, Same, DirStep, NodeInv, WatchInv, CleanInv, ReleaseInv
<1>4. ViewInv(d)'
  BY <1>1, <1>2 DEF CandidateInv, Same, ViewInv
<1>5. LowestInv(d)'
  <2>. SUFFICES ASSUME lock'[d].held, lock'[d].node \in dir'
                PROVE  Lower(lock'[d].node, dir') = {}
    BY DEF LowestInv
  <2>1. lock[d].node # NoNode
    BY DEF Inv, TypeInv, TypeOK, Same
  <2>2. lock[d].node \in Own(d, dir')
    BY <1>1, <2>1 DEF CandidateInv, NodeInv, Own, Same
  <2>. QED  BY <1>1, <1>2, <2>2 DEF CandidateInv, LowestInv, Same, Own
<1>6. KeptInv(d)'
  BY <1>1 DEF CandidateInv, KeptInv, NodeInv, Same, DirStep, Own
<1>. QED  BY <1>1, <1>3, <1>4, <1>5, <1>6 DEF CandidateInv, Same, DirStep

\* So a step of c only has to be looked at for c.
LEMMA OneCandidate ==
    ASSUME Inv, NEW c \in Candidates, TypeInv', NumberedInv', CandidateInv(c)',
           \A d \in Candidates \ {c} : Same(d) /\ DirStep(d)
    PROVE  Inv'
BY SameInv DEF Inv

\* A step of c that leaves the directory alone.
Quiet(c) ==
    /\ UNCHANGED <<dir, counter, taken, clean>>
    /\ \A d \in Candidates \ {c} : Same(d)

\* Likewise where the directory stays as it is.
LEMMA QuietInv ==
    ASSUME Inv, NEW c \in Candidates, TypeInv', Quiet(c), CandidateInv(c)'
    PROVE  Inv'
<1>1. \A d \in Candidates \ {c} : DirStep(d)
  BY DEF Quiet, DirStep, Own
<1>2. NumberedInv'
  BY DEF Inv, Quiet, NumberedInv
<1>. QED  BY <1>1, <1>2, OneCandidate DEF Quiet

----------------------------------------------------------------------------
(* Acquire.                                                                *)

\* A step that moves c and at most changes its watches.
LEMMA GoesInv ==
    ASSUME Inv, NEW c \in Candidates, NEW s \in Steps, GoTo(c, s), faults' \in 0..MaxFaults,
           UNCHANGED <<zkVars, lock, watching, releasing, hosting, cancelled, ghostVars>>,
           /\ queue' \in [Candidates -> Queues] /\ queue'[c].view = queue[c].view
           /\ queue'[c].mine.node \in {NoNode, lock[c].node}
           /\ \A d \in Candidates \ {c} : queue'[d] = queue[d],
           /\ s \notin Before \cup {"collapse"} /\ c \notin hosting
           /\ s \in InLine => step[c] \in InLine \ {"list"}
           /\ step[c] \in Holding => s \in Holding \/ lock[c].released
           /\ step[c] \notin {"sweep", "done"}
    PROVE  Inv'
<1>. USE DEF zkVars, ghostVars
<1>1. TypeInv' /\ step'[c] = s /\ \A d \in Candidates \ {c} : step'[d] = step[d]
  BY DEF Inv, TypeInv, TypeOK, GoTo, Queues
<1>2. Quiet(c)
  BY <1>1 DEF Quiet, Same
<1>3. CandidateInv(c)'
  <2>1. ViewInv(c)' /\ LowestInv(c)' /\ WatchInv(c)'
    BY DEF Inv, CandidateInv, ViewInv, LowestInv, WatchInv
  <2>2. NodeInv(c)' /\ CleanInv(c)'
    BY <1>1 DEF Inv, CandidateInv, NodeInv, CleanInv, InLine, Before
  <2>3. ReleaseInv(c)'
    BY <1>1 DEF Inv, CandidateInv, ReleaseInv
  <2>4. KeptInv(c)'
    BY <1>1 DEF Inv, CandidateInv, KeptInv
  <2>. QED  BY <2>1, <2>2, <2>3, <2>4 DEF Inv, CandidateInv
<1>. QED  BY <1>1, <1>2, <1>3, QuietInv

\* Faults stay within their bound.
LEMMA FaultBound ==
    ASSUME Inv
    PROVE  /\ faults \in 0..MaxFaults
           /\ \A class : Fault(class) => faults' \in 0..MaxFaults
BY LockAssumption DEF Inv, TypeInv, TypeOK, Fault

\* A node that is new comes last: it is nobody's listing and below nothing.
LEMMA NewNodeInv ==
    ASSUME Inv, NEW c \in Candidates, step[c] \in Before, step[c] = "create" => ~lock[c].released,
           dir' = dir \cup {NewNode(c)}, counter' = counter + 1, faults' \in 0..MaxFaults,
           NEW s \in {"list", "cleanup", "replay"}, GoTo(c, s), s = "replay" => step[c] = "create",
           UNCHANGED <<sessions, lockVars, releasing, hosting, cancelled, ghostVars>>
    PROVE  Inv'
<1>. USE DEF lockVars, ghostVars
<1>1. /\ NewNode(c) \in Node /\ NewNode(c).owner = c /\ NewNode(c).seq = counter
      /\ dir \subseteq Node /\ counter \in Nat /\ dir' \subseteq Node /\ counter' \in Nat
  BY DEF Inv, TypeInv, TypeOK, NewNode, Node
<1>2. TypeInv' /\ step'[c] = s /\ \A d \in Candidates \ {c} : step'[d] = step[d]
  BY <1>1 DEF Inv, TypeInv, TypeOK, GoTo, Steps
<1>3. NumberedInv'
  BY <1>1 DEF Inv, NumberedInv, Node
<1>4. \A d \in Candidates \ {c} : Same(d) /\ DirStep(d)
  BY <1>1, <1>2 DEF Same, DirStep, Own
<1>5. /\ queue'[c].view = {} /\ lock'[c] = lock[c] /\ lock[c].node = NoNode /\ ~lock[c].held
      /\ c \notin clean /\ c \notin hosting /\ CandidateInv(c)
  BY DEF Inv, TypeInv, TypeOK, CandidateInv, NodeInv, CleanInv, ReleaseInv, Before, lockVars
<1>6. NodeInv(c)' /\ ViewInv(c)' /\ LowestInv(c)' /\ CleanInv(c)' /\ WatchInv(c)' /\ KeptInv(c)'
  <2>1. NodeInv(c)' /\ KeptInv(c)'
    BY <1>2, <1>5 DEF NodeInv, KeptInv, InLine, Holding, Before
  <2>2. ViewInv(c)' /\ LowestInv(c)' /\ CleanInv(c)' /\ WatchInv(c)'
    BY <1>5 DEF CandidateInv, ViewInv, LowestInv, CleanInv, WatchInv
  <2>. QED  BY <2>1, <2>2
<1>7. ReleaseInv(c)'
  BY <1>2, <1>5 DEF CandidateInv, ReleaseInv, Holding, Before
<1>8. CandidateInv(c)'
  BY <1>5, <1>6, <1>7 DEF CandidateInv
<1>. QED  BY <1>2, <1>3, <1>4, <1>8, OneCandidate

\* createNode, answered, lost, repeated or refused.
LEMMA CreateInv ==
    ASSUME Inv, NEW c \in Candidates, Create(c) \/ Replay(c) \/ CreateFails(c)
    PROVE  Inv'
<1>1. faults \in 0..MaxFaults /\ \A class : Fault(class) => faults' \in 0..MaxFaults
  BY FaultBound
<1>2. queue \in [Candidates -> Queues] /\ c \in Candidates /\ CandidateInv(c)
  BY DEF Inv, TypeInv
<1>3. \A s \in {"failed", "cleanup"} :
          step[c] \in Before /\ GoTo(c, s) /\ faults' \in 0..MaxFaults
          /\ UNCHANGED <<zkVars, lockVars, releasing, hosting, cancelled, ghostVars>> => Inv'
  BY <1>2, GoesInv DEF lockVars, CandidateInv, WatchInv, ReleaseInv, Before, InLine, Holding, Steps
<1>4. CASE Create(c)
  BY <1>1, <1>3, <1>4, NewNodeInv DEF Create, Creating, Before, zkVars
<1>5. CASE Replay(c)
  BY <1>1, <1>5, NewNodeInv DEF Replay, Before
<1>6. CASE CreateFails(c)
  BY <1>1, <1>3, <1>6 DEF CreateFails, Before
<1>. QED  BY <1>4, <1>5, <1>6

\* A listing is the directory as it is.
LEMMA ListInv ==
    ASSUME Inv, NEW c \in Candidates, List(c)
    PROVE  Inv'
<1>. USE DEF zkVars, ghostVars
<1>1. faults' \in 0..MaxFaults
  BY FaultBound DEF List, ReadWorks, ReadFails
<1>2. queue \in [Candidates -> Queues] /\ CandidateInv(c) /\ dir \subseteq Node /\ step[c] = "list"
  BY DEF Inv, TypeInv, TypeOK, List
<1>3. CASE ReadFails(c) /\ GoTo(c, "cleanup") /\ UNCHANGED queue
  BY <1>1, <1>2, <1>3, GoesInv DEF List, CandidateInv, WatchInv, ReleaseInv, Before, InLine, Holding, Steps
<1>4. CASE /\ queue' = [queue EXCEPT ![c].view = dir, ![c].ahead = NoWatch]
           /\ GoTo(c, IF lock[c].node = NoNode THEN "collapse" ELSE "decide")
  <2>1. /\ queue' \in [Candidates -> Queues] /\ queue'[c].view = dir
        /\ queue'[c].mine = queue[c].mine /\ \A d \in Candidates \ {c} : queue'[d] = queue[d]
    BY <1>2, <1>4 DEF Queues, NoWatch, Watch
  <2>2. /\ step' \in [Candidates -> Steps]
        /\ step'[c] = (IF lock[c].node = NoNode THEN "collapse" ELSE "decide")
        /\ \A d \in Candidates \ {c} : step'[d] = step[d]
    BY <1>4 DEF Inv, TypeInv, TypeOK, GoTo, Steps
  <2>3. TypeInv'
    BY <1>1, <2>1, <2>2 DEF Inv, TypeInv, TypeOK, List, Queues
  <2>4. Quiet(c)
    BY <2>1, <2>2 DEF List, Quiet, Same
  <2>5. ViewInv(c)' /\ LowestInv(c)' /\ WatchInv(c)'
    BY <1>2, <2>1 DEF List, CandidateInv, ViewInv, LowestInv, WatchInv, Lower
  <2>6. NodeInv(c)' /\ CleanInv(c)' /\ ReleaseInv(c)'
    BY <1>2, <2>2 DEF List, CandidateInv, NodeInv, CleanInv, ReleaseInv, Before, InLine, Holding
  <2>7. KeptInv(c)'
    BY <1>2, <2>1, <2>2 DEF List, CandidateInv, KeptInv, InLine, Own
  <2>8. CandidateInv(c)'
    BY <1>2, <2>5, <2>6, <2>7 DEF List, CandidateInv
  <2>. QED  BY <2>3, <2>4, <2>8, QuietInv
<1>. QED  BY <1>3, <1>4 DEF List

\* The node that is kept is the lowest own node, so dropping the others changes
\* nothing in front of it.
LEMMA CollapseInv ==
    ASSUME Inv, NEW c \in Candidates, Collapse(c)
    PROVE  Inv'
<1>. DEFINE ours == Own(c, queue[c].view)
            node == LowestOf(ours)
            duplicates == ours \ {node}
<1>. USE DEF ghostVars
<1>1. /\ faults' \in 0..MaxFaults /\ step[c] = "collapse" /\ CandidateInv(c)
      /\ queue \in [Candidates -> Queues] /\ lock \in [Candidates -> Locks] /\ step \in [Candidates -> Steps]
      /\ dir \subseteq Node /\ ours \subseteq Node
      /\ lock[c].node = NoNode /\ ~lock[c].held /\ c \notin hosting
      /\ UNCHANGED <<counter, sessions, watching, releasing, hosting, cancelled, ghostVars>>
  BY FaultBound DEF Inv, TypeInv, TypeOK, Locks, Queues, Collapse, DeleteFails, CandidateInv, NodeInv,
                    ReleaseInv, Own
<1>2. CASE ours = {}
  <2>1. GoTo(c, "cleanup") /\ UNCHANGED <<dir, lock, queue, faults>>
    BY <1>2 DEF Collapse
  <2>. QED  BY <1>1, <2>1, GoesInv DEF zkVars, CandidateInv, WatchInv, ReleaseInv, Before, InLine, Holding, Steps
<1>3. CASE ours # {}
  <2>1. node \in ours /\ node \in Node /\ node.owner = c /\ node # NoNode /\ Lower(node, ours) = {}
    BY <1>1, <1>3, LowestExists, LockAssumption DEF Own, Node
  <2>2. /\ lock' = [lock EXCEPT ![c].node = node] /\ queue' = [queue EXCEPT ![c].view = @ \ duplicates]
        /\ \/ dir' = dir \ duplicates /\ GoTo(c, "decide")
           \/ GoTo(c, "cleanup") /\ \E kept \in SUBSET duplicates : dir' = dir \ (duplicates \ kept)
    BY <1>3 DEF Collapse
  <2>3. /\ dir' \subseteq dir /\ dir \ duplicates \subseteq dir'
        /\ step'[c] \in {"decide", "cleanup"} /\ \A d \in Candidates \ {c} : step'[d] = step[d]
        /\ step' \in [Candidates -> Steps]
    BY <1>1, <2>2 DEF GoTo, Steps
  <2>. HIDE DEF node
  <2>4. /\ lock' \in [Candidates -> Locks] /\ lock'[c].node = node /\ lock'[c].held = lock[c].held
        /\ lock'[c].reason = lock[c].reason /\ lock'[c].released = lock[c].released
        /\ lock'[c].watch = lock[c].watch /\ \A d \in Candidates \ {c} : lock'[d] = lock[d]
    BY <1>1, <2>1, <2>2 DEF Locks
  <2>. HIDE DEF duplicates
  <2>5. /\ queue' \in [Candidates -> Queues] /\ queue'[c].view = queue[c].view \ duplicates
        /\ queue'[c].mine = queue[c].mine /\ \A d \in Candidates \ {c} : queue'[d] = queue[d]
    BY <1>1, <2>2 DEF Queues
  <2>. USE DEF duplicates
  <2>6. TypeInv'
    BY <1>1, <2>3, <2>4, <2>5, LockType DEF Inv, TypeInv, TypeOK, WatcherStates
  <2>7. NumberedInv'
    BY <1>1, <2>3 DEF Inv, NumberedInv
  <2>8. \A d \in Candidates \ {c} : Same(d) /\ DirStep(d)
    BY <1>1, <2>3, <2>4, <2>5 DEF Same, DirStep, Own
  <2>9. NodeInv(c)' /\ WatchInv(c)' /\ CleanInv(c)' /\ LowestInv(c)'
    <3>1. NodeInv(c)' /\ LowestInv(c)'
      BY <1>1, <2>1, <2>3, <2>4 DEF NodeInv, LowestInv, Before
    <3>2. WatchInv(c)'
      BY <1>1, <2>4, <2>5 DEF CandidateInv, WatchInv
    <3>3. CleanInv(c)'
      BY <1>1, <2>3 DEF CandidateInv, CleanInv, Own
    <3>. QED  BY <3>1, <3>2, <3>3
  <2>10. ReleaseInv(c)'
    BY <1>1, <2>3, <2>4 DEF CandidateInv, ReleaseInv, Holding
  <2>11. KeptInv(c)'
    BY <1>1, <2>1, <2>3, <2>4 DEF CandidateInv, KeptInv, NodeInv, Own
  <2>12. ViewInv(c)'
    <3>. SUFFICES ASSUME NEW n \in Own(c, dir'), n \in queue'[c].view, NEW m \in Lower(n, dir')
                  PROVE  m \in queue'[c].view
      BY DEF ViewInv
    <3>1. n = node /\ n \in Own(c, dir) /\ m \in Lower(n, dir)
      BY <2>1, <2>3, <2>5 DEF Own, Lower
    <3>2. m \in queue[c].view
      BY <1>1, <2>1, <3>1 DEF CandidateInv, ViewInv, Own
    <3>3. m \notin ours
      BY <2>1, <3>1 DEF Lower
    <3>. QED  BY <2>5, <3>2, <3>3
  <2>13. CandidateInv(c)'
    BY <1>1, <2>4, <2>9, <2>10, <2>11, <2>12 DEF CandidateInv
  <2>. QED  BY <2>6, <2>7, <2>8, <2>13, OneCandidate
<1>. QED  BY <1>2, <1>3

\* The turn has come: the listing has nothing in front of the node, so neither has
\* the directory.
LEMMA DecideInv ==
    ASSUME Inv, NEW c \in Candidates, Decide(c)
    PROVE  Inv'
<1>. USE DEF zkVars, ghostVars
<1>1. /\ faults' \in 0..MaxFaults /\ step[c] = "decide" /\ CandidateInv(c) /\ c \notin hosting
      /\ queue \in [Candidates -> Queues] /\ lock \in [Candidates -> Locks] /\ step \in [Candidates -> Steps]
      /\ lock[c].node # NoNode /\ lock[c].node.owner = c /\ dir \subseteq Node
      /\ UNCHANGED <<zkVars, queue, watching, releasing, hosting, cancelled, ghostVars>>
  BY FaultBound DEF Inv, TypeInv, TypeOK, Locks, Decide, CandidateInv, NodeInv, ReleaseInv, InLine
<1>2. CASE UNCHANGED lock
  BY <1>1, <1>2, GoesInv DEF Decide, CandidateInv, WatchInv, Before, InLine, Holding, Steps
<1>3. CASE /\ lock[c].node \in queue[c].view /\ FirstInLine(c) /\ ~lock[c].released
           /\ lock' = [lock EXCEPT ![c].held = TRUE, ![c].reason = "none"] /\ GoTo(c, "handover")
  <2>1. /\ lock' \in [Candidates -> Locks] /\ lock'[c].node = lock[c].node /\ lock'[c].held
        /\ lock'[c].reason = "none" /\ lock'[c].released = lock[c].released
        /\ lock'[c].watch = lock[c].watch /\ \A d \in Candidates \ {c} : lock'[d] = lock[d]
    BY <1>1, <1>3 DEF Locks, Reasons
  <2>2. /\ step' \in [Candidates -> Steps] /\ step'[c] = "handover"
        /\ \A d \in Candidates \ {c} : step'[d] = step[d]
    BY <1>1, <1>3 DEF GoTo, Steps
  <2>3. TypeInv'
    BY <1>1, <2>1, <2>2, LockType DEF Inv, TypeInv, TypeOK, WatcherStates
  <2>4. Quiet(c)
    BY <1>1, <2>1, <2>2 DEF Quiet, Same
  <2>5. LowestInv(c)'
    <3>1. lock[c].node \in dir => Lower(lock[c].node, dir) \subseteq Lower(lock[c].node, queue[c].view)
      BY <1>1, <1>3 DEF CandidateInv, ViewInv, Own, Lower
    <3>. QED  BY <1>1, <1>3, <2>1, <3>1 DEF LowestInv, FirstInLine
  <2>6. ViewInv(c)' /\ WatchInv(c)' /\ CleanInv(c)'
    BY <1>1, <2>1, <2>2 DEF CandidateInv, ViewInv, WatchInv, CleanInv
  <2>7. NodeInv(c)' /\ KeptInv(c)' /\ ReleaseInv(c)'
    <3>1. NodeInv(c)'
      BY <1>1, <2>1, <2>2 DEF NodeInv, Before
    <3>2. KeptInv(c)'
      BY <1>1, <2>1, <2>2 DEF CandidateInv, KeptInv, InLine
    <3>3. ReleaseInv(c)'
      BY <1>1, <1>3, <2>1, <2>2 DEF CandidateInv, ReleaseInv, Holding
    <3>. QED  BY <3>1, <3>2, <3>3
  <2>8. CandidateInv(c)'
    BY <1>1, <2>1, <2>5, <2>6, <2>7 DEF CandidateInv
  <2>. QED  BY <2>3, <2>4, <2>8, QuietInv
<1>. QED  BY <1>2, <1>3 DEF Decide

\* Setting a watch, and waking up.
LEMMA WaitingInv ==
    ASSUME Inv, NEW c \in Candidates, WatchMine(c) \/ WatchAhead(c) \/ Wake(c)
    PROVE  Inv'
<1>1. /\ faults' \in 0..MaxFaults /\ step[c] \in {"watch", "ahead", "wait"} /\ CandidateInv(c)
      /\ queue \in [Candidates -> Queues] /\ lock[c].node \in Node /\ dir \subseteq Node
      /\ UNCHANGED <<zkVars, lock, watching, releasing, hosting, cancelled, ghostVars>>
  BY FaultBound DEF Inv, TypeInv, TypeOK, WatchMine, WatchAhead, Wake, ReadWorks, ReadFails,
                    CandidateInv, NodeInv, InLine
<1>2. /\ c \notin hosting /\ queue[c].mine.node \in {NoNode, lock[c].node}
      /\ step[c] \in InLine \ {"list"} /\ step[c] \notin Holding \cup {"sweep", "done"}
  BY <1>1 DEF CandidateInv, ReleaseInv, WatchInv, InLine, Holding
<1>3. ASSUME NEW s \in {"ahead", "wait", "list", "cleanup"}, GoTo(c, s),
             queue' \in [Candidates -> Queues], queue'[c].view = queue[c].view,
             queue'[c].mine.node \in {NoNode, lock[c].node},
             \A d \in Candidates \ {c} : queue'[d] = queue[d]
      PROVE  Inv'
  BY <1>1, <1>2, <1>3, GoesInv DEF Steps, Before
<1>4. CASE UNCHANGED queue
  BY <1>1, <1>2, <1>3, <1>4 DEF WatchMine, WatchAhead, Wake
<1>5. ASSUME NEW w \in Watch, w.node \in {NoNode, lock[c].node}, NEW s \in {"ahead", "list"},
             queue' = [queue EXCEPT ![c].mine = w], GoTo(c, s)
      PROVE  Inv'
  <2>1. /\ queue' \in [Candidates -> Queues] /\ queue'[c].view = queue[c].view
        /\ queue'[c].mine = w /\ \A d \in Candidates \ {c} : queue'[d] = queue[d]
    BY <1>1, <1>5 DEF Queues
  <2>. QED  BY <1>3, <1>5, <2>1
<1>6. ASSUME NEW n \in dir, queue' = [queue EXCEPT ![c].ahead = Armed(n)], GoTo(c, "wait")
      PROVE  Inv'
  <2>1. PICK w \in Watch : w = Armed(n)
    BY <1>1, <1>6 DEF Armed, Watch
  <2>2. /\ queue' \in [Candidates -> Queues] /\ queue'[c].view = queue[c].view
        /\ queue'[c].mine = queue[c].mine /\ \A d \in Candidates \ {c} : queue'[d] = queue[d]
    BY <1>1, <1>6, <2>1 DEF Queues
  <2>. QED  BY <1>2, <1>3, <1>6, <2>2
<1>7. Armed(lock[c].node) \in Watch /\ Armed(lock[c].node).node = lock[c].node
      /\ NoWatch \in Watch /\ NoWatch.node = NoNode
  BY <1>1 DEF Armed, Watch, NoWatch
<1>8. CASE WatchMine(c) /\ queue' # queue
  BY <1>5, <1>7, <1>8 DEF WatchMine
<1>9. CASE WatchAhead(c) /\ queue' # queue
  BY <1>6, <1>9 DEF WatchAhead
<1>10. CASE Wake(c) /\ queue' # queue
  BY <1>5, <1>7, <1>10 DEF Wake
<1>. QED  BY <1>4, <1>8, <1>9, <1>10

\* The lock takes over the watch of the queue.
LEMMA HandoverInv ==
    ASSUME Inv, NEW c \in Candidates, Handover(c)
    PROVE  Inv'
<1>. USE DEF zkVars, ghostVars
<1>1. /\ faults' \in 0..MaxFaults /\ step[c] = "handover" /\ CandidateInv(c) /\ c \notin hosting
      /\ queue \in [Candidates -> Queues] /\ lock \in [Candidates -> Locks] /\ step \in [Candidates -> Steps]
      /\ UNCHANGED <<zkVars, watching, releasing, hosting, cancelled, ghostVars>>
  BY FaultBound DEF Inv, TypeInv, TypeOK, Locks, Handover, CandidateInv, ReleaseInv
<1>2. PICK w \in Watch : /\ lock' = [lock EXCEPT ![c].watch = w]
                         /\ w.node \in {NoNode, lock[c].node}
  <2>1. queue[c].mine \in Watch /\ lock[c].watch \in Watch
    BY <1>1 DEF Queues, Locks
  <2>2. /\ queue[c].mine.node \in {NoNode, lock[c].node} /\ lock[c].watch.node \in {NoNode, lock[c].node}
    BY <1>1 DEF CandidateInv, WatchInv
  <2>. QED  BY <2>1, <2>2 DEF Handover
<1>3. /\ lock' \in [Candidates -> Locks] /\ lock'[c].node = lock[c].node /\ lock'[c].held = lock[c].held
      /\ lock'[c].reason = lock[c].reason /\ lock'[c].released = lock[c].released
      /\ lock'[c].watch = w /\ \A d \in Candidates \ {c} : lock'[d] = lock[d]
  BY <1>1, <1>2 DEF Locks
<1>4. /\ queue' \in [Candidates -> Queues] /\ queue'[c].view = queue[c].view
      /\ queue'[c].mine.node = NoNode /\ \A d \in Candidates \ {c} : queue'[d] = queue[d]
  BY <1>1 DEF Handover, Queues, NoWatch, Watch
<1>5. /\ step' \in [Candidates -> Steps] /\ step'[c] = (IF lock[c].released THEN "cleanup" ELSE "adopt")
      /\ \A d \in Candidates \ {c} : step'[d] = step[d]
  BY <1>1 DEF Handover, GoTo, Steps
<1>6. TypeInv'
  <2>1. lock'[c].held => lock'[c].node # NoNode /\ lock'[c].reason = "none"
    BY <1>3 DEF Inv, TypeInv, TypeOK
  <2>2. dir \subseteq Node /\ counter \in Nat /\ sessions \subseteq Candidates
        /\ watching \in [Candidates -> [Watchers -> WatcherStates]]
        /\ releasing \in [Candidates -> {"none", "sweep", "done"}]
    BY DEF Inv, TypeInv, TypeOK, WatcherStates
  <2>. QED  BY <1>1, <1>3, <1>4, <1>5, <2>1, <2>2, LockType DEF Inv
<1>7. Quiet(c)
  BY <1>1, <1>3, <1>4, <1>5 DEF Quiet, Same
<1>8. ViewInv(c)' /\ LowestInv(c)' /\ CleanInv(c)' /\ WatchInv(c)'
  BY <1>1, <1>2, <1>3, <1>4, <1>5 DEF CandidateInv, ViewInv, LowestInv, CleanInv, WatchInv
<1>9. NodeInv(c)' /\ KeptInv(c)'
  BY <1>1, <1>3, <1>4, <1>5 DEF CandidateInv, NodeInv, KeptInv, InLine, Holding, Before
<1>10. ReleaseInv(c)'
  BY <1>1, <1>3, <1>5 DEF CandidateInv, ReleaseInv, Holding
<1>11. CandidateInv(c)'
  BY <1>1, <1>3, <1>8, <1>9, <1>10 DEF CandidateInv
<1>. QED  BY <1>6, <1>7, <1>11, QuietInv

\* A sweep takes own nodes only, and where it reports no orphan there is none left and
\* none can follow.
LEMMA SweepInv ==
    ASSUME Inv, NEW c \in Candidates, Sweep(c),
           NEW s \in Steps, step' = [step EXCEPT ![c] = s],
           releasing' \in [Candidates -> {"none", "sweep", "done"}],
           \A d \in Candidates \ {c} : releasing'[d] = releasing[d],
           UNCHANGED <<counter, sessions, lockVars, hosting, cancelled, taken>>,
           releasing'[c] # "none" <=> releasing[c] # "none",
           s \notin Before \/ (s = step[c] /\ s = "create" /\ lock[c].released),
           \/ s = step[c] /\ lock[c].released
           \/ /\ s \in {"failed", "done"} /\ step[c] \in {"cleanup", "sweep"}
              /\ step[c] = "sweep" => s = "done"
    PROVE  Inv'
<1>. USE DEF lockVars
<1>1. /\ faults' \in 0..MaxFaults /\ dir' \subseteq dir /\ (dir \ Own(c, dir)) \subseteq dir'
      /\ clean \subseteq clean' /\ clean' \subseteq clean \cup {c}
      /\ c \in clean' => c \in clean \/ Own(c, dir') = {}
  BY FaultBound DEF Sweep, DeleteFails, Own
<1>2. /\ CandidateInv(c) /\ step'[c] = s /\ \A d \in Candidates \ {c} : step'[d] = step[d]
      /\ step \in [Candidates -> Steps]
  BY DEF Inv, TypeInv, TypeOK
<1>3. TypeInv'
  BY <1>1, <1>2 DEF Inv, TypeInv, TypeOK
<1>4. NumberedInv'
  BY <1>1 DEF Inv, NumberedInv
<1>5. \A d \in Candidates \ {c} : Same(d) /\ DirStep(d)
  BY <1>1, <1>2 DEF Same, DirStep, Own
<1>6. ViewInv(c)' /\ LowestInv(c)' /\ WatchInv(c)'
  BY <1>1, <1>2 DEF CandidateInv, ViewInv, LowestInv, WatchInv, Own, Lower
<1>7. CleanInv(c)'
  BY <1>1, <1>2 DEF CandidateInv, CleanInv, Own, Before
<1>8. NodeInv(c)'
  BY <1>1, <1>2 DEF CandidateInv, NodeInv, Before, InLine, Holding
<1>9. ReleaseInv(c)'
  BY <1>1, <1>2 DEF CandidateInv, ReleaseInv, Holding
<1>10. KeptInv(c)'
  BY <1>1, <1>2 DEF CandidateInv, KeptInv, InLine, Holding
<1>11. CandidateInv(c)'
  BY <1>2, <1>6, <1>7, <1>8, <1>9, <1>10 DEF CandidateInv
<1>. QED  BY <1>3, <1>4, <1>5, <1>11, OneCandidate

\* The three places that sweep: the failed acquisition, Release, and a Release from elsewhere.
LEMMA SweepsInv ==
    ASSUME Inv, NEW c \in Candidates, CleanUp(c) \/ ReleaseSweep(c) \/ OtherReleaseSweep(c)
    PROVE  Inv'
<1>1. /\ step \in [Candidates -> Steps] /\ releasing \in [Candidates -> {"none", "sweep", "done"}]
      /\ CandidateInv(c) /\ lock[c].released \in BOOLEAN
  BY DEF Inv, TypeInv, TypeOK
<1>2. CASE CleanUp(c)
  BY <1>1, <1>2, SweepInv DEF CleanUp, GoTo, Steps, Before
<1>3. CASE ReleaseSweep(c)
  BY <1>1, <1>3, SweepInv DEF ReleaseSweep, GoTo, Steps, Before
<1>4. CASE OtherReleaseSweep(c)
  <2>1. lock[c].released /\ step' = [step EXCEPT ![c] = step[c]] /\ step[c] # "replay"
    BY <1>1, <1>4 DEF OtherReleaseSweep, CandidateInv, ReleaseInv
  <2>2. /\ releasing' \in [Candidates -> {"none", "sweep", "done"}] /\ releasing'[c] = "done"
        /\ \A d \in Candidates \ {c} : releasing'[d] = releasing[d] /\ releasing[c] = "sweep"
    BY <1>1, <1>4 DEF OtherReleaseSweep
  <2>. QED  BY <1>1, <1>4, <2>1, <2>2, SweepInv DEF OtherReleaseSweep, Before
<1>. QED  BY <1>2, <1>3, <1>4

----------------------------------------------------------------------------
(* Maintain.                                                               *)

\* A watcher that finds the node gone, in a generation that has not ended, finds what
\* the outside did.
LEMMA GoneIsTaken ==
    ASSUME Inv, NEW c \in Candidates, NEW w \in Watchers, watching[c][w] # "off",
           lock[c].reason = "none", lock[c].node \notin dir
    PROVE  c \in taken
<1>1. CandidateInv(c) /\ ~lock[c].released
  BY DEF Inv, CandidateInv, ReleaseInv
<1>2. step[c] \in Holding
  BY <1>1 DEF CandidateInv, ReleaseInv
<1>. QED  BY <1>1, <1>2 DEF CandidateInv, NodeInv, KeptInv, InLine, Holding

\* What a watcher may do to the lock.
LEMMA WatcherInv ==
    ASSUME Inv, NEW c \in Candidates, faults' \in 0..MaxFaults,
           UNCHANGED <<zkVars, step, queue, releasing, hosting, cancelled, ghostVars>>,
           watching' \in [Candidates -> [Watchers -> WatcherStates]],
           (\E w \in Watchers : watching'[c][w] # "off")
              => lock[c].held \/ (\E w \in Watchers : watching[c][w] # "off"),
           NEW l \in Locks, lock' = [lock EXCEPT ![c] = l],
           \A d \in Candidates \ {c} : watching'[d] = watching[d],
           l.node = lock[c].node, l.released = lock[c].released,
           l.watch.node \in {NoNode, lock[c].node}, l.held => lock[c].held /\ l.reason = "none",
           l.reason = "none" => lock[c].reason = "none",
           l.reason = "NODE_DELETED" => lock[c].reason = "NODE_DELETED" \/ c \in taken
    PROVE  Inv'
<1>. USE DEF zkVars, ghostVars
<1>1. /\ lock \in [Candidates -> Locks] /\ dir \subseteq Node /\ counter \in Nat /\ sessions \subseteq Candidates
      /\ step \in [Candidates -> Steps] /\ queue \in [Candidates -> Queues]
      /\ releasing \in [Candidates -> {"none", "sweep", "done"}] /\ CandidateInv(c)
      /\ lock[c].held => lock[c].node # NoNode
  BY DEF Inv, TypeInv, TypeOK, Locks
<1>2. /\ lock' \in [Candidates -> Locks] /\ lock'[c] = l /\ \A d \in Candidates \ {c} : lock'[d] = lock[d]
  BY <1>1
<1>3. TypeInv'
  BY <1>1, <1>2, LockType DEF Inv
<1>4. Quiet(c)
  BY <1>1, <1>2 DEF Quiet, Same
<1>5. NodeInv(c)' /\ ViewInv(c)' /\ LowestInv(c)' /\ CleanInv(c)'
  BY <1>1, <1>2 DEF CandidateInv, NodeInv, ViewInv, LowestInv, CleanInv
<1>6. WatchInv(c)' /\ KeptInv(c)'
  BY <1>1, <1>2 DEF CandidateInv, WatchInv, KeptInv
<1>7. ReleaseInv(c)'
  BY <1>1, <1>2 DEF CandidateInv, ReleaseInv
<1>8. CandidateInv(c)'
  BY <1>1, <1>2, <1>5, <1>6, <1>7 DEF CandidateInv
<1>. QED  BY <1>3, <1>4, <1>8, QuietInv

\* The steps of a watcher.
LEMMA MaintainInv ==
    ASSUME Inv, NEW c \in Candidates, NEW w \in Watchers,
           WatchToo(c, w) \/ Arm(c, w) \/ TakeEvent(c, w) \/ TakeOther(c, w) \/ TakeClosed(c, w)
           \/ SeeEnd(c, w) \/ Verify(c, w)
    PROVE  Inv'
<1>1. /\ faults' \in 0..MaxFaults /\ CandidateInv(c) /\ lock \in [Candidates -> Locks] /\ lock[c] \in Locks
      /\ watching \in [Candidates -> [Watchers -> WatcherStates]]
      /\ UNCHANGED <<zkVars, step, queue, releasing, hosting, cancelled, ghostVars>>
  BY FaultBound DEF Inv, TypeInv, TypeOK, Locks, WatcherStates, WatchToo, Arm, TakeEvent, TakeOther,
                    TakeClosed, SeeEnd, Verify, ReadWorks, ReadFails
<1>2. /\ watching' \in [Candidates -> [Watchers -> WatcherStates]]
      /\ \A d \in Candidates \ {c} : watching'[d] = watching[d]
      /\ watching[c][w] # "off" \/ lock[c].held
  <2>1. watching[c][w] # "off" \/ lock[c].held
    BY DEF WatchToo, Arm, TakeEvent, TakeOther, TakeClosed, SeeEnd, Verify
  <2>2. CASE \E s \in {"arming", "parked", "returned"} : watching' = [watching EXCEPT ![c][w] = s]
    BY <1>1, <2>1, <2>2 DEF WatcherStates
  <2>3. CASE \E s \in {"arming", "returned"} : Spend(c, w, s)
    <3>1. PICK s \in {"arming", "returned"} : Spend(c, w, s)
      BY <2>3
    <3>2. watching[c] \in [Watchers -> WatcherStates]
      BY <1>1
    <3>3. [v \in Watchers |-> IF v = w THEN s ELSE IF watching[c][v] = "parked" THEN "stale" ELSE watching[c][v]]
            \in [Watchers -> WatcherStates]
      BY <3>2 DEF WatcherStates
    <3>. QED  BY <1>1, <2>1, <3>1, <3>3 DEF Spend
  <2>. QED  BY <2>2, <2>3 DEF WatchToo, Arm, TakeEvent, TakeOther, TakeClosed, SeeEnd, Verify, Returns
<1>3. /\ lock[c].node \in Node \cup {NoNode} /\ lock[c].watch \in Watch
      /\ lock[c].watch.node \in {NoNode, lock[c].node} /\ (lock[c].held => lock[c].reason = "none")
      /\ NoWatch \in Watch /\ NoWatch.node = NoNode
  BY <1>1 DEF Inv, TypeInv, TypeOK, Locks, CandidateInv, WatchInv, NoWatch, Watch
<1>4. ASSUME NEW l \in Locks, lock' = [lock EXCEPT ![c] = l],
             l.node = lock[c].node, l.released = lock[c].released,
             l.watch.node \in {NoNode, lock[c].node}, l.held => lock[c].held /\ l.reason = "none",
             l.reason = "none" => lock[c].reason = "none",
             l.reason = "NODE_DELETED" => lock[c].reason = "NODE_DELETED" \/ c \in taken
      PROVE  Inv'
  BY <1>1, <1>2, <1>4, WatcherInv
<1>5. CASE UNCHANGED lock
  <2>1. PICK l \in Locks : l = lock[c] /\ lock' = [lock EXCEPT ![c] = l]
    BY <1>1, <1>5
  <2>. QED  BY <1>1, <1>3, <1>4, <2>1
<1>6. ASSUME NEW r \in Reasons \ {"none"}, lock' = [lock EXCEPT ![c] = Lost(@, r)],
             r = "NODE_DELETED" => watching[c][w] # "off" /\ lock[c].node \notin dir
      PROVE  Inv'
  <2>1. PICK l \in Locks : l = Lost(lock[c], r)
    BY <1>1, LostIs
  <2>2. /\ ~l.held /\ l.reason = (IF lock[c].reason = "none" THEN r ELSE lock[c].reason)
        /\ l.node = lock[c].node /\ l.released = lock[c].released /\ l.watch = lock[c].watch
    BY <1>1, <2>1, LostIs
  <2>3. lock' = [lock EXCEPT ![c] = l]
    BY <1>6, <2>1
  <2>4. r = "NODE_DELETED" /\ lock[c].reason = "none" => c \in taken
    BY <1>6, GoneIsTaken
  <2>. QED  BY <1>3, <1>4, <2>2, <2>3, <2>4
<1>7. ASSUME NEW x \in Watch, lock' = [lock EXCEPT ![c].watch = x], x.node \in {NoNode, lock[c].node}
      PROVE  Inv'
  <2>1. [lock[c] EXCEPT !.watch = x] \in Locks
    BY <1>1 DEF Locks
  <2>2. PICK l \in Locks : l = [lock[c] EXCEPT !.watch = x]
    BY <2>1, Zenon
  <2>3. /\ l.node = lock[c].node /\ l.released = lock[c].released /\ l.held = lock[c].held
        /\ l.reason = lock[c].reason /\ l.watch = x
    BY <1>1, <2>2 DEF Locks
  <2>4. lock' = [lock EXCEPT ![c] = l]
    BY <1>7, <2>2, Zenon
  <2>. QED  BY <1>3, <1>4, <1>7, <2>3, <2>4
<1>8. CASE Arm(c, w)
  <2>1. CASE lock[c].node \in dir /\ lock' = [lock EXCEPT ![c].watch = Armed(lock[c].node)]
    <3>1. Armed(lock[c].node) \in Watch /\ Armed(lock[c].node).node = lock[c].node
      BY <1>3 DEF Armed, Watch
    <3>. QED  BY <1>7, <2>1, <3>1
  <2>. QED  BY <1>5, <1>6, <1>8, <2>1 DEF Arm, Gone, Reasons
<1>9. CASE TakeEvent(c, w)
  <2>1. [lock[c] EXCEPT !.watch = NoWatch] \in Locks
    BY <1>1, <1>3 DEF Locks
  <2>2. PICK k \in Locks : k = [lock[c] EXCEPT !.watch = NoWatch]
    BY <2>1, Zenon
  <2>3. /\ k.node = lock[c].node /\ k.released = lock[c].released /\ k.reason = lock[c].reason
        /\ k.watch = NoWatch
    BY <1>1, <2>2 DEF Locks
  <2>4. PICK r \in {"NODE_DELETED", "UNMONITORABLE"} :
           lock' = [lock EXCEPT ![c] = Lost(k, r)] /\ (r = "NODE_DELETED" => c \in sessions)
    BY <1>9, <2>2, Zenon DEF TakeEvent
  <2>5. PICK l \in Locks : l = Lost(k, r)
    BY LostIs DEF Reasons
  <2>6. /\ ~l.held /\ l.reason = (IF lock[c].reason = "none" THEN r ELSE lock[c].reason)
        /\ l.node = lock[c].node /\ l.released = lock[c].released /\ l.watch = NoWatch
    BY <2>3, <2>5, LostIs DEF Reasons
  <2>7. r = "NODE_DELETED" /\ lock[c].reason = "none" => c \in taken
    <3>. SUFFICES ASSUME r = "NODE_DELETED", lock[c].reason = "none" PROVE c \in taken
      OBVIOUS
    <3>1. lock[c].watch.node # NoNode /\ lock[c].watch.node \notin dir
      BY <1>9, <2>4 DEF TakeEvent, Fired
    <3>. QED  BY <1>3, <1>9, <3>1, GoneIsTaken DEF TakeEvent
  <2>8. lock' = [lock EXCEPT ![c] = l]
    BY <2>4, <2>5
  <2>. QED  BY <1>3, <1>4, <2>6, <2>7, <2>8
<1>10. CASE TakeOther(c, w)
  BY <1>3, <1>7, <1>10 DEF TakeOther
<1>11. CASE SeeEnd(c, w)
  BY <1>5, <1>6, <1>11 DEF SeeEnd, Reasons
<1>12. CASE Verify(c, w)
  BY <1>6, <1>12 DEF Verify, Gone, Reasons
<1>13. CASE WatchToo(c, w) \/ TakeClosed(c, w)
  BY <1>5, <1>13 DEF WatchToo, TakeClosed
<1>. QED  BY <1>8, <1>9, <1>10, <1>11, <1>12, <1>13

----------------------------------------------------------------------------
(* Participate and Release.                                                *)

\* Hosting starts and ends.
LEMMA HostsInv ==
    ASSUME Inv, NEW c \in Candidates, AdoptLock(c) \/ LoseLock(c)
    PROVE  Inv'
<1>. USE DEF zkVars, ghostVars
<1>1. /\ faults' \in 0..MaxFaults /\ CandidateInv(c) /\ step \in [Candidates -> Steps]
      /\ watching \in [Candidates -> [Watchers -> WatcherStates]] /\ queue \in [Candidates -> Queues]
      /\ UNCHANGED <<zkVars, lock, queue, releasing, cancelled, ghostVars>>
  BY FaultBound DEF Inv, TypeInv, TypeOK, WatcherStates, AdoptLock, LoseLock, lockVars
<1>2. PICK s \in {"maintain", "release"} :
         /\ step' = [step EXCEPT ![c] = s] /\ step[c] \in {"adopt", "maintain"}
         /\ c \in hosting' => s = "maintain"
         /\ hosting' \subseteq Candidates
         /\ \A d \in Candidates \ {c} : d \in hosting' => d \in hosting
         /\ \/ UNCHANGED watching
            \/ watching' = [watching EXCEPT ![c][Main] = "arming"]
  BY <1>1 DEF AdoptLock, LoseLock, GoTo, lockVars, Inv, TypeInv, TypeOK, CandidateInv, ReleaseInv
<1>3. /\ step' \in [Candidates -> Steps] /\ step'[c] = s /\ \A d \in Candidates \ {c} : step'[d] = step[d]
      /\ watching' \in [Candidates -> [Watchers -> WatcherStates]]
      /\ \A d \in Candidates \ {c} : watching'[d] = watching[d]
  <2>1. Main \in Watchers /\ "arming" \in WatcherStates /\ s \in Steps
    BY LockAssumption DEF WatcherStates, Steps
  <2>2. /\ watching' \in [Candidates -> [Watchers -> WatcherStates]]
        /\ \A d \in Candidates \ {c} : watching'[d] = watching[d]
    <3>1. CASE UNCHANGED watching
      BY <1>1, <3>1
    <3>2. CASE watching' = [watching EXCEPT ![c][Main] = "arming"]
      <4>1. watching[c] \in [Watchers -> WatcherStates]
        BY <1>1
      <4>2. [watching[c] EXCEPT ![Main] = "arming"] \in [Watchers -> WatcherStates]
        BY <2>1, <4>1
      <4>. QED  BY <1>1, <3>2, <4>2
    <3>. QED  BY <1>2, <3>1, <3>2
  <2>3. step' \in [Candidates -> Steps] /\ step'[c] = s /\ \A d \in Candidates \ {c} : step'[d] = step[d]
    BY <1>1, <1>2, <2>1
  <2>. QED  BY <2>2, <2>3
<1>4. TypeInv'
  BY <1>1, <1>2, <1>3 DEF Inv, TypeInv, TypeOK, WatcherStates
<1>5. Quiet(c)
  BY <1>1, <1>2, <1>3 DEF Quiet, Same
<1>6. ViewInv(c)' /\ LowestInv(c)' /\ WatchInv(c)' /\ CleanInv(c)'
  BY <1>1, <1>2, <1>3 DEF CandidateInv, ViewInv, LowestInv, WatchInv, CleanInv
<1>7. NodeInv(c)' /\ KeptInv(c)'
  BY <1>1, <1>2, <1>3 DEF CandidateInv, NodeInv, KeptInv, Before, InLine, Holding
<1>8. ReleaseInv(c)'
  BY <1>1, <1>2, <1>3 DEF CandidateInv, ReleaseInv, Holding
<1>9. CandidateInv(c)'
  BY <1>1, <1>6, <1>7, <1>8 DEF CandidateInv
<1>. QED  BY <1>4, <1>5, <1>9, QuietInv

\* A release is recorded.
LEMMA ReleasesInv ==
    ASSUME Inv, NEW c \in Candidates, Release(c) \/ OtherRelease(c)
    PROVE  Inv'
<1>. USE DEF zkVars, ghostVars
<1>1. /\ faults' \in 0..MaxFaults /\ CandidateInv(c) /\ step \in [Candidates -> Steps]
      /\ lock \in [Candidates -> Locks] /\ queue \in [Candidates -> Queues]
      /\ releasing \in [Candidates -> {"none", "sweep", "done"}]
      /\ watching \in [Candidates -> [Watchers -> WatcherStates]]
      /\ dir \subseteq Node /\ counter \in Nat /\ sessions \subseteq Candidates
      /\ UNCHANGED <<zkVars, queue, watching, hosting, cancelled, ghostVars>>
  BY FaultBound DEF Inv, TypeInv, TypeOK, Locks, WatcherStates, Release, OtherRelease
<1>2. PICK l \in Locks : l = Released(lock[c]) /\ lock' = [lock EXCEPT ![c] = l]
  BY <1>1, ReleasedIs DEF Release, OtherRelease
<1>3. /\ ~l.held /\ l.released /\ l.node = lock[c].node /\ l.watch = lock[c].watch
      /\ l.reason = (IF lock[c].reason = "none" THEN "RELEASED" ELSE lock[c].reason)
  BY <1>1, <1>2, ReleasedIs
<1>4. /\ lock' \in [Candidates -> Locks] /\ lock'[c] = l /\ \A d \in Candidates \ {c} : lock'[d] = lock[d]
  BY <1>1, <1>2
<1>5. /\ step' \in [Candidates -> Steps] /\ releasing' \in [Candidates -> {"none", "sweep", "done"}]
      /\ \A d \in Candidates \ {c} : step'[d] = step[d] /\ releasing'[d] = releasing[d]
      /\ \/ step[c] = "release" /\ step'[c] = "sweep" /\ releasing'[c] = releasing[c]
         \/ step'[c] = step[c] /\ releasing'[c] = "sweep"
  BY <1>1 DEF Release, OtherRelease, GoTo, Steps
<1>6. TypeInv'
  BY <1>1, <1>3, <1>4, <1>5, LockType DEF Inv
<1>7. Quiet(c)
  BY <1>1, <1>4, <1>5 DEF Quiet, Same
<1>8. ViewInv(c)' /\ LowestInv(c)' /\ WatchInv(c)' /\ KeptInv(c)'
  BY <1>1, <1>3, <1>4 DEF CandidateInv, ViewInv, LowestInv, WatchInv, KeptInv
<1>9. NodeInv(c)' /\ CleanInv(c)'
  BY <1>1, <1>3, <1>4, <1>5 DEF CandidateInv, NodeInv, CleanInv, Before, InLine, Holding
<1>10. ReleaseInv(c)'
  BY <1>1, <1>3, <1>4, <1>5 DEF CandidateInv, ReleaseInv
<1>11. CandidateInv(c)'
  BY <1>1, <1>3, <1>4, <1>8, <1>9, <1>10 DEF CandidateInv
<1>. QED  BY <1>6, <1>7, <1>11, QuietInv

----------------------------------------------------------------------------
(* The outside.                                                            *)

\* Nodes go, numbers may start over with an empty directory, nobody's program moves.
LEMMA OutsideInv ==
    ASSUME Inv,
           \/ \E c \in Candidates : Cancel(c) \/ Expire(c)
           \/ (\E n \in dir : OperatorDeletes(n)) \/ Recreate
    PROVE  Inv'
<1>. USE DEF zkVars, lockVars, ghostVars
<1>1. /\ faults' \in 0..MaxFaults /\ dir \subseteq Node /\ counter \in Nat
      /\ UNCHANGED <<step, lock, queue, watching, releasing, hosting, clean>>
  BY FaultBound DEF Inv, TypeInv, TypeOK, Cancel, Expire, OperatorDeletes, Recreate
<1>2. /\ dir' \subseteq dir /\ taken \subseteq taken' /\ taken' \subseteq Candidates
      /\ sessions' \subseteq Candidates /\ cancelled' \subseteq Candidates
      /\ counter' = counter \/ (counter' = 0 /\ dir' = {})
      /\ \A n \in dir : n \in dir' \/ n.owner \in taken'
  BY <1>1 DEF Inv, TypeInv, TypeOK, Cancel, Expire, OperatorDeletes, Recreate, Own, Node
<1>3. TypeInv'
  BY <1>1, <1>2 DEF Inv, TypeInv, TypeOK
<1>4. NumberedInv'
  BY <1>1, <1>2 DEF Inv, NumberedInv
<1>5. ASSUME NEW d \in Candidates PROVE Same(d) /\ DirStep(d)
  BY <1>1, <1>2 DEF Same, DirStep, Own
<1>. QED  BY <1>3, <1>4, <1>5, SameInv DEF Inv

----------------------------------------------------------------------------
(* Theorems.                                                               *)

\* Every state the candidates, their watchers and the outside can reach satisfies the
\* inductive invariant, whatever fails and however often.
THEOREM Safety == Spec => []Inv
<1>1. Init => Inv
  <2>. SUFFICES ASSUME Init PROVE Inv
    OBVIOUS
  <2>1. NoWatch \in Watch /\ NoWatch.node = NoNode
    BY DEF NoWatch, Watch
  <2>2. lock \in [Candidates -> Locks] /\ queue \in [Candidates -> Queues]
    BY <2>1 DEF Init, Locks, Queues, Reasons
  <2>3. TypeInv
    <3>1. \A c \in Candidates : ~lock[c].held /\ queue[c].view = {} /\ queue[c].mine \in Watch
                                /\ queue[c].ahead \in Watch
      BY <2>1 DEF Init
    <3>2. /\ step \in [Candidates -> Steps] /\ releasing \in [Candidates -> {"none", "sweep", "done"}]
          /\ watching \in [Candidates -> [Watchers -> {"off", "arming", "parked", "stale", "returned"}]]
      BY DEF Init, Steps
    <3>3. dir \subseteq Node /\ counter \in Nat /\ faults \in 0..MaxFaults
      BY LockAssumption DEF Init
    <3>4. lock \in [Candidates -> [node : Node \cup {NoNode}, held : BOOLEAN, reason : Reasons,
                                   released : BOOLEAN, watch : Watch]]
      BY <2>2 DEF Locks
    <3>5. sessions \subseteq Candidates /\ hosting \subseteq Candidates /\ cancelled \subseteq Candidates
          /\ clean \subseteq Candidates /\ taken \subseteq Candidates
      BY DEF Init
    <3>. QED  BY <2>2, <3>1, <3>2, <3>3, <3>4, <3>5 DEF TypeInv, TypeOK
  <2>4. ASSUME NEW c \in Candidates PROVE CandidateInv(c)
    BY <2>1 DEF Init, CandidateInv, NodeInv, ViewInv, LowestInv, CleanInv, ReleaseInv, WatchInv, KeptInv,
                Own, Before, InLine, Holding
  <2>. QED  BY <2>3, <2>4 DEF Inv, NumberedInv, Init
<1>2. Inv /\ [Next]_vars => Inv'
  <2>. SUFFICES ASSUME Inv, [Next]_vars PROVE Inv'
    OBVIOUS
  <2>1. CASE UNCHANGED vars
    <3>1. UNCHANGED <<dir, counter, sessions, step, lock, queue, watching, releasing, hosting, cancelled,
                      clean, taken, faults>>
      BY <2>1 DEF vars, zkVars, lockVars, ghostVars
    <3>2. TypeInv' /\ NumberedInv'
      BY <3>1 DEF Inv, TypeInv, TypeOK, NumberedInv
    <3>3. \A d \in Candidates : Same(d) /\ DirStep(d)
      BY <3>1 DEF Same, DirStep, Own
    <3>. QED  BY <3>2, <3>3, SameInv DEF Inv
  <2>2. CASE \E c \in Candidates : AcquireNext(c)
    BY <2>2, CreateInv, ListInv, CollapseInv, DecideInv, WaitingInv, HandoverInv, SweepsInv DEF AcquireNext
  <2>3. CASE \E c \in Candidates : ParticipateNext(c)
    BY <2>3, HostsInv, ReleasesInv, SweepsInv DEF ParticipateNext
  <2>4. CASE \E c \in Candidates, w \in Watchers : MaintainNext(c, w)
    BY <2>4, MaintainInv DEF MaintainNext
  <2>5. CASE OutsideNext
    BY <2>5, MaintainInv, ReleasesInv, OutsideInv DEF OutsideNext
  <2>. QED  BY <2>1, <2>2, <2>3, <2>4, <2>5 DEF Next
<1>. QED  BY <1>1, <1>2, PTL DEF Spec

\* queueForOwnership decides on an old listing and still never lets two servers hold the
\* lock with their nodes in place, through lost answers, duplicate nodes, expired
\* sessions, operators and recreated directories.
THEOREM OneHolder == Spec => []HolderIsLowest
<1>1. Inv => HolderIsLowest
  BY DEF Inv, CandidateInv, LowestInv, HolderIsLowest
<1>. QED  BY <1>1, Safety, PTL

\* A sweep that reports no orphan leaves no node, and createNode's check of a release
\* keeps any from following.
THEOREM SweptForGood == Spec => []SweptLeavesNothing
<1>1. Inv => SweptLeavesNothing
  BY DEF Inv, TypeInv, TypeOK, CandidateInv, CleanInv, SweptLeavesNothing
<1>. QED  BY <1>1, Safety, PTL

\* Participate stops hosting before it gives its node up, so a server that hosts without
\* a node has lost it to the outside or to a release from elsewhere.
THEOREM HostsVisibly == Spec => []HostingHasNode
<1>1. Inv => HostingHasNode
  BY DEF Inv, TypeInv, TypeOK, CandidateInv, NodeInv, KeptInv, ReleaseInv, InLine, Holding, HostingHasNode
<1>. QED  BY <1>1, Safety, PTL

\* lose keeps the first ending and Release records its own before it deletes, so no
\* watcher takes a deliberate end for a deletion from outside.
THEOREM EndsNamed == Spec => []EndingNamed
<1>1. Inv => EndingNamed
  BY DEF Inv, CandidateInv, EndingNamed
<1>. QED  BY <1>1, Safety, PTL
=============================================================================
