------------------------ MODULE QuorumSegmentProofs ------------------------
(***************************************************************************)
(* What QuorumSegment promises, proved for any number of peers, entries    *)
(* and faults.                                                             *)
(*                                                                         *)
(* The entries of a segment are numbered in the order they were written,   *)
(* so a file, a replica and a chunk on its way are right when every entry  *)
(* stands at its own number.  Everything else is about lengths: of the     *)
(* file, of each replica, and of what the originator believes of them.     *)
(***************************************************************************)
EXTENDS QuorumSegment, SequenceTheorems, FiniteSetTheorems, TLAPS

----------------------------------------------------------------------------
(* Types *)

Stages == {"opening", "idle", "writing", "broken", "closing", "sealing", "closed", "purging", "dead"}
Writes == [entry : 0..MaxEntries, offset : Nat, local : {"pending", "ok", "error"}, acks : SUBSET Peers]
Acks == [entry : Entries, count : Nat]
Tracked == [acked : Nat, known : BOOLEAN, behind : BOOLEAN]
Breakers == [failures : Nat, cooling : BOOLEAN]
Task == [stage : {"none", "retry", "start", "read", "call", "prepare"}, from : Nat, pos : Nat, again : BOOLEAN]
ReplicaRecord == [exists : BOOLEAN, live : BOOLEAN, sealed : BOOLEAN, file : Seq(Entries), synced : Nat]
Replica == {rep \in ReplicaRecord : rep.synced <= Len(rep.file)}   \* what was synced was written

WriterTypes ==
    /\ file \in Seq(Entries) /\ origin \in {"open", "sealed", "purged", "down"}
    /\ stage \in Stages /\ pending \subseteq Peers /\ write \in Writes /\ acked \subseteq Acks
    /\ levelled \subseteq Peers /\ confirmed \subseteq Peers
    /\ upload \in {"none", "queued", "done", "failed"} /\ object \in Seq(Entries)
ClientTypes ==
    /\ tracked \in [Peers -> Tracked] /\ breaker \in [Peers -> Breakers]
    /\ calls \in [Peers -> SUBSET Call] /\ tasks \in [Peers -> [TaskKinds -> Task]]
PeerTypes == orphans \in [Peers -> SUBSET Call] /\ replica \in [Peers -> Replica]

TypeInv == WriterTypes /\ ClientTypes /\ PeerTypes

----------------------------------------------------------------------------
(* The originator *)

\* Entry i stands at place i + offset.
Numbered(data, offset) == \A i \in 1..Len(data) : data[i] = offset + i

\* The file holds the entries up to the one being written, which is in it when its
\* local write was successful; nothing was acknowledged that is not in it.
FileInv ==
    /\ Numbered(file, 0)
    /\ Len(file) = IF write.local = "ok" THEN write.entry ELSE write.entry - 1
    /\ stage \in {"opening", "idle"} => write.local = "ok"
    /\ stage = "writing" => write.offset = write.entry - 1
    /\ \A a \in acked : a.entry <= Len(file)

\* From the seal on the file is final, and an upload that is done holds all of it.
UploadInv ==
    /\ stage \in {"sealing", "closed", "purging"} => origin \in {"sealed", "purged"}
    /\ stage \in {"opening", "idle", "writing"} => origin = "open"
    /\ upload # "none" => stage \in {"closed", "purging", "dead"}
    /\ upload = "done" => object = file /\ origin # "open"
    /\ stage = "purging" => upload = "done"

Inv == TypeInv /\ FileInv /\ UploadInv

----------------------------------------------------------------------------
(* Confirmed seals, as long as no peer restarts *)

ReplicasKept == {"restart", "power"} \cap Faults = {}

SealInv ==
    ~PurgeBegan => \A p \in confirmed :
        /\ replica[p].exists /\ replica[p].live /\ replica[p].sealed /\ replica[p].file = file
        /\ origin # "open"

----------------------------------------------------------------------------
(* Replicas, as long as a peer handles one request at a time *)

\* A request carries entries up to entry n, each at its place.
Fits(c, n) ==
    /\ Numbered(c.data, c.offset) /\ c.offset + Len(c.data) <= n
    /\ c.step # "reading"
    /\ c.kind = "entry" => Len(c.data) = 1

\* Replicas, requests and what the originator remembers of them reach no further than
\* the entry that was begun last.
ReplicasFit == \A p \in Peers : Numbered(replica[p].file, 0) /\ Len(replica[p].file) <= write.entry
RequestsFit == \A p \in Peers : \A c \in calls[p] \cup orphans[p] : Fits(c, write.entry)
CallsFit == \A p \in Peers : \A c \in calls[p] : c.step # "sent" /\ c.persisted <= write.entry
ClientFits ==
    \A p \in Peers : /\ tracked[p].acked <= write.entry
                     /\ \A k \in TaskKinds : tasks[p][k].pos <= write.entry

SerialInv == ReplicasFit /\ RequestsFit /\ CallsFit /\ ClientFits

----------------------------------------------------------------------------
(* What the originator knows of a replica that is never lost *)

Length(p) == Len(replica[p].file)

\* A replica without an entry in memory is empty; answers, the tracking, the position
\* of a catch-up, the peers that answered the current write and the counts of the
\* acknowledgements claim no more than the replicas hold.
LostEmpty == \A p \in Peers : ~replica[p].live => replica[p].file = <<>>
AnswersHeld ==
    \A p \in Peers : \A c \in calls[p] : c.step = "answered" /\ c.reply = "ack" => c.persisted <= Length(p)
TrackedHeld == \A p \in Peers : tracked[p].acked <= Length(p)
TasksHeld == \A p \in Peers, k \in TaskKinds : tasks[p][k].stage = "read" => tasks[p][k].pos <= Length(p)
WriteHeld == \A p \in write.acks : write.entry <= Length(p)
CountsHeld == \A a \in acked : Cardinality({p \in Peers : a.entry <= Length(p)}) >= a.count - 1

ClaimsHeld == AnswersHeld /\ TrackedHeld /\ TasksHeld /\ WriteHeld /\ CountsHeld
HeldInv == ~PurgeBegan => LostEmpty /\ ClaimsHeld

----------------------------------------------------------------------------
(* The close, when in addition every write is answered before it begins *)

WritesSettle == {"disk", "cancel"} \cap Faults = {}

Before == {"opening", "idle", "writing"}

\* Without a failing disk and a cancelled writer, a local write ends well, and is
\* under way only while the writer waits for it or after a crash.
WriteInv ==
    /\ stage # "broken" /\ write.local # "error"
    /\ write.local = "pending" => stage \in {"writing", "dead"}
    /\ stage = "dead" => origin = "down"

\* No part of a close exists before it begins, and an empty closing chunk stands at
\* the end of the file.
FreshInv ==
    stage \in Before =>
        levelled = {} /\ \A p \in Peers : /\ tasks[p]["close"] = NoTask
                                          /\ \A c \in calls[p] : c.kind # "close"
ChunkInv == \A p \in Peers : \A c \in calls[p] : c.kind = "close" /\ c.data = <<>> => Len(file) <= c.offset

\* A levelled peer holds the whole file.
LevelInv == ~PurgeBegan => \A p \in levelled : Len(file) <= Length(p)

----------------------------------------------------------------------------
(* What the operators return *)

\* Chunks, files and suffixes of them are sequences of entries.
LEMMA SubSeqType ==
  ASSUME NEW s \in Seq(Entries), NEW m \in Nat \ {0}
  PROVE  /\ SubSeq(s, m, Len(s)) \in Seq(Entries)
         /\ Len(SubSeq(s, m, Len(s))) = (IF m <= Len(s) THEN Len(s) - m + 1 ELSE 0)
         /\ \A i \in 1..Len(SubSeq(s, m, Len(s))) : SubSeq(s, m, Len(s))[i] = s[m + i - 1]
  <1>1. CASE m <= Len(s)
    BY <1>1, SubSeqProperties
  <1>2. CASE m > Len(s)
    BY <1>2
  <1>. QED  BY <1>1, <1>2

\* The tracking of a replica, the breaker, and the tasks.
LEMMA TrackedType ==
  /\ Untracked \in Tracked
  /\ \A t \in Tracked : /\ MarkBehind(t) \in Tracked
                        /\ MarkBehind(t).acked = t.acked
  /\ \A t \in Tracked, n \in Nat, b \in BOOLEAN : /\ RecordAck(t, n, b) \in Tracked
                                                  /\ RecordAck(t, n, b).acked \in {t.acked, n}
  BY DEF Untracked, MarkBehind, RecordAck, Tracked

\* See above.
LEMMA BreakerType == RecordSuccess \in Breakers /\ \A b \in Breakers : RecordFailure(b) \in Breakers
  BY SegmentAssumption DEF RecordSuccess, RecordFailure, Breakers

\* See above.
LEMMA TaskType ==
  /\ NoTask \in Task
  /\ \A t \in Task, c \in Call :
        /\ ChunkPersisted(t, c) \in Task /\ ChunkFailed(t, c) \in Task
        /\ ChunkPersisted(t, c).pos \in {0, c.offset + Len(c.data)}
        /\ ChunkFailed(t, c).pos \in {0, t.pos}
  <1>1. NoTask \in Task /\ NoTask.pos = 0
    BY DEF NoTask, Task
  <1>2. ASSUME NEW t \in Task, NEW c \in Call
        PROVE  /\ ChunkPersisted(t, c) \in Task /\ ChunkFailed(t, c) \in Task
               /\ ChunkPersisted(t, c).pos \in {0, c.offset + Len(c.data)}
               /\ ChunkFailed(t, c).pos \in {0, t.pos}
    <2>1. PICK n \in Nat : n = c.offset + Len(c.data)
      BY DEF Call
    <2>2. /\ [t EXCEPT !.stage = "read", !.pos = n] \in Task
          /\ [t EXCEPT !.stage = "read", !.pos = n].pos = n
      BY DEF Task
    <2>3. [t EXCEPT !.stage = "prepare"] \in Task /\ [t EXCEPT !.stage = "prepare"].pos = t.pos
      BY DEF Task
    <2>. QED  BY <1>1, <2>1, <2>2, <2>3 DEF ChunkPersisted, ChunkFailed
  <1>. QED  BY <1>1, <1>2

\* A new call, and one whose progress is changed.
LEMMA CallType ==
  /\ \A k \in TaskKinds \cup {"entry"}, o \in Nat, d \in Seq(Entries), s \in {"start", "queued"} :
        /\ NewCall(k, o, d, s) \in Call
        /\ NewCall(k, o, d, s).kind = k /\ NewCall(k, o, d, s).offset = o
        /\ NewCall(k, o, d, s).data = d /\ NewCall(k, o, d, s).step = s
        /\ NewCall(k, o, d, s).persisted = 0
  /\ \A c \in Call, s \in {"queued", "sent"} :
        /\ [c EXCEPT !.step = s] \in Call
        /\ [c EXCEPT !.live = FALSE] \in Call
        /\ [c EXCEPT !.live = FALSE, !.step = s] \in Call
        /\ [c EXCEPT !.step = "answered", !.reply = "refused"] \in Call
  <1>1. ASSUME NEW k \in TaskKinds \cup {"entry"}, NEW o \in Nat, NEW d \in Seq(Entries), NEW s \in {"start", "queued"}
        PROVE  /\ NewCall(k, o, d, s) \in Call
               /\ NewCall(k, o, d, s).kind = k /\ NewCall(k, o, d, s).offset = o
               /\ NewCall(k, o, d, s).data = d /\ NewCall(k, o, d, s).step = s
               /\ NewCall(k, o, d, s).persisted = 0
    BY DEF NewCall, Call
  <1>2. ASSUME NEW c \in Call, NEW s \in {"queued", "sent"}
        PROVE  /\ [c EXCEPT !.step = s] \in Call
               /\ [c EXCEPT !.live = FALSE] \in Call
               /\ [c EXCEPT !.live = FALSE, !.step = s] \in Call
               /\ [c EXCEPT !.step = "answered", !.reply = "refused"] \in Call
    BY DEF Call
  <1>. QED  BY <1>1, <1>2

\* Two calls that differ at most in whether their caller still waits on the stream.
SameCall(c, d) ==
    /\ c.kind = d.kind /\ c.offset = d.offset /\ c.data = d.data
    /\ c.step = d.step /\ c.reply = d.reply /\ c.persisted = d.persisted

\* What is cut off with its stream stays the same call.
LEMMA CutOffType ==
  \A cs \in SUBSET Call :
     /\ CutOff(cs) \in SUBSET Call
     /\ \A d \in CutOff(cs) : \E c \in cs : SameCall(d, c)
  <1>. SUFFICES ASSUME NEW cs \in SUBSET Call, NEW c \in cs
                PROVE  /\ [c EXCEPT !.live = c.live /\ c.step \in {"start", "answered"}] \in Call
                       /\ SameCall([c EXCEPT !.live = c.live /\ c.step \in {"start", "answered"}], c)
    BY DEF CutOff
  <1>1. PICK b \in BOOLEAN : b = (c.live /\ c.step \in {"start", "answered"})
    OBVIOUS
  <1>2. [c EXCEPT !.live = b] \in Call /\ SameCall([c EXCEPT !.live = b], c)
    BY DEF Call, SameCall
  <1>. QED  BY <1>1, <1>2

\* See above.
LEMMA DiscardType ==
  \A cs \in SUBSET Call, c \in Call :
     /\ DiscardStream(cs, c) \in SUBSET Call
     /\ \A d \in DiscardStream(cs, c) : \E e \in cs : SameCall(d, e)
  <1>1. \A d : SameCall(d, d)
    BY DEF SameCall
  <1>. QED  BY <1>1, CutOffType DEF DiscardStream

\* What a handler finds, writes and answers.
LEMMA HandledType ==
  \A rep \in Replica, r \in Call :
     /\ Found(rep, r) \in Call /\ Written(rep, r).call \in Call /\ Handled(rep, r).call \in Call
     /\ Written(rep, r).file \in Seq(Entries) /\ Handled(rep, r).file \in Seq(Entries)
     /\ Len(rep.file) <= Len(Written(rep, r).file) /\ Len(rep.file) <= Len(Handled(rep, r).file)
  <1>1. ASSUME NEW rep \in Replica, NEW r \in Call
        PROVE  Found(rep, r) \in Call
    <2>1. PICK n \in Nat : n = Len(rep.file)
      BY DEF Replica, ReplicaRecord
    <2>2. /\ [r EXCEPT !.step = "reading", !.at = n] \in Call
          /\ [r EXCEPT !.step = "answered", !.reply = "missing"] \in Call
      BY DEF Call
    <2>. QED  BY <2>1, <2>2 DEF Found
  <1>2. ASSUME NEW rep \in Replica, NEW r \in Call
        PROVE  /\ Persisted(rep, r).file \in Seq(Entries) /\ Persisted(rep, r).reply \in {"ack", "refused"}
               /\ Len(rep.file) <= Len(Persisted(rep, r).file)
    <2>1. /\ rep.file \in Seq(Entries) /\ r.data \in Seq(Entries)
          /\ r.at \in Nat /\ r.offset \in Nat
      BY DEF Replica, ReplicaRecord, Call
    <2>2. CASE r.offset > r.at \/ r.offset + Len(r.data) <= r.at \/ rep.sealed \/ ~rep.live
      BY <2>1, <2>2 DEF Persisted
    <2>3. CASE ~(r.offset > r.at \/ r.offset + Len(r.data) <= r.at \/ rep.sealed \/ ~rep.live)
      <3>1. SubSeq(r.data, r.at - r.offset + 1, Len(r.data)) \in Seq(Entries)
        BY <2>1, <2>3, SubSeqType
      <3>2. /\ rep.file \o SubSeq(r.data, r.at - r.offset + 1, Len(r.data)) \in Seq(Entries)
            /\ Len(rep.file) <= Len(rep.file \o SubSeq(r.data, r.at - r.offset + 1, Len(r.data)))
        BY <2>1, <3>1, ConcatProperties
      <3>. QED  BY <2>1, <2>3, <3>2 DEF Persisted
    <2>. QED  BY <2>2, <2>3
  <1>3. ASSUME NEW rep \in Replica, NEW r \in Call
        PROVE  /\ Written(rep, r).call \in Call /\ Written(rep, r).file \in Seq(Entries)
               /\ Len(rep.file) <= Len(Written(rep, r).file)
    <2>1. PICK n \in Nat : n = IF Persisted(rep, r).file = rep.file THEN r.at ELSE Len(Persisted(rep, r).file)
      BY <1>2 DEF Call
    <2>2. PICK a \in {"ack", "refused"} : a = Persisted(rep, r).reply
      BY <1>2
    <2>3. [r EXCEPT !.step = "answered", !.reply = a, !.at = 0, !.persisted = n] \in Call
      BY DEF Call
    <2>. QED  BY <1>2, <2>1, <2>2, <2>3 DEF Written
  <1>4. ASSUME NEW rep \in Replica PROVE rep.file \in Seq(Entries) /\ Len(rep.file) <= Len(rep.file)
    BY DEF Replica, ReplicaRecord
  <1>. QED  BY <1>1, <1>3, <1>4 DEF Handled

\* What PrepareSegment, SealSegment and Delete make of a replica.
LEMMA ReplicaType ==
  /\ NoReplica \in Replica
  /\ \A rep \in Replica : Prepared(rep) \in Replica /\ Sealed(rep) \in Replica /\ Deleted(rep) \in Replica
  /\ \A rep \in Replica, f \in Seq(Entries) : Len(rep.file) <= Len(f) => [rep EXCEPT !.file = f] \in Replica
  <1>1. <<>> \in Seq(Entries)
    OBVIOUS
  <1>2. NoReplica \in Replica
    BY <1>1 DEF NoReplica, Replica, ReplicaRecord
  <1>3. ASSUME NEW rep \in Replica PROVE Prepared(rep) \in Replica
    BY <1>1 DEF Prepared, Replica, ReplicaRecord
  <1>4. ASSUME NEW rep \in Replica PROVE Sealed(rep) \in Replica
    <2>1. PICK n \in Nat : n = Len(rep.file)
      BY DEF Replica, ReplicaRecord
    <2>. DEFINE x == [rep EXCEPT !.live = TRUE, !.sealed = TRUE, !.synced = n]
    <2>2. x \in ReplicaRecord /\ x.synced = n /\ x.file = rep.file
      BY DEF Replica, ReplicaRecord
    <2>3. x \in Replica
      <3>. HIDE DEF x
      <3>. QED  BY <2>1, <2>2 DEF Replica
    <2>. QED  BY <2>1, <2>2, <2>3 DEF Sealed
  <1>5. ASSUME NEW rep \in Replica PROVE Deleted(rep) \in Replica
    BY DEF Deleted, Replica, ReplicaRecord
  <1>6. ASSUME NEW rep \in Replica, NEW f \in Seq(Entries), Len(rep.file) <= Len(f) PROVE [rep EXCEPT !.file = f] \in Replica
    <2>1. rep \in ReplicaRecord /\ rep.synced <= Len(rep.file) /\ rep.synced \in Nat /\ Len(rep.file) \in Nat
      BY DEF Replica, ReplicaRecord
    <2>. DEFINE x == [rep EXCEPT !.file = f]
    <2>2. x \in ReplicaRecord /\ x.synced = rep.synced /\ x.file = f
      BY <2>1 DEF ReplicaRecord
    <2>3. Len(f) \in Nat /\ rep.synced <= Len(f)
      BY <1>6, <2>1
    <2>. HIDE DEF x
    <2>4. x \in Replica
      BY <2>2, <2>3 DEF Replica
    <2>. QED  BY <2>4 DEF x
  <1>. QED  BY <1>2, <1>3, <1>4, <1>5, <1>6

----------------------------------------------------------------------------
(* What the parts of a step change *)

\* SetTask changes one task.
LEMMA SetTaskEffect ==
  ASSUME TypeInv, NEW p \in Peers, NEW k \in TaskKinds
  PROVE  \A t \in Task : SetTask(p, k, t) =>
            /\ tasks' \in [Peers -> [TaskKinds -> Task]]
            /\ tasks'[p][k] = t
            /\ \A q \in Peers, j \in TaskKinds : q # p \/ j # k => tasks'[q][j] = tasks[q][j]
  BY DEF SetTask, TypeInv, ClientTypes

\* A result changes at most the set of acknowledging peers.
LEMMA ResultEffect ==
  ASSUME TypeInv, NEW p \in Peers, NEW c \in Call, NEW ok \in BOOLEAN, Result(p, c, ok)
  PROVE  /\ write' \in Writes
         /\ write'.entry = write.entry /\ write'.offset = write.offset /\ write'.local = write.local
         /\ \/ write'.acks = write.acks
            \/ /\ ok /\ c.kind = "entry" /\ stage = "writing" /\ c.offset = write.offset
               /\ write'.acks = write.acks \cup {p}
  <1>1. write \in Writes
    BY DEF TypeInv, WriterTypes
  <1>2. CASE write' = write
    BY <1>1, <1>2
  <1>3. CASE write' # write
    <2>1. PICK s \in SUBSET Peers : s = write.acks \cup {p}
      BY <1>1 DEF Writes
    <2>2. /\ write' = [write EXCEPT !.acks = s]
          /\ ok /\ c.kind = "entry" /\ stage = "writing" /\ c.offset = write.offset
      BY <1>3, <2>1 DEF Result
    <2>. QED  BY <1>1, <2>1, <2>2 DEF Writes
  <1>. QED  BY <1>2, <1>3

\* The end of a closing catch-up visits a peer, and levels it if it was successful.
LEMMA CloseVisitedEffect ==
  ASSUME TypeInv, NEW p \in Peers, NEW k \in TaskKinds, NEW ok \in BOOLEAN
  PROVE  \A t \in Task : CloseVisited(p, k, t, ok) =>
            /\ pending' \subseteq Peers /\ pending' \subseteq pending
            /\ levelled' \subseteq Peers
            /\ \/ levelled' = levelled
               \/ levelled' = levelled \cup {p} /\ ok /\ k = "close" /\ t = NoTask
  BY DEF CloseVisited, TypeInv, WriterTypes

\* A call that ends moves the task it belongs to.
LEMMA TaskStepEffect ==
  ASSUME TypeInv, NEW p \in Peers, NEW c \in Call, NEW ok \in BOOLEAN, TaskStep(p, c, ok)
  PROVE  /\ tasks' \in [Peers -> [TaskKinds -> Task]]
         /\ pending' \subseteq Peers /\ pending' \subseteq pending
         /\ levelled' \subseteq Peers
         /\ \/ levelled' = levelled
            \/ levelled' = levelled \cup {p} /\ ok /\ c.kind = "close" /\ c.data = <<>>
  <1>1. c.kind \in TaskKinds \cup {"entry"}
    BY DEF Call
  <1>2. CASE c.kind = "entry"
    BY <1>2 DEF TaskStep, TypeInv, ClientTypes, WriterTypes
  <1>3. CASE c.kind # "entry"
    <2>1. PICK k \in TaskKinds : k = c.kind
      BY <1>1, <1>3
    <2>2. tasks[p][k] \in Task
      BY DEF TypeInv, ClientTypes
    <2>3. PICK t \in Task : t = IF ok THEN ChunkPersisted(tasks[p][k], c) ELSE ChunkFailed(tasks[p][k], c)
      BY <2>2, TaskType
    <2>4. SetTask(p, k, t) /\ CloseVisited(p, k, t, ok)
      BY <1>3, <2>1, <2>3 DEF TaskStep
    <2>5. ok /\ t = NoTask => c.data = <<>>
      <3>1. SUFFICES ASSUME ok, c.data # <<>> PROVE t # NoTask
        OBVIOUS
      <3>2. PICK n : n = c.offset + Len(c.data)
        OBVIOUS
      <3>3. t = [tasks[p][k] EXCEPT !.stage = "read", !.pos = n]
        BY <2>3, <3>1, <3>2 DEF ChunkPersisted
      <3>4. t.stage = "read"
        BY <2>2, <3>3 DEF Task
      <3>. QED  BY <3>4 DEF NoTask
    <2>. QED  BY <2>1, <2>3, <2>4, <2>5, SetTaskEffect, CloseVisitedEffect
  <1>. QED  BY <1>2, <1>3

\* Where that task stands afterwards.
LEMMA TaskMoves ==
  ASSUME TypeInv, NEW p \in Peers, NEW c \in Call
  PROVE  /\ TaskStep(p, c, TRUE) => \A q \in Peers, j \in TaskKinds :
               \/ tasks'[q][j] = tasks[q][j]
               \/ q = p /\ j = c.kind /\ tasks'[q][j] = ChunkPersisted(tasks[p][j], c)
         /\ TaskStep(p, c, FALSE) => \A q \in Peers, j \in TaskKinds :
               \/ tasks'[q][j] = tasks[q][j]
               \/ q = p /\ j = c.kind /\ tasks'[q][j] = ChunkFailed(tasks[p][j], c)
  <1>1. c.kind \in TaskKinds \cup {"entry"}
    BY DEF Call
  <1>2. CASE c.kind = "entry"
    BY <1>2 DEF TaskStep
  <1>3. CASE c.kind # "entry"
    <2>1. PICK k \in TaskKinds : k = c.kind
      BY <1>1, <1>3
    <2>2. tasks[p][k] \in Task
      BY DEF TypeInv, ClientTypes
    <2>3. PICK t \in Task, u \in Task : t = ChunkPersisted(tasks[p][k], c) /\ u = ChunkFailed(tasks[p][k], c)
      BY <2>2, TaskType
    <2>4. TaskStep(p, c, TRUE) => SetTask(p, k, t)
      BY <1>3, <2>1, <2>3 DEF TaskStep
    <2>5. TaskStep(p, c, FALSE) => SetTask(p, k, u)
      BY <1>3, <2>1, <2>3 DEF TaskStep
    <2>6. \A v \in Task : SetTask(p, k, v) => \A q \in Peers, j \in TaskKinds :
             tasks'[q][j] = tasks[q][j] \/ (q = p /\ j = k /\ tasks'[q][j] = v)
      BY SetTaskEffect
    <2>7. ASSUME TaskStep(p, c, TRUE), NEW q \in Peers, NEW j \in TaskKinds
          PROVE  tasks'[q][j] = tasks[q][j] \/ (q = p /\ j = c.kind /\ tasks'[q][j] = ChunkPersisted(tasks[p][j], c))
      BY <2>1, <2>3, <2>4, <2>6, <2>7
    <2>8. ASSUME TaskStep(p, c, FALSE), NEW q \in Peers, NEW j \in TaskKinds
          PROVE  tasks'[q][j] = tasks[q][j] \/ (q = p /\ j = c.kind /\ tasks'[q][j] = ChunkFailed(tasks[p][j], c))
      BY <2>1, <2>3, <2>5, <2>6, <2>8
    <2>. QED  BY <2>7, <2>8
  <1>. QED  BY <1>1, <1>2, <1>3

\* What Prepare does to one replica and to the tracking of it.
LEMMA PrepareEffect ==
  ASSUME TypeInv, NEW p \in Peers, NEW ok \in BOOLEAN, Prepare(p, ok)
  PROVE  /\ replica' \in [Peers -> Replica] /\ tracked' \in [Peers -> Tracked]
         /\ \A q \in Peers \ {p} : replica'[q] = replica[q] /\ tracked'[q] = tracked[q]
         /\ \/ replica'[p] = replica[p]
            \/ Adoptable(replica[p]) /\ replica'[p] = Prepared(replica[p])
         /\ tracked'[p] \in {tracked[p], Untracked}
  <1>1. replica \in [Peers -> Replica] /\ tracked \in [Peers -> Tracked]
    BY DEF TypeInv, PeerTypes, ClientTypes
  <1>2. Prepared(replica[p]) \in Replica /\ Untracked \in Tracked
    BY <1>1, ReplicaType, TrackedType
  <1>3. /\ \/ replica' = replica
           \/ Adoptable(replica[p]) /\ replica' = [replica EXCEPT ![p] = Prepared(replica[p])]
        /\ tracked' = tracked \/ tracked' = [tracked EXCEPT ![p] = Untracked]
    BY <1>1 DEF Prepare
  <1>. QED  BY <1>1, <1>2, <1>3

\* A call that ends with its answer taken.
LEMMA CallOkEffect ==
  ASSUME TypeInv, NEW p \in Peers, NEW c \in calls[p], CallOk(p, c)
  PROVE  /\ c \in Call
         /\ tracked' \in [Peers -> Tracked] /\ breaker' \in [Peers -> Breakers]
         /\ calls' \in [Peers -> SUBSET Call] /\ \A q \in Peers : calls'[q] \subseteq calls[q]
         /\ \A q \in Peers : tracked'[q].acked = tracked[q].acked \/ (q = p /\ tracked'[q].acked = c.persisted)
         /\ Result(p, c, TRUE) /\ TaskStep(p, c, TRUE)
  <1>1. /\ tracked \in [Peers -> Tracked] /\ breaker \in [Peers -> Breakers]
        /\ calls \in [Peers -> SUBSET Call]
    BY DEF TypeInv, ClientTypes
  <1>2. c \in Call /\ c.persisted \in Nat /\ (c.kind # "entry") \in BOOLEAN
    BY <1>1 DEF Call
  <1>3. PICK t \in Tracked : t = RecordAck(tracked[p], c.persisted, c.kind # "entry") /\ t.acked \in {tracked[p].acked, c.persisted}
    BY <1>1, <1>2, TrackedType
  <1>4. RecordSuccess \in Breakers
    BY BreakerType
  <1>5. /\ tracked' = [tracked EXCEPT ![p] = t] /\ breaker' = [breaker EXCEPT ![p] = RecordSuccess]
        /\ calls' = [calls EXCEPT ![p] = calls[p] \ {c}] /\ Result(p, c, TRUE) /\ TaskStep(p, c, TRUE)
    BY <1>1, <1>3 DEF CallOk
  <1>. QED  BY <1>1, <1>2, <1>3, <1>4, <1>5

\* A call that ends with an error, and takes its stream with it.
LEMMA CallErrorEffect ==
  ASSUME TypeInv, NEW p \in Peers, NEW c \in calls[p], CallError(p, c)
  PROVE  /\ c \in Call
         /\ tracked' \in [Peers -> Tracked] /\ breaker' \in [Peers -> Breakers]
         /\ calls' \in [Peers -> SUBSET Call]
         /\ \A q \in Peers : \A d \in calls'[q] : \E e \in calls[q] : SameCall(d, e)
         /\ \A q \in Peers : tracked'[q].acked = tracked[q].acked
         /\ Result(p, c, FALSE) /\ TaskStep(p, c, FALSE)
  <1>1. /\ tracked \in [Peers -> Tracked] /\ breaker \in [Peers -> Breakers]
        /\ calls \in [Peers -> SUBSET Call]
    BY DEF TypeInv, ClientTypes
  <1>2. c \in Call
    BY <1>1
  <1>3. PICK t \in Tracked : t = MarkBehind(tracked[p]) /\ t.acked = tracked[p].acked
    BY <1>1, TrackedType
  <1>4. PICK b \in Breakers : b = RecordFailure(breaker[p])
    BY <1>1, BreakerType
  <1>5. PICK cs \in SUBSET Call : cs = DiscardStream(calls[p], c) /\ \A d \in cs : \E e \in calls[p] : SameCall(d, e)
    BY <1>1, <1>2, DiscardType
  <1>6. /\ tracked' = [tracked EXCEPT ![p] = t] /\ breaker' = [breaker EXCEPT ![p] = b]
        /\ calls' = [calls EXCEPT ![p] = cs] /\ Result(p, c, FALSE) /\ TaskStep(p, c, FALSE)
    BY <1>1, <1>3, <1>4, <1>5 DEF CallError
  <1>7. \A d : SameCall(d, d)
    BY DEF SameCall
  <1>8. \A q \in Peers : \A d \in calls'[q] : \E e \in calls[q] : SameCall(d, e)
    BY <1>1, <1>5, <1>6, <1>7
  <1>9. \A q \in Peers : tracked'[q].acked = tracked[q].acked
    BY <1>1, <1>3, <1>6
  <1>. QED  BY <1>1, <1>2, <1>3, <1>4, <1>5, <1>6, <1>8, <1>9

----------------------------------------------------------------------------
(* Types are kept *)

\* The steps of a write.
LEMMA WriterTypesKept == Inv /\ WriterNext => TypeInv'
  <1>. SUFFICES ASSUME Inv, WriterNext PROVE TypeInv'
    OBVIOUS
  <1>. USE DEF originVars, writerVars, clientVars, peerVars, closeVars
  <1>1. /\ TypeInv /\ file \in Seq(Entries) /\ write \in Writes /\ write.entry \in 0..MaxEntries
        /\ Len(file) \in Nat /\ MaxEntries \in Nat /\ write.acks \in SUBSET Peers /\ write.offset \in Nat
    BY SegmentAssumption DEF Inv, TypeInv, WriterTypes, Writes
  <1>2. CASE BeginWrite
    <2>1. PICK e \in Entries : e = write.entry + 1
      BY <1>1, <1>2 DEF BeginWrite, Entries
    <2>2. PICK n \in Nat : n = Len(file)
      BY <1>1
    <2>3. write' = [entry |-> e, offset |-> n, local |-> "pending", acks |-> {}]
      BY <1>2, <2>1, <2>2 DEF BeginWrite
    <2>4. write' \in Writes
      BY <1>1, <2>3 DEF Writes, Entries
    <2>5. PICK c \in Call : c = NewCall("entry", n, <<e>>, "start")
      <3>1. <<e>> \in Seq(Entries)
        OBVIOUS
      <3>. QED  BY <3>1, CallType
    <2>6. calls' = [p \in Peers |-> calls[p] \cup {c}]
      BY <1>2, <2>1, <2>2, <2>5 DEF BeginWrite
    <2>7. calls' \in [Peers -> SUBSET Call]
      BY <1>1, <2>6 DEF TypeInv, ClientTypes
    <2>. QED  BY <1>1, <1>2, <2>4, <2>7 DEF BeginWrite, TypeInv, WriterTypes, ClientTypes, PeerTypes, Stages
  <1>3. CASE LocalWrite
    <2>1. write' \in Writes
      BY <1>1, <1>3 DEF LocalWrite, Writes
    <2>2. write.entry \in Entries
      BY <1>1, <1>3 DEF LocalWrite, Inv, FileInv, Entries
    <2>3. file' \in Seq(Entries)
      BY <1>1, <1>3, <2>2 DEF LocalWrite
    <2>. QED  BY <1>1, <1>3, <2>1, <2>3 DEF LocalWrite, TypeInv, WriterTypes, ClientTypes, PeerTypes
  <1>4. CASE LocalWriteFails
    <2>1. write' \in Writes
      BY <1>1, <1>4 DEF LocalWriteFails, Writes
    <2>. QED  BY <1>1, <1>4, <2>1 DEF LocalWriteFails, TypeInv, WriterTypes, ClientTypes, PeerTypes
  <1>5. CASE Acknowledge
    <2>1. write' \in Writes
      BY <1>1, <1>5 DEF Acknowledge, Writes
    <2>2. PICK n \in Nat : n = 1 + Cardinality(write.acks)
      <3>1. IsFiniteSet(write.acks)
        BY <1>1, SegmentAssumption, FS_Subset
      <3>. QED  BY <3>1, FS_CardinalityType
    <2>3. write.entry \in Entries
      BY <1>1, <1>5 DEF Acknowledge, Inv, FileInv, Entries
    <2>4. acked' = acked \cup {[entry |-> write.entry, count |-> n]}
      BY <1>5, <2>2 DEF Acknowledge
    <2>5. acked' \subseteq Acks
      BY <1>1, <2>3, <2>4 DEF Acks, TypeInv, WriterTypes
    <2>6. tasks' \in [Peers -> [TaskKinds -> Task]]
      <3>1. ASSUME NEW p \in Peers PROVE [tasks[p] EXCEPT !["catchup"].stage = "start"] \in [TaskKinds -> Task]
        <4>1. tasks[p] \in [TaskKinds -> Task]
          BY <1>1 DEF TypeInv, ClientTypes
        <4>2. [tasks[p]["catchup"] EXCEPT !.stage = "start"] \in Task
          BY <4>1 DEF Task, TaskKinds
        <4>. QED  BY <4>1, <4>2
      <3>2. \A p \in Peers : tasks[p] \in [TaskKinds -> Task]
        BY <1>1 DEF TypeInv, ClientTypes
      <3>. QED  BY <1>5, <3>1, <3>2 DEF Acknowledge, HealReplicas
    <2>. QED  BY <1>1, <1>5, <2>1, <2>5, <2>6 DEF Acknowledge, TypeInv, WriterTypes, ClientTypes, PeerTypes, Stages
  <1>6. CASE WriteFails \/ CancelWrite
    BY <1>1, <1>6 DEF WriteFails, CancelWrite, TypeInv, WriterTypes, ClientTypes, PeerTypes, Stages
  <1>. QED  BY <1>2, <1>3, <1>4, <1>5, <1>6 DEF WriterNext

\* The calls of the originator on its streams.
LEMMA CallTypesKept == Inv /\ CallNext => TypeInv'
  <1>. SUFFICES ASSUME Inv, NEW p \in Peers, 
                       \/ \E c \in calls[p] : StartEntry(p, c) \/ Exchange(p, c) \/ Send(p, c) \/ TakeAnswer(p, c) \/ CallFails(p, c)
                       \/ CoolDownOver(p)
                PROVE  TypeInv'
    BY DEF CallNext
  <1>. USE DEF originVars, writerVars, clientVars, peerVars, closeVars
  <1>1. /\ TypeInv /\ tracked \in [Peers -> Tracked] /\ breaker \in [Peers -> Breakers]
        /\ calls \in [Peers -> SUBSET Call] /\ orphans \in [Peers -> SUBSET Call] /\ replica \in [Peers -> Replica]
    BY DEF Inv, TypeInv, ClientTypes, PeerTypes
  <1>2. CASE CoolDownOver(p)
    <2>1. [breaker[p] EXCEPT !.cooling = FALSE] \in Breakers
      BY <1>1 DEF Breakers
    <2>2. breaker' \in [Peers -> Breakers]
      BY <1>1, <1>2, <2>1 DEF CoolDownOver
    <2>. QED  BY <1>1, <1>2, <2>2 DEF CoolDownOver, TypeInv, WriterTypes, ClientTypes, PeerTypes
  <1>3. ASSUME NEW c \in calls[p], StartEntry(p, c) PROVE TypeInv'
    <2>1. c \in Call
      BY <1>1
    <2>2. CASE breaker[p].cooling \/ ~InPosition(tracked[p], c.offset)
      <3>1. PICK t \in Tracked : t = MarkBehind(tracked[p])
        BY <1>1, TrackedType
      <3>2. tracked' = [tracked EXCEPT ![p] = t] /\ calls' = [calls EXCEPT ![p] = calls[p] \ {c}] /\ Result(p, c, FALSE)
        BY <1>1, <1>3, <2>2, <3>1 DEF StartEntry
      <3>3. tracked' \in [Peers -> Tracked] /\ calls' \in [Peers -> SUBSET Call]
        BY <1>1, <3>2
      <3>4. write' \in Writes
        BY <1>1, <2>1, <3>2, ResultEffect
      <3>. QED  BY <1>1, <1>3, <3>3, <3>4 DEF StartEntry, TypeInv, WriterTypes, ClientTypes, PeerTypes
    <2>3. CASE ~(breaker[p].cooling \/ ~InPosition(tracked[p], c.offset))
      <3>1. PICK d \in Call : d = [c EXCEPT !.step = "queued"]
        BY <2>1, CallType
      <3>2. calls' = [calls EXCEPT ![p] = (calls[p] \ {c}) \cup {d}] /\ UNCHANGED <<tracked, write>>
        BY <1>1, <1>3, <2>3, <3>1 DEF StartEntry
      <3>3. calls' \in [Peers -> SUBSET Call]
        BY <1>1, <3>2
      <3>. QED  BY <1>1, <1>3, <3>2, <3>3 DEF StartEntry, TypeInv, WriterTypes, ClientTypes, PeerTypes
    <2>. QED  BY <2>2, <2>3
  <1>4. ASSUME NEW c \in calls[p], Exchange(p, c) PROVE TypeInv'
    <2>1. c \in Call /\ replica[p] \in Replica
      BY <1>1
    <2>2. PICK f \in Seq(Entries), d \in Call : /\ f = Handled(replica[p], c).file /\ d = Handled(replica[p], c).call
                                                /\ Len(replica[p].file) <= Len(f)
      BY <2>1, HandledType
    <2>3. [replica[p] EXCEPT !.file = f] \in Replica
      BY <2>1, <2>2, ReplicaType
    <2>4. /\ replica' = [replica EXCEPT ![p].file = f]
          /\ calls' = [calls EXCEPT ![p] = (calls[p] \ {c}) \cup {d}]
      BY <1>1, <1>4, <2>2 DEF Exchange
    <2>5. replica' \in [Peers -> Replica] /\ calls' \in [Peers -> SUBSET Call]
      BY <1>1, <2>3, <2>4
    <2>. QED  BY <1>1, <1>4, <2>5 DEF Exchange, TypeInv, WriterTypes, ClientTypes, PeerTypes
  <1>5. ASSUME NEW c \in calls[p], Send(p, c) PROVE TypeInv'
    <2>1. PICK d \in Call : d = [c EXCEPT !.step = "sent"]
      BY <1>1, CallType
    <2>2. calls' = [calls EXCEPT ![p] = (calls[p] \ {c}) \cup {d}]
      BY <1>1, <1>5, <2>1 DEF Send
    <2>3. calls' \in [Peers -> SUBSET Call]
      BY <1>1, <2>2
    <2>. QED  BY <1>1, <1>5, <2>3 DEF Send, TypeInv, WriterTypes, ClientTypes, PeerTypes
  <1>6. ASSUME NEW c \in calls[p], TakeAnswer(p, c) PROVE TypeInv'
    <2>1. CASE CallOk(p, c)
      <3>1. /\ tracked' \in [Peers -> Tracked] /\ breaker' \in [Peers -> Breakers] /\ calls' \in [Peers -> SUBSET Call]
            /\ write' \in Writes /\ tasks' \in [Peers -> [TaskKinds -> Task]] /\ pending' \subseteq Peers /\ levelled' \subseteq Peers
        BY <1>1, <2>1, CallOkEffect, ResultEffect, TaskStepEffect
      <3>. QED  BY <1>1, <1>6, <3>1 DEF TakeAnswer, TypeInv, WriterTypes, ClientTypes, PeerTypes
    <2>2. CASE CallError(p, c)
      <3>1. /\ tracked' \in [Peers -> Tracked] /\ breaker' \in [Peers -> Breakers] /\ calls' \in [Peers -> SUBSET Call]
            /\ write' \in Writes /\ tasks' \in [Peers -> [TaskKinds -> Task]] /\ pending' \subseteq Peers /\ levelled' \subseteq Peers
        BY <1>1, <2>2, CallErrorEffect, ResultEffect, TaskStepEffect
      <3>. QED  BY <1>1, <1>6, <3>1 DEF TakeAnswer, TypeInv, WriterTypes, ClientTypes, PeerTypes
    <2>. QED  BY <1>6, <2>1, <2>2 DEF TakeAnswer
  <1>7. ASSUME NEW c \in calls[p], CallFails(p, c) PROVE TypeInv'
    <2>1. /\ tracked' \in [Peers -> Tracked] /\ breaker' \in [Peers -> Breakers] /\ calls' \in [Peers -> SUBSET Call]
          /\ write' \in Writes /\ tasks' \in [Peers -> [TaskKinds -> Task]] /\ pending' \subseteq Peers /\ levelled' \subseteq Peers
      BY <1>1, <1>7, CallErrorEffect, ResultEffect, TaskStepEffect DEF CallFails
    <2>2. PICK d \in Call, e \in Call : d = [c EXCEPT !.live = FALSE] /\ e = [c EXCEPT !.live = FALSE, !.step = "sent"]
      BY <1>1, CallType
    <2>3. \/ orphans' = orphans
          \/ orphans' = [orphans EXCEPT ![p] = orphans[p] \cup {d}]
          \/ orphans' = [orphans EXCEPT ![p] = orphans[p] \cup {e}]
      BY <1>1, <1>7, <2>2 DEF CallFails
    <2>4. orphans' \in [Peers -> SUBSET Call]
      BY <1>1, <2>3
    <2>. QED  BY <1>1, <1>7, <2>1, <2>4 DEF CallFails, TypeInv, WriterTypes, ClientTypes, PeerTypes
  <1>. QED  BY <1>2, <1>3, <1>4, <1>5, <1>6, <1>7

\* The handlers of the peers.
LEMMA PeerTypesKept == Inv /\ PeerNext => TypeInv'
  <1>. SUFFICES ASSUME Inv, NEW p \in Peers, NEW r \in Requests(p),
                       HandlerRead(p, r) \/ HandlerWrite(p, r) \/ LateRequest(p, r)
                PROVE  TypeInv'
    BY DEF PeerNext
  <1>. USE DEF originVars, writerVars, clientVars, peerVars, closeVars
  <1>1. /\ TypeInv /\ r \in Call /\ replica[p] \in Replica
        /\ calls \in [Peers -> SUBSET Call] /\ orphans \in [Peers -> SUBSET Call] /\ replica \in [Peers -> Replica]
    BY DEF Inv, TypeInv, ClientTypes, PeerTypes, Requests
  <1>2. PICK f \in Seq(Entries), g \in Seq(Entries), c \in Call, d \in Call :
          /\ f = Written(replica[p], r).file /\ c = Written(replica[p], r).call
          /\ g = Handled(replica[p], r).file /\ d = Found(replica[p], r)
          /\ Len(replica[p].file) <= Len(f) /\ Len(replica[p].file) <= Len(g)
    BY <1>1, HandledType
  <1>3. \A m \in Call : Handle(p, r, m) => calls' \in [Peers -> SUBSET Call] /\ orphans' \in [Peers -> SUBSET Call]
    <2>1. SUFFICES ASSUME NEW m \in Call, Handle(p, r, m)
                   PROVE  calls' \in [Peers -> SUBSET Call] /\ orphans' \in [Peers -> SUBSET Call]
      OBVIOUS
    <2>2. PICK cs \in SUBSET Call, os \in SUBSET Call :
            /\ cs = (calls[p] \ {r}) \cup {m}
            /\ os = IF InFlight(m) THEN (orphans[p] \ {r}) \cup {m} ELSE orphans[p] \ {r}
      BY <1>1
    <2>3. \/ calls' = [calls EXCEPT ![p] = cs] /\ orphans' = orphans
          \/ calls' = calls /\ orphans' = [orphans EXCEPT ![p] = os]
      BY <1>1, <2>1, <2>2 DEF Handle
    <2>. QED  BY <1>1, <2>3
  <1>4. \A h \in Seq(Entries) : Len(replica[p].file) <= Len(h) => [replica EXCEPT ![p].file = h] \in [Peers -> Replica]
    <2>1. \A h \in Seq(Entries) : Len(replica[p].file) <= Len(h) => [replica[p] EXCEPT !.file = h] \in Replica
      BY <1>1, ReplicaType
    <2>. QED  BY <1>1, <2>1
  <1>5. CASE HandlerRead(p, r)
    <2>1. calls' \in [Peers -> SUBSET Call] /\ orphans' \in [Peers -> SUBSET Call]
      BY <1>2, <1>3, <1>5 DEF HandlerRead
    <2>. QED  BY <1>1, <1>5, <2>1 DEF HandlerRead, TypeInv, WriterTypes, ClientTypes, PeerTypes
  <1>6. CASE HandlerWrite(p, r)
    <2>1. calls' \in [Peers -> SUBSET Call] /\ orphans' \in [Peers -> SUBSET Call]
      BY <1>2, <1>3, <1>6 DEF HandlerWrite
    <2>2. replica' \in [Peers -> Replica]
      BY <1>2, <1>4, <1>6 DEF HandlerWrite
    <2>. QED  BY <1>1, <1>6, <2>1, <2>2 DEF HandlerWrite, TypeInv, WriterTypes, ClientTypes, PeerTypes
  <1>7. CASE LateRequest(p, r)
    <2>1. replica' \in [Peers -> Replica]
      BY <1>2, <1>4, <1>7 DEF LateRequest
    <2>2. orphans' \in [Peers -> SUBSET Call]
      BY <1>1, <1>7 DEF LateRequest
    <2>. QED  BY <1>1, <1>7, <2>1, <2>2 DEF LateRequest, TypeInv, WriterTypes, ClientTypes, PeerTypes
  <1>. QED  BY <1>5, <1>6, <1>7

\* What CatchUpRead does: from position pos of the file on it sends a chunk, or it is
\* done; u is the task afterwards.
CatchUpChunk(p, k, pos, chunk, done, u) ==
    /\ chunk = SubSeq(file, pos + 1, Len(file))
    /\ tasks[p][k].stage = "read" => pos = tasks[p][k].pos
    /\ tasks[p][k].stage # "read" => pos \in {0, tracked[p].acked} /\ ~done
    /\ done => chunk = <<>> /\ u = NoTask
    /\ ~done => u # NoTask /\ u.stage = "call" /\ u.pos = pos
    /\ SetTask(p, k, u)
    /\ calls' = IF done THEN calls ELSE [calls EXCEPT ![p] = @ \cup {NewCall(k, pos, chunk, "queued")}]
    /\ CloseVisited(p, k, IF done THEN NoTask ELSE tasks[p][k], TRUE)

\* Every read of a catch-up is of that form.
LEMMA CatchUpEffect ==
  ASSUME TypeInv, NEW p \in Peers, NEW k \in TaskKinds, CatchUpRead(p, k)
  PROVE  \E pos \in Nat, chunk \in Seq(Entries), done \in BOOLEAN, u \in Task :
            CatchUpChunk(p, k, pos, chunk, done, u)
  <1>. DEFINE t == tasks[p][k]
              from == IF t.stage = "read" THEN t.from
                      ELSE IF tracked[p].known /\ ~t.again THEN tracked[p].acked ELSE 0
              pos == IF t.stage = "read" THEN t.pos ELSE from
              chunk == SubSeq(file, pos + 1, Len(file))
              done == chunk = <<>> /\ pos # from
              u == IF done THEN NoTask ELSE [t EXCEPT !.stage = "call", !.from = from, !.pos = pos]
  <1>1. /\ SetTask(p, k, u)
        /\ calls' = IF done THEN calls ELSE [calls EXCEPT ![p] = @ \cup {NewCall(k, pos, chunk, "queued")}]
        /\ CloseVisited(p, k, IF done THEN NoTask ELSE t, TRUE)
    BY DEF CatchUpRead
  <1>2. t \in Task /\ tracked[p].acked \in Nat /\ file \in Seq(Entries) /\ t.from \in Nat /\ t.pos \in Nat
    BY DEF TypeInv, ClientTypes, WriterTypes, Tracked, Task
  <1>3. from \in Nat /\ pos \in Nat
    BY <1>2
  <1>4. chunk \in Seq(Entries)
    <2>. HIDE DEF pos
    <2>. QED  BY <1>2, <1>3, SubSeqType
  <1>5. /\ t.stage = "read" => pos = t.pos
        /\ t.stage # "read" => pos \in {0, tracked[p].acked} /\ pos = from
    OBVIOUS
  <1>6. (done => chunk = <<>>) /\ (pos = from => ~done) /\ done \in BOOLEAN
    OBVIOUS
  <1>7. u \in Task /\ (done => u = NoTask) /\ (~done => u.stage = "call" /\ u.pos = pos)
    <2>. HIDE DEF pos, from, done, t
    <2>1. /\ [t EXCEPT !.stage = "call", !.from = from, !.pos = pos] \in Task
          /\ [t EXCEPT !.stage = "call", !.from = from, !.pos = pos].stage = "call"
          /\ [t EXCEPT !.stage = "call", !.from = from, !.pos = pos].pos = pos
      BY <1>2, <1>3 DEF Task
    <2>. QED  BY <2>1, TaskType
  <1>. HIDE DEF from, pos, chunk, done, u
  <1>8. chunk = SubSeq(file, pos + 1, Len(file))
    BY DEF chunk
  <1>9. ~done => u # NoTask
    BY <1>7 DEF NoTask
  <1>10. CatchUpChunk(p, k, pos, chunk, done, u)
    BY <1>1, <1>5, <1>6, <1>7, <1>8, <1>9 DEF CatchUpChunk
  <1>. QED  BY <1>3, <1>4, <1>6, <1>7, <1>10

\* An empty rest of the file: the position is at its end.
LEMMA EmptyRest ==
  ASSUME file \in Seq(Entries), NEW pos \in Nat, SubSeq(file, pos + 1, Len(file)) = <<>>
  PROVE  Len(file) <= pos
  <1>1. PICK f \in Seq(Entries) : f = file
    OBVIOUS
  <1>2. PICK m \in Nat \ {0} : m = pos + 1
    OBVIOUS
  <1>3. Len(SubSeq(f, m, Len(f))) = IF m <= Len(f) THEN Len(f) - m + 1 ELSE 0
    BY SubSeqType
  <1>4. Len(f) \in Nat /\ Len(SubSeq(f, m, Len(f))) = 0
    <2>1. SubSeq(f, m, Len(f)) = <<>>
      BY <1>1, <1>2
    <2>. QED  BY <2>1
  <1>5. ~(m <= Len(f))
    BY <1>3, <1>4
  <1>. QED  BY <1>1, <1>2, <1>4, <1>5

\* The preparation and the catch-ups.
LEMMA TaskTypesKept == Inv /\ TaskNext => TypeInv'
  <1>. SUFFICES ASSUME Inv, NEW p \in Peers,
                       \/ OpenPeer(p) \/ RetryPrepare(p)
                       \/ \E k \in TaskKinds : CatchUpRead(p, k) \/ CatchUpPrepare(p, k) \/ CatchUpGone(p, k)
                PROVE  TypeInv'
    BY DEF TaskNext
  <1>. USE DEF originVars, writerVars, clientVars, peerVars, closeVars
  <1>1. TypeInv /\ tasks \in [Peers -> [TaskKinds -> Task]] /\ calls \in [Peers -> SUBSET Call]
    BY DEF Inv, TypeInv, ClientTypes
  <1>2. "prepare" \in TaskKinds /\ "close" \in TaskKinds
    BY DEF TaskKinds
  <1>3. NoTask \in Task /\ \A s \in {"retry", "start"}, b \in BOOLEAN :
                              [NoTask EXCEPT !.stage = s] \in Task /\ [NoTask EXCEPT !.stage = s, !.again = b] \in Task
    BY DEF NoTask, Task
  <1>4. CASE OpenPeer(p)
    <2>1. replica' \in [Peers -> Replica] /\ tracked' \in [Peers -> Tracked]
      BY <1>1, <1>4, PrepareEffect DEF OpenPeer
    <2>2. tasks' \in [Peers -> [TaskKinds -> Task]]
      BY <1>1, <1>2, <1>3, <1>4, SetTaskEffect DEF OpenPeer
    <2>. QED  BY <1>1, <1>4, <2>1, <2>2 DEF OpenPeer, TypeInv, WriterTypes, ClientTypes, PeerTypes, Stages
  <1>5. CASE RetryPrepare(p)
    <2>1. replica' \in [Peers -> Replica] /\ tracked' \in [Peers -> Tracked]
      BY <1>1, <1>5, PrepareEffect DEF RetryPrepare, TypeInv, ClientTypes, PeerTypes
    <2>2. tasks' = tasks \/ \E t \in Task : SetTask(p, "prepare", t)
      BY <1>3, <1>5 DEF RetryPrepare, SetTask
    <2>3. tasks' \in [Peers -> [TaskKinds -> Task]]
      BY <1>1, <1>2, <2>2, SetTaskEffect
    <2>. QED  BY <1>1, <1>5, <2>1, <2>3 DEF RetryPrepare, TypeInv, WriterTypes, ClientTypes, PeerTypes
  <1>6. ASSUME NEW k \in TaskKinds, CatchUpRead(p, k) PROVE TypeInv'
    <2>1. PICK pos \in Nat, chunk \in Seq(Entries), done \in BOOLEAN, u \in Task :
            CatchUpChunk(p, k, pos, chunk, done, u)
      BY <1>1, <1>6, CatchUpEffect
    <2>2. PICK c \in Call : c = NewCall(k, pos, chunk, "queued")
      BY CallType
    <2>3. calls' \in [Peers -> SUBSET Call]
      BY <1>1, <2>1, <2>2 DEF CatchUpChunk
    <2>4. tasks' \in [Peers -> [TaskKinds -> Task]]
      BY <1>1, <2>1, SetTaskEffect DEF CatchUpChunk
    <2>5. tasks[p][k] \in Task
      BY <1>1
    <2>6. pending' \subseteq Peers /\ levelled' \subseteq Peers
      BY <1>1, <1>3, <2>1, <2>5, CloseVisitedEffect DEF CatchUpChunk
    <2>. QED  BY <1>1, <1>6, <2>3, <2>4, <2>6 DEF CatchUpRead, TypeInv, WriterTypes, ClientTypes, PeerTypes
  <1>7. ASSUME NEW k \in TaskKinds, CatchUpPrepare(p, k) PROVE TypeInv'
    <2>1. replica' \in [Peers -> Replica] /\ tracked' \in [Peers -> Tracked]
      BY <1>1, <1>7, PrepareEffect DEF CatchUpPrepare
    <2>2. tasks' \in [Peers -> [TaskKinds -> Task]]
      BY <1>1, <1>3, <1>7, SetTaskEffect DEF CatchUpPrepare
    <2>3. pending' \subseteq Peers /\ levelled' \subseteq Peers
      BY <1>1, <1>3, <1>7, CloseVisitedEffect DEF CatchUpPrepare, TypeInv, WriterTypes
    <2>. QED  BY <1>1, <1>7, <2>1, <2>2, <2>3 DEF CatchUpPrepare, TypeInv, WriterTypes, ClientTypes, PeerTypes
  <1>8. ASSUME NEW k \in TaskKinds, CatchUpGone(p, k) PROVE TypeInv'
    <2>1. tasks' \in [Peers -> [TaskKinds -> Task]]
      BY <1>1, <1>3, <1>8, SetTaskEffect DEF CatchUpGone
    <2>. QED  BY <1>1, <1>8, <2>1 DEF CatchUpGone, TypeInv, WriterTypes, ClientTypes, PeerTypes
  <1>. QED  BY <1>4, <1>5, <1>6, <1>7, <1>8

\* The close, the upload and the purge.
LEMMA CloseTypesKept == Inv /\ CloseNext => TypeInv'
  <1>. SUFFICES ASSUME Inv, CloseNext PROVE TypeInv'
    OBVIOUS
  <1>. USE DEF originVars, writerVars, clientVars, peerVars, closeVars
  <1>1. /\ TypeInv /\ tasks \in [Peers -> [TaskKinds -> Task]] /\ calls \in [Peers -> SUBSET Call]
        /\ replica \in [Peers -> Replica] /\ Untracked \in Tracked
    BY TrackedType DEF Inv, TypeInv, ClientTypes, PeerTypes
  <1>2. CASE BeginClose \/ SealLocal \/ CancelClose \/ BeginPurge \/ PurgeLocal
    BY <1>1, <1>2 DEF BeginClose, SealLocal, CancelClose, BeginPurge, PurgeLocal,
                      TypeInv, WriterTypes, ClientTypes, PeerTypes, Stages
  <1>3. CASE FinishClose
    BY <1>1, <1>3 DEF FinishClose, TypeInv, WriterTypes, ClientTypes, PeerTypes, Stages
  <1>4. ASSUME NEW ok \in BOOLEAN, Upload(ok) PROVE TypeInv'
    BY <1>1, <1>4 DEF Upload, TypeInv, WriterTypes, ClientTypes, PeerTypes
  <1>5. ASSUME NEW p \in Peers, CloseVisit(p) PROVE TypeInv'
    <2>1. [NoTask EXCEPT !.stage = "start"] \in Task /\ "close" \in TaskKinds
      BY DEF NoTask, Task, TaskKinds
    <2>2. tasks' \in [Peers -> [TaskKinds -> Task]]
      BY <1>1, <1>5, <2>1, SetTaskEffect DEF CloseVisit
    <2>. QED  BY <1>1, <1>5, <2>2 DEF CloseVisit, TypeInv, WriterTypes, ClientTypes, PeerTypes
  <1>6. ASSUME NEW p \in Peers, SealPeer(p) PROVE TypeInv'
    <2>1. PICK cs \in SUBSET Call : cs = CutOff(calls[p])
      BY <1>1, CutOffType
    <2>2. PICK rep \in Replica : rep = Sealed(replica[p])
      BY <1>1, ReplicaType
    <2>3. /\ calls' = [calls EXCEPT ![p] = cs]
          /\ replica' = replica \/ replica' = [replica EXCEPT ![p] = rep]
          /\ confirmed' \subseteq confirmed \cup {p}
      BY <1>1, <1>6, <2>1, <2>2 DEF SealPeer
    <2>4. calls' \in [Peers -> SUBSET Call] /\ replica' \in [Peers -> Replica]
      BY <1>1, <2>3
    <2>. QED  BY <1>1, <1>6, <2>3, <2>4 DEF SealPeer, TypeInv, WriterTypes, ClientTypes, PeerTypes
  <1>7. ASSUME NEW p \in Peers, PurgePeer(p) PROVE TypeInv'
    <2>1. PICK rep \in Replica : rep = Deleted(replica[p])
      BY <1>1, ReplicaType
    <2>2. replica' = replica \/ replica' = [replica EXCEPT ![p] = rep]
      BY <1>1, <1>7, <2>1 DEF PurgePeer
    <2>3. replica' \in [Peers -> Replica]
      BY <1>1, <2>2
    <2>. QED  BY <1>1, <1>7, <2>3 DEF PurgePeer, TypeInv, WriterTypes, ClientTypes, PeerTypes
  <1>. QED  BY <1>2, <1>3, <1>4, <1>5, <1>6, <1>7 DEF CloseNext

\* Restarts and crashes.
LEMMA CrashTypesKept == Inv /\ CrashNext => TypeInv'
  <1>. SUFFICES ASSUME Inv, CrashNext PROVE TypeInv'
    OBVIOUS
  <1>. USE DEF originVars, writerVars, clientVars, peerVars, closeVars
  <1>1. /\ TypeInv /\ calls \in [Peers -> SUBSET Call] /\ orphans \in [Peers -> SUBSET Call]
        /\ replica \in [Peers -> Replica] /\ Untracked \in Tracked /\ RecordSuccess \in Breakers /\ NoTask \in Task
    BY TrackedType, BreakerType, TaskType DEF Inv, TypeInv, ClientTypes, PeerTypes
  <1>2. ASSUME NEW p \in Peers, NEW class \in {"restart", "power"}, PeerRestarts(p, class) PROVE TypeInv'
    <2>1. replica[p].file \in Seq(Entries) /\ replica[p].synced \in Nat /\ replica[p].synced <= Len(replica[p].file)
      BY <1>1 DEF Replica, ReplicaRecord
    <2>. DEFINE kept == SubSeq(replica[p].file, 1, replica[p].synced)
    <2>2. kept \in Seq(Entries) /\ Len(kept) = replica[p].synced
      BY <2>1, SubSeqProperties
    <2>. HIDE DEF kept
    <2>3. PICK f \in Seq(Entries) :
            /\ f = (IF class = "power" THEN kept ELSE replica[p].file)
            /\ replica[p].synced <= Len(f)
      <3>1. CASE class = "power"
        BY <2>1, <2>2, <3>1
      <3>2. CASE class # "power"
        BY <2>1, <3>2
      <3>. QED  BY <3>1, <3>2
    <2>4. PICK rep \in Replica : rep = [replica[p] EXCEPT !.live = FALSE, !.sealed = FALSE, !.file = f]
      <3>1. PICK old \in Replica : old = replica[p]
        BY <1>1
      <3>. DEFINE x == [old EXCEPT !.live = FALSE, !.sealed = FALSE, !.file = f]
      <3>2. x \in ReplicaRecord /\ x.synced = old.synced /\ x.file = f
        BY DEF Replica, ReplicaRecord
      <3>. HIDE DEF x
      <3>3. x \in Replica
        BY <2>3, <3>1, <3>2 DEF Replica
      <3>. QED  BY <3>1, <3>3 DEF x
    <2>5. replica' = [replica EXCEPT ![p] = rep]
      BY <1>1, <1>2, <2>3, <2>4 DEF PeerRestarts, kept
    <2>6. replica' \in [Peers -> Replica]
      BY <1>1, <2>5
    <2>7. PICK cs \in SUBSET Call :
            cs = {IF InFlight(c) THEN [c EXCEPT !.step = "answered", !.reply = "refused"] ELSE c : c \in calls[p]}
      <3>1. \A c \in calls[p] : (IF InFlight(c) THEN [c EXCEPT !.step = "answered", !.reply = "refused"] ELSE c) \in Call
        BY <1>1, CallType
      <3>. QED  BY <3>1
    <2>8. calls' \in [Peers -> SUBSET Call] /\ orphans' \in [Peers -> SUBSET Call]
      BY <1>1, <1>2, <2>7 DEF PeerRestarts
    <2>. QED  BY <1>1, <1>2, <2>6, <2>8 DEF PeerRestarts, TypeInv, WriterTypes, ClientTypes, PeerTypes
  <1>3. CASE OriginCrashes
    <2>1. \A p \in Peers : orphans[p] \cup {[c EXCEPT !.live = FALSE] : c \in {d \in calls[p] : InFlight(d)}} \in SUBSET Call
      <3>1. \A p \in Peers : \A c \in calls[p] : [c EXCEPT !.live = FALSE] \in Call
        BY <1>1, CallType
      <3>. QED  BY <1>1, <3>1
    <2>2. orphans' \in [Peers -> SUBSET Call]
      BY <1>3, <2>1 DEF OriginCrashes
    <2>3. /\ tracked' \in [Peers -> Tracked] /\ breaker' \in [Peers -> Breakers]
          /\ calls' \in [Peers -> SUBSET Call] /\ tasks' \in [Peers -> [TaskKinds -> Task]]
      BY <1>1, <1>3 DEF OriginCrashes
    <2>. QED  BY <1>1, <1>3, <2>2, <2>3 DEF OriginCrashes, TypeInv, WriterTypes, ClientTypes, PeerTypes, Stages
  <1>. QED  BY <1>2, <1>3 DEF CrashNext

----------------------------------------------------------------------------
(* The file and its upload *)

\* Steps that change neither the file, the stage nor the upload.
LEMMA QuietKept ==
  ASSUME Inv, UNCHANGED <<file, origin, acked, upload, object>>,
         write'.entry = write.entry, write'.offset = write.offset, write'.local = write.local,
         stage' = stage \/ (stage = "opening" /\ stage' = "idle")
  PROVE  FileInv' /\ UploadInv'
  BY DEF Inv, FileInv, UploadInv, Numbered

\* Numbers stay numbers when the next entry is appended.
LEMMA AppendNumbered ==
  \A s \in Seq(Entries), e \in Entries :
     Numbered(s, 0) /\ e = Len(s) + 1 => Numbered(Append(s, e), 0) /\ Len(Append(s, e)) = e
  <1>. SUFFICES ASSUME NEW s \in Seq(Entries), NEW e \in Entries, Numbered(s, 0), e = Len(s) + 1
                PROVE  Numbered(Append(s, e), 0) /\ Len(Append(s, e)) = e
    OBVIOUS
  <1>. QED  BY DEF Numbered, Entries

\* The file and the upload are right after every step.
LEMMA FileKept == Inv /\ [Next]_vars => FileInv' /\ UploadInv'
  <1>. SUFFICES ASSUME Inv, [Next]_vars PROVE FileInv' /\ UploadInv'
    OBVIOUS
  <1>. USE DEF originVars, writerVars, clientVars, peerVars, closeVars
  <1>1. /\ TypeInv /\ file \in Seq(Entries) /\ write \in Writes /\ write.entry \in 0..MaxEntries
        /\ Len(file) \in Nat /\ MaxEntries \in Nat /\ write.offset \in Nat /\ write.local \in {"pending", "ok", "error"}
        /\ \A a \in acked : a.entry \in Nat
    BY SegmentAssumption DEF Inv, TypeInv, WriterTypes, Writes, Acks, Entries
  <1>2. CASE UNCHANGED vars
    BY <1>2, QuietKept DEF vars
  <1>3. CASE BeginWrite
    <2>1. write'.entry = write.entry + 1 /\ write'.offset = Len(file) /\ write'.local = "pending" /\ write.local = "ok"
      BY <1>3 DEF BeginWrite, Inv, FileInv
    <2>. QED  BY <1>1, <1>3, <2>1 DEF BeginWrite, Inv, FileInv, UploadInv, Numbered
  <1>4. CASE LocalWrite
    <2>1. CASE origin = "open"
      <3>1. write'.entry = write.entry /\ write'.offset = write.offset /\ write'.local = "ok" /\ write.local = "pending"
        BY <1>1, <1>4, <2>1 DEF LocalWrite, Writes
      <3>2. write.entry \in Entries /\ write.entry = Len(file) + 1
        BY <1>1, <3>1 DEF Inv, FileInv, Entries
      <3>3. file' = Append(file, write.entry) /\ Numbered(file', 0) /\ Len(file') = write.entry
        BY <1>1, <1>4, <2>1, <3>2, AppendNumbered DEF LocalWrite, Inv, FileInv
      <3>4. FileInv'
        BY <1>1, <1>4, <3>1, <3>2, <3>3 DEF LocalWrite, Inv, FileInv
      <3>. QED  BY <1>1, <1>4, <2>1, <3>4 DEF LocalWrite, Inv, UploadInv
    <2>2. CASE origin # "open"
      <3>1. /\ write'.entry = write.entry /\ write'.offset = write.offset /\ write'.local = "error"
            /\ write.local = "pending" /\ file' = file
        BY <1>1, <1>4, <2>2 DEF LocalWrite, Writes
      <3>. QED  BY <1>1, <1>4, <2>2, <3>1 DEF LocalWrite, Inv, FileInv, UploadInv, Numbered
    <2>. QED  BY <2>1, <2>2
  <1>5. CASE LocalWriteFails
    <2>1. /\ write'.entry = write.entry /\ write'.offset = write.offset /\ write'.local = "error"
          /\ write.local = "pending" /\ file' = file
      BY <1>1, <1>5 DEF LocalWriteFails, Writes
    <2>. QED  BY <1>1, <1>5, <2>1 DEF LocalWriteFails, Inv, FileInv, UploadInv, Numbered
  <1>6. CASE Acknowledge
    <2>1. write'.entry = write.entry /\ write'.offset = write.offset /\ write'.local = write.local /\ write.local = "ok"
      BY <1>1, <1>6 DEF Acknowledge, Writes
    <2>2. \A a \in acked' : a \in acked \/ a.entry = write.entry
      BY <1>6 DEF Acknowledge
    <2>. QED  BY <1>1, <1>6, <2>1, <2>2 DEF Acknowledge, Inv, FileInv, UploadInv, Numbered
  <1>7. CASE WriteFails \/ CancelWrite
    BY <1>1, <1>7 DEF WriteFails, CancelWrite, Inv, FileInv, UploadInv, Numbered
  <1>8. CASE CallNext
    <2>1. PICK p \in Peers :
            \/ \E c \in calls[p] : StartEntry(p, c) \/ Exchange(p, c) \/ Send(p, c) \/ TakeAnswer(p, c) \/ CallFails(p, c)
            \/ CoolDownOver(p)
      BY <1>8 DEF CallNext
    <2>2. CASE CoolDownOver(p)
      BY <2>2, QuietKept DEF CoolDownOver
    <2>3. ASSUME NEW c \in calls[p], Exchange(p, c) \/ Send(p, c) PROVE FileInv' /\ UploadInv'
      BY <2>3, QuietKept DEF Exchange, Send
    <2>4. ASSUME NEW c \in calls[p], StartEntry(p, c) \/ TakeAnswer(p, c) \/ CallFails(p, c)
          PROVE  FileInv' /\ UploadInv'
      <3>1. c \in Call
        BY <1>1 DEF TypeInv, ClientTypes
      <3>2. UNCHANGED write \/ \E ok \in BOOLEAN : Result(p, c, ok)
        BY <2>4 DEF StartEntry, TakeAnswer, CallFails, CallOk, CallError
      <3>3. write'.entry = write.entry /\ write'.offset = write.offset /\ write'.local = write.local
        BY <1>1, <3>1, <3>2, ResultEffect
      <3>. QED  BY <2>4, <3>3, QuietKept DEF StartEntry, TakeAnswer, CallFails
    <2>. QED  BY <2>1, <2>2, <2>3, <2>4
  <1>9. CASE PeerNext
    BY <1>9, QuietKept DEF PeerNext, HandlerRead, HandlerWrite, LateRequest
  <1>10. CASE TaskNext
    <2>1. CASE \E p \in Peers : OpenPeer(p) \/ RetryPrepare(p)
      <3>1. /\ UNCHANGED <<file, origin, acked, upload, object, write>>
            /\ stage' = stage \/ (stage = "opening" /\ stage' = "idle")
        BY <2>1 DEF OpenPeer, RetryPrepare
      <3>2. write' = write
        BY <3>1
      <3>. QED  BY <3>1, <3>2, QuietKept
    <2>2. CASE \E p \in Peers, k \in TaskKinds : CatchUpRead(p, k) \/ CatchUpPrepare(p, k) \/ CatchUpGone(p, k)
      <3>1. PICK p \in Peers, k \in TaskKinds : CatchUpRead(p, k) \/ CatchUpPrepare(p, k) \/ CatchUpGone(p, k)
        BY <2>2
      <3>2. CatchUpRead(p, k) => UNCHANGED <<file, origin, acked, upload, object, write, stage>>
        BY Zenon DEF CatchUpRead
      <3>3. CatchUpPrepare(p, k) \/ CatchUpGone(p, k) => UNCHANGED <<file, origin, acked, upload, object, write, stage>>
        BY DEF CatchUpPrepare, CatchUpGone
      <3>4. UNCHANGED <<file, origin, acked, upload, object, write, stage>>
        BY <3>1, <3>2, <3>3
      <3>. QED  BY <3>4, QuietKept
    <2>. QED  BY <1>10, <2>1, <2>2 DEF TaskNext
  <1>11. CASE CloseNext
    <2>1. CASE \E p \in Peers : CloseVisit(p) \/ SealPeer(p) \/ PurgePeer(p)
      BY <2>1, QuietKept DEF CloseVisit, SealPeer, PurgePeer
    <2>2. CASE BeginClose \/ SealLocal \/ CancelClose \/ BeginPurge \/ PurgeLocal
      BY <1>1, <2>2 DEF BeginClose, SealLocal, CancelClose, BeginPurge, PurgeLocal, Inv, FileInv, UploadInv, Numbered
    <2>3. CASE FinishClose
      BY <1>1, <2>3 DEF FinishClose, Inv, FileInv, UploadInv, Numbered
    <2>4. ASSUME NEW ok \in BOOLEAN, Upload(ok) PROVE FileInv' /\ UploadInv'
      BY <1>1, <2>4 DEF Upload, Inv, FileInv, UploadInv, Numbered
    <2>. QED  BY <1>11, <2>1, <2>2, <2>3, <2>4 DEF CloseNext
  <1>12. CASE CrashNext
    <2>1. CASE OriginCrashes
      BY <1>1, <2>1 DEF OriginCrashes, Inv, FileInv, UploadInv, Numbered
    <2>2. CASE \E p \in Peers, class \in {"restart", "power"} : PeerRestarts(p, class)
      BY <2>2, QuietKept DEF PeerRestarts
    <2>. QED  BY <1>12, <2>1, <2>2 DEF CrashNext
  <1>. QED  BY <1>2, <1>3, <1>4, <1>5, <1>6, <1>7, <1>8, <1>9, <1>10, <1>11, <1>12 DEF Next, WriterNext

\* The first state is right.
LEMMA InitInv == Init => Inv
  <1>. SUFFICES ASSUME Init PROVE Inv
    OBVIOUS
  <1>1. WriterTypes
    BY SegmentAssumption DEF Init, WriterTypes, Writes, NoWrite, Stages
  <1>2. ClientTypes
    <2>1. [failures |-> 0, cooling |-> FALSE] \in Breakers
      BY DEF Breakers
    <2>. QED  BY <2>1, TrackedType, TaskType DEF Init, ClientTypes
  <1>3. PeerTypes
    BY ReplicaType DEF Init, PeerTypes
  <1>4. FileInv
    BY DEF Init, FileInv, Numbered, NoWrite
  <1>5. UploadInv
    BY DEF Init, UploadInv
  <1>. QED  BY <1>1, <1>2, <1>3, <1>4, <1>5 DEF Inv, TypeInv

\* Every step of the originator, of a peer or of the outside keeps the invariant.
LEMMA NextInv == Inv /\ [Next]_vars => Inv'
  <1>. SUFFICES ASSUME Inv, [Next]_vars PROVE Inv'
    OBVIOUS
  <1>1. CASE UNCHANGED vars
    <2>1. TypeInv'
      BY <1>1 DEF vars, originVars, writerVars, clientVars, peerVars, closeVars,
                  Inv, TypeInv, WriterTypes, ClientTypes, PeerTypes
    <2>. QED  BY <2>1, FileKept DEF Inv
  <1>2. CASE Next
    <2>1. TypeInv'
      BY <1>2, WriterTypesKept, CallTypesKept, PeerTypesKept, TaskTypesKept, CloseTypesKept, CrashTypesKept DEF Next
    <2>. QED  BY <2>1, FileKept DEF Inv
  <1>. QED  BY <1>1, <1>2

\* The invariant of the originator and the types of everything, for every schedule
\* and every fault.
THEOREM Safety == Spec => []Inv
  BY InitInv, NextInv, PTL DEF Spec

\* PurgedIsUploaded: when PurgeSegment is sent, the uploaded object is the whole
\* sealed file and has every acknowledged entry, whatever was cancelled, retried,
\* restarted or lost before (uploader and purge loop of the sidecar).
THEOREM PurgeAfterUpload == Spec => []PurgedIsUploaded
  <1>1. Inv => PurgedIsUploaded
    BY DEF Inv, FileInv, UploadInv, PurgedIsUploaded
  <1>. QED  BY <1>1, Safety, PTL

----------------------------------------------------------------------------
(* A confirmed seal *)

\* A sealed replica that is live is never written, adopted or reset.
LEMMA SealedKept ==
  ASSUME TypeInv, NEW p \in Peers, replica[p].live, replica[p].sealed
  PROVE  /\ \A r \in Call : Written(replica[p], r).file = replica[p].file
         /\ \A r \in Call : Handled(replica[p], r).file = replica[p].file
         /\ Prepared(replica[p]) = replica[p]
         /\ Sealed(replica[p]).exists = replica[p].exists /\ Sealed(replica[p]).live /\ Sealed(replica[p]).sealed /\ Sealed(replica[p]).file = replica[p].file
  <1>1. replica[p] \in Replica
    BY DEF TypeInv, PeerTypes
  <1>2. PICK rep \in Replica : rep = replica[p]
    BY <1>1
  <1>3. \A r : Written(rep, r).file = rep.file
    BY <1>2 DEF Written, Persisted
  <1>4. \A r : Handled(rep, r).file = rep.file
    BY <1>2, <1>3 DEF Handled
  <1>5. Prepared(rep) = rep
    BY <1>2 DEF Prepared
  <1>6. Sealed(rep).exists = rep.exists /\ Sealed(rep).live /\ Sealed(rep).sealed /\ Sealed(rep).file = rep.file
    BY <1>2 DEF Sealed, Replica, ReplicaRecord
  <1>. QED  BY <1>2, <1>3, <1>4, <1>5, <1>6

\* Copies that may go stay so.
LEMMA PurgeStays == Inv /\ [Next]_vars /\ PurgeBegan => PurgeBegan'
  <1>. SUFFICES ASSUME Inv, [Next]_vars, PurgeBegan PROVE PurgeBegan'
    OBVIOUS
  <1>. USE DEF originVars, writerVars, clientVars, peerVars, closeVars, PurgeBegan
  <1>1. upload = "done" /\ stage \in {"purging", "dead"}
    BY DEF Inv, UploadInv
  <1>2. CASE UNCHANGED vars
    BY <1>1, <1>2 DEF vars
  <1>3. CASE WriterNext
    BY <1>1, <1>3 DEF WriterNext, BeginWrite, LocalWrite, LocalWriteFails, Acknowledge, WriteFails, CancelWrite
  <1>4. CASE CallNext
    <2>1. ASSUME NEW p \in Peers, NEW c, Exchange(p, c) PROVE UNCHANGED <<stage, upload>>
      BY <2>1, Zenon DEF Exchange
    <2>2. ASSUME NEW p \in Peers, NEW c, StartEntry(p, c) \/ Send(p, c) \/ TakeAnswer(p, c) \/ CallFails(p, c) \/ CoolDownOver(p)
          PROVE  UNCHANGED <<stage, upload>>
      BY <2>2 DEF StartEntry, Send, TakeAnswer, CallFails, CoolDownOver
    <2>3. UNCHANGED <<stage, upload>>
      BY <1>4, <2>1, <2>2 DEF CallNext
    <2>. QED  BY <1>1, <2>3
  <1>5. CASE PeerNext
    BY <1>1, <1>5 DEF PeerNext, HandlerRead, HandlerWrite, LateRequest
  <1>6. CASE TaskNext
    <2>1. CASE \E p \in Peers : OpenPeer(p) \/ RetryPrepare(p)
      BY <1>1, <2>1 DEF OpenPeer, RetryPrepare
    <2>2. ASSUME NEW p \in Peers, NEW k \in TaskKinds, CatchUpRead(p, k) PROVE PurgeBegan'
      <3>1. UNCHANGED <<stage, upload>>
        BY <2>2, Zenon DEF CatchUpRead
      <3>. QED  BY <1>1, <3>1
    <2>3. CASE \E p \in Peers, k \in TaskKinds : CatchUpPrepare(p, k) \/ CatchUpGone(p, k)
      BY <1>1, <2>3 DEF CatchUpPrepare, CatchUpGone
    <2>. QED  BY <1>6, <2>1, <2>2, <2>3 DEF TaskNext
  <1>7. CASE CloseNext
    BY <1>1, <1>7 DEF CloseNext, BeginClose, SealLocal, FinishClose, CancelClose, CloseVisit, SealPeer, PurgePeer,
                      Upload, BeginPurge, PurgeLocal
  <1>8. CASE CrashNext
    BY <1>1, <1>8 DEF CrashNext, PeerRestarts, OriginCrashes
  <1>. QED  BY <1>2, <1>3, <1>4, <1>5, <1>6, <1>7, <1>8 DEF Next

\* Every step keeps what a confirmation says.
LEMMA SealInvKept == ASSUME ReplicasKept PROVE Inv /\ SealInv /\ [Next]_vars => SealInv'
  <1>. SUFFICES ASSUME Inv, SealInv, [Next]_vars, ~PurgeBegan', NEW q \in confirmed'
                PROVE  (replica[q].exists /\ replica[q].live /\ replica[q].sealed /\ replica[q].file = file /\ origin # "open")'
    BY DEF SealInv
  <1>. USE DEF originVars, writerVars, clientVars, peerVars, closeVars
  <1>1. /\ TypeInv /\ q \in Peers
        /\ replica \in [Peers -> Replica] /\ calls \in [Peers -> SUBSET Call] /\ orphans \in [Peers -> SUBSET Call]
    BY NextInv DEF Inv, TypeInv, PeerTypes, ClientTypes, WriterTypes
  <1>2. ~PurgeBegan
    BY PurgeStays
  <1>3. q \in confirmed => replica[q].exists /\ replica[q].live /\ replica[q].sealed /\ replica[q].file = file /\ origin # "open"
    BY <1>2 DEF SealInv
  <1>4. \A p \in Peers, r \in Call : q \in confirmed =>
           /\ [replica EXCEPT ![p].file = Written(replica[p], r).file][q] = replica[q]
           /\ [replica EXCEPT ![p].file = Handled(replica[p], r).file][q] = replica[q]
    <2>1. SUFFICES ASSUME NEW p \in Peers, NEW r \in Call, q \in confirmed
                   PROVE  /\ [replica EXCEPT ![p].file = Written(replica[p], r).file][q] = replica[q]
                          /\ [replica EXCEPT ![p].file = Handled(replica[p], r).file][q] = replica[q]
      OBVIOUS
    <2>2. CASE p = q
      <3>1. Written(replica[p], r).file = replica[q].file /\ Handled(replica[p], r).file = replica[q].file
        BY <1>1, <1>3, <2>1, <2>2, SealedKept
      <3>2. PICK rep \in Replica : rep = replica[q]
        BY <1>1
      <3>3. [rep EXCEPT !.file = rep.file] = rep
        BY DEF Replica, ReplicaRecord
      <3>. QED  BY <1>1, <2>2, <3>1, <3>2, <3>3
    <2>3. CASE p # q
      BY <1>1, <2>3
    <2>. QED  BY <2>2, <2>3
  <1>5. CASE UNCHANGED vars
    BY <1>3, <1>5 DEF vars
  <1>6. CASE WriterNext
    BY <1>3, <1>6 DEF WriterNext, BeginWrite, LocalWrite, LocalWriteFails, Acknowledge, WriteFails, CancelWrite
  <1>7. CASE CallNext
    <2>1. PICK p \in Peers :
            \/ \E c \in calls[p] : StartEntry(p, c) \/ Exchange(p, c) \/ Send(p, c) \/ TakeAnswer(p, c) \/ CallFails(p, c)
            \/ CoolDownOver(p)
      BY <1>7 DEF CallNext
    <2>2. ASSUME NEW c \in calls[p], Exchange(p, c) PROVE q \in confirmed /\ replica'[q] = replica[q] /\ UNCHANGED <<file, origin>>
      <3>1. c \in Call /\ replica' = [replica EXCEPT ![p].file = Handled(replica[p], c).file] /\ confirmed' = confirmed
        BY <1>1, <2>2 DEF Exchange
      <3>2. UNCHANGED <<file, origin>>
        BY <2>2, Zenon DEF Exchange
      <3>. QED  BY <1>4, <3>1, <3>2
    <2>3. CASE ~\E c \in calls[p] : Exchange(p, c)
      BY <1>3, <2>1, <2>3 DEF StartEntry, Send, TakeAnswer, CallFails, CoolDownOver
    <2>. QED  BY <1>3, <2>2, <2>3
  <1>8. CASE PeerNext
    <2>0. PICK p \in Peers : \E r \in Requests(p) : HandlerRead(p, r) \/ HandlerWrite(p, r) \/ LateRequest(p, r)
      BY <1>8 DEF PeerNext
    <2>1. PICK r \in Requests(p) : HandlerRead(p, r) \/ HandlerWrite(p, r) \/ LateRequest(p, r)
      BY <2>0
    <2>2. r \in Call
      BY <1>1 DEF Requests
    <2>3. CASE HandlerRead(p, r)
      BY <1>3, <2>3 DEF HandlerRead
    <2>4. CASE HandlerWrite(p, r)
      BY <1>3, <1>4, <2>2, <2>4 DEF HandlerWrite
    <2>5. CASE LateRequest(p, r)
      BY <1>3, <1>4, <2>2, <2>5 DEF LateRequest
    <2>. QED  BY <2>1, <2>3, <2>4, <2>5
  <1>9. CASE TaskNext
    <2>1. PICK p \in Peers : \/ OpenPeer(p) \/ RetryPrepare(p)
                             \/ \E k \in TaskKinds : CatchUpRead(p, k) \/ CatchUpPrepare(p, k) \/ CatchUpGone(p, k)
      BY <1>9 DEF TaskNext
    <2>2. UNCHANGED <<file, origin, confirmed>> /\ (UNCHANGED replica \/ \E ok \in BOOLEAN : Prepare(p, ok))
      <3>1. OpenPeer(p) \/ RetryPrepare(p) => UNCHANGED <<file, origin, confirmed>> /\ (UNCHANGED replica \/ \E ok \in BOOLEAN : Prepare(p, ok))
        BY DEF OpenPeer, RetryPrepare
      <3>2. \A k \in TaskKinds : CatchUpRead(p, k) => UNCHANGED <<file, origin, confirmed, replica>>
        BY Zenon DEF CatchUpRead
      <3>3. \A k \in TaskKinds : CatchUpPrepare(p, k) \/ CatchUpGone(p, k) =>
                                   UNCHANGED <<file, origin, confirmed>> /\ (UNCHANGED replica \/ \E ok \in BOOLEAN : Prepare(p, ok))
        BY DEF CatchUpPrepare, CatchUpGone
      <3>. QED  BY <2>1, <3>1, <3>2, <3>3
    <2>3. replica'[q] = replica[q]
      BY <1>1, <1>3, <2>2, PrepareEffect, SealedKept
    <2>. QED  BY <1>3, <2>2, <2>3
  <1>10. CASE CloseNext
    <2>1. ASSUME NEW p \in Peers, SealPeer(p)
          PROVE  (replica[q].exists /\ replica[q].live /\ replica[q].sealed /\ replica[q].file = file /\ origin # "open")'
      <3>1. UNCHANGED <<file, origin>> /\ origin # "open"
        BY <2>1 DEF SealPeer, Inv, UploadInv
      <3>2. PICK rep \in Replica : rep = replica[p]
        BY <1>1
      <3>3. rep.exists => Sealed(rep).exists /\ Sealed(rep).live /\ Sealed(rep).sealed /\ Sealed(rep).file = rep.file
        BY DEF Sealed, Replica, ReplicaRecord
      <3>4. CASE p # q
        <4>1. q \in confirmed
          BY <2>1, <3>4 DEF SealPeer
        <4>2. replica'[q] = replica[q]
          BY <1>1, <2>1, <3>4 DEF SealPeer
        <4>. QED  BY <1>3, <3>1, <4>1, <4>2
      <3>5. CASE p = q
        <4>1. q \in confirmed \/ (SealMatches(p) /\ replica' = [replica EXCEPT ![p] = Sealed(rep)])
          BY <2>1, <3>2, <3>5 DEF SealPeer
        <4>2. replica' = replica \/ replica' = [replica EXCEPT ![p] = Sealed(rep)]
          BY <2>1, <3>2 DEF SealPeer
        <4>3. CASE SealMatches(p) /\ replica' = [replica EXCEPT ![p] = Sealed(rep)]
          BY <1>1, <3>1, <3>2, <3>3, <3>5, <4>3 DEF SealMatches
        <4>4. CASE q \in confirmed
          <5>1. Sealed(rep).exists /\ Sealed(rep).live /\ Sealed(rep).sealed /\ Sealed(rep).file = rep.file
            BY <1>1, <1>3, <3>2, <3>5, <4>4, SealedKept
          <5>. QED  BY <1>1, <1>3, <3>1, <3>2, <3>5, <4>2, <4>4, <5>1
        <4>. QED  BY <4>1, <4>3, <4>4
      <3>. QED  BY <3>4, <3>5
    <2>2. ASSUME NEW p \in Peers, PurgePeer(p) PROVE FALSE
      BY <1>2, <2>2 DEF PurgePeer, PurgeBegan
    <2>3. CASE ~\E p \in Peers : SealPeer(p) \/ PurgePeer(p)
      BY <1>3, <1>10, <2>3 DEF CloseNext, BeginClose, SealLocal, FinishClose, CancelClose, CloseVisit, Upload, BeginPurge,
                               PurgeLocal
    <2>. QED  BY <2>1, <2>2, <2>3
  <1>11. CASE CrashNext
    <2>1. ~\E p \in Peers, class \in {"restart", "power"} : PeerRestarts(p, class)
      BY DEF PeerRestarts, Fault, ReplicasKept
    <2>. QED  BY <1>3, <1>11, <2>1 DEF CrashNext, OriginCrashes
  <1>. QED  BY <1>5, <1>6, <1>7, <1>8, <1>9, <1>10, <1>11 DEF Next

\* SealConfirmedHoldsAll: with peers that do not restart, a peer that confirmed the
\* seal holds exactly the sealed segment until the purge, whatever requests of
\* discarded streams and catch-ups still reach it, also with interleaved handlers
\* (SealSegment compares after it sealed; a sealed replica is not written).
THEOREM ConfirmedHoldsAll == ASSUME ReplicasKept PROVE Spec => []SealConfirmedHoldsAll
  <1>1. Init => SealInv
    BY DEF Init, SealInv
  <1>2. SealInv => SealConfirmedHoldsAll
    BY DEF SealInv, SealConfirmedHoldsAll
  <1>3. Inv /\ SealInv /\ [Next]_vars => SealInv'
    BY SealInvKept
  <1>. QED  BY <1>1, <1>2, <1>3, Safety, PTL DEF Spec

----------------------------------------------------------------------------
(* Serial handlers *)

\* Copies of a call fit where the call does.
LEMMA SameFits == \A c, d, n : SameCall(d, c) /\ Fits(c, n) => Fits(d, n)
  BY DEF SameCall, Fits

\* A handler that is not interrupted appends exactly what the replica lacks, and
\* an acknowledgement reports no more than the replica holds.
LEMMA HandledFits ==
  \A rep \in Replica, r \in Call, n \in Nat :
     Numbered(rep.file, 0) /\ Len(rep.file) <= n /\ Fits(r, n) =>
        /\ Numbered(Handled(rep, r).file, 0) /\ Len(Handled(rep, r).file) <= n
        /\ Fits(Handled(rep, r).call, n) /\ Handled(rep, r).call.step = "answered"
        /\ Handled(rep, r).call.persisted = r.persisted \/ Handled(rep, r).call.persisted <= Len(Handled(rep, r).file)
        /\ Handled(rep, r).call.reply = "ack" => Handled(rep, r).call.persisted <= Len(Handled(rep, r).file)
        /\ Handled(rep, r).call.kind = r.kind /\ Handled(rep, r).call.offset = r.offset /\ Handled(rep, r).call.data = r.data
  <1>. SUFFICES ASSUME NEW rep \in Replica, NEW r \in Call, NEW n \in Nat,
                       Numbered(rep.file, 0), Len(rep.file) <= n, Fits(r, n)
                PROVE  /\ Numbered(Handled(rep, r).file, 0) /\ Len(Handled(rep, r).file) <= n
                       /\ Fits(Handled(rep, r).call, n) /\ Handled(rep, r).call.step = "answered"
                       /\ Handled(rep, r).call.persisted = r.persisted \/ Handled(rep, r).call.persisted <= Len(Handled(rep, r).file)
                       /\ Handled(rep, r).call.reply = "ack" => Handled(rep, r).call.persisted <= Len(Handled(rep, r).file)
                       /\ Handled(rep, r).call.kind = r.kind /\ Handled(rep, r).call.offset = r.offset
                       /\ Handled(rep, r).call.data = r.data
    OBVIOUS
  <1>1. /\ rep.file \in Seq(Entries) /\ r.data \in Seq(Entries) /\ r.offset \in Nat /\ rep.live \in BOOLEAN
        /\ Len(rep.file) \in Nat /\ Len(r.data) \in Nat
    BY DEF Replica, ReplicaRecord, Call
  <1>2. CASE ~rep.live
    <2>1. PICK c \in Call : c = [r EXCEPT !.step = "answered", !.reply = "missing"]
      BY DEF Call
    <2>2. /\ c.step = "answered" /\ c.reply = "missing" /\ c.persisted = r.persisted
          /\ c.kind = r.kind /\ c.offset = r.offset /\ c.data = r.data
      BY <2>1 DEF Call
    <2>3. Handled(rep, r) = [file |-> rep.file, call |-> c]
      BY <1>2, <2>1 DEF Handled, Found
    <2>. QED  BY <2>2, <2>3 DEF Fits
  <1>3. CASE rep.live
    <2>1. PICK m \in Nat : m = Len(rep.file)
      BY <1>1
    <2>2. PICK d \in Call : d = [r EXCEPT !.step = "reading", !.at = m]
      BY DEF Call
    <2>3. d.at = m /\ d.offset = r.offset /\ d.data = r.data /\ d.kind = r.kind /\ d.persisted = r.persisted
      BY <2>2 DEF Call
    <2>4. Handled(rep, r) = Written(rep, d)
      BY <1>3, <2>1, <2>2 DEF Handled, Found
    <2>. DEFINE done == Persisted(rep, d)
    <2>5. /\ Numbered(done.file, 0) /\ Len(done.file) <= n /\ Len(done.file) \in Nat /\ m <= Len(done.file)
          /\ done.reply \in {"ack", "refused"}
      <3>1. CASE r.offset > m \/ r.offset + Len(r.data) <= m \/ rep.sealed
        <4>1. done.file = rep.file /\ done.reply \in {"ack", "refused"}
          BY <1>1, <2>1, <2>3, <3>1 DEF Persisted
        <4>. QED  BY <1>1, <2>1, <4>1
      <3>2. CASE ~(r.offset > m \/ r.offset + Len(r.data) <= m \/ rep.sealed)
        <4>1. PICK k \in Nat \ {0} : k = m - r.offset + 1
          BY <1>1, <2>1, <3>2
        <4>2. k <= Len(r.data)
          BY <1>1, <2>1, <3>2, <4>1
        <4>3. PICK tail \in Seq(Entries) : tail = SubSeq(r.data, k, Len(r.data))
          BY <1>1, SubSeqType
        <4>4. /\ Len(tail) \in Nat /\ Len(tail) = Len(r.data) - k + 1
              /\ \A i \in 1..Len(tail) : tail[i] = r.data[k + i - 1]
          BY <1>1, <4>2, <4>3, SubSeqType
        <4>5. done.file = rep.file \o tail /\ done.reply = "ack"
          BY <1>1, <1>3, <2>3, <3>2, <4>1, <4>3 DEF Persisted
        <4>6. /\ rep.file \o tail \in Seq(Entries) /\ Len(rep.file \o tail) = m + Len(tail)
              /\ \A i \in 1..(m + Len(tail)) : (rep.file \o tail)[i] = IF i <= m THEN rep.file[i] ELSE tail[i - m]
          BY <1>1, <2>1, <4>3, ConcatProperties
        <4>7. m + Len(tail) = r.offset + Len(r.data)
          BY <1>1, <4>1, <4>4
        <4>8. ASSUME NEW i \in 1..(m + Len(tail)) PROVE (rep.file \o tail)[i] = i
          <5>1. CASE i <= m
            BY <2>1, <4>4, <4>6, <5>1 DEF Numbered
          <5>2. CASE i > m
            <6>1. PICK j \in 1..Len(tail) : j = i - m
              BY <4>4, <5>2
            <6>2. r.offset \in Nat /\ m \in Nat /\ k \in Nat /\ i \in Nat /\ j \in Nat /\ Len(r.data) \in Nat
              BY <1>1, <4>4
            <6>3. k + j - 1 = i - r.offset
              BY <6>2, <4>1, <6>1
            <6>4. k + j - 1 \in 1..Len(r.data)
              BY <6>2, <4>4, <6>1
            <6>5. r.data[k + j - 1] = r.offset + (k + j - 1)
              BY <6>4 DEF Fits, Numbered
            <6>6. (rep.file \o tail)[i] = tail[j]
              BY <4>6, <5>2, <6>1, <6>2
            <6>7. tail[j] = r.data[k + j - 1]
              BY <4>4, <6>1
            <6>. QED  BY <6>2, <6>3, <6>5, <6>6, <6>7
          <5>3. i <= m \/ i > m
            BY <4>4
          <5>. QED  BY <5>1, <5>2, <5>3
        <4>9. Numbered(rep.file \o tail, 0)
          BY <4>6, <4>8 DEF Numbered
        <4>10. r.offset + Len(r.data) <= n
          BY DEF Fits
        <4>. QED  BY <4>4, <4>5, <4>6, <4>7, <4>9, <4>10
      <3>. QED  BY <3>1, <3>2
    <2>6. PICK q \in Nat : q = IF done.file = rep.file THEN m ELSE Len(done.file)
      BY <2>1, <2>5
    <2>7. PICK a \in {"ack", "refused"} : a = done.reply
      BY <2>5
    <2>8. PICK c \in Call : c = [d EXCEPT !.step = "answered", !.reply = a, !.at = 0, !.persisted = q]
      BY DEF Call
    <2>9. /\ c.step = "answered" /\ c.persisted = q
          /\ c.kind = d.kind /\ c.offset = d.offset /\ c.data = d.data
      BY <2>8 DEF Call
    <2>10. Written(rep, d) = [file |-> done.file, call |-> c]
      BY <2>3, <2>6, <2>7, <2>8 DEF Written
    <2>11. q <= Len(done.file)
      BY <2>1, <2>5, <2>6
    <2>. HIDE DEF done
    <2>. QED  BY <2>3, <2>4, <2>5, <2>9, <2>10, <2>11 DEF Fits
  <1>. QED  BY <1>1, <1>2, <1>3

\* What fits goes on fitting when more entries were begun.
LEMMA FitsMore == \A c \in Call, m \in Nat, n \in Nat : Fits(c, m) /\ m <= n => Fits(c, n)
  BY DEF Fits, Call

\* The numbers that SerialInv compares.
LEMMA FitTypes ==
  ASSUME TypeInv
  PROVE  /\ write.entry \in Nat /\ write.entry <= MaxEntries
         /\ \A p \in Peers : replica[p] \in Replica /\ replica[p].file \in Seq(Entries) /\ Len(replica[p].file) \in Nat
         /\ \A p \in Peers : tracked[p].acked \in Nat
         /\ \A p \in Peers, k \in TaskKinds : tasks[p][k] \in Task /\ tasks[p][k].pos \in Nat
         /\ \A p \in Peers : calls[p] \subseteq Call /\ orphans[p] \subseteq Call
         /\ \A p \in Peers : \A c \in calls[p] : c.persisted \in Nat
  <1>1. write.entry \in Nat /\ write.entry <= MaxEntries
    BY SegmentAssumption DEF TypeInv, WriterTypes, Writes
  <1>2. \A p \in Peers : replica[p] \in Replica /\ replica[p].file \in Seq(Entries) /\ Len(replica[p].file) \in Nat
    BY DEF TypeInv, PeerTypes, Replica, ReplicaRecord
  <1>3. \A p \in Peers, k \in TaskKinds : tasks[p][k] \in Task /\ tasks[p][k].pos \in Nat
    BY DEF TypeInv, ClientTypes, Task
  <1>4. \A p \in Peers : tracked[p].acked \in Nat
    BY DEF TypeInv, ClientTypes, Tracked
  <1>5. \A p \in Peers : calls[p] \subseteq Call /\ orphans[p] \subseteq Call
    BY DEF TypeInv, PeerTypes, ClientTypes
  <1>6. \A c \in Call : c.persisted \in Nat
    BY DEF Call
  <1>. QED  BY <1>1, <1>2, <1>3, <1>4, <1>5, <1>6

\* A step that begins no entry keeps each part when it brings in nothing new.
LEMMA FitKept ==
  ASSUME TypeInv, SerialInv, write'.entry = write.entry
  PROVE  /\ (\A q \in Peers : replica'[q].file = replica[q].file) => ReplicasFit'
         /\ (\A q \in Peers : \A d \in calls'[q] : \E c \in calls[q] : SameCall(d, c)) => CallsFit'
         /\ (\A q \in Peers : \A d \in calls'[q] \cup orphans'[q] :
               \E c \in calls[q] \cup orphans[q] : SameCall(d, c)) => RequestsFit'
         /\ (\A q \in Peers : /\ tracked'[q].acked \in {0, tracked[q].acked}
                              /\ \A k \in TaskKinds : tasks'[q][k].pos \in {0, tasks[q][k].pos}) => ClientFits'
  <1>1. (\A q \in Peers : replica'[q].file = replica[q].file) => ReplicasFit'
    BY DEF SerialInv, ReplicasFit
  <1>2. (\A q \in Peers : \A d \in calls'[q] : \E c \in calls[q] : SameCall(d, c)) => CallsFit'
    BY DEF SerialInv, CallsFit, SameCall
  <1>3. (\A q \in Peers : \A d \in calls'[q] \cup orphans'[q] :
               \E c \in calls[q] \cup orphans[q] : SameCall(d, c)) => RequestsFit'
    BY SameFits DEF SerialInv, RequestsFit
  <1>4. (\A q \in Peers : /\ tracked'[q].acked \in {0, tracked[q].acked}
                          /\ \A k \in TaskKinds : tasks'[q][k].pos \in {0, tasks[q][k].pos}) => ClientFits'
    <2>1. 0 <= write.entry
      BY FitTypes
    <2>. QED  BY <2>1 DEF SerialInv, ClientFits
  <1>. QED  BY <1>1, <1>2, <1>3, <1>4

\* The steps of a write.
LEMMA SerialWriter == Inv /\ SerialInv /\ WriterNext => SerialInv'
  <1>. SUFFICES ASSUME Inv, SerialInv, WriterNext PROVE SerialInv'
    OBVIOUS
  <1>. USE DEF originVars, writerVars, clientVars, peerVars, closeVars
  <1>1. TypeInv /\ \A d : SameCall(d, d)
    BY DEF Inv, SameCall
  <1>2. CASE BeginWrite
    <2>1. PICK e \in Nat : e = write.entry + 1 /\ e \in Entries
      BY <1>1, <1>2, SegmentAssumption, FitTypes DEF BeginWrite, Entries
    <2>2. PICK n \in Nat : n = Len(file) /\ n = write.entry
      BY <1>1, <1>2, FitTypes DEF BeginWrite, Inv, FileInv
    <2>3. <<e>> \in Seq(Entries) /\ Len(<<e>>) = 1 /\ <<e>>[1] = e
      BY <2>1
    <2>4. PICK c \in Call : c = NewCall("entry", n, <<e>>, "start")
      BY <2>3, CallType
    <2>5. c.kind = "entry" /\ c.offset = n /\ c.data = <<e>> /\ c.step = "start" /\ c.persisted = 0
      BY <2>4 DEF NewCall
    <2>6. Fits(c, e)
      BY <2>1, <2>2, <2>3, <2>5 DEF Fits, Numbered
    <2>7. /\ write'.entry = e /\ calls' = [p \in Peers |-> calls[p] \cup {c}]
          /\ UNCHANGED <<replica, orphans, tracked, tasks>>
      BY <1>2, <2>1, <2>2, <2>4 DEF BeginWrite
    <2>8. write.entry \in Nat /\ write.entry <= e
      BY <1>1, <2>1, FitTypes
    <2>9. ReplicasFit'
      BY <1>1, <2>1, <2>7, <2>8, FitTypes DEF SerialInv, ReplicasFit
    <2>10. RequestsFit'
      BY <1>1, <2>1, <2>6, <2>7, <2>8, FitTypes, FitsMore DEF SerialInv, RequestsFit
    <2>11. CallsFit'
      BY <1>1, <2>1, <2>5, <2>7, <2>8, FitTypes DEF SerialInv, CallsFit
    <2>12. ClientFits'
      BY <1>1, <2>1, <2>7, <2>8, FitTypes DEF SerialInv, ClientFits
    <2>. QED  BY <2>9, <2>10, <2>11, <2>12 DEF SerialInv
  <1>3. CASE Acknowledge
    <2>1. UNCHANGED <<replica, orphans, tracked, calls>> /\ HealReplicas
      BY <1>3 DEF Acknowledge
    <2>2. write'.entry = write.entry
      BY <1>1, <1>3 DEF Acknowledge, TypeInv, WriterTypes, Writes
    <2>3. ASSUME NEW q \in Peers, NEW k \in TaskKinds PROVE tasks'[q][k].pos = tasks[q][k].pos
      <3>1. tasks[q] \in [TaskKinds -> Task]
        BY <1>1 DEF TypeInv, ClientTypes
      <3>2. tasks'[q] = tasks[q] \/ tasks'[q] = [tasks[q] EXCEPT !["catchup"].stage = "start"]
        BY <2>1 DEF HealReplicas
      <3>3. PICK f \in [TaskKinds -> Task] : f = tasks[q]
        BY <3>1
      <3>4. [f EXCEPT !["catchup"].stage = "start"][k].pos = f[k].pos
        <4>1. f[k] \in Task
          OBVIOUS
        <4>. QED  BY <4>1 DEF Task
      <3>. QED  BY <3>2, <3>3, <3>4
    <2>. QED  BY <1>1, <2>1, <2>2, <2>3, FitKept DEF SerialInv
  <1>4. CASE LocalWrite \/ LocalWriteFails \/ WriteFails \/ CancelWrite
    <2>1. UNCHANGED <<replica, orphans, tracked, calls, tasks>>
      BY <1>4 DEF LocalWrite, LocalWriteFails, WriteFails, CancelWrite
    <2>2. write'.entry = write.entry
      BY <1>1, <1>4 DEF LocalWrite, LocalWriteFails, WriteFails, CancelWrite, TypeInv, WriterTypes, Writes
    <2>. QED  BY <1>1, <2>1, <2>2, FitKept DEF SerialInv
  <1>. QED  BY <1>2, <1>3, <1>4 DEF WriterNext

\* The calls of the originator on its streams.
LEMMA SerialCalls == ASSUME SerialHandlers PROVE Inv /\ SerialInv /\ CallNext => SerialInv'
  <1>. SUFFICES ASSUME Inv, SerialInv, NEW p \in Peers,
                       \/ \E c \in calls[p] : StartEntry(p, c) \/ Exchange(p, c) \/ Send(p, c) \/ TakeAnswer(p, c) \/ CallFails(p, c)
                       \/ CoolDownOver(p)
                PROVE  SerialInv'
    BY DEF CallNext
  <1>. USE DEF originVars, writerVars, clientVars, peerVars, closeVars
  <1>1. /\ TypeInv /\ tracked \in [Peers -> Tracked] /\ calls \in [Peers -> SUBSET Call]
        /\ orphans \in [Peers -> SUBSET Call] /\ replica \in [Peers -> Replica]
    BY DEF Inv, TypeInv, ClientTypes, PeerTypes
  <1>2. \A d : SameCall(d, d)
    BY DEF SameCall
  <1>3. CASE CoolDownOver(p)
    BY <1>1, <1>2, <1>3, FitKept DEF CoolDownOver, SerialInv
  <1>4. ASSUME NEW c \in calls[p], Send(p, c) PROVE FALSE
    BY <1>4 DEF Send
  <1>5. ASSUME NEW c \in calls[p], StartEntry(p, c) PROVE SerialInv'
    <2>1. c \in Call /\ UNCHANGED <<orphans, replica, tasks>>
      BY <1>1, <1>5 DEF StartEntry
    <2>2. CASE breaker[p].cooling \/ ~InPosition(tracked[p], c.offset)
      <3>1. PICK t \in Tracked : t = MarkBehind(tracked[p]) /\ t.acked = tracked[p].acked
        BY <1>1, TrackedType
      <3>2. tracked' = [tracked EXCEPT ![p] = t] /\ calls' = [calls EXCEPT ![p] = calls[p] \ {c}] /\ Result(p, c, FALSE)
        BY <1>1, <1>5, <2>2, <3>1 DEF StartEntry
      <3>3. \A q \in Peers : tracked'[q].acked = tracked[q].acked /\ calls'[q] \subseteq calls[q]
        BY <1>1, <3>1, <3>2
      <3>4. write'.entry = write.entry
        BY <1>1, <2>1, <3>2, ResultEffect
      <3>. QED  BY <1>1, <1>2, <2>1, <3>3, <3>4, FitKept DEF SerialInv
    <2>3. CASE ~(breaker[p].cooling \/ ~InPosition(tracked[p], c.offset))
      <3>1. PICK d \in Call : d = [c EXCEPT !.step = "queued"]
        BY <2>1, CallType
      <3>2. /\ calls' = [calls EXCEPT ![p] = (calls[p] \ {c}) \cup {d}] /\ UNCHANGED <<tracked, write>>
        BY <1>1, <1>5, <2>3, <3>1 DEF StartEntry
      <3>3. d.step = "queued" /\ d.kind = c.kind /\ d.offset = c.offset /\ d.data = c.data /\ d.persisted = c.persisted
        BY <2>1, <3>1 DEF Call
      <3>4. \A q \in Peers : calls'[q] \subseteq calls[q] \cup {d} /\ (q # p => calls'[q] = calls[q])
        BY <1>1, <3>2
      <3>5. Fits(d, write.entry)
        <4>1. Fits(c, write.entry)
          BY DEF SerialInv, RequestsFit
        <4>. QED  BY <3>3, <4>1 DEF Fits
      <3>6. CallsFit'
        BY <3>2, <3>3, <3>4 DEF SerialInv, CallsFit
      <3>7. RequestsFit'
        BY <2>1, <3>2, <3>4, <3>5 DEF SerialInv, RequestsFit
      <3>. QED  BY <1>1, <2>1, <3>2, <3>6, <3>7, FitKept DEF SerialInv
    <2>. QED  BY <2>2, <2>3
  <1>6. ASSUME NEW c \in calls[p], Exchange(p, c) PROVE SerialInv'
    <2>1. c \in Call /\ replica[p] \in Replica /\ write.entry \in Nat
      BY <1>1, FitTypes
    <2>2. UNCHANGED <<orphans, tracked, tasks, write>>
      BY <1>6, Zenon DEF Exchange
    <2>3. PICK f \in Seq(Entries), d \in Call : f = Handled(replica[p], c).file /\ d = Handled(replica[p], c).call
      BY <2>1, HandledType
    <2>4. /\ Numbered(replica[p].file, 0) /\ Len(replica[p].file) <= write.entry /\ Fits(c, write.entry)
          /\ c.persisted <= write.entry
      BY DEF SerialInv, RequestsFit, ReplicasFit, CallsFit
    <2>5. /\ Numbered(f, 0) /\ Len(f) <= write.entry /\ Fits(d, write.entry) /\ d.step = "answered"
          /\ d.persisted = c.persisted \/ d.persisted <= Len(f)
      BY <2>1, <2>3, <2>4, HandledFits
    <2>6. d.persisted <= write.entry
      <3>1. d.persisted \in Nat /\ Len(f) \in Nat
        BY DEF Call
      <3>. QED  BY <2>1, <2>4, <2>5, <3>1
    <2>7. replica' = [replica EXCEPT ![p].file = f] /\ calls' = [calls EXCEPT ![p] = (calls[p] \ {c}) \cup {d}]
      BY <1>1, <1>6, <2>3 DEF Exchange
    <2>8. \A q \in Peers : calls'[q] \subseteq calls[q] \cup {d} /\ (q # p => calls'[q] = calls[q])
      BY <1>1, <2>7
    <2>9. \A q \in Peers : replica'[q].file = IF q = p THEN f ELSE replica[q].file
      BY <1>1, <2>7 DEF Replica, ReplicaRecord
    <2>10. ReplicasFit'
      BY <2>2, <2>5, <2>9 DEF SerialInv, ReplicasFit
    <2>11. RequestsFit'
      BY <2>2, <2>5, <2>8 DEF SerialInv, RequestsFit
    <2>12. CallsFit'
      BY <2>2, <2>5, <2>6, <2>8 DEF SerialInv, CallsFit
    <2>. QED  BY <1>1, <2>2, <2>10, <2>11, <2>12, FitKept DEF SerialInv
  <1>7. ASSUME NEW c \in calls[p], CallError(p, c)
        PROVE  /\ c \in Call /\ write'.entry = write.entry /\ CallsFit' /\ ClientFits'
               /\ \A q \in Peers : \A d \in calls'[q] : \E e \in calls[q] : SameCall(d, e)
    <2>1. /\ c \in Call /\ Result(p, c, FALSE) /\ TaskStep(p, c, FALSE)
          /\ \A q \in Peers : tracked'[q].acked = tracked[q].acked
          /\ \A q \in Peers : \A d \in calls'[q] : \E e \in calls[q] : SameCall(d, e)
      BY <1>1, <1>7, CallErrorEffect
    <2>2. write'.entry = write.entry
      BY <1>1, <2>1, ResultEffect
    <2>3. \A q \in Peers, k \in TaskKinds : tasks'[q][k].pos \in {0, tasks[q][k].pos}
      <3>1. \A k \in TaskKinds : ChunkFailed(tasks[p][k], c).pos \in {0, tasks[p][k].pos}
        BY <1>1, <2>1, FitTypes, TaskType
      <3>2. \A q \in Peers, k \in TaskKinds : tasks'[q][k] = tasks[q][k] \/ (q = p /\ tasks'[q][k] = ChunkFailed(tasks[p][k], c))
        <4>1. TypeInv /\ c \in Call /\ TaskStep(p, c, FALSE)
          BY <1>1, <2>1
        <4>2. \A q \in Peers, j \in TaskKinds :
                 \/ tasks'[q][j] = tasks[q][j]
                 \/ q = p /\ j = c.kind /\ tasks'[q][j] = ChunkFailed(tasks[p][j], c)
          BY <4>1, TaskMoves
        <4>. QED  BY <4>2
      <3>. QED  BY <3>1, <3>2
    <2>. QED  BY <1>1, <2>1, <2>2, <2>3, FitKept
  <1>8. ASSUME NEW c \in calls[p], CallFails(p, c) PROVE SerialInv'
    <2>1. /\ c \in Call /\ write'.entry = write.entry /\ CallsFit' /\ ClientFits' /\ UNCHANGED replica
          /\ \A q \in Peers : \A d \in calls'[q] : \E e \in calls[q] : SameCall(d, e)
      BY <1>7, <1>8 DEF CallFails
    <2>2. PICK d \in Call, e \in Call : d = [c EXCEPT !.live = FALSE] /\ e = [c EXCEPT !.live = FALSE, !.step = "sent"]
      BY <1>1, CallType
    <2>3. \A q \in Peers : orphans'[q] \subseteq orphans[q] \cup {d, e} /\ (q # p => orphans'[q] = orphans[q])
      <3>1. \/ orphans' = orphans
            \/ orphans' = [orphans EXCEPT ![p] = orphans[p] \cup {d}]
            \/ orphans' = [orphans EXCEPT ![p] = orphans[p] \cup {e}]
        BY <1>1, <1>8, <2>2 DEF CallFails
      <3>. QED  BY <1>1, <3>1
    <2>4. Fits(d, write.entry) /\ Fits(e, write.entry)
      <3>1. Fits(c, write.entry)
        BY DEF SerialInv, RequestsFit
      <3>2. /\ d.step = c.step /\ d.kind = c.kind /\ d.offset = c.offset /\ d.data = c.data
            /\ e.step = "sent" /\ e.kind = c.kind /\ e.offset = c.offset /\ e.data = c.data
        BY <2>1, <2>2 DEF Call
      <3>. QED  BY <3>1, <3>2 DEF Fits
    <2>5. RequestsFit'
      <3>1. ASSUME NEW q \in Peers, NEW x \in calls'[q] PROVE Fits(x, write.entry)
        BY <2>1, SameFits DEF SerialInv, RequestsFit
      <3>2. ASSUME NEW q \in Peers, NEW x \in orphans'[q] PROVE Fits(x, write.entry)
        BY <2>3, <2>4 DEF SerialInv, RequestsFit
      <3>. QED  BY <2>1, <3>1, <3>2 DEF RequestsFit
    <2>. QED  BY <1>1, <2>1, <2>5, FitKept DEF SerialInv
  <1>9. ASSUME NEW c \in calls[p], TakeAnswer(p, c) PROVE SerialInv'
    <2>1. UNCHANGED <<replica, orphans>>
      BY <1>9 DEF TakeAnswer
    <2>2. CASE CallError(p, c)
      BY <1>1, <1>2, <1>7, <2>1, <2>2, FitKept DEF SerialInv
    <2>3. CASE CallOk(p, c)
      <3>1. /\ c \in Call /\ Result(p, c, TRUE) /\ TaskStep(p, c, TRUE)
            /\ \A q \in Peers : tracked'[q].acked = tracked[q].acked \/ (q = p /\ tracked'[q].acked = c.persisted)
            /\ \A q \in Peers : calls'[q] \subseteq calls[q]
        BY <1>1, <2>3, CallOkEffect
      <3>2. write'.entry = write.entry /\ write.entry \in Nat
        BY <1>1, <3>1, ResultEffect, FitTypes
      <3>3. c.persisted <= write.entry /\ c.offset + Len(c.data) <= write.entry
        BY DEF SerialInv, CallsFit, RequestsFit, Fits
      <3>4. ASSUME NEW q \in Peers, NEW k \in TaskKinds PROVE tasks'[q][k].pos <= write.entry
        <4>1. tasks[p][k] \in Task
          BY <1>1, FitTypes
        <4>2. ChunkPersisted(tasks[p][k], c).pos \in {0, c.offset + Len(c.data)}
          BY <3>1, <4>1, TaskType
        <4>3. tasks'[q][k] = tasks[q][k] \/ tasks'[q][k] = ChunkPersisted(tasks[p][k], c)
          <5>1. TypeInv /\ c \in Call /\ TaskStep(p, c, TRUE)
            BY <1>1, <3>1
          <5>2. \A r \in Peers, j \in TaskKinds :
                   \/ tasks'[r][j] = tasks[r][j]
                   \/ r = p /\ j = c.kind /\ tasks'[r][j] = ChunkPersisted(tasks[p][j], c)
            BY <5>1, TaskMoves
          <5>. QED  BY <5>2
        <4>. QED  BY <3>2, <3>3, <4>2, <4>3 DEF SerialInv, ClientFits
      <3>5. ClientFits'
        BY <3>1, <3>2, <3>3, <3>4 DEF SerialInv, ClientFits
      <3>. QED  BY <1>1, <1>2, <2>1, <3>1, <3>2, <3>5, FitKept DEF SerialInv
    <2>. QED  BY <1>9, <2>2, <2>3 DEF TakeAnswer
  <1>. QED  BY <1>3, <1>4, <1>5, <1>6, <1>8, <1>9

\* The handlers of the peers: only late requests are left, and they are handled at once.
LEMMA SerialPeer == ASSUME SerialHandlers PROVE Inv /\ SerialInv /\ PeerNext => SerialInv'
  <1>. SUFFICES ASSUME Inv, SerialInv, NEW p \in Peers, NEW r \in Requests(p),
                       HandlerRead(p, r) \/ HandlerWrite(p, r) \/ LateRequest(p, r)
                PROVE  SerialInv'
    BY DEF PeerNext
  <1>. USE DEF originVars, writerVars, clientVars, peerVars, closeVars
  <1>1. /\ TypeInv /\ r \in Call /\ r \in calls[p] \cup orphans[p] /\ replica[p] \in Replica /\ write.entry \in Nat
        /\ orphans \in [Peers -> SUBSET Call] /\ replica \in [Peers -> Replica]
    BY FitTypes DEF Inv, TypeInv, ClientTypes, PeerTypes, Requests
  <1>2. /\ Numbered(replica[p].file, 0) /\ Len(replica[p].file) <= write.entry /\ Fits(r, write.entry)
    BY <1>1 DEF SerialInv, RequestsFit, ReplicasFit
  <1>3. LateRequest(p, r)
    <2>1. ~HandlerRead(p, r)
      BY DEF HandlerRead
    <2>2. ~HandlerWrite(p, r)
      BY <1>2 DEF HandlerWrite, Fits
    <2>. QED  BY <2>1, <2>2
  <1>4. PICK f \in Seq(Entries) : f = Handled(replica[p], r).file
    BY <1>1, HandledType
  <1>5. Numbered(f, 0) /\ Len(f) <= write.entry
    BY <1>1, <1>2, <1>4, HandledFits
  <1>6. /\ replica' = [replica EXCEPT ![p].file = f] /\ orphans' = [orphans EXCEPT ![p] = orphans[p] \ {r}]
        /\ UNCHANGED <<write, calls, tracked, tasks>>
    BY <1>1, <1>3, <1>4 DEF LateRequest
  <1>7. \A q \in Peers : /\ replica'[q].file = IF q = p THEN f ELSE replica[q].file
                         /\ orphans'[q] \subseteq orphans[q]
    BY <1>1, <1>6 DEF Replica, ReplicaRecord
  <1>8. ReplicasFit'
    BY <1>5, <1>6, <1>7 DEF SerialInv, ReplicasFit
  <1>9. RequestsFit' /\ CallsFit' /\ ClientFits'
    BY <1>6, <1>7 DEF SerialInv, RequestsFit, CallsFit, ClientFits
  <1>. QED  BY <1>8, <1>9 DEF SerialInv

\* The preparation and the catch-ups: a chunk is cut from the file, where every entry
\* stands at its place.
LEMMA SerialTasks == Inv /\ SerialInv /\ TaskNext => SerialInv'
  <1>. SUFFICES ASSUME Inv, SerialInv, NEW p \in Peers,
                       \/ OpenPeer(p) \/ RetryPrepare(p)
                       \/ \E k \in TaskKinds : CatchUpRead(p, k) \/ CatchUpPrepare(p, k) \/ CatchUpGone(p, k)
                PROVE  SerialInv'
    BY DEF TaskNext
  <1>. USE DEF originVars, writerVars, clientVars, peerVars, closeVars
  <1>1. /\ TypeInv /\ calls \in [Peers -> SUBSET Call] /\ write.entry \in Nat
        /\ replica \in [Peers -> Replica] /\ tracked \in [Peers -> Tracked] /\ "prepare" \in TaskKinds
    BY FitTypes DEF Inv, TypeInv, ClientTypes, PeerTypes, TaskKinds
  <1>2. \A d : SameCall(d, d)
    BY DEF SameCall
  <1>3. /\ NoTask \in Task /\ NoTask.pos = 0
        /\ \A s \in {"retry", "start"}, b \in BOOLEAN :
              /\ [NoTask EXCEPT !.stage = s] \in Task /\ [NoTask EXCEPT !.stage = s].pos = 0
              /\ [NoTask EXCEPT !.stage = s, !.again = b] \in Task /\ [NoTask EXCEPT !.stage = s, !.again = b].pos = 0
    BY DEF NoTask, Task
  <1>4. ASSUME NEW k \in TaskKinds,
               UNCHANGED <<replica, tracked>> \/ \E ok \in BOOLEAN : Prepare(p, ok),
               tasks' = tasks \/ \E t \in Task : t.pos = 0 /\ SetTask(p, k, t),
               UNCHANGED <<calls, orphans, write>>
        PROVE  SerialInv'
    <2>1. \A q \in Peers, j \in TaskKinds : tasks'[q][j].pos \in {0, tasks[q][j].pos}
      <3>1. CASE tasks' = tasks
        BY <3>1
      <3>2. CASE \E t \in Task : t.pos = 0 /\ SetTask(p, k, t)
        <4>1. PICK t \in Task : t.pos = 0 /\ SetTask(p, k, t)
          BY <3>2
        <4>2. tasks'[p][k] = t /\ \A q \in Peers, j \in TaskKinds : q # p \/ j # k => tasks'[q][j] = tasks[q][j]
          BY <1>1, <4>1, SetTaskEffect
        <4>. QED  BY <4>1, <4>2
      <3>. QED  BY <1>4, <3>1, <3>2
    <2>2. \A q \in Peers : tracked'[q].acked \in {0, tracked[q].acked}
      <3>1. Untracked.acked = 0
        BY DEF Untracked
      <3>. QED  BY <1>1, <1>4, <3>1, PrepareEffect
    <2>3. \A q \in Peers : replica'[q].file = replica[q].file \/ replica'[q].file = <<>>
      <3>1. \A rep \in Replica : Prepared(rep).file = rep.file \/ Prepared(rep).file = <<>>
        BY DEF Prepared
      <3>. QED  BY <1>1, <1>4, <3>1, PrepareEffect
    <2>4. ReplicasFit'
      <3>1. Numbered(<<>>, 0) /\ Len(<<>>) = 0
        BY DEF Numbered
      <3>. QED  BY <1>1, <1>4, <2>3, <3>1 DEF SerialInv, ReplicasFit
    <2>. QED  BY <1>1, <1>2, <1>4, <2>1, <2>2, <2>4, FitKept DEF SerialInv
  <1>5. CASE OpenPeer(p)
    BY <1>1, <1>3, <1>4, <1>5 DEF OpenPeer
  <1>6. CASE RetryPrepare(p)
    <2>1. tasks' = tasks \/ SetTask(p, "prepare", NoTask) \/ SetTask(p, "prepare", [NoTask EXCEPT !.stage = "start"])
      BY <1>6 DEF RetryPrepare, SetTask
    <2>. QED  BY <1>1, <1>3, <1>4, <1>6, <2>1 DEF RetryPrepare
  <1>7. ASSUME NEW k \in TaskKinds, CatchUpPrepare(p, k) \/ CatchUpGone(p, k) PROVE SerialInv'
    BY <1>1, <1>3, <1>4, <1>7 DEF CatchUpPrepare, CatchUpGone
  <1>8. ASSUME NEW k \in TaskKinds, CatchUpRead(p, k) PROVE SerialInv'
    <2>1. PICK pos \in Nat, chunk \in Seq(Entries), done \in BOOLEAN, u \in Task :
            CatchUpChunk(p, k, pos, chunk, done, u)
      BY <1>1, <1>8, CatchUpEffect
    <2>2. UNCHANGED <<orphans, replica, tracked, write>>
      BY <1>8, Zenon DEF CatchUpRead
    <2>3. pos <= write.entry
      BY <1>1, <2>1 DEF CatchUpChunk, SerialInv, ClientFits
    <2>4. u.pos <= write.entry
      <3>1. (done => u = NoTask) /\ (~done => u.pos = pos)
        BY <2>1, Zenon DEF CatchUpChunk
      <3>2. CASE done
        <4>1. u = NoTask
          BY <3>1, <3>2, Zenon
        <4>2. u.pos = 0
          BY <4>1 DEF NoTask
        <4>. QED  BY <1>1, <4>2
      <3>3. CASE ~done
        BY <2>3, <3>1, <3>3
      <3>. QED  BY <3>2, <3>3
    <2>5. ClientFits'
      <3>1. tasks'[p][k] = u /\ \A q \in Peers, j \in TaskKinds : q # p \/ j # k => tasks'[q][j] = tasks[q][j]
        BY <1>1, <2>1, SetTaskEffect DEF CatchUpChunk
      <3>. QED  BY <2>2, <2>4, <3>1 DEF SerialInv, ClientFits
    <2>6. PICK c \in Call : c = NewCall(k, pos, chunk, "queued")
      BY CallType
    <2>7. c.kind = k /\ c.offset = pos /\ c.data = chunk /\ c.step = "queued" /\ c.persisted = 0
      BY <2>6 DEF NewCall
    <2>8. Fits(c, write.entry)
      <3>1. /\ file \in Seq(Entries) /\ Len(file) \in Nat /\ Len(file) <= write.entry /\ Numbered(file, 0)
        BY <1>1 DEF Inv, FileInv, TypeInv, WriterTypes
      <3>2. PICK f \in Seq(Entries) : f = file
        BY <3>1
      <3>3. PICK m \in Nat \ {0} : m = pos + 1
        OBVIOUS
      <3>4. /\ Len(chunk) = (IF m <= Len(f) THEN Len(f) - m + 1 ELSE 0) /\ Len(chunk) \in Nat
            /\ \A i \in 1..Len(chunk) : chunk[i] = f[m + i - 1]
        BY <2>1, <3>2, <3>3, SubSeqType DEF CatchUpChunk
      <3>5. ASSUME NEW i \in 1..Len(chunk) PROVE chunk[i] = pos + i
        <4>1. m + i - 1 \in 1..Len(f) /\ m + i - 1 = pos + i
          BY <3>1, <3>2, <3>3, <3>4
        <4>. QED  BY <3>1, <3>2, <3>4, <4>1 DEF Numbered
      <3>6. pos + Len(chunk) <= write.entry
        BY <1>1, <2>3, <3>1, <3>2, <3>3, <3>4
      <3>7. k # "entry"
        BY DEF TaskKinds
      <3>. QED  BY <2>7, <3>5, <3>6, <3>7 DEF Fits, Numbered
    <2>9. \A q \in Peers : calls'[q] \subseteq calls[q] \cup {c} /\ (q # p => calls'[q] = calls[q])
      BY <1>1, <2>1, <2>6 DEF CatchUpChunk
    <2>10. RequestsFit'
      BY <2>2, <2>8, <2>9 DEF SerialInv, RequestsFit
    <2>11. CallsFit'
      BY <1>1, <2>2, <2>7, <2>9 DEF SerialInv, CallsFit
    <2>. QED  BY <1>1, <2>2, <2>5, <2>10, <2>11, FitKept DEF SerialInv
  <1>. QED  BY <1>5, <1>6, <1>7, <1>8

\* The close, the upload and the purge write no entry.
LEMMA SerialClose == Inv /\ SerialInv /\ CloseNext => SerialInv'
  <1>. SUFFICES ASSUME Inv, SerialInv, CloseNext PROVE SerialInv'
    OBVIOUS
  <1>. USE DEF originVars, writerVars, clientVars, peerVars, closeVars
  <1>1. /\ TypeInv /\ calls \in [Peers -> SUBSET Call]
        /\ replica \in [Peers -> Replica] /\ "close" \in TaskKinds
    BY DEF Inv, TypeInv, ClientTypes, PeerTypes, TaskKinds
  <1>2. \A d : SameCall(d, d)
    BY DEF SameCall
  <1>3. CASE UNCHANGED <<write, replica, calls, orphans, tracked, tasks>>
    BY <1>1, <1>2, <1>3, FitKept DEF SerialInv
  <1>4. CASE BeginClose \/ SealLocal \/ CancelClose \/ BeginPurge \/ PurgeLocal \/ \E ok \in BOOLEAN : Upload(ok)
    BY <1>3, <1>4 DEF BeginClose, SealLocal, CancelClose, BeginPurge, PurgeLocal, Upload
  <1>5. CASE FinishClose
    <2>1. UNCHANGED <<write, replica, calls, orphans, tasks>> /\ \A q \in Peers : tracked'[q].acked = 0
      BY <1>5 DEF FinishClose, Untracked
    <2>. QED  BY <1>1, <1>2, <2>1, FitKept DEF SerialInv
  <1>6. ASSUME NEW p \in Peers, CloseVisit(p) PROVE SerialInv'
    <2>1. UNCHANGED <<write, replica, calls, orphans, tracked>>
      BY <1>6 DEF CloseVisit
    <2>2. PICK t \in Task : t = [NoTask EXCEPT !.stage = "start"] /\ t.pos = 0
      <3>1. [NoTask EXCEPT !.stage = "start"] \in Task /\ [NoTask EXCEPT !.stage = "start"].pos = 0
        BY DEF NoTask, Task
      <3>. QED  BY <3>1
    <2>3. tasks' = tasks \/ SetTask(p, "close", t)
      BY <1>6, <2>2 DEF CloseVisit
    <2>4. \A q \in Peers, k \in TaskKinds : tasks'[q][k].pos \in {0, tasks[q][k].pos}
      <3>1. CASE tasks' = tasks
        BY <3>1
      <3>2. CASE SetTask(p, "close", t)
        <4>1. tasks'[p]["close"] = t /\ \A q \in Peers, j \in TaskKinds : q # p \/ j # "close" => tasks'[q][j] = tasks[q][j]
          BY <1>1, <3>2, SetTaskEffect
        <4>. QED  BY <2>2, <4>1
      <3>. QED  BY <2>3, <3>1, <3>2
    <2>. QED  BY <1>1, <1>2, <2>1, <2>4, FitKept DEF SerialInv
  <1>7. ASSUME NEW p \in Peers, SealPeer(p) PROVE SerialInv'
    <2>1. UNCHANGED <<write, orphans, tracked, tasks>>
      BY <1>7 DEF SealPeer
    <2>2. \A q \in Peers : \A d \in calls'[q] : \E c \in calls[q] : SameCall(d, c)
      <3>1. PICK cs \in SUBSET Call : cs = CutOff(calls[p]) /\ \A d \in cs : \E c \in calls[p] : SameCall(d, c)
        BY <1>1, CutOffType
      <3>2. calls' = [calls EXCEPT ![p] = cs]
        BY <1>1, <1>7, <3>1 DEF SealPeer
      <3>. QED  BY <1>1, <1>2, <3>1, <3>2
    <2>3. \A q \in Peers : replica'[q].file = replica[q].file
      <3>1. \A rep \in Replica : Sealed(rep).file = rep.file
        BY DEF Sealed, Replica, ReplicaRecord
      <3>2. replica' = replica \/ replica' = [replica EXCEPT ![p] = Sealed(replica[p])]
        BY <1>1, <1>7 DEF SealPeer
      <3>. QED  BY <1>1, <3>1, <3>2
    <2>. QED  BY <1>1, <2>1, <2>2, <2>3, <1>2, FitKept DEF SerialInv
  <1>8. ASSUME NEW p \in Peers, PurgePeer(p) PROVE SerialInv'
    <2>1. UNCHANGED <<write, calls, orphans, tracked, tasks>>
      BY <1>8 DEF PurgePeer
    <2>2. \A q \in Peers : replica'[q].file = replica[q].file
      <3>1. \A rep \in Replica : Deleted(rep).file = rep.file
        BY DEF Deleted, Replica, ReplicaRecord
      <3>2. replica' = replica \/ replica' = [replica EXCEPT ![p] = Deleted(replica[p])]
        BY <1>1, <1>8 DEF PurgePeer
      <3>. QED  BY <1>1, <3>1, <3>2
    <2>. QED  BY <1>1, <1>2, <2>1, <2>2, FitKept DEF SerialInv
  <1>. QED  BY <1>4, <1>5, <1>6, <1>7, <1>8 DEF CloseNext

\* A peer that restarts keeps a beginning of its file; what waits at the originator
\* is answered or gone.
LEMMA SerialCrash == Inv /\ SerialInv /\ CrashNext => SerialInv'
  <1>. SUFFICES ASSUME Inv, SerialInv, CrashNext PROVE SerialInv'
    OBVIOUS
  <1>. USE DEF originVars, writerVars, clientVars, peerVars, closeVars
  <1>1. /\ TypeInv /\ calls \in [Peers -> SUBSET Call] /\ orphans \in [Peers -> SUBSET Call]
        /\ replica \in [Peers -> Replica] /\ write.entry \in Nat
    BY FitTypes DEF Inv, TypeInv, ClientTypes, PeerTypes
  <1>2. \A d : SameCall(d, d)
    BY DEF SameCall
  <1>3. CASE OriginCrashes
    <2>1. /\ UNCHANGED <<write, replica>> /\ \A q \in Peers : calls'[q] = {} /\ tracked'[q].acked = 0
      BY <1>3 DEF OriginCrashes, Untracked
    <2>2. \A q \in Peers, k \in TaskKinds : tasks'[q][k].pos = 0
      BY <1>3 DEF OriginCrashes, NoTask
    <2>3. ASSUME NEW q \in Peers, NEW d \in orphans'[q] PROVE \E c \in calls[q] \cup orphans[q] : SameCall(d, c)
      <3>1. d \in orphans[q] \/ \E c \in calls[q] : d = [c EXCEPT !.live = FALSE]
        BY <1>3, <2>3 DEF OriginCrashes
      <3>2. \A c \in Call : SameCall([c EXCEPT !.live = FALSE], c)
        BY DEF Call, SameCall
      <3>. QED  BY <1>1, <1>2, <3>1, <3>2
    <2>. QED  BY <1>1, <2>1, <2>2, <2>3, FitKept DEF SerialInv
  <1>4. ASSUME NEW p \in Peers, NEW class \in {"restart", "power"}, PeerRestarts(p, class) PROVE SerialInv'
    <2>1. UNCHANGED <<write, tracked, tasks>> /\ orphans' = [orphans EXCEPT ![p] = {}]
      BY <1>4 DEF PeerRestarts
    <2>2. ASSUME NEW q \in Peers, NEW d \in calls'[q]
          PROVE  d.step # "sent" /\ d.persisted <= write.entry /\ Fits(d, write.entry)
      <3>1. d \in calls[q] \/ \E c \in calls[q] : d = [c EXCEPT !.step = "answered", !.reply = "refused"]
        BY <1>1, <1>4, <2>2 DEF PeerRestarts
      <3>2. CASE d \in calls[q]
        BY <3>2 DEF SerialInv, CallsFit, RequestsFit
      <3>3. ASSUME NEW c \in calls[q], d = [c EXCEPT !.step = "answered", !.reply = "refused"]
            PROVE  d.step # "sent" /\ d.persisted <= write.entry /\ Fits(d, write.entry)
        <4>1. c \in Call
          BY <1>1
        <4>2. /\ d.step = "answered" /\ d.persisted = c.persisted /\ d.kind = c.kind
              /\ d.offset = c.offset /\ d.data = c.data
          BY <3>3, <4>1 DEF Call
        <4>3. c.persisted <= write.entry /\ Fits(c, write.entry)
          BY DEF SerialInv, CallsFit, RequestsFit
        <4>. QED  BY <4>2, <4>3 DEF Fits
      <3>. QED  BY <3>1, <3>2, <3>3
    <2>3. CallsFit'
      BY <2>1, <2>2 DEF CallsFit
    <2>4. RequestsFit'
      <3>1. \A q \in Peers : orphans'[q] \subseteq orphans[q]
        BY <1>1, <2>1
      <3>. QED  BY <2>1, <2>2, <3>1 DEF SerialInv, RequestsFit
    <2>5. ReplicasFit'
      <3>1. PICK rep \in Replica : rep = replica[p]
        BY <1>1
      <3>2. PICK g : g = IF class = "power" THEN SubSeq(rep.file, 1, rep.synced) ELSE rep.file
        OBVIOUS
      <3>3. rep.file \in Seq(Entries) /\ rep.synced \in Nat /\ rep.synced <= Len(rep.file) /\ Len(rep.file) \in Nat
        BY DEF Replica, ReplicaRecord
      <3>4. Numbered(rep.file, 0) /\ Len(rep.file) <= write.entry
        BY <3>1 DEF SerialInv, ReplicasFit
      <3>5. /\ SubSeq(rep.file, 1, rep.synced) \in Seq(Entries) /\ Len(SubSeq(rep.file, 1, rep.synced)) = rep.synced
            /\ \A i \in 1..rep.synced : SubSeq(rep.file, 1, rep.synced)[i] = rep.file[i]
        BY <3>3, SubSeqProperties
      <3>6. Numbered(g, 0) /\ Len(g) <= write.entry
        <4>1. CASE class = "power"
          BY <1>1, <3>2, <3>3, <3>4, <3>5, <4>1 DEF Numbered
        <4>2. CASE class # "power"
          BY <3>2, <3>4, <4>2
        <4>. QED  BY <4>1, <4>2
      <3>7. replica' = [replica EXCEPT ![p].live = FALSE, ![p].sealed = FALSE, ![p].file = g]
        BY <1>1, <1>4, <3>1, <3>2 DEF PeerRestarts
      <3>8. [rep EXCEPT !.live = FALSE, !.sealed = FALSE, !.file = g].file = g
        BY DEF Replica, ReplicaRecord
      <3>9. \A q \in Peers : replica'[q].file = IF q = p THEN g ELSE replica[q].file
        BY <1>1, <3>1, <3>7, <3>8
      <3>. QED  BY <2>1, <3>6, <3>9 DEF SerialInv, ReplicasFit
    <2>. QED  BY <1>1, <2>1, <2>3, <2>4, <2>5, FitKept DEF SerialInv
  <1>. QED  BY <1>3, <1>4 DEF CrashNext

\* With serial handlers every replica stays within what was begun.
LEMMA SerialSafety == ASSUME SerialHandlers PROVE Spec => []SerialInv
  <1>1. Init => SerialInv
    BY DEF Init, SerialInv, ReplicasFit, RequestsFit, CallsFit, ClientFits, NoReplica, NoWrite, NoTask, Untracked, Numbered
  <1>2. Inv /\ SerialInv /\ [Next]_vars => SerialInv'
    <2>. SUFFICES ASSUME Inv, SerialInv, [Next]_vars PROVE SerialInv'
      OBVIOUS
    <2>1. CASE UNCHANGED vars
      BY <2>1 DEF vars, writerVars, clientVars, peerVars, SerialInv, ReplicasFit, RequestsFit, CallsFit, ClientFits
    <2>2. CASE Next
      BY <2>2, SerialWriter, SerialCalls, SerialPeer, SerialTasks, SerialClose, SerialCrash DEF Next
    <2>. QED  BY <2>1, <2>2
  <1>. QED  BY <1>1, <1>2, Safety, PTL DEF Spec

----------------------------------------------------------------------------
(* Every write is answered: no write that fails here but is kept there *)

\* Writes do not fail half way.
LEMMA WriteSettled == ASSUME WritesSettle PROVE Spec => []WriteInv
  <1>1. Init => WriteInv
    BY DEF Init, WriteInv, NoWrite
  <1>2. Inv /\ WriteInv /\ [Next]_vars => WriteInv'
    <2>. SUFFICES ASSUME Inv, WriteInv, [Next]_vars PROVE WriteInv'
      OBVIOUS
    <2>. USE DEF originVars, writerVars, clientVars, peerVars, closeVars
    <2>1. ~Fault("disk") /\ ~Fault("cancel") /\ write \in Writes /\ TypeInv
      BY DEF Fault, WritesSettle, Inv, TypeInv, WriterTypes
    <2>2. CASE UNCHANGED vars
      BY <2>2 DEF vars, WriteInv
    <2>3. CASE WriterNext
      <3>1. CASE BeginWrite
        BY <2>1, <3>1 DEF BeginWrite, WriteInv
      <3>2. CASE LocalWrite
        <4>1. origin = "open" /\ stage = "writing"
          BY <3>2 DEF LocalWrite, WriteInv, Inv, UploadInv
        <4>. QED  BY <2>1, <3>2, <4>1 DEF LocalWrite, WriteInv, Writes
      <3>3. CASE LocalWriteFails \/ WriteFails \/ CancelWrite
        BY <2>1, <3>3 DEF LocalWriteFails, WriteFails, CancelWrite, WriteInv
      <3>4. CASE Acknowledge
        BY <2>1, <3>4 DEF Acknowledge, WriteInv, Writes
      <3>. QED  BY <2>3, <3>1, <3>2, <3>3, <3>4 DEF WriterNext
    <2>4. ASSUME write'.local = write.local, stage' = stage, origin' = origin PROVE WriteInv'
      BY <2>4 DEF WriteInv
    <2>5. CASE CallNext
      <3>1. PICK p \in Peers :
              \/ \E c \in calls[p] : StartEntry(p, c) \/ Exchange(p, c) \/ Send(p, c) \/ TakeAnswer(p, c) \/ CallFails(p, c)
              \/ CoolDownOver(p)
        BY <2>5 DEF CallNext
      <3>2. calls[p] \subseteq Call
        BY <2>1 DEF TypeInv, ClientTypes
      <3>3. CASE CoolDownOver(p)
        BY <2>4, <3>3 DEF CoolDownOver
      <3>4. ASSUME NEW c \in calls[p], Exchange(p, c) \/ Send(p, c) PROVE WriteInv'
        <4>1. UNCHANGED <<write, stage, origin>>
          BY <3>4, Zenon DEF Exchange, Send
        <4>. QED  BY <2>4, <4>1
      <3>5. ASSUME NEW c \in calls[p], StartEntry(p, c) \/ TakeAnswer(p, c) \/ CallFails(p, c) PROVE WriteInv'
        <4>1. stage' = stage /\ origin' = origin
          BY <3>5 DEF StartEntry, TakeAnswer, CallFails
        <4>2. UNCHANGED write \/ \E ok \in BOOLEAN : Result(p, c, ok)
          <5>1. CASE StartEntry(p, c)
            BY <5>1 DEF StartEntry
          <5>2. CASE CallOk(p, c) \/ CallError(p, c)
            BY <5>2 DEF CallOk, CallError
          <5>. QED  BY <3>5, <5>1, <5>2 DEF TakeAnswer, CallFails
        <4>3. write'.local = write.local
          BY <2>1, <3>2, <4>2, ResultEffect
        <4>. QED  BY <2>4, <4>1, <4>3
      <3>. QED  BY <3>1, <3>3, <3>4, <3>5
    <2>6. CASE PeerNext
      BY <2>4, <2>6 DEF PeerNext, HandlerRead, HandlerWrite, LateRequest
    <2>7. CASE TaskNext
      <3>1. PICK p \in Peers : \/ OpenPeer(p) \/ RetryPrepare(p)
                               \/ \E k \in TaskKinds : CatchUpRead(p, k) \/ CatchUpPrepare(p, k) \/ CatchUpGone(p, k)
        BY <2>7 DEF TaskNext
      <3>2. CASE OpenPeer(p)
        BY <2>1, <3>2 DEF OpenPeer, WriteInv
      <3>3. ASSUME NEW k \in TaskKinds, CatchUpRead(p, k) PROVE WriteInv'
        <4>1. UNCHANGED <<write, stage, origin>>
          BY <3>3, Zenon DEF CatchUpRead
        <4>. QED  BY <2>4, <4>1
      <3>4. CASE RetryPrepare(p) \/ \E k \in TaskKinds : CatchUpPrepare(p, k) \/ CatchUpGone(p, k)
        BY <2>4, <3>4 DEF RetryPrepare, CatchUpPrepare, CatchUpGone
      <3>. QED  BY <3>1, <3>2, <3>3, <3>4
    <2>8. CASE CloseNext
      BY <2>1, <2>8 DEF CloseNext, BeginClose, SealLocal, FinishClose, CancelClose, CloseVisit, SealPeer, PurgePeer,
                        Upload, BeginPurge, PurgeLocal, WriteInv
    <2>9. CASE CrashNext
      BY <2>9 DEF CrashNext, OriginCrashes, PeerRestarts, WriteInv
    <2>. QED  BY <2>2, <2>3, <2>5, <2>6, <2>7, <2>8, <2>9 DEF Next
  <1>. QED  BY <1>1, <1>2, Safety, PTL DEF Spec

\* ReplicaIsPrefix: with peers that handle one request at a time and a writer whose
\* writes do not fail, every replica is a beginning of the originator's segment, for
\* every number of peers, entries and restarts, with or without a power loss
\* (ReplicateEntries refuses a gap and skips what it holds).
THEOREM PrefixOnly == ASSUME SerialHandlers, WritesSettle PROVE Spec => []ReplicaIsPrefix
  <1>1. Inv /\ SerialInv /\ WriteInv => ReplicaIsPrefix
    <2>. SUFFICES ASSUME Inv, SerialInv, WriteInv, NEW p \in Peers
                  PROVE  IsPrefix(replica[p].file, IF write.local = "pending" THEN Append(file, write.entry) ELSE file)
      BY DEF ReplicaIsPrefix
    <2>1. PICK f \in Seq(Entries) : f = replica[p].file
      BY FitTypes DEF Inv
    <2>2. PICK w \in Seq(Entries) : w = IF write.local = "pending" THEN Append(file, write.entry) ELSE file
      <3>1. file \in Seq(Entries) /\ write \in Writes
        BY DEF Inv, TypeInv, WriterTypes
      <3>2. write.local = "pending" => write.entry \in Entries
        BY <3>1, SegmentAssumption DEF Inv, FileInv, Entries, Writes
      <3>3. CASE write.local = "pending"
        <4>1. Append(file, write.entry) \in Seq(Entries)
          BY <3>1, <3>2, <3>3
        <4>. QED  BY <3>3, <4>1
      <3>. QED  BY <3>1, <3>3
    <2>3. Len(w) = write.entry /\ Numbered(w, 0)
      <3>1. file \in Seq(Entries) /\ write \in Writes /\ write.entry \in Nat /\ Len(file) \in Nat /\ Numbered(file, 0)
        BY FitTypes DEF Inv, TypeInv, WriterTypes, FileInv
      <3>2. CASE write.local = "pending"
        <4>1. Len(file) = write.entry - 1
          BY <3>2 DEF Inv, FileInv
        <4>2. write.entry \in Entries
          BY <3>1, <4>1, SegmentAssumption DEF Entries, Writes
        <4>3. PICK s \in Seq(Entries), e \in Entries : s = file /\ e = write.entry /\ e = Len(s) + 1
          BY <3>1, <4>1, <4>2
        <4>4. Numbered(Append(s, e), 0) /\ Len(Append(s, e)) = e
          BY <3>1, <4>3, AppendNumbered
        <4>. QED  BY <2>2, <3>2, <4>3, <4>4
      <3>3. CASE write.local # "pending"
        <4>1. write.local = "ok"
          BY <3>1, <3>3 DEF WriteInv, Writes
        <4>. QED  BY <2>2, <3>1, <3>3, <4>1 DEF Inv, FileInv
      <3>. QED  BY <3>2, <3>3
    <2>4. Numbered(f, 0) /\ Len(f) <= Len(w)
      BY <2>1, <2>3 DEF SerialInv, ReplicasFit
    <2>5. SubSeq(f, 1, Len(f)) = SubSeq(w, 1, Len(f))
      <3>1. PICK n \in Nat : n = Len(f)
        OBVIOUS
      <3>2. SubSeq(f, 1, n) = [i \in 1..n |-> f[i]] /\ SubSeq(w, 1, n) = [i \in 1..n |-> w[i]]
        BY <2>4, <3>1
      <3>3. \A i \in 1..n : f[i] = i /\ w[i] = i
        BY <2>3, <2>4, <3>1 DEF Numbered
      <3>. QED  BY <3>1, <3>2, <3>3
    <2>. QED  BY <2>1, <2>2, <2>4, <2>5 DEF IsPrefix
  <1>. QED  BY <1>1, Safety, SerialSafety, WriteSettled, PTL

----------------------------------------------------------------------------
(* Replicas that are never lost *)

Grow == \A q \in Peers : Len(replica[q].file) <= Len(replica'[q].file)

\* Without a purge and a restart, no replica gets shorter.
LEMMA ReplicasGrow ==
  ASSUME ReplicasKept
  PROVE  Inv /\ LostEmpty /\ ~PurgeBegan /\ [Next]_vars =>
            LostEmpty' /\ Grow
  <1>. DEFINE Good == LostEmpty' /\ Grow
  <1>. SUFFICES ASSUME Inv, LostEmpty, ~PurgeBegan, [Next]_vars PROVE Good
    OBVIOUS
  <1>. USE DEF originVars, writerVars, clientVars, peerVars, closeVars
  <1>1. /\ TypeInv /\ calls \in [Peers -> SUBSET Call] /\ orphans \in [Peers -> SUBSET Call]
        /\ replica \in [Peers -> Replica]
    BY DEF Inv, TypeInv, ClientTypes, PeerTypes
  <1>2. ASSUME UNCHANGED replica PROVE Good
    <2>1. \A q \in Peers : Len(replica[q].file) <= Len(replica[q].file)
      BY <1>1, FitTypes
    <2>. QED  BY <1>2, <2>1 DEF LostEmpty, Grow
  <1>3. ASSUME NEW p \in Peers, NEW rep \in Replica, replica' = [replica EXCEPT ![p] = rep],
               ~rep.live => rep.file = <<>>, Len(replica[p].file) <= Len(rep.file)
        PROVE  Good
    <2>1. \A q \in Peers : replica'[q] = IF q = p THEN rep ELSE replica[q]
      BY <1>1, <1>3
    <2>2. LostEmpty'
      BY <1>3, <2>1 DEF LostEmpty
    <2>3. \A q \in Peers : Len(replica[q].file) <= Len(replica[q].file)
      BY <1>1, FitTypes
    <2>. QED  BY <1>3, <2>1, <2>2, <2>3 DEF Grow
  <1>4. ASSUME NEW p \in Peers, NEW r \in Call,
               \/ replica' = [replica EXCEPT ![p].file = Handled(replica[p], r).file]
               \/ replica' = [replica EXCEPT ![p].file = Written(replica[p], r).file]
        PROVE  Good
    <2>1. PICK f \in Seq(Entries) : /\ replica' = [replica EXCEPT ![p].file = f] /\ Len(replica[p].file) <= Len(f)
                                    /\ ~replica[p].live => f = replica[p].file
      <3>1. PICK rep \in Replica : rep = replica[p]
        BY <1>1
      <3>2. /\ Handled(rep, r).file \in Seq(Entries) /\ Len(rep.file) <= Len(Handled(rep, r).file)
            /\ Written(rep, r).file \in Seq(Entries) /\ Len(rep.file) <= Len(Written(rep, r).file)
        BY HandledType
      <3>3. ~rep.live => Handled(rep, r).file = rep.file /\ Written(rep, r).file = rep.file
        BY DEF Handled, Written, Persisted
      <3>4. CASE replica' = [replica EXCEPT ![p].file = Handled(replica[p], r).file]
        BY <3>1, <3>2, <3>3, <3>4
      <3>5. CASE replica' = [replica EXCEPT ![p].file = Written(replica[p], r).file]
        BY <3>1, <3>2, <3>3, <3>5
      <3>. QED  BY <1>4, <3>4, <3>5
    <2>2. PICK rep \in Replica : rep = [replica[p] EXCEPT !.file = f]
      BY <1>1, <2>1, ReplicaType
    <2>3. rep.file = f /\ rep.live = replica[p].live
      BY <1>1, <2>2 DEF Replica, ReplicaRecord
    <2>4. replica' = [replica EXCEPT ![p] = rep]
      BY <1>1, <2>1, <2>2
    <2>5. ~rep.live => rep.file = <<>>
      BY <2>1, <2>3 DEF LostEmpty
    <2>. QED  BY <1>3, <2>1, <2>3, <2>4, <2>5
  <1>5. ASSUME NEW p \in Peers, NEW ok \in BOOLEAN, Prepare(p, ok) PROVE Good
    <2>1. UNCHANGED replica \/ replica' = [replica EXCEPT ![p] = Prepared(replica[p])]
      BY <1>1, <1>5 DEF Prepare
    <2>2. PICK rep \in Replica : rep = Prepared(replica[p])
      BY <1>1, ReplicaType
    <2>3. rep.live /\ Len(replica[p].file) <= Len(rep.file)
      <3>1. CASE replica[p].live
        <4>1. rep = replica[p]
          BY <2>2, <3>1 DEF Prepared
        <4>. QED  BY <1>1, <3>1, <4>1, FitTypes
      <3>2. CASE ~replica[p].live
        BY <2>2, <3>2 DEF Prepared, LostEmpty
      <3>. QED  BY <3>1, <3>2
    <2>. QED  BY <1>2, <1>3, <2>1, <2>2, <2>3
  <1>6. CASE UNCHANGED vars
    BY <1>2, <1>6 DEF vars
  <1>7. CASE WriterNext
    <2>1. UNCHANGED replica
      BY <1>7 DEF WriterNext, BeginWrite, LocalWrite, LocalWriteFails, Acknowledge, WriteFails, CancelWrite
    <2>. QED  BY <1>2, <2>1
  <1>8. CASE CallNext
    <2>1. PICK p \in Peers :
            \/ \E c \in calls[p] : StartEntry(p, c) \/ Exchange(p, c) \/ Send(p, c) \/ TakeAnswer(p, c) \/ CallFails(p, c)
            \/ CoolDownOver(p)
      BY <1>8 DEF CallNext
    <2>2. ASSUME NEW c \in calls[p], Exchange(p, c) PROVE Good
      <3>1. c \in Call /\ replica' = [replica EXCEPT ![p].file = Handled(replica[p], c).file]
        BY <1>1, <2>2 DEF Exchange
      <3>. QED  BY <1>4, <3>1
    <2>3. ASSUME NEW c \in calls[p], StartEntry(p, c) \/ Send(p, c) \/ TakeAnswer(p, c) \/ CallFails(p, c) PROVE UNCHANGED replica
      BY <2>3 DEF StartEntry, Send, TakeAnswer, CallFails
    <2>4. CoolDownOver(p) => UNCHANGED replica
      BY DEF CoolDownOver
    <2>. QED  BY <1>2, <2>1, <2>2, <2>3, <2>4
  <1>9. CASE PeerNext
    <2>1. PICK p \in Peers : \E r \in Requests(p) : HandlerRead(p, r) \/ HandlerWrite(p, r) \/ LateRequest(p, r)
      BY <1>9 DEF PeerNext
    <2>2. PICK r \in Requests(p) : HandlerRead(p, r) \/ HandlerWrite(p, r) \/ LateRequest(p, r)
      BY <2>1
    <2>3. r \in Call
      BY <1>1 DEF Requests
    <2>4. \/ UNCHANGED replica
          \/ replica' = [replica EXCEPT ![p].file = Handled(replica[p], r).file]
          \/ replica' = [replica EXCEPT ![p].file = Written(replica[p], r).file]
      BY <2>2 DEF HandlerRead, HandlerWrite, LateRequest
    <2>. QED  BY <1>2, <1>4, <2>3, <2>4
  <1>10. CASE TaskNext
    <2>1. PICK p \in Peers : \/ OpenPeer(p) \/ RetryPrepare(p)
                             \/ \E k \in TaskKinds : CatchUpRead(p, k) \/ CatchUpPrepare(p, k) \/ CatchUpGone(p, k)
      BY <1>10 DEF TaskNext
    <2>2. OpenPeer(p) \/ RetryPrepare(p) => UNCHANGED replica \/ \E ok \in BOOLEAN : Prepare(p, ok)
      BY DEF OpenPeer, RetryPrepare
    <2>3. \A k \in TaskKinds : CatchUpRead(p, k) => UNCHANGED replica
      BY Zenon DEF CatchUpRead
    <2>4. \A k \in TaskKinds : CatchUpPrepare(p, k) \/ CatchUpGone(p, k) => UNCHANGED replica \/ \E ok \in BOOLEAN : Prepare(p, ok)
      BY DEF CatchUpPrepare, CatchUpGone
    <2>. QED  BY <1>2, <1>5, <2>1, <2>2, <2>3, <2>4
  <1>11. CASE CloseNext
    <2>1. ASSUME NEW p \in Peers, SealPeer(p) PROVE Good
      <3>1. UNCHANGED replica \/ replica' = [replica EXCEPT ![p] = Sealed(replica[p])]
        BY <1>1, <2>1 DEF SealPeer
      <3>2. PICK rep \in Replica : rep = Sealed(replica[p])
        BY <1>1, ReplicaType
      <3>3. rep.file = replica[p].file /\ (replica[p].live => rep.live)
        BY <1>1, <3>2 DEF Sealed, Replica, ReplicaRecord
      <3>4. (~rep.live => rep.file = <<>>) /\ Len(replica[p].file) <= Len(rep.file)
        BY <1>1, <3>3, FitTypes DEF LostEmpty
      <3>. QED  BY <1>2, <1>3, <3>1, <3>2, <3>4
    <2>2. ASSUME NEW p \in Peers, PurgePeer(p) PROVE FALSE
      BY <2>2 DEF PurgePeer, PurgeBegan
    <2>3. ASSUME NEW p \in Peers, CloseVisit(p) PROVE UNCHANGED replica
      BY <2>3 DEF CloseVisit
    <2>4. ASSUME NEW ok \in BOOLEAN, Upload(ok) PROVE UNCHANGED replica
      BY <2>4 DEF Upload
    <2>5. BeginClose \/ SealLocal \/ FinishClose \/ CancelClose \/ BeginPurge \/ PurgeLocal => UNCHANGED replica
      BY DEF BeginClose, SealLocal, FinishClose, CancelClose, BeginPurge, PurgeLocal
    <2>. QED  BY <1>2, <1>11, <2>1, <2>2, <2>3, <2>4, <2>5 DEF CloseNext
  <1>12. CASE CrashNext
    <2>1. ~\E p \in Peers, class \in {"restart", "power"} : PeerRestarts(p, class)
      BY DEF PeerRestarts, Fault, ReplicasKept
    <2>2. OriginCrashes => UNCHANGED replica
      BY DEF OriginCrashes
    <2>. QED  BY <1>2, <1>12, <2>1, <2>2 DEF CrashNext
  <1>. QED  BY <1>6, <1>7, <1>8, <1>9, <1>10, <1>11, <1>12 DEF Next

\* Replicas that only grow keep every claim, and a step that brings in none keeps
\* them all.
LEMMA ClaimsKept ==
  ASSUME TypeInv, TypeInv', ClaimsHeld, Grow
  PROVE  /\ (\A q \in Peers : \A d \in calls'[q] :
               \/ \E c \in calls[q] : SameCall(d, c)
               \/ d.step # "answered" \/ d.reply # "ack" \/ d.persisted <= Len(replica'[q].file)) => AnswersHeld'
         /\ (\A q \in Peers : tracked'[q].acked \in {0, tracked[q].acked}) => TrackedHeld'
         /\ (\A q \in Peers, k \in TaskKinds : tasks'[q][k] = tasks[q][k] \/ tasks'[q][k].stage # "read") => TasksHeld'
         /\ write'.entry = write.entry /\ write'.acks \subseteq write.acks => WriteHeld'
         /\ acked' = acked => CountsHeld'
         /\ \A p \in Peers, n \in Nat : n <= Length(p) => n <= Length(p)'
  <1>1. /\ \A q \in Peers : Len(replica[q].file) \in Nat /\ Len(replica'[q].file) \in Nat
        /\ \A q \in Peers : tracked[q].acked \in Nat /\ \A k \in TaskKinds : tasks[q][k].pos \in Nat
        /\ \A q \in Peers : \A c \in calls[q] : c.persisted \in Nat
        /\ write.entry \in Nat /\ write.acks \subseteq Peers
    <2>1. \A q \in Peers : Len(replica'[q].file) \in Nat
      BY DEF TypeInv, PeerTypes, Replica, ReplicaRecord
    <2>2. write.acks \subseteq Peers
      BY DEF TypeInv, WriterTypes, Writes
    <2>. QED  BY <2>1, <2>2, FitTypes
  <1>2. \A p \in Peers, n \in Nat : n <= Length(p) => n <= Length(p)'
    BY <1>1 DEF Length, Grow
  <1>3. ASSUME \A q \in Peers : \A d \in calls'[q] :
                  \/ \E c \in calls[q] : SameCall(d, c)
                  \/ d.step # "answered" \/ d.reply # "ack" \/ d.persisted <= Len(replica'[q].file)
        PROVE  AnswersHeld'
    <2>. SUFFICES ASSUME NEW q \in Peers, NEW d \in calls'[q], d.step = "answered", d.reply = "ack"
                  PROVE  d.persisted <= Length(q)'
      BY DEF AnswersHeld
    <2>1. CASE d.persisted <= Len(replica'[q].file)
      BY <2>1 DEF Length
    <2>2. ASSUME NEW c \in calls[q], SameCall(d, c) PROVE d.persisted <= Length(q)'
      <3>1. c.persisted <= Length(q) /\ c.persisted \in Nat /\ d.persisted = c.persisted
        BY <1>1, <2>2 DEF ClaimsHeld, AnswersHeld, SameCall
      <3>. QED  BY <1>2, <3>1
    <2>. QED  BY <1>3, <2>1, <2>2
  <1>4. ASSUME \A q \in Peers : tracked'[q].acked \in {0, tracked[q].acked} PROVE TrackedHeld'
    BY <1>1, <1>4 DEF ClaimsHeld, TrackedHeld, Length, Grow
  <1>5. ASSUME \A q \in Peers, k \in TaskKinds : tasks'[q][k] = tasks[q][k] \/ tasks'[q][k].stage # "read" PROVE TasksHeld'
    BY <1>1, <1>2, <1>5 DEF ClaimsHeld, TasksHeld
  <1>6. ASSUME write'.entry = write.entry, write'.acks \subseteq write.acks PROVE WriteHeld'
    BY <1>1, <1>2, <1>6 DEF ClaimsHeld, WriteHeld
  <1>7. ASSUME acked' = acked PROVE CountsHeld'
    <2>. SUFFICES ASSUME NEW a \in acked PROVE Cardinality({p \in Peers : a.entry <= Length(p)'}) >= a.count - 1
      BY <1>7 DEF CountsHeld
    <2>1. a.entry \in Nat /\ a.count \in Nat
      BY SegmentAssumption DEF TypeInv, WriterTypes, Acks, Entries
    <2>2. {p \in Peers : a.entry <= Length(p)} \subseteq {p \in Peers : a.entry <= Length(p)'}
      BY <1>2, <2>1
    <2>3. IsFiniteSet({p \in Peers : a.entry <= Length(p)'}) /\ IsFiniteSet({p \in Peers : a.entry <= Length(p)})
      BY SegmentAssumption, FS_Subset
    <2>4. Cardinality({p \in Peers : a.entry <= Length(p)}) <= Cardinality({p \in Peers : a.entry <= Length(p)'})
      BY <2>2, <2>3, FS_Subset
    <2>5. Cardinality({p \in Peers : a.entry <= Length(p)}) >= a.count - 1
      BY DEF ClaimsHeld, CountsHeld
    <2>6. Cardinality({p \in Peers : a.entry <= Length(p)}) \in Nat /\ Cardinality({p \in Peers : a.entry <= Length(p)'}) \in Nat
      BY <2>3, FS_CardinalityType
    <2>. QED  BY <2>1, <2>4, <2>5, <2>6
  <1>. QED  BY <1>2, <1>3, <1>4, <1>5, <1>6, <1>7

\* The steps of a write: an acknowledgement counts the peers whose answers were taken.
LEMMA HeldWriter ==
  ASSUME Inv, TypeInv', ClaimsHeld, WriterNext, Grow
  PROVE  ClaimsHeld'
  <1>. USE DEF originVars, writerVars, clientVars, peerVars, closeVars
  <1>1. TypeInv /\ \A d : SameCall(d, d)
    BY DEF Inv, SameCall
  <1>2. /\ write \in Writes /\ write.acks \subseteq Peers /\ write.entry \in Nat
    BY <1>1, FitTypes DEF TypeInv, WriterTypes, Writes
  <1>3. CASE BeginWrite
    <2>1. UNCHANGED <<tracked, tasks, acked>>
      BY <1>3 DEF BeginWrite
    <2>2. WriteHeld'
      BY <1>3 DEF BeginWrite, WriteHeld
    <2>3. \A q \in Peers : \A d \in calls'[q] : d \in calls[q] \/ d.step = "start"
      BY <1>3 DEF BeginWrite, NewCall
    <2>. QED  BY <1>1, <2>1, <2>2, <2>3, ClaimsKept DEF ClaimsHeld
  <1>4. CASE Acknowledge
    <2>1. UNCHANGED <<tracked, calls>> /\ HealReplicas
      BY <1>4 DEF Acknowledge
    <2>2. write'.entry = write.entry /\ write'.acks = {}
      BY <1>2, <1>4 DEF Acknowledge, Writes
    <2>3. ASSUME NEW q \in Peers, NEW k \in TaskKinds PROVE tasks'[q][k] = tasks[q][k] \/ tasks'[q][k].stage # "read"
      <3>1. PICK f \in [TaskKinds -> Task] : f = tasks[q]
        BY <1>1 DEF TypeInv, ClientTypes
      <3>2. tasks'[q] = f \/ tasks'[q] = [f EXCEPT !["catchup"].stage = "start"]
        BY <2>1, <3>1 DEF HealReplicas
      <3>3. \/ [f EXCEPT !["catchup"].stage = "start"][k] = f[k]
            \/ [f EXCEPT !["catchup"].stage = "start"][k].stage = "start"
        <4>1. f[k] \in Task
          OBVIOUS
        <4>. QED  BY <4>1 DEF Task
      <3>. QED  BY <3>1, <3>2, <3>3
    <2>4. CountsHeld'
      <3>1. PICK n : n = 1 + Cardinality(write.acks)
        OBVIOUS
      <3>2. acked' = acked \cup {[entry |-> write.entry, count |-> n]} /\ UNCHANGED replica
        BY <1>4, <3>1 DEF Acknowledge
      <3>3. Cardinality({p \in Peers : write.entry <= Length(p)}) >= n - 1
        <4>1. write.acks \subseteq {p \in Peers : write.entry <= Length(p)}
          BY <1>2 DEF ClaimsHeld, WriteHeld
        <4>2. IsFiniteSet({p \in Peers : write.entry <= Length(p)}) /\ IsFiniteSet(write.acks)
          BY <1>2, SegmentAssumption, FS_Subset
        <4>3. Cardinality(write.acks) <= Cardinality({p \in Peers : write.entry <= Length(p)})
          BY <4>1, <4>2, FS_Subset
        <4>4. Cardinality({p \in Peers : write.entry <= Length(p)}) \in Nat /\ Cardinality(write.acks) \in Nat
          BY <4>2, FS_CardinalityType
        <4>. QED  BY <3>1, <4>3, <4>4
      <3>4. \A a \in acked' : Cardinality({p \in Peers : a.entry <= Length(p)}) >= a.count - 1
        BY <3>2, <3>3 DEF ClaimsHeld, CountsHeld
      <3>5. \A p \in Peers : Length(p)' = Length(p)
        BY <3>2 DEF Length
      <3>6. \A a \in acked' : {p \in Peers : a.entry <= Length(p)'} = {p \in Peers : a.entry <= Length(p)}
        BY <3>5
      <3>. QED  BY <3>4, <3>6 DEF CountsHeld
    <2>. QED  BY <1>1, <2>1, <2>2, <2>3, <2>4, ClaimsKept DEF ClaimsHeld
  <1>5. CASE LocalWrite \/ LocalWriteFails \/ WriteFails \/ CancelWrite
    <2>1. UNCHANGED <<tracked, calls, tasks, acked>>
      BY <1>5 DEF LocalWrite, LocalWriteFails, WriteFails, CancelWrite
    <2>2. write'.entry = write.entry /\ write'.acks = write.acks
      BY <1>2, <1>5 DEF LocalWrite, LocalWriteFails, WriteFails, CancelWrite, Writes
    <2>. QED  BY <1>1, <2>1, <2>2, ClaimsKept DEF ClaimsHeld
  <1>. QED  BY <1>3, <1>4, <1>5 DEF WriterNext

\* The calls: what is taken as persisted, the peer holds.
LEMMA HeldCalls ==
  ASSUME SerialHandlers, Inv, SerialInv, TypeInv', ClaimsHeld, CallNext,
         Grow
  PROVE  ClaimsHeld'
  <1>. SUFFICES ASSUME NEW p \in Peers,
                       \/ \E c \in calls[p] : StartEntry(p, c) \/ Exchange(p, c) \/ Send(p, c) \/ TakeAnswer(p, c) \/ CallFails(p, c)
                       \/ CoolDownOver(p)
                PROVE  ClaimsHeld'
    BY DEF CallNext
  <1>. USE DEF originVars, writerVars, clientVars, peerVars, closeVars
  <1>1. /\ TypeInv /\ tracked \in [Peers -> Tracked] /\ calls \in [Peers -> SUBSET Call]
        /\ replica \in [Peers -> Replica] /\ write.entry \in Nat
    BY FitTypes DEF Inv, TypeInv, ClientTypes, PeerTypes
  <1>2. \A d : SameCall(d, d)
    BY DEF SameCall
  <1>3. CASE CoolDownOver(p)
    BY <1>1, <1>2, <1>3, ClaimsKept DEF CoolDownOver, ClaimsHeld
  <1>4. ASSUME NEW c \in calls[p], Send(p, c) PROVE FALSE
    BY <1>4 DEF Send
  <1>5. ASSUME NEW c \in calls[p], StartEntry(p, c) PROVE ClaimsHeld'
    <2>1. c \in Call /\ UNCHANGED <<tasks, acked>>
      BY <1>1, <1>5 DEF StartEntry
    <2>2. CASE breaker[p].cooling \/ ~InPosition(tracked[p], c.offset)
      <3>1. PICK t \in Tracked : t = MarkBehind(tracked[p]) /\ t.acked = tracked[p].acked
        BY <1>1, TrackedType
      <3>2. tracked' = [tracked EXCEPT ![p] = t] /\ calls' = [calls EXCEPT ![p] = calls[p] \ {c}] /\ Result(p, c, FALSE)
        BY <1>1, <1>5, <2>2, <3>1 DEF StartEntry
      <3>3. \A q \in Peers : tracked'[q].acked = tracked[q].acked /\ calls'[q] \subseteq calls[q]
        BY <1>1, <3>1, <3>2
      <3>4. write'.entry = write.entry /\ write'.acks = write.acks
        BY <3>2 DEF Result
      <3>. QED  BY <1>1, <1>2, <2>1, <3>3, <3>4, ClaimsKept DEF ClaimsHeld
    <2>3. CASE ~(breaker[p].cooling \/ ~InPosition(tracked[p], c.offset))
      <3>1. PICK d \in Call : d = [c EXCEPT !.step = "queued"] /\ d.step = "queued"
        <4>1. [c EXCEPT !.step = "queued"] \in Call /\ [c EXCEPT !.step = "queued"].step = "queued"
          BY <2>1 DEF Call
        <4>. QED  BY <4>1
      <3>2. calls' = [calls EXCEPT ![p] = (calls[p] \ {c}) \cup {d}] /\ UNCHANGED <<tracked, write>>
        BY <1>1, <1>5, <2>3, <3>1 DEF StartEntry
      <3>3. \A q \in Peers : \A x \in calls'[q] : x \in calls[q] \/ x.step # "answered"
        BY <1>1, <3>1, <3>2
      <3>. QED  BY <1>1, <1>2, <2>1, <3>2, <3>3, ClaimsKept DEF ClaimsHeld
    <2>. QED  BY <2>2, <2>3
  <1>6. ASSUME NEW c \in calls[p], Exchange(p, c) PROVE ClaimsHeld'
    <2>1. c \in Call /\ replica[p] \in Replica
      BY <1>1
    <2>2. UNCHANGED <<tracked, tasks, write, acked>>
      BY <1>6, Zenon DEF Exchange
    <2>3. PICK f \in Seq(Entries), d \in Call : f = Handled(replica[p], c).file /\ d = Handled(replica[p], c).call
      BY <2>1, HandledType
    <2>4. d.reply = "ack" => d.persisted <= Len(f)
      <3>1. Numbered(replica[p].file, 0) /\ Len(replica[p].file) <= write.entry /\ Fits(c, write.entry)
        BY DEF SerialInv, RequestsFit, ReplicasFit
      <3>. QED  BY <1>1, <2>1, <2>3, <3>1, HandledFits
    <2>5. replica' = [replica EXCEPT ![p].file = f] /\ calls' = [calls EXCEPT ![p] = (calls[p] \ {c}) \cup {d}]
      BY <1>1, <1>6, <2>3 DEF Exchange
    <2>6. replica'[p].file = f
      BY <1>1, <2>5 DEF Replica, ReplicaRecord
    <2>7. \A q \in Peers : \A x \in calls'[q] : x \in calls[q] \/ (q = p /\ x = d)
      BY <1>1, <2>5
    <2>. QED  BY <1>1, <1>2, <2>2, <2>4, <2>6, <2>7, ClaimsKept DEF ClaimsHeld
  <1>7. ASSUME NEW c \in calls[p], CallError(p, c), UNCHANGED acked PROVE ClaimsHeld'
    <2>1. /\ c \in Call /\ Result(p, c, FALSE) /\ TaskStep(p, c, FALSE)
          /\ \A q \in Peers : tracked'[q].acked = tracked[q].acked
          /\ \A q \in Peers : \A d \in calls'[q] : \E e \in calls[q] : SameCall(d, e)
      BY <1>1, <1>7, CallErrorEffect
    <2>2. write'.entry = write.entry /\ write'.acks = write.acks
      BY <2>1 DEF Result
    <2>3. \A q \in Peers, k \in TaskKinds : tasks'[q][k] = tasks[q][k] \/ tasks'[q][k].stage # "read"
      <3>1. \A k \in TaskKinds : ChunkFailed(tasks[p][k], c).stage # "read"
        <4>1. \A t \in Task : ChunkFailed(t, c).stage # "read"
          BY DEF ChunkFailed, Task, NoTask
        <4>. QED  BY <1>1, <4>1, FitTypes
      <3>2. TypeInv /\ c \in Call /\ TaskStep(p, c, FALSE)
        BY <1>1, <2>1
      <3>3. \A q \in Peers, j \in TaskKinds :
               \/ tasks'[q][j] = tasks[q][j]
               \/ q = p /\ j = c.kind /\ tasks'[q][j] = ChunkFailed(tasks[p][j], c)
        BY <3>2, TaskMoves
      <3>. QED  BY <3>1, <3>3
    <2>. QED  BY <1>1, <1>7, <2>1, <2>2, <2>3, ClaimsKept DEF ClaimsHeld
  <1>8. ASSUME NEW c \in calls[p], CallFails(p, c) PROVE ClaimsHeld'
    BY <1>7, <1>8 DEF CallFails
  <1>9. ASSUME NEW c \in calls[p], TakeAnswer(p, c) PROVE ClaimsHeld'
    <2>1. UNCHANGED <<replica, acked>> /\ c.step = "answered"
      BY <1>9 DEF TakeAnswer
    <2>2. CASE CallError(p, c)
      BY <1>7, <2>1, <2>2
    <2>3. CASE CallOk(p, c) /\ c.reply = "ack" /\ c.persisted >= c.offset + Len(c.data)
      <3>1. /\ c \in Call /\ Result(p, c, TRUE) /\ TaskStep(p, c, TRUE)
            /\ \A q \in Peers : tracked'[q].acked = tracked[q].acked \/ (q = p /\ tracked'[q].acked = c.persisted)
            /\ \A q \in Peers : calls'[q] \subseteq calls[q]
        BY <1>1, <2>3, CallOkEffect
      <3>2. c.persisted <= Length(p) /\ c.persisted \in Nat /\ c.offset + Len(c.data) \in Nat /\ Length(p) \in Nat
        <4>1. c.persisted <= Length(p)
          BY <2>1, <2>3 DEF ClaimsHeld, AnswersHeld
        <4>2. c.persisted \in Nat /\ c.offset + Len(c.data) \in Nat
          BY <3>1 DEF Call
        <4>. QED  BY <1>1, <4>1, <4>2, FitTypes DEF Length
      <3>3. c.offset + Len(c.data) <= Length(p)
        BY <2>3, <3>2
      <3>4. TrackedHeld'
        BY <2>1, <3>1, <3>2 DEF ClaimsHeld, TrackedHeld, Length
      <3>5. ASSUME NEW q \in Peers, NEW k \in TaskKinds, tasks'[q][k].stage = "read" PROVE tasks'[q][k].pos <= Length(q)
        <4>1. TypeInv /\ c \in Call /\ TaskStep(p, c, TRUE)
          BY <1>1, <3>1
        <4>2. \A r \in Peers, j \in TaskKinds :
                 \/ tasks'[r][j] = tasks[r][j]
                 \/ r = p /\ j = c.kind /\ tasks'[r][j] = ChunkPersisted(tasks[p][j], c)
          BY <4>1, TaskMoves
        <4>3. tasks[p][k] \in Task
          BY <1>1, FitTypes
        <4>4. ChunkPersisted(tasks[p][k], c).pos \in {0, c.offset + Len(c.data)}
          BY <3>1, <4>3, TaskType
        <4>5. CASE tasks'[q][k] = tasks[q][k]
          BY <3>5, <4>5 DEF ClaimsHeld, TasksHeld
        <4>6. CASE q = p /\ tasks'[q][k] = ChunkPersisted(tasks[p][k], c)
          BY <3>2, <3>3, <4>4, <4>6
        <4>. QED  BY <4>2, <4>5, <4>6
      <3>6. TasksHeld'
        BY <2>1, <3>5 DEF TasksHeld, Length
      <3>7. WriteHeld'
        <4>1. write'.entry = write.entry /\ \/ write'.acks = write.acks
                                            \/ /\ c.kind = "entry" /\ stage = "writing" /\ c.offset = write.offset
                                               /\ write'.acks = write.acks \cup {p}
          BY <1>1, <3>1, ResultEffect
        <4>2. c.kind = "entry" => Len(c.data) = 1
          BY DEF SerialInv, RequestsFit, Fits
        <4>3. stage = "writing" => write.offset = write.entry - 1
          BY DEF Inv, FileInv
        <4>4. c.kind = "entry" /\ stage = "writing" /\ c.offset = write.offset => write.entry <= Length(p)
          <5>. SUFFICES ASSUME c.kind = "entry", stage = "writing", c.offset = write.offset PROVE write.entry <= Length(p)
            OBVIOUS
          <5>1. c.offset = write.entry - 1 /\ Len(c.data) = 1
            BY <4>2, <4>3
          <5>2. (write.entry - 1) + 1 <= Length(p)
            BY <3>3, <5>1
          <5>. QED  BY <1>1, <5>2
        <4>. QED  BY <2>1, <4>1, <4>4 DEF ClaimsHeld, WriteHeld, Length
      <3>. QED  BY <1>1, <1>2, <2>1, <3>1, <3>4, <3>6, <3>7, ClaimsKept DEF ClaimsHeld
    <2>. QED  BY <1>9, <2>2, <2>3 DEF TakeAnswer
  <1>. QED  BY <1>3, <1>4, <1>5, <1>6, <1>8, <1>9

\* The handlers and the tasks: a catch-up starts with no claim.
LEMMA HeldPeer ==
  ASSUME SerialHandlers, Inv, SerialInv, TypeInv', ClaimsHeld, PeerNext, Grow
  PROVE  ClaimsHeld'
  <1>. SUFFICES ASSUME NEW p \in Peers, NEW r \in Requests(p),
                       HandlerRead(p, r) \/ HandlerWrite(p, r) \/ LateRequest(p, r)
                PROVE  ClaimsHeld'
    BY DEF PeerNext
  <1>. USE DEF originVars, writerVars, clientVars, peerVars, closeVars
  <1>1. TypeInv /\ r.step # "reading" /\ \A d : SameCall(d, d)
    BY DEF Inv, Requests, SerialInv, RequestsFit, Fits, SameCall
  <1>2. UNCHANGED <<calls, tracked, tasks, write, acked>>
    BY <1>1 DEF HandlerRead, HandlerWrite, LateRequest
  <1>. QED  BY <1>1, <1>2, ClaimsKept DEF ClaimsHeld

\* See above.
LEMMA HeldTasks ==
  ASSUME Inv, TypeInv', ClaimsHeld, TaskNext, Grow
  PROVE  ClaimsHeld'
  <1>. SUFFICES ASSUME NEW p \in Peers,
                       \/ OpenPeer(p) \/ RetryPrepare(p)
                       \/ \E k \in TaskKinds : CatchUpRead(p, k) \/ CatchUpPrepare(p, k) \/ CatchUpGone(p, k)
                PROVE  ClaimsHeld'
    BY DEF TaskNext
  <1>. USE DEF originVars, writerVars, clientVars, peerVars, closeVars
  <1>1. TypeInv /\ calls \in [Peers -> SUBSET Call] /\ tracked \in [Peers -> Tracked] /\ "prepare" \in TaskKinds
    BY DEF Inv, TypeInv, ClientTypes, TaskKinds
  <1>2. \A d : SameCall(d, d)
    BY DEF SameCall
  <1>3. /\ NoTask \in Task /\ NoTask.stage # "read"
        /\ \A s \in {"retry", "start"}, b \in BOOLEAN :
              /\ [NoTask EXCEPT !.stage = s] \in Task /\ [NoTask EXCEPT !.stage = s].stage = s
              /\ [NoTask EXCEPT !.stage = s, !.again = b] \in Task /\ [NoTask EXCEPT !.stage = s, !.again = b].stage = s
    BY DEF NoTask, Task
  <1>4. ASSUME NEW k \in TaskKinds, tasks' = tasks \/ \E t \in Task : t.stage # "read" /\ SetTask(p, k, t)
        PROVE  \A q \in Peers, j \in TaskKinds : tasks'[q][j] = tasks[q][j] \/ tasks'[q][j].stage # "read"
    <2>1. CASE tasks' = tasks
      BY <2>1
    <2>2. ASSUME NEW t \in Task, t.stage # "read", SetTask(p, k, t)
          PROVE  \A q \in Peers, j \in TaskKinds : tasks'[q][j] = tasks[q][j] \/ tasks'[q][j].stage # "read"
      <3>1. tasks'[p][k] = t /\ \A q \in Peers, j \in TaskKinds : q # p \/ j # k => tasks'[q][j] = tasks[q][j]
        BY <1>1, <2>2, SetTaskEffect
      <3>. QED  BY <2>2, <3>1
    <2>. QED  BY <1>4, <2>1, <2>2
  <1>5. ASSUME NEW k \in TaskKinds,
               UNCHANGED <<replica, tracked>> \/ \E ok \in BOOLEAN : Prepare(p, ok),
               tasks' = tasks \/ \E t \in Task : t.stage # "read" /\ SetTask(p, k, t),
               UNCHANGED <<calls, write, acked>>
        PROVE  ClaimsHeld'
    <2>1. \A q \in Peers : tracked'[q].acked \in {0, tracked[q].acked}
      <3>1. Untracked.acked = 0
        BY DEF Untracked
      <3>. QED  BY <1>1, <1>5, <3>1, PrepareEffect
    <2>2. \A q \in Peers, j \in TaskKinds : tasks'[q][j] = tasks[q][j] \/ tasks'[q][j].stage # "read"
      BY <1>4, <1>5
    <2>. QED  BY <1>1, <1>2, <1>5, <2>1, <2>2, ClaimsKept DEF ClaimsHeld
  <1>6. CASE OpenPeer(p)
    BY <1>1, <1>3, <1>5, <1>6 DEF OpenPeer
  <1>7. CASE RetryPrepare(p)
    <2>1. tasks' = tasks \/ SetTask(p, "prepare", NoTask) \/ SetTask(p, "prepare", [NoTask EXCEPT !.stage = "start"])
      BY <1>7 DEF RetryPrepare, SetTask
    <2>. QED  BY <1>1, <1>3, <1>5, <1>7, <2>1 DEF RetryPrepare
  <1>8. ASSUME NEW k \in TaskKinds, CatchUpPrepare(p, k) \/ CatchUpGone(p, k) PROVE ClaimsHeld'
    BY <1>1, <1>3, <1>5, <1>8 DEF CatchUpPrepare, CatchUpGone
  <1>9. ASSUME NEW k \in TaskKinds, CatchUpRead(p, k) PROVE ClaimsHeld'
    <2>1. PICK pos \in Nat, chunk \in Seq(Entries), done \in BOOLEAN, u \in Task :
            CatchUpChunk(p, k, pos, chunk, done, u)
      BY <1>1, <1>9, CatchUpEffect
    <2>2. UNCHANGED <<tracked, write, acked>>
      BY <1>9, Zenon DEF CatchUpRead
    <2>3. u.stage # "read" /\ SetTask(p, k, u)
      <3>1. SetTask(p, k, u) /\ (done => u = NoTask) /\ (~done => u.stage = "call")
        BY <2>1, Zenon DEF CatchUpChunk
      <3>2. u = NoTask \/ u.stage = "call"
        BY <3>1, Zenon
      <3>. QED  BY <1>3, <3>1, <3>2
    <2>4. \A q \in Peers, j \in TaskKinds : tasks'[q][j] = tasks[q][j] \/ tasks'[q][j].stage # "read"
      BY <1>4, <2>3
    <2>5. PICK c \in Call : c = NewCall(k, pos, chunk, "queued") /\ c.step = "queued"
      <3>1. NewCall(k, pos, chunk, "queued") \in Call
        BY CallType
      <3>2. NewCall(k, pos, chunk, "queued").step = "queued"
        BY DEF NewCall
      <3>. QED  BY <3>1, <3>2
    <2>6. calls' = calls \/ calls' = [calls EXCEPT ![p] = calls[p] \cup {c}]
      <3>1. calls' = IF done THEN calls ELSE [calls EXCEPT ![p] = @ \cup {NewCall(k, pos, chunk, "queued")}]
        BY <2>1, Zenon DEF CatchUpChunk
      <3>. QED  BY <1>1, <2>5, <3>1
    <2>7. \A q \in Peers : \A d \in calls'[q] : d \in calls[q] \/ d.step # "answered"
      BY <1>1, <2>5, <2>6
    <2>. QED  BY <1>1, <1>2, <2>2, <2>4, <2>7, ClaimsKept DEF ClaimsHeld
  <1>. QED  BY <1>6, <1>7, <1>8, <1>9

\* The close and the crashes make no claim either.
LEMMA HeldClose ==
  ASSUME Inv, TypeInv', ClaimsHeld, CloseNext, Grow
  PROVE  ClaimsHeld'
  <1>. USE DEF originVars, writerVars, clientVars, peerVars, closeVars
  <1>1. TypeInv /\ calls \in [Peers -> SUBSET Call] /\ "close" \in TaskKinds
    BY DEF Inv, TypeInv, ClientTypes, TaskKinds
  <1>2. \A d : SameCall(d, d)
    BY DEF SameCall
  <1>3. ASSUME UNCHANGED <<calls, tracked, tasks, write, acked>> PROVE ClaimsHeld'
    BY <1>1, <1>2, <1>3, ClaimsKept DEF ClaimsHeld
  <1>4. CASE BeginClose \/ SealLocal \/ CancelClose \/ BeginPurge \/ PurgeLocal
    BY <1>3, <1>4 DEF BeginClose, SealLocal, CancelClose, BeginPurge, PurgeLocal
  <1>5. ASSUME NEW ok \in BOOLEAN, Upload(ok) PROVE ClaimsHeld'
    BY <1>3, <1>5 DEF Upload
  <1>6. ASSUME NEW p \in Peers, PurgePeer(p) PROVE ClaimsHeld'
    BY <1>3, <1>6 DEF PurgePeer
  <1>7. CASE FinishClose
    <2>1. UNCHANGED <<calls, tasks, write, acked>> /\ \A q \in Peers : tracked'[q].acked = 0
      BY <1>7 DEF FinishClose, Untracked
    <2>. QED  BY <1>1, <1>2, <2>1, ClaimsKept DEF ClaimsHeld
  <1>8. ASSUME NEW p \in Peers, CloseVisit(p) PROVE ClaimsHeld'
    <2>1. UNCHANGED <<write, acked, calls, tracked>>
      BY <1>8 DEF CloseVisit
    <2>2. PICK t \in Task : t = [NoTask EXCEPT !.stage = "start"] /\ t.stage # "read"
      <3>1. [NoTask EXCEPT !.stage = "start"] \in Task /\ [NoTask EXCEPT !.stage = "start"].stage # "read"
        BY DEF NoTask, Task
      <3>. QED  BY <3>1
    <2>3. tasks' = tasks \/ SetTask(p, "close", t)
      BY <1>8, <2>2 DEF CloseVisit
    <2>4. \A q \in Peers, k \in TaskKinds : tasks'[q][k] = tasks[q][k] \/ tasks'[q][k].stage # "read"
      <3>1. CASE tasks' = tasks
        BY <3>1
      <3>2. CASE SetTask(p, "close", t)
        <4>1. tasks'[p]["close"] = t /\ \A q \in Peers, j \in TaskKinds : q # p \/ j # "close" => tasks'[q][j] = tasks[q][j]
          BY <1>1, <3>2, SetTaskEffect
        <4>. QED  BY <2>2, <4>1
      <3>. QED  BY <2>3, <3>1, <3>2
    <2>. QED  BY <1>1, <1>2, <2>1, <2>4, ClaimsKept DEF ClaimsHeld
  <1>9. ASSUME NEW p \in Peers, SealPeer(p) PROVE ClaimsHeld'
    <2>1. UNCHANGED <<write, acked, tracked, tasks>>
      BY <1>9 DEF SealPeer
    <2>2. \A q \in Peers : \A d \in calls'[q] : \E c \in calls[q] : SameCall(d, c)
      <3>1. PICK cs \in SUBSET Call : cs = CutOff(calls[p]) /\ \A d \in cs : \E c \in calls[p] : SameCall(d, c)
        BY <1>1, CutOffType
      <3>2. calls' = [calls EXCEPT ![p] = cs]
        BY <1>1, <1>9, <3>1 DEF SealPeer
      <3>. QED  BY <1>1, <1>2, <3>1, <3>2
    <2>. QED  BY <1>1, <2>1, <2>2, ClaimsKept DEF ClaimsHeld
  <1>. QED  BY <1>4, <1>5, <1>6, <1>7, <1>8, <1>9 DEF CloseNext

\* See above.
LEMMA HeldCrash ==
  ASSUME ReplicasKept, Inv, TypeInv', ClaimsHeld, CrashNext, Grow
  PROVE  ClaimsHeld'
  <1>. USE DEF originVars, writerVars, clientVars, peerVars, closeVars
  <1>1. OriginCrashes
    BY DEF CrashNext, PeerRestarts, Fault, ReplicasKept
  <1>2. /\ UNCHANGED <<write, acked>> /\ \A q \in Peers : calls'[q] = {} /\ tracked'[q].acked = 0
    BY <1>1 DEF OriginCrashes, Untracked
  <1>3. \A q \in Peers, k \in TaskKinds : tasks'[q][k].stage # "read"
    BY <1>1 DEF OriginCrashes, NoTask
  <1>4. TypeInv
    BY DEF Inv
  <1>. QED  BY <1>2, <1>3, <1>4, ClaimsKept DEF ClaimsHeld

\* With serial handlers and peers that do not restart, the claims hold in every state.
LEMMA HeldSafety == ASSUME SerialHandlers, ReplicasKept PROVE Spec => []HeldInv
  <1>1. Init => HeldInv
    <2>. SUFFICES ASSUME Init PROVE LostEmpty /\ ClaimsHeld
      BY DEF HeldInv
    <2>. QED  BY DEF Init, LostEmpty, ClaimsHeld, AnswersHeld, TrackedHeld, TasksHeld, WriteHeld, CountsHeld, Length,
                     NoReplica, NoWrite, NoTask, Untracked
  <1>2. Inv /\ Inv' /\ SerialInv /\ HeldInv /\ [Next]_vars => HeldInv'
    <2>. SUFFICES ASSUME Inv, Inv', SerialInv, HeldInv, [Next]_vars, ~PurgeBegan' PROVE LostEmpty' /\ ClaimsHeld'
      BY DEF HeldInv
    <2>1. ~PurgeBegan
      BY PurgeStays
    <2>2. LostEmpty /\ ClaimsHeld /\ TypeInv'
      BY <2>1 DEF HeldInv, Inv
    <2>3. LostEmpty' /\ Grow
      BY <2>1, <2>2, ReplicasGrow
    <2>4. CASE UNCHANGED vars
      BY <2>2, <2>3, <2>4 DEF vars, writerVars, clientVars, peerVars, ClaimsHeld, AnswersHeld, TrackedHeld, TasksHeld, WriteHeld,
                              CountsHeld, Length
    <2>5. CASE Next
      BY <2>2, <2>3, <2>5, HeldWriter, HeldCalls, HeldPeer, HeldTasks, HeldClose, HeldCrash DEF Next
    <2>. QED  BY <2>3, <2>4, <2>5
  <1>. QED  BY <1>1, <1>2, Safety, SerialSafety, PTL DEF Spec

\* QuorumCountHeld: with peers that handle one request at a time and do not restart,
\* the count that an acknowledgement carried is true and stays true until the purge:
\* that many nodes hold the entry and all before it, whatever timed out, was shed,
\* discarded, replayed or prepared again (WriteAndReplicate and the peer client).
THEOREM CountsAreTrue == ASSUME SerialHandlers, ReplicasKept PROVE Spec => []QuorumCountHeld
  <1>1. Inv /\ SerialInv /\ HeldInv => QuorumCountHeld
    <2>. SUFFICES ASSUME Inv, SerialInv, HeldInv, ~PurgeBegan, NEW a \in acked
                  PROVE  Len(file) >= a.entry /\ Cardinality({p \in Peers : Holds(p, a.entry)}) >= a.count - 1
      BY DEF QuorumCountHeld
    <2>1. a.entry <= Len(file) /\ a.entry \in Nat /\ Len(file) \in Nat
      BY SegmentAssumption DEF Inv, FileInv, TypeInv, WriterTypes, Acks, Entries
    <2>2. Cardinality({p \in Peers : a.entry <= Length(p)}) >= a.count - 1
      BY DEF HeldInv, ClaimsHeld, CountsHeld
    <2>3. ASSUME NEW p \in Peers, a.entry <= Length(p) PROVE Holds(p, a.entry)
      <3>1. Len(replica[p].file) \in Nat /\ Numbered(replica[p].file, 0)
        BY FitTypes DEF Inv, SerialInv, ReplicasFit
      <3>. QED  BY <2>1, <2>3, <3>1 DEF Holds, Length, Numbered
    <2>4. ASSUME NEW p \in Peers, Holds(p, a.entry) PROVE a.entry <= Length(p)
      <3>1. Len(replica[p].file) \in Nat
        BY FitTypes DEF Inv
      <3>. QED  BY <2>1, <2>4, <3>1 DEF Holds, Length
    <2>5. {p \in Peers : Holds(p, a.entry)} = {p \in Peers : a.entry <= Length(p)}
      BY <2>3, <2>4
    <2>. QED  BY <2>1, <2>2, <2>5
  <1>. QED  BY <1>1, Safety, SerialSafety, HeldSafety, PTL

----------------------------------------------------------------------------
(* The close *)

\* Where the parts of a close come from in a step that writes no entry.
ClosePartsKept ==
    /\ file' = file /\ (stage' \in Before => stage \in Before)
    /\ stage \in Before => levelled' \in {levelled, {}}
    /\ stage \in Before => \A q \in Peers : tasks'[q]["close"] = tasks[q]["close"]
    /\ \A q \in Peers : \A d \in calls'[q] :
          \/ \E c \in calls[q] : d.kind = c.kind /\ d.offset = c.offset /\ d.data = c.data
          \/ d.kind # "close"
          \/ stage \notin Before /\ (d.data = <<>> => Len(file) <= d.offset)

\* See above.
LEMMA ClosePartsFresh == FreshInv /\ ChunkInv /\ ClosePartsKept => FreshInv' /\ ChunkInv'
  <1>. SUFFICES ASSUME FreshInv, ChunkInv, ClosePartsKept PROVE FreshInv' /\ ChunkInv'
    OBVIOUS
  <1>1. FreshInv'
    BY DEF FreshInv, ClosePartsKept
  <1>2. ChunkInv'
    BY DEF ChunkInv, ClosePartsKept
  <1>. QED  BY <1>1, <1>2

\* The steps of a write happen before the close.
LEMMA FreshWriter ==
  ASSUME WritesSettle, Inv, WriteInv, FreshInv, ChunkInv, WriterNext
  PROVE  FreshInv' /\ ChunkInv'
  <1>. USE DEF originVars, writerVars, clientVars, peerVars, closeVars
  <1>1. ~Fault("disk") /\ ~Fault("cancel") /\ TypeInv
    BY DEF Fault, WritesSettle, Inv
  <1>2. CASE BeginWrite
    <2>1. UNCHANGED <<file, levelled, tasks>> /\ stage = "idle" /\ stage' = "writing"
      BY <1>2 DEF BeginWrite
    <2>2. \A q \in Peers : \A d \in calls'[q] : d \in calls[q] \/ d.kind = "entry"
      BY <1>2 DEF BeginWrite, NewCall
    <2>. QED  BY <2>1, <2>2, ClosePartsFresh DEF ClosePartsKept, Before
  <1>3. CASE LocalWrite
    <2>1. UNCHANGED <<stage, levelled, tasks, calls>> /\ stage = "writing"
      BY <1>3 DEF LocalWrite, WriteInv
    <2>. QED  BY <2>1 DEF FreshInv, ChunkInv, Before
  <1>4. CASE Acknowledge
    <2>1. UNCHANGED <<file, levelled, calls>> /\ stage = "writing" /\ stage' = "idle" /\ HealReplicas
      BY <1>4 DEF Acknowledge
    <2>2. ASSUME NEW q \in Peers PROVE tasks'[q]["close"] = tasks[q]["close"]
      <3>1. PICK f \in [TaskKinds -> Task] : f = tasks[q]
        BY <1>1 DEF TypeInv, ClientTypes
      <3>2. tasks'[q] = f \/ tasks'[q] = [f EXCEPT !["catchup"].stage = "start"]
        BY <2>1, <3>1 DEF HealReplicas
      <3>3. "close" \in TaskKinds /\ "close" # "catchup"
        BY DEF TaskKinds
      <3>. QED  BY <3>1, <3>2, <3>3
    <2>. QED  BY <2>1, <2>2, ClosePartsFresh DEF ClosePartsKept, Before
  <1>5. CASE LocalWriteFails \/ WriteFails \/ CancelWrite
    BY <1>1, <1>5 DEF LocalWriteFails, WriteFails, CancelWrite, WriteInv
  <1>. QED  BY <1>2, <1>3, <1>4, <1>5 DEF WriterNext

\* A call that ends moves its own task; a closing one belongs to the close.
LEMMA FreshCalls ==
  ASSUME SerialHandlers, Inv, SerialInv, FreshInv, ChunkInv, CallNext
  PROVE  FreshInv' /\ ChunkInv'
  <1>. SUFFICES ASSUME NEW p \in Peers,
                       \/ \E c \in calls[p] : StartEntry(p, c) \/ Exchange(p, c) \/ Send(p, c) \/ TakeAnswer(p, c) \/ CallFails(p, c)
                       \/ CoolDownOver(p)
                PROVE  ClosePartsKept
    BY ClosePartsFresh DEF CallNext
  <1>. USE DEF originVars, writerVars, clientVars, peerVars, closeVars
  <1>1. /\ TypeInv /\ calls \in [Peers -> SUBSET Call] /\ replica \in [Peers -> Replica] /\ write.entry \in Nat
        /\ "close" \in TaskKinds
    BY FitTypes DEF Inv, TypeInv, ClientTypes, PeerTypes, TaskKinds
  <1>2. ASSUME CoolDownOver(p) PROVE ClosePartsKept
    BY <1>2 DEF CoolDownOver, ClosePartsKept
  <1>3. ASSUME NEW c \in calls[p], Send(p, c) PROVE FALSE
    BY <1>3 DEF Send
  <1>4. ASSUME NEW c \in calls[p], NEW d, UNCHANGED <<file, stage, levelled, tasks>>,
               d.kind = c.kind /\ d.offset = c.offset /\ d.data = c.data,
               \A q \in Peers : \A x \in calls'[q] : x \in calls[q] \/ (q = p /\ x = d)
        PROVE  ClosePartsKept
    BY <1>4 DEF ClosePartsKept
  <1>5. ASSUME NEW c \in calls[p], StartEntry(p, c) PROVE ClosePartsKept
    <2>1. c \in Call /\ UNCHANGED <<file, stage, levelled, tasks>>
      BY <1>1, <1>5 DEF StartEntry
    <2>2. PICK d \in Call : d = [c EXCEPT !.step = "queued"]
      BY <2>1, CallType
    <2>3. d.kind = c.kind /\ d.offset = c.offset /\ d.data = c.data
      BY <2>1, <2>2 DEF Call
    <2>4. \/ calls' = [calls EXCEPT ![p] = calls[p] \ {c}]
          \/ calls' = [calls EXCEPT ![p] = (calls[p] \ {c}) \cup {d}]
      BY <1>1, <1>5, <2>2 DEF StartEntry
    <2>5. \A q \in Peers : \A x \in calls'[q] : x \in calls[q] \/ (q = p /\ x = d)
      BY <1>1, <2>4
    <2>. QED  BY <1>4, <2>1, <2>3, <2>5
  <1>6. ASSUME NEW c \in calls[p], Exchange(p, c) PROVE ClosePartsKept
    <2>1. c \in Call /\ replica[p] \in Replica
      BY <1>1
    <2>2. UNCHANGED <<file, stage, levelled, tasks>>
      BY <1>6, Zenon DEF Exchange
    <2>3. PICK d \in Call : d = Handled(replica[p], c).call
      BY <2>1, HandledType
    <2>4. d.kind = c.kind /\ d.offset = c.offset /\ d.data = c.data
      <3>1. Numbered(replica[p].file, 0) /\ Len(replica[p].file) <= write.entry /\ Fits(c, write.entry)
        BY DEF SerialInv, RequestsFit, ReplicasFit
      <3>. QED  BY <1>1, <2>1, <2>3, <3>1, HandledFits
    <2>5. calls' = [calls EXCEPT ![p] = (calls[p] \ {c}) \cup {d}]
      BY <1>1, <1>6, <2>3 DEF Exchange
    <2>6. \A q \in Peers : \A x \in calls'[q] : x \in calls[q] \/ (q = p /\ x = d)
      BY <1>1, <2>5
    <2>. QED  BY <1>4, <2>2, <2>4, <2>6
  <1>7. ASSUME NEW c \in calls[p], CallOk(p, c) \/ CallError(p, c), UNCHANGED <<file, stage>> PROVE ClosePartsKept
    <2>1. /\ c \in Call
          /\ \A q \in Peers : \A d \in calls'[q] : \E e \in calls[q] : SameCall(d, e)
          /\ TaskStep(p, c, TRUE) \/ TaskStep(p, c, FALSE)
      <3>1. \A d : SameCall(d, d)
        BY DEF SameCall
      <3>2. CASE CallOk(p, c)
        BY <1>1, <3>1, <3>2, CallOkEffect
      <3>3. CASE CallError(p, c)
        BY <1>1, <3>3, CallErrorEffect
      <3>. QED  BY <1>7, <3>2, <3>3
    <2>2. stage \in Before => c.kind # "close"
      BY DEF FreshInv
    <2>3. c.kind # "close" => levelled' = levelled
      BY <1>1, <2>1, TaskStepEffect
    <2>4. \A q \in Peers, j \in TaskKinds : tasks'[q][j] = tasks[q][j] \/ j = c.kind
      <3>1. CASE TaskStep(p, c, TRUE)
        <4>1. \A q \in Peers, j \in TaskKinds :
                 \/ tasks'[q][j] = tasks[q][j]
                 \/ q = p /\ j = c.kind /\ tasks'[q][j] = ChunkPersisted(tasks[p][j], c)
          <5>1. TypeInv /\ c \in Call /\ TaskStep(p, c, TRUE)
            BY <1>1, <2>1, <3>1
          <5>. QED  BY <5>1, TaskMoves
        <4>. QED  BY <4>1
      <3>2. CASE TaskStep(p, c, FALSE)
        <4>1. \A q \in Peers, j \in TaskKinds :
                 \/ tasks'[q][j] = tasks[q][j]
                 \/ q = p /\ j = c.kind /\ tasks'[q][j] = ChunkFailed(tasks[p][j], c)
          <5>1. TypeInv /\ c \in Call /\ TaskStep(p, c, FALSE)
            BY <1>1, <2>1, <3>2
          <5>. QED  BY <5>1, TaskMoves
        <4>. QED  BY <4>1
      <3>. QED  BY <2>1, <3>1, <3>2
    <2>5. stage \in Before => \A q \in Peers : tasks'[q]["close"] = tasks[q]["close"]
      BY <1>1, <2>2, <2>4
    <2>6. \A q \in Peers : \A d \in calls'[q] : \E e \in calls[q] : d.kind = e.kind /\ d.offset = e.offset /\ d.data = e.data
      BY <2>1 DEF SameCall
    <2>. QED  BY <1>7, <2>2, <2>3, <2>5, <2>6 DEF ClosePartsKept
  <1>8. ASSUME NEW c \in calls[p], TakeAnswer(p, c) \/ CallFails(p, c) PROVE ClosePartsKept
    BY <1>7, <1>8 DEF TakeAnswer, CallFails
  <1>. QED  BY <1>2, <1>3, <1>5, <1>6, <1>8

\* The handlers, the preparation and the catch-ups: a closing catch-up has its task.
LEMMA FreshTasks ==
  ASSUME Inv, FreshInv, ChunkInv, TaskNext
  PROVE  FreshInv' /\ ChunkInv'
  <1>. SUFFICES ASSUME NEW p \in Peers,
                       \/ OpenPeer(p) \/ RetryPrepare(p)
                       \/ \E k \in TaskKinds : CatchUpRead(p, k) \/ CatchUpPrepare(p, k) \/ CatchUpGone(p, k)
                PROVE  ClosePartsKept
    BY ClosePartsFresh DEF TaskNext
  <1>. USE DEF originVars, writerVars, clientVars, peerVars, closeVars
  <1>1. TypeInv /\ calls \in [Peers -> SUBSET Call] /\ "prepare" \in TaskKinds /\ "close" \in TaskKinds
    BY DEF Inv, TypeInv, ClientTypes, TaskKinds
  <1>2. /\ NoTask \in Task /\ NoTask.stage = "none"
        /\ \A s \in {"retry", "start"}, b \in BOOLEAN :
              /\ [NoTask EXCEPT !.stage = s] \in Task /\ [NoTask EXCEPT !.stage = s, !.again = b] \in Task
    BY DEF NoTask, Task
  <1>3. ASSUME NEW k \in TaskKinds, k = "close" => stage \notin Before,
               tasks' = tasks \/ \E t \in Task : SetTask(p, k, t)
        PROVE  stage \in Before => \A q \in Peers : tasks'[q]["close"] = tasks[q]["close"]
    <2>1. ASSUME NEW t \in Task, SetTask(p, k, t), k # "close" PROVE \A q \in Peers : tasks'[q]["close"] = tasks[q]["close"]
      <3>1. \A q \in Peers, j \in TaskKinds : q # p \/ j # k => tasks'[q][j] = tasks[q][j]
        BY <1>1, <2>1, SetTaskEffect
      <3>. QED  BY <1>1, <2>1, <3>1
    <2>. QED  BY <1>3, <2>1
  <1>4. CASE OpenPeer(p)
    <2>1. UNCHANGED <<file, levelled, calls>> /\ (stage' \in Before => stage \in Before)
      BY <1>4 DEF OpenPeer, Before
    <2>2. stage \in Before => \A q \in Peers : tasks'[q]["close"] = tasks[q]["close"]
      BY <1>1, <1>2, <1>3, <1>4 DEF OpenPeer
    <2>. QED  BY <2>1, <2>2 DEF ClosePartsKept
  <1>5. CASE RetryPrepare(p)
    <2>1. UNCHANGED <<file, stage, levelled, calls>>
      BY <1>5 DEF RetryPrepare
    <2>2. tasks' = tasks \/ SetTask(p, "prepare", NoTask) \/ SetTask(p, "prepare", [NoTask EXCEPT !.stage = "start"])
      BY <1>5 DEF RetryPrepare, SetTask
    <2>3. stage \in Before => \A q \in Peers : tasks'[q]["close"] = tasks[q]["close"]
      BY <1>1, <1>2, <1>3, <2>2
    <2>. QED  BY <2>1, <2>3 DEF ClosePartsKept
  <1>6. ASSUME NEW k \in TaskKinds, CatchUpPrepare(p, k) \/ CatchUpGone(p, k) PROVE ClosePartsKept
    <2>1. UNCHANGED <<file, stage, calls>>
      BY <1>6 DEF CatchUpPrepare, CatchUpGone
    <2>2. tasks[p][k] # NoTask
      BY <1>2, <1>6 DEF CatchUpPrepare, CatchUpGone
    <2>3. k = "close" => stage \notin Before
      BY <2>2 DEF FreshInv
    <2>4. \E t \in Task : SetTask(p, k, t)
      BY <1>2, <1>6 DEF CatchUpPrepare, CatchUpGone
    <2>5. stage \in Before => \A q \in Peers : tasks'[q]["close"] = tasks[q]["close"]
      BY <1>3, <2>3, <2>4
    <2>6. levelled' = levelled
      BY <1>6 DEF CatchUpPrepare, CatchUpGone, CloseVisited
    <2>. QED  BY <2>1, <2>5, <2>6 DEF ClosePartsKept
  <1>7. ASSUME NEW k \in TaskKinds, CatchUpRead(p, k) PROVE ClosePartsKept
    <2>1. PICK pos \in Nat, chunk \in Seq(Entries), done \in BOOLEAN, u \in Task :
            CatchUpChunk(p, k, pos, chunk, done, u)
      BY <1>1, <1>7, CatchUpEffect
    <2>2. UNCHANGED <<file, stage>>
      BY <1>7, Zenon DEF CatchUpRead
    <2>3. k = "close" => stage \notin Before
      <3>1. tasks[p][k] # NoTask
        BY <1>2, <1>7 DEF CatchUpRead
      <3>. QED  BY <3>1 DEF FreshInv
    <2>4. stage \in Before => \A q \in Peers : tasks'[q]["close"] = tasks[q]["close"]
      BY <1>3, <2>1, <2>3 DEF CatchUpChunk
    <2>5. stage \in Before => levelled' = levelled
      <3>1. SUFFICES ASSUME k # "close" PROVE levelled' = levelled
        BY <2>3
      <3>2. CloseVisited(p, k, IF done THEN NoTask ELSE tasks[p][k], TRUE)
        BY <2>1, Zenon DEF CatchUpChunk
      <3>. QED  BY <3>1, <3>2 DEF CloseVisited
    <2>6. PICK c \in Call : c = NewCall(k, pos, chunk, "queued")
      BY CallType
    <2>7. c.kind = k /\ c.offset = pos /\ c.data = chunk
      BY <2>6 DEF NewCall
    <2>8. chunk = <<>> => Len(file) <= pos
      <3>1. file \in Seq(Entries) /\ chunk = SubSeq(file, pos + 1, Len(file))
        BY <1>1, <2>1 DEF CatchUpChunk, TypeInv, WriterTypes
      <3>. QED  BY <3>1, EmptyRest
    <2>9. calls' = calls \/ calls' = [calls EXCEPT ![p] = calls[p] \cup {c}]
      <3>1. calls' = IF done THEN calls ELSE [calls EXCEPT ![p] = @ \cup {NewCall(k, pos, chunk, "queued")}]
        BY <2>1, Zenon DEF CatchUpChunk
      <3>. QED  BY <1>1, <2>6, <3>1
    <2>10. \A q \in Peers : \A d \in calls'[q] : d \in calls[q] \/ d = c
      BY <1>1, <2>9
    <2>11. c.kind # "close" \/ (stage \notin Before /\ (c.data = <<>> => Len(file) <= c.offset))
      BY <2>3, <2>7, <2>8
    <2>. QED  BY <2>2, <2>4, <2>5, <2>10, <2>11 DEF ClosePartsKept
  <1>. QED  BY <1>4, <1>5, <1>6, <1>7

\* The close itself.
LEMMA FreshClose ==
  ASSUME Inv, FreshInv, ChunkInv, CloseNext
  PROVE  FreshInv' /\ ChunkInv'
  <1>. SUFFICES ClosePartsKept
    BY ClosePartsFresh
  <1>. USE DEF originVars, writerVars, clientVars, peerVars, closeVars
  <1>1. TypeInv /\ calls \in [Peers -> SUBSET Call]
    BY DEF Inv, TypeInv, ClientTypes
  <1>2. CASE BeginClose \/ SealLocal \/ FinishClose \/ CancelClose \/ BeginPurge \/ PurgeLocal
    BY <1>2 DEF BeginClose, SealLocal, FinishClose, CancelClose, BeginPurge, PurgeLocal, ClosePartsKept, Before
  <1>3. ASSUME NEW ok \in BOOLEAN, Upload(ok) PROVE ClosePartsKept
    BY <1>3 DEF Upload, ClosePartsKept
  <1>4. ASSUME NEW p \in Peers, PurgePeer(p) PROVE ClosePartsKept
    BY <1>4 DEF PurgePeer, ClosePartsKept
  <1>5. ASSUME NEW p \in Peers, CloseVisit(p) PROVE ClosePartsKept
    BY <1>5 DEF CloseVisit, ClosePartsKept, Before
  <1>6. ASSUME NEW p \in Peers, SealPeer(p) PROVE ClosePartsKept
    <2>1. UNCHANGED <<file, stage, levelled, tasks>>
      BY <1>6 DEF SealPeer
    <2>2. PICK cs \in SUBSET Call : cs = CutOff(calls[p]) /\ \A d \in cs : \E c \in calls[p] : SameCall(d, c)
      BY <1>1, CutOffType
    <2>3. calls' = [calls EXCEPT ![p] = cs]
      BY <1>1, <1>6, <2>2 DEF SealPeer
    <2>4. \A q \in Peers : \A d \in calls'[q] : d \in calls[q] \/ \E c \in calls[q] : SameCall(d, c)
      BY <1>1, <2>2, <2>3
    <2>. QED  BY <2>1, <2>4 DEF ClosePartsKept, SameCall
  <1>. QED  BY <1>2, <1>3, <1>4, <1>5, <1>6 DEF CloseNext

\* The parts of a close are in order.
LEMMA FreshSafety ==
  ASSUME SerialHandlers, ReplicasKept, WritesSettle
  PROVE  Spec => [](FreshInv /\ ChunkInv)
  <1>1. Init => FreshInv /\ ChunkInv
    BY DEF Init, FreshInv, ChunkInv, TaskKinds
  <1>2. Inv /\ SerialInv /\ WriteInv /\ FreshInv /\ ChunkInv /\ [Next]_vars => FreshInv' /\ ChunkInv'
    <2>. SUFFICES ASSUME Inv, SerialInv, WriteInv, FreshInv, ChunkInv, [Next]_vars PROVE FreshInv' /\ ChunkInv'
      OBVIOUS
    <2>. USE DEF originVars, writerVars, clientVars, peerVars, closeVars
    <2>1. CASE UNCHANGED vars
      BY <2>1 DEF vars, FreshInv, ChunkInv
    <2>2. CASE PeerNext
      <3>1. PICK p \in Peers : \E r \in Requests(p) : HandlerRead(p, r) \/ HandlerWrite(p, r) \/ LateRequest(p, r)
        BY <2>2 DEF PeerNext
      <3>2. PICK r \in Requests(p) : HandlerRead(p, r) \/ HandlerWrite(p, r) \/ LateRequest(p, r)
        BY <3>1
      <3>3. r.step # "reading"
        BY DEF Requests, SerialInv, RequestsFit, Fits
      <3>4. UNCHANGED <<file, stage, levelled, tasks, calls>>
        BY <3>2, <3>3 DEF HandlerRead, HandlerWrite, LateRequest
      <3>. QED  BY <3>4 DEF FreshInv, ChunkInv
    <2>3. CASE CrashNext
      <3>1. OriginCrashes
        BY <2>3 DEF CrashNext, PeerRestarts, Fault, ReplicasKept
      <3>. QED  BY <3>1 DEF OriginCrashes, FreshInv, ChunkInv, Before
    <2>. QED  BY <2>1, <2>2, <2>3, FreshWriter, FreshCalls, FreshTasks, FreshClose DEF Next
  <1>. QED  BY <1>1, <1>2, Safety, SerialSafety, WriteSettled, PTL DEF Spec

----------------------------------------------------------------------------
(* Levelled peers, and the seal *)

\* A step that writes no entry levels only peers that hold the whole file.
LevelsWhole == file' = file /\ \A q \in levelled' \ levelled : Len(file) <= Length(q)

\* What an ended call levels: the answer to an empty chunk says where the replica ends.
LEMMA LevelCalls ==
  ASSUME Inv, SerialInv, ClaimsHeld, ChunkInv, CallNext
  PROVE  LevelsWhole
  <1>. SUFFICES ASSUME NEW p \in Peers,
                       \/ \E c \in calls[p] : StartEntry(p, c) \/ Exchange(p, c) \/ Send(p, c) \/ TakeAnswer(p, c) \/ CallFails(p, c)
                       \/ CoolDownOver(p)
                PROVE  LevelsWhole
    BY DEF CallNext
  <1>. USE DEF originVars, writerVars, clientVars, peerVars, closeVars
  <1>1. TypeInv /\ calls \in [Peers -> SUBSET Call] /\ Len(file) \in Nat /\ Length(p) \in Nat
    BY FitTypes DEF Inv, TypeInv, ClientTypes, WriterTypes, Length
  <1>2. ASSUME UNCHANGED <<file, levelled>> PROVE LevelsWhole
    BY <1>2 DEF LevelsWhole
  <1>3. CASE CoolDownOver(p)
    BY <1>2, <1>3 DEF CoolDownOver
  <1>4. ASSUME NEW c \in calls[p], StartEntry(p, c) \/ Send(p, c) PROVE LevelsWhole
    BY <1>2, <1>4 DEF StartEntry, Send
  <1>5. ASSUME NEW c \in calls[p], Exchange(p, c) PROVE LevelsWhole
    <2>1. UNCHANGED <<file, levelled>>
      BY <1>5, Zenon DEF Exchange
    <2>. QED  BY <1>2, <2>1
  <1>6. ASSUME NEW c \in calls[p], CallError(p, c), file' = file PROVE LevelsWhole
    <2>1. c \in Call /\ TaskStep(p, c, FALSE)
      BY <1>1, <1>6, CallErrorEffect
    <2>2. levelled' = levelled
      BY <1>1, <2>1, TaskStepEffect
    <2>. QED  BY <1>2, <1>6, <2>2
  <1>7. ASSUME NEW c \in calls[p], c.step = "answered", c.reply = "ack", c.persisted >= c.offset + Len(c.data),
               CallOk(p, c), file' = file
        PROVE  LevelsWhole
    <2>1. c \in Call /\ TaskStep(p, c, TRUE)
      BY <1>1, <1>7, CallOkEffect
    <2>2. \/ levelled' = levelled
          \/ levelled' = levelled \cup {p} /\ c.kind = "close" /\ c.data = <<>>
      BY <1>1, <2>1, TaskStepEffect
    <2>3. CASE c.kind = "close" /\ c.data = <<>>
      <3>1. Len(file) <= c.offset
        BY <2>3 DEF ChunkInv
      <3>2. c.persisted <= Length(p)
        BY <1>7 DEF ClaimsHeld, AnswersHeld
      <3>3. c.offset \in Nat /\ c.persisted \in Nat /\ Len(c.data) = 0
        BY <2>1, <2>3 DEF Call
      <3>4. Len(file) <= Length(p)
        BY <1>1, <1>7, <3>1, <3>2, <3>3
      <3>. QED  BY <1>7, <2>2, <3>4 DEF LevelsWhole
    <2>. QED  BY <1>2, <1>7, <2>2, <2>3
  <1>8. ASSUME NEW c \in calls[p], TakeAnswer(p, c) \/ CallFails(p, c) PROVE LevelsWhole
    <2>1. CASE TakeAnswer(p, c)
      BY <1>6, <1>7, <2>1 DEF TakeAnswer
    <2>2. CASE CallFails(p, c)
      BY <1>6, <2>2 DEF CallFails
    <2>. QED  BY <1>8, <2>1, <2>2
  <1>. QED  BY <1>3, <1>4, <1>5, <1>8

\* What the close and its catch-ups level: a peer whose tracking, or whose replayed
\* range, reaches the end of the file.
LEMMA LevelClose ==
  ASSUME Inv, ClaimsHeld, TaskNext \/ CloseNext
  PROVE  LevelsWhole
  <1>. USE DEF originVars, writerVars, clientVars, peerVars, closeVars
  <1>1. TypeInv /\ Len(file) \in Nat /\ \A p \in Peers : Length(p) \in Nat
    BY FitTypes DEF Inv, TypeInv, WriterTypes, Length
  <1>2. ASSUME file' = file, levelled' \subseteq levelled PROVE LevelsWhole
    BY <1>2 DEF LevelsWhole
  <1>3. CASE BeginClose \/ SealLocal \/ FinishClose \/ CancelClose \/ BeginPurge \/ PurgeLocal
    BY <1>2, <1>3 DEF BeginClose, SealLocal, FinishClose, CancelClose, BeginPurge, PurgeLocal
  <1>4. ASSUME NEW ok \in BOOLEAN, Upload(ok) PROVE LevelsWhole
    BY <1>2, <1>4 DEF Upload
  <1>5. ASSUME NEW p \in Peers, SealPeer(p) \/ PurgePeer(p) \/ OpenPeer(p) \/ RetryPrepare(p) PROVE LevelsWhole
    BY <1>2, <1>5 DEF SealPeer, PurgePeer, OpenPeer, RetryPrepare
  <1>6. ASSUME NEW p \in Peers, CloseVisit(p) PROVE LevelsWhole
    <2>1. file' = file /\ (levelled' = levelled \/ (levelled' = levelled \cup {p} /\ Level(p)))
      BY <1>6 DEF CloseVisit
    <2>2. Level(p) => Len(file) <= Length(p)
      BY DEF Level, ClaimsHeld, TrackedHeld
    <2>. QED  BY <2>1, <2>2 DEF LevelsWhole
  <1>7. ASSUME NEW p \in Peers, NEW k \in TaskKinds, CatchUpPrepare(p, k) \/ CatchUpGone(p, k) PROVE LevelsWhole
    <2>1. file' = file /\ levelled' = levelled
      BY <1>7 DEF CatchUpPrepare, CatchUpGone, CloseVisited
    <2>. QED  BY <1>2, <2>1
  <1>8. ASSUME NEW p \in Peers, NEW k \in TaskKinds, CatchUpRead(p, k) PROVE LevelsWhole
    <2>1. PICK pos \in Nat, chunk \in Seq(Entries), done \in BOOLEAN, u \in Task :
            CatchUpChunk(p, k, pos, chunk, done, u)
      BY <1>1, <1>8, CatchUpEffect
    <2>2. file' = file
      BY <1>8, Zenon DEF CatchUpRead
    <2>3. CloseVisited(p, k, IF done THEN NoTask ELSE tasks[p][k], TRUE)
      BY <2>1, Zenon DEF CatchUpChunk
    <2>4. CASE ~done
      <3>1. tasks[p][k] # NoTask
        BY <1>8 DEF CatchUpRead, NoTask
      <3>2. CloseVisited(p, k, tasks[p][k], TRUE)
        BY <2>3, <2>4
      <3>3. levelled' = levelled
        BY <3>1, <3>2 DEF CloseVisited
      <3>. QED  BY <1>2, <2>2, <3>3
    <2>5. CASE done
      <3>1. levelled' = levelled \/ levelled' = levelled \cup {p}
        <4>1. CloseVisited(p, k, NoTask, TRUE)
          BY <2>3, <2>5
        <4>. QED  BY <4>1 DEF CloseVisited
      <3>2. tasks[p][k].stage = "read" /\ tasks[p][k].pos = pos /\ chunk = <<>>
        BY <2>1, <2>5 DEF CatchUpChunk
      <3>3. pos <= Length(p)
        BY <3>2 DEF ClaimsHeld, TasksHeld
      <3>4. Len(file) <= pos
        <4>1. file \in Seq(Entries) /\ chunk = SubSeq(file, pos + 1, Len(file))
          BY <1>1, <2>1 DEF CatchUpChunk, TypeInv, WriterTypes
        <4>. QED  BY <3>2, <4>1, EmptyRest
      <3>5. Len(file) <= Length(p)
        BY <1>1, <3>3, <3>4
      <3>. QED  BY <2>2, <3>1, <3>5 DEF LevelsWhole
    <2>. QED  BY <2>4, <2>5
  <1>9. CASE TaskNext
    BY <1>5, <1>7, <1>8, <1>9 DEF TaskNext
  <1>10. CASE CloseNext
    BY <1>3, <1>4, <1>5, <1>6, <1>10 DEF CloseNext
  <1>. QED  BY <1>9, <1>10

\* Levelled peers hold the whole file.
LEMMA LevelSafety ==
  ASSUME SerialHandlers, ReplicasKept, WritesSettle
  PROVE  Spec => []LevelInv
  <1>1. Init => LevelInv
    BY DEF Init, LevelInv
  <1>2. Inv /\ Inv' /\ SerialInv /\ WriteInv /\ HeldInv /\ FreshInv /\ ChunkInv /\ LevelInv /\ [Next]_vars => LevelInv'
    <2>. SUFFICES ASSUME Inv, Inv', SerialInv, WriteInv, HeldInv, FreshInv, ChunkInv, LevelInv, [Next]_vars, ~PurgeBegan',
                         NEW q \in levelled'
                  PROVE  Len(file') <= Length(q)'
      BY DEF LevelInv
    <2>. USE DEF originVars, writerVars, clientVars, peerVars, closeVars
    <2>1. ~PurgeBegan
      BY PurgeStays
    <2>2. LostEmpty /\ ClaimsHeld /\ q \in Peers
      BY <2>1 DEF HeldInv, Inv, TypeInv, WriterTypes
    <2>3. Length(q) <= Length(q)' /\ Length(q) \in Nat /\ Length(q)' \in Nat /\ Len(file) \in Nat
      <3>1. Grow
        BY <2>1, <2>2, ReplicasGrow
      <3>2. replica[q].file \in Seq(Entries) /\ file \in Seq(Entries)
        BY <2>2, FitTypes DEF Inv, TypeInv, WriterTypes
      <3>3. replica'[q].file \in Seq(Entries)
        BY <2>2 DEF Inv, TypeInv, PeerTypes, Replica, ReplicaRecord
      <3>. QED  BY <2>2, <3>1, <3>2, <3>3 DEF Grow, Length
    <2>4. ASSUME LevelsWhole PROVE Len(file') <= Length(q)'
      BY <2>1, <2>3, <2>4 DEF LevelsWhole, LevelInv
    <2>5. ASSUME UNCHANGED <<file, levelled>> PROVE Len(file') <= Length(q)'
      BY <2>4, <2>5 DEF LevelsWhole
    <2>6. CASE UNCHANGED vars
      BY <2>5, <2>6 DEF vars
    <2>7. CASE WriterNext
      <3>1. CASE LocalWrite
        <4>1. stage = "writing" /\ levelled' = levelled
          BY <3>1 DEF LocalWrite, WriteInv, Inv, UploadInv
        <4>. QED  BY <4>1 DEF FreshInv, Before
      <3>2. CASE BeginWrite \/ LocalWriteFails \/ Acknowledge \/ WriteFails \/ CancelWrite
        BY <2>5, <3>2 DEF BeginWrite, LocalWriteFails, Acknowledge, WriteFails, CancelWrite
      <3>. QED  BY <2>7, <3>1, <3>2 DEF WriterNext
    <2>8. CASE CallNext \/ TaskNext \/ CloseNext
      BY <2>2, <2>4, <2>8, LevelCalls, LevelClose
    <2>9. CASE PeerNext
      BY <2>5, <2>9 DEF PeerNext, HandlerRead, HandlerWrite, LateRequest
    <2>10. CASE CrashNext
      BY <2>5, <2>10 DEF CrashNext, PeerRestarts, OriginCrashes
    <2>. QED  BY <2>6, <2>7, <2>8, <2>9, <2>10 DEF Next
  <1>. QED  BY <1>1, <1>2, Safety, SerialSafety, WriteSettled, HeldSafety, FreshSafety, PTL DEF Spec

\* Entries that are numbered from the same place are told apart by their number only.
LEMMA NumberedEqual ==
  ASSUME NEW s \in Seq(Entries), NEW t \in Seq(Entries), Numbered(s, 0), Numbered(t, 0), Len(s) = Len(t)
  PROVE  s = t
  BY DEF Numbered

\* A replica that is not shorter than a file in which every begun entry is, is that file.
LEMMA WholeReplica ==
  ASSUME Inv, SerialInv, write.local = "ok"
  PROVE  \A p \in Peers : /\ Length(p) <= Len(file)
                          /\ Len(file) <= Length(p) => replica[p].file = file
  <1>. SUFFICES ASSUME NEW p \in Peers
                PROVE  Length(p) <= Len(file) /\ (Len(file) <= Length(p) => replica[p].file = file)
    OBVIOUS
  <1>1. PICK f \in Seq(Entries), g \in Seq(Entries) : f = file /\ g = replica[p].file
    BY FitTypes DEF Inv, TypeInv, WriterTypes
  <1>2. Numbered(f, 0) /\ Numbered(g, 0) /\ Len(g) <= write.entry /\ Len(f) = write.entry
    BY <1>1 DEF Inv, FileInv, SerialInv, ReplicasFit
  <1>3. Len(f) \in Nat /\ Len(g) \in Nat
    OBVIOUS
  <1>4. Len(f) <= Len(g) => f = g
    BY <1>2, <1>3, NumberedEqual
  <1>. QED  BY <1>1, <1>2, <1>3, <1>4 DEF Length

\* LevelledHoldsAll: when CloseSegment goes on to the seal, every peer it skipped as
\* level or replayed without an error holds the whole segment.  Besides serial handlers
\* and peers that do not restart this needs the writes to be over: an entry whose
\* stream was cancelled may still be appended locally after the catch-up.
THEOREM LevelledIsWhole ==
  ASSUME SerialHandlers, ReplicasKept, WritesSettle
  PROVE  Spec => []LevelledHoldsAll
  <1>1. Inv /\ SerialInv /\ WriteInv /\ LevelInv => LevelledHoldsAll
    <2>. SUFFICES ASSUME Inv, SerialInv, WriteInv, LevelInv, stage = "sealing", NEW p \in levelled
                  PROVE  replica[p].file = file
      BY DEF LevelledHoldsAll
    <2>1. p \in Peers /\ write \in Writes
      BY DEF Inv, TypeInv, WriterTypes
    <2>2. write.local = "ok"
      BY <2>1 DEF WriteInv, Writes
    <2>3. Len(file) <= Length(p)
      BY DEF LevelInv, PurgeBegan
    <2>. QED  BY <2>1, <2>2, <2>3, WholeReplica
  <1>. QED  BY <1>1, Safety, SerialSafety, WriteSettled, LevelSafety, PTL

----------------------------------------------------------------------------
(* Recovery *)

\* Once a seal is confirmed, every begun entry is in the file, for good.
SettledInv == confirmed # {} => write.local = "ok" /\ origin # "open"

\* See above.
LEMMA SettledSafety == ASSUME WritesSettle PROVE Spec => []SettledInv
  <1>1. Init => SettledInv
    BY DEF Init, SettledInv
  <1>2. Inv /\ WriteInv /\ SettledInv /\ [Next]_vars => SettledInv'
    <2>. SUFFICES ASSUME Inv, WriteInv, SettledInv, [Next]_vars PROVE SettledInv'
      OBVIOUS
    <2>. USE DEF originVars, writerVars, clientVars, peerVars, closeVars
    <2>1. ~Fault("disk") /\ ~Fault("cancel")
      BY DEF Fault, WritesSettle
    <2>2. ASSUME confirmed' = confirmed, write'.local = write.local, origin # "open" => origin' # "open" PROVE SettledInv'
      BY <2>2 DEF SettledInv
    <2>3. CASE UNCHANGED vars
      BY <2>2, <2>3 DEF vars
    <2>4. CASE WriterNext
      <3>1. CASE BeginWrite
        BY <3>1 DEF BeginWrite, SettledInv, Inv, UploadInv
      <3>2. CASE LocalWrite
        BY <3>2 DEF LocalWrite, SettledInv
      <3>3. CASE Acknowledge
        <4>1. UNCHANGED <<confirmed, origin>> /\ write.local = "ok" /\ write' = [write EXCEPT !.acks = {}] /\ write \in Writes
          BY <3>3 DEF Acknowledge, Inv, TypeInv, WriterTypes
        <4>2. write'.local = write.local
          BY <4>1 DEF Writes
        <4>. QED  BY <2>2, <4>1, <4>2
      <3>4. CASE LocalWriteFails \/ WriteFails \/ CancelWrite
        BY <2>1, <3>4 DEF LocalWriteFails, WriteFails, CancelWrite, WriteInv
      <3>. QED  BY <2>4, <3>1, <3>2, <3>3, <3>4 DEF WriterNext
    <2>5. CASE CallNext
      <3>1. UNCHANGED <<confirmed, origin>>
        BY <2>5, Zenon DEF CallNext, StartEntry, Exchange, Send, TakeAnswer, CallFails, CoolDownOver
      <3>2. write'.local = write.local
        <4>1. write \in Writes
          BY DEF Inv, TypeInv, WriterTypes
        <4>2. \A p, c, ok : Result(p, c, ok) => write'.local = write.local
          BY <4>1 DEF Result, Writes
        <4>3. ASSUME NEW p, NEW c, Exchange(p, c) PROVE write'.local = write.local
          BY <4>3, Zenon DEF Exchange
        <4>4. ASSUME NEW p, NEW c, StartEntry(p, c) PROVE write'.local = write.local
          BY <4>2, <4>4 DEF StartEntry
        <4>5. ASSUME NEW p, NEW c, TakeAnswer(p, c) \/ CallFails(p, c) PROVE write'.local = write.local
          BY <4>2, <4>5 DEF TakeAnswer, CallFails, CallOk, CallError
        <4>6. ASSUME NEW p, NEW c, Send(p, c) \/ CoolDownOver(p) PROVE write'.local = write.local
          BY <4>6 DEF Send, CoolDownOver
        <4>. QED  BY <2>5, <4>3, <4>4, <4>5, <4>6 DEF CallNext
      <3>. QED  BY <2>2, <3>1, <3>2
    <2>6. CASE PeerNext
      BY <2>2, <2>6 DEF PeerNext, HandlerRead, HandlerWrite, LateRequest
    <2>7. CASE TaskNext
      <3>1. ASSUME NEW p, NEW k, CatchUpRead(p, k) PROVE UNCHANGED <<confirmed, origin, write>>
        BY <3>1, Zenon DEF CatchUpRead
      <3>2. ASSUME NEW p, NEW k, OpenPeer(p) \/ RetryPrepare(p) \/ CatchUpPrepare(p, k) \/ CatchUpGone(p, k)
            PROVE  UNCHANGED <<confirmed, origin, write>>
        BY <3>2 DEF OpenPeer, RetryPrepare, CatchUpPrepare, CatchUpGone
      <3>3. UNCHANGED <<confirmed, origin, write>>
        BY <2>7, <3>1, <3>2 DEF TaskNext
      <3>. QED  BY <2>2, <3>3
    <2>8. CASE CloseNext
      <3>1. CASE \E p \in Peers : SealPeer(p)
        <4>1. stage = "sealing" /\ UNCHANGED <<write, origin>> /\ write \in Writes /\ origin # "open"
          BY <3>1 DEF SealPeer, Inv, TypeInv, WriterTypes, UploadInv
        <4>2. write.local = "ok"
          BY <4>1 DEF WriteInv, Writes
        <4>. QED  BY <4>1, <4>2 DEF SettledInv
      <3>2. CASE ~\E p \in Peers : SealPeer(p)
        BY <2>2, <2>8, <3>2 DEF CloseNext, BeginClose, SealLocal, FinishClose, CancelClose, CloseVisit, PurgePeer, Upload, BeginPurge, PurgeLocal
      <3>. QED  BY <3>1, <3>2
    <2>9. CASE CrashNext
      BY <2>2, <2>9 DEF CrashNext, PeerRestarts, OriginCrashes
    <2>. QED  BY <2>3, <2>4, <2>5, <2>6, <2>7, <2>8, <2>9 DEF Next
  <1>. QED  BY <1>1, <1>2, Safety, WriteSettled, PTL DEF Spec

\* BestReplicaIsWhole: from the first confirmed seal on, the replica that the recovery
\* reader's FindBestReplica prefers, sealed before open and then the larger, is the
\* whole segment: a peer that was sealed short never wins, and none is longer.
THEOREM RecoveryReadsWhole ==
  ASSUME SerialHandlers, ReplicasKept, WritesSettle, Origin \notin Peers
  PROVE  Spec => []BestReplicaIsWhole
  <1>1. Inv /\ SerialInv /\ SealInv /\ SettledInv => BestReplicaIsWhole
    <2>. SUFFICES ASSUME Inv, SerialInv, SealInv, SettledInv, confirmed # {}, ~PurgeBegan
                  PROVE  FileAt(FindBestReplica(Views(Peers))) = file
      BY DEF BestReplicaIsWhole
    <2>. DEFINE views == Views(Peers)
                Better(b, q) == \/ views[b].sealed /\ ~views[q].sealed
                                \/ views[b].sealed = views[q].sealed /\ views[b].size >= views[q].size
    <2>1. \A p \in Peers : Length(p) <= Len(file) /\ (Len(file) <= Length(p) => replica[p].file = file)
      BY WholeReplica DEF SettledInv
    <2>2. PICK s \in confirmed : s \in Peers /\ replica[s].exists /\ replica[s].live /\ replica[s].sealed /\ replica[s].file = file
      BY DEF SealInv, Inv, TypeInv, WriterTypes
    <2>3. Len(file) \in Nat /\ \A p \in Peers : Length(p) \in Nat /\ (replica[p].live /\ replica[p].sealed) \in BOOLEAN
      BY FitTypes DEF Inv, TypeInv, WriterTypes, Length
    <2>4. /\ DOMAIN views = {p \in Peers : replica[p].exists}
          /\ \A p \in DOMAIN views : /\ views[p].size = Length(p)
                                     /\ views[p].sealed = (replica[p].live /\ replica[p].sealed)
                                     /\ FileAt(p) = replica[p].file
      BY DEF Views, Holders, FileAt, SealedAt, Length
    <2>. HIDE DEF views
    <2>5. s \in DOMAIN views /\ \A q \in DOMAIN views : Better(s, q)
      BY <2>1, <2>2, <2>3, <2>4 DEF Length
    <2>6. PICK b : b = FindBestReplica(views)
      OBVIOUS
    <2>7. b \in DOMAIN views /\ \A q \in DOMAIN views : Better(b, q)
      BY <2>5, <2>6 DEF FindBestReplica
    <2>8. Better(b, s) /\ b \in Peers
      BY <2>4, <2>5, <2>7
    <2>9. Len(file) <= Length(b)
      BY <2>2, <2>3, <2>4, <2>5, <2>7, <2>8 DEF Length
    <2>10. FileAt(b) = file
      BY <2>1, <2>4, <2>7, <2>8, <2>9
    <2>. QED  BY <2>6, <2>10 DEF views
  <1>2. Init => SealInv
    BY DEF Init, SealInv
  <1>3. Inv /\ SealInv /\ [Next]_vars => SealInv'
    BY SealInvKept
  <1>. QED  BY <1>1, <1>2, <1>3, Safety, SerialSafety, SettledSafety, PTL DEF Spec

----------------------------------------------------------------------------
(* Agreement of the sidecars *)

\* A live replica has its file.
LiveInv == \A p \in Peers : replica[p].live => replica[p].exists

\* See above.
LEMMA LiveSafety == Spec => []LiveInv
  <1>1. Init => LiveInv
    BY DEF Init, LiveInv, NoReplica
  <1>2. Inv /\ LiveInv /\ [Next]_vars => LiveInv'
    <2>. SUFFICES ASSUME Inv, LiveInv, [Next]_vars PROVE LiveInv'
      OBVIOUS
    <2>. USE DEF originVars, writerVars, clientVars, peerVars, closeVars
    <2>1. replica \in [Peers -> Replica] /\ TypeInv
      BY DEF Inv, TypeInv, PeerTypes
    <2>2. ASSUME NEW p \in Peers, NEW rep, rep.live => rep.exists, replica' = [replica EXCEPT ![p] = rep] PROVE LiveInv'
      BY <2>1, <2>2 DEF LiveInv
    <2>3. ASSUME replica' = replica PROVE LiveInv'
      BY <2>3 DEF LiveInv
    <2>4. ASSUME NEW p \in Peers, NEW f, replica' = [replica EXCEPT ![p].file = f] PROVE LiveInv'
      <3>1. PICK rep \in Replica : rep = replica[p]
        BY <2>1
      <3>2. [rep EXCEPT !.file = f].live = rep.live /\ [rep EXCEPT !.file = f].exists = rep.exists
        BY DEF Replica, ReplicaRecord
      <3>3. replica' = [replica EXCEPT ![p] = [rep EXCEPT !.file = f]]
        BY <2>1, <2>4, <3>1
      <3>. QED  BY <2>2, <3>1, <3>2, <3>3 DEF LiveInv
    <2>5. ASSUME NEW p \in Peers, NEW ok, Prepare(p, ok) PROVE LiveInv'
      <3>1. replica' = replica \/ replica' = [replica EXCEPT ![p] = Prepared(replica[p])]
        BY <2>1, <2>5 DEF Prepare
      <3>2. Prepared(replica[p]).live => Prepared(replica[p]).exists
        BY DEF Prepared, LiveInv
      <3>. QED  BY <2>2, <2>3, <3>1, <3>2
    <2>6. CASE UNCHANGED vars
      BY <2>3, <2>6 DEF vars
    <2>7. CASE WriterNext
      BY <2>3, <2>7 DEF WriterNext, BeginWrite, LocalWrite, LocalWriteFails, Acknowledge, WriteFails, CancelWrite
    <2>8. CASE CallNext
      <3>1. ASSUME NEW p \in Peers, NEW c, Exchange(p, c) PROVE LiveInv'
        <4>1. replica' = [replica EXCEPT ![p].file = Handled(replica[p], c).file]
          BY <3>1 DEF Exchange
        <4>. QED  BY <2>4, <4>1
      <3>2. ASSUME NEW p \in Peers, NEW c, StartEntry(p, c) \/ Send(p, c) \/ TakeAnswer(p, c) \/ CallFails(p, c) \/ CoolDownOver(p)
            PROVE  replica' = replica
        BY <3>2 DEF StartEntry, Send, TakeAnswer, CallFails, CoolDownOver
      <3>. QED  BY <2>3, <2>8, <3>1, <3>2 DEF CallNext
    <2>9. CASE PeerNext
      <3>1. ASSUME NEW p \in Peers, NEW r, HandlerRead(p, r) \/ HandlerWrite(p, r) \/ LateRequest(p, r)
            PROVE  replica' = replica \/ \E f : replica' = [replica EXCEPT ![p].file = f]
        BY <3>1 DEF HandlerRead, HandlerWrite, LateRequest
      <3>. QED  BY <2>3, <2>4, <2>9, <3>1 DEF PeerNext
    <2>10. CASE TaskNext
      <3>1. ASSUME NEW p \in Peers, NEW k, CatchUpRead(p, k) PROVE replica' = replica
        BY <3>1, Zenon DEF CatchUpRead
      <3>2. ASSUME NEW p \in Peers, NEW k, OpenPeer(p) \/ RetryPrepare(p) \/ CatchUpPrepare(p, k) \/ CatchUpGone(p, k)
            PROVE  replica' = replica \/ \E ok \in BOOLEAN : Prepare(p, ok)
        BY <3>2 DEF OpenPeer, RetryPrepare, CatchUpPrepare, CatchUpGone
      <3>. QED  BY <2>3, <2>5, <2>10, <3>1, <3>2 DEF TaskNext
    <2>11. CASE CloseNext
      <3>1. ASSUME NEW p \in Peers, SealPeer(p) \/ PurgePeer(p) PROVE LiveInv'
        <4>1. replica' = replica \/ replica' = [replica EXCEPT ![p] = Sealed(replica[p])] \/ replica' = [replica EXCEPT ![p] = Deleted(replica[p])]
          BY <2>1, <3>1 DEF SealPeer, PurgePeer
        <4>2. PICK rep \in Replica : rep = replica[p]
          BY <2>1
        <4>3. (Sealed(rep).live => Sealed(rep).exists) /\ ~Deleted(rep).live
          BY <4>2 DEF Sealed, Deleted, LiveInv, Replica, ReplicaRecord
        <4>. QED  BY <2>2, <2>3, <4>1, <4>2, <4>3
      <3>2. CASE ~\E p \in Peers : SealPeer(p) \/ PurgePeer(p)
        BY <2>3, <2>11, <3>2 DEF CloseNext, BeginClose, SealLocal, FinishClose, CancelClose, CloseVisit, Upload, BeginPurge, PurgeLocal
      <3>. QED  BY <3>1, <3>2
    <2>12. CASE CrashNext
      <3>1. ASSUME NEW p \in Peers, NEW class, PeerRestarts(p, class) PROVE LiveInv'
        <4>1. PICK rep \in Replica : rep = replica[p]
          BY <2>1
        <4>2. PICK f : f = IF class = "power" THEN SubSeq(rep.file, 1, rep.synced) ELSE rep.file
          OBVIOUS
        <4>3. replica' = [replica EXCEPT ![p] = [rep EXCEPT !.live = FALSE, !.sealed = FALSE, !.file = f]]
          BY <2>1, <3>1, <4>1, <4>2 DEF PeerRestarts
        <4>4. ~[rep EXCEPT !.live = FALSE, !.sealed = FALSE, !.file = f].live
          BY DEF Replica, ReplicaRecord
        <4>. QED  BY <2>2, <4>3, <4>4
      <3>2. OriginCrashes => replica' = replica
        BY DEF OriginCrashes
      <3>. QED  BY <2>3, <2>12, <3>1, <3>2 DEF CrashNext
    <2>. QED  BY <2>6, <2>7, <2>8, <2>9, <2>10, <2>11, <2>12 DEF Next
  <1>. QED  BY <1>1, <1>2, Safety, PTL DEF Spec

\* What is agreed on is the size that a quorum of the views has.
LEMMA AgreedSize ==
  ASSUME NEW views, Agreed(views)
  PROVE  EvaluatePeerAgreement(views).size \in QuorumSizes(views)
  <1>1. \A o, s : Decision(o, s).outcome = o /\ Decision(o, s).size = s
    BY DEF Decision
  <1>2. QuorumSizes(views) # {} => (CHOOSE s \in QuorumSizes(views) : TRUE) \in QuorumSizes(views)
    OBVIOUS
  <1>3. PICK size : size = CHOOSE s \in QuorumSizes(views) : TRUE
    OBVIOUS
  <1>4. \/ EvaluatePeerAgreement(views) = Decision("NoPeers", -1)
        \/ EvaluatePeerAgreement(views) = Decision("SealedDivergence", -1)
        \/ EvaluatePeerAgreement(views) = Decision("UnsealedDivergence", -1)
        \/ QuorumSizes(views) # {} /\ \E o : EvaluatePeerAgreement(views) = Decision(o, size)
    BY <1>3, Zenon DEF EvaluatePeerAgreement
  <1>. QED  BY <1>1, <1>2, <1>3, <1>4 DEF Agreed

\* Two nodes, or one when the originator is gone, that are not among the others.
LEMMA FewOthers ==
  ASSUME NEW D, IsFiniteSet(D), NEW W \in SUBSET D, NEW x \in D, x \notin W
  PROVE  /\ Cardinality(W) <= Cardinality(D) - 1
         /\ \A y \in D \ W : y # x => Cardinality(W) <= Cardinality(D) - 2
         /\ Cardinality(D) \in Nat /\ Cardinality(W) \in Nat
  <1>1. Cardinality(D) \in Nat /\ IsFiniteSet(W) /\ Cardinality(W) \in Nat
    BY FS_Subset, FS_CardinalityType
  <1>2. IsFiniteSet(D \ {x}) /\ Cardinality(D \ {x}) = Cardinality(D) - 1
    BY FS_RemoveElement
  <1>3. Cardinality(W) <= Cardinality(D \ {x})
    BY <1>2, FS_Subset
  <1>4. ASSUME NEW y \in D \ W, y # x PROVE Cardinality(W) <= Cardinality(D) - 2
    <2>1. IsFiniteSet((D \ {x}) \ {y}) /\ Cardinality((D \ {x}) \ {y}) = Cardinality(D \ {x}) - 1
      BY <1>2, <1>4, FS_RemoveElement
    <2>2. Cardinality(W) <= Cardinality((D \ {x}) \ {y})
      BY <1>4, <2>1, FS_Subset
    <2>. QED  BY <1>1, <1>2, <2>1, <2>2
  <1>. QED  BY <1>1, <1>2, <1>3, <1>4

\* AgreementKeepsAcked: with the two peers that a sidecar's configuration gives it, a
\* reader that hears every sidecar that is up and finds agreement reads every entry that
\* was acknowledged by a quorum, also after the originator died.  (With more peers the
\* quorum of the views need not meet the two nodes that acknowledged.)
THEOREM AgreementReadsAcked ==
  ASSUME SerialHandlers, ReplicasKept, Cardinality(Peers) <= 2, Origin \notin Peers
  PROVE  Spec => []AgreementKeepsAcked
  <1>1. Inv /\ HeldInv /\ LiveInv => AgreementKeepsAcked
    <2>. DEFINE views == Views(Holders)
                size == EvaluatePeerAgreement(views).size
    <2>. SUFFICES ASSUME Inv, HeldInv, LiveInv, ~PurgeBegan, Agreed(views), NEW a \in acked, a.count > 1
                  PROVE  Len(SubSeq(FileAt(SourcePeer(views)), 1, size)) >= a.entry
      BY DEF AgreementKeepsAcked, KeepsQuorumAcked
    <2>1. a.entry \in Nat \ {0} /\ a.count \in Nat /\ a.entry <= Len(file) /\ file \in Seq(Entries)
      BY SegmentAssumption DEF Inv, FileInv, TypeInv, WriterTypes, Acks, Entries
    <2>2. \A p \in Peers : replica[p].file \in Seq(Entries) /\ Length(p) \in Nat
      BY FitTypes DEF Inv, Length
    <2>3. PICK h \in Peers : a.entry <= Length(h)
      <3>1. Cardinality({p \in Peers : a.entry <= Length(p)}) >= a.count - 1
        BY DEF HeldInv, ClaimsHeld, CountsHeld
      <3>2. Cardinality({p \in Peers : a.entry <= Length(p)}) # 0
        BY <2>1, <3>1
      <3>3. Cardinality({}) = 0
        BY FS_EmptySet
      <3>. QED  BY <3>2, <3>3
    <2>4. h \in Holders
      <3>1. replica[h].file # <<>>
        BY <2>1, <2>2, <2>3 DEF Length
      <3>2. replica[h].exists
        BY <3>1 DEF HeldInv, LostEmpty, LiveInv
      <3>. QED  BY <3>2 DEF Holders
    <2>5. /\ DOMAIN views = Holders
          /\ \A n \in Holders : views[n].size = Len(FileAt(n)) /\ FileAt(n) \in Seq(Entries)
      BY <2>1, <2>2 DEF Views, FileAt, Holders
    <2>6. /\ \A n \in Holders : n = Origin => FileAt(n) = file
          /\ \A n \in Holders : n # Origin => n \in Peers /\ FileAt(n) = replica[n].file
      BY DEF FileAt, Holders
    <2>7. size \in Sizes(views) /\ CountAt(views, size) >= QuorumOf(views)
      BY AgreedSize DEF QuorumSizes
    <2>. HIDE DEF views
    <2>8. PICK s \in Holders : s = SourcePeer(views) /\ views[s].size = size
      BY <2>5, <2>7 DEF SourcePeer, Sizes
    <2>9. size \in Nat
      BY <2>5, <2>8
    <2>10. size >= a.entry
      <3>. SUFFICES ASSUME size < a.entry PROVE FALSE
        BY <2>1, <2>9
      <3>. DEFINE W == {n \in Holders : views[n].size = size}
                  n == Cardinality(Holders)
      <3>1. IsFiniteSet(Holders) /\ n <= 3 /\ (Origin \notin Holders => n <= 2)
        <4>1. IsFiniteSet(Peers) /\ Cardinality(Peers) \in Nat
          BY SegmentAssumption, FS_CardinalityType
        <4>2. IsFiniteSet(Peers \cup {Origin}) /\ Cardinality(Peers \cup {Origin}) = Cardinality(Peers) + 1
          BY <4>1, FS_AddElement
        <4>3. Holders \subseteq Peers \cup {Origin} /\ (Origin \notin Holders => Holders \subseteq Peers)
          BY DEF Holders
        <4>4. IsFiniteSet(Holders) /\ n <= Cardinality(Peers \cup {Origin}) /\ n \in Nat
          BY <4>2, <4>3, FS_Subset, FS_CardinalityType
        <4>5. Origin \notin Holders => n <= Cardinality(Peers)
          BY <4>1, <4>3, FS_Subset
        <4>. QED  BY <4>1, <4>2, <4>4, <4>5
      <3>2. W \in SUBSET Holders /\ h \notin W /\ (Origin \in Holders => Origin \in Holders \ W) /\ h # Origin
        BY <2>1, <2>2, <2>3, <2>4, <2>5, <2>6, <2>9 DEF Length
      <3>3. CountAt(views, size) = Cardinality(W) /\ QuorumOf(views) = n \div 2 + 1
        BY <2>5 DEF CountAt, QuorumOf
      <3>4. /\ Cardinality(W) <= n - 1 /\ n \in Nat /\ Cardinality(W) \in Nat
            /\ Origin \in Holders => Cardinality(W) <= n - 2
        BY <2>4, <3>1, <3>2, FewOthers
      <3>5. Cardinality(W) >= n \div 2 + 1
        BY <2>7, <3>3
      <3>. HIDE DEF W, n
      <3>6. n = 0 \/ n = 1 \/ n = 2 \/ n = 3
        BY <3>1, <3>4
      <3>. QED  BY <3>1, <3>4, <3>5, <3>6
    <2>11. PICK f \in Seq(Entries) : f = FileAt(SourcePeer(views)) /\ Len(f) = size
      BY <2>5, <2>8
    <2>12. Len(SubSeq(f, 1, Len(f))) = Len(f)
      OBVIOUS
    <2>. QED  BY <2>10, <2>11, <2>12
  <1>. QED  BY <1>1, Safety, HeldSafety, LiveSafety, PTL
=============================================================================
