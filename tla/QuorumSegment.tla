--------------------------- MODULE QuorumSegment ---------------------------
(***************************************************************************)
(* One WAL segment in the quorum sidecars (wal-quorum-sidecar): the        *)
(* originator's file, the replication of its entries to the peers, the     *)
(* tracking and replay of what a peer is missing, the seal, the upload to  *)
(* object storage and the purge.                                           *)
(*                                                                         *)
(* An entry is one unit of the file, so an offset counts entries.  The     *)
(* writer (the TServer) sends the entries of one stream one by one and     *)
(* closes the segment when the stream ends or breaks.  Every exchange with *)
(* a peer is a call with steps of its own; the request of a call that the  *)
(* client gave up may still be handled by the peer: it is an orphan.       *)
(***************************************************************************)
EXTENDS PeerAgreement, Sequences, SequencesExt

CONSTANTS Peers,
          MaxEntries,         \* bound on the entries of the segment
          BreakerThreshold,   \* failures in a row that shed a peer
          SerialHandlers,     \* whether a peer handles one request at a time
          HasBucket,          \* whether an upload bucket is configured
          Faults, MaxFaults   \* fault classes that may happen, and how often

FaultClasses == {"timeout", "rpc", "restart", "power", "disk", "cancel", "crash", "upload"}

ASSUME SegmentAssumption ==
    /\ IsFiniteSet(Peers)
    /\ MaxEntries \in Nat /\ BreakerThreshold \in Nat \ {0} /\ MaxFaults \in Nat
    /\ SerialHandlers \in BOOLEAN /\ HasBucket \in BOOLEAN /\ Faults \subseteq FaultClasses

VARIABLES
    file,       \* the originator's segment file
    origin,     \* the originator's segment: open, sealed, purged or down
    stage,      \* what the writer's session is doing
    pending,    \* peers the current open, close, seal or purge still has to visit
    write,      \* the entry in WriteAndReplicate and the results so far
    acked,      \* acknowledgements the writer got: entry and quorum count
    tracked,    \* peer -> replicaState of the peer client
    breaker,    \* peer -> failure breaker of the peer client
    calls,      \* peer -> calls of the originator on the replication stream
    tasks,      \* peer -> kind -> background or closing catch-up
    orphans,    \* peer -> requests whose caller is gone
    replica,    \* peer -> its segment: file on disk, entry in memory
    levelled,   \* peers the closing catch-up found or brought level
    confirmed,  \* peers that confirmed the seal
    upload,     \* what became of the upload
    object,     \* the uploaded object, empty before
    faults

originVars == <<file, origin>>
writerVars == <<stage, pending, write, acked>>
clientVars == <<tracked, breaker, calls, tasks>>
peerVars == <<orphans, replica>>
closeVars == <<levelled, confirmed, upload, object>>
vars == <<originVars, writerVars, clientVars, peerVars, closeVars, faults>>

Entries == 1..MaxEntries
TaskKinds == {"prepare", "catchup", "close"}
UntrackedAsSentinel == [acked |-> -1, known |-> FALSE, behind |-> FALSE]
Untracked == [acked |-> 0, known |-> FALSE, behind |-> FALSE]
NoTask == [stage |-> "none", from |-> 0, pos |-> 0, again |-> FALSE]
NoReplica == [exists |-> FALSE, live |-> FALSE, sealed |-> FALSE, file |-> <<>>, synced |-> 0]
NoWrite == [entry |-> 0, offset |-> 0, local |-> "ok", acks |-> {}]

Call == [kind : TaskKinds \cup {"entry"}, offset : Nat, data : Seq(Entries),
         step : {"start", "queued", "sent", "reading", "answered"}, live : BOOLEAN,
         at : Nat, reply : {"none", "ack", "missing", "refused"}, persisted : Nat]

\* Types; a replica is tracked by the offset it is known to hold, never by a sentinel.
TypeOK ==
    /\ file \in Seq(Entries) /\ origin \in {"open", "sealed", "purged", "down"}
    /\ stage \in {"opening", "idle", "writing", "broken", "closing", "sealing", "closed", "purging", "dead"}
    /\ pending \subseteq Peers
    /\ write \in [entry : 0..MaxEntries, offset : Nat, local : {"pending", "ok", "error"},
                  acks : SUBSET Peers]
    /\ acked \subseteq [entry : Entries, count : 1..(Cardinality(Peers) + 1)]
    /\ tracked \in [Peers -> [acked : Nat, known : BOOLEAN, behind : BOOLEAN]]
    /\ breaker \in [Peers -> [failures : 0..BreakerThreshold, cooling : BOOLEAN]]
    /\ \A p \in Peers : calls[p] \subseteq Call /\ orphans[p] \subseteq Call
    /\ tasks \in [Peers -> [TaskKinds -> [stage : {"none", "retry", "start", "read", "call", "prepare"},
                                          from : Nat, pos : Nat, again : BOOLEAN]]]
    /\ replica \in [Peers -> [exists : BOOLEAN, live : BOOLEAN, sealed : BOOLEAN,
                              file : Seq(Entries), synced : Nat]]
    /\ levelled \subseteq Peers /\ confirmed \subseteq Peers
    /\ upload \in {"none", "queued", "done", "failed"} /\ object \in Seq(Entries)
    /\ faults \in 0..MaxFaults

\* OpenSegment created the local file; the peers are prepared next.
Init ==
    /\ file = <<>> /\ origin = "open"
    /\ stage = "opening" /\ pending = Peers /\ write = NoWrite /\ acked = {}
    /\ tracked = [p \in Peers |-> Untracked]
    /\ breaker = [p \in Peers |-> [failures |-> 0, cooling |-> FALSE]]
    /\ calls = [p \in Peers |-> {}]
    /\ tasks = [p \in Peers |-> [k \in TaskKinds |-> NoTask]]
    /\ orphans = [p \in Peers |-> {}] /\ replica = [p \in Peers |-> NoReplica]
    /\ levelled = {} /\ confirmed = {} /\ upload = "none" /\ object = <<>>
    /\ faults = 0

Fault(class) ==
    /\ class \in Faults /\ faults < MaxFaults
    /\ faults' = faults + 1

----------------------------------------------------------------------------
(* What the peer client remembers of a replica, and its failure breaker.   *)

MarkBehind(t) == [t EXCEPT !.behind = TRUE]

RecordAckAsAlways(t, persisted, caughtUp) ==
    [acked |-> IF ~t.known \/ persisted > t.acked THEN persisted ELSE t.acked,
     known |-> TRUE, behind |-> FALSE]

RecordAck(t, persisted, caughtUp) ==
    [acked |-> IF ~t.known \/ persisted > t.acked THEN persisted ELSE t.acked,
     known |-> TRUE, behind |-> t.behind /\ ~caughtUp]

InPosition(t, offset) == ~t.known \/ (~t.behind /\ t.acked = offset)

RecordFailure(b) ==
    LET n == IF b.failures < BreakerThreshold THEN b.failures + 1 ELSE b.failures
    IN [failures |-> n, cooling |-> b.cooling \/ n = BreakerThreshold]

RecordSuccess == [failures |-> 0, cooling |-> FALSE]

NewCall(kind, offset, data, step) ==
    [kind |-> kind, offset |-> offset, data |-> data, step |-> step, live |-> TRUE,
     at |-> 0, reply |-> "none", persisted |-> 0]

InFlight(c) == c.step \in {"sent", "reading"}

\* discardStream and closeStream: what else waits on the stream is cut off with it.
CutOff(cs) == {[c EXCEPT !.live = c.live /\ c.step \in {"start", "answered"}] : c \in cs}
DiscardStream(cs, c) == IF c.live THEN CutOff(cs \ {c}) ELSE cs \ {c}

----------------------------------------------------------------------------
(* The write of one entry: WriteEntries and WriteAndReplicate.             *)

BeginWrite ==
    /\ stage = "idle" /\ write.entry < MaxEntries
    /\ LET e == write.entry + 1 IN
         /\ write' = [entry |-> e, offset |-> Len(file), local |-> "pending", acks |-> {}]
         /\ calls' = [p \in Peers |-> calls[p] \cup {NewCall("entry", Len(file), <<e>>, "start")}]
    /\ stage' = "writing"
    /\ UNCHANGED <<originVars, pending, acked, tracked, breaker, tasks, peerVars, closeVars, faults>>

\* The local write goroutine; it goes on after the writer's stream was cancelled.
LocalWrite ==
    /\ write.local = "pending" /\ origin \in {"open", "sealed"}
    /\ IF origin = "open"
       THEN /\ file' = Append(file, write.entry)
            /\ write' = [write EXCEPT !.local = "ok"]
       ELSE /\ write' = [write EXCEPT !.local = "error"]
            /\ UNCHANGED file
    /\ UNCHANGED <<origin, stage, pending, acked, clientVars, peerVars, closeVars, faults>>

LocalWriteFails ==
    /\ write.local = "pending" /\ origin = "open"
    /\ Fault("disk")
    /\ write' = [write EXCEPT !.local = "error"]
    /\ UNCHANGED <<originVars, stage, pending, acked, clientVars, peerVars, closeVars>>

Decided == write.local = "ok" /\ write.acks # {}

ResultAsAny(p, c, ok) ==
    IF c.kind = "entry" /\ stage = "writing" /\ c.offset = write.offset /\ ~Decided
    THEN write' = [write EXCEPT !.acks = @ \cup {p}]
    ELSE UNCHANGED write

\* A peer's result reaches the waiting write; later ones are drained.
Result(p, c, ok) ==
    IF ok /\ c.kind = "entry" /\ stage = "writing" /\ c.offset = write.offset /\ ~Decided
    THEN write' = [write EXCEPT !.acks = @ \cup {p}]
    ELSE UNCHANGED write

\* healReplicas: one catch-up per peer that is known to be behind.
HealReplicas ==
    tasks' = [p \in Peers |->
                IF tracked[p].behind /\ tasks[p]["catchup"] = NoTask
                THEN [tasks[p] EXCEPT !["catchup"].stage = "start"]
                ELSE tasks[p]]

AcknowledgeAsQuorum ==
    /\ stage = "writing" /\ Decided
    /\ acked' = acked \cup {[entry |-> write.entry, count |-> 1 + Cardinality(write.acks)]}
    /\ HealReplicas
    /\ stage' = "idle" /\ write' = [write EXCEPT !.acks = {}]
    /\ UNCHANGED <<originVars, pending, tracked, breaker, calls, peerVars, closeVars, faults>>

\* Quorum reached, every result in, or the quorum timer: the entry is acknowledged
\* with the number of nodes known to hold it.
Acknowledge ==
    /\ stage = "writing" /\ write.local = "ok"
    /\ acked' = acked \cup {[entry |-> write.entry, count |-> 1 + Cardinality(write.acks)]}
    /\ HealReplicas
    /\ stage' = "idle" /\ write' = [write EXCEPT !.acks = {}]
    /\ UNCHANGED <<originVars, pending, tracked, breaker, calls, peerVars, closeVars, faults>>

WriteFails ==
    /\ stage = "writing" /\ write.local = "error"
    /\ stage' = "broken"
    /\ UNCHANGED <<originVars, pending, write, acked, clientVars, peerVars, closeVars, faults>>

\* The writer's stream is cancelled while the entry is being written.
CancelWrite ==
    /\ stage = "writing"
    /\ Fault("cancel")
    /\ stage' = "broken"
    /\ UNCHANGED <<originVars, pending, write, acked, clientVars, peerVars, closeVars>>

----------------------------------------------------------------------------
(* A call on the replication stream of a peer.                             *)

SetTask(p, k, t) == tasks' = [tasks EXCEPT ![p][k] = t]

ChunkPersistedAsAlways(t, c) == [t EXCEPT !.stage = "read", !.pos = c.offset + Len(c.data), !.from = c.offset + Len(c.data)]

\* sendCatchUpRange after an answered chunk: read on, or done after the empty
\* chunk that only confirms the peer's position.
ChunkPersisted(t, c) ==
    IF c.data = <<>> THEN NoTask
    ELSE [t EXCEPT !.stage = "read", !.pos = c.offset + Len(c.data)]

\* catchUpPeer after a failed chunk: a lost replica is prepared again, once.
ChunkFailed(t, c) ==
    IF c.reply = "missing" /\ ~t.again THEN [t EXCEPT !.stage = "prepare"] ELSE NoTask

\* A closing catch-up that ends lets CloseSegment go on with the next peer.
CloseVisited(p, k, t, ok) ==
    IF k = "close" /\ t = NoTask
    THEN /\ pending' = pending \ {p}
         /\ levelled' = IF ok THEN levelled \cup {p} ELSE levelled
    ELSE UNCHANGED <<pending, levelled>>

\* What the end of a call means for the catch-up it belongs to.
TaskStep(p, c, ok) ==
    IF c.kind = "entry" THEN UNCHANGED <<tasks, pending, levelled>>
    ELSE LET t == IF ok THEN ChunkPersisted(tasks[p][c.kind], c) ELSE ChunkFailed(tasks[p][c.kind], c)
         IN SetTask(p, c.kind, t) /\ CloseVisited(p, c.kind, t, ok)

CallOk(p, c) ==
    /\ tracked' = [tracked EXCEPT ![p] = RecordAck(@, c.persisted, c.kind # "entry")]
    /\ breaker' = [breaker EXCEPT ![p] = RecordSuccess]
    /\ calls' = [calls EXCEPT ![p] = @ \ {c}]
    /\ Result(p, c, TRUE) /\ TaskStep(p, c, TRUE)

CallError(p, c) ==
    /\ tracked' = [tracked EXCEPT ![p] = MarkBehind(@)]
    /\ breaker' = [breaker EXCEPT ![p] = RecordFailure(@)]
    /\ calls' = [calls EXCEPT ![p] = DiscardStream(@, c)]
    /\ Result(p, c, FALSE) /\ TaskStep(p, c, FALSE)

\* ReplicateEntry before it sends: a shed peer and a replica known to be short
\* get nothing, and are marked for a catch-up.
StartEntry(p, c) ==
    /\ c \in calls[p] /\ c.step = "start"
    /\ IF breaker[p].cooling \/ ~InPosition(tracked[p], c.offset)
       THEN /\ tracked' = [tracked EXCEPT ![p] = MarkBehind(@)]
            /\ calls' = [calls EXCEPT ![p] = @ \ {c}]
            /\ Result(p, c, FALSE)
       ELSE /\ calls' = [calls EXCEPT ![p] = (@ \ {c}) \cup {[c EXCEPT !.step = "queued"]}]
            /\ UNCHANGED <<tracked, write>>
    /\ UNCHANGED <<originVars, stage, pending, acked, breaker, tasks, peerVars, closeVars, faults>>

\* The peer's answer is taken from the stream.
TakeAnswer(p, c) ==
    /\ c \in calls[p] /\ c.step = "answered"
    /\ IF c.reply = "ack" /\ c.persisted >= c.offset + Len(c.data) THEN CallOk(p, c) ELSE CallError(p, c)
    /\ UNCHANGED <<originVars, stage, acked, peerVars, confirmed, upload, object, faults>>

\* No answer within the timeout, a cancelled caller, or a stream discarded by
\* another call; what is under way at the peer goes on there.
CallFails(p, c) ==
    /\ c \in calls[p] /\ c.step \in {"queued", "sent", "reading"}
    /\ \/ ~c.live /\ UNCHANGED faults
       \/ c.live /\ c.kind = "entry" /\ stage \notin {"idle", "writing"} /\ UNCHANGED faults
       \/ c.live /\ Fault("timeout")
    /\ CallError(p, c)
    /\ \/ /\ InFlight(c)
          /\ orphans' = [orphans EXCEPT ![p] = @ \cup {[c EXCEPT !.live = FALSE]}]
       \/ /\ SerialHandlers
          /\ orphans' = [orphans EXCEPT ![p] = @ \cup {[c EXCEPT !.live = FALSE, !.step = "sent"]}]
       \/ ~InFlight(c) /\ UNCHANGED orphans
    /\ UNCHANGED <<originVars, stage, acked, replica, confirmed, upload, object>>

CoolDownOver(p) ==
    /\ breaker[p].cooling
    /\ breaker' = [breaker EXCEPT ![p].cooling = FALSE]
    /\ UNCHANGED <<originVars, writerVars, tracked, calls, tasks, peerVars, closeVars, faults>>

----------------------------------------------------------------------------
(* The peer: ReplicateEntries, PrepareSegment, SealSegment, PurgeSegment.  *)

Requests(p) == {c \in calls[p] \cup orphans[p] : InFlight(c)}

\* The handler moves one request on; the caller, if it still waits, sees it.
Handle(p, r, moved) ==
    IF r \in calls[p]
    THEN /\ calls' = [calls EXCEPT ![p] = (@ \ {r}) \cup {moved}]
         /\ UNCHANGED orphans
    ELSE /\ orphans' = [orphans EXCEPT ![p] = IF InFlight(moved) THEN (@ \ {r}) \cup {moved} ELSE @ \ {r}]
         /\ UNCHANGED calls

PersistedAsAppend(rep, r) ==
    IF rep.sealed \/ ~rep.live THEN [reply |-> "refused", file |-> rep.file]
    ELSE [reply |-> "ack", file |-> rep.file \o r.data]

\* A gap is refused, what the replica holds is skipped and the rest appended; r.at
\* is where the handler found the end of the replica.
Persisted(rep, r) ==
    IF r.offset > r.at THEN [reply |-> "refused", file |-> rep.file]
    ELSE IF r.offset + Len(r.data) <= r.at THEN [reply |-> "ack", file |-> rep.file]
    ELSE IF rep.sealed \/ ~rep.live THEN [reply |-> "refused", file |-> rep.file]
    ELSE [reply |-> "ack", file |-> rep.file \o SubSeq(r.data, r.at - r.offset + 1, Len(r.data))]

\* The handler looks the segment up and reads where its replica ends, and then
\* writes.
Found(rep, r) ==
    IF rep.live THEN [r EXCEPT !.step = "reading", !.at = Len(rep.file)]
    ELSE [r EXCEPT !.step = "answered", !.reply = "missing"]

Written(rep, r) ==
    LET done == Persisted(rep, r)
    IN [file |-> done.file,
        call |-> [r EXCEPT !.step = "answered", !.reply = done.reply, !.at = 0,
                           !.persisted = IF done.file = rep.file THEN r.at ELSE Len(done.file)]]

\* Both at once: nothing else reaches the replica in between.
Handled(rep, r) ==
    IF rep.live THEN Written(rep, Found(rep, r)) ELSE [file |-> rep.file, call |-> Found(rep, r)]

\* One send and its answer at a time on a stream (sendMu).
Sendable(p, c) ==
    /\ c \in calls[p] /\ c.step = "queued" /\ c.live
    /\ ~\E d \in calls[p] : d.live /\ InFlight(d)

\* With serial handlers a request whose caller waits is sent and handled in one
\* step; CallFails decides whether one that is given up was sent.
Exchange(p, c) ==
    /\ SerialHandlers /\ Sendable(p, c)
    /\ LET done == Handled(replica[p], c)
       IN /\ replica' = [replica EXCEPT ![p].file = done.file]
          /\ calls' = [calls EXCEPT ![p] = (@ \ {c}) \cup {done.call}]
    /\ UNCHANGED <<originVars, writerVars, tracked, breaker, tasks, orphans, closeVars, faults>>

LateRequest(p, r) ==
    /\ SerialHandlers /\ r \in orphans[p]
    /\ replica' = [replica EXCEPT ![p].file = Handled(replica[p], r).file]
    /\ orphans' = [orphans EXCEPT ![p] = @ \ {r}]
    /\ UNCHANGED <<originVars, writerVars, clientVars, closeVars, faults>>

Send(p, c) ==
    /\ ~SerialHandlers /\ Sendable(p, c)
    /\ calls' = [calls EXCEPT ![p] = (@ \ {c}) \cup {[c EXCEPT !.step = "sent"]}]
    /\ UNCHANGED <<originVars, writerVars, tracked, breaker, tasks, peerVars, closeVars, faults>>

HandlerRead(p, r) ==
    /\ ~SerialHandlers /\ r \in Requests(p) /\ r.step = "sent"
    /\ Handle(p, r, Found(replica[p], r))
    /\ UNCHANGED <<originVars, writerVars, tracked, breaker, tasks, replica, closeVars, faults>>

HandlerWrite(p, r) ==
    /\ r \in Requests(p) /\ r.step = "reading"
    /\ replica' = [replica EXCEPT ![p].file = Written(replica[p], r).file]
    /\ Handle(p, r, Written(replica[p], r).call)
    /\ UNCHANGED <<originVars, writerVars, tracked, breaker, tasks, closeVars, faults>>

\* CreateOrAdopt in the replica role: a live open replica is adopted, a sealed one
\* is refused, and a file without an entry in memory is discarded.
Adoptable(rep) == ~rep.live \/ ~rep.sealed
Prepared(rep) ==
    IF rep.live THEN rep
    ELSE [exists |-> TRUE, live |-> TRUE, sealed |-> FALSE, file |-> <<>>, synced |-> 0]

\* PrepareSegment as the originator calls it; ok says what the originator saw.
Prepare(p, ok) ==
    \/ /\ ok /\ Adoptable(replica[p])
       /\ replica' = [replica EXCEPT ![p] = Prepared(@)]
       /\ tracked' = [tracked EXCEPT ![p] = Untracked]
       /\ UNCHANGED faults
    \/ /\ ~ok /\ ~Adoptable(replica[p])
       /\ UNCHANGED <<replica, tracked, faults>>
    \/ /\ ~ok /\ Fault("rpc")
       /\ replica' \in {replica, [replica EXCEPT ![p] = IF Adoptable(@) THEN Prepared(@) ELSE @]}
       /\ UNCHANGED tracked

\* SealSegment as the originator calls it: the replica is loaded if need be, synced
\* and sealed, and only then compared with the originator's checksum and size.
Sealed(rep) ==
    IF rep.exists THEN [rep EXCEPT !.live = TRUE, !.sealed = TRUE, !.synced = Len(rep.file)] ELSE rep

SealMatchesAsSealed(p) == replica[p].exists
SealMatches(p) == replica[p].exists /\ replica[p].file = file

----------------------------------------------------------------------------
(* Opening, and the catch-up of a replica.                                 *)

\* OpenSegment prepares one peer after the other; a failed one is retried in the
\* background.  The first write comes when all were tried.
OpenPeer(p) ==
    /\ stage = "opening" /\ p \in pending
    /\ \/ Prepare(p, TRUE) /\ UNCHANGED tasks
       \/ Prepare(p, FALSE) /\ SetTask(p, "prepare", [NoTask EXCEPT !.stage = "retry"])
    /\ pending' = pending \ {p}
    /\ stage' = IF pending' = {} THEN "idle" ELSE stage
    /\ UNCHANGED <<originVars, write, acked, breaker, calls, orphans, closeVars>>

\* retryPrepareInBackground: until the peer is prepared, the segment is over, or
\* the attempts are used up.
RetryPrepare(p) ==
    /\ tasks[p]["prepare"].stage = "retry"
    /\ \/ /\ origin # "open"
          /\ SetTask(p, "prepare", NoTask)
          /\ UNCHANGED <<replica, tracked, faults>>
       \/ origin = "open" /\ Prepare(p, TRUE) /\ SetTask(p, "prepare", [NoTask EXCEPT !.stage = "start"])
       \/ /\ origin = "open" /\ Prepare(p, FALSE)
          /\ tasks' \in {tasks, [tasks EXCEPT ![p]["prepare"] = NoTask]}
    /\ UNCHANGED <<originVars, writerVars, breaker, calls, orphans, closeVars>>

\* catchUpPeer and sendCatchUpRange: the file from the position the peer last
\* confirmed to its end, then what was appended meanwhile, or an empty chunk.
CatchUpRead(p, k) ==
    LET t == tasks[p][k]
        from == IF t.stage = "read" THEN t.from
                ELSE IF tracked[p].known /\ ~t.again THEN tracked[p].acked ELSE 0
        pos == IF t.stage = "read" THEN t.pos ELSE from
        chunk == SubSeq(file, pos + 1, Len(file))
        done == chunk = <<>> /\ pos # from
    IN /\ t.stage = "read" \/ (t.stage = "start" /\ origin # "purged")
       /\ SetTask(p, k, IF done THEN NoTask
                        ELSE [t EXCEPT !.stage = "call", !.from = from, !.pos = pos])
       /\ calls' = IF done THEN calls
                   ELSE [calls EXCEPT ![p] = @ \cup {NewCall(k, pos, chunk, "queued")}]
       /\ CloseVisited(p, k, IF done THEN NoTask ELSE t, TRUE)
       /\ UNCHANGED <<originVars, stage, write, acked, tracked, breaker, peerVars, confirmed, upload, object, faults>>

\* The peer lost its replica: prepare it again and replay the whole segment.
CatchUpPrepare(p, k) ==
    /\ tasks[p][k].stage = "prepare"
    /\ \/ /\ Prepare(p, TRUE)
          /\ SetTask(p, k, [NoTask EXCEPT !.stage = "start", !.again = TRUE])
          /\ UNCHANGED <<pending, levelled>>
       \/ /\ Prepare(p, FALSE)
          /\ SetTask(p, k, NoTask) /\ CloseVisited(p, k, NoTask, FALSE)
    /\ UNCHANGED <<originVars, stage, write, acked, breaker, calls, orphans, confirmed, upload, object>>

\* The segment file was closed by the purge: there is nothing to replay.
CatchUpGone(p, k) ==
    /\ tasks[p][k].stage = "start" /\ origin = "purged"
    /\ SetTask(p, k, NoTask)
    /\ UNCHANGED <<originVars, writerVars, tracked, breaker, calls, peerVars, closeVars, faults>>

----------------------------------------------------------------------------
(* CloseSegment, the upload and the purge.                                 *)

BeginClose ==
    /\ stage \in {"idle", "broken"} /\ origin \in {"open", "sealed"}
    /\ stage' = "closing" /\ pending' = Peers /\ levelled' = {}
    /\ UNCHANGED <<originVars, write, acked, clientVars, peerVars, confirmed, upload, object, faults>>

LevelAsKnown(p) == tracked[p].known /\ ~tracked[p].behind
Level(p) == tracked[p].known /\ ~tracked[p].behind /\ tracked[p].acked = Len(file)

\* One peer after the other: skipped when the tracking says it is level.
CloseVisit(p) ==
    /\ stage = "closing" /\ p \in pending
    /\ \A q \in Peers : tasks[q]["close"] = NoTask
    /\ IF Level(p)
       THEN /\ pending' = pending \ {p} /\ levelled' = levelled \cup {p}
            /\ UNCHANGED tasks
       ELSE /\ SetTask(p, "close", [NoTask EXCEPT !.stage = "start"])
            /\ UNCHANGED <<pending, levelled>>
    /\ UNCHANGED <<originVars, stage, write, acked, tracked, breaker, calls, peerVars, confirmed, upload, object, faults>>

SealLocal ==
    /\ stage = "closing" /\ pending = {}
    /\ origin' = "sealed" /\ stage' = "sealing" /\ pending' = Peers
    /\ UNCHANGED <<file, write, acked, clientVars, peerVars, closeVars, faults>>

\* SealQuorum: the answer counts when the replica matches; a lost answer, or none
\* before the timeout, is logged and nothing else.
SealPeer(p) ==
    /\ stage = "sealing" /\ p \in pending
    /\ pending' = pending \ {p}
    /\ calls' = [calls EXCEPT ![p] = CutOff(@)]
    /\ \/ /\ replica' = [replica EXCEPT ![p] = Sealed(@)]
          /\ confirmed' = IF SealMatches(p) THEN confirmed \cup {p} ELSE confirmed
          /\ UNCHANGED faults
       \/ /\ Fault("rpc")
          /\ replica' \in {replica, [replica EXCEPT ![p] = Sealed(@)]}
          /\ UNCHANGED confirmed
    /\ UNCHANGED <<originVars, stage, write, acked, tracked, breaker, tasks, orphans, levelled, upload, object>>

\* The tracking is forgotten and, with a bucket, the upload queued, or dropped when
\* the queue is full.
FinishClose ==
    /\ stage = "sealing" /\ pending = {}
    /\ stage' = "closed"
    /\ tracked' = [p \in Peers |-> Untracked]
    /\ \/ upload' = (IF HasBucket THEN "queued" ELSE upload) /\ UNCHANGED faults
       \/ HasBucket /\ upload' = "failed" /\ Fault("upload")
    /\ UNCHANGED <<originVars, pending, write, acked, breaker, calls, tasks, peerVars, levelled, confirmed, object>>

\* The caller went away: CloseSegment fails, and may be called again.
CancelClose ==
    /\ stage = "sealing"
    /\ Fault("cancel")
    /\ stage' = "broken" /\ pending' = {}
    /\ UNCHANGED <<originVars, write, acked, clientVars, peerVars, closeVars>>

UploadAsReported(ok) ==
    /\ stage = "closed" /\ upload = "queued"
    /\ upload' = "done"
    /\ \/ ok /\ object' = file /\ UNCHANGED faults
       \/ ~ok /\ object' \in {object, file} /\ Fault("upload")
    /\ UNCHANGED <<originVars, writerVars, clientVars, peerVars, levelled, confirmed>>

\* uploadWithRetry: the object is written whole and its size is verified; after the
\* last attempt the result is an error.  ok says what the purge loop is told.
Upload(ok) ==
    /\ stage = "closed" /\ upload = "queued"
    /\ upload' = IF ok THEN "done" ELSE "failed"
    /\ \/ ok /\ object' = file /\ UNCHANGED faults
       \/ ~ok /\ object' \in {object, file} /\ Fault("upload")
    /\ UNCHANGED <<originVars, writerVars, clientVars, peerVars, levelled, confirmed>>

BeginPurgeAsSettled ==
    /\ stage = "closed" /\ upload \in {"done", "failed"}
    /\ stage' = "purging" /\ pending' = Peers
    /\ UNCHANGED <<originVars, write, acked, clientVars, peerVars, closeVars, faults>>

BeginPurge ==
    /\ stage = "closed" /\ upload = "done"
    /\ stage' = "purging" /\ pending' = Peers
    /\ UNCHANGED <<originVars, write, acked, clientVars, peerVars, closeVars, faults>>

\* Manager.Delete: Close drops the file handle, so the path Delete asks for next is
\* empty and the file is left on disk; only the entry in memory goes.
Deleted(rep) == [rep EXCEPT !.live = FALSE, !.sealed = FALSE]

PurgePeer(p) ==
    /\ stage = "purging" /\ p \in pending
    /\ pending' = pending \ {p}
    /\ \/ replica' = [replica EXCEPT ![p] = Deleted(@)] /\ UNCHANGED faults
       \/ UNCHANGED replica /\ Fault("rpc")
    /\ UNCHANGED <<originVars, stage, write, acked, clientVars, orphans, closeVars>>

PurgeLocal ==
    /\ stage = "purging" /\ pending = {} /\ origin = "sealed"
    /\ origin' = "purged"
    /\ UNCHANGED <<file, writerVars, clientVars, peerVars, closeVars, faults>>

----------------------------------------------------------------------------
(* Crashes.                                                                *)

\* A peer's process restarts: its map is empty, its file stays; with the power cut
\* only what was synced stays.  Calls that wait for it get an error.
PeerRestarts(p, class) ==
    /\ class \in {"restart", "power"} /\ Fault(class)
    /\ replica' = [replica EXCEPT ![p].live = FALSE, ![p].sealed = FALSE,
                                  ![p].file = IF class = "power" THEN SubSeq(@, 1, replica[p].synced) ELSE @]
    /\ orphans' = [orphans EXCEPT ![p] = {}]
    /\ calls' = [calls EXCEPT ![p] = {IF InFlight(c) THEN [c EXCEPT !.step = "answered", !.reply = "refused"] ELSE c : c \in @}]
    /\ UNCHANGED <<originVars, writerVars, tracked, breaker, tasks, closeVars>>

\* The originator's process dies: only its file is left.
OriginCrashes ==
    /\ origin \in {"open", "sealed"} /\ Fault("crash")
    /\ origin' = "down" /\ stage' = "dead" /\ pending' = {}
    /\ tracked' = [p \in Peers |-> Untracked]
    /\ breaker' = [p \in Peers |-> RecordSuccess]
    /\ calls' = [p \in Peers |-> {}]
    /\ tasks' = [p \in Peers |-> [k \in TaskKinds |-> NoTask]]
    /\ orphans' = [p \in Peers |-> orphans[p] \cup {[c EXCEPT !.live = FALSE] : c \in {d \in calls[p] : InFlight(d)}}]
    /\ upload' = IF upload = "queued" THEN "failed" ELSE upload
    /\ UNCHANGED <<file, write, acked, replica, levelled, confirmed, object>>

WriterNext == BeginWrite \/ LocalWrite \/ LocalWriteFails \/ Acknowledge \/ WriteFails \/ CancelWrite
CallNext == \E p \in Peers :
    \/ \E c \in calls[p] : StartEntry(p, c) \/ Exchange(p, c) \/ Send(p, c) \/ TakeAnswer(p, c) \/ CallFails(p, c)
    \/ CoolDownOver(p)
PeerNext == \E p \in Peers : \E r \in Requests(p) : HandlerRead(p, r) \/ HandlerWrite(p, r) \/ LateRequest(p, r)
TaskNext == \E p \in Peers :
    \/ OpenPeer(p) \/ RetryPrepare(p)
    \/ \E k \in TaskKinds : CatchUpRead(p, k) \/ CatchUpPrepare(p, k) \/ CatchUpGone(p, k)
CloseNext ==
    \/ BeginClose \/ SealLocal \/ FinishClose \/ CancelClose
    \/ \E p \in Peers : CloseVisit(p) \/ SealPeer(p) \/ PurgePeer(p)
    \/ (\E ok \in BOOLEAN : Upload(ok)) \/ BeginPurge \/ PurgeLocal
CrashNext == (\E p \in Peers, class \in {"restart", "power"} : PeerRestarts(p, class)) \/ OriginCrashes

Next == WriterNext \/ CallNext \/ PeerNext \/ TaskNext \/ CloseNext \/ CrashNext

Spec == Init /\ [][Next]_vars

\* Goroutines run, the peers answer or the calls are cut off: the steps that no
\* fault and no decision of the writer holds up.  The writer need not write or close.
Fairness ==
    /\ WF_vars(LocalWrite) /\ WF_vars(Acknowledge) /\ WF_vars(WriteFails)
    /\ WF_vars(SealLocal) /\ WF_vars(FinishClose)
    /\ \A p \in Peers :
         /\ WF_vars(OpenPeer(p)) /\ WF_vars(CloseVisit(p)) /\ WF_vars(SealPeer(p))
         /\ WF_vars(\E c \in calls[p] : StartEntry(p, c) \/ Exchange(p, c) \/ Send(p, c) \/ TakeAnswer(p, c)
                                        \/ CallFails(p, c) \/ HandlerRead(p, c) \/ HandlerWrite(p, c))
         /\ \A k \in TaskKinds : WF_vars(CatchUpRead(p, k) \/ CatchUpPrepare(p, k))

FairSpec == Spec /\ Fairness

----------------------------------------------------------------------------
(* Properties.                                                             *)

Holds(p, entry) ==
    /\ Len(replica[p].file) >= entry
    /\ \A i \in 1..entry : replica[p].file[i] = i

\* Every replica is a prefix of the originator's segment, or of that segment with
\* the entry that is being written on all nodes at once: no gap, no duplicate, no
\* foreign entry, whatever is replayed, retried or cut off.
ReplicaIsPrefix ==
    LET whole == IF write.local = "pending" THEN Append(file, write.entry) ELSE file
    IN \A p \in Peers : IsPrefix(replica[p].file, whole)

\* The copies may go: a purge runs, or the originator died after the upload.
PurgeBegan == stage = "purging" \/ (stage = "dead" /\ upload = "done")

\* The quorum count an acknowledgement carries is true and stays true: that many
\* nodes, the originator among them, hold the entry and everything before it.
QuorumCountHeld ==
    ~PurgeBegan => \A a \in acked :
        /\ Len(file) >= a.entry
        /\ Cardinality({p \in Peers : Holds(p, a.entry)}) >= a.count - 1

\* When the seal begins, a peer that the closing catch-up skipped as level, or
\* replayed without an error, holds the whole segment.
LevelledHoldsAll ==
    stage = "sealing" => \A p \in levelled : replica[p].file = file

\* A peer that confirmed the seal holds exactly the sealed segment until the purge,
\* whatever late requests and catch-ups still reach it.  (A peer that restarts after
\* its seal while a catch-up is under way is prepared again, and discards its file.)
SealConfirmedHoldsAll ==
    ~PurgeBegan => \A p \in confirmed : replica[p].file = file

\* A replica is dropped by a purge only when the uploaded object is the whole
\* sealed segment with every acknowledged entry in it.
PurgedIsUploaded ==
    stage = "purging" => object = file /\ \A a \in acked : Len(object) >= a.entry

\* What the sidecars list of the segment; the originator answers while it is up.
Origin == "originator"
Holders == {p \in Peers : replica[p].exists} \cup {n \in {Origin} : origin \in {"open", "sealed"}}
FileAt(n) == IF n = Origin THEN file ELSE replica[n].file
SealedAt(n) == IF n = Origin THEN origin = "sealed" ELSE replica[n].live /\ replica[n].sealed
Views(S) == [n \in S \cap Holders |-> [size |-> Len(FileAt(n)), sealed |-> SealedAt(n)]]

KeepsQuorumAcked(S) ==
    LET views == Views(S)
        read == SubSeq(FileAt(SourcePeer(views)), 1, EvaluatePeerAgreement(views).size)
    IN Agreed(views) => \A a \in acked : a.count > 1 => Len(read) >= a.entry

\* A reader that got an answer from every sidecar that is up, and found agreement,
\* reads every entry that was acknowledged by a quorum.
AgreementKeepsAcked == ~PurgeBegan => KeepsQuorumAcked(Holders)

\* The same for whichever of them answered: an entry the originator and a peer
\* acknowledged is durable.
AnyAgreementKeepsAcked == \A S \in SUBSET Holders : KeepsQuorumAcked(S)

\* Once a peer has confirmed the seal, recovery reads a whole replica: FindBestReplica
\* never prefers one that was sealed short, or a longer one that is still open.
BestReplicaIsWhole ==
    confirmed # {} /\ ~PurgeBegan => FileAt(FindBestReplica(Views(Peers))) = file

\* A write is answered whatever the peers do: by a quorum, by the timer in degraded
\* mode, or with the local error.
WriteAnswered == stage = "writing" ~> stage # "writing"

\* A close comes to an end although every peer is caught up and sealed first.
CloseFinishes == stage \in {"closing", "sealing"} ~> stage \in {"closed", "purging", "broken", "dead"}

\* Delete removes the segment's file with its entry, so a purge frees the disk.
PurgeDeletesFiles ==
    origin = "purged" => \A p \in Peers : ~replica[p].exists
=============================================================================
