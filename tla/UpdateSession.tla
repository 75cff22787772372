--------------------------- MODULE UpdateSession ---------------------------
(***************************************************************************)
(* Mutations on their way from accumulo.BatchWriter over an update session *)
(* (ingestclient.Session) to ingestservice.Service and ingestrouter.       *)
(*                                                                         *)
(* The writer buffers mutations; a flush opens a session, sends batches    *)
(* without waiting for them (applyUpdates is a oneway call), closes the    *)
(* session and learns from the answer which batches failed.  One tablet    *)
(* and so one session per attempt; the writer's mutex admits one call at a *)
(* time, `op`, so the steps of a flush interleave with the service, with   *)
(* its expiry and with its drain.                                          *)
(*                                                                         *)
(* Mutations are numbered in the order of their Add calls.                 *)
(***************************************************************************)
EXTENDS Integers, FiniteSets, SequencesExt

CONSTANTS Sizes,             \* the wire size of each mutation
          MaxMemoryBytes, MaxBatchBytes, MaxRetries,  \* options of the writer
          MaxSessionBytes,   \* limit of the service
          Faults, MaxFaults  \* fault classes, and how many happen

FaultClasses == {"route", "start", "send", "auth", "denied", "commit", "unknown", "expire", "restart"}

ASSUME UpdateAssumption ==
    /\ Sizes \in Seq(Nat \ {0})
    /\ MaxMemoryBytes \in Nat \ {0} /\ MaxBatchBytes \in Nat \ {0} /\ MaxSessionBytes \in Nat
    /\ MaxRetries \in Nat /\ Faults \subseteq FaultClasses /\ MaxFaults \in Nat

VARIABLES
    pending,          \* the mutations the writer has buffered
    added,            \* how many Add calls were made
    closed, closeErr, \* Close was called, and what it returned
    failure,          \* the sticky error of the writer
    op,               \* the call that holds the writer
    flush,            \* the attempt of flushLocked that is under way
    wire,             \* batches on the connection, and what follows them
    session,          \* the update session at the service
    service,          \* admission and drain of the service
    reply,            \* the answer to closeUpdate
    told,             \* what the caller was told: mutations flushed, mutations not accepted
    tablet,           \* what the tablet committed, and what it committed again
    strange,          \* the histories the promises depend on
    faults

writer == <<pending, added, closed, closeErr, failure, op, told>>
vars == <<writer, flush, wire, session, service, reply, tablet, strange, faults>>

Mutations == DOMAIN Sizes
Bytes(muts) == FoldSeq(LAMBDA m, sum : Sizes[m] + sum, 0, muts)

NoFlush == [phase |-> "off", remaining |-> <<>>, unsent |-> <<>>, attempt |-> 0, submitted |-> FALSE]
NoWire == [batches |-> <<>>, last |-> "none", up |-> FALSE]
NoSession == [state |-> "none", committed |-> 0, failed |-> FALSE, reported |-> 0,
              refused |-> FALSE, bytes |-> 0, running |-> <<>>, late |-> FALSE]
NoReply == [kind |-> "none", failed |-> FALSE, reported |-> 0, refused |-> FALSE]

Buffers == {s \in SeqOf(Mutations, Len(Sizes)) : \A i, j \in DOMAIN s : i < j => s[i] < s[j]}

\* Types; the writer is idle exactly when no flush is under way, and a call
\* never leaves a buffer at or above the memory limit behind.
TypeOK ==
    /\ pending \in Buffers /\ added \in 0..Len(Sizes)
    /\ closed \in BOOLEAN /\ closeErr \in BOOLEAN /\ failure \in BOOLEAN
    /\ op \in {"none", "room", "add", "flush", "close", "auto"}
    /\ op = "none" <=> flush.phase = "off"
    /\ op = "none" => Bytes(pending) < MaxMemoryBytes
    /\ flush.phase \in {"off", "plan", "start", "register", "send", "close"}
    /\ flush.remaining \in Buffers /\ flush.unsent \in Buffers
    /\ flush.attempt \in 0..MaxRetries /\ flush.submitted \in BOOLEAN
    /\ \A i \in DOMAIN wire.batches : wire.batches[i] \in Buffers \ {<<>>}
    /\ wire.last \in {"none", "close", "cancel"} /\ wire.up \in BOOLEAN
    /\ session.state \in {"none", "open", "gone"}
    /\ session.committed \in 0..Len(Sizes) /\ session.reported \in 0..session.committed
    /\ session.bytes \in 0..MaxSessionBytes /\ session.running \in Buffers
    /\ session.failed \in BOOLEAN /\ session.refused \in BOOLEAN /\ session.late \in BOOLEAN
    /\ service.accepting \in BOOLEAN /\ service.drain \in {"no", "waiting", "done"}
    /\ reply.kind \in {"none", "errors", "unknown"}
    /\ told.flushed \subseteq Mutations /\ told.refused \subseteq Mutations
    /\ tablet.applied \subseteq Mutations /\ tablet.again \subseteq tablet.applied
    /\ DOMAIN strange = {"overtaken", "unknown", "afterDrain"} /\ faults \in 0..MaxFaults

Init ==
    /\ pending = <<>> /\ added = 0 /\ closed = FALSE /\ closeErr = FALSE /\ failure = FALSE
    /\ op = "none" /\ flush = NoFlush /\ wire = NoWire /\ session = NoSession /\ reply = NoReply
    /\ service = [accepting |-> TRUE, drain |-> "no"]
    /\ told = [flushed |-> {}, refused |-> {}] /\ tablet = [applied |-> {}, again |-> {}]
    /\ strange = [overtaken |-> FALSE, unknown |-> FALSE, afterDrain |-> FALSE]
    /\ faults = 0

Fault(class) == class \in Faults /\ faults < MaxFaults /\ faults' = faults + 1

----------------------------------------------------------------------------
(* The calls of the writer's user, and its automatic flush *)

\* flushLocked begins: what is buffered is to be sent.
Begin(call, buffer) ==
    /\ op' = call /\ pending' = buffer
    /\ flush' = [NoFlush EXCEPT !.phase = "plan", !.remaining = buffer]

\* A mutant: the limit itself is still within the limit.
BufferAsWithin(buffer, m) ==
    IF Bytes(Append(buffer, m)) > MaxMemoryBytes
    THEN Begin("add", Append(buffer, m))
    ELSE pending' = Append(buffer, m) /\ op' = "none" /\ flush' = NoFlush

\* The part of Add that buffers mutation m: at the memory limit it flushes.
Buffer(buffer, m) ==
    IF Bytes(Append(buffer, m)) >= MaxMemoryBytes
    THEN Begin("add", Append(buffer, m))
    ELSE pending' = Append(buffer, m) /\ op' = "none" /\ flush' = NoFlush

Add ==
    /\ op = "none" /\ ~closed /\ ~failure /\ added < Len(Sizes)
    /\ added' = added + 1
    /\ IF pending # <<>> /\ Bytes(pending) + Sizes[added + 1] > MaxMemoryBytes
       THEN Begin("room", pending) ELSE Buffer(pending, added + 1)
    /\ UNCHANGED <<closed, closeErr, failure, told, wire, session, service, reply, tablet, strange, faults>>

Flush ==
    /\ op = "none" /\ ~closed /\ ~failure /\ pending # <<>>
    /\ Begin("flush", pending)
    /\ UNCHANGED <<added, closed, closeErr, failure, told, wire, session, service, reply, tablet, strange, faults>>

\* With a failed writer, or nothing to flush, Close returns at once.
Close ==
    /\ op = "none" /\ ~closed /\ closed' = TRUE
    /\ IF failure \/ pending = <<>>
       THEN closeErr' = failure /\ UNCHANGED <<op, pending, flush>>
       ELSE Begin("close", pending) /\ UNCHANGED closeErr
    /\ UNCHANGED <<added, failure, told, wire, session, service, reply, tablet, strange, faults>>

\* Timed by pendingSince and maxLatency.
AutomaticFlush ==
    /\ op = "none" /\ ~closed /\ ~failure /\ pending # <<>>
    /\ Begin("auto", pending)
    /\ UNCHANGED <<added, closed, closeErr, failure, told, wire, session, service, reply, tablet, strange, faults>>

----------------------------------------------------------------------------
(* How flushLocked ends, with what its caller then does *)

Succeed ==
    /\ told' = [told EXCEPT !.flushed = @ \cup ToSet(pending)]
    /\ IF op = "room" THEN Buffer(<<>>, added)
       ELSE pending' = <<>> /\ op' = "none" /\ flush' = NoFlush
    /\ UNCHANGED <<added, closed, closeErr, failure>>

\* A mutant: an automatic flush that fails drops the buffer and nothing else.
KeepBufferAsForgotten ==
    /\ pending' = IF op = "add" THEN Front(pending) ELSE IF op \in {"close", "auto"} THEN <<>> ELSE pending
    /\ told' = IF op \in {"add", "room"} THEN [told EXCEPT !.refused = @ \cup {added}] ELSE told
    /\ closeErr' = (op = "close")
    /\ op' = "none" /\ flush' = NoFlush /\ UNCHANGED <<added, closed, failure>>

\* Nothing was submitted: the buffer stays, without the mutation that Add has
\* not accepted; Close gives it up, and the automatic flush fails the writer.
KeepBuffer ==
    /\ failure' = (op = "auto")
    /\ pending' = IF op = "add" THEN Front(pending) ELSE IF op \in {"close", "auto"} THEN <<>> ELSE pending
    /\ told' = IF op \in {"add", "room"} THEN [told EXCEPT !.refused = @ \cup {added}] ELSE told
    /\ closeErr' = (op = "close")
    /\ op' = "none" /\ flush' = NoFlush /\ UNCHANGED <<added, closed>>

\* Something may have been committed: the error is sticky.
FailWriter ==
    /\ failure' = TRUE /\ pending' = <<>> /\ closeErr' = (op = "close")
    /\ op' = "none" /\ flush' = NoFlush /\ UNCHANGED <<added, closed, told>>

\* A mutant: the buffer is kept although a part of it was submitted.
FinishSubmissionFailureAsKept(submitted) == KeepBuffer

FinishSubmissionFailure(submitted) == IF submitted THEN FailWriter ELSE KeepBuffer

\* The next attempt for muts, or the end of the attempts.
Retry(muts) ==
    IF flush.attempt >= MaxRetries
    THEN FinishSubmissionFailure(flush.submitted)
    ELSE flush' = [NoFlush EXCEPT !.phase = "plan", !.remaining = muts,
                                  !.attempt = flush.attempt + 1, !.submitted = flush.submitted]
         /\ UNCHANGED writer

----------------------------------------------------------------------------
(* flushLocked and sendServer *)

Plan ==
    /\ flush.phase = "plan" /\ flush' = [flush EXCEPT !.phase = "start"]
    /\ UNCHANGED <<writer, wire, session, service, reply, tablet, strange, faults>>

\* The tablet is not located: tried again, or given up (another error, the
\* context of the call has ended, the cache cannot be invalidated).
PlanFails ==
    /\ flush.phase = "plan" /\ Fault("route")
    /\ Retry(flush.remaining) \/ FinishSubmissionFailure(flush.submitted)
    /\ UNCHANGED <<wire, session, service, reply, tablet, strange>>

\* StartUpdate first looks at admission and at the credentials ...
StartUpdate ==
    /\ flush.phase = "start"
    /\ IF service.accepting THEN flush' = [flush EXCEPT !.phase = "register"] /\ UNCHANGED writer
                            ELSE Retry(flush.remaining)
    /\ UNCHANGED <<wire, session, service, reply, tablet, strange, faults>>

\* ... and then puts the session into the map, drained or not.
RegisterSession ==
    /\ flush.phase = "register"
    /\ session' = [NoSession EXCEPT !.state = "open", !.late = ~service.accepting]
    /\ wire' = [NoWire EXCEPT !.up = TRUE] /\ reply' = NoReply
    /\ flush' = [flush EXCEPT !.phase = "send", !.unsent = flush.remaining]
    /\ UNCHANGED <<writer, service, tablet, strange, faults>>

\* No connection, bad credentials, or too many sessions.
StartFails ==
    /\ flush.phase \in {"start", "register"} /\ Fault("start")
    /\ Retry(flush.remaining)
    /\ UNCHANGED <<wire, session, service, reply, tablet, strange>>

\* mutationBatches: the longest prefix within the limit, one mutation at least.
BatchLen(muts) ==
    Max({k \in DOMAIN muts : k = 1 \/ Bytes(SubSeq(muts, 1, k)) <= MaxBatchBytes})

\* Session.Apply, a oneway call.
SendBatch ==
    /\ flush.phase = "send" /\ flush.unsent # <<>>
    /\ LET k == BatchLen(flush.unsent) IN
       /\ wire' = [wire EXCEPT !.batches = Append(@, SubSeq(flush.unsent, 1, k))]
       /\ flush' = [flush EXCEPT !.submitted = TRUE,
                                 !.unsent = SubSeq(@, k + 1, Len(@))]
    /\ UNCHANGED <<writer, session, service, reply, tablet, strange, faults>>

SendClose ==
    /\ flush.phase = "send" /\ flush.unsent = <<>>
    /\ wire' = [wire EXCEPT !.last = "close"] /\ flush' = [flush EXCEPT !.phase = "close"]
    /\ UNCHANGED <<writer, session, service, reply, tablet, strange, faults>>

\* The connection is lost under Apply or Close, or the context has ended: then
\* nothing is sent but a cancelUpdate.
SendFails ==
    /\ flush.phase \in {"send", "close"} /\ Fault("send")
    /\ \/ wire' = [wire EXCEPT !.up = FALSE]
       \/ flush.phase = "send" /\ wire' = [wire EXCEPT !.last = "cancel"]
    /\ FailWriter
    /\ UNCHANGED <<session, service, reply, tablet, strange>>

\* decodeMutationUpdateErrors and what flushLocked makes of it: the reported
\* count is taken for a prefix, the rest is sent again.
DecodeUpdateErrors ==
    /\ flush.phase = "close"
    /\ \/ (reply.kind = "unknown" \/ reply.refused) /\ FailWriter
       \/ reply.kind = "errors" /\ ~reply.refused /\ ~reply.failed /\ Succeed
       \/ /\ reply.kind = "errors" /\ ~reply.refused /\ reply.failed
          /\ Retry(SubSeq(flush.remaining, reply.reported + 1, Len(flush.remaining)))
    /\ reply' = NoReply /\ wire' = NoWire
    /\ UNCHANGED <<session, service, tablet, strange, faults>>

----------------------------------------------------------------------------
(* The service.  The requests of a connection are served one after another *)

RecordFailure(s) ==
    [s EXCEPT !.failed = TRUE, !.reported = Max({s.reported, s.committed}), !.running = <<>>]

NextBatch == wire' = [wire EXCEPT !.batches = Tail(@)]
Serving == session.running = <<>> /\ wire.batches # <<>>

\* A batch for a session that is not there, or closed, is dropped in silence.
ApplyUpdates ==
    /\ Serving /\ NextBatch
    /\ LET batch == Head(wire.batches)
           size == Bytes(batch)
           fits == size <= MaxSessionBytes - session.bytes
           counted == [session EXCEPT !.bytes = @ + size] IN
       \/ /\ session.state # "open" /\ UNCHANGED <<session, faults>>
       \/ /\ session.state = "open" /\ ~fits
          /\ session' = RecordFailure(session) /\ UNCHANGED faults
       \/ /\ session.state = "open" /\ fits
          /\ session' = [counted EXCEPT !.running = batch] /\ UNCHANGED faults
       \/ /\ session.state = "open" /\ fits /\ Fault("auth")
          /\ session' = RecordFailure(counted)
       \/ /\ session.state = "open" /\ fits /\ Fault("denied")
          /\ session' = [counted EXCEPT !.refused = TRUE]
    /\ UNCHANGED <<writer, flush, service, reply, tablet, strange>>

Committed(batch) ==
    tablet' = [applied |-> tablet.applied \cup ToSet(batch),
               again |-> tablet.again \cup (tablet.applied \cap ToSet(batch))]

\* The router's commit returns.  The batch is applied; or not, in a way that is
\* reported as a retry or a rejection; or it is, and is reported as unknown.
\* The context of a session that was drained has ended: then what was committed
\* is reported as a failure too.
CommitApplied ==
    /\ session.running # <<>> /\ Committed(session.running)
    /\ session' = IF session.state = "open"
                  THEN [session EXCEPT !.committed = @ + Len(session.running), !.running = <<>>]
                  ELSE RecordFailure(session)
    /\ strange' = [strange EXCEPT !.overtaken = @ \/ session.failed,
                                  !.afterDrain = @ \/ (service.drain = "done" /\ ~session.late)]
    /\ UNCHANGED <<writer, flush, wire, service, reply, faults>>

CommitFails ==
    /\ session.running # <<>> /\ (Fault("commit") \/ (session.state = "gone" /\ UNCHANGED faults))
    /\ session' = RecordFailure(session)
    /\ UNCHANGED <<writer, flush, wire, service, reply, tablet, strange>>

CommitUnknown ==
    /\ session.running # <<>> /\ Fault("unknown") /\ Committed(session.running)
    /\ session' = RecordFailure(session)
    /\ strange' = [strange EXCEPT !.unknown = TRUE]
    /\ UNCHANGED <<writer, flush, wire, service, reply>>

Final(kind) == wire.last = kind /\ wire.batches = <<>> /\ session.running = <<>>

\* A mutant: a session that is not there has no errors.
CloseUpdateAsEmpty ==
    /\ Final("close") /\ wire' = [wire EXCEPT !.last = "none"]
    /\ reply' = [kind |-> "errors", failed |-> session.failed /\ session.state = "open",
                 reported |-> session.reported, refused |-> session.refused]
    /\ session' = [session EXCEPT !.state = "gone"]
    /\ UNCHANGED <<writer, flush, service, tablet, strange, faults>>

\* A mutant: closing a session that is not there is dropped, as a batch is.
CloseUpdateAsDropped ==
    /\ Final("close") /\ wire' = [wire EXCEPT !.last = "none"]
    /\ reply' = IF session.state = "open"
                THEN [kind |-> "errors", failed |-> session.failed,
                      reported |-> session.reported, refused |-> session.refused]
                ELSE NoReply
    /\ session' = [session EXCEPT !.state = "gone"]
    /\ UNCHANGED <<writer, flush, service, tablet, strange, faults>>

CloseUpdate ==
    /\ Final("close") /\ wire' = [wire EXCEPT !.last = "none"]
    /\ reply' = IF session.state = "open"
                THEN [kind |-> "errors", failed |-> session.failed,
                      reported |-> session.reported, refused |-> session.refused]
                ELSE [NoReply EXCEPT !.kind = "unknown"]
    /\ session' = [session EXCEPT !.state = "gone"]
    /\ UNCHANGED <<writer, flush, service, tablet, strange, faults>>

CancelUpdate ==
    /\ Final("cancel") /\ wire' = NoWire
    /\ session' = [session EXCEPT !.state = "gone"]
    /\ UNCHANGED <<writer, flush, service, reply, tablet, strange, faults>>

\* A connection that was lost ends at the service after any of its requests.
Disconnect ==
    /\ ~wire.up /\ wire # NoWire /\ wire' = NoWire
    /\ UNCHANGED <<writer, flush, session, service, reply, tablet, strange, faults>>

\* expireLocked passes over a session that is being used.
ExpireSession ==
    /\ session.state = "open" /\ session.running = <<>> /\ Fault("expire")
    /\ session' = [session EXCEPT !.state = "gone"]
    /\ UNCHANGED <<writer, flush, wire, service, reply, tablet, strange>>

BeginDrain ==
    /\ service.accepting
    /\ service' = [accepting |-> FALSE, drain |-> "waiting"]
    /\ session' = [session EXCEPT !.state = IF @ = "open" THEN "gone" ELSE @]
    /\ UNCHANGED <<writer, flush, wire, reply, tablet, strange, faults>>

\* A mutant: the drain does not take the mutex of the sessions.
DrainDoneAsHasty ==
    /\ service.drain = "waiting" /\ service' = [service EXCEPT !.drain = "done"]
    /\ UNCHANGED <<writer, flush, wire, session, reply, tablet, strange, faults>>

\* A mutant: the drain waits until its client has closed every session.
DrainDoneAsPatient ==
    /\ service.drain = "waiting" /\ session.running = <<>> /\ session.state # "open"
    /\ service' = [service EXCEPT !.drain = "done"]
    /\ UNCHANGED <<writer, flush, wire, session, reply, tablet, strange, faults>>

\* Every session that was taken out of the map has been locked and closed.
DrainDone ==
    /\ service.drain = "waiting" /\ (session.running = <<>> \/ session.late)
    /\ service' = [service EXCEPT !.drain = "done"]
    /\ UNCHANGED <<writer, flush, wire, session, reply, tablet, strange, faults>>

\* The process ends and the tablet is hosted anew.  What is still on a connection
\* finds no session, as what is sent to the new process does.
Restart ==
    /\ service.drain = "done" /\ Fault("restart")
    /\ service' = [accepting |-> TRUE, drain |-> "no"]
    /\ session' = [session EXCEPT !.state = "gone", !.running = <<>>]
    /\ UNCHANGED <<writer, flush, wire, reply, tablet, strange>>

----------------------------------------------------------------------------
WriterSteps == Plan \/ StartUpdate \/ RegisterSession \/ SendBatch \/ SendClose \/ DecodeUpdateErrors
ServiceSteps == ApplyUpdates \/ CommitApplied \/ CloseUpdate \/ CancelUpdate
FaultSteps == PlanFails \/ StartFails \/ SendFails \/ CommitFails \/ CommitUnknown
              \/ ExpireSession \/ Restart \/ Disconnect
Next ==
    \/ Add \/ Flush \/ Close \/ AutomaticFlush
    \/ WriterSteps \/ ServiceSteps \/ FaultSteps \/ BeginDrain \/ DrainDone

Spec == Init /\ [][Next]_vars

\* A flush goes on, the service serves, and the goroutine of a drain runs.
\* Nobody has to call the writer, and no fault has to happen.
FairSpec == Spec /\ WF_vars(WriterSteps) /\ WF_vars(ServiceSteps) /\ WF_vars(DrainDone)

----------------------------------------------------------------------------
(* Properties *)

\* Flush "commits every mutation accepted before": what a flush cleared from
\* the buffer with success is committed at the tablet (batch_writer.go Flush,
\* service.go CloseUpdate).
FlushedIsApplied == told.flushed \subseteq tablet.applied

\* The same, as long as no batch was committed in a session in which an earlier
\* one had failed: then the count the service reports is a prefix, and neither
\* a drain, an expired session, a lost connection nor a retry loses a mutation.
InOrderFlushIsApplied == ~strange.overtaken => FlushedIsApplied

\* No mutation is committed twice unless a commit was reported as unknown or
\* a batch overtook a failed one: retries and later flushes send only what was
\* not committed (decodeMutationUpdateErrors, finishSubmissionFailure).
AppliedOnce == ~strange.overtaken /\ ~strange.unknown => tablet.again = {}

\* While the writer has not failed, a mutation that Add took is buffered or was
\* flushed, whichever call flushed and however it ended (a failed Close is the
\* one call that gives buffered mutations up, and it returns the error); one
\* that Add refused "was not accepted", and no later flush commits it.
NothingVanishes ==
    /\ ~failure /\ ~closeErr =>
        LET taken == (1..added) \ told.refused
            now == ToSet(pending) \cup IF op = "room" THEN {added} ELSE {} IN
        taken = told.flushed \cup now /\ told.flushed \cap now = {}
    /\ told.refused \cap tablet.applied = {}

\* Once Drain has returned, no session that was open when the drain began
\* commits anything (service.go BeginDrain).
DrainedIsQuiet == ~strange.afterDrain

\* Every call that flushes returns: its attempts are bounded, and a session
\* that was drained or has expired is answered too.
FlushReturns == op # "none" ~> op = "none"

\* A drain ends: it waits for the commit that runs and for nothing else.
DrainEnds == service.drain = "waiting" ~> service.drain # "waiting"
=============================================================================
