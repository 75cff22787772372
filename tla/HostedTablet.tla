---------------------------- MODULE HostedTablet ----------------------------
(***************************************************************************)
(* The durable write path of one hosted tablet: internal/hostedingest with *)
(* the WAL of internal/walauthority and the minor compaction of            *)
(* internal/mincauthority over the metadata row (TabletRow).  The tablet   *)
(* is assigned again and again; every assignment attempt opens its own     *)
(* Tablet object and keeps running, as a zombie, until its process dies.   *)
(*                                                                         *)
(* A Tablet runs one call at a time (opMu), so an attempt has one program  *)
(* counter; its calls are cut where they leave the process: metadata, WAL  *)
(* bytes, the output object and the answer of the Host.  What can go wrong *)
(* outside is a fault class; Faults says which ones a behaviour may use    *)
(* and MaxFaults how often.                                                *)
(***************************************************************************)
EXTENDS TabletRow, WalRecovery

CONSTANTS Ops,         \* client batches, named by their idempotency key
          LockOf,      \* the lock generation each assignment attempt runs under
          MaxWals,     \* bound on the WALs of one behaviour
          FlushCells,  \* memtable size that forces a flush
          Faults, MaxFaults,
          Retries,     \* whether clients send a failed batch again under its key
          NoOp

Attempts == DOMAIN LockOf
FaultClasses == {"crash", "lockloss", "io", "unload", "cancel", "manager", "ambiguous", "late"}

ASSUME TabletAssumption ==
    /\ LockOf \in [Attempts -> Locks] /\ NoLock \notin Locks
    /\ Attempts \subseteq Nat
    /\ MaxWals \in Nat /\ FlushCells \in Nat \ {0} /\ MaxFaults \in Nat
    /\ Faults \subseteq FaultClasses /\ Retries \in BOOLEAN
    /\ NoOp \notin Ops

Wals == 1..MaxWals
NoWal == 0
NoSnapshot == [ops |-> {}, wals |-> {}, boundary |-> 0, phase |-> "none"]

VARIABLES
    logs,       \* WAL -> its records
    stored,     \* WALs whose bytes exist
    nextWal,    \* the next unused WAL name
    dead,       \* lock generations whose ZooKeeper node is gone
    host,       \* attempt -> what this server's Host says of it
    pc,         \* attempt -> where its current call is
    opening,    \* attempts still inside Factory.Open
    request,    \* attempt -> batch being committed, or NoOp
    current,    \* attempt -> active WAL, or NoWal
    nextSeq, ops, applied,   \* walauthority.Tablet; ops are records
    active, snapshot,        \* hostedingest.Tablet: memtable and pending flush
    acked,      \* batches some client got an acknowledgement for
    session,    \* batch -> lock generation of the server its session is on
    faults      \* faults so far

walVars == <<logs, stored, nextWal>>
tabletVars == <<current, nextSeq, ops, applied, active, snapshot>>
clientVars == <<acked, session>>
vars == <<rowVars, walVars, dead, host, pc, opening, request, tabletVars, clientVars, faults>>

HostStates == {"none", "loading", "hosted", "suspended", "unloading", "dropped"}
Steps == {"none", "claim", "recover", "opened", "idle", "reference", "append", "verify",
          "run", "publish", "commit", "cas", "lost", "retire", "gone"}
Phases == {"none", "sealed", "published", "committed"}
Record == [op : Ops, seq : Nat, by : Attempts]
File == [by : Attempts, ops : SUBSET Ops, wals : SUBSET Wals]

\* Types of the row, the WALs, the files and of each server's tablet object.
TypeOK ==
    /\ location \in Locks \cup {NoLock} /\ future \in Locks \cup {NoLock}
    /\ refs \subseteq Wals /\ files \subseteq File
    /\ logs \in [Wals -> Seq(Record)] /\ stored \subseteq Wals /\ nextWal \in Nat \ {0}
    /\ dead \subseteq Locks
    /\ host \in [Attempts -> HostStates] /\ pc \in [Attempts -> Steps]
    /\ opening \subseteq Attempts
    /\ request \in [Attempts -> Ops \cup {NoOp}]
    /\ current \in [Attempts -> Wals \cup {NoWal}] /\ nextSeq \in [Attempts -> Nat]
    /\ ops \in [Attempts -> SUBSET Record] /\ applied \in [Attempts -> SUBSET Ops]
    /\ active \in [Attempts -> SUBSET Ops]
    /\ snapshot \in [Attempts -> [ops : SUBSET Ops, wals : SUBSET Wals, boundary : Int, phase : Phases]]
    /\ acked \subseteq Ops /\ session \in [Ops -> Locks \cup {NoLock}]
    /\ faults \in 0..MaxFaults

\* hostVerifier: strict for routed writes, and with the recovery verifier.
VerifyHosted(a) == host[a] = "hosted"
VerifyAssigned(a) == host[a] \in {"loading", "hosted"}

\* A fault of one class happens, within the bound.
Fault(class) ==
    /\ class \in Faults
    /\ faults < MaxFaults
    /\ faults' = faults + 1

Goto(a, step) == pc' = [pc EXCEPT ![a] = step]

Init ==
    /\ RowInit
    /\ logs = [w \in Wals |-> <<>>] /\ stored = {} /\ nextWal = 1
    /\ dead = {}
    /\ host = [a \in Attempts |-> "none"]
    /\ pc = [a \in Attempts |-> "none"]
    /\ opening = {}
    /\ request = [a \in Attempts |-> NoOp]
    /\ current = [a \in Attempts |-> NoWal]
    /\ nextSeq = [a \in Attempts |-> 1]
    /\ ops = [a \in Attempts |-> {}] /\ applied = [a \in Attempts |-> {}]
    /\ active = [a \in Attempts |-> {}]
    /\ snapshot = [a \in Attempts |-> NoSnapshot]
    /\ acked = {} /\ session = [o \in Ops |-> NoLock]
    /\ faults = 0

----------------------------------------------------------------------------
(* Assignment, as the manager and this server's Host see it.               *)

\* The manager assigns the tablet, attempts in order, once the row has no live
\* owner and no server is still asked to load it.
Assign(a) ==
    /\ host[a] = "none"
    /\ \A b \in Attempts : b < a => host[b] # "none"
    /\ LockOf[a] \notin dead
    /\ location = NoLock \/ location \in dead
    /\ future = NoLock \/ future \in dead
    /\ \A b \in Attempts : LockOf[b] = LockOf[a] => host[b] \in {"none", "dropped"}
    /\ ChooseServer(LockOf[a])
    /\ host' = [host EXCEPT ![a] = "loading"]
    /\ Goto(a, "claim")
    /\ opening' = opening \cup {a}
    /\ UNCHANGED <<walVars, dead, request, tabletVars, clientVars, faults>>

\* Host.LoadComplete after Factory.Open returned
LoadComplete(a) ==
    /\ pc[a] = "opened"
    /\ host[a] = "loading"
    /\ host' = [host EXCEPT ![a] = "hosted"]
    /\ Goto(a, "idle")
    /\ UNCHANGED <<rowVars, walVars, dead, opening, request, tabletVars, clientVars, faults>>

\* The manager asks for a graceful unload of a hosted tablet.
Unload(a) ==
    /\ host[a] = "hosted"
    /\ Fault("unload")
    /\ host' = [host EXCEPT ![a] = "unloading"]
    /\ UNCHANGED <<rowVars, walVars, dead, pc, opening, request, tabletVars, clientVars>>

Drop(lock) ==
    [a \in Attempts |-> IF LockOf[a] = lock /\ host[a] # "none" THEN "dropped" ELSE host[a]]

\* The server's ZooKeeper session ends and its lock node goes.
LoseLock(lock) ==
    /\ lock \notin dead
    /\ \E a \in Attempts : LockOf[a] = lock /\ host[a] # "none"
    /\ Fault("lockloss")
    /\ dead' = dead \cup {lock}
    /\ UNCHANGED <<rowVars, walVars, host, pc, opening, request, tabletVars, clientVars>>

\* Later its Host hears of it and drops every tablet; calls in flight go on.
NoticeLoss(lock) ==
    /\ lock \in dead
    /\ host # Drop(lock)
    /\ host' = Drop(lock)
    /\ UNCHANGED <<rowVars, walVars, dead, pc, opening, request, tabletVars, clientVars, faults>>

\* The process dies with everything it keeps in memory.
Crash(lock) ==
    /\ \E a \in Attempts : LockOf[a] = lock /\ pc[a] \notin {"none", "gone"}
    /\ Fault("crash")
    /\ dead' = dead \cup {lock}
    /\ host' = Drop(lock)
    /\ pc' = [a \in Attempts |-> IF LockOf[a] = lock /\ pc[a] # "none" THEN "gone" ELSE pc[a]]
    /\ UNCHANGED <<rowVars, walVars, opening, request, tabletVars, clientVars>>

\* The observation of the manager lock is cleared, and later made again.
LoseManager(a) ==
    /\ host[a] = "hosted"
    /\ Fault("manager")
    /\ host' = [host EXCEPT ![a] = "suspended"]
    /\ UNCHANGED <<rowVars, walVars, dead, pc, opening, request, tabletVars, clientVars>>

RegainManager(a) ==
    /\ host[a] = "suspended"
    /\ host' = [host EXCEPT ![a] = "hosted"]
    /\ UNCHANGED <<rowVars, walVars, dead, pc, opening, request, tabletVars, clientVars, faults>>

----------------------------------------------------------------------------
(* Factory.Open: claim the row, replay the referenced WALs, flush what they *)
(* held, and only then serve.                                               *)

\* Open returns an error: the deferred release of the row, whose own error is
\* ignored, and LoadFailed.  Once the Host knows its lock is gone, lockID is empty
\* and no condition holds.
OpenFails(a) ==
    /\ \/ host[a] # "dropped" /\ ReleaseLocation(LockOf[a])
       \/ (host[a] = "dropped" \/ "io" \in Faults) /\ UNCHANGED rowVars
    /\ host' = [host EXCEPT ![a] = "dropped"]
    /\ Goto(a, "gone")
    /\ opening' = opening \ {a}
    /\ UNCHANGED <<walVars, dead, request, tabletVars, clientVars>>

\* metadatacas Factory.Open; an error here releases nothing.
ClaimRow(a) ==
    /\ pc[a] = "claim"
    /\ Claim(LockOf[a])
    /\ Goto(a, "recover")
    /\ UNCHANGED <<walVars, dead, host, opening, request, tabletVars, clientVars, faults>>

ClaimRefused(a) ==
    /\ pc[a] = "claim"
    /\ ~OwnerMatches(LockOf[a]) /\ ~(future = LockOf[a] /\ location = NoLock)
    /\ host' = [host EXCEPT ![a] = "dropped"]
    /\ Goto(a, "gone")
    /\ opening' = opening \ {a}
    /\ UNCHANGED <<rowVars, walVars, dead, request, tabletVars, clientVars, faults>>

\* The claim or its answer is lost, and so is the reread.
ClaimUnknown(a) ==
    /\ pc[a] = "claim"
    /\ Fault("io")
    /\ Claim(LockOf[a]) \/ UNCHANGED rowVars
    /\ host' = [host EXCEPT ![a] = "dropped"]
    /\ Goto(a, "gone")
    /\ opening' = opening \ {a}
    /\ UNCHANGED <<walVars, dead, request, tabletVars, clientVars>>

CanRecover(a) ==
    /\ VerifyAssigned(a)
    /\ OwnerMatches(LockOf[a])
    /\ refs \subseteq stored
    /\ Recoverable(logs, refs)

\* Mutant of Recover: replay fills the tables of operations, not the memtable.
RecoverWithoutCells(a) ==
    LET replayed == Replayed(logs, refs) IN
    /\ pc[a] = "recover"
    /\ CanRecover(a)
    /\ ops' = [ops EXCEPT ![a] = replayed]
    /\ applied' = [applied EXCEPT ![a] = {r.op : r \in replayed}]
    /\ nextSeq' = [nextSeq EXCEPT ![a] = HighestSequence(replayed) + 1]
    /\ Goto(a, "opened")
    /\ opening' = opening \ {a}
    /\ UNCHANGED <<rowVars, walVars, dead, host, request, current, active, snapshot, clientVars, faults>>

\* walauthority.Open; recovered cells go straight to a flush.
Recover(a) ==
    LET replayed == Replayed(logs, refs) IN
    /\ pc[a] = "recover"
    /\ CanRecover(a)
    /\ ops' = [ops EXCEPT ![a] = replayed]
    /\ applied' = [applied EXCEPT ![a] = {r.op : r \in replayed}]
    /\ active' = [active EXCEPT ![a] = {r.op : r \in replayed}]
    /\ nextSeq' = [nextSeq EXCEPT ![a] = HighestSequence(replayed) + 1]
    /\ Goto(a, IF replayed = {} THEN "opened" ELSE "run")
    /\ opening' = IF replayed = {} THEN opening \ {a} ELSE opening
    /\ UNCHANGED <<rowVars, walVars, dead, host, request, current, snapshot, clientVars, faults>>

RecoverFails(a) ==
    /\ pc[a] = "recover"
    /\ ~CanRecover(a)
    /\ OpenFails(a)
    /\ UNCHANGED faults

----------------------------------------------------------------------------
(* Tablet.Commit.                                                          *)

\* The call returns an error; the client may send the same batch again.
Fail(a) ==
    /\ Goto(a, "idle")
    /\ request' = [request EXCEPT ![a] = NoOp]

\* After wal.Commit: flush when the memtable is full, else acknowledge.
Finish(a, o) ==
    IF Cardinality(active'[a]) >= FlushCells
    THEN /\ Goto(a, "run")
         /\ request' = [request EXCEPT ![a] = o]
         /\ UNCHANGED acked
    ELSE /\ Goto(a, "idle")
         /\ request' = [request EXCEPT ![a] = NoOp]
         /\ acked' = acked \cup {o}

\* Session.route: a batch, new or sent again in its session on this server,
\* reaches the tablet hosted now; the checks before the WAL is touched.
Accepts(a, o) ==
    /\ pc[a] = "idle"
    /\ VerifyHosted(a)
    /\ o \notin acked
    /\ session[o] = NoLock \/ (Retries /\ session[o] = LockOf[a])
    /\ session' = [session EXCEPT ![o] = LockOf[a]]

CreateWal(a) ==
    /\ nextWal \in Wals
    /\ current' = [current EXCEPT ![a] = nextWal]
    /\ stored' = stored \cup {nextWal}
    /\ nextWal' = nextWal + 1
    /\ UNCHANGED logs

\* A batch this tablet has not logged.
StartCommit(a, o) ==
    /\ Accepts(a, o)
    /\ \A r \in ops[a] : r.op # o
    /\ \/ current[a] # NoWal /\ UNCHANGED <<walVars, current>>
       \/ current[a] = NoWal /\ CreateWal(a)
    /\ request' = [request EXCEPT ![a] = o]
    /\ Goto(a, "reference")
    /\ UNCHANGED <<rowVars, dead, host, opening, nextSeq, ops, applied, active, snapshot, acked, faults>>

\* A batch it logged under this very fence (the digest covers the fence): it is
\* applied if it was not, and not logged again.
RepeatCommit(a, o) ==
    /\ Accepts(a, o)
    /\ \E r \in ops[a] : r.op = o /\ r.by = a
    /\ applied' = [applied EXCEPT ![a] = @ \cup {o}]
    /\ active' = [active EXCEPT ![a] = IF o \in applied[a] THEN @ ELSE @ \cup {o}]
    /\ Finish(a, o)
    /\ UNCHANGED <<rowVars, walVars, dead, host, opening, current, nextSeq, ops, snapshot, faults>>

\* Mutant of Reference: the reference is left for later.
ReferenceSkipped(a) ==
    /\ pc[a] = "reference"
    /\ OwnerMatches(LockOf[a])
    /\ Goto(a, "append")
    /\ UNCHANGED <<rowVars, walVars, dead, host, opening, request, tabletVars, clientVars, faults>>

\* ensureReference
Reference(a) ==
    /\ pc[a] = "reference"
    /\ EnsureReference(LockOf[a], current[a])
    /\ Goto(a, "append")
    /\ UNCHANGED <<walVars, dead, host, opening, request, tabletVars, clientVars, faults>>

ReferenceRefused(a) ==
    /\ pc[a] = "reference"
    /\ ~OwnerMatches(LockOf[a])
    /\ Fail(a)
    /\ UNCHANGED <<rowVars, walVars, dead, host, opening, tabletVars, clientVars, faults>>

\* The mutation or its answer is lost, and so is the reread.
ReferenceUnknown(a) ==
    /\ pc[a] = "reference"
    /\ Fault("io")
    /\ refs' \in {refs, IF OwnerMatches(LockOf[a]) THEN refs \cup {current[a]} ELSE refs}
    /\ Fail(a)
    /\ UNCHANGED <<location, future, files, walVars, dead, host, opening, tabletVars, clientVars>>

\* The frame of the current batch reaches the active WAL.  Nothing fences the
\* bytes: with the "late" faults a frame may land after the row changed hands.
Logged(a) ==
    /\ pc[a] = "append"
    /\ current[a] \in stored
    /\ OwnerMatches(LockOf[a]) \/ "late" \in Faults
    /\ logs' = [logs EXCEPT ![current[a]] =
                  Append(@, [op |-> request[a], seq |-> nextSeq[a], by |-> a])]

\* Mutant of AppendFrame: the sequence number is not used up.
AppendFrameSameSequence(a) ==
    /\ Logged(a)
    /\ ops' = [ops EXCEPT ![a] = @ \cup {[op |-> request[a], seq |-> nextSeq[a], by |-> a]}]
    /\ Goto(a, "verify")
    /\ UNCHANGED <<rowVars, stored, nextWal, dead, host, opening, request, current, nextSeq, applied,
                   active, snapshot, clientVars, faults>>

\* Store.Append, or an append whose lost answer was settled by findOperation.
AppendFrame(a) ==
    /\ Logged(a)
    /\ ops' = [ops EXCEPT ![a] = @ \cup {[op |-> request[a], seq |-> nextSeq[a], by |-> a]}]
    /\ nextSeq' = [nextSeq EXCEPT ![a] = @ + 1]
    /\ Goto(a, "verify")
    /\ UNCHANGED <<rowVars, stored, nextWal, dead, host, opening, request, current, applied, active,
                   snapshot, clientVars, faults>>

\* Nothing, or a partial frame that findOperation cut off again, was written;
\* or the file is gone or, without the "late" faults, closed to this writer.
AppendFails(a) ==
    /\ pc[a] = "append"
    /\ \/ Fault("io")
       \/ /\ current[a] \notin stored \/ (~OwnerMatches(LockOf[a]) /\ "late" \notin Faults)
          /\ UNCHANGED faults
    /\ Fail(a)
    /\ UNCHANGED <<rowVars, walVars, dead, host, opening, tabletVars, clientVars>>

\* The frame was written, but both the answer and findOperation's read failed:
\* ErrAmbiguous before ops and nextSeq are updated.
AppendAmbiguous(a) ==
    /\ Logged(a)
    /\ Fault("ambiguous")
    /\ Fail(a)
    /\ UNCHANGED <<rowVars, stored, nextWal, dead, host, opening, tabletVars, clientVars>>

\* The second verification, then Apply.
ApplyBatch(a) ==
    /\ pc[a] = "verify"
    /\ VerifyHosted(a)
    /\ applied' = [applied EXCEPT ![a] = @ \cup {request[a]}]
    /\ active' = [active EXCEPT ![a] = @ \cup {request[a]}]
    /\ Finish(a, request[a])
    /\ UNCHANGED <<rowVars, walVars, dead, host, opening, current, nextSeq, ops, snapshot, session, faults>>

\* The fence is gone, or the caller's context was cancelled before Apply.
ApplyRefused(a) ==
    /\ pc[a] = "verify"
    /\ \/ ~VerifyHosted(a) /\ UNCHANGED faults
       \/ Fault("cancel")
    /\ Fail(a)
    /\ UNCHANGED <<rowVars, walVars, dead, host, opening, tabletVars, clientVars>>

----------------------------------------------------------------------------
(* Tablet.flush and Coordinator.Run, resumed from the phase it had reached. *)

\* Mutant of FlushDone: a flush on request is answered like a batch.
FlushDoneAnswersAll(a) ==
    /\ IF a \in opening
       THEN Goto(a, "opened") /\ opening' = opening \ {a} /\ UNCHANGED <<request, acked>>
       ELSE /\ Fail(a) /\ UNCHANGED opening
            /\ acked' = acked \cup {request[a]}
    /\ UNCHANGED <<dead, host, session>>

\* flush ends: Open goes on, or the batch that filled the memtable is answered.
FlushDone(a) ==
    /\ IF a \in opening
       THEN Goto(a, "opened") /\ opening' = opening \ {a} /\ UNCHANGED <<request, acked>>
       ELSE /\ Fail(a) /\ UNCHANGED opening
            /\ acked' = acked \cup ({request[a]} \ {NoOp})
    /\ UNCHANGED <<dead, host, session>>

\* flush fails: Open fails with it, or the batch is answered with an error and
\* the pending flush is kept.  The row changes only if Open releases it.
FlushFails(a) ==
    IF a \in opening
    THEN OpenFails(a)
    ELSE /\ Fail(a)
         /\ UNCHANGED <<rowVars, walVars, dead, host, opening, tabletVars, clientVars>>

WalVerify(a) == IF a \in opening THEN VerifyAssigned(a) ELSE VerifyHosted(a)

\* Tablet.Flush from the manager's flush request
RequestFlush(a) ==
    /\ pc[a] = "idle"
    /\ active[a] # {} \/ snapshot[a].phase # "none"
    /\ Goto(a, "run")
    /\ UNCHANGED <<rowVars, walVars, dead, host, opening, request, tabletVars, clientVars, faults>>

CanSeal(a) == VerifyAssigned(a) /\ WalVerify(a) /\ OwnerMatches(LockOf[a])

\* Run of a new flush: Prepare seals the WAL and swaps the memtable in one step.
Seal(a) ==
    /\ pc[a] = "run"
    /\ snapshot[a].phase = "none"
    /\ CanSeal(a)
    /\ snapshot' = [snapshot EXCEPT ![a] =
          [ops |-> active[a], wals |-> refs, boundary |-> nextSeq[a] - 1, phase |-> "sealed"]]
    /\ active' = [active EXCEPT ![a] = {}]
    /\ current' = [current EXCEPT ![a] = NoWal]
    /\ Goto(a, "publish")
    /\ UNCHANGED <<rowVars, walVars, dead, host, opening, request, nextSeq, ops, applied, clientVars,
                   faults>>

\* Run of a pending flush goes on where its checkpoint says.
Resume(a) ==
    /\ pc[a] = "run"
    /\ VerifyAssigned(a)
    /\ \/ snapshot[a].phase = "sealed" /\ Goto(a, "publish")
       \/ snapshot[a].phase = "published" /\ Goto(a, "commit")
       \/ snapshot[a].phase = "committed" /\ Goto(a, "retire")
    /\ UNCHANGED <<rowVars, walVars, dead, host, opening, request, tabletVars, clientVars, faults>>

\* Mutant of RunRefused: a pending flush waits for its fence to come back.
RunRefusedNew(a) ==
    /\ pc[a] = "run"
    /\ snapshot[a].phase = "none"
    /\ ~CanSeal(a)
    /\ FlushFails(a)
    /\ UNCHANGED faults

RunRefused(a) ==
    /\ pc[a] = "run"
    /\ IF snapshot[a].phase = "none" THEN ~CanSeal(a) ELSE ~VerifyAssigned(a)
    /\ FlushFails(a)
    /\ UNCHANGED faults

\* validateSnapshot
ValidSnapshot(s) == s.ops # {} /\ s.wals # {} /\ s.boundary >= 1

\* The output object is written and read back.
Publish(a) ==
    /\ pc[a] = "publish"
    /\ ValidSnapshot(snapshot[a])
    /\ snapshot' = [snapshot EXCEPT ![a].phase = "published"]
    /\ Goto(a, "commit")
    /\ UNCHANGED <<rowVars, walVars, dead, host, opening, request, current, nextSeq, ops, applied,
                   active, clientVars, faults>>

SnapshotInvalid(a) ==
    /\ pc[a] = "publish"
    /\ ~ValidSnapshot(snapshot[a])
    /\ FlushFails(a)
    /\ UNCHANGED faults

\* The verification before the metadata commit.
VerifyCommit(a) ==
    /\ pc[a] = "commit"
    /\ VerifyAssigned(a)
    /\ Goto(a, "cas")
    /\ UNCHANGED <<rowVars, walVars, dead, host, opening, request, tabletVars, clientVars, faults>>

VerifyCommitRefused(a) ==
    /\ pc[a] = "commit"
    /\ ~VerifyAssigned(a)
    /\ FlushFails(a)
    /\ UNCHANGED faults

Output(a) == [by |-> a, ops |-> snapshot[a].ops, wals |-> snapshot[a].wals]

\* The conditional mutation is applied, and Run knows it.
CommitOutput(a) ==
    /\ pc[a] = "cas"
    /\ CommitFile(LockOf[a], Output(a), snapshot[a].wals)
    /\ snapshot' = [snapshot EXCEPT ![a].phase = "committed"]
    /\ Goto(a, "retire")
    /\ UNCHANGED <<walVars, dead, host, opening, request, current, nextSeq, ops, applied, active,
                   clientVars, faults>>

\* It is applied, but the answer and every reread are lost, or the checkpoint
\* that should record it is: the call fails with the row already changed.
CommitUnknown(a) ==
    /\ pc[a] = "cas"
    /\ Fault("io")
    /\ CommitFile(LockOf[a], Output(a), snapshot[a].wals)
    /\ Goto(a, "lost")
    /\ UNCHANGED <<walVars, dead, host, opening, request, tabletVars, clientVars>>

AnswerLost(a) ==
    /\ pc[a] = "lost"
    /\ FlushFails(a)
    /\ UNCHANGED faults

\* It is rejected because an earlier try was applied: the reread row says so.
CommitReconciled(a) ==
    /\ pc[a] = "cas"
    /\ OwnerMatches(LockOf[a])
    /\ CommitApplied(Output(a), snapshot[a].wals)
    /\ snapshot' = [snapshot EXCEPT ![a].phase = "committed"]
    /\ Goto(a, "retire")
    /\ UNCHANGED <<rowVars, walVars, dead, host, opening, request, current, nextSeq, ops, applied,
                   active, clientVars, faults>>

CommitRejected(a) ==
    /\ pc[a] = "cas"
    /\ \/ ~OwnerMatches(LockOf[a])
       \/ /\ ~(snapshot[a].wals \subseteq refs)
          /\ ~CommitApplied(Output(a), snapshot[a].wals)
    /\ FlushFails(a)
    /\ UNCHANGED faults

Unretired(a) == snapshot[a].wals \cap (refs \cup stored)

\* Retire of one covered WAL, reference first, then bytes.
Retire(a, w) ==
    /\ pc[a] = "retire"
    /\ w \in Unretired(a)
    /\ WalVerify(a)
    /\ RemoveReference(LockOf[a], w)
    /\ stored' = stored \ {w}
    /\ UNCHANGED <<logs, nextWal, dead, host, pc, opening, request,
                   tabletVars, clientVars, faults>>

\* Complete, once every covered WAL is retired.
Complete(a) ==
    /\ pc[a] = "retire"
    /\ Unretired(a) = {}
    /\ snapshot' = [snapshot EXCEPT ![a] = NoSnapshot]
    /\ FlushDone(a)
    /\ UNCHANGED <<rowVars, walVars, current, nextSeq, ops, applied, active, faults>>

RetireRefused(a) ==
    /\ pc[a] = "retire"
    /\ Unretired(a) # {}
    /\ ~WalVerify(a) \/ ~OwnerMatches(LockOf[a])
    /\ FlushFails(a)
    /\ UNCHANGED faults

\* A read or a write of a flush fails without effect.
FlushFault(a) ==
    /\ pc[a] \in {"run", "publish", "cas", "retire"}
    /\ Fault("io")
    /\ FlushFails(a)

\* Tablet.Close and UnloadComplete of a draining tablet.  While unloading, no
\* verification passes: a memtable that is not empty cannot be flushed, and
\* Close fails.  So it does when another server has the row.
Close(a) ==
    /\ pc[a] = "idle"
    /\ host[a] = "unloading"
    /\ active[a] = {} /\ snapshot[a].phase = "none"
    /\ OwnerMatches(LockOf[a]) \/ (location = NoLock /\ future = NoLock)
    /\ ReleaseLocation(LockOf[a])
    /\ host' = [host EXCEPT ![a] = "dropped"]
    /\ Goto(a, "gone")
    /\ UNCHANGED <<walVars, dead, opening, request, tabletVars, clientVars, faults>>

Step(a) ==
    \/ ClaimRow(a) \/ ClaimRefused(a) \/ Recover(a) \/ RecoverFails(a) \/ LoadComplete(a)
    \/ Reference(a) \/ ReferenceRefused(a) \/ AppendFrame(a) \/ AppendFails(a)
    \/ ApplyBatch(a) \/ ApplyRefused(a)
    \/ Seal(a) \/ Resume(a) \/ RunRefused(a) \/ Publish(a) \/ SnapshotInvalid(a)
    \/ VerifyCommit(a) \/ VerifyCommitRefused(a)
    \/ CommitOutput(a) \/ CommitReconciled(a) \/ CommitRejected(a) \/ AnswerLost(a)
    \/ (\E w \in Wals : Retire(a, w)) \/ RetireRefused(a) \/ Complete(a) \/ Close(a)

Next ==
    \/ \E a \in Attempts : Step(a) \/ Assign(a) \/ RequestFlush(a) \/ RegainManager(a)
    \/ \E a \in Attempts, o \in Ops : StartCommit(a, o) \/ RepeatCommit(a, o)
    \/ \E a \in Attempts : \/ Unload(a) \/ LoseManager(a)
                           \/ ClaimUnknown(a) \/ ReferenceUnknown(a) \/ AppendAmbiguous(a)
                           \/ CommitUnknown(a) \/ FlushFault(a)
    \/ \E lock \in Locks : LoseLock(lock) \/ NoticeLoss(lock) \/ Crash(lock)

Spec == Init /\ [][Next]_vars

\* A call in progress goes on: its goroutine runs and every request it sends
\* is answered or fails with its connection.
FairSpec == Spec /\ \A a \in Attempts : WF_vars(Step(a))

----------------------------------------------------------------------------
(* Properties.                                                             *)

InFiles == UNION {f.ops : f \in files}
InLogs == {r.op : r \in UNION {Records(logs[w]) : w \in refs}}
Durable == InFiles \cup InLogs

\* A batch that was acknowledged survives: it is in an installed file or in a
\* WAL the metadata row references, whatever crashed or moved since.
AckedDurable == acked \subseteq Durable

\* The write path as its clients see it: a batch becomes durable once, stays
\* durable, and is acknowledged only afterwards.
Contract == INSTANCE TabletContract WITH durable <- Durable
ImplementsContract == Contract!Spec

\* The next owner can always open the tablet: every referenced WAL exists and
\* recover accepts what they hold together.
TabletRecoverable == refs \subseteq stored /\ Recoverable(logs, refs)

\* No batch is in two installed files, although flushes are retried, their
\* answers lost, and their WALs replayed by the next owner.
FlushedOnce == \A f, g \in files : f # g => f.ops \cap g.ops = {}

\* A reference leaves the row only for a file that holds everything its WAL
\* held: SealForMinorCompaction's boundary covers the whole WAL.
ReferencesCovered ==
    [][\A w \in refs \ refs' : {r.op : r \in Records(logs[w])} \subseteq InFiles']_vars

\* The tablet that serves knows every batch of the WALs its row references: none
\* was skipped by recovery, and none can be retired without being flushed.
OwnerKnowsLog ==
    \A a \in Attempts :
        host[a] = "hosted" /\ OwnerMatches(LockOf[a]) => InLogs \subseteq {r.op : r \in ops[a]}

\* Every call ends: no commit, flush or open waits for something that never
\* comes.
CallsEnd ==
    \A a \in Attempts :
        pc[a] \notin {"none", "idle", "opened", "gone"} ~> pc[a] \in {"idle", "opened", "gone"}

\* A draining tablet is released.
Drains == \A a \in Attempts : host[a] = "unloading" ~> host[a] = "dropped"

\* With FlushCells 1 an acknowledged batch is in an installed file, where scans
\* see it.
AckedVisible == FlushCells = 1 => acked \subseteq InFiles

\* The metadata commit of an attempt that is no longer hosted or loading is
\* rejected inside the metadata implementation.
CommitFenced ==
    [][\A f \in files' \ files : VerifyAssigned(f.by)]_vars

=============================================================================
