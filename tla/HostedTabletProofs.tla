------------------------ MODULE HostedTabletProofs ------------------------
(***************************************************************************)
(* What HostedTablet promises, proved for any batches, attempts, lock      *)
(* generations, WALs and numbers of faults.                                *)
(*                                                                         *)
(* Only the attempt that the row names can change what the next owner      *)
(* finds, and an attempt that has lost the row never gets it back.  So it  *)
(* is enough to know, of the attempt that owns the row, that it has logged *)
(* or recovered every record the row references (KnownInv), that its       *)
(* memtable and its pending flush hold them (CoveredInv), and that what    *)
(* its flush covers is final.                                              *)
(***************************************************************************)
EXTENDS HostedTablet, WellFoundedInduction, TLAPS

----------------------------------------------------------------------------
(* The control of an attempt *)

Committing == {"reference", "append", "verify"}
Flushing == {"run", "publish", "commit", "cas", "lost", "retire"}

\* An attempt that has not recovered has nothing in memory.
Blank(a) ==
    /\ ops[a] = {} /\ active[a] = {} /\ snapshot[a] = NoSnapshot
    /\ current[a] = NoWal /\ request[a] = NoOp

\* Where a call can be, and which phase its flush has then.
Control(a) ==
    /\ host[a] = "none" <=> pc[a] = "none"
    /\ pc[a] = "gone" => host[a] = "dropped"
    /\ pc[a] \in {"none", "claim", "recover"} => Blank(a)
    /\ pc[a] \in {"claim", "recover"} => a \in opening
    /\ a \in opening => pc[a] \in {"claim", "recover", "gone"} \cup Flushing /\ request[a] = NoOp
    /\ pc[a] \in {"idle", "opened"} => request[a] = NoOp
    /\ pc[a] \in Committing => request[a] # NoOp
    /\ pc[a] \in {"reference", "append"} => current[a] # NoWal
    /\ pc[a] \in {"idle"} \cup Committing \cup Flushing /\ a \notin opening => host[a] # "loading"

Phased(a) ==
    /\ snapshot[a].phase = "none" => snapshot[a] = NoSnapshot
    /\ pc[a] = "publish" => snapshot[a].phase = "sealed"
    /\ pc[a] \in {"commit", "cas", "lost"} => snapshot[a].phase = "published"
    /\ pc[a] = "retire" => snapshot[a].phase = "committed"

\* Sequence numbers are bounded, so that recover finds the highest.
Bounded == \E n \in Nat : \A w \in Wals : \A k \in 1..Len(logs[w]) : logs[w][k].seq <= n

ControlInv == \A a \in Attempts : Control(a) /\ Phased(a)
TypeInv == TypeOK /\ Bounded /\ ControlInv

----------------------------------------------------------------------------
(* Who owns the row *)

Live(a) == pc[a] \notin {"none", "gone"}
Owner(a) == Live(a) /\ OwnerMatches(LockOf[a])
Recovered(a) == pc[a] \notin {"none", "claim", "recover", "gone"}

\* A process runs one attempt at a time under a generation, and one that was dropped
\* is over or its generation is.
LiveInv ==
    /\ \A a, b \in Attempts : Live(a) /\ Live(b) /\ LockOf[a] = LockOf[b] => a = b
    /\ \A a \in Attempts : host[a] = "dropped" /\ LockOf[a] \notin dead => pc[a] = "gone"

----------------------------------------------------------------------------
(* The WALs *)

\* The faults under which the promises hold: none that lets a writer's memory and its
\* WAL disagree.
Faithful == {"cancel", "manager", "ambiguous", "late"} \cap Faults = {}

\* Then no attempt is suspended and served again.
Steady == \A a \in Attempts : host[a] # "suspended"
Base == TypeInv /\ LiveInv /\ Steady

\* Distinct records differ in operation and sequence number.
Distinct(records) == \A r, s \in records : r.seq = s.seq \/ r.op = s.op => r = s
Referenced == UNION {Records(logs[w]) : w \in refs}

\* A WAL is used once; what the row references exists and can be read.
RowInv ==
    /\ \A w \in Wals : w >= nextWal => w \notin refs /\ logs[w] = <<>>
    /\ refs \subseteq stored
    /\ \A w \in refs : Readable(logs[w])
    /\ Distinct(Referenced)

\* The table of operations of an attempt, the batch it is about to log, and its WALs.
TableInv(a) ==
    /\ nextSeq[a] >= 1 /\ \A r \in ops[a] : r.seq < nextSeq[a]
    /\ Distinct(ops[a])
    /\ pc[a] \in {"reference", "append"} => \A r \in ops[a] : r.op # request[a]
    /\ pc[a] \in {"verify"} \cup Flushing /\ request[a] # NoOp => \E r \in ops[a] : r.op = request[a]
    /\ \A o \in active[a] \cup snapshot[a].ops : \E r \in ops[a] : r.op = o
    /\ current[a] < nextWal /\ \A w \in snapshot[a].wals : w < nextWal

\* The owner knows every record that the row references, and writes to a WAL that no
\* flush covers.
KnownInv(a) ==
    Owner(a) /\ Recovered(a) =>
        /\ Referenced \subseteq ops[a]
        /\ current[a] # NoWal => /\ current[a] \in stored /\ current[a] \notin snapshot[a].wals
                                 /\ current[a] \in refs \/ logs[current[a]] = <<>>
        /\ pc[a] = "append" => current[a] \in refs

LogInv == RowInv /\ \A a \in Attempts : TableInv(a) /\ KnownInv(a)

----------------------------------------------------------------------------
(* What a flush covers *)

Logging(a) == IF pc[a] = "verify" THEN {request[a]} ELSE {}
Pending(a) == snapshot[a].wals \subseteq refs /\ snapshot[a].phase # "committed"
Installed(a) == Output(a) \in files /\ snapshot[a].wals \cap refs = {}

\* The owner's memory holds what the row references and no file has; its pending flush
\* holds what the WALs it covers hold, and is installed as a whole or not at all.
HeldInv(a) ==
    VerifyAssigned(a) =>
        \A r \in Referenced : r.op \in active[a] \cup snapshot[a].ops \cup Logging(a) \cup InFiles
WholeInv(a) ==
    snapshot[a].phase # "none" =>
        /\ \A w \in snapshot[a].wals : \A r \in Records(logs[w]) : r.op \in snapshot[a].ops \cup InFiles
        /\ Pending(a) \/ Installed(a)
CoveredInv(a) == Owner(a) /\ Recovered(a) => HeldInv(a) /\ WholeInv(a)
CoverInv == \A a \in Attempts : CoveredInv(a)

\* What an attempt has in its table is durable.
DurableInv ==
    /\ \A a \in Attempts : \A r \in ops[a] : r.op \in Durable
    /\ acked \subseteq Durable

----------------------------------------------------------------------------
(* No batch in two files *)

\* A batch reaches one attempt only: it is not sent again, or its session ends with
\* the attempt.
OneAttempt == ~Retries \/ \A a, b \in Attempts : LockOf[a] = LockOf[b] => a = b

Took(a, o) == request[a] = o \/ \E r \in ops[a] : r.op = o /\ r.by = a

\* A batch is taken by one attempt, and whatever is logged or flushed was taken by it.
TakenInv ==
    /\ \A a, b \in Attempts, o \in Ops : Took(a, o) /\ Took(b, o) => a = b
    /\ \A a \in Attempts, o \in Ops : Took(a, o) => session[o] = LockOf[a]
    /\ \A a \in Attempts : \A r \in ops[a] : r \in ops[r.by]
    /\ \A w \in Wals : \A r \in Records(logs[w]) : r \in ops[r.by]
    /\ \A o \in InFiles : \E a \in Attempts : \E r \in ops[a] : r.op = o /\ r.by = a

\* A batch that was logged is applied as long as the attempt is served.
AppliedInv(a) == VerifyAssigned(a) => \A r \in ops[a] : r.op \in applied[a] \cup Logging(a)

\* The owner's memory has nothing that a file or its pending flush has, and the flush
\* nothing that a file or the rest of the WALs has.
FreshInv(a) == (active[a] \cup Logging(a)) \cap (InFiles \cup snapshot[a].ops) = {}
ApartInv(a) ==
    snapshot[a].phase # "none" /\ Pending(a) /\ snapshot[a].wals # {} =>
        /\ snapshot[a].ops \cap InFiles = {}
        /\ \A w \in refs \ snapshot[a].wals : \A r \in Records(logs[w]) : r.op \notin snapshot[a].ops
OnceInv(a) == Owner(a) /\ Recovered(a) => FreshInv(a) /\ ApartInv(a)

\* No batch is in two files, nor in a file and a referenced WAL.
SingleInv == FlushedOnce /\ \A r \in Referenced : r.op \notin InFiles
FlushInv == SingleInv /\ \A a \in Attempts : AppliedInv(a) /\ OnceInv(a)

----------------------------------------------------------------------------
(* Sequence numbers and errors of a flush *)

\* RecoveryReport.HighestSequence is the highest number of bounded records, or 0.
LEMMA HighestBounds ==
  ASSUME NEW R, NEW n \in Nat, \A r \in R : r.seq \in Nat /\ r.seq <= n
  PROVE  HighestSequence(R) \in Nat /\ \A r \in R : r.seq <= HighestSequence(R)
  <1>. DEFINE S == {0} \cup {r.seq : r \in R}
              bounds == {k \in Nat : \A s \in S : s <= k}
  <1>1. S \subseteq Nat /\ n \in bounds /\ bounds \subseteq Nat
    OBVIOUS
  <1>2. PICK k \in bounds : \A j \in bounds : ~(<<j, k>> \in OpToRel(<, Nat))
    BY <1>1, NatLessThanWellFounded, WFMin
  <1>3. \A j \in bounds : ~(j < k)
    BY <1>1, <1>2 DEF OpToRel
  <1>4. k \in S
    <2>1. CASE k = 0
      BY <2>1
    <2>2. CASE k # 0
      <3>1. k - 1 \in Nat /\ k - 1 < k /\ k - 1 \notin bounds
        BY <1>3, <2>2
      <3>2. PICK s \in S : ~(s <= k - 1)
        BY <3>1
      <3>3. s \in Nat /\ k \in Nat /\ s <= k
        BY <1>1, <1>2
      <3>4. s = k
        BY <3>2, <3>3
      <3>. QED  BY <3>4
    <2>. QED  BY <2>1, <2>2
  <1>5. \A y \in S : k >= y
    BY <1>1, <1>2
  <1>6. Max(S) \in S /\ \A y \in S : Max(S) >= y
    BY <1>4, <1>5 DEF Max
  <1>. QED  BY <1>1, <1>6 DEF HighestSequence

\* A flush that ends in an error, at whatever step.
FlushBreaks(a) ==
    /\ pc[a] \in Flushing
    /\ FlushFails(a)
    /\ faults' \in 0..MaxFaults

\* Every error of a flush is answered by FlushFails.
LEMMA FlushErrors ==
  ASSUME TypeInv, NEW a \in Attempts,
         \/ RunRefused(a) \/ SnapshotInvalid(a) \/ VerifyCommitRefused(a) \/ CommitRejected(a)
         \/ AnswerLost(a) \/ RetireRefused(a) \/ FlushFault(a)
  PROVE  FlushBreaks(a)
  BY TabletAssumption
  DEF TypeInv, TypeOK, FlushBreaks, Flushing, RunRefused, SnapshotInvalid, VerifyCommitRefused, CommitRejected,
      AnswerLost, RetireRefused, FlushFault, Fault

\* After wal.Commit the call goes on to a flush, or the batch is acknowledged.
LEMMA FinishIs ==
  ASSUME NEW a \in Attempts, NEW o \in Ops, Finish(a, o)
  PROVE  \/ Goto(a, "run") /\ request' = [request EXCEPT ![a] = o] /\ acked' = acked
         \/ Goto(a, "idle") /\ request' = [request EXCEPT ![a] = NoOp] /\ acked' = acked \cup {o}
  BY DEF Finish

\* A flush that is done ends Factory.Open, or answers the batch that asked for it.
LEMMA FlushDoneIs ==
  ASSUME NEW a \in Attempts, FlushDone(a)
  PROVE  /\ \/ /\ a \in opening /\ Goto(a, "opened") /\ opening' = opening \ {a}
               /\ UNCHANGED <<request, acked>>
            \/ /\ a \notin opening /\ Goto(a, "idle") /\ request' = [request EXCEPT ![a] = NoOp]
               /\ acked' = acked \cup ({request[a]} \ {NoOp}) /\ UNCHANGED opening
         /\ UNCHANGED <<dead, host, session>>
  BY DEF FlushDone, Fail

\* Either way the types stay.
LEMMA FinishTypes ==
  ASSUME TypeOK, NEW a \in Attempts, NEW o \in Ops, Finish(a, o)
  PROVE  /\ pc' \in [Attempts -> Steps] /\ request' \in [Attempts -> Ops \cup {NoOp}] /\ acked' \subseteq Ops
  <1>1. pc \in [Attempts -> Steps] /\ request \in [Attempts -> Ops \cup {NoOp}] /\ acked \subseteq Ops
    BY DEF TypeOK
  <1>2. CASE Goto(a, "run") /\ request' = [request EXCEPT ![a] = o] /\ acked' = acked
    BY <1>1, <1>2 DEF Goto, Steps
  <1>3. CASE Goto(a, "idle") /\ request' = [request EXCEPT ![a] = NoOp] /\ acked' = acked \cup {o}
    BY <1>1, <1>3 DEF Goto, Steps
  <1>. QED  BY <1>2, <1>3, FinishIs

\* So does the end of a flush.
LEMMA FlushDoneTypes ==
  ASSUME TypeOK, NEW a \in Attempts, FlushDone(a)
  PROVE  /\ pc' \in [Attempts -> Steps] /\ request' \in [Attempts -> Ops \cup {NoOp}] /\ acked' \subseteq Ops
         /\ opening' \subseteq Attempts /\ UNCHANGED <<dead, host, session>>
  <1>1. /\ pc \in [Attempts -> Steps] /\ request \in [Attempts -> Ops \cup {NoOp}] /\ acked \subseteq Ops
        /\ opening \subseteq Attempts
    BY DEF TypeOK
  <1>2. CASE a \in opening
    BY <1>1, <1>2, FlushDoneIs DEF Goto, Steps
  <1>3. CASE a \notin opening
    <2>1. /\ Goto(a, "idle") /\ request' = [request EXCEPT ![a] = NoOp]
          /\ acked' = acked \cup ({request[a]} \ {NoOp}) /\ UNCHANGED <<opening, dead, host, session>>
      BY <1>3, FlushDoneIs
    <2>2. acked' \subseteq Ops
      BY <1>1, <2>1
    <2>. QED  BY <1>1, <2>1, <2>2 DEF Goto, Steps
  <1>. QED  BY <1>2, <1>3

Snapshots == [ops : SUBSET Ops, wals : SUBSET Wals, boundary : Int, phase : Phases]

\* A flush that goes to another phase keeps the rest of its checkpoint.
LEMMA PhaseSet ==
  ASSUME snapshot \in [Attempts -> Snapshots], NEW a \in Attempts, NEW p \in Phases,
         snapshot' = [snapshot EXCEPT ![a].phase = p]
  PROVE  /\ snapshot' \in [Attempts -> Snapshots]
         /\ snapshot'[a].phase = p
         /\ snapshot'[a].ops = snapshot[a].ops /\ snapshot'[a].wals = snapshot[a].wals
         /\ \A b \in Attempts \ {a} : snapshot'[b] = snapshot[b]
  BY DEF Snapshots

\* The steps of Run that a checkpoint records, as seen by the other invariants.
LEMMA PublishIs ==
  ASSUME TypeOK, NEW a \in Attempts, Publish(a)
  PROVE  /\ snapshot' \in [Attempts -> Snapshots] /\ snapshot'[a].phase = "published"
         /\ snapshot'[a].ops = snapshot[a].ops /\ snapshot'[a].wals = snapshot[a].wals
         /\ \A b \in Attempts \ {a} : snapshot'[b] = snapshot[b]
         /\ pc[a] = "publish" /\ Goto(a, "commit")
         /\ UNCHANGED <<rowVars, walVars, dead, host, opening, request, current, nextSeq, ops, applied,
                        active, clientVars, faults>>
  <1>1. snapshot \in [Attempts -> Snapshots] /\ "published" \in Phases
    BY DEF TypeOK, Snapshots, Phases
  <1>2. snapshot' = [snapshot EXCEPT ![a].phase = "published"]
    BY Zenon DEF Publish
  <1>. QED  BY <1>1, <1>2, PhaseSet DEF Publish

\* The file is installed and its references are gone.
LEMMA CommitOutputIs ==
  ASSUME TypeOK, NEW a \in Attempts, CommitOutput(a)
  PROVE  /\ snapshot' \in [Attempts -> Snapshots] /\ snapshot'[a].phase = "committed"
         /\ snapshot'[a].ops = snapshot[a].ops /\ snapshot'[a].wals = snapshot[a].wals
         /\ \A b \in Attempts \ {a} : snapshot'[b] = snapshot[b]
         /\ pc[a] = "cas" /\ Goto(a, "retire")
         /\ CommitFile(LockOf[a], Output(a), snapshot[a].wals)
         /\ UNCHANGED <<walVars, dead, host, opening, request, current, nextSeq, ops, applied, active,
                        clientVars, faults>>
  <1>1. snapshot \in [Attempts -> Snapshots] /\ "committed" \in Phases
    BY DEF TypeOK, Snapshots, Phases
  <1>2. snapshot' = [snapshot EXCEPT ![a].phase = "committed"]
    BY Zenon DEF CommitOutput
  <1>. QED  BY <1>1, <1>2, PhaseSet DEF CommitOutput

\* An earlier try had installed it.
LEMMA CommitReconciledIs ==
  ASSUME TypeOK, NEW a \in Attempts, CommitReconciled(a)
  PROVE  /\ snapshot' \in [Attempts -> Snapshots] /\ snapshot'[a].phase = "committed"
         /\ snapshot'[a].ops = snapshot[a].ops /\ snapshot'[a].wals = snapshot[a].wals
         /\ \A b \in Attempts \ {a} : snapshot'[b] = snapshot[b]
         /\ pc[a] = "cas" /\ Goto(a, "retire")
         /\ OwnerMatches(LockOf[a]) /\ CommitApplied(Output(a), snapshot[a].wals)
         /\ UNCHANGED <<rowVars, walVars, dead, host, opening, request, current, nextSeq, ops, applied,
                        active, clientVars, faults>>
  <1>1. snapshot \in [Attempts -> Snapshots] /\ "committed" \in Phases
    BY DEF TypeOK, Snapshots, Phases
  <1>2. snapshot' = [snapshot EXCEPT ![a].phase = "committed"]
    BY Zenon DEF CommitReconciled
  <1>. QED  BY <1>1, <1>2, PhaseSet DEF CommitReconciled

\* A batch that is about to be logged makes a record, and its WAL is one.
LEMMA RecordIs ==
  ASSUME TypeInv, NEW a \in Attempts, Logged(a)
  PROVE  /\ [op |-> request[a], seq |-> nextSeq[a], by |-> a] \in Record
         /\ current[a] \in Wals
         /\ logs' \in [Wals -> Seq(Record)]
         /\ logs' = [logs EXCEPT ![current[a]] = Append(logs[current[a]], [op |-> request[a], seq |-> nextSeq[a], by |-> a])]
  <1>1. request[a] \in Ops /\ nextSeq[a] \in Nat /\ current[a] \in Wals
    BY DEF TypeInv, TypeOK, ControlInv, Control, Committing, Logged
  <1>2. PICK rec \in Record : rec = [op |-> request[a], seq |-> nextSeq[a], by |-> a]
    BY <1>1 DEF Record
  <1>3. logs[current[a]] \in Seq(Record) /\ logs \in [Wals -> Seq(Record)]
    BY <1>1 DEF TypeInv, TypeOK
  <1>4. Append(logs[current[a]], rec) \in Seq(Record)
    BY <1>3
  <1>5. logs' = [logs EXCEPT ![current[a]] = Append(logs[current[a]], rec)]
    BY <1>2 DEF Logged
  <1>6. logs' \in [Wals -> Seq(Record)]
    BY <1>1, <1>3, <1>4, <1>5
  <1>. QED  BY <1>1, <1>2, <1>5, <1>6

\* recover reads records, and numbers go on behind them.
LEMMA ReplayedIs ==
  ASSUME TypeInv
  PROVE  /\ Replayed(logs, refs) \subseteq Referenced /\ Referenced \subseteq Record
         /\ HighestSequence(Replayed(logs, refs)) \in Nat
         /\ \A r \in Replayed(logs, refs) : r.seq <= HighestSequence(Replayed(logs, refs))
  <1>1. Replayed(logs, refs) \subseteq Referenced
    BY DEF Replayed, Referenced
  <1>2. \A w \in refs : w \in Wals /\ logs[w] \in Seq(Record)
    BY DEF TypeInv, TypeOK
  <1>3. PICK n \in Nat : \A w \in Wals : \A k \in 1..Len(logs[w]) : logs[w][k].seq <= n
    BY DEF TypeInv, Bounded
  <1>4. \A r \in Referenced : r \in Record /\ r.seq <= n
    <2>1. ASSUME NEW w \in refs, NEW k \in 1..Len(logs[w])
          PROVE  logs[w][k] \in Record /\ logs[w][k].seq <= n
      BY <1>2, <1>3
    <2>. QED  BY <2>1 DEF Referenced, Records
  <1>5. \A r \in Replayed(logs, refs) : r.seq \in Nat /\ r.seq <= n
    BY <1>1, <1>4 DEF Record
  <1>. QED  BY <1>1, <1>4, <1>5, HighestBounds

\* Every step keeps the types.
LEMMA TypesKept == TypeInv /\ [Next]_vars => TypeOK'
<1>. SUFFICES ASSUME TypeInv, [Next]_vars PROVE TypeOK'
  OBVIOUS
<1>. USE TabletAssumption DEF TypeInv, TypeOK, ControlInv, HostStates, Steps
<1>1. ASSUME NEW a \in Attempts, ClaimRow(a)
      PROVE  TypeOK'
  BY <1>1 DEF ClaimRow, Goto, Fault, rowVars, walVars, tabletVars, clientVars, Claim
<1>2. ASSUME NEW a \in Attempts, ClaimRefused(a)
      PROVE  TypeOK'
  BY <1>2 DEF ClaimRefused, Goto, Fault, rowVars, walVars, tabletVars, clientVars
<1>3. ASSUME NEW a \in Attempts, ClaimUnknown(a)
      PROVE  TypeOK'
  BY <1>3 DEF ClaimUnknown, Goto, Fault, rowVars, walVars, tabletVars, clientVars, Claim
<1>4. ASSUME NEW a \in Attempts, Recover(a)
      PROVE  TypeOK'
  <2>. DEFINE replayed == Replayed(logs, refs)
  <2>1. replayed \subseteq Record /\ HighestSequence(replayed) \in Nat
    BY ReplayedIs
  <2>2. /\ ops' = [ops EXCEPT ![a] = replayed] /\ applied' = [applied EXCEPT ![a] = {r.op : r \in replayed}]
        /\ active' = [active EXCEPT ![a] = {r.op : r \in replayed}]
        /\ nextSeq' = [nextSeq EXCEPT ![a] = HighestSequence(replayed) + 1]
        /\ pc' \in [Attempts -> Steps] /\ opening' \subseteq Attempts
        /\ UNCHANGED <<rowVars, walVars, dead, host, request, current, snapshot, clientVars, faults>>
    BY <1>4 DEF Recover, Goto
  <2>. HIDE DEF replayed
  <2>3. {r.op : r \in replayed} \subseteq Ops /\ HighestSequence(replayed) + 1 \in Nat
    BY <2>1 DEF Record
  <2>. QED  BY <2>1, <2>2, <2>3 DEF rowVars, walVars, clientVars
<1>5. ASSUME NEW a \in Attempts, RecoverFails(a)
      PROVE  TypeOK'
  BY <1>5 DEF RecoverFails, Goto, Fault, rowVars, walVars, tabletVars, clientVars, OpenFails, ReleaseLocation
<1>6. ASSUME NEW a \in Attempts, LoadComplete(a)
      PROVE  TypeOK'
  BY <1>6 DEF LoadComplete, Goto, Fault, rowVars, walVars, tabletVars, clientVars
<1>7. ASSUME NEW a \in Attempts, Reference(a)
      PROVE  TypeOK'
  BY <1>7 DEF Reference, Goto, Fault, rowVars, walVars, tabletVars, clientVars, EnsureReference, Control
<1>8. ASSUME NEW a \in Attempts, ReferenceRefused(a)
      PROVE  TypeOK'
  BY <1>8 DEF ReferenceRefused, Goto, Fault, rowVars, walVars, tabletVars, clientVars, Fail
<1>9. ASSUME NEW a \in Attempts, ReferenceUnknown(a)
      PROVE  TypeOK'
  BY <1>9 DEF ReferenceUnknown, Goto, Fault, rowVars, walVars, tabletVars, clientVars, Fail, Control
<1>10. ASSUME NEW a \in Attempts, AppendFrame(a)
      PROVE  TypeOK'
  <2>. DEFINE rec == [op |-> request[a], seq |-> nextSeq[a], by |-> a]
  <2>1. rec \in Record /\ logs' \in [Wals -> Seq(Record)]
    BY <1>10, RecordIs DEF AppendFrame
  <2>. HIDE DEF rec
  <2>2. /\ ops' = [ops EXCEPT ![a] = ops[a] \cup {rec}] /\ nextSeq' = [nextSeq EXCEPT ![a] = nextSeq[a] + 1]
        /\ Goto(a, "verify")
        /\ UNCHANGED <<rowVars, stored, nextWal, dead, host, opening, request, current, applied, active,
                       snapshot, clientVars, faults>>
    BY <1>10 DEF AppendFrame, rec
  <2>. QED  BY <2>1, <2>2 DEF Goto, rowVars, clientVars
<1>11. ASSUME NEW a \in Attempts, AppendFails(a)
      PROVE  TypeOK'
  BY <1>11 DEF AppendFails, Goto, Fault, rowVars, walVars, tabletVars, clientVars, Fail
<1>12. ASSUME NEW a \in Attempts, AppendAmbiguous(a)
      PROVE  TypeOK'
  <2>1. logs' \in [Wals -> Seq(Record)]
    BY <1>12, RecordIs DEF AppendAmbiguous
  <2>2. /\ faults' \in 0..MaxFaults /\ Fail(a)
        /\ UNCHANGED <<rowVars, stored, nextWal, dead, host, opening, tabletVars, clientVars>>
    BY <1>12 DEF AppendAmbiguous, Fault
  <2>. QED  BY <2>1, <2>2 DEF Fail, Goto, rowVars, tabletVars, clientVars
<1>13. ASSUME NEW a \in Attempts, ApplyBatch(a)
      PROVE  TypeOK'
  <2>1. request[a] \in Ops
    BY <1>13 DEF ApplyBatch, Control, Committing
  <2>2. /\ pc' \in [Attempts -> Steps] /\ request' \in [Attempts -> Ops \cup {NoOp}] /\ acked' \subseteq Ops
    BY <1>13, <2>1, FinishTypes DEF ApplyBatch
  <2>. QED  BY <1>13, <2>1, <2>2 DEF ApplyBatch, rowVars, walVars
<1>14. ASSUME NEW a \in Attempts, ApplyRefused(a)
      PROVE  TypeOK'
  <2>1. faults' \in 0..MaxFaults
    BY <1>14 DEF ApplyRefused, Fault
  <2>. QED  BY <1>14, <2>1 DEF ApplyRefused, Fail, Goto, rowVars, walVars, tabletVars, clientVars
<1>15. ASSUME NEW a \in Attempts, RequestFlush(a)
      PROVE  TypeOK'
  BY <1>15 DEF RequestFlush, Goto, Fault, rowVars, walVars, tabletVars, clientVars
<1>16. ASSUME NEW a \in Attempts, Seal(a)
      PROVE  TypeOK'
  BY <1>16 DEF Seal, Goto, Fault, rowVars, walVars, tabletVars, clientVars, Phases, NoWal
<1>17. ASSUME NEW a \in Attempts, Resume(a)
      PROVE  TypeOK'
  BY <1>17 DEF Resume, Goto, rowVars, walVars, tabletVars, clientVars
<1>18. ASSUME NEW a \in Attempts, Publish(a)
      PROVE  TypeOK'
  <2>1. snapshot' \in [Attempts -> Snapshots]
    BY <1>18, PublishIs DEF Snapshots
  <2>. QED  BY <1>18, <2>1, PublishIs DEF Snapshots, Goto, rowVars, walVars, tabletVars, clientVars
<1>19. ASSUME NEW a \in Attempts, VerifyCommit(a)
      PROVE  TypeOK'
  BY <1>19 DEF VerifyCommit, Goto, Fault, rowVars, walVars, tabletVars, clientVars
<1>20. ASSUME NEW a \in Attempts, CommitOutput(a)
      PROVE  TypeOK'
  <2>1. snapshot' \in [Attempts -> Snapshots]
    BY <1>20, CommitOutputIs DEF Snapshots
  <2>2. Output(a) \in File
    BY DEF Output, File
  <2>3. /\ files' \subseteq File /\ refs' \subseteq Wals
        /\ location' = location /\ future' = future
    BY <1>20, <2>2, CommitOutputIs DEF CommitFile
  <2>. QED  BY <1>20, <2>1, <2>3, CommitOutputIs DEF Snapshots, Goto, walVars, clientVars
<1>21. ASSUME NEW a \in Attempts, CommitUnknown(a)
      PROVE  TypeOK'
  BY <1>21 DEF CommitUnknown, Goto, Fault, rowVars, walVars, tabletVars, clientVars, CommitFile, Output, File
<1>22. ASSUME NEW a \in Attempts, CommitReconciled(a)
      PROVE  TypeOK'
  <2>1. snapshot' \in [Attempts -> Snapshots]
    BY <1>22, CommitReconciledIs DEF Snapshots
  <2>. QED  BY <1>22, <2>1, CommitReconciledIs DEF Snapshots, Goto, rowVars, walVars, tabletVars, clientVars
<1>23. ASSUME NEW a \in Attempts, Complete(a)
      PROVE  TypeOK'
  <2>1. snapshot' \in [Attempts -> Snapshots]
    BY <1>23 DEF Complete, Snapshots, NoSnapshot, Phases
  <2>2. FlushDone(a) /\ UNCHANGED <<rowVars, walVars, current, nextSeq, ops, applied, active, faults>>
    BY <1>23 DEF Complete
  <2>3. /\ pc' \in [Attempts -> Steps] /\ request' \in [Attempts -> Ops \cup {NoOp}] /\ acked' \subseteq Ops
        /\ opening' \subseteq Attempts /\ UNCHANGED <<dead, host, session>>
    BY <2>2, FlushDoneTypes
  <2>. QED  BY <2>1, <2>2, <2>3 DEF Snapshots, rowVars, walVars
<1>24. ASSUME NEW a \in Attempts, Close(a)
      PROVE  TypeOK'
  BY <1>24 DEF Close, Goto, Fault, rowVars, walVars, tabletVars, clientVars, ReleaseLocation
<1>25. ASSUME NEW a \in Attempts, Assign(a)
      PROVE  TypeOK'
  BY <1>25 DEF Assign, Goto, Fault, rowVars, walVars, tabletVars, clientVars, ChooseServer
<1>26. ASSUME NEW a \in Attempts, Unload(a)
      PROVE  TypeOK'
  BY <1>26 DEF Unload, Goto, Fault, rowVars, walVars, tabletVars, clientVars
<1>27. ASSUME NEW a \in Attempts, LoseManager(a)
      PROVE  TypeOK'
  BY <1>27 DEF LoseManager, Goto, Fault, rowVars, walVars, tabletVars, clientVars
<1>28. ASSUME NEW a \in Attempts, RegainManager(a)
      PROVE  TypeOK'
  BY <1>28 DEF RegainManager, Goto, Fault, rowVars, walVars, tabletVars, clientVars
<1>29. ASSUME NEW a \in Attempts, NEW o \in Ops, StartCommit(a, o)
      PROVE  TypeOK'
  <2>1. (logs' = logs /\ stored' = stored /\ nextWal' = nextWal /\ current' = current) \/ CreateWal(a)
    BY <1>29 DEF StartCommit, walVars
  <2>2. /\ logs' = logs /\ stored' \subseteq Wals /\ nextWal' \in Nat \ {0}
        /\ current' \in [Attempts -> Wals \cup {NoWal}]
    BY <2>1 DEF CreateWal
  <2>. QED  BY <1>29, <2>2 DEF StartCommit, Accepts, Goto, rowVars
<1>30. ASSUME NEW a \in Attempts, NEW o \in Ops, RepeatCommit(a, o)
      PROVE  TypeOK'
  <2>1. /\ pc' \in [Attempts -> Steps] /\ request' \in [Attempts -> Ops \cup {NoOp}] /\ acked' \subseteq Ops
    BY <1>30, FinishTypes DEF RepeatCommit
  <2>2. applied' \in [Attempts -> SUBSET Ops] /\ active' \in [Attempts -> SUBSET Ops]
    BY <1>30 DEF RepeatCommit
  <2>. QED  BY <1>30, <2>1, <2>2 DEF RepeatCommit, Accepts, rowVars, walVars
<1>31. ASSUME NEW a \in Attempts, NEW w \in Wals, Retire(a, w)
      PROVE  TypeOK'
  BY <1>31 DEF Retire, Goto, Fault, rowVars, walVars, tabletVars, clientVars, RemoveReference
<1>32. ASSUME NEW a \in Attempts, FlushBreaks(a)
      PROVE  TypeOK'
  BY <1>32 DEF FlushBreaks, FlushFails, OpenFails, ReleaseLocation, Fail, Goto, rowVars, walVars, tabletVars, clientVars
<1>33. ASSUME NEW lock \in Locks, LoseLock(lock)
      PROVE  TypeOK'
  BY <1>33 DEF LoseLock, Goto, Fault, rowVars, walVars, tabletVars, clientVars
<1>34. ASSUME NEW lock \in Locks, NoticeLoss(lock)
      PROVE  TypeOK'
  BY <1>34 DEF NoticeLoss, Goto, Fault, rowVars, walVars, tabletVars, clientVars, Drop
<1>35. ASSUME NEW lock \in Locks, Crash(lock)
      PROVE  TypeOK'
  BY <1>35 DEF Crash, Goto, Fault, rowVars, walVars, tabletVars, clientVars, Drop
<1>36. ASSUME UNCHANGED vars
      PROVE  TypeOK'
  BY <1>36 DEF vars, rowVars, walVars, tabletVars, clientVars
<1>. QED  BY <1>1, <1>2, <1>3, <1>4, <1>5, <1>6, <1>7, <1>8, <1>9, <1>10, <1>11, <1>12, <1>13, <1>14, <1>15,
             <1>16, <1>17, <1>18, <1>19, <1>20, <1>21, <1>22, <1>23, <1>24, <1>25, <1>26, <1>27, <1>28,
             <1>29, <1>30, <1>31, <1>32, <1>33, <1>34, <1>35, <1>36, FlushErrors
  DEF Next, Step

----------------------------------------------------------------------------
(* A step is a step of one attempt, or an event of a lock *)

Acts(a) ==
    \/ Step(a) \/ Assign(a) \/ RequestFlush(a) \/ RegainManager(a)
    \/ \E o \in Ops : StartCommit(a, o) \/ RepeatCommit(a, o)
    \/ Unload(a) \/ LoseManager(a)
    \/ ClaimUnknown(a) \/ ReferenceUnknown(a) \/ AppendAmbiguous(a) \/ CommitUnknown(a) \/ FlushFault(a)

\* What an attempt keeps in memory, and what its Host says of it, is untouched.
Memory(b) ==
    /\ current'[b] = current[b] /\ nextSeq'[b] = nextSeq[b] /\ ops'[b] = ops[b] /\ applied'[b] = applied[b]
    /\ active'[b] = active[b] /\ snapshot'[b] = snapshot[b] /\ request'[b] = request[b]
Same(b) == Memory(b) /\ host'[b] = host[b] /\ pc'[b] = pc[b] /\ (b \in opening' <=> b \in opening)

\* Every step is one of these.
LEMMA Actors ==
  ASSUME [Next]_vars
  PROVE  \/ \E a \in Attempts : Acts(a)
         \/ \E lock \in Locks : LoseLock(lock) \/ NoticeLoss(lock) \/ Crash(lock)
         \/ UNCHANGED vars
  BY DEF Next, Acts

\* A step of one attempt leaves the others alone.
LEMMA Alone ==
  ASSUME TypeInv, NEW self \in Attempts, Acts(self)
  PROVE  \A b \in Attempts \ {self} : Same(b)
<1>. USE DEF TypeInv, TypeOK, Same, Memory
<1>1. ASSUME NEW a \in Attempts, ClaimRow(a)
      PROVE  \A b \in Attempts \ {a} : Same(b)
  BY <1>1 DEF ClaimRow, Goto, Fault, Fail, walVars, tabletVars, clientVars
<1>2. ASSUME NEW a \in Attempts, ClaimRefused(a)
      PROVE  \A b \in Attempts \ {a} : Same(b)
  BY <1>2 DEF ClaimRefused, Goto, Fault, Fail, walVars, tabletVars, clientVars
<1>3. ASSUME NEW a \in Attempts, ClaimUnknown(a)
      PROVE  \A b \in Attempts \ {a} : Same(b)
  BY <1>3 DEF ClaimUnknown, Goto, Fault, Fail, walVars, tabletVars, clientVars
<1>4. ASSUME NEW a \in Attempts, Recover(a)
      PROVE  \A b \in Attempts \ {a} : Same(b)
  BY <1>4 DEF Recover, Goto, Fault, Fail, walVars, tabletVars, clientVars
<1>5. ASSUME NEW a \in Attempts, RecoverFails(a)
      PROVE  \A b \in Attempts \ {a} : Same(b)
  BY <1>5 DEF RecoverFails, Goto, Fault, Fail, walVars, tabletVars, clientVars, OpenFails
<1>6. ASSUME NEW a \in Attempts, LoadComplete(a)
      PROVE  \A b \in Attempts \ {a} : Same(b)
  BY <1>6 DEF LoadComplete, Goto, Fault, Fail, walVars, tabletVars, clientVars
<1>7. ASSUME NEW a \in Attempts, Reference(a)
      PROVE  \A b \in Attempts \ {a} : Same(b)
  BY <1>7 DEF Reference, Goto, Fault, Fail, walVars, tabletVars, clientVars
<1>8. ASSUME NEW a \in Attempts, ReferenceRefused(a)
      PROVE  \A b \in Attempts \ {a} : Same(b)
  BY <1>8 DEF ReferenceRefused, Goto, Fault, Fail, walVars, tabletVars, clientVars
<1>9. ASSUME NEW a \in Attempts, ReferenceUnknown(a)
      PROVE  \A b \in Attempts \ {a} : Same(b)
  BY <1>9 DEF ReferenceUnknown, Goto, Fault, Fail, walVars, tabletVars, clientVars
<1>10. ASSUME NEW a \in Attempts, AppendFrame(a)
      PROVE  \A b \in Attempts \ {a} : Same(b)
  BY <1>10 DEF AppendFrame, Goto, Fault, Fail, walVars, tabletVars, clientVars
<1>11. ASSUME NEW a \in Attempts, AppendFails(a)
      PROVE  \A b \in Attempts \ {a} : Same(b)
  BY <1>11 DEF AppendFails, Goto, Fault, Fail, walVars, tabletVars, clientVars
<1>12. ASSUME NEW a \in Attempts, AppendAmbiguous(a)
      PROVE  \A b \in Attempts \ {a} : Same(b)
  BY <1>12 DEF AppendAmbiguous, Goto, Fault, Fail, walVars, tabletVars, clientVars
<1>13. ASSUME NEW a \in Attempts, ApplyBatch(a)
      PROVE  \A b \in Attempts \ {a} : Same(b)
  BY <1>13 DEF ApplyBatch, Goto, Fault, Fail, walVars, tabletVars, clientVars, Finish
<1>14. ASSUME NEW a \in Attempts, ApplyRefused(a)
      PROVE  \A b \in Attempts \ {a} : Same(b)
  BY <1>14 DEF ApplyRefused, Goto, Fault, Fail, walVars, tabletVars, clientVars
<1>15. ASSUME NEW a \in Attempts, RequestFlush(a)
      PROVE  \A b \in Attempts \ {a} : Same(b)
  BY <1>15 DEF RequestFlush, Goto, Fault, Fail, walVars, tabletVars, clientVars
<1>16. ASSUME NEW a \in Attempts, Seal(a)
      PROVE  \A b \in Attempts \ {a} : Same(b)
  BY <1>16 DEF Seal, Goto, Fault, Fail, walVars, tabletVars, clientVars
<1>17. ASSUME NEW a \in Attempts, Resume(a)
      PROVE  \A b \in Attempts \ {a} : Same(b)
  BY <1>17 DEF Resume, Goto, Fault, Fail, walVars, tabletVars, clientVars
<1>18. ASSUME NEW a \in Attempts, Publish(a)
      PROVE  \A b \in Attempts \ {a} : Same(b)
  BY <1>18, PublishIs DEF Goto, Fault, Fail, walVars, tabletVars, clientVars
<1>19. ASSUME NEW a \in Attempts, VerifyCommit(a)
      PROVE  \A b \in Attempts \ {a} : Same(b)
  BY <1>19 DEF VerifyCommit, Goto, Fault, Fail, walVars, tabletVars, clientVars
<1>20. ASSUME NEW a \in Attempts, CommitOutput(a)
      PROVE  \A b \in Attempts \ {a} : Same(b)
  BY <1>20, CommitOutputIs DEF Goto, Fault, Fail, walVars, tabletVars, clientVars
<1>21. ASSUME NEW a \in Attempts, CommitUnknown(a)
      PROVE  \A b \in Attempts \ {a} : Same(b)
  BY <1>21 DEF CommitUnknown, Goto, Fault, Fail, walVars, tabletVars, clientVars
<1>22. ASSUME NEW a \in Attempts, CommitReconciled(a)
      PROVE  \A b \in Attempts \ {a} : Same(b)
  BY <1>22, CommitReconciledIs DEF Goto, Fault, Fail, walVars, tabletVars, clientVars
<1>23. ASSUME NEW a \in Attempts, Complete(a)
      PROVE  \A b \in Attempts \ {a} : Same(b)
  BY <1>23 DEF Complete, Goto, Fault, Fail, walVars, tabletVars, clientVars, FlushDone
<1>24. ASSUME NEW a \in Attempts, Close(a)
      PROVE  \A b \in Attempts \ {a} : Same(b)
  BY <1>24 DEF Close, Goto, Fault, Fail, walVars, tabletVars, clientVars
<1>25. ASSUME NEW a \in Attempts, Assign(a)
      PROVE  \A b \in Attempts \ {a} : Same(b)
  BY <1>25 DEF Assign, Goto, Fault, Fail, walVars, tabletVars, clientVars
<1>26. ASSUME NEW a \in Attempts, Unload(a)
      PROVE  \A b \in Attempts \ {a} : Same(b)
  BY <1>26 DEF Unload, Goto, Fault, Fail, walVars, tabletVars, clientVars
<1>27. ASSUME NEW a \in Attempts, LoseManager(a)
      PROVE  \A b \in Attempts \ {a} : Same(b)
  BY <1>27 DEF LoseManager, Goto, Fault, Fail, walVars, tabletVars, clientVars
<1>28. ASSUME NEW a \in Attempts, RegainManager(a)
      PROVE  \A b \in Attempts \ {a} : Same(b)
  BY <1>28 DEF RegainManager, Goto, Fault, Fail, walVars, tabletVars, clientVars
<1>29. ASSUME NEW a \in Attempts, NEW o \in Ops, StartCommit(a, o)
      PROVE  \A b \in Attempts \ {a} : Same(b)
  BY <1>29 DEF StartCommit, Goto, Fault, Fail, walVars, tabletVars, clientVars, CreateWal
<1>30. ASSUME NEW a \in Attempts, NEW o \in Ops, RepeatCommit(a, o)
      PROVE  \A b \in Attempts \ {a} : Same(b)
  BY <1>30 DEF RepeatCommit, Goto, Fault, Fail, walVars, tabletVars, clientVars, Finish
<1>31. ASSUME NEW a \in Attempts, NEW w \in Wals, Retire(a, w)
      PROVE  \A b \in Attempts \ {a} : Same(b)
  BY <1>31 DEF Retire, Goto, Fault, Fail, walVars, tabletVars, clientVars
<1>32. ASSUME NEW a \in Attempts, FlushBreaks(a)
      PROVE  \A b \in Attempts \ {a} : Same(b)
  BY <1>32 DEF FlushBreaks, FlushFails, OpenFails, Goto, Fault, Fail, walVars, tabletVars, clientVars
<1>. QED  BY <1>1, <1>2, <1>3, <1>4, <1>5, <1>6, <1>7, <1>8, <1>9, <1>10, <1>11, <1>12, <1>13, <1>14, <1>15,
             <1>16, <1>17, <1>18, <1>19, <1>20, <1>21, <1>22, <1>23, <1>24, <1>25, <1>26, <1>27, <1>28,
             <1>29, <1>30, <1>31, <1>32, FlushErrors DEF Acts, Step

\* An attempt that is left alone keeps its place.
LEMMA ControlSame ==
  ASSUME NEW b \in Attempts, Same(b), Control(b), Phased(b)
  PROVE  Control(b)' /\ Phased(b)'
  BY DEF Same, Memory, Control, Phased, Blank, NoWal, NoSnapshot

\* The acting attempt goes where its call may be.
LEMMA ControlActs ==
  ASSUME TypeInv, NEW self \in Attempts, Acts(self)
  PROVE  Control(self)' /\ Phased(self)'
<1>1. TypeOK'
  BY TypesKept DEF Acts, Next
<1>2. \A a \in Attempts : Control(a) /\ Phased(a)
  BY DEF TypeInv, ControlInv
<1>. USE DEF TypeInv, TypeOK, Control, Phased, Blank, Committing, Flushing, NoWal
<1>3. ASSUME NEW a \in Attempts, ClaimRow(a)
      PROVE  Control(a)' /\ Phased(a)'
  BY <1>3, <1>2 DEF ClaimRow, Goto, Fault, Fail, walVars, tabletVars, clientVars
<1>4. ASSUME NEW a \in Attempts, ClaimRefused(a)
      PROVE  Control(a)' /\ Phased(a)'
  BY <1>4, <1>2 DEF ClaimRefused, Goto, Fault, Fail, walVars, tabletVars, clientVars
<1>5. ASSUME NEW a \in Attempts, ClaimUnknown(a)
      PROVE  Control(a)' /\ Phased(a)'
  BY <1>5, <1>2 DEF ClaimUnknown, Goto, Fault, Fail, walVars, tabletVars, clientVars
<1>6. ASSUME NEW a \in Attempts, Recover(a)
      PROVE  Control(a)' /\ Phased(a)'
  BY <1>6, <1>2 DEF Recover, Goto, Fault, Fail, walVars, tabletVars, clientVars
<1>7. ASSUME NEW a \in Attempts, RecoverFails(a)
      PROVE  Control(a)' /\ Phased(a)'
  BY <1>7, <1>2 DEF RecoverFails, Goto, Fault, Fail, walVars, tabletVars, clientVars, OpenFails
<1>8. ASSUME NEW a \in Attempts, LoadComplete(a)
      PROVE  Control(a)' /\ Phased(a)'
  BY <1>8, <1>2 DEF LoadComplete, Goto, Fault, Fail, walVars, tabletVars, clientVars
<1>9. ASSUME NEW a \in Attempts, Reference(a)
      PROVE  Control(a)' /\ Phased(a)'
  BY <1>9, <1>2 DEF Reference, Goto, Fault, Fail, walVars, tabletVars, clientVars
<1>10. ASSUME NEW a \in Attempts, ReferenceRefused(a)
      PROVE  Control(a)' /\ Phased(a)'
  BY <1>10, <1>2 DEF ReferenceRefused, Goto, Fault, Fail, walVars, tabletVars, clientVars
<1>11. ASSUME NEW a \in Attempts, ReferenceUnknown(a)
      PROVE  Control(a)' /\ Phased(a)'
  BY <1>11, <1>2 DEF ReferenceUnknown, Goto, Fault, Fail, walVars, tabletVars, clientVars
<1>12. ASSUME NEW a \in Attempts, AppendFrame(a)
      PROVE  Control(a)' /\ Phased(a)'
  BY <1>12, <1>2 DEF AppendFrame, Goto, Fault, Fail, walVars, tabletVars, clientVars, Logged
<1>13. ASSUME NEW a \in Attempts, AppendFails(a)
      PROVE  Control(a)' /\ Phased(a)'
  BY <1>13, <1>2 DEF AppendFails, Goto, Fault, Fail, walVars, tabletVars, clientVars
<1>14. ASSUME NEW a \in Attempts, AppendAmbiguous(a)
      PROVE  Control(a)' /\ Phased(a)'
  BY <1>14, <1>2 DEF AppendAmbiguous, Goto, Fault, Fail, walVars, tabletVars, clientVars, Logged
<1>15. ASSUME NEW a \in Attempts, ApplyBatch(a)
      PROVE  Control(a)' /\ Phased(a)'
  BY <1>15, <1>2 DEF ApplyBatch, Goto, Fault, Fail, walVars, tabletVars, clientVars, Finish
<1>16. ASSUME NEW a \in Attempts, ApplyRefused(a)
      PROVE  Control(a)' /\ Phased(a)'
  BY <1>16, <1>2 DEF ApplyRefused, Goto, Fault, Fail, walVars, tabletVars, clientVars
<1>17. ASSUME NEW a \in Attempts, RequestFlush(a)
      PROVE  Control(a)' /\ Phased(a)'
  BY <1>17, <1>2 DEF RequestFlush, Goto, Fault, Fail, walVars, tabletVars, clientVars
<1>18. ASSUME NEW a \in Attempts, Seal(a)
      PROVE  Control(a)' /\ Phased(a)'
  BY <1>18, <1>2 DEF Seal, Goto, Fault, Fail, walVars, tabletVars, clientVars, NoSnapshot
<1>19. ASSUME NEW a \in Attempts, Resume(a)
      PROVE  Control(a)' /\ Phased(a)'
  BY <1>19, <1>2 DEF Resume, Goto, Fault, Fail, walVars, tabletVars, clientVars
<1>20. ASSUME NEW a \in Attempts, Publish(a)
      PROVE  Control(a)' /\ Phased(a)'
  BY <1>20, <1>2, PublishIs DEF Goto, Fault, Fail, walVars, tabletVars, clientVars
<1>21. ASSUME NEW a \in Attempts, VerifyCommit(a)
      PROVE  Control(a)' /\ Phased(a)'
  BY <1>21, <1>2 DEF VerifyCommit, Goto, Fault, Fail, walVars, tabletVars, clientVars
<1>22. ASSUME NEW a \in Attempts, CommitOutput(a)
      PROVE  Control(a)' /\ Phased(a)'
  BY <1>22, <1>2, CommitOutputIs DEF Goto, Fault, Fail, walVars, tabletVars, clientVars
<1>23. ASSUME NEW a \in Attempts, CommitUnknown(a)
      PROVE  Control(a)' /\ Phased(a)'
  BY <1>23, <1>2 DEF CommitUnknown, Goto, Fault, Fail, walVars, tabletVars, clientVars
<1>24. ASSUME NEW a \in Attempts, CommitReconciled(a)
      PROVE  Control(a)' /\ Phased(a)'
  BY <1>24, <1>2, CommitReconciledIs DEF Goto, Fault, Fail, walVars, tabletVars, clientVars
<1>25. ASSUME NEW a \in Attempts, Complete(a)
      PROVE  Control(a)' /\ Phased(a)'
  BY <1>25, <1>2 DEF Complete, Goto, Fault, Fail, walVars, tabletVars, clientVars, FlushDone, NoSnapshot
<1>26. ASSUME NEW a \in Attempts, Close(a)
      PROVE  Control(a)' /\ Phased(a)'
  BY <1>26, <1>2 DEF Close, Goto, Fault, Fail, walVars, tabletVars, clientVars
<1>27. ASSUME NEW a \in Attempts, Assign(a)
      PROVE  Control(a)' /\ Phased(a)'
  BY <1>27, <1>2 DEF Assign, Goto, Fault, Fail, walVars, tabletVars, clientVars
<1>28. ASSUME NEW a \in Attempts, Unload(a)
      PROVE  Control(a)' /\ Phased(a)'
  BY <1>28, <1>2 DEF Unload, Goto, Fault, Fail, walVars, tabletVars, clientVars
<1>29. ASSUME NEW a \in Attempts, LoseManager(a)
      PROVE  Control(a)' /\ Phased(a)'
  BY <1>29, <1>2 DEF LoseManager, Goto, Fault, Fail, walVars, tabletVars, clientVars
<1>30. ASSUME NEW a \in Attempts, RegainManager(a)
      PROVE  Control(a)' /\ Phased(a)'
  BY <1>30, <1>2 DEF RegainManager, Goto, Fault, Fail, walVars, tabletVars, clientVars
<1>31. ASSUME NEW a \in Attempts, NEW o \in Ops, StartCommit(a, o)
      PROVE  Control(a)' /\ Phased(a)'
  <2>1. current'[a] # NoWal
    BY <1>31 DEF StartCommit, CreateWal, Wals
  <2>2. o # NoOp
    BY TabletAssumption
  <2>. QED  BY <1>31, <1>2, <2>1, <2>2 DEF StartCommit, Accepts, VerifyHosted, Goto
<1>32. ASSUME NEW a \in Attempts, NEW o \in Ops, RepeatCommit(a, o)
      PROVE  Control(a)' /\ Phased(a)'
  BY <1>32, <1>2 DEF RepeatCommit, Goto, Fault, Fail, walVars, tabletVars, clientVars, Finish, Accepts, VerifyHosted
<1>33. ASSUME NEW a \in Attempts, NEW w \in Wals, Retire(a, w)
      PROVE  Control(a)' /\ Phased(a)'
  BY <1>33, <1>2 DEF Retire, Goto, Fault, Fail, walVars, tabletVars, clientVars
<1>34. ASSUME NEW a \in Attempts, FlushBreaks(a)
      PROVE  Control(a)' /\ Phased(a)'
  BY <1>34, <1>2 DEF FlushBreaks, FlushFails, OpenFails, Goto, Fault, Fail, walVars, tabletVars, clientVars
<1>. QED  BY <1>3, <1>4, <1>5, <1>6, <1>7, <1>8, <1>9, <1>10, <1>11, <1>12, <1>13, <1>14, <1>15, <1>16,
             <1>17, <1>18, <1>19, <1>20, <1>21, <1>22, <1>23, <1>24, <1>25, <1>26, <1>27, <1>28, <1>29,
             <1>30, <1>31, <1>32, <1>33, <1>34, FlushErrors DEF Acts, Step

\* A lock event takes attempts to their end, and nothing else.
LEMMA LockEvents ==
  ASSUME TypeInv, NEW lock \in Locks, LoseLock(lock) \/ NoticeLoss(lock) \/ Crash(lock)
  PROVE  \A b \in Attempts :
            /\ Memory(b) /\ opening' = opening
            /\ pc'[b] = pc[b] \/ (pc[b] # "none" /\ pc'[b] = "gone" /\ host'[b] = "dropped")
            /\ host'[b] = host[b] \/ (host[b] # "none" /\ host'[b] = "dropped")
<1>. SUFFICES ASSUME NEW b \in Attempts
              PROVE  /\ Memory(b) /\ opening' = opening
                     /\ pc'[b] = pc[b] \/ (pc[b] # "none" /\ pc'[b] = "gone" /\ host'[b] = "dropped")
                     /\ host'[b] = host[b] \/ (host[b] # "none" /\ host'[b] = "dropped")
  OBVIOUS
<1>1. host[b] = "none" <=> pc[b] = "none"
  BY DEF TypeInv, ControlInv, Control
<1>2. CASE LoseLock(lock)
  BY <1>2 DEF LoseLock, Memory, tabletVars
<1>3. CASE NoticeLoss(lock)
  BY <1>3 DEF NoticeLoss, Drop, Memory, tabletVars
<1>4. CASE Crash(lock)
  <2>1. /\ pc'[b] = IF LockOf[b] = lock /\ pc[b] # "none" THEN "gone" ELSE pc[b]
        /\ host'[b] = IF LockOf[b] = lock /\ host[b] # "none" THEN "dropped" ELSE host[b]
        /\ Memory(b) /\ opening' = opening
    BY <1>4 DEF Crash, Drop, Memory, tabletVars
  <2>. QED  BY <1>1, <2>1
<1>. QED  BY <1>2, <1>3, <1>4

\* Calls are always where they may be.
LEMMA ControlKept == TypeInv /\ [Next]_vars => ControlInv'
<1>. SUFFICES ASSUME TypeInv, [Next]_vars, NEW b \in Attempts PROVE Control(b)' /\ Phased(b)'
  BY DEF ControlInv
<1>1. Control(b) /\ Phased(b) /\ TypeOK
  BY DEF TypeInv, ControlInv
<1>2. ASSUME NEW a \in Attempts, Acts(a) PROVE Control(b)' /\ Phased(b)'
  <2>1. CASE a = b
    BY <1>2, <2>1, ControlActs
  <2>2. CASE a # b
    BY <1>1, <1>2, <2>2, Alone, ControlSame
  <2>. QED  BY <2>1, <2>2
<1>3. ASSUME NEW lock \in Locks, LoseLock(lock) \/ NoticeLoss(lock) \/ Crash(lock)
      PROVE  Control(b)' /\ Phased(b)'
  <2>1. /\ Memory(b) /\ opening' = opening
        /\ pc'[b] = pc[b] \/ (pc[b] # "none" /\ pc'[b] = "gone" /\ host'[b] = "dropped")
        /\ host'[b] = host[b] \/ (host[b] # "none" /\ host'[b] = "dropped")
    BY <1>1, <1>3, LockEvents
  <2>. QED  BY <1>1, <2>1 DEF Memory, Control, Phased, Blank, Committing, Flushing, NoWal, NoSnapshot
<1>4. CASE UNCHANGED vars
  <2>1. Same(b)
    BY <1>4 DEF vars, tabletVars, Same, Memory
  <2>. QED  BY <1>1, <2>1, ControlSame
<1>. QED  BY <1>2, <1>3, <1>4, Actors

\* The WALs grow by one record or not at all.
LEMMA LogsGrow ==
  ASSUME [Next]_vars
  PROVE  logs' = logs \/ \E a \in Attempts : Logged(a) /\ (AppendFrame(a) \/ AppendAmbiguous(a))
<1>. SUFFICES ASSUME logs' # logs, \A a \in Attempts : ~AppendFrame(a) /\ ~AppendAmbiguous(a)
              PROVE  FALSE
  BY DEF AppendFrame, AppendAmbiguous
<1>1. \A a \in Attempts : ~Step(a)
  BY DEF Step, ClaimRow, ClaimRefused, Recover, RecoverFails, OpenFails, LoadComplete, Reference, ReferenceRefused,
         AppendFails, ApplyBatch, ApplyRefused, Seal, Resume, RunRefused, Publish, SnapshotInvalid, VerifyCommit,
         VerifyCommitRefused, CommitOutput, CommitReconciled, CommitRejected, AnswerLost, Retire, RetireRefused,
         Complete, Close, FlushFails, walVars
<1>. QED  BY <1>1 DEF Next, vars, Assign, RequestFlush, RegainManager, StartCommit, RepeatCommit, CreateWal,
             Unload,
         LoseManager, ClaimUnknown, ReferenceUnknown, CommitUnknown, FlushFault, FlushFails, OpenFails,
         LoseLock, NoticeLoss, Crash, walVars

\* A record that is appended comes last.
LEMMA Appended ==
  ASSUME TypeInv, NEW a \in Attempts, Logged(a)
  PROVE  \E rec \in Record, w \in Wals :
            /\ rec = [op |-> request[a], seq |-> nextSeq[a], by |-> a] /\ w = current[a]
            /\ Len(logs[w]) \in Nat /\ Len(logs'[w]) = Len(logs[w]) + 1
            /\ logs'[w][Len(logs[w]) + 1] = rec
            /\ \A k \in 1..Len(logs[w]) : logs'[w][k] = logs[w][k]
            /\ \A v \in Wals \ {w} : logs'[v] = logs[v]
<1>. DEFINE w == current[a]
<1>1. PICK rec \in Record : rec = [op |-> request[a], seq |-> nextSeq[a], by |-> a]
  BY RecordIs
<1>2. w \in Wals /\ logs \in [Wals -> Seq(Record)] /\ logs' = [logs EXCEPT ![w] = Append(logs[w], rec)]
  BY <1>1, RecordIs DEF TypeInv, TypeOK
<1>3. logs[w] \in Seq(Record) /\ logs'[w] = Append(logs[w], rec) /\ \A v \in Wals \ {w} : logs'[v] = logs[v]
  BY <1>2
<1>4. /\ Len(logs[w]) \in Nat /\ Len(logs'[w]) = Len(logs[w]) + 1 /\ logs'[w][Len(logs[w]) + 1] = rec
      /\ \A k \in 1..Len(logs[w]) : logs'[w][k] = logs[w][k]
  BY <1>3
<1>. QED  BY <1>1, <1>2, <1>3, <1>4

\* The numbers stay bounded.
LEMMA BoundedKept == TypeInv /\ [Next]_vars => Bounded'
<1>. SUFFICES ASSUME TypeInv, [Next]_vars PROVE Bounded'
  OBVIOUS
<1>1. PICK n \in Nat : \A w \in Wals : \A k \in 1..Len(logs[w]) : logs[w][k].seq <= n
  BY DEF TypeInv, Bounded
<1>2. CASE logs' = logs
  BY <1>1, <1>2 DEF Bounded
<1>3. ASSUME NEW a \in Attempts, Logged(a) PROVE Bounded'
  <2>1. PICK rec \in Record, v \in Wals :
            /\ Len(logs[v]) \in Nat /\ Len(logs'[v]) = Len(logs[v]) + 1
            /\ logs'[v][Len(logs[v]) + 1] = rec
            /\ \A k \in 1..Len(logs[v]) : logs'[v][k] = logs[v][k]
            /\ \A u \in Wals \ {v} : logs'[u] = logs[u]
    BY <1>3, Appended
  <2>3. PICK m \in Nat : m >= n /\ m >= rec.seq
    BY DEF Record
  <2>4. \A w \in Wals : \A k \in 1..Len(logs'[w]) : logs'[w][k].seq <= m
    <3>. SUFFICES ASSUME NEW w \in Wals, NEW k \in 1..Len(logs'[w]) PROVE logs'[w][k].seq <= m
      OBVIOUS
    <3>1. CASE logs'[w][k] = rec
      BY <2>3, <3>1
    <3>2. CASE k \in 1..Len(logs[w]) /\ logs'[w][k] = logs[w][k]
      <4>1. logs[w] \in Seq(Record)
        BY DEF TypeInv, TypeOK
      <4>2. logs[w][k] \in Record
        BY <3>2, <4>1
      <4>3. logs[w][k].seq <= n /\ logs[w][k].seq \in Nat
        BY <1>1, <3>2, <4>2 DEF Record
      <4>. QED  BY <2>3, <3>2, <4>3
    <3>3. logs'[w][k] = rec \/ (k \in 1..Len(logs[w]) /\ logs'[w][k] = logs[w][k])
      BY <2>1
    <3>. QED  BY <3>1, <3>2, <3>3
  <2>. QED  BY <2>4 DEF Bounded
<1>. QED  BY <1>2, <1>3, LogsGrow

\* Nothing has begun at first.
LEMMA InitTypes == Init => TypeInv
<1>. SUFFICES ASSUME Init PROVE TypeInv
  OBVIOUS
<1>1. TypeOK
  <2>1. snapshot \in [Attempts -> Snapshots]
    BY DEF Init, NoSnapshot, Snapshots, Phases
  <2>2. 0 \in 0..MaxFaults
    BY TabletAssumption
  <2>. QED  BY <2>1, <2>2, TabletAssumption DEF Init, RowInit, TypeOK, Snapshots, HostStates, Steps
<1>2. Bounded
  <2>1. PICK z \in Nat : z = 0
    OBVIOUS
  <2>2. \A w \in Wals : Len(logs[w]) = 0
    BY DEF Init
  <2>3. \A w \in Wals : \A k \in 1..Len(logs[w]) : logs[w][k].seq <= z
    BY <2>2
  <2>. QED  BY <2>3 DEF Bounded
<1>3. ControlInv
  BY DEF Init, ControlInv, Control, Phased, Blank, Committing, Flushing, NoSnapshot
<1>. QED  BY <1>1, <1>2, <1>3 DEF TypeInv

\* The types, the place of every call and the phase of every flush.
THEOREM Types == Spec => []TypeInv
<1>1. TypeInv /\ [Next]_vars => TypeInv'
  BY TypesKept, BoundedKept, ControlKept DEF TypeInv
<1>. QED  BY <1>1, InitTypes, PTL DEF Spec

\* Whatever fails, the row, the WALs, the files and every server's tablet keep their
\* types.
THEOREM TypeCorrect == Spec => []TypeOK
<1>1. TypeInv => TypeOK
  BY DEF TypeInv
<1>. QED  BY <1>1, Types, PTL

----------------------------------------------------------------------------
(* Ownership of the row *)

\* An attempt acts while it is live, or when it is assigned; one that drops out is over,
\* and only without its manager it is suspended.
LEMMA Moves ==
  ASSUME TypeInv, NEW self \in Attempts, Acts(self)
  PROVE  /\ dead' = dead /\ (Assign(self) \/ Live(self))
         /\ host'[self] = "dropped" => pc'[self] = "gone" \/ host[self] = "dropped"
         /\ host'[self] = "suspended" => host[self] = "suspended" \/ "manager" \in Faults
<1>1. \A a \in Attempts : Control(a)
  BY DEF TypeInv, ControlInv
<1>. USE <1>1 DEF TypeInv, TypeOK, Live, Control, Flushing
<1>2. ASSUME NEW a \in Attempts, ClaimRow(a)
      PROVE  /\ dead' = dead /\ (Assign(a) \/ Live(a))
             /\ host'[a] = "dropped" => pc'[a] = "gone" \/ host[a] = "dropped"
             /\ host'[a] = "suspended" => host[a] = "suspended" \/ "manager" \in Faults
  BY <1>2 DEF ClaimRow, Goto, Fault
<1>3. ASSUME NEW a \in Attempts, ClaimRefused(a)
      PROVE  /\ dead' = dead /\ (Assign(a) \/ Live(a))
             /\ host'[a] = "dropped" => pc'[a] = "gone" \/ host[a] = "dropped"
             /\ host'[a] = "suspended" => host[a] = "suspended" \/ "manager" \in Faults
  BY <1>3 DEF ClaimRefused, Goto, Fault
<1>4. ASSUME NEW a \in Attempts, ClaimUnknown(a)
      PROVE  /\ dead' = dead /\ (Assign(a) \/ Live(a))
             /\ host'[a] = "dropped" => pc'[a] = "gone" \/ host[a] = "dropped"
             /\ host'[a] = "suspended" => host[a] = "suspended" \/ "manager" \in Faults
  BY <1>4 DEF ClaimUnknown, Goto, Fault
<1>5. ASSUME NEW a \in Attempts, Recover(a)
      PROVE  /\ dead' = dead /\ (Assign(a) \/ Live(a))
             /\ host'[a] = "dropped" => pc'[a] = "gone" \/ host[a] = "dropped"
             /\ host'[a] = "suspended" => host[a] = "suspended" \/ "manager" \in Faults
  BY <1>5 DEF Recover, Goto, Fault
<1>6. ASSUME NEW a \in Attempts, RecoverFails(a)
      PROVE  /\ dead' = dead /\ (Assign(a) \/ Live(a))
             /\ host'[a] = "dropped" => pc'[a] = "gone" \/ host[a] = "dropped"
             /\ host'[a] = "suspended" => host[a] = "suspended" \/ "manager" \in Faults
  BY <1>6 DEF RecoverFails, Goto, Fault, OpenFails
<1>7. ASSUME NEW a \in Attempts, LoadComplete(a)
      PROVE  /\ dead' = dead /\ (Assign(a) \/ Live(a))
             /\ host'[a] = "dropped" => pc'[a] = "gone" \/ host[a] = "dropped"
             /\ host'[a] = "suspended" => host[a] = "suspended" \/ "manager" \in Faults
  BY <1>7 DEF LoadComplete, Goto, Fault
<1>8. ASSUME NEW a \in Attempts, Reference(a)
      PROVE  /\ dead' = dead /\ (Assign(a) \/ Live(a))
             /\ host'[a] = "dropped" => pc'[a] = "gone" \/ host[a] = "dropped"
             /\ host'[a] = "suspended" => host[a] = "suspended" \/ "manager" \in Faults
  BY <1>8 DEF Reference, Goto, Fault
<1>9. ASSUME NEW a \in Attempts, ReferenceRefused(a)
      PROVE  /\ dead' = dead /\ (Assign(a) \/ Live(a))
             /\ host'[a] = "dropped" => pc'[a] = "gone" \/ host[a] = "dropped"
             /\ host'[a] = "suspended" => host[a] = "suspended" \/ "manager" \in Faults
  BY <1>9 DEF ReferenceRefused, Goto, Fault
<1>10. ASSUME NEW a \in Attempts, ReferenceUnknown(a)
      PROVE  /\ dead' = dead /\ (Assign(a) \/ Live(a))
             /\ host'[a] = "dropped" => pc'[a] = "gone" \/ host[a] = "dropped"
             /\ host'[a] = "suspended" => host[a] = "suspended" \/ "manager" \in Faults
  BY <1>10 DEF ReferenceUnknown, Goto, Fault
<1>11. ASSUME NEW a \in Attempts, AppendFrame(a)
      PROVE  /\ dead' = dead /\ (Assign(a) \/ Live(a))
             /\ host'[a] = "dropped" => pc'[a] = "gone" \/ host[a] = "dropped"
             /\ host'[a] = "suspended" => host[a] = "suspended" \/ "manager" \in Faults
  BY <1>11 DEF AppendFrame, Goto, Fault, Logged
<1>12. ASSUME NEW a \in Attempts, AppendFails(a)
      PROVE  /\ dead' = dead /\ (Assign(a) \/ Live(a))
             /\ host'[a] = "dropped" => pc'[a] = "gone" \/ host[a] = "dropped"
             /\ host'[a] = "suspended" => host[a] = "suspended" \/ "manager" \in Faults
  BY <1>12 DEF AppendFails, Goto, Fault
<1>13. ASSUME NEW a \in Attempts, AppendAmbiguous(a)
      PROVE  /\ dead' = dead /\ (Assign(a) \/ Live(a))
             /\ host'[a] = "dropped" => pc'[a] = "gone" \/ host[a] = "dropped"
             /\ host'[a] = "suspended" => host[a] = "suspended" \/ "manager" \in Faults
  BY <1>13 DEF AppendAmbiguous, Goto, Fault, Logged
<1>14. ASSUME NEW a \in Attempts, ApplyBatch(a)
      PROVE  /\ dead' = dead /\ (Assign(a) \/ Live(a))
             /\ host'[a] = "dropped" => pc'[a] = "gone" \/ host[a] = "dropped"
             /\ host'[a] = "suspended" => host[a] = "suspended" \/ "manager" \in Faults
  BY <1>14 DEF ApplyBatch, Goto, Fault
<1>15. ASSUME NEW a \in Attempts, ApplyRefused(a)
      PROVE  /\ dead' = dead /\ (Assign(a) \/ Live(a))
             /\ host'[a] = "dropped" => pc'[a] = "gone" \/ host[a] = "dropped"
             /\ host'[a] = "suspended" => host[a] = "suspended" \/ "manager" \in Faults
  BY <1>15 DEF ApplyRefused, Goto, Fault
<1>16. ASSUME NEW a \in Attempts, RequestFlush(a)
      PROVE  /\ dead' = dead /\ (Assign(a) \/ Live(a))
             /\ host'[a] = "dropped" => pc'[a] = "gone" \/ host[a] = "dropped"
             /\ host'[a] = "suspended" => host[a] = "suspended" \/ "manager" \in Faults
  BY <1>16 DEF RequestFlush, Goto, Fault
<1>17. ASSUME NEW a \in Attempts, Seal(a)
      PROVE  /\ dead' = dead /\ (Assign(a) \/ Live(a))
             /\ host'[a] = "dropped" => pc'[a] = "gone" \/ host[a] = "dropped"
             /\ host'[a] = "suspended" => host[a] = "suspended" \/ "manager" \in Faults
  BY <1>17 DEF Seal, Goto, Fault
<1>18. ASSUME NEW a \in Attempts, Resume(a)
      PROVE  /\ dead' = dead /\ (Assign(a) \/ Live(a))
             /\ host'[a] = "dropped" => pc'[a] = "gone" \/ host[a] = "dropped"
             /\ host'[a] = "suspended" => host[a] = "suspended" \/ "manager" \in Faults
  BY <1>18 DEF Resume, Goto, Fault
<1>19. ASSUME NEW a \in Attempts, Publish(a)
      PROVE  /\ dead' = dead /\ (Assign(a) \/ Live(a))
             /\ host'[a] = "dropped" => pc'[a] = "gone" \/ host[a] = "dropped"
             /\ host'[a] = "suspended" => host[a] = "suspended" \/ "manager" \in Faults
  BY <1>19, PublishIs DEF Goto, Fault
<1>20. ASSUME NEW a \in Attempts, VerifyCommit(a)
      PROVE  /\ dead' = dead /\ (Assign(a) \/ Live(a))
             /\ host'[a] = "dropped" => pc'[a] = "gone" \/ host[a] = "dropped"
             /\ host'[a] = "suspended" => host[a] = "suspended" \/ "manager" \in Faults
  BY <1>20 DEF VerifyCommit, Goto, Fault
<1>21. ASSUME NEW a \in Attempts, CommitOutput(a)
      PROVE  /\ dead' = dead /\ (Assign(a) \/ Live(a))
             /\ host'[a] = "dropped" => pc'[a] = "gone" \/ host[a] = "dropped"
             /\ host'[a] = "suspended" => host[a] = "suspended" \/ "manager" \in Faults
  BY <1>21, CommitOutputIs DEF Goto, Fault
<1>22. ASSUME NEW a \in Attempts, CommitUnknown(a)
      PROVE  /\ dead' = dead /\ (Assign(a) \/ Live(a))
             /\ host'[a] = "dropped" => pc'[a] = "gone" \/ host[a] = "dropped"
             /\ host'[a] = "suspended" => host[a] = "suspended" \/ "manager" \in Faults
  BY <1>22 DEF CommitUnknown, Goto, Fault
<1>23. ASSUME NEW a \in Attempts, CommitReconciled(a)
      PROVE  /\ dead' = dead /\ (Assign(a) \/ Live(a))
             /\ host'[a] = "dropped" => pc'[a] = "gone" \/ host[a] = "dropped"
             /\ host'[a] = "suspended" => host[a] = "suspended" \/ "manager" \in Faults
  BY <1>23, CommitReconciledIs DEF Goto, Fault
<1>24. ASSUME NEW a \in Attempts, Complete(a)
      PROVE  /\ dead' = dead /\ (Assign(a) \/ Live(a))
             /\ host'[a] = "dropped" => pc'[a] = "gone" \/ host[a] = "dropped"
             /\ host'[a] = "suspended" => host[a] = "suspended" \/ "manager" \in Faults
  BY <1>24 DEF Complete, Goto, Fault, FlushDone
<1>25. ASSUME NEW a \in Attempts, Close(a)
      PROVE  /\ dead' = dead /\ (Assign(a) \/ Live(a))
             /\ host'[a] = "dropped" => pc'[a] = "gone" \/ host[a] = "dropped"
             /\ host'[a] = "suspended" => host[a] = "suspended" \/ "manager" \in Faults
  BY <1>25 DEF Close, Goto, Fault
<1>26. ASSUME NEW a \in Attempts, Assign(a)
      PROVE  /\ dead' = dead /\ (Assign(a) \/ Live(a))
             /\ host'[a] = "dropped" => pc'[a] = "gone" \/ host[a] = "dropped"
             /\ host'[a] = "suspended" => host[a] = "suspended" \/ "manager" \in Faults
  BY <1>26 DEF Assign, Goto, Fault
<1>27. ASSUME NEW a \in Attempts, Unload(a)
      PROVE  /\ dead' = dead /\ (Assign(a) \/ Live(a))
             /\ host'[a] = "dropped" => pc'[a] = "gone" \/ host[a] = "dropped"
             /\ host'[a] = "suspended" => host[a] = "suspended" \/ "manager" \in Faults
  BY <1>27 DEF Unload, Goto, Fault
<1>28. ASSUME NEW a \in Attempts, LoseManager(a)
      PROVE  /\ dead' = dead /\ (Assign(a) \/ Live(a))
             /\ host'[a] = "dropped" => pc'[a] = "gone" \/ host[a] = "dropped"
             /\ host'[a] = "suspended" => host[a] = "suspended" \/ "manager" \in Faults
  BY <1>28 DEF LoseManager, Goto, Fault
<1>29. ASSUME NEW a \in Attempts, RegainManager(a)
      PROVE  /\ dead' = dead /\ (Assign(a) \/ Live(a))
             /\ host'[a] = "dropped" => pc'[a] = "gone" \/ host[a] = "dropped"
             /\ host'[a] = "suspended" => host[a] = "suspended" \/ "manager" \in Faults
  BY <1>29 DEF RegainManager, Goto, Fault
<1>30. ASSUME NEW a \in Attempts, NEW o \in Ops, StartCommit(a, o)
      PROVE  /\ dead' = dead /\ (Assign(a) \/ Live(a))
             /\ host'[a] = "dropped" => pc'[a] = "gone" \/ host[a] = "dropped"
             /\ host'[a] = "suspended" => host[a] = "suspended" \/ "manager" \in Faults
  BY <1>30 DEF StartCommit, Goto, Fault, Accepts
<1>31. ASSUME NEW a \in Attempts, NEW o \in Ops, RepeatCommit(a, o)
      PROVE  /\ dead' = dead /\ (Assign(a) \/ Live(a))
             /\ host'[a] = "dropped" => pc'[a] = "gone" \/ host[a] = "dropped"
             /\ host'[a] = "suspended" => host[a] = "suspended" \/ "manager" \in Faults
  BY <1>31 DEF RepeatCommit, Goto, Fault, Accepts
<1>32. ASSUME NEW a \in Attempts, NEW w \in Wals, Retire(a, w)
      PROVE  /\ dead' = dead /\ (Assign(a) \/ Live(a))
             /\ host'[a] = "dropped" => pc'[a] = "gone" \/ host[a] = "dropped"
             /\ host'[a] = "suspended" => host[a] = "suspended" \/ "manager" \in Faults
  BY <1>32 DEF Retire, Goto, Fault
<1>33. ASSUME NEW a \in Attempts, FlushBreaks(a)
      PROVE  /\ dead' = dead /\ (Assign(a) \/ Live(a))
             /\ host'[a] = "dropped" => pc'[a] = "gone" \/ host[a] = "dropped"
             /\ host'[a] = "suspended" => host[a] = "suspended" \/ "manager" \in Faults
  BY <1>33 DEF FlushBreaks, FlushFails, OpenFails, Fail, Goto, Fault
<1>. QED  BY <1>2, <1>3, <1>4, <1>5, <1>6, <1>7, <1>8, <1>9, <1>10, <1>11, <1>12, <1>13, <1>14, <1>15,
             <1>16, <1>17, <1>18, <1>19, <1>20, <1>21, <1>22, <1>23, <1>24, <1>25, <1>26, <1>27, <1>28,
             <1>29, <1>30, <1>31, <1>32, <1>33, FlushErrors DEF Acts, Step

\* One attempt at a time runs under a generation.
LEMMA LiveKept == TypeInv /\ LiveInv /\ [Next]_vars => LiveInv'
<1>. SUFFICES ASSUME TypeInv, LiveInv, [Next]_vars PROVE LiveInv'
  OBVIOUS
<1>1. ASSUME NEW c \in Attempts, Acts(c) PROVE LiveInv'
  <2>1. /\ dead' = dead /\ (Assign(c) \/ Live(c))
        /\ host'[c] = "dropped" => pc'[c] = "gone" \/ host[c] = "dropped"
        /\ \A b \in Attempts \ {c} : host'[b] = host[b] /\ pc'[b] = pc[b]
    BY <1>1, Moves, Alone DEF Same
  <2>2. ASSUME NEW a \in Attempts, NEW b \in Attempts, Live(a)', Live(b)', LockOf[a] = LockOf[b], a # b
        PROVE  FALSE
    <3>1. PICK d \in {a, b} : d # c /\ Live(d) /\ LockOf[d] = LockOf[c] /\ (Live(c) => FALSE)
      BY <2>1, <2>2 DEF LiveInv, Live
    <3>2. Assign(c)
      BY <2>1, <3>1
    <3>3. host[d] \in {"none", "dropped"} /\ LockOf[d] \notin dead
      BY <3>1, <3>2 DEF Assign
    <3>. QED  BY <3>1, <3>3 DEF LiveInv, Live, TypeInv, ControlInv, Control
  <2>3. ASSUME NEW a \in Attempts, host'[a] = "dropped", LockOf[a] \notin dead' PROVE pc'[a] = "gone"
    <3>1. CASE a # c
      BY <2>1, <2>3, <3>1 DEF LiveInv
    <3>2. CASE a = c
      <4>1. host[c] # "dropped"
        BY <2>1, <2>3, <3>2 DEF LiveInv, Live, Assign
      <4>. QED  BY <2>1, <2>3, <3>2, <4>1
    <3>. QED  BY <3>1, <3>2
  <2>. QED  BY <2>2, <2>3 DEF LiveInv
<1>2. ASSUME NEW lock \in Locks, LoseLock(lock) PROVE LiveInv'
  BY <1>2 DEF LoseLock, LiveInv, Live
<1>3. ASSUME NEW lock \in Locks, NoticeLoss(lock) PROVE LiveInv'
  BY <1>3 DEF NoticeLoss, Drop, LiveInv, Live
<1>4. ASSUME NEW lock \in Locks, Crash(lock) PROVE LiveInv'
  <2>1. /\ dead' = dead \cup {lock}
        /\ \A b \in Attempts : /\ pc'[b] = pc[b] \/ (pc[b] # "none" /\ pc'[b] = "gone")
                               /\ host'[b] = host[b] \/ LockOf[b] = lock
    BY <1>4 DEF Crash, Drop
  <2>. QED  BY <2>1 DEF LiveInv, Live
<1>5. CASE UNCHANGED vars
  BY <1>5 DEF vars, LiveInv, Live
<1>. QED  BY <1>1, <1>2, <1>3, <1>4, <1>5, Actors

\* A live attempt has its own generation, so no two own the row.
LEMMA OneOwner ==
  ASSUME LiveInv, NEW a \in Attempts, NEW b \in Attempts, Owner(a), Owner(b)
  PROVE  a = b
  BY DEF LiveInv, Owner, OwnerMatches

\* Without manager faults nobody is suspended.
LEMMA BaseKept == Faithful /\ Base /\ [Next]_vars => Base'
<1>. SUFFICES ASSUME Faithful, Base, [Next]_vars PROVE Base'
  OBVIOUS
<1>1. TypeInv /\ LiveInv /\ Steady
  BY DEF Base
<1>2. TypeInv' /\ LiveInv'
  BY <1>1, TypesKept, BoundedKept, ControlKept, LiveKept DEF TypeInv
<1>3. Steady'
  <2>. SUFFICES ASSUME NEW b \in Attempts PROVE host'[b] # "suspended"
    BY DEF Steady
  <2>1. host[b] # "suspended"
    BY <1>1 DEF Steady
  <2>2. ASSUME NEW a \in Attempts, Acts(a) PROVE host'[b] # "suspended"
    BY <1>1, <2>1, <2>2, Moves, Alone DEF Same, Faithful
  <2>3. ASSUME NEW lock \in Locks, LoseLock(lock) \/ NoticeLoss(lock) \/ Crash(lock) PROVE host'[b] # "suspended"
    BY <1>1, <2>1, <2>3, LockEvents
  <2>4. CASE UNCHANGED vars
    BY <2>1, <2>4 DEF vars
  <2>. QED  BY <2>2, <2>3, <2>4, Actors
<1>. QED  BY <1>2, <1>3 DEF Base

\* A step of an attempt leaves the location alone, takes it away, or claims the row.
Located(a) ==
    \/ location' = location /\ future' = future
    \/ location' = NoLock
    \/ location' = LockOf[a] /\ pc[a] = "claim" /\ pc'[a] \in {"recover", "gone"}

\* An attempt that acts names nobody but itself.
LEMMA Locations ==
  ASSUME TypeInv, NEW self \in Attempts, Acts(self)
  PROVE  Located(self)
<1>. USE DEF TypeInv, TypeOK, Located
<1>1. ASSUME NEW a \in Attempts, ClaimRow(a)
      PROVE  Located(a)
  BY <1>1 DEF ClaimRow, Goto, rowVars, Claim
<1>2. ASSUME NEW a \in Attempts, ClaimRefused(a)
      PROVE  Located(a)
  BY <1>2 DEF ClaimRefused, Goto, rowVars
<1>3. ASSUME NEW a \in Attempts, ClaimUnknown(a)
      PROVE  Located(a)
  BY <1>3 DEF ClaimUnknown, Goto, rowVars, Claim
<1>4. ASSUME NEW a \in Attempts, Recover(a)
      PROVE  Located(a)
  BY <1>4 DEF Recover, Goto, rowVars
<1>5. ASSUME NEW a \in Attempts, RecoverFails(a)
      PROVE  Located(a)
  BY <1>5 DEF RecoverFails, Goto, rowVars, OpenFails, ReleaseLocation
<1>6. ASSUME NEW a \in Attempts, LoadComplete(a)
      PROVE  Located(a)
  BY <1>6 DEF LoadComplete, Goto, rowVars
<1>7. ASSUME NEW a \in Attempts, Reference(a)
      PROVE  Located(a)
  BY <1>7 DEF Reference, Goto, rowVars, EnsureReference
<1>8. ASSUME NEW a \in Attempts, ReferenceRefused(a)
      PROVE  Located(a)
  BY <1>8 DEF ReferenceRefused, Goto, rowVars
<1>9. ASSUME NEW a \in Attempts, ReferenceUnknown(a)
      PROVE  Located(a)
  BY <1>9 DEF ReferenceUnknown, Goto, rowVars
<1>10. ASSUME NEW a \in Attempts, AppendFrame(a)
      PROVE  Located(a)
  BY <1>10 DEF AppendFrame, Goto, rowVars
<1>11. ASSUME NEW a \in Attempts, AppendFails(a)
      PROVE  Located(a)
  BY <1>11 DEF AppendFails, Goto, rowVars
<1>12. ASSUME NEW a \in Attempts, AppendAmbiguous(a)
      PROVE  Located(a)
  BY <1>12 DEF AppendAmbiguous, Goto, rowVars
<1>13. ASSUME NEW a \in Attempts, ApplyBatch(a)
      PROVE  Located(a)
  BY <1>13 DEF ApplyBatch, Goto, rowVars
<1>14. ASSUME NEW a \in Attempts, ApplyRefused(a)
      PROVE  Located(a)
  BY <1>14 DEF ApplyRefused, Goto, rowVars
<1>15. ASSUME NEW a \in Attempts, RequestFlush(a)
      PROVE  Located(a)
  BY <1>15 DEF RequestFlush, Goto, rowVars
<1>16. ASSUME NEW a \in Attempts, Seal(a)
      PROVE  Located(a)
  BY <1>16 DEF Seal, Goto, rowVars
<1>17. ASSUME NEW a \in Attempts, Resume(a)
      PROVE  Located(a)
  BY <1>17 DEF Resume, Goto, rowVars
<1>18. ASSUME NEW a \in Attempts, Publish(a)
      PROVE  Located(a)
  BY <1>18 DEF Publish, Goto, rowVars
<1>19. ASSUME NEW a \in Attempts, VerifyCommit(a)
      PROVE  Located(a)
  BY <1>19 DEF VerifyCommit, Goto, rowVars
<1>20. ASSUME NEW a \in Attempts, CommitOutput(a)
      PROVE  Located(a)
  BY <1>20 DEF CommitOutput, Goto, rowVars, CommitFile
<1>21. ASSUME NEW a \in Attempts, CommitUnknown(a)
      PROVE  Located(a)
  BY <1>21 DEF CommitUnknown, Goto, rowVars, CommitFile
<1>22. ASSUME NEW a \in Attempts, CommitReconciled(a)
      PROVE  Located(a)
  BY <1>22 DEF CommitReconciled, Goto, rowVars
<1>23. ASSUME NEW a \in Attempts, Complete(a)
      PROVE  Located(a)
  BY <1>23 DEF Complete, Goto, rowVars
<1>24. ASSUME NEW a \in Attempts, Close(a)
      PROVE  Located(a)
  BY <1>24 DEF Close, Goto, rowVars, ReleaseLocation
<1>25. ASSUME NEW a \in Attempts, Assign(a)
      PROVE  Located(a)
  BY <1>25 DEF Assign, Goto, rowVars, ChooseServer
<1>26. ASSUME NEW a \in Attempts, Unload(a)
      PROVE  Located(a)
  BY <1>26 DEF Unload, Goto, rowVars
<1>27. ASSUME NEW a \in Attempts, LoseManager(a)
      PROVE  Located(a)
  BY <1>27 DEF LoseManager, Goto, rowVars
<1>28. ASSUME NEW a \in Attempts, RegainManager(a)
      PROVE  Located(a)
  BY <1>28 DEF RegainManager, Goto, rowVars
<1>29. ASSUME NEW a \in Attempts, NEW o \in Ops, StartCommit(a, o)
      PROVE  Located(a)
  BY <1>29 DEF StartCommit, Goto, rowVars
<1>30. ASSUME NEW a \in Attempts, NEW o \in Ops, RepeatCommit(a, o)
      PROVE  Located(a)
  BY <1>30 DEF RepeatCommit, Goto, rowVars
<1>31. ASSUME NEW a \in Attempts, NEW w \in Wals, Retire(a, w)
      PROVE  Located(a)
  BY <1>31 DEF Retire, Goto, rowVars, RemoveReference
<1>32. ASSUME NEW a \in Attempts, FlushBreaks(a)
      PROVE  Located(a)
  BY <1>32 DEF FlushBreaks, FlushFails, OpenFails, ReleaseLocation, Goto, rowVars
<1>. QED  BY <1>1, <1>2, <1>3, <1>4, <1>5, <1>6, <1>7, <1>8, <1>9, <1>10, <1>11, <1>12, <1>13, <1>14, <1>15,
             <1>16, <1>17, <1>18, <1>19, <1>20, <1>21, <1>22, <1>23, <1>24, <1>25, <1>26, <1>27, <1>28,
             <1>29, <1>30, <1>31, <1>32, FlushErrors DEF Acts, Step

\* So an attempt that has recovered cannot come to own the row.
LEMMA OwnerStays ==
  ASSUME Base, Base', NEW self \in Attempts, Acts(self), NEW b \in Attempts, Owner(b)', Recovered(b)'
  PROVE  OwnerMatches(LockOf[b]) /\ location' = location /\ future' = future
<1>1. Located(self)
  BY Locations DEF Base
<1>2. location' = LockOf[b] /\ future' = NoLock /\ LockOf[b] # NoLock /\ pc'[b] \notin {"recover", "gone", "none"}
  BY TabletAssumption DEF Owner, OwnerMatches, Recovered
<1>3. CASE location' = location /\ future' = future
  BY <1>2, <1>3 DEF OwnerMatches
<1>4. CASE location' = LockOf[self] /\ pc[self] = "claim" /\ pc'[self] \in {"recover", "gone"}
  <2>1. b # self /\ LockOf[b] = LockOf[self] /\ Same(b)
    BY <1>2, <1>4, Alone DEF Base
  <2>2. Live(b) /\ Live(self)
    BY <1>2, <1>4, <2>1 DEF Live, Same
  <2>. QED  BY <2>1, <2>2 DEF Base, LiveInv
<1>. QED  BY <1>1, <1>2, <1>3, <1>4 DEF Located

----------------------------------------------------------------------------
(* Most steps change nothing that is durable, and nothing a tablet remembers *)

\* The row's references and files, the WALs, the tablets and the answers are untouched.
Quiet == UNCHANGED <<refs, files, walVars, tabletVars, clientVars>>

\* A call goes on with its batch or gives it up, and what an attempt has logged is
\* applied unless it is served no more.
Settled(b) ==
    /\ request'[b] \in {request[b], NoOp}
    /\ pc'[b] \in {"reference", "append"} => pc'[b] = pc[b] /\ request'[b] = request[b]
    /\ pc'[b] \in {"verify"} \cup Flushing /\ request'[b] # NoOp => pc[b] \in {"verify"} \cup Flushing
    /\ Logging(b)' \subseteq Logging(b)
    /\ Recovered(b)' => /\ Recovered(b)
                        /\ VerifyAssigned(b)' => VerifyAssigned(b) /\ Logging(b)' = Logging(b)

\* The acts that write to the row, a WAL or the tablet.
Works(a) ==
    \/ Recover(a) \/ Reference(a) \/ ReferenceUnknown(a) \/ AppendFrame(a) \/ ApplyBatch(a) \/ Seal(a)
    \/ Publish(a) \/ CommitOutput(a) \/ CommitUnknown(a) \/ CommitReconciled(a) \/ Complete(a)
    \/ \E o \in Ops : StartCommit(a, o) \/ RepeatCommit(a, o)
    \/ \E w \in Wals : Retire(a, w)

\* The other acts do not.
LEMMA OtherActs ==
  ASSUME Faithful, Base, NEW self \in Attempts, Acts(self)
  PROVE  Works(self) \/ (Quiet /\ Settled(self))
<1>1. \A a \in Attempts : Control(a) /\ Phased(a) /\ host[a] # "suspended"
  BY DEF Base, TypeInv, ControlInv, Steady
<1>2. TypeOK
  BY DEF Base, TypeInv
<1>. USE <1>1, <1>2 DEF TypeOK, Control, Settled, Recovered, VerifyAssigned, Logging, Quiet, Committing, Flushing
<1>3. ASSUME NEW a \in Attempts, ClaimRow(a)
      PROVE  Works(a) \/ (Quiet /\ Settled(a))
  BY <1>3 DEF ClaimRow, Goto, Fail, rowVars, tabletVars, clientVars, Claim
<1>4. ASSUME NEW a \in Attempts, ClaimRefused(a)
      PROVE  Works(a) \/ (Quiet /\ Settled(a))
  BY <1>4 DEF ClaimRefused, Goto, Fail, rowVars, tabletVars, clientVars
<1>5. ASSUME NEW a \in Attempts, ClaimUnknown(a)
      PROVE  Works(a) \/ (Quiet /\ Settled(a))
  BY <1>5 DEF ClaimUnknown, Goto, Fail, rowVars, tabletVars, clientVars, Claim
<1>6. ASSUME NEW a \in Attempts, Recover(a)
      PROVE  Works(a) \/ (Quiet /\ Settled(a))
  BY <1>6 DEF Works
<1>7. ASSUME NEW a \in Attempts, RecoverFails(a)
      PROVE  Works(a) \/ (Quiet /\ Settled(a))
  BY <1>7 DEF RecoverFails, Goto, Fail, rowVars, tabletVars, clientVars, OpenFails, ReleaseLocation
<1>8. ASSUME NEW a \in Attempts, LoadComplete(a)
      PROVE  Works(a) \/ (Quiet /\ Settled(a))
  BY <1>8 DEF LoadComplete, Goto, Fail, rowVars, tabletVars, clientVars
<1>9. ASSUME NEW a \in Attempts, Reference(a)
      PROVE  Works(a) \/ (Quiet /\ Settled(a))
  BY <1>9 DEF Works
<1>10. ASSUME NEW a \in Attempts, ReferenceRefused(a)
      PROVE  Works(a) \/ (Quiet /\ Settled(a))
  BY <1>10 DEF ReferenceRefused, Goto, Fail, rowVars, tabletVars, clientVars
<1>11. ASSUME NEW a \in Attempts, ReferenceUnknown(a)
      PROVE  Works(a) \/ (Quiet /\ Settled(a))
  BY <1>11 DEF Works
<1>12. ASSUME NEW a \in Attempts, AppendFrame(a)
      PROVE  Works(a) \/ (Quiet /\ Settled(a))
  BY <1>12 DEF Works
<1>13. ASSUME NEW a \in Attempts, AppendFails(a)
      PROVE  Works(a) \/ (Quiet /\ Settled(a))
  BY <1>13 DEF AppendFails, Goto, Fail, rowVars, tabletVars, clientVars
<1>14. ASSUME NEW a \in Attempts, AppendAmbiguous(a)
      PROVE  Works(a) \/ (Quiet /\ Settled(a))
  BY <1>14 DEF AppendAmbiguous, Fault, Faithful
<1>15. ASSUME NEW a \in Attempts, ApplyBatch(a)
      PROVE  Works(a) \/ (Quiet /\ Settled(a))
  BY <1>15 DEF Works
<1>16. ASSUME NEW a \in Attempts, ApplyRefused(a)
      PROVE  Works(a) \/ (Quiet /\ Settled(a))
  BY <1>16 DEF ApplyRefused, Goto, Fail, rowVars, tabletVars, clientVars, Fault, Faithful, VerifyHosted
<1>17. ASSUME NEW a \in Attempts, RequestFlush(a)
      PROVE  Works(a) \/ (Quiet /\ Settled(a))
  BY <1>17 DEF RequestFlush, Goto, Fail, rowVars, tabletVars, clientVars
<1>18. ASSUME NEW a \in Attempts, Seal(a)
      PROVE  Works(a) \/ (Quiet /\ Settled(a))
  BY <1>18 DEF Works
<1>19. ASSUME NEW a \in Attempts, Resume(a)
      PROVE  Works(a) \/ (Quiet /\ Settled(a))
  BY <1>19 DEF Resume, Goto, Fail, rowVars, tabletVars, clientVars
<1>20. ASSUME NEW a \in Attempts, Publish(a)
      PROVE  Works(a) \/ (Quiet /\ Settled(a))
  BY <1>20 DEF Works
<1>21. ASSUME NEW a \in Attempts, VerifyCommit(a)
      PROVE  Works(a) \/ (Quiet /\ Settled(a))
  BY <1>21 DEF VerifyCommit, Goto, Fail, rowVars, tabletVars, clientVars
<1>22. ASSUME NEW a \in Attempts, CommitOutput(a)
      PROVE  Works(a) \/ (Quiet /\ Settled(a))
  BY <1>22 DEF Works
<1>23. ASSUME NEW a \in Attempts, CommitUnknown(a)
      PROVE  Works(a) \/ (Quiet /\ Settled(a))
  BY <1>23 DEF Works
<1>24. ASSUME NEW a \in Attempts, CommitReconciled(a)
      PROVE  Works(a) \/ (Quiet /\ Settled(a))
  BY <1>24 DEF Works
<1>25. ASSUME NEW a \in Attempts, Complete(a)
      PROVE  Works(a) \/ (Quiet /\ Settled(a))
  BY <1>25 DEF Works
<1>26. ASSUME NEW a \in Attempts, Close(a)
      PROVE  Works(a) \/ (Quiet /\ Settled(a))
  BY <1>26 DEF Close, Goto, Fail, rowVars, tabletVars, clientVars, ReleaseLocation
<1>27. ASSUME NEW a \in Attempts, Assign(a)
      PROVE  Works(a) \/ (Quiet /\ Settled(a))
  BY <1>27 DEF Assign, Goto, Fail, rowVars, tabletVars, clientVars, ChooseServer
<1>28. ASSUME NEW a \in Attempts, Unload(a)
      PROVE  Works(a) \/ (Quiet /\ Settled(a))
  BY <1>28 DEF Unload, Goto, Fail, rowVars, tabletVars, clientVars
<1>29. ASSUME NEW a \in Attempts, LoseManager(a)
      PROVE  Works(a) \/ (Quiet /\ Settled(a))
  BY <1>29 DEF LoseManager, Goto, Fail, rowVars, tabletVars, clientVars, Fault, Faithful
<1>30. ASSUME NEW a \in Attempts, RegainManager(a)
      PROVE  Works(a) \/ (Quiet /\ Settled(a))
  BY <1>30 DEF RegainManager, Goto, Fail, rowVars, tabletVars, clientVars
<1>31. ASSUME NEW a \in Attempts, NEW o \in Ops, StartCommit(a, o)
      PROVE  Works(a) \/ (Quiet /\ Settled(a))
  BY <1>31 DEF Works
<1>32. ASSUME NEW a \in Attempts, NEW o \in Ops, RepeatCommit(a, o)
      PROVE  Works(a) \/ (Quiet /\ Settled(a))
  BY <1>32 DEF Works
<1>33. ASSUME NEW a \in Attempts, NEW w \in Wals, Retire(a, w)
      PROVE  Works(a) \/ (Quiet /\ Settled(a))
  BY <1>33 DEF Works
<1>34. ASSUME NEW a \in Attempts, FlushBreaks(a)
      PROVE  Works(a) \/ (Quiet /\ Settled(a))
  BY <1>34 DEF FlushBreaks, FlushFails, OpenFails, ReleaseLocation, Goto, Fail, rowVars, tabletVars, clientVars
<1>. HIDE DEF TypeOK, Control, Settled, Recovered, VerifyAssigned, Logging, Quiet, Committing, Flushing
<1>. QED  BY <1>3, <1>4, <1>5, <1>6, <1>7, <1>8, <1>9, <1>10, <1>11, <1>12, <1>13, <1>14, <1>15, <1>16,
             <1>17, <1>18, <1>19, <1>20, <1>21, <1>22, <1>23, <1>24, <1>25, <1>26, <1>27, <1>28, <1>29,
             <1>30, <1>31, <1>32, <1>33, <1>34, FlushErrors DEF Base, Acts, Step

\* Nor do lock events, nor do those who only look on.
LEMMA QuietSteps ==
  ASSUME Faithful, Base, [Next]_vars, \A a \in Attempts : ~Works(a)
  PROVE  /\ Quiet
         /\ \A b \in Attempts : Settled(b) /\ (Owner(b)' /\ Recovered(b)' => Owner(b))
<1>1. Base'
  BY BaseKept
<1>2. \A b \in Attempts : Same(b) => Settled(b)
  BY DEF Same, Memory, Settled, Recovered, VerifyAssigned, Logging
<1>3. \A b \in Attempts : Recovered(b) => Live(b)
  BY DEF Recovered, Live
<1>4. ASSUME NEW a \in Attempts, Acts(a)
      PROVE  /\ Quiet
             /\ \A b \in Attempts : Settled(b) /\ (Owner(b)' /\ Recovered(b)' => Owner(b))
  <2>1. Quiet /\ Settled(a)
    BY <1>4, OtherActs
  <2>2. \A b \in Attempts : Settled(b)
    BY <1>2, <1>4, <2>1, Alone DEF Base
  <2>3. \A b \in Attempts : Owner(b)' /\ Recovered(b)' => OwnerMatches(LockOf[b])
    BY <1>1, <1>4, OwnerStays
  <2>. QED  BY <1>3, <2>1, <2>2, <2>3 DEF Owner, Settled
<1>5. ASSUME NEW lock \in Locks, LoseLock(lock) \/ NoticeLoss(lock) \/ Crash(lock)
      PROVE  /\ Quiet
             /\ \A b \in Attempts : Settled(b) /\ (Owner(b)' /\ Recovered(b)' => Owner(b))
  <2>1. Quiet /\ UNCHANGED rowVars
    BY <1>5 DEF LoseLock, NoticeLoss, Crash, Quiet, rowVars
  <2>2. \A b \in Attempts : Settled(b) /\ (Live(b)' => Live(b))
    BY <1>5, LockEvents DEF Base, Memory, Settled, Recovered, VerifyAssigned, Logging, Live, Flushing
  <2>. QED  BY <2>1, <2>2 DEF Owner, OwnerMatches, rowVars
<1>6. ASSUME UNCHANGED vars
      PROVE  /\ Quiet
             /\ \A b \in Attempts : Settled(b) /\ (Owner(b)' /\ Recovered(b)' => Owner(b))
  <2>1. /\ Quiet /\ UNCHANGED <<rowVars, pc>>
        /\ \A b \in Attempts : Same(b)
    BY <1>6 DEF vars, tabletVars, Quiet, rowVars, Same, Memory
  <2>. QED  BY <1>2, <2>1 DEF Owner, OwnerMatches, Live, rowVars
<1>. QED  BY <1>4, <1>5, <1>6, Actors

----------------------------------------------------------------------------
(* The row can always be recovered, and its owner knows what it references *)

\* A quiet step keeps all of it.
LEMMA LogQuiet ==
  ASSUME LogInv, Quiet, \A b \in Attempts : Settled(b) /\ (Owner(b)' /\ Recovered(b)' => Owner(b))
  PROVE  LogInv'
<1>1. UNCHANGED <<refs, logs, stored, nextWal, current, nextSeq, ops, active, snapshot>>
  BY DEF Quiet, walVars, tabletVars
<1>2. Referenced' = Referenced
  BY <1>1 DEF Referenced
<1>3. RowInv'
  BY <1>1, <1>2 DEF LogInv, RowInv
<1>4. ASSUME NEW b \in Attempts PROVE TableInv(b)'
  BY <1>1 DEF LogInv, TableInv, Settled
<1>5. ASSUME NEW b \in Attempts PROVE KnownInv(b)'
  BY <1>1, <1>2 DEF LogInv, KnownInv, Settled
<1>. QED  BY <1>3, <1>4, <1>5 DEF LogInv

\* What the owner writes concerns no other recovered attempt, and nobody else writes.
LEMMA LogOthers ==
  ASSUME Base, Base', LogInv, NEW self \in Attempts, Acts(self), nextWal' >= nextWal,
         Owner(self) \/ (refs' = refs /\ logs' = logs /\ stored \subseteq stored')
  PROVE  \A b \in Attempts \ {self} : TableInv(b)' /\ KnownInv(b)'
<1>. SUFFICES ASSUME NEW b \in Attempts \ {self} PROVE TableInv(b)' /\ KnownInv(b)'
  OBVIOUS
<1>1. Same(b) /\ TableInv(b) /\ KnownInv(b)
  BY Alone DEF Base, LogInv
<1>2. TableInv(b)'
  <2>1. nextWal \in Nat /\ nextWal' \in Nat /\ current[b] \in Nat /\ \A w \in snapshot[b].wals : w \in Nat
    BY DEF Base, TypeInv, TypeOK, Wals, NoWal
  <2>. QED  BY <1>1, <2>1 DEF Same, Memory, TableInv
<1>3. ASSUME Owner(b)', Recovered(b)'
      PROVE  Owner(b) /\ refs' = refs /\ logs' = logs /\ stored \subseteq stored'
  <2>1. Owner(b)
    BY <1>1, <1>3, OwnerStays DEF Owner, Live, Same
  <2>. QED  BY <2>1, OneOwner DEF Base
<1>4. KnownInv(b)'
  BY <1>1, <1>3 DEF Same, Memory, KnownInv, Referenced, Recovered
<1>. QED  BY <1>2, <1>4

\* Steps that leave the row's references and the WALs alone, and log nothing.
LEMMA LogIdle ==
  ASSUME Base, LogInv, NEW a \in Attempts, Recovered(a),
         UNCHANGED <<location, future, refs, logs, stored, nextWal>>, ops'[a] = ops[a], nextSeq'[a] = nextSeq[a],
         pc'[a] \notin {"reference", "append"}, current'[a] \in {current[a], NoWal},
         \A w \in snapshot'[a].wals : w \in snapshot[a].wals \/ (w \in refs /\ current'[a] = NoWal),
         \A o \in active'[a] \cup snapshot'[a].ops :
            o \in active[a] \cup snapshot[a].ops \/ \E r \in ops[a] : r.op = o,
         request'[a] = NoOp \/ \E r \in ops[a] : r.op = request'[a]
  PROVE  RowInv' /\ TableInv(a)' /\ KnownInv(a)'
<1>1. RowInv /\ TableInv(a) /\ KnownInv(a) /\ nextWal \in Nat \ {0} /\ refs \subseteq Wals
  BY DEF LogInv, Base, TypeInv, TypeOK
<1>2. Referenced' = Referenced
  BY DEF Referenced
<1>3. RowInv'
  BY <1>1, <1>2 DEF RowInv
<1>4. \A w \in refs : w \in Wals /\ w < nextWal
  BY <1>1 DEF RowInv, Wals
<1>5. current'[a] < nextWal
  BY <1>1 DEF TableInv, NoWal
<1>6. TableInv(a)'
  BY <1>1, <1>4, <1>5 DEF TableInv
<1>7. KnownInv(a)'
  <2>1. Owner(a)' => Owner(a)
    BY DEF Owner, OwnerMatches, Live, Recovered
  <2>. QED  BY <1>1, <1>2, <2>1 DEF KnownInv
<1>. QED  BY <1>3, <1>6, <1>7

\* What an attempt that works knows of itself.
LEMMA Working ==
  ASSUME Base, LogInv, NEW a \in Attempts
  PROVE  /\ Control(a) /\ Phased(a) /\ TableInv(a) /\ KnownInv(a) /\ RowInv /\ TypeOK
         /\ nextWal \in Nat \ {0} /\ nextSeq[a] \in Nat /\ refs \subseteq Wals
  BY DEF Base, TypeInv, TypeOK, ControlInv, LogInv

\* Apply, and the repetition of a batch that is logged.
LEMMA LogApply ==
  ASSUME Base, LogInv, NEW a \in Attempts, ApplyBatch(a) \/ \E o \in Ops : RepeatCommit(a, o)
  PROVE  RowInv' /\ TableInv(a)' /\ KnownInv(a)' /\ UNCHANGED <<refs, logs, stored, nextWal>>
<1>. USE Working
<1>1. PICK o \in Ops :
        /\ Recovered(a) /\ (\E r \in ops[a] : r.op = o)
        /\ active' = [active EXCEPT ![a] = active[a] \cup {o}] \/ active' = active
        /\ Finish(a, o)
        /\ UNCHANGED <<rowVars, walVars, current, nextSeq, ops, snapshot>>
  <2>1. CASE ApplyBatch(a)
    <3>1. request[a] \in Ops /\ (\E r \in ops[a] : r.op = request[a]) /\ Recovered(a)
      BY <2>1 DEF ApplyBatch, Control, Committing, TableInv, TypeOK, Recovered
    <3>. QED  BY <2>1, <3>1 DEF ApplyBatch
  <2>2. ASSUME NEW o \in Ops, RepeatCommit(a, o)
        PROVE  /\ Recovered(a) /\ (\E r \in ops[a] : r.op = o)
               /\ active' = [active EXCEPT ![a] = active[a] \cup {o}] \/ active' = active
               /\ Finish(a, o)
               /\ UNCHANGED <<rowVars, walVars, current, nextSeq, ops, snapshot>>
    BY <2>2 DEF RepeatCommit, Accepts, Recovered, TypeOK
  <2>. QED  BY <2>1, <2>2
<1>2. pc'[a] \in {"run", "idle"} /\ request'[a] \in {o, NoOp}
  BY <1>1, FinishIs DEF Goto, TypeOK
<1>3. \A p \in active'[a] \cup snapshot'[a].ops : p \in active[a] \cup snapshot[a].ops \/ \E r \in ops[a] : r.op = p
  BY <1>1 DEF TypeOK
<1>4. UNCHANGED <<location, future, refs, logs, stored, nextWal>>
  BY <1>1 DEF rowVars, walVars
<1>. QED  BY <1>1, <1>2, <1>3, <1>4, LogIdle

\* The steps of a flush that change only its checkpoint.
LEMMA LogFlush ==
  ASSUME Base, LogInv, NEW a \in Attempts, Seal(a) \/ Publish(a) \/ CommitReconciled(a) \/ Complete(a)
  PROVE  RowInv' /\ TableInv(a)' /\ KnownInv(a)' /\ UNCHANGED <<refs, logs, stored, nextWal>>
<1>. USE Working
<1>1. CASE Seal(a)
  <2>1. /\ snapshot'[a] = [ops |-> active[a], wals |-> refs, boundary |-> nextSeq[a] - 1, phase |-> "sealed"]
        /\ active'[a] = {} /\ current'[a] = NoWal /\ pc'[a] = "publish" /\ pc[a] = "run"
        /\ UNCHANGED <<location, future, refs, logs, stored, nextWal, request, ops, nextSeq>>
    BY <1>1 DEF Seal, Goto, rowVars, walVars, TypeOK
  <2>2. Recovered(a) /\ (request'[a] = NoOp \/ \E r \in ops[a] : r.op = request'[a])
    BY <2>1 DEF Recovered, TableInv, Flushing
  <2>. QED  BY <2>1, <2>2, LogIdle
<1>2. CASE Publish(a)
  <2>1. /\ snapshot'[a].ops = snapshot[a].ops /\ snapshot'[a].wals = snapshot[a].wals
        /\ pc'[a] = "commit" /\ pc[a] = "publish"
        /\ UNCHANGED <<location, future, refs, logs, stored, nextWal, request, ops, nextSeq, active, current>>
    BY <1>2, PublishIs DEF Goto, rowVars, walVars, TypeOK
  <2>2. Recovered(a) /\ (request'[a] = NoOp \/ \E r \in ops[a] : r.op = request'[a])
    BY <2>1 DEF Recovered, TableInv, Flushing
  <2>. QED  BY <2>1, <2>2, LogIdle
<1>3. CASE CommitReconciled(a)
  <2>1. /\ snapshot'[a].ops = snapshot[a].ops /\ snapshot'[a].wals = snapshot[a].wals
        /\ pc'[a] = "retire" /\ pc[a] = "cas"
        /\ UNCHANGED <<location, future, refs, logs, stored, nextWal, request, ops, nextSeq, active, current>>
    BY <1>3, CommitReconciledIs DEF Goto, rowVars, walVars, TypeOK
  <2>2. Recovered(a) /\ (request'[a] = NoOp \/ \E r \in ops[a] : r.op = request'[a])
    BY <2>1 DEF Recovered, TableInv, Flushing
  <2>. QED  BY <2>1, <2>2, LogIdle
<1>4. CASE Complete(a)
  <2>1. /\ snapshot'[a] = NoSnapshot /\ FlushDone(a) /\ pc[a] = "retire"
        /\ UNCHANGED <<location, future, refs, logs, stored, nextWal, ops, nextSeq, active, current>>
    BY <1>4 DEF Complete, rowVars, walVars, TypeOK
  <2>2. pc'[a] \in {"opened", "idle"} /\ request'[a] \in {request[a], NoOp}
    BY <2>1, FlushDoneIs DEF Goto, TypeOK
  <2>3. Recovered(a) /\ (request'[a] = NoOp \/ \E r \in ops[a] : r.op = request'[a])
    BY <2>1, <2>2 DEF Recovered, TableInv, Flushing
  <2>4. snapshot'[a].ops = {} /\ snapshot'[a].wals = {}
    BY <2>1 DEF NoSnapshot
  <2>. QED  BY <2>1, <2>2, <2>3, <2>4, LogIdle
<1>. QED  BY <1>1, <1>2, <1>3, <1>4

\* recover takes every record the row references, and goes on numbering behind them.
LEMMA LogRecover ==
  ASSUME Base, LogInv, NEW a \in Attempts, Recover(a)
  PROVE  /\ RowInv' /\ TableInv(a)' /\ KnownInv(a)' /\ UNCHANGED <<rowVars, walVars, snapshot>>
         /\ ops'[a] = Referenced /\ active'[a] = {r.op : r \in Referenced} /\ applied'[a] = active'[a]
         /\ snapshot[a] = NoSnapshot
<1>. USE Working
<1>1. Referenced \subseteq Record /\ Distinct(Referenced)
  BY ReplayedIs DEF Base, RowInv
<1>2. Replayed(logs, refs) = Referenced
  BY <1>1 DEF Replayed, Referenced, Distinct, Record
<1>3. HighestSequence(Referenced) \in Nat /\ \A r \in Referenced : r.seq <= HighestSequence(Referenced)
  BY <1>2, ReplayedIs DEF Base
<1>4. /\ ops'[a] = Referenced /\ active'[a] = {r.op : r \in Referenced} /\ applied'[a] = active'[a]
      /\ nextSeq'[a] = HighestSequence(Referenced) + 1 /\ pc[a] = "recover" /\ pc'[a] \in {"opened", "run"}
      /\ UNCHANGED <<rowVars, walVars, request, current, snapshot>>
  BY <1>2 DEF Recover, Goto, TypeOK
<1>5. UNCHANGED <<refs, logs, stored, nextWal>> /\ Referenced' = Referenced
  BY <1>4 DEF rowVars, walVars, Referenced
<1>6. snapshot[a] = NoSnapshot /\ current[a] = NoWal /\ request[a] = NoOp
  BY <1>4 DEF Control, Blank
<1>7. RowInv'
  BY <1>5 DEF RowInv
<1>8. TableInv(a)'
  <2>1. \A r \in Referenced : r.seq \in Nat /\ r.seq < HighestSequence(Referenced) + 1
    BY <1>1, <1>3 DEF Record
  <2>2. snapshot'[a].ops = {} /\ snapshot'[a].wals = {} /\ current'[a] = NoWal /\ request'[a] = NoOp
    BY <1>4, <1>6 DEF NoSnapshot
  <2>. QED  BY <1>1, <1>3, <1>4, <1>5, <2>1, <2>2 DEF TableInv, NoWal
<1>9. KnownInv(a)'
  BY <1>4, <1>5, <1>6 DEF KnownInv, Recovered
<1>. QED  BY <1>4, <1>6, <1>7, <1>8, <1>9

\* A reference is added for a WAL that is empty, or there already.
LEMMA LogReference ==
  ASSUME Base, LogInv, NEW a \in Attempts, Reference(a) \/ ReferenceUnknown(a)
  PROVE  /\ RowInv' /\ TableInv(a)' /\ KnownInv(a)' /\ UNCHANGED <<logs, stored, nextWal>> /\ Referenced' = Referenced
         /\ refs' = refs \/ (Owner(a) /\ current[a] \in Wals /\ refs' = refs \cup {current[a]})
         /\ UNCHANGED <<location, future, files, host, tabletVars, clientVars>>
         /\ pc[a] = "reference" /\ pc'[a] \in {"append", "idle"}
<1>. USE Working
<1>1. /\ refs' = refs \/ (OwnerMatches(LockOf[a]) /\ refs' = refs \cup {current[a]})
      /\ UNCHANGED <<location, future, files, host, walVars, tabletVars, clientVars>>
      /\ pc[a] = "reference"
      /\ \/ pc'[a] = "append" /\ request' = request /\ OwnerMatches(LockOf[a]) /\ refs' = refs \cup {current[a]}
         \/ pc'[a] = "idle" /\ request'[a] = NoOp
  BY DEF Reference, ReferenceUnknown, EnsureReference, Fail, Goto, TypeOK
<1>2. /\ UNCHANGED <<logs, stored, nextWal>> /\ current[a] \in Wals
      /\ current' = current /\ nextSeq' = nextSeq /\ ops' = ops /\ active' = active /\ snapshot' = snapshot
  BY <1>1 DEF walVars, tabletVars, Control, TypeOK
<1>3. Recovered(a) /\ Live(a)
  BY <1>1 DEF Recovered, Live
<1>4. CASE refs' = refs /\ pc'[a] = "idle" /\ request'[a] = NoOp
  <2>1. RowInv' /\ TableInv(a)' /\ KnownInv(a)'
    BY <1>1, <1>2, <1>3, <1>4, LogIdle
  <2>. QED  BY <1>1, <1>2, <1>4, <2>1 DEF Referenced
<1>5. CASE OwnerMatches(LockOf[a]) /\ refs' = refs \cup {current[a]}
  <2>1. /\ Owner(a) /\ current[a] \in stored /\ (current[a] \in refs \/ logs[current[a]] = <<>>)
        /\ current[a] < nextWal /\ Referenced \subseteq ops[a] /\ current[a] \notin snapshot[a].wals
    BY <1>2, <1>3, <1>5, TabletAssumption DEF Owner, KnownInv, TableInv, Wals, NoWal
  <2>2. Referenced' = Referenced
    <3>1. CASE current[a] \in refs
      <4>1. refs' = refs
        BY <1>5, <3>1
      <4>. QED  BY <1>2, <4>1 DEF Referenced
    <3>2. CASE logs[current[a]] = <<>>
      <4>1. Records(logs[current[a]]) = {}
        BY <3>2 DEF Records
      <4>. QED  BY <1>2, <1>5, <4>1 DEF Referenced
    <3>. QED  BY <2>1, <3>1, <3>2
  <2>3. RowInv'
    <3>1. Readable(logs[current[a]])
      BY <2>1 DEF RowInv, Readable
    <3>2. \A w \in Wals : w >= nextWal => w # current[a]
      BY <1>2, <2>1 DEF Wals
    <3>. QED  BY <1>2, <1>5, <2>1, <2>2, <3>1, <3>2 DEF RowInv
  <2>4. TableInv(a)'
    BY <1>1, <1>2 DEF TableInv, Flushing
  <2>5. KnownInv(a)'
    BY <1>2, <1>5, <2>1, <2>2 DEF KnownInv
  <2>. QED  BY <1>1, <1>2, <1>5, <2>1, <2>2, <2>3, <2>4, <2>5
<1>. QED  BY <1>1, <1>4, <1>5

\* References and WALs go that a flush covers, which its owner does not write to.
LEMMA LogShrinks ==
  ASSUME Base, LogInv, NEW a \in Attempts, Owner(a), NEW W, W \subseteq snapshot[a].wals,
         refs' = refs \ W, stored \ W \subseteq stored',
         UNCHANGED <<location, future, logs, nextWal, current, nextSeq, ops, active, request>>,
         snapshot'[a].ops = snapshot[a].ops, snapshot'[a].wals = snapshot[a].wals,
         pc[a] \in Flushing, pc'[a] \in Flushing
  PROVE  RowInv' /\ TableInv(a)' /\ KnownInv(a)'
<1>. USE Working
<1>1. Recovered(a) /\ Referenced' \subseteq Referenced
  BY DEF Recovered, Flushing, Referenced
<1>2. RowInv'
  BY <1>1 DEF RowInv, Distinct
<1>3. TableInv(a)'
  BY DEF TableInv, Flushing
<1>4. KnownInv(a)'
  BY <1>1 DEF KnownInv, Flushing
<1>. QED  BY <1>2, <1>3, <1>4

\* The metadata commit.
LEMMA LogCommit ==
  ASSUME Base, LogInv, NEW a \in Attempts, CommitOutput(a) \/ CommitUnknown(a)
  PROVE  /\ RowInv' /\ TableInv(a)' /\ KnownInv(a)' /\ Owner(a) /\ Recovered(a)
         /\ snapshot[a].wals \subseteq refs /\ refs' = refs \ snapshot[a].wals /\ files' = files \cup {Output(a)}
         /\ snapshot'[a].ops = snapshot[a].ops /\ snapshot'[a].wals = snapshot[a].wals
         /\ snapshot[a].phase = "published" /\ snapshot'[a].phase \in {"published", "committed"} /\ pc[a] = "cas"
         /\ pc'[a] \in {"retire", "lost"}
         /\ UNCHANGED <<location, future, walVars, host, request, current, nextSeq, ops, applied, active, clientVars>>
<1>. USE Working
<1>1. /\ CommitFile(LockOf[a], Output(a), snapshot[a].wals) /\ pc[a] = "cas" /\ pc'[a] \in {"retire", "lost"}
      /\ snapshot'[a].ops = snapshot[a].ops /\ snapshot'[a].wals = snapshot[a].wals
      /\ snapshot[a].phase = "published" /\ snapshot'[a].phase \in {"published", "committed"}
      /\ UNCHANGED <<walVars, host, request, current, nextSeq, ops, applied, active, clientVars>>
  <2>1. CASE CommitOutput(a)
    BY <2>1, CommitOutputIs DEF Goto, Phased, TypeOK
  <2>2. CASE CommitUnknown(a)
    BY <2>2 DEF CommitUnknown, Goto, Phased, TypeOK, tabletVars
  <2>. QED  BY <2>1, <2>2
<1>2. /\ Owner(a) /\ Recovered(a) /\ snapshot[a].wals \subseteq refs /\ refs' = refs \ snapshot[a].wals
      /\ files' = files \cup {Output(a)} /\ UNCHANGED <<location, future>>
  BY <1>1 DEF CommitFile, Owner, Live, Recovered
<1>3. UNCHANGED <<logs, stored, nextWal>> /\ pc[a] \in Flushing /\ pc'[a] \in Flushing
  BY <1>1 DEF walVars, Flushing
<1>4. RowInv' /\ TableInv(a)' /\ KnownInv(a)'
  BY <1>1, <1>2, <1>3, LogShrinks
<1>. QED  BY <1>1, <1>2, <1>4

\* The retirement of a WAL.
LEMMA LogRetire ==
  ASSUME Base, LogInv, NEW a \in Attempts, NEW w \in Wals, Retire(a, w)
  PROVE  /\ RowInv' /\ TableInv(a)' /\ KnownInv(a)' /\ Owner(a) /\ Recovered(a)
         /\ w \in snapshot[a].wals /\ refs' = refs \ {w} /\ snapshot[a].phase = "committed"
         /\ UNCHANGED <<location, future, files, logs, nextWal, host, pc, request, tabletVars, clientVars>>
<1>. USE Working
<1>1. /\ w \in snapshot[a].wals /\ refs' = refs \ {w} /\ stored' = stored \ {w} /\ OwnerMatches(LockOf[a])
      /\ pc[a] = "retire" /\ snapshot[a].phase = "committed"
      /\ UNCHANGED <<location, future, files, logs, nextWal, host, pc, request, tabletVars, clientVars>>
  BY DEF Retire, Unretired, RemoveReference, Phased
<1>2. Owner(a) /\ Recovered(a) /\ pc[a] \in Flushing
  BY <1>1 DEF Owner, Live, Recovered, Flushing
<1>3. UNCHANGED <<current, nextSeq, ops, active, snapshot>>
  BY <1>1 DEF tabletVars
<1>4. RowInv' /\ TableInv(a)' /\ KnownInv(a)'
  BY <1>1, <1>2, <1>3, LogShrinks
<1>. QED  BY <1>1, <1>2, <1>4

\* A batch starts in the active WAL or in a new one.
LEMMA LogStart ==
  ASSUME Base, LogInv, NEW a \in Attempts, NEW o \in Ops, StartCommit(a, o)
  PROVE  /\ RowInv' /\ TableInv(a)' /\ KnownInv(a)' /\ stored \subseteq stored' /\ nextWal' >= nextWal
         /\ pc[a] = "idle" /\ pc'[a] = "reference" /\ request'[a] = o
         /\ UNCHANGED <<rowVars, logs, host, ops, applied, active, snapshot, acked>>
<1>. USE Working
<1>1. /\ pc[a] = "idle" /\ pc'[a] = "reference" /\ request'[a] = o /\ (\A r \in ops[a] : r.op # o)
      /\ UNCHANGED <<rowVars, host, nextSeq, ops, applied, active, snapshot, acked>>
      /\ (current[a] # NoWal /\ UNCHANGED <<walVars, current>>) \/ (current[a] = NoWal /\ CreateWal(a))
  BY DEF StartCommit, Accepts, Goto, TypeOK
<1>2. Recovered(a) /\ (Owner(a)' => Owner(a))
  BY <1>1 DEF Recovered, Owner, OwnerMatches, Live, rowVars
<1>3. CASE current[a] # NoWal /\ UNCHANGED <<walVars, current>>
  <2>1. UNCHANGED <<refs, logs, stored, nextWal>> /\ Referenced' = Referenced
    BY <1>1, <1>3 DEF rowVars, walVars, Referenced
  <2>2. RowInv'
    BY <2>1 DEF RowInv
  <2>3. TableInv(a)'
    BY <1>1, <1>3, <2>1 DEF TableInv, Flushing
  <2>4. KnownInv(a)'
    BY <1>1, <1>2, <1>3, <2>1 DEF KnownInv
  <2>. QED  BY <1>1, <2>1, <2>2, <2>3, <2>4
<1>4. CASE CreateWal(a)
  <2>1. /\ nextWal \in Wals /\ current'[a] = nextWal /\ stored' = stored \cup {nextWal} /\ nextWal' = nextWal + 1
        /\ logs' = logs /\ refs' = refs
    BY <1>1, <1>4 DEF CreateWal, rowVars, TypeOK
  <2>2. Referenced' = Referenced /\ nextWal \notin refs /\ logs[nextWal] = <<>> /\ nextWal \notin snapshot[a].wals
    <3>1. nextWal >= nextWal /\ ~(nextWal < nextWal)
      OBVIOUS
    <3>2. nextWal \notin refs /\ logs[nextWal] = <<>>
      BY <2>1, <3>1 DEF RowInv
    <3>3. nextWal \notin snapshot[a].wals
      BY <3>1 DEF TableInv
    <3>. QED  BY <2>1, <3>2, <3>3 DEF Referenced
  <2>3. RowInv'
    <3>1. \A w \in Wals : w >= nextWal + 1 => w >= nextWal
      BY DEF Wals
    <3>. QED  BY <2>1, <2>2, <3>1 DEF RowInv
  <2>4. TableInv(a)'
    <3>1. \A w \in snapshot[a].wals : w \in Nat /\ w < nextWal + 1
      BY DEF TableInv, TypeOK, Wals
    <3>. QED  BY <1>1, <2>1, <3>1 DEF TableInv, Flushing
  <2>5. KnownInv(a)'
    BY <1>1, <1>2, <2>1, <2>2 DEF KnownInv
  <2>. QED  BY <1>1, <2>1, <2>3, <2>4, <2>5
<1>. QED  BY <1>1, <1>3, <1>4

\* The owner's next record is behind all it knows, so recover will accept it.
LEMMA LogAppend ==
  ASSUME Faithful, Base, LogInv, NEW a \in Attempts, AppendFrame(a)
  PROVE  /\ RowInv' /\ TableInv(a)' /\ KnownInv(a)' /\ Owner(a) /\ Recovered(a)
         /\ pc'[a] = "verify" /\ UNCHANGED <<rowVars, stored, nextWal, host, request, applied, active, snapshot, clientVars>>
         /\ request[a] \in Ops /\ current[a] \notin snapshot[a].wals
         /\ \E rec \in Record : /\ rec = [op |-> request[a], seq |-> nextSeq[a], by |-> a]
                                /\ ops'[a] = ops[a] \cup {rec} /\ Referenced' = Referenced \cup {rec}
                                /\ \A v \in Wals \ {current[a]} : logs'[v] = logs[v]
                                /\ \A v \in Wals : Records(logs'[v]) \subseteq Records(logs[v]) \cup {rec}
<1>. USE Working
<1>1. Logged(a) /\ pc[a] = "append" /\ OwnerMatches(LockOf[a])
  BY DEF AppendFrame, Logged, Faithful
<1>2. /\ Owner(a) /\ Recovered(a) /\ Referenced \subseteq ops[a] /\ current[a] \in refs /\ request[a] \in Ops
      /\ current[a] # NoWal /\ (\A r \in ops[a] : r.op # request[a]) /\ current[a] \notin snapshot[a].wals
  <2>1. Owner(a) /\ Recovered(a)
    BY <1>1 DEF Owner, Live, Recovered
  <2>2. request[a] \in Ops /\ current[a] # NoWal
    BY <1>1 DEF Control, Committing, TypeOK
  <2>3. Referenced \subseteq ops[a] /\ current[a] \in refs /\ current[a] \notin snapshot[a].wals
    BY <1>1, <2>1, <2>2 DEF KnownInv
  <2>. QED  BY <1>1, <2>1, <2>2, <2>3 DEF TableInv
<1>3. PICK rec \in Record, w \in Wals :
            /\ rec = [op |-> request[a], seq |-> nextSeq[a], by |-> a] /\ w = current[a]
            /\ Len(logs[w]) \in Nat /\ Len(logs'[w]) = Len(logs[w]) + 1
            /\ logs'[w][Len(logs[w]) + 1] = rec
            /\ \A k \in 1..Len(logs[w]) : logs'[w][k] = logs[w][k]
            /\ \A v \in Wals \ {w} : logs'[v] = logs[v]
  BY <1>1, Appended DEF Base
<1>4. Records(logs'[w]) = Records(logs[w]) \cup {rec} /\ \A v \in Wals \ {w} : Records(logs'[v]) = Records(logs[v])
  <2>1. 1..Len(logs'[w]) = 1..Len(logs[w]) \cup {Len(logs[w]) + 1}
    BY <1>3
  <2>2. Len(logs[w]) + 1 \in 1..Len(logs'[w])
    BY <1>3
  <2>3. \A k \in 1..Len(logs'[w]) : logs'[w][k] = rec \/ \E j \in 1..Len(logs[w]) : logs'[w][k] = logs[w][j]
    BY <1>3, <2>1
  <2>4. \A j \in 1..Len(logs[w]) : j \in 1..Len(logs'[w]) /\ logs[w][j] = logs'[w][j]
    BY <1>3, <2>1
  <2>5. rec \in Records(logs'[w])
    BY <1>3, <2>2 DEF Records
  <2>6. Records(logs[w]) \subseteq Records(logs'[w])
    BY <2>4 DEF Records
  <2>7. Records(logs'[w]) \subseteq Records(logs[w]) \cup {rec}
    BY <2>3 DEF Records
  <2>. QED  BY <1>3, <2>5, <2>6, <2>7
<1>5. /\ ops'[a] = ops[a] \cup {rec} /\ nextSeq'[a] = nextSeq[a] + 1 /\ pc'[a] = "verify"
      /\ UNCHANGED <<rowVars, stored, nextWal, host, request, current, applied, active, snapshot, clientVars>>
  BY <1>3 DEF AppendFrame, Goto, TypeOK
<1>6. UNCHANGED <<location, future, refs>>
  BY <1>5 DEF rowVars
<1>7. Referenced' = Referenced \cup {rec}
  BY <1>2, <1>3, <1>4, <1>6 DEF Referenced
<1>8. rec.op = request[a] /\ rec.seq = nextSeq[a]
  BY <1>3
<1>9. \A r \in ops[a] : r \in Record /\ r.seq \in Nat /\ r.seq < nextSeq[a] /\ r.op # request[a]
  BY <1>2 DEF TypeOK, TableInv, Record
<1>10. Distinct(ops[a] \cup {rec})
  <2>1. Distinct(ops[a])
    BY DEF TableInv
  <2>2. \A r \in ops[a] : r.seq # rec.seq /\ r.op # rec.op
    BY <1>8, <1>9
  <2>. QED  BY <2>1, <2>2 DEF Distinct
<1>11. RowInv'
  <2>1. Distinct(Referenced)'
    BY <1>2, <1>7, <1>10 DEF Distinct
  <2>2. Readable(logs'[w])
    <3>1. Readable(logs[w]) /\ logs[w] \in Seq(Record)
      BY <1>2, <1>3 DEF RowInv, TypeOK
    <3>2. \A k \in 1..Len(logs[w]) : logs[w][k] \in Referenced
      BY <1>2, <1>3 DEF Referenced, Records
    <3>3. \A k \in 1..Len(logs[w]) : logs'[w][k].seq < rec.seq
      BY <1>2, <1>3, <1>8, <1>9, <3>2
    <3>. SUFFICES ASSUME NEW j \in 1..Len(logs'[w]), NEW k \in 1..Len(logs'[w]), j < k
                  PROVE  logs'[w][j].seq < logs'[w][k].seq
      BY DEF Readable
    <3>4. j \in 1..Len(logs[w]) /\ (k \in 1..Len(logs[w]) \/ k = Len(logs[w]) + 1)
      BY <1>3
    <3>5. CASE k \in 1..Len(logs[w])
      BY <1>3, <3>1, <3>4, <3>5 DEF Readable
    <3>6. CASE k = Len(logs[w]) + 1
      BY <1>3, <3>3, <3>4, <3>6
    <3>. QED  BY <3>4, <3>5, <3>6
  <2>3. \A v \in Wals : v >= nextWal => v # w
    BY <1>3 DEF TableInv, Wals
  <2>. QED  BY <1>3, <1>5, <1>6, <2>1, <2>2, <2>3 DEF RowInv
<1>12. TableInv(a)'
  <2>1. \A r \in ops'[a] : r.seq < nextSeq[a] + 1
    BY <1>5, <1>8, <1>9
  <2>2. \E r \in ops'[a] : r.op = request'[a]
    BY <1>5, <1>8
  <2>. QED  BY <1>5, <1>10, <2>1, <2>2 DEF TableInv
<1>13. KnownInv(a)'
  BY <1>2, <1>5, <1>6, <1>7 DEF KnownInv
<1>. QED  BY <1>2, <1>3, <1>4, <1>5, <1>7, <1>11, <1>12, <1>13

\* The row stays recoverable, and its owner knows what it references.
LEMMA LogKept == Faithful /\ Base /\ LogInv /\ [Next]_vars => LogInv'
<1>. SUFFICES ASSUME Faithful, Base, LogInv, [Next]_vars PROVE LogInv'
  OBVIOUS
<1>1. Base'
  BY BaseKept
<1>2. CASE \A a \in Attempts : ~Works(a)
  BY <1>2, QuietSteps, LogQuiet
<1>3. ASSUME NEW a \in Attempts, Works(a) PROVE LogInv'
  <2>1. Acts(a) /\ nextWal >= nextWal
    BY <1>3 DEF Works, Acts, Step, Base, TypeInv, TypeOK
  <2>2. /\ RowInv' /\ TableInv(a)' /\ KnownInv(a)' /\ nextWal' >= nextWal
        /\ Owner(a) \/ (refs' = refs /\ logs' = logs /\ stored \subseteq stored')
    <3>1. CASE Recover(a)
      BY <2>1, <3>1, LogRecover DEF rowVars, walVars
    <3>2. CASE Reference(a) \/ ReferenceUnknown(a)
      BY <2>1, <3>2, LogReference
    <3>3. CASE AppendFrame(a)
      BY <2>1, <3>3, LogAppend
    <3>4. CASE ApplyBatch(a) \/ \E o \in Ops : RepeatCommit(a, o)
      BY <2>1, <3>4, LogApply
    <3>5. CASE Seal(a) \/ Publish(a) \/ CommitReconciled(a) \/ Complete(a)
      BY <2>1, <3>5, LogFlush
    <3>6. CASE CommitOutput(a) \/ CommitUnknown(a)
      BY <2>1, <3>6, LogCommit DEF walVars
    <3>7. ASSUME NEW o \in Ops, StartCommit(a, o)
          PROVE  /\ RowInv' /\ TableInv(a)' /\ KnownInv(a)' /\ nextWal' >= nextWal
                 /\ refs' = refs /\ logs' = logs /\ stored \subseteq stored'
      BY <3>7, LogStart DEF rowVars
    <3>8. ASSUME NEW w \in Wals, Retire(a, w)
          PROVE  RowInv' /\ TableInv(a)' /\ KnownInv(a)' /\ nextWal' >= nextWal /\ Owner(a)
      BY <2>1, <3>8, LogRetire
    <3>. QED  BY <1>3, <3>1, <3>2, <3>3, <3>4, <3>5, <3>6, <3>7, <3>8 DEF Works
  <2>3. \A b \in Attempts \ {a} : TableInv(b)' /\ KnownInv(b)'
    BY <1>1, <2>1, <2>2, LogOthers
  <2>. QED  BY <2>2, <2>3 DEF LogInv
<1>. QED  BY <1>2, <1>3

----------------------------------------------------------------------------
(* What the row references is in the owner's memory or in a file *)

\* A quiet step keeps that.
LEMMA CoverQuiet ==
  ASSUME CoverInv, Quiet, \A b \in Attempts : Settled(b) /\ (Owner(b)' /\ Recovered(b)' => Owner(b))
  PROVE  CoverInv'
<1>1. UNCHANGED <<refs, files, logs, active, snapshot>>
  BY DEF Quiet, walVars, tabletVars
<1>2. Referenced' = Referenced /\ InFiles' = InFiles
  BY <1>1 DEF Referenced, InFiles
<1>. SUFFICES ASSUME NEW b \in Attempts, Owner(b)', Recovered(b)' PROVE HeldInv(b)' /\ WholeInv(b)'
  BY DEF CoverInv, CoveredInv
<1>3. /\ HeldInv(b) /\ WholeInv(b)
      /\ VerifyAssigned(b)' => VerifyAssigned(b) /\ Logging(b)' = Logging(b)
  BY DEF CoverInv, CoveredInv, Settled
<1>4. HeldInv(b)'
  BY <1>1, <1>2, <1>3 DEF HeldInv
<1>5. WholeInv(b)'
  BY <1>1, <1>2, <1>3 DEF WholeInv, Pending, Installed, Output
<1>. QED  BY <1>4, <1>5

\* What the owner does concerns no other recovered attempt.
LEMMA CoverOthers ==
  ASSUME Base, Base', CoverInv, NEW self \in Attempts, Acts(self),
         Owner(self) \/ (refs' = refs /\ logs' = logs /\ files' = files)
  PROVE  \A b \in Attempts \ {self} : CoveredInv(b)'
<1>. SUFFICES ASSUME NEW b \in Attempts \ {self}, Owner(b)', Recovered(b)' PROVE HeldInv(b)' /\ WholeInv(b)'
  BY DEF CoveredInv
<1>1. Same(b)
  BY Alone DEF Base
<1>2. Owner(b) /\ Recovered(b)
  BY <1>1, OwnerStays DEF Owner, Live, Recovered, Same
<1>3. refs' = refs /\ logs' = logs /\ files' = files
  BY <1>2, OneOwner DEF Base
<1>4. Referenced' = Referenced /\ InFiles' = InFiles /\ HeldInv(b) /\ WholeInv(b)
  BY <1>2, <1>3 DEF Referenced, InFiles, CoverInv, CoveredInv
<1>5. HeldInv(b)'
  BY <1>1, <1>4 DEF HeldInv, Same, Memory, VerifyAssigned, Logging
<1>6. WholeInv(b)'
  BY <1>1, <1>3, <1>4 DEF WholeInv, Pending, Installed, Output, Same, Memory
<1>. QED  BY <1>5, <1>6

\* An attempt that recovers, adds a reference, logs or starts a batch.
LEMMA CoverLog ==
  ASSUME Faithful, Base, LogInv, CoverInv, NEW a \in Attempts,
         \/ Recover(a) \/ Reference(a) \/ ReferenceUnknown(a) \/ AppendFrame(a)
         \/ \E o \in Ops : StartCommit(a, o)
  PROVE  CoveredInv(a)' /\ files' = files /\ acked' = acked
<1>1. CASE Recover(a)
  <2>1. /\ UNCHANGED <<rowVars, walVars, snapshot>> /\ active'[a] = {r.op : r \in Referenced} /\ snapshot[a] = NoSnapshot
    BY <1>1, LogRecover
  <2>2. Referenced' = Referenced /\ files' = files /\ acked' = acked
    BY <1>1, <2>1 DEF Referenced, rowVars, walVars, Recover, clientVars
  <2>3. snapshot'[a].phase = "none"
    BY <2>1 DEF NoSnapshot
  <2>. QED  BY <2>1, <2>2, <2>3 DEF CoveredInv, HeldInv, WholeInv
<1>2. CASE Reference(a) \/ ReferenceUnknown(a)
  <2>1. /\ Referenced' = Referenced /\ logs' = logs
        /\ refs' = refs \/ (Owner(a) /\ current[a] \in Wals /\ refs' = refs \cup {current[a]})
        /\ UNCHANGED <<location, future, files, host, active, snapshot, acked>>
        /\ pc[a] = "reference" /\ pc'[a] \in {"append", "idle"}
    BY <1>2, LogReference DEF tabletVars, clientVars
  <2>. SUFFICES ASSUME Owner(a)' PROVE HeldInv(a)' /\ WholeInv(a)'
    BY <2>1 DEF CoveredInv
  <2>2. Owner(a) /\ Recovered(a) /\ InFiles' = InFiles
    BY <2>1 DEF Owner, OwnerMatches, Live, Recovered, InFiles
  <2>3. HeldInv(a) /\ WholeInv(a)
    BY <2>2 DEF CoverInv, CoveredInv
  <2>4. current[a] \in Wals => current[a] \notin snapshot[a].wals
    BY <2>2, TabletAssumption DEF LogInv, KnownInv, NoWal, Wals
  <2>5. HeldInv(a)'
    BY <2>1, <2>2, <2>3 DEF HeldInv, VerifyAssigned, Logging
  <2>6. WholeInv(a)'
    BY <2>1, <2>2, <2>3, <2>4 DEF WholeInv, Pending, Installed, Output
  <2>. QED  BY <2>5, <2>6
<1>3. CASE AppendFrame(a)
  <2>1. /\ Owner(a) /\ Recovered(a) /\ pc'[a] = "verify" /\ current[a] \notin snapshot[a].wals
        /\ UNCHANGED <<refs, files, host, request, active, snapshot, acked>>
    BY <1>3, LogAppend DEF rowVars, clientVars
  <2>2. PICK rec \in Record :
            /\ rec = [op |-> request[a], seq |-> nextSeq[a], by |-> a] /\ Referenced' = Referenced \cup {rec}
            /\ \A v \in Wals \ {current[a]} : logs'[v] = logs[v]
    BY <1>3, LogAppend
  <2>3. HeldInv(a) /\ WholeInv(a) /\ InFiles' = InFiles /\ snapshot[a].wals \subseteq Wals \ {current[a]}
    BY <2>1 DEF CoverInv, CoveredInv, InFiles, Base, TypeInv, TypeOK
  <2>4. rec.op \in Logging(a)' /\ Logging(a) = {}
    BY <1>3, <2>1, <2>2 DEF Logging, AppendFrame, Logged
  <2>5. HeldInv(a)'
    BY <2>1, <2>2, <2>3, <2>4 DEF HeldInv, VerifyAssigned
  <2>6. WholeInv(a)'
    BY <2>1, <2>2, <2>3 DEF WholeInv, Pending, Installed, Output
  <2>. QED  BY <2>1, <2>5, <2>6 DEF CoveredInv
<1>4. ASSUME NEW o \in Ops, StartCommit(a, o) PROVE CoveredInv(a)' /\ files' = files /\ acked' = acked
  <2>1. /\ pc[a] = "idle" /\ pc'[a] = "reference"
        /\ UNCHANGED <<location, future, refs, files, logs, host, active, snapshot, acked>>
    BY <1>4, LogStart DEF rowVars
  <2>. SUFFICES ASSUME Owner(a)' PROVE HeldInv(a)' /\ WholeInv(a)'
    BY <2>1 DEF CoveredInv
  <2>2. Owner(a) /\ Recovered(a) /\ InFiles' = InFiles /\ Referenced' = Referenced
    BY <2>1 DEF Owner, OwnerMatches, Live, Recovered, InFiles, Referenced
  <2>3. HeldInv(a) /\ WholeInv(a) /\ Logging(a) = {}
    BY <2>1, <2>2 DEF CoverInv, CoveredInv, Logging
  <2>4. HeldInv(a)'
    BY <2>1, <2>2, <2>3 DEF HeldInv, VerifyAssigned
  <2>5. WholeInv(a)'
    BY <2>1, <2>2, <2>3 DEF WholeInv, Pending, Installed, Output
  <2>. QED  BY <2>4, <2>5
<1>. QED  BY <1>1, <1>2, <1>3, <1>4

\* An attempt that applies a batch: it is acknowledged only when it is logged.
LEMMA CoverApply ==
  ASSUME Base, LogInv, CoverInv, NEW a \in Attempts, ApplyBatch(a) \/ \E o \in Ops : RepeatCommit(a, o)
  PROVE  /\ CoveredInv(a)' /\ ops' = ops /\ UNCHANGED <<refs, files, logs>>
         /\ acked' = acked \/ \E o \in Ops : acked' = acked \cup {o} /\ \E r \in ops[a] : r.op = o
<1>. USE Working
<1>1. /\ Recovered(a) /\ UNCHANGED <<location, future, refs, files, logs, ops, snapshot, host>>
      /\ pc'[a] \in {"run", "idle"} /\ active[a] \cup Logging(a) \subseteq active'[a]
      /\ acked' = acked \/ \E o \in Ops : acked' = acked \cup {o} /\ \E r \in ops[a] : r.op = o
  <2>1. CASE ApplyBatch(a)
    <3>1. /\ request[a] \in Ops /\ (\E r \in ops[a] : r.op = request[a]) /\ pc[a] = "verify" /\ Finish(a, request[a])
          /\ active'[a] = active[a] \cup {request[a]} /\ UNCHANGED <<location, future, refs, files, logs, ops, snapshot, host>>
      BY <2>1 DEF ApplyBatch, Control, Committing, TableInv, TypeOK, rowVars, walVars
    <3>. QED  BY <3>1, FinishIs DEF Goto, Logging, Recovered, TypeOK
  <2>2. ASSUME NEW o \in Ops, RepeatCommit(a, o)
        PROVE  /\ Recovered(a) /\ UNCHANGED <<location, future, refs, files, logs, ops, snapshot, host>>
               /\ pc'[a] \in {"run", "idle"} /\ active[a] \cup Logging(a) \subseteq active'[a]
               /\ acked' = acked \/ (acked' = acked \cup {o} /\ \E r \in ops[a] : r.op = o)
    <3>1. /\ (\E r \in ops[a] : r.op = o) /\ pc[a] = "idle" /\ Finish(a, o)
          /\ active[a] \subseteq active'[a] /\ UNCHANGED <<location, future, refs, files, logs, ops, snapshot, host>>
      BY <2>2 DEF RepeatCommit, Accepts, TypeOK, rowVars, walVars
    <3>. QED  BY <3>1, FinishIs DEF Goto, Logging, Recovered, TypeOK
  <2>. QED  BY <2>1, <2>2
<1>2. ASSUME Owner(a)' PROVE HeldInv(a)' /\ WholeInv(a)'
  <2>1. Owner(a) /\ InFiles' = InFiles /\ Referenced' = Referenced
    BY <1>1, <1>2 DEF Owner, OwnerMatches, Live, Recovered, InFiles, Referenced
  <2>2. HeldInv(a) /\ WholeInv(a)
    BY <1>1, <2>1 DEF CoverInv, CoveredInv
  <2>3. HeldInv(a)'
    BY <1>1, <2>1, <2>2 DEF HeldInv, VerifyAssigned
  <2>4. WholeInv(a)'
    BY <1>1, <2>1, <2>2 DEF WholeInv, Pending, Installed, Output
  <2>. QED  BY <2>3, <2>4
<1>. QED  BY <1>1, <1>2 DEF CoveredInv

\* A flush takes the memtable with every reference there is, and the rest of its way
\* changes what it holds only by installing it.
LEMMA CoverSeal ==
  ASSUME Base, LogInv, CoverInv, NEW a \in Attempts, Seal(a) \/ Publish(a) \/ CommitReconciled(a)
  PROVE  CoveredInv(a)' /\ UNCHANGED <<refs, files, logs, ops, acked>>
<1>. USE Working
<1>1. CASE Seal(a)
  <2>1. /\ snapshot'[a] = [ops |-> active[a], wals |-> refs, boundary |-> nextSeq[a] - 1, phase |-> "sealed"]
        /\ active'[a] = {} /\ pc[a] = "run" /\ snapshot[a].phase = "none"
        /\ VerifyAssigned(a) /\ OwnerMatches(LockOf[a])
        /\ UNCHANGED <<refs, files, logs, ops, acked>>
    BY <1>1 DEF Seal, CanSeal, rowVars, walVars, clientVars, TypeOK
  <2>2. /\ Owner(a) /\ Recovered(a) /\ Logging(a) = {} /\ InFiles' = InFiles /\ Referenced' = Referenced
        /\ snapshot[a].ops = {}
    BY <2>1 DEF Owner, Live, Recovered, Logging, InFiles, Referenced, Phased, NoSnapshot
  <2>3. \A r \in Referenced : r.op \in active[a] \cup InFiles
    BY <2>1, <2>2 DEF CoverInv, CoveredInv, HeldInv
  <2>4. HeldInv(a)'
    BY <2>1, <2>2, <2>3 DEF HeldInv
  <2>5. WholeInv(a)'
    <3>1. \A w \in refs : \A r \in Records(logs[w]) : r \in Referenced
      BY DEF Referenced
    <3>. QED  BY <2>1, <2>2, <2>3, <3>1 DEF WholeInv, Pending
  <2>. QED  BY <2>1, <2>4, <2>5 DEF CoveredInv
<1>2. CASE Publish(a) \/ CommitReconciled(a)
  <2>1. /\ snapshot'[a].ops = snapshot[a].ops /\ snapshot'[a].wals = snapshot[a].wals
        /\ snapshot[a].phase # "none" /\ pc[a] \in {"publish", "cas"} /\ pc'[a] \in {"commit", "retire"}
        /\ \/ snapshot'[a].phase = "published" /\ snapshot[a].phase = "sealed"
           \/ CommitApplied(Output(a), snapshot[a].wals)
        /\ UNCHANGED <<location, future, refs, files, logs, host, active, ops, acked>>
    <3>1. CASE Publish(a)
      BY <3>1, PublishIs DEF Goto, rowVars, walVars, clientVars, TypeOK, Phased
    <3>2. CASE CommitReconciled(a)
      BY <3>2, CommitReconciledIs DEF Goto, rowVars, walVars, clientVars, TypeOK, Phased
    <3>. QED  BY <1>2, <3>1, <3>2
  <2>. SUFFICES ASSUME Owner(a)' PROVE HeldInv(a)' /\ WholeInv(a)'
    BY <2>1 DEF CoveredInv
  <2>2. Owner(a) /\ Recovered(a) /\ Logging(a) = {} /\ InFiles' = InFiles /\ Referenced' = Referenced /\ Output(a)' = Output(a)
    BY <2>1 DEF Owner, OwnerMatches, Live, Recovered, Logging, InFiles, Referenced, Output
  <2>3. HeldInv(a) /\ WholeInv(a)
    BY <2>2 DEF CoverInv, CoveredInv
  <2>4. HeldInv(a)'
    BY <2>1, <2>2, <2>3 DEF HeldInv, VerifyAssigned
  <2>5. WholeInv(a)'
    BY <2>1, <2>2, <2>3 DEF WholeInv, Pending, Installed, CommitApplied
  <2>. QED  BY <2>4, <2>5
<1>. QED  BY <1>1, <1>2

\* An installed flush is forgotten, and the batch that waited for it is logged.
LEMMA CoverComplete ==
  ASSUME Base, LogInv, CoverInv, NEW a \in Attempts, Complete(a)
  PROVE  /\ CoveredInv(a)' /\ UNCHANGED <<refs, files, logs, ops>>
         /\ acked' = acked \/ \E o \in Ops : acked' = acked \cup {o} /\ \E r \in ops[a] : r.op = o
<1>. USE Working
<1>1. /\ snapshot'[a] = NoSnapshot /\ FlushDone(a) /\ pc[a] = "retire" /\ snapshot[a].phase = "committed"
      /\ UNCHANGED <<location, future, refs, files, logs, active, ops>>
  BY DEF Complete, rowVars, walVars, TypeOK, Phased
<1>2. /\ pc'[a] \in {"opened", "idle"} /\ host' = host
      /\ acked' = acked \/ acked' = acked \cup ({request[a]} \ {NoOp})
  BY <1>1, FlushDoneIs DEF Goto, TypeOK
<1>3. acked' = acked \/ \E o \in Ops : acked' = acked \cup {o} /\ \E r \in ops[a] : r.op = o
  <2>1. CASE request[a] = NoOp
    BY <1>2, <2>1
  <2>2. CASE request[a] # NoOp
    <3>1. request[a] \in Ops /\ (\E r \in ops[a] : r.op = request[a]) /\ {request[a]} \ {NoOp} = {request[a]}
      BY <1>1, <2>2 DEF TableInv, Flushing, TypeOK
    <3>. QED  BY <1>2, <3>1
  <2>. QED  BY <2>1, <2>2
<1>4. ASSUME Owner(a)' PROVE HeldInv(a)' /\ WholeInv(a)'
  <2>1. Owner(a) /\ Recovered(a) /\ Logging(a) = {} /\ InFiles' = InFiles /\ Referenced' = Referenced
    BY <1>1, <1>4 DEF Owner, OwnerMatches, Live, Recovered, Logging, InFiles, Referenced
  <2>2. HeldInv(a) /\ WholeInv(a)
    BY <2>1 DEF CoverInv, CoveredInv
  <2>3. snapshot[a].ops \subseteq InFiles
    <3>1. Output(a) \in files
      BY <1>1, <2>2 DEF WholeInv, Pending, Installed
    <3>2. Output(a).ops = snapshot[a].ops
      BY DEF Output
    <3>. QED  BY <3>1, <3>2 DEF InFiles
  <2>4. HeldInv(a)'
    BY <1>1, <1>2, <2>1, <2>2, <2>3 DEF HeldInv, VerifyAssigned
  <2>5. WholeInv(a)'
    BY <1>1 DEF WholeInv, NoSnapshot
  <2>. QED  BY <2>4, <2>5
<1>. QED  BY <1>1, <1>3, <1>4 DEF CoveredInv

\* The commit exchanges references for a file that holds what their WALs hold.
LEMMA CoverCommit ==
  ASSUME Base, LogInv, CoverInv, NEW a \in Attempts, CommitOutput(a) \/ CommitUnknown(a)
  PROVE  /\ CoveredInv(a)' /\ Owner(a) /\ UNCHANGED <<logs, ops, acked>>
         /\ \A r \in Referenced : r \in Referenced' \/ r.op \in InFiles'
         /\ \A w \in refs \ refs' : \A r \in Records(logs[w]) : r.op \in InFiles'
         /\ Referenced' \subseteq Referenced
         /\ InFiles' = InFiles \cup snapshot[a].ops
<1>. USE Working
<1>1. /\ Owner(a) /\ Recovered(a) /\ refs' = refs \ snapshot[a].wals /\ files' = files \cup {Output(a)}
      /\ snapshot'[a].ops = snapshot[a].ops /\ snapshot'[a].wals = snapshot[a].wals /\ snapshot[a].phase = "published"
      /\ pc[a] = "cas" /\ pc'[a] \in {"retire", "lost"}
      /\ UNCHANGED <<logs, ops, acked, host, active, request>>
  BY LogCommit DEF walVars, clientVars
<1>2. HeldInv(a) /\ WholeInv(a) /\ Logging(a) = {}
  BY <1>1 DEF CoverInv, CoveredInv, Logging
<1>3. InFiles' = InFiles \cup snapshot[a].ops
  <2>1. Output(a).ops = snapshot[a].ops
    BY DEF Output
  <2>. QED  BY <1>1, <2>1 DEF InFiles
<1>4. \A w \in snapshot[a].wals : \A r \in Records(logs[w]) : r.op \in InFiles'
  BY <1>1, <1>2, <1>3 DEF WholeInv
<1>5. Referenced' \subseteq Referenced /\ \A r \in Referenced : r \in Referenced' \/ r.op \in InFiles'
  BY <1>1, <1>4 DEF Referenced
<1>6. HeldInv(a)'
  BY <1>1, <1>2, <1>3, <1>5 DEF HeldInv, VerifyAssigned
<1>7. WholeInv(a)'
  <2>1. Output(a)' = Output(a)
    BY <1>1 DEF Output
  <2>. QED  BY <1>1, <1>4, <2>1 DEF WholeInv, Installed
<1>. QED  BY <1>1, <1>3, <1>4, <1>5, <1>6, <1>7 DEF CoveredInv

\* What is retired has left the row before.
LEMMA CoverRetire ==
  ASSUME Base, LogInv, CoverInv, NEW a \in Attempts, NEW w \in Wals, Retire(a, w)
  PROVE  CoveredInv(a)' /\ UNCHANGED <<refs, files, logs, ops, acked>>
<1>1. /\ Owner(a) /\ Recovered(a) /\ w \in snapshot[a].wals /\ refs' = refs \ {w} /\ snapshot[a].phase = "committed"
      /\ UNCHANGED <<files, logs, host, pc, request, ops, active, snapshot, acked>>
  BY LogRetire DEF tabletVars, clientVars
<1>2. HeldInv(a) /\ WholeInv(a)
  BY <1>1 DEF CoverInv, CoveredInv
<1>3. refs' = refs
  BY <1>1, <1>2 DEF WholeInv, Pending, Installed
<1>4. InFiles' = InFiles /\ Referenced' = Referenced
  BY <1>1, <1>3 DEF InFiles, Referenced
<1>5. HeldInv(a)'
  BY <1>1, <1>2, <1>4 DEF HeldInv, VerifyAssigned, Logging
<1>6. WholeInv(a)'
  BY <1>1, <1>2, <1>3, <1>4 DEF WholeInv, Pending, Installed, Output
<1>. QED  BY <1>1, <1>3, <1>5, <1>6 DEF CoveredInv

\* Every step keeps the owner's memory and its flush in step with the row.
LEMMA CoverKept == Faithful /\ Base /\ LogInv /\ CoverInv /\ [Next]_vars => CoverInv'
<1>. SUFFICES ASSUME Faithful, Base, LogInv, CoverInv, [Next]_vars PROVE CoverInv'
  OBVIOUS
<1>1. Base'
  BY BaseKept
<1>2. CASE \A a \in Attempts : ~Works(a)
  BY <1>2, QuietSteps, CoverQuiet
<1>3. ASSUME NEW a \in Attempts, Works(a) PROVE CoverInv'
  <2>1. Acts(a)
    BY <1>3 DEF Works, Acts, Step
  <2>2. CoveredInv(a)' /\ (Owner(a) \/ (refs' = refs /\ logs' = logs /\ files' = files))
    <3>1. CASE Recover(a)
      BY <3>1, CoverLog, LogRecover DEF rowVars, walVars
    <3>2. CASE Reference(a) \/ ReferenceUnknown(a)
      BY <3>2, CoverLog, LogReference
    <3>3. CASE AppendFrame(a)
      BY <3>3, CoverLog, LogAppend
    <3>4. CASE ApplyBatch(a) \/ \E o \in Ops : RepeatCommit(a, o)
      BY <3>4, CoverApply
    <3>5. CASE Seal(a) \/ Publish(a) \/ CommitReconciled(a)
      BY <3>5, CoverSeal
    <3>6. CASE Complete(a)
      BY <3>6, CoverComplete
    <3>7. CASE CommitOutput(a) \/ CommitUnknown(a)
      BY <3>7, CoverCommit
    <3>8. ASSUME NEW o \in Ops, StartCommit(a, o)
          PROVE  CoveredInv(a)' /\ refs' = refs /\ logs' = logs /\ files' = files
      BY <3>8, CoverLog, LogStart DEF rowVars
    <3>9. ASSUME NEW w \in Wals, Retire(a, w) PROVE CoveredInv(a)' /\ Owner(a)
      BY <3>9, CoverRetire, LogRetire
    <3>. QED  BY <1>3, <3>1, <3>2, <3>3, <3>4, <3>5, <3>6, <3>7, <3>8, <3>9 DEF Works
  <2>3. \A b \in Attempts \ {a} : CoveredInv(b)'
    BY <1>1, <2>1, <2>2, CoverOthers
  <2>. QED  BY <2>2, <2>3 DEF CoverInv
<1>. QED  BY <1>2, <1>3

----------------------------------------------------------------------------
(* What is durable stays durable *)

\* Durable batches are those in files and those in referenced WALs.
LEMMA DurableIs ==
  /\ Durable = InFiles \cup {r.op : r \in Referenced}
  /\ Durable' = InFiles' \cup {r.op : r \in Referenced'}
  BY DEF Durable, InLogs, Referenced

\* A step makes one batch durable, acknowledges one that is, or does neither; a table of
\* operations grows by durable batches, and a reference leaves for a file.
Preserves ==
    /\ \/ /\ Durable' = Durable
          /\ acked' = acked \/ \E o \in Ops : o \in Durable /\ acked' = acked \cup {o}
       \/ acked' = acked /\ \E o \in Ops : Durable' = Durable \cup {o}
    /\ \A b \in Attempts : \A r \in ops'[b] : r \in ops[b] \/ r.op \in Durable'
    /\ \A w \in refs \ refs' : \A r \in Records(logs[w]) : r.op \in InFiles'

\* Steps that leave the files and the referenced records alone.
LEMMA PreservesSame ==
  ASSUME DurableInv, NEW a \in Attempts, files' = files, Referenced' = Referenced, refs \subseteq refs',
         \A b \in Attempts \ {a} : ops'[b] = ops[b],
         ops'[a] \subseteq ops[a] \cup Referenced,
         acked' = acked \/ \E o \in Ops : acked' = acked \cup {o} /\ \E r \in ops[a] : r.op = o
  PROVE  Preserves
<1>1. InFiles' = InFiles
  BY DEF InFiles
<1>2. Durable' = Durable
  BY <1>1, DurableIs
<1>3. \A r \in Referenced : r.op \in Durable
  BY DurableIs
<1>4. acked' = acked \/ \E o \in Ops : o \in Durable /\ acked' = acked \cup {o}
  BY DEF DurableInv
<1>5. \A b \in Attempts : \A r \in ops'[b] : r \in ops[b] \/ r.op \in Durable'
  BY <1>2, <1>3
<1>. QED  BY <1>2, <1>4, <1>5 DEF Preserves

\* Every step preserves what is durable.
LEMMA StepsPreserve ==
  ASSUME Faithful, Base, LogInv, CoverInv, DurableInv, [Next]_vars
  PROVE  Preserves
<1>1. CASE \A a \in Attempts : ~Works(a)
  <2>1. UNCHANGED <<refs, files, logs, ops, acked>>
    BY <1>1, QuietSteps DEF Quiet, walVars, tabletVars, clientVars
  <2>2. Referenced' = Referenced /\ InFiles' = InFiles
    BY <2>1 DEF Referenced, InFiles
  <2>3. Durable' = Durable
    BY <2>2, DurableIs
  <2>. QED  BY <2>1, <2>3 DEF Preserves
<1>2. ASSUME NEW a \in Attempts, Works(a) PROVE Preserves
  <2>1. \A b \in Attempts \ {a} : ops'[b] = ops[b]
    <3>1. Acts(a) /\ TypeInv
      BY <1>2 DEF Works, Acts, Step, Base
    <3>. QED  BY <3>1, Alone DEF Same, Memory
  <2>2. CASE Recover(a)
    <3>1. UNCHANGED <<rowVars, walVars>> /\ ops'[a] = Referenced /\ acked' = acked
      BY <2>2, LogRecover, CoverLog
    <3>2. refs' = refs /\ files' = files /\ Referenced' = Referenced
      BY <3>1 DEF rowVars, walVars, Referenced
    <3>. QED  BY <2>1, <3>1, <3>2, PreservesSame
  <2>3. CASE Reference(a) \/ ReferenceUnknown(a)
    <3>1. Referenced' = Referenced /\ refs \subseteq refs' /\ UNCHANGED <<files, ops, acked>>
      BY <2>3, LogReference DEF tabletVars, clientVars
    <3>. QED  BY <2>1, <3>1, PreservesSame
  <2>4. CASE AppendFrame(a)
    <3>1. PICK rec \in Record :
            /\ rec = [op |-> request[a], seq |-> nextSeq[a], by |-> a]
            /\ ops'[a] = ops[a] \cup {rec} /\ Referenced' = Referenced \cup {rec}
      BY <2>4, LogAppend
    <3>2. UNCHANGED <<refs, files, acked>> /\ InFiles' = InFiles
      BY <2>4, LogAppend DEF rowVars, clientVars, InFiles
    <3>3. rec.op \in Ops
      BY DEF Record
    <3>4. Durable' = Durable \cup {rec.op}
      BY <3>1, <3>2, DurableIs
    <3>5. \A b \in Attempts : \A r \in ops'[b] : r \in ops[b] \/ r.op \in Durable'
      BY <2>1, <3>1, <3>4
    <3>. QED  BY <3>2, <3>3, <3>4, <3>5 DEF Preserves
  <2>5. CASE ApplyBatch(a) \/ \E o \in Ops : RepeatCommit(a, o)
    <3>1. /\ UNCHANGED <<refs, files, logs, ops>>
          /\ acked' = acked \/ \E o \in Ops : acked' = acked \cup {o} /\ \E r \in ops[a] : r.op = o
      BY <2>5, CoverApply
    <3>2. Referenced' = Referenced
      BY <3>1 DEF Referenced
    <3>. QED  BY <2>1, <3>1, <3>2, PreservesSame
  <2>6. CASE Seal(a) \/ Publish(a) \/ CommitReconciled(a)
    <3>1. UNCHANGED <<refs, files, logs, ops, acked>>
      BY <2>6, CoverSeal
    <3>2. Referenced' = Referenced
      BY <3>1 DEF Referenced
    <3>. QED  BY <2>1, <3>1, <3>2, PreservesSame
  <2>7. CASE Complete(a)
    <3>1. /\ UNCHANGED <<refs, files, logs, ops>>
          /\ acked' = acked \/ \E o \in Ops : acked' = acked \cup {o} /\ \E r \in ops[a] : r.op = o
      BY <2>7, CoverComplete
    <3>2. Referenced' = Referenced
      BY <3>1 DEF Referenced
    <3>. QED  BY <2>1, <3>1, <3>2, PreservesSame
  <2>8. CASE CommitOutput(a) \/ CommitUnknown(a)
    <3>1. /\ UNCHANGED <<ops, acked>> /\ Referenced' \subseteq Referenced /\ InFiles' = InFiles \cup snapshot[a].ops
          /\ \A r \in Referenced : r \in Referenced' \/ r.op \in InFiles'
          /\ \A w \in refs \ refs' : \A r \in Records(logs[w]) : r.op \in InFiles'
      BY <2>8, CoverCommit
    <3>2. snapshot[a].ops \subseteq Durable
      <4>1. \A o \in snapshot[a].ops : \E r \in ops[a] : r.op = o
        BY Working DEF TableInv
      <4>. QED  BY <4>1 DEF DurableInv
    <3>3. Durable' = Durable
      <4>1. Durable \subseteq Durable'
        BY <3>1, DurableIs
      <4>2. Durable' \subseteq Durable
        BY <3>1, <3>2, DurableIs
      <4>. QED  BY <4>1, <4>2
    <3>. QED  BY <3>1, <3>3 DEF Preserves
  <2>9. ASSUME NEW o \in Ops, StartCommit(a, o) PROVE Preserves
    <3>1. UNCHANGED <<refs, files, logs, ops, acked>>
      BY <2>9, LogStart DEF rowVars
    <3>2. Referenced' = Referenced
      BY <3>1 DEF Referenced
    <3>. QED  BY <2>1, <3>1, <3>2, PreservesSame
  <2>10. ASSUME NEW w \in Wals, Retire(a, w) PROVE Preserves
    <3>1. UNCHANGED <<refs, files, logs, ops, acked>>
      BY <2>10, CoverRetire
    <3>2. Referenced' = Referenced
      BY <3>1 DEF Referenced
    <3>. QED  BY <2>1, <3>1, <3>2, PreservesSame
  <2>. QED  BY <1>2, <2>2, <2>3, <2>4, <2>5, <2>6, <2>7, <2>8, <2>9, <2>10 DEF Works
<1>. QED  BY <1>1, <1>2

\* So tables and answers stay durable.
LEMMA DurableKept == Faithful /\ Base /\ LogInv /\ CoverInv /\ DurableInv /\ [Next]_vars => DurableInv'
<1>. SUFFICES ASSUME Faithful, Base, LogInv, CoverInv, DurableInv, [Next]_vars PROVE DurableInv'
  OBVIOUS
<1>1. Preserves
  BY StepsPreserve
<1>2. Durable \subseteq Durable' /\ acked' \subseteq acked \cup Durable
  BY <1>1 DEF Preserves
<1>. QED  BY <1>1, <1>2 DEF DurableInv, Preserves

Safe == Base /\ LogInv /\ CoverInv /\ DurableInv

\* Nothing is assigned, referenced or logged at first.
LEMMA InitSafe == Init => Safe
<1>. SUFFICES ASSUME Init PROVE Safe
  OBVIOUS
<1>1. TypeInv
  BY InitTypes
<1>2. Referenced = {} /\ refs = {} /\ \A a \in Attempts : ops[a] = {} /\ active[a] = {} /\ snapshot[a] = NoSnapshot
  BY DEF Init, RowInit, Referenced
<1>3. \A a \in Attempts : pc[a] = "none" /\ host[a] = "none" /\ nextSeq[a] = 1 /\ current[a] = NoWal
  BY DEF Init
<1>4. nextWal = 1 /\ acked = {} /\ \A w \in Wals : logs[w] = <<>>
  BY DEF Init
<1>5. LiveInv /\ Steady /\ CoverInv
  BY <1>3 DEF LiveInv, Live, Steady, CoverInv, CoveredInv, Owner
<1>6. RowInv
  BY <1>2, <1>4 DEF RowInv, Distinct
<1>7. ASSUME NEW a \in Attempts PROVE TableInv(a) /\ KnownInv(a)
  BY <1>2, <1>3, <1>4 DEF TableInv, KnownInv, Owner, Live, Distinct, NoSnapshot, NoWal, Flushing
<1>8. DurableInv
  BY <1>2, <1>4 DEF DurableInv
<1>. QED  BY <1>1, <1>5, <1>6, <1>7, <1>8 DEF Safe, Base, LogInv

\* The invariant of the write path, under the faults that keep memory and WAL in step.
THEOREM Safety == ASSUME Faithful PROVE Spec => []Safe
<1>1. Safe /\ [Next]_vars => Safe'
  BY BaseKept, LogKept, CoverKept, DurableKept DEF Safe
<1>. QED  BY <1>1, InitSafe, PTL DEF Spec

\* TabletRecoverable: the next owner can open the tablet whenever the last one stops.
\* Every referenced WAL exists, and recover finds neither a number nor an operation
\* twice in them (walauthority Open and recover).
THEOREM AlwaysRecoverable == ASSUME Faithful PROVE Spec => []TabletRecoverable
<1>1. Safe => TabletRecoverable
  BY DEF Safe, LogInv, RowInv, TabletRecoverable, Recoverable, Distinct, Referenced
<1>. QED  BY <1>1, Safety, PTL

\* AckedDurable: a batch that Commit acknowledged is in an installed file or in a
\* referenced WAL, for any number of crashes, lost locks, failed reads and writes,
\* unloads and reassignments.
THEOREM AcknowledgedSurvives == ASSUME Faithful PROVE Spec => []AckedDurable
<1>1. Safe => AckedDurable
  BY DEF Safe, DurableInv, AckedDurable
<1>. QED  BY <1>1, Safety, PTL

\* ReferencesCovered: a reference leaves the row only with a file that holds what its
\* WAL held, also when the commit is retried or its answer is lost.
THEOREM NoUncoveredReference == ASSUME Faithful PROVE Spec => ReferencesCovered
<1>1. Safe /\ [Next]_vars => [\A w \in refs \ refs' : {r.op : r \in Records(logs[w])} \subseteq InFiles']_vars
  BY StepsPreserve DEF Safe, Preserves
<1>. QED  BY <1>1, Safety, PTL DEF Spec, ReferencesCovered

\* The write path implements TabletContract: a batch becomes durable in one step, stays
\* durable, and is acknowledged only afterwards.
THEOREM RefinesContract == ASSUME Faithful PROVE Spec => ImplementsContract
<1>1. Init => Contract!Init
  <2>. SUFFICES ASSUME Init PROVE Contract!Init
    OBVIOUS
  <2>1. InFiles = {} /\ Referenced = {} /\ acked = {}
    BY DEF Init, RowInit, InFiles, Referenced
  <2>. QED  BY <2>1, DurableIs DEF Contract!Init
<1>2. Safe /\ [Next]_vars => [Contract!Next]_(Contract!vars)
  <2>. SUFFICES ASSUME Safe, [Next]_vars PROVE Contract!Next \/ UNCHANGED Contract!vars
    OBVIOUS
  <2>1. Preserves
    BY StepsPreserve DEF Safe
  <2>2. CASE Durable' = Durable /\ acked' = acked
    BY <2>2 DEF Contract!vars
  <2>3. ASSUME NEW o \in Ops, Durable' = Durable, o \in Durable, acked' = acked \cup {o} PROVE Contract!Next
    BY <2>3 DEF Contract!Next, Contract!Acknowledge
  <2>4. ASSUME NEW o \in Ops, Durable' = Durable \cup {o}, o \notin Durable, acked' = acked PROVE Contract!Next
    BY <2>4 DEF Contract!Next, Contract!Persist
  <2>. QED  BY <2>1, <2>2, <2>3, <2>4 DEF Preserves
<1>. QED  BY <1>1, <1>2, Safety, PTL DEF Spec, ImplementsContract, Contract!Spec

----------------------------------------------------------------------------
(* A batch is taken by one attempt *)

\* A batch is accepted only where it was taken before, if it was.
LEMMA AcceptedOnce ==
  ASSUME OneAttempt, TakenInv, NEW a \in Attempts, NEW b \in Attempts, NEW o \in Ops, Accepts(a, o), Took(b, o)
  PROVE  b = a
<1>1. session[o] = LockOf[b] /\ LockOf[b] # NoLock
  BY TabletAssumption DEF TakenInv
<1>2. Retries /\ session[o] = LockOf[a]
  BY <1>1 DEF Accepts
<1>. QED  BY <1>1, <1>2 DEF OneAttempt

\* What a working attempt does to tables, WALs, files and sessions.
Takes(a) ==
    /\ ops[a] \subseteq ops'[a]
    /\ \A r \in ops'[a] \ ops[a] : (r \in Referenced /\ r.by # a) \/ (r.by = a /\ r.op = request[a])
    /\ \A w \in Wals : \A r \in Records(logs'[w]) : r \in Records(logs[w]) \/ (r \in ops'[a] /\ r.by = a)
    /\ \A o \in InFiles' : o \in InFiles \/ \E r \in ops[a] : r.op = o
    /\ \/ session' = session /\ request'[a] \in {request[a], NoOp}
       \/ \E o \in Ops : Accepts(a, o) /\ request'[a] \in {o, NoOp}

\* Every working attempt does just that.
LEMMA WorksTake ==
  ASSUME Faithful, Base, LogInv, CoverInv, TakenInv, NEW a \in Attempts, Works(a)
  PROVE  Takes(a)
<1>. USE Working
<1>1. CASE Recover(a)
  <2>1. ops'[a] = Referenced /\ UNCHANGED <<rowVars, walVars>>
    BY <1>1, LogRecover
  <2>2. ops[a] = {} /\ UNCHANGED <<logs, files, session, request>>
    BY <1>1, <2>1 DEF Recover, Control, Blank, rowVars, walVars, clientVars
  <2>3. \A r \in Referenced : r.by # a
    BY <2>2 DEF TakenInv, Referenced
  <2>. QED  BY <2>1, <2>2, <2>3 DEF Takes, InFiles
<1>2. CASE Reference(a) \/ ReferenceUnknown(a)
  <2>1. UNCHANGED <<logs, files, ops, session>>
    BY <1>2, LogReference DEF tabletVars, clientVars
  <2>2. request'[a] \in {request[a], NoOp}
    BY <1>2 DEF Reference, ReferenceUnknown, Fail, TypeOK
  <2>. QED  BY <2>1, <2>2 DEF Takes, InFiles
<1>3. CASE AppendFrame(a)
  <2>1. PICK rec \in Record : /\ rec = [op |-> request[a], seq |-> nextSeq[a], by |-> a]
                              /\ ops'[a] = ops[a] \cup {rec}
                              /\ \A v \in Wals : Records(logs'[v]) \subseteq Records(logs[v]) \cup {rec}
    BY <1>3, LogAppend
  <2>2. UNCHANGED <<files, request, session>>
    BY <1>3, LogAppend DEF rowVars, clientVars
  <2>3. rec.by = a /\ rec.op = request[a]
    BY <2>1
  <2>. QED  BY <2>1, <2>2, <2>3 DEF Takes, InFiles
<1>4. CASE ApplyBatch(a)
  <2>1. UNCHANGED <<refs, files, logs, ops>>
    BY <1>4, CoverApply
  <2>2. session' = session /\ request'[a] \in {request[a], NoOp}
    <3>1. request[a] \in Ops /\ Finish(a, request[a]) /\ session' = session
      BY <1>4 DEF ApplyBatch, Control, Committing, TypeOK
    <3>. QED  BY <3>1, FinishIs DEF TypeOK
  <2>. QED  BY <2>1, <2>2 DEF Takes, InFiles
<1>5. ASSUME NEW o \in Ops, RepeatCommit(a, o) PROVE Takes(a)
  <2>1. UNCHANGED <<refs, files, logs, ops>>
    BY <1>5, CoverApply
  <2>2. Accepts(a, o) /\ Finish(a, o)
    BY <1>5 DEF RepeatCommit
  <2>3. request'[a] \in {o, NoOp}
    BY <2>2, FinishIs DEF TypeOK
  <2>. QED  BY <2>1, <2>2, <2>3 DEF Takes, InFiles
<1>6. CASE Seal(a) \/ Publish(a) \/ CommitReconciled(a)
  <2>1. UNCHANGED <<refs, files, logs, ops>>
    BY <1>6, CoverSeal
  <2>2. UNCHANGED <<request, session>>
    BY <1>6 DEF Seal, Publish, CommitReconciled, clientVars
  <2>. QED  BY <2>1, <2>2 DEF Takes, InFiles
<1>7. CASE Complete(a)
  <2>1. UNCHANGED <<refs, files, logs, ops>>
    BY <1>7, CoverComplete
  <2>2. FlushDone(a)
    BY <1>7 DEF Complete
  <2>3. session' = session /\ request'[a] \in {request[a], NoOp}
    BY <2>2, FlushDoneIs DEF TypeOK
  <2>. QED  BY <2>1, <2>3 DEF Takes, InFiles
<1>8. CASE CommitOutput(a) \/ CommitUnknown(a)
  <2>1. UNCHANGED <<logs, ops>> /\ InFiles' = InFiles \cup snapshot[a].ops
    BY <1>8, CoverCommit
  <2>2. UNCHANGED <<request, session>>
    BY <1>8, LogCommit DEF clientVars
  <2>3. \A o \in snapshot[a].ops : \E r \in ops[a] : r.op = o
    BY DEF TableInv
  <2>. QED  BY <2>1, <2>2, <2>3 DEF Takes
<1>9. ASSUME NEW o \in Ops, StartCommit(a, o) PROVE Takes(a)
  <2>1. UNCHANGED <<files, logs, ops>> /\ request'[a] = o
    BY <1>9, LogStart DEF rowVars
  <2>2. Accepts(a, o)
    BY <1>9 DEF StartCommit
  <2>. QED  BY <2>1, <2>2 DEF Takes, InFiles
<1>10. ASSUME NEW w \in Wals, Retire(a, w) PROVE Takes(a)
  <2>1. UNCHANGED <<files, logs, ops, request, session>>
    BY <1>10, LogRetire DEF tabletVars, clientVars
  <2>. QED  BY <2>1 DEF Takes, InFiles
<1>. QED  BY <1>1, <1>2, <1>3, <1>4, <1>5, <1>6, <1>7, <1>8, <1>9, <1>10 DEF Works

\* So a batch is logged and flushed only by the attempt that took it.
LEMMA TakenKept ==
  ASSUME Faithful, OneAttempt, Base, LogInv, CoverInv, TakenInv, [Next]_vars
  PROVE  TakenInv'
<1>1. CASE \A a \in Attempts : ~Works(a)
  <2>1. /\ UNCHANGED <<files, logs, ops, session>>
        /\ \A b \in Attempts : request'[b] \in {request[b], NoOp}
    BY <1>1, QuietSteps DEF Quiet, walVars, tabletVars, clientVars, Settled
  <2>2. InFiles' = InFiles /\ \A b \in Attempts, o \in Ops : Took(b, o)' => Took(b, o)
    BY <2>1, TabletAssumption DEF InFiles, Took
  <2>. QED  BY <2>1, <2>2 DEF TakenInv
<1>2. ASSUME NEW a \in Attempts, Works(a) PROVE TakenInv'
  <2>1. Takes(a) /\ TypeInv
    BY <1>2, WorksTake DEF Base
  <2>2. \A b \in Attempts \ {a} : ops'[b] = ops[b] /\ request'[b] = request[b]
    <3>1. Acts(a)
      BY <1>2 DEF Works, Acts, Step
    <3>. QED  BY <2>1, <3>1, Alone DEF Same, Memory
  <2>3. \A b \in Attempts, o \in Ops : Took(b, o)' => Took(b, o) \/ (b = a /\ Accepts(a, o))
    <3>. SUFFICES ASSUME NEW b \in Attempts, NEW o \in Ops, Took(b, o)', ~Took(b, o)
                  PROVE  b = a /\ Accepts(a, o)
      OBVIOUS
    <3>1. b = a
      BY <2>2 DEF Took
    <3>2. ~\E r \in ops'[a] : r.op = o /\ r.by = a
      BY <2>1, <3>1 DEF Took, Takes
    <3>3. request'[a] = o /\ request[a] # o /\ o # NoOp
      BY <3>1, <3>2, TabletAssumption DEF Took
    <3>4. Accepts(a, o)
      BY <2>1, <3>3 DEF Takes
    <3>. QED  BY <3>1, <3>4
  <2>4. ASSUME NEW b \in Attempts, NEW c \in Attempts, NEW o \in Ops, Took(b, o)', Took(c, o)' PROVE b = c
    <3>1. Took(b, o) /\ Took(c, o) => b = c
      BY DEF TakenInv
    <3>. QED  BY <2>3, <2>4, <3>1, AcceptedOnce
  <2>5. ASSUME NEW b \in Attempts, NEW o \in Ops, Took(b, o)' PROVE session'[o] = LockOf[b]
    <3>1. Took(b, o) => session[o] = LockOf[b]
      BY DEF TakenInv
    <3>2. session \in [Ops -> Locks \cup {NoLock}]
      BY <2>1 DEF TypeInv, TypeOK
    <3>3. CASE Accepts(a, o)
      <4>1. b = a
        BY <2>3, <2>5, <3>3, AcceptedOnce
      <4>. QED  BY <3>2, <3>3, <4>1 DEF Accepts
    <3>4. CASE ~Accepts(a, o)
      <4>1. session'[o] = session[o]
        BY <2>1, <3>2, <3>4 DEF Takes, Accepts
      <4>. QED  BY <2>3, <2>5, <3>1, <3>4, <4>1
    <3>. QED  BY <3>3, <3>4
  <2>6. \A b \in Attempts : ops[b] \subseteq ops'[b]
    BY <2>1, <2>2 DEF Takes
  <2>7. \A w \in Wals : \A r \in Records(logs[w]) : r.by \in Attempts /\ r \in ops[r.by]
    <3>1. ASSUME NEW w \in Wals, NEW k \in 1..Len(logs[w]) PROVE logs[w][k].by \in Attempts
      <4>1. logs[w] \in Seq(Record)
        BY <2>1 DEF TypeInv, TypeOK
      <4>2. logs[w][k] \in Record
        BY <4>1
      <4>. QED  BY <4>2 DEF Record
    <3>. QED  BY <3>1 DEF TakenInv, Records
  <2>8. \A b \in Attempts : \A r \in ops[b] : r.by \in Attempts /\ r \in ops[r.by]
    BY <2>1 DEF TakenInv, TypeInv, TypeOK, Record
  <2>9. \A r \in Referenced : r.by \in Attempts /\ r \in ops[r.by]
    BY <2>1, <2>7 DEF Referenced, TypeInv, TypeOK
  <2>10. ASSUME NEW b \in Attempts, NEW r \in ops'[b] PROVE r \in ops'[r.by]
    <3>1. r \in ops[b] \/ r \in Referenced \/ (b = a /\ r.by = a)
      BY <2>1, <2>2, <2>10 DEF Takes
    <3>. QED  BY <2>6, <2>8, <2>9, <2>10, <3>1
  <2>11. ASSUME NEW w \in Wals, NEW r \in Records(logs'[w]) PROVE r \in ops'[r.by]
    BY <2>1, <2>6, <2>7, <2>11 DEF Takes
  <2>12. ASSUME NEW o \in InFiles' PROVE \E b \in Attempts : \E r \in ops'[b] : r.op = o /\ r.by = b
    <3>1. CASE o \in InFiles
      BY <2>6, <3>1 DEF TakenInv
    <3>2. CASE \E r \in ops[a] : r.op = o
      BY <2>6, <2>8, <3>2
    <3>. QED  BY <2>1, <2>12, <3>1, <3>2 DEF Takes
  <2>. QED  BY <2>4, <2>5, <2>10, <2>11, <2>12 DEF TakenInv
<1>. QED  BY <1>1, <1>2

----------------------------------------------------------------------------
(* No batch in two files *)

\* Quiet steps keep that.
LEMMA OnceQuiet ==
  ASSUME Base', FlushInv, Quiet, \A b \in Attempts : Settled(b) /\ (Owner(b)' /\ Recovered(b)' => Owner(b))
  PROVE  FlushInv'
<1>1. UNCHANGED <<refs, files, logs, ops, applied, active, snapshot>>
  BY DEF Quiet, walVars, tabletVars
<1>2. Referenced' = Referenced /\ InFiles' = InFiles
  BY <1>1 DEF Referenced, InFiles
<1>3. SingleInv'
  BY <1>1, <1>2 DEF FlushInv, SingleInv, FlushedOnce
<1>4. ASSUME NEW b \in Attempts, VerifyAssigned(b)' PROVE AppliedInv(b)'
  <2>1. CASE Recovered(b)'
    BY <1>1, <1>4, <2>1 DEF FlushInv, AppliedInv, Settled
  <2>2. CASE ~Recovered(b)'
    BY <1>4, <2>2 DEF Base, TypeInv, ControlInv, Control, Blank, Recovered, VerifyAssigned, AppliedInv
  <2>. QED  BY <2>1, <2>2
<1>5. ASSUME NEW b \in Attempts, Owner(b)', Recovered(b)' PROVE FreshInv(b)' /\ ApartInv(b)'
  <2>1. FreshInv(b) /\ ApartInv(b) /\ Logging(b)' \subseteq Logging(b)
    BY <1>5 DEF FlushInv, OnceInv, Settled
  <2>2. FreshInv(b)'
    BY <1>1, <1>2, <2>1 DEF FreshInv
  <2>3. ApartInv(b)'
    BY <1>1, <1>2, <2>1 DEF ApartInv, Pending
  <2>. QED  BY <2>2, <2>3
<1>. QED  BY <1>3, <1>4, <1>5 DEF FlushInv, AppliedInv, OnceInv

\* What the owner does concerns no other recovered attempt.
LEMMA OnceOthers ==
  ASSUME Base, Base', FlushInv, NEW self \in Attempts, Acts(self),
         Owner(self) \/ (refs' = refs /\ logs' = logs /\ files' = files)
  PROVE  \A b \in Attempts \ {self} : AppliedInv(b)' /\ OnceInv(b)'
<1>. SUFFICES ASSUME NEW b \in Attempts \ {self} PROVE AppliedInv(b)' /\ OnceInv(b)'
  OBVIOUS
<1>1. Same(b)
  BY Alone DEF Base
<1>2. AppliedInv(b)'
  BY <1>1 DEF FlushInv, AppliedInv, Same, Memory, VerifyAssigned, Logging
<1>3. ASSUME Owner(b)', Recovered(b)' PROVE FreshInv(b)' /\ ApartInv(b)'
  <2>1. Owner(b) /\ Recovered(b)
    BY <1>1, <1>3, OwnerStays DEF Owner, Live, Recovered, Same
  <2>2. refs' = refs /\ logs' = logs /\ files' = files
    BY <2>1, OneOwner DEF Base
  <2>3. InFiles' = InFiles /\ FreshInv(b) /\ ApartInv(b)
    BY <2>1, <2>2 DEF InFiles, FlushInv, OnceInv
  <2>4. FreshInv(b)'
    BY <1>1, <2>3 DEF FreshInv, Same, Memory, Logging
  <2>5. ApartInv(b)'
    BY <1>1, <2>2, <2>3 DEF ApartInv, Pending, Same, Memory
  <2>. QED  BY <2>4, <2>5
<1>. QED  BY <1>2, <1>3 DEF OnceInv

\* The batch that is about to be logged is in no file.
LEMMA NewBatch ==
  ASSUME Base, LogInv, TakenInv, NEW a \in Attempts, pc[a] = "append"
  PROVE  request[a] \notin InFiles /\ request[a] \notin snapshot[a].ops
<1>. USE Working
<1>1. request[a] \in Ops /\ \A r \in ops[a] : r.op # request[a]
  BY DEF Control, Committing, TableInv, TypeOK
<1>2. ASSUME request[a] \in InFiles PROVE FALSE
  <2>1. PICK b \in Attempts : \E r \in ops[b] : r.op = request[a] /\ r.by = b
    BY <1>2 DEF TakenInv
  <2>2. Took(a, request[a]) /\ Took(b, request[a])
    BY <2>1 DEF Took
  <2>3. a = b
    BY <1>1, <2>2 DEF TakenInv
  <2>. QED  BY <1>1, <2>1, <2>3
<1>3. request[a] \notin snapshot[a].ops
  BY <1>1 DEF TableInv
<1>. QED  BY <1>2, <1>3

\* An attempt that recovers finds what no file has.
LEMMA OnceRecover ==
  ASSUME Base, LogInv, FlushInv, NEW a \in Attempts, Recover(a)
  PROVE  SingleInv' /\ AppliedInv(a)' /\ OnceInv(a)'
<1>1. /\ UNCHANGED <<rowVars, walVars, snapshot>> /\ ops'[a] = Referenced
      /\ active'[a] = {r.op : r \in Referenced} /\ applied'[a] = active'[a] /\ snapshot[a] = NoSnapshot
  BY LogRecover
<1>2. refs' = refs /\ files' = files /\ Referenced' = Referenced /\ InFiles' = InFiles /\ snapshot' = snapshot
  BY <1>1 DEF rowVars, walVars, Referenced, InFiles
<1>3. SingleInv'
  BY <1>2 DEF FlushInv, SingleInv, FlushedOnce
<1>4. AppliedInv(a)'
  BY <1>1 DEF AppliedInv
<1>5. FreshInv(a)' /\ ApartInv(a)'
  <2>1. snapshot'[a].phase = "none" /\ snapshot'[a].ops = {}
    BY <1>1, <1>2 DEF NoSnapshot
  <2>2. Logging(a)' = {}
    <3>1. pc'[a] # "verify"
      BY DEF Recover, Goto, Base, TypeInv, TypeOK
    <3>. QED  BY <3>1 DEF Logging
  <2>3. active'[a] \cap InFiles = {}
    BY <1>1 DEF FlushInv, SingleInv
  <2>. QED  BY <1>2, <2>1, <2>2, <2>3 DEF FreshInv, ApartInv
<1>. QED  BY <1>3, <1>4, <1>5 DEF OnceInv

\* A reference, or a batch that starts, adds no record.
LEMMA OnceReference ==
  ASSUME Base, LogInv, FlushInv, NEW a \in Attempts,
         Reference(a) \/ ReferenceUnknown(a) \/ \E o \in Ops : StartCommit(a, o)
  PROVE  SingleInv' /\ AppliedInv(a)' /\ OnceInv(a)'
<1>1. /\ Referenced' = Referenced /\ UNCHANGED <<location, future, files, logs, host, ops, applied, active, snapshot>>
      /\ refs' = refs \/ (Owner(a) /\ current[a] \in Wals /\ refs' = refs \cup {current[a]})
      /\ pc[a] \in {"reference", "idle"} /\ pc'[a] \in {"append", "idle", "reference"}
  <2>1. CASE Reference(a) \/ ReferenceUnknown(a)
    BY <2>1, LogReference DEF tabletVars
  <2>2. ASSUME NEW o \in Ops, StartCommit(a, o)
        PROVE  /\ Referenced' = Referenced /\ UNCHANGED <<location, future, files, logs, host, ops, applied, active, snapshot>>
               /\ refs' = refs /\ pc[a] = "idle" /\ pc'[a] = "reference"
    BY <2>2, LogStart DEF rowVars, Referenced
  <2>. QED  BY <2>1, <2>2
<1>2. Recovered(a) /\ Logging(a) = {} /\ Logging(a)' = {} /\ InFiles' = InFiles
  BY <1>1 DEF Recovered, Logging, InFiles
<1>3. SingleInv'
  BY <1>1, <1>2 DEF FlushInv, SingleInv, FlushedOnce
<1>4. AppliedInv(a)'
  BY <1>1, <1>2 DEF FlushInv, AppliedInv, VerifyAssigned
<1>5. ASSUME Owner(a)' PROVE FreshInv(a)' /\ ApartInv(a)'
  <2>1. Owner(a)
    BY <1>1, <1>2, <1>5 DEF Owner, OwnerMatches, Live, Recovered
  <2>2. FreshInv(a) /\ ApartInv(a)
    BY <1>2, <2>1 DEF FlushInv, OnceInv
  <2>3. refs' = refs \/ (refs' = refs \cup {current[a]} /\ current[a] \notin snapshot[a].wals /\ Records(logs[current[a]]) = {})
    <3>1. current[a] \in Wals => /\ current[a] \notin snapshot[a].wals
                                 /\ current[a] \in refs \/ logs[current[a]] = <<>>
      BY <1>2, <2>1, TabletAssumption DEF LogInv, KnownInv, NoWal, Wals
    <3>2. logs[current[a]] = <<>> => Records(logs[current[a]]) = {}
      BY DEF Records
    <3>3. current[a] \in refs => refs \cup {current[a]} = refs
      OBVIOUS
    <3>. QED  BY <1>1, <3>1, <3>2, <3>3
  <2>4. FreshInv(a)'
    BY <1>1, <1>2, <2>2 DEF FreshInv
  <2>5. ApartInv(a)'
    BY <1>1, <1>2, <2>2, <2>3 DEF ApartInv, Pending
  <2>. QED  BY <2>4, <2>5
<1>. QED  BY <1>3, <1>4, <1>5 DEF OnceInv

\* A record is logged for a batch that is in no file and in no pending flush.
LEMMA OnceAppend ==
  ASSUME Faithful, Base, LogInv, TakenInv, FlushInv, NEW a \in Attempts, AppendFrame(a)
  PROVE  SingleInv' /\ AppliedInv(a)' /\ OnceInv(a)'
<1>1. /\ Owner(a) /\ Recovered(a) /\ pc[a] = "append" /\ pc'[a] = "verify"
      /\ UNCHANGED <<refs, files, host, request, applied, active, snapshot>>
  BY LogAppend DEF rowVars, AppendFrame, Logged
<1>2. PICK rec \in Record : /\ rec = [op |-> request[a], seq |-> nextSeq[a], by |-> a]
                            /\ ops'[a] = ops[a] \cup {rec} /\ Referenced' = Referenced \cup {rec}
                            /\ \A v \in Wals : Records(logs'[v]) \subseteq Records(logs[v]) \cup {rec}
  BY LogAppend
<1>3. rec.op = request[a] /\ Logging(a) = {} /\ Logging(a)' = {request[a]} /\ InFiles' = InFiles
  BY <1>1, <1>2 DEF Logging, InFiles
<1>4. request[a] \notin InFiles /\ request[a] \notin snapshot[a].ops
  BY <1>1, NewBatch
<1>5. FreshInv(a) /\ ApartInv(a) /\ AppliedInv(a) /\ SingleInv /\ refs \subseteq Wals
  BY <1>1 DEF FlushInv, OnceInv, Base, TypeInv, TypeOK
<1>6. SingleInv'
  BY <1>1, <1>2, <1>3, <1>4, <1>5 DEF SingleInv, FlushedOnce
<1>7. AppliedInv(a)'
  BY <1>1, <1>2, <1>3, <1>5 DEF AppliedInv, VerifyAssigned
<1>8. FreshInv(a)'
  BY <1>1, <1>3, <1>4, <1>5 DEF FreshInv
<1>9. ApartInv(a)'
  BY <1>1, <1>2, <1>3, <1>4, <1>5 DEF ApartInv, Pending
<1>. QED  BY <1>6, <1>7, <1>8, <1>9 DEF OnceInv

\* A batch enters the memtable once, when it is applied: one that is repeated was applied.
LEMMA OnceApply ==
  ASSUME Base, LogInv, CoverInv, FlushInv, NEW a \in Attempts, ApplyBatch(a) \/ \E o \in Ops : RepeatCommit(a, o)
  PROVE  SingleInv' /\ AppliedInv(a)' /\ OnceInv(a)'
<1>. USE Working
<1>1. /\ Recovered(a) /\ UNCHANGED <<location, future, refs, files, logs, ops, snapshot, host>>
      /\ Logging(a)' = {} /\ active'[a] = active[a] \cup Logging(a) /\ applied[a] \cup Logging(a) \subseteq applied'[a]
  <2>1. CASE ApplyBatch(a)
    <3>1. /\ request[a] \in Ops /\ pc[a] = "verify" /\ Finish(a, request[a])
          /\ active'[a] = active[a] \cup {request[a]} /\ applied'[a] = applied[a] \cup {request[a]}
          /\ UNCHANGED <<location, future, refs, files, logs, ops, snapshot, host>>
      BY <2>1 DEF ApplyBatch, Control, Committing, TypeOK, rowVars, walVars
    <3>. QED  BY <3>1, FinishIs DEF Goto, Logging, Recovered, TypeOK
  <2>2. ASSUME NEW o \in Ops, RepeatCommit(a, o)
        PROVE  /\ Recovered(a) /\ UNCHANGED <<location, future, refs, files, logs, ops, snapshot, host>>
               /\ Logging(a)' = {} /\ active'[a] = active[a] \cup Logging(a) /\ applied[a] \cup Logging(a) \subseteq applied'[a]
    <3>1. /\ (\E r \in ops[a] : r.op = o) /\ pc[a] = "idle" /\ VerifyHosted(a) /\ Finish(a, o)
          /\ active'[a] = IF o \in applied[a] THEN active[a] ELSE active[a] \cup {o}
          /\ applied'[a] = applied[a] \cup {o}
          /\ UNCHANGED <<location, future, refs, files, logs, ops, snapshot, host>>
      <4>1. /\ (\E r \in ops[a] : r.op = o) /\ pc[a] = "idle" /\ VerifyHosted(a) /\ Finish(a, o)
            /\ active' = [active EXCEPT ![a] = IF o \in applied[a] THEN active[a] ELSE active[a] \cup {o}]
            /\ applied' = [applied EXCEPT ![a] = applied[a] \cup {o}]
            /\ UNCHANGED <<location, future, refs, files, logs, ops, snapshot, host>>
        BY <2>2 DEF RepeatCommit, Accepts, rowVars, walVars
      <4>. QED  BY <4>1 DEF TypeOK
    <3>2. Logging(a) = {} /\ o \in applied[a]
      BY <3>1 DEF Logging, FlushInv, AppliedInv, VerifyHosted, VerifyAssigned
    <3>. QED  BY <3>1, <3>2, FinishIs DEF Goto, Logging, Recovered, TypeOK
  <2>. QED  BY <2>1, <2>2
<1>2. InFiles' = InFiles /\ Referenced' = Referenced
  BY <1>1 DEF InFiles, Referenced
<1>3. SingleInv'
  BY <1>1, <1>2 DEF FlushInv, SingleInv, FlushedOnce
<1>4. AppliedInv(a)'
  BY <1>1 DEF FlushInv, AppliedInv, VerifyAssigned
<1>5. ASSUME Owner(a)' PROVE FreshInv(a)' /\ ApartInv(a)'
  <2>1. FreshInv(a) /\ ApartInv(a)
    BY <1>1, <1>5 DEF Owner, OwnerMatches, Live, Recovered, FlushInv, OnceInv
  <2>2. FreshInv(a)'
    BY <1>1, <1>2, <2>1 DEF FreshInv
  <2>3. ApartInv(a)'
    BY <1>1, <1>2, <2>1 DEF ApartInv, Pending
  <2>. QED  BY <2>2, <2>3
<1>. QED  BY <1>3, <1>4, <1>5 DEF OnceInv

\* A flush takes what no file has, and its checkpoint changes nothing about it.
LEMMA OnceFlush ==
  ASSUME Base, LogInv, CoverInv, FlushInv, NEW a \in Attempts,
         \/ Seal(a) \/ Publish(a) \/ CommitReconciled(a) \/ Complete(a)
         \/ \E w \in Wals : Retire(a, w)
  PROVE  SingleInv' /\ AppliedInv(a)' /\ OnceInv(a)'
<1>. USE Working
<1>1. UNCHANGED <<refs, files, logs, ops>>
  BY CoverSeal, CoverComplete, CoverRetire
<1>2. InFiles' = InFiles /\ Referenced' = Referenced
  BY <1>1 DEF InFiles, Referenced
<1>3. pc[a] \in Flushing /\ pc'[a] # "verify" /\ UNCHANGED <<location, future, host, applied>>
  <2>1. CASE Seal(a)
    BY <2>1 DEF Seal, Goto, Flushing, rowVars, TypeOK
  <2>2. CASE Publish(a)
    BY <2>2, PublishIs DEF Goto, Flushing, rowVars, TypeOK
  <2>3. CASE CommitReconciled(a)
    BY <2>3, CommitReconciledIs DEF Goto, Flushing, rowVars, TypeOK
  <2>4. CASE Complete(a)
    <3>1. FlushDone(a) /\ pc[a] = "retire" /\ UNCHANGED <<location, future, applied>>
      BY <2>4 DEF Complete, rowVars
    <3>. QED  BY <3>1, FlushDoneIs DEF Goto, Flushing, TypeOK
  <2>5. ASSUME NEW w \in Wals, Retire(a, w)
        PROVE  pc[a] \in Flushing /\ pc'[a] # "verify" /\ UNCHANGED <<location, future, host, applied>>
    BY <2>5 DEF Retire, RemoveReference, Flushing, tabletVars
  <2>. QED  BY <2>1, <2>2, <2>3, <2>4, <2>5
<1>4. Recovered(a) /\ Logging(a) = {} /\ Logging(a)' = {}
  BY <1>3 DEF Recovered, Logging, Flushing
<1>5. SingleInv' /\ AppliedInv(a)'
  BY <1>1, <1>2, <1>3, <1>4 DEF FlushInv, SingleInv, FlushedOnce, AppliedInv, VerifyAssigned
<1>6. ASSUME Owner(a)' PROVE FreshInv(a)' /\ ApartInv(a)'
  <2>1. FreshInv(a) /\ ApartInv(a)
    BY <1>3, <1>4, <1>6 DEF Owner, OwnerMatches, Live, Recovered, FlushInv, OnceInv
  <2>2. CASE Seal(a)
    <3>1. /\ snapshot'[a] = [ops |-> active[a], wals |-> refs, boundary |-> nextSeq[a] - 1, phase |-> "sealed"]
          /\ active'[a] = {}
      BY <2>2 DEF Seal, TypeOK
    <3>2. active[a] \cap InFiles = {}
      BY <2>1 DEF FreshInv
    <3>. QED  BY <1>1, <1>2, <1>4, <3>1, <3>2 DEF FreshInv, ApartInv
  <2>3. CASE Publish(a)
    <3>1. /\ snapshot'[a].ops = snapshot[a].ops /\ snapshot'[a].wals = snapshot[a].wals
          /\ snapshot[a].phase = "sealed" /\ active' = active
      BY <2>3, PublishIs DEF Phased
    <3>2. FreshInv(a)'
      BY <1>2, <1>4, <2>1, <3>1 DEF FreshInv
    <3>3. ApartInv(a)'
      BY <1>1, <1>2, <2>1, <3>1 DEF ApartInv, Pending
    <3>. QED  BY <3>2, <3>3
  <2>4. CASE CommitReconciled(a)
    <3>1. snapshot'[a].ops = snapshot[a].ops /\ snapshot'[a].phase = "committed" /\ active' = active
      BY <2>4, CommitReconciledIs
    <3>. QED  BY <1>2, <1>4, <2>1, <3>1 DEF FreshInv, ApartInv, Pending
  <2>5. CASE Complete(a)
    <3>1. snapshot'[a].ops = {} /\ snapshot'[a].phase = "none" /\ active' = active
      BY <2>5 DEF Complete, NoSnapshot, TypeOK
    <3>. QED  BY <1>2, <1>4, <2>1, <3>1 DEF FreshInv, ApartInv
  <2>6. ASSUME NEW w \in Wals, Retire(a, w) PROVE FreshInv(a)' /\ ApartInv(a)'
    <3>1. snapshot[a].phase = "committed" /\ snapshot' = snapshot /\ active' = active
      BY <2>6, LogRetire DEF tabletVars
    <3>. QED  BY <1>2, <1>4, <2>1, <3>1 DEF FreshInv, ApartInv, Pending
  <2>. QED  BY <2>2, <2>3, <2>4, <2>5, <2>6
<1>. QED  BY <1>5, <1>6 DEF OnceInv

\* The commit installs what no file has, and leaves no record of it in the row.
LEMMA OnceCommit ==
  ASSUME Base, LogInv, CoverInv, FlushInv, NEW a \in Attempts, CommitOutput(a) \/ CommitUnknown(a)
  PROVE  SingleInv' /\ AppliedInv(a)' /\ OnceInv(a)'
<1>1. /\ Owner(a) /\ Recovered(a) /\ snapshot[a].wals \subseteq refs /\ refs' = refs \ snapshot[a].wals
      /\ files' = files \cup {Output(a)}
      /\ snapshot'[a].ops = snapshot[a].ops /\ snapshot'[a].wals = snapshot[a].wals /\ snapshot[a].phase = "published"
      /\ pc[a] = "cas" /\ pc'[a] \in {"retire", "lost"}
      /\ UNCHANGED <<logs, host, ops, applied, active>>
  BY LogCommit DEF walVars
<1>2. snapshot[a].wals # {}
  BY DEF CommitOutput, CommitUnknown, CommitFile
<1>3. /\ FreshInv(a) /\ ApartInv(a) /\ Logging(a) = {} /\ Logging(a)' = {}
      /\ Output(a).ops = snapshot[a].ops
  BY <1>1 DEF FlushInv, OnceInv, Logging, Output
<1>4. /\ snapshot[a].ops \cap InFiles = {}
      /\ \A w \in refs \ snapshot[a].wals : \A r \in Records(logs[w]) : r.op \notin snapshot[a].ops
  BY <1>1, <1>2, <1>3 DEF ApartInv, Pending
<1>5. InFiles' = InFiles \cup snapshot[a].ops /\ \A f \in files : f.ops \subseteq InFiles
  BY <1>1, <1>3 DEF InFiles
<1>6. FlushedOnce'
  <2>1. \A f \in files : f.ops \cap Output(a).ops = {}
    BY <1>3, <1>4, <1>5
  <2>. QED  BY <1>1, <2>1 DEF FlushInv, SingleInv, FlushedOnce
<1>7. \A r \in Referenced' : r.op \notin InFiles'
  <2>1. \A r \in Referenced' : r \in Referenced /\ r.op \notin snapshot[a].ops
    BY <1>1, <1>4 DEF Referenced
  <2>. QED  BY <1>5, <2>1 DEF FlushInv, SingleInv
<1>8. AppliedInv(a)'
  BY <1>1, <1>3 DEF FlushInv, AppliedInv, VerifyAssigned
<1>9. FreshInv(a)'
  BY <1>1, <1>3, <1>5 DEF FreshInv
<1>10. ApartInv(a)'
  BY <1>1, <1>2 DEF ApartInv, Pending
<1>. QED  BY <1>6, <1>7, <1>8, <1>9, <1>10 DEF OnceInv, SingleInv

\* No step puts a batch into a second file.
LEMMA OnceKept ==
  ASSUME Faithful, Base, LogInv, CoverInv, TakenInv, FlushInv, [Next]_vars
  PROVE  FlushInv'
<1>1. Base'
  BY BaseKept
<1>2. CASE \A a \in Attempts : ~Works(a)
  BY <1>1, <1>2, QuietSteps, OnceQuiet
<1>3. ASSUME NEW a \in Attempts, Works(a) PROVE FlushInv'
  <2>1. Acts(a)
    BY <1>3 DEF Works, Acts, Step
  <2>2. SingleInv' /\ AppliedInv(a)' /\ OnceInv(a)'
    BY <1>3, OnceRecover, OnceReference, OnceAppend, OnceApply, OnceFlush, OnceCommit DEF Works
  <2>3. Owner(a) \/ (refs' = refs /\ logs' = logs /\ files' = files)
    <3>1. CASE Recover(a)
      BY <3>1, LogRecover DEF rowVars, walVars
    <3>2. CASE Reference(a) \/ ReferenceUnknown(a)
      BY <3>2, LogReference
    <3>3. CASE AppendFrame(a)
      BY <3>3, LogAppend
    <3>4. CASE ApplyBatch(a) \/ \E o \in Ops : RepeatCommit(a, o)
      BY <3>4, CoverApply
    <3>5. CASE Seal(a) \/ Publish(a) \/ CommitReconciled(a) \/ Complete(a)
      BY <3>5, CoverSeal, CoverComplete
    <3>6. CASE CommitOutput(a) \/ CommitUnknown(a)
      BY <3>6, LogCommit
    <3>7. ASSUME NEW o \in Ops, StartCommit(a, o) PROVE refs' = refs /\ logs' = logs /\ files' = files
      BY <3>7, LogStart DEF rowVars
    <3>8. ASSUME NEW w \in Wals, Retire(a, w) PROVE Owner(a)
      BY <3>8, LogRetire
    <3>. QED  BY <1>3, <3>1, <3>2, <3>3, <3>4, <3>5, <3>6, <3>7, <3>8 DEF Works
  <2>4. \A b \in Attempts \ {a} : AppliedInv(b)' /\ OnceInv(b)'
    BY <1>1, <2>1, <2>3, OnceOthers
  <2>. QED  BY <2>2, <2>4 DEF FlushInv
<1>. QED  BY <1>2, <1>3

\* FlushedOnce: no batch is in two installed files, although flushes are retried, their
\* answers lost and their WALs replayed, when a batch is not sent again to another
\* attempt under the same generation.
THEOREM NeverFlushedTwice == ASSUME Faithful, OneAttempt PROVE Spec => []FlushedOnce
<1>1. Init => TakenInv /\ FlushInv
  <2>. SUFFICES ASSUME Init PROVE TakenInv /\ FlushInv
    OBVIOUS
  <2>1. /\ files = {} /\ InFiles = {} /\ Referenced = {} /\ \A w \in Wals : Records(logs[w]) = {}
        /\ \A a \in Attempts : ops[a] = {} /\ request[a] = NoOp /\ pc[a] = "none"
    BY DEF Init, RowInit, InFiles, Referenced, Records
  <2>2. \A a \in Attempts, o \in Ops : ~Took(a, o)
    BY <2>1, TabletAssumption DEF Took
  <2>. QED  BY <2>1, <2>2 DEF TakenInv, FlushInv, SingleInv, FlushedOnce, AppliedInv, OnceInv, Owner, Live
<1>2. Safe /\ TakenInv /\ FlushInv /\ [Next]_vars => TakenInv' /\ FlushInv'
  BY TakenKept, OnceKept DEF Safe
<1>3. FlushInv => FlushedOnce
  BY DEF FlushInv, SingleInv
<1>. QED  BY <1>1, <1>2, <1>3, Safety, PTL DEF Spec
=============================================================================
