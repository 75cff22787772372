------------------------ MODULE UpdateSessionProofs ------------------------
(***************************************************************************)
(* What UpdateSession promises, proved for any mutations, limits and       *)
(* faults.                                                                 *)
(*                                                                         *)
(* Mutations are numbered in the order of the Add calls, so every buffer   *)
(* is an increasing sequence.  The wire size of a batch decides where an   *)
(* attempt is cut into batches and nothing else: no proof needs its value. *)
(***************************************************************************)
EXTENDS UpdateSession, WellFoundedInduction, TLAPS

----------------------------------------------------------------------------
(* Types *)

Muts == Seq(Mutations)
Ops == {"none", "room", "add", "flush", "close", "auto"}
FlushRecord == [phase : {"off", "plan", "start", "register", "send", "close"}, remaining : Muts, unsent : Muts,
                attempt : Nat, submitted : BOOLEAN]
WireRecord == [batches : Seq(Muts), last : {"none", "close", "cancel"}, up : BOOLEAN]
SessionRecord(sums) ==
    [state : {"none", "open", "gone"}, committed : Nat, failed : BOOLEAN, reported : Nat,
     refused : BOOLEAN, bytes : sums, running : Muts, late : BOOLEAN]
ServiceRecord == [accepting : BOOLEAN, drain : {"no", "waiting", "done"}]
ReplyRecord == [kind : {"none", "errors", "unknown"}, failed : BOOLEAN, reported : Nat, refused : BOOLEAN]
ToldRecord == [flushed : SUBSET Mutations, refused : SUBSET Mutations]
TabletRecord == [applied : SUBSET Mutations, again : SUBSET Mutations]
StrangeRecord == [overtaken : BOOLEAN, unknown : BOOLEAN, afterDrain : BOOLEAN]

WriterTypes ==
    /\ pending \in Muts /\ added \in 0..Len(Sizes)
    /\ closed \in BOOLEAN /\ closeErr \in BOOLEAN /\ failure \in BOOLEAN
    /\ op \in Ops /\ told \in ToldRecord
SessionTyped == \E sums : session \in SessionRecord(sums)
TypeInv ==
    /\ WriterTypes /\ flush \in FlushRecord /\ wire \in WireRecord /\ SessionTyped
    /\ service \in ServiceRecord /\ reply \in ReplyRecord
    /\ tablet \in TabletRecord /\ strange \in StrangeRecord

----------------------------------------------------------------------------
(* The writer *)

Increasing(s) == \A i, j \in 1..Len(s) : i < j => s[i] < s[j]
Elements(s) == {s[i] : i \in 1..Len(s)}

\* What a call in progress means for the state of the writer.
OpInv ==
    /\ op = "none" => flush = NoFlush
    /\ op # "none" => flush.phase # "off" /\ ~failure /\ ~closeErr /\ closed = (op = "close")
    /\ closeErr => closed
    /\ op \in {"room", "add"} => added > 0
    /\ op = "room" => added \notin Elements(pending)
    /\ op = "add" => pending # <<>> /\ pending[Len(pending)] = added

\* Buffers are increasing, and an attempt sends a part of what is buffered.
BufferInv ==
    /\ Increasing(pending) /\ Elements(pending) \subseteq 1..added
    /\ Increasing(flush.remaining) /\ Elements(flush.remaining) \subseteq Elements(pending)
    /\ Elements(flush.unsent) \subseteq Elements(pending)

Now == Elements(pending) \cup (IF op = "room" THEN {added} ELSE {})

\* The books of the caller: what Add took is what was flushed and what is buffered.
BookInv ==
    ~failure /\ ~closeErr =>
        (1..added) \ told.refused = told.flushed \cup Now /\ told.flushed \cap Now = {}

\* Whatever was sent was taken, and until a batch was submitted nothing of the buffer.
Flying == Elements(session.running) \cup UNION {Elements(wire.batches[i]) : i \in 1..Len(wire.batches)}
Sent == tablet.applied \cup Flying
SentInv ==
    /\ Sent \subseteq 1..added /\ told.refused \subseteq 1..added
    /\ Sent \cap told.refused = {}
    /\ op = "room" => added \notin Sent
    /\ ~failure /\ ~flush.submitted => Sent \cap Elements(pending) = {}

----------------------------------------------------------------------------
(* The drain *)

QuietInv ==
    /\ ~strange.afterDrain
    /\ service.accepting = (service.drain = "no")
    /\ session.state = "open" /\ ~service.accepting => session.late
    /\ service.drain = "done" => session.running = <<>> \/ session.late

----------------------------------------------------------------------------
(* An attempt *)

Straight == ~strange.overtaken
Plain == ~strange.overtaken /\ ~strange.unknown
Sending == flush.phase \in {"send", "close"}

\* Where the connection and the reply stand in each phase of an attempt.
PhaseInv ==
    /\ ~Sending /\ ~failure => /\ session.running = <<>> /\ wire.batches = <<>>
                               /\ wire.last = "none" /\ reply.kind = "none"
    /\ Sending => wire.up
    /\ flush.phase = "send" => wire.last = "none" /\ reply.kind = "none"
    /\ flush.phase = "close" =>
          /\ flush.unsent = <<>>
          /\ \/ wire.last = "close" /\ reply.kind = "none"
             \/ wire.last = "none" /\ reply.kind # "none" /\ wire.batches = <<>> /\ session.running = <<>>

\* The mutations of an attempt in their order: processed up to at[0], running up to
\* at[1], on the connection batch by batch, and the rest unsent.
Laid(at, all, run, bs, rest) ==
    /\ at \in [0..(Len(bs) + 1) -> 0..Len(all)]
    /\ \A i, j \in 0..(Len(bs) + 1) : i <= j => at[i] <= at[j]
    /\ run = SubSeq(all, at[0] + 1, at[1])
    /\ \A i \in 1..Len(bs) : bs[i] = SubSeq(all, at[i] + 1, at[i + 1])
    /\ rest = SubSeq(all, at[Len(bs) + 1] + 1, Len(all))
Cuts(at) == Laid(at, flush.remaining, session.running, wire.batches, flush.unsent)

\* The session counts what was committed of its attempt, as long as it is open and
\* every batch was committed in its turn; a failure freezes the count it reports.
Counting == session.state = "open" /\ ~session.refused
CountInv(done) ==
    /\ Counting /\ ~session.failed => session.committed = done
    /\ session.reported <= session.committed
    /\ Straight /\ Counting => /\ session.failed => session.reported = session.committed
                               /\ \A i \in 1..Len(flush.remaining) :
                                     i <= session.committed => flush.remaining[i] \in tablet.applied
    /\ Plain => \A i \in 1..Len(flush.remaining) :
          /\ i > done => flush.remaining[i] \notin tablet.applied
          /\ Counting /\ i > session.committed => flush.remaining[i] \notin tablet.applied
AttemptInv == Sending => \E at : Cuts(at) /\ CountInv(at[0])

\* What is not to be sent any more is committed, what is still to be sent is not.
RestInv ==
    /\ Straight /\ op # "none" => Elements(pending) \subseteq tablet.applied \cup Elements(flush.remaining)
    /\ Plain /\ op # "none" /\ ~Sending => Elements(flush.remaining) \cap tablet.applied = {}

\* A reply without a refusal tells what was committed of the attempt.
ReplyInv ==
    reply.kind = "errors" /\ ~reply.refused /\ Sending =>
        LET all == flush.remaining IN
        /\ Straight => \A i \in 1..Len(all) : i <= reply.reported \/ ~reply.failed => all[i] \in tablet.applied
        /\ Plain /\ reply.failed => \A i \in 1..Len(all) : i > reply.reported => all[i] \notin tablet.applied

\* Batches under way have no mutation in common, and none that was committed.
Disjoint(s, t) == Elements(s) \cap Elements(t) = {}
FlightInv ==
    /\ \A i \in 1..Len(wire.batches) :
          /\ Disjoint(session.running, wire.batches[i])
          /\ \A j \in 1..Len(wire.batches) : i # j => Disjoint(wire.batches[i], wire.batches[j])
    /\ Plain => tablet.again = {} /\ Flying \cap tablet.applied = {}

DoneInv == Straight => told.flushed \subseteq tablet.applied

----------------------------------------------------------------------------

(* Sequences of mutations *)

\* Mutations are the numbers up to the length of Sizes.
LEMMA MutationsRange == Mutations = 1..Len(Sizes) /\ Len(Sizes) \in Nat
  BY UpdateAssumption DEF Mutations

\* The set of a sequence.
LEMMA ElementsOf ==
  ASSUME NEW s \in Muts
  PROVE  /\ ToSet(s) = Elements(s) /\ Elements(s) \subseteq Mutations /\ Len(s) \in Nat
         /\ \A i \in 1..Len(s) : s[i] \in Mutations /\ s[i] \in Nat /\ s[i] \in Elements(s)
         /\ s = <<>> => Elements(s) = {}
  BY MutationsRange DEF Muts, ToSet, Elements

\* A part of a sequence.
LEMMA PartOf ==
  ASSUME NEW s \in Muts, NEW m \in Nat, NEW n \in 0..Len(s)
  PROVE  LET t == SubSeq(s, m + 1, n) IN
         /\ t \in Muts /\ Len(t) = IF m < n THEN n - m ELSE 0
         /\ \A i \in 1..Len(t) : t[i] = s[m + i]
         /\ Elements(t) = {s[i] : i \in (m + 1)..n}
         /\ Elements(t) \subseteq Elements(s)
         /\ Increasing(s) => Increasing(t)
         /\ t = <<>> => n <= m
  <1>. DEFINE t == SubSeq(s, m + 1, n)
  <1>1. Len(s) \in Nat
    BY DEF Muts
  <1>2. t = [i \in 1..(n - m) |-> s[i + m]] /\ t \in Muts /\ Len(t) = IF m < n THEN n - m ELSE 0
    BY <1>1 DEF Muts
  <1>3. \A i \in 1..Len(t) : t[i] = s[m + i]
    BY <1>1, <1>2
  <1>4. Elements(t) = {s[i] : i \in (m + 1)..n}
    <2>1. ASSUME NEW i \in (m + 1)..n PROVE s[i] \in Elements(t)
      <3>1. i - m \in 1..Len(t) /\ m + (i - m) = i
        BY <1>1, <1>2
      <3>. QED  BY <1>3, <3>1 DEF Elements
    <2>2. ASSUME NEW i \in 1..Len(t) PROVE m + i \in (m + 1)..n
      BY <1>1, <1>2
    <2>. HIDE DEF t
    <2>3. \A i \in 1..Len(t) : t[i] \in {s[j] : j \in (m + 1)..n}
      BY <1>3, <2>2
    <2>. QED  BY <2>1, <2>3 DEF Elements
  <1>5. Elements(t) \subseteq Elements(s)
    BY <1>1, <1>4 DEF Elements
  <1>6. ASSUME Increasing(s) PROVE Increasing(t)
    <2>. SUFFICES ASSUME NEW i \in 1..Len(t), NEW j \in 1..Len(t), i < j PROVE t[i] < t[j]
      BY DEF Increasing
    <2>1. m + i \in 1..Len(s) /\ m + j \in 1..Len(s) /\ m + i < m + j
      BY <1>1, <1>2
    <2>. QED  BY <1>3, <1>6, <2>1 DEF Increasing
  <1>7. t = <<>> => n <= m
    <2>. SUFFICES ASSUME t = <<>> PROVE n <= m
      OBVIOUS
    <2>1. Len(t) = 0
      OBVIOUS
    <2>. QED  BY <1>1, <1>2, <2>1
  <1>. QED  BY <1>2, <1>3, <1>4, <1>5, <1>6, <1>7

\* One more mutation at the end.
LEMMA AppendOf ==
  ASSUME NEW s \in Muts, NEW m \in Mutations
  PROVE  /\ Append(s, m) \in Muts /\ Append(s, m) # <<>> /\ Append(s, m)[Len(Append(s, m))] = m
         /\ Elements(Append(s, m)) = Elements(s) \cup {m}
         /\ Increasing(s) /\ (\A x \in Elements(s) : x < m) => Increasing(Append(s, m))
  <1>1. Len(s) \in Nat /\ Append(s, m) \in Muts /\ Len(Append(s, m)) = Len(s) + 1
    BY DEF Muts
  <1>2. \A i \in 1..(Len(s) + 1) : Append(s, m)[i] = IF i <= Len(s) THEN s[i] ELSE m
    BY DEF Muts
  <1>3. Append(s, m) # <<>> /\ Append(s, m)[Len(Append(s, m))] = m
    <2>1. PICK a \in Muts : a = Append(s, m)
      BY <1>1
    <2>2. Len(a) = Len(s) + 1 /\ a[Len(a)] = m
      BY <1>1, <1>2, <2>1
    <2>3. a # <<>>
      BY <1>1, <2>2
    <2>. QED  BY <2>1, <2>2, <2>3
  <1>4. Elements(Append(s, m)) = Elements(s) \cup {m}
    BY <1>1, <1>2 DEF Elements
  <1>5. Increasing(s) /\ (\A x \in Elements(s) : x < m) => Increasing(Append(s, m))
    BY <1>1, <1>2 DEF Increasing, Elements
  <1>. QED  BY <1>1, <1>3, <1>4, <1>5

\* All but the last mutation.
LEMMA FrontOf ==
  ASSUME NEW s \in Muts, s # <<>>, Increasing(s)
  PROVE  /\ Front(s) \in Muts /\ Increasing(Front(s))
         /\ Elements(Front(s)) = Elements(s) \ {s[Len(s)]} /\ s[Len(s)] \in Elements(s)
  <1>1. Len(s) \in Nat \ {0}
    BY DEF Muts
  <1>2. PICK n \in Nat : n = Len(s) - 1
    BY <1>1
  <1>3. PICK z \in Nat : z = 0 /\ Front(s) = SubSeq(s, z + 1, n) /\ n \in 0..Len(s)
    BY <1>1, <1>2 DEF Front
  <1>4. Front(s) \in Muts /\ Increasing(Front(s)) /\ Elements(Front(s)) = {s[i] : i \in 1..n}
    <2>1. Front(s) \in Muts /\ Increasing(Front(s)) /\ Elements(Front(s)) = {s[i] : i \in (z + 1)..n}
      BY <1>3, PartOf
    <2>. QED  BY <1>3, <2>1
  <1>5. \A i \in 1..Len(s) : s[i] \in Nat
    BY ElementsOf
  <1>6. \A i \in 1..n : s[i] # s[Len(s)]
    BY <1>1, <1>2, <1>5 DEF Increasing
  <1>7. 1..Len(s) = (1..n) \cup {Len(s)}
    BY <1>1, <1>2
  <1>8. Elements(s) = {s[i] : i \in 1..n} \cup {s[Len(s)]}
    BY <1>7 DEF Elements
  <1>. QED  BY <1>4, <1>6, <1>8

\* The largest of some numbers up to n.
LEMMA MaxOf ==
  ASSUME NEW n \in Nat, NEW S \in SUBSET (0..n), S # {}
  PROVE  Max(S) \in S
  <1>. DEFINE T == {n - k : k \in S}
              R == OpToRel(<, Nat)
  <1>1. T \subseteq Nat /\ T # {}
    <2>1. PICK k \in S : TRUE
      OBVIOUS
    <2>2. n - k \in T
      OBVIOUS
    <2>3. \A j \in S : n - j \in Nat
      OBVIOUS
    <2>. QED  BY <2>2, <2>3
  <1>2. \A x, y \in Nat : x < y => <<x, y>> \in R
    BY DEF OpToRel
  <1>3. IsWellFoundedOn(R, Nat)
    BY NatLessThanWellFounded
  <1>. HIDE DEF R
  <1>4. PICK x \in T : \A y \in T : ~(<<y, x>> \in R)
    BY <1>1, <1>3, WFMin
  <1>5. PICK m \in S : x = n - m
    OBVIOUS
  <1>6. \A k \in S : m >= k
    <2>. SUFFICES ASSUME NEW k \in S PROVE m >= k
      OBVIOUS
    <2>1. n - k \in T /\ n - k \in Nat /\ x \in Nat
      BY <1>1
    <2>2. ~(n - k < x)
      BY <1>2, <1>4, <2>1
    <2>. QED  BY <1>5, <2>2
  <1>. QED  BY <1>6 DEF Max

\* A batch takes one mutation at least and no more than there are.
LEMMA BatchLenOf ==
  ASSUME NEW s \in Muts, s # <<>>
  PROVE  BatchLen(s) \in 1..Len(s)
  <1>. DEFINE S == {k \in DOMAIN s : k = 1 \/ Bytes(SubSeq(s, 1, k)) <= MaxBatchBytes}
  <1>1. Len(s) \in Nat \ {0} /\ DOMAIN s = 1..Len(s)
    BY DEF Muts
  <1>2. S \in SUBSET (0..Len(s)) /\ 1 \in S /\ S \subseteq 1..Len(s)
    BY <1>1
  <1>. HIDE DEF S
  <1>3. Max(S) \in S
    BY <1>1, <1>2, MaxOf
  <1>4. BatchLen(s) = Max(S)
    BY DEF BatchLen, S
  <1>. QED  BY <1>2, <1>3, <1>4

----------------------------------------------------------------------------
(* What the steps do to the writer *)

Calls == Add \/ Flush \/ Close \/ AutomaticFlush
Ends == FailWriter \/ (KeepBuffer /\ ~flush.submitted) \/ Succeed
Again(muts) == flush' = [NoFlush EXCEPT !.phase = "plan", !.remaining = muts,
                                        !.attempt = flush.attempt + 1, !.submitted = flush.submitted]
               /\ UNCHANGED writer
Phases == Plan \/ (StartUpdate /\ service.accepting) \/ RegisterSession \/ SendBatch \/ SendClose
Serves == ServiceSteps \/ CommitFails \/ CommitUnknown \/ ExpireSession \/ Restart \/ Disconnect \/ BeginDrain \/ DrainDone

\* The rest of an attempt that a retry takes up: all of it, or what was not reported.
Rest == {flush.remaining} \cup
        {SubSeq(flush.remaining, reply.reported + 1, Len(flush.remaining)) : r \in {x \in {reply.kind} : x = "errors"}}

\* Every step is a call, a step of an attempt, the end of one, or none of the writer's.
LEMMA WriterForms ==
  ASSUME [Next]_vars
  PROVE  \/ Calls \/ Phases
         \/ Serves /\ UNCHANGED <<writer, flush>>
         \/ UNCHANGED vars
         \/ flush.phase # "off" /\ (PlanFails \/ StartUpdate \/ StartFails \/ SendFails \/ DecodeUpdateErrors)
            /\ (Ends \/ \E muts \in Rest : Again(muts))
  <1>1. \A muts : Retry(muts) => Again(muts) \/ FailWriter \/ (KeepBuffer /\ ~flush.submitted)
    BY DEF Retry, FinishSubmissionFailure, Again
  <1>2. flush.remaining \in Rest
    BY DEF Rest
  <1>3. CASE PlanFails \/ StartFails \/ (StartUpdate /\ ~service.accepting)
    <2>1. flush.phase \in {"plan", "start", "register"} /\ (Retry(flush.remaining) \/ FinishSubmissionFailure(flush.submitted))
      BY <1>3 DEF PlanFails, StartFails, StartUpdate
    <2>2. Ends \/ Again(flush.remaining)
      BY <1>1, <2>1 DEF FinishSubmissionFailure, Ends
    <2>. QED  BY <1>2, <1>3, <2>1, <2>2
  <1>4. CASE SendFails
    BY <1>4 DEF SendFails, Ends
  <1>5. CASE DecodeUpdateErrors
    <2>1. CASE reply.kind = "errors" /\ Retry(SubSeq(flush.remaining, reply.reported + 1, Len(flush.remaining)))
      <3>1. SubSeq(flush.remaining, reply.reported + 1, Len(flush.remaining)) \in Rest
        BY <2>1 DEF Rest
      <3>. QED  BY <1>1, <1>5, <2>1, <3>1 DEF DecodeUpdateErrors, Ends
    <2>. QED  BY <1>5, <2>1 DEF DecodeUpdateErrors, Ends
  <1>6. Serves => UNCHANGED <<writer, flush>>
    <2>1. ApplyUpdates => UNCHANGED <<writer, flush>>
      BY Zenon DEF ApplyUpdates
    <2>. QED  BY <2>1 DEF Serves, ServiceSteps, CommitApplied, CloseUpdate, CancelUpdate, CommitFails, CommitUnknown, ExpireSession, Restart,
                     Disconnect, BeginDrain, DrainDone
  <1>. QED  BY <1>3, <1>4, <1>5, <1>6 DEF Next, WriterSteps, FaultSteps, Calls, Phases, Serves

\* A buffer and its flush, if it begins.
Fresh(b) ==
    /\ pending' = b /\ flush' \in FlushRecord /\ flush'.unsent = <<>> /\ ~flush'.submitted
    /\ \/ op' = "none" /\ flush' = NoFlush
       \/ op' # "none" /\ flush'.phase = "plan" /\ flush'.remaining = b

\* See above.
LEMMA FreshBuffer ==
  ASSUME NEW b \in Muts
  PROVE  /\ NoFlush \in FlushRecord /\ NoFlush.unsent = <<>> /\ NoFlush.remaining = <<>> /\ ~NoFlush.submitted /\ NoFlush.phase = "off"
         /\ \A call : call # "none" /\ Begin(call, b) => Fresh(b) /\ op' = call
         /\ \A m \in Mutations : Buffer(b, m) => Fresh(Append(b, m)) /\ op' \in {"add", "none"}
  <1>1. NoFlush \in FlushRecord /\ NoFlush.unsent = <<>> /\ NoFlush.remaining = <<>> /\ ~NoFlush.submitted /\ NoFlush.phase = "off"
    BY DEF NoFlush, FlushRecord, Muts
  <1>2. ASSUME NEW c \in Muts, NEW f, f = [NoFlush EXCEPT !.phase = "plan", !.remaining = c]
        PROVE  f \in FlushRecord /\ f.unsent = <<>> /\ ~f.submitted /\ f.phase = "plan" /\ f.remaining = c
    <2>1. f = [phase |-> "plan", remaining |-> c, unsent |-> <<>>, attempt |-> 0, submitted |-> FALSE]
      BY <1>2 DEF NoFlush
    <2>2. <<>> \in Muts
      BY DEF Muts
    <2>. QED  BY <2>1, <2>2 DEF FlushRecord
  <1>3. \A call : call # "none" /\ Begin(call, b) => Fresh(b) /\ op' = call
    BY <1>2 DEF Begin, Fresh
  <1>4. ASSUME NEW m \in Mutations, Buffer(b, m) PROVE Fresh(Append(b, m)) /\ op' \in {"add", "none"}
    <2>1. Append(b, m) \in Muts
      BY AppendOf
    <2>2. \/ Begin("add", Append(b, m))
          \/ pending' = Append(b, m) /\ op' = "none" /\ flush' = NoFlush
      BY <1>4 DEF Buffer
    <2>3. PICK a \in Muts : a = Append(b, m)
      BY <2>1
    <2>4. CASE Begin("add", a)
      <3>1. op' = "add" /\ pending' = a /\ flush' = [NoFlush EXCEPT !.phase = "plan", !.remaining = a]
        BY <2>4 DEF Begin
      <3>2. flush' \in FlushRecord /\ flush'.unsent = <<>> /\ ~flush'.submitted /\ flush'.phase = "plan" /\ flush'.remaining = a
        BY <1>2, <3>1
      <3>. QED  BY <2>3, <3>1, <3>2 DEF Fresh
    <2>5. CASE pending' = a /\ op' = "none" /\ flush' = NoFlush
      BY <1>1, <2>3, <2>5 DEF Fresh
    <2>. QED  BY <2>2, <2>3, <2>4, <2>5
  <1>. QED  BY <1>1, <1>3, <1>4

\* What Retry's next attempt looks like.
LEMMA AgainEffect ==
  ASSUME TypeInv, NEW muts \in Muts, Again(muts)
  PROVE  /\ flush' \in FlushRecord /\ flush'.phase = "plan" /\ flush'.remaining = muts /\ flush'.unsent = <<>>
         /\ flush'.submitted = flush.submitted /\ UNCHANGED writer
  <1>1. flush.attempt + 1 \in Nat /\ flush.submitted \in BOOLEAN
    BY DEF TypeInv, FlushRecord
  <1>2. flush' = [phase |-> "plan", remaining |-> muts, unsent |-> <<>>, attempt |-> flush.attempt + 1, submitted |-> flush.submitted]
    BY DEF Again, NoFlush
  <1>3. <<>> \in Muts /\ UNCHANGED writer
    BY DEF Muts, Again
  <1>. QED  BY <1>1, <1>2, <1>3 DEF FlushRecord

\* A retry takes up a part of the attempt.
LEMMA RestOf ==
  ASSUME TypeInv, NEW muts \in Rest
  PROVE  /\ muts \in Muts /\ Elements(muts) \subseteq Elements(flush.remaining)
         /\ Increasing(flush.remaining) => Increasing(muts)
  <1>1. PICK all \in Muts : all = flush.remaining
    BY DEF TypeInv, FlushRecord
  <1>2. PICK n \in Nat : n = reply.reported
    BY DEF TypeInv, ReplyRecord
  <1>3. muts = all \/ muts = SubSeq(all, n + 1, Len(all))
    BY <1>1, <1>2 DEF Rest
  <1>4. Len(all) \in 0..Len(all)
    BY DEF Muts
  <1>5. LET t == SubSeq(all, n + 1, Len(all)) IN
        t \in Muts /\ Elements(t) \subseteq Elements(all) /\ (Increasing(all) => Increasing(t))
    BY <1>4, PartOf
  <1>. QED  BY <1>1, <1>3, <1>5

\* A batch and what is left after it.
LEMMA SendEffect ==
  ASSUME TypeInv, SendBatch
  PROVE  \E k \in Nat \ {0} :
           /\ k <= Len(flush.unsent)
           /\ wire'.batches = Append(wire.batches, SubSeq(flush.unsent, 0 + 1, k))
           /\ wire' \in WireRecord /\ wire'.last = wire.last /\ wire'.up = wire.up
           /\ flush'.unsent = SubSeq(flush.unsent, k + 1, Len(flush.unsent))
           /\ flush' \in FlushRecord /\ flush'.submitted
           /\ flush'.phase = flush.phase /\ flush'.remaining = flush.remaining
  <1>1. PICK s \in Muts : s = flush.unsent /\ s # <<>>
    BY DEF TypeInv, FlushRecord, SendBatch
  <1>2. PICK k \in Nat \ {0} : k = BatchLen(s) /\ k \in 0..Len(s) /\ Len(s) \in 0..Len(s)
    <2>1. BatchLen(s) \in 1..Len(s) /\ Len(s) \in Nat
      BY <1>1, BatchLenOf DEF Muts
    <2>. QED  BY <2>1
  <1>3. PICK b \in Muts, r \in Muts : b = SubSeq(s, 0 + 1, k) /\ r = SubSeq(s, k + 1, Len(s))
    <2>1. PICK z \in Nat : z = 0
      OBVIOUS
    <2>2. SubSeq(s, z + 1, k) \in Muts /\ SubSeq(s, k + 1, Len(s)) \in Muts
      BY <1>2, PartOf
    <2>. QED  BY <2>1, <2>2
  <1>4. wire' = [wire EXCEPT !.batches = Append(wire.batches, b)] /\ flush' = [flush EXCEPT !.submitted = TRUE, !.unsent = r]
    <2>1. 0 + 1 = 1
      OBVIOUS
    <2>. QED  BY <1>1, <1>2, <1>3, <2>1, Zenon DEF SendBatch
  <1>5. wire \in WireRecord /\ flush \in FlushRecord /\ Append(wire.batches, b) \in Seq(Muts)
    BY DEF TypeInv, WireRecord
  <1>6. wire' \in WireRecord /\ wire'.last = wire.last /\ wire'.up = wire.up /\ wire'.batches = Append(wire.batches, b)
    BY <1>4, <1>5 DEF WireRecord
  <1>7. /\ flush' \in FlushRecord /\ flush'.submitted /\ flush'.unsent = r
        /\ flush'.phase = flush.phase /\ flush'.remaining = flush.remaining
    BY <1>4, <1>5 DEF FlushRecord
  <1>8. k <= Len(flush.unsent)
    BY <1>1, <1>2 DEF Muts
  <1>. QED  BY <1>1, <1>3, <1>6, <1>7, <1>8

\* What a call does to the writer: Add buffers, or asks for room first; the others
\* begin a flush, or Close returns at once.
LEMMA CallsEffect ==
  ASSUME TypeInv, OpInv, Calls
  PROVE  /\ op = "none" /\ ~closed /\ ~closeErr
         /\ UNCHANGED <<told, failure, wire, session, service, reply, tablet, strange>>
         /\ \/ /\ added' = added + 1 /\ added' \in Mutations /\ ~failure /\ UNCHANGED <<closed, closeErr>>
               /\ \/ Fresh(pending) /\ op' = "room"
                  \/ Fresh(Append(pending, added')) /\ op' \in {"add", "none"}
            \/ /\ added' = added /\ ~failure /\ UNCHANGED closeErr /\ Fresh(pending)
               /\ (op' \in {"flush", "auto"} /\ UNCHANGED closed) \/ (op' = "close" /\ closed' = TRUE)
            \/ /\ closed' = TRUE /\ closeErr' = failure /\ UNCHANGED <<op, pending, flush, added>>
  <1>1. op = "none" /\ ~closed /\ UNCHANGED <<told, failure, wire, session, service, reply, tablet, strange>>
    BY DEF Calls, Add, Flush, Close, AutomaticFlush
  <1>2. ~closeErr /\ pending \in Muts /\ added \in 0..Len(Sizes)
    BY <1>1 DEF OpInv, TypeInv, WriterTypes
  <1>3. \A call : call # "none" /\ Begin(call, pending) => Fresh(pending) /\ op' = call
    BY <1>2, FreshBuffer
  <1>4. CASE Add
    <2>1. added' = added + 1 /\ added' \in Mutations /\ ~failure /\ UNCHANGED <<closed, closeErr>>
      BY <1>2, <1>4, MutationsRange DEF Add
    <2>2. Begin("room", pending) \/ Buffer(pending, added')
      BY <1>4, <2>1 DEF Add
    <2>3. Buffer(pending, added') => Fresh(Append(pending, added')) /\ op' \in {"add", "none"}
      BY <1>2, <2>1, FreshBuffer
    <2>. QED  BY <1>1, <1>2, <1>3, <2>1, <2>2, <2>3
  <1>5. CASE Flush
    BY <1>1, <1>2, <1>3, <1>5 DEF Flush
  <1>6. CASE Close
    BY <1>1, <1>2, <1>3, <1>6 DEF Close
  <1>7. CASE AutomaticFlush
    BY <1>1, <1>2, <1>3, <1>7 DEF AutomaticFlush
  <1>. QED  BY <1>4, <1>5, <1>6, <1>7 DEF Calls

\* What the end of a flush does to the writer.
LEMMA EndsEffect ==
  ASSUME TypeInv, OpInv, BufferInv, flush.phase # "off", Ends
  PROVE  /\ op # "none" /\ ~failure /\ ~closeErr /\ UNCHANGED <<added, closed>>
         /\ \/ /\ UNCHANGED <<closeErr, failure>> /\ told' \in ToldRecord
               /\ told'.refused = told.refused /\ told'.flushed = told.flushed \cup Elements(pending)
               /\ \/ op = "room" /\ Fresh(Append(<<>>, added)) /\ op' \in {"add", "none"}
                  \/ op # "room" /\ Fresh(<<>>) /\ op' = "none"
            \/ /\ failure' = TRUE /\ closeErr' = (op = "close") /\ told' = told
               /\ Fresh(<<>>) /\ op' = "none"
            \/ /\ ~flush.submitted /\ failure' = (op = "auto") /\ closeErr' = (op = "close") /\ op' = "none"
               /\ \/ op = "add" /\ Fresh(Front(pending))
                  \/ op \in {"close", "auto"} /\ Fresh(<<>>)
                  \/ op \in {"flush", "room"} /\ Fresh(pending)
               /\ told' \in ToldRecord /\ told'.flushed = told.flushed
               /\ told'.refused = told.refused \cup (IF op \in {"add", "room"} THEN {added} ELSE {})
  <1>1. op # "none" /\ ~failure /\ ~closeErr
    BY DEF OpInv, NoFlush
  <1>2. /\ pending \in Muts /\ op \in Ops /\ told \in ToldRecord /\ <<>> \in Muts /\ NoFlush \in FlushRecord
        /\ NoFlush.unsent = <<>> /\ ~NoFlush.submitted
    BY FreshBuffer DEF TypeInv, WriterTypes, Muts
  <1>3. op \in {"room", "add"} => added \in Mutations
    BY MutationsRange DEF TypeInv, WriterTypes, OpInv
  <1>4. CASE Succeed
    <2>1. Elements(pending) \subseteq Mutations /\ ToSet(pending) = Elements(pending)
      BY <1>2, ElementsOf
    <2>2. UNCHANGED <<added, closed, closeErr, failure>> /\ told' = [told EXCEPT !.flushed = told.flushed \cup Elements(pending)]
      BY <1>4, <2>1 DEF Succeed
    <2>3. told' \in ToldRecord /\ told'.refused = told.refused /\ told'.flushed = told.flushed \cup Elements(pending)
      BY <1>2, <2>1, <2>2 DEF ToldRecord
    <2>4. CASE op = "room"
      <3>1. Buffer(<<>>, added)
        BY <1>4, <2>4 DEF Succeed
      <3>2. Fresh(Append(<<>>, added)) /\ op' \in {"add", "none"}
        BY <1>2, <1>3, <2>4, <3>1, FreshBuffer
      <3>. QED  BY <1>1, <2>2, <2>3, <2>4, <3>2
    <2>5. CASE op # "room"
      BY <1>1, <1>2, <1>4, <2>2, <2>3, <2>5 DEF Succeed, Fresh
    <2>. QED  BY <2>4, <2>5
  <1>5. CASE FailWriter
    BY <1>1, <1>2, <1>5 DEF FailWriter, Fresh
  <1>6. CASE KeepBuffer /\ ~flush.submitted
    <2>1. /\ UNCHANGED <<added, closed>> /\ failure' = (op = "auto") /\ closeErr' = (op = "close") /\ op' = "none" /\ flush' = NoFlush
          /\ told' = IF op \in {"add", "room"} THEN [told EXCEPT !.refused = told.refused \cup {added}] ELSE told
          /\ pending' = IF op = "add" THEN Front(pending) ELSE IF op \in {"close", "auto"} THEN <<>> ELSE pending
      BY <1>6 DEF KeepBuffer
    <2>2. /\ told' \in ToldRecord /\ told'.flushed = told.flushed
          /\ told'.refused = told.refused \cup (IF op \in {"add", "room"} THEN {added} ELSE {})
      BY <1>2, <1>3, <2>1 DEF ToldRecord
    <2>3. \A b : pending' = b => Fresh(b)
      BY <1>2, <2>1 DEF Fresh
    <2>4. \/ op = "add" /\ Fresh(Front(pending))
          \/ op \in {"close", "auto"} /\ Fresh(<<>>)
          \/ op \in {"flush", "room"} /\ Fresh(pending)
      BY <1>1, <1>2, <2>1, <2>3 DEF Ops
    <2>. QED  BY <1>1, <1>6, <2>1, <2>2, <2>4
  <1>. QED  BY <1>4, <1>5, <1>6 DEF Ends

\* The phases of an attempt leave the writer alone.
LEMMA PhasesEffect ==
  ASSUME TypeInv, Phases
  PROVE  /\ UNCHANGED writer /\ flush.phase # "off" /\ flush'.phase # "off" /\ flush' \in FlushRecord
         /\ flush'.remaining = flush.remaining
         /\ Elements(flush'.unsent) \subseteq Elements(flush.unsent) \cup Elements(flush.remaining)
         /\ flush'.submitted = flush.submitted \/ (SendBatch /\ flush'.submitted)
  <1>1. flush \in FlushRecord /\ flush.remaining \in Muts /\ flush.unsent \in Muts
    BY DEF TypeInv, FlushRecord
  <1>2. CASE Plan \/ (StartUpdate /\ service.accepting) \/ SendClose
    <2>1. PICK phase \in {"start", "register", "close"} : flush' = [flush EXCEPT !.phase = phase]
      BY <1>2 DEF Plan, StartUpdate, SendClose
    <2>2. UNCHANGED writer /\ flush.phase # "off"
      BY <1>2 DEF Plan, StartUpdate, SendClose
    <2>. QED  BY <1>1, <2>1, <2>2 DEF FlushRecord
  <1>3. CASE RegisterSession
    <2>1. flush' = [flush EXCEPT !.phase = "send", !.unsent = flush.remaining]
      BY <1>3 DEF RegisterSession
    <2>2. UNCHANGED writer /\ flush.phase # "off"
      BY <1>3 DEF RegisterSession
    <2>. QED  BY <1>1, <2>1, <2>2 DEF FlushRecord
  <1>4. CASE SendBatch
    <2>1. UNCHANGED writer /\ flush.phase # "off"
      BY <1>4 DEF SendBatch
    <2>2. PICK k \in Nat \ {0} :
             /\ k <= Len(flush.unsent)
             /\ flush'.unsent = SubSeq(flush.unsent, k + 1, Len(flush.unsent))
             /\ flush' \in FlushRecord /\ flush'.submitted
             /\ flush'.phase = flush.phase /\ flush'.remaining = flush.remaining
      BY <1>4, SendEffect
    <2>3. PICK s \in Muts : s = flush.unsent /\ Len(s) \in 0..Len(s)
      BY <1>1 DEF Muts
    <2>4. Elements(SubSeq(s, k + 1, Len(s))) \subseteq Elements(s)
      BY <2>3, PartOf
    <2>. QED  BY <1>4, <2>1, <2>2, <2>3, <2>4
  <1>. QED  BY <1>2, <1>3, <1>4 DEF Phases

----------------------------------------------------------------------------
(* Types and buffers are kept *)

WriterInv == WriterTypes /\ flush \in FlushRecord /\ OpInv /\ BufferInv

\* A new buffer that is in order keeps the buffers in order.
LEMMA FreshOrder ==
  ASSUME NEW b \in Muts, Fresh(b), Increasing(b), Elements(b) \subseteq 1..added'
  PROVE  /\ pending' \in Muts /\ flush' \in FlushRecord /\ BufferInv'
         /\ op' = "none" => flush' = NoFlush
         /\ op' # "none" => flush'.phase # "off"
  <1>1. Elements(<<>>) = {} /\ Increasing(<<>>)
    BY DEF Elements, Increasing
  <1>2. NoFlush.remaining = <<>> /\ NoFlush.phase = "off"
    BY DEF NoFlush
  <1>. QED  BY <1>1, <1>2 DEF Fresh, BufferInv

\* See above.
LEMMA WriterKept == TypeInv /\ OpInv /\ BufferInv /\ [Next]_vars => WriterInv'
  <1>. SUFFICES ASSUME TypeInv, OpInv, BufferInv, [Next]_vars PROVE WriterInv'
    OBVIOUS
  <1>1. /\ WriterTypes /\ pending \in Muts /\ added \in 0..Len(Sizes) /\ added \in Nat /\ op \in Ops
        /\ Len(Sizes) \in Nat /\ flush \in FlushRecord
    BY MutationsRange DEF TypeInv, WriterTypes
  <1>2. <<>> \in Muts /\ Elements(<<>>) = {} /\ Increasing(<<>>)
    BY DEF Muts, Elements, Increasing
  <1>3. Increasing(pending) /\ Elements(pending) \subseteq 1..added
    BY DEF BufferInv
  <1>4. CASE Calls
    <2>1. /\ op = "none" /\ ~closed /\ ~closeErr
          /\ UNCHANGED <<told, failure>>
          /\ \/ /\ added' = added + 1 /\ added' \in Mutations /\ ~failure /\ UNCHANGED <<closed, closeErr>>
                /\ \/ Fresh(pending) /\ op' = "room"
                   \/ Fresh(Append(pending, added')) /\ op' \in {"add", "none"}
             \/ /\ added' = added /\ ~failure /\ UNCHANGED closeErr /\ Fresh(pending)
                /\ (op' \in {"flush", "auto"} /\ UNCHANGED closed) \/ (op' = "close" /\ closed' = TRUE)
             \/ /\ closed' = TRUE /\ closeErr' = failure /\ UNCHANGED <<op, pending, flush, added>>
      BY <1>4, CallsEffect
    <2>2. CASE added' = added + 1 /\ added' \in Mutations /\ ~failure /\ UNCHANGED <<closed, closeErr>>
      <3>1. added' \in 0..Len(Sizes) /\ added' > 0 /\ Elements(pending) \subseteq 1..added' /\ added' \notin Elements(pending)
            /\ \A x \in Elements(pending) : x < added'
        BY <1>1, <1>3, <2>2, MutationsRange
      <3>2. CASE Fresh(pending) /\ op' = "room"
        <4>1. pending' = pending
          BY <3>2 DEF Fresh
        <4>. QED  BY <1>1, <1>3, <2>1, <2>2, <3>1, <3>2, <4>1, FreshOrder DEF WriterInv, WriterTypes, OpInv, Ops
      <3>3. CASE Fresh(Append(pending, added')) /\ op' \in {"add", "none"}
        <4>1. PICK b \in Muts : b = Append(pending, added') /\ b # <<>> /\ b[Len(b)] = added'
                                /\ Elements(b) = Elements(pending) \cup {added'} /\ Increasing(b)
          BY <1>1, <1>3, <2>2, <3>1, AppendOf
        <4>2. pending' = b
          BY <3>3, <4>1 DEF Fresh
        <4>3. Elements(b) \subseteq 1..added'
          BY <3>1, <4>1
        <4>. QED  BY <1>1, <1>3, <2>1, <2>2, <3>1, <3>3, <4>1, <4>2, <4>3, FreshOrder DEF WriterInv, WriterTypes, OpInv, Ops
      <3>. QED  BY <1>1, <2>1, <2>2, <3>2, <3>3
    <2>3. CASE /\ added' = added /\ ~failure /\ UNCHANGED closeErr /\ Fresh(pending)
               /\ (op' \in {"flush", "auto"} /\ UNCHANGED closed) \/ (op' = "close" /\ closed' = TRUE)
      <3>1. pending' = pending
        BY <2>3 DEF Fresh
      <3>2. /\ pending' \in Muts /\ flush' \in FlushRecord /\ BufferInv'
            /\ op' = "none" => flush' = NoFlush
            /\ op' # "none" => flush'.phase # "off"
        BY <1>1, <1>3, <2>3, FreshOrder
      <3>. QED  BY <1>1, <2>1, <2>3, <3>1, <3>2 DEF WriterInv, WriterTypes, OpInv, Ops
    <2>4. CASE closed' = TRUE /\ closeErr' = failure /\ UNCHANGED <<op, pending, flush, added>>
      BY <1>1, <2>1, <2>4 DEF WriterInv, WriterTypes, OpInv, BufferInv
    <2>. QED  BY <2>1, <2>2, <2>3, <2>4
  <1>5. CASE Phases
    BY <1>1, <1>5, PhasesEffect DEF WriterInv, WriterTypes, OpInv, BufferInv, writer, NoFlush
  <1>6. CASE UNCHANGED <<writer, flush>>
    BY <1>1, <1>6 DEF WriterInv, WriterTypes, OpInv, BufferInv, writer
  <1>7. CASE flush.phase # "off" /\ Ends
    <2>1. /\ op # "none" /\ ~failure /\ ~closeErr /\ UNCHANGED <<added, closed>>
          /\ \/ /\ UNCHANGED <<closeErr, failure>> /\ told' \in ToldRecord
                /\ \/ op = "room" /\ Fresh(Append(<<>>, added)) /\ op' \in {"add", "none"}
                   \/ op # "room" /\ Fresh(<<>>) /\ op' = "none"
             \/ /\ failure' = TRUE /\ closeErr' = (op = "close") /\ told' = told
                /\ Fresh(<<>>) /\ op' = "none"
             \/ /\ failure' = (op = "auto") /\ closeErr' = (op = "close") /\ op' = "none"
                /\ \/ op = "add" /\ Fresh(Front(pending))
                   \/ op \in {"close", "auto"} /\ Fresh(<<>>)
                   \/ op \in {"flush", "room"} /\ Fresh(pending)
                /\ told' \in ToldRecord
      BY <1>7, EndsEffect
    <2>2. /\ told' \in ToldRecord /\ closed' = closed /\ added' = added /\ closeErr' \in BOOLEAN /\ failure' \in BOOLEAN
          /\ (op' # "none" => ~failure' /\ ~closeErr') /\ op' \in {"add", "none"}
          /\ (op' # "none" => op = "room") /\ (closeErr' => op = "close")
      <3>1. closeErr \in BOOLEAN /\ failure \in BOOLEAN /\ told \in ToldRecord
        BY <1>1 DEF WriterTypes
      <3>2. \/ UNCHANGED <<closeErr, failure>> /\ (op' # "none" => op = "room") /\ op' \in {"add", "none"}
            \/ failure' = TRUE /\ closeErr' = (op = "close") /\ op' = "none"
            \/ failure' = (op = "auto") /\ closeErr' = (op = "close") /\ op' = "none"
        BY <2>1
      <3>3. closeErr' \in BOOLEAN /\ failure' \in BOOLEAN
        BY <3>1, <3>2, Zenon
      <3>4. /\ (op' # "none" => ~failure' /\ ~closeErr') /\ op' \in {"add", "none"}
            /\ (op' # "none" => op = "room") /\ (closeErr' => op = "close")
        <4>1. CASE UNCHANGED <<closeErr, failure>> /\ (op' # "none" => op = "room") /\ op' \in {"add", "none"}
          BY <2>1, <4>1
        <4>2. CASE closeErr' = (op = "close") /\ op' = "none"
          <5>1. closeErr' => op = "close"
            BY <4>2, Zenon
          <5>. QED  BY <4>2, <5>1
        <4>. QED  BY <3>2, <4>1, <4>2
      <3>. QED  BY <2>1, <3>1, <3>3, <3>4
    <2>3. (op = "close" => closed) /\ (op = "room" => ~closed)
      BY <1>1, <2>1 DEF OpInv
    <2>4. ASSUME NEW b \in Muts, Fresh(b), Increasing(b), Elements(b) \subseteq 1..added, op' = "none" PROVE WriterInv'
      <3>1. pending' \in Muts /\ flush' \in FlushRecord /\ BufferInv' /\ flush' = NoFlush
        BY <2>2, <2>4, FreshOrder
      <3>. QED  BY <1>1, <2>2, <2>3, <2>4, <3>1 DEF WriterInv, WriterTypes, OpInv, Ops
    <2>5. CASE op = "room" /\ Fresh(Append(<<>>, added)) /\ UNCHANGED <<closeErr, failure>>
      <3>1. added \in Mutations /\ added > 0
        BY <1>1, <2>5, MutationsRange DEF OpInv
      <3>2. PICK b \in Muts : b = Append(<<>>, added) /\ b # <<>> /\ b[Len(b)] = added /\ Elements(b) = {added} /\ Increasing(b)
        <4>1. Append(<<>>, added) \in Muts /\ Append(<<>>, added) # <<>> /\ Append(<<>>, added)[Len(Append(<<>>, added))] = added
              /\ Elements(Append(<<>>, added)) = Elements(<<>>) \cup {added} /\ Increasing(Append(<<>>, added))
          BY <1>2, <3>1, AppendOf, Zenon
        <4>. QED  BY <1>2, <4>1, Zenon
      <3>3. Fresh(b) /\ Elements(b) \subseteq 1..added' /\ pending' = b
        BY <1>1, <2>2, <2>5, <3>1, <3>2 DEF Fresh
      <3>4. /\ pending' \in Muts /\ flush' \in FlushRecord /\ BufferInv'
            /\ op' = "none" => flush' = NoFlush
            /\ op' # "none" => flush'.phase # "off"
        BY <3>2, <3>3, FreshOrder
      <3>. QED  BY <1>1, <2>1, <2>2, <2>3, <2>5, <3>1, <3>2, <3>3, <3>4 DEF WriterInv, WriterTypes, OpInv, Ops
    <2>6. op = "add" => Front(pending) \in Muts /\ Increasing(Front(pending)) /\ Elements(Front(pending)) \subseteq 1..added
      BY <1>1, <1>3, FrontOf DEF OpInv
    <2>. QED  BY <1>1, <1>2, <1>3, <2>1, <2>4, <2>5, <2>6
  <1>8. CASE flush.phase # "off" /\ \E muts \in Rest : Again(muts)
    <2>1. PICK muts \in Rest : Again(muts)
      BY <1>8
    <2>2. muts \in Muts /\ Elements(muts) \subseteq Elements(flush.remaining) /\ Increasing(muts)
      BY <2>1, RestOf DEF BufferInv
    <2>3. flush' \in FlushRecord /\ flush'.phase = "plan" /\ flush'.remaining = muts /\ flush'.unsent = <<>> /\ UNCHANGED writer
      BY <2>1, <2>2, AgainEffect
    <2>4. op # "none"
      BY <1>8 DEF OpInv, NoFlush
    <2>. QED  BY <1>1, <1>2, <2>2, <2>3, <2>4 DEF WriterInv, WriterTypes, OpInv, BufferInv, writer
  <1>. QED  BY <1>4, <1>5, <1>6, <1>7, <1>8, WriterForms DEF vars

----------------------------------------------------------------------------
(* What the steps do to the session *)

\* The fields of a session that a step leaves alone.
SameSession(s, t) == s.state = t.state /\ s.committed = t.committed /\ s.refused = t.refused /\ s.late = t.late
Fails(s, t) == /\ SameSession(s, t) /\ s.failed /\ s.running = <<>>
               /\ s.reported \in {t.reported, t.committed} /\ s.reported >= t.reported /\ s.reported >= t.committed

\* A failure freezes the count that the session reports.
LEMMA FailureEffect ==
  ASSUME NEW sums, NEW s \in SessionRecord(sums)
  PROVE  RecordFailure(s) \in SessionRecord(sums) /\ Fails(RecordFailure(s), s)
  <1>1. s.reported \in Nat /\ s.committed \in Nat /\ <<>> \in Muts
    BY DEF SessionRecord, Muts
  <1>2. PICK m \in Nat : m = Max({s.reported, s.committed}) /\ m \in {s.reported, s.committed} /\ m >= s.reported /\ m >= s.committed
    <2>1. \E x \in {s.reported, s.committed} : \A y \in {s.reported, s.committed} : x >= y
      <3>1. CASE s.reported >= s.committed
        BY <1>1, <3>1
      <3>2. CASE s.committed >= s.reported
        BY <1>1, <3>2
      <3>. QED  BY <1>1, <3>1, <3>2
    <2>. QED  BY <1>1, <2>1 DEF Max
  <1>3. RecordFailure(s) = [s EXCEPT !.failed = TRUE, !.reported = m, !.running = <<>>]
    BY <1>2 DEF RecordFailure
  <1>. QED  BY <1>1, <1>2, <1>3 DEF SessionRecord, Fails, SameSession

\* A batch is dropped, fails, runs or is refused.
LEMMA ApplyEffect ==
  ASSUME TypeInv, ApplyUpdates
  PROVE  /\ wire.batches # <<>> /\ session.running = <<>>
         /\ wire' \in WireRecord /\ wire'.batches = Tail(wire.batches) /\ wire'.last = wire.last /\ wire'.up = wire.up
         /\ SessionTyped' /\ UNCHANGED <<writer, flush, service, reply, tablet, strange>>
         /\ \/ session' = session /\ session.state # "open"
            \/ session.state = "open" /\ Fails(session', session)
            \/ /\ session.state = "open" /\ SameSession(session', session) /\ session'.failed = session.failed
               /\ session'.reported = session.reported /\ session'.running = Head(wire.batches)
            \/ /\ session.state = "open" /\ session'.refused /\ session'.state = session.state /\ session'.late = session.late
               /\ session'.committed = session.committed /\ session'.failed = session.failed
               /\ session'.reported = session.reported /\ session'.running = <<>>
  <1>1. wire.batches # <<>> /\ session.running = <<>> /\ wire' = [wire EXCEPT !.batches = Tail(wire.batches)]
    BY DEF ApplyUpdates, Serving, NextBatch
  <1>2. wire \in WireRecord /\ Tail(wire.batches) \in Seq(Muts) /\ Head(wire.batches) \in Muts
    BY <1>1 DEF TypeInv, WireRecord
  <1>3. wire' \in WireRecord /\ wire'.batches = Tail(wire.batches) /\ wire'.last = wire.last /\ wire'.up = wire.up
    BY <1>1, <1>2 DEF WireRecord
  <1>4. UNCHANGED <<writer, flush, service, reply, tablet, strange>>
    BY Zenon DEF ApplyUpdates
  <1>5. PICK sums : session \in SessionRecord(sums)
    BY DEF TypeInv, SessionTyped
  <1>6. PICK sum : sum = session.bytes + Bytes(Head(wire.batches))
    OBVIOUS
  <1>7. PICK counted \in SessionRecord(sums \cup {sum}) : counted = [session EXCEPT !.bytes = sum]
    BY <1>5 DEF SessionRecord
  <1>8. /\ SameSession(counted, session) /\ counted.failed = session.failed
        /\ counted.reported = session.reported /\ counted.running = <<>>
    BY <1>1, <1>5, <1>7 DEF SessionRecord, SameSession
  <1>9. \/ session' = session /\ session.state # "open"
        \/ session.state = "open" /\ session' = RecordFailure(session)
        \/ session.state = "open" /\ session' = [counted EXCEPT !.running = Head(wire.batches)]
        \/ session.state = "open" /\ session' = RecordFailure(counted)
        \/ session.state = "open" /\ session' = [counted EXCEPT !.refused = TRUE]
    BY <1>6, <1>7, Zenon DEF ApplyUpdates
  <1>10. CASE session' = RecordFailure(session) /\ session.state = "open"
    BY <1>1, <1>3, <1>4, <1>5, <1>10, FailureEffect DEF SessionTyped
  <1>11. CASE session' = RecordFailure(counted) /\ session.state = "open"
    <2>1. session' \in SessionRecord(sums \cup {sum}) /\ Fails(session', counted)
      BY <1>11, FailureEffect
    <2>2. Fails(session', session)
      BY <1>8, <2>1 DEF Fails, SameSession
    <2>. QED  BY <1>1, <1>3, <1>4, <1>11, <2>1, <2>2 DEF SessionTyped
  <1>12. CASE session' = [counted EXCEPT !.running = Head(wire.batches)] /\ session.state = "open"
    <2>1. /\ session' \in SessionRecord(sums \cup {sum}) /\ session'.running = Head(wire.batches)
          /\ SameSession(session', counted) /\ session'.failed = counted.failed /\ session'.reported = counted.reported
      BY <1>2, <1>7, <1>12 DEF SessionRecord, SameSession
    <2>2. SameSession(session', session) /\ session'.failed = session.failed /\ session'.reported = session.reported
      BY <1>8, <2>1 DEF SameSession
    <2>. QED  BY <1>1, <1>3, <1>4, <1>12, <2>1, <2>2 DEF SessionTyped
  <1>13. CASE session' = [counted EXCEPT !.refused = TRUE] /\ session.state = "open"
    <2>1. /\ session' \in SessionRecord(sums \cup {sum}) /\ session'.running = counted.running /\ session'.refused
          /\ session'.state = counted.state /\ session'.late = counted.late /\ session'.committed = counted.committed
          /\ session'.failed = counted.failed /\ session'.reported = counted.reported
      BY <1>7, <1>13 DEF SessionRecord
    <2>. QED  BY <1>1, <1>3, <1>4, <1>8, <1>13, <2>1 DEF SessionTyped, SameSession
  <1>14. CASE session' = session /\ session.state # "open"
    BY <1>1, <1>3, <1>4, <1>5, <1>14 DEF SessionTyped
  <1>. QED  BY <1>9, <1>10, <1>11, <1>12, <1>13, <1>14

\* A commit ends: counted, or as a failure; the tablet has it or not.
LEMMA CommitEffect ==
  ASSUME TypeInv, CommitApplied \/ CommitFails \/ CommitUnknown
  PROVE  /\ SessionTyped' /\ UNCHANGED <<writer, flush, wire, service, reply>>
         /\ tablet' \in TabletRecord /\ strange' \in StrangeRecord
         /\ session.running # <<>> /\ session'.running = <<>>
         /\ \/ session.state # "open" /\ Fails(session', session)
            \/ Fails(session', session) /\ ~CommitApplied
            \/ /\ CommitApplied /\ session.state = "open" /\ session'.state = "open" /\ session'.late = session.late
               /\ session'.committed = session.committed + Len(session.running) /\ session'.refused = session.refused
               /\ session'.failed = session.failed /\ session'.reported = session.reported
         /\ \/ tablet' = tablet
            \/ /\ tablet'.applied = tablet.applied \cup Elements(session.running)
               /\ tablet'.again = tablet.again \cup (tablet.applied \cap Elements(session.running))
         /\ \/ strange' = strange /\ CommitFails /\ tablet' = tablet
            \/ CommitUnknown /\ strange'.unknown /\ strange'.overtaken = strange.overtaken /\ strange'.afterDrain = strange.afterDrain
            \/ /\ CommitApplied /\ strange'.unknown = strange.unknown
               /\ strange'.overtaken = (strange.overtaken \/ session.failed)
               /\ strange'.afterDrain = (strange.afterDrain \/ (service.drain = "done" /\ ~session.late))
               /\ tablet'.applied = tablet.applied \cup Elements(session.running)
  <1>1. PICK sums : session \in SessionRecord(sums)
    BY DEF TypeInv, SessionTyped
  <1>2. /\ tablet \in TabletRecord /\ strange \in StrangeRecord /\ service \in ServiceRecord
        /\ session.running \in Muts /\ session.failed \in BOOLEAN /\ session.late \in BOOLEAN /\ <<>> \in Muts
    BY <1>1 DEF TypeInv, SessionRecord, Muts
  <1>3. UNCHANGED <<writer, flush, wire, service, reply>> /\ session.running # <<>>
    BY DEF CommitApplied, CommitFails, CommitUnknown
  <1>4. ToSet(session.running) = Elements(session.running) /\ Elements(session.running) \subseteq Mutations /\ Len(session.running) \in Nat
    BY <1>2, ElementsOf
  <1>5. Committed(session.running) =>
           /\ tablet' \in TabletRecord /\ tablet'.applied = tablet.applied \cup Elements(session.running)
           /\ tablet'.again = tablet.again \cup (tablet.applied \cap Elements(session.running))
    BY <1>2, <1>4 DEF Committed, TabletRecord
  <1>6. RecordFailure(session) \in SessionRecord(sums) /\ Fails(RecordFailure(session), session)
    BY <1>1, FailureEffect
  <1>7. CASE CommitApplied
    <2>1. Committed(session.running)
      BY <1>7 DEF CommitApplied
    <2>2. /\ strange' \in StrangeRecord /\ strange'.unknown = strange.unknown
          /\ strange'.overtaken = (strange.overtaken \/ session.failed)
          /\ strange'.afterDrain = (strange.afterDrain \/ (service.drain = "done" /\ ~session.late))
      <3>1. PICK x \in BOOLEAN, y \in BOOLEAN : /\ x = (strange.overtaken \/ session.failed)
                                                /\ y = (strange.afterDrain \/ (service.drain = "done" /\ ~session.late))
        OBVIOUS
      <3>2. strange' = [strange EXCEPT !.overtaken = x, !.afterDrain = y]
        BY <1>7, <3>1, Zenon DEF CommitApplied
      <3>3. strange' \in StrangeRecord /\ strange'.unknown = strange.unknown /\ strange'.overtaken = x /\ strange'.afterDrain = y
        BY <1>2, <3>2 DEF StrangeRecord
      <3>. QED  BY <3>1, <3>3, Zenon
    <2>3. CASE session.state = "open"
      <3>1. PICK c \in Nat : c = session.committed + Len(session.running)
        BY <1>1, <1>4 DEF SessionRecord
      <3>2. session' = [session EXCEPT !.committed = c, !.running = <<>>]
        BY <1>7, <2>3, <3>1 DEF CommitApplied
      <3>3. /\ session' \in SessionRecord(sums) /\ session'.running = <<>>
            /\ session'.state = session.state /\ session'.late = session.late
            /\ session'.committed = c /\ session'.refused = session.refused
            /\ session'.failed = session.failed /\ session'.reported = session.reported
        BY <1>1, <1>2, <3>2 DEF SessionRecord
      <3>4. SessionTyped'
        BY <3>3 DEF SessionTyped
      <3>. QED  BY <1>3, <1>5, <1>7, <2>1, <2>2, <2>3, <3>1, <3>3, <3>4
    <2>4. CASE session.state # "open"
      <3>1. session' = RecordFailure(session)
        BY <1>7, <2>4 DEF CommitApplied
      <3>2. SessionTyped' /\ session'.running = <<>> /\ Fails(session', session)
        BY <1>6, <3>1 DEF SessionTyped, Fails
      <3>. QED  BY <1>3, <1>5, <1>7, <2>1, <2>2, <2>4, <3>2
    <2>. QED  BY <2>3, <2>4
  <1>8. CASE CommitFails /\ ~CommitApplied
    <2>1. session' = RecordFailure(session) /\ UNCHANGED <<tablet, strange>>
      BY <1>8 DEF CommitFails
    <2>2. SessionTyped' /\ session'.running = <<>> /\ Fails(session', session)
      BY <1>6, <2>1 DEF SessionTyped, Fails
    <2>. QED  BY <1>2, <1>3, <1>8, <2>1, <2>2
  <1>9. CASE CommitUnknown /\ ~CommitApplied
    <2>1. session' = RecordFailure(session) /\ Committed(session.running) /\ strange' = [strange EXCEPT !.unknown = TRUE]
      BY <1>9 DEF CommitUnknown
    <2>2. SessionTyped' /\ session'.running = <<>> /\ Fails(session', session)
      BY <1>6, <2>1 DEF SessionTyped, Fails
    <2>3. strange' \in StrangeRecord /\ strange'.unknown /\ strange'.overtaken = strange.overtaken /\ strange'.afterDrain = strange.afterDrain
      BY <1>2, <2>1 DEF StrangeRecord
    <2>. QED  BY <1>3, <1>5, <1>9, <2>1, <2>2, <2>3
  <1>. QED  BY <1>7, <1>8, <1>9

\* The fields that the end of a session leaves alone.
SameCounts(s, t) == /\ s.committed = t.committed /\ s.failed = t.failed /\ s.reported = t.reported
                    /\ s.refused = t.refused /\ s.late = t.late

\* A session ends: closed, cancelled, expired, drained, or with its process; and
\* the steps of the service that touch no session.
LEMMA EndingEffect ==
  ASSUME TypeInv, CloseUpdate \/ CancelUpdate \/ ExpireSession \/ BeginDrain \/ DrainDone \/ Restart \/ Disconnect
  PROVE  /\ SessionTyped' /\ SameCounts(session', session) /\ UNCHANGED <<writer, flush, tablet, strange>>
         /\ wire' \in WireRecord /\ service' \in ServiceRecord /\ reply' \in ReplyRecord
         /\ \/ /\ CloseUpdate /\ wire.last = "close" /\ wire.batches = <<>> /\ session.running = <<>> /\ session'.running = <<>>
               /\ wire'.last = "none" /\ wire'.batches = <<>> /\ wire'.up = wire.up
               /\ session'.state = "gone" /\ service' = service
               /\ \/ reply'.kind = "unknown"
                  \/ /\ session.state = "open" /\ reply'.kind = "errors" /\ reply'.failed = session.failed
                     /\ reply'.reported = session.reported /\ reply'.refused = session.refused
            \/ /\ CancelUpdate /\ wire.last = "cancel" /\ wire.batches = <<>> /\ session.running = <<>> /\ session'.running = <<>>
               /\ wire' = NoWire /\ session'.state = "gone" /\ UNCHANGED <<service, reply>>
            \/ /\ ExpireSession /\ session'.state = "gone" /\ session'.running = session.running
               /\ UNCHANGED <<wire, service, reply>>
            \/ /\ BeginDrain /\ session'.state # "open" /\ session'.running = session.running
               /\ ~service'.accepting /\ service'.drain = "waiting" /\ UNCHANGED <<wire, reply>>
            \/ /\ DrainDone /\ session' = session /\ (session.running = <<>> \/ session.late)
               /\ service.drain = "waiting" /\ service'.drain = "done" /\ service'.accepting = service.accepting
               /\ UNCHANGED <<wire, reply>>
            \/ /\ Restart /\ session'.state = "gone" /\ session'.running = <<>>
               /\ service'.accepting /\ service'.drain = "no" /\ UNCHANGED <<wire, reply>>
            \/ Disconnect /\ ~wire.up /\ wire' = NoWire /\ UNCHANGED <<session, service, reply>>
  <1>1. PICK sums : session \in SessionRecord(sums)
    BY DEF TypeInv, SessionTyped
  <1>2. wire \in WireRecord /\ service \in ServiceRecord /\ reply \in ReplyRecord
    BY DEF TypeInv
  <1>3. UNCHANGED <<writer, flush, tablet, strange>>
    BY DEF CloseUpdate, CancelUpdate, ExpireSession, BeginDrain, DrainDone, Restart, Disconnect
  <1>4. ASSUME NEW s, NEW st \in {"none", "open", "gone"}, s = [session EXCEPT !.state = st]
        PROVE  s \in SessionRecord(sums) /\ SameCounts(s, session) /\ s.state = st /\ s.running = session.running
    BY <1>1, <1>4 DEF SessionRecord, SameCounts
  <1>5. NoWire \in WireRecord /\ NoWire.last = "none" /\ NoWire.batches = <<>>
    BY DEF NoWire, WireRecord
  <1>6. SameCounts(session, session)
    BY DEF SameCounts
  <1>7. CASE CloseUpdate
    <2>1. wire.last = "close" /\ wire.batches = <<>> /\ session.running = <<>> /\ service' = service
      BY <1>7 DEF CloseUpdate, Final
    <2>2. wire' \in WireRecord /\ wire'.last = "none" /\ wire'.batches = <<>> /\ wire'.up = wire.up
      BY <1>2, <1>7, <2>1 DEF CloseUpdate, WireRecord
    <2>3. session' \in SessionRecord(sums) /\ SameCounts(session', session) /\ session'.state = "gone" /\ session'.running = <<>>
      BY <1>4, <1>7, <2>1 DEF CloseUpdate
    <2>4. /\ reply' \in ReplyRecord
          /\ \/ reply'.kind = "unknown"
             \/ /\ session.state = "open" /\ reply'.kind = "errors" /\ reply'.failed = session.failed
                /\ reply'.reported = session.reported /\ reply'.refused = session.refused
      <3>1. CASE session.state = "open"
        <4>1. reply' = [kind |-> "errors", failed |-> session.failed, reported |-> session.reported, refused |-> session.refused]
          BY <1>7, <3>1 DEF CloseUpdate
        <4>. QED  BY <1>1, <3>1, <4>1 DEF ReplyRecord, SessionRecord
      <3>2. CASE session.state # "open"
        <4>1. reply' = [NoReply EXCEPT !.kind = "unknown"]
          BY <1>7, <3>2 DEF CloseUpdate
        <4>2. reply' = [kind |-> "unknown", failed |-> FALSE, reported |-> 0, refused |-> FALSE]
          BY <4>1 DEF NoReply
        <4>. QED  BY <4>2 DEF ReplyRecord
      <3>. QED  BY <3>1, <3>2
    <2>. QED  BY <1>2, <1>3, <1>7, <2>1, <2>2, <2>3, <2>4 DEF SessionTyped
  <1>8. CASE CancelUpdate
    <2>1. wire.last = "cancel" /\ wire.batches = <<>> /\ session.running = <<>> /\ wire' = NoWire /\ UNCHANGED <<service, reply>>
      BY <1>8 DEF CancelUpdate, Final
    <2>2. session' \in SessionRecord(sums) /\ SameCounts(session', session) /\ session'.state = "gone" /\ session'.running = <<>>
      BY <1>4, <1>8, <2>1 DEF CancelUpdate
    <2>. QED  BY <1>2, <1>3, <1>5, <1>8, <2>1, <2>2 DEF SessionTyped
  <1>9. CASE ExpireSession
    <2>1. session' \in SessionRecord(sums) /\ SameCounts(session', session) /\ session'.state = "gone" /\ session'.running = session.running
      BY <1>4, <1>9 DEF ExpireSession
    <2>. QED  BY <1>2, <1>3, <1>9, <2>1 DEF SessionTyped, ExpireSession
  <1>10. CASE BeginDrain
    <2>1. PICK st \in {"none", "gone"} : session' = [session EXCEPT !.state = st]
      BY <1>1, <1>10 DEF BeginDrain, SessionRecord
    <2>2. session' \in SessionRecord(sums) /\ SameCounts(session', session) /\ session'.state # "open" /\ session'.running = session.running
      BY <1>4, <2>1
    <2>3. service' \in ServiceRecord /\ ~service'.accepting /\ service'.drain = "waiting" /\ UNCHANGED <<wire, reply>>
      BY <1>10 DEF BeginDrain, ServiceRecord
    <2>. QED  BY <1>2, <1>3, <1>10, <2>2, <2>3 DEF SessionTyped
  <1>11. CASE DrainDone
    <2>1. service' \in ServiceRecord /\ service'.drain = "done" /\ service'.accepting = service.accepting
      BY <1>2, <1>11 DEF DrainDone, ServiceRecord
    <2>. QED  BY <1>1, <1>2, <1>3, <1>6, <1>11, <2>1 DEF SessionTyped, DrainDone
  <1>12. CASE Restart
    <2>1. session' = [session EXCEPT !.state = "gone", !.running = <<>>] /\ <<>> \in Muts
      BY <1>12 DEF Restart, Muts
    <2>2. session' \in SessionRecord(sums) /\ SameCounts(session', session) /\ session'.state = "gone" /\ session'.running = <<>>
      BY <1>1, <2>1 DEF SessionRecord, SameCounts
    <2>3. service' \in ServiceRecord /\ service'.accepting /\ service'.drain = "no" /\ UNCHANGED <<wire, reply>>
      BY <1>12 DEF Restart, ServiceRecord
    <2>. QED  BY <1>2, <1>3, <1>12, <2>2, <2>3 DEF SessionTyped
  <1>13. CASE Disconnect
    BY <1>1, <1>2, <1>3, <1>5, <1>6, <1>13 DEF SessionTyped, Disconnect
  <1>. QED  BY <1>7, <1>8, <1>9, <1>10, <1>11, <1>12, <1>13

\* A session is registered, with a connection of its own.
LEMMA RegisterEffect ==
  ASSUME TypeInv, RegisterSession
  PROVE  /\ UNCHANGED <<service, tablet, strange>> /\ SessionTyped' /\ wire' \in WireRecord
         /\ wire'.batches = <<>> /\ wire'.last = "none" /\ wire'.up
         /\ reply' = NoReply /\ session'.state = "open" /\ session'.committed = 0 /\ ~session'.failed
         /\ session'.reported = 0 /\ ~session'.refused /\ session'.running = <<>> /\ session'.late = ~service.accepting
  <1>1. PICK late \in BOOLEAN : late = ~service.accepting
    BY DEF TypeInv, ServiceRecord
  <1>2. session' = [NoSession EXCEPT !.state = "open", !.late = late] /\ reply' = NoReply /\ wire' = [NoWire EXCEPT !.up = TRUE]
        /\ UNCHANGED <<service, tablet, strange>>
    <2>1. session' = [NoSession EXCEPT !.state = "open", !.late = late]
      BY <1>1, Zenon DEF RegisterSession
    <2>. QED  BY <2>1 DEF RegisterSession
  <1>3. session' = [state |-> "open", committed |-> 0, failed |-> FALSE, reported |-> 0,
                    refused |-> FALSE, bytes |-> 0, running |-> <<>>, late |-> late]
    BY <1>2 DEF NoSession
  <1>4. session' \in SessionRecord({0}) /\ session'.state = "open" /\ session'.committed = 0 /\ ~session'.failed
        /\ session'.reported = 0 /\ ~session'.refused /\ session'.running = <<>> /\ session'.late = late
    <2>1. <<>> \in Muts
      BY DEF Muts
    <2>. QED  BY <1>3, <2>1 DEF SessionRecord
  <1>5. wire' = [batches |-> <<>>, last |-> "none", up |-> TRUE]
    BY <1>2 DEF NoWire
  <1>6. wire' \in WireRecord /\ wire'.batches = <<>> /\ wire'.last = "none" /\ wire'.up
    BY <1>5 DEF WireRecord
  <1>7. session'.late = ~service.accepting
    BY <1>1, <1>4, Zenon
  <1>. QED  BY <1>2, <1>4, <1>6, <1>7 DEF SessionTyped

\* What the steps of the writer do to the connection: a new session has one of its
\* own, batches and the last request follow, and an answer or a loss ends it.
LEMMA ConnectionEffect ==
  ASSUME TypeInv, Calls \/ Phases \/ PlanFails \/ StartUpdate \/ StartFails \/ SendFails \/ DecodeUpdateErrors
  PROVE  /\ UNCHANGED <<service, tablet, strange>> /\ SessionTyped' /\ wire' \in WireRecord /\ reply' \in ReplyRecord
         /\ \/ (Calls \/ Plan \/ PlanFails \/ StartUpdate \/ StartFails) /\ UNCHANGED <<wire, session, reply>>
            \/ /\ RegisterSession /\ wire'.batches = <<>> /\ wire'.last = "none" /\ wire'.up
               /\ reply' = NoReply /\ session'.state = "open" /\ session'.committed = 0 /\ ~session'.failed
               /\ session'.reported = 0 /\ ~session'.refused /\ session'.running = <<>> /\ session'.late = ~service.accepting
            \/ SendBatch /\ UNCHANGED <<session, reply>>
            \/ /\ SendClose /\ wire'.batches = wire.batches /\ wire'.last = "close" /\ wire'.up = wire.up /\ UNCHANGED <<session, reply>>
            \/ /\ SendFails /\ wire'.batches = wire.batches /\ UNCHANGED <<session, reply>>
            \/ /\ DecodeUpdateErrors /\ wire' = NoWire /\ reply' = NoReply /\ UNCHANGED session
  <1>1. PICK sums : session \in SessionRecord(sums)
    BY DEF TypeInv, SessionTyped
  <1>2. wire \in WireRecord /\ service \in ServiceRecord /\ reply \in ReplyRecord
    BY DEF TypeInv
  <1>3. NoWire \in WireRecord /\ NoReply \in ReplyRecord
    BY DEF NoWire, WireRecord, NoReply, ReplyRecord
  <1>4. CASE Calls \/ Plan \/ PlanFails \/ StartUpdate \/ StartFails
    <2>1. UNCHANGED <<service, tablet, strange, wire, session, reply>>
      BY <1>4 DEF Calls, Add, Flush, Close, AutomaticFlush, Plan, PlanFails, StartUpdate, StartFails
    <2>. QED  BY <1>1, <1>2, <1>4, <2>1 DEF SessionTyped
  <1>5. CASE RegisterSession
    BY <1>3, <1>5, RegisterEffect
  <1>6. CASE SendBatch
    <2>1. UNCHANGED <<service, tablet, strange, session, reply>>
      BY <1>6 DEF SendBatch
    <2>2. wire' \in WireRecord
      BY <1>6, SendEffect
    <2>. QED  BY <1>1, <1>2, <1>6, <2>1, <2>2 DEF SessionTyped
  <1>7. CASE SendClose
    <2>1. UNCHANGED <<service, tablet, strange, session, reply>> /\ wire' = [wire EXCEPT !.last = "close"]
      BY <1>7 DEF SendClose
    <2>2. wire' \in WireRecord /\ wire'.batches = wire.batches /\ wire'.last = "close" /\ wire'.up = wire.up
      BY <1>2, <2>1 DEF WireRecord
    <2>. QED  BY <1>1, <1>2, <1>7, <2>1, <2>2 DEF SessionTyped
  <1>8. CASE SendFails
    <2>1. UNCHANGED <<service, tablet, strange, session, reply>> /\ (wire' = [wire EXCEPT !.up = FALSE] \/ wire' = [wire EXCEPT !.last = "cancel"])
      BY <1>8 DEF SendFails
    <2>2. wire' \in WireRecord /\ wire'.batches = wire.batches
      BY <1>2, <2>1 DEF WireRecord
    <2>. QED  BY <1>1, <1>2, <1>8, <2>1, <2>2 DEF SessionTyped
  <1>9. CASE DecodeUpdateErrors
    <2>1. UNCHANGED <<service, tablet, strange, session>> /\ wire' = NoWire /\ reply' = NoReply
      BY <1>9 DEF DecodeUpdateErrors
    <2>. QED  BY <1>1, <1>3, <1>9, <2>1 DEF SessionTyped
  <1>. QED  BY <1>4, <1>5, <1>6, <1>7, <1>8, <1>9 DEF Phases

----------------------------------------------------------------------------
(* The books *)

Core == TypeInv /\ OpInv /\ BufferInv

\* Types, and the order of the buffers, are kept.
LEMMA CoreKept == Core /\ [Next]_vars => Core'
  <1>. SUFFICES ASSUME TypeInv, OpInv, BufferInv, [Next]_vars PROVE Core'
    BY DEF Core
  <1>1. WriterTypes' /\ (flush \in FlushRecord)' /\ OpInv' /\ BufferInv'
    BY WriterKept DEF WriterInv
  <1>2. /\ SessionTyped' /\ wire' \in WireRecord /\ service' \in ServiceRecord /\ reply' \in ReplyRecord
        /\ tablet' \in TabletRecord /\ strange' \in StrangeRecord
    <2>1. /\ SessionTyped /\ wire \in WireRecord /\ service \in ServiceRecord /\ reply \in ReplyRecord
          /\ tablet \in TabletRecord /\ strange \in StrangeRecord
      BY DEF TypeInv
    <2>2. CASE UNCHANGED vars
      BY <2>1, <2>2 DEF vars, SessionTyped
    <2>3. CASE Calls \/ Phases \/ PlanFails \/ StartUpdate \/ StartFails \/ SendFails \/ DecodeUpdateErrors
      BY <2>1, <2>3, ConnectionEffect
    <2>4. CASE ApplyUpdates
      BY <2>1, <2>4, ApplyEffect
    <2>5. CASE CommitApplied \/ CommitFails \/ CommitUnknown
      BY <2>1, <2>5, CommitEffect
    <2>6. CASE CloseUpdate \/ CancelUpdate \/ ExpireSession \/ BeginDrain \/ DrainDone \/ Restart \/ Disconnect
      BY <2>1, <2>6, EndingEffect
    <2>. QED  BY <2>2, <2>3, <2>4, <2>5, <2>6 DEF Next, WriterSteps, FaultSteps, ServiceSteps, Calls, Phases
  <1>. QED  BY <1>1, <1>2 DEF TypeInv, Core

\* Batches of a connection that lost its first, or got one more.
BatchSet(w) == UNION {Elements(w[i]) : i \in 1..Len(w)}

\* See above.
LEMMA BatchSets ==
  ASSUME NEW w \in Seq(Muts)
  PROVE  /\ BatchSet(<<>>) = {}
         /\ \A b \in Muts : BatchSet(Append(w, b)) = BatchSet(w) \cup Elements(b)
         /\ w # <<>> => Elements(Head(w)) \cup BatchSet(Tail(w)) = BatchSet(w)
  <1>1. BatchSet(<<>>) = {}
    BY DEF BatchSet
  <1>2. ASSUME NEW b \in Muts PROVE BatchSet(Append(w, b)) = BatchSet(w) \cup Elements(b)
    <2>0. /\ Append(w, b) \in Seq(Muts) /\ Len(Append(w, b)) = Len(w) + 1 /\ Len(w) \in Nat
          /\ \A i \in 1..(Len(w) + 1) : Append(w, b)[i] = IF i <= Len(w) THEN w[i] ELSE b
      OBVIOUS
    <2>1. PICK a \in Seq(Muts) : a = Append(w, b) /\ Len(a) = Len(w) + 1 /\ Len(w) \in Nat
                                 /\ \A i \in 1..(Len(w) + 1) : a[i] = IF i <= Len(w) THEN w[i] ELSE b
      BY <2>0
    <2>2. 1..Len(a) = (1..Len(w)) \cup {Len(w) + 1}
      BY <2>1
    <2>3. a[Len(w) + 1] = b /\ \A i \in 1..Len(w) : a[i] = w[i]
      BY <2>1
    <2>4. \A x : x \in BatchSet(a) <=> \E i \in (1..Len(w)) \cup {Len(w) + 1} : x \in Elements(a[i])
      BY <2>2, Zenon DEF BatchSet
    <2>5. \A x : x \in BatchSet(w) <=> \E i \in 1..Len(w) : x \in Elements(w[i])
      BY Zenon DEF BatchSet
    <2>6. \A x : x \in BatchSet(a) <=> x \in BatchSet(w) \cup Elements(b)
      BY <2>3, <2>4, <2>5, Zenon
    <2>. QED  BY <2>1, <2>6, Zenon
  <1>3. ASSUME w # <<>> PROVE Elements(Head(w)) \cup BatchSet(Tail(w)) = BatchSet(w)
    <2>0. /\ Tail(w) \in Seq(Muts) /\ Len(Tail(w)) = Len(w) - 1 /\ Len(w) \in Nat \ {0} /\ Head(w) = w[1]
          /\ \A i \in 1..(Len(w) - 1) : Tail(w)[i] = w[i + 1]
      BY <1>3
    <2>n. PICK n \in Nat : n = Len(w) - 1 /\ Len(w) = n + 1
      <3>1. Len(w) \in Nat \ {0}
        BY <2>0
      <3>. QED  BY <3>1
    <2>1. PICK t \in Seq(Muts) : /\ t = Tail(w) /\ Len(t) = n /\ Len(w) = n + 1 /\ Head(w) = w[1]
                                 /\ \A i \in 1..n : t[i] = w[i + 1]
      <3>1. Len(Tail(w)) = n /\ \A i \in 1..n : Tail(w)[i] = w[i + 1]
        BY <2>0, <2>n
      <3>. QED  BY <2>0, <2>n, <3>1, Zenon
    <2>2. ASSUME NEW x \in BatchSet(w) PROVE x \in Elements(Head(w)) \/ x \in BatchSet(t)
      <3>1. PICK i \in 1..(n + 1) : x \in Elements(w[i])
        BY <2>1, <2>2 DEF BatchSet
      <3>2. CASE i = 1
        BY <2>1, <3>1, <3>2
      <3>3. CASE i # 1
        <4>1. i - 1 \in 1..n /\ t[i - 1] = w[i]
          BY <2>1, <3>1, <3>3
        <4>. QED  BY <2>1, <3>1, <4>1 DEF BatchSet
      <3>. QED  BY <3>2, <3>3
    <2>3. ASSUME NEW x \in BatchSet(t) PROVE x \in BatchSet(w)
      <3>1. PICK i \in 1..n : x \in Elements(t[i])
        BY <2>1, <2>3 DEF BatchSet
      <3>2. i + 1 \in 1..Len(w) /\ x \in Elements(w[i + 1])
        BY <2>1, <3>1
      <3>. QED  BY <3>2 DEF BatchSet
    <2>4. 1 \in 1..Len(w)
      BY <2>1
    <2>5. Elements(Head(w)) \subseteq BatchSet(w)
      BY <2>1, <2>4 DEF BatchSet
    <2>. QED  BY <2>1, <2>2, <2>3, <2>5
  <1>. QED  BY <1>1, <1>2, <1>3

\* Only a batch that is sent adds to what was sent, and it is taken from the buffer.
LEMMA SentGrows ==
  ASSUME Core, [Next]_vars
  PROVE  /\ Flying = Elements(session.running) \cup BatchSet(wire.batches)
         /\ Flying' = Elements(session'.running) \cup BatchSet(wire'.batches)
         /\ Sent' \subseteq Sent \/ (SendBatch /\ Sent' \subseteq Sent \cup Elements(pending))
  <1>1. /\ Flying = Elements(session.running) \cup BatchSet(wire.batches)
        /\ Flying' = Elements(session'.running) \cup BatchSet(wire'.batches)
    BY DEF Flying, BatchSet
  <1>2. TypeInv /\ wire.batches \in Seq(Muts) /\ BatchSet(<<>>) = {} /\ Elements(<<>>) = {} /\ NoWire.batches = <<>>
    BY DEF Core, TypeInv, WireRecord, BatchSet, Elements, NoWire
  <1>3. ASSUME Elements(session'.running) \subseteq Elements(session.running), BatchSet(wire'.batches) \subseteq BatchSet(wire.batches), tablet' = tablet
        PROVE  Sent' \subseteq Sent
    BY <1>1, <1>3 DEF Sent
  <1>4. CASE UNCHANGED vars
    BY <1>1, <1>3, <1>4 DEF vars
  <1>5. CASE SendBatch
    <2>1. PICK k \in Nat \ {0} : k <= Len(flush.unsent) /\ wire'.batches = Append(wire.batches, SubSeq(flush.unsent, 0 + 1, k))
      BY <1>2, <1>5, SendEffect
    <2>2. PICK s \in Muts : s = flush.unsent /\ k \in 0..Len(s)
      BY <1>2, <2>1 DEF TypeInv, FlushRecord, Muts
    <2>3. PICK z \in Nat : z = 0
      OBVIOUS
    <2>4. SubSeq(s, z + 1, k) \in Muts /\ Elements(SubSeq(s, z + 1, k)) \subseteq Elements(s)
      BY <2>2, PartOf
    <2>5. BatchSet(wire'.batches) = BatchSet(wire.batches) \cup Elements(SubSeq(s, z + 1, k))
      BY <1>2, <2>1, <2>2, <2>3, <2>4, BatchSets
    <2>6. Elements(s) \subseteq Elements(pending)
      BY <2>2 DEF Core, BufferInv
    <2>7. UNCHANGED <<session, tablet>>
      BY <1>5 DEF SendBatch
    <2>. QED  BY <1>1, <1>5, <2>4, <2>5, <2>6, <2>7 DEF Sent
  <1>6. CASE (Calls \/ Phases \/ PlanFails \/ StartUpdate \/ StartFails \/ SendFails \/ DecodeUpdateErrors) /\ ~SendBatch
    <2>1. tablet' = tablet /\ (wire'.batches = wire.batches \/ wire'.batches = <<>>)
          /\ (session'.running = session.running \/ session'.running = <<>>)
      BY <1>2, <1>6, ConnectionEffect
    <2>2. Elements(session'.running) \subseteq Elements(session.running) /\ BatchSet(wire'.batches) \subseteq BatchSet(wire.batches)
      BY <1>2, <2>1
    <2>. QED  BY <1>1, <1>3, <2>1, <2>2
  <1>7. CASE ApplyUpdates
    <2>1. /\ wire.batches # <<>> /\ wire'.batches = Tail(wire.batches) /\ tablet' = tablet
          /\ session'.running = session.running \/ session'.running = <<>> \/ session'.running = Head(wire.batches)
      BY <1>2, <1>7, ApplyEffect DEF Fails
    <2>2. Elements(Head(wire.batches)) \cup BatchSet(Tail(wire.batches)) = BatchSet(wire.batches)
      BY <1>2, <2>1, BatchSets
    <2>3. Elements(session'.running) \subseteq Elements(session.running) \cup Elements(Head(wire.batches))
      BY <1>2, <2>1
    <2>4. BatchSet(wire'.batches) = BatchSet(Tail(wire.batches))
      BY <2>1
    <2>. QED  BY <1>1, <2>1, <2>2, <2>3, <2>4 DEF Sent
  <1>8. CASE CommitApplied \/ CommitFails \/ CommitUnknown
    <2>1. /\ session'.running = <<>> /\ wire' = wire
          /\ tablet' = tablet \/ tablet'.applied = tablet.applied \cup Elements(session.running)
      BY <1>2, <1>8, CommitEffect
    <2>2. Elements(session'.running) = {} /\ BatchSet(wire'.batches) = BatchSet(wire.batches)
      BY <1>2, <2>1
    <2>. QED  BY <1>1, <2>1, <2>2 DEF Sent
  <1>9. CASE CloseUpdate \/ CancelUpdate \/ ExpireSession \/ BeginDrain \/ DrainDone \/ Restart \/ Disconnect
    <2>1. /\ session'.running = session.running \/ session'.running = <<>>
          /\ wire'.batches = wire.batches \/ wire'.batches = <<>>
          /\ tablet' = tablet
      BY <1>2, <1>9, EndingEffect
    <2>2. Elements(session'.running) \subseteq Elements(session.running) /\ BatchSet(wire'.batches) \subseteq BatchSet(wire.batches)
      BY <1>2, <2>1
    <2>. QED  BY <1>1, <1>3, <2>1, <2>2
  <1>. QED  BY <1>1, <1>4, <1>5, <1>6, <1>7, <1>8, <1>9 DEF Next, WriterSteps, FaultSteps, ServiceSteps, Calls, Phases

\* The set of a buffer that a call or the end of a flush leaves behind.
LEMMA FreshSet ==
  ASSUME NEW b, Fresh(b)
  PROVE  pending' = b /\ Elements(pending') = Elements(b) /\ ~flush'.submitted
  BY DEF Fresh

\* What a mutation becomes is on the books at every moment, and nothing refused is sent.
LEMMA BooksKept == Core /\ BookInv /\ SentInv /\ [Next]_vars => BookInv' /\ SentInv'
  <1>. SUFFICES ASSUME Core, BookInv, SentInv, [Next]_vars PROVE BookInv' /\ SentInv'
    OBVIOUS
  <1>1. TypeInv /\ OpInv /\ BufferInv /\ pending \in Muts /\ added \in Nat /\ op \in Ops
    BY DEF Core, TypeInv, WriterTypes
  <1>2. Sent' \subseteq Sent \/ (SendBatch /\ Sent' \subseteq Sent \cup Elements(pending))
    BY SentGrows
  <1>3. Elements(<<>>) = {} /\ Elements(pending) \subseteq 1..added
    BY <1>1 DEF Elements, BufferInv
  <1>4. CASE UNCHANGED writer /\ flush'.submitted = flush.submitted /\ ~SendBatch
    BY <1>2, <1>4 DEF writer, BookInv, SentInv, Now
  <1>5. CASE SendBatch
    <2>1. UNCHANGED writer /\ flush'.submitted /\ ~failure /\ ~closeErr
      <3>1. flush.phase # "off" /\ UNCHANGED writer
        BY <1>5 DEF SendBatch
      <3>2. flush'.submitted
        BY <1>1, <1>5, SendEffect
      <3>. QED  BY <1>1, <3>1, <3>2 DEF OpInv, NoFlush
    <2>2. BookInv'
      BY <2>1 DEF writer, BookInv, Now
    <2>3. Elements(pending) \cap told.refused = {} /\ (op = "room" => added \notin Elements(pending))
      BY <1>1, <2>1 DEF BookInv, Now, OpInv
    <2>. QED  BY <1>2, <1>3, <2>1, <2>2, <2>3 DEF SentInv, writer
  <1>6. CASE Calls
    <2>1. /\ op = "none" /\ ~closed /\ ~closeErr /\ UNCHANGED <<told, failure>> /\ Sent' \subseteq Sent
          /\ \/ /\ added' = added + 1 /\ added' \in Mutations /\ ~failure /\ UNCHANGED <<closed, closeErr>>
                /\ \/ Fresh(pending) /\ op' = "room"
                   \/ Fresh(Append(pending, added')) /\ op' \in {"add", "none"}
             \/ added' = added /\ ~failure /\ UNCHANGED closeErr /\ Fresh(pending) /\ op' \in {"flush", "auto", "close"}
             \/ closeErr' = failure /\ UNCHANGED <<op, pending, flush, added>>
      <3>1. Sent' \subseteq Sent
        <4>1. UNCHANGED <<wire, session, tablet>>
          BY <1>1, <1>6, CallsEffect
        <4>. QED  BY <4>1 DEF Sent, Flying
      <3>. QED  BY <1>1, <1>6, <3>1, CallsEffect
    <2>2. ~flush.submitted
      BY <1>1, <2>1 DEF OpInv, NoFlush
    <2>3. CASE added' = added + 1 /\ Fresh(pending) /\ op' = "room"
      <3>1. Elements(pending') = Elements(pending)
        BY <2>3, FreshSet
      <3>2. SentInv'
        BY <1>1, <1>3, <2>1, <2>2, <2>3, <3>1 DEF SentInv
      <3>3. BookInv'
        <4>1. Now' = Elements(pending) \cup {added + 1}
          BY <2>3, <3>1 DEF Now
        <4>2. ~failure => (1..added) \ told.refused = told.flushed \cup Elements(pending) /\ told.flushed \cap Elements(pending) = {}
          BY <2>1 DEF BookInv, Now
        <4>3. told.refused \subseteq 1..added
          BY DEF SentInv
        <4>. QED  BY <1>1, <2>1, <2>3, <4>1, <4>2, <4>3 DEF BookInv
      <3>. QED  BY <3>2, <3>3
    <2>4. CASE added' = added + 1 /\ added' \in Mutations /\ Fresh(Append(pending, added')) /\ op' \in {"add", "none"} /\ ~failure
      <3>1. Elements(pending') = Elements(pending) \cup {added + 1}
        <4>1. Elements(Append(pending, added')) = Elements(pending) \cup {added'}
          BY <1>1, <2>4, AppendOf
        <4>2. Elements(pending') = Elements(Append(pending, added'))
          BY <2>4, FreshSet
        <4>. QED  BY <2>4, <4>1, <4>2
      <3>2. SentInv'
        <4>1. Sent \cap Elements(pending) = {} /\ Sent \subseteq 1..added
          BY <2>2, <2>4 DEF SentInv
        <4>. QED  BY <1>1, <1>3, <2>1, <2>2, <2>4, <3>1, <4>1 DEF SentInv
      <3>3. BookInv'
        <4>1. Now' = Elements(pending) \cup {added + 1}
          BY <2>4, <3>1 DEF Now
        <4>2. (1..added) \ told.refused = told.flushed \cup Elements(pending) /\ told.flushed \cap Elements(pending) = {}
          BY <2>1, <2>4 DEF BookInv, Now
        <4>3. told.refused \subseteq 1..added
          BY DEF SentInv
        <4>. QED  BY <1>1, <2>1, <2>4, <4>1, <4>2, <4>3 DEF BookInv
      <3>. QED  BY <3>2, <3>3
    <2>5. CASE added' = added /\ ~failure /\ UNCHANGED closeErr /\ Fresh(pending) /\ op' \in {"flush", "auto", "close"}
      <3>1. Elements(pending') = Elements(pending)
        BY <2>5, FreshSet
      <3>. QED  BY <1>1, <2>1, <2>2, <2>5, <3>1 DEF SentInv, BookInv, Now
    <2>6. CASE closeErr' = failure /\ UNCHANGED <<op, pending, flush, added>>
      <3>1. SentInv'
        BY <2>1, <2>6 DEF SentInv
      <3>2. Now' = Now
        BY <2>6 DEF Now
      <3>. QED  BY <2>1, <2>6, <3>1, <3>2 DEF BookInv
    <2>. QED  BY <2>1, <2>3, <2>4, <2>5, <2>6
  <1>7. CASE flush.phase # "off" /\ Ends /\ ~SendBatch
    <2>1. Sent' \subseteq Sent
      BY <1>2, <1>7
    <2>2. /\ op # "none" /\ ~failure /\ ~closeErr /\ UNCHANGED <<added, closed>>
          /\ \/ /\ UNCHANGED <<closeErr, failure>>
                /\ told'.refused = told.refused /\ told'.flushed = told.flushed \cup Elements(pending)
                /\ \/ op = "room" /\ Fresh(Append(<<>>, added)) /\ op' \in {"add", "none"}
                   \/ op # "room" /\ Fresh(<<>>) /\ op' = "none"
             \/ failure' = TRUE /\ told' = told /\ Fresh(<<>>) /\ op' = "none"
             \/ /\ ~flush.submitted /\ failure' = (op = "auto") /\ closeErr' = (op = "close") /\ op' = "none"
                /\ \/ op = "add" /\ Fresh(Front(pending))
                   \/ op \in {"close", "auto"} /\ Fresh(<<>>)
                   \/ op \in {"flush", "room"} /\ Fresh(pending)
                /\ told'.flushed = told.flushed
                /\ told'.refused = told.refused \cup (IF op \in {"add", "room"} THEN {added} ELSE {})
      BY <1>1, <1>7, EndsEffect
    <2>3. (1..added) \ told.refused = told.flushed \cup Now /\ told.flushed \cap Now = {}
      BY <2>2 DEF BookInv
    <2>4. op \in {"room", "add"} => added \in Mutations /\ added \in 1..added
      BY <1>1, MutationsRange DEF OpInv, Core, TypeInv, WriterTypes
    <2>5. CASE op = "room" /\ Fresh(Append(<<>>, added)) /\ op' \in {"add", "none"} /\ UNCHANGED <<closeErr, failure>>
               /\ told'.refused = told.refused /\ told'.flushed = told.flushed \cup Elements(pending)
      <3>1. Elements(pending') = {added}
        <4>1. <<>> \in Muts
          BY DEF Muts
        <4>2. Elements(Append(<<>>, added)) = Elements(<<>>) \cup {added}
          BY <2>4, <2>5, <4>1, AppendOf
        <4>3. Elements(pending') = Elements(Append(<<>>, added))
          BY <2>5, FreshSet
        <4>. QED  BY <1>3, <4>2, <4>3, Zenon
      <3>2. Now = Elements(pending) \cup {added} /\ Now' = {added} /\ added \notin Elements(pending)
        BY <1>1, <2>5, <3>1 DEF Now, OpInv
      <3>3. BookInv'
        BY <2>2, <2>3, <2>5, <3>2 DEF BookInv
      <3>4. SentInv'
        BY <2>1, <2>2, <2>5, <3>1 DEF SentInv
      <3>. QED  BY <3>3, <3>4
    <2>6. CASE op # "room" /\ Fresh(<<>>) /\ op' = "none" /\ UNCHANGED <<closeErr, failure>>
               /\ told'.refused = told.refused /\ told'.flushed = told.flushed \cup Elements(pending)
      <3>1. Elements(pending') = {} /\ Now' = {} /\ Now = Elements(pending)
        BY <1>3, <2>6, FreshSet DEF Now
      <3>2. BookInv'
        BY <2>2, <2>3, <2>6, <3>1 DEF BookInv
      <3>3. SentInv'
        BY <2>1, <2>2, <2>6, <3>1 DEF SentInv
      <3>. QED  BY <3>2, <3>3
    <2>7. CASE failure' = TRUE /\ told' = told /\ Fresh(<<>>) /\ op' = "none"
      <3>1. BookInv'
        BY <2>7 DEF BookInv
      <3>2. SentInv'
        BY <2>1, <2>2, <2>7 DEF SentInv
      <3>. QED  BY <3>1, <3>2
    <2>8. CASE /\ ~flush.submitted /\ failure' = (op = "auto") /\ closeErr' = (op = "close") /\ op' = "none"
               /\ \/ op = "add" /\ Fresh(Front(pending))
                  \/ op \in {"close", "auto"} /\ Fresh(<<>>)
                  \/ op \in {"flush", "room"} /\ Fresh(pending)
               /\ told'.flushed = told.flushed
               /\ told'.refused = told.refused \cup (IF op \in {"add", "room"} THEN {added} ELSE {})
      <3>1. Sent \cap Elements(pending) = {}
        BY <2>2, <2>8 DEF SentInv
      <3>2. Now' = Elements(pending')
        BY <2>8 DEF Now
      <3>3. CASE op = "add"
        <4>1. Elements(pending') = Elements(pending) \ {added} /\ added \in Elements(pending)
          <5>1. pending # <<>> /\ pending[Len(pending)] = added /\ Increasing(pending)
            BY <1>1, <3>3 DEF OpInv, BufferInv
          <5>2. Elements(Front(pending)) = Elements(pending) \ {added} /\ added \in Elements(pending)
            BY <1>1, <5>1, FrontOf
          <5>3. Elements(pending') = Elements(Front(pending))
            BY <2>8, <3>3, FreshSet
          <5>. QED  BY <5>2, <5>3
        <4>2. Now = Elements(pending) /\ told'.refused = told.refused \cup {added}
          BY <2>8, <3>3 DEF Now
        <4>3. BookInv'
          BY <2>2, <2>3, <2>8, <3>2, <4>1, <4>2 DEF BookInv
        <4>4. SentInv'
          BY <2>1, <2>2, <2>4, <2>8, <3>1, <3>3, <4>1, <4>2 DEF SentInv
        <4>. QED  BY <4>3, <4>4
      <3>4. CASE op \in {"close", "auto"}
        <4>1. Elements(pending') = {} /\ told'.refused = told.refused
          BY <1>3, <2>8, <3>4, FreshSet
        <4>2. failure' \/ closeErr'
          <5>1. CASE op = "auto"
            BY <2>8, <5>1
          <5>2. CASE op = "close"
            BY <2>8, <5>2
          <5>. QED  BY <3>4, <5>1, <5>2
        <4>3. BookInv'
          BY <4>2 DEF BookInv
        <4>4. SentInv'
          BY <2>1, <2>2, <2>8, <4>1 DEF SentInv
        <4>. QED  BY <4>3, <4>4
      <3>5. CASE op \in {"flush", "room"}
        <4>1. Elements(pending') = Elements(pending)
          BY <2>8, <3>5, FreshSet
        <4>2. CASE op = "room"
          <5>1. Now = Elements(pending) \cup {added} /\ told'.refused = told.refused \cup {added} /\ added \notin Elements(pending)
            BY <1>1, <2>8, <4>2 DEF Now, OpInv
          <5>2. BookInv'
            BY <2>2, <2>3, <2>8, <3>2, <4>1, <5>1 DEF BookInv
          <5>3. SentInv'
            BY <2>1, <2>2, <2>4, <2>8, <3>1, <4>1, <4>2, <5>1 DEF SentInv
          <5>. QED  BY <5>2, <5>3
        <4>3. CASE op = "flush"
          <5>1. Now = Elements(pending) /\ told'.refused = told.refused
            BY <2>8, <4>3 DEF Now
          <5>2. BookInv'
            BY <2>2, <2>3, <2>8, <3>2, <4>1, <5>1 DEF BookInv
          <5>3. SentInv'
            BY <2>1, <2>2, <2>8, <3>1, <4>1, <5>1 DEF SentInv
          <5>. QED  BY <5>2, <5>3
        <4>. QED  BY <3>5, <4>2, <4>3
      <3>. QED  BY <2>8, <3>3, <3>4, <3>5
    <2>. QED  BY <2>2, <2>5, <2>6, <2>7, <2>8
  <1>8. ASSUME NEW muts \in Rest, Again(muts), ~SendBatch PROVE BookInv' /\ SentInv'
    <2>1. UNCHANGED writer /\ flush'.submitted = flush.submitted
      BY <1>1, <1>8, RestOf, AgainEffect
    <2>. QED  BY <1>4, <1>8, <2>1
  <1>9. CASE Phases /\ ~SendBatch
    <2>1. UNCHANGED writer /\ flush'.submitted = flush.submitted
      BY <1>1, <1>9, PhasesEffect
    <2>. QED  BY <1>4, <1>9, <2>1
  <1>10. CASE UNCHANGED <<writer, flush>> /\ ~SendBatch
    BY <1>4, <1>10
  <1>. QED  BY <1>5, <1>6, <1>7, <1>8, <1>9, <1>10, WriterForms DEF vars

----------------------------------------------------------------------------
(* The drain *)

\* A session that outlives the drain was put into the map after the drain began.
LEMMA QuietKept == Core /\ QuietInv /\ [Next]_vars => QuietInv'
  <1>. SUFFICES ASSUME TypeInv, QuietInv, [Next]_vars PROVE QuietInv'
    BY DEF Core
  <1>1. service.drain \in {"no", "waiting", "done"} /\ service.accepting \in BOOLEAN
    BY DEF TypeInv, ServiceRecord
  <1>2. CASE UNCHANGED vars
    BY <1>2 DEF vars, QuietInv
  <1>3. CASE Calls \/ Phases \/ PlanFails \/ StartUpdate \/ StartFails \/ SendFails \/ DecodeUpdateErrors
    <2>1. UNCHANGED <<service, strange>> /\ (session' = session \/ (session'.running = <<>> /\ session'.late = ~service.accepting))
      BY <1>3, ConnectionEffect
    <2>2. CASE session' = session
      BY <2>1, <2>2 DEF QuietInv
    <2>3. CASE session'.running = <<>> /\ session'.late = ~service.accepting
      <3>1. ~service.accepting => session'.late
        BY <2>3, Zenon
      <3>. QED  BY <2>1, <2>3, <3>1 DEF QuietInv
    <2>. QED  BY <2>1, <2>2, <2>3
  <1>4. CASE ApplyUpdates
    <2>1. /\ UNCHANGED <<service, strange>> /\ session.running = <<>>
          /\ \/ session' = session
             \/ session.state = "open" /\ session'.late = session.late /\ session'.state = session.state
      BY <1>4, ApplyEffect DEF Fails, SameSession
    <2>2. session.state = "open" /\ service.drain = "done" => session.late
      BY <1>1 DEF QuietInv
    <2>. QED  BY <2>1, <2>2 DEF QuietInv
  <1>5. CASE CommitApplied \/ CommitFails \/ CommitUnknown
    <2>1. /\ service' = service /\ session.running # <<>> /\ session'.running = <<>>
          /\ session'.state = session.state /\ session'.late = session.late
      BY <1>5, CommitEffect DEF Fails, SameSession
    <2>2. \/ strange'.afterDrain = strange.afterDrain
          \/ strange'.afterDrain = (strange.afterDrain \/ (service.drain = "done" /\ ~session.late))
      BY <1>5, CommitEffect
    <2>3. service.drain = "done" => session.late
      BY <2>1 DEF QuietInv
    <2>4. ~strange'.afterDrain
      <3>1. ~strange.afterDrain
        BY DEF QuietInv
      <3>. QED  BY <2>2, <2>3, <3>1, Zenon
    <2>. QED  BY <2>1, <2>4 DEF QuietInv
  <1>6. CASE CloseUpdate \/ CancelUpdate \/ ExpireSession \/ BeginDrain \/ DrainDone \/ Restart \/ Disconnect
    <2>1. strange' = strange /\ session'.late = session.late
      BY <1>6, EndingEffect DEF SameCounts
    <2>2. \/ service' = service /\ session'.state \in {"gone", session.state} /\ session'.running \in {<<>>, session.running}
          \/ session'.state # "open" /\ ~service'.accepting /\ service'.drain = "waiting"
          \/ /\ session' = session /\ (session.running = <<>> \/ session.late)
             /\ service.drain = "waiting" /\ service'.drain = "done" /\ service'.accepting = service.accepting
          \/ service'.accepting /\ service'.drain = "no"
      BY <1>6, EndingEffect
    <2>3. service' \in ServiceRecord
      BY <1>6, EndingEffect
    <2>. QED  BY <1>1, <2>1, <2>2, <2>3 DEF QuietInv, ServiceRecord
  <1>. QED  BY <1>2, <1>3, <1>4, <1>5, <1>6 DEF Next, WriterSteps, FaultSteps, ServiceSteps, Calls, Phases

Books == Core /\ BookInv /\ SentInv /\ QuietInv

\* Nothing was added, sent or counted in the beginning.
LEMMA BooksInit == Init => Books
  <1>. SUFFICES ASSUME Init PROVE Books
    OBVIOUS
  <1>1. <<>> \in Muts /\ Elements(<<>>) = {} /\ Increasing(<<>>) /\ Len(Sizes) \in Nat
    BY MutationsRange DEF Muts, Elements, Increasing
  <1>2. NoFlush \in FlushRecord /\ NoWire \in WireRecord /\ NoReply \in ReplyRecord /\ NoSession \in SessionRecord({0})
    BY <1>1 DEF NoFlush, FlushRecord, NoWire, WireRecord, NoReply, ReplyRecord, NoSession, SessionRecord
  <1>3. WriterTypes /\ SessionTyped /\ flush \in FlushRecord /\ wire \in WireRecord /\ reply \in ReplyRecord
    <2>1. session = NoSession /\ flush = NoFlush /\ wire = NoWire /\ reply = NoReply
      BY DEF Init
    <2>2. WriterTypes
      <3>1. pending = <<>> /\ added = 0 /\ closed = FALSE /\ closeErr = FALSE /\ failure = FALSE /\ op = "none"
        BY DEF Init
      <3>2. told \in ToldRecord
        BY DEF Init, ToldRecord
      <3>3. added \in 0..Len(Sizes)
        BY <1>1, <3>1
      <3>. QED  BY <1>1, <3>1, <3>2, <3>3, Zenon DEF WriterTypes, Ops
    <2>3. SessionTyped
      BY <1>2, <2>1 DEF SessionTyped
    <2>. QED  BY <1>2, <2>1, <2>2, <2>3
  <1>4. service \in ServiceRecord /\ tablet \in TabletRecord /\ strange \in StrangeRecord
    BY DEF Init, ServiceRecord, TabletRecord, StrangeRecord
  <1>5. OpInv /\ BufferInv
    BY <1>1 DEF Init, OpInv, BufferInv, NoFlush
  <1>6. BookInv
    <2>1. Now = {}
      BY <1>1 DEF Init, Now
    <2>. QED  BY <2>1 DEF Init, BookInv
  <1>7. Sent = {}
    <2>1. Flying = {}
      BY <1>1 DEF Init, Flying, NoSession, NoWire
    <2>. QED  BY <2>1 DEF Init, Sent
  <1>8. SentInv /\ QuietInv
    BY <1>1, <1>7 DEF Init, SentInv, QuietInv, NoSession
  <1>. QED  BY <1>3, <1>4, <1>5, <1>6, <1>8 DEF Books, Core, TypeInv

\* Types, the order of the buffers, the books and the drain, in every reachable state.
THEOREM Safety == Spec => []Books
  <1>1. Books /\ [Next]_vars => Books'
    BY CoreKept, BooksKept, QuietKept DEF Books
  <1>. QED  BY BooksInit, <1>1, PTL DEF Spec

\* A mutation that Add took is buffered or flushed while the writer has not failed,
\* and one that Add refused is never committed, whatever the sizes, the limits, the
\* faults and the moment at which each call ends (batch_writer.go).
THEOREM BooksBalance == Spec => []NothingVanishes
  <1>1. Books => NothingVanishes
    <2>. SUFFICES ASSUME Books PROVE NothingVanishes
      OBVIOUS
    <2>1. ToSet(pending) = Elements(pending)
      BY ElementsOf DEF Books, Core, TypeInv, WriterTypes
    <2>2. ~failure /\ ~closeErr =>
             (1..added) \ told.refused = told.flushed \cup Now /\ told.flushed \cap Now = {}
      BY DEF Books, BookInv
    <2>3. told.refused \cap tablet.applied = {}
      BY DEF Books, SentInv, Sent
    <2>. QED  BY <2>1, <2>2, <2>3 DEF NothingVanishes, Now
  <1>. QED  BY Safety, <1>1, PTL

\* After Drain has returned nothing is committed for a session that was open when
\* the drain began, also when a session was registered meanwhile (service.go).
THEOREM DrainQuiets == Spec => []DrainedIsQuiet
  <1>1. Books => DrainedIsQuiet
    BY DEF Books, QuietInv, DrainedIsQuiet
  <1>. QED  BY Safety, <1>1, PTL

----------------------------------------------------------------------------
(* How an attempt is laid out *)

\* Two sequences with the same members are the same; empty parts and whole ones.
LEMMA PartsOf ==
  ASSUME NEW s \in Muts
  PROVE  /\ \A t \in Muts : Len(s) = Len(t) /\ (\A i \in 1..Len(s) : s[i] = t[i]) => s = t
         /\ \A m \in 0..Len(s) : SubSeq(s, m + 1, m) = <<>>
         /\ \A z \in Nat : z = 0 => SubSeq(s, z + 1, Len(s)) = s
  <1>1. ASSUME NEW a \in Muts, NEW b \in Muts, Len(a) = Len(b), \A i \in 1..Len(a) : a[i] = b[i] PROVE a = b
    BY <1>1 DEF Muts
  <1>2. Len(s) \in Nat /\ Len(s) \in 0..Len(s) /\ <<>> \in Muts /\ Len(<<>>) = 0
    BY DEF Muts
  <1>3. ASSUME NEW m \in 0..Len(s) PROVE SubSeq(s, m + 1, m) = <<>>
    <2>1. PICK t \in Muts : t = SubSeq(s, m + 1, m) /\ Len(t) = 0
      <3>1. m \in Nat /\ ~(m < m)
        BY <1>2
      <3>2. SubSeq(s, m + 1, m) \in Muts /\ Len(SubSeq(s, m + 1, m)) = IF m < m THEN m - m ELSE 0
        BY <3>1, PartOf
      <3>. QED  BY <3>1, <3>2
    <2>. QED  BY <2>1 DEF Muts
  <1>4. ASSUME NEW z \in Nat, z = 0 PROVE SubSeq(s, z + 1, Len(s)) = s
    <2>1. PICK t \in Muts : /\ t = SubSeq(s, z + 1, Len(s)) /\ Len(t) = IF z < Len(s) THEN Len(s) - z ELSE 0
                            /\ \A i \in 1..Len(t) : t[i] = s[z + i]
      BY <1>2, PartOf
    <2>2. Len(t) = Len(s)
      BY <1>2, <1>4, <2>1
    <2>3. \A i \in 1..Len(t) : t[i] = s[i]
      BY <1>2, <1>4, <2>1, <2>2
    <2>. QED  BY <1>1, <2>1, <2>2, <2>3
  <1>. QED  BY <1>1, <1>3, <1>4

\* A part of a part is a part.
LEMMA PartOfPart ==
  ASSUME NEW s \in Muts, NEW c \in 0..Len(s), NEW k \in 0..(Len(s) - c), NEW z \in Nat, z = 0
  PROVE  LET t == SubSeq(s, c + 1, Len(s)) IN
         SubSeq(t, z + 1, k) = SubSeq(s, c + 1, c + k) /\ SubSeq(t, k + 1, Len(t)) = SubSeq(s, c + k + 1, Len(s))
  <1>L. Len(s) \in Nat /\ Len(s) \in 0..Len(s)
    BY DEF Muts
  <1>E. ASSUME NEW a \in Muts, NEW b \in Muts, Len(a) = Len(b), \A i \in 1..Len(a) : a[i] = b[i] PROVE a = b
    BY <1>E, PartsOf
  <1>1. c \in Nat /\ k \in Nat /\ c + k \in Nat /\ c + k \in 0..Len(s) /\ c + k <= Len(s)
    BY <1>L
  <1>2. PICK t \in Muts : /\ t = SubSeq(s, c + 1, Len(s)) /\ Len(t) = IF c < Len(s) THEN Len(s) - c ELSE 0
                          /\ \A i \in 1..Len(t) : t[i] = s[c + i]
    BY <1>L, <1>1, PartOf
  <1>3. Len(t) = Len(s) - c /\ k \in 0..Len(t) /\ Len(t) \in 0..Len(t)
    BY <1>L, <1>1, <1>2
  <1>4. PICK a \in Muts : /\ a = SubSeq(t, z + 1, k) /\ Len(a) = IF z < k THEN k - z ELSE 0
                          /\ \A i \in 1..Len(a) : a[i] = t[z + i]
    BY <1>3, PartOf
  <1>5. PICK b \in Muts : /\ b = SubSeq(s, c + 1, c + k) /\ Len(b) = IF c < c + k THEN (c + k) - c ELSE 0
                          /\ \A i \in 1..Len(b) : b[i] = s[c + i]
    BY <1>1, PartOf
  <1>6. Len(a) = k /\ Len(b) = k
    <2>1. Len(a) = k
      BY <1>1, <1>4
    <2>2. Len(b) = k
      BY <1>1, <1>5
    <2>. QED  BY <2>1, <2>2
  <1>7. \A i \in 1..Len(a) : a[i] = b[i]
    <2>. SUFFICES ASSUME NEW i \in 1..Len(a) PROVE a[i] = b[i]
      OBVIOUS
    <2>1. i \in 1..Len(b) /\ z + i = i /\ i \in 1..Len(t)
      BY <1>1, <1>3, <1>6
    <2>. QED  BY <1>2, <1>4, <1>5, <2>1
  <1>8. a = b
    BY <1>E, <1>6, <1>7
  <1>9. PICK d \in Muts : /\ d = SubSeq(t, k + 1, Len(t)) /\ Len(d) = IF k < Len(t) THEN Len(t) - k ELSE 0
                          /\ \A i \in 1..Len(d) : d[i] = t[k + i]
    BY <1>1, <1>3, PartOf
  <1>q. PICK q \in Nat : q = c + k /\ q <= Len(s)
    BY <1>1
  <1>10. PICK e \in Muts : /\ e = SubSeq(s, q + 1, Len(s)) /\ Len(e) = IF q < Len(s) THEN Len(s) - q ELSE 0
                           /\ \A i \in 1..Len(e) : e[i] = s[q + i]
    <2>1. q \in Nat /\ Len(s) \in 0..Len(s)
      BY <1>L, <1>q
    <2>2. LET e == SubSeq(s, q + 1, Len(s)) IN
          e \in Muts /\ Len(e) = (IF q < Len(s) THEN Len(s) - q ELSE 0) /\ \A i \in 1..Len(e) : e[i] = s[q + i]
      BY <2>1, PartOf
    <2>. QED  BY <2>2, Zenon
  <1>11. Len(d) = (Len(s) - c) - k /\ Len(e) = (Len(s) - c) - k
    <2>1. Len(d) = (Len(s) - c) - k
      <3>1. Len(d) = IF k < Len(t) THEN Len(t) - k ELSE 0
        BY <1>9
      <3>. QED  BY <1>L, <1>1, <1>3, <3>1
    <2>2. Len(e) = (Len(s) - c) - k
      BY <1>L, <1>1, <1>q, <1>10
    <2>. QED  BY <2>1, <2>2
  <1>12. \A i \in 1..Len(d) : d[i] = e[i]
    <2>. SUFFICES ASSUME NEW i \in 1..Len(d) PROVE d[i] = e[i]
      OBVIOUS
    <2>1. i \in 1..Len(e) /\ k + i \in 1..Len(t) /\ c + (k + i) = (c + k) + i
      BY <1>L, <1>1, <1>3, <1>11
    <2>. QED  BY <1>2, <1>9, <1>q, <1>10, <2>1
  <1>13. d = e
    BY <1>E, <1>11, <1>12
  <1>. QED  BY <1>2, <1>4, <1>5, <1>8, <1>9, <1>q, <1>10, <1>13

\* The cuts are numbers in order, and what lies between them is known.
Parts(at, all, run, bs, rest) ==
    /\ Len(bs) \in Nat /\ Len(all) \in Nat
    /\ \A i \in 0..(Len(bs) + 1) : at[i] \in 0..Len(all) /\ at[i] \in Nat
    /\ at[0] <= at[1] /\ at[1] <= at[Len(bs) + 1]
    /\ run \in Muts /\ Len(run) = at[1] - at[0] /\ Elements(run) = {all[i] : i \in (at[0] + 1)..at[1]}
    /\ rest \in Muts /\ Elements(rest) = {all[i] : i \in (at[Len(bs) + 1] + 1)..Len(all)}
    /\ Len(rest) = Len(all) - at[Len(bs) + 1]
    /\ \A i \in 1..Len(bs) : Elements(bs[i]) = {all[j] : j \in (at[i] + 1)..at[i + 1]}

\* See above.
LEMMA LaidParts ==
  ASSUME NEW all \in Muts, NEW at, NEW run, NEW bs \in Seq(Muts), NEW rest, Laid(at, all, run, bs, rest)
  PROVE  Parts(at, all, run, bs, rest)
  <1>1. Len(bs) \in Nat /\ Len(all) \in Nat /\ Len(all) \in 0..Len(all)
    BY DEF Muts
  <1>2. \A i \in 0..(Len(bs) + 1) : at[i] \in 0..Len(all) /\ at[i] \in Nat
    <2>1. at \in [0..(Len(bs) + 1) -> 0..Len(all)]
      BY DEF Laid
    <2>. QED  BY <1>1, <2>1
  <1>3. 0 \in 0..(Len(bs) + 1) /\ 1 \in 0..(Len(bs) + 1) /\ Len(bs) + 1 \in 0..(Len(bs) + 1) /\ 1 <= Len(bs) + 1
    BY <1>1
  <1>4. at[0] <= at[1] /\ at[1] <= at[Len(bs) + 1]
    <2>1. \A i, j \in 0..(Len(bs) + 1) : i <= j => at[i] <= at[j]
      BY DEF Laid
    <2>. QED  BY <1>3, <2>1
  <1>5. PICK a \in Nat, b \in Nat, c \in Nat : /\ a = at[0] /\ b = at[1] /\ c = at[Len(bs) + 1]
                                               /\ a <= b /\ b \in 0..Len(all) /\ c \in 0..Len(all)
    BY <1>2, <1>3, <1>4
  <1>6. run \in Muts /\ Len(run) = b - a /\ Elements(run) = {all[i] : i \in (a + 1)..b}
    <2>1. run = SubSeq(all, a + 1, b)
      BY <1>5 DEF Laid
    <2>2. run \in Muts /\ Len(run) = (IF a < b THEN b - a ELSE 0) /\ Elements(run) = {all[i] : i \in (a + 1)..b}
      BY <1>5, <2>1, PartOf
    <2>. QED  BY <1>5, <2>2
  <1>7. rest \in Muts /\ Len(rest) = Len(all) - c /\ Elements(rest) = {all[i] : i \in (c + 1)..Len(all)}
    <2>1. rest = SubSeq(all, c + 1, Len(all))
      BY <1>5 DEF Laid
    <2>2. rest \in Muts /\ Len(rest) = (IF c < Len(all) THEN Len(all) - c ELSE 0) /\ Elements(rest) = {all[i] : i \in (c + 1)..Len(all)}
      BY <1>1, <1>5, <2>1, PartOf
    <2>. QED  BY <1>1, <1>5, <2>2
  <1>8. ASSUME NEW i \in 1..Len(bs) PROVE Elements(bs[i]) = {all[j] : j \in (at[i] + 1)..at[i + 1]}
    <2>1. i \in 0..(Len(bs) + 1) /\ i + 1 \in 0..(Len(bs) + 1)
      BY <1>1
    <2>2. PICK p \in Nat, q \in 0..Len(all) : p = at[i] /\ q = at[i + 1]
      BY <1>2, <2>1
    <2>3. bs[i] = SubSeq(all, p + 1, q)
      BY <2>2 DEF Laid
    <2>4. Elements(SubSeq(all, p + 1, q)) = {all[j] : j \in (p + 1)..q}
      BY <2>2, PartOf
    <2>. QED  BY <2>2, <2>3, <2>4
  <1>. QED  BY <1>1, <1>2, <1>4, <1>5, <1>6, <1>7, <1>8 DEF Parts

\* A new attempt: nothing is sent.
LEMMA LaidFirst ==
  ASSUME NEW all \in Muts
  PROVE  \E at : Laid(at, all, <<>>, <<>>, all) /\ at[0] = 0
  <1>. DEFINE at == [i \in 0..1 |-> 0]
  <1>1. Len(all) \in Nat /\ Len(<<>>) = 0 /\ Len(<<>>) + 1 = 1
    BY DEF Muts
  <1>2. at[0] = 0 /\ at[1] = 0 /\ at \in [0..1 -> 0..Len(all)]
    BY <1>1
  <1>3. <<>> = SubSeq(all, 0 + 1, 0) /\ all = SubSeq(all, 0 + 1, Len(all))
    <2>1. PICK z \in Nat : z = 0 /\ z \in 0..Len(all)
      BY <1>1
    <2>2. SubSeq(all, z + 1, z) = <<>> /\ SubSeq(all, z + 1, Len(all)) = all
      BY <2>1, PartsOf
    <2>. QED  BY <2>1, <2>2
  <1>4. \A i, j \in 0..1 : at[i] <= at[j]
    BY <1>1
  <1>. HIDE DEF at
  <1>5. Laid(at, all, <<>>, <<>>, all)
    BY <1>1, <1>2, <1>3, <1>4 DEF Laid
  <1>. QED  BY <1>2, <1>5

\* A batch runs no more: the part before it grows by the batch.
LEMMA LaidDone ==
  ASSUME NEW all \in Muts, NEW at, NEW run, NEW bs \in Seq(Muts), NEW rest, Laid(at, all, run, bs, rest)
  PROVE  \E done : Laid(done, all, <<>>, bs, rest) /\ done[0] = at[1]
  <1>1. Len(bs) \in Nat /\ Len(all) \in Nat /\ at[1] \in 0..Len(all) /\ at[0] <= at[1]
        /\ \A i \in 0..(Len(bs) + 1) : at[i] \in 0..Len(all) /\ at[i] \in Nat
    <2>1. Len(bs) \in Nat /\ Len(all) \in Nat /\ at[0] <= at[1]
          /\ \A i \in 0..(Len(bs) + 1) : at[i] \in 0..Len(all) /\ at[i] \in Nat
      BY LaidParts DEF Parts
    <2>2. 1 \in 0..(Len(bs) + 1)
      BY <2>1
    <2>. QED  BY <2>1, <2>2
  <1>. DEFINE done == [i \in 0..(Len(bs) + 1) |-> IF i = 0 THEN at[1] ELSE at[i]]
  <1>2. 0 \in 0..(Len(bs) + 1) /\ 1 \in 0..(Len(bs) + 1) /\ Len(bs) + 1 \in 0..(Len(bs) + 1) /\ Len(bs) + 1 # 0
    BY <1>1
  <1>3. done[0] = at[1] /\ done[1] = at[1] /\ done \in [0..(Len(bs) + 1) -> 0..Len(all)]
    BY <1>1, <1>2
  <1>4. \A i \in 1..(Len(bs) + 1) : done[i] = at[i]
    BY <1>1
  <1>5. \A i, j \in 0..(Len(bs) + 1) : i <= j => done[i] <= done[j]
    <2>. SUFFICES ASSUME NEW i \in 0..(Len(bs) + 1), NEW j \in 0..(Len(bs) + 1), i <= j PROVE done[i] <= done[j]
      OBVIOUS
    <2>1. \A k, l \in 0..(Len(bs) + 1) : k <= l => at[k] <= at[l]
      BY DEF Laid
    <2>2. CASE i = 0 /\ j = 0
      BY <1>1, <2>2
    <2>3. CASE i = 0 /\ j # 0
      <3>1. 1 <= j /\ done[j] = at[j] /\ done[i] = at[1]
        BY <1>1, <2>3
      <3>. QED  BY <1>2, <2>1, <3>1
    <2>4. CASE i # 0
      <3>1. done[j] = at[j] /\ done[i] = at[i]
        BY <1>1, <2>4
      <3>. QED  BY <2>1, <3>1
    <2>. QED  BY <2>2, <2>3, <2>4
  <1>. HIDE DEF done
  <1>6. SubSeq(all, done[0] + 1, done[1]) = <<>>
    BY <1>1, <1>3, PartsOf
  <1>7. \A i \in 1..Len(bs) : bs[i] = SubSeq(all, done[i] + 1, done[i + 1])
    <2>. SUFFICES ASSUME NEW i \in 1..Len(bs) PROVE bs[i] = SubSeq(all, done[i] + 1, done[i + 1])
      OBVIOUS
    <2>1. i \in 1..(Len(bs) + 1) /\ i + 1 \in 1..(Len(bs) + 1)
      BY <1>1
    <2>2. done[i] = at[i] /\ done[i + 1] = at[i + 1]
      BY <1>4, <2>1
    <2>. QED  BY <2>2 DEF Laid
  <1>8. rest = SubSeq(all, done[Len(bs) + 1] + 1, Len(all))
    <2>1. done[Len(bs) + 1] = at[Len(bs) + 1]
      BY <1>1, <1>2, <1>4
    <2>. QED  BY <2>1 DEF Laid
  <1>9. Laid(done, all, <<>>, bs, rest)
    BY <1>3, <1>5, <1>6, <1>7, <1>8 DEF Laid
  <1>. QED  BY <1>3, <1>9

\* The next batch is taken from the connection, to run or to be dropped.
LEMMA LaidTake ==
  ASSUME NEW all \in Muts, NEW at, NEW bs \in Seq(Muts), NEW rest, Laid(at, all, <<>>, bs, rest), bs # <<>>
  PROVE  /\ \E take : Laid(take, all, Head(bs), Tail(bs), rest) /\ take[0] = at[0]
         /\ \E drop : Laid(drop, all, <<>>, Tail(bs), rest) /\ drop[0] >= at[0] /\ drop[0] \in Nat
  <1>1. /\ Len(bs) \in Nat /\ Len(all) \in Nat /\ at[0] <= at[1] /\ Len(<<>>) = at[1] - at[0]
        /\ \A i \in 0..(Len(bs) + 1) : at[i] \in 0..Len(all) /\ at[i] \in Nat
    BY LaidParts DEF Parts
  <1>2. /\ Tail(bs) \in Seq(Muts) /\ Head(bs) = bs[1] /\ Len(bs) # 0 /\ Len(Tail(bs)) = Len(bs) - 1
        /\ \A i \in 1..(Len(bs) - 1) : Tail(bs)[i] = bs[i + 1]
    BY DEF Muts
  <1>3. PICK n \in Nat : n + 1 = Len(bs) /\ Len(Tail(bs)) = n
    <2>1. Len(bs) \in Nat /\ Len(bs) # 0
      BY <1>1, <1>2
    <2>2. PICK n \in Nat : n = Len(bs) - 1 /\ n + 1 = Len(bs)
      BY <2>1
    <2>3. Len(Tail(bs)) = Len(bs) - 1
      BY <1>2
    <2>. QED  BY <2>2, <2>3
  <1>4. PICK t \in Seq(Muts) : t = Tail(bs) /\ Len(t) = n /\ \A i \in 1..n : t[i] = bs[i + 1]
    <2>1. n = Len(bs) - 1
      BY <1>1, <1>3
    <2>. QED  BY <1>2, <1>3, <2>1, Zenon
  <1>5. at[0] = at[1]
    <2>1. 0 \in 0..(Len(bs) + 1) /\ 1 \in 0..(Len(bs) + 1)
      BY <1>1
    <2>2. at[0] \in Nat /\ at[1] \in Nat
      BY <1>1, <2>1
    <2>3. Len(<<>>) = 0 /\ Len(<<>>) = at[1] - at[0]
      BY <1>1
    <2>. QED  BY <2>2, <2>3
  <1>. DEFINE take == [i \in 0..(n + 1) |-> at[i + 1]]
  <1>6. \A i \in 0..(n + 1) : i + 1 \in 0..(Len(bs) + 1) /\ take[i] = at[i + 1]
    BY <1>3
  <1>7. take \in [0..(n + 1) -> 0..Len(all)]
    BY <1>1, <1>6
  <1>8. \A i, j \in 0..(n + 1) : i <= j => take[i] <= take[j]
    <2>. SUFFICES ASSUME NEW i \in 0..(n + 1), NEW j \in 0..(n + 1), i <= j PROVE take[i] <= take[j]
      OBVIOUS
    <2>1. i + 1 \in 0..(Len(bs) + 1) /\ j + 1 \in 0..(Len(bs) + 1) /\ i + 1 <= j + 1
      BY <1>3
    <2>2. take[i] = at[i + 1] /\ take[j] = at[j + 1]
      BY <1>6
    <2>3. \A k, l \in 0..(Len(bs) + 1) : k <= l => at[k] <= at[l]
      BY DEF Laid
    <2>. QED  BY <2>1, <2>2, <2>3
  <1>. HIDE DEF take
  <1>9. take[0] = at[1] /\ take[1] = at[2] /\ take[n + 1] = at[Len(bs) + 1]
    <2>1. 0 \in 0..(n + 1) /\ 1 \in 0..(n + 1) /\ n + 1 \in 0..(n + 1) /\ 0 + 1 = 1 /\ 1 + 1 = 2
      OBVIOUS
    <2>2. take[0] = at[0 + 1] /\ take[1] = at[1 + 1] /\ take[n + 1] = at[(n + 1) + 1]
      BY <1>6, <2>1, Zenon
    <2>. QED  BY <1>3, <2>1, <2>2
  <1>10. Head(bs) = SubSeq(all, take[0] + 1, take[1])
    <2>1. 1 \in 1..Len(bs) /\ 1 + 1 = 2
      BY <1>3
    <2>2. bs[1] = SubSeq(all, at[1] + 1, at[1 + 1])
      BY <2>1 DEF Laid
    <2>. QED  BY <1>2, <1>9, <2>1, <2>2
  <1>11. \A i \in 1..n : t[i] = SubSeq(all, take[i] + 1, take[i + 1])
    <2>. SUFFICES ASSUME NEW i \in 1..n PROVE t[i] = SubSeq(all, take[i] + 1, take[i + 1])
      OBVIOUS
    <2>1. i + 1 \in 1..Len(bs) /\ i \in 0..(n + 1) /\ i + 1 \in 0..(n + 1)
      BY <1>3
    <2>2. bs[i + 1] = SubSeq(all, at[i + 1] + 1, at[(i + 1) + 1])
      BY <2>1 DEF Laid
    <2>. QED  BY <1>4, <1>6, <2>1, <2>2
  <1>12. rest = SubSeq(all, take[n + 1] + 1, Len(all))
    BY <1>9 DEF Laid
  <1>13. Laid(take, all, Head(bs), t, rest)
    BY <1>4, <1>7, <1>8, <1>10, <1>11, <1>12 DEF Laid
  <1>14. PICK drop : Laid(drop, all, <<>>, t, rest) /\ drop[0] = take[1]
    BY <1>13, LaidDone
  <1>15. take[0] <= take[1] /\ take[1] \in Nat
    <2>1. 0 \in 0..(n + 1) /\ 1 \in 0..(n + 1) /\ 0 <= 1
      OBVIOUS
    <2>. QED  BY <1>1, <1>7, <1>8, <2>1
  <1>. QED  BY <1>4, <1>5, <1>9, <1>13, <1>14, <1>15

\* A batch is sent: the first part of what is unsent.
LEMMA LaidSend ==
  ASSUME NEW all \in Muts, NEW at, NEW run, NEW bs \in Seq(Muts), NEW rest, Laid(at, all, run, bs, rest),
         NEW k \in Nat, k <= Len(rest)
  PROVE  \E more : /\ Laid(more, all, run, Append(bs, SubSeq(rest, 0 + 1, k)), SubSeq(rest, k + 1, Len(rest)))
                   /\ more[0] = at[0]
  <1>1. /\ Len(bs) \in Nat /\ Len(all) \in Nat /\ Len(rest) = Len(all) - at[Len(bs) + 1] /\ rest \in Muts
        /\ \A i \in 0..(Len(bs) + 1) : at[i] \in 0..Len(all) /\ at[i] \in Nat
    <2>1. Parts(at, all, run, bs, rest)
      BY LaidParts
    <2>. QED  BY <2>1 DEF Parts
  <1>2. PICK n \in Nat, c \in Nat : n = Len(bs) /\ c = at[n + 1] /\ c \in 0..Len(all) /\ k \in 0..(Len(all) - c) /\ c + k \in 0..Len(all)
    <2>1. Len(bs) + 1 \in 0..(Len(bs) + 1)
      BY <1>1
    <2>2. at[Len(bs) + 1] \in Nat /\ at[Len(bs) + 1] \in 0..Len(all)
      BY <1>1, <2>1
    <2>3. Len(rest) = Len(all) - at[Len(bs) + 1] /\ Len(all) \in Nat
      BY <1>1
    <2>. QED  BY <1>1, <2>2, <2>3
  <1>3. PICK b \in Muts : b = SubSeq(rest, 0 + 1, k) /\ b = SubSeq(all, c + 1, c + k)
    <2>1. rest = SubSeq(all, c + 1, Len(all))
      BY <1>2 DEF Laid
    <2>2. PICK z \in Nat : z = 0
      OBVIOUS
    <2>3. SubSeq(rest, z + 1, k) = SubSeq(all, c + 1, c + k)
      BY <1>2, <2>1, <2>2, PartOfPart
    <2>4. SubSeq(all, c + 1, c + k) \in Muts
      BY <1>2, PartOf
    <2>. QED  BY <2>2, <2>3, <2>4
  <1>4. SubSeq(rest, k + 1, Len(rest)) = SubSeq(all, (c + k) + 1, Len(all))
    <2>1. rest = SubSeq(all, c + 1, Len(all))
      BY <1>2 DEF Laid
    <2>2. PICK z \in Nat : z = 0
      OBVIOUS
    <2>3. LET r == SubSeq(all, c + 1, Len(all)) IN
          SubSeq(r, z + 1, k) = SubSeq(all, c + 1, c + k) /\ SubSeq(r, k + 1, Len(r)) = SubSeq(all, c + k + 1, Len(all))
      <3>1. c \in 0..Len(all) /\ k \in 0..(Len(all) - c)
        BY <1>2
      <3>. QED  BY <2>2, <3>1, PartOfPart, Zenon
    <2>. QED  BY <2>1, <2>3
  <1>5. PICK a \in Seq(Muts) : a = Append(bs, b) /\ Len(a) = n + 1 /\ a[n + 1] = b /\ \A i \in 1..n : a[i] = bs[i]
    <2>1. /\ Append(bs, b) \in Seq(Muts) /\ Len(Append(bs, b)) = n + 1
          /\ \A i \in 1..(n + 1) : Append(bs, b)[i] = IF i <= n THEN bs[i] ELSE b
      BY <1>2
    <2>2. n + 1 \in 1..(n + 1) /\ ~(n + 1 <= n) /\ \A i \in 1..n : i \in 1..(n + 1) /\ i <= n
      OBVIOUS
    <2>3. Append(bs, b)[n + 1] = b /\ \A i \in 1..n : Append(bs, b)[i] = bs[i]
      BY <2>1, <2>2
    <2>. QED  BY <2>1, <2>3, Zenon
  <1>. DEFINE more == [i \in 0..(n + 2) |-> IF i = n + 2 THEN c + k ELSE at[i]]
  <1>6. more[n + 2] = c + k /\ (\A i \in 0..(n + 1) : more[i] = at[i]) /\ more \in [0..(n + 2) -> 0..Len(all)]
    <2>1. \A i \in 0..(n + 2) : i # n + 2 => i \in 0..(n + 1)
      OBVIOUS
    <2>2. n + 2 \in 0..(n + 2) /\ \A i \in 0..(n + 1) : i \in 0..(n + 2) /\ i # n + 2
      OBVIOUS
    <2>3. \A i \in 0..(n + 1) : at[i] \in 0..Len(all)
      BY <1>1, <1>2
    <2>. QED  BY <1>2, <2>1, <2>2, <2>3
  <1>7. \A i, j \in 0..(n + 2) : i <= j => more[i] <= more[j]
    <2>. SUFFICES ASSUME NEW i \in 0..(n + 2), NEW j \in 0..(n + 2), i <= j PROVE more[i] <= more[j]
      OBVIOUS
    <2>1. \A p, q \in 0..(n + 1) : p <= q => at[p] <= at[q]
      BY <1>2 DEF Laid
    <2>2. CASE j # n + 2
      <3>1. i \in 0..(n + 1) /\ j \in 0..(n + 1)
        BY <2>2
      <3>. QED  BY <1>6, <2>1, <3>1
    <2>3. CASE j = n + 2 /\ i = n + 2
      BY <1>2, <1>6, <2>3
    <2>4. CASE j = n + 2 /\ i # n + 2
      <3>1. i \in 0..(n + 1) /\ i <= n + 1 /\ n + 1 \in 0..(n + 1)
        BY <2>4
      <3>2. at[i] <= c /\ at[i] \in Nat /\ more[i] = at[i] /\ more[j] = c + k
        BY <1>1, <1>2, <1>6, <2>1, <2>4, <3>1
      <3>. QED  BY <3>2
    <2>. QED  BY <2>2, <2>3, <2>4
  <1>. HIDE DEF more
  <1>8. run = SubSeq(all, more[0] + 1, more[1]) /\ more[0] = at[0]
    <2>1. 0 \in 0..(n + 1) /\ 1 \in 0..(n + 1)
      OBVIOUS
    <2>2. more[0] = at[0] /\ more[1] = at[1]
      BY <1>6, <2>1
    <2>. QED  BY <2>2 DEF Laid
  <1>9. \A i \in 1..(n + 1) : a[i] = SubSeq(all, more[i] + 1, more[i + 1])
    <2>. SUFFICES ASSUME NEW i \in 1..(n + 1) PROVE a[i] = SubSeq(all, more[i] + 1, more[i + 1])
      OBVIOUS
    <2>1. CASE i = n + 1
      <3>1. more[i] = c /\ i + 1 = n + 2
        <4>1. n + 1 \in 0..(n + 1) /\ (n + 1) + 1 = n + 2
          OBVIOUS
        <4>2. more[n + 1] = at[n + 1]
          BY <1>6, <4>1
        <4>. QED  BY <1>2, <2>1, <4>1, <4>2
      <3>. QED  BY <1>3, <1>5, <1>6, <2>1, <3>1
    <2>2. CASE i # n + 1
      <3>1. i \in 1..n /\ i \in 0..(n + 1) /\ i + 1 \in 0..(n + 1)
        BY <2>2
      <3>2. bs[i] = SubSeq(all, at[i] + 1, at[i + 1])
        BY <1>2, <3>1 DEF Laid
      <3>. QED  BY <1>5, <1>6, <3>1, <3>2
    <2>. QED  BY <2>1, <2>2
  <1>10. Laid(more, all, run, a, SubSeq(rest, k + 1, Len(rest)))
    <2>1. Len(a) + 1 = n + 2
      BY <1>5
    <2>. QED  BY <1>4, <1>5, <1>6, <1>7, <1>8, <1>9, <2>1 DEF Laid
  <1>. QED  BY <1>3, <1>5, <1>8, <1>10

\* What is unsent has nothing in common with what is under way, or was processed.
Unmixed(at, all, run, bs, rest) ==
    /\ Disjoint(run, rest) /\ \A i \in 1..Len(bs) : Disjoint(bs[i], rest)
    /\ \A x \in Elements(rest) : \E i \in 1..Len(all) : x = all[i] /\ i > at[0]

\* See above.
LEMMA LaidApart ==
  ASSUME NEW all \in Muts, NEW at, NEW run, NEW bs \in Seq(Muts), NEW rest, Laid(at, all, run, bs, rest), Increasing(all)
  PROVE  Unmixed(at, all, run, bs, rest)
  <1>1. /\ Len(bs) \in Nat /\ Len(all) \in Nat
        /\ \A i \in 0..(Len(bs) + 1) : at[i] \in 0..Len(all) /\ at[i] \in Nat
        /\ at[0] <= at[1] /\ at[1] <= at[Len(bs) + 1]
        /\ Elements(run) = {all[i] : i \in (at[0] + 1)..at[1]}
        /\ Elements(rest) = {all[i] : i \in (at[Len(bs) + 1] + 1)..Len(all)}
        /\ \A i \in 1..Len(bs) : Elements(bs[i]) = {all[j] : j \in (at[i] + 1)..at[i + 1]}
    <2>1. Parts(at, all, run, bs, rest)
      BY LaidParts
    <2>. QED  BY <2>1 DEF Parts
  <1>2. 0 \in 0..(Len(bs) + 1) /\ 1 \in 0..(Len(bs) + 1) /\ Len(bs) + 1 \in 0..(Len(bs) + 1)
    BY <1>1
  <1>3. PICK c \in Nat : c = at[Len(bs) + 1] /\ c <= Len(all) /\ Elements(rest) = {all[i] : i \in (c + 1)..Len(all)}
    BY <1>1, <1>2
  <1>4. \A i \in 1..Len(all) : all[i] \in Nat
    BY ElementsOf
  <1>5. ASSUME NEW p \in Nat, NEW q \in Nat, q <= c, NEW s, Elements(s) = {all[j] : j \in (p + 1)..q} PROVE Disjoint(s, rest)
    <2>. SUFFICES ASSUME NEW i \in (p + 1)..q, NEW j \in (c + 1)..Len(all), all[i] = all[j] PROVE FALSE
      BY <1>3, <1>5 DEF Disjoint
    <2>1. i \in 1..Len(all) /\ j \in 1..Len(all) /\ i < j
      BY <1>1, <1>3, <1>5
    <2>. QED  BY <1>4, <2>1 DEF Increasing
  <1>6. Disjoint(run, rest)
    BY <1>1, <1>2, <1>3, <1>5
  <1>7. ASSUME NEW i \in 1..Len(bs) PROVE Disjoint(bs[i], rest)
    <2>1. i \in 0..(Len(bs) + 1) /\ i + 1 \in 0..(Len(bs) + 1) /\ i + 1 <= Len(bs) + 1
      BY <1>1
    <2>2. at[i + 1] <= c
      BY <1>2, <1>3, <2>1 DEF Laid
    <2>. QED  BY <1>1, <1>5, <2>1, <2>2
  <1>8. ASSUME NEW x \in Elements(rest) PROVE \E i \in 1..Len(all) : x = all[i] /\ i > at[0]
    <2>1. PICK i \in (c + 1)..Len(all) : x = all[i]
      BY <1>3, <1>8
    <2>2. at[0] \in Nat /\ at[1] \in Nat /\ at[0] <= c
      BY <1>1, <1>2, <1>3
    <2>3. i \in 1..Len(all) /\ i > at[0]
      BY <1>1, <1>3, <2>1, <2>2
    <2>. QED  BY <2>1, <2>3
  <1>. QED  BY <1>6, <1>7, <1>8 DEF Unmixed

\* When nothing runs, nothing is on the connection and nothing is unsent, all was processed.
LEMMA LaidEnd ==
  ASSUME NEW all \in Muts, NEW at, Laid(at, all, <<>>, <<>>, <<>>)
  PROVE  at[0] = Len(all)
  <1>1. <<>> \in Seq(Muts) /\ Len(<<>>) = 0 /\ Len(<<>>) + 1 = 1 /\ Len(all) \in Nat
    BY DEF Muts
  <1>2. at \in [0..1 -> 0..Len(all)]
    BY <1>1 DEF Laid
  <1>3. at[0] \in Nat /\ at[1] \in Nat
    BY <1>1, <1>2
  <1>4. Len(<<>>) = at[1] - at[0] /\ Len(<<>>) = Len(all) - at[Len(<<>>) + 1]
    <2>1. Parts(at, all, <<>>, <<>>, <<>>)
      BY <1>1, LaidParts
    <2>. QED  BY <1>1, <2>1 DEF Parts
  <1>5. at[Len(<<>>) + 1] = at[1]
    BY <1>1
  <1>. QED  BY <1>1, <1>3, <1>4, <1>5

----------------------------------------------------------------------------
(* The phases of an attempt *)

\* Before a session is registered nothing is sent, and nothing after a flush ended.
LEMMA EarlyEffect ==
  ASSUME Core, Core', Calls \/ Plan \/ PlanFails \/ StartUpdate \/ StartFails
  PROVE  /\ ~Sending /\ ~Sending' /\ UNCHANGED <<wire, session, reply, tablet, strange>>
         /\ (~failure' => ~failure) /\ told'.flushed = told.flushed
         /\ \/ op' = "none"
            \/ ~flush'.submitted /\ flush'.remaining = pending' /\ ~failure'
            \/ op # "none" /\ flush'.remaining = flush.remaining /\ pending' = pending
  <1>1. TypeInv /\ OpInv /\ BufferInv
    BY DEF Core
  <1>2. UNCHANGED <<wire, session, reply, tablet, strange>>
    BY DEF Calls, Add, Flush, Close, AutomaticFlush, Plan, PlanFails, StartUpdate, StartFails
  <1>3. \A b : Fresh(b) => /\ ~Sending' /\ (op' = "none" \/ (~flush'.submitted /\ flush'.remaining = pending' /\ ~failure'))
    <2>. SUFFICES ASSUME NEW b, Fresh(b)
                  PROVE  ~Sending' /\ (op' = "none" \/ (~flush'.submitted /\ flush'.remaining = pending' /\ ~failure'))
      OBVIOUS
    <2>1. flush'.phase \in {"off", "plan"} /\ (op' = "none" \/ (~flush'.submitted /\ flush'.remaining = pending'))
      BY DEF Fresh, NoFlush
    <2>2. op' # "none" => ~failure'
      BY DEF Core, OpInv
    <2>. QED  BY <2>1, <2>2 DEF Sending
  <1>4. CASE Calls
    <2>1. op = "none" /\ UNCHANGED <<told, failure>> /\ (UNCHANGED <<op, flush>> \/ \E b : Fresh(b))
      BY <1>1, <1>4, CallsEffect
    <2>2. ~Sending
      BY <1>1, <2>1 DEF OpInv, NoFlush, Sending
    <2>3. CASE UNCHANGED <<op, flush>>
      BY <1>2, <2>1, <2>2, <2>3 DEF Sending
    <2>. QED  BY <1>2, <1>3, <2>1, <2>2, <2>3
  <1>5. CASE Plan \/ (StartUpdate /\ service.accepting)
    <2>1. flush.phase \in {"plan", "start"} /\ UNCHANGED writer
          /\ (flush' = [flush EXCEPT !.phase = "start"] \/ flush' = [flush EXCEPT !.phase = "register"])
      BY <1>5 DEF Plan, StartUpdate
    <2>2. flush'.phase \in {"start", "register"} /\ flush'.remaining = flush.remaining
      BY <1>1, <2>1 DEF TypeInv, FlushRecord
    <2>3. op # "none"
      BY <1>1, <2>1 DEF OpInv, NoFlush
    <2>. QED  BY <1>2, <2>1, <2>2, <2>3 DEF Sending, writer
  <1>6. CASE PlanFails \/ StartFails \/ (StartUpdate /\ ~service.accepting)
    <2>1. flush.phase \in {"plan", "start", "register"} /\ (Retry(flush.remaining) \/ FinishSubmissionFailure(flush.submitted))
      BY <1>6 DEF PlanFails, StartFails, StartUpdate
    <2>2. FailWriter \/ (KeepBuffer /\ ~flush.submitted) \/ Again(flush.remaining)
      BY <2>1 DEF Retry, FinishSubmissionFailure, Again
    <2>3. op # "none" /\ ~failure
      BY <1>1, <2>1 DEF OpInv, NoFlush
    <2>4. CASE FailWriter \/ (KeepBuffer /\ ~flush.submitted)
      <3>1. op' = "none" /\ flush' = NoFlush
        BY <2>4 DEF FailWriter, KeepBuffer
      <3>2. told'.flushed = told.flushed
        BY <1>1, <2>4 DEF FailWriter, KeepBuffer, TypeInv, WriterTypes, ToldRecord
      <3>. QED  BY <1>2, <2>1, <2>3, <3>1, <3>2 DEF Sending, NoFlush
    <2>5. CASE Again(flush.remaining)
      <3>1. flush.remaining \in Muts
        BY <1>1 DEF TypeInv, FlushRecord
      <3>2. flush'.phase = "plan" /\ flush'.remaining = flush.remaining /\ UNCHANGED writer
        BY <1>1, <2>5, <3>1, AgainEffect
      <3>. QED  BY <1>2, <2>1, <2>3, <3>2 DEF Sending, writer
    <2>. QED  BY <2>2, <2>4, <2>5
  <1>. QED  BY <1>4, <1>5, <1>6

\* How the answer to closeUpdate ends an attempt.
LEMMA DecodeEffect ==
  ASSUME Core, DecodeUpdateErrors
  PROVE  /\ flush.phase = "close" /\ ~Sending' /\ wire' = NoWire /\ reply' = NoReply /\ UNCHANGED <<session, tablet, strange>>
         /\ op # "none" /\ ~failure /\ (~failure' => reply.kind = "errors")
         /\ \/ op' = "none" /\ told'.flushed = told.flushed
            \/ /\ reply.kind = "errors" /\ ~reply.refused /\ ~reply.failed
               /\ told'.flushed = told.flushed \cup Elements(pending)
               /\ op' = "none" \/ (~flush'.submitted /\ flush'.remaining = pending' /\ ~failure')
            \/ /\ reply.kind = "errors" /\ ~reply.refused /\ reply.failed /\ UNCHANGED writer
               /\ flush'.remaining = SubSeq(flush.remaining, reply.reported + 1, Len(flush.remaining))
  <1>1. TypeInv /\ OpInv /\ BufferInv /\ flush.phase = "close" /\ wire' = NoWire /\ reply' = NoReply /\ UNCHANGED <<session, tablet, strange>>
    BY DEF Core, DecodeUpdateErrors
  <1>2. op # "none" /\ ~failure
    BY <1>1 DEF OpInv, NoFlush
  <1>3. flush.remaining \in Muts /\ Len(flush.remaining) \in 0..Len(flush.remaining) /\ reply.reported \in Nat
    BY <1>1 DEF TypeInv, FlushRecord, Muts, ReplyRecord
  <1>4. PICK muts \in Muts : muts = SubSeq(flush.remaining, reply.reported + 1, Len(flush.remaining))
    BY <1>3, PartOf
  <1>5. \/ FailWriter
        \/ reply.kind = "errors" /\ ~reply.refused /\ ~reply.failed /\ Succeed
        \/ reply.kind = "errors" /\ ~reply.refused /\ reply.failed /\ Retry(muts)
    BY <1>4 DEF DecodeUpdateErrors
  <1>6. CASE FailWriter
    BY <1>1, <1>2, <1>6 DEF FailWriter, Sending, NoFlush
  <1>7. CASE reply.kind = "errors" /\ ~reply.refused /\ ~reply.failed /\ Succeed
    <2>1. UNCHANGED failure /\ told'.flushed = told.flushed \cup Elements(pending)
      <3>1. ToSet(pending) = Elements(pending) /\ told \in ToldRecord
        BY <1>1, ElementsOf DEF TypeInv, WriterTypes
      <3>2. UNCHANGED failure /\ told' = [told EXCEPT !.flushed = told.flushed \cup Elements(pending)]
        BY <1>7, <3>1 DEF Succeed
      <3>. QED  BY <3>1, <3>2 DEF ToldRecord
    <2>2. CASE op # "room"
      <3>1. op' = "none" /\ flush' = NoFlush
        BY <1>7, <2>2 DEF Succeed
      <3>. QED  BY <1>1, <1>2, <1>7, <2>1, <3>1 DEF Sending, NoFlush
    <2>3. CASE op = "room"
      <3>1. Buffer(<<>>, added) /\ <<>> \in Muts /\ added \in Mutations
        BY <1>1, <1>7, <2>3, MutationsRange DEF Succeed, Muts, OpInv, TypeInv, WriterTypes
      <3>2. Fresh(Append(<<>>, added))
        BY <3>1, FreshBuffer
      <3>3. flush'.phase \in {"off", "plan"} /\ (op' = "none" \/ (~flush'.submitted /\ flush'.remaining = pending'))
        BY <3>2 DEF Fresh, NoFlush
      <3>. QED  BY <1>1, <1>2, <1>7, <2>1, <3>3 DEF Sending
    <2>. QED  BY <2>2, <2>3
  <1>8. CASE reply.kind = "errors" /\ ~reply.refused /\ reply.failed /\ Retry(muts)
    <2>1. FailWriter \/ (KeepBuffer /\ ~flush.submitted) \/ Again(muts)
      BY <1>8 DEF Retry, FinishSubmissionFailure, Again
    <2>2. CASE KeepBuffer
      <3>1. op' = "none" /\ flush' = NoFlush /\ told'.flushed = told.flushed
        BY <1>1, <2>2 DEF KeepBuffer, TypeInv, WriterTypes, ToldRecord
      <3>. QED  BY <1>1, <1>2, <1>8, <3>1 DEF Sending, NoFlush
    <2>3. CASE Again(muts)
      <3>1. flush'.phase = "plan" /\ flush'.remaining = muts /\ UNCHANGED writer
        BY <1>1, <2>3, AgainEffect
      <3>. QED  BY <1>1, <1>2, <1>4, <1>8, <3>1 DEF Sending
    <2>. QED  BY <1>6, <2>1, <2>2, <2>3
  <1>. QED  BY <1>5, <1>6, <1>7, <1>8

\* Registration, the last request, and a connection that fails.
LEMMA SendingEffect ==
  ASSUME Core
  PROVE  /\ RegisterSession => /\ flush.phase = "register" /\ flush'.phase = "send" /\ UNCHANGED <<writer, tablet, strange>>
                               /\ flush'.remaining = flush.remaining /\ flush'.unsent = flush.remaining
         /\ SendBatch => flush.phase = "send" /\ UNCHANGED <<writer, session, reply, tablet, strange>>
         /\ SendClose => /\ flush.phase = "send" /\ flush.unsent = <<>> /\ flush'.phase = "close"
                         /\ flush'.remaining = flush.remaining /\ flush'.unsent = <<>>
                         /\ UNCHANGED <<writer, session, reply, tablet, strange>>
         /\ SendFails => /\ flush.phase \in {"send", "close"} /\ failure' /\ op' = "none" /\ ~Sending' /\ told' = told
                         /\ UNCHANGED <<session, reply, tablet, strange>>
  <1>1. flush \in FlushRecord
    BY DEF Core, TypeInv
  <1>2. RegisterSession => /\ flush.phase = "register" /\ flush'.phase = "send" /\ UNCHANGED <<writer, tablet, strange>>
                           /\ flush'.remaining = flush.remaining /\ flush'.unsent = flush.remaining
    BY <1>1 DEF RegisterSession, FlushRecord
  <1>3. SendBatch => flush.phase = "send" /\ UNCHANGED <<writer, session, reply, tablet, strange>>
    BY DEF SendBatch
  <1>4. SendClose => /\ flush.phase = "send" /\ flush.unsent = <<>> /\ flush'.phase = "close"
                     /\ flush'.remaining = flush.remaining /\ flush'.unsent = <<>>
                     /\ UNCHANGED <<writer, session, reply, tablet, strange>>
    BY <1>1 DEF SendClose, FlushRecord
  <1>5. SendFails => /\ flush.phase \in {"send", "close"} /\ failure' /\ op' = "none" /\ ~Sending' /\ told' = told
                     /\ UNCHANGED <<session, reply, tablet, strange>>
    BY DEF SendFails, FailWriter, Sending, NoFlush
  <1>. QED  BY <1>2, <1>3, <1>4, <1>5

\* The connection and the reply follow the phases.
LEMMA PhaseKept == Core /\ PhaseInv /\ [Next]_vars => PhaseInv'
  <1>. SUFFICES ASSUME Core, PhaseInv, [Next]_vars PROVE PhaseInv'
    OBVIOUS
  <1>1. TypeInv /\ OpInv /\ Core'
    BY CoreKept DEF Core
  <1>2. flush.phase \in {"off", "plan", "start", "register", "send", "close"} /\ (Sending => ~failure)
    BY <1>1 DEF TypeInv, FlushRecord, OpInv, Sending, NoFlush
  <1>3. NoWire.batches = <<>> /\ NoWire.last = "none" /\ NoReply.kind = "none"
    BY DEF NoWire, NoReply
  <1>4. CASE UNCHANGED vars
    BY <1>4 DEF vars, writer, PhaseInv, Sending
  <1>5. CASE Calls \/ Plan \/ PlanFails \/ StartUpdate \/ StartFails
    <2>1. ~Sending /\ ~Sending' /\ UNCHANGED <<wire, session, reply>> /\ (~failure' => ~failure)
      BY <1>1, <1>5, EarlyEffect
    <2>. QED  BY <2>1 DEF PhaseInv, Sending
  <1>6. CASE RegisterSession
    <2>1. flush'.phase = "send" /\ wire'.last = "none" /\ wire'.up /\ reply' = NoReply
      BY <1>1, <1>6, SendingEffect, RegisterEffect
    <2>. QED  BY <1>3, <2>1 DEF PhaseInv, Sending
  <1>7. CASE SendBatch
    <2>1. flush.phase = "send" /\ UNCHANGED reply
      BY <1>7, SendingEffect
    <2>2. flush'.phase = flush.phase /\ wire'.last = wire.last /\ wire'.up = wire.up
      BY <1>1, <1>7, SendEffect
    <2>. QED  BY <2>1, <2>2 DEF PhaseInv, Sending
  <1>8. CASE SendClose
    <2>1. flush.phase = "send" /\ flush'.phase = "close" /\ flush'.unsent = <<>> /\ UNCHANGED reply
      BY <1>8, SendingEffect
    <2>2. wire'.last = "close" /\ wire'.up = wire.up
      <3>1. wire' = [wire EXCEPT !.last = "close"] /\ wire \in WireRecord
        BY <1>1, <1>8 DEF SendClose, TypeInv
      <3>. QED  BY <3>1 DEF WireRecord
    <2>. QED  BY <2>1, <2>2 DEF PhaseInv, Sending
  <1>9. CASE SendFails
    <2>1. failure' /\ ~Sending'
      BY <1>9, SendingEffect
    <2>. QED  BY <2>1 DEF PhaseInv, Sending
  <1>10. CASE DecodeUpdateErrors
    <2>1. flush.phase = "close" /\ ~Sending' /\ wire' = NoWire /\ reply' = NoReply /\ UNCHANGED session /\ (~failure' => reply.kind = "errors")
      BY <1>10, DecodeEffect
    <2>. QED  BY <1>3, <2>1 DEF PhaseInv, Sending
  <1>11. CASE ApplyUpdates
    <2>1. wire.batches # <<>> /\ wire'.last = wire.last /\ wire'.up = wire.up /\ UNCHANGED <<writer, flush, reply>>
      BY <1>1, <1>11, ApplyEffect
    <2>. QED  BY <1>2, <2>1 DEF PhaseInv, Sending, writer
  <1>12. CASE CommitApplied \/ CommitFails \/ CommitUnknown
    <2>1. session.running # <<>> /\ session'.running = <<>> /\ UNCHANGED <<writer, flush, wire, reply>>
      BY <1>1, <1>12, CommitEffect
    <2>. QED  BY <1>2, <2>1 DEF PhaseInv, Sending, writer
  <1>13. CASE CloseUpdate \/ CancelUpdate \/ ExpireSession \/ BeginDrain \/ DrainDone \/ Restart \/ Disconnect
    <2>1. /\ UNCHANGED <<writer, flush>>
          /\ \/ /\ wire.last = "close" /\ session'.running = <<>> /\ reply'.kind # "none"
                /\ wire'.last = "none" /\ wire'.batches = <<>> /\ wire'.up = wire.up
             \/ wire.last = "cancel"
             \/ UNCHANGED <<wire, reply>> /\ session'.running \in {<<>>, session.running}
             \/ ~wire.up /\ wire' = NoWire /\ UNCHANGED <<session, reply>>
      BY <1>1, <1>13, EndingEffect
    <2>. QED  BY <1>2, <1>3, <2>1 DEF PhaseInv, Sending, writer
  <1>. QED  BY <1>4, <1>5, <1>6, <1>7, <1>8, <1>9, <1>10, <1>11, <1>12, <1>13 DEF Next, WriterSteps, FaultSteps, ServiceSteps, Calls

----------------------------------------------------------------------------
(* What a session counts *)

\* The counts of a session under a step that commits nothing: they may only be less
\* certain, because the session failed, refused or is gone.
LEMMA CountsFade ==
  ASSUME Core, Core', NEW d \in Nat, NEW e \in Nat, CountInv(d), d <= e, UNCHANGED <<tablet, strange>>, flush'.remaining = flush.remaining,
         session'.committed = session.committed,
         \/ session'.reported = session.reported /\ session'.failed = session.failed
         \/ session'.reported = session.committed /\ session'.failed,
         Counting' => Counting,
         Counting' => session'.failed \/ d = e
  PROVE  CountInv(e)'
  <1>1. session.committed \in Nat /\ session.reported \in Nat
    BY DEF Core, TypeInv, SessionTyped, SessionRecord
  <1>2. Straight' = Straight /\ Plain' = Plain
    BY DEF Straight, Plain
  <1>3. Len(flush.remaining) \in Nat
    BY DEF Core, TypeInv, FlushRecord, Muts
  <1>4. Counting' /\ ~session'.failed => session'.committed = e
    BY DEF CountInv
  <1>5. session'.reported <= session'.committed
    BY <1>1 DEF CountInv
  <1>6. Straight' /\ Counting' => /\ session'.failed => session'.reported = session'.committed
                                  /\ \A i \in 1..Len(flush'.remaining) : i <= session'.committed => flush'.remaining[i] \in tablet'.applied
    BY <1>2 DEF CountInv
  <1>7. Plain' => \A i \in 1..Len(flush'.remaining) :
           /\ i > e => flush'.remaining[i] \notin tablet'.applied
           /\ Counting' /\ i > session'.committed => flush'.remaining[i] \notin tablet'.applied
    <2>. SUFFICES ASSUME Plain', NEW i \in 1..Len(flush.remaining)
                  PROVE  /\ i > e => flush.remaining[i] \notin tablet.applied
                         /\ Counting' /\ i > session.committed => flush.remaining[i] \notin tablet.applied
      OBVIOUS
    <2>1. i > e => i > d
      BY <1>3
    <2>. QED  BY <1>2, <2>1 DEF CountInv
  <1>. QED  BY <1>4, <1>5, <1>6, <1>7 DEF CountInv

\* The attempt of a commit that ends: what was counted, and what the tablet has.
LEMMA CountsCommit ==
  ASSUME Core, Core', NEW at, Cuts(at), CountInv(at[0]), CommitApplied \/ CommitFails \/ CommitUnknown
  PROVE  CountInv(at[1])'
  <1>1. TypeInv /\ wire.batches \in Seq(Muts) /\ Increasing(flush.remaining)
    BY DEF Core, TypeInv, WireRecord, BufferInv
  <1>2. PICK all \in Muts : all = flush.remaining
    BY <1>1 DEF TypeInv, FlushRecord
  <1>3. Laid(at, all, session.running, wire.batches, flush.unsent)
    BY <1>2 DEF Cuts
  <1>4. Parts(at, all, session.running, wire.batches, flush.unsent)
    BY <1>1, <1>2, <1>3, LaidParts
  <1>5. PICK a \in Nat, b \in Nat : /\ a = at[0] /\ b = at[1] /\ a <= b /\ b <= Len(all) /\ Len(all) \in Nat
                                    /\ Len(session.running) = b - a
                                    /\ Elements(session.running) = {all[i] : i \in (a + 1)..b}
    <2>1. Len(wire.batches) \in Nat /\ Len(all) \in Nat /\ \A i \in 0..(Len(wire.batches) + 1) : at[i] \in 0..Len(all) /\ at[i] \in Nat
      BY <1>4 DEF Parts
    <2>2. 0 \in 0..(Len(wire.batches) + 1) /\ 1 \in 0..(Len(wire.batches) + 1)
      BY <2>1
    <2>3. at[0] \in Nat /\ at[1] \in Nat /\ at[1] <= Len(all)
      BY <2>1, <2>2
    <2>4. /\ at[0] <= at[1] /\ Len(session.running) = at[1] - at[0]
          /\ Elements(session.running) = {all[i] : i \in (at[0] + 1)..at[1]}
      BY <1>4 DEF Parts
    <2>. QED  BY <2>1, <2>3, <2>4
  <1>6. session.committed \in Nat /\ session.reported \in Nat /\ session.failed \in BOOLEAN /\ strange \in StrangeRecord
    BY <1>1 DEF TypeInv, SessionTyped, SessionRecord
  <1>7. CountInv(a)
    BY <1>5
  <1>8. flush' = flush
    BY <1>1, CommitEffect
  <1>9. CASE CommitFails /\ tablet' = tablet /\ strange' = strange
    <2>1. session' = RecordFailure(session)
      BY <1>9 DEF CommitFails
    <2>2. Fails(session', session)
      <3>1. PICK sums : session \in SessionRecord(sums)
        BY <1>1 DEF TypeInv, SessionTyped
      <3>. QED  BY <2>1, <3>1, FailureEffect
    <2>3. session'.committed = session.committed /\ session'.failed /\ (Counting' => Counting)
      BY <2>2 DEF Fails, SameSession, Counting
    <2>4. session'.reported = session.committed
      <3>1. session.reported <= session.committed
        BY <1>7 DEF CountInv
      <3>2. session'.reported \in {session.reported, session.committed} /\ session'.reported >= session.committed
        BY <2>2 DEF Fails
      <3>. QED  BY <1>6, <3>1, <3>2
    <2>5. CountInv(b)'
      BY <1>5, <1>7, <1>8, <1>9, <2>3, <2>4, CountsFade
    <2>. QED  BY <1>5, <2>5
  <1>10. CASE CommitUnknown /\ strange'.unknown /\ strange'.overtaken = strange.overtaken
    <2>1. session' = RecordFailure(session)
      BY <1>10 DEF CommitUnknown
    <2>2. Fails(session', session)
      <3>1. PICK sums : session \in SessionRecord(sums)
        BY <1>1 DEF TypeInv, SessionTyped
      <3>. QED  BY <2>1, <3>1, FailureEffect
    <2>3. session'.committed = session.committed /\ session'.failed /\ (Counting' => Counting)
      BY <2>2 DEF Fails, SameSession, Counting
    <2>4. session'.reported = session.committed
      <3>1. session.reported <= session.committed
        BY <1>7 DEF CountInv
      <3>2. session'.reported \in {session.reported, session.committed} /\ session'.reported >= session.committed
        BY <2>2 DEF Fails
      <3>. QED  BY <1>6, <3>1, <3>2
    <2>5. tablet.applied \subseteq tablet'.applied
      BY <1>1, <1>10, CommitEffect
    <2>6. ~Plain' /\ (Straight' => Straight)
      BY <1>10 DEF Plain, Straight
    <2>7. Straight /\ Counting => \A i \in 1..Len(all) : i <= session.committed => all[i] \in tablet.applied
      BY <1>2, <1>7 DEF CountInv
    <2>8. Straight' /\ Counting' => \A i \in 1..Len(flush'.remaining) : i <= session'.committed => flush'.remaining[i] \in tablet'.applied
      BY <1>2, <1>8, <2>3, <2>5, <2>6, <2>7
    <2>9. session'.reported <= session'.committed
      BY <1>6, <2>3, <2>4
    <2>. QED  BY <2>3, <2>4, <2>6, <2>8, <2>9 DEF CountInv
  <1>11. CASE /\ CommitApplied /\ strange'.unknown = strange.unknown
              /\ strange'.overtaken = (strange.overtaken \/ session.failed)
              /\ tablet'.applied = tablet.applied \cup Elements(session.running)
    <2>1. (Straight' => Straight /\ ~session.failed) /\ (Plain' => Plain /\ ~session.failed)
      <3>1. ~strange'.overtaken => ~strange.overtaken /\ ~session.failed
        BY <1>11, Zenon
      <3>. QED  BY <1>11, <3>1 DEF Straight, Plain
    <2>2. ASSUME Plain', NEW i \in 1..Len(all), i > b PROVE all[i] \notin tablet'.applied
      <3>1. i > a
        BY <1>5, <2>2
      <3>2. all[i] \notin tablet.applied
        BY <1>2, <1>7, <2>1, <2>2, <3>1 DEF CountInv
      <3>3. \A j \in (a + 1)..b : j \in 1..Len(all) /\ j < i /\ all[j] < all[i] /\ all[j] \in Nat /\ all[i] \in Nat
        <4>. SUFFICES ASSUME NEW j \in (a + 1)..b
                      PROVE  j \in 1..Len(all) /\ j < i /\ all[j] < all[i] /\ all[j] \in Nat /\ all[i] \in Nat
          OBVIOUS
        <4>1. j \in 1..Len(all) /\ j < i
          BY <1>5, <2>2
        <4>2. all[j] \in Nat /\ all[i] \in Nat
          BY <4>1, ElementsOf
        <4>3. all[j] < all[i]
          BY <1>1, <1>2, <4>1 DEF Increasing
        <4>. QED  BY <4>1, <4>2, <4>3
      <3>4. \A j \in (a + 1)..b : all[j] # all[i]
        BY <3>3
      <3>5. all[i] \notin Elements(session.running)
        BY <1>5, <3>4
      <3>. QED  BY <1>11, <3>2, <3>5
    <2>3. CASE session.state # "open"
      <3>1. session' = RecordFailure(session)
        BY <1>11, <2>3 DEF CommitApplied
      <3>2. Fails(session', session)
        <4>1. PICK sums : session \in SessionRecord(sums)
          BY <1>1 DEF TypeInv, SessionTyped
        <4>. QED  BY <3>1, <4>1, FailureEffect
      <3>3. ~Counting' /\ session'.committed = session.committed
        BY <2>3, <3>2 DEF Fails, SameSession, Counting
      <3>4. session'.reported <= session'.committed
        <4>1. session.reported <= session.committed /\ session'.reported \in {session.reported, session.committed}
          BY <1>7, <3>2 DEF CountInv, Fails
        <4>. QED  BY <1>6, <3>3, <4>1
      <3>5. Plain' => \A i \in 1..Len(flush'.remaining) : i > b => flush'.remaining[i] \notin tablet'.applied
        BY <1>2, <1>8, <2>2
      <3>. QED  BY <1>5, <3>3, <3>4, <3>5 DEF CountInv
    <2>4. CASE session.state = "open"
      <3>1. /\ session'.committed = session.committed + (b - a) /\ session'.reported = session.reported
            /\ session'.failed = session.failed /\ (Counting' => Counting)
        <4>1. session' = [session EXCEPT !.committed = session.committed + Len(session.running), !.running = <<>>]
          BY <1>11, <2>4 DEF CommitApplied
        <4>2. PICK sums : session \in SessionRecord(sums)
          BY <1>1 DEF TypeInv, SessionTyped
        <4>3. PICK c \in Nat : c = session.committed + Len(session.running) /\ c = session.committed + (b - a)
          BY <1>5, <1>6
        <4>4. session' = [session EXCEPT !.committed = c, !.running = <<>>]
          BY <4>1, <4>3
        <4>5. /\ session'.committed = c /\ session'.reported = session.reported /\ session'.failed = session.failed
              /\ session'.refused = session.refused /\ session'.state = session.state
          BY <4>2, <4>4 DEF SessionRecord
        <4>. QED  BY <4>3, <4>5 DEF Counting
      <3>2. Counting' /\ ~session'.failed => session'.committed = b
        <4>1. Counting /\ ~session.failed => session.committed = a
          BY <1>7 DEF CountInv
        <4>. QED  BY <1>5, <1>6, <3>1, <4>1
      <3>3. session'.reported <= session'.committed
        <4>1. session.reported <= session.committed
          BY <1>7 DEF CountInv
        <4>. QED  BY <1>5, <1>6, <3>1, <4>1
      <3>4. Straight' /\ Counting' => /\ session'.failed => session'.reported = session'.committed
                                      /\ \A i \in 1..Len(flush'.remaining) : i <= session'.committed => flush'.remaining[i] \in tablet'.applied
        <4>. SUFFICES ASSUME Straight', Counting', NEW i \in 1..Len(all), i <= session'.committed
                      PROVE  all[i] \in tablet'.applied
          BY <1>2, <1>8, <2>1, <3>1
        <4>1. session'.committed = b /\ session.committed = a
          BY <1>7, <2>1, <3>1, <3>2 DEF CountInv
        <4>2. CASE i <= a
          BY <1>2, <1>7, <1>11, <2>1, <3>1, <4>1, <4>2 DEF CountInv
        <4>3. CASE i > a
          <5>1. i \in (a + 1)..b
            BY <1>5, <4>1, <4>3
          <5>2. all[i] \in Elements(session.running)
            BY <1>5, <5>1
          <5>. QED  BY <1>11, <5>2
        <4>. QED  BY <1>5, <4>2, <4>3
      <3>5. Plain' => \A i \in 1..Len(flush'.remaining) :
               /\ i > b => flush'.remaining[i] \notin tablet'.applied
               /\ Counting' /\ i > session'.committed => flush'.remaining[i] \notin tablet'.applied
        <4>1. Plain' /\ Counting' => session'.committed = b
          BY <2>1, <3>1, <3>2
        <4>. QED  BY <1>2, <1>8, <2>2, <4>1
      <3>. QED  BY <1>5, <3>2, <3>3, <3>4, <3>5 DEF CountInv
    <2>. QED  BY <2>3, <2>4
  <1>. QED  BY <1>1, <1>9, <1>10, <1>11, CommitEffect

Attempt == PhaseInv /\ AttemptInv /\ RestInv /\ ReplyInv /\ FlightInv /\ DoneInv

\* The parts of an attempt, for the steps that follow it.
LEMMA AttemptParts ==
  ASSUME Core, AttemptInv, Sending
  PROVE  /\ flush.remaining \in Muts /\ wire.batches \in Seq(Muts) /\ Increasing(flush.remaining)
         /\ \E at : Laid(at, flush.remaining, session.running, wire.batches, flush.unsent) /\ at[0] \in Nat /\ at[1] \in Nat
                    /\ at[0] <= at[1] /\ CountInv(at[0]) /\ Cuts(at)
  <1>1. flush.remaining \in Muts /\ wire.batches \in Seq(Muts) /\ Increasing(flush.remaining)
    BY DEF Core, TypeInv, FlushRecord, WireRecord, BufferInv
  <1>2. PICK at : Cuts(at) /\ CountInv(at[0])
    BY DEF AttemptInv
  <1>3. Laid(at, flush.remaining, session.running, wire.batches, flush.unsent)
    BY <1>2 DEF Cuts
  <1>4. Parts(at, flush.remaining, session.running, wire.batches, flush.unsent)
    BY <1>1, <1>3, LaidParts
  <1>5. Len(wire.batches) \in Nat /\ at[0] <= at[1] /\ \A i \in 0..(Len(wire.batches) + 1) : at[i] \in Nat
    BY <1>4 DEF Parts
  <1>6. 0 \in 0..(Len(wire.batches) + 1) /\ 1 \in 0..(Len(wire.batches) + 1)
    BY <1>5
  <1>7. at[0] \in Nat /\ at[1] \in Nat
    BY <1>5, <1>6
  <1>. QED  BY <1>1, <1>2, <1>3, <1>5, <1>7

\* An attempt is laid out in its order, and its session counts it.
LEMMA AttemptKept == Core /\ Attempt /\ [Next]_vars => AttemptInv'
  <1>. SUFFICES ASSUME Core, PhaseInv, AttemptInv, RestInv, [Next]_vars, Sending' PROVE \E at : Cuts(at)' /\ CountInv(at[0])'
    BY DEF Attempt, AttemptInv
  <1>1. TypeInv /\ OpInv /\ Core'
    BY CoreKept DEF Core
  <1>2. CASE RegisterSession
    <2>1. /\ flush.phase = "register" /\ flush'.remaining = flush.remaining /\ flush'.unsent = flush.remaining
          /\ UNCHANGED <<writer, tablet, strange>>
      BY <1>2, SendingEffect
    <2>2. /\ wire'.batches = <<>> /\ session'.committed = 0 /\ ~session'.failed
          /\ session'.reported = 0 /\ session'.running = <<>>
      BY <1>1, <1>2, RegisterEffect
    <2>3. flush.remaining \in Muts /\ Len(flush.remaining) \in Nat
      BY <1>1 DEF TypeInv, FlushRecord, Muts
    <2>4. PICK at : Laid(at, flush.remaining, <<>>, <<>>, flush.remaining) /\ at[0] = 0
      BY <2>3, LaidFirst
    <2>5. Cuts(at)'
      BY <2>1, <2>2, <2>4 DEF Cuts
    <2>6. op # "none" /\ ~Sending
      BY <1>1, <2>1 DEF OpInv, NoFlush, Sending
    <2>7. Plain => \A i \in 1..Len(flush.remaining) : flush.remaining[i] \notin tablet.applied
      BY <2>6 DEF RestInv, Elements
    <2>8. \A i \in 1..Len(flush.remaining) : ~(i <= 0)
      BY <2>3
    <2>9. CountInv(0)'
      BY <2>1, <2>2, <2>7, <2>8 DEF CountInv, Plain
    <2>. QED  BY <2>4, <2>5, <2>9
  <1>3. CASE SendBatch
    <2>1. Sending /\ UNCHANGED <<session, tablet, strange>>
      BY <1>3, SendingEffect DEF Sending
    <2>2. PICK k \in Nat \ {0} :
             /\ k <= Len(flush.unsent)
             /\ wire'.batches = Append(wire.batches, SubSeq(flush.unsent, 0 + 1, k))
             /\ flush'.unsent = SubSeq(flush.unsent, k + 1, Len(flush.unsent))
             /\ flush'.remaining = flush.remaining
      BY <1>1, <1>3, SendEffect
    <2>3. /\ flush.remaining \in Muts /\ wire.batches \in Seq(Muts)
          /\ \E at : Laid(at, flush.remaining, session.running, wire.batches, flush.unsent) /\ at[0] \in Nat /\ CountInv(at[0])
      BY <2>1, AttemptParts
    <2>4. PICK at : Laid(at, flush.remaining, session.running, wire.batches, flush.unsent) /\ at[0] \in Nat /\ CountInv(at[0])
      BY <2>3
    <2>5. PICK more : /\ more[0] = at[0]
                      /\ Laid(more, flush.remaining, session.running,
                              Append(wire.batches, SubSeq(flush.unsent, 0 + 1, k)), SubSeq(flush.unsent, k + 1, Len(flush.unsent)))
      BY <2>2, <2>3, <2>4, LaidSend
    <2>6. Cuts(more)'
      BY <2>1, <2>2, <2>5 DEF Cuts
    <2>7. CountInv(at[0])'
      BY <2>1, <2>2, <2>4 DEF CountInv, Counting, Straight, Plain
    <2>. QED  BY <2>5, <2>6, <2>7
  <1>4. CASE SendClose
    <2>1. /\ Sending /\ flush.unsent = <<>> /\ UNCHANGED <<session, tablet, strange>>
          /\ flush'.remaining = flush.remaining /\ flush'.unsent = <<>>
      BY <1>4, SendingEffect DEF Sending
    <2>2. wire'.batches = wire.batches
      <3>1. wire' = [wire EXCEPT !.last = "close"] /\ wire \in WireRecord
        BY <1>1, <1>4 DEF SendClose, TypeInv
      <3>. QED  BY <3>1 DEF WireRecord
    <2>3. PICK at : Laid(at, flush.remaining, session.running, wire.batches, flush.unsent) /\ CountInv(at[0])
      BY <2>1, AttemptParts
    <2>4. Cuts(at)'
      BY <2>1, <2>2, <2>3 DEF Cuts
    <2>5. CountInv(at[0])'
      BY <2>1, <2>3 DEF CountInv, Counting, Straight, Plain
    <2>. QED  BY <2>4, <2>5
  <1>5. CASE UNCHANGED vars
    <2>1. Sending /\ UNCHANGED <<flush, session, wire, tablet, strange>>
      BY <1>5 DEF vars, Sending
    <2>2. PICK at : Cuts(at) /\ CountInv(at[0])
      BY <2>1 DEF AttemptInv
    <2>. QED  BY <2>1, <2>2 DEF Cuts, CountInv, Counting, Straight, Plain
  <1>6. CASE ApplyUpdates
    <2>1. /\ wire.batches # <<>> /\ session.running = <<>> /\ wire'.batches = Tail(wire.batches)
          /\ UNCHANGED <<flush, tablet, strange>>
          /\ \/ session' = session /\ session.state # "open"
             \/ session.state = "open" /\ Fails(session', session)
             \/ /\ session.state = "open" /\ SameSession(session', session) /\ session'.failed = session.failed
                /\ session'.reported = session.reported /\ session'.running = Head(wire.batches)
             \/ /\ session.state = "open" /\ session'.refused /\ session'.committed = session.committed
                /\ session'.failed = session.failed /\ session'.reported = session.reported /\ session'.running = <<>>
      BY <1>1, <1>6, ApplyEffect
    <2>2. Sending
      BY <2>1 DEF Sending
    <2>3. /\ flush.remaining \in Muts /\ wire.batches \in Seq(Muts)
          /\ \E at : Laid(at, flush.remaining, session.running, wire.batches, flush.unsent) /\ at[0] \in Nat /\ CountInv(at[0])
      BY <2>2, AttemptParts
    <2>4. PICK at : Laid(at, flush.remaining, session.running, wire.batches, flush.unsent) /\ at[0] \in Nat /\ CountInv(at[0])
      BY <2>3
    <2>5. /\ \E take : Laid(take, flush.remaining, Head(wire.batches), Tail(wire.batches), flush.unsent) /\ take[0] = at[0]
          /\ \E drop : Laid(drop, flush.remaining, <<>>, Tail(wire.batches), flush.unsent) /\ drop[0] >= at[0] /\ drop[0] \in Nat
      BY <2>1, <2>3, <2>4, LaidTake
    <2>6. PICK drop : Laid(drop, flush.remaining, <<>>, Tail(wire.batches), flush.unsent) /\ drop[0] >= at[0] /\ drop[0] \in Nat
      BY <2>5
    <2>7. PICK take : Laid(take, flush.remaining, Head(wire.batches), Tail(wire.batches), flush.unsent) /\ take[0] = at[0]
      BY <2>5
    <2>8. session'.running = <<>> => Cuts(drop)'
      BY <2>1, <2>6 DEF Cuts
    <2>9. at[0] <= drop[0] /\ at[0] <= at[0] /\ UNCHANGED <<tablet, strange>> /\ flush'.remaining = flush.remaining
      BY <2>1, <2>4, <2>6
    <2>10. CASE session' = session /\ session.state # "open"
      <3>1. ~Counting' /\ session'.committed = session.committed /\ session'.reported = session.reported
            /\ session'.failed = session.failed /\ session'.running = <<>>
        BY <2>1, <2>10 DEF Counting
      <3>2. CountInv(drop[0])'
        BY <1>1, <2>4, <2>6, <2>9, <3>1, CountsFade
      <3>. QED  BY <2>8, <3>1, <3>2
    <2>11. CASE session.state = "open" /\ Fails(session', session)
      <3>1. session'.committed = session.committed /\ session'.failed /\ (Counting' => Counting) /\ session'.running = <<>>
        BY <2>11 DEF Fails, SameSession, Counting
      <3>2. session'.reported = session.committed
        <4>1. session.committed \in Nat /\ session.reported \in Nat
          BY <1>1 DEF TypeInv, SessionTyped, SessionRecord
        <4>2. session.reported <= session.committed /\ session'.reported \in {session.reported, session.committed}
              /\ session'.reported >= session.committed
          BY <2>4, <2>11 DEF Fails, CountInv
        <4>. QED  BY <4>1, <4>2
      <3>3. CountInv(drop[0])'
        BY <1>1, <2>4, <2>6, <2>9, <3>1, <3>2, CountsFade
      <3>. QED  BY <2>8, <3>1, <3>3
    <2>12. CASE /\ session.state = "open" /\ SameSession(session', session) /\ session'.failed = session.failed
                /\ session'.reported = session.reported /\ session'.running = Head(wire.batches)
      <3>1. session'.committed = session.committed /\ (Counting' => Counting)
        BY <2>12 DEF SameSession, Counting
      <3>2. CountInv(at[0])'
        BY <1>1, <2>4, <2>9, <2>12, <3>1, CountsFade
      <3>3. Cuts(take)'
        BY <2>1, <2>7, <2>12 DEF Cuts
      <3>. QED  BY <2>7, <3>2, <3>3
    <2>13. CASE /\ session.state = "open" /\ session'.refused /\ session'.committed = session.committed
                /\ session'.failed = session.failed /\ session'.reported = session.reported /\ session'.running = <<>>
      <3>1. ~Counting'
        BY <2>13 DEF Counting
      <3>2. CountInv(drop[0])'
        BY <1>1, <2>4, <2>6, <2>9, <2>13, <3>1, CountsFade
      <3>. QED  BY <2>8, <2>13, <3>2
    <2>. QED  BY <2>1, <2>10, <2>11, <2>12, <2>13
  <1>7. CASE CommitApplied \/ CommitFails \/ CommitUnknown
    <2>1. UNCHANGED <<flush, wire>> /\ session'.running = <<>>
      BY <1>1, <1>7, CommitEffect
    <2>2. Sending
      BY <2>1 DEF Sending
    <2>3. /\ flush.remaining \in Muts /\ wire.batches \in Seq(Muts)
          /\ \E at : Laid(at, flush.remaining, session.running, wire.batches, flush.unsent) /\ CountInv(at[0]) /\ Cuts(at)
      BY <2>2, AttemptParts
    <2>4. PICK at : Laid(at, flush.remaining, session.running, wire.batches, flush.unsent) /\ CountInv(at[0]) /\ Cuts(at)
      BY <2>3
    <2>5. PICK done : Laid(done, flush.remaining, <<>>, wire.batches, flush.unsent) /\ done[0] = at[1]
      BY <2>3, <2>4, LaidDone
    <2>6. CountInv(at[1])'
      BY <1>1, <1>7, <2>4, CountsCommit
    <2>7. Cuts(done)'
      BY <2>1, <2>5 DEF Cuts
    <2>. QED  BY <2>5, <2>6, <2>7
  <1>8. CASE CloseUpdate \/ CancelUpdate \/ ExpireSession \/ BeginDrain \/ DrainDone \/ Restart \/ Disconnect
    <2>1. /\ SameCounts(session', session) /\ UNCHANGED <<flush, tablet, strange>>
      BY <1>1, <1>8, EndingEffect
    <2>2. Sending
      BY <2>1 DEF Sending
    <2>3. wire.last # "cancel" /\ wire.up
      BY <2>2 DEF PhaseInv, Sending
    <2>4. /\ wire'.batches = wire.batches
          /\ \/ session'.running = session.running /\ (session' = session \/ session'.state # "open")
             \/ session'.running = <<>> /\ session'.state = "gone"
      BY <1>1, <1>8, <2>3, EndingEffect
    <2>5. /\ flush.remaining \in Muts /\ wire.batches \in Seq(Muts)
          /\ \E at : Laid(at, flush.remaining, session.running, wire.batches, flush.unsent) /\ at[0] \in Nat /\ at[1] \in Nat
                     /\ at[0] <= at[1] /\ CountInv(at[0])
      BY <2>2, AttemptParts
    <2>6. PICK at : Laid(at, flush.remaining, session.running, wire.batches, flush.unsent) /\ at[0] \in Nat /\ at[1] \in Nat
                    /\ at[0] <= at[1] /\ CountInv(at[0])
      BY <2>5
    <2>7. /\ session'.committed = session.committed /\ session'.reported = session.reported /\ session'.failed = session.failed
          /\ UNCHANGED <<tablet, strange>> /\ flush'.remaining = flush.remaining
      BY <2>1 DEF SameCounts
    <2>8. CASE session'.running = session.running /\ (session' = session \/ session'.state # "open")
      <3>1. Counting' => Counting
        BY <2>8 DEF Counting
      <3>2. CountInv(at[0])'
        <4>1. at[0] <= at[0]
          BY <2>6
        <4>. QED  BY <1>1, <2>6, <2>7, <3>1, <4>1, CountsFade
      <3>3. Cuts(at)'
        BY <2>1, <2>4, <2>6, <2>8 DEF Cuts
      <3>. QED  BY <3>2, <3>3
    <2>9. CASE session'.running = <<>> /\ session'.state = "gone"
      <3>1. ~Counting'
        BY <2>9 DEF Counting
      <3>2. CountInv(at[1])'
        BY <1>1, <2>6, <2>7, <3>1, CountsFade
      <3>3. PICK done : Laid(done, flush.remaining, <<>>, wire.batches, flush.unsent) /\ done[0] = at[1]
        BY <2>5, <2>6, LaidDone
      <3>4. Cuts(done)'
        BY <2>1, <2>4, <2>9, <3>3 DEF Cuts
      <3>. QED  BY <3>2, <3>3, <3>4
    <2>. QED  BY <2>4, <2>8, <2>9
  <1>9. ~(Calls \/ Plan \/ PlanFails \/ StartUpdate \/ StartFails \/ SendFails \/ DecodeUpdateErrors)
    BY <1>1, EarlyEffect, SendingEffect, DecodeEffect
  <1>. QED  BY <1>2, <1>3, <1>4, <1>5, <1>6, <1>7, <1>8, <1>9 DEF Next, WriterSteps, FaultSteps, ServiceSteps, Calls

----------------------------------------------------------------------------
(* What a flush leaves and what it tells *)

\* What the service does when nothing runs leaves the tablet as it is.
LEMMA TabletSteps ==
  ASSUME Core, [Next]_vars
  PROVE  \/ UNCHANGED <<tablet, strange>>
         \/ /\ (CommitApplied \/ CommitFails \/ CommitUnknown) /\ session.running # <<>> /\ UNCHANGED <<writer, flush, wire, reply>>
            /\ tablet.applied \subseteq tablet'.applied /\ (Straight' => Straight) /\ (Plain' => Plain)
  <1>1. TypeInv
    BY DEF Core
  <1>2. CASE CommitApplied \/ CommitFails \/ CommitUnknown
    <2>1. /\ session.running # <<>> /\ UNCHANGED <<writer, flush, wire, reply>>
          /\ tablet' = tablet \/ tablet'.applied = tablet.applied \cup Elements(session.running)
      BY <1>1, <1>2, CommitEffect
    <2>2. \/ strange' = strange
          \/ strange'.unknown /\ strange'.overtaken = strange.overtaken
          \/ strange'.unknown = strange.unknown /\ strange'.overtaken = (strange.overtaken \/ session.failed)
      BY <1>1, <1>2, CommitEffect
    <2>3. (~strange'.overtaken => ~strange.overtaken) /\ (~strange'.overtaken /\ ~strange'.unknown => ~strange.unknown)
      BY <2>2, Zenon
    <2>. QED  BY <1>2, <2>1, <2>3 DEF Straight, Plain
  <1>3. CASE UNCHANGED vars
    BY <1>3 DEF vars
  <1>4. CASE Calls \/ Phases \/ PlanFails \/ StartUpdate \/ StartFails \/ SendFails \/ DecodeUpdateErrors
    BY <1>1, <1>4, ConnectionEffect
  <1>5. CASE ApplyUpdates
    BY <1>1, <1>5, ApplyEffect
  <1>6. CASE CloseUpdate \/ CancelUpdate \/ ExpireSession \/ BeginDrain \/ DrainDone \/ Restart \/ Disconnect
    BY <1>1, <1>6, EndingEffect
  <1>. QED  BY <1>2, <1>3, <1>4, <1>5, <1>6 DEF Next, WriterSteps, FaultSteps, ServiceSteps, Calls, Phases

\* A retry sends what is not committed, and does not forget what is.
LEMMA RestKept == Core /\ SentInv' /\ Attempt /\ [Next]_vars => RestInv'
  <1>. SUFFICES ASSUME Core, SentInv', PhaseInv, RestInv, ReplyInv, [Next]_vars PROVE RestInv'
    BY DEF Attempt
  <1>1. TypeInv /\ OpInv /\ BufferInv /\ Core'
    BY CoreKept DEF Core
  <1>2. op' = "none" => RestInv'
    BY DEF RestInv
  <1>3. ASSUME ~flush'.submitted, flush'.remaining = pending', ~failure' PROVE RestInv'
    <2>1. Sent' \cap Elements(pending') = {}
      BY <1>3 DEF SentInv
    <2>2. Elements(flush'.remaining) = Elements(pending')
      BY <1>3
    <2>. QED  BY <2>1, <2>2 DEF RestInv, Sent
  <1>4. ASSUME UNCHANGED <<tablet, strange>>, flush'.remaining = flush.remaining, pending' = pending, op # "none", ~Sending' => ~Sending
        PROVE  RestInv'
    BY <1>4 DEF RestInv, Straight, Plain
  <1>5. CASE Calls \/ Plan \/ PlanFails \/ StartUpdate \/ StartFails
    <2>1. /\ ~Sending /\ UNCHANGED <<tablet, strange>>
          /\ \/ op' = "none"
             \/ ~flush'.submitted /\ flush'.remaining = pending' /\ ~failure'
             \/ op # "none" /\ flush'.remaining = flush.remaining /\ pending' = pending
      BY <1>1, <1>5, EarlyEffect
    <2>. QED  BY <1>2, <1>3, <1>4, <2>1
  <1>6. CASE RegisterSession \/ SendBatch \/ SendClose
    <2>1. UNCHANGED <<writer, tablet, strange>> /\ flush.phase # "off"
      BY <1>6, SendingEffect
    <2>2. flush'.remaining = flush.remaining /\ Sending'
      <3>1. CASE RegisterSession \/ SendClose
        BY <3>1, SendingEffect DEF Sending
      <3>2. CASE SendBatch
        <4>1. flush.phase = "send" /\ flush'.phase = flush.phase /\ flush'.remaining = flush.remaining
          BY <1>1, <3>2, SendEffect, SendingEffect
        <4>. QED  BY <4>1 DEF Sending
      <3>. QED  BY <1>6, <3>1, <3>2
    <2>3. op # "none"
      BY <1>1, <2>1 DEF OpInv, NoFlush
    <2>. QED  BY <1>4, <2>1, <2>2, <2>3 DEF writer
  <1>7. CASE SendFails
    BY <1>2, <1>7, SendingEffect
  <1>8. CASE DecodeUpdateErrors
    <2>1. /\ flush.phase = "close" /\ UNCHANGED <<tablet, strange>> /\ op # "none"
          /\ \/ op' = "none"
             \/ ~flush'.submitted /\ flush'.remaining = pending' /\ ~failure'
             \/ /\ reply.kind = "errors" /\ ~reply.refused /\ reply.failed /\ UNCHANGED writer
                /\ flush'.remaining = SubSeq(flush.remaining, reply.reported + 1, Len(flush.remaining))
      BY <1>8, DecodeEffect
    <2>2. CASE /\ reply.kind = "errors" /\ ~reply.refused /\ reply.failed /\ UNCHANGED writer
               /\ flush'.remaining = SubSeq(flush.remaining, reply.reported + 1, Len(flush.remaining))
      <3>1. PICK all \in Muts, r \in Nat : all = flush.remaining /\ r = reply.reported /\ Len(all) \in Nat /\ Len(all) \in 0..Len(all)
        BY <1>1 DEF TypeInv, FlushRecord, ReplyRecord, Muts
      <3>2. Elements(flush'.remaining) = {all[i] : i \in (r + 1)..Len(all)}
        <4>1. PICK n \in 0..Len(all) : n = Len(all)
          BY <3>1
        <4>2. Elements(SubSeq(all, r + 1, n)) = {all[i] : i \in (r + 1)..n}
          BY PartOf
        <4>. QED  BY <2>2, <3>1, <4>1, <4>2
      <3>3. /\ Straight => \A i \in 1..Len(all) : i <= r => all[i] \in tablet.applied
            /\ Plain => \A i \in 1..Len(all) : i > r => all[i] \notin tablet.applied
        BY <2>1, <2>2, <3>1 DEF ReplyInv, Sending
      <3>4. Straight => Elements(all) \subseteq tablet.applied \cup Elements(flush'.remaining)
        <4>. SUFFICES ASSUME Straight, NEW i \in 1..Len(all) PROVE all[i] \in tablet.applied \cup Elements(flush'.remaining)
          BY DEF Elements
        <4>1. i <= r \/ i \in (r + 1)..Len(all)
          <5>1. r \in Nat /\ i \in Nat /\ Len(all) \in Nat
            BY <3>1
          <5>. QED  BY <5>1
        <4>2. i <= r => all[i] \in tablet.applied
          BY <3>3
        <4>3. i \in (r + 1)..Len(all) => all[i] \in Elements(flush'.remaining)
          BY <3>2
        <4>. QED  BY <4>1, <4>2, <4>3
      <3>5. Plain => Elements(flush'.remaining) \cap tablet.applied = {}
        <4>1. \A i \in (r + 1)..Len(all) : i \in 1..Len(all) /\ i > r
          BY <3>1
        <4>. QED  BY <3>2, <3>3, <4>1
      <3>6. Straight => Elements(pending) \subseteq tablet.applied \cup Elements(all)
        BY <2>1, <3>1 DEF RestInv
      <3>7. Straight' = Straight /\ Plain' = Plain /\ UNCHANGED <<pending, tablet>>
        BY <2>1, <2>2 DEF Straight, Plain, writer
      <3>. QED  BY <3>4, <3>5, <3>6, <3>7 DEF RestInv
    <2>. QED  BY <1>2, <1>3, <2>1, <2>2
  <1>9. CASE Serves \/ UNCHANGED vars
    <2>1. UNCHANGED <<writer, flush>>
      <3>1. Serves => UNCHANGED <<writer, flush>>
        <4>1. ApplyUpdates => UNCHANGED <<writer, flush>>
          BY Zenon DEF ApplyUpdates
        <4>. QED  BY <4>1 DEF Serves, ServiceSteps, CommitApplied, CloseUpdate, CancelUpdate, CommitFails, CommitUnknown, ExpireSession,
                         Restart, Disconnect, BeginDrain, DrainDone
      <3>. QED  BY <1>9, <3>1 DEF vars
    <2>2. CASE UNCHANGED <<tablet, strange>>
      <3>1. CASE op = "none"
        BY <1>2, <2>1, <3>1 DEF writer
      <3>. QED  BY <1>4, <2>1, <2>2, <3>1 DEF Sending, writer
    <2>3. CASE session.running # <<>> /\ tablet.applied \subseteq tablet'.applied /\ (Straight' => Straight)
      <3>1. op # "none" => Sending
        BY <1>1, <2>3 DEF PhaseInv, OpInv
      <3>. QED  BY <2>1, <2>3, <3>1 DEF RestInv, Sending, writer
    <2>. QED  BY <2>2, <2>3, TabletSteps
  <1>. QED  BY <1>5, <1>6, <1>7, <1>8, <1>9 DEF Next, WriterSteps, FaultSteps, Serves, Calls

\* A reply that does not refuse is true.
LEMMA ReplyKept == Core /\ Attempt /\ [Next]_vars => ReplyInv'
  <1>. SUFFICES ASSUME Core, PhaseInv, AttemptInv, ReplyInv, [Next]_vars,
                       reply'.kind = "errors", ~reply'.refused, Sending'
                PROVE  /\ Straight' => \A i \in 1..Len(flush'.remaining) :
                                          i <= reply'.reported \/ ~reply'.failed => flush'.remaining[i] \in tablet'.applied
                       /\ Plain' /\ reply'.failed => \A i \in 1..Len(flush'.remaining) :
                                                        i > reply'.reported => flush'.remaining[i] \notin tablet'.applied
    BY DEF Attempt, ReplyInv
  <1>1. TypeInv /\ OpInv /\ Core' /\ NoReply.kind = "none"
    BY CoreKept DEF Core, NoReply
  <1>2. CASE UNCHANGED <<flush, reply>>
    <2>1. flush.phase = "close" /\ Sending /\ session.running = <<>> /\ reply.kind = "errors" /\ ~reply.refused
      BY <1>1, <1>2 DEF PhaseInv, Sending
    <2>2. UNCHANGED <<tablet, strange>>
      BY <2>1, TabletSteps
    <2>. QED  BY <1>2, <2>1, <2>2 DEF ReplyInv, Straight, Plain
  <1>3. CASE CloseUpdate
    <2>1. /\ UNCHANGED <<flush, tablet, strange>> /\ session.running = <<>> /\ wire.last = "close" /\ wire.batches = <<>>
          /\ session.state = "open" /\ reply'.failed = session.failed
          /\ reply'.reported = session.reported /\ reply'.refused = session.refused
      <3>1. UNCHANGED <<flush, tablet, strange>> /\ session.running = <<>> /\ wire.last = "close" /\ wire.batches = <<>>
        BY <1>3 DEF CloseUpdate, Final
      <3>2. session.state = "open"
        BY <1>3 DEF CloseUpdate, NoReply
      <3>3. reply' = [kind |-> "errors", failed |-> session.failed, reported |-> session.reported, refused |-> session.refused]
        BY <1>3, <3>2 DEF CloseUpdate
      <3>. QED  BY <3>1, <3>2, <3>3
    <2>2. Sending /\ flush.phase = "close" /\ flush.unsent = <<>> /\ Counting
      BY <2>1 DEF PhaseInv, Sending, Counting
    <2>3. /\ flush.remaining \in Muts
          /\ \E at : Laid(at, flush.remaining, session.running, wire.batches, flush.unsent) /\ CountInv(at[0])
      BY <2>2, AttemptParts
    <2>4. PICK at : Laid(at, flush.remaining, <<>>, <<>>, <<>>) /\ CountInv(at[0])
      BY <2>1, <2>2, <2>3
    <2>5. at[0] = Len(flush.remaining)
      BY <2>3, <2>4, LaidEnd
    <2>6. CountInv(Len(flush.remaining))
      BY <2>4, <2>5
    <2>7. session.committed \in Nat /\ session.reported \in Nat /\ Len(flush.remaining) \in Nat
      BY <1>1, <2>3 DEF TypeInv, SessionTyped, SessionRecord, Muts
    <2>8. /\ ~session.failed => session.committed = Len(flush.remaining)
          /\ session.reported <= session.committed
          /\ Straight => /\ session.failed => session.reported = session.committed
                         /\ \A i \in 1..Len(flush.remaining) : i <= session.committed => flush.remaining[i] \in tablet.applied
          /\ Plain => \A i \in 1..Len(flush.remaining) : i > session.committed => flush.remaining[i] \notin tablet.applied
      BY <2>2, <2>6 DEF CountInv
    <2>9. Straight' = Straight /\ Plain' = Plain /\ (Plain => Straight)
      BY <2>1 DEF Straight, Plain
    <2>10. Straight => \A i \in 1..Len(flush.remaining) : i <= session.reported \/ ~session.failed => flush.remaining[i] \in tablet.applied
      <3>. SUFFICES ASSUME Straight, NEW i \in 1..Len(flush.remaining), i <= session.reported \/ ~session.failed
                    PROVE  i <= session.committed
        BY <2>8
      <3>. QED  BY <2>7, <2>8
    <2>. QED  BY <2>1, <2>8, <2>9, <2>10
  <1>4. CASE SendBatch \/ SendClose
    <2>1. flush.phase = "send" /\ UNCHANGED reply
      BY <1>4, SendingEffect
    <2>. QED  BY <2>1 DEF PhaseInv
  <1>5. ~(Calls \/ Plan \/ PlanFails \/ StartUpdate \/ StartFails \/ SendFails \/ DecodeUpdateErrors \/ RegisterSession)
    BY <1>1, EarlyEffect, SendingEffect, DecodeEffect, RegisterEffect
  <1>6. CASE ApplyUpdates
    BY <1>1, <1>2, <1>6, ApplyEffect
  <1>7. CASE CommitApplied \/ CommitFails \/ CommitUnknown
    BY <1>1, <1>2, <1>7, CommitEffect
  <1>8. CASE CancelUpdate \/ ExpireSession \/ BeginDrain \/ DrainDone \/ Restart \/ Disconnect \/ UNCHANGED vars
    <2>1. UNCHANGED <<flush, reply>>
      BY <1>8 DEF CancelUpdate, ExpireSession, BeginDrain, DrainDone, Restart, Disconnect, vars
    <2>. QED  BY <1>2, <2>1
  <1>. QED  BY <1>3, <1>4, <1>5, <1>6, <1>7, <1>8 DEF Next, WriterSteps, FaultSteps, ServiceSteps, Calls

\* A flush that returned without an error is committed.
LEMMA DoneKept == Core /\ Attempt /\ [Next]_vars => DoneInv'
  <1>. SUFFICES ASSUME Core, Attempt, [Next]_vars PROVE DoneInv'
    OBVIOUS
  <1>1. TypeInv /\ OpInv /\ Core' /\ RestInv /\ ReplyInv /\ DoneInv
    BY CoreKept DEF Core, Attempt
  <1>2. (Straight' => Straight) /\ tablet.applied \subseteq tablet'.applied
    BY TabletSteps DEF Straight
  <1>3. CASE told'.flushed = told.flushed
    BY <1>1, <1>2, <1>3 DEF DoneInv
  <1>4. CASE DecodeUpdateErrors
    <2>1. /\ Sending /\ op # "none"
          /\ \/ told'.flushed = told.flushed
             \/ /\ reply.kind = "errors" /\ ~reply.refused /\ ~reply.failed
                /\ told'.flushed = told.flushed \cup Elements(pending)
      BY <1>4, DecodeEffect DEF Sending, writer
    <2>2. CASE /\ reply.kind = "errors" /\ ~reply.refused /\ ~reply.failed
               /\ told'.flushed = told.flushed \cup Elements(pending)
      <3>1. Straight => Elements(flush.remaining) \subseteq tablet.applied
        BY <1>1, <2>1, <2>2 DEF ReplyInv, Elements
      <3>2. Straight => Elements(pending) \subseteq tablet.applied
        BY <1>1, <2>1, <3>1 DEF RestInv
      <3>. QED  BY <1>1, <1>2, <2>2, <3>2 DEF DoneInv
    <2>. QED  BY <1>3, <2>1, <2>2
  <1>5. CASE Calls \/ Plan \/ PlanFails \/ StartUpdate \/ StartFails
    BY <1>1, <1>3, <1>5, EarlyEffect
  <1>6. CASE RegisterSession \/ SendBatch \/ SendClose \/ SendFails
    BY <1>3, <1>6, SendingEffect DEF writer
  <1>7. CASE Serves \/ UNCHANGED vars
    <2>1. ApplyUpdates => UNCHANGED told
      BY Zenon DEF ApplyUpdates, writer
    <2>2. UNCHANGED told
      BY <1>7, <2>1 DEF Serves, ServiceSteps, CommitApplied, CloseUpdate, CancelUpdate, CommitFails, CommitUnknown, ExpireSession,
                        Restart, Disconnect, BeginDrain, DrainDone, vars, writer
    <2>. QED  BY <1>3, <2>2
  <1>. QED  BY <1>4, <1>5, <1>6, <1>7 DEF Next, WriterSteps, FaultSteps, Serves, Calls

----------------------------------------------------------------------------
(* No mutation is under way twice *)

Apart(run, bs) ==
    \A i \in 1..Len(bs) :
        /\ Disjoint(run, bs[i])
        /\ \A j \in 1..Len(bs) : i # j => Disjoint(bs[i], bs[j])

\* Batches stay apart when one is sent, taken or dropped.
LEMMA ApartSteps ==
  ASSUME NEW run, NEW bs \in Seq(Muts), Apart(run, bs)
  PROVE  /\ Apart(run, <<>>) /\ Apart(<<>>, bs)
         /\ \A b \in Muts : Disjoint(run, b) /\ (\A i \in 1..Len(bs) : Disjoint(bs[i], b)) => Apart(run, Append(bs, b))
         /\ bs # <<>> => Apart(Head(bs), Tail(bs)) /\ Apart(<<>>, Tail(bs))
                         /\ \A i \in 1..Len(Tail(bs)) : Disjoint(Head(bs), Tail(bs)[i])
  <1>1. Apart(run, <<>>)
    BY DEF Apart
  <1>2. ASSUME NEW cs, Apart(run, cs) PROVE Apart(<<>>, cs)
    <2>1. Elements(<<>>) = {}
      BY DEF Elements
    <2>2. \A s : Disjoint(<<>>, s)
      BY <2>1 DEF Disjoint
    <2>. QED  BY <1>2, <2>2 DEF Apart
  <1>3. ASSUME NEW b \in Muts, Disjoint(run, b), \A i \in 1..Len(bs) : Disjoint(bs[i], b) PROVE Apart(run, Append(bs, b))
    <2>1. /\ Len(bs) \in Nat /\ Len(Append(bs, b)) = Len(bs) + 1
          /\ \A i \in 1..(Len(bs) + 1) : Append(bs, b)[i] = IF i <= Len(bs) THEN bs[i] ELSE b
      OBVIOUS
    <2>2. PICK n \in Nat : n = Len(bs)
      BY <2>1
    <2>3. PICK a : a = Append(bs, b) /\ Len(a) = n + 1 /\ a[n + 1] = b /\ \A i \in 1..n : a[i] = bs[i]
      <3>1. n + 1 \in 1..(n + 1) /\ ~(n + 1 <= n) /\ \A i \in 1..n : i \in 1..(n + 1) /\ i <= n
        OBVIOUS
      <3>2. Append(bs, b)[n + 1] = b /\ \A i \in 1..n : Append(bs, b)[i] = bs[i]
        BY <2>1, <2>2, <3>1
      <3>. QED  BY <2>1, <2>2, <3>2, Zenon
    <2>4. \A i \in 1..(n + 1) : i = n + 1 \/ i \in 1..n
      OBVIOUS
    <2>5. \A i \in 1..n : Disjoint(run, bs[i]) /\ Disjoint(bs[i], b) /\ Disjoint(b, bs[i])
                         /\ \A j \in 1..n : i # j => Disjoint(bs[i], bs[j])
      BY <1>3, <2>2 DEF Apart, Disjoint
    <2>6. \A i \in 1..(n + 1) : Disjoint(run, a[i]) /\ \A j \in 1..(n + 1) : i # j => Disjoint(a[i], a[j])
      BY <1>3, <2>3, <2>4, <2>5, Zenon
    <2>. QED  BY <2>3, <2>6, Zenon DEF Apart
  <1>4. ASSUME bs # <<>>
        PROVE  Apart(Head(bs), Tail(bs)) /\ Apart(<<>>, Tail(bs)) /\ \A i \in 1..Len(Tail(bs)) : Disjoint(Head(bs), Tail(bs)[i])
    <2>1. /\ Len(bs) \in Nat /\ Len(bs) # 0 /\ Head(bs) = bs[1] /\ Len(Tail(bs)) = Len(bs) - 1
          /\ \A i \in 1..(Len(bs) - 1) : Tail(bs)[i] = bs[i + 1]
      BY <1>4
    <2>2. PICK n \in Nat : n + 1 = Len(bs) /\ n = Len(bs) - 1
      <3>1. Len(bs) \in Nat /\ Len(bs) # 0
        BY <2>1
      <3>. QED  BY <3>1
    <2>3. PICK t : t = Tail(bs) /\ Len(t) = n /\ \A i \in 1..n : t[i] = bs[i + 1]
      BY <2>1, <2>2, Zenon
    <2>4. 1 \in 1..(n + 1) /\ \A i \in 1..n : i + 1 \in 1..(n + 1) /\ i + 1 # 1 /\ \A j \in 1..n : i # j => i + 1 # j + 1
      OBVIOUS
    <2>5. \A i \in 1..(n + 1) : \A j \in 1..(n + 1) : i # j => Disjoint(bs[i], bs[j])
      BY <2>2 DEF Apart
    <2>6. \A i \in 1..n : Disjoint(Head(bs), t[i]) /\ \A j \in 1..n : i # j => Disjoint(t[i], t[j])
      <3>. SUFFICES ASSUME NEW i \in 1..n PROVE Disjoint(Head(bs), t[i]) /\ \A j \in 1..n : i # j => Disjoint(t[i], t[j])
        OBVIOUS
      <3>1. Disjoint(bs[1], bs[i + 1])
        BY <2>4, <2>5, Zenon
      <3>2. ASSUME NEW j \in 1..n, i # j PROVE Disjoint(bs[i + 1], bs[j + 1])
        BY <2>4, <2>5, <3>2, Zenon
      <3>. QED  BY <2>1, <2>3, <3>1, <3>2, Zenon
    <2>7. Apart(Head(bs), t)
      BY <2>3, <2>6, Zenon DEF Apart
    <2>8. Apart(<<>>, t)
      <3>1. \A s : Disjoint(<<>>, s)
        BY DEF Disjoint, Elements
      <3>. QED  BY <2>7, <3>1 DEF Apart
    <2>. QED  BY <2>3, <2>6, <2>7, <2>8, Zenon
  <1>. QED  BY <1>1, <1>2, <1>3, <1>4

\* Nothing under way is committed already, unless a commit was reported as unknown or
\* overtook a failed one; so nothing is committed twice.
LEMMA FlightKept == Core /\ Attempt /\ [Next]_vars => FlightInv'
  <1>. SUFFICES ASSUME Core, Attempt, [Next]_vars PROVE FlightInv'
    OBVIOUS
  <1>1. /\ TypeInv /\ Core' /\ PhaseInv /\ AttemptInv /\ wire.batches \in Seq(Muts)
        /\ Apart(session.running, wire.batches)
        /\ Plain => tablet.again = {} /\ Flying \cap tablet.applied = {}
    BY CoreKept DEF Core, Attempt, FlightInv, Apart, TypeInv, WireRecord
  <1>2. /\ Flying = Elements(session.running) \cup BatchSet(wire.batches)
        /\ Flying' = Elements(session'.running) \cup BatchSet(wire'.batches)
        /\ Elements(<<>>) = {} /\ BatchSet(<<>>) = {} /\ NoWire.batches = <<>>
    <2>1. Elements(<<>>) = {} /\ BatchSet(<<>>) = {} /\ NoWire.batches = <<>>
      BY DEF Elements, BatchSet, NoWire
    <2>. QED  BY <2>1, SentGrows
  <1>3. ASSUME Apart(session'.running, wire'.batches), Plain' => tablet'.again = {} /\ Flying' \cap tablet'.applied = {} PROVE FlightInv'
    BY <1>3 DEF FlightInv, Apart
  <1>4. ASSUME UNCHANGED <<tablet, strange>>, session'.running \in {<<>>, session.running}, wire'.batches \in {<<>>, wire.batches}
        PROVE  FlightInv'
    <2>1. Apart(session.running, <<>>) /\ Apart(<<>>, wire.batches) /\ Apart(<<>>, <<>>)
      <3>1. Apart(session.running, <<>>) /\ Apart(<<>>, wire.batches)
        BY <1>1, ApartSteps
      <3>. QED  BY <3>1 DEF Apart
    <2>2. Apart(session'.running, wire'.batches)
      BY <1>1, <1>4, <2>1
    <2>3. Elements(session'.running) \subseteq Elements(session.running) /\ BatchSet(wire'.batches) \subseteq BatchSet(wire.batches)
      BY <1>2, <1>4
    <2>4. Flying' \subseteq Flying /\ Plain' = Plain
      BY <1>2, <1>4, <2>3 DEF Plain
    <2>. QED  BY <1>1, <1>3, <1>4, <2>2, <2>4
  <1>5. CASE SendBatch
    <2>1. Sending /\ UNCHANGED <<session, tablet, strange>>
      BY <1>5, SendingEffect DEF Sending
    <2>2. PICK k \in Nat \ {0} : k <= Len(flush.unsent) /\ wire'.batches = Append(wire.batches, SubSeq(flush.unsent, 0 + 1, k))
      BY <1>1, <1>5, SendEffect
    <2>3. PICK s \in Muts : s = flush.unsent /\ k \in 0..Len(s)
      BY <1>1, <2>2 DEF TypeInv, FlushRecord, Muts
    <2>4. PICK b \in Muts : b = SubSeq(flush.unsent, 0 + 1, k) /\ Elements(b) \subseteq Elements(flush.unsent)
      <3>1. PICK z \in Nat : z = 0
        OBVIOUS
      <3>2. SubSeq(s, z + 1, k) \in Muts /\ Elements(SubSeq(s, z + 1, k)) \subseteq Elements(s)
        BY <2>3, PartOf
      <3>. QED  BY <2>3, <3>1, <3>2
    <2>5. /\ flush.remaining \in Muts /\ Increasing(flush.remaining)
          /\ \E at : Laid(at, flush.remaining, session.running, wire.batches, flush.unsent) /\ CountInv(at[0])
      BY <1>1, <2>1, AttemptParts
    <2>6. PICK at : Laid(at, flush.remaining, session.running, wire.batches, flush.unsent) /\ CountInv(at[0])
      BY <2>5
    <2>7. /\ Disjoint(session.running, flush.unsent) /\ \A i \in 1..Len(wire.batches) : Disjoint(wire.batches[i], flush.unsent)
          /\ \A x \in Elements(flush.unsent) : \E i \in 1..Len(flush.remaining) : x = flush.remaining[i] /\ i > at[0]
      <3>1. /\ flush.remaining \in Muts /\ wire.batches \in Seq(Muts) /\ Increasing(flush.remaining)
            /\ Laid(at, flush.remaining, session.running, wire.batches, flush.unsent)
        BY <1>1, <2>5, <2>6
      <3>2. Unmixed(at, flush.remaining, session.running, wire.batches, flush.unsent)
        BY <3>1, LaidApart
      <3>. QED  BY <3>2 DEF Unmixed
    <2>8. Disjoint(session.running, b) /\ \A i \in 1..Len(wire.batches) : Disjoint(wire.batches[i], b)
      BY <2>4, <2>7 DEF Disjoint
    <2>9. Apart(session'.running, wire'.batches)
      BY <1>1, <2>1, <2>2, <2>4, <2>8, ApartSteps
    <2>10. Plain => Elements(b) \cap tablet.applied = {}
      BY <2>4, <2>6, <2>7 DEF CountInv
    <2>11. Flying' = Flying \cup Elements(b)
      <3>1. BatchSet(wire'.batches) = BatchSet(wire.batches) \cup Elements(b)
        BY <1>1, <2>2, <2>4, BatchSets
      <3>. QED  BY <1>2, <2>1, <3>1
    <2>12. Plain' = Plain
      BY <2>1 DEF Plain
    <2>. QED  BY <1>1, <1>3, <2>1, <2>9, <2>10, <2>11, <2>12
  <1>6. CASE (Calls \/ Phases \/ PlanFails \/ StartUpdate \/ StartFails \/ SendFails \/ DecodeUpdateErrors) /\ ~SendBatch
    <2>1. /\ UNCHANGED <<tablet, strange>> /\ session'.running \in {<<>>, session.running}
          /\ wire'.batches \in {<<>>, wire.batches}
      BY <1>1, <1>2, <1>6, ConnectionEffect
    <2>. QED  BY <1>4, <2>1
  <1>7. CASE ApplyUpdates
    <2>1. /\ wire.batches # <<>> /\ session.running = <<>> /\ wire'.batches = Tail(wire.batches) /\ UNCHANGED <<tablet, strange>>
          /\ session'.running \in {<<>>, Head(wire.batches)}
      BY <1>1, <1>7, ApplyEffect DEF Fails
    <2>2. Apart(Head(wire.batches), Tail(wire.batches)) /\ Apart(<<>>, Tail(wire.batches))
      BY <1>1, <2>1, ApartSteps
    <2>3. Apart(session'.running, wire'.batches)
      BY <2>1, <2>2
    <2>4. Elements(Head(wire.batches)) \cup BatchSet(Tail(wire.batches)) = BatchSet(wire.batches)
      BY <1>1, <2>1, BatchSets
    <2>5. Elements(session'.running) \subseteq Elements(Head(wire.batches)) /\ BatchSet(wire'.batches) = BatchSet(Tail(wire.batches))
      BY <1>2, <2>1
    <2>6. Flying' \subseteq Flying /\ Plain' = Plain
      BY <1>2, <2>1, <2>4, <2>5 DEF Plain
    <2>. QED  BY <1>1, <1>3, <2>1, <2>3, <2>6
  <1>8. CASE CommitApplied \/ CommitFails \/ CommitUnknown
    <2>1. /\ session'.running = <<>> /\ wire' = wire
          /\ \/ tablet' = tablet
             \/ /\ tablet'.applied = tablet.applied \cup Elements(session.running)
                /\ tablet'.again = tablet.again \cup (tablet.applied \cap Elements(session.running))
      BY <1>1, <1>8, CommitEffect
    <2>2. Plain' => Plain
      BY TabletSteps DEF Plain
    <2>3. Apart(session'.running, wire'.batches)
      BY <1>1, <2>1, ApartSteps
    <2>4. Flying' = BatchSet(wire.batches)
      BY <1>2, <2>1
    <2>5. BatchSet(wire.batches) \cap Elements(session.running) = {}
      <3>. SUFFICES ASSUME NEW i \in 1..Len(wire.batches) PROVE Elements(wire.batches[i]) \cap Elements(session.running) = {}
        BY DEF BatchSet
      <3>1. Disjoint(session.running, wire.batches[i])
        BY <1>1 DEF Apart
      <3>. QED  BY <3>1 DEF Disjoint
    <2>6. Plain' => tablet'.again = {} /\ Flying' \cap tablet'.applied = {}
      <3>. SUFFICES ASSUME Plain' PROVE tablet'.again = {} /\ Flying' \cap tablet'.applied = {}
        OBVIOUS
      <3>1. tablet.again = {} /\ Flying \cap tablet.applied = {}
        BY <1>1, <2>2
      <3>. QED  BY <1>2, <2>1, <2>4, <2>5, <3>1
    <2>. QED  BY <1>3, <2>3, <2>6
  <1>9. CASE CloseUpdate \/ CancelUpdate \/ ExpireSession \/ BeginDrain \/ DrainDone \/ Restart \/ Disconnect
    <2>1. /\ UNCHANGED <<tablet, strange>> /\ session'.running \in {<<>>, session.running}
          /\ wire'.batches \in {<<>>, wire.batches}
      BY <1>1, <1>2, <1>9, EndingEffect
    <2>. QED  BY <1>4, <2>1
  <1>10. CASE UNCHANGED vars
    BY <1>4, <1>10 DEF vars
  <1>. QED  BY <1>5, <1>6, <1>7, <1>8, <1>9, <1>10 DEF Next, WriterSteps, FaultSteps, ServiceSteps, Calls, Phases

\* The books and the attempt, in every reachable state.
THEOREM AttemptSafety == Spec => [](Books /\ Attempt)
  <1>1. Init => Attempt
    <2>. SUFFICES ASSUME Init PROVE Attempt
      OBVIOUS
    <2>1. /\ flush = NoFlush /\ wire = NoWire /\ session = NoSession /\ reply = NoReply /\ op = "none"
          /\ told.flushed = {} /\ tablet.applied = {} /\ tablet.again = {}
      BY DEF Init
    <2>2. ~Sending /\ session.running = <<>> /\ wire.batches = <<>> /\ wire.last = "none" /\ reply.kind = "none"
          /\ flush.phase = "off"
      BY <2>1 DEF Sending, NoFlush, NoSession, NoWire, NoReply
    <2>3. PhaseInv /\ AttemptInv /\ RestInv /\ ReplyInv /\ DoneInv
      BY <2>1, <2>2 DEF PhaseInv, AttemptInv, RestInv, ReplyInv, DoneInv
    <2>4. FlightInv
      BY <2>1, <2>2 DEF FlightInv
    <2>. QED  BY <2>3, <2>4 DEF Attempt
  <1>2. Books /\ Attempt /\ [Next]_vars => Books' /\ Attempt'
    <2>. SUFFICES ASSUME Books, Attempt, [Next]_vars PROVE Books' /\ Attempt'
      OBVIOUS
    <2>1. Books'
      BY CoreKept, BooksKept, QuietKept DEF Books
    <2>2. Core /\ SentInv' /\ PhaseInv
      BY <2>1 DEF Books, Attempt
    <2>3. PhaseInv' /\ AttemptInv' /\ RestInv' /\ ReplyInv' /\ FlightInv' /\ DoneInv'
      BY <2>2, PhaseKept, AttemptKept, RestKept, ReplyKept, FlightKept, DoneKept
    <2>. QED  BY <2>1, <2>3 DEF Attempt
  <1>. QED  BY BooksInit, <1>1, <1>2, PTL DEF Spec

\* A flush that returned without an error is committed, if no batch was committed in a
\* session in which an earlier one had failed: whatever the drain, the expiry, the
\* lost connections, the restarts and the retries do (service.go, batch_writer.go).
THEOREM FlushedInOrder == Spec => []InOrderFlushIsApplied
  <1>1. Attempt => InOrderFlushIsApplied
    BY DEF Attempt, DoneInv, Straight, InOrderFlushIsApplied, FlushedIsApplied
  <1>. QED  BY AttemptSafety, <1>1, PTL

\* No mutation is committed twice unless a commit was reported as unknown or a batch
\* overtook a failed one, however often a flush is tried (batch_writer.go).
THEOREM CommittedOnce == Spec => []AppliedOnce
  <1>1. Attempt => AppliedOnce
    BY DEF Attempt, FlightInv, Plain, AppliedOnce
  <1>. QED  BY AttemptSafety, <1>1, PTL
=============================================================================
