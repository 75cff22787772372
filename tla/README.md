# A TLA+ model of the Sharkbite tablet server

Sharkbite (the Go module is also called Shoal) is a tablet server that joins an
Apache Accumulo cluster: it takes a ServiceLock in ZooKeeper, is assigned tablets
by the Accumulo manager, accepts writes for them, logs them in write-ahead logs,
flushes them to immutable files, and installs those files in the metadata table.
A sidecar process (`wal-quorum-sidecar`) replicates WAL segments to peers, clients
write through a batch writer, and a promotion hands a local corpus over to a table.
This directory specifies the parts of the repository on which the safety of the
data rests, checks them with TLC, and proves their safety properties with TLAPS.

Contents

1. [The system](#1-the-system): inventory, interactions, what is hard
2. [The modules](#2-the-modules): which module models which code
3. [The runs](#3-the-runs): questions, bounds, fairness, results
4. [The proofs](#4-the-proofs)
5. [Where the code and its documentation disagree](#5-where-the-code-and-its-documentation-disagree)
6. [What is not modelled](#6-what-is-not-modelled)
7. [Plan](#7-plan)

`PROJECT.json` lists the components, the runs, the source lines behind every
definition, the mutants that show each property can fail, the hazards the
properties are aimed at, and the theorems.

## 1. The system

### 1.1 Components that carry the protocol

| Component | State it keeps | Operations | What makes it correct |
|---|---|---|---|
| **Hosting fence** `internal/tserver` (`hosting.go`, `extent.go`, `lock.go`) | the ServiceLock generation held and the newest ever adopted, the same for the manager lock, tracked tablets with state and attempt number, a per-table index sorted by lower bound | `AdoptLock`, `LoseLock`, `ObserveManagerLock`, `Assign`, `Unassign`, `LoadComplete`, `LoadFailed`, `UnloadComplete`, `Verify*` | no row is owned twice; nothing is claimed across a lock loss; a late completion acts on its own assignment or on nothing; an old generation or manager never regains authority |
| **ServiceLock** `internal/tserver` (`servicelock.go`, `managerlock.go`, `participate.go`) | the lock path, the ephemeral-sequential node, one-shot watches | `Acquire`, `queueForOwnership`, `Maintain`, `Verify`, `Release` | at most one owner; a lost create answer leaves no orphan in the queue; a loss is reported |
| **Management RPC** `internal/tserverrpc` | the operation (load or unload) running per extent, the queue of reports | `LoadTablet`, `UnloadTablet`, their goroutines, the reporter | each assignment is loaded and closed once, and reported in order |
| **Tablet store** `internal/tserverprocess` (`store.go`) | tables of loading, hosted and ingesting tablets | load, unload, drop | the tablet served is the one of the current assignment |
| **Hosted tablet** `internal/hostedingest` | memtable, applied operations, the pending flush | `Open`, `Commit`, `Apply`, `Prepare`, `Complete`, `Flush`, `Close` | an acknowledged batch is never lost; the memtable swap and the WAL boundary are one step |
| **WAL authority** `internal/walauthority` | current WAL, next sequence number, table of logged operations | `Open`/`recover`, `Commit`, `SealForMinorCompaction`, `Retire` | reference before bytes, bytes before answer; recovery finds exactly what was logged |
| **Minor compaction** `internal/mincauthority` | checkpointed phase of one flush | `Coordinator.Run` | a file is installed once, and only then are its WALs retired |
| **Metadata row** `internal/metadatacas` | the tablet's row: location, future location, lock, log and file entries | `claim`, `EnsureReference`, `RemoveReference`, `Commit`, `Release` | every write is conditional on this server being the owner |
| **Ingest router and service** `internal/ingestrouter`, `internal/ingestservice` | update sessions with queued batches, failures and admitted bytes; sessions bound to a server generation | `startUpdate`, `applyUpdates` (oneway), `closeUpdate`, `cancelUpdate`, expiry, drain, `route` | what a close reports as applied was committed; a drained service is quiet |
| **Batch writer, ingest client** `accumulo/batch_writer.go`, `internal/ingestclient` | buffered mutations, the sticky failure, the pooled connection | `Add`, `Flush`, `Close`, automatic flush, `flushLocked` | a mutation is committed, still buffered, or reported as failed, and is not committed twice |
| **Promotion** `internal/promotion` | the durable intent of publishing a local corpus, its journal and run lock | `Machine.Run`, staging of the bulk directory | one import; resumable after a crash between any two steps; the source gives up only what is imported |
| **Sidecar originator** `wal-quorum-sidecar/internal/{server,replication}` | the segment file, per peer: known position, stream, breaker, catch-up | `OpenSegment`, `WriteEntries`, `WriteAndReplicate`, `healReplicas`, `CloseSegment`, `SealQuorum` | an acknowledgement counts copies that exist; a replica is repaired, never stitched |
| **Sidecar peer** `wal-quorum-sidecar/internal/{server,segment}` | one file per replicated segment and its entry in memory | `PrepareSegment`, `ReplicateEntries`, `SealSegment`, `PurgeSegment` | a replica is a prefix of the segment; a confirmed seal means a whole replica |
| **Sidecar upload and purge** `wal-quorum-sidecar/internal/gcs` | a bounded queue | upload, purge of all copies | copies go only when the object holds everything acknowledged |
| **Quorum WAL readers** `internal/qwal`, `wal-quorum-sidecar/internal/recovery` | none (read peers) | `EvaluatePeerAgreement`, `FindBestReplica` | recovery reads every acknowledged entry |

Around them: the tablet loader (reads and compares one row), scan
clients, the embedded engine with its memtable and local WAL, explorer
coordination, leases, fleet dispatch and services, compaction execution, file formats and iterators,
query and vector search, storage back ends, the Accumulo client and C API,
generated Thrift and protobuf code, commands. All are listed in `PROJECT.json`
with the reason they are left out.

### 1.2 How they interact

```
 ZooKeeper ---- lock events ----> ServiceLock ---- AdoptLock / LoseLock ----.
 ZooKeeper ---- manager node ---> manager observer -- ObserveManagerLock ---+--> Host
 manager ------ RPC ------------> Adapter -- Assign/Unassign, completions --'     ^
                                    | goroutine per operation                     | Verify*
                                    v                                             |
                                  store -> hostedingest.Factory.Open -> Tablet ---+
 BatchWriter -- oneway batches --> service -> Session.route -> Tablet.Commit      |
                                                    |  walauthority: log ---------+
                                                    |  mincauthority: flush ------'
                                                    v
                              metadatacas (conditional mutations of the tablet's row),
                              WAL bytes, output files, checkpoints

 TServer -- entries --> sidecar (originator) -- streams --> peer sidecars
                           |  seal quorum, catch-up            |
                           '-- upload --> object store         '--> qwal / recovery readers

 promotion.Machine --> authority adapter, manager FATE transactions, bulk directory
                   --> intent journal (revisions, torn tails, run lock)
```

`Host` is passive and runs under one mutex; everybody else asks it. Loads and
unloads run in goroutines and report back with the `Attempt` that `Assign`
handed out. A `Tablet` runs one call at a time (`opMu`). The metadata row is the
only thing two servers share besides the bytes of the WALs and files it names.

### 1.3 What is hard

* **Interleavings**: completions, lock losses and manager requests reach the Host
  in any order; a server that lost its lock runs on until it hears of it, next to
  its successor.
* **Stale authority**: lock generations and managers come back through lagging
  ZooKeeper reads; a verification is followed by an external write.
* **Failure in the middle**: every external step (reference, append, publish,
  commit, retire) may fail, or take effect while its answer is lost. A flush that
  failed is resumed later by another call.
* **Crashes**: what the next owner finds is what the row references.
* **Retries**: a client that missed an answer sends the batch again, perhaps to a
  new assignment of the tablet.
* **Index arithmetic**: the overlap check looks only at two neighbours in an index
  kept sorted by hand.
* **One-shot watches**: watchers share one ZooKeeper event; a lock node may exist
  without its creator knowing.
* **Overlapping operations**: loads and unloads of one tablet run in goroutines that
  read state under a mutex and act on it after releasing it.
* **Oneway batches**: the answer about a batch is the answer to a later close; batches
  of one session succeed and fail independently.
* **Requests that outlive their caller**: a replication stream is discarded while the
  peer still handles its last request, next to the requests of the new stream.

The 40 hazards in `PROJECT.json` name the lines.

## 2. The modules

| Module | Models | Used by |
|---|---|---|
| `Extents` | key extents, `Overlaps`, `compareLowerBounds` | the two below |
| `HostingContract` | abstract promise of a tablet host | refined by `Hosting` |
| `Hosting` | `tserver.Host`, every operation that changes it | `MCHosting`, `HostingProofs` |
| `HostingProofs` | theorems about `Hosting` | |
| `TabletRow` | one tablet's metadata row and its conditional mutations | `HostedTablet` |
| `WalRecovery` | what `readWAL` and `recover` read back | `HostedTablet` |
| `TabletContract` | abstract promise to a writing client | refined by `HostedTablet` |
| `HostedTablet` | the write path of one tablet across assignments | `MCHostedTablet`, `HostedTabletProofs` |
| `HostedTabletProofs` | theorems about `HostedTablet`, `TabletRow` and `WalRecovery` | |
| `PeerAgreement` | the decisions of the two quorum readers | `QuorumSegment` |
| `QuorumSegment` | one WAL segment in the sidecars, from open to purge | `MCQuorumSegment`, `QuorumSegmentProofs` |
| `QuorumSegmentProofs` | theorems about `QuorumSegment` and `PeerAgreement` | |
| `ServiceLock` | the ZooKeeper lock and `Participate` around it | `MCServiceLock`, `ServiceLockProofs` |
| `ServiceLockProofs` | theorems about `ServiceLock` | |
| `TabletLifecycle` | adapter, store, row and reports while a tablet is loaded and unloaded | `MCTabletLifecycle`, `TabletLifecycleProofs` |
| `TabletLifecycleProofs` | theorems about `TabletLifecycle` | |
| `Promotion` | `promotion.Machine`, its journal and the staging | `MCPromotion`, `PromotionProofs` |
| `PromotionProofs` | theorems about `Promotion` | |
| `UpdateSession` | batch writer, update session and ingest service | `MCUpdateSession`, `UpdateSessionProofs` |
| `UpdateSessionProofs` | theorems about `UpdateSession` | |
| `MC...` | the small instances | the cfg files |

How they fit together: `ServiceLock` produces the adopt and lose events that `Hosting`
takes in any order; `Hosting` is the Host in full, of which `TabletLifecycle` keeps
one tablet's entry and `HostedTablet` the verifications; `TabletLifecycle` is about who
may act on a tablet, `HostedTablet` about what the actions do to its data;
`UpdateSession` ends where `HostedTablet` begins, at the commit of a batch.
`QuorumSegment` is below the WAL bytes of `HostedTablet`, and `Promotion` stands alone.

### 2.1 Hosting

Every call of `Host` runs under `Host.mu`, so each is one action, and a refused
call, which changes only a metric, is none. `tablets` is the map of entries,
`byTable` the range index with its insertion and deletion modelled as the code
does them (`Inserted`, `Deleted` at `LowerBoundIndex`). `attempts` is not a field
of the code: it is the set of handles `Assign` returned, which callers keep and
may use at any later time, so completions arrive late and repeatedly. `loaded`
records which attempts' tablets the backend (external) has really loaded.
`Unassign` has two modes and is two actions; `ObserveManagerLock` of the zero
lock is `ClearManagerLock`.

LockIDs are model values with distinct identities and a `Sequence` each;
`Supersedes` compares sequence numbers only, as in the code, and the instance has
two generations with one sequence number (a recreated lock directory).

Rows are natural numbers in byte order. `NoRow` is an absent bound.

`HostingContract` says the same without index, handles and fences: a set of
numbered, pairwise disjoint claims under one generation that only moves forward.
The refinement mapping builds the claims from `tablets` and counts `nextAttempt - 1`
assignments; manager observations and backend loads are stuttering steps.

### 2.2 HostedTablet

One tablet is assigned again and again. `LockOf[a]` is the lock generation that
attempt `a` runs under, so attempts may be on different servers, or twice on the
same server process. Each attempt has its own `Tablet` object, which goes on as a
zombie after its server lost the lock, until the process dies. Its program
counter `pc` cuts a call where it leaves the process:

| Code | Actions, in order |
|---|---|
| `Adapter.LoadTablet`, `metadatacas.Factory.Open` | `Assign`; `ClaimRow` / `ClaimRefused` / `ClaimUnknown` |
| `hostedingest.Factory.Open`, `walauthority.Open` | `Recover` / `RecoverFails`, then the flush steps, then `LoadComplete` |
| `Session.route`, `Tablet.Commit` | `StartCommit` or `RepeatCommit`; `Reference`...; `AppendFrame` / `AppendFails` / `AppendAmbiguous`; `ApplyBatch` / `ApplyRefused`; acknowledgement or the flush |
| `Tablet.flush`, `Coordinator.Run` | `Seal` or `Resume` / `RunRefused`; `Publish`; `VerifyCommit`...; `CommitOutput` / `CommitReconciled` / `CommitRejected` / `CommitUnknown`; `Retire` for each WAL; `Complete` |
| `Adapter.UnloadTablet`, `Tablet.Close` | `Unload`; `Close` |
| ZooKeeper and processes | `LoseLock`, `NoticeLoss`, `Crash`, `LoseManager`, `RegainManager` |

A batch counts as one cell, so `FlushCells = 1` is the `-flush-cells` default. A
WAL is the sequence of its whole records `[op, seq, by]`; `by`, the attempt,
stands for the fence that the digest covers.

Decisions a reader should know:

* The fence is read from the Host at the time of use (`lockID()`), so once the
  Host has noticed the loss, a failed `Open` releases nothing. A mutation that is
  already on its way is still applied if the row says so.
* A lost answer that the code settles by rereading is the same step as the
  answered one; only when the reread fails too is there a separate action.
* An incomplete frame is cut off by the reader before anything is appended after
  it, so a torn write is the same as no write.
* Verification and `Apply` are one step: both are in memory under the tablet's
  mutex, and the Host's answer is not used after it.
* The manager (external) assigns a tablet only when its row has no live owner and
  no server is still asked to load it. `RowInit` is a new tablet's row.
* `Retries` says what clients do. `ingestrouter` promises retries under one
  operation ID in a session (TRUE); `ingestservice` today makes a new request ID
  for every call, so with it a failed batch is never sent again under its key
  (FALSE).
* Without `"late"` among the faults, an append by a server that no longer owns
  the row is refused. `LocalStore` does not refuse it, which is what `"late"`
  models and `MCTabletLate.cfg` shows; the separation lets the other runs say what
  the protocol gives over a WAL store that does fence its writers.

### 2.3 QuorumSegment and PeerAgreement

One segment, its originator and its peers. An entry is one unit of the file, so an
offset counts entries. The writer (the TServer, external) sends entries one by one
and closes the segment when the stream ends or breaks.

| Code | Actions |
|---|---|
| `OpenSegment`, `PrepareSegment` on each peer | `OpenPeer` and the prepare task |
| `WriteAndReplicate` | `BeginWrite`; `LocalWrite` and the calls of all peers in any order; `Acknowledge` at a quorum, degraded without one, or `WriteFails`; `CancelWrite` |
| the stream to a peer (`peer_client.go`) | `StartEntry`, `Send` (or `Exchange`, with a handler that is not interleaved), `TakeAnswer`, `CallFails`; the tracked position, the breaker and the suspended replica change with them |
| `ReplicateEntries` at the peer | `HandlerRead` of the replica's size, then `HandlerWrite`; `LateRequest` for an orphan |
| `healReplicas`, catch-up | `HealReplicas` with the acknowledgement; `CatchUpRead`, `CatchUpPrepare`, chunk after chunk |
| `CloseSegment`, `SealQuorum` | `BeginClose`, `CloseVisit` per peer, `SealLocal`, `SealPeer`, `FinishClose`; `CancelClose` |
| uploader and purge | `Upload` with its outcomes, `BeginPurge`, `PurgePeer`, `PurgeLocal` |
| processes | `PeerRestarts` (with or without power loss), `OriginCrashes` |

A call that the client gives up leaves its request behind as an orphan, which the
peer may handle at any time later. `SerialHandlers` says whether a peer handles one
request at a time: the code takes no lock between reading the replica's size and
writing, so FALSE is what it does; TRUE is what it would do with one, and separates
the protocol's own properties from that race (section 5, `MCQuorumRace.cfg`).

The readers are operators over the views that the peers' files give
(`EvaluatePeerAgreement`, `FindBestReplica`); `AgreementKeepsAcked` and
`BestReplicaIsWhole` apply them to every reachable state.

### 2.4 ServiceLock

A candidate is one `ServiceLock` of one process, used once; a process that joins
again is another candidate. Every ZooKeeper read is a step of its own, so a candidate
acts on a listing that may be stale; a watch is set with the read, fires once, and
its event is taken in a later step. `AcquireNext` has the create with its lost
answer, the search for the own node among the children, the sweep of duplicates and
the wait for the next lower node. `ParticipateNext` has adoption, hosting, the loss
and the release; `MaintainNext` a watcher (there may be several, which share one
event). `OutsideNext` is ZooKeeper and the operators: expiry, deletion, a recreated
directory, a touched node. Sequence numbers restart when the directory is recreated.

### 2.5 TabletLifecycle

`runLoad` is a phase per attempt, `runUnload` and `ReleaseDropped` one phase each; a
step is one critical section of `Adapter.mu` or `Store.mu`, or one write of the row.
`loading` is the store's token, `published` what `LocateTable` finds, `tab` the tablet
objects. The manager (external) sets and moves the future location and sends
requests at any time; lock generations come and go. `mishaps` records histories the
properties name: an attempt that began while an earlier load or unload was still at
work, a refused request, and a drop that left a tablet behind.

### 2.6 Promotion

`rec` is the latest revision in the journal, `next` the one about to be written, `pc`
the run. Each step makes one external call and appends one revision. A call that
fails may have taken effect, or may do so at any later time (`late`). The staging of
the bulk directory is three writes. A journal line may be left without its end
(`tail`); the next revision is then appended to it (`corrupt`, section 5). The run
lock admits one run at a time; a run that returned an error, or crashed, is started
again.

### 2.7 UpdateSession

One tablet, one connection that keeps order. `flush` is the attempt of `flushLocked`
under way, `wire` the batches sent and not yet handled, `session` the service's side
with what it admitted, applied and failed. `strange` records what the promises
depend on: a batch committed after a failed one, an outcome reported as unknown, a
commit after a drain has returned. `Sizes` gives the mutations uneven sizes, so that
the buffer and the session meet their limits at different mutations.

### 2.8 Faults

The classes of `HostedTablet`:

| Class | What may happen |
|---|---|
| `crash` | a server process dies with its memory; its lock goes |
| `lockloss` | its lock node goes; the Host hears of it later |
| `io` | an external step fails, with or without effect, or its answer and reread are lost |
| `unload` | the manager unloads a hosted tablet gracefully |
| `cancel` | a caller leaves between the append and `Apply` |
| `manager` | the manager observation is cleared and made again |
| `ambiguous` | a frame is written, and neither the answer nor the read that settles it arrives |
| `late` | the WAL store accepts a frame from a server that lost the row |

The other modules:

| Module | Classes |
|---|---|
| `QuorumSegment` | `timeout` of a call, failed `rpc`, `restart` and `power` loss of a peer, `disk` failure of the local write, `cancel` of a write or close, `crash` of the originator, failed `upload` or full queue |
| `ServiceLock` | `lost` create answer, `duplicate` node, failed `read` or `delete`, `expire`d session, `operator` deletes the node, `recreate`d directory, `cancel`, a concurrent `release`, `touch`ed node, `refuse`d adoption |
| `TabletLifecycle` | failed `claim`, `open` or `close`, `fence` lost between two steps, `goal` refused, `shutdown` |
| `Promotion` | failed `call`, failed or torn journal `write` (`tear`), `crash`, failed `import` |
| `UpdateSession` | failed `route`, `start` or `send`, `auth` error, write `denied`, failed `commit`, outcome `unknown`, session `expire`d, service `restart` |

A run names the classes it uses and `MaxFaults` of them per behaviour.

## 3. The runs

All runs set `CHECK_DEADLOCK FALSE`: attempts, batches, entries and faults are
bounded, so an instance comes to rest when they are used up. Stuck calls are looked
for by the liveness properties instead.

### 3.1 Runs that pass

**hosting_fence** (155,963 states). A tablet, its two children, a tablet of another
table; three server generations, two of them with one sequence number; two
managers; three assignments. Checks the type invariant, that the two-neighbour
lookup answers exactly like a scan of everything tracked (`OverlapCheckExact`), that
a hosted tablet was loaded by that very assignment (`HostedWasLoaded`), that ended
assignments stay ended (`AttemptNeverRevived`), that a superseded manager never
returns, and the refinement of `HostingContract`, whose claims are disjoint and made
under the generation held. Three assignments suffice to have one extent assigned,
released, and assigned again while a third tablet stays tracked. The theorems of
section 4 remove the bounds.

**tablet_takeover** (1,342,222 states). Three servers, two batches, `FlushCells = 2`,
retries, up to three crashes, lock losses or I/O faults anywhere. Checks that
acknowledged batches are durable (`AckedDurable`), that the tablet can always be
opened (`TabletRecoverable`), that no batch is in two files (`FlushedOnce`), and
that a reference leaves the row only for a file that holds what its WAL held
(`ReferencesCovered`). Two batches make a WAL with two records and a flush
covering WALs of two owners; three servers let a takeover be interrupted by
another one; three faults combine a lost answer with two losses of ownership.

**tablet_handoff** (31,132 states). The tablet is unloaded and assigned to the same
server generation again and then to another, with crashes and I/O faults and
`FlushCells = 1`. Checks the refinement of
`TabletContract` (a batch becomes durable once, stays so, and is acknowledged only
then), and that every call ends (`CallsEnd`).

**tablet_degraded** (169,116 states). Cancelled callers, a flickering manager lock,
ambiguous appends, late frames, lock losses. These break other guarantees
(section 5), but no batch is ever in two files. The type invariant is checked here.

**quorum_write** (1,315,782 states). One entry, an originator and two peers, one timeout
or failed RPC anywhere from the open to the seal. Checks that the number of copies
an acknowledgement claims exists (`QuorumCountHeld`), that a recovery which hears
every sidecar reads every entry acknowledged by a quorum (`AgreementKeepsAcked`), and
that the replica chosen for recovery is a whole one (`BestReplicaIsWhole`). Two peers
are the smallest set in which a quorum is neither everybody nor nobody.

**quorum_repair** (668,409 states). Two entries and one peer: an entry overtakes
another, the replica is suspended, caught up in the background and again at the
close, while late requests of discarded streams arrive. Checks that a replica stays
a prefix (`ReplicaIsPrefix`) and that a levelled replica holds everything
(`LevelledHoldsAll`). Two entries are what a gap needs.

**quorum_seal** (152,437 states). One fault of any class, handlers of two streams
interleaved on one replica, an upload bucket. Checks that a confirmed seal means a
whole replica (`SealConfirmedHoldsAll`), that copies are purged only when the object
holds every acknowledged entry (`PurgedIsUploaded`), and that a close ends
(`CloseFinishes`). With two faults a replica whose seal was confirmed can still be
lost: after a failed prepare the background catch-up is still at work when the seal is
confirmed, the peer restarts, and the catch-up, finding the segment unknown, prepares
it again, which starts an empty replica. The attempt to prove `SealConfirmedHoldsAll`
showed this; its theorem therefore excludes restarts, and the properties about
replicas speak of the time before the purge (`PurgeBegan`).

**service_lock** (45,291 states). Two candidates with two watchers each, failing deletes
and one further fault of any class. Checks that the holder's node is the lowest
(`HolderIsLowest`), that a sweep without error leaves no node (`SweptLeavesNothing`),
that a wait whose predecessors are gone ends (`WaitEnds`), that a lost lock ends the
hosting (`LossEndsHosting`) and that every watcher returns (`WatchersReturn`). The two
invariants also hold with two faults (1,196,305 states) and with three candidates
and one watcher (1,228,349 states): set `MaxFaults = 2`, or `Candidates <-
ThreeCandidates` and `Watchers <- OneWatcher`, and leave the temporal properties out.

**lifecycle** (638,007 states). One tablet, two attempts, two lock generations, one
fault. Checks that what the Host serves is what the store exposes
(`ServedIsExposed`), that what is exposed is tracked (`ExposedIsTracked`), that a
served tablet's row names its generation unless its attempt began while an older
goroutine was still at work (`ServedOwnsRow`), and that a load is decided
(`LoadSettles`). Two attempts are what an unload that overtakes a load, and a load
that meets the token of an older one, need.

**promotion** (32,480 states). Both modes, with and without files to import, four
faults, five transaction IDs. Checks that at most one transaction is ever started
(`OneTransaction`), that the source is given up only for an imported corpus
(`GivenUpIsImported`), that an import sees a complete directory (`StagedForImport`)
and that the promotion ends (`PromotionEnds`). Four faults combine a failed call
that takes effect late with a crash and two failed journal writes.

**ingest** (350,710 states). Four mutations, one of double size, one retry, memory limits that
a batch reaches, three faults. Checks that a successful flush was committed if no
batch overtook a failed one (`InOrderFlushIsApplied`), that nothing is committed
twice unless an outcome was unknown (`AppliedOnce`), that a mutation which was taken
is buffered or was flushed while the writer has not failed, and a refused one is
never committed (`NothingVanishes`), that a drained service is quiet
(`DrainedIsQuiet`) and that every call returns (`FlushReturns`). The invariants also
hold with two retries and two faults (181,071 states).

Some definitions in the modules are not part of a run because a stronger property
stands for them: `TrackedDisjoint`, `ClaimsUnderHeldLock`, `GenerationsOnlyAdvance`,
`HostingHasNode`, `EndingNamed`, `OperationIsHosts`, `OneWriter` (theorems of section
4), `TransactionKept` and the `TypeOK` of `ServiceLock`, `TabletLifecycle` and
`Promotion` (parts of the inductive invariants there), `OwnerKnowsLog`,
`WriteAnswered`, `UnloadSettles`, `DrainEnds`, and the `TypeOK` of `QuorumSegment` and
`UpdateSession`. They hold under the
configuration of the run of their module and can be added to it.

Fairness, where a liveness property is checked:

| Run | Weak fairness of | Why |
|---|---|---|
| `tablet_handoff` | each attempt's own steps | its goroutine is scheduled, and every request it sends is answered or fails |
| `quorum_seal` | the originator's steps, each exchange with a peer and each catch-up | calls have deadlines, so an exchange is answered or fails |
| `service_lock` | each candidate's and each watcher's steps | goroutines run, ZooKeeper answers and delivers events; none of the optional verify timer |
| `lifecycle` | the goroutines of loads, unloads and drops | they run detached from the request |
| `promotion` | the run's steps and the manager's transactions | an unfinished promotion is run again by its operator, which the intent exists for |
| `ingest` | the writer's steps, the service's steps, the drain goroutine | calls have deadlines or the connection breaks |

For `tablet_handoff`: reconciliation reads have a deadline (`ReconcileTimeout`). The
metadata client (`ingestclient`) has a dial timeout and Go's TCP keep-alive, which
ends a call to a dead peer, but no deadline per call: a peer that is alive and never
answers would hold the call and is outside the assumption. `Close` is among those
steps because the manager may ask again: `Unassign` accepts a tablet that is already
unloading. No fairness is assumed of the manager (except for its transactions in
`promotion`), of locks coming and going, of faults, or of clients.

Every property has a mutant: one mapped definition changed the way a plausible
bug would change it (`...SuccessorOnly`, `...SameSequence`, `...WithoutAttempt`),
under which TLC finds the property violated in the same run.

### 3.2 The run that finds a violation

**ingest_prefix** checks what a comment of the batch writer says of the service; see
section 5.

## 4. The proofs

Every theorem is about the specification that the runs check, for every value of its
constants: any number of peers, candidates, attempts, mutations and faults. Each
module's `Safety` theorem shows that an inductive invariant holds; the properties
follow from it. TLC evaluated each invariant on the instances of section 3 before
it was proved.

### 4.1 The hosting fence

`HostingProofs` proves, for every set of extents, tables and locks and every bound:

| Theorem | Statement |
|---|---|
| `Safety` | `Spec => []Inv`, the inductive invariant |
| `TypeCorrect` | `[]TypeOK` |
| `Disjointness`, `OverlapExactness` | tracked tablets never overlap, and the two-neighbour check is exact |
| `RowsServedOnce` | no row belongs to two tracked tablets: `Overlaps` is the set-theoretic overlap |
| `HostedLoaded`, `ClaimsHeld` | the two fence invariants |
| `NeverRevived` | the action property `AttemptNeverRevived` |
| `GenerationsAdvance`, `ManagersAdvance` | the temporal properties about superseded locks |
| `HostRefinesContract` | `Spec => Contract!ContractSpec` |

Assumptions: extents are records over the tables with natural or absent bounds
(`ExtentsAssumption`), an absent bound is no integer (`NoRowAssumption`), locks
have natural sequence numbers and `NoLock` is none of them (`LocksAssumption`),
`MaxAttempts` is a natural (`MaxAttemptsAssumption`). TLC evaluates them in
`hosting_fence`. Nothing is assumed about finiteness.

The inductive invariant `Inv` joins the properties with three facts they need:

* `IndexInv`: each table's index is strictly sorted, holds only tracked extents
  of its table, and holds all of them. `TrackedDisjoint` alone is not inductive,
  since `Assign` looks at the index and not at the tablets.
* `NewestInv`: the lock held is the newest adopted, so a check against the newest
  is a check against the held one; the same for managers.
* `AttemptInv`: handles carry distinct numbers below `nextAttempt`, so a new
  assignment matches no old handle.

The argument about the index: `LowerBoundIndexExists` shows that the search
position exists, with entries below it before and none after it in a sorted
index (well-foundedness of the naturals gives the least candidate).
`InsertedIndex` and `DeletedIndex` say what the two array operations do to
membership and order. `OverlappingExact` is the heart: in a sorted index of
pairwise disjoint ranges, whatever overlaps a new range is next to its insertion
point. `TrackStep` and `ReleaseStep` lift this to the state; `NextInv` goes
through the actions. `GenerationsAdvance` and `ManagersAdvance` each add a local
invariant ("the newest seen is past the old generation") that is stable once
reached.

### 4.2 The ServiceLock

| Theorem of `ServiceLockProofs` | Statement |
|---|---|
| `OneHolder` | `[]HolderIsLowest`: nobody holds the lock while a lower node exists |
| `SweptForGood` | `[]SweptLeavesNothing` |
| `HostsVisibly`, `EndsNamed` | `[]HostingHasNode`, `[]EndingNamed` |

Assumption: `LockAssumption` (types of the constants). A candidate decides on a listing
that may be old. `ViewInv` is why that is sound: as long as a candidate's own node is
in the directory, everything in front of it was in front of it in the listing, because
numbers only grow (`NumberedInv`). A recreated directory starts the numbers over, but
takes every node with it, and `NodeInv` says that a candidate which has listed creates
no further node. `ReleaseInv` and `KeptInv` separate the deletions a release makes
from those of the outside, `CleanInv` keeps a swept candidate from creating again.

### 4.3 Loading and unloading

| Theorem of `TabletLifecycleProofs` | Statement |
|---|---|
| `ServedExposed`, `ExposedTracked` | `[]ServedIsExposed`, `[]ExposedIsTracked` |
| `ServedRow` | `[]ServedOwnsRow` |
| `OperationTracked` | `[]OperationIsHosts` |

Assumption: `LifecycleAssumption`. The argument rests on the adapter's operations map:
a load at work that was not cancelled is the operation of its key (`LoadsInv`), and
while the lock is held, that operation is the one the Host waits for (`LockInv`). So
only the attempt the Host tracks can publish. `UnloadInv` and `PublishedInv` say what
an unload and a drop have taken away; `ServedInv` carries what a load has done so far
up to the moment the tablet is served, unless an older goroutine, which is then
among the mishaps, could undo it.

### 4.4 Promotion

| Theorem of `PromotionProofs` | Statement |
|---|---|
| `ImportedOnce` | `[]OneTransaction` |
| `GivenUpImported`, `AuthorityMovesOnce` | `[]GivenUpIsImported`, `[]OneWriter` |
| `StagedWhileRunning` | `[]StagedForImport` |

Assumption: `PromotionAssumption`. A journal write that fails may have reached the
disk, so the invariant is about revisions and not about the journal: `Truthful` says
what a revision states about the outside, and holds of the one in the journal and of
the one about to be written (`SavingInv`, which also says that a revision never loses
the transaction it names). `LateInv` says that a call which takes effect late does
what the journal accounts for; `FateInv` that every transaction which was executed is
the one in the journal, from which `OneTransaction` follows.

### 4.5 The WAL sidecar

| Theorem of `QuorumSegmentProofs` | Statement | Conditions |
|---|---|---|
| `PurgeAfterUpload` | `[]PurgedIsUploaded` | none |
| `ConfirmedHoldsAll` | `[]SealConfirmedHoldsAll` | `ReplicasKept` |
| `PrefixOnly` | `[]ReplicaIsPrefix` | `SerialHandlers`, `WritesSettle` |
| `CountsAreTrue` | `[]QuorumCountHeld` | `SerialHandlers`, `ReplicasKept` |
| `LevelledIsWhole` | `[]LevelledHoldsAll` | `SerialHandlers`, `ReplicasKept`, `WritesSettle` |
| `RecoveryReadsWhole` | `[]BestReplicaIsWhole` | the same, and the originator is not its own peer |
| `AgreementReadsAcked` | `[]AgreementKeepsAcked` | `SerialHandlers`, `ReplicasKept`, at most two peers, the originator is not its own peer |

Besides `SegmentAssumption` the theorems have conditions, each of which excludes
something the code does and that refutes the statement (section 5.2):

* `SerialHandlers`: a peer handles one request at a time (`MCQuorumRace.cfg`).
* `ReplicasKept`: no peer restarts or loses power (`MCQuorumPower.cfg`; a restarted
  peer that is prepared again starts an empty replica).
* `WritesSettle`: the local write neither fails nor outlives its caller
  (`MCQuorumCancel.cfg`).
* At most two peers: `config.go:102`, "Each sidecar replicates to exactly 2 peers".
  With more peers, a majority of answers can be larger than the number of copies
  the acknowledgement waited for.

All other faults (timeouts, failed calls, orphaned requests, a crash of the originator,
failed uploads and purges) are allowed, in any number. `quorum_seal` checks
`SealConfirmedHoldsAll` with one fault of every class, restarts included.

Entries are numbered in the order they are written, so a file, a replica or a chunk is
right when every entry stands at its own number (`Numbered`), and everything else is
about lengths. `Inv` (types, `FileInv`, `UploadInv`) ties the file to the write under
way and to the upload; `SerialInv` bounds replicas, requests and positions by the entry
begun last; `HeldInv` says that answers, tracked positions, catch-up positions and
counts claim no more than the replicas hold, which is what an acknowledgement needs and
what an orphaned request never takes away; `LevelInv`, with `WriteInv`, `FreshInv` and
`ChunkInv`, carries this to the end of the close; `SealInv` says what a confirmed seal
freezes. For the readers, `SettledInv` and `LiveInv` describe the views the peers give,
and `EvaluatePeerAgreement` and `FindBestReplica` are reasoned about through the
maximum of a finite set (`MaxOf`, by well-foundedness).

### 4.6 The ingest path

| Theorem of `UpdateSessionProofs` | Statement |
|---|---|
| `BooksBalance` | `[]NothingVanishes` |
| `DrainQuiets` | `[]DrainedIsQuiet` |
| `FlushedInOrder` | `[]InOrderFlushIsApplied` |
| `CommittedOnce` | `[]AppliedOnce` |

Assumption: `UpdateAssumption` (types of the constants). `Safety` has the books:
buffers are increasing sequences and an attempt sends part of the buffer (`BufferInv`),
what `Add` took is what was flushed and what is buffered (`BookInv`), nothing refused
was sent (`SentInv`), and a session that is open during a drain came after it
(`QuietInv`). `AttemptSafety` adds the attempt. `Laid` lays its mutations out in order:
processed, running at the service, on the connection batch by batch, unsent. This is
what makes a *count* a statement about *mutations*: `CountInv` says that, as long as
nothing was overtaken, the session's count is the number of processed mutations and
those are committed, and `ReplyInv` that the reply says the same. `RestInv` then lets
the writer send the rest again. Byte sizes decide only where batches are cut; no proof
needs their value, and the invariant leaves them uninterpreted.

### 4.7 The write path

| Theorem of `HostedTabletProofs` | Statement | Conditions |
|---|---|---|
| `TypeCorrect` | `[]TypeOK` | none |
| `Safety` | `[]Safe`, the inductive invariant | `Faithful` |
| `AlwaysRecoverable` | `[]TabletRecoverable` | `Faithful` |
| `AcknowledgedSurvives` | `[]AckedDurable` | `Faithful` |
| `NoUncoveredReference` | `ReferencesCovered` | `Faithful` |
| `RefinesContract` | `ImplementsContract`, the refinement of `TabletContract` | `Faithful` |
| `NeverFlushedTwice` | `[]FlushedOnce` | `Faithful`, `OneAttempt` |

Besides `TabletAssumption` (types of the constants):

* `Faithful`: no faults of the classes `cancel`, `manager`, `ambiguous` and `late`. Each
  of them makes a writer's memory and its WAL disagree and refutes a statement
  (`MCTabletCancel`, `MCTabletAmbiguous` and `MCTabletLate` in section 5.2; a manager
  that is lost and found again between the append and `Apply` does the same as a
  cancelled call). The classes `crash`, `lockloss`, `io` and `unload` are allowed
  together and in any number, which no run reaches.
* `OneAttempt`: the client does not retry, or no two attempts share a lock generation.
  The session of a batch ends with the generation, so then a batch is sent to one
  attempt only (`MCTabletRetry` is the counterexample otherwise).

The argument is about ownership. Several attempts run at once, and each believes what
its Host tells it; only the one whose lock the row names can change what the next owner
finds. `Alone` says that a step touches the memory of its own attempt only,
`OwnerStays` that an attempt which has recovered and lost the row never owns it again,
since a claim comes before the recovery and a dead generation does not return
(`LiveInv`). So the invariant speaks of the owner: it knows every record that the
referenced WALs hold, with its number (`KnownInv`), which keeps the records distinct
and the WALs readable (`RowInv`); its memtable, its pending flush and the installed
files together hold them (`HeldInv`); and the pending flush holds what the WALs it
covers hold and is installed as a whole or not at all (`WholeInv`). The last
conjunct is what a lost answer of the conditional mutation needs: the flush that is
resumed does not know which of the two happened. `AckedDurable` alone is not
inductive, since a retirement is judged against the writer's memory, which the
property does not mention.

Most steps change nothing that the next owner finds and nothing the owner's invariants
are about (`QuietSteps`); the proof goes through the others (`Works`) one by one.
`NeverFlushedTwice` adds who took a batch (`TakenInv`), that a logged batch is
applied while the attempt is served (`AppliedInv`), and that memory, pending flush,
files and the remaining WALs are pairwise disjoint where they have to be (`OnceInv`).
`HighestBounds` shows, by well-foundedness, that `HighestSequence` of a bounded
set of records is its maximum, so a recovered attempt uses new numbers.

### 4.8 Only model-checked

* `HostedTablet` with the faults its theorems exclude: `tablet_degraded` checks
  `FlushedOnce` under them, on a small instance.
* The liveness properties (`CallsEnd`, `CloseFinishes`, `WaitEnds`, `LossEndsHosting`,
  `WatchersReturn`, `LoadSettles`, `PromotionEnds`, `FlushReturns`): fairness and
  `ENABLED` are out of the prover's reach.
* The quorum properties with the faults their theorems exclude, as far as the
  runs include them, and `AgreementKeepsAcked` with three or more peers.
* The byte sums of `UpdateSession`, which are folds over sequences: an induction over
  data that the prover cannot make.

## 5. Where the code and its documentation disagree

### 5.1 The listed finding

`ingest_prefix`: the service goes on applying batches of a tablet after one of them
failed, counts the mutations it applied, and `closeUpdate` reports the count, which
the writer takes for the length of a committed prefix. With three batches of one
mutation, the first failing with a retryable error, the second applied and the third
refused by the session's byte limit, the count is 1: the writer drops mutation 1,
sends 2 and 3 again, and `Flush` returns nil although mutation 1 was never committed
and 2 is committed twice. `PROJECT.json` quotes both sides. `InOrderFlushIsApplied`
in run `ingest` shows that this overtaking is the only way to lose one.

### 5.2 Further counterexamples

Each configuration below makes TLC print a behaviour that contradicts a document or
a comment of the repository (`tlc -config X.cfg M`).

| Configuration | Statement | What happens |
|---|---|---|
| `MCTabletVisible` | `AckedVisible` | A batch is acknowledged with `-flush-cells 1` although no installed file holds it: `flush` resumes the pending operation of an earlier failed flush and returns success for the new batch. |
| `MCTabletCancel` | `AckedDurable` | The boundary of a seal counts logged batches, not applied ones. A batch whose caller left between append and `Apply` is covered by the next flush without being in it; its retry is then acknowledged from memory alone. |
| `MCTabletAmbiguous` | `TabletRecoverable` | After `ErrAmbiguous` the sequence number is used again in the same WAL, and no server can recover it. |
| `MCTabletLate` | `ReferencesCovered` | Nothing fences the bytes of a WAL. The frame of a former owner lands after the new owner read the file, and the WAL is retired with a batch that no file holds. (That batch is not acknowledged: the second verification fails once the loss is noticed.) |
| `MCTabletUnload` | `CommitFenced` | The assignment attempt is verified before the metadata commit but is not one of its conditions, so a commit that races an unload is applied. `Close` waits for it, so the row is still owned. |
| `MCTabletDrain` | `Drains` | A draining tablet that has cells in memory cannot flush, because no verification passes in that state; the unload never completes. |
| `MCTabletRetry` | `FlushedOnce` | A batch that was flushed but not acknowledged, retried in its session after an unload and a new assignment to the same process, is logged and flushed again. |
| `MCQuorumRace` | `ReplicaIsPrefix` | Two handlers on one replica read its size before either writes, and both append. `peer_server.go:106`: "A replica must stay a strict prefix of the originator's segment". |
| `MCQuorumPower` | `QuorumCountHeld` | `Segment.Write` never syncs, so a power loss takes an acknowledged entry from a replica. `ARCHITECTURE.md:97`: "Peer acks after local fdatasync." |
| `MCQuorumCancel` | `LevelledHoldsAll` | The close levels a replica while the local write of a cancelled `WriteAndReplicate` is still to come. `local_server.go:577`: "Writes have stopped by now". |
| `MCQuorumOmitted` | `AnyAgreementKeepsAcked` | The readers take a quorum of the peers that answered, so an acknowledged entry held only by silent ones is not read. `ARCHITECTURE.md:28` promises cross-pod durability. |
| `MCQuorumDelete` | `PurgeDeletesFiles` | `Delete` closes the segment before it asks for the file's path, and a closed segment has none, so every purge leaves the file behind. `manager.go:266`: "Delete removes a segment from tracking AND deletes the file on disk." |
| `MCLifecycle` with `HostedOwnsRow` added | `HostedOwnsRow` | The release of an older attempt takes the location that the new attempt of the same server claimed, so a hosted tablet is not in its row. |
| `MCLifecycleDropped` | `DroppedNotExposed` | A tablet whose drop after a lock loss fails stays published although the Host has forgotten it. `store.go:232`: "LocateTable exposes only successfully hosted tablets." |
| `MCPromotionTorn` | `JournalReadable` | A crash leaves a line without end; loading ignores it, but the next revision is appended to that very line, and then no run can load the intent. `intent_store.go:18`: "an incomplete final line from a crash is ignored, leaving the prior durable revision intact". |

In the passing runs the corresponding faults are excluded or the properties left
out: `tablet_takeover` uses neither `cancel`, `manager`, `ambiguous`, `late` nor
`unload`, `tablet_handoff` does not check `FlushedOnce`, `quorum_write` and
`quorum_repair` have serial handlers and network faults only, `ExposedIsTracked` and
`PromotionEnds` exclude the left-over tablet and the unreadable journal by name.

## 6. What is not modelled

* In the modelled components:
  * Host and tablet: metrics, strings and logs; the native one-record WAL mode
    (`-native-wal`, off by default) with its ambiguous references
    (`walauthority/authority.go:373`); the checkpoint files' format; timestamps, tablet
    time and flush IDs; conditional commits' evaluator; WAL rolling; the cap on the
    operation table (`hostedingest/tablet.go:744`); the root tablet's ZooKeeper row (same
    conditions, another store); embedding sidecars; a claim that took effect and is
    reported as an error to a caller that does not retry.
  * Lock: creates that ZooKeeper applies after the connection was lost and the sweep
    was over; data-change events while queued; the polling of the manager's lock.
  * Lifecycle: delivery and retries of the report queue (its order is kept); a second
    `runUnload` of the same tablet at the same time; flush and refresh requests.
  * Sidecar: short local writes, several `WriteEntries` streams for one segment,
    `SyncSegment` (does nothing), the sizes of catch-up chunks, `SealAll` at SIGTERM,
    the Java client.
  * Promotion: a second torn write, compare-and-swap conflicts (the run lock excludes
    them), the limit of 24 steps per run, files replaced while they are staged, the
    one-shot `Promote`, aliases, splits.
  * Ingest: conditional update sessions, several tablets and servers per flush, the
    session left behind when the answer to `startUpdate` is lost, concurrent router
    calls with one request ID (the service makes a new one for every call).
* Components that are not modelled: file formats, iterators, query and vector search,
  gateways, storage back ends, client library and bindings, generated code, commands.
  They are sequential transformations of data, or thin I/O, where a state machine
  adds nothing. The embedded engine, explorer coordination, leases and fleet dispatch
  have state worth modelling, but belong to the single-process product above the
  tablet server and share nothing with it.

## 7. Plan

The modelling of the tablet server, its lock, its WAL sidecar, its ingest path and
the promotion is complete to the extent of section 6, and every safety property that
a run checks is proved, under the conditions of section 4. What could follow:

1. `FlushedOnce` without `Faithful`, which `tablet_degraded` suggests, and the
   write path's other promises for the single fault classes that do not refute them.
2. The native WAL mode in `HostedTablet`.
