----------------------------- MODULE Promotion -----------------------------
(***************************************************************************)
(* promotion.Machine: a local corpus is handed over to an Accumulo table   *)
(* by a run that may fail or crash anywhere and is started again until it  *)
(* ends.  Each step makes one call to the outside (the authority adapter,  *)
(* the manager's FATE transactions, the staging store) and then appends    *)
(* the next revision of the intent to a journal.                           *)
(*                                                                         *)
(* The run lock of the intent store allows one run at a time, so a run is  *)
(* a program counter and what it has in memory is the last revision it     *)
(* wrote or loaded.  A call that fails may still take effect, at any later *)
(* time.  A corpus with an empty load mapping, and both modes, are initial *)
(* choices.                                                                *)
(***************************************************************************)
EXTENDS Integers, FiniteSets

CONSTANTS MaxFates,            \* bound on the transactions the manager hands out
          Faults, MaxFaults    \* fault classes, and how many happen

FaultClasses == {"call", "write", "tear", "crash", "import"}

ASSUME PromotionAssumption ==
    MaxFates \in Nat \ {0} /\ Faults \subseteq FaultClasses /\ MaxFaults \in Nat

VARIABLES
    mode, empty,      \* the request: "cutover" or "fan-in", and whether nothing is to import
    rec,              \* the latest revision of the intent
    next,             \* the revision about to be written
    pc, after,        \* where the run is, and where it goes on once next is written
    tail,             \* the journal ends in a line that was not ended
    corrupt,          \* such a line has been written on: no run can load the intent
    source,           \* authority over the local corpus
    fenced, activated, completed,  \* the destination is fenced, writable, the fan-in is done
    fate,             \* id -> FATE transaction
    imported,         \* the destination has the corpus
    dir,              \* what the bulk directory holds
    late,             \* calls without an answer that may still take effect
    faults

request == <<mode, empty>>
journal == <<rec, tail, corrupt>>
run == <<next, pc, after>>
outside == <<source, fenced, activated, completed, fate>>
staging == <<imported, dir>>
vars == <<request, journal, run, outside, staging, late, faults>>

FateIds == 1..MaxFates
States == {"none", "HANDOFF_INTENT", "DESTINATION_FENCED", "LOCAL_FROZEN", "FATE_ALLOCATED",
           "IMPORT_SUBMITTED", "IMPORT_VERIFIED", "LOCAL_RETIRED", "ACCUMULO_WRITABLE"}
Intents == [state : States, mapped : BOOLEAN, fate : 0..MaxFates, finished : BOOLEAN, cleaned : BOOLEAN]
NoIntent == [state |-> "none", mapped |-> FALSE, fate |-> 0, finished |-> FALSE, cleaned |-> FALSE]
Calls == [op : {"fence", "freeze", "execute", "finish", "complete", "retire", "activate"}, id : 0..MaxFates]

\* Types, and that an intent past its allocation names a transaction.
TypeOK ==
    /\ mode \in {"cutover", "fan-in"} /\ empty \in BOOLEAN
    /\ rec \in Intents /\ next \in Intents
    /\ rec.state \in {"FATE_ALLOCATED", "IMPORT_SUBMITTED"} => rec.fate # 0
    /\ pc \in {"idle", "step", "copy", "map", "nothing", "submit", "save"}
    /\ after \in {"step", "nothing", "submit"}
    /\ tail \in BOOLEAN /\ corrupt \in BOOLEAN
    /\ source \in {"active", "frozen", "retired"}
    /\ fenced \in BOOLEAN /\ activated \in BOOLEAN /\ completed \in BOOLEAN
    /\ fate \in [FateIds -> {"none", "new", "running", "success", "failed", "gone"}]
    /\ imported \in BOOLEAN /\ dir \subseteq {"rfiles", "map"}
    /\ late \subseteq Calls /\ faults \in 0..MaxFaults

Init ==
    /\ mode \in {"cutover", "fan-in"} /\ empty \in BOOLEAN
    /\ rec = NoIntent /\ next = NoIntent /\ pc = "idle" /\ after = "step"
    /\ tail = FALSE /\ corrupt = FALSE
    /\ source = "active" /\ fenced = FALSE /\ activated = FALSE /\ completed = FALSE
    /\ fate = [i \in FateIds |-> "none"]
    /\ imported = FALSE /\ dir = {} /\ late = {} /\ faults = 0

Fault(class) == class \in Faults /\ faults < MaxFaults /\ faults' = faults + 1

Done == rec.state = "ACCUMULO_WRITABLE" /\ rec.cleaned

----------------------------------------------------------------------------
(* The outside: calls are idempotent, and a transaction runs once.         *)

TakesEffect(c) ==
    /\ source' = IF c.op = "retire" THEN "retired"
                 ELSE IF c.op = "freeze" /\ source = "active" THEN "frozen" ELSE source
    /\ fenced' = (fenced \/ c.op = "fence")
    /\ activated' = (activated \/ c.op = "activate")
    /\ completed' = (completed \/ c.op = "complete")
    /\ fate' = IF c.op = "finish" THEN [fate EXCEPT ![c.id] = "gone"]
               ELSE IF c.op = "execute" /\ fate[c.id] = "new" THEN [fate EXCEPT ![c.id] = "running"]
               ELSE fate

TakesEffectLate ==
    \E c \in late :
        /\ TakesEffect(c) /\ late' = late \ {c}
        /\ UNCHANGED <<request, journal, run, staging, faults>>

\* A bulk import moves the files the load mapping names; without them it fails.
Import(i) ==
    /\ fate[i] = "running"
    /\ \/ /\ dir = {"rfiles", "map"}
          /\ fate' = [fate EXCEPT ![i] = "success"] /\ imported' = TRUE /\ dir' = {"map"}
          /\ UNCHANGED faults
       \/ /\ \/ dir # {"rfiles", "map"} /\ UNCHANGED faults
             \/ Fault("import")
          /\ fate' = [fate EXCEPT ![i] = "failed"] /\ UNCHANGED staging
    /\ UNCHANGED <<request, journal, run, source, fenced, activated, completed, late>>

----------------------------------------------------------------------------
(* Runs.                                                                   *)

Saves(intent, then) == pc' = "save" /\ next' = intent /\ after' = then
Returns == pc' = "idle" /\ UNCHANGED <<next, after>>

\* Run, up to its loop: the intent is loaded, or created.
Run ==
    /\ pc = "idle" /\ ~corrupt /\ ~Done
    /\ IF rec.state = "none" THEN Saves([NoIntent EXCEPT !.state = "HANDOFF_INTENT"], "step")
       ELSE pc' = "step" /\ UNCHANGED <<next, after>>
    /\ UNCHANGED <<request, journal, outside, staging, late, faults>>

At(state) == pc = "step" /\ rec.state = state

\* A call, and the revision to write when it succeeded.
Calling(op, id, intent) ==
    /\ \/ /\ TakesEffect([op |-> op, id |-> id]) /\ Saves(intent, "step")
          /\ UNCHANGED <<late, faults>>
       \/ /\ Fault("call") /\ late' = late \cup {[op |-> op, id |-> id]}
          /\ Returns /\ UNCHANGED outside
    /\ UNCHANGED <<request, journal, staging>>

FenceDestination == At("HANDOFF_INTENT") /\ Calling("fence", 0, [rec EXCEPT !.state = "DESTINATION_FENCED"])

FreezeSource == At("DESTINATION_FENCED") /\ Calling("freeze", 0, [rec EXCEPT !.state = "LOCAL_FROZEN"])

\* stage, in three writes to the bulk directory: an old load mapping is removed, the
\* files are copied and checked, and the load mapping that makes them valid is written.
Stage ==
    /\ At("LOCAL_FROZEN") /\ ~rec.mapped
    /\ dir' = dir \ {"map"} /\ pc' = "copy"
    /\ UNCHANGED <<request, journal, next, after, outside, imported, late, faults>>

CopyFiles ==
    /\ pc = "copy"
    /\ dir' = dir \cup {"rfiles"} /\ pc' = "map"
    /\ UNCHANGED <<request, journal, next, after, outside, imported, late, faults>>

WriteLoadMappingAsOptional ==
    /\ pc = "map"
    /\ Saves([rec EXCEPT !.mapped = TRUE], IF empty THEN "nothing" ELSE "step")
    /\ UNCHANGED <<request, journal, outside, staging, late, faults>>

WriteLoadMapping ==
    /\ pc = "map"
    /\ dir' = dir \cup {"map"}
    /\ Saves([rec EXCEPT !.mapped = TRUE], IF empty THEN "nothing" ELSE "step")
    /\ UNCHANGED <<request, journal, outside, imported, late, faults>>

\* With nothing to import the same run goes on without a transaction.
NothingToImport ==
    /\ pc = "nothing"
    /\ Saves([rec EXCEPT !.state = "IMPORT_VERIFIED"], "step")
    /\ UNCHANGED <<request, journal, outside, staging, late, faults>>

AllocatedAs(i, intent, state) ==
    /\ At("LOCAL_FROZEN") /\ rec.mapped /\ fate[i] = "none" /\ \A j \in 1..(i - 1) : fate[j] # "none"
    /\ fate' = [fate EXCEPT ![i] = state]
    /\ \/ Saves(intent, "step") /\ UNCHANGED faults
       \/ Fault("call") /\ Returns
    /\ UNCHANGED <<request, journal, source, fenced, activated, completed, staging, late>>

AllocateBulkImportAsUnrecorded(i) == AllocatedAs(i, [rec EXCEPT !.state = "FATE_ALLOCATED"], "new")

AllocateBulkImportAsExecuted(i) ==
    AllocatedAs(i, [rec EXCEPT !.state = "FATE_ALLOCATED", !.fate = i], "running")

\* A transaction whose allocation is not recorded is never heard of again.
AllocateBulkImport(i) == AllocatedAs(i, [rec EXCEPT !.state = "FATE_ALLOCATED", !.fate = i], "new")

\* The attempt is counted in the journal before it is made.
CountAttempt ==
    /\ At("FATE_ALLOCATED")
    /\ Saves(rec, "submit")
    /\ UNCHANGED <<request, journal, outside, staging, late, faults>>

SubmitBulkImport ==
    /\ pc = "submit"
    /\ Calling("execute", rec.fate, [rec EXCEPT !.state = "IMPORT_SUBMITTED"])

AwaitImportAsAccepted ==
    /\ At("IMPORT_SUBMITTED")
    /\ Saves([rec EXCEPT !.state = "IMPORT_VERIFIED"], "step")
    /\ UNCHANGED <<request, journal, outside, staging, late, faults>>

AwaitImportAsFinished ==
    /\ At("IMPORT_SUBMITTED")
    /\ \/ /\ fate[rec.fate] = "success" /\ imported
          /\ Saves([rec EXCEPT !.state = "IMPORT_VERIFIED"], "step")
          /\ fate' = [fate EXCEPT ![rec.fate] = "gone"]
       \/ fate[rec.fate] \in {"failed", "gone"} /\ Returns /\ UNCHANGED fate
    /\ UNCHANGED <<request, journal, source, fenced, activated, completed, staging, late, faults>>

\* WaitBulkImport, then VerifyImport; a failed transaction ends this run and every later one.
AwaitImport ==
    /\ At("IMPORT_SUBMITTED")
    /\ \/ /\ fate[rec.fate] = "success" /\ imported
          /\ Saves([rec EXCEPT !.state = "IMPORT_VERIFIED"], "step") /\ UNCHANGED faults
       \/ fate[rec.fate] \in {"failed", "gone"} /\ Returns /\ UNCHANGED faults
       \/ Fault("call") /\ Returns
    /\ UNCHANGED <<request, journal, outside, staging, late>>

Unfinished == rec.fate # 0 /\ ~rec.finished

FinishBulkImport ==
    /\ At("IMPORT_VERIFIED") /\ Unfinished
    /\ Calling("finish", rec.fate, [rec EXCEPT !.finished = TRUE])

CompleteFanIn ==
    /\ At("IMPORT_VERIFIED") /\ ~Unfinished /\ mode = "fan-in"
    /\ Calling("complete", 0, [rec EXCEPT !.state = "ACCUMULO_WRITABLE"])

RetireSourceAsAssumed ==
    /\ At("IMPORT_VERIFIED") /\ ~Unfinished /\ mode = "cutover"
    /\ \/ TakesEffect([op |-> "retire", id |-> 0]) /\ UNCHANGED <<late, faults>>
       \/ Fault("call") /\ late' = late \cup {[op |-> "retire", id |-> 0]} /\ UNCHANGED outside
    /\ Saves([rec EXCEPT !.state = "LOCAL_RETIRED"], "step")
    /\ UNCHANGED <<request, journal, staging>>

RetireSource ==
    /\ At("IMPORT_VERIFIED") /\ ~Unfinished /\ mode = "cutover"
    /\ Calling("retire", 0, [rec EXCEPT !.state = "LOCAL_RETIRED"])

ActivateDestination == At("LOCAL_RETIRED") /\ Calling("activate", 0, [rec EXCEPT !.state = "ACCUMULO_WRITABLE"])

CleanupOwnedAsUnrecorded ==
    /\ At("ACCUMULO_WRITABLE") /\ ~rec.cleaned
    /\ dir' = {} /\ Saves(rec, "step")
    /\ UNCHANGED <<request, journal, outside, imported, late, faults>>

\* What this intent staged is removed file by file.
CleanupOwned ==
    /\ At("ACCUMULO_WRITABLE") /\ ~rec.cleaned
    /\ \/ dir' = {} /\ Saves([rec EXCEPT !.cleaned = TRUE], "step") /\ UNCHANGED faults
       \/ dir' \in SUBSET dir /\ Fault("call") /\ Returns
    /\ UNCHANGED <<request, journal, outside, imported, late>>

Return ==
    /\ pc = "step" /\ Done
    /\ Returns
    /\ UNCHANGED <<request, journal, outside, staging, late, faults>>

\* advance, and LocalIntentStore.update: the revision is appended where the journal ends.
\* A write that fails may have reached the disk; a crash in it can leave part of the line,
\* or all of it but its end.
Save ==
    /\ pc = "save"
    /\ \/ ~corrupt /\ rec' = next /\ corrupt' = tail /\ pc' = after /\ UNCHANGED <<tail, faults>>
       \/ corrupt /\ pc' = "idle" /\ UNCHANGED <<journal, faults>>
       \/ /\ ~corrupt /\ Fault("write") /\ pc' = "idle"
          /\ \/ rec' = next /\ corrupt' = tail
             \/ UNCHANGED <<rec, corrupt>>
          /\ UNCHANGED tail
       \/ /\ ~tail /\ Fault("tear") /\ pc' = "idle"
          /\ rec' \in {rec, next} /\ tail' = TRUE /\ UNCHANGED corrupt
    /\ UNCHANGED <<request, next, after, outside, staging, late>>

Crash ==
    /\ pc # "idle" /\ Fault("crash")
    /\ Returns
    /\ UNCHANGED <<request, journal, outside, staging, late>>

Step ==
    \/ Run \/ FenceDestination \/ FreezeSource
    \/ Stage \/ CopyFiles \/ WriteLoadMapping \/ NothingToImport
    \/ CountAttempt \/ SubmitBulkImport \/ AwaitImport \/ FinishBulkImport
    \/ (\E i \in FateIds : AllocateBulkImport(i))
    \/ CompleteFanIn \/ RetireSource \/ ActivateDestination \/ CleanupOwned \/ Return \/ Save

Next ==
    \/ Step \/ Crash \/ TakesEffectLate
    \/ \E i \in FateIds : Import(i)

\* A run goes on until it returns, the manager works on its transactions, and a promotion
\* that has not ended is run again.
Fairness == WF_vars(Step) /\ \A i \in FateIds : WF_vars(Import(i))

Spec == Init /\ [][Next]_vars
FairSpec == Spec /\ Fairness

----------------------------------------------------------------------------
(* Properties.                                                             *)

\* However often submissions fail, are repeated or arrive late, one transaction at most
\* is ever executed for the corpus: it is never imported twice.
OneTransaction == Cardinality({i \in FateIds : fate[i] \notin {"none", "new"}}) <= 1

\* The local corpus is given up, and the destination opened or the fan-in declared done,
\* only when the destination has the corpus.
GivenUpIsImported == source = "retired" \/ activated \/ completed => imported \/ empty

\* There are never two writers: the destination is opened by a cutover only, after its
\* source was retired, and a fan-in moves no authority.
OneWriter ==
    /\ activated => source = "retired"
    /\ mode = "fan-in" => source # "retired" /\ ~activated

\* The transaction is there to be waited for until its outcome is in the journal, also
\* when finishing it was tried and the run failed.
TransactionKept ==
    rec.fate # 0 /\ fate[rec.fate] = "gone" =>
        rec.state \in {"IMPORT_VERIFIED", "LOCAL_RETIRED", "ACCUMULO_WRITABLE"}

\* A transaction that runs finds the staged files and their load mapping: no repeated
\* staging and no clean-up touches them.
StagedForImport == (\E i \in FateIds : fate[i] = "running") => dir = {"rfiles", "map"}

\* Whatever failed on the way, a promotion that is run again ends, unless its transaction
\* failed or its journal cannot be read.
PromotionEnds == <>(Done \/ corrupt \/ \E i \in FateIds : fate[i] = "failed")

\* "an incomplete final line from a crash is ignored, leaving the prior durable revision
\* intact": no crash makes the journal unreadable.
JournalReadable == ~corrupt
=============================================================================
