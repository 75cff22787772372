-------------------------- MODULE PromotionProofs --------------------------
(***************************************************************************)
(* Theorems about Promotion, for any number of faults and transactions.    *)
(***************************************************************************)
EXTENDS Promotion, FiniteSetTheorems, TLAPS

Staged == {"rfiles", "map"}
Early == {"none", "HANDOFF_INTENT", "DESTINATION_FENCED", "LOCAL_FROZEN"}
Verified == {"IMPORT_VERIFIED", "LOCAL_RETIRED", "ACCUMULO_WRITABLE"}

\* What a revision says about the outside, whether it is in the journal or about to be
\* written: a write that fails may have reached the disk.
Truthful(intent) ==
    /\ intent.state \in Early => intent.fate = 0
    /\ intent.state \in {"FATE_ALLOCATED", "IMPORT_SUBMITTED"} => intent.fate # 0
    /\ intent.state \in {"none", "HANDOFF_INTENT", "DESTINATION_FENCED"} => ~intent.mapped
    /\ intent.state = "LOCAL_FROZEN" /\ intent.mapped => dir = Staged
    /\ intent.fate # 0 /\ fate[intent.fate] \in {"none", "new", "running"} => dir = Staged
    /\ intent.state \in Verified => imported \/ empty
    /\ intent.state \in Verified /\ intent.fate # 0 => fate[intent.fate] \in {"success", "gone"}
    /\ intent.state = "LOCAL_RETIRED" => source = "retired" /\ mode = "cutover"

\* A revision under way keeps what the journal has: the transaction and the verification.
SavingInv ==
    pc = "save" =>
        /\ Truthful(next)
        /\ rec.fate # 0 => next.fate = rec.fate
        /\ rec.state \in Verified => next.state \in Verified
        /\ after = "nothing" => empty /\ next.state = "LOCAL_FROZEN"
        /\ after = "submit" => next.state = "FATE_ALLOCATED"

\* Where a run can be for the intent it works on.
RunInv ==
    /\ pc \in {"copy", "map"} => rec.state = "LOCAL_FROZEN" /\ ~rec.mapped
    /\ pc = "map" => "rfiles" \in dir
    /\ pc = "nothing" => empty /\ rec.state = "LOCAL_FROZEN"
    /\ pc = "submit" => rec.state = "FATE_ALLOCATED"

\* A call that takes effect late does what the journal already accounts for.
Accounted(c) ==
    /\ c.op \in {"execute", "finish"} => c.id # 0 /\ c.id = rec.fate
    /\ c.op = "finish" => rec.state \in Verified
    /\ c.op \in {"retire", "activate", "complete"} => imported \/ empty
    /\ c.op \in {"retire", "activate"} => mode = "cutover"
    /\ c.op = "activate" => source = "retired"

LateInv == \A c \in late : Accounted(c)

\* A transaction that was ever executed is the one the journal names.
FateInv == \A i \in FateIds : fate[i] \notin {"none", "new"} => rec.fate = i

Inv == /\ TypeOK /\ Truthful(rec) /\ SavingInv /\ RunInv /\ LateInv /\ FateInv
       /\ GivenUpIsImported /\ OneWriter /\ TransactionKept /\ StagedForImport

----------------------------------------------------------------------------
(* Calls.                                                                  *)

\* A call that takes effect, now or late, leaves every true revision true.
LEMMA EffectInv ==
    ASSUME Inv, NEW c \in Calls, Accounted(c), TakesEffect(c),
           UNCHANGED <<mode, empty, rec, imported, dir>>
    PROVE  /\ source' \in {"active", "frozen", "retired"}
           /\ fenced' \in BOOLEAN /\ activated' \in BOOLEAN /\ completed' \in BOOLEAN
           /\ fate' \in [FateIds -> {"none", "new", "running", "success", "failed", "gone"}]
           /\ \A intent \in Intents : Truthful(intent) => Truthful(intent)'
           /\ \A d \in Calls : Accounted(d) => Accounted(d)'
           /\ FateInv' /\ GivenUpIsImported' /\ OneWriter' /\ TransactionKept' /\ StagedForImport'
<1>. USE DEF Calls, FateIds
<1>1. /\ source \in {"active", "frozen", "retired"} /\ source' \in {"active", "frozen", "retired"}
      /\ fenced' \in BOOLEAN /\ activated' \in BOOLEAN /\ completed' \in BOOLEAN
      /\ source = "retired" => source' = "retired"
      /\ source' = "retired" => source = "retired" \/ c.op = "retire"
      /\ activated' => activated \/ c.op = "activate"
      /\ completed' => completed \/ c.op = "complete"
  BY DEF Inv, TypeOK, TakesEffect
<1>2. /\ fate' \in [FateIds -> {"none", "new", "running", "success", "failed", "gone"}]
      /\ \A i \in FateIds :
            \/ fate'[i] = fate[i]
            \/ c.op = "execute" /\ i = c.id /\ fate[i] = "new" /\ fate'[i] = "running"
            \/ c.op = "finish" /\ i = c.id /\ fate'[i] = "gone"
  <2>1. fate \in [FateIds -> {"none", "new", "running", "success", "failed", "gone"}]
    BY DEF Inv, TypeOK
  <2>2. CASE c.op = "execute" /\ fate[c.id] = "new"
    <3>1. fate' = [fate EXCEPT ![c.id] = "running"]
      BY <2>2 DEF TakesEffect
    <3>. QED  BY <2>1, <2>2, <3>1
  <2>3. CASE c.op = "finish"
    <3>1. fate' = [fate EXCEPT ![c.id] = "gone"]
      BY <2>3 DEF TakesEffect
    <3>. QED  BY <2>1, <2>3, <3>1
  <2>4. CASE ~(c.op = "execute" /\ fate[c.id] = "new") /\ c.op # "finish"
    <3>1. fate' = fate
      BY <2>4 DEF TakesEffect
    <3>. QED  BY <2>1, <3>1
  <2>. QED  BY <2>2, <2>3, <2>4
<1>3. ASSUME NEW intent \in Intents, Truthful(intent) PROVE Truthful(intent)'
  BY <1>1, <1>2, <1>3 DEF Truthful, Intents
<1>4. ASSUME NEW d \in Calls, Accounted(d) PROVE Accounted(d)'
  BY <1>1, <1>4 DEF Accounted
<1>5. FateInv'
  BY <1>2 DEF Inv, FateInv, Accounted
<1>6. GivenUpIsImported' /\ OneWriter'
  BY <1>1 DEF Inv, GivenUpIsImported, OneWriter, Accounted
<1>7. TransactionKept'
  BY <1>2 DEF Inv, TransactionKept, Accounted, TypeOK, Intents, Verified
<1>8. StagedForImport'
  BY <1>2, <1>5 DEF Inv, StagedForImport, Accounted, FateInv, Truthful, Staged
<1>. QED  BY <1>1, <1>2, <1>3, <1>4, <1>5, <1>6, <1>7, <1>8

\* A step that makes a call and prepares a revision that is true once the call is done.
LEMMA CallingInv ==
    ASSUME Inv, NEW op, NEW id, NEW intent \in Intents, Calling(op, id, intent),
           [op |-> op, id |-> id] \in Calls, Accounted([op |-> op, id |-> id]),
           intent.fate = rec.fate, rec.state \in Verified => intent.state \in Verified,
           TakesEffect([op |-> op, id |-> id]) => Truthful(intent)'
    PROVE  Inv'
<1>. DEFINE c == [op |-> op, id |-> id]
<1>1. UNCHANGED <<mode, empty, rec, tail, corrupt, imported, dir>>
  BY DEF Calling, request, journal, staging
<1>2. CASE TakesEffect(c) /\ Saves(intent, "step") /\ UNCHANGED <<late, faults>>
  <2>. HIDE DEF c
  <2>1. /\ source' \in {"active", "frozen", "retired"}
        /\ fenced' \in BOOLEAN /\ activated' \in BOOLEAN /\ completed' \in BOOLEAN
        /\ fate' \in [FateIds -> {"none", "new", "running", "success", "failed", "gone"}]
        /\ \A i \in Intents : Truthful(i) => Truthful(i)'
        /\ \A d \in Calls : Accounted(d) => Accounted(d)'
        /\ FateInv' /\ GivenUpIsImported' /\ OneWriter' /\ TransactionKept' /\ StagedForImport'
    BY <1>1, <1>2, EffectInv DEF c
  <2>2. TypeOK'
    BY <1>1, <1>2, <2>1 DEF Inv, TypeOK, Saves
  <2>3. Truthful(rec)'
    BY <1>1, <2>1 DEF Inv, TypeOK
  <2>4. SavingInv'
    BY <1>1, <1>2, <2>1 DEF SavingInv, Saves, c
  <2>5. RunInv' /\ LateInv'
    BY <1>2, <2>1 DEF Inv, TypeOK, RunInv, LateInv, Saves
  <2>. QED  BY <2>1, <2>2, <2>3, <2>4, <2>5 DEF Inv
<1>3. CASE Fault("call") /\ late' = late \cup {c} /\ Returns /\ UNCHANGED outside
  <2>. HIDE DEF c
  <2>1. UNCHANGED <<source, fenced, activated, completed, fate>>
    BY <1>3 DEF outside
  <2>2. TypeOK'
    BY <1>1, <1>3, <2>1, PromotionAssumption DEF Inv, TypeOK, Returns, Fault, c
  <2>3. Truthful(rec)'
    BY <1>1, <2>1 DEF Inv, Truthful
  <2>4. SavingInv' /\ RunInv'
    BY <1>3 DEF SavingInv, RunInv, Returns
  <2>5. LateInv'
    BY <1>1, <1>3, <2>1 DEF Inv, LateInv, Accounted, c
  <2>6. FateInv' /\ GivenUpIsImported' /\ OneWriter' /\ TransactionKept' /\ StagedForImport'
    BY <1>1, <2>1 DEF Inv, FateInv, GivenUpIsImported, OneWriter, TransactionKept, StagedForImport
  <2>. QED  BY <2>2, <2>3, <2>4, <2>5, <2>6 DEF Inv
<1>. QED  BY <1>2, <1>3 DEF Calling
----------------------------------------------------------------------------
(* Steps.                                                                  *)

\* A step that only prepares a revision.
LEMMA SavesInv ==
    ASSUME Inv, NEW intent \in Intents, NEW then \in {"step", "nothing", "submit"},
           Saves(intent, then), Truthful(intent),
           rec.fate # 0 => intent.fate = rec.fate,
           rec.state \in Verified => intent.state \in Verified,
           then = "nothing" => empty /\ intent.state = "LOCAL_FROZEN",
           then = "submit" => intent.state = "FATE_ALLOCATED",
           UNCHANGED <<request, journal, outside, staging, late, faults>>
    PROVE  Inv'
<1>. USE DEF request, journal, outside, staging
<1>1. TypeOK' /\ Truthful(rec)'
  BY DEF Inv, TypeOK, Truthful, Saves
<1>2. SavingInv' /\ RunInv'
  BY DEF SavingInv, RunInv, Saves, Truthful
<1>3. LateInv' /\ FateInv'
  BY DEF Inv, LateInv, Accounted, FateInv
<1>4. GivenUpIsImported' /\ OneWriter' /\ TransactionKept' /\ StagedForImport'
  BY DEF Inv, GivenUpIsImported, OneWriter, TransactionKept, StagedForImport
<1>. QED  BY <1>1, <1>2, <1>3, <1>4 DEF Inv

\* A step that ends a run, or moves it on, and leaves everything else alone.
LEMMA MovesInv ==
    ASSUME Inv, pc' \in {"idle", "step"}, faults' \in 0..MaxFaults,
           UNCHANGED <<request, journal, next, after, outside, staging, late>>
    PROVE  Inv'
<1>. USE DEF request, journal, outside, staging
<1>1. TypeOK' /\ Truthful(rec)'
  BY DEF Inv, TypeOK, Truthful
<1>2. SavingInv' /\ RunInv'
  BY DEF SavingInv, RunInv
<1>3. LateInv' /\ FateInv'
  BY DEF Inv, LateInv, Accounted, FateInv
<1>4. GivenUpIsImported' /\ OneWriter' /\ TransactionKept' /\ StagedForImport'
  BY DEF Inv, GivenUpIsImported, OneWriter, TransactionKept, StagedForImport
<1>. QED  BY <1>1, <1>2, <1>3, <1>4 DEF Inv

\* One fault more is still within the bound.
LEMMA FaultBound ==
    ASSUME Inv, NEW class, Fault(class)
    PROVE  faults' \in 0..MaxFaults
BY PromotionAssumption DEF Inv, TypeOK, Fault

\* The fields of a revision that changes one of them.
LEMMA Revised ==
    ASSUME NEW r \in Intents
    PROVE  /\ \A s \in States : LET i == [r EXCEPT !.state = s] IN
                 /\ i \in Intents /\ i.state = s /\ i.mapped = r.mapped /\ i.fate = r.fate
           /\ LET i == [r EXCEPT !.mapped = TRUE] IN
                 /\ i \in Intents /\ i.mapped /\ i.state = r.state /\ i.fate = r.fate
           /\ LET i == [r EXCEPT !.finished = TRUE] IN
                 /\ i \in Intents /\ i.state = r.state /\ i.mapped = r.mapped /\ i.fate = r.fate
           /\ LET i == [r EXCEPT !.cleaned = TRUE] IN
                 /\ i \in Intents /\ i.state = r.state /\ i.mapped = r.mapped /\ i.fate = r.fate
           /\ \A s \in States, f \in 0..MaxFates : LET i == [r EXCEPT !.state = s, !.fate = f] IN
                 /\ i \in Intents /\ i.state = s /\ i.mapped = r.mapped /\ i.fate = f
BY DEF Intents

\* The empty intent is an intent.
LEMMA Unwritten == /\ NoIntent \in Intents /\ NoIntent.state = "none" /\ NoIntent.fate = 0
                   /\ ~NoIntent.mapped
<1>1. 0 \in 0..MaxFates
  BY PromotionAssumption
<1>. QED  BY <1>1 DEF NoIntent, Intents, States

\* Staging happens while the intent has no transaction.
LEMMA StagingInv ==
    ASSUME Inv, Stage \/ CopyFiles \/ WriteLoadMapping
    PROVE  Inv'
<1>. USE DEF request, journal, outside, staging
<1>1. /\ rec \in Intents /\ rec.state = "LOCAL_FROZEN" /\ ~rec.mapped /\ rec.fate = 0
      /\ UNCHANGED <<mode, empty, rec, tail, corrupt, source, fenced, activated, completed, fate,
                     imported, late, faults>>
  BY DEF Stage, CopyFiles, WriteLoadMapping, Inv, TypeOK, RunInv, At, Truthful, Early
<1>i. [rec EXCEPT !.mapped = TRUE] \in Intents
  BY <1>1, Revised
<1>p. PICK intent \in Intents : intent = [rec EXCEPT !.mapped = TRUE]
  BY <1>i, Zenon
<1>0. intent.state = "LOCAL_FROZEN" /\ intent.fate = 0
  BY <1>1, <1>p, Revised
<1>s. WriteLoadMapping => pc' = "save" /\ next' = intent /\ after' = IF empty THEN "nothing" ELSE "step"
  BY <1>p, Zenon DEF WriteLoadMapping, Saves
<1>2. TypeOK'
  BY <1>0, <1>1, <1>s DEF Inv, TypeOK, Stage, CopyFiles, WriteLoadMapping
<1>3. Truthful(rec)'
  BY <1>1 DEF Truthful, Early, Verified
<1>4. RunInv'
  BY <1>1, <1>s DEF RunInv, Stage, CopyFiles
<1>5. SavingInv'
  <2>1. CASE Stage \/ CopyFiles
    BY <2>1 DEF Stage, CopyFiles, SavingInv
  <2>2. CASE WriteLoadMapping
    <3>1. dir' = Staged
      BY <2>2 DEF WriteLoadMapping, Staged, Inv, TypeOK, RunInv
    <3>2. Truthful(intent)'
      BY <1>0, <3>1 DEF Truthful, Early, Verified
    <3>. QED  BY <1>0, <1>1, <1>s, <2>2, <3>2 DEF SavingInv, Verified
  <2>. QED  BY <2>1, <2>2
<1>6. LateInv' /\ FateInv'
  BY <1>1 DEF Inv, LateInv, Accounted, FateInv
<1>7. GivenUpIsImported' /\ OneWriter' /\ TransactionKept'
  BY <1>1 DEF Inv, GivenUpIsImported, OneWriter, TransactionKept
<1>8. StagedForImport'
  BY <1>1 DEF Inv, StagedForImport, FateInv, FateIds
<1>. QED  BY <1>2, <1>3, <1>4, <1>5, <1>6, <1>7, <1>8 DEF Inv
\* What is recorded was true when it was prepared, and still is.
LEMMA SaveInv ==
    ASSUME Inv, Save
    PROVE  Inv'
<1>. USE DEF request, journal, outside, staging
<1>1. /\ pc = "save" /\ rec' \in {rec, next} /\ Truthful(next) /\ next \in Intents /\ rec \in Intents
      /\ pc' = "idle" \/ (rec' = next /\ pc' = after)
      /\ tail' \in BOOLEAN /\ corrupt' \in BOOLEAN
      /\ rec.fate # 0 => next.fate = rec.fate
      /\ rec.state \in Verified => next.state \in Verified
      /\ UNCHANGED <<mode, empty, next, after, source, fenced, activated, completed, fate, imported,
                     dir, late>>
  BY DEF Inv, TypeOK, SavingInv, Save
<1>2. faults' \in 0..MaxFaults
  BY FaultBound DEF Inv, TypeOK, Save
<1>3. TypeOK'
  BY <1>1, <1>2 DEF Inv, TypeOK, Truthful
<1>4. Truthful(rec)'
  BY <1>1 DEF Inv, Truthful
<1>5. SavingInv'
  BY <1>1 DEF SavingInv, Inv, TypeOK
<1>6. RunInv'
  BY <1>1 DEF RunInv, SavingInv, Inv, TypeOK
<1>7. LateInv'
  BY <1>1 DEF LateInv, Accounted, Inv
<1>8. FateInv'
  BY <1>1 DEF FateInv, FateIds, Inv
<1>9. GivenUpIsImported' /\ OneWriter' /\ StagedForImport'
  BY <1>1 DEF Inv, GivenUpIsImported, OneWriter, StagedForImport
<1>10. TransactionKept'
  <2>. SUFFICES ASSUME rec'.fate # 0, fate[rec'.fate] = "gone"
                PROVE  rec'.state \in Verified
    BY <1>1 DEF TransactionKept, Verified
  <2>1. rec.fate = rec'.fate
    BY <1>1 DEF Inv, FateInv, FateIds, Intents
  <2>. QED  BY <1>1, <2>1 DEF Inv, TransactionKept, Verified
<1>. QED  BY <1>3, <1>4, <1>5, <1>6, <1>7, <1>8, <1>9, <1>10 DEF Inv

\* The manager ends a transaction.
LEMMA ImportInv ==
    ASSUME Inv, NEW i \in FateIds, Import(i)
    PROVE  Inv'
<1>. USE DEF request, journal, outside, staging, run
<1>1. /\ rec.fate = i /\ rec \in Intents /\ next \in Intents /\ i # 0
      /\ fate \in [FateIds -> {"none", "new", "running", "success", "failed", "gone"}]
      /\ fate[i] = "running"
      /\ UNCHANGED <<mode, empty, rec, tail, corrupt, next, pc, after, source, fenced, activated,
                     completed, late>>
  BY DEF Inv, TypeOK, FateInv, Import, FateIds
<1>2. /\ fate' \in [FateIds -> {"none", "new", "running", "success", "failed", "gone"}]
      /\ fate'[i] \in {"success", "failed"}
      /\ \A j \in FateIds : j # i => fate'[j] = fate[j]
  BY <1>1 DEF Import
<1>3. /\ faults' \in 0..MaxFaults /\ imported' \in BOOLEAN /\ (imported => imported')
      /\ dir' \subseteq {"rfiles", "map"}
  BY FaultBound DEF Import, Inv, TypeOK
<1>4. rec.state \notin Early /\ rec.state \notin Verified
  BY <1>1 DEF Inv, Truthful
<1>5. pc = "save" => next.state \notin Early /\ next.state \notin Verified /\ next.fate = i
  BY <1>1 DEF Inv, SavingInv, Truthful
<1>6. TypeOK'
  BY <1>1, <1>2, <1>3 DEF Inv, TypeOK
<1>7. Truthful(rec)'
  BY <1>1, <1>2, <1>4 DEF Inv, Truthful, Early
<1>8. SavingInv'
  BY <1>1, <1>2, <1>5 DEF Inv, SavingInv, Truthful, Early
<1>9. RunInv'
  BY <1>1, <1>4 DEF Inv, RunInv, Early
<1>10. LateInv'
  BY <1>1, <1>3 DEF Inv, LateInv, Accounted
<1>11. FateInv'
  BY <1>1, <1>2 DEF Inv, FateInv
<1>12. GivenUpIsImported' /\ OneWriter' /\ TransactionKept'
  BY <1>1, <1>2, <1>3 DEF Inv, GivenUpIsImported, OneWriter, TransactionKept
<1>13. StagedForImport'
  BY <1>1, <1>2 DEF Inv, FateInv, StagedForImport
<1>. QED  BY <1>6, <1>7, <1>8, <1>9, <1>10, <1>11, <1>12, <1>13 DEF Inv

\* What was staged is removed when the transaction is over.
LEMMA CleanupInv ==
    ASSUME Inv, CleanupOwned
    PROVE  Inv'
<1>. USE DEF request, journal, outside, staging
<1>1. /\ rec \in Intents /\ rec.state = "ACCUMULO_WRITABLE"
      /\ UNCHANGED <<mode, empty, rec, tail, corrupt, source, fenced, activated, completed, fate,
                     imported, late>>
      /\ \A i \in FateIds : fate[i] # "running"
  BY DEF Inv, TypeOK, CleanupOwned, At, FateInv, FateIds, Truthful, Verified
<1>i. [rec EXCEPT !.cleaned = TRUE] \in Intents
  BY <1>1, Revised
<1>p. PICK intent \in Intents : intent = [rec EXCEPT !.cleaned = TRUE]
  BY <1>i, Zenon
<1>2. intent.state = "ACCUMULO_WRITABLE" /\ intent.fate = rec.fate
  BY <1>1, <1>p, Revised
<1>3. \/ pc' = "save" /\ next' = intent /\ after' = "step"
      \/ pc' = "idle" /\ UNCHANGED <<next, after>>
  BY <1>p, Zenon DEF CleanupOwned, Saves, Returns
<1>4. TypeOK'
  BY <1>1, <1>3, FaultBound DEF Inv, TypeOK, CleanupOwned
<1>5. Truthful(rec)'
  BY <1>1 DEF Inv, Truthful, Early, Verified
<1>6. Truthful(intent)'
  BY <1>1, <1>2 DEF Inv, Truthful, Early, Verified
<1>7. SavingInv' /\ RunInv'
  BY <1>1, <1>2, <1>3, <1>6 DEF SavingInv, RunInv, Verified
<1>8. LateInv' /\ FateInv'
  BY <1>1 DEF Inv, LateInv, Accounted, FateInv
<1>9. GivenUpIsImported' /\ OneWriter' /\ TransactionKept' /\ StagedForImport'
  BY <1>1 DEF Inv, GivenUpIsImported, OneWriter, TransactionKept, StagedForImport
<1>. QED  BY <1>4, <1>5, <1>7, <1>8, <1>9 DEF Inv
\* A call whose success moves the intent to another state.
LEMMA AdvanceInv ==
    ASSUME Inv, NEW op, NEW id, NEW s \in States, Calling(op, id, [rec EXCEPT !.state = s]),
           [op |-> op, id |-> id] \in Calls, Accounted([op |-> op, id |-> id]),
           s \in Early => rec.fate = 0 /\ ~rec.mapped,
           s \in {"FATE_ALLOCATED", "IMPORT_SUBMITTED"} => rec.fate # 0,
           s \in Verified <=> rec.state \in Verified,
           s = "LOCAL_RETIRED" => op = "retire" /\ mode = "cutover"
    PROVE  Inv'
<1>1. rec \in Intents /\ UNCHANGED <<mode, empty, rec, imported, dir>>
  BY DEF Inv, TypeOK, Calling, request, journal, staging
<1>2. [rec EXCEPT !.state = s] \in Intents
  BY <1>1, Revised
<1>3. PICK intent \in Intents : intent = [rec EXCEPT !.state = s]
  BY <1>2, Zenon
<1>4. intent.state = s /\ intent.mapped = rec.mapped /\ intent.fate = rec.fate
  BY <1>1, <1>3, Revised
<1>5. Calling(op, id, intent)
  BY <1>3, Zenon
<1>6. ASSUME TakesEffect([op |-> op, id |-> id])
      PROVE  Truthful(intent)'
  <2>1. Truthful(rec)'
    BY <1>1, <1>6, EffectInv DEF Inv
  <2>2. op = "retire" => source' = "retired"
    BY <1>6 DEF TakesEffect
  <2>. QED  BY <1>1, <1>4, <2>1, <2>2 DEF Truthful, Early, Verified
<1>. QED  BY <1>4, <1>5, <1>6, CallingInv

\* A transaction is finished when the journal has its outcome.
LEMMA FinishInv ==
    ASSUME Inv, FinishBulkImport
    PROVE  Inv'
<1>1. /\ rec \in Intents /\ rec.fate # 0 /\ rec.state \in Verified
      /\ Calling("finish", rec.fate, [rec EXCEPT !.finished = TRUE])
  BY DEF Inv, TypeOK, FinishBulkImport, At, Unfinished, Verified
<1>2. [rec EXCEPT !.finished = TRUE] \in Intents
  BY <1>1, Revised
<1>3. PICK intent \in Intents : intent = [rec EXCEPT !.finished = TRUE]
  BY <1>2, Zenon
<1>4. PICK id \in 0..MaxFates : id = rec.fate
  BY <1>1 DEF Intents
<1>5. intent.state = rec.state /\ intent.mapped = rec.mapped /\ intent.fate = rec.fate
  BY <1>1, <1>3, Revised
<1>6. Calling("finish", id, intent)
  BY <1>1, <1>3, <1>4, Zenon
<1>7. [op |-> "finish", id |-> id] \in Calls /\ Accounted([op |-> "finish", id |-> id])
  BY <1>1, <1>4 DEF Calls, Accounted
<1>8. ASSUME TakesEffect([op |-> "finish", id |-> id])
      PROVE  Truthful(intent)'
  <2>1. UNCHANGED <<mode, empty, rec, imported, dir>>
    BY <1>1 DEF Calling, request, journal, staging
  <2>2. Truthful(rec)'
    BY <1>1, <1>7, <1>8, <2>1, EffectInv DEF Inv
  <2>. QED  BY <1>5, <2>1, <2>2 DEF Truthful
<1>. QED  BY <1>5, <1>6, <1>7, <1>8, CallingInv

\* A new transaction is not executed yet, and the intent has none.
LEMMA AllocateInv ==
    ASSUME Inv, NEW i \in FateIds, AllocateBulkImport(i)
    PROVE  Inv'
<1>. USE DEF request, journal, outside, staging
<1>1. /\ rec \in Intents /\ rec.state = "LOCAL_FROZEN" /\ rec.mapped /\ rec.fate = 0 /\ dir = Staged
      /\ fate \in [FateIds -> {"none", "new", "running", "success", "failed", "gone"}]
      /\ fate[i] = "none" /\ fate' = [fate EXCEPT ![i] = "new"] /\ i \in 0..MaxFates /\ i # 0
      /\ UNCHANGED <<mode, empty, rec, tail, corrupt, source, fenced, activated, completed, imported,
                     dir, late>>
  BY DEF Inv, TypeOK, AllocateBulkImport, AllocatedAs, At, Truthful, Early, FateIds
<1>2. [rec EXCEPT !.state = "FATE_ALLOCATED", !.fate = i] \in Intents
  BY <1>1, Revised DEF States
<1>3. PICK intent \in Intents : intent = [rec EXCEPT !.state = "FATE_ALLOCATED", !.fate = i]
  BY <1>2, Zenon
<1>4. intent.state = "FATE_ALLOCATED" /\ intent.fate = i
  BY <1>1, <1>3 DEF Intents
<1>5. \/ pc' = "save" /\ next' = intent /\ after' = "step"
      \/ pc' = "idle" /\ UNCHANGED <<next, after>>
  BY <1>3, Zenon DEF AllocateBulkImport, AllocatedAs, Saves, Returns
<1>6. TypeOK'
  BY <1>1, <1>5, FaultBound DEF Inv, TypeOK, AllocateBulkImport, AllocatedAs
<1>7. Truthful(rec)' /\ Truthful(intent)'
  BY <1>1, <1>4 DEF Inv, Truthful, Early, Verified
<1>8. SavingInv' /\ RunInv'
  BY <1>1, <1>4, <1>5, <1>7 DEF SavingInv, RunInv, Verified
<1>9. LateInv'
  BY <1>1 DEF Inv, LateInv, Accounted
<1>10. FateInv'
  BY <1>1 DEF Inv, FateInv
<1>11. GivenUpIsImported' /\ OneWriter' /\ TransactionKept' /\ StagedForImport'
  BY <1>1 DEF Inv, GivenUpIsImported, OneWriter, TransactionKept, StagedForImport
<1>. QED  BY <1>6, <1>7, <1>8, <1>9, <1>10, <1>11 DEF Inv

\* Run, the two revisions without a call, and the wait for the import.
LEMMA PreparesInv ==
    ASSUME Inv, Run \/ NothingToImport \/ CountAttempt \/ AwaitImport
    PROVE  Inv'
<1>1. rec \in Intents /\ Truthful(rec) /\ faults \in 0..MaxFaults
  BY DEF Inv, TypeOK
<1>2. CASE Run
  <2>1. CASE rec.state = "none"
    <3>0. PICK intent \in Intents : intent = [NoIntent EXCEPT !.state = "HANDOFF_INTENT"]
      BY Unwritten, Revised DEF States
    <3>1. intent.state = "HANDOFF_INTENT" /\ ~intent.mapped /\ intent.fate = 0
      BY <3>0, Unwritten DEF Intents
    <3>2. Saves(intent, "step") /\ UNCHANGED <<request, journal, outside, staging, late, faults>>
      BY <1>2, <2>1, <3>0, Zenon DEF Run
    <3>3. Truthful(intent) /\ rec.fate = 0 /\ rec.state \notin Verified
      BY <1>1, <2>1, <3>1 DEF Truthful, Early, Verified
    <3>. QED  BY <3>1, <3>2, <3>3, SavesInv
  <2>2. CASE rec.state # "none"
    BY <1>1, <1>2, <2>2, MovesInv DEF Run
  <2>. QED  BY <2>1, <2>2
<1>3. ASSUME imported \/ empty, rec.fate # 0 => fate[rec.fate] \in {"success", "gone"},
             Saves([rec EXCEPT !.state = "IMPORT_VERIFIED"], "step"),
             UNCHANGED <<request, journal, outside, staging, late, faults>>
      PROVE  Inv'
  <2>1. [rec EXCEPT !.state = "IMPORT_VERIFIED"] \in Intents
    BY <1>1, Revised DEF States
  <2>2. PICK intent \in Intents : intent = [rec EXCEPT !.state = "IMPORT_VERIFIED"]
    BY <2>1, Zenon
  <2>3. intent.state = "IMPORT_VERIFIED" /\ intent.fate = rec.fate
    BY <1>1, <2>2 DEF Intents
  <2>4. Saves(intent, "step")
    BY <1>3, <2>2, Zenon
  <2>5. Truthful(intent)
    BY <1>3, <2>3 DEF Truthful, Early, Verified
  <2>. QED  BY <1>3, <2>3, <2>4, <2>5, SavesInv DEF Verified
<1>4. CASE NothingToImport
  BY <1>1, <1>3, <1>4 DEF NothingToImport, Inv, RunInv, Truthful, Early
<1>5. CASE CountAttempt
  BY <1>1, <1>5, SavesInv DEF CountAttempt, At, Verified
<1>6. CASE AwaitImport
  <2>1. CASE fate[rec.fate] = "success" /\ imported /\ UNCHANGED faults
             /\ Saves([rec EXCEPT !.state = "IMPORT_VERIFIED"], "step")
    BY <1>3, <1>6, <2>1 DEF AwaitImport
  <2>2. CASE pc' = "idle" /\ UNCHANGED <<next, after>> /\ faults' \in 0..MaxFaults
    BY <1>6, <2>2, MovesInv DEF AwaitImport
  <2>. QED  BY <1>1, <1>6, <2>1, <2>2, FaultBound DEF AwaitImport, Returns
<1>. QED  BY <1>2, <1>4, <1>5, <1>6

\* Calls that succeed and move on.
LEMMA AdvancesInv ==
    ASSUME Inv, FenceDestination \/ FreezeSource \/ SubmitBulkImport \/ CompleteFanIn \/ RetireSource
                \/ ActivateDestination
    PROVE  Inv'
<1>. USE DEF At, States, Early, Verified
<1>1. /\ rec \in Intents /\ Truthful(rec)
      /\ \A op \in {"fence", "freeze", "execute", "finish", "complete", "retire", "activate"} :
            \A id \in 0..MaxFates : [op |-> op, id |-> id] \in Calls
      /\ 0 \in 0..MaxFates
  BY PromotionAssumption DEF Inv, TypeOK, Calls
<1>2. CASE FenceDestination
  <2>1. Accounted([op |-> "fence", id |-> 0]) /\ rec.fate = 0 /\ ~rec.mapped
    BY <1>1, <1>2 DEF Accounted, FenceDestination, Truthful
  <2>. QED  BY <1>1, <1>2, <2>1, AdvanceInv DEF FenceDestination
<1>3. CASE FreezeSource
  <2>1. Accounted([op |-> "freeze", id |-> 0]) /\ rec.fate = 0 /\ ~rec.mapped
    BY <1>1, <1>3 DEF Accounted, FreezeSource, Truthful
  <2>. QED  BY <1>1, <1>3, <2>1, AdvanceInv DEF FreezeSource
<1>4. CASE SubmitBulkImport
  <2>1. rec.state = "FATE_ALLOCATED" /\ rec.fate # 0
    BY <1>1, <1>4 DEF SubmitBulkImport, Inv, RunInv, Truthful
  <2>2. PICK id \in 0..MaxFates : id = rec.fate
    BY <1>1 DEF Intents
  <2>3. Accounted([op |-> "execute", id |-> id])
    BY <2>1, <2>2 DEF Accounted
  <2>4. Calling("execute", id, [rec EXCEPT !.state = "IMPORT_SUBMITTED"])
    BY <1>4, <2>2, Zenon DEF SubmitBulkImport
  <2>. QED  BY <1>1, <2>1, <2>3, <2>4, AdvanceInv
<1>5. CASE CompleteFanIn
  <2>1. Accounted([op |-> "complete", id |-> 0])
    BY <1>1, <1>5 DEF Accounted, CompleteFanIn, Truthful
  <2>. QED  BY <1>1, <1>5, <2>1, AdvanceInv DEF CompleteFanIn
<1>6. CASE RetireSource
  <2>1. Accounted([op |-> "retire", id |-> 0])
    BY <1>1, <1>6 DEF Accounted, RetireSource, Truthful
  <2>. QED  BY <1>1, <1>6, <2>1, AdvanceInv DEF RetireSource
<1>7. CASE ActivateDestination
  <2>1. Accounted([op |-> "activate", id |-> 0])
    BY <1>1, <1>7 DEF Accounted, ActivateDestination, Truthful
  <2>. QED  BY <1>1, <1>7, <2>1, AdvanceInv DEF ActivateDestination
<1>. QED  BY <1>2, <1>3, <1>4, <1>5, <1>6, <1>7

\* A call without an answer takes effect.
LEMMA LateEffectInv ==
    ASSUME Inv, TakesEffectLate
    PROVE  Inv'
<1>1. PICK c \in late : TakesEffect(c) /\ late' = late \ {c}
                       /\ UNCHANGED <<request, journal, run, staging, faults>>
  BY DEF TakesEffectLate
<1>2. c \in Calls /\ Accounted(c) /\ late \subseteq Calls
  BY DEF Inv, TypeOK, LateInv
<1>3. UNCHANGED <<mode, empty, rec, tail, corrupt, next, pc, after, imported, dir, faults>>
  BY <1>1 DEF request, journal, run, staging
<1>4. /\ source' \in {"active", "frozen", "retired"}
      /\ fenced' \in BOOLEAN /\ activated' \in BOOLEAN /\ completed' \in BOOLEAN
      /\ fate' \in [FateIds -> {"none", "new", "running", "success", "failed", "gone"}]
      /\ \A i \in Intents : Truthful(i) => Truthful(i)'
      /\ \A d \in Calls : Accounted(d) => Accounted(d)'
      /\ FateInv' /\ GivenUpIsImported' /\ OneWriter' /\ TransactionKept' /\ StagedForImport'
  BY <1>1, <1>2, <1>3, EffectInv
<1>5. TypeOK'
  BY <1>1, <1>3, <1>4 DEF Inv, TypeOK
<1>6. Truthful(rec)' /\ SavingInv'
  BY <1>3, <1>4 DEF Inv, TypeOK, SavingInv
<1>7. RunInv' /\ LateInv'
  BY <1>1, <1>2, <1>3, <1>4 DEF Inv, RunInv, LateInv
<1>. QED  BY <1>4, <1>5, <1>6, <1>7 DEF Inv

----------------------------------------------------------------------------
(* Theorems.                                                               *)

\* A promotion starts in the inductive invariant and every step of a run, of the manager
\* and of a late call keeps it, whatever fails.
THEOREM Safety == Spec => []Inv
<1>1. Init => Inv
  <2>. SUFFICES ASSUME Init PROVE Inv
    OBVIOUS
  <2>1. TypeOK
    <3>1. rec \in Intents /\ next \in Intents /\ rec.state = "none" /\ 0 \in 0..MaxFaults
      BY PromotionAssumption, Unwritten DEF Init
    <3>2. fate \in [FateIds -> {"none", "new", "running", "success", "failed", "gone"}]
      BY DEF Init
    <3>3. mode \in {"cutover", "fan-in"} /\ empty \in BOOLEAN /\ tail \in BOOLEAN
          /\ corrupt \in BOOLEAN /\ fenced \in BOOLEAN /\ activated \in BOOLEAN
          /\ completed \in BOOLEAN /\ imported \in BOOLEAN
      BY DEF Init
    <3>. QED  BY <3>1, <3>2, <3>3 DEF Init, TypeOK
  <2>2. Truthful(rec) /\ SavingInv /\ RunInv /\ LateInv /\ FateInv
    BY DEF Init, NoIntent, Truthful, Early, Verified, SavingInv, RunInv, LateInv, FateInv
  <2>3. GivenUpIsImported /\ OneWriter /\ TransactionKept /\ StagedForImport
    BY DEF Init, NoIntent, GivenUpIsImported, OneWriter, TransactionKept, StagedForImport
  <2>. QED  BY <2>1, <2>2, <2>3 DEF Inv
<1>2. Inv /\ [Next]_vars => Inv'
  <2>. SUFFICES ASSUME Inv, [Next]_vars PROVE Inv'
    OBVIOUS
  <2>0. faults \in 0..MaxFaults
    BY DEF Inv, TypeOK
  <2>1. CASE UNCHANGED vars
    BY <2>1 DEF vars, request, journal, run, outside, staging, Inv, TypeOK, Truthful, SavingInv,
                RunInv, LateInv, Accounted, FateInv, GivenUpIsImported, OneWriter, TransactionKept,
                StagedForImport
  <2>2. CASE Return \/ Crash
    BY <2>0, <2>2, MovesInv, FaultBound DEF Return, Crash, Returns
  <2>3. CASE Step /\ ~Return
    BY <2>3, PreparesInv, AdvancesInv, StagingInv, FinishInv, AllocateInv, CleanupInv, SaveInv DEF Step
  <2>. QED  BY <2>1, <2>2, <2>3, LateEffectInv, ImportInv DEF Next, Step
<1>. QED  BY <1>1, <1>2, PTL DEF Spec

\* However often submissions fail, are repeated or arrive late, one transaction at most is
\* ever executed: the executed ones are all named by the journal.
THEOREM ImportedOnce == Spec => []OneTransaction
<1>1. Inv => OneTransaction
  <2>. SUFFICES ASSUME Inv PROVE OneTransaction
    OBVIOUS
  <2>1. {i \in FateIds : fate[i] \notin {"none", "new"}} \subseteq {rec.fate}
    BY DEF Inv, FateInv
  <2>2. IsFiniteSet({rec.fate}) /\ Cardinality({rec.fate}) = 1
    BY FS_Singleton
  <2>3. Cardinality({i \in FateIds : fate[i] \notin {"none", "new"}}) <= 1
    BY <2>1, <2>2, FS_Subset
  <2>. QED  BY <2>3 DEF OneTransaction
<1>. QED  BY <1>1, Safety, PTL

\* The source is retired, the destination opened or the fan-in declared done only when the
\* destination has the corpus.
THEOREM GivenUpImported == Spec => []GivenUpIsImported
<1>1. Inv => GivenUpIsImported
  BY DEF Inv
<1>. QED  BY <1>1, Safety, PTL

\* A transaction that runs finds the staged files and their load mapping.
THEOREM StagedWhileRunning == Spec => []StagedForImport
<1>1. Inv => StagedForImport
  BY DEF Inv
<1>. QED  BY <1>1, Safety, PTL

\* There are never two writers, and a fan-in moves no authority.
THEOREM AuthorityMovesOnce == Spec => []OneWriter
<1>1. Inv => OneWriter
  BY DEF Inv
<1>. QED  BY <1>1, Safety, PTL
=============================================================================
