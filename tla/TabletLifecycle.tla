-------------------------- MODULE TabletLifecycle --------------------------
(***************************************************************************)
(* How one tablet is loaded and unloaded inside a tablet server process:   *)
(* the manager's requests (tserverrpc.Adapter), the goroutines they start, *)
(* the Host that fences them, the Store that publishes open tablets        *)
(* (tserverprocess.Store), the metadata row that Open claims and Close     *)
(* releases, the reports back to the manager, and the ServiceLock          *)
(* generations the supervisor adopts one after the other.                  *)
(*                                                                         *)
(* A goroutine is a phase per assignment attempt; a step is one critical   *)
(* section of Adapter.mu or Store.mu, or one write of the row.  Host calls *)
(* are made under Adapter.mu and belong to those steps.  Hosting has the   *)
(* Host in full; here it is the entry of this one tablet.                  *)
(***************************************************************************)
EXTENDS Integers

CONSTANTS MaxAttempts, MaxGenerations,  \* bounds
          Faults, MaxFaults             \* fault classes, and how many happen

FaultClasses == {"claim", "open", "close", "fence", "goal", "shutdown"}

ASSUME LifecycleAssumption ==
    /\ MaxAttempts \in Nat \ {0} /\ MaxGenerations \in Nat \ {0}
    /\ Faults \subseteq FaultClasses /\ MaxFaults \in Nat

VARIABLES
    held, newest,        \* lock generation held (0: none) and the last one adopted
    host,                \* the Host's entry: state and attempt
    attempts,            \* attempts minted so far
    op,                  \* Adapter.operations for this extent
    closed,              \* Adapter.closed
    loads,               \* attempt -> phase and cancelled context of its runLoad
    unload, drop,        \* runUnload, and ReleaseDropped after a lock loss
    loading, published,  \* the Store's loading token and published tablet
    tab,                 \* attempt -> its Tablet object
    location, future,    \* the row: generation of the current location, future location
    reported,            \* the last report in the reporter's queue, which keeps order, is LOADED
    mishaps,             \* what has happened that the properties name
    faults

hostVars == <<held, newest, host, attempts>>
storeVars == <<loading, published, tab>>
rowVars == <<location, future>>
workVars == <<loads, unload, drop>>
ghostVars == <<mishaps, faults>>
vars == <<hostVars, op, closed, workVars, storeVars, rowVars, reported, ghostVars>>

Other == -1    \* the location of some other server
Attempts == 1..MaxAttempts
NoOp == [kind |-> "none", attempt |-> 0]
Released == [state |-> "UNASSIGNED", attempt |-> 0]
Idle == [phase |-> "off", attempt |-> 0, tablet |-> 0, cancelled |-> FALSE]
LoadPhases == {"off", "start", "claim", "recover", "opened", "failed", "discard",
               "loaded", "error", "canceled", "done"}
Answers == {"unloaded", "notServing", "unloadError"}

\* Types; an extent is tracked exactly while it has an attempt, and a row never has a
\* future and a current location (the claim replaces the one by the other).
TypeOK ==
    /\ held \in 0..MaxGenerations /\ newest \in held..MaxGenerations
    /\ host \in [state : {"UNASSIGNED", "LOADING", "HOSTED", "UNLOADING"}, attempt : 0..MaxAttempts]
    /\ host.state = "UNASSIGNED" <=> host.attempt = 0
    /\ attempts \in host.attempt..MaxAttempts
    /\ op \in [kind : {"none", "load", "unload"}, attempt : 0..MaxAttempts] /\ closed \in BOOLEAN
    /\ loads \in [Attempts -> [phase : LoadPhases, cancelled : BOOLEAN]]
    /\ unload \in [phase : {"off", "lookup", "close", "delete"} \cup Answers, attempt : 0..MaxAttempts,
                   tablet : 0..MaxAttempts, cancelled : BOOLEAN]
    /\ drop \in [phase : {"off", "cancel", "lookup", "close", "delete"}, tablet : 0..MaxAttempts]
    /\ loading \in 0..MaxAttempts /\ published \in 0..MaxAttempts
    /\ tab \in [Attempts -> {"none", "open", "closed"}]
    /\ location \in (0..MaxGenerations) \cup {Other} /\ future \in BOOLEAN
    /\ future => location = 0
    /\ reported \in BOOLEAN
    /\ mishaps \subseteq {"staleLoad", "staleUnload", "refused", "leftover"} /\ faults \in 0..MaxFaults

Init ==
    /\ held = 0 /\ newest = 0 /\ host = Released /\ attempts = 0
    /\ op = NoOp /\ closed = FALSE
    /\ loads = [a \in Attempts |-> [phase |-> "off", cancelled |-> FALSE]]
    /\ unload = Idle /\ drop = [phase |-> "off", tablet |-> 0]
    /\ loading = 0 /\ published = 0 /\ tab = [a \in Attempts |-> "none"]
    /\ location = 0 /\ future = FALSE
    /\ reported = FALSE
    /\ mishaps = {} /\ faults = 0

Fault(class) == class \in Faults /\ faults < MaxFaults /\ faults' = faults + 1

----------------------------------------------------------------------------
(* The row, as metadatacas.Authority writes it.  The lock it names is the  *)
(* one the Host holds at the moment of the write (lockID).                 *)

OwnsRow == held # 0 /\ location = held

Releasable == OwnsRow \/ (location = 0 /\ ~future)

\* Release: another owner's location, or a row with a future location, is left alone.
ReleaseRow == location' = IF OwnsRow THEN 0 ELSE location

\* Tablet.Close: nothing more once closed, else the final flush, then the release.
CloseOk(t) ==
    \/ tab[t] = "closed" /\ UNCHANGED <<tab, location>>
    \/ /\ tab[t] = "open" /\ Releasable
       /\ ReleaseRow
       /\ tab' = [tab EXCEPT ![t] = "closed"]

CloseFails(t, cancelled) ==
    /\ tab[t] = "open"
    /\ \/ (cancelled \/ ~Releasable) /\ UNCHANGED faults
       \/ ~cancelled /\ Releasable /\ Fault("close")
    /\ UNCHANGED <<tab, location>>

----------------------------------------------------------------------------
(* Lock generations: Participate and the supervisor's loop.                *)

AdoptLock ==
    /\ held = 0 /\ newest < MaxGenerations /\ drop.phase = "off" /\ ~closed
    /\ newest' = newest + 1 /\ held' = newest + 1
    /\ UNCHANGED <<host, attempts, op, closed, workVars, storeVars, rowVars, reported, ghostVars>>

LoseLockAsKept ==
    /\ held # 0
    /\ held' = 0
    /\ drop' = [drop EXCEPT !.phase = IF host = Released THEN "off" ELSE "cancel"]
    /\ UNCHANGED <<newest, host, attempts, op, closed, loads, unload, storeVars, rowVars, reported, ghostVars>>

LoseLock ==
    /\ held # 0
    /\ held' = 0 /\ host' = Released
    /\ drop' = [drop EXCEPT !.phase = IF host = Released THEN "off" ELSE "cancel"]
    /\ UNCHANGED <<newest, attempts, op, closed, loads, unload, storeVars, rowVars, reported, ghostVars>>

CancelLoad(a) == [loads EXCEPT ![a].cancelled = TRUE]

\* The context of the operation under the key is cancelled and the operation forgotten.
CancelOp ==
    /\ op' = NoOp
    /\ loads' = IF op.kind = "load" THEN CancelLoad(op.attempt) ELSE loads
    /\ unload' = IF op.kind = "unload" THEN [unload EXCEPT !.cancelled = TRUE] ELSE unload

DropCancelAsIgnored ==
    /\ drop.phase = "cancel"
    /\ drop' = [drop EXCEPT !.phase = "lookup"]
    /\ UNCHANGED <<hostVars, op, loads, unload, closed, storeVars, rowVars, reported, ghostVars>>

\* ReleaseDropped, and in it Store.unload.
DropCancel ==
    /\ drop.phase = "cancel"
    /\ CancelOp /\ drop' = [drop EXCEPT !.phase = "lookup"]
    /\ UNCHANGED <<hostVars, closed, storeVars, rowVars, reported, ghostVars>>

DropLookup ==
    /\ drop.phase = "lookup"
    /\ loading' = 0
    /\ drop' = [phase |-> IF published = 0 THEN "off" ELSE "close", tablet |-> published]
    /\ UNCHANGED <<hostVars, op, closed, loads, unload, published, tab, rowVars, reported, ghostVars>>

DropClose ==
    /\ drop.phase = "close"
    /\ \/ /\ CloseOk(drop.tablet) /\ drop' = [drop EXCEPT !.phase = "delete"] /\ UNCHANGED faults
          /\ UNCHANGED mishaps
       \/ /\ CloseFails(drop.tablet, FALSE) /\ drop' = [drop EXCEPT !.phase = "off"]
          /\ mishaps' = mishaps \cup {"leftover"}
    /\ UNCHANGED <<hostVars, op, closed, loads, unload, loading, published, future, reported>>

DropDelete ==
    /\ drop.phase = "delete"
    /\ published' = 0 /\ drop' = [drop EXCEPT !.phase = "off"]
    /\ UNCHANGED <<hostVars, op, closed, loads, unload, loading, tab, rowVars, reported, ghostVars>>

----------------------------------------------------------------------------
(* The manager, and the other servers.                                     *)

ManagerAssigns ==
    /\ location = 0 /\ ~future /\ held # 0
    /\ future' = TRUE
    /\ UNCHANGED <<hostVars, op, closed, workVars, storeVars, location, reported, ghostVars>>

\* A location of a generation that is over is cleared, a future location withdrawn.
ManagerRecovers ==
    /\ location \notin {0, Other, held} \/ (future /\ held = 0)
    /\ location' = 0 /\ future' = FALSE
    /\ UNCHANGED <<hostVars, op, closed, workVars, storeVars, reported, ghostVars>>

MovesAway ==
    /\ location = 0 /\ ~future
    /\ location' = Other
    /\ UNCHANGED <<hostVars, op, closed, workVars, storeVars, future, reported, ghostVars>>

MovesBack ==
    /\ location = Other
    /\ location' = 0
    /\ UNCHANGED <<hostVars, op, closed, workVars, storeVars, future, reported, ghostVars>>

----------------------------------------------------------------------------
(* LoadTablet and runLoad.                                                 *)

\* Goroutines of an earlier attempt that are still at work.
Stale == (IF \E a \in Attempts : loads[a].phase \notin {"off", "done"} THEN {"staleLoad"} ELSE {})
            \cup (IF unload.phase # "off" THEN {"staleUnload"} ELSE {})

\* Assign accepts a tablet that is not tracked; for one that is, nothing changes.  When
\* the lock or the manager changed since the request was validated, Assign refuses, and
\* a failure is reported whatever the tablet's state.
LoadTablet ==
    /\ held # 0 /\ ~closed
    /\ \/ /\ host = Released /\ attempts < MaxAttempts
          /\ attempts' = attempts + 1
          /\ host' = [state |-> "LOADING", attempt |-> attempts + 1]
          /\ op' = [kind |-> "load", attempt |-> attempts + 1]
          /\ loads' = [loads EXCEPT ![attempts + 1] = [phase |-> "start", cancelled |-> FALSE]]
          /\ mishaps' = mishaps \cup Stale
          /\ UNCHANGED <<reported, faults>>
       \/ /\ Fault("fence")
          /\ reported' = FALSE /\ mishaps' = mishaps \cup {"refused"}
          /\ UNCHANGED <<attempts, host, op, loads>>
    /\ UNCHANGED <<held, newest, closed, unload, drop, storeVars, rowVars>>

Goes(a, phase) == loads' = [loads EXCEPT ![a].phase = phase]

\* Store.load takes its token when the goroutine gets to run, not when it was started.
LoadStart(a) ==
    /\ loads[a].phase = "start"
    /\ loading' = a /\ Goes(a, "claim")
    /\ UNCHANGED <<hostVars, op, closed, unload, drop, published, tab, rowVars, reported, ghostVars>>

LoadClaimAsKept(a) ==
    /\ loads[a].phase = "claim"
    /\ \/ /\ held # 0 /\ (OwnsRow \/ (future /\ location = 0))
          /\ location' = held /\ Goes(a, "recover") /\ UNCHANGED <<future, faults>>
       \/ /\ held = 0 \/ ~(OwnsRow \/ future) \/ loads[a].cancelled
          /\ Goes(a, "failed") /\ UNCHANGED <<location, future, faults>>
    /\ UNCHANGED <<hostVars, op, closed, unload, drop, storeVars, reported, mishaps>>

\* The specification is loaded and Factory.Open claims the row; a claim whose answer
\* and reread are lost counts as failed.
LoadClaim(a) ==
    /\ loads[a].phase = "claim"
    /\ \/ /\ held # 0 /\ (OwnsRow \/ (future /\ location = 0))
          /\ location' = held /\ future' = FALSE
          /\ \/ Goes(a, "recover") /\ UNCHANGED faults
             \/ Goes(a, "failed") /\ Fault("claim")
       \/ /\ held = 0 \/ ~(OwnsRow \/ future) \/ loads[a].cancelled
          /\ Goes(a, "failed") /\ UNCHANGED <<location, future, faults>>
    /\ UNCHANGED <<hostVars, op, closed, unload, drop, storeVars, reported, mishaps>>

\* The WAL is recovered; an Open that fails from here on releases the row.
LoadRecover(a) ==
    /\ loads[a].phase = "recover"
    /\ \/ /\ OwnsRow
          /\ tab' = [tab EXCEPT ![a] = "open"] /\ Goes(a, "opened")
          /\ UNCHANGED <<location, faults>>
       \/ /\ \/ (loads[a].cancelled \/ ~OwnsRow) /\ UNCHANGED faults
             \/ ~loads[a].cancelled /\ OwnsRow /\ Fault("open")
          /\ ReleaseRow /\ Goes(a, "failed") /\ UNCHANGED tab
    /\ UNCHANGED <<hostVars, op, closed, unload, drop, loading, published, future, reported, mishaps>>

LoadFinishAsUncancelled(a) ==
    /\ loads[a].phase \in {"opened", "failed"}
    /\ IF loading # a
       THEN /\ Goes(a, IF loads[a].phase = "opened" THEN "discard" ELSE "canceled")
            /\ UNCHANGED <<loading, published>>
       ELSE /\ loading' = 0
            /\ IF loads[a].phase = "failed" THEN Goes(a, "error") /\ UNCHANGED published
               ELSE Goes(a, "loaded") /\ published' = a
    /\ UNCHANGED <<hostVars, op, closed, unload, drop, tab, rowVars, reported, ghostVars>>

\* The last section of Store.load: only the newest token, and only a load that was not
\* cancelled, publishes its tablet.
LoadFinish(a) ==
    /\ loads[a].phase \in {"opened", "failed"}
    /\ IF loading # a
       THEN /\ Goes(a, IF loads[a].phase = "opened" THEN "discard" ELSE "canceled")
            /\ UNCHANGED <<loading, published>>
       ELSE /\ loading' = 0
            /\ IF loads[a].phase = "failed" THEN Goes(a, "error") /\ UNCHANGED published
               ELSE IF loads[a].cancelled THEN Goes(a, "discard") /\ UNCHANGED published
               ELSE Goes(a, "loaded") /\ published' = a
    /\ UNCHANGED <<hostVars, op, closed, unload, drop, tab, rowVars, reported, ghostVars>>

\* closeTablet, which ignores what Close answers.
LoadDiscard(a) ==
    /\ loads[a].phase = "discard"
    /\ \/ CloseOk(a) /\ UNCHANGED faults
       \/ CloseFails(a, FALSE)
    /\ Goes(a, "canceled")
    /\ UNCHANGED <<hostVars, op, closed, unload, drop, loading, published, future, reported, mishaps>>

IsOp(kind, a) == op = [kind |-> kind, attempt |-> a]

LoadAnswerAsUnmatched(a) ==
    /\ loads[a].phase \in {"loaded", "error", "canceled"}
    /\ loads' = [loads EXCEPT ![a] = [phase |-> "done", cancelled |-> FALSE]]
    /\ IF op.kind # "load" THEN UNCHANGED <<host, op, reported>>
       ELSE /\ op' = NoOp
            /\ IF loads[a].phase = "canceled" \/ host.state # "LOADING" THEN UNCHANGED <<host, reported>>
               ELSE /\ host' = IF loads[a].phase = "loaded" THEN [host EXCEPT !.state = "HOSTED"] ELSE Released
                    /\ reported' = (loads[a].phase = "loaded")
    /\ UNCHANGED <<held, newest, attempts, closed, unload, drop, storeVars, rowVars, ghostVars>>

LoadAnswerAsSilent(a) ==
    /\ loads[a].phase \in {"loaded", "error", "canceled"}
    /\ loads' = [loads EXCEPT ![a] = [phase |-> "done", cancelled |-> FALSE]]
    /\ IF ~IsOp("load", a) THEN UNCHANGED <<host, op, reported>>
       ELSE /\ op' = NoOp
            /\ IF loads[a].phase = "loaded" /\ host = [state |-> "LOADING", attempt |-> a]
               THEN host' = [host EXCEPT !.state = "HOSTED"] /\ reported' = TRUE
               ELSE UNCHANGED <<host, reported>>
    /\ UNCHANGED <<held, newest, attempts, closed, unload, drop, storeVars, rowVars, ghostVars>>

\* runLoad's section: a load that is no longer the operation of its key says nothing,
\* and neither does one that was cancelled.
LoadAnswer(a) ==
    /\ loads[a].phase \in {"loaded", "error", "canceled"}
    /\ loads' = [loads EXCEPT ![a] = [phase |-> "done", cancelled |-> FALSE]]
    /\ IF ~IsOp("load", a) THEN UNCHANGED <<host, op, reported>>
       ELSE /\ op' = NoOp
            /\ IF loads[a].phase = "canceled" \/ host # [state |-> "LOADING", attempt |-> a]
               THEN UNCHANGED <<host, reported>>
               ELSE /\ host' = IF loads[a].phase = "loaded" THEN [host EXCEPT !.state = "HOSTED"] ELSE Released
                    /\ reported' = (loads[a].phase = "loaded")
    /\ UNCHANGED <<held, newest, attempts, closed, unload, drop, storeVars, rowVars, ghostVars>>

----------------------------------------------------------------------------
(* UnloadTablet and runUnload.                                             *)

UnloadStarts ==
    /\ host' = [host EXCEPT !.state = "UNLOADING"]
    /\ op' = [kind |-> "unload", attempt |-> host.attempt]
    /\ unload' = [phase |-> "lookup", attempt |-> host.attempt, tablet |-> 0, cancelled |-> FALSE]

\* A load under way is cancelled and forgotten before the Host is asked; when the Host
\* refuses, because the lock or the manager changed since the request was validated,
\* the load stays cancelled.
UnloadTablet ==
    /\ held # 0 /\ ~closed /\ host # Released /\ op.kind # "unload" /\ unload.phase = "off"
    /\ loads' = IF op.kind = "load" THEN CancelLoad(op.attempt) ELSE loads
    /\ \/ UnloadStarts /\ UNCHANGED ghostVars
       \/ /\ op.kind = "load" /\ Fault("fence")
          /\ op' = NoOp /\ mishaps' = mishaps \cup {"refused"}
          /\ UNCHANGED <<host, unload>>
    /\ UNCHANGED <<held, newest, attempts, closed, drop, storeVars, rowVars, reported>>

Unloads(phase) == unload' = [unload EXCEPT !.phase = phase]

\* Store.unload; the only goal it supports is to unassign.
UnloadLookup ==
    /\ unload.phase = "lookup"
    /\ \/ /\ loading' = 0
          /\ unload' = [unload EXCEPT !.phase = IF published = 0 THEN "notServing" ELSE "close",
                                      !.tablet = published]
          /\ UNCHANGED faults
       \/ Fault("goal") /\ Unloads("unloadError") /\ UNCHANGED loading
    /\ UNCHANGED <<hostVars, op, closed, loads, drop, published, tab, rowVars, reported, mishaps>>

UnloadClose ==
    /\ unload.phase = "close"
    /\ \/ CloseOk(unload.tablet) /\ Unloads("delete") /\ UNCHANGED faults
       \/ CloseFails(unload.tablet, unload.cancelled) /\ Unloads("unloadError")
    /\ UNCHANGED <<hostVars, op, closed, loads, drop, loading, published, future, reported, mishaps>>

\* Whatever is published under the key goes.
UnloadDelete ==
    /\ unload.phase = "delete"
    /\ published' = 0 /\ Unloads("unloaded")
    /\ UNCHANGED <<hostVars, op, closed, loads, drop, loading, tab, rowVars, reported, ghostVars>>

UnloadAnswerAsStrict ==
    /\ unload.phase \in Answers
    /\ unload' = Idle
    /\ IF ~IsOp("unload", unload.attempt) THEN UNCHANGED <<host, op, reported>>
       ELSE /\ op' = NoOp /\ reported' = FALSE
            /\ host' = IF unload.phase = "unloaded" THEN Released ELSE host
    /\ UNCHANGED <<held, newest, attempts, closed, loads, drop, storeVars, rowVars, ghostVars>>

\* runUnload's section; after an error the tablet stays UNLOADING and the manager may
\* ask again.
UnloadAnswer ==
    /\ unload.phase \in Answers
    /\ unload' = Idle
    /\ IF ~IsOp("unload", unload.attempt) THEN UNCHANGED <<host, op, reported>>
       ELSE /\ op' = NoOp
            /\ IF unload.phase = "unloadError" THEN reported' = FALSE /\ UNCHANGED host
               ELSE IF host = [state |-> "UNLOADING", attempt |-> unload.attempt]
               THEN reported' = FALSE /\ host' = Released
               ELSE UNCHANGED <<host, reported>>
    /\ UNCHANGED <<held, newest, attempts, closed, loads, drop, storeVars, rowVars, ghostVars>>

----------------------------------------------------------------------------
(* The adapter's shutdown.                                                 *)

Close ==
    /\ ~closed /\ Fault("shutdown")
    /\ closed' = TRUE
    /\ CancelOp
    /\ UNCHANGED <<hostVars, drop, storeVars, rowVars, reported, mishaps>>

LoadNext(a) == LoadStart(a) \/ LoadClaim(a) \/ LoadRecover(a) \/ LoadFinish(a) \/ LoadDiscard(a) \/ LoadAnswer(a)
UnloadNext == UnloadLookup \/ UnloadClose \/ UnloadDelete \/ UnloadAnswer
DropNext == DropCancel \/ DropLookup \/ DropClose \/ DropDelete

Next ==
    \/ AdoptLock \/ LoseLock \/ DropNext
    \/ ManagerAssigns \/ ManagerRecovers \/ MovesAway \/ MovesBack
    \/ LoadTablet \/ UnloadTablet \/ Close
    \/ \E a \in Attempts : LoadNext(a)
    \/ UnloadNext

\* The goroutines run; nothing is assumed of the manager or the lock.
Fairness ==
    /\ \A a \in Attempts : WF_vars(LoadNext(a))
    /\ WF_vars(UnloadNext) /\ WF_vars(DropNext)

Spec == Init /\ [][Next]_vars
FairSpec == Spec /\ Fairness

----------------------------------------------------------------------------
(* Properties.                                                             *)

Quiet == drop.phase = "off" /\ ~closed

\* The operation the adapter tracks is the one the Host is waiting for: no completion
\* can be applied to another attempt, and no cancel can hit one.
OperationIsHosts ==
    held # 0 /\ op # NoOp =>
        host = [state |-> IF op.kind = "load" THEN "LOADING" ELSE "UNLOADING", attempt |-> op.attempt]

\* A tablet the Host serves is the one the Store exposes to scans and writes, it is
\* open, and the last report to the manager says so, however many loads of the tablet
\* overlapped.  The exceptions are an unload of a lost generation that is still at work,
\* and for the report a load request that was refused.
ServedIsExposed ==
    host.state = "HOSTED" /\ "staleUnload" \notin mishaps =>
        /\ published = host.attempt /\ tab[host.attempt] = "open"
        /\ reported \/ "refused" \in mishaps

\* While the lock is held the Store exposes only the tablet of the attempt the Host
\* tracks: no load publishes after it was cancelled or superseded, whatever token it
\* finds, and an unload leaves nothing.  The exception is a tablet that could not be
\* closed when an earlier generation ended.
ExposedIsTracked ==
    held # 0 /\ published # 0 /\ "leftover" \notin mishaps => host.attempt = published

\* A tablet the Host serves has its location in the metadata row, so nobody else may
\* claim it, unless its attempt began while an earlier one was still at work.
ServedOwnsRow ==
    host.state = "HOSTED" /\ mishaps \cap {"staleLoad", "staleUnload"} = {} => OwnsRow

\* The same without the exception.
HostedOwnsRow == host.state = "HOSTED" => OwnsRow

\* Store.LocateTable exposes only hosted tablets: once a lost lock is cleaned up, nothing
\* is exposed that the Host does not track.
DroppedNotExposed == held = 0 /\ Quiet => published = 0

\* A load is always decided, unless its cancellation was never followed by an unload.
LoadSettles ==
    (host.state = "LOADING" /\ mishaps = {}) ~> (host.state # "LOADING" \/ mishaps # {} \/ closed)

\* A drain that meets no failure ends, and the tablet is given back.
UnloadSettles ==
    (host.state = "UNLOADING" /\ faults = 0 /\ mishaps = {})
        ~> (host.state # "UNLOADING" \/ faults > 0 \/ mishaps # {})
=============================================================================
