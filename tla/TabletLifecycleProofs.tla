----------------------- MODULE TabletLifecycleProofs -----------------------
(***************************************************************************)
(* What the load and unload goroutines of a tablet promise, proved for any *)
(* number of assignments, lock generations and faults.                     *)
(*                                                                         *)
(* The argument rests on the operations map of the adapter: a load that is *)
(* at work and was not cancelled is the operation of its key (LoadsInv),   *)
(* and while the lock is held that operation is the one the Host waits for *)
(* (LockInv).  So only the attempt the Host tracks can publish a tablet,   *)
(* and what an older goroutine can still do to the tablet or its row is    *)
(* what the mishaps record.                                                *)
(***************************************************************************)
EXTENDS TabletLifecycle, TLAPS

Active(a) == loads[a].phase \notin {"off", "done"}
Tracks(state) == host.state = state
Finished(t) == t \in Attempts /\ loads[t].phase \in {"loaded", "done"}

\* Without the lock nothing is tracked, and what the adapter still has as an operation is
\* cancelled before another generation may begin.
LockInv ==
    /\ held = 0 => host = Released /\ (op # NoOp => drop.phase = "cancel")
    /\ drop.phase # "off" => held = 0
    /\ OperationIsHosts

\* A load at work that was not cancelled is the operation of its key, and the other way
\* round; an opened tablet is nobody else's to close.
LoadsInv ==
    /\ op.kind = "none" => op = NoOp
    /\ op.kind = "load" => op.attempt \in Attempts /\ Active(op.attempt)
    /\ \A a \in Attempts :
         /\ loads[a].phase # "off" => a <= attempts
         /\ Active(a) => (~loads[a].cancelled <=> IsOp("load", a))
         /\ loads[a].phase = "opened" => tab[a] = "open"

\* While an unload is the operation nothing is published, so what it did stays done.
UnloadInv ==
    /\ op.kind = "unload" => /\ unload.phase # "off" /\ unload.attempt = op.attempt
                             /\ unload.phase \in {"unloaded", "notServing"} => published = 0
    /\ unload.phase \in {"close", "delete"} => Finished(unload.tablet)
    /\ drop.phase \in {"close", "delete"} => Finished(drop.tablet)

\* What is published was loaded, and the end of a generation leaves nothing but what it
\* could not close.
PublishedInv ==
    /\ published # 0 => Finished(published)
    /\ held = 0 /\ drop.phase = "off" /\ "leftover" \notin mishaps => published = 0
    /\ ExposedIsTracked

\* An attempt on its way to be served: who else is at work is on record, and what it has
\* done so far is still there.
ServedInv ==
    /\ Tracks("LOADING") \/ Tracks("HOSTED") =>
         /\ unload.phase # "off" => "staleUnload" \in mishaps
         /\ \A b \in Attempts \ {host.attempt} : Active(b) => "staleLoad" \in mishaps
    /\ Tracks("LOADING") /\ IsOp("load", host.attempt) /\ loads[host.attempt].phase = "loaded"
         /\ "staleUnload" \notin mishaps => published = host.attempt /\ tab[host.attempt] = "open"
    /\ Tracks("LOADING") /\ loads[host.attempt].phase \in {"opened", "loaded"}
         /\ mishaps \cap {"staleLoad", "staleUnload"} = {} => OwnsRow
    /\ Tracks("HOSTED") => ~Active(host.attempt)
    /\ ServedIsExposed /\ ServedOwnsRow

Inv == TypeOK /\ LockInv /\ LoadsInv /\ UnloadInv /\ PublishedInv /\ ServedInv

Loads == [phase : LoadPhases, cancelled : BOOLEAN]
Ops == [kind : {"none", "load", "unload"}, attempt : 0..MaxAttempts]
Hosts == [state : {"UNASSIGNED", "LOADING", "HOSTED", "UNLOADING"}, attempt : 0..MaxAttempts]
Unloading == [phase : {"off", "lookup", "close", "delete"} \cup Answers, attempt : 0..MaxAttempts,
              tablet : 0..MaxAttempts, cancelled : BOOLEAN]
Drops == [phase : {"off", "cancel", "lookup", "close", "delete"}, tablet : 0..MaxAttempts]

----------------------------------------------------------------------------
(* Records, by their fields.                                               *)

\* The constants the code compares with are of their types.
LEMMA Constants ==
    /\ NoOp \in Ops /\ NoOp.kind = "none" /\ NoOp.attempt = 0
    /\ Released \in Hosts /\ Released.state = "UNASSIGNED" /\ Released.attempt = 0
    /\ Idle \in Unloading /\ Idle.phase = "off" /\ Idle.attempt = 0 /\ Idle.tablet = 0
    /\ 0 \in 0..MaxAttempts /\ 0 \in 0..MaxFaults /\ \A a \in Attempts : a \in 0..MaxAttempts /\ a # 0
<1>1. /\ 0 \in 0..MaxAttempts /\ 0 \in 0..MaxFaults /\ \A a \in Attempts : a \in 0..MaxAttempts /\ a # 0
  BY LifecycleAssumption DEF Attempts
<1>. QED  BY <1>1 DEF NoOp, Ops, Released, Hosts, Idle, Unloading, Answers

\* An operation, or the Host's entry, is told by its two fields.
LEMMA Fields ==
    /\ \A o \in Ops, k \in {"none", "load", "unload"}, a \in 0..MaxAttempts :
          /\ [kind |-> k, attempt |-> a] \in Ops
          /\ o = [kind |-> k, attempt |-> a] <=> o.kind = k /\ o.attempt = a
    /\ \A h \in Hosts, s \in {"UNASSIGNED", "LOADING", "HOSTED", "UNLOADING"}, a \in 0..MaxAttempts :
          /\ [state |-> s, attempt |-> a] \in Hosts
          /\ h = [state |-> s, attempt |-> a] <=> h.state = s /\ h.attempt = a
BY DEF Ops, Hosts

\* The state by its fields.
LEMMA Typed ==
    ASSUME TypeOK
    PROVE  /\ host \in Hosts /\ op \in Ops /\ unload \in Unloading /\ drop \in Drops
           /\ loads \in [Attempts -> Loads] /\ \A a \in Attempts : loads[a] \in Loads
           /\ faults \in 0..MaxFaults /\ \A class : Fault(class) => faults' \in 0..MaxFaults
           /\ host = Released <=> host.attempt = 0
           /\ \A k \in {"load", "unload"}, a \in 0..MaxAttempts : IsOp(k, a) <=> op.kind = k /\ op.attempt = a
<1>1. /\ host \in Hosts /\ op \in Ops /\ unload \in Unloading /\ drop \in Drops
      /\ loads \in [Attempts -> Loads] /\ \A a \in Attempts : loads[a] \in Loads
  <2>1. host \in Hosts /\ op \in Ops
    BY DEF TypeOK, Hosts, Ops
  <2>2. unload \in Unloading /\ drop \in Drops
    BY DEF TypeOK, Unloading, Drops
  <2>3. loads \in [Attempts -> Loads]
    BY DEF TypeOK, Loads
  <2>. QED  BY <2>1, <2>2, <2>3
<1>2. faults \in 0..MaxFaults /\ \A class : Fault(class) => faults' \in 0..MaxFaults
  BY LifecycleAssumption DEF TypeOK, Fault
<1>3. host = Released <=> host.attempt = 0
  <2>1. host.state = "UNASSIGNED" <=> host.attempt = 0
    BY DEF TypeOK
  <2>. QED  BY <1>1, <2>1, Fields, Constants DEF Released
<1>4. \A k \in {"load", "unload"}, a \in 0..MaxAttempts : IsOp(k, a) <=> op.kind = k /\ op.attempt = a
  <2>. SUFFICES ASSUME NEW k \in {"load", "unload"}, NEW a \in 0..MaxAttempts
                PROVE  IsOp(k, a) <=> op.kind = k /\ op.attempt = a
    OBVIOUS
  <2>. QED  BY <1>1 DEF IsOp, Ops
<1>. QED  BY <1>1, <1>2, <1>3, <1>4

\* Types, by the names above.
LEMMA TypesHold ==
    ASSUME held' \in 0..MaxGenerations, newest' \in held'..MaxGenerations, host' \in Hosts,
           host'.state = "UNASSIGNED" <=> host'.attempt = 0, attempts' \in host'.attempt..MaxAttempts,
           op' \in Ops, closed' \in BOOLEAN, loads' \in [Attempts -> Loads], unload' \in Unloading, drop' \in Drops,
           loading' \in 0..MaxAttempts, published' \in 0..MaxAttempts,
           tab' \in [Attempts -> {"none", "open", "closed"}],
           location' \in (0..MaxGenerations) \cup {Other}, future' \in BOOLEAN, future' => location' = 0,
           reported' \in BOOLEAN, mishaps' \subseteq {"staleLoad", "staleUnload", "refused", "leftover"},
           faults' \in 0..MaxFaults
    PROVE  TypeOK'
BY DEF TypeOK, Hosts, Ops, Loads, Unloading, Drops

\* The types of what a step leaves alone.
LEMMA Untouched ==
    ASSUME TypeOK
    PROVE  /\ held \in 0..MaxGenerations /\ newest \in held..MaxGenerations
           /\ host.state = "UNASSIGNED" <=> host.attempt = 0
           /\ attempts \in host.attempt..MaxAttempts /\ closed \in BOOLEAN
           /\ loading \in 0..MaxAttempts /\ published \in 0..MaxAttempts
           /\ tab \in [Attempts -> {"none", "open", "closed"}]
           /\ location \in (0..MaxGenerations) \cup {Other} /\ future \in BOOLEAN
           /\ future => location = 0
           /\ reported \in BOOLEAN /\ mishaps \subseteq {"staleLoad", "staleUnload", "refused", "leftover"}
BY DEF TypeOK

----------------------------------------------------------------------------
(* Lock generations, the manager and the other servers.                    *)

\* A new generation begins with nothing tracked.
LEMMA AdoptInv ==
    ASSUME Inv, AdoptLock
    PROVE  Inv'
<1>1. /\ held = 0 /\ held' # 0 /\ held' \in 0..MaxGenerations /\ newest' \in held'..MaxGenerations
      /\ host = Released /\ op = NoOp /\ drop.phase = "off"
      /\ UNCHANGED <<host, attempts, op, closed, loads, unload, drop, loading, published, tab, location, future,
                     reported, mishaps, faults>>
  BY LifecycleAssumption DEF Inv, TypeOK, LockInv, AdoptLock, workVars, storeVars, rowVars, ghostVars
<1>2. TypeOK'
  BY <1>1 DEF Inv, TypeOK
<1>3. host.state = "UNASSIGNED" /\ host.attempt = 0
  BY <1>1, Constants
<1>4. LockInv' /\ LoadsInv' /\ UnloadInv'
  BY <1>1 DEF Inv, LockInv, LoadsInv, UnloadInv, OperationIsHosts, Active, Finished, IsOp
<1>5. PublishedInv'
  BY <1>1 DEF Inv, PublishedInv, ExposedIsTracked, Finished
<1>6. ServedInv'
  BY <1>1, <1>3 DEF ServedInv, Tracks, ServedIsExposed, ServedOwnsRow
<1>. QED  BY <1>2, <1>4, <1>5, <1>6 DEF Inv

\* A row the server owns is not touched by others.
LEMMA RowInv ==
    ASSUME Inv, ManagerAssigns \/ ManagerRecovers \/ MovesAway \/ MovesBack
    PROVE  Inv'
<1>1. UNCHANGED <<held, newest, host, attempts, op, closed, loads, unload, drop, loading, published, tab,
                  reported, mishaps, faults>>
  BY DEF ManagerAssigns, ManagerRecovers, MovesAway, MovesBack, hostVars, workVars, storeVars, ghostVars
<1>2. TypeOK'
  <2>1. location' \in (0..MaxGenerations) \cup {Other} /\ future' \in BOOLEAN /\ (future' => location' = 0)
    <3>1. 0 \in 0..MaxGenerations /\ Other # 0
      BY LifecycleAssumption DEF Other
    <3>2. location \in (0..MaxGenerations) \cup {Other} /\ future \in BOOLEAN /\ (future => location = 0)
      BY DEF Inv, TypeOK
    <3>3. CASE ManagerAssigns
      BY <3>1, <3>2, <3>3 DEF ManagerAssigns
    <3>4. CASE ManagerRecovers
      BY <3>1, <3>4 DEF ManagerRecovers
    <3>5. CASE MovesAway
      BY <3>2, <3>5 DEF MovesAway
    <3>6. CASE MovesBack
      BY <3>1, <3>2, <3>6 DEF MovesBack
    <3>. QED  BY <3>3, <3>4, <3>5, <3>6
  <2>. QED  BY <1>1, <2>1 DEF Inv, TypeOK
<1>3. OwnsRow => OwnsRow'
  BY <1>1 DEF OwnsRow, Inv, TypeOK, ManagerAssigns, ManagerRecovers, MovesAway, MovesBack, Other
<1>4. LockInv' /\ LoadsInv' /\ UnloadInv' /\ PublishedInv'
  BY <1>1 DEF Inv, LockInv, LoadsInv, UnloadInv, PublishedInv, OperationIsHosts, Active, Finished, IsOp,
              ExposedIsTracked
<1>5. ServedInv'
  BY <1>1, <1>3 DEF Inv, ServedInv, Tracks, Active, IsOp, ServedIsExposed, ServedOwnsRow
<1>. QED  BY <1>2, <1>4, <1>5 DEF Inv

\* The Host forgets everything, so the operation is left to ReleaseDropped.
LEMMA LoseInv ==
    ASSUME Inv, LoseLock
    PROVE  Inv'
<1>1. /\ held # 0 /\ held' = 0 /\ host' = Released /\ host'.state = "UNASSIGNED" /\ host'.attempt = 0
      /\ host' \in Hosts /\ drop \in Drops /\ drop.phase = "off"
      /\ UNCHANGED <<newest, attempts, op, closed, loads, unload, loading, published, tab, location, future,
                     reported, mishaps, faults>>
  BY Constants, Typed DEF Inv, LockInv, LoseLock, storeVars, rowVars, ghostVars
<1>2. PICK d \in Drops : drop' = d /\ d.phase = (IF host = Released THEN "off" ELSE "cancel")
  <2>1. /\ [drop EXCEPT !.phase = "off"] \in Drops /\ [drop EXCEPT !.phase = "off"].phase = "off"
        /\ [drop EXCEPT !.phase = "cancel"] \in Drops /\ [drop EXCEPT !.phase = "cancel"].phase = "cancel"
    BY <1>1 DEF Drops
  <2>2. drop' = IF host = Released THEN [drop EXCEPT !.phase = "off"] ELSE [drop EXCEPT !.phase = "cancel"]
    BY DEF LoseLock
  <2>. QED  BY <2>1, <2>2
<1>3. TypeOK'
  <2>1. held' \in 0..MaxGenerations /\ newest' \in held'..MaxGenerations /\ attempts' \in host'.attempt..MaxAttempts
    BY <1>1, LifecycleAssumption, Typed DEF Inv, TypeOK, Hosts
  <2>. QED  BY <1>1, <1>2, <2>1 DEF Inv, TypeOK, Hosts, Drops
<1>4. op # NoOp => host # Released
  <2>1. op # NoOp => op.kind \in {"load", "unload"}
    BY Typed DEF Inv, LoadsInv, Ops
  <2>. QED  BY <1>1, <2>1, Constants DEF Inv, LockInv, OperationIsHosts
<1>5. LockInv'
  BY <1>1, <1>2, <1>4 DEF LockInv, OperationIsHosts
<1>6. LoadsInv' /\ UnloadInv'
  BY <1>1, <1>2 DEF Inv, LoadsInv, UnloadInv, Active, Finished, IsOp
<1>7. PublishedInv'
  BY <1>1, <1>2, Constants DEF Inv, PublishedInv, ExposedIsTracked, Finished
<1>8. ServedInv'
  BY <1>1 DEF ServedInv, Tracks, ServedIsExposed, ServedOwnsRow
<1>. QED  BY <1>3, <1>5, <1>6, <1>7, <1>8 DEF Inv

\* The operation is forgotten and its context cancelled.
LEMMA CancelOpIs ==
    ASSUME Inv, CancelOp
    PROVE  /\ op' = NoOp /\ op' \in Ops /\ op'.kind = "none" /\ loads' \in [Attempts -> Loads]
           /\ \A a \in Attempts : /\ loads'[a].phase = loads[a].phase
                                  /\ Active(a) => loads'[a].cancelled
           /\ unload' \in Unloading /\ unload'.phase = unload.phase /\ unload'.tablet = unload.tablet
<1>1. op' = NoOp /\ op' \in Ops /\ op'.kind = "none"
  BY Constants DEF CancelOp
<1>2. unload' \in Unloading /\ unload'.phase = unload.phase /\ unload'.tablet = unload.tablet
  <2>1. unload \in Unloading
    BY Typed DEF Inv
  <2>. QED  BY <2>1 DEF CancelOp, Unloading
<1>3. loads' \in [Attempts -> Loads] /\ \A a \in Attempts : /\ loads'[a].phase = loads[a].phase
                                                            /\ Active(a) => loads'[a].cancelled
  <2>1. loads \in [Attempts -> Loads] /\ \A a \in Attempts : loads[a] \in Loads
    BY Typed DEF Inv
  <2>2. CASE op.kind # "load"
    <3>1. \A a \in Attempts : Active(a) => loads[a].cancelled
      BY <2>2, Typed, Constants DEF Inv, LoadsInv
    <3>. QED  BY <2>1, <2>2, <3>1 DEF CancelOp
  <2>3. CASE op.kind = "load"
    <3>1. op.attempt \in Attempts /\ loads' = [loads EXCEPT ![op.attempt].cancelled = TRUE]
      BY <2>3 DEF Inv, LoadsInv, CancelOp, CancelLoad
    <3>2. /\ loads' \in [Attempts -> Loads] /\ loads'[op.attempt].cancelled
          /\ \A a \in Attempts : /\ loads'[a].phase = loads[a].phase
                                 /\ a # op.attempt => loads'[a] = loads[a]
      BY <2>1, <3>1 DEF Loads
    <3>3. \A a \in Attempts : a # op.attempt /\ Active(a) => loads[a].cancelled
      BY Typed, Constants DEF Inv, LoadsInv
    <3>. QED  BY <3>2, <3>3
  <2>. QED  BY <2>2, <2>3
<1>. QED  BY <1>1, <1>2, <1>3

\* ReleaseDropped's first step, and the adapter's shutdown.
LEMMA CancelsInv ==
    ASSUME Inv, DropCancel \/ Close
    PROVE  Inv'
<1>1. /\ CancelOp /\ faults' \in 0..MaxFaults
      /\ UNCHANGED <<held, newest, host, attempts, loading, published, tab, location, future, reported, mishaps>>
  BY Typed DEF Inv, DropCancel, Close, hostVars, storeVars, rowVars, ghostVars
<1>2. /\ op' = NoOp /\ op' \in Ops /\ op'.kind = "none" /\ loads' \in [Attempts -> Loads]
      /\ \A a \in Attempts : /\ loads'[a].phase = loads[a].phase
                             /\ Active(a) => loads'[a].cancelled
      /\ unload' \in Unloading /\ unload'.phase = unload.phase /\ unload'.tablet = unload.tablet
  BY <1>1, CancelOpIs
<1>3. /\ drop' \in Drops /\ (drop'.phase # "off" <=> drop.phase # "off")
      /\ drop'.phase \in {"close", "delete"} => drop' = drop
  BY Typed DEF Inv, DropCancel, Close, Drops
<1>4. TypeOK'
  <2>1. closed' \in BOOLEAN
    BY DEF Inv, TypeOK, DropCancel, Close
  <2>. QED  BY <1>1, <1>2, <1>3, <2>1, Typed, Untouched, TypesHold DEF Inv
<1>5. LockInv'
  BY <1>1, <1>2, <1>3 DEF Inv, LockInv, OperationIsHosts
<1>6. LoadsInv'
  <2>1. \A a \in Attempts : ~IsOp("load", a)'
    BY <1>2, Constants DEF IsOp
  <2>2. \A a \in Attempts : Active(a)' => Active(a) /\ loads'[a].cancelled
    BY <1>2 DEF Active
  <2>. QED  BY <1>1, <1>2, <2>1, <2>2 DEF Inv, LoadsInv
<1>7. UnloadInv' /\ PublishedInv'
  BY <1>1, <1>2, <1>3 DEF Inv, UnloadInv, PublishedInv, Finished, ExposedIsTracked
<1>8. ServedInv'
  <2>1. \A a \in Attempts : ~IsOp("load", a)'
    BY <1>2, Constants DEF IsOp
  <2>2. host.attempt # 0 => host.attempt \in Attempts
    BY Typed DEF Inv, Hosts, Attempts
  <2>. QED  BY <1>1, <1>2, <2>1, <2>2 DEF Inv, TypeOK, ServedInv, Tracks, Active, ServedIsExposed, ServedOwnsRow,
                                         OwnsRow
<1>. QED  BY <1>4, <1>5, <1>6, <1>7, <1>8 DEF Inv

----------------------------------------------------------------------------
(* The load goroutines.                                                    *)

\* A step of a load that goes on.
LEMMA GoesIs ==
    ASSUME TypeOK, NEW a \in Attempts, NEW p \in LoadPhases, Goes(a, p)
    PROVE  /\ loads' \in [Attempts -> Loads] /\ loads'[a].phase = p /\ loads'[a].cancelled = loads[a].cancelled
           /\ \A b \in Attempts \ {a} : loads'[b] = loads[b]
<1>1. loads \in [Attempts -> Loads] /\ loads[a] \in Loads
  BY Typed
<1>. QED  BY <1>1 DEF Goes, Loads

\* What a load may do before it is loaded, discarded or failed.
LEMMA LoadMovesInv ==
    ASSUME Inv, NEW a \in Attempts, Active(a), loads[a].phase # "loaded",
           NEW p \in LoadPhases \ {"off", "done"}, Goes(a, p),
           UNCHANGED <<held, newest, host, attempts, op, closed, unload, drop, reported, mishaps>>,
           loading' \in 0..MaxAttempts, faults' \in 0..MaxFaults,
           IF p = "loaded" THEN /\ loads[a].phase = "opened" /\ ~loads[a].cancelled
                                /\ published' = a /\ tab' = tab
                           ELSE published' = published,
           tab' \in [Attempts -> {"none", "open", "closed"}], \A b \in Attempts \ {a} : tab'[b] = tab[b],
           p = "opened" => tab'[a] = "open" /\ OwnsRow',
           location' \in (0..MaxGenerations) \cup {Other}, future' \in BOOLEAN, future' => location' = 0,
           OwnsRow => OwnsRow' \/ p \in {"failed", "canceled"}
    PROVE  Inv'
<1>1. /\ loads' \in [Attempts -> Loads] /\ loads'[a].phase = p /\ loads'[a].cancelled = loads[a].cancelled
      /\ \A b \in Attempts \ {a} : loads'[b] = loads[b]
  BY GoesIs DEF Inv
<1>2. /\ \A b \in Attempts : Active(b)' <=> Active(b)
      /\ \A b \in Attempts : IsOp("load", b)' <=> IsOp("load", b)
  BY <1>1 DEF Active, IsOp
<1>3. published' # published => /\ published' = a /\ IsOp("load", a) /\ op.kind = "load" /\ op.attempt = a
                                /\ (held # 0 => host.state = "LOADING" /\ host.attempt = a)
                                /\ (held = 0 => drop.phase = "cancel")
  <2>. SUFFICES ASSUME published' # published
                PROVE  /\ published' = a /\ IsOp("load", a) /\ op.kind = "load" /\ op.attempt = a
                       /\ (held # 0 => host.state = "LOADING" /\ host.attempt = a)
                       /\ (held = 0 => drop.phase = "cancel")
    OBVIOUS
  <2>1. published' = a /\ IsOp("load", a)
    BY DEF Inv, LoadsInv
  <2>2. op.kind = "load" /\ op.attempt = a /\ op # NoOp
    BY <2>1, Typed, Constants DEF Inv
  <2>. QED  BY <2>1, <2>2 DEF Inv, LockInv, OperationIsHosts
<1>4. TypeOK'
  <2>1. published' \in 0..MaxAttempts
    BY Constants, Untouched DEF Inv
  <2>. QED  BY <1>1, <2>1, Typed, Untouched, TypesHold DEF Inv
<1>5. LockInv'
  BY DEF Inv, LockInv, OperationIsHosts
<1>6. LoadsInv'
  <2>1. op.kind = "load" => op.attempt \in Attempts /\ Active(op.attempt)'
    BY <1>2 DEF Inv, LoadsInv
  <2>2. \A b \in Attempts : loads'[b].cancelled = loads[b].cancelled /\ (loads'[b].phase # "off" => b <= attempts)
    BY <1>1 DEF Inv, LoadsInv, Active
  <2>3. \A b \in Attempts : loads'[b].phase = "opened" => tab'[b] = "open"
    BY <1>1 DEF Inv, LoadsInv
  <2>. QED  BY <1>2, <2>1, <2>2, <2>3 DEF Inv, LoadsInv
<1>7. \A t : Finished(t) => t # a /\ Finished(t)'
  BY <1>1 DEF Finished, Active
<1>8. UnloadInv'
  BY <1>3, <1>7 DEF Inv, UnloadInv
<1>9. PublishedInv'
  <2>1. published' # 0 => Finished(published)'
    BY <1>1, <1>3, <1>7 DEF Inv, PublishedInv, Finished
  <2>. QED  BY <1>3, <2>1 DEF Inv, PublishedInv, ExposedIsTracked
<1>10. ServedInv'
  <2>1. host.state \in {"LOADING", "HOSTED"} => host.attempt \in Attempts /\ host.attempt # 0 /\ held # 0
    BY Typed, Untouched, Constants DEF Inv, LockInv, Hosts, Attempts
  <2>2. Tracks("LOADING") /\ IsOp("load", host.attempt) /\ loads'[host.attempt].phase = "loaded"
           /\ "staleUnload" \notin mishaps => published' = host.attempt /\ tab'[host.attempt] = "open"
    <3>. SUFFICES ASSUME Tracks("LOADING"), IsOp("load", host.attempt), loads'[host.attempt].phase = "loaded",
                         "staleUnload" \notin mishaps
                  PROVE  published' = host.attempt /\ tab'[host.attempt] = "open"
      OBVIOUS
    <3>1. CASE host.attempt = a
      BY <1>1, <3>1 DEF Inv, LoadsInv
    <3>2. CASE host.attempt # a
      <4>1. host.attempt \in Attempts \ {a}
        BY <2>1, <3>2 DEF Tracks
      <4>2. published = host.attempt /\ tab[host.attempt] = "open"
        BY <1>1, <4>1 DEF Inv, ServedInv
      <4>. QED  BY <1>3, <2>1, <3>2, <4>1, <4>2 DEF Tracks
    <3>. QED  BY <3>1, <3>2
  <2>3. Tracks("LOADING") /\ loads'[host.attempt].phase \in {"opened", "loaded"}
           /\ mishaps \cap {"staleLoad", "staleUnload"} = {} => OwnsRow'
    BY <1>1, <2>1 DEF Inv, ServedInv, Tracks
  <2>4. Tracks("HOSTED") => host.attempt # a
    BY DEF Inv, ServedInv
  <2>5. ServedIsExposed' /\ ServedOwnsRow'
    BY <1>3, <2>1, <2>4 DEF Inv, ServedInv, ServedIsExposed, ServedOwnsRow, Tracks
  <2>. QED  BY <1>2, <2>1, <2>2, <2>3, <2>5 DEF Inv, ServedInv, Tracks
<1>. QED  BY <1>4, <1>5, <1>6, <1>8, <1>9, <1>10 DEF Inv

\* Closing a tablet touches that tablet and, where the row is owned, gives it back.
LEMMA Closing ==
    ASSUME Inv, NEW t \in Attempts, CloseOk(t) \/ (\E c \in BOOLEAN : CloseFails(t, c)), UNCHANGED future
    PROVE  /\ tab' \in [Attempts -> {"none", "open", "closed"}] /\ \A b \in Attempts \ {t} : tab'[b] = tab[b]
           /\ location' \in (0..MaxGenerations) \cup {Other} /\ (future' => location' = 0)
<1>1. /\ tab \in [Attempts -> {"none", "open", "closed"}] /\ location \in (0..MaxGenerations) \cup {Other}
      /\ (future => location = 0) /\ 0 \in 0..MaxGenerations
  BY Untouched, LifecycleAssumption DEF Inv
<1>. QED  BY <1>1 DEF CloseOk, CloseFails, ReleaseRow

\* The steps of a load preserve the inductive invariant.
LEMMA LoadStepsInv ==
    ASSUME Inv, NEW a \in Attempts,
           LoadStart(a) \/ LoadClaim(a) \/ LoadRecover(a) \/ LoadFinish(a) \/ LoadDiscard(a)
    PROVE  Inv'
<1>1. /\ loading \in 0..MaxAttempts /\ tab \in [Attempts -> {"none", "open", "closed"}]
      /\ location \in (0..MaxGenerations) \cup {Other} /\ future \in BOOLEAN /\ (future => location = 0)
      /\ held \in 0..MaxGenerations /\ 0 \in 0..MaxGenerations
      /\ a \in 0..MaxAttempts /\ 0 \in 0..MaxAttempts /\ loads[a].cancelled \in BOOLEAN
  BY Untouched, Typed, Constants, LifecycleAssumption DEF Inv, Loads
<1>2. /\ loads[a].phase \in {"start", "claim", "recover", "opened", "failed", "discard"}
      /\ UNCHANGED <<held, newest, host, attempts, op, closed, unload, drop, reported, mishaps>>
      /\ faults' \in 0..MaxFaults
  BY Typed DEF Inv, LoadStart, LoadClaim, LoadRecover, LoadFinish, LoadDiscard, CloseFails, hostVars, ghostVars
<1>3. Active(a) /\ loads[a].phase # "loaded"
  BY <1>2 DEF Active
<1>4. CASE LoadStart(a)
  <2>1. /\ Goes(a, "claim") /\ loading' = a /\ UNCHANGED <<published, tab, location, future>>
    BY <1>4 DEF LoadStart, rowVars
  <2>. QED  BY <1>1, <1>2, <1>3, <2>1, LoadMovesInv DEF LoadPhases, OwnsRow
<1>5. CASE LoadClaim(a)
  <2>1. PICK p \in {"recover", "failed"} : /\ Goes(a, p) /\ UNCHANGED <<loading, published, tab>>
                                           /\ \/ held # 0 /\ location' = held /\ future' = FALSE
                                              \/ UNCHANGED <<location, future>>
    BY <1>5 DEF LoadClaim, storeVars
  <2>2. location' \in (0..MaxGenerations) \cup {Other} /\ future' \in BOOLEAN /\ (future' => location' = 0)
    <3>1. CASE location' = held /\ future' = FALSE
      BY <1>1, <3>1
    <3>2. CASE UNCHANGED <<location, future>>
      BY <1>1, <3>2
    <3>. QED  BY <2>1, <3>1, <3>2
  <2>3. OwnsRow => OwnsRow'
    BY <1>2, <2>1 DEF OwnsRow
  <2>. QED  BY <1>1, <1>2, <1>3, <2>1, <2>2, <2>3, LoadMovesInv DEF LoadPhases
<1>6. CASE LoadRecover(a)
  <2>1. UNCHANGED <<loading, published, future>>
    BY <1>6 DEF LoadRecover
  <2>2. CASE OwnsRow /\ tab' = [tab EXCEPT ![a] = "open"] /\ Goes(a, "opened") /\ UNCHANGED location
    <3>1. /\ tab' \in [Attempts -> {"none", "open", "closed"}] /\ tab'[a] = "open"
          /\ \A b \in Attempts \ {a} : tab'[b] = tab[b]
      BY <1>1, <2>2
    <3>2. OwnsRow'
      BY <1>2, <2>2 DEF OwnsRow
    <3>. QED  BY <1>1, <1>2, <1>3, <2>1, <2>2, <3>1, <3>2, LoadMovesInv DEF LoadPhases
  <2>3. CASE ReleaseRow /\ Goes(a, "failed") /\ UNCHANGED tab
    <3>1. location' \in (0..MaxGenerations) \cup {Other} /\ (future' => location' = 0)
      BY <1>1, <2>1, <2>3 DEF ReleaseRow
    <3>. QED  BY <1>1, <1>2, <1>3, <2>1, <2>3, <3>1, LoadMovesInv DEF LoadPhases
  <2>. QED  BY <1>6, <2>2, <2>3 DEF LoadRecover
<1>7. CASE LoadFinish(a)
  <2>1. UNCHANGED <<tab, location, future>> /\ (OwnsRow => OwnsRow')
    BY <1>2, <1>7 DEF LoadFinish, rowVars, OwnsRow
  <2>2. CASE loads[a].phase = "opened" /\ ~loads[a].cancelled /\ Goes(a, "loaded") /\ published' = a /\ loading' = 0
    BY <1>1, <1>2, <1>3, <2>1, <2>2, LoadMovesInv DEF LoadPhases
  <2>3. CASE /\ \E p \in {"discard", "canceled", "error"} : Goes(a, p)
             /\ UNCHANGED published /\ loading' \in {loading, 0}
    <3>1. PICK p \in {"discard", "canceled", "error"} : Goes(a, p)
      BY <2>3
    <3>. QED  BY <1>1, <1>2, <1>3, <2>1, <2>3, <3>1, LoadMovesInv DEF LoadPhases
  <2>. QED  BY <1>7, <2>2, <2>3 DEF LoadFinish
<1>8. CASE LoadDiscard(a)
  <2>1. Goes(a, "canceled") /\ UNCHANGED <<loading, published, future>>
    BY <1>8 DEF LoadDiscard
  <2>2. /\ tab' \in [Attempts -> {"none", "open", "closed"}] /\ \A b \in Attempts \ {a} : tab'[b] = tab[b]
        /\ location' \in (0..MaxGenerations) \cup {Other} /\ (future' => location' = 0)
    BY <1>8, <2>1, Closing DEF LoadDiscard
  <2>. QED  BY <1>1, <1>2, <1>3, <2>1, <2>2, LoadMovesInv DEF LoadPhases
<1>. QED  BY <1>4, <1>5, <1>6, <1>7, <1>8

\* A load that has ended: the Host hears of it only from the operation of its key.
LEMMA LoadAnswerInv ==
    ASSUME Inv, NEW a \in Attempts, LoadAnswer(a)
    PROVE  Inv'
<1>1. /\ loads[a].phase \in {"loaded", "error", "canceled"}
      /\ loads' = [loads EXCEPT ![a] = [phase |-> "done", cancelled |-> FALSE]]
      /\ UNCHANGED <<held, newest, attempts, closed, unload, drop, loading, published, tab, location, future, mishaps, faults>>
  BY DEF LoadAnswer, storeVars, rowVars, ghostVars
<1>2. /\ loads' \in [Attempts -> Loads] /\ loads'[a].phase = "done" /\ \A b \in Attempts \ {a} : loads'[b] = loads[b]
  <2>1. loads \in [Attempts -> Loads] /\ [phase |-> "done", cancelled |-> FALSE] \in Loads
    BY Typed DEF Inv, Loads, LoadPhases
  <2>. QED  BY <1>1, <2>1
<1>3. Active(a) /\ ~Active(a)' /\ \A b \in Attempts \ {a} : Active(b)' <=> Active(b)
  BY <1>1, <1>2 DEF Active
<1>4. \A t : Finished(t) => Finished(t)'
  BY <1>2 DEF Finished
<1>5. CASE ~IsOp("load", a)
  <2>1. UNCHANGED <<host, op, reported>>
    BY <1>5 DEF LoadAnswer
  <2>2. TypeOK'
    BY <1>1, <1>2, <2>1, Typed, Untouched, TypesHold DEF Inv
  <2>3. op.kind = "load" => op.attempt # a
    BY <1>5, Typed, Constants DEF Inv
  <2>4. LoadsInv'
    <3>1. \A b \in Attempts : IsOp("load", b)' <=> IsOp("load", b)
      BY <2>1 DEF IsOp
    <3>. QED  BY <1>1, <1>2, <1>3, <2>1, <2>3, <3>1 DEF Inv, LoadsInv
  <2>5. LockInv' /\ UnloadInv' /\ PublishedInv'
    BY <1>1, <1>4, <2>1 DEF Inv, LockInv, OperationIsHosts, UnloadInv, PublishedInv, ExposedIsTracked
  <2>6. ServedInv'
    <3>1. host.state \in {"LOADING", "HOSTED"} => host.attempt \in Attempts
      BY Typed, Untouched DEF Inv, Hosts, Attempts
    <3>2. IsOp("load", host.attempt)' <=> IsOp("load", host.attempt)
      BY <2>1 DEF IsOp
    <3>3. ServedIsExposed' /\ ServedOwnsRow' /\ (OwnsRow' <=> OwnsRow)
      BY <1>1, <2>1 DEF Inv, ServedInv, ServedIsExposed, ServedOwnsRow, OwnsRow
    <3>. QED  BY <1>1, <1>2, <1>3, <2>1, <3>1, <3>2, <3>3 DEF Inv, ServedInv, Tracks
  <2>. QED  BY <2>2, <2>4, <2>5, <2>6 DEF Inv
<1>6. CASE IsOp("load", a)
  <2>1. /\ op.kind = "load" /\ op.attempt = a /\ op # NoOp /\ op' = NoOp /\ op'.kind = "none" /\ op' \in Ops
        /\ \A b \in Attempts \ {a} : ~IsOp("load", b)
        /\ \A b \in Attempts : ~IsOp("load", b)'
    BY <1>6, Typed, Constants DEF Inv, LoadAnswer, IsOp
  <2>2. LoadsInv'
    BY <1>1, <1>2, <1>3, <2>1 DEF Inv, LoadsInv
  <2>3. UnloadInv'
    BY <1>1, <1>4, <2>1 DEF Inv, UnloadInv
  <2>4. CASE UNCHANGED <<host, reported>> /\ (loads[a].phase = "canceled" \/ host # [state |-> "LOADING", attempt |-> a])
    <3>1. TypeOK'
      BY <1>1, <1>2, <2>1, <2>4, Typed, Untouched, TypesHold DEF Inv
    <3>2. LockInv' /\ PublishedInv'
      BY <1>1, <1>4, <2>1, <2>4 DEF Inv, LockInv, OperationIsHosts, PublishedInv, ExposedIsTracked
    <3>3. host.state \in {"LOADING", "HOSTED"} => host.attempt \in Attempts
      BY Typed, Untouched DEF Inv, Hosts, Attempts
    <3>4. ServedIsExposed' /\ ServedOwnsRow' /\ (OwnsRow' <=> OwnsRow)
      BY <1>1, <2>4 DEF Inv, ServedInv, ServedIsExposed, ServedOwnsRow, OwnsRow
    <3>5. ServedInv'
      BY <1>1, <1>2, <1>3, <2>1, <2>4, <3>3, <3>4 DEF Inv, ServedInv, Tracks
    <3>. QED  BY <2>2, <2>3, <3>1, <3>2, <3>5 DEF Inv
  <2>5. CASE host = [state |-> "LOADING", attempt |-> a] /\ loads[a].phase = "loaded"
             /\ host' = [host EXCEPT !.state = "HOSTED"] /\ reported' = TRUE
    <3>1. /\ host.state = "LOADING" /\ host.attempt = a /\ held # 0
          /\ host' \in Hosts /\ host'.state = "HOSTED" /\ host'.attempt = a
      <4>1. host.state = "LOADING" /\ host.attempt = a
        BY <2>5
      <4>2. host' \in Hosts /\ host'.state = "HOSTED" /\ host'.attempt = a
        BY <2>5, <4>1, Typed DEF Inv, Hosts
      <4>. QED  BY <4>1, <4>2, Constants DEF Inv, LockInv
    <3>2. TypeOK'
      BY <1>1, <1>2, <2>1, <2>5, <3>1, Typed, Untouched, TypesHold, Constants DEF Inv
    <3>3. LockInv' /\ PublishedInv'
      BY <1>1, <1>4, <2>1, <3>1 DEF Inv, LockInv, OperationIsHosts, PublishedInv, ExposedIsTracked
    <3>4. /\ "staleUnload" \notin mishaps => published = a /\ tab[a] = "open"
          /\ mishaps \cap {"staleLoad", "staleUnload"} = {} => OwnsRow
      BY <1>6, <2>5, <3>1 DEF Inv, ServedInv, Tracks
    <3>5. ServedIsExposed' /\ ServedOwnsRow'
      BY <1>1, <2>5, <3>1, <3>4 DEF ServedIsExposed, ServedOwnsRow, OwnsRow
    <3>6. ServedInv'
      BY <1>1, <1>2, <1>3, <3>1, <3>5 DEF Inv, ServedInv, Tracks
    <3>. QED  BY <2>2, <2>3, <3>2, <3>3, <3>6 DEF Inv
  <2>6. CASE loads[a].phase = "error" /\ host' = Released /\ reported' = FALSE
    <3>1. host' \in Hosts /\ host'.state = "UNASSIGNED" /\ host'.attempt = 0
      BY <2>6, Constants
    <3>2. attempts' \in 0..MaxAttempts
      BY <1>1, Typed, Untouched DEF Inv, Hosts
    <3>3. TypeOK'
      BY <1>1, <1>2, <2>1, <2>6, <3>1, <3>2, Typed, Untouched, TypesHold DEF Inv
    <3>4. held # 0 /\ "leftover" \notin mishaps => published = 0
      <4>. SUFFICES ASSUME held # 0, "leftover" \notin mishaps, published # 0 PROVE FALSE
        OBVIOUS
      <4>1. published = host.attempt /\ host.attempt = a
        BY <2>1 DEF Inv, PublishedInv, ExposedIsTracked, LockInv, OperationIsHosts
      <4>. QED  BY <2>6, <4>1 DEF Inv, PublishedInv, Finished
    <3>5. LockInv' /\ PublishedInv'
      BY <1>1, <1>4, <2>1, <2>6, <3>4 DEF Inv, LockInv, OperationIsHosts, PublishedInv, ExposedIsTracked
    <3>6. ServedInv'
      BY <3>1 DEF ServedInv, Tracks, ServedIsExposed, ServedOwnsRow
    <3>. QED  BY <2>2, <2>3, <3>3, <3>5, <3>6 DEF Inv
  <2>. QED  BY <1>6, <2>4, <2>5, <2>6 DEF LoadAnswer
<1>. QED  BY <1>5, <1>6

----------------------------------------------------------------------------
(* Requests of the manager.                                                *)

\* A new attempt records who else is at work; nothing is published for it yet.
LEMMA LoadTabletInv ==
    ASSUME Inv, LoadTablet
    PROVE  Inv'
<1>1. /\ held # 0 /\ UNCHANGED <<held, newest, closed, unload, drop, loading, published, tab, location, future>>
      /\ faults' \in 0..MaxFaults
  BY Typed DEF Inv, LoadTablet, storeVars, rowVars
<1>2. CASE /\ reported' = FALSE /\ mishaps' = mishaps \cup {"refused"}
           /\ UNCHANGED <<attempts, host, op, loads>>
  <2>1. TypeOK'
    BY <1>1, <1>2, Typed, Untouched, TypesHold DEF Inv
  <2>2. LockInv' /\ LoadsInv' /\ UnloadInv' /\ PublishedInv'
    BY <1>1, <1>2 DEF Inv, LockInv, LoadsInv, UnloadInv, PublishedInv, OperationIsHosts, Active, Finished, IsOp,
                      ExposedIsTracked
  <2>3. ServedInv'
    BY <1>1, <1>2 DEF Inv, ServedInv, Tracks, Active, IsOp, ServedIsExposed, ServedOwnsRow, OwnsRow
  <2>. QED  BY <2>1, <2>2, <2>3 DEF Inv
<1>3. CASE /\ host = Released /\ attempts < MaxAttempts /\ attempts' = attempts + 1
           /\ host' = [state |-> "LOADING", attempt |-> attempts + 1]
           /\ op' = [kind |-> "load", attempt |-> attempts + 1]
           /\ loads' = [loads EXCEPT ![attempts + 1] = [phase |-> "start", cancelled |-> FALSE]]
           /\ mishaps' = mishaps \cup Stale /\ UNCHANGED <<reported, faults>>
  <2>1. PICK a \in Attempts : a = attempts + 1
    <3>1. attempts \in 0..MaxAttempts /\ MaxAttempts \in Nat
      BY <1>3, Untouched, Constants, LifecycleAssumption DEF Inv
    <3>. QED  BY <1>3, <3>1 DEF Attempts
  <2>2. /\ a \in 0..MaxAttempts /\ a # 0 /\ host.attempt = 0 /\ host.state = "UNASSIGNED"
        /\ attempts \in Nat /\ ~(a <= attempts)
    BY <1>3, <2>1, Typed, Untouched, Constants DEF Inv, Hosts
  <2>3. /\ host' \in Hosts /\ host'.state = "LOADING" /\ host'.attempt = a
        /\ op' \in Ops /\ op'.kind = "load" /\ op'.attempt = a
    BY <1>3, <2>1, <2>2 DEF Hosts, Ops
  <2>4. /\ loads' \in [Attempts -> Loads] /\ loads'[a].phase = "start" /\ ~loads'[a].cancelled
        /\ \A b \in Attempts \ {a} : loads'[b] = loads[b]
    <3>1. loads \in [Attempts -> Loads]
      BY Typed DEF Inv
    <3>2. [phase |-> "start", cancelled |-> FALSE] \in Loads
      BY DEF Loads, LoadPhases
    <3>. QED  BY <1>3, <2>1, <3>1, <3>2
  <2>5. /\ mishaps' \subseteq {"staleLoad", "staleUnload", "refused", "leftover"} /\ mishaps \subseteq mishaps'
        /\ \A b \in Attempts : Active(b) => "staleLoad" \in mishaps'
        /\ unload.phase # "off" => "staleUnload" \in mishaps'
    <3>1. /\ Stale \subseteq {"staleLoad", "staleUnload"}
          /\ \A b \in Attempts : Active(b) => "staleLoad" \in Stale
          /\ unload.phase # "off" => "staleUnload" \in Stale
      BY DEF Stale, Active
    <3>2. mishaps \subseteq {"staleLoad", "staleUnload", "refused", "leftover"}
      BY Untouched DEF Inv
    <3>. QED  BY <1>3, <3>1, <3>2
  <2>6. TypeOK'
    <3>1. attempts' \in host'.attempt..MaxAttempts
      BY <1>3, <2>1, <2>3 DEF Attempts
    <3>. QED  BY <1>1, <1>3, <2>2, <2>3, <2>4, <2>5, <3>1, Typed, Untouched, TypesHold DEF Inv
  <2>7. op = NoOp /\ op.kind = "none" /\ loads[a].phase = "off" /\ ~Active(a) /\ Active(a)'
        /\ \A b \in Attempts \ {a} : Active(b)' <=> Active(b)
    <3>1. op = NoOp
      <4>1. op # NoOp => op.kind \in {"load", "unload"}
        BY Typed DEF Inv, LoadsInv, Ops
      <4>. QED  BY <1>1, <2>2, <4>1 DEF Inv, LockInv, OperationIsHosts
    <3>2. loads[a].phase = "off"
      BY <2>2 DEF Inv, LoadsInv
    <3>. QED  BY <2>4, <3>1, <3>2, Constants DEF Active
  <2>8. LockInv'
    <3>1. host' = [state |-> "LOADING", attempt |-> op'.attempt]
      BY <1>3, <2>1, <2>3
    <3>. QED  BY <1>1, <2>3, <3>1 DEF Inv, LockInv, OperationIsHosts
  <2>9. LoadsInv'
    <3>1. \A b \in Attempts : IsOp("load", b)' <=> b = a
      BY <1>3, <2>1, <2>3 DEF IsOp
    <3>2. \A b \in Attempts : ~IsOp("load", b)
      BY <2>7, Typed, Constants DEF Inv
    <3>3. \A b \in Attempts : loads'[b].phase # "off" => b <= attempts'
      BY <1>3, <2>1, <2>2, <2>4 DEF Inv, LoadsInv, Attempts
    <3>. QED  BY <1>1, <2>3, <2>4, <2>7, <3>1, <3>2, <3>3 DEF Inv, LoadsInv
  <2>10. \A t : Finished(t) => t # a /\ Finished(t)'
    BY <2>4, <2>7 DEF Finished
  <2>11. UnloadInv' /\ PublishedInv'
    <3>1. UnloadInv'
      BY <1>1, <2>3, <2>10 DEF Inv, UnloadInv
    <3>2. held # 0 /\ "leftover" \notin mishaps => published = 0
      BY <2>2 DEF Inv, PublishedInv, ExposedIsTracked
    <3>. QED  BY <1>1, <2>5, <2>10, <3>1, <3>2 DEF Inv, PublishedInv, ExposedIsTracked
  <2>12. ServedInv'
    BY <1>1, <2>3, <2>4, <2>5, <2>7 DEF ServedInv, Tracks, ServedIsExposed, ServedOwnsRow
  <2>. QED  BY <2>6, <2>8, <2>9, <2>11, <2>12 DEF Inv
<1>. QED  BY <1>2, <1>3 DEF LoadTablet

\* The load under way is cancelled, and the Host moves to UNLOADING or refuses.
LEMMA UnloadTabletInv ==
    ASSUME Inv, UnloadTablet
    PROVE  Inv'
<1>1. /\ held # 0 /\ host # Released /\ op.kind # "unload" /\ unload.phase = "off"
      /\ UNCHANGED <<held, newest, attempts, closed, drop, loading, published, tab, location, future, reported>>
      /\ faults' \in 0..MaxFaults
  BY Typed DEF Inv, UnloadTablet, storeVars, rowVars, ghostVars
<1>2. /\ loads' \in [Attempts -> Loads]
      /\ \A a \in Attempts : loads'[a].phase = loads[a].phase /\ (Active(a) => loads'[a].cancelled)
  <2>1. loads \in [Attempts -> Loads] /\ \A a \in Attempts : loads[a] \in Loads
    BY Typed DEF Inv
  <2>2. CASE op.kind # "load"
    <3>1. \A a \in Attempts : Active(a) => loads[a].cancelled
      BY <2>2, Typed, Constants DEF Inv, LoadsInv
    <3>. QED  BY <2>1, <2>2, <3>1 DEF UnloadTablet
  <2>3. CASE op.kind = "load"
    <3>1. op.attempt \in Attempts /\ loads' = [loads EXCEPT ![op.attempt].cancelled = TRUE]
      BY <2>3 DEF Inv, LoadsInv, UnloadTablet, CancelLoad
    <3>2. /\ loads' \in [Attempts -> Loads] /\ loads'[op.attempt].cancelled
          /\ \A a \in Attempts : loads'[a].phase = loads[a].phase /\ (a # op.attempt => loads'[a] = loads[a])
      BY <2>1, <3>1 DEF Loads
    <3>3. \A a \in Attempts : a # op.attempt /\ Active(a) => loads[a].cancelled
      BY Typed, Constants DEF Inv, LoadsInv
    <3>. QED  BY <3>2, <3>3
  <2>. QED  BY <2>2, <2>3
<1>3. \A a \in Attempts : Active(a)' <=> Active(a)
  BY <1>2 DEF Active
<1>4. \A t : Finished(t)' <=> Finished(t)
  BY <1>2 DEF Finished
<1>5. host.attempt \in 0..MaxAttempts /\ host.attempt # 0 /\ host.attempt \in Attempts
  BY <1>1, Typed DEF Inv, Hosts, Attempts
<1>6. CASE UnloadStarts /\ UNCHANGED ghostVars
  <2>1. UNCHANGED <<mishaps, faults>>
    BY <1>6 DEF ghostVars
  <2>2. host' \in Hosts /\ host'.state = "UNLOADING" /\ host'.attempt = host.attempt
    BY <1>6, Typed DEF Inv, UnloadStarts, Hosts
  <2>3. op' \in Ops /\ op'.kind = "unload" /\ op'.attempt = host.attempt
    BY <1>5, <1>6 DEF UnloadStarts, Ops
  <2>4. unload' \in Unloading /\ unload'.phase = "lookup" /\ unload'.attempt = host.attempt
    BY <1>5, <1>6, Constants DEF UnloadStarts, Unloading
  <2>5. TypeOK'
    BY <1>1, <1>2, <1>5, <2>1, <2>2, <2>3, <2>4, Typed, Untouched, TypesHold DEF Inv
  <2>6. LockInv'
    <3>1. host' = [state |-> "UNLOADING", attempt |-> op'.attempt]
      BY <2>2, <2>3 DEF Hosts
    <3>. QED  BY <1>1, <2>3, <3>1 DEF Inv, LockInv, OperationIsHosts
  <2>7. LoadsInv'
    <3>1. \A a \in Attempts : ~IsOp("load", a)'
      BY <2>3 DEF IsOp
    <3>. QED  BY <1>1, <1>2, <1>3, <2>3, <3>1 DEF Inv, LoadsInv
  <2>8. UnloadInv' /\ PublishedInv'
    BY <1>1, <1>4, <2>1, <2>2, <2>3, <2>4 DEF Inv, UnloadInv, PublishedInv, ExposedIsTracked
  <2>9. ServedInv'
    BY <2>2 DEF ServedInv, Tracks, ServedIsExposed, ServedOwnsRow
  <2>. QED  BY <2>5, <2>6, <2>7, <2>8, <2>9 DEF Inv
<1>7. CASE op' = NoOp /\ mishaps' = mishaps \cup {"refused"} /\ UNCHANGED <<host, unload>>
  <2>1. op' \in Ops /\ op'.kind = "none" /\ \A a \in Attempts : ~IsOp("load", a)'
    BY <1>7, Constants DEF IsOp
  <2>2. TypeOK'
    BY <1>1, <1>2, <1>7, <2>1, Typed, Untouched, TypesHold DEF Inv
  <2>3. LockInv'
    BY <1>1, <1>7 DEF Inv, LockInv, OperationIsHosts
  <2>4. LoadsInv'
    BY <1>1, <1>2, <1>3, <1>7, <2>1 DEF Inv, LoadsInv
  <2>5. UnloadInv' /\ PublishedInv'
    BY <1>1, <1>4, <1>7, <2>1 DEF Inv, UnloadInv, PublishedInv, ExposedIsTracked
  <2>6. ServedInv'
    BY <1>1, <1>2, <1>3, <1>5, <1>7, <2>1 DEF Inv, ServedInv, Tracks, ServedIsExposed, ServedOwnsRow, OwnsRow
  <2>. QED  BY <2>2, <2>3, <2>4, <2>5, <2>6 DEF Inv
<1>. QED  BY <1>6, <1>7 DEF UnloadTablet

----------------------------------------------------------------------------
(* The unload goroutine and ReleaseDropped.                                *)

\* Whoever is being served while an unload is at work is served despite a stale one.
LEMMA UnloadStepsInv ==
    ASSUME Inv, UnloadLookup \/ UnloadClose \/ UnloadDelete
    PROVE  Inv'
<1>1. /\ unload.phase \in {"lookup", "close", "delete"} /\ faults' \in 0..MaxFaults
      /\ UNCHANGED <<held, newest, host, attempts, op, closed, loads, drop, future, reported, mishaps>>
  BY Typed DEF Inv, UnloadLookup, UnloadClose, UnloadDelete, CloseFails, hostVars, rowVars, ghostVars
<1>2. /\ unload \in Unloading /\ published \in 0..MaxAttempts /\ loading \in 0..MaxAttempts /\ 0 \in 0..MaxAttempts
      /\ tab \in [Attempts -> {"none", "open", "closed"}]
      /\ location \in (0..MaxGenerations) \cup {Other} /\ (future => location = 0)
  BY Typed, Untouched, Constants DEF Inv
<1>3. /\ unload' \in Unloading /\ unload'.attempt = unload.attempt /\ unload'.phase # "off"
      /\ unload'.phase \in {"close", "delete"} => Finished(unload'.tablet)
      /\ unload'.phase \in {"unloaded", "notServing"} => published' = 0
      /\ published' \in {published, 0} /\ loading' \in 0..MaxAttempts
  <2>1. CASE UnloadLookup
    <3>1. PICK p \in {"notServing", "close", "unloadError"}, t \in 0..MaxAttempts :
             /\ unload' = [unload EXCEPT !.phase = p, !.tablet = t]
             /\ p = "close" => t = published /\ published # 0
             /\ p = "notServing" => published = 0
      <4>1. CASE unload' = [unload EXCEPT !.phase = IF published = 0 THEN "notServing" ELSE "close", !.tablet = published]
        BY <1>2, <4>1
      <4>2. CASE unload' = [unload EXCEPT !.phase = "unloadError"]
        <5>1. unload' = [unload EXCEPT !.phase = "unloadError", !.tablet = unload.tablet] /\ unload.tablet \in 0..MaxAttempts
          BY <1>2, <4>2 DEF Unloading
        <5>. QED  BY <5>1
      <4>. QED  BY <2>1, <4>1, <4>2 DEF UnloadLookup, Unloads
    <3>2. unload' \in Unloading /\ unload'.phase = p /\ unload'.attempt = unload.attempt /\ unload'.tablet = t
      BY <1>2, <3>1 DEF Unloading, Answers
    <3>3. published' = published /\ loading' \in {loading, 0}
      BY <2>1 DEF UnloadLookup
    <3>. QED  BY <1>2, <3>1, <3>2, <3>3 DEF Inv, PublishedInv
  <2>2. CASE UnloadClose
    <3>1. PICK p \in {"delete", "unloadError"} : unload' = [unload EXCEPT !.phase = p]
      BY <2>2 DEF UnloadClose, Unloads
    <3>2. unload' \in Unloading /\ unload'.phase = p /\ unload'.attempt = unload.attempt /\ unload'.tablet = unload.tablet
      BY <1>2, <3>1 DEF Unloading, Answers
    <3>3. published' = published /\ loading' = loading /\ Finished(unload.tablet)
      BY <2>2 DEF UnloadClose, Inv, UnloadInv
    <3>. QED  BY <1>2, <3>2, <3>3
  <2>3. CASE UnloadDelete
    <3>1. unload' = [unload EXCEPT !.phase = "unloaded"] /\ published' = 0 /\ loading' = loading
      BY <2>3 DEF UnloadDelete, Unloads
    <3>2. unload' \in Unloading /\ unload'.phase = "unloaded" /\ unload'.attempt = unload.attempt
      BY <1>2, <3>1 DEF Unloading, Answers
    <3>. QED  BY <1>2, <3>1, <3>2
  <2>. QED  BY <2>1, <2>2, <2>3
<1>4. /\ tab' \in [Attempts -> {"none", "open", "closed"}]
      /\ \A a \in Attempts : ~Finished(a) => tab'[a] = tab[a]
      /\ location' \in (0..MaxGenerations) \cup {Other} /\ (future' => location' = 0)
  <2>1. CASE UnloadClose
    <3>1. Finished(unload.tablet) /\ unload.tablet \in Attempts /\ unload.cancelled \in BOOLEAN
      BY <1>2, <2>1 DEF Inv, UnloadInv, UnloadClose, Finished, Unloading
    <3>2. CloseOk(unload.tablet) \/ (\E c \in BOOLEAN : CloseFails(unload.tablet, c))
      BY <2>1, <3>1 DEF UnloadClose
    <3>3. PICK t \in Attempts : t = unload.tablet
      BY <3>1
    <3>4. CloseOk(t) \/ (\E c \in BOOLEAN : CloseFails(t, c))
      BY <3>2, <3>3
    <3>. QED  BY <1>1, <3>1, <3>3, <3>4, Closing
  <2>2. CASE UNCHANGED <<tab, location>>
    BY <1>1, <1>2, <2>2
  <2>. QED  BY <2>1, <2>2 DEF UnloadLookup, UnloadDelete, rowVars
<1>5. \A t : Finished(t)' <=> Finished(t)
  BY <1>1 DEF Finished
<1>6. TypeOK'
  BY <1>1, <1>2, <1>3, <1>4, Typed, Untouched, TypesHold DEF Inv
<1>7. LockInv'
  BY <1>1 DEF Inv, LockInv, OperationIsHosts
<1>8. LoadsInv'
  BY <1>1, <1>4 DEF Inv, LoadsInv, Active, IsOp, Finished
<1>9. UnloadInv' /\ PublishedInv'
  BY <1>1, <1>3, <1>5 DEF Inv, UnloadInv, PublishedInv, ExposedIsTracked
<1>10. ServedInv'
  BY <1>1, <1>3 DEF Inv, ServedInv, Tracks, Active, ServedIsExposed, ServedOwnsRow
<1>. QED  BY <1>6, <1>7, <1>8, <1>9, <1>10 DEF Inv

\* An unload that has ended gives the tablet back only if it is the operation of its key.
LEMMA UnloadAnswerInv ==
    ASSUME Inv, UnloadAnswer
    PROVE  Inv'
<1>1. /\ unload' = Idle /\ unload' \in Unloading /\ unload'.phase = "off" /\ unload.phase \in Answers /\ unload.phase # "off"
      /\ UNCHANGED <<held, newest, attempts, closed, loads, drop, loading, published, tab, location, future, mishaps, faults>>
  BY Constants DEF UnloadAnswer, storeVars, rowVars, ghostVars, Answers
<1>2. unload.attempt \in 0..MaxAttempts /\ op \in Ops
  BY Typed DEF Inv, Unloading
<1>3. CASE ~IsOp("unload", unload.attempt)
  <2>1. UNCHANGED <<host, op, reported>>
    BY <1>3 DEF UnloadAnswer
  <2>2. op.kind # "unload"
    BY <1>2, <1>3, Typed DEF Inv, UnloadInv
  <2>3. TypeOK'
    BY <1>1, <2>1, Typed, Untouched, TypesHold DEF Inv
  <2>4. LockInv' /\ LoadsInv' /\ UnloadInv' /\ PublishedInv'
    BY <1>1, <2>1, <2>2 DEF Inv, LockInv, LoadsInv, UnloadInv, PublishedInv, OperationIsHosts, Active, Finished,
                            IsOp, ExposedIsTracked
  <2>5. ServedInv'
    BY <1>1, <2>1 DEF Inv, ServedInv, Tracks, Active, IsOp, ServedIsExposed, ServedOwnsRow, OwnsRow
  <2>. QED  BY <2>3, <2>4, <2>5 DEF Inv
<1>4. CASE IsOp("unload", unload.attempt)
  <2>1. /\ op.kind = "unload" /\ op.attempt = unload.attempt /\ op # NoOp /\ op' = NoOp /\ op'.kind = "none"
        /\ op' \in Ops /\ (held # 0 => host.state = "UNLOADING")
    <3>1. op.kind = "unload" /\ op.attempt = unload.attempt /\ op # NoOp
      BY <1>2, <1>4, Typed, Constants DEF Inv
    <3>. QED  BY <1>4, <3>1, Constants DEF UnloadAnswer, Inv, LockInv, OperationIsHosts
  <2>2. host.state \notin {"LOADING", "HOSTED"}
    BY <2>1, Constants DEF Inv, LockInv
  <2>3. LoadsInv'
    <3>1. \A a \in Attempts : ~IsOp("load", a) /\ ~IsOp("load", a)'
      BY <2>1, Typed, Constants DEF Inv, IsOp
    <3>. QED  BY <1>1, <2>1, <3>1 DEF Inv, LoadsInv, Active
  <2>4. UnloadInv'
    BY <1>1, <2>1 DEF Inv, UnloadInv, Finished
  <2>5. PICK r \in BOOLEAN : reported' = r
    BY Untouched DEF Inv, UnloadAnswer
  <2>6. CASE UNCHANGED host
    <3>1. TypeOK'
      BY <1>1, <2>1, <2>5, <2>6, Typed, Untouched, TypesHold DEF Inv
    <3>2. LockInv' /\ PublishedInv'
      BY <1>1, <2>1, <2>6 DEF Inv, LockInv, OperationIsHosts, PublishedInv, ExposedIsTracked, Finished
    <3>3. ServedInv'
      BY <2>2, <2>6 DEF ServedInv, Tracks, ServedIsExposed, ServedOwnsRow
    <3>. QED  BY <2>3, <2>4, <3>1, <3>2, <3>3 DEF Inv
  <2>7. CASE host' = Released /\ unload.phase \in {"unloaded", "notServing"}
    <3>1. host' \in Hosts /\ host'.state = "UNASSIGNED" /\ host'.attempt = 0
      BY <2>7, Constants
    <3>2. attempts' \in 0..MaxAttempts
      BY <1>1, Typed, Untouched DEF Inv, Hosts
    <3>3. TypeOK'
      BY <1>1, <2>1, <2>5, <3>1, <3>2, Typed, Untouched, TypesHold DEF Inv
    <3>4. published = 0
      BY <2>1, <2>7 DEF Inv, UnloadInv
    <3>5. LockInv' /\ PublishedInv'
      BY <1>1, <2>1, <2>7, <3>4 DEF Inv, LockInv, OperationIsHosts, PublishedInv, ExposedIsTracked
    <3>6. ServedInv'
      BY <3>1 DEF ServedInv, Tracks, ServedIsExposed, ServedOwnsRow
    <3>. QED  BY <2>3, <2>4, <3>3, <3>5, <3>6 DEF Inv
  <2>. QED  BY <1>4, <2>6, <2>7 DEF UnloadAnswer, Answers
<1>. QED  BY <1>3, <1>4

\* After a lost lock nothing is tracked, so only what is published matters.
LEMMA DropStepsInv ==
    ASSUME Inv, DropLookup \/ DropClose \/ DropDelete
    PROVE  Inv'
<1>1. /\ drop.phase \in {"lookup", "close", "delete"} /\ faults' \in 0..MaxFaults
      /\ UNCHANGED <<held, newest, host, attempts, op, closed, loads, unload, future, reported>>
  BY Typed DEF Inv, DropLookup, DropClose, DropDelete, CloseFails, hostVars, rowVars, ghostVars
<1>2. held = 0 /\ host = Released /\ op = NoOp /\ host.state = "UNASSIGNED" /\ op.kind = "none"
  BY <1>1, Constants DEF Inv, LockInv
<1>3. /\ drop \in Drops /\ published \in 0..MaxAttempts /\ loading \in 0..MaxAttempts /\ 0 \in 0..MaxAttempts
      /\ tab \in [Attempts -> {"none", "open", "closed"}]
      /\ location \in (0..MaxGenerations) \cup {Other} /\ (future => location = 0)
      /\ mishaps \subseteq {"staleLoad", "staleUnload", "refused", "leftover"}
  BY Typed, Untouched, Constants DEF Inv
<1>4. /\ drop' \in Drops /\ (drop'.phase \in {"close", "delete"} => Finished(drop'.tablet))
      /\ (drop'.phase = "off" => published' = 0 \/ "leftover" \in mishaps')
      /\ published' \in {published, 0} /\ loading' \in {loading, 0}
      /\ mishaps' \subseteq {"staleLoad", "staleUnload", "refused", "leftover"} /\ mishaps \subseteq mishaps'
  <2>1. CASE DropLookup
    <3>1. /\ drop' = [phase |-> IF published = 0 THEN "off" ELSE "close", tablet |-> published]
          /\ published' = published /\ loading' = 0 /\ mishaps' = mishaps
      BY <2>1 DEF DropLookup, ghostVars
    <3>2. drop' \in Drops /\ drop'.phase = (IF published = 0 THEN "off" ELSE "close") /\ drop'.tablet = published
      BY <1>3, <3>1 DEF Drops
    <3>. QED  BY <1>3, <3>1, <3>2 DEF Inv, PublishedInv
  <2>2. CASE DropClose
    <3>1. PICK p \in {"delete", "off"} : /\ drop' = [drop EXCEPT !.phase = p]
                                         /\ mishaps' = (IF p = "off" THEN mishaps \cup {"leftover"} ELSE mishaps)
      BY <2>2 DEF DropClose
    <3>2. drop' \in Drops /\ drop'.phase = p /\ drop'.tablet = drop.tablet
      BY <1>3, <3>1 DEF Drops
    <3>3. published' = published /\ loading' = loading /\ Finished(drop.tablet)
      BY <2>2 DEF DropClose, Inv, UnloadInv
    <3>. QED  BY <1>3, <3>1, <3>2, <3>3
  <2>3. CASE DropDelete
    <3>1. drop' = [drop EXCEPT !.phase = "off"] /\ published' = 0 /\ loading' = loading /\ mishaps' = mishaps
      BY <2>3 DEF DropDelete, ghostVars
    <3>2. drop' \in Drops /\ drop'.phase = "off"
      BY <1>3, <3>1 DEF Drops
    <3>. QED  BY <1>3, <3>1, <3>2
  <2>. QED  BY <2>1, <2>2, <2>3
<1>5. /\ tab' \in [Attempts -> {"none", "open", "closed"}]
      /\ \A a \in Attempts : ~Finished(a) => tab'[a] = tab[a]
      /\ location' \in (0..MaxGenerations) \cup {Other} /\ (future' => location' = 0)
  <2>1. CASE DropClose
    <3>1. Finished(drop.tablet) /\ drop.tablet \in Attempts
      BY <2>1 DEF Inv, UnloadInv, DropClose, Finished
    <3>2. CloseOk(drop.tablet) \/ (\E c \in BOOLEAN : CloseFails(drop.tablet, c))
      BY <2>1 DEF DropClose
    <3>3. PICK t \in Attempts : t = drop.tablet
      BY <3>1
    <3>4. CloseOk(t) \/ (\E c \in BOOLEAN : CloseFails(t, c))
      BY <3>2, <3>3
    <3>. QED  BY <1>1, <3>1, <3>3, <3>4, Closing
  <2>2. CASE UNCHANGED <<tab, location>>
    BY <1>1, <1>3, <2>2
  <2>. QED  BY <2>1, <2>2 DEF DropLookup, DropDelete, rowVars
<1>6. \A t : Finished(t)' <=> Finished(t)
  BY <1>1 DEF Finished
<1>7. TypeOK'
  BY <1>1, <1>3, <1>4, <1>5, Typed, Untouched, TypesHold DEF Inv
<1>8. LockInv'
  BY <1>1, <1>2 DEF LockInv, OperationIsHosts
<1>9. LoadsInv'
  BY <1>1, <1>5 DEF Inv, LoadsInv, Active, IsOp, Finished
<1>10. UnloadInv' /\ PublishedInv'
  BY <1>1, <1>2, <1>4, <1>6 DEF Inv, UnloadInv, PublishedInv, ExposedIsTracked
<1>11. ServedInv'
  BY <1>1, <1>2 DEF ServedInv, Tracks, ServedIsExposed, ServedOwnsRow
<1>. QED  BY <1>7, <1>8, <1>9, <1>10, <1>11 DEF Inv

----------------------------------------------------------------------------
(* Theorems.                                                               *)

\* Every state the requests, the goroutines, the lock and the other servers can reach
\* satisfies the inductive invariant.
THEOREM Safety == Spec => []Inv
<1>1. Init => Inv
  <2>. SUFFICES ASSUME Init PROVE Inv
    OBVIOUS
  <2>1. /\ host = Released /\ op = NoOp /\ unload = Idle /\ drop = [phase |-> "off", tablet |-> 0]
        /\ loads = [a \in Attempts |-> [phase |-> "off", cancelled |-> FALSE]]
        /\ held = 0 /\ published = 0 /\ location = 0 /\ mishaps = {}
    BY DEF Init
  <2>2. /\ host.state = "UNASSIGNED" /\ op.kind = "none" /\ unload.phase = "off" /\ drop.phase = "off"
        /\ \A a \in Attempts : loads[a].phase = "off"
    BY <2>1, Constants
  <2>3. TypeOK
    <3>1. /\ host \in Hosts /\ op \in Ops /\ unload \in Unloading /\ drop \in Drops /\ loads \in [Attempts -> Loads]
      BY <2>1, Constants DEF Drops, Loads, LoadPhases
    <3>2. /\ 0 \in 0..MaxGenerations /\ 0 \in 0..MaxAttempts /\ 0 \in 0..MaxFaults
          /\ host.state = "UNASSIGNED" /\ host.attempt = 0
      BY <2>1, Constants, LifecycleAssumption
    <3>3. tab \in [Attempts -> {"none", "open", "closed"}] /\ closed \in BOOLEAN /\ future \in BOOLEAN /\ reported \in BOOLEAN
          /\ (future => location = 0)
      BY DEF Init
    <3>. QED  BY <3>1, <3>2, <3>3 DEF Init, TypeOK, Hosts, Ops, Unloading, Drops, Loads
  <2>4. LockInv /\ UnloadInv /\ PublishedInv
    BY <2>1, <2>2 DEF LockInv, OperationIsHosts, UnloadInv, PublishedInv, ExposedIsTracked
  <2>5. LoadsInv
    BY <2>1, <2>2 DEF LoadsInv, Active
  <2>6. ServedInv
    BY <2>2 DEF ServedInv, Tracks, ServedIsExposed, ServedOwnsRow
  <2>. QED  BY <2>3, <2>4, <2>5, <2>6 DEF Inv
<1>2. Inv /\ [Next]_vars => Inv'
  <2>. SUFFICES ASSUME Inv, [Next]_vars PROVE Inv'
    OBVIOUS
  <2>1. CASE UNCHANGED vars
    <3>1. UNCHANGED <<held, newest, host, attempts, op, closed, loads, unload, drop, loading, published, tab,
                      location, future, reported, mishaps, faults>>
      BY <2>1 DEF vars, hostVars, workVars, storeVars, rowVars, ghostVars
    <3>2. TypeOK'
      BY <3>1 DEF Inv, TypeOK
    <3>3. LockInv' /\ LoadsInv' /\ UnloadInv' /\ PublishedInv'
      BY <3>1 DEF Inv, LockInv, LoadsInv, UnloadInv, PublishedInv, OperationIsHosts, Active, Finished, IsOp,
                  ExposedIsTracked
    <3>4. ServedInv'
      BY <3>1 DEF Inv, ServedInv, Tracks, Active, IsOp, ServedIsExposed, ServedOwnsRow, OwnsRow
    <3>. QED  BY <3>2, <3>3, <3>4 DEF Inv
  <2>2. CASE AdoptLock \/ LoseLock
    BY <2>2, AdoptInv, LoseInv
  <2>3. CASE DropNext \/ Close
    BY <2>3, CancelsInv, DropStepsInv DEF DropNext
  <2>4. CASE ManagerAssigns \/ ManagerRecovers \/ MovesAway \/ MovesBack
    BY <2>4, RowInv
  <2>5. CASE LoadTablet \/ UnloadTablet
    BY <2>5, LoadTabletInv, UnloadTabletInv
  <2>6. CASE \E a \in Attempts : LoadNext(a)
    BY <2>6, LoadStepsInv, LoadAnswerInv DEF LoadNext
  <2>7. CASE UnloadNext
    BY <2>7, UnloadStepsInv, UnloadAnswerInv DEF UnloadNext
  <2>. QED  BY <2>1, <2>2, <2>3, <2>4, <2>5, <2>6, <2>7 DEF Next
<1>. QED  BY <1>1, <1>2, PTL DEF Spec

\* A tablet the Host serves is the open one the Store exposes, and the manager was told,
\* however loads, unloads and lock generations overlapped.
THEOREM ServedExposed == Spec => []ServedIsExposed
<1>1. Inv => ServedIsExposed
  BY DEF Inv, ServedInv
<1>. QED  BY <1>1, Safety, PTL

\* Store.load's token and its check of the context let only the attempt the Host tracks
\* publish, and an unload leaves nothing published.
THEOREM ExposedTracked == Spec => []ExposedIsTracked
<1>1. Inv => ExposedIsTracked
  BY DEF Inv, PublishedInv
<1>. QED  BY <1>1, Safety, PTL

\* A tablet that is served has its location in the metadata row, unless a goroutine of an
\* earlier attempt was still at work when its load began.
THEOREM ServedRow == Spec => []ServedOwnsRow
<1>1. Inv => ServedOwnsRow
  BY DEF Inv, ServedInv
<1>. QED  BY <1>1, Safety, PTL

\* The operation in the adapter's map is the one the Host waits for, so no completion
\* and no cancel reaches another attempt.
THEOREM OperationTracked == Spec => []OperationIsHosts
<1>1. Inv => OperationIsHosts
  BY DEF Inv, LockInv
<1>. QED  BY <1>1, Safety, PTL
=============================================================================
