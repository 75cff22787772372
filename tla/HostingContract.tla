-------------------------- MODULE HostingContract --------------------------
(***************************************************************************)
(* What a tablet host promises (internal/tserver, Host), without the data  *)
(* structures it keeps: claims on tablets exist only under one ServiceLock *)
(* generation, generations only move forward, each claim is a new numbered *)
(* assignment whose rows no other claim covers, and a claim that ended     *)
(* never comes back.  Hosting implements this specification.               *)
(***************************************************************************)
EXTENDS Extents

CONSTANTS ServerLocks,  \* lock generations of the tablet server
          Sequence,     \* the ZooKeeper sequence number of each lock
          NoLock

VARIABLES generation,   \* the generation claims are made under, or NoLock
          newestSeen,   \* the newest generation ever used
          claims,       \* set of [extent, id, state]
          minted        \* how many assignments were ever made

contractVars == <<generation, newestSeen, claims, minted>>

ContractInit ==
    /\ generation = NoLock
    /\ newestSeen = NoLock
    /\ claims = {}
    /\ minted = 0

\* A later generation begins, with nothing claimed under it.
BeginGeneration(lock) ==
    /\ claims = {}
    /\ newestSeen # NoLock => Sequence[lock] > Sequence[newestSeen]
    /\ generation' = lock
    /\ newestSeen' = lock
    /\ UNCHANGED <<claims, minted>>

\* The generation ends, and every claim with it.
EndGeneration ==
    /\ generation # NoLock
    /\ generation' = NoLock
    /\ claims' = {}
    /\ UNCHANGED <<newestSeen, minted>>

\* A new assignment, of rows nothing else claims.
Claim(e) ==
    /\ generation # NoLock
    /\ \A c \in claims : ~Overlaps(c.extent, e)
    /\ minted' = minted + 1
    /\ claims' = claims \cup {[extent |-> e, id |-> minted + 1, state |-> "LOADING"]}
    /\ UNCHANGED <<generation, newestSeen>>

\* A claim moves on: loading, then hosted, and from either to unloading.
Advance(c, state) ==
    /\ c \in claims
    /\ \/ c.state = "LOADING" /\ state = "HOSTED"
       \/ state = "UNLOADING"
    /\ claims' = (claims \ {c}) \cup {[c EXCEPT !.state = state]}
    /\ UNCHANGED <<generation, newestSeen, minted>>

\* A claim ends.
Disclaim(c) ==
    /\ c \in claims
    /\ claims' = claims \ {c}
    /\ UNCHANGED <<generation, newestSeen, minted>>

ContractNext ==
    \/ \E lock \in ServerLocks : BeginGeneration(lock)
    \/ EndGeneration
    \/ \E e \in Extents : Claim(e)
    \/ \E c \in claims, state \in {"HOSTED", "UNLOADING"} : Advance(c, state)
    \/ \E c \in claims : Disclaim(c)

ContractSpec == ContractInit /\ [][ContractNext]_contractVars
=============================================================================
