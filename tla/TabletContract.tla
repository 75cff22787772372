-------------------------- MODULE TabletContract --------------------------
(***************************************************************************)
(* What a hosted tablet promises a client whose batches carry idempotency  *)
(* keys: a batch is made durable, stays durable from then on, and is       *)
(* acknowledged only when it is.  Which server does it, how often it had   *)
(* to be tried, and whether it is in a WAL or in a file does not show.     *)
(***************************************************************************)
CONSTANT Ops

VARIABLES durable,   \* batches that the next owner of the tablet would have
          acked      \* batches whose client got an acknowledgement

vars == <<durable, acked>>

Init == durable = {} /\ acked = {}

\* One batch reaches stable storage.
Persist(o) ==
    /\ o \notin durable
    /\ durable' = durable \cup {o}
    /\ UNCHANGED acked

Acknowledge(o) ==
    /\ o \in durable
    /\ acked' = acked \cup {o}
    /\ UNCHANGED durable

Next == \E o \in Ops : Persist(o) \/ Acknowledge(o)

Spec == Init /\ [][Next]_vars
=============================================================================
