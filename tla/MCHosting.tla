----------------------------- MODULE MCHosting -----------------------------
(* Two rows of one table give its six tablets and one malformed extent; a  *)
(* second table has a single tablet.  The third server lock comes from a   *)
(* recreated directory: a new UUID with a sequence number already used.    *)
EXTENDS Hosting, TLC

CONSTANTS T1, T2, L1, L2, L3, M1, M2

Tablet(table, prev, end) == [table |-> table, prev |-> prev, end |-> end]
Malformed == Tablet(T1, 2, 1)

\* Every tablet of T1: the index run.
AllExtents ==
    LET bounds == {1, 2, NoRow}
    IN {e \in [table : {T1}, prev : bounds, end : bounds] : Validate(e)} \cup {Malformed}

\* A tablet, its two children after a split, and a tablet of another table.
SplitExtents == {Tablet(T1, NoRow, NoRow), Tablet(T1, NoRow, 1), Tablet(T1, 1, NoRow),
                 Tablet(T2, NoRow, NoRow)}

TwoTables == {T1, T2}
OneServerLock == {L1}
ThreeServerLocks == {L1, L2, L3}
OneManagerLock == {M1}
TwoManagerLocks == {M1, M2}
MCSequence == L1 :> 1 @@ L2 :> 2 @@ L3 :> 2 @@ M1 :> 1 @@ M2 :> 2
=============================================================================
