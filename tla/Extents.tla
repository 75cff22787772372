------------------------------ MODULE Extents ------------------------------
(***************************************************************************)
(* The key extent of a tablet, internal/tserver/extent.go: the rows of one *)
(* table above PrevEndRow and up to and including EndRow.  Rows are        *)
(* natural numbers in byte order; an absent bound (a nil or empty slice,   *)
(* which normalizeBound makes the same thing) is NoRow, below every row as *)
(* a lower bound and above every row as an upper bound.                    *)
(***************************************************************************)
EXTENDS Integers

CONSTANTS NoRow,    \* an absent bound
          Tables,   \* table identifiers
          Extents   \* the extents that requests name, malformed ones included

ASSUME NoRowAssumption == NoRow \notin Int

ASSUME ExtentsAssumption ==
    Extents \subseteq [table : Tables, prev : Nat \cup {NoRow}, end : Nat \cup {NoRow}]

\* Extent.Validate: a non-empty range of rows.
Validate(e) == e.prev # NoRow /\ e.end # NoRow => e.prev < e.end

\* endsAtOrBelow: a range ending at end lies wholly below one starting above prev.
EndsAtOrBelow(end, prev) == end # NoRow /\ prev # NoRow /\ end <= prev

\* Extent.Overlaps
Overlaps(e, f) ==
    /\ e.table = f.table
    /\ ~EndsAtOrBelow(e.end, f.prev)
    /\ ~EndsAtOrBelow(f.end, e.prev)

\* compareLowerBounds(a, b) < 0
LowerBelow(a, b) == b # NoRow /\ (a = NoRow \/ a < b)

\* The rows of an extent: the meaning Overlaps is checked against.
Contains(e, row) ==
    /\ e.prev = NoRow \/ e.prev < row
    /\ e.end = NoRow \/ row <= e.end
=============================================================================
