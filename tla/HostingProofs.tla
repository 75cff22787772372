--------------------------- MODULE HostingProofs ---------------------------
(***************************************************************************)
(* Theorems about Hosting, for every set of extents, locks and attempts.   *)
(***************************************************************************)
EXTENDS Hosting, WellFoundedInduction, TLAPS

\* Every non-empty set of natural numbers has a least element.
LEMMA LeastNatural ==
    ASSUME NEW S \in SUBSET Nat, S # {}
    PROVE  \E n \in S : \A m \in S : n <= m
<1>1. PICK n \in S : \A m \in S : ~(<<m, n>> \in OpToRel(<, Nat))
  BY WFMin, NatLessThanWellFounded
<1>2. \A m \in S : ~(m < n)
  BY <1>1 DEF OpToRel
<1>. QED  BY <1>2

\* An index of entries; what track, release and overlapping work on.
LEMMA LowerBoundIndexExists ==
    ASSUME NEW entries \in Seq(Extents), NEW e \in Extents
    PROVE  LET i == LowerBoundIndex(entries, e) IN
           /\ i \in 1..Len(entries) + 1
           /\ \A k \in 1..i - 1 : LowerBelow(entries[k].prev, e.prev)
           /\ i <= Len(entries) => ~LowerBelow(entries[i].prev, e.prev)
<1>. DEFINE S == {i \in 1..Len(entries) + 1 :
                    i <= Len(entries) => ~LowerBelow(entries[i].prev, e.prev)}
<1>1. S \in SUBSET Nat /\ Len(entries) + 1 \in S
  OBVIOUS
<1>2. PICK i \in S : \A m \in S : i <= m
  BY <1>1, LeastNatural
<1>3. \A k \in 1..i - 1 : LowerBelow(entries[k].prev, e.prev)
  BY <1>2
<1>4. \E j \in 1..Len(entries) + 1 :
        /\ \A k \in 1..j - 1 : LowerBelow(entries[k].prev, e.prev)
        /\ j <= Len(entries) => ~LowerBelow(entries[j].prev, e.prev)
  BY <1>2, <1>3
<1>. QED  BY <1>4 DEF LowerBoundIndex

----------------------------------------------------------------------------
(* The range index.                                                        *)

\* Inserting gives an index one longer that holds e as well, and stays sorted
\* when e's lower bound is not in it yet.
LEMMA InsertedIndex ==
    ASSUME NEW entries \in Seq(Extents), NEW e \in Extents
    PROVE  /\ Inserted(entries, e) \in Seq(Extents)
           /\ Len(Inserted(entries, e)) = Len(entries) + 1
           /\ \A f : Has(Inserted(entries, e), f) <=> f = e \/ Has(entries, f)
           /\ Sorted(entries) /\ (\A k \in 1..Len(entries) : entries[k].prev # e.prev)
                => Sorted(Inserted(entries, e))
<1>. DEFINE i == LowerBoundIndex(entries, e)
            s == Inserted(entries, e)
<1>1. /\ i \in 1..Len(entries) + 1
      /\ \A k \in 1..i - 1 : LowerBelow(entries[k].prev, e.prev)
      /\ i <= Len(entries) => ~LowerBelow(entries[i].prev, e.prev)
  BY LowerBoundIndexExists
<1>2. /\ Len(entries) \in Nat
      /\ \A k \in 1..Len(entries) : entries[k] \in Extents
  OBVIOUS
<1>3. s = [k \in 1..Len(entries) + 1 |->
            IF k < i THEN entries[k] ELSE IF k = i THEN e ELSE entries[k - 1]]
  BY DEF Inserted
<1>. HIDE DEF i, s
<1>4. s \in Seq(Extents) /\ Len(s) = Len(entries) + 1
  <2>1. \A k \in 1..Len(entries) + 1 : s[k] \in Extents
    BY <1>1, <1>2, <1>3
  <2>. QED  BY <1>2, <1>3, <2>1
<1>5. ASSUME NEW f PROVE Has(s, f) <=> f = e \/ Has(entries, f)
  <2>1. ASSUME NEW k \in 1..Len(s), s[k] = f PROVE f = e \/ Has(entries, f)
    BY <1>1, <1>2, <1>3, <1>4, <2>1 DEF Has
  <2>2. s[i] = e /\ i \in 1..Len(s)
    BY <1>1, <1>2, <1>3, <1>4
  <2>3. ASSUME NEW k \in 1..Len(entries), entries[k] = f PROVE Has(s, f)
    <3>1. CASE k < i
      <4>1. s[k] = f /\ k \in 1..Len(s)
        BY <1>1, <1>2, <1>3, <1>4, <2>3, <3>1
      <4>. QED  BY <4>1 DEF Has
    <3>2. CASE ~(k < i)
      <4>1. s[k + 1] = f /\ k + 1 \in 1..Len(s)
        BY <1>1, <1>2, <1>3, <1>4, <2>3, <3>2
      <4>. QED  BY <4>1 DEF Has
    <3>. QED  BY <3>1, <3>2
  <2>. QED  BY <2>1, <2>2, <2>3 DEF Has
<1>6. ASSUME Sorted(entries), \A k \in 1..Len(entries) : entries[k].prev # e.prev
      PROVE  Sorted(s)
  <2>1. ASSUME NEW p \in 1..Len(s), NEW q \in 1..Len(s), p < q
        PROVE  LowerBelow(s[p].prev, s[q].prev)
    <3>1. \A k \in 1..Len(entries) : k >= i => LowerBelow(e.prev, entries[k].prev)
      <4>1. ASSUME NEW k \in 1..Len(entries), k >= i
            PROVE  LowerBelow(e.prev, entries[k].prev)
        <5>1. /\ e.prev \in Nat \cup {NoRow}
              /\ entries[k].prev \in Nat \cup {NoRow}
              /\ entries[i].prev \in Nat \cup {NoRow}
          BY <1>1, <1>2, <4>1, ExtentsAssumption
        <5>2. LowerBelow(e.prev, entries[i].prev)
          BY <1>1, <1>2, <1>6, <4>1, <5>1, NoRowAssumption DEF LowerBelow
        <5>3. k = i \/ LowerBelow(entries[i].prev, entries[k].prev)
          BY <1>1, <1>2, <1>6, <4>1 DEF Sorted
        <5>. QED  BY <5>1, <5>2, <5>3, NoRowAssumption DEF LowerBelow
      <4>. QED  BY <4>1
    <3>2. CASE p < i /\ q < i
      BY <1>1, <1>2, <1>3, <1>4, <1>6, <2>1, <3>2 DEF Sorted
    <3>3. CASE p < i /\ q = i
      BY <1>1, <1>2, <1>3, <1>4, <2>1, <3>3
    <3>4. CASE p < i /\ q > i
      <4>2. s[p] = entries[p] /\ s[q] = entries[q - 1]
        BY <1>1, <1>2, <1>3, <1>4, <3>4
      <4>3. LowerBelow(entries[p].prev, e.prev) /\ LowerBelow(e.prev, entries[q - 1].prev)
        BY <1>1, <1>2, <1>4, <3>1, <3>4
      <4>4. /\ e.prev \in Nat \cup {NoRow}
            /\ entries[p].prev \in Nat \cup {NoRow}
            /\ entries[q - 1].prev \in Nat \cup {NoRow}
        BY <1>1, <1>2, <1>4, <3>4, ExtentsAssumption
      <4>. QED  BY <4>2, <4>3, <4>4, NoRowAssumption DEF LowerBelow
    <3>5. CASE p = i
      BY <1>1, <1>2, <1>3, <1>4, <2>1, <3>1, <3>5
    <3>6. CASE p > i
      <4>1. s[p] = entries[p - 1] /\ s[q] = entries[q - 1]
        BY <1>1, <1>2, <1>3, <1>4, <2>1, <3>6
      <4>2. p - 1 \in 1..Len(entries) /\ q - 1 \in 1..Len(entries) /\ p - 1 < q - 1
        BY <1>1, <1>2, <1>4, <2>1, <3>6
      <4>. QED  BY <4>1, <4>2, <1>6 DEF Sorted
    <3>. QED  BY <1>1, <1>4, <2>1, <3>2, <3>3, <3>4, <3>5, <3>6
  <2>. QED  BY <2>1 DEF Sorted
<1>. QED  BY <1>4, <1>5, <1>6 DEF s

\* In a sorted index the search finds the entry itself, so deleting takes out
\* exactly that entry and leaves the others in order.
LEMMA DeletedIndex ==
    ASSUME NEW entries \in Seq(Extents), NEW e \in Extents, Sorted(entries), Has(entries, e)
    PROVE  /\ Deleted(entries, e) \in Seq(Extents)
           /\ Sorted(Deleted(entries, e))
           /\ \A f : Has(Deleted(entries, e), f) <=> f # e /\ Has(entries, f)
<1>. DEFINE i == LowerBoundIndex(entries, e)
            s == Deleted(entries, e)
<1>1. /\ i \in 1..Len(entries) + 1
      /\ \A k \in 1..i - 1 : LowerBelow(entries[k].prev, e.prev)
      /\ i <= Len(entries) => ~LowerBelow(entries[i].prev, e.prev)
  BY LowerBoundIndexExists
<1>2. /\ Len(entries) \in Nat
      /\ \A k \in 1..Len(entries) :
            entries[k] \in Extents /\ entries[k].prev \in Nat \cup {NoRow}
      /\ e.prev \in Nat \cup {NoRow}
  BY ExtentsAssumption
<1>3. \A p, q \in 1..Len(entries) : p < q => LowerBelow(entries[p].prev, entries[q].prev)
  BY DEF Sorted
<1>4. PICK k \in 1..Len(entries) : entries[k] = e
  BY DEF Has
<1>. HIDE DEF i, s
<1>5. i = k
  <2>1. CASE i < k
    <3>1. LowerBelow(entries[i].prev, e.prev)
      BY <1>1, <1>2, <1>3, <1>4, <2>1
    <3>. QED  BY <1>1, <1>2, <2>1, <3>1
  <2>2. CASE i > k
    <3>1. LowerBelow(e.prev, e.prev)
      BY <1>1, <1>2, <1>4, <2>2
    <3>. QED  BY <1>2, <3>1, NoRowAssumption DEF LowerBelow
  <2>. QED  BY <1>1, <1>2, <2>1, <2>2
<1>6. s = [j \in 1..Len(entries) - 1 |-> IF j < k THEN entries[j] ELSE entries[j + 1]]
  BY <1>2, <1>4, <1>5 DEF s, Deleted, i
<1>7. s \in Seq(Extents) /\ Len(s) = Len(entries) - 1
  <2>1. \A j \in 1..Len(entries) - 1 : s[j] \in Extents
    BY <1>2, <1>4, <1>6
  <2>. QED  BY <1>2, <1>4, <1>6, <2>1
<1>8. Sorted(s)
  <2>1. ASSUME NEW p \in 1..Len(s), NEW q \in 1..Len(s), p < q
        PROVE  LowerBelow(s[p].prev, s[q].prev)
    <3>1. PICK a \in 1..Len(entries), b \in 1..Len(entries) :
             a < b /\ s[p] = entries[a] /\ s[q] = entries[b]
      <4>1. CASE q < k
        <5>1. /\ p \in 1..Len(entries) /\ q \in 1..Len(entries)
              /\ s[p] = entries[p] /\ s[q] = entries[q]
          BY <1>2, <1>4, <1>6, <1>7, <2>1, <4>1
        <5>. QED  BY <2>1, <5>1
      <4>2. CASE ~(q < k) /\ p < k
        <5>1. s[p] = entries[p] /\ s[q] = entries[q + 1]
          BY <1>2, <1>4, <1>6, <1>7, <2>1, <4>2
        <5>. QED  BY <1>2, <1>4, <1>7, <2>1, <4>2, <5>1
      <4>3. CASE ~(p < k)
        <5>1. s[p] = entries[p + 1] /\ s[q] = entries[q + 1]
          BY <1>2, <1>4, <1>6, <1>7, <2>1, <4>3
        <5>2. p + 1 \in 1..Len(entries) /\ q + 1 \in 1..Len(entries) /\ p + 1 < q + 1
          BY <1>2, <1>7, <2>1
        <5>. QED  BY <5>1, <5>2
      <4>. QED  BY <4>1, <4>2, <4>3
    <3>. QED  BY <1>3, <3>1
  <2>. QED  BY <2>1 DEF Sorted
<1>9. ASSUME NEW f PROVE Has(s, f) <=> f # e /\ Has(entries, f)
  <2>1. ASSUME NEW a \in 1..Len(entries), entries[a] = e PROVE a = k
    <3>1. a < k \/ a > k => LowerBelow(e.prev, e.prev)
      BY <1>3, <1>4, <2>1
    <3>. QED  BY <1>2, <3>1, NoRowAssumption DEF LowerBelow
  <2>2. ASSUME NEW p \in 1..Len(s), s[p] = f PROVE f # e /\ Has(entries, f)
    <3>1. PICK a \in 1..Len(entries) : a # k /\ s[p] = entries[a]
      <4>1. CASE p < k
        <5>1. p \in 1..Len(entries) /\ p # k /\ s[p] = entries[p]
          BY <1>2, <1>4, <1>6, <1>7, <4>1
        <5>. QED  BY <5>1
      <4>2. CASE ~(p < k)
        <5>1. p + 1 \in 1..Len(entries) /\ p + 1 # k /\ s[p] = entries[p + 1]
          BY <1>2, <1>4, <1>6, <1>7, <4>2
        <5>. QED  BY <5>1
      <4>. QED  BY <4>1, <4>2
    <3>. QED  BY <2>1, <2>2, <3>1 DEF Has
  <2>3. ASSUME NEW a \in 1..Len(entries), entries[a] = f, f # e PROVE Has(s, f)
    <3>1. CASE a < k
      <4>1. a \in 1..Len(s) /\ s[a] = f
        BY <1>2, <1>4, <1>6, <1>7, <2>3, <3>1
      <4>. QED  BY <4>1 DEF Has
    <3>2. CASE a > k
      <4>1. a - 1 \in 1..Len(s) /\ s[a - 1] = f
        BY <1>2, <1>4, <1>6, <1>7, <2>3, <3>2
      <4>. QED  BY <4>1 DEF Has
    <3>. QED  BY <1>4, <2>3, <3>1, <3>2
  <2>. QED  BY <2>2, <2>3 DEF Has
<1>. QED  BY <1>7, <1>8, <1>9 DEF s

\* In a sorted index of valid, pairwise disjoint extents of one table, the two
\* neighbours of the insertion point decide whether any entry overlaps e.
LEMMA OverlappingExact ==
    ASSUME NEW entries \in Seq(Extents), NEW e \in Extents, Sorted(entries), Validate(e),
           \A k \in 1..Len(entries) : Validate(entries[k]) /\ entries[k].table = e.table,
           \A p, q \in 1..Len(entries) : p # q => ~Overlaps(entries[p], entries[q])
    PROVE  Overlapping(entries, e) <=> \E k \in 1..Len(entries) : Overlaps(entries[k], e)
<1>. DEFINE i == LowerBoundIndex(entries, e)
<1>1. /\ i \in 1..Len(entries) + 1
      /\ \A k \in 1..i - 1 : LowerBelow(entries[k].prev, e.prev)
      /\ i <= Len(entries) => ~LowerBelow(entries[i].prev, e.prev)
  BY LowerBoundIndexExists
<1>2. /\ Len(entries) \in Nat
      /\ \A k \in 1..Len(entries) :
            /\ entries[k] \in Extents
            /\ entries[k].prev \in Nat \cup {NoRow} /\ entries[k].end \in Nat \cup {NoRow}
      /\ e.prev \in Nat \cup {NoRow} /\ e.end \in Nat \cup {NoRow}
  BY ExtentsAssumption
<1>3. \A p, q \in 1..Len(entries) : p < q => LowerBelow(entries[p].prev, entries[q].prev)
  BY DEF Sorted
<1>4. Overlapping(entries, e) <=>
          (i > 1 /\ Overlaps(entries[i - 1], e)) \/ (i <= Len(entries) /\ Overlaps(entries[i], e))
  BY DEF Overlapping
<1>. HIDE DEF i
<1>5. ASSUME NEW k \in 1..Len(entries), k < i - 1 PROVE ~Overlaps(entries[k], e)
  <2>1. i - 1 \in 1..Len(entries) /\ k < i - 1 /\ k # i - 1
    BY <1>1, <1>2, <1>5
  <2>. DEFINE f == entries[i - 1]
              g == entries[k]
  <2>2. LowerBelow(g.prev, f.prev) /\ LowerBelow(f.prev, e.prev) /\ ~Overlaps(g, f)
    BY <1>1, <1>3, <2>1
  <2>3. /\ f.prev \in Nat \cup {NoRow} /\ f.end \in Nat \cup {NoRow}
        /\ g.prev \in Nat \cup {NoRow} /\ g.end \in Nat \cup {NoRow}
        /\ Validate(f) /\ f.table = e.table /\ g.table = e.table
    BY <1>2, <2>1
  <2>. HIDE DEF f, g
  <2>4. EndsAtOrBelow(g.end, f.prev)
    BY <2>2, <2>3, NoRowAssumption DEF Overlaps, EndsAtOrBelow, LowerBelow, Validate
  <2>5. EndsAtOrBelow(g.end, e.prev)
    BY <1>2, <2>2, <2>3, <2>4, NoRowAssumption DEF EndsAtOrBelow, LowerBelow
  <2>. QED  BY <2>5 DEF Overlaps, g
<1>6. ASSUME NEW k \in 1..Len(entries), k > i, ~Overlaps(entries[i], e)
      PROVE  ~Overlaps(entries[k], e)
  <2>1. i \in 1..Len(entries)
    BY <1>1, <1>2, <1>6
  <2>. DEFINE f == entries[i]
              g == entries[k]
  <2>2. LowerBelow(f.prev, g.prev) /\ ~LowerBelow(f.prev, e.prev) /\ ~Overlaps(f, e)
    BY <1>1, <1>3, <1>6, <2>1
  <2>3. /\ f.prev \in Nat \cup {NoRow} /\ f.end \in Nat \cup {NoRow}
        /\ g.prev \in Nat \cup {NoRow} /\ g.end \in Nat \cup {NoRow}
        /\ Validate(f) /\ f.table = e.table /\ g.table = e.table
    BY <1>2, <2>1
  <2>. HIDE DEF f, g
  <2>4. EndsAtOrBelow(e.end, f.prev)
    BY <1>2, <2>2, <2>3, NoRowAssumption DEF Overlaps, EndsAtOrBelow, LowerBelow, Validate
  <2>5. EndsAtOrBelow(e.end, g.prev)
    BY <1>2, <2>2, <2>3, <2>4, NoRowAssumption DEF EndsAtOrBelow, LowerBelow
  <2>. QED  BY <2>5 DEF Overlaps, g
<1>7. ASSUME NEW k \in 1..Len(entries), Overlaps(entries[k], e) PROVE Overlapping(entries, e)
  <2>1. k = i - 1 \/ k = i \/ k > i
    BY <1>1, <1>2, <1>5, <1>7
  <2>. QED  BY <1>1, <1>2, <1>4, <1>6, <1>7, <2>1
<1>8. ASSUME Overlapping(entries, e) PROVE \E k \in 1..Len(entries) : Overlaps(entries[k], e)
  <2>1. /\ i > 1 => i - 1 \in 1..Len(entries)
        /\ i <= Len(entries) => i \in 1..Len(entries)
    BY <1>1, <1>2
  <2>. QED  BY <1>4, <1>8, <2>1
<1>. QED  BY <1>7, <1>8

----------------------------------------------------------------------------
(* The steps that change the index.                                        *)

\* release takes one extent out of the tracked set and out of its index.
LEMMA ReleaseStep ==
    ASSUME TypeOK, IndexInv, NEW e \in Tracked, Release(e)
    PROVE  /\ tablets' \in [Extents -> [state : States, attempt : Nat]]
           /\ byTable' \in [Tables -> Seq(Extents)]
           /\ Tracked' = Tracked \ {e}
           /\ \A f \in Tracked' : tablets'[f] = tablets[f]
           /\ IndexInv'
<1>1. e \in Extents /\ e.table \in Tables /\ NoEntry \in [state : States, attempt : Nat]
  BY ExtentsAssumption DEF Tracked, NoEntry, States
<1>2. /\ byTable[e.table] \in Seq(Extents)
      /\ Sorted(byTable[e.table])
      /\ Has(byTable[e.table], e)
  BY <1>1 DEF TypeOK, IndexInv
<1>3. /\ Deleted(byTable[e.table], e) \in Seq(Extents)
      /\ Sorted(Deleted(byTable[e.table], e))
      /\ \A f : Has(Deleted(byTable[e.table], e), f) <=> f # e /\ Has(byTable[e.table], f)
  BY <1>1, <1>2, DeletedIndex
<1>4. tablets' \in [Extents -> [state : States, attempt : Nat]]
  BY <1>1 DEF Release, TypeOK
<1>5. byTable' \in [Tables -> Seq(Extents)]
  BY <1>1, <1>3 DEF Release, TypeOK
<1>6. /\ \A f \in Extents : tablets'[f] = IF f = e THEN NoEntry ELSE tablets[f]
      /\ \A t \in Tables : byTable'[t] = IF t = e.table THEN Deleted(byTable[t], e) ELSE byTable[t]
  BY DEF Release, TypeOK
<1>7. Tracked' = Tracked \ {e}
  BY <1>6 DEF Tracked, NoEntry
<1>8. \A f \in Tracked' : tablets'[f] = tablets[f]
  BY <1>6, <1>7 DEF Tracked
<1>9. IndexInv'
  <2>1. ASSUME NEW t \in Tables PROVE Sorted(byTable'[t])
    BY <1>3, <1>6 DEF IndexInv
  <2>2. ASSUME NEW t \in Tables, NEW k \in 1..Len(byTable'[t])
        PROVE  byTable'[t][k].table = t /\ byTable'[t][k] \in Tracked'
    <3>1. CASE t = e.table
      <4>1. Has(byTable'[t], byTable'[t][k])
        BY DEF Has
      <4>2. byTable'[t][k] # e /\ Has(byTable[t], byTable'[t][k])
        BY <1>3, <1>6, <3>1, <4>1
      <4>. QED  BY <1>7, <4>2 DEF Has, IndexInv
    <3>2. CASE t # e.table
      BY <1>6, <1>7, <3>2 DEF IndexInv
    <3>. QED  BY <3>1, <3>2
  <2>3. ASSUME NEW f \in Tracked' PROVE Validate(f) /\ Has(byTable'[f.table], f)
    <3>1. f.table \in Tables /\ f \in Tracked /\ f # e
      BY <1>7, ExtentsAssumption DEF Tracked
    <3>. QED  BY <1>3, <1>6, <3>1 DEF IndexInv
  <2>. QED  BY <2>1, <2>2, <2>3 DEF IndexInv
<1>. QED  BY <1>4, <1>5, <1>7, <1>8, <1>9

\* What the overlap check answers in every reachable state.
LEMMA OverlapCheckFollows ==
    ASSUME TypeOK, IndexInv, TrackedDisjoint, NEW e \in Extents, Validate(e)
    PROVE  Overlapping(byTable[e.table], e) <=> \E f \in Tracked : Overlaps(f, e)
<1>. DEFINE s == byTable[e.table]
<1>1. e.table \in Tables
  BY ExtentsAssumption
<1>2. s \in Seq(Extents) /\ Sorted(s)
  BY <1>1 DEF TypeOK, IndexInv
<1>3. \A k \in 1..Len(s) : s[k] \in Tracked /\ Validate(s[k]) /\ s[k].table = e.table
  BY <1>1 DEF IndexInv
<1>4. ASSUME NEW p \in 1..Len(s), NEW q \in 1..Len(s), p # q
      PROVE  ~Overlaps(s[p], s[q])
  <2>1. /\ s[p] \in Extents /\ s[q] \in Extents
        /\ s[p].prev \in Nat \cup {NoRow} /\ s[q].prev \in Nat \cup {NoRow}
    BY <1>2, ExtentsAssumption
  <2>2. LowerBelow(s[p].prev, s[q].prev) \/ LowerBelow(s[q].prev, s[p].prev)
    BY <1>2, <1>4 DEF Sorted
  <2>3. s[p] # s[q]
    BY <2>1, <2>2, NoRowAssumption DEF LowerBelow
  <2>. QED  BY <1>3, <2>3 DEF TrackedDisjoint
<1>5. Overlapping(s, e) <=> \E k \in 1..Len(s) : Overlaps(s[k], e)
  BY <1>2, <1>3, <1>4, OverlappingExact
<1>6. ASSUME NEW f \in Tracked, Overlaps(f, e) PROVE \E k \in 1..Len(s) : Overlaps(s[k], e)
  BY <1>6 DEF Overlaps, IndexInv, Has
<1>. QED  BY <1>3, <1>5, <1>6

\* track adds one extent to the tracked set and to its index.
LEMMA TrackStep ==
    ASSUME TypeOK, IndexInv, TrackedDisjoint,
           NEW e \in Extents, NEW entry \in [state : States, attempt : Nat],
           entry.state # "UNASSIGNED", Validate(e),
           ~Overlapping(byTable[e.table], e), Track(e, entry)
    PROVE  /\ tablets' \in [Extents -> [state : States, attempt : Nat]]
           /\ byTable' \in [Tables -> Seq(Extents)]
           /\ Tracked' = Tracked \cup {e}
           /\ \A f \in Extents : tablets'[f] = IF f = e THEN entry ELSE tablets[f]
           /\ IndexInv'
           /\ TrackedDisjoint'
<1>1. e.table \in Tables
  BY ExtentsAssumption
<1>. DEFINE s == byTable[e.table]
<1>2. s \in Seq(Extents) /\ Sorted(s)
  BY <1>1 DEF TypeOK, IndexInv
<1>3. \A f \in Tracked : ~Overlaps(f, e) /\ ~Overlaps(e, f)
  BY OverlapCheckFollows DEF Overlaps
<1>4. \A k \in 1..Len(s) : s[k] \in Tracked /\ s[k].table = e.table
  BY <1>1 DEF IndexInv
<1>5. ASSUME NEW k \in 1..Len(s) PROVE s[k].prev # e.prev
  <2>1. /\ s[k].prev \in Nat \cup {NoRow} /\ s[k].end \in Nat \cup {NoRow}
        /\ e.prev \in Nat \cup {NoRow} /\ e.end \in Nat \cup {NoRow}
    BY <1>2, ExtentsAssumption
  <2>2. Validate(s[k]) /\ ~Overlaps(s[k], e) /\ s[k].table = e.table
    BY <1>3, <1>4 DEF IndexInv
  <2>. QED  BY <2>1, <2>2, NoRowAssumption DEF Overlaps, EndsAtOrBelow, Validate
<1>6. /\ Inserted(s, e) \in Seq(Extents)
      /\ Sorted(Inserted(s, e))
      /\ \A f : Has(Inserted(s, e), f) <=> f = e \/ Has(s, f)
  BY <1>2, <1>5, InsertedIndex
<1>7. tablets' \in [Extents -> [state : States, attempt : Nat]]
  BY DEF Track, TypeOK
<1>8. byTable' \in [Tables -> Seq(Extents)]
  BY <1>1, <1>6 DEF Track, TypeOK
<1>9. /\ \A f \in Extents : tablets'[f] = IF f = e THEN entry ELSE tablets[f]
      /\ \A t \in Tables : byTable'[t] = IF t = e.table THEN Inserted(s, e) ELSE byTable[t]
  BY DEF Track, TypeOK
<1>10. Tracked' = Tracked \cup {e}
  BY <1>9 DEF Tracked
<1>11. IndexInv'
  <2>1. ASSUME NEW t \in Tables PROVE Sorted(byTable'[t])
    BY <1>6, <1>9 DEF IndexInv
  <2>2. ASSUME NEW t \in Tables, NEW k \in 1..Len(byTable'[t])
        PROVE  byTable'[t][k].table = t /\ byTable'[t][k] \in Tracked'
    <3>1. CASE t = e.table
      <4>1. Has(byTable'[t], byTable'[t][k])
        BY DEF Has
      <4>2. byTable'[t][k] = e \/ Has(s, byTable'[t][k])
        BY <1>6, <1>9, <3>1, <4>1
      <4>. QED  BY <1>4, <1>10, <3>1, <4>2 DEF Has
    <3>2. CASE t # e.table
      BY <1>9, <1>10, <3>2 DEF IndexInv
    <3>. QED  BY <3>1, <3>2
  <2>3. ASSUME NEW f \in Tracked' PROVE Validate(f) /\ Has(byTable'[f.table], f)
    <3>1. f.table \in Tables
      BY ExtentsAssumption DEF Tracked
    <3>. QED  BY <1>6, <1>9, <1>10, <3>1 DEF IndexInv
  <2>. QED  BY <2>1, <2>2, <2>3 DEF IndexInv
<1>12. TrackedDisjoint'
  BY <1>3, <1>10 DEF TrackedDisjoint
<1>. QED  BY <1>7, <1>8, <1>9, <1>10, <1>11, <1>12

----------------------------------------------------------------------------
(* The invariant.                                                          *)

\* The initial state satisfies the inductive invariant.
LEMMA InitInv == Init => Inv
<1>. SUFFICES ASSUME Init PROVE Inv
  OBVIOUS
<1>1. Tracked = {}
  BY DEF Init, Tracked, NoEntry
<1>2. TypeOK
  BY DEF Init, TypeOK, NoEntry, States
<1>3. IndexInv
  BY <1>1 DEF Init, IndexInv, Sorted
<1>. QED  BY <1>1, <1>2, <1>3 DEF Init, Inv, TrackedDisjoint, NewestInv, AttemptInv,
                                 ClaimsUnderHeldLock, HostedWasLoaded

\* A step that leaves the tracked set and the index alone.
LEMMA SameTracked ==
    ASSUME Inv, Tracked' = Tracked, byTable' = byTable
    PROVE  IndexInv' /\ TrackedDisjoint'
BY DEF Inv, IndexInv, TrackedDisjoint

\* Releasing one tracked extent and changing nothing else.
LEMMA ReleaseInv ==
    ASSUME Inv, NEW e \in Tracked, Release(e),
           UNCHANGED <<held, newest, manager, newestManager, nextAttempt, attempts, loaded>>
    PROVE  Inv'
<1>1. /\ tablets' \in [Extents -> [state : States, attempt : Nat]]
      /\ byTable' \in [Tables -> Seq(Extents)]
      /\ Tracked' = Tracked \ {e}
      /\ \A f \in Tracked' : tablets'[f] = tablets[f]
      /\ IndexInv'
  BY ReleaseStep DEF Inv
<1>2. TypeOK'
  BY <1>1 DEF Inv, TypeOK
<1>3. TrackedDisjoint'
  BY <1>1 DEF Inv, TrackedDisjoint
<1>4. NewestInv' /\ AttemptInv'
  BY DEF Inv, NewestInv, AttemptInv
<1>5. ClaimsUnderHeldLock' /\ HostedWasLoaded'
  BY <1>1 DEF Inv, ClaimsUnderHeldLock, HostedWasLoaded
<1>. QED  BY <1>1, <1>2, <1>3, <1>4, <1>5 DEF Inv

\* Moving one tracked extent to another state, and changing nothing else.
LEMMA RestateInv ==
    ASSUME Inv, NEW e \in Tracked, NEW state \in States, state # "UNASSIGNED",
           state = "HOSTED" => tablets[e].attempt \in loaded,
           tablets' = [tablets EXCEPT ![e].state = state],
           UNCHANGED <<held, newest, manager, newestManager, byTable, nextAttempt, attempts, loaded>>
    PROVE  Inv'
<1>1. e \in Extents /\ tablets \in [Extents -> [state : States, attempt : Nat]]
  BY DEF Inv, TypeOK, Tracked
<1>2. \A f \in Extents : /\ tablets'[f].attempt = tablets[f].attempt
                         /\ tablets'[f].state = IF f = e THEN state ELSE tablets[f].state
  BY <1>1
<1>3. Tracked' = Tracked
  BY <1>2 DEF Tracked
<1>4. TypeOK'
  BY <1>1 DEF Inv, TypeOK
<1>5. NewestInv' /\ AttemptInv'
  BY DEF Inv, NewestInv, AttemptInv
<1>6. ClaimsUnderHeldLock' /\ HostedWasLoaded'
  BY <1>2, <1>3 DEF Inv, ClaimsUnderHeldLock, HostedWasLoaded, Tracked
<1>. QED  BY <1>3, <1>4, <1>5, <1>6, SameTracked DEF Inv

\* Every step of the Host, of the manager and of the lock preserves it.
LEMMA NextInv == Inv /\ [Next]_vars => Inv'
<1>. SUFFICES ASSUME Inv, [Next]_vars PROVE Inv'
  OBVIOUS
<1>1. ASSUME NEW lock \in ServerLocks, AdoptLock(lock) PROVE Inv'
  <2>1. Tracked' = Tracked /\ Tracked = {}
    BY <1>1 DEF AdoptLock, Tracked
  <2>2. TypeOK' /\ NewestInv' /\ AttemptInv'
    BY <1>1 DEF AdoptLock, Inv, TypeOK, NewestInv, AttemptInv
  <2>3. ClaimsUnderHeldLock' /\ HostedWasLoaded'
    BY <2>1 DEF ClaimsUnderHeldLock, HostedWasLoaded
  <2>. QED  BY <1>1, <2>1, <2>2, <2>3, SameTracked DEF Inv, AdoptLock
<1>2. ASSUME NEW lock \in ServerLocks, LoseLock(lock) PROVE Inv'
  <2>1. Tracked' = {}
    BY <1>2 DEF LoseLock, Tracked, NoEntry
  <2>2. TypeOK'
    BY <1>2 DEF LoseLock, Inv, TypeOK, NoEntry, States
  <2>3. NewestInv' /\ AttemptInv'
    BY <1>2 DEF LoseLock, Inv, NewestInv, AttemptInv
  <2>4. IndexInv'
    BY <1>2, <2>1 DEF LoseLock, IndexInv, Sorted
  <2>. QED  BY <2>1, <2>2, <2>3, <2>4 DEF Inv, TrackedDisjoint, ClaimsUnderHeldLock, HostedWasLoaded
<1>3. ASSUME NEW lock \in ManagerLocks, ObserveManagerLock(lock) PROVE Inv'
  <2>1. Tracked' = Tracked
    BY <1>3 DEF ObserveManagerLock, Tracked
  <2>2. TypeOK' /\ NewestInv' /\ AttemptInv'
    BY <1>3 DEF ObserveManagerLock, Inv, TypeOK, NewestInv, AttemptInv
  <2>3. ClaimsUnderHeldLock' /\ HostedWasLoaded'
    BY <1>3, <2>1 DEF ObserveManagerLock, Inv, ClaimsUnderHeldLock, HostedWasLoaded
  <2>. QED  BY <1>3, <2>1, <2>2, <2>3, SameTracked DEF Inv, ObserveManagerLock
<1>4. ASSUME ClearManagerLock PROVE Inv'
  <2>1. Tracked' = Tracked
    BY <1>4 DEF ClearManagerLock, Tracked
  <2>2. TypeOK' /\ NewestInv' /\ AttemptInv'
    BY <1>4 DEF ClearManagerLock, Inv, TypeOK, NewestInv, AttemptInv
  <2>3. ClaimsUnderHeldLock' /\ HostedWasLoaded'
    BY <1>4, <2>1 DEF ClearManagerLock, Inv, ClaimsUnderHeldLock, HostedWasLoaded
  <2>. QED  BY <1>4, <2>1, <2>2, <2>3, SameTracked DEF Inv, ClearManagerLock
<1>5. ASSUME NEW fence \in Fences, NEW e \in Extents, Assign(fence, e) PROVE Inv'
  <2>. DEFINE entry == [state |-> "LOADING", attempt |-> nextAttempt]
              handle == [extent |-> e, lock |-> held, id |-> nextAttempt]
  <2>1. entry \in [state : States, attempt : Nat] /\ entry.state # "UNASSIGNED"
    BY DEF Inv, TypeOK, States
  <2>2. /\ tablets' \in [Extents -> [state : States, attempt : Nat]]
        /\ byTable' \in [Tables -> Seq(Extents)]
        /\ Tracked' = Tracked \cup {e}
        /\ \A f \in Extents : tablets'[f] = IF f = e THEN entry ELSE tablets[f]
        /\ IndexInv'
        /\ TrackedDisjoint'
    BY <1>5, <2>1, TrackStep DEF Inv, Assign
  <2>3. handle \in Handles
    BY <1>5 DEF Assign, CheckFence, CheckServerLock, Inv, TypeOK, Handles
  <2>4. TypeOK'
    BY <1>5, <2>2, <2>3 DEF Assign, Inv, TypeOK
  <2>5. NewestInv'
    BY <1>5 DEF Assign, Inv, NewestInv
  <2>6. AttemptInv'
    <3>1. nextAttempt \in Nat /\ nextAttempt' = nextAttempt + 1 /\ attempts' = attempts \cup {handle}
      BY <1>5 DEF Assign, Inv, TypeOK
    <3>2. \A h \in attempts : h.id \in Nat /\ h.id < nextAttempt
      BY DEF Inv, TypeOK, AttemptInv, Handles
    <3>3. \A g, h \in attempts : g.id = h.id => g = h
      BY DEF Inv, AttemptInv
    <3>4. handle.id = nextAttempt
      OBVIOUS
    <3>. HIDE DEF handle
    <3>. QED  BY <3>1, <3>2, <3>3, <3>4 DEF AttemptInv
  <2>7. ClaimsUnderHeldLock'
    <3>1. held' = held /\ attempts' = attempts \cup {handle}
      BY <1>5 DEF Assign
    <3>2. ASSUME NEW f \in Tracked' PROVE [extent |-> f, lock |-> held', id |-> tablets'[f].attempt] \in attempts'
      <4>1. f \in Extents
        BY DEF Tracked
      <4>2. CASE f = e
        BY <2>2, <3>1, <4>2
      <4>3. CASE f # e
        <5>1. f \in Tracked /\ tablets'[f] = tablets[f]
          BY <2>2, <4>1, <4>3
        <5>. QED  BY <3>1, <5>1 DEF Inv, ClaimsUnderHeldLock
      <4>. QED  BY <4>2, <4>3
    <3>. QED  BY <3>2 DEF ClaimsUnderHeldLock
  <2>8. HostedWasLoaded'
    <3>1. loaded' = loaded
      BY <1>5 DEF Assign
    <3>. QED  BY <2>2, <3>1 DEF Inv, HostedWasLoaded, Tracked
  <2>. QED  BY <2>2, <2>4, <2>5, <2>6, <2>7, <2>8 DEF Inv
<1>6. ASSUME NEW fence \in Fences, NEW e \in Extents, UnassignImmediate(fence, e) PROVE Inv'
  BY <1>6, ReleaseInv DEF UnassignImmediate
<1>7. ASSUME NEW fence \in Fences, NEW e \in Extents, UnassignGraceful(fence, e) PROVE Inv'
  BY <1>7, RestateInv DEF UnassignGraceful, States
<1>8. ASSUME NEW h \in attempts, BackendLoads(h) PROVE Inv'
  <2>1. Tracked' = Tracked
    BY <1>8 DEF BackendLoads, hostVars, Tracked
  <2>2. h.id \in Nat
    BY DEF Inv, TypeOK, Handles
  <2>3. TypeOK' /\ NewestInv' /\ AttemptInv'
    BY <1>8, <2>2 DEF BackendLoads, hostVars, Inv, TypeOK, NewestInv, AttemptInv
  <2>4. ClaimsUnderHeldLock' /\ HostedWasLoaded'
    BY <1>8, <2>1 DEF BackendLoads, hostVars, Inv, ClaimsUnderHeldLock, HostedWasLoaded
  <2>. QED  BY <1>8, <2>1, <2>3, <2>4, SameTracked DEF Inv, BackendLoads, hostVars
<1>9. ASSUME NEW h \in attempts, LoadComplete(h) PROVE Inv'
  BY <1>9, RestateInv DEF LoadComplete, Transition, States
<1>10. ASSUME NEW h \in attempts, LoadFailed(h) PROVE Inv'
  BY <1>10, ReleaseInv DEF LoadFailed, Transition
<1>11. ASSUME NEW h \in attempts, UnloadComplete(h) PROVE Inv'
  BY <1>11, ReleaseInv DEF UnloadComplete, Transition
<1>12. ASSUME UNCHANGED vars PROVE Inv'
  <2>1. Tracked' = Tracked
    BY <1>12 DEF vars, hostVars, Tracked
  <2>2. TypeOK' /\ NewestInv' /\ AttemptInv' /\ ClaimsUnderHeldLock' /\ HostedWasLoaded'
    BY <1>12, <2>1 DEF vars, hostVars, Inv, TypeOK, NewestInv, AttemptInv, ClaimsUnderHeldLock,
                       HostedWasLoaded
  <2>. QED  BY <1>12, <2>1, <2>2, SameTracked DEF Inv, vars, hostVars
<1>. QED  BY <1>1, <1>2, <1>3, <1>4, <1>5, <1>6, <1>7, <1>8, <1>9, <1>10, <1>11, <1>12 DEF Next

\* Inv holds in every reachable state of the host: the tracked tablets, the
\* index, the locks and the attempt numbers stay consistent with each other.
THEOREM Safety == Spec => []Inv
BY InitInv, NextInv, PTL DEF Spec

\* Every variable of the host keeps its type.
THEOREM TypeCorrect == Spec => []TypeOK
<1>1. Inv => TypeOK
  BY DEF Inv
<1>. QED  BY <1>1, Safety, PTL

\* No two tracked tablets share rows, for any set of extents: Host.Assign's
\* two-neighbour check is enough to keep the tablets of a server apart.
THEOREM Disjointness == Spec => []TrackedDisjoint
<1>1. Inv => TrackedDisjoint
  BY DEF Inv
<1>. QED  BY <1>1, Safety, PTL

\* The binary search over the index answers as a scan of every tablet would.
THEOREM OverlapExactness == Spec => []OverlapCheckExact
<1>1. Inv => OverlapCheckExact
  BY OverlapCheckFollows DEF Inv, OverlapCheckExact
<1>. QED  BY <1>1, Safety, PTL

\* A hosted tablet was loaded by the assignment that hosts it.
THEOREM HostedLoaded == Spec => []HostedWasLoaded
<1>1. Inv => HostedWasLoaded
  BY DEF Inv
<1>. QED  BY <1>1, Safety, PTL

\* Every tracked tablet was assigned under the lock held now.
THEOREM ClaimsHeld == Spec => []ClaimsUnderHeldLock
<1>1. Inv => ClaimsUnderHeldLock
  BY DEF Inv
<1>. QED  BY <1>1, Safety, PTL

----------------------------------------------------------------------------
(* Rows.                                                                   *)

\* Two valid extents of one table overlap exactly when some row is in both.
LEMMA OverlapsIsSharedRow ==
    ASSUME NEW e \in Extents, NEW f \in Extents, Validate(e), Validate(f), e.table = f.table
    PROVE  Overlaps(e, f) <=> \E row \in Int : Contains(e, row) /\ Contains(f, row)
<1>1. /\ e.prev \in Nat \cup {NoRow} /\ e.end \in Nat \cup {NoRow}
      /\ f.prev \in Nat \cup {NoRow} /\ f.end \in Nat \cup {NoRow}
  BY ExtentsAssumption
<1>2. ASSUME NEW row \in Int, Contains(e, row), Contains(f, row) PROVE Overlaps(e, f)
  BY <1>1, <1>2, NoRowAssumption DEF Contains, Overlaps, EndsAtOrBelow
<1>3. ASSUME Overlaps(e, f) PROVE \E row \in Int : Contains(e, row) /\ Contains(f, row)
  <2>. DEFINE Low(x, y) == IF x = NoRow THEN y ELSE IF y = NoRow THEN x ELSE IF x <= y THEN x ELSE y
  <2>1. CASE e.end = NoRow /\ f.end = NoRow
    <3>. DEFINE row == IF e.prev = NoRow THEN (IF f.prev = NoRow THEN 0 ELSE f.prev + 1)
                       ELSE IF f.prev = NoRow THEN e.prev + 1 ELSE e.prev + f.prev + 1
    <3>1. row \in Int /\ Contains(e, row) /\ Contains(f, row)
      BY <1>1, <2>1, NoRowAssumption DEF Contains
    <3>. QED  BY <3>1
  <2>2. CASE ~(e.end = NoRow /\ f.end = NoRow)
    <3>1. Low(e.end, f.end) \in Int
      BY <1>1, <2>2, NoRowAssumption
    <3>2. Contains(e, Low(e.end, f.end)) /\ Contains(f, Low(e.end, f.end))
      BY <1>1, <1>3, <2>2, NoRowAssumption DEF Contains, Overlaps, EndsAtOrBelow, Validate
    <3>. QED  BY <3>1, <3>2
  <2>. QED  BY <2>1, <2>2
<1>. QED  BY <1>2, <1>3

\* No row of a table is ever served by two tracked tablets: the meaning of
\* TrackedDisjoint, free of the bound arithmetic of extent.go.
THEOREM RowsServedOnce ==
    Spec => [](\A e, f \in Tracked : \A row \in Int :
                 e.table = f.table /\ Contains(e, row) /\ Contains(f, row) => e = f)
<1>1. Inv => \A e, f \in Tracked : \A row \in Int :
                e.table = f.table /\ Contains(e, row) /\ Contains(f, row) => e = f
  BY OverlapsIsSharedRow DEF Inv, IndexInv, TrackedDisjoint, Tracked
<1>. QED  BY <1>1, Safety, PTL

----------------------------------------------------------------------------
(* What no step does.                                                      *)

\* An assignment that ended never comes back to life, whatever late
\* notification, request or completion arrives.
THEOREM NeverRevived == Spec => AttemptNeverRevived
<1>1. Inv /\ [Next]_vars => [\A h \in attempts : Live(h)' => Live(h)]_vars
  <2>. SUFFICES ASSUME Inv, Next, NEW h \in attempts, Live(h)' PROVE Live(h)
    OBVIOUS
  <2>1. h.extent \in Extents /\ h.id \in Nat /\ h.id < nextAttempt
    BY DEF Inv, TypeOK, AttemptInv, Handles
  <2>2. /\ tablets'[h.extent].state # "UNASSIGNED"
        /\ tablets'[h.extent].attempt = h.id
    BY DEF Live, Tracked
  <2>3. tablets \in [Extents -> [state : States, attempt : Nat]] /\ nextAttempt \in Nat
    BY DEF Inv, TypeOK
  <2>. SUFFICES tablets[h.extent].state # "UNASSIGNED" /\ tablets[h.extent].attempt = h.id
    BY <2>1 DEF Live, Tracked
  <2>4. ASSUME NEW e \in Tracked, Release(e)
        PROVE  tablets[h.extent].state # "UNASSIGNED" /\ tablets[h.extent].attempt = h.id
    BY <2>1, <2>2, <2>3, <2>4 DEF Release, Tracked, NoEntry
  <2>5. ASSUME NEW e \in Tracked, NEW s, tablets' = [tablets EXCEPT ![e].state = s]
        PROVE  tablets[h.extent].state # "UNASSIGNED" /\ tablets[h.extent].attempt = h.id
    BY <2>1, <2>2, <2>3, <2>5 DEF Tracked
  <2>6. ASSUME NEW fence \in Fences, NEW e \in Extents, Assign(fence, e)
        PROVE  tablets[h.extent].state # "UNASSIGNED" /\ tablets[h.extent].attempt = h.id
    BY <2>1, <2>2, <2>3, <2>6 DEF Assign, Track
  <2>7. ASSUME NEW lock \in ServerLocks, LoseLock(lock) PROVE FALSE
    BY <2>1, <2>2, <2>7 DEF LoseLock, NoEntry
  <2>. QED  BY <2>2, <2>4, <2>5, <2>6, <2>7
            DEF Next, AdoptLock, ObserveManagerLock, ClearManagerLock, UnassignImmediate,
                UnassignGraceful, BackendLoads, LoadComplete, LoadFailed, UnloadComplete,
                Transition, hostVars
<1>. QED  BY <1>1, Safety, PTL DEF Spec, AttemptNeverRevived

\* A generation of the server lock that does not supersede one already held is
\* never held again.
THEOREM GenerationsAdvance == Spec => GenerationsOnlyAdvance
<1>. SUFFICES ASSUME NEW l1 \in ServerLocks, NEW l2 \in ServerLocks, l1 # l2, ~Supersedes(l1, l2)
              PROVE  Spec => [](held = l2 => [](held # l1))
  BY DEF GenerationsOnlyAdvance
<1>. DEFINE Past == newest # NoLock /\ newest # l1 /\ ~Supersedes(l1, newest)
<1>1. Inv /\ held = l2 => Past
  BY LocksAssumption DEF Inv, NewestInv
<1>2. Inv /\ Past => held # l1
  BY LocksAssumption DEF Inv, NewestInv
<1>3. Inv /\ Past /\ [Next]_vars => Past'
  <2>. SUFFICES ASSUME Inv, Past, [Next]_vars PROVE Past'
    OBVIOUS
  <2>1. newest \in ServerLocks /\ Sequence[newest] \in Nat /\ Sequence[l1] \in Nat
    BY LocksAssumption DEF Inv, TypeOK
  <2>2. ASSUME NEW lock \in ServerLocks, AdoptLock(lock) PROVE Past'
    <3>1. Sequence[lock] \in Nat /\ lock # NoLock
      BY LocksAssumption
    <3>. QED  BY <2>1, <2>2, <3>1 DEF AdoptLock, Supersedes
  <2>3. CASE newest' = newest
    BY <2>3
  <2>. QED  BY <2>2, <2>3 DEF Next, LoseLock, ObserveManagerLock, ClearManagerLock, Assign,
                UnassignImmediate, UnassignGraceful, BackendLoads, LoadComplete, LoadFailed,
                UnloadComplete, vars, hostVars
<1>. QED  BY <1>1, <1>2, <1>3, Safety, PTL DEF Spec

\* A manager lock superseded by one observed later never regains authority.
THEOREM ManagersAdvance == Spec => SupersededManagerNeverReturns
<1>. SUFFICES ASSUME NEW m1 \in ManagerLocks, NEW m2 \in ManagerLocks, Supersedes(m2, m1)
              PROVE  Spec => [](manager = m2 => [](manager # m1))
  BY DEF SupersededManagerNeverReturns
<1>. DEFINE Past == newestManager # NoLock /\ Supersedes(newestManager, m1)
<1>0. Sequence[m1] \in Nat /\ Sequence[m2] \in Nat
  BY LocksAssumption
<1>1. Inv /\ manager = m2 => Past
  BY LocksAssumption DEF Inv, NewestInv
<1>2. Inv /\ Past => manager # m1
  BY <1>0, LocksAssumption DEF Inv, NewestInv, Supersedes
<1>3. Inv /\ Past /\ [Next]_vars => Past'
  <2>. SUFFICES ASSUME Inv, Past, [Next]_vars PROVE Past'
    OBVIOUS
  <2>1. newestManager \in ManagerLocks /\ Sequence[newestManager] \in Nat
    BY LocksAssumption DEF Inv, TypeOK
  <2>2. ASSUME NEW lock \in ManagerLocks, ObserveManagerLock(lock) PROVE Past'
    <3>1. Sequence[lock] \in Nat /\ lock # NoLock
      BY LocksAssumption
    <3>. QED  BY <1>0, <2>1, <2>2, <3>1 DEF ObserveManagerLock, Supersedes
  <2>3. CASE newestManager' = newestManager
    BY <2>3
  <2>. QED  BY <2>2, <2>3 DEF Next, AdoptLock, LoseLock, ClearManagerLock, Assign,
                UnassignImmediate, UnassignGraceful, BackendLoads, LoadComplete, LoadFailed,
                UnloadComplete, vars, hostVars
<1>. QED  BY <1>1, <1>2, <1>3, Safety, PTL DEF Spec

----------------------------------------------------------------------------
(* Refinement.                                                             *)

\* A released extent is a claim that ended.
LEMMA ReleaseDisclaims ==
    ASSUME Inv, NEW e \in Tracked, Release(e),
           UNCHANGED <<held, newest, nextAttempt>>
    PROVE  Contract!ContractNext
<1>. DEFINE c == [extent |-> e, id |-> tablets[e].attempt, state |-> tablets[e].state]
<1>1. Tracked' = Tracked \ {e} /\ \A f \in Tracked' : tablets'[f] = tablets[f]
  BY ReleaseStep DEF Inv
<1>2. c \in Claims
  BY DEF Claims
<1>3. Claims' = Claims \ {c}
  BY <1>1 DEF Claims
<1>. QED  BY <1>2, <1>3 DEF Contract!ContractNext, Contract!Disclaim

\* A tracked extent that changes state is a claim that moves on.
LEMMA RestateAdvances ==
    ASSUME Inv, NEW e \in Tracked, NEW state \in {"HOSTED", "UNLOADING"},
           state = "HOSTED" => tablets[e].state = "LOADING",
           tablets' = [tablets EXCEPT ![e].state = state],
           UNCHANGED <<held, newest, nextAttempt>>
    PROVE  Contract!ContractNext
<1>. DEFINE c == [extent |-> e, id |-> tablets[e].attempt, state |-> tablets[e].state]
            d == [extent |-> e, id |-> tablets[e].attempt, state |-> state]
<1>1. e \in Extents /\ tablets \in [Extents -> [state : States, attempt : Nat]]
  BY DEF Inv, TypeOK, Tracked
<1>2. \A f \in Extents : /\ tablets'[f].attempt = tablets[f].attempt
                         /\ tablets'[f].state = IF f = e THEN state ELSE tablets[f].state
  BY <1>1
<1>3. Tracked' = Tracked
  BY <1>2 DEF Tracked
<1>4. c \in Claims /\ [c EXCEPT !.state = state] = d
  BY DEF Claims
<1>5. Claims' = (Claims \ {c}) \cup {d}
  <2>. DEFINE claim(f) == [extent |-> f, id |-> tablets[f].attempt, state |-> tablets[f].state]
              later(f) == [extent |-> f, id |-> tablets'[f].attempt, state |-> tablets'[f].state]
  <2>1. \A f \in Tracked : f # e => later(f) = claim(f) /\ claim(f) # c
    BY <1>2 DEF Tracked
  <2>2. later(e) = d /\ claim(e) = c
    BY <1>1, <1>2
  <2>3. Claims = {claim(f) : f \in Tracked} /\ Claims' = {later(f) : f \in Tracked}
    BY <1>3 DEF Claims
  <2>. HIDE DEF claim, later, c, d
  <2>4. ASSUME NEW x \in Claims' PROVE x \in (Claims \ {c}) \cup {d}
    BY <2>1, <2>2, <2>3
  <2>5. ASSUME NEW x \in (Claims \ {c}) \cup {d} PROVE x \in Claims'
    BY <2>1, <2>2, <2>3
  <2>. QED  BY <2>4, <2>5
<1>. QED  BY <1>4, <1>5 DEF Contract!ContractNext, Contract!Advance

\* Host implements HostingContract: with the claims read off the tablets map,
\* every step of the host is a step of the contract or leaves it alone.
THEOREM HostRefinesContract == Spec => ImplementsContract
<1>1. Init => Contract!ContractInit
  <2>. SUFFICES ASSUME Init PROVE Contract!ContractInit
    OBVIOUS
  <2>1. Tracked = {}
    BY DEF Init, Tracked, NoEntry
  <2>. QED  BY <2>1 DEF Init, Claims, Contract!ContractInit
<1>2. Inv /\ [Next]_vars => [Contract!ContractNext]_(Contract!contractVars)
  <2>. SUFFICES ASSUME Inv, [Next]_vars
                PROVE  Contract!ContractNext \/ UNCHANGED Contract!contractVars
    OBVIOUS
  <2>0. tablets' = tablets => Claims' = Claims
    BY DEF Claims, Tracked
  <2>1. ASSUME NEW lock \in ServerLocks, AdoptLock(lock) PROVE Contract!ContractNext
    <3>1. Claims = {} /\ Claims' = Claims
      BY <2>0, <2>1 DEF AdoptLock, Claims
    <3>. QED  BY <2>1, <3>1 DEF AdoptLock, Contract!ContractNext, Contract!BeginGeneration,
                               Supersedes
  <2>2. ASSUME NEW lock \in ServerLocks, LoseLock(lock) PROVE Contract!ContractNext
    <3>1. Claims' = {}
      BY <2>2 DEF LoseLock, Claims, Tracked, NoEntry
    <3>. QED  BY <2>2, <3>1 DEF LoseLock, Contract!ContractNext, Contract!EndGeneration
  <2>3. ASSUME NEW fence \in Fences, NEW e \in Extents, Assign(fence, e) PROVE Contract!ContractNext
    <3>. DEFINE entry == [state |-> "LOADING", attempt |-> nextAttempt]
                c == [extent |-> e, id |-> nextAttempt, state |-> "LOADING"]
    <3>1. entry \in [state : States, attempt : Nat] /\ entry.state # "UNASSIGNED"
      BY DEF Inv, TypeOK, States
    <3>2. /\ Tracked' = Tracked \cup {e}
          /\ \A f \in Extents : tablets'[f] = IF f = e THEN entry ELSE tablets[f]
      BY <2>3, <3>1, TrackStep DEF Inv, Assign
    <3>3. e \notin Tracked
      BY <2>3 DEF Assign, Tracked
    <3>4. Claims' = Claims \cup {c}
      <4>1. \A f \in Tracked : f # e /\ tablets'[f] = tablets[f]
        BY <3>2, <3>3 DEF Tracked
      <4>2. tablets'[e].attempt = nextAttempt /\ tablets'[e].state = "LOADING"
        BY <3>2
      <4>. QED  BY <3>2, <4>1, <4>2 DEF Claims
    <3>5. \A f \in Tracked : ~Overlaps(f, e)
      BY <2>3, OverlapCheckFollows DEF Inv, Assign
    <3>6. \A d \in Claims : ~Overlaps(d.extent, e)
      BY <3>5 DEF Claims
    <3>7. held # NoLock /\ held' = held /\ newest' = newest /\ nextAttempt' = nextAttempt + 1
      BY <2>3 DEF Assign, CheckFence, CheckServerLock
    <3>8. nextAttempt - 1 + 1 = nextAttempt /\ nextAttempt' - 1 = nextAttempt
      BY <3>7 DEF Inv, TypeOK
    <3>9. Contract!Claim(e)
      BY <3>4, <3>6, <3>7, <3>8 DEF Contract!Claim, Contract!Overlaps, Contract!EndsAtOrBelow,
                                  Overlaps, EndsAtOrBelow
    <3>. QED  BY <3>9 DEF Contract!ContractNext
  <2>4. ASSUME NEW e \in Tracked, Release(e), UNCHANGED <<held, newest, nextAttempt>>
        PROVE  Contract!ContractNext
    BY <2>4, ReleaseDisclaims
  <2>5. ASSUME NEW fence \in Fences, NEW e \in Extents, UnassignGraceful(fence, e)
        PROVE  Contract!ContractNext
    BY <2>5, RestateAdvances DEF UnassignGraceful
  <2>6. ASSUME NEW h \in attempts, LoadComplete(h) PROVE Contract!ContractNext
    BY <2>6, RestateAdvances DEF LoadComplete, Transition
  <2>7. CASE UNCHANGED <<held, newest, tablets, nextAttempt>>
    BY <2>0, <2>7 DEF Contract!contractVars
  <2>. QED  BY <2>1, <2>2, <2>3, <2>4, <2>5, <2>6, <2>7
            DEF Next, ObserveManagerLock, ClearManagerLock, UnassignImmediate, BackendLoads,
                LoadFailed, UnloadComplete, Transition, vars, hostVars
<1>. QED  BY <1>1, <1>2, Safety, PTL DEF Spec, ImplementsContract, Contract!ContractSpec

=============================================================================
