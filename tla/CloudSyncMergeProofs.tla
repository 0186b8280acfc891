------------------------ MODULE CloudSyncMergeProofs ------------------------
(***************************************************************************)
(* Proofs about CloudSyncMerge, for any sites, keys, columns and values.   *)
(*                                                                         *)
(* The argument: every statement, and every merge, makes the row of a key  *)
(* "grow" (Grows): its clocks do not move back, it bounds the changes just *)
(* merged, and what is new in it is either exported or was just merged.    *)
(* A growing row remains the join of the changes its site has seen         *)
(* (JoinGrows), hence the inductive invariant IInv; convergence follows,   *)
(* because a row that bounds a set of changes and attains each of its      *)
(* clocks in that set is determined by it.                                 *)
(*                                                                         *)
(* Two more invariants serve the theorems about other uses of keys.  When  *)
(* a key is overwritten columns move back, but lives do not, and LivesInv  *)
(* is what remains of IInv.  While no key changes, every life anybody      *)
(* knows of was exported whole (KnownWhole), so no column of a live row is *)
(* left waiting once every change has arrived.                             *)
(***************************************************************************)
EXTENDS CloudSyncMerge, TLAPS

(***************************************************************************)
(* The invariant of a row, and what an operation on it guarantees.         *)
(***************************************************************************)
\* A metadata row with site_id 0 exists.
OwnExists(r) ==
  /\ Rip \in r.own => r.rip # None
  /\ \A c \in Cols : c \in r.own => r.ver[c] # None
\* The invariant of one row.
RowInv(r) == r \in Row /\ r.rip # 0 /\ Consistent(r) /\ OwnExists(r)
\* A change as it is exported: the sentinel carries the causal length, and only
\* a live row has columns.
WellFormed(m) ==
  /\ m.cl > 0
  /\ m.col = Rip => m.ver = m.cl
  /\ m.col # Rip => m.cl % 2 = 1
\* What every operation that turns row r into q guarantees, R being the changes
\* it merged (none, for a local statement).
Grows(r, q, R) ==
  /\ NotBehind(q, r)
  /\ \A m \in R : Bounds(q, m)
  /\ LocalCl(q) > LocalCl(r) => q.own # {} \/ \E m \in R : m.cl = LocalCl(q)
  /\ \A c \in Cols : q.ver[c] > 0 =>
       \/ c \in q.own
       \/ LocalCl(q) = LocalCl(r) /\ Stamp(q, c) = Stamp(r, c)
       \/ \E m \in R : Attains(m, q, c)

(***************************************************************************)
(* The fields of a row after each statement.                               *)
(***************************************************************************)
\* Arithmetic of the causal length: successive numbers alternate.
LEMMA Parity == ASSUME NEW n \in Nat
  PROVE n % 2 \in {0, 1} /\ (n % 2 = 0 => (n+1) % 2 = 1) /\ (n % 2 = 1 => (n+1) % 2 = 0) /\ (n+2) % 2 = n % 2
  OBVIOUS

\* The sentinel statements (meta_sentinel_update_stmt, and the conflict clause of
\* meta_sentinel_insert_stmt) always produce a greater, odd causal length.
LEMMA NextAliveOdd == ASSUME NEW n \in Nat
  PROVE NextAlive(n) \in Nat /\ NextAlive(n) > n /\ NextAlive(n) % 2 = 1
  BY DEF NextAlive

\* merge_get_local_cl yields a natural number.
LEMMA LocalClNat == ASSUME NEW r \in Row PROVE LocalCl(r) \in Nat
  BY DEF LocalCl, PkExists, Row, Version, None

\* What meta_row_insert_update_stmt, run for the columns C, leaves in the row.
LEMMA MarkColsRow ==
  ASSUME NEW r \in Row, NEW C \in SUBSET Cols
  PROVE  /\ MarkCols(r, C) \in Row
         /\ MarkCols(r, C).rip = r.rip
         /\ MarkCols(r, C).live = r.live
         /\ MarkCols(r, C).val = r.val
         /\ MarkCols(r, C).own = r.own \cup C
         /\ \A c \in Cols : MarkCols(r, C).ver[c] = IF c \in C THEN Bump(r.ver[c], 1) ELSE r.ver[c]
<1>1. [c \in Cols |-> IF c \in C THEN Bump(r.ver[c], 1) ELSE r.ver[c]] \in [Cols -> Version]
  BY DEF Row, Bump, Version, None
<1>2. MarkCols(r, C) \in Row
  BY <1>1 DEF Row, MarkCols
<1>3. QED
  BY <1>2 DEF Row, MarkCols

\* What writing the user's row leaves.
LEMMA StoreRow ==
  ASSUME NEW r \in Row, NEW vals \in [Cols -> Values],
         NEW q, q = Store(r, vals)
  PROVE  /\ q \in Row /\ q.live /\ q.val = vals
         /\ q.rip = r.rip /\ q.own = r.own /\ q.ver = r.ver
  BY DEF Row, Store

\* What deleting the user's row leaves.
LEMMA EraseRow ==
  ASSUME NEW r \in Row, NEW q, q = Erase(r)
  PROVE  /\ q \in Row /\ ~q.live /\ q.val = NullRow
         /\ q.rip = r.rip /\ q.own = r.own /\ q.ver = r.ver
  BY ValuesAssumption DEF Row, Erase, NullRow, Null

\* What meta_row_drop_stmt leaves.
LEMMA DropColsRow ==
  ASSUME NEW r \in Row
  PROVE  /\ DropCols(r) \in Row
         /\ DropCols(r).rip = r.rip
         /\ DropCols(r).live = r.live
         /\ DropCols(r).val = r.val
         /\ DropCols(r).own = r.own \cap {Rip}
         /\ \A c \in Cols : DropCols(r).ver[c] = None
  BY DEF Row, DropCols, Version

\* What local_mark_delete_meta leaves.
LEMMA MarkDeleteRow ==
  ASSUME NEW r \in Row
  PROVE  /\ MarkDelete(r) \in Row
         /\ MarkDelete(r).rip = Bump(r.rip, 2)
         /\ MarkDelete(r).live = r.live
         /\ MarkDelete(r).val = r.val
         /\ MarkDelete(r).own = r.own \cup {Rip}
         /\ MarkDelete(r).ver = r.ver
<1>1. Bump(r.rip, 2) \in Version
  BY DEF Row, Bump, Version, None
<1>2. QED
  BY <1>1 DEF Row, MarkDelete, Version

\* What meta_sentinel_insert_stmt leaves.
LEMMA InsertSentinelRow ==
  ASSUME NEW r \in Row
  PROVE  /\ InsertSentinel(r) \in Row
         /\ InsertSentinel(r).rip = IF r.rip = None THEN 1 ELSE NextAlive(r.rip)
         /\ InsertSentinel(r).live = r.live
         /\ InsertSentinel(r).val = r.val
         /\ InsertSentinel(r).own = r.own \cup {Rip}
         /\ InsertSentinel(r).ver = r.ver
<1>1. (IF r.rip = None THEN 1 ELSE NextAlive(r.rip)) \in Version
  BY NextAliveOdd DEF Row, Version, None
<1>2. QED
  BY <1>1 DEF Row, InsertSentinel, Version

\* What meta_sentinel_update_stmt leaves.
LEMMA UpdateSentinelRow ==
  ASSUME NEW r \in Row
  PROVE  /\ UpdateSentinel(r) \in Row
         /\ UpdateSentinel(r).rip = IF r.rip = None THEN None ELSE NextAlive(r.rip)
         /\ UpdateSentinel(r).live = r.live
         /\ UpdateSentinel(r).val = r.val
         /\ UpdateSentinel(r).own = IF r.rip = None THEN r.own ELSE r.own \cup {Rip}
         /\ UpdateSentinel(r).ver = r.ver
<1>1. CASE r.rip = None
  BY <1>1 DEF UpdateSentinel
<1>2. CASE r.rip # None
  <2>1. NextAlive(r.rip) \in Version
    BY <1>2, NextAliveOdd DEF Row, Version, None
  <2>2. QED
    BY <1>2, <2>1 DEF Row, UpdateSentinel
<1>3. QED
  BY <1>1, <1>2

\* What meta_update_move_stmt leaves under the new key.
LEMMA MoveColsRow ==
  ASSUME NEW o \in Row, NEW r \in Row
  PROVE  /\ MoveCols(o, r) \in Row
         /\ MoveCols(o, r).rip = r.rip
         /\ MoveCols(o, r).live = r.live
         /\ MoveCols(o, r).val = r.val
         /\ MoveCols(o, r).own = r.own \cup {c \in Cols : o.ver[c] # None}
         /\ \A c \in Cols : MoveCols(o, r).ver[c] = IF o.ver[c] # None THEN 1 ELSE r.ver[c]
<1> DEFINE moved == {c \in Cols : o.ver[c] # None}
           v == [c \in Cols |-> IF c \in moved THEN 1 ELSE r.ver[c]]
<1>1. v \in [Cols -> Version]
  BY DEF Row, Version, None
<1>2. MoveCols(o, r) = [r EXCEPT !.ver = v, !.own = r.own \cup moved]
  BY DEF MoveCols, Row
<1>3. v = [c \in Cols |-> IF o.ver[c] # None THEN 1 ELSE r.ver[c]]
  OBVIOUS
<1>4. moved \subseteq Cols
  OBVIOUS
<1> HIDE DEF v
<1>5. MoveCols(o, r) \in Row
  BY <1>1, <1>2, <1>4 DEF Row
<1>6. /\ MoveCols(o, r).rip = r.rip
      /\ MoveCols(o, r).live = r.live
      /\ MoveCols(o, r).val = r.val
      /\ MoveCols(o, r).own = r.own \cup moved
      /\ MoveCols(o, r).ver = v
  BY <1>2 DEF Row
<1>7. \A c \in Cols : v[c] = IF o.ver[c] # None THEN 1 ELSE r.ver[c]
  BY <1>3
<1>8. QED
  BY <1>5, <1>6, <1>7

\* Ranges of the fields of a row.
LEMMA RowFields ==
  ASSUME NEW r \in Row
  PROVE  /\ r.rip \in Int /\ r.rip >= None
         /\ \A c \in Cols : /\ r.ver[c] \in Int /\ r.ver[c] >= None
                           /\ r.val[c] \in Values /\ r.val[c] \in Nat
         /\ r.own \subseteq Cols \cup {Rip}
<1>1. r.rip \in Version /\ r.ver \in [Cols -> Version] /\ r.val \in [Cols -> Values]
      /\ r.own \subseteq Cols \cup {Rip}
  BY DEF Row
<1>2. \A c \in Cols : r.val[c] \in Values /\ r.val[c] \in Nat
  BY <1>1, ValuesAssumption
<1>3. QED
  BY <1>1, <1>2 DEF Version, None

\* merge_set_winner_clock touches the owner of the columns C only.
LEMMA SetOwnerType ==
  ASSUME NEW r \in Row, NEW s \in Sites, NEW m \in Change, NEW C \in SUBSET (Cols \cup {Rip})
  PROVE  SetOwner(r, s, m, C) \in SUBSET (Cols \cup {Rip}) /\ SetOwner(r, s, m, C) \subseteq r.own \cup C
  BY DEF SetOwner, Row

\* What merge_sentinel_only_insert leaves.
LEMMA MergeSentinelRow ==
  ASSUME NEW r \in Row, NEW s \in Sites, NEW m \in Change, NEW cl \in Nat,
         NEW q, q = MergeSentinel(r, s, m, cl)
  PROVE  /\ q \in Row
         /\ q.rip = cl
         /\ q.live
         /\ q.val = r.val
         /\ q.own \subseteq r.own \cup {Rip}
         /\ \A c \in Cols : q.ver[c] = IF r.ver[c] = None THEN None ELSE 0
<1> DEFINE v == [c \in Cols |-> IF r.ver[c] = None THEN None ELSE 0]
           o == SetOwner(r, s, m, {Rip})
<1>1. v \in [Cols -> Version]
  BY DEF Version
<1>2. o \in SUBSET (Cols \cup {Rip})
  BY SetOwnerType
<1>3. q = [r EXCEPT !.live = TRUE, !.ver = v, !.rip = cl, !.own = o]
  BY DEF MergeSentinel, Row
<1>4. \A c \in Cols : v[c] = IF r.ver[c] = None THEN None ELSE 0
  OBVIOUS
<1> HIDE DEF v, o
<1>5. q \in Row
  BY <1>1, <1>2, <1>3 DEF Row, Version
<1>6. o \subseteq r.own \cup {Rip}
  BY SetOwnerType DEF o
<1>7. QED
  BY <1>3, <1>4, <1>5, <1>6 DEF Row

\* What merge_insert_col leaves.
LEMMA MergeColRow ==
  ASSUME NEW r \in Row, NEW s \in Sites, NEW m \in Change, m.col \in Cols,
         NEW q, q = MergeCol(r, s, m)
  PROVE  /\ q \in Row
         /\ q.rip = r.rip
         /\ q.live
         /\ q.val = [r.val EXCEPT ![m.col] = m.val]
         /\ q.own \subseteq r.own \cup {m.col}
         /\ q.ver = [r.ver EXCEPT ![m.col] = m.ver]
<1> DEFINE o == SetOwner(r, s, m, {m.col})
           w == [r.val EXCEPT ![m.col] = m.val]
           v == [r.ver EXCEPT ![m.col] = m.ver]
<1>1. v \in [Cols -> Version] /\ w \in [Cols -> Values]
  BY DEF Version, Row, Change
<1>2. o \in SUBSET (Cols \cup {Rip})
  BY SetOwnerType
<1>3. q = [r EXCEPT !.live = TRUE, !.val = w, !.ver = v, !.own = o]
  BY DEF MergeCol, Row
<1> HIDE DEF v, w, o
<1>4. q \in Row
  BY <1>1, <1>2, <1>3 DEF Row
<1>5. o \subseteq r.own \cup {m.col}
  BY SetOwnerType DEF o
<1>6. QED
  BY <1>3, <1>4, <1>5 DEF Row, v, w

\* What merge_delete, of a sentinel, leaves.
LEMMA MergeDeleteRow ==
  ASSUME NEW r \in Row, NEW s \in Sites, NEW m \in Change, m.col = Rip,
         NEW q, q = MergeDelete(r, s, m)
  PROVE  /\ q \in Row
         /\ q.rip = m.ver
         /\ ~q.live
         /\ q.val = NullRow
         /\ q.own \subseteq {Rip}
         /\ \A c \in Cols : q.ver[c] = None
<1> DEFINE k == [r EXCEPT !.rip = m.ver, !.own = SetOwner(r, s, m, {Rip})]
<1>1. k \in Row /\ k.rip = m.ver /\ k.own = SetOwner(r, s, m, {Rip})
  BY SetOwnerType DEF Row, Change, Version
<1>2. q = DropCols(Erase(k))
  BY DEF MergeDelete
<1> HIDE DEF k
<1>3. /\ Erase(k) \in Row /\ Erase(k).rip = m.ver /\ ~Erase(k).live
      /\ Erase(k).val = NullRow /\ Erase(k).own = k.own
  BY <1>1, EraseRow
<1>4. QED
  <2>1. /\ q \in Row /\ q.rip = Erase(k).rip /\ q.live = Erase(k).live
        /\ q.val = Erase(k).val /\ q.own \subseteq {Rip}
        /\ \A c \in Cols : q.ver[c] = None
    BY <1>2, <1>3, DropColsRow
  <2>2. QED
    BY <1>3, <2>1

(***************************************************************************)
(* Local statements.                                                       *)
(***************************************************************************)
\* The row of a key nobody has written.
LEMMA AbsentInv == RowInv(Absent)
<1>1. NullRow \in [Cols -> Values]
  BY ValuesAssumption DEF NullRow, Null
<1>2. Absent \in Row
  BY <1>1 DEF Absent, Row, Version
<1>3. ~Absent.live /\ Absent.val = NullRow /\ Absent.rip = None /\ Absent.own = {}
      /\ \A c \in Cols : Absent.ver[c] = None
  BY DEF Absent
<1>4. LocalCl(Absent) = 0
  BY <1>3 DEF LocalCl, PkExists
<1>5. QED
  BY <1>2, <1>3, <1>4 DEF RowInv, Consistent, OwnExists, None

\* A row that stays as it is has grown: a change that it already bounds may be
\* ignored.
LEMMA SameGrows ==
  ASSUME NEW r, RowInv(r), NEW R, \A m \in R : Bounds(r, m)
  PROVE  Grows(r, r, R)
<1>1. r \in Row /\ LocalCl(r) \in Nat
  BY LocalClNat DEF RowInv
<1>2. QED
  BY <1>1, RowFields DEF Grows, NotBehind, AtMost, Stamp

\* Marking the columns C of a row that is there keeps the row's invariant and
\* moves its clocks forward; only marked columns have another value, and they
\* are exported.
LEMMA MarkGrows ==
  ASSUME NEW r, RowInv(r), r.live, NEW C \in SUBSET Cols,
         NEW q \in Row, q.rip = r.rip, q.live, q.own = r.own \cup C,
         \A c \in Cols : q.ver[c] = IF c \in C THEN Bump(r.ver[c], 1) ELSE r.ver[c],
         \A c \in Cols : c \notin C => q.val[c] = r.val[c]
  PROVE  RowInv(q) /\ Grows(r, q, {}) /\ LocalCl(q) = LocalCl(r)
<1>1. r \in Row
  BY DEF RowInv
<1>2. /\ q \in Row /\ q.rip = r.rip /\ q.live /\ q.own = r.own \cup C
      /\ \A c \in Cols : q.ver[c] = IF c \in C THEN Bump(r.ver[c], 1) ELSE r.ver[c]
  OBVIOUS
<1>3. LocalCl(r) % 2 = 1 /\ LocalCl(q) = LocalCl(r)
  <2>1. LocalCl(r) % 2 = 1
    BY DEF RowInv, Consistent
  <2>2. PkExists(r)
    BY <2>1 DEF LocalCl, PkExists
  <2>3. PkExists(q)
    BY <2>2, <1>1, <1>2 DEF PkExists, Bump, Row, Version, None
  <2>4. QED
    BY <2>1, <2>2, <2>3, <1>2 DEF LocalCl
<1>4. \A c \in Cols : c \notin C => q.val[c] = r.val[c]
  OBVIOUS
<1>5. OwnExists(q)
  BY <1>1, <1>2, RipAssumption DEF RowInv, OwnExists, Bump, Row, Version, None
<1>6. Consistent(q)
  BY <1>2, <1>3 DEF Consistent
<1>7. NotBehind(q, r)
  <2>1. SUFFICES ASSUME NEW c \in Cols, r.ver[c] > 0
                 PROVE  AtMost(Stamp(r, c), Stamp(q, c))
    BY <1>1, <1>3, LocalClNat DEF NotBehind
  <2>2. r.ver[c] \in Int /\ r.val[c] \in Nat /\ r.ver[c] # None
    BY <1>1, <2>1, RowFields DEF None
  <2>3. CASE c \in C
    <3>1. q.ver[c] = r.ver[c] + 1
      BY <1>2, <2>2, <2>3 DEF Bump
    <3>2. QED
      BY <3>1, <2>2 DEF AtMost, Stamp
  <2>4. CASE c \notin C
    <3>1. q.ver[c] = r.ver[c] /\ q.val[c] = r.val[c]
      BY <1>2, <1>4, <2>4
    <3>2. QED
      BY <3>1, <2>2 DEF AtMost, Stamp
  <2>5. QED
    BY <2>3, <2>4
<1>8. \A c \in Cols : c \in q.own \/ Stamp(q, c) = Stamp(r, c)
  BY <1>2, <1>4 DEF Stamp
<1>9. QED
  BY <1>2, <1>3, <1>5, <1>6, <1>7, <1>8, LocalClNat, <1>1 DEF RowInv, Grows

\* cloudsync_update, the primary key unchanged, marks the changed columns.
LEMMA UpdateGrows ==
  ASSUME NEW r, RowInv(r), r.live, NEW vals \in [Cols -> Values],
         NEW q, q = Store(MarkCols(r, Changed(vals, r.val)), vals)
  PROVE  RowInv(q) /\ Grows(r, q, {}) /\ LocalCl(q) = LocalCl(r)
<1> DEFINE C == Changed(vals, r.val)
           k == MarkCols(r, C)
<1>1. r \in Row /\ C \in SUBSET Cols
  BY DEF RowInv, Changed
<1>2. /\ k \in Row /\ k.rip = r.rip /\ k.own = r.own \cup C
      /\ \A c \in Cols : k.ver[c] = IF c \in C THEN Bump(r.ver[c], 1) ELSE r.ver[c]
  BY <1>1, MarkColsRow
<1>3. q = Store(k, vals)
  OBVIOUS
<1>4. \A c \in Cols : c \notin C => vals[c] = r.val[c]
  BY DEF Changed
<1> HIDE DEF k, C
<1>5. /\ q \in Row /\ q.rip = r.rip /\ q.live /\ q.val = vals /\ q.own = r.own \cup C
      /\ \A c \in Cols : q.ver[c] = IF c \in C THEN Bump(r.ver[c], 1) ELSE r.ver[c]
  BY <1>2, <1>3, StoreRow
<1>6. \A c \in Cols : c \notin C => q.val[c] = r.val[c]
  BY <1>4, <1>5
<1>7. QED
  BY <1>1, <1>5, <1>6, MarkGrows

\* cloudsync_refill_metatable marks the missing columns of a row; it has none
\* to mark if the row is not there.
LEMMA RefillGrows ==
  ASSUME NEW r, RowInv(r), NEW q, q = RefillRow(r)
  PROVE  RowInv(q) /\ Grows(r, q, {}) /\ LocalCl(q) = LocalCl(r)
<1> DEFINE C == Missing(r)
<1>1. r \in Row /\ C \in SUBSET Cols /\ q = MarkCols(r, C)
  BY DEF RowInv, Missing, RefillRow
<1>2. /\ q \in Row /\ q.rip = r.rip /\ q.live = r.live /\ q.val = r.val /\ q.own = r.own \cup C
      /\ \A c \in Cols : q.ver[c] = IF c \in C THEN Bump(r.ver[c], 1) ELSE r.ver[c]
  <2> HIDE DEF C
  <2>1. QED
    BY <1>1, MarkColsRow
<1>3. CASE r.live
  <2> HIDE DEF C
  <2>1. QED
    BY <1>1, <1>2, <1>3, MarkGrows
<1>4. CASE ~r.live
  <2>1. C = {}
    BY <1>4 DEF Missing
  <2> HIDE DEF C
  <2>2. q.ver = r.ver /\ q.own = r.own
    BY <1>1, <1>2, <2>1 DEF Row
  <2>3. q = r
    BY <1>1, <1>2, <2>2 DEF Row
  <2>4. QED
    BY <2>3, SameGrows
<1>5. QED
  BY <1>3, <1>4

\* A higher col_version wins whatever the values are.
LEMMA NewerStamp ==
  ASSUME NEW r \in Row, NEW q \in Row, NEW c \in Cols, q.ver[c] > r.ver[c]
  PROVE  AtMost(Stamp(r, c), Stamp(q, c))
  BY RowFields DEF AtMost, Stamp

\* cloudsync_delete keeps the row's invariant and moves its clocks forward.
LEMMA DeleteGrows ==
  ASSUME NEW r, RowInv(r), r.live, NEW q, q = Erase(CloudsyncDelete(r))
  PROVE  RowInv(q) /\ Grows(r, q, {})
<1>1. r \in Row /\ r.rip # 0 /\ LocalCl(r) % 2 = 1 /\ LocalCl(r) \in Nat
  BY LocalClNat DEF RowInv, Consistent
<1>2. /\ q \in Row /\ q.rip = Bump(r.rip, 2) /\ ~q.live /\ q.val = NullRow
      /\ q.own \subseteq {Rip} /\ Rip \in q.own
      /\ \A c \in Cols : q.ver[c] = None
  <2> DEFINE k == MarkDelete(r)
             d == DropCols(k)
  <2>1. k \in Row /\ k.rip = Bump(r.rip, 2) /\ k.own = r.own \cup {Rip}
    BY <1>1, MarkDeleteRow
  <2> HIDE DEF k
  <2>2. d \in Row /\ d.rip = k.rip /\ d.own = k.own \cap {Rip}
        /\ \A c \in Cols : d.ver[c] = None
    BY <2>1, DropColsRow
  <2>3. q = Erase(d)
    BY DEF CloudsyncDelete, k
  <2> HIDE DEF d
  <2>4. QED
    BY <2>1, <2>2, <2>3, EraseRow
<1>3. q.rip \in Nat /\ q.rip > LocalCl(r) /\ q.rip % 2 = 0
  <2>1. CASE r.rip = None
    BY <1>1, <1>2, <2>1 DEF Bump, LocalCl, PkExists
  <2>2. CASE r.rip # None
    <3>1. r.rip = LocalCl(r) /\ q.rip = r.rip + 1
      BY <1>2, <2>2 DEF Bump, LocalCl
    <3>2. QED
      BY <1>1, <3>1, Parity
  <2>3. QED
    BY <2>1, <2>2
<1>4. LocalCl(q) = q.rip
  BY <1>3 DEF LocalCl, None
<1>5. QED
  BY <1>1, <1>2, <1>3, <1>4, RipAssumption
  DEF RowInv, Grows, Consistent, OwnExists, NotBehind, None

\* cloudsync_insert, for a new row or by REPLACE, keeps the row's invariant and
\* moves its clocks forward; every column is exported.
LEMMA InsertGrows ==
  ASSUME NEW r, RowInv(r), NEW vals \in [Cols -> Values],
         NEW q, q = Store(CloudsyncInsert(r), vals)
  PROVE  /\ RowInv(q) /\ Grows(r, q, {})
         /\ \A c \in Cols : c \in q.own /\ q.ver[c] > 0
<1> DEFINE k == IF Cols = {} THEN InsertSentinel(r)
                ELSE IF PkExists(r) THEN UpdateSentinel(r) ELSE r
           i == MarkCols(k, Cols)
<1>1. r \in Row /\ r.rip # 0 /\ LocalCl(r) \in Nat /\ OwnExists(r)
  BY LocalClNat DEF RowInv
<1>2. /\ k \in Row /\ k.ver = r.ver /\ r.own \subseteq k.own /\ k.own \subseteq r.own \cup {Rip}
      /\ k.rip = IF r.rip = None THEN IF Cols = {} THEN 1 ELSE None ELSE NextAlive(r.rip)
      /\ k.rip = None => Rip \notin k.own
      /\ k.rip # None => Rip \in k.own
  <2> r.rip # None => NextAlive(r.rip) # None
    BY <1>1, RowFields, NextAliveOdd DEF None
  <2>1. CASE Cols = {}
    <3>1. k = InsertSentinel(r)
      BY <2>1
    <3>2. 1 # None
      BY DEF None
    <3>3. QED
      BY <1>1, <2>1, <3>1, <3>2, InsertSentinelRow
  <2>2. CASE Cols # {} /\ PkExists(r)
    <3>1. k = UpdateSentinel(r)
      BY <2>2
    <3>2. QED
      BY <1>1, <2>2, <3>1, UpdateSentinelRow DEF OwnExists
  <2>3. CASE Cols # {} /\ ~PkExists(r)
    BY <1>1, <2>3 DEF OwnExists, PkExists
  <2>4. QED
    BY <2>1, <2>2, <2>3
<1> HIDE DEF k
<1>3. /\ i \in Row /\ i.rip = k.rip /\ i.own = k.own \cup Cols
      /\ \A c \in Cols : i.ver[c] = Bump(r.ver[c], 1)
  BY <1>2, MarkColsRow
<1>4. q = Store(i, vals)
  BY DEF CloudsyncInsert, k
<1> HIDE DEF i
<1>5. /\ q \in Row /\ q.rip = k.rip /\ q.own = k.own \cup Cols /\ q.live
      /\ \A c \in Cols : q.ver[c] = Bump(r.ver[c], 1)
  BY <1>3, <1>4, StoreRow
<1>6. \A c \in Cols : q.ver[c] > r.ver[c] /\ q.ver[c] # None
  BY <1>1, <1>5, RowFields DEF Bump, None
<1>7. LocalCl(q) % 2 = 1 /\ LocalCl(q) >= LocalCl(r) /\ q.own # {} /\ q.rip # 0
  <2>1. CASE r.rip # None
    <3>1. /\ LocalCl(r) = r.rip /\ q.rip = NextAlive(r.rip) /\ q.rip \in Nat
          /\ q.rip > r.rip /\ q.rip % 2 = 1
      BY <1>1, <1>2, <1>5, <2>1, RowFields, NextAliveOdd DEF LocalCl, None
    <3>2. LocalCl(q) = q.rip
      BY <3>1 DEF LocalCl, None
    <3>3. q.own # {}
      BY <1>2, <1>5, <3>1 DEF None
    <3>4. QED
      BY <1>1, <3>1, <3>2, <3>3
  <2>2. CASE r.rip = None /\ Cols = {}
    BY <1>1, <1>2, <1>5, <2>2 DEF LocalCl, PkExists, None
  <2>3. CASE r.rip = None /\ Cols # {}
    <3>1. q.rip = None /\ PkExists(q) /\ q.own # {}
      BY <1>2, <1>5, <1>6, <2>3 DEF PkExists
    <3>2. QED
      BY <3>1, <2>3 DEF LocalCl, None
  <2>4. QED
    BY <2>1, <2>2, <2>3
<1>8. RowInv(q)
  BY <1>2, <1>5, <1>6, <1>7, RipAssumption DEF RowInv, Consistent, OwnExists
<1>9. NotBehind(q, r)
  BY <1>1, <1>5, <1>6, <1>7, <1>8, NewerStamp, LocalClNat DEF NotBehind
<1>10. \A c \in Cols : c \in q.own /\ q.ver[c] > 0
  <2>1. \A c \in Cols : q.ver[c] > 0
    BY <1>1, <1>5, RowFields DEF Bump, None
  <2>2. QED
    BY <1>5, <2>1
<1>11. QED
  BY <1>5, <1>7, <1>8, <1>9, <1>10 DEF Grows

\* cloudsync_update with a new primary key: the row under the new key, which was
\* not there, keeps the invariant and moves its clocks forward.
LEMMA RekeyGrows ==
  ASSUME NEW o, RowInv(o), o.live, NEW r, RowInv(r), ~r.live,
         NEW vals \in [Cols -> Values], NEW C \in SUBSET Cols,
         NEW q, q = Store(MarkCols(InsertSentinel(MoveCols(o, r)), C), vals)
  PROVE  RowInv(q) /\ Grows(r, q, {})
<1> DEFINE moved == {c \in Cols : o.ver[c] # None}
           k == MoveCols(o, r)
           i == InsertSentinel(k)
           j == MarkCols(i, C)
<1>1. /\ o \in Row /\ r \in Row /\ r.rip # 0 /\ OwnExists(r)
      /\ \A c \in Cols : r.ver[c] = None
  BY DEF RowInv, Consistent
<1>2. /\ k \in Row /\ k.rip = r.rip /\ k.own = r.own \cup moved
      /\ \A c \in Cols : k.ver[c] = IF c \in moved THEN 1 ELSE None
  BY <1>1, MoveColsRow
<1> HIDE DEF k, moved
<1>3. /\ i \in Row /\ i.own = k.own \cup {Rip} /\ i.ver = k.ver
      /\ i.rip = IF r.rip = None THEN 1 ELSE NextAlive(r.rip)
  BY <1>2, InsertSentinelRow
<1> HIDE DEF i
<1>4. /\ j \in Row /\ j.rip = i.rip /\ j.own = i.own \cup C
      /\ \A c \in Cols : j.ver[c] = IF c \in C THEN Bump(k.ver[c], 1) ELSE k.ver[c]
  BY <1>3, MarkColsRow
<1>5. q = Store(j, vals)
  BY DEF i, j, k
<1> HIDE DEF j
<1>6. q \in Row /\ q.rip = i.rip /\ q.live /\ q.own = j.own /\ q.ver = j.ver
  BY <1>4, <1>5, StoreRow
<1>7. q.rip \in Nat /\ q.rip % 2 = 1 /\ q.rip > LocalCl(r) /\ LocalCl(q) = q.rip
  <2>1. CASE r.rip = None
    <3>1. LocalCl(r) = 0
      BY <1>1, <2>1 DEF LocalCl, PkExists
    <3>2. QED
      BY <1>3, <1>6, <2>1, <3>1 DEF LocalCl, None
  <2>2. CASE r.rip # None
    <3>1. LocalCl(r) = r.rip /\ q.rip = NextAlive(r.rip)
      BY <1>3, <1>6, <2>2 DEF LocalCl
    <3>2. q.rip \in Nat /\ q.rip > r.rip /\ q.rip % 2 = 1
      BY <1>1, <2>2, <3>1, NextAliveOdd, RowFields DEF None
    <3>3. QED
      BY <3>1, <3>2 DEF LocalCl, None
  <2>3. QED
    BY <2>1, <2>2
<1>8. /\ \A c \in Cols : c \in q.own => q.ver[c] # None
      /\ \A c \in Cols : q.ver[c] > 0 => c \in q.own
      /\ q.own # {}
  <2>1. \A c \in Cols : c \notin r.own
    BY <1>1 DEF OwnExists
  <2>2. \A c \in Cols : c \in q.own <=> c \in moved \/ c \in C
    BY <1>2, <1>3, <1>4, <1>6, <2>1, RipAssumption
  <2>3. \A c \in Cols : q.ver[c] = IF c \in C THEN Bump(IF c \in moved THEN 1 ELSE None, 1)
                                   ELSE IF c \in moved THEN 1 ELSE None
    BY <1>2, <1>4, <1>6
  <2>4. q.own # {}
    BY <1>3, <1>4, <1>6
  <2>5. QED
    BY <2>2, <2>3, <2>4 DEF Bump, None
<1>9. QED
  BY <1>1, <1>6, <1>7, <1>8, LocalClNat DEF RowInv, Grows, Consistent, OwnExists, NotBehind, None

(***************************************************************************)
(* The merge.                                                              *)
(***************************************************************************)
\* merge_delete: the row takes the change's causal length and dies.
LEMMA MergeDeleteGrows ==
  ASSUME NEW r, RowInv(r), NEW s \in Sites, NEW m \in Change, WellFormed(m),
         m.cl > LocalCl(r), m.cl % 2 = 0,
         NEW q, q = MergeDelete(r, s, m)
  PROVE  RowInv(q) /\ Grows(r, q, {m}) /\ LocalCl(q) = m.cl
<1>1. r \in Row /\ LocalCl(r) \in Nat /\ m.cl \in Nat /\ m.col = Rip /\ m.ver = m.cl
  BY LocalClNat, Parity DEF RowInv, WellFormed, Change
<1>2. /\ q \in Row /\ q.rip = m.cl /\ ~q.live /\ q.val = NullRow /\ q.own \subseteq {Rip}
      /\ \A c \in Cols : q.ver[c] = None
  BY <1>1, MergeDeleteRow
<1>3. LocalCl(q) = m.cl
  BY <1>1, <1>2 DEF LocalCl, None
<1>4. QED
  BY <1>1, <1>2, <1>3, RipAssumption
  DEF RowInv, Grows, Consistent, OwnExists, NotBehind, Bounds, None, WellFormed

\* merge_sentinel_only_insert: the row takes the change's causal length, lives, and
\* has only columns at version 0.
LEMMA MergeSentinelGrows ==
  ASSUME NEW r, RowInv(r), NEW s \in Sites, NEW m \in Change, WellFormed(m),
         m.cl > LocalCl(r), m.cl % 2 = 1,
         NEW q, q = MergeSentinel(r, s, m, m.cl)
  PROVE  /\ RowInv(q) /\ LocalCl(q) = m.cl
         /\ \A c \in Cols : q.ver[c] \in {None, 0}
         /\ m.col = Rip => Grows(r, q, {m})
<1>1. r \in Row /\ LocalCl(r) \in Nat /\ m.cl \in Nat /\ OwnExists(r) /\ m.cl > 0
  BY LocalClNat DEF RowInv, WellFormed, Change
<1>2. /\ q \in Row /\ q.rip = m.cl /\ q.live /\ q.own \subseteq r.own \cup {Rip}
      /\ \A c \in Cols : q.ver[c] = IF r.ver[c] = None THEN None ELSE 0
  BY <1>1, MergeSentinelRow, SetOwnerType
<1>3. LocalCl(q) = m.cl
  BY <1>1, <1>2 DEF LocalCl, None
<1>4. RowInv(q)
  BY <1>1, <1>2, <1>3, RipAssumption DEF RowInv, Consistent, OwnExists, None
<1>5. m.col = Rip => Grows(r, q, {m})
  BY <1>1, <1>2, <1>3 DEF Grows, NotBehind, Bounds, None
<1>6. QED
  BY <1>2, <1>3, <1>4, <1>5

\* merge_insert_col on a row that is alive at the change's causal length or
\* has no metadata yet.
LEMMA MergeColInv ==
  ASSUME NEW r, RowInv(r), NEW s \in Sites, NEW m \in Change, m.col \in Cols,
         m.cl % 2 = 1,
         \/ LocalCl(r) = m.cl
         \/ LocalCl(r) = 0 /\ m.cl = 1,
         NEW q, q = MergeCol(r, s, m)
  PROVE  /\ RowInv(q) /\ LocalCl(q) = m.cl
         /\ \A c \in Cols \ {m.col} : q.ver[c] = r.ver[c] /\ q.val[c] = r.val[c]
         /\ q.ver[m.col] = m.ver /\ q.val[m.col] = m.val
<1>1. r \in Row /\ OwnExists(r) /\ r.rip # 0 /\ m.ver \in Nat /\ m.cl \in Nat
  BY DEF RowInv, Change
<1>2. /\ q \in Row /\ q.rip = r.rip /\ q.live
      /\ q.val = [r.val EXCEPT ![m.col] = m.val]
      /\ q.ver = [r.ver EXCEPT ![m.col] = m.ver]
      /\ q.own \subseteq r.own \cup {m.col}
  BY <1>1, MergeColRow, SetOwnerType
<1>3. /\ \A c \in Cols \ {m.col} : q.ver[c] = r.ver[c] /\ q.val[c] = r.val[c]
      /\ q.ver[m.col] = m.ver /\ q.val[m.col] = m.val
  BY <1>1, <1>2 DEF Row
<1>4. LocalCl(q) = m.cl
  <2>1. CASE r.rip = None
    <3>1. PkExists(q)
      BY <1>1, <1>3 DEF PkExists, None
    <3>2. LocalCl(r) \in {0, 1} /\ LocalCl(q) = 1
      BY <1>2, <2>1, <3>1 DEF LocalCl
    <3>3. m.cl = 1
      BY <1>1, <3>2, Parity
    <3>4. QED
      BY <3>2, <3>3
  <2>2. CASE r.rip # None
    BY <1>1, <1>2, <2>2, RowFields DEF LocalCl
  <2>3. QED
    BY <2>1, <2>2
<1>5. OwnExists(q)
  BY <1>1, <1>2, <1>3, RipAssumption DEF OwnExists, None
<1>6. QED
  BY <1>1, <1>2, <1>3, <1>4, <1>5 DEF RowInv, Consistent

\* A column change of the current or of a later life of the row: after the merge the
\* row bounds it, and has lost nothing.
LEMMA MergeAliveGrows ==
  ASSUME NEW r, RowInv(r), NEW s \in Sites, NEW m \in Change, WellFormed(m),
         m.cl >= LocalCl(r), m.col \in Cols,
         NEW q, q = MergeAlive(r, s, m)
  PROVE  RowInv(q) /\ Grows(r, q, {m}) /\ LocalCl(q) = m.cl
<1>1. /\ r \in Row /\ LocalCl(r) \in Nat /\ m.cl \in Nat /\ m.cl % 2 = 1 /\ m.cl > 0
      /\ m.ver \in Nat /\ m.val \in Nat /\ m.col # Rip
  BY LocalClNat, ValuesAssumption, RipAssumption DEF RowInv, WellFormed, Change
<1>2. CASE m.cl > LocalCl(r) /\ (LocalCl(r) # 0 \/ m.cl > 1)
  <2> DEFINE k == MergeSentinel(r, s, m, m.cl)
  <2>1. q = MergeCol(k, s, m)
    BY <1>2 DEF MergeAlive
  <2>2. RowInv(k) /\ LocalCl(k) = m.cl /\ \A c \in Cols : k.ver[c] \in {None, 0}
    BY <1>1, <1>2, MergeSentinelGrows
  <2> HIDE DEF k
  <2>3. /\ RowInv(q) /\ LocalCl(q) = m.cl
        /\ \A c \in Cols \ {m.col} : q.ver[c] = k.ver[c]
        /\ q.ver[m.col] = m.ver /\ q.val[m.col] = m.val
    BY <1>1, <2>1, <2>2, MergeColInv
  <2>4. QED
    BY <1>1, <1>2, <2>2, <2>3 DEF Grows, NotBehind, Bounds, Attains, AtMost, Stamp, None
<1>3. CASE LocalCl(r) = 0 /\ m.cl = 1
  <2>1. q = MergeCol(r, s, m)
    BY <1>3 DEF MergeAlive
  <2>2. /\ RowInv(q) /\ LocalCl(q) = m.cl
        /\ \A c \in Cols \ {m.col} : q.ver[c] = r.ver[c]
        /\ q.ver[m.col] = m.ver /\ q.val[m.col] = m.val
    BY <1>1, <1>3, <2>1, MergeColInv
  <2>3. \A c \in Cols : r.ver[c] = None
    BY <1>3 DEF RowInv, LocalCl, PkExists
  <2>4. QED
    BY <1>1, <1>3, <2>2, <2>3 DEF Grows, NotBehind, Bounds, Attains, AtMost, Stamp, None
<1>4. CASE m.cl = LocalCl(r) /\ CidWins(r, m)
  <2>1. q = MergeCol(r, s, m)
    BY <1>1, <1>4 DEF MergeAlive
  <2>2. /\ RowInv(q) /\ LocalCl(q) = m.cl
        /\ \A c \in Cols \ {m.col} : q.ver[c] = r.ver[c] /\ q.val[c] = r.val[c]
        /\ q.ver[m.col] = m.ver /\ q.val[m.col] = m.val
    BY <1>1, <1>4, <2>1, MergeColInv
  <2>3. r.live
    BY <1>1, <1>4 DEF RowInv, Consistent
  <2>4. AtMost(Stamp(r, m.col), Stamp(q, m.col)) \/ r.ver[m.col] = None
    BY <1>1, <1>4, <2>2, <2>3, RowFields DEF CidWins, AtMost, Stamp
  <2>5. NotBehind(q, r)
    <3>1. SUFFICES ASSUME NEW c \in Cols, r.ver[c] > 0
                   PROVE  AtMost(Stamp(r, c), Stamp(q, c))
      BY <1>1, <1>4, <2>2 DEF NotBehind
    <3>2. CASE c = m.col
      BY <2>4, <3>1, <3>2 DEF None
    <3>3. CASE c # m.col
      BY <1>1, <2>2, <3>3, RowFields DEF AtMost, Stamp
    <3>4. QED
      BY <3>2, <3>3
  <2>6. Bounds(q, m) /\ Attains(m, q, m.col)
    BY <1>1, <2>2 DEF Bounds, Attains, AtMost, Stamp
  <2>7. \A c \in Cols \ {m.col} : Stamp(q, c) = Stamp(r, c)
    BY <2>2 DEF Stamp
  <2>8. QED
    BY <1>1, <1>4, <2>2, <2>5, <2>6, <2>7 DEF Grows
<1>5. CASE m.cl = LocalCl(r) /\ ~CidWins(r, m)
  <2>1. q = r
    BY <1>1, <1>5 DEF MergeAlive
  <2>2. AtMost(<<m.ver, m.val>>, Stamp(r, m.col))
    BY <1>1, <1>5, RowFields DEF CidWins, AtMost, Stamp
  <2>3. Bounds(r, m)
    BY <1>1, <1>5, <2>2 DEF Bounds
  <2>4. QED
    BY <1>5, <2>1, <2>3, SameGrows
<1>6. QED
  BY <1>1, <1>2, <1>3, <1>4, <1>5

\* cloudsync_merge_insert keeps the row's invariant, moves its clocks forward, and
\* afterwards bounds the merged change.
LEMMA MergeGrows ==
  ASSUME NEW r, RowInv(r), NEW s \in Sites, NEW m \in Change, WellFormed(m),
         NEW q, q = Merge(r, s, m)
  PROVE  RowInv(q) /\ Grows(r, q, {m}) /\ LocalCl(q) \in {LocalCl(r), m.cl}
<1>1. r \in Row /\ LocalCl(r) \in Nat /\ m.cl \in Nat /\ m.col \in Cols \cup {Rip}
      /\ (m.cl % 2 = 0 \/ m.cl % 2 = 1)
  BY LocalClNat, Parity DEF RowInv, Change
<1>2. CASE m.cl < LocalCl(r)
  BY <1>1, <1>2, SameGrows DEF Merge, Bounds
<1>3. CASE m.cl = LocalCl(r) /\ (m.cl % 2 = 0 \/ m.col = Rip)
  <2>1. q = r
    BY <1>1, <1>3 DEF Merge
  <2>2. m.col = Rip
    BY <1>1, <1>3 DEF WellFormed
  <2>3. QED
    BY <1>1, <1>3, <2>1, <2>2, SameGrows DEF Bounds
<1>4. CASE m.cl > LocalCl(r) /\ m.cl % 2 = 0
  <2>1. q = MergeDelete(r, s, m)
    BY <1>1, <1>4 DEF Merge
  <2>2. QED
    BY <1>4, <2>1, MergeDeleteGrows
<1>5. CASE m.cl > LocalCl(r) /\ m.cl % 2 = 1 /\ m.col = Rip
  <2>1. q = MergeSentinel(r, s, m, m.cl)
    BY <1>1, <1>5 DEF Merge, WellFormed
  <2>2. RowInv(q) /\ LocalCl(q) = m.cl /\ Grows(r, q, {m})
    BY <1>5, <2>1, MergeSentinelGrows, ZenonT(40)
  <2>3. QED
    BY <2>2
<1>6. CASE m.cl >= LocalCl(r) /\ m.cl % 2 = 1 /\ m.col # Rip
  <2>1. q = MergeAlive(r, s, m)
    BY <1>1, <1>6 DEF Merge
  <2>2. QED
    BY <1>1, <1>6, <2>1, MergeAliveGrows
<1>7. QED
  BY <1>1, <1>2, <1>3, <1>4, <1>5, <1>6

(***************************************************************************)
(* From rows to the specification.                                         *)
(***************************************************************************)
\* What cloudsync_changes shows of the rows with site_id 0: well-formed changes that
\* equal the state they are read from.
LEMMA ExportedChanges ==
  ASSUME NEW r, RowInv(r), NEW s \in Sites, NEW p \in Pks
  PROVE  /\ \A m \in ExportRow(s, p, r) :
              /\ m \in Change /\ WellFormed(m) /\ m.pk = p /\ m.cl = LocalCl(r)
              /\ m.col # Rip => <<m.ver, m.val>> = Stamp(r, m.col)
         /\ r.own # {} => \E m \in ExportRow(s, p, r) : m.cl = LocalCl(r)
         /\ \A c \in Cols : c \in r.own => \E m \in ExportRow(s, p, r) : Attains(m, r, c)
<1> DEFINE e(c) == [pk |-> p, col |-> c,
                    val |-> IF c = Rip THEN Null ELSE r.val[c],
                    ver |-> IF c = Rip THEN r.rip ELSE r.ver[c],
                    cl |-> ExportedCl(r), site |-> s]
<1>1. r \in Row /\ r.rip # 0 /\ OwnExists(r) /\ Consistent(r) /\ r.own \subseteq Cols \cup {Rip}
  BY RowFields DEF RowInv
<1>2. ExportRow(s, p, r) = {e(c) : c \in r.own}
  BY DEF ExportRow
<1>3. ASSUME NEW c \in r.own
      PROVE  /\ e(c) \in Change /\ WellFormed(e(c)) /\ e(c).pk = p /\ e(c).cl = LocalCl(r)
             /\ e(c).col = c
             /\ c # Rip => <<e(c).ver, e(c).val>> = Stamp(r, c)
  <2>1. LocalCl(r) = ExportedCl(r) /\ LocalCl(r) \in Nat /\ LocalCl(r) > 0
    BY <1>1, <1>3, RowFields DEF LocalCl, ExportedCl, PkExists, OwnExists, None
  <2>2. CASE c = Rip
    <3>1. r.rip \in Nat /\ LocalCl(r) = r.rip
      BY <1>1, <2>2, RowFields DEF OwnExists, LocalCl, None
    <3>2. QED
      BY <1>1, <2>1, <2>2, <3>1, ValuesAssumption DEF Change, WellFormed
  <2>3. CASE c # Rip
    <3>1. c \in Cols /\ r.ver[c] # None
      BY <1>1, <2>3 DEF OwnExists
    <3>2. r.ver[c] \in Nat /\ r.val[c] \in Values
      BY <1>1, <3>1, RowFields DEF None
    <3>3. LocalCl(r) % 2 = 1
      BY <1>1, <3>1 DEF Consistent
    <3>4. e(c) \in Change
      BY <2>1, <2>3, <3>1, <3>2 DEF Change
    <3>5. QED
      BY <2>1, <2>3, <3>1, <3>3, <3>4 DEF WellFormed, Stamp
  <2>4. QED
    BY <2>2, <2>3
<1> HIDE DEF e
<1>4. \A c \in Cols : c \in r.own => Attains(e(c), r, c)
  BY <1>3, RipAssumption DEF Attains
<1>5. \A m \in ExportRow(s, p, r) : /\ m \in Change /\ WellFormed(m) /\ m.pk = p /\ m.cl = LocalCl(r)
                                    /\ m.col # Rip => <<m.ver, m.val>> = Stamp(r, m.col)
  <2>1. SUFFICES ASSUME NEW c \in r.own
                 PROVE  /\ e(c) \in Change /\ WellFormed(e(c)) /\ e(c).pk = p /\ e(c).cl = LocalCl(r)
                        /\ e(c).col # Rip => <<e(c).ver, e(c).val>> = Stamp(r, e(c).col)
    BY <1>2
  <2>2. QED
    BY <1>3
<1>6. QED
  BY <1>2, <1>3, <1>4, <1>5

\* A growing row stays the join of the changes seen.
LEMMA JoinGrows ==
  ASSUME NEW r, RowInv(r), NEW q, RowInv(q), NEW s \in Sites, NEW p \in Pks,
         NEW S \in SUBSET Change, NEW R \in SUBSET Change,
         Join(r, S), Grows(r, q, R)
  PROVE  Join(q, S \cup R \cup ExportRow(s, p, q))
<1> DEFINE E == ExportRow(s, p, q)
<1>1. /\ r \in Row /\ q \in Row /\ LocalCl(r) \in Nat /\ LocalCl(q) \in Nat
      /\ LocalCl(r) <= LocalCl(q)
  BY LocalClNat DEF RowInv, Grows, NotBehind
<1>2. /\ \A m \in E : m \in Change /\ m.cl = LocalCl(q)
                      /\ (m.col # Rip => <<m.ver, m.val>> = Stamp(q, m.col))
      /\ q.own # {} => \E m \in E : m.cl = LocalCl(q)
      /\ \A c \in Cols : c \in q.own => \E m \in E : Attains(m, q, c)
  BY ExportedChanges
<1> HIDE DEF E
<1>3. \A m \in S : Bounds(q, m)
  <2>1. SUFFICES ASSUME NEW m \in S PROVE Bounds(q, m)
    OBVIOUS
  <2>2. m \in Change /\ m.cl \in Nat /\ m.ver \in Nat /\ m.val \in Nat
    BY ValuesAssumption DEF Change
  <2>3. m.cl <= LocalCl(r)
    BY DEF Join, Bounds
  <2>4. ASSUME m.cl = LocalCl(q), m.col # Rip, m.ver > 0
        PROVE  AtMost(<<m.ver, m.val>>, Stamp(q, m.col))
    <3>1. LocalCl(r) = LocalCl(q) /\ m.cl = LocalCl(r) /\ m.col \in Cols
      BY <1>1, <2>2, <2>3, <2>4 DEF Change
    <3>2. AtMost(<<m.ver, m.val>>, Stamp(r, m.col))
      BY <2>4, <3>1 DEF Join, Bounds
    <3>3. r.ver[m.col] > 0
      BY <1>1, <2>2, <2>4, <3>1, <3>2, RowFields DEF AtMost, Stamp
    <3>4. AtMost(Stamp(r, m.col), Stamp(q, m.col))
      BY <3>1, <3>3 DEF Grows, NotBehind
    <3>5. QED
      BY <1>1, <2>2, <3>1, <3>2, <3>4, RowFields DEF AtMost, Stamp
  <2>5. QED
    BY <1>1, <2>2, <2>3, <2>4 DEF Bounds
<1>4. \A m \in R : Bounds(q, m)
  BY DEF Grows
<1>5. \A m \in E : Bounds(q, m)
  <2>1. SUFFICES ASSUME NEW m \in E PROVE Bounds(q, m)
    OBVIOUS
  <2>2. m.cl = LocalCl(q) /\ m.col \in Cols \cup {Rip}
    BY <1>2 DEF Change
  <2>3. m.col # Rip => AtMost(<<m.ver, m.val>>, Stamp(q, m.col))
    BY <1>1, <1>2, <2>2, RowFields DEF AtMost, Stamp
  <2>4. QED
    BY <1>1, <2>2, <2>3 DEF Bounds
<1>6. LocalCl(q) > 0 => \E m \in S \cup R \cup E : m.cl = LocalCl(q)
  <2>1. CASE LocalCl(q) > LocalCl(r)
    BY <1>2, <2>1 DEF Grows
  <2>2. CASE LocalCl(q) = LocalCl(r)
    BY <2>2 DEF Join
  <2>3. QED
    BY <1>1, <2>1, <2>2
<1>7. ASSUME NEW c \in Cols, q.ver[c] > 0
      PROVE  \E m \in S \cup R \cup E : Attains(m, q, c)
  <2>1. CASE c \in q.own
    BY <1>2, <2>1
  <2>2. CASE LocalCl(q) = LocalCl(r) /\ Stamp(q, c) = Stamp(r, c)
    <3>1. r.ver[c] > 0
      BY <1>1, <1>7, <2>2, RowFields DEF Stamp
    <3>2. PICK m \in S : Attains(m, r, c)
      BY <3>1 DEF Join
    <3>3. Attains(m, q, c)
      BY <2>2, <3>2 DEF Attains
    <3>4. QED
      BY <3>3
  <2>3. CASE \E m \in R : Attains(m, q, c)
    BY <2>3
  <2>4. QED
    BY <1>7, <2>1, <2>2, <2>3 DEF Grows
<1>8. QED
  BY <1>3, <1>4, <1>5, <1>6, <1>7 DEF Join, E

\* The inductive invariant.
IInv ==
  /\ TypeOK
  /\ \A s \in Sites, p \in Pks : RowInv(db[s][p])
  /\ \A s \in Sites : \A m \in seen[s] : WellFormed(m)
  /\ JoinOfSeen

\* One step of ClockNeverRegresses.
NothingRegresses ==
  \A s \in Sites, p \in Pks : NotBehind(db'[s][p], db[s][p])

\* While no primary key changes, a life of a row that anybody knows of is known whole: the
\* statement that began it exported every column.
KnownWhole ==
  \A m \in Known : m.cl % 2 = 1 =>
    \A c \in Cols : \E n \in Known : n.pk = m.pk /\ n.cl = m.cl /\ n.col = c /\ n.ver > 0
\* The inductive invariant of users who change no primary key.
WholeInv == IInv /\ KnownWhole
\* A statement or a merge that leaves the row in a new life has written all its columns here,
\* or learnt of that life from the changes R.
BornWhole(r, q, R) ==
  LocalCl(q) % 2 = 1 =>
    \/ LocalCl(q) = LocalCl(r)
    \/ \E m \in R : m.cl = LocalCl(q)
    \/ \A c \in Cols : c \in q.own /\ q.ver[c] > 0

\* What is left of the invariant when columns may move back: the causal length of a row
\* is the greatest one seen.
LifeJoin(r, S) ==
  /\ \A m \in S : m.cl <= LocalCl(r)
  /\ LocalCl(r) > 0 => \E m \in S : m.cl = LocalCl(r)
\* The inductive invariant of any use of keys.
LivesInv ==
  /\ TypeOK
  /\ \A s \in Sites, p \in Pks : RowInv(db[s][p])
  /\ \A s \in Sites : \A m \in seen[s] : WellFormed(m)
  /\ \A s \in Sites, p \in Pks : LifeJoin(db[s][p], SeenOf(s, p))
\* What is left of Grows.
LifeGrows(r, q, R) ==
  /\ LocalCl(r) <= LocalCl(q)
  /\ \A m \in R : m.cl <= LocalCl(q)
  /\ LocalCl(q) > LocalCl(r) => q.own # {} \/ \E m \in R : m.cl = LocalCl(q)

\* The invariants of columns and of lives.
LEMMA InvLives == IInv => LivesInv
BY DEF IInv, LivesInv, JoinOfSeen, Join, Bounds, LifeJoin

\* A row that grows grows its life.
LEMMA GrowsLife == ASSUME NEW r, NEW q, NEW R, Grows(r, q, R) PROVE LifeGrows(r, q, R)
BY DEF Grows, NotBehind, Bounds, LifeGrows

\* The new key of an UPDATE of the primary key, a key a row may already have: columns may
\* move back, the causal length does not.
LEMMA RekeyLives ==
  ASSUME NEW o, RowInv(o), o.live, NEW r, RowInv(r),
         NEW vals \in [Cols -> Values], NEW C \in SUBSET Cols,
         NEW q, q = Store(MarkCols(InsertSentinel(MoveCols(o, r)), C), vals)
  PROVE  RowInv(q) /\ LifeGrows(r, q, {})
<1> DEFINE moved == {c \in Cols : o.ver[c] # None}
           k == MoveCols(o, r)
           i == InsertSentinel(k)
           j == MarkCols(i, C)
<1>1. o \in Row /\ r \in Row /\ r.rip # 0 /\ OwnExists(r)
  BY DEF RowInv
<1>2. /\ k \in Row /\ k.rip = r.rip /\ k.own = r.own \cup moved
      /\ \A c \in Cols : k.ver[c] = IF c \in moved THEN 1 ELSE r.ver[c]
  BY <1>1, MoveColsRow
<1> HIDE DEF k, moved
<1>3. /\ i \in Row /\ i.own = k.own \cup {Rip} /\ i.ver = k.ver
      /\ i.rip = IF r.rip = None THEN 1 ELSE NextAlive(r.rip)
  BY <1>2, InsertSentinelRow
<1> HIDE DEF i
<1>4. /\ j \in Row /\ j.rip = i.rip /\ j.own = i.own \cup C
      /\ \A c \in Cols : j.ver[c] = IF c \in C THEN Bump(k.ver[c], 1) ELSE k.ver[c]
  BY <1>3, MarkColsRow
<1>5. q = Store(j, vals)
  BY DEF i, j, k
<1> HIDE DEF j
<1>6. q \in Row /\ q.rip = i.rip /\ q.live /\ q.own = j.own /\ q.ver = j.ver
  BY <1>4, <1>5, StoreRow
<1>7. q.rip \in Nat /\ q.rip % 2 = 1 /\ LocalCl(r) <= q.rip /\ LocalCl(q) = q.rip
  <2>1. CASE r.rip = None
    BY <1>1, <1>3, <1>6, <2>1 DEF LocalCl, None
  <2>2. CASE r.rip # None
    <3>1. LocalCl(r) = r.rip /\ q.rip = NextAlive(r.rip)
      BY <1>3, <1>6, <2>2 DEF LocalCl
    <3>2. q.rip \in Nat /\ q.rip > r.rip /\ q.rip % 2 = 1 /\ r.rip \in Nat
      BY <1>1, <2>2, <3>1, NextAliveOdd, RowFields DEF None
    <3>3. QED
      BY <3>1, <3>2 DEF LocalCl, None
  <2>3. QED
    BY <2>1, <2>2
<1>8. Rip \in q.own /\ \A c \in Cols : c \in q.own => q.ver[c] # None
  <2>1. Rip \in q.own
    BY <1>3, <1>4, <1>6
  <2>2. \A c \in Cols : c \in q.own <=> c \in r.own \/ c \in moved \/ c \in C
    BY <1>2, <1>3, <1>4, <1>6, RipAssumption
  <2>3. \A c \in Cols : q.ver[c] = IF c \in C THEN Bump(IF c \in moved THEN 1 ELSE r.ver[c], 1)
                                   ELSE IF c \in moved THEN 1 ELSE r.ver[c]
    BY <1>2, <1>4, <1>6
  <2>4. /\ \A c \in Cols : r.ver[c] # None => r.ver[c] \in Nat
        /\ \A c \in Cols : c \in r.own => r.ver[c] # None
    BY <1>1, RowFields DEF OwnExists, None
  <2>5. QED
    BY <2>1, <2>2, <2>3, <2>4 DEF Bump, None
<1>9. QED
  BY <1>1, <1>6, <1>7, <1>8 DEF RowInv, LifeGrows, Consistent, OwnExists, None

\* The greatest causal length seen determines whether the row exists.
LEMMA SameLife ==
  ASSUME NEW x, RowInv(x), NEW y, RowInv(y),
         NEW S, LifeJoin(x, S), LifeJoin(y, S)
  PROVE  x.live = y.live /\ LocalCl(x) = LocalCl(y)
<1>1. LocalCl(x) \in Nat /\ LocalCl(y) \in Nat /\ x.live \in BOOLEAN /\ y.live \in BOOLEAN
  BY LocalClNat DEF RowInv, Row
<1>2. LocalCl(x) <= LocalCl(y) /\ LocalCl(y) <= LocalCl(x)
  <2>1. CASE LocalCl(x) > 0 /\ LocalCl(y) > 0
    BY <1>1, <2>1 DEF LifeJoin
  <2>2. CASE LocalCl(x) > 0 /\ LocalCl(y) = 0
    BY <1>1, <2>2 DEF LifeJoin
  <2>3. CASE LocalCl(x) = 0 /\ LocalCl(y) > 0
    BY <1>1, <2>3 DEF LifeJoin
  <2>4. QED
    BY <1>1, <2>1, <2>2, <2>3
<1>3. LocalCl(x) = LocalCl(y)
  BY <1>1, <1>2
<1>4. x.live <=> y.live
  BY <1>3 DEF RowInv, Consistent
<1>5. QED
  BY <1>1, <1>3, <1>4

\* A growing life stays the greatest one seen.
LEMMA LifeJoinGrows ==
  ASSUME NEW r, RowInv(r), NEW q, RowInv(q), NEW s \in Sites, NEW p \in Pks,
         NEW S \in SUBSET Change, NEW R \in SUBSET Change,
         LifeJoin(r, S), LifeGrows(r, q, R)
  PROVE  LifeJoin(q, S \cup R \cup ExportRow(s, p, q))
<1>1. LocalCl(r) \in Nat /\ LocalCl(q) \in Nat
  BY LocalClNat DEF RowInv
<1>2. \A m \in S : m.cl \in Nat
  BY DEF Change
<1>3. /\ \A m \in ExportRow(s, p, q) : m.cl = LocalCl(q)
      /\ q.own # {} => \E m \in ExportRow(s, p, q) : m.cl = LocalCl(q)
  BY ExportedChanges
<1>4. QED
  BY <1>1, <1>2, <1>3 DEF LifeJoin, LifeGrows

\* Leaving a row alone moves no clock back.
LEMMA NotBehindRefl == ASSUME NEW r, RowInv(r) PROVE NotBehind(r, r)
<1>1. Grows(r, r, {})
  BY SameGrows
<1>2. QED
  BY <1>1 DEF Grows

\* What a transaction of one site leaves: well-typed rows and changes, and at that site
\* what it had seen, what it received, and what it exports.
Leaves(s, d, R) ==
  /\ TypeOK'
  /\ \A t \in Sites, p \in Pks : RowInv(db'[t][p])
  /\ \A t \in Sites : \A m \in seen'[t] : WellFormed(m)
  /\ db'[s] = d
  /\ seen'[s] = seen[s] \cup R \cup Export(s, d)
  /\ \A t \in Sites \ {s} : db'[t] = db[t] /\ seen'[t] = seen[t]
  /\ \A p \in Pks : {m \in seen'[s] : m.pk = p}
                    = SeenOf(s, p) \cup {m \in R : m.pk = p} \cup ExportRow(s, p, d[p])

\* Commit does that.
LEMMA Committed ==
  ASSUME LivesInv, NEW s \in Sites, NEW d \in [Pks -> Row],
         NEW R \in SUBSET Change, \A m \in R : WellFormed(m),
         \A p \in Pks : RowInv(d[p]), Commit(s, d, R)
  PROVE  Leaves(s, d, R)
<1>1. /\ db' = [db EXCEPT ![s] = d]
      /\ seen' = [seen EXCEPT ![s] = seen[s] \cup R \cup Export(s, d)]
      /\ db \in [Sites -> [Pks -> Row]] /\ seen \in [Sites -> SUBSET Change]
  BY DEF Commit, LivesInv, TypeOK
<1>2. ASSUME NEW k \in Pks, NEW m \in ExportRow(s, k, d[k])
      PROVE  m \in Change /\ WellFormed(m) /\ m.pk = k
  <2>1. RowInv(d[k])
    OBVIOUS
  <2>2. QED
    BY <2>1, ExportedChanges
<1>3. \A m \in Export(s, d) : m \in Change /\ WellFormed(m)
  BY <1>2 DEF Export
<1>4. TypeOK'
  BY <1>1, <1>3 DEF TypeOK
<1>5. \A t \in Sites, p \in Pks : RowInv(db'[t][p])
  BY <1>1 DEF LivesInv
<1>6. \A t \in Sites : \A m \in seen'[t] : WellFormed(m)
  BY <1>1, <1>3 DEF LivesInv
<1>7. ASSUME NEW p \in Pks
      PROVE  {m \in seen'[s] : m.pk = p}
             = SeenOf(s, p) \cup {m \in R : m.pk = p} \cup ExportRow(s, p, d[p])
  <2>1. {m \in Export(s, d) : m.pk = p} = ExportRow(s, p, d[p])
    BY <1>2 DEF Export
  <2>2. QED
    BY <1>1, <2>1 DEF SeenOf
<1>8. /\ db'[s] = d /\ seen'[s] = seen[s] \cup R \cup Export(s, d)
      /\ \A t \in Sites \ {s} : db'[t] = db[t] /\ seen'[t] = seen[t]
  BY <1>1
<1>9. QED
  BY <1>4, <1>5, <1>6, <1>7, <1>8 DEF Leaves

\* A transaction of one site that makes its rows grow keeps the inductive invariant.
LEMMA CommitStep ==
  ASSUME IInv, NEW s \in Sites, NEW d \in [Pks -> Row],
         NEW R \in SUBSET Change, \A m \in R : WellFormed(m),
         \A p \in Pks : RowInv(d[p]) /\ Grows(db[s][p], d[p], {m \in R : m.pk = p}),
         Commit(s, d, R)
  PROVE  IInv' /\ NothingRegresses
<1>1. /\ TypeOK'
      /\ \A t \in Sites, p \in Pks : RowInv(db'[t][p])
      /\ \A t \in Sites : \A m \in seen'[t] : WellFormed(m)
      /\ db'[s] = d
      /\ \A t \in Sites \ {s} : db'[t] = db[t] /\ seen'[t] = seen[t]
      /\ \A p \in Pks : {m \in seen'[s] : m.pk = p}
                        = SeenOf(s, p) \cup {m \in R : m.pk = p} \cup ExportRow(s, p, d[p])
  <2>1. LivesInv /\ \A p \in Pks : RowInv(d[p])
    BY InvLives
  <2>2. Leaves(s, d, R)
    BY <2>1, Committed
  <2>3. QED
    BY <2>2 DEF Leaves
<1>2. ASSUME NEW t \in Sites, NEW p \in Pks
      PROVE  Join(db'[t][p], {m \in seen'[t] : m.pk = p})
  <2>1. Join(db[t][p], SeenOf(t, p)) /\ RowInv(db[t][p])
    BY DEF IInv, JoinOfSeen
  <2>2. CASE t = s
    <3> DEFINE S == SeenOf(s, p)
               Q == {m \in R : m.pk = p}
    <3>1. S \in SUBSET Change /\ Q \in SUBSET Change
      BY DEF SeenOf, IInv, TypeOK
    <3>2. {m \in seen'[t] : m.pk = p} = S \cup Q \cup ExportRow(s, p, d[p]) /\ db'[t][p] = d[p]
      BY <1>1, <2>2
    <3>3. Join(db[s][p], S) /\ RowInv(db[s][p]) /\ RowInv(d[p]) /\ Grows(db[s][p], d[p], Q)
      BY <2>1, <2>2
    <3> HIDE DEF S, Q
    <3>4. Join(d[p], S \cup Q \cup ExportRow(s, p, d[p]))
      BY <3>1, <3>3, JoinGrows
    <3>5. QED
      BY <3>2, <3>4
  <2>3. CASE t # s
    BY <1>1, <2>1, <2>3 DEF SeenOf
  <2>4. QED
    BY <2>2, <2>3
<1>3. NothingRegresses
  <2>1. SUFFICES ASSUME NEW t \in Sites, NEW p \in Pks PROVE NotBehind(db'[t][p], db[t][p])
    BY DEF NothingRegresses
  <2>2. CASE t = s
    BY <1>1, <2>2 DEF Grows
  <2>3. CASE t # s
    BY <1>1, <2>3, NotBehindRefl DEF IInv
  <2>4. QED
    BY <2>2, <2>3
<1>4. QED
  BY <1>1, <1>2, <1>3 DEF IInv, JoinOfSeen, SeenOf

\* A transaction that makes the lives of its rows grow keeps the invariant of lives.
LEMMA LivesCommit ==
  ASSUME LivesInv, NEW s \in Sites, NEW d \in [Pks -> Row],
         NEW R \in SUBSET Change, \A m \in R : WellFormed(m),
         \A p \in Pks : RowInv(d[p]) /\ LifeGrows(db[s][p], d[p], {m \in R : m.pk = p}),
         Commit(s, d, R)
  PROVE  LivesInv'
<1>1. /\ TypeOK'
      /\ \A t \in Sites, p \in Pks : RowInv(db'[t][p])
      /\ \A t \in Sites : \A m \in seen'[t] : WellFormed(m)
      /\ db'[s] = d
      /\ \A t \in Sites \ {s} : db'[t] = db[t] /\ seen'[t] = seen[t]
      /\ \A p \in Pks : {m \in seen'[s] : m.pk = p}
                        = SeenOf(s, p) \cup {m \in R : m.pk = p} \cup ExportRow(s, p, d[p])
  <2>1. \A p \in Pks : RowInv(d[p])
    OBVIOUS
  <2>2. Leaves(s, d, R)
    BY <2>1, Committed
  <2>3. QED
    BY <2>2 DEF Leaves
<1>2. ASSUME NEW t \in Sites, NEW p \in Pks
      PROVE  LifeJoin(db'[t][p], {m \in seen'[t] : m.pk = p})
  <2>1. LifeJoin(db[t][p], SeenOf(t, p)) /\ RowInv(db[t][p])
    BY DEF LivesInv
  <2>2. CASE t = s
    <3> DEFINE S == SeenOf(s, p)
               Q == {m \in R : m.pk = p}
    <3>1. S \in SUBSET Change /\ Q \in SUBSET Change
      BY DEF SeenOf, LivesInv, TypeOK
    <3>2. {m \in seen'[t] : m.pk = p} = S \cup Q \cup ExportRow(s, p, d[p]) /\ db'[t][p] = d[p]
      BY <1>1, <2>2
    <3>3. LifeJoin(db[s][p], S) /\ RowInv(db[s][p]) /\ RowInv(d[p]) /\ LifeGrows(db[s][p], d[p], Q)
      BY <2>1, <2>2
    <3> HIDE DEF S, Q
    <3>4. LifeJoin(d[p], S \cup Q \cup ExportRow(s, p, d[p]))
      BY <3>1, <3>3, LifeJoinGrows
    <3>5. QED
      BY <3>2, <3>4
  <2>3. CASE t # s
    BY <1>1, <2>1, <2>3 DEF SeenOf
  <2>4. QED
    BY <2>2, <2>3
<1>3. QED
  BY <1>1, <1>2 DEF LivesInv, SeenOf

\* A transaction of site s, which receives R, that makes every row grow.
Growth(s, R) ==
  \E d \in [Pks -> Row] :
    /\ Commit(s, d, R)
    /\ \A p \in Pks : RowInv(d[p]) /\ Grows(db[s][p], d[p], {m \in R : m.pk = p})

\* A transaction that touches one key.
LEMMA OneKeyStep ==
  ASSUME LivesInv, NEW s \in Sites, NEW p \in Pks, NEW q,
         NEW R \in SUBSET Change, \A m \in R : m.pk = p,
         RowInv(q), Grows(db[s][p], q, R),
         Commit(s, [db[s] EXCEPT ![p] = q], R)
  PROVE  Growth(s, R)
<1> DEFINE d == [db[s] EXCEPT ![p] = q]
<1>1. d = [k \in Pks |-> IF k = p THEN q ELSE db[s][k]]
  BY DEF LivesInv, TypeOK
<1>2. Commit(s, d, R)
  OBVIOUS
<1> HIDE DEF d
<1>3. ASSUME NEW k \in Pks
      PROVE  RowInv(d[k]) /\ Grows(db[s][k], d[k], {m \in R : m.pk = k})
  <2>1. CASE k = p
    <3>1. {m \in R : m.pk = k} = R
      BY <2>1
    <3>2. QED
      BY <1>1, <2>1, <3>1
  <2>2. CASE k # p
    <3>1. {m \in R : m.pk = k} = {}
      BY <2>2
    <3>2. d[k] = db[s][k] /\ RowInv(db[s][k])
      BY <1>1, <2>2 DEF LivesInv
    <3>3. Grows(db[s][k], db[s][k], {})
      BY <3>2, SameGrows
    <3>4. QED
      BY <3>1, <3>2, <3>3
  <2>3. QED
    BY <2>1, <2>2
<1>4. d \in [Pks -> Row]
  BY <1>1, <1>3 DEF RowInv
<1>5. QED
  BY <1>2, <1>3, <1>4 DEF Growth

\* MovePk touches two keys: the old one is deleted, the new one rekeyed.
LEMMA MovePkStep ==
  ASSUME LivesInv, NEW s \in Sites, NEW old \in Pks, NEW new \in Pks,
         NEW vals \in [Cols -> Values], MovePk(s, old, new, vals)
  PROVE  Growth(s, {})
<1> DEFINE o == db[s][old]
           r == db[s][new]
           C == Changed(vals, o.val)
           x == Erase(CloudsyncDelete(o))
           y == Store(MarkCols(InsertSentinel(MoveCols(o, r)), C), vals)
           d == [db[s] EXCEPT ![old] = x, ![new] = y]
<1>1. old # new /\ o.live /\ ~r.live /\ RowInv(o) /\ RowInv(r) /\ C \in SUBSET Cols
  BY DEF MovePk, LivesInv, Changed
<1>2. Commit(s, d, {})
  BY DEF MovePk, Rekey, CloudsyncDelete
<1>3. RowInv(x) /\ Grows(o, x, {})
  BY <1>1, DeleteGrows
<1>4. RowInv(y) /\ Grows(r, y, {})
  <2> HIDE DEF o, r, C
  <2>1. QED
    BY <1>1, RekeyGrows
<1>5. d = [k \in Pks |-> IF k = new THEN y ELSE IF k = old THEN x ELSE db[s][k]]
  <2> HIDE DEF x, y
  <2>1. db[s] \in [Pks -> Row]
    BY DEF LivesInv, TypeOK
  <2>2. QED
    BY <2>1
<1> HIDE DEF x, y, d
<1>6. ASSUME NEW k \in Pks
      PROVE  RowInv(d[k]) /\ Grows(db[s][k], d[k], {m \in {} : m.pk = k})
  <2>1. {m \in {} : m.pk = k} = {}
    OBVIOUS
  <2>2. CASE k = new
    BY <1>4, <1>5, <2>1, <2>2
  <2>3. CASE k = old
    BY <1>1, <1>3, <1>5, <2>1, <2>3
  <2>4. CASE k # new /\ k # old
    <3>1. d[k] = db[s][k] /\ RowInv(db[s][k])
      BY <1>5, <2>4 DEF LivesInv
    <3>2. Grows(db[s][k], db[s][k], {})
      BY <3>1, SameGrows
    <3>3. QED
      BY <2>1, <3>1, <3>2
  <2>5. QED
    BY <2>2, <2>3, <2>4
<1>7. d \in [Pks -> Row]
  BY <1>5, <1>6 DEF RowInv
<1>8. QED
  BY <1>2, <1>6, <1>7 DEF Growth

\* Empty databases satisfy the inductive invariant.
LEMMA InitInv == Init => IInv
<1> SUFFICES ASSUME Init PROVE IInv
  OBVIOUS
<1>1. Absent \in Row
  BY AbsentInv DEF RowInv
<1>2. TypeOK
  BY <1>1 DEF Init, TypeOK
<1>3. \A s \in Sites, p \in Pks : db[s][p] = Absent /\ SeenOf(s, p) = {}
  BY DEF Init, SeenOf
<1>4. Join(Absent, {})
  BY DEF Join, Absent, LocalCl, PkExists, None
<1>5. QED
  BY <1>2, <1>3, <1>4, AbsentInv DEF IInv, JoinOfSeen, Init

\* Every statement, refill and merge makes the rows of its site grow.
LEMMA NextGrows ==
  ASSUME LivesInv, Next
  PROVE  \E s \in Sites, R \in SUBSET Change : (\A m \in R : WellFormed(m)) /\ Growth(s, R)
<1>1. ASSUME NEW s \in Sites, NEW p \in Pks, NEW vals \in [Cols -> Values],
             Insert(s, p, vals) \/ Replace(s, p, vals)
      PROVE  Growth(s, {})
  <2> DEFINE q == Store(CloudsyncInsert(db[s][p]), vals)
  <2>1. Commit(s, [db[s] EXCEPT ![p] = q], {})
    BY <1>1 DEF Insert, Replace
  <2>2. RowInv(db[s][p])
    BY DEF LivesInv
  <2>3. RowInv(q) /\ Grows(db[s][p], q, {})
    BY <2>2, InsertGrows
  <2> HIDE DEF q
  <2>4. QED
    BY <2>1, <2>3, OneKeyStep
<1>2. ASSUME NEW s \in Sites, NEW p \in Pks, NEW vals \in [Cols -> Values],
             Update(s, p, vals)
      PROVE  Growth(s, {})
  <2> DEFINE q == Store(MarkCols(db[s][p], Changed(vals, db[s][p].val)), vals)
  <2>1. db[s][p].live /\ Commit(s, [db[s] EXCEPT ![p] = q], {})
    BY <1>2 DEF Update
  <2>2. RowInv(db[s][p])
    BY DEF LivesInv
  <2>3. RowInv(q) /\ Grows(db[s][p], q, {})
    BY <2>1, <2>2, UpdateGrows
  <2> HIDE DEF q
  <2>4. QED
    BY <2>1, <2>3, OneKeyStep
<1>3. ASSUME NEW s \in Sites, NEW p \in Pks, Delete(s, p)
      PROVE  Growth(s, {})
  <2> DEFINE q == Erase(CloudsyncDelete(db[s][p]))
  <2>1. db[s][p].live /\ Commit(s, [db[s] EXCEPT ![p] = q], {})
    BY <1>3 DEF Delete
  <2>2. RowInv(db[s][p])
    BY DEF LivesInv
  <2>3. RowInv(q) /\ Grows(db[s][p], q, {})
    BY <2>1, <2>2, DeleteGrows
  <2> HIDE DEF q
  <2>4. QED
    BY <2>1, <2>3, OneKeyStep
<1>4. ASSUME NEW s \in Sites, NEW m \in Known, Deliver(s, m)
      PROVE  m \in Change /\ WellFormed(m) /\ Growth(s, {m})
  <2> DEFINE q == Merge(db[s][m.pk], s, m)
  <2>1. m \in Change /\ WellFormed(m) /\ m.pk \in Pks
    BY DEF Known, LivesInv, TypeOK, Change
  <2>2. Commit(s, [db[s] EXCEPT ![m.pk] = q], {m})
    BY <1>4 DEF Deliver
  <2>3. RowInv(db[s][m.pk])
    BY <2>1 DEF LivesInv
  <2>4. RowInv(q) /\ Grows(db[s][m.pk], q, {m})
    BY <2>1, <2>3, MergeGrows
  <2> HIDE DEF q
  <2>5. QED
    BY <2>1, <2>2, <2>4, OneKeyStep
<1>5. ASSUME NEW s \in Sites, Refill(s)
      PROVE  Growth(s, {})
  <2> DEFINE d == [p \in Pks |-> RefillRow(db[s][p])]
  <2>1. Commit(s, d, {})
    BY <1>5 DEF Refill
  <2>2. ASSUME NEW k \in Pks
        PROVE  RowInv(d[k]) /\ Grows(db[s][k], d[k], {m \in {} : m.pk = k})
    <3>1. RowInv(db[s][k]) /\ d[k] = RefillRow(db[s][k])
      BY DEF LivesInv
    <3>2. {m \in {} : m.pk = k} = {}
      OBVIOUS
    <3>3. QED
      BY <3>1, <3>2, RefillGrows
  <2>3. d = [p \in Pks |-> d[p]]
    OBVIOUS
  <2> HIDE DEF d
  <2>4. d \in [Pks -> Row]
    BY <2>2, <2>3 DEF RowInv
  <2>5. QED
    BY <2>1, <2>2, <2>4 DEF Growth
<1>6. ASSUME NEW s \in Sites, WriteRow(s) \/ WriteKey(s) \/ Refill(s)
      PROVE  Growth(s, {})
  BY <1>1, <1>2, <1>3, <1>5, <1>6, MovePkStep DEF WriteRow, WriteKey
<1>7. ASSUME NEW s \in Sites, Receive(s)
      PROVE  \E R \in SUBSET Change : (\A m \in R : WellFormed(m)) /\ Growth(s, R)
  <2>1. PICK m \in Known : m \in Change /\ WellFormed(m) /\ Growth(s, {m})
    BY <1>4, <1>7 DEF Receive
  <2>2. {m} \in SUBSET Change /\ \A x \in {m} : WellFormed(x)
    BY <2>1
  <2>3. QED
    BY <2>1, <2>2
<1>8. {} \in SUBSET Change /\ \A m \in {} : WellFormed(m)
  OBVIOUS
<1>9. QED
  BY <1>6, <1>7, <1>8 DEF Next

\* Every step keeps the inductive invariant and moves no clock back.
LEMMA NextStep ==
  ASSUME IInv, [Next]_vars
  PROVE  IInv' /\ NothingRegresses
<1>1. CASE UNCHANGED vars
  <2>1. NothingRegresses
    BY <1>1, NotBehindRefl DEF vars, IInv, NothingRegresses
  <2>2. IInv'
    BY <1>1 DEF vars, IInv, TypeOK, JoinOfSeen, SeenOf
  <2>3. QED
    BY <2>1, <2>2
<1>2. CASE Next
  <2>1. PICK s \in Sites, R \in SUBSET Change : (\A m \in R : WellFormed(m)) /\ Growth(s, R)
    BY <1>2, InvLives, NextGrows
  <2>2. QED
    BY <2>1, CommitStep DEF Growth
<1>3. QED
  BY <1>1, <1>2

\* MoveOver: the old key is deleted, the new one may lose columns but keeps its life.
LEMMA MoveOverStep ==
  ASSUME LivesInv, NEW s \in Sites, NEW old \in Pks, NEW new \in Pks,
         NEW vals \in [Cols -> Values], MoveOver(s, old, new, vals)
  PROVE  LivesInv'
<1> DEFINE o == db[s][old]
           r == db[s][new]
           C == Changed(vals, o.val)
           x == Erase(CloudsyncDelete(o))
           y == Store(MarkCols(InsertSentinel(MoveCols(o, r)), C), vals)
           d == [db[s] EXCEPT ![old] = x, ![new] = y]
<1>1. old # new /\ o.live /\ RowInv(o) /\ RowInv(r) /\ C \in SUBSET Cols
  BY DEF MoveOver, LivesInv, Changed
<1>2. Commit(s, d, {})
  BY DEF MoveOver, Rekey, CloudsyncDelete
<1>3. RowInv(x) /\ LifeGrows(o, x, {})
  BY <1>1, DeleteGrows, GrowsLife
<1>4. RowInv(y) /\ LifeGrows(r, y, {})
  <2> HIDE DEF o, r, C
  <2>1. QED
    BY <1>1, RekeyLives
<1>5. d = [k \in Pks |-> IF k = new THEN y ELSE IF k = old THEN x ELSE db[s][k]]
  <2> HIDE DEF x, y
  <2>1. db[s] \in [Pks -> Row]
    BY DEF LivesInv, TypeOK
  <2>2. QED
    BY <2>1
<1> HIDE DEF x, y, d
<1>6. ASSUME NEW k \in Pks
      PROVE  RowInv(d[k]) /\ LifeGrows(db[s][k], d[k], {m \in {} : m.pk = k})
  <2>1. {m \in {} : m.pk = k} = {}
    OBVIOUS
  <2>2. CASE k = new
    BY <1>4, <1>5, <2>1, <2>2
  <2>3. CASE k = old
    BY <1>1, <1>3, <1>5, <2>1, <2>3
  <2>4. CASE k # new /\ k # old
    <3>1. d[k] = db[s][k] /\ RowInv(db[s][k])
      BY <1>5, <2>4 DEF LivesInv
    <3>2. LifeGrows(db[s][k], db[s][k], {})
      BY <3>1, SameGrows, GrowsLife
    <3>3. QED
      BY <2>1, <3>1, <3>2
  <2>5. QED
    BY <2>2, <2>3, <2>4
<1>7. d \in [Pks -> Row]
  BY <1>5, <1>6 DEF RowInv
<1>8. QED
  BY <1>2, <1>6, <1>7, LivesCommit

\* Every step of any use of keys keeps the invariant of lives.
LEMMA LivesStep ==
  ASSUME LivesInv, [AnyKeyNext]_vars
  PROVE  LivesInv'
<1>1. CASE UNCHANGED vars
  BY <1>1 DEF vars, LivesInv, TypeOK, SeenOf
<1>2. CASE Next
  <2>1. PICK s \in Sites, R \in SUBSET Change : (\A m \in R : WellFormed(m)) /\ Growth(s, R)
    BY <1>2, NextGrows
  <2>2. PICK d \in [Pks -> Row] :
          /\ Commit(s, d, R)
          /\ \A p \in Pks : RowInv(d[p]) /\ Grows(db[s][p], d[p], {m \in R : m.pk = p})
    BY <2>1 DEF Growth
  <2>3. \A p \in Pks : RowInv(d[p]) /\ LifeGrows(db[s][p], d[p], {m \in R : m.pk = p})
    BY <2>2, GrowsLife
  <2>4. QED
    BY <2>1, <2>2, <2>3, LivesCommit
<1>3. CASE \E s \in Sites : OverwriteKey(s)
  BY <1>3, MoveOverStep DEF OverwriteKey
<1>4. QED
  BY <1>1, <1>2, <1>3 DEF AnyKeyNext

\* A transaction whose new lives are born whole keeps every known life whole.
LEMMA WholeCommit ==
  ASSUME LivesInv, KnownWhole, NEW s \in Sites, NEW d, NEW R \in SUBSET Known,
         Commit(s, d, R),
         \A p \in Pks : RowInv(d[p]) /\ BornWhole(db[s][p], d[p], {m \in R : m.pk = p})
  PROVE  KnownWhole'
<1>1. Known' = Known \cup Export(s, d)
  <2>1. seen' = [seen EXCEPT ![s] = seen[s] \cup R \cup Export(s, d)] /\ seen \in [Sites -> SUBSET Change]
    BY DEF Commit, LivesInv, TypeOK
  <2>2. seen'[s] = seen[s] \cup R \cup Export(s, d) /\ \A t \in Sites \ {s} : seen'[t] = seen[t]
    BY <2>1
  <2>3. \A m : m \in Known' <=> m \in Known \/ m \in Export(s, d)
    BY <2>2 DEF Known
  <2>4. QED
    BY <2>3
<1>2. ASSUME NEW p \in Pks, NEW m \in ExportRow(s, p, d[p]), m.cl % 2 = 1, NEW c \in Cols
      PROVE  \E n \in Known' : n.pk = m.pk /\ n.cl = m.cl /\ n.col = c /\ n.ver > 0
  <2> DEFINE r == db[s][p]
             q == d[p]
             X == ExportRow(s, p, q)
  <2>1. RowInv(q) /\ BornWhole(r, q, {k \in R : k.pk = p}) /\ RowInv(r) /\ LifeJoin(r, SeenOf(s, p))
    BY DEF LivesInv
  <2>2. X \subseteq Known'
    BY <1>1 DEF Export
  <2>3. /\ \A k \in X : k.pk = p /\ k.cl = LocalCl(q)
        /\ c \in q.own => \E k \in X : Attains(k, q, c)
    BY <2>1, ExportedChanges
  <2>4. m.pk = p /\ m.cl = LocalCl(q)
    BY <2>3
  <2>5. CASE \E k \in Known : k.pk = p /\ k.cl = m.cl
    BY <1>1, <1>2, <2>4, <2>5 DEF KnownWhole
  <2>6. CASE LocalCl(q) = LocalCl(r)
    <3>1. LocalCl(r) \in Nat /\ LocalCl(r) > 0
      BY <1>2, <2>1, <2>4, <2>6, LocalClNat DEF RowInv
    <3>2. PICK k \in SeenOf(s, p) : k.cl = LocalCl(r)
      BY <2>1, <3>1 DEF LifeJoin
    <3>3. k \in Known /\ k.pk = p /\ k.cl = m.cl
      BY <2>4, <2>6, <3>2 DEF SeenOf, Known
    <3>4. QED
      BY <2>5, <3>3
  <2>7. CASE \E k \in {k \in R : k.pk = p} : k.cl = LocalCl(q)
    BY <2>4, <2>5, <2>7
  <2>8. CASE c \in q.own /\ q.ver[c] > 0
    <3>1. PICK n \in X : Attains(n, q, c)
      BY <2>3, <2>8
    <3>2. n.ver = q.ver[c] /\ n.col = c
      BY <3>1 DEF Attains, Stamp
    <3> HIDE DEF q, X
    <3>3. QED
      BY <2>2, <2>3, <2>4, <2>8, <3>1, <3>2
  <2>9. QED
    BY <1>2, <2>1, <2>4, <2>6, <2>7, <2>8 DEF BornWhole
<1>3. ASSUME NEW m \in Known', m.cl % 2 = 1, NEW c \in Cols
      PROVE  \E n \in Known' : n.pk = m.pk /\ n.cl = m.cl /\ n.col = c /\ n.ver > 0
  <2>1. CASE m \in Known
    BY <1>1, <1>3, <2>1 DEF KnownWhole
  <2>2. CASE m \in Export(s, d)
    BY <1>2, <1>3, <2>2 DEF Export
  <2>3. QED
    BY <1>1, <1>3, <2>1, <2>2
<1>4. QED
  BY <1>3 DEF KnownWhole

\* The same for a transaction that touches one key.
LEMMA WholeKeyStep ==
  ASSUME LivesInv, KnownWhole, NEW s \in Sites, NEW p \in Pks, NEW q,
         NEW R \in SUBSET Known, \A m \in R : m.pk = p,
         RowInv(q), BornWhole(db[s][p], q, R),
         Commit(s, [db[s] EXCEPT ![p] = q], R)
  PROVE  KnownWhole'
<1> DEFINE d == [db[s] EXCEPT ![p] = q]
<1>1. d = [k \in Pks |-> IF k = p THEN q ELSE db[s][k]]
  BY DEF LivesInv, TypeOK
<1>2. Commit(s, d, R)
  OBVIOUS
<1> HIDE DEF d
<1>3. ASSUME NEW k \in Pks
      PROVE  RowInv(d[k]) /\ BornWhole(db[s][k], d[k], {m \in R : m.pk = k})
  <2>1. CASE k = p
    <3>1. {m \in R : m.pk = k} = R
      BY <2>1
    <3>2. QED
      BY <1>1, <2>1, <3>1
  <2>2. CASE k # p
    BY <1>1, <2>2 DEF LivesInv, BornWhole
  <2>3. QED
    BY <2>1, <2>2
<1>4. QED
  BY <1>2, <1>3, WholeCommit

\* Statements that leave primary keys alone, refills and merges keep known lives whole.
LEMMA WholeStep ==
  ASSUME LivesInv, KnownWhole, SameKeyNext
  PROVE  KnownWhole'
<1>1. ASSUME NEW s \in Sites, NEW p \in Pks, NEW vals \in [Cols -> Values],
             Insert(s, p, vals) \/ Replace(s, p, vals)
      PROVE  KnownWhole'
  <2> DEFINE q == Store(CloudsyncInsert(db[s][p]), vals)
  <2>1. Commit(s, [db[s] EXCEPT ![p] = q], {})
    BY <1>1 DEF Insert, Replace
  <2>2. RowInv(db[s][p])
    BY DEF LivesInv
  <2>3. RowInv(q) /\ \A c \in Cols : c \in q.own /\ q.ver[c] > 0
    BY <2>2, InsertGrows
  <2> HIDE DEF q
  <2>4. BornWhole(db[s][p], q, {})
    BY <2>3 DEF BornWhole
  <2>5. QED
    BY <2>1, <2>3, <2>4, WholeKeyStep
<1>2. ASSUME NEW s \in Sites, NEW p \in Pks, NEW vals \in [Cols -> Values],
             Update(s, p, vals)
      PROVE  KnownWhole'
  <2> DEFINE q == Store(MarkCols(db[s][p], Changed(vals, db[s][p].val)), vals)
  <2>1. db[s][p].live /\ Commit(s, [db[s] EXCEPT ![p] = q], {})
    BY <1>2 DEF Update
  <2>2. RowInv(db[s][p])
    BY DEF LivesInv
  <2>3. RowInv(q) /\ LocalCl(q) = LocalCl(db[s][p])
    BY <2>1, <2>2, UpdateGrows
  <2> HIDE DEF q
  <2>4. BornWhole(db[s][p], q, {})
    BY <2>3 DEF BornWhole
  <2>5. QED
    BY <2>1, <2>3, <2>4, WholeKeyStep
<1>3. ASSUME NEW s \in Sites, NEW p \in Pks, Delete(s, p)
      PROVE  KnownWhole'
  <2> DEFINE x == CloudsyncDelete(db[s][p])
             q == Erase(x)
  <2>1. db[s][p].live /\ Commit(s, [db[s] EXCEPT ![p] = q], {})
    BY <1>3 DEF Delete
  <2>2. RowInv(db[s][p])
    BY DEF LivesInv
  <2>3. RowInv(q)
    BY <2>1, <2>2, DeleteGrows
  <2>4. x \in Row
    BY <2>2, MarkDeleteRow, DropColsRow DEF CloudsyncDelete, RowInv
  <2>5. ~q.live
    <3> HIDE DEF x
    <3>1. QED
      BY <2>4, EraseRow
  <2> HIDE DEF q
  <2>6. BornWhole(db[s][p], q, {})
    BY <2>3, <2>5 DEF BornWhole, RowInv, Consistent
  <2>7. QED
    BY <2>1, <2>3, <2>6, WholeKeyStep
<1>4. ASSUME NEW s \in Sites, NEW m \in Known, Deliver(s, m)
      PROVE  KnownWhole'
  <2> DEFINE q == Merge(db[s][m.pk], s, m)
  <2>1. m \in Change /\ WellFormed(m) /\ m.pk \in Pks
    BY DEF Known, LivesInv, TypeOK, Change
  <2>2. Commit(s, [db[s] EXCEPT ![m.pk] = q], {m})
    BY <1>4 DEF Deliver
  <2>3. RowInv(db[s][m.pk])
    BY <2>1 DEF LivesInv
  <2>4. RowInv(q) /\ LocalCl(q) \in {LocalCl(db[s][m.pk]), m.cl}
    BY <2>1, <2>3, MergeGrows
  <2> HIDE DEF q
  <2>5. BornWhole(db[s][m.pk], q, {m})
    BY <2>4 DEF BornWhole
  <2>6. QED
    BY <2>1, <2>2, <2>4, <2>5, WholeKeyStep
<1>5. ASSUME NEW s \in Sites, Refill(s)
      PROVE  KnownWhole'
  <2> DEFINE d == [p \in Pks |-> RefillRow(db[s][p])]
  <2>1. Commit(s, d, {})
    BY <1>5 DEF Refill
  <2>2. ASSUME NEW k \in Pks
        PROVE  RowInv(d[k]) /\ BornWhole(db[s][k], d[k], {m \in {} : m.pk = k})
    <3>1. RowInv(db[s][k]) /\ d[k] = RefillRow(db[s][k])
      BY DEF LivesInv
    <3>2. RowInv(d[k]) /\ LocalCl(d[k]) = LocalCl(db[s][k])
      BY <3>1, RefillGrows
    <3> HIDE DEF d
    <3>3. QED
      BY <3>2 DEF BornWhole
  <2> HIDE DEF d
  <2>3. QED
    BY <2>1, <2>2, WholeCommit
<1>6. QED
  BY <1>1, <1>2, <1>3, <1>4, <1>5 DEF SameKeyNext, WriteRow, Receive

\* A row that bounds the changes seen, and attains each of its clocks in them, is determined
\* by them.
LEMMA InvConverges == IInv => Convergence
<1> SUFFICES ASSUME IInv, NEW s \in Sites, NEW t \in Sites, NEW p \in Pks, seen[s] = seen[t]
             PROVE  LET r == db[s][p] q == db[t][p]
                    IN  /\ r.live = q.live /\ LocalCl(r) = LocalCl(q)
                        /\ \A c \in Cols : (r.ver[c] > 0 \/ q.ver[c] > 0)
                                             => Stamp(r, c) = Stamp(q, c)
  BY DEF Convergence
<1> DEFINE r == db[s][p]
           q == db[t][p]
           S == SeenOf(s, p)
<1>1. RowInv(r) /\ RowInv(q) /\ Join(r, S) /\ Join(q, S) /\ S \subseteq Change
  BY DEF IInv, TypeOK, JoinOfSeen, SeenOf
<1> HIDE DEF r, q, S
<1>2. r \in Row /\ q \in Row /\ LocalCl(r) \in Nat /\ LocalCl(q) \in Nat
  BY <1>1, LocalClNat DEF RowInv
<1>3. LocalCl(r) = LocalCl(q) /\ r.live = q.live
  <2>1. LifeJoin(r, S) /\ LifeJoin(q, S)
    BY <1>1 DEF Join, Bounds, LifeJoin
  <2>2. QED
    BY <1>1, <2>1, SameLife
<1>4. ASSUME NEW c \in Cols,
             NEW x \in Row, Join(x, S), LocalCl(x) = LocalCl(r), x.ver[c] > 0,
             NEW y \in Row, Join(y, S), LocalCl(y) = LocalCl(r)
      PROVE  AtMost(Stamp(x, c), Stamp(y, c)) /\ y.ver[c] > 0
  <2>1. PICK m \in S : Attains(m, x, c)
    BY <1>4 DEF Join
  <2>2. m.col # Rip /\ m.ver = x.ver[c] /\ <<m.ver, m.val>> = Stamp(x, c)
    BY <2>1, RipAssumption DEF Attains, Stamp
  <2>3. AtMost(Stamp(x, c), Stamp(y, c))
    BY <1>4, <2>1, <2>2 DEF Join, Bounds, Attains
  <2>4. QED
    BY <1>4, <2>3, RowFields DEF AtMost, Stamp
<1>5. ASSUME NEW c \in Cols, r.ver[c] > 0 \/ q.ver[c] > 0
      PROVE  Stamp(r, c) = Stamp(q, c)
  <2>1. AtMost(Stamp(r, c), Stamp(q, c)) /\ AtMost(Stamp(q, c), Stamp(r, c))
    BY <1>1, <1>2, <1>3, <1>4, <1>5
  <2>2. QED
    BY <1>2, <2>1, RowFields DEF AtMost, Stamp
<1>6. QED
  BY <1>3, <1>5 DEF r, q

(***************************************************************************)
(* The theorems.                                                           *)
(***************************************************************************)
\* Every variable keeps its type, and only well-typed changes are exported.
THEOREM TypeCorrect == AnyKeySpec => []TypeOK
<1>1. Init => LivesInv
  BY InitInv, InvLives
<1>2. LivesInv => TypeOK
  BY DEF LivesInv
<1>3. QED
  BY <1>1, <1>2, LivesStep, PTL DEF AnyKeySpec

\* At every site, for every key, the row is in the user's table exactly while the causal
\* length in <table>_cloudsync is odd, and a dead row keeps only its sentinel: the even/odd
\* arithmetic of the trigger statements and of the merge agree, whatever is done to keys.
THEOREM MetadataMatchesTable == AnyKeySpec => []ClockMatchesRow
<1>1. Init => LivesInv
  BY InitInv, InvLives
<1>2. LivesInv => ClockMatchesRow
  BY DEF LivesInv, RowInv, ClockMatchesRow
<1>3. QED
  BY <1>1, <1>2, LivesStep, PTL DEF AnyKeySpec

\* Whatever order, repetition or relay of changes, and whatever local writes in between,
\* a site stores the greatest causal length it has seen for each row and, for each column,
\* the greatest (col_version, value) seen at that length: cloudsync_merge_insert is a join.
THEOREM StateIsJoin == Spec => []JoinOfSeen
<1>1. IInv => JoinOfSeen
  BY DEF IInv
<1>2. QED
  BY <1>1, InitInv, NextStep, PTL DEF Spec

\* Strong eventual consistency: sites that have seen the same changes have the same rows,
\* and agree on every column that a change of the row's present life has set.
THEOREM SitesConverge == Spec => []Convergence
BY InvConverges, InitInv, NextStep, PTL DEF Spec

\* No trigger and no merge moves a clock back: neither the causal length of a row nor,
\* within one life of the row, a column's (col_version, value).
THEOREM ClocksNeverRegress == Spec => ClockNeverRegresses
<1>1. IInv /\ [Next]_vars => [NothingRegresses]_vars
  BY NextStep
<1>2. QED
  BY <1>1, InitInv, NextStep, PTL DEF Spec, ClockNeverRegresses, NothingRegresses

(***************************************************************************)
(* The refinement of LwwMap.                                               *)
(***************************************************************************)
\* What counts of a column: its version and value, unless it waits.
LEMMA CountedType ==
  ASSUME NEW v \in Nat \cup {None}, NEW w \in Nat
  PROVE  /\ v > 0 => Counted(v, w) = <<v, w>>
         /\ ~(v > 0) => Counted(v, w) = <<0, 0>>
         /\ Counted(v, w)[1] \in Nat /\ Counted(v, w)[2] \in Nat
  BY DEF Counted, None

\* A row whose clocks do not move back does not move back as a replica's clock.
LEMMA ClockLeqOf ==
  ASSUME NEW r \in Row, NEW q \in Row, NotBehind(q, r)
  PROVE  Lww!ClockLeq(ClockOf(r), ClockOf(q))
<1>1. ClockOf(r).life <= ClockOf(q).life
  BY DEF NotBehind, ClockOf
<1>2. ASSUME NEW c \in Cols, LocalCl(r) = LocalCl(q)
      PROVE  Lww!Leq(Counted(r.ver[c], r.val[c]), Counted(q.ver[c], q.val[c]))
  <2>1. /\ r.ver[c] \in Nat \cup {None} /\ r.val[c] \in Nat
        /\ q.ver[c] \in Nat \cup {None} /\ q.val[c] \in Nat
    BY RowFields DEF Row, Version
  <2>2. r.ver[c] > 0 => AtMost(Stamp(r, c), Stamp(q, c))
    BY <1>2 DEF NotBehind
  <2>3. QED
    BY <2>1, <2>2 DEF AtMost, Stamp, Counted, Lww!Leq, None
<1>3. QED
  BY <1>1, <1>2 DEF ClockOf, Lww!ClockLeq

\* A row covers the updates of the changes that it bounds.
LEMMA CoversOf ==
  ASSUME NEW r \in Row, NEW m \in Change, Bounds(r, m)
  PROVE  Lww!Covers(ClockOf(r), UpdateOf(m))
<1>1. UpdateOf(m).life <= ClockOf(r).life
  BY DEF Bounds, ClockOf, UpdateOf
<1>2. ASSUME m.cl = LocalCl(r), m.col # Rip
      PROVE  Lww!Leq(Counted(m.ver, m.val), Counted(r.ver[m.col], r.val[m.col]))
  <2>1. /\ m.col \in Cols /\ m.ver \in Nat /\ m.val \in Nat
        /\ r.ver[m.col] \in Nat \cup {None} /\ r.val[m.col] \in Nat
    BY <1>2, RowFields, ValuesAssumption DEF Change, Row, Version
  <2>2. m.ver > 0 => AtMost(<<m.ver, m.val>>, Stamp(r, m.col))
    BY <1>2 DEF Bounds
  <2>3. QED
    BY <2>1, <2>2 DEF AtMost, Stamp, Counted, Lww!Leq, None
<1>3. QED
  BY <1>1, <1>2 DEF ClockOf, UpdateOf, Lww!Covers, Change

\* A row that is the join of changes is, as a clock, the join of their updates.
LEMMA JoinOf ==
  ASSUME NEW r \in Row, NEW S \in SUBSET Change, Join(r, S)
  PROVE  Lww!IsJoin(ClockOf(r), UpdatesOf(S))
<1>1. \A u \in UpdatesOf(S) : Lww!Covers(ClockOf(r), u)
  BY CoversOf DEF Join, UpdatesOf
<1>2. ClockOf(r).life > 0 => \E u \in UpdatesOf(S) : u.life = ClockOf(r).life
  <2>1. SUFFICES ASSUME LocalCl(r) > 0 PROVE \E u \in UpdatesOf(S) : u.life = LocalCl(r)
    BY DEF ClockOf
  <2>2. PICK m \in S : m.cl = LocalCl(r)
    BY <2>1 DEF Join
  <2>3. UpdateOf(m) \in UpdatesOf(S) /\ UpdateOf(m).life = LocalCl(r)
    BY <2>2 DEF UpdatesOf, UpdateOf
  <2>4. QED
    BY <2>3
<1>3. ASSUME NEW c \in Cols, ClockOf(r).reg[c] # Lww!Bottom
      PROVE  \E u \in UpdatesOf(S) : u.life = ClockOf(r).life /\ c \in u.cols
                                      /\ u.stamp = ClockOf(r).reg[c]
  <2>1. ClockOf(r).reg[c] = Counted(r.ver[c], r.val[c])
    BY DEF ClockOf
  <2>2. r.ver[c] > 0
    BY <1>3, <2>1 DEF Counted, Lww!Bottom
  <2>3. PICK m \in S : Attains(m, r, c)
    BY <2>2 DEF Join
  <2>4. m.cl = LocalCl(r) /\ m.col = c /\ c # Rip /\ m.ver = r.ver[c] /\ m.val = r.val[c]
    BY <2>3, RipAssumption DEF Attains, Stamp
  <2>5. UpdateOf(m) \in UpdatesOf(S)
    BY DEF UpdatesOf
  <2>6. QED
    BY <2>1, <2>4, <2>5 DEF UpdateOf, ClockOf
<1>4. QED
  BY <1>1, <1>2, <1>3 DEF Lww!IsJoin

\* The merge of one change joins it to the clock of the row: what it does to the
\* clock depends on the clock and the change alone.
LEMMA MergeAbsorbs ==
  ASSUME NEW r, RowInv(r), NEW s \in Sites, NEW m \in Change, WellFormed(m),
         NEW q, q = Merge(r, s, m)
  PROVE  ClockOf(q) = Lww!Absorb(ClockOf(r), UpdateOf(m))
<1> DEFINE reg(x, c) == Counted(x.ver[c], x.val[c])
           low(c) == IF m.cl > LocalCl(r) THEN <<0, 0>> ELSE reg(r, c)
           told(c) == IF m.col = c THEN Counted(m.ver, m.val) ELSE <<0, 0>>
<1>1. /\ r \in Row /\ LocalCl(r) \in Nat /\ m.cl \in Nat /\ m.cl > 0 /\ m.col \in Cols \cup {Rip}
      /\ m.ver \in Nat /\ m.val \in Nat
      /\ (m.cl % 2 = 0 \/ m.cl % 2 = 1)
  BY LocalClNat, Parity, ValuesAssumption DEF RowInv, Change, WellFormed
<1>2. \A c \in Cols : /\ r.ver[c] \in Nat \cup {None} /\ r.val[c] \in Nat
                      /\ reg(r, c)[1] \in Nat /\ reg(r, c)[2] \in Nat
                      /\ reg(r, c) = IF r.ver[c] > 0 THEN <<r.ver[c], r.val[c]>> ELSE <<0, 0>>
  BY <1>1, RowFields DEF Row, Version, Counted, None
<1>3. ASSUME NEW c \in Cols PROVE Lww!Greater(reg(r, c), <<0, 0>>) = reg(r, c)
  <2>1. CASE r.ver[c] > 0
    <3>1. reg(r, c) = <<r.ver[c], r.val[c]>>
      BY <2>1 DEF Counted
    <3>2. r.ver[c] \in Nat
      BY <1>1, <2>1, RowFields
    <3> HIDE DEF reg
    <3>3. QED
      BY <2>1, <3>1, <3>2 DEF Lww!Greater, Lww!Leq
  <2>2. CASE ~(r.ver[c] > 0)
    BY <1>2, <2>2 DEF Lww!Greater, Lww!Leq
  <2>3. QED
    BY <2>1, <2>2
<1>4. SUFFICES
        /\ m.cl < LocalCl(r) => q = r
        /\ m.cl >= LocalCl(r) =>
             /\ LocalCl(q) = m.cl
             /\ \A c \in Cols : reg(q, c) = Lww!Greater(low(c), told(c))
  <2>1. CASE m.cl < LocalCl(r)
    BY <1>4, <2>1 DEF ClockOf, UpdateOf, Lww!Absorb
  <2>2. CASE m.cl >= LocalCl(r)
    <3>1. /\ LocalCl(q) = m.cl
          /\ \A c \in Cols : reg(q, c) = Lww!Greater(low(c), told(c))
      BY <1>4, <2>2
    <3>2. ASSUME NEW c \in Cols
          PROVE  Lww!Greater(
                   IF UpdateOf(m).life > ClockOf(r).life THEN Lww!Bottom ELSE ClockOf(r).reg[c],
                   IF c \in UpdateOf(m).cols THEN UpdateOf(m).stamp ELSE Lww!Bottom)
                 = Lww!Greater(low(c), told(c))
      BY RipAssumption DEF ClockOf, UpdateOf, Lww!Bottom
    <3>3. Lww!Absorb(ClockOf(r), UpdateOf(m))
            = [life |-> m.cl, reg |-> [c \in Cols |-> Lww!Greater(low(c), told(c))]]
      BY <1>1, <2>2, <3>2 DEF ClockOf, UpdateOf, Lww!Absorb
    <3>4. QED
      BY <3>1, <3>3 DEF ClockOf
  <2>3. QED
    BY <1>1, <2>1, <2>2
<1>5. CASE m.cl < LocalCl(r)
  BY <1>1, <1>5 DEF Merge
<1>6. CASE m.cl = LocalCl(r) /\ (m.cl % 2 = 0 \/ m.col = Rip)
  <2>1. q = r /\ m.col = Rip
    BY <1>1, <1>6 DEF Merge, WellFormed
  <2>2. QED
    BY <1>1, <1>3, <1>6, <2>1, RipAssumption
<1>7. ASSUME NEW c \in Cols, q.ver[c] \in {None, 0}, m.cl > LocalCl(r), m.col # c
      PROVE  reg(q, c) = Lww!Greater(low(c), told(c))
  BY <1>1, <1>7 DEF Counted, Lww!Greater, Lww!Leq, None
<1>8. CASE m.cl > LocalCl(r) /\ m.col = Rip
  <2>1. m.ver = m.cl
    BY <1>8 DEF WellFormed
  <2>2. q.rip = m.cl /\ \A c \in Cols : q.ver[c] \in {None, 0}
    <3>1. CASE m.cl % 2 = 0
      <4>1. q = MergeDelete(r, s, m)
        BY <1>1, <1>8, <3>1 DEF Merge
      <4>2. QED
        BY <1>1, <1>8, <2>1, <4>1, MergeDeleteRow
    <3>2. CASE m.cl % 2 = 1
      <4>1. q = MergeSentinel(r, s, m, m.cl)
        BY <1>1, <1>8, <2>1, <3>2 DEF Merge
      <4>2. QED
        BY <1>1, <4>1, MergeSentinelRow
    <3>3. QED
      BY <1>1, <3>1, <3>2
  <2>3. LocalCl(q) = m.cl
    BY <1>1, <2>2 DEF LocalCl, None
  <2>4. QED
    BY <1>1, <1>7, <1>8, <2>2, <2>3, RipAssumption
<1>9. CASE m.cl >= LocalCl(r) /\ m.cl % 2 = 1 /\ m.col # Rip
  <2>1. q = MergeAlive(r, s, m) /\ m.col \in Cols
    BY <1>1, <1>9 DEF Merge
  <2>2. CASE m.cl > LocalCl(r)
    <3>1. PICK k : /\ RowInv(k) /\ q = MergeCol(k, s, m)
                   /\ LocalCl(k) = m.cl \/ (LocalCl(k) = 0 /\ m.cl = 1)
                   /\ \A c \in Cols : k.ver[c] \in {None, 0}
      <4>1. CASE LocalCl(r) # 0 \/ m.cl > 1
        <5>1. q = MergeCol(MergeSentinel(r, s, m, m.cl), s, m)
          BY <2>1, <2>2, <4>1 DEF MergeAlive
        <5>2. LET k == MergeSentinel(r, s, m, m.cl)
              IN  RowInv(k) /\ LocalCl(k) = m.cl /\ \A c \in Cols : k.ver[c] \in {None, 0}
          BY <1>1, <1>9, <2>2, MergeSentinelGrows
        <5>3. QED
          BY <5>1, <5>2
      <4>2. CASE LocalCl(r) = 0 /\ m.cl = 1
        <5>1. q = MergeCol(r, s, m)
          BY <2>1, <4>2 DEF MergeAlive
        <5>2. \A c \in Cols : r.ver[c] = None
          BY <4>2 DEF RowInv, LocalCl, PkExists
        <5>3. QED
          BY <4>2, <5>1, <5>2
      <4>3. QED
        BY <1>1, <4>1, <4>2
    <3>2. /\ LocalCl(q) = m.cl
          /\ \A c \in Cols \ {m.col} : q.ver[c] \in {None, 0}
          /\ q.ver[m.col] = m.ver /\ q.val[m.col] = m.val
      BY <1>9, <2>1, <3>1, MergeColInv
    <3>3. reg(q, m.col) = Lww!Greater(low(m.col), told(m.col))
      BY <1>1, <2>2, <3>2 DEF Counted, Lww!Greater, Lww!Leq
    <3>4. \A c \in Cols : reg(q, c) = Lww!Greater(low(c), told(c))
      <4> HIDE DEF reg, low, told
      <4>1. QED
        BY <1>7, <2>2, <3>2, <3>3
    <3>5. QED
      BY <1>1, <2>2, <3>2, <3>4
  <2>3. CASE m.cl = LocalCl(r) /\ CidWins(r, m)
    <3>1. q = MergeCol(r, s, m)
      BY <1>1, <2>1, <2>3 DEF MergeAlive
    <3>2. /\ LocalCl(q) = m.cl
          /\ \A c \in Cols \ {m.col} : q.ver[c] = r.ver[c] /\ q.val[c] = r.val[c]
          /\ q.ver[m.col] = m.ver /\ q.val[m.col] = m.val
      BY <1>1, <1>9, <2>1, <2>3, <3>1, MergeColInv
    <3>3. r.live
      BY <1>1, <1>9, <2>3 DEF RowInv, Consistent
    <3>4. reg(q, m.col) = Lww!Greater(low(m.col), told(m.col))
      <4>1. /\ reg(q, m.col) = Counted(m.ver, m.val)
            /\ low(m.col) = reg(r, m.col) /\ told(m.col) = Counted(m.ver, m.val)
        BY <1>1, <2>3, <3>2
      <4>2. \/ r.ver[m.col] = None
            \/ m.ver > r.ver[m.col]
            \/ m.ver = r.ver[m.col] /\ m.val > r.val[m.col]
        BY <2>3, <3>3 DEF CidWins
      <4>3. QED
        BY <1>1, <1>2, <2>1, <4>1, <4>2 DEF Counted, Lww!Greater, Lww!Leq, None
    <3>5. \A c \in Cols \ {m.col} : reg(q, c) = Lww!Greater(low(c), told(c))
      BY <1>1, <1>3, <2>3, <3>2
    <3>6. \A c \in Cols : reg(q, c) = Lww!Greater(low(c), told(c))
      <4> HIDE DEF reg, low, told
      <4>1. QED
        BY <3>4, <3>5
    <3>7. QED
      BY <1>1, <2>3, <3>2, <3>6
  <2>4. CASE m.cl = LocalCl(r) /\ ~CidWins(r, m)
    <3>1. q = r
      BY <1>1, <2>1, <2>4 DEF MergeAlive
    <3>2. reg(r, m.col) = Lww!Greater(low(m.col), told(m.col))
      <4>1. low(m.col) = reg(r, m.col) /\ told(m.col) = Counted(m.ver, m.val)
        BY <1>1, <2>4
      <4>2. /\ r.ver[m.col] # None
            /\ ~(m.ver > r.ver[m.col])
            /\ ~(m.ver = r.ver[m.col] /\ m.val > r.val[m.col])
        BY <2>4 DEF CidWins
      <4>3. QED
        BY <1>1, <1>2, <2>1, <4>1, <4>2 DEF Counted, Lww!Greater, Lww!Leq, None
    <3>3. \A c \in Cols \ {m.col} : reg(r, c) = Lww!Greater(low(c), told(c))
      BY <1>1, <1>3, <2>4
    <3>4. \A c \in Cols : reg(q, c) = Lww!Greater(low(c), told(c))
      <4> HIDE DEF reg, low, told
      <4>1. QED
        BY <3>1, <3>2, <3>3
    <3>5. QED
      BY <1>1, <2>4, <3>1, <3>4
  <2>5. QED
    BY <1>1, <1>9, <2>2, <2>3, <2>4
<1>10. QED
  <2> HIDE DEF reg, low, told
  <2>1. \/ m.cl < LocalCl(r)
        \/ m.cl = LocalCl(r) /\ (m.cl % 2 = 0 \/ m.col = Rip)
        \/ m.cl > LocalCl(r) /\ m.col = Rip
        \/ m.cl >= LocalCl(r) /\ m.cl % 2 = 1 /\ m.col # Rip
    BY <1>1 DEF WellFormed
  <2>2. QED
    BY <1>5, <1>6, <1>8, <1>9, <2>1

\* What a row exports says what the row holds.
LEMMA TellsOf ==
  ASSUME NEW r, NEW m \in Change, m.cl = LocalCl(r),
         m.col # Rip => <<m.ver, m.val>> = Stamp(r, m.col)
  PROVE  Lww!Tells(ClockOf(r), UpdateOf(m))
<1>1. UpdateOf(m).life = ClockOf(r).life
  BY DEF UpdateOf, ClockOf
<1>2. ASSUME m.col # Rip
      PROVE  m.col \in Cols /\ UpdateOf(m).stamp = ClockOf(r).reg[m.col]
  BY <1>2 DEF Stamp, UpdateOf, ClockOf, Change
<1>3. UpdateOf(m).cols = {m.col} \ {Rip}
  BY DEF UpdateOf
<1>4. QED
  BY <1>1, <1>2, <1>3 DEF Lww!Tells

\* What the two variables of LwwMap are here.
Clocks == [s \in Sites |-> [p \in Pks |-> ClockOf(db[s][p])]]
Updates == [s \in Sites |-> UpdatesOf(seen[s])]

\* A step of site s is Local to s: it touches no other site, and s knows nothing
\* that it does not hold.
LEMMA LocalStep ==
  ASSUME IInv, IInv', NEW s \in Sites, NEW d, NEW R \in SUBSET Change, Commit(s, d, R)
  PROVE  /\ Lww!Local(s)
         /\ Clocks'[s] = [p \in Pks |-> ClockOf(d[p])]
         /\ Updates'[s] = UpdatesOf(seen[s]) \cup UpdatesOf(R) \cup UpdatesOf(Export(s, d))
<1>1. /\ db' = [db EXCEPT ![s] = d] /\ DOMAIN db = Sites
      /\ seen' = [seen EXCEPT ![s] = seen[s] \cup R \cup Export(s, d)] /\ DOMAIN seen = Sites
  BY DEF Commit, IInv, TypeOK
<1>2. db'[s] = d /\ seen'[s] = seen[s] \cup R \cup Export(s, d)
  BY <1>1
<1>3. \A t \in Sites \ {s} : db'[t] = db[t] /\ seen'[t] = seen[t]
  BY <1>1
<1>4. Updates'[s] = UpdatesOf(seen[s]) \cup UpdatesOf(R) \cup UpdatesOf(Export(s, d))
  BY <1>2 DEF Updates, UpdatesOf
<1>5. ASSUME NEW u \in Updates'[s] PROVE Lww!Covers(Clocks'[s][u.key], u)
  <2>1. PICK m \in seen'[s] : u = UpdateOf(m)
    BY <1>5 DEF Updates, UpdatesOf
  <2>2. m \in Change /\ m.pk \in Pks /\ u.key = m.pk
    BY <2>1 DEF IInv, TypeOK, Change, UpdateOf
  <2>3. db'[s][m.pk] \in Row /\ Bounds(db'[s][m.pk], m)
    BY <2>2 DEF IInv, RowInv, JoinOfSeen, SeenOf, Join
  <2>4. QED
    BY <2>1, <2>2, <2>3, CoversOf DEF Clocks
<1>6. \A t \in Sites \ {s} : Clocks'[t] = Clocks[t] /\ Updates'[t] = Updates[t]
  BY <1>3 DEF Clocks, Updates
<1>7. Updates[s] \subseteq Updates'[s]
  BY <1>4 DEF Updates
<1>8. Lww!Local(s)
  BY <1>5, <1>6, <1>7 DEF Lww!Local, Clocks, Updates
<1>9. QED
  BY <1>2, <1>4, <1>8 DEF Clocks

\* A statement of the user, or a refill, is a Write.
LEMMA WriteStep ==
  ASSUME IInv, IInv', NothingRegresses, NEW s \in Sites, NEW d, Commit(s, d, {})
  PROVE  Lww!Write(s)
<1>1. /\ Lww!Local(s)
      /\ Clocks'[s] = [p \in Pks |-> ClockOf(d[p])]
      /\ Updates'[s] = UpdatesOf(seen[s]) \cup UpdatesOf({}) \cup UpdatesOf(Export(s, d))
  BY LocalStep
<1>2. db'[s] = d /\ \A p \in Pks : RowInv(d[p]) /\ d[p] \in Row
  BY DEF Commit, IInv, TypeOK, RowInv
<1>3. ASSUME NEW u \in Updates'[s] \ Updates[s] PROVE Lww!Tells(Clocks'[s][u.key], u)
  <2>1. PICK m \in Export(s, d) : u = UpdateOf(m)
    BY <1>1, <1>3 DEF UpdatesOf, Updates
  <2>2. PICK p \in Pks : m \in ExportRow(s, p, d[p])
    BY <2>1 DEF Export
  <2>3. /\ m \in Change /\ m.pk = p /\ m.cl = LocalCl(d[p])
        /\ m.col # Rip => <<m.ver, m.val>> = Stamp(d[p], m.col)
    BY <1>2, <2>2, ExportedChanges
  <2>4. u.key = p /\ Clocks'[s][p] = ClockOf(d[p])
    BY <1>1, <2>1, <2>3 DEF UpdateOf
  <2>5. QED
    BY <2>1, <2>3, <2>4, TellsOf
<1>4. ASSUME NEW k \in Pks
      PROVE  /\ Lww!ClockLeq(Clocks[s][k], Clocks'[s][k])
             /\ Lww!IsJoin(Clocks'[s][k], {u \in Updates'[s] : u.key = k})
  <2>1. db[s][k] \in Row /\ db'[s][k] \in Row /\ NotBehind(db'[s][k], db[s][k])
    BY DEF IInv, RowInv, NothingRegresses
  <2>2. Lww!ClockLeq(Clocks[s][k], Clocks'[s][k])
    BY <2>1, ClockLeqOf DEF Clocks
  <2> DEFINE S == {m \in seen'[s] : m.pk = k}
  <2>3. S \in SUBSET Change /\ Join(db'[s][k], S)
    BY DEF IInv, TypeOK, JoinOfSeen, SeenOf
  <2>4. {u \in Updates'[s] : u.key = k} = UpdatesOf(S)
    BY DEF Updates, UpdatesOf, UpdateOf
  <2> HIDE DEF S
  <2>5. Lww!IsJoin(Clocks'[s][k], UpdatesOf(S))
    BY <2>1, <2>3, JoinOf DEF Clocks
  <2>6. QED
    BY <2>2, <2>4, <2>5
<1>5. QED
  BY <1>1, <1>3, <1>4 DEF Lww!Write, Clocks, Updates

\* A merge is a Receive.
LEMMA ReceiveStep ==
  ASSUME IInv, IInv', NEW s \in Sites, NEW m \in Known, Deliver(s, m)
  PROVE  Lww!Receive(s)
<1> DEFINE q == Merge(db[s][m.pk], s, m)
           d == [db[s] EXCEPT ![m.pk] = q]
           u == UpdateOf(m)
<1>1. m \in Change /\ WellFormed(m) /\ m.pk \in Pks /\ RowInv(db[s][m.pk])
  BY DEF Known, IInv, TypeOK, Change
<1>2. Commit(s, d, {m})
  BY DEF Deliver
<1>3. \A p \in Pks : d[p] = IF p = m.pk THEN q ELSE db[s][p]
  BY DEF IInv, TypeOK
<1>4. ClockOf(q) = Lww!Absorb(ClockOf(db[s][m.pk]), u)
  BY <1>1, MergeAbsorbs
<1> HIDE DEF q, d
<1>5. /\ Lww!Local(s)
      /\ Clocks'[s] = [p \in Pks |-> ClockOf(d[p])]
      /\ Updates'[s] = UpdatesOf(seen[s]) \cup UpdatesOf({m}) \cup UpdatesOf(Export(s, d))
  BY <1>1, <1>2, LocalStep
<1>6. u \in Updates'[s] /\ u.key = m.pk
  BY <1>5 DEF UpdatesOf, UpdateOf
<1>7. u \in UNION {Updates[t] : t \in Sites}
  BY DEF Known, Updates, UpdatesOf
<1> HIDE DEF u
<1>8. Clocks'[s] = [Clocks[s] EXCEPT ![u.key] = Lww!Absorb(@, u)]
  BY <1>1, <1>3, <1>4, <1>5, <1>6 DEF Clocks
<1>9. QED
  BY <1>5, <1>6, <1>7, <1>8 DEF Lww!Receive, Clocks, Updates

\* Every step of the table is a step of the replicated map.
LEMMA LwwStep ==
  ASSUME IInv, [Next]_vars
  PROVE  [Lww!Next]_(Lww!vars)
<1>1. IInv' /\ NothingRegresses
  BY NextStep
<1>2. CASE UNCHANGED vars
  BY <1>2 DEF vars, Lww!vars
<1>3. ASSUME NEW s \in Sites, WriteRow(s) \/ WriteKey(s) \/ Refill(s)
      PROVE  \E d : Commit(s, d, {})
  BY <1>3 DEF WriteRow, WriteKey, Refill, Insert, Replace, Update, Delete, MovePk, Rekey
<1>4. ASSUME NEW s \in Sites, WriteRow(s) \/ WriteKey(s) \/ Refill(s)
      PROVE  Lww!Write(s)
  BY <1>1, <1>3, <1>4, WriteStep
<1>5. ASSUME NEW s \in Sites, Receive(s)
      PROVE  Lww!Receive(s)
  BY <1>1, <1>5, ReceiveStep DEF Receive
<1>6. QED
  BY <1>2, <1>4, <1>5 DEF Next, Lww!Next

\* The table with its triggers and its merge implements the replicated map, for
\* any number of sites, keys, columns and values.
THEOREM TableRefinesLww == Spec => RefinesLww
<1>1. Init => Lww!Init
  <2> SUFFICES ASSUME Init PROVE Lww!Init
    OBVIOUS
  <2>1. \A s \in Sites, p \in Pks : db[s][p] = Absent
    BY DEF Init
  <2>2. ClockOf(Absent) = Lww!Unborn
    BY DEF ClockOf, Absent, LocalCl, PkExists, Counted, Lww!Unborn, Lww!Bottom, None
  <2>3. \A s \in Sites : UpdatesOf(seen[s]) = {}
    BY DEF Init, UpdatesOf
  <2>4. QED
    BY <2>1, <2>2, <2>3 DEF Lww!Init
<1>2. QED
  BY <1>1, InitInv, NextStep, LwwStep, PTL DEF Spec, RefinesLww, Lww!Spec

\* While no primary key changes, once every change has reached every site the user's tables
\* are equal: whatever a merge zeroed or left at its default is set by a change that some
\* site exported, because every life of a row was exported whole.
THEOREM TablesBecomeEqual == SameKeySpec => []TablesAgree
<1>1. Init => WholeInv
  BY InitInv DEF Init, WholeInv, KnownWhole, Known
<1>2. WholeInv /\ [SameKeyNext]_vars => WholeInv'
  <2> SUFFICES ASSUME WholeInv, [SameKeyNext]_vars PROVE WholeInv'
    OBVIOUS
  <2>1. IInv'
    BY NextStep DEF WholeInv, SameKeyNext, Next
  <2>2. KnownWhole'
    BY InvLives, WholeStep DEF WholeInv, vars, KnownWhole, Known
  <2>3. QED
    BY <2>1, <2>2 DEF WholeInv
<1>3. WholeInv => TablesAgree
  <2> SUFFICES ASSUME WholeInv, \A x \in Sites : seen[x] = Known,
                      NEW s \in Sites, NEW t \in Sites, NEW p \in Pks
               PROVE  db[s][p].live = db[t][p].live /\ db[s][p].val = db[t][p].val
    BY DEF TablesAgree
  <2> DEFINE r == db[s][p]
             q == db[t][p]
  <2>1. /\ r.live = q.live /\ LocalCl(r) = LocalCl(q)
        /\ \A c \in Cols : r.ver[c] > 0 => Stamp(r, c) = Stamp(q, c)
    BY InvConverges DEF WholeInv, Convergence
  <2>2. RowInv(r) /\ RowInv(q) /\ Join(r, SeenOf(s, p)) /\ LocalCl(r) \in Nat
    BY LocalClNat DEF WholeInv, IInv, JoinOfSeen, RowInv
  <2>3. CASE ~r.live
    BY <2>1, <2>2, <2>3 DEF RowInv, Consistent
  <2>4. CASE r.live
    <3>1. LocalCl(r) % 2 = 1 /\ LocalCl(r) > 0
      BY <2>2, <2>4 DEF RowInv, Consistent
    <3>2. PICK m \in SeenOf(s, p) : m.cl = LocalCl(r)
      BY <2>2, <3>1 DEF Join
    <3>3. ASSUME NEW c \in Cols PROVE r.val[c] = q.val[c]
      <4>1. PICK n \in Known : n.pk = p /\ n.cl = LocalCl(r) /\ n.col = c /\ n.ver > 0
        BY <3>1, <3>2 DEF WholeInv, KnownWhole, SeenOf
      <4>2. n \in SeenOf(s, p) /\ n \in Change
        BY <4>1 DEF SeenOf, WholeInv, IInv, TypeOK
      <4>3. AtMost(<<n.ver, n.val>>, Stamp(r, c))
        BY <2>2, <4>1, <4>2, RipAssumption DEF Join, Bounds
      <4>4. r.ver[c] > 0
        BY <2>2, <4>1, <4>2, <4>3, RowFields DEF AtMost, Stamp, RowInv, Change
      <4>5. QED
        BY <2>1, <4>4 DEF Stamp
    <3>4. r.val \in [Cols -> Values] /\ q.val \in [Cols -> Values]
      BY <2>2 DEF RowInv, Row
    <3>5. QED
      BY <2>1, <3>3, <3>4
  <2>5. QED
    BY <2>3, <2>4
<1>4. QED
  BY <1>1, <1>2, <1>3, PTL DEF SameKeySpec

\* Whatever the users do to primary keys, UPDATE OR REPLACE onto the key of another row
\* included, sites that have seen the same changes agree on which rows exist and on their
\* causal length: an overwriting loses columns, but moves no life back and exports it.
THEOREM LivesConverge == AnyKeySpec => []RowsConverge
<1>1. Init => LivesInv
  BY InitInv, InvLives
<1>2. LivesInv => RowsConverge
  <2> SUFFICES ASSUME LivesInv, NEW s \in Sites, NEW t \in Sites, NEW p \in Pks, seen[s] = seen[t]
               PROVE  db[s][p].live = db[t][p].live /\ LocalCl(db[s][p]) = LocalCl(db[t][p])
    BY DEF RowsConverge
  <2> DEFINE S == SeenOf(s, p)
  <2>1. /\ RowInv(db[s][p]) /\ LifeJoin(db[s][p], S)
        /\ RowInv(db[t][p]) /\ LifeJoin(db[t][p], S)
    BY DEF LivesInv, SeenOf
  <2>2. QED
    BY <2>1, SameLife
<1>3. QED
  BY <1>1, <1>2, LivesStep, PTL DEF AnyKeySpec
=============================================================================
