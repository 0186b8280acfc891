-------------------------- MODULE GrowOnlySetProofs --------------------------
(***************************************************************************)
(* Proofs about GrowOnlySet, for a table with a column outside its primary *)
(* key, any sites, keys and values.                                        *)
(*                                                                         *)
(* The argument: no sentinel is ever written, so every row is absent or in *)
(* its first life, and the lives are those CloudSyncMergeProofs is about   *)
(* (LivesInv).  Columns may move back, because a merge compares nothing,   *)
(* but what a column holds is a change that was exported or merged here.   *)
(* The other scenes of KeySpec follow from the invariants and the steps of *)
(* CloudSyncMergeProofs, since a scene never changes.                      *)
(***************************************************************************)
EXTENDS MCCloudSyncMerge, CloudSyncMergeProofs

\* No sentinel, here or in the changes S seen; and every column is as a change carried it.
GosRow(r, S) ==
  /\ r.rip = None /\ Rip \notin r.own
  /\ \A m \in S : m.col # Rip
  /\ \A c \in Cols : r.ver[c] # None => \E m \in S : Attains(m, r, c)
\* The inductive invariant.
GosInv ==
  /\ LivesInv
  /\ \A s \in Sites, p \in Pks : GosRow(db[s][p], SeenOf(s, p))
\* What every operation that turns row r into q guarantees, R being the changes merged.
GosGrows(r, q, R) ==
  /\ q.rip = None /\ Rip \notin q.own
  /\ \A m \in R : m.col # Rip
  /\ \A c \in Cols : q.ver[c] # None =>
       \/ c \in q.own
       \/ r.ver[c] # None /\ Stamp(q, c) = Stamp(r, c)
       \/ \E m \in R : Attains(m, q, c)

\* Without a sentinel a row is in its first life or absent.
LEMMA FirstLife ==
  ASSUME NEW r, RowInv(r), r.rip = None
  PROVE  /\ LocalCl(r) = IF r.live THEN 1 ELSE 0
         /\ r.live <=> \E c \in Cols : r.ver[c] # None
BY DEF RowInv, Consistent, LocalCl, PkExists

\* Leaving a row alone is such an operation.
LEMMA SameGos ==
  ASSUME NEW r, NEW S, GosRow(r, S) PROVE GosGrows(r, r, {})
BY DEF GosRow, GosGrows

\* cloudsync_insert writes no sentinel, because some column outside the key takes the
\* version; nor does REPLACE, because there is no sentinel to update.
LEMMA InsertGos ==
  ASSUME Cols # {}, NEW r, RowInv(r), r.rip = None, Rip \notin r.own,
         NEW vals \in [Cols -> Values],
         NEW q, q = Store(CloudsyncInsert(r), vals)
  PROVE  GosGrows(r, q, {})
<1> DEFINE i == MarkCols(r, Cols)
<1>1. CloudsyncInsert(r) = i
  BY DEF CloudsyncInsert, UpdateSentinel
<1>2. i \in Row /\ i.rip = r.rip /\ i.own = r.own \cup Cols
  BY MarkColsRow DEF RowInv
<1> HIDE DEF i
<1>3. q.rip = r.rip /\ q.own = r.own \cup Cols
  BY <1>1, <1>2, StoreRow
<1>4. QED
  BY <1>3, RipAssumption DEF GosGrows

\* The refill marks columns that are still missing, and exports what it marks.
LEMMA RefillGos ==
  ASSUME NEW r, RowInv(r), NEW S, GosRow(r, S), NEW q, q = RefillRow(r)
  PROVE  GosGrows(r, q, {})
<1> DEFINE C == Missing(r)
<1>1. r \in Row /\ C \in SUBSET Cols /\ q = MarkCols(r, C)
  BY DEF RowInv, Missing, RefillRow
<1> HIDE DEF C
<1>2. /\ q.rip = r.rip /\ q.val = r.val /\ q.own = r.own \cup C
      /\ \A c \in Cols : q.ver[c] = IF c \in C THEN Bump(r.ver[c], 1) ELSE r.ver[c]
  BY <1>1, MarkColsRow
<1>3. QED
  BY <1>1, <1>2, RipAssumption DEF GosGrows, GosRow, Stamp

\* merge_insert_col, whatever is stored: the row lives, with the change in its column.
LEMMA MergeGos ==
  ASSUME NEW r, RowInv(r), NEW S, GosRow(r, S),
         NEW s \in Sites, NEW m \in Change, m.col # Rip, m.cl = 1,
         NEW q, q = GosMerge(r, s, m)
  PROVE  RowInv(q) /\ LifeGrows(r, q, {m}) /\ GosGrows(r, q, {m})
<1>1. r.rip = None /\ Rip \notin r.own /\ m.col \in Cols /\ r \in Row /\ q = MergeCol(r, s, m)
  BY DEF GosRow, RowInv, GosMerge, Change
<1>2. \/ LocalCl(r) = m.cl
      \/ LocalCl(r) = 0 /\ m.cl = 1
  BY <1>1, FirstLife
<1>3. m.cl % 2 = 1
  OBVIOUS
<1>4. /\ RowInv(q) /\ LocalCl(q) = m.cl
      /\ \A c \in Cols \ {m.col} : q.ver[c] = r.ver[c] /\ q.val[c] = r.val[c]
      /\ q.ver[m.col] = m.ver /\ q.val[m.col] = m.val
  BY <1>1, <1>2, <1>3, MergeColInv
<1>5. q.rip = r.rip /\ q.own \subseteq r.own \cup {m.col}
  BY <1>1 DEF MergeCol, SetOwner, Row
<1>6. LifeGrows(r, q, {m})
  BY <1>2, <1>4 DEF LifeGrows
<1>7. \A c \in Cols : q.ver[c] # None =>
         \/ r.ver[c] # None /\ Stamp(q, c) = Stamp(r, c)
         \/ Attains(m, q, c)
  BY <1>4 DEF Stamp, Attains
<1>8. QED
  BY <1>1, <1>4, <1>5, <1>6, <1>7 DEF GosGrows

\* A transaction of one site whose rows all grow so keeps the inductive invariant.
LEMMA GosCommit ==
  ASSUME GosInv, NEW s \in Sites, NEW d \in [Pks -> Row],
         NEW R \in SUBSET Change, \A m \in R : WellFormed(m),
         Commit(s, d, R),
         \A p \in Pks : /\ RowInv(d[p])
                        /\ LifeGrows(db[s][p], d[p], {m \in R : m.pk = p})
                        /\ GosGrows(db[s][p], d[p], {m \in R : m.pk = p})
  PROVE  GosInv'
<1>1. LivesInv'
  <2>1. LivesInv /\ \A p \in Pks : RowInv(d[p]) /\ LifeGrows(db[s][p], d[p], {m \in R : m.pk = p})
    BY DEF GosInv
  <2>2. QED
    BY <2>1, LivesCommit
<1>2. /\ db'[s] = d
      /\ \A t \in Sites \ {s} : db'[t] = db[t] /\ seen'[t] = seen[t]
      /\ \A p \in Pks : {m \in seen'[s] : m.pk = p}
                        = SeenOf(s, p) \cup {m \in R : m.pk = p} \cup ExportRow(s, p, d[p])
  <2>1. LivesInv /\ \A p \in Pks : RowInv(d[p])
    BY DEF GosInv
  <2>2. Leaves(s, d, R)
    BY <2>1, Committed
  <2>3. QED
    BY <2>2 DEF Leaves
<1>3. ASSUME NEW p \in Pks
      PROVE  GosRow(d[p], SeenOf(s, p) \cup {m \in R : m.pk = p} \cup ExportRow(s, p, d[p]))
  <2> DEFINE r == db[s][p]
             q == d[p]
             S == SeenOf(s, p)
             Q == {m \in R : m.pk = p}
             X == ExportRow(s, p, q)
  <2>1. RowInv(r) /\ RowInv(q) /\ GosRow(r, S) /\ GosGrows(r, q, Q)
    BY DEF GosInv, LivesInv
  <2>2. /\ \A c \in Cols : c \in q.own => \E m \in X : Attains(m, q, c)
        /\ \A m \in X : m.col \in q.own
    BY <2>1, ExportedChanges DEF ExportRow
  <2> HIDE DEF r, q, S, Q, X
  <2>3. ASSUME NEW c \in Cols, r.ver[c] # None, Stamp(q, c) = Stamp(r, c)
        PROVE  \E m \in S : Attains(m, q, c)
    <3>1. PICK m \in S : Attains(m, r, c)
      BY <2>1, <2>3 DEF GosRow
    <3>2. q.ver[c] # None
      BY <2>3 DEF Stamp
    <3>3. LocalCl(q) = 1 /\ LocalCl(r) = 1
      BY <2>1, <2>3, <3>2, FirstLife DEF GosRow, GosGrows
    <3>4. QED
      BY <2>3, <3>1, <3>3 DEF Attains
  <2>4. GosRow(q, S \cup Q \cup X)
    BY <2>1, <2>2, <2>3 DEF GosRow, GosGrows
  <2>5. QED
    BY <2>4 DEF q, S, Q, X
<1>4. ASSUME NEW t \in Sites, NEW p \in Pks
      PROVE  GosRow(db'[t][p], {m \in seen'[t] : m.pk = p})
  <2>1. CASE t = s
    BY <1>2, <1>3, <2>1
  <2>2. CASE t # s
    BY <1>2, <2>2 DEF GosInv, SeenOf
  <2>3. QED
    BY <2>1, <2>2
<1>5. QED
  BY <1>1, <1>4 DEF GosInv, SeenOf

\* The same for a transaction that touches one key.
LEMMA GosKeyStep ==
  ASSUME GosInv, NEW s \in Sites, NEW p \in Pks, NEW q,
         NEW R \in SUBSET Change, \A m \in R : m.pk = p /\ WellFormed(m),
         RowInv(q), LifeGrows(db[s][p], q, R), GosGrows(db[s][p], q, R),
         Commit(s, [db[s] EXCEPT ![p] = q], R)
  PROVE  GosInv'
<1> DEFINE d == [db[s] EXCEPT ![p] = q]
<1>1. d = [k \in Pks |-> IF k = p THEN q ELSE db[s][k]]
  BY DEF GosInv, LivesInv, TypeOK
<1>2. Commit(s, d, R)
  OBVIOUS
<1> HIDE DEF d
<1>3. ASSUME NEW k \in Pks
      PROVE  /\ RowInv(d[k])
             /\ LifeGrows(db[s][k], d[k], {m \in R : m.pk = k})
             /\ GosGrows(db[s][k], d[k], {m \in R : m.pk = k})
  <2>1. CASE k = p
    <3>1. {m \in R : m.pk = k} = R
      BY <2>1
    <3>2. QED
      BY <1>1, <2>1, <3>1
  <2>2. CASE k # p
    <3>1. {m \in R : m.pk = k} = {}
      BY <2>2
    <3>2. d[k] = db[s][k] /\ RowInv(db[s][k]) /\ GosRow(db[s][k], SeenOf(s, k))
      BY <1>1, <2>2 DEF GosInv, LivesInv
    <3>3. LifeGrows(db[s][k], db[s][k], {}) /\ GosGrows(db[s][k], db[s][k], {})
      BY <3>2, SameGrows, GrowsLife, SameGos
    <3>4. QED
      BY <3>1, <3>2, <3>3
  <2>3. QED
    BY <2>1, <2>2
<1>4. d \in [Pks -> Row]
  BY <1>1, <1>3 DEF RowInv
<1>5. QED
  BY <1>2, <1>3, <1>4, GosCommit

\* Every change anybody knows of belongs to a first life.
LEMMA KnownFirst ==
  ASSUME GosInv, NEW m \in Known
  PROVE  m \in Change /\ m.pk \in Pks /\ WellFormed(m) /\ m.cl = 1
<1>1. PICK t \in Sites : m \in seen[t]
  BY DEF Known
<1>2. m \in Change /\ m.pk \in Pks /\ WellFormed(m)
  BY <1>1 DEF GosInv, LivesInv, TypeOK, Change
<1>3. /\ RowInv(db[t][m.pk]) /\ db[t][m.pk].rip = None
      /\ m.cl <= LocalCl(db[t][m.pk])
  BY <1>1, <1>2 DEF GosInv, LivesInv, GosRow, LifeJoin, SeenOf
<1>4. LocalCl(db[t][m.pk]) \in {0, 1} /\ m.cl \in Nat /\ m.cl > 0
  BY <1>2, <1>3, FirstLife DEF WellFormed, Change
<1>5. QED
  BY <1>2, <1>3, <1>4

\* Every statement, refill and merge keeps the inductive invariant.
LEMMA GosStep ==
  ASSUME Cols # {}, GosInv, [GosNext]_vars
  PROVE  GosInv'
<1>1. CASE UNCHANGED vars
  BY <1>1 DEF vars, GosInv, LivesInv, TypeOK, SeenOf
<1>2. ASSUME NEW s \in Sites, NEW p \in Pks, NEW vals \in [Cols -> Values],
             Insert(s, p, vals) \/ Replace(s, p, vals)
      PROVE  GosInv'
  <2> DEFINE q == Store(CloudsyncInsert(db[s][p]), vals)
  <2>1. Commit(s, [db[s] EXCEPT ![p] = q], {})
    BY <1>2 DEF Insert, Replace
  <2>2. RowInv(db[s][p]) /\ db[s][p].rip = None /\ Rip \notin db[s][p].own
    BY DEF GosInv, LivesInv, GosRow
  <2>3. RowInv(q) /\ LifeGrows(db[s][p], q, {}) /\ GosGrows(db[s][p], q, {})
    BY <2>2, InsertGrows, GrowsLife, InsertGos
  <2> HIDE DEF q
  <2>4. QED
    BY <2>1, <2>3, GosKeyStep
<1>3. ASSUME NEW s \in Sites, Refill(s)
      PROVE  GosInv'
  <2> DEFINE d == [p \in Pks |-> RefillRow(db[s][p])]
  <2>1. Commit(s, d, {})
    BY <1>3 DEF Refill
  <2>2. ASSUME NEW k \in Pks
        PROVE  /\ RowInv(d[k])
               /\ LifeGrows(db[s][k], d[k], {m \in {} : m.pk = k})
               /\ GosGrows(db[s][k], d[k], {m \in {} : m.pk = k})
    <3>1. RowInv(db[s][k]) /\ GosRow(db[s][k], SeenOf(s, k)) /\ d[k] = RefillRow(db[s][k])
      BY DEF GosInv, LivesInv
    <3>2. {m \in {} : m.pk = k} = {}
      OBVIOUS
    <3>3. QED
      BY <3>1, <3>2, RefillGrows, GrowsLife, RefillGos
  <2>3. d = [p \in Pks |-> d[p]]
    OBVIOUS
  <2> HIDE DEF d
  <2>4. d \in [Pks -> Row]
    BY <2>2, <2>3 DEF RowInv
  <2>5. QED
    BY <2>1, <2>2, <2>4, GosCommit
<1>4. ASSUME NEW s \in Sites, NEW m \in Known, GosDeliver(s, m)
      PROVE  GosInv'
  <2> DEFINE q == GosMerge(db[s][m.pk], s, m)
  <2>1. m \in Change /\ m.pk \in Pks /\ WellFormed(m) /\ m.cl = 1
    BY KnownFirst
  <2>2. m.col # Rip /\ Commit(s, [db[s] EXCEPT ![m.pk] = q], {m})
    BY <1>4 DEF GosDeliver
  <2>3. RowInv(db[s][m.pk]) /\ GosRow(db[s][m.pk], SeenOf(s, m.pk))
    BY <2>1 DEF GosInv, LivesInv
  <2>4. RowInv(q) /\ LifeGrows(db[s][m.pk], q, {m}) /\ GosGrows(db[s][m.pk], q, {m})
    BY <2>1, <2>2, <2>3, MergeGos
  <2> HIDE DEF q
  <2>5. QED
    BY <2>1, <2>2, <2>4, GosKeyStep
<1>5. QED
  BY <1>1, <1>2, <1>3, <1>4 DEF GosNext, GosWrite, GosReceive

\* The empty table satisfies the inductive invariant.
LEMMA GosInit == Init => GosInv
<1> SUFFICES ASSUME Init PROVE GosInv
  OBVIOUS
<1>1. LivesInv
  BY InitInv, InvLives
<1>2. \A s \in Sites, p \in Pks : db[s][p] = Absent /\ SeenOf(s, p) = {}
  BY DEF Init, SeenOf
<1>3. GosRow(Absent, {})
  BY DEF GosRow, Absent
<1>4. QED
  BY <1>1, <1>2, <1>3 DEF GosInv

\* The elements are those of the changes seen: an absent row has no change, because no
\* change has a life of length zero.
LEMMA GosElementsHold == GosInv => ElementsOfSeen
<1> SUFFICES ASSUME GosInv, NEW s \in Sites, NEW p \in Pks
             PROVE  LET r == db[s][p] S == SeenOf(s, p)
                    IN  /\ r.live <=> S # {}
                        /\ LocalCl(r) = IF S = {} THEN 0 ELSE 1
                        /\ \A c \in Cols : r.ver[c] # None => \E m \in S : Attains(m, r, c)
  BY DEF ElementsOfSeen
<1> DEFINE r == db[s][p]
           S == SeenOf(s, p)
<1>1. RowInv(r) /\ GosRow(r, S)
  BY DEF GosInv, LivesInv
<1>2. ASSUME NEW m \in S PROVE LocalCl(r) > 0
  <2>1. m \in Change /\ WellFormed(m) /\ m.cl <= LocalCl(r)
    BY DEF GosInv, LivesInv, TypeOK, LifeJoin, SeenOf
  <2>2. LocalCl(r) \in Nat /\ m.cl \in Nat /\ m.cl > 0
    BY <1>1, <2>1, LocalClNat DEF WellFormed, Change, RowInv
  <2>3. QED
    BY <2>1, <2>2
<1> HIDE DEF r, S
<1>3. LocalCl(r) = IF r.live THEN 1 ELSE 0
  BY <1>1, FirstLife DEF GosRow
<1>4. r.live <=> S # {}
  BY <1>1, <1>2, <1>3, FirstLife DEF GosRow
<1>5. QED
  BY <1>1, <1>3, <1>4 DEF GosRow, r, S

(***************************************************************************)
(* The theorems.                                                           *)
(***************************************************************************)
\* In a grow-only set a site has exactly the elements it has seen a change of, for ever in
\* their first life, and each column holds what one of these changes carried, although
\* cloudsync_merge_insert_gos writes whatever arrives last.
THEOREM ElementsStay ==
  ASSUME Cols # {}
  PROVE  GosSpec => []ElementsOfSeen
BY GosInit, GosStep, GosElementsHold, PTL DEF GosSpec

\* What the scenes "rekey" and "gos" of KeySpec keep.
RekeyInv    == scene = "rekey" => IInv
GosSceneInv == scene = "gos" => GosInv

\* A step of KeySpec is one of Next in the scene "rekey", and one of GosNext in "gos".
LEMMA SceneSteps ==
  ASSUME [KeyNext]_mcvars
  PROVE  scene' = scene /\ (scene = "rekey" => [Next]_vars) /\ (scene = "gos" => [GosNext]_vars)
<1>1. CASE UNCHANGED mcvars
  BY <1>1 DEF mcvars, vars
<1>2. CASE KeyNext
  BY <1>2 DEF KeyNext, Write, Free, Next, GosNext
<1>3. QED
  BY <1>1, <1>2

\* So re-keying keeps the inductive invariant of the default algorithm.
LEMMA RekeyKeeps == RekeyInv /\ [KeyNext]_mcvars => RekeyInv'
BY SceneSteps, NextStep DEF RekeyInv

\* It holds in the beginning.
LEMMA RekeyInit == MCInit({"rekey", "over", "gos"}) => RekeyInv
BY InitInv DEF MCInit, RekeyInv

\* The elements of a grow-only set, in the specification of the run, for any number of
\* statements.
THEOREM GosElementsStay ==
  ASSUME Cols # {}
  PROVE  KeySpec => []GosElements
<1>1. MCInit({"rekey", "over", "gos"}) => GosSceneInv
  BY GosInit DEF MCInit, GosSceneInv
<1>2. GosSceneInv /\ [KeyNext]_mcvars => GosSceneInv'
  BY SceneSteps, GosStep DEF GosSceneInv
<1>3. GosSceneInv => GosElements
  BY GosElementsHold DEF GosSceneInv, GosElements
<1>4. QED
  BY <1>1, <1>2, <1>3, PTL DEF KeySpec

\* While primary keys change to free ones only, a site stores the join of what it has seen,
\* and sites that have seen the same agree, metadata that cloudsync_update moved included.
THEOREM JoinOutlivesRekey == KeySpec => []JoinUntilOverwritten
<1>1. RekeyInv => JoinUntilOverwritten
  BY InvConverges DEF RekeyInv, JoinUntilOverwritten, IInv
<1>2. QED
  BY <1>1, RekeyInit, RekeyKeeps, PTL DEF KeySpec

\* And every step, one that changes a key included, is a step of the abstract map.
THEOREM RekeyIsAbstract == KeySpec => RekeyRefinesLww
<1>1. RekeyInv /\ [KeyNext]_mcvars => [scene = "rekey" => Lww!Next]_(Lww!vars)
  <2> SUFFICES ASSUME RekeyInv, [KeyNext]_mcvars, scene = "rekey"
               PROVE  [Lww!Next]_(Lww!vars)
    OBVIOUS
  <2>1. IInv /\ [Next]_vars
    BY SceneSteps DEF RekeyInv
  <2>2. QED
    BY <2>1, LwwStep
<1>2. QED
  BY <1>1, RekeyInit, RekeyKeeps, PTL DEF KeySpec, RekeyRefinesLww
=============================================================================
