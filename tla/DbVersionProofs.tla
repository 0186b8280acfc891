---------------------------- MODULE DbVersionProofs ----------------------------
(***************************************************************************)
(* Proofs about DbVersion, for any connections, keys, columns and stamps.  *)
(*                                                                         *)
(* The argument: while c writes, what differs from the committed metadata  *)
(* carries versions between its cache, which nobody else can outdate, and  *)
(* its pending version (Grown).  The commit hook then moves the cache onto *)
(* the pending version, which is above everything, provided there is one   *)
(* that is ahead of the cache: CarefulSpec.                                *)
(***************************************************************************)
EXTENDS MCDbVersion, TLAPS, FiniteSetTheorems

\* The metadata m that c, the writer, sees or has marked.
Grown(m, c) ==
  \/ m = meta
  \/ /\ ~stale[c] /\ ctx[c].cache # NotSet /\ ctx[c].pend > ctx[c].cache
     /\ \A p \in Pks, n \in Names : m[p].at[n] # meta[p].at[n] =>
          \/ m[p].at[n].ver = None
          \/ ctx[c].cache < m[p].at[n].ver /\ m[p].at[n].ver <= ctx[c].pend
     /\ \E p \in Pks, n \in Names : ctx[c].cache < m[p].at[n].ver

\* The inductive invariant.
IInv ==
  /\ TypeOK
  /\ CacheNotBehind
  /\ floor = None
  /\ \A c \in Conns : ctx[c].cache = NotSet => ctx[c].pend = NotSet
  /\ writer = NoConn => work = meta /\ mark = meta
  /\ writer # NoConn => Grown(work, writer) /\ Grown(mark, writer)

\* What a statement that drew the version v does to the rows: an entry stays, goes,
\* or gets v; and if anything changed, v is there.
Stamped(m, w, v) ==
  /\ \A p \in Pks, n \in Names :
       m[p].at[n] = w[p].at[n] \/ m[p].at[n].ver = None \/ m[p].at[n].ver = v
  /\ m = w \/ \E p \in Pks, n \in Names : m[p].at[n].ver = v

\* The same for one row.
RowStamped(q, r, v) == 
  /\ q \in Row
  /\ \A n \in Names : q.at[n] = r.at[n] \/ q.at[n].ver = None \/ q.at[n].ver = v

(***************************************************************************)
(* Rows.                                                                   *)
(***************************************************************************)
\* The seqs of a statement are numbers.
LEMMA RankType ==
  ASSUME NEW N \in SUBSET Names, NEW n \in Names
  PROVE  Rank(N, n) \in Nat
<1>1. IsFiniteSet(Names)
  BY ColsAssumption, FS_AddElement DEF Names
<1>2. IsFiniteSet({o \in N : o < n})
  BY <1>1, FS_Subset
<1>3. QED
  BY <1>2, FS_CardinalityType DEF Rank

\* The number of columns a statement writes.
LEMMA CardType ==
  ASSUME NEW C \in SUBSET Cols
  PROVE  Cardinality(C) \in Nat
<1>1. IsFiniteSet(C)
  BY ColsAssumption, FS_Subset
<1>2. QED
  BY <1>1, FS_CardinalityType

\* Mark writes the rows N and nothing else.
LEMMA MarkRow ==
  ASSUME NEW r \in Row, NEW N \in SUBSET Names, NEW v \in Nat, NEW s \in Nat
  PROVE  /\ Mark(r, N, v, s) \in Row
         /\ \A n \in Names : Mark(r, N, v, s).at[n].ver = IF n \in N THEN v ELSE r.at[n].ver
         /\ \A n \in Names \ N : Mark(r, N, v, s).at[n] = r.at[n]
<1> DEFINE f == [n \in Names |-> IF n \in N THEN [ver |-> v, seq |-> s + Rank(N, n), own |-> TRUE]
                                 ELSE r.at[n]]
<1>1. \A n \in Names : s + Rank(N, n) \in Nat
  BY RankType
<1>2. f \in [Names -> Entry]
  BY <1>1 DEF Row, Entry
<1>3. Mark(r, N, v, s) = [r EXCEPT !.at = f]
  BY DEF Mark, Row
<1>4. \A n \in Names : f[n].ver = IF n \in N THEN v ELSE r.at[n].ver
  OBVIOUS
<1>5. \A n \in Names \ N : f[n] = r.at[n]
  OBVIOUS
<1> HIDE DEF f
<1>6. Mark(r, N, v, s) \in Row /\ Mark(r, N, v, s).at = f
  BY <1>2, <1>3 DEF Row
<1>7. QED
  BY <1>4, <1>5, <1>6

\* MoveCols writes column rows and nothing else.
LEMMA MoveColsRow ==
  ASSUME NEW o \in Row, NEW r \in Row, NEW v \in Nat, NEW s \in Nat
  PROVE  RowStamped(MoveCols(o, r, v, s), r, v)
<1> DEFINE f == [n \in Names |-> IF n \in Cols /\ Has(o, n)
                                 THEN [ver |-> v, seq |-> s, own |-> TRUE] ELSE r.at[n]]
<1>1. f \in [Names -> Entry]
  BY DEF Row, Entry
<1>2. MoveCols(o, r, v, s) = [r EXCEPT !.at = f]
  BY DEF MoveCols, Row
<1>3. \A n \in Names : f[n] = r.at[n] \/ f[n].ver = v
  OBVIOUS
<1> HIDE DEF f
<1>4. QED
  BY <1>1, <1>2, <1>3 DEF Row, RowStamped

\* SetWinner writes the rows N and nothing else.
LEMMA SetWinnerRow ==
  ASSUME NEW r \in Row, NEW N \in SUBSET Names, NEW v \in Nat, NEW s \in Nat
  PROVE  /\ RowStamped(SetWinner(r, N, v, s), r, v)
         /\ \A n \in N : SetWinner(r, N, v, s).at[n].ver = v
<1> DEFINE f == [n \in Names |-> IF n \in N
                                 THEN [ver |-> v, seq |-> s, own |-> FALSE] ELSE r.at[n]]
<1>1. f \in [Names -> Entry]
  BY DEF Row, Entry
<1>2. SetWinner(r, N, v, s) = [r EXCEPT !.at = f]
  BY DEF SetWinner, Row
<1>3. \A n \in Names : f[n] = r.at[n] \/ f[n].ver = v
  OBVIOUS
<1>4. \A n \in N : f[n].ver = v
  OBVIOUS
<1> HIDE DEF f
<1>5. QED
  BY <1>1, <1>2, <1>3, <1>4 DEF Row, RowStamped

\* ZeroClock gives column rows the version v.
LEMMA ZeroClockRow ==
  ASSUME NEW r \in Row, NEW v \in Nat
  PROVE  RowStamped(ZeroClock(r, v), r, v)
<1> DEFINE f == [n \in Names |-> IF n # Rip /\ Has(r, n) THEN [r.at[n] EXCEPT !.ver = v]
                                 ELSE r.at[n]]
<1>1. \A n \in Names : r.at[n] \in Entry
  BY DEF Row
<1>2. \A n \in Names : [r.at[n] EXCEPT !.ver = v] \in Entry /\ [r.at[n] EXCEPT !.ver = v].ver = v
  BY <1>1 DEF Entry
<1>3. f \in [Names -> Entry]
  BY <1>1, <1>2
<1>4. ZeroClock(r, v) = [r EXCEPT !.at = f]
  BY DEF ZeroClock, Row
<1>5. \A n \in Names : f[n] = r.at[n] \/ f[n].ver = v
  BY <1>2
<1> HIDE DEF f
<1>6. QED
  BY <1>3, <1>4, <1>5 DEF Row, RowStamped

\* DropCols keeps the sentinel.
LEMMA DropColsRow ==
  ASSUME NEW r \in Row
  PROVE  /\ DropCols(r) \in Row
         /\ DropCols(r).at[Rip] = r.at[Rip]
         /\ \A n \in Names : DropCols(r).at[n] = r.at[n] \/ DropCols(r).at[n].ver = None
<1> DEFINE f == [n \in Names |-> IF n = Rip THEN r.at[n] ELSE NoEntry]
<1>1. NoEntry \in Entry /\ NoEntry.ver = None
  BY DEF NoEntry, Entry
<1>2. f \in [Names -> Entry]
  BY <1>1 DEF Row
<1>3. DropCols(r) = [r EXCEPT !.at = f]
  BY DEF DropCols, Row
<1>4. Rip \in Names
  BY DEF Names
<1>5. f[Rip] = r.at[Rip] /\ \A n \in Names : f[n] = r.at[n] \/ f[n].ver = None
  BY <1>1, <1>4
<1> HIDE DEF f
<1>6. QED
  BY <1>2, <1>3, <1>5 DEF Row

\* Live leaves the metadata alone.
LEMMA LiveRow ==
  ASSUME NEW r \in Row, NEW b \in BOOLEAN
  PROVE  Live(r, b) \in Row /\ Live(r, b).at = r.at
  BY DEF Live, Row

\* Statements in sequence.
LEMMA RowStampedTrans ==
  ASSUME NEW a, NEW b, NEW c, NEW v, RowStamped(b, a, v), RowStamped(c, b, v)
  PROVE  RowStamped(c, a, v)
  BY DEF RowStamped

\* Mark, as one of the statements of a trigger.
LEMMA MarkStamped ==
  ASSUME NEW r \in Row, NEW N \in SUBSET Names, NEW v \in Nat, NEW s \in Nat
  PROVE  /\ RowStamped(Mark(r, N, v, s), r, v)
         /\ \A n \in N : Mark(r, N, v, s).at[n].ver = v
<1>1. /\ Mark(r, N, v, s) \in Row
      /\ \A n \in Names : Mark(r, N, v, s).at[n].ver = IF n \in N THEN v ELSE r.at[n].ver
      /\ \A n \in Names \ N : Mark(r, N, v, s).at[n] = r.at[n]
  BY MarkRow
<1>2. QED
  BY <1>1 DEF RowStamped

\* A statement that changes the row of one key.
LEMMA StampOne ==
  ASSUME NEW w \in [Pks -> Row], NEW p \in Pks, NEW q, NEW v,
         RowStamped(q, w[p], v), q = w[p] \/ \E n \in Names : q.at[n].ver = v
  PROVE  [w EXCEPT ![p] = q] \in [Pks -> Row] /\ Stamped([w EXCEPT ![p] = q], w, v)
<1> DEFINE m == [w EXCEPT ![p] = q]
<1>1. m \in [Pks -> Row] /\ m[p] = q /\ \A o \in Pks \ {p} : m[o] = w[o]
  BY DEF RowStamped
<1>2. \A o \in Pks, n \in Names :
        m[o].at[n] = w[o].at[n] \/ m[o].at[n].ver = None \/ m[o].at[n].ver = v
  BY <1>1 DEF RowStamped
<1>3. CASE q = w[p]
  BY <1>1, <1>2, <1>3 DEF Stamped
<1>4. CASE \E n \in Names : q.at[n].ver = v
  BY <1>1, <1>2, <1>4 DEF Stamped
<1> QED
  BY <1>3, <1>4

(***************************************************************************)
(* The version of a connection.                                            *)
(***************************************************************************)
\* The versions of metadata are numbers, the newest of them bounds them all.
LEMMA NewestBounds ==
  ASSUME NEW m \in [Pks -> Row], NEW v \in Newest(m), floor = None
  PROVE  v \in Nat /\ AtMost(m, v)
<1>1. \A p \in Pks, n \in Names : m[p].at[n].ver \in Nat \cup {None}
  BY DEF Row, Entry
<1>2. Versions(m) \subseteq Nat
  BY <1>1 DEF Versions
<1>3. v \in Versions(m) /\ \A w \in Versions(m) : w <= v
  BY DEF Newest, Greatest
<1>4. v \in Nat
  BY <1>2, <1>3
<1>5. ASSUME NEW p \in Pks, NEW n \in Names PROVE m[p].at[n].ver <= v
  <2>1. CASE m[p].at[n].ver = None
    BY <1>4, <2>1 DEF None
  <2>2. CASE m[p].at[n].ver # None
    BY <1>3, <2>2 DEF Versions
  <2> QED BY <2>1, <2>2
<1>6. QED
  BY <1>4, <1>5 DEF AtMost

\* What a bound says of the versions.
LEMMA AtMostVersions ==
  ASSUME NEW m \in [Pks -> Row], NEW v \in Nat, AtMost(m, v)
  PROVE  \A w \in Versions(m) : w \in Nat /\ w <= v
  BY DEF AtMost, Versions, Row, Entry, None

\* db_version_check_uptodate leaves a cache that is not behind; the writer's, once
\* it has written, does not move.
LEMMA UpToDateCache ==
  ASSUME IInv, NEW c \in Conns, NEW x \in UpToDate(c, View(c))
  PROVE  /\ x \in Context /\ x.cache \in Nat /\ AtMost(meta, x.cache)
         /\ x.pend = ctx[c].pend /\ x.seq = ctx[c].seq
         /\ (writer = c /\ ~(work = meta /\ mark = meta)) => x = ctx[c]
<1> USE DEF IInv
<1>1. ctx[c] \in Context /\ meta \in [Pks -> Row] /\ work \in [Pks -> Row]
  BY DEF TypeOK
<1>2. CASE ctx[c].cache # NotSet /\ ~stale[c]
  <2>1. x = ctx[c]
    BY <1>2 DEF UpToDate
  <2>2. AtMost(meta, x.cache)
    BY <1>2, <2>1 DEF CacheNotBehind
  <2>3. QED
    BY <1>1, <1>2, <2>1, <2>2 DEF Context, NotSet
<1>3. CASE ~(ctx[c].cache # NotSet /\ ~stale[c])
  <2>1. PICK v \in Newest(View(c)) : x = [ctx[c] EXCEPT !.cache = v]
    BY <1>3 DEF UpToDate
  <2>2. writer = c => work = meta /\ mark = meta
    BY <1>3, ConnsAssumption DEF Grown
  <2>3. View(c) = meta
    BY <2>2 DEF View
  <2>4. v \in Nat /\ AtMost(meta, v)
    BY <1>1, <2>3, NewestBounds
  <2>5. QED
    BY <1>1, <2>1, <2>2, <2>4 DEF Context
<1>4. QED
  BY <1>2, <1>3

\* db_version_next hands out a version above the cache and above all those committed.
LEMMA DrawnVersion ==
  ASSUME IInv, NEW c \in Conns, NEW g \in Nat \cup {NotSet}, NEW y \in Drawn(c, View(c), g)
  PROVE  /\ y \in Context /\ y.cache \in Nat /\ y.pend \in Nat /\ AtMost(meta, y.cache)
         /\ y.pend > y.cache /\ y.seq = ctx[c].seq
         /\ (writer = c /\ ~(work = meta /\ mark = meta)) =>
               y.cache = ctx[c].cache /\ y.pend >= ctx[c].pend
<1>1. PICK x \in UpToDate(c, View(c)) : y = [x EXCEPT !.pend = Following(x, g)]
  BY DEF Drawn
<1>2. /\ x \in Context /\ x.cache \in Nat /\ AtMost(meta, x.cache)
      /\ x.pend = ctx[c].pend /\ x.seq = ctx[c].seq
      /\ (writer = c /\ ~(work = meta /\ mark = meta)) => x = ctx[c]
  BY UpToDateCache
<1>3. x.pend \in Nat \cup {-1}
  BY <1>2 DEF Context, NotSet
<1>4. Following(x, g) \in Nat /\ Following(x, g) > x.cache /\ Following(x, g) >= x.pend
  BY <1>2, <1>3 DEF Following, Larger, NotSet
<1>5. QED
  BY <1>1, <1>2, <1>4 DEF Context

\* A statement leaves the writer's metadata grown.
LEMMA StampedGrown ==
  ASSUME IInv, NEW c \in Conns, writer = c,
         NEW g \in Nat \cup {NotSet}, NEW y \in Drawn(c, work, g), NEW n \in Nat,
         NEW m \in [Pks -> Row], Stamped(m, work, y.pend), Write(c, y, n, m)
  PROVE  Grown(m, c)' /\ Grown(mark, c)'
<1>1. /\ y \in Context /\ y.cache \in Nat /\ y.pend \in Nat /\ AtMost(meta, y.cache)
      /\ y.pend > y.cache /\ y.seq = ctx[c].seq
      /\ ~(work = meta /\ mark = meta) => y.cache = ctx[c].cache /\ y.pend >= ctx[c].pend
  <2>1. View(c) = work
    BY DEF View
  <2>2. QED
    BY <2>1, DrawnVersion
<1>2. /\ meta' = meta /\ work' = m /\ mark' = mark /\ ~stale'[c]
      /\ ctx'[c].cache = y.cache /\ ctx'[c].pend = y.pend
  BY <1>1 DEF Write, IInv, TypeOK, Context
<1>3. ASSUME NEW w, Grown(w, c), w = work \/ w = mark
      PROVE  \/ w = meta
             \/ /\ \A p \in Pks, o \in Names : w[p].at[o] # meta[p].at[o] =>
                     \/ w[p].at[o].ver = None
                     \/ y.cache < w[p].at[o].ver /\ w[p].at[o].ver <= y.pend
                /\ \E p \in Pks, o \in Names : y.cache < w[p].at[o].ver
  <2>1. CASE w = meta
    BY <2>1
  <2>2. CASE w # meta
    <3>1. y.cache = ctx[c].cache /\ y.pend >= ctx[c].pend
      BY <1>1, <1>3, <2>2
    <3>2. ctx[c].pend \in Int
      BY DEF IInv, TypeOK, Context, NotSet
    <3>3. \A p \in Pks, o \in Names : w[p].at[o].ver \in Int
      BY <1>3 DEF IInv, TypeOK, Row, Entry, None
    <3>4. QED
      BY <1>1, <1>3, <2>2, <3>1, <3>2, <3>3 DEF Grown
  <2>3. QED
    BY <2>1, <2>2
<1>4. Grown(work, c) /\ Grown(mark, c)
  BY ConnsAssumption DEF IInv
<1>5. Grown(mark, c)'
  BY <1>1, <1>2, <1>3, <1>4 DEF Grown, NotSet
<1>6. Grown(m, c)'
  <2>1. CASE m = work
    BY <1>1, <1>2, <1>3, <1>4, <2>1 DEF Grown, NotSet
  <2>2. CASE m # work
    <3>1. \E p \in Pks, o \in Names : m[p].at[o].ver = y.pend
      BY <2>2 DEF Stamped
    <3>2. ASSUME NEW p \in Pks, NEW o \in Names, m[p].at[o] # meta[p].at[o],
                 m[p].at[o].ver # None
          PROVE  y.cache < m[p].at[o].ver /\ m[p].at[o].ver <= y.pend
      <4>1. CASE m[p].at[o].ver = y.pend
        BY <1>1, <4>1
      <4>2. CASE m[p].at[o] = work[p].at[o]
        BY <1>3, <1>4, <3>2, <4>2
      <4>3. QED
        BY <3>2, <4>1, <4>2 DEF Stamped
    <3>3. QED
      BY <1>1, <1>2, <3>1, <3>2 DEF Grown, NotSet
  <2>3. QED
    BY <2>1, <2>2
<1>7. QED
  BY <1>5, <1>6

\* A statement preserves the invariant.
LEMMA WriteInv ==
  ASSUME IInv, NEW c \in Conns,
         NEW g \in Nat \cup {NotSet}, NEW y \in Drawn(c, work, g), NEW n \in Nat,
         NEW m \in [Pks -> Row], Stamped(m, work, y.pend), Write(c, y, n, m)
  PROVE  IInv'
<1>1. writer = c /\ writer' = c
  BY DEF Write
<1>2. /\ y \in Context /\ y.cache \in Nat /\ y.pend \in Nat /\ AtMost(meta, y.cache)
  <2>1. View(c) = work
    BY <1>1 DEF View
  <2>2. QED
    BY <2>1, DrawnVersion
<1>3. /\ meta' = meta /\ work' = m /\ mark' = mark /\ floor' = floor
      /\ ctx' = [ctx EXCEPT ![c] = [y EXCEPT !.seq = y.seq + n]]
      /\ stale' = [stale EXCEPT ![c] = FALSE]
  BY DEF Write
<1>4. [y EXCEPT !.seq = y.seq + n] \in Context
  BY <1>2 DEF Context
<1>5. TypeOK'
  BY <1>1, <1>3, <1>4 DEF IInv, TypeOK
<1>6. /\ ctx'[c].cache = y.cache /\ ctx'[c].pend = y.pend
      /\ \A d \in Conns \ {c} : ctx'[d] = ctx[d] /\ stale'[d] = stale[d]
  BY <1>2, <1>3 DEF IInv, TypeOK, Context
<1>7. CacheNotBehind'
  BY <1>2, <1>3, <1>6 DEF IInv, CacheNotBehind, AtMost
<1>8. \A d \in Conns : ctx'[d].cache = NotSet => ctx'[d].pend = NotSet
  BY <1>2, <1>6 DEF IInv, NotSet
<1>9. Grown(m, c)' /\ Grown(mark, c)'
  BY <1>1, StampedGrown
<1>10. QED
  BY <1>1, <1>3, <1>5, <1>7, <1>8, <1>9, ConnsAssumption DEF IInv, Grown

(***************************************************************************)
(* The statements.                                                         *)
(***************************************************************************)
\* What a statement knows when it starts: the version it drew.
LEMMA StatementStarts ==
  ASSUME IInv, NEW c \in Conns, writer = c,
         NEW g \in Nat \cup {NotSet}, NEW y \in Drawn(c, work, g)
  PROVE  y.pend \in Nat /\ y.seq \in Nat /\ work \in [Pks -> Row]
<1>1. View(c) = work
  BY DEF View
<1>2. y \in Context /\ y.pend \in Nat
  BY <1>1, DrawnVersion
<1>3. QED
  BY <1>2 DEF Context, IInv, TypeOK

\* Live keeps what is known of a row.
LEMMA LiveStamped ==
  ASSUME NEW q, NEW r, NEW v, NEW b \in BOOLEAN, RowStamped(q, r, v)
  PROVE  RowStamped(Live(q, b), r, v) /\ Live(q, b).at = q.at
BY LiveRow DEF RowStamped

\* DropCols, as one of the statements of a trigger.
LEMMA DropColsStamped ==
  ASSUME NEW r \in Row, NEW v
  PROVE  RowStamped(DropCols(r), r, v) /\ DropCols(r).at[Rip] = r.at[Rip]
BY DropColsRow DEF RowStamped

\* INSERT
LEMMA InsertInv ==
  ASSUME IInv, NEW c \in Conns, NEW p \in Pks, Insert(c, p)
  PROVE  IInv'
<1> DEFINE old == work[p]
           known == IF PkExists(old) THEN 1 ELSE 0
<1>1. PICK y \in Drawn(c, work, NotSet) :
        LET r1 == IF Has(old, Rip) THEN Mark(old, {Rip}, y.pend, y.seq) ELSE old
            r2 == Mark(r1, Cols, y.pend, y.seq + known)
        IN  Write(c, y, known + Cardinality(Cols), [work EXCEPT ![p] = Live(r2, TRUE)])
  BY DEF Insert
<1>2. y.pend \in Nat /\ y.seq \in Nat /\ work \in [Pks -> Row]
  BY <1>1, StatementStarts DEF Write
<1>3. old \in Row /\ {Rip} \in SUBSET Names
  BY <1>2 DEF Names
<1>4. PICK v \in Nat, s \in Nat, t \in Nat : v = y.pend /\ s = y.seq /\ t = y.seq + known
  BY <1>2
<1> DEFINE mid == IF Has(old, Rip) THEN Mark(old, {Rip}, v, s) ELSE old
           full == Mark(mid, Cols, v, t)
           new == Live(full, TRUE)
<1>5. known + Cardinality(Cols) \in Nat
  BY CardType
<1>6. Write(c, y, known + Cardinality(Cols), [work EXCEPT ![p] = new])
  BY <1>1, <1>4
<1>7. RowStamped(Mark(old, {Rip}, v, s), old, v)
  BY <1>3, MarkStamped
<1>8. RowStamped(mid, old, v) /\ mid \in Row
  BY <1>3, <1>7 DEF RowStamped
<1> HIDE DEF mid, old
<1>9. RowStamped(new, old, v) /\ \E n \in Names : new.at[n].ver = v
  <2>1. Cols \in SUBSET Names
    BY DEF Names
  <2>2. RowStamped(full, mid, v) /\ \A n \in Cols : full.at[n].ver = v
    BY <1>8, <2>1, MarkStamped
  <2> HIDE DEF full
  <2>3. RowStamped(full, old, v)
    BY <1>8, <2>2, RowStampedTrans
  <2>4. RowStamped(new, old, v) /\ new.at = full.at
    BY <2>3, LiveStamped
  <2>5. QED
    BY <2>1, <2>2, <2>4, ColsAssumption
<1> HIDE DEF new, known
<1>10. [work EXCEPT ![p] = new] \in [Pks -> Row] /\ Stamped([work EXCEPT ![p] = new], work, v)
  BY <1>2, <1>9, StampOne DEF old
<1>11. QED
  BY <1>4, <1>5, <1>6, <1>10, WriteInv

\* UPDATE of columns
LEMMA UpdateInv ==
  ASSUME IInv, NEW c \in Conns, NEW p \in Pks, NEW C \in SUBSET Cols, Update(c, p, C)
  PROVE  IInv'
<1>1. PICK y \in Drawn(c, work, NotSet) :
        Write(c, y, Cardinality(C), [work EXCEPT ![p] = Mark(work[p], C, y.pend, y.seq)])
  BY DEF Update
<1> DEFINE q == Mark(work[p], C, y.pend, y.seq)
<1>2. y.pend \in Nat /\ y.seq \in Nat /\ work \in [Pks -> Row]
  BY <1>1, StatementStarts DEF Write
<1>3. work[p] \in Row /\ C \subseteq Names
  BY <1>2 DEF Names
<1>4. RowStamped(q, work[p], y.pend) /\ \A n \in C : q.at[n].ver = y.pend
  BY <1>2, <1>3, MarkStamped
<1>5. q = work[p] \/ \E n \in Names : q.at[n].ver = y.pend
  <2>1. CASE C = {}
    BY <1>3, <2>1 DEF Mark, Row
  <2>2. CASE C # {}
    BY <1>3, <1>4, <2>2
  <2>3. QED
    BY <2>1, <2>2
<1>6. Cardinality(C) \in Nat
  BY CardType
<1> HIDE DEF q
<1>7. [work EXCEPT ![p] = q] \in [Pks -> Row] /\ Stamped([work EXCEPT ![p] = q], work, y.pend)
  BY <1>2, <1>4, <1>5, StampOne
<1>8. Write(c, y, Cardinality(C), [work EXCEPT ![p] = q])
  BY <1>1 DEF q
<1>9. QED
  BY <1>6, <1>7, <1>8, WriteInv

\* The row of a deleted key, whether it was deleted here or moved away.
LEMMA BuriedStamped ==
  ASSUME NEW r \in Row, NEW v \in Nat, NEW s \in Nat
  PROVE  /\ RowStamped(Live(DropCols(Mark(r, {Rip}, v, s)), FALSE), r, v)
         /\ \E n \in Names : Live(DropCols(Mark(r, {Rip}, v, s)), FALSE).at[n].ver = v
<1>1. {Rip} \in SUBSET Names
  BY DEF Names
<1>m. RowStamped(Mark(r, {Rip}, v, s), r, v) /\ \A n \in {Rip} : Mark(r, {Rip}, v, s).at[n].ver = v
  BY <1>1, MarkStamped
<1> DEFINE a == Mark(r, {Rip}, v, s)
           b == DropCols(a)
<1>2. RowStamped(a, r, v) /\ a.at[Rip].ver = v
  BY <1>m
<1> HIDE DEF a
<1>3. RowStamped(b, a, v) /\ b.at[Rip] = a.at[Rip]
  BY <1>2, DropColsStamped DEF RowStamped
<1> HIDE DEF b
<1>4. RowStamped(b, r, v)
  BY <1>2, <1>3, RowStampedTrans
<1>5. RowStamped(Live(b, FALSE), r, v) /\ Live(b, FALSE).at = b.at
  BY <1>4, LiveStamped
<1>6. QED
  BY <1>1, <1>2, <1>3, <1>5 DEF a, b

\* DELETE
LEMMA DeleteInv ==
  ASSUME IInv, NEW c \in Conns, NEW p \in Pks, Delete(c, p)
  PROVE  IInv'
<1>1. PICK y \in Drawn(c, work, NotSet) :
        Write(c, y, 1, [work EXCEPT
          ![p] = Live(DropCols(Mark(work[p], {Rip}, y.pend, y.seq)), FALSE)])
  BY DEF Delete
<1> DEFINE q == Live(DropCols(Mark(work[p], {Rip}, y.pend, y.seq)), FALSE)
<1>2. y.pend \in Nat /\ y.seq \in Nat /\ work \in [Pks -> Row]
  BY <1>1, StatementStarts DEF Write
<1>3. RowStamped(q, work[p], y.pend) /\ \E n \in Names : q.at[n].ver = y.pend
  <2>1. work[p] \in Row
    BY <1>2
  <2>2. QED
    BY <1>2, <2>1, BuriedStamped
<1> HIDE DEF q
<1>4. [work EXCEPT ![p] = q] \in [Pks -> Row] /\ Stamped([work EXCEPT ![p] = q], work, y.pend)
  BY <1>2, <1>3, StampOne
<1>5. Write(c, y, 1, [work EXCEPT ![p] = q])
  BY <1>1 DEF q
<1>6. QED
  BY <1>4, <1>5, WriteInv

\* The row a moved key leaves at its new place.
LEMMA MovedStamped ==
  ASSUME NEW o \in Row, NEW r \in Row, NEW v \in Nat, NEW s \in Nat, NEW t \in Nat, NEW u \in Nat,
         NEW C \in SUBSET Cols
  PROVE  RowStamped(Live(Mark(Mark(MoveCols(o, r, v, s), {Rip}, v, t), C, v, u), TRUE), r, v)
<1> DEFINE moved == MoveCols(o, r, v, s)
           named == Mark(moved, {Rip}, v, t)
           set   == Mark(named, C, v, u)
<1>1. {Rip} \in SUBSET Names /\ C \in SUBSET Names
  BY DEF Names
<1>2. RowStamped(moved, r, v) /\ moved \in Row
  BY MoveColsRow DEF RowStamped
<1> HIDE DEF moved
<1>3. RowStamped(named, moved, v) /\ named \in Row
  <2>1. RowStamped(named, moved, v)
    BY <1>1, <1>2, MarkStamped
  <2>2. QED
    BY <2>1 DEF RowStamped
<1> HIDE DEF named
<1>4. RowStamped(set, named, v)
  BY <1>1, <1>3, MarkStamped
<1> HIDE DEF set
<1>5. RowStamped(set, r, v)
  BY <1>2, <1>3, <1>4, RowStampedTrans
<1>6. QED
  BY <1>5, LiveStamped DEF moved, named, set

\* UPDATE of the key
LEMMA MoveInv ==
  ASSUME IInv, NEW c \in Conns, NEW p \in Pks, NEW q \in Pks, NEW C \in SUBSET Cols,
         Move(c, p, q, C)
  PROVE  IInv'
<1>1. PICK y \in Drawn(c, work, NotSet) :
        Write(c, y, 3 + Cardinality(C), [work EXCEPT
          ![p] = Live(DropCols(Mark(work[p], {Rip}, y.pend, y.seq)), FALSE),
          ![q] = Live(Mark(Mark(MoveCols(work[p], work[q], y.pend, y.seq + 1),
                                {Rip}, y.pend, y.seq + 2), C, y.pend, y.seq + 3), TRUE)])
  BY DEF Move
<1> DEFINE gone == Live(DropCols(Mark(work[p], {Rip}, y.pend, y.seq)), FALSE)
           new  == Live(Mark(Mark(MoveCols(work[p], work[q], y.pend, y.seq + 1),
                                  {Rip}, y.pend, y.seq + 2), C, y.pend, y.seq + 3), TRUE)
           m    == [work EXCEPT ![p] = gone, ![q] = new]
<1>2. /\ y.pend \in Nat /\ y.seq \in Nat /\ work \in [Pks -> Row]
      /\ y.seq + 1 \in Nat /\ y.seq + 2 \in Nat /\ y.seq + 3 \in Nat
  BY <1>1, StatementStarts DEF Write
<1>3. p # q /\ work[p] \in Row /\ work[q] \in Row
  BY <1>2 DEF Move
<1>4. RowStamped(gone, work[p], y.pend) /\ \E n \in Names : gone.at[n].ver = y.pend
  BY <1>2, <1>3, BuriedStamped, ZenonT(40)
<1>5. RowStamped(new, work[q], y.pend)
  BY <1>2, <1>3, MovedStamped
<1>6. Write(c, y, 3 + Cardinality(C), m)
  BY <1>1
<1> HIDE DEF gone, new
<1>7. m \in [Pks -> Row] /\ m[p] = gone /\ m[q] = new /\ \A o \in Pks \ {p, q} : m[o] = work[o]
  BY <1>2, <1>3, <1>4, <1>5 DEF RowStamped
<1> HIDE DEF m
<1>8. Stamped(m, work, y.pend)
  BY <1>4, <1>5, <1>7 DEF Stamped, RowStamped
<1>9. 3 + Cardinality(C) \in Nat
  BY CardType
<1>10. QED
  BY <1>6, <1>7, <1>8, <1>9, WriteInv

\* A change from elsewhere carries numbers.
LEMMA StampType ==
  ASSUME NEW s \in Stamps
  PROVE  s[1] \in Nat \cup {NotSet} /\ s[2] \in Nat
BY StampsAssumption

\* A change of a column, merged.
LEMMA MergeColInv ==
  ASSUME IInv, NEW c \in Conns, NEW p \in Pks, NEW n \in Cols, NEW s \in Stamps,
         MergeCol(c, p, n, s)
  PROVE  IInv'
<1>1. PICK y \in Drawn(c, work, s[1]) :
        Write(c, y, 0, [work EXCEPT
          ![p] = Live(SetWinner(work[p], {n}, y.pend, s[2]), TRUE)])
  BY DEF MergeCol
<1>2. s[1] \in Nat \cup {NotSet}
  BY StampType
<1>3. y.pend \in Nat /\ work \in [Pks -> Row]
  BY <1>1, <1>2, StatementStarts DEF Write
<1>4. PICK v \in Nat, t \in Nat : v = y.pend /\ t = s[2]
  BY <1>3, StampType
<1> DEFINE won == SetWinner(work[p], {n}, v, t)
           new == Live(won, TRUE)
<1>5. Write(c, y, 0, [work EXCEPT ![p] = new])
  BY <1>1, <1>4
<1>6. RowStamped(new, work[p], v) /\ \E o \in Names : new.at[o].ver = v
  <2>1. work[p] \in Row /\ n \in Names /\ {n} \in SUBSET Names
    BY <1>3 DEF Names
  <2>2. RowStamped(won, work[p], v) /\ \A o \in {n} : won.at[o].ver = v
    BY <2>1, SetWinnerRow
  <2> HIDE DEF won
  <2>3. RowStamped(new, work[p], v) /\ new.at = won.at
    BY <2>2, LiveStamped
  <2>4. QED
    BY <2>1, <2>2, <2>3
<1> HIDE DEF new
<1>7. [work EXCEPT ![p] = new] \in [Pks -> Row] /\ Stamped([work EXCEPT ![p] = new], work, v)
  BY <1>3, <1>6, StampOne
<1>8. QED
  BY <1>2, <1>4, <1>5, <1>7, WriteInv

\* A sentinel merged, with the column that brought it or alone.
LEMMA MergeSentinelInv ==
  ASSUME IInv, NEW c \in Conns, NEW p \in Pks, NEW N \in {{}} \cup {{n} : n \in Cols},
         NEW s \in Stamps, MergeSentinel(c, p, N, s)
  PROVE  IInv'
<1>1. PICK y \in Drawn(c, work, s[1]) :
        Write(c, y, 0, [work EXCEPT
          ![p] = Live(SetWinner(ZeroClock(work[p], y.pend), N \cup {Rip}, y.pend, s[2]), TRUE)])
  BY DEF MergeSentinel
<1>2. s[1] \in Nat \cup {NotSet}
  BY StampType
<1>3. y.pend \in Nat /\ work \in [Pks -> Row]
  BY <1>1, <1>2, StatementStarts DEF Write
<1>4. PICK v \in Nat, t \in Nat : v = y.pend /\ t = s[2]
  BY <1>3, StampType
<1> DEFINE zero == ZeroClock(work[p], v)
           M    == N \cup {Rip}
           won  == SetWinner(zero, M, v, t)
           new  == Live(won, TRUE)
<1>5. Write(c, y, 0, [work EXCEPT ![p] = new])
  BY <1>1, <1>4
<1>6. RowStamped(new, work[p], v) /\ \E o \in Names : new.at[o].ver = v
  <2>1. work[p] \in Row
    BY <1>3
  <2>2. RowStamped(zero, work[p], v) /\ zero \in Row
    BY <2>1, ZeroClockRow DEF RowStamped
  <2>3. Rip \in Names /\ M \in SUBSET Names /\ Rip \in M
    BY DEF Names
  <2> HIDE DEF zero, M
  <2>4. RowStamped(won, zero, v) /\ \A o \in M : won.at[o].ver = v
    BY <2>2, <2>3, SetWinnerRow
  <2> HIDE DEF won
  <2>5. RowStamped(won, work[p], v)
    BY <2>2, <2>4, RowStampedTrans
  <2>6. RowStamped(new, work[p], v) /\ new.at = won.at
    BY <2>5, LiveStamped
  <2>7. QED
    BY <2>3, <2>4, <2>6
<1> HIDE DEF new
<1>7. [work EXCEPT ![p] = new] \in [Pks -> Row] /\ Stamped([work EXCEPT ![p] = new], work, v)
  BY <1>3, <1>6, StampOne
<1>8. QED
  BY <1>2, <1>4, <1>5, <1>7, WriteInv

\* A deletion merged: the winner clock stays when the columns go.
LEMMA MergeDeleteInv ==
  ASSUME IInv, NEW c \in Conns, NEW p \in Pks, NEW s \in Stamps, MergeDelete(c, p, s)
  PROVE  IInv'
<1>1. PICK y \in Drawn(c, work, s[1]) :
        Write(c, y, 0, [work EXCEPT
          ![p] = Live(DropCols(SetWinner(work[p], {Rip}, y.pend, s[2])), FALSE)])
  BY DEF MergeDelete
<1>2. s[1] \in Nat \cup {NotSet}
  BY StampType
<1>3. y.pend \in Nat /\ work \in [Pks -> Row]
  BY <1>1, <1>2, StatementStarts DEF Write
<1>4. PICK v \in Nat, t \in Nat : v = y.pend /\ t = s[2]
  BY <1>3, StampType
<1> DEFINE won  == SetWinner(work[p], {Rip}, v, t)
           left == DropCols(won)
           new  == Live(left, FALSE)
<1>5. Write(c, y, 0, [work EXCEPT ![p] = new])
  BY <1>1, <1>4
<1>6. RowStamped(new, work[p], v) /\ \E o \in Names : new.at[o].ver = v
  <2>1. work[p] \in Row /\ {Rip} \in SUBSET Names
    BY <1>3 DEF Names
  <2>2. RowStamped(won, work[p], v) /\ \A o \in {Rip} : won.at[o].ver = v
    BY <2>1, SetWinnerRow
  <2> HIDE DEF won
  <2>3. RowStamped(left, won, v) /\ left.at[Rip] = won.at[Rip]
    BY <2>2, DropColsStamped DEF RowStamped
  <2> HIDE DEF left
  <2>4. RowStamped(left, work[p], v)
    BY <2>2, <2>3, RowStampedTrans
  <2>5. RowStamped(new, work[p], v) /\ new.at = left.at
    BY <2>4, LiveStamped
  <2>6. QED
    BY <2>1, <2>2, <2>3, <2>5
<1> HIDE DEF new
<1>7. [work EXCEPT ![p] = new] \in [Pks -> Row] /\ Stamped([work EXCEPT ![p] = new], work, v)
  BY <1>3, <1>6, StampOne
<1>8. QED
  BY <1>2, <1>4, <1>5, <1>7, WriteInv

(***************************************************************************)
(* The other actions.                                                      *)
(***************************************************************************)
\* BEGIN
LEMMA BeginInv ==
  ASSUME IInv, NEW c \in Conns, Begin(c)
  PROVE  IInv'
<1>1. TypeOK' /\ CacheNotBehind'
  BY DEF IInv, Begin, TypeOK, CacheNotBehind, AtMost
<1>2. QED
  BY <1>1, ConnsAssumption DEF IInv, Begin, Grown

\* SAVEPOINT
LEMMA SavepointInv ==
  ASSUME IInv, NEW c \in Conns, Savepoint(c)
  PROVE  IInv'
<1>1. TypeOK' /\ CacheNotBehind'
  BY DEF IInv, Savepoint, TypeOK, CacheNotBehind, AtMost
<1>2. QED
  BY <1>1, ConnsAssumption DEF IInv, Savepoint, Grown

\* ROLLBACK TO: the metadata at the savepoint is grown too.
LEMMA RollbackToInv ==
  ASSUME IInv, NEW c \in Conns, RollbackTo(c)
  PROVE  IInv'
<1>1. TypeOK' /\ CacheNotBehind'
  BY DEF IInv, RollbackTo, TypeOK, CacheNotBehind, AtMost
<1>2. QED
  BY <1>1, ConnsAssumption DEF IInv, RollbackTo, Grown

\* A connection that looks at the database learns a bound of what is committed.
LEMMA LearnInv ==
  ASSUME IInv, NEW c \in Conns, NEW x \in Context, x.cache \in Nat, AtMost(meta, x.cache),
         (writer = c /\ ~(work = meta /\ mark = meta)) =>
            x.cache = ctx[c].cache /\ x.pend >= ctx[c].pend,
         ctx' = [ctx EXCEPT ![c] = x], stale' = [stale EXCEPT ![c] = FALSE],
         UNCHANGED <<meta, writer, work, mark, floor>>
  PROVE  IInv'
<1>1. TypeOK'
  BY DEF IInv, TypeOK
<1>2. ctx'[c] = x /\ ~stale'[c] /\ \A d \in Conns \ {c} : ctx'[d] = ctx[d] /\ stale'[d] = stale[d]
  BY DEF IInv, TypeOK
<1>3. CacheNotBehind'
  BY <1>2 DEF IInv, CacheNotBehind, AtMost
<1>4. \A d \in Conns : ctx'[d].cache = NotSet => ctx'[d].pend = NotSet
  BY <1>2 DEF IInv, NotSet
<1>5. ASSUME NEW m, m = work \/ m = mark, writer # NoConn, Grown(m, writer)
      PROVE  Grown(m, writer)'
  <2>1. writer \in Conns
    BY <1>5 DEF IInv, TypeOK
  <2>2. CASE m = meta
    BY <2>2 DEF Grown
  <2>3. CASE m # meta /\ writer # c
    BY <1>2, <1>5, <2>1, <2>3 DEF Grown
  <2>4. CASE m # meta /\ writer = c
    <3>1. x.cache = ctx[c].cache /\ x.pend >= ctx[c].pend
      BY <1>5, <2>4
    <3>2. x.pend \in Int /\ ctx[c].pend \in Int /\ ctx[c].cache \in Int
      BY DEF IInv, TypeOK, Context, NotSet
    <3>3. \A p \in Pks, o \in Names : m[p].at[o].ver \in Int
      BY <1>5 DEF IInv, TypeOK, Row, Entry, None
    <3>4. QED
      BY <1>2, <1>5, <2>4, <3>1, <3>2, <3>3 DEF Grown
  <2>5. QED
    BY <2>2, <2>3, <2>4
<1>6. writer # NoConn => Grown(work, writer)' /\ Grown(mark, writer)'
  BY <1>5 DEF IInv
<1>7. QED
  BY <1>1, <1>3, <1>4, <1>6 DEF IInv, Grown

\* cloudsync_db_version() and cloudsync_db_version_next()
LEMMA CallInv ==
  ASSUME IInv, NEW c \in Conns, Call(c)
  PROVE  IInv'
<1>1. CASE GetVersion(c)
  <2>1. PICK x \in UpToDate(c, View(c)) : ctx' = [ctx EXCEPT ![c] = x]
    BY <1>1 DEF GetVersion, Learn
  <2>2. /\ x \in Context /\ x.cache \in Nat /\ AtMost(meta, x.cache)
        /\ x.pend = ctx[c].pend
        /\ (writer = c /\ ~(work = meta /\ mark = meta)) => x = ctx[c]
    BY UpToDateCache
  <2>3. x.pend >= ctx[c].pend
    BY <2>2 DEF Context, NotSet
  <2>4. QED
    BY <1>1, <2>1, <2>2, <2>3, LearnInv DEF GetVersion, Learn
<1>2. CASE GetNextVersion(c)
  <2>1. PICK y \in Drawn(c, View(c), NotSet) : ctx' = [ctx EXCEPT ![c] = y]
    BY <1>2 DEF GetNextVersion, Learn
  <2>2. /\ y \in Context /\ y.cache \in Nat /\ AtMost(meta, y.cache)
        /\ (writer = c /\ ~(work = meta /\ mark = meta)) =>
              y.cache = ctx[c].cache /\ y.pend >= ctx[c].pend
    BY DrawnVersion
  <2>3. QED
    BY <1>2, <2>1, <2>2, LearnInv DEF GetNextVersion, Learn
<1>3. QED
  BY <1>1, <1>2 DEF Call

\* A pending version that is ahead of the cache bounds what is committed, and what is
\* about to be.
LEMMA AheadBounds ==
  ASSUME IInv, NEW c \in Conns, writer = c, Ahead(c), ~stale[c], ctx[c].pend # NotSet
  PROVE  AtMost(meta, ctx[c].pend) /\ AtMost(work, ctx[c].pend)
<1>1. ctx[c] \in Context /\ ctx[c].cache \in Nat /\ ctx[c].pend \in Nat
  BY DEF IInv, TypeOK, Context
<1>2. \A p \in Pks, n \in Names : meta[p].at[n].ver \in Int /\ work[p].at[n].ver \in Int
  BY DEF IInv, TypeOK, Row, Entry, None
<1>3. AtMost(meta, ctx[c].cache) /\ ctx[c].pend > ctx[c].cache
  BY <1>1 DEF IInv, CacheNotBehind, Ahead, NotSet
<1>4. AtMost(meta, ctx[c].pend)
  BY <1>1, <1>2, <1>3 DEF AtMost
<1>5. Grown(work, c)
  BY ConnsAssumption DEF IInv
<1>6. AtMost(work, ctx[c].pend)
  BY <1>1, <1>2, <1>4, <1>5 DEF Grown, AtMost, None
<1>7. QED
  BY <1>4, <1>6

\* The end of a transaction, if it leaves a cache that is not behind.
LEMMA EndInv ==
  ASSUME IInv, NEW c \in Conns, NEW m \in [Pks -> Row], NEW x \in Context, NEW wrote \in BOOLEAN,
         End(c, m, x, wrote), m = meta \/ wrote,
         (~stale[c] /\ x.cache # NotSet) => AtMost(m, x.cache),
         x.pend = NotSet, floor' = floor
  PROVE  IInv'
<1>1. /\ writer' = NoConn /\ meta' = m /\ work' = m /\ mark' = m
      /\ ctx' = [ctx EXCEPT ![c] = x]
      /\ stale' = [d \in Conns |-> stale[d] \/ (wrote /\ d # c)]
  BY DEF End
<1>2. TypeOK'
  BY <1>1 DEF IInv, TypeOK
<1>3. ctx'[c] = x /\ \A d \in Conns \ {c} : ctx'[d] = ctx[d]
  BY <1>1 DEF IInv, TypeOK
<1>4. ~stale'[c] => ~stale[c]
  BY <1>1
<1>5. \A d \in Conns \ {c} : ~stale'[d] => ~stale[d] /\ m = meta
  BY <1>1
<1>6. CacheNotBehind'
  BY <1>1, <1>3, <1>4, <1>5 DEF IInv, CacheNotBehind, AtMost
<1>7. \A d \in Conns : ctx'[d].cache = NotSet => ctx'[d].pend = NotSet
  BY <1>3 DEF IInv
<1>8. QED
  BY <1>1, <1>2, <1>6, <1>7 DEF IInv

\* COMMIT, and a commit that fails after the hook, on a pending version that is ahead.
LEMMA FinishInv ==
  ASSUME IInv, NEW c \in Conns, Ahead(c), Finish(c)
  PROVE  IInv'
<1>1. /\ ctx[c] \in Context /\ meta \in [Pks -> Row] /\ work \in [Pks -> Row]
      /\ writer = c
  BY DEF IInv, TypeOK, Finish, Commit, CommitFails, End
<1>2. CommitHook(ctx[c]) \in Context /\ RollbackHook(CommitHook(ctx[c])) = CommitHook(ctx[c])
  <2>1. CommitHook(ctx[c]) \in Context
    BY <1>1 DEF CommitHook, Context
  <2>2. CommitHook(ctx[c]).pend = NotSet /\ CommitHook(ctx[c]).seq = 0
    BY DEF CommitHook
  <2>3. RollbackHook(CommitHook(ctx[c])) = CommitHook(ctx[c])
    BY <2>1, <2>2 DEF RollbackHook, Context
  <2>4. QED
    BY <2>1, <2>3
<1>3. CommitHook(ctx[c]).cache = ctx[c].pend /\ CommitHook(ctx[c]).pend = NotSet
  BY DEF CommitHook
<1>4. CASE Commit(c)
  <2>1. PICK wrote \in BOOLEAN : /\ work # meta => wrote
                                 /\ End(c, work, CommitHook(ctx[c]), wrote)
                                 /\ floor' = floor
    BY <1>4 DEF Commit
  <2>2. (~stale[c] /\ CommitHook(ctx[c]).cache # NotSet) => AtMost(work, CommitHook(ctx[c]).cache)
    BY <1>1, <1>3, AheadBounds
  <2>3. QED
    BY <1>1, <1>2, <1>3, <2>1, <2>2, EndInv
<1>5. CASE CommitFails(c)
  <2>1. End(c, meta, CommitHook(ctx[c]), FALSE) /\ floor' = floor
    BY <1>2, <1>5 DEF CommitFails
  <2>2. (~stale[c] /\ CommitHook(ctx[c]).cache # NotSet) => AtMost(meta, CommitHook(ctx[c]).cache)
    BY <1>1, <1>3, AheadBounds
  <2>3. QED
    BY <1>1, <1>2, <1>3, <2>1, <2>2, EndInv
<1>6. QED
  BY <1>4, <1>5 DEF Finish

\* ROLLBACK
LEMMA RollbackInv ==
  ASSUME IInv, NEW c \in Conns, Rollback(c)
  PROVE  IInv'
<1>1. ctx[c] \in Context /\ meta \in [Pks -> Row]
  BY DEF IInv, TypeOK
<1>2. /\ RollbackHook(ctx[c]) \in Context
      /\ RollbackHook(ctx[c]).cache = ctx[c].cache /\ RollbackHook(ctx[c]).pend = NotSet
  BY <1>1 DEF RollbackHook, Context
<1>3. (~stale[c] /\ RollbackHook(ctx[c]).cache # NotSet) => AtMost(meta, RollbackHook(ctx[c]).cache)
  BY <1>2 DEF IInv, CacheNotBehind
<1>4. End(c, meta, RollbackHook(ctx[c]), FALSE) /\ floor' = floor
  BY DEF Rollback
<1>5. QED
  BY <1>1, <1>2, <1>3, <1>4, EndInv

\* A connection closed, or lost, and opened again knows nothing, and looks.
LEMMA ReopenInv ==
  ASSUME IInv, NEW c \in Conns, Reopen(c)
  PROVE  IInv'
<1>1. Fresh \in Context /\ Fresh.cache # NotSet
  BY DEF Fresh, Context, NotSet
<1>2. meta' = meta /\ floor' = floor
  BY DEF Reopen
<1>3. TypeOK'
  BY <1>1 DEF IInv, TypeOK, Reopen
<1>4. /\ ctx'[c] = Fresh /\ stale'[c]
      /\ \A d \in Conns \ {c} : ctx'[d] = ctx[d] /\ stale'[d] = stale[d]
  BY DEF IInv, TypeOK, Reopen
<1>5. CacheNotBehind'
  BY <1>2, <1>4 DEF IInv, CacheNotBehind, AtMost
<1>6. \A d \in Conns : ctx'[d].cache = NotSet => ctx'[d].pend = NotSet
  BY <1>1, <1>4 DEF IInv
<1>7. CASE writer = c
  BY <1>2, <1>3, <1>5, <1>6, <1>7 DEF IInv, Reopen
<1>8. CASE writer # c
  <2>1. writer' = writer /\ work' = work /\ mark' = mark
    BY <1>8 DEF Reopen
  <2>2. writer # NoConn => Grown(work, writer)' /\ Grown(mark, writer)'
    BY <1>2, <1>4, <1>8, <2>1 DEF IInv, TypeOK, Grown
  <2>3. QED
    BY <1>2, <1>3, <1>5, <1>6, <2>1, <2>2 DEF IInv
<1>9. QED
  BY <1>7, <1>8

(***************************************************************************)
(* The theorems.                                                           *)
(***************************************************************************)
\* An empty database.
LEMMA InitInv == Init => IInv
<1> SUFFICES ASSUME Init PROVE IInv
  OBVIOUS
<1>1. NoEntry \in Entry
  BY DEF NoEntry, Entry
<1>2. Absent \in Row
  BY <1>1 DEF Absent, Row
<1>3. Fresh \in Context /\ Fresh.cache # NotSet
  BY DEF Fresh, Context, NotSet
<1>4. TypeOK
  BY <1>2, <1>3 DEF Init, TypeOK
<1>5. QED
  BY <1>3, <1>4 DEF Init, IInv, CacheNotBehind

\* A step of CarefulNext preserves the invariant, one case for each action.
LEMMA StepInv == IInv /\ [CarefulNext]_vars => IInv'
<1> SUFFICES ASSUME IInv, [CarefulNext]_vars PROVE IInv'
  OBVIOUS
<1>1. ASSUME NEW c \in Conns, WriteRow(c) PROVE IInv'
  BY <1>1, InsertInv, UpdateInv, DeleteInv DEF WriteRow
<1>2. ASSUME NEW c \in Conns, WriteKey(c) PROVE IInv'
  BY <1>2, MoveInv DEF WriteKey
<1>3. ASSUME NEW c \in Conns, Receive(c) PROVE IInv'
  BY <1>3, MergeColInv, MergeSentinelInv, MergeDeleteInv DEF Receive, ReceiveWinner, ReceiveLife
<1>4. ASSUME NEW c \in Conns, Abandon(c) PROVE IInv'
  BY <1>4, RollbackToInv, RollbackInv, ReopenInv DEF Abandon
<1>5. ASSUME UNCHANGED vars PROVE IInv'
  BY <1>5 DEF vars, IInv, TypeOK, CacheNotBehind, AtMost, Grown
<1>6. QED
  BY <1>1, <1>2, <1>3, <1>4, <1>5, BeginInv, SavepointInv, CallInv, FinishInv DEF CarefulNext

\* The invariant of CarefulSpec.
LEMMA Invariant == CarefulSpec => []IInv
  BY InitInv, StepInv, PTL DEF CarefulSpec

\* What a step that changes the committed metadata does: only a commit does.
LEMMA CommitGrows ==
  ASSUME IInv, [CarefulNext]_vars, meta' # meta
  PROVE  \E k \in Nat :
           /\ \A v \in Versions(meta) : v \in Nat /\ v <= k
           /\ \A p \in Pks, n \in Names : meta'[p].at[n] # meta[p].at[n] =>
                meta'[p].at[n].ver = None \/ k < meta'[p].at[n].ver
           /\ \E p \in Pks, n \in Names : meta'[p].at[n].ver \in Nat /\ k < meta'[p].at[n].ver
<1>1. PICK c \in Conns : Finish(c)
  <2>1. \A c \in Conns : WriteRow(c) \/ WriteKey(c) \/ Receive(c) => meta' = meta
    <3>1. ASSUME NEW c, NEW y, NEW n, NEW m, Write(c, y, n, m) PROVE meta' = meta
      BY <3>1 DEF Write
    <3>2. ASSUME NEW c, NEW p, Insert(c, p) PROVE meta' = meta
      BY <3>1, <3>2, Zenon DEF Insert
    <3>3. ASSUME NEW c, NEW p, NEW C, Update(c, p, C) PROVE meta' = meta
      BY <3>1, <3>3, Zenon DEF Update
    <3>4. ASSUME NEW c, NEW p, Delete(c, p) PROVE meta' = meta
      BY <3>1, <3>4, Zenon DEF Delete
    <3>5. ASSUME NEW c, NEW p, NEW q, NEW C, Move(c, p, q, C) PROVE meta' = meta
      BY <3>1, <3>5, Zenon DEF Move
    <3>6. ASSUME NEW c, NEW p, NEW n, NEW s, MergeCol(c, p, n, s) PROVE meta' = meta
      BY <3>1, <3>6, Zenon DEF MergeCol
    <3>7. ASSUME NEW c, NEW p, NEW N, NEW s, MergeSentinel(c, p, N, s) PROVE meta' = meta
      BY <3>1, <3>7, Zenon DEF MergeSentinel
    <3>8. ASSUME NEW c, NEW p, NEW s, MergeDelete(c, p, s) PROVE meta' = meta
      BY <3>1, <3>8, Zenon DEF MergeDelete
    <3>9. QED
      BY <3>2, <3>3, <3>4, <3>5, <3>6, <3>7, <3>8 DEF WriteRow, WriteKey, Receive, ReceiveWinner, ReceiveLife
  <2>2. \A c \in Conns : Begin(c) \/ Savepoint(c) \/ Call(c) \/ Abandon(c) => meta' = meta
    BY DEF Begin, Savepoint, Call, GetVersion, GetNextVersion, Learn, Abandon, RollbackTo,
           Rollback, End, Reopen
  <2>3. QED
    BY <2>1, <2>2 DEF CarefulNext, vars
<1>2. writer = c /\ meta' = work
  BY <1>1 DEF Finish, Commit, CommitFails, End
<1>3. /\ ~stale[c] /\ ctx[c].cache # NotSet
      /\ \A p \in Pks, n \in Names : work[p].at[n] # meta[p].at[n] =>
           work[p].at[n].ver = None \/ ctx[c].cache < work[p].at[n].ver
      /\ \E p \in Pks, n \in Names : ctx[c].cache < work[p].at[n].ver
  BY <1>2, ConnsAssumption DEF IInv, Grown
<1>4. ctx[c].cache \in Nat /\ meta \in [Pks -> Row] /\ AtMost(meta, ctx[c].cache)
  BY <1>3 DEF IInv, TypeOK, Context, CacheNotBehind
<1>5. \A v \in Versions(meta) : v \in Nat /\ v <= ctx[c].cache
  BY <1>4, AtMostVersions
<1>6. \A p \in Pks, n \in Names : work[p].at[n].ver \in Nat \cup {-1}
  BY DEF IInv, TypeOK, Row, Entry, None
<1>7. \E p \in Pks, n \in Names : work[p].at[n].ver \in Nat /\ ctx[c].cache < work[p].at[n].ver
  BY <1>3, <1>4, <1>6
<1>8. QED
  BY <1>2, <1>3, <1>4, <1>5, <1>7

\* Type correctness.
THEOREM TypeCorrect == CarefulSpec => []TypeOK
<1>1. IInv => TypeOK
  BY DEF IInv
<1>2. QED
  BY <1>1, Invariant, PTL

\* The version a connection caches (db_version_check_uptodate) is never behind what
\* any connection committed, as far as it can tell.
THEOREM CacheCorrect == CarefulSpec => []CacheNotBehind
<1>1. IInv => CacheNotBehind
  BY DEF IInv
<1>2. QED
  BY <1>1, Invariant, PTL

\* What a transaction commits has versions above all those committed before it, by
\* any connection: a cursor never hides a change that comes after it.
THEOREM TransactionsFollow == CarefulSpec => VersionsGrow
<1> DEFINE Follows ==
      \A p \in Pks, n \in Names :
        (meta'[p].at[n] # meta[p].at[n] /\ Has(meta'[p], n))
          => \A v \in Versions(meta) : v < meta'[p].at[n].ver
<1>1. ASSUME IInv, [CarefulNext]_vars PROVE [Follows]_vars
  <2>1. CASE meta' = meta
    BY <2>1
  <2>2. CASE meta' # meta
    <3>1. PICK k \in Nat :
            /\ \A v \in Versions(meta) : v \in Nat /\ v <= k
            /\ \A p \in Pks, n \in Names : meta'[p].at[n] # meta[p].at[n] =>
                 meta'[p].at[n].ver = None \/ k < meta'[p].at[n].ver
      BY <1>1, <2>2, CommitGrows
    <3>2. IInv'
      BY <1>1, StepInv
    <3>3. \A p \in Pks, n \in Names : meta'[p].at[n].ver \in Nat \cup {-1}
      BY <3>2 DEF IInv, TypeOK, Row, Entry, None
    <3>4. QED
      BY <3>1, <3>3 DEF Has
  <2>3. QED
    BY <2>1, <2>2
<1>2. QED
  BY <1>1, Invariant, PTL DEF CarefulSpec, VersionsGrow

\* No commit lowers the maximum of the metadata, which is all a database remembers of
\* its version: merge_delete, for one, writes the winner clock before it drops rows.
THEOREM MaximumStays == CarefulSpec => MaximumKept
<1> DEFINE Keeps == \A v \in Versions(meta) : \E w \in Versions(meta') : v <= w
<1>1. ASSUME IInv, [CarefulNext]_vars PROVE [Keeps]_vars
  <2>1. CASE meta' = meta
    <3>1. meta \in [Pks -> Row]
      BY <1>1 DEF IInv, TypeOK
    <3>2. \A v \in Versions(meta) : v \in Nat
      BY <3>1 DEF Row, Entry, Versions
    <3>3. QED
      BY <2>1, <3>2
  <2>2. CASE meta' # meta
    <3>1. PICK k \in Nat :
            /\ \A v \in Versions(meta) : v \in Nat /\ v <= k
            /\ \E p \in Pks, n \in Names : meta'[p].at[n].ver \in Nat /\ k < meta'[p].at[n].ver
      BY <1>1, <2>2, CommitGrows
    <3>2. PICK p \in Pks, n \in Names : meta'[p].at[n].ver \in Nat /\ k < meta'[p].at[n].ver
      BY <3>1
    <3>3. meta'[p].at[n].ver \in Versions(meta')
      BY <3>2 DEF Versions, None
    <3>4. QED
      BY <3>1, <3>2, <3>3
  <2>3. QED
    BY <2>1, <2>2
<1>2. QED
  BY <1>1, Invariant, PTL DEF CarefulSpec, MaximumKept

\* Empty metadata, as dbutils creates it, shows readers no versions.
LEMMA CommittedInit == Init => Committed!Init
<1> DEFINE shown == [x \in Pks \X Names |-> Published(meta[x[1]].at[x[2]])]
<1> SUFFICES ASSUME Init PROVE shown = [x \in Pks \X Names |-> Committed!Nothing]
  BY DEF Committed!Init
<1>1. \A p \in Pks, n \in Names : meta[p].at[n] = NoEntry
  BY DEF Init, Absent
<1>2. Published(NoEntry) = Committed!Nothing
  BY DEF Published, NoEntry, None, Committed!Nothing
<1>3. QED
  BY <1>1, <1>2

\* What a commit changes in the metadata is, to a reader with a cursor, one transaction of
\* the abstract clock; every other step leaves it alone.
LEMMA CommittedStep ==
  ASSUME IInv, [CarefulNext]_vars
  PROVE  LET shown == [x \in Pks \X Names |-> Published(meta[x[1]].at[x[2]])]
         IN  [Committed!Transaction]_shown
<1> DEFINE shown == [x \in Pks \X Names |-> Published(meta[x[1]].at[x[2]])]
           after == [x \in Pks \X Names |-> Published(meta'[x[1]].at[x[2]])]
<1>1. CASE meta' = meta
  BY <1>1
<1>2. CASE meta' # meta
  <2>1. PICK k \in Nat :
          /\ \A v \in Versions(meta) : v \in Nat /\ v <= k
          /\ \A p \in Pks, n \in Names : meta'[p].at[n] # meta[p].at[n] =>
               meta'[p].at[n].ver = None \/ k < meta'[p].at[n].ver
          /\ \E p \in Pks, n \in Names : meta'[p].at[n].ver \in Nat /\ k < meta'[p].at[n].ver
    BY <1>2, CommitGrows
  <2>2. \A x \in Pks \X Names : shown[x].ver \in Nat /\ shown[x].ver <= k
    <3> TAKE x \in Pks \X Names
    <3>1. CASE meta[x[1]].at[x[2]].ver = None
      BY <3>1, <2>1 DEF Published
    <3>2. CASE meta[x[1]].at[x[2]].ver # None
      <4>1. meta[x[1]].at[x[2]].ver \in Versions(meta)
        BY <3>2 DEF Versions
      <4>2. QED
        BY <3>2, <4>1, <2>1 DEF Published
    <3>3. QED
      BY <3>1, <3>2
  <2>3. ASSUME NEW x \in Pks \X Names, after[x] # shown[x]
        PROVE  after[x] = Committed!Nothing \/ \A y \in Pks \X Names : shown[y].ver < after[x].ver
    <3>1. meta'[x[1]].at[x[2]] # meta[x[1]].at[x[2]]
      BY <2>3
    <3>2. CASE meta'[x[1]].at[x[2]].ver = None
      BY <3>2 DEF Published, Committed!Nothing
    <3>3. CASE meta'[x[1]].at[x[2]].ver # None
      <4>1. after[x].ver = meta'[x[1]].at[x[2]].ver /\ k < after[x].ver
        BY <3>1, <3>3, <2>1 DEF Published
      <4>2. meta' \in [Pks -> Row]
        BY StepInv DEF IInv, TypeOK
      <4>3. after[x].ver \in Nat
        BY <4>1, <4>2, <3>3 DEF Row, Entry
      <4> HIDE DEF shown, after
      <4>4. \A y \in Pks \X Names : shown[y].ver < after[x].ver
        BY <4>1, <4>3, <2>2
      <4>5. QED
        BY <4>4
    <3>4. QED
      BY <3>2, <3>3
  <2>4. \A x \in Pks \X Names : \E y \in Pks \X Names : shown[x].ver <= after[y].ver
    <3>1. PICK p \in Pks, n \in Names : meta'[p].at[n].ver \in Nat /\ k < meta'[p].at[n].ver
      BY <2>1
    <3>2. after[<<p, n>>].ver = meta'[p].at[n].ver
      BY <3>1 DEF Published, None
    <3>3. <<p, n>> \in Pks \X Names
      OBVIOUS
    <3> HIDE DEF shown, after
    <3>4. \A x \in Pks \X Names : shown[x].ver <= after[<<p, n>>].ver
      BY <3>1, <3>2, <2>2
    <3>5. QED
      BY <3>3, <3>4
  <2>5. QED
    BY <2>3, <2>4 DEF Committed!Transaction, Committed!Above
<1>3. QED
  BY <1>1, <1>2

\* To readers with a cursor the clock is the abstract one: what a transaction
\* commits has versions above everything before, and the last version stays.
THEOREM ClockRefinesCommitted == CarefulSpec => RefinesCommitted
<1>1. QED
  BY CommittedInit, CommittedStep, Invariant, PTL
    DEF CarefulSpec, RefinesCommitted, Committed!Spec

(***************************************************************************)
(* The stamps of a site's own changes.                                     *)
(***************************************************************************)
\* OwnStampsUnique, of the metadata m.
Unique(m) ==
  \A p, q \in Pks, n, o \in Names :
    LET e == m[p].at[n] f == m[q].at[o]
    IN  (e.own /\ f.own /\ e.ver = f.ver /\ e.seq = f.seq) => <<p, n>> = <<q, o>>

\* What connection c wrote here since its transaction began has a seq below the next.
SeqBelow(m, c) ==
  \A p \in Pks, n \in Names :
    (m[p].at[n] # meta[p].at[n] /\ m[p].at[n].own) => m[p].at[n].seq < ctx[c].seq

\* The inductive invariant of the stamps.
StampInv ==
  /\ IInv
  /\ Unique(meta) /\ Unique(work) /\ Unique(mark)
  /\ writer # NoConn => SeqBelow(work, writer) /\ SeqBelow(mark, writer)

\* A statement that drew the version v and took k seqs from s on turned row r into q: an
\* entry stays, is not this site's, or has v and one of the seqs, each its own.
Numbered(q, r, v, s, k) ==
  /\ q \in Row
  /\ \A n \in Names : \/ q.at[n] = r.at[n]
                      \/ ~q.at[n].own
                      \/ q.at[n].ver = v /\ s <= q.at[n].seq /\ q.at[n].seq < s + k
  /\ \A n, o \in Names :
       (/\ q.at[n] # r.at[n] /\ q.at[n].own
        /\ q.at[o] # r.at[o] /\ q.at[o].own
        /\ q.at[n].seq = q.at[o].seq) => n = o

\* The statements of a trigger number the rows they write from 0 on, each its own way.
LEMMA RankBelow ==
  ASSUME NEW N \in SUBSET Names, NEW n \in N, NEW o \in N, n < o
  PROVE  Rank(N, n) < Rank(N, o)
<1> DEFINE A == {x \in N : x < n}
           B == {x \in N : x < o}
<1>1. N \subseteq Nat /\ n \in Nat /\ o \in Nat
  BY ColsAssumption DEF Names, Rip
<1>2. IsFiniteSet(N)
  <2>1. IsFiniteSet(Names)
    BY ColsAssumption, FS_AddElement DEF Names
  <2>2. QED
    BY <2>1, FS_Subset
<1>3. A \subseteq B /\ n \in B /\ n \notin A
  <2>1. \A x \in Nat : x < n => x < o
    BY <1>1
  <2>2. ~(n < n)
    BY <1>1
  <2>3. QED
    BY <1>1, <2>1, <2>2
<1>4. IsFiniteSet(B)
  BY <1>2, FS_Subset
<1> HIDE DEF A, B
<1>5. Cardinality(A) <= Cardinality(B) /\ Cardinality(A) # Cardinality(B)
  BY <1>3, <1>4, FS_Subset
<1>6. Cardinality(A) \in Nat /\ Cardinality(B) \in Nat
  BY <1>3, <1>4, FS_Subset, FS_CardinalityType
<1>7. Cardinality(A) < Cardinality(B)
  BY <1>5, <1>6
<1>8. QED
  BY <1>7 DEF Rank, A, B

\* Each of the rows N gets a number of its own, below their count.
LEMMA RankOwn ==
  ASSUME NEW N \in SUBSET Names
  PROVE  /\ Cardinality(N) \in Nat
         /\ \A n \in N : Rank(N, n) \in Nat /\ Rank(N, n) < Cardinality(N)
         /\ \A n, o \in N : Rank(N, n) = Rank(N, o) => n = o
<1>1. Names \subseteq Nat /\ IsFiniteSet(Names)
  BY ColsAssumption, FS_AddElement DEF Names, Rip
<1>2. IsFiniteSet(N) /\ Cardinality(N) \in Nat
  BY <1>1, FS_Subset, FS_CardinalityType
<1>3. \A n \in N : Rank(N, n) \in Nat
  BY RankType
<1>4. ASSUME NEW n \in N PROVE Rank(N, n) < Cardinality(N)
  <2> DEFINE A == {x \in N : x < n}
  <2>1. A \subseteq N /\ n \notin A
    BY <1>1
  <2> HIDE DEF A
  <2>2. Cardinality(A) <= Cardinality(N) /\ Cardinality(A) # Cardinality(N)
    BY <1>2, <2>1, FS_Subset
  <2>3. Cardinality(A) = Rank(N, n)
    BY DEF A, Rank
  <2>4. QED
    BY <1>2, <1>3, <2>2, <2>3
<1>5. ASSUME NEW n \in N, NEW o \in N, Rank(N, n) = Rank(N, o) PROVE n = o
  <2>1. n \in Nat /\ o \in Nat
    BY <1>1
  <2>2. ~(n < o) /\ ~(o < n)
    BY <1>3, <1>5, RankBelow
  <2>3. QED
    BY <2>1, <2>2
<1>6. QED
  BY <1>2, <1>3, <1>4, <1>5

\* Mark numbers the rows N.
LEMMA MarkEntries ==
  ASSUME NEW r \in Row, NEW N \in SUBSET Names, NEW v \in Nat, NEW s \in Nat
  PROVE  /\ Mark(r, N, v, s) \in Row
         /\ \A n \in Names \ N : Mark(r, N, v, s).at[n] = r.at[n]
         /\ \A n \in N : /\ Mark(r, N, v, s).at[n].ver = v
                        /\ Mark(r, N, v, s).at[n].seq = s + Rank(N, n)
<1> DEFINE f == [n \in Names |-> IF n \in N THEN [ver |-> v, seq |-> s + Rank(N, n), own |-> TRUE]
                                 ELSE r.at[n]]
<1>1. /\ Mark(r, N, v, s) \in Row
      /\ \A n \in Names \ N : Mark(r, N, v, s).at[n] = r.at[n]
  BY MarkRow
<1>2. Mark(r, N, v, s) = [r EXCEPT !.at = f]
  BY DEF Mark, Row
<1>3. \A n \in N : f[n].ver = v /\ f[n].seq = s + Rank(N, n)
  OBVIOUS
<1> HIDE DEF f
<1>4. Mark(r, N, v, s).at = f
  BY <1>2 DEF Row
<1>5. QED
  BY <1>1, <1>3, <1>4

\* DropCols forgets the columns and keeps the sentinel.
LEMMA DropEntries ==
  ASSUME NEW r \in Row
  PROVE  /\ DropCols(r) \in Row
         /\ \A n \in Names : DropCols(r).at[n] = IF n = Rip THEN r.at[n] ELSE NoEntry
<1> DEFINE f == [n \in Names |-> IF n = Rip THEN r.at[n] ELSE NoEntry]
<1>1. DropCols(r) \in Row
  BY DropColsRow
<1>2. DropCols(r) = [r EXCEPT !.at = f]
  BY DEF DropCols, Row
<1>3. \A n \in Names : f[n] = IF n = Rip THEN r.at[n] ELSE NoEntry
  OBVIOUS
<1> HIDE DEF f
<1>4. QED
  BY <1>1, <1>2, <1>3 DEF Row

\* SetWinner writes one row, as another site's.
LEMMA WinnerEntries ==
  ASSUME NEW r \in Row, NEW k \in Names, NEW v \in Nat, NEW s \in Nat
  PROVE  /\ SetWinner(r, {k}, v, s) \in Row
         /\ \A n \in Names \ {k} : SetWinner(r, {k}, v, s).at[n] = r.at[n]
         /\ SetWinner(r, {k}, v, s).at[k].own = FALSE
<1> DEFINE f == [n \in Names |-> IF n \in {k} THEN [ver |-> v, seq |-> s, own |-> FALSE] ELSE r.at[n]]
<1>1. f \in [Names -> Entry]
  BY DEF Row, Entry
<1>2. SetWinner(r, {k}, v, s) = [r EXCEPT !.at = f]
  BY DEF SetWinner, Row
<1>3. f[k].own = FALSE /\ \A n \in Names \ {k} : f[n] = r.at[n]
  OBVIOUS
<1> HIDE DEF f
<1>4. QED
  BY <1>1, <1>2, <1>3 DEF Row

\* So a statement that marks the rows N numbers them.
LEMMA MarkNumbered ==
  ASSUME NEW r \in Row, NEW N \in SUBSET Names, NEW v \in Nat, NEW s \in Nat
  PROVE  Numbered(Mark(r, N, v, s), r, v, s, Cardinality(N))
<1> DEFINE q == Mark(r, N, v, s)
<1>1. /\ q \in Row
      /\ \A n \in Names \ N : q.at[n] = r.at[n]
      /\ \A n \in N : q.at[n].ver = v /\ q.at[n].seq = s + Rank(N, n)
  BY MarkEntries
<1>2. /\ Cardinality(N) \in Nat
      /\ \A n \in N : Rank(N, n) \in Nat /\ Rank(N, n) < Cardinality(N)
      /\ \A n, o \in N : Rank(N, n) = Rank(N, o) => n = o
  BY RankOwn
<1> HIDE DEF q
<1>3. ASSUME NEW n \in N
      PROVE  q.at[n].ver = v /\ s <= q.at[n].seq /\ q.at[n].seq < s + Cardinality(N)
  BY <1>1, <1>2
<1>4. ASSUME NEW n \in N, NEW o \in N, q.at[n].seq = q.at[o].seq
      PROVE  n = o
  <2>1. s + Rank(N, n) = s + Rank(N, o)
    BY <1>1, <1>4
  <2>2. Rank(N, n) = Rank(N, o)
    BY <1>2, <2>1
  <2>3. QED
    BY <1>2, <2>2
<1>5. Numbered(q, r, v, s, Cardinality(N))
  BY <1>1, <1>3, <1>4 DEF Numbered
<1>6. QED
  BY <1>5 DEF q

\* Live touches no metadata.
LEMMA LiveNumbered ==
  ASSUME NEW q, NEW r, NEW v, NEW s, NEW k, NEW b \in BOOLEAN, Numbered(q, r, v, s, k)
  PROVE  Numbered(Live(q, b), r, v, s, k)
BY LiveRow DEF Numbered

\* A statement that numbers one row keeps the stamps unique, as the version it drew is above
\* those committed and its seqs are above those taken before in the transaction.
LEMMA NumberedStep ==
  ASSUME StampInv, NEW c \in Conns, NEW p \in Pks,
         NEW g \in Nat \cup {NotSet}, NEW y \in Drawn(c, work, g), NEW k \in Nat, NEW q,
         Numbered(q, work[p], y.pend, y.seq, k),
         Write(c, y, k, [work EXCEPT ![p] = q])
  PROVE  /\ Unique(meta') /\ Unique(work') /\ Unique(mark')
         /\ SeqBelow(work, c)' /\ SeqBelow(mark, c)'
<1> DEFINE m == [work EXCEPT ![p] = q]
<1>1. writer = c /\ writer # NoConn /\ View(c) = work
  BY ConnsAssumption DEF Write, View
<1>2. /\ y \in Context /\ y.cache \in Nat /\ y.pend \in Nat /\ AtMost(meta, y.cache)
      /\ y.pend > y.cache /\ y.seq = ctx[c].seq
  <2>1. IInv
    BY DEF StampInv
  <2>2. QED
    BY <1>1, <2>1, DrawnVersion
<1>3. y.seq \in Nat
  BY <1>2 DEF Context
<1>4. /\ work \in [Pks -> Row] /\ mark \in [Pks -> Row] /\ meta \in [Pks -> Row]
      /\ ctx \in [Conns -> Context]
  BY DEF StampInv, IInv, TypeOK
<1>5. meta' = meta /\ mark' = mark /\ work' = m /\ ctx'[c].seq = y.seq + k
  BY <1>2, <1>4 DEF Write, Context
<1>6. q \in Row /\ m[p] = q /\ \A o \in Pks \ {p} : m[o] = work[o]
  BY <1>4 DEF Numbered
<1> HIDE DEF m
<1>7. \A w \in Row, n \in Names : w.at[n].ver \in Int /\ w.at[n].seq \in Int
  BY DEF Row, Entry, None
<1>8. ASSUME NEW a \in Pks, NEW n \in Names
      PROVE  \/ m[a].at[n] = work[a].at[n]
             \/ ~m[a].at[n].own
             \/ /\ a = p /\ q.at[n] # work[p].at[n] /\ m[a].at[n] = q.at[n]
                /\ q.at[n].ver = y.pend /\ y.seq <= q.at[n].seq /\ q.at[n].seq < y.seq + k
  BY <1>6 DEF Numbered
<1>9. SeqBelow(work, c) /\ SeqBelow(mark, c)
  BY <1>1 DEF StampInv
<1>10. ASSUME NEW a \in Pks, NEW n \in Names, work[a].at[n].own, work[a].at[n].ver = y.pend
       PROVE  work[a].at[n].seq < y.seq
  <2>1. CASE work[a].at[n] = meta[a].at[n]
    BY <1>2, <1>4, <1>7, <1>10, <2>1 DEF AtMost
  <2>2. CASE work[a].at[n] # meta[a].at[n]
    BY <1>2, <1>9, <1>10, <2>2 DEF SeqBelow
  <2>3. QED
    BY <2>1, <2>2
<1>11. Unique(m)
  <2>1. SUFFICES ASSUME NEW a \in Pks, NEW b \in Pks, NEW n \in Names, NEW o \in Names,
                        m[a].at[n].own, m[b].at[o].own,
                        m[a].at[n].ver = m[b].at[o].ver, m[a].at[n].seq = m[b].at[o].seq
                 PROVE  a = b /\ n = o
    BY DEF Unique
  <2>2. CASE m[a].at[n] = work[a].at[n] /\ m[b].at[o] = work[b].at[o]
    BY <2>1, <2>2 DEF StampInv, Unique
  <2>3. CASE m[a].at[n] = work[a].at[n] /\ m[b].at[o] # work[b].at[o]
    <3>1. m[b].at[o].ver = y.pend /\ y.seq <= m[b].at[o].seq
      BY <1>8, <2>1, <2>3
    <3>2. work[a].at[n].seq < y.seq
      BY <1>10, <2>1, <2>3, <3>1
    <3>3. work[a].at[n].seq \in Int
      BY <1>4, <1>7
    <3>4. QED
      BY <1>3, <2>1, <2>3, <3>1, <3>2, <3>3
  <2>4. CASE m[a].at[n] # work[a].at[n] /\ m[b].at[o] = work[b].at[o]
    <3>1. m[a].at[n].ver = y.pend /\ y.seq <= m[a].at[n].seq
      BY <1>8, <2>1, <2>4
    <3>2. work[b].at[o].seq < y.seq
      BY <1>10, <2>1, <2>4, <3>1
    <3>3. work[b].at[o].seq \in Int
      BY <1>4, <1>7
    <3>4. QED
      BY <1>3, <2>1, <2>4, <3>1, <3>2, <3>3
  <2>5. CASE m[a].at[n] # work[a].at[n] /\ m[b].at[o] # work[b].at[o]
    <3>1. /\ a = p /\ q.at[n] # work[p].at[n] /\ m[a].at[n] = q.at[n]
          /\ b = p /\ q.at[o] # work[p].at[o] /\ m[b].at[o] = q.at[o]
      BY <1>8, <2>1, <2>5
    <3>2. QED
      BY <2>1, <3>1 DEF Numbered
  <2>6. QED
    BY <2>2, <2>3, <2>4, <2>5
<1>12. SeqBelow(work, c)'
  <2>1. SUFFICES ASSUME NEW a \in Pks, NEW n \in Names, m[a].at[n] # meta[a].at[n], m[a].at[n].own
                 PROVE  m[a].at[n].seq < y.seq + k
    BY <1>5 DEF SeqBelow
  <2>2. CASE m[a].at[n] = work[a].at[n]
    <3>1. m[a].at[n].seq < y.seq /\ m[a].at[n].seq \in Int
      BY <1>2, <1>4, <1>7, <1>9, <2>1, <2>2 DEF SeqBelow
    <3>2. QED
      BY <1>3, <3>1
  <2>3. CASE m[a].at[n] # work[a].at[n]
    BY <1>8, <2>1, <2>3
  <2>4. QED
    BY <2>2, <2>3
<1>13. SeqBelow(mark, c)'
  <2>1. SUFFICES ASSUME NEW a \in Pks, NEW n \in Names,
                        mark[a].at[n] # meta[a].at[n], mark[a].at[n].own
                 PROVE  mark[a].at[n].seq < y.seq + k
    BY <1>5 DEF SeqBelow
  <2>2. mark[a].at[n].seq < y.seq /\ mark[a].at[n].seq \in Int
    BY <1>2, <1>4, <1>7, <1>9, <2>1 DEF SeqBelow
  <2>3. QED
    BY <1>3, <2>2
<1>14. QED
  BY <1>5, <1>11, <1>12, <1>13 DEF StampInv

\* INSERT: the sentinel first, if there is one, then the columns.
LEMMA InsertStamps ==
  ASSUME StampInv, NEW c \in Conns, NEW p \in Pks, Insert(c, p)
  PROVE  Unique(meta') /\ Unique(work') /\ Unique(mark') /\ SeqBelow(work, c)' /\ SeqBelow(mark, c)'
<1> DEFINE old == work[p]
           known == IF PkExists(old) THEN 1 ELSE 0
<1>1. PICK y \in Drawn(c, work, NotSet) :
        LET r1 == IF Has(old, Rip) THEN Mark(old, {Rip}, y.pend, y.seq) ELSE old
            r2 == Mark(r1, Cols, y.pend, y.seq + known)
        IN  Write(c, y, known + Cardinality(Cols), [work EXCEPT ![p] = Live(r2, TRUE)])
  BY DEF Insert
<1>2. y.pend \in Nat /\ y.seq \in Nat /\ work \in [Pks -> Row]
  BY <1>1, StatementStarts DEF Write, StampInv
<1>3. old \in Row /\ {Rip} \in SUBSET Names /\ Cols \in SUBSET Names /\ Rip \notin Cols
  BY <1>2, ColsAssumption DEF Names, Rip
<1>4. PICK v \in Nat, s \in Nat, h \in {0, 1}, t \in Nat :
        v = y.pend /\ s = y.seq /\ h = known /\ t = s + h
  BY <1>2
<1> DEFINE mid == IF Has(old, Rip) THEN Mark(old, {Rip}, v, s) ELSE old
           full == Mark(mid, Cols, v, t)
           new == Live(full, TRUE)
<1>5. h + Cardinality(Cols) \in Nat /\ Cardinality(Cols) \in Nat
  BY CardType
<1>6. Write(c, y, h + Cardinality(Cols), [work EXCEPT ![p] = new])
  BY <1>1, <1>4
<1>7. Has(old, Rip) => h = 1
  BY <1>3, <1>4 DEF PkExists
<1>8. /\ mid \in Row
      /\ \A n \in Cols : mid.at[n] = old.at[n]
      /\ \/ mid.at[Rip] = old.at[Rip]
         \/ mid.at[Rip].ver = v /\ mid.at[Rip].seq = s /\ h = 1
  <2>1. CASE Has(old, Rip)
    <3> HIDE DEF old
    <3>1. Numbered(Mark(old, {Rip}, v, s), old, v, s, Cardinality({Rip}))
      BY <1>3, MarkNumbered
    <3>2. Cardinality({Rip}) = 1
      BY FS_Singleton
    <3>3. /\ Mark(old, {Rip}, v, s) \in Row
          /\ \A n \in Names \ {Rip} : Mark(old, {Rip}, v, s).at[n] = old.at[n]
          /\ Mark(old, {Rip}, v, s).at[Rip].ver = v
          /\ Mark(old, {Rip}, v, s).at[Rip].seq = s + Rank({Rip}, Rip)
      BY <1>3, MarkEntries
    <3>4. Rank({Rip}, Rip) = 0
      BY <1>3, <3>2, RankOwn
    <3>5. s + Rank({Rip}, Rip) = s
      BY <3>4
    <3>6. \A n \in Cols : n \in Names \ {Rip}
      BY <1>3
    <3>7. mid = Mark(old, {Rip}, v, s)
      BY <2>1
    <3> HIDE DEF mid
    <3>8. QED
      BY <1>7, <2>1, <3>3, <3>5, <3>6, <3>7
  <2>2. CASE ~Has(old, Rip)
    BY <1>3, <2>2
  <2>3. QED
    BY <2>1, <2>2
<1> HIDE DEF mid, old
<1>9. Numbered(full, mid, v, t, Cardinality(Cols))
  BY <1>3, <1>8, MarkNumbered
<1>10. \A n \in Names \ Cols : full.at[n] = mid.at[n]
  BY <1>3, <1>8, MarkRow
<1> HIDE DEF full
<1>11. Names = Cols \cup {Rip}
  BY DEF Names
<1>12. Numbered(full, old, v, s, h + Cardinality(Cols))
  <2>1. /\ full \in Row
        /\ \A n \in Cols : \/ full.at[n] = old.at[n]
                           \/ ~full.at[n].own
                           \/ /\ full.at[n].ver = v
                              /\ t <= full.at[n].seq
                              /\ full.at[n].seq < t + Cardinality(Cols)
        /\ \A n, o \in Cols :
             (/\ full.at[n] # old.at[n] /\ full.at[n].own
              /\ full.at[o] # old.at[o] /\ full.at[o].own
              /\ full.at[n].seq = full.at[o].seq) => n = o
    BY <1>8, <1>9, <1>11 DEF Numbered
  <2>2. \/ full.at[Rip] = old.at[Rip]
        \/ full.at[Rip].ver = v /\ full.at[Rip].seq = s /\ h = 1
    BY <1>3, <1>8, <1>10, <1>11
  <2>3. \A n \in Cols : full.at[n].seq \in Int
    BY <1>11, <2>1 DEF Row, Entry, None
  <2>4. \A n \in Names : \/ full.at[n] = old.at[n]
                         \/ ~full.at[n].own
                         \/ /\ full.at[n].ver = v
                            /\ s <= full.at[n].seq
                            /\ full.at[n].seq < s + (h + Cardinality(Cols))
    BY <1>4, <1>5, <1>11, <2>1, <2>2, <2>3
  <2>5. ASSUME NEW n \in Cols, full.at[n] # old.at[n], full.at[n].own,
               full.at[Rip] # old.at[Rip]
        PROVE  full.at[n].seq # full.at[Rip].seq
    BY <1>4, <2>1, <2>2, <2>3, <2>5
  <2>6. QED
    BY <1>11, <2>1, <2>4, <2>5 DEF Numbered
<1>13. Numbered(new, old, v, s, h + Cardinality(Cols))
  BY <1>12, LiveNumbered
<1> HIDE DEF new, known
<1>14. QED
  BY <1>4, <1>5, <1>6, <1>13, NumberedStep DEF old

\* UPDATE of columns.
LEMMA UpdateStamps ==
  ASSUME StampInv, NEW c \in Conns, NEW p \in Pks, NEW C \in SUBSET Cols, Update(c, p, C)
  PROVE  Unique(meta') /\ Unique(work') /\ Unique(mark') /\ SeqBelow(work, c)' /\ SeqBelow(mark, c)'
<1>1. PICK y \in Drawn(c, work, NotSet) :
        Write(c, y, Cardinality(C), [work EXCEPT ![p] = Mark(work[p], C, y.pend, y.seq)])
  BY DEF Update
<1> DEFINE q == Mark(work[p], C, y.pend, y.seq)
<1>2. y.pend \in Nat /\ y.seq \in Nat /\ work \in [Pks -> Row]
  BY <1>1, StatementStarts DEF Write, StampInv
<1>3. work[p] \in Row /\ C \subseteq Names
  BY <1>2 DEF Names
<1>4. Numbered(q, work[p], y.pend, y.seq, Cardinality(C))
  BY <1>2, <1>3, MarkNumbered
<1>5. Cardinality(C) \in Nat
  BY CardType
<1>6. Write(c, y, Cardinality(C), [work EXCEPT ![p] = q])
  BY <1>1
<1> HIDE DEF q
<1>7. QED
  BY <1>4, <1>5, <1>6, NumberedStep

\* DELETE: the sentinel takes one seq, the columns go.
LEMMA DeleteStamps ==
  ASSUME StampInv, NEW c \in Conns, NEW p \in Pks, Delete(c, p)
  PROVE  Unique(meta') /\ Unique(work') /\ Unique(mark') /\ SeqBelow(work, c)' /\ SeqBelow(mark, c)'
<1>1. PICK y \in Drawn(c, work, NotSet) :
        Write(c, y, 1, [work EXCEPT
          ![p] = Live(DropCols(Mark(work[p], {Rip}, y.pend, y.seq)), FALSE)])
  BY DEF Delete
<1> DEFINE a == Mark(work[p], {Rip}, y.pend, y.seq)
           b == DropCols(a)
           q == Live(b, FALSE)
<1>2. y.pend \in Nat /\ y.seq \in Nat /\ work \in [Pks -> Row]
  BY <1>1, StatementStarts DEF Write, StampInv
<1>3. work[p] \in Row /\ {Rip} \in SUBSET Names
  BY <1>2 DEF Names
<1>4. Cardinality({Rip}) = 1
  BY FS_Singleton
<1>5. Numbered(a, work[p], y.pend, y.seq, 1)
  BY <1>2, <1>3, <1>4, MarkNumbered
<1>6. Write(c, y, 1, [work EXCEPT ![p] = q])
  BY <1>1
<1> HIDE DEF a
<1>7. b \in Row /\ \A n \in Names : b.at[n] = IF n = Rip THEN a.at[n] ELSE NoEntry
  BY <1>5, DropEntries DEF Numbered
<1> HIDE DEF b
<1>8. Numbered(b, work[p], y.pend, y.seq, 1)
  <2>1. NoEntry.own = FALSE
    BY DEF NoEntry
  <2>2. QED
    BY <1>5, <1>7, <2>1 DEF Numbered
<1>9. Numbered(q, work[p], y.pend, y.seq, 1)
  BY <1>8, LiveNumbered
<1> HIDE DEF q
<1>10. QED
  BY <1>6, <1>9, NumberedStep

\* A received change that wins writes rows of other sites only, and takes no seq.
LEMMA WinnerStamps ==
  ASSUME StampInv, NEW c \in Conns, ReceiveWinner(c)
  PROVE  Unique(meta') /\ Unique(work') /\ Unique(mark') /\ SeqBelow(work, c)' /\ SeqBelow(mark, c)'
<1>1. ASSUME NEW r \in Row, NEW n \in Names, NEW v \in Nat, NEW t \in Nat, NEW s
      PROVE  Numbered(SetWinner(r, {n}, v, t), r, v, s, 0)
  <2> DEFINE q == SetWinner(r, {n}, v, t)
  <2>1. /\ q \in Row
        /\ \A o \in Names \ {n} : q.at[o] = r.at[o]
        /\ q.at[n].own = FALSE
    BY WinnerEntries
  <2> HIDE DEF q
  <2>2. Numbered(q, r, v, s, 0)
    BY <2>1 DEF Numbered
  <2>3. QED
    BY <2>2 DEF q
<1>2. ASSUME NEW p \in Pks, NEW s \in Stamps, NEW n \in Cols, MergeCol(c, p, n, s)
      PROVE  Unique(meta') /\ Unique(work') /\ Unique(mark') /\ SeqBelow(work, c)' /\ SeqBelow(mark, c)'
  <2>1. PICK y \in Drawn(c, work, s[1]) :
          Write(c, y, 0, [work EXCEPT ![p] = Live(SetWinner(work[p], {n}, y.pend, s[2]), TRUE)])
    BY <1>2 DEF MergeCol
  <2> DEFINE q == Live(SetWinner(work[p], {n}, y.pend, s[2]), TRUE)
  <2>2. s[1] \in Nat \cup {NotSet} /\ s[2] \in Nat
    BY StampType
  <2>3. y.pend \in Nat /\ work[p] \in Row
    BY <2>1, <2>2, StatementStarts DEF Write, StampInv
  <2>4. n \in Names
    BY DEF Names
  <2>5. Numbered(SetWinner(work[p], {n}, y.pend, s[2]), work[p], y.pend, y.seq, 0)
    BY <1>1, <2>2, <2>3, <2>4
  <2>6. Numbered(q, work[p], y.pend, y.seq, 0)
    BY <2>5, LiveNumbered
  <2>7. Write(c, y, 0, [work EXCEPT ![p] = q])
    BY <2>1
  <2> HIDE DEF q
  <2>8. QED
    BY <2>2, <2>6, <2>7, NumberedStep
<1>3. ASSUME NEW p \in Pks, NEW s \in Stamps, MergeDelete(c, p, s)
      PROVE  Unique(meta') /\ Unique(work') /\ Unique(mark') /\ SeqBelow(work, c)' /\ SeqBelow(mark, c)'
  <2>1. PICK y \in Drawn(c, work, s[1]) :
          Write(c, y, 0, [work EXCEPT
            ![p] = Live(DropCols(SetWinner(work[p], {Rip}, y.pend, s[2])), FALSE)])
    BY <1>3 DEF MergeDelete
  <2> DEFINE a == SetWinner(work[p], {Rip}, y.pend, s[2])
             b == DropCols(a)
             q == Live(b, FALSE)
  <2>2. s[1] \in Nat \cup {NotSet} /\ s[2] \in Nat
    BY StampType
  <2>3. y.pend \in Nat /\ work[p] \in Row
    BY <2>1, <2>2, StatementStarts DEF Write, StampInv
  <2>4. Rip \in Names
    BY DEF Names
  <2>5. Numbered(a, work[p], y.pend, y.seq, 0)
    BY <1>1, <2>2, <2>3, <2>4
  <2>6. Write(c, y, 0, [work EXCEPT ![p] = q])
    BY <2>1
  <2> HIDE DEF a
  <2>7. b \in Row /\ \A n \in Names : b.at[n] = IF n = Rip THEN a.at[n] ELSE NoEntry
    BY <2>5, DropEntries DEF Numbered
  <2> HIDE DEF b
  <2>8. Numbered(b, work[p], y.pend, y.seq, 0)
    <3>1. NoEntry.own = FALSE
      BY DEF NoEntry
    <3>2. QED
      BY <2>5, <2>7, <3>1 DEF Numbered
  <2>9. Numbered(q, work[p], y.pend, y.seq, 0)
    BY <2>8, LiveNumbered
  <2> HIDE DEF q
  <2>10. QED
    BY <2>2, <2>6, <2>9, NumberedStep
<1>4. QED
  BY <1>2, <1>3 DEF ReceiveWinner

\* A step without re-keying and without a life from elsewhere keeps the stamps unique.
LEMMA StampStep ==
  ASSUME StampInv, [StampNext]_vars
  PROVE  StampInv'
<1>1. IInv'
  BY StepInv DEF StampInv, StampNext, CarefulNext, Receive
<1>2. ASSUME NEW c \in Conns, WriteRow(c) \/ ReceiveWinner(c)
      PROVE  StampInv'
  <2>1. Unique(meta') /\ Unique(work') /\ Unique(mark') /\ SeqBelow(work, c)' /\ SeqBelow(mark, c)'
    BY <1>2, InsertStamps, UpdateStamps, DeleteStamps, WinnerStamps DEF WriteRow
  <2>2. writer' = c
    <3>1. ASSUME NEW y, NEW n, NEW m, Write(c, y, n, m) PROVE writer' = c
      BY <3>1 DEF Write
    <3>2. ASSUME NEW p, Insert(c, p) PROVE writer' = c
      BY <3>1, <3>2, Zenon DEF Insert
    <3>3. ASSUME NEW p, NEW C, Update(c, p, C) PROVE writer' = c
      BY <3>1, <3>3, Zenon DEF Update
    <3>4. ASSUME NEW p, Delete(c, p) PROVE writer' = c
      BY <3>1, <3>4, Zenon DEF Delete
    <3>5. ASSUME NEW p, NEW n, NEW s, MergeCol(c, p, n, s) PROVE writer' = c
      BY <3>1, <3>5, Zenon DEF MergeCol
    <3>6. ASSUME NEW p, NEW s, MergeDelete(c, p, s) PROVE writer' = c
      BY <3>1, <3>6, Zenon DEF MergeDelete
    <3>7. QED
      BY <1>2, <3>2, <3>3, <3>4, <3>5, <3>6 DEF WriteRow, ReceiveWinner
  <2>3. QED
    BY <1>1, <2>1, <2>2 DEF StampInv, Unique, SeqBelow
<1>3. ASSUME NEW c \in Conns, Call(c)
      PROVE  StampInv'
  <2>1. PICK x \in UpToDate(c, View(c)) \cup Drawn(c, View(c), NotSet) : ctx' = [ctx EXCEPT ![c] = x]
    BY <1>3 DEF Call, GetVersion, GetNextVersion, Learn
  <2>2. x.seq = ctx[c].seq
    BY <2>1, UpToDateCache, DrawnVersion DEF StampInv
  <2>3. \A d \in Conns : ctx'[d].seq = ctx[d].seq
    BY <2>1, <2>2 DEF StampInv, IInv, TypeOK
  <2>4. UNCHANGED <<meta, writer, work, mark>>
    BY <1>3 DEF Call, GetVersion, GetNextVersion, Learn
  <2>5. writer # NoConn => writer \in Conns
    BY DEF StampInv, IInv, TypeOK
  <2>6. QED
    BY <1>1, <2>3, <2>4, <2>5 DEF StampInv, Unique, SeqBelow
<1>4. ASSUME NEW c \in Conns, Begin(c)
      PROVE  StampInv'
  BY <1>1, <1>4 DEF StampInv, IInv, Begin, Unique, SeqBelow
<1>5. ASSUME NEW c \in Conns, Savepoint(c) \/ RollbackTo(c)
      PROVE  StampInv'
  <2>1. writer = c /\ writer # NoConn /\ UNCHANGED <<meta, writer, ctx>>
    BY <1>5, ConnsAssumption DEF Savepoint, RollbackTo
  <2>2. work' \in {work, mark} /\ mark' \in {work, mark}
    BY <1>5 DEF Savepoint, RollbackTo
  <2>3. ASSUME NEW m, m = work \/ m = mark
        PROVE  Unique(m) /\ SeqBelow(m, c)
    BY <2>1, <2>3 DEF StampInv
  <2>4. SeqBelow(work, c)' /\ SeqBelow(mark, c)'
    BY <2>1, <2>2, <2>3 DEF SeqBelow
  <2>5. Unique(meta') /\ Unique(work') /\ Unique(mark')
    BY <2>1, <2>2, <2>3 DEF StampInv
  <2>6. QED
    BY <1>1, <2>1, <2>4, <2>5 DEF StampInv, Unique
<1>6. ASSUME NEW c \in Conns, Finish(c) \/ Rollback(c)
      PROVE  StampInv'
  <2>1. writer' = NoConn /\ meta' \in {meta, work} /\ work' = meta' /\ mark' = meta'
    BY <1>6 DEF Finish, Commit, CommitFails, Rollback, End
  <2>2. Unique(meta')
    BY <2>1 DEF StampInv
  <2>3. Unique(work') /\ Unique(mark')
    BY <2>1, <2>2
  <2>4. QED
    BY <1>1, <2>1, <2>2, <2>3 DEF StampInv, Unique
<1>7. ASSUME NEW c \in Conns, Reopen(c)
      PROVE  StampInv'
  <2>1. CASE writer = c
    BY <1>1, <1>7, <2>1 DEF StampInv, Reopen, Unique
  <2>2. CASE writer # c
    <3>1. UNCHANGED <<meta, writer, work, mark>> /\ \A d \in Conns \ {c} : ctx'[d] = ctx[d]
      BY <1>7, <2>2 DEF Reopen, StampInv, IInv, TypeOK
    <3>2. writer # NoConn => writer \in Conns \ {c}
      BY <2>2 DEF StampInv, IInv, TypeOK
    <3>3. QED
      BY <1>1, <3>1, <3>2 DEF StampInv, Unique, SeqBelow
  <2>3. QED
    BY <2>1, <2>2
<1>8. CASE UNCHANGED vars
  BY <1>1, <1>8 DEF vars, StampInv, Unique, SeqBelow
<1>9. QED
  BY <1>2, <1>3, <1>4, <1>5, <1>6, <1>7, <1>8 DEF StampNext, Abandon

\* It holds in the beginning.
LEMMA StampInit == Init => StampInv
<1> SUFFICES ASSUME Init PROVE StampInv
  OBVIOUS
<1>1. \A p \in Pks, n \in Names : meta[p].at[n].own = FALSE
  BY DEF Init, Absent, NoEntry
<1>2. QED
  BY <1>1, InitInv DEF Init, StampInv, Unique

\* As long as no key is changed and no received change brings a row to life, (db_version, seq)
\* tells the changes this site made apart, through savepoints, failed commits, restarts and
\* the received changes that win: cloudsync_changes gives each a rowid of its own.
THEOREM OwnStampsStayUnique == StampSpec => []OwnStampsUnique
<1>1. StampInv => OwnStampsUnique
  BY DEF StampInv, Unique, OwnStampsUnique
<1>2. QED
  BY <1>1, StampInit, StampStep, PTL DEF StampSpec

\* What the specification of the run keeps.
PlainInv == plain => StampInv

\* The same in the specification of the run, whatever its bounds: as long as no key was
\* changed and no received change brought a row to life.
THEOREM PlainStampsUnique == ClockSpec => []StampsUnique
<1>1. MCInit => PlainInv
  BY StampInit DEF MCInit, PlainInv
<1>2. ASSUME [ClockNext]_mcvars PROVE plain' => plain /\ [StampNext]_vars
  <2>1. CASE UNCHANGED mcvars
    BY <2>1 DEF mcvars
  <2>2. CASE ClockNext
    BY <2>2 DEF ClockNext, MCBegin, MCWrite, Free, StampNext
  <2>3. QED
    BY <1>2, <2>1, <2>2
<1>3. PlainInv /\ [ClockNext]_mcvars => PlainInv'
  BY <1>2, StampStep DEF PlainInv
<1>4. PlainInv => StampsUnique
  BY DEF PlainInv, StampsUnique, StampInv, Unique, OwnStampsUnique
<1>5. QED
  BY <1>1, <1>3, <1>4, PTL DEF ClockSpec
=============================================================================
