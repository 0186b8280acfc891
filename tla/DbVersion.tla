------------------------------- MODULE DbVersion -------------------------------
(***************************************************************************)
(* The clock of a database: db_version and seq (src/src/cloudsync.c).      *)
(*                                                                         *)
(* Every metadata row records the db_version and seq of the transaction    *)
(* that last wrote it.  A site sends the rows above a cursor, so a         *)
(* transaction must get a version above all those committed before it.     *)
(* The file does not store the version: each connection caches the maximum *)
(* over the metadata in its cloudsync_context, looks again when PRAGMA     *)
(* data_version tells of another connection's commit, and moves the cache  *)
(* on in SQLite's commit hook.                                             *)
(*                                                                         *)
(* Several connections, of any processes, share the file of one site.      *)
(* SQLite lets one of them write at a time.  Which metadata rows a merge   *)
(* writes is decided in module CloudSyncMerge; here any case may apply.    *)
(***************************************************************************)
EXTENDS Integers, FiniteSets

CONSTANTS
  Conns,    \* connections
  NoConn,   \* nobody
  Pks,      \* primary keys
  Cols,     \* columns outside the primary key, by their cid, from 1
  Stamps    \* the (db_version, seq) pairs of changes made elsewhere

Rip    == 0   \* CLOUDSYNC_TOMBSTONE_VALUE, the sentinel's col_name
None   == -1  \* db_version and seq of a metadata row that does not exist
NotSet == -1  \* CLOUDSYNC_VALUE_NOTSET

Names == Cols \cup {Rip}

ASSUME ConnsAssumption  == NoConn \notin Conns
ASSUME ColsAssumption   == IsFiniteSet(Cols) /\ Cols # {} /\ Cols \subseteq Nat \ {0}
ASSUME StampsAssumption == Stamps \subseteq Nat \X Nat

VARIABLES
  meta,     \* the committed <table>_cloudsync
  writer,   \* the connection with the write lock, or NoConn
  work,     \* meta as the writer sees it
  mark,     \* work at the writer's last savepoint
  ctx,      \* ctx[c]: c's cloudsync_context
  stale,    \* stale[c]: PRAGMA data_version differs from the one c last read
  floor     \* pre_alter_dbversion in cloudsync_settings, committed

vars == <<meta, writer, work, mark, ctx, stale, floor>>

(***************************************************************************)
(* The metadata of one table, and what its statements write.               *)
(***************************************************************************)
Entry == [ver : Nat \cup {None}, seq : Nat \cup {None}, own : BOOLEAN]

NoEntry == [ver |-> None, seq |-> None, own |-> FALSE]

Row == [live : BOOLEAN, at : [Names -> Entry]]

Absent == [live |-> FALSE, at |-> [n \in Names |-> NoEntry]]

Context == [cache : Nat \cup {NotSet}, pend : Nat \cup {NotSet}, seq : Nat]

Has(r, n) == r.at[n].ver # None

PkExists(r) == \E n \in Names : Has(r, n)

\* Statements of one trigger take consecutive seqs, columns in cid order.
Rank(N, n) == Cardinality({o \in N : o < n})

\* meta_row_insert_update_stmt and the sentinel statements, for the rows N.
Mark(r, N, ver, seq) ==
  [r EXCEPT !.at = [n \in Names |->
     IF n \in N THEN [ver |-> ver, seq |-> seq + Rank(N, n), own |-> TRUE] ELSE @[n]]]

\* meta_update_move_stmt: cloudsync_seq() is registered as deterministic, so
\* SQLite calls it once for the whole statement.
MoveCols(old, new, ver, seq) ==
  [new EXCEPT !.at = [n \in Names |->
     IF n \in Cols /\ Has(old, n) THEN [ver |-> ver, seq |-> seq, own |-> TRUE] ELSE @[n]]]

\* meta_row_drop_stmt, meta_merge_delete_drop
DropCols(r) ==
  [r EXCEPT !.at = [n \in Names |-> IF n = Rip THEN @[n] ELSE NoEntry]]

\* meta_zero_clock_stmt: the rows get a new db_version and keep their seq.
ZeroClock(r, ver) ==
  [r EXCEPT !.at = [n \in Names |->
     IF n # Rip /\ Has(r, n) THEN [@[n] EXCEPT !.ver = ver] ELSE @[n]]]

\* meta_winner_clock_stmt: the seq of the change is kept.
SetWinner(r, N, ver, seq) ==
  [r EXCEPT !.at = [n \in Names |->
     IF n \in N THEN [ver |-> ver, seq |-> seq, own |-> FALSE] ELSE @[n]]]

Live(r, alive) == [r EXCEPT !.live = alive]

(***************************************************************************)
(* The version of a connection.                                            *)
(***************************************************************************)
Versions(m) == {0} \cup ({m[p].at[n].ver : p \in Pks, n \in Names} \ {None})
Greatest(m) == {v \in Versions(m) : \A w \in Versions(m) : w <= v}

\* What db_version_stmt may return: the maximum, 0 if there is no row.  It is
\* max() over these integers and the setting pre_alter_dbversion, a text, and
\* SQLite orders every text above every integer.
Newest(m) == IF floor = None THEN Greatest(m) ELSE {floor}

\* The definitions named Broken... are plausible bugs in the definition that
\* follows them; the runs must notice each.
BrokenUpToDate(c, m) ==
  IF ctx[c].cache # NotSet /\ ctx[c].cache # 0 THEN {ctx[c]}
  ELSE {[ctx[c] EXCEPT !.cache = v] : v \in Newest(m)}
\* db_version_check_uptodate
UpToDate(c, m) ==
  IF ctx[c].cache # NotSet /\ ~stale[c] THEN {ctx[c]}
  ELSE {[ctx[c] EXCEPT !.cache = v] : v \in Newest(m)}

Larger(a, b) == IF a > b THEN a ELSE b

BrokenFollowing(x, merging) ==
  IF merging = NotSet THEN Larger(x.cache + 1, x.pend) ELSE merging
\* The version db_version_next hands out.
Following(x, merging) == Larger(Larger(x.cache + 1, x.pend), merging)

\* db_version_next
Drawn(c, m, merging) ==
  {[x EXCEPT !.pend = Following(x, merging)] : x \in UpToDate(c, m)}

BrokenCommitHook(x) == [cache |-> x.pend - 1, pend |-> NotSet, seq |-> 0]
\* cloudsync_commit_hook and cloudsync_rollback_hook
CommitHook(x)   == [cache |-> x.pend, pend |-> NotSet, seq |-> 0]
RollbackHook(x) == [x EXCEPT !.pend = NotSet, !.seq = 0]

\* A zeroed cloudsync_context.
Fresh == [cache |-> 0, pend |-> 0, seq |-> 0]

(***************************************************************************)
(* Statements, inside a transaction.                                       *)
(***************************************************************************)
Init ==
  /\ meta = [p \in Pks |-> Absent]
  /\ writer = NoConn
  /\ work = meta /\ mark = meta
  /\ ctx = [c \in Conns |-> Fresh]
  /\ stale = [c \in Conns |-> TRUE]
  /\ floor = None

Begin(c) ==
  /\ writer = NoConn
  /\ writer' = c
  /\ UNCHANGED <<meta, work, mark, ctx, stale, floor>>

\* c has drawn the version y.pend, takes n seqs and leaves the metadata m.
Write(c, y, n, m) ==
  /\ writer = c
  /\ work' = m
  /\ ctx' = [ctx EXCEPT ![c] = [y EXCEPT !.seq = @ + n]]
  /\ stale' = [stale EXCEPT ![c] = FALSE]
  /\ UNCHANGED <<meta, writer, mark, floor>>

BrokenInsert(c, p) ==
  \E y \in Drawn(c, work, NotSet) :
    LET r1 == IF Has(work[p], Rip) THEN Mark(work[p], {Rip}, y.pend, y.seq) ELSE work[p]
    IN  Write(c, y, Cardinality(Cols), [work EXCEPT ![p] = Live(Mark(r1, Cols, y.pend, y.seq), TRUE)])
\* INSERT, or INSERT OR REPLACE of a row that is there: cloudsync_insert.  A
\* seq is taken for the sentinel of a known key even if it has none.
Insert(c, p) ==
  \E y \in Drawn(c, work, NotSet) :
    LET r     == work[p]
        known == IF PkExists(r) THEN 1 ELSE 0
        r1    == IF Has(r, Rip) THEN Mark(r, {Rip}, y.pend, y.seq) ELSE r
        r2    == Mark(r1, Cols, y.pend, y.seq + known)
    IN  Write(c, y, known + Cardinality(Cols), [work EXCEPT ![p] = Live(r2, TRUE)])

\* cloudsync_update of the columns C.
Update(c, p, C) ==
  /\ work[p].live
  /\ \E y \in Drawn(c, work, NotSet) :
       Write(c, y, Cardinality(C), [work EXCEPT ![p] = Mark(@, C, y.pend, y.seq)])

\* cloudsync_delete
Delete(c, p) ==
  /\ work[p].live
  /\ \E y \in Drawn(c, work, NotSet) :
       Write(c, y, 1, [work EXCEPT
         ![p] = Live(DropCols(Mark(@, {Rip}, y.pend, y.seq)), FALSE)])

\* cloudsync_update of the key, from p to q, and of the columns C.
Move(c, p, q, C) ==
  /\ p # q /\ work[p].live /\ ~work[q].live
  /\ \E y \in Drawn(c, work, NotSet) :
       LET moved == MoveCols(work[p], work[q], y.pend, y.seq + 1)
           named == Mark(moved, {Rip}, y.pend, y.seq + 2)
       IN  Write(c, y, 3 + Cardinality(C), [work EXCEPT
             ![p] = Live(DropCols(Mark(@, {Rip}, y.pend, y.seq)), FALSE),
             ![q] = Live(Mark(named, C, y.pend, y.seq + 3), TRUE)])

\* merge_insert_col of a change that wins: the row is there, or unknown.
MergeCol(c, p, n, s) ==
  /\ work[p].live \/ ~PkExists(work[p])
  /\ \E y \in Drawn(c, work, s[1]) :
       Write(c, y, 0, [work EXCEPT
         ![p] = Live(SetWinner(@, {n}, y.pend, s[2]), TRUE)])

\* merge_sentinel_only_insert, then merge_insert_col of the columns N (none
\* for a sentinel).
MergeSentinel(c, p, N, s) ==
  \E y \in Drawn(c, work, s[1]) :
    Write(c, y, 0, [work EXCEPT
      ![p] = Live(SetWinner(ZeroClock(@, y.pend), N \cup {Rip}, y.pend, s[2]), TRUE)])

BrokenMergeDelete(c, p, s) ==
  \E y \in Drawn(c, work, s[1]) :
    Write(c, y, 0, [work EXCEPT
      ![p] = Live([DropCols(@) EXCEPT !.at[Rip] = [ver |-> s[1], seq |-> s[2], own |-> FALSE]], FALSE)])
\* merge_delete: the winner clock first, then the columns' rows go.
MergeDelete(c, p, s) ==
  \E y \in Drawn(c, work, s[1]) :
    Write(c, y, 0, [work EXCEPT
      ![p] = Live(DropCols(SetWinner(@, {Rip}, y.pend, s[2])), FALSE)])

Savepoint(c) ==
  /\ writer = c
  /\ mark' = work
  /\ UNCHANGED <<meta, writer, work, ctx, stale, floor>>

\* ROLLBACK TO, or a statement of the transaction that fails: the rollback
\* hook does not run.
RollbackTo(c) ==
  /\ writer = c
  /\ work' = mark
  /\ UNCHANGED <<meta, writer, mark, ctx, stale, floor>>

(***************************************************************************)
(* SQL functions any connection may call at any time.                      *)
(***************************************************************************)
View(c) == IF writer = c THEN work ELSE meta

Learn(c, X) ==
  /\ \E x \in X : ctx' = [ctx EXCEPT ![c] = x]
  /\ stale' = [stale EXCEPT ![c] = FALSE]
  /\ UNCHANGED <<meta, writer, work, mark, floor>>

\* cloudsync_db_version()
GetVersion(c) == Learn(c, UpToDate(c, View(c)))

\* cloudsync_db_version_next()
GetNextVersion(c) == Learn(c, Drawn(c, View(c), NotSet))

(***************************************************************************)
(* The end of a transaction.                                               *)
(***************************************************************************)
\* The transaction of c ends with metadata m; "wrote" if a page changed.
End(c, m, x, wrote) ==
  /\ writer = c
  /\ writer' = NoConn
  /\ meta' = m /\ work' = m /\ mark' = m
  /\ ctx' = [ctx EXCEPT ![c] = x]
  /\ stale' = [d \in Conns |-> stale[d] \/ (wrote /\ d # c)]

\* A transaction may also write tables that are not synchronised, only them,
\* or nothing.
Commit(c) ==
  \E wrote \in BOOLEAN :
    /\ work # meta => wrote
    /\ End(c, work, CommitHook(ctx[c]), wrote)
    /\ UNCHANGED floor

\* The commit hook runs before the pages are written: if that fails, SQLite
\* rolls back.
CommitFails(c) ==
  End(c, meta, RollbackHook(CommitHook(ctx[c])), FALSE) /\ UNCHANGED floor

Rollback(c) == End(c, meta, RollbackHook(ctx[c]), FALSE) /\ UNCHANGED floor

\* c closes the database, or its process dies, and c opens it again.
Reopen(c) ==
  /\ ctx' = [ctx EXCEPT ![c] = Fresh]
  /\ stale' = [stale EXCEPT ![c] = TRUE]
  /\ writer' = IF writer = c THEN NoConn ELSE writer
  /\ work' = IF writer = c THEN meta ELSE work
  /\ mark' = IF writer = c THEN meta ELSE mark
  /\ UNCHANGED <<meta, floor>>

\* The rows L of a table whose key changed: cloudsync_finalize_alter dropped
\* the metadata, cloudsync_refill_metatable inserts every row, in some order.
Recreated(L, order, ver, seq) ==
  [p \in Pks |-> IF p \notin L THEN Absent
     ELSE Live(Mark(Absent, Cols, ver, seq + Cardinality(Cols) * order[p]), TRUE)]

Orders(L) ==
  {f \in [L -> 0..(Cardinality(L) - 1)] : \A p, q \in L : f[p] = f[q] => p = q}

\* cloudsync_commit_alter after the table was rebuilt with another key, the
\* savepoint of cloudsync_begin_alter being the transaction: the version up to
\* now becomes pre_alter_dbversion, and the metadata starts again above it.
CommitAlter(c) ==
  /\ writer = c /\ work = meta
  /\ \E y \in Drawn(c, work, NotSet), L \in SUBSET Pks : \E order \in Orders(L) :
       /\ meta' = Recreated(L, order, y.pend, y.seq)
       /\ ctx' = [ctx EXCEPT ![c] = CommitHook(y)]
       /\ floor' = y.cache
  /\ work' = meta' /\ mark' = meta'
  /\ writer' = NoConn
  /\ stale' = [d \in Conns |-> d # c]

(***************************************************************************)
(* Next-state relations.                                                   *)
(***************************************************************************)
WriteRow(c) ==
  \E p \in Pks : \/ Insert(c, p)
                 \/ \E C \in SUBSET Cols : Update(c, p, C)
                 \/ Delete(c, p)

WriteKey(c) == \E p, q \in Pks, C \in SUBSET Cols : Move(c, p, q, C)

\* A received change that wins a column or kills the row; one that brings the
\* row to life.
ReceiveWinner(c) ==
  \E p \in Pks, s \in Stamps : \/ \E n \in Cols : MergeCol(c, p, n, s)
                              \/ MergeDelete(c, p, s)

ReceiveLife(c) ==
  \E p \in Pks, s \in Stamps, N \in {{}} \cup {{n} : n \in Cols} : MergeSentinel(c, p, N, s)

Receive(c) == ReceiveWinner(c) \/ ReceiveLife(c)

Call(c) == GetVersion(c) \/ GetNextVersion(c)

Finish(c) == Commit(c) \/ CommitFails(c)

Abandon(c) == RollbackTo(c) \/ Rollback(c) \/ Reopen(c)

Next == \E c \in Conns :
  \/ Begin(c) \/ Savepoint(c)
  \/ WriteRow(c) \/ WriteKey(c) \/ Receive(c)
  \/ Call(c) \/ Finish(c) \/ Abandon(c)

Spec == Init /\ [][Next]_vars

\* The commit hook copies pend to the cache without a look at what is there.
\* It is Ahead if that cannot move the cache back.  A connection that is not
\* has drawn no version since it was opened, or since it called
\* cloudsync_db_version_next() outside a transaction, and has looked at the
\* database in between.
Ahead(c) == ctx[c].pend = NotSet \/ ctx[c].pend > ctx[c].cache

CarefulNext == \E c \in Conns :
  \/ Begin(c) \/ Savepoint(c)
  \/ WriteRow(c) \/ WriteKey(c) \/ Receive(c)
  \/ Call(c) \/ Abandon(c)
  \/ Ahead(c) /\ Finish(c)

CarefulSpec == Init /\ [][CarefulNext]_vars

\* Nobody changes a key or brings a row to life: the statements left write to
\* each entry a seq of its own.
StampNext == \E c \in Conns :
  \/ Begin(c) \/ Savepoint(c)
  \/ WriteRow(c) \/ ReceiveWinner(c)
  \/ Call(c) \/ Abandon(c)
  \/ Ahead(c) /\ Finish(c)

StampSpec == Init /\ [][StampNext]_vars

\* Tables are altered, too.
AlterNext == CarefulNext \/ \E c \in Conns : CommitAlter(c)

AlterSpec == Init /\ [][AlterNext]_vars

(***************************************************************************)
(* Properties.                                                             *)
(***************************************************************************)
TypeOK ==
  /\ meta \in [Pks -> Row] /\ work \in [Pks -> Row] /\ mark \in [Pks -> Row]
  /\ writer \in Conns \cup {NoConn}
  /\ ctx \in [Conns -> Context]
  /\ stale \in [Conns -> BOOLEAN]
  /\ floor \in Nat \cup {None}

AtMost(m, v) == \A p \in Pks, n \in Names : m[p].at[n].ver <= v

\* A cache that db_version_check_uptodate would not look behind is not behind
\* the committed metadata, whatever the other connections committed.
CacheNotBehind ==
  \A c \in Conns : (~stale[c] /\ ctx[c].cache # NotSet) => AtMost(meta, ctx[c].cache)

\* Every metadata row a transaction commits has a db_version above all those
\* committed before, so that no cursor taken earlier hides it ("The
\* db_version is incremented with each transaction", docs/RowID.md:5).
VersionsGrow ==
  [][\A p \in Pks, n \in Names :
       (meta'[p].at[n] # meta[p].at[n] /\ Has(meta'[p], n))
         => \A v \in Versions(meta) : v < meta'[p].at[n].ver]_vars

\* Dropping rows never loses the maximum ("drop clocks _after_ setting the
\* winner clock so we don't lose track of the max db_version!!",
\* cloudsync.c:1199): a connection that reads the version again does not get
\* a smaller one.
MaximumKept ==
  [][\A v \in Versions(meta) : \E w \in Versions(meta') : v <= w]_vars

\* To those who read it with a cursor the metadata is what CommittedVersions
\* promises, whatever connections, savepoints, failed commits and restarts
\* there are.
Published(e) ==
  IF e.ver = None THEN [ver |-> 0, seq |-> 0, own |-> FALSE] ELSE e

Committed == INSTANCE CommittedVersions WITH
  Cells <- Pks \X Names,
  rows  <- [x \in Pks \X Names |-> Published(meta[x[1]].at[x[2]])]

RefinesCommitted == Committed!Spec

\* (db_version, seq) tells the changes this site made apart, which orders
\* them for the receiver and makes the rowid of cloudsync_changes unique
\* (docs/RowID.md:7, cloudsync.c:1873).
OwnStampsUnique ==
  \A p, q \in Pks, n, o \in Names :
    LET e == meta[p].at[n] f == meta[q].at[o]
    IN  (e.own /\ f.own /\ e.ver = f.ver /\ e.seq = f.seq) => <<p, n>> = <<q, o>>
=============================================================================
