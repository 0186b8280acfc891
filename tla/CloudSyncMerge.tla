---------------------------- MODULE CloudSyncMerge ----------------------------
(***************************************************************************)
(* One synchronised table of the default algorithm, the Causal-Length Set, *)
(* replicated on several sites (src/src/cloudsync.c).                      *)
(*                                                                         *)
(* A site keeps, for every primary key, the row of the user's table and    *)
(* the metadata rows of <table>_cloudsync: one per column, and one, named  *)
(* CLOUDSYNC_TOMBSTONE_VALUE, whose col_version is the causal length.  The *)
(* triggers update the metadata when the user writes; a row inserted into  *)
(* the virtual table cloudsync_changes is merged.                          *)
(*                                                                         *)
(* Changes travel one by one, in any order, any number of times, and may   *)
(* be relayed: a site can merge whatever another site has exported or      *)
(* merged.  db_version and seq, which only select and order changes, are   *)
(* the business of module DbVersion.                                       *)
(***************************************************************************)
EXTENDS Integers

CONSTANTS
  Sites,    \* the replicas
  Pks,      \* encoded primary keys
  Cols,     \* the columns outside the primary key (may be empty)
  Values,   \* column values, ordered as dbutils_value_compare orders them
  Rip       \* CLOUDSYNC_TOMBSTONE_VALUE, the col_name of the sentinel

Null == 0   \* SQL NULL, below every other value
None == -1  \* the metadata row does not exist

ASSUME ValuesAssumption == Values \subseteq Nat /\ Null \in Values
ASSUME RipAssumption    == Rip \notin Cols

VARIABLES
  db,       \* db[s][p]: what site s stores about primary key p
  seen      \* seen[s]: the changes s has exported or merged (history)

vars == <<db, seen>>

(***************************************************************************)
(* What a site stores about one primary key.                               *)
(***************************************************************************)
Version == Nat \cup {None}

Row == [live : BOOLEAN,                  \* the user's table has the row
        val  : [Cols -> Values],         \* its values; Null when not live
        rip  : Version,                  \* col_version of the sentinel
        ver  : [Cols -> Version],        \* col_version of the other columns
        own  : SUBSET (Cols \cup {Rip})] \* metadata rows with site_id 0

NullRow == [c \in Cols |-> Null]

Absent == [live |-> FALSE, val |-> NullRow, rip |-> None,
           ver |-> [c \in Cols |-> None], own |-> {}]

Change == [pk : Pks, col : Cols \cup {Rip}, val : Values, ver : Nat,
           cl : Nat, site : Sites]

PkExists(r) == r.rip # None \/ \E c \in Cols : r.ver[c] # None

\* meta_local_cl_stmt: the sentinel, else 1 if there is any metadata, else 0.
LocalCl(r) == IF r.rip # None THEN r.rip ELSE IF PkExists(r) THEN 1 ELSE 0

(***************************************************************************)
(* The statements the triggers run on the metadata.                        *)
(***************************************************************************)
\* The definitions named Broken... are plausible bugs in the definition that
\* follows them; the runs must notice each.
BrokenBump(v, fresh) == fresh
\* meta_row_insert_update_stmt
Bump(v, fresh) == IF v = None THEN fresh ELSE v + 1

\* meta_sentinel_update_stmt, and the conflict clause of
\* meta_sentinel_insert_stmt: the next odd causal length.
NextAlive(v) == IF v % 2 = 0 THEN v + 1 ELSE v + 2

MarkCols(r, C) ==
  [r EXCEPT !.ver = [c \in Cols |-> IF c \in C THEN Bump(@[c], 1) ELSE @[c]],
            !.own = @ \cup C]

BrokenMarkDelete(r) == [r EXCEPT !.rip = Bump(@, 2)]
MarkDelete(r) ==
  [r EXCEPT !.rip = Bump(@, 2), !.own = @ \cup {Rip}]

BrokenDropCols(r) == [r EXCEPT !.ver = [c \in Cols |-> None]]
DropCols(r) ==
  [r EXCEPT !.ver = [c \in Cols |-> None], !.own = @ \cap {Rip}]

BrokenInsertSentinel(r) == IF r.rip = None THEN [r EXCEPT !.rip = 1, !.own = @ \cup {Rip}] ELSE r
InsertSentinel(r) ==
  [r EXCEPT !.rip = IF @ = None THEN 1 ELSE NextAlive(@),
            !.own = @ \cup {Rip}]

\* An UPDATE: without a sentinel row it changes nothing.
UpdateSentinel(r) ==
  IF r.rip = None THEN r
  ELSE [r EXCEPT !.rip = NextAlive(@), !.own = @ \cup {Rip}]

BrokenMoveCols(old, new) ==
  [new EXCEPT !.ver = [c \in Cols |-> IF old.ver[c] # None THEN 1 ELSE @[c]]]
\* meta_update_move_stmt: column rows of the old key overwrite those of the
\* new one, start again at version 1 and become local.
MoveCols(old, new) ==
  LET moved == {c \in Cols : old.ver[c] # None}
  IN  [new EXCEPT !.ver = [c \in Cols |-> IF c \in moved THEN 1 ELSE @[c]],
                  !.own = @ \cup moved]

(***************************************************************************)
(* The trigger functions.                                                  *)
(***************************************************************************)
CloudsyncInsert(r) ==
  MarkCols(IF Cols = {} THEN InsertSentinel(r)
           ELSE IF PkExists(r) THEN UpdateSentinel(r) ELSE r, Cols)

BrokenCloudsyncDelete(r) == MarkDelete(r)
CloudsyncDelete(r) == DropCols(MarkDelete(r))

Changed(v, w) == {c \in Cols : v[c] # w[c]}

Store(r, vals) == [r EXCEPT !.live = TRUE, !.val = vals]
Erase(r)       == [r EXCEPT !.live = FALSE, !.val = NullRow]

(***************************************************************************)
(* Merging one change, cloudsync_merge_insert.                             *)
(***************************************************************************)
\* merge_set_winner_clock for the columns in C
SetOwner(r, s, m, C) == IF m.site = s THEN r.own \cup C ELSE r.own \ C

\* merge_delete, for a sentinel or for a column of a dead row: in both cases
\* the column rows go away, after the winner clock was written.
MergeDelete(r, s, m) ==
  DropCols(Erase(IF m.col = Rip
                 THEN [r EXCEPT !.rip = m.ver, !.own = SetOwner(r, s, m, {Rip})]
                 ELSE r))

BrokenMergeSentinel(r, s, m, cl) ==
  [r EXCEPT !.live = TRUE, !.rip = cl, !.own = SetOwner(r, s, m, {Rip})]
\* merge_sentinel_only_insert: INSERT OR IGNORE the row, zero the clocks of
\* the columns (their site_id stays), write the sentinel.
MergeSentinel(r, s, m, cl) ==
  [r EXCEPT !.live = TRUE,
            !.ver  = [c \in Cols |-> IF @[c] = None THEN None ELSE 0],
            !.rip  = cl,
            !.own  = SetOwner(r, s, m, {Rip})]

\* merge_insert_col
MergeCol(r, s, m) ==
  [r EXCEPT !.live = TRUE, !.val[m.col] = m.val, !.ver[m.col] = m.ver,
            !.own  = SetOwner(r, s, m, {m.col})]

BrokenCidWins(r, m) == r.ver[m.col] = None \/ m.ver >= r.ver[m.col]
BrokenTie(r, m) == r.ver[m.col] = None \/ m.ver > r.ver[m.col]
\* merge_did_cid_win: no local entry, a higher version, or a greater value.
CidWins(r, m) ==
  \/ r.ver[m.col] = None
  \/ m.ver > r.ver[m.col]
  \/ m.ver = r.ver[m.col] /\ (~r.live \/ m.val > r.val[m.col])

BrokenMergeAlive(r, s, m) ==
  LET r1 == IF m.cl > LocalCl(r) /\ LocalCl(r) # 0 THEN MergeSentinel(r, s, m, m.cl) ELSE r
  IN  IF m.cl > LocalCl(r) \/ CidWins(r, m) THEN MergeCol(r1, s, m) ELSE r1
MergeAlive(r, s, m) ==
  LET local     == LocalCl(r)
      resurrect == m.cl > local
      r1        == IF resurrect /\ (local # 0 \/ m.cl > 1)
                   THEN MergeSentinel(r, s, m, m.cl) ELSE r
  IN  IF resurrect \/ CidWins(r, m) THEN MergeCol(r1, s, m) ELSE r1

Merge(r, s, m) ==
  IF m.cl < LocalCl(r) THEN r
  ELSE IF m.cl % 2 = 0 \/ m.col = Rip
       THEN IF m.cl = LocalCl(r) THEN r
            ELSE IF m.cl % 2 = 0 THEN MergeDelete(r, s, m)
                 ELSE MergeSentinel(r, s, m, m.ver)
       ELSE MergeAlive(r, s, m)

(***************************************************************************)
(* What a site's cloudsync_changes shows of its own writes: the metadata   *)
(* rows with site_id 0, with the current value and the current causal      *)
(* length, 1 if there is no sentinel.                                      *)
(***************************************************************************)
ExportedCl(r) == IF r.rip = None THEN 1 ELSE r.rip

ExportRow(s, p, r) ==
  {[pk |-> p, col |-> c,
    val |-> IF c = Rip THEN Null ELSE r.val[c],
    ver |-> IF c = Rip THEN r.rip ELSE r.ver[c],
    cl |-> ExportedCl(r), site |-> s] : c \in r.own}

Export(s, d) == UNION {ExportRow(s, p, d[p]) : p \in Pks}

(***************************************************************************)
(* Actions.  A user's statement, or a merge, runs with its trigger in one  *)
(* transaction of the site; what the site then exports may reach others.   *)
(***************************************************************************)
Init ==
  /\ db = [s \in Sites |-> [p \in Pks |-> Absent]]
  /\ seen = [s \in Sites |-> {}]

Commit(s, d, received) ==
  /\ db' = [db EXCEPT ![s] = d]
  /\ seen' = [seen EXCEPT ![s] = @ \cup received \cup Export(s, d)]

\* INSERT of a new row.
Insert(s, p, vals) ==
  /\ ~db[s][p].live
  /\ Commit(s, [db[s] EXCEPT ![p] = Store(CloudsyncInsert(@), vals)], {})

\* INSERT OR REPLACE of a row that exists: SQLite runs the insert trigger
\* only (recursive triggers are off, so the replaced row fires nothing).
Replace(s, p, vals) ==
  /\ db[s][p].live
  /\ Commit(s, [db[s] EXCEPT ![p] = Store(CloudsyncInsert(@), vals)], {})

\* UPDATE that leaves the primary key alone.
Update(s, p, vals) ==
  /\ db[s][p].live
  /\ Commit(s, [db[s] EXCEPT
         ![p] = Store(MarkCols(@, Changed(vals, @.val)), vals)], {})

\* cloudsync_update when the primary key changed: the old key dies, its
\* column rows move, the new key gets a sentinel, changed columns a bump.
Rekey(s, old, new, vals) ==
  LET o     == db[s][old]
      moved == InsertSentinel(MoveCols(o, db[s][new]))
  IN  Commit(s, [db[s] EXCEPT
         ![old] = Erase(DropCols(MarkDelete(o))),
         ![new] = Store(MarkCols(moved, Changed(vals, o.val)), vals)], {})

\* UPDATE that changes the primary key to one no row has.
MovePk(s, old, new, vals) ==
  /\ old # new /\ db[s][old].live /\ ~db[s][new].live
  /\ Rekey(s, old, new, vals)

\* UPDATE OR REPLACE that changes the primary key to that of another row,
\* which SQLite removes without firing the delete trigger.
MoveOver(s, old, new, vals) ==
  /\ old # new /\ db[s][old].live /\ db[s][new].live
  /\ Rekey(s, old, new, vals)

Delete(s, p) ==
  /\ db[s][p].live
  /\ Commit(s, [db[s] EXCEPT ![p] = Erase(CloudsyncDelete(@))], {})

\* Columns of a live row that no metadata row tells of: their changes have not
\* been received yet.
Missing(r) == {c \in Cols : r.live /\ r.ver[c] = None}

RefillRow(r) == MarkCols(r, Missing(r))

\* cloudsync_init of a table that is initialised, as an application calls it
\* whenever it starts: cloudsync_refill_metatable marks the missing columns
\* of every row as written here.  Rows without any metadata, its other case,
\* come from untracked writes and are the business of TableLifecycle.
Refill(s) ==
  Commit(s, [p \in Pks |-> RefillRow(db[s][p])], {})

\* A change another site knows reaches s and is merged.
Deliver(s, m) ==
  Commit(s, [db[s] EXCEPT ![m.pk] = Merge(@, s, m)], {m})

Known == UNION {seen[s] : s \in Sites}

WriteRow(s) ==
  \E p \in Pks : \/ \E vals \in [Cols -> Values] :
                      Insert(s, p, vals) \/ Replace(s, p, vals) \/ Update(s, p, vals)
                 \/ Delete(s, p)

WriteKey(s) ==
  \E old, new \in Pks, vals \in [Cols -> Values] : MovePk(s, old, new, vals)

OverwriteKey(s) ==
  \E old, new \in Pks, vals \in [Cols -> Values] : MoveOver(s, old, new, vals)

Receive(s) == \E m \in Known : Deliver(s, m)

Next == \E s \in Sites : WriteRow(s) \/ WriteKey(s) \/ Refill(s) \/ Receive(s)

Spec == Init /\ [][Next]_vars

\* Users who never change a primary key; and users who also change one to that
\* of another row.
SameKeyNext == \E s \in Sites : WriteRow(s) \/ Refill(s) \/ Receive(s)
SameKeySpec == Init /\ [][SameKeyNext]_vars

AnyKeyNext == Next \/ \E s \in Sites : OverwriteKey(s)
AnyKeySpec == Init /\ [][AnyKeyNext]_vars

(***************************************************************************)
(* Properties.                                                             *)
(***************************************************************************)
\* Every variable has its type; a change is well formed.
TypeOK ==
  /\ db \in [Sites -> [Pks -> Row]]
  /\ seen \in [Sites -> SUBSET Change]

\* The metadata agrees with the table: a row exists exactly while its causal
\* length is odd, and a dead row keeps nothing but its sentinel, so that the
\* next insert starts again at version 1 (cloudsync_delete, merge_delete and
\* the even/odd arithmetic of the sentinel statements).
Consistent(r) ==
  /\ r.live <=> LocalCl(r) % 2 = 1
  /\ ~r.live => r.val = NullRow /\ \A c \in Cols : r.ver[c] = None

ClockMatchesRow == \A s \in Sites, p \in Pks : Consistent(db[s][p])

\* (col_version, value) of a column, and the order of merge_did_cid_win.
Stamp(r, c) == <<r.ver[c], r.val[c]>>
AtMost(a, b) == a[1] < b[1] \/ (a[1] = b[1] /\ a[2] <= b[2])

\* A site stores the join of the changes it has seen: the greatest causal
\* length, and for each column the greatest (col_version, value) among the
\* changes of that length.  No order of delivery, repetition or relay, no
\* local write in between, may lose a change or keep one that was beaten.
\* Columns at version 0, left over from an earlier life of the row, are
\* outside: they are waiting for the change that sets them.
Bounds(r, m) ==
  /\ m.cl <= LocalCl(r)
  /\ (m.cl = LocalCl(r) /\ m.col # Rip /\ m.ver > 0)
       => AtMost(<<m.ver, m.val>>, Stamp(r, m.col))

Attains(m, r, c) ==
  m.cl = LocalCl(r) /\ m.col = c /\ <<m.ver, m.val>> = Stamp(r, c)

Join(r, S) ==
  /\ \A m \in S : Bounds(r, m)
  /\ LocalCl(r) > 0 => \E m \in S : m.cl = LocalCl(r)
  /\ \A c \in Cols : r.ver[c] > 0 => \E m \in S : Attains(m, r, c)

SeenOf(s, p) == {m \in seen[s] : m.pk = p}

JoinOfSeen == \A s \in Sites, p \in Pks : Join(db[s][p], SeenOf(s, p))

\* Strong eventual consistency: two sites that have seen the same changes
\* agree on which rows exist and on every column some change of the row's
\* present life has set.
Convergence ==
  \A s, t \in Sites : seen[s] = seen[t] =>
    \A p \in Pks :
      LET r == db[s][p] q == db[t][p]
      IN  /\ r.live = q.live /\ LocalCl(r) = LocalCl(q)
          /\ \A c \in Cols : (r.ver[c] > 0 \/ q.ver[c] > 0) => Stamp(r, c) = Stamp(q, c)

\* The part of Convergence that does not look at columns: two sites that have
\* seen the same changes agree on which rows exist and on their causal length,
\* whatever statements made the changes, UPDATE OR REPLACE included.
RowsConverge ==
  \A s, t \in Sites : seen[s] = seen[t] =>
    \A p \in Pks : /\ db[s][p].live = db[t][p].live
                   /\ LocalCl(db[s][p]) = LocalCl(db[t][p])

\* Once every change has reached every site, the user's tables are equal,
\* whatever was zeroed or left at its default on the way ("ensuring eventual
\* consistency across all replicas", README.md:28).
TablesAgree ==
  (\A s \in Sites : seen[s] = Known) =>
    \A s, t \in Sites, p \in Pks :
      db[s][p].live = db[t][p].live /\ db[s][p].val = db[t][p].val

\* Neither a trigger nor a merge moves a clock back: the causal length of a
\* row never decreases, and within one life of the row no column's
\* (col_version, value) does.
NotBehind(q, r) ==
  /\ LocalCl(r) <= LocalCl(q)
  /\ LocalCl(r) = LocalCl(q) =>
       \A c \in Cols : r.ver[c] > 0 => AtMost(Stamp(r, c), Stamp(q, c))

ClockNeverRegresses ==
  [][\A s \in Sites, p \in Pks : NotBehind(db'[s][p], db[s][p])]_vars

(***************************************************************************)
(* The abstract specification.  A column at version 0 waits for the change *)
(* that sets it, so its value does not count.                              *)
(***************************************************************************)
Counted(ver, val) == IF ver > 0 THEN <<ver, val>> ELSE <<0, 0>>

ClockOf(r) == [life |-> LocalCl(r),
               reg  |-> [c \in Cols |-> Counted(r.ver[c], r.val[c])]]

UpdateOf(m) == [key |-> m.pk, life |-> m.cl, cols |-> {m.col} \ {Rip},
                stamp |-> IF m.col = Rip THEN <<0, 0>> ELSE Counted(m.ver, m.val)]

UpdatesOf(S) == {UpdateOf(m) : m \in S}

Lww == INSTANCE LwwMap WITH
  Keys    <- Pks,
  clock   <- [s \in Sites |-> [p \in Pks |-> ClockOf(db[s][p])]],
  known   <- [s \in Sites |-> UpdatesOf(seen[s])]

\* What a merge does to the clocks of a row depends on these clocks and on the
\* change alone, and is the join of both; what a statement does only moves
\* clocks up, and is exported in full; a site exports nothing it does not
\* hold.  Owners, zeroed columns and the paths through cloudsync_merge_insert
\* make no difference.
RefinesLww == Lww!Spec
=============================================================================
