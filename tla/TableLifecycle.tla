---------------------------- MODULE TableLifecycle -----------------------------
(***************************************************************************)
(* The life of one augmented table: cloudsync_init, cloudsync_enable,      *)
(* cloudsync_begin_alter, cloudsync_commit_alter, cloudsync_cleanup and    *)
(* cloudsync_terminate (src/src/cloudsync.c, src/src/dbutils.c).           *)
(*                                                                         *)
(* What makes a table augmented is spread over the file (triggers, the     *)
(* metadata table, settings, the newest known schema hash) and over each   *)
(* connection's cloudsync_context (the columns it compiled statements for, *)
(* its schema hash).  A transaction, a savepoint or a crash undoes the     *)
(* first and leaves the second, or loses it; another connection changes    *)
(* the first and cannot touch the second.                                  *)
(*                                                                         *)
(* Which entries the metadata of a row has is kept here, with the parity   *)
(* of its sentinel; versions and values are in CloudSyncMerge.             *)
(***************************************************************************)
EXTENDS Integers, Sequences, FiniteSets

CONSTANTS
  Conns,   \* connections to the file
  NoConn,  \* nobody
  Pks,     \* encoded primary keys
  Cols,    \* names of columns outside the primary key
  Unfit,   \* those dbutils_table_sanity_check rejects: NOT NULL, no DEFAULT
  Keys,    \* primary keys the table may have, as sequences of column names
  SiteIds  \* UUIDs for cloudsync_site_id

ASSUME NoConnAssumption == NoConn \notin Conns
NoSite == 0

ASSUME SiteIdsAssumption == SiteIds # {} /\ NoSite \notin SiteIds
ASSUME KeysAssumption   == Keys # {} /\ Keys \subseteq Seq(STRING) \ {<<>>}

VARIABLES
  file,      \* what is committed
  work,      \* what the transaction in progress sees; file if there is none
  holder,    \* the connection of that transaction, or NoConn
  explicit,  \* the application began it, not SAVEPOINT cloudsync_alter
  save,      \* work at SAVEPOINT cloudsync_alter: at most one element
  mem        \* mem[c]: c's cloudsync_context, as far as this table goes

vars == <<file, work, holder, explicit, save, mem>>

Mark  == [rip : {"none", "alive", "dead"}, cols : SUBSET Cols]
Blank == [rip |-> "none", cols |-> {}]

\* LOWER(sql) of the table, which is what the schema hash is taken of.
Schema   == [cols : SUBSET Cols, key : Keys]
NoSchema == [cols |-> {}, key |-> <<>>]
SchemaOf(f) == [cols |-> f.cols, key |-> f.key]

File == [cols : SUBSET Cols, key : Keys, rows : SUBSET Pks,
         site : SiteIds \cup {NoSite},       \* in cloudsync_site_id; NoSite: no settings tables
         algo : BOOLEAN,                     \* cloudsync_table_settings has the table
         trig : BOOLEAN, has : BOOLEAN,      \* its triggers, its metadata table
         marks : [Pks -> Mark],
         newest : Schema \cup {NoSchema},    \* of cloudsync_schema_versions
         \* History: rows written without a trigger that recorded it; metadata
         \* tables dropped; connections whose init has not recorded the hash.
         loose : SUBSET Pks, drops : Nat, behind : SUBSET Conns]

Table == [in : BOOLEAN, cols : SUBSET Cols, npks : Nat, on : BOOLEAN, begun : Keys \cup {<<>>}]
NoTable == [in |-> FALSE, cols |-> {}, npks |-> 0, on |-> FALSE, begun |-> <<>>]

Context == [site : SiteIds \cup {NoSite}, tab : Table, hash : Schema \cup {NoSchema},
            pc : {"idle", "hash", "triggers", "settings", "site"}, all : BOOLEAN]
NoContext == [site |-> NoSite, tab |-> NoTable, hash |-> NoSchema, pc |-> "idle", all |-> FALSE]

Dead(f, p) == f.marks[p].rip = "dead"

(***************************************************************************)
(* Transactions.  Outside of one every statement commits on its own, those *)
(* that a cloudsync function runs included.                                *)
(***************************************************************************)
View(c)     == IF holder = c THEN work ELSE file
CanWrite(c) == holder \in {c, NoConn}
Idle(c)     == mem[c].pc = "idle"

Write(c, f) ==
  /\ work' = f
  /\ file' = IF holder = c THEN file ELSE f
  /\ UNCHANGED <<holder, explicit, save>>

Remember(c, m) == mem' = [mem EXCEPT ![c] = m]

(***************************************************************************)
(* Metadata.                                                               *)
(***************************************************************************)
\* cloudsync_insert
InsertMark(m, cols) ==
  [rip  |-> IF cols = {} \/ m.rip # "none" THEN "alive" ELSE "none",
   cols |-> m.cols \cup cols]

\* cloudsync_delete: local_mark_delete_meta adds one to an existing sentinel.
DeleteMark(m) == [rip |-> IF m.rip = "dead" THEN "alive" ELSE "dead", cols |-> {}]

BrokenRefillMark(m, cols) == IF m = Blank THEN InsertMark(m, cols) ELSE m
\* cloudsync_refill_metatable, for a row that exists.
RefillMark(m, cols) ==
  IF m = Blank THEN InsertMark(m, cols) ELSE [m EXCEPT !.cols = @ \cup cols]

Drop(f) == [f EXCEPT !.has = FALSE, !.marks = [p \in Pks |-> Blank], !.drops = @ + 1]

\* The loop compares the header of sqlite3_get_table's result, and the names
\* but the last.
KeyDiffers(old, npks, new) ==
  Len(new) # npks \/ \E i \in 1..(npks - 1) : old[i] # new[i]

BrokenCompact(f) ==
  [f EXCEPT !.marks = [p \in Pks |->
     IF p \in f.rows THEN [f.marks[p] EXCEPT !.cols = @ \cap f.cols] ELSE Blank]]
\* Without a new key, cloudsync_finalize_alter deletes the entries of columns
\* and rows that are gone, tombstones excepted.
Compact(f) ==
  [f EXCEPT !.marks = [p \in Pks |->
                 IF p \in f.rows THEN [f.marks[p] EXCEPT !.cols = @ \cap f.cols]
                 ELSE IF Dead(f, p) THEN [f.marks[p] EXCEPT !.cols = {}] ELSE Blank],
            !.loose = @ \cap f.rows]

FinalizeAlter(f, t) == IF KeyDiffers(t.begun, t.npks, f.key) THEN Drop(f) ELSE Compact(f)

SitesInUse == {f.site : f \in save \cup {file, work}} \cup {mem[c].site : c \in Conns}

\* A UUIDv7 that nobody has; an instance with too few does not tell them apart.
NewSite == CHOOSE id \in SiteIds : SiteIds \subseteq SitesInUse \/ id \notin SitesInUse

\* dbutils_settings_init
Installed(f) == IF f.site = NoSite THEN [f EXCEPT !.site = NewSite] ELSE f

\* What cloudsync_init_internal leaves, with the columns the context has:
\* missing triggers and metadata table are created, then metadata is refilled.
Augment(c, f, cols) ==
  [f EXCEPT !.algo = TRUE, !.trig = TRUE, !.has = TRUE, !.behind = @ \cup {c},
            !.marks = [p \in Pks |-> IF p \in f.rows THEN RefillMark(@[p], cols) ELSE @[p]],
            !.loose = IF f.has THEN {p \in @ : p \in f.rows => Dead(f, p)} ELSE {}]

Fit(f) == f.cols \cap Unfit = {}

(***************************************************************************)
(* The context of a connection.                                            *)
(***************************************************************************)
\* table_add_to_context for a table it does not have.
TableOf(f) ==
  [in |-> TRUE, cols |-> f.cols, npks |-> Len(f.key), on |-> TRUE, begun |-> <<>>]

\* cloudsync_context_init with dbutils_settings_load.  A site id in memory stays
\* (cloudsync_load_siteid).  Without the metadata table the statements of the
\* table do not compile and it is left out.
Loaded(m, f) ==
  IF m.site # NoSite /\ f.site # NoSite THEN m
  ELSE [m EXCEPT !.site = IF @ = NoSite THEN Installed(f).site ELSE @,
                 !.hash = f.newest,
                 !.tab = IF ~@.in /\ f.algo /\ f.has THEN TableOf(f) ELSE @]

\* sqlite3_cloudsync_init on a new connection.
Opened(f) == IF f.site # NoSite THEN Loaded(NoContext, f) ELSE NoContext

Init ==
  \E cols \in SUBSET (Cols \ Unfit), key \in Keys, rows \in SUBSET Pks :
    /\ file = [cols |-> cols, key |-> key, rows |-> rows,
               site |-> NoSite, algo |-> FALSE, trig |-> FALSE, has |-> FALSE,
               marks |-> [p \in Pks |-> Blank], newest |-> NoSchema,
               loose |-> {}, drops |-> 0, behind |-> {}]
    /\ work = file /\ holder = NoConn /\ explicit = FALSE /\ save = {}
    /\ mem = [c \in Conns |-> NoContext]

(***************************************************************************)
(* cloudsync_ functions.                                                   *)
(***************************************************************************)
\* Any function that starts with cloudsync_context_init and then does nothing,
\* or fails.
Load(c) ==
  /\ Idle(c)
  /\ Remember(c, Loaded(mem[c], View(c)))
  /\ IF View(c).site # NoSite THEN UNCHANGED <<file, work, holder, explicit, save>>
     ELSE CanWrite(c) /\ Write(c, Installed(View(c)))

\* cloudsync_init, under its savepoint.  A table in the context stays as it is.
CloudsyncInit(c) ==
  LET f == View(c)
      m == Loaded(mem[c], f)
      t == IF m.tab.in THEN m.tab ELSE TableOf(f)
  IN  /\ Idle(c) /\ CanWrite(c) /\ Fit(f)
      /\ Write(c, Augment(c, Installed(f), t.cols))
      /\ Remember(c, [m EXCEPT !.tab = t, !.pc = "hash"])

\* An algorithm that does not exist, or is not the table's: the savepoint is
\* rolled back, with whatever cloudsync_context_init wrote.
InitFails(c) ==
  /\ Idle(c) /\ CanWrite(c)
  /\ Remember(c, Loaded(mem[c], View(c)))
  /\ UNCHANGED <<file, work, holder, explicit, save>>

BrokenUpdateHash(c) ==
  /\ mem[c].pc = "hash"
  /\ LET f == View(c)
     IN  IF f.algo /\ f.newest = NoSchema /\ CanWrite(c)
         THEN /\ Write(c, [f EXCEPT !.newest = SchemaOf(f), !.behind = @ \ {c}])
              /\ Remember(c, [mem[c] EXCEPT !.hash = SchemaOf(f), !.pc = "idle"])
         ELSE /\ IF CanWrite(c) THEN Write(c, [f EXCEPT !.behind = @ \ {c}])
                 ELSE UNCHANGED <<file, work, holder, explicit, save>>
              /\ Remember(c, [mem[c] EXCEPT !.pc = "idle"])
\* dbutils_update_schema_hash, after the savepoint is released.  No table in
\* the settings, or the hash in memory: nothing to do.  Its failure is ignored.
UpdateHash(c) ==
  LET f == View(c)
      same == ~f.algo \/ mem[c].hash = SchemaOf(f)
  IN  /\ mem[c].pc = "hash"
      /\ \/ /\ CanWrite(c)
            /\ Write(c, [f EXCEPT !.newest = IF same THEN @ ELSE SchemaOf(f), !.behind = @ \ {c}])
            /\ Remember(c, [mem[c] EXCEPT !.hash = IF same THEN @ ELSE SchemaOf(f), !.pc = "idle"])
         \/ /\ ~CanWrite(c)
            /\ Remember(c, [mem[c] EXCEPT !.pc = "idle"])
            /\ UNCHANGED <<file, work, holder, explicit, save>>

\* cloudsync_enable and cloudsync_disable: nothing is stored.
EnableDisable(c) ==
  /\ Idle(c) /\ mem[c].tab.in
  /\ Remember(c, [mem[c] EXCEPT !.tab.on = ~@])
  /\ UNCHANGED <<file, work, holder, explicit, save>>

\* cloudsync_terminate
Terminate(c) ==
  /\ Idle(c)
  /\ Remember(c, [mem[c] EXCEPT !.tab = NoTable, !.site = NoSite])
  /\ UNCHANGED <<file, work, holder, explicit, save>>

\* cloudsync_begin_alter.  The application has one alteration open at a time.
BeginAlter(c) ==
  LET f == View(c)
      m == Loaded(mem[c], f)
  IN  /\ Idle(c) /\ CanWrite(c) /\ save = {}
      /\ f.site # NoSite /\ m.tab.in /\ m.tab.npks = Len(f.key)
      /\ save' = {f}
      /\ work' = [f EXCEPT !.trig = FALSE]
      /\ holder' = c
      /\ Remember(c, [m EXCEPT !.tab.begun = f.key])
      /\ UNCHANGED <<file, explicit>>

\* The application's DDL between the two: it adds or drops a column, or
\* rebuilds the table, once, with another key, which makes other keys of its
\* rows.
Altering(c) == Idle(c) /\ holder = c /\ save # {}

AlterColumns(c) ==
  /\ Altering(c)
  /\ \E n \in Cols :
       work' = [work EXCEPT !.cols = IF n \in @ THEN @ \ {n} ELSE @ \cup {n}]
  /\ UNCHANGED <<file, holder, explicit, save, mem>>

Rebuild(c) ==
  /\ Altering(c) /\ \A s \in save : s.key = work.key
  /\ \E key \in Keys \ {work.key}, rows \in SUBSET Pks :
       /\ Cardinality(rows) = Cardinality(work.rows)
       /\ work' = [work EXCEPT !.key = key, !.rows = rows]
  /\ UNCHANGED <<file, holder, explicit, save, mem>>

BrokenRelease(f) ==
  /\ work' = f
  /\ IF explicit THEN UNCHANGED <<file, holder>> ELSE file' = f /\ holder' = NoConn
  /\ UNCHANGED <<explicit, save>>
\* The end of cloudsync_alter: it is the transaction, or a part of one.
Release(f) ==
  /\ save' = {}
  /\ work' = f
  /\ IF explicit THEN UNCHANGED <<file, holder>> ELSE file' = f /\ holder' = NoConn
  /\ UNCHANGED explicit

\* cloudsync_commit_alter.  The table's old context is removed, so that
\* cloudsync_init_internal makes another.  Without the savepoint, which the
\* application's ROLLBACK has removed, RELEASE fails when the rest is done.
CommitAlter(c) ==
  LET f == View(c)
      m == Loaded(mem[c], f)
      g == FinalizeAlter(Installed(f), m.tab)
      t == TableOf(f)
  IN  /\ Idle(c) /\ CanWrite(c) /\ m.tab.in /\ m.tab.begun # <<>>
      /\ \/ /\ save # {} /\ Fit(f)
            /\ Release(Augment(c, g, t.cols))
            /\ Remember(c, [m EXCEPT !.tab = t, !.pc = "hash"])
         \/ /\ save # {} /\ ~Fit(f)
            /\ \E s \in save : Release(s)
            /\ Remember(c, [m EXCEPT !.tab = NoTable])
         \/ /\ save = {} /\ Fit(f)
            /\ Write(c, Augment(c, g, t.cols))
            /\ Remember(c, [m EXCEPT !.tab = t])

\* cloudsync_cleanup, one statement after the other.  It does nothing for a
\* table that is not in the context; '*' then drops the settings tables.
Cleanup(c) ==
  LET f == View(c)
      m == Loaded(mem[c], f)
  IN  /\ Idle(c) /\ CanWrite(c) /\ f.site # NoSite
      /\ IF m.tab.in THEN Write(c, Drop(f)) ELSE UNCHANGED <<file, work, holder, explicit, save>>
      /\ \E all \in BOOLEAN :
           Remember(c, [m EXCEPT !.tab = NoTable, !.all = all,
                                 !.pc = IF m.tab.in THEN "triggers" ELSE IF all THEN "site" ELSE "hash"])

\* DROP TABLE finds the file locked: the table has left the context by then.
CleanupFails(c) ==
  /\ Idle(c) /\ ~CanWrite(c) /\ file.site # NoSite
  /\ Remember(c, [Loaded(mem[c], file) EXCEPT !.tab = NoTable])
  /\ UNCHANGED <<file, work, holder, explicit, save>>

\* The later statements; a failure of one does not stop those after it.
CleanupStep(c) ==
  LET f  == View(c)
      pc == mem[c].pc
      g  == CASE pc = "triggers" -> [f EXCEPT !.trig = FALSE]
              [] pc = "settings" -> [f EXCEPT !.algo = FALSE]
              [] pc = "site"     -> [f EXCEPT !.site = NoSite, !.algo = FALSE, !.newest = NoSchema]
              [] OTHER           -> f
      next == CASE pc = "triggers" -> "settings"
                [] pc = "settings" /\ mem[c].all -> "site"
                [] pc = "settings" /\ ~mem[c].all -> "hash"
                [] OTHER -> "idle"
  IN  /\ pc \in {"triggers", "settings", "site"}
      /\ IF CanWrite(c) THEN Write(c, g) ELSE UNCHANGED <<file, work, holder, explicit, save>>
      /\ Remember(c, [mem[c] EXCEPT !.pc = next, !.all = @ /\ next = "site",
                                    !.site = IF pc = "site" THEN NoSite ELSE @])

\* cloudsync_network_logout of a table in the settings: under one savepoint
\* cloudsync_cleanup('*'), DELETE of all rows, cloudsync_init.  A failure, of this
\* table or of a later one, undoes it in the file and not in the context.
Logout(c) ==
  LET f == View(c)
      m == Loaded(mem[c], f)
      d == IF m.tab.in THEN [Drop(f) EXCEPT !.trig = FALSE] ELSE f
      e == [d EXCEPT !.rows = {}, !.loose = @ \cup f.rows, !.site = NoSite, !.newest = NoSchema]
      g == [Augment(c, Installed(e), f.cols) EXCEPT !.newest = SchemaOf(f), !.behind = @ \ {c}]
      n == [NoContext EXCEPT !.site = g.site, !.tab = TableOf(f), !.hash = g.newest]
      deleted == Fit(f) /\ (d.trig => f.rows = {})
  IN  /\ Idle(c) /\ CanWrite(c) /\ save = {} /\ f.site # NoSite /\ f.algo
      /\ \/ deleted /\ Write(c, g) /\ Remember(c, n)
         \/ /\ mem' \in {[mem EXCEPT ![c] = x] : x \in {NoContext} \cup IF deleted THEN {n} ELSE {}}
            /\ UNCHANGED <<file, work, holder, explicit, save>>

(***************************************************************************)
(* The application's own statements.                                       *)
(***************************************************************************)
\* WHEN cloudsync_is_sync(table) = 0.  A trigger that fires without a table in
\* the context or without metadata fails the statement.
Tracks(c)   == View(c).trig /\ mem[c].tab.in /\ mem[c].tab.on /\ View(c).has
Untracks(c) == ~View(c).trig \/ (mem[c].tab.in /\ ~mem[c].tab.on)

Tracked(c, p, rows, m) ==
  Tracks(c) /\ Write(c, [View(c) EXCEPT !.rows = rows, !.marks[p] = m])
Untracked(c, p, rows) ==
  Untracks(c) /\ Write(c, [View(c) EXCEPT !.rows = rows, !.loose = @ \cup {p}])

Insert(c, p) ==
  LET f == View(c) rows == f.rows \cup {p}
  IN  /\ Idle(c) /\ CanWrite(c) /\ p \notin f.rows
      /\ Tracked(c, p, rows, InsertMark(f.marks[p], mem[c].tab.cols)) \/ Untracked(c, p, rows)
      /\ UNCHANGED mem

Delete(c, p) ==
  LET f == View(c) rows == f.rows \ {p}
  IN  /\ Idle(c) /\ CanWrite(c) /\ p \in f.rows
      /\ Tracked(c, p, rows, DeleteMark(f.marks[p])) \/ Untracked(c, p, rows)
      /\ UNCHANGED mem

\* cloudsync_update of one column; of a row that has its entries it adds none.
Update(c, p) ==
  LET f == View(c)
  IN  /\ Idle(c) /\ CanWrite(c) /\ p \in f.rows
      /\ \E n \in mem[c].tab.cols \cap f.cols :
           Tracked(c, p, f.rows, [f.marks[p] EXCEPT !.cols = @ \cup {n}])
      /\ UNCHANGED mem

Begin(c) ==
  /\ Idle(c) /\ holder = NoConn
  /\ holder' = c /\ explicit' = TRUE
  /\ UNCHANGED <<file, work, save, mem>>

\* The application ends an alteration before it commits.
Commit(c) ==
  /\ Idle(c) /\ holder = c /\ explicit /\ save = {}
  /\ file' = work /\ holder' = NoConn /\ explicit' = FALSE
  /\ UNCHANGED <<work, save, mem>>

Undo == work' = file /\ holder' = NoConn /\ explicit' = FALSE /\ save' = {} /\ UNCHANGED file

Rollback(c) == Idle(c) /\ holder = c /\ Undo /\ UNCHANGED mem

\* The connection is closed, or its process dies, at any point; and opened.
Reopen(c) ==
  /\ IF holder = c THEN Undo ELSE UNCHANGED <<file, work, holder, explicit, save>>
  /\ Remember(c, Opened(file))

Ddl(c)    == AlterColumns(c) \/ Rebuild(c)
Clean(c)  == Cleanup(c) \/ CleanupFails(c)
Finish(c) == UpdateHash(c) \/ CleanupStep(c)

(***************************************************************************)
(* Connections used with care: one whose context is older or newer than    *)
(* the schema is opened again before it initialises, writes or alters.     *)
(***************************************************************************)
Fresh(c) ==
  LET f == View(c) m == mem[c]
  IN  /\ m.tab.in => m.tab.cols = f.cols /\ m.tab.npks = Len(f.key)
      /\ m.hash \in {NoSchema, f.newest}

Administers(c) == CloudsyncInit(c) \/ BeginAlter(c) \/ Clean(c) \/ Logout(c)
Writes(c)      == \E p \in Pks : Insert(c, p) \/ Delete(c, p) \/ Update(c, p)

CarefulNext == \E c \in Conns :
  \/ Fresh(c) /\ Administers(c)
  \/ (Fresh(c) \/ save # {}) /\ Writes(c)
  \/ Load(c) \/ InitFails(c) \/ EnableDisable(c) \/ Terminate(c)
  \/ Ddl(c) \/ CommitAlter(c) \/ Finish(c)
  \/ Begin(c) \/ Commit(c) \/ Rollback(c) \/ Reopen(c)

CarefulSpec == Init /\ [][CarefulNext]_vars

(***************************************************************************)
(* Properties.                                                             *)
(***************************************************************************)
TypeOK ==
  /\ file \in File /\ work \in File
  /\ holder \in Conns \cup {NoConn} /\ explicit \in BOOLEAN
  /\ save \subseteq File
  /\ mem \in [Conns -> Context]
  /\ holder = NoConn => work = file /\ save = {} /\ ~explicit

\* The metadata of an augmented table says of every row what the table holds:
\* of one that exists each column's entry and no tombstone, of one that does not
\* no entry of a column and no sentinel that says it lives.  Rows written while
\* the table was disabled or had no triggers are excepted until an init or an
\* alteration repairs them; so whatever is written with triggers, on either side
\* of alterations, rollbacks and crashes, is recorded whole.
MetaMatchesRows ==
  file.has /\ file.trig => \A p \in Pks \ file.loose :
    LET m == file.marks[p]
    IN  IF p \in file.rows THEN m # Blank /\ m.rip # "dead" /\ m.cols = file.cols
        ELSE m.rip # "alive" /\ m.cols = {}

\* After each completed init or alteration the newest hash of
\* cloudsync_schema_versions is that of the table as it is: what a connection
\* announces in its payloads, and accepts from others (dbutils_check_schema_hash).
SchemaCurrent == file.algo /\ file.behind = {} => file.newest = SchemaOf(file)

\* A connection goes by the site id of its file: what it sends is the changes
\* WHERE site_id = cloudsync_siteid().
OwnSite ==
  \A c \in Conns :
    mem[c].site # NoSite /\ View(c).site # NoSite => mem[c].site = View(c).site

\* No statement forgets a deletion without the whole metadata table: an alteration
\* of columns, or another init, keeps the tombstone ("preserve tombstone").  What a
\* rollback undoes is excepted, and a table rebuilt with another key until
\* cloudsync_commit_alter sees it.
TombstonesKept ==
  [][\A p \in Pks :
       /\ Dead(work, p) /\ p \notin work.loose \cup work'.loose
       /\ work'.drops = work.drops
       /\ \A s \in save : s.key = work.key
       => Dead(work', p) \/ p \in work'.rows \/ work' \in save \cup {file}]_vars
=============================================================================
