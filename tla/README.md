# A verification of sqlite-sync

sqlite-sync is a SQLite extension that makes tables replicate. Each site keeps
its own database; triggers record what changed; changes travel as rows and are
merged so that all sites end up with the same tables. This directory models
that system in TLA+, checks the models with TLC on small instances and proves
the main results with TLAPS for every instance.

Paths below are relative to the repository; the C code is in its `src/`.

## 1. The system

### Components, state and operations

| component | state | operations | what makes it correct |
|---|---|---|---|
| CLS merge engine, `cloudsync.c`, `vtab.c` | per table `<t>_cloudsync`: for each primary key a metadata row per column (col_version, db_version, site_id, seq) and a sentinel whose col_version is the causal length | `cloudsync_insert/update/delete` run by triggers; `cloudsync_merge_insert` for a change received; `SELECT` on `cloudsync_changes` for changes to send | metadata and table agree; state is a join of the changes seen; replicas converge; clocks never move back |
| Version clock, `cloudsync.c` | `cloudsync_context` of each connection: db_version (cache), pending_db_version, seq, data_version; `pre_alter_dbversion` in the settings | `db_version_next`, `db_version_check_uptodate`, commit and rollback hooks | versions of a transaction are above all committed ones; caches are never behind; (db_version, seq) identifies a change |
| Payload, `cloudsync.c`, `pk.c` | the aggregate's buffer; the receive cursor `check_dbversion`, `check_seq` | encode; decode and apply row by row | rows come out as they went in; the cursor never passes a change that was not tried, and with one connection never moves back |
| Network, `network.c` | the send cursor `send_dbversion`, `send_seq`; cloud service outside | send, check, sync, reset, logout | every change is sent at least once; a crash between two writes loses nothing |
| Table lifecycle, `cloudsync.c`, `dbutils.c` | settings, table settings, schema versions, triggers, metadata table, site id; the table's entry in each connection's context | init, cleanup, enable, disable, begin/commit alter, refill, terminate, logout | what is written with triggers is recorded whole; the newest schema hash is the schema's; deletions are not forgotten |
| Virtual table, `vtab.c` | cursors | select, insert, rowid | a rowid names one change |
| Grow-only set, `cloudsync.c`, `dbutils.c` | as CLS; no row is removed | insert, merge | no element is lost and no value is mixed up |
| Codecs: `pk.c`, `dbutils_value_compare`, rowid, LZ4 framing | none | pure functions | injective, order total, widths suffice |
| Utilities, WebAssembly glue, vendored libraries | none | | not modelled |

### How they interact

A user's statement fires a trigger, which calls a `cloudsync_*` function in the
same transaction. That function draws a db_version from the version clock and
writes metadata rows with it. `cloudsync_changes` shows the metadata joined
with the current column values; the network layer selects the site's own rows
above its send cursor, encodes and uploads them. On the other side a payload
is decoded and each row is inserted into `cloudsync_changes`, which calls the
merge: it compares causal lengths, then column versions, then values, writes
the user's table with triggers muted, and writes metadata rows with the
change's site id and a local db_version. The merge and the trigger functions
share `cloudsync_context`, which the commit and rollback hooks reset. The
lifecycle functions create and drop what the others work on; part of it is in
the file, part in the context, and a rollback or another connection changes
only the first.

### What is hard about it

* Changes of one row are separate messages. They may be reordered, repeated,
  relayed by a third site, or interleaved with local writes of the same row.
* Rows die and come back; the metadata of an earlier life may still be there.
* Primary keys change, and the metadata has to follow the row.
* The db_version is a cache per connection of a maximum that any other
  connection or process may move; hooks run where the code does not see
  whether its transaction succeeded.
* Cursors advance in several separate writes, and payloads row by row, with
  failures that are skipped.
* Structure changes: tables are altered, disabled, re-initialised, inside and
  outside transactions that may be rolled back, by functions of several
  statements.

The hazards, each at its line with the properties that cover it or the reason
none does, are listed in `PROJECT.json` under "hazards".

## 2. The modules

| module | models |
|---|---|
| `LwwMap` | abstract: a replicated map whose entries are joined, life by life |
| `CloudSyncMerge` | one CLS table replicated on several sites: local statements, refill, export, merge; implements `LwwMap` |
| `GrowOnlySet` | the same for the algorithm `gos`; extends `CloudSyncMerge` |
| `MCCloudSyncMerge` | bounded instances of both |
| `CloudSyncMergeProofs` | theorems of `CloudSyncMerge` |
| `GrowOnlySetProofs` | theorems of `GrowOnlySet`, and of the instance `KeySpec` for any bounds |
| `CommittedVersions` | abstract: what the version clock promises to readers |
| `DbVersion` | the version clock of one site's file shared by several connections; implements `CommittedVersions` |
| `MCDbVersion` | its bounded instances |
| `DbVersionProofs` | its theorems, one of them of the instance `ClockSpec` for any bounds |
| `SyncCursor` | reading a cursor from the settings, and comparing changes with it |
| `SyncSend` | sending one site's changes to the cloud; its transactions are those of `CommittedVersions` |
| `MCSyncSend`, `SyncSendProofs` | its bounded instances, its theorems |
| `SyncReceive` | checking for changes, applying payloads row by row, the receive cursor |
| `MCSyncReceive`, `SyncReceiveProofs` | its bounded instances, its theorems |
| `TableLifecycle` | init, alter, cleanup, logout of one table on several connections |
| `MCTableLifecycle`, `TableLifecycleProofs` | its bounded instances, its theorems |
| `PkCodec`, `PkCodecProofs` | the encoding of values, and their order; their theorems |
| `RowId` | the rowid of `cloudsync_changes` |
| `PayloadCodec` | a payload from the aggregate to the decoding loop; extends `PkCodec` and `RowId` |
| `MCPayloadCodec`, `PayloadCodecProofs` | its bounded instance; theorems of it and of `RowId` |

How they are composed. `CloudSyncMerge` decides which change wins and leaves
versions open; `DbVersion` decides versions and leaves open which change wins.
`DbVersion` implements `CommittedVersions`, and `SyncSend`'s `Write` is exactly
`CommittedVersions!Transaction`, so that what `SyncSend` shows of cursors holds
of the versions the clock hands out. `TableLifecycle` keeps which metadata
entries a row has and leaves versions and values to the other two.
`PayloadCodec` uses `PkCodec` for each row, and `RowId` for the order of the
rows.

### CloudSyncMerge

`db[s][p]` is what site `s` stores about key `p`: whether the user's row is
there (`live`), its values, the sentinel's col_version (`rip`), the columns'
col_versions (`ver`), and which metadata rows have site_id 0 (`own`).
`seen[s]` is history: the changes `s` has exported or merged.

| action | code |
|---|---|
| `Insert`, `Replace` | INSERT trigger, `cloudsync_insert`; with OR REPLACE of an existing row only this trigger fires, as recursive triggers are off |
| `Update` | `cloudsync_update`, columns only |
| `MovePk` | `cloudsync_update` with a changed key: delete mark and drop at the old key, `meta_update_move_stmt`, sentinel at the new key, changed columns |
| `MoveOver` | the same through UPDATE OR REPLACE onto a live row, which SQLite removes silently |
| `Delete` | `cloudsync_delete` |
| `Refill` | `cloudsync_init` of a table that is initialised: `cloudsync_refill_metatable` marks the columns a live row has no metadata for |
| `Deliver` | INSERT into `cloudsync_changes`, `cloudsync_merge_insert` with the functions it calls |

`Export` is what `cloudsync_changes` shows of the site's own metadata rows;
after each action it is added to `seen`. That is every state of the metadata a
sender could upload between two transactions; a sender that uploads less often
sees a subset. `Receive` then takes any change known anywhere, so that loss is
a change never taken, duplication one taken twice, relay one taken from a site
that merged it. db_version and seq play no part in a merge's decision and are
left to `DbVersion`.

Three next-state relations: `Next` re-keys to free keys, `SameKeyNext` changes no
key, and `AnyKeyNext` has UPDATE OR REPLACE onto a live row, too.

Data is abstract: keys and columns are model values, values are numbers in the
order of `dbutils_value_compare` with NULL least, other column types and
constraints on the user's table are not modelled (a merge's write to the table
always succeeds). All columns of a new row default to NULL.

`LwwMap` says the same without statements: a key has a life and, per column, a
stamp; an update of one column in one life is absorbed by a join. The mapping
reads the life off the sentinel or its absence and counts a column at version 0
as not set. A `Deliver` is a `Receive` (it absorbs exactly its change, whichever
path `cloudsync_merge_insert` takes); every other action is a `Write` (clocks
only go up, and what is exported is what the site holds and all that it moved).

`GrowOnlySet` keeps the variables and the insert trigger. `GosMerge` is
`merge_insert_col` alone: `cloudsync_merge_insert_gos` compares nothing.
UPDATE and DELETE are aborted by triggers and so are no actions; a received
sentinel has no column and fails.

### DbVersion

`meta` is the committed metadata, `work` what the connection that holds the
write lock sees, `mark` its last savepoint; `ctx[c]` is the part of
`cloudsync_context` that matters (`cache` is db_version, `pend` is
pending_db_version); `stale[c]` says that PRAGMA data_version would tell `c`
of a change; `floor` is pre_alter_dbversion. Each statement draws a version
(`Drawn`, i.e. `db_version_next`) and writes the metadata rows of the trigger
or merge function it stands for, with their seqs. Which change wins a merge is
left open: any case may apply.

`Begin`, `Savepoint`, `RollbackTo`, `End` and `View` model SQLite: one writer,
isolated readers, a commit hook that runs before the pages are written, no
rollback hook for a failed statement or ROLLBACK TO, and a data_version that
changes only for commits of others. `RollbackTo` also stands for the statement
journal: only its effect on metadata matters. `CommitFails` is a commit that
SQLite rolls back after the hook. `Reopen` is a close or a crash of the
process. `CommitAlter` is `cloudsync_commit_alter` of a table rebuilt with
another key, the alteration being the transaction: the metadata is dropped and
refilled at one version, in any order of the rows, and the version up to then
becomes the floor.

Four next-state relations. `Next` is the code without alterations.
`CarefulNext` differs from it in one conjunct, `Ahead`: a transaction ends by
commit only if the connection's pending version is unset or above its cache.
Section 5 says what happens otherwise; the properties are about `CarefulNext`,
so that they say what holds beside that defect. The condition excludes only
connections that have drawn no version since they were opened (or drew one
outside a transaction) and have looked at the database in between.
`StampNext` is `CarefulNext` without what gives two changes one stamp
(section 5): statements that change a key (`WriteKey`) and received changes
that bring a row to life (`ReceiveLife`). `AlterNext` is `CarefulNext` with
`CommitAlter`; the instance of
`altered_clock` takes its local statements, so that what it finds is due to the
alteration.

`Cols` is assumed non-empty: a key-only table writes its sentinel through the
same statements, and adds nothing for the clock but a case.

### SyncSend

`meta[x]` is the committed metadata row of a (row, column) pair, reduced to its
db_version, seq and whether it is this site's; `sendDb` and `sendSeq` are the
two settings of the send cursor; `call[c]` is the local state of the send `c`
is in; `cloud` is what the cloud was notified of. `Write` is a transaction of
any connection with any number of local statements and merges: rows it writes
are above all others, rows may go (a merge may drop or take over an own row),
the maximum stays. That is `CommittedVersions!Transaction`, and so the results
hold where the defects of the clock do not strike. The rest is
`cloudsync_network_send_changes_internal`:

| action | `network.c` |
|---|---|
| `ReadVersion`, `ReadSeq` | 698-702, two statements |
| `Select` | 706-720, one statement: the blob and the new cursor are of one snapshot |
| `GetUrl`, `Upload`, `Notify`, `Fail` | 722-747; a failed notification may have arrived |
| `SaveVersion`, `SaveSeq` | 750-757, two transactions whose failure is not looked at |
| `Reset`, `ResetVersion`, `ResetSeq` | 837-846 |
| `Logout` | 854-928, one transaction: metadata and cursors go, and what comes after is another site's |
| `Crash` | the process ends anywhere |

`Logout` has a guard the code has not, `Quiet`: no other connection is sending
or resetting (section 5). A cursor is read with `Readings`: as an int
(`AsInt`, by `strtol` and a conversion), or as 0 when the statement fails,
since `dbutils_settings_get_value` then returns the caller's zeroed buffer.

### SyncReceive

`feed` is what the cloud has from elsewhere, changes of transactions with
growing versions; `asked` the cursors it was asked with; `applied` and
`refused` are history: changes merged, and changes tried but never merged.
`Start` begins a check, or a `cloudsync_network_sync` with `MaxTries` tries;
`Missed` is the loop's next try. `Ask` receives any payload the cloud may have
prepared: all it had up to some version, above some cursor it was once asked
with. So answers are late, repeated or out of order, but the cloud keeps each
transaction's changes together; nothing in `src/` says otherwise and the cursor
of the code relies on it. `Download`, `Baseline`, `Apply`, `Refuse`, `Abandon`,
`Finish`, `SaveVersion` and `SaveSeq` are `cloudsync_payload_apply`, in its
order: the two reads of the cursor, each row in its own transaction and in the
order of (db_version, seq) in which `cloudsync_changes` delivers rows, the last
row's result, the comparison, the two writes.

### TableLifecycle

`file` is what is committed about one table: its columns, key and rows; the
site id; whether the table settings have it (`algo`), whether it has triggers
and a metadata table; per row which metadata entries there are and the parity
of the sentinel (`marks`); the newest schema hash. `work` is what the
transaction in progress sees, `save` what it was at SAVEPOINT cloudsync_alter.
`mem[c]` is the connection's context: its site id, its schema hash, its entry
for the table, and where it is in a function that is not one transaction.
`loose`, `drops` and `behind` are history.

| action | code |
|---|---|
| `Load` | `cloudsync_context_init`, `dbutils_settings_init`, `cloudsync_load_siteid`, by any function |
| `CloudsyncInit`, `InitFails` | `cloudsync_init` and `cloudsync_init_internal` under their savepoint: settings, triggers, metadata table, refill |
| `UpdateHash` | `dbutils_update_schema_hash`, which init and commit_alter run after their savepoint is released |
| `EnableDisable`, `Terminate` | `cloudsync_enable`, `cloudsync_disable`, `cloudsync_terminate`: the context only |
| `BeginAlter`, `CommitAlter` | `cloudsync_begin_alter`; `cloudsync_commit_alter` with `cloudsync_finalize_alter`: compaction, or dropping the metadata if the key differs, then init |
| `AlterColumns`, `Rebuild` | the application's DDL between the two |
| `Cleanup`, `CleanupFails`, `CleanupStep` | `cloudsync_cleanup`, for the table or for '*', statement by statement: no savepoint holds them together |
| `Logout` | `cloudsync_network_logout` of one table, which may fail after it changed the context |
| `Insert`, `Delete`, `Update` | the application's statements: recorded, unrecorded (disabled, or no triggers), or failing |
| `Begin`, `Commit`, `Rollback`, `Reopen` | its transactions; a close or a crash anywhere, in an alteration or between two statements of a cleanup too |

`Fresh` is the care the specification asks of the application: a connection
whose entry for the table, or whose schema hash, is not that of the file is
opened again before it initialises, writes or alters. Without it the properties
fail as section 5 says. Values and versions are left out, and the text of
triggers and statements: they are there or they are not, and a statement was
compiled with some columns.

### PkCodec, RowId, PayloadCodec

`Encode`, `EncodeSize`, `Decode` and `Compare` are `pk_encode`,
`pk_encode_size`, `pk_decode` and `dbutils_value_compare`, with the number of
values of a byte and the number of bytes of an integer as constants: the shape
of the encoding does not depend on them. The leading byte of a value and the byte
that counts the values of a key have 256 values in any case. `Rowid` and `RowidDecode` are the
shift-and-or of `vtab.c` and `cloudsync_rowid_decode`, with widths as
constants. `EncodeStep` and `EncodeFinal` are the aggregate
`cloudsync_payload_encode` with its buffer (`cloudsync_buffer_check`), growing
or failing to; `ApplyHeader` and `ApplyRow` are the loop of
`cloudsync_payload_apply`. LZ4 and the checksum are external: a compressed
block is something else than the text, and gives it back.

## 3. The properties

`CloudSyncMerge`:

* `ClockMatchesRow`: a row exists exactly while its causal length is odd; a
  dead row keeps nothing but its sentinel.
* `JoinOfSeen`: what a site stores is the join of the changes it has seen: the
  greatest causal length, and per column the greatest (col_version, value)
  among the changes of that length. Nothing seen is lost, nothing beaten
  stays. Columns at version 0, left from an earlier life, are outside.
* `Convergence`: sites that have seen the same changes agree on rows, causal
  lengths, and each column set in the present life of the row.
* `TablesAgree`: once every change has reached every site the user's tables
  are equal, zeroed columns included. True while no key changes.
* `RowsConverge`: the part of `Convergence` about rows and causal lengths.
* `ClockNeverRegresses`: no step moves a clock back.
* `RefinesLww`: the table implements `LwwMap`.
* `JoinUntilOverwritten`, `RekeyRefinesLww`: the same where keys change, as long
  as no key is overwritten.

`GrowOnlySet`:

* `GosElements` (`ElementsOfSeen`): a site has exactly the elements it has seen
  a change of, for ever, and each value it stores is one that some change
  carried. That sites agree on the values is more than the code ensures
  (section 5).

`DbVersion`:

* `CacheNotBehind`: a cache that would not be looked up again bounds all
  committed versions.
* `VersionsGrow`: what a transaction commits has versions above all committed
  before it, so a cursor taken earlier cannot hide it.
* `MaximumKept`: no commit lowers the maximum, which is the only place the
  version is stored.
* `StampsUnique`: (db_version, seq) identifies a site's own changes, as long as
  no key has changed and no received change has brought a row to life.
* `RefinesCommitted`: the clock implements `CommittedVersions`.

`SyncSend`:

* `NothingSkipped`: what a send that started now would not select has reached
  the cloud. The cursor's halves are read and written one by one, by several
  connections, after requests that take as long as they like.
* `NoHole`: the cloud never has an own change without the earlier ones that
  are still current.
* `SilentMeansSent`: `cloudsync_network_has_unsent_changes` says 0 only if
  nothing is unsent (when its two statements succeed; a failing one makes it
  compare with -1 and say 0).
* `EventuallySent`: a committed change is sent unless it is overwritten first.

`SyncReceive`:

* `NoSilentGap`: what the cursor has passed was at least tried. That it was
  merged is more than the code ensures (section 5).
* `CursorKept`: with one connection, no reset and readable settings, the
  version of the cursor never decreases. With two connections it may: the
  baseline is read before the rows are applied.
* `EventuallyTried`: every change the cloud has is tried.

`TableLifecycle`:

* `MetaMatchesRows`: while a table has triggers, a row that exists has an entry
  for each column and no tombstone, and one that does not has neither an entry
  nor a live sentinel; except rows written untracked and not repaired yet. On
  either side of alterations, rollbacks, crashes in the middle of a cleanup,
  and with a second connection.
* `SchemaCurrent`: when every init and alteration has run to its end, the newest
  hash of `cloudsync_schema_versions` is that of the table. The hash in memory,
  which survives a rollback, decides whether it is written at all.
* `TombstonesKept`: no statement forgets a deletion, but by dropping the whole
  metadata table or by writing the row again. Excepted are a return to an
  earlier state (a rollback) and a table whose key was rebuilt, until
  `cloudsync_commit_alter` sees it. It is said of the state that the writer sees
  (`work`): a commit publishes many statements at once, among which the row may
  have come, gone untracked and gone.
* `OwnSite`: a connection goes by the site id of its file. The code does not
  keep it (section 5).

`PayloadCodec`:

* `RowsSurvive`: the receiver gets the rows that went in, in order and to the
  last byte, compressed or not, except those lost with a buffer that could not
  grow.
* `KeysInvert`: decoding a key gives its values, so that no two keys have one
  encoding.
* `BufferFits`: what is encoded has the size that was computed before, and the
  buffer has room for it, if the first row leaves room for the header.
* `ValuesOrdered`: the order that decides conflicts is antisymmetric and
  transitive, and tells values apart but for texts equal up to a zero byte, and
  the two zeros.
* `RowidsTellApart`: rowids are different and come apart again, below 2^34 and
  2^30.

Fairness. Nothing in the library schedules a send or a check: the application
calls them, and API.md:390 tells it to do so periodically. `SyncSend` assumes
strong fairness of each step of a send, that is, each step is not failed or
crashed every time it is tried, and weak fairness of the cursor's
writes, whose effect may fail every time. `SyncReceive` assumes that from some
time on no process dies, no request fails and no answer is out of date
(`CalmNext`), that the application starts a sync again and again, and that the
cloud does not answer for ever that nothing is ready; steps of a call that has
begun are weakly fair. Rows and cursor writes may still fail every time.
The other modules state no fairness, for nothing in the code schedules the
delivery of a change or a call by the application: `TablesAgree` and
`Convergence` are stated about states in which all changes, or the same ones,
have arrived.

## 4. The runs

The MC modules add counters for the statements users make (`MaxWrites`), the
transactions that begin (`MaxTxns`) and the calls that change a table's
structure or state (`MaxCalls`). Deliveries, refills, rollbacks and reopenings
are not bounded. The instances of the protocols bound only `Versions`, that
is, the transactions of the site (`SyncSend`) and of the cloud (`SyncReceive`);
sends, checks, failures, crashes and resets go on for ever. Deadlock is checked
in every run but `codecs`, where the aggregate and the loop end: elsewhere a
delivery or a call is always possible.

| run | instance | states | shows |
|---|---|---|---|
| `rows` | 2 sites, 1 key, 2 columns, 2 values, 3 writes | 87,777 | the seven properties of rows, refills included |
| `keys` | 2 sites, 2 keys, 1 column, 3 writes (4 in the scene "over"); scenes "rekey", "over", "gos" | 91,337 | re-keying to a free key; `RowsConverge` under `MoveOver`; the grow-only set |
| `clock` | 2 connections, 2 keys, 1 column, 1 stamp, 3 transactions, 3 writes | 513,624 | the clock, re-keying and merges included |
| `send` | 2 connections, 2 cells, 3 versions, 1 seq | 298,639 | the three safety properties of sending |
| `send_live` | 1 connection, 2 cells, 2 versions, 2 seqs | 31,911 | `EventuallySent` |
| `receive` | 2 connections, 2 versions, 1 seq | 2,644,305 | `NoSilentGap` |
| `receive_live` | 1 connection, 2 versions, 1 seq, 2 tries | 17,238 | `CursorKept` and `EventuallyTried` |
| `lifecycle` | 2 connections, 1 key, 2 columns of which one makes the table unfit, 2 primary keys, 2 writes, 4 calls | 1,761,290 | `MetaMatchesRows`, `SchemaCurrent`, `TombstonesKept` |
| `codecs` | bytes of 2 values, 8 to an integer, 2 rows, buffer of 60, header of 8 | 131,639 | the codecs, with the buffer |
| `rekey_diverges`, `altered_clock`, `other_site` | | | expected violations, section 5 |

Why the bounds suffice to be interesting. Three writes on one key give an
insert, a delete and a second insert, so a resurrection with the metadata of
the first life still on its way, and concurrent writes at equal versions. Two
columns are needed for a row known in part. Relaying needs a third site, which
is left to the theorems: `StateIsJoin`, `SitesConverge` and `TableRefinesLww`
hold for any sites. Two rows and an overwriting take three statements, so that
the scene "over" has one more. For the clock, three transactions of two
connections give a commit by the other connection between a version drawn and
the next. For sending, three versions give a commit before a send, one during
it and one after; two connections give every interleaving of two cursor writes.
For receiving, two versions give a payload with both, a late one with only the
first, and the cursor between them; `IntMax` is 7, so that nothing is
truncated. Four calls and two writes give an initialised table that is altered
or disabled, written, and altered, cleaned or initialised again, with the
other connection doing any of it; `Unfit` makes an alteration fail, a longer
key makes it drop the metadata. In `codecs` the integers, doubles, lengths and
stamps are those at the end of every width and around zero, and the buffer
grows before the second row. Each property is checked against a plausible bug:
every definition named `Broken...` is one, and TLC finds the property violated
when it takes the place of the definition after it (`PROJECT.json`,
"mutants").

Sites, keys, columns and connections are symmetric where the run declares
`SYMMETRY`; nothing in the modules orders them. The columns of `DbVersion` are
ordered (by cid) and are not in the symmetry set. The runs that check liveness
declare none.

`send` has a VIEW, by which TLC tells states apart: of what was sent or is on its
way it sees only what is of a row's current version. Versions that are not
current are not handed out again (`Write` keeps the maximum and a logout clears
the cloud), so that no property of the run depends on the rest.

`TablesAgree` is not checked in `keys`: with re-keying it fails in general
(`rekey_diverges`), and holds in that instance only because of its bounds.

## 5. Where the code departs from its documentation

Three runs are expected to find a violation.

* `rekey_diverges`. Site 2 inserts and deletes `m`; site 1 has received that row
  but not its deletion. Site 2 then receives one column of site 1's row `k` and
  re-keys it to `m`: the column it does not have is not moved, so it is never
  exported at `m`, and when it arrives for `k` it is refused as belonging to a
  dead row. Site 1 resurrects `m` over the row it still has:
  `merge_zeroclock_on_resurrect` zeroes the clock of the missing column and
  leaves its value, while site 2 shows NULL. docs/PriKey.md:87 promises a
  "consistent and convergent state".
* `altered_clock`. `cloudsync_finalize_alter` (`cloudsync.c:1680`) keeps the
  version of an alteration in `cloudsync_settings`, as text, and
  `db_version_build_query` (`cloudsync.c:372`) takes the maximum over it and the
  integer db_versions. SQLite orders text above integers, so the floor is the
  maximum, whatever is committed: after the alteration, a connection that looks
  the version up (after reopening, or after a commit of another) gets the floor
  and hands out the versions above it again, below the send cursor.
  docs/RowID.md:5 says "The `db_version` is incremented with each transaction".
* `other_site`. The first cloudsync call of a database makes a site id and keeps
  it in memory; when it fails or is rolled back the file has none
  (`cloudsync_context_init` knows the case, `cloudsync.c:1538`), and the next
  call writes another, while `cloudsync_load_siteid` (`cloudsync.c:2866`) keeps
  the first in memory. `cloudsync_siteid()` is then not the id of the site, and
  a send, which selects by it, sends nothing. A logout or cleanup on another
  connection has the same effect. API.md:188 says that it "Returns the unique ID
  of the local site."

More behaviours were met while modelling. Where a next-state relation or a
constant is named, an instance with it shows the behaviour; none has a run of its
own.

Versions:

* A fresh context (`PlainSpec` of `MCDbVersion` violates `VersionsGrow`).
  `cloudsync_context_create` (`cloudsync.c:1505`) zeroes the context, so
  pending_db_version starts at 0 rather than `CLOUDSYNC_VALUE_NOTSET`. A
  connection opened on an existing database that calls `cloudsync_db_version()`
  fills its cache; if it then commits a transaction that writes no synchronised
  table, `cloudsync_commit_hook` (`cloudsync.c:1580`) copies 0 over it.
  data_version does not change for a connection's own commits, so the next local
  write draws version 1, below what was committed and sent before: the send
  cursor hides it. The same happens after `cloudsync_db_version_next()` outside
  a transaction followed by a commit of another connection. This was reproduced
  with the extension built from this source: the version goes from 5 to 1.
* Moved stamps (`CarefulSpec` with `WriteKey` violates `OwnStampsUnique`).
  `cloudsync_seq` is registered deterministic (`dbutils.c:313`), so
  `seq=cloudsync_seq()` in `meta_update_move_stmt` is evaluated once and all
  moved rows share a seq, while the comment at `cloudsync.c:1873` requires "a
  unique sequence value (seq)". Two rows of `cloudsync_changes` then have one
  rowid. Reproduced as well.
* Zeroed stamps (`CarefulSpec` with `ReceiveLife` violates `OwnStampsUnique`). A
  site writes two columns of a row in two transactions, each with seq 0, and
  receives a later life of the row, having missed the deletion between:
  `meta_zero_clock_stmt` (`cloudsync.c:769`) gives both columns one new
  db_version and leaves them their seqs and their site_id.
* A cleanup of one table drops its metadata and leaves no floor: if it was the
  only one, an init on a connection opened later starts at version 1, below the
  send cursor, which stays.

Merging:

* An instance with `MoveOver` violates `TablesAgree`: a site inserts rows `k`
  (column 0) and `m` (column 1), then runs UPDATE OR REPLACE to move `k` onto
  `m`. `meta_update_move_stmt` (`cloudsync.c:734`) sets the column's version at
  `m` to 1 again, and as `m` had no sentinel yet its new sentinel says 1, the
  causal length it already had. A site that has the first `m` compares version 1
  with version 1, keeps the greater value 1, and never takes the 0 that replaced
  it. docs/PriKey.md:86 promises "CRDT guarantees of eventual consistency".
* Two sites that insert one key of a grow-only table with different values swap
  them and stay different, since nothing is compared; an INSERT OR REPLACE fires
  neither of the triggers that protect the row.
* `cloudsync_refill_metatable` takes the length of an encoded key with strlen
  (`cloudsync.c:1734`): a key whose encoding has a zero byte is marked as a
  shorter key.
* An init while a row has been received in part marks its other columns as
  written here, at version 1, with the defaults they have. Both sites end up
  equal (`rows` checks it); a column's DEFAULT, which the model has not, would
  win if it is greater than the value that was on its way.
* A row that is inserted while the table is disabled, over a tombstone, gets its
  entries from the next init and keeps the even sentinel: a later tracked
  delete makes the sentinel odd. `MetaMatchesRows` excepts such a row for ever
  (`Augment` leaves it in `loose`).
* Texts that differ only behind a zero byte are equal to strcmp
  (`dbutils.c:243`): neither site takes the other's.

Sending and receiving:

* With an `IntMax` below the versions, `SilentMeansSent` fails:
  `cloudsync_network_has_unsent_changes` (`network.c:680`)
  compares the largest own db_version and the send cursor as int. A version
  above `INT_MAX` is negative or small as an int, and the answer is 0 with
  changes unsent, where API.md:358 says "1 if there are unsent changes, 0
  otherwise". Truncation alone loses nothing: `NothingSkipped` is proved for
  any `INT_MAX`, since the conversion never makes a cursor greater; but a
  cursor that reads as negative is an error that stops all sends.
* `Refuse` followed by `Apply` of the last row, which is why `NoSilentGap` says
  tried and not merged: `cloudsync_payload_apply` goes on after a row that fails
  (`cloudsync.c:2175`), which its comment explains with row-level policies, and
  the last row alone decides. A row that failed for another reason (the file
  was locked, a constraint that a later row would have satisfied) is passed by
  the cursor and not asked for again until the cursor is reset, and the
  returned row count includes it. README.md:11 says "No data loss", API.md:394
  that the value "indicates how many changes were downloaded and applied".
* Without `Quiet`, a logout during another connection's send violates `NoHole`:
  the notification and the cursor of the old site arrive after it, and the new
  site's first versions are below them.
* A buffer that cannot grow is freed with the rows in it, and the aggregate
  starts again with the next row (`cloudsync.c:1931`); the send then moves its
  cursor over the rows that are gone. And the first allocation does not count
  the header: a first row larger than the 512 KB minimum less 32 bytes is
  written up to 32 bytes beyond its buffer (`cloudsync.c:1926`), which is the
  condition in `BufferFits`.

Structure:

* A key whose last column is replaced by another is not noticed (`Keys <-
  Renamed`, with two keys of rows in `Pks`, violates `MetaMatchesRows`): the loop at
  `cloudsync.c:1625` starts at the header of the result of `sqlite3_get_table`
  and ends before the last name, where the comment above it says "A change in pk
  columns means a change in all identities of all rows." The rows' metadata stays
  under the old keys' identities.
* Without `Fresh`: a second connection keeps the columns it compiled its
  statements for and the schema hash it loaded. After an alteration on another
  connection it records writes without the new column, and an init on it does
  not write a hash it believes to be the newest.
* An outer ROLLBACK takes the schema hash from the file and leaves it in memory;
  the next init finds it there and does not record it, so that the site's own
  hash is missing from `cloudsync_schema_versions`. `Fresh` asks for the
  connection to be opened again.
* `cloudsync_commit_alter` makes a new context for the table, and with it enables
  a table that was disabled. Called after the
  application rolled the alteration back, it compacts or drops the metadata and
  initialises the table before it fails for want of the savepoint.

## 6. The proofs

Forty-two theorems, for any sites, keys, columns, values, connections, versions,
stamps and widths that satisfy the assumptions below. Those about a run's own
specification (`KeySpec`, `ClockSpec`) hold for any value of its bounds.

Assumptions: `ValuesAssumption` (values are natural numbers with NULL = 0, the
total order of `dbutils_value_compare`), `RipAssumption` (the sentinel's name
is no column), `ConnsAssumption`, `ColsAssumption` (finitely many columns, at
least one, numbered from 1), `StampsAssumption` (versions and seqs of other
sites are natural numbers); for the protocols `IntMaxAssumption` (a natural
number), `VersionsAssumption` (versions are positive), `SeqsAssumption`,
`MaxTriesAssumption` (at least one); for the lifecycle `NoConnAssumption`,
`SiteIdsAssumption` (there is a UUID, and none is all zeroes) and
`KeysAssumption` (a key has columns); for the codecs `WidthAssumption` (an even
radix, 1 to 31 bytes), `SizesAssumption`, `SpanAssumption` (both widths
positive) and `StampsAssumption` of `PayloadCodec` (a db_version and a seq fit in
an integer: 34 and 30 bits in 64). TLC evaluates them all. Six further hypotheses
are not assumptions of the modules, and are named where they are used below:
`Cols # {}`, one connection, versions up to INT_MAX, `NamesTellKeys`,
`ChangesTyped` with `KeysTyped`, and `StringsSized`. TLC evaluates the last three
of these on the changes of `codecs` (`ChangesAssumption`).

`CloudSyncMergeProofs`, about `Spec` (statements, re-keying to a free key,
refills, deliveries), `SameKeySpec` and `AnyKeySpec`:

* `StateIsJoin` (`JoinOfSeen`), `SitesConverge` (`Convergence`),
  `ClocksNeverRegress` and `TableRefinesLww` (`RefinesLww`) of `Spec`.
* The invariant `IInv` is type correctness, a consistent row for every key,
  well-formed changes (a change of a row's column has an odd causal length, and
  a sentinel's version is its causal length), and `JoinOfSeen`. None of these is
  inductive alone: a merge keeps a row consistent only if changes are well
  formed, and exports are well formed only from consistent rows. Each trigger
  function and each branch of the merge is shown, on one row, to keep the row
  consistent and to grow it by exactly what the step adds (the lemmas named
  `...Grows`); `JoinGrows` lifts that to the set of changes seen. `Convergence`
  follows from `JoinOfSeen`: a row that bounds a set of changes and attains
  each of its clocks in that set is determined by it. `Grows` implies
  `NotBehind`, which is `ClocksNeverRegress`.
* `TableRefinesLww` maps every step. For a merge, one lemma goes through the
  paths of `cloudsync_merge_insert` and shows that the clock of the result is
  the clock of the row joined with the change (zeroed columns count as not set,
  so a resurrection starts every column anew). For a statement it takes from
  the invariant that clocks grow and that what was seen bounds them, and shows
  that what is newly exported is what the row now holds.
* `TablesBecomeEqual` (`TablesAgree`) of `SameKeySpec`. `JoinOfSeen` leaves out
  the columns at version 0, whose values a resurrection leaves in the table.
  `WholeInv` adds `KnownWhole`: a life that any known change belongs to is known
  with all its columns, each at a version above 0. It holds since a statement
  that begins a life writes and exports every column (`BornWhole`), and a merge
  tells nothing new. So where every change has arrived, no column is at version
  0, and the join determines the values. Re-keying breaks just this: the columns
  that a site lacks are not written at the new key (section 5).
* `TypeCorrect`, `MetadataMatchesTable` (`ClockMatchesRow`) and `LivesConverge`
  (`RowsConverge`) of `AnyKeySpec`, that is, with UPDATE OR REPLACE of a key as
  well. A column may move back there, so `JoinOfSeen` is lost; `LivesInv` keeps
  of it that a row's causal length is the greatest one seen (`LifeJoin`), which
  even an overwriting statement only increases, or leaves and exports.

`GrowOnlySetProofs`:

* `ElementsStay` (`ElementsOfSeen` of `GosSpec`) and `GosElementsStay` (the scene
  "gos" of `KeySpec`), if the table has a column outside its key (`Cols # {}`;
  without one an insert would write a sentinel, which the merge of such a table
  rejects). `GosInv` is `LivesInv` with: no sentinel is stored or known, so that
  each row is absent or in its first life, and each column holds what some change
  carried. Here columns do move back, as a merge compares nothing.
* `JoinOutlivesRekey` (`JoinUntilOverwritten`) and `RekeyIsAbstract`
  (`RekeyRefinesLww`) of the scene "rekey", from `IInv` and the steps of
  `TableRefinesLww`.

`DbVersionProofs`, about `CarefulSpec`:

* `TypeCorrect`, `CacheCorrect` (`CacheNotBehind`), `TransactionsFollow`
  (`VersionsGrow`), `MaximumStays` (`MaximumKept`), `ClockRefinesCommitted`
  (`RefinesCommitted`).
* `CacheNotBehind` is not inductive: it does not say what the writer has in
  hand. The strengthening `IInv` adds `Grown` for the writer's metadata and for
  its savepoint: either it is what is committed, or every metadata row that
  differs from the committed one is gone or has a version above the writer's
  cache and at most its pending version, and at least one has. While one
  connection writes no other commits, so the cache stays a bound of the
  committed versions. Every statement writes one drawn version (`Stamped`),
  which keeps `Grown`; the commit hook then moves the cache to the pending
  version, which bounds old and new rows alike. A rollback, to a savepoint or
  whole, returns to metadata that is `Grown` too, with the pending version left
  where it is. Without `Ahead` the commit step fails, at the commit hook's copy
  of the pending version (`cloudsync.c:1580`).
* `ClockRefinesCommitted` combines the two action properties: only a commit
  changes what readers see, and it is a `Transaction`.
* `OwnStampsStayUnique` (`OwnStampsUnique` of `StampSpec`) and
  `PlainStampsUnique` (`StampsUnique` of `ClockSpec`). `StampInv` adds to `IInv`
  that stamps are unique in what is committed, in what the writer sees and at
  its savepoint, and that the own rows it has changed have seqs below its
  counter (`SeqBelow`); their versions are above all committed ones by `IInv`,
  so that they cannot meet an older stamp. A statement numbers the rows it
  writes from the counter on, each its own (`Numbered`), which rests on `Rank`
  being injective and below the number of rows. A failed statement leaves the
  counter ahead. Moving a key and zeroing clocks are not `Numbered`, hence the
  condition.

`SyncSendProofs`, about `Spec` of `SyncSend`:

* `TypeCorrect`, `NothingIsSkipped` (`NothingSkipped`), `CloudHasPrefix`
  (`NoHole`), `SilenceIsTrue` (`SilentMeansSent`).
* The argument is that the db_version half of the cursor is sound by itself:
  all own changes up to it are in the cloud (`Within`), and it was handed out
  (`Used`), so that later commits are above it. The seq half only ever makes a
  send select more. The invariant says this of the stored cursor, of
  every cursor read, and, with the blob on its way added, of every new cursor a
  send is about to write; a transaction cannot disturb a `Used` version, because
  it keeps the maximum. `NoHole` is part of the invariant, as a blob completes
  the cloud up to its newest version. A logout starts the argument again.
* `SilenceIsTrue` follows from the invariant if no version is above INT_MAX: the
  newest own change is then compared as it is (`AsIntSame`), and when it is not
  above the cursor none is. For greater versions it is false (section 5).

`SyncReceiveProofs`, about `Spec` of `SyncReceive`:

* `TypeCorrect`, `NothingIsPassed` (`NoSilentGap`), and `CursorStays`
  (`CursorKept`) of `LoneSpec`.
* The mirror image: `Sound(v)` says that v was published and all the cloud has
  up to v was tried. It holds of the stored cursor, of every cursor asked with
  or read, and a payload on its way has everything up to each of its rows,
  except what was tried (`Applying`). Applying a row moves it from the payload
  to what was tried, so at the end the last row's version is `Sound`, whether
  or not it is older than the cursor it replaces.
* `CursorStays` is for one connection and versions up to INT_MAX. Its invariant
  `Compared` says that between the download and the write the baseline is the
  stored cursor, and that a version about to be written is not below it: the
  comparison in `cloudsync_payload_apply` is then enough. With two connections
  the baseline may be old, and with a truncated one the comparison is void.

`TableLifecycleProofs`, about `CarefulSpec` of `TableLifecycle`:

* `TypeCorrect`, `MetadataMatchesRows` (`MetaMatchesRows`), `SchemaAnnounced`
  (`SchemaCurrent`), `DeletionsRemembered` (`TombstonesKept`).
* `MetaMatchesRows` says nothing of an alteration in progress, when there are no
  triggers and the table changes under its metadata. `RecordsInv` says of the
  file, of the transaction outside an alteration and of the alteration's
  savepoint that the metadata is whole or can be repaired by an init
  (`Recorded`), and of the alteration that the connection remembers the key the
  table had at the savepoint; where the key is still that one, the metadata is
  fit for compaction (`Alterable`), otherwise it is dropped. Each operation is a
  lemma about the file it returns.
* `DeletionsRemembered` needs this too: an alteration may drop the metadata only
  if the key differs.
* Both assume `NamesTellKeys`: any two keys of the instance are told apart by the
  code's comparison of their names. It is not true of all keys. The comparison
  skips the last name (section 5), so the hypothesis excludes alterations that
  replace just that one, and with them that defect; every other change of a key,
  by number or by an earlier name, satisfies it.
* `SchemaAnnounced` is of another kind: whether a hash is written depends on the
  one in memory, which no rollback resets. `HashInv` follows the debt: a schema
  that is not announced is on the account of a connection that is in the middle
  of an init or an alteration (`behind`), and that connection does not have the
  schema's hash in memory (`Owes`), so that it will write it.

`PkCodecProofs`, about the operators of `PkCodec`, for every radix and width:

* `RowRead`: where `pk_encode` wrote a row, at any place in any string, `pk_decode`
  reads that row and stops at the byte behind it. `KeyInverts` is the same with the
  byte that counts. Both loops of the code, over a row's values and over a number's
  digits, are recursive functions here. That such a function takes the steps its
  definition says is the lemma `Recursion`; what holds after every step is shown by
  `Climb`: a set of positions that holds 0 and, with each, the next one, holds all,
  since the others would have a least one. Both rest on well-foundedness, which
  the library proves. Along this line: `DigitsRead` (the lowest n digits of a number
  that needs no more sum up to it: each quotient is that of the next power and one
  digit, `OneDigitMore`), `NBytesFits` (a length or magnitude needs no more digits
  than `pk_encode_nbytes_needed` says), `WrapKeeps` (two's complement), `ValueRead`
  (one value of each type, the least integer and negative doubles included), then
  `PartsAt` (where joined strings are, each of them is).
* Its rows are `Storable`: SQLite's values, where a string is of numbers, as the
  encoding of a key within a payload is, and is not longer than an integer can say.
* `SizeAnnounced`, of a row: `pk_encode` writes what `pk_encode_size` counted. A
  row of a payload has four columns, so that the two folds over it can be
  unrolled.
* The order of values, on which `OrderDecides` below rests.

`PayloadCodecProofs`, about `Spec` of `PayloadCodec`, for changes that have SQLite's
values, versions and seqs within 34 and 30 bits (`ChangesTyped`) and, as keys, up to
128 of SQLite's values (`KeysTyped`: `dbutils_table_sanity_check` admits no more
columns in a key, so that a byte can count them). What is read back is so if no
text, blob or encoded key is longer than an integer can say (`StringsSized`); what
is written is as announced without that.

* `RowidInverts` and `RowidUnique`, for any widths, hence for 34 and 30 bits: the
  shift, the change of sign and the unsigned division undo each other.
* `OrderDecides` (`ValuesOrdered`): the order in which types, numbers and byte
  strings are compared is total. `CloudSyncMerge` takes values as numbers, and
  this is what entitles it to. The comparison of strings, which looks for the
  first difference, needs that a set of positions has a least one; that
  is well-foundedness, which the library proves, and no induction.
* `RowidsDiffer` (`RowidsTellApart`), from these two.
* `BufferSuffices` (`BufferFits`). `BufInv` says that a buffer with rows has the
  header and the rows in it, that the used size is their length, and that it is
  not above the allocated one; each growth adds at least the row's announced
  size. The first growth does not count the header, hence the property's
  condition.
* `KeysRead` (`KeysInvert`), from `KeyInverts`.
* `RowsRead` (`RowsSurvive`) and `PayloadTyped` (`TypeOK`). `RowsSurvive` is not
  inductive: it does not say what is left to decode. `RowsInv` does, with a
  function f that gives for each k the first k rows given, joined (`Packs`).
  While the aggregate collects, its buffer is f of all rows and its count is theirs;
  what it returns has f of all rows as its body, compressed just if the size it
  writes for that is not 0, which needs `BufInv` (a buffer with rows is not empty);
  and where the receiver has j rows, they are the first j, and what is left is what
  comes behind f[j]. `RowUnpacked` is the step of its loop: `RowRead` at the
  beginning of what is left, and what is left then comes behind f[j + 1]. A row the
  aggregate adds gives the next f (`PackMore`); rows lost with the buffer leave none.

### What is only model-checked

* The liveness properties `EventuallySent` and `EventuallyTried`: fairness and
  ENABLED are out of the provers' reach.
* That each violation of section 5 happens.

No module declares a RECURSIVE operator.

## 7. Not modelled

* A send or check inside an open transaction of the same connection: it uploads
  what a rollback then undoes. `SyncSend` sees committed metadata only.
* Logout while another connection sends, and what it means for the receive
  side: `SyncReceive` has no logout.
* Constraint failures in a merge (the row is refused in `SyncReceive`, without
  effect), and merges into a table that is disabled.
* `cloudsync_init('*')`, `cloudsync_enable('*')` and the like: loops over the
  tables. Several tables: they share the clock (`DbVersion` has several rows)
  and the settings, and `TableLifecycle` follows one. Logout's loop is followed
  for one table, which may be undone because of another.
* Own changes that come back from the server are merged in `CloudSyncMerge`
  (site_id 0 again); in `DbVersion` a merged row always counts as another
  site's.
* `cloudsync_set` and the settings keys that are stored and never used;
  `cloudsync_payload_save` and `load`, which put a payload in a file.
* Errors of SQLite calls (out of memory, I/O) inside a statement: the statement
  fails and its effects are undone, which is `RollbackTo`.
* The query planner's callbacks of the virtual table.
* Memory and string utilities and UUIDs, which keep no state; the WebAssembly
  glue, which forwards calls; the HTTP transport.
* Vendored code: `sqlite/`, `curl/`, LZ4, the certificate store. It is the
  greater part of the repository's lines (SQLite's amalgamation alone is over
  nine tenths), it is not this project's logic, and it is modelled only as far
  as the code relies on it: transactions, hooks, data_version, isolation,
  requests that fail or arrive.

## 8. Plan

Done: the merge engine with its abstract map, the grow-only set, the version
clock with its abstract specification, both halves of the sync protocol, the
table lifecycle, the codecs; and a proof of every safety property that the runs
check and the code keeps. Left, in this order; (P) marks
theorems.

1. What a send inside an open transaction uploads, which a rollback then undoes:
   `SyncSend` over `DbVersion` with its open transactions, and what becomes of a
   send when the clock's defects strike.
2. Two tables in `TableLifecycle`, for the loops of logout and the '*' forms.
