------------------------------- MODULE SyncSend --------------------------------
(***************************************************************************)
(* Sending the changes of one site to the cloud (src/src/network.c).       *)
(*                                                                         *)
(* A connection that sends reads the cursor (send_dbversion, send_seq) from *)
(* cloudsync_settings, selects this site's changes above it, makes three   *)
(* requests (for a URL, to upload, to notify) and writes the new cursor.   *)
(* No transaction is open in between: each of these is a step of its own,  *)
(* other connections commit, send and reset meanwhile, a request may fail, *)
(* and the process may die.                                                *)
(*                                                                         *)
(* What db_version a transaction gets is the subject of module DbVersion.  *)
(* Here a transaction may do all that module CommittedVersions allows,     *)
(* which DbVersion implements (DbVersionProofs!ClockRefinesCommitted).     *)
(***************************************************************************)
EXTENDS SyncCursor

CONSTANTS
  Conns,     \* connections
  Cells,     \* the (row, column) pairs that have a metadata row
  Versions,  \* db_versions a transaction may get
  Seqs       \* seqs

ASSUME VersionsAssumption == Versions \subseteq Nat \ {0}
ASSUME SeqsAssumption     == Seqs \subseteq Nat

VARIABLES
  meta,      \* meta[x]: the committed metadata row of x
  sendDb,    \* send_dbversion in cloudsync_settings
  sendSeq,   \* send_seq
  call,      \* call[c]: the send c is in the middle of
  cloud      \* the changes the cloud was notified of, <<cell, db_version>>

vars == <<meta, sendDb, sendSeq, call, cloud>>

\* A metadata row, or none.
NoEntry == [ver |-> 0, seq |-> 0, own |-> FALSE]   \* CommittedVersions!Nothing
Entry   == [ver : Versions, seq : Seqs, own : BOOLEAN] \cup {NoEntry}

Stages == {"idle", "seq", "select", "url", "upload", "notify",
           "saveVersion", "saveSeq", "resetVersion", "resetSeq"}

Call == [at : Stages, db : Nat, seq : Nat, blob : SUBSET (Cells \X Versions),
         newDb : {0} \cup Versions, newSeq : {0} \cup Seqs]
Idle == [at |-> "idle", db |-> 0, seq |-> 0, blob |-> {}, newDb |-> 0, newSeq |-> 0]

(***************************************************************************)
(* What the statements of a send read.                                     *)
(***************************************************************************)
\* MAX(db_version) over the changes of every site
IsNewest(v) ==
  /\ \A x \in Cells : meta[x].ver <= v
  /\ v = 0 \/ \E x \in Cells : meta[x].ver = v

BrokenUnsent(db, seq) ==
  {x \in Cells : meta[x].own /\ Above(meta[x].ver, meta[x].seq, db, seq) /\ IsNewest(meta[x].ver)}
\* The changes of this site above the cursor (db, seq).
Unsent(db, seq) == {x \in Cells : meta[x].own /\ Above(meta[x].ver, meta[x].seq, db, seq)}

\* MAX(IIF(db_version = max_db_version, seq, NULL)) over the cells X; an SQL
\* NULL leaves new_seq at 0.
LastSeq(X, v) ==
  LET S == {meta[x].seq : x \in {y \in X : meta[y].ver = v}}
  IN  {s \in S : \A t \in S : t <= s} \cup (IF S = {} THEN {0} ELSE {})

Sent(x) == <<x, meta[x].ver>> \in cloud

BrokenHasUnsent ==
  \E x \in Cells :
    /\ meta[x].own
    /\ \A y \in Cells : meta[y].own => meta[y].ver <= meta[x].ver
    /\ AsInt(sendDb) + 1 < AsInt(meta[x].ver)
\* cloudsync_network_has_unsent_changes: the largest db_version of this site
\* against the cursor's, both as int, when neither SELECT fails.
HasUnsent ==
  \E x \in Cells :
    /\ meta[x].own
    /\ \A y \in Cells : meta[y].own => meta[y].ver <= meta[x].ver
    /\ AsInt(meta[x].ver) # 0
    /\ AsInt(sendDb) < AsInt(meta[x].ver)

Init ==
  /\ meta = [x \in Cells |-> NoEntry]
  /\ sendDb = 0 /\ sendSeq = 0
  /\ call = [c \in Conns |-> Idle]
  /\ cloud = {}

(***************************************************************************)
(* Transactions of any connection: local statements and merges, as many of *)
(* them as it likes, whose versions are what CommittedVersions promises.   *)
(***************************************************************************)
Committed == INSTANCE CommittedVersions WITH rows <- meta

Write ==
  /\ meta' \in [Cells -> Entry] \ {meta}
  /\ Committed!Transaction
  /\ UNCHANGED <<sendDb, sendSeq, call, cloud>>

(***************************************************************************)
(* cloudsync_network_send_changes_internal, step by step.                  *)
(***************************************************************************)
Step(c, from, next) ==
  /\ call[c].at = from
  /\ call' = [call EXCEPT ![c] = next]

\* Fields that are not read any more are cleared.
Goto(c, to) == [call[c] EXCEPT !.at = to]

\* A negative value is an error that changes nothing.
ReadVersion(c) ==
  /\ \E v \in Readings(sendDb) : v >= 0 /\ Step(c, "idle", [Idle EXCEPT !.at = "seq", !.db = v])
  /\ UNCHANGED <<meta, sendDb, sendSeq, cloud>>

ReadSeq(c) ==
  /\ \E s \in Readings(sendSeq) :
       Step(c, "seq", IF s < 0 THEN Idle ELSE [Goto(c, "select") EXCEPT !.seq = s])
  /\ UNCHANGED <<meta, sendDb, sendSeq, cloud>>

BrokenSelect(c) ==
  LET X == Unsent(call[c].db, call[c].seq)
  IN  /\ \E v \in {w \in {0} \cup Versions : IsNewest(w)}, s \in {0} \cup Seqs :
           /\ s \in LastSeq(X, v)
           /\ Step(c, "select",
                IF X = {} \/ \A x \in X : meta[x].ver # v THEN Idle
                ELSE [Goto(c, "url") EXCEPT !.blob = {<<x, meta[x].ver>> : x \in X},
                                            !.newDb = v, !.newSeq = s])
      /\ UNCHANGED <<meta, sendDb, sendSeq, cloud>>
\* One SELECT, on one snapshot.  Nothing to send is success.
Select(c) ==
  LET X == Unsent(call[c].db, call[c].seq)
  IN  /\ \E v \in {w \in {0} \cup Versions : IsNewest(w)}, s \in {0} \cup Seqs :
           /\ s \in LastSeq(X, v)
           /\ Step(c, "select",
                IF X = {} THEN Idle
                ELSE [Goto(c, "url") EXCEPT !.blob = {<<x, meta[x].ver>> : x \in X},
                                            !.newDb = v, !.newSeq = s])
      /\ UNCHANGED <<meta, sendDb, sendSeq, cloud>>

GetUrl(c) ==
  /\ Step(c, "url", Goto(c, "upload"))
  /\ UNCHANGED <<meta, sendDb, sendSeq, cloud>>

Upload(c) ==
  /\ Step(c, "upload", Goto(c, "notify"))
  /\ UNCHANGED <<meta, sendDb, sendSeq, cloud>>

Notify(c) ==
  /\ Step(c, "notify", [Goto(c, "saveVersion") EXCEPT !.blob = {}])
  /\ cloud' = cloud \cup call[c].blob
  /\ UNCHANGED <<meta, sendDb, sendSeq>>

\* The SELECT or a request fails.  The notification may have reached the cloud
\* all the same.
Fail(c) ==
  /\ call[c].at \in {"select", "url", "upload", "notify"}
  /\ call' = [call EXCEPT ![c] = Idle]
  /\ \/ UNCHANGED cloud
     \/ call[c].at = "notify" /\ cloud' = cloud \cup call[c].blob
  /\ UNCHANGED <<meta, sendDb, sendSeq>>

BrokenSaveVersion(c) ==
  /\ Step(c, "saveVersion", [Goto(c, "saveSeq") EXCEPT !.db = 0])
  /\ \E v \in {0} \cup Versions : IsNewest(v) /\ sendDb' = v
  /\ UNCHANGED <<meta, sendSeq, cloud>>
\* Two REPLACE statements, each a transaction; that one fails is not noticed.
SaveVersion(c) ==
  /\ Step(c, "saveVersion", [Goto(c, "saveSeq") EXCEPT !.db = 0])
  /\ \/ call[c].newDb # call[c].db /\ sendDb' = call[c].newDb
     \/ UNCHANGED sendDb
  /\ UNCHANGED <<meta, sendSeq, cloud>>

BrokenSaveSeq(c) ==
  /\ Step(c, "saveSeq", Idle)
  /\ sendSeq' = call[c].newDb
  /\ UNCHANGED <<meta, sendDb, cloud>>
SaveSeq(c) ==
  /\ Step(c, "saveSeq", Idle)
  /\ \/ call[c].newSeq # call[c].seq /\ sendSeq' = call[c].newSeq
     \/ UNCHANGED sendSeq
  /\ UNCHANGED <<meta, sendDb, cloud>>

\* cloudsync_network_reset_sync_version, the two keys of the send cursor.
Reset(c) ==
  /\ Step(c, "idle", [Idle EXCEPT !.at = "resetVersion"])
  /\ UNCHANGED <<meta, sendDb, sendSeq, cloud>>

ResetVersion(c) ==
  /\ Step(c, "resetVersion", Goto(c, "resetSeq"))
  /\ sendDb' \in {0, sendDb}
  /\ UNCHANGED <<meta, sendSeq, cloud>>

ResetSeq(c) ==
  /\ Step(c, "resetSeq", Idle)
  /\ sendSeq' \in {0, sendSeq}
  /\ UNCHANGED <<meta, sendDb, cloud>>

\* The process dies and starts again.
Crash(c) ==
  /\ call[c].at # "idle"
  /\ call' = [call EXCEPT ![c] = Idle]
  /\ UNCHANGED <<meta, sendDb, sendSeq, cloud>>

\* No connection is in a send or a reset.
Quiet == \A c \in Conns : call[c] = Idle

\* cloudsync_network_logout, one transaction: the rows and their metadata go, and
\* with the settings the cursors; what comes after is the history of another
\* site, of which the cloud has nothing.  The code does not look whether another
\* connection sends; where one does, its late notification and cursor would be
\* those of a site that is gone.  That case is left out.
Logout ==
  /\ Quiet
  /\ meta' = [x \in Cells |-> NoEntry]
  /\ sendDb' = 0 /\ sendSeq' = 0
  /\ cloud' = {}
  /\ UNCHANGED call

(***************************************************************************)
(* Next-state relation and fairness.                                       *)
(***************************************************************************)
Send(c) ==
  \/ ReadVersion(c) \/ ReadSeq(c) \/ Select(c)
  \/ GetUrl(c) \/ Upload(c) \/ Notify(c)
  \/ SaveVersion(c) \/ SaveSeq(c)

Next ==
  \/ Write \/ Logout
  \/ \E c \in Conns : \/ Send(c) \/ Fail(c) \/ Crash(c)
                      \/ Reset(c) \/ ResetVersion(c) \/ ResetSeq(c)

Spec == Init /\ [][Next]_vars

\* The application sends again and again (it is to synchronise periodically,
\* API.md:390), a call that has made its requests returns, and no
\* request fails, and no process dies at the same point, every time.  The
\* cursor's two writes may fail every time.
Fairness ==
  \A c \in Conns :
    /\ WF_vars(SaveVersion(c) \/ SaveSeq(c) \/ ResetVersion(c) \/ ResetSeq(c))
    /\ SF_vars(ReadVersion(c)) /\ SF_vars(ReadSeq(c)) /\ SF_vars(Select(c))
    /\ SF_vars(GetUrl(c)) /\ SF_vars(Upload(c)) /\ SF_vars(Notify(c))

FairSpec == Spec /\ Fairness

(***************************************************************************)
(* Properties.                                                             *)
(***************************************************************************)
TypeOK ==
  /\ meta \in [Cells -> Entry]
  /\ sendDb \in {0} \cup Versions /\ sendSeq \in {0} \cup Seqs
  /\ call \in [Conns -> Call]
  /\ cloud \subseteq Cells \X Versions

\* What a send that started now would not select has reached the cloud, though
\* the cursor is read and written in halves by several connections.
NothingSkipped ==
  \A x \in Cells :
    meta[x].own => Sent(x) \/ x \in Unsent(AsInt(sendDb), AsInt(sendSeq))

\* The cloud never has a change of this site without all its earlier ones
\* that are still current: whichever sends overlap or fail.
NoHole ==
  \A x, y \in Cells :
    (meta[x].own /\ Sent(x) /\ meta[y].own /\ meta[y].ver <= meta[x].ver) => Sent(y)

\* cloudsync_network_has_unsent_changes() returns 0 only if nothing is unsent
\* (API.md:354 and 358).
SilentMeansSent ==
  ~HasUnsent => \A x \in Cells : meta[x].own => Sent(x)

\* A change of this site is sent unless it is overwritten first ("Sends all
\* unsent local changes to the remote server", API.md:370).
EventuallySent ==
  \A x \in Cells, v \in Versions :
    (meta[x].own /\ meta[x].ver = v) ~> (<<x, v>> \in cloud \/ ~meta[x].own \/ meta[x].ver # v)
=============================================================================
