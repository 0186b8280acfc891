------------------------------ MODULE SyncReceive ------------------------------
(***************************************************************************)
(* Receiving changes from the cloud (src/src/network.c, and                *)
(* cloudsync_payload_apply in src/src/cloudsync.c).                        *)
(*                                                                         *)
(* A connection asks the cloud for the changes above the cursor            *)
(* (check_dbversion, check_seq).  The cloud answers that nothing is ready, *)
(* or with a URL; the payload behind it is merged row by row, each row in  *)
(* its own transaction, and the cursor follows in two more.  A row that    *)
(* fails does not stop the rest.                                           *)
(*                                                                         *)
(* The cloud is external.  It prepares payloads in its own time: an answer *)
(* holds what it had, at some time, above some cursor this site asked      *)
(* with, and answers may be late, repeated or out of order.  The changes   *)
(* of one of its transactions are never split.                             *)
(***************************************************************************)
EXTENDS SyncCursor, FiniteSets

CONSTANTS
  Conns,     \* connections of the site
  Versions,  \* db_versions of the cloud's transactions
  Seqs,      \* seqs
  MaxTries   \* max_retries of cloudsync_network_sync

ASSUME VersionsAssumption == Versions \subseteq Nat \ {0}
ASSUME SeqsAssumption     == Seqs \subseteq Nat
ASSUME MaxTriesAssumption == MaxTries \in Nat \ {0}

VARIABLES
  feed,      \* the changes made elsewhere that the cloud has
  asked,     \* the cursors this site asked with
  checkDb,   \* check_dbversion in cloudsync_settings
  checkSeq,  \* check_seq
  applied,   \* the changes that were merged
  refused,   \* those that were tried, and never merged
  call       \* call[c]: the check c is in the middle of

vars == <<feed, asked, checkDb, checkSeq, applied, refused, call>>

Change == Versions \X Seqs

Stages == {"idle", "version", "seq", "ask", "download", "baseline", "apply",
           "saveVersion", "saveSeq", "resetVersion", "resetSeq"}

\* left: tries of cloudsync_network_sync; db, seq: the cursor sent; rows: the
\* payload; todo: its rows still to come; ok: rc is no error; base, baseSeq:
\* the cursor cloudsync_payload_apply compares with.
Call == [at : Stages, left : Nat, db : Nat, seq : Nat, rows : SUBSET Change,
         todo : SUBSET Change, ok : BOOLEAN, base : Int, baseSeq : Int]
Idle == [at |-> "idle", left |-> 0, db |-> 0, seq |-> 0, rows |-> {},
         todo |-> {}, ok |-> TRUE, base |-> 0, baseSeq |-> 0]

Init ==
  /\ feed = {} /\ asked = {}
  /\ checkDb = 0 /\ checkSeq = 0
  /\ applied = {} /\ refused = {}
  /\ call = [c \in Conns |-> Idle]

(***************************************************************************)
(* The cloud.                                                              *)
(***************************************************************************)
\* A transaction of the cloud.
Publish(v, S) ==
  /\ S # {} /\ \A f \in feed : f[1] < v
  /\ feed' = feed \cup {v} \X S
  /\ UNCHANGED <<asked, checkDb, checkSeq, applied, refused, call>>

\* What the cloud had above the cursor k when v was its newest version.
Payload(k, v) == {f \in feed : f[1] <= v /\ Above(f[1], f[2], k[1], k[2])}

(***************************************************************************)
(* cloudsync_network_check_internal, and the loop of cloudsync_network_sync. *)
(***************************************************************************)
Step(c, from, next) ==
  /\ call[c].at = from
  /\ call' = [call EXCEPT ![c] = next]

\* Fields that are not read any more are cleared.
Goto(c, to) == [call[c] EXCEPT !.at = to]

\* The check came to nothing or failed: the loop tries again, or ends.
Missed(c) ==
  IF call[c].left > 1 THEN [Idle EXCEPT !.at = "version", !.left = call[c].left - 1] ELSE Idle

\* cloudsync_network_check_changes is the case of one try.
Start(c, tries) ==
  /\ Step(c, "idle", [Idle EXCEPT !.at = "version", !.left = tries])
  /\ UNCHANGED <<feed, asked, checkDb, checkSeq, applied, refused>>

BrokenReadVersion(c) ==
  /\ \E v \in Readings(checkDb) :
       Step(c, "version", IF v <= 0 THEN Missed(c) ELSE [Goto(c, "seq") EXCEPT !.db = v])
  /\ UNCHANGED <<feed, asked, checkDb, checkSeq, applied, refused>>
ReadVersion(c) ==
  /\ \E v \in Readings(checkDb) :
       Step(c, "version", IF v < 0 THEN Missed(c) ELSE [Goto(c, "seq") EXCEPT !.db = v])
  /\ UNCHANGED <<feed, asked, checkDb, checkSeq, applied, refused>>

ReadSeq(c) ==
  /\ \E s \in Readings(checkSeq) :
       Step(c, "seq", IF s < 0 THEN Missed(c) ELSE [Goto(c, "ask") EXCEPT !.seq = s])
  /\ UNCHANGED <<feed, asked, checkDb, checkSeq, applied, refused>>

Answer(c, rows) ==
  /\ rows # {}
  /\ Step(c, "ask", [Goto(c, "download") EXCEPT !.db = 0, !.seq = 0, !.rows = rows])
  /\ asked' = asked \cup {<<call[c].db, call[c].seq>>}
  /\ UNCHANGED <<feed, checkDb, checkSeq, applied, refused>>

Ask(c) ==
  \E k \in asked \cup {<<call[c].db, call[c].seq>>}, v \in Versions : Answer(c, Payload(k, v))

\* The answer the site hopes for: all there is above its cursor.
AskFresh(c) ==
  \E v \in Versions :
    /\ \A f \in feed : f[1] <= v
    /\ Answer(c, Payload(<<call[c].db, call[c].seq>>, v))

\* Nothing is ready; the cloud starts to prepare a payload.
AskEmpty(c) ==
  /\ Step(c, "ask", Missed(c))
  /\ asked' = asked \cup {<<call[c].db, call[c].seq>>}
  /\ UNCHANGED <<feed, checkDb, checkSeq, applied, refused>>

\* A request fails, or the payload has an unknown schema hash or is damaged.
Fail(c) ==
  /\ call[c].at \in {"ask", "download"}
  /\ call' = [call EXCEPT ![c] = Missed(c)]
  /\ UNCHANGED <<feed, asked, checkDb, checkSeq, applied, refused>>

(***************************************************************************)
(* cloudsync_payload_apply.                                                *)
(***************************************************************************)
\* The row cloudsync_payload_apply decodes last.
IsLast(c, f) ==
  /\ f \in call[c].rows
  /\ \A g \in call[c].rows \ {f} : Above(f[1], f[2], g[1], g[2])

BrokenDownload(c) ==
  /\ \E f \in call[c].rows : IsLast(c, f) /\ checkDb' = f[1]
  /\ \E v \in Readings(checkDb) :
       Step(c, "download", [Goto(c, "baseline") EXCEPT !.todo = call[c].rows, !.base = v])
  /\ UNCHANGED <<feed, asked, checkSeq, applied, refused>>
Download(c) ==
  /\ \E v \in Readings(checkDb) :
       Step(c, "download", [Goto(c, "baseline") EXCEPT !.todo = call[c].rows, !.base = v])
  /\ UNCHANGED <<feed, asked, checkDb, checkSeq, applied, refused>>

Baseline(c) ==
  /\ \E s \in Readings(checkSeq) : Step(c, "baseline", [Goto(c, "apply") EXCEPT !.baseSeq = s])
  /\ UNCHANGED <<feed, asked, checkDb, checkSeq, applied, refused>>

\* f is the next row of c's payload, in the order of (db_version, seq).
IsNext(c, f) ==
  /\ call[c].at = "apply" /\ f \in call[c].todo
  /\ \A g \in call[c].todo \ {f} : Above(g[1], g[2], f[1], f[2])

Apply(c, f) ==
  /\ IsNext(c, f)
  /\ call' = [call EXCEPT ![c].todo = @ \ {f}, ![c].ok = TRUE]
  /\ applied' = applied \cup {f} /\ refused' = refused \ {f}
  /\ UNCHANGED <<feed, asked, checkDb, checkSeq>>

\* The row fails (the file is busy, a policy, a constraint), or the callback
\* does not approve it; then rc stays that of the row before.
Refuse(c, f) ==
  /\ IsNext(c, f)
  /\ \E r \in {FALSE, call[c].ok} : call' = [call EXCEPT ![c].todo = @ \ {f}, ![c].ok = r]
  /\ refused' = refused \cup ({f} \ applied)
  /\ UNCHANGED <<feed, asked, checkDb, checkSeq, applied>>

\* All rows are done, and the last result was an error.
Abandon(c) ==
  /\ call[c].todo = {} /\ ~call[c].ok
  /\ Step(c, "apply", Missed(c))
  /\ UNCHANGED <<feed, asked, checkDb, checkSeq, applied, refused>>

BrokenPassed(c, f) == TRUE
\* The payload does not end below the cursor it is compared with.
Passed(c, f) == f[1] >= call[c].base

\* The payload was older than the cursor: the cursor stays.
Finish(c) ==
  /\ call[c].todo = {} /\ call[c].ok
  /\ \E f \in call[c].rows :
       IsLast(c, f) /\ Step(c, "apply", IF Passed(c, f) THEN [Goto(c, "saveVersion") EXCEPT !.base = 0] ELSE Idle)
  /\ UNCHANGED <<feed, asked, checkDb, checkSeq, applied, refused>>

BrokenSaveVersion(c) ==
  /\ \E f \in call[c].rows :
       /\ IsLast(c, f)
       /\ Step(c, "saveVersion", IF f[2] # call[c].baseSeq THEN [Goto(c, "saveSeq") EXCEPT !.baseSeq = 0] ELSE Idle)
       /\ checkDb' \in {f[1] + 1, checkDb}
  /\ UNCHANGED <<feed, asked, checkSeq, applied, refused>>
\* Two REPLACE statements, each a transaction; that one fails is not noticed.
SaveVersion(c) ==
  /\ \E f \in call[c].rows :
       /\ IsLast(c, f)
       /\ Step(c, "saveVersion", IF f[2] # call[c].baseSeq THEN [Goto(c, "saveSeq") EXCEPT !.baseSeq = 0] ELSE Idle)
       /\ checkDb' \in {f[1], checkDb}
  /\ UNCHANGED <<feed, asked, checkSeq, applied, refused>>

SaveSeq(c) ==
  /\ Step(c, "saveSeq", Idle)
  /\ \E f \in call[c].rows : IsLast(c, f) /\ checkSeq' \in {f[2], checkSeq}
  /\ UNCHANGED <<feed, asked, checkDb, applied, refused>>

(***************************************************************************)
(* Reset and crash.                                                        *)
(***************************************************************************)
\* cloudsync_network_reset_sync_version, the two keys of the receive cursor.
Reset(c) ==
  /\ Step(c, "idle", [Idle EXCEPT !.at = "resetVersion"])
  /\ UNCHANGED <<feed, asked, checkDb, checkSeq, applied, refused>>

ResetVersion(c) ==
  /\ Step(c, "resetVersion", Goto(c, "resetSeq"))
  /\ checkDb' \in {0, checkDb}
  /\ UNCHANGED <<feed, asked, checkSeq, applied, refused>>

ResetSeq(c) ==
  /\ Step(c, "resetSeq", Idle)
  /\ checkSeq' \in {0, checkSeq}
  /\ UNCHANGED <<feed, asked, checkDb, applied, refused>>

\* The process dies and starts again.
Crash(c) ==
  /\ call[c].at # "idle"
  /\ call' = [call EXCEPT ![c] = Idle]
  /\ UNCHANGED <<feed, asked, checkDb, checkSeq, applied, refused>>

(***************************************************************************)
(* Next-state relation and fairness.                                       *)
(***************************************************************************)
Cloud == \E v \in Versions, S \in SUBSET Seqs : Publish(v, S)

Check(c) ==
  \/ \E n \in {1, MaxTries} : Start(c, n)
  \/ ReadVersion(c) \/ ReadSeq(c) \/ Ask(c) \/ AskEmpty(c) \/ Fail(c)

ApplyPayload(c) ==
  \/ Download(c) \/ Baseline(c)
  \/ \E f \in call[c].rows : Apply(c, f) \/ Refuse(c, f)
  \/ Abandon(c) \/ Finish(c) \/ SaveVersion(c) \/ SaveSeq(c)

Resets(c) == Reset(c) \/ ResetVersion(c) \/ ResetSeq(c)

Next == Cloud \/ \E c \in Conns : Check(c) \/ ApplyPayload(c) \/ Resets(c) \/ Crash(c)

Spec == Init /\ [][Next]_vars

\* A connection that does not reset and has the file to itself, so that no read
\* of the cursor finds it locked.
LoneNext ==
  /\ Cloud \/ \E c \in Conns : Check(c) \/ ApplyPayload(c) \/ Crash(c)
  /\ \A c \in Conns : Download(c) => call'[c].base = AsInt(checkDb)
LoneSpec == Init /\ [][LoneNext]_vars

\* No crash, no failed request, no answer that is out of date.
CalmNext ==
  \/ Cloud
  \/ \E c \in Conns :
       \/ \E n \in {1, MaxTries} : Start(c, n)
       \/ ReadVersion(c) \/ ReadSeq(c) \/ AskFresh(c) \/ AskEmpty(c) \/ ApplyPayload(c)

\* The application checks again and again (API.md:390) and calls end; from some
\* time on processes and network work, and the cloud does not answer for ever
\* that nothing is ready.  Rows may fail every time, and so may the cursor's
\* writes.
Fairness ==
  /\ <>[][CalmNext]_vars
  /\ \A c \in Conns :
       /\ SF_vars(Start(c, MaxTries)) /\ SF_vars(AskFresh(c))
       /\ WF_vars(ReadVersion(c) \/ ReadSeq(c) \/ ApplyPayload(c))

FairSpec == LoneSpec /\ Fairness

(***************************************************************************)
(* Properties.                                                             *)
(***************************************************************************)
TypeOK ==
  /\ feed \subseteq Change /\ asked \subseteq Nat \X Nat
  /\ checkDb \in {0} \cup Versions /\ checkSeq \in {0} \cup Seqs
  /\ applied \subseteq Change /\ refused \subseteq Change
  /\ call \in [Conns -> Call]

\* The changes a check that started now would not ask for.
Behind == {f \in feed : ~Above(f[1], f[2], AsInt(checkDb), AsInt(checkSeq))}

\* What the cursor has passed was at least tried, though it is read and written
\* in halves by several connections and payloads come late and twice.
NoSilentGap == Behind \subseteq applied \cup refused

\* A late payload does not move the cursor back (cloudsync.c:2198): one
\* connection never asks again for what it has got.
CursorKept == [][checkDb' >= checkDb]_vars

\* Every change the cloud has is tried ("designed to be called periodically to
\* keep the local database in sync", API.md:390).
EventuallyTried == \A f \in Change : (f \in feed) ~> (f \in applied \cup refused)
=============================================================================
