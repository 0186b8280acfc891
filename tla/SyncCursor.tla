------------------------------ MODULE SyncCursor -------------------------------
(* The two cursors a site keeps in cloudsync_settings: a db_version and a seq, *)
(* each under a key of its own (src/src/dbutils.h:22).                         *)
EXTENDS Integers

CONSTANT IntMax  \* INT_MAX of the build: cursors are read as int

ASSUME IntMaxAssumption == IntMax \in Nat

\* strtol, then a conversion to int.
AsInt(n) == ((n + IntMax + 1) % (2 * (IntMax + 1))) - (IntMax + 1)

\* What dbutils_settings_get_int_value returns for n.  When its statement fails
\* the caller's buffer stays empty, and that reads as 0.
Readings(n) == {AsInt(n), 0}

\* db_version > db OR (db_version = db AND seq > s)
Above(ver, seq, db, s) == ver > db \/ (ver = db /\ seq > s)
=============================================================================
