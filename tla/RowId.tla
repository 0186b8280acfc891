--------------------------------- MODULE RowId ---------------------------------
(***************************************************************************)
(* The rowid of cloudsync_changes (src/src/vtab.c, src/src/utils.c): the   *)
(* db_version and seq of a change in one 64-bit integer.                   *)
(***************************************************************************)
EXTENDS Integers

CONSTANTS
  SeqSpan,   \* 2^30 in the code
  DbSpan     \* 2^34: what is left of 64 bits

ASSUME SpanAssumption == SeqSpan \in Nat \ {0} /\ DbSpan \in Nat \ {0}

Unsigned == DbSpan * SeqSpan

BrokenRowid(ver, seq) ==
  LET u == ver * SeqSpan + seq IN IF 2 * u < Unsigned THEN u ELSE 2 * u - Unsigned
\* (db_version << 30) | seq, for a seq of 30 bits, as a signed integer: from
\* half of DbSpan on it is negative.
Rowid(ver, seq) ==
  LET u == ver * SeqSpan + seq IN IF 2 * u < Unsigned THEN u ELSE u - Unsigned

\* cloudsync_rowid_decode, in unsigned arithmetic.
RowidDecode(rowid) ==
  LET u == IF rowid < 0 THEN rowid + Unsigned ELSE rowid
  IN  [ver |-> u \div SeqSpan, seq |-> u % SeqSpan]
===============================================================================
