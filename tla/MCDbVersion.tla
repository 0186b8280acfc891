------------------------------ MODULE MCDbVersion ------------------------------
(* Bounded instances of DbVersion: at most MaxTxns transactions begin, and   *)
(* at most MaxWrites statements write.  Reads, rollbacks and reopenings are  *)
(* not bounded.                                                              *)
EXTENDS DbVersion, TLC

CONSTANTS MaxTxns, MaxWrites

OneStamp == {<<3, 1>>}
NoStamps == {}

VARIABLES
  txns,     \* the transactions begun
  writes,   \* the statements that wrote
  plain     \* no key was changed, and no row brought to life from elsewhere (history)

mcvars == <<vars, txns, writes, plain>>

MCInit == Init /\ txns = 0 /\ writes = 0 /\ plain = TRUE

MCBegin(c) == txns < MaxTxns /\ txns' = txns + 1 /\ Begin(c) /\ UNCHANGED <<writes, plain>>

MCWrite(A) == writes < MaxWrites /\ writes' = writes + 1 /\ A /\ UNCHANGED txns

Free(A) == A /\ UNCHANGED <<txns, writes, plain>>

\* Connections write and receive, and commit with care.
ClockNext == \E c \in Conns :
  \/ MCBegin(c) \/ Free(Savepoint(c)) \/ Free(Abandon(c)) \/ Free(Call(c))
  \/ MCWrite(WriteRow(c) \/ ReceiveWinner(c)) /\ UNCHANGED plain
  \/ MCWrite(WriteKey(c) \/ ReceiveLife(c)) /\ plain' = FALSE
  \/ Ahead(c) /\ Free(Finish(c))
ClockSpec == MCInit /\ [][ClockNext]_mcvars

\* The same without that care, and with local statements only.
PlainNext == \E c \in Conns :
  \/ MCBegin(c) \/ Free(Call(c)) \/ Free(Finish(c)) \/ Free(Reopen(c))
  \/ MCWrite(WriteRow(c)) /\ UNCHANGED plain
PlainSpec == MCInit /\ [][PlainNext]_mcvars

\* With that care, local statements, and a table that is altered.
AlteredNext == \E c \in Conns :
  \/ MCBegin(c) \/ Free(Reopen(c))
  \/ Ahead(c) /\ Free(Finish(c))
  \/ MCWrite(WriteRow(c)) /\ UNCHANGED plain
  \/ Free(CommitAlter(c))
AlteredSpec == MCInit /\ [][AlteredNext]_mcvars

Symmetry == Permutations(Conns) \cup Permutations(Pks)

\* While users change no key and no received change brings a row to life,
\* (db_version, seq) tells a site's own changes apart.
StampsUnique == plain => OwnStampsUnique
=============================================================================
