--------------------------- MODULE MCTableLifecycle ----------------------------
(* Bounded instances of TableLifecycle: at most MaxWrites rows are inserted,  *)
(* updated or deleted, and there are at most MaxCalls initialisations,        *)
(* alterations, statements of DDL, cleanups, enablings, disablings and        *)
(* terminations.                                                              *)
(* Transactions, rollbacks, closed connections and crashes are not bounded.   *)
EXTENDS TableLifecycle, TLC

CONSTANTS MaxWrites, MaxCalls

NarrowOrWide == {<<"x">>, <<"x", "y">>}   \* a column added to the key
Renamed      == {<<"x">>, <<"y">>}        \* the key moved to another column

VARIABLES writes, calls

mcvars == <<vars, writes, calls>>

MCInit == Init /\ file.key = <<"x">> /\ writes = 0 /\ calls = 0

Rows(A)  == writes < MaxWrites /\ writes' = writes + 1 /\ A /\ UNCHANGED calls
Calls(A) == calls < MaxCalls /\ calls' = calls + 1 /\ A /\ UNCHANGED writes
Free(A)  == A /\ UNCHANGED <<writes, calls>>

\* CarefulNext within these bounds.
MCNext == \E c \in Conns :
  \/ Fresh(c) /\ Calls(Administers(c))
  \/ (Fresh(c) \/ save # {}) /\ Rows(Writes(c))
  \/ Calls(Ddl(c)) \/ Calls(EnableDisable(c)) \/ Calls(InitFails(c)) \/ Calls(Terminate(c))
  \/ Free(Load(c)) \/ Free(CommitAlter(c)) \/ Free(Finish(c))
  \/ Free(Begin(c)) \/ Free(Commit(c)) \/ Free(Rollback(c)) \/ Free(Reopen(c))

LifecycleSpec == MCInit /\ [][MCNext]_mcvars

Symmetry == Permutations(Conns) \cup Permutations(Pks)
=============================================================================
