--------------------------- MODULE MCCloudSyncMerge ---------------------------
(* Bounded instances of CloudSyncMerge and GrowOnlySet: the users of all     *)
(* sites together make at most MaxWrites statements.  Changes are then       *)
(* finitely many, and they may be delivered any number of times.             *)
EXTENDS GrowOnlySet, TLC

CONSTANTS
  MaxWrites,
  Rekeyers   \* the sites that delete and re-key, in RekeySpec

VARIABLES
  writes,    \* the statements made
  scene      \* what users do: chosen once

mcvars == <<db, seen, writes, scene>>

\* Two rows and the overwriting take three statements: one more may follow.
Bound == IF scene = "over" THEN MaxWrites + 1 ELSE MaxWrites

Write(A) == writes < Bound /\ writes' = writes + 1 /\ A /\ UNCHANGED scene

Free(A) == A /\ UNCHANGED <<writes, scene>>

MCInit(S) == Init /\ writes = 0 /\ scene \in S

\* Rows are written, primary keys never change; the application starts again.
RowNext == \E s \in Sites : Write(WriteRow(s)) \/ Free(Refill(s)) \/ Free(Receive(s))
RowSpec == MCInit({"rows"}) /\ [][RowNext]_mcvars

\* Primary keys change, to a key that is free ("rekey") or with OR REPLACE onto
\* a row that exists ("over"); or the table is a grow-only set ("gos").
KeyNext == \E s \in Sites :
  \/ scene # "gos" /\ (Write(WriteRow(s)) \/ Free(Receive(s)))
  \/ scene = "rekey" /\ Write(WriteKey(s))
  \/ scene = "over" /\ Write(OverwriteKey(s))
  \/ scene = "gos" /\ (Write(GosWrite(s)) \/ Free(Refill(s)) \/ Free(GosReceive(s)))
KeySpec == MCInit({"rekey", "over", "gos"}) /\ [][KeyNext]_mcvars

\* Rows are created anywhere; only the sites of Rekeyers delete and re-key
\* them, and a row holds one value in all its columns.
Uniform == {[c \in Cols |-> v] : v \in Values \ {Null}}

RekeyNext ==
  \E s \in Sites :
    \/ \E p \in Pks, vals \in Uniform : Write(Insert(s, p, vals))
    \/ /\ s \in Rekeyers
       /\ \E p, q \in Pks :
             Write(Delete(s, p) \/ MovePk(s, p, q, db[s][p].val))
    \/ Free(Receive(s))
RekeySpec == MCInit({"rows"}) /\ [][RekeyNext]_mcvars

Symmetry == Permutations(Sites) \cup Permutations(Cols) \cup Permutations(Pks)

\* While no key is overwritten the changes a site has seen determine its rows,
\* metadata that moves to a new key included (cloudsync_update).
JoinUntilOverwritten == scene = "rekey" => JoinOfSeen /\ Convergence

\* The same steps are steps of the abstract map: neither the old key nor the
\* new one is moved back, and nothing is exported that the site does not hold.
RekeyRefinesLww == [][scene = "rekey" => Lww!Next]_(Lww!vars)

\* See GrowOnlySet.
GosElements == scene = "gos" => ElementsOfSeen
=============================================================================
