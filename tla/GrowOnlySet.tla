----------------------------- MODULE GrowOnlySet ------------------------------
(***************************************************************************)
(* A table of the algorithm "gos", the grow-only set.  Its metadata and    *)
(* its insert trigger are those of CloudSyncMerge; UPDATE and DELETE are   *)
(* rejected by a trigger; and a received column is written whatever is     *)
(* there: cloudsync_merge_insert_gos compares no version and no causal     *)
(* length.                                                                 *)
(***************************************************************************)
EXTENDS CloudSyncMerge

\* The triggers cloudsync_before_update and cloudsync_before_delete abort.
\* REPLACE removes the row it replaces without firing either.
GosWrite(s) ==
  \E p \in Pks, vals \in [Cols -> Values] : Insert(s, p, vals) \/ Replace(s, p, vals)

BrokenGosMerge(r, s, m) == IF r.live THEN [r EXCEPT !.ver[m.col] = m.ver] ELSE MergeCol(r, s, m)
\* cloudsync_merge_insert_gos is merge_insert_col alone.
GosMerge(r, s, m) == MergeCol(r, s, m)

\* A sentinel has no prepared column statement: merging one fails, and
\* changes nothing.
GosDeliver(s, m) ==
  /\ m.col # Rip
  /\ Commit(s, [db[s] EXCEPT ![m.pk] = GosMerge(@, s, m)], {m})

GosReceive(s) == \E m \in Known : GosDeliver(s, m)

GosNext == \E s \in Sites : GosWrite(s) \/ Refill(s) \/ GosReceive(s)

GosSpec == Init /\ [][GosNext]_vars

(***************************************************************************)
(* Properties.                                                             *)
(***************************************************************************)
\* A site has exactly the elements of which it has seen a change, in their
\* first life for ever, and what it stores of a column is what some change it
\* has seen carried: unconditional writes lose no element and mix up no value,
\* though two sites may keep different ones ("Once an element is added to the
\* set, it remains there permanently", dbutils.c:577).
ElementsOfSeen ==
  \A s \in Sites, p \in Pks :
    LET r == db[s][p] S == SeenOf(s, p)
    IN  /\ r.live <=> S # {}
        /\ LocalCl(r) = IF S = {} THEN 0 ELSE 1
        /\ \A c \in Cols : r.ver[c] # None => \E m \in S : Attains(m, r, c)
=============================================================================
