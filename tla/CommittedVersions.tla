-------------------------- MODULE CommittedVersions ---------------------------
(***************************************************************************)
(* What the version clock of a database promises to those who read its     *)
(* metadata with a cursor: the committed metadata changes in transactions, *)
(* and what a transaction writes has versions above everything committed   *)
(* before; rows may go, but never the last word about the version.         *)
(*                                                                         *)
(* DbVersion implements this module; SyncSend, which is about the readers, *)
(* takes no more than this for granted and implements it too.              *)
(***************************************************************************)
EXTENDS Integers

CONSTANT Cells    \* what a metadata row is about

VARIABLE rows     \* rows[x]: the committed metadata row of x

Nothing == [ver |-> 0, seq |-> 0, own |-> FALSE]

Init == rows = [x \in Cells |-> Nothing]

\* Row r is above every row of the table.
Above(r) == \A y \in Cells : rows[y].ver < r.ver

Transaction ==
  /\ \A x \in Cells : rows'[x] # rows[x] => rows'[x] = Nothing \/ Above(rows'[x])
  /\ \A x \in Cells : \E y \in Cells : rows[x].ver <= rows'[y].ver

Spec == Init /\ [][Transaction]_rows
===============================================================================
