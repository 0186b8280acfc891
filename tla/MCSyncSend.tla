------------------------------ MODULE MCSyncSend -------------------------------
(* Instances of SyncSend.  Versions is finite, which bounds the transactions; *)
(* sends, failures, crashes and resets are not bounded.                       *)
EXTENDS SyncSend, TLC

CONSTANT MaxVersion

BoundedVersions == 1..MaxVersion

\* The cells are alike, and so are the connections.
Symmetry == Permutations(Cells) \cup Permutations(Conns)

\* What was sent or is on its way of versions that are not current any more makes
\* no difference: they are not handed out again.
Current == {<<x, meta[x].ver>> : x \in Cells}
View    == <<meta, sendDb, sendSeq, cloud \cap Current,
             [c \in Conns |-> [call[c] EXCEPT !.blob = @ \cap Current]]>>
=============================================================================
