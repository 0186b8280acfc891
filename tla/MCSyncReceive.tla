----------------------------- MODULE MCSyncReceive -----------------------------
(* Instances of SyncReceive.  Versions and Seqs are finite, which bounds what  *)
(* the cloud publishes; checks, failures, crashes and resets are not bounded.  *)
EXTENDS SyncReceive, TLC

CONSTANT MaxVersion

BoundedVersions == 1..MaxVersion

\* The connections are alike.
Symmetry == Permutations(Conns)

=============================================================================
