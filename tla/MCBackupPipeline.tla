------------------------- MODULE MCBackupPipeline -------------------------
(* Small instances of BackupPipeline for TLC.                             *)
EXTENDS BackupPipeline, TLC

CONSTANTS b1, b2, c1, c2, u1, u2, q1, q2

OneOwner == [c \in Conn |-> u1]

BackupSymmetry == Permutations({b1, b2})
Symmetry == BackupSymmetry \cup Permutations({q1, q2})
=============================================================================
