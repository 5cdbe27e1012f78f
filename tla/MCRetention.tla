---------------------------- MODULE MCRetention ----------------------------
(* Small instances of Retention for TLC.                                   *)
EXTENDS Retention, TLC

CONSTANTS c1, c2, u1, u2

OneOwner == [c \in Conn |-> u1]
TwoOwners == c1 :> u1 @@ c2 :> u2

Symmetry == Permutations(Backup) \cup Permutations(Schedule) \cup Permutations(Slot)
=============================================================================
