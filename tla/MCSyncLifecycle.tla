-------------------------- MODULE MCSyncLifecycle --------------------------
(* Small instances of SyncLifecycle for TLC.                               *)
EXTENDS SyncLifecycle, TLC

Symmetry == Permutations(Slot) \cup Permutations(Timer) \cup Permutations(Job)
            \cup Permutations(Run)
=============================================================================
