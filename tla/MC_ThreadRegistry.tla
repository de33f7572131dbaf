------------------------ MODULE MC_ThreadRegistry ------------------------
(* Three create calls: enough for a failed create between two started     *)
(* threads, and for the join loop to wait on a thread that is still        *)
(* running while a later one has exited.                                   *)
EXTENDS ThreadRegistry, TLC
=============================================================================
