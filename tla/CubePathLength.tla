---------------------------- MODULE CubePathLength ----------------------------
(***************************************************************************)
(* The end of CaDiCaLHandle::generateJumplist                              *)
(* (src/modules/solver/cadical_handle.cpp:301-307) for tables too large to *)
(* hold in a model: the flat cube vector is abstracted to the number of     *)
(* terminators the scan finds, which is all the path length depends on.   *)
(***************************************************************************)
EXTENDS Integers, FloatLog2

CONSTANT Counts  \* the numbers of cubes of the tables, in 1..2^29

VARIABLES
    count,                 \* pregeneratedCubesCount
    normalizedPathLength,  \* normalizedPathLength
    generated              \* generateJumplist has run

vars == <<count, normalizedPathLength, generated>>

Init ==
    /\ count \in Counts
    /\ normalizedPathLength = 0
    /\ generated = FALSE

(* Lines 301-307: the count is the number of cubes found, and the path     *)
(* length is ceil(log2f(count)).                                            *)
GenerateLength ==
    /\ ~generated
    /\ normalizedPathLength' \in CeilLog2f(count)
    /\ generated' = TRUE
    /\ UNCHANGED count

Next == GenerateLength

Spec == Init /\ [][Next]_vars

(* The spec (section 6, DIMACS input) makes the cube table one of uniform   *)
(* path length ceil(log2(N_cubes)): every cube id is the depth_shifted     *)
(* value of a path of that length, that is, the count does not exceed      *)
(* 2^normalizedPathLength, or getCubeFromPath can never reach the last     *)
(* cubes.                                                                   *)
AllCubesAddressable == generated => count <= 2^normalizedPathLength

=============================================================================
