-------------------------- MODULE MC_CubePathLength --------------------------
(* Tables of 2^20 + 1 cubes (computed correctly) and 2^21 + 1 cubes, the    *)
(* smallest count at which log2f rounds down to an integer.                *)
EXTENDS CubePathLength, TLC

MCCounts == {2^20 + 1, 2^21 + 1}

=============================================================================
