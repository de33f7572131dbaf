--------------------------- MODULE MC_CubeJumplist ---------------------------
(* Model values for CubeJumplist: two literals of opposite sign, tables of *)
(* up to three cubes of up to two literals, so that tables with 0, 1, 2    *)
(* and 3 cubes (path lengths 0, 1 and 2, the last with an unused path)     *)
(* and empty cubes all occur.                                              *)
EXTENDS CubeJumplist, TLC

MCLits == {1, -2}

=============================================================================
