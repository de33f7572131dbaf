------------------------------ MODULE FloatLog2 ------------------------------
(***************************************************************************)
(* The path-length computation at the end of CaDiCaLHandle::generateJumplist *)
(* (src/modules/solver/cadical_handle.cpp:306-307):                        *)
(*                                                                         *)
(*     float log = std::log2f(m_internal->pregeneratedCubesCount);          *)
(*     m_internal->normalizedPathLength = std::ceil(log);                  *)
(*                                                                         *)
(* The count (a size_t) is first converted to a single-precision float,    *)
(* which rounds to 24 significant bits, then log2f rounds its result to a  *)
(* float, and ceil is taken of that.  Both roundings are modelled by what  *)
(* they do, in integer arithmetic.  log2f is accurate to about half an ulp *)
(* but not always correctly rounded; where the exact result lies so close  *)
(* to the rounding boundary that either neighbour may be returned, both    *)
(* outcomes are allowed.                                                   *)
(***************************************************************************)
EXTENDS Integers

(* The number of bits of a positive integer below 2^30.                    *)
BitLen(n) == CHOOSE b \in 1..30 : 2^(b - 1) <= n /\ n < 2^b

(* The single-precision float nearest to the positive integer n (round to   *)
(* nearest, ties to even), as the implicit size_t -> float conversion of    *)
(* the argument of log2f does.  Integers of at most 24 bits are exact.     *)
FloatOfCount(n) ==
    IF BitLen(n) <= 24 THEN n
    ELSE LET sh == 2^(BitLen(n) - 24)
             q  == n \div sh
             r  == n % sh
         IN  IF 2 * r > sh \/ (2 * r = sh /\ q % 2 = 1)
             THEN (q + 1) * sh ELSE q * sh

(* ceil(log2f(v)) for an integral float v >= 1.  With k = floor(log2 v) and *)
(* v not a power of two, the exact logarithm lies strictly between k and   *)
(* k + 1, and the ceiling is k + 1 unless log2f rounds its result down to  *)
(* k itself.  It does so when log2(v / 2^k) is below half an ulp of k,      *)
(* 2^-m with m = 25 - BitLen(k).  With d = v - 2^k and y = d / 2^k,         *)
(* y / (1 + y) * log2(e) <= log2(1 + y) <= y * log2(e), and                *)
(* 1.442 < log2(e) < 1.443; the tests below are these bounds multiplied out *)
(* so that no intermediate exceeds 2^31, with a margin of 0.4% of the half *)
(* ulp for log2f's own error.                                              *)
Log2fCeil(v) ==
    LET k == BitLen(v) - 1
        m == 25 - BitLen(k)
        d == v - 2^k
        surelyUp   == \/ k = 0
                      \/ k < m
                      \/ d >= 2^(k - m + 1)
                      \/ d * 1442 > 1004 * 2^(k - m) + 2
        surelyDown == /\ k > 0
                      /\ k >= m
                      /\ d < 2^(k - m + 1)
                      /\ d * 1443 < 996 * 2^(k - m)
    IN  IF d = 0 THEN {k}
        ELSE (IF surelyDown THEN {} ELSE {k + 1})
             \cup (IF surelyUp THEN {} ELSE {k})

(* A path length no path reaches: the result of converting ceil(-inf) to    *)
(* size_t is undefined, and every value the build can produce for it lies   *)
(* above the path depth limit of 58, where the length comparison in         *)
(* getCubeFromPath treats them all alike.                                   *)
UndefinedLength == 59

(* Mutant of CeilLog2f: the float result assigned to the size_t without    *)
(* std::ceil, so it is truncated.                                          *)
TruncatedLog2f(n) ==
    IF n = 0 THEN {UndefinedLength} ELSE {BitLen(FloatOfCount(n)) - 1}

(* The values normalizedPathLength may receive for a count of cubes.        *)
CeilLog2f(n) ==
    IF n = 0 THEN {UndefinedLength} ELSE Log2fCeil(FloatOfCount(n))

=============================================================================
