----------------------------- MODULE CubeJumplist -----------------------------
(***************************************************************************)
(* The pregenerated cube table of a CaDiCaLHandle                          *)
(* (src/modules/solver/cadical_handle.cpp).                                *)
(*                                                                         *)
(* The cubes are kept in one flat vector of literals in which every cube   *)
(* is terminated by a 0.  generateJumplist scans it and records where each *)
(* cube starts, followed by one extra entry past the last cube, and sets   *)
(* the uniform path length ceil(log2f(count)).  getCubeFromId returns the  *)
(* literals of one cube, getCubeFromPath the cube a path of the uniform    *)
(* length designates.  The table is filled by parseFile (cubes read with  *)
(* the formula) or by lookahead (cubes generated by the engine), which     *)
(* first discards any cubes already there.                                 *)
(*                                                                         *)
(* The ghost variable ref holds the cubes as a sequence of cubes, the      *)
(* reference the jumplist lookups are compared with.                       *)
(***************************************************************************)
EXTENDS Integers, Sequences, FloatLog2

CONSTANTS
    Lits,        \* the literals cubes are made of (nonzero integers)
    MaxCubes,    \* the most cubes a table holds
    MaxCubeLen   \* the most literals a cube has

ASSUME LitsAssumption == Lits \subseteq Int \ {0}
ASSUME BoundsAssumption == MaxCubes \in Nat /\ MaxCubeLen \in Nat

VARIABLES
    cubes,                 \* *pregeneratedCubes, the flat literal vector
    jumplist,              \* *pregeneratedCubesJumplist (0-based offsets)
    count,                 \* pregeneratedCubesCount
    normalizedPathLength,  \* normalizedPathLength
    hasFormula,            \* m_hasFormula
    ref                    \* ghost: the table as a sequence of cubes

vars == <<cubes, jumplist, count, normalizedPathLength, hasFormula, ref>>

(* The sequences of at most n elements of S.                              *)
SeqsUpTo(S, n) == UNION {[1..m -> S] : m \in 0..n}

(* The cubes and the tables of cubes the inputs are drawn from.            *)
Cube == SeqsUpTo(Lits, MaxCubeLen)
CubeTables == SeqsUpTo(Cube, MaxCubes)

(* The flat vector after the first k cubes of table t have been copied:    *)
(* each cube's literals pushed, then its 0, as lookahead copies the        *)
(* generated cubes (lines 559-563) and read_dimacs stores "a <lit>* 0"      *)
(* lines.                                                                  *)
FlatPrefix(t) ==
    LET fl[k \in 0..Len(t)] ==
            IF k = 0 THEN <<>> ELSE fl[k - 1] \o t[k] \o <<0>>
    IN  fl

(* The flat vector holding the whole table t.                              *)
Flatten(t) == FlatPrefix(t)[Len(t)]

(* Mutant of Scan: lastStart = i + 2, an off-by-one past the terminator.  *)
ScanPastStart(flat) ==
    LET step[n \in 0..Len(flat)] ==
            IF n = 0 THEN [starts |-> <<>>, lastStart |-> 0]
            ELSE IF flat[n] = 0
                 THEN [starts |-> Append(step[n - 1].starts, step[n - 1].lastStart),
                       lastStart |-> n + 1]
                 ELSE step[n - 1]
    IN  step[Len(flat)]

(* The states of the scan loop of generateJumplist (lines 290-299): step[n] *)
(* holds the starts recorded after the first n literals and lastStart.     *)
(* Literal n has the 0-based index i = n - 1, so lastStart = i + 1 = n     *)
(* after a terminator.                                                     *)
ScanSteps(flat) ==
    LET step[n \in 0..Len(flat)] ==
            IF n = 0 THEN [starts |-> <<>>, lastStart |-> 0]
            ELSE IF flat[n] = 0
                 THEN [starts |-> Append(step[n - 1].starts, step[n - 1].lastStart),
                       lastStart |-> n]
                 ELSE step[n - 1]
    IN  step

(* The scan loop of generateJumplist (lines 290-299) run over the whole    *)
(* vector: the start of every cube, and lastStart after the last 0.        *)
Scan(flat) == ScanSteps(flat)[Len(flat)]

(* Mutant of GenerateJumplist: the count is taken after the sentinel entry *)
(* has been pushed (lines 301-304 in the other order).                     *)
GenerateJumplistCountAfterPush(flat) ==
    LET s == Scan(flat) IN
    {[jumplist |-> Append(s.starts, s.lastStart), count |-> Len(s.starts) + 1,
      normalizedPathLength |-> l] : l \in CeilLog2f(Len(s.starts) + 1)}

(* generateJumplist (lines 285-314) on the flat vector flat: the count is  *)
(* the number of starts, the jumplist gets lastStart appended, and the     *)
(* path length is one of the values ceil(log2f(count)) can take.  Returns  *)
(* the set of possible outcomes.                                           *)
GenerateJumplist(flat) ==
    LET s == Scan(flat) IN
    {[jumplist |-> Append(s.starts, s.lastStart), count |-> Len(s.starts),
      normalizedPathLength |-> l] : l \in CeilLog2f(Len(s.starts))}

(* getCubeFromId (lines 247-263): an id past the table gives the empty     *)
(* range; otherwise the literals from jumplist[id] up to, not including,  *)
(* the 0 before jumplist[id + 1].  Offsets are 0-based, TLA+ indices      *)
(* 1-based.                                                                *)
GetCubeFromId(id) ==
    IF id >= count THEN <<>>
    ELSE SubSeq(cubes, jumplist[id + 1] + 1, jumplist[id + 2] - 1)

(* A path as getCubeFromPath sees it: its length and its bits              *)
(* right-justified (parac_path_get_depth_shifted), below 2^length.         *)
PathsOfLength(l) == [length : {l}, shifted : 0..(2^l - 1)]

(* getCubeFromPath (lines 264-274): a path of any other length than the    *)
(* uniform one gives the empty range.                                      *)
GetCubeFromPath(p) ==
    IF p.length # normalizedPathLength THEN <<>>
    ELSE GetCubeFromId(p.shifted)

Init ==
    /\ cubes = <<>>
    /\ jumplist = <<>>
    /\ count = 0
    /\ normalizedPathLength = 0
    /\ hasFormula = FALSE
    /\ ref = <<>>

(* parseFile (lines 192-237) succeeding: read_dimacs fills the flat vector *)
(* with the cubes of the file, and the jumplist is generated only if the  *)
(* vector is not empty.                                                    *)
ParseFile ==
    /\ ~hasFormula
    /\ \E t \in CubeTables :
        /\ cubes' = Flatten(t)
        /\ ref' = t
        /\ IF t = <<>>
           THEN UNCHANGED <<jumplist, count, normalizedPathLength>>
           ELSE \E g \in GenerateJumplist(Flatten(t)) :
                    /\ jumplist' = g.jumplist
                    /\ count' = g.count
                    /\ normalizedPathLength' = g.normalizedPathLength
    /\ hasFormula' = TRUE

(* The state lookahead leaves before generating: if cubes were present,    *)
(* the vector and the jumplist are cleared and the count reset, but not    *)
(* normalizedPathLength (lines 526-535).                                   *)
ClearedCount == IF cubes = <<>> THEN count ELSE 0
ClearedJumplist == IF cubes = <<>> THEN jumplist ELSE <<>>

(* lookahead (lines 520-584) when generate_cubes reports SAT (10) or UNSAT *)
(* (20): it returns after the clearing, before any cube is stored.          *)
LookaheadDecided ==
    /\ hasFormula
    /\ cubes' = <<>>
    /\ count' = ClearedCount
    /\ jumplist' = ClearedJumplist
    /\ ref' = <<>>
    /\ UNCHANGED <<normalizedPathLength, hasFormula>>

(* lookahead returning SPLITTED: the generated cubes are appended to the   *)
(* cleared vector with their terminators and generateJumplist is called    *)
(* (lines 559-571), whatever their number.                                 *)
LookaheadSplitted ==
    /\ hasFormula
    /\ \E t \in CubeTables :
        /\ cubes' = Flatten(t)
        /\ ref' = t
        /\ \E g \in GenerateJumplist(Flatten(t)) :
            /\ jumplist' = g.jumplist
            /\ count' = g.count
            /\ normalizedPathLength' = g.normalizedPathLength
    /\ UNCHANGED hasFormula

Next == ParseFile \/ LookaheadDecided \/ LookaheadSplitted

Spec == Init /\ [][Next]_vars

-----------------------------------------------------------------------------

TypeOK ==
    /\ cubes \in Seq(Lits \cup {0})
    /\ jumplist \in Seq(0..Len(cubes))
    /\ count \in Nat
    /\ normalizedPathLength \in Nat
    /\ hasFormula \in BOOLEAN
    /\ ref \in CubeTables

(* The ids 0 .. count - 1 getCubeFromId answers for.                       *)
CubeIds == 0..(count - 1)

(* getCubeFromId returns, for every id below the count, exactly the        *)
(* literals of cube id of the table that was read or generated, without   *)
(* its terminating 0, and the count is the number of cubes: the jumplist   *)
(* built by generateJumplist's scan and the -1 in getCubeFromId agree with *)
(* the layout of the flat vector.                                          *)
CubeTableMatches ==
    hasFormula =>
        /\ count = Len(ref)
        /\ \A id \in CubeIds : GetCubeFromId(id) = ref[id + 1]

(* The layout the table keeps between calls, which makes                  *)
(* CubeTableMatches hold in every state: the flat vector is the table's    *)
(* cubes each followed by its 0, the count is their number, and once there *)
(* is a cube the jumplist holds the offset of every cube's first literal   *)
(* followed by the length of the vector.  Before parseFile nothing is      *)
(* stored, which is what lets parseFile keep count and jumplist when the   *)
(* file has no cubes, and lookahead keep them when the vector is empty.    *)
CubeInv ==
    /\ ref \in Seq(Seq(Lits))
    /\ cubes = Flatten(ref)
    /\ count = Len(ref)
    /\ ~hasFormula => ref = <<>>
    /\ Len(ref) > 0 =>
           jumplist = [i \in 1..Len(ref) + 1 |-> Len(FlatPrefix(ref)[i - 1])]

(* Every cube of the table is reached by some path of the uniform length:  *)
(* the ceil(log2f(count)) of generateJumplist leaves no cube id at or      *)
(* beyond 2^normalizedPathLength, where getCubeFromPath could never        *)
(* designate it.                                                           *)
CubeTableAddressable ==
    \A id \in CubeIds :
        \E p \in PathsOfLength(normalizedPathLength) :
            GetCubeFromPath(p) = ref[id + 1]

=============================================================================
