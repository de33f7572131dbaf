-------------------------- MODULE CubeJumplist_proofs --------------------------
(***************************************************************************)
(* Proofs about the cube table of a CaDiCaLHandle, for every number of     *)
(* cubes and every cube length: the jumplist built by generateJumplist and *)
(* read back by getCubeFromId gives back exactly the cubes copied into the *)
(* flat vector.  Induction over the cubes and over the literals of the     *)
(* vector is done through the least counterexample (WFMin on the naturals). *)
(* The inductive invariant is CubeInv of CubeJumplist.                     *)
(***************************************************************************)
EXTENDS CubeJumplist, NaturalsInduction, WellFoundedInduction, SequenceTheorems, TLAPS

(* The recursive definition of the copy loop unfolds: after k > 0 cubes,    *)
(* the vector after k - 1 cubes, then cube k, then its 0.                  *)
LEMMA FlatPrefixDef ==
  ASSUME NEW t \in Seq(Seq(Int))
  PROVE  FlatPrefix(t) = [k \in 0..Len(t) |->
                            IF k = 0 THEN <<>> ELSE FlatPrefix(t)[k - 1] \o t[k] \o <<0>>]
  <1> DEFINE fl == FlatPrefix(t)
  <1>0. 0 \in Nat /\ Len(t) \in Nat
    OBVIOUS
  <1>1. FiniteNatInductiveDefHypothesis(fl, <<>>, LAMBDA v, k : v \o t[k] \o <<0>>, 0, Len(t))
    BY DEF FiniteNatInductiveDefHypothesis, FlatPrefix
  <1>2. FiniteNatInductiveDefConclusion(fl, <<>>, LAMBDA v, k : v \o t[k] \o <<0>>, 0, Len(t))
    BY <1>0, <1>1, FiniteNatInductiveDef
  <1>3. QED
    BY <1>2 DEF FiniteNatInductiveDefConclusion

(* The recursive definition of the scan loop unfolds likewise.             *)
LEMMA ScanStepsDef ==
  ASSUME NEW flat \in Seq(Int)
  PROVE  ScanSteps(flat) =
           [n \in 0..Len(flat) |->
              IF n = 0 THEN [starts |-> <<>>, lastStart |-> 0]
              ELSE IF flat[n] = 0
                   THEN [starts |-> Append(ScanSteps(flat)[n - 1].starts,
                                           ScanSteps(flat)[n - 1].lastStart),
                         lastStart |-> n]
                   ELSE ScanSteps(flat)[n - 1]]
  <1> DEFINE st == ScanSteps(flat)
             Def(v, n) == IF flat[n] = 0
                          THEN [starts |-> Append(v.starts, v.lastStart), lastStart |-> n]
                          ELSE v
  <1>0. 0 \in Nat /\ Len(flat) \in Nat
    OBVIOUS
  <1>1. FiniteNatInductiveDefHypothesis(st, [starts |-> <<>>, lastStart |-> 0],
                                        LAMBDA v, n : Def(v, n), 0, Len(flat))
    BY DEF FiniteNatInductiveDefHypothesis, ScanSteps
  <1>2. FiniteNatInductiveDefConclusion(st, [starts |-> <<>>, lastStart |-> 0],
                                        LAMBDA v, n : Def(v, n), 0, Len(flat))
    BY <1>0, <1>1, FiniteNatInductiveDef
  <1>3. QED
    BY <1>2 DEF FiniteNatInductiveDefConclusion

(* A nonempty set of naturals has a least element: the form of induction   *)
(* the proofs below use (WFMin on the naturals).                           *)
LEMMA LeastElement ==
  ASSUME NEW T \in SUBSET Nat, T # {}
  PROVE  \E x \in T : \A y \in T : ~(y < x)
  <1>1. \E x \in T : \A y \in T : ~(<<y, x>> \in OpToRel(<, Nat))
    BY WFMin, NatLessThanWellFounded
  <1>2. QED
    BY <1>1 DEF OpToRel

(* Appending a cube and its 0 to a vector of literals: the old literals stay,*)
(* the cube follows them, the 0 ends it.                                   *)
LEMMA AppendCube ==
  ASSUME NEW s \in Seq(Int), NEW u \in Seq(Int)
  PROVE  /\ s \o u \o <<0>> \in Seq(Int)
         /\ Len(s \o u \o <<0>>) = Len(s) + Len(u) + 1
         /\ \A p \in 1..Len(s) : (s \o u \o <<0>>)[p] = s[p]
         /\ \A j \in 1..Len(u) : (s \o u \o <<0>>)[Len(s) + j] = u[j]
         /\ (s \o u \o <<0>>)[Len(s) + Len(u) + 1] = 0
  OBVIOUS

(* Bounds on the offsets a, a + c and a + c + 1 of a cube of c literals    *)
(* stored after a literals.                                                *)
LEMMA SumBounds ==
  ASSUME NEW a \in Nat, NEW c \in Nat, NEW b, b = a + c + 1
  PROVE  /\ a <= b /\ b \in Nat /\ b \in 1..b /\ b - 1 = a + c /\ a + c <= b
         /\ \A j \in 1..c : a + j \in 1..b
  OBVIOUS

(* A slice of F that agrees with u literal by literal is u.                *)
LEMMA SubSeqSlice ==
  ASSUME NEW F \in Seq(Int), NEW u \in Seq(Int), NEW a \in Nat,
         a + Len(u) <= Len(F), \A j \in 1..Len(u) : F[a + j] = u[j]
  PROVE  SubSeq(F, a + 1, a + Len(u)) = u
  <1>1. \A i \in a + 1 .. a + Len(u) : F[i] \in Int
    OBVIOUS
  <1>2. /\ SubSeq(F, a + 1, a + Len(u)) \in Seq(Int)
        /\ Len(SubSeq(F, a + 1, a + Len(u))) = Len(u)
        /\ \A i \in 1..Len(u) : SubSeq(F, a + 1, a + Len(u))[i] = F[a + i]
    BY <1>1, SubSeqProperties
  <1>3. QED
    BY <1>2, SeqEqual

(* Transitivity of <= on the integers, cited where SMT would need it       *)
(* under quantifiers.                                                      *)
LEMMA LeTrans ==
  ASSUME NEW a \in Int, NEW b \in Int, NEW c \in Int, a <= b, b <= c
  PROVE  a <= c
  OBVIOUS

(* fl[k] is the vector after the copy loop has stored the first k cubes of t.*)
IsFlatPrefix(t, fl) ==
    /\ fl[0] = <<>>
    /\ \A k \in 1..Len(t) : fl[k] = fl[k - 1] \o t[k] \o <<0>>

(* Every prefix of the copy loop is a vector of integers, and each cube    *)
(* adds its literals and its 0 to the length.                              *)
LEMMA PrefixType ==
  ASSUME NEW t \in Seq(Seq(Int)), NEW fl, IsFlatPrefix(t, fl)
  PROVE  /\ \A k \in 0..Len(t) : fl[k] \in Seq(Int)
         /\ \A k \in 1..Len(t) : Len(fl[k]) = Len(fl[k - 1]) + Len(t[k]) + 1
  <1> DEFINE Bad == {k \in 0..Len(t) : fl[k] \notin Seq(Int)}
  <1>1. \A k \in 0..Len(t) : fl[k] \in Seq(Int)
    <2> SUFFICES ASSUME NEW k0 \in Bad PROVE FALSE
      BY DEF Bad
    <2>0. Bad \in SUBSET Nat
      BY DEF Bad
    <2>1. PICK x \in Bad : \A y \in Bad : ~(y < x)
      BY <2>0, LeastElement
    <2>2. fl[0] \in Seq(Int)
      BY DEF IsFlatPrefix
    <2>3. x \in 1..Len(t)
      BY <2>1, <2>2 DEF Bad
    <2>4. fl[x - 1] \in Seq(Int)
      BY <2>1, <2>3 DEF Bad
    <2>5. fl[x] = fl[x - 1] \o t[x] \o <<0>>
      BY <2>3 DEF IsFlatPrefix
    <2>6. fl[x] \in Seq(Int)
      BY <2>3, <2>4, <2>5, AppendCube
    <2>7. QED
      BY <2>1, <2>6 DEF Bad
  <1>2. \A k \in 1..Len(t) : Len(fl[k]) = Len(fl[k - 1]) + Len(t[k]) + 1
    <2> SUFFICES ASSUME NEW k \in 1..Len(t)
                 PROVE  Len(fl[k]) = Len(fl[k - 1]) + Len(t[k]) + 1
      OBVIOUS
    <2>1. fl[k] = fl[k - 1] \o t[k] \o <<0>>
      BY DEF IsFlatPrefix
    <2>2. fl[k - 1] \in Seq(Int) /\ t[k] \in Seq(Int)
      BY <1>1
    <2>3. QED
      BY <2>1, <2>2, AppendCube
  <1>3. QED
    BY <1>1, <1>2

(* Vector fl[m] extends every earlier vector fl[k], k <= m: copying a cube *)
(* never overwrites what was stored before it.                             *)
PrefixesKept(fl, m) ==
    \A k \in 0..m : /\ Len(fl[k]) <= Len(fl[m])
                    /\ \A p \in 1..Len(fl[k]) : fl[m][p] = fl[k][p]

(* Storing cube x keeps the prefixes that vector x - 1 kept.               *)
LEMMA PrefixKeptStep ==
  ASSUME NEW t \in Seq(Seq(Int)), NEW fl, IsFlatPrefix(t, fl),
         NEW x \in 1..Len(t), PrefixesKept(fl, x - 1)
  PROVE  PrefixesKept(fl, x)
  <1>0. \A k \in 0..Len(t) : fl[k] \in Seq(Int)
    BY PrefixType
  <1>1. fl[x] = fl[x - 1] \o t[x] \o <<0>>
    BY DEF IsFlatPrefix
  <1>2. fl[x - 1] \in Seq(Int) /\ t[x] \in Seq(Int)
    BY <1>0
  <1>3. /\ Len(fl[x - 1] \o t[x] \o <<0>>) = Len(fl[x - 1]) + Len(t[x]) + 1
        /\ \A p \in 1..Len(fl[x - 1]) : (fl[x - 1] \o t[x] \o <<0>>)[p] = fl[x - 1][p]
    BY <1>2, AppendCube
  <1>4. /\ Len(fl[x - 1]) <= Len(fl[x])
        /\ \A p \in 1..Len(fl[x - 1]) : fl[x][p] = fl[x - 1][p]
    <2>1. Len(fl[x]) = Len(fl[x - 1]) + Len(t[x]) + 1
      BY <1>1, <1>3, Zenon
    <2>2. \A p \in 1..Len(fl[x - 1]) : fl[x][p] = fl[x - 1][p]
      BY <1>1, <1>3, Zenon
    <2>3. Len(fl[x - 1]) \in Nat /\ Len(t[x]) \in Nat
      BY <1>2
    <2>4. QED
      BY <2>1, <2>2, <2>3, SumBounds, Zenon
  <1> SUFFICES ASSUME NEW k \in 0..x
               PROVE  /\ Len(fl[k]) <= Len(fl[x])
                      /\ \A p \in 1..Len(fl[k]) : fl[x][p] = fl[k][p]
    BY DEF PrefixesKept
  <1>5. CASE k = x
    BY <1>5
  <1>6. CASE k # x
    <2>1. k \in 0..x - 1
      BY <1>6
    <2>2. /\ Len(fl[k]) <= Len(fl[x - 1])
          /\ \A p \in 1..Len(fl[k]) : fl[x - 1][p] = fl[k][p]
      BY <2>1 DEF PrefixesKept
    <2>3. fl[k] \in Seq(Int) /\ fl[x] \in Seq(Int)
      BY <2>1, <1>0
    <2>4. Len(fl[k]) <= Len(fl[x])
      BY <1>2, <1>4, <2>2, <2>3, LeTrans
    <2>5. \A p \in 1..Len(fl[k]) : p \in 1..Len(fl[x - 1])
      BY <1>2, <2>2, <2>3
    <2>6. \A p \in 1..Len(fl[k]) : fl[x][p] = fl[k][p]
      BY <1>4, <2>2, <2>5, Zenon
    <2>7. QED
      BY <2>4, <2>6
  <1>7. QED
    BY <1>5, <1>6

(* Every vector of the copy loop extends all the earlier ones.             *)
LEMMA PrefixKept ==
  ASSUME NEW t \in Seq(Seq(Int)), NEW fl, IsFlatPrefix(t, fl)
  PROVE  \A m \in 0..Len(t) : PrefixesKept(fl, m)
  <1> DEFINE Bad == {m \in 0..Len(t) : ~PrefixesKept(fl, m)}
  <1> SUFFICES ASSUME NEW m0 \in Bad PROVE FALSE
    OBVIOUS
  <1>0. Bad \in SUBSET Nat
    OBVIOUS
  <1>1. PICK x \in Bad : \A y \in Bad : ~(y < x)
    BY <1>0, LeastElement
  <1>2. PrefixesKept(fl, 0)
    BY DEF PrefixesKept
  <1>3. x \in 1..Len(t)
    BY <1>2
  <1>4. x - 1 \notin Bad
    <2>1. x - 1 \in Nat /\ x - 1 < x
      BY <1>3
    <2>2. QED
      BY <2>1, <1>1
  <1>5. PrefixesKept(fl, x - 1)
    BY <1>3, <1>4
  <1>6. PrefixesKept(fl, x)
    BY <1>3, <1>5, PrefixKeptStep
  <1>7. QED
    BY <1>6

(* In the final vector, cube k sits right after the vector of the first    *)
(* k - 1 cubes, its 0 right after it, and the slice between is cube k.     *)
LEMMA CubeContent ==
  ASSUME NEW t \in Seq(Seq(Int)), NEW fl, IsFlatPrefix(t, fl), NEW k \in 1..Len(t)
  PROVE  /\ \A j \in 1..Len(t[k]) : fl[Len(t)][Len(fl[k - 1]) + j] = t[k][j]
         /\ fl[Len(t)][Len(fl[k])] = 0
         /\ SubSeq(fl[Len(t)], Len(fl[k - 1]) + 1, Len(fl[k]) - 1) = t[k]
  <1>0. \A i \in 0..Len(t) : fl[i] \in Seq(Int)
    BY PrefixType
  <1>1. fl[k] = fl[k - 1] \o t[k] \o <<0>>
    BY DEF IsFlatPrefix
  <1>2. fl[k - 1] \in Seq(Int) /\ t[k] \in Seq(Int) /\ fl[Len(t)] \in Seq(Int)
    BY <1>0
  <1>3. \A p \in 1..Len(fl[k]) : fl[Len(t)][p] = fl[k][p]
    <2>1. PrefixesKept(fl, Len(t))
      BY PrefixKept
    <2>2. QED
      BY <2>1 DEF PrefixesKept
  <1>4. /\ Len(fl[k - 1] \o t[k] \o <<0>>) = Len(fl[k - 1]) + Len(t[k]) + 1
        /\ \A j \in 1..Len(t[k]) : (fl[k - 1] \o t[k] \o <<0>>)[Len(fl[k - 1]) + j] = t[k][j]
        /\ (fl[k - 1] \o t[k] \o <<0>>)[Len(fl[k - 1]) + Len(t[k]) + 1] = 0
    BY <1>2, AppendCube
  <1>5. /\ Len(fl[k]) = Len(fl[k - 1]) + Len(t[k]) + 1
        /\ \A j \in 1..Len(t[k]) : fl[k][Len(fl[k - 1]) + j] = t[k][j]
        /\ fl[k][Len(fl[k - 1]) + Len(t[k]) + 1] = 0
    BY <1>1, <1>4, Zenon
  <1>6. Len(fl[k - 1]) \in Nat /\ Len(t[k]) \in Nat
    BY <1>2
  <1>7. \A j \in 1..Len(t[k]) : fl[Len(t)][Len(fl[k - 1]) + j] = t[k][j]
    <2> SUFFICES ASSUME NEW j \in 1..Len(t[k])
                 PROVE  fl[Len(t)][Len(fl[k - 1]) + j] = t[k][j]
      OBVIOUS
    <2>1. Len(fl[k - 1]) + j \in 1..Len(fl[k])
      BY <1>5, <1>6, SumBounds, Zenon
    <2>2. QED
      BY <2>1, <1>3, <1>5
  <1>8. fl[Len(t)][Len(fl[k])] = 0
    <2>1. Len(fl[k]) \in 1..Len(fl[k])
      BY <1>5, <1>6, SumBounds, Zenon
    <2>2. QED
      BY <2>1, <1>3, <1>5
  <1>9. SubSeq(fl[Len(t)], Len(fl[k - 1]) + 1, Len(fl[k]) - 1) = t[k]
    <2>1. Len(fl[k]) - 1 = Len(fl[k - 1]) + Len(t[k])
      BY <1>5, <1>6, SumBounds, Zenon
    <2>2. Len(fl[k]) <= Len(fl[Len(t)]) /\ Len(fl[k - 1]) + Len(t[k]) <= Len(fl[k])
      <3>1. PrefixesKept(fl, Len(t))
        BY PrefixKept
      <3>2. Len(fl[k]) <= Len(fl[Len(t)])
        BY <3>1 DEF PrefixesKept
      <3>3. QED
        BY <3>2, <1>5, <1>6, SumBounds, Zenon
    <2>3. Len(fl[k - 1]) + Len(t[k]) <= Len(fl[Len(t)])
      <3>1. Len(fl[k]) \in Int /\ Len(fl[Len(t)]) \in Int
        BY <1>0
      <3>2. Len(fl[k - 1]) + Len(t[k]) \in Int
        BY <1>6
      <3>3. QED
        BY <2>2, <3>1, <3>2, LeTrans, Zenon
    <2>4. SubSeq(fl[Len(t)], Len(fl[k - 1]) + 1, Len(fl[k - 1]) + Len(t[k])) = t[k]
      BY <1>2, <1>6, <1>7, <2>3, SubSeqSlice
    <2>5. QED
      BY <2>1, <2>4
  <1>10. QED
    BY <1>7, <1>8, <1>9

(* st is the sequence of states of generateJumplist's scan over F.         *)
IsScan(F, st) ==
    /\ st[0] = [starts |-> <<>>, lastStart |-> 0]
    /\ \A n \in 1..Len(F) :
         st[n] = IF F[n] = 0
                 THEN [starts |-> Append(st[n - 1].starts, st[n - 1].lastStart),
                       lastStart |-> n]
                 ELSE st[n - 1]

(* off gives the offsets of the N terminators of F: increasing, a 0 at     *)
(* each, no 0 between two of them, the last one at the end of F.           *)
IsLayout(F, off, N) ==
    /\ off \in [0..N -> Int]
    /\ off[0] = 0
    /\ \A k \in 0..N : 0 <= off[k]
    /\ \A k \in 1..N : off[k - 1] < off[k]
    /\ \A k \in 1..N : F[off[k]] = 0
    /\ \A k \in 1..N : \A p \in off[k - 1] + 1 .. off[k] - 1 : F[p] # 0
    /\ Len(F) = off[N]
    /\ \A k \in 0..N : off[k] <= Len(F)

(* The scan passes a nonzero literal without recording anything.           *)
LEMMA ScanSkip ==
  ASSUME NEW F \in Seq(Int), NEW st, IsScan(F, st),
         NEW m \in 0..Len(F) - 1, F[m + 1] # 0
  PROVE  st[m + 1] = st[m]
  <1>1. m + 1 \in 1..Len(F) /\ (m + 1) - 1 = m
    OBVIOUS
  <1>2. QED
    BY <1>1 DEF IsScan

(* Arithmetic facts on a position inside the gap between two terminators.  *)
LEMMA GapArith ==
  ASSUME NEW a \in Int, NEW b \in Int, NEW L \in Int, NEW x \in 1..b - a - 1,
         0 <= a, b <= L
  PROVE  /\ a + x \in a + 1 .. b - 1
         /\ a + x \in 1..L
         /\ a + x - 1 = a + (x - 1)
  OBVIOUS

(* A position in 1..L, one to the left, is in 0..L - 1.                    *)
LEMMA ShiftDown ==
  ASSUME NEW o \in Int, NEW x \in Int, NEW L \in Int, o + x \in 1..L
  PROVE  o + (x - 1) \in 0..L - 1
  OBVIOUS

(* One literal further inside a cube the scan state has not changed.       *)
LEMMA ScanGapStep ==
  ASSUME NEW F \in Seq(Int), NEW st, NEW N \in Nat, NEW off \in [0..N -> Int],
         IsScan(F, st), IsLayout(F, off, N), NEW k \in 0..N - 1,
         NEW x \in 1..off[k + 1] - off[k] - 1, st[off[k] + (x - 1)] = st[off[k]]
  PROVE  st[off[k] + x] = st[off[k]]
  <1>0. 0 <= off[k] /\ off[k] < off[k + 1] /\ off[k + 1] <= Len(F)
    <2>1. k + 1 \in 1..N /\ (k + 1) - 1 = k
      OBVIOUS
    <2>2. QED
      BY <2>1 DEF IsLayout
  <1>1. k + 1 \in 1..N /\ (k + 1) - 1 = k
    OBVIOUS
  <1>2. \A p \in off[(k + 1) - 1] + 1 .. off[k + 1] - 1 : F[p] # 0
    BY <1>1 DEF IsLayout
  <1>3. off[k] \in Int /\ off[k + 1] \in Int /\ Len(F) \in Int
    BY <1>1
  <1>4. /\ off[k] + x \in off[k] + 1 .. off[k + 1] - 1
        /\ off[k] + x \in 1..Len(F)
        /\ off[k] + x - 1 = off[k] + (x - 1)
    BY <1>0, <1>3, GapArith, Zenon
  <1>5. F[off[k] + x] # 0
    BY <1>1, <1>2, <1>4, Zenon
  <1>6. PICK m \in 0..Len(F) - 1 : m = off[k] + (x - 1)
    <2>1. off[k] + x \in 1..Len(F)
      BY <1>4
    <2>2. x \in Int
      OBVIOUS
    <2>3. off[k] + (x - 1) \in 0..Len(F) - 1
      BY <1>3, <2>1, <2>2, ShiftDown, Zenon
    <2>4. QED
      BY <2>3, Zenon
  <1>7. m + 1 = off[k] + x
    BY <1>3, <1>6
  <1>8. F[m + 1] # 0
    BY <1>5, <1>7
  <1>9. st[m + 1] = st[m]
    BY <1>8, ScanSkip
  <1>10. QED
    BY <1>6, <1>7, <1>9

(* Across the literals of cube k + 1 the scan state stays what it was      *)
(* after the terminator of cube k.                                         *)
LEMMA ScanGap ==
  ASSUME NEW F \in Seq(Int), NEW st, NEW N \in Nat, NEW off \in [0..N -> Int],
         IsScan(F, st), IsLayout(F, off, N), NEW k \in 0..N - 1
  PROVE  \A j \in 0..off[k + 1] - off[k] - 1 : st[off[k] + j] = st[off[k]]
  <1>0. 0 <= off[k] /\ off[k] < off[k + 1]
    <2>1. k + 1 \in 1..N /\ (k + 1) - 1 = k
      OBVIOUS
    <2>2. QED
      BY <2>1 DEF IsLayout
  <1> DEFINE Bad == {j \in 0..off[k + 1] - off[k] - 1 : st[off[k] + j] # st[off[k]]}
  <1> SUFFICES ASSUME NEW j0 \in Bad PROVE FALSE
    OBVIOUS
  <1>1. Bad \in SUBSET Nat
    BY <1>0
  <1>2. PICK x \in Bad : \A y \in Bad : ~(y < x)
    BY <1>1, LeastElement
  <1>3. x \in 1..off[k + 1] - off[k] - 1
    BY <1>0
  <1>4. st[off[k] + (x - 1)] = st[off[k]]
    <2>1. x - 1 \in 0..off[k + 1] - off[k] - 1 /\ x - 1 < x
      BY <1>0, <1>3
    <2>2. QED
      BY <2>1, <1>2
  <1>5. QED
    BY <1>3, <1>4, ScanGapStep

(* At a 0 the scan records lastStart and restarts after the 0.             *)
LEMMA ScanHit ==
  ASSUME NEW F \in Seq(Int), NEW st, IsScan(F, st),
         NEW m \in 0..Len(F) - 1, F[m + 1] = 0
  PROVE  st[m + 1] = [starts |-> Append(st[m].starts, st[m].lastStart), lastStart |-> m + 1]
  <1>1. m + 1 \in 1..Len(F) /\ (m + 1) - 1 = m
    OBVIOUS
  <1>2. QED
    BY <1>1 DEF IsScan

(* Appending offset k to the list of the first k offsets gives the list    *)
(* of the first k + 1.                                                     *)
LEMMA AppendStart ==
  ASSUME NEW N \in Nat, NEW off \in [0..N -> Int], NEW k \in 0..N
  PROVE  Append([i \in 1..k |-> off[i - 1]], off[k]) = [i \in 1..k + 1 |-> off[i - 1]]
  OBVIOUS

(* After the terminator of cube k the scan has recorded the first k        *)
(* offsets and holds offset k as lastStart.                                *)
ScanAt(st, off, k) ==
    st[off[k]] = [starts |-> [i \in 1..k |-> off[i - 1]], lastStart |-> off[k]]

(* The scan state after terminator k determines the one after terminator   *)
(* k + 1.                                                                  *)
LEMMA ScanStep ==
  ASSUME NEW F \in Seq(Int), NEW st, NEW N \in Nat, NEW off \in [0..N -> Int],
         IsScan(F, st), IsLayout(F, off, N), NEW k \in 0..N - 1, ScanAt(st, off, k)
  PROVE  ScanAt(st, off, k + 1)
  <1>0. /\ 0 <= off[k] /\ off[k] < off[k + 1] /\ off[k + 1] <= Len(F)
        /\ F[off[k + 1]] = 0
    <2>1. k + 1 \in 1..N /\ (k + 1) - 1 = k
      OBVIOUS
    <2>2. QED
      BY <2>1 DEF IsLayout
  <1>1. off[k] \in Int /\ off[k + 1] \in Int /\ Len(F) \in Nat
    OBVIOUS
  <1>2. 0 <= off[k] /\ off[k] < off[k + 1] /\ off[k + 1] <= Len(F)
    BY <1>0
  <1>3. PICK m \in 0..Len(F) - 1 : m = off[k + 1] - 1
    <2>1. off[k + 1] - 1 \in 0..Len(F) - 1
      BY <1>1, <1>2, SMT
    <2>2. QED
      BY <2>1, Zenon
  <1>4. off[k + 1] - off[k] - 1 \in 0..off[k + 1] - off[k] - 1
        /\ m = off[k] + (off[k + 1] - off[k] - 1) /\ m + 1 = off[k + 1]
    <2>1. off[k + 1] - off[k] - 1 \in 0..off[k + 1] - off[k] - 1
      BY <1>1, <1>2
    <2>2. m = off[k] + (off[k + 1] - off[k] - 1)
      BY <1>1, <1>3
    <2>3. m + 1 = off[k + 1]
      BY <1>1, <1>3
    <2>4. QED
      BY <2>1, <2>2, <2>3
  <1>5. st[m] = st[off[k]]
    <2>1. \A j \in 0..off[k + 1] - off[k] - 1 : st[off[k] + j] = st[off[k]]
      BY ScanGap
    <2>2. QED
      BY <1>4, <2>1
  <1>6. F[m + 1] = 0
    BY <1>0, <1>4
  <1>7. st[m + 1] = [starts |-> Append(st[m].starts, st[m].lastStart), lastStart |-> m + 1]
    BY <1>6, ScanHit
  <1>8. st[m].starts = [i \in 1..k |-> off[i - 1]] /\ st[m].lastStart = off[k]
    BY <1>5 DEF ScanAt
  <1>9. Append([i \in 1..k |-> off[i - 1]], off[k]) = [i \in 1..k + 1 |-> off[i - 1]]
    BY AppendStart
  <1>10. QED
    BY <1>4, <1>7, <1>8, <1>9 DEF ScanAt

(* The scan state after every terminator, by induction over the cubes.     *)
LEMMA ScanAll ==
  ASSUME NEW F \in Seq(Int), NEW st, NEW N \in Nat, NEW off \in [0..N -> Int],
         IsScan(F, st), IsLayout(F, off, N)
  PROVE  \A k \in 0..N : ScanAt(st, off, k)
  <1> DEFINE Bad == {k \in 0..N : ~ScanAt(st, off, k)}
  <1> SUFFICES ASSUME NEW k0 \in Bad PROVE FALSE
    OBVIOUS
  <1>1. Bad \in SUBSET Nat
    OBVIOUS
  <1>2. PICK x \in Bad : \A y \in Bad : ~(y < x)
    BY <1>1, LeastElement
  <1>3. ScanAt(st, off, 0)
    <2>1. off[0] = 0 /\ st[0] = [starts |-> <<>>, lastStart |-> 0]
      BY DEF IsLayout, IsScan
    <2>2. [i \in 1..0 |-> off[i - 1]] = <<>>
      OBVIOUS
    <2>3. QED
      BY <2>1, <2>2 DEF ScanAt
  <1>4. x \in 1..N
    BY <1>3
  <1>5. PICK j \in 0..N - 1 : j + 1 = x /\ j < x /\ j \in 0..N
    <2>1. x - 1 \in 0..N - 1 /\ (x - 1) + 1 = x /\ x - 1 < x /\ x - 1 \in 0..N
      BY <1>4
    <2>2. QED
      BY <2>1, Zenon
  <1>6. ScanAt(st, off, j)
    BY <1>2, <1>5
  <1>7. ScanAt(st, off, j + 1)
    BY <1>6, ScanStep
  <1>8. QED
    BY <1>5, <1>7

(* A function satisfying the unfolded copy-loop equation is a flat prefix. *)
LEMMA FlatEquation ==
  ASSUME NEW t \in Seq(Seq(Int)), NEW fl,
         fl = [k \in 0..Len(t) |-> IF k = 0 THEN <<>> ELSE fl[k - 1] \o t[k] \o << 0 >>]
  PROVE  IsFlatPrefix(t, fl)
  <1>1. fl[0] = <<>>
    OBVIOUS
  <1>2. \A k \in 0..Len(t) : k # 0 => fl[k] = fl[k - 1] \o t[k] \o <<0>>
    OBVIOUS
  <1>3. \A k \in 1..Len(t) : k \in 0..Len(t) /\ k # 0
    OBVIOUS
  <1>4. \A k \in 1..Len(t) : fl[k] = fl[k - 1] \o t[k] \o <<0>>
    BY <1>2, <1>3, Zenon
  <1>5. QED
    BY <1>1, <1>4 DEF IsFlatPrefix

(* FlatPrefix(t) is the sequence of vectors of the copy loop.              *)
LEMMA FlatPrefixIs ==
  ASSUME NEW t \in Seq(Seq(Int))
  PROVE  IsFlatPrefix(t, FlatPrefix(t))
  <1>1. FlatPrefix(t) = [k \in 0..Len(t) |->
                           IF k = 0 THEN <<>> ELSE FlatPrefix(t)[k - 1] \o t[k] \o <<0>>]
    BY FlatPrefixDef
  <1>2. QED
    BY <1>1, FlatEquation, Zenon

(* A function satisfying the unfolded scan equation is a scan.             *)
LEMMA ScanEquation ==
  ASSUME NEW F \in Seq(Int), NEW st,
         st = [n \in 0..Len(F) |->
                 IF n = 0 THEN [starts |-> <<>>, lastStart |-> 0]
                 ELSE IF F[n] = 0
                      THEN [starts |-> Append(st[n - 1].starts, st[n - 1].lastStart),
                            lastStart |-> n]
                      ELSE st[n - 1]]
  PROVE  IsScan(F, st)
  <1>1. st[0] = [starts |-> <<>>, lastStart |-> 0]
    OBVIOUS
  <1>2. \A n \in 0..Len(F) : n # 0 =>
          st[n] = IF F[n] = 0
                  THEN [starts |-> Append(st[n - 1].starts, st[n - 1].lastStart),
                        lastStart |-> n]
                  ELSE st[n - 1]
    OBVIOUS
  <1>3. \A n \in 1..Len(F) : n \in 0..Len(F) /\ n # 0
    OBVIOUS
  <1>4. QED
    BY <1>1, <1>2, <1>3, Zenon DEF IsScan

(* ScanSteps(F) is the sequence of states of the scan over F.              *)
LEMMA ScanIs ==
  ASSUME NEW F \in Seq(Int)
  PROVE  IsScan(F, ScanSteps(F))
  <1>1. ScanSteps(F) =
           [n \in 0..Len(F) |->
              IF n = 0 THEN [starts |-> <<>>, lastStart |-> 0]
              ELSE IF F[n] = 0
                   THEN [starts |-> Append(ScanSteps(F)[n - 1].starts,
                                           ScanSteps(F)[n - 1].lastStart),
                         lastStart |-> n]
                   ELSE ScanSteps(F)[n - 1]]
    BY ScanStepsDef
  <1>2. QED
    BY <1>1, ScanEquation, Zenon

(* Tables of literals are tables of integers.                              *)
LEMMA TablesOfInts ==
  ASSUME NEW t \in Seq(Seq(Lits))
  PROVE  t \in Seq(Seq(Int))
  <1>1. Seq(Lits) \subseteq Seq(Int)
    BY LitsAssumption, SeqMonotonic
  <1>2. QED
    BY <1>1, SeqMonotonic

(* The offsets of the copy loop's vectors are the terminator layout of the *)
(* flattened table.                                                        *)
LEMMA FlatLayout ==
  ASSUME NEW t \in Seq(Seq(Lits)), NEW fl, IsFlatPrefix(t, fl)
  PROVE  IsLayout(fl[Len(t)], [k \in 0..Len(t) |-> Len(fl[k])], Len(t))
  <1> DEFINE off == [k \in 0..Len(t) |-> Len(fl[k])]
             F == fl[Len(t)]
  <1>0. t \in Seq(Seq(Int))
    BY TablesOfInts
  <1>1. \A k \in 0..Len(t) : fl[k] \in Seq(Int)
    BY <1>0, PrefixType
  <1>2. \A k \in 1..Len(t) : Len(fl[k]) = Len(fl[k - 1]) + Len(t[k]) + 1
    BY <1>0, PrefixType
  <1>3. off \in [0..Len(t) -> Int] /\ \A k \in 0..Len(t) : 0 <= off[k]
    BY <1>1
  <1>4. off[0] = 0
    BY DEF IsFlatPrefix
  <1>5. Len(F) = off[Len(t)]
    OBVIOUS
  <1>6. \A k \in 0..Len(t) : off[k] <= Len(F)
    <2>1. PrefixesKept(fl, Len(t))
      BY <1>0, PrefixKept
    <2>2. QED
      BY <2>1 DEF PrefixesKept
  <1>7. ASSUME NEW k \in 1..Len(t)
        PROVE  /\ off[k - 1] < off[k]
               /\ F[off[k]] = 0
               /\ \A p \in off[k - 1] + 1 .. off[k] - 1 : F[p] # 0
    <2>1. PICK a \in Nat : a = Len(fl[k - 1])
      <3>1. k - 1 \in 0..Len(t)
        OBVIOUS
      <3>2. fl[k - 1] \in Seq(Int)
        BY <1>1, <3>1, Zenon
      <3>3. Len(fl[k - 1]) \in Nat
        BY <3>2
      <3>4. QED
        BY <3>3, Zenon
    <2>2. PICK c \in Nat : c = Len(t[k])
      <3>1. t[k] \in Seq(Lits)
        OBVIOUS
      <3>2. Len(t[k]) \in Nat
        BY <3>1
      <3>3. QED
        BY <3>2, Zenon
    <2>3. off[k - 1] = a /\ off[k] = a + c + 1
      <3>1. k - 1 \in 0..Len(t) /\ k \in 0..Len(t)
        OBVIOUS
      <3>2. off[k - 1] = Len(fl[k - 1]) /\ off[k] = Len(fl[k])
        BY <3>1
      <3>3. Len(fl[k]) = a + c + 1
        BY <1>2, <2>1, <2>2, Zenon
      <3>4. QED
        BY <2>1, <3>2, <3>3, Zenon
    <2>4. /\ \A j \in 1..Len(t[k]) : F[Len(fl[k - 1]) + j] = t[k][j]
          /\ F[Len(fl[k])] = 0
      <3>1. /\ \A j \in 1..Len(t[k]) : fl[Len(t)][Len(fl[k - 1]) + j] = t[k][j]
            /\ fl[Len(t)][Len(fl[k])] = 0
            /\ SubSeq(fl[Len(t)], Len(fl[k - 1]) + 1, Len(fl[k]) - 1) = t[k]
        BY <1>0, CubeContent, Zenon
      <3>2. QED
        BY <3>1
    <2>5. \A j \in 1..c : F[a + j] = t[k][j]
      BY <2>1, <2>2, <2>4
    <2>6. \A j \in 1..c : t[k][j] \in Lits
      BY <2>2
    <2>7. \A p \in a + 1 .. a + c + 1 - 1 : p - a \in 1..c /\ a + (p - a) = p
      OBVIOUS
    <2>8. \A p \in a + 1 .. a + c + 1 - 1 : F[p] # 0
      BY <2>5, <2>6, <2>7, LitsAssumption
    <2>9. off[k - 1] < off[k]
      BY <2>3
    <2>10. F[off[k]] = 0
      <3>1. off[k] = Len(fl[k])
        BY DEF IsFlatPrefix
      <3>2. QED
        BY <2>4, <3>1, Zenon
    <2>11. \A p \in off[k - 1] + 1 .. off[k] - 1 : F[p] # 0
      BY <2>3, <2>8, SMTT(30)
    <2>12. QED
      BY <2>9, <2>10, <2>11
  <1>8. QED
    BY <1>3, <1>4, <1>5, <1>6, <1>7 DEF IsLayout

(* generateJumplist on a vector with N terminators at offsets off counts N *)
(* cubes and stores off[0] .. off[N] as the jumplist.                      *)
LEMMA GenerateOfLayout ==
  ASSUME NEW F \in Seq(Int), NEW N \in Nat, NEW off \in [0..N -> Int],
         IsLayout(F, off, N), NEW g \in GenerateJumplist(F)
  PROVE  /\ g.count = N
         /\ g.jumplist = [i \in 1..N + 1 |-> off[i - 1]]
  <1>1. IsScan(F, ScanSteps(F))
    BY ScanIs
  <1>2. ScanAt(ScanSteps(F), off, N)
    BY <1>1, ScanAll
  <1>3. Len(F) = off[N]
    BY DEF IsLayout
  <1>4. Scan(F) = [starts |-> [i \in 1..N |-> off[i - 1]], lastStart |-> off[N]]
    BY <1>2, <1>3 DEF ScanAt, Scan
  <1>5. Append([i \in 1..N |-> off[i - 1]], off[N]) = [i \in 1..N + 1 |-> off[i - 1]]
    BY AppendStart
  <1>6. PICK l \in CeilLog2f(Len(Scan(F).starts)) :
           g = [jumplist |-> Append(Scan(F).starts, Scan(F).lastStart),
                count |-> Len(Scan(F).starts), normalizedPathLength |-> l]
    BY DEF GenerateJumplist
  <1>7. Len([i \in 1..N |-> off[i - 1]]) = N
    OBVIOUS
  <1>8. QED
    BY <1>4, <1>5, <1>6, <1>7

(* generateJumplist on a flattened table counts its cubes and stores the   *)
(* length of every copy-loop vector as the jumplist.                       *)
LEMMA GenerateCorrect ==
  ASSUME NEW t \in Seq(Seq(Lits)), NEW g \in GenerateJumplist(Flatten(t))
  PROVE  /\ g.count = Len(t)
         /\ g.jumplist = [i \in 1..Len(t) + 1 |-> Len(FlatPrefix(t)[i - 1])]
  <1>0. t \in Seq(Seq(Int)) /\ Len(t) \in Nat
    BY TablesOfInts
  <1>1. IsFlatPrefix(t, FlatPrefix(t))
    BY <1>0, FlatPrefixIs
  <1>2. IsLayout(Flatten(t), [k \in 0..Len(t) |-> Len(FlatPrefix(t)[k])], Len(t))
    BY <1>1, FlatLayout DEF Flatten
  <1>3. PICK off \in [0..Len(t) -> Int] : off = [k \in 0..Len(t) |-> Len(FlatPrefix(t)[k])]
    BY <1>2 DEF IsLayout
  <1>4. Flatten(t) \in Seq(Int)
    <2>1. \A k \in 0..Len(t) : FlatPrefix(t)[k] \in Seq(Int)
      BY <1>0, <1>1, PrefixType
    <2>2. Len(t) \in 0..Len(t)
      BY <1>0
    <2>3. QED
      BY <2>1, <2>2, Zenon DEF Flatten
  <1>5. /\ g.count = Len(t)
        /\ g.jumplist = [i \in 1..Len(t) + 1 |-> off[i - 1]]
    <2>1. IsLayout(Flatten(t), off, Len(t))
      BY <1>2, <1>3
    <2>2. \A F \in Seq(Int), N \in Nat : \A o \in [0..N -> Int] :
             IsLayout(F, o, N) =>
               \A gg \in GenerateJumplist(F) :
                  gg.count = N /\ gg.jumplist = [i \in 1..N + 1 |-> o[i - 1]]
      BY GenerateOfLayout
    <2>3. Len(t) \in Nat
      BY <1>0
    <2>4. \A o \in [0..Len(t) -> Int] :
             IsLayout(Flatten(t), o, Len(t))
             => \A gg \in GenerateJumplist(Flatten(t)) :
                  gg.count = Len(t) /\ gg.jumplist = [i \in 1..Len(t) + 1 |-> o[i - 1]]
      BY <1>4, <2>2, <2>3
    <2>5. QED
      BY <2>1, <2>4
  <1>6. \A i \in 1..Len(t) + 1 : off[i - 1] = Len(FlatPrefix(t)[i - 1])
    BY <1>0, <1>3
  <1>7. QED
    BY <1>5, <1>6

(* The jumplist a table t is stored with: the offset of each cube's first  *)
(* literal, then the length of the vector.                                 *)
TableJumplist(t) == [i \in 1..Len(t) + 1 |-> Len(FlatPrefix(t)[i - 1])]

(* getCubeFromId's slice of the flattened table, between two entries of its*)
(* jumplist, is the cube of that id.                                       *)
LEMMA CubeLookup ==
  ASSUME NEW t \in Seq(Seq(Lits)), NEW id \in 0..Len(t) - 1
  PROVE  SubSeq(Flatten(t), TableJumplist(t)[id + 1] + 1, TableJumplist(t)[id + 2] - 1)
           = t[id + 1]
  <1>0. t \in Seq(Seq(Int)) /\ Len(t) \in Nat
    BY TablesOfInts
  <1>1. IsFlatPrefix(t, FlatPrefix(t))
    BY <1>0, FlatPrefixIs
  <1>2. /\ id + 1 \in 1..Len(t) /\ id + 2 \in 1..Len(t) + 1
        /\ (id + 1) - 1 = id /\ (id + 2) - 1 = id + 1
    BY <1>0
  <1>3. /\ TableJumplist(t)[id + 1] = Len(FlatPrefix(t)[id])
        /\ TableJumplist(t)[id + 2] = Len(FlatPrefix(t)[id + 1])
    BY <1>2 DEF TableJumplist
  <1>4. SubSeq(FlatPrefix(t)[Len(t)], Len(FlatPrefix(t)[(id + 1) - 1]) + 1,
               Len(FlatPrefix(t)[id + 1]) - 1) = t[id + 1]
    <2>1. \A k \in 1..Len(t) :
             SubSeq(FlatPrefix(t)[Len(t)], Len(FlatPrefix(t)[k - 1]) + 1,
                    Len(FlatPrefix(t)[k]) - 1) = t[k]
      BY <1>0, <1>1, CubeContent
    <2>2. QED
      BY <1>2, <2>1, Zenon
  <1>5. QED
    BY <1>2, <1>3, <1>4 DEF Flatten

(* The flattened table is empty exactly when the table has no cube: every  *)
(* cube adds at least its 0.                                               *)
LEMMA FlattenEmpty ==
  ASSUME NEW t \in Seq(Seq(Lits))
  PROVE  Flatten(t) = <<>> <=> t = <<>>
  <1>0. t \in Seq(Seq(Int)) /\ Len(t) \in Nat
    BY TablesOfInts
  <1>1. IsLayout(Flatten(t), [k \in 0..Len(t) |-> Len(FlatPrefix(t)[k])], Len(t))
    BY <1>0, FlatPrefixIs, FlatLayout DEF Flatten
  <1>2. \E o \in [0..Len(t) -> Int] : IsLayout(Flatten(t), o, Len(t))
    BY <1>1 DEF IsLayout
  <1>3. PICK off \in [0..Len(t) -> Int] : IsLayout(Flatten(t), off, Len(t))
    BY <1>2
  <1>4. Flatten(t) \in Seq(Int)
    <2>1. \A k \in 0..Len(t) : FlatPrefix(t)[k] \in Seq(Int)
      BY <1>0, FlatPrefixIs, PrefixType
    <2>2. Len(t) \in 0..Len(t)
      BY <1>0
    <2>3. QED
      BY <2>1, <2>2, Zenon DEF Flatten
  <1>5. /\ Len(Flatten(t)) = off[Len(t)] /\ off[0] = 0
        /\ \A k \in 0..Len(t) : 0 <= off[k]
        /\ \A k \in 1..Len(t) : off[k - 1] < off[k]
    BY <1>3 DEF IsLayout
  <1>6. CASE Len(t) = 0
    BY <1>0, <1>4, <1>5, <1>6
  <1>7. CASE Len(t) # 0
    <2>1. PICK n \in Nat : n + 1 = Len(t)
      <3>1. Len(t) - 1 \in Nat /\ (Len(t) - 1) + 1 = Len(t)
        BY <1>0, <1>7
      <3>2. QED
        BY <3>1
    <2>6. /\ 0 <= off[n] /\ off[n] < off[n + 1]
      <3>1. n \in 0..Len(t) /\ n + 1 \in 1..Len(t)
        BY <1>0, <2>1
      <3>2. QED
        BY <1>5, <3>1
    <2>7. off[Len(t)] > 0
      <3>1. off[n] \in Int /\ off[n + 1] \in Int
        <4>1. n \in 0..Len(t) /\ n + 1 \in 0..Len(t)
          BY <1>0, <2>1
        <4>2. QED
          BY <4>1, Zenon
      <3>2. off[n + 1] > 0
        BY <2>6, <3>1
      <3>3. QED
        BY <2>1, <3>2, Zenon
    <2>2. Len(Flatten(t)) > 0
      BY <1>5, <2>7
    <2>3. Flatten(t) # <<>>
      <3>1. Len(<<>>) = 0
        OBVIOUS
      <3>2. QED
        BY <2>2, <3>1
    <2>5. t # <<>>
      <3>1. Len(<<>>) = 0
        OBVIOUS
      <3>2. QED
        BY <1>7, <3>1
    <2>4. QED
      BY <2>3, <2>5
  <1>8. QED
    BY <1>6, <1>7

(* Sequences of bounded length are sequences.                              *)
LEMMA SeqsUpToSeq ==
  ASSUME NEW S, NEW n \in Nat
  PROVE  SeqsUpTo(S, n) \subseteq Seq(S)
  BY DEF SeqsUpTo

(* The tables parseFile and lookahead store are sequences of sequences of  *)
(* literals.                                                               *)
LEMMA TablesAreSeqs == CubeTables \subseteq Seq(Seq(Lits))
  <1>1. Cube \subseteq Seq(Lits)
    BY BoundsAssumption, SeqsUpToSeq DEF Cube
  <1>2. QED
    BY <1>1, BoundsAssumption, SeqsUpToSeq, SeqMonotonic DEF CubeTables

(* The empty table flattens to the empty vector.                           *)
LEMMA FlattenNil == Flatten(<<>>) = <<>>
  <1>1. <<>> \in Seq(Seq(Lits))
    OBVIOUS
  <1>2. QED
    BY <1>1, FlattenEmpty

(* What the two callers of generateJumplist store for a table t.           *)
LEMMA TableStored ==
  ASSUME NEW t \in CubeTables, NEW g \in GenerateJumplist(Flatten(t))
  PROVE  /\ t \in Seq(Seq(Lits))
         /\ g.count = Len(t)
         /\ g.jumplist = [i \in 1..Len(t) + 1 |-> Len(FlatPrefix(t)[i - 1])]
  <1>1. t \in Seq(Seq(Lits))
    BY TablesAreSeqs
  <1>2. QED
    BY <1>1, GenerateCorrect

(* CubeInv holds before parseFile.                                         *)
LEMMA InitCubeInv == Init => CubeInv
  BY FlattenNil DEF Init, CubeInv

(* parseFile and both outcomes of lookahead keep CubeInv: each rebuilds the*)
(* vector and the jumplist from one table, or keeps them only when nothing is*)
(* stored (no cubes in the file, lookahead deciding on an empty table).    *)
LEMMA NextCubeInv == CubeInv /\ [Next]_vars => CubeInv'
  <1> SUFFICES ASSUME CubeInv, [Next]_vars PROVE CubeInv'
    OBVIOUS
  <1>1. CASE ParseFile
    <2>1. PICK t \in CubeTables :
            /\ cubes' = Flatten(t)
            /\ ref' = t
            /\ IF t = <<>>
               THEN UNCHANGED <<jumplist, count, normalizedPathLength>>
               ELSE \E g \in GenerateJumplist(Flatten(t)) :
                        /\ jumplist' = g.jumplist
                        /\ count' = g.count
                        /\ normalizedPathLength' = g.normalizedPathLength
      BY <1>1 DEF ParseFile
    <2>2. t \in Seq(Seq(Lits))
      BY TablesAreSeqs
    <2>3. ~hasFormula /\ hasFormula' = TRUE
      BY <1>1 DEF ParseFile
    <2>4. CASE t = <<>>
      <3>1. ref = <<>> /\ count = Len(ref)
        BY <2>3 DEF CubeInv
      <3>2. count' = 0 /\ Len(t) = 0
        BY <2>1, <2>4, <3>1
      <3>3. QED
        BY <2>1, <2>2, <2>3, <3>2 DEF CubeInv
    <2>8. CASE t # <<>>
      <3>1. PICK g \in GenerateJumplist(Flatten(t)) :
              jumplist' = g.jumplist /\ count' = g.count
        BY <2>1, <2>8
      <3>2. g.count = Len(t)
            /\ g.jumplist = [i \in 1..Len(t) + 1 |-> Len(FlatPrefix(t)[i - 1])]
        BY TableStored
      <3>3. QED
        BY <2>1, <2>2, <2>3, <3>1, <3>2 DEF CubeInv
    <2>5. QED
      BY <2>4, <2>8
  <1>2. CASE LookaheadDecided
    <2>1. cubes' = <<>> /\ ref' = <<>> /\ hasFormula' = hasFormula /\ hasFormula
          /\ count' = ClearedCount
      BY <1>2 DEF LookaheadDecided
    <2>2. count' = 0
      <3>1. CASE cubes = <<>>
        <4>1. ref \in Seq(Seq(Lits)) /\ Flatten(ref) = <<>>
          BY <3>1 DEF CubeInv
        <4>2. ref = <<>>
          BY <4>1, FlattenEmpty
        <4>3. QED
          BY <2>1, <3>1, <4>2 DEF CubeInv, ClearedCount
      <3>2. CASE cubes # <<>>
        BY <2>1, <3>2 DEF ClearedCount
      <3>3. QED
        BY <3>1, <3>2
    <2>3. QED
      BY <2>1, <2>2, FlattenNil DEF CubeInv
  <1>3. CASE LookaheadSplitted
    <2>1. PICK t \in CubeTables :
            /\ cubes' = Flatten(t)
            /\ ref' = t
            /\ \E g \in GenerateJumplist(Flatten(t)) :
                  /\ jumplist' = g.jumplist
                  /\ count' = g.count
                  /\ normalizedPathLength' = g.normalizedPathLength
      BY <1>3 DEF LookaheadSplitted
    <2>2. hasFormula /\ hasFormula' = hasFormula
      BY <1>3 DEF LookaheadSplitted
    <2>3. PICK g \in GenerateJumplist(Flatten(t)) :
            jumplist' = g.jumplist /\ count' = g.count
      BY <2>1
    <2>4. /\ t \in Seq(Seq(Lits))
          /\ g.count = Len(t)
          /\ g.jumplist = [i \in 1..Len(t) + 1 |-> Len(FlatPrefix(t)[i - 1])]
      BY TableStored
    <2>5. QED
      BY <2>1, <2>2, <2>3, <2>4 DEF CubeInv
  <1>4. CASE UNCHANGED vars
    BY <1>4 DEF CubeInv, vars
  <1>5. QED
    BY <1>1, <1>2, <1>3, <1>4 DEF Next

(* The table layout CubeInv holds in every reachable state, for every      *)
(* number of cubes and every cube length.                                  *)
THEOREM CubeInvariant == Spec => []CubeInv
  BY InitCubeInv, NextCubeInv, PTL DEF Spec

(* CubeInv gives CubeTableMatches: each id below the count reads back its  *)
(* cube through getCubeFromId.                                             *)
LEMMA InvMatches == CubeInv => CubeTableMatches
  <1> SUFFICES ASSUME CubeInv, hasFormula
               PROVE  /\ count = Len(ref)
                      /\ \A id \in CubeIds : GetCubeFromId(id) = ref[id + 1]
    BY DEF CubeTableMatches
  <1>1. count = Len(ref) /\ ref \in Seq(Seq(Lits)) /\ cubes = Flatten(ref)
    BY DEF CubeInv
  <1>2. ASSUME NEW id \in CubeIds PROVE GetCubeFromId(id) = ref[id + 1]
    <2>1. id \in 0..Len(ref) - 1 /\ ~(id >= count) /\ Len(ref) > 0
      BY <1>1 DEF CubeIds
    <2>2. jumplist = TableJumplist(ref)
      BY <2>1 DEF CubeInv, TableJumplist
    <2>3. GetCubeFromId(id) = SubSeq(cubes, jumplist[id + 1] + 1, jumplist[id + 2] - 1)
      BY <2>1 DEF GetCubeFromId
    <2>4. QED
      BY <1>1, <2>1, <2>2, <2>3, CubeLookup
  <1>3. QED
    BY <1>1, <1>2

(* getCubeFromId returns exactly the cubes of the table that was read or   *)
(* generated, in every reachable state: CubeTableMatches, which the        *)
(* cj_table run checks, for every bound.                                   *)
THEOREM CubeTableMatchesHolds == Spec => []CubeTableMatches
  BY CubeInvariant, InvMatches, PTL
=============================================================================
