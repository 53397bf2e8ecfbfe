--------------------------- MODULE ScoringProofs ---------------------------
(***************************************************************************)
(* Proofs about what is read out of texts, traces and tables (Readings)    *)
(* and about best-of-n runs (BestOfN), for inputs of any length.  The      *)
(* code of a completion is its first block; the examples of a prompt are   *)
(* its calls with their results; busy is the time that is covered; the     *)
(* p-value is the share of the swaps.  A finished task is kept, the        *)
(* recorded time is no longer than the invocations ran, and selecting by   *)
(* visible tests comes out between the first candidate and the best one.   *)
(***************************************************************************)
EXTENDS BestOfN, Readings, FiniteSetTheorems, SequenceTheorems, WellFoundedInduction, TLAPS

\* A nonempty set of natural numbers has a least element: its initial
\* segment is a minimal set.
LEMMA LeastExists ==
    ASSUME NEW T, T \subseteq Nat, T # {}
    PROVE  \E n \in T : \A o \in T : n <= o
  <1> DEFINE Below == {1..n : n \in T}
             R == StrictSubsetOrdering(Nat)
  <1>1. \A n \in T : IsFiniteSet(1..n)
    BY FS_Interval
  <1>2. \A n \in T : 1..n \in SUBSET Nat
    OBVIOUS
  <1>3. Below \subseteq FiniteSubsetsOf(Nat) /\ Below # {}
    BY <1>1, <1>2 DEF FiniteSubsetsOf
  <1>4. IsWellFoundedOn(R, FiniteSubsetsOf(Nat))
    BY FS_StrictSubsetOrderingWellFounded
  <1>5. \E x \in Below : \A y \in Below : ~(<<y, x>> \in R)
    <2> HIDE DEF Below, R
    <2> QED BY <1>3, <1>4, WFMin
  <1>6. PICK n \in T : \A o \in T : ~(<<1..o, 1..n>> \in R)
    BY <1>5
  <1>7. ASSUME NEW o \in T, ~(n <= o) PROVE FALSE
    <2>1. n \in Nat /\ o \in Nat /\ o < n
      BY <1>7
    <2>2. 1..o \subseteq 1..n /\ n \in 1..n /\ n \notin 1..o
      BY <2>1
    <2>3. 1..o # 1..n
      BY <2>2
    <2>4. <<1..o, 1..n>> \in R
      BY <1>2, <2>2, <2>3 DEF StrictSubsetOrdering
    <2> QED BY <1>6, <2>4
  <1> QED BY <1>7

\* Min of a nonempty set of natural numbers is its least element.
LEMMA MinIsLeast ==
    ASSUME NEW T, T \subseteq Nat, T # {}
    PROVE  Min(T) \in T /\ \A o \in T : Min(T) <= o
  BY LeastExists DEF Min

\* What holds of a and of the successor of whatever it holds of, holds up to b.
\* C is the set of the numbers it holds of.
LEMMA UpwardInduction ==
    ASSUME NEW a \in Nat, NEW b \in Nat, NEW C, a \in C,
           \A n \in (a + 1)..b : n - 1 \in C => n \in C
    PROVE  a..b \subseteq C
  <1> DEFINE Bad == {n \in a..b : n \notin C}
  <1> SUFFICES ASSUME Bad # {} PROVE FALSE
    OBVIOUS
  <1>1. Bad \subseteq Nat
    OBVIOUS
  <1>2. PICK n \in Bad : \A o \in Bad : n <= o
    BY <1>1, LeastExists
  <1>3. n \in (a + 1)..b /\ n - 1 \in a..b
    OBVIOUS
  <1>4. n - 1 \notin Bad
    BY <1>2, <1>3
  <1> QED BY <1>3, <1>4

\* What holds of b and of every number whose successors it all holds of, holds
\* from a on.
LEMMA DownwardInduction ==
    ASSUME NEW a \in Nat, NEW b \in Nat, NEW C, b \in C,
           \A n \in a..(b - 1) : (n + 1)..b \subseteq C => n \in C
    PROVE  a..b \subseteq C
  <1> DEFINE D == {d \in Nat : d <= b /\ (b - d)..b \subseteq C}
  <1> SUFFICES ASSUME a <= b PROVE a..b \subseteq C
    OBVIOUS
  <1>1. 0 \in D
    BY (b - 0)..b = {b}
  <1>2. ASSUME NEW d \in 1..(b - a), d - 1 \in D PROVE d \in D
    <2>1. (b - d) + 1 = b - (d - 1) /\ b - d \in a..(b - 1)
      OBVIOUS
    <2>2. ((b - d) + 1)..b \subseteq C
      BY <1>2, <2>1
    <2>3. b - d \in C
      BY <2>1, <2>2
    <2>4. (b - d)..b \subseteq C
      BY <2>1, <2>2, <2>3
    <2> QED BY <2>4
  <1>3. 0..(b - a) \subseteq D
    <2> HIDE DEF D
    <2>1. \A d \in (0 + 1)..(b - a) : d - 1 \in D => d \in D
      BY <1>2
    <2> QED BY <1>1, <2>1, UpwardInduction
  <1>4. b - a \in D /\ b - (b - a) = a
    BY <1>3
  <1> QED BY <1>4

\* A loop: whatever it starts from and its body makes of what it has, there is
\* a sequence of the values it goes through.
LoopValues(f, a, b, X, x0, G) ==
    f \in [a..b -> X] /\ f[a] = x0 /\ \A n \in (a + 1)..b : f[n] = G[n][f[n - 1]]

\* Every loop goes through a sequence of values.
LEMMA LoopHasValues ==
    ASSUME NEW a \in Nat, NEW b \in Nat, a <= b, NEW X, NEW x0 \in X,
           NEW G \in [(a + 1)..b -> [X -> X]]
    PROVE  \E f : LoopValues(f, a, b, X, x0, G)
  <1> DEFINE Upto(m) == \E f \in [a..m -> X] : f[a] = x0 /\ \A n \in (a + 1)..m : f[n] = G[n][f[n - 1]]
             C == {m \in a..b : Upto(m)}
  <1>1. a \in C
    <2>1. [n \in a..a |-> x0] \in [a..a -> X]
      OBVIOUS
    <2> DEFINE g == [n \in a..a |-> x0]
    <2>2. g[a] = x0 /\ (a + 1)..a = {}
      OBVIOUS
    <2>3. Upto(a)
      BY <2>1, <2>2
    <2> QED BY <2>3
  <1>2. ASSUME NEW m \in (a + 1)..b, m - 1 \in C PROVE m \in C
    <2>1. PICK f \in [a..(m - 1) -> X] : f[a] = x0 /\ \A n \in (a + 1)..(m - 1) : f[n] = G[n][f[n - 1]]
      BY <1>2
    <2> DEFINE g == [n \in a..m |-> IF n = m THEN G[m][f[m - 1]] ELSE f[n]]
    <2>2. g \in [a..m -> X]
      <3>1. f[m - 1] \in X /\ G[m][f[m - 1]] \in X
        OBVIOUS
      <3>2. \A n \in a..m : n # m => n \in a..(m - 1)
        OBVIOUS
      <3> QED BY <3>1, <3>2
    <2>3. g[a] = x0
      BY <2>1
    <2>4. ASSUME NEW n \in (a + 1)..m PROVE g[n] = G[n][g[n - 1]]
      <3>1. CASE n = m
        <4>1. g[m - 1] = f[m - 1]
          OBVIOUS
        <4> QED BY <3>1, <4>1
      <3>2. CASE n # m
        <4>1. n \in (a + 1)..(m - 1) /\ g[n] = f[n] /\ g[n - 1] = f[n - 1]
          BY <3>2
        <4> QED BY <2>1, <4>1
      <3> QED BY <3>1, <3>2
    <2>5. Upto(m)
      <3> HIDE DEF g
      <3> QED BY <2>2, <2>3, <2>4
    <2> QED BY <2>5
  <1>3. b \in C
    <2> HIDE DEF C
    <2>1. a..b \subseteq C
      BY <1>1, <1>2, UpwardInduction
    <2> QED BY <2>1
  <1> QED BY <1>3 DEF LoopValues

\* A sum as an area: the cells below the values of a function.
Area(f, S) == {xn \in S \X Nat : xn[2] \in 1..f[xn[1]]}

\* What the recursion of a fold says of F: the sum of f over the subsets of S,
\* in the order in which CHOOSE takes their elements.
SumStep(F, f, S) ==
    F = [s \in SUBSET S |-> IF s = {} THEN 0
                            ELSE f[CHOOSE x \in s : TRUE] + F[s \ {CHOOSE x \in s : TRUE}]]

\* A column of n cells.
LEMMA BarIsCounted ==
    ASSUME NEW x, NEW n \in Nat
    PROVE  IsFiniteSet({x} \X (1..n)) /\ Cardinality({x} \X (1..n)) = n
  <1>1. IsFiniteSet(1..n) /\ Cardinality(1..n) = n
    BY FS_Interval
  <1>2. IsFiniteSet({x}) /\ Cardinality({x}) = 1
    BY FS_Singleton
  <1>3. IsFiniteSet({x} \X (1..n)) /\ Cardinality({x} \X (1..n)) = 1 * n
    <2> DEFINE A == {x}
               B == 1..n
    <2>1. IsFiniteSet(A) /\ IsFiniteSet(B) /\ Cardinality(A) = 1 /\ Cardinality(B) = n
      BY <1>1, <1>2
    <2> HIDE DEF A, B
    <2>2. IsFiniteSet(A \X B) /\ Cardinality(A \X B) = 1 * n
      BY <2>1, FS_Product
    <2> QED BY <2>2 DEF A, B
  <1> QED BY <1>3

\* Nothing is above no elements.
LEMMA AreaOfNothing == ASSUME NEW f PROVE Area(f, {}) = {}
  BY DEF Area

\* The area over one element more.
LEMMA AreaSplits ==
    ASSUME NEW S, NEW f \in [S -> Nat], NEW s \in SUBSET S, NEW x \in s
    PROVE  /\ Area(f, s) = Area(f, s \ {x}) \cup ({x} \X (1..f[x]))
           /\ Area(f, s \ {x}) \cap ({x} \X (1..f[x])) = {}
  <1>1. 1..f[x] \subseteq Nat
    OBVIOUS
  <1>2. ASSUME NEW xn \in Area(f, s)
        PROVE  xn \in Area(f, s \ {x}) \cup ({x} \X (1..f[x]))
    <2>1. xn \in s \X Nat /\ xn[2] \in 1..f[xn[1]]
      BY DEF Area
    <2>2. CASE xn[1] = x
      <3>1. xn = <<xn[1], xn[2]>>
        BY <2>1
      <3>2. xn[2] \in 1..f[x]
        BY <2>1, <2>2
      <3> QED BY <2>2, <3>1, <3>2
    <2>3. CASE xn[1] # x
      BY <2>1, <2>3 DEF Area
    <2> QED BY <2>2, <2>3
  <1>3. ASSUME NEW xn \in Area(f, s \ {x})
        PROVE  xn \in Area(f, s) /\ xn \notin {x} \X (1..f[x])
    BY DEF Area
  <1>4. ASSUME NEW xn \in {x} \X (1..f[x])
        PROVE  xn \in Area(f, s)
    <2>1. xn[1] = x /\ xn[2] \in 1..f[x] /\ xn = <<xn[1], xn[2]>>
      OBVIOUS
    <2>2. xn \in s \X Nat
      BY <1>1, <2>1
    <2> QED BY <2>1, <2>2 DEF Area
  <1> QED BY <1>2, <1>3, <1>4

\* The area over any subset of a finite domain is finite: a smallest one that
\* is not would still be infinite without one of its columns.
LEMMA AreaIsFinite ==
    ASSUME NEW S, IsFiniteSet(S), NEW f \in [S -> Nat]
    PROVE  \A s \in SUBSET S : IsFiniteSet(Area(f, s))
  <1> DEFINE Bad == {s \in SUBSET S : ~IsFiniteSet(Area(f, s))}
             R == StrictSubsetOrdering(S)
  <1> SUFFICES ASSUME Bad # {} PROVE FALSE
    OBVIOUS
  <1>1. PICK s \in Bad : \A r \in Bad : ~(<<r, s>> \in R)
    <2>1. IsWellFoundedOn(R, SUBSET S)
      BY FS_StrictSubsetOrderingWellFounded, FS_FiniteSubsetsOfFinite
    <2>2. Bad \subseteq SUBSET S
      OBVIOUS
    <2> HIDE DEF Bad, R
    <2> QED BY <2>1, <2>2, WFMin
  <1>2. s # {}
    BY AreaOfNothing, FS_EmptySet
  <1>3. PICK x \in s : TRUE
    BY <1>2
  <1>4. s \ {x} \notin Bad
    BY <1>1, <1>3 DEF StrictSubsetOrdering
  <1>5. IsFiniteSet(Area(f, s \ {x}))
    BY <1>4
  <1>6. IsFiniteSet({x} \X (1..f[x]))
    BY <1>3, BarIsCounted
  <1>7. Area(f, s) = Area(f, s \ {x}) \cup ({x} \X (1..f[x]))
    BY <1>3, AreaSplits
  <1>8. IsFiniteSet(Area(f, s \ {x}) \cup ({x} \X (1..f[x])))
    <2> DEFINE A == Area(f, s \ {x})
               B == {x} \X (1..f[x])
    <2>1. IsFiniteSet(A) /\ IsFiniteSet(B)
      BY <1>5, <1>6
    <2> HIDE DEF A, B
    <2>2. IsFiniteSet(A \cup B)
      BY <2>1, FS_Union
    <2> QED BY <2>2 DEF A, B
  <1> QED BY <1>7, <1>8

\* A column more adds what the function is there.
LEMMA AreaAddsUp ==
    ASSUME NEW S, IsFiniteSet(S), NEW f \in [S -> Nat], NEW s \in SUBSET S, NEW x \in s
    PROVE  /\ IsFiniteSet(Area(f, s)) /\ IsFiniteSet(Area(f, s \ {x}))
           /\ Cardinality(Area(f, s)) = f[x] + Cardinality(Area(f, s \ {x}))
  <1>1. f[x] \in Nat
    OBVIOUS
  <1>2. IsFiniteSet({x} \X (1..f[x])) /\ Cardinality({x} \X (1..f[x])) = f[x]
    BY <1>1, BarIsCounted
  <1>3. IsFiniteSet(Area(f, s \ {x})) /\ IsFiniteSet(Area(f, s))
    BY AreaIsFinite
  <1>4. Cardinality(Area(f, s)) = Cardinality(Area(f, s \ {x})) + f[x] - Cardinality({})
    <2> DEFINE A == Area(f, s \ {x})
               B == {x} \X (1..f[x])
    <2>1. IsFiniteSet(A) /\ IsFiniteSet(B) /\ Cardinality(B) = f[x]
      BY <1>2, <1>3
    <2>2. Area(f, s) = A \cup B /\ A \cap B = {}
      BY AreaSplits
    <2> HIDE DEF A, B
    <2>3. Cardinality(Area(f, s)) = Cardinality(A) + Cardinality(B) - Cardinality({})
      BY <2>1, <2>2, FS_Union
    <2>4. Cardinality(Area(f, s)) = Cardinality(A) + f[x] - Cardinality({})
      BY <2>1, <2>3
    <2> QED BY <2>4 DEF A
  <1>5. Cardinality(Area(f, s \ {x})) \in Nat /\ Cardinality({}) = 0
    BY <1>3, FS_CardinalityType, FS_EmptySet
  <1> QED BY <1>1, <1>3, <1>4, <1>5

\* SumFunction counts the area: the sizes of the areas satisfy its recursion,
\* and nothing else does, since two solutions would differ on a smallest set.
LEMMA SumIsArea ==
    ASSUME NEW f, IsFiniteSet(DOMAIN f), f \in [DOMAIN f -> Nat]
    PROVE  SumFunction(f) = Cardinality(Area(f, DOMAIN f))
  <1> DEFINE S == DOMAIN f
             G == [s \in SUBSET S |-> Cardinality(Area(f, s))]
             F == CHOOSE iter : SumStep(iter, f, S)
  <1>1. SumFunction(f) = F[S]
    BY DEF SumFunction, SumFunctionOnSet, FoldFunctionOnSet, MapThenFoldSet, SumStep
  <1>2. ASSUME NEW s \in SUBSET S, NEW x \in s
        PROVE  G[s] = f[x] + G[s \ {x}]
    BY AreaAddsUp
  <1>3. G[{}] = 0
    BY AreaOfNothing, FS_EmptySet
  <1>4. SumStep(G, f, S)
    <2>1. ASSUME NEW s \in SUBSET S
          PROVE G[s] = IF s = {} THEN 0
                       ELSE f[CHOOSE x \in s : TRUE] + G[s \ {CHOOSE x \in s : TRUE}]
      <3>1. s # {} => (CHOOSE x \in s : TRUE) \in s
        OBVIOUS
      <3> HIDE DEF G
      <3> QED BY <1>2, <1>3, <3>1
    <2> DEFINE H == [s \in SUBSET S |-> IF s = {} THEN 0
                       ELSE f[CHOOSE x \in s : TRUE] + G[s \ {CHOOSE x \in s : TRUE}]]
    <2>2. \A s \in SUBSET S : G[s] = H[s]
      BY <2>1
    <2>3. DOMAIN G = SUBSET S /\ DOMAIN H = SUBSET S
      OBVIOUS
    <2>4. G = H
      BY <2>2, <2>3
    <2> QED BY <2>4 DEF SumStep
  <1>5. SumStep(F, f, S)
    <2> HIDE DEF G
    <2> QED BY <1>4
  <1>6. \A s \in SUBSET S : F[s] = G[s]
    <2> HIDE DEF F, G
    <2> DEFINE Bad == {s \in SUBSET S : F[s] # G[s]}
               R == StrictSubsetOrdering(S)
    <2> SUFFICES ASSUME Bad # {} PROVE FALSE
      OBVIOUS
    <2>1. PICK s \in Bad : \A r \in Bad : ~(<<r, s>> \in R)
      <3>1. IsWellFoundedOn(R, SUBSET S)
        BY FS_StrictSubsetOrderingWellFounded, FS_FiniteSubsetsOfFinite
      <3>2. Bad \subseteq SUBSET S
        OBVIOUS
      <3> HIDE DEF Bad, R
      <3> QED BY <3>1, <3>2, WFMin
    <2>2. F[s] = IF s = {} THEN 0
                 ELSE f[CHOOSE x \in s : TRUE] + F[s \ {CHOOSE x \in s : TRUE}]
      BY <1>5 DEF SumStep
    <2>3. s # {}
      BY <1>3, <2>2
    <2> DEFINE x == CHOOSE x \in s : TRUE
    <2>4. x \in s
      BY <2>3
    <2>5. F[s] = f[x] + F[s \ {x}]
      BY <2>2, <2>3
    <2> HIDE DEF x
    <2>6. s \ {x} \notin Bad
      <3>1. <<s \ {x}, s>> \in R
        BY <2>4 DEF StrictSubsetOrdering
      <3> HIDE DEF R, Bad
      <3> QED BY <2>1, <3>1
    <2>7. F[s \ {x}] = G[s \ {x}]
      BY <2>6
    <2> QED BY <1>2, <2>4, <2>5, <2>7
  <1>7. F[S] = G[S]
    BY <1>6
  <1> QED BY <1>1, <1>7

------------------------------------------------------------------------------
(* The code of a completion                                                *)

(* However long a completion is, whose first fence is a bare one or says   *)
(* "python": whatever other fences follow, it is scored by its first       *)
(* block, and is reported unclosed only if that block is.                  *)
THEOREM FirstBlockIsTheCode ==
    ASSUME NEW t \in Seq(TextLine), NEW legacy \in BOOLEAN, OpensPlainly(t)
    PROVE  IsFirstBlock(extract_code(t, legacy), fence_unclosed(t), t, legacy)
  <1> DEFINE fences == {d \in DOMAIN t : t[d] \in Fences}
             first == Min(fences)
             closed == \E j \in fences : j > first
             open == fences # {} /\ ~closed /\ first # Len(t)
  <1>1. Len(t) \in Nat /\ DOMAIN t = 1..Len(t)
    OBVIOUS
  <1>2. /\ CodeFence(t) \subseteq fences /\ OpenFence(t) \subseteq fences
        /\ fences \subseteq 1..Len(t)
    BY <1>1 DEF CodeFence, OpenFence, Fences
  \* The first fence is one that opens a block.
  <1>3. fences # {} => /\ first \in fences /\ \A d \in fences : first <= d
                       /\ t[first] \in {"fence-python", "fence"}
    <2> SUFFICES ASSUME fences # {}
                 PROVE  /\ first \in fences /\ \A d \in fences : first <= d
                        /\ t[first] \in {"fence-python", "fence"}
      OBVIOUS
    <2>1. first \in fences /\ \A d \in fences : first <= d
      <3>1. fences \subseteq Nat
        BY <1>1
      <3> QED BY <3>1, MinIsLeast
    <2> HIDE DEF first
    <2>2. \A j \in 1..(first - 1) : t[j] \notin {"fence-python", "fence"}
      <3> SUFFICES ASSUME NEW j \in 1..(first - 1), t[j] \in {"fence-python", "fence"} PROVE FALSE
        OBVIOUS
      <3>1. j \in 1..Len(t) /\ j < first
        BY <1>1, <2>1
      <3>2. j \in fences
        BY <1>1, <3>1 DEF Fences
      <3> QED BY <2>1, <3>1, <3>2
    <2>3. t[first] \notin {"fence-py", "fence-js"}
      BY <2>1, <2>2 DEF OpensPlainly
    <2> QED BY <2>1, <2>3 DEF Fences
  <1>4. fences # {} => FencesAfter(t, first) = {j \in fences : j > first}
    <2> SUFFICES ASSUME fences # {} PROVE FencesAfter(t, first) = {j \in fences : j > first}
      OBVIOUS
    <2>1. first \in 1..Len(t)
      BY <1>1, <1>3
    <2>2. \A j \in DOMAIN t : j > first => j \in (first + 1)..Len(t)
      BY <1>1, <2>1
    <2>3. \A j \in (first + 1)..Len(t) : j \in DOMAIN t /\ j > first
      BY <1>1, <2>1
    <2> QED BY <2>2, <2>3 DEF FencesAfter
  <1>5. fences # {} /\ closed => CodeFence(t) # {} /\ Min(CodeFence(t)) = first
    <2> SUFFICES ASSUME fences # {}, closed
                 PROVE  CodeFence(t) # {} /\ Min(CodeFence(t)) = first
      OBVIOUS
    <2>1. first \in CodeFence(t)
      BY <1>3, <1>4 DEF CodeFence
    <2>2. CodeFence(t) \subseteq Nat /\ \A d \in CodeFence(t) : first <= d
      BY <1>1, <1>2, <1>3
    <2>3. Min(CodeFence(t)) \in CodeFence(t) /\ Min(CodeFence(t)) <= first
      BY <2>1, <2>2, MinIsLeast
    <2>4. first <= Min(CodeFence(t)) /\ first \in Nat /\ Min(CodeFence(t)) \in Nat
      BY <2>1, <2>2, <2>3
    <2> QED BY <2>1, <2>3, <2>4
  <1>6. ~closed => CodeFence(t) = {}
    <2> SUFFICES ASSUME ~closed, NEW d \in CodeFence(t) PROVE FALSE
      OBVIOUS
    <2>1. d \in fences /\ d \in 1..Len(t)
      BY <1>1, <1>2
    <2>2. PICK j \in (d + 1)..Len(t) : t[j] \in Fences
      BY DEF CodeFence, FencesAfter
    <2>3. j \in fences /\ d < j
      BY <1>1, <2>1, <2>2
    <2>4. first \in 1..Len(t) /\ first <= d
      BY <1>1, <1>3, <2>1
    <2> HIDE DEF fences, first
    <2> QED BY <2>1, <2>3, <2>4
  <1>7. open => OpenFence(t) # {} /\ Min(OpenFence(t)) = first /\ FencesAfter(t, first) = {}
    <2> SUFFICES ASSUME open
                 PROVE  OpenFence(t) # {} /\ Min(OpenFence(t)) = first /\ FencesAfter(t, first) = {}
      OBVIOUS
    <2>1. first \in OpenFence(t)
      BY <1>1, <1>3 DEF OpenFence
    <2>2. OpenFence(t) \subseteq Nat /\ \A d \in OpenFence(t) : first <= d
      BY <1>1, <1>2, <1>3
    <2>3. Min(OpenFence(t)) \in OpenFence(t) /\ Min(OpenFence(t)) <= first
      BY <2>1, <2>2, MinIsLeast
    <2>4. first <= Min(OpenFence(t)) /\ first \in Nat /\ Min(OpenFence(t)) \in Nat
      BY <2>1, <2>2, <2>3
    <2>5. Min(OpenFence(t)) = first
      <3> HIDE DEF first
      <3> QED BY ONLY <2>3, <2>4, <2>1, <2>2
    <2>6. FencesAfter(t, first) = {}
      <3>1. \A j \in fences : ~(j > first)
        OBVIOUS
      <3> QED BY <1>4, <3>1
    <2> QED BY <2>1, <2>5, <2>6
  <1>8. ~closed /\ ~open => OpenFence(t) = {}
    <2> SUFFICES ASSUME ~closed, ~open, NEW d \in OpenFence(t) PROVE FALSE
      OBVIOUS
    <2>1. d \in fences /\ d \in 1..(Len(t) - 1)
      BY <1>2 DEF OpenFence
    <2>2. first = Len(t) /\ first <= d
      BY <1>3, <2>1
    <2> QED BY <1>1, <2>1, <2>2
  <1>9. fence_unclosed(t) <=> open
    BY <1>5, <1>6, <1>7, <1>8 DEF fence_unclosed
  <1>10. ~closed /\ legacy => extract_code(t, legacy) = t
    BY <1>6 DEF extract_code
  <1>11. ~closed /\ ~legacy /\ ~open => extract_code(t, legacy) = WithoutFences(t)
    BY <1>6, <1>8 DEF extract_code
  <1>12. ASSUME fences # {}, closed
         PROVE  \E last \in first..Len(t) :
                    /\ extract_code(t, legacy) = SubSeq(t, first + 1, last)
                    /\ last + 1 \in fences \cup {Len(t) + 1}
                    /\ \A j \in (first + 1)..last : t[j] \notin Fences
    <2> DEFINE closers == {j \in fences : j > first}
               m == Min(closers)
    <2>1. extract_code(t, legacy) = SubSeq(t, first + 1, m - 1)
      BY <1>4, <1>5, <1>12 DEF extract_code, UpToTheNext, Between
    <2>2. closers \subseteq Nat /\ closers # {}
      <3>1. closers # {}
        <4> HIDE DEF first, fences
        <4> QED BY <1>12
      <3>2. fences \subseteq Nat
        BY <1>1
      <3> QED BY <3>1, <3>2
    <2>3. m \in closers /\ \A j \in closers : m <= j
      BY <2>2, MinIsLeast
    <2> HIDE DEF m
    <2>4. first \in 1..Len(t) /\ m \in 1..Len(t) /\ m > first
      BY <1>1, <1>3, <1>12, <2>3
    <2>5. ASSUME NEW j \in (first + 1)..(m - 1) PROVE t[j] \notin Fences
      <3>1. j \in DOMAIN t /\ j > first /\ j < m
        BY <1>1, <2>4
      <3>2. j \notin closers
        BY <1>1, <2>3, <2>4, <3>1
      <3> QED BY <3>1, <3>2
    <2>6. m - 1 \in first..Len(t) /\ (m - 1) + 1 = m
      BY <1>1, <2>4
    <2> QED BY <2>1, <2>3, <2>5, <2>6
  <1>13. ASSUME open, ~legacy
         PROVE  \E last \in first..Len(t) :
                    /\ extract_code(t, legacy) = SubSeq(t, first + 1, last)
                    /\ last + 1 \in fences \cup {Len(t) + 1}
                    /\ \A j \in (first + 1)..last : t[j] \notin Fences
    <2>1. first \in 1..Len(t)
      BY <1>1, <1>3, <1>13
    <2>2. extract_code(t, legacy) = SubSeq(t, first + 1, (Len(t) + 1) - 1)
      BY <1>6, <1>7, <1>13 DEF extract_code, Between
    <2>3. (Len(t) + 1) - 1 = Len(t)
      BY <1>1
    <2>4. ASSUME NEW j \in (first + 1)..Len(t) PROVE t[j] \notin Fences
      <3>1. j \in DOMAIN t /\ j > first
        BY <1>1, <2>1
      <3> QED BY <1>13, <3>1
    <2>5. Len(t) \in first..Len(t) /\ Len(t) + 1 \in fences \cup {Len(t) + 1}
      BY <1>1, <2>1
    <2>6. extract_code(t, legacy) = SubSeq(t, first + 1, Len(t))
      BY <2>2, <2>3
    <2> QED BY <2>4, <2>5, <2>6
  <1>14. closed => fences # {}
    OBVIOUS
  <1>15. /\ fence_unclosed(t) <=> open
         /\ CASE ~closed /\ legacy -> extract_code(t, legacy) = t
              [] ~closed /\ ~legacy /\ ~open -> extract_code(t, legacy) = WithoutFences(t)
              [] OTHER ->
                   \E last \in first..Len(t) :
                      /\ extract_code(t, legacy) = SubSeq(t, first + 1, last)
                      /\ last + 1 \in fences \cup {Len(t) + 1}
                      /\ \A j \in (first + 1)..last : t[j] \notin Fences
    <2> HIDE DEF fences, first, closed, open
    <2> QED BY <1>9, <1>10, <1>11, <1>12, <1>13, <1>14
  <1> QED BY <1>15 DEF IsFirstBlock

------------------------------------------------------------------------------
(* The examples of a prompt                                                *)

\* Where the search for a result ends.
LEMMA NextNonBlankIs ==
    ASSUME NEW S, NEW p \in Seq(S), NEW a \in 1..Len(p)
    PROVE  /\ NextNonBlank(p, a) \in (a + 1)..(Len(p) + 1)
           /\ NextNonBlank(p, a) <= Len(p) => p[NextNonBlank(p, a)] # "blank"
           /\ \A l \in (a + 1)..(NextNonBlank(p, a) - 1) : p[l] = "blank"
  <1> DEFINE T == {j \in (a + 1)..Len(p) : p[j] # "blank"} \cup {Len(p) + 1}
             m == Min(T)
  <1>1. Len(p) \in Nat
    OBVIOUS
  <1>2. T \subseteq Nat /\ Len(p) + 1 \in T
    BY <1>1
  <1>3. m \in T /\ \A o \in T : m <= o
    <2> HIDE DEF T
    <2> QED BY <1>2, MinIsLeast
  <1>4. m = NextNonBlank(p, a)
    BY DEF NextNonBlank
  <1> HIDE DEF m
  <1>5. m \in (a + 1)..(Len(p) + 1)
    BY <1>1, <1>2, <1>3
  <1>6. m <= Len(p) => p[m] # "blank"
    BY <1>1, <1>3
  <1>7. ASSUME NEW l \in (a + 1)..(m - 1) PROVE p[l] = "blank"
    <2>1. l \in (a + 1)..Len(p) /\ ~(m <= l)
      BY <1>1, <1>5
    <2> QED BY <1>3, <2>1
  <1> QED BY <1>4, <1>5, <1>6, <1>7

\* A call with its result, usable or not.
IsRaw(p, a) == LET j == NextNonBlank(p, a) IN p[a] \in Calls /\ j <= Len(p) /\ p[j] \notin Calls

\* The recursion of extract_raw_examples.
LoopStep(f, p) ==
    f = [n \in 1..(Len(p) + 2) |->
            IF n > Len(p) THEN <<>>
            ELSE LET j == NextNonBlank(p, n) IN
                 IF p[n] \in Calls /\ j <= Len(p) /\ p[j] \notin Calls
                 THEN <<<<n, j>>>> \o f[j + 1]
                 ELSE f[n + 1]]

\* The recursion of extract_raw_examples has a solution: each line needs only
\* later ones.
LEMMA LoopHasAResult ==
    ASSUME NEW S, NEW p \in Seq(S)
    PROVE  \E f : LoopStep(f, p)
  <1> DEFINE L == Len(p)
             Body(f, n) == IF n > L THEN <<>>
                           ELSE LET j == NextNonBlank(p, n) IN
                                IF p[n] \in Calls /\ j <= L /\ p[j] \notin Calls
                                THEN <<<<n, j>>>> \o f[j + 1]
                                ELSE f[n + 1]
             From(n) == \E f : f = [m \in n..(L + 2) |-> Body(f, m)]
             C == {n \in 1..(L + 2) : From(n)}
  <1>1. L \in Nat
    OBVIOUS
  <1>2. L + 2 \in C
    <2> DEFINE g == [m \in (L + 2)..(L + 2) |-> <<>>]
    <2>1. \A m \in (L + 2)..(L + 2) : Body(g, m) = <<>>
      BY <1>1
    <2>2. g = [m \in (L + 2)..(L + 2) |-> Body(g, m)]
      <3> HIDE DEF Body
      <3> QED BY <2>1
    <2>3. From(L + 2)
      <3> HIDE DEF g, Body
      <3> QED BY <2>2
    <2> QED BY <1>1, <2>3
  <1>3. ASSUME NEW n \in 1..((L + 2) - 1), (n + 1)..(L + 2) \subseteq C PROVE n \in C
    <2>1. n + 1 \in C
      BY <1>1, <1>3
    <2>2. PICK f : f = [m \in (n + 1)..(L + 2) |-> Body(f, m)]
      <3> HIDE DEF Body
      <3> QED BY <2>1
    <2> DEFINE g == [m \in n..(L + 2) |-> IF m = n THEN Body(f, n) ELSE f[m]]
    <2>3. \A m \in (n + 1)..(L + 2) : g[m] = f[m]
      BY <1>1
    <2>4. ASSUME NEW m \in n..(L + 2) PROVE Body(f, m) = Body(g, m)
      <3>1. CASE m > L
        BY <3>1
      <3>2. CASE m \in 1..L
        <4>1. m + 1 \in (n + 1)..(L + 2)
          BY <1>1, <3>2
        <4> DEFINE j == NextNonBlank(p, m)
        <4>2. j \in (m + 1)..(L + 1)
          BY <3>2, NextNonBlankIs
        <4> HIDE DEF j
        <4>3. j + 1 \in (n + 1)..(L + 2)
          BY <1>1, <4>2
        <4>4. g[j + 1] = f[j + 1] /\ g[m + 1] = f[m + 1]
          BY <2>3, <4>1, <4>3
        <4> HIDE DEF g
        <4> QED BY <4>4 DEF j
      <3> QED BY <1>1, <3>1, <3>2
    <2>5. \A m \in n..(L + 2) : g[m] = Body(g, m)
      <3>1. g[n] = Body(f, n)
        BY <1>1
      <3>2. \A m \in (n + 1)..(L + 2) : f[m] = Body(f, m)
        <4> HIDE DEF Body
        <4> QED BY <2>2
      <3>3. \A m \in n..(L + 2) : m = n \/ m \in (n + 1)..(L + 2)
        BY <1>1
      <3> HIDE DEF g, Body
      <3> QED BY <2>3, <2>4, <3>1, <3>2, <3>3
    <2>6. g = [m \in n..(L + 2) |-> Body(g, m)]
      <3> DEFINE h == [m \in n..(L + 2) |-> Body(g, m)]
      <3>1. DOMAIN g = n..(L + 2) /\ DOMAIN h = n..(L + 2) /\ g = [m \in DOMAIN g |-> g[m]]
        OBVIOUS
      <3>2. \A m \in n..(L + 2) : g[m] = h[m]
        <4> HIDE DEF g, Body
        <4> QED BY <2>5
      <3>3. h = [m \in DOMAIN h |-> h[m]]
        OBVIOUS
      <3> HIDE DEF g, h
      <3>4. g = h
        BY <3>1, <3>2, <3>3
      <3> QED BY <3>4 DEF h
    <2>7. From(n)
      <3> HIDE DEF g, Body
      <3> QED BY <2>6
    <2> HIDE DEF From
    <2> QED BY <1>1, <2>7
  <1>4. 1 \in C
    <2> DEFINE E == L + 2
    <2>0. 1 \in Nat /\ E \in Nat
      BY <1>1
    <2>1. E \in C
      BY <1>1, <1>2
    <2>2. \A n \in 1..(E - 1) : (n + 1)..E \subseteq C => n \in C
      BY <1>3
    <2>3. 1 \in 1..E
      BY <1>1
    <2> HIDE DEF C, E
    <2>4. 1..E \subseteq C
      BY <2>0, <2>1, <2>2, DownwardInduction
    <2> QED BY <2>3, <2>4
  <1>5. PICK f : f = [m \in 1..(L + 2) |-> Body(f, m)]
    <2> HIDE DEF Body
    <2> QED BY <1>4
  <1> QED BY <1>5 DEF LoopStep

\* A sequence with one element in front of it.
LEMMA Prepended ==
    ASSUME NEW Y, NEW y \in Y, NEW r \in Seq(Y)
    PROVE  /\ <<y>> \o r \in Seq(Y) /\ Len(r) \in Nat /\ DOMAIN r = 1..Len(r)
           /\ DOMAIN (<<y>> \o r) = 1..(Len(r) + 1)
           /\ (<<y>> \o r)[1] = y
           /\ \A m \in 1..Len(r) : (<<y>> \o r)[m + 1] = r[m]
           /\ \A m \in 2..(Len(r) + 1) : m - 1 \in 1..Len(r) /\ (<<y>> \o r)[m] = r[m - 1]
  OBVIOUS

\* What the loop has found from line a on: the calls with their results, in order.
RawFrom(p, q, a) ==
    /\ q \in Seq((1..Len(p)) \X (1..Len(p)))
    /\ \A m \in DOMAIN q : q[m][1] >= a /\ IsRaw(p, q[m][1]) /\ q[m][2] = NextNonBlank(p, q[m][1])
    /\ \A l, m \in DOMAIN q : l < m => q[l][1] < q[m][1]
    /\ \A b \in a..Len(p) : IsRaw(p, b) => \E m \in DOMAIN q : q[m][1] = b

\* Any solution of that recursion finds every call with a result, in order.
LEMMA LoopFindsAll ==
    ASSUME NEW S, NEW p \in Seq(S), NEW f, LoopStep(f, p)
    PROVE  RawFrom(p, f[1], 1)
  <1> DEFINE L == Len(p)
             C == {n \in 1..(L + 2) : RawFrom(p, f[n], n)}
  <1>1. L \in Nat
    OBVIOUS
  <1>2. ASSUME NEW n \in 1..(L + 2), n > L PROVE n \in C
    <2>1. f[n] = <<>>
      BY <1>2 DEF LoopStep
    <2>2. RawFrom(p, <<>>, n)
      BY <1>1, <1>2 DEF RawFrom
    <2> QED BY <2>1, <2>2
  <1>3. ASSUME NEW n \in 1..((L + 2) - 1), (n + 1)..(L + 2) \subseteq C PROVE n \in C
    <2>1. CASE n > L
      BY <1>1, <1>2, <2>1
    <2>2. CASE n <= L
      <3> DEFINE j == NextNonBlank(p, n)
      <3>1. j \in (n + 1)..(L + 1) /\ \A l \in (n + 1)..(j - 1) : p[l] = "blank"
        BY <2>2, NextNonBlankIs
      <3>2. f[n] = IF p[n] \in Calls /\ j <= L /\ p[j] \notin Calls
                   THEN <<<<n, j>>>> \o f[j + 1] ELSE f[n + 1]
        <4>1. n \in 1..(Len(p) + 2) /\ ~(n > Len(p))
          BY <1>1, <2>2
        <4>2. LoopStep(f, p)
          OBVIOUS
        <4> QED BY <4>1, <4>2 DEF LoopStep
      <3>3. IsRaw(p, n) <=> p[n] \in Calls /\ j <= L /\ p[j] \notin Calls
        BY DEF IsRaw
      <3> HIDE DEF j
      <3>4. CASE ~IsRaw(p, n)
        <4>1. f[n] = f[n + 1]
          BY <3>2, <3>3, <3>4
        <4>2. RawFrom(p, f[n + 1], n + 1)
          BY <1>1, <1>3
        <4>3. RawFrom(p, f[n + 1], n)
          <5>1. \A b \in n..L : b = n \/ b \in (n + 1)..L
            BY <1>1
          <5>2. \A m \in DOMAIN f[n + 1] : f[n + 1][m][1] \in 1..L
            BY <4>2 DEF RawFrom
          <5>3. \A m \in DOMAIN f[n + 1] : f[n + 1][m][1] >= n
            BY <1>1, <4>2, <5>2 DEF RawFrom
          <5> QED BY <3>4, <4>2, <5>1, <5>3 DEF RawFrom
        <4> QED BY <1>1, <4>1, <4>3
      <3>5. CASE IsRaw(p, n)
        <4> DEFINE r == f[j + 1]
                   q == <<<<n, j>>>> \o r
        <4>1. f[n] = q /\ j \in (n + 1)..L /\ p[j] \notin Calls
          BY <1>1, <3>1, <3>2, <3>3, <3>5
        <4>2. RawFrom(p, r, j + 1)
          BY <1>1, <1>3, <3>1
        <4> HIDE DEF r
        <4>3. r \in Seq((1..L) \X (1..L)) /\ <<n, j>> \in (1..L) \X (1..L)
          BY <1>1, <2>2, <4>1, <4>2 DEF RawFrom
        <4> DEFINE K == Len(r)
        <4>4. /\ q \in Seq((1..L) \X (1..L)) /\ K \in Nat /\ DOMAIN r = 1..K
              /\ DOMAIN q = 1..(K + 1)
              /\ q[1] = <<n, j>>
              /\ \A m \in 1..K : q[m + 1] = r[m]
              /\ \A m \in 2..(K + 1) : m - 1 \in 1..K /\ q[m] = r[m - 1]
          BY <4>3, Prepended
        <4> HIDE DEF K
        <4>5. \A m \in DOMAIN q : m = 1 \/ (m \in 2..(K + 1) /\ m - 1 \in DOMAIN r /\ q[m] = r[m - 1])
          BY <4>4
        <4>6. \A m \in DOMAIN r : r[m] \in (1..L) \X (1..L) /\ r[m][1] > j /\ r[m][1] > n
          BY <1>1, <4>1, <4>2, <4>3 DEF RawFrom
        <4> HIDE DEF q
        <4>7. \A m \in DOMAIN q : q[m][1] >= n /\ IsRaw(p, q[m][1]) /\ q[m][2] = NextNonBlank(p, q[m][1])
          <5> SUFFICES ASSUME NEW m \in DOMAIN q
                       PROVE  q[m][1] >= n /\ IsRaw(p, q[m][1]) /\ q[m][2] = NextNonBlank(p, q[m][1])
            OBVIOUS
          <5>1. CASE m = 1
            BY <3>5, <4>4, <5>1 DEF j
          <5>2. CASE m - 1 \in DOMAIN r /\ q[m] = r[m - 1]
            BY <1>1, <4>2, <4>6, <5>2 DEF RawFrom
          <5> QED BY <4>5, <5>1, <5>2
        <4>8. ASSUME NEW l \in DOMAIN q, NEW m \in DOMAIN q, l < m PROVE q[l][1] < q[m][1]
          <5>0. l \in 1..(K + 1) /\ m \in 1..(K + 1) /\ l < m
            BY <4>4, <4>8
          <5>1. m - 1 \in DOMAIN r /\ q[m] = r[m - 1]
            <6>1. m \in 2..(K + 1)
              BY <4>4, <5>0
            <6> QED BY <4>4, <6>1
          <5>2. CASE l = 1
            BY <4>4, <4>6, <5>1, <5>2
          <5>3. CASE l - 1 \in DOMAIN r /\ q[l] = r[l - 1]
            <6>1. l - 1 < m - 1
              BY <4>3, <4>4, <4>8
            <6> QED BY <4>2, <5>1, <5>3, <6>1 DEF RawFrom
          <5> QED BY <4>5, <5>2, <5>3
        <4>9. ASSUME NEW b \in n..L, IsRaw(p, b) PROVE \E m \in DOMAIN q : q[m][1] = b
          <5>1. CASE b = n
            <6>1. 1 \in DOMAIN q /\ q[1][1] = n
              BY <4>4
            <6> QED BY <5>1, <6>1
          <5>2. CASE b \in (n + 1)..j
            <6>1. p[b] \notin Calls
              BY <3>1, <4>1, <5>2 DEF Calls
            <6> QED BY <4>9, <6>1 DEF IsRaw
          <5>3. CASE b \in (j + 1)..L
            <6>1. PICK m \in DOMAIN r : r[m][1] = b
              BY <4>2, <4>9, <5>3 DEF RawFrom
            <6>2. m \in 1..K
              BY <4>4
            <6>3. m + 1 \in 1..(K + 1)
              <7>1. K \in Nat
                BY <4>4
              <7> QED BY <6>2, <7>1
            <6>4. q[m + 1] = r[m]
              BY <4>4, <6>2
            <6>5. m + 1 \in DOMAIN q
              BY <4>4, <6>3
            <6> QED BY <6>1, <6>4, <6>5
          <5> QED BY <1>1, <4>1, <5>1, <5>2, <5>3
        <4>10. RawFrom(p, q, n)
          BY <4>4, <4>7, <4>8, <4>9 DEF RawFrom
        <4> QED BY <1>1, <4>1, <4>10
      <3> QED BY <3>4, <3>5
    <2> QED BY <1>1, <2>1, <2>2
  <1>4. 1 \in C
    <2> DEFINE E == L + 2
    <2>0. 1 \in Nat /\ E \in Nat
      BY <1>1
    <2>1. E \in C
      BY <1>1, <1>2
    <2>2. \A n \in 1..(E - 1) : (n + 1)..E \subseteq C => n \in C
      BY <1>3
    <2>3. 1 \in 1..E
      BY <1>1
    <2> HIDE DEF C, E
    <2>4. 1..E \subseteq C
      BY <2>0, <2>1, <2>2, DownwardInduction
    <2> QED BY <2>3, <2>4
  <1> QED BY <1>4

\* Hence so does extract_raw_examples.
LEMMA RawExamplesAreAll ==
    ASSUME NEW S, NEW p \in Seq(S)
    PROVE  RawFrom(p, extract_raw_examples(p), 1)
  <1> DEFINE f == CHOOSE g : LoopStep(g, p)
  <1>1. LoopStep(f, p)
    BY LoopHasAResult
  <1>2. extract_raw_examples(p) = f[1]
    BY DEF extract_raw_examples, LoopStep
  <1> QED BY <1>1, <1>2, LoopFindsAll

\* A pair that can be run: the call parses and its result is a literal.
IsUsable(p, ij) == p[ij[1]] = "call" /\ p[ij[2]] = "literal"

\* The loop of parse_examples over the raw examples.
FilterStep(f, p, raw) ==
    f = [n \in 0..Len(raw) |->
            IF n = 0 THEN <<>>
            ELSE IF p[raw[n][1]] = "call" /\ p[raw[n][2]] = "literal"
                 THEN Append(f[n - 1], raw[n]) ELSE f[n - 1]]

\* The loop of parse_examples has a result.
LEMMA FilterHasAResult ==
    ASSUME NEW Y, NEW raw \in Seq(Y), NEW p
    PROVE  \E f : FilterStep(f, p, raw)
  <1> DEFINE N == Len(raw)
             X == Seq(Y)
             G == [n \in (0 + 1)..N |-> [x \in X |-> IF IsUsable(p, raw[n]) THEN Append(x, raw[n]) ELSE x]]
  <1>1. N \in Nat /\ <<>> \in X
    OBVIOUS
  <1>2. \A n \in (0 + 1)..N, x \in X : Append(x, raw[n]) \in X
    OBVIOUS
  <1>3. G \in [(0 + 1)..N -> [X -> X]]
    BY <1>2
  <1>4. \A n \in (0 + 1)..N, x \in X : G[n][x] = IF IsUsable(p, raw[n]) THEN Append(x, raw[n]) ELSE x
    OBVIOUS
  <1>5. PICK f \in [0..N -> X] : f[0] = <<>> /\ \A n \in (0 + 1)..N : f[n] = G[n][f[n - 1]]
    <2> DEFINE z == 0
               e == <<>>
    <2>1. z \in Nat /\ z <= N /\ N \in Nat /\ e \in X
      BY <1>1
    <2>2. G \in [(z + 1)..N -> [X -> X]]
      BY <1>3
    <2> HIDE DEF G, X, N, z, e
    <2>3. \E f : LoopValues(f, z, N, X, e, G)
      BY <2>1, <2>2, LoopHasValues
    <2> QED BY <2>3 DEF z, e, LoopValues
  <1>6. ASSUME NEW n \in 0..N
        PROVE  f[n] = IF n = 0 THEN <<>> ELSE IF IsUsable(p, raw[n])
                      THEN Append(f[n - 1], raw[n]) ELSE f[n - 1]
    <2>1. CASE n = 0
      BY <1>5, <2>1
    <2>2. CASE n # 0
      <3>1. n \in (0 + 1)..N /\ n - 1 \in 0..N
        BY <1>1, <2>2
      <3>2. f[n - 1] \in X
        BY <3>1
      <3> HIDE DEF G, X
      <3> QED BY <1>4, <1>5, <2>2, <3>1, <3>2
    <2> QED BY <2>1, <2>2
  <1>7. f = [n \in 0..N |-> IF n = 0 THEN <<>> ELSE IF IsUsable(p, raw[n])
                      THEN Append(f[n - 1], raw[n]) ELSE f[n - 1]]
    <2> DEFINE h == [n \in 0..N |-> IF n = 0 THEN <<>> ELSE IF IsUsable(p, raw[n])
                      THEN Append(f[n - 1], raw[n]) ELSE f[n - 1]]
    <2>1. f = [n \in 0..N |-> f[n]]
      OBVIOUS
    <2>2. \A n \in 0..N : f[n] = h[n]
      BY <1>6
    <2>3. h = [n \in 0..N |-> h[n]]
      OBVIOUS
    <2> HIDE DEF h
    <2>4. f = h
      BY <2>1, <2>2, <2>3
    <2> QED BY <2>4 DEF h
  <1> QED BY <1>7 DEF FilterStep, IsUsable

\* q is the usable ones of the first n of raw, in their order.
UsableOf(p, raw, q, n) ==
    /\ \A m \in DOMAIN q : \E l \in 1..n : q[m] = raw[l] /\ IsUsable(p, raw[l])
    /\ \A l \in 1..n : IsUsable(p, raw[l]) => \E m \in DOMAIN q : q[m] = raw[l]
    /\ \A m, o \in DOMAIN q : m < o => q[m][1] < q[o][1]

\* It keeps the usable examples, in their order.
LEMMA FilterKeepsTheUsable ==
    ASSUME NEW Y, NEW raw \in Seq(Y), NEW p, NEW f, FilterStep(f, p, raw),
           \A l, m \in DOMAIN raw : l < m => raw[l][1] < raw[m][1]
    PROVE  f[Len(raw)] \in Seq(Y) /\ UsableOf(p, raw, f[Len(raw)], Len(raw))
  <1> DEFINE N == Len(raw)
             C == {n \in 0..N : f[n] \in Seq(Y) /\ UsableOf(p, raw, f[n], n)}
  <1>1. N \in Nat /\ DOMAIN raw = 1..N
    OBVIOUS
  <1>2. /\ f[0] = <<>>
        /\ \A n \in 1..N : f[n] = IF IsUsable(p, raw[n]) THEN Append(f[n - 1], raw[n]) ELSE f[n - 1]
    <2>1. \A n \in 0..N : f[n] = IF n = 0 THEN <<>>
                             ELSE IF IsUsable(p, raw[n]) THEN Append(f[n - 1], raw[n]) ELSE f[n - 1]
      BY DEF FilterStep, IsUsable
    <2>2. 0 \in 0..N /\ \A n \in 1..N : n \in 0..N /\ n # 0
      BY <1>1
    <2> HIDE DEF N
    <2> QED BY <2>1, <2>2
  <1>3. 0 \in C
    <2>1. <<>> \in Seq(Y) /\ DOMAIN <<>> = {} /\ 1..0 = {}
      OBVIOUS
    <2>2. UsableOf(p, raw, <<>>, 0)
      BY <2>1 DEF UsableOf
    <2>3. f[0] \in Seq(Y) /\ UsableOf(p, raw, f[0], 0)
      BY <1>2, <2>1, <2>2
    <2>4. 0 \in 0..N
      BY <1>1
    <2> QED BY <2>3, <2>4
  <1>4. ASSUME NEW n \in (0 + 1)..N, n - 1 \in C PROVE n \in C
    <2> DEFINE q == f[n - 1]
    <2>1. q \in Seq(Y) /\ UsableOf(p, raw, q, n - 1) /\ n \in 1..N /\ raw[n] \in Y
      BY <1>4
    <2>2. f[n] = IF IsUsable(p, raw[n]) THEN Append(q, raw[n]) ELSE q
      BY <1>2, <2>1
    <2> HIDE DEF q
    <2>3. \A l \in 1..n : l = n \/ l \in 1..(n - 1)
      BY <2>1
    <2>4. \A l \in 1..(n - 1) : l \in 1..n /\ raw[l][1] < raw[n][1]
      BY <1>1, <2>1
    <2>5. CASE ~IsUsable(p, raw[n])
      <3>1. UsableOf(p, raw, q, n)
        BY <2>1, <2>3, <2>4, <2>5 DEF UsableOf
      <3> QED BY <1>4, <2>1, <2>2, <2>5, <3>1
    <2>6. CASE IsUsable(p, raw[n])
      <3> DEFINE r == Append(q, raw[n])
                 K == Len(q)
      <3>1. /\ r \in Seq(Y) /\ K \in Nat /\ DOMAIN q = 1..K /\ DOMAIN r = 1..(K + 1)
            /\ r[K + 1] = raw[n] /\ \A m \in 1..K : r[m] = q[m]
        BY <2>1
      <3> HIDE DEF r, K
      <3>2. \A m \in DOMAIN r : m = K + 1 \/ m \in 1..K
        BY <3>1
      <3>3. \A m \in 1..K : m \in DOMAIN r /\ m \in DOMAIN q /\ r[m] = q[m]
        BY <3>1
      <3>4. K + 1 \in DOMAIN r
        BY <3>1
      <3>5. ASSUME NEW m \in DOMAIN r PROVE \E l \in 1..n : r[m] = raw[l] /\ IsUsable(p, raw[l])
        <4>1. CASE m = K + 1
          BY <2>1, <2>6, <3>1, <4>1
        <4>2. CASE m \in 1..K
          <5>1. PICK l \in 1..(n - 1) : q[m] = raw[l] /\ IsUsable(p, raw[l])
            BY <2>1, <3>3, <4>2 DEF UsableOf
          <5> QED BY <2>4, <3>3, <4>2, <5>1
        <4> QED BY <3>2, <4>1, <4>2
      <3>6. ASSUME NEW l \in 1..n, IsUsable(p, raw[l]) PROVE \E m \in DOMAIN r : r[m] = raw[l]
        <4>1. CASE l = n
          BY <3>1, <3>4, <4>1
        <4>2. CASE l \in 1..(n - 1)
          <5>1. PICK m \in DOMAIN q : q[m] = raw[l]
            BY <2>1, <3>6, <4>2 DEF UsableOf
          <5>2. m \in 1..K
            BY <3>1
          <5> QED BY <3>3, <5>1, <5>2
        <4> QED BY <2>3, <4>1, <4>2
      <3>7. ASSUME NEW m \in DOMAIN r, NEW o \in DOMAIN r, m < o PROVE r[m][1] < r[o][1]
        <4>1. m \in 1..K
          <5>1. m \in 1..(K + 1) /\ o \in 1..(K + 1)
            BY <3>1
          <5> QED BY <3>1, <3>7, <5>1
        <4>2. CASE o = K + 1
          <5>1. PICK l \in 1..(n - 1) : q[m] = raw[l]
            BY <2>1, <3>3, <4>1 DEF UsableOf
          <5> QED BY <2>4, <3>1, <3>3, <4>1, <4>2, <5>1
        <4>3. CASE o \in 1..K
          BY <2>1, <3>3, <3>7, <4>1, <4>3 DEF UsableOf
        <4> QED BY <3>2, <4>2, <4>3
      <3>8. UsableOf(p, raw, r, n)
        BY <3>5, <3>6, <3>7 DEF UsableOf
      <3>9. f[n] = r
        BY <2>2, <2>6 DEF r
      <3> QED BY <1>4, <3>1, <3>8, <3>9
    <2> QED BY <2>5, <2>6
  <1>5. N \in C
    <2> HIDE DEF C, N
    <2>1. \A n \in (0 + 1)..N : n - 1 \in C => n \in C
      BY <1>4
    <2>2. 0..N \subseteq C
      BY <1>1, <1>3, <2>1, UpwardInduction
    <2> QED BY <1>1, <2>2
  <1> QED BY <1>5

\* What ExamplesAreCallAndResult says of a prompt p and the examples q.
UsablePairs(p) ==
    {ij \in (DOMAIN p) \X (DOMAIN p) :
        /\ p[ij[1]] = "call" /\ p[ij[2]] = "literal"
        /\ ij[1] < ij[2]
        /\ \A l \in (ij[1] + 1)..(ij[2] - 1) : p[l] = "blank"}

(* However long a prompt is, its examples are the calls with their results. *)
THEOREM ExamplesAreTheCalls ==
    ASSUME NEW S, NEW p \in Seq(S)
    PROVE  LET q == parse_examples(p) IN
           /\ q \in Seq(UsablePairs(p)) /\ UsablePairs(p) \subseteq Range(q)
           /\ \A m, n \in DOMAIN q : m < n => q[m][1] < q[n][1]
  <1> DEFINE raw == extract_raw_examples(p)
             L == Len(p)
             Y == (1..L) \X (1..L)
             f == CHOOSE g : FilterStep(g, p, raw)
             q == f[Len(raw)]
  <1>1. L \in Nat /\ DOMAIN p = 1..L
    OBVIOUS
  <1>2. RawFrom(p, raw, 1)
    BY RawExamplesAreAll
  <1>3. parse_examples(p) = q
    BY DEF parse_examples, FilterStep
  <1> HIDE DEF raw
  <1>4. raw \in Seq(Y) /\ \A l, m \in DOMAIN raw : l < m => raw[l][1] < raw[m][1]
    BY <1>2 DEF RawFrom
  <1>5. FilterStep(f, p, raw)
    BY <1>4, FilterHasAResult
  <1> HIDE DEF f
  <1>6. q \in Seq(Y) /\ UsableOf(p, raw, q, Len(raw))
    BY <1>4, <1>5, FilterKeepsTheUsable
  <1> HIDE DEF q
  <1>7. Len(raw) \in Nat /\ DOMAIN raw = 1..Len(raw)
    BY <1>4
  <1>8. ASSUME NEW l \in 1..Len(raw), IsUsable(p, raw[l]) PROVE raw[l] \in UsablePairs(p)
    <2> DEFINE a == raw[l][1]
               j == raw[l][2]
    <2>1. raw[l] \in Y /\ a \in 1..L /\ j \in 1..L /\ raw[l] = <<a, j>>
      BY <1>4, <1>7
    <2>2. j = NextNonBlank(p, a)
      BY <1>2, <1>7 DEF RawFrom
    <2>3. j \in (a + 1)..(L + 1) /\ \A m \in (a + 1)..(j - 1) : p[m] = "blank"
      BY <2>1, <2>2, NextNonBlankIs
    <2>4. p[a] = "call" /\ p[j] = "literal"
      BY <1>8 DEF IsUsable
    <2> QED BY <1>1, <2>1, <2>3, <2>4 DEF UsablePairs
  <1>9. ASSUME NEW ij \in UsablePairs(p)
        PROVE  \E l \in 1..Len(raw) : raw[l] = ij /\ IsUsable(p, raw[l])
    <2> DEFINE a == ij[1]
               j == ij[2]
    <2>1. /\ a \in 1..L /\ j \in 1..L /\ ij = <<a, j>>
          /\ p[a] = "call" /\ p[j] = "literal" /\ a < j
          /\ \A m \in (a + 1)..(j - 1) : p[m] = "blank"
      BY <1>1 DEF UsablePairs
    <2> HIDE DEF a, j
    <2> DEFINE b == NextNonBlank(p, a)
    <2>2. /\ b \in (a + 1)..(L + 1) /\ (b <= L => p[b] # "blank")
          /\ \A m \in (a + 1)..(b - 1) : p[m] = "blank"
      BY <2>1, NextNonBlankIs
    <2> HIDE DEF b
    <2>3. ~(j < b)
      <3>1. j < b => j \in (a + 1)..(b - 1)
        BY <2>1, <2>2
      <3> QED BY <2>1, <2>2, <3>1
    <2>4. ~(b < j)
      <3>1. b < j => b \in (a + 1)..(j - 1) /\ b <= L
        BY <1>1, <2>1, <2>2
      <3> QED BY <2>1, <2>2, <3>1
    <2>5. b = j
      BY <1>1, <2>1, <2>2, <2>3, <2>4
    <2>6. IsRaw(p, a)
      BY <2>1, <2>5 DEF IsRaw, Calls, b
    <2>7. PICK l \in DOMAIN raw : raw[l][1] = a
      BY <1>2, <2>1, <2>6 DEF RawFrom
    <2>8. raw[l][2] = j /\ raw[l] \in Y
      BY <1>2, <1>4, <2>5, <2>7 DEF RawFrom, b
    <2>9. raw[l] = <<a, j>>
      BY <2>7, <2>8
    <2>10. IsUsable(p, raw[l])
      BY <2>1, <2>7, <2>8 DEF IsUsable
    <2> QED BY <1>7, <2>1, <2>7, <2>9, <2>10
  <1>10. q \in Seq(UsablePairs(p))
    <2>1. Len(q) \in Nat /\ DOMAIN q = 1..Len(q) /\ q = [m \in 1..Len(q) |-> q[m]]
      BY <1>6
    <2>2. \A m \in 1..Len(q) : q[m] \in UsablePairs(p)
      BY <1>6, <1>8, <2>1 DEF UsableOf
    <2> QED BY <2>1, <2>2
  <1>11. UsablePairs(p) \subseteq Range(q)
    BY <1>6, <1>9 DEF UsableOf, Range
  <1>12. \A m, n \in DOMAIN q : m < n => q[m][1] < q[n][1]
    BY <1>6 DEF UsableOf
  <1> QED BY <1>3, <1>10, <1>11, <1>12

------------------------------------------------------------------------------
(* The busy time of a trace: the operations in order of start, merged      *)

\* A set of operations that is not empty has one that none is earlier than.
LEMMA EarliestExists ==
    ASSUME NEW A, A \subseteq Nat \X Nat, A # {}
    PROVE  \E x \in A : \A y \in A : ~Earlier(y, x)
  <1> DEFINE S1 == {x[1] : x \in A}
  <1>1. S1 \subseteq Nat /\ S1 # {}
    OBVIOUS
  <1>2. PICK s \in S1 : \A o \in S1 : s <= o
    <2> HIDE DEF S1
    <2> QED BY <1>1, LeastExists
  <1> DEFINE S2 == {x[2] : x \in {y \in A : y[1] = s}}
  <1>3. S2 \subseteq Nat /\ S2 # {}
    OBVIOUS
  <1>4. PICK e \in S2 : \A o \in S2 : e <= o
    <2> HIDE DEF S2
    <2> QED BY <1>3, LeastExists
  <1>5. PICK x \in A : x[1] = s /\ x[2] = e
    OBVIOUS
  <1>6. ASSUME NEW y \in A PROVE ~Earlier(y, x)
    <2>1. y[1] \in S1 /\ y[1] \in Nat /\ y[2] \in Nat /\ x[1] \in Nat /\ x[2] \in Nat
      OBVIOUS
    <2>2. s <= y[1]
      BY <1>2, <2>1
    <2>3. y[1] = s => y[2] \in S2
      OBVIOUS
    <2>4. y[1] = s => e <= y[2]
      BY <1>4, <2>3
    <2> HIDE DEF S1, S2
    <2> QED BY <1>5, <2>1, <2>2, <2>4 DEF Earlier
  <1> QED BY <1>6

\* The first m of a sorted rearrangement of v: the m earliest operations, in order.
Arranged(v, q, m) ==
    LET n == Len(v) IN
    /\ q \in [1..m -> 1..n]
    /\ \A l, o \in 1..m : l # o => q[l] # q[o]
    /\ \A l, o \in 1..m : l < o => ~Earlier(v[q[o]], v[q[l]])
    /\ \A l \in 1..m, x \in 1..n : (\A o \in 1..m : q[o] # x) => ~Earlier(v[x], v[q[l]])

\* While fewer than all are arranged, one is left.
LEMMA OneIsLeft ==
    ASSUME NEW n \in Nat, NEW m \in Nat, m < n, NEW q \in [1..m -> 1..n]
    PROVE  \E x \in 1..n : \A o \in 1..m : q[o] # x
  <1> DEFINE A == 1..m
             B == 1..n
  <1>1. IsFiniteSet(A) /\ Cardinality(A) = m /\ Cardinality(B) = n
    BY FS_Interval
  <1> SUFFICES ASSUME \A x \in B : \E o \in A : q[o] = x PROVE FALSE
    OBVIOUS
  <1>2. q \in Surjection(A, B)
    BY DEF Surjection
  <1> HIDE DEF A, B
  <1>3. Cardinality(B) <= Cardinality(A)
    BY <1>1, <1>2, FS_Surjection
  <1> QED BY <1>1, <1>3

\* One of the operations that are left comes next in order.
LEMMA OneMoreIsArranged ==
    ASSUME NEW v \in Seq(Nat \X Nat), NEW m \in 1..Len(v), NEW q, Arranged(v, q, m - 1)
    PROVE  \E r : Arranged(v, r, m)
  <1> DEFINE n == Len(v)
             L == {x \in 1..n : \A o \in 1..(m - 1) : q[o] # x}
             A == {v[x] : x \in L}
  <1>0. n \in Nat /\ m - 1 \in Nat /\ m - 1 < n /\ q \in [1..(m - 1) -> 1..n]
    <2>1. q \in [1..(m - 1) -> 1..n]
      BY DEF Arranged
    <2>2. n \in Nat /\ m \in 1..n
      OBVIOUS
    <2> HIDE DEF n
    <2> QED BY <2>1, <2>2
  <1>1. L # {}
    <2> DEFINE l == m - 1
    <2>1. l \in Nat /\ l < n /\ q \in [1..l -> 1..n]
      BY <1>0
    <2> HIDE DEF n, l
    <2>2. \E x \in 1..n : \A o \in 1..l : q[o] # x
      BY <1>0, <2>1, OneIsLeft
    <2> QED BY <2>2 DEF l
  <1>2. A \subseteq Nat \X Nat /\ A # {}
    <2>1. \A x \in L : v[x] \in Nat \X Nat
      <3> HIDE DEF n
      <3>1. \A x \in L : x \in 1..n
        OBVIOUS
      <3> QED BY <3>1 DEF n
    <2> HIDE DEF L
    <2> QED BY <1>1, <2>1
  <1>3. PICK a \in A : \A y \in A : ~Earlier(y, a)
    <2> HIDE DEF A
    <2> QED BY <1>2, EarliestExists
  <1>4. PICK x \in L : \A y \in L : ~Earlier(v[y], v[x])
    <2> HIDE DEF L
    <2> QED BY <1>3
  <1> DEFINE r == [l \in 1..m |-> IF l = m THEN x ELSE q[l]]
  <1>5. x \in 1..n /\ \A o \in 1..(m - 1) : q[o] # x
    OBVIOUS
  <1>6. \A l \in 1..m : l = m \/ l \in 1..(m - 1)
    OBVIOUS
  <1>7. \A l \in 1..(m - 1) : l \in 1..m /\ l # m /\ r[l] = q[l] /\ q[l] \in 1..n
    <2>1. \A l \in 1..(m - 1) : l \in 1..m /\ l # m
      OBVIOUS
    <2>2. \A l \in 1..(m - 1) : q[l] \in 1..n
      <3> HIDE DEF n
      <3> QED BY <1>0
    <2> QED BY <2>1, <2>2
  <1>8. m \in 1..m /\ r[m] = x
    OBVIOUS
  <1>9. r \in [1..m -> 1..n]
    BY <1>5, <1>6, <1>7
  <1> HIDE DEF r
  <1>10. \A l, o \in 1..m : l # o => r[l] # r[o]
    <2>1. \A l, o \in 1..(m - 1) : l # o => q[l] # q[o]
      BY DEF Arranged
    <2> HIDE DEF n, L, A
    <2> QED BY <1>5, <1>6, <1>7, <1>8, <2>1
  <1>11. ASSUME NEW l \in 1..m, NEW o \in 1..m, l < o PROVE ~Earlier(v[r[o]], v[r[l]])
    <2>1. l \in 1..(m - 1)
      BY <1>11
    <2>2. CASE o = m
      <3>1. ~Earlier(v[x], v[q[l]])
        BY <1>5, <2>1 DEF Arranged
      <3> QED BY <1>7, <1>8, <2>1, <2>2, <3>1
    <2>3. CASE o \in 1..(m - 1)
      <3>1. ~Earlier(v[q[o]], v[q[l]])
        BY <1>11, <2>1, <2>3 DEF Arranged
      <3> QED BY <1>7, <2>1, <2>3, <3>1
    <2> QED BY <1>6, <2>2, <2>3
  <1>12. ASSUME NEW l \in 1..m, NEW y \in 1..n, \A o \in 1..m : r[o] # y
         PROVE  ~Earlier(v[y], v[r[l]])
    <2>1. \A o \in 1..(m - 1) : q[o] # y
      BY <1>7, <1>12
    <2>2. CASE l = m
      BY <1>4, <1>8, <2>1, <2>2
    <2>3. CASE l \in 1..(m - 1)
      <3>1. ~Earlier(v[y], v[q[l]])
        BY <2>1, <2>3 DEF Arranged
      <3> QED BY <1>7, <2>3, <3>1
    <2> QED BY <1>6, <2>2, <2>3
  <1>13. Arranged(v, r, m)
    BY <1>9, <1>10, <1>11, <1>12 DEF Arranged
  <1> QED BY <1>13

\* What sort() makes of a list: the same operations, none before an earlier one.
IsSorted(s, v) ==
    LET n == Len(v) IN
    /\ s \in [1..n -> Range(v)]
    /\ \E p \in Bijection(1..n, 1..n) : s = [d \in 1..n |-> v[p[d]]]
    /\ \A d, j \in 1..n : d < j => ~Earlier(s[j], s[d])

\* Sorted is an ordered arrangement of the operations: there is one to choose.
LEMMA SortedIsSorted ==
    ASSUME NEW v \in Seq(Nat \X Nat)
    PROVE  IsSorted(Sorted(v), v)
  <1> DEFINE n == Len(v)
             C == {m \in 0..n : \E q : Arranged(v, q, m)}
  <1>1. n \in Nat /\ DOMAIN v = 1..n
    OBVIOUS
  <1>2. 0 \in C
    <2>1. 1..0 = {} /\ [l \in 1..0 |-> l] \in [1..0 -> 1..n]
      OBVIOUS
    <2>2. Arranged(v, [l \in 1..0 |-> l], 0)
      BY <2>1 DEF Arranged
    <2> QED BY <1>1, <2>2
  <1>3. \A m \in (0 + 1)..n : m - 1 \in C => m \in C
    BY <1>1, OneMoreIsArranged
  <1>4. n \in C
    <2> HIDE DEF n, C
    <2>1. 0..n \subseteq C
      BY <1>1, <1>2, <1>3, UpwardInduction
    <2> QED BY <1>1, <2>1
  <1>5. PICK q : Arranged(v, q, n)
    BY <1>4
  <1>6. q \in Bijection(1..n, 1..n)
    <2> DEFINE B == 1..n
    <2>1. q \in Injection(B, B)
      BY <1>5 DEF Arranged, Injection, IsInjective
    <2>2. IsFiniteSet(B)
      BY <1>1, FS_Interval
    <2> HIDE DEF B
    <2>3. q \in Surjection(B, B)
      BY <2>1, <2>2, FS_Injection
    <2> QED BY <2>1, <2>3 DEF Bijection, B
  <1> DEFINE s == [d \in 1..n |-> v[q[d]]]
  <1>7. s \in [1..n -> Range(v)]
    <2>1. \A d \in 1..n : q[d] \in DOMAIN v
      BY <1>1, <1>5 DEF Arranged
    <2> QED BY <2>1 DEF Range
  <1>8. \A d, j \in 1..n : d < j => ~Earlier(s[j], s[d])
    BY <1>5 DEF Arranged
  <1>9. IsSorted(s, v)
    BY <1>6, <1>7, <1>8 DEF IsSorted
  <1> HIDE DEF s
  <1>10. \E z \in [1..n -> Range(v)] :
            /\ \E p \in Bijection(1..n, 1..n) : z = [d \in 1..n |-> v[p[d]]]
            /\ \A d, j \in 1..n : d < j => ~Earlier(z[j], z[d])
    BY <1>9 DEF IsSorted
  <1> QED BY <1>10 DEF Sorted, IsSorted

Covers(iv, t) == iv[1] <= t /\ t < iv[2]

\* The operations of s as the loop gets them.
InOrder(s, N) ==
    /\ s \in [1..N -> Nat \X Nat]
    /\ \A d \in 1..N : s[d][1] <= s[d][2]
    /\ \A d, j \in 1..N : d < j => s[d][1] <= s[j][1]

Touches(q, iv) == iv[1] <= q[Len(q)][2]

\* What the blocks q are of the first n operations of s: they lie apart, in
\* order, and cover the same time.
BlocksOf(s, q, n) ==
    /\ q \in Seq(Nat \X Nat) /\ q # <<>>
    /\ \A l \in DOMAIN q : q[l][1] <= q[l][2]
    /\ \A l, m \in DOMAIN q : l < m => q[l][2] < q[m][1]
    /\ \A t \in Nat : (\E d \in 1..n : Covers(s[d], t)) <=> (\E l \in DOMAIN q : Covers(q[l], t))
    /\ q[1][1] = s[1][1]
    /\ \A d \in 1..n : s[d][2] <= q[Len(q)][2]
    /\ \E d \in 1..n : s[d][2] = q[Len(q)][2]
    /\ \E d \in 1..n : s[d][1] = q[Len(q)][1]

\* The operation belongs to the last block.
LEMMA BlockGrows ==
    ASSUME NEW N \in Nat, NEW s, InOrder(s, N), NEW n \in 2..N, NEW q,
           BlocksOf(s, q, n - 1), Touches(q, s[n])
    PROVE  BlocksOf(s, Merge(q, s[n]), n)
  <1> DEFINE K == Len(q)
             iv == s[n]
             e == Max2(q[K][2], iv[2])
             r == [q EXCEPT ![K] = <<q[K][1], e>>]
  <1>1. /\ q \in Seq(Nat \X Nat) /\ K \in Nat /\ K >= 1 /\ DOMAIN q = 1..K
        /\ K \in 1..K /\ 1 \in 1..K
    <2>1. q \in Seq(Nat \X Nat) /\ q # <<>>
      BY DEF BlocksOf
    <2>2. K \in Nat /\ DOMAIN q = 1..K /\ K # 0
      BY <2>1
    <2> HIDE DEF K
    <2> QED BY <2>1, <2>2
  <1>2. \A l \in 1..K : q[l] \in Nat \X Nat /\ q[l][1] \in Nat /\ q[l][2] \in Nat
    BY <1>1
  <1>3. /\ iv \in Nat \X Nat /\ iv[1] \in Nat /\ iv[2] \in Nat
        /\ q[K][1] \in Nat /\ q[K][2] \in Nat /\ iv[1] <= iv[2]
    <2>1. n \in 1..N
      OBVIOUS
    <2>2. q[K] \in Nat \X Nat
      BY <1>1
    <2>3. s[n] \in Nat \X Nat /\ s[n][1] <= s[n][2]
      BY <2>1 DEF InOrder
    <2> HIDE DEF K
    <2> QED BY <2>2, <2>3
  <1>4. e \in Nat /\ e >= q[K][2] /\ e >= iv[2] /\ (e = q[K][2] \/ e = iv[2])
    <2> HIDE DEF iv, K
    <2> QED BY <1>3 DEF Max2
  <1>5. Merge(q, iv) = r
    BY DEF Merge, Touches
  <1> HIDE DEF e
  <1>6. r \in Seq(Nat \X Nat) /\ Len(r) = K /\ DOMAIN r = 1..K
    BY <1>1, <1>2, <1>4
  <1>7. /\ r[K][1] = q[K][1] /\ r[K][2] = e
        /\ \A l \in 1..K : l # K => r[l] = q[l]
    BY <1>1
  <1>8. \A l \in 1..K : r[l][1] = q[l][1]
    BY <1>7
  <1>9. \A d \in 1..n : d = n \/ d \in 1..(n - 1)
    OBVIOUS
  <1>10. n \in 1..n /\ \A d \in 1..(n - 1) : d \in 1..n
    OBVIOUS
  <1> HIDE DEF r, K
  <1>11. q[K][1] <= iv[1] /\ iv[1] <= q[K][2]
    <2>1. PICK d \in 1..(n - 1) : s[d][1] = q[K][1]
      BY DEF BlocksOf, K
    <2>2. d \in 1..N /\ n \in 1..N /\ d < n
      OBVIOUS
    <2>3. s[d][1] <= s[n][1]
      BY <2>2 DEF InOrder
    <2> QED BY <2>1, <2>3 DEF K, Touches
  <1>12. \A l \in 1..K : r[l][1] <= r[l][2]
    <2>1. \A l \in 1..K : q[l][1] <= q[l][2]
      BY <1>1 DEF BlocksOf
    <2>2. q[K][1] <= e
      <3> HIDE DEF iv
      <3> QED BY <1>1, <1>2, <1>4, <2>1
    <2> QED BY <1>7, <2>1, <2>2
  <1>13. ASSUME NEW l \in 1..K, NEW m \in 1..K, l < m PROVE r[l][2] < r[m][1]
    <2>0. l # K
      BY <1>1, <1>13
    <2>1. q[l][2] < q[m][1]
      BY <1>1, <1>13 DEF BlocksOf
    <2> QED BY <1>7, <1>8, <2>0, <2>1
  <1>14. ASSUME NEW t \in Nat, NEW d \in 1..n, Covers(s[d], t) PROVE \E l \in 1..K : Covers(r[l], t)
    <2>1. CASE d = n
      <3>1. q[K][1] <= t /\ t < e
        <4>1. iv[1] <= t /\ t < iv[2]
          BY <1>14, <2>1 DEF Covers
        <4> HIDE DEF iv
        <4> QED BY <1>3, <1>4, <1>11, <4>1
      <3> QED BY <1>1, <1>7, <3>1 DEF Covers
    <2>2. CASE d \in 1..(n - 1)
      <3>1. PICK l \in 1..K : Covers(q[l], t)
        BY <1>1, <1>14, <2>2 DEF BlocksOf
      <3>2. CASE l = K
        <4>1. q[K][1] <= t /\ t < q[K][2]
          BY <3>1, <3>2 DEF Covers
        <4>2. t < e
          BY <1>3, <1>4, <4>1
        <4> QED BY <1>1, <1>7, <4>1, <4>2 DEF Covers
      <3>3. CASE l # K
        BY <1>7, <3>1, <3>3
      <3> QED BY <3>2, <3>3
    <2> QED BY <1>9, <2>1, <2>2
  <1>15. ASSUME NEW t \in Nat, NEW l \in 1..K, Covers(r[l], t) PROVE \E d \in 1..n : Covers(s[d], t)
    <2>1. CASE Covers(q[l], t)
      <3>1. PICK d \in 1..(n - 1) : Covers(s[d], t)
        BY <1>1, <2>1 DEF BlocksOf
      <3> QED BY <1>10, <3>1
    <2>2. CASE ~Covers(q[l], t)
      <3>1. l = K
        BY <1>7, <1>15, <2>2
      <3>2. q[K][1] <= t /\ t < e /\ ~(t < q[K][2])
        BY <1>7, <1>15, <2>2, <3>1 DEF Covers
      <3>3. iv[1] <= t /\ t < iv[2]
        <4> HIDE DEF iv
        <4> QED BY <1>3, <1>4, <1>11, <3>2
      <3> QED BY <1>10, <3>3 DEF Covers
    <2> QED BY <2>1, <2>2
  <1>16. r[1][1] = s[1][1]
    BY <1>1, <1>8 DEF BlocksOf
  <1>17. ASSUME NEW d \in 1..n PROVE s[d][2] <= r[K][2]
    <2>1. CASE d = n
      BY <1>4, <1>7, <2>1
    <2>2. CASE d \in 1..(n - 1)
      <3>1. s[d][2] <= q[K][2] /\ s[d][2] \in Nat
        <4>1. d \in 1..N
          OBVIOUS
        <4>2. s[d] \in Nat \X Nat
          BY <4>1 DEF InOrder
        <4>3. s[d][2] <= q[K][2]
          BY <2>2 DEF BlocksOf, K
        <4> QED BY <4>2, <4>3
      <3> HIDE DEF iv
      <3> QED BY <1>3, <1>4, <1>7, <3>1
    <2> QED BY <1>9, <2>1, <2>2
  <1>18. \E d \in 1..n : s[d][2] = r[K][2]
    <2>1. PICK d \in 1..(n - 1) : s[d][2] = q[K][2]
      BY DEF BlocksOf, K
    <2> QED BY <1>4, <1>7, <1>10, <2>1
  <1>19. \E d \in 1..n : s[d][1] = r[K][1]
    <2>1. PICK d \in 1..(n - 1) : s[d][1] = q[K][1]
      BY DEF BlocksOf, K
    <2> QED BY <1>7, <1>10, <2>1
  <1>20. r # <<>>
    BY <1>1, <1>6
  <1>21. BlocksOf(s, r, n)
    BY <1>6, <1>12, <1>13, <1>14, <1>15, <1>16, <1>17, <1>18, <1>19, <1>20 DEF BlocksOf
  <1> QED BY <1>5, <1>21

\* The operation opens a block.
LEMMA BlockOpens ==
    ASSUME NEW N \in Nat, NEW s, InOrder(s, N), NEW n \in 2..N, NEW q,
           BlocksOf(s, q, n - 1), ~Touches(q, s[n])
    PROVE  BlocksOf(s, Merge(q, s[n]), n)
  <1> DEFINE K == Len(q)
             iv == s[n]
             r == Append(q, iv)
  <1>1. /\ q \in Seq(Nat \X Nat) /\ K \in Nat /\ K >= 1 /\ DOMAIN q = 1..K
        /\ K \in 1..K /\ 1 \in 1..K
    <2>1. q \in Seq(Nat \X Nat) /\ q # <<>>
      BY DEF BlocksOf
    <2>2. K \in Nat /\ DOMAIN q = 1..K /\ K # 0
      BY <2>1
    <2> HIDE DEF K
    <2> QED BY <2>1, <2>2
  <1>2. \A l \in 1..K : q[l] \in Nat \X Nat /\ q[l][1] \in Nat /\ q[l][2] \in Nat
    BY <1>1
  <1>3. /\ iv \in Nat \X Nat /\ iv[1] \in Nat /\ iv[2] \in Nat
        /\ q[K][1] \in Nat /\ q[K][2] \in Nat /\ iv[1] <= iv[2]
    <2>1. n \in 1..N
      OBVIOUS
    <2>2. q[K] \in Nat \X Nat
      BY <1>1
    <2>3. s[n] \in Nat \X Nat /\ s[n][1] <= s[n][2]
      BY <2>1 DEF InOrder
    <2> HIDE DEF K
    <2> QED BY <2>2, <2>3
  <1>5. Merge(q, iv) = r
    BY DEF Merge, Touches
  <1> DEFINE M == K + 1
  <1>6. r \in Seq(Nat \X Nat) /\ Len(r) = M /\ DOMAIN r = 1..M
    BY <1>1, <1>3
  <1>7. r[M] = iv /\ \A l \in 1..K : r[l] = q[l]
    BY <1>1
  <1>8. /\ M \in 1..M /\ 1 \in 1..M
        /\ \A l \in 1..K : l \in 1..M
        /\ \A l \in 1..M : l = M \/ l \in 1..K
        /\ \A l, m \in 1..M : l < m => l \in 1..K
    <2> HIDE DEF K
    <2> QED BY <1>1
  <1>9. \A d \in 1..n : d = n \/ d \in 1..(n - 1)
    OBVIOUS
  <1>10. n \in 1..n /\ \A d \in 1..(n - 1) : d \in 1..n
    OBVIOUS
  <1>11. q[K][2] < iv[1]
    <2>1. ~(iv[1] <= q[K][2])
      BY DEF Touches
    <2> HIDE DEF iv, K
    <2> QED BY <1>3, <2>1
  <1> HIDE DEF r, K, M
  <1>12. \A l \in 1..M : r[l][1] <= r[l][2]
    <2>1. \A l \in 1..K : q[l][1] <= q[l][2]
      BY <1>1 DEF BlocksOf
    <2> HIDE DEF iv
    <2> QED BY <1>3, <1>7, <1>8, <2>1
  <1>13. ASSUME NEW l \in 1..M, NEW m \in 1..M, l < m PROVE r[l][2] < r[m][1]
    <2>1. l \in 1..K
      BY <1>8, <1>13
    <2>2. CASE m = M
      <3>1. CASE l = K
        BY <1>7, <1>11, <2>1, <2>2, <3>1
      <3>2. CASE l # K
        <4>1. l < K
          BY <1>1, <2>1, <3>2
        <4>2. q[l][2] < q[K][1] /\ q[K][1] <= q[K][2]
          BY <1>1, <2>1, <4>1 DEF BlocksOf
        <4>3. q[l][2] < iv[1]
          <5> HIDE DEF iv
          <5>1. q[l][2] \in Nat
            BY <1>2, <2>1
          <5> QED BY <1>3, <1>11, <4>2, <5>1
        <4> QED BY <1>7, <2>1, <2>2, <4>3
      <3> QED BY <3>1, <3>2
    <2>3. CASE m \in 1..K
      <3>1. q[l][2] < q[m][1]
        BY <1>1, <1>13, <2>1, <2>3 DEF BlocksOf
      <3> QED BY <1>7, <2>1, <2>3, <3>1
    <2> QED BY <1>8, <2>2, <2>3
  <1>14. ASSUME NEW t \in Nat, NEW d \in 1..n, Covers(s[d], t) PROVE \E l \in 1..M : Covers(r[l], t)
    <2>1. CASE d = n
      BY <1>7, <1>8, <1>14, <2>1
    <2>2. CASE d \in 1..(n - 1)
      <3>1. PICK l \in 1..K : Covers(q[l], t)
        BY <1>1, <1>14, <2>2 DEF BlocksOf
      <3> QED BY <1>7, <1>8, <3>1
    <2> QED BY <1>9, <2>1, <2>2
  <1>15. ASSUME NEW t \in Nat, NEW l \in 1..M, Covers(r[l], t) PROVE \E d \in 1..n : Covers(s[d], t)
    <2>1. CASE l = M
      BY <1>7, <1>10, <1>15, <2>1
    <2>2. CASE l \in 1..K
      <3>1. Covers(q[l], t)
        BY <1>7, <1>15, <2>2
      <3>2. PICK d \in 1..(n - 1) : Covers(s[d], t)
        BY <1>1, <2>2, <3>1 DEF BlocksOf
      <3> QED BY <1>10, <3>2
    <2> QED BY <1>8, <2>1, <2>2
  <1>16. r[1][1] = s[1][1]
    BY <1>1, <1>7 DEF BlocksOf
  <1>17. ASSUME NEW d \in 1..n PROVE s[d][2] <= r[M][2]
    <2>1. CASE d = n
      BY <1>3, <1>7, <2>1
    <2>2. CASE d \in 1..(n - 1)
      <3>1. s[d][2] <= q[K][2] /\ s[d][2] \in Nat
        <4>1. d \in 1..N
          OBVIOUS
        <4>2. s[d] \in Nat \X Nat
          BY <4>1 DEF InOrder
        <4>3. s[d][2] <= q[K][2]
          BY <2>2 DEF BlocksOf, K
        <4> QED BY <4>2, <4>3
      <3>3. s[d][2] <= iv[2]
        <4> HIDE DEF iv
        <4> QED BY <1>3, <1>11, <3>1
      <3> QED BY <1>7, <3>3
    <2> QED BY <1>9, <2>1, <2>2
  <1>18. \E d \in 1..n : s[d][2] = r[M][2]
    BY <1>7, <1>10
  <1>19. \E d \in 1..n : s[d][1] = r[M][1]
    BY <1>7, <1>10
  <1>20. r # <<>>
    BY <1>1, <1>6, <1>8
  <1>21. BlocksOf(s, r, n)
    BY <1>6, <1>12, <1>13, <1>14, <1>15, <1>16, <1>17, <1>18, <1>19, <1>20 DEF BlocksOf
  <1> QED BY <1>5, <1>21

\* Every operation but the first is merged into the blocks before it.
MergeStep(f, s) ==
    f = [n \in 1..Len(s) |-> IF n = 1 THEN <<s[1]>> ELSE Merge(f[n - 1], s[n])]

\* The loop of the merge has a result.
LEMMA MergeHasAResult ==
    ASSUME NEW N \in Nat \ {0}, NEW s, InOrder(s, N), Len(s) = N
    PROVE  \E f : MergeStep(f, s)
  <1> DEFINE X == Seq(Nat \X Nat) \ {<<>>}
             G == [n \in 2..N |-> [x \in X |-> Merge(x, s[n])]]
  <1>1. ASSUME NEW n \in 2..N, NEW x \in X PROVE Merge(x, s[n]) \in X
    <2> DEFINE K == Len(x)
               iv == s[n]
               e == Max2(x[K][2], iv[2])
    <2>1. K \in Nat /\ x[K] \in Nat \X Nat
      OBVIOUS
    <2>2. iv \in Nat \X Nat
      <3>1. n \in 1..N
        OBVIOUS
      <3> QED BY <3>1 DEF InOrder
    <2>3. Append(x, iv) \in X
      <3> HIDE DEF iv
      <3> QED BY <2>2
    <2>4. e \in Nat /\ x[K][1] \in Nat
      <3> HIDE DEF K, iv
      <3> QED BY <2>1, <2>2 DEF Max2
    <2>5. [x EXCEPT ![K] = <<x[K][1], e>>] \in X
      <3> HIDE DEF e
      <3> QED BY <2>1, <2>4
    <2> QED BY <2>3, <2>5 DEF Merge
  <1>2. G \in [2..N -> [X -> X]]
    <2> HIDE DEF X
    <2> QED BY <1>1
  <1>3. <<s[1]>> \in X
    <2>1. 1 \in 1..N
      OBVIOUS
    <2>2. s[1] \in Nat \X Nat
      BY <2>1 DEF InOrder
    <2> QED BY <2>2
  <1>4. PICK f : LoopValues(f, 1, N, X, <<s[1]>>, G)
    <2> DEFINE z == 1
               e == <<s[1]>>
    <2>1. z \in Nat /\ z <= N /\ N \in Nat /\ e \in X /\ z + 1 = 2
      BY <1>3
    <2>2. G \in [(z + 1)..N -> [X -> X]]
      BY <1>2, <2>1
    <2> HIDE DEF G, X, z, e
    <2>3. \E f : LoopValues(f, z, N, X, e, G)
      BY <2>1, <2>2, LoopHasValues
    <2> QED BY <2>3 DEF z, e
  <1>5. f \in [1..N -> X] /\ f[1] = <<s[1]>> /\ \A n \in (1 + 1)..N : f[n] = G[n][f[n - 1]]
    BY <1>4 DEF LoopValues
  <1>6. \A n \in 2..N, x \in X : G[n][x] = Merge(x, s[n])
    OBVIOUS
  <1>7. ASSUME NEW n \in 1..N
        PROVE  f[n] = IF n = 1 THEN <<s[1]>> ELSE Merge(f[n - 1], s[n])
    <2>1. CASE n = 1
      BY <1>5, <2>1
    <2>2. CASE n # 1
      <3>1. n \in (1 + 1)..N /\ n \in 2..N /\ n - 1 \in 1..N
        BY <2>2
      <3>2. f[n - 1] \in X
        BY <1>5, <3>1
      <3> HIDE DEF G, X
      <3> QED BY <1>5, <1>6, <2>2, <3>1, <3>2
    <2> QED BY <2>1, <2>2
  <1>8. f = [n \in 1..N |-> IF n = 1 THEN <<s[1]>> ELSE Merge(f[n - 1], s[n])]
    <2> DEFINE h == [n \in 1..N |-> IF n = 1 THEN <<s[1]>> ELSE Merge(f[n - 1], s[n])]
    <2>1. f = [n \in 1..N |-> f[n]]
      BY <1>5
    <2>2. \A n \in 1..N : f[n] = h[n]
      BY <1>7
    <2>3. h = [n \in 1..N |-> h[n]]
      OBVIOUS
    <2> HIDE DEF h
    <2>4. f = h
      BY <2>1, <2>2, <2>3
    <2> QED BY <2>4 DEF h
  <1> QED BY <1>8 DEF MergeStep

\* After every operation the merged list is the blocks of those before it.
LEMMA MergeMakesBlocks ==
    ASSUME NEW N \in Nat \ {0}, NEW s, InOrder(s, N), Len(s) = N, NEW f, MergeStep(f, s)
    PROVE  BlocksOf(s, f[N], N)
  <1> DEFINE C == {n \in 1..N : BlocksOf(s, f[n], n)}
  <1>0. \A n \in 1..N : f[n] = IF n = 1 THEN <<s[1]>> ELSE Merge(f[n - 1], s[n])
    BY DEF MergeStep
  <1>1. 1 \in C
    <2> DEFINE q == <<s[1]>>
    <2>1. 1 \in 1..N /\ 1..1 = {1}
      OBVIOUS
    <2>2. s[1] \in Nat \X Nat /\ s[1][1] <= s[1][2]
      BY <2>1 DEF InOrder
    <2>3. q \in Seq(Nat \X Nat) /\ q # <<>> /\ DOMAIN q = {1} /\ q[1] = s[1] /\ Len(q) = 1
      BY <2>1, <2>2
    <2>4. f[1] = q
      BY <1>0, <2>1
    <2> HIDE DEF q
    <2>5. s[1][2] <= s[1][2]
      BY <2>2
    <2>6. BlocksOf(s, q, 1)
      BY <2>1, <2>2, <2>3, <2>5 DEF BlocksOf
    <2> QED BY <2>1, <2>4, <2>6
  <1>2. ASSUME NEW n \in (1 + 1)..N, n - 1 \in C PROVE n \in C
    <2>1. n \in 2..N /\ n \in 1..N /\ n # 1
      OBVIOUS
    <2>2. f[n] = Merge(f[n - 1], s[n])
      BY <1>0, <2>1
    <2>3. BlocksOf(s, f[n - 1], n - 1)
      BY <1>2
    <2>4. BlocksOf(s, Merge(f[n - 1], s[n]), n)
      BY <2>1, <2>3, BlockGrows, BlockOpens
    <2> QED BY <2>1, <2>2, <2>4
  <1>3. N \in C
    <2> HIDE DEF C
    <2>1. 1..N \subseteq C
      BY <1>1, <1>2, UpwardInduction
    <2> QED BY <2>1
  <1> QED BY <1>3

\* The time that intervals cover, which lie apart, is the sum of their lengths.
LEMMA LengthsAddUp ==
    ASSUME NEW K \in Nat, NEW b \in [1..K -> Nat \X Nat],
           \A l \in 1..K : b[l][1] <= b[l][2],
           \A l, m \in 1..K : l < m => b[l][2] <= b[m][1]
    PROVE  LET T == {t \in Nat : \E l \in 1..K : Covers(b[l], t)} IN
           /\ IsFiniteSet(T)
           /\ SumFunction([l \in 1..K |-> b[l][2] - b[l][1]]) = Cardinality(T)
  <1> DEFINE T == {t \in Nat : \E l \in 1..K : Covers(b[l], t)}
             f == [l \in 1..K |-> b[l][2] - b[l][1]]
             A == Area(f, 1..K)
             g == [c \in A |-> b[c[1]][1] + c[2] - 1]
  <1>1. \A l \in 1..K : b[l][1] \in Nat /\ b[l][2] \in Nat /\ f[l] \in Nat /\ f[l] = b[l][2] - b[l][1]
    OBVIOUS
  <1>2. DOMAIN f = 1..K /\ f \in [1..K -> Nat]
    BY <1>1
  <1>3. IsFiniteSet(1..K)
    BY FS_Interval
  <1> HIDE DEF f
  <1>4. IsFiniteSet(A) /\ SumFunction(f) = Cardinality(A)
    BY <1>2, <1>3, AreaIsFinite, SumIsArea
  <1>5. ASSUME NEW c \in A
        PROVE  /\ c[1] \in 1..K /\ c[2] \in Nat /\ c[2] >= 1 /\ c = <<c[1], c[2]>>
               /\ g[c] \in Nat /\ b[c[1]][1] <= g[c] /\ g[c] < b[c[1]][2]
               /\ g[c] = b[c[1]][1] + c[2] - 1
    <2>1. c \in (1..K) \X Nat /\ c[2] \in 1..f[c[1]]
      BY DEF Area
    <2>2. c[1] \in 1..K /\ c[2] \in Nat /\ c = <<c[1], c[2]>>
      BY <2>1
    <2> DEFINE l == c[1]
               x == b[l][1]
               y == b[l][2]
               z == c[2]
    <2>3. x \in Nat /\ y \in Nat /\ f[l] \in Nat /\ f[l] = y - x
      BY <1>1, <2>2
    <2>4. z \in Nat /\ 1 <= z /\ z <= f[l]
      BY <2>1, <2>3
    <2>5. g[c] = x + z - 1
      OBVIOUS
    <2> HIDE DEF x, y, z, l, g
    <2>6. x + z - 1 \in Nat /\ x <= x + z - 1 /\ x + z - 1 < y
      BY <2>3, <2>4
    <2> QED BY <2>2, <2>4, <2>5, <2>6 DEF x, y, z, l
  <1> HIDE DEF A
  <1>6. g \in [A -> T]
    <2>1. \A c \in A : g[c] \in T
      BY <1>5 DEF Covers
    <2> HIDE DEF T
    <2>2. g = [c \in A |-> g[c]]
      OBVIOUS
    <2> HIDE DEF g
    <2> QED BY <2>1, <2>2
  <1>7. ASSUME NEW t \in T PROVE \E c \in A : g[c] = t
    <2>1. PICK l \in 1..K : b[l][1] <= t /\ t < b[l][2]
      BY DEF Covers
    <2> DEFINE x == b[l][1]
               y == b[l][2]
               z == (t - x) + 1
    <2>2. x \in Nat /\ y \in Nat /\ t \in Nat /\ f[l] = y - x /\ x <= t /\ t < y
      BY <1>1, <2>1
    <2> HIDE DEF x, y
    <2>3. z \in Nat /\ z \in 1..f[l] /\ x + z - 1 = t
      BY <2>2
    <2> HIDE DEF z
    <2>4. <<l, z>> \in A
      BY <2>3 DEF A, Area
    <2>5. g[<<l, z>>] = t
      BY <2>3, <2>4 DEF x
    <2> QED BY <2>4, <2>5
  <1>8. ASSUME NEW c \in A, NEW d \in A, g[c] = g[d] PROVE c = d
    <2> DEFINE l == c[1]
               m == d[1]
               t == g[c]
    <2>1. l \in 1..K /\ m \in 1..K /\ t \in Nat
      BY <1>5
    <2>2. /\ b[l][1] <= t /\ t < b[l][2] /\ b[l][2] \in Nat
          /\ b[m][1] <= t /\ t < b[m][2] /\ b[m][2] \in Nat
          /\ b[l][1] \in Nat /\ b[m][1] \in Nat
      BY <1>1, <1>5, <1>8, <2>1
    <2>3. ~(l < m) /\ ~(m < l)
      <3>1. l < m => b[l][2] <= b[m][1]
        BY <2>1
      <3>2. m < l => b[m][2] <= b[l][1]
        BY <2>1
      <3> HIDE DEF l, m, t
      <3> QED BY <2>1, <2>2, <3>1, <3>2
    <2>4. l = m
      <3> HIDE DEF l, m, t
      <3> QED BY <2>1, <2>3
    <2> DEFINE x == b[l][1]
               y == c[2]
               z == d[2]
    <2>5. y \in Nat /\ z \in Nat /\ x \in Nat /\ x + y - 1 = x + z - 1
      BY <1>5, <1>8, <2>2, <2>4
    <2>6. y = z
      <3> HIDE DEF x, y, z
      <3> QED BY <2>5
    <2> QED BY <1>5, <2>4, <2>6
  <1>9. g \in Bijection(A, T)
    <2> HIDE DEF g, T
    <2> QED BY <1>6, <1>7, <1>8 DEF Bijection, Injection, Surjection, IsInjective
  <1>10. IsFiniteSet(T) /\ Cardinality(T) = Cardinality(A)
    <2> HIDE DEF g, T
    <2> QED BY <1>4, <1>9, FS_Bijection DEF ExistsBijection
  <1> QED BY <1>4, <1>10 DEF f

\* sort() has put the operations in the order in which the loop needs them.
LEMMA SortedIsInOrder ==
    ASSUME NEW v \in Seq(Nat \X Nat), \A u \in DOMAIN v : v[u][1] <= v[u][2]
    PROVE  /\ InOrder(Sorted(v), Len(v)) /\ Len(Sorted(v)) = Len(v)
           /\ \A u \in 1..Len(v) : \E j \in DOMAIN v : Sorted(v)[u] = v[j]
           /\ \A j \in DOMAIN v : \E u \in 1..Len(v) : Sorted(v)[u] = v[j]
  <1> DEFINE n == Len(v)
             s == Sorted(v)
  <1>1. n \in Nat /\ DOMAIN v = 1..n /\ \A u \in 1..n : v[u] \in Nat \X Nat
    OBVIOUS
  <1>2. IsSorted(s, v)
    BY SortedIsSorted
  <1> HIDE DEF s
  <1>3. PICK p \in Bijection(1..n, 1..n) : s = [u \in 1..n |-> v[p[u]]]
    BY <1>2 DEF IsSorted
  <1>4. \A u, j \in 1..n : u < j => ~Earlier(s[j], s[u])
    BY <1>2 DEF IsSorted
  <1>5. p \in [1..n -> 1..n] /\ \A j \in 1..n : \E u \in 1..n : p[u] = j
    BY <1>3 DEF Bijection, Injection, Surjection
  <1> HIDE DEF n
  <1>6. \A u \in 1..n : p[u] \in 1..n /\ s[u] = v[p[u]] /\ s[u] \in Nat \X Nat /\ s[u][1] <= s[u][2]
    BY <1>1, <1>3, <1>5
  <1>7. s \in [1..n -> Nat \X Nat]
    BY <1>3, <1>6
  <1>8. ASSUME NEW u \in 1..n, NEW j \in 1..n, u < j PROVE s[u][1] <= s[j][1]
    <2>1. s[u][1] \in Nat /\ s[j][1] \in Nat
      BY <1>6
    <2>2. ~(s[j][1] < s[u][1])
      BY <1>4, <1>8 DEF Earlier
    <2> QED BY <2>1, <2>2
  <1>9. InOrder(s, n)
    BY <1>6, <1>7, <1>8 DEF InOrder
  <1>10. Len(s) = n
    <2> DEFINE X == Nat \X Nat
    <2>1. s \in [1..n -> X]
      BY <1>7
    <2> HIDE DEF X
    <2>2. s \in Seq(X) /\ DOMAIN s = 1..n
      BY <1>1, <2>1
    <2> DEFINE m == Len(s)
    <2>3. m \in Nat /\ 1..m = 1..n
      BY <2>2
    <2> HIDE DEF m
    <2>4. (m < n => n \in 1..n /\ n \notin 1..m) /\ (n < m => m \in 1..m /\ m \notin 1..n)
      BY <1>1, <2>3
    <2>5. ~(m < n) /\ ~(n < m)
      BY <2>3, <2>4
    <2>6. m = n
      BY <1>1, <2>3, <2>5
    <2>7. Len(s) = m
      BY DEF m
    <2> QED BY <2>6, <2>7
  <1>11. ASSUME NEW j \in 1..n PROVE \E u \in 1..n : s[u] = v[j]
    <2>1. PICK u \in 1..n : p[u] = j
      BY <1>5
    <2>2. s[u] = v[j]
      BY <1>6, <2>1
    <2> QED BY <2>2
  <1> QED BY <1>1, <1>6, <1>9, <1>10, <1>11 DEF s, n

\* The time between the first and the last of some blocks.
LEMMA BlocksAndGaps ==
    ASSUME NEW q \in Seq(Nat \X Nat), q # <<>>, NEW s, NEW N, BlocksOf(s, q, N)
    PROVE  LET K == Len(q)
               window == q[K][2] - q[1][1]
               T == {t \in Nat : \E l \in DOMAIN q : Covers(q[l], t)}
               gaps == [l \in 1..(K - 1) |-> q[l + 1][1] - q[l][2]]
           IN /\ SumFunction([l \in DOMAIN q |-> q[l][2] - q[l][1]]) = Cardinality(T)
              /\ window - Cardinality(T) = SumFunction(gaps)
              /\ \A l \in DOMAIN gaps : gaps[l] > 0
  <1> DEFINE K == Len(q)
             L == K - 1
             T == {t \in Nat : \E l \in 1..K : Covers(q[l], t)}
             b == [l \in 1..L |-> <<q[l][2], q[l + 1][1]>>]
             U == {t \in Nat : \E l \in 1..L : Covers(b[l], t)}
             lo == q[1][1]
             hi == q[K][2]
             W == lo..(hi - 1)
  <1>1. K \in Nat /\ K >= 1 /\ DOMAIN q = 1..K /\ 1 \in 1..K /\ K \in 1..K /\ L \in Nat
    <2>1. K \in Nat /\ K # 0 /\ DOMAIN q = 1..K
      OBVIOUS
    <2> HIDE DEF K
    <2> QED BY <2>1
  <1>2. \A l \in 1..K : q[l] \in Nat \X Nat /\ q[l][1] \in Nat /\ q[l][2] \in Nat
    OBVIOUS
  <1>3. \A l \in 1..K : q[l][1] <= q[l][2]
    BY <1>1 DEF BlocksOf
  <1>4. \A l, m \in 1..K : l < m => q[l][2] < q[m][1]
    BY <1>1 DEF BlocksOf
  <1>5. \A l \in 1..L : l \in 1..K /\ l + 1 \in 1..K /\ l < l + 1
    BY <1>1
  <1> HIDE DEF K, L
  <1>6. q \in [1..K -> Nat \X Nat]
    BY <1>1, <1>2
  <1>7. \A l, m \in 1..K : l < m => q[l][2] <= q[m][1]
    BY <1>2, <1>4
  <1>8. IsFiniteSet(T) /\ SumFunction([l \in 1..K |-> q[l][2] - q[l][1]]) = Cardinality(T)
    BY <1>1, <1>3, <1>6, <1>7, LengthsAddUp
  <1>9. \A l \in 1..L : /\ b[l] \in Nat \X Nat /\ b[l][1] = q[l][2] /\ b[l][2] = q[l + 1][1]
                        /\ b[l][1] < b[l][2] /\ b[l][1] <= b[l][2]
    <2> SUFFICES ASSUME NEW l \in 1..L
                 PROVE  /\ b[l] \in Nat \X Nat /\ b[l][1] = q[l][2] /\ b[l][2] = q[l + 1][1]
                        /\ b[l][1] < b[l][2] /\ b[l][1] <= b[l][2]
      OBVIOUS
    <2>1. q[l][2] \in Nat /\ q[l + 1][1] \in Nat /\ q[l][2] < q[l + 1][1]
      BY <1>2, <1>4, <1>5
    <2>2. b[l] = <<q[l][2], q[l + 1][1]>>
      OBVIOUS
    <2> HIDE DEF b
    <2> QED BY <2>1, <2>2
  <1>10. b \in [1..L -> Nat \X Nat]
    <2>1. b = [l \in 1..L |-> b[l]]
      OBVIOUS
    <2> HIDE DEF b
    <2> QED BY <1>9, <2>1
  <1>11. ASSUME NEW l \in 1..L, NEW m \in 1..L, l < m PROVE b[l][2] <= b[m][1]
    <2>1. b[l][2] = q[l + 1][1] /\ b[m][1] = q[m][2]
      BY <1>9
    <2>2. l + 1 \in 1..K /\ m \in 1..K /\ (l + 1 = m \/ l + 1 < m)
      BY <1>5, <1>11
    <2>3. q[l + 1][1] <= q[l + 1][2] /\ (l + 1 < m => q[l + 1][2] < q[m][1]) /\ q[m][1] <= q[m][2]
      BY <1>3, <1>4, <2>2
    <2>4. /\ q[l + 1][1] \in Nat /\ q[l + 1][2] \in Nat
          /\ q[m][1] \in Nat /\ q[m][2] \in Nat
      BY <1>2, <2>2
    <2>5. q[l + 1][1] <= q[m][2]
      <3>1. CASE l + 1 = m
        BY <2>3, <3>1
      <3>2. CASE l + 1 < m
        <4> DEFINE w == q[l + 1][1]
                   x == q[l + 1][2]
                   y == q[m][1]
                   z == q[m][2]
        <4>1. w \in Nat /\ x \in Nat /\ y \in Nat /\ z \in Nat
          BY <2>4
        <4>2. w <= x /\ x < y /\ y <= z
          BY <2>3, <3>2
        <4> HIDE DEF w, x, y, z
        <4>3. w <= z
          BY <4>1, <4>2
        <4> QED BY <4>3 DEF w, z
      <3> QED BY <2>2, <3>1, <3>2
    <2> QED BY <2>1, <2>5
  <1>12. IsFiniteSet(U) /\ SumFunction([l \in 1..L |-> b[l][2] - b[l][1]]) = Cardinality(U)
    <2>1. \A l \in 1..L : b[l][1] <= b[l][2]
      BY <1>9
    <2> HIDE DEF b
    <2> QED BY <1>1, <1>10, <1>11, <2>1, LengthsAddUp
  <1>13. [l \in 1..L |-> b[l][2] - b[l][1]] = [l \in 1..L |-> q[l + 1][1] - q[l][2]]
    BY <1>9
  <1>14. lo \in Nat /\ hi \in Nat /\ lo <= hi
    <2>1. q[1][1] \in Nat /\ q[1][2] \in Nat /\ q[K][1] \in Nat /\ q[K][2] \in Nat
      BY <1>1, <1>2
    <2>2. q[1][1] <= q[1][2] /\ q[K][1] <= q[K][2]
      BY <1>1, <1>3
    <2>3. K = 1 \/ q[1][2] < q[K][1]
      BY <1>1, <1>4
    <2> QED BY <2>1, <2>2, <2>3
  <1>15. ASSUME NEW t \in T PROVE t \in W /\ t \notin U
    <2>1. PICK m \in 1..K : q[m][1] <= t /\ t < q[m][2]
      BY DEF Covers
    <2>2. q[m][1] \in Nat /\ q[m][2] \in Nat /\ t \in Nat
      BY <1>2
    <2>3. lo <= t
      <3>1. CASE m = 1
        BY <2>1, <3>1
      <3>2. CASE m # 1
        <4>1. 1 < m
          BY <1>1, <3>2
        <4>2. q[1][1] <= q[1][2] /\ q[1][2] < q[m][1] /\ q[1][1] \in Nat /\ q[1][2] \in Nat
          BY <1>1, <1>2, <1>3, <1>4, <4>1
        <4> QED BY <2>1, <2>2, <4>2
      <3> QED BY <3>1, <3>2
    <2>4. t < hi
      <3>1. CASE m = K
        BY <2>1, <3>1
      <3>2. CASE m # K
        <4>1. m < K
          BY <1>1, <3>2
        <4>2. q[K][1] <= q[K][2] /\ q[m][2] < q[K][1] /\ q[K][1] \in Nat /\ q[K][2] \in Nat
          BY <1>1, <1>2, <1>3, <1>4, <4>1
        <4> QED BY <2>1, <2>2, <4>2
      <3> QED BY <3>1, <3>2
    <2>5. ASSUME NEW l \in 1..L, Covers(b[l], t) PROVE FALSE
      <3>1. q[l][2] <= t /\ t < q[l + 1][1]
        BY <1>9, <2>5 DEF Covers
      <3>2. l \in 1..K /\ l + 1 \in 1..K
        BY <1>5
      <3>3. m <= l \/ l + 1 <= m
        BY <3>2
      <3>4. CASE m <= l
        <4>1. q[m][2] <= t
          <5>1. CASE m = l
            BY <3>1, <5>1
          <5>2. CASE m # l
            <6>1. m < l
              BY <3>4, <5>2
            <6>2. q[m][2] < q[l][1] /\ q[l][1] <= q[l][2] /\ q[l][1] \in Nat /\ q[l][2] \in Nat
              BY <1>2, <1>3, <1>4, <3>2, <6>1
            <6> DEFINE w == q[m][2]
                       x == q[l][1]
                       y == q[l][2]
            <6>3. w \in Nat /\ x \in Nat /\ y \in Nat /\ t \in Nat /\ w < x /\ x <= y /\ y <= t
              BY <2>2, <3>1, <6>2
            <6> HIDE DEF w, x, y
            <6>4. w <= t
              BY <6>3
            <6> QED BY <6>4 DEF w
          <5> QED BY <5>1, <5>2
        <4> QED BY <2>1, <2>2, <4>1
      <3>5. CASE l + 1 <= m
        <4> DEFINE o == l + 1
        <4>1. t < q[m][1]
          <5>1. CASE m = o
            BY <3>1, <5>1
          <5>2. CASE m # o
            <6>1. o < m
              BY <3>5, <5>2
            <6>2. q[o][2] < q[m][1] /\ q[o][1] <= q[o][2] /\ q[o][1] \in Nat /\ q[o][2] \in Nat
              BY <1>2, <1>3, <1>4, <3>2, <6>1
            <6>3. t < q[o][1] /\ t \in Nat
              BY <2>2, <3>1
            <6>4. q[m][1] \in Nat
              BY <1>2, <1>3, <1>4, <3>2
            <6> DEFINE w == q[o][1]
                       x == q[o][2]
                       y == q[m][1]
            <6>5. w \in Nat /\ x \in Nat /\ y \in Nat /\ t \in Nat /\ t < w /\ w <= x /\ x < y
              BY <6>2, <6>3, <6>4
            <6> HIDE DEF w, x, y
            <6>6. t < y
              BY ONLY <6>5
            <6> QED BY <6>6 DEF y
          <5> QED BY <5>1, <5>2
        <4> QED BY <2>1, <2>2, <4>1
      <3> QED BY <3>3, <3>4, <3>5
    <2>6. t \in W
      <3> HIDE DEF lo, hi, T
      <3> QED BY <1>14, <2>2, <2>3, <2>4
    <2> HIDE DEF b, W, T
    <2> QED BY <2>5, <2>6
  <1>16. ASSUME NEW t \in U PROVE t \in W
    <2>1. PICK l \in 1..L : q[l][2] <= t /\ t < q[l + 1][1]
      BY <1>9 DEF Covers
    <2> DEFINE o == l + 1
    <2>2. l \in 1..K /\ o \in 1..K /\ t \in Nat
      BY <1>5
    <2>3. /\ q[l][1] <= q[l][2] /\ q[l][1] \in Nat /\ q[l][2] \in Nat
          /\ q[o][1] <= q[o][2] /\ q[o][1] \in Nat /\ q[o][2] \in Nat
          /\ q[l][2] <= t /\ t < q[o][1]
      BY <1>2, <1>3, <2>1, <2>2
    <2> HIDE DEF o
    <2>4. lo <= t
      <3>1. CASE l = 1
        BY <2>3, <3>1
      <3>2. CASE l # 1
        <4>1. 1 < l
          BY <2>2, <3>2
        <4>2. q[1][1] <= q[1][2] /\ q[1][2] < q[l][1] /\ q[1][1] \in Nat /\ q[1][2] \in Nat
          BY <1>1, <1>2, <1>3, <1>4, <2>2, <4>1
        <4> QED BY <2>2, <2>3, <4>2
      <3> QED BY <3>1, <3>2
    <2>5. t < hi
      <3>1. CASE o = K
        BY <2>2, <2>3, <3>1
      <3>2. CASE o # K
        <4>1. o < K
          BY <1>1, <2>2, <3>2
        <4>2. q[K][1] <= q[K][2] /\ q[o][2] < q[K][1] /\ q[K][1] \in Nat /\ q[K][2] \in Nat
          BY <1>1, <1>2, <1>3, <1>4, <2>2, <4>1
        <4> DEFINE w == q[o][1]
                   x == q[o][2]
                   y == q[K][1]
                   z == q[K][2]
        <4>3. /\ t \in Nat /\ w \in Nat /\ x \in Nat /\ y \in Nat /\ z \in Nat
              /\ t < w /\ w <= x /\ x < y /\ y <= z
          BY <2>2, <2>3, <4>2
        <4> HIDE DEF w, x, y, z
        <4>4. t < z
          BY <4>3
        <4> QED BY <4>4 DEF z
      <3> QED BY <3>1, <3>2
    <2> HIDE DEF lo, hi, U
    <2> QED BY <1>14, <2>2, <2>4, <2>5
  <1>17. ASSUME NEW t \in W, t \notin T PROVE t \in U
    <2>1. t \in Nat /\ lo <= t /\ t < hi
      <3> HIDE DEF lo, hi
      <3> QED BY <1>14
    <2> DEFINE Above == {l \in 1..K : t < q[l][2]}
    <2>2. Above \subseteq Nat /\ Above # {}
      BY <1>1, <2>1
    <2>3. PICK m \in Above : \A o \in Above : m <= o
      <3> HIDE DEF Above
      <3> QED BY <2>2, LeastExists
    <2>4. m \in 1..K /\ t < q[m][2] /\ q[m][1] \in Nat /\ q[m][2] \in Nat
      BY <1>2
    <2>5. ~(q[m][1] <= t)
      <3>1. q[m][1] <= t => Covers(q[m], t)
        BY <2>4 DEF Covers
      <3>2. Covers(q[m], t) => t \in T
        BY <2>1, <2>4
      <3> QED BY <1>17, <3>1, <3>2
    <2>6. m # 1
      BY <2>1, <2>5
    <2> DEFINE l == m - 1
    <2>7. l \in 1..L /\ l \in 1..K /\ l + 1 = m /\ ~(m <= l)
      BY <1>1, <2>4, <2>6 DEF L
    <2>8. ~(t < q[l][2]) /\ q[l][2] \in Nat
      BY <1>2, <2>3, <2>7
    <2> HIDE DEF l, Above, W
    <2>9. q[l][2] <= t /\ t < q[m][1]
      <3>1. q[l][2] <= t
        BY <2>1, <2>8
      <3>2. t < q[m][1]
        BY <2>1, <2>4, <2>5
      <3> QED BY <3>1, <3>2
    <2>10. b[l][1] = q[l][2] /\ b[l][2] = q[m][1]
      BY <1>9, <2>7
    <2>11. Covers(b[l], t)
      BY <2>9, <2>10 DEF Covers
    <2> HIDE DEF b
    <2> QED BY <2>1, <2>7, <2>11
  <1> HIDE DEF T, U
  <1>18. W = T \cup U /\ T \cap U = {}
    <2> HIDE DEF W
    <2> QED BY <1>15, <1>16, <1>17
  <1>19. Cardinality(W) = hi - lo
    <2> HIDE DEF lo, hi
    <2>1. lo \in Int /\ hi - 1 \in Int
      BY <1>14
    <2>2. Cardinality(W) = IF lo > hi - 1 THEN 0 ELSE (hi - 1) - lo + 1
      BY <2>1, FS_Interval
    <2> QED BY <1>14, <2>2
  <1>20. Cardinality(W) = Cardinality(T) + Cardinality(U)
    <2>1. Cardinality(T \cup U) = Cardinality(T) + Cardinality(U) - Cardinality(T \cap U)
      BY <1>8, <1>12, FS_Union
    <2>2. Cardinality(T \cap U) = 0
      BY <1>18, FS_EmptySet
    <2>3. Cardinality(T) \in Nat /\ Cardinality(U) \in Nat
      BY <1>8, <1>12, FS_CardinalityType
    <2> HIDE DEF W
    <2> QED BY <1>18, <2>1, <2>2, <2>3
  <1>21. (hi - lo) - Cardinality(T) = Cardinality(U)
    <2>1. Cardinality(T) \in Nat /\ Cardinality(U) \in Nat
      BY <1>8, <1>12, FS_CardinalityType
    <2> HIDE DEF lo, hi, W
    <2> QED BY <1>14, <1>19, <1>20, <2>1
  <1> DEFINE gaps == [l \in 1..L |-> q[l + 1][1] - q[l][2]]
  <1>22. \A l \in DOMAIN gaps : gaps[l] > 0
    <2> SUFFICES ASSUME NEW l \in 1..L PROVE q[l + 1][1] - q[l][2] > 0
      OBVIOUS
    <2>1. q[l + 1][1] \in Nat /\ q[l][2] \in Nat /\ q[l][2] < q[l + 1][1]
      BY <1>2, <1>4, <1>5
    <2> QED BY <2>1
  <1>23. (hi - lo) - Cardinality(T) = SumFunction(gaps)
    BY <1>12, <1>13, <1>21
  <1> HIDE DEF gaps, lo, hi
  <1> QED BY <1>1, <1>8, <1>22, <1>23 DEF T, K, L, gaps, lo, hi

(* However the operations of a trace overlap, nest or touch, analyse adds  *)
(* up the time during which one of them ran and the time of the window in  *)
(* which none did, and finds the gaps, all of which are time.              *)
THEOREM BusyIsTheTimeCovered ==
    ASSUME NEW v \in Seq(Nat \X Nat), v # <<>>, \A u \in DOMAIN v : v[u][1] <= v[u][2],
           NEW M \in Nat, \A u \in DOMAIN v : v[u][2] <= M
    PROVE  LET o == analyse(v)
               ticks == {t \in 0..M : \E u \in DOMAIN v : v[u][1] <= t /\ t < v[u][2]}
           IN /\ o.busy = Cardinality(ticks)
              /\ o.idle = SumFunction(o.gaps)
              /\ \A u \in DOMAIN o.gaps : o.gaps[u] > 0
              /\ o.window = Max({v[u][2] : u \in DOMAIN v}) - Min({v[u][1] : u \in DOMAIN v})
  <1> DEFINE n == Len(v)
             s == Sorted(v)
             f == CHOOSE g : MergeStep(g, s)
             q == f[n]
             K == Len(q)
             ticks == {t \in 0..M : \E u \in DOMAIN v : v[u][1] <= t /\ t < v[u][2]}
             T == {t \in Nat : \E l \in DOMAIN q : Covers(q[l], t)}
             ends == {v[u][2] : u \in DOMAIN v}
             starts == {v[u][1] : u \in DOMAIN v}
  <1>1. n \in Nat \ {0} /\ DOMAIN v = 1..n
    OBVIOUS
  <1>2. /\ InOrder(s, n) /\ Len(s) = n
        /\ \A u \in 1..n : \E j \in DOMAIN v : s[u] = v[j]
        /\ \A j \in DOMAIN v : \E u \in 1..n : s[u] = v[j]
    BY SortedIsInOrder
  <1>3. Merged(v) = q
    BY <1>2 DEF Merged, MergeStep
  <1> HIDE DEF s
  <1>4. MergeStep(f, s)
    BY <1>1, <1>2, MergeHasAResult
  <1> HIDE DEF f, n
  <1>5. BlocksOf(s, q, n)
    BY <1>1, <1>2, <1>4, MergeMakesBlocks
  <1> HIDE DEF q
  <1>6. q \in Seq(Nat \X Nat) /\ q # <<>>
    BY <1>5 DEF BlocksOf
  <1> DEFINE gaps == [l \in 1..(K - 1) |-> q[l + 1][1] - q[l][2]]
             window == q[K][2] - q[1][1]
  <1>7. /\ SumFunction([l \in DOMAIN q |-> q[l][2] - q[l][1]]) = Cardinality(T)
        /\ window - Cardinality(T) = SumFunction(gaps)
        /\ \A l \in DOMAIN gaps : gaps[l] > 0
    BY <1>5, <1>6, BlocksAndGaps
  <1>8. /\ analyse(v).busy = Cardinality(T) /\ analyse(v).window = window
        /\ analyse(v).idle = window - Cardinality(T) /\ analyse(v).gaps = gaps
    BY <1>3, <1>7 DEF analyse
  <1>9. \A u \in DOMAIN v : v[u] \in Nat \X Nat /\ v[u][1] \in Nat /\ v[u][2] \in Nat
    OBVIOUS
  <1>10. ticks = T
    <2>1. ASSUME NEW t \in ticks PROVE t \in T
      <3>1. PICK j \in DOMAIN v : Covers(v[j], t)
        BY DEF Covers
      <3>2. PICK u \in 1..n : s[u] = v[j]
        BY <1>2
      <3>3. t \in Nat
        OBVIOUS
      <3>4. \E l \in DOMAIN q : Covers(q[l], t)
        BY <1>5, <3>1, <3>2, <3>3 DEF BlocksOf
      <3> QED BY <3>3, <3>4
    <2>2. ASSUME NEW t \in T PROVE t \in ticks
      <3>1. t \in Nat /\ \E l \in DOMAIN q : Covers(q[l], t)
        OBVIOUS
      <3>2. PICK u \in 1..n : Covers(s[u], t)
        BY <1>5, <3>1 DEF BlocksOf
      <3>3. PICK j \in DOMAIN v : s[u] = v[j]
        BY <1>2
      <3>4. v[j][1] <= t /\ t < v[j][2] /\ v[j][2] <= M /\ v[j][2] \in Nat
        BY <1>9, <3>2, <3>3 DEF Covers
      <3>5. t \in 0..M
        <4> DEFINE e == v[j][2]
        <4>1. t < e /\ e <= M /\ e \in Nat /\ t \in Nat
          BY <3>1, <3>4
        <4> HIDE DEF e
        <4> QED BY <4>1
      <3> QED BY <3>4, <3>5
    <2> HIDE DEF ticks, T
    <2> QED BY <2>1, <2>2
  <1>11. Max(ends) = q[K][2]
    <2> DEFINE e == q[K][2]
    <2>1. ends \subseteq Nat
      BY <1>9
    <2>2. PICK u \in 1..n : s[u][2] = e
      BY <1>5 DEF BlocksOf
    <2>3. e \in ends
      <3>1. PICK j \in DOMAIN v : s[u] = v[j]
        BY <1>2
      <3> QED BY <2>2, <3>1
    <2>4. \A m \in 1..n : s[m][2] <= e
      BY <1>5 DEF BlocksOf
    <2>5. ASSUME NEW j \in DOMAIN v PROVE v[j][2] <= e
      <3>1. PICK o \in 1..n : s[o] = v[j]
        BY <1>2
      <3> QED BY <2>4, <3>1
    <2>6. e \in Nat /\ \A x \in ends : x <= e /\ x \in Nat
      BY <2>1, <2>3, <2>5
    <2> HIDE DEF e, ends
    <2>7. Max(ends) \in ends /\ \A x \in ends : Max(ends) >= x
      <3>1. \A x \in ends : e >= x
        BY <2>6
      <3> QED BY <2>3, <3>1 DEF Max
    <2>8. Max(ends) >= e /\ Max(ends) <= e /\ Max(ends) \in Nat
      BY <2>3, <2>6, <2>7
    <2> DEFINE x == Max(ends)
    <2>9. x >= e /\ x <= e /\ x \in Nat /\ e \in Nat
      BY <2>6, <2>8
    <2> HIDE DEF x
    <2>10. x = e
      BY <2>9
    <2> QED BY <2>10 DEF e, x
  <1>12. Min(starts) = q[1][1]
    <2> DEFINE a == q[1][1]
    <2>1. starts \subseteq Nat
      BY <1>9
    <2>2. a = s[1][1] /\ 1 \in 1..n
      BY <1>1, <1>5 DEF BlocksOf
    <2>3. a \in starts
      BY <1>2, <2>2
    <2>4. ASSUME NEW u \in 1..n PROVE a <= s[u][1]
      <3>1. s[1][1] \in Nat /\ (1 < u => s[1][1] <= s[u][1])
        BY <1>2, <2>2 DEF InOrder
      <3>2. u = 1 \/ 1 < u
        OBVIOUS
      <3> HIDE DEF a
      <3> QED BY <2>2, <3>1, <3>2
    <2>5. \A x \in starts : a <= x
      BY <1>2, <2>4
    <2> HIDE DEF a, starts
    <2>6. Min(starts) \in starts /\ Min(starts) <= a
      BY <2>1, <2>3, MinIsLeast
    <2>7. Min(starts) \in Nat /\ a \in Nat /\ a <= Min(starts)
      BY <2>1, <2>3, <2>5, <2>6
    <2>8. Min(starts) = a
      BY <2>6, <2>7
    <2> QED BY <2>8 DEF a
  <1> HIDE DEF gaps, T, ticks, ends, starts
  <1> QED BY <1>7, <1>8, <1>10, <1>11, <1>12 DEF window, ticks, ends, starts

------------------------------------------------------------------------------
(* The paired test: choosing, counting the subsets, swapping               *)

\* The factorials of the numbers up to n.
Factorials(f, n) == f \in [0..n -> Nat \ {0}] /\ f[0] = 1 /\ \A m \in 1..n : f[m] = m * f[m - 1]

\* The recursion of factorial has a solution up to any n.
LEMMA FactorialsExist == ASSUME NEW n \in Nat PROVE \E f : Factorials(f, n)
  <1> DEFINE C == {m \in 0..n : \E f : Factorials(f, m)}
  <1>1. 0 \in C
    <2> DEFINE f == [m \in 0..0 |-> 1]
    <2>1. f \in [0..0 -> Nat \ {0}] /\ f[0] = 1 /\ 1..0 = {}
      OBVIOUS
    <2> HIDE DEF f
    <2>2. Factorials(f, 0)
      BY <2>1 DEF Factorials
    <2> QED BY <2>2
  <1>2. ASSUME NEW m \in (0 + 1)..n, m - 1 \in C PROVE m \in C
    <2>1. PICK f : Factorials(f, m - 1)
      BY <1>2
    <2> DEFINE g == [x \in 0..m |-> IF x = m THEN m * f[m - 1] ELSE f[x]]
    <2>2. \A x \in 0..m : x = m \/ (x # m /\ x \in 0..(m - 1))
      OBVIOUS
    <2>3. f[m - 1] \in Nat \ {0} /\ m * f[m - 1] \in Nat \ {0}
      <3>1. f[m - 1] \in Nat \ {0}
        BY <2>1 DEF Factorials
      <3> DEFINE y == f[m - 1]
      <3>2. y \in Nat \ {0} /\ m \in Nat \ {0}
        BY <3>1
      <3> HIDE DEF y
      <3>3. m * y \in Nat \ {0}
        BY <3>2
      <3> QED BY <3>1, <3>3 DEF y
    <2>4. \A x \in 0..(m - 1) : x \in 0..m /\ x # m /\ f[x] \in Nat \ {0} /\ g[x] = f[x]
      BY <2>1 DEF Factorials
    <2>5. m \in 0..m /\ g[m] = m * f[m - 1]
      OBVIOUS
    <2>6. g \in [0..m -> Nat \ {0}]
      BY <2>2, <2>3, <2>4
    <2> HIDE DEF g
    <2>7. g[0] = 1
      BY <2>1, <2>4 DEF Factorials
    <2>8. ASSUME NEW x \in 1..m PROVE g[x] = x * g[x - 1]
      <3>1. x - 1 \in 0..(m - 1)
        OBVIOUS
      <3>2. CASE x = m
        BY <2>4, <2>5, <3>1, <3>2
      <3>3. CASE x # m
        <4>1. x \in 1..(m - 1) /\ x \in 0..(m - 1)
          BY <3>3
        <4>2. f[x] = x * f[x - 1]
          BY <2>1, <4>1 DEF Factorials
        <4> QED BY <2>4, <3>1, <4>1, <4>2
      <3> QED BY <3>2, <3>3
    <2>9. Factorials(g, m)
      BY <2>6, <2>7, <2>8 DEF Factorials
    <2> QED BY <2>9
  <1>3. n \in C
    <2> HIDE DEF C
    <2>1. 0..n \subseteq C
      BY <1>1, <1>2, UpwardInduction
    <2> QED BY <2>1
  <1> QED BY <1>3

\* Two solutions agree as far as both go.
LEMMA FactorialsAgree ==
    ASSUME NEW n \in Nat, NEW m \in 0..n, NEW f, Factorials(f, n), NEW g, Factorials(g, m)
    PROVE  f[m] = g[m]
  <1> DEFINE C == {x \in 0..m : f[x] = g[x]}
  <1>1. 0 \in C
    BY DEF Factorials
  <1>2. ASSUME NEW x \in (0 + 1)..m, x - 1 \in C PROVE x \in C
    <2>1. x \in 1..m /\ x \in 1..n
      OBVIOUS
    <2>2. f[x] = x * f[x - 1] /\ g[x] = x * g[x - 1]
      BY <2>1 DEF Factorials
    <2> QED BY <1>2, <2>1, <2>2
  <1>3. m \in C
    <2> HIDE DEF C
    <2>1. 0..m \subseteq C
      BY <1>1, <1>2, UpwardInduction
    <2> QED BY <2>1
  <1> QED BY <1>3

\* factorial is defined by recursion over all numbers: the factorials up to
\* each number make the one function that satisfies it.
LEMMA FactorialIs ==
    /\ factorial \in [Nat -> Nat \ {0}]
    /\ factorial[0] = 1
    /\ \A n \in Nat \ {0} : factorial[n] = n * factorial[n - 1]
  <1> DEFINE g(n) == CHOOSE f : Factorials(f, n)
             h == [n \in Nat |-> g(n)[n]]
             Step(f) == f = [n \in Nat |-> IF n = 0 THEN 1 ELSE n * f[n - 1]]
  <1>1. \A n \in Nat : Factorials(g(n), n)
    BY FactorialsExist
  <1> HIDE DEF g
  <1>2. \A n \in Nat : h[n] = g(n)[n] /\ h[n] \in Nat \ {0}
    BY <1>1 DEF Factorials
  <1>3. h[0] = 1
    BY <1>1 DEF Factorials
  <1>4. ASSUME NEW n \in Nat \ {0} PROVE h[n] = n * h[n - 1]
    <2> DEFINE m == n - 1
    <2>1. m \in Nat /\ m \in 0..n /\ n \in 1..n /\ n \in Nat
      OBVIOUS
    <2>2. Factorials(g(n), n) /\ Factorials(g(m), m)
      BY <1>1, <2>1
    <2>3. g(n)[n] = n * g(n)[m]
      BY <2>1, <2>2 DEF Factorials
    <2>4. g(n)[m] = g(m)[m]
      <3> HIDE DEF m
      <3> QED BY <2>1, <2>2, FactorialsAgree
    <2> HIDE DEF h
    <2>5. h[n] = n * h[m]
      BY <1>2, <2>1, <2>3, <2>4
    <2> QED BY <2>5
  <1>5. Step(h)
    <2> DEFINE w == [n \in Nat |-> IF n = 0 THEN 1 ELSE n * h[n - 1]]
    <2>1. h = [n \in Nat |-> h[n]]
      OBVIOUS
    <2> HIDE DEF h
    <2>2. \A n \in Nat : h[n] = w[n]
      BY <1>3, <1>4
    <2>3. w = [n \in Nat |-> w[n]]
      OBVIOUS
    <2> HIDE DEF w
    <2>4. h = w
      BY <2>1, <2>2, <2>3
    <2> QED BY <2>4 DEF w
  <1> HIDE DEF h
  <1>6. Step(factorial)
    BY <1>5 DEF factorial
  <1> DEFINE phi == factorial
  <1>7. phi[0] = 1 /\ \A n \in Nat \ {0} : phi[n] = n * phi[n - 1]
    <2>1. Step(phi)
      BY <1>6
    <2> HIDE DEF phi
    <2> QED BY <2>1
  <1>8. phi = [n \in Nat |-> phi[n]]
    <2>1. Step(phi)
      BY <1>6
    <2> HIDE DEF phi
    <2> QED BY <2>1
  <1>9. ASSUME NEW n \in Nat PROVE phi[n] \in Nat \ {0}
    <2> DEFINE C == {m \in 0..n : phi[m] \in Nat \ {0}}
    <2> HIDE DEF phi
    <2>1. 0 \in C
      BY <1>7
    <2>2. ASSUME NEW m \in (0 + 1)..n, m - 1 \in C PROVE m \in C
      <3> DEFINE y == phi[m - 1]
      <3>1. m \in Nat \ {0} /\ y \in Nat \ {0} /\ phi[m] = m * y
        BY <1>7, <2>2
      <3> HIDE DEF y
      <3>2. m * y \in Nat \ {0}
        BY <3>1
      <3> QED BY <3>1, <3>2
    <2>3. n \in C
      <3> HIDE DEF C
      <3>1. 0..n \subseteq C
        BY <2>1, <2>2, UpwardInduction
      <3> QED BY <3>1
    <2> QED BY <2>3
  <1> QED
    <2> HIDE DEF phi
    <2>1. phi \in [Nat -> Nat \ {0}]
      BY <1>8, <1>9
    <2> QED BY <1>7, <2>1 DEF phi

\* Pascal's rule with the factorials multiplied out.
LEMMA PascalsRule ==
    ASSUME NEW a \in Nat, NEW b \in Nat, NEW l \in Nat, NEW d \in Nat,
           NEW x \in Nat, NEW y \in Nat, NEW z \in Nat,
           a * ((l * x) * y) = z, b * (x * (d * y)) = z
    PROVE  (a + b) * ((l * x) * (d * y)) = (l + d) * z
  <1>1. (a + b) * ((l * x) * (d * y)) = a * ((l * x) * (d * y)) + b * ((l * x) * (d * y))
    OBVIOUS
  <1>2. a * ((l * x) * (d * y)) = d * (a * ((l * x) * y))
    OBVIOUS
  <1>3. b * ((l * x) * (d * y)) = l * (b * (x * (d * y)))
    OBVIOUS
  <1>4. d * z + l * z = (l + d) * z
    OBVIOUS
  <1> QED BY <1>1, <1>2, <1>3, <1>4

\* The subsets of l elements, without x and with it.
LEMMA SubsetsSplit ==
    ASSUME NEW S, IsFiniteSet(S), NEW x \in S, NEW l \in Nat \ {0}
    PROVE  LET R == S \ {x} IN
           Cardinality(kSubset(l, S)) = Cardinality(kSubset(l, R)) + Cardinality(kSubset(l - 1, R))
  <1> DEFINE R == S \ {x}
             A == kSubset(l, R)
             D == kSubset(l - 1, R)
             B == {T \in kSubset(l, S) : x \in T}
             g == [T \in D |-> T \cup {x}]
  <1>1. IsFiniteSet(R) /\ IsFiniteSet(SUBSET R) /\ IsFiniteSet(SUBSET S)
    BY FS_RemoveElement, FS_SUBSET
  <1>2. \A T \in SUBSET S : IsFiniteSet(T) /\ Cardinality(T) \in Nat
    BY FS_Subset, FS_CardinalityType
  <1>3. IsFiniteSet(A) /\ IsFiniteSet(D) /\ IsFiniteSet(B)
    <2>1. A \in SUBSET (SUBSET R) /\ D \in SUBSET (SUBSET R) /\ B \in SUBSET (SUBSET S)
      BY DEF kSubset
    <2> HIDE DEF A, D, B, R
    <2> QED BY <1>1, <2>1, FS_Subset
  <1>4. kSubset(l, S) = A \cup B /\ A \cap B = {}
    <2>1. A \subseteq kSubset(l, S) /\ \A T \in A : x \notin T
      BY DEF kSubset
    <2>2. \A T \in kSubset(l, S) : x \notin T => T \in A
      BY DEF kSubset
    <2> QED BY <2>1, <2>2
  <1>5. ASSUME NEW T \in D PROVE g[T] \in B
    <2>1. T \in SUBSET S /\ x \notin T /\ Cardinality(T) = l - 1
      BY DEF kSubset
    <2>2. Cardinality(T \cup {x}) = Cardinality(T) + 1
      BY <1>2, <2>1, FS_AddElement
    <2>3. Cardinality(T \cup {x}) = l
      BY <2>1, <2>2
    <2> QED BY <2>1, <2>3 DEF kSubset
  <1>6. ASSUME NEW T \in B PROVE T \ {x} \in D /\ g[T \ {x}] = T
    <2>1. T \in SUBSET S /\ x \in T /\ Cardinality(T) = l
      BY DEF kSubset
    <2>2. Cardinality(T \ {x}) = Cardinality(T) - 1
      BY <1>2, <2>1, FS_RemoveElement
    <2>3. T \ {x} \in D
      BY <2>1, <2>2 DEF kSubset
    <2> QED BY <2>1, <2>3
  <1>7. ASSUME NEW T \in D, NEW U \in D, g[T] = g[U] PROVE T = U
    <2>1. x \notin T /\ x \notin U
      BY DEF kSubset
    <2> QED BY <1>7, <2>1
  <1>8. g \in Bijection(D, B)
    <2>1. g = [T \in D |-> g[T]]
      OBVIOUS
    <2> HIDE DEF g, D, B
    <2>2. g \in [D -> B]
      BY <1>5, <2>1
    <2> QED BY <1>6, <1>7, <2>2 DEF Bijection, Injection, Surjection, IsInjective
  <1> HIDE DEF g, D, B, A
  <1>9. Cardinality(B) = Cardinality(D)
    BY <1>3, <1>8, FS_Bijection DEF ExistsBijection
  <1>10. Cardinality(A \cup B) = Cardinality(A) + Cardinality(B) - Cardinality(A \cap B)
    BY <1>3, FS_Union
  <1>11. Cardinality(A) \in Nat /\ Cardinality(B) \in Nat /\ Cardinality(A \cap B) = 0
    BY <1>3, <1>4, FS_CardinalityType, FS_EmptySet
  <1>12. Cardinality(kSubset(l, S)) = Cardinality(A) + Cardinality(D)
    BY <1>4, <1>9, <1>10, <1>11
  <1> QED BY <1>12 DEF A, D

\* How many subsets of l elements a set has.
LEMMA SubsetsCounted ==
    ASSUME NEW S, IsFiniteSet(S), NEW l \in 0..Cardinality(S)
    PROVE  LET n == Cardinality(S) IN
           Cardinality(kSubset(l, S)) * (factorial[l] * factorial[n - l]) = factorial[n]
  <1> DEFINE N == Cardinality(S)
             Ok(R, n, m) == Cardinality(kSubset(m, R)) * (factorial[m] * factorial[n - m]) = factorial[n]
             C == {n \in 0..N : \A R \in SUBSET S : Cardinality(R) = n => \A m \in 0..n : Ok(R, n, m)}
  <1>1. N \in Nat
    BY FS_CardinalityType
  <1>2. \A R \in SUBSET S : IsFiniteSet(R) /\ Cardinality(R) \in Nat
    BY FS_Subset, FS_CardinalityType
  <1>3. ASSUME NEW n \in 0..N, NEW R \in SUBSET S, Cardinality(R) = n PROVE Ok(R, n, 0) /\ Ok(R, n, n)
    <2>1. n \in Nat /\ n - 0 = n /\ n - n = 0
      BY <1>1
    <2>2. kSubset(0, R) = {{}}
      <3>1. \A T \in SUBSET R : Cardinality(T) = 0 <=> T = {}
        BY <1>2, FS_EmptySet
      <3> QED BY <3>1 DEF kSubset
    <2>3. kSubset(n, R) = {R}
      <3>1. \A T \in SUBSET R : Cardinality(T) = n => T = R
        BY <1>2, <1>3, FS_Subset
      <3> QED BY <1>3, <3>1 DEF kSubset
    <2>4. Cardinality({{}}) = 1 /\ Cardinality({R}) = 1
      BY FS_Singleton
    <2>5. factorial[0] = 1 /\ factorial[n] \in Nat
      BY <2>1, FactorialIs
    <2> DEFINE y == factorial[n]
    <2>6. 1 * (1 * y) = y /\ 1 * (y * 1) = y
      <3>1. y \in Nat
        BY <2>5
      <3> HIDE DEF y
      <3> QED BY <3>1
    <2> QED BY <2>1, <2>2, <2>3, <2>4, <2>5, <2>6
  <1>4. 0 \in C
    <2>1. 0 \in 0..N
      BY <1>1
    <2>2. \A m \in 0..0 : m = 0
      OBVIOUS
    <2> HIDE DEF Ok, N
    <2> QED BY <1>3, <2>1, <2>2
  <1>5. ASSUME NEW n \in (0 + 1)..N, n - 1 \in C PROVE n \in C
    <2> SUFFICES ASSUME NEW R \in SUBSET S, Cardinality(R) = n, NEW m \in 0..n PROVE Ok(R, n, m)
      <3> HIDE DEF Ok
      <3> QED BY <1>1
    <2>1. n \in 0..N /\ n \in Nat \ {0}
      BY <1>1
    <2>2. CASE m = 0 \/ m = n
      <3> HIDE DEF Ok, N
      <3> QED BY <1>3, <2>1, <2>2
    <2>3. CASE m # 0 /\ m # n
      <3>1. m \in 1..(n - 1) /\ m \in Nat \ {0} /\ m \in Nat
        BY <2>1, <2>3
      <3>2. R # {}
        BY <2>1, FS_EmptySet
      <3>3. PICK x \in R : TRUE
        BY <3>2
      <3> DEFINE Q == R \ {x}
                 o == n - 1
                 l1 == m - 1
                 d == n - m
                 d1 == d - 1
      <3>4. /\ o \in Nat /\ l1 \in Nat /\ d \in Nat \ {0} /\ d \in Nat /\ d1 \in Nat
            /\ m \in 0..o /\ l1 \in 0..o /\ o - m = d1 /\ o - l1 = d /\ m + d = n
        BY <2>1, <3>1
      <3>5. Q \in SUBSET S /\ Cardinality(Q) = o
        <4>1. Cardinality(R \ {x}) = Cardinality(R) - 1
          BY <1>2, <3>3, FS_RemoveElement
        <4> QED BY <4>1
      <3>6. o \in C
        BY <1>5
      <3> HIDE DEF Q, o, l1, d, d1
      <3>7. Ok(Q, o, m) /\ Ok(Q, o, l1)
        <4> HIDE DEF Ok, N
        <4> QED BY <3>4, <3>5, <3>6
      <3>8. /\ factorial[m] = m * factorial[l1] /\ factorial[d] = d * factorial[d1]
            /\ factorial[n] = n * factorial[o]
            /\ factorial[l1] \in Nat /\ factorial[d1] \in Nat /\ factorial[o] \in Nat
        BY <2>1, <3>1, <3>4, FactorialIs DEF o, l1, d1
      <3> DEFINE a == Cardinality(kSubset(m, Q))
                 b == Cardinality(kSubset(l1, Q))
                 c == Cardinality(kSubset(m, R))
                 u == factorial[l1]
                 v == factorial[d1]
                 w == factorial[o]
      <3>9. c = a + b
        BY <1>2, <3>1, <3>3, SubsetsSplit DEF Q, l1
      <3>10. a \in Nat /\ b \in Nat
        <4>1. IsFiniteSet(Q)
          BY <1>2, <3>5
        <4>2. IsFiniteSet(SUBSET Q)
          BY <4>1, FS_SUBSET
        <4>3. kSubset(m, Q) \in SUBSET (SUBSET Q) /\ kSubset(l1, Q) \in SUBSET (SUBSET Q)
          BY DEF kSubset
        <4> QED BY <4>2, <4>3, FS_Subset, FS_CardinalityType
      <3>11. a * ((m * u) * v) = w /\ b * (u * (d * v)) = w
        BY <3>4, <3>7, <3>8
      <3>12. u \in Nat /\ v \in Nat /\ w \in Nat
        BY <3>8
      <3>13. (a + b) * ((m * u) * (d * v)) = (m + d) * w
        <4> HIDE DEF a, b, u, v, w
        <4> QED BY <3>1, <3>4, <3>10, <3>11, <3>12, PascalsRule
      <3>14. c * (factorial[m] * factorial[d]) = n * w
        <4> HIDE DEF a, b, c
        <4> QED BY <3>4, <3>8, <3>9, <3>13
      <3>15. c * (factorial[m] * factorial[n - m]) = factorial[n]
        BY <3>8, <3>14 DEF d
      <3> QED BY <3>15
    <2> QED BY <2>2, <2>3
  <1>6. N \in C
    <2> HIDE DEF C, N
    <2>1. 0..N \subseteq C
      BY <1>1, <1>4, <1>5, UpwardInduction
    <2> QED BY <1>1, <2>1
  <1> QED BY <1>6

\* What choose computes is that number.
LEMMA ChooseCounts ==
    ASSUME NEW S, IsFiniteSet(S), NEW l \in 0..Cardinality(S)
    PROVE  choose(Cardinality(S), l) = Cardinality(kSubset(l, S))
  <1> DEFINE n == Cardinality(S)
             c == Cardinality(kSubset(l, S))
             x == factorial[l]
             y == factorial[n - l]
  <1>1. n \in Nat /\ l \in Nat /\ n - l \in Nat
    BY FS_CardinalityType
  <1>2. x \in Nat \ {0} /\ y \in Nat \ {0}
    BY <1>1, FactorialIs
  <1>3. c \in Nat
    <2>1. kSubset(l, S) \in SUBSET (SUBSET S)
      BY DEF kSubset
    <2> QED BY <2>1, FS_SUBSET, FS_Subset, FS_CardinalityType
  <1>4. c * (x * y) = factorial[n]
    BY SubsetsCounted
  <1> DEFINE D == x * y
  <1>5. D \in Nat \ {0}
    <2> HIDE DEF x, y
    <2> QED BY <1>2
  <1>6. (c * D) \div D = c
    <2> HIDE DEF c, D
    <2> QED BY <1>3, <1>5
  <1> QED BY <1>4, <1>6 DEF choose

AtMost(D, l) == {T \in SUBSET D : Cardinality(T) <= l}

\* The tail that mcnemar_exact adds up counts the subsets of at most l elements.
LEMMA TailCounts ==
    ASSUME NEW D, IsFiniteSet(D), NEW l \in 0..Cardinality(D)
    PROVE  SumFunction([m \in 0..l |-> choose(Cardinality(D), m)]) = Cardinality(AtMost(D, l))
  <1> DEFINE n == Cardinality(D)
             f == [m \in 0..l |-> choose(n, m)]
             I == 0..l
             C == {m \in 0..l : Cardinality(Area(f, 0..m)) = Cardinality(AtMost(D, m))}
  <1>1. n \in Nat /\ l \in Nat
    BY FS_CardinalityType
  <1>2. \A T \in SUBSET D : IsFiniteSet(T) /\ Cardinality(T) \in Nat
    BY FS_Subset, FS_CardinalityType
  <1>3. \A Q \in SUBSET (SUBSET D) : IsFiniteSet(Q) /\ Cardinality(Q) \in Nat
    BY FS_SUBSET, FS_Subset, FS_CardinalityType
  <1>4. ASSUME NEW m \in I PROVE f[m] = Cardinality(kSubset(m, D)) /\ f[m] \in Nat
    <2>1. m \in 0..n
      BY <1>1
    <2>2. f[m] = Cardinality(kSubset(m, D))
      BY <2>1, ChooseCounts
    <2>3. kSubset(m, D) \in SUBSET (SUBSET D)
      BY DEF kSubset
    <2> QED BY <1>3, <2>2, <2>3
  <1>5. IsFiniteSet(I) /\ DOMAIN f = I
    BY <1>1, FS_Interval
  <1>6. f \in [I -> Nat]
    BY <1>4
  <1> HIDE DEF f
  <1>7. ASSUME NEW m \in I
        PROVE  Cardinality(Area(f, 0..m)) = f[m] + Cardinality(Area(f, (0..m) \ {m}))
    <2> DEFINE J == 0..m
    <2>1. J \in SUBSET I /\ m \in J
      BY <1>1
    <2> HIDE DEF I, J
    <2>2. Cardinality(Area(f, J)) = f[m] + Cardinality(Area(f, J \ {m}))
      BY <1>5, <1>6, <2>1, AreaAddsUp
    <2> QED BY <2>2 DEF J
  <1>8. 0 \in C
    <2>1. 0 \in I /\ (0..0) \ {0} = {}
      BY <1>1
    <2>2. Cardinality(Area(f, 0..0)) = f[0] + 0
      BY <1>7, <2>1, AreaOfNothing, FS_EmptySet
    <2>3. AtMost(D, 0) = kSubset(0, D)
      <3>1. \A T \in SUBSET D : Cardinality(T) <= 0 <=> Cardinality(T) = 0
        BY <1>2
      <3> QED BY <3>1 DEF AtMost, kSubset
    <2> QED BY <1>4, <2>1, <2>2, <2>3
  <1>9. ASSUME NEW m \in (0 + 1)..l, m - 1 \in C PROVE m \in C
    <2> DEFINE A == AtMost(D, m - 1)
               B == kSubset(m, D)
    <2>1. m \in I /\ (0..m) \ {m} = 0..(m - 1)
      BY <1>1
    <2>2. Cardinality(Area(f, 0..m)) = Cardinality(B) + Cardinality(A)
      BY <1>4, <1>7, <1>9, <2>1
    <2>3. AtMost(D, m) = A \cup B /\ A \cap B = {}
      <3>1. \A T \in SUBSET D : /\ Cardinality(T) <= m <=> (Cardinality(T) <= m - 1 \/ Cardinality(T) = m)
                                /\ ~(Cardinality(T) <= m - 1 /\ Cardinality(T) = m)
        BY <1>2
      <3> QED BY <3>1 DEF AtMost, kSubset
    <2>4. A \in SUBSET (SUBSET D) /\ B \in SUBSET (SUBSET D)
      BY DEF AtMost, kSubset
    <2> HIDE DEF A, B
    <2>5. IsFiniteSet(A) /\ IsFiniteSet(B) /\ Cardinality(A) \in Nat /\ Cardinality(B) \in Nat
      BY <1>3, <2>4
    <2>6. Cardinality(A \cup B) = Cardinality(A) + Cardinality(B) - Cardinality(A \cap B)
      BY <2>5, FS_Union
    <2>7. Cardinality(A \cap B) = 0
      BY <2>3, FS_EmptySet
    <2>8. Cardinality(Area(f, 0..m)) = Cardinality(AtMost(D, m))
      BY <2>2, <2>3, <2>5, <2>6, <2>7
    <2> QED BY <2>1, <2>8
  <1>10. l \in C
    <2> HIDE DEF C
    <2>1. 0..l \subseteq C
      BY <1>1, <1>8, <1>9, UpwardInduction
    <2> QED BY <1>1, <2>1
  <1>11. SumFunction(f) = Cardinality(Area(f, I))
    BY <1>5, <1>6, SumIsArea
  <1> QED BY <1>10, <1>11 DEF f

Distance(x) == IF x < 0 THEN -x ELSE x

\* w of n tasks won, against c: at least as lopsided.
Lopsided(w, n, c) == Distance(2 * w - n) >= Distance(2 * c - n)

\* Either side may be the one with at most l.
LEMMA LopsidedIs ==
    ASSUME NEW b \in Nat, NEW c \in Nat, NEW n \in Nat, n = b + c,
           NEW l, l = IF b < c THEN b ELSE c, NEW w \in Nat, w <= n
    PROVE  /\ Lopsided(w, n, b) <=> w <= l \/ n - w <= l
           /\ 2 * l < n => ~(w <= l /\ n - w <= l)
  BY DEF Lopsided, Distance

\* Of the tasks D, those of B were won: the ways to win them that are as lopsided.
LopsidedSets(D, B) == {W \in SUBSET D : Lopsided(Cardinality(W), Cardinality(D), Cardinality(B))}

\* Of the tasks D, either side alone passed B and C.
Split(D, B, C) == IsFiniteSet(B) /\ IsFiniteSet(C) /\ B \cap C = {} /\ D = B \cup C

\* mcnemar_exact: out of all ways to win the tasks that one side alone passed,
\* how many are at least as lopsided.
LEMMA ExactTest ==
    ASSUME NEW B, NEW C, NEW D, Split(D, B, C),
           NEW p, p = mcnemar_exact(Cardinality(B), Cardinality(C))
    PROVE  p[2] = Cardinality(SUBSET D) /\ p[1] = Cardinality(LopsidedSets(D, B))
  <1> DEFINE n == Cardinality(D)
             b == Cardinality(B)
             c == Cardinality(C)
             l == IF b < c THEN b ELSE c
             X == LopsidedSets(D, B)
             Low == AtMost(D, l)
             High == {W \in SUBSET D : n - Cardinality(W) <= l}
             g == [W \in Low |-> D \ W]
             tail == SumFunction([m \in 0..l |-> choose(n, m)])
             all == Cardinality(SUBSET D)
             x == Cardinality(X)
  <1>0. IsFiniteSet(B) /\ IsFiniteSet(C) /\ B \cap C = {} /\ D = B \cup C
    BY DEF Split
  <1>1. IsFiniteSet(D) /\ b \in Nat /\ c \in Nat /\ n \in Nat /\ n = b + c
    <2>1. b \in Nat /\ c \in Nat /\ Cardinality(B \cap C) = 0
      BY <1>0, FS_CardinalityType, FS_EmptySet
    <2>2. IsFiniteSet(D) /\ n = b + c - Cardinality(B \cap C)
      BY <1>0, FS_Union
    <2> HIDE DEF b, c, n
    <2> QED BY <2>1, <2>2
  <1>2. ASSUME NEW W \in SUBSET D
        PROVE  /\ IsFiniteSet(W) /\ Cardinality(W) \in Nat /\ Cardinality(W) <= n
               /\ Cardinality(D \ W) = n - Cardinality(W)
    <2>1. IsFiniteSet(W) /\ Cardinality(W) <= n
      BY <1>1, FS_Subset
    <2>2. Cardinality(D \ W) = n - Cardinality(D \cap W) /\ D \cap W = W
      BY <1>1, FS_Difference
    <2>3. Cardinality(W) \in Nat
      BY <2>1, FS_CardinalityType
    <2> QED BY <2>1, <2>2, <2>3
  <1>3. all = 2^n /\ all \in Nat /\ IsFiniteSet(SUBSET D)
    BY <1>1, FS_SUBSET, FS_CardinalityType
  <1>4. \A Q \in SUBSET (SUBSET D) : IsFiniteSet(Q) /\ Cardinality(Q) \in Nat /\ Cardinality(Q) <= all
    BY <1>3, FS_Subset, FS_CardinalityType
  <1>5. /\ l \in 0..n /\ 2 * l <= n
        /\ \A W \in SUBSET D :
               /\ Lopsided(Cardinality(W), n, b) <=> Cardinality(W) <= l \/ n - Cardinality(W) <= l
               /\ 2 * l < n => ~(Cardinality(W) <= l /\ n - Cardinality(W) <= l)
    <2>1. l \in 0..n /\ 2 * l <= n
      <3> HIDE DEF b, c, n
      <3> QED BY <1>1
    <2>2. ASSUME NEW W \in SUBSET D
          PROVE  /\ Lopsided(Cardinality(W), n, b) <=> Cardinality(W) <= l \/ n - Cardinality(W) <= l
                 /\ 2 * l < n => ~(Cardinality(W) <= l /\ n - Cardinality(W) <= l)
      <3> DEFINE w == Cardinality(W)
      <3>1. w \in Nat /\ w <= n /\ l = IF b < c THEN b ELSE c
        BY <1>1, <1>2
      <3> HIDE DEF b, c, n, w, l
      <3>2. /\ Lopsided(w, n, b) <=> w <= l \/ n - w <= l
            /\ 2 * l < n => ~(w <= l /\ n - w <= l)
        BY <1>1, <3>1, LopsidedIs
      <3> QED BY <3>2 DEF w
    <2> QED BY <2>1, <2>2
  <1> HIDE DEF l
  <1>6. X = Low \cup High /\ (2 * l < n => Low \cap High = {})
    <2>1. X = {W \in SUBSET D : Lopsided(Cardinality(W), n, b)}
      BY DEF LopsidedSets
    <2> HIDE DEF b, n, X
    <2> QED BY <1>5, <2>1 DEF AtMost
  <1>7. Low \in SUBSET (SUBSET D) /\ High \in SUBSET (SUBSET D) /\ X \in SUBSET (SUBSET D)
    BY DEF AtMost, LopsidedSets
  <1>8. g \in Bijection(Low, High)
    <2>1. ASSUME NEW W \in Low PROVE g[W] \in High
      <3>1. W \in SUBSET D /\ Cardinality(W) <= l
        BY DEF AtMost
      <3>2. Cardinality(W) \in Nat /\ Cardinality(D \ W) = n - Cardinality(W)
        BY <1>2, <3>1
      <3>3. n - Cardinality(D \ W) <= l
        <4> DEFINE w == Cardinality(W)
        <4>1. w \in Nat /\ w <= l /\ n - (n - w) = w
          BY <1>1, <3>1, <3>2
        <4> HIDE DEF n
        <4> QED BY <3>2, <4>1
      <3> QED BY <3>1, <3>3
    <2>2. ASSUME NEW W \in High PROVE D \ W \in Low /\ g[D \ W] = W
      <3>1. W \in SUBSET D /\ n - Cardinality(W) <= l
        OBVIOUS
      <3>2. Cardinality(D \ W) = n - Cardinality(W)
        BY <1>2, <3>1
      <3>3. D \ W \in Low
        BY <3>1, <3>2 DEF AtMost
      <3> QED BY <3>1, <3>3
    <2>3. ASSUME NEW W \in Low, NEW V \in Low, g[W] = g[V] PROVE W = V
      <3>1. W \in SUBSET D /\ V \in SUBSET D
        BY DEF AtMost
      <3> QED BY <2>3, <3>1
    <2>4. g = [W \in Low |-> g[W]]
      OBVIOUS
    <2> HIDE DEF g, Low, High
    <2>5. g \in [Low -> High]
      BY <2>1, <2>4
    <2> QED BY <2>2, <2>3, <2>5 DEF Bijection, Injection, Surjection, IsInjective
  <1>9. tail = Cardinality(Low)
    BY <1>1, <1>5, TailCounts
  <1> HIDE DEF g, Low, High, X
  <1>10. Cardinality(High) = Cardinality(Low)
    BY <1>4, <1>7, <1>8, FS_Bijection DEF ExistsBijection
  <1>11. x = 2 * tail - Cardinality(Low \cap High)
    <2>1. x = Cardinality(Low) + Cardinality(High) - Cardinality(Low \cap High)
      BY <1>4, <1>6, <1>7, FS_Union
    <2>2. Cardinality(Low) \in Nat /\ Cardinality(Low \cap High) \in Nat
      BY <1>4, <1>7
    <2> HIDE DEF tail, x
    <2> QED BY <1>9, <1>10, <2>1, <2>2
  <1>12. x \in Nat /\ tail \in Nat /\ Cardinality(Low \cap High) \in Nat /\ x <= all
    BY <1>4, <1>7, <1>9
  <1>13. CASE n = 0
    <2>1. b = 0 /\ c = 0 /\ l = 0
      <3> HIDE DEF b, c, n
      <3> QED BY <1>1, <1>13 DEF l
    <2>2. D = {} /\ SUBSET D = {{}} /\ all = 1
      <3>1. D = {}
        BY <1>1, <1>13, FS_EmptySet
      <3>2. SUBSET D = {{}}
        BY <3>1
      <3> QED BY <3>1, <3>2, FS_Singleton
    <2>3. X = {{}}
      <3>1. \A W \in SUBSET D : W = {} /\ Cardinality(W) = 0
        BY <2>2, FS_EmptySet
      <3>2. \A W \in SUBSET D : W \in X
        <4>1. \A W \in SUBSET D : Cardinality(W) <= l
          BY <2>1, <3>1
        <4> QED BY <1>5, <4>1 DEF X, LopsidedSets
      <3> QED BY <1>7, <2>2, <3>2
    <2>4. x = 1
      BY <2>3, FS_Singleton
    <2>5. mcnemar_exact(b, c) = <<1, 1>>
      <3> HIDE DEF b, c, n
      <3> QED BY <1>1, <1>13 DEF mcnemar_exact
    <2> QED BY <2>2, <2>4, <2>5 DEF X
  <1>14. CASE n # 0
    <2>1. mcnemar_exact(b, c) = <<IF 2 * tail < all THEN 2 * tail ELSE all, all>>
      <3>1. tail = SumFunction([m \in 0..l |-> choose(b + c, m)]) /\ b + c # 0 /\ all = 2^(b + c)
        BY <1>1, <1>3, <1>14
      <3> HIDE DEF b, c, n, tail, all
      <3> QED BY <3>1 DEF mcnemar_exact, l
    <2>2. x = IF 2 * tail < all THEN 2 * tail ELSE all
      <3>1. CASE 2 * l < n
        <4>1. Cardinality(Low \cap High) = 0
          BY <1>6, <3>1, FS_EmptySet
        <4> HIDE DEF x, tail, all
        <4> QED BY <1>3, <1>11, <1>12, <4>1
      <3>2. CASE ~(2 * l < n)
        <4>1. X = SUBSET D
          <5>1. ASSUME NEW W \in SUBSET D PROVE Cardinality(W) <= l \/ n - Cardinality(W) <= l
            <6> DEFINE w == Cardinality(W)
            <6>1. w \in Nat /\ n \in Nat /\ l \in Nat /\ n = 2 * l
              <7>1. w \in Nat
                BY <1>2
              <7> HIDE DEF n, w
              <7>2. l \in Nat /\ 2 * l <= n
                BY <1>1, <1>5
              <7> QED BY <1>1, <3>2, <7>1, <7>2
            <6> HIDE DEF n, w
            <6>2. w <= l \/ n - w <= l
              BY <6>1
            <6> QED BY <6>2 DEF w
          <5> QED BY <1>5, <5>1 DEF X, LopsidedSets
        <4>2. x = all
          BY <4>1
        <4> HIDE DEF x, tail, all
        <4> QED BY <1>3, <1>11, <1>12, <4>2
      <3> QED BY <3>1, <3>2
    <2> HIDE DEF x, tail, all, b, c
    <2> QED BY <2>1, <2>2 DEF X, x, all, b, c
  <1> QED BY <1>13, <1>14

\* Who wins the tasks of B and C, which the first and the second side won, when
\* the results of the tasks in S are swapped.
Won(S, B, C) == (B \ S) \cup (C \cap S)

Swaps(E, B, C, Q) == {S \in SUBSET E : Won(S, B, C) \in Q}

\* Of the tasks E, D were won, B by the first and C by the second side; R are the sets of others.
Paired(E, B, C, D, R) ==
    /\ IsFiniteSet(E) /\ B \in SUBSET E /\ C \in SUBSET E
    /\ B \cap C = {} /\ D = B \cup C /\ R = SUBSET (E \ D)

\* A swap is one of the tasks that were won and one of the rest.
LEMMA SwapsCounted ==
    ASSUME NEW E, NEW B, NEW C, NEW D, NEW R, Paired(E, B, C, D, R), NEW Q, Q \subseteq SUBSET D
    PROVE  /\ Cardinality(Swaps(E, B, C, Q)) = Cardinality(Q) * Cardinality(R)
           /\ Cardinality(Q) \in Nat /\ Cardinality(R) \in Nat
  <1> DEFINE X == {S \in SUBSET E : Won(S, B, C) \in Q}
             Y == Q \X R
             g == [S \in X |-> <<Won(S, B, C), S \ D>>]
  <1>0. /\ IsFiniteSet(E) /\ B \in SUBSET E /\ C \in SUBSET E
        /\ B \cap C = {} /\ D = B \cup C /\ R = SUBSET (E \ D)
    BY DEF Paired
  <1>1. IsFiniteSet(Q) /\ IsFiniteSet(R) /\ IsFiniteSet(X)
    <2>1. IsFiniteSet(SUBSET E)
      BY <1>0, FS_SUBSET
    <2>2. R \in SUBSET (SUBSET E) /\ Q \in SUBSET (SUBSET E) /\ X \in SUBSET (SUBSET E)
      BY <1>0
    <2> HIDE DEF X
    <2> QED BY <2>1, <2>2, FS_Subset
  <1>2. ASSUME NEW S \in X PROVE g[S] \in Y
    BY <1>0 DEF Won
  <1>3. ASSUME NEW S \in X, NEW T \in X, g[S] = g[T] PROVE S = T
    <2>1. Won(S, B, C) = Won(T, B, C) /\ S \ D = T \ D
      BY <1>3
    <2>2. \A t \in E : t \in S <=> t \in T
      BY <1>0, <2>1 DEF Won
    <2> QED BY <2>2
  <1>4. ASSUME NEW W \in Q, NEW U \in R PROVE \E S \in X : g[S] = <<W, U>>
    <2> DEFINE S == Won(W, B, C) \cup U
    <2>1. S \in SUBSET E /\ S \ D = U
      BY <1>0 DEF Won
    <2>2. Won(S, B, C) = W
      BY <1>0 DEF Won
    <2>3. S \in X
      BY <2>1, <2>2
    <2> HIDE DEF S
    <2> QED BY <2>1, <2>2, <2>3
  <1>5. g \in Bijection(X, Y)
    <2>1. g = [S \in X |-> g[S]]
      OBVIOUS
    <2> HIDE DEF g, X
    <2>2. g \in [X -> Y]
      BY <1>2, <2>1
    <2>3. \A y \in Y : \E S \in X : g[S] = y
      BY <1>4
    <2> QED BY <1>3, <2>2, <2>3 DEF Bijection, Injection, Surjection, IsInjective
  <1> HIDE DEF g, X
  <1>6. Cardinality(Y) = Cardinality(X)
    <2> HIDE DEF Y
    <2> QED BY <1>1, <1>5, FS_Bijection DEF ExistsBijection
  <1>7. Cardinality(Y) = Cardinality(Q) * Cardinality(R)
    BY <1>1, FS_Product
  <1>8. Cardinality(Q) \in Nat /\ Cardinality(R) \in Nat
    BY <1>1, FS_CardinalityType
  <1> QED BY <1>6, <1>7, <1>8 DEF X, Swaps

Swapped(P, Q, S) == (P \ S) \cup (Q \cap S)

\* P and Q: the tasks that the two sides passed.  By how many more tasks the
\* first side passes with the tasks of S swapped.
LEMMA SwappedDifference ==
    ASSUME NEW E, IsFiniteSet(E), NEW P \in SUBSET E, NEW Q \in SUBSET E, NEW S \in SUBSET E,
           NEW B, B = P \ Q, NEW C, C = Q \ P, NEW D, D = B \cup C
    PROVE  Cardinality(Swapped(P, Q, S)) - Cardinality(Swapped(Q, P, S))
               = 2 * Cardinality(Won(S, B, C)) - Cardinality(D)
  <1> DEFINE W == Won(S, B, C)
             V == D \ W
             A == P \cap Q
             X == Swapped(P, Q, S)
             Y == Swapped(Q, P, S)
  <1>1. \A T \in SUBSET E : IsFiniteSet(T) /\ Cardinality(T) \in Nat
    BY FS_Subset, FS_CardinalityType
  <1>2. /\ A \in SUBSET E /\ W \in SUBSET E /\ V \in SUBSET E /\ D \in SUBSET E
        /\ W \in SUBSET D
    BY DEF Won
  <1>3. X = A \cup W /\ A \cap W = {}
    BY DEF Won, Swapped
  <1>4. Y = A \cup V /\ A \cap V = {}
    BY DEF Won, Swapped
  <1>5. D \cap W = W
    BY <1>2
  <1> HIDE DEF A, W, X, Y
  <1>6. Cardinality(X) = Cardinality(A) + Cardinality(W)
    <2>1. Cardinality(X) = Cardinality(A) + Cardinality(W) - Cardinality(A \cap W)
      BY <1>1, <1>2, <1>3, FS_Union
    <2>2. Cardinality(A \cap W) = 0
      BY <1>3, FS_EmptySet
    <2> QED BY <1>1, <1>2, <2>1, <2>2
  <1>7. Cardinality(V) = Cardinality(D) - Cardinality(W)
    <2>1. IsFiniteSet(D)
      BY <1>1, <1>2
    <2>2. Cardinality(D \ W) = Cardinality(D) - Cardinality(D \cap W)
      BY <2>1, FS_Difference
    <2> QED BY <1>5, <2>2
  <1> HIDE DEF V
  <1>8. Cardinality(Y) = Cardinality(A) + Cardinality(V)
    <2>1. Cardinality(Y) = Cardinality(A) + Cardinality(V) - Cardinality(A \cap V)
      BY <1>1, <1>2, <1>4, FS_Union
    <2>2. Cardinality(A \cap V) = 0
      BY <1>4, FS_EmptySet
    <2> QED BY <1>1, <1>2, <2>1, <2>2
  <1>9. Cardinality(X) - Cardinality(Y) = 2 * Cardinality(W) - Cardinality(D)
    <2>1. /\ Cardinality(A) \in Nat /\ Cardinality(W) \in Nat
          /\ Cardinality(V) \in Nat /\ Cardinality(D) \in Nat
      BY <1>1, <1>2
    <2> QED BY <1>6, <1>7, <1>8, <2>1
  <1> QED BY <1>9 DEF X, Y, W

\* The swaps that are at least as lopsided as none.
Extreme(E, Diff) == {S \in SUBSET E : Distance(Diff[S]) >= Distance(Diff[{}])}

\* Of the tasks E the two sides passed P and Q, the first alone B, the second
\* alone C; Diff tells by how many more it passes with the tasks of S swapped.
Compared(E, P, Q, B, C, Diff) ==
    /\ P \in SUBSET E /\ Q \in SUBSET E /\ B = P \ Q /\ C = Q \ P
    /\ \A S \in SUBSET E :
           Diff[S] = Cardinality(Swapped(P, Q, S)) - Cardinality(Swapped(Q, P, S))

\* The test of the tasks won is the test by swapping all results.
LEMMA TestBySwapping ==
    ASSUME NEW E, IsFiniteSet(E), NEW P, NEW Q, NEW B, NEW C, NEW Diff,
           Compared(E, P, Q, B, C, Diff), NEW p, p = mcnemar_exact(Cardinality(B), Cardinality(C))
    PROVE  p[1] * Cardinality(SUBSET E) = Cardinality(Extreme(E, Diff)) * p[2]
  <1> DEFINE D == B \cup C
             n == Cardinality(D)
             b == Cardinality(B)
             X == LopsidedSets(D, B)
             R == SUBSET (E \ D)
             extreme == Extreme(E, Diff)
  <1>1. IsFiniteSet(B) /\ IsFiniteSet(C) /\ B \cap C = {} /\ B \in SUBSET E /\ C \in SUBSET E
    <2>1. B \in SUBSET E /\ C \in SUBSET E /\ B \cap C = {}
      BY DEF Compared
    <2> QED BY <2>1, FS_Subset
  <1>2. \A S \in SUBSET E : Diff[S] = 2 * Cardinality(Won(S, B, C)) - n
    <2>1. B = P \ Q /\ C = Q \ P /\ D = B \cup C /\ P \in SUBSET E /\ Q \in SUBSET E
      BY DEF Compared
    <2> HIDE DEF D
    <2>2. \A S \in SUBSET E :
              Cardinality(Swapped(P, Q, S)) - Cardinality(Swapped(Q, P, S))
                  = 2 * Cardinality(Won(S, B, C)) - Cardinality(D)
      BY <2>1, SwappedDifference
    <2> QED BY <2>2 DEF Compared
  <1>3. Won({}, B, C) = B /\ {} \in SUBSET E /\ \A S \in SUBSET E : Won(S, B, C) \in SUBSET D
    BY DEF Won
  <1>4. extreme = Swaps(E, B, C, X)
    <2>1. Diff[{}] = 2 * b - n
      BY <1>2, <1>3
    <2>2. \A S \in SUBSET E :
              Distance(Diff[S]) >= Distance(Diff[{}]) <=> Lopsided(Cardinality(Won(S, B, C)), n, b)
      BY <1>2, <2>1 DEF Lopsided
    <2> HIDE DEF n, b, D
    <2> QED BY <1>3, <2>2 DEF Swaps, Extreme, LopsidedSets, n, b
  <1>5. /\ Cardinality(extreme) = Cardinality(X) * Cardinality(R)
        /\ Cardinality(X) \in Nat /\ Cardinality(R) \in Nat
    <2>1. X \subseteq SUBSET D
      BY DEF LopsidedSets
    <2>2. Paired(E, B, C, D, R)
      BY <1>1 DEF Paired
    <2> HIDE DEF X, extreme, D, R
    <2> QED BY <1>4, <2>1, <2>2, SwapsCounted
  <1>6. /\ Cardinality(SUBSET E) = Cardinality(SUBSET D) * Cardinality(R)
        /\ Cardinality(SUBSET D) \in Nat
    <2> DEFINE All == SUBSET D
    <2>1. All \subseteq SUBSET D /\ Paired(E, B, C, D, R)
      BY <1>1 DEF Paired
    <2>2. SUBSET E = Swaps(E, B, C, All)
      BY <1>3 DEF Swaps
    <2> HIDE DEF All, D, R
    <2>3. /\ Cardinality(Swaps(E, B, C, All)) = Cardinality(All) * Cardinality(R)
          /\ Cardinality(All) \in Nat
      BY <2>1, SwapsCounted
    <2> QED BY <2>2, <2>3 DEF All
  <1>7. p[2] = Cardinality(SUBSET D) /\ p[1] = Cardinality(X)
    <2>1. Split(D, B, C)
      BY <1>1 DEF Split
    <2> HIDE DEF D, X
    <2>2. p = mcnemar_exact(Cardinality(B), Cardinality(C))
      OBVIOUS
    <2>3. X = LopsidedSets(D, B)
      BY DEF X
    <2> QED BY ONLY <2>1, <2>2, <2>3, ExactTest
  <1> DEFINE x == Cardinality(X)
             y == Cardinality(SUBSET D)
             r == Cardinality(R)
  <1>8. x * (y * r) = (x * r) * y
    <2>1. x \in Nat /\ y \in Nat /\ r \in Nat
      BY <1>5, <1>6
    <2> HIDE DEF x, y, r
    <2> QED BY <2>1
  <1>9. p[1] * Cardinality(SUBSET E) = Cardinality(extreme) * p[2]
    BY <1>5, <1>6, <1>7, <1>8
  <1> QED BY <1>9

(* For any two files: the p-value is the share of the swaps that come out  *)
(* at least as lopsided, by the last line of each task.                    *)
THEOREM PValueIsTheShareOfSwaps ==
    ASSUME NEW f \in Seq(Line), NEW g \in Seq(Line)
    PROVE  IsShareOfSwaps(report(f, g).p, f, g)
  <1> DEFINE Passed(h, t) == h[Max({x \in DOMAIN h : h[x].task_id = t})].passed_at = 1
             Tasks(h) == {h[x].task_id : x \in DOMAIN h}
             both == Tasks(f) \cap Tasks(g)
             Passes(h, l, S) == Cardinality({t \in both : Passed(IF t \in S THEN l ELSE h, t)})
             Diff(S) == Passes(f, g, S) - Passes(g, f, S)
             extreme == {S \in SUBSET both : Distance(Diff(S)) >= Distance(Diff({}))}
             p == report(f, g).p
             P == {t \in both : Passed(f, t)}
             Q == {t \in both : Passed(g, t)}
  <1>1. IsFiniteSet(both) /\ P \in SUBSET both /\ Q \in SUBSET both
    <2>1. Tasks(f) \subseteq 1..NResults
      <3>1. \A x \in DOMAIN f : f[x] \in Line
        OBVIOUS
      <3>2. \A x \in DOMAIN f : f[x].task_id \in 1..NResults
        BY <3>1 DEF Line
      <3> QED BY <3>2
    <2>2. IsFiniteSet(1..NResults)
      BY BoundsAssumption, FS_Interval
    <2>3. both \in SUBSET (1..NResults)
      BY <2>1
    <2> HIDE DEF both
    <2> QED BY <2>2, <2>3, FS_Subset
  <1>2. p = mcnemar_exact(Cardinality(P \ Q), Cardinality(Q \ P))
    <2> DEFINE a == load_jsonl(f)
               b == load_jsonl(g)
               common == DOMAIN a \cap DOMAIN b
               bWins == {t \in common : humaneval_pass1(a[t]) /\ ~humaneval_pass1(b[t])}
               cWins == {t \in common : ~humaneval_pass1(a[t]) /\ humaneval_pass1(b[t])}
    <2>1. p = mcnemar_exact(Cardinality(bWins), Cardinality(cWins))
      BY DEF report
    <2>2. DOMAIN a = Tasks(f) /\ DOMAIN b = Tasks(g)
      BY DEF load_jsonl
    <2>3. \A t \in Tasks(f) : humaneval_pass1(a[t]) <=> Passed(f, t)
      BY DEF load_jsonl, humaneval_pass1, LastLine
    <2>4. \A t \in Tasks(g) : humaneval_pass1(b[t]) <=> Passed(g, t)
      BY DEF load_jsonl, humaneval_pass1, LastLine
    <2> HIDE DEF a, b, Passed, Tasks
    <2>5. bWins = P \ Q /\ cWins = Q \ P
      BY <2>2, <2>3, <2>4
    <2> QED BY <2>1, <2>5
  <1>3. \A S : {t \in both : Passed(IF t \in S THEN g ELSE f, t)} = Swapped(P, Q, S)
    <2> HIDE DEF Passed, both
    <2> QED BY DEF Swapped
  <1>4. \A S : {t \in both : Passed(IF t \in S THEN f ELSE g, t)} = Swapped(Q, P, S)
    <2> HIDE DEF Passed, both
    <2> QED BY DEF Swapped
  <1>5. \A S : Diff(S) = Cardinality(Swapped(P, Q, S)) - Cardinality(Swapped(Q, P, S))
    <2> HIDE DEF both, Passed, P, Q
    <2> QED BY <1>3, <1>4
  <1> HIDE DEF Diff, P, Q, both, p
  <1> DEFINE d == [S \in SUBSET both |-> Diff(S)]
             far == Extreme(both, d)
  <1>6. p[1] * Cardinality(SUBSET both) = Cardinality(far) * p[2]
    <2>1. \A S \in SUBSET both : d[S] = Cardinality(Swapped(P, Q, S)) - Cardinality(Swapped(Q, P, S))
      BY <1>5
    <2> DEFINE B == P \ Q
               C == Q \ P
    <2>2. Compared(both, P, Q, B, C, d)
      BY <1>1, <2>1 DEF Compared
    <2>3. p = mcnemar_exact(Cardinality(B), Cardinality(C))
      BY <1>2
    <2> HIDE DEF d, B, C
    <2> QED BY ONLY <1>1, <2>2, <2>3, TestBySwapping
  <1>7. far = extreme
    <2>1. {} \in SUBSET both
      OBVIOUS
    <2> QED BY <2>1 DEF Extreme
  <1>8. Cardinality(SUBSET both) = 2^Cardinality(both)
    BY <1>1, FS_SUBSET
  <1>9. p[1] * 2^Cardinality(both) = Cardinality(extreme) * p[2]
    <2> HIDE DEF far, extreme
    <2> QED BY <1>6, <1>7, <1>8
  <1> QED BY <1>9 DEF Distance, Diff, both, p, IsShareOfSwaps

------------------------------------------------------------------------------
(* Every input that is read                                                *)

\* A sequence within a bound is a sequence.
LEMMA SeqsAreSeqs == ASSUME NEW S, NEW n \in Nat PROVE SeqsUpTo(S, n) \subseteq Seq(S)
  <1> SUFFICES ASSUME NEW m \in 0..n, NEW s \in [1..m -> S] PROVE s \in Seq(S)
    BY DEF SeqsUpTo
  <1> QED OBVIOUS

\* The inputs of each kind, without their bounds.
IsCompletion == input.text \in Seq(TextLine) /\ input.legacy \in BOOLEAN
IsPrompt == input \in Seq(Calls \cup {"literal", "text", "blank"})
IsTrace ==
    /\ input \in Seq(Nat \X Nat) /\ input # <<>>
    /\ \A o \in DOMAIN input : input[o][1] <= input[o][2] /\ input[o][2] <= 2 * MaxTime
IsPair == input.a \in Seq(Line) /\ input.b \in Seq(Line)

InputOK ==
    /\ kind = "completion" => IsCompletion
    /\ kind = "prompt" => IsPrompt
    /\ kind = "trace" => IsTrace
    /\ kind = "pair" => IsPair

\* Every input is one of its kind.
LEMMA InputsAreOfTheirKind == ReadInit => InputOK /\ stage = "given"
  <1> SUFFICES ASSUME ReadInit PROVE InputOK
    BY DEF ReadInit
  <1>1. ASSUME kind = "completion" PROVE IsCompletion
    <2>1. input \in [text : Completions, legacy : BOOLEAN]
      BY <1>1 DEF ReadInit
    <2>2. Completions \subseteq Seq(TextLine)
      BY BoundsAssumption, SeqsAreSeqs DEF Completions
    <2> QED BY <2>1, <2>2 DEF IsCompletion
  <1>2. ASSUME kind = "prompt" PROVE IsPrompt
    <2>1. input \in Prompts
      BY <1>2 DEF ReadInit
    <2> QED BY <2>1, BoundsAssumption, SeqsAreSeqs DEF Prompts, IsPrompt
  <1>3. ASSUME kind = "trace" PROVE IsTrace
    <2>1. input \in Seq(Operation) /\ input # <<>>
      <3>1. input \in Traces
        BY <1>3 DEF ReadInit
      <3>2. SeqsUpTo(Operation, MaxOps) \subseteq Seq(Operation)
        BY BoundsAssumption, SeqsAreSeqs
      <3> QED BY <3>1, <3>2 DEF Traces
    <2>2. \A o \in Operation : o \in Nat \X Nat /\ o[1] <= o[2] /\ o[2] <= 2 * MaxTime
      BY BoundsAssumption DEF Operation
    <2>3. \A x \in DOMAIN input : input[x] \in Operation
      BY <2>1
    <2>4. input \in Seq(Nat \X Nat)
      BY <2>1, <2>2, <2>3
    <2> QED BY <2>1, <2>2, <2>3, <2>4 DEF IsTrace
  <1>4. ASSUME kind = "pair" PROVE IsPair
    <2>1. PICK stale \in SeqsUpTo(Line, 1), f \in Files, g \in Files :
              input = [a |-> stale \o f, b |-> g]
      BY <1>4 DEF ReadInit, Pairs
    <2>2. stale \in Seq(Line)
      BY SeqsAreSeqs
    <2>3. f \in Seq(Line) /\ g \in Seq(Line)
      BY BoundsAssumption, SeqsAreSeqs DEF Files
    <2>4. stale \o f \in Seq(Line)
      BY <2>2, <2>3
    <2> QED BY <2>1, <2>3, <2>4 DEF IsPair
  <1> QED BY <1>1, <1>2, <1>3, <1>4 DEF InputOK

\* Reading leaves the input as it is.
LEMMA InputIsKept == InputOK /\ [ReadNext]_readVars => InputOK'
  <1> SUFFICES ASSUME InputOK, [ReadNext]_readVars PROVE InputOK'
    OBVIOUS
  <1>1. kind' = kind /\ input' = input
    BY DEF ReadNext, ReadCompletion, ReadPrompt, ReadTrace, ReadPair, Reads, readVars
  <1> QED BY <1>1 DEF InputOK, IsCompletion, IsPrompt, IsTrace, IsPair

\* The input stays one of its kind.
LEMMA InputInvariance == ReadSpec => []InputOK
  BY InputsAreOfTheirKind, InputIsKept, PTL DEF ReadSpec

(* Every completion whose first fence is a bare one or says "python" is    *)
(* scored by its first block, whatever other fences follow, and is         *)
(* reported unclosed only if that block is.                                *)
THEOREM CompletionsAreScoredByTheirFirstBlock == ReadSpec => []FirstBlockIsScored
  <1>1. ReadInit => FirstBlockIsScored
    BY DEF ReadInit, FirstBlockIsScored, Read
  <1>2. ASSUME InputOK, FirstBlockIsScored, [ReadNext]_readVars PROVE FirstBlockIsScored'
    <2>1. CASE ReadCompletion
      <3>1. IsCompletion /\ input' = input
        BY <1>2, <2>1 DEF ReadCompletion, Reads, InputOK
      <3>2. /\ output'.code = extract_code(input.text, input.legacy)
            /\ output'.unclosed = fence_unclosed(input.text)
        BY <2>1 DEF ReadCompletion
      <3>3. OpensPlainly(input.text) =>
                IsFirstBlock(output'.code, output'.unclosed, input.text, input.legacy)
        BY <3>1, <3>2, FirstBlockIsTheCode DEF IsCompletion
      <3> QED BY <3>1, <3>3 DEF FirstBlockIsScored
    <2>2. CASE ReadPrompt \/ ReadTrace \/ ReadPair
      <3>1. kind' # "completion"
        BY <2>2 DEF ReadPrompt, ReadTrace, ReadPair, Reads
      <3> QED BY <3>1 DEF FirstBlockIsScored, Read
    <2>3. CASE UNCHANGED readVars
      BY <1>2, <2>3 DEF readVars, FirstBlockIsScored, Read
    <2> QED BY <1>2, <2>1, <2>2, <2>3 DEF ReadNext
  <1> QED BY <1>1, <1>2, InputInvariance, PTL DEF ReadSpec

(* The examples that bestofn.py takes from a prompt are exactly its calls  *)
(* with their results, in order.                                           *)
THEOREM PromptsGiveTheirExamples == ReadSpec => []ExamplesAreCallAndResult
  <1>1. ReadInit => ExamplesAreCallAndResult
    BY DEF ReadInit, ExamplesAreCallAndResult, Read
  <1>2. ASSUME InputOK, ExamplesAreCallAndResult, [ReadNext]_readVars
        PROVE  ExamplesAreCallAndResult'
    <2>1. CASE ReadPrompt
      <3>1. IsPrompt /\ input' = input /\ output' = parse_examples(input)
        BY <1>2, <2>1 DEF ReadPrompt, Reads, InputOK
      <3>2. /\ output' \in Seq(UsablePairs(input)) /\ UsablePairs(input) \subseteq Range(output')
            /\ \A m, n \in DOMAIN output' : m < n => output'[m][1] < output'[n][1]
        BY <3>1, ExamplesAreTheCalls DEF IsPrompt
      <3> QED BY <3>1, <3>2 DEF ExamplesAreCallAndResult, UsablePairs
    <2>2. CASE ReadCompletion \/ ReadTrace \/ ReadPair
      <3>1. kind' # "prompt"
        BY <2>2 DEF ReadCompletion, ReadTrace, ReadPair, Reads
      <3> QED BY <3>1 DEF ExamplesAreCallAndResult, Read
    <2>3. CASE UNCHANGED readVars
      BY <1>2, <2>3 DEF readVars, ExamplesAreCallAndResult, Read
    <2> QED BY <1>2, <2>1, <2>2, <2>3 DEF ReadNext
  <1> QED BY <1>1, <1>2, InputInvariance, PTL DEF ReadSpec

(* In every trace of a GPU, busy is the time that some operation covers,   *)
(* and the gaps between the merged blocks are the idle time.               *)
THEOREM TracesAreBusyOrIdle == ReadSpec => []BusyIsTheUnion
  <1>1. ReadInit => BusyIsTheUnion
    BY DEF ReadInit, BusyIsTheUnion, Read
  <1>2. ASSUME InputOK, BusyIsTheUnion, [ReadNext]_readVars PROVE BusyIsTheUnion'
    <2>1. CASE ReadTrace
      <3>1. IsTrace /\ input' = input /\ output' = analyse(input)
        BY <1>2, <2>1 DEF ReadTrace, Reads, InputOK
      <3>2. 2 * MaxTime \in Nat
        BY BoundsAssumption
      <3> QED BY <3>1, <3>2, BusyIsTheTimeCovered DEF BusyIsTheUnion, IsTrace
    <2>2. CASE ReadCompletion \/ ReadPrompt \/ ReadPair
      <3>1. kind' # "trace"
        BY <2>2 DEF ReadCompletion, ReadPrompt, ReadPair, Reads
      <3> QED BY <3>1 DEF BusyIsTheUnion, Read
    <2>3. CASE UNCHANGED readVars
      BY <1>2, <2>3 DEF readVars, BusyIsTheUnion, Read
    <2> QED BY <1>2, <2>1, <2>2, <2>3 DEF ReadNext
  <1> QED BY <1>1, <1>2, InputInvariance, PTL DEF ReadSpec

(* For any two result files the p-value of cmp_paired.py is the share of   *)
(* the swaps of results that are at least as lopsided.                     *)
THEOREM PairsAreTestedExactly == ReadSpec => []PValueIsExact
  <1>1. ReadInit => PValueIsExact
    BY DEF ReadInit, PValueIsExact, Read
  <1>2. ASSUME InputOK, PValueIsExact, [ReadNext]_readVars PROVE PValueIsExact'
    <2>1. CASE ReadPair
      <3>1. IsPair /\ input' = input /\ output' = report(input.a, input.b)
        BY <1>2, <2>1 DEF ReadPair, Reads, InputOK
      <3> QED BY <3>1, PValueIsTheShareOfSwaps DEF PValueIsExact, IsPair
    <2>2. CASE ReadCompletion \/ ReadPrompt \/ ReadTrace
      <3>1. kind' # "pair"
        BY <2>2 DEF ReadCompletion, ReadPrompt, ReadTrace, Reads
      <3> QED BY <3>1 DEF PValueIsExact, Read
    <2>3. CASE UNCHANGED readVars
      BY <1>2, <2>3 DEF readVars, PValueIsExact, Read
    <2> QED BY <1>2, <2>1, <2>2, <2>3 DEF ReadNext
  <1> QED BY <1>1, <1>2, InputInvariance, PTL DEF ReadSpec

------------------------------------------------------------------------------
(* Best-of-n runs: the finished tasks                                      *)

\* The records of finished tasks: each has a candidate, and none is of another task.
IsDone(tasks) ==
    /\ DOMAIN tasks \subseteq Task
    /\ \A t \in DOMAIN tasks : tasks[t] \in Seq(Candidates(t)) /\ tasks[t] # <<>>

\* One cell for each candidate of each task.
Lengths(tasks) == [t \in DOMAIN tasks |-> Len(tasks[t])]
Sampled(tasks) == Area(Lengths(tasks), DOMAIN tasks)

TypeInv ==
    /\ IsDone(file.tasks) /\ file.wall \in Nat
    /\ pc \in {"down", "items", "write", "replace"}
    /\ pc # "down" => k \in Ks /\ limit \in Task
    /\ IsDone(mem)
    /\ i \in Nat /\ (pc # "down" => i >= 1)
    /\ cands \in Seq(Candidates(i))
    /\ prior \in Nat /\ t0 \in Nat /\ now \in Nat /\ busy \in Nat

\* Candidates are only ever those of an item that is not done.
AtWork == cands # <<>> => pc = "items" /\ i <= limit /\ i \notin DOMAIN mem

\* A running process knows every task on file.
Known ==
    pc # "down" => \A t \in DOMAIN file.tasks : t \in DOMAIN mem /\ mem[t] = file.tasks[t]

\* What a process would write now is covered by running time, and so is what is on file.
Timed ==
    /\ pc # "down" => t0 <= now /\ prior + (now - t0) <= busy
    /\ file.wall <= busy

\* What a process would write now covers all it knows of, the candidates of the
\* item it is at included, and what is on file covers what is on file.
Covered ==
    /\ pc # "down" => Cardinality(Sampled(mem)) + Len(cands) <= prior + (now - t0)
    /\ Cardinality(Sampled(file.tasks)) <= file.wall

Inv == TypeInv /\ AtWork /\ Known /\ Timed

------------------------------------------------------------------------------
\* No task is a set of done ones.
LEMMA NoneDone == IsDone(NoTasks) /\ DOMAIN NoTasks = {}
  BY DEF IsDone, NoTasks

\* The empty sequence is a sequence of candidates of any task.
LEMMA NoCandidates == \A t : <<>> \in Seq(Candidates(t))
  BY EmptySeq

\* What Payload keeps of the tasks done.
LEMMA PayloadKeeps ==
    /\ Payload.tasks = Restrict(mem, DOMAIN mem \cap 1..limit)
    /\ Payload.wall = prior + (now - t0)
    /\ DOMAIN Payload.tasks = DOMAIN mem \cap 1..limit
    /\ \A t \in DOMAIN mem \cap 1..limit : Payload.tasks[t] = mem[t]
  BY DEF Payload, Restrict

LEMMA InitInv == Init => Inv
  <1> SUFFICES ASSUME Init PROVE Inv
    OBVIOUS
  <1>1. file.tasks = NoTasks /\ file.wall = 0
    BY DEF Init, NoFile
  <1>2. cands \in Seq(Candidates(i))
    BY NoCandidates DEF Init
  <1>3. TypeInv
    BY <1>1, <1>2, NoneDone DEF Init, TypeInv
  <1>4. AtWork /\ Known /\ Timed
    BY <1>1 DEF Init, AtWork, Known, Timed
  <1> QED BY <1>3, <1>4 DEF Inv

\* A process that is gone satisfies the invariant, whatever the file says of done tasks.
LEMMA DownKeeps ==
    ASSUME Down, IsDone(file'.tasks), file'.wall \in Nat, file'.wall <= busy,
           UNCHANGED <<now, busy>>, TypeInv
    PROVE  Inv'
  <1>1. cands' \in Seq(Candidates(i'))
    BY NoCandidates DEF Down
  <1>2. TypeInv'
    BY <1>1, NoneDone DEF Down, TypeInv
  <1>3. (AtWork /\ Known /\ Timed)'
    BY DEF Down, AtWork, Known, Timed
  <1> QED BY <1>2, <1>3 DEF Inv

LEMMA LaunchKeeps ==
    ASSUME Inv, NEW kk \in Ks, NEW l \in Task, Launch(kk, l)
    PROVE  Inv'
  <1>1. cands' \in Seq(Candidates(i'))
    BY NoCandidates DEF Launch
  <1>2. TypeInv'
    BY <1>1 DEF Inv, TypeInv, Launch
  <1>3. (AtWork /\ Known)'
    BY DEF Launch, AtWork, Known
  <1>4. Timed'
    BY DEF Inv, TypeInv, Launch, Timed
  <1> QED BY <1>2, <1>3, <1>4 DEF Inv

LEMMA SkipKeeps == ASSUME Inv, Skip PROVE Inv'
  <1>1. cands = <<>>
    BY DEF Inv, AtWork, Skip
  <1>2. cands' \in Seq(Candidates(i'))
    BY <1>1, NoCandidates DEF Skip
  <1>3. TypeInv'
    BY <1>2 DEF Inv, TypeInv, Skip
  <1>4. (AtWork /\ Known /\ Timed)'
    BY <1>1 DEF Inv, AtWork, Known, Timed, Skip
  <1> QED BY <1>3, <1>4 DEF Inv

LEMMA SampleKeeps == ASSUME Inv, Sample PROVE Inv'
  <1>1. PICK c \in Candidates(i) : cands' = Append(cands, c)
    BY DEF Sample
  <1>2. cands \in Seq(Candidates(i)) /\ i' = i
    BY DEF Inv, TypeInv, Sample
  <1>3. cands' \in Seq(Candidates(i'))
    BY <1>1, <1>2, AppendProperties
  <1>4. TypeInv'
    BY <1>3 DEF Inv, TypeInv, Sample
  <1>5. (AtWork /\ Known)'
    BY DEF Inv, AtWork, Known, Sample
  <1>6. Timed'
    BY DEF Inv, TypeInv, Timed, Sample
  <1> QED BY <1>4, <1>5, <1>6 DEF Inv

LEMMA FinishedKeeps == ASSUME Inv, Finished PROVE Inv'
  <1>1. k \in Nat \ {0} /\ limit \in Task /\ i \in Task
    BY ConstantsAssumption DEF Inv, TypeInv, Finished, Task
  <1>2. cands # <<>>
    BY <1>1, EmptySeq DEF Finished
  <1>3. i \notin DOMAIN mem
    BY <1>2 DEF Inv, AtWork
  <1>4. DOMAIN mem' = DOMAIN mem \cup {i} /\ mem'[i] = cands
        /\ \A t \in DOMAIN mem : mem'[t] = mem[t]
    BY <1>3 DEF Finished
  <1>5. IsDone(mem')
    BY <1>1, <1>2, <1>4 DEF Inv, TypeInv, IsDone
  <1>6. cands' \in Seq(Candidates(i'))
    BY NoCandidates DEF Finished
  <1>7. TypeInv'
    BY <1>5, <1>6 DEF Inv, TypeInv, Finished
  <1>8. Known'
    BY <1>4 DEF Inv, Known, Finished
  <1>9. (AtWork /\ Timed)'
    BY DEF Inv, AtWork, Timed, Finished
  <1> QED BY <1>7, <1>8, <1>9 DEF Inv

LEMMA LastKeeps == ASSUME Inv, Last PROVE Inv'
  <1>1. i \in Nat /\ limit \in Nat
    BY ConstantsAssumption DEF Inv, TypeInv, Last, Task
  <1>2. cands = <<>>
    BY <1>1 DEF Inv, AtWork, Last
  <1>3. TypeInv'
    BY DEF Inv, TypeInv, Last
  <1>4. (AtWork /\ Known /\ Timed)'
    BY <1>2 DEF Inv, AtWork, Known, Timed, Last
  <1> QED BY <1>3, <1>4 DEF Inv

LEMMA WriteKeeps == ASSUME Inv, Write PROVE Inv'
  <1>1. cands = <<>>
    BY DEF Inv, AtWork, Write
  <1>2. TypeInv'
    BY DEF Inv, TypeInv, Write
  <1>3. (AtWork /\ Known /\ Timed)'
    BY <1>1 DEF Inv, AtWork, Known, Timed, Write
  <1> QED BY <1>2, <1>3 DEF Inv

LEMMA ReplaceKeeps == ASSUME Inv, Replace PROVE Inv'
  <1>1. /\ DOMAIN file'.tasks = DOMAIN mem \cap 1..limit
        /\ \A t \in DOMAIN file'.tasks : file'.tasks[t] = mem[t]
        /\ file'.wall = prior + (now - t0)
    BY PayloadKeeps DEF Replace
  <1>2. IsDone(file'.tasks)
    BY <1>1 DEF Inv, TypeInv, IsDone
  <1>3. file'.wall \in Nat /\ file'.wall <= busy
    BY <1>1 DEF Inv, TypeInv, Timed, Replace
  <1>4. CASE i > limit
    <2>1. Down /\ UNCHANGED <<now, busy>>
      BY <1>4 DEF Replace
    <2> QED BY <1>2, <1>3, <2>1, DownKeeps DEF Inv
  <1>5. CASE ~(i > limit)
    <2>1. cands' = <<>>
      BY <1>5 DEF Inv, AtWork, Replace
    <2>2. cands' \in Seq(Candidates(i'))
      BY <2>1, NoCandidates
    <2>3. /\ pc = "replace" /\ pc' = "items" /\ i' = i + 1
          /\ UNCHANGED <<mem, cands, prior, t0, k, limit, now, busy>>
      BY <1>5 DEF Replace
    <2>4. TypeInv'
      BY <1>2, <1>3, <2>2, <2>3 DEF Inv, TypeInv
    <2>5. AtWork'
      BY <2>1 DEF AtWork
    <2>6. Known'
      BY <1>1, <2>3 DEF Known
    <2>7. Timed'
      BY <1>3, <2>3 DEF Inv, Timed
    <2> QED BY <2>4, <2>5, <2>6, <2>7 DEF Inv
  <1> QED BY <1>4, <1>5

LEMMA KillKeeps == ASSUME Inv, Kill PROVE Inv'
  BY DownKeeps DEF Kill, Inv, TypeInv, Timed

LEMMA StutterKeeps == ASSUME Inv, UNCHANGED vars PROVE Inv'
  BY DEF Inv, TypeInv, AtWork, Known, Timed, vars

LEMMA StepKeeps == Inv /\ [Next]_vars => Inv'
  BY LaunchKeeps, SkipKeeps, SampleKeeps, FinishedKeeps, LastKeeps, WriteKeeps, ReplaceKeeps,
     KillKeeps, StutterKeeps DEF Next

THEOREM Invariance == Spec => []Inv
  BY InitInv, StepKeeps, PTL DEF Spec

------------------------------------------------------------------------------
(* No later invocation, kill or rewrite drops or changes the record of a   *)
(* task on file that --limit still covers: the file is only ever replaced  *)
(* by what the process knows, and that includes what was on file.          *)
THEOREM FinishedAreKept == Spec => FinishedTasksKept
  <1>1. ASSUME Inv, [Next]_vars, NEW t \in DOMAIN file.tasks, t <= limit
        PROVE  t \in DOMAIN file'.tasks /\ file'.tasks[t] = file.tasks[t]
    <2>1. CASE Replace
      <3>1. /\ DOMAIN file'.tasks = DOMAIN mem \cap 1..limit
            /\ \A s \in DOMAIN file'.tasks : file'.tasks[s] = mem[s]
        BY <2>1, PayloadKeeps DEF Replace
      <3>2. \A s \in DOMAIN file.tasks : s \in DOMAIN mem /\ mem[s] = file.tasks[s]
        BY <1>1, <2>1 DEF Inv, Known, Replace
      <3>3. limit \in Task /\ DOMAIN file.tasks \subseteq Task
        BY <1>1, <2>1 DEF Inv, TypeInv, IsDone, Replace
      <3>4. t \in 1..limit
        BY <1>1, <3>3, ConstantsAssumption DEF Task
      <3> QED BY <3>1, <3>2, <3>4
    <2>2. CASE file' = file
      BY <2>2
    <2>3. Replace \/ file' = file
      BY <1>1 DEF Next, vars, Launch, Skip, Sample, Finished, Last, Write, Kill
    <2> QED BY <2>1, <2>2, <2>3
  <1>2. Inv /\ [Next]_vars =>
        [\A t \in DOMAIN file.tasks : t <= limit =>
            t \in DOMAIN file'.tasks /\ file'.tasks[t] = file.tasks[t]]_vars
    BY <1>1
  <1> QED BY <1>2, Invariance, PTL DEF Spec, FinishedTasksKept

------------------------------------------------------------------------------
\* The candidates of a set of done tasks are finitely many, and total_k of them.
LEMMA SampledIsCounted ==
    ASSUME NEW tasks, IsDone(tasks)
    PROVE  /\ IsFiniteSet(Sampled(tasks)) /\ Cardinality(Sampled(tasks)) \in Nat
           /\ Aggregate(tasks).total_k = Cardinality(Sampled(tasks))
  <1> DEFINE f == Lengths(tasks)
  <1>1. IsFiniteSet(DOMAIN tasks)
    <2>1. IsFiniteSet(Task)
      BY ConstantsAssumption, FS_Interval DEF Task
    <2> QED BY <2>1, FS_Subset DEF IsDone
  <1>2. f \in [DOMAIN tasks -> Nat] /\ DOMAIN f = DOMAIN tasks
    BY DEF IsDone, Lengths
  <1>3. Aggregate(tasks).total_k = SumFunction(f)
    BY DEF Aggregate, Lengths
  <1> HIDE DEF f
  <1>4. SumFunction(f) = Cardinality(Area(f, DOMAIN tasks))
    BY <1>1, <1>2, SumIsArea
  <1>5. IsFiniteSet(Area(f, DOMAIN tasks))
    BY <1>1, <1>2, AreaIsFinite
  <1> QED BY <1>3, <1>4, <1>5, FS_CardinalityType DEF Sampled, f

\* Who knows more tasks knows at least as many candidates.
LEMMA SampledGrows ==
    ASSUME NEW tasks, IsDone(tasks), NEW more, IsDone(more),
           DOMAIN tasks \subseteq DOMAIN more, \A t \in DOMAIN tasks : more[t] = tasks[t]
    PROVE  Cardinality(Sampled(tasks)) <= Cardinality(Sampled(more))
  <1>1. Sampled(tasks) \subseteq Sampled(more)
    BY DEF Sampled, Area, Lengths
  <1> QED BY <1>1, SampledIsCounted, FS_Subset

\* A task more adds no more than its candidates.
LEMMA SampledOfOneMore ==
    ASSUME NEW tasks, IsDone(tasks), NEW more, IsDone(more),
           NEW t \in DOMAIN more, DOMAIN more = DOMAIN tasks \cup {t},
           \A u \in DOMAIN tasks : more[u] = tasks[u]
    PROVE  Cardinality(Sampled(more)) <= Cardinality(Sampled(tasks)) + Len(more[t])
  <1> DEFINE Bar == {t} \X (1..Len(more[t]))
  <1>1. Len(more[t]) \in Nat
    BY DEF IsDone
  <1>2. IsFiniteSet(Bar) /\ Cardinality(Bar) = Len(more[t])
    BY <1>1, BarIsCounted
  <1>3. Sampled(more) \subseteq Sampled(tasks) \cup Bar
    <2> SUFFICES ASSUME NEW un \in Sampled(more), un \notin Sampled(tasks) PROVE un \in Bar
      OBVIOUS
    <2>1. un \in (DOMAIN more) \X Nat /\ un[2] \in 1..Len(more[un[1]])
      BY DEF Sampled, Area, Lengths
    <2>2. un[1] \notin DOMAIN tasks
      BY <2>1 DEF Sampled, Area, Lengths
    <2>3. un[1] = t /\ un = <<un[1], un[2]>>
      BY <2>1, <2>2
    <2> QED BY <2>1, <2>3
  <1>4. IsFiniteSet(Sampled(tasks)) /\ Cardinality(Sampled(tasks)) \in Nat
    BY SampledIsCounted
  <1> HIDE DEF Bar
  <1>5. /\ IsFiniteSet(Sampled(tasks) \cup Bar)
        /\ Cardinality(Sampled(tasks) \cup Bar)
           = Cardinality(Sampled(tasks)) + Len(more[t]) - Cardinality(Sampled(tasks) \cap Bar)
    BY <1>2, <1>4, FS_Union
  <1>6. Cardinality(Sampled(tasks) \cap Bar) \in Nat
    BY <1>4, FS_Subset, FS_CardinalityType
  <1>7. Cardinality(Sampled(more)) <= Cardinality(Sampled(tasks) \cup Bar)
    BY <1>3, <1>5, FS_Subset
  <1>8. Cardinality(Sampled(more)) \in Nat
    BY SampledIsCounted
  <1> QED BY <1>1, <1>4, <1>5, <1>6, <1>7, <1>8

\* No task has no candidates.
LEMMA NothingSampled == Cardinality(Sampled(NoTasks)) = 0
  BY NoneDone, AreaOfNothing, FS_EmptySet DEF Sampled

\* Every step keeps what is written, and would be written, covered.
LEMMA CoveredStep == ASSUME Inv, Inv', Covered, [Next]_vars PROVE Covered'
  <1>t. /\ IsDone(file.tasks) /\ IsDone(mem) /\ IsDone(file'.tasks) /\ IsDone(mem')
        /\ cands \in Seq(Candidates(i)) /\ Len(cands) \in Nat
        /\ prior \in Nat /\ t0 \in Nat /\ now \in Nat /\ file.wall \in Nat
    BY DEF Inv, TypeInv
  <1>c. Cardinality(Sampled(mem)) \in Nat /\ Cardinality(Sampled(file.tasks)) \in Nat
    BY <1>t, SampledIsCounted
  <1>n. Len(<<>>) = 0
    OBVIOUS
  <1>1. ASSUME NEW kk \in Ks, NEW l \in Task, Launch(kk, l) PROVE Covered'
    <2>1. /\ mem' = file.tasks /\ UNCHANGED file /\ Len(cands') = 0
          /\ prior' = file.wall /\ now' = t0' /\ t0' \in Nat
      BY <1>1, <1>t DEF Launch
    <2>2. Cardinality(Sampled(file.tasks)) + 0 <= file.wall + (t0' - t0')
      BY <1>c, <1>t, <2>1 DEF Covered
    <2> QED BY <2>1, <2>2 DEF Covered
  <1>2. CASE Skip
    BY <1>2 DEF Covered, Skip
  <1>3. CASE Sample
    <2>1. PICK c \in Candidates(i) : cands' = Append(cands, c)
      BY <1>3 DEF Sample
    <2>2. Len(cands') = Len(cands) + 1
      BY <1>t, <2>1, AppendProperties
    <2>3. Cardinality(Sampled(mem)) + Len(cands) <= prior + (now - t0)
      BY <1>3 DEF Covered, Sample
    <2>4. Cardinality(Sampled(mem)) + Len(cands') <= prior + (now + 1 - t0)
      BY <1>c, <1>t, <2>2, <2>3
    <2>5. UNCHANGED <<file, mem, prior, t0>> /\ now' = now + 1
      BY <1>3 DEF Sample
    <2>6. Cardinality(Sampled(mem')) + Len(cands') <= prior' + (now' - t0')
      <3>1. mem' = mem /\ prior' = prior /\ t0' = t0
        BY <2>5
      <3>2. Cardinality(Sampled(mem')) = Cardinality(Sampled(mem))
        BY <3>1
      <3> QED BY <1>c, <1>t, <2>4, <2>5, <3>1, <3>2
    <2> QED BY <2>5, <2>6 DEF Covered
  <1>4. CASE Finished
    <2>1. k \in Nat \ {0} /\ Len(cands) = k /\ cands # <<>>
      BY <1>4, EmptySeq, ConstantsAssumption DEF Inv, TypeInv, Finished
    <2>2. i \notin DOMAIN mem
      BY <2>1 DEF Inv, AtWork
    <2>3. /\ DOMAIN mem' = DOMAIN mem \cup {i} /\ mem'[i] = cands
          /\ \A t \in DOMAIN mem : mem'[t] = mem[t]
      BY <1>4, <2>2 DEF Finished
    <2>4. Cardinality(Sampled(mem')) <= Cardinality(Sampled(mem)) + Len(cands)
      BY <1>t, <2>3, SampledOfOneMore
    <2>5. Cardinality(Sampled(mem)) + Len(cands) <= prior + (now - t0)
      BY <1>4 DEF Covered, Finished
    <2>6. Cardinality(Sampled(mem')) \in Nat
      BY <1>t, SampledIsCounted
    <2>7. Cardinality(Sampled(mem')) + 0 <= prior + (now - t0)
      BY <1>c, <1>t, <2>4, <2>5, <2>6
    <2>8. UNCHANGED <<file, prior, t0, now>> /\ Len(cands') = 0
      BY <1>4, <1>n DEF Finished
    <2> QED BY <2>7, <2>8 DEF Covered
  <1>5. CASE Last
    BY <1>5 DEF Covered, Last
  <1>6. CASE Write
    BY <1>6 DEF Covered, Write
  <1>7. CASE Replace
    <2>1. /\ DOMAIN file'.tasks = DOMAIN mem \cap 1..limit
          /\ \A t \in DOMAIN file'.tasks : file'.tasks[t] = mem[t]
          /\ file'.wall = prior + (now - t0)
      BY <1>7, PayloadKeeps DEF Replace
    <2>2. Cardinality(Sampled(file'.tasks)) <= Cardinality(Sampled(mem))
      BY <1>t, <2>1, SampledGrows
    <2>3. cands = <<>> /\ pc # "down"
      BY <1>7 DEF Inv, AtWork, Replace
    <2>4. Cardinality(Sampled(mem)) <= prior + (now - t0)
      BY <1>c, <1>n, <1>t, <2>3 DEF Covered
    <2>5. Cardinality(Sampled(file'.tasks)) \in Nat
      BY <1>t, SampledIsCounted
    <2>6. Cardinality(Sampled(file'.tasks)) <= file'.wall
      BY <1>c, <1>t, <2>1, <2>2, <2>4, <2>5
    <2>7. pc' = "down" \/ UNCHANGED <<mem, cands, prior, t0, now>>
      BY <1>7 DEF Replace, Down
    <2>8. pc' # "down" => Cardinality(Sampled(mem')) + Len(cands') <= prior' + (now' - t0')
      <3>1. Cardinality(Sampled(mem)) + Len(cands) <= prior + (now - t0)
        BY <2>3 DEF Covered
      <3>2. CASE UNCHANGED <<mem, cands, prior, t0, now>>
        BY <3>1, <3>2
      <3> QED BY <2>7, <3>2
    <2> QED BY <2>6, <2>8 DEF Covered
  <1>8. CASE Kill
    BY <1>8 DEF Covered, Kill, Down
  <1>9. CASE UNCHANGED vars
    BY <1>9 DEF Covered, vars
  <1> QED BY <1>1, <1>2, <1>3, <1>4, <1>5, <1>6, <1>7, <1>8, <1>9 DEF Next

(* wall_time_s adds up over the invocations: it covers the sampling of     *)
(* every candidate on file and is no longer than the invocations ran,      *)
(* however often the file is rewritten, resumed and a process killed.      *)
THEOREM TimeAddsUp == Spec => []WallTimeHonest
  <1>1. Init => Covered
    <2> SUFFICES ASSUME Init PROVE Covered
      OBVIOUS
    <2>1. file.tasks = NoTasks /\ file.wall = 0 /\ pc = "down"
      BY DEF Init, NoFile
    <2> QED BY <2>1, NothingSampled DEF Covered
  <1>2. Inv /\ Inv' /\ Covered /\ [Next]_vars => Covered'
    BY CoveredStep
  <1>3. Inv /\ Covered => WallTimeHonest
    <2> SUFFICES ASSUME Inv, Covered PROVE WallTimeHonest
      OBVIOUS
    <2>1. IsDone(file.tasks)
      BY DEF Inv, TypeInv
    <2>2. SamplingIsCovered
      BY <2>1, SampledIsCounted DEF Covered, SamplingIsCovered
    <2>3. WallWithinRuns
      BY DEF Inv, Timed, WallWithinRuns
    <2> QED BY <2>2, <2>3 DEF WallTimeHonest
  <1> QED BY <1>1, <1>2, <1>3, Invariance, PTL DEF Spec

------------------------------------------------------------------------------
\* The selected candidate is one of the candidates.
LEMMA SelectedIsOne ==
    ASSUME NEW t, NEW c \in Seq(Candidates(t)), c # <<>>
    PROVE  Selected(c) \in DOMAIN c
  <1> DEFINE passing == {n \in DOMAIN c : "visible" \in c[n]}
  <1>1. DOMAIN c = 1..Len(c) /\ Len(c) \in Nat /\ Len(c) # 0
    BY EmptySeq
  <1>2. CASE passing = {}
    BY <1>1, <1>2 DEF Selected
  <1>3. CASE passing # {}
    <2>1. \E n \in passing : \A o \in passing : n <= o
      <3>1. passing \subseteq Nat
        BY <1>1
      <3> HIDE DEF passing
      <3> QED BY <1>3, <3>1, LeastExists
    <2>2. Selected(c) = CHOOSE n \in passing : \A o \in passing : n <= o
      BY <1>3 DEF Selected
    <2> QED BY <2>1, <2>2
  <1> QED BY <1>2, <1>3

\* A task whose selected candidate passes the hidden tests has one that does.
LEMMA SelectedAmongAny ==
    ASSUME NEW tasks, IsDone(tasks)
    PROVE  SolvedBySelected(tasks) \subseteq SolvedByAny(tasks)
  <1> SUFFICES ASSUME NEW t \in SolvedBySelected(tasks) PROVE t \in SolvedByAny(tasks)
    OBVIOUS
  <1> DEFINE c == tasks[t]
             hits == {n \in DOMAIN c : "hidden" \in c[n]}
  <1>1. t \in DOMAIN tasks /\ "hidden" \in c[Selected(c)]
    BY DEF SolvedBySelected
  <1>2. c \in Seq(Candidates(t)) /\ c # <<>>
    BY <1>1 DEF IsDone
  <1>3. Selected(c) \in hits
    BY <1>1, <1>2, SelectedIsOne
  <1>4. IsFiniteSet(hits)
    <2>1. DOMAIN c = 1..Len(c) /\ Len(c) \in Nat
      BY <1>2
    <2>2. IsFiniteSet(DOMAIN c)
      BY <2>1, FS_Interval
    <2> QED BY <2>2, FS_Subset
  <1>5. Cardinality(hits) \in Nat /\ Cardinality(hits) # 0
    BY <1>3, <1>4, FS_EmptySet, FS_CardinalityType
  <1>6. HiddenPassCount(c) > 0
    BY <1>5 DEF HiddenPassCount
  <1> QED BY <1>1, <1>6 DEF SolvedByAny

\* Where passing the hidden tests means passing the visible ones, a first
\* candidate that passes the hidden ones is the selected one.
LEMMA FirstAmongSelected ==
    ASSUME NEW tasks, IsDone(tasks),
           \A t \in DOMAIN tasks : \A n \in DOMAIN tasks[t] :
               t \in Examples /\ "hidden" \in tasks[t][n] => "visible" \in tasks[t][n]
    PROVE  {t \in DOMAIN tasks : "hidden" \in tasks[t][1]} \subseteq SolvedBySelected(tasks)
  <1> SUFFICES ASSUME NEW t \in DOMAIN tasks, "hidden" \in tasks[t][1]
               PROVE  t \in SolvedBySelected(tasks)
    OBVIOUS
  <1> DEFINE c == tasks[t]
             passing == {n \in DOMAIN c : "visible" \in c[n]}
  <1>1. c \in Seq(Candidates(t)) /\ c # <<>>
    BY DEF IsDone
  <1>2. DOMAIN c = 1..Len(c) /\ 1 \in DOMAIN c
    BY <1>1, EmptySeq
  <1>3. Selected(c) = 1
    <2>1. CASE t \in Examples
      <3>1. 1 \in passing
        BY <1>2, <2>1
      <3>2. Selected(c) = CHOOSE n \in passing : \A o \in passing : n <= o
        BY <3>1 DEF Selected
      <3>3. \A o \in passing : o \in Int /\ 1 <= o
        BY <1>1, <1>2
      <3>4. Selected(c) \in passing /\ \A o \in passing : Selected(c) <= o
        BY <3>1, <3>2, <3>3
      <3> QED BY <3>1, <3>3, <3>4
    <2>2. CASE t \notin Examples
      <3>1. \A n \in DOMAIN c : c[n] \in Candidates(t)
        BY <1>1
      <3>2. passing = {}
        BY <2>2, <3>1 DEF Candidates
      <3> QED BY <3>2 DEF Selected
    <2> QED BY <2>1, <2>2
  <1> QED BY <1>3 DEF SolvedBySelected

\* Sets of tasks on file are finite, and ordered by inclusion as by size.
LEMMA TasksAreCounted ==
    ASSUME NEW tasks, IsDone(tasks), NEW A, NEW B, A \subseteq B, B \subseteq DOMAIN tasks
    PROVE  Cardinality(A) <= Cardinality(B)
  <1>1. IsFiniteSet(Task)
    BY ConstantsAssumption, FS_Interval DEF Task
  <1>2. IsFiniteSet(B)
    BY <1>1, FS_Subset DEF IsDone
  <1> QED BY <1>2, FS_Subset

\* The score of selecting by visible tests is never above pass@k.
LEMMA SelectionIsNoOracle ==
    ASSUME IsDone(file.tasks)
    PROVE  SelectedIsAtMostAny
  <1>1. SolvedByAny(file.tasks) \subseteq DOMAIN file.tasks
    BY DEF SolvedByAny
  <1>2. Cardinality(SolvedBySelected(file.tasks)) <= Cardinality(SolvedByAny(file.tasks))
    BY <1>1, SelectedAmongAny, TasksAreCounted
  <1> QED BY <1>2 DEF SelectedIsAtMostAny, Aggregate

\* Where code that passes the hidden tests passes the visible ones, it is not
\* below that of the first candidate of each task.
LEMMA SelectionLosesNothing ==
    ASSUME IsDone(file.tasks)
    PROVE  SelectedIsAtLeastFirst
  <1> SUFFICES ASSUME \A t \in DOMAIN file.tasks : \A n \in DOMAIN file.tasks[t] :
                          t \in Examples /\ "hidden" \in file.tasks[t][n]
                          => "visible" \in file.tasks[t][n]
               PROVE  Cardinality({t \in DOMAIN file.tasks : "hidden" \in file.tasks[t][1]})
                      <= Aggregate(file.tasks).selected
    BY DEF SelectedIsAtLeastFirst
  <1>1. {t \in DOMAIN file.tasks : "hidden" \in file.tasks[t][1]}
        \subseteq SolvedBySelected(file.tasks)
    BY FirstAmongSelected
  <1>2. SolvedBySelected(file.tasks) \subseteq DOMAIN file.tasks
    BY DEF SolvedBySelected
  <1>3. Cardinality({t \in DOMAIN file.tasks : "hidden" \in file.tasks[t][1]})
        <= Cardinality(SolvedBySelected(file.tasks))
    BY <1>1, <1>2, TasksAreCounted
  <1> QED BY <1>3 DEF Aggregate

\* A task has no more candidates that pass than candidates.
LEMMA PassesAreBounded ==
    ASSUME NEW t, NEW c \in Seq(Candidates(t))
    PROVE  HiddenPassCount(c) \in Nat /\ HiddenPassCount(c) <= Len(c)
  <1> DEFINE hits == {n \in DOMAIN c : "hidden" \in c[n]}
  <1>1. Len(c) \in Nat /\ hits \subseteq 1..Len(c)
    OBVIOUS
  <1>2. IsFiniteSet(1..Len(c)) /\ Cardinality(1..Len(c)) = Len(c)
    BY <1>1, FS_Interval
  <1> HIDE DEF hits
  <1>3. IsFiniteSet(hits) /\ Cardinality(hits) <= Len(c) /\ Cardinality(hits) \in Nat
    BY <1>1, <1>2, FS_Subset, FS_CardinalityType
  <1> QED BY <1>3 DEF HiddenPassCount, hits

\* pass@1 is at most pass@k where every task has len candidates: the hits lie
\* in the columns of the solved tasks, and the candidates fill all columns.
LEMMA OneOfMany ==
    ASSUME IsDone(file.tasks)
    PROVE  EqualKs => MeanIsAtMostAny
  <1> DEFINE c == file.tasks
             a == Aggregate(c)
  <1> SUFFICES ASSUME \A s, t \in DOMAIN c : Len(c[s]) = Len(c[t])
               PROVE  a.hidden * a.n_tasks <= a.any * a.total_k
    BY DEF EqualKs, MeanIsAtMostAny
  <1>1. IsFiniteSet(DOMAIN c)
    <2>1. IsFiniteSet(Task)
      BY ConstantsAssumption, FS_Interval DEF Task
    <2> QED BY <2>1, FS_Subset DEF IsDone
  <1>2. PICK len \in Nat : \A t \in DOMAIN c : Len(c[t]) = len
    <2>1. CASE DOMAIN c = {}
      BY <2>1
    <2>2. CASE DOMAIN c # {}
      <3>1. PICK s \in DOMAIN c : TRUE
        BY <2>2
      <3>2. Len(c[s]) \in Nat
        BY <3>1 DEF IsDone
      <3> QED BY <3>1, <3>2
    <2> QED BY <2>1, <2>2
  <1>3. IsFiniteSet(1..len) /\ Cardinality(1..len) = len
    BY <1>2, FS_Interval
  <1>4. a.total_k = Cardinality(DOMAIN c) * len
    <2>1. Sampled(c) = (DOMAIN c) \X (1..len)
      <3>1. ASSUME NEW un \in Sampled(c) PROVE un \in (DOMAIN c) \X (1..len)
        <4>1. un \in (DOMAIN c) \X Nat /\ un[2] \in 1..Len(c[un[1]])
          BY DEF Sampled, Area, Lengths
        <4> QED BY <1>2, <4>1
      <3>2. ASSUME NEW un \in (DOMAIN c) \X (1..len) PROVE un \in Sampled(c)
        <4>1. un[1] \in DOMAIN c /\ un[2] \in 1..len /\ un = <<un[1], un[2]>>
          OBVIOUS
        <4>2. un \in (DOMAIN c) \X Nat /\ un[2] \in 1..Len(c[un[1]])
          BY <1>2, <4>1
        <4> QED BY <4>1, <4>2 DEF Sampled, Area, Lengths
      <3> QED BY <3>1, <3>2
    <2>2. Cardinality((DOMAIN c) \X (1..len)) = Cardinality(DOMAIN c) * len
      BY <1>1, <1>3, FS_Product
    <2> QED BY <2>1, <2>2, SampledIsCounted
  <1>5. a.hidden \in Nat /\ a.hidden <= Cardinality(SolvedByAny(c)) * len
    <2> DEFINE h == [t \in DOMAIN c |-> HiddenPassCount(c[t])]
    <2>1. h \in [DOMAIN c -> Nat] /\ DOMAIN h = DOMAIN c
      BY PassesAreBounded DEF IsDone
    <2>2. \A t \in DOMAIN c : h[t] <= len
      BY <1>2, PassesAreBounded DEF IsDone
    <2>3. \A t \in DOMAIN c : h[t] > 0 => t \in SolvedByAny(c)
      BY DEF SolvedByAny
    <2>4. a.hidden = SumFunction(h)
      BY DEF Aggregate
    <2> HIDE DEF h
    <2>5. SumFunction(h) = Cardinality(Area(h, DOMAIN c)) /\ IsFiniteSet(Area(h, DOMAIN c))
      BY <1>1, <2>1, SumIsArea, AreaIsFinite
    <2>6. Area(h, DOMAIN c) \subseteq SolvedByAny(c) \X (1..len)
      <3> SUFFICES ASSUME NEW un \in Area(h, DOMAIN c)
                   PROVE  un \in SolvedByAny(c) \X (1..len)
        OBVIOUS
      <3>1. un \in (DOMAIN c) \X Nat /\ un[2] \in 1..h[un[1]]
        BY DEF Area
      <3>2. h[un[1]] \in Nat /\ h[un[1]] <= len
        BY <2>1, <2>2, <3>1
      <3>3. un[2] \in 1..len /\ h[un[1]] > 0
        BY <1>2, <3>1, <3>2
      <3> QED BY <2>3, <3>1, <3>3
    <2>7. IsFiniteSet(SolvedByAny(c))
      BY <1>1, FS_Subset DEF SolvedByAny
    <2>8. /\ IsFiniteSet(SolvedByAny(c) \X (1..len))
          /\ Cardinality(SolvedByAny(c) \X (1..len)) = Cardinality(SolvedByAny(c)) * len
      BY <1>3, <2>7, FS_Product
    <2>9. Cardinality(Area(h, DOMAIN c)) <= Cardinality(SolvedByAny(c) \X (1..len))
      BY <2>6, <2>8, FS_Subset
    <2> QED BY <2>4, <2>5, <2>8, <2>9, FS_CardinalityType
  <1>6. Cardinality(DOMAIN c) \in Nat /\ Cardinality(SolvedByAny(c)) \in Nat
    BY <1>1, FS_Subset, FS_CardinalityType DEF SolvedByAny
  <1>7. a.n_tasks = Cardinality(DOMAIN c) /\ a.any = Cardinality(SolvedByAny(c))
    BY DEF Aggregate
  <1>8. ASSUME NEW x \in Nat, NEW n \in Nat, NEW m \in Nat, x <= m * len
        PROVE  x * n <= m * (n * len)
    <2>1. x * n <= (m * len) * n
      BY <1>8
    <2> QED BY <2>1
  <1> QED BY <1>4, <1>5, <1>6, <1>7, <1>8

(* Selecting by visible tests lies between the first candidate and the     *)
(* best one, whatever mixture of invocations, kills and values of --k the  *)
(* tasks on file come from; pass@1 is at most pass@k of any file whose     *)
(* tasks all have as many candidates (with others it can be above it).     *)
THEOREM ScoresAreOrdered == Spec => []ScoresOrdered
  <1>1. Inv => ScoresOrdered
    <2> SUFFICES ASSUME Inv PROVE ScoresOrdered
      OBVIOUS
    <2>1. IsDone(file.tasks)
      BY DEF Inv, TypeInv
    <2> QED BY <2>1, SelectionIsNoOracle, SelectionLosesNothing, OneOfMany DEF ScoresOrdered
  <1> QED BY <1>1, Invariance, PTL

==============================================================================
