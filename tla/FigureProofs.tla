---------------------------- MODULE FigureProofs -----------------------------
(***************************************************************************)
(* The figures the pages show, for any disks and backups, and for any rows *)
(* and events.                                                             *)
(*                                                                         *)
(* A sum over a finite set is its members' in any order; parts told apart  *)
(* by where their members go add up to the whole; the ranks of an order    *)
(* are the numbers from nought on, so pages are full.  Of the health page  *)
(* the bytes are sums by filesystem.  Of the read API every breakdown is a *)
(* set of groups that part the rows, addresses, events or sessions it is   *)
(* of, once what is stored has ids of its own (ReadInv).                   *)
(***************************************************************************)
EXTENDS HealthPage, ReadApi, FiniteSetTheorems, TLAPS

-----------------------------------------------------------------------------
(* Sums over a finite set.                                                 *)

\* The sum of the weights of a set.
Sum(w, S) == MapThenSumSet(LAMBDA x : w[x], S)

\* The recursion by which the sum of a set is that of a subset of it.
Solves(w, S, g) ==
  g = [s \in SUBSET S |->
         IF s = {} THEN 0 ELSE w[CHOOSE x \in s : TRUE] + g[s \ {CHOOSE x \in s : TRUE}]]

\* A property that some finite set lacks is lacked by one none of whose proper
\* subsets does.
LEMMA LeastBad ==
  ASSUME NEW S, IsFiniteSet(S), NEW Bad, Bad \subseteq SUBSET S, Bad # {}
  PROVE  \E T \in Bad : IsFiniteSet(T) /\ \A x \in T : T \ {x} \notin Bad
<1>1. FiniteSubsetsOf(S) = SUBSET S
  BY FS_FiniteSubsetsOfFinite
<1>2. PICK T \in Bad : \A U \in Bad : ~(<<U, T>> \in StrictSubsetOrdering(S))
  BY <1>1, FS_StrictSubsetOrderingWellFounded, WFMin
<1>3. ASSUME NEW x \in T, T \ {x} \in Bad PROVE FALSE
  <2>1. T \ {x} \in SUBSET S /\ T \in SUBSET S /\ T \ {x} \subseteq T /\ T \ {x} # T
    OBVIOUS
  <2>2. <<T \ {x}, T>> \in StrictSubsetOrdering(S)
    BY <2>1 DEF StrictSubsetOrdering
  <2> QED
    BY <1>2, <1>3, <2>2
<1>4. IsFiniteSet(T)
  BY FS_Subset
<1> QED
  BY <1>3, <1>4

\* Two solutions agree where both are defined.
LEMMA SolutionsAgree ==
  ASSUME NEW S, IsFiniteSet(S), NEW T, NEW w, NEW g, Solves(w, S, g), NEW h, Solves(w, T, h)
  PROVE  \A s : s \subseteq S /\ s \subseteq T => g[s] = h[s]
<1> DEFINE Bad == {s \in SUBSET S : s \subseteq T /\ g[s] # h[s]}
<1> SUFFICES ASSUME Bad # {} PROVE FALSE
  OBVIOUS
<1>1. PICK s \in Bad : \A x \in s : s \ {x} \notin Bad
  <2>1. Bad \subseteq SUBSET S
    OBVIOUS
  <2> HIDE DEF Bad
  <2> QED
    BY <2>1, LeastBad
<1>2. s \in SUBSET S /\ s \in SUBSET T /\ g[s] # h[s]
  BY <1>1
<1>3. CASE s = {}
  <2>1. g[s] = 0 /\ h[s] = 0
    BY <1>2, <1>3 DEF Solves
  <2> QED
    BY <1>2, <2>1
<1>4. CASE s # {}
  <2>1. PICK x : x = CHOOSE y \in s : TRUE
    OBVIOUS
  <2>2. x \in s
    BY <1>4, <2>1
  <2>3. g[s \ {x}] = h[s \ {x}]
    BY <1>1, <1>2, <2>2
  <2>4. g[s] = w[x] + g[s \ {x}] /\ h[s] = w[x] + h[s \ {x}]
    BY <1>2, <1>4, <2>1 DEF Solves
  <2> QED
    BY <1>2, <2>3, <2>4
<1> QED
  BY <1>3, <1>4

\* Every finite set has one.
LEMMA SolutionExists ==
  ASSUME NEW S, IsFiniteSet(S), NEW w
  PROVE  \E g : Solves(w, S, g)
<1> DEFINE Bad == {s \in SUBSET S : ~ \E g : Solves(w, s, g)}
<1> SUFFICES ASSUME Bad # {} PROVE FALSE
  OBVIOUS
<1>1. PICK T \in Bad : IsFiniteSet(T) /\ \A x \in T : T \ {x} \notin Bad
  <2>1. Bad \subseteq SUBSET S
    OBVIOUS
  <2> HIDE DEF Bad
  <2> QED
    BY <2>1, LeastBad
<1>2. T \in SUBSET S /\ \A g : ~Solves(w, T, g)
  BY <1>1
<1>3. \A x \in T : \E g : Solves(w, T \ {x}, g)
  BY <1>1
<1> HIDE DEF Bad
<1> DEFINE Choice(s) == CHOOSE x \in s : TRUE
           Part(x) == CHOOSE g : Solves(w, T \ {x}, g)
           Missing(s) == CHOOSE x \in T : x \notin s
           \* a proper subset takes its value from a part that has all of it
           Value(s) == Part(Missing(s))[s]
           whole == [s \in SUBSET T |->
                       IF s = T THEN (IF T = {} THEN 0 ELSE w[Choice(T)] + Value(T \ {Choice(T)}))
                       ELSE Value(s)]
<1>4. \A x \in T : Solves(w, T \ {x}, Part(x))
  BY <1>3
<1>5. ASSUME NEW s \in SUBSET T, s # T
      PROVE  Missing(s) \in T /\ s \subseteq T \ {Missing(s)}
  BY <1>5
<1>6. ASSUME NEW s \in SUBSET T, NEW x \in T, x \notin s
      PROVE  Value(s) = Part(x)[s]
  <2>1. s # T
    BY <1>6
  <2>2. PICK y : y = Missing(s)
    OBVIOUS
  <2>3. y \in T /\ s \subseteq T \ {y} /\ s \subseteq T \ {x}
    BY <1>5, <1>6, <2>1, <2>2
  <2>4. Solves(w, T \ {y}, Part(y)) /\ Solves(w, T \ {x}, Part(x))
    BY <1>4, <2>3
  <2>5. IsFiniteSet(T \ {y})
    BY <1>1, FS_Subset
  <2> HIDE DEF Part, Missing
  <2>6. Part(y)[s] = Part(x)[s]
    BY <2>3, <2>4, <2>5, SolutionsAgree
  <2> QED
    BY <2>2, <2>6
<1> HIDE DEF Part, Missing, Value
<1>7. ASSUME NEW s \in SUBSET T
      PROVE  whole[s] = IF s = {} THEN 0 ELSE w[Choice(s)] + whole[s \ {Choice(s)}]
  <2> DEFINE c == Choice(s)
  <2>1. s # {} => c \in s /\ s \ {c} \in SUBSET T /\ s \ {c} # T
    OBVIOUS
  <2>2. CASE s = T
    BY <2>1, <2>2
  <2>3. CASE s # T
    <3>1. PICK x \in T : x \notin s
      BY <2>3
    <3>2. whole[s] = Part(x)[s]
      BY <1>6, <2>3, <3>1
    <3>3. Solves(w, T \ {x}, Part(x)) /\ s \in SUBSET (T \ {x})
      BY <1>4, <3>1
    <3>4. Part(x)[s] = IF s = {} THEN 0 ELSE w[c] + Part(x)[s \ {c}]
      BY <3>3 DEF Solves
    <3>5. s # {} => whole[s \ {c}] = Part(x)[s \ {c}]
      <4> SUFFICES ASSUME s # {} PROVE whole[s \ {c}] = Part(x)[s \ {c}]
        OBVIOUS
      <4>1. s \ {c} \in SUBSET T /\ s \ {c} # T /\ x \notin s \ {c}
        BY <2>1, <3>1
      <4>2. Value(s \ {c}) = Part(x)[s \ {c}]
        BY <1>6, <3>1, <4>1
      <4> QED
        BY <4>1, <4>2
    <3> HIDE DEF c, whole
    <3> QED
      BY <3>2, <3>4, <3>5 DEF c
  <2> QED
    BY <2>2, <2>3
<1>8. Solves(w, T, whole)
  <2>1. whole = [s \in SUBSET T |-> whole[s]]
    OBVIOUS
  <2> HIDE DEF whole
  <2> QED
    BY <1>7, <2>1 DEF Solves
<1> QED
  BY <1>2, <1>8

\* The sum is what any solution says.
LEMMA SumIsSolved ==
  ASSUME NEW S, IsFiniteSet(S), NEW w, NEW T, NEW g, Solves(w, T, g), S \subseteq T
  PROVE  Sum(w, S) = g[S]
<1> DEFINE Eq(h) == h = [s \in SUBSET S |->
                           IF s = {} THEN 0
                           ELSE LET x == CHOOSE x \in s : TRUE IN w[x] + h[s \ {x}]]
<1>1. \A h : Eq(h) <=> Solves(w, S, h)
  BY DEF Solves
<1>2. Sum(w, S) = (CHOOSE f : Eq(f))[S]
  BY DEF Sum, MapThenSumSet, MapThenFoldSet
<1> HIDE DEF Eq
<1>3. PICK h : h = (CHOOSE f : Eq(f)) /\ Eq(h)
  BY <1>1, SolutionExists
<1>4. Solves(w, S, h)
  BY <1>1, <1>3
<1>5. h[S] = g[S]
  BY <1>4, SolutionsAgree
<1> QED
  BY <1>2, <1>3, <1>5

\* Nothing weighs nothing, and a set weighs its chosen member and the rest.
LEMMA SumUnfolds ==
  ASSUME NEW S, IsFiniteSet(S), NEW w
  PROVE  /\ Sum(w, {}) = 0
         /\ S # {} => \E x \in S : Sum(w, S) = w[x] + Sum(w, S \ {x})
<1>1. PICK g : Solves(w, S, g)
  BY SolutionExists
<1>2. \A s \in SUBSET S : IsFiniteSet(s) /\ Sum(w, s) = g[s]
  BY <1>1, SumIsSolved, FS_Subset
<1>3. Sum(w, {}) = 0
  BY <1>1, <1>2 DEF Solves
<1>4. ASSUME S # {} PROVE \E x \in S : Sum(w, S) = w[x] + Sum(w, S \ {x})
  <2>1. PICK x : x = CHOOSE y \in S : TRUE
    OBVIOUS
  <2>2. x \in S /\ S \in SUBSET S /\ S \ {x} \in SUBSET S
    BY <1>4, <2>1
  <2>3. g[S] = w[x] + g[S \ {x}]
    BY <1>1, <1>4, <2>1, <2>2 DEF Solves
  <2> QED
    BY <1>2, <2>2, <2>3
<1> QED
  BY <1>3, <1>4

\* A set of natural weights weighs a natural number.
LEMMA SumIsNatural ==
  ASSUME NEW S, IsFiniteSet(S), NEW w, \A x \in S : w[x] \in Nat
  PROVE  Sum(w, S) \in Nat
<1> DEFINE Bad == {s \in SUBSET S : Sum(w, s) \notin Nat}
<1> SUFFICES ASSUME Bad # {} PROVE FALSE
  OBVIOUS
<1>1. PICK T \in Bad : IsFiniteSet(T) /\ \A x \in T : T \ {x} \notin Bad
  <2>1. Bad \subseteq SUBSET S
    OBVIOUS
  <2> HIDE DEF Bad
  <2> QED
    BY <2>1, LeastBad
<1>2. T \in SUBSET S /\ Sum(w, T) \notin Nat /\ \A x \in T : Sum(w, T \ {x}) \in Nat
  BY <1>1
<1> HIDE DEF Bad
<1>3. T # {}
  <2>1. Sum(w, {}) = 0
    BY <1>1, SumUnfolds
  <2> QED
    BY <1>2, <2>1
<1>4. PICK x \in T : Sum(w, T) = w[x] + Sum(w, T \ {x})
  BY <1>1, <1>3, SumUnfolds
<1> QED
  BY <1>2, <1>4

\* It weighs as much as any of its members and the rest.
LEMMA SumWithout ==
  ASSUME NEW S, IsFiniteSet(S), NEW w, \A x \in S : w[x] \in Nat, NEW y \in S
  PROVE  Sum(w, S) = w[y] + Sum(w, S \ {y})
<1> DEFINE Bad == {s \in SUBSET S : \E z \in s : Sum(w, s) # w[z] + Sum(w, s \ {z})}
<1> SUFFICES ASSUME Bad # {} PROVE FALSE
  OBVIOUS
<1>1. PICK T \in Bad : IsFiniteSet(T) /\ \A x \in T : T \ {x} \notin Bad
  <2>1. Bad \subseteq SUBSET S
    OBVIOUS
  <2> HIDE DEF Bad
  <2> QED
    BY <2>1, LeastBad
<1>2. PICK z \in T : Sum(w, T) # w[z] + Sum(w, T \ {z})
  BY <1>1
<1>3. \A x \in T : \A u \in T \ {x} : Sum(w, T \ {x}) = w[u] + Sum(w, (T \ {x}) \ {u})
  BY <1>1
<1>4. T \in SUBSET S
  BY <1>1
<1> HIDE DEF Bad
<1>5. PICK x \in T : Sum(w, T) = w[x] + Sum(w, T \ {x})
  BY <1>1, SumUnfolds
<1>6. CASE x = z
  BY <1>2, <1>5, <1>6
<1>7. CASE x # z
  <2>1. /\ Sum(w, T \ {x}) = w[z] + Sum(w, (T \ {x}) \ {z})
        /\ Sum(w, T \ {z}) = w[x] + Sum(w, (T \ {z}) \ {x})
    BY <1>3, <1>7
  <2>2. PICK U : U = (T \ {x}) \ {z} /\ U = (T \ {z}) \ {x}
    OBVIOUS
  <2>3. Sum(w, U) \in Nat
    <3>1. IsFiniteSet(U) /\ \A u \in U : w[u] \in Nat
      BY <1>1, <1>4, <2>2, FS_Subset
    <3> QED
      BY <3>1, SumIsNatural
  <2>4. w[x] \in Nat /\ w[z] \in Nat
    BY <1>4
  <2>5. Sum(w, T) = w[x] + (w[z] + Sum(w, U)) /\ Sum(w, T \ {z}) = w[x] + Sum(w, U)
    BY <1>5, <2>1, <2>2
  <2>6. w[x] + (w[z] + Sum(w, U)) = w[z] + (w[x] + Sum(w, U))
    BY <2>3, <2>4
  <2> QED
    BY <1>2, <2>5, <2>6
<1> QED
  BY <1>6, <1>7

\* Two sets apart weigh together what each of them does.
LEMMA SumOfParts ==
  ASSUME NEW S, IsFiniteSet(S), NEW w, \A x \in S : w[x] \in Nat,
         NEW A \in SUBSET S, NEW B \in SUBSET S, A \cap B = {}
  PROVE  Sum(w, A \cup B) = Sum(w, A) + Sum(w, B)
<1> DEFINE Bad == {s \in SUBSET B : Sum(w, A \cup s) # Sum(w, A) + Sum(w, s)}
<1>0. IsFiniteSet(A) /\ IsFiniteSet(B) /\ IsFiniteSet(A \cup B)
  BY FS_Subset
<1> SUFFICES ASSUME Bad # {} PROVE FALSE
  OBVIOUS
<1>1. PICK T \in Bad : IsFiniteSet(T) /\ \A x \in T : T \ {x} \notin Bad
  <2>1. Bad \subseteq SUBSET B
    OBVIOUS
  <2> HIDE DEF Bad
  <2> QED
    BY <1>0, <2>1, LeastBad
<1>2. /\ T \in SUBSET B /\ Sum(w, A \cup T) # Sum(w, A) + Sum(w, T)
      /\ \A x \in T : Sum(w, A \cup (T \ {x})) = Sum(w, A) + Sum(w, T \ {x})
  BY <1>1
<1> HIDE DEF Bad
<1>3. Sum(w, A) \in Nat
  BY <1>0, SumIsNatural
<1>4. CASE T = {}
  <2>1. A \cup T = A /\ Sum(w, T) = 0
    BY <1>4, <1>1, SumUnfolds
  <2> QED
    BY <1>2, <1>3, <2>1
<1>5. CASE T # {}
  <2>1. PICK x \in T : TRUE
    BY <1>5
  <2>2. (A \cup T) \ {x} = A \cup (T \ {x})
    BY <1>2, <2>1
  <2>3. /\ IsFiniteSet(A \cup T) /\ \A u \in A \cup T : w[u] \in Nat
        /\ IsFiniteSet(T) /\ \A u \in T : w[u] \in Nat
        /\ IsFiniteSet(T \ {x}) /\ \A u \in T \ {x} : w[u] \in Nat
    BY <1>1, <1>2, FS_Subset
  <2>4. /\ Sum(w, A \cup T) = w[x] + Sum(w, (A \cup T) \ {x})
        /\ Sum(w, T) = w[x] + Sum(w, T \ {x})
    BY <2>1, <2>3, SumWithout
  <2>5. Sum(w, T \ {x}) \in Nat /\ w[x] \in Nat
    BY <2>1, <2>3, SumIsNatural
  <2> QED
    BY <1>2, <1>3, <2>2, <2>4, <2>5
<1> QED
  BY <1>4, <1>5

\* Weights that are the same on a set give it the same sum.
LEMMA SumOfTheSame ==
  ASSUME NEW S, IsFiniteSet(S), NEW w, NEW v, \A x \in S : w[x] = v[x]
  PROVE  Sum(w, S) = Sum(v, S)
<1>1. PICK g : Solves(w, S, g)
  BY SolutionExists
<1>2. \A s \in SUBSET S : s # {} => w[CHOOSE x \in s : TRUE] = v[CHOOSE x \in s : TRUE]
  OBVIOUS
<1>3. Solves(v, S, g)
  BY <1>1, <1>2 DEF Solves
<1> QED
  BY <1>1, <1>3, SumIsSolved

\* Weights that are nought weigh nothing.
LEMMA SumOfNought ==
  ASSUME NEW S, IsFiniteSet(S), NEW w, \A x \in S : w[x] = 0
  PROVE  Sum(w, S) = 0
<1> DEFINE Bad == {s \in SUBSET S : Sum(w, s) # 0}
<1> SUFFICES ASSUME Bad # {} PROVE FALSE
  OBVIOUS
<1>1. PICK T \in Bad : IsFiniteSet(T) /\ \A x \in T : T \ {x} \notin Bad
  <2>1. Bad \subseteq SUBSET S
    OBVIOUS
  <2> HIDE DEF Bad
  <2> QED
    BY <2>1, LeastBad
<1>2. T \in SUBSET S /\ Sum(w, T) # 0 /\ \A x \in T : Sum(w, T \ {x}) = 0
  BY <1>1
<1> HIDE DEF Bad
<1>3. T # {}
  <2>1. Sum(w, {}) = 0
    BY <1>1, SumUnfolds
  <2> QED
    BY <1>2, <2>1
<1>4. PICK x \in T : Sum(w, T) = w[x] + Sum(w, T \ {x})
  BY <1>1, <1>3, SumUnfolds
<1> QED
  BY <1>2, <1>4

-----------------------------------------------------------------------------
(* Orders and counts of finite sets.                                       *)

\* A strict order of all the members of a set, as a set of pairs.
Orders(R, S) ==
  /\ \A x \in S : <<x, x>> \notin R
  /\ \A x \in S, y \in S : x # y => <<x, y>> \in R \/ <<y, x>> \in R
  /\ \A x \in S, y \in S, z \in S : <<x, y>> \in R /\ <<y, z>> \in R => <<x, z>> \in R

\* A finite set that is ordered has a first member.
LEMMA FirstOf ==
  ASSUME NEW S, IsFiniteSet(S), S # {}, NEW R, Orders(R, S)
  PROVE  \E x \in S : \A y \in S \ {x} : <<x, y>> \in R
<1> DEFINE First(T, x) == \A y \in T \ {x} : <<x, y>> \in R
           Bad == {T \in SUBSET S : T # {} /\ ~ \E x \in T : First(T, x)}
<1>1. ASSUME Bad # {} PROVE FALSE
  <2>1. PICK T \in Bad : \A x \in T : T \ {x} \notin Bad
    <3>1. Bad \subseteq SUBSET S
      OBVIOUS
    <3> HIDE DEF Bad
    <3> QED
      BY <1>1, <3>1, LeastBad
  <2>2. PICK x \in T : TRUE
    BY <2>1
  <2>3. T \subseteq S /\ ~ \E y \in T : First(T, y)
    BY <2>1
  <2>4. T \ {x} # {}
    BY <2>2, <2>3
  <2>5. PICK f \in T \ {x} : First(T \ {x}, f)
    BY <2>1, <2>2, <2>3, <2>4
  <2>6. CASE <<x, f>> \in R
    <3>1. First(T, x)
      BY <2>2, <2>3, <2>5, <2>6 DEF Orders
    <3> QED
      BY <2>2, <2>3, <3>1
  <2>7. CASE <<f, x>> \in R
    <3>1. First(T, f)
      BY <2>5, <2>7
    <3> QED
      BY <2>3, <2>5, <3>1
  <2> QED
    BY <2>2, <2>3, <2>5, <2>6, <2>7 DEF Orders
<1>2. S \notin Bad
  BY <1>1
<1> QED
  BY <1>2

\* A finite set of integers has a largest and a least member.
LEMMA LargestOf ==
  ASSUME NEW S \in SUBSET Int, S # {}, IsFiniteSet(S)
  PROVE  /\ Max(S) \in S /\ \A x \in S : x <= Max(S)
         /\ Min(S) \in S /\ \A x \in S : Min(S) <= x
<1> DEFINE Up == {p \in Int \X Int : p[1] > p[2]}
           Down == {p \in Int \X Int : p[1] < p[2]}
<1>1. Orders(Up, S) /\ Orders(Down, S)
  BY DEF Orders
<1>2. \A x, y : (<<x, y>> \in Up => x > y) /\ (<<x, y>> \in Down => x < y)
  OBVIOUS
<1> HIDE DEF Up, Down
<1>0. \A R : Orders(R, S) => \E x \in S : \A y \in S \ {x} : <<x, y>> \in R
  BY FirstOf
<1>3. PICK x \in S : \A y \in S \ {x} : <<x, y>> \in Up
  BY <1>0, <1>1
<1>4. \E z \in S : \A y \in S \ {z} : <<z, y>> \in Down
  BY <1>0, <1>1
<1>5. PICK z \in S : \A y \in S \ {z} : <<z, y>> \in Down
  BY <1>4
<1>6. (\A y \in S : x >= y) /\ (\A y \in S : z <= y)
  <2>1. \A y \in S : y \in Int /\ y <= y /\ y >= y
    OBVIOUS
  <2>2. \A y \in S \ {x} : x > y
    BY <1>2, <1>3
  <2>3. \A y \in S \ {z} : z < y
    BY <1>2, <1>5
  <2> QED
    BY <2>1, <2>2, <2>3
<1> QED
  BY <1>3, <1>5, <1>6 DEF Max, Min

\* What the members of a set are named.
Named(f, S) == {f[x] : x \in S}

\* Naming the members of a set one to one leaves their number as it is.
LEMMA SameNumber ==
  ASSUME NEW S, IsFiniteSet(S), NEW f, NEW T, T = Named(f, S)
  PROVE  /\ IsFiniteSet(T) /\ Cardinality(T) <= Cardinality(S)
         /\ (\A x \in S, y \in S : f[x] = f[y] => x = y) => Cardinality(T) = Cardinality(S)
<1> DEFINE g == [x \in S |-> f[x]]
<1>1. g \in Surjection(S, T)
  BY DEF Surjection, Named
<1>2. ASSUME \A x \in S, y \in S : f[x] = f[y] => x = y PROVE g \in Injection(S, T)
  BY <1>1, <1>2 DEF Injection, Surjection, IsInjective
<1> HIDE DEF g
<1> QED
  BY <1>1, <1>2, FS_Surjection

\* What a set has and has not of something is all of it.
LEMMA SplitNumber ==
  ASSUME NEW S, IsFiniteSet(S), NEW A \in SUBSET S
  PROVE  /\ IsFiniteSet(A) /\ IsFiniteSet(S \ A)
         /\ Cardinality(A) \in Nat /\ Cardinality(S \ A) \in Nat /\ Cardinality(S) \in Nat
         /\ Cardinality(S) = Cardinality(A) + Cardinality(S \ A)
<1>1. S \cap A = A
  OBVIOUS
<1>2. IsFiniteSet(A) /\ IsFiniteSet(S \ A)
  BY FS_Subset
<1>3. Cardinality(A) \in Nat /\ Cardinality(S \ A) \in Nat /\ Cardinality(S) \in Nat
  BY <1>2, FS_CardinalityType
<1>4. Cardinality(S \ A) = Cardinality(S) - Cardinality(A)
  BY <1>1, FS_Difference
<1> QED
  BY <1>2, <1>3, <1>4

\* The members that go to one place.
Part(S, p, g) == {x \in S : p[x] = g}

\* Parts that are told apart by where their members go add up to the whole.
LEMMA PartsAddUp ==
  ASSUME NEW S, IsFiniteSet(S), NEW G, IsFiniteSet(G), NEW p, \A x \in S : p[x] \in G,
         NEW v, \A g \in G : v[g] = Cardinality(Part(S, p, g))
  PROVE  Sum(v, G) = Cardinality(S)
<1> DEFINE In(T) == {x \in S : p[x] \in T}
           Bad == {T \in SUBSET G : Sum(v, T) # Cardinality(In(T))}
<1>1. ASSUME Bad # {} PROVE FALSE
  <2>1. PICK T \in Bad : IsFiniteSet(T) /\ \A g \in T : T \ {g} \notin Bad
    <3>1. Bad \subseteq SUBSET G
      OBVIOUS
    <3> HIDE DEF Bad
    <3> QED
      BY <1>1, <3>1, LeastBad
  <2>2. /\ T \subseteq G /\ Sum(v, T) # Cardinality(In(T))
        /\ \A g \in T : Sum(v, T \ {g}) = Cardinality(In(T \ {g}))
    BY <2>1
  <2> HIDE DEF Bad
  <2>3. CASE T = {}
    <3>1. In(T) = {}
      BY <2>3
    <3> QED
      BY <2>1, <2>2, <2>3, <3>1, SumUnfolds, FS_EmptySet
  <2>4. CASE T # {}
    <3>1. PICK g \in T : Sum(v, T) = v[g] + Sum(v, T \ {g})
      BY ONLY <2>1, <2>4, SumUnfolds
    <3> DEFINE At == {x \in S : p[x] = g}
    <3>2. At \subseteq In(T) /\ In(T) \ At = In(T \ {g}) /\ In(T) \in SUBSET S /\ v[g] = Cardinality(At)
      BY <2>2, <3>1 DEF Part
    <3> HIDE DEF At, In
    <3>3. IsFiniteSet(In(T))
      BY <3>2, FS_Subset
    <3>4. Cardinality(In(T)) = Cardinality(At) + Cardinality(In(T) \ At)
      BY <3>2, <3>3, SplitNumber
    <3> QED
      BY <2>2, <3>1, <3>2, <3>4
  <2> QED
    BY <2>3, <2>4
<1>2. Sum(v, G) = Cardinality(In(G)) /\ In(G) = S
  BY <1>1
<1> QED
  BY <1>2

\* The groups of a set by what its members are grouped by: what each of them
\* counts of some of the members comes to all of these.
LEMMA GroupsAddUp ==
  ASSUME NEW A, IsFiniteSet(A), NEW K, IsFiniteSet(K), NEW f, \A x \in A : f[x] \in K,
         NEW rec, \A k \in K, l \in K : rec[k] = rec[l] => k = l,
         NEW G, G = Named(rec, K),
         NEW n, \A k \in K : n[rec[k]] = Cardinality(Part(A, f, k))
  PROVE  IsFiniteSet(G) /\ Cardinality(G) = Cardinality(K) /\ Sum(n, G) = Cardinality(A)
<1>1. IsFiniteSet(G) /\ Cardinality(G) = Cardinality(K)
  BY SameNumber
<1> DEFINE p == [x \in A |-> rec[f[x]]]
<1>2. \A x \in A : p[x] \in G
  BY DEF Named
<1>3. ASSUME NEW g \in G PROVE n[g] = Cardinality(Part(A, p, g))
  <2>1. PICK k \in K : g = rec[k]
    BY DEF Named
  <2>2. Part(A, p, g) = Part(A, f, k)
    BY <2>1 DEF Part
  <2> HIDE DEF p
  <2> QED
    BY <2>1, <2>2
<1> HIDE DEF p
<1>4. IsFiniteSet(G)
  BY <1>1
<1>5. Sum(n, G) = Cardinality(A)
  BY ONLY <1>2, <1>3, <1>4, IsFiniteSet(A), PartsAddUp
<1> QED
  BY <1>1, <1>5

-----------------------------------------------------------------------------
(* The health page.                                                        *)

\* What the rows that are drawn show of the backups.
Shown(R) == MapThenSumSet(LAMBDA r : r.backup, R)

\* The bytes of a set of backups and those of a set of rows are sums.
LEMMA BytesAreSums ==
  ASSUME NEW C, IsFiniteSet(C), NEW S \in SUBSET C
  PROVE  /\ Bytes(S) = Sum([b \in C |-> b.bytes], S)
         /\ Shown(S) = Sum([r \in C |-> r.backup], S)
<1>0. IsFiniteSet(S)
  BY FS_Subset
<1> DEFINE BytesOf(h) == h = [s \in SUBSET S |->
                           IF s = {} THEN 0
                           ELSE LET x == CHOOSE x \in s : TRUE IN x.bytes + h[s \ {x}]]
           ShownOf(h) == h = [s \in SUBSET S |->
                           IF s = {} THEN 0
                           ELSE LET x == CHOOSE x \in s : TRUE IN x.backup + h[s \ {x}]]
           w == [b \in C |-> b.bytes]
           v == [b \in C |-> b.backup]
<1>1. \A h : BytesOf(h) <=> Solves(w, S, h)
  <2>1. \A s \in SUBSET S : s # {} => w[CHOOSE x \in s : TRUE] = (CHOOSE x \in s : TRUE).bytes
    OBVIOUS
  <2> HIDE DEF w
  <2> QED
    BY <2>1 DEF Solves
<1>2. \A h : ShownOf(h) <=> Solves(v, S, h)
  <2>1. \A s \in SUBSET S : s # {} => v[CHOOSE x \in s : TRUE] = (CHOOSE x \in s : TRUE).backup
    OBVIOUS
  <2> HIDE DEF v
  <2> QED
    BY <2>1 DEF Solves
<1>3. /\ Bytes(S) = (CHOOSE f : BytesOf(f))[S]
      /\ Shown(S) = (CHOOSE f : ShownOf(f))[S]
  BY DEF Bytes, Shown, MapThenSumSet, MapThenFoldSet
<1> HIDE DEF BytesOf, ShownOf, w, v
<1>4. PICK h : h = (CHOOSE f : BytesOf(f)) /\ BytesOf(h)
  BY <1>0, <1>1, SolutionExists
<1>5. PICK k : k = (CHOOSE f : ShownOf(f)) /\ ShownOf(k)
  BY <1>0, <1>2, SolutionExists
<1>6. Sum(w, S) = h[S] /\ Sum(v, S) = k[S]
  BY <1>0, <1>1, <1>2, <1>4, <1>5, SumIsSolved
<1> QED
  BY <1>3, <1>4, <1>5, <1>6 DEF w, v

\* The backups on some of the filesystems are those on each of them.
LEMMA BytesByFilesystem ==
  ASSUME NEW C, IsFiniteSet(C), \A b \in C : b.bytes \in Nat,
         NEW D, IsFiniteSet(D), NEW E, D \subseteq E, NEW per,
         per = [d \in E |-> Bytes({b \in C : b.device = d})]
  PROVE  /\ \A d \in E : per[d] \in Nat
         /\ Sum(per, D) = Bytes({b \in C : b.device \in D})
<1> DEFINE w == [b \in C |-> b.bytes]
           On(s) == {b \in C : b.device \in s}
           Bad == {s \in SUBSET D : Sum(per, s) # Bytes(On(s))}
<1>1. \A b \in C : w[b] \in Nat
  OBVIOUS
<1>2. \A S \in SUBSET C : Bytes(S) = Sum(w, S)
  BY BytesAreSums
<1> HIDE DEF w
<1>3. ASSUME NEW d \in E PROVE per[d] = Bytes(On({d})) /\ per[d] \in Nat
  <2>1. {b \in C : b.device = d} = On({d}) /\ On({d}) \in SUBSET C
    OBVIOUS
  <2>2. IsFiniteSet(On({d})) /\ \A b \in On({d}) : w[b] \in Nat
    BY <1>1, <2>1, FS_Subset
  <2>3. Sum(w, On({d})) \in Nat
    BY <2>2, SumIsNatural
  <2>4. per[d] = Bytes(On({d}))
    BY <2>1
  <2> HIDE DEF On
  <2> QED
    BY <1>2, <2>1, <2>3, <2>4
<1> SUFFICES ASSUME Bad # {} PROVE FALSE
  BY <1>3
<1>4. PICK T \in Bad : IsFiniteSet(T) /\ \A x \in T : T \ {x} \notin Bad
  <2>1. Bad \subseteq SUBSET D
    OBVIOUS
  <2> HIDE DEF Bad
  <2> QED
    BY <2>1, LeastBad
<1>5. /\ T \in SUBSET D /\ Sum(per, T) # Bytes(On(T))
      /\ \A x \in T : Sum(per, T \ {x}) = Bytes(On(T \ {x}))
  BY <1>4
<1> HIDE DEF Bad
<1>6. CASE T = {}
  <2>1. On(T) = {}
    BY <1>6
  <2>2. Sum(per, T) = 0
    BY <1>4, <1>6, SumUnfolds
  <2>3. Bytes({}) = 0
    BY <1>2, SumUnfolds
  <2> QED
    BY <1>5, <2>1, <2>2, <2>3
<1>7. CASE T # {}
  <2>0. \E x \in T : Sum(per, T) = per[x] + Sum(per, T \ {x})
    BY ONLY <1>4, <1>7, SumUnfolds
  <2>1. PICK x \in T : Sum(per, T) = per[x] + Sum(per, T \ {x})
    BY ONLY <2>0
  <2>2. On(T) = On({x}) \cup On(T \ {x}) /\ On({x}) \cap On(T \ {x}) = {}
    BY <2>1
  <2>3. On({x}) \in SUBSET C /\ On(T \ {x}) \in SUBSET C /\ On(T) \in SUBSET C
    OBVIOUS
  <2> HIDE DEF On
  <2>4. \A A \in SUBSET C, B \in SUBSET C :
          A \cap B = {} => Sum(w, A \cup B) = Sum(w, A) + Sum(w, B)
    <3> TAKE A \in SUBSET C, B \in SUBSET C
    <3> HAVE A \cap B = {}
    <3> QED
      BY ONLY <1>1, IsFiniteSet(C), A \cap B = {}, SumOfParts
  <2>5. Sum(w, On({x}) \cup On(T \ {x})) = Sum(w, On({x})) + Sum(w, On(T \ {x}))
    BY <2>2, <2>3, <2>4
  <2>6. x \in E
    BY <1>5, <2>1
  <2> QED
    BY <1>2, <1>3, <1>5, <2>1, <2>2, <2>3, <2>5, <2>6
<1> QED
  BY <1>6, <1>7

\* What a bar says of the filesystem it draws.
BarOK(r) ==
  LET empty == 100 - r.bar.used - r.bar.reserved
  IN /\ empty * r.space.total < r.space.avail * 100 + r.space.total
     /\ empty * r.space.total >= r.space.avail * 100
     /\ r.slice <= r.bar.used

\* What was read of the catalogue is no more than its total, whichever
\* filesystems are drawn, and each of them is drawn once.
\* Those of a set of backups that are on some filesystems, or on none.
PlacedIn(C, D) == {b \in C : b.device = 0 \/ b.device \in D}

ReadingOK ==
  /\ used \in [Devices -> 0..Size]
  /\ IsFiniteSet(catalogue) /\ \A b \in catalogue : b.bytes \in Nat
  /\ backups \in [Devices -> Nat] /\ unplaced \in Nat
  /\ \A D \in SUBSET Devices : Sum(backups, D) + unplaced = Bytes(PlacedIn(reading, D))
DrawnOK ==
  /\ at # "disks" => rows = {}
  /\ IsFiniteSet(rows)
  /\ \A r \in rows :
       /\ r = [paths |-> r.paths, device |-> r.device, space |-> r.space, bar |-> r.bar,
               backup |-> r.backup, slice |-> r.slice]
       /\ r.device \in Devices /\ r.backup = backups[r.device] /\ BarOK(r)
  /\ \A r \in rows, q \in rows : r.device = q.device => r = q
  /\ Shown(rows) = Sum(backups, {r.device : r \in rows})
HealthPageInv == ReadingOK /\ DrawnOK

\* A percentage is rounded down.
LEMMA PercentIsRounded ==
  ASSUME NEW part \in Nat, NEW s, s.total \in Nat \ {0}
  PROVE  /\ PercentOf(part, s) \in 0..100
         /\ part <= s.total => /\ PercentOf(part, s) * s.total <= part * 100
                               /\ part * 100 < PercentOf(part, s) * s.total + s.total
         /\ \A more \in Nat : part <= more => PercentOf(part, s) <= PercentOf(more, s)
<1>1. PICK n \in Nat \ {0} : n = s.total
  OBVIOUS
<1>2. ASSUME NEW p \in Nat
      PROVE  /\ (p * 100) \div n \in Nat /\ ((p * 100) \div n) * n <= p * 100
             /\ p * 100 < ((p * 100) \div n) * n + n
  <2>1. p * 100 \in Nat
    OBVIOUS
  <2> QED
    BY <2>1
<1>3. ASSUME NEW p \in Nat, p <= n PROVE (p * 100) \div n <= 100
  <2>1. PICK k \in Nat : k = (p * 100) \div n /\ k * n <= p * 100
    BY <1>2
  <2>2. p * 100 <= 100 * n
    BY <1>3
  <2>3. k >= 101 => 101 * n <= k * n
    OBVIOUS
  <2>4. k * n \in Nat
    OBVIOUS
  <2> QED
    BY <2>1, <2>2, <2>3, <2>4
<1>4. ASSUME NEW p \in Nat, NEW m \in Nat, p <= m
      PROVE  (p * 100) \div n <= (m * 100) \div n
  <2>1. PICK k \in Nat, j \in Nat : /\ k = (p * 100) \div n /\ j = (m * 100) \div n
                                    /\ k * n <= p * 100 /\ m * 100 < j * n + n
    BY <1>2
  <2>2. k >= j + 1 => k * n >= j * n + n
    <3> SUFFICES ASSUME k >= j + 1 PROVE k * n >= j * n + n
      OBVIOUS
    <3>1. k * n >= (j + 1) * n /\ (j + 1) * n = j * n + n
      OBVIOUS
    <3> QED
      BY <3>1
  <2>3. k * n \in Nat /\ j * n \in Nat
    OBVIOUS
  <2> QED
    BY <1>4, <2>1, <2>2, <2>3
<1>5. \A p \in Nat : PercentOf(p, s) = IF (p * 100) \div n > 100 THEN 100 ELSE (p * 100) \div n
  BY <1>1 DEF PercentOf, clampPercent
<1>6. PercentOf(part, s) \in 0..100
  <2>1. PICK k \in Nat : k = (part * 100) \div n
    BY <1>2
  <2>2. PercentOf(part, s) = IF k > 100 THEN 100 ELSE k
    BY <1>5, <2>1
  <2> QED
    BY <2>2
<1>7. ASSUME part <= s.total
      PROVE  /\ PercentOf(part, s) * s.total <= part * 100
             /\ part * 100 < PercentOf(part, s) * s.total + s.total
  BY <1>1, <1>2, <1>3, <1>5, <1>7
<1>8. ASSUME NEW more \in Nat, part <= more PROVE PercentOf(part, s) <= PercentOf(more, s)
  BY <1>2, <1>4, <1>5, <1>8
<1> QED
  BY <1>6, <1>7, <1>8

\* What a percentage of the rest leaves is the part, rounded up.
LEMMA RestOfPercent ==
  ASSUME NEW n \in Nat \ {0}, NEW a \in Nat, a <= n, NEW y \in 0..100,
         y * n <= (n - a) * 100, (n - a) * 100 < y * n + n
  PROVE  (100 - y) * n < a * 100 + n /\ (100 - y) * n >= a * 100
<1>1. (100 - y) * n = 100 * n - y * n
  OBVIOUS
<1>2. PICK m \in Int : m = y * n
  OBVIOUS
<1>3. (n - a) * 100 = 100 * n - 100 * a /\ a * 100 = 100 * a
  OBVIOUS
<1>4. m <= 100 * n - 100 * a /\ 100 * n - 100 * a < m + n /\ (100 - y) * n = 100 * n - m
  BY <1>1, <1>2, <1>3
<1>5. 100 * n - m < 100 * a + n /\ 100 * n - m >= 100 * a
  BY <1>2, <1>4
<1> QED
  BY <1>3, <1>4, <1>5

\* The bar of a filesystem is right when it is drawn.
LEMMA BarIsRight ==
  ASSUME NEW p, NEW d \in Devices, used[d] \in 0..Size, backups[d] \in Nat
  PROVE  BarOK(Row(p, Space(d)))
<1>1. PICK s : s = Space(d)
  OBVIOUS
<1>2. /\ s.total = Size /\ Size \in Nat \ {0} /\ s.used \in 0..Size /\ s.avail \in 0..Size
      /\ s.device = d /\ s.used <= Size - s.avail
  BY <1>1, HealthPageAssumption DEF Space
<1>3. PICK n, u, a :
        /\ n = s.total /\ u = s.used /\ a = s.avail
        /\ n \in Nat \ {0} /\ u \in Nat /\ a \in Nat /\ u <= n - a /\ a <= n
  <2>1. /\ s.total \in Nat \ {0} /\ s.used \in Nat /\ s.avail \in Nat
        /\ s.used <= s.total - s.avail /\ s.avail <= s.total
    BY <1>2
  <2> QED
    BY <2>1
<1>4. PICK x, y, z : x = PercentOf(u, s) /\ y = PercentOf(n - a, s) /\ z = PercentOf(backups[d], s)
  OBVIOUS
<1>5. n - a \in Nat
  BY <1>3
<1>6. /\ x \in 0..100 /\ y \in 0..100 /\ z \in 0..100 /\ x <= y
      /\ y * n <= (n - a) * 100 /\ (n - a) * 100 < y * n + n
  <2>1. n - a <= n
    BY <1>3
  <2> QED
    BY <1>3, <1>4, <1>5, <2>1, PercentIsRounded
<1>7. barSegments(s) = [used |-> x, reserved |-> y - x]
  BY <1>3, <1>4, <1>6 DEF barSegments
<1>8. backupSegment(s, backups[d]) <= x
  BY <1>3, <1>4, <1>6 DEF backupSegment
<1>9. PICK r : r = Row(p, s)
  OBVIOUS
<1>10. /\ r.space = s /\ r.bar = [used |-> x, reserved |-> y - x]
       /\ r.slice = backupSegment(s, backups[d])
  BY <1>2, <1>7, <1>9 DEF Row
<1>11. r.bar.used = x /\ r.bar.reserved = y - x /\ r.slice <= x
  BY <1>8, <1>10
<1>12. 100 - x - (y - x) = 100 - y
  BY <1>6
<1>13. (100 - y) * n < a * 100 + n /\ (100 - y) * n >= a * 100
  BY <1>3, <1>6, RestOfPercent
<1> QED
  BY <1>1, <1>3, <1>9, <1>10, <1>11, <1>12, <1>13 DEF BarOK

\* What the rows show is a sum, and a row that is added adds its part.
LEMMA ShownWith ==
  ASSUME NEW R, IsFiniteSet(R), NEW q, q \notin R, \A r \in R \cup {q} : r.backup \in Nat
  PROVE  Shown(R \cup {q}) = q.backup + Shown(R) /\ Shown(R) \in Nat
<1> DEFINE C == R \cup {q}
           w == [r \in C |-> r.backup]
<1>1. IsFiniteSet(C)
  BY FS_AddElement
<1>2. \A S \in SUBSET C : Shown(S) = Sum(w, S)
  BY <1>1, BytesAreSums
<1>3. /\ \A r \in C : w[r] \in Nat /\ w[r] = r.backup
      /\ q \in C /\ R = C \ {q} /\ C \in SUBSET C /\ R \in SUBSET C
  OBVIOUS
<1> HIDE DEF C, w
<1>4. Sum(w, C) = w[q] + Sum(w, C \ {q})
  BY <1>1, <1>3, SumWithout
<1>5. Sum(w, R) \in Nat
  BY <1>3, SumIsNatural
<1> QED
  BY <1>2, <1>3, <1>4, <1>5 DEF C

\* Nothing shows nothing.
LEMMA NothingShown == Shown({}) = 0 /\ \A w : Sum(w, {}) = 0
<1>1. IsFiniteSet({})
  BY FS_EmptySet
<1>2. \A w : Sum(w, {}) = 0
  BY <1>1, SumUnfolds
<1>3. Shown({}) = Sum([r \in {} |-> r.backup], {})
  BY <1>1, BytesAreSums
<1> QED
  BY <1>2, <1>3

\* Nothing read, nothing drawn.
LEMMA NothingRead ==
  ASSUME NEW per, per = [d \in Devices |-> 0]
  PROVE  /\ per \in [Devices -> Nat]
         /\ \A D \in SUBSET Devices : Sum(per, D) + 0 = Bytes(PlacedIn({}, D))
<1>2. Bytes({}) = 0
  <2>1. IsFiniteSet({})
    BY FS_EmptySet
  <2>2. \A w : Sum(w, {}) = 0
    BY <2>1, SumUnfolds
  <2>3. Bytes({}) = Sum([b \in {} |-> b.bytes], {})
    BY <2>1, BytesAreSums
  <2> QED
    BY <2>2, <2>3
<1>3. \A D : PlacedIn({}, D) = {}
  BY DEF PlacedIn
<1>1. ASSUME NEW D \in SUBSET Devices PROVE Sum(per, D) = 0
  BY FS_Subset, SumOfNought, HealthPageAssumption
<1> QED
  BY <1>1, <1>2, <1>3

\* Every filesystem weighs what its backups do, and some of them with what is
\* on none what the catalogue has there.
LEMMA CatalogueRead ==
  ASSUME NEW C, IsFiniteSet(C), \A b \in C : b.bytes \in Nat,
         NEW per, per = [d \in Devices |-> Bytes({b \in C : b.device = d})]
  PROVE  /\ per \in [Devices -> Nat] /\ Bytes({b \in C : b.device = 0}) \in Nat
         /\ \A D \in SUBSET Devices :
              Sum(per, D) + Bytes({b \in C : b.device = 0}) = Bytes(PlacedIn(C, D))
<1> DEFINE w == [b \in C |-> b.bytes]
           On(s) == {b \in C : b.device \in s}
           None == {b \in C : b.device = 0}
<1>2. /\ \A S \in SUBSET C : Bytes(S) = Sum(w, S)
      /\ \A b \in C : w[b] \in Nat
  BY BytesAreSums
<1>3. Devices \subseteq Nat \ {0} /\ IsFiniteSet(Devices)
  BY HealthPageAssumption
<1> HIDE DEF w
<1>4. \A S \in SUBSET C : Bytes(S) \in Nat
  <2> SUFFICES ASSUME NEW S \in SUBSET C PROVE Bytes(S) \in Nat
    OBVIOUS
  <2>1. IsFiniteSet(S) /\ \A b \in S : w[b] \in Nat
    BY <1>2, FS_Subset
  <2>2. Sum(w, S) \in Nat
    BY <2>1, SumIsNatural
  <2> QED
    BY <1>2, <2>2
<1>5. per \in [Devices -> Nat]
  BY <1>4
<1>6. ASSUME NEW D \in SUBSET Devices
      PROVE  Sum(per, D) + Bytes(None) = Bytes(PlacedIn(C, D))
  <2>1. IsFiniteSet(D)
    BY <1>3, FS_Subset
  <2>2. Sum(per, D) = Bytes(On(D))
    BY <2>1, BytesByFilesystem
  <2>3. /\ On(D) \cap None = {} /\ PlacedIn(C, D) = On(D) \cup None
        /\ On(D) \in SUBSET C /\ None \in SUBSET C /\ PlacedIn(C, D) \in SUBSET C
    BY <1>3 DEF PlacedIn
  <2> HIDE DEF On, None
  <2>4. \A A \in SUBSET C, B \in SUBSET C :
          A \cap B = {} => Sum(w, A \cup B) = Sum(w, A) + Sum(w, B)
    BY <1>2, SumOfParts
  <2> QED
    BY <1>2, <2>2, <2>3, <2>4
<1> QED
  BY <1>4, <1>5, <1>6

\* A page begins with nothing drawn.
LEMMA PageStarts ==
  ASSUME HealthPageInit
  PROVE  HealthPageInv
<1>1. ReadingOK
  BY NothingRead, FS_EmptySet DEF HealthPageInit, ReadingOK
<1>2. DrawnOK
  BY NothingShown, FS_EmptySet DEF HealthPageInit, DrawnOK
<1> QED
  BY <1>1, <1>2 DEF HealthPageInv

\* A directory joins the row of its filesystem, or is a row of its own.
LEMMA RowJoins ==
  ASSUME ReadingOK, DrawnOK, at = "disks", UNCHANGED <<at, used, backups>>, NEW p \in Paths,
         rows' = Grouped(p, Space(DeviceOf[p])) \/ rows' = rows
  PROVE  DrawnOK'
<1>0. PICK d \in Devices : d = DeviceOf[p]
  BY HealthPageAssumption
<1>1. PICK s : d = DeviceOf[p] /\ s = Space(d)
  BY <1>0
<1>2. s.device = d
  BY <1>1 DEF Space
<1>3. PICK per : per = backups
  OBVIOUS
<1>4. per \in [Devices -> Nat] /\ used[d] \in 0..Size
  BY <1>3 DEF ReadingOK
<1>5. /\ IsFiniteSet(rows)
      /\ \A r \in rows :
           /\ r = [paths |-> r.paths, device |-> r.device, space |-> r.space, bar |-> r.bar,
                   backup |-> r.backup, slice |-> r.slice]
           /\ r.device \in Devices /\ r.backup = per[r.device] /\ BarOK(r)
      /\ \A r \in rows, q \in rows : r.device = q.device => r = q
      /\ Shown(rows) = Sum(per, {r.device : r \in rows})
  BY <1>3 DEF DrawnOK
<1>6. \A r \in rows : r.backup \in Nat
  BY <1>4, <1>5
<1>7. ASSUME NEW new, new = rows', IsFiniteSet(new),
             \A r \in new :
               /\ r = [paths |-> r.paths, device |-> r.device, space |-> r.space, bar |-> r.bar,
                       backup |-> r.backup, slice |-> r.slice]
               /\ r.device \in Devices /\ r.backup = per[r.device] /\ BarOK(r),
             \A r \in new, q \in new : r.device = q.device => r = q,
             Shown(new) = Sum(per, {r.device : r \in new})
      PROVE  DrawnOK'
  BY <1>3, <1>7 DEF DrawnOK
<1>8. CASE rows' = rows
  BY <1>5, <1>7, <1>8
<1>9. CASE rows' = Grouped(p, s) /\ ~ \E r \in rows : r.device = d
  <2>1. PICK q : q = Row(p, s)
    OBVIOUS
  <2>2. rows' = rows \cup {q}
    BY <1>2, <1>9, <2>1 DEF Grouped
  <2>3. /\ q = [paths |-> q.paths, device |-> q.device, space |-> q.space, bar |-> q.bar,
               backup |-> q.backup, slice |-> q.slice]
        /\ q.device = d /\ q.backup = per[d]
    BY <1>2, <1>3, <2>1 DEF Row
  <2>4. BarOK(q)
    BY <1>1, <1>3, <1>4, <2>1, BarIsRight
  <2>5. q \notin rows
    BY <1>9, <2>3
  <2>6. Shown(rows \cup {q}) = per[d] + Shown(rows)
    <3>1. \A r \in rows \cup {q} : r.backup \in Nat
      BY <1>4, <1>6, <2>3
    <3> QED
      BY <1>5, <2>3, <2>5, <3>1, ShownWith
  <2> DEFINE D == {r.device : r \in rows}
  <2>7. {r.device : r \in rows \cup {q}} = D \cup {d} /\ d \notin D /\ D \in SUBSET Devices
    BY <1>5, <1>9, <2>3
  <2>8. Sum(per, D \cup {d}) = per[d] + Sum(per, D)
    <3> HIDE DEF D
    <3>1. IsFiniteSet(D \cup {d}) /\ \A e \in D \cup {d} : per[e] \in Nat
      <4>1. D \cup {d} \in SUBSET Devices
        BY <2>7
      <4>2. IsFiniteSet(D \cup {d})
        BY <4>1, FS_Subset, HealthPageAssumption
      <4> QED
        BY <1>4, <4>1, <4>2
    <3>2. (D \cup {d}) \ {d} = D /\ d \in D \cup {d}
      BY <2>7
    <3>3. Sum(per, D \cup {d}) = per[d] + Sum(per, (D \cup {d}) \ {d})
      BY <3>1, <3>2, SumWithout
    <3> QED
      BY <3>2, <3>3
  <2>9. Shown(rows \cup {q}) = Sum(per, {r.device : r \in rows \cup {q}})
    BY <1>5, <2>6, <2>7, <2>8
  <2>10. IsFiniteSet(rows \cup {q})
    BY <1>5, FS_AddElement
  <2>11. \A r \in rows \cup {q} :
           /\ r = [paths |-> r.paths, device |-> r.device, space |-> r.space, bar |-> r.bar,
                   backup |-> r.backup, slice |-> r.slice]
           /\ r.device \in Devices /\ r.backup = per[r.device] /\ BarOK(r)
    BY <1>5, <2>3, <2>4
  <2>12. \A r \in rows \cup {q}, o \in rows \cup {q} : r.device = o.device => r = o
    BY <1>5, <1>9, <2>3
  <2> QED
    BY <1>7, <2>2, <2>9, <2>10, <2>11, <2>12
<1>10. CASE rows' = Grouped(p, s) /\ \E r \in rows : r.device = d
  <2>1. PICK o \in rows : o.device = d
    BY <1>10
  <2>2. PICK q : q = [paths |-> o.paths \cup {p}, device |-> o.device, space |-> o.space,
                      bar |-> o.bar, backup |-> o.backup, slice |-> o.slice]
    OBVIOUS
  <2>3. [o EXCEPT !.paths = @ \cup {p}] = q
    <3>1. PICK a, e, b, c, f, g :
            o = [paths |-> a, device |-> e, space |-> b, bar |-> c, backup |-> f, slice |-> g]
      BY <1>5, <2>1
    <3>2. q = [paths |-> a \cup {p}, device |-> e, space |-> b, bar |-> c,
                  backup |-> f, slice |-> g]
      BY <2>2, <3>1
    <3> QED
      BY ONLY <3>1, <3>2
  <2>4. /\ q = [paths |-> q.paths, device |-> q.device, space |-> q.space, bar |-> q.bar,
                backup |-> q.backup, slice |-> q.slice]
        /\ q.device = d /\ q.backup = o.backup /\ q.bar = o.bar /\ q.space = o.space
        /\ q.slice = o.slice
    BY <2>1, <2>2
  <2> DEFINE others == rows \ {o}
  <2>5. \A r \in rows : r.device = d <=> r = o
    BY <1>5, <2>1
  <2>6. rows' = others \cup {q}
    <3>1. rows' = {IF r.device = d THEN [r EXCEPT !.paths = @ \cup {p}] ELSE r : r \in rows}
      BY <1>2, <1>10 DEF Grouped
    <3>2. \A r \in rows : (IF r.device = d THEN [r EXCEPT !.paths = @ \cup {p}] ELSE r)
                          = IF r = o THEN q ELSE r
      BY <2>3, <2>5
    <3> QED
      BY <2>1, <3>1, <3>2
  <2>7. q \notin others /\ o \notin others /\ rows = others \cup {o} /\ IsFiniteSet(others)
    BY <1>5, <2>1, <2>4, <2>5, FS_Subset
  <2>8. Shown(others \cup {q}) = Shown(others \cup {o})
    <3>1. \A r \in others \cup {q} : r.backup \in Nat
      BY <1>6, <2>4
    <3>2. \A r \in others \cup {o} : r.backup \in Nat
      BY <1>6
    <3> HIDE DEF others
    <3>3. Shown(others \cup {q}) = q.backup + Shown(others)
      BY <2>7, <3>1, ShownWith
    <3>4. Shown(others \cup {o}) = o.backup + Shown(others)
      BY <2>7, <3>2, ShownWith
    <3> QED
      BY <2>4, <3>3, <3>4
  <2>9. {r.device : r \in others \cup {q}} = {r.device : r \in rows}
    BY <2>1, <2>4, <2>7
  <2>10. Shown(others \cup {q}) = Sum(per, {r.device : r \in others \cup {q}})
    BY <1>5, <2>7, <2>8, <2>9
  <2>11. BarOK(q)
    BY <1>5, <2>1, <2>4 DEF BarOK
  <2>12. \A r \in others \cup {q} :
           /\ r = [paths |-> r.paths, device |-> r.device, space |-> r.space, bar |-> r.bar,
                   backup |-> r.backup, slice |-> r.slice]
           /\ r.device \in Devices /\ r.backup = per[r.device] /\ BarOK(r)
    BY <1>5, <2>1, <2>4, <2>11
  <2>13. \A r \in others \cup {q}, u \in others \cup {q} : r.device = u.device => r = u
    BY <1>5, <2>4, <2>5
  <2>14. IsFiniteSet(others \cup {q})
    BY <2>7, FS_AddElement
  <2> QED
    BY <1>7, <2>6, <2>10, <2>12, <2>13, <2>14
<1> QED
  BY <1>1, <1>8, <1>9, <1>10

\* A page is drawn without a byte twice.
LEMMA PageKeeps ==
  ASSUME HealthPageInv, [HealthPageNext]_healthVars
  PROVE  HealthPageInv'
<1>1. ReadingOK /\ DrawnOK
  BY DEF HealthPageInv
<1> USE DEF HealthPageInv
<1>2. CASE UNCHANGED <<at, backups, unplaced, rows, reading>> /\ used' \in [Devices -> 0..Size]
           /\ IsFiniteSet(catalogue') /\ \A b \in catalogue' : b.bytes \in Nat
  <2>1. ReadingOK'
    BY <1>1, <1>2 DEF ReadingOK
  <2>2. DrawnOK'
    BY <1>1, <1>2 DEF DrawnOK
  <2> QED
    BY <2>1, <2>2
<1>3. CASE Backup
  <2>1. PICK d, bytes, new :
          /\ d \in Devices /\ bytes \in {1, 3}
          /\ used[d] + bytes <= Size - Reserve /\ used' = [used EXCEPT ![d] = @ + bytes]
          /\ catalogue' = catalogue \cup {new} /\ new.bytes = bytes
          /\ UNCHANGED <<at, left, backups, unplaced, rows, reading, sections>>
    BY <1>3 DEF Backup
  <2>2. used' \in [Devices -> 0..Size]
    BY <1>1, <2>1, HealthPageAssumption DEF ReadingOK
  <2>3. IsFiniteSet(catalogue') /\ \A b \in catalogue' : b.bytes \in Nat
    BY <1>1, <2>1, FS_AddElement DEF ReadingOK
  <2> QED
    BY <1>2, <2>1, <2>2, <2>3
<1>10. CASE Sweep
  BY <1>1, <1>2, <1>10 DEF Sweep, ReadingOK
<1>4. CASE DeleteBackup
  <2>1. used' \in [Devices -> 0..Size]
    BY <1>1, <1>4, HealthPageAssumption DEF DeleteBackup, ReadingOK
  <2> QED
    BY <1>1, <1>2, <1>4, <2>1 DEF DeleteBackup, ReadingOK
<1>5. CASE renderHealth
  <2>1. rows' = {} /\ UNCHANGED <<used, catalogue, backups, unplaced, reading>>
    BY <1>5 DEF renderHealth
  <2>2. ReadingOK'
    BY <1>1, <2>1 DEF ReadingOK
  <2>3. DrawnOK'
    BY <2>1, NothingShown, FS_EmptySet DEF DrawnOK
  <2> QED
    BY <2>2, <2>3
<1>6. CASE BytesByDevice
  <2>1. rows = {} /\ rows' = {} /\ UNCHANGED <<used, catalogue>>
    BY <1>1, <1>6 DEF BytesByDevice, DrawnOK
  <2>2. PICK per, none, C : per = backups' /\ none = unplaced' /\ C = reading'
    OBVIOUS
  <2>3. /\ per \in [Devices -> Nat] /\ none \in Nat
        /\ \A D \in SUBSET Devices : Sum(per, D) + none = Bytes(PlacedIn(C, D))
    <3>1. CASE /\ per = [d \in Devices |-> Bytes({b \in Counted : b.device = d})]
               /\ none = Bytes({b \in Counted : b.device = 0}) /\ C = catalogue \ missing
      <4>1. Counted = C /\ C \subseteq catalogue
        BY <3>1 DEF Counted
      <4>2. IsFiniteSet(C) /\ \A b \in C : b.bytes \in Nat
        BY <1>1, <4>1, FS_Subset DEF ReadingOK
      <4>3. per = [d \in Devices |-> Bytes({b \in C : b.device = d})] /\ none = Bytes({b \in C : b.device = 0})
        BY <3>1, <4>1
      <4> QED
        BY <4>2, <4>3, CatalogueRead
    <3>2. CASE per = [d \in Devices |-> 0] /\ none = 0 /\ C = {}
      BY <3>2, NothingRead
    <3> QED
      BY <1>6, <2>2, <3>1, <3>2 DEF BytesByDevice
  <2>4. ReadingOK'
    BY <1>1, <2>1, <2>2, <2>3 DEF ReadingOK
  <2>5. DrawnOK'
    BY <2>1, NothingShown, FS_EmptySet DEF DrawnOK
  <2> QED
    BY <2>4, <2>5
<1>7. CASE healthDiskSection
  <2>1. PICK p \in Paths : rows' = Grouped(p, Space(DeviceOf[p])) \/ rows' = rows
    BY <1>7 DEF healthDiskSection
  <2>2. at = "disks" /\ UNCHANGED <<at, used, catalogue, backups, unplaced, reading>>
    BY <1>7 DEF healthDiskSection
  <2>3. DrawnOK'
    BY <1>1, <1>2, <2>1, <2>2, RowJoins DEF ReadingOK
  <2>4. ReadingOK'
    BY <1>1, <2>2 DEF ReadingOK
  <2> QED
    BY <2>3, <2>4
<1>8. CASE Drawn
  <2>1. PICK per, none, C : per = backups' /\ none = unplaced' /\ C = reading'
    OBVIOUS
  <2>2. rows' = {} /\ UNCHANGED <<used, catalogue>>
        /\ per = [d \in Devices |-> 0] /\ none = 0 /\ C = {}
    BY <1>8, <2>1 DEF Drawn
  <2>3. ReadingOK'
    BY <1>1, <2>1, <2>2, NothingRead DEF ReadingOK
  <2>4. DrawnOK'
    BY <2>2, NothingShown, FS_EmptySet DEF DrawnOK
  <2> QED
    BY <2>3, <2>4
<1>9. CASE UNCHANGED healthVars
  BY <1>1, <1>2, <1>9 DEF healthVars, ReadingOK
<1> QED
  BY <1>3, <1>4, <1>5, <1>6, <1>7, <1>8, <1>9, <1>10 DEF HealthPageNext

\* The empty part of a bar is what may still be written, the slice of the
\* backups lies inside the used part, and every byte of the backups that are on
\* a filesystem the page has drawn, or on none, is shown once, however the
\* catalogue and the disks change while a page is drawn (panel/web/disk.go).
THEOREM BytesAreSaidRight == HealthPageSpec => []BytesAreHonest
<1>1. ASSUME HealthPageInv PROVE BytesAreHonest
  <2>1. ReadingOK /\ DrawnOK
    BY <1>1 DEF HealthPageInv
  <2>2. BarIsHonest
    BY <2>1 DEF BarIsHonest, DrawnOK, BarOK
  <2>3. Shown(rows) + unplaced = Bytes({b \in reading : b.device = 0 \/ \E r \in rows : r.device = b.device})
    <3> DEFINE D == {r.device : r \in rows}
    <3>1. D \in SUBSET Devices /\ Shown(rows) = Sum(backups, D)
      BY <2>1 DEF DrawnOK
    <3>2. {b \in reading : b.device = 0 \/ \E r \in rows : r.device = b.device} = PlacedIn(reading, D)
      BY DEF PlacedIn
    <3> HIDE DEF D
    <3> QED
      BY <2>1, <3>1, <3>2 DEF ReadingOK
  <2>4. CountedOnce
    BY <2>3 DEF CountedOnce, Shown
  <2> QED
    BY <2>2, <2>4 DEF BytesAreHonest
<1> QED
  BY <1>1, PageStarts, PageKeeps, PTL DEF HealthPageSpec

-----------------------------------------------------------------------------
(* Pages.                                                                  *)

\* A quotient is the only number whose multiple is that near.
LEMMA Quotient ==
  ASSUME NEW i \in Nat, NEW L \in Nat \ {0}
  PROVE  /\ i \div L \in Nat
         /\ \A n \in Nat : i \div L = n <=> n * L <= i /\ i < n * L + L
<1>1. PICK d \in Int : d = i \div L
  OBVIOUS
<1>2. d * L <= i /\ i < d * L + L
  BY <1>1
<1>3. d \in Nat
  <2>1. CASE d <= -1
    <3>1. d * L <= -1 * L
      <4>1. \A x \in Int, y \in Int, z \in Nat : x <= y => x * z <= y * z
        OBVIOUS
      <4> QED
        BY <2>1, <4>1
    <3> QED
      BY <1>2, <3>1
  <2> QED
    BY <2>1
<1>4. ASSUME NEW n \in Nat, n * L <= i, i < n * L + L PROVE n = d
  <2>1. \A x \in Int, y \in Int, z \in Nat : x + 1 <= y => x * z + z <= y * z
    <3> TAKE x \in Int, y \in Int, z \in Nat
    <3>1. (y - x - 1) * z = y * z - x * z - z
      OBVIOUS
    <3>2. \A a \in Nat : a * z \in Nat
      OBVIOUS
    <3>3. x * z \in Int /\ y * z \in Int
      OBVIOUS
    <3> QED
      BY <3>1, <3>2, <3>3
  <2>2. ~(n + 1 <= d)
    BY <1>2, <1>4, <2>1
  <2>3. ~(d + 1 <= n)
    BY <1>2, <1>4, <2>1
  <2> QED
    BY <2>2, <2>3
<1> QED
  BY <1>1, <1>2, <1>3, <1>4

\* How many members come before a member.
Ranks(R, G) == [g \in G |-> Cardinality({h \in G : <<h, g>> \in R})]

\* The ranks of an order are the numbers from nought on, each given once.
LEMMA RanksAreDistinct ==
  ASSUME NEW G, IsFiniteSet(G), NEW R, Orders(R, G),
         NEW rank, rank = Ranks(R, G)
  PROVE  /\ \A g \in G : rank[g] \in 0..(Cardinality(G) - 1)
         /\ \A g \in G, h \in G : rank[g] = rank[h] => g = h
         /\ {rank[g] : g \in G} = 0..(Cardinality(G) - 1)
<1> DEFINE Over(g) == {h \in G : <<h, g>> \in R}
           T == Cardinality(G)
           N == 0..(T - 1)
<1>0. T \in Nat
  BY FS_CardinalityType
<1>1. \A g \in G : Over(g) \in SUBSET G /\ g \notin Over(g) /\ rank[g] = Cardinality(Over(g))
  BY DEF Orders, Ranks
<1>2. ASSUME NEW g \in G PROVE rank[g] \in N
  <2>1. /\ IsFiniteSet(G \ {g}) /\ Cardinality(G \ {g}) = T - 1
        /\ Over(g) \in SUBSET (G \ {g})
    BY <1>1, FS_RemoveElement
  <2> HIDE DEF Over, T
  <2>2. IsFiniteSet(Over(g)) /\ Cardinality(Over(g)) <= T - 1
    BY <2>1, FS_Subset
  <2>3. Cardinality(Over(g)) \in Nat
    BY <2>2, FS_CardinalityType
  <2> QED
    BY <1>0, <1>1, <2>2, <2>3
<1>3. ASSUME NEW g \in G, NEW h \in G, <<g, h>> \in R PROVE rank[g] < rank[h]
  <2>1. Over(g) \cup {g} \in SUBSET Over(h)
    BY <1>3 DEF Orders
  <2> HIDE DEF Over
  <2>2. IsFiniteSet(Over(g)) /\ IsFiniteSet(Over(h))
    BY <1>1, FS_Subset
  <2>3. /\ Cardinality(Over(g)) \in Nat /\ Cardinality(Over(h)) \in Nat
        /\ Cardinality(Over(g) \cup {g}) = Cardinality(Over(g)) + 1
    BY <1>1, <2>2, FS_CardinalityType, FS_AddElement
  <2>4. Cardinality(Over(g) \cup {g}) <= Cardinality(Over(h))
    BY <2>1, <2>2, FS_Subset
  <2> QED
    BY <1>1, <2>3, <2>4
<1>4. ASSUME NEW g \in G, NEW h \in G, rank[g] = rank[h] PROVE g = h
  <2>1. \A x \in G : rank[x] \in Int
    BY <1>2
  <2>2. ~(rank[g] < rank[h]) /\ ~(rank[h] < rank[g])
    BY <1>4, <2>1
  <2> QED
    BY <1>3, <2>2 DEF Orders
<1> HIDE DEF Over
<1>5. rank \in Injection(G, N)
  <2>1. rank \in [G -> N]
    BY <1>2 DEF Ranks
  <2> QED
    BY <1>4, <2>1 DEF Injection, IsInjective
<1>6. IsFiniteSet(N) /\ Cardinality(N) = T
  BY <1>0, FS_Interval
<1>7. rank \in Surjection(G, N)
  BY <1>5, <1>6, FS_Injection
<1>8. {rank[g] : g \in G} = N
  <2>1. \A i \in N : \E g \in G : rank[g] = i
    BY <1>7 DEF Surjection
  <2> QED
    BY <1>2, <2>1
<1> QED
  BY <1>2, <1>4, <1>8

\* The members whose ranks are on one page.
PageOf(rank, G, L, n) == {g \in G : rank[g] \div L = n}

\* Pages are full but for the last, and together they are the list.
PagesFill(rank, G, L) ==
  LET T == Cardinality(G)
      pages == 0..((T - 1) \div L)
  IN  /\ \A n \in pages : Cardinality(PageOf(rank, G, L, n)) = Min({L, T - n * L})
      /\ \A g \in G : \E n \in pages : g \in PageOf(rank, G, L, n)

\* An order's ranks fill pages so.
LEMMA PagesOfRanks ==
  ASSUME NEW G, IsFiniteSet(G), NEW R, Orders(R, G), NEW L \in Nat \ {0}
  PROVE  PagesFill(Ranks(R, G), G, L)
<1>0. PICK rank, T, pages : rank = Ranks(R, G) /\ T = Cardinality(G) /\ pages = 0..((T - 1) \div L)
  OBVIOUS
<1>1. /\ \A g \in G : rank[g] \in 0..(T - 1)
      /\ \A g \in G, h \in G : rank[g] = rank[h] => g = h
      /\ {rank[g] : g \in G} = 0..(T - 1)
  <2>1. /\ \A g \in G : rank[g] \in 0..(Cardinality(G) - 1)
        /\ \A g \in G, h \in G : rank[g] = rank[h] => g = h
        /\ {rank[g] : g \in G} = 0..(Cardinality(G) - 1)
    BY ONLY <1>0, IsFiniteSet(G), Orders(R, G), RanksAreDistinct
  <2> QED
    BY <1>0, <2>1
<1>2. T \in Nat
  BY <1>0, FS_CardinalityType
<1>3. ASSUME NEW i \in 0..(T - 1) PROVE i \div L \in pages
  <2>0. i \in Nat /\ T - 1 \in Nat /\ i <= T - 1
    BY <1>0, <1>2
  <2>1. i \div L \in Nat /\ (T - 1) \div L \in Nat
    BY ONLY <2>0, L \in Nat \ {0}, Quotient
  <2> DEFINE d == i \div L
             e == (T - 1) \div L
  <2>2. d * L <= i /\ T - 1 < e * L + L
    BY ONLY <2>0, <2>1, L \in Nat \ {0}, Quotient
  <2>3. d <= e
    <3>1. \A x \in Nat, y \in Nat, z \in Nat : x + 1 <= y => x * z + z <= y * z
      <4> TAKE x \in Nat, y \in Nat, z \in Nat
      <4>1. (y - x - 1) * z = y * z - x * z - z
        OBVIOUS
      <4>2. \A a \in Nat : a * z \in Nat
        OBVIOUS
      <4>3. x * z \in Int /\ y * z \in Int
        OBVIOUS
      <4> QED
        BY <4>1, <4>2, <4>3
    <3>2. d \in Nat /\ e \in Nat
      BY <2>1
    <3> HIDE DEF d, e
    <3>3. ~(e + 1 <= d)
      BY <2>0, <2>2, <3>1, <3>2
    <3> QED
      BY <3>2, <3>3
  <2> QED
    BY <1>0, <2>1, <2>3
<1>4. ASSUME NEW n \in pages PROVE Cardinality(PageOf(rank, G, L, n)) = Min({L, T - n * L})
  <2> DEFINE P == {g \in G : rank[g] \div L = n}
             top == Min({L, T - n * L})
             I == (n * L)..(n * L + top - 1)
  <2>0. G # {} /\ n \in Nat /\ n * L \in Nat /\ n * L <= T - 1
    <3>1. CASE T = 0
      <4>1. (T - 1) \div L \in Int /\ ~(0 <= (T - 1) \div L)
        <5>1. PICK d \in Int : d = (0 - 1) \div L
          OBVIOUS
        <5>2. d * L <= -1
          BY <5>1
        <5>3. \A x \in Nat, z \in Nat : x * z \in Nat
          OBVIOUS
        <5>4. ~(0 <= d)
          BY <5>2, <5>3
        <5> QED
          BY <3>1, <5>1, <5>4
      <4> QED
        BY <1>0, <1>4, <4>1
    <3>2. CASE T # 0
      <4>1. T - 1 \in Nat
        BY <1>2, <3>2
      <4>2. PICK e \in Nat : e = (T - 1) \div L /\ e * L <= T - 1
        BY <4>1, Quotient
      <4>3. n \in Nat /\ n <= e
        BY <1>0, <1>4, <4>2
      <4>4. \A x \in Nat, y \in Nat, z \in Nat : x <= y => x * z <= y * z
        OBVIOUS
      <4>5. n * L <= e * L /\ n * L \in Nat /\ e * L \in Nat
        BY <4>2, <4>3, <4>4
      <4>6. G # {}
        BY <1>0, <3>2, FS_EmptySet
      <4>7. \A x \in Int, y \in Int, z \in Int : x <= y /\ y <= z => x <= z
        OBVIOUS
      <4>8. n * L <= T - 1
        BY <4>1, <4>2, <4>5, <4>7
      <4> QED
        BY <4>3, <4>5, <4>6, <4>8
    <3> QED
      BY <3>1, <3>2
  <2>1. top \in Int /\ top >= 1 /\ top <= L /\ top <= T - n * L /\ (top = L \/ top = T - n * L)
    <3>1. \A a \in Int, b \in Int : Min({a, b}) = IF a <= b THEN a ELSE b
      BY DEF Min
    <3>2. PICK m \in Nat : m = n * L
      BY <2>0
    <3> QED
      BY <1>2, <2>0, <3>1, <3>2
  <2>2. \A i \in 0..(T - 1) : i \div L = n <=> i \in I
    <3> TAKE i \in 0..(T - 1)
    <3>1. i \div L = n <=> n * L <= i /\ i < n * L + L
      BY <2>0, Quotient
    <3>2. PICK m \in Nat : m = n * L
      BY <2>0
    <3> HIDE DEF top
    <3> QED
      BY <1>2, <2>1, <3>1, <3>2
  <2>3. I \subseteq 0..(T - 1) /\ IsFiniteSet(I) /\ Cardinality(I) = top
    <3>2. PICK m \in Nat : m = n * L
      BY <2>0
    <3> HIDE DEF top
    <3>3. m + top - 1 \in Int /\ ~(m > m + top - 1) /\ (m + top - 1) - m + 1 = top
      BY <2>1
    <3>4. IsFiniteSet(m..(m + top - 1)) /\ Cardinality(m..(m + top - 1)) = top
      BY <3>3, FS_Interval
    <3> QED
      BY <1>2, <2>1, <3>2, <3>4
  <2>4. {rank[g] : g \in P} = I
    <3> HIDE DEF I
    <3>1. ASSUME NEW g \in P PROVE rank[g] \in I
      BY <1>1, <2>2
    <3>2. ASSUME NEW i \in I PROVE \E g \in P : rank[g] = i
      <4>1. i \in 0..(T - 1) /\ i \div L = n
        BY <2>2, <2>3
      <4>2. PICK g \in G : rank[g] = i
        BY <1>1, <4>1
      <4> QED
        BY <4>1, <4>2
    <3> HIDE DEF P
    <3> QED
      BY <3>1, <3>2
  <2>5. IsFiniteSet(P) /\ P \subseteq G
    BY FS_Subset
  <2> HIDE DEF P, I, top
  <2>6. Cardinality(I) = Cardinality(P)
    <3>1. \A g \in P, h \in P : rank[g] = rank[h] => g = h
      BY <1>1, <2>5
    <3>2. I = Named(rank, P)
      BY <2>4 DEF Named
    <3> QED
      BY ONLY <2>5, <3>1, <3>2, SameNumber
  <2> QED
    BY <2>3, <2>6 DEF P, top, PageOf
<1>5. ASSUME NEW g \in G PROVE \E n \in pages : g \in PageOf(rank, G, L, n)
  <2>1. rank[g] \div L \in pages
    BY <1>1, <1>3
  <2> QED
    BY <2>1 DEF PageOf
<1> QED
  BY <1>0, <1>4, <1>5 DEF PagesFill

-----------------------------------------------------------------------------
(* What is stored.                                                         *)

\* What is stored has an id of its own, and a row has what its writer gave it.
StoredOK(s) ==
  /\ IsFiniteSet(s)
  /\ \A r \in s : r.id \in Nat /\ r.time \in Nat
  /\ \A r \in s, q \in s : r.id = q.id => r = q

SeenOK(s) ==
  /\ StoredOK(s)
  /\ \A r \in s :
       /\ r.ip \in Nat /\ r.country \in Nat /\ r.ja4 \in Nat /\ r.score \in Nat
       /\ r.knownBot \in BOOLEAN /\ (r.knownBot => r.ja4 # 0)

VisitedOK(s) ==
  /\ StoredOK(s)
  /\ \A e \in s : e.path \in Nat /\ e.isPageview \in BOOLEAN /\ e.isBot \in BOOLEAN

\* Ids are given in turn.
InTurn(s) == \A r \in s : r.id < Cardinality(s)

ReadInv ==
  /\ now \in Nat
  /\ SeenOK(snapshots) /\ InTurn(snapshots)
  /\ VisitedOK(events) /\ InTurn(events)

\* What is stored next.
LEMMA OneMore ==
  ASSUME NEW s, StoredOK(s), InTurn(s), now \in Nat,
         NEW r, r.id = Cardinality(s), r.time = now, NEW t, t = s \cup {r}
  PROVE  StoredOK(t) /\ InTurn(t)
<1>1. Cardinality(s) \in Nat
  BY FS_CardinalityType DEF StoredOK
<1>3. r \notin s
  BY <1>1 DEF InTurn
<1>4. IsFiniteSet(t) /\ Cardinality(t) = Cardinality(s) + 1
  BY <1>3, FS_AddElement DEF StoredOK
<1>5. \A q \in s : q.id \in Nat /\ q.id < Cardinality(s)
  BY DEF StoredOK, InTurn
<1>6. \A q \in t : q.id < Cardinality(t)
  BY <1>1, <1>4, <1>5
<1>7. \A q \in t, p \in t : q.id = p.id => q = p
  BY <1>1, <1>5 DEF StoredOK
<1>8. \A q \in t : q.id \in Nat /\ q.time \in Nat
  BY <1>1 DEF StoredOK
<1> QED
  BY <1>4, <1>6, <1>7, <1>8 DEF StoredOK, InTurn

\* The tables are empty at first, and every step keeps them as they should be.
LEMMA ReadStarts == ReadInit => ReadInv
BY FS_EmptySet DEF ReadInit, ReadInv, SeenOK, VisitedOK, StoredOK, InTurn

\* No writer takes an id that is given, or stores what is not of its kind.
LEMMA ReadKeeps == ReadInv /\ [ReadNext]_readVars => ReadInv'
<1> SUFFICES ASSUME ReadInv, [ReadNext]_readVars PROVE ReadInv'
  OBVIOUS
<1>1. ASSUME NEW c \in Clients, Flush(c) PROVE ReadInv'
  <2>1. PICK r : r = Stamped(c, snapshots)
    OBVIOUS
  <2>2. snapshots' = snapshots \cup {r} /\ now' = now /\ events' = events
    BY <1>1, <2>1 DEF Flush
  <2>3. /\ c \in [ip : Nat, hash : Nat, country : Nat, ja4 : Nat, knownBot : BOOLEAN,
                  score : Nat]
        /\ c.knownBot => c.ja4 # 0
    BY ReadApiAssumption
  <2>4. /\ r.id = Cardinality(snapshots) /\ r.time = now
        /\ r.ip = c.ip /\ r.country = c.country /\ r.ja4 = c.ja4 /\ r.score = c.score
        /\ r.knownBot = c.knownBot
    BY <2>1, <2>3 DEF Stamped
  <2>5. /\ r.ip \in Nat /\ r.country \in Nat /\ r.ja4 \in Nat /\ r.score \in Nat
        /\ r.knownBot \in BOOLEAN /\ (r.knownBot => r.ja4 # 0)
    BY <2>3, <2>4
  <2>6. StoredOK(snapshots') /\ InTurn(snapshots')
    BY <2>2, <2>4, OneMore DEF ReadInv, SeenOK
  <2> QED
    BY <2>2, <2>5, <2>6 DEF ReadInv, SeenOK
<1>2. ASSUME NEW v \in Visits, Receive(v) PROVE ReadInv'
  <2>1. PICK e : e = Stamped(v, events)
    OBVIOUS
  <2>2. events' = events \cup {e} /\ now' = now /\ snapshots' = snapshots
    BY <1>2, <2>1 DEF Receive
  <2>3. v \in [visitor : Nat, isPageview : BOOLEAN, path : Nat, campaign : Nat,
               isBot : BOOLEAN, ip : Nat, hash : Nat, country : Nat, name : Nat]
    BY ReadApiAssumption
  <2>4. /\ e.id = Cardinality(events) /\ e.time = now
        /\ e.path = v.path /\ e.isPageview = v.isPageview /\ e.isBot = v.isBot
    BY <2>1, <2>3 DEF Stamped
  <2>5. e.path \in Nat /\ e.isPageview \in BOOLEAN /\ e.isBot \in BOOLEAN
    BY <2>3, <2>4
  <2>6. StoredOK(events') /\ InTurn(events')
    BY <2>2, <2>4, OneMore DEF ReadInv, VisitedOK
  <2> QED
    BY <2>2, <2>5, <2>6 DEF ReadInv, VisitedOK
<1>3. CASE Pass
  BY <1>3 DEF Pass, ReadInv
<1>4. CASE UNCHANGED readVars
  BY <1>4 DEF readVars, ReadInv
<1> QED
  BY <1>1, <1>2, <1>3, <1>4 DEF ReadNext

\* A part of what is stored is as it should be too.
LEMMA PartsOfStored ==
  ASSUME NEW s, NEW t \in SUBSET s
  PROVE  /\ IsFiniteSet(s) => IsFiniteSet(t)
         /\ StoredOK(s) => StoredOK(t)
         /\ SeenOK(s) => SeenOK(t)
         /\ VisitedOK(s) => VisitedOK(t)
<1>1. IsFiniteSet(s) => IsFiniteSet(t)
  BY FS_Subset
<1>2. StoredOK(s) => StoredOK(t)
  BY <1>1 DEF StoredOK
<1> QED
  BY <1>1, <1>2 DEF SeenOK, VisitedOK

\* The largest of the values of a column, nought if there is none.
LEMMA LargestIs ==
  ASSUME NEW V \in SUBSET Nat, IsFiniteSet(V)
  PROVE  /\ Max(V \cup {0}) \in V \cup {0} /\ Max(V \cup {0}) \in Nat
         /\ \A x \in V : x <= Max(V \cup {0})
         /\ \A m \in V \cup {0} : (\A x \in V : x <= m) => Max(V \cup {0}) = m
<1>1. V \cup {0} \in SUBSET Int /\ V \cup {0} # {} /\ IsFiniteSet(V \cup {0})
  BY FS_AddElement
<1> DEFINE top == Max(V \cup {0})
<1> HIDE DEF top
<1>2. top \in V \cup {0} /\ \A x \in V \cup {0} : x <= top
  BY <1>1, LargestOf DEF top
<1>3. top \in Nat /\ \A m \in V \cup {0} : m \in Nat
  <2>1. V \cup {0} \subseteq Nat
    OBVIOUS
  <2> QED
    BY <1>2, <2>1
<1>4. ASSUME NEW m \in V \cup {0}, \A x \in V : x <= m PROVE top = m
  BY <1>2, <1>3, <1>4
<1> QED
  BY <1>2, <1>3, <1>4 DEF top

\* The scores and countries of rows.
LEMMA ColumnsAreNumbers ==
  ASSUME NEW s, SeenOK(s)
  PROVE  /\ {r.score : r \in s} \in SUBSET Nat /\ IsFiniteSet({r.score : r \in s})
         /\ {r.country : r \in s} \in SUBSET Nat /\ IsFiniteSet({r.country : r \in s})
         /\ AddressesIn(s) \in SUBSET Nat /\ IsFiniteSet(AddressesIn(s))
         /\ Largest(s, LAMBDA r : r.country) \in Nat
         /\ PeakScore(s) \in Nat
         /\ IsFiniteSet(Keys(s))
<1>0. IsFiniteSet(s)
  BY DEF SeenOK, StoredOK
<1> DEFINE scores == [r \in s |-> r.score]
           countries == [r \in s |-> r.country]
           ips == [r \in s |-> r.ip]
           keys == [r \in s |-> JoinKey(r)]
<1>1. /\ {r.score : r \in s} = Named(scores, s)
      /\ {r.country : r \in s} = Named(countries, s)
      /\ AddressesIn(s) = Named(ips, s)
      /\ Keys(s) = Named(keys, s)
  BY DEF AddressesIn, Column, Keys, Named
<1> HIDE DEF scores, countries, ips, keys
<1>2. /\ IsFiniteSet({r.score : r \in s}) /\ IsFiniteSet({r.country : r \in s})
      /\ IsFiniteSet(AddressesIn(s)) /\ IsFiniteSet(Keys(s))
  <2>1. IsFiniteSet(Named(scores, s))
    BY ONLY <1>0, SameNumber
  <2>2. IsFiniteSet(Named(countries, s))
    BY ONLY <1>0, SameNumber
  <2>3. IsFiniteSet(Named(ips, s))
    BY ONLY <1>0, SameNumber
  <2>4. IsFiniteSet(Named(keys, s))
    BY ONLY <1>0, SameNumber
  <2> QED
    BY <1>1, <2>1, <2>2, <2>3, <2>4
<1>3. /\ {r.score : r \in s} \in SUBSET Nat /\ {r.country : r \in s} \in SUBSET Nat
      /\ AddressesIn(s) \in SUBSET Nat
  BY DEF SeenOK, AddressesIn, Column
<1>4. /\ Largest(s, LAMBDA r : r.country) = Max({r.country : r \in s} \cup {0})
      /\ PeakScore(s) = Max({r.score : r \in s} \cup {0})
  BY DEF Largest, Column, PeakScore
<1>5. Largest(s, LAMBDA r : r.country) \in Nat /\ PeakScore(s) \in Nat
  BY <1>2, <1>3, <1>4, LargestIs
<1> QED
  BY <1>2, <1>3, <1>5

-----------------------------------------------------------------------------
(* What the collector saw, by address.                                     *)

\* Earlier and later are an order of what is stored.
LEMMA TimesAreOrdered ==
  ASSUME NEW s, StoredOK(s)
  PROVE  /\ Orders({p \in s \X s : Before(p[1], p[2])}, s)
         /\ Orders({p \in s \X s : Before(p[2], p[1])}, s)
BY DEF StoredOK, Orders, Before

\* The row that stands for an address is one of its rows, flagged if one is.
LEMMA RepresentativeIs ==
  ASSUME NEW s, SeenOK(s), s # {}
  PROVE  /\ RepresentativeRow(s) \in s
         /\ IsKnownBot(s) => RepresentativeRow(s).knownBot
<1> DEFINE Ahead(r, q) == (r.knownBot /\ ~q.knownBot) \/ (r.knownBot = q.knownBot /\ Before(q, r))
           R == {p \in s \X s : Ahead(p[1], p[2])}
<1>1. Orders(R, s)
  <2>1. \A r \in s : r.knownBot \in BOOLEAN /\ r.time \in Nat /\ r.id \in Nat
    BY DEF SeenOK, StoredOK
  <2>2. \A r \in s, q \in s : r # q => r.id # q.id
    BY DEF SeenOK, StoredOK
  <2>3. \A r \in s, q \in s : <<r, q>> \in R <=> Ahead(r, q)
    OBVIOUS
  <2> HIDE DEF R
  <2>4. \A r \in s : ~Ahead(r, r)
    BY <2>1 DEF Before
  <2>5. \A r \in s, q \in s : r # q => Ahead(r, q) \/ Ahead(q, r)
    BY <2>1, <2>2 DEF Before
  <2>6. \A r \in s, q \in s, p \in s : Ahead(r, q) /\ Ahead(q, p) => Ahead(r, p)
    BY <2>1 DEF Before
  <2> HIDE DEF Ahead
  <2> QED
    BY <2>3, <2>4, <2>5, <2>6 DEF Orders
<1>2. \E r \in s : \A q \in s \ {r} : Ahead(r, q)
  <2>1. \A r, q : <<r, q>> \in R => Ahead(r, q)
    OBVIOUS
  <2> HIDE DEF R, Ahead
  <2>2. \E r \in s : \A q \in s \ {r} : <<r, q>> \in R
    BY <1>1, FirstOf DEF SeenOK, StoredOK
  <2> QED
    BY <2>1, <2>2
<1>3. RepresentativeRow(s) \in s /\ \A q \in s \ {RepresentativeRow(s)} : Ahead(RepresentativeRow(s), q)
  BY <1>2 DEF RepresentativeRow
<1>4. ASSUME NEW q \in s, q.knownBot PROVE RepresentativeRow(s).knownBot
  BY <1>3, <1>4
<1> QED
  BY <1>3, <1>4 DEF IsKnownBot

\* Its fingerprint is one of theirs.
LEMMA FingerprintIs ==
  ASSUME NEW s, SeenOK(s)
  PROVE  /\ RepresentativeJA4(s) \in Nat
         /\ IsKnownBot(s) => \E x \in s : x.knownBot /\ x.ja4 = RepresentativeJA4(s)
<1> DEFINE printed == {r \in s : r.ja4 # 0}
<1>1. SeenOK(printed)
  BY PartsOfStored
<1>2. CASE printed = {}
  <2>1. \A r \in s : ~r.knownBot
    BY <1>2 DEF SeenOK
  <2> QED
    BY <1>2, <2>1 DEF RepresentativeJA4, IsKnownBot
<1>3. CASE printed # {}
  <2>1. RepresentativeJA4(s) = RepresentativeRow(printed).ja4
    BY <1>3 DEF RepresentativeJA4
  <2>2. /\ RepresentativeRow(printed) \in printed
        /\ IsKnownBot(printed) => RepresentativeRow(printed).knownBot
    BY <1>1, <1>3, RepresentativeIs
  <2>3. IsKnownBot(s) => IsKnownBot(printed)
    BY DEF IsKnownBot, SeenOK
  <2>4. RepresentativeRow(printed).ja4 \in Nat
    BY <2>2 DEF SeenOK
  <2> QED
    BY <2>1, <2>2, <2>3, <2>4
<1> QED
  BY <1>2, <1>3

\* How many addresses are a bot's, and what a breakdown's groups say.
BotsIn(s) == Count(AddressesIn(s), LAMBDA ip : PeakScore(RowsOf(ip, s)) >= BotScoreMin)
IpsOf(G) == Total(G, LAMBDA g : g.ips)
BotsOf(G) == Total(G, LAMBDA g : g.bots)

\* Addresses in groups by one value each.
ByValue(s, v) ==
  {[key |-> k, ips |-> Cardinality({ip \in AddressesIn(s) : v[ip] = k}),
    bots |-> Cardinality({ip \in {jp \in AddressesIn(s) : v[jp] = k} :
                            PeakScore(RowsOf(ip, s)) >= BotScoreMin})] :
   k \in {v[ip] : ip \in AddressesIn(s)}}

\* Such groups are told apart by their key, and every address is in one of them.
LEMMA AddressesInGroups ==
  ASSUME NEW s, SeenOK(s), NEW v, \A ip \in AddressesIn(s) : v[ip] \in Nat,
         NEW G, G = ByValue(s, v)
  PROVE  /\ IsFiniteSet(G)
         /\ \A g \in G : g.key \in Nat /\ g.ips \in Nat
         /\ \A g \in G, h \in G : g.key = h.key => g = h
         /\ IpsOf(G) = Cardinality(AddressesIn(s)) /\ BotsOf(G) = BotsIn(s)
<1> DEFINE A == AddressesIn(s)
           B == {ip \in A : PeakScore(RowsOf(ip, s)) >= BotScoreMin}
           K == {v[ip] : ip \in A}
           rec == [k \in K |->
             [key |-> k, ips |-> Cardinality({ip \in A : v[ip] = k}),
              bots |-> Cardinality({ip \in {jp \in A : v[jp] = k} :
                            PeakScore(RowsOf(ip, s)) >= BotScoreMin})]]
           n == [g \in G |-> g.ips]
           m == [g \in G |-> g.bots]
<1>1. IsFiniteSet(A) /\ IsFiniteSet(B) /\ B \subseteq A
  BY ColumnsAreNumbers, FS_Subset
<1>2. G = Named(rec, K) /\ \A k \in K, l \in K : rec[k] = rec[l] => k = l
  BY DEF ByValue, Named
<1>3. ASSUME NEW k \in K
      PROVE  /\ rec[k] \in G /\ rec[k].key = k
             /\ rec[k].ips = Cardinality({ip \in A : v[ip] = k})
             /\ n[rec[k]] = Cardinality(Part(A, v, k))
             /\ m[rec[k]] = Cardinality(Part(B, v, k))
  <2>1. {ip \in {jp \in A : v[jp] = k} : PeakScore(RowsOf(ip, s)) >= BotScoreMin}
          = {ip \in B : v[ip] = k}
    OBVIOUS
  <2>2. rec[k] \in G
    BY <1>2 DEF Named
  <2> QED
    BY <2>1, <2>2 DEF Part
<1>4. IsFiniteSet(K) /\ \A ip \in A : v[ip] \in K
  <2>1. IsFiniteSet(Named(v, A))
    BY <1>1, SameNumber
  <2> QED
    BY <2>1 DEF Named
<1>5. IpsOf(G) = Sum(n, G) /\ BotsOf(G) = Sum(m, G)
  BY DEF IpsOf, BotsOf, Total, FoldFunctionOnSet, Sum, MapThenSumSet
<1>6. \A k \in K : k \in Nat /\ Cardinality({ip \in A : v[ip] = k}) \in Nat
  <2> TAKE k \in K
  <2>1. IsFiniteSet({ip \in A : v[ip] = k})
    BY <1>1, FS_Subset
  <2> QED
    BY <2>1, FS_CardinalityType
<1>7. BotsIn(s) = Cardinality(B)
  BY DEF BotsIn, Count
<1> HIDE DEF A, B, K, rec, n, m
<1>8. IsFiniteSet(G) /\ Sum(n, G) = Cardinality(A)
  <2>1. \A k \in K : n[rec[k]] = Cardinality(Part(A, v, k))
    BY <1>3
  <2>2. \A k \in K, l \in K : rec[k] = rec[l] => k = l
    BY <1>2
  <2>3. G = Named(rec, K)
    BY <1>2
  <2>4. IsFiniteSet(A) /\ IsFiniteSet(K)
    BY <1>1, <1>4
  <2>5. \A ip \in A : v[ip] \in K
    BY <1>4
  <2> QED
    BY ONLY <2>1, <2>2, <2>3, <2>4, <2>5, GroupsAddUp
<1>9. Sum(m, G) = Cardinality(B)
  <2>1. \A k \in K : m[rec[k]] = Cardinality(Part(B, v, k))
    BY <1>3
  <2>2. \A ip \in B : v[ip] \in K
    BY <1>1, <1>4
  <2>3. \A k \in K, l \in K : rec[k] = rec[l] => k = l
    BY <1>2
  <2>4. G = Named(rec, K)
    BY <1>2
  <2>5. IsFiniteSet(B) /\ IsFiniteSet(K)
    BY <1>1, <1>4
  <2> QED
    BY ONLY <2>1, <2>2, <2>3, <2>4, <2>5, GroupsAddUp
<1>10. \A g \in G : \E k \in K : g = rec[k]
  BY <1>2 DEF Named
<1>11. /\ \A g \in G : g.key \in Nat /\ g.ips \in Nat
       /\ \A g \in G, h \in G : g.key = h.key => g = h
  <2>1. \A k \in K : rec[k].key = k /\ rec[k].key \in Nat /\ rec[k].ips \in Nat
    BY <1>3, <1>6
  <2> QED
    BY <1>10, <2>1
<1> QED
  BY <1>5, <1>7, <1>8, <1>9, <1>11 DEF A

\* The two breakdowns of addresses.
LEMMA AddressGroups ==
  ASSUME NEW s, SeenOK(s), NEW G \in {Countries(s), JA4s(s)}
  PROVE  /\ IsFiniteSet(G)
         /\ \A g \in G : g.key \in Nat /\ g.ips \in Nat
         /\ \A g \in G, h \in G : g.key = h.key => g = h
         /\ IpsOf(G) = Cardinality(AddressesIn(s)) /\ BotsOf(G) = BotsIn(s)
<1> DEFINE A == AddressesIn(s)
           c == [ip \in A |-> Largest(RowsOf(ip, s), LAMBDA q : q.country)]
           j == [ip \in A |-> RepresentativeJA4(RowsOf(ip, s))]
<1>1. Countries(s) = ByValue(s, c)
  BY DEF Countries, GroupAddresses, Count, ByValue
<1>0. JA4s(s) = ByValue(s, j)
  BY DEF JA4s, GroupAddresses, Count, ByValue
<1>2. \A ip \in A : c[ip] \in Nat /\ j[ip] \in Nat
  <2> TAKE ip \in A
  <2>1. SeenOK(RowsOf(ip, s))
    BY PartsOfStored DEF RowsOf
  <2>2. RepresentativeJA4(RowsOf(ip, s)) \in Nat
    BY <2>1, FingerprintIs
  <2>3. Largest(RowsOf(ip, s), LAMBDA q : q.country) \in Nat
    BY <2>1, ColumnsAreNumbers
  <2> QED
    BY <2>2, <2>3
<1>3. CASE G = Countries(s)
  <2>1. G = ByValue(s, c) /\ \A ip \in AddressesIn(s) : c[ip] \in Nat
    BY <1>1, <1>2, <1>3
  <2> HIDE DEF c, j
  <2> QED
    BY ONLY <2>1, SeenOK(s), AddressesInGroups
<1>4. CASE G = JA4s(s)
  <2>1. G = ByValue(s, j) /\ \A ip \in AddressesIn(s) : j[ip] \in Nat
    BY <1>0, <1>2, <1>4
  <2> HIDE DEF c, j
  <2> QED
    BY ONLY <2>1, SeenOK(s), AddressesInGroups
<1> QED
  BY <1>3, <1>4

\* Breakdowns of addresses are in order, and so is the list of addresses.
LEMMA LargerIsOrder ==
  ASSUME NEW G, \A g \in G : g.key \in Nat /\ g.ips \in Nat,
         \A g \in G, h \in G : g.key = h.key => g = h
  PROVE  Orders({p \in G \X G : Larger(p[1], p[2])}, G)
<1>1. \A g \in G, h \in G : <<g, h>> \in {p \in G \X G : Larger(p[1], p[2])} <=> Larger(g, h)
  OBVIOUS
<1>2. \A g \in G : ~Larger(g, g)
  BY DEF Larger
<1>3. \A g \in G, h \in G : g # h => Larger(g, h) \/ Larger(h, g)
  BY DEF Larger
<1>4. \A g \in G, h \in G, k \in G : Larger(g, h) /\ Larger(h, k) => Larger(g, k)
  BY DEF Larger
<1> QED
  BY <1>1, <1>2, <1>3, <1>4 DEF Orders

\* Addresses are, by score and then by address.
LEMMA WorseIsOrder ==
  ASSUME NEW G, \A g \in G : g.key \in Nat /\ g.score \in Nat,
         \A g \in G, h \in G : g.key = h.key => g = h
  PROVE  Orders({p \in G \X G : Worse(p[1], p[2])}, G)
<1>1. \A g \in G, h \in G : <<g, h>> \in {p \in G \X G : Worse(p[1], p[2])} <=> Worse(g, h)
  OBVIOUS
<1>2. \A g \in G : ~Worse(g, g)
  BY DEF Worse
<1>3. \A g \in G, h \in G : g # h => Worse(g, h) \/ Worse(h, g)
  BY DEF Worse
<1>4. \A g \in G, h \in G, k \in G : Worse(g, h) /\ Worse(h, k) => Worse(g, k)
  BY DEF Worse
<1> QED
  BY <1>1, <1>2, <1>3, <1>4 DEF Orders

\* Breakdowns of events are, by pageviews, visitors and key.
LEMMA BusierIsOrder ==
  ASSUME NEW G, \A g \in G : g.key \in Nat /\ g.pageviews \in Nat /\ g.visitors \in Nat,
         \A g \in G, h \in G : g.key = h.key => g = h
  PROVE  Orders({p \in G \X G : Busier(p[1], p[2])}, G)
<1>1. \A g \in G, h \in G : <<g, h>> \in {p \in G \X G : Busier(p[1], p[2])} <=> Busier(g, h)
  OBVIOUS
<1>2. \A g \in G : ~Busier(g, g)
  BY DEF Busier
<1>3. \A g \in G, h \in G : g # h => Busier(g, h) \/ Busier(h, g)
  BY DEF Busier
<1>4. \A g \in G, h \in G, k \in G : Busier(g, h) /\ Busier(h, k) => Busier(g, k)
  BY DEF Busier
<1> QED
  BY <1>1, <1>2, <1>3, <1>4 DEF Orders

\* What is in order has whole pages.
LEMMA LargerPages ==
  ASSUME NEW G, IsFiniteSet(G), \A g \in G : g.key \in Nat /\ g.ips \in Nat,
         \A g \in G, h \in G : g.key = h.key => g = h
  PROVE  PagesAreWhole(G, Larger)
<1> DEFINE R == {p \in G \X G : Larger(p[1], p[2])}
           rank == Ranks(R, G)
           T == Cardinality(G)
           pages == 0..((T - 1) \div Limit)
<1>1. Orders(R, G)
  BY LargerIsOrder
<1>2. ASSUME NEW g \in G PROVE Rank(g, G, Larger) = rank[g]
  <2>1. {h \in G : Larger(h, g)} = {h \in G : <<h, g>> \in R}
    OBVIOUS
  <2> QED
    BY <2>1 DEF Rank, Ranks, Count
<1>3. \A n : Page(n, G, Larger) = PageOf(rank, G, Limit, n)
  BY <1>2 DEF Page, PageOf
<1>4. PageTotal(G) = T
  BY DEF PageTotal
<1> HIDE DEF R, rank, T, pages
<1>5. /\ \A n \in pages : Cardinality(PageOf(rank, G, Limit, n)) = Min({Limit, T - n * Limit})
      /\ \A g \in G : \E n \in pages : g \in PageOf(rank, G, Limit, n)
  <2>1. PagesFill(rank, G, Limit)
    BY ONLY <1>1, IsFiniteSet(G), ReadApiAssumption, PagesOfRanks DEF rank
  <2> QED
    BY <2>1 DEF PagesFill, T, pages
<1>6. UNION {Page(n, G, Larger) : n \in pages} = G
  <2>1. \A n : PageOf(rank, G, Limit, n) \subseteq G
    BY DEF PageOf
  <2> QED
    BY <1>3, <1>5, <2>1
<1> QED
  BY <1>3, <1>4, <1>5, <1>6 DEF PagesAreWhole, pages

\* The list of addresses has.
LEMMA WorsePages ==
  ASSUME NEW G, IsFiniteSet(G), \A g \in G : g.key \in Nat /\ g.score \in Nat,
         \A g \in G, h \in G : g.key = h.key => g = h
  PROVE  PagesAreWhole(G, Worse)
<1> DEFINE R == {p \in G \X G : Worse(p[1], p[2])}
           rank == Ranks(R, G)
           T == Cardinality(G)
           pages == 0..((T - 1) \div Limit)
<1>1. Orders(R, G)
  BY WorseIsOrder
<1>2. ASSUME NEW g \in G PROVE Rank(g, G, Worse) = rank[g]
  <2>1. {h \in G : Worse(h, g)} = {h \in G : <<h, g>> \in R}
    OBVIOUS
  <2> QED
    BY <2>1 DEF Rank, Ranks, Count
<1>3. \A n : Page(n, G, Worse) = PageOf(rank, G, Limit, n)
  BY <1>2 DEF Page, PageOf
<1>4. PageTotal(G) = T
  BY DEF PageTotal
<1> HIDE DEF R, rank, T, pages
<1>5. /\ \A n \in pages : Cardinality(PageOf(rank, G, Limit, n)) = Min({Limit, T - n * Limit})
      /\ \A g \in G : \E n \in pages : g \in PageOf(rank, G, Limit, n)
  <2>1. PagesFill(rank, G, Limit)
    BY ONLY <1>1, IsFiniteSet(G), ReadApiAssumption, PagesOfRanks DEF rank
  <2> QED
    BY <2>1 DEF PagesFill, T, pages
<1>6. UNION {Page(n, G, Worse) : n \in pages} = G
  <2>1. \A n : PageOf(rank, G, Limit, n) \subseteq G
    BY DEF PageOf
  <2> QED
    BY <1>3, <1>5, <2>1
<1> QED
  BY <1>3, <1>4, <1>5, <1>6 DEF PagesAreWhole, pages


\* Breakdowns of events have.
LEMMA BusierPages ==
  ASSUME NEW G, IsFiniteSet(G), \A g \in G : g.key \in Nat /\ g.pageviews \in Nat /\ g.visitors \in Nat,
         \A g \in G, h \in G : g.key = h.key => g = h
  PROVE  PagesAreWhole(G, Busier)
<1> DEFINE R == {p \in G \X G : Busier(p[1], p[2])}
           rank == Ranks(R, G)
           T == Cardinality(G)
           pages == 0..((T - 1) \div Limit)
<1>1. Orders(R, G)
  BY BusierIsOrder
<1>2. ASSUME NEW g \in G PROVE Rank(g, G, Busier) = rank[g]
  <2>1. {h \in G : Busier(h, g)} = {h \in G : <<h, g>> \in R}
    OBVIOUS
  <2> QED
    BY <2>1 DEF Rank, Ranks, Count
<1>3. \A n : Page(n, G, Busier) = PageOf(rank, G, Limit, n)
  BY <1>2 DEF Page, PageOf
<1>4. PageTotal(G) = T
  BY DEF PageTotal
<1> HIDE DEF R, rank, T, pages
<1>5. /\ \A n \in pages : Cardinality(PageOf(rank, G, Limit, n)) = Min({Limit, T - n * Limit})
      /\ \A g \in G : \E n \in pages : g \in PageOf(rank, G, Limit, n)
  <2>1. PagesFill(rank, G, Limit)
    BY ONLY <1>1, IsFiniteSet(G), ReadApiAssumption, PagesOfRanks DEF rank
  <2> QED
    BY <2>1 DEF PagesFill, T, pages
<1>6. UNION {Page(n, G, Busier) : n \in pages} = G
  <2>1. \A n : PageOf(rank, G, Limit, n) \subseteq G
    BY DEF PageOf
  <2> QED
    BY <1>3, <1>5, <2>1
<1> QED
  BY <1>3, <1>4, <1>5, <1>6 DEF PagesAreWhole, pages

\* Each score is in one of the ten bands.
BandsOf(d) == Total(0..9, LAMBDA b : d[b])
InBands(p, S) == [b \in 0..9 |-> Cardinality({x \in S : Band(p[x]) = b})]

\* So the bands come to what is in them.
LEMMA BandsAddUp ==
  ASSUME NEW S, IsFiniteSet(S), NEW p, \A x \in S : p[x] \in Nat, NEW d, d = InBands(p, S)
  PROVE  BandsOf(d) = Cardinality(S)
<1> DEFINE q == [x \in S |-> Band(p[x])]
           v == [b \in 0..9 |-> d[b]]
<1>1. \A i \in Nat : Band(i) \in 0..9
  <2> TAKE i \in Nat
  <2>1. i \div 10 \in Nat
    BY Quotient
  <2>2. \A a \in Nat : Min({a, 9}) = IF a <= 9 THEN a ELSE 9
    BY DEF Min
  <2>3. \A a \in Nat : Min({a, 9}) \in 0..9
    BY <2>2
  <2> QED
    BY <2>1, <2>3 DEF Band
<1>2. \A x \in S : q[x] \in 0..9
  BY <1>1
<1>3. \A b \in 0..9 : v[b] = Cardinality(Part(S, q, b))
  BY DEF InBands, Part
<1>4. BandsOf(d) = Sum(v, 0..9)
  BY DEF BandsOf, Total, FoldFunctionOnSet, Sum, MapThenSumSet
<1>5. IsFiniteSet(0..9)
  <2>1. PICK a \in Int, b \in Int : a = 0 /\ b = 9
    OBVIOUS
  <2>2. IsFiniteSet(a..b)
    BY FS_Interval
  <2> QED
    BY <2>1, <2>2
<1> HIDE DEF q, v
<1> QED
  BY ONLY <1>2, <1>3, <1>4, <1>5, IsFiniteSet(S), PartsAddUp

\* A part has no more addresses than the whole, and no more of a bot than all.
LEMMA FewerAddresses ==
  ASSUME NEW s, SeenOK(s)
  PROVE  /\ BotsIn(s) \in Nat /\ Cardinality(AddressesIn(s)) \in Nat
         /\ BotsIn(s) <= Cardinality(AddressesIn(s))
         /\ \A t \in SUBSET s : Cardinality(AddressesIn(t)) <= Cardinality(AddressesIn(s))
<1> DEFINE B == {ip \in AddressesIn(s) : PeakScore(RowsOf(ip, s)) >= BotScoreMin}
<1>1. IsFiniteSet(AddressesIn(s)) /\ BotsIn(s) = Cardinality(B) /\ B \subseteq AddressesIn(s)
  BY ColumnsAreNumbers DEF BotsIn, Count
<1> HIDE DEF B
<1>2. \A t \in SUBSET s : AddressesIn(t) \subseteq AddressesIn(s)
  BY DEF AddressesIn, Column
<1>3. IsFiniteSet(B) /\ Cardinality(B) <= Cardinality(AddressesIn(s))
  BY <1>1, FS_Subset
<1>4. \A t \in SUBSET s : Cardinality(AddressesIn(t)) <= Cardinality(AddressesIn(s))
  BY <1>1, <1>2, FS_Subset
<1> QED
  BY <1>1, <1>3, <1>4, FS_CardinalityType

\* The list of addresses: each is in it once, with all its rows.
RowsListed(G) == Total(G, LAMBDA t : t.snapshots)

\* Each address has an entry of its own, and one that is flagged shows a
\* fingerprint of a row that is.
LEMMA AddressList ==
  ASSUME NEW s, SeenOK(s), NEW G, G = TopIPs(s)
  PROVE  /\ IsFiniteSet(G) /\ RowsListed(G) = Cardinality(s)
         /\ \A g \in G : g.key \in Nat /\ g.score \in Nat
         /\ \A g \in G, h \in G : g.key = h.key => g = h
         /\ \A t \in G : t.details.knownBot =>
              \E x \in RowsOf(t.key, s) : x.knownBot /\ x.ja4 = t.details.ja4
<1> DEFINE A == AddressesIn(s)
           ip == [x \in s |-> x.ip]
           rec == [a \in A |->
             [key |-> a, score |-> PeakScore(RowsOf(a, s)),
              snapshots |-> Cardinality(RowsOf(a, s)), details |-> Details(RowsOf(a, s))]]
           n == [g \in G |-> g.snapshots]
<1>1. IsFiniteSet(s) /\ IsFiniteSet(A) /\ A \subseteq Nat
  BY ColumnsAreNumbers DEF SeenOK, StoredOK
<1>2. G = Named(rec, A) /\ \A a \in A, b \in A : rec[a] = rec[b] => a = b
  BY DEF TopIPs, Named
<1>3. \A x \in s : ip[x] \in A
  BY DEF AddressesIn, Column
<1>4. ASSUME NEW a \in A
      PROVE  /\ rec[a] \in G /\ rec[a].key = a /\ rec[a].score = PeakScore(RowsOf(a, s))
             /\ rec[a].details = Details(RowsOf(a, s))
             /\ n[rec[a]] = Cardinality(Part(s, ip, a))
  <2>1. rec[a] \in G
    BY <1>2 DEF Named
  <2>2. RowsOf(a, s) = Part(s, ip, a)
    BY DEF RowsOf, Part
  <2> QED
    BY <2>1, <2>2
<1>5. RowsListed(G) = Sum(n, G)
  BY DEF RowsListed, Total, FoldFunctionOnSet, Sum, MapThenSumSet
<1>6. ASSUME NEW a \in A
      PROVE  /\ PeakScore(RowsOf(a, s)) \in Nat
             /\ Details(RowsOf(a, s)).knownBot =>
                  \E x \in RowsOf(a, s) : x.knownBot /\ x.ja4 = Details(RowsOf(a, s)).ja4
  <2>1. SeenOK(RowsOf(a, s))
    BY PartsOfStored DEF RowsOf
  <2>2. /\ Details(RowsOf(a, s)).knownBot = IsKnownBot(RowsOf(a, s))
        /\ Details(RowsOf(a, s)).ja4 = RepresentativeJA4(RowsOf(a, s))
    BY DEF Details
  <2>3. PeakScore(RowsOf(a, s)) \in Nat
    BY <2>1, ColumnsAreNumbers
  <2>4. IsKnownBot(RowsOf(a, s)) =>
          \E x \in RowsOf(a, s) : x.knownBot /\ x.ja4 = RepresentativeJA4(RowsOf(a, s))
    BY <2>1, FingerprintIs
  <2> QED
    BY <2>2, <2>3, <2>4
<1> HIDE DEF A, ip, rec, n
<1>7. IsFiniteSet(G) /\ Sum(n, G) = Cardinality(s)
  <2>1. \A a \in A : n[rec[a]] = Cardinality(Part(s, ip, a))
    BY <1>4
  <2>2. \A a \in A, b \in A : rec[a] = rec[b] => a = b
    BY <1>2
  <2>3. G = Named(rec, A)
    BY <1>2
  <2>4. IsFiniteSet(s) /\ IsFiniteSet(A)
    BY <1>1
  <2> QED
    BY ONLY <1>3, <2>1, <2>2, <2>3, <2>4, GroupsAddUp
<1>8. \A g \in G : \E a \in A : g = rec[a]
  BY <1>2 DEF Named
<1>9. /\ \A g \in G : g.key \in Nat /\ g.score \in Nat
      /\ \A g \in G, h \in G : g.key = h.key => g = h
  <2>1. \A a \in A : rec[a].key = a /\ rec[a].key \in Nat /\ rec[a].score \in Nat
    BY <1>1, <1>4, <1>6
  <2> QED
    BY <1>8, <2>1
<1>10. ASSUME NEW t \in G, t.details.knownBot
       PROVE  \E x \in RowsOf(t.key, s) : x.knownBot /\ x.ja4 = t.details.ja4
  <2>1. PICK a \in A : t = rec[a]
    BY <1>8
  <2>2. t.key = a /\ t.details = Details(RowsOf(a, s))
    BY <1>4, <2>1
  <2> QED
    BY <1>6, <1>10, <2>2
<1> QED
  BY <1>5, <1>7, <1>9, <1>10

\* What a page says of addresses adds up.
LEMMA AddressesAddUp ==
  ASSUME NEW r, SeenOK(r)
  PROVE  /\ SharesOfAddresses(r) /\ PagesAreWhole(TopIPs(r), Worse)
         /\ PagesAreWhole(Countries(r), Larger) /\ PagesAreWhole(JA4s(r), Larger)
<1> DEFINE addresses == Cardinality(AddressesIn(r))
           peak == [ip \in AddressesIn(r) |-> PeakScore(RowsOf(ip, r))]
<1>1. ASSUME NEW G \in {Countries(r), JA4s(r)}
      PROVE  IpsOf(G) = addresses /\ BotsOf(G) = BotsIn(r) /\ PagesAreWhole(G, Larger)
  <2>1. /\ IsFiniteSet(G) /\ \A g \in G : g.key \in Nat /\ g.ips \in Nat
        /\ \A g \in G, h \in G : g.key = h.key => g = h
        /\ IpsOf(G) = addresses /\ BotsOf(G) = BotsIn(r)
    BY AddressGroups
  <2>2. PagesAreWhole(G, Larger)
    BY ONLY <2>1, LargerPages
  <2> QED
    BY <2>1, <2>2
<1>2. BandsOf(ScoreDistribution(r)) = addresses
  <2>1. ScoreDistribution(r) = InBands(peak, AddressesIn(r))
    BY DEF ScoreDistribution, InBands, Count
  <2>2. IsFiniteSet(AddressesIn(r))
    BY ColumnsAreNumbers
  <2>3. \A ip \in AddressesIn(r) : peak[ip] \in Nat
    <3> TAKE ip \in AddressesIn(r)
    <3>1. SeenOK(RowsOf(ip, r))
      BY PartsOfStored DEF RowsOf
    <3> QED
      BY <3>1, ColumnsAreNumbers
  <2> HIDE DEF peak
  <2> QED
    BY ONLY <2>1, <2>2, <2>3, BandsAddUp
<1>3. PICK L : L = TopIPs(r)
  OBVIOUS
<1>4. /\ IsFiniteSet(L) /\ RowsListed(L) = Cardinality(r)
      /\ \A g \in L : g.key \in Nat /\ g.score \in Nat
      /\ \A g \in L, h \in L : g.key = h.key => g = h
      /\ \A t \in L : t.details.knownBot =>
              \E x \in RowsOf(t.key, r) : x.knownBot /\ x.ja4 = t.details.ja4
  BY ONLY SeenOK(r), <1>3, AddressList
<1>5. PagesAreWhole(L, Worse)
  BY ONLY <1>4, WorsePages
<1>6. \A o \in Overview(r) : o.ips = addresses /\ o.snapshots = Cardinality(r) /\ o.bots = BotsIn(r)
  BY DEF Overview, BotsIn
<1>7. Overview(r) = {} <=> r = {}
  BY DEF Overview
<1>8. \A b \in Timeseries(r) : b.bots <= b.ips /\ b.ips <= addresses
  <2> TAKE b \in Timeseries(r)
  <2>1. PICK t \in SUBSET r : b.ips = Cardinality(AddressesIn(t)) /\ b.bots = BotsIn(t)
    <3>1. PICK x \in r : b = LET part == {q \in r : BucketOf(q.time) = BucketOf(x.time)}
                             IN  [bucket |-> BucketOf(x.time), ips |-> Cardinality(AddressesIn(part)),
                                  bots |-> BotsIn(part)]
      BY DEF Timeseries, BotsIn, Count
    <3> QED
      BY <3>1
  <2>2. SeenOK(t)
    BY <2>1, PartsOfStored
  <2> QED
    BY <2>1, <2>2, FewerAddresses
<1>9. \A G \in {Countries(r), JA4s(r)} :
        Total(G, LAMBDA g : g.ips) = addresses /\ Total(G, LAMBDA g : g.bots) = BotsIn(r)
  BY <1>1 DEF IpsOf, BotsOf
<1>10. Total(0..9, LAMBDA b : ScoreDistribution(r)[b]) = addresses
  BY <1>2 DEF BandsOf
<1>11. Total(TopIPs(r), LAMBDA t : t.snapshots) = Cardinality(r)
  BY <1>3, <1>4 DEF RowsListed
<1>12. SharesOfAddresses(r)
  BY <1>3, <1>4, <1>6, <1>7, <1>8, <1>9, <1>10, <1>11 DEF SharesOfAddresses
<1> QED
  BY <1>1, <1>3, <1>5, <1>12

-----------------------------------------------------------------------------
(* What the beacon saw.                                                    *)

\* The events in groups, by the key of each.
ViewsOf(G) == Total(G, LAMBDA g : g.pageviews)
ByKey(s, k) ==
  {[key |-> x, pageviews |-> Pageviews({d \in s : k[d] = x}),
    visitors |-> Uniques({d \in s : k[d] = x})] : x \in {k[d] : d \in s}}

\* Counts of events.
LEMMA EventCounts ==
  ASSUME NEW s, VisitedOK(s)
  PROVE  /\ IsFiniteSet({e \in s : e.isPageview})
         /\ Pageviews(s) = Cardinality({e \in s : e.isPageview}) /\ Pageviews(s) \in Nat
         /\ Uniques(s) = Cardinality({e.visitor : e \in s}) /\ Uniques(s) \in Nat
<1> DEFINE V == {e \in s : e.isPageview}
           who == [e \in s |-> e.visitor]
<1>1. IsFiniteSet(s) /\ IsFiniteSet(V)
  BY FS_Subset DEF VisitedOK, StoredOK
<1>2. Pageviews(s) = Cardinality(V)
  BY DEF Pageviews, Count
<1>3. Uniques(s) = Cardinality({e.visitor : e \in s}) /\ {e.visitor : e \in s} = Named(who, s)
  BY DEF Uniques, Column, Named
<1>4. IsFiniteSet(Named(who, s))
  <2> HIDE DEF who
  <2> QED
    BY ONLY <1>1, SameNumber
<1> QED
  BY <1>1, <1>2, <1>3, <1>4, FS_CardinalityType

\* Such groups are told apart by their key, and every pageview is in one of
\* them.
LEMMA EventsInGroups ==
  ASSUME NEW s, VisitedOK(s), NEW k, NEW G, G = ByKey(s, k)
  PROVE  /\ IsFiniteSet(G) /\ ViewsOf(G) = Pageviews(s)
         /\ \A g \in G : /\ \E e \in s : g.key = k[e]
                         /\ g.pageviews \in Nat /\ g.visitors \in Nat
         /\ \A g \in G, h \in G : g.key = h.key => g = h
<1> DEFINE V == {e \in s : e.isPageview}
           K == {k[d] : d \in s}
           rec == [x \in K |->
             [key |-> x, pageviews |-> Pageviews({d \in s : k[d] = x}),
              visitors |-> Uniques({d \in s : k[d] = x})]]
           n == [g \in G |-> g.pageviews]
<1>1. IsFiniteSet(s) /\ IsFiniteSet(V) /\ Pageviews(s) = Cardinality(V) /\ V \subseteq s
  BY EventCounts DEF VisitedOK, StoredOK
<1>2. G = Named(rec, K) /\ \A x \in K, y \in K : rec[x] = rec[y] => x = y
  BY DEF ByKey, Named
<1>3. IsFiniteSet(K) /\ \A e \in V : k[e] \in K
  <2>1. IsFiniteSet(Named(k, s))
    BY <1>1, SameNumber
  <2> QED
    BY <2>1 DEF Named
<1>4. ASSUME NEW x \in K
      PROVE  /\ rec[x].key = x /\ rec[x].pageviews \in Nat /\ rec[x].visitors \in Nat
             /\ n[rec[x]] = Cardinality(Part(V, k, x))
  <2> DEFINE t == {d \in s : k[d] = x}
             W == {e \in t : e.isPageview}
  <2>1. VisitedOK(t)
    BY PartsOfStored
  <2>2. W = Part(V, k, x)
    BY DEF Part
  <2>3. rec[x] \in G
    BY <1>2 DEF Named
  <2>4. rec[x] = [key |-> x, pageviews |-> Pageviews(t), visitors |-> Uniques(t)]
    OBVIOUS
  <2> HIDE DEF t, rec
  <2>5. /\ Pageviews(t) = Cardinality(W)
        /\ Pageviews(t) \in Nat /\ Uniques(t) \in Nat
    BY <2>1, EventCounts
  <2>6. n[rec[x]] = rec[x].pageviews
    BY <2>3
  <2> HIDE DEF n, V, K, W
  <2> QED
    BY <2>2, <2>4, <2>5, <2>6
<1>5. ViewsOf(G) = Sum(n, G)
  BY DEF ViewsOf, Total, FoldFunctionOnSet, Sum, MapThenSumSet
<1>6. \A x \in K : \E e \in s : x = k[e]
  OBVIOUS
<1> HIDE DEF V, K, rec, n
<1>7. IsFiniteSet(G) /\ Sum(n, G) = Cardinality(V)
  <2>1. \A x \in K : n[rec[x]] = Cardinality(Part(V, k, x))
    BY <1>4
  <2>2. \A x \in K, y \in K : rec[x] = rec[y] => x = y
    BY <1>2
  <2>3. G = Named(rec, K)
    BY <1>2
  <2>4. IsFiniteSet(V) /\ IsFiniteSet(K)
    BY <1>1, <1>3
  <2>5. \A e \in V : k[e] \in K
    BY <1>3
  <2> QED
    BY ONLY <2>1, <2>2, <2>3, <2>4, <2>5, GroupsAddUp
<1>8. \A g \in G : \E x \in K : g = rec[x]
  BY <1>2 DEF Named
<1> QED
  BY <1>1, <1>4, <1>5, <1>6, <1>7, <1>8

\* Sessions are parts of the events that have none in common, each of one
\* visitor, and there are no others.
LEMMA SessionsAre ==
  ASSUME NEW s, VisitedOK(s)
  PROVE  /\ IsFiniteSet(Sessions(s))
         /\ \A x \in Sessions(s) : x \in SUBSET s /\ x # {}
         /\ \A x \in Sessions(s), y \in Sessions(s), e \in s : e \in x /\ e \in y => x = y
         /\ \A e \in s : \E x \in Sessions(s) : e \in x
         /\ \A x \in Sessions(s) : \A d \in x, e \in x : d.visitor = e.visitor
<1> DEFINE id == [e \in s |-> SessionOf(e, s)]
           of == [i \in Named(id, s) |-> Part(s, id, i)]
<1>1. Sessions(s) = Named(of, Named(id, s))
  BY DEF Sessions, Named, Part
<1>2. IsFiniteSet(Named(of, Named(id, s)))
  <2>1. IsFiniteSet(s)
    BY DEF VisitedOK, StoredOK
  <2> HIDE DEF id, of
  <2>2. IsFiniteSet(Named(id, s))
    BY ONLY <2>1, SameNumber
  <2> QED
    BY ONLY <2>2, SameNumber
<1>3. \A x \in Sessions(s) : \E e \in s : x = {d \in s : id[d] = id[e]}
  BY DEF Sessions
<1>4. \A e \in s : {d \in s : id[d] = id[e]} \in Sessions(s)
  BY DEF Sessions
<1>5. \A d \in s, e \in s : id[d] = id[e] => d.visitor = e.visitor
  BY DEF SessionOf
<1> HIDE DEF id, of
<1>6. \A x \in Sessions(s) : x \in SUBSET s /\ x # {}
  BY <1>3
<1>7. ASSUME NEW x \in Sessions(s), NEW y \in Sessions(s), NEW e \in s, e \in x, e \in y
      PROVE  x = y
  <2>1. x = {d \in s : id[d] = id[e]} /\ y = {d \in s : id[d] = id[e]}
    BY <1>3, <1>7
  <2> QED
    BY <2>1
<1>8. \A e \in s : \E x \in Sessions(s) : e \in x
  BY <1>4
<1>9. \A x \in Sessions(s) : \A d \in x, e \in x : d.visitor = e.visitor
  BY <1>3, <1>5
<1> QED
  BY <1>1, <1>2, <1>6, <1>7, <1>8, <1>9

\* A visitor has a session, and a session but one visitor.
LEMMA VisitorsHaveSessions ==
  ASSUME NEW s, VisitedOK(s)
  PROVE  Uniques(s) <= Cardinality(Sessions(s))
<1> DEFINE who == [x \in Sessions(s) |-> (CHOOSE e \in x : TRUE).visitor]
<1>1. {e.visitor : e \in s} = Named(who, Sessions(s))
  <2>1. \A x \in Sessions(s) : \A e \in x : who[x] = e.visitor
    BY SessionsAre
  <2> HIDE DEF who
  <2>2. \A e \in s : \E x \in Sessions(s) : e.visitor = who[x]
    BY <2>1, SessionsAre
  <2>3. \A x \in Sessions(s) : \E e \in s : e.visitor = who[x]
    BY <2>1, SessionsAre
  <2> QED
    BY <2>2, <2>3 DEF Named
<1> HIDE DEF who
<1>2. IsFiniteSet(Sessions(s))
  BY SessionsAre
<1>3. Cardinality(Named(who, Sessions(s))) <= Cardinality(Sessions(s))
  BY ONLY <1>2, SameNumber
<1> QED
  BY <1>1, <1>3, EventCounts

\* The sessions of a series are all of them: each is in the bucket it began in.
SessionsOf(G) == Total(G, LAMBDA g : g.sessions)

\* A session begins at the time of one of its events, so in one of the buckets.
LEMMA SeriesAddsUp ==
  ASSUME NEW s, VisitedOK(s)
  PROVE  SessionsOf(BeaconTimeseries(s)) = Cardinality(Sessions(s))
<1> DEFINE A == Sessions(s)
           G == BeaconTimeseries(s)
           K == {BucketOf(e.time) : e \in s}
           f == [x \in A |-> BucketOf(StartOf(x))]
           rec == [b \in K |->
             [bucket |-> b, pageviews |-> Pageviews({e \in s : BucketOf(e.time) = b}),
              visitors |-> Uniques({e \in s : BucketOf(e.time) = b}),
              sessions |-> Cardinality({x \in A : b \in BucketsOfSession(x)})]]
           n == [g \in G |-> g.sessions]
<1>1. IsFiniteSet(A) /\ IsFiniteSet(s)
  BY SessionsAre DEF VisitedOK, StoredOK
<1>2. G = Named(rec, K) /\ \A x \in K, y \in K : rec[x] = rec[y] => x = y
  BY DEF BeaconTimeseries, Named, Count
<1>3. IsFiniteSet(K)
  <2> DEFINE k == [e \in s |-> BucketOf(e.time)]
  <2>1. K = Named(k, s)
    BY DEF Named
  <2> HIDE DEF k, K
  <2> QED
    BY ONLY <1>1, <2>1, SameNumber
<1>4. ASSUME NEW x \in A PROVE f[x] \in K
  <2> DEFINE times == [e \in x |-> e.time]
  <2>1. x \in SUBSET s /\ x # {} /\ IsFiniteSet(x)
    BY <1>1, SessionsAre, FS_Subset
  <2>2. StartOf(x) = Min(Named(times, x)) /\ Named(times, x) # {}
    BY <2>1 DEF StartOf, Column, Named
  <2>6. Named(times, x) \in SUBSET Int
    <3>1. \A e \in x : e.time \in Int
      BY <2>1 DEF VisitedOK, StoredOK
    <3> QED
      BY <3>1 DEF Named
  <2>3. \A t \in Named(times, x) : \E e \in s : t = e.time
    BY <2>1 DEF Named
  <2>4. IsFiniteSet(Named(times, x))
    <3> HIDE DEF times
    <3> QED
      BY ONLY <2>1, SameNumber
  <2> HIDE DEF times
  <2>5. StartOf(x) \in Named(times, x)
    BY <2>2, <2>4, <2>6, LargestOf
  <2> QED
    BY <2>3, <2>5
<1>5. ASSUME NEW b \in K PROVE n[rec[b]] = Cardinality(Part(A, f, b))
  <2>1. Part(A, f, b) = {x \in A : b \in BucketsOfSession(x)}
    BY DEF Part, BucketsOfSession
  <2>2. rec[b] \in G
    BY <1>2 DEF Named
  <2>3. rec[b].sessions = Cardinality({x \in A : b \in BucketsOfSession(x)})
    OBVIOUS
  <2> HIDE DEF rec, A, G, K
  <2> QED
    BY <2>1, <2>2, <2>3
<1>6. SessionsOf(G) = Sum(n, G)
  BY DEF SessionsOf, Total, FoldFunctionOnSet, Sum, MapThenSumSet
<1> HIDE DEF A, G, K, f, rec, n
<1>7. Sum(n, G) = Cardinality(A)
  <2>1. \A b \in K : n[rec[b]] = Cardinality(Part(A, f, b))
    BY <1>5
  <2>2. \A x \in K, y \in K : rec[x] = rec[y] => x = y
    BY <1>2
  <2>3. G = Named(rec, K)
    BY <1>2
  <2>4. IsFiniteSet(A) /\ IsFiniteSet(K)
    BY <1>1, <1>3
  <2>5. \A x \in A : f[x] \in K
    BY <1>4
  <2> QED
    BY ONLY <2>1, <2>2, <2>3, <2>4, <2>5, GroupsAddUp
<1> QED
  BY <1>6, <1>7 DEF A, G

\* The first and the last pageview of each session that has one are as many as
\* these sessions.
Landed(s) == {x \in Sessions(s) : Pageviews(x) > 0}
EndOf(x, entry) ==
  CHOOSE e \in x : \A d \in x \ {e} : IF entry THEN Before(e, d) ELSE Before(d, e)

\* A session's end is one of its pageviews.
LEMMA EndIsThere ==
  ASSUME NEW x, StoredOK(x), x # {}, NEW entry \in BOOLEAN
  PROVE  EndOf(x, entry) \in x
<1> DEFINE Up == {p \in x \X x : Before(p[1], p[2])}
           Down == {p \in x \X x : Before(p[2], p[1])}
<1>1. Orders(Up, x) /\ Orders(Down, x)
  BY TimesAreOrdered
<1>2. \A d, e : (<<e, d>> \in Up => Before(e, d)) /\ (<<e, d>> \in Down => Before(d, e))
  OBVIOUS
<1>3. IsFiniteSet(x)
  BY DEF StoredOK
<1> HIDE DEF Up, Down
<1>4. /\ \E e \in x : \A d \in x \ {e} : <<e, d>> \in Up
      /\ \E e \in x : \A d \in x \ {e} : <<e, d>> \in Down
  BY ONLY <1>1, <1>3, x # {}, FirstOf
<1>5. \E e \in x : \A d \in x \ {e} : IF entry THEN Before(e, d) ELSE Before(d, e)
  BY <1>2, <1>4
<1> QED
  BY <1>5 DEF EndOf

\* Each session that has a pageview has an end of its own.
LEMMA EndsOfSessions ==
  ASSUME NEW s, VisitedOK(s), NEW entry \in BOOLEAN, NEW B, B = Boundary(s, entry)
  PROVE  IsFiniteSet(B) /\ Cardinality(B) = Cardinality(Landed(s)) /\ B \in SUBSET s
<1> DEFINE Views(x) == {e \in x : e.isPageview}
           end == [x \in Landed(s) |-> EndOf(Views(x), entry)]
<1>1. ASSUME NEW x \in Sessions(s)
      PROVE  /\ Views(x) \in SUBSET x /\ x \in SUBSET s /\ StoredOK(Views(x))
             /\ (Pageviews(x) > 0 <=> Views(x) # {})
  <2>1. x \in SUBSET s
    BY SessionsAre
  <2>2. VisitedOK(x) /\ StoredOK(Views(x))
    BY <2>1, PartsOfStored DEF VisitedOK
  <2>3. Pageviews(x) = Cardinality(Views(x)) /\ IsFiniteSet(Views(x)) /\ Pageviews(x) \in Nat
    BY <2>2, EventCounts
  <2> HIDE DEF Views
  <2>4. Cardinality(Views(x)) = 0 <=> Views(x) = {}
    BY <2>3, FS_EmptySet
  <2>5. Pageviews(x) > 0 <=> Views(x) # {}
    BY <2>3, <2>4
  <2> QED
    BY <2>1, <2>2, <2>5 DEF Views
<1>2. \A x \in Landed(s) : end[x] \in x /\ end[x] \in s /\ x \in Sessions(s)
  <2> TAKE x \in Landed(s)
  <2>1. x \in Sessions(s) /\ Views(x) # {} /\ StoredOK(Views(x))
    BY <1>1 DEF Landed
  <2>2. EndOf(Views(x), entry) \in Views(x)
    <3> HIDE DEF Views
    <3> QED
      BY <2>1, EndIsThere
  <2> QED
    BY <1>1, <2>1, <2>2
<1>3. \A x \in Landed(s), y \in Landed(s) : end[x] = end[y] => x = y
  <2> HIDE DEF end
  <2> QED
    BY <1>2, SessionsAre
<1>4. B = Named(end, Landed(s))
  <2>1. B = {EndOf(v, entry) : v \in {Views(x) : x \in Sessions(s)} \ {{}}}
    BY DEF Boundary, EndOf
  <2>2. {Views(x) : x \in Sessions(s)} \ {{}} = {Views(x) : x \in Landed(s)}
    BY <1>1 DEF Landed
  <2>3. B = {EndOf(v, entry) : v \in {Views(x) : x \in Landed(s)}}
    BY <2>1, <2>2
  <2> HIDE DEF Views
  <2> QED
    BY <2>3 DEF Named
<1>5. IsFiniteSet(Landed(s))
  BY SessionsAre, FS_Subset DEF Landed
<1> HIDE DEF end
<1>6. IsFiniteSet(B) /\ Cardinality(B) = Cardinality(Landed(s))
  BY ONLY <1>3, <1>4, <1>5, SameNumber
<1>7. B \in SUBSET s
  BY <1>2, <1>4 DEF Named
<1> QED
  BY <1>6, <1>7

\* So the entry pages, and the exit pages, come to the sessions that landed.
LEMMA BoundaryAddsUp ==
  ASSUME NEW s, VisitedOK(s), NEW entry \in BOOLEAN
  PROVE  SessionsOf(BoundaryPages(s, entry)) = Cardinality(Landed(s))
<1> DEFINE A == Boundary(s, entry)
           G == BoundaryPages(s, entry)
           f == [e \in A |-> e.path]
           K == {e.path : e \in A}
           rec == [p \in K |-> [key |-> p, sessions |-> Cardinality({e \in A : e.path = p})]]
           n == [g \in G |-> g.sessions]
<1>1. IsFiniteSet(A) /\ Cardinality(A) = Cardinality(Landed(s))
  BY EndsOfSessions
<1>2. G = Named(rec, K) /\ \A p \in K, q \in K : rec[p] = rec[q] => p = q
  BY DEF BoundaryPages, Column, Count, Named
<1>3. K = Named(f, A) /\ \A e \in A : f[e] \in K
  BY DEF Named
<1>4. ASSUME NEW p \in K PROVE n[rec[p]] = Cardinality(Part(A, f, p))
  <2>1. Part(A, f, p) = {e \in A : e.path = p}
    BY DEF Part
  <2>2. rec[p] \in G
    BY <1>2 DEF Named
  <2>3. rec[p].sessions = Cardinality({e \in A : e.path = p})
    OBVIOUS
  <2> HIDE DEF rec, A, G, K
  <2> QED
    BY <2>1, <2>2, <2>3
<1>5. SessionsOf(G) = Sum(n, G)
  BY DEF SessionsOf, Total, FoldFunctionOnSet, Sum, MapThenSumSet
<1> HIDE DEF A, G, K, f, rec, n
<1>6. IsFiniteSet(K)
  BY ONLY <1>1, <1>3, SameNumber
<1>7. Sum(n, G) = Cardinality(A)
  <2>1. \A p \in K : n[rec[p]] = Cardinality(Part(A, f, p))
    BY <1>4
  <2>2. \A p \in K, q \in K : rec[p] = rec[q] => p = q
    BY <1>2
  <2>3. G = Named(rec, K)
    BY <1>2
  <2>4. IsFiniteSet(A) /\ IsFiniteSet(K)
    BY <1>1, <1>6
  <2>5. \A e \in A : f[e] \in K
    BY <1>3
  <2> QED
    BY ONLY <2>1, <2>2, <2>3, <2>4, <2>5, GroupsAddUp
<1> QED
  BY <1>1, <1>5, <1>7 DEF A, G

\* What a page says of events adds up.
LEMMA EventsAddUp ==
  ASSUME NEW s, VisitedOK(s), NEW from, NEW to
  PROVE  SharesOf(s, from, to) /\ PagesAreWhole(BeaconPaths(s), Busier)
<1> DEFINE path == [e \in s |-> e.path]
           country == [e \in s |-> ResolvedCountry(e, s, from, to)]
           all == Cardinality(Sessions(s))
           landed == Count(Sessions(s), LAMBDA x : Pageviews(x) > 0)
           bounced == Count(Sessions(s), LAMBDA x : Pageviews(x) <= 1)
<1>1. BeaconPaths(s) = ByKey(s, path) /\ BeaconCountries(s, from, to) = ByKey(s, country)
  BY DEF BeaconPaths, BeaconCountries, Breakdown, Column, ByKey
<1>2. \A e \in s : path[e] \in Nat
  BY DEF VisitedOK
<1> HIDE DEF path, country
<1>3. PagesAreWhole(BeaconPaths(s), Busier) /\ ViewsOf(BeaconPaths(s)) = Pageviews(s)
  <2>1. PICK G : G = ByKey(s, path) /\ G = BeaconPaths(s)
    BY <1>1
  <2>2. /\ IsFiniteSet(G) /\ ViewsOf(G) = Pageviews(s)
        /\ \A g \in G : /\ \E e \in s : g.key = path[e]
                        /\ g.pageviews \in Nat /\ g.visitors \in Nat
        /\ \A g \in G, h \in G : g.key = h.key => g = h
    BY ONLY VisitedOK(s), <2>1, EventsInGroups
  <2>3. \A g \in G : g.key \in Nat /\ g.pageviews \in Nat /\ g.visitors \in Nat
    BY <1>2, <2>2
  <2>4. PagesAreWhole(G, Busier)
    BY ONLY <2>2, <2>3, BusierPages
  <2> QED
    BY <2>1, <2>2, <2>4
<1>4. ViewsOf(BeaconCountries(s, from, to)) = Pageviews(s)
  <2>1. PICK G : G = ByKey(s, country) /\ G = BeaconCountries(s, from, to)
    BY <1>1
  <2>2. ViewsOf(G) = Pageviews(s)
    BY ONLY VisitedOK(s), <2>1, EventsInGroups
  <2> QED
    BY <2>1, <2>2
<1>5. /\ Summary(s).sessions = all /\ Summary(s).pageviews = Pageviews(s)
      /\ Summary(s).visitors = Uniques(s) /\ Summary(s).bounced = bounced
  BY DEF Summary
<1>6. landed = Cardinality(Landed(s))
  BY DEF Count, Landed
<1>7. all - landed <= bounced
  <2> DEFINE Few == {x \in Sessions(s) : Pageviews(x) <= 1}
  <2>1. IsFiniteSet(Sessions(s)) /\ Landed(s) \in SUBSET Sessions(s)
    BY SessionsAre DEF Landed
  <2>2. \A x \in Sessions(s) : Pageviews(x) \in Nat
    BY SessionsAre, PartsOfStored, EventCounts
  <2>3. Sessions(s) \ Landed(s) \subseteq Few /\ bounced = Cardinality(Few)
    BY <2>2 DEF Landed, Count
  <2>4. /\ Cardinality(Landed(s)) \in Nat /\ Cardinality(Sessions(s) \ Landed(s)) \in Nat
        /\ all = Cardinality(Landed(s)) + Cardinality(Sessions(s) \ Landed(s))
    BY <2>1, SplitNumber
  <2>5. IsFiniteSet(Few)
    BY <2>1, FS_Subset
  <2> HIDE DEF Few, bounced, landed, all
  <2>6. Cardinality(Sessions(s) \ Landed(s)) <= Cardinality(Few) /\ Cardinality(Few) \in Nat
    BY <2>3, <2>5, FS_Subset, FS_CardinalityType
  <2> QED
    BY <1>6, <2>3, <2>4, <2>6
<1>8. Total(BeaconTimeseries(s), LAMBDA b : b.sessions) = all
  BY SeriesAddsUp DEF SessionsOf
<1>9. \A entry \in BOOLEAN : Total(BoundaryPages(s, entry), LAMBDA p : p.sessions) = landed
  BY <1>6, BoundaryAddsUp DEF SessionsOf
<1>10. \A G \in {BeaconPaths(s), BeaconCountries(s, from, to)} :
         Total(G, LAMBDA g : g.pageviews) = Pageviews(s)
  BY <1>3, <1>4 DEF ViewsOf
<1>11. \A e \in s : e.country = 0 => ResolvedCountry(e, s, from, to) = ProbedCountry(e.ip, from, to)
  BY DEF ResolvedCountry, Probed
<1>12. Uniques(s) <= all
  BY VisitorsHaveSessions
<1> HIDE DEF all, landed, bounced
<1>13. SharesOf(s, from, to)
  BY <1>5, <1>7, <1>8, <1>9, <1>10, <1>11, <1>12 DEF SharesOf, landed
<1> QED
  BY <1>3, <1>13

\* Named events and campaigns come to what they are of.
LEMMA ListsAddUp ==
  ASSUME NEW s, VisitedOK(s)
  PROVE  /\ Total(NamedEvents(s), LAMBDA n : n.count) = Summary(s).events
         /\ Total(Campaigns(s), LAMBDA g : g.pageviews) = Pageviews({e \in s : e.campaign # 0})
<1>1. Total(Campaigns(s), LAMBDA g : g.pageviews) = Pageviews({e \in s : e.campaign # 0})
  <2> DEFINE t == {e \in s : e.campaign # 0}
             k == [e \in t |-> e.campaign]
  <2>1. VisitedOK(t)
    BY PartsOfStored
  <2>2. Campaigns(s) = ByKey(t, k)
    BY DEF Campaigns, Breakdown, Column, ByKey
  <2> HIDE DEF t, k
  <2>3. PICK G : G = ByKey(t, k) /\ G = Campaigns(s)
    BY <2>2
  <2>4. ViewsOf(G) = Pageviews(t)
    BY ONLY <2>1, <2>3, EventsInGroups
  <2> QED
    BY <2>3, <2>4 DEF ViewsOf, t
<1>2. Total(NamedEvents(s), LAMBDA n : n.count) = Summary(s).events
  <2> DEFINE A == {e \in s : ~e.isPageview}
             G == NamedEvents(s)
             f == [e \in A |-> e.name]
             K == {e.name : e \in A}
             rec == [k \in K |->
               [name |-> k, count |-> Cardinality({e \in A : e.name = k}),
                visitors |-> Uniques({e \in A : e.name = k})]]
             n == [g \in G |-> g.count]
  <2>1. IsFiniteSet(A) /\ Summary(s).events = Cardinality(A)
    BY FS_Subset DEF VisitedOK, StoredOK, Summary, Count
  <2>2. G = Named(rec, K) /\ \A p \in K, q \in K : rec[p] = rec[q] => p = q
    BY DEF NamedEvents, Column, Named
  <2>3. K = Named(f, A) /\ \A e \in A : f[e] \in K
    BY DEF Named
  <2>4. ASSUME NEW k \in K PROVE n[rec[k]] = Cardinality(Part(A, f, k))
    <3>1. Part(A, f, k) = {e \in A : e.name = k}
      BY DEF Part
    <3>2. rec[k] \in G
      BY <2>2 DEF Named
    <3>3. rec[k].count = Cardinality({e \in A : e.name = k})
      OBVIOUS
    <3> HIDE DEF rec, A, G, K
    <3> QED
      BY <3>1, <3>2, <3>3
  <2>5. Total(G, LAMBDA g : g.count) = Sum(n, G)
    BY DEF Total, FoldFunctionOnSet, Sum, MapThenSumSet
  <2> HIDE DEF A, G, K, f, rec, n
  <2>6. IsFiniteSet(K)
    BY ONLY <2>1, <2>3, SameNumber
  <2>7. Sum(n, G) = Cardinality(A)
    <3>1. \A k \in K : n[rec[k]] = Cardinality(Part(A, f, k))
      BY <2>4
    <3>2. \A p \in K, q \in K : rec[p] = rec[q] => p = q
      BY <2>2
    <3>3. G = Named(rec, K)
      BY <2>2
    <3>4. IsFiniteSet(A) /\ IsFiniteSet(K)
      BY <2>1, <2>6
    <3>5. \A e \in A : f[e] \in K
      BY <2>3
    <3> QED
      BY ONLY <3>1, <3>2, <3>3, <3>4, <3>5, GroupsAddUp
  <2> QED
    BY <2>1, <2>5, <2>7 DEF G
<1> QED
  BY <1>1, <1>2

-----------------------------------------------------------------------------
(* Both sources at once.                                                   *)

\* The rows of a key, and its groups by the two columns.
OwnRows(k, r) == {q \in r : JoinKey(q) = k}
OwnPairs(k, r) == {p \in CollectorPairs(r) : JoinKey(p) = k}
PairOf(q) == <<q.hash, q.ip>>
PairRows(a, r) == {q \in r : q.hash = a[1] /\ q.ip = a[2]}
SnapshotsOf(P) == Total(P, LAMBDA p : p.snapshots)

\* There are no more keys than rows.
LEMMA KeysAreFinite ==
  ASSUME NEW s, IsFiniteSet(s)
  PROVE  IsFiniteSet(Keys(s))
<1> DEFINE keys == [r \in s |-> JoinKey(r)]
<1>1. Keys(s) = Named(keys, s)
  BY DEF Keys, Column, Named
<1> HIDE DEF keys
<1> QED
  BY ONLY <1>1, IsFiniteSet(s), SameNumber

\* A group has the rows of its two columns, and its key is theirs.
LEMMA PairsAre ==
  ASSUME NEW r, SeenOK(r)
  PROVE  /\ \A p \in CollectorPairs(r) :
              /\ \E q \in r : PairOf(q) = <<p.hash, p.ip>>
              /\ p.score = PeakScore(PairRows(<<p.hash, p.ip>>, r)) /\ p.score \in Nat
              /\ p.snapshots = Cardinality(PairRows(<<p.hash, p.ip>>, r))
              /\ \A q \in PairRows(<<p.hash, p.ip>>, r) : JoinKey(q) = JoinKey(p)
         /\ \A q \in r : \E p \in CollectorPairs(r) :
              /\ p.hash = q.hash /\ p.ip = q.ip /\ JoinKey(p) = JoinKey(q)
              /\ q \in PairRows(<<p.hash, p.ip>>, r)
         /\ \A p \in CollectorPairs(r), o \in CollectorPairs(r) :
              p.hash = o.hash /\ p.ip = o.ip => p = o
<1> DEFINE pair(a) == [hash |-> a[1], ip |-> a[2], score |-> PeakScore(PairRows(a, r)),
                       snapshots |-> Cardinality(PairRows(a, r))]
           rec(h, i) == pair(<<h, i>>)
<1>0. CollectorPairs(r) = {pair(a) : a \in {<<q.hash, q.ip>> : q \in r}}
  BY DEF CollectorPairs, PairRows
<1>1. /\ \A p \in CollectorPairs(r) : \E q \in r : p = rec(q.hash, q.ip)
      /\ \A q \in r : rec(q.hash, q.ip) \in CollectorPairs(r)
  <2> HIDE DEF pair
  <2> QED
    BY <1>0
<1>2. \A q \in r : PeakScore(PairRows(PairOf(q), r)) \in Nat
  <2> TAKE q \in r
  <2>1. SeenOK(PairRows(PairOf(q), r))
    BY PartsOfStored DEF PairRows
  <2> QED
    BY <2>1, ColumnsAreNumbers
<1>3. ASSUME NEW q \in r
      PROVE  /\ rec(q.hash, q.ip).hash = q.hash /\ rec(q.hash, q.ip).ip = q.ip
             /\ JoinKey(rec(q.hash, q.ip)) = JoinKey(q)
             /\ rec(q.hash, q.ip).score = PeakScore(PairRows(PairOf(q), r))
             /\ rec(q.hash, q.ip).snapshots = Cardinality(PairRows(PairOf(q), r))
             /\ q \in PairRows(PairOf(q), r)
             /\ \A o \in PairRows(PairOf(q), r) : JoinKey(o) = JoinKey(q)
  BY DEF JoinKey, PairRows, PairOf
<1> HIDE DEF rec
<1>4. ASSUME NEW p \in CollectorPairs(r)
      PROVE  /\ \E q \in r : PairOf(q) = <<p.hash, p.ip>>
             /\ p.score = PeakScore(PairRows(<<p.hash, p.ip>>, r)) /\ p.score \in Nat
             /\ p.snapshots = Cardinality(PairRows(<<p.hash, p.ip>>, r))
             /\ \A q \in PairRows(<<p.hash, p.ip>>, r) : JoinKey(q) = JoinKey(p)
  <2>1. PICK q \in r : p = rec(q.hash, q.ip)
    BY <1>1
  <2>2. PairOf(q) = <<p.hash, p.ip>>
    BY <1>3, <2>1 DEF PairOf
  <2> QED
    BY <1>2, <1>3, <2>1, <2>2
<1>5. ASSUME NEW q \in r
      PROVE  \E p \in CollectorPairs(r) :
               /\ p.hash = q.hash /\ p.ip = q.ip /\ JoinKey(p) = JoinKey(q)
               /\ q \in PairRows(<<p.hash, p.ip>>, r)
  <2>1. PairOf(q) = <<rec(q.hash, q.ip).hash, rec(q.hash, q.ip).ip>>
    BY <1>3 DEF PairOf
  <2> QED
    BY <1>1, <1>3, <2>1
<1>6. \A p \in CollectorPairs(r), o \in CollectorPairs(r) :
        p.hash = o.hash /\ p.ip = o.ip => p = o
  BY <1>1, <1>3
<1> QED
  BY <1>4, <1>5, <1>6

\* What the groups of a key come to is what its rows do.
LEMMA OwnAddsUp ==
  ASSUME NEW r, SeenOK(r), NEW k
  PROVE  /\ PeakScore(OwnPairs(k, r)) = PeakScore(OwnRows(k, r))
         /\ PeakScore(OwnPairs(k, r)) \in Nat
         /\ SnapshotsOf(OwnPairs(k, r)) = Cardinality(OwnRows(k, r))
         /\ AddressesIn(OwnPairs(k, r)) = AddressesIn(OwnRows(k, r))
<1> DEFINE own == OwnRows(k, r)
           G == OwnPairs(k, r)
<1>0. SeenOK(own) /\ IsFiniteSet(own) /\ own \subseteq r /\ IsFiniteSet(r)
  BY PartsOfStored DEF OwnRows, SeenOK, StoredOK
<1>1. \A p \in G : p \in CollectorPairs(r) /\ PairRows(<<p.hash, p.ip>>, r) \subseteq own
  <2> TAKE p \in G
  <2>1. p \in CollectorPairs(r) /\ JoinKey(p) = k
    BY DEF OwnPairs
  <2>2. \A q \in PairRows(<<p.hash, p.ip>>, r) : q \in r /\ JoinKey(q) = k
    BY <2>1, PairsAre DEF PairRows
  <2> QED
    BY <2>1, <2>2 DEF OwnRows
<1>2. \A q \in own : \E p \in G : p.hash = q.hash /\ p.ip = q.ip /\ q \in PairRows(<<p.hash, p.ip>>, r)
  BY PairsAre DEF OwnRows, OwnPairs
<1>3. \A p \in G : \E q \in own : PairOf(q) = <<p.hash, p.ip>>
  <2> TAKE p \in G
  <2>1. PICK q \in r : PairOf(q) = <<p.hash, p.ip>>
    BY <1>1, PairsAre
  <2>2. q \in PairRows(<<p.hash, p.ip>>, r)
    BY <2>1 DEF PairOf, PairRows
  <2> QED
    BY <1>1, <2>1, <2>2
<1> DEFINE f == [q \in own |-> PairOf(q)]
           K == Named(f, own)
           rec == [a \in K |-> CHOOSE p \in G : <<p.hash, p.ip>> = a]
           n == [p \in G |-> p.snapshots]
<1>4. ASSUME NEW a \in K
      PROVE  rec[a] \in G /\ <<rec[a].hash, rec[a].ip>> = a
  <2>1. \E p \in G : <<p.hash, p.ip>> = a
    BY <1>2 DEF Named, PairOf
  <2> QED
    BY <2>1
<1>5. \A p \in G : \E a \in K : rec[a] = p
  <2> TAKE p \in G
  <2>1. <<p.hash, p.ip>> \in K
    BY <1>3 DEF Named
  <2>2. PICK a \in K : a = <<p.hash, p.ip>>
    BY <2>1
  <2>3. rec[a] \in CollectorPairs(r) /\ p \in CollectorPairs(r)
    BY <1>1, <1>4
  <2>4. rec[a].hash = p.hash /\ rec[a].ip = p.ip
    <3> HIDE DEF rec, K
    <3> QED
      BY <1>4, <2>2
  <2> HIDE DEF rec, K
  <2>5. rec[a] = p
    BY <2>3, <2>4, PairsAre
  <2> QED
    BY <2>5
<1>6. \A a \in K : n[rec[a]] = Cardinality(Part(own, f, a))
  <2> TAKE a \in K
  <2>1. n[rec[a]] = rec[a].snapshots
    BY <1>4
  <2>2. rec[a].snapshots = Cardinality(PairRows(a, r)) /\ PairRows(a, r) \subseteq own
    <3> HIDE DEF rec, K, G, own
    <3> QED
      BY <1>1, <1>4, PairsAre
  <2>3. PairRows(a, r) = Part(own, f, a)
    <3>1. PICK q \in own : a = PairOf(q)
      BY DEF Named
    <3>2. \A x \in own : PairOf(x) = a <=> x.hash = a[1] /\ x.ip = a[2]
      BY <3>1 DEF PairOf
    <3> HIDE DEF own
    <3> QED
      BY <1>0, <2>2, <3>2 DEF PairRows, Part
  <2> QED
    BY <2>1, <2>2, <2>3
<1>7. SnapshotsOf(G) = Sum(n, G)
  BY DEF SnapshotsOf, Total, FoldFunctionOnSet, Sum, MapThenSumSet
<1>8. \A q \in own : f[q] \in K
  BY DEF Named
<1> HIDE DEF f, rec, n
<1>9. IsFiniteSet(K)
  BY ONLY <1>0, SameNumber
<1> HIDE DEF K
<1>10. IsFiniteSet(G) /\ Sum(n, G) = Cardinality(own)
  <2>1. \A a \in K, b \in K : rec[a] = rec[b] => a = b
    <3> TAKE a \in K, b \in K
    <3>1. <<rec[a].hash, rec[a].ip>> = a /\ <<rec[b].hash, rec[b].ip>> = b
      BY <1>4
    <3> QED
      BY <3>1
  <2>2. G = Named(rec, K)
    <3> HIDE DEF G
    <3> QED
      BY <1>4, <1>5 DEF Named
  <2>3. IsFiniteSet(own)
    BY <1>0
  <2> HIDE DEF G, own
  <2> QED
    BY ONLY <1>6, <1>8, <1>9, <2>1, <2>2, <2>3, GroupsAddUp
<1>11. AddressesIn(G) = AddressesIn(own)
  <2>1. \A p \in G : \E q \in own : q.ip = p.ip
    BY <1>3 DEF PairOf
  <2>2. \A q \in own : \E p \in G : p.ip = q.ip
    BY <1>2
  <2> HIDE DEF G, own
  <2>3. {p.ip : p \in G} = {q.ip : q \in own}
    BY <2>1, <2>2
  <2> QED
    BY <2>3 DEF AddressesIn, Column
<1>12. PeakScore(G) = PeakScore(own) /\ PeakScore(own) \in Nat
  <2> DEFINE V == {p.score : p \in G}
             W == {q.score : q \in own}
             m == Max(W \cup {0})
  <2>1. PeakScore(G) = Max(V \cup {0}) /\ PeakScore(own) = m
    BY DEF PeakScore, Largest, Column
  <2>2. W \in SUBSET Nat /\ IsFiniteSet(W)
    BY <1>0, ColumnsAreNumbers
  <2>3. V \in SUBSET Nat /\ IsFiniteSet(V)
    <3> DEFINE h == [p \in G |-> p.score]
    <3>1. V = Named(h, G)
      BY DEF Named
    <3>2. V \in SUBSET Nat
      <4>1. \A p \in G : p.score \in Nat
        BY <1>1, PairsAre
      <4> QED
        BY <4>1
    <3> HIDE DEF h, V, G
    <3>3. IsFiniteSet(V)
      BY ONLY <1>10, <3>1, SameNumber
    <3> QED
      BY <3>2, <3>3
  <2>4. m \in W \cup {0} /\ m \in Nat /\ \A x \in W : x <= m
    <3> HIDE DEF W
    <3> QED
      BY <2>2, LargestIs
  <2>5. \A p \in G : /\ \/ p.score = 0
                        \/ \E q \in own : p.score = q.score
                     /\ \A q \in PairRows(<<p.hash, p.ip>>, r) : q.score <= p.score
    <3> TAKE p \in G
    <3> DEFINE R == PairRows(<<p.hash, p.ip>>, r)
               U == {q.score : q \in R}
    <3>1. SeenOK(R) /\ R \subseteq own
      BY <1>1, PartsOfStored DEF PairRows
    <3>2. p.score = Max(U \cup {0})
      BY <1>1, PairsAre DEF PeakScore, Largest, Column
    <3>3. U \in SUBSET Nat /\ IsFiniteSet(U)
      <4> HIDE DEF R
      <4> QED
        BY <3>1, ColumnsAreNumbers
    <3>4. p.score \in U \cup {0} /\ \A x \in U : x <= p.score
      <4> HIDE DEF U
      <4> QED
        BY <3>2, <3>3, LargestIs
    <3> QED
      BY <3>1, <3>4
  <2> HIDE DEF m
  <2>6. \A x \in V : x <= m
    <3>1. \A q \in own : q.score <= m
      BY <2>4
    <3>2. ASSUME NEW p \in G PROVE p.score <= m
      <4>1. p.score = 0 \/ \E q \in own : p.score = q.score
        BY <2>5
      <4>2. 0 <= m
        BY <2>4
      <4> QED
        BY <3>1, <4>1, <4>2
    <3> QED
      BY <3>2
  <2>7. m \in V \cup {0}
    <3>1. CASE \E q \in own : m = q.score
      <4>1. PICK q \in own : m = q.score
        BY <3>1
      <4>2. PICK p \in G : q \in PairRows(<<p.hash, p.ip>>, r)
        BY <1>2
      <4>3. m <= p.score /\ p.score <= m /\ p.score \in Nat
        BY <1>1, <2>5, <2>6, <4>1, <4>2, PairsAre
      <4>4. m = p.score
        BY <2>4, <4>3
      <4> QED
        BY <4>4
    <3> QED
      BY <2>4, <3>1
  <2>8. Max(V \cup {0}) = m
    <3> HIDE DEF V
    <3> QED
      BY <2>3, <2>6, <2>7, LargestIs
  <2> QED
    BY <2>1, <2>4, <2>8
<1> QED
  BY <1>7, <1>10, <1>11, <1>12

\* The two sides of the crossover come to all there is.
LEMMA BothAddUp ==
  ASSUME NEW r, SeenOK(r), NEW es, IsFiniteSet(es)
  PROVE  CrossoverAddsUp(r, es)
<1> DEFINE joined == CollectorKeys(r)
           ran == {c \in joined : c.key \in Keys(es)}
           x == Crossover(r, es)
           score == [c \in joined |-> c.score]
<1>1. Keys(CollectorPairs(r)) = Keys(r)
  <2>1. \A k \in Keys(CollectorPairs(r)) : k \in Keys(r)
    <3> TAKE k \in Keys(CollectorPairs(r))
    <3>1. PICK p \in CollectorPairs(r) : k = JoinKey(p)
      BY DEF Keys, Column
    <3>2. PICK q \in r : PairOf(q) = <<p.hash, p.ip>>
      BY PairsAre
    <3>3. JoinKey(q) = JoinKey(p)
      BY <3>2 DEF JoinKey, PairOf
    <3> QED
      BY <3>1, <3>3 DEF Keys, Column
  <2>2. \A k \in Keys(r) : k \in Keys(CollectorPairs(r))
    <3> TAKE k \in Keys(r)
    <3>1. PICK q \in r : k = JoinKey(q)
      BY DEF Keys, Column
    <3>2. PICK p \in CollectorPairs(r) :
                 /\ p.hash = q.hash /\ p.ip = q.ip /\ JoinKey(p) = JoinKey(q)
                 /\ q \in PairRows(<<p.hash, p.ip>>, r)
      BY PairsAre
    <3> QED
      BY <3>1, <3>2 DEF Keys, Column
  <2> QED
    BY <2>1, <2>2
<1> DEFINE rec == [k \in Keys(r) |->
             [key |-> k, score |-> PeakScore(OwnPairs(k, r)),
              snapshots |-> SnapshotsOf(OwnPairs(k, r)), ips |-> AddressesIn(OwnPairs(k, r))]]
<1>2. joined = Named(rec, Keys(r))
  <2>1. joined = {[key |-> k, score |-> PeakScore(OwnPairs(k, r)),
                   snapshots |-> SnapshotsOf(OwnPairs(k, r)),
                   ips |-> AddressesIn(OwnPairs(k, r))] : k \in Keys(CollectorPairs(r))}
    BY DEF CollectorKeys, OwnPairs, SnapshotsOf
  <2> QED
    BY <1>1, <2>1 DEF Named
<1>3. ASSUME NEW k \in Keys(r)
      PROVE  /\ rec[k].key = k /\ rec[k].score = PeakScore(OwnRows(k, r)) /\ rec[k].score \in Nat
             /\ rec[k].snapshots = Cardinality(OwnRows(k, r))
             /\ rec[k].ips = AddressesIn(OwnRows(k, r))
  BY OwnAddsUp
<1> HIDE DEF rec
<1>4. \A c \in joined : \E k \in Keys(r) : c = rec[k]
  BY <1>2 DEF Named
<1>5. ASSUME NEW c \in joined
      PROVE  /\ c.key \in Keys(r) /\ c.score = PeakScore(OwnRows(c.key, r)) /\ c.score \in Nat
             /\ c.snapshots = Cardinality(OwnRows(c.key, r))
             /\ c.ips = AddressesIn(OwnRows(c.key, r)) /\ c = rec[c.key]
  <2>1. PICK k \in Keys(r) : c = rec[k]
    BY <1>4
  <2> HIDE DEF joined
  <2> QED
    BY <1>3, <2>1
<1>6. ASSUME NEW c \in joined PROVE PageDetails(c, {c}, r) = Details(OwnRows(c.key, r))
  <2>1. UNION {y.ips : y \in {c}} = AddressesIn(OwnRows(c.key, r))
    BY <1>5
  <2>2. \A q \in OwnRows(c.key, r) : q.ip \in AddressesIn(OwnRows(c.key, r))
    BY DEF AddressesIn, Column
  <2>3. {q \in r : q.ip \in UNION {y.ips : y \in {c}} /\ JoinKey(q) = c.key} = OwnRows(c.key, r)
    BY <2>1, <2>2 DEF OwnRows
  <2> QED
    BY <2>3 DEF PageDetails
<1>7. IsFiniteSet(Keys(r)) /\ IsFiniteSet(Keys(es)) /\ IsFiniteSet(joined)
  <2>1. IsFiniteSet(Keys(r)) /\ IsFiniteSet(Keys(es))
    BY KeysAreFinite DEF SeenOK, StoredOK
  <2> HIDE DEF joined
  <2>2. IsFiniteSet(joined)
    BY ONLY <1>2, <2>1, SameNumber
  <2> QED
    BY <2>1, <2>2
<1>8. /\ x.seen = Cardinality(joined) /\ x.ranJS = Cardinality(ran)
      /\ x.beaconOnly = Cardinality(Keys(es) \ Keys(r))
  BY DEF Crossover, Count
<1>9. Silent(r, es) = joined \ ran
  BY DEF Silent
<1>10. x.seen = Cardinality(Keys(r))
  <2>1. \A k \in Keys(r), l \in Keys(r) : rec[k] = rec[l] => k = l
    BY <1>3
  <2> HIDE DEF joined
  <2>2. Cardinality(joined) = Cardinality(Keys(r))
    BY ONLY <1>2, <1>7, <2>1, SameNumber
  <2> HIDE DEF x
  <2> QED
    BY <1>8, <2>2
<1>11. x.seen - x.ranJS = Cardinality(Silent(r, es)) /\ IsFiniteSet(ran)
  <2>1. ran \in SUBSET joined
    OBVIOUS
  <2> HIDE DEF joined, ran, x
  <2>2. /\ Cardinality(ran) \in Nat /\ Cardinality(joined \ ran) \in Nat /\ IsFiniteSet(ran)
        /\ Cardinality(joined) = Cardinality(ran) + Cardinality(joined \ ran)
    BY <1>7, <2>1, SplitNumber
  <2> QED
    BY <1>8, <1>9, <2>2
<1>12. x.ranJS + x.beaconOnly = Cardinality(Keys(es))
  <2> DEFINE key == [c \in ran |-> c.key]
             B == Keys(es) \cap Keys(r)
  <2>1. B = Named(key, ran)
    <3>1. \A k \in B : rec[k] \in ran /\ rec[k].key = k
      BY <1>2, <1>3 DEF Named
    <3>2. \A c \in ran : c.key \in B
      BY <1>5
    <3>3. \A k \in B : \E c \in ran : c.key = k
      BY <3>1
    <3> HIDE DEF B, ran
    <3> QED
      BY <3>2, <3>3 DEF Named
  <2>2. \A c \in ran, d \in ran : key[c] = key[d] => c = d
    BY <1>5
  <2> HIDE DEF key, ran, x
  <2>3. Cardinality(B) = Cardinality(ran)
    <3>1. IsFiniteSet(ran)
      BY <1>11
    <3> HIDE DEF B
    <3> QED
      BY ONLY <2>1, <2>2, <3>1, SameNumber
  <2>4. B \in SUBSET Keys(es) /\ Keys(es) \ B = Keys(es) \ Keys(r)
    OBVIOUS
  <2> HIDE DEF B
  <2>5. Cardinality(Keys(es)) = Cardinality(B) + Cardinality(Keys(es) \ B)
    BY <1>7, <2>4, SplitNumber
  <2> QED
    BY <1>8, <2>3, <2>4, <2>5
<1>13. Total(0..9, LAMBDA b : x.bands[b]) = x.seen
  <2>1. x.bands = InBands(score, joined)
    BY DEF Crossover, Count, InBands
  <2>2. \A c \in joined : score[c] \in Nat
    BY <1>5
  <2> HIDE DEF joined, score, x
  <2>3. PICK d : d = x.bands
    OBVIOUS
  <2>4. BandsOf(d) = Cardinality(joined)
    BY ONLY <1>7, <2>1, <2>2, <2>3, BandsAddUp
  <2> QED
    BY <1>8, <2>3, <2>4 DEF BandsOf
<1>14. Total(0..9, LAMBDA b : x.jsBands[b]) = x.ranJS
  <2>1. x.jsBands = InBands(score, ran)
    <3>1. x.jsBands = [b \in 0..9 |-> Cardinality({c \in joined : Band(c.score) = b /\ c.key \in Keys(es)})]
      BY DEF Crossover, Count
    <3>2. \A b \in 0..9 : {c \in joined : Band(c.score) = b /\ c.key \in Keys(es)}
                            = {c \in ran : Band(score[c]) = b}
      OBVIOUS
    <3> HIDE DEF ran, x
    <3>3. x.jsBands = [b \in 0..9 |-> Cardinality({c \in ran : Band(score[c]) = b})]
      BY <3>1, <3>2
    <3> QED
      BY <3>3 DEF InBands
  <2>2. \A c \in ran : score[c] \in Nat
    BY <1>5
  <2> HIDE DEF joined, ran, score, x
  <2>3. PICK d : d = x.jsBands
    OBVIOUS
  <2>4. BandsOf(d) = Cardinality(ran)
    BY ONLY <1>11, <2>1, <2>2, <2>3, BandsAddUp
  <2> QED
    BY <1>8, <2>3, <2>4 DEF BandsOf
<1>15. JSBots(r, es) \cap {c.key : c \in Silent(r, es)} = {}
  BY DEF JSBots, Silent
<1>16. \A c \in CollectorKeys(r) :
         /\ c.score = PeakScore(OwnRows(c.key, r)) /\ c.snapshots = Cardinality(OwnRows(c.key, r))
         /\ PageDetails(c, {c}, r) = Details(OwnRows(c.key, r))
  BY <1>5, <1>6
<1> HIDE DEF joined, ran, score
<1> QED
  BY <1>10, <1>11, <1>12, <1>13, <1>14, <1>15, <1>16 DEF CrossoverAddsUp, OwnRows

\* The figures of a page add up, whatever the two writers have stored and
\* whichever range is asked for: the sessions of a series, the shares of a
\* breakdown, the pages of a list and the two sides of the crossover come to
\* the totals beside them (internal/api/store.go, store_beacon.go,
\* store_crossover.go, store_extra.go).
THEOREM FiguresDoAddUp == ReadSpec => [](AnswersAddUp /\ FiguresAddUp)
<1>1. ReadInv => AnswersAddUp
  <2> SUFFICES ASSUME ReadInv, NEW w \in Periods, NEW r, r = Within(snapshots, w[1], w[2]),
                      NEW es, es = Within(events, w[1], w[2])
               PROVE  /\ \A bots \in {"include", "exclude", "only"}, campaign \in {0, 1} :
                           LET s == Filtered(w[1], w[2], bots, campaign)
                           IN  SharesOf(s, w[1], w[2]) /\ PagesAreWhole(BeaconPaths(s), Busier)
                      /\ SharesOfAddresses(r) /\ PagesAreWhole(Countries(r), Larger)
                      /\ PagesAreWhole(JA4s(r), Larger) /\ PagesAreWhole(TopIPs(r), Worse)
                      /\ CrossoverAddsUp(r, es)
                      /\ Total(NamedEvents(es), LAMBDA n : n.count) = Summary(es).events
                      /\ Total(Campaigns(es), LAMBDA g : g.pageviews)
                           = Pageviews({e \in es : e.campaign # 0})
    BY DEF AnswersAddUp
  <2>1. SeenOK(r) /\ VisitedOK(es) /\ IsFiniteSet(es)
    <3>1. r \in SUBSET snapshots /\ es \in SUBSET events
      BY DEF Within
    <3> QED
      BY <3>1, PartsOfStored DEF ReadInv, VisitedOK, StoredOK
  <2>2. ASSUME NEW bots \in {"include", "exclude", "only"}, NEW campaign \in {0, 1},
               NEW s, s = Filtered(w[1], w[2], bots, campaign)
        PROVE  SharesOf(s, w[1], w[2]) /\ PagesAreWhole(BeaconPaths(s), Busier)
    <3>1. s \in SUBSET events
      BY <2>2 DEF Filtered, Within
    <3>2. VisitedOK(s)
      BY <3>1, PartsOfStored DEF ReadInv
    <3> QED
      BY <3>2, EventsAddUp
  <2> QED
    BY <2>1, <2>2, AddressesAddUp, BothAddUp, ListsAddUp
<1>2. ReadInv => AnswersAddUp /\ FiguresAddUp
  BY <1>1 DEF FiguresAddUp
<1> QED
  BY <1>2, ReadStarts, ReadKeeps, PTL DEF ReadSpec

=============================================================================
