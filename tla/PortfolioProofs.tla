-------------------------- MODULE PortfolioProofs ---------------------------
(***************************************************************************)
(* The portfolio for any number of transactions, addresses and images.     *)
(* Its figures are sums, so the first part is about sums over finite sets: *)
(* the fold of Functions.tla is well defined, does not depend on the order *)
(* and splits over disjoint sets.  Induction is over the set of the sets   *)
(* (or numbers) of which something holds.                                  *)
(***************************************************************************)
EXTENDS Portfolio, FiniteSetTheorems, SequenceTheorems, WellFoundedInduction, TLAPS

-----------------------------------------------------------------------------
(* Sums.                                                                   *)

Pick(s) == CHOOSE x \in s : TRUE

\* g satisfies the equation of the fold that sums f over the subsets of T.
SumsUp(g, f, T) ==
  g = [s \in SUBSET T |-> IF s = {} THEN 0 ELSE f[Pick(s)] + g[s \ {Pick(s)}]]

LEMMA SumFold ==
  ASSUME NEW f, NEW S
  PROVE  SumFunctionOnSet(f, S) = (CHOOSE g : SumsUp(g, f, S))[S]
BY DEF SumFunctionOnSet, FoldFunctionOnSet, MapThenFoldSet, SumsUp, Pick

\* Of some finite sets one has no other as a proper subset.
LEMMA SmallestSet ==
  ASSUME NEW C, C # {}, \A T \in C : IsFiniteSet(T)
  PROVE  \E T \in C : \A U \in C : U \subseteq T => U = T
<1> DEFINE S == UNION C
<1>1. C \subseteq FiniteSubsetsOf(S)
  BY DEF FiniteSubsetsOf
<1>2. IsWellFoundedOn(StrictSubsetOrdering(S), FiniteSubsetsOf(S))
  BY FS_StrictSubsetOrderingWellFounded
<1>3. PICK T \in C : \A U \in C : ~ (<<U, T>> \in StrictSubsetOrdering(S))
  <2> HIDE DEF S
  <2> QED BY <1>1, <1>2, WFMin
<1>4. ASSUME NEW U \in C, U \subseteq T PROVE U = T
  BY <1>3, <1>4 DEF StrictSubsetOrdering
<1> QED
  BY <1>4

\* Two solutions agree wherever both are defined.
LEMMA SumsUpAgree ==
  ASSUME NEW f, NEW T, NEW U, NEW g, NEW h, SumsUp(g, f, T), SumsUp(h, f, U),
         NEW W, IsFiniteSet(W), W \subseteq T, W \subseteq U
  PROVE  g[W] = h[W]
<1> DEFINE C == {s \in SUBSET W : g[s] # h[s]}
<1>1. SUFFICES ASSUME C # {} PROVE FALSE
  OBVIOUS
<1>2. \A s \in C : IsFiniteSet(s)
  BY FS_Subset
<1>3. PICK s \in C : \A u \in C : u \subseteq s => u = s
  <2> HIDE DEF C
  <2> QED BY <1>1, <1>2, SmallestSet
<1>4. /\ g[s] = IF s = {} THEN 0 ELSE f[Pick(s)] + g[s \ {Pick(s)}]
      /\ h[s] = IF s = {} THEN 0 ELSE f[Pick(s)] + h[s \ {Pick(s)}]
  <2>1. s \in SUBSET T /\ s \in SUBSET U
    OBVIOUS
  <2> QED BY <2>1, Zenon DEF SumsUp
<1>5. s # {}
  BY <1>3, <1>4
<1>6. Pick(s) \in s
  BY <1>5 DEF Pick
<1>7. s \ {Pick(s)} \notin C
  BY <1>3, <1>6
<1>8. g[s \ {Pick(s)}] = h[s \ {Pick(s)}]
  BY <1>7
<1> QED
  BY <1>3, <1>4, <1>5, <1>8

\* The equation of the fold has a solution.
LEMMA SumsUpExists ==
  ASSUME NEW f, NEW S, IsFiniteSet(S)
  PROVE  \E g : SumsUp(g, f, S)
<1> DEFINE C == {T \in SUBSET S : ~\E g : SumsUp(g, f, T)}
<1>1. SUFFICES ASSUME C # {} PROVE FALSE
  OBVIOUS
<1>2. PICK T \in C : \A U \in C : U \subseteq T => U = T
  <2>1. \A U \in C : IsFiniteSet(U)
    BY FS_Subset
  <2> HIDE DEF C
  <2> QED BY <1>1, <2>1, SmallestSet
<1>3. IsFiniteSet(T)
  BY FS_Subset
<1> DEFINE G(u) == CHOOSE g : SumsUp(g, f, u)
           h == [s \in SUBSET T |-> IF s = {} THEN 0
                                    ELSE f[Pick(s)] + G(s \ {Pick(s)})[s \ {Pick(s)}]]
<1>4. ASSUME NEW s \in SUBSET T, s # {}
      PROVE  /\ s \ {Pick(s)} \in SUBSET T
             /\ SumsUp(G(s \ {Pick(s)}), f, s \ {Pick(s)})
  <2>1. Pick(s) \in s
    BY <1>4 DEF Pick
  <2>2. s \ {Pick(s)} \notin C
    BY <1>2, <2>1
  <2>3. \E g : SumsUp(g, f, s \ {Pick(s)})
    BY <2>2
  <2> QED BY <2>3
<1>5. ASSUME NEW s \in SUBSET T, s # {}
      PROVE  h[s \ {Pick(s)}] = G(s \ {Pick(s)})[s \ {Pick(s)}]
  <2> DEFINE u == s \ {Pick(s)}
             v == u \ {Pick(u)}
  <2>1. u \in SUBSET T /\ SumsUp(G(u), f, u)
    BY <1>4, <1>5
  <2>2. h[u] = IF u = {} THEN 0 ELSE f[Pick(u)] + G(v)[v]
    BY <2>1
  <2>3. G(u)[u] = IF u = {} THEN 0 ELSE f[Pick(u)] + G(u)[v]
    <3> HIDE DEF u, G
    <3>1. u \in SUBSET u
      OBVIOUS
    <3> QED BY <2>1, <3>1, Zenon DEF SumsUp
  <2>4. CASE u = {}
    BY <2>2, <2>3, <2>4
  <2>5. CASE u # {}
    <3>1. SumsUp(G(v), f, v) /\ v \in SUBSET T
      <4> HIDE DEF u, G
      <4>1. SumsUp(G(u \ {Pick(u)}), f, u \ {Pick(u)}) /\ u \ {Pick(u)} \in SUBSET T
        BY <1>4, <2>1, <2>5
      <4> QED BY <4>1
    <3>2. IsFiniteSet(v)
      BY <1>3, <3>1, FS_Subset
    <3>3. v \subseteq u /\ v \subseteq v
      OBVIOUS
    <3>4. G(u)[v] = G(v)[v]
      <4> HIDE DEF u, v, G
      <4> QED BY <2>1, <3>1, <3>2, <3>3, SumsUpAgree
    <3> QED BY <2>2, <2>3, <2>5, <3>4
  <2> QED BY <2>4, <2>5
<1>6. SumsUp(h, f, T)
  <2>1. \A s \in SUBSET T : h[s] = IF s = {} THEN 0 ELSE f[Pick(s)] + h[s \ {Pick(s)}]
    <3> SUFFICES ASSUME NEW s \in SUBSET T
                 PROVE  h[s] = IF s = {} THEN 0 ELSE f[Pick(s)] + h[s \ {Pick(s)}]
      OBVIOUS
    <3>1. h[s] = IF s = {} THEN 0
                 ELSE f[Pick(s)] + G(s \ {Pick(s)})[s \ {Pick(s)}]
      OBVIOUS
    <3>2. s # {} => h[s \ {Pick(s)}] = G(s \ {Pick(s)})[s \ {Pick(s)}]
      BY <1>5
    <3> HIDE DEF h, G
    <3> QED BY <3>1, <3>2
  <2>2. h = [s \in SUBSET T |-> h[s]]
    OBVIOUS
  <2> HIDE DEF h
  <2> QED BY <2>1, <2>2 DEF SumsUp
<1> QED
  <2> HIDE DEF h
  <2> QED BY <1>2, <1>6

LEMMA SumEmpty ==
  ASSUME NEW f
  PROVE  SumFunctionOnSet(f, {}) = 0
<1> DEFINE g == CHOOSE g : SumsUp(g, f, {})
<1>1. SumsUp(g, f, {})
  BY SumsUpExists, FS_EmptySet
<1>2. g[{}] = 0
  <2> HIDE DEF g
  <2>1. {} \in SUBSET {}
    OBVIOUS
  <2> QED BY <1>1, <2>1, Zenon DEF SumsUp
<1> QED
  BY <1>2, SumFold

LEMMA SumPick ==
  ASSUME NEW f, NEW S, IsFiniteSet(S), S # {}
  PROVE  /\ Pick(S) \in S
         /\ SumFunctionOnSet(f, S) = f[Pick(S)] + SumFunctionOnSet(f, S \ {Pick(S)})
<1> DEFINE u == S \ {Pick(S)}
           G(s) == CHOOSE g : SumsUp(g, f, s)
<1>1. IsFiniteSet(u)
  BY FS_Subset
<1>2. SumsUp(G(S), f, S) /\ SumsUp(G(u), f, u)
  BY <1>1, SumsUpExists
<1>3. G(S)[S] = f[Pick(S)] + G(S)[u]
  <2> HIDE DEF G
  <2>1. S \in SUBSET S
    OBVIOUS
  <2> QED BY <1>2, <2>1, Zenon DEF SumsUp
<1>4. G(S)[u] = G(u)[u]
  <2>1. u \subseteq S /\ u \subseteq u
    OBVIOUS
  <2> HIDE DEF u, G
  <2> QED BY <1>1, <1>2, <2>1, SumsUpAgree
<1>5. SumFunctionOnSet(f, S) = G(S)[S] /\ SumFunctionOnSet(f, u) = G(u)[u]
  BY SumFold
<1>6. Pick(S) \in S
  BY DEF Pick
<1> QED
  BY <1>3, <1>4, <1>5, <1>6

LEMMA SumType ==
  ASSUME NEW S, IsFiniteSet(S), NEW f, \A x \in S : f[x] \in Int
  PROVE  SumFunctionOnSet(f, S) \in Int
<1> DEFINE C == {T \in SUBSET S : SumFunctionOnSet(f, T) \notin Int}
<1>1. SUFFICES ASSUME C # {} PROVE FALSE
  OBVIOUS
<1>2. PICK T \in C : \A U \in C : U \subseteq T => U = T
  <2>1. \A U \in C : IsFiniteSet(U)
    BY FS_Subset
  <2> HIDE DEF C
  <2> QED BY <1>1, <2>1, SmallestSet
<1>3. T # {} /\ IsFiniteSet(T) /\ T \subseteq S
  <2>1. SumFunctionOnSet(f, {}) \in Int
    BY SumEmpty
  <2> QED BY <2>1, FS_Subset
<1>4. /\ Pick(T) \in T
      /\ SumFunctionOnSet(f, T) = f[Pick(T)] + SumFunctionOnSet(f, T \ {Pick(T)})
  BY <1>3, SumPick
<1>5. SumFunctionOnSet(f, T \ {Pick(T)}) \in Int
  BY <1>2, <1>3, <1>4
<1> QED
  BY <1>3, <1>4, <1>5

\* The order of summation does not matter.
LEMMA SumAdd ==
  ASSUME NEW S, IsFiniteSet(S), NEW f, \A x \in S : f[x] \in Int,
         NEW y, y \notin S, f[y] \in Int
  PROVE  SumFunctionOnSet(f, S \cup {y}) = SumFunctionOnSet(f, S) + f[y]
<1> DEFINE Sum(T) == SumFunctionOnSet(f, T)
           C == {T \in SUBSET S : \E z \in S \cup {y} : z \notin T /\ Sum(T \cup {z}) # Sum(T) + f[z]}
<1>1. SUFFICES ASSUME C # {} PROVE FALSE
  OBVIOUS
<1>2. PICK T \in C : \A U \in C : U \subseteq T => U = T
  <2>1. \A U \in C : IsFiniteSet(U)
    BY FS_Subset
  <2> HIDE DEF C
  <2> QED BY <1>1, <2>1, SmallestSet
<1>3. PICK z \in S \cup {y} : z \notin T /\ Sum(T \cup {z}) # Sum(T) + f[z]
  BY <1>2
<1>4. T \subseteq S /\ IsFiniteSet(T) /\ IsFiniteSet(T \cup {z})
  BY FS_Subset, FS_AddElement
<1> DEFINE x == Pick(T \cup {z})
           R == T \ {x}
<1>5. x \in T \cup {z} /\ Sum(T \cup {z}) = f[x] + Sum((T \cup {z}) \ {x})
  BY <1>4, SumPick
<1>6. Sum(T) \in Int /\ Sum(R) \in Int /\ f[z] \in Int /\ f[x] \in Int
  <2>1. IsFiniteSet(R) /\ \A w \in T : f[w] \in Int
    BY <1>4, FS_Subset
  <2> QED BY <1>4, <1>5, <2>1, SumType
<1>7. CASE x = z
  <2>1. (T \cup {z}) \ {x} = T
    BY <1>3, <1>7
  <2>2. Sum(T \cup {z}) = f[z] + Sum(T)
    BY <1>5, <1>7, <2>1
  <2> HIDE DEF Sum
  <2> QED BY <1>3, <1>6, <2>2
<1>8. CASE x # z
  <2>1. x \in T /\ R # T /\ R \subseteq T /\ R \subseteq S
    BY <1>4, <1>5, <1>8
  <2>2. R \notin C
    BY <1>2, <2>1
  <2>3. (T \cup {z}) \ {x} = R \cup {z} /\ R \cup {x} = T /\ z \notin R /\ x \notin R /\ x \in S
    BY <1>3, <1>4, <1>8, <2>1
  <2>4. Sum(R \cup {z}) = Sum(R) + f[z] /\ Sum(R \cup {x}) = Sum(R) + f[x]
    BY <2>1, <2>2, <2>3
  <2>5. Sum(T \cup {z}) = f[x] + Sum(R \cup {z}) /\ Sum(T) = Sum(R) + f[x]
    BY <1>5, <2>3, <2>4
  <2> HIDE DEF x, R, Sum
  <2> QED BY <1>3, <1>6, <2>4, <2>5
<1> QED
  BY <1>7, <1>8

\* Induction over a finite set, and over the numbers up to n, for a set of those
\* of which something holds.
LEMMA SetInduction ==
  ASSUME NEW S, IsFiniteSet(S), NEW C, {} \in C,
         \A U \in SUBSET S : U \in C => \A x \in S \ U : U \cup {x} \in C
  PROVE  S \in C
<1> DEFINE D == {T \in SUBSET S : T \notin C}
<1>1. SUFFICES ASSUME D # {} PROVE FALSE
  OBVIOUS
<1>2. PICK T \in D : \A U \in D : U \subseteq T => U = T
  <2>1. \A U \in D : IsFiniteSet(U)
    BY FS_Subset
  <2> HIDE DEF D
  <2> QED BY <1>1, <2>1, SmallestSet
<1>3. PICK x \in T : TRUE
  BY <1>2
<1>4. T \ {x} \in C
  BY <1>2, <1>3
<1>5. (T \ {x}) \cup {x} = T
  BY <1>3
<1> QED
  BY <1>2, <1>4, <1>5

LEMMA LeastNumber ==
  ASSUME NEW D \in SUBSET Nat, D # {}
  PROVE  \E m \in D : \A k \in D : m <= k
<1>1. PICK m \in D : \A k \in D : ~ (<<k, m>> \in OpToRel(<, Nat))
  BY NatLessThanWellFounded, WFMin
<1>2. ASSUME NEW k \in D, k < m PROVE FALSE
  <2>1. <<k, m>> \in {ss \in Nat \X Nat : ss[1] < ss[2]}
    BY <1>2
  <2>2. <<k, m>> \in OpToRel(<, Nat)
    BY <2>1 DEF OpToRel
  <2> QED BY <1>1, <2>2
<1>3. \A k \in D : k \in Nat /\ m \in Nat
  OBVIOUS
<1> QED
  BY <1>2, <1>3

LEMMA NumberInduction ==
  ASSUME NEW n \in Nat, NEW C, 0 \in C, \A m \in 0 .. n - 1 : m \in C => m + 1 \in C
  PROVE  \A m \in 0 .. n : m \in C
<1> DEFINE D == {m \in 0 .. n : m \notin C}
<1>1. SUFFICES ASSUME D # {} PROVE FALSE
  OBVIOUS
<1>2. PICK m \in D : \A k \in D : m <= k
  <2>1. D \in SUBSET Nat
    OBVIOUS
  <2> HIDE DEF D
  <2> QED BY <1>1, <2>1, LeastNumber
<1>3. m # 0 /\ m - 1 \in 0 .. n - 1 /\ m - 1 \notin D
  BY <1>2
<1> QED
  BY <1>3

LEMMA SumSame ==
  ASSUME NEW S, IsFiniteSet(S), NEW f, NEW g, \A x \in S : f[x] \in Int /\ f[x] = g[x]
  PROVE  SumFunctionOnSet(f, S) = SumFunctionOnSet(g, S)
<1> DEFINE C == {T \in SUBSET S : SumFunctionOnSet(f, T) = SumFunctionOnSet(g, T)}
<1>1. {} \in C
  BY SumEmpty
<1>2. ASSUME NEW U \in SUBSET S, U \in C, NEW x \in S \ U PROVE U \cup {x} \in C
  <2>1. IsFiniteSet(U) /\ (\A y \in U : f[y] \in Int) /\ (\A y \in U : g[y] \in Int)
    BY FS_Subset
  <2>2. SumFunctionOnSet(f, U \cup {x}) = SumFunctionOnSet(f, U) + f[x]
    BY <2>1, SumAdd
  <2>3. SumFunctionOnSet(g, U \cup {x}) = SumFunctionOnSet(g, U) + g[x]
    BY <2>1, SumAdd
  <2> QED BY <1>2, <2>2, <2>3
<1>3. S \in C
  <2> HIDE DEF C
  <2> QED BY <1>1, <1>2, SetInduction
<1> QED
  BY <1>3

LEMMA SumDisjoint ==
  ASSUME NEW S, IsFiniteSet(S), NEW T, IsFiniteSet(T), S \cap T = {},
         NEW f, \A x \in S \cup T : f[x] \in Int
  PROVE  SumFunctionOnSet(f, S \cup T) = SumFunctionOnSet(f, S) + SumFunctionOnSet(f, T)
<1> DEFINE Sum(U) == SumFunctionOnSet(f, U)
           C == {U \in SUBSET S : Sum(U \cup T) = Sum(U) + Sum(T)}
<1>1. Sum(T) \in Int /\ Sum({}) = 0
  BY SumType, SumEmpty
<1>2. {} \in C
  <2>1. {} \cup T = T
    OBVIOUS
  <2>2. Sum({} \cup T) = Sum({}) + Sum(T)
    <3> HIDE DEF Sum
    <3> QED BY <1>1, <2>1
  <2> QED BY <2>2
<1>3. ASSUME NEW U \in SUBSET S, U \in C, NEW x \in S \ U PROVE U \cup {x} \in C
  <2>1. IsFiniteSet(U) /\ IsFiniteSet(U \cup T) /\ x \notin U \cup T
    BY FS_Subset, FS_Union
  <2>2. Sum(U \cup {x}) = Sum(U) + f[x] /\ Sum(U) \in Int
    BY <2>1, SumAdd, SumType
  <2>3. Sum((U \cup T) \cup {x}) = Sum(U \cup T) + f[x]
    BY <2>1, SumAdd
  <2>4. (U \cup {x}) \cup T = (U \cup T) \cup {x} /\ f[x] \in Int
    OBVIOUS
  <2>5. Sum((U \cup {x}) \cup T) = Sum(U \cup T) + f[x]
    BY <2>3, <2>4
  <2>6. Sum(U \cup T) = Sum(U) + Sum(T)
    BY <1>3
  <2>7. Sum((U \cup {x}) \cup T) = Sum(U \cup {x}) + Sum(T)
    <3> HIDE DEF Sum
    <3> QED BY <1>1, <2>2, <2>4, <2>5, <2>6
  <2> QED BY <2>7
<1>4. S \in C
  <2> HIDE DEF C
  <2> QED BY <1>2, <1>3, SetInduction
<1> QED
  BY <1>4

LEMMA SumPlus ==
  ASSUME NEW S, IsFiniteSet(S), NEW f, NEW g, NEW h,
         \A x \in S : f[x] \in Int /\ g[x] \in Int /\ h[x] = f[x] + g[x]
  PROVE  SumFunctionOnSet(h, S) = SumFunctionOnSet(f, S) + SumFunctionOnSet(g, S)
<1> DEFINE C == {T \in SUBSET S :
                   SumFunctionOnSet(h, T) = SumFunctionOnSet(f, T) + SumFunctionOnSet(g, T)}
<1>1. {} \in C
  BY SumEmpty
<1>2. ASSUME NEW U \in SUBSET S, U \in C, NEW x \in S \ U PROVE U \cup {x} \in C
  <2>1. /\ IsFiniteSet(U) /\ (\A y \in U \cup {x} : f[y] \in Int)
        /\ (\A y \in U \cup {x} : g[y] \in Int) /\ (\A y \in U \cup {x} : h[y] \in Int)
    BY FS_Subset
  <2>2. SumFunctionOnSet(f, U \cup {x}) = SumFunctionOnSet(f, U) + f[x]
    BY <2>1, SumAdd
  <2>3. SumFunctionOnSet(g, U \cup {x}) = SumFunctionOnSet(g, U) + g[x]
    BY <2>1, SumAdd
  <2>4. SumFunctionOnSet(h, U \cup {x}) = SumFunctionOnSet(h, U) + h[x]
    BY <2>1, SumAdd
  <2>5. SumFunctionOnSet(f, U) \in Int /\ SumFunctionOnSet(g, U) \in Int
    BY <2>1, SumType
  <2> QED BY <1>2, <2>2, <2>3, <2>4, <2>5
<1>3. S \in C
  <2> HIDE DEF C
  <2> QED BY <1>1, <1>2, SetInduction
<1> QED
  BY <1>3

LEMMA SumMonotone ==
  ASSUME NEW S, IsFiniteSet(S), NEW f, NEW g,
         \A x \in S : f[x] \in Int /\ g[x] \in Int /\ f[x] <= g[x]
  PROVE  SumFunctionOnSet(f, S) <= SumFunctionOnSet(g, S)
<1> DEFINE C == {T \in SUBSET S : SumFunctionOnSet(f, T) <= SumFunctionOnSet(g, T)}
<1>1. {} \in C
  BY SumEmpty
<1>2. ASSUME NEW U \in SUBSET S, U \in C, NEW x \in S \ U PROVE U \cup {x} \in C
  <2>1. /\ IsFiniteSet(U) /\ (\A y \in U \cup {x} : f[y] \in Int)
        /\ (\A y \in U \cup {x} : g[y] \in Int)
    BY FS_Subset
  <2>2. SumFunctionOnSet(f, U \cup {x}) = SumFunctionOnSet(f, U) + f[x]
    BY <2>1, SumAdd
  <2>3. SumFunctionOnSet(g, U \cup {x}) = SumFunctionOnSet(g, U) + g[x]
    BY <2>1, SumAdd
  <2>4. SumFunctionOnSet(f, U) \in Int /\ SumFunctionOnSet(g, U) \in Int
    BY <2>1, SumType
  <2> QED BY <1>2, <2>2, <2>3, <2>4
<1>3. S \in C
  <2> HIDE DEF C
  <2> QED BY <1>1, <1>2, SetInduction
<1> QED
  BY <1>3

LEMMA SumNatural ==
  ASSUME NEW S, IsFiniteSet(S), NEW f, \A x \in S : f[x] \in Nat
  PROVE  SumFunctionOnSet(f, S) \in Nat
<1> DEFINE C == {T \in SUBSET S : SumFunctionOnSet(f, T) \in Nat}
<1>1. {} \in C
  BY SumEmpty
<1>2. ASSUME NEW U \in SUBSET S, U \in C, NEW x \in S \ U PROVE U \cup {x} \in C
  <2>1. IsFiniteSet(U) /\ \A y \in U \cup {x} : f[y] \in Int
    BY FS_Subset
  <2>2. SumFunctionOnSet(f, U \cup {x}) = SumFunctionOnSet(f, U) + f[x]
    BY <2>1, SumAdd
  <2> QED BY <1>2, <2>2
<1>3. S \in C
  <2> HIDE DEF C
  <2> QED BY <1>1, <1>2, SetInduction
<1> QED
  BY <1>3

LEMMA SumZero ==
  ASSUME NEW S, IsFiniteSet(S), NEW f, \A x \in S : f[x] = 0
  PROVE  SumFunctionOnSet(f, S) = 0
<1>1. SumFunctionOnSet(f, S) = SumFunctionOnSet(f, S) + SumFunctionOnSet(f, S)
  BY SumPlus
<1>2. SumFunctionOnSet(f, S) \in Int
  BY SumType
<1> QED
  BY <1>1, <1>2

\* A part of the set on which nothing is positive (negative).
LEMMA SumSplit ==
  ASSUME NEW S, IsFiniteSet(S), NEW T \in SUBSET S, NEW f, \A x \in S : f[x] \in Int
  PROVE  /\ (\A x \in S \ T : f[x] <= 0) => SumFunctionOnSet(f, S) <= SumFunctionOnSet(f, T)
         /\ (\A x \in S \ T : f[x] >= 0) => SumFunctionOnSet(f, S) >= SumFunctionOnSet(f, T)
<1> DEFINE R == S \ T
           zero == [x \in R |-> 0]
<1>1. IsFiniteSet(T) /\ IsFiniteSet(R) /\ T \cup R = S /\ T \cap R = {}
  BY FS_Subset
<1>2. SumFunctionOnSet(f, S) = SumFunctionOnSet(f, T) + SumFunctionOnSet(f, R)
  <2>1. \A x \in T \cup R : f[x] \in Int
    OBVIOUS
  <2>2. SumFunctionOnSet(f, T \cup R) = SumFunctionOnSet(f, T) + SumFunctionOnSet(f, R)
    <3> HIDE DEF R
    <3> QED BY <1>1, <2>1, SumDisjoint
  <2> QED BY <1>1, <2>2
<1>3. SumFunctionOnSet(f, T) \in Int /\ SumFunctionOnSet(f, R) \in Int
  <2>1. (\A x \in T : f[x] \in Int) /\ (\A x \in R : f[x] \in Int)
    OBVIOUS
  <2> HIDE DEF R
  <2> QED BY <1>1, <2>1, SumType
<1>4. (\A x \in R : zero[x] = 0) /\ \A x \in R : f[x] \in Int
  OBVIOUS
<1>5. SumFunctionOnSet(zero, R) = 0
  <2> HIDE DEF R, zero
  <2> QED BY <1>1, <1>4, SumZero
<1>6. (\A x \in R : f[x] <= 0) => SumFunctionOnSet(f, R) <= 0
  <2> HIDE DEF R, zero
  <2> QED BY <1>1, <1>4, <1>5, SumMonotone
<1>7. (\A x \in R : f[x] >= 0) => SumFunctionOnSet(f, R) >= 0
  <2> HIDE DEF R, zero
  <2> QED BY <1>1, <1>4, <1>5, SumMonotone
<1> HIDE DEF R
<1> QED
  BY <1>2, <1>3, <1>6, <1>7 DEF R

\* Summing over the values of an injective function.
LEMMA SumImage ==
  ASSUME NEW S, IsFiniteSet(S), NEW m, \A x, y \in S : m[x] = m[y] => x = y,
         NEW f, NEW g, \A x \in S : f[x] \in Int /\ g[m[x]] = f[x]
  PROVE  LET T == {m[x] : x \in S}
         IN  IsFiniteSet(T) /\ SumFunctionOnSet(g, T) = SumFunctionOnSet(f, S)
<1> DEFINE Image(U) == {m[x] : x \in U}
           C == {U \in SUBSET S : /\ IsFiniteSet(Image(U))
                                  /\ SumFunctionOnSet(g, Image(U)) = SumFunctionOnSet(f, U)}
<1>1. {} \in C
  <2>1. Image({}) = {}
    OBVIOUS
  <2> QED BY <2>1, SumEmpty, FS_EmptySet
<1>2. ASSUME NEW U \in SUBSET S, U \in C, NEW x \in S \ U PROVE U \cup {x} \in C
  <2>1. IsFiniteSet(U) /\ \A y \in U \cup {x} : f[y] \in Int
    BY FS_Subset
  <2>2. SumFunctionOnSet(f, U \cup {x}) = SumFunctionOnSet(f, U) + f[x]
    BY <2>1, SumAdd
  <2>3. Image(U \cup {x}) = Image(U) \cup {m[x]} /\ m[x] \notin Image(U)
    OBVIOUS
  <2>4. IsFiniteSet(Image(U)) /\ IsFiniteSet(Image(U) \cup {m[x]})
    <3>1. IsFiniteSet(Image(U))
      BY <1>2
    <3> HIDE DEF Image
    <3> QED BY <3>1, FS_AddElement
  <2>5. (\A z \in Image(U) : g[z] \in Int) /\ g[m[x]] \in Int
    OBVIOUS
  <2>6. SumFunctionOnSet(g, Image(U) \cup {m[x]}) = SumFunctionOnSet(g, Image(U)) + g[m[x]]
    <3> HIDE DEF Image
    <3> QED BY <2>3, <2>4, <2>5, SumAdd
  <2>7. SumFunctionOnSet(g, Image(U)) = SumFunctionOnSet(f, U) /\ g[m[x]] = f[x]
    BY <1>2
  <2>8. /\ IsFiniteSet(Image(U \cup {x}))
        /\ SumFunctionOnSet(g, Image(U \cup {x})) = SumFunctionOnSet(f, U \cup {x})
    <3> HIDE DEF Image
    <3> QED BY <2>2, <2>3, <2>4, <2>6, <2>7
  <2> QED BY <2>8
<1>3. S \in C
  <2> HIDE DEF C
  <2> QED BY <1>1, <1>2, SetInduction
<1> QED
  BY <1>3

-----------------------------------------------------------------------------
(* The inductive invariant.                                                *)

Tx == [ins : UNION {[coins -> Io] : coins \in SUBSET (Nat \X Nat)},
       outs : Seq(Io), time : Times \cup {None}]

\* The coins of the first n transactions, and those they have spent.
CreatedBy(n) == {c \in Nat \X Nat : c[1] \in 1 .. n /\ c[2] \in DOMAIN chain[c[1]].outs}
SpentBy(n)   == UNION {DOMAIN chain[i].ins : i \in 1 .. n}

\* The blockchain is a sequence of transactions, and what the database says of
\* each is what a sync computes from the wallets it has now.
Synced ==
  /\ chain \in Seq(Tx)
  /\ flags = Refresh(chain, owned)
  /\ class = [i \in DOMAIN chain |-> Classify(chain[i], flags[i])]

\* A transaction has one or two outputs and spends, for what they hold, coins
\* of earlier transactions that none of these has spent; a coin of somebody
\* else may be any.  It pays out no more than it takes in.
Backed ==
  \A i \in DOMAIN chain :
    /\ DOMAIN chain[i].outs \in {1 .. 1, 1 .. 2}
    /\ IsFiniteSet(DOMAIN chain[i].ins)
    /\ \A c \in DOMAIN chain[i].ins :
         /\ chain[i].ins[c] = Coin(c)
         /\ c = <<0, 1>> \/ c \in CreatedBy(i - 1)
         /\ c # <<0, 1>> => c \notin SpentBy(i - 1)
    /\ Inputs(chain[i]) # {} =>
         Sats(chain[i], Outputs(chain[i])) <= Sats(chain[i], Inputs(chain[i]))

IInv == TypeOK /\ Synced /\ Backed /\ IsFiniteSet(owned)

LEMMA ClassifyType ==
  ASSUME NEW t, NEW own PROVE Classify(t, own) \in Classes
  BY DEF Classify, Classes

LEMMA CreatedSoFar ==
  ASSUME chain \in Seq(Tx)
  PROVE  Created = CreatedBy(Len(chain)) /\ Spent = SpentBy(Len(chain))
<1>1. DOMAIN chain = 1 .. Len(chain) /\ Len(chain) \in Nat
  OBVIOUS
<1>2. ASSUME NEW c \in Created PROVE c \in CreatedBy(Len(chain))
  <2>1. PICK i \in DOMAIN chain : c \in {i} \X DOMAIN chain[i].outs
    BY <1>2 DEF Created
  <2>2. chain[i].outs \in Seq(Io)
    <3>1. chain[i] \in Tx
      BY <2>1
    <3>2. QED BY <3>1 DEF Tx
  <2>3. c[1] = i /\ c[2] \in DOMAIN chain[i].outs /\ c \in Nat \X Nat
    BY <1>1, <2>1, <2>2
  <2>4. QED BY <1>1, <2>3 DEF CreatedBy
<1>3. ASSUME NEW c \in CreatedBy(Len(chain)) PROVE c \in Created
  BY <1>1, <1>3 DEF CreatedBy, Created
<1>4. Spent = SpentBy(Len(chain))
  BY <1>1 DEF Spent, SpentBy
<1>5. QED BY <1>2, <1>3, <1>4

LEMMA CoinType ==
  ASSUME chain \in Seq(Tx), NEW c \in CreatedBy(Len(chain)) \cup {<<0, 1>>}
  PROVE  c \in Nat \X Nat /\ Coin(c) \in Io
<1>1. CASE c = <<0, 1>>
  <2>1. c[1] = 0 /\ c \in Nat \X Nat
    BY <1>1
  <2>2. MaxSats \in 1 .. MaxSats
    BY PortfolioAssumption
  <2>3. [address |-> Foreign, sats |-> MaxSats] \in Io
    BY <2>2 DEF Io
  <2>4. QED BY <2>1, <2>3 DEF Coin
<1>2. CASE c \in CreatedBy(Len(chain))
  <2>1. c \in Nat \X Nat /\ c[1] \in 1 .. Len(chain) /\ c[2] \in DOMAIN chain[c[1]].outs
    BY <1>2 DEF CreatedBy
  <2>2. chain[c[1]].outs \in Seq(Io)
    <3>1. chain[c[1]] \in Tx
      BY <2>1
    <3>2. QED BY <3>1 DEF Tx
  <2>3. QED BY <2>1, <2>2 DEF Coin
<1>3. QED BY <1>1, <1>2

LEMMA PaymentType ==
  ASSUME chain \in Seq(Tx), NEW coins \in SUBSET (Unspent \cup {<<0, 1>>}),
         NEW outs \in [1 .. 1 -> Io] \cup [1 .. 2 -> Io], NEW time \in Times \cup {None}
  PROVE  Payment(coins, outs, time) \in Tx
<1>1. coins \in SUBSET (Nat \X Nat) /\ [c \in coins |-> Coin(c)] \in [coins -> Io]
  BY CoinType, CreatedSoFar DEF Unspent
<1>2. outs \in Seq(Io)
  <2>1. PICK n \in Nat : outs \in [1 .. n -> Io]
    OBVIOUS
  <2>2. QED BY <2>1, SeqDef
<1>3. [c \in coins |-> Coin(c)] \in UNION {[cs -> Io] : cs \in SUBSET (Nat \X Nat)}
  BY <1>1
<1>4. QED BY <1>2, <1>3 DEF Tx, Payment

\* Finitely many coins: each transaction has at most two outputs.
LEMMA CreatedFinite ==
  ASSUME chain \in Seq(Tx), Backed, NEW n \in 0 .. Len(chain)
  PROVE  IsFiniteSet(CreatedBy(n))
<1>1. ASSUME NEW c \in CreatedBy(n) PROVE c \in (1 .. n) \X (1 .. 2)
  <2>1. c \in Nat \X Nat /\ c[1] \in 1 .. n /\ c[2] \in DOMAIN chain[c[1]].outs
    BY <1>1 DEF CreatedBy
  <2>2. DOMAIN chain[c[1]].outs \in {1 .. 1, 1 .. 2}
    BY <2>1 DEF Backed
  <2>3. c[2] \in 1 .. 2
    BY <2>1, <2>2
  <2>4. QED BY <2>1, <2>3
<1>2. IsFiniteSet((1 .. n) \X (1 .. 2))
  <2>1. 1 \in Int /\ 2 \in Int /\ n \in Int
    OBVIOUS
  <2>2. IsFiniteSet(1 .. n) /\ IsFiniteSet(1 .. 2)
    BY <2>1, FS_Interval, Zenon
  <2>3. QED BY <2>2, FS_Product
<1>3. QED BY <1>1, <1>2, FS_Subset

\* A payment keeps the blockchain backed.
LEMMA PaymentBacked ==
  ASSUME chain \in Seq(Tx), Backed,
         NEW coins \in SUBSET (Unspent \cup {<<0, 1>>}),
         NEW outs \in [1 .. 1 -> Io] \cup [1 .. 2 -> Io], NEW time \in Times \cup {None},
         Valid(Payment(coins, outs, time)),
         chain' = Append(chain, Payment(coins, outs, time))
  PROVE  Backed'
<1> DEFINE tx == Payment(coins, outs, time)
<1> PICK n \in Nat : n = Len(chain)
  OBVIOUS
<1>1. n \in 0 .. Len(chain) /\ DOMAIN chain = 1 .. n /\ tx \in Tx /\ chain' = Append(chain, tx)
  BY PaymentType
<1>2. DOMAIN chain' = 1 .. n + 1 /\ chain'[n + 1] = tx /\ \A i \in 1 .. n : chain'[i] = chain[i]
  <2> HIDE DEF tx
  <2> QED BY <1>1
<1>3. ASSUME NEW m \in 0 .. n PROVE CreatedBy(m)' = CreatedBy(m) /\ SpentBy(m)' = SpentBy(m)
  <2>1. \A i \in 1 .. m : chain'[i] = chain[i]
    BY <1>2
  <2>2. SpentBy(m)' = SpentBy(m)
    BY <2>1 DEF SpentBy
  <2>3. QED BY <2>1, <2>2 DEF CreatedBy
<1>4. ASSUME NEW c \in CreatedBy(n) \cup {<<0, 1>>} PROVE Coin(c)' = Coin(c)
  <2>1. c[1] = 0 \/ c[1] \in 1 .. n
    BY DEF CreatedBy
  <2>2. QED BY <1>2, <2>1 DEF Coin
<1>5. ASSUME NEW m \in 0 .. n PROVE CreatedBy(m) \subseteq CreatedBy(n)
  BY <1>1 DEF CreatedBy
<1>6. ASSUME NEW i \in 1 .. n
      PROVE  /\ DOMAIN chain'[i].outs \in {1 .. 1, 1 .. 2}
             /\ IsFiniteSet(DOMAIN chain'[i].ins)
             /\ \A c \in DOMAIN chain'[i].ins :
                  /\ chain'[i].ins[c] = Coin(c)'
                  /\ c = <<0, 1>> \/ c \in CreatedBy(i - 1)'
                  /\ c # <<0, 1>> => c \notin SpentBy(i - 1)'
             /\ Inputs(chain'[i]) # {} =>
                  Sats(chain'[i], Outputs(chain'[i])) <= Sats(chain'[i], Inputs(chain'[i]))
  <2>1. /\ DOMAIN chain[i].outs \in {1 .. 1, 1 .. 2}
        /\ IsFiniteSet(DOMAIN chain[i].ins)
        /\ \A c \in DOMAIN chain[i].ins :
             /\ chain[i].ins[c] = Coin(c)
             /\ c = <<0, 1>> \/ c \in CreatedBy(i - 1)
             /\ c # <<0, 1>> => c \notin SpentBy(i - 1)
        /\ Inputs(chain[i]) # {} =>
             Sats(chain[i], Outputs(chain[i])) <= Sats(chain[i], Inputs(chain[i]))
    BY <1>1 DEF Backed
  <2>2. i - 1 \in 0 .. n
    BY <1>1
  <2>3. chain'[i] = chain[i]
    BY <1>2
  <2>4. \A c \in DOMAIN chain[i].ins : Coin(c)' = Coin(c)
    BY <1>4, <1>5, <2>1, <2>2
  <2>5. CreatedBy(i - 1)' = CreatedBy(i - 1) /\ SpentBy(i - 1)' = SpentBy(i - 1)
    BY <1>3, <2>2
  <2>6. QED BY <2>1, <2>3, <2>4, <2>5
<1>7. /\ DOMAIN tx.outs \in {1 .. 1, 1 .. 2}
      /\ IsFiniteSet(DOMAIN tx.ins)
      /\ \A c \in DOMAIN tx.ins :
           /\ tx.ins[c] = Coin(c)'
           /\ c = <<0, 1>> \/ c \in CreatedBy(n)'
           /\ c # <<0, 1>> => c \notin SpentBy(n)'
      /\ Inputs(tx) # {} => Sats(tx, Outputs(tx)) <= Sats(tx, Inputs(tx))
  <2>1. tx.outs = outs /\ tx.ins = [c \in coins |-> Coin(c)]
    BY DEF Payment
  <2>2. \A c \in coins : c = <<0, 1>> \/ (c \in CreatedBy(n) /\ c \notin SpentBy(n))
    BY CreatedSoFar DEF Unspent
  <2>3. IsFiniteSet(coins)
    <3>1. IsFiniteSet(CreatedBy(n)) /\ IsFiniteSet({<<0, 1>>})
      BY <1>1, CreatedFinite, FS_Singleton
    <3>2. IsFiniteSet(CreatedBy(n) \cup {<<0, 1>>})
      BY <3>1, FS_Union
    <3>3. coins \in SUBSET (CreatedBy(n) \cup {<<0, 1>>})
      BY <2>2
    <3>4. QED BY <3>2, <3>3, FS_Subset
  <2>4. Inputs(tx) # {} => Sats(tx, Outputs(tx)) <= Sats(tx, Inputs(tx))
    BY DEF Valid
  <2>5. n \in 0 .. n
    BY <1>1
  <2>6. DOMAIN outs \in {1 .. 1, 1 .. 2}
    OBVIOUS
  <2> HIDE DEF tx
  <2>7. QED BY <1>3, <1>4, <2>1, <2>2, <2>3, <2>4, <2>5, <2>6
<1>8. Backed' = \A i \in DOMAIN chain' :
      /\ DOMAIN chain'[i].outs \in {1 .. 1, 1 .. 2}
      /\ IsFiniteSet(DOMAIN chain'[i].ins)
      /\ \A c \in DOMAIN chain'[i].ins :
           /\ chain'[i].ins[c] = Coin(c)'
           /\ c = <<0, 1>> \/ c \in CreatedBy(i - 1)'
           /\ c # <<0, 1>> => c \notin SpentBy(i - 1)'
      /\ Inputs(chain'[i]) # {} =>
           Sats(chain'[i], Outputs(chain'[i])) <= Sats(chain'[i], Inputs(chain'[i]))
  BY DEF Backed
<1>9. (n + 1) - 1 = n /\ \A i \in 1 .. n + 1 : i \in 1 .. n \/ i = n + 1
  BY <1>1
<1> HIDE DEF tx
<1>10. QED BY <1>2, <1>6, <1>7, <1>8, <1>9

\* A sync leaves the database in order.
LEMMA SyncSettles ==
  ASSUME IInv, NEW ch \in Seq(Tx), DOMAIN chain \subseteq DOMAIN ch,
         NEW addresses \in SUBSET Address, NEW last \in 0 .. MaxTime,
         Sync(ch, addresses, last)
  PROVE  TypeOK' /\ Synced'
<1>1. Synced'
  BY DEF Sync, Synced, Refresh
<1>2. /\ chain' = ch
      /\ owned' = addresses /\ lastPrice' = last
      /\ flags' = [i \in DOMAIN ch |-> SlotsOf(ch[i], addresses)]
      /\ class' = [i \in DOMAIN ch |-> Classify(ch[i], flags'[i])]
  BY DEF Sync, Refresh
<1>3. \A i \in DOMAIN ch : ch[i] \in Tx
  OBVIOUS
<1>4. ASSUME NEW i \in DOMAIN ch
      PROVE  /\ \A c \in DOMAIN ch[i].ins : ch[i].ins[c] \in Io
             /\ ch[i].outs \in Seq(Io) /\ ch[i].time \in Times \cup {None}
  <2>1. PICK coins \in SUBSET (Nat \X Nat) : ch[i].ins \in [coins -> Io]
    BY <1>3 DEF Tx
  <2>2. ch[i].outs \in Seq(Io) /\ ch[i].time \in Times \cup {None}
    BY <1>3 DEF Tx
  <2>3. QED BY <2>1, <2>2
<1>5. \A i \in DOMAIN ch : flags'[i] \subseteq Slots(ch[i]) /\ class'[i] \in Classes
  BY <1>2, ClassifyType DEF SlotsOf
<1>6. priced' \subseteq DOMAIN ch
  <2>1. priced \subseteq DOMAIN ch
    BY DEF IInv, TypeOK
  <2>2. priced' = priced \cup {i \in DOMAIN ch : class'[i] \in External /\ ch[i].time \in 1 .. last}
    BY DEF Sync
  <2>3. QED BY <2>1, <2>2
<1>7. TypeOK'
  BY <1>2, <1>4, <1>5, <1>6 DEF TypeOK
<1>8. QED BY <1>1, <1>7

LEMMA SameChain ==
  ASSUME Backed, UNCHANGED chain
  PROVE  Backed'
<1>1. \A c : Coin(c)' = Coin(c)
  BY DEF Coin
<1>2. \A m : CreatedBy(m)' = CreatedBy(m) /\ SpentBy(m)' = SpentBy(m)
  BY DEF CreatedBy, SpentBy
<1>3. QED BY <1>1, <1>2 DEF Backed

LEMMA Invariance == Spec => []IInv
<1>1. Init => IInv
  <2> SUFFICES ASSUME Init PROVE IInv
    OBVIOUS
  <2>1. chain = <<>> /\ DOMAIN chain = {} /\ chain \in Seq(Tx)
    BY DEF Init
  <2>2. flags = Refresh(chain, owned)
    BY <2>1 DEF Init, Refresh
  <2>3. class = [i \in DOMAIN chain |-> Classify(chain[i], flags[i])]
    BY <2>1 DEF Init
  <2>4. TypeOK
    BY <2>1, PortfolioAssumption DEF Init, TypeOK
  <2>5. Backed /\ IsFiniteSet(owned)
    BY <2>1, FS_EmptySet DEF Init, Backed
  <2>6. QED BY <2>1, <2>2, <2>3, <2>4, <2>5 DEF IInv, Synced
<1>2. IInv /\ [Next]_vars => IInv'
  <2> SUFFICES ASSUME IInv, [Next]_vars PROVE IInv'
    OBVIOUS
  <2>1. /\ chain \in Seq(Tx) /\ owned \in SUBSET Address /\ lastPrice \in 0 .. MaxTime
        /\ Backed /\ IsFiniteSet(owned)
    BY DEF IInv, Synced, TypeOK
  <2>2. CASE Pay
    <3>1. PICK coins \in SUBSET (Unspent \cup {<<0, 1>>}),
               outs \in [1 .. 1 -> Io] \cup [1 .. 2 -> Io], time \in Times \cup {None} :
            /\ Valid(Payment(coins, outs, time))
            /\ Sync(Append(chain, Payment(coins, outs, time)), owned, lastPrice)
      BY <2>2 DEF Pay
    <3> DEFINE tx == Payment(coins, outs, time)
    <3>2. tx \in Tx
      BY <2>1, PaymentType
    <3>3. Append(chain, tx) \in Seq(Tx) /\ DOMAIN chain \subseteq DOMAIN Append(chain, tx)
      BY <2>1, <3>2
    <3>4. TypeOK' /\ Synced'
      BY <2>1, <3>1, <3>3, SyncSettles
    <3>5. chain' = Append(chain, tx) /\ owned' = owned
      BY <3>1 DEF Sync
    <3>6. Backed'
      BY <2>1, <3>1, <3>5, PaymentBacked
    <3>7. QED BY <2>1, <3>4, <3>5, <3>6 DEF IInv
  <2>3. ASSUME NEW a \in Address \ owned, ImportWallet(a) PROVE IInv'
    <3>1. Sync(chain, owned \cup {a}, lastPrice) /\ owned \cup {a} \in SUBSET Address
      BY <2>1, <2>3 DEF ImportWallet
    <3>2. TypeOK' /\ Synced'
      BY <2>1, <3>1, SyncSettles
    <3>3. Backed' /\ IsFiniteSet(owned')
      BY <2>1, <3>1, SameChain, FS_AddElement DEF Sync
    <3>4. QED BY <3>2, <3>3 DEF IInv
  <2>4. ASSUME NEW a \in owned, RemoveWallet(a) PROVE IInv'
    <3>1. Sync(chain, owned \ {a}, lastPrice) /\ owned \ {a} \in SUBSET Address
      BY <2>1, <2>4 DEF RemoveWallet
    <3>2. TypeOK' /\ Synced'
      BY <2>1, <3>1, SyncSettles
    <3>3. Backed' /\ IsFiniteSet(owned')
      BY <2>1, <3>1, SameChain, FS_RemoveElement DEF Sync
    <3>4. QED BY <3>2, <3>3 DEF IInv
  <2>5. CASE NewImage
    <3>1. lastPrice + 1 \in 0 .. MaxTime /\ Sync(chain, owned, lastPrice + 1)
      BY <2>1, <2>5, PortfolioAssumption DEF NewImage
    <3>2. TypeOK' /\ Synced'
      BY <2>1, <3>1, SyncSettles
    <3>3. Backed' /\ IsFiniteSet(owned')
      BY <2>1, <3>1, SameChain DEF Sync
    <3>4. QED BY <3>2, <3>3 DEF IInv
  <2>6. CASE UNCHANGED vars
    <3>1. TypeOK' /\ Synced' /\ IsFiniteSet(owned')
      BY <2>6 DEF IInv, vars, TypeOK, Synced, Refresh
    <3>2. Backed'
      BY <2>1, <2>6, SameChain DEF vars
    <3>3. QED BY <3>1, <3>2 DEF IInv
  <2>7. QED BY <2>2, <2>3, <2>4, <2>5, <2>6 DEF Next
<1>3. QED BY <1>1, <1>2, PTL DEF Spec

(* The chain, the flags and the classes have their types: in particular a  *)
(* class is always one of the four categories (TypeOK).                    *)
THEOREM TypeCorrect == Spec => []TypeOK
  BY Invariance, PTL DEF IInv

(* Owning more never makes a class less ours, for one transaction.         *)
LEMMA MoreOwned ==
  ASSUME NEW t, NEW own, NEW more, own \subseteq more
  PROVE  /\ Classify(t, own) = "internal" => Classify(t, more) = "internal"
         /\ Classify(t, own) = "external_out" => Classify(t, more) \in {"external_out", "internal"}
  BY DEF Classify

(* Whatever is bought and sold, importing a wallet keeps a move between    *)
(* wallets internal and never makes income of a payment out                *)
(* (ImportKeepsOutflows).                                                  *)
THEOREM ImportsKeepOutflows == Spec => ImportKeepsOutflows
<1> DEFINE A == owned \subseteq owned' =>
       \A i \in DOMAIN class :
         /\ class[i] = "internal" => class'[i] = "internal"
         /\ class[i] = "external_out" => class'[i] \in {"external_out", "internal"}
<1>1. IInv /\ [Next]_vars => [A]_vars
  <2> SUFFICES ASSUME IInv, Next, owned \subseteq owned', NEW i \in DOMAIN class
               PROVE  /\ class[i] = "internal" => class'[i] = "internal"
                      /\ class[i] = "external_out" => class'[i] \in {"external_out", "internal"}
    OBVIOUS
  <2>1. /\ chain \in Seq(Tx) /\ i \in DOMAIN chain
        /\ class[i] = Classify(chain[i], SlotsOf(chain[i], owned))
    BY DEF IInv, Synced, Refresh
  <2>2. PICK ch, addresses, last :
          /\ Sync(ch, addresses, last)
          /\ i \in DOMAIN ch /\ ch[i] = chain[i]
    <3>1. CASE Pay
      <4>1. PICK coins \in SUBSET (Unspent \cup {<<0, 1>>}),
                 outs \in [1 .. 1 -> Io] \cup [1 .. 2 -> Io], time \in Times \cup {None} :
              Sync(Append(chain, Payment(coins, outs, time)), owned, lastPrice)
        BY <3>1 DEF Pay
      <4> DEFINE tx == Payment(coins, outs, time)
      <4>2. tx \in Tx
        BY <2>1, PaymentType
      <4>3. i \in DOMAIN Append(chain, tx) /\ Append(chain, tx)[i] = chain[i]
        BY <2>1, <4>2
      <4>4. QED BY <4>1, <4>3
    <3>2. CASE ~Pay
      BY <2>1, <3>2 DEF Next, ImportWallet, RemoveWallet, NewImage
    <3>3. QED BY <3>1, <3>2
  <2>3. class'[i] = Classify(chain[i], SlotsOf(chain[i], owned'))
    BY <2>2 DEF Sync, Refresh
  <2>4. SlotsOf(chain[i], owned) \subseteq SlotsOf(chain[i], owned')
    BY DEF SlotsOf
  <2>5. QED BY <2>1, <2>3, <2>4, MoreOwned
<1>2. QED BY <1>1, Invariance, PTL DEF Spec, ImportKeepsOutflows

-----------------------------------------------------------------------------
(* The classes.                                                            *)

\* What a slot of a stored transaction holds.
LEMMA SlotType ==
  ASSUME chain \in Seq(Tx), Backed, NEW i \in DOMAIN chain
  PROVE  /\ IsFiniteSet(Inputs(chain[i])) /\ IsFiniteSet(Outputs(chain[i]))
         /\ Outputs(chain[i]) # {}
         /\ \A slot \in Slots(chain[i]) : IoAt(chain[i], slot) \in Io
<1>1. chain[i] \in Tx
  OBVIOUS
<1>2. IsFiniteSet(DOMAIN chain[i].ins) /\ DOMAIN chain[i].outs \in {1 .. 1, 1 .. 2}
  BY DEF Backed
<1>3. IsFiniteSet(DOMAIN chain[i].outs) /\ DOMAIN chain[i].outs # {}
  <2>1. 1 \in Int /\ 2 \in Int
    OBVIOUS
  <2>2. IsFiniteSet(1 .. 1) /\ IsFiniteSet(1 .. 2)
    BY <2>1, FS_Interval, Zenon
  <2>3. 1 \in 1 .. 1 /\ 1 \in 1 .. 2
    OBVIOUS
  <2>4. QED BY <1>2, <2>2, <2>3
<1>4. IsFiniteSet({"in"}) /\ IsFiniteSet({"out"})
  BY FS_Singleton
<1>5. IsFiniteSet(Inputs(chain[i])) /\ IsFiniteSet(Outputs(chain[i]))
  BY <1>2, <1>3, <1>4, FS_Product DEF Inputs, Outputs
<1>6. ASSUME NEW slot \in Slots(chain[i]) PROVE IoAt(chain[i], slot) \in Io
  <2>1. PICK coins \in SUBSET (Nat \X Nat) : chain[i].ins \in [coins -> Io]
    BY <1>1 DEF Tx
  <2>2. chain[i].outs \in Seq(Io)
    BY <1>1 DEF Tx
  <2>3. CASE slot \in Inputs(chain[i])
    BY <2>1, <2>3 DEF Inputs, IoAt
  <2>4. CASE slot \in Outputs(chain[i])
    <3>1. slot[1] # "in" /\ slot[2] \in DOMAIN chain[i].outs
      BY <2>4 DEF Outputs
    <3>2. QED BY <2>2, <3>1 DEF IoAt
  <2>5. QED BY <2>3, <2>4 DEF Slots
<1>7. Outputs(chain[i]) # {}
  <2>1. PICK k \in DOMAIN chain[i].outs : TRUE
    BY <1>3
  <2>2. <<"out", k>> \in Outputs(chain[i])
    BY DEF Outputs
  <2>3. QED BY <2>2
<1>8. QED BY <1>5, <1>6, <1>7

LEMMA SatsNatural ==
  ASSUME chain \in Seq(Tx), Backed, NEW i \in DOMAIN chain, NEW slots \in SUBSET Slots(chain[i])
  PROVE  IsFiniteSet(slots) /\ Sats(chain[i], slots) \in Nat
<1> DEFINE f == [slot \in slots |-> IoAt(chain[i], slot).sats]
<1>1. IsFiniteSet(slots)
  <2>1. IsFiniteSet(Slots(chain[i]))
    BY SlotType, FS_Union DEF Slots
  <2>2. QED BY <2>1, FS_Subset
<1>2. \A slot \in slots : f[slot] \in Nat
  <2>1. \A slot \in slots : IoAt(chain[i], slot) \in Io
    BY SlotType
  <2>2. \A io \in Io : io.sats \in Nat
    BY PortfolioAssumption DEF Io
  <2>3. QED BY <2>1, <2>2
<1>3. DOMAIN f = slots
  OBVIOUS
<1>4. Sats(chain[i], slots) = SumFunctionOnSet(f, slots)
  BY <1>3 DEF Sats, SumFunction
<1> HIDE DEF f
<1>5. QED BY <1>1, <1>2, <1>4, SumNatural

LEMMA OwnedNatural ==
  ASSUME chain \in Seq(Tx), Backed, NEW i \in DOMAIN chain, NEW own
  PROVE  OwnedIn(chain[i], own) \in Nat /\ OwnedOut(chain[i], own) \in Nat
<1>1. own \cap Inputs(chain[i]) \in SUBSET Slots(chain[i])
  BY DEF Slots
<1>2. own \cap Outputs(chain[i]) \in SUBSET Slots(chain[i])
  BY DEF Slots
<1>3. QED BY <1>1, <1>2, SatsNatural DEF OwnedIn, OwnedOut

\* The four classes of a stored transaction.
LEMMA ClassOf ==
  ASSUME chain \in Seq(Tx), Backed, NEW i \in DOMAIN chain, NEW own
  PROVE  LET weFundAll == Inputs(chain[i]) # {} /\ Inputs(chain[i]) \subseteq own
             weGetAll  == Outputs(chain[i]) \subseteq own
             class_    == Classify(chain[i], own)
         IN  /\ class_ = "internal"     <=> weFundAll /\ weGetAll
             /\ class_ = "external_out" <=> weFundAll /\ ~weGetAll
             /\ class_ = "external_in"  <=> ~weFundAll /\ NetOwned(chain[i], own) > 0
<1>1. OwnedIn(chain[i], own) \in Nat /\ OwnedOut(chain[i], own) \in Nat
  BY OwnedNatural
<1>2. Outputs(chain[i]) # {}
  BY SlotType
<1>3. Inputs(chain[i]) = {} => OwnedIn(chain[i], own) = 0
  <2> SUFFICES ASSUME Inputs(chain[i]) = {} PROVE OwnedIn(chain[i], own) = 0
    OBVIOUS
  <2>1. own \cap Inputs(chain[i]) = {}
    OBVIOUS
  <2>2. OwnedIn(chain[i], own) = Sats(chain[i], {})
    BY <2>1 DEF OwnedIn
  <2>3. DOMAIN [slot \in {} |-> IoAt(chain[i], slot).sats] = {}
    OBVIOUS
  <2>4. QED BY <2>2, <2>3, SumEmpty DEF Sats, SumFunction
<1>4. NetOwned(chain[i], own) > 0 <=> OwnedOut(chain[i], own) > OwnedIn(chain[i], own)
  BY <1>1 DEF NetOwned
<1>5. QED BY <1>1, <1>2, <1>3, <1>4 DEF Classify

(* However transactions and imports follow one another, every class is the *)
(* one the documentation gives it for the wallets now in the database      *)
(* (DocumentedClass).                                                      *)
THEOREM ClassesAreDocumented == Spec => []DocumentedClass
<1>1. IInv => DocumentedClass
  <2> SUFFICES ASSUME IInv, NEW i \in DOMAIN chain
               PROVE  LET own       == SlotsOf(chain[i], owned)
                          weFundAll == Inputs(chain[i]) # {} /\ Inputs(chain[i]) \subseteq own
                          weGetAll  == Outputs(chain[i]) \subseteq own
                      IN  /\ class[i] = "internal"     <=> weFundAll /\ weGetAll
                          /\ class[i] = "external_out" <=> weFundAll /\ ~weGetAll
                          /\ class[i] = "external_in"  <=> ~weFundAll /\ NetOwned(chain[i], own) > 0
    BY DEF DocumentedClass
  <2>1. class[i] = Classify(chain[i], SlotsOf(chain[i], owned))
    BY DEF IInv, Synced, Refresh
  <2>2. QED BY <2>1, ClassOf DEF IInv, Synced
<1>2. QED BY <1>1, Invariance, PTL

-----------------------------------------------------------------------------
(* The balances.                                                           *)

\* What the first n transactions have left unspent at some addresses, and what
\* transaction i spends and creates of it.
UnspentBy(n, A) == {c \in CreatedBy(n) \ SpentBy(n) : Coin(c).address \in A}
Spends(i, A)    == {c \in DOMAIN chain[i].ins : Coin(c).address \in A}
Creates(i, A)   == {c \in CreatedBy(i) : c[1] = i /\ Coin(c).address \in A}

CoinSats == [c \in CreatedBy(Len(chain)) |-> Coin(c).sats]
NetOf(A) == [i \in DOMAIN chain |-> NetOwned(chain[i], SlotsOf(chain[i], A))]

LEMMA CoinNatural ==
  ASSUME chain \in Seq(Tx), NEW c \in CreatedBy(Len(chain))
  PROVE  CoinSats[c] = Coin(c).sats /\ CoinSats[c] \in Nat
<1>1. Coin(c) \in Io
  BY CoinType
<1>2. \A io \in Io : io.sats \in Nat
  BY PortfolioAssumption DEF Io
<1>3. QED BY <1>1, <1>2 DEF CoinSats

LEMMA NetInteger ==
  ASSUME chain \in Seq(Tx), Backed, NEW i \in DOMAIN chain, NEW A
  PROVE  /\ NetOwned(chain[i], A) \in Int
         /\ NetOf(A)[i] = NetOwned(chain[i], SlotsOf(chain[i], A)) /\ NetOf(A)[i] \in Int
<1>1. \A own : NetOwned(chain[i], own) \in Int
  BY OwnedNatural DEF NetOwned
<1>2. QED BY <1>1 DEF NetOf

\* The coins of people other than the user are nobody's of the addresses.
LEMMA SpendsOwn ==
  ASSUME chain \in Seq(Tx), Backed, NEW i \in DOMAIN chain,
         NEW A \in SUBSET Address, NEW c \in Spends(i, A)
  PROVE  /\ c \in CreatedBy(i - 1) /\ c \notin SpentBy(i - 1)
         /\ c \in CreatedBy(Len(chain)) /\ chain[i].ins[c] = Coin(c)
<1>1. /\ c \in DOMAIN chain[i].ins /\ Coin(c).address \in Address
      /\ i \in 1 .. Len(chain) /\ Len(chain) \in Nat
  BY DEF Spends
<1>2. c # <<0, 1>>
  BY <1>1, PortfolioAssumption DEF Coin
<1>3. c \in CreatedBy(i - 1) /\ c \notin SpentBy(i - 1) /\ chain[i].ins[c] = Coin(c)
  BY <1>1, <1>2 DEF Backed
<1>4. c \in CreatedBy(Len(chain))
  BY <1>1, <1>3 DEF CreatedBy
<1>5. QED BY <1>3, <1>4

LEMMA SpendsSum ==
  ASSUME chain \in Seq(Tx), Backed, NEW i \in DOMAIN chain, NEW A \in SUBSET Address
  PROVE  /\ IsFiniteSet(Spends(i, A))
         /\ SumFunctionOnSet(CoinSats, Spends(i, A)) = OwnedIn(chain[i], SlotsOf(chain[i], A))
<1> DEFINE S == Spends(i, A)
           m == [c \in S |-> <<"in", c>>]
           T == SlotsOf(chain[i], A) \cap Inputs(chain[i])
           g == [slot \in T |-> IoAt(chain[i], slot).sats]
<1>1. IsFiniteSet(S)
  <2>1. IsFiniteSet(DOMAIN chain[i].ins)
    BY DEF Backed
  <2>2. QED BY <2>1, FS_Subset DEF Spends
<1>2. ASSUME NEW c \in S
      PROVE  /\ m[c] \in T /\ CoinSats[c] \in Int
             /\ g[m[c]] = CoinSats[c]
  <2>1. m[c] = <<"in", c>> /\ c \in DOMAIN chain[i].ins
    BY DEF Spends
  <2>2. IoAt(chain[i], m[c]) = Coin(c) /\ c \in CreatedBy(Len(chain))
    BY <2>1, SpendsOwn DEF IoAt
  <2>3. Coin(c).address \in A
    BY DEF Spends
  <2>4. m[c] \in T
    BY <2>1, <2>2, <2>3 DEF SlotsOf, Slots, Inputs
  <2>5. g[m[c]] = Coin(c).sats
    <3> HIDE DEF T, m
    <3> QED BY <2>2, <2>4
  <2>6. QED BY <2>2, <2>4, <2>5, CoinNatural
<1>3. ASSUME NEW slot \in T PROVE \E c \in S : slot = m[c]
  <2>1. slot = <<"in", slot[2]>> /\ slot[2] \in DOMAIN chain[i].ins
    BY DEF Inputs
  <2>2. IoAt(chain[i], slot) = Coin(slot[2])
    BY <2>1 DEF IoAt, Backed
  <2>3. slot[2] \in S
    BY <2>1, <2>2 DEF SlotsOf, Spends
  <2>4. QED BY <2>1, <2>3
<1>4. {m[c] : c \in S} = T
  <2> HIDE DEF m, S, T
  <2> QED BY <1>2, <1>3
<1>5. \A c, d \in S : m[c] = m[d] => c = d
  OBVIOUS
<1>6. SumFunctionOnSet(g, T) = SumFunctionOnSet(CoinSats, S)
  <2> HIDE DEF g, T, m, S
  <2> QED BY <1>1, <1>2, <1>4, <1>5, SumImage
<1>7. OwnedIn(chain[i], SlotsOf(chain[i], A)) = SumFunctionOnSet(g, T)
  BY DEF OwnedIn, Sats, SumFunction
<1>8. QED BY <1>1, <1>6, <1>7

LEMMA CreatesSum ==
  ASSUME chain \in Seq(Tx), Backed, NEW i \in DOMAIN chain, NEW A \in SUBSET Address
  PROVE  /\ IsFiniteSet(Creates(i, A))
         /\ SumFunctionOnSet(CoinSats, Creates(i, A)) = OwnedOut(chain[i], SlotsOf(chain[i], A))
<1> DEFINE S == Creates(i, A)
           m == [c \in S |-> <<"out", c[2]>>]
           T == SlotsOf(chain[i], A) \cap Outputs(chain[i])
           g == [slot \in T |-> IoAt(chain[i], slot).sats]
<1>0. i \in 1 .. Len(chain) /\ Len(chain) \in Nat
  OBVIOUS
<1>1. IsFiniteSet(S)
  BY <1>0, CreatedFinite, FS_Subset DEF Creates
<1>2. ASSUME NEW c \in S
      PROVE  /\ m[c] \in T /\ CoinSats[c] \in Int
             /\ g[m[c]] = CoinSats[c]
  <2>1. /\ m[c] = <<"out", c[2]>> /\ c[1] = i /\ c[2] \in DOMAIN chain[i].outs
        /\ c \in CreatedBy(Len(chain))
    BY <1>0 DEF Creates, CreatedBy
  <2>2. IoAt(chain[i], m[c]) = Coin(c)
    BY <1>0, <2>1 DEF IoAt, Coin
  <2>3. Coin(c).address \in A
    BY DEF Creates
  <2>4. m[c] \in T
    BY <2>1, <2>2, <2>3 DEF SlotsOf, Slots, Outputs
  <2>5. g[m[c]] = Coin(c).sats
    <3> HIDE DEF T, m
    <3> QED BY <2>2, <2>4
  <2>6. QED BY <2>1, <2>4, <2>5, CoinNatural
<1>3. ASSUME NEW slot \in T PROVE \E c \in S : slot = m[c]
  <2> DEFINE c == <<i, slot[2]>>
  <2>1. slot = <<"out", slot[2]>> /\ slot[2] \in DOMAIN chain[i].outs
    BY DEF Outputs
  <2>2. slot[2] \in Nat
    <3>1. chain[i].outs \in Seq(Io)
      <4>1. chain[i] \in Tx
        OBVIOUS
      <4>2. QED BY <4>1 DEF Tx
    <3>2. QED BY <2>1, <3>1
  <2>3. IoAt(chain[i], slot) = Coin(c) /\ c \in CreatedBy(i)
    BY <1>0, <2>1, <2>2 DEF IoAt, Coin, CreatedBy
  <2>4. c \in S
    BY <2>3 DEF SlotsOf, Creates
  <2>5. m[c] = slot
    BY <2>1, <2>4
  <2>6. QED BY <2>4, <2>5
<1>4. {m[c] : c \in S} = T
  <2> HIDE DEF m, S, T
  <2> QED BY <1>2, <1>3
<1>5. \A c, d \in S : m[c] = m[d] => c = d
  <2>1. \A c \in S : c = <<i, c[2]>>
    BY DEF Creates, CreatedBy
  <2>2. QED BY <2>1
<1>6. SumFunctionOnSet(g, T) = SumFunctionOnSet(CoinSats, S)
  <2> HIDE DEF g, T, m, S
  <2> QED BY <1>1, <1>2, <1>4, <1>5, SumImage
<1>7. OwnedOut(chain[i], SlotsOf(chain[i], A)) = SumFunctionOnSet(g, T)
  BY DEF OwnedOut, Sats, SumFunction
<1>8. QED BY <1>1, <1>6, <1>7

\* One more transaction takes away what it spends and adds what it creates.
LEMMA NextUnspent ==
  ASSUME chain \in Seq(Tx), Backed, NEW n \in 0 .. Len(chain) - 1, NEW A \in SUBSET Address
  PROVE  /\ Spends(n + 1, A) \subseteq UnspentBy(n, A)
         /\ UnspentBy(n + 1, A) = (UnspentBy(n, A) \ Spends(n + 1, A)) \cup Creates(n + 1, A)
         /\ UnspentBy(n, A) \cap Creates(n + 1, A) = {}
<1>1. n \in Nat /\ n + 1 \in DOMAIN chain /\ n + 1 \in 1 .. Len(chain) /\ (n + 1) - 1 = n
  OBVIOUS
<1>2. \A c \in Spends(n + 1, A) : c \in CreatedBy(n) /\ c \notin SpentBy(n)
  BY <1>1, SpendsOwn
<1>3. Spends(n + 1, A) \subseteq UnspentBy(n, A)
  BY <1>2 DEF Spends, UnspentBy
<1>4. CreatedBy(n + 1) = CreatedBy(n) \cup {c \in CreatedBy(n + 1) : c[1] = n + 1}
  BY <1>1 DEF CreatedBy
<1>5. \A c \in CreatedBy(n) : c[1] # n + 1
  BY <1>1 DEF CreatedBy
<1>6. SpentBy(n + 1) = SpentBy(n) \cup DOMAIN chain[n + 1].ins
  <2>1. \A i : i \in 1 .. n + 1 <=> i \in 1 .. n \/ i = n + 1
    BY <1>1
  <2>2. QED BY <2>1 DEF SpentBy
<1>7. \A c \in SpentBy(n + 1) : c = <<0, 1>> \/ c \in CreatedBy(n)
  <2> SUFFICES ASSUME NEW i \in 1 .. n + 1, NEW c \in DOMAIN chain[i].ins
               PROVE  c = <<0, 1>> \/ c \in CreatedBy(n)
    BY DEF SpentBy
  <2>1. c = <<0, 1>> \/ c \in CreatedBy(i - 1)
    BY <1>1 DEF Backed
  <2>2. CreatedBy(i - 1) \subseteq CreatedBy(n)
    BY <1>1 DEF CreatedBy
  <2>3. QED BY <2>1, <2>2
<1>8. \A c \in Creates(n + 1, A) : c \notin SpentBy(n + 1)
  <2>1. \A c \in Creates(n + 1, A) : c[1] = n + 1 /\ c # <<0, 1>>
    BY <1>1 DEF Creates
  <2>2. QED BY <1>5, <1>7, <2>1
<1>9. UnspentBy(n + 1, A) = (UnspentBy(n, A) \ Spends(n + 1, A)) \cup Creates(n + 1, A)
  BY <1>4, <1>6, <1>8 DEF UnspentBy, Spends, Creates
<1>10. UnspentBy(n, A) \cap Creates(n + 1, A) = {}
  BY <1>5 DEF UnspentBy, Creates
<1>11. QED BY <1>3, <1>9, <1>10

\* At any point of the blockchain the net amounts so far add up to the coins.
LEMMA PrefixBalance ==
  ASSUME chain \in Seq(Tx), Backed, NEW A \in SUBSET Address, NEW n \in 0 .. Len(chain)
  PROVE  SumFunctionOnSet(NetOf(A), 1 .. n) = SumFunctionOnSet(CoinSats, UnspentBy(n, A))
<1> DEFINE L == Len(chain)
           Coins(k) == SumFunctionOnSet(CoinSats, UnspentBy(k, A))
           Nets(k)  == SumFunctionOnSet(NetOf(A), 1 .. k)
           C == {k \in 0 .. L : Nets(k) = Coins(k)}
<1>1. L \in Nat /\ DOMAIN chain = 1 .. L
  OBVIOUS
<1>2. 0 \in C
  <2>1. UnspentBy(0, A) = {} /\ 1 .. 0 = {}
    BY DEF UnspentBy, CreatedBy
  <2>2. Nets(0) = 0 /\ Coins(0) = 0
    BY <2>1, SumEmpty
  <2> HIDE DEF Nets, Coins
  <2>3. QED BY <1>1, <2>2
<1>3. ASSUME NEW k \in 0 .. L - 1, k \in C PROVE k + 1 \in C
  <2> DEFINE U == UnspentBy(k, A)
             S == Spends(k + 1, A)
             N == Creates(k + 1, A)
             tx == chain[k + 1]
             own == SlotsOf(tx, A)
  <2>1. k \in 0 .. L /\ k + 1 \in 0 .. L /\ k + 1 \in DOMAIN chain /\ k \in Nat /\ k \in Int
    BY <1>1
  <2>2. S \subseteq U /\ UnspentBy(k + 1, A) = (U \ S) \cup N /\ U \cap N = {}
    BY <1>3, NextUnspent
  <2>3. IsFiniteSet(U) /\ IsFiniteSet(U \ S)
    <3>1. IsFiniteSet(CreatedBy(k))
      BY <2>1, CreatedFinite
    <3>2. QED BY <3>1, FS_Subset DEF UnspentBy
  <2>4. /\ IsFiniteSet(S) /\ SumFunctionOnSet(CoinSats, S) = OwnedIn(tx, own)
        /\ IsFiniteSet(N) /\ SumFunctionOnSet(CoinSats, N) = OwnedOut(tx, own)
    BY <2>1, SpendsSum, CreatesSum
  <2>5. \A c \in U \cup N : CoinSats[c] \in Int
    <3>1. U \cup N \subseteq CreatedBy(L)
      BY <2>1 DEF UnspentBy, Creates, CreatedBy
    <3>2. QED BY <3>1, CoinNatural
  <2>6. SumFunctionOnSet(CoinSats, U) = SumFunctionOnSet(CoinSats, U \ S) + OwnedIn(tx, own)
    <3>1. U = (U \ S) \cup S /\ (U \ S) \cap S = {} /\ \A c \in (U \ S) \cup S : CoinSats[c] \in Int
      BY <2>2, <2>5
    <3>2. SumFunctionOnSet(CoinSats, (U \ S) \cup S)
            = SumFunctionOnSet(CoinSats, U \ S) + SumFunctionOnSet(CoinSats, S)
      <4> HIDE DEF U, S
      <4> QED BY <2>3, <2>4, <3>1, SumDisjoint
    <3>3. QED BY <2>4, <3>1, <3>2
  <2>7. Coins(k + 1) = SumFunctionOnSet(CoinSats, U \ S) + OwnedOut(tx, own)
    <3>1. (U \ S) \cap N = {} /\ \A c \in (U \ S) \cup N : CoinSats[c] \in Int
      BY <2>2, <2>5
    <3>2. SumFunctionOnSet(CoinSats, (U \ S) \cup N)
            = SumFunctionOnSet(CoinSats, U \ S) + SumFunctionOnSet(CoinSats, N)
      <4> HIDE DEF U, S, N
      <4> QED BY <2>3, <2>4, <3>1, SumDisjoint
    <3>3. QED BY <2>2, <2>4, <3>2
  <2>8. Nets(k + 1) = Nets(k) + (OwnedOut(tx, own) - OwnedIn(tx, own))
    <3>1. IsFiniteSet(1 .. k) /\ k + 1 \notin 1 .. k /\ 1 .. k + 1 = (1 .. k) \cup {k + 1}
      <4>1. 1 \in Int /\ k \in Int
        BY <2>1
      <4>2. IsFiniteSet(1 .. k)
        BY <4>1, FS_Interval, Zenon
      <4>3. QED BY <2>1, <4>2
    <3>2. \A i \in 1 .. k : NetOf(A)[i] \in Int
      <4>1. \A i \in 1 .. k : i \in DOMAIN chain
        BY <1>1, <2>1
      <4>2. QED BY <4>1, NetInteger
    <3>3. NetOf(A)[k + 1] \in Int /\ NetOf(A)[k + 1] = OwnedOut(tx, own) - OwnedIn(tx, own)
      BY <2>1, NetInteger DEF NetOwned
    <3>4. SumFunctionOnSet(NetOf(A), (1 .. k) \cup {k + 1})
            = SumFunctionOnSet(NetOf(A), 1 .. k) + NetOf(A)[k + 1]
      <4> DEFINE D == 1 .. k
                 y == k + 1
                 f == NetOf(A)
      <4>1. IsFiniteSet(D) /\ y \notin D /\ (\A i \in D : f[i] \in Int) /\ f[y] \in Int
        BY <3>1, <3>2, <3>3
      <4> HIDE DEF D, y, f
      <4>2. SumFunctionOnSet(f, D \cup {y}) = SumFunctionOnSet(f, D) + f[y]
        BY <4>1, SumAdd
      <4>3. QED BY <4>2 DEF D, y, f
    <3>5. QED BY <3>1, <3>3, <3>4
  <2>9. Nets(k) = Coins(k)
    BY <1>3
  <2>10. SumFunctionOnSet(CoinSats, U \ S) \in Int /\ OwnedOut(tx, own) \in Int /\ OwnedIn(tx, own) \in Int
    <3>1. \A c \in U \ S : CoinSats[c] \in Int
      BY <2>5
    <3>2. SumFunctionOnSet(CoinSats, U \ S) \in Int
      <4> HIDE DEF U, S
      <4> QED BY <2>3, <3>1, SumType
    <3>3. QED BY <2>1, <3>2, OwnedNatural
  <2>11. Nets(k + 1) = Coins(k + 1)
    <3> HIDE DEF U, S, own, tx
    <3> QED BY <2>6, <2>7, <2>8, <2>9, <2>10 DEF U
  <2> HIDE DEF Nets, Coins
  <2>12. QED BY <2>1, <2>11
<1>4. n \in C
  <2> HIDE DEF C, L
  <2> QED BY <1>1, <1>2, <1>3, NumberInduction DEF L
<1>5. QED BY <1>4

(* Whatever is paid, in whatever order wallets are imported and removed,   *)
(* the balance the wallets page shows for a wallet is what the blockchain  *)
(* has unspent at its address (BalancesAreCoins).                          *)
THEOREM BalancesShowCoins == Spec => []BalancesAreCoins
<1>1. IInv => BalancesAreCoins
  <2> SUFFICES ASSUME IInv, NEW a \in owned
               PROVE  Balance(a) = SumFunction([c \in {d \in Unspent : Coin(d).address = a} |-> Coin(c).sats])
    BY DEF BalancesAreCoins
  <2> DEFINE A == {a}
             n == Len(chain)
             U == {d \in Unspent : Coin(d).address = a}
  <2>1. chain \in Seq(Tx) /\ Backed /\ A \in SUBSET Address /\ n \in 0 .. n /\ DOMAIN chain = 1 .. n
    BY DEF IInv, Synced, TypeOK
  <2>2. U = UnspentBy(n, A)
    BY <2>1, CreatedSoFar DEF Unspent, UnspentBy
  <2>3. Balance(a) = SumFunctionOnSet(NetOf(A), 1 .. n)
    <3>1. ASSUME NEW i \in DOMAIN chain
          PROVE  {slot \in flags[i] : IoAt(chain[i], slot).address = a} = SlotsOf(chain[i], A)
      <4>1. flags[i] = SlotsOf(chain[i], owned)
        BY DEF IInv, Synced, Refresh
      <4>2. QED BY <4>1 DEF SlotsOf
    <3>2. [i \in DOMAIN chain |->
             NetOwned(chain[i], {slot \in flags[i] : IoAt(chain[i], slot).address = a})] = NetOf(A)
      BY <3>1 DEF NetOf
    <3>3. DOMAIN NetOf(A) = 1 .. n
      BY <2>1 DEF NetOf
    <3>4. QED BY <3>2, <3>3 DEF Balance, SumFunction
  <2>4. SumFunctionOnSet(NetOf(A), 1 .. n) = SumFunctionOnSet(CoinSats, U)
    BY <2>1, <2>2, PrefixBalance
  <2>5. SumFunctionOnSet(CoinSats, U) = SumFunction([c \in U |-> Coin(c).sats])
    <3>1. U \subseteq CreatedBy(n) /\ IsFiniteSet(U)
      <4>1. U \subseteq CreatedBy(n)
        BY <2>2 DEF UnspentBy
      <4>2. QED BY <2>1, <4>1, CreatedFinite, FS_Subset
    <3> DEFINE f == [c \in U |-> Coin(c).sats]
    <3>2. \A c \in U : CoinSats[c] \in Int /\ CoinSats[c] = f[c]
      BY <2>1, <3>1, CoinNatural
    <3>3. SumFunctionOnSet(CoinSats, U) = SumFunctionOnSet(f, U)
      <4> HIDE DEF U, f
      <4> QED BY <3>1, <3>2, SumSame
    <3>4. QED BY <3>3 DEF SumFunction
  <2>6. QED BY <2>3, <2>4, <2>5
<1>2. QED BY <1>1, Invariance, PTL

-----------------------------------------------------------------------------
(* The total.                                                              *)

\* More slots hold no less.
LEMMA SatsMonotone ==
  ASSUME chain \in Seq(Tx), Backed, NEW i \in DOMAIN chain,
         NEW slots \in SUBSET Slots(chain[i]), NEW fewer \in SUBSET slots
  PROVE  Sats(chain[i], fewer) <= Sats(chain[i], slots)
<1> DEFINE f == [slot \in slots |-> IoAt(chain[i], slot).sats]
           g == [slot \in fewer |-> IoAt(chain[i], slot).sats]
<1>1. IsFiniteSet(slots) /\ IsFiniteSet(fewer)
  BY SatsNatural
<1>2. \A slot \in slots : f[slot] \in Int /\ f[slot] >= 0
  <2>1. \A slot \in slots : IoAt(chain[i], slot) \in Io
    BY SlotType
  <2>2. \A io \in Io : io.sats \in Int /\ io.sats >= 0
    BY PortfolioAssumption DEF Io
  <2>3. QED BY <2>1, <2>2
<1>3. \A slot \in fewer : f[slot] = g[slot]
  OBVIOUS
<1>4. Sats(chain[i], slots) = SumFunctionOnSet(f, slots) /\ Sats(chain[i], fewer) = SumFunctionOnSet(g, fewer)
  BY DEF Sats, SumFunction
<1> HIDE DEF f, g
<1>5. SumFunctionOnSet(f, fewer) = SumFunctionOnSet(g, fewer)
  BY <1>1, <1>2, <1>3, SumSame
<1>6. SumFunctionOnSet(f, slots) >= SumFunctionOnSet(f, fewer)
  BY <1>1, <1>2, SumSplit
<1>7. SumFunctionOnSet(f, slots) \in Int /\ SumFunctionOnSet(f, fewer) \in Int
  BY <1>1, <1>2, SumType
<1>8. QED BY <1>4, <1>5, <1>6, <1>7

\* A transaction that the user funds alone costs him at least its fee, and no
\* more than that if it is internal; what is not external brings him nothing.
LEMMA FundedNet ==
  ASSUME chain \in Seq(Tx), Backed, NEW i \in DOMAIN chain, NEW own
  PROVE  LET class_ == Classify(chain[i], own)
             net    == NetOwned(chain[i], own)
         IN  /\ Fee(chain[i]) \in Nat
             /\ class_ = "external_in" => net > 0
             /\ class_ = "external_out" => -net >= Fee(chain[i])
             /\ class_ = "internal" => net = -Fee(chain[i])
             /\ class_ = "unknown" => net <= 0
<1> DEFINE tx  == chain[i]
           all == Sats(tx, Inputs(tx))
           out == Sats(tx, Outputs(tx))
<1>1. OwnedIn(tx, own) \in Nat /\ OwnedOut(tx, own) \in Nat /\ all \in Nat /\ out \in Nat
  <2>1. Inputs(tx) \in SUBSET Slots(tx) /\ Outputs(tx) \in SUBSET Slots(tx)
    BY DEF Slots
  <2>2. QED BY <2>1, SatsNatural, OwnedNatural
<1>2. OwnedOut(tx, own) <= out
  <2>1. Outputs(tx) \in SUBSET Slots(tx) /\ own \cap Outputs(tx) \in SUBSET Outputs(tx)
    BY DEF Slots
  <2>2. QED BY <2>1, SatsMonotone DEF OwnedOut
<1>3. Inputs(tx) # {} => out <= all
  BY DEF Backed
<1>4. Inputs(tx) \subseteq own => OwnedIn(tx, own) = all
  <2>1. Inputs(tx) \subseteq own => own \cap Inputs(tx) = Inputs(tx)
    OBVIOUS
  <2>2. QED BY <2>1 DEF OwnedIn
<1>5. Outputs(tx) \subseteq own => OwnedOut(tx, own) = out
  <2>1. Outputs(tx) \subseteq own => own \cap Outputs(tx) = Outputs(tx)
    OBVIOUS
  <2>2. QED BY <2>1 DEF OwnedOut
<1>6. Fee(tx) = IF all > out THEN all - out ELSE 0
  BY DEF Fee
<1>7. NetOwned(tx, own) = OwnedOut(tx, own) - OwnedIn(tx, own)
  BY DEF NetOwned
<1>8. LET weFundAll == Inputs(tx) # {} /\ Inputs(tx) \subseteq own
          weGetAll  == Outputs(tx) \subseteq own
          class_    == Classify(tx, own)
      IN  /\ class_ = "internal"     <=> weFundAll /\ weGetAll
          /\ class_ = "external_out" <=> weFundAll /\ ~weGetAll
          /\ class_ = "external_in"  <=> ~weFundAll /\ NetOwned(tx, own) > 0
  BY ClassOf
<1> HIDE DEF tx, all, out
<1>9. /\ Fee(tx) \in Nat
      /\ Inputs(tx) # {} /\ Inputs(tx) \subseteq own => -NetOwned(tx, own) >= Fee(tx)
      /\ Inputs(tx) # {} /\ Inputs(tx) \subseteq own /\ Outputs(tx) \subseteq own
           => NetOwned(tx, own) = -Fee(tx)
      /\ NetOwned(tx, own) \in Int
  BY <1>1, <1>2, <1>3, <1>4, <1>5, <1>6, <1>7
<1>10. /\ Classify(tx, own) = "external_in" => NetOwned(tx, own) > 0
       /\ Classify(tx, own) = "external_out" => -NetOwned(tx, own) >= Fee(tx)
       /\ Classify(tx, own) = "internal" => NetOwned(tx, own) = -Fee(tx)
  BY <1>8, <1>9
<1>11. Classify(tx, own) = "unknown" => NetOwned(tx, own) <= 0
  <2>1. Classify(tx, own) = "unknown" => ~ (NetOwned(tx, own) > 0)
    BY <1>8
  <2>2. QED BY <1>9, <2>1
<1>12. QED BY <1>9, <1>10, <1>11 DEF tx

\* What the wallets own of a stored transaction, by its class.
LEMMA NetByClass ==
  ASSUME IInv, NEW i \in DOMAIN chain
  PROVE  LET net == NetOf(owned)[i]
         IN  /\ net \in Int /\ net = NetOwned(chain[i], flags[i])
             /\ Fee(chain[i]) \in Nat
             /\ class[i] = "external_in" =>
                  net > 0 /\ EventOf(i) = [kind |-> "in", sats |-> net, fee |-> 0]
             /\ class[i] = "external_out" =>
                  /\ net <= 0 /\ EventOf(i).kind = "out"
                  /\ EventOf(i).sats + EventOf(i).fee = -net
             /\ class[i] = "internal" => net = -Fee(chain[i]) /\ net <= 0
             /\ class[i] = "unknown" => net <= 0
<1> DEFINE own == flags[i]
           net == NetOwned(chain[i], own)
           fee == Fee(chain[i])
<1>1. /\ chain \in Seq(Tx) /\ Backed
      /\ own = SlotsOf(chain[i], owned) /\ class[i] = Classify(chain[i], own)
  BY DEF IInv, Synced, Refresh
<1>2. net \in Int /\ NetOf(owned)[i] = net
  BY <1>1, NetInteger
<1>3. /\ fee \in Nat
      /\ class[i] = "external_in" => net > 0
      /\ class[i] = "external_out" => -net >= fee
      /\ class[i] = "internal" => net = -fee
      /\ class[i] = "unknown" => net <= 0
  BY <1>1, FundedNet
<1>4. EventOf(i) = IF class[i] = "external_in" THEN [kind |-> "in", sats |-> net, fee |-> 0]
                   ELSE [kind |-> "out", fee |-> fee, sats |-> IF -net < fee THEN 0 ELSE -net - fee]
  BY DEF EventOf
<1> HIDE DEF net, fee
<1>5. class[i] = "external_out" => /\ EventOf(i).kind = "out"
                                   /\ EventOf(i).sats + EventOf(i).fee = -net
  <2> SUFFICES ASSUME class[i] = "external_out"
               PROVE  EventOf(i).kind = "out" /\ EventOf(i).sats + EventOf(i).fee = -net
    OBVIOUS
  <2>1. EventOf(i) = [kind |-> "out", fee |-> fee, sats |-> IF -net < fee THEN 0 ELSE -net - fee]
    BY <1>4
  <2>2. EventOf(i).kind = "out" /\ EventOf(i).fee = fee /\ EventOf(i).sats = -net - fee
    BY <1>2, <1>3, <2>1
  <2>3. QED BY <1>2, <1>3, <2>2
<1>6. class[i] = "external_in" => EventOf(i) = [kind |-> "in", sats |-> net, fee |-> 0]
  BY <1>4
<1>7. /\ class[i] = "external_out" => net <= 0
      /\ class[i] = "internal" => net <= 0
  BY <1>2, <1>3
<1>8. QED BY <1>2, <1>3, <1>5, <1>6, <1>7 DEF net, fee

\* The balances of any of the wallets add up to the coins at their addresses.
LEMMA SumOfBalances ==
  ASSUME IInv, BalancesAreCoins, NEW A \in SUBSET owned
  PROVE  SumFunctionOnSet([a \in owned |-> Balance(a)], A)
           = SumFunctionOnSet(CoinSats, UnspentBy(Len(chain), A))
<1> DEFINE n == Len(chain)
           B == [a \in owned |-> Balance(a)]
           U(X) == UnspentBy(n, X)
           C == {X \in SUBSET A : SumFunctionOnSet(B, X) = SumFunctionOnSet(CoinSats, U(X))}
<1>1. /\ chain \in Seq(Tx) /\ Backed /\ owned \in SUBSET Address /\ n \in 0 .. n
      /\ IsFiniteSet(A)
  BY FS_Subset DEF IInv, Synced, TypeOK
<1>2. ASSUME NEW X \in SUBSET A
      PROVE  /\ IsFiniteSet(U(X)) /\ IsFiniteSet(X)
             /\ \A c \in U(X) : CoinSats[c] \in Int /\ CoinSats[c] = Coin(c).sats
  <2>1. U(X) \subseteq CreatedBy(n)
    BY DEF UnspentBy
  <2>2. IsFiniteSet(CreatedBy(n))
    BY <1>1, CreatedFinite
  <2>3. QED BY <1>1, <2>1, <2>2, FS_Subset, CoinNatural
<1>3. ASSUME NEW a \in A PROVE B[a] = SumFunctionOnSet(CoinSats, U({a})) /\ B[a] \in Int
  <2> DEFINE f == [c \in U({a}) |-> Coin(c).sats]
  <2>1. U({a}) = {d \in Unspent : Coin(d).address = a}
    BY <1>1, CreatedSoFar DEF Unspent, UnspentBy
  <2>2. B[a] = SumFunction([c \in {d \in Unspent : Coin(d).address = a} |-> Coin(c).sats])
    BY DEF BalancesAreCoins
  <2>3. B[a] = SumFunctionOnSet(f, U({a}))
    BY <2>1, <2>2 DEF SumFunction
  <2>4. {a} \in SUBSET A
    OBVIOUS
  <2>5. /\ IsFiniteSet(U({a}))
        /\ \A c \in U({a}) : CoinSats[c] \in Int /\ CoinSats[c] = Coin(c).sats
    BY <1>2, <2>4
  <2>6. \A c \in U({a}) : f[c] = CoinSats[c] /\ f[c] \in Int
    BY <2>5
  <2> HIDE DEF f, U, B
  <2>7. QED BY <2>3, <2>5, <2>6, SumSame, SumType
<1>4. {} \in C
  <2>1. U({}) = {}
    BY DEF UnspentBy
  <2>2. QED BY <2>1, SumEmpty
<1>5. ASSUME NEW X \in SUBSET A, X \in C, NEW a \in A \ X PROVE X \cup {a} \in C
  <2>1. U(X \cup {a}) = U(X) \cup U({a}) /\ U(X) \cap U({a}) = {}
    BY DEF UnspentBy
  <2>2. {a} \in SUBSET A /\ a \in A
    OBVIOUS
  <2>3. /\ IsFiniteSet(U(X)) /\ IsFiniteSet(X) /\ IsFiniteSet(U({a}))
        /\ \A c \in U(X) \cup U({a}) : CoinSats[c] \in Int
    BY <1>2, <2>2
  <2>4. SumFunctionOnSet(CoinSats, U(X) \cup U({a}))
          = SumFunctionOnSet(CoinSats, U(X)) + SumFunctionOnSet(CoinSats, U({a}))
    <3> HIDE DEF U
    <3> QED BY <2>1, <2>3, SumDisjoint
  <2>5. SumFunctionOnSet(B, X \cup {a}) = SumFunctionOnSet(B, X) + B[a]
    <3>1. (\A x \in X : B[x] \in Int) /\ B[a] \in Int
      BY <1>3
    <3> HIDE DEF B, U
    <3> QED BY <2>3, <3>1, SumAdd
  <2>6. SumFunctionOnSet(B, X) = SumFunctionOnSet(CoinSats, U(X))
    BY <1>5
  <2>7. SumFunctionOnSet(B, X \cup {a}) = SumFunctionOnSet(CoinSats, U(X \cup {a}))
    <3> HIDE DEF B, U
    <3> QED BY <1>3, <2>1, <2>2, <2>4, <2>5, <2>6
  <2>8. QED BY <2>7
<1>6. A \in C
  <2> HIDE DEF C
  <2> QED BY <1>1, <1>4, <1>5, SetInduction
<1>7. QED BY <1>6

(* However much is still to be priced or was never priced, the README's    *)
(* "dashboard total equals the sum of wallet balances" is off by exactly   *)
(* the fees of internal transactions and what went out in unknown ones,    *)
(* once every external transaction is booked (TotalIsAccounted).           *)
THEOREM AccountsForTheTotal == Spec => []TotalIsAccounted
<1>1. IInv /\ BalancesAreCoins => TotalIsAccounted
  <2> SUFFICES ASSUME IInv, BalancesAreCoins,
                      {i \in DOMAIN class : class[i] \in External} \subseteq Loaded
               PROVE  TotalOpen = SumFunction([a \in owned |-> Balance(a)])
                        + SumFunction([i \in {j \in DOMAIN class : class[j] = "internal"} |-> Fee(chain[i])])
                        - SumFunction([i \in {j \in DOMAIN class : class[j] = "unknown"} |->
                                         NetOwned(chain[i], flags[i])])
    BY DEF TotalIsAccounted
  <2> DEFINE n == Len(chain)
             D == 1 .. n
             E == {i \in D : class[i] \in External}
             I == {i \in D : class[i] = "internal"}
             K == {i \in D : class[i] = "unknown"}
             net == NetOf(owned)
             fee == [i \in I |-> Fee(chain[i])]
             loss == [i \in K |-> NetOwned(chain[i], flags[i])]
             event == [i \in E |-> IF EventOf(i).kind = "in" THEN EventOf(i).sats
                                   ELSE -(EventOf(i).sats + EventOf(i).fee)]
             zero == [i \in I |-> 0]
  <2>1. /\ chain \in Seq(Tx) /\ Backed /\ owned \in SUBSET Address
        /\ n \in Nat /\ DOMAIN chain = D /\ DOMAIN class = D
        /\ \A i \in D : class[i] \in {"internal", "external_in", "external_out", "unknown"}
    BY DEF IInv, Synced, TypeOK, Classes
  <2>2. Loaded = E
    BY <2>1 DEF Loaded
  <2>3. IsFiniteSet(D) /\ IsFiniteSet(E) /\ IsFiniteSet(I) /\ IsFiniteSet(K)
    <3>1. 1 \in Int /\ n \in Int
      BY <2>1
    <3>2. IsFiniteSet(D)
      BY <3>1, FS_Interval, Zenon
    <3>3. QED BY <3>2, FS_Subset
  <2>4. D = (E \cup I) \cup K /\ E \cap I = {} /\ (E \cup I) \cap K = {}
    BY <2>1 DEF External
  <2>5. \A i \in D : net[i] \in Int
    BY <2>1, NetByClass
  <2>6. SumFunctionOnSet(net, D)
          = SumFunctionOnSet(net, E) + SumFunctionOnSet(net, I) + SumFunctionOnSet(net, K)
    <3>1. IsFiniteSet(E \cup I)
      BY <2>3, FS_Union
    <3> HIDE DEF D, E, I, K, net
    <3>2. (\A i \in E \cup I : net[i] \in Int) /\ (\A i \in (E \cup I) \cup K : net[i] \in Int)
      BY <2>4, <2>5
    <3>3. SumFunctionOnSet(net, E \cup I) = SumFunctionOnSet(net, E) + SumFunctionOnSet(net, I)
      BY <2>3, <2>4, <3>2, SumDisjoint
    <3>4. SumFunctionOnSet(net, (E \cup I) \cup K)
            = SumFunctionOnSet(net, E \cup I) + SumFunctionOnSet(net, K)
      BY <2>3, <2>4, <3>1, <3>2, SumDisjoint
    <3>5. QED BY <2>4, <3>3, <3>4
  <2>7. TotalOpen = SumFunctionOnSet(net, E)
    <3>1. \A i \in E : event[i] = net[i] /\ event[i] \in Int
      <4> SUFFICES ASSUME NEW i \in E PROVE event[i] = net[i] /\ net[i] \in Int
        OBVIOUS
      <4>1. net[i] \in Int /\ i \in DOMAIN chain
        BY <2>1, <2>5
      <4>2. CASE class[i] = "external_in"
        <5>1. EventOf(i) = [kind |-> "in", sats |-> net[i], fee |-> 0]
          BY <4>1, <4>2, NetByClass
        <5>2. QED BY <4>1, <5>1
      <4>3. CASE class[i] = "external_out"
        <5>1. EventOf(i).kind = "out" /\ EventOf(i).sats + EventOf(i).fee = -net[i]
          BY <4>1, <4>3, NetByClass
        <5>2. event[i] = -(EventOf(i).sats + EventOf(i).fee)
          BY <5>1
        <5> HIDE DEF event, net
        <5>3. QED BY <4>1, <5>1, <5>2
      <4>4. QED BY <4>2, <4>3 DEF External
    <3>2. TotalOpen = SumFunctionOnSet(event, E)
      BY <2>2 DEF TotalOpen, SumFunction
    <3> HIDE DEF event, net, E
    <3>3. QED BY <2>3, <3>1, <3>2, SumSame
  <2>8. SumFunctionOnSet(net, I) = -SumFunctionOnSet(fee, I)
    <3>1. \A i \in I : net[i] \in Int /\ fee[i] \in Int /\ zero[i] = net[i] + fee[i] /\ zero[i] = 0
      <4> SUFFICES ASSUME NEW i \in I
                   PROVE  net[i] \in Int /\ fee[i] \in Int /\ zero[i] = net[i] + fee[i] /\ zero[i] = 0
        OBVIOUS
      <4>1. net[i] \in Int /\ Fee(chain[i]) \in Nat /\ net[i] = -Fee(chain[i])
        BY <2>1, NetByClass
      <4>2. fee[i] = Fee(chain[i]) /\ zero[i] = 0
        OBVIOUS
      <4> HIDE DEF net, fee, zero
      <4>3. QED BY <4>1, <4>2
    <3> HIDE DEF net, fee, zero, I
    <3>2. SumFunctionOnSet(zero, I) = SumFunctionOnSet(net, I) + SumFunctionOnSet(fee, I)
      BY <2>3, <3>1, SumPlus
    <3>3. SumFunctionOnSet(zero, I) = 0
      BY <2>3, <3>1, SumZero
    <3>4. SumFunctionOnSet(net, I) \in Int /\ SumFunctionOnSet(fee, I) \in Int
      BY <2>3, <3>1, SumType
    <3>5. QED BY <3>2, <3>3, <3>4
  <2>9. SumFunctionOnSet(net, K) = SumFunctionOnSet(loss, K)
    <3>1. \A i \in K : net[i] \in Int /\ net[i] = loss[i]
      BY <2>1, NetByClass
    <3> HIDE DEF net, loss, K
    <3>2. QED BY <2>3, <3>1, SumSame
  <2>10. SumFunctionOnSet(net, D) = SumFunction([a \in owned |-> Balance(a)])
    <3>1. SumFunctionOnSet([a \in owned |-> Balance(a)], owned)
            = SumFunctionOnSet(CoinSats, UnspentBy(n, owned))
      BY SumOfBalances
    <3>2. SumFunctionOnSet(net, D) = SumFunctionOnSet(CoinSats, UnspentBy(n, owned))
      <4>1. n \in 0 .. Len(chain)
        BY <2>1
      <4>2. QED BY <2>1, <4>1, PrefixBalance
    <3>3. QED BY <3>1, <3>2 DEF SumFunction
  <2>11. /\ SumFunction([i \in {j \in DOMAIN class : class[j] = "internal"} |-> Fee(chain[i])])
              = SumFunctionOnSet(fee, I)
         /\ SumFunction([i \in {j \in DOMAIN class : class[j] = "unknown"} |->
                           NetOwned(chain[i], flags[i])]) = SumFunctionOnSet(loss, K)
    BY <2>1 DEF SumFunction
  <2>12. /\ SumFunctionOnSet(net, E) \in Int /\ SumFunctionOnSet(net, I) \in Int
         /\ SumFunctionOnSet(net, K) \in Int /\ SumFunctionOnSet(fee, I) \in Int
    <3>1. (\A i \in E : net[i] \in Int) /\ (\A i \in I : net[i] \in Int) /\ (\A i \in K : net[i] \in Int)
      BY <2>5
    <3>2. \A i \in I : fee[i] \in Int
      BY <2>1, NetByClass
    <3> HIDE DEF net, fee, E, I, K
    <3>3. QED BY <2>3, <3>1, <3>2, SumType
  <2> HIDE DEF net, fee, loss, D, E, I, K
  <2>13. TotalOpen = SumFunctionOnSet(net, D) + SumFunctionOnSet(fee, I) - SumFunctionOnSet(loss, K)
    BY <2>6, <2>7, <2>8, <2>9, <2>12
  <2>14. QED BY <2>10, <2>11, <2>13
<1>2. QED BY <1>1, Invariance, BalancesShowCoins, PTL

-----------------------------------------------------------------------------
(* The sales without lots.                                                 *)

\* The last of some transactions.
LEMMA LastOf ==
  ASSUME NEW n \in Nat, NEW J \in SUBSET (1 .. n), J # {}
  PROVE  \E m \in J : \A j \in J : j <= m
<1> DEFINE D == {k \in Nat : \A j \in J : j <= k}
<1>1. n \in D
  OBVIOUS
<1>2. PICK m \in D : \A k \in D : m <= k
  <2>1. D \in SUBSET Nat /\ D # {}
    BY <1>1
  <2> HIDE DEF D
  <2>2. QED BY <2>1, LeastNumber
<1>3. m \in J
  <2> SUFFICES ASSUME m \notin J PROVE FALSE
    OBVIOUS
  <2>1. m \in Nat /\ \A j \in J : j \in Nat /\ j >= 1 /\ j <= m /\ j # m
    BY <1>2
  <2>2. m - 1 \in D
    <3>1. PICK j \in J : TRUE
      OBVIOUS
    <3>2. m \in Nat /\ m >= 1
      BY <2>1, <3>1
    <3>3. \A k \in J : k <= m - 1
      BY <2>1
    <3>4. QED BY <3>2, <3>3
  <2>3. m <= m - 1
    BY <1>2, <2>2
  <2>4. QED BY <2>1, <2>3
<1>4. QED BY <1>2, <1>3

\* Of the sales up to a block time take the last on the blockchain: what it and
\* those before it spent had come in by then, as the coins left are no less than
\* nothing, and all of that is booked no later than the sale unless the property
\* says why not.
THEOREM SalesHaveLots == Spec => []ShortOnlyOverGaps
<1>1. IInv => ShortOnlyOverGaps
  <2> SUFFICES ASSUME IInv, NEW t \in Times, Disposed(t) > Received(t),
                      ~ \E i, j \in DOMAIN chain :
                          /\ i < j
                          /\ class[i] = "external_in" /\ j \in Loaded /\ class[j] = "external_out"
                          /\ i \in Loaded => chain[i].time > chain[j].time
               PROVE  FALSE
    BY DEF ShortOnlyOverGaps, Short
  <2> DEFINE n == Len(chain)
             net == NetOf(owned)
             J == UpTo("out", t)
             R == UpTo("in", t)
             fIn == [i \in R |-> EventOf(i).sats]
             fOut == [i \in J |-> EventOf(i).sats + EventOf(i).fee]
             zero == [i \in J |-> 0]
  <2>1. /\ chain \in Seq(Tx) /\ Backed /\ owned \in SUBSET Address
        /\ n \in Nat /\ DOMAIN chain = 1 .. n /\ DOMAIN class = 1 .. n
        /\ \A i \in 1 .. n : class[i] \in {"internal", "external_in", "external_out", "unknown"}
        /\ \A i \in 1 .. n : chain[i].time \in Times \cup {None}
    BY DEF IInv, Synced, TypeOK, Classes
  <2>2. IsFiniteSet(1 .. n)
    <3>1. 1 \in Int /\ n \in Int
      BY <2>1
    <3>2. QED BY <3>1, FS_Interval, Zenon
  <2>3. \A i \in 1 .. n :
          /\ net[i] \in Int
          /\ class[i] = "external_in" =>
               net[i] > 0 /\ EventOf(i) = [kind |-> "in", sats |-> net[i], fee |-> 0]
          /\ class[i] = "external_out" =>
               /\ net[i] <= 0 /\ EventOf(i).kind = "out"
               /\ EventOf(i).sats + EventOf(i).fee = -net[i]
          /\ class[i] \notin External => net[i] <= 0
    <3> SUFFICES ASSUME NEW i \in 1 .. n
                 PROVE  /\ net[i] \in Int
                        /\ class[i] = "external_in" =>
                             net[i] > 0 /\ EventOf(i) = [kind |-> "in", sats |-> net[i], fee |-> 0]
                        /\ class[i] = "external_out" =>
                             /\ net[i] <= 0 /\ EventOf(i).kind = "out"
                             /\ EventOf(i).sats + EventOf(i).fee = -net[i]
                        /\ class[i] \notin External => net[i] <= 0
      OBVIOUS
    <3>1. i \in DOMAIN chain
      BY <2>1
    <3>2. QED BY <2>1, <3>1, NetByClass DEF External
  <2>4. \A i \in 1 .. n : i \in Loaded => class[i] \in External /\ chain[i].time \in Nat
    BY <2>1 DEF Loaded, Times
  <2>5. \A i \in 1 .. n : i \in J <=> i \in Loaded /\ class[i] = "external_out" /\ chain[i].time <= t
    <3>1. Loaded \subseteq 1 .. n
      BY <2>1 DEF Loaded
    <3>2. QED BY <2>3, <2>4, <3>1 DEF UpTo, External
  <2>6. \A i \in 1 .. n : i \in R <=> i \in Loaded /\ class[i] = "external_in" /\ chain[i].time <= t
    BY <2>3, <2>4 DEF UpTo, External
  <2>7. J \in SUBSET (1 .. n) /\ R \in SUBSET (1 .. n)
    BY <2>1 DEF UpTo, Loaded
  <2>8. IsFiniteSet(J) /\ IsFiniteSet(R)
    BY <2>2, <2>7, FS_Subset
  <2>9. Received(t) = SumFunctionOnSet(net, R)
    <3>1. \A i \in R : fIn[i] = net[i] /\ net[i] \in Int
      BY <2>3, <2>6, <2>7
    <3>2. Received(t) = SumFunctionOnSet(fIn, R)
      BY DEF Received, SumFunction
    <3> HIDE DEF net, fIn, R
    <3>3. QED BY <2>8, <3>1, <3>2, SumSame
  <2>10. Disposed(t) = -SumFunctionOnSet(net, J)
    <3>1. \A i \in J : /\ fOut[i] = -net[i] /\ net[i] \in Int /\ fOut[i] \in Int
                       /\ zero[i] = net[i] + fOut[i] /\ zero[i] = 0
      <4>1. \A i \in J : fOut[i] = EventOf(i).sats + EventOf(i).fee /\ zero[i] = 0
        OBVIOUS
      <4>2. \A i \in J : EventOf(i).sats + EventOf(i).fee = -net[i] /\ net[i] \in Int
        BY <2>3, <2>5, <2>7
      <4> HIDE DEF fOut, zero, net, J
      <4>3. QED BY <4>1, <4>2
    <3>2. Disposed(t) = SumFunctionOnSet(fOut, J)
      BY DEF Disposed, SumFunction
    <3> HIDE DEF net, fOut, zero, J
    <3>3. SumFunctionOnSet(zero, J) = SumFunctionOnSet(net, J) + SumFunctionOnSet(fOut, J)
      BY <2>8, <3>1, SumPlus
    <3>4. SumFunctionOnSet(zero, J) = 0
      BY <2>8, <3>1, SumZero
    <3>5. SumFunctionOnSet(net, J) \in Int /\ SumFunctionOnSet(fOut, J) \in Int
      BY <2>8, <3>1, SumType
    <3>6. QED BY <3>2, <3>3, <3>4, <3>5
  <2>11. SumFunctionOnSet(net, R) \in Nat
    <3>1. \A i \in R : net[i] \in Nat
      BY <2>3, <2>6, <2>7
    <3> HIDE DEF net, R
    <3>2. QED BY <2>8, <3>1, SumNatural
  <2>12. CASE J = {}
    <3>1. SumFunctionOnSet(net, J) = 0
      BY <2>12, SumEmpty
    <3> HIDE DEF net, J, R
    <3>2. QED BY <2>9, <2>10, <2>11, <3>1
  <2>13. CASE J # {}
    <3>1. PICK m \in J : \A j \in J : j <= m
      <4> HIDE DEF J
      <4>1. QED BY <2>1, <2>7, <2>13, LastOf
    <3> DEFINE D == 1 .. m
               I == {i \in D : class[i] = "external_in"}
    <3>2. m \in 1 .. n /\ m \in Loaded /\ class[m] = "external_out" /\ chain[m].time <= t
      BY <2>5, <2>7
    <3>3. I \subseteq R
      <4> SUFFICES ASSUME NEW i \in I PROVE i \in R
        OBVIOUS
      <4>1. i \in 1 .. n /\ class[i] = "external_in" /\ i <= m
        BY <3>2
      <4>2. i < m
        BY <3>2, <4>1
      <4>3. i \in Loaded /\ ~ (chain[i].time > chain[m].time)
        BY <2>1, <3>2, <4>1, <4>2
      <4>4. chain[i].time <= t
        <5>1. chain[i].time \in Nat /\ chain[m].time \in Nat /\ t \in Nat
          BY <2>4, <3>2, <4>1, <4>3 DEF Times
        <5>2. QED BY <3>2, <4>3, <5>1
      <4>5. QED BY <2>6, <4>1, <4>3, <4>4
    <3>4. J \subseteq D /\ I \cap J = {} /\ D \subseteq 1 .. n
      BY <2>1, <2>5, <2>7, <3>1, <3>2
    <3>5. IsFiniteSet(D) /\ IsFiniteSet(I) /\ IsFiniteSet(I \cup J)
      <4>1. IsFiniteSet(D)
        BY <2>2, <3>4, FS_Subset
      <4>2. IsFiniteSet(I)
        BY <4>1, FS_Subset
      <4>3. QED BY <2>8, <4>1, <4>2, FS_Union
    <3>6. SumFunctionOnSet(net, D) >= 0
      <4>1. m \in 0 .. Len(chain)
        BY <2>1, <3>2
      <4>2. SumFunctionOnSet(net, D) = SumFunctionOnSet(CoinSats, UnspentBy(m, owned))
        BY <2>1, <4>1, PrefixBalance
      <4>3. UnspentBy(m, owned) \subseteq CreatedBy(Len(chain))
        BY <2>1, <3>2 DEF UnspentBy, CreatedBy
      <4>4. IsFiniteSet(UnspentBy(m, owned))
        BY <2>1, <4>3, CreatedFinite, FS_Subset
      <4>5. \A c \in UnspentBy(m, owned) : CoinSats[c] \in Nat
        BY <2>1, <4>3, CoinNatural
      <4>6. SumFunctionOnSet(CoinSats, UnspentBy(m, owned)) \in Nat
        BY <4>4, <4>5, SumNatural
      <4> HIDE DEF D, net
      <4>7. QED BY <4>2, <4>6
    <3>7. \A i \in D : net[i] \in Int
      BY <2>3, <3>4
    <3>8. \A i \in D \ (I \cup J) : net[i] <= 0
      <4> SUFFICES ASSUME NEW i \in D, i \notin I, i \notin J PROVE net[i] <= 0
        OBVIOUS
      <4>1. i \in 1 .. n /\ class[i] # "external_in"
        BY <3>4
      <4>2. QED BY <2>3, <4>1 DEF External
    <3>9. \A i \in R : net[i] \in Int /\ net[i] >= 0
      BY <2>3, <2>6, <2>7
    <3>10. I \cup J \in SUBSET D /\ I \in SUBSET R /\ \A i \in I \cup J : net[i] \in Int
      BY <3>3, <3>4, <3>7
    <3> HIDE DEF D, I, J, R, net
    <3>11. SumFunctionOnSet(net, D) <= SumFunctionOnSet(net, I \cup J)
      BY <3>5, <3>7, <3>8, <3>10, SumSplit
    <3>12. SumFunctionOnSet(net, I \cup J) = SumFunctionOnSet(net, I) + SumFunctionOnSet(net, J)
      BY <2>8, <3>4, <3>5, <3>10, SumDisjoint
    <3>13. SumFunctionOnSet(net, R) >= SumFunctionOnSet(net, I)
      BY <2>8, <3>9, <3>10, SumSplit
    <3>14. /\ SumFunctionOnSet(net, D) \in Int /\ SumFunctionOnSet(net, I) \in Int
           /\ SumFunctionOnSet(net, J) \in Int
      <4>1. (\A i \in I : net[i] \in Int) /\ (\A i \in J : net[i] \in Int)
        BY <3>10
      <4>2. QED BY <2>8, <3>5, <3>7, <4>1, SumType
    <3>15. QED BY <2>9, <2>10, <2>11, <3>6, <3>11, <3>12, <3>13, <3>14
  <2>14. QED BY <2>12, <2>13
<1>2. QED BY <1>1, Invariance, PTL
=============================================================================
