-------------------------- MODULE FifoLedgerProofs --------------------------
(***************************************************************************)
(* The ledger for every history of events: its types, what it sells, when  *)
(* it raises, and that its figures are FIFO.  The figures are sums, so the *)
(* proof begins, as that of Portfolio does, with sums over finite sets.    *)
(***************************************************************************)
EXTENDS FifoLedger, FiniteSetTheorems, SequenceTheorems, WellFoundedInduction, TLAPS

-----------------------------------------------------------------------------
(* Sums.                                                                   *)

Pick(s) == CHOOSE x \in s : TRUE

\* g satisfies the equation of the fold that sums f over the subsets of T.
SumsUp(g, f, T) ==
  g = [s \in SUBSET T |-> IF s = {} THEN 0 ELSE f[Pick(s)] + g[s \ {Pick(s)}]]

LEMMA SumFold ==
  ASSUME NEW f, NEW S
  PROVE  SumFunctionOnSet(f, S) = (CHOOSE g : SumsUp(g, f, S))[S]
BY DEF SumFunctionOnSet, FoldFunctionOnSet, MapThenFoldSet, SumsUp, Pick

\* Of some finite sets one has no other as a proper subset.
LEMMA SmallestSet ==
  ASSUME NEW C, C # {}, \A T \in C : IsFiniteSet(T)
  PROVE  \E T \in C : \A U \in C : U \subseteq T => U = T
<1> DEFINE S == UNION C
<1>1. C \subseteq FiniteSubsetsOf(S)
  BY DEF FiniteSubsetsOf
<1>2. IsWellFoundedOn(StrictSubsetOrdering(S), FiniteSubsetsOf(S))
  BY FS_StrictSubsetOrderingWellFounded
<1>3. PICK T \in C : \A U \in C : ~ (<<U, T>> \in StrictSubsetOrdering(S))
  <2> HIDE DEF S
  <2> QED BY <1>1, <1>2, WFMin
<1>4. ASSUME NEW U \in C, U \subseteq T PROVE U = T
  BY <1>3, <1>4 DEF StrictSubsetOrdering
<1> QED
  BY <1>4

\* Two solutions agree wherever both are defined.
LEMMA SumsUpAgree ==
  ASSUME NEW f, NEW T, NEW U, NEW g, NEW h, SumsUp(g, f, T), SumsUp(h, f, U),
         NEW W, IsFiniteSet(W), W \subseteq T, W \subseteq U
  PROVE  g[W] = h[W]
<1> DEFINE C == {s \in SUBSET W : g[s] # h[s]}
<1>1. SUFFICES ASSUME C # {} PROVE FALSE
  OBVIOUS
<1>2. \A s \in C : IsFiniteSet(s)
  BY FS_Subset
<1>3. PICK s \in C : \A u \in C : u \subseteq s => u = s
  <2> HIDE DEF C
  <2> QED BY <1>1, <1>2, SmallestSet
<1>4. /\ g[s] = IF s = {} THEN 0 ELSE f[Pick(s)] + g[s \ {Pick(s)}]
      /\ h[s] = IF s = {} THEN 0 ELSE f[Pick(s)] + h[s \ {Pick(s)}]
  <2>1. s \in SUBSET T /\ s \in SUBSET U
    OBVIOUS
  <2> QED BY <2>1, Zenon DEF SumsUp
<1>5. s # {}
  BY <1>3, <1>4
<1>6. Pick(s) \in s
  BY <1>5 DEF Pick
<1>7. s \ {Pick(s)} \notin C
  BY <1>3, <1>6
<1>8. g[s \ {Pick(s)}] = h[s \ {Pick(s)}]
  BY <1>7
<1> QED
  BY <1>3, <1>4, <1>5, <1>8

\* The equation of the fold has a solution.
LEMMA SumsUpExists ==
  ASSUME NEW f, NEW S, IsFiniteSet(S)
  PROVE  \E g : SumsUp(g, f, S)
<1> DEFINE C == {T \in SUBSET S : ~\E g : SumsUp(g, f, T)}
<1>1. SUFFICES ASSUME C # {} PROVE FALSE
  OBVIOUS
<1>2. PICK T \in C : \A U \in C : U \subseteq T => U = T
  <2>1. \A U \in C : IsFiniteSet(U)
    BY FS_Subset
  <2> HIDE DEF C
  <2> QED BY <1>1, <2>1, SmallestSet
<1>3. IsFiniteSet(T)
  BY FS_Subset
<1> DEFINE G(u) == CHOOSE g : SumsUp(g, f, u)
           h == [s \in SUBSET T |-> IF s = {} THEN 0
                                    ELSE f[Pick(s)] + G(s \ {Pick(s)})[s \ {Pick(s)}]]
<1>4. ASSUME NEW s \in SUBSET T, s # {}
      PROVE  /\ s \ {Pick(s)} \in SUBSET T
             /\ SumsUp(G(s \ {Pick(s)}), f, s \ {Pick(s)})
  <2>1. Pick(s) \in s
    BY <1>4 DEF Pick
  <2>2. s \ {Pick(s)} \notin C
    BY <1>2, <2>1
  <2>3. \E g : SumsUp(g, f, s \ {Pick(s)})
    BY <2>2
  <2> QED BY <2>3
<1>5. ASSUME NEW s \in SUBSET T, s # {}
      PROVE  h[s \ {Pick(s)}] = G(s \ {Pick(s)})[s \ {Pick(s)}]
  <2> DEFINE u == s \ {Pick(s)}
             v == u \ {Pick(u)}
  <2>1. u \in SUBSET T /\ SumsUp(G(u), f, u)
    BY <1>4, <1>5
  <2>2. h[u] = IF u = {} THEN 0 ELSE f[Pick(u)] + G(v)[v]
    BY <2>1
  <2>3. G(u)[u] = IF u = {} THEN 0 ELSE f[Pick(u)] + G(u)[v]
    <3> HIDE DEF u, G
    <3>1. u \in SUBSET u
      OBVIOUS
    <3> QED BY <2>1, <3>1, Zenon DEF SumsUp
  <2>4. CASE u = {}
    BY <2>2, <2>3, <2>4
  <2>5. CASE u # {}
    <3>1. SumsUp(G(v), f, v) /\ v \in SUBSET T
      <4> HIDE DEF u, G
      <4>1. SumsUp(G(u \ {Pick(u)}), f, u \ {Pick(u)}) /\ u \ {Pick(u)} \in SUBSET T
        BY <1>4, <2>1, <2>5
      <4> QED BY <4>1
    <3>2. IsFiniteSet(v)
      BY <1>3, <3>1, FS_Subset
    <3>3. v \subseteq u /\ v \subseteq v
      OBVIOUS
    <3>4. G(u)[v] = G(v)[v]
      <4> HIDE DEF u, v, G
      <4> QED BY <2>1, <3>1, <3>2, <3>3, SumsUpAgree
    <3> QED BY <2>2, <2>3, <2>5, <3>4
  <2> QED BY <2>4, <2>5
<1>6. SumsUp(h, f, T)
  <2>1. \A s \in SUBSET T : h[s] = IF s = {} THEN 0 ELSE f[Pick(s)] + h[s \ {Pick(s)}]
    <3> SUFFICES ASSUME NEW s \in SUBSET T
                 PROVE  h[s] = IF s = {} THEN 0 ELSE f[Pick(s)] + h[s \ {Pick(s)}]
      OBVIOUS
    <3>1. h[s] = IF s = {} THEN 0
                 ELSE f[Pick(s)] + G(s \ {Pick(s)})[s \ {Pick(s)}]
      OBVIOUS
    <3>2. s # {} => h[s \ {Pick(s)}] = G(s \ {Pick(s)})[s \ {Pick(s)}]
      BY <1>5
    <3> HIDE DEF h, G
    <3> QED BY <3>1, <3>2
  <2>2. h = [s \in SUBSET T |-> h[s]]
    OBVIOUS
  <2> HIDE DEF h
  <2> QED BY <2>1, <2>2 DEF SumsUp
<1> QED
  <2> HIDE DEF h
  <2> QED BY <1>2, <1>6

LEMMA SumEmpty ==
  ASSUME NEW f
  PROVE  SumFunctionOnSet(f, {}) = 0
<1> DEFINE g == CHOOSE g : SumsUp(g, f, {})
<1>1. SumsUp(g, f, {})
  BY SumsUpExists, FS_EmptySet
<1>2. g[{}] = 0
  <2> HIDE DEF g
  <2>1. {} \in SUBSET {}
    OBVIOUS
  <2> QED BY <1>1, <2>1, Zenon DEF SumsUp
<1> QED
  BY <1>2, SumFold

LEMMA SumPick ==
  ASSUME NEW f, NEW S, IsFiniteSet(S), S # {}
  PROVE  /\ Pick(S) \in S
         /\ SumFunctionOnSet(f, S) = f[Pick(S)] + SumFunctionOnSet(f, S \ {Pick(S)})
<1> DEFINE u == S \ {Pick(S)}
           G(s) == CHOOSE g : SumsUp(g, f, s)
<1>1. IsFiniteSet(u)
  BY FS_Subset
<1>2. SumsUp(G(S), f, S) /\ SumsUp(G(u), f, u)
  BY <1>1, SumsUpExists
<1>3. G(S)[S] = f[Pick(S)] + G(S)[u]
  <2> HIDE DEF G
  <2>1. S \in SUBSET S
    OBVIOUS
  <2> QED BY <1>2, <2>1, Zenon DEF SumsUp
<1>4. G(S)[u] = G(u)[u]
  <2>1. u \subseteq S /\ u \subseteq u
    OBVIOUS
  <2> HIDE DEF u, G
  <2> QED BY <1>1, <1>2, <2>1, SumsUpAgree
<1>5. SumFunctionOnSet(f, S) = G(S)[S] /\ SumFunctionOnSet(f, u) = G(u)[u]
  BY SumFold
<1>6. Pick(S) \in S
  BY DEF Pick
<1> QED
  BY <1>3, <1>4, <1>5, <1>6

LEMMA SumType ==
  ASSUME NEW S, IsFiniteSet(S), NEW f, \A x \in S : f[x] \in Int
  PROVE  SumFunctionOnSet(f, S) \in Int
<1> DEFINE C == {T \in SUBSET S : SumFunctionOnSet(f, T) \notin Int}
<1>1. SUFFICES ASSUME C # {} PROVE FALSE
  OBVIOUS
<1>2. PICK T \in C : \A U \in C : U \subseteq T => U = T
  <2>1. \A U \in C : IsFiniteSet(U)
    BY FS_Subset
  <2> HIDE DEF C
  <2> QED BY <1>1, <2>1, SmallestSet
<1>3. T # {} /\ IsFiniteSet(T) /\ T \subseteq S
  <2>1. SumFunctionOnSet(f, {}) \in Int
    BY SumEmpty
  <2> QED BY <2>1, FS_Subset
<1>4. /\ Pick(T) \in T
      /\ SumFunctionOnSet(f, T) = f[Pick(T)] + SumFunctionOnSet(f, T \ {Pick(T)})
  BY <1>3, SumPick
<1>5. SumFunctionOnSet(f, T \ {Pick(T)}) \in Int
  BY <1>2, <1>3, <1>4
<1> QED
  BY <1>3, <1>4, <1>5

\* The order of summation does not matter.
LEMMA SumAdd ==
  ASSUME NEW S, IsFiniteSet(S), NEW f, \A x \in S : f[x] \in Int,
         NEW y, y \notin S, f[y] \in Int
  PROVE  SumFunctionOnSet(f, S \cup {y}) = SumFunctionOnSet(f, S) + f[y]
<1> DEFINE Sum(T) == SumFunctionOnSet(f, T)
           C == {T \in SUBSET S : \E z \in S \cup {y} : z \notin T /\ Sum(T \cup {z}) # Sum(T) + f[z]}
<1>1. SUFFICES ASSUME C # {} PROVE FALSE
  OBVIOUS
<1>2. PICK T \in C : \A U \in C : U \subseteq T => U = T
  <2>1. \A U \in C : IsFiniteSet(U)
    BY FS_Subset
  <2> HIDE DEF C
  <2> QED BY <1>1, <2>1, SmallestSet
<1>3. PICK z \in S \cup {y} : z \notin T /\ Sum(T \cup {z}) # Sum(T) + f[z]
  BY <1>2
<1>4. T \subseteq S /\ IsFiniteSet(T) /\ IsFiniteSet(T \cup {z})
  BY FS_Subset, FS_AddElement
<1> DEFINE x == Pick(T \cup {z})
           R == T \ {x}
<1>5. x \in T \cup {z} /\ Sum(T \cup {z}) = f[x] + Sum((T \cup {z}) \ {x})
  BY <1>4, SumPick
<1>6. Sum(T) \in Int /\ Sum(R) \in Int /\ f[z] \in Int /\ f[x] \in Int
  <2>1. IsFiniteSet(R) /\ \A w \in T : f[w] \in Int
    BY <1>4, FS_Subset
  <2> QED BY <1>4, <1>5, <2>1, SumType
<1>7. CASE x = z
  <2>1. (T \cup {z}) \ {x} = T
    BY <1>3, <1>7
  <2>2. Sum(T \cup {z}) = f[z] + Sum(T)
    BY <1>5, <1>7, <2>1
  <2> HIDE DEF Sum
  <2> QED BY <1>3, <1>6, <2>2
<1>8. CASE x # z
  <2>1. x \in T /\ R # T /\ R \subseteq T /\ R \subseteq S
    BY <1>4, <1>5, <1>8
  <2>2. R \notin C
    BY <1>2, <2>1
  <2>3. (T \cup {z}) \ {x} = R \cup {z} /\ R \cup {x} = T /\ z \notin R /\ x \notin R /\ x \in S
    BY <1>3, <1>4, <1>8, <2>1
  <2>4. Sum(R \cup {z}) = Sum(R) + f[z] /\ Sum(R \cup {x}) = Sum(R) + f[x]
    BY <2>1, <2>2, <2>3
  <2>5. Sum(T \cup {z}) = f[x] + Sum(R \cup {z}) /\ Sum(T) = Sum(R) + f[x]
    BY <1>5, <2>3, <2>4
  <2> HIDE DEF x, R, Sum
  <2> QED BY <1>3, <1>6, <2>4, <2>5
<1> QED
  BY <1>7, <1>8

\* Induction over a finite set, and over the numbers up to n, for a set of those
\* of which something holds.
LEMMA SetInduction ==
  ASSUME NEW S, IsFiniteSet(S), NEW C, {} \in C,
         \A U \in SUBSET S : U \in C => \A x \in S \ U : U \cup {x} \in C
  PROVE  S \in C
<1> DEFINE D == {T \in SUBSET S : T \notin C}
<1>1. SUFFICES ASSUME D # {} PROVE FALSE
  OBVIOUS
<1>2. PICK T \in D : \A U \in D : U \subseteq T => U = T
  <2>1. \A U \in D : IsFiniteSet(U)
    BY FS_Subset
  <2> HIDE DEF D
  <2> QED BY <1>1, <2>1, SmallestSet
<1>3. PICK x \in T : TRUE
  BY <1>2
<1>4. T \ {x} \in C
  BY <1>2, <1>3
<1>5. (T \ {x}) \cup {x} = T
  BY <1>3
<1> QED
  BY <1>2, <1>4, <1>5

LEMMA LeastNumber ==
  ASSUME NEW D \in SUBSET Nat, D # {}
  PROVE  \E m \in D : \A k \in D : m <= k
<1>1. PICK m \in D : \A k \in D : ~ (<<k, m>> \in OpToRel(<, Nat))
  BY NatLessThanWellFounded, WFMin
<1>2. ASSUME NEW k \in D, k < m PROVE FALSE
  <2>1. <<k, m>> \in {ss \in Nat \X Nat : ss[1] < ss[2]}
    BY <1>2
  <2>2. <<k, m>> \in OpToRel(<, Nat)
    BY <2>1 DEF OpToRel
  <2> QED BY <1>1, <2>2
<1>3. \A k \in D : k \in Nat /\ m \in Nat
  OBVIOUS
<1> QED
  BY <1>2, <1>3

LEMMA NumberInduction ==
  ASSUME NEW n \in Nat, NEW C, 0 \in C, \A m \in 0 .. n - 1 : m \in C => m + 1 \in C
  PROVE  \A m \in 0 .. n : m \in C
<1> DEFINE D == {m \in 0 .. n : m \notin C}
<1>1. SUFFICES ASSUME D # {} PROVE FALSE
  OBVIOUS
<1>2. PICK m \in D : \A k \in D : m <= k
  <2>1. D \in SUBSET Nat
    OBVIOUS
  <2> HIDE DEF D
  <2> QED BY <1>1, <2>1, LeastNumber
<1>3. m # 0 /\ m - 1 \in 0 .. n - 1 /\ m - 1 \notin D
  BY <1>2
<1> QED
  BY <1>3

LEMMA SumSame ==
  ASSUME NEW S, IsFiniteSet(S), NEW f, NEW g, \A x \in S : f[x] \in Int /\ f[x] = g[x]
  PROVE  SumFunctionOnSet(f, S) = SumFunctionOnSet(g, S)
<1> DEFINE C == {T \in SUBSET S : SumFunctionOnSet(f, T) = SumFunctionOnSet(g, T)}
<1>1. {} \in C
  BY SumEmpty
<1>2. ASSUME NEW U \in SUBSET S, U \in C, NEW x \in S \ U PROVE U \cup {x} \in C
  <2>1. IsFiniteSet(U) /\ (\A y \in U : f[y] \in Int) /\ (\A y \in U : g[y] \in Int)
    BY FS_Subset
  <2>2. SumFunctionOnSet(f, U \cup {x}) = SumFunctionOnSet(f, U) + f[x]
    BY <2>1, SumAdd
  <2>3. SumFunctionOnSet(g, U \cup {x}) = SumFunctionOnSet(g, U) + g[x]
    BY <2>1, SumAdd
  <2> QED BY <1>2, <2>2, <2>3
<1>3. S \in C
  <2> HIDE DEF C
  <2> QED BY <1>1, <1>2, SetInduction
<1> QED
  BY <1>3

LEMMA SumDisjoint ==
  ASSUME NEW S, IsFiniteSet(S), NEW T, IsFiniteSet(T), S \cap T = {},
         NEW f, \A x \in S \cup T : f[x] \in Int
  PROVE  SumFunctionOnSet(f, S \cup T) = SumFunctionOnSet(f, S) + SumFunctionOnSet(f, T)
<1> DEFINE Sum(U) == SumFunctionOnSet(f, U)
           C == {U \in SUBSET S : Sum(U \cup T) = Sum(U) + Sum(T)}
<1>1. Sum(T) \in Int /\ Sum({}) = 0
  BY SumType, SumEmpty
<1>2. {} \in C
  <2>1. {} \cup T = T
    OBVIOUS
  <2>2. Sum({} \cup T) = Sum({}) + Sum(T)
    <3> HIDE DEF Sum
    <3> QED BY <1>1, <2>1
  <2> QED BY <2>2
<1>3. ASSUME NEW U \in SUBSET S, U \in C, NEW x \in S \ U PROVE U \cup {x} \in C
  <2>1. IsFiniteSet(U) /\ IsFiniteSet(U \cup T) /\ x \notin U \cup T
    BY FS_Subset, FS_Union
  <2>2. Sum(U \cup {x}) = Sum(U) + f[x] /\ Sum(U) \in Int
    BY <2>1, SumAdd, SumType
  <2>3. Sum((U \cup T) \cup {x}) = Sum(U \cup T) + f[x]
    BY <2>1, SumAdd
  <2>4. (U \cup {x}) \cup T = (U \cup T) \cup {x} /\ f[x] \in Int
    OBVIOUS
  <2>5. Sum((U \cup {x}) \cup T) = Sum(U \cup T) + f[x]
    BY <2>3, <2>4
  <2>6. Sum(U \cup T) = Sum(U) + Sum(T)
    BY <1>3
  <2>7. Sum((U \cup {x}) \cup T) = Sum(U \cup {x}) + Sum(T)
    <3> HIDE DEF Sum
    <3> QED BY <1>1, <2>2, <2>4, <2>5, <2>6
  <2> QED BY <2>7
<1>4. S \in C
  <2> HIDE DEF C
  <2> QED BY <1>2, <1>3, SetInduction
<1> QED
  BY <1>4

LEMMA SumNatural ==
  ASSUME NEW S, IsFiniteSet(S), NEW f, \A x \in S : f[x] \in Nat
  PROVE  SumFunctionOnSet(f, S) \in Nat
<1> DEFINE C == {T \in SUBSET S : SumFunctionOnSet(f, T) \in Nat}
<1>1. {} \in C
  BY SumEmpty
<1>2. ASSUME NEW U \in SUBSET S, U \in C, NEW x \in S \ U PROVE U \cup {x} \in C
  <2>1. IsFiniteSet(U) /\ \A y \in U \cup {x} : f[y] \in Int
    BY FS_Subset
  <2>2. SumFunctionOnSet(f, U \cup {x}) = SumFunctionOnSet(f, U) + f[x]
    BY <2>1, SumAdd
  <2> QED BY <1>2, <2>2
<1>3. S \in C
  <2> HIDE DEF C
  <2> QED BY <1>1, <1>2, SetInduction
<1> QED
  BY <1>3

-----------------------------------------------------------------------------
(* Types, and what is sold.                                                *)

LEMMA PriceType == ASSUME NEW e \in Event PROVE Price(e) \in Nat
  BY LedgerAssumption DEF Price, Event, Buy, Sale, Days

(* Among the days of some events there is a first one.                     *)
LEMMA FirstDayType ==
  ASSUME events \subseteq Event, events # {}
  PROVE  FirstDay \in Days
<1> DEFINE eventDays == {DayOf[e.time] : e \in events}
<1>1. eventDays \subseteq Days /\ eventDays \subseteq Nat /\ eventDays # {}
  BY LedgerAssumption DEF Event, Buy, Sale, Days
<1>2. PICK d \in eventDays : \A other \in eventDays : <<other, d>> \notin OpToRel(<, Nat)
  <2> HIDE DEF eventDays
  <2>1. QED BY <1>1, NatLessThanWellFounded, WFMin
<1>3. \A other \in eventDays : d <= other
  <2> HIDE DEF eventDays
  <2>1. d \in Nat /\ eventDays \subseteq Nat
    BY <1>1, <1>2
  <2>2. \A other \in eventDays : ~(other < d)
    BY <1>2, <2>1 DEF OpToRel
  <2>3. QED BY <2>1, <2>2
<1>4. QED BY <1>1, <1>2, <1>3 DEF FirstDay

IInv == TypeOK /\ OnlyOldestTouched

LEMMA InitEstablishes == Init => IInv
<1> SUFFICES ASSUME Init PROVE IInv
  OBVIOUS
<1>1. events \subseteq Event /\ todo \subseteq events
  BY LedgerAssumption DEF Init
<1>2. day \in Nat /\ today \in Days
  BY <1>1, FirstDayType, LedgerAssumption DEF Init, Days
<1>3. QED BY <1>1, <1>2 DEF Init, IInv, TypeOK, OnlyOldestTouched

(* A slice is part of its lot, and of what is left to dispose of.          *)
LEMMA TakeType ==
  ASSUME TypeOK, disposal # None, NEW lot \in Lot
  PROVE  /\ Take(lot) \in 1 .. lot.remaining
         /\ disposal \in Disposal
         /\ Take(lot) \in 1 .. disposal.left
         /\ Realise(lot) \in Row
<1>1. disposal \in Disposal /\ disposal.left \in Nat \ {0} /\ disposal.sale \in Sale
  BY DEF TypeOK, Disposal
<1>2. lot.remaining \in 1 .. MaxSats /\ MaxSats \in Nat /\ lot.price \in Nat /\ lot.tx \in Txs
  BY LedgerAssumption DEF Lot
<1>3. Take(lot) \in 1 .. lot.remaining /\ Take(lot) \in 1 .. disposal.left
  BY <1>1, <1>2 DEF Take
<1>4. Price(disposal.sale) \in Nat /\ disposal.sale.tx \in Txs
  BY <1>1, PriceType DEF Event, Sale
<1> DEFINE gain == Take(lot) * Price(disposal.sale) - Take(lot) * lot.price
<1>5. gain \in Int
  <2>1. Take(lot) \in Int /\ Price(disposal.sale) \in Int /\ lot.price \in Int
    BY <1>2, <1>3, <1>4
  <2>2. QED BY <2>1
<1> HIDE DEF gain
<1>6. Realise(lot) = [tx |-> disposal.sale.tx, lot |-> lot.tx, sats |-> Take(lot), gain |-> gain]
  BY DEF Realise, gain
<1>7. Take(lot) \in 1 .. MaxSats
  BY <1>2, <1>3
<1>8. QED BY <1>1, <1>2, <1>3, <1>4, <1>5, <1>6, <1>7 DEF Row

(* Selling from the oldest lot leaves the others alone.                    *)
LEMMA SlicePreserves ==
  ASSUME IInv, Slice
  PROVE  IInv'
<1> DEFINE lot  == Head(lots)
           take == Take(lot)
           left == [lot EXCEPT !.remaining = @ - take]
<1>1. lots \in Seq(Lot) /\ lots # <<>> /\ lot \in Lot /\ lot = lots[1] /\ Len(lots) \in Nat \ {0}
  BY DEF IInv, TypeOK, Slice
<1>2. /\ take \in 1 .. lot.remaining /\ disposal \in Disposal
      /\ take \in 1 .. disposal.left /\ Realise(lot) \in Row
  BY <1>1, TakeType DEF IInv, Slice
<1>3. realised' \in Seq(Row)
  BY <1>2, AppendProperties DEF Slice, IInv, TypeOK
<1>4. disposal' \in Disposal \cup {None}
  BY <1>2 DEF Slice, Disposal
<1>5. CASE take = lot.remaining
  <2>1. lots' = Tail(lots)
    BY <1>5 DEF Slice
  <2>2. lots' \in Seq(Lot) /\ DOMAIN lots' = 1 .. Len(lots) - 1
        /\ \A i \in DOMAIN lots' : lots'[i] = lots[i + 1]
    BY <1>1, <2>1, HeadTailProperties, LenProperties
  <2>3. OnlyOldestTouched'
    BY <1>1, <2>2 DEF OnlyOldestTouched, IInv
  <2>4. QED BY <1>3, <1>4, <2>2, <2>3 DEF IInv, TypeOK, Slice
<1>6. CASE take # lot.remaining
  <2>1. lots' = [lots EXCEPT ![1] = left]
    BY <1>1, <1>6 DEF Slice
  <2>2. left \in Lot
    <3>1. lot.remaining - take \in 1 .. MaxSats
      <4>1. lot.remaining \in 1 .. MaxSats /\ MaxSats \in Nat
        BY <1>1, LedgerAssumption DEF Lot
      <4> HIDE DEF lot, take
      <4>2. QED BY <4>1, <1>2, <1>6
    <3> HIDE DEF lot, take
    <3>2. QED BY <1>1, <3>1 DEF Lot
  <2>3. lots' \in Seq(Lot) /\ DOMAIN lots' = DOMAIN lots
        /\ \A i \in DOMAIN lots : i > 1 => lots'[i] = lots[i]
    BY <1>1, <2>1, <2>2, ExceptSeq, LenProperties
  <2>4. OnlyOldestTouched'
    BY <2>3 DEF OnlyOldestTouched, IInv
  <2>5. QED BY <1>3, <1>4, <2>3, <2>4 DEF IInv, TypeOK, Slice
<1>7. QED BY <1>5, <1>6

(* A lot opens untouched, behind the others.                               *)
LEMMA ApplyInPreserves ==
  ASSUME IInv, NEW e \in todo, ApplyIn(e)
  PROVE  IInv'
<1> DEFINE opened == [tx |-> e.tx, amount |-> e.sats, remaining |-> e.sats, price |-> Price(e)]
<1>1. e \in Event /\ e \in Buy
  BY DEF IInv, TypeOK, ApplyIn, Event, Sale
<1>2. opened \in Lot
  BY <1>1, PriceType DEF Lot, Buy
<1>3. lots' = Append(lots, opened) /\ lots \in Seq(Lot)
  BY DEF ApplyIn, IInv, TypeOK
<1> HIDE DEF opened
<1>4. /\ lots' \in Seq(Lot) /\ DOMAIN lots' = 1 .. Len(lots) + 1 /\ Len(lots) \in Nat
      /\ \A i \in 1 .. Len(lots) : lots'[i] = lots[i]
      /\ lots'[Len(lots) + 1] = opened
      /\ DOMAIN lots = 1 .. Len(lots)
  BY <1>2, <1>3, AppendProperties, LenProperties
<1>5. OnlyOldestTouched'
  <2> SUFFICES ASSUME NEW i \in DOMAIN lots', i > 1
               PROVE  lots'[i].remaining = lots'[i].amount
    BY DEF OnlyOldestTouched
  <2>1. CASE i = Len(lots) + 1
    BY <1>4, <2>1 DEF opened
  <2>2. CASE i # Len(lots) + 1
    BY <1>4, <2>2 DEF IInv, OnlyOldestTouched
  <2>3. QED BY <2>1, <2>2
<1>6. QED BY <1>4, <1>5 DEF IInv, TypeOK, ApplyIn

LEMMA StepPreserves == IInv /\ [Next]_vars => IInv'
<1> SUFFICES ASSUME IInv, [Next]_vars PROVE IInv'
  OBVIOUS
<1>1. ASSUME NEW e \in todo, ApplyIn(e) PROVE IInv'
  BY <1>1, ApplyInPreserves
<1>2. ASSUME NEW e \in todo, ApplyOut(e) PROVE IInv'
  <2>1. e \in Sale /\ SatsToDispose(e) \in Nat
    BY <1>2, LedgerAssumption DEF IInv, TypeOK, ApplyOut, Event, Buy, Sale, SatsToDispose
  <2>2. disposal' \in Disposal \cup {None}
    BY <1>2, <2>1 DEF ApplyOut, Disposal
  <2>3. QED BY <1>2, <2>2 DEF ApplyOut, IInv, TypeOK, OnlyOldestTouched
<1>3. CASE Slice
  BY <1>3, SlicePreserves
<1>4. CASE Underflow \/ Finish
  BY <1>4 DEF Underflow, Finish, IInv, TypeOK, OnlyOldestTouched
<1>5. CASE EndOfDay
  BY <1>5 DEF EndOfDay, IInv, TypeOK, OnlyOldestTouched
<1>6. CASE UNCHANGED vars
  BY <1>6 DEF vars, IInv, TypeOK, OnlyOldestTouched
<1>7. QED BY <1>1, <1>2, <1>3, <1>4, <1>5, <1>6 DEF Next

(* The ledger's variables keep their types through any history, in either  *)
(* order of events; in particular no empty lot stays in the queue and no   *)
(* slice is empty (TypeOK).                                                *)
THEOREM TypeCorrect == Spec => []TypeOK
<1>1. QED BY InitEstablishes, StepPreserves, PTL DEF Spec, IInv

(* Only the oldest open lot is ever partly sold (OnlyOldestTouched): what  *)
(* the code sells is always the oldest coin it still has.                  *)
THEOREM SellsOldestFirst == Spec => []OnlyOldestTouched
<1>1. QED BY InitEstablishes, StepPreserves, PTL DEF Spec, IInv

-----------------------------------------------------------------------------
(* What has been received and disposed of.                                 *)

AmountOf == [e \in Event |-> e.sats + e.fee]
Moved(es, kind, t) == SumFunctionOnSet(AmountOf, UpTo(es, kind, t))

LEMMA EventType ==
  ASSUME NEW e \in Event
  PROVE  /\ e.kind \in {"in", "out"} /\ e.time \in Times /\ e.time \in Nat
         /\ e.sats \in Nat /\ e.fee \in Nat
         /\ e.kind = "in" => e \in Buy /\ e.fee = 0 /\ e.sats \in 1 .. MaxSats
         /\ e.kind = "out" => e \in Sale
         /\ AmountOf[e] = e.sats + e.fee /\ AmountOf[e] \in Nat
<1>1. /\ e.kind \in {"in", "out"} /\ e.time \in Times
      /\ e.sats \in Nat /\ e.fee \in Nat
      /\ e.kind = "in" => e \in Buy /\ e.fee = 0 /\ e.sats \in 1 .. MaxSats
      /\ e.kind = "out" => e \in Sale
  BY LedgerAssumption DEF Event, Buy, Sale
<1>2. e.time \in Nat
  BY <1>1 DEF Times
<1>3. QED BY <1>1, <1>2 DEF AmountOf

LEMMA MovedNatural ==
  ASSUME NEW es \in SUBSET Event, IsFiniteSet(es), NEW kind, NEW t
  PROVE  /\ Moved(es, kind, t) \in Nat
         /\ IsFiniteSet(UpTo(es, kind, t)) /\ \A e \in UpTo(es, kind, t) : AmountOf[e] \in Nat
<1>1. IsFiniteSet(UpTo(es, kind, t))
  BY FS_Subset DEF UpTo
<1>2. \A e \in UpTo(es, kind, t) : AmountOf[e] \in Nat
  BY EventType DEF UpTo
<1>3. QED BY <1>1, <1>2, SumNatural DEF Moved

LEMMA MovedTotals ==
  ASSUME NEW es \in SUBSET Event, IsFiniteSet(es), NEW t
  PROVE  Received(es, t) = Moved(es, "in", t) /\ Disposed(es, t) = Moved(es, "out", t)
<1>1. Received(es, t) = Moved(es, "in", t)
  <2> DEFINE S == UpTo(es, "in", t)
             f == [e \in S |-> e.sats]
  <2>1. \A e \in S : f[e] \in Int /\ f[e] = AmountOf[e]
    <3>1. \A e \in S : e \in Event /\ e.kind = "in"
      BY DEF UpTo
    <3>2. QED BY <3>1, EventType
  <2>2. IsFiniteSet(S) /\ Received(es, t) = SumFunctionOnSet(f, S)
    BY MovedNatural DEF Received, SumFunction
  <2> HIDE DEF S, f
  <2>3. QED BY <2>1, <2>2, SumSame DEF Moved, S
<1>2. Disposed(es, t) = Moved(es, "out", t)
  <2> DEFINE S == UpTo(es, "out", t)
             f == [e \in S |-> e.sats + e.fee]
  <2>1. \A e \in S : f[e] \in Int /\ f[e] = AmountOf[e]
    <3>1. \A e \in S : e \in Event
      BY DEF UpTo
    <3>2. QED BY <3>1, EventType
  <2>2. IsFiniteSet(S) /\ Disposed(es, t) = SumFunctionOnSet(f, S)
    BY MovedNatural DEF Disposed, SumFunction
  <2> HIDE DEF S, f
  <2>3. QED BY <2>1, <2>2, SumSame DEF Moved, S
<1>3. QED BY <1>1, <1>2

\* One event more counts from its block on.
LEMMA MovedAdd ==
  ASSUME NEW es \in SUBSET Event, IsFiniteSet(es), NEW e \in Event \ es, NEW kind, NEW t
  PROVE  Moved(es \cup {e}, kind, t)
           = Moved(es, kind, t) + (IF e.kind = kind /\ e.time <= t THEN e.sats + e.fee ELSE 0)
<1>1. /\ IsFiniteSet(UpTo(es, kind, t)) /\ \A f \in UpTo(es, kind, t) : AmountOf[f] \in Int
      /\ Moved(es, kind, t) \in Nat
  BY MovedNatural
<1>2. AmountOf[e] = e.sats + e.fee /\ AmountOf[e] \in Int
  BY EventType
<1>3. CASE e.kind = kind /\ e.time <= t
  <2>1. UpTo(es \cup {e}, kind, t) = UpTo(es, kind, t) \cup {e} /\ e \notin UpTo(es, kind, t)
    BY <1>3 DEF UpTo
  <2>2. SumFunctionOnSet(AmountOf, UpTo(es, kind, t) \cup {e})
          = SumFunctionOnSet(AmountOf, UpTo(es, kind, t)) + AmountOf[e]
    BY <1>1, <1>2, <2>1, SumAdd
  <2>3. QED BY <1>2, <1>3, <2>1, <2>2 DEF Moved
<1>4. CASE ~ (e.kind = kind /\ e.time <= t)
  <2>1. UpTo(es \cup {e}, kind, t) = UpTo(es, kind, t)
    BY <1>4 DEF UpTo
  <2>2. QED BY <1>1, <1>4, <2>1 DEF Moved
<1>5. QED BY <1>3, <1>4

\* More events move no less.
LEMMA MovedMore ==
  ASSUME NEW es \in SUBSET Event, IsFiniteSet(es), NEW fewer \in SUBSET es, NEW kind, NEW t
  PROVE  Moved(fewer, kind, t) <= Moved(es, kind, t)
<1> DEFINE S == UpTo(es, kind, t)
           T == UpTo(fewer, kind, t)
<1>1. IsFiniteSet(S) /\ \A e \in S : AmountOf[e] \in Nat
  BY MovedNatural
<1>2. T \cup (S \ T) = S /\ T \cap (S \ T) = {} /\ IsFiniteSet(T) /\ IsFiniteSet(S \ T)
  <2>1. T \subseteq S
    BY DEF UpTo
  <2>2. QED BY <1>1, <2>1, FS_Subset
<1>3. (\A e \in T : AmountOf[e] \in Nat) /\ (\A e \in S \ T : AmountOf[e] \in Nat)
      /\ \A e \in T \cup (S \ T) : AmountOf[e] \in Int
  BY <1>1, <1>2
<1> HIDE DEF S, T
<1>4. SumFunctionOnSet(AmountOf, S)
        = SumFunctionOnSet(AmountOf, T) + SumFunctionOnSet(AmountOf, S \ T)
  BY <1>2, <1>3, SumDisjoint
<1>5. SumFunctionOnSet(AmountOf, T) \in Nat /\ SumFunctionOnSet(AmountOf, S \ T) \in Nat
  BY <1>2, <1>3, SumNatural
<1>6. QED BY <1>4, <1>5 DEF Moved, S, T

\* After the last of some events everything of them has been moved.
LEMMA MovedAll ==
  ASSUME NEW es \in SUBSET Event, NEW kind, NEW t \in Times, \A e \in es : e.time <= t
  PROVE  Moved(es, kind, t) = Moved(es, kind, MaxTime)
<1>1. \A e \in es : e.time \in Nat /\ e.time <= MaxTime
  BY EventType, LedgerAssumption DEF Times
<1>2. UpTo(es, kind, t) = UpTo(es, kind, MaxTime)
  BY <1>1 DEF UpTo
<1>3. QED BY <1>2 DEF Moved

-----------------------------------------------------------------------------
(* The numbers of the coins.                                               *)

\* The block of coin number k, and its price.
BlocksOf(es, kind, k) == {t \in Times : Moved(es, kind, t) >= k}
PriceOf(es, kind, k)  == AtTime(Min(BlocksOf(es, kind, k)))

LEMMA PricesOf ==
  ASSUME NEW es \in SUBSET Event, IsFiniteSet(es), NEW k
  PROVE  BuyPrice(es, k) = PriceOf(es, "in", k) /\ SalePrice(es, k) = PriceOf(es, "out", k)
<1>1. \A t \in Times : Received(es, t) = Moved(es, "in", t) /\ Disposed(es, t) = Moved(es, "out", t)
  BY MovedTotals
<1>2. /\ {t \in Times : Received(es, t) >= k} = BlocksOf(es, "in", k)
      /\ {t \in Times : Disposed(es, t) >= k} = BlocksOf(es, "out", k)
  BY <1>1 DEF BlocksOf
<1>3. QED BY <1>2 DEF BuyPrice, SalePrice, PriceOf

LEMMA PriceOfType ==
  ASSUME NEW es \in SUBSET Event, IsFiniteSet(es), NEW kind,
         NEW k \in 1 .. Moved(es, kind, MaxTime)
  PROVE  PriceOf(es, kind, k) \in Nat
<1> DEFINE S == BlocksOf(es, kind, k)
<1>1. S \in SUBSET Nat /\ S \subseteq Times /\ S # {}
  <2>1. MaxTime \in Times /\ Times \subseteq Nat
    BY LedgerAssumption DEF Times
  <2>2. Moved(es, kind, MaxTime) \in Nat
    BY MovedNatural
  <2>3. Moved(es, kind, MaxTime) >= k
    BY <2>2
  <2>4. QED BY <2>1, <2>3 DEF BlocksOf
<1> HIDE DEF S
<1>2. \E m \in S : \A t \in S : m <= t
  BY <1>1, LeastNumber
<1>3. Min(S) \in Times
  BY <1>1, <1>2 DEF Min
<1>4. QED BY <1>3, LedgerAssumption DEF PriceOf, AtTime, Days, S

\* A later event leaves the numbers given so far alone ...
LEMMA NumbersStay ==
  ASSUME NEW es \in SUBSET Event, IsFiniteSet(es), NEW e \in Event \ es,
         \A f \in es : f.time <= e.time, NEW kind, NEW k \in 1 .. Moved(es, kind, MaxTime)
  PROVE  PriceOf(es \cup {e}, kind, k) = PriceOf(es, kind, k)
<1>1. ASSUME NEW t \in Times
      PROVE  Moved(es \cup {e}, kind, t) >= k <=> Moved(es, kind, t) >= k
  <2>1. /\ Moved(es, kind, t) \in Nat /\ Moved(es, kind, MaxTime) \in Nat
        /\ e.sats \in Nat /\ e.fee \in Nat /\ e.time \in Nat /\ t \in Nat
    BY MovedNatural, EventType DEF Times
  <2>2. Moved(es \cup {e}, kind, t)
          = Moved(es, kind, t) + (IF e.kind = kind /\ e.time <= t THEN e.sats + e.fee ELSE 0)
    BY MovedAdd
  <2>3. CASE e.time <= t
    <3>1. \A f \in es : f.time <= t
      <4>1. \A f \in es : f.time \in Nat
        BY EventType
      <4>2. QED BY <2>1, <2>3, <4>1
    <3>2. Moved(es, kind, t) = Moved(es, kind, MaxTime)
      BY <3>1, MovedAll
    <3>3. QED BY <2>1, <2>2, <3>2
  <2>4. CASE ~ (e.time <= t)
    BY <2>1, <2>2, <2>4
  <2>5. QED BY <2>3, <2>4
<1>2. BlocksOf(es \cup {e}, kind, k) = BlocksOf(es, kind, k)
  BY <1>1 DEF BlocksOf
<1>3. QED BY <1>2 DEF PriceOf

\* ... and gives the next ones to its own coins.
LEMMA NewNumbers ==
  ASSUME NEW es \in SUBSET Event, IsFiniteSet(es), NEW e \in Event \ es,
         \A f \in es : f.time <= e.time,
         NEW k \in Moved(es, e.kind, MaxTime) + 1 .. Moved(es, e.kind, MaxTime) + (e.sats + e.fee)
  PROVE  PriceOf(es \cup {e}, e.kind, k) = Price(e)
<1> DEFINE total == Moved(es, e.kind, MaxTime)
           S == BlocksOf(es \cup {e}, e.kind, k)
<1>1. total \in Nat /\ e.sats \in Nat /\ e.fee \in Nat /\ e.time \in Times /\ e.time \in Nat
  BY MovedNatural, EventType
<1>2. ASSUME NEW t \in Times PROVE t \in S <=> e.time <= t
  <2>1. Moved(es, e.kind, t) \in Nat /\ t \in Nat /\ t <= MaxTime /\ MaxTime \in Nat
    BY MovedNatural, LedgerAssumption DEF Times
  <2>2. Moved(es \cup {e}, e.kind, t)
          = Moved(es, e.kind, t) + (IF e.time <= t THEN e.sats + e.fee ELSE 0)
    BY MovedAdd
  <2>3. CASE e.time <= t
    <3>1. \A f \in es : f.time <= t
      <4>1. \A f \in es : f.time \in Nat
        BY EventType
      <4>2. QED BY <1>1, <2>1, <2>3, <4>1
    <3>2. Moved(es, e.kind, t) = total
      BY <3>1, MovedAll
    <3>3. Moved(es \cup {e}, e.kind, t) >= k
      BY <1>1, <2>2, <2>3, <3>2
    <3>4. QED BY <2>3, <3>3 DEF BlocksOf
  <2>4. CASE ~ (e.time <= t)
    <3>1. Moved(es, e.kind, t) <= total
      <4>1. UpTo(es, e.kind, t) = UpTo({f \in es : f.time <= t}, e.kind, MaxTime)
        <5>1. \A f \in es : f.time \in Nat /\ f.time <= MaxTime
          BY EventType, LedgerAssumption DEF Times
        <5>2. QED BY <2>1, <5>1 DEF UpTo
      <4>2. Moved(es, e.kind, t) = Moved({f \in es : f.time <= t}, e.kind, MaxTime)
        BY <4>1 DEF Moved
      <4>3. QED BY <4>2, MovedMore
    <3>2. ~ (Moved(es \cup {e}, e.kind, t) >= k)
      BY <1>1, <2>1, <2>2, <2>4, <3>1
    <3>3. QED BY <2>4, <3>2 DEF BlocksOf
  <2>5. QED BY <2>3, <2>4
<1>3. S \subseteq Times /\ \A t \in Times : t \in Nat
  BY DEF BlocksOf, Times
<1> HIDE DEF S
<1>4. e.time \in S /\ \A t \in S : e.time <= t /\ t \in Nat
  BY <1>1, <1>2, <1>3
<1>5. Min(S) = e.time
  <2>1. Min(S) \in S /\ \A t \in S : Min(S) <= t
    BY <1>4 DEF Min
  <2>2. QED BY <1>1, <1>4, <2>1
<1>6. QED BY <1>5 DEF PriceOf, AtTime, Price, S

-----------------------------------------------------------------------------
(* The accounts.                                                           *)

\* The events applied so far, what is left of the sale at hand, and the coins
\* received and sold by now.
Applied == events \ todo
Left == IF disposal = None THEN 0 ELSE disposal.left
Got  == Moved(Applied, "in", MaxTime)
Sold == Moved(Applied, "out", MaxTime) - Left

\* The lots hold the coins that are not sold, in the order of their numbers:
\* lot i the numbers after s[i] up to s[i + 1].
Numbered(s) ==
  /\ s \in [1 .. Len(lots) + 1 -> Nat]
  /\ s[1] = Sold /\ s[Len(lots) + 1] = Got
  /\ \A i \in 1 .. Len(lots) + 1 : s[i] <= Got
  /\ \A i \in 1 .. Len(lots) :
       /\ s[i + 1] = s[i] + lots[i].remaining
       /\ \A k \in s[i] + 1 .. s[i + 1] : PriceOf(Applied, "in", k) = lots[i].price

\* No event waits that should have come before one applied.
InOrder == \A e \in Applied, f \in todo : ~Before(f, e)

\* The sale at hand is the last event applied, and sells the next coins.
Selling ==
  disposal # None =>
    /\ disposal.sale \in Applied
    /\ \A e \in Applied : e.time <= disposal.sale.time
    /\ \A k \in Sold + 1 .. Sold + Left : PriceOf(Applied, "out", k) = Price(disposal.sale)

\* What each coin sold has brought.
Gain(es) == [k \in Nat |-> PriceOf(es, "out", k) - PriceOf(es, "in", k)]
Gained ==
  SumFunctionOnSet([i \in DOMAIN realised |-> realised[i].gain], DOMAIN realised)
    = SumFunctionOnSet(Gain(Applied), 1 .. Sold)

\* What has been sold up to a block had been received up to it.
Enough ==
  \A t \in Times :
    Moved(Applied, "out", t)
      - (IF disposal # None /\ disposal.sale.time <= t THEN Left ELSE 0)
      <= Moved(Applied, "in", t)

Stopped ==
  /\ status = "done" /\ reader = "replay" => todo = {} /\ disposal = None
  /\ status = "raised" => disposal # None /\ lots = <<>>

Account ==
  /\ IInv /\ IsFiniteSet(events)
  /\ InOrder /\ Selling /\ Gained /\ Enough /\ Stopped
  /\ \E s : Numbered(s)

LEMMA AppliedType ==
  ASSUME IInv, IsFiniteSet(events)
  PROVE  /\ Applied \in SUBSET Event /\ IsFiniteSet(Applied)
         /\ Left \in Nat /\ Got \in Nat
         /\ \A kind, t : Moved(Applied, kind, t) \in Nat
<1>1. Applied \in SUBSET Event /\ IsFiniteSet(Applied)
  BY FS_Subset DEF Applied, IInv, TypeOK
<1>2. Left \in Nat
  BY DEF Left, IInv, TypeOK, Disposal
<1>3. QED BY <1>1, <1>2, MovedNatural DEF Got

LEMMA InitAccount == Init => Account
<1> SUFFICES ASSUME Init PROVE Account
  OBVIOUS
<1>1. IInv /\ IsFiniteSet(events)
  BY InitEstablishes, LedgerAssumption DEF Init
<1>2. Applied = {} /\ disposal = None /\ lots = <<>> /\ realised = <<>> /\ status = "running"
  BY DEF Init, Applied
<1>3. \A kind, t : Moved({}, kind, t) = 0
  <2>1. \A kind, t : UpTo({}, kind, t) = {}
    BY DEF UpTo
  <2>2. QED BY <2>1, SumEmpty DEF Moved
<1>4. Got = 0 /\ Sold = 0 /\ Left = 0
  BY <1>2, <1>3 DEF Got, Sold, Left
<1>5. Numbered([i \in 1 .. 1 |-> 0])
  <2>1. Len(lots) = 0
    BY <1>2
  <2>2. QED BY <1>4, <2>1 DEF Numbered
<1>6. Gained
  <2>1. DOMAIN realised = {} /\ 1 .. Sold = {}
    BY <1>2, <1>4
  <2>2. QED BY <2>1, SumEmpty DEF Gained
<1>7. InOrder /\ Selling /\ Stopped
  BY <1>2 DEF InOrder, Selling, Stopped
<1>8. Enough
  BY <1>2, <1>3, <1>4 DEF Enough
<1>9. QED BY <1>1, <1>5, <1>6, <1>7, <1>8 DEF Account

\* Applying an event: it comes after all that were applied, and leaves the
\* prices of the coins they numbered alone.
LEMMA ApplyNext ==
  ASSUME Account, NEW e \in todo, Due(e), todo' = todo \ {e}, UNCHANGED <<events, reader>>
  PROVE  /\ Applied' = Applied \cup {e} /\ e \in Event \ Applied
         /\ disposal = None /\ Left = 0 /\ Sold = Moved(Applied, "out", MaxTime)
         /\ \A f \in Applied : f.time <= e.time
         /\ InOrder'
<1>1. /\ Applied \in SUBSET Event /\ IsFiniteSet(Applied)
      /\ \A kind, t : Moved(Applied, kind, t) \in Nat
  BY AppliedType DEF Account
<1>2. todo \subseteq events /\ events \subseteq Event
  BY DEF Account, IInv, TypeOK
<1>3. Applied' = Applied \cup {e} /\ e \in Event \ Applied
  BY <1>2 DEF Applied
<1>4. disposal = None /\ \A f \in todo : ~Before(f, e)
  BY DEF Due
<1>5. Left = 0 /\ Sold = Moved(Applied, "out", MaxTime)
  BY <1>1, <1>4 DEF Left, Sold
<1>6. ASSUME NEW f \in Applied PROVE f.time <= e.time
  <2>1. ~ (e.time < f.time)
    BY DEF Account, InOrder, Before
  <2>2. e.time \in Nat /\ f.time \in Nat
    BY <1>1, <1>3, EventType
  <2>3. QED BY <2>1, <2>2
<1>7. InOrder'
  BY <1>3, <1>4 DEF Account, InOrder, Before
<1>8. QED BY <1>3, <1>4, <1>5, <1>6, <1>7

LEMMA ApplyMoves ==
  ASSUME Account, NEW e \in todo, Due(e), todo' = todo \ {e}, UNCHANGED <<events, reader>>
  PROVE  /\ \A kind, t :
              Moved(Applied, kind, t)' = Moved(Applied, kind, t)
                + (IF e.kind = kind /\ e.time <= t THEN e.sats + e.fee ELSE 0)
         /\ \A kind : \A k \in 1 .. Moved(Applied, kind, MaxTime) :
              PriceOf(Applied, kind, k)' = PriceOf(Applied, kind, k)
         /\ \A k \in Moved(Applied, e.kind, MaxTime) + 1
                       .. Moved(Applied, e.kind, MaxTime) + (e.sats + e.fee) :
              PriceOf(Applied, e.kind, k)' = Price(e)
         /\ e.time <= MaxTime
<1>1. Applied \in SUBSET Event /\ IsFiniteSet(Applied)
  BY AppliedType DEF Account
<1>2. /\ Applied' = Applied \cup {e} /\ e \in Event \ Applied
      /\ \A f \in Applied : f.time <= e.time
  BY ApplyNext
<1>3. e.time <= MaxTime
  BY <1>2, EventType, LedgerAssumption DEF Times
<1>4. \A kind, t : Moved(Applied \cup {e}, kind, t) = Moved(Applied, kind, t)
                + (IF e.kind = kind /\ e.time <= t THEN e.sats + e.fee ELSE 0)
  BY <1>1, <1>2, MovedAdd
<1>5. \A kind : \A k \in 1 .. Moved(Applied, kind, MaxTime) :
        PriceOf(Applied \cup {e}, kind, k) = PriceOf(Applied, kind, k)
  BY <1>1, <1>2, NumbersStay
<1>6. \A k \in Moved(Applied, e.kind, MaxTime) + 1
                 .. Moved(Applied, e.kind, MaxTime) + (e.sats + e.fee) :
        PriceOf(Applied \cup {e}, e.kind, k) = Price(e)
  BY <1>1, <1>2, NewNumbers
<1>7. QED BY <1>2, <1>3, <1>4, <1>5, <1>6

\* The gains of coins that are sold stay what they are.
LEMMA GainsStay ==
  ASSUME Account, NEW e \in todo, Due(e), todo' = todo \ {e}, UNCHANGED <<events, reader>>
  PROVE  SumFunctionOnSet(Gain(Applied'), 1 .. Sold) = SumFunctionOnSet(Gain(Applied), 1 .. Sold)
<1> DEFINE f == Gain(Applied)
           g == Gain(Applied')
           S == 1 .. Sold
<1>1. /\ Applied \in SUBSET Event /\ IsFiniteSet(Applied) /\ Got \in Nat
      /\ \A kind, t : Moved(Applied, kind, t) \in Nat
  BY AppliedType DEF Account
<1>2. Sold = Moved(Applied, "out", MaxTime) /\ Sold \in Nat /\ Sold <= Got
  <2>1. PICK s : Numbered(s)
    BY DEF Account
  <2>2. 1 \in 1 .. Len(lots) + 1
    BY LenProperties DEF Account, IInv, TypeOK
  <2>3. Sold <= Got
    BY <2>1, <2>2 DEF Numbered
  <2>4. QED BY <1>1, <2>3, ApplyNext
<1>3. ASSUME NEW k \in S PROVE f[k] \in Int /\ f[k] = g[k]
  <2>1. k \in 1 .. Moved(Applied, "out", MaxTime) /\ k \in 1 .. Moved(Applied, "in", MaxTime)
    BY <1>1, <1>2 DEF Got
  <2>2. /\ PriceOf(Applied, "out", k) \in Nat /\ PriceOf(Applied, "in", k) \in Nat
        /\ PriceOf(Applied, "out", k)' = PriceOf(Applied, "out", k)
        /\ PriceOf(Applied, "in", k)' = PriceOf(Applied, "in", k)
    BY <1>1, <2>1, PriceOfType, ApplyMoves
  <2>3. k \in Nat
    BY <2>1
  <2>4. /\ f[k] = PriceOf(Applied, "out", k) - PriceOf(Applied, "in", k)
        /\ g[k] = PriceOf(Applied', "out", k) - PriceOf(Applied', "in", k)
    BY <2>3 DEF Gain
  <2> HIDE DEF f, g
  <2>5. QED BY <2>2, <2>4
<1>4. IsFiniteSet(S)
  <2>1. 1 \in Int /\ Sold \in Int
    BY <1>2
  <2>2. QED BY <2>1, FS_Interval, Zenon
<1> HIDE DEF f, g, S
<1>5. SumFunctionOnSet(g, S) = SumFunctionOnSet(f, S)
  BY <1>3, <1>4, SumSame
<1>6. QED BY <1>5 DEF f, g, S

\* A lot opens with the next coins.
LEMMA BuyAccounts ==
  ASSUME Account, NEW e \in todo, ApplyIn(e)
  PROVE  Account'
<1> DEFINE n == Len(lots)
           new == [tx |-> e.tx, amount |-> e.sats, remaining |-> e.sats, price |-> Price(e)]
<1>1. /\ Due(e) /\ e.kind = "in" /\ todo' = todo \ {e} /\ UNCHANGED <<events, reader>>
      /\ UNCHANGED <<disposal, realised, status>> /\ lots' = Append(lots, new)
  BY DEF ApplyIn
<1>2. /\ Applied' = Applied \cup {e} /\ e \in Event \ Applied
      /\ disposal = None /\ Left = 0 /\ Sold = Moved(Applied, "out", MaxTime)
      /\ InOrder'
  BY <1>1, ApplyNext
<1>3. /\ Got \in Nat /\ \A kind, t : Moved(Applied, kind, t) \in Nat
      /\ e.sats \in Nat /\ e.fee = 0 /\ e.sats >= 1
  BY <1>1, <1>2, AppliedType, EventType DEF Account
<1>4. \A t : Moved(Applied, "out", t)' = Moved(Applied, "out", t)
  BY <1>1, <1>3, ApplyMoves
<1>5. \A t : Moved(Applied, "in", t)' >= Moved(Applied, "in", t)
  BY <1>1, <1>3, ApplyMoves
<1>6. Moved(Applied, "in", MaxTime)' = Got + e.sats
  BY <1>1, <1>3, ApplyMoves DEF Got
<1>7. Got' = Got + e.sats /\ Left' = 0 /\ Sold' = Sold
  BY <1>1, <1>2, <1>3, <1>4, <1>6 DEF Got, Left, Sold
<1>8. /\ \A k \in 1 .. Got : PriceOf(Applied, "in", k)' = PriceOf(Applied, "in", k)
      /\ \A k \in Got + 1 .. Got + e.sats : PriceOf(Applied, "in", k)' = Price(e)
  BY <1>1, <1>3, ApplyMoves DEF Got
<1>9. \E s : Numbered(s)'
  <2>1. PICK s : Numbered(s)
    BY DEF Account
  <2>2. /\ n \in Nat /\ Len(lots') = n + 1
        /\ \A i \in 1 .. n : lots'[i] = lots[i]
        /\ lots'[n + 1] = new
    <3>1. lots \in Seq(Lot)
      BY DEF Account, IInv, TypeOK
    <3> HIDE DEF new
    <3>2. QED BY <1>1, <3>1, LenProperties, AppendProperties
  <2>3. /\ s \in [1 .. n + 1 -> Nat] /\ s[1] = Sold /\ s[n + 1] = Got
        /\ \A i \in 1 .. n + 1 : s[i] <= Got
        /\ \A i \in 1 .. n : /\ s[i + 1] = s[i] + lots[i].remaining
                             /\ \A k \in s[i] + 1 .. s[i + 1] : PriceOf(Applied, "in", k) = lots[i].price
    BY <2>1 DEF Numbered
  <2> HIDE DEF n
  <2>4. PICK r : r = [i \in 1 .. n + 2 |-> IF i <= n + 1 THEN s[i] ELSE Got + e.sats]
    OBVIOUS
  <2>5. /\ r \in [1 .. n + 2 -> Nat] /\ r[1] = Sold' /\ r[n + 2] = Got'
        /\ \A i \in 1 .. n + 2 : r[i] <= Got'
        /\ \A i \in 1 .. n + 1 : r[i] = s[i]
    BY <1>3, <1>7, <2>2, <2>3, <2>4
  <2> HIDE DEF new
  <2>6. ASSUME NEW i \in 1 .. n + 1
        PROVE  /\ r[i + 1] = r[i] + lots'[i].remaining
               /\ \A k \in r[i] + 1 .. r[i + 1] : PriceOf(Applied, "in", k)' = lots'[i].price
    <3>1. i \in 1 .. n \/ i = n + 1
      BY <2>2
    <3>2. CASE i \in 1 .. n
      <4>1. r[i] = s[i] /\ r[i + 1] = s[i + 1] /\ lots'[i] = lots[i]
        BY <2>2, <2>5, <3>2
      <4>2. s[i] \in Nat /\ s[i + 1] \in Nat /\ s[i + 1] <= Got
        BY <2>2, <2>3, <3>2
      <4>3. \A k \in s[i] + 1 .. s[i + 1] : k \in 1 .. Got
        BY <1>3, <4>2
      <4>4. QED BY <1>8, <2>3, <3>2, <4>1, <4>3
    <3>3. CASE i = n + 1
      <4>1. r[i] = Got /\ r[i + 1] = Got + e.sats
        BY <1>7, <2>2, <2>3, <2>5, <3>3
      <4>2. lots'[i].remaining = e.sats /\ lots'[i].price = Price(e)
        BY <2>2, <3>3 DEF new
      <4>3. QED BY <1>8, <4>1, <4>2
    <3>4. QED BY <3>1, <3>2, <3>3
  <2>7. Numbered(r)'
    <3>1. Len(lots') + 1 = n + 2 /\ Len(lots') = n + 1
      BY <2>2
    <3>2. QED BY <2>5, <2>6, <3>1 DEF Numbered
  <2>8. QED BY <2>7
<1>10. Gained'
  <2>1. SumFunctionOnSet(Gain(Applied'), 1 .. Sold) = SumFunctionOnSet(Gain(Applied), 1 .. Sold)
    BY <1>1, GainsStay
  <2>2. QED BY <1>1, <1>7, <2>1 DEF Account, Gained
<1>11. Enough'
  <2>1. ASSUME NEW t \in Times PROVE Moved(Applied, "out", t)' <= Moved(Applied, "in", t)'
    <3>1. Moved(Applied, "out", t) <= Moved(Applied, "in", t)
      BY <1>2, <1>3 DEF Account, Enough
    <3>2. Moved(Applied, "in", t)' \in Nat
      BY <1>1, <1>3, ApplyMoves
    <3>3. QED BY <1>3, <1>4, <1>5, <3>1, <3>2
  <2>2. disposal' = None
    BY <1>1, <1>2
  <2>3. ASSUME NEW t \in Times PROVE Moved(Applied, "out", t)' - 0 = Moved(Applied, "out", t)'
    BY <1>3, <1>4
  <2>4. QED BY <2>1, <2>2, <2>3 DEF Enough
<1>12. Selling' /\ Stopped' /\ IsFiniteSet(events)'
  BY <1>1, <1>2 DEF Account, Selling, Stopped, Due
<1>13. IInv'
  BY ApplyInPreserves DEF Account
<1>14. QED BY <1>2, <1>9, <1>10, <1>11, <1>12, <1>13 DEF Account

\* A sale at hand sells the next coins.
LEMMA SaleAccounts ==
  ASSUME Account, NEW e \in todo, ApplyOut(e)
  PROVE  Account'
<1> DEFINE sum == e.sats + e.fee
<1>1. /\ Due(e) /\ e.kind = "out" /\ todo' = todo \ {e} /\ UNCHANGED <<events, reader>>
      /\ UNCHANGED <<lots, realised, status>>
      /\ disposal' = IF sum <= 0 THEN None ELSE [sale |-> e, left |-> sum]
  BY DEF ApplyOut, SatsToDispose
<1>2. /\ Applied' = Applied \cup {e} /\ e \in Event \ Applied
      /\ disposal = None /\ Left = 0 /\ Sold = Moved(Applied, "out", MaxTime)
      /\ \A f \in Applied : f.time <= e.time
      /\ InOrder'
  BY <1>1, ApplyNext
<1>3. /\ Got \in Nat /\ \A kind, t : Moved(Applied, kind, t) \in Nat
      /\ e \in Sale /\ e.time \in Nat /\ e.sats \in Nat /\ e.fee \in Nat /\ sum \in Nat
  BY <1>1, <1>2, AppliedType, EventType DEF Account
<1>4. \A t : Moved(Applied, "in", t)' = Moved(Applied, "in", t)
  BY <1>1, <1>3, ApplyMoves
<1>5. \A t : Moved(Applied, "out", t)'
               = Moved(Applied, "out", t) + (IF e.time <= t THEN sum ELSE 0)
  BY <1>1, <1>3, ApplyMoves
<1>6. disposal' # None => disposal'.sale = e /\ disposal'.left = sum
  BY <1>1
<1>7. Left' = sum
  <2>1. CASE sum <= 0
    BY <1>1, <1>3, <2>1 DEF Left
  <2>2. CASE ~ (sum <= 0)
    <3>1. disposal' # None
      <4>1. disposal' = [sale |-> e, left |-> sum]
        BY <1>1, <2>2
      <4>2. disposal' \in Disposal
        BY <1>3, <2>2, <4>1 DEF Disposal
      <4>3. QED BY <4>2, LedgerAssumption
    <3>2. QED BY <1>6, <3>1 DEF Left
  <2>3. QED BY <2>1, <2>2
<1>8. Got' = Got /\ Sold' = Sold
  <2>1. e.time <= MaxTime
    BY <1>1, ApplyMoves
  <2>2. Moved(Applied, "out", MaxTime)' = Moved(Applied, "out", MaxTime) + sum
    BY <1>5, <2>1
  <2> HIDE DEF sum
  <2>3. Sold' = Moved(Applied, "out", MaxTime)' - Left'
    BY DEF Sold
  <2>4. Moved(Applied, "out", MaxTime) \in Nat
    BY <1>3
  <2>5. Sold' = Sold
    BY <1>2, <1>3, <1>7, <2>2, <2>3, <2>4
  <2>6. Got' = Got
    BY <1>4 DEF Got
  <2>7. QED BY <2>5, <2>6
<1>9. \A k \in 1 .. Got : PriceOf(Applied, "in", k)' = PriceOf(Applied, "in", k)
  BY <1>1, <1>3, ApplyMoves DEF Got
<1>10. \E s : Numbered(s)'
  <2>1. PICK s : Numbered(s)
    BY DEF Account
  <2>2. lots \in Seq(Lot) /\ Len(lots) \in Nat
    BY DEF Account, IInv, TypeOK
  <2>3. ASSUME NEW i \in 1 .. Len(lots), NEW k \in s[i] + 1 .. s[i + 1]
        PROVE  PriceOf(Applied, "in", k)' = lots[i].price
    <3>1. s[i] \in Nat /\ s[i + 1] \in Nat /\ s[i + 1] <= Got
      BY <2>1, <2>2 DEF Numbered
    <3>2. k \in 1 .. Got
      BY <1>3, <3>1
    <3>3. PriceOf(Applied, "in", k) = lots[i].price
      BY <2>1 DEF Numbered
    <3>4. QED BY <1>9, <3>2, <3>3
  <2>4. Numbered(s)'
    BY <1>1, <1>8, <2>1, <2>3 DEF Numbered
  <2>5. QED BY <2>4
<1>11. Gained'
  <2>1. SumFunctionOnSet(Gain(Applied'), 1 .. Sold) = SumFunctionOnSet(Gain(Applied), 1 .. Sold)
    BY <1>1, GainsStay
  <2>2. QED BY <1>1, <1>8, <2>1 DEF Account, Gained
<1>12. Selling'
  <2>1. \A k \in Sold + 1 .. Sold + sum : PriceOf(Applied, "out", k)' = Price(e)
    BY <1>1, <1>2, ApplyMoves
  <2>2. \A f \in Applied' : f.time <= e.time
    BY <1>2, <1>3
  <2>3. e \in Applied'
    BY <1>2
  <2> HIDE DEF sum
  <2>4. QED BY <1>6, <1>7, <1>8, <2>1, <2>2, <2>3 DEF Selling
<1>13. Enough'
  <2>1. ASSUME NEW t \in Times
        PROVE  Moved(Applied, "out", t)'
                 - (IF disposal' # None /\ disposal'.sale.time <= t THEN Left' ELSE 0)
                 <= Moved(Applied, "in", t)'
    <3>1. Moved(Applied, "out", t) <= Moved(Applied, "in", t)
      BY <1>2, <1>3 DEF Account, Enough
    <3>2. CASE disposal' = None
      <4>1. sum = 0
        <5>1. disposal' = None => Left' = 0
          BY DEF Left
        <5>2. QED BY <1>7, <3>2, <5>1
      <4> HIDE DEF sum
      <4>2. QED BY <1>3, <1>4, <1>5, <3>1, <3>2, <4>1
    <3>3. CASE disposal' # None
      <4> HIDE DEF sum
      <4>1. disposal'.sale.time = e.time
        BY <1>6, <3>3
      <4>2. QED BY <1>3, <1>4, <1>5, <1>7, <3>1, <3>3, <4>1
    <3>4. QED BY <3>2, <3>3
  <2>2. QED BY <2>1 DEF Enough
<1>14. Stopped' /\ IsFiniteSet(events)'
  BY <1>1 DEF Account, Stopped, Due
<1>15. IInv'
  BY StepPreserves DEF Account, Next
<1>16. QED BY <1>2, <1>10, <1>11, <1>12, <1>13, <1>14, <1>15 DEF Account

-----------------------------------------------------------------------------
(* Sums over intervals.                                                    *)

LEMMA Interval ==
  ASSUME NEW a \in Int, NEW b \in Int
  PROVE  IsFiniteSet(a .. b)
  BY FS_Interval, Zenon

LEMMA SumNext ==
  ASSUME NEW a \in Int, NEW b \in Int, a <= b + 1,
         NEW f, \A x \in a .. b + 1 : f[x] \in Int
  PROVE  SumFunctionOnSet(f, a .. b + 1) = SumFunctionOnSet(f, a .. b) + f[b + 1]
<1> DEFINE S == a .. b
           y == b + 1
<1>1. a .. b + 1 = S \cup {y} /\ y \notin S /\ f[y] \in Int /\ \A x \in S : f[x] \in Int
  OBVIOUS
<1>2. IsFiniteSet(S)
  BY Interval
<1> HIDE DEF S, y
<1>3. SumFunctionOnSet(f, S \cup {y}) = SumFunctionOnSet(f, S) + f[y]
  BY <1>1, <1>2, SumAdd
<1>4. QED BY <1>1, <1>3 DEF S, y

LEMMA SumSplit ==
  ASSUME NEW a \in Int, NEW b \in Int, NEW c \in Int, a <= b + 1, b <= c,
         NEW f, \A x \in a .. c : f[x] \in Int
  PROVE  SumFunctionOnSet(f, a .. c) = SumFunctionOnSet(f, a .. b) + SumFunctionOnSet(f, b + 1 .. c)
<1> DEFINE S == a .. b
           T == b + 1 .. c
<1>1. a .. c = S \cup T /\ S \cap T = {}
  OBVIOUS
<1>2. \A x \in S \cup T : f[x] \in Int
  BY <1>1
<1>3. IsFiniteSet(S) /\ IsFiniteSet(T)
  <2>1. b + 1 \in Int
    OBVIOUS
  <2>2. QED BY <2>1, Interval
<1> HIDE DEF S, T
<1>4. SumFunctionOnSet(f, S \cup T) = SumFunctionOnSet(f, S) + SumFunctionOnSet(f, T)
  BY <1>1, <1>2, <1>3, SumDisjoint
<1>5. QED BY <1>1, <1>4 DEF S, T

\* n times the same.
LEMMA SumConstant ==
  ASSUME NEW a \in Int, NEW n \in Nat, NEW c \in Int,
         NEW f, \A x \in a + 1 .. a + n : f[x] = c
  PROVE  SumFunctionOnSet(f, a + 1 .. a + n) = n * c
<1> DEFINE C == {m \in 0 .. n : SumFunctionOnSet(f, a + 1 .. a + m) = m * c}
<1>1. 0 \in C
  <2>1. a + 1 .. a + 0 = {} /\ 0 * c = 0
    OBVIOUS
  <2>2. QED BY <2>1, SumEmpty
<1>2. ASSUME NEW m \in 0 .. n - 1, m \in C PROVE m + 1 \in C
  <2>1. /\ a + 1 \in Int /\ a + m \in Int /\ a + 1 <= (a + m) + 1
        /\ a + (m + 1) = (a + m) + 1 /\ m + 1 \in 0 .. n
    OBVIOUS
  <2>2. \A x \in a + 1 .. (a + m) + 1 : f[x] = c
    OBVIOUS
  <2>3. f[(a + m) + 1] = c
    BY <2>1, <2>2
  <2>4. SumFunctionOnSet(f, a + 1 .. (a + m) + 1)
          = SumFunctionOnSet(f, a + 1 .. a + m) + f[(a + m) + 1]
    BY <2>1, <2>2, SumNext
  <2>5. SumFunctionOnSet(f, a + 1 .. a + m) = m * c
    BY <1>2
  <2>6. m * c + c = (m + 1) * c
    OBVIOUS
  <2>7. QED BY <2>1, <2>3, <2>4, <2>5, <2>6
<1> HIDE DEF C
<1>3. \A m \in 0 .. n : m \in C
  BY <1>1, <1>2, NumberInduction
<1>4. n \in C
  BY <1>3
<1>5. QED BY <1>4 DEF C

-----------------------------------------------------------------------------
(* A slice.                                                                *)

\* It sells the next coins, all of one lot and of one sale.
LEMMA SliceSells ==
  ASSUME Account, Slice
  PROVE  LET lot  == lots[1]
             take == Take(lot)
         IN  /\ Applied' = Applied /\ Got' = Got /\ Left' = Left - take /\ Sold' = Sold + take
             /\ take \in 1 .. Left /\ take \in 1 .. lot.remaining
             /\ lot \in Lot /\ Sold \in Nat /\ Sold + take <= Got
             /\ \A k \in Sold + 1 .. Sold + take :
                  /\ PriceOf(Applied, "in", k) = lot.price
                  /\ PriceOf(Applied, "out", k) = Price(disposal.sale)
             /\ disposal.sale \in Sale /\ Sold + take <= Moved(Applied, "out", MaxTime)
<1> DEFINE lot  == lots[1]
           take == Take(lot)
<1>1. /\ lots \in Seq(Lot) /\ lots # <<>> /\ Len(lots) \in Nat \ {0} /\ lot = Head(lots)
      /\ lot \in Lot /\ disposal # None /\ TypeOK
  BY LenProperties, HeadTailProperties DEF Account, IInv, TypeOK, Slice
<1>2. /\ take \in 1 .. lot.remaining /\ disposal \in Disposal /\ take \in 1 .. disposal.left
  BY <1>1, TakeType
<1>3. Left = disposal.left /\ disposal.left \in Nat /\ disposal.sale \in Sale
  BY <1>1, <1>2 DEF Left, Disposal
<1>4. UNCHANGED <<events, todo>>
      /\ disposal' = IF take = disposal.left THEN None ELSE [disposal EXCEPT !.left = @ - take]
  BY <1>1 DEF Slice
<1>5. Applied' = Applied /\ Got' = Got
  BY <1>4 DEF Applied, Got
<1> HIDE DEF take
<1>6. Left' = Left - take
  <2>1. CASE take = disposal.left
    BY <1>2, <1>3, <1>4, <2>1 DEF Left
  <2>2. CASE take # disposal.left
    <3>1. disposal' = [disposal EXCEPT !.left = @ - take]
      BY <1>4, <2>2
    <3>2. disposal' \in Disposal /\ disposal'.left = disposal.left - take
      BY <1>2, <1>3, <2>2, <3>1 DEF Disposal
    <3>3. disposal' # None
      BY <3>2, LedgerAssumption
    <3>4. QED BY <1>3, <3>2, <3>3 DEF Left
  <2>3. QED BY <2>1, <2>2
<1>7. Moved(Applied, "out", MaxTime) \in Nat /\ Got \in Nat
  BY AppliedType DEF Account
<1>8. Sold' = Sold + take /\ Sold \in Int /\ Sold + take <= Moved(Applied, "out", MaxTime)
  BY <1>2, <1>3, <1>5, <1>6, <1>7 DEF Sold
<1>9. PICK s : Numbered(s)
  BY DEF Account
<1>10. 1 \in 1 .. Len(lots) /\ 1 \in 1 .. Len(lots) + 1 /\ 2 \in 1 .. Len(lots) + 1
  BY <1>1
<1>11. /\ s[1] = Sold /\ s[1] \in Nat /\ s[2] = Sold + lot.remaining /\ s[2] <= Got
       /\ \A k \in s[1] + 1 .. s[2] : PriceOf(Applied, "in", k) = lot.price
  <2>1. /\ s[1 + 1] = s[1] + lots[1].remaining
        /\ \A k \in s[1] + 1 .. s[1 + 1] : PriceOf(Applied, "in", k) = lots[1].price
    BY <1>9, <1>10 DEF Numbered
  <2>2. s[1] = Sold /\ s[1] \in Nat /\ s[2] <= Got
    BY <1>9, <1>10 DEF Numbered
  <2>3. QED BY <2>1, <2>2
<1>12. lot.remaining \in Nat
  BY <1>1, LedgerAssumption DEF Lot
<1>13. Sold + take <= Got
  BY <1>2, <1>7, <1>11, <1>12
<1>14. ASSUME NEW k \in Sold + 1 .. Sold + take
       PROVE  /\ PriceOf(Applied, "in", k) = lot.price
              /\ PriceOf(Applied, "out", k) = Price(disposal.sale)
  <2>1. k \in s[1] + 1 .. s[2] /\ k \in Sold + 1 .. Sold + Left
    BY <1>2, <1>3, <1>11, <1>12
  <2>2. QED BY <1>1, <1>11, <2>1 DEF Account, Selling
<1>15. QED
  <2>1. take \in 1 .. Left
    BY <1>2, <1>3
  <2>2. QED BY <1>1, <1>2, <1>3, <1>5, <1>6, <1>8, <1>11, <1>13, <1>14, <2>1 DEF take

\* The lots keep the coins that are not sold.
LEMMA SliceNumbers ==
  ASSUME Account, Slice
  PROVE  \E s : Numbered(s)'
<1> DEFINE n    == Len(lots)
           take == Take(lots[1])
<1>1. /\ lots \in Seq(Lot) /\ lots # <<>> /\ n \in Nat \ {0} /\ lots[1] = Head(lots)
      /\ DOMAIN lots = 1 .. n
  BY LenProperties, HeadTailProperties DEF Account, IInv, TypeOK, Slice
<1>2. /\ Applied' = Applied /\ Got' = Got /\ Sold' = Sold + take
      /\ take \in 1 .. lots[1].remaining /\ Sold \in Nat /\ lots[1] \in Lot
  BY SliceSells
<1>3. lots' = IF take = lots[1].remaining THEN Tail(lots)
              ELSE [lots EXCEPT ![1].remaining = @ - take]
  BY <1>1 DEF Slice
<1>4. lots[1].remaining \in Nat
  BY <1>2, LedgerAssumption DEF Lot
<1>5. \A k : PriceOf(Applied, "in", k)' = PriceOf(Applied, "in", k)
  BY <1>2
<1>6. PICK s : Numbered(s)
  BY DEF Account
<1>7. /\ s \in [1 .. n + 1 -> Nat] /\ s[1] = Sold /\ s[n + 1] = Got
      /\ \A i \in 1 .. n + 1 : s[i] <= Got
      /\ \A i \in 1 .. n : /\ s[i + 1] = s[i] + lots[i].remaining
                           /\ \A k \in s[i] + 1 .. s[i + 1] : PriceOf(Applied, "in", k) = lots[i].price
  BY <1>6 DEF Numbered
<1>8. 1 \in 1 .. n /\ s[2] = Sold + lots[1].remaining /\ s[2] <= Got /\ s[1] \in Nat
  <2>1. 1 \in 1 .. n /\ 2 \in 1 .. n + 1 /\ 1 \in 1 .. n + 1 /\ 1 + 1 = 2
    BY <1>1
  <2>2. QED BY <1>7, <2>1
<1> HIDE DEF n, take
<1>9. CASE take = lots[1].remaining
  <2>1. PICK r : r = [i \in 1 .. n |-> s[i + 1]]
    OBVIOUS
  <2>2. lots' = Tail(lots)
    BY <1>3, <1>9
  <2>3. Len(lots') = n - 1 /\ \A i \in 1 .. n - 1 : lots'[i] = lots[i + 1]
    BY <1>1, <2>2, HeadTailProperties DEF n
  <2>4. /\ r \in [1 .. n -> Nat] /\ r[1] = Sold' /\ r[n] = Got'
        /\ \A i \in 1 .. n : r[i] <= Got'
    <3>1. \A i \in 1 .. n : i + 1 \in 1 .. n + 1
      BY <1>1
    <3>2. r \in [1 .. n -> Nat]
      BY <1>7, <2>1, <3>1
    <3>3. r[1] = s[2] /\ r[n] = s[n + 1] /\ \A i \in 1 .. n : r[i] <= Got
      BY <1>1, <1>7, <1>8, <2>1, <3>1
    <3>4. QED BY <1>2, <1>7, <1>8, <1>9, <3>2, <3>3
  <2>5. ASSUME NEW i \in 1 .. n - 1
        PROVE  /\ r[i + 1] = r[i] + lots'[i].remaining
               /\ \A k \in r[i] + 1 .. r[i + 1] : PriceOf(Applied, "in", k)' = lots'[i].price
    <3>1. i + 1 \in 1 .. n /\ i \in 1 .. n
      BY <1>1
    <3>2. r[i] = s[i + 1] /\ r[i + 1] = s[(i + 1) + 1] /\ lots'[i] = lots[i + 1]
      BY <2>1, <2>3, <3>1
    <3>3. /\ s[(i + 1) + 1] = s[i + 1] + lots[i + 1].remaining
          /\ \A k \in s[i + 1] + 1 .. s[(i + 1) + 1] : PriceOf(Applied, "in", k) = lots[i + 1].price
      BY <1>7, <3>1
    <3>4. QED BY <1>5, <3>2, <3>3
  <2>6. Len(lots') + 1 = n
    BY <1>1, <2>3
  <2>7. Numbered(r)'
    BY <2>3, <2>4, <2>5, <2>6 DEF Numbered
  <2>8. QED BY <2>7
<1>10. CASE take # lots[1].remaining
  <2>1. PICK r : r = [s EXCEPT ![1] = Sold + take]
    OBVIOUS
  <2>2. PICK left : left = [lots[1] EXCEPT !.remaining = @ - take]
    OBVIOUS
  <2>3. lots' = [lots EXCEPT ![1] = left]
    BY <1>3, <1>10, <2>2
  <2>4. left.remaining = lots[1].remaining - take /\ left.price = lots[1].price /\ left \in Lot
    <3>1. lots[1].remaining - take \in 1 .. MaxSats
      <4>1. lots[1].remaining \in 1 .. MaxSats /\ MaxSats \in Nat
        BY <1>2, LedgerAssumption DEF Lot
      <4>2. QED BY <1>2, <1>10, <4>1
    <3>2. QED BY <1>2, <2>2, <3>1 DEF Lot
  <2>5. /\ Len(lots') = n /\ lots'[1] = left
        /\ \A i \in 1 .. n : i # 1 => lots'[i] = lots[i]
    <3>1. Len(lots') = Len(lots) /\ DOMAIN lots' = DOMAIN lots
      BY <1>1, <2>3, <2>4, ExceptSeq, LenProperties
    <3>2. QED BY <1>1, <1>8, <2>3, <3>1 DEF n
  <2>6. /\ r \in [1 .. n + 1 -> Nat] /\ r[1] = Sold + take
        /\ \A i \in 1 .. n + 1 : i # 1 => r[i] = s[i]
    <3>1. Sold + take \in Nat
      BY <1>2, <1>4
    <3>2. 1 \in 1 .. n + 1
      BY <1>1
    <3>3. QED BY <1>7, <2>1, <3>1, <3>2
  <2>7. r[1] = Sold' /\ r[n + 1] = Got' /\ \A i \in 1 .. n + 1 : r[i] <= Got'
    <3>1. n + 1 \in 1 .. n + 1 /\ n + 1 # 1
      BY <1>1
    <3>2. Sold + take <= Got
      BY SliceSells DEF take
    <3>3. QED BY <1>2, <1>7, <2>6, <3>1, <3>2
  <2>8. ASSUME NEW i \in 1 .. n
        PROVE  /\ r[i + 1] = r[i] + lots'[i].remaining
               /\ \A k \in r[i] + 1 .. r[i + 1] : PriceOf(Applied, "in", k)' = lots'[i].price
    <3>1. i + 1 \in 1 .. n + 1 /\ i + 1 # 1 /\ i \in 1 .. n + 1
      BY <1>1
    <3>2. r[i + 1] = s[i + 1]
      BY <2>6, <3>1
    <3>3. CASE i = 1
      <4>1. r[2] = s[2] /\ lots'[1].remaining = lots[1].remaining - take /\ lots'[1].price = lots[1].price
        BY <2>4, <2>5, <3>2, <3>3
      <4>2. r[2] = r[1] + lots'[1].remaining
        BY <1>2, <1>4, <1>8, <2>6, <4>1
      <4>3. \A k \in s[1] + 1 .. s[2] : PriceOf(Applied, "in", k) = lots[1].price
        BY <1>7, <1>8
      <4>4. \A k \in r[1] + 1 .. r[2] : k \in s[1] + 1 .. s[2]
        BY <1>2, <1>4, <1>7, <1>8, <2>6, <4>1
      <4>5. QED BY <1>5, <3>3, <4>1, <4>2, <4>3, <4>4
    <3>4. CASE i # 1
      <4>1. r[i] = s[i] /\ lots'[i] = lots[i]
        BY <2>5, <2>6, <3>1, <3>4
      <4>2. QED BY <1>5, <1>7, <3>2, <4>1
    <3>5. QED BY <3>3, <3>4
  <2>9. Numbered(r)'
    BY <2>5, <2>6, <2>7, <2>8 DEF Numbered
  <2>10. QED BY <2>9
<1>11. QED BY <1>9, <1>10

\* Its row of realised gain is what its coins have brought.
LEMMA SliceGains ==
  ASSUME Account, Slice
  PROVE  Gained'
<1> DEFINE lot  == lots[1]
           take == Take(lot)
           P    == Price(disposal.sale)
           G    == Gain(Applied)
           m    == Len(realised)
<1>1. /\ Applied' = Applied /\ Sold' = Sold + take /\ Sold \in Nat /\ take \in Nat
      /\ Sold + take <= Got /\ Sold + take <= Moved(Applied, "out", MaxTime)
      /\ \A k \in Sold + 1 .. Sold + take :
           /\ PriceOf(Applied, "in", k) = lot.price
           /\ PriceOf(Applied, "out", k) = Price(disposal.sale)
      /\ disposal.sale \in Sale /\ lot \in Lot /\ lot.price \in Nat
  <2>1. take \in 1 .. Left /\ lot \in Lot
    BY SliceSells
  <2>2. take \in Nat /\ lot.price \in Nat
    BY <2>1 DEF Lot
  <2>3. QED BY <2>1, <2>2, SliceSells
<1>2. P \in Nat
  BY <1>1, PriceType DEF Event
<1>3. Applied \in SUBSET Event /\ IsFiniteSet(Applied) /\ Got \in Nat
      /\ Moved(Applied, "out", MaxTime) \in Nat
  BY AppliedType DEF Account
<1>4. /\ realised \in Seq(Row) /\ m \in Nat /\ DOMAIN realised = 1 .. m
      /\ \A i \in 1 .. m : realised[i].gain \in Int
  <2>1. realised \in Seq(Row)
    BY DEF Account, IInv, TypeOK
  <2>2. m \in Nat /\ DOMAIN realised = 1 .. m /\ \A i \in 1 .. m : realised[i] \in Row
    BY <2>1, LenProperties
  <2>3. QED BY <2>1, <2>2 DEF Row
<1>5. PICK row : row = Realise(lot)
  OBVIOUS
<1>6. row \in Row /\ row.gain = take * P - take * lot.price
  <2>1. TypeOK /\ disposal # None
    BY DEF Account, IInv, Slice
  <2>2. row \in Row
    BY <1>1, <1>5, <2>1, TakeType
  <2>3. QED BY <1>5, <2>2 DEF Realise
<1>7. realised' = Append(realised, row)
  <2>1. lots \in Seq(Lot) /\ lots # <<>>
    BY DEF Account, IInv, TypeOK, Slice
  <2>2. lot = Head(lots)
    BY <2>1, HeadTailProperties
  <2>3. QED BY <1>5, <2>2 DEF Slice
<1>8. /\ Len(realised') = m + 1 /\ DOMAIN realised' = 1 .. m + 1 /\ realised'[m + 1] = row
      /\ \A i \in 1 .. m : realised'[i] = realised[i]
  <2>1. realised' \in Seq(Row)
    BY <1>4, <1>6, <1>7, AppendProperties
  <2>2. QED BY <1>4, <1>6, <1>7, <2>1, AppendProperties, LenProperties
<1> HIDE DEF take, P, m
<1>9. ASSUME NEW k \in 1 .. Sold + take PROVE G[k] \in Int
  <2>1. k \in 1 .. Got /\ k \in 1 .. Moved(Applied, "out", MaxTime) /\ k \in Nat
    BY <1>1, <1>3
  <2>2. PriceOf(Applied, "in", k) \in Nat /\ PriceOf(Applied, "out", k) \in Nat
    BY <1>3, <2>1, PriceOfType DEF Got
  <2>3. G[k] = PriceOf(Applied, "out", k) - PriceOf(Applied, "in", k)
    BY <2>1 DEF Gain
  <2> HIDE DEF G
  <2>4. QED BY <2>2, <2>3
<1>10. ASSUME NEW k \in Sold + 1 .. Sold + take PROVE G[k] = P - lot.price
  <2>1. k \in Nat
    BY <1>1
  <2>2. G[k] = PriceOf(Applied, "out", k) - PriceOf(Applied, "in", k)
    BY <2>1 DEF Gain
  <2> HIDE DEF G
  <2>3. QED BY <1>1, <2>2 DEF P
<1> HIDE DEF G, lot
<1>11. SumFunctionOnSet(G, 1 .. Sold + take)
         = SumFunctionOnSet(G, 1 .. Sold) + take * (P - lot.price)
  <2>1. SumFunctionOnSet(G, Sold + 1 .. Sold + take) = take * (P - lot.price)
    <3>1. Sold \in Int /\ P - lot.price \in Int
      BY <1>1, <1>2
    <3>2. QED BY <1>1, <1>10, <3>1, SumConstant
  <2>2. SumFunctionOnSet(G, 1 .. Sold + take)
          = SumFunctionOnSet(G, 1 .. Sold) + SumFunctionOnSet(G, Sold + 1 .. Sold + take)
    <3>1. 1 \in Int /\ Sold \in Int /\ Sold + take \in Int /\ 1 <= Sold + 1 /\ Sold <= Sold + take
      BY <1>1
    <3>2. QED BY <1>9, <3>1, SumSplit
  <2>3. QED BY <2>1, <2>2
<1>12. PICK f : f = [i \in DOMAIN realised |-> realised[i].gain]
  OBVIOUS
<1>13. PICK g : g = [i \in DOMAIN realised' |-> realised'[i].gain]
  OBVIOUS
<1>14. SumFunctionOnSet(f, 1 .. m) = SumFunctionOnSet(G, 1 .. Sold)
  BY <1>4, <1>12 DEF Account, Gained, G
<1>15. /\ \A i \in 1 .. m : f[i] \in Int /\ f[i] = g[i]
       /\ g[m + 1] = row.gain /\ row.gain \in Int
  <2>1. \A i \in 1 .. m : i \in 1 .. m + 1
    BY <1>4
  <2>2. m + 1 \in 1 .. m + 1
    BY <1>4
  <2>3. row.gain \in Int
    BY <1>6 DEF Row
  <2>4. QED BY <1>4, <1>8, <1>12, <1>13, <2>1, <2>2, <2>3
<1>16. SumFunctionOnSet(g, 1 .. m + 1) = SumFunctionOnSet(f, 1 .. m) + row.gain
  <2>1. 1 \in Int /\ m \in Int /\ 1 <= m + 1
    BY <1>4
  <2>2. \A i \in 1 .. m + 1 : g[i] \in Int
    <3>1. \A i \in 1 .. m + 1 : i \in 1 .. m \/ i = m + 1
      BY <1>4
    <3>2. QED BY <1>15, <3>1
  <2>3. SumFunctionOnSet(g, 1 .. m + 1) = SumFunctionOnSet(g, 1 .. m) + g[m + 1]
    BY <2>1, <2>2, SumNext
  <2>4. SumFunctionOnSet(g, 1 .. m) = SumFunctionOnSet(f, 1 .. m)
    <3>1. IsFiniteSet(1 .. m)
      BY <2>1, Interval
    <3>2. QED BY <1>15, <3>1, SumSame
  <2>5. QED BY <1>15, <2>3, <2>4
<1>17. take * (P - lot.price) = row.gain
  <2>1. take \in Int /\ P \in Int /\ lot.price \in Int
    BY <1>1, <1>2
  <2>2. QED BY <1>6, <2>1
<1>18. SumFunctionOnSet(g, DOMAIN realised') = SumFunctionOnSet(G, 1 .. Sold + take)
  BY <1>8, <1>11, <1>14, <1>16, <1>17
<1>19. QED BY <1>1, <1>13, <1>18 DEF Gained, G, Gain

LEMMA SliceAccounts ==
  ASSUME Account, Slice
  PROVE  Account'
<1> DEFINE take == Take(lots[1])
<1>1. /\ Applied' = Applied /\ Got' = Got /\ Left' = Left - take /\ Sold' = Sold + take
      /\ take \in 1 .. Left /\ Sold \in Nat /\ Sold + take <= Got /\ disposal.sale \in Sale
      /\ Sold + take <= Moved(Applied, "out", MaxTime)
  BY SliceSells
<1>2. disposal # None /\ UNCHANGED <<reader, events, todo, status>> /\ status = "running"
      /\ (disposal' # None => disposal' = [disposal EXCEPT !.left = @ - Take(Head(lots))])
  BY DEF Slice
<1>3. disposal' # None => disposal'.sale = disposal.sale
  <2>1. disposal \in Disposal
    BY <1>2 DEF Account, IInv, TypeOK
  <2>2. QED BY <1>2, <2>1 DEF Disposal
<1>4. /\ Left \in Nat /\ Got \in Nat /\ \A kind, t : Moved(Applied, kind, t) \in Nat
      /\ Applied \in SUBSET Event
  BY AppliedType DEF Account
<1>5. /\ disposal.sale \in Applied /\ \A e \in Applied : e.time <= disposal.sale.time
      /\ \A k \in Sold + 1 .. Sold + Left : PriceOf(Applied, "out", k) = Price(disposal.sale)
  BY <1>2 DEF Account, Selling
<1> HIDE DEF take
<1>6. Selling'
  <2>1. \A k \in (Sold + take) + 1 .. (Sold + take) + (Left - take) : k \in Sold + 1 .. Sold + Left
    BY <1>1, <1>4
  <2>2. QED BY <1>1, <1>3, <1>5, <2>1 DEF Selling
<1>7. Enough'
  <2>1. \A t : /\ Moved(Applied, "out", t)' = Moved(Applied, "out", t)
               /\ Moved(Applied, "in", t)' = Moved(Applied, "in", t)
    BY <1>1
  <2>2. ASSUME NEW t \in Times
        PROVE  Moved(Applied, "out", t)
                 - (IF disposal' # None /\ disposal'.sale.time <= t THEN Left' ELSE 0)
                 <= Moved(Applied, "in", t)
    <3>1. CASE disposal.sale.time <= t
      <4>1. \A e \in Applied : e.time <= t
        <5>1. \A e \in Applied : e.time \in Nat
          BY <1>4, EventType
        <5>2. disposal.sale.time \in Nat /\ t \in Nat
          BY <1>5, <5>1 DEF Times
        <5>3. QED BY <1>5, <3>1, <5>1, <5>2
      <4>2. /\ Moved(Applied, "out", t) = Moved(Applied, "out", MaxTime)
            /\ Moved(Applied, "in", t) = Got
        BY <1>4, <4>1, MovedAll DEF Got
      <4>3. Moved(Applied, "out", MaxTime) = (Sold + take) + Left'
        <5>1. Sold = Moved(Applied, "out", MaxTime) - Left
          BY DEF Sold
        <5>2. QED BY <1>1, <1>4, <5>1
      <4>4. CASE disposal' = None
        <5>1. Left' = 0
          BY <4>4 DEF Left
        <5>2. QED BY <1>1, <1>4, <4>2, <4>3, <4>4, <5>1
      <4>5. CASE disposal' # None
        BY <1>1, <1>3, <1>4, <3>1, <4>2, <4>3, <4>5
      <4>6. QED BY <4>4, <4>5
    <3>2. CASE ~ (disposal.sale.time <= t)
      <4>1. Moved(Applied, "out", t) <= Moved(Applied, "in", t)
        BY <1>4, <3>2 DEF Account, Enough
      <4>2. QED BY <1>3, <1>4, <3>2, <4>1
    <3>3. QED BY <3>1, <3>2
  <2>3. QED BY <2>1, <2>2 DEF Enough
<1>8. InOrder' /\ Stopped' /\ IsFiniteSet(events)'
  BY <1>1, <1>2 DEF Account, InOrder, Before, Stopped
<1>9. IInv'
  BY StepPreserves DEF Account, Next
<1>10. QED BY <1>6, <1>7, <1>8, <1>9, SliceGains, SliceNumbers DEF Account

LEMMA RestAccounts ==
  ASSUME Account, UNCHANGED <<reader, events, todo, lots, realised, disposal>>, IInv', Stopped'
  PROVE  Account'
<1>1. Applied' = Applied /\ Left' = Left /\ Got' = Got /\ Sold' = Sold
  BY DEF Applied, Left, Got, Sold
<1>2. InOrder' /\ Selling' /\ Gained' /\ Enough' /\ IsFiniteSet(events)'
  BY <1>1 DEF Account, InOrder, Before, Selling, Gained, Enough
<1>3. PICK s : Numbered(s)
  BY DEF Account
<1>4. Numbered(s)'
  BY <1>1, <1>3 DEF Numbered
<1>5. QED BY <1>2, <1>4 DEF Account

LEMMA AccountStep ==
  ASSUME Account, [Next]_vars
  PROVE  Account'
<1>1. IInv'
  BY StepPreserves DEF Account
<1>2. CASE \E e \in todo : ApplyIn(e) \/ ApplyOut(e)
  BY <1>2, BuyAccounts, SaleAccounts
<1>3. CASE Slice
  BY <1>3, SliceAccounts
<1>4. CASE Underflow
  BY <1>1, <1>4, RestAccounts DEF Underflow, Account, Stopped
<1>5. CASE EndOfDay
  BY <1>1, <1>5, RestAccounts DEF EndOfDay, Account, Stopped
<1>6. CASE Finish
  BY <1>1, <1>6, RestAccounts DEF Finish, Account, Stopped
<1>7. CASE UNCHANGED vars
  BY <1>1, <1>7, RestAccounts DEF vars, Account, Stopped
<1>8. QED BY <1>2, <1>3, <1>4, <1>5, <1>6, <1>7 DEF Next

\* A sale finds no lot: what it sells is beyond what its block and those
\* before it have brought.
LEMMA RaisedIsShort ==
  ASSUME Account, status = "raised"
  PROVE  Short \/ (reader = "daily_series" /\ SharedBlock)
<1> DEFINE sale == disposal.sale
           t    == sale.time
<1>1. disposal # None /\ lots = <<>> /\ disposal \in Disposal
  BY DEF Account, Stopped, IInv, TypeOK
<1>2. /\ sale \in Applied /\ \A e \in Applied : e.time <= t
      /\ Left \in Nat \ {0} /\ Applied \in SUBSET events /\ events \in SUBSET Event
      /\ IsFiniteSet(events) /\ todo = events \ Applied /\ sale.kind = "out"
  BY <1>1 DEF Account, Selling, Left, Disposal, Applied, IInv, TypeOK, Sale
<1>3. t \in Times
  BY <1>2, EventType
<1>4. Got \in Nat /\ Applied \in SUBSET Event /\ IsFiniteSet(Applied)
      /\ \A kind, u : Moved(Applied, kind, u) \in Nat
  BY AppliedType DEF Account
<1>5. Sold = Got
  <2>1. PICK s : Numbered(s)
    BY DEF Account
  <2>2. Len(lots) + 1 = 1
    BY <1>1
  <2>3. QED BY <2>1, <2>2 DEF Numbered
<1>6. Moved(Applied, "out", t) > Moved(Applied, "in", t)
  <2>1. Moved(Applied, "out", t) = Moved(Applied, "out", MaxTime) /\ Moved(Applied, "in", t) = Got
    BY <1>2, <1>3, <1>4, MovedAll DEF Got
  <2>2. Sold = Moved(Applied, "out", MaxTime) - Left
    BY DEF Sold
  <2>3. QED BY <1>2, <1>4, <1>5, <2>1, <2>2
<1>7. Moved(Applied, "out", t) <= Moved(events, "out", t)
  BY <1>2, MovedMore
<1>8. CASE \E e \in todo : e.kind = "in" /\ e.time <= t
  <2>1. PICK e \in todo : e.kind = "in" /\ e.time <= t
    BY <1>8
  <2>2. ~ Before(e, sale)
    BY <1>2 DEF Account, InOrder
  <2>3. e.time \in Nat /\ t \in Nat /\ e \in events /\ sale \in events
    BY <1>2, EventType
  <2>4. reader # "replay" /\ e.time = t
    BY <1>2, <2>1, <2>2, <2>3 DEF Before
  <2>5. reader = "daily_series"
    BY <2>4, LedgerAssumption DEF Account, IInv, TypeOK
  <2>6. SharedBlock
    BY <1>2, <2>1, <2>3, <2>4 DEF SharedBlock
  <2>7. QED BY <2>5, <2>6
<1>9. CASE ~ \E e \in todo : e.kind = "in" /\ e.time <= t
  <2>1. UpTo(events, "in", t) = UpTo(Applied, "in", t)
    BY <1>2, <1>9 DEF UpTo
  <2>2. Moved(events, "in", t) = Moved(Applied, "in", t)
    BY <2>1 DEF Moved
  <2>3. Moved(events, "in", t) \in Nat /\ Moved(events, "out", t) \in Nat
    BY <1>2, MovedNatural
  <2> HIDE DEF t
  <2>4. Disposed(events, t) > Received(events, t)
    BY <1>2, <1>4, <1>6, <1>7, <2>2, <2>3, MovedTotals
  <2>5. QED BY <1>3, <2>4 DEF Short
<1>10. QED BY <1>8, <1>9

\* Everything has been sold from what there was.
LEMMA DoneIsEnough ==
  ASSUME Account, status = "done", reader = "replay"
  PROVE  ~ Short
<1>1. todo = {} /\ disposal = None /\ events \in SUBSET Event /\ IsFiniteSet(events)
  BY DEF Account, Stopped, IInv, TypeOK
<1>2. Applied = events
  BY <1>1 DEF Applied
<1>3. ASSUME NEW t \in Times PROVE ~ (Disposed(events, t) > Received(events, t))
  <2>1. Moved(events, "out", t) \in Nat /\ Moved(events, "in", t) \in Nat
    BY <1>1, MovedNatural
  <2>2. Moved(events, "out", t) <= Moved(events, "in", t)
    BY <1>1, <1>2, <2>1 DEF Account, Enough
  <2>3. QED BY <1>1, <2>1, <2>2, MovedTotals
<1>4. QED BY <1>3 DEF Short

(* The replay fails on exactly the histories that are not complete; the    *)
(* chart may fail on one that is, when a block has a buy and a sale.  This *)
(* is about the error of apply_external_out and the two orders of events.  *)
THEOREM RaisesOnlyWhenShort == Spec => []RaisesIffShort
<1>1. Init => Account
  BY InitAccount
<1>2. Account /\ [Next]_vars => Account'
  BY AccountStep
<1>3. Account => RaisesIffShort
  BY RaisedIsShort, DoneIsEnough DEF RaisesIffShort
<1>4. QED BY <1>1, <1>2, <1>3, PTL DEF Spec

-----------------------------------------------------------------------------
(* The figures.                                                            *)

\* What the lots hold, what that cost, and the price of each coin.
Amounts == [i \in DOMAIN lots |-> lots[i].remaining]
Costs   == [i \in DOMAIN lots |-> lots[i].remaining * lots[i].price]
Prices  == [k \in Nat |-> PriceOf(Applied, "in", k)]

\* The lots add up to the coins that are not sold, and so do their costs.
LEMMA LotsAddUp ==
  ASSUME Account
  PROVE  /\ SumFunctionOnSet(Amounts, DOMAIN lots) = Got - Sold
         /\ SumFunctionOnSet(Costs, DOMAIN lots) = SumFunctionOnSet(Prices, Sold + 1 .. Got)
         /\ Sold \in Nat /\ Sold <= Got
<1> DEFINE n == Len(lots)
<1>1. n \in Nat /\ DOMAIN lots = 1 .. n /\ \A i \in 1 .. n : lots[i] \in Lot
  <2>1. lots \in Seq(Lot)
    BY DEF Account, IInv, TypeOK
  <2>2. QED BY <2>1, LenProperties
<1>2. \A i \in 1 .. n : lots[i].remaining \in Nat /\ lots[i].price \in Nat
  BY <1>1, LedgerAssumption DEF Lot
<1>3. Got \in Nat /\ Applied \in SUBSET Event /\ IsFiniteSet(Applied)
  BY AppliedType DEF Account
<1>4. PICK s : Numbered(s)
  BY DEF Account
<1> HIDE DEF n
<1>5. /\ s \in [1 .. n + 1 -> Nat] /\ s[1] = Sold /\ s[n + 1] = Got
      /\ \A i \in 1 .. n + 1 : s[i] <= Got
      /\ \A i \in 1 .. n : /\ s[i + 1] = s[i] + lots[i].remaining
                           /\ \A k \in s[i] + 1 .. s[i + 1] : PriceOf(Applied, "in", k) = lots[i].price
  BY <1>4 DEF Numbered, n
<1>6. Sold \in Nat
  <2>1. 1 \in 1 .. n + 1
    BY <1>1
  <2>2. QED BY <1>5, <2>1
<1>7. \A k \in Sold + 1 .. Got : Prices[k] \in Int
  <2>1. ASSUME NEW k \in Sold + 1 .. Got PROVE Prices[k] \in Int
    <3>1. k \in 1 .. Got /\ k \in Nat
      BY <1>3, <1>6
    <3>2. PriceOf(Applied, "in", k) \in Nat
      BY <1>3, <3>1, PriceOfType DEF Got
    <3>3. QED BY <3>1, <3>2 DEF Prices
  <2>2. QED BY <2>1
<1> DEFINE C == {m \in 0 .. n :
                   /\ Sold <= s[m + 1]
                   /\ SumFunctionOnSet(Amounts, 1 .. m) = s[m + 1] - Sold
                   /\ SumFunctionOnSet(Costs, 1 .. m) = SumFunctionOnSet(Prices, Sold + 1 .. s[m + 1])}
<1>8. 0 \in C
  <2>1. 1 .. 0 = {} /\ Sold + 1 .. Sold = {} /\ s[0 + 1] = Sold /\ Sold - Sold = 0 /\ 0 \in 0 .. n
    BY <1>1, <1>5, <1>6
  <2>2. /\ SumFunctionOnSet(Amounts, {}) = 0 /\ SumFunctionOnSet(Costs, {}) = 0
        /\ SumFunctionOnSet(Prices, {}) = 0
    BY SumEmpty
  <2>3. QED BY <1>6, <2>1, <2>2
<1>9. ASSUME NEW m \in 0 .. n - 1, m \in C PROVE m + 1 \in C
  <2>1. m + 1 \in 1 .. n /\ m \in Nat /\ m + 1 \in 0 .. n /\ m + 1 \in 1 .. n + 1
        /\ (m + 1) + 1 \in 1 .. n + 1
    BY <1>1
  <2>2. PICK a : a = s[m + 1]
    OBVIOUS
  <2>3. PICK b : b = s[(m + 1) + 1]
    OBVIOUS
  <2>4. PICK q : q = lots[m + 1].remaining
    OBVIOUS
  <2>5. PICK p : p = lots[m + 1].price
    OBVIOUS
  <2>6. /\ a \in Nat /\ b \in Nat /\ b <= Got /\ q \in Nat /\ p \in Nat /\ b = a + q
        /\ \A k \in a + 1 .. a + q : PriceOf(Applied, "in", k) = p
    BY <1>2, <1>5, <2>1, <2>2, <2>3, <2>4, <2>5
  <2>7. /\ Sold <= a
        /\ SumFunctionOnSet(Amounts, 1 .. m) = a - Sold
        /\ SumFunctionOnSet(Costs, 1 .. m) = SumFunctionOnSet(Prices, Sold + 1 .. a)
    BY <1>9, <2>2
  <2> HIDE DEF C
  <2>8. Amounts[m + 1] = q /\ Costs[m + 1] = q * p /\ q * p \in Int
    <3>1. Amounts[m + 1] = q /\ Costs[m + 1] = q * p
      BY <1>1, <2>1, <2>4, <2>5 DEF Amounts, Costs
    <3>2. QED BY <2>6, <3>1
  <2>9. \A i \in 1 .. m + 1 : Amounts[i] \in Int /\ Costs[i] \in Int
    <3>1. ASSUME NEW i \in 1 .. n PROVE Amounts[i] \in Int /\ Costs[i] \in Int
      <4>1. Amounts[i] = lots[i].remaining /\ Costs[i] = lots[i].remaining * lots[i].price
        BY <1>1 DEF Amounts, Costs
      <4>2. lots[i].remaining \in Int /\ lots[i].price \in Int
        BY <1>2
      <4>3. QED BY <4>1, <4>2
    <3>2. \A i \in 1 .. m + 1 : i \in 1 .. n
      BY <1>1, <2>1
    <3>3. QED BY <3>1, <3>2
  <2>10. /\ SumFunctionOnSet(Amounts, 1 .. m + 1) = SumFunctionOnSet(Amounts, 1 .. m) + q
         /\ SumFunctionOnSet(Costs, 1 .. m + 1) = SumFunctionOnSet(Costs, 1 .. m) + q * p
    <3>1. 1 \in Int /\ m \in Int /\ 1 <= m + 1
      BY <2>1
    <3>2. QED BY <2>8, <2>9, <3>1, SumNext
  <2>11. SumFunctionOnSet(Prices, a + 1 .. a + q) = q * p
    <3>1. \A k \in a + 1 .. a + q : Prices[k] = p
      <4>1. \A k \in a + 1 .. a + q : k \in Nat
        BY <2>6
      <4>2. QED BY <2>6, <4>1 DEF Prices
    <3>2. a \in Int /\ p \in Int /\ q \in Nat
      BY <2>6
    <3>3. QED BY <3>1, <3>2, SumConstant
  <2>12. SumFunctionOnSet(Prices, Sold + 1 .. b)
           = SumFunctionOnSet(Prices, Sold + 1 .. a) + SumFunctionOnSet(Prices, a + 1 .. b)
    <3>1. Sold + 1 \in Int /\ a \in Int /\ b \in Int /\ Sold + 1 <= a + 1 /\ a <= b
      BY <1>6, <2>6, <2>7
    <3>2. \A k \in Sold + 1 .. b : Prices[k] \in Int
      BY <1>3, <1>6, <1>7, <2>6
    <3>3. QED BY <3>1, <3>2, SumSplit
  <2>13. Sold <= b /\ (a - Sold) + q = b - Sold
    BY <1>6, <2>6, <2>7
  <2>14. QED BY <2>1, <2>3, <2>6, <2>7, <2>10, <2>11, <2>12, <2>13 DEF C
<1> HIDE DEF C
<1>10. n \in C
  <2>1. \A m \in 0 .. n : m \in C
    BY <1>1, <1>8, <1>9, NumberInduction
  <2>2. QED BY <1>1, <2>1
<1>11. QED BY <1>1, <1>5, <1>6, <1>10 DEF C

\* Between two events the figures are those of FIFO for the events applied.
LEMMA TotalsAreFifo ==
  ASSUME Account, disposal = None
  PROVE  Totals = Fifo(Applied)
<1>3. PICK gains : gains = [i \in DOMAIN realised |-> realised[i].gain]
  OBVIOUS
<1>5. Totals = [sats  |-> SumFunctionOnSet(Amounts, DOMAIN lots),
                basis |-> SumFunctionOnSet(Costs, DOMAIN lots),
                gain  |-> SumFunctionOnSet(gains, DOMAIN realised)]
  <2>1. DOMAIN Amounts = DOMAIN lots /\ DOMAIN Costs = DOMAIN lots /\ DOMAIN gains = DOMAIN realised
    BY <1>3 DEF Amounts, Costs
  <2>2. Totals = [sats |-> SumFunction(Amounts), basis |-> SumFunction(Costs), gain |-> SumFunction(gains)]
    BY <1>3 DEF Totals, Amounts, Costs
  <2>3. QED BY <2>1, <2>2 DEF SumFunction
<1>6. /\ Applied \in SUBSET Event /\ IsFiniteSet(Applied) /\ Got \in Nat
      /\ Moved(Applied, "out", MaxTime) \in Nat
  BY AppliedType DEF Account
<1>7. Moved(Applied, "out", MaxTime) = Sold
  BY <1>6 DEF Sold, Left
<1>8. Received(Applied, MaxTime) = Got /\ Disposed(Applied, MaxTime) = Sold
  BY <1>6, <1>7, MovedTotals DEF Got
<1>9. /\ SumFunctionOnSet(Amounts, DOMAIN lots) = Got - Sold
      /\ SumFunctionOnSet(Costs, DOMAIN lots) = SumFunctionOnSet(Prices, Sold + 1 .. Got)
      /\ Sold \in Nat /\ Sold <= Got
  BY LotsAddUp
<1>10. PICK bought : bought = [k \in Sold + 1 .. Got |-> BuyPrice(Applied, k)]
  OBVIOUS
<1>11. PICK brought : brought = [k \in 1 .. Sold |-> SalePrice(Applied, k) - BuyPrice(Applied, k)]
  OBVIOUS
<1>12. Fifo(Applied) = [sats  |-> Got - Sold,
                        basis |-> SumFunctionOnSet(bought, Sold + 1 .. Got),
                        gain  |-> SumFunctionOnSet(brought, 1 .. Sold)]
  <2>1. DOMAIN bought = Sold + 1 .. Got /\ DOMAIN brought = 1 .. Sold
    BY <1>10, <1>11
  <2>2. QED BY <1>8, <1>10, <1>11, <2>1 DEF Fifo, SumFunction
<1>13. SumFunctionOnSet(bought, Sold + 1 .. Got) = SumFunctionOnSet(Prices, Sold + 1 .. Got)
  <2>1. ASSUME NEW k \in Sold + 1 .. Got PROVE bought[k] \in Int /\ bought[k] = Prices[k]
    <3>1. k \in 1 .. Got /\ k \in Nat
      BY <1>6, <1>9
    <3>2. PriceOf(Applied, "in", k) \in Nat /\ BuyPrice(Applied, k) = PriceOf(Applied, "in", k)
      BY <1>6, <3>1, PriceOfType, PricesOf DEF Got
    <3>3. QED BY <1>10, <3>1, <3>2 DEF Prices
  <2>2. IsFiniteSet(Sold + 1 .. Got)
    <3>1. Sold + 1 \in Int /\ Got \in Int
      BY <1>6, <1>9
    <3>2. QED BY <3>1, Interval
  <2>3. QED BY <2>1, <2>2, SumSame
<1>14. SumFunctionOnSet(brought, 1 .. Sold) = SumFunctionOnSet(gains, DOMAIN realised)
  <2>1. PICK gain : gain = Gain(Applied)
    OBVIOUS
  <2>2. ASSUME NEW k \in 1 .. Sold PROVE brought[k] \in Int /\ brought[k] = gain[k]
    <3>1. k \in 1 .. Got /\ k \in Nat /\ k \in 1 .. Moved(Applied, "out", MaxTime)
      BY <1>6, <1>7, <1>9
    <3>2. /\ PriceOf(Applied, "in", k) \in Nat /\ BuyPrice(Applied, k) = PriceOf(Applied, "in", k)
          /\ PriceOf(Applied, "out", k) \in Nat /\ SalePrice(Applied, k) = PriceOf(Applied, "out", k)
      BY <1>6, <3>1, PriceOfType, PricesOf DEF Got
    <3>3. gain[k] = PriceOf(Applied, "out", k) - PriceOf(Applied, "in", k)
      BY <2>1, <3>1 DEF Gain
    <3>4. brought[k] = PriceOf(Applied, "out", k) - PriceOf(Applied, "in", k)
      BY <1>11, <3>2
    <3>5. QED BY <3>2, <3>3, <3>4
  <2>3. IsFiniteSet(1 .. Sold)
    <3>1. 1 \in Int /\ Sold \in Int
      BY <1>9
    <3>2. QED BY <3>1, Interval
  <2>4. SumFunctionOnSet(brought, 1 .. Sold) = SumFunctionOnSet(gain, 1 .. Sold)
    BY <2>2, <2>3, SumSame
  <2>5. SumFunctionOnSet(gains, DOMAIN realised) = SumFunctionOnSet(gain, 1 .. Sold)
    BY <1>3, <2>1 DEF Account, Gained
  <2>6. QED BY <2>4, <2>5
<1>15. QED BY <1>5, <1>9, <1>12, <1>13, <1>14

(* However the blocks of a complete history are ordered inside, and        *)
(* however its sales fall across the lots, the holdings, cost basis and    *)
(* realised gain at the end are FIFO's.  This is about replay, apply_      *)
(* external_in and apply_external_out.                                     *)
THEOREM FiguresAreThoseOfFifo == Spec => []FiguresAreFifo
<1>1. Init => Account
  BY InitAccount
<1>2. Account /\ [Next]_vars => Account'
  BY AccountStep
<1>3. Account => FiguresAreFifo
  <2> SUFFICES ASSUME Account, reader = "replay", status = "done" PROVE Totals = Fifo(events)
    BY DEF FiguresAreFifo
  <2>1. todo = {} /\ disposal = None
    BY DEF Account, Stopped
  <2>2. Applied = events
    BY <2>1 DEF Applied
  <2>3. QED BY <2>1, <2>2, TotalsAreFifo
<1>4. QED BY <1>1, <1>2, <1>3, PTL DEF Spec

-----------------------------------------------------------------------------
(* The chart.                                                              *)

\* The events up to the end of a day, and the figures at the end of each.
UpToDay(d) == {e \in events : DayOf[e.time] <= d}
Points == {Fifo(UpToDay(d)) : d \in Nat}

\* The walk is at the day after its last point, and no event of a later day
\* has been applied.
Charted ==
  /\ chart \in Seq(Points)
  /\ \A i \in DOMAIN chart : chart[i] = Fifo(UpToDay(FirstDay + i - 1))
  /\ (reader = "daily_series" /\ events # {}) =>
       /\ day = FirstDay + Len(chart)
       /\ \A e \in Applied : DayOf[e.time] <= day

LEMMA InitCharted == Init => Charted
<1> SUFFICES ASSUME Init PROVE Charted
  OBVIOUS
<1>1. chart = <<>> /\ Applied = {} /\ Len(chart) = 0 /\ DOMAIN chart = {}
  BY DEF Init, Applied
<1>2. chart \in Seq(Points)
  BY <1>1
<1>3. ASSUME events # {} PROVE day = FirstDay + Len(chart)
  <2>1. events \subseteq Event
    BY LedgerAssumption DEF Init
  <2>2. FirstDay \in Nat
    BY <1>3, <2>1, FirstDayType, LedgerAssumption DEF Days
  <2>3. day = FirstDay
    BY <1>3 DEF Init
  <2>4. QED BY <1>1, <2>2, <2>3
<1>4. QED BY <1>1, <1>2, <1>3 DEF Charted

\* A day ends: all its events and no later ones are applied.
LEMMA DayEnds ==
  ASSUME Account, Charted, EndOfDay
  PROVE  Charted'
<1> DEFINE n == Len(chart)
<1>1. /\ UNCHANGED <<reader, events, todo>> /\ events # {} /\ disposal = None
      /\ reader = "daily_series" /\ day' = day + 1
      /\ \A e \in todo : DayOf[e.time] > day
  BY DEF EndOfDay
<1>2. FirstDay' = FirstDay /\ Applied' = Applied /\ Points' = Points
      /\ \A d : UpToDay(d)' = UpToDay(d)
  BY <1>1 DEF FirstDay, Applied, Points, UpToDay
<1>3. events \subseteq Event /\ todo \subseteq events
  BY DEF Account, IInv, TypeOK
<1>4. FirstDay \in Nat
  BY <1>1, <1>3, FirstDayType, LedgerAssumption DEF Days
<1>5. \A e \in events : DayOf[e.time] \in Nat
  BY <1>3, EventType, LedgerAssumption
<1>6. n \in Nat /\ day = FirstDay + n /\ (\A e \in Applied : DayOf[e.time] <= day) /\ chart \in Seq(Points)
      /\ DOMAIN chart = 1 .. n /\ \A i \in 1 .. n : chart[i] = Fifo(UpToDay(FirstDay + i - 1))
  BY <1>1, LenProperties DEF Charted
<1>7. Applied = UpToDay(day)
  <2>1. \A e \in events : e \in Applied <=> DayOf[e.time] <= day
    <3>1. \A e \in events : e \in Applied \/ e \in todo
      BY DEF Applied
    <3>2. day \in Nat
      BY <1>4, <1>6
    <3>3. \A e \in todo : ~ (DayOf[e.time] <= day)
      BY <1>1, <1>3, <1>5, <3>2
    <3>4. QED BY <1>6, <3>1, <3>3
  <2>2. QED BY <2>1 DEF UpToDay, Applied
<1>8. PICK point : point = Totals
  OBVIOUS
<1>9. point = Fifo(UpToDay(day)) /\ point \in Points
  <2>1. point = Fifo(UpToDay(day))
    BY <1>1, <1>7, <1>8, TotalsAreFifo
  <2>2. day \in Nat
    BY <1>4, <1>6
  <2>3. QED BY <2>1, <2>2 DEF Points
<1>10. chart' = Append(chart, point)
  BY <1>8 DEF EndOfDay
<1> HIDE DEF n
<1>11. /\ chart' \in Seq(Points) /\ Len(chart') = n + 1 /\ DOMAIN chart' = 1 .. n + 1
       /\ chart'[n + 1] = point /\ \A i \in 1 .. n : chart'[i] = chart[i]
  <2>1. chart' \in Seq(Points)
    BY <1>6, <1>9, <1>10, AppendProperties
  <2>2. QED BY <1>6, <1>9, <1>10, <2>1, AppendProperties, LenProperties DEF n
<1>12. ASSUME NEW i \in 1 .. n + 1 PROVE chart'[i] = Fifo(UpToDay(FirstDay + i - 1))
  <2>1. i \in 1 .. n \/ i = n + 1
    BY <1>6
  <2>2. CASE i \in 1 .. n
    BY <1>6, <1>11, <2>2
  <2>3. CASE i = n + 1
    <3>1. FirstDay + i - 1 = day
      BY <1>4, <1>6, <2>3
    <3>2. QED BY <1>9, <1>11, <2>3, <3>1
  <2>4. QED BY <2>1, <2>2, <2>3
<1>13. day' = FirstDay' + Len(chart') /\ \A e \in Applied' : DayOf[e.time] <= day'
  <2>1. \A e \in Applied : DayOf[e.time] \in Nat
    BY <1>5 DEF Applied
  <2>2. QED BY <1>1, <1>2, <1>4, <1>6, <1>11, <2>1
<1>14. ASSUME NEW i \in DOMAIN chart' PROVE chart'[i] = Fifo(UpToDay(FirstDay + i - 1))'
  BY <1>1, <1>2, <1>11, <1>12 DEF UpToDay
<1>15. QED BY <1>2, <1>11, <1>13, <1>14 DEF Charted

LEMMA ChartedStep ==
  ASSUME Account, Charted, [Next]_vars
  PROVE  Charted'
<1>1. CASE EndOfDay
  BY <1>1, DayEnds
<1>2. CASE ~ EndOfDay
  <2>1. UNCHANGED <<reader, events, chart, day>>
    BY <1>2 DEF Next, vars, ApplyIn, ApplyOut, Slice, Underflow, Finish
  <2>2. FirstDay' = FirstDay /\ Points' = Points /\ \A d : UpToDay(d)' = UpToDay(d)
    BY <2>1 DEF FirstDay, Points, UpToDay
  <2>3. ASSUME NEW e \in Applied', reader = "daily_series"
        PROVE  e \in Applied \/ DayOf[e.time] <= day
    <3>1. CASE \E f \in todo : ApplyIn(f) \/ ApplyOut(f)
      <4>1. PICK f \in todo : ApplyIn(f) \/ ApplyOut(f)
        BY <3>1
      <4>2. todo' = todo \ {f} /\ Due(f)
        BY <4>1 DEF ApplyIn, ApplyOut
      <4>3. DayOf[f.time] <= day
        BY <2>3, <4>2 DEF Due
      <4>4. QED BY <2>1, <4>2, <4>3 DEF Applied
    <3>2. CASE ~ \E f \in todo : ApplyIn(f) \/ ApplyOut(f)
      <4>1. todo' = todo
        BY <1>2, <3>2 DEF Next, vars, Slice, Underflow, Finish
      <4>2. QED BY <2>1, <4>1 DEF Applied
    <3>3. QED BY <3>1, <3>2
  <2>4. QED BY <2>1, <2>2, <2>3 DEF Charted
<1>3. QED BY <1>1, <1>2

(* A point of the chart shows what the replay of the events up to the end  *)
(* of its day would show: the walk of daily_series sorts by time alone,    *)
(* but one that gets past a day has sold only what was there.              *)
THEOREM ChartShowsFifo == Spec => []ChartIsFifo
<1>1. Init => Account /\ Charted
  BY InitAccount, InitCharted
<1>2. Account /\ Charted /\ [Next]_vars => Account' /\ Charted'
  BY AccountStep, ChartedStep
<1>3. Charted => ChartIsFifo
  BY DEF Charted, ChartIsFifo, UpToDay
<1>4. QED BY <1>1, <1>2, <1>3, PTL DEF Spec
=============================================================================
