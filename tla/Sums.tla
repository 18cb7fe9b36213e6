------------------------------- MODULE Sums -------------------------------
(***************************************************************************)
(* What sums over finite sets obey: SumFunctionOnSet of the community      *)
(* module Functions, with which the models count stock, money and credit.  *)
(* The library defines it by recursion over the subsets of a set.  Each    *)
(* fact is proved from a smallest subset for which it would be false:      *)
(* strict inclusion of finite sets is well founded.                        *)
(***************************************************************************)
EXTENDS Functions, FiniteSetTheorems, TLAPS

Sum(f, S) == SumFunctionOnSet(f, S)

\* The element a sum takes first.
First(s) == CHOOSE x \in s : TRUE

\* g holds the sums of f over the subsets of t.
Summing(g, f, t) ==
    g = [s \in SUBSET t |-> IF s = {} THEN 0 ELSE f[First(s)] + g[s \ {First(s)}]]

-----------------------------------------------------------------------------

\* A non-empty set of subsets of a finite set has a smallest member.
LEMMA SmallestSubset ==
    ASSUME NEW S, IsFiniteSet(S), NEW T, T \subseteq SUBSET S, T # {}
    PROVE  \E m \in T : \A s \in T : s \subseteq m => s = m
<1>1. IsWellFoundedOn(StrictSubsetOrdering(S), FiniteSubsetsOf(S))
  BY FS_StrictSubsetOrderingWellFounded
<1>2. T \subseteq FiniteSubsetsOf(S)
  BY FS_FiniteSubsetsOfFinite
<1>3. PICK m \in T : \A s \in T : ~ (<<s, m>> \in StrictSubsetOrdering(S))
  BY <1>1, <1>2, WFMin
<1> QED  BY <1>3 DEF StrictSubsetOrdering

\* The first element of a set is one of it, and less is left without it.
LEMMA FirstFact ==
    ASSUME NEW s, s # {}
    PROVE  First(s) \in s /\ s \ {First(s)} # s
BY DEF First

\* The equation determines the sums of every subset.
LEMMA SummingUnique ==
    ASSUME NEW f, NEW t, IsFiniteSet(t), NEW u, NEW g, NEW h,
           Summing(g, f, t), Summing(h, f, u)
    PROVE  \A s \in SUBSET t : s \in SUBSET u => g[s] = h[s]
<1> DEFINE Bad == {s \in SUBSET t : s \in SUBSET u /\ g[s] # h[s]}
<1> SUFFICES ASSUME Bad # {} PROVE FALSE
  OBVIOUS
<1>1. PICK m \in Bad : \A s \in Bad : s \subseteq m => s = m
  <2> HIDE DEF Bad
  <2>1. Bad \subseteq SUBSET t  BY DEF Bad
  <2> QED  BY <2>1, SmallestSubset
<1> DEFINE rest == m \ {First(m)}
<1>2. m # {}
  BY DEF Summing
<1>3. rest \in SUBSET t /\ rest \in SUBSET u /\ rest # m /\ rest \subseteq m
  BY <1>2, FirstFact
<1>4. g[rest] = h[rest]
  BY <1>1, <1>3
<1>5. g[m] = f[First(m)] + g[rest]
  BY <1>2 DEF Summing
<1>6. h[m] = f[First(m)] + h[rest]
  BY <1>2 DEF Summing
<1> QED  BY <1>1, <1>4, <1>5, <1>6

\* The equation has a solution.
LEMMA SummingExists ==
    ASSUME NEW f, NEW S, IsFiniteSet(S)
    PROVE  \E g : Summing(g, f, S)
<1> DEFINE Of(s) == CHOOSE g : Summing(g, f, s)
           Bad == {s \in SUBSET S : ~ Summing(Of(s), f, s)}
<1>1. SUFFICES ASSUME Bad # {} PROVE FALSE
  BY Zenon
<1>2. PICK m \in Bad : \A s \in Bad : s \subseteq m => s = m
  <2> HIDE DEF Bad
  <2>1. Bad \subseteq SUBSET S  BY DEF Bad
  <2> QED  BY <1>1, <2>1, SmallestSubset
<1>3. \A s \in SUBSET m : s # m => Summing(Of(s), f, s)
  BY <1>2
<1>4. \A s \in SUBSET m : IsFiniteSet(s)
  BY <1>2, FS_Subset
<1> DEFINE G == [s \in SUBSET m |->
                   IF s = {} THEN 0
                   ELSE f[First(s)] + Of(s \ {First(s)})[s \ {First(s)}]]
<1> HIDE DEF Of, Bad
<1>5. ASSUME NEW s \in SUBSET m, s # m
      PROVE  G[s] = Of(s)[s]
  <2>1. CASE s = {}
    BY <2>1, <1>3, <1>5 DEF Summing
  <2>2. CASE s # {}
    <3> DEFINE rest == s \ {First(s)}
    <3>1. rest \in SUBSET m /\ rest # m /\ rest \in SUBSET s
      BY <2>2, <1>5, FirstFact
    <3>2. Summing(Of(s), f, s) /\ Summing(Of(rest), f, rest)
      BY <3>1, <1>3, <1>5
    <3>3. Of(rest)[rest] = Of(s)[rest]
      <4>1. IsFiniteSet(rest)
        BY <3>1, <1>4
      <4> HIDE DEF rest
      <4> QED  BY <3>1, <3>2, <4>1, SummingUnique
    <3>4. Of(s)[s] = f[First(s)] + Of(s)[rest]
      BY <2>2, <3>2 DEF Summing
    <3> QED  BY <2>2, <3>3, <3>4
  <2> QED  BY <2>1, <2>2
<1>6. \A s \in SUBSET m : s # {} => s \ {First(s)} \in SUBSET m /\ s \ {First(s)} # m
  BY FirstFact
<1>7. Summing(G, f, m)
  <2>1. ASSUME NEW s \in SUBSET m, s # {}
        PROVE  G[s] = f[First(s)] + G[s \ {First(s)}]
    BY <1>5, <1>6, <2>1
  <2>2. ASSUME NEW s \in SUBSET m
        PROVE  G[s] = IF s = {} THEN 0 ELSE f[First(s)] + G[s \ {First(s)}]
    BY <2>1
  <2>3. G = [s \in SUBSET m |-> G[s]]
    OBVIOUS
  <2> HIDE DEF G
  <2> QED  BY <2>2, <2>3 DEF Summing
<1>8. Summing(Of(m), f, m)
  BY <1>7, Zenon DEF Of
<1> QED  BY <1>2, <1>8 DEF Bad

\* The sum of the library is the one the equation determines.
LEMMA SumSolves ==
    ASSUME NEW f, NEW S, IsFiniteSet(S)
    PROVE  \E g : Summing(g, f, S) /\ Sum(f, S) = g[S]
<1> DEFINE g == CHOOSE h : Summing(h, f, S)
<1>1. Summing(g, f, S)
  BY SummingExists, Zenon
<1>2. Sum(f, S) = g[S]
  BY DEF Sum, SumFunctionOnSet, FoldFunctionOnSet, MapThenFoldSet, Summing, First
<1> QED  BY <1>1, <1>2, Zenon

\* Nothing adds up to zero.
LEMMA SumEmpty ==
    ASSUME NEW f
    PROVE  Sum(f, {}) = 0
<1>1. PICK g : Summing(g, f, {}) /\ Sum(f, {}) = g[{}]
  BY FS_EmptySet, SumSolves
<1> QED  BY <1>1 DEF Summing

\* A sum is its first element and the sum of the rest.
LEMMA SumFirst ==
    ASSUME NEW f, NEW S, IsFiniteSet(S), S # {}
    PROVE  Sum(f, S) = f[First(S)] + Sum(f, S \ {First(S)})
<1> DEFINE rest == S \ {First(S)}
<1>1. IsFiniteSet(rest)
  BY FS_RemoveElement
<1>2. PICK g : Summing(g, f, S) /\ Sum(f, S) = g[S]
  BY SumSolves
<1>3. PICK h : Summing(h, f, rest) /\ Sum(f, rest) = h[rest]
  BY <1>1, SumSolves
<1>4. g[rest] = h[rest]
  <2>1. rest \in SUBSET S /\ rest \in SUBSET rest  OBVIOUS
  <2> HIDE DEF rest
  <2> QED  BY <1>2, <1>3, <2>1, SummingUnique
<1>5. g[S] = f[First(S)] + g[rest]
  BY <1>2 DEF Summing
<1> QED  BY <1>2, <1>3, <1>4, <1>5

\* The sum of integers is one.
LEMMA SumInt ==
    ASSUME NEW f, NEW S, IsFiniteSet(S), \A x \in S : f[x] \in Int
    PROVE  Sum(f, S) \in Int
<1> DEFINE Bad == {s \in SUBSET S : Sum(f, s) \notin Int}
<1> SUFFICES ASSUME Bad # {} PROVE FALSE
  OBVIOUS
<1>1. PICK m \in Bad : \A s \in Bad : s \subseteq m => s = m
  <2> HIDE DEF Bad
  <2>1. Bad \subseteq SUBSET S  BY DEF Bad
  <2> QED  BY <2>1, SmallestSubset
<1>2. m # {}
  BY SumEmpty
<1>3. Sum(f, m) = f[First(m)] + Sum(f, m \ {First(m)})
  BY <1>2, FS_Subset, SumFirst
<1>4. First(m) \in m /\ Sum(f, m \ {First(m)}) \in Int
  BY <1>1, <1>2, FirstFact
<1>5. f[First(m)] \in Int
  BY <1>4
<1> QED  BY <1>1, <1>3, <1>4, <1>5

\* The sum of natural numbers is one.
LEMMA SumNat ==
    ASSUME NEW f, NEW S, IsFiniteSet(S), \A x \in S : f[x] \in Nat
    PROVE  Sum(f, S) \in Nat
<1> DEFINE Bad == {s \in SUBSET S : Sum(f, s) \notin Nat}
<1> SUFFICES ASSUME Bad # {} PROVE FALSE
  OBVIOUS
<1>1. PICK m \in Bad : \A s \in Bad : s \subseteq m => s = m
  <2> HIDE DEF Bad
  <2>1. Bad \subseteq SUBSET S  BY DEF Bad
  <2> QED  BY <2>1, SmallestSubset
<1>2. m # {}
  BY SumEmpty
<1>3. Sum(f, m) = f[First(m)] + Sum(f, m \ {First(m)})
  BY <1>2, FS_Subset, SumFirst
<1>4. First(m) \in m /\ Sum(f, m \ {First(m)}) \in Nat
  BY <1>1, <1>2, FirstFact
<1>5. f[First(m)] \in Nat
  BY <1>4
<1> QED  BY <1>1, <1>3, <1>4, <1>5

\* The order in which the elements are taken does not matter.
LEMMA SumRemove ==
    ASSUME NEW f, NEW S, IsFiniteSet(S), \A y \in S : f[y] \in Int
    PROVE  \A x \in S : Sum(f, S) = f[x] + Sum(f, S \ {x})
<1> DEFINE Bad == {s \in SUBSET S : \E x \in s : Sum(f, s) # f[x] + Sum(f, s \ {x})}
<1> SUFFICES ASSUME Bad # {} PROVE FALSE
  OBVIOUS
<1>1. PICK m \in Bad : \A s \in Bad : s \subseteq m => s = m
  <2> HIDE DEF Bad
  <2>1. Bad \subseteq SUBSET S  BY DEF Bad
  <2> QED  BY <2>1, SmallestSubset
<1>2. PICK x \in m : Sum(f, m) # f[x] + Sum(f, m \ {x})
  OBVIOUS
<1>3. \A s \in SUBSET m : s # m => \A z \in s : Sum(f, s) = f[z] + Sum(f, s \ {z})
  BY <1>1
<1> DEFINE y == First(m)
           both == m \ {x, y}
<1>4. m \in SUBSET S /\ y \in m /\ Sum(f, m) = f[y] + Sum(f, m \ {y})
  BY <1>2, FirstFact, FS_Subset, SumFirst
<1> HIDE DEF y, Bad
<1>5. x # y
  BY <1>2, <1>4
<1>6. (m \ {y}) \ {x} = both /\ (m \ {x}) \ {y} = both
  OBVIOUS
<1>7. Sum(f, m \ {y}) = f[x] + Sum(f, both)
  BY <1>2, <1>3, <1>4, <1>5, <1>6
<1>8. Sum(f, m \ {x}) = f[y] + Sum(f, both)
  BY <1>2, <1>3, <1>4, <1>5, <1>6
<1>9. f[x] \in Int /\ f[y] \in Int /\ Sum(f, both) \in Int
  <2>1. both \in SUBSET S
    BY <1>4
  <2> HIDE DEF both
  <2> QED  BY <1>2, <1>4, <2>1, FS_Subset, SumInt
<1> QED  BY <1>2, <1>4, <1>7, <1>8, <1>9

\* A new element adds its value.
LEMMA SumAdd ==
    ASSUME NEW f, NEW S, IsFiniteSet(S), NEW x, x \notin S,
           \A y \in S \cup {x} : f[y] \in Int
    PROVE  Sum(f, S \cup {x}) = f[x] + Sum(f, S)
<1>1. IsFiniteSet(S \cup {x})
  BY FS_AddElement
<1>2. Sum(f, S \cup {x}) = f[x] + Sum(f, (S \cup {x}) \ {x})
  BY <1>1, SumRemove
<1>3. (S \cup {x}) \ {x} = S
  OBVIOUS
<1> QED  BY <1>2, <1>3

\* Only the values of the elements count.
LEMMA SumSame ==
    ASSUME NEW f, NEW g, NEW S, IsFiniteSet(S), \A x \in S : f[x] = g[x]
    PROVE  Sum(f, S) = Sum(g, S)
<1> DEFINE Bad == {s \in SUBSET S : Sum(f, s) # Sum(g, s)}
<1> SUFFICES ASSUME Bad # {} PROVE FALSE
  OBVIOUS
<1>1. PICK m \in Bad : \A s \in Bad : s \subseteq m => s = m
  <2> HIDE DEF Bad
  <2>1. Bad \subseteq SUBSET S  BY DEF Bad
  <2> QED  BY <2>1, SmallestSubset
<1>2. m # {}
  BY SumEmpty
<1>3. IsFiniteSet(m)
  BY FS_Subset
<1>4. /\ Sum(f, m) = f[First(m)] + Sum(f, m \ {First(m)})
      /\ Sum(g, m) = g[First(m)] + Sum(g, m \ {First(m)})
  BY <1>2, <1>3, SumFirst
<1>5. First(m) \in m /\ Sum(f, m \ {First(m)}) = Sum(g, m \ {First(m)})
  BY <1>1, <1>2, FirstFact
<1>6. f[First(m)] = g[First(m)]
  BY <1>5
<1> QED  BY <1>1, <1>4, <1>5, <1>6

\* The sum over two sets that share nothing is the sum of both.
LEMMA SumDisjoint ==
    ASSUME NEW f, NEW S, NEW T, IsFiniteSet(S), IsFiniteSet(T), S \cap T = {},
           \A x \in S \cup T : f[x] \in Int
    PROVE  Sum(f, S \cup T) = Sum(f, S) + Sum(f, T)
<1> DEFINE Bad == {s \in SUBSET T : Sum(f, S \cup s) # Sum(f, S) + Sum(f, s)}
<1> SUFFICES ASSUME Bad # {} PROVE FALSE
  OBVIOUS
<1>1. PICK m \in Bad : \A s \in Bad : s \subseteq m => s = m
  <2> HIDE DEF Bad
  <2>1. Bad \subseteq SUBSET T  BY DEF Bad
  <2> QED  BY <2>1, SmallestSubset
<1>2. m \in SUBSET T /\ Sum(f, S \cup m) # Sum(f, S) + Sum(f, m)
  OBVIOUS
<1>3. Sum(f, S) \in Int
  BY SumInt
<1>4. m # {}
  <2>1. Sum(f, S \cup {}) = Sum(f, S) /\ Sum(f, {}) = 0
    BY SumEmpty
  <2> QED  BY <1>2, <1>3, <2>1
<1>5. PICK x \in m : TRUE
  BY <1>4
<1> DEFINE rest == m \ {x}
<1>6. rest \in SUBSET T /\ rest # m /\ rest \subseteq m
  BY <1>5
<1>7. Sum(f, S \cup rest) = Sum(f, S) + Sum(f, rest)
  BY <1>1, <1>6
<1> HIDE DEF Bad
<1>8. IsFiniteSet(m) /\ IsFiniteSet(S \cup m) /\ IsFiniteSet(rest)
  BY <1>2, FS_Subset, FS_Union
<1>9. Sum(f, m) = f[x] + Sum(f, rest)
  <2>1. \A y \in m : f[y] \in Int
    BY <1>2
  <2> QED  BY <1>5, <1>8, <2>1, SumRemove
<1>10. Sum(f, S \cup m) = f[x] + Sum(f, S \cup rest)
  <2>1. (S \cup m) \ {x} = S \cup rest /\ x \in S \cup m
    BY <1>2, <1>5
  <2>2. \A y \in S \cup m : f[y] \in Int
    BY <1>2
  <2> QED  BY <1>8, <2>1, <2>2, SumRemove
<1>11. f[x] \in Int /\ Sum(f, rest) \in Int
  BY <1>2, <1>5, <1>6, <1>8, SumInt
<1> QED  BY <1>2, <1>3, <1>7, <1>9, <1>10, <1>11

\* Zeros add up to zero.
LEMMA SumZero ==
    ASSUME NEW f, NEW S, IsFiniteSet(S), \A x \in S : f[x] = 0
    PROVE  Sum(f, S) = 0
<1> DEFINE Bad == {s \in SUBSET S : Sum(f, s) # 0}
<1> SUFFICES ASSUME Bad # {} PROVE FALSE
  OBVIOUS
<1>1. PICK m \in Bad : \A s \in Bad : s \subseteq m => s = m
  <2> HIDE DEF Bad
  <2>1. Bad \subseteq SUBSET S  BY DEF Bad
  <2> QED  BY <2>1, SmallestSubset
<1>2. m # {}
  BY SumEmpty
<1>3. Sum(f, m) = f[First(m)] + Sum(f, m \ {First(m)})
  BY <1>2, FS_Subset, SumFirst
<1>4. First(m) \in m /\ Sum(f, m \ {First(m)}) = 0
  BY <1>1, <1>2, FirstFact
<1>5. f[First(m)] = 0
  BY <1>4
<1> QED  BY <1>1, <1>3, <1>4, <1>5

\* A sum of natural numbers is at least the sum over fewer of them.
LEMMA SumMonotone ==
    ASSUME NEW f, NEW S, IsFiniteSet(S), \A x \in S : f[x] \in Nat, NEW T \in SUBSET S
    PROVE  Sum(f, T) <= Sum(f, S)
<1> DEFINE others == S \ T
<1>1. IsFiniteSet(T) /\ IsFiniteSet(others) /\ T \cup others = S /\ T \cap others = {}
  BY FS_Subset
<1>2. Sum(f, S) = Sum(f, T) + Sum(f, others)
  <2> HIDE DEF others
  <2> QED  BY <1>1, SumDisjoint
<1>3. Sum(f, T) \in Nat /\ Sum(f, others) \in Nat
  BY <1>1, SumNat
<1> QED  BY <1>2, <1>3

\* The sum after the value of one element changed.
LEMMA SumChange ==
    ASSUME NEW f, NEW g, NEW S, IsFiniteSet(S), NEW x \in S,
           \A y \in S : f[y] \in Int /\ g[y] \in Int,
           \A y \in S : y # x => g[y] = f[y]
    PROVE  Sum(g, S) = Sum(f, S) - f[x] + g[x]
<1>1. Sum(f, S) = f[x] + Sum(f, S \ {x}) /\ Sum(g, S) = g[x] + Sum(g, S \ {x})
  BY SumRemove
<1>2. IsFiniteSet(S \ {x})
  BY FS_RemoveElement
<1>3. Sum(f, S \ {x}) = Sum(g, S \ {x}) /\ Sum(f, S \ {x}) \in Int
  BY <1>2, SumSame, SumInt
<1> QED  BY <1>1, <1>3

\* A sum of smaller numbers is smaller.
LEMMA SumLeq ==
    ASSUME NEW f, NEW g, NEW S, IsFiniteSet(S),
           \A x \in S : f[x] \in Int /\ g[x] \in Int /\ f[x] <= g[x]
    PROVE  Sum(f, S) <= Sum(g, S)
<1> DEFINE Bad == {s \in SUBSET S : ~ (Sum(f, s) <= Sum(g, s))}
<1> SUFFICES ASSUME Bad # {} PROVE FALSE
  OBVIOUS
<1>1. PICK m \in Bad : \A s \in Bad : s \subseteq m => s = m
  <2> HIDE DEF Bad
  <2>1. Bad \subseteq SUBSET S  BY DEF Bad
  <2> QED  BY <2>1, SmallestSubset
<1>2. m # {}
  BY SumEmpty
<1>3. IsFiniteSet(m)
  BY FS_Subset
<1> DEFINE x == First(m)
           rest == m \ {x}
<1>4. /\ Sum(f, m) = f[x] + Sum(f, rest)
      /\ Sum(g, m) = g[x] + Sum(g, rest)
  BY <1>2, <1>3, SumFirst
<1>5. x \in m /\ rest \in SUBSET S /\ Sum(f, rest) <= Sum(g, rest)
  BY <1>1, <1>2, FirstFact
<1>6. f[x] \in Int /\ g[x] \in Int /\ f[x] <= g[x]
  BY <1>5
<1>7. Sum(f, rest) \in Int /\ Sum(g, rest) \in Int
  <2>1. IsFiniteSet(rest) /\ \A y \in rest : f[y] \in Int /\ g[y] \in Int
    BY <1>5, FS_Subset
  <2> HIDE DEF rest
  <2> QED  BY <2>1, SumInt
<1> QED  BY <1>1, <1>4, <1>5, <1>6, <1>7

\* The image of a finite set is finite.
LEMMA ImageFinite ==
    ASSUME NEW h, NEW S, IsFiniteSet(S)
    PROVE  IsFiniteSet({h[x] : x \in S})
<1> DEFINE T == {h[x] : x \in S}
           onto == [x \in S |-> h[x]]
<1>1. onto \in Surjection(S, T)
  BY DEF Surjection
<1> HIDE DEF onto
<1> QED  BY <1>1, FS_Surjection

\* Renaming the elements leaves the sum alone.
LEMMA SumImage ==
    ASSUME NEW f, NEW h, NEW S, IsFiniteSet(S),
           \A x, y \in S : h[x] = h[y] => x = y,
           \A x \in S : f[h[x]] \in Int
    PROVE  Sum(f, {h[x] : x \in S}) = Sum([x \in S |-> f[h[x]]], S)
<1> DEFINE g == [x \in S |-> f[h[x]]]
           Image(s) == {h[x] : x \in s}
           Bad == {s \in SUBSET S : Sum(f, Image(s)) # Sum(g, s)}
<1> SUFFICES ASSUME Bad # {} PROVE FALSE
  OBVIOUS
<1>1. PICK m \in Bad : \A s \in Bad : s \subseteq m => s = m
  <2> HIDE DEF Bad
  <2>1. Bad \subseteq SUBSET S  BY DEF Bad
  <2> QED  BY <2>1, SmallestSubset
<1>2. m \in SUBSET S /\ Sum(f, Image(m)) # Sum(g, m)
  OBVIOUS
<1>3. m # {}
  <2>1. Image({}) = {}
    OBVIOUS
  <2> HIDE DEF Image, g
  <2> QED  BY <1>2, <2>1, SumEmpty
<1>4. PICK x \in m : TRUE
  BY <1>3
<1> DEFINE rest == m \ {x}
<1>5. rest \in SUBSET S /\ rest # m /\ rest \subseteq m
  BY <1>4
<1>6. Sum(f, Image(rest)) = Sum(g, rest)
  BY <1>1, <1>5
<1>7. Image(m) \ {h[x]} = Image(rest) /\ h[x] \in Image(m)
  BY <1>2, <1>4
<1>8. g[x] = f[h[x]] /\ \A y \in m : g[y] \in Int
  BY <1>2, <1>4
<1>9. \A z \in Image(m) : f[z] \in Int
  BY <1>2
<1>10. IsFiniteSet(m)
  BY <1>2, FS_Subset
<1>11. IsFiniteSet(Image(m))
  BY <1>10, ImageFinite
<1> HIDE DEF Bad, Image, g
<1>12. Sum(f, Image(m)) = f[h[x]] + Sum(f, Image(rest))
  BY <1>7, <1>9, <1>11, SumRemove
<1>13. Sum(g, m) = g[x] + Sum(g, rest)
  BY <1>4, <1>8, <1>10, SumRemove
<1> QED  BY <1>2, <1>6, <1>8, <1>12, <1>13
=============================================================================
