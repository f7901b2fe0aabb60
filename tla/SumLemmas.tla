------------------------------ MODULE SumLemmas ------------------------------
(***************************************************************************)
(* What the books of every component rest on: the sum of a function over a *)
(* finite set, SumFunctionOnSet of the community modules.                  *)
(*                                                                         *)
(* It is defined by recursion on the subsets of the set.  Induction on     *)
(* them is used here in the form of the minimal counterexample: a set of   *)
(* subsets that is not empty has a member none of whose strict subsets is  *)
(* one (LeastSubset).                                                      *)
(***************************************************************************)
EXTENDS FiniteSetTheorems, TLAPS

LEMMA LeastSubset ==
    ASSUME NEW S, IsFiniteSet(S), NEW Bad \in SUBSET SUBSET S, Bad # {}
    PROVE  \E m \in Bad : \A u \in Bad : u \subseteq m => u = m
<1>1. IsWellFoundedOn(StrictSubsetOrdering(S), SUBSET S)
  BY FS_StrictSubsetOrderingWellFounded, FS_FiniteSubsetsOfFinite
<1>2. PICK m \in Bad : \A u \in Bad : ~ (<<u, m>> \in StrictSubsetOrdering(S))
  BY <1>1, WFMin
<1> QED BY <1>2 DEF StrictSubsetOrdering

-----------------------------------------------------------------------------
(* The recursion is well defined. *)

pick(u) == CHOOSE x \in u : TRUE

\* What the recursion says of a set, given the sums of its subsets.
SumStep(f, g, u) == IF u = {} THEN 0 ELSE f[pick(u)] + g[u \ {pick(u)}]

\* g gives the sum of f over every subset of S.
IsSums(g, f, S) == g = [u \in SUBSET S |-> SumStep(f, g, u)]

Sums(f, S) == CHOOSE g : IsSums(g, f, S)

LEMMA SumIsSums == \A f, S : SumFunctionOnSet(f, S) = Sums(f, S)[S]
BY DEF SumFunctionOnSet, FoldFunctionOnSet, MapThenFoldSet, Sums, IsSums, SumStep, pick

LEMMA PickInSet == \A u : u # {} => pick(u) \in u
BY DEF pick

LEMMA SumsAgree ==
    ASSUME NEW f, NEW S, IsFiniteSet(S), NEW T, NEW g, NEW h,
           IsSums(g, f, S), IsSums(h, f, T), NEW u, u \subseteq S, u \subseteq T
    PROVE  g[u] = h[u]
<1> DEFINE Bad == {w \in SUBSET S : w \subseteq T /\ g[w] # h[w]}
<1>1. SUFFICES ASSUME Bad # {} PROVE FALSE
  OBVIOUS
<1>2. PICK m \in Bad : \A w \in Bad : w \subseteq m => w = m
  <2>1. Bad \in SUBSET SUBSET S
    OBVIOUS
  <2> HIDE DEF Bad
  <2> QED BY <1>1, <2>1, LeastSubset
<1>3. g[m] = SumStep(f, g, m) /\ h[m] = SumStep(f, h, m)
  BY <1>2 DEF IsSums
<1>4. m # {}
  BY <1>2, <1>3 DEF SumStep
<1>5. pick(m) \in m
  BY <1>4, PickInSet
<1>6. m \ {pick(m)} \notin Bad
  BY <1>2, <1>5
<1>7. g[m \ {pick(m)}] = h[m \ {pick(m)}]
  BY <1>2, <1>6
<1> QED BY <1>2, <1>3, <1>4, <1>7 DEF SumStep

LEMMA SumsExist ==
    ASSUME NEW f, NEW S, IsFiniteSet(S)
    PROVE  \E g : IsSums(g, f, S)
<1> DEFINE Bad == {w \in SUBSET S : ~ \E g : IsSums(g, f, w)}
<1>1. SUFFICES ASSUME Bad # {} PROVE FALSE
  OBVIOUS
<1>2. PICK m \in Bad : \A w \in Bad : w \subseteq m => w = m
  <2>1. Bad \in SUBSET SUBSET S
    OBVIOUS
  <2> HIDE DEF Bad
  <2> QED BY <1>1, <2>1, LeastSubset
<1> DEFINE h == [u \in SUBSET m |->
                   IF u = {} THEN 0 ELSE f[pick(u)] + Sums(f, u \ {pick(u)})[u \ {pick(u)}]]
<1>3. \A w \in SUBSET m : w # m => IsSums(Sums(f, w), f, w)
  BY <1>2 DEF Sums
<1>4. ASSUME NEW w \in SUBSET m, w # m
      PROVE  h[w] = Sums(f, w)[w]
  <2>1. Sums(f, w)[w] = SumStep(f, Sums(f, w), w)
    BY <1>3, <1>4 DEF IsSums
  <2>2. CASE w = {}
    BY <2>1, <2>2 DEF SumStep
  <2>3. CASE w # {}
    <3> DEFINE r == w \ {pick(w)}
    <3>1. pick(w) \in w
      BY <2>3, PickInSet
    <3>2. IsSums(Sums(f, w), f, w) /\ IsSums(Sums(f, r), f, r)
      BY <1>3, <1>4, <3>1
    <3>3. IsFiniteSet(w)
      BY <1>2, FS_Subset
    <3>4. Sums(f, w)[r] = Sums(f, r)[r]
      BY <3>2, <3>3, SumsAgree
    <3> QED BY <2>1, <2>3, <3>4 DEF SumStep
  <2> QED BY <2>2, <2>3
<1>5. ASSUME NEW u \in SUBSET m
      PROVE  h[u] = SumStep(f, h, u)
  <2>1. CASE u = {}
    BY <2>1 DEF SumStep
  <2>2. CASE u # {}
    <3>1. u \ {pick(u)} \in SUBSET m /\ u \ {pick(u)} # m
      BY <2>2, PickInSet
    <3> QED BY <1>4, <2>2, <3>1 DEF SumStep
  <2> QED BY <2>1, <2>2
<1>6. IsSums(h, f, m)
  BY <1>5 DEF IsSums
<1> QED BY <1>2, <1>6

\* The recursion as a rule: a sum over a set that is not empty is one term and the sum
\* over the rest.
LEMMA SumUnfolds ==
    ASSUME NEW f, NEW S, IsFiniteSet(S)
    PROVE  SumFunctionOnSet(f, S) =
             IF S = {} THEN 0
             ELSE f[pick(S)] + SumFunctionOnSet(f, S \ {pick(S)})
<1> DEFINE r == S \ {pick(S)}
<1>1. IsSums(Sums(f, S), f, S)
  BY SumsExist DEF Sums
<1>2. IsFiniteSet(r)
  BY FS_Subset
<1>3. IsSums(Sums(f, r), f, r)
  BY <1>2, SumsExist DEF Sums
<1>4. Sums(f, S)[r] = Sums(f, r)[r]
  BY <1>1, <1>3, SumsAgree
<1>5. Sums(f, S)[S] = SumStep(f, Sums(f, S), S)
  BY <1>1 DEF IsSums
<1> QED BY <1>4, <1>5, SumIsSums DEF SumStep

LEMMA SumOfNothing == \A f, S : S = {} => SumFunctionOnSet(f, S) = 0
BY SumUnfolds, FS_EmptySet

-----------------------------------------------------------------------------
(* Sums of integers: the order of the terms does not matter. *)

LEMMA SumType ==
    ASSUME NEW f, NEW S, IsFiniteSet(S), \A x \in S : f[x] \in Int
    PROVE  SumFunctionOnSet(f, S) \in Int
<1> DEFINE Bad == {w \in SUBSET S : SumFunctionOnSet(f, w) \notin Int}
<1>1. SUFFICES ASSUME Bad # {} PROVE FALSE
  OBVIOUS
<1>2. PICK m \in Bad : \A w \in Bad : w \subseteq m => w = m
  <2>1. Bad \in SUBSET SUBSET S
    OBVIOUS
  <2> HIDE DEF Bad
  <2> QED BY <1>1, <2>1, LeastSubset
<1>3. IsFiniteSet(m) /\ m # {}
  <2>1. IsFiniteSet(m)
    BY <1>2, FS_Subset
  <2>2. SumFunctionOnSet(f, m) \notin Int
    BY <1>2
  <2>3. m = {} => SumFunctionOnSet(f, m) \in Int
    BY SumOfNothing
  <2> QED BY <2>1, <2>2, <2>3
<1>4. pick(m) \in m /\ SumFunctionOnSet(f, m) = f[pick(m)] + SumFunctionOnSet(f, m \ {pick(m)})
  BY <1>3, PickInSet, SumUnfolds
<1>5. m \ {pick(m)} \notin Bad
  BY <1>2, <1>4
<1> QED BY <1>2, <1>4, <1>5

LEMMA SumSame ==
    ASSUME NEW f, NEW g, NEW S, IsFiniteSet(S), \A x \in S : f[x] = g[x]
    PROVE  SumFunctionOnSet(f, S) = SumFunctionOnSet(g, S)
<1> DEFINE Bad == {w \in SUBSET S : SumFunctionOnSet(f, w) # SumFunctionOnSet(g, w)}
<1>1. SUFFICES ASSUME Bad # {} PROVE FALSE
  OBVIOUS
<1>2. PICK m \in Bad : \A w \in Bad : w \subseteq m => w = m
  <2>1. Bad \in SUBSET SUBSET S
    OBVIOUS
  <2> HIDE DEF Bad
  <2> QED BY <1>1, <2>1, LeastSubset
<1>3. IsFiniteSet(m) /\ m # {}
  BY <1>2, FS_Subset, SumOfNothing
<1>4. /\ pick(m) \in m
      /\ SumFunctionOnSet(f, m) = f[pick(m)] + SumFunctionOnSet(f, m \ {pick(m)})
      /\ SumFunctionOnSet(g, m) = g[pick(m)] + SumFunctionOnSet(g, m \ {pick(m)})
  BY <1>3, PickInSet, SumUnfolds
<1>5. m \ {pick(m)} \notin Bad
  BY <1>2, <1>4
<1> QED BY <1>2, <1>4, <1>5

\* Any term can be taken out of a sum.
LEMMA SumTakeOut ==
    ASSUME NEW f, NEW S, IsFiniteSet(S), \A x \in S : f[x] \in Int, NEW y \in S
    PROVE  SumFunctionOnSet(f, S) = f[y] + SumFunctionOnSet(f, S \ {y})
<1> DEFINE Bad == {w \in SUBSET S :
                     \E x \in w : SumFunctionOnSet(f, w) # f[x] + SumFunctionOnSet(f, w \ {x})}
<1>1. SUFFICES ASSUME Bad # {} PROVE FALSE
  OBVIOUS
<1>2. PICK m \in Bad : \A w \in Bad : w \subseteq m => w = m
  <2>1. Bad \in SUBSET SUBSET S
    OBVIOUS
  <2> HIDE DEF Bad
  <2> QED BY <1>1, <2>1, LeastSubset
<1>3. PICK x \in m : SumFunctionOnSet(f, m) # f[x] + SumFunctionOnSet(f, m \ {x})
  BY <1>2
<1> DEFINE p == pick(m)
           rest == (m \ {x}) \ {p}
<1>4. p \in m /\ SumFunctionOnSet(f, m) = f[p] + SumFunctionOnSet(f, m \ {p})
  BY <1>2, FS_Subset, PickInSet, SumUnfolds
<1>5. p # x
  BY <1>3, <1>4
<1>6. m \ {p} \in SUBSET S /\ m \ {p} \notin Bad /\ m \ {x} \in SUBSET S /\ m \ {x} \notin Bad
  BY <1>2, <1>3, <1>4
<1>7. (m \ {p}) \ {x} = rest /\ x \in m \ {p} /\ p \in m \ {x}
  BY <1>3, <1>4, <1>5
<1> HIDE DEF rest, p
<1>8. /\ SumFunctionOnSet(f, m \ {p}) = f[x] + SumFunctionOnSet(f, rest)
      /\ SumFunctionOnSet(f, m \ {x}) = f[p] + SumFunctionOnSet(f, rest)
  BY <1>6, <1>7 DEF rest
<1>9. f[x] \in Int /\ f[p] \in Int /\ SumFunctionOnSet(f, rest) \in Int
  <2>1. IsFiniteSet(rest) /\ \A z \in rest : f[z] \in Int
    BY <1>2, FS_Subset DEF rest
  <2> QED BY <1>2, <1>3, <1>4, <2>1, SumType
<1> QED BY <1>3, <1>4, <1>8, <1>9

LEMMA SumAddOne ==
    ASSUME NEW f, NEW S, IsFiniteSet(S), NEW y, y \notin S,
           \A x \in S \cup {y} : f[x] \in Int
    PROVE  SumFunctionOnSet(f, S \cup {y}) = SumFunctionOnSet(f, S) + f[y]
<1>1. IsFiniteSet(S \cup {y}) /\ y \in S \cup {y} /\ (S \cup {y}) \ {y} = S
  BY FS_AddElement
<1>2. SumFunctionOnSet(f, S) \in Int /\ f[y] \in Int
  BY SumType
<1>3. SumFunctionOnSet(f, S \cup {y}) = f[y] + SumFunctionOnSet(f, S)
  BY <1>1, SumTakeOut
<1> QED BY <1>2, <1>3

\* A sum changes by what its one changed term changes.
LEMMA SumUpdate ==
    ASSUME NEW f, NEW g, NEW S, IsFiniteSet(S), NEW y \in S,
           \A x \in S : f[x] \in Int /\ g[x] \in Int,
           \A x \in S \ {y} : g[x] = f[x]
    PROVE  SumFunctionOnSet(g, S) = SumFunctionOnSet(f, S) - f[y] + g[y]
<1>1. IsFiniteSet(S \ {y})
  BY FS_Subset
<1>2. SumFunctionOnSet(f, S \ {y}) = SumFunctionOnSet(g, S \ {y})
  BY <1>1, SumSame
<1>3. SumFunctionOnSet(f, S \ {y}) \in Int
  BY <1>1, SumType
<1>4. /\ SumFunctionOnSet(f, S) = f[y] + SumFunctionOnSet(f, S \ {y})
      /\ SumFunctionOnSet(g, S) = g[y] + SumFunctionOnSet(g, S \ {y})
  BY SumTakeOut
<1> QED BY <1>2, <1>3, <1>4

\* The sum when one term is set, new or not, and when one is dropped.
LEMMA SumPut ==
    ASSUME NEW f, NEW g, NEW S, IsFiniteSet(S), NEW y, NEW T, T = S \cup {y},
           \A x \in S : f[x] \in Int, \A x \in T : g[x] \in Int,
           \A x \in S \ {y} : g[x] = f[x]
    PROVE  SumFunctionOnSet(g, T)
             = SumFunctionOnSet(f, S) + g[y] - (IF y \in S THEN f[y] ELSE 0)
<1>1. SumFunctionOnSet(f, S) \in Int /\ g[y] \in Int
  BY SumType
<1>2. CASE y \in S
  <2>1. T = S
    BY <1>2
  <2>2. SumFunctionOnSet(g, T) = SumFunctionOnSet(g, S)
    BY <2>1, Zenon
  <2>3. SumFunctionOnSet(g, S) = SumFunctionOnSet(f, S) - f[y] + g[y]
    BY <1>2, SumUpdate
  <2> QED BY <1>1, <1>2, <2>2, <2>3
<1>3. CASE y \notin S
  <2>1. SumFunctionOnSet(g, S \cup {y}) = SumFunctionOnSet(g, S) + g[y]
    BY <1>3, SumAddOne
  <2>2. SumFunctionOnSet(g, S) = SumFunctionOnSet(f, S)
    BY <1>3, SumSame
  <2>3. SumFunctionOnSet(g, T) = SumFunctionOnSet(g, S \cup {y})
    BY Zenon
  <2> QED BY <1>1, <1>3, <2>1, <2>2, <2>3
<1> QED BY <1>2, <1>3

LEMMA SumDrop ==
    ASSUME NEW f, NEW g, NEW S, IsFiniteSet(S), NEW y \in S, NEW T, T = S \ {y},
           \A x \in S : f[x] \in Int, \A x \in T : g[x] = f[x]
    PROVE  SumFunctionOnSet(g, T) = SumFunctionOnSet(f, S) - f[y]
<1>1. IsFiniteSet(T)
  BY FS_Subset
<1>2. SumFunctionOnSet(f, T) = SumFunctionOnSet(g, T)
  BY <1>1, SumSame
<1>3. SumFunctionOnSet(f, T) \in Int
  BY <1>1, SumType
<1>4. SumFunctionOnSet(f, S) = f[y] + SumFunctionOnSet(f, S \ {y})
  BY SumTakeOut
<1>5. SumFunctionOnSet(f, T) = SumFunctionOnSet(f, S \ {y})
  BY Zenon
<1> QED BY <1>2, <1>3, <1>4, <1>5

LEMMA SumUnion ==
    ASSUME NEW f, NEW S, IsFiniteSet(S), NEW T, IsFiniteSet(T), S \cap T = {},
           \A x \in S \cup T : f[x] \in Int
    PROVE  SumFunctionOnSet(f, S \cup T) = SumFunctionOnSet(f, S) + SumFunctionOnSet(f, T)
<1> DEFINE Bad == {w \in SUBSET T :
                     SumFunctionOnSet(f, S \cup w) # SumFunctionOnSet(f, S) + SumFunctionOnSet(f, w)}
<1>1. SUFFICES ASSUME Bad # {} PROVE FALSE
  OBVIOUS
<1>2. PICK m \in Bad : \A w \in Bad : w \subseteq m => w = m
  <2>1. Bad \in SUBSET SUBSET T
    OBVIOUS
  <2> HIDE DEF Bad
  <2> QED BY <1>1, <2>1, LeastSubset
<1>3. SumFunctionOnSet(f, S) \in Int
  BY SumType
<1>4. m # {}
  <2>1. m = {} => SumFunctionOnSet(f, m) = 0
    BY SumOfNothing
  <2>2. m = {} => S \cup m = S
    OBVIOUS
  <2>3. m = {} => SumFunctionOnSet(f, S \cup m) = SumFunctionOnSet(f, S)
    BY <2>2, Zenon
  <2>4. SumFunctionOnSet(f, S \cup m) # SumFunctionOnSet(f, S) + SumFunctionOnSet(f, m)
    BY <1>2
  <2> QED BY <1>3, <2>1, <2>3, <2>4
<1> DEFINE p == pick(m)
           rest == m \ {p}
<1>5. p \in m
  BY <1>4, PickInSet
<1>6. SumFunctionOnSet(f, S \cup rest) = SumFunctionOnSet(f, S) + SumFunctionOnSet(f, rest)
  BY <1>2, <1>5
<1>7. /\ IsFiniteSet(m) /\ IsFiniteSet(rest) /\ IsFiniteSet(S \cup m)
      /\ p \in S \cup m /\ (S \cup m) \ {p} = S \cup rest
      /\ \A x \in S \cup m : f[x] \in Int
  BY <1>2, <1>5, FS_Subset, FS_Union
<1> HIDE DEF rest, p
<1>8. SumFunctionOnSet(f, S \cup m) = f[p] + SumFunctionOnSet(f, S \cup rest)
  BY <1>7, SumTakeOut
<1>9. SumFunctionOnSet(f, m) = f[p] + SumFunctionOnSet(f, rest)
  BY <1>5, <1>7, SumTakeOut DEF rest
<1>10. f[p] \in Int /\ SumFunctionOnSet(f, rest) \in Int
  <2>1. \A x \in rest : f[x] \in Int
    BY <1>7 DEF rest
  <2> QED BY <1>7, <2>1, SumType
<1> QED BY <1>2, <1>3, <1>6, <1>8, <1>9, <1>10

\* Sums add up term by term.
LEMMA SumPlus ==
    ASSUME NEW f, NEW g, NEW h, NEW S, IsFiniteSet(S),
           \A x \in S : f[x] \in Int /\ g[x] \in Int /\ h[x] = f[x] + g[x]
    PROVE  SumFunctionOnSet(h, S) = SumFunctionOnSet(f, S) + SumFunctionOnSet(g, S)
<1> DEFINE Bad == {w \in SUBSET S :
                     SumFunctionOnSet(h, w) # SumFunctionOnSet(f, w) + SumFunctionOnSet(g, w)}
<1>1. SUFFICES ASSUME Bad # {} PROVE FALSE
  OBVIOUS
<1>2. PICK m \in Bad : \A w \in Bad : w \subseteq m => w = m
  <2>1. Bad \in SUBSET SUBSET S
    OBVIOUS
  <2> HIDE DEF Bad
  <2> QED BY <1>1, <2>1, LeastSubset
<1>3. IsFiniteSet(m) /\ m # {}
  <2>1. IsFiniteSet(m)
    BY <1>2, FS_Subset
  <2>2. m = {} => SumFunctionOnSet(f, m) = 0 /\ SumFunctionOnSet(g, m) = 0 /\ SumFunctionOnSet(h, m) = 0
    BY SumOfNothing
  <2> QED BY <1>2, <2>1, <2>2
<1> DEFINE p == pick(m)
           rest == m \ {p}
<1>4. /\ p \in m /\ p \in S /\ IsFiniteSet(rest) /\ rest \subseteq S
      /\ SumFunctionOnSet(f, m) = f[p] + SumFunctionOnSet(f, rest)
      /\ SumFunctionOnSet(g, m) = g[p] + SumFunctionOnSet(g, rest)
      /\ SumFunctionOnSet(h, m) = h[p] + SumFunctionOnSet(h, rest)
  BY <1>2, <1>3, PickInSet, SumUnfolds, FS_Subset
<1>5. SumFunctionOnSet(h, rest) = SumFunctionOnSet(f, rest) + SumFunctionOnSet(g, rest)
  BY <1>2, <1>4
<1> HIDE DEF p, rest
<1>6. SumFunctionOnSet(f, rest) \in Int /\ SumFunctionOnSet(g, rest) \in Int
  BY <1>4, SumType
<1> QED BY <1>2, <1>4, <1>5, <1>6

LEMMA SumScale ==
    ASSUME NEW f, NEW g, NEW S, IsFiniteSet(S), NEW k \in Int,
           \A x \in S : f[x] \in Int /\ g[x] = k * f[x]
    PROVE  SumFunctionOnSet(g, S) = k * SumFunctionOnSet(f, S)
<1> DEFINE Bad == {w \in SUBSET S :
                     SumFunctionOnSet(g, w) # k * SumFunctionOnSet(f, w)}
<1>1. SUFFICES ASSUME Bad # {} PROVE FALSE
  OBVIOUS
<1>2. PICK m \in Bad : \A w \in Bad : w \subseteq m => w = m
  <2>1. Bad \in SUBSET SUBSET S
    OBVIOUS
  <2> HIDE DEF Bad
  <2> QED BY <1>1, <2>1, LeastSubset
<1>3. IsFiniteSet(m) /\ m # {}
  <2>1. IsFiniteSet(m)
    BY <1>2, FS_Subset
  <2>2. m = {} => SumFunctionOnSet(f, m) = 0 /\ SumFunctionOnSet(g, m) = 0
    BY SumOfNothing
  <2> QED BY <1>2, <2>1, <2>2
<1> DEFINE p == pick(m)
           rest == m \ {p}
<1>4. /\ p \in m /\ p \in S /\ IsFiniteSet(rest) /\ rest \subseteq S
      /\ SumFunctionOnSet(f, m) = f[p] + SumFunctionOnSet(f, rest)
      /\ SumFunctionOnSet(g, m) = g[p] + SumFunctionOnSet(g, rest)
  BY <1>2, <1>3, PickInSet, SumUnfolds, FS_Subset
<1>5. SumFunctionOnSet(g, rest) = k * SumFunctionOnSet(f, rest)
  BY <1>2, <1>4
<1> HIDE DEF p, rest
<1>6. SumFunctionOnSet(f, rest) \in Int
  BY <1>4, SumType
<1> QED BY <1>2, <1>4, <1>5, <1>6

LEMMA SumMonotone ==
    ASSUME NEW f, NEW g, NEW S, IsFiniteSet(S),
           \A x \in S : f[x] \in Int /\ g[x] \in Int /\ f[x] <= g[x]
    PROVE  SumFunctionOnSet(f, S) <= SumFunctionOnSet(g, S)
<1> DEFINE Bad == {w \in SUBSET S :
                     ~ (SumFunctionOnSet(f, w) <= SumFunctionOnSet(g, w))}
<1>1. SUFFICES ASSUME Bad # {} PROVE FALSE
  OBVIOUS
<1>2. PICK m \in Bad : \A w \in Bad : w \subseteq m => w = m
  <2>1. Bad \in SUBSET SUBSET S
    OBVIOUS
  <2> HIDE DEF Bad
  <2> QED BY <1>1, <2>1, LeastSubset
<1>3. IsFiniteSet(m) /\ m # {}
  <2>1. IsFiniteSet(m)
    BY <1>2, FS_Subset
  <2>2. m = {} => SumFunctionOnSet(f, m) = 0 /\ SumFunctionOnSet(g, m) = 0
    BY SumOfNothing
  <2> QED BY <1>2, <2>1, <2>2
<1> DEFINE p == pick(m)
           rest == m \ {p}
<1>4. /\ p \in m /\ p \in S /\ IsFiniteSet(rest) /\ rest \subseteq S
      /\ SumFunctionOnSet(f, m) = f[p] + SumFunctionOnSet(f, rest)
      /\ SumFunctionOnSet(g, m) = g[p] + SumFunctionOnSet(g, rest)
  BY <1>2, <1>3, PickInSet, SumUnfolds, FS_Subset
<1>5. SumFunctionOnSet(f, rest) <= SumFunctionOnSet(g, rest)
  BY <1>2, <1>4
<1> HIDE DEF p, rest
<1>6. SumFunctionOnSet(f, rest) \in Int /\ SumFunctionOnSet(g, rest) \in Int
  BY <1>4, SumType
<1> QED BY <1>2, <1>4, <1>5, <1>6

LEMMA SumOfZeros ==
    ASSUME NEW f, NEW S, IsFiniteSet(S), \A x \in S : f[x] = 0
    PROVE  SumFunctionOnSet(f, S) = 0
<1>1. SumFunctionOnSet(f, S) = 0 * SumFunctionOnSet(f, S)
  BY SumScale
<1>2. SumFunctionOnSet(f, S) \in Int
  BY SumType
<1> QED BY <1>1, <1>2

\* A sum of naturals is one, and no less than any of its terms.
LEMMA SumOfNats ==
    ASSUME NEW f, NEW S, IsFiniteSet(S), \A x \in S : f[x] \in Nat
    PROVE  /\ SumFunctionOnSet(f, S) \in Nat
           /\ \A x \in S : f[x] <= SumFunctionOnSet(f, S)
<1>1. ASSUME NEW T \in SUBSET S PROVE SumFunctionOnSet(f, T) \in Nat
  <2> DEFINE zero == [x \in T |-> 0]
  <2>1. IsFiniteSet(T)
    BY FS_Subset
  <2>2. SumFunctionOnSet(zero, T) = 0
    BY <2>1, SumOfZeros
  <2>3. SumFunctionOnSet(f, T) \in Int
    BY <2>1, SumType
  <2>4. SumFunctionOnSet(zero, T) <= SumFunctionOnSet(f, T)
    BY <2>1, SumMonotone
  <2> HIDE DEF zero
  <2> QED BY <2>2, <2>3, <2>4
<1>2. ASSUME NEW x \in S PROVE f[x] <= SumFunctionOnSet(f, S)
  <2>1. SumFunctionOnSet(f, S \ {x}) \in Nat
    BY <1>1
  <2>2. SumFunctionOnSet(f, S) = f[x] + SumFunctionOnSet(f, S \ {x})
    BY SumTakeOut
  <2> QED BY <2>1, <2>2
<1> QED BY <1>1, <1>2

\* Two sums differ by no more than their terms do, each by half of its k.
LEMMA SumClose ==
    ASSUME NEW f, NEW g, NEW k, NEW S, IsFiniteSet(S),
           \A x \in S : /\ f[x] \in Int /\ g[x] \in Int /\ k[x] \in Int
                        /\ 2 * (g[x] - f[x]) <= k[x] /\ 2 * (f[x] - g[x]) <= k[x]
    PROVE  /\ 2 * (SumFunctionOnSet(g, S) - SumFunctionOnSet(f, S)) <= SumFunctionOnSet(k, S)
           /\ 2 * (SumFunctionOnSet(f, S) - SumFunctionOnSet(g, S)) <= SumFunctionOnSet(k, S)
<1>1. ASSUME NEW a, NEW b,
             \A x \in S : a[x] \in Int /\ b[x] \in Int /\ k[x] \in Int /\ 2 * (b[x] - a[x]) <= k[x]
      PROVE  2 * (SumFunctionOnSet(b, S) - SumFunctionOnSet(a, S)) <= SumFunctionOnSet(k, S)
  <2> DEFINE aa == [x \in S |-> 2 * a[x]]
             bb == [x \in S |-> 2 * b[x]]
             top == [x \in S |-> 2 * a[x] + k[x]]
  <2>1. SumFunctionOnSet(aa, S) = 2 * SumFunctionOnSet(a, S)
    BY <1>1, SumScale
  <2>2. SumFunctionOnSet(bb, S) = 2 * SumFunctionOnSet(b, S)
    BY <1>1, SumScale
  <2>3. SumFunctionOnSet(top, S) = SumFunctionOnSet(aa, S) + SumFunctionOnSet(k, S)
    BY <1>1, SumPlus
  <2>4. SumFunctionOnSet(bb, S) <= SumFunctionOnSet(top, S)
    BY <1>1, SumMonotone
  <2>5. /\ SumFunctionOnSet(a, S) \in Int /\ SumFunctionOnSet(b, S) \in Int
        /\ SumFunctionOnSet(k, S) \in Int
    BY <1>1, SumType
  <2> HIDE DEF aa, bb, top
  <2> QED BY <2>1, <2>2, <2>3, <2>4, <2>5
<1> QED BY <1>1

\* A sum of the same term.
LEMMA SumOfSame ==
    ASSUME NEW f, NEW S, IsFiniteSet(S), NEW k \in Int, \A x \in S : f[x] = k
    PROVE  SumFunctionOnSet(f, S) = k * Cardinality(S)
<1> DEFINE Bad == {w \in SUBSET S : SumFunctionOnSet(f, w) # k * Cardinality(w)}
<1>1. SUFFICES ASSUME Bad # {} PROVE FALSE
  OBVIOUS
<1>2. PICK m \in Bad : \A w \in Bad : w \subseteq m => w = m
  <2>1. Bad \in SUBSET SUBSET S
    OBVIOUS
  <2> HIDE DEF Bad
  <2> QED BY <1>1, <2>1, LeastSubset
<1>3. IsFiniteSet(m) /\ m # {}
  <2>1. IsFiniteSet(m)
    BY <1>2, FS_Subset
  <2>2. m = {} => SumFunctionOnSet(f, m) = 0 /\ Cardinality(m) = 0
    BY SumOfNothing, FS_EmptySet
  <2>3. SumFunctionOnSet(f, m) # k * Cardinality(m)
    BY <1>2
  <2>4. k * 0 = 0
    OBVIOUS
  <2> QED BY <2>1, <2>2, <2>3, <2>4
<1> DEFINE p == pick(m)
           rest == m \ {p}
<1>4. /\ p \in m /\ p \in S /\ IsFiniteSet(rest) /\ rest \subseteq S
      /\ SumFunctionOnSet(f, m) = f[p] + SumFunctionOnSet(f, rest)
  BY <1>2, <1>3, PickInSet, SumUnfolds, FS_Subset
<1>5. SumFunctionOnSet(f, rest) = k * Cardinality(rest)
  BY <1>2, <1>4
<1>6. Cardinality(rest) = Cardinality(m) - 1 /\ Cardinality(m) \in Nat
  BY <1>3, <1>4, FS_RemoveElement, FS_CardinalityType
<1> HIDE DEF p, rest
<1>7. k * (Cardinality(m) - 1) = k * Cardinality(m) - k /\ k * Cardinality(m) \in Int
  BY <1>6
<1>8. f[p] = k
  BY <1>4
<1> QED BY <1>2, <1>4, <1>5, <1>6, <1>7, <1>8

-----------------------------------------------------------------------------
(* Sums over the image of a set, and over a set with one member replaced. *)

LEMMA FiniteImage ==
    ASSUME NEW S, IsFiniteSet(S), NEW m, NEW T, T = {m[x] : x \in S}
    PROVE  IsFiniteSet(T)
<1> DEFINE onto == [x \in S |-> m[x]]
<1>1. onto \in Surjection(S, T)
  BY DEF Surjection
<1> QED BY <1>1, FS_Surjection

LEMMA SumImage ==
    ASSUME NEW S, IsFiniteSet(S), NEW m, NEW T, T = {m[x] : x \in S},
           \A x, y \in S : m[x] = m[y] => x = y,
           NEW f, NEW g, \A x \in S : f[x] \in Int /\ g[m[x]] = f[x]
    PROVE  SumFunctionOnSet(g, T) = SumFunctionOnSet(f, S)
<1> DEFINE image(w) == {m[x] : x \in w}
           Bad == {w \in SUBSET S : SumFunctionOnSet(g, image(w)) # SumFunctionOnSet(f, w)}
<1>1. SUFFICES ASSUME Bad # {} PROVE FALSE
  OBVIOUS
<1>2. PICK n \in Bad : \A u \in Bad : u \subseteq n => u = n
  <2> HIDE DEF Bad
  <2>1. Bad \in SUBSET SUBSET S
    BY DEF Bad
  <2> QED BY <1>1, <2>1, LeastSubset
<1>3. n \subseteq S /\ IsFiniteSet(n)
  BY <1>2, FS_Subset
<1>4. n # {}
  <2>1. SumFunctionOnSet(g, image({})) = 0 /\ SumFunctionOnSet(f, {}) = 0
    BY SumOfNothing
  <2> QED BY <1>2, <2>1
<1> DEFINE p == pick(n)
           rest == n \ {p}
<1>5. p \in n /\ p \in S
  BY <1>3, <1>4, PickInSet
<1>6. rest \subseteq S /\ rest # n /\ IsFiniteSet(rest)
  BY <1>3, <1>5, FS_Subset
<1>7. SumFunctionOnSet(g, image(rest)) = SumFunctionOnSet(f, rest)
  <2>1. rest \subseteq n
    OBVIOUS
  <2> HIDE DEF rest, p
  <2> QED BY <1>2, <1>6, <2>1
<1>8. SumFunctionOnSet(f, n) = f[p] + SumFunctionOnSet(f, rest)
  BY <1>3, <1>4, SumUnfolds
<1>9. SumFunctionOnSet(g, image(n)) = SumFunctionOnSet(g, image(rest)) + g[m[p]]
  <2> DEFINE R == image(rest)
  <2>1. IsFiniteSet(R)
    BY <1>6, FiniteImage
  <2>2. m[p] \notin R
    BY <1>5, <1>6
  <2>3. image(n) = R \cup {m[p]}
    BY <1>5
  <2>4. \A y \in R \cup {m[p]} : g[y] \in Int
    BY <1>5, <1>6
  <2> HIDE DEF R, p
  <2>5. SumFunctionOnSet(g, R \cup {m[p]}) = SumFunctionOnSet(g, R) + g[m[p]]
    BY <2>1, <2>2, <2>4, SumAddOne
  <2> QED BY <2>3, <2>5, Zenon DEF R
<1>10. SumFunctionOnSet(f, rest) \in Int /\ f[p] \in Int /\ g[m[p]] = f[p]
  BY <1>5, <1>6, SumType
<1>11. SumFunctionOnSet(g, image(n)) = SumFunctionOnSet(f, n)
  BY <1>7, <1>8, <1>9, <1>10
<1> QED BY <1>2, <1>11

LEMMA SumReplace ==
    ASSUME NEW f, NEW g, NEW S, IsFiniteSet(S), NEW y \in S, NEW z, z \notin S \ {y},
           NEW T, T = (S \ {y}) \cup {z},
           \A x \in S : f[x] \in Int, \A x \in S \ {y} : g[x] = f[x], g[z] \in Int
    PROVE  SumFunctionOnSet(g, T) = SumFunctionOnSet(f, S) - f[y] + g[z]
<1> DEFINE R == S \ {y}
<1>1. IsFiniteSet(R) /\ z \notin R /\ T = R \cup {z} /\ \A x \in R \cup {z} : g[x] \in Int
  BY FS_Subset
<1>2. SumFunctionOnSet(g, R) = SumFunctionOnSet(f, S) - f[y]
  BY SumDrop
<1> HIDE DEF R
<1>3. SumFunctionOnSet(g, R \cup {z}) = SumFunctionOnSet(g, R) + g[z]
  BY <1>1, SumAddOne
<1>4. SumFunctionOnSet(g, T) = SumFunctionOnSet(g, R \cup {z})
  BY <1>1, Zenon
<1> QED BY <1>2, <1>3, <1>4

=============================================================================
