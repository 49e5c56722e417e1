-------------------------- MODULE CountingTheorems --------------------------
(***************************************************************************)
(* Sums over finite sets, rankings of them, and lists, for the proofs      *)
(* about quotes, packets and allowances.                                   *)
(*                                                                         *)
(* A sum is a recursive function on the subsets of its argument; its       *)
(* equations come from looking at a smallest subset for which they would   *)
(* fail. They are stated for functions: a fact about an operator cannot be *)
(* instantiated by the provers.                                            *)
(***************************************************************************)
EXTENDS Integers, Sequences, FiniteSetsExt, FiniteSetTheorems, WellFoundedInduction, TLAPS

\* The sum of f over S, and the equation that defines it by recursion.
Total(f, S) == SumFunctionOnSet(f, S)

pick(s) == CHOOSE x \in s : TRUE

rest(s) == s \ {pick(s)}

IsSum(f, S, g) ==
    g = [s \in SUBSET S |-> IF s = {} THEN 0 ELSE f[pick(s)] + g[rest(s)]]

\* Among the subsets of a finite set, any nonempty collection has a smallest.
LEMMA SmallestSet ==
    ASSUME NEW S, IsFiniteSet(S), NEW Bad \in SUBSET SUBSET S, Bad # {}
    PROVE  \E T \in Bad : \A U \in Bad : U \subseteq T => U = T
<1> DEFINE R == StrictSubsetOrdering(S)
<1>1. IsWellFoundedOn(R, SUBSET S)
  BY FS_StrictSubsetOrderingWellFounded, FS_FiniteSubsetsOfFinite, Zenon
<1> HIDE DEF R
<1>2. PICK T \in Bad : \A U \in Bad : ~ (<<U, T>> \in R)
  BY <1>1, WFMin
<1>3. \A U \in Bad : U \subseteq T => U = T
  BY <1>2, Zenon DEF R, StrictSubsetOrdering
<1> QED BY <1>3

\* Taking the picked element out makes a set smaller.
LEMMA Rest ==
    ASSUME NEW s, s # {}
    PROVE  pick(s) \in s /\ rest(s) \subseteq s /\ rest(s) # s
BY DEF pick, rest

\* The recursion of a sum, at one subset.
LEMMA SumAt ==
    ASSUME NEW f, NEW S, NEW g, IsSum(f, S, g), NEW s \in SUBSET S
    PROVE  g[s] = IF s = {} THEN 0 ELSE f[pick(s)] + g[rest(s)]
BY DEF IsSum

\* The recursion has at most one solution.
LEMMA SumUnique ==
    ASSUME NEW f, NEW S, IsFiniteSet(S), NEW g, NEW h, IsSum(f, S, g), IsSum(f, S, h)
    PROVE  g = h
<1> DEFINE Bad == {s \in SUBSET S : g[s] # h[s]}
<1>1. CASE Bad = {}
  <2>1. DOMAIN g = SUBSET S /\ DOMAIN h = SUBSET S
    BY DEF IsSum
  <2>2. \A s \in SUBSET S : g[s] = h[s]
    BY <1>1
  <2>3. g = [s \in DOMAIN g |-> g[s]] /\ h = [s \in DOMAIN h |-> h[s]]
    BY DEF IsSum
  <2> QED BY <2>1, <2>2, <2>3, Zenon
<1>2. SUFFICES ASSUME Bad # {} PROVE FALSE
  BY <1>1
<1>3. PICK s \in Bad : \A u \in Bad : u \subseteq s => u = s
  <2>1. Bad \in SUBSET SUBSET S
    OBVIOUS
  <2> HIDE DEF Bad
  <2> QED BY <1>2, <2>1, SmallestSet
<1>4. s # {}
  BY SumAt
<1>5. rest(s) \in SUBSET S /\ rest(s) \notin Bad
  BY <1>3, <1>4, Rest
<1>6. g[s] = f[pick(s)] + g[rest(s)] /\ h[s] = f[pick(s)] + h[rest(s)]
  BY <1>4, SumAt
<1> QED BY <1>5, <1>6

\* A solution for a set solves the recursion for its subsets.
LEMMA SumRestricts ==
    ASSUME NEW f, NEW S, NEW g, IsSum(f, S, g), NEW T \in SUBSET S
    PROVE  IsSum(f, T, [s \in SUBSET T |-> g[s]])
<1> DEFINE h == [s \in SUBSET T |-> g[s]]
<1>1. ASSUME NEW s \in SUBSET T
      PROVE  h[s] = IF s = {} THEN 0 ELSE f[pick(s)] + h[rest(s)]
  <2>1. g[s] = IF s = {} THEN 0 ELSE f[pick(s)] + g[rest(s)]
    BY SumAt
  <2>2. s # {} => rest(s) \in SUBSET T
    BY Rest
  <2> QED BY <2>1, <2>2
<1> QED BY <1>1, Zenon DEF IsSum

SumFcn(f, S) == CHOOSE g : IsSum(f, S, g)

\* The recursion has a solution on every finite set: the value at a set is put
\* together from the solutions for smaller sets, which agree.
LEMMA SumExists ==
    ASSUME NEW f, NEW S, IsFiniteSet(S)
    PROVE  \E g : IsSum(f, S, g)
<1> DEFINE Bad == {T \in SUBSET S : ~ \E g : IsSum(f, T, g)}
<1>1. SUFFICES ASSUME Bad # {} PROVE FALSE
  <2>1. S \in SUBSET S
    OBVIOUS
  <2> QED BY <2>1
<1>2. PICK T \in Bad : \A U \in Bad : U \subseteq T => U = T
  <2>1. Bad \in SUBSET SUBSET S
    OBVIOUS
  <2> HIDE DEF Bad
  <2> QED BY <1>1, <2>1, SmallestSet
<1>3. IsFiniteSet(T)
  BY FS_Subset
<1>4. ASSUME NEW u \in SUBSET T, u # T PROVE IsSum(f, u, SumFcn(f, u)) /\ IsFiniteSet(u)
  BY <1>2, <1>3, <1>4, FS_Subset, Zenon DEF SumFcn
<1> DEFINE V(u) == SumFcn(f, u)[u]
           g == [s \in SUBSET T |-> IF s = {} THEN 0 ELSE f[pick(s)] + V(rest(s))]
<1>5. ASSUME NEW s \in SUBSET T, s # {} PROVE g[rest(s)] = V(rest(s))
  <2> DEFINE u == rest(s)
             w == rest(u)
  <2>1. u \in SUBSET T /\ u # T
    BY <1>5, Rest
  <2>2. IsSum(f, u, SumFcn(f, u)) /\ IsFiniteSet(u)
    BY <1>4, <2>1
  <2>3. CASE u = {}
    BY <2>1, <2>2, <2>3, SumAt, Zenon
  <2>4. CASE u # {}
    <3>1. w \in SUBSET u /\ w # T /\ w \in SUBSET T
      BY <2>1, <2>4, Rest, Zenon
    <3>2. IsSum(f, w, SumFcn(f, w)) /\ IsFiniteSet(w)
      BY <1>4, <3>1
    <3>3. IsSum(f, w, [x \in SUBSET w |-> SumFcn(f, u)[x]])
      BY <2>2, <3>1, SumRestricts, Zenon
    <3>4. SumFcn(f, w) = [x \in SUBSET w |-> SumFcn(f, u)[x]]
      BY <3>2, <3>3, SumUnique, Zenon
    <3>5. V(w) = SumFcn(f, u)[w]
      BY <3>4
    <3>6. V(u) = f[pick(u)] + SumFcn(f, u)[w]
      BY <2>2, <2>4, SumAt
    <3> QED BY <3>5, <3>6, <2>1, <2>4, Zenon
  <2> QED BY <2>3, <2>4
<1>6. IsSum(f, T, g)
  BY <1>5, Zenon DEF IsSum
<1> QED BY <1>6

\* SumFunctionOnSet is the value of the solution at the whole set.
LEMMA TotalIsSum ==
    ASSUME NEW f, NEW S
    PROVE  Total(f, S) = SumFcn(f, S)[S]
BY DEF Total, SumFunctionOnSet, FoldFunctionOnSet, MapThenFoldSet, SumFcn, IsSum, pick, rest

\* The recursion the sum unfolds into.
LEMMA TotalStep ==
    ASSUME NEW f, NEW S, IsFiniteSet(S)
    PROVE  Total(f, S) = IF S = {} THEN 0 ELSE f[pick(S)] + Total(f, rest(S))
<1>1. IsSum(f, S, SumFcn(f, S))
  BY SumExists DEF SumFcn
<1>2. CASE S = {}
  BY <1>1, <1>2, SumAt, TotalIsSum, Zenon
<1>3. CASE S # {}
  <2> DEFINE u == rest(S)
  <2>1. u \in SUBSET S /\ IsFiniteSet(u)
    BY <1>3, Rest, FS_Subset, Zenon
  <2>2. IsSum(f, u, SumFcn(f, u))
    BY <2>1, SumExists DEF SumFcn
  <2>3. IsSum(f, u, [x \in SUBSET u |-> SumFcn(f, S)[x]])
    BY <1>1, <2>1, SumRestricts, Zenon
  <2>4. SumFcn(f, u) = [x \in SUBSET u |-> SumFcn(f, S)[x]]
    BY <2>1, <2>2, <2>3, SumUnique, Zenon
  <2>5. SumFcn(f, u)[u] = SumFcn(f, S)[u]
    BY <2>4
  <2>6. S \in SUBSET S
    OBVIOUS
  <2>7. SumFcn(f, S)[S] = f[pick(S)] + SumFcn(f, S)[u]
    BY <1>1, <1>3, <2>6, SumAt
  <2> QED BY <1>3, <2>5, <2>7, TotalIsSum, Zenon
<1> QED BY <1>2, <1>3

\* A sum of naturals is a natural.
LEMMA TotalNat ==
    ASSUME NEW f, NEW S, IsFiniteSet(S), \A x \in S : f[x] \in Nat
    PROVE  Total(f, S) \in Nat
<1> DEFINE Bad == {T \in SUBSET S : Total(f, T) \notin Nat}
<1>1. SUFFICES ASSUME Bad # {} PROVE FALSE
  <2>1. S \in SUBSET S
    OBVIOUS
  <2> QED BY <2>1
<1>2. PICK T \in Bad : \A U \in Bad : U \subseteq T => U = T
  <2>1. Bad \in SUBSET SUBSET S
    OBVIOUS
  <2> HIDE DEF Bad
  <2> QED BY <1>1, <2>1, SmallestSet
<1>3. IsFiniteSet(T)
  BY FS_Subset
<1>4. T # {}
  BY <1>3, TotalStep
<1>5. rest(T) \in SUBSET S /\ rest(T) \notin Bad /\ pick(T) \in S
  BY <1>2, <1>4, Rest, Zenon
<1>6. Total(f, T) = f[pick(T)] + Total(f, rest(T))
  BY <1>3, <1>4, TotalStep, Zenon
<1> QED BY <1>5, <1>6

\* A sum of integers is an integer.
LEMMA TotalInt ==
    ASSUME NEW f, NEW S, IsFiniteSet(S), \A x \in S : f[x] \in Int
    PROVE  Total(f, S) \in Int
<1> DEFINE Bad == {T \in SUBSET S : Total(f, T) \notin Int}
<1>1. SUFFICES ASSUME Bad # {} PROVE FALSE
  <2>1. S \in SUBSET S
    OBVIOUS
  <2> QED BY <2>1
<1>2. PICK T \in Bad : \A U \in Bad : U \subseteq T => U = T
  <2>1. Bad \in SUBSET SUBSET S
    OBVIOUS
  <2> HIDE DEF Bad
  <2> QED BY <1>1, <2>1, SmallestSet
<1>3. IsFiniteSet(T)
  BY FS_Subset
<1>4. T # {}
  BY <1>3, TotalStep
<1>5. rest(T) \in SUBSET S /\ rest(T) \notin Bad /\ pick(T) \in S
  BY <1>2, <1>4, Rest, Zenon
<1>6. Total(f, T) = f[pick(T)] + Total(f, rest(T))
  BY <1>3, <1>4, TotalStep, Zenon
<1> QED BY <1>5, <1>6

\* Any element may be taken out first.
LEMMA TotalRemove ==
    ASSUME NEW f, NEW S, IsFiniteSet(S), \A x \in S : f[x] \in Int, NEW y \in S
    PROVE  Total(f, S) = f[y] + Total(f, S \ {y})
<1> DEFINE Bad == {T \in SUBSET S : \E x \in T : Total(f, T) # f[x] + Total(f, T \ {x})}
<1>1. SUFFICES ASSUME Bad # {} PROVE FALSE
  <2>1. S \in SUBSET S
    OBVIOUS
  <2> QED BY <2>1, Zenon
<1>2. PICK T \in Bad : \A U \in Bad : U \subseteq T => U = T
  <2>1. Bad \in SUBSET SUBSET S
    OBVIOUS
  <2> HIDE DEF Bad
  <2> QED BY <1>1, <2>1, SmallestSet
<1>3. PICK x \in T : Total(f, T) # f[x] + Total(f, T \ {x})
  OBVIOUS
<1> DEFINE p == pick(T)
           both == T \ {p, x}
<1>4. IsFiniteSet(T) /\ T # {} /\ p \in T
  BY FS_Subset, Rest
<1> HIDE DEF p
<1>5. Total(f, T) = f[p] + Total(f, T \ {p})
  BY <1>4, TotalStep DEF p, rest
<1>6. p # x
  BY <1>3, <1>5
<1>7. T \ {p} \in SUBSET S /\ T \ {p} \notin Bad /\ x \in T \ {p}
  BY <1>2, <1>4, <1>6, Zenon
<1>8. T \ {x} \in SUBSET S /\ T \ {x} \notin Bad /\ p \in T \ {x}
  BY <1>2, <1>4, <1>6, Zenon
<1>9. (T \ {p}) \ {x} = both /\ (T \ {x}) \ {p} = both
  OBVIOUS
<1>10. Total(f, T \ {p}) = f[x] + Total(f, both)
  BY <1>7, <1>9, Zenon
<1>11. Total(f, T \ {x}) = f[p] + Total(f, both)
  BY <1>8, <1>9, Zenon
<1>12. f[p] \in Int /\ f[x] \in Int /\ Total(f, both) \in Int
  <2>1. IsFiniteSet(both) /\ \A z \in both : f[z] \in Int
    BY <1>4, FS_Subset
  <2> QED BY <1>4, <2>1, TotalInt, Zenon
<1> HIDE DEF both, Bad
<1> QED BY <1>3, <1>5, <1>10, <1>11, <1>12

\* A smaller set of the same terms has no larger sum.
LEMMA TotalMono ==
    ASSUME NEW f, NEW g, NEW S, IsFiniteSet(S), NEW T \in SUBSET S,
           \A x \in S : g[x] \in Nat, \A x \in T : f[x] = g[x]
    PROVE  Total(f, T) <= Total(g, S)
<1> DEFINE Bad == {U \in SUBSET S : ~ (Total(f, U \cap T) <= Total(g, U))}
<1>1. SUFFICES ASSUME Bad # {} PROVE FALSE
  <2>1. S \in SUBSET S /\ S \cap T = T
    OBVIOUS
  <2> QED BY <2>1
<1>2. PICK U \in Bad : \A W \in Bad : W \subseteq U => W = U
  <2>1. Bad \in SUBSET SUBSET S
    OBVIOUS
  <2> HIDE DEF Bad
  <2> QED BY <1>1, <2>1, SmallestSet
<1> DEFINE p == pick(U)
           W == U \ {p}
           below == U \cap T
<1>3. IsFiniteSet(U) /\ IsFiniteSet(below)
  BY FS_Subset
<1>4. U # {}
  <2>1. SUFFICES ASSUME U = {} PROVE FALSE
    OBVIOUS
  <2>2. U \cap T = {}
    BY <2>1
  <2>3. Total(f, U \cap T) = 0 /\ Total(g, U) = 0
    BY <1>3, <2>1, <2>2, TotalStep, Zenon
  <2> QED BY <2>3
<1>5. p \in U /\ p \in S /\ W \in SUBSET S /\ W \notin Bad
  BY <1>2, <1>4, Rest, Zenon
<1>6. Total(g, U) = g[p] + Total(g, W)
  BY <1>3, <1>4, TotalStep, Zenon DEF rest
<1>7. Total(f, W \cap T) <= Total(g, W)
  BY <1>5
<1>8. /\ g[p] \in Nat /\ Total(g, W) \in Nat
      /\ Total(f, W \cap T) \in Nat
  <2>1. IsFiniteSet(W) /\ IsFiniteSet(W \cap T)
    BY <1>5, FS_Subset, Zenon
  <2>2. \A x \in W \cap T : f[x] \in Nat
    BY <1>5
  <2>3. \A x \in W : g[x] \in Nat
    BY <1>5
  <2> HIDE DEF W
  <2> QED BY <1>5, <2>1, <2>2, <2>3, TotalNat, Zenon
<1>9. CASE p \in T
  <2>1. p \in below /\ below \ {p} = W \cap T /\ f[p] = g[p]
    BY <1>5, <1>9
  <2>2. \A x \in below : f[x] \in Int
    OBVIOUS
  <2> HIDE DEF below
  <2>3. Total(f, below) = f[p] + Total(f, below \ {p})
    BY <1>3, <2>1, <2>2, TotalRemove
  <2>4. Total(f, below) = g[p] + Total(f, W \cap T)
    BY <2>1, <2>3
  <2>5. ~ (Total(f, below) <= Total(g, U))
    BY DEF below
  <2> HIDE DEF W, p, Bad
  <2> QED BY <1>6, <1>7, <1>8, <2>4, <2>5
<1>10. CASE p \notin T
  <2>1. below = W \cap T
    BY <1>10
  <2>2. ~ (Total(f, W \cap T) <= Total(g, U))
    BY <2>1
  <2> HIDE DEF W, p, Bad, below
  <2> QED BY <1>6, <1>7, <1>8, <2>2
<1> QED BY <1>9, <1>10

\* Sums of the same terms are the same.
LEMMA TotalSame ==
    ASSUME NEW f, NEW g, NEW S, IsFiniteSet(S), \A x \in S : f[x] = g[x]
    PROVE  Total(f, S) = Total(g, S)
<1> DEFINE Bad == {T \in SUBSET S : Total(f, T) # Total(g, T)}
<1>1. SUFFICES ASSUME Bad # {} PROVE FALSE
  <2>1. S \in SUBSET S
    OBVIOUS
  <2> QED BY <2>1
<1>2. PICK T \in Bad : \A U \in Bad : U \subseteq T => U = T
  <2>1. Bad \in SUBSET SUBSET S
    OBVIOUS
  <2> HIDE DEF Bad
  <2> QED BY <1>1, <2>1, SmallestSet
<1>3. IsFiniteSet(T)
  BY FS_Subset
<1>4. T # {}
  BY <1>3, TotalStep, Zenon
<1>5. rest(T) \in SUBSET S /\ rest(T) \notin Bad /\ pick(T) \in S
  BY <1>2, <1>4, Rest, Zenon
<1>6. /\ Total(f, T) = f[pick(T)] + Total(f, rest(T))
      /\ Total(g, T) = g[pick(T)] + Total(g, rest(T))
  BY <1>3, <1>4, TotalStep, Zenon
<1> QED BY <1>5, <1>6

\* A sum may be taken over any set that stands one to one for another.
LEMMA TotalReindex ==
    ASSUME NEW D, IsFiniteSet(D), NEW h, DOMAIN h = D, IsInjective(h),
           NEW f, \A i \in D : f[h[i]] \in Int
    PROVE  Total([i \in D |-> f[h[i]]], D) = Total(f, {h[i] : i \in D})
<1> DEFINE e == [i \in D |-> f[h[i]]]
           image(T) == {h[i] : i \in T}
           Bad == {T \in SUBSET D : Total(e, T) # Total(f, image(T))}
<1>1. SUFFICES ASSUME Bad # {} PROVE FALSE
  <2>1. D \in SUBSET D
    OBVIOUS
  <2> QED BY <2>1, Zenon
<1>2. PICK T \in Bad : \A U \in Bad : U \subseteq T => U = T
  <2>1. Bad \in SUBSET SUBSET D
    OBVIOUS
  <2> HIDE DEF Bad
  <2> QED BY <1>1, <2>1, SmallestSet
<1>3. IsFiniteSet(T) /\ T \in SUBSET D
  BY FS_Subset
<1>4. IsFiniteSet(image(T))
  <2>1. [i \in T |-> h[i]] \in Surjection(T, image(T))
    BY DEF Surjection
  <2> HIDE DEF image
  <2> QED BY <1>3, <2>1, FS_Surjection, Zenon
<1>5. T # {}
  <2>1. SUFFICES ASSUME T = {} PROVE FALSE
    OBVIOUS
  <2>2. image(T) = {}
    BY <2>1
  <2>3. Total(e, T) = 0 /\ Total(f, image(T)) = 0
    BY <1>3, <1>4, <2>1, <2>2, TotalStep, Zenon
  <2> QED BY <2>3
<1> DEFINE p == pick(T)
           U == T \ {p}
<1>6. p \in T /\ p \in D /\ U \in SUBSET D /\ U \notin Bad
  BY <1>2, <1>3, <1>5, Rest, Zenon
<1>7. Total(e, T) = e[p] + Total(e, U)
  BY <1>3, <1>5, TotalStep, Zenon DEF rest
<1>8. h[p] \in image(T) /\ image(T) \ {h[p]} = image(U)
  <2>1. \A i \in U : h[i] # h[p]
    BY <1>3, <1>6, Zenon DEF IsInjective
  <2> QED BY <1>6, <2>1
<1>9. \A x \in image(T) : f[x] \in Int
  BY <1>3
<1>10. Total(f, image(T)) = f[h[p]] + Total(f, image(U))
  <2> HIDE DEF image, p
  <2>1. Total(f, image(T)) = f[h[p]] + Total(f, image(T) \ {h[p]})
    BY <1>4, <1>8, <1>9, TotalRemove
  <2> QED BY <1>8, <2>1, Zenon
<1>11. Total(e, U) = Total(f, image(U)) /\ e[p] = f[h[p]]
  BY <1>6, Zenon
<1> QED BY <1>7, <1>10, <1>11, Zenon

\* A sum of one term.
LEMMA SumOne ==
    ASSUME NEW f, NEW x, f[x] \in Int
    PROVE  Total(f, {x}) = f[x]
<1>1. IsFiniteSet({x}) /\ IsFiniteSet({}) /\ {x} \ {x} = {}
  BY FS_Singleton, FS_EmptySet, Zenon
<1>2. Total(f, {x}) = f[x] + Total(f, {x} \ {x})
  BY <1>1, TotalRemove
<1>3. Total(f, {}) = 0
  BY <1>1, TotalStep, Zenon
<1> QED BY <1>1, <1>2, <1>3

\* A sum of two terms.
LEMMA SumTwo ==
    ASSUME NEW f, f[1] \in Int, f[2] \in Int
    PROVE  Total(f, 1..2) = f[1] + f[2]
<1>1. IsFiniteSet(1..2)
  <2>1. 1 \in Int /\ 2 \in Int
    OBVIOUS
  <2> QED BY <2>1, FS_Interval, Zenon
<1>2. (1..2) \ {2} = {1} /\ 2 \in 1..2 /\ \A i \in 1..2 : f[i] \in Int
  OBVIOUS
<1>3. Total(f, 1..2) = f[2] + Total(f, (1..2) \ {2})
  BY <1>1, <1>2, TotalRemove
<1>4. Total(f, {1}) = f[1]
  BY SumOne
<1>5. Total(f, 1..2) = f[2] + f[1]
  BY <1>3, <1>4, <1>2, Zenon
<1> QED BY <1>5

\* A sum of three terms.
LEMMA SumThree ==
    ASSUME NEW f, f[1] \in Int, f[2] \in Int, f[3] \in Int
    PROVE  Total(f, 1..3) = f[1] + f[2] + f[3]
<1>1. IsFiniteSet(1..3)
  <2>1. 1 \in Int /\ 3 \in Int
    OBVIOUS
  <2> QED BY <2>1, FS_Interval, Zenon
<1>2. (1..3) \ {3} = 1..2 /\ 3 \in 1..3 /\ \A i \in 1..3 : f[i] \in Int
  OBVIOUS
<1>3. Total(f, 1..3) = f[3] + Total(f, (1..3) \ {3})
  BY <1>1, <1>2, TotalRemove
<1>4. Total(f, 1..2) = f[1] + f[2]
  BY SumTwo
<1>5. Total(f, 1..3) = f[3] + (f[1] + f[2])
  BY <1>3, <1>4, <1>2, Zenon
<1> QED BY <1>5

-----------------------------------------------------------------------------
(* Rankings: what stands before each element of a finite set. *)

IsOrder(before) ==
    /\ IsFiniteSet(DOMAIN before)
    /\ \A x \in DOMAIN before : before[x] \subseteq DOMAIN before /\ x \notin before[x]
    /\ \A x, y \in DOMAIN before : x # y => x \in before[y] \/ y \in before[x]
    /\ \A x, y \in DOMAIN before : x \in before[y] => before[x] \subseteq before[y]

\* What stands before one element is smaller than what stands before a later one.
LEMMA LaterRank ==
    ASSUME NEW before, IsOrder(before), NEW x \in DOMAIN before, NEW y \in DOMAIN before,
           x \in before[y]
    PROVE  Cardinality(before[x]) < Cardinality(before[y])
<1>1. before[x] \in SUBSET before[y] /\ before[x] # before[y]
  BY Zenon DEF IsOrder
<1>2. IsFiniteSet(before[x]) /\ IsFiniteSet(before[y])
  BY FS_Subset, Zenon DEF IsOrder
<1>3. Cardinality(before[x]) <= Cardinality(before[y])
      /\ Cardinality(before[x]) # Cardinality(before[y])
  BY <1>1, <1>2, FS_Subset, Zenon
<1>4. Cardinality(before[x]) \in Nat /\ Cardinality(before[y]) \in Nat
  BY <1>2, FS_CardinalityType, Zenon
<1> QED BY <1>3, <1>4

\* Each rank is taken, and by one element only.
LEMMA Ranks ==
    ASSUME NEW before, IsOrder(before)
    PROVE  /\ Cardinality(DOMAIN before) \in Nat
           /\ \A k \in 1..Cardinality(DOMAIN before) :
                 \E x \in DOMAIN before : Cardinality(before[x]) = k - 1
           /\ \A x, y \in DOMAIN before :
                 Cardinality(before[x]) = Cardinality(before[y]) => x = y
<1> DEFINE D == DOMAIN before
           n == Cardinality(D)
           rank == [x \in D |-> Cardinality(before[x])]
<1>1. n \in Nat /\ IsFiniteSet(D)
  BY FS_CardinalityType, Zenon DEF IsOrder
<1>2. ASSUME NEW x \in D PROVE rank[x] \in 0..(n - 1)
  <2>1. before[x] \in SUBSET D /\ before[x] # D
    BY Zenon DEF IsOrder
  <2>2. IsFiniteSet(before[x]) /\ Cardinality(before[x]) <= n /\ Cardinality(before[x]) # n
    BY <1>1, <2>1, FS_Subset, Zenon
  <2>3. Cardinality(before[x]) \in Nat
    BY <2>2, FS_CardinalityType, Zenon
  <2> QED BY <1>1, <2>2, <2>3
<1>3. ASSUME NEW x \in D, NEW y \in D, rank[x] = rank[y] PROVE x = y
  <2>1. SUFFICES ASSUME x # y PROVE FALSE
    OBVIOUS
  <2>2. rank[x] \in Int /\ rank[y] \in Int
    BY <1>2
  <2>3. rank[x] < rank[y] \/ rank[y] < rank[x]
    BY <2>1, LaterRank, Zenon DEF IsOrder
  <2> QED BY <1>3, <2>2, <2>3
<1>4. rank \in Injection(D, 0..(n - 1))
  BY <1>2, <1>3 DEF Injection, IsInjective
<1>5. IsFiniteSet(0..(n - 1)) /\ Cardinality(0..(n - 1)) = n
  BY <1>1, FS_Interval
<1>6. rank \in Surjection(D, 0..(n - 1))
  BY <1>4, <1>5, FS_Injection
<1>7. ASSUME NEW k \in 1..n PROVE \E x \in D : rank[x] = k - 1
  <2>1. k - 1 \in 0..(n - 1)
    BY <1>1
  <2> QED BY <1>6, <2>1 DEF Surjection
<1> QED BY <1>1, <1>3, <1>7

-----------------------------------------------------------------------------
(* Lists. *)

IsList(s) == s \in Seq(Range(s))

\* The domain of a list.
LEMMA ListDomain ==
    ASSUME NEW s, IsList(s)
    PROVE  Len(s) \in Nat /\ DOMAIN s = 1..Len(s) /\ IsFiniteSet(DOMAIN s)
<1>1. Len(s) \in Nat /\ DOMAIN s = 1..Len(s)
  BY DEF IsList
<1>2. 1 \in Int /\ Len(s) \in Int
  BY <1>1
<1> QED
  BY <1>1, <1>2, FS_Interval, Zenon

\* Finitely many arguments give finitely many values.
LEMMA ImageFinite ==
    ASSUME NEW S, IsFiniteSet(S), NEW f
    PROVE  IsFiniteSet({f[x] : x \in S})
<1> DEFINE T == {f[x] : x \in S}
           g == [x \in S |-> f[x]]
<1>1. g \in Surjection(S, T)
  BY Zenon DEF Surjection
<1> QED
  BY <1>1, FS_Surjection, Zenon

\* A list holds finitely many elements.
LEMMA RangeFinite ==
    ASSUME NEW s, IsList(s)
    PROVE  IsFiniteSet(Range(s))
BY ListDomain, ImageFinite, Zenon DEF Range

\* A function on 1..n is a list.
LEMMA FunctionIsList ==
    ASSUME NEW T, NEW n \in Nat, NEW a \in [1..n -> T]
    PROVE  a \in Seq(T) /\ Len(a) = n
OBVIOUS

\* A list of one element.
LEMMA OneElement ==
    ASSUME NEW s, IsList(s), Len(s) = 1
    PROVE  DOMAIN s = {1} /\ s = <<s[1]>>
BY DEF IsList

\* The list of one element, and that element exchanged.
LEMMA Singleton ==
    ASSUME NEW a
    PROVE  /\ IsList(<<a>>) /\ DOMAIN <<a>> = {1} /\ Len(<<a>>) = 1 /\ <<a>>[1] = a
           /\ Range(<<a>>) = {a}
           /\ \A b : [<<a>> EXCEPT ![1] = b] = <<b>>
<1>1. DOMAIN <<a>> = {1} /\ Len(<<a>>) = 1 /\ <<a>>[1] = a
  OBVIOUS
<1>2. Range(<<a>>) = {a}
  BY <1>1, Zenon DEF Range
<1>3. <<a>> \in Seq({a})
  OBVIOUS
<1>4. ASSUME NEW b PROVE [<<a>> EXCEPT ![1] = b] = <<b>>
  OBVIOUS
<1> QED
  BY <1>1, <1>2, <1>3, <1>4, Zenon DEF IsList

\* What a list holds after an append.
LEMMA Appended ==
    ASSUME NEW s, IsList(s), NEW x
    PROVE  /\ IsList(Append(s, x))
           /\ Range(Append(s, x)) = Range(s) \cup {x}
           /\ Len(Append(s, x)) = Len(s) + 1
           /\ \A i \in DOMAIN Append(s, x) : i \in DOMAIN s \/ Append(s, x)[i] = x
           /\ \A i \in DOMAIN s : Append(s, x)[i] = s[i]
<1> DEFINE T == Range(s) \cup {x}
           t == Append(s, x)
<1>1. s \in Seq(T) /\ x \in T
  BY DEF IsList, Range
<1>2. /\ t \in Seq(T) /\ Len(t) = Len(s) + 1 /\ DOMAIN t = 1..(Len(s) + 1)
      /\ DOMAIN s = 1..Len(s) /\ Len(s) \in Nat
      /\ \A i \in 1..Len(s) : t[i] = s[i]
      /\ t[Len(s) + 1] = x
  BY <1>1
<1>3. \A i \in DOMAIN t : i \in DOMAIN s \/ t[i] = x
  BY <1>2
<1>4. \A i \in DOMAIN s : t[i] = s[i] /\ i \in DOMAIN t
  BY <1>2
<1>5. Len(s) + 1 \in DOMAIN t
  BY <1>2
<1> HIDE DEF t, T
<1>6. Range(t) = T
  <2>1. ASSUME NEW y \in T PROVE y \in Range(t)
    BY <1>4, <1>5, <1>2, <2>1, Zenon DEF T, Range
  <2>2. ASSUME NEW i \in DOMAIN t PROVE t[i] \in T
    BY <1>1, <1>2, <1>3, <1>4, Zenon DEF T, Range
  <2> QED
    BY <2>1, <2>2, Zenon DEF Range
<1>7. IsList(t)
  BY <1>2, <1>6, Zenon DEF IsList
<1> QED
  BY <1>2, <1>3, <1>4, <1>6, <1>7, Zenon DEF t, T

\* Min of a nonempty set of naturals is its least element.
LEMMA LeastOf ==
    ASSUME NEW S \in SUBSET Nat, S # {}
    PROVE  Min(S) \in S /\ \A x \in S : Min(S) <= x
<1>1. \E m \in S : \A x \in S : m <= x
  <2> DEFINE R == OpToRel(<, Nat)
  <2>1. PICK m \in S : \A x \in S : ~ (<<x, m>> \in R)
    <3> HIDE DEF R
    <3> QED
      BY WFMin, NatLessThanWellFounded, Zenon DEF R
  <2>2. \A x \in S : ~ (x < m)
    BY <2>1 DEF OpToRel
  <2> QED
    BY <2>2
<1> QED
  BY <1>1 DEF Min

\* A sum over a list is the sum over its places.
LEMMA SumIsTotal ==
    ASSUME NEW f
    PROVE  SumFunction(f) = Total(f, DOMAIN f)
BY DEF SumFunction, Total
=============================================================================
