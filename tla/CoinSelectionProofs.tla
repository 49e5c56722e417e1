------------------------- MODULE CoinSelectionProofs -------------------------
(***************************************************************************)
(* The coin selection of a spend, for every set of coins, every fee        *)
(* program, every amount and every change of the index between two pages.  *)
(* The invariant says of an answer what the search has tried before it:    *)
(* a quote is what solving a prefix of the sorted coins gave, a refusal    *)
(* for lack of funds means that every prefix failed. The rest is about     *)
(* lists: that sorting keeps every coin once, and what sums over a list of *)
(* different coins come to.                                                *)
(***************************************************************************)
EXTENDS CoinSelection, CountingTheorems, SequenceTheorems, TLAPS

-----------------------------------------------------------------------------
(* Coin selection: lists put in order. *)

\* a holds what s has at the places D, each once.
Arranges(a, s, D) ==
    \E h \in [1..Cardinality(D) -> D] :
        /\ \A k \in 1..Cardinality(D) : a[k] = s[h[k]]
        /\ \A k, l \in 1..Cardinality(D) : h[k] = h[l] => k = l
        /\ \A i \in D : \E k \in 1..Cardinality(D) : h[k] = i

\* arranged takes every place once, whatever the order.
LEMMA Arranged ==
    ASSUME NEW s, NEW before, IsOrder(before)
    PROVE  /\ Cardinality(DOMAIN before) \in Nat
           /\ DOMAIN arranged(s, before) = 1..Cardinality(DOMAIN before)
           /\ Arranges(arranged(s, before), s, DOMAIN before)
<1> DEFINE D == DOMAIN before
           n == Cardinality(D)
           h == [k \in 1..n |-> CHOOSE i \in D : Cardinality(before[i]) = k - 1]
<1>1. /\ n \in Nat
      /\ \A k \in 1..n : \E i \in D : Cardinality(before[i]) = k - 1
      /\ \A i, j \in D : Cardinality(before[i]) = Cardinality(before[j]) => i = j
  BY Ranks, Zenon
<1>2. ASSUME NEW k \in 1..n PROVE h[k] \in D /\ Cardinality(before[h[k]]) = k - 1
  BY <1>1
<1>3. ASSUME NEW i \in D PROVE \E k \in 1..n : h[k] = i
  <2>1. IsFiniteSet(D) /\ before[i] \subseteq D /\ i \notin before[i]
    BY Zenon DEF IsOrder
  <2>2. /\ IsFiniteSet(before[i]) /\ Cardinality(before[i]) <= n
        /\ (n = Cardinality(before[i]) => D = before[i])
    BY <2>1, FS_Subset, Zenon
  <2>3. Cardinality(before[i]) \in Nat /\ Cardinality(before[i]) # n
    BY <2>1, <2>2, FS_CardinalityType, Zenon
  <2>4. PICK k \in 1..n : k - 1 = Cardinality(before[i])
    <3>1. Cardinality(before[i]) + 1 \in 1..n
      BY <1>1, <2>2, <2>3
    <3>2. (Cardinality(before[i]) + 1) - 1 = Cardinality(before[i])
      BY <2>3
    <3> QED
      BY <3>1, <3>2, Zenon
  <2>5. Cardinality(before[h[k]]) = Cardinality(before[i]) /\ h[k] \in D
    BY <1>2, <2>4
  <2> HIDE DEF h
  <2> QED
    BY <1>1, <2>5, Zenon
<1>4. \A k, l \in 1..n : h[k] = h[l] => k = l
  <2>1. ASSUME NEW k \in 1..n, NEW l \in 1..n, h[k] = h[l] PROVE k = l
    <3>1. Cardinality(before[h[k]]) = k - 1 /\ Cardinality(before[h[l]]) = l - 1
      BY <1>2, Zenon
    <3> HIDE DEF h, n
    <3>2. k - 1 = l - 1
      BY <2>1, <3>1, Zenon
    <3> QED
      BY <3>2
  <2> QED
    BY <2>1, Zenon
<1>5. h \in [1..n -> D]
  BY <1>2
<1>6. \A k \in 1..n : arranged(s, before)[k] = s[h[k]]
  BY DEF arranged
<1>7. DOMAIN arranged(s, before) = 1..n
  BY DEF arranged
<1> HIDE DEF h
<1> QED
  BY <1>1, <1>3, <1>4, <1>5, <1>6, <1>7, Zenon DEF Arranges

\* What is arranged is a list of what was at those places, without repetition
\* if there was none.
LEMMA ArrangedList ==
    ASSUME NEW s, NEW before, IsOrder(before)
    PROVE  /\ IsList(arranged(s, before))
           /\ Len(arranged(s, before)) = Cardinality(DOMAIN before)
           /\ Range(arranged(s, before)) = {s[i] : i \in DOMAIN before}
           /\ (\A i, j \in DOMAIN before : s[i] = s[j] => i = j) => IsInjective(arranged(s, before))
<1> DEFINE D == DOMAIN before
           n == Cardinality(D)
           a == arranged(s, before)
<1>1. n \in Nat /\ DOMAIN a = 1..n /\ Arranges(a, s, D)
  BY Arranged, Zenon
<1>2. a = [k \in 1..n |-> a[k]]
  BY DEF arranged
<1> HIDE DEF a, n, D
<1>3. PICK h \in [1..n -> D] :
         /\ \A k \in 1..n : a[k] = s[h[k]]
         /\ \A k, l \in 1..n : h[k] = h[l] => k = l
         /\ \A i \in D : \E k \in 1..n : h[k] = i
  BY <1>1, Zenon DEF Arranges, n
<1>4. Range(a) = {s[i] : i \in D}
  <2>1. ASSUME NEW k \in 1..n PROVE a[k] \in {s[i] : i \in D}
    <3>1. h[k] \in D /\ a[k] = s[h[k]]
      BY <1>3
    <3> QED
      BY <3>1, Zenon
  <2>2. ASSUME NEW i \in D PROVE s[i] \in Range(a)
    <3>1. PICK k \in 1..n : h[k] = i
      BY <1>3
    <3>2. k \in DOMAIN a /\ a[k] = s[i]
      BY <1>1, <1>3, <3>1
    <3> QED
      BY <3>2, Zenon DEF Range
  <2> QED
    BY <1>1, <2>1, <2>2, Zenon DEF Range
<1>5. a \in [1..n -> Range(a)]
  BY <1>1, <1>2, Zenon DEF Range
<1>6. a \in Seq(Range(a)) /\ Len(a) = n
  BY <1>1, <1>5, FunctionIsList, Zenon
<1>7. ASSUME \A i, j \in D : s[i] = s[j] => i = j PROVE IsInjective(a)
  <2>1. ASSUME NEW k \in 1..n, NEW l \in 1..n, a[k] = a[l] PROVE k = l
    <3>1. h[k] \in D /\ h[l] \in D /\ s[h[k]] = s[h[l]]
      BY <1>3, <2>1
    <3> QED
      BY <1>3, <1>7, <3>1
  <2> QED
    BY <1>1, <2>1, Zenon DEF IsInjective
<1> QED
  BY <1>4, <1>6, <1>7, Zenon DEF IsList, a, n, D

\* The orders that lists are put in: of places, of outpoints, of values.
placesBefore(D) == [i \in D |-> {j \in D : j < i}]
pointsBefore(s, D) == [i \in D |-> {j \in D : s[j] < s[i] \/ (s[j] = s[i] /\ j < i)}]
valuesBefore(s, D) ==
    [i \in D |-> {j \in D : largerFirst(s[j], s[i]) \/ (s[j] = s[i] /\ j < i)}]

\* The order of places.
LEMMA PlaceOrder ==
    ASSUME NEW D \in SUBSET Nat, IsFiniteSet(D)
    PROVE  IsOrder(placesBefore(D))
<1> DEFINE b == [i \in D |-> {j \in D : j < i}]
<1>1. DOMAIN b = D
  OBVIOUS
<1>2. \A x \in D : b[x] \subseteq D /\ x \notin b[x]
  OBVIOUS
<1>3. \A x, y \in D : x # y => x \in b[y] \/ y \in b[x]
  OBVIOUS
<1>4. \A x, y \in D : x \in b[y] => b[x] \subseteq b[y]
  <2>1. ASSUME NEW x \in D, NEW y \in D, x \in b[y], NEW z \in b[x] PROVE z \in b[y]
    BY <2>1
  <2> HIDE DEF b
  <2> QED
    BY <2>1, Zenon
<1> HIDE DEF b
<1> QED
  BY <1>1, <1>2, <1>3, <1>4, Zenon DEF IsOrder, b, placesBefore

\* The order of outpoints, ties in the order they were in.
LEMMA OutpointOrder ==
    ASSUME NEW D \in SUBSET Nat, IsFiniteSet(D), NEW s, \A i \in D : s[i] \in Nat
    PROVE  IsOrder(pointsBefore(s, D))
<1> DEFINE b == [i \in D |-> {j \in D : s[j] < s[i] \/ (s[j] = s[i] /\ j < i)}]
<1>1. DOMAIN b = D
  OBVIOUS
<1>2. \A x \in D : b[x] \subseteq D /\ x \notin b[x]
  OBVIOUS
<1>3. \A x, y \in D : x # y => x \in b[y] \/ y \in b[x]
  OBVIOUS
<1>4. \A x, y \in D : x \in b[y] => b[x] \subseteq b[y]
  <2>1. ASSUME NEW x \in D, NEW y \in D, x \in b[y], NEW z \in b[x] PROVE z \in b[y]
    BY <2>1
  <2> HIDE DEF b
  <2> QED
    BY <2>1, Zenon
<1> HIDE DEF b
<1> QED
  BY <1>1, <1>2, <1>3, <1>4, Zenon DEF IsOrder, b, pointsBefore

\* The order of effective values, then of outpoints.
LEMMA ValueOrder ==
    ASSUME NEW D \in SUBSET Nat, IsFiniteSet(D), NEW s,
           \A i \in D : s[i] \in Nat /\ effective(s[i]) \in Int
    PROVE  IsOrder(valuesBefore(s, D))
<1> DEFINE b == [i \in D |-> {j \in D : largerFirst(s[j], s[i]) \/ (s[j] = s[i] /\ j < i)}]
<1>1. DOMAIN b = D
  OBVIOUS
<1>2. \A x \in D : b[x] \subseteq D /\ x \notin b[x]
  BY DEF largerFirst
<1>3. \A x, y \in D : x # y => x \in b[y] \/ y \in b[x]
  BY DEF largerFirst
<1>4. \A x, y \in D : x \in b[y] => b[x] \subseteq b[y]
  <2>1. ASSUME NEW x \in D, NEW y \in D, x \in b[y], NEW z \in b[x] PROVE z \in b[y]
    BY <2>1 DEF largerFirst
  <2> HIDE DEF b
  <2> QED
    BY <2>1, Zenon
<1> HIDE DEF b
<1> QED
  BY <1>1, <1>2, <1>3, <1>4, Zenon DEF IsOrder, b, valuesBefore

\* kept is the list of what is at the given places.
LEMMA KeptList ==
    ASSUME NEW s, IsList(s), NEW D \in SUBSET DOMAIN s
    PROVE  /\ IsList(kept(s, D)) /\ Len(kept(s, D)) = Cardinality(D)
           /\ Range(kept(s, D)) = {s[i] : i \in D}
           /\ IsInjective(s) => IsInjective(kept(s, D))
<1> DEFINE b == placesBefore(D)
<1>1. D \subseteq Nat /\ IsFiniteSet(D)
  BY ListDomain, FS_Subset
<1>2. IsOrder(b)
  BY <1>1, PlaceOrder, Zenon
<1>3. kept(s, D) = arranged(s, b) /\ DOMAIN b = D
  BY DEF kept, placesBefore
<1> HIDE DEF b
<1>4. /\ IsList(arranged(s, b)) /\ Len(arranged(s, b)) = Cardinality(DOMAIN b)
      /\ Range(arranged(s, b)) = {s[i] : i \in DOMAIN b}
      /\ (\A i, j \in DOMAIN b : s[i] = s[j] => i = j) => IsInjective(arranged(s, b))
  BY <1>2, ArrangedList, Zenon
<1>5. IsInjective(s) => \A i, j \in D : s[i] = s[j] => i = j
  BY DEF IsInjective
<1> QED
  BY <1>3, <1>4, <1>5, Zenon

\* byOutpoint is a list of the same coins.
LEMMA ByOutpointList ==
    ASSUME NEW s, IsList(s), \A i \in DOMAIN s : s[i] \in Nat
    PROVE  /\ IsList(byOutpoint(s)) /\ Len(byOutpoint(s)) = Len(s)
           /\ Range(byOutpoint(s)) = Range(s)
           /\ IsInjective(s) => IsInjective(byOutpoint(s))
<1> DEFINE D == DOMAIN s
           b == pointsBefore(s, D)
<1>1. D \subseteq Nat /\ IsFiniteSet(D) /\ Cardinality(D) = Len(s)
  <2>1. DOMAIN s = 1..Len(s) /\ Len(s) \in Nat /\ IsFiniteSet(DOMAIN s)
    BY ListDomain
  <2>2. Cardinality(1..Len(s)) = Len(s)
    BY <2>1, FS_Interval
  <2> QED
    BY <2>1, <2>2
<1>2. IsOrder(b)
  BY <1>1, OutpointOrder, Zenon
<1>3. byOutpoint(s) = arranged(s, b) /\ DOMAIN b = D
  BY DEF byOutpoint, pointsBefore
<1> HIDE DEF b
<1>4. /\ IsList(arranged(s, b)) /\ Len(arranged(s, b)) = Cardinality(DOMAIN b)
      /\ Range(arranged(s, b)) = {s[i] : i \in DOMAIN b}
      /\ (\A i, j \in DOMAIN b : s[i] = s[j] => i = j) => IsInjective(arranged(s, b))
  BY <1>2, ArrangedList, Zenon
<1>5. Range(s) = {s[i] : i \in D}
  BY Zenon DEF Range
<1>6. IsInjective(s) => \A i, j \in D : s[i] = s[j] => i = j
  BY Zenon DEF IsInjective
<1> QED
  BY <1>1, <1>3, <1>4, <1>5, <1>6, Zenon

-----------------------------------------------------------------------------
(* Coin selection: the list the search starts from. *)

Entries == [coin : Coins, spent : BOOLEAN]

\* exactFeeSats rounds half sats up to whole ones.
LEMMA WholeFee ==
    ASSUME NEW half \in Nat
    PROVE  /\ ceilDiv(half, 2) \in Nat
           /\ 2 * ceilDiv(half, 2) >= half
           /\ 2 * (ceilDiv(half, 2) - 1) < half
BY DEF ceilDiv

\* What is known of a coin.
LEMMA CoinFacts ==
    ASSUME NEW c \in Coins, fees \in Programs
    PROVE  /\ c \in Nat /\ Value[c] \in Nat /\ fees.input[c] \in Nat
           /\ exactFeeSats(fees.input[c]) = ceilDiv(fees.input[c], 2)
           /\ exactFeeSats(fees.input[c]) \in Nat
           /\ effective(c) \in Int
<1>1. c \in Nat /\ Value[c] \in Nat /\ fees.input[c] \in Nat
  BY CoinAssumption
<1>2. exactFeeSats(fees.input[c]) = ceilDiv(fees.input[c], 2)
  BY DEF exactFeeSats
<1>3. exactFeeSats(fees.input[c]) \in Nat
  BY <1>1, <1>2, WholeFee
<1>4. effective(c) \in Int
  BY <1>1, <1>3 DEF effective
<1> QED
  BY <1>1, <1>2, <1>3, <1>4

\* SpendableVtxos gives coins that were listed as unspent.
LEMMA SpendableList ==
    ASSUME all \in Seq(Entries)
    PROVE  /\ IsList(spendable) /\ Range(spendable) \subseteq Coins
           /\ \A c \in Range(spendable) : Entry(c) \in Range(all)
<1> DEFINE D == {i \in DOMAIN all : ~ all[i].spent}
           k == kept(all, D)
<1>1. IsList(all)
  BY DEF IsList, Range
<1>2. IsList(k) /\ Range(k) = {all[i] : i \in D}
  BY <1>1, KeptList, Zenon
<1>3. spendable = [i \in DOMAIN k |-> k[i].coin]
  BY DEF spendable, CoinsOf
<1>4. ASSUME NEW e \in Range(k)
      PROVE  e.coin \in Coins /\ e = Entry(e.coin) /\ e \in Range(all)
  <2>1. PICK i \in DOMAIN all : e = all[i] /\ ~ all[i].spent
    BY <1>2, <1>4
  <2>2. all[i] \in Entries
    BY <2>1
  <2>3. e.coin \in Coins /\ e = Entry(e.coin)
    BY <2>1, <2>2 DEF Entries, Entry
  <2> QED
    BY <2>1, <2>3, Zenon DEF Range
<1> HIDE DEF k, D
<1>5. DOMAIN k = 1..Len(k) /\ Len(k) \in Nat
  BY <1>2, ListDomain
<1>6. ASSUME NEW i \in DOMAIN k
      PROVE  spendable[i] \in Coins /\ Entry(spendable[i]) \in Range(all)
  <2>1. k[i] \in Range(k)
    BY Zenon DEF Range
  <2>2. spendable[i] = k[i].coin
    BY <1>3
  <2> QED
    BY <1>4, <2>1, <2>2, Zenon
<1>7. DOMAIN spendable = DOMAIN k
  BY <1>3
<1>8. IsList(spendable)
  <2>1. spendable \in [1..Len(k) -> Range(spendable)]
    BY <1>3, <1>5 DEF Range
  <2> QED
    BY <1>5, <2>1, FunctionIsList, Zenon DEF IsList
<1> QED
  BY <1>6, <1>7, <1>8, Zenon DEF Range

Usable == {c \in Range(spendable) : exactFeeSats(fees.input[c]) < Value[c]}

\* The list that is searched has every usable coin once.
LEMMA SortedList ==
    ASSUME all \in Seq(Entries), fees \in Programs, distinctOutpoints(spendable)
    PROVE  IsList(sorted) /\ IsInjective(sorted) /\ Range(sorted) = Usable
<1> DEFINE s == spendable
           D == {i \in DOMAIN s : exactFeeSats(fees.input[s[i]]) < Value[s[i]]}
           k == vtxosToCoins
           b == valuesBefore(k, DOMAIN k)
<1>1. IsList(s) /\ Range(s) \subseteq Coins /\ IsInjective(s)
  BY SpendableList DEF distinctOutpoints
<1>2. k = kept(s, D)
  BY DEF vtxosToCoins
<1>3. D \in SUBSET DOMAIN s
  OBVIOUS
<1>4. Range(k) = {s[i] : i \in D} /\ IsList(k) /\ IsInjective(k)
  <2> HIDE DEF D, k, s
  <2> QED
    BY <1>1, <1>2, <1>3, KeptList, Zenon
<1>5. Range(k) = Usable
  <2> HIDE DEF k
  <2> QED
    BY <1>4 DEF Usable, Range
<1> HIDE DEF k, s
<1>6. \A i \in DOMAIN k : k[i] \in Nat /\ effective(k[i]) \in Int
  <2>1. ASSUME NEW i \in DOMAIN k PROVE k[i] \in Coins
    BY <1>1, <1>5, Zenon DEF Usable, Range, s
  <2> QED
    BY <2>1, CoinFacts, Zenon
<1>7. DOMAIN k \subseteq Nat /\ IsFiniteSet(DOMAIN k)
  BY <1>4, ListDomain
<1>8. IsOrder(b)
  BY <1>6, <1>7, ValueOrder, Zenon
<1>9. sorted = arranged(k, b) /\ DOMAIN b = DOMAIN k
  BY DEF sorted, valuesBefore, k
<1> HIDE DEF b
<1>10. /\ IsList(arranged(k, b)) /\ Range(arranged(k, b)) = {k[i] : i \in DOMAIN b}
       /\ (\A i, j \in DOMAIN b : k[i] = k[j] => i = j) => IsInjective(arranged(k, b))
  BY <1>8, ArrangedList, Zenon
<1>11. Range(k) = {k[i] : i \in DOMAIN k} /\ \A i, j \in DOMAIN k : k[i] = k[j] => i = j
  BY <1>4, Zenon DEF IsInjective, Range
<1> QED
  BY <1>5, <1>9, <1>10, <1>11, Zenon

-----------------------------------------------------------------------------
(* Coin selection: sums and the search. *)

\* A sum over a list without repetition is the sum over what it holds.
LEMMA SumOverSet ==
    ASSUME NEW c, IsList(c), IsInjective(c), NEW f, \A i \in DOMAIN c : f[c[i]] \in Nat
    PROVE  SumOver(c, f) = SumFunctionOnSet(f, Range(c)) /\ SumOver(c, f) \in Nat
<1> DEFINE D == DOMAIN c
           e == [i \in D |-> f[c[i]]]
<1>1. IsFiniteSet(D)
  BY ListDomain
<1>2. SumOver(c, f) = Total(e, D)
  BY SumIsTotal DEF SumOver
<1>3. \A i \in D : e[i] \in Nat
  OBVIOUS
<1>4. Total(e, D) \in Nat
  <2> HIDE DEF e, D
  <2> QED
    BY <1>1, <1>3, TotalNat, Zenon
<1>5. \A i \in D : f[c[i]] \in Int
  OBVIOUS
<1>6. Total(e, D) = Total(f, {c[i] : i \in D})
  BY <1>1, <1>5, TotalReindex, Zenon
<1>7. Range(c) = {c[i] : i \in D}
  BY Zenon DEF Range
<1> QED
  BY <1>2, <1>4, <1>6, <1>7, Zenon DEF Total

\* A sum over one output, and over two.
LEMMA SumOutputs ==
    ASSUME NEW f, NEW x, NEW y, f[x] \in Nat, f[y] \in Nat
    PROVE  SumOver(<<x>>, f) = f[x] /\ SumOver(<<x, y>>, f) = f[x] + f[y]
<1> DEFINE a == [i \in DOMAIN <<x>> |-> f[<<x>>[i]]]
           b == [i \in DOMAIN <<x, y>> |-> f[<<x, y>>[i]]]
<1>1. DOMAIN a = {1} /\ a[1] = f[x]
  OBVIOUS
<1>2. DOMAIN b = 1..2 /\ b[1] = f[x] /\ b[2] = f[y]
  OBVIOUS
<1>3. SumOver(<<x>>, f) = SumFunction(a) /\ SumOver(<<x, y>>, f) = SumFunction(b)
  BY DEF SumOver
<1> HIDE DEF a, b
<1>4. SumFunction(a) = Total(a, {1}) /\ SumFunction(b) = Total(b, 1..2)
  BY <1>1, <1>2, SumIsTotal, Zenon
<1>5. a[1] \in Int /\ b[1] \in Int /\ b[2] \in Int
  BY <1>1, <1>2
<1>6. Total(a, {1}) = a[1] /\ Total(b, 1..2) = b[1] + b[2]
  BY <1>5, SumOne, SumTwo, Zenon
<1> QED
  BY <1>1, <1>2, <1>3, <1>4, <1>6

\* The first n coins of a list.
LEMMA PrefixList ==
    ASSUME NEW s, IsList(s), IsInjective(s), NEW n \in 1..Len(s)
    PROVE  /\ IsList(prefix(s, n)) /\ Len(prefix(s, n)) = n /\ IsInjective(prefix(s, n))
           /\ Range(prefix(s, n)) \subseteq Range(s)
           /\ n = Len(s) => prefix(s, n) = s
<1> DEFINE a == prefix(s, n)
<1>1. DOMAIN s = 1..Len(s) /\ Len(s) \in Nat /\ n \in Nat
  BY ListDomain
<1>2. /\ a \in Seq(Range(s)) /\ DOMAIN a = 1..n /\ Len(a) = n
      /\ \A i \in 1..n : a[i] = s[i]
  BY <1>1 DEF IsList, prefix
<1> HIDE DEF a
<1>3. \A i \in 1..n : i \in DOMAIN s
  BY <1>1
<1>4. Range(a) \subseteq Range(s)
  BY <1>2, <1>3 DEF Range
<1>5. IsInjective(a)
  BY <1>2, <1>3, Zenon DEF IsInjective
<1>6. a \in [1..n -> Range(a)]
  BY <1>2 DEF Range
<1>7. IsList(a)
  BY <1>1, <1>6, FunctionIsList, Zenon DEF IsList
<1>8. ASSUME n = Len(s) PROVE a = s
  BY <1>1, <1>2, <1>8 DEF IsList
<1> QED
  BY <1>2, <1>4, <1>5, <1>7, <1>8, Zenon DEF a

\* Coins to spend: a list of usable coins, each once.
CoinList(c) ==
    IsList(c) /\ IsInjective(c) /\ Range(c) \subseteq Coins

\* The sums of a list of coins.
LEMMA CoinSums ==
    ASSUME NEW c, CoinList(c), fees \in Programs
    PROVE  /\ SumOver(c, Value) = worth(Range(c)) /\ SumOver(c, Value) \in Nat
           /\ SumOver(c, fees.input) = SumFunctionOnSet(fees.input, Range(c))
           /\ SumOver(c, fees.input) \in Nat
<1>1. ASSUME NEW i \in DOMAIN c PROVE Value[c[i]] \in Nat /\ fees.input[c[i]] \in Nat
  <2>1. c[i] \in Coins
    BY DEF CoinList, Range
  <2> QED
    BY <2>1, CoinFacts, Zenon
<1> QED
  BY <1>1, SumOverSet, Zenon DEF CoinList, worth

\* What estimate gives is the least whole fee for what the Operator charges.
LEMMA Estimated ==
    ASSUME NEW c, CoinList(c), fees \in Programs, NEW o, SumOver(o, fees.output) \in Nat
    PROVE  /\ estimate(c, o) = ceilDiv(Charge(Range(c), o), 2)
           /\ Charge(Range(c), o) \in Nat
           /\ estimate(c, o) \in Nat
           /\ 2 * estimate(c, o) >= Charge(Range(c), o)
           /\ 2 * (estimate(c, o) - 1) < Charge(Range(c), o)
<1>1. Charge(Range(c), o) = SumOver(c, fees.input) + SumOver(o, fees.output)
  BY CoinSums, Zenon DEF Charge
<1>2. Charge(Range(c), o) \in Nat
  BY <1>1, CoinSums
<1>3. estimate(c, o) = ceilDiv(Charge(Range(c), o), 2)
  BY <1>1, Zenon DEF estimate, exactFeeSats
<1> QED
  BY <1>2, <1>3, WholeFee, Zenon

\* The fee of an output that fits in 64 bits.
LEMMA OutputFee ==
    ASSUME NEW x \in 0..MaxUint, fees \in Programs
    PROVE  x \in DOMAIN fees.output /\ fees.output[x] \in Nat
BY CoinAssumption

\* PaysExactly and EachCoinOnce, of the answer r.
Exact(r) ==
    LET S == Range(r.picked)
        outputs == IF r.change = 0 THEN <<amount>> ELSE <<amount, r.change>>
    IN  /\ worth(S) = amount + r.fee + r.change
        /\ r.fee <= FeeCap
        /\ 2 * r.fee >= Charge(S, outputs)
        /\ 2 * (r.fee - 1) < Charge(S, outputs)
        /\ r.change = 0 \/ r.change >= Dust
        /\ Cardinality(S) \in 1..MaxInputs

\* What a quote is made of.
IsQuote(r) ==
    /\ r.ok = TRUE /\ r.fee \in Nat /\ r.change \in Nat
    /\ CoinList(r.picked) /\ Range(r.picked) \subseteq Usable
    /\ Len(r.picked) \in 1..MaxInputs

\* The number of coins a list takes, each once.
LEMMA CoinCount ==
    ASSUME NEW c, IsList(c), IsInjective(c)
    PROVE  Cardinality(Range(c)) = Len(c)
<1>1. DOMAIN c = 1..Len(c) /\ Len(c) \in Nat /\ IsFiniteSet(DOMAIN c)
  BY ListDomain
<1>2. 1 \in Int /\ Len(c) \in Int
  BY <1>1
<1>3. Cardinality(DOMAIN c) = Len(c)
  <2>1. Cardinality(1..Len(c)) = IF 1 > Len(c) THEN 0 ELSE Len(c) - 1 + 1
    BY <1>2, FS_Interval, Zenon
  <2> QED
    BY <1>1, <2>1
<1>4. c \in Bijection(DOMAIN c, Range(c))
  BY DEF Bijection, Injection, Surjection, IsInjective, Range, IsList
<1>5. ExistsBijection(DOMAIN c, Range(c))
  BY <1>4 DEF ExistsBijection
<1> QED
  BY <1>1, <1>3, <1>5, FS_Bijection, Zenon

\* solveVtxoSpendWithBudget: the fee and the change of a solution.
LEMMA SolvedAmounts ==
    ASSUME NEW c, CoinList(c), fees \in Programs, amount \in Amounts,
           SumOver(c, Value) <= MaxUint, spare(c) >= 0, noChange(c) \/ matches(c) # {}
    PROVE  LET r == solution(c)
               outputs == IF r.change = 0 THEN <<amount>> ELSE <<amount, r.change>>
           IN  /\ r.fee \in Nat /\ r.change \in Nat
               /\ worth(Range(c)) = amount + r.fee + r.change
               /\ r.fee <= FeeCap
               /\ 2 * r.fee >= Charge(Range(c), outputs)
               /\ 2 * (r.fee - 1) < Charge(Range(c), outputs)
               /\ r.change = 0 \/ r.change >= Dust
<1> DEFINE r == solution(c)
           total == SumOver(c, Value)
           left == spare(c)
<1>1. total \in Nat /\ total = worth(Range(c)) /\ left = total - amount
  BY CoinSums, Zenon DEF spare
<1>2. amount \in 1..MaxUint /\ MaxUint \in Nat /\ Dust \in 1..MaxUint /\ FeeCap \in Nat
  BY CoinAssumption
<1>3. fees.output[amount] \in Nat
  BY <1>2, OutputFee
<1>4. r.change = left - r.fee
  BY DEF solution
<1>5. CASE noChange(c)
  <2> DEFINE fee == estimate(c, <<amount>>)
  <2>1. fee <= FeeCap /\ left = fee /\ r.fee = left
    BY <1>5 DEF noChange, solution
  <2>2. SumOver(<<amount>>, fees.output) \in Nat
    BY <1>3, SumOutputs
  <2>3. /\ fee \in Nat
        /\ 2 * fee >= Charge(Range(c), <<amount>>)
        /\ 2 * (fee - 1) < Charge(Range(c), <<amount>>)
    BY <2>2, Estimated, Zenon
  <2> HIDE DEF r, left, total, fee
  <2>4. r.change = 0
    BY <1>4, <2>1, <2>3
  <2>5. worth(Range(c)) = amount + r.fee + r.change
    BY <1>1, <1>2, <2>1, <2>3, <2>4
  <2> QED
    BY <2>1, <2>3, <2>4, <2>5 DEF r
<1>6. CASE ~ noChange(c)
  <2>1. matches(c) \in SUBSET Nat /\ matches(c) # {}
    BY <1>6 DEF matches, candidates
  <2>2. r.fee = Min(matches(c))
    BY <1>6 DEF solution
  <2>3. r.fee \in matches(c)
    BY <2>1, <2>2, LeastOf
  <2> DEFINE fee == r.fee
             o == <<amount, left - fee>>
  <2>4. fee \in 0..Min({FeeCap, left}) /\ left - fee >= Dust /\ estimate(c, o) = fee
    BY <2>3 DEF matches, candidates
  <2> HIDE DEF r
  <2>5. left \in Nat /\ left <= MaxUint
    <3> HIDE DEF left, total
    <3>1. left \in Int /\ left >= 0
      BY <1>1, <1>2 DEF left
    <3> QED
      BY <1>1, <1>2, <3>1 DEF total
  <2> HIDE DEF left
  <2>6. Min({FeeCap, left}) <= FeeCap /\ Min({FeeCap, left}) \in Nat
    BY <1>2, <2>5, LeastOf
  <2>7. fee \in Nat /\ fee <= FeeCap /\ left - fee \in 0..MaxUint /\ left - fee \in Nat
    BY <1>2, <2>4, <2>5, <2>6
  <2>8. fees.output[left - fee] \in Nat
    BY <2>7, OutputFee
  <2>9. SumOver(o, fees.output) \in Nat
    <3>1. SumOver(o, fees.output) = fees.output[amount] + fees.output[left - fee]
      BY <1>3, <2>8, SumOutputs, Zenon
    <3> QED
      BY <1>3, <2>8, <3>1
  <2>10. /\ 2 * estimate(c, o) >= Charge(Range(c), o)
         /\ 2 * (estimate(c, o) - 1) < Charge(Range(c), o)
    BY <2>9, Estimated, Zenon
  <2>11. r.change # 0
    BY <1>2, <1>4, <2>4, <2>7
  <2>12. o = IF r.change = 0 THEN <<amount>> ELSE <<amount, r.change>>
    BY <1>4, <2>11
  <2>13. worth(Range(c)) = amount + r.fee + r.change
    BY <1>1, <1>2, <1>4, <2>5, <2>7
  <2> HIDE DEF o
  <2> QED
    BY <1>4, <2>4, <2>7, <2>10, <2>12, <2>13 DEF r
<1> QED
  BY <1>5, <1>6

\* The number of coins the search may take.
LEMMA Limits ==
    ASSUME NEW s, IsList(s)
    PROVE  /\ limit(s) \in Nat /\ limit(s) <= Len(s) /\ limit(s) <= MaxInputs
           /\ Len(s) <= MaxInputs => limit(s) = Len(s)
<1>1. Len(s) \in Nat /\ MaxInputs \in Nat
  BY ListDomain, CoinAssumption
<1>2. {Len(s), MaxInputs} \in SUBSET Nat /\ {Len(s), MaxInputs} # {}
  BY <1>1
<1>3. limit(s) \in {Len(s), MaxInputs} /\ \A x \in {Len(s), MaxInputs} : limit(s) <= x
  BY <1>2, LeastOf, Zenon DEF limit
<1> QED
  BY <1>1, <1>3

\* A quote takes the first coins of the list, in the order of their outpoints.
LEMMA QuoteMade ==
    ASSUME all \in Seq(Entries), fees \in Programs, amount \in Amounts,
           distinctOutpoints(spendable),
           NEW n \in 1..limit(sorted), attempt(sorted, n) = "solved"
    PROVE  LET r == solution(prefix(sorted, n)) IN IsQuote(r) /\ Exact(r)
<1> DEFINE c == prefix(sorted, n)
           r == solution(c)
<1>1. IsList(sorted) /\ IsInjective(sorted) /\ Range(sorted) = Usable
  BY SortedList
<1>2. n \in 1..Len(sorted) /\ n \in 1..MaxInputs
  BY <1>1, Limits, ListDomain, CoinAssumption
<1>3. /\ IsList(c) /\ IsInjective(c) /\ Len(c) = n /\ Range(c) \subseteq Usable
  BY <1>1, <1>2, PrefixList
<1>4. Usable \subseteq Coins
  BY SpendableList DEF Usable
<1>5. CoinList(c)
  BY <1>3, <1>4, Zenon DEF CoinList
<1>6. /\ ~ (SumOver(c, Value) > MaxUint)
      /\ spare(c) >= 0 /\ (noChange(c) \/ matches(c) # {})
  BY DEF attempt
<1>7. SumOver(c, Value) <= MaxUint
  BY <1>5, <1>6, CoinSums, CoinAssumption
<1> HIDE DEF c
<1>8. \A i \in DOMAIN c : c[i] \in Nat
  BY <1>5, CoinAssumption DEF CoinList, Range
<1>9. r.picked = byOutpoint(c) /\ r.ok = TRUE
  BY DEF solution
<1>10. /\ IsList(r.picked) /\ IsInjective(r.picked) /\ Range(r.picked) = Range(c)
       /\ Len(r.picked) = n
  BY <1>3, <1>8, <1>9, ByOutpointList
<1> DEFINE outputs == IF r.change = 0 THEN <<amount>> ELSE <<amount, r.change>>
<1>11. /\ r.fee \in Nat /\ r.change \in Nat
       /\ worth(Range(c)) = amount + r.fee + r.change
       /\ r.fee <= FeeCap
       /\ 2 * r.fee >= Charge(Range(c), outputs)
       /\ 2 * (r.fee - 1) < Charge(Range(c), outputs)
       /\ r.change = 0 \/ r.change >= Dust
  BY <1>5, <1>6, <1>7, SolvedAmounts, Zenon
<1> HIDE DEF r
<1>12. IsQuote(r)
  BY <1>2, <1>3, <1>4, <1>9, <1>10, <1>11, Zenon DEF IsQuote, CoinList
<1>13. Cardinality(Range(r.picked)) \in 1..MaxInputs
  BY <1>2, <1>10, CoinCount, Zenon
<1>14. Exact(r)
  BY <1>10, <1>11, <1>13, Zenon DEF Exact
<1> QED
  BY <1>12, <1>14, Zenon DEF r, c

\* AmpleFundsServed: a candidate fee exists whenever the coins suffice.
LEMMA AmpleFunds ==
    ASSUME all \in Seq(Entries), fees \in Programs, amount \in Amounts,
           distinctOutpoints(spendable), FlatOutputs,
           \A n \in 1..limit(sorted) : attempt(sorted, n) = "next",
           NEW S \in SUBSET Range(spendable), Cardinality(S) <= MaxInputs,
           \A c \in Range(spendable) : c \in S <=> Value[c] > ceilDiv(fees.input[c], 2),
           ceilDiv(Charge(S, <<amount, Dust>>), 2) <= FeeCap
    PROVE  worth(S) < amount + ceilDiv(Charge(S, <<amount, Dust>>), 2) + Dust
<1> DEFINE s == sorted
           fee == ceilDiv(Charge(S, <<amount, Dust>>), 2)
<1>1. IsList(s) /\ IsInjective(s) /\ Range(s) = Usable
  BY SortedList
<1>2. Usable \subseteq Coins /\ S \subseteq Coins
  BY SpendableList DEF Usable
<1>3. S = Usable
  <2>1. ASSUME NEW c \in Range(spendable) PROVE c \in S <=> c \in Usable
    <3>1. c \in Coins
      BY SpendableList
    <3>2. /\ exactFeeSats(fees.input[c]) = ceilDiv(fees.input[c], 2)
          /\ exactFeeSats(fees.input[c]) \in Nat /\ Value[c] \in Nat
      BY <3>1, CoinFacts, Zenon
    <3> QED
      BY <3>2 DEF Usable
  <2> QED
    BY <2>1, Zenon DEF Usable
<1>4. CoinList(s)
  BY <1>1, <1>2, Zenon DEF CoinList
<1>5. SumOver(s, Value) = worth(S) /\ SumOver(s, Value) \in Nat
  BY <1>1, <1>3, <1>4, CoinSums, Zenon
<1>6. /\ amount \in 1..MaxUint /\ MaxUint \in Nat /\ Dust \in 1..MaxUint /\ FeeCap \in Nat
  BY CoinAssumption
<1>7. fees.output[amount] \in Nat /\ fees.output[Dust] \in Nat /\ Dust \in DOMAIN fees.output
  BY <1>6, OutputFee
<1>8. SumOver(<<amount, Dust>>, fees.output) = fees.output[amount] + fees.output[Dust]
  BY <1>7, SumOutputs, Zenon
<1>9. estimate(s, <<amount, Dust>>) = fee /\ fee \in Nat
  <2>1. SumOver(<<amount, Dust>>, fees.output) \in Nat
    BY <1>7, <1>8
  <2> QED
    BY <1>1, <1>3, <1>4, <2>1, Estimated, Zenon
<1>10. Len(s) \in Nat /\ Len(s) = Cardinality(S) /\ limit(s) = Len(s)
  <2>1. Len(s) = Cardinality(S)
    BY <1>1, <1>3, CoinCount, Zenon
  <2> QED
    BY <1>1, <2>1, Limits, ListDomain, Zenon
<1> HIDE DEF s, fee
<1>11. CASE Len(s) = 0
  <2>1. S = {}
    BY <1>1, <1>3, <1>11, ListDomain DEF Range
  <2>2. worth(S) = 0
    BY <2>1, TotalStep, FS_EmptySet DEF worth, Total
  <2> QED
    BY <1>6, <1>9, <2>2 DEF fee
<1>12. CASE Len(s) # 0
  <2>1. Len(s) \in 1..limit(s) /\ Len(s) \in 1..Len(s)
    BY <1>10, <1>12
  <2>2. prefix(s, Len(s)) = s
    BY <1>1, <2>1, PrefixList
  <2>3. attempt(s, Len(s)) = "next"
    BY <2>1, Zenon DEF s
  <2>4. /\ ~ (SumOver(s, Value) > MaxUint)
        /\ ~ (spare(s) >= 0 /\ (noChange(s) \/ matches(s) # {}))
    BY <2>2, <2>3 DEF attempt
  <2>5. SUFFICES ASSUME worth(S) >= amount + fee + Dust PROVE FALSE
    BY <1>5, <1>6, <1>9 DEF fee
  <2>6. spare(s) = worth(S) - amount
    BY <1>5, Zenon DEF spare
  <2>7. /\ spare(s) \in Nat /\ spare(s) >= 0 /\ spare(s) - fee >= Dust /\ fee <= spare(s)
        /\ spare(s) - fee \in 0..MaxUint /\ fee <= FeeCap
    BY <1>5, <1>6, <1>9, <2>4, <2>5, <2>6 DEF fee
  <2>8. fee \in candidates(s)
    <3>1. {FeeCap, spare(s)} \in SUBSET Nat /\ {FeeCap, spare(s)} # {}
      BY <1>6, <2>7
    <3>2. Min({FeeCap, spare(s)}) \in {FeeCap, spare(s)}
      BY <3>1, LeastOf, Zenon
    <3>3. fee \in 0..Min({FeeCap, spare(s)})
      BY <1>6, <1>9, <2>7, <3>2
    <3> QED
      BY <2>7, <3>3 DEF candidates
  <2>9. estimate(s, <<amount, spare(s) - fee>>) = fee
    <3> DEFINE x == spare(s) - fee
    <3>1. x \in DOMAIN fees.output /\ fees.output[x] \in Nat
      BY <2>7, OutputFee
    <3>2. fees.output[x] = fees.output[Dust]
      BY <1>7, <3>1, Zenon DEF FlatOutputs
    <3> HIDE DEF x
    <3>3. SumOver(<<amount, x>>, fees.output) = fees.output[amount] + fees.output[x]
      BY <1>7, <3>1, SumOutputs, Zenon
    <3>4. SumOver(<<amount, x>>, fees.output) = SumOver(<<amount, Dust>>, fees.output)
      BY <1>8, <3>2, <3>3, Zenon
    <3>5. estimate(s, <<amount, x>>) = estimate(s, <<amount, Dust>>)
      BY <3>4, Zenon DEF estimate
    <3> QED
      BY <1>9, <3>5, Zenon DEF x
  <2>10. fee \in matches(s)
    BY <2>8, <2>9, Zenon DEF matches
  <2> QED
    BY <2>4, <2>7, <2>10, Zenon
<1> QED
  BY <1>11, <1>12

-----------------------------------------------------------------------------
(* Coin selection: the state machine. *)

\* What selectSpendVtxos may have answered, with what each answer implies.
Answer(r) ==
    \/ \E w \in {"indexer", "failed", "duplicate", "invalid", "busy", "overflow"} : r = Refused(w)
    \/ /\ r = Refused("insufficient")
       /\ distinctOutpoints(spendable)
       /\ \A n \in 1..limit(sorted) : attempt(sorted, n) = "next"
    \/ IsQuote(r) /\ Exact(r)

SelectionInv ==
    /\ amount \in Amounts /\ fees \in Programs
    /\ index \in Seq(Entries) /\ all \in Seq(Entries)
    /\ pageIndex \in Nat \ {0}
    /\ pc \in {"list", "select", "done", "reserved"}
    /\ pc \in {"list", "select"} => outcome = Pending
    /\ pc = "done" => Answer(outcome)
    /\ pc = "reserved" => outcome.ok = TRUE

\* The search ends in an answer.
LEMMA SearchAnswers ==
    ASSUME all \in Seq(Entries), fees \in Programs, amount \in Amounts,
           distinctOutpoints(spendable)
    PROVE  Answer(searched)
<1> DEFINE L == limit(sorted)
           ends == {n \in 1..L : attempt(sorted, n) # "next"}
<1>1. CASE ends = {}
  <2>1. searched = Refused("insufficient")
    BY <1>1, Zenon DEF searched
  <2>2. \A n \in 1..L : attempt(sorted, n) = "next"
    BY <1>1, Zenon
  <2> QED
    BY <2>1, <2>2, Zenon DEF Answer
<1>2. CASE ends # {}
  <2>1. ends \in SUBSET Nat
    OBVIOUS
  <2> DEFINE n == Min(ends)
  <2>2. n \in ends
    BY <1>2, <2>1, LeastOf, Zenon
  <2>3. n \in 1..L /\ attempt(sorted, n) # "next"
    BY <2>2, Zenon
  <2>4. searched = IF attempt(sorted, n) = "solved" THEN solution(prefix(sorted, n))
                   ELSE Refused(attempt(sorted, n))
    BY <1>2, Zenon DEF searched
  <2> HIDE DEF n
  <2>5. CASE attempt(sorted, n) = "solved"
    BY <2>3, <2>4, <2>5, QuoteMade, Zenon DEF Answer
  <2>6. CASE attempt(sorted, n) # "solved"
    <3>1. attempt(sorted, n) \in {"overflow", "busy"}
      BY <2>3, <2>6 DEF attempt
    <3> QED
      BY <2>4, <2>6, <3>1, Zenon DEF Answer
  <2> QED
    BY <2>5, <2>6
<1> QED
  BY <1>1, <1>2

\* The indexer's list stays a list of entries.
LEMMA IndexStays ==
    ASSUME index \in Seq(Entries), indexerChanges
    PROVE  index' \in Seq(Entries)
<1>1. ASSUME NEW c \in Coins, index' = <<Entry(c)>> \o index PROVE index' \in Seq(Entries)
  <2>1. Entry(c) \in Entries
    BY DEF Entry, Entries
  <2> QED
    BY <1>1, <2>1
<1>2. ASSUME NEW i \in DOMAIN index, index' = [index EXCEPT ![i].spent = TRUE]
      PROVE  index' \in Seq(Entries)
  <2>1. index[i] \in Entries
    OBVIOUS
  <2>2. [index[i] EXCEPT !.spent = TRUE] \in Entries
    BY <2>1 DEF Entries
  <2> QED
    BY <1>2, <2>2
<1>3. ASSUME NEW i \in DOMAIN index, index' = RemoveAt(index, i) PROVE index' \in Seq(Entries)
  <2>1. i \in 1..Len(index) /\ Len(index) \in Nat
    OBVIOUS
  <2>2. SubSeq(index, 1, i - 1) \in Seq(Entries)
    BY <2>1, SubSeqProperties
  <2>3. SubSeq(index, i + 1, Len(index)) \in Seq(Entries)
    BY <2>1, SubSeqProperties
  <2> QED
    BY <1>3, <2>2, <2>3 DEF RemoveAt
<1> QED
  BY <1>1, <1>2, <1>3, Zenon DEF indexerChanges

\* A page is a list of entries.
LEMMA PageEntries ==
    ASSUME index \in Seq(Entries), NEW p \in Nat \ {0}
    PROVE  indexerPage(p).vtxos \in Seq(Entries)
<1> DEFINE m == (p - 1) * PageSize + 1
           n == Min({p * PageSize, Len(index)})
<1>1. PageSize \in Nat /\ Len(index) \in Nat /\ p - 1 \in Nat /\ p \in Nat
  BY CoinAssumption
<1>2. (p - 1) * PageSize \in Nat /\ p * PageSize \in Nat
  BY <1>1
<1>3. {p * PageSize, Len(index)} \in SUBSET Nat /\ Len(index) \in {p * PageSize, Len(index)}
  BY <1>1, <1>2
<1>4. n \in Nat /\ n <= Len(index)
  BY <1>3, LeastOf
<1>5. m \in Nat /\ m >= 1
  BY <1>2
<1>6. indexerPage(p).vtxos = SubSeq(index, m, n)
  BY DEF indexerPage
<1> HIDE DEF m, n
<1>7. SubSeq(index, m, n) \in Seq(Entries)
  BY <1>1, <1>4, <1>5
<1> QED
  BY <1>6, <1>7, Zenon

\* What a search finds depends on the list, the fee program and the amount only.
LEMMA SameSearch ==
    ASSUME UNCHANGED <<all, fees, amount>>
    PROVE  /\ spendable' = spendable /\ sorted' = sorted /\ Usable' = Usable
           /\ \A o, n : attempt(o, n)' = attempt(o, n)
           /\ \A S, o : Charge(S, o)' = Charge(S, o)
<1>1. spendable' = spendable
  BY DEF spendable
<1>2. Usable' = Usable
  BY <1>1 DEF Usable
<1>3. vtxosToCoins' = vtxosToCoins
  BY <1>1 DEF vtxosToCoins
<1>4. sorted' = sorted
  BY <1>3 DEF sorted, largerFirst, effective
<1>5. \A c, o : estimate(c, o)' = estimate(c, o)
  BY DEF estimate
<1>6. \A c : spare(c)' = spare(c)
  BY DEF spare
<1>7. \A c : noChange(c)' = noChange(c)
  BY <1>5, <1>6 DEF noChange
<1>8. \A c : candidates(c)' = candidates(c)
  BY <1>6 DEF candidates
<1>9. \A c : matches(c)' = matches(c)
  BY <1>5, <1>6, <1>8 DEF matches
<1>10. \A c : evaluations(c)' = evaluations(c)
  BY <1>6, <1>7, <1>8, <1>9 DEF evaluations
<1>11. \A o, n : used(o, n)' = used(o, n)
  BY <1>1, <1>10 DEF used
<1>12. \A o, n : attempt(o, n)' = attempt(o, n)
  BY <1>6, <1>7, <1>9, <1>11 DEF attempt
<1>13. \A S, o : Charge(S, o)' = Charge(S, o)
  BY DEF Charge
<1> QED
  BY <1>1, <1>2, <1>4, <1>12, <1>13, Zenon

\* An answer stays one while the list, the fee program and the amount stay.
LEMMA SameAnswer ==
    ASSUME UNCHANGED <<all, fees, amount>>, NEW r
    PROVE  Answer(r)' = Answer(r)
<1>1. Exact(r)' = Exact(r)
  BY SameSearch DEF Exact
<1>2. IsQuote(r)' = IsQuote(r)
  BY SameSearch DEF IsQuote
<1> QED
  BY <1>1, <1>2, SameSearch DEF Answer, distinctOutpoints

\* SelectionInv holds at first.
LEMMA SelectionStarts == Init => SelectionInv
<1> SUFFICES ASSUME Init PROVE SelectionInv
  OBVIOUS
<1>1. PICK S \in SUBSET Coins : \E s \in SetToSeqs(S) : index = [i \in DOMAIN s |-> Entry(s[i])]
  BY DEF Init
<1>2. PICK s \in SetToSeqs(S) : index = [i \in DOMAIN s |-> Entry(s[i])]
  BY <1>1
<1>3. IsFiniteSet(S) /\ Cardinality(S) \in Nat
  BY FS_Subset, FS_CardinalityType, CoinAssumption
<1>4. s \in [1..Cardinality(S) -> S]
  BY DEF SetToSeqs
<1>5. \A c \in Coins : Entry(c) \in Entries
  BY DEF Entry, Entries
<1>6. index \in [1..Cardinality(S) -> Entries]
  BY <1>2, <1>4, <1>5
<1>7. index \in Seq(Entries)
  BY <1>3, <1>6, FunctionIsList
<1>8. <<>> \in Seq(Entries) /\ 1 \in Nat \ {0}
  OBVIOUS
<1> QED
  BY <1>7, <1>8 DEF Init, SelectionInv

\* SelectionInv is inductive: listVtxoPages.
LEMMA ListingKeeps ==
    ASSUME SelectionInv, listVtxoPages
    PROVE  SelectionInv'
<1> DEFINE page == indexerPage(pageIndex)
           total == IF pageIndex = 1 THEN page.total ELSE pageTotal
<1>1. /\ pc = "list" /\ index \in Seq(Entries) /\ all \in Seq(Entries)
      /\ pageIndex \in Nat \ {0} /\ amount \in Amounts /\ fees \in Programs
      /\ outcome = Pending
  BY DEF SelectionInv, listVtxoPages
<1>2. page.vtxos \in Seq(Entries)
  BY <1>1, PageEntries, Zenon
<1>3. all \o page.vtxos \in Seq(Entries)
  BY <1>1, <1>2
<1>4. CASE refuse("indexer")
  BY <1>1, <1>4 DEF refuse, SelectionInv, Answer
<1>5. CASE listed(page.vtxos)
  BY <1>1, <1>3, <1>5 DEF listed, SelectionInv
<1>6. CASE /\ ~ pageError(page, total) /\ pageIndex < total
           /\ all' = all \o page.vtxos /\ pageIndex' = page.next
           /\ UNCHANGED <<index, changes, amount, fees, pc, outcome>>
  <2>1. page.total = total
    BY <1>6, Zenon DEF pageError
  <2>2. page.next = pageIndex + 1
    BY <1>6, <2>1 DEF indexerPage
  <2> QED
    BY <1>1, <1>3, <1>6, <2>2 DEF SelectionInv
<1> QED
  BY <1>4, <1>5, <1>6, Zenon DEF listVtxoPages

\* SelectionInv is inductive: every step of the selection.
LEMMA SelectionSteps ==
    ASSUME SelectionInv, Next
    PROVE  SelectionInv'
<1>1. CASE indexerChanges
  <2>1. index' \in Seq(Entries)
    BY <1>1, IndexStays DEF SelectionInv
  <2> QED
    BY <1>1, <2>1 DEF indexerChanges, SelectionInv
<1>2. CASE listVtxoPages
  BY <1>2, ListingKeeps
<1>3. CASE selectionFails
  BY <1>3 DEF selectionFails, refuse, SelectionInv, Answer
<1>4. CASE selectSpendVtxos
  <2>1. /\ amount \in Amounts /\ fees \in Programs /\ all \in Seq(Entries)
        /\ UNCHANGED <<index, amount, fees, pageIndex, all>> /\ pc' = "done"
    BY <1>4 DEF selectSpendVtxos, SelectionInv
  <2>2. \/ \E w \in {"duplicate", "invalid", "busy"} : outcome' = Refused(w)
        \/ distinctOutpoints(spendable) /\ outcome' = searched
    BY <1>4, Zenon DEF selectSpendVtxos
  <2>3. Answer(outcome')
    BY <2>1, <2>2, SearchAnswers, Zenon DEF Answer
  <2>4. \A r : Answer(r)' = Answer(r)
    BY <2>1, SameAnswer
  <2>5. Answer(outcome)'
    BY <2>3, <2>4
  <2> QED
    BY <2>1, <2>5 DEF SelectionInv
<1> QED
  BY <1>1, <1>2, <1>3, <1>4 DEF Next

\* What SelectionInv says of the answer.
LEMMA SelectionCorrect ==
    ASSUME SelectionInv
    PROVE  PaysExactly /\ EachCoinOnce /\ AmpleFundsServed
<1>1. \A w : Refused(w).ok = FALSE /\ Refused(w).why = w
  BY DEF Refused
<1>2. ASSUME pc = "done", outcome.ok PROVE IsQuote(outcome) /\ Exact(outcome)
  BY <1>1, <1>2 DEF SelectionInv, Answer
<1>3. PaysExactly
  BY <1>2, Zenon DEF PaysExactly, Exact
<1>4. EachCoinOnce
  <2> SUFFICES ASSUME pc = "done", outcome.ok
               PROVE  /\ Cardinality(Range(outcome.picked)) = Len(outcome.picked)
                      /\ \A c \in Range(outcome.picked) :
                            Entry(c) \in Range(all) /\ 2 * Value[c] > fees.input[c]
    BY Zenon DEF EachCoinOnce
  <2>1. CoinList(outcome.picked) /\ Range(outcome.picked) \subseteq Usable
    BY <1>2 DEF IsQuote
  <2>2. Cardinality(Range(outcome.picked)) = Len(outcome.picked)
    BY <2>1, CoinCount, Zenon DEF CoinList
  <2>3. all \in Seq(Entries) /\ fees \in Programs
    BY DEF SelectionInv
  <2>4. ASSUME NEW c \in Range(outcome.picked)
        PROVE  Entry(c) \in Range(all) /\ 2 * Value[c] > fees.input[c]
    <3>1. c \in Range(spendable) /\ exactFeeSats(fees.input[c]) < Value[c]
      BY <2>1 DEF Usable
    <3>2. Entry(c) \in Range(all) /\ c \in Coins
      BY <2>3, <3>1, SpendableList
    <3>3. /\ Value[c] \in Nat /\ fees.input[c] \in Nat
          /\ exactFeeSats(fees.input[c]) = ceilDiv(fees.input[c], 2)
      BY <2>3, <3>2, CoinFacts, Zenon
    <3>4. ceilDiv(fees.input[c], 2) \in Nat /\ 2 * ceilDiv(fees.input[c], 2) >= fees.input[c]
      BY <3>3, WholeFee
    <3> QED
      BY <3>1, <3>2, <3>3, <3>4
  <2> QED
    BY <2>2, <2>4, Zenon
<1>5. AmpleFundsServed
  <2> SUFFICES ASSUME outcome = Refused("insufficient"), FlatOutputs
               PROVE  AmpleFundsServed
    BY Zenon DEF AmpleFundsServed
  <2>1. pc = "done"
    <3>1. outcome # Pending
      BY <1>1, Zenon DEF Pending
    <3>2. ~ outcome.ok
      BY <1>1
    <3> QED
      BY <3>1, <3>2 DEF SelectionInv
  <2>2. /\ distinctOutpoints(spendable)
        /\ \A n \in 1..limit(sorted) : attempt(sorted, n) = "next"
    BY <1>1, <2>1 DEF SelectionInv, Answer, IsQuote
  <2>3. all \in Seq(Entries) /\ fees \in Programs /\ amount \in Amounts
    BY DEF SelectionInv
  <2> QED
    BY <2>2, <2>3, AmpleFunds, Zenon DEF AmpleFundsServed
<1> QED
  BY <1>3, <1>4, <1>5

\* SelectionInv is an invariant of the selection.
LEMMA SelectionHolds == Spec => []SelectionInv
<1>1. SelectionInv /\ UNCHANGED vars => SelectionInv'
  <2> SUFFICES ASSUME SelectionInv, UNCHANGED vars PROVE SelectionInv'
    OBVIOUS
  <2>1. \A r : Answer(r)' = Answer(r)
    BY SameAnswer DEF vars
  <2> QED
    BY <2>1 DEF SelectionInv, vars
<1>2. SelectionInv /\ [Next]_vars => SelectionInv'
  BY <1>1, SelectionSteps
<1> QED
  BY <1>2, SelectionStarts, PTL DEF Spec

\* solveVtxoSpendWithBudget: for every set of coins, fee program and amount, a
\* quote adds up to the sat, its fee is the least whole one that covers what the
\* Operator charges for exactly this transaction and within the cap, and its
\* change is absent or above dust.
THEOREM QuotesPayExactly == Spec => []PaysExactly
BY SelectionHolds, SelectionCorrect, PTL

\* SpendableVtxos, CanonicalVtxoBundleInputs: whatever happens to the index
\* between two pages, a quote spends no coin twice, none that was listed as spent
\* and none that is worth less than its own input costs.
THEOREM CoinsSpentOnce == Spec => []EachCoinOnce
BY SelectionHolds, SelectionCorrect, PTL

\* selectSpendVtxos: under a fee program that does not look at output amounts, a
\* refusal for lack of funds is never wrong.
THEOREM AmpleFundsAlwaysServed == Spec => []AmpleFundsServed
BY SelectionHolds, SelectionCorrect, PTL
=============================================================================
