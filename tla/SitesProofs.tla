---------------------------- MODULE SitesProofs ----------------------------
(* Proofs about packing, parsing and serving a site: for any directory, any  *)
(* sizes and limits, any number of edits, visits and uploads.                *)
EXTENDS Sites, TLAPS, FiniteSetTheorems, WellFoundedInduction

-----------------------------------------------------------------------------
(* Induction over the numbers, for a property that is given as a set: what   *)
(* is not in the set would have a least element.                             *)
Less == {p \in Nat \X Nat : p[1] < p[2]}

LEMMA LeastElement ==
    ASSUME NEW T \in SUBSET Nat, T # {}
    PROVE  \E x \in T : \A y \in T : x <= y
<1>1. Less = OpToRel(<, Nat)
  BY DEF Less, OpToRel
<1>2. PICK x \in T : \A y \in T : ~ (<<y, x>> \in Less)
  BY <1>1, NatLessThanWellFounded, WFMin
<1>3. \A y \in T : x <= y
  <2> TAKE y \in T
  <2>1. x \in Nat /\ y \in Nat
    OBVIOUS
  <2>2. y < x => <<y, x>> \in Less
    BY <2>1 DEF Less
  <2> QED
    BY <1>2, <2>1, <2>2
<1> QED
  BY <1>3

LEMMA SetInduction ==
    ASSUME NEW S, 0 \in S, \A n \in Nat : n \in S => n + 1 \in S
    PROVE  \A n \in Nat : n \in S
<1> DEFINE T == {n \in Nat : n \notin S}
<1> SUFFICES ASSUME T # {}
             PROVE  FALSE
  OBVIOUS
<1>1. PICK x \in T : \A y \in T : x <= y
  <2> HIDE DEF T
  <2>1. T \in SUBSET Nat
    BY DEF T
  <2> QED
    BY <2>1, LeastElement
<1>2. x \in Nat /\ x # 0 /\ x \notin S
  OBVIOUS
<1>3. x - 1 \in Nat /\ x - 1 + 1 = x
  BY <1>2
<1>4. x - 1 \in S
  BY <1>1, <1>3
<1> QED
  BY <1>2, <1>3, <1>4

-----------------------------------------------------------------------------
(* The sum of a function is a fold over its domain; the fold takes the       *)
(* elements in an order that CHOOSE makes, and the sum does not depend on it. *)
Some(s) == CHOOSE x \in s : TRUE
Summed(g, f, s) == IF s = {} THEN 0 ELSE f[Some(s)] + g[s \ {Some(s)}]
IsSum(g, f, S) == g = [s \in S |-> Summed(g, f, s)]

LEMMA TotalIsSum ==
    ASSUME NEW f
    PROVE  Total(f) = (CHOOSE g : IsSum(g, f, SUBSET DOMAIN f))[DOMAIN f]
  BY SMT DEF Total, FoldFunction, FoldFunctionOnSet, MapThenFoldSet, IsSum, Summed, Some

(* Subsets by their size: to prove something of every subset it is enough to *)
(* come to it from its smaller ones.                                         *)
LEMMA SubsetInduction ==
    ASSUME NEW D, IsFiniteSet(D), NEW S, {} \in S,
           \A s \in SUBSET D : s # {} /\ (\A x \in s : s \ {x} \in S) => s \in S
    PROVE  SUBSET D \subseteq S
<1> DEFINE N == {n \in Nat : \A s \in SUBSET D : Cardinality(s) = n => s \in S}
<1>1. \A s \in SUBSET D : IsFiniteSet(s) /\ Cardinality(s) \in Nat
  BY FS_Subset, FS_CardinalityType
<1>2. 0 \in N
  BY <1>1, FS_EmptySet
<1>3. ASSUME NEW n \in Nat, n \in N
      PROVE  n + 1 \in N
  <2>1. SUFFICES ASSUME NEW s \in SUBSET D, Cardinality(s) = n + 1
                 PROVE  s \in S
    OBVIOUS
  <2>2. \A x \in s : s \ {x} \in SUBSET D /\ Cardinality(s \ {x}) = n
    BY <1>1, <2>1, FS_RemoveElement
  <2>3. s # {}
    BY <2>1, FS_EmptySet
  <2> QED
    BY <1>3, <2>2, <2>3
<1>4. \A n \in Nat : n \in N
  <2> HIDE DEF N
  <2> QED
    BY <1>2, <1>3, SetInduction
<1> QED
  BY <1>1, <1>4

(* The fold is well defined: level by level.                                 *)
Level(D, n) == {s \in SUBSET D : Cardinality(s) <= n}

LEMMA Levels ==
    ASSUME NEW D, IsFiniteSet(D)
    PROVE  /\ Cardinality(D) \in Nat /\ Level(D, Cardinality(D)) = SUBSET D
           /\ \A n \in Nat : Level(D, n) \subseteq Level(D, n + 1)
           /\ \A n \in Nat : \A s \in Level(D, n + 1) :
                 s # {} => Some(s) \in s /\ s \ {Some(s)} \in Level(D, n)
           /\ \A s \in Level(D, 0) : s = {}
<1>1. \A s \in SUBSET D : /\ IsFiniteSet(s) /\ Cardinality(s) \in Nat
                          /\ Cardinality(s) <= Cardinality(D)
  BY FS_Subset, FS_CardinalityType
<1>2. Cardinality(D) \in Nat
  BY FS_CardinalityType
<1>3. ASSUME NEW s \in SUBSET D, s # {}
      PROVE  /\ Some(s) \in s /\ s \ {Some(s)} \in SUBSET D
             /\ Cardinality(s \ {Some(s)}) = Cardinality(s) - 1
  <2>1. Some(s) \in s
    BY <1>3 DEF Some
  <2> QED
    BY <1>1, <2>1, FS_RemoveElement
<1>4. \A s \in Level(D, 0) : s = {}
  BY <1>1, FS_EmptySet DEF Level
<1>5. ASSUME NEW n \in Nat, NEW s \in Level(D, n + 1), s # {}
      PROVE  Some(s) \in s /\ s \ {Some(s)} \in Level(D, n)
  <2>1. s \in SUBSET D /\ Cardinality(s) <= n + 1 /\ Cardinality(s) \in Nat
    BY <1>1 DEF Level
  <2> QED
    BY <1>3, <1>5, <2>1 DEF Level
<1>6. \A n \in Nat : Level(D, n) \subseteq Level(D, n + 1)
  BY <1>1 DEF Level
<1> QED
  BY <1>1, <1>2, <1>4, <1>5, <1>6 DEF Level

LEMMA SumExists ==
    ASSUME NEW D, IsFiniteSet(D), NEW f
    PROVE  \E g : IsSum(g, f, SUBSET D)
<1> DEFINE N == {n \in Nat : \E g : IsSum(g, f, Level(D, n))}
<1>1. 0 \in N
  <2>1. IsSum([s \in Level(D, 0) |-> 0], f, Level(D, 0))
    BY Levels DEF IsSum, Summed
  <2> QED
    BY <2>1
<1>2. ASSUME NEW n \in Nat, n \in N
      PROVE  n + 1 \in N
  <2>1. PICK g : IsSum(g, f, Level(D, n))
    BY <1>2
  <2>2. PICK h : h = [s \in Level(D, n + 1) |-> Summed(g, f, s)]
    OBVIOUS
  <2>3. \A s \in Level(D, n) : h[s] = g[s]
    BY <2>1, <2>2, Levels DEF IsSum
  <2>4. \A s \in Level(D, n + 1) : Summed(h, f, s) = Summed(g, f, s)
    BY <2>3, Levels DEF Summed
  <2>5. IsSum(h, f, Level(D, n + 1))
    BY <2>2, <2>4 DEF IsSum
  <2> QED
    BY <2>5
<1>3. \A n \in Nat : n \in N
  <2> HIDE DEF N
  <2> QED
    BY <1>1, <1>2, SetInduction
<1>4. Cardinality(D) \in N
  <2>1. Cardinality(D) \in Nat
    BY Levels
  <2> HIDE DEF N
  <2> QED
    BY <1>3, <2>1
<1>5. Level(D, Cardinality(D)) = SUBSET D
  BY Levels
<1> QED
  BY <1>4, <1>5

(* What every sum has: numbers as values, and no order.                      *)
LEMMA SumType ==
    ASSUME NEW D, IsFiniteSet(D), NEW f, \A x \in D : f[x] \in Nat,
           NEW g, IsSum(g, f, SUBSET D)
    PROVE  \A s \in SUBSET D : g[s] \in Nat
<1> DEFINE S == {s \in SUBSET D : g[s] \in Nat}
<1>1. {} \in S
  BY DEF IsSum, Summed
<1>2. ASSUME NEW s \in SUBSET D, s # {}, \A x \in s : s \ {x} \in S
      PROVE  s \in S
  <2>1. Some(s) \in s
    BY <1>2 DEF Some
  <2>2. g[s] = f[Some(s)] + g[s \ {Some(s)}]
    BY <1>2 DEF IsSum, Summed
  <2> QED
    BY <1>2, <2>1, <2>2
<1> HIDE DEF S
<1>3. SUBSET D \subseteq S
  BY <1>1, <1>2, SubsetInduction
<1> QED
  BY <1>3 DEF S

LEMMA SumOrder ==
    ASSUME NEW D, IsFiniteSet(D), NEW f, \A x \in D : f[x] \in Nat,
           NEW g, IsSum(g, f, SUBSET D)
    PROVE  \A s \in SUBSET D : \A x \in s : g[s] = f[x] + g[s \ {x}]
<1> DEFINE S == {s \in SUBSET D : \A x \in s : g[s] = f[x] + g[s \ {x}]}
<1>1. {} \in S
  OBVIOUS
<1>2. ASSUME NEW s \in SUBSET D, s # {}, \A x \in s : s \ {x} \in S
      PROVE  s \in S
  <2>1. PICK c \in s : g[s] = f[c] + g[s \ {c}]
    <3>1. Some(s) \in s
      BY <1>2 DEF Some
    <3>2. g[s] = f[Some(s)] + g[s \ {Some(s)}]
      BY <1>2 DEF IsSum, Summed
    <3> QED
      BY <3>1, <3>2
  <2>2. SUFFICES ASSUME NEW x \in s, x # c
                 PROVE  g[s] = f[x] + g[s \ {x}]
    BY <2>1
  <2>3. (s \ {c}) \ {x} = (s \ {x}) \ {c}
    OBVIOUS
  <2>4. g[s \ {c}] = f[x] + g[(s \ {c}) \ {x}]
    BY <1>2, <2>2
  <2>5. g[s \ {x}] = f[c] + g[(s \ {c}) \ {x}]
    BY <1>2, <2>2, <2>3
  <2>6. f[x] \in Nat /\ f[c] \in Nat /\ g[(s \ {c}) \ {x}] \in Nat
    BY SumType
  <2> QED
    BY <2>1, <2>4, <2>5, <2>6
<1> HIDE DEF S
<1>3. SUBSET D \subseteq S
  BY <1>1, <1>2, SubsetInduction
<1> QED
  BY <1>3 DEF S

(* The total over a part of the domain is a value of the sum over all of it.  *)
LEMMA TotalOfPart ==
    ASSUME NEW D, IsFiniteSet(D), NEW f,
           NEW g, IsSum(g, f, SUBSET D), NEW E \in SUBSET D
    PROVE  Total(Restrict(f, E)) = g[E]
<1>1. PICK e : e = Restrict(f, E)
  OBVIOUS
<1>2. IsFiniteSet(E) /\ DOMAIN e = E /\ \A x \in E : f[x] = e[x]
  BY <1>1, FS_Subset DEF Restrict
<1>3. PICK h : h = CHOOSE k : IsSum(k, e, SUBSET E)
  OBVIOUS
<1>4. IsSum(h, e, SUBSET E)
  BY <1>2, <1>3, SumExists
<1>5. Total(e) = h[E]
  BY <1>2, <1>3, TotalIsSum
<1> DEFINE S == {s \in SUBSET E : g[s] = h[s]}
<1>6. {} \in S
  BY <1>4 DEF IsSum, Summed
<1>7. ASSUME NEW s \in SUBSET E, s # {}, \A x \in s : s \ {x} \in S
      PROVE  s \in S
  <2>1. Some(s) \in s
    BY <1>7 DEF Some
  <2>2. g[s] = f[Some(s)] + g[s \ {Some(s)}] /\ h[s] = e[Some(s)] + h[s \ {Some(s)}]
    BY <1>4, <1>7 DEF IsSum, Summed
  <2> QED
    BY <1>2, <1>7, <2>1, <2>2
<1> HIDE DEF S
<1>8. SUBSET E \subseteq S
  <2>1. IsFiniteSet(E)
    BY <1>2
  <2>2. \A s \in SUBSET E : s # {} /\ (\A x \in s : s \ {x} \in S) => s \in S
    BY <1>7
  <2> QED
    BY <1>6, <2>1, <2>2, SubsetInduction
<1>9. g[E] = h[E]
  BY <1>8 DEF S
<1> QED
  BY <1>1, <1>5, <1>9

(* The totals of Pack and of an archive, in these terms.                     *)
Sums(g, f, D) ==
    /\ Total(f) = g[D]
    /\ \A E \in SUBSET D : Total(Restrict(f, E)) = g[E]
    /\ \A E \in SUBSET D : g[E] \in Nat
    /\ \A E \in SUBSET D : \A x \in E : g[E] = f[x] + g[E \ {x}]

LEMMA TotalOf ==
    ASSUME NEW D, IsFiniteSet(D), NEW f, f \in [D -> Nat]
    PROVE  \E g : Sums(g, f, D)
<1>1. PICK g : IsSum(g, f, SUBSET D)
  BY SumExists
<1>2. f = Restrict(f, D)
  BY DEF Restrict
<1>3. \A E \in SUBSET D : Total(Restrict(f, E)) = g[E]
  BY <1>1, TotalOfPart
<1>4. Total(f) = g[D]
  BY <1>2, <1>3
<1>5. \A x \in D : f[x] \in Nat
  OBVIOUS
<1>6. /\ \A E \in SUBSET D : g[E] \in Nat
      /\ \A E \in SUBSET D : \A x \in E : g[E] = f[x] + g[E \ {x}]
  BY <1>1, <1>5, SumType, SumOrder
<1> QED
  BY <1>3, <1>4, <1>6 DEF Sums

LEMMA TotalNothing ==
    ASSUME NEW f, DOMAIN f = {}
    PROVE  Total(f) = 0
<1>1. PICK g : g = CHOOSE k : IsSum(k, f, SUBSET DOMAIN f)
  OBVIOUS
<1>2. IsFiniteSet({})
  BY FS_EmptySet
<1>3. IsSum(g, f, SUBSET DOMAIN f)
  BY <1>1, <1>2, SumExists
<1>4. Total(f) = g[DOMAIN f]
  BY <1>1, TotalIsSum
<1> QED
  BY <1>3, <1>4 DEF IsSum, Summed

LEMMA TotalType ==
    ASSUME NEW D, IsFiniteSet(D), NEW f, f \in [D -> Nat]
    PROVE  Total(f) \in Nat
<1>1. PICK g : Sums(g, f, D)
  BY TotalOf
<1> QED
  BY <1>1 DEF Sums

LEMMA TotalAdds ==
    ASSUME NEW D, IsFiniteSet(D), NEW f, f \in [D -> Nat], NEW x \in D
    PROVE  Total(f) = f[x] + Total(Restrict(f, D \ {x}))
<1>1. PICK g : Sums(g, f, D)
  BY TotalOf
<1>2. Total(Restrict(f, D \ {x})) = g[D \ {x}]
  BY <1>1 DEF Sums
<1> QED
  BY <1>1, <1>2 DEF Sums

LEMMA TotalGrows ==
    ASSUME NEW D, IsFiniteSet(D), NEW f, f \in [D -> Nat], NEW E \in SUBSET D
    PROVE  Total(Restrict(f, E)) <= Total(f)
<1>1. PICK g : Sums(g, f, D)
  BY TotalOf
<1> DEFINE S == {t \in SUBSET D : g[D \ t] <= g[D]}
<1>2. {} \in S
  <2>1. D \ {} = D /\ g[D] \in Nat
    BY <1>1 DEF Sums
  <2> QED
    BY <2>1
<1>3. ASSUME NEW t \in SUBSET D, t # {}, \A x \in t : t \ {x} \in S
      PROVE  t \in S
  <2>1. PICK x \in t : t \ {x} \in S
    BY <1>3
  <2>2. PICK F \in SUBSET D : F = D \ (t \ {x})
    OBVIOUS
  <2>3. F \ {x} = D \ t /\ x \in F /\ x \in D
    BY <2>2
  <2>4. g[F] = f[x] + g[D \ t] /\ g[F] <= g[D]
    <3>1. g[F] = f[x] + g[F \ {x}]
      BY <1>1, <2>3 DEF Sums
    <3>2. g[F] <= g[D]
      BY <2>1, <2>2
    <3> QED
      BY <2>3, <3>1, <3>2
  <2>5. f[x] \in Nat /\ g[D \ t] \in Nat /\ g[D] \in Nat /\ g[F] \in Nat
    BY <1>1, <2>3 DEF Sums
  <2> QED
    BY <2>4, <2>5
<1> HIDE DEF S
<1>4. SUBSET D \subseteq S
  BY <1>2, <1>3, SubsetInduction
<1>5. D \ E \in S /\ D \ (D \ E) = E
  BY <1>4
<1> QED
  BY <1>1, <1>5 DEF S, Sums

LEMMA TotalExtends ==
    ASSUME NEW D, IsFiniteSet(D), NEW f, f \in [D -> Nat], NEW x, NEW v \in Nat,
           NEW h, h = [y \in D \cup {x} |-> IF y = x THEN v ELSE f[y]]
    PROVE  /\ IsFiniteSet(D \cup {x}) /\ h \in [D \cup {x} -> Nat]
           /\ Total(h) <= Total(f) + v
           /\ x \notin D => Total(h) = Total(f) + v
<1>1. IsFiniteSet(D \cup {x}) /\ h \in [D \cup {x} -> Nat] /\ h[x] = v
  BY FS_AddElement
<1>2. Total(h) = v + Total(Restrict(h, (D \cup {x}) \ {x}))
  BY <1>1, TotalAdds
<1>3. Restrict(h, (D \cup {x}) \ {x}) = Restrict(f, D \ {x})
  BY DEF Restrict
<1>4. IsFiniteSet(D \ {x}) /\ Restrict(f, D \ {x}) \in [D \ {x} -> Nat]
  BY FS_RemoveElement DEF Restrict
<1>5. Total(f) \in Nat /\ Total(Restrict(f, D \ {x})) \in Nat
  BY <1>4, TotalType
<1>6. Total(Restrict(f, D \ {x})) <= Total(f)
  BY TotalGrows
<1>7. x \notin D => Restrict(f, D \ {x}) = f
  BY DEF Restrict
<1> QED
  BY <1>1, <1>2, <1>3, <1>5, <1>6, <1>7

-----------------------------------------------------------------------------
(* The sums of the first entries of a list of sizes.                         *)
IsPrefixSum(q, b, n) ==
    /\ q \in [0 .. n -> Nat] /\ q[0] = 0 /\ q[n] = Total(b)
    /\ \A k \in 0 .. n : q[k] <= Total(b)
    /\ \A k \in 0 .. n - 1 : q[k + 1] = q[k] + b[k + 1]

LEMMA PrefixSums ==
    ASSUME NEW n \in Nat, NEW b, b \in [1 .. n -> Nat]
    PROVE  \E q : IsPrefixSum(q, b, n)
<1>1. IsFiniteSet(1 .. n)
  BY FS_Interval
<1>2. PICK g : Sums(g, b, 1 .. n)
  BY <1>1, TotalOf
<1>3. PICK q : q = [k \in 0 .. n |-> g[1 .. k]]
  OBVIOUS
<1>4. \A k \in 0 .. n : /\ 1 .. k \in SUBSET (1 .. n) /\ g[1 .. k] \in Nat
                        /\ g[1 .. k] <= Total(b)
  <2> TAKE k \in 0 .. n
  <2>1. 1 .. k \in SUBSET (1 .. n)
    OBVIOUS
  <2>2. g[1 .. k] = Total(Restrict(b, 1 .. k)) /\ g[1 .. k] \in Nat
    BY <1>2, <2>1 DEF Sums
  <2>3. Total(Restrict(b, 1 .. k)) <= Total(b)
    BY <1>1, <2>1, TotalGrows
  <2> QED
    BY <2>1, <2>2, <2>3
<1>5. q[0] = 0
  <2>1. 1 .. 0 = {} /\ {} \in SUBSET (1 .. n)
    OBVIOUS
  <2>2. g[{}] = Total(Restrict(b, {}))
    BY <1>2, <2>1 DEF Sums
  <2>3. Total(Restrict(b, {})) = 0
    BY TotalNothing DEF Restrict
  <2> QED
    BY <1>3, <2>1, <2>2, <2>3
<1>6. \A k \in 0 .. n - 1 : q[k + 1] = q[k] + b[k + 1]
  <2> TAKE k \in 0 .. n - 1
  <2>1. 1 .. k + 1 \in SUBSET (1 .. n) /\ k + 1 \in 1 .. k + 1
    OBVIOUS
  <2>2. (1 .. k + 1) \ {k + 1} = 1 .. k
    OBVIOUS
  <2>3. g[1 .. k + 1] = b[k + 1] + g[(1 .. k + 1) \ {k + 1}]
    BY <1>2, <2>1 DEF Sums
  <2>4. b[k + 1] \in Nat /\ g[1 .. k] \in Nat
    BY <1>4
  <2>5. q[k + 1] = g[1 .. k + 1] /\ q[k] = g[1 .. k]
    BY <1>3
  <2> QED
    <3>1. g[1 .. k + 1] = b[k + 1] + g[1 .. k]
      BY ONLY <2>2, <2>3
    <3>2. q[k + 1] = b[k + 1] + q[k] /\ q[k] \in Nat
      BY ONLY <2>4, <2>5, <3>1
    <3> QED
      BY <2>4, <3>2
<1>7. q \in [0 .. n -> Nat] /\ q[n] = Total(b)
  BY <1>2, <1>3, <1>4 DEF Sums
<1>8. \A k \in 0 .. n : q[k] <= Total(b)
  BY <1>3, <1>4
<1> QED
  BY <1>5, <1>6, <1>7, <1>8 DEF IsPrefixSum

-----------------------------------------------------------------------------
(* The running total of Parse: it is defined, and starts at 0.               *)
Running(t, a, i) == IF i = 1 THEN 0 ELSE (t[i - 1] + a[i - 1].size) % Word
IsBefore(t, a, n) == t = [i \in 1 .. n + 1 |-> Running(t, a, i)]

LEMMA TotalBeforeIs ==
    ASSUME NEW a, Len(a) \in Nat
    PROVE  IsBefore(TotalBefore(a), a, Len(a))
<1> DEFINE N == {n \in Nat : \E t : IsBefore(t, a, n)}
<1>1. 0 \in N
  <2>1. IsBefore([i \in 1 .. 1 |-> 0], a, 0)
    BY DEF IsBefore, Running
  <2> QED
    BY <2>1
<1>2. ASSUME NEW n \in Nat, n \in N
      PROVE  n + 1 \in N
  <2>1. PICK t : IsBefore(t, a, n)
    BY <1>2
  <2>2. PICK h : h = [i \in 1 .. n + 1 + 1 |-> Running(t, a, i)]
    OBVIOUS
  <2>3. \A i \in 1 .. n + 1 : h[i] = t[i]
    BY <2>1, <2>2 DEF IsBefore
  <2>4. \A i \in 1 .. n + 1 + 1 : i = 1 \/ i - 1 \in 1 .. n + 1
    OBVIOUS
  <2>5. \A i \in 1 .. n + 1 + 1 : Running(h, a, i) = Running(t, a, i)
    BY <2>3, <2>4 DEF Running
  <2>6. IsBefore(h, a, n + 1)
    BY <2>2, <2>5 DEF IsBefore
  <2> QED
    BY <2>6
<1>3. \A n \in Nat : n \in N
  <2> HIDE DEF N
  <2> QED
    BY <1>1, <1>2, SetInduction
<1>4. PICK t : IsBefore(t, a, Len(a))
  BY <1>3
<1>5. TotalBefore(a) = CHOOSE s : IsBefore(s, a, Len(a))
  BY DEF TotalBefore, IsBefore, Running
<1> QED
  BY <1>4, <1>5

LEMMA Remainder ==
    ASSUME NEW w \in Nat, NEW x \in 0 .. w - 1
    PROVE  x % w = x /\ (w + x) % w = x
  OBVIOUS

(* What an archive holds.                                                    *)
Sized(a) == \A i \in DOMAIN a : a[i].size = Size[a[i].body]
Sizes(a) == [i \in DOMAIN a |-> Size[a[i].body]]

LEMMA SizesType ==
    ASSUME NEW a, a \in Seq(Entry)
    PROVE  /\ Len(a) \in Nat /\ DOMAIN a = 1 .. Len(a) /\ IsFiniteSet(1 .. Len(a))
           /\ Sizes(a) \in [1 .. Len(a) -> Nat]
           /\ \A i \in 1 .. Len(a) : /\ a[i].size \in Nat /\ Size[a[i].body] \in Nat
                                     /\ a[i].name \in Path /\ a[i].body \in Body
           /\ BytesOf(a) = Total(Sizes(a)) /\ BytesOf(a) \in Nat
<1>1. Len(a) \in Nat /\ DOMAIN a = 1 .. Len(a) /\ \A i \in 1 .. Len(a) : a[i] \in Entry
  OBVIOUS
<1>2. \A i \in 1 .. Len(a) : /\ a[i].size \in Nat /\ Size[a[i].body] \in Nat
                             /\ a[i].name \in Path /\ a[i].body \in Body
  BY <1>1, SizeAssumption, LimitAssumption DEF Entry
<1>3. IsFiniteSet(1 .. Len(a)) /\ Sizes(a) \in [1 .. Len(a) -> Nat]
  <2>1. IsFiniteSet(1 .. Len(a))
    BY <1>1, FS_Interval
  <2>2. Sizes(a) \in [1 .. Len(a) -> Nat]
    BY <1>1, <1>2 DEF Sizes
  <2> QED
    BY <2>1, <2>2
<1>4. BytesOf(a) = Total(Sizes(a))
  BY DEF BytesOf, Sizes
<1>5. Total(Sizes(a)) \in Nat
  BY <1>3, TotalType
<1> QED
  BY <1>1, <1>2, <1>3, <1>4, <1>5

(* Parse subtracts and adds unsigned numbers, entry by entry, and claims may *)
(* be anything up to the largest number; all the same it accepts exactly the *)
(* archives whose sizes add up, as numbers, to no more than the limit.       *)
THEOREM WithinIsBytes ==
    ASSUME NEW a, a \in Seq(Entry), Sized(a), NEW max \in 0 .. Word - 1
    PROVE  Within(a, max) <=> BytesOf(a) <= max
<1>1. PICK n : n = Len(a)
  OBVIOUS
<1>2. /\ n \in Nat /\ DOMAIN a = 1 .. n /\ Sizes(a) \in [1 .. n -> Nat]
      /\ BytesOf(a) = Total(Sizes(a)) /\ BytesOf(a) \in Nat
      /\ \A i \in 1 .. n : a[i].size = Sizes(a)[i] /\ a[i].size \in Nat
  BY <1>1, SizesType DEF Sizes, Sized
<1>3. PICK q : IsPrefixSum(q, Sizes(a), n)
  BY <1>2, PrefixSums
<1>4. PICK t : t = TotalBefore(a)
  OBVIOUS
<1>5. /\ t[1] = 0
      /\ \A k \in 1 .. n : t[k + 1] = (t[k] + a[k].size) % Word
  <2>1. t = [i \in 1 .. n + 1 |-> Running(t, a, i)]
    BY <1>1, <1>2, <1>4, TotalBeforeIs DEF IsBefore
  <2>2. t[1] = 0
    BY <1>2, <2>1 DEF Running
  <2>3. ASSUME NEW k \in 1 .. n
        PROVE  t[k + 1] = (t[k] + a[k].size) % Word
    <3>1. PICK j \in 1 .. n + 1 : j = k + 1 /\ j # 1 /\ j - 1 = k
      BY <1>2
    <3>2. t[j] = (t[j - 1] + a[j - 1].size) % Word
      BY <2>1, <3>1 DEF Running
    <3> QED
      BY <3>1, <3>2
  <2> QED
    BY <2>2, <2>3
<1>6. /\ q[0] = 0 /\ q[n] = BytesOf(a)
      /\ \A k \in 0 .. n : q[k] \in Nat /\ q[k] <= BytesOf(a)
      /\ \A k \in 1 .. n : k - 1 \in 0 .. n /\ q[k] = q[k - 1] + a[k].size
  <2>1. \A k \in 1 .. n : k - 1 \in 0 .. n - 1 /\ k - 1 \in 0 .. n /\ k - 1 + 1 = k
    BY <1>2
  <2> QED
    BY <1>2, <1>3, <2>1 DEF IsPrefixSum
<1>7. Word \in Nat /\ max \in Nat /\ max < Word
  BY LimitAssumption
\* Adding to a sum that is still within the limit does not wrap round.
<1>8. ASSUME NEW k \in 1 .. n, t[k] = q[k - 1], q[k - 1] <= max
      PROVE  /\ (Word + max - t[k]) % Word = max - q[k - 1]
             /\ q[k] <= max => t[k + 1] = q[k]
             /\ q[k] <= max <=> a[k].size <= (Word + max - t[k]) % Word
  <2>1. q[k - 1] \in Nat /\ a[k].size \in Nat /\ q[k] = q[k - 1] + a[k].size
    BY <1>2, <1>6
  <2>2. /\ max - q[k - 1] \in 0 .. Word - 1
        /\ Word + max - t[k] = Word + (max - q[k - 1])
    BY <1>7, <1>8, <2>1
  <2>3. (Word + max - t[k]) % Word = max - q[k - 1]
    BY <1>7, <2>2, Remainder
  <2>4. ASSUME q[k] <= max
        PROVE  t[k + 1] = q[k]
    <3>1. t[k] + a[k].size = q[k] /\ q[k] \in 0 .. Word - 1
      BY <1>7, <1>8, <2>1, <2>4
    <3> QED
      BY <1>5, <1>7, <3>1, Remainder
  <2> QED
    BY <1>7, <2>1, <2>3, <2>4
<1>9. ASSUME Within(a, max)
      PROVE  BytesOf(a) <= max
  <2> DEFINE N == {k \in Nat : k <= n => t[k + 1] = q[k] /\ q[k] <= max}
  <2>1. 0 \in N
    BY <1>5, <1>6, <1>7
  <2>2. ASSUME NEW k \in Nat, k \in N
        PROVE  k + 1 \in N
    <3>1. SUFFICES ASSUME k + 1 <= n
                   PROVE  t[k + 1 + 1] = q[k + 1] /\ q[k + 1] <= max
      OBVIOUS
    <3>2. k + 1 \in 1 .. n /\ k + 1 - 1 = k /\ t[k + 1] = q[k] /\ q[k] <= max
      BY <1>2, <2>2, <3>1
    <3>3. a[k + 1].size <= (Word + max - t[k + 1]) % Word
      BY <1>2, <1>4, <1>9, <3>2 DEF Within
    <3> QED
      BY <1>8, <3>2, <3>3
  <2>3. \A k \in Nat : k \in N
    <3> HIDE DEF N
    <3> QED
      BY <2>1, <2>2, SetInduction
  <2> QED
    BY <1>2, <1>6, <2>3
<1>10. ASSUME BytesOf(a) <= max
       PROVE  Within(a, max)
  <2>1. \A k \in 0 .. n : q[k] <= max
    BY <1>2, <1>6, <1>7, <1>10
  <2> DEFINE N == {k \in Nat : k <= n => t[k + 1] = q[k]}
  <2>2. 0 \in N
    BY <1>5, <1>6
  <2>3. ASSUME NEW k \in Nat, k \in N
        PROVE  k + 1 \in N
    <3>1. SUFFICES ASSUME k + 1 <= n
                   PROVE  t[k + 1 + 1] = q[k + 1]
      OBVIOUS
    <3>2. /\ k + 1 \in 1 .. n /\ k + 1 - 1 = k /\ t[k + 1] = q[k]
          /\ q[k] <= max /\ q[k + 1] <= max
      BY <1>2, <2>1, <2>3, <3>1
    <3> QED
      BY <1>8, <3>2
  <2>4. \A k \in Nat : k \in N
    <3> HIDE DEF N
    <3> QED
      BY <2>2, <2>3, SetInduction
  <2>5. ASSUME NEW k \in 1 .. n
        PROVE  a[k].size <= (Word + max - t[k]) % Word
    <3>1. k - 1 \in Nat /\ k - 1 <= n /\ k - 1 + 1 = k
      BY <1>2
    <3>2. t[k] = q[k - 1] /\ q[k - 1] <= max /\ q[k] <= max
      BY <1>2, <2>1, <2>4, <3>1
    <3> QED
      BY <1>8, <3>2
  <2> QED
    BY <1>2, <1>4, <2>5 DEF Within
<1> QED
  BY <1>9, <1>10

LEMMA BytesOfAppend ==
    ASSUME NEW a, a \in Seq(Entry), NEW e \in Entry
    PROVE  BytesOf(Append(a, e)) = BytesOf(a) + Size[e.body]
<1>1. PICK n : n = Len(a)
  OBVIOUS
<1>2. PICK b : b = Append(a, e)
  OBVIOUS
<1>3. /\ b \in Seq(Entry) /\ n \in Nat /\ DOMAIN a = 1 .. n /\ DOMAIN b = 1 .. n \cup {n + 1}
      /\ b[n + 1] = e /\ \A i \in 1 .. n : b[i] = a[i]
  BY <1>1, <1>2
<1>4. n + 1 \notin 1 .. n /\ Size[e.body] \in Nat
  BY <1>3, SizeAssumption, LimitAssumption DEF Entry
<1>5. Sizes(b) = [y \in 1 .. n \cup {n + 1} |-> IF y = n + 1 THEN Size[e.body] ELSE Sizes(a)[y]]
  BY <1>3, <1>4 DEF Sizes
<1>6. /\ IsFiniteSet(1 .. n) /\ Sizes(a) \in [1 .. n -> Nat]
      /\ BytesOf(a) = Total(Sizes(a)) /\ BytesOf(b) = Total(Sizes(b))
  BY <1>1, <1>3, SizesType
<1>7. Total(Sizes(b)) = Total(Sizes(a)) + Size[e.body]
  <2>1. PICK D : D = 1 .. n
    OBVIOUS
  <2>2. PICK f : f = Sizes(a)
    OBVIOUS
  <2>3. PICK v \in Nat : v = Size[e.body]
    BY <1>4
  <2>4. PICK x : x = n + 1
    OBVIOUS
  <2>5. PICK h : h = [y \in D \cup {x} |-> IF y = x THEN v ELSE f[y]]
    OBVIOUS
  <2>6. Sizes(b) = h
    BY <1>5, <2>1, <2>2, <2>3, <2>4, <2>5
  <2>7. IsFiniteSet(D) /\ f \in [D -> Nat] /\ x \notin D
    BY <1>4, <1>6, <2>1, <2>2, <2>4
  <2>8. Total(h) = Total(f) + v
    BY ONLY <2>3, <2>5, <2>7, TotalExtends
  <2> QED
    BY <2>2, <2>3, <2>6, <2>8
<1> QED
  BY <1>2, <1>6, <1>7

LEMMA NamesAre ==
    ASSUME NEW a
    PROVE  Names(a) = {a[i].name : i \in DOMAIN a}
  BY DEF Names, ToSet

LEMMA NamesAppend ==
    ASSUME NEW a, a \in Seq(Entry), NEW e \in Entry
    PROVE  Names(Append(a, e)) = Names(a) \cup {e.name}
<1>1. PICK b : b = Append(a, e)
  OBVIOUS
<1>2. PICK n \in Nat : /\ DOMAIN a = 1 .. n /\ DOMAIN b = 1 .. n \cup {n + 1}
                       /\ b[n + 1] = e /\ \A i \in 1 .. n : b[i] = a[i]
  BY <1>1
<1>3. \A x : x \in Names(a) <=> \E i \in 1 .. n : x = a[i].name
  BY <1>2, NamesAre
<1>4. \A x : x \in Names(b) <=> \E i \in 1 .. n \cup {n + 1} : x = b[i].name
  BY <1>2, NamesAre
<1>5. \A x : x \in Names(b) <=> x \in Names(a) \/ x = e.name
  BY <1>2, <1>3, <1>4
<1>6. Names(b) = Names(a) \cup {e.name}
  BY <1>5
<1> QED
  BY <1>1, <1>6

(* Entries with different names are as many as the names.                    *)
Distinct(a) == \A i, j \in DOMAIN a : a[i].name = a[j].name => i = j

LEMMA DistinctNames ==
    ASSUME NEW a, a \in Seq(Entry), Distinct(a)
    PROVE  IsFiniteSet(Names(a)) /\ Cardinality(Names(a)) = Len(a)
<1>1. PICK f : f = [i \in DOMAIN a |-> a[i].name]
  OBVIOUS
<1>2. Len(a) \in Nat /\ DOMAIN a = 1 .. Len(a)
  OBVIOUS
<1>3. IsFiniteSet(1 .. Len(a)) /\ Cardinality(1 .. Len(a)) = Len(a)
  BY <1>2, FS_Interval
<1>4. f \in Bijection(1 .. Len(a), Names(a))
  BY <1>1, <1>2, NamesAre DEF Distinct, Bijection, Injection, Surjection, IsInjective
<1>5. ExistsBijection(1 .. Len(a), Names(a))
  BY <1>4 DEF ExistsBijection
<1> QED
  BY <1>3, <1>5, FS_Bijection

(* Parse, in terms of bytes and of names.                                    *)
LEMMA ParsesWhat ==
    ASSUME NEW a, a \in Seq(Entry), NEW max \in 0 .. Word - 1
    PROVE  Parses(a, max) <=> /\ Len(a) \in 1 .. MaxFiles
                              /\ BytesOf(a) <= max
                              /\ Sized(a) /\ Distinct(a)
                              /\ \A i \in DOMAIN a : a[i].name \in Html \ Invalid /\ a[i].regular
                              /\ <<Index>> \in Names(a)
<1>1. DOMAIN a = 1 .. Len(a) /\ Len(a) \in Nat
  OBVIOUS
<1>2. Distinct(a) <=> \A i \in DOMAIN a : \A j \in 1 .. i - 1 : a[j].name # a[i].name
  <2>1. ASSUME Distinct(a), NEW i \in DOMAIN a, NEW j \in 1 .. i - 1
        PROVE  a[j].name # a[i].name
    BY <1>1, <2>1 DEF Distinct
  <2>2. ASSUME \A i \in DOMAIN a : \A j \in 1 .. i - 1 : a[j].name # a[i].name,
               NEW i \in DOMAIN a, NEW j \in DOMAIN a, a[i].name = a[j].name
        PROVE  i = j
    <3>1. j \notin 1 .. i - 1 /\ i \notin 1 .. j - 1
      BY <2>2
    <3> QED
      BY <1>1, <3>1
  <2> QED
    BY <2>1, <2>2 DEF Distinct
<1>3. (\E i \in DOMAIN a : a[i].name = <<Index>>) <=> <<Index>> \in Names(a)
  BY NamesAre
<1>4. Sized(a) => (Within(a, max) <=> BytesOf(a) <= max)
  BY WithinIsBytes
<1> QED
  BY <1>2, <1>3, <1>4 DEF Parses, Sized

-----------------------------------------------------------------------------
(* What Pack maintains.  First the paths: what is below a directory is below *)
(* one of its children, or is one.                                           *)
LEMMA Below ==
    ASSUME NEW d \in Seq(STRING), NEW p \in Seq(STRING), IsStrictPrefix(d, p)
    PROVE  /\ SubSeq(p, 1, Len(d) + 1) \in Seq(STRING)
           /\ IsPrefix(SubSeq(p, 1, Len(d) + 1), p)
<1>1. /\ Len(d) \in Nat /\ Len(p) \in Nat /\ Len(d) <= Len(p)
      /\ SubSeq(d, 1, Len(d)) = SubSeq(p, 1, Len(d)) /\ d # p
  BY DEF IsStrictPrefix, IsPrefix
<1>2. SubSeq(d, 1, Len(d)) = d /\ SubSeq(p, 1, Len(p)) = p
  OBVIOUS
<1>3. Len(d) + 1 <= Len(p)
  BY <1>1, <1>2
<1>4. PICK c : c = SubSeq(p, 1, Len(d) + 1)
  OBVIOUS
<1>5. c \in Seq(STRING) /\ Len(c) = Len(d) + 1
  BY <1>1, <1>3, <1>4
<1>6. SubSeq(c, 1, Len(c)) = SubSeq(p, 1, Len(c))
  BY <1>1, <1>3, <1>4, <1>5
<1> QED
  BY <1>3, <1>4, <1>5, <1>6 DEF IsPrefix

LEMMA BundleTypes ==
    ASSUME BundleInv
    PROVE  /\ IsFiniteSet(DOMAIN measured) /\ measured \in [DOMAIN measured -> Nat]
           /\ Total(measured) \in Nat /\ Total(measured) <= PackBytes
           /\ BytesOf(archive) \in Nat /\ Packed = Names(archive)
<1>1. measured \in [DOMAIN measured -> Nat] /\ IsFiniteSet(DOMAIN measured)
  BY LimitAssumption DEF BundleInv, BundleOK, CountIsBounded
<1>2. Total(measured) \in Nat /\ Total(measured) <= PackBytes
  BY <1>1, TotalType DEF BundleInv, CountIsBounded
<1>3. BytesOf(archive) \in Nat
  BY SizesType DEF BundleInv, BundleOK
<1>4. Packed = Names(archive)
  BY DEF Packed, Names
<1> QED
  BY <1>1, <1>2, <1>3, <1>4

LEMMA DirTypes ==
    ASSUME BundleInv, NEW p \in OnDisk
    PROVE  /\ p \in Seq(STRING) /\ p \in Path
           /\ dir[p] # Absent => /\ dir[p] \in File /\ dir[p].body \in Body
                                 /\ Size[dir[p].body] \in 0 .. Word - 1
<1>1. p \in Seq(STRING) /\ p \in Path /\ dir[p] \in File \cup {Absent}
  BY PathAssumption DEF BundleInv, BundleOK
<1>2. dir[p] \in File => dir[p].body \in Body
  BY DEF File
<1> QED
  BY <1>1, <1>2, SizeAssumption

LEMMA InitBundleInv ==
    ASSUME InitBundle
    PROVE  BundleInv
<1>1. /\ measured = <<>> /\ archive = <<>> /\ todo = {<<>>} /\ pc = "walk"
      /\ edits = 0 /\ dir \in Drafts
  BY DEF InitBundle
<1>2. /\ DOMAIN measured = {} /\ DOMAIN archive = {} /\ archive \in Seq(Entry)
      /\ <<>> \in Seq(STRING) /\ measured \in [DOMAIN measured -> 0 .. PackBytes]
  BY <1>1
<1>3. Packed = {} /\ DOMAIN Restrict(measured, Packed) = {}
  BY <1>2, NamesAre DEF Packed, ToSet, Restrict
<1>4. Total(measured) = 0 /\ BytesOf(archive) = 0 /\ Total(Restrict(measured, Packed)) = 0
  BY <1>2, <1>3, TotalNothing DEF BytesOf
<1>5. BundleOK
  BY <1>1, <1>2, DraftAssumption DEF BundleOK
<1>6. CountIsBounded
  BY <1>2, <1>4, FS_EmptySet, LimitAssumption DEF CountIsBounded
<1>7. ArchiveIsCounted
  BY <1>1, <1>2, <1>3, <1>4 DEF ArchiveIsCounted
<1>8. NothingIsMissed
  <2>1. \A p \in OnDisk : IsPrefix(<<>>, p)
    BY PathAssumption DEF IsPrefix
  <2> QED
    BY <1>1, <1>2, <2>1 DEF NothingIsMissed
<1> QED
  BY <1>5, <1>6, <1>7, <1>8 DEF BundleInv

LEMMA EditKeepsInv ==
    ASSUME BundleInv, NEW p \in OnDisk, NEW f \in Edited, Edit(p, f)
    PROVE  BundleInv'
<1>1. UNCHANGED <<pc, todo, measured, archive>> /\ edits' = edits + 1 /\ edits \in Nat
  BY DEF Edit, pack, BundleInv, BundleOK
<1>2. dir' \in [OnDisk -> File \cup {Absent}]
  BY DraftAssumption DEF Edit, BundleInv, BundleOK
<1>3. BundleOK' /\ CountIsBounded' /\ ArchiveIsCounted'
  BY <1>1, <1>2 DEF BundleInv, BundleOK, CountIsBounded, ArchiveIsCounted, Packed
<1>4. NothingIsMissed'
  BY <1>1 DEF NothingIsMissed
<1> QED
  BY <1>3, <1>4 DEF BundleInv

(* Pack gives up, or is done and its archive is sent.                        *)
LEMMA EndKeepsInv ==
    ASSUME BundleInv, UNCHANGED <<dir, edits, todo, measured, archive>>,
           pc' \in {"failed", "blocked", "sent", "refused"}
    PROVE  BundleInv'
<1>1. BundleOK' /\ CountIsBounded' /\ ArchiveIsCounted'
  BY DEF BundleInv, BundleOK, CountIsBounded, ArchiveIsCounted, Packed
<1>2. NothingIsMissed'
  BY DEF BundleInv, NothingIsMissed
<1> QED
  BY <1>1, <1>2 DEF BundleInv

LEMMA ListKeepsInv ==
    ASSUME BundleInv, NEW d \in todo, List(d)
    PROVE  BundleInv'
<1>1. CASE Children(d) = {} /\ Fail
  BY <1>1, EndKeepsInv DEF List, Fail
<1>2. CASE todo' = (todo \ {d}) \cup Children(d) /\ UNCHANGED <<pc, measured, archive>>
  <2>1. /\ UNCHANGED <<dir, edits, pc, measured, archive>> /\ d \notin OnDisk /\ pc = "walk"
        /\ d \in Seq(STRING) /\ todo \subseteq Seq(STRING)
    BY <1>2 DEF List, BundleInv, BundleOK
  <2>2. \A p \in OnDisk : IsStrictPrefix(d, p) =>
                             /\ SubSeq(p, 1, Len(d) + 1) \in Seq(STRING)
                             /\ IsPrefix(SubSeq(p, 1, Len(d) + 1), p)
    <3>1. \A p \in OnDisk : p \in Seq(STRING)
      BY DirTypes
    <3> QED
      BY <2>1, <3>1, Below
  <2>3. Children(d) \subseteq Seq(STRING)
    BY <2>2 DEF Children, Under
  <2>4. BundleOK' /\ CountIsBounded' /\ ArchiveIsCounted'
    BY <1>2, <2>1, <2>3 DEF BundleInv, BundleOK, CountIsBounded, ArchiveIsCounted, Packed
  <2>5. ASSUME NEW p \in OnDisk, dir[p] # Absent, IsPrefix(d, p)
        PROVE  \E c \in todo' : IsPrefix(c, p)
    <3>1. p \in Under(d)
      BY <2>1, <2>5 DEF Under, IsStrictPrefix
    <3>2. SubSeq(p, 1, Len(d) + 1) \in Children(d)
      BY <3>1 DEF Children
    <3> QED
      BY <1>2, <2>2, <3>1, <3>2 DEF Under
  <2>6. NothingIsMissed'
    BY <1>2, <2>1, <2>5 DEF BundleInv, NothingIsMissed
  <2> QED
    BY <2>4, <2>6 DEF BundleInv
<1> QED
  BY <1>1, <1>2 DEF List

LEMMA MeasureKeepsInv ==
    ASSUME BundleInv, NEW p \in todo, Measure(p)
    PROVE  BundleInv'
<1>1. CASE ~MayPack(p) /\ Fail
  BY <1>1, EndKeepsInv DEF Measure, Fail
<1>2. CASE MayPack(p) /\ ~(~MayPack(p) /\ Fail)
  <2>1. /\ UNCHANGED <<dir, edits, pc, archive>> /\ p \in OnDisk \cap Html /\ pc = "walk"
        /\ todo' = todo \ {p} /\ dir[p] # Absent
        /\ Cardinality(DOMAIN measured) < MaxFiles
        /\ Size[dir[p].body] <= PackBytes - Total(measured)
        /\ measured' = [q \in DOMAIN measured \cup {p} |->
                           IF q = p THEN Size[dir[p].body] ELSE measured[q]]
    BY <1>2 DEF Measure, MayPack, Fits
  <2>2. PICK v \in Nat : v = Size[dir[p].body]
    BY <2>1, DirTypes, LimitAssumption
  <2>3. PICK D : D = DOMAIN measured
    OBVIOUS
  <2>4. /\ IsFiniteSet(D) /\ measured \in [D -> Nat] /\ Total(measured) \in Nat
        /\ Total(measured) <= PackBytes /\ PackBytes \in Nat
    BY <2>3, BundleTypes, LimitAssumption
  <2>5. measured' = [q \in D \cup {p} |-> IF q = p THEN v ELSE measured[q]]
    BY <2>1, <2>2, <2>3
  <2>6. /\ IsFiniteSet(D \cup {p}) /\ measured' \in [D \cup {p} -> Nat]
        /\ Total(measured') <= Total(measured) + v
    <3>1. PICK f : f = measured
      OBVIOUS
    <3>2. PICK h : h = [q \in D \cup {p} |-> IF q = p THEN v ELSE f[q]]
      OBVIOUS
    <3>3. measured' = h
      BY <2>5, <3>1, <3>2
    <3>4. IsFiniteSet(D) /\ f \in [D -> Nat]
      BY <2>4, <3>1
    <3>5. IsFiniteSet(D \cup {p}) /\ h \in [D \cup {p} -> Nat] /\ Total(h) <= Total(f) + v
      BY ONLY <2>2, <3>2, <3>4, TotalExtends
    <3> QED
      BY <3>1, <3>3, <3>5
  <2>7. CountIsBounded'
    <3>1. DOMAIN measured' = D \cup {p}
      BY <2>5
    <3>2. Cardinality(D \cup {p}) <= Cardinality(D) + 1 /\ Cardinality(D) \in Nat
      <4>1. Cardinality(D) \in Nat
        BY <2>4, FS_CardinalityType
      <4>2. Cardinality(D \cup {p}) = IF p \in D THEN Cardinality(D) ELSE Cardinality(D) + 1
        BY <2>4, FS_AddElement
      <4> QED
        BY <4>1, <4>2
    <3>3. Total(measured') <= PackBytes
      <4>1. Total(measured') \in Nat
        BY <2>6, TotalType
      <4> QED
        BY <2>1, <2>2, <2>4, <2>6, <4>1
    <3>4. Total(measured)' <= PackBytes
      BY <3>3
    <3>5. Cardinality(D \cup {p}) <= MaxFiles
      <4>1. Cardinality(D) < MaxFiles
        BY <2>1, <2>3
      <4>2. Cardinality(D \cup {p}) \in Nat
        BY <2>6, FS_CardinalityType
      <4> QED
        BY <3>2, <4>1, <4>2, LimitAssumption
    <3> QED
      BY <2>6, <3>1, <3>4, <3>5 DEF CountIsBounded
  <2>8. BundleOK'
    <3>1. v \in 0 .. PackBytes
      BY <2>1, <2>2, <2>4
    <3>2. measured \in [D -> 0 .. PackBytes]
      BY <2>3 DEF BundleInv, BundleOK
    <3>3. measured' \in [DOMAIN measured' -> 0 .. PackBytes]
      BY <2>5, <3>1, <3>2
    <3> QED
      BY <2>1, <2>3, <2>5, <3>3 DEF BundleInv, BundleOK
  <2>9. ArchiveIsCounted'
    <3>1. archive = <<>> /\ archive' = <<>> /\ DOMAIN archive = {}
      BY <2>1 DEF BundleInv, ArchiveIsCounted
    <3>2. Packed = {} /\ Packed' = {}
      BY <3>1 DEF Packed, ToSet
    <3>3. Restrict(measured, Packed)' = Restrict(measured, Packed)
      BY <3>2 DEF Restrict
    <3> QED
      BY <2>1, <3>1, <3>2, <3>3 DEF BundleInv, ArchiveIsCounted
  <2>10. NothingIsMissed'
    <3>1. SUFFICES ASSUME edits = 0
                   PROVE  NothingIsMissed'
      BY <2>1 DEF NothingIsMissed
    <3>2. dir \in Drafts
      BY <3>1 DEF BundleInv, NothingIsMissed
    <3>3. ASSUME NEW q \in OnDisk, dir[q] # Absent, IsPrefix(p, q)
          PROVE  q = p
      BY <2>1, <3>2, <3>3, TreeAssumption DEF IsStrictPrefix
    <3> QED
      BY <2>1, <3>1, <3>3 DEF BundleInv, NothingIsMissed
  <2> QED
    BY <2>7, <2>8, <2>9, <2>10 DEF BundleInv
<1> QED
  BY <1>1, <1>2 DEF Measure

LEMMA EndWalkKeepsInv ==
    ASSUME BundleInv, EndWalk
    PROVE  BundleInv'
<1>1. CASE Fail
  BY <1>1, EndKeepsInv DEF EndWalk, Fail
<1>2. CASE <<Index>> \in DOMAIN measured /\ pc' = "read" /\ UNCHANGED <<todo, measured, archive>>
  <2>1. UNCHANGED <<dir, edits>> /\ todo = {} /\ pc = "walk"
    BY DEF EndWalk
  <2>2. BundleOK' /\ CountIsBounded' /\ ArchiveIsCounted'
    BY <1>2, <2>1 DEF BundleInv, BundleOK, CountIsBounded, ArchiveIsCounted, Packed
  <2>3. NothingIsMissed'
    BY <1>2, <2>1 DEF BundleInv, NothingIsMissed
  <2> QED
    BY <2>2, <2>3 DEF BundleInv
<1> QED
  BY <1>1, <1>2 DEF EndWalk

LEMMA ReadKeepsInv ==
    ASSUME BundleInv, NEW p \in DOMAIN measured, Read(p)
    PROVE  BundleInv'
<1>1. CASE Fail \/ Block
  BY <1>1, EndKeepsInv DEF Read, Fail, Block
<1>2. CASE Readable(p) /\ Unchanged(p) /\ ~Fail /\ ~Block
  <2>1. /\ UNCHANGED <<dir, edits, todo, measured>> /\ pc = "read" /\ p \notin Packed
        /\ dir[p] # Absent /\ Size[dir[p].body] = measured[p]
        /\ pc' = IF DOMAIN measured \ Packed = {p} THEN "packed" ELSE pc
    BY <1>2 DEF Read, Readable, Unchanged
  <2>2. PICK e : /\ e = [name |-> p, size |-> Size[dir[p].body], body |-> dir[p].body,
                         regular |-> TRUE]
                 /\ archive' = Append(archive, e)
    BY <1>2 DEF Read
  <2>3. e \in Entry /\ e.name = p /\ e.size = Size[e.body] /\ e.regular /\ e.body = dir[p].body
    <3>1. p \in OnDisk
      BY DEF BundleInv, BundleOK
    <3>2. p \in Path /\ dir[p].body \in Body /\ Size[dir[p].body] \in 0 .. Word - 1
      BY <2>1, <3>1, DirTypes
    <3> QED
      BY <2>2, <3>2 DEF Entry
  <2>4. archive \in Seq(Entry) /\ archive' \in Seq(Entry)
    BY <2>2, <2>3 DEF BundleInv, BundleOK
  <2>5. PICK n \in Nat : /\ DOMAIN archive = 1 .. n /\ DOMAIN archive' = 1 .. n \cup {n + 1}
                        /\ archive'[n + 1] = e /\ \A i \in 1 .. n : archive'[i] = archive[i]
    BY <2>2, <2>4
  <2>6. Packed' = Packed \cup {p} /\ Packed = {archive[i].name : i \in DOMAIN archive}
    <3>1. Packed = Names(archive) /\ Packed' = Names(archive')
      BY DEF Packed, Names
    <3> QED
      BY <2>2, <2>3, <2>4, <3>1, NamesAppend, NamesAre
  <2>7. BundleOK' /\ CountIsBounded'
    BY <2>1, <2>4 DEF BundleInv, BundleOK, CountIsBounded
  <2>8. BytesOf(archive)' = Total(Restrict(measured, Packed)')
    <3>1. BytesOf(archive') = BytesOf(archive) + measured[p]
      BY <2>1, <2>2, <2>3, <2>4, BytesOfAppend
    <3>2. PICK D : D = Packed
      OBVIOUS
    <3>3. PICK f : f = Restrict(measured, D)
      OBVIOUS
    <3>4. PICK v : v = measured[p]
      OBVIOUS
    <3>5. PICK h : h = Restrict(measured, D \cup {p})
      OBVIOUS
    <3>6. IsFiniteSet(D) /\ f \in [D -> Nat] /\ p \notin D /\ v \in Nat
      <4>1. D \subseteq DOMAIN measured
        BY <3>2 DEF BundleInv, ArchiveIsCounted
      <4>2. IsFiniteSet(DOMAIN measured) /\ measured \in [DOMAIN measured -> Nat]
        BY BundleTypes
      <4> QED
        BY <2>1, <3>2, <3>3, <3>4, <4>1, <4>2, FS_Subset DEF Restrict
    <3>7. h = [y \in D \cup {p} |-> IF y = p THEN v ELSE f[y]]
      BY <3>3, <3>4, <3>5, <3>6 DEF Restrict
    <3>8. Total(h) = Total(f) + v
      BY ONLY <3>6, <3>7, TotalExtends
    <3>9. BytesOf(archive) = Total(f)
      BY <3>2, <3>3 DEF BundleInv, ArchiveIsCounted
    <3>10. Restrict(measured, Packed)' = h
      BY <2>1, <2>6, <3>2, <3>5
    <3> QED
      BY <3>1, <3>4, <3>8, <3>9, <3>10
  <2>9. ArchiveIsCounted'
    <3>1. /\ Packed' \subseteq DOMAIN measured' /\ pc' # "walk"
          /\ pc' \in {"read", "packed"} => todo' = {} /\ <<Index>> \in DOMAIN measured'
          /\ pc' = "packed" => Packed' = DOMAIN measured'
      BY <2>1, <2>6 DEF BundleInv, ArchiveIsCounted
    <3>2. \A i \in DOMAIN archive' :
             archive'[i].regular /\ archive'[i].size = Size[archive'[i].body]
      BY <2>3, <2>5 DEF BundleInv, ArchiveIsCounted
    <3>3. \A i, j \in DOMAIN archive' : archive'[i].name = archive'[j].name => i = j
      <4>1. \A i \in 1 .. n : archive[i].name # p
        BY <2>1, <2>5, <2>6
      <4>2. \A i, j \in 1 .. n : archive[i].name = archive[j].name => i = j
        BY <2>5 DEF BundleInv, ArchiveIsCounted
      <4> QED
        BY <2>3, <2>5, <4>1, <4>2
    <3> QED
      BY <2>8, <3>1, <3>2, <3>3 DEF ArchiveIsCounted
  <2>10. NothingIsMissed'
    <3>1. \A i \in DOMAIN archive' :
             edits = 0 => archive'[i].body = dir[archive'[i].name].body
      BY <2>3, <2>5 DEF BundleInv, NothingIsMissed
    <3> QED
      BY <2>1, <3>1 DEF BundleInv, NothingIsMissed
  <2> QED
    BY <2>7, <2>9, <2>10 DEF BundleInv
<1> QED
  BY <1>1, <1>2 DEF Read

LEMMA BoundedByInv ==
    ASSUME BundleInv
    PROVE  ArchiveBounded
<1>1. /\ Packed \in SUBSET DOMAIN measured
      /\ BytesOf(archive) = Total(Restrict(measured, Packed))
      /\ Cardinality(DOMAIN measured) <= MaxFiles
  BY DEF BundleInv, ArchiveIsCounted, CountIsBounded
<1>2. Total(Restrict(measured, Packed)) <= Total(measured)
  BY <1>1, BundleTypes, TotalGrows
<1>3. Total(measured) \in Nat /\ Total(measured) <= PackBytes /\ BytesOf(archive) \in Nat
  BY BundleTypes
<1> QED
  BY <1>1, <1>2, <1>3, LimitAssumption DEF ArchiveBounded

LEMMA AcceptedByInv ==
    ASSUME BundleInv
    PROVE  PackedIsAccepted
<1> SUFFICES ASSUME pc = "packed", Packed \cap Invalid = {}, NEW max \in PackBytes .. Word - 1
             PROVE  Parses(archive, max)
  BY DEF PackedIsAccepted
<1>1. max \in 0 .. Word - 1 /\ PackBytes <= max
  BY LimitAssumption
<1>2. archive \in Seq(Entry)
  BY DEF BundleInv, BundleOK
<1>3. /\ Packed = DOMAIN measured /\ <<Index>> \in Packed
      /\ Sized(archive) /\ Distinct(archive) /\ \A i \in DOMAIN archive : archive[i].regular
  BY DEF BundleInv, ArchiveIsCounted, Sized, Distinct
<1>4. Packed = Names(archive)
  BY BundleTypes
<1>5. Len(archive) \in 1 .. MaxFiles
  <2>1. Len(archive) = Cardinality(DOMAIN measured) /\ Len(archive) <= MaxFiles
    BY <1>2, <1>3, <1>4, DistinctNames DEF BundleInv, CountIsBounded
  <2>2. Len(archive) \in Nat /\ Len(archive) # 0
    BY <1>2, <1>3, <1>4, NamesAre
  <2> QED
    BY <2>1, <2>2, LimitAssumption
<1>6. BytesOf(archive) <= max
  <2>1. BytesOf(archive) <= PackBytes /\ BytesOf(archive) \in Nat
    BY BoundedByInv, BundleTypes DEF ArchiveBounded
  <2> QED
    BY <1>1, <2>1, LimitAssumption
<1>7. \A i \in DOMAIN archive : archive[i].name \in Html \ Invalid
  <2>1. \A i \in DOMAIN archive : archive[i].name \in Packed
    BY <1>4, NamesAre
  <2>2. Packed \subseteq Html
    BY <1>3 DEF BundleInv, BundleOK
  <2> QED
    BY <2>1, <2>2
<1> QED
  BY <1>1, <1>2, <1>3, <1>4, <1>5, <1>6, <1>7, ParsesWhat

LEMMA DirectoryByInv ==
    ASSUME BundleInv
    PROVE  PackedIsDirectory
<1> SUFFICES ASSUME pc = "packed", edits = 0
             PROVE  /\ Packed = {p \in OnDisk : dir[p] # Absent}
                    /\ \A i \in DOMAIN archive : archive[i].body = dir[archive[i].name].body
  BY DEF PackedIsDirectory
<1>1. Packed = DOMAIN measured /\ todo = {} /\ DOMAIN measured \subseteq OnDisk
  BY DEF BundleInv, BundleOK, ArchiveIsCounted
<1> QED
  BY <1>1 DEF BundleInv, NothingIsMissed

(* The whole bundle: every step of the directory and of Pack, and what stays. *)
LEMMA BundleStays ==
    ASSUME BundleInv, UNCHANGED bundle
    PROVE  BundleInv'
<1>1. UNCHANGED <<dir, edits, pc, todo, measured, archive>>
  BY DEF bundle, pack
<1>2. BundleOK' /\ CountIsBounded' /\ ArchiveIsCounted'
  BY <1>1 DEF BundleInv, BundleOK, CountIsBounded, ArchiveIsCounted, Packed
<1>3. NothingIsMissed'
  BY <1>1 DEF BundleInv, NothingIsMissed
<1> QED
  BY <1>2, <1>3 DEF BundleInv

LEMMA NextBundleInv ==
    ASSUME BundleInv, [Next]_vars
    PROVE  BundleInv'
<1>1. CASE \E p \in OnDisk, f \in Edited : Edit(p, f)
  BY <1>1, EditKeepsInv
<1>2. CASE PackStep
  BY <1>2, ListKeepsInv, MeasureKeepsInv, EndWalkKeepsInv, ReadKeepsInv DEF PackStep
<1>3. CASE Send
  BY <1>3, EndKeepsInv DEF Send
<1>4. CASE UNCHANGED bundle
  BY <1>4, BundleStays
<1> QED
  BY <1>1, <1>2, <1>3, <1>4
  DEF Next, vars, Publish, Upload, PutHtml, Restart, Ask, Terminating

-----------------------------------------------------------------------------
(* Serving.  A request has one answer, a site is looked up by the path.      *)
LEMMA RespondIs ==
    ASSUME page \in {NoPage, HtmlPage} \cup {Site(a) : a \in Seq(Entry)}, NEW u \in URL
    PROVE  /\ page.kind \in {"none", "html", "site"}
           /\ page.kind = "site" => page.files \in Seq(Entry)
           /\ page.kind = "none" => Respond(u) = Answer("notFound", <<>>)
           /\ page.kind = "html" =>
                 Respond(u) = IF u.segs = <<>> /\ ~u.slash THEN Answer("served", <<>>)
                              ELSE Answer("notFound", <<>>)
           /\ page.kind = "site" =>
                 /\ u.segs = <<>> /\ ~u.slash => Respond(u) = Answer("redirect", <<>>)
                 /\ u.segs # <<>> \/ u.slash =>
                       /\ ~Accepts(page.files) => Respond(u) = Answer("broken", <<>>)
                       /\ Accepts(page.files) =>
                             /\ Requested(u) \in Names(page.files)
                                => Respond(u) = Answer("served", Requested(u))
                             /\ Requested(u) \notin Names(page.files)
                                => Respond(u) = IF NeedsSlash(u, Names(page.files))
                                                THEN Answer("redirect", <<>>)
                                                ELSE Answer("notFound", <<>>)
<1>1. /\ page.kind \in {"none", "html", "site"}
      /\ page.kind = "site" => page.files \in Seq(Entry)
  BY DEF NoPage, HtmlPage, Site
<1> QED
  BY <1>1 DEF Respond

LEMMA URLType ==
    ASSUME NEW u \in URL
    PROVE  /\ u.segs \in Seq(STRING) /\ u.slash \in BOOLEAN /\ Requested(u) \in Seq(STRING)
           /\ Onwards(u) \in URL /\ Onwards(u).slash
           /\ u.slash => Respond(u).how # "redirect" \/ page.kind \notin {"none", "html", "site"}
<1>1. u.segs \in Seq(STRING) /\ u.slash \in BOOLEAN /\ u.segs \in Subpath
  BY SiteAssumption DEF URL
<1>2. Index \in STRING
  <2>1. <<Index>> \in Seq(STRING)
    BY PathAssumption
  <2>2. <<Index>>[1] = Index /\ 1 \in DOMAIN <<Index>>
    OBVIOUS
  <2> QED
    BY <2>1, <2>2
<1>3. Requested(u) \in Seq(STRING)
  <2>1. Append(u.segs, Index) \in Seq(STRING)
    BY <1>1, <1>2
  <2> QED
    BY <1>1, <2>1 DEF Requested
<1>4. Onwards(u) \in URL /\ Onwards(u).slash
  BY DEF Onwards, URL
<1>5. u.slash /\ page.kind \in {"none", "html", "site"} => Respond(u).how # "redirect"
  BY DEF Respond, NeedsSlash, Answer
<1> QED
  BY <1>1, <1>3, <1>4, <1>5

LEMMA PageType ==
    ASSUME TypeOK
    PROVE  /\ page \in {NoPage, HtmlPage} \cup {Site(a) : a \in Seq(Entry)}
           /\ page.kind \in {"none", "html", "site"}
           /\ page.kind = "site" => page.files \in Seq(Entry)
           /\ limit \in 1 .. Word - 1 /\ limit \in 0 .. Word - 1
<1>1. Uploads \cup {archive} \subseteq Seq(Entry)
  BY SiteAssumption DEF TypeOK, BundleOK
<1>2. page \in {NoPage, HtmlPage} \cup {Site(a) : a \in Seq(Entry)}
  BY <1>1 DEF TypeOK
<1>3. limit \in 1 .. Word - 1
  BY SiteAssumption DEF TypeOK
<1> QED
  BY <1>2, <1>3 DEF NoPage, HtmlPage, Site

LEMMA ServedByTypes ==
    ASSUME TypeOK
    PROVE  EveryFileServed
<1> SUFFICES ASSUME page.kind = "site", Accepts(page.files), NEW f \in Names(page.files)
             PROVE  /\ Respond(At(f, FALSE)) = Answer("served", f)
                    /\ Last(f) = Index =>
                          /\ Respond(At(Front(f), TRUE)) = Answer("served", f)
                          /\ Front(f) \notin Names(page.files)
                             => Respond(At(Front(f), FALSE)).how = "redirect"
  BY DEF EveryFileServed
<1>1. page.files \in Seq(Entry) /\ limit \in 0 .. Word - 1
  BY PageType
<1>2. f \in Html
  <2>1. \A i \in DOMAIN page.files : page.files[i].name \in Html
    BY <1>1, ParsesWhat DEF Accepts
  <2> QED
    BY <2>1, NamesAre
<1>3. f \in Seq(STRING) /\ f # <<>>
  BY <1>2, PathAssumption
<1>4. Respond(At(f, FALSE)) = Answer("served", f)
  BY <1>3 DEF Respond, At, Requested
<1>5. ASSUME Last(f) = Index
      PROVE  /\ Respond(At(Front(f), TRUE)) = Answer("served", f)
             /\ Front(f) \notin Names(page.files)
                => Respond(At(Front(f), FALSE)).how = "redirect"
  <2>1. Append(Front(f), Index) = f
    BY <1>3, <1>5 DEF Last, Front
  <2> QED
    BY <2>1 DEF Respond, At, Requested, NeedsSlash, Answer
<1> QED
  BY <1>4, <1>5

(* What is inductive, and implies SitesInv.                                  *)
ServingInv == TypeOK /\ BundleInv /\ StoredParses /\ SlashAfterRedirect

LEMMA InitServing ==
    ASSUME Init
    PROVE  ServingInv
<1>1. BundleInv
  BY InitBundleInv DEF Init
<1>2. TypeOK
  BY <1>1 DEF Init, TypeOK, BundleInv, None
<1>3. StoredParses /\ SlashAfterRedirect
  BY DEF Init, StoredParses, SlashAfterRedirect, NoPage
<1> QED
  BY <1>1, <1>2, <1>3 DEF ServingInv

(* A site that this server accepts is one that some server accepts.          *)
LEMMA AcceptedParses ==
    ASSUME NEW a, a \in Seq(Entry), NEW max \in 0 .. Word - 1, Parses(a, max)
    PROVE  Parses(a, Word - 1)
<1>1. Word - 1 \in 0 .. Word - 1 /\ max <= Word - 1
  BY LimitAssumption
<1>2. BytesOf(a) <= Word - 1
  <2>1. BytesOf(a) <= max /\ BytesOf(a) \in Nat
    BY ParsesWhat, SizesType
  <2> QED
    BY <1>1, <2>1, LimitAssumption
<1> QED
  BY <1>1, <1>2, ParsesWhat

LEMMA AskKeepsInv ==
    ASSUME ServingInv, BundleInv', NEW v \in Visit, Ask(v)
    PROVE  ServingInv'
<1>1. /\ UNCHANGED <<bundle, server>>
      /\ UNCHANGED <<dir, edits, pc, todo, measured, archive, page, limit, updates>>
  BY DEF Ask, bundle, server, pack
<1>2. at[v] \in URL /\ TypeOK /\ page.kind \in {"none", "html", "site"}
  BY PageType DEF ServingInv, TypeOK
<1>3. CASE /\ Respond(at[v]).how = "redirect" /\ result' = result
           /\ at' = [at EXCEPT ![v] = Onwards(@)] /\ hops' = [hops EXCEPT ![v] = @ + 1]
  <2>1. ~at[v].slash /\ hops[v] = 0
    BY <1>2, <1>3, URLType DEF ServingInv, SlashAfterRedirect
  <2>2. Onwards(at[v]) \in URL /\ Onwards(at[v]).slash
    BY <1>2, URLType
  <2>3. at' \in [Visit -> URL] /\ hops' \in [Visit -> Nat]
    BY <1>2, <1>3, <2>2 DEF TypeOK
  <2>4. TypeOK'
    BY <1>1, <1>2, <1>3, <2>3 DEF TypeOK, BundleInv
  <2>5. SlashAfterRedirect'
    BY <1>2, <1>3, <2>1, <2>2 DEF ServingInv, SlashAfterRedirect, TypeOK
  <2> QED
    BY <1>1, <2>4, <2>5 DEF ServingInv, StoredParses
<1>4. CASE /\ Respond(at[v]).how # "redirect" /\ UNCHANGED <<at, hops>>
           /\ result' = [result EXCEPT ![v] = Respond(at[v])]
  <2>1. Respond(at[v]) \in [how : {"none", "served", "notFound", "broken"}, file : Seq(STRING)]
    <3>1. /\ page \in {NoPage, HtmlPage} \cup {Site(a) : a \in Seq(Entry)}
          /\ Requested(at[v]) \in Seq(STRING) /\ <<>> \in Seq(STRING)
      BY <1>2, URLType, PageType
    <3>2. PICK u \in URL : u = at[v]
      BY <1>2
    <3>3. \E how \in {"redirect", "served", "notFound", "broken"}, file \in Seq(STRING) :
             Respond(u) = Answer(how, file)
      BY <1>2, <3>1, <3>2, RespondIs
    <3> QED
      BY <1>4, <3>2, <3>3 DEF Answer
  <2>2. TypeOK'
    BY <1>1, <1>2, <1>4, <2>1 DEF TypeOK, BundleInv
  <2> QED
    BY <1>1, <1>4, <2>2 DEF ServingInv, StoredParses, SlashAfterRedirect
<1> QED
  BY <1>3, <1>4 DEF Ask

LEMMA NextServing ==
    ASSUME ServingInv, [Next]_vars
    PROVE  ServingInv'
<1>1. BundleInv' /\ TypeOK /\ limit \in 0 .. Word - 1
  BY NextBundleInv, PageType DEF ServingInv
<1>2. CASE Send
  <2>1. /\ UNCHANGED <<dir, edits, todo, measured, archive, limit, at, hops, result>>
        /\ pc = "packed" /\ updates' \in Nat
        /\ \/ Accepts(archive) /\ page' = Site(archive) /\ pc' = "sent"
           \/ page' = page /\ pc' = "refused"
    BY <1>1, <1>2, LimitAssumption DEF Send, Change, visits, TypeOK
  <2>2. archive \in Seq(Entry)
    BY <1>1 DEF BundleInv, BundleOK, TypeOK
  <2>3. Accepts(archive) => Parses(archive, Word - 1)
    BY <1>1, <2>2, AcceptedParses DEF Accepts
  <2>4. StoredParses'
    BY <2>1, <2>3 DEF ServingInv, StoredParses, Site
  <2>5. TypeOK'
    BY <1>1, <2>1 DEF TypeOK, BundleInv
  <2> QED
    BY <1>1, <2>1, <2>4, <2>5 DEF ServingInv, SlashAfterRedirect
<1>3. ASSUME NEW a \in Uploads, Upload(a)
      PROVE  ServingInv'
  <2>1. /\ UNCHANGED <<dir, edits, pc, todo, measured, archive, limit, at, hops, result>>
        /\ updates' \in Nat /\ page' = Site(a) /\ Parses(a, limit)
    BY <1>1, <1>3 DEF Upload, Change, visits, TypeOK, bundle, pack, Accepts
  <2>2. Parses(a, Word - 1)
    BY <1>1, <2>1, AcceptedParses, SiteAssumption
  <2>3. StoredParses'
    BY <2>1, <2>2 DEF StoredParses, Site
  <2>4. TypeOK'
    BY <1>1, <2>1 DEF TypeOK, BundleInv
  <2> QED
    BY <1>1, <2>1, <2>3, <2>4 DEF ServingInv, SlashAfterRedirect
<1>4. CASE PutHtml
  <2>1. /\ UNCHANGED <<dir, edits, pc, todo, measured, archive, limit, at, hops, result>>
        /\ updates' \in Nat /\ page' = HtmlPage
    BY <1>1, <1>4 DEF PutHtml, Change, visits, TypeOK, bundle, pack
  <2>2. TypeOK' /\ StoredParses'
    BY <1>1, <2>1 DEF TypeOK, BundleInv, StoredParses, HtmlPage
  <2> QED
    BY <1>1, <2>1, <2>2 DEF ServingInv, SlashAfterRedirect
<1>5. ASSUME NEW l \in Limits, Restart(l)
      PROVE  ServingInv'
  <2>1. /\ UNCHANGED <<dir, edits, pc, todo, measured, archive, page, at, hops, result>>
        /\ updates' \in Nat /\ limit' \in Limits
    BY <1>1, <1>5 DEF Restart, Change, visits, TypeOK, bundle, pack
  <2>2. TypeOK' /\ StoredParses'
    BY <1>1, <2>1 DEF ServingInv, TypeOK, BundleInv, StoredParses
  <2> QED
    BY <1>1, <2>1, <2>2 DEF ServingInv, SlashAfterRedirect
<1>6. ASSUME NEW v \in Visit, Ask(v)
      PROVE  ServingInv'
  BY <1>1, <1>6, AskKeepsInv
<1>7. ASSUME UNCHANGED <<server, visits>>,
             \/ archive' = archive /\ (pc = "sent" => pc' = "sent")
             \/ pc = "read"
      PROVE  ServingInv'
  <2>1. UNCHANGED <<page, limit, updates, at, hops, result>>
    BY <1>7 DEF server, visits
  <2>2. StoredParses /\ StoredParses'
    BY <1>7, <2>1 DEF ServingInv, StoredParses
  <2>3. TypeOK'
    BY <1>1, <2>1, <2>2 DEF TypeOK, BundleInv, StoredParses
  <2> QED
    BY <1>1, <2>1, <2>2, <2>3 DEF ServingInv, SlashAfterRedirect
<1>8. CASE \E p \in OnDisk, f \in Edited : Edit(p, f) /\ UNCHANGED <<server, visits>>
  BY <1>7, <1>8 DEF Edit, pack
<1>9. CASE PackStep /\ UNCHANGED <<server, visits>>
  BY <1>7, <1>9 DEF PackStep, List, Measure, EndWalk, Read, Fail, Block
<1>10. CASE UNCHANGED vars
  BY <1>7, <1>10 DEF vars, bundle, pack, server, visits
<1> QED
  BY <1>2, <1>3, <1>4, <1>5, <1>6, <1>8, <1>9, <1>10 DEF Next, Publish, Terminating

LEMMA Serving == Spec => []ServingInv
<1>1. Init => ServingInv
  BY InitServing
<1>2. ServingInv /\ [Next]_vars => ServingInv'
  BY NextServing
<1> QED
  BY <1>1, <1>2, PTL DEF Spec

-----------------------------------------------------------------------------
(* SitesInv holds in every state: the types, what Pack maintains while the   *)
(* directory changes under it, that what is stored has been parsed, and that *)
(* handlePage serves every file of a site at its own path, and a directory   *)
(* with an index at its path with a slash.                                   *)
THEOREM SitesInvariant == Spec => []SitesInv
<1>1. ServingInv => SitesInv
  BY ServedByTypes DEF ServingInv, SitesInv
<1> QED
  BY <1>1, Serving, PTL

(* Pack writes no more bytes to the archive, and counts no more files, than  *)
(* its limits, whatever happens to the directory between the walk that       *)
(* measures and the reads.                                                   *)
THEOREM ArchiveIsBounded == Spec => []ArchiveBounded
<1>1. ServingInv => ArchiveBounded
  BY BoundedByInv DEF ServingInv
<1> QED
  BY <1>1, Serving, PTL

(* What Pack returns, Parse accepts with any limit that is not below Pack's: *)
(* the order of their checks and their arithmetic differ, what they let pass *)
(* does not.                                                                 *)
THEOREM ParseTakesWhatPackMakes == Spec => []PackedIsAccepted
<1>1. ServingInv => PackedIsAccepted
  BY AcceptedByInv DEF ServingInv
<1> QED
  BY <1>1, Serving, PTL

(* The archive of a directory that was left alone is that directory: the     *)
(* walk comes to every file, and the reads find what it has counted.         *)
THEOREM PackIsComplete == Spec => []PackedIsDirectory
<1>1. ServingInv => PackedIsDirectory
  BY DirectoryByInv DEF ServingInv
<1> QED
  BY <1>1, Serving, PTL

(* redirectWithSlash sends a browser on once at most, also when the page     *)
(* changes between its requests.                                             *)
THEOREM RedirectsEnd == Spec => []OneRedirect
<1>1. ServingInv => OneRedirect
  BY DEF ServingInv, SlashAfterRedirect, OneRedirect
<1> QED
  BY <1>1, Serving, PTL

(* A browser that got a file of a site resolves its relative links from the  *)
(* directory of that file in the site.                                       *)
THEOREM LinksResolve == Spec => []RelativeLinksResolve
<1>1. Init => RelativeLinksResolve
  BY DEF Init, RelativeLinksResolve, None
<1>2. ASSUME ServingInv, RelativeLinksResolve, [Next]_vars
      PROVE  RelativeLinksResolve'
  <2>1. CASE UNCHANGED <<at, result>>
    BY <1>2, <2>1 DEF RelativeLinksResolve, BaseOf
  <2>2. ASSUME NEW v \in Visit, Ask(v)
        PROVE  RelativeLinksResolve'
    <3>1. TypeOK /\ at[v] \in URL /\ result[v] = None
      BY <1>2, <2>2 DEF ServingInv, TypeOK, Ask
    <3>2. \A w \in Visit : w # v => at'[w] = at[w] /\ result'[w] = result[w]
      BY <2>2, <3>1 DEF Ask, TypeOK
    <3>3. CASE result' = result
      <4>1. result'[v].how = "none"
        BY <3>1, <3>3 DEF None
      <4> QED
        BY <1>2, <3>2, <4>1 DEF RelativeLinksResolve, BaseOf
    <3>4. CASE /\ Respond(at[v]).how # "redirect" /\ UNCHANGED <<at, hops>>
               /\ result' = [result EXCEPT ![v] = Respond(at[v])]
      <4>1. PICK u \in URL : u = at[v]
        BY <3>1
      <4>2. result'[v] = Respond(u) /\ at'[v] = u
        BY <3>1, <3>4, <4>1 DEF TypeOK
      <4>3. ASSUME Respond(u).how = "served", Respond(u).file # <<>>
            PROVE  BaseOf(u) = Front(Respond(u).file)
        <5>1. page \in {NoPage, HtmlPage} \cup {Site(a) : a \in Seq(Entry)}
          BY <3>1, PageType
        <5>2. /\ Respond(u) = Answer("served", Requested(u))
              /\ u.segs # <<>> \/ u.slash
          BY <4>3, <5>1, RespondIs DEF Answer
        <5>3. Respond(u).file = Requested(u)
          BY <5>2 DEF Answer
        <5>4. u.segs \in Seq(STRING)
          BY URLType
        <5>5. Front(Append(u.segs, Index)) = u.segs
          BY <5>4 DEF Front
        <5> QED
          BY <5>2, <5>3, <5>5 DEF BaseOf, Requested
      <4> QED
        BY <1>2, <3>2, <4>2, <4>3 DEF RelativeLinksResolve, BaseOf
    <3> QED
      BY <2>2, <3>3, <3>4 DEF Ask
  <2> QED
    BY <1>2, <2>1, <2>2
    DEF Next, vars, visits, Publish, Send, Upload, PutHtml, Restart, Terminating
<1> QED
  BY <1>1, <1>2, Serving, PTL DEF Spec

(* A site is stored only if its files fit, all of them, into the limit of    *)
(* the server at that moment, and no two of them have one name, whatever     *)
(* sizes an archive claims.                                                  *)
THEOREM StoredSitesFit == Spec => StoredFits
<1> DEFINE A == page'.kind = "site" /\ page' # page
                => /\ BytesOf(page'.files) <= limit
                   /\ Cardinality(Names(page'.files)) = Len(page'.files)
<1>1. ASSUME ServingInv, [Next]_vars
      PROVE  A
  <2>1. limit \in 0 .. Word - 1 /\ archive \in Seq(Entry) /\ Uploads \subseteq Seq(Entry)
    BY <1>1, PageType, SiteAssumption DEF ServingInv, TypeOK, BundleOK
  <2>2. ASSUME NEW a \in Seq(Entry), Accepts(a), page' = Site(a)
        PROVE  A
    <3>1. page'.files = a /\ BytesOf(a) <= limit /\ Distinct(a)
      BY <2>1, <2>2, ParsesWhat DEF Accepts, Site
    <3>2. Cardinality(Names(a)) = Len(a)
      BY <3>1, DistinctNames
    <3> QED
      BY <3>1, <3>2
  <2>3. CASE \E a \in Seq(Entry) : Accepts(a) /\ page' = Site(a)
    BY <2>2, <2>3
  <2>4. CASE page' = page \/ page' = HtmlPage
    BY <2>4 DEF HtmlPage
  <2> QED
    BY <1>1, <2>1, <2>3, <2>4
    DEF Next, vars, server, Publish, Send, Upload, PutHtml, Restart, Ask, Terminating
<1>2. ServingInv /\ [Next]_vars => [A]_vars
  BY <1>1
<1> QED
  BY <1>2, Serving, PTL DEF Spec, StoredFits

(* Whoever asks for the page at the URL that pageURL gives out gets it, and  *)
(* a site that was accepted is broken only for a server whose limit has been *)
(* lowered below its size.                                                   *)
THEOREM WhatIsPublishedIsServed == Spec => PublishedIsServed
<1> DEFINE A == \A v \in Visit :
                   Ends(v) /\ page.kind # "none" /\ at[v] = PageURL
                   => result'[v].how = IF Outgrown THEN "broken" ELSE "served"
<1>1. ASSUME ServingInv, [Next]_vars
      PROVE  A
  <2>1. SUFFICES ASSUME NEW v \in Visit, result[v] = None, result'[v] # None,
                        page.kind # "none", at[v] = PageURL
                 PROVE  result'[v].how = IF Outgrown THEN "broken" ELSE "served"
    BY DEF Ends
  <2>2. PICK w \in Visit : Ask(w)
    BY <1>1, <2>1
    DEF Next, vars, visits, Publish, Send, Upload, PutHtml, Restart, Terminating
  <2>3. /\ TypeOK /\ page \in {NoPage, HtmlPage} \cup {Site(a) : a \in Seq(Entry)}
        /\ page.kind \in {"html", "site"} /\ limit \in 0 .. Word - 1
        /\ page.kind = "site" => page.files \in Seq(Entry)
    BY <1>1, <2>1, PageType DEF ServingInv
  <2>4. result'[v] = Respond(at[v]) /\ at[v] \in URL
    BY <2>1, <2>2, <2>3 DEF Ask, TypeOK
  <2>5. CASE page.kind = "html"
    <3>1. PageURL.segs = <<>> /\ ~PageURL.slash
      BY <2>5 DEF PageURL
    <3>2. at[v].segs = <<>> /\ ~at[v].slash
      BY <2>1, <3>1
    <3>3. Respond(at[v]) = Answer("served", <<>>)
      BY <2>3, <2>4, <2>5, <3>2, RespondIs
    <3> QED
      BY <2>4, <2>5, <3>3 DEF Answer, Outgrown
  <2>6. CASE page.kind = "site"
    <3>1. PICK u \in URL : u = at[v]
      BY <2>4
    <3>2. u.segs = <<>> /\ u.slash
      <4>1. PageURL.segs = <<>> /\ PageURL.slash
        BY <2>6 DEF PageURL
      <4> QED
        BY <2>1, <3>1, <4>1
    <3>3. Parses(page.files, Word - 1) /\ Word - 1 \in 0 .. Word - 1
      BY <1>1, <2>6, LimitAssumption DEF ServingInv, StoredParses
    <3>4. Accepts(page.files) <=> BytesOf(page.files) <= limit
      BY <2>3, <2>6, <3>3, ParsesWhat DEF Accepts
    <3>5. Requested(u) \in Names(page.files)
      BY <2>3, <2>6, <3>2, <3>3, ParsesWhat DEF Requested
    <3>6. Outgrown <=> ~Accepts(page.files)
      <4>1. BytesOf(page.files) \in Nat
        BY <2>3, <2>6, SizesType
      <4> QED
        BY <2>3, <2>6, <3>4, <4>1 DEF Outgrown
    <3> QED
      BY <2>3, <2>4, <2>6, <3>1, <3>2, <3>5, <3>6, RespondIs DEF Answer
  <2> QED
    BY <2>3, <2>5, <2>6
<1>2. ServingInv /\ [Next]_vars => [A]_vars
  BY <1>1
<1> QED
  BY <1>2, Serving, PTL DEF Spec, PublishedIsServed
=============================================================================
