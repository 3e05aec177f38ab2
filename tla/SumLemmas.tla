------------------------------ MODULE SumLemmas ------------------------------
(***************************************************************************)
(* What a model sums or bounds with the folds of the community modules.    *)
(* A fold is a recursive function over the subsets of a finite set, of     *)
(* which the provers know only its equation: that it is the one function   *)
(* with that equation follows from a smallest subset on which two differ.  *)
(***************************************************************************)
EXTENDS Integers, Sequences, FiniteSetsExt, SequencesExt, FiniteSetTheorems, TLAPS

\* Of some subsets of a finite set one has none of the others inside.
LEMMA SmallestSet ==
    ASSUME NEW S, IsFiniteSet(S), NEW P \in SUBSET SUBSET S, P # {}
    PROVE  \E s \in P : \A t \in P : ~(t \subseteq s /\ t # s)
<1>1. P \subseteq FiniteSubsetsOf(S)
  BY FS_Subset DEF FiniteSubsetsOf
<1>2. IsWellFoundedOn(StrictSubsetOrdering(S), FiniteSubsetsOf(S))
  BY FS_StrictSubsetOrderingWellFounded
<1>3. \E s \in P : \A t \in P : <<t, s>> \notin StrictSubsetOrdering(S)
  BY <1>1, <1>2, WFMin
<1> QED  BY <1>3 DEF StrictSubsetOrdering

\* total maps each set of places of f to the sum of what is there.
Totals(total, f) ==
    /\ total \in [SUBSET DOMAIN f -> Nat]
    /\ total[{}] = 0
    /\ \A s \in SUBSET DOMAIN f : \A x \in s : total[s] = f[x] + total[s \ {x}]

\* The values of f add up to n.
SumsTo(f, n) == \E total : Totals(total, f) /\ n = total[DOMAIN f]

\* A place of s, as the folds choose it.
Some(s) == CHOOSE x \in s : TRUE

\* The equation of a sum over the places of f, as the folds state it.
IsSum(g, f) ==
    g = [s \in SUBSET DOMAIN f |-> IF s = {} THEN 0 ELSE f[Some(s)] + g[s \ {Some(s)}]]

\* The totals satisfy the equation, and nothing else does.
LEMMA TotalsAreSums ==
    ASSUME NEW f, IsFiniteSet(DOMAIN f), NEW total, Totals(total, f)
    PROVE  \A g : IsSum(g, f) <=> g = total
<1>1. \A s : s # {} => Some(s) \in s
  BY DEF Some
<1>2. IsSum(total, f)
  BY <1>1 DEF Totals, IsSum
<1>3. ASSUME NEW g, IsSum(g, f)  PROVE g = total
  <2>1. g = [s \in SUBSET DOMAIN f |-> IF s = {} THEN 0 ELSE f[Some(s)] + g[s \ {Some(s)}]]
    BY <1>3 DEF IsSum
  <2> DEFINE Bad == {s \in SUBSET DOMAIN f : g[s] # total[s]}
  <2>2. ASSUME Bad # {}  PROVE FALSE
    <3>1. Bad \in SUBSET SUBSET DOMAIN f
      OBVIOUS
    <3>2. PICK s \in Bad : \A t \in Bad : ~(t \subseteq s /\ t # s)
      <4> HIDE DEF Bad
      <4> QED  BY <2>2, <3>1, SmallestSet
    <3>3. s # {}
      BY <2>1, <3>2 DEF Totals
    <3> DEFINE t == s \ {Some(s)}
    <3>4. Some(s) \in s /\ t \in SUBSET DOMAIN f
      BY <1>1, <3>3
    <3>5. t \notin Bad
      BY <3>2, <3>4
    <3>6. g[t] = total[t]
      BY <3>4, <3>5
    <3>7. g[s] = f[Some(s)] + g[t]
      BY <2>1, <3>2, <3>3
    <3>8. total[s] = f[Some(s)] + total[t]
      BY <3>2, <3>4 DEF Totals
    <3> QED  BY <3>2, <3>6, <3>7, <3>8
  <2> QED  BY <2>1, <2>2 DEF Totals
<1> QED  BY <1>2, <1>3

\* FoldSeq adds up what a finite function has.
LEMMA FoldSeqIsSum ==
    ASSUME NEW f, IsFiniteSet(DOMAIN f), NEW n, SumsTo(f, n)
    PROVE  FoldSeq(+, 0, f) = n
<1>1. PICK total : Totals(total, f) /\ n = total[DOMAIN f]
  BY DEF SumsTo
<1>2. \A g : IsSum(g, f) <=> g = total
  BY <1>1, TotalsAreSums
<1>3. (CHOOSE g : IsSum(g, f)) = total
  BY <1>2
<1>4. FoldSeq(+, 0, f) = (CHOOSE g : IsSum(g, f))[DOMAIN f]
  BY DEF FoldSeq, FoldFunction, FoldFunctionOnSet, MapThenFoldSet, IsSum, Some
<1> QED  BY <1>1, <1>3, <1>4

\* No values add up to zero.
LEMMA NothingSums ==
    ASSUME NEW f, DOMAIN f = {}
    PROVE  SumsTo(f, 0)
<1> DEFINE total == [s \in {{}} |-> 0]
<1>1. SUBSET DOMAIN f = {{}}
  OBVIOUS
<1>2. total \in [{{}} -> Nat] /\ total[{}] = 0
  OBVIOUS
<1>3. Totals(total, f)
  BY <1>1, <1>2 DEF Totals
<1> QED  BY <1>2, <1>3 DEF SumsTo

\* A value at one place more adds to the sum.
LEMMA OneMoreSums ==
    ASSUME NEW f, NEW g, NEW n, n \notin DOMAIN f, DOMAIN g = DOMAIN f \cup {n},
           g[n] \in Nat, \A x \in DOMAIN f : g[x] = f[x] /\ f[x] \in Nat,
           NEW sum, SumsTo(f, sum)
    PROVE  SumsTo(g, sum + g[n])
<1> DEFINE D == DOMAIN f
           E == DOMAIN g
           v == g[n]
<1>1. PICK total : Totals(total, f) /\ sum = total[D]
  BY DEF SumsTo
<1> DEFINE more == [s \in SUBSET E |-> IF n \in s THEN total[s \ {n}] + v ELSE total[s]]
<1>2. \A i \in D : g[i] = f[i] /\ f[i] \in Nat
  OBVIOUS
<1>3. n \in E /\ n \notin D /\ D = E \ {n} /\ v \in Nat /\ D \in SUBSET D
  OBVIOUS
<1>4. /\ total \in [SUBSET D -> Nat] /\ total[{}] = 0
      /\ \A s \in SUBSET D : \A x \in s : total[s] = f[x] + total[s \ {x}]
  BY <1>1 DEF Totals
<1>10. g[n] = v
  OBVIOUS
<1> HIDE DEF D, E, v
<1>5. \A s \in SUBSET E : s \ {n} \in SUBSET D /\ (n \notin s => s \in SUBSET D)
  BY <1>3
<1>6. more \in [SUBSET E -> Nat]
  BY <1>3, <1>4, <1>5
<1>7. more[{}] = 0
  BY <1>4
<1>8. ASSUME NEW s \in SUBSET E, NEW x \in s
      PROVE  more[s] = g[x] + more[s \ {x}]
  <2>1. CASE x = n
    <3>1. more[s] = total[s \ {n}] + v /\ more[s \ {x}] = total[s \ {n}] /\ total[s \ {n}] \in Nat
      BY <1>4, <1>5, <2>1
    <3> QED  BY <1>3, <1>10, <2>1, <3>1
  <2>2. CASE x # n /\ n \in s
    <3>1. x \in D /\ x \in s \ {n} /\ s \ {n} \in SUBSET D /\ (s \ {x}) \in SUBSET E /\ n \in s \ {x}
      BY <1>3, <1>5, <2>2
    <3>2. (s \ {n}) \ {x} = (s \ {x}) \ {n}
      OBVIOUS
    <3>3. total[s \ {n}] = f[x] + total[(s \ {x}) \ {n}]
      <4>1. \A t \in SUBSET D : x \in t => total[t] = f[x] + total[t \ {x}]
        BY <1>4
      <4>2. total[s \ {n}] = f[x] + total[(s \ {n}) \ {x}]
        BY <3>1, <4>1
      <4> QED  BY <3>2, <4>2
    <3>4. more[s] = total[s \ {n}] + v /\ more[s \ {x}] = total[(s \ {x}) \ {n}] + v
      BY <2>2, <3>1
    <3>5. g[x] = f[x] /\ f[x] \in Nat /\ total[(s \ {x}) \ {n}] \in Nat /\ total[s \ {n}] \in Nat
      BY <1>2, <1>4, <1>5, <3>1
    <3> QED  BY <1>3, <3>3, <3>4, <3>5
  <2>3. CASE n \notin s
    <3>1. x \in D /\ s \in SUBSET D /\ s \ {x} \in SUBSET E /\ n \notin s \ {x}
      BY <1>3, <1>5, <2>3
    <3> QED  BY <1>2, <1>4, <2>3, <3>1
  <2> QED  BY <2>1, <2>2, <2>3
<1>9. more[E] = total[D] + v
  BY <1>3
<1> HIDE DEF more
<1>11. Totals(more, g)
  BY <1>6, <1>7, <1>8 DEF Totals, E
<1> QED  BY <1>1, <1>9, <1>11 DEF SumsTo, E, v

\* A sequence's sum grows by what is appended.
LEMMA AppendSums ==
    ASSUME NEW w \in Seq(Nat), NEW v \in Nat, NEW sum, SumsTo(w, sum)
    PROVE  SumsTo(Append(w, v), sum + v)
<1>1. PICK k \in Nat : k = Len(w)
  OBVIOUS
<1> DEFINE u == Append(w, v)
<1>2. DOMAIN w = 1 .. k /\ DOMAIN u = 1 .. k + 1 /\ u[k + 1] = v
  BY <1>1
<1>3. \A i \in 1 .. k : u[i] = w[i] /\ w[i] \in Nat
  BY <1>1
<1>4. 1 .. k + 1 = (1 .. k) \cup {k + 1} /\ k + 1 \notin 1 .. k
  OBVIOUS
<1> HIDE DEF u
<1>5. SumsTo(u, sum + u[k + 1])
  BY <1>2, <1>3, <1>4, OneMoreSums
<1> QED  BY <1>2, <1>5 DEF u

\* Appending adds the element to the range.
LEMMA RangeOfAppend ==
    ASSUME NEW S, NEW s \in Seq(S), NEW x \in S
    PROVE  Append(s, x) \in Seq(S) /\ Range(Append(s, x)) = Range(s) \cup {x}
<1>1. Append(s, x) \in Seq(S) /\ Len(Append(s, x)) = Len(s) + 1
  OBVIOUS
<1>2. Append(s, x)[Len(s) + 1] = x /\ \A i \in 1 .. Len(s) : Append(s, x)[i] = s[i]
  OBVIOUS
<1>3. DOMAIN Append(s, x) = 1 .. Len(s) + 1 /\ DOMAIN s = 1 .. Len(s) /\ Len(s) \in Nat
  BY <1>1
<1> QED  BY <1>1, <1>2, <1>3 DEF Range

\* The least and the greatest of a set are what Min and Max choose.
LEMMA LeastIsMin ==
    ASSUME NEW S \in SUBSET Nat, NEW m \in S, \A x \in S : m <= x
    PROVE  Min(S) = m
<1>1. Min(S) \in S /\ \A x \in S : Min(S) <= x
  BY DEF Min
<1>2. \A x \in S : x \in Nat
  OBVIOUS
<1>3. \A a, b \in Nat : a <= b /\ b <= a => a = b
  OBVIOUS
<1> QED  BY <1>1, <1>2, <1>3

\* The same for the greatest.
LEMMA GreatestIsMax ==
    ASSUME NEW S \in SUBSET Nat, NEW m \in S, \A x \in S : x <= m
    PROVE  Max(S) = m
<1>1. Max(S) \in S /\ \A x \in S : Max(S) >= x
  BY DEF Max
<1>2. \A x \in S : x \in Nat
  OBVIOUS
<1>3. \A a, b \in Nat : a >= b /\ b >= a => a = b
  OBVIOUS
<1>4. Max(S) >= m /\ m >= Max(S)
  BY <1>1, <1>2
<1> QED  BY <1>1, <1>2, <1>3, <1>4

\* A finite set has a greatest number, and Max chooses it.
LEMMA MaxIsThere ==
    ASSUME NEW S, IsFiniteSet(S), S # {}, \A x \in S : x \in Nat
    PROVE  Max(S) \in S /\ \A x \in S : x <= Max(S)
<1>0. \A Q \in SUBSET SUBSET S :
        Q # {} => \E s \in Q : \A u \in Q : ~(u \subseteq s /\ u # s)
  BY SmallestSet
<1> DEFINE Above(t) == \A x \in S : \E y \in t : x <= y
           P == {t \in SUBSET S : t # {} /\ Above(t)}
<1>1. P # {} /\ P \in SUBSET SUBSET S
  <2>1. S \in P
    OBVIOUS
  <2> QED  BY <2>1
<1>2. PICK t \in P : \A u \in P : ~(u \subseteq t /\ u # t)
  <2> HIDE DEF P
  <2> QED  BY <1>1, <1>0
<1>3. t \in SUBSET S /\ t # {} /\ Above(t)
  OBVIOUS
<1>4. PICK m \in t : TRUE
  BY <1>3
<1>5. \A x \in t : x \in Nat /\ x \in S
  BY <1>3
<1>6. ASSUME NEW a \in t, NEW b \in t, a < b
      PROVE  FALSE
  <2> DEFINE u == t \ {a}
  <2>1. u \in SUBSET S /\ u # {} /\ u \subseteq t /\ u # t
    BY <1>5, <1>6
  <2>2. ASSUME NEW x \in S
        PROVE  \E y \in u : x <= y
    <3>1. PICK y \in t : x <= y
      BY <1>3
    <3>2. CASE y = a
      <4>1. x <= b /\ b \in u
        BY <1>5, <1>6, <3>1, <3>2
      <4> QED  BY <4>1
    <3> QED  BY <3>1, <3>2
  <2> HIDE DEF u
  <2>3. u \in P
    BY <2>1, <2>2
  <2> QED  BY <1>2, <2>1, <2>3
<1>7. \A x \in t : x = m
  <2>1. \A a, b \in Nat : a = b \/ a < b \/ b < a
    OBVIOUS
  <2> QED  BY <1>4, <1>5, <1>6, <2>1
<1>8. m \in S /\ \A x \in S : x <= m
  BY <1>3, <1>4, <1>5, <1>7
<1> HIDE DEF P, Above
<1>9. Max(S) = m
  BY <1>8, GreatestIsMax
<1> QED  BY <1>8, <1>9
===============================================================================
