--------------------- MODULE ConditionLowering_proofs ---------------------
(***************************************************************************)
(* From a parsed condition to the rules, for every condition, every table  *)
(* of fields and all limits: each step keeps what an event alerts on, and  *)
(* refuses a condition with a pattern for every value only for a limit.    *)
(* The lemmas go from sequences over predicates, alternatives and plans to *)
(* trees, which are proved about by height and by the levels left.         *)
(***************************************************************************)
EXTENDS ConditionLowering, FiniteSetTheorems, WellFoundedInduction, TLAPS

-----------------------------------------------------------------------------
(* Numbers. *)

LEMMA LeastExists ==
  ASSUME NEW S, S \subseteq Nat, S # {}
  PROVE  \E k \in S : \A i \in S : k <= i
<1>1. PICK k \in S : \A i \in S : ~ (<<i, k>> \in OpToRel(<, Nat))
  BY NatLessThanWellFounded, WFMin
<1>2. \A i \in S : k <= i
  <2> SUFFICES ASSUME NEW i \in S, i < k PROVE FALSE
    OBVIOUS
  <2>1. <<i, k>> \in OpToRel(<, Nat)
    BY DEF OpToRel
  <2> QED
    BY <1>1, <2>1
<1> QED
  BY <1>2

\* What holds of 0 and goes on holding, holds up to n.
LEMMA Counting ==
  ASSUME NEW n \in Nat, NEW T, 0 \in T, \A k \in 1 .. n : k - 1 \in T => k \in T
  PROVE  \A k \in 0 .. n : k \in T
<1> DEFINE bad == { k \in 0 .. n : k \notin T }
<1> SUFFICES ASSUME bad # {} PROVE FALSE
  OBVIOUS
<1>1. PICK k \in bad : \A i \in bad : k <= i
  <2>1. bad \subseteq Nat
    OBVIOUS
  <2> HIDE DEF bad
  <2> QED
    BY <2>1, LeastExists
<1>2. k \in 1 .. n /\ k - 1 \in 0 .. n
  OBVIOUS
<1> QED
  BY <1>1, <1>2

IsRun(n, S, start, F, g) ==
  /\ g \in [0 .. n -> S]
  /\ g[0] = start
  /\ \A k \in 1 .. n : g[k] = F[k][g[k - 1]]

\* Steps of any kind can be taken one after the other.
LEMMA RunExists ==
  ASSUME NEW n \in Nat, NEW S, NEW start \in S, NEW F \in [1 .. n -> [S -> S]]
  PROVE  \E g : IsRun(n, S, start, F, g)
<1> DEFINE Run(g, m) == g[0] = start /\ \A k \in 1 .. m : g[k] = F[k][g[k - 1]]
           T == { m \in 0 .. n : \E g \in [0 .. m -> S] : Run(g, m) }
<1>1. 0 \in T
  <2> DEFINE g == [k \in 0 .. 0 |-> start]
  <2>1. g \in [0 .. 0 -> S] /\ Run(g, 0)
    OBVIOUS
  <2> HIDE DEF g, Run
  <2> QED
    BY <2>1
<1>2. ASSUME NEW k \in 1 .. n, k - 1 \in T PROVE k \in T
  <2>1. PICK g \in [0 .. k - 1 -> S] : Run(g, k - 1)
    BY <1>2
  <2> DEFINE h == [i \in 0 .. k |-> IF i = k THEN F[k][g[k - 1]] ELSE g[i]]
  <2>2. h \in [0 .. k -> S]
    <3>1. F[k] \in [S -> S] /\ g[k - 1] \in S
      OBVIOUS
    <3> QED
      BY <3>1
  <2>3. Run(h, k)
    <3>1. h[0] = start
      BY <2>1
    <3>2. ASSUME NEW i \in 1 .. k PROVE h[i] = F[i][h[i - 1]]
      <4>1. CASE i = k
        BY <4>1
      <4>2. CASE i # k
        <5>1. i \in 1 .. k - 1 /\ i - 1 \in 0 .. k - 1
          BY <4>2
        <5> QED
          BY <2>1, <4>2, <5>1
      <4> QED
        BY <4>1, <4>2
    <3> QED
      BY <3>1, <3>2
  <2> HIDE DEF h, Run
  <2> QED
    BY <2>2, <2>3
<1>3. \A k \in 0 .. n : k \in T
  <2> HIDE DEF T
  <2> QED
    BY <1>1, <1>2, Counting
<1> QED
  BY <1>3 DEF IsRun

\* How many elements of a set of numbers are below one of them.
Place(S, i) == Cardinality({ j \in S : j < i })

\* No two places are the same, and each from 0 on is taken.
LEMMA Places ==
  ASSUME NEW S, S \subseteq Nat, IsFiniteSet(S)
  PROVE  /\ Cardinality(S) \in Nat
         /\ \A n \in 0 .. Cardinality(S) - 1 : \E i \in S : Place(S, i) = n
         /\ \A i \in S : Place(S, i) \in 0 .. Cardinality(S) - 1
         /\ \A i, j \in S : Place(S, i) = Place(S, j) => i = j
<1> DEFINE Before(i) == { j \in S : j < i }
           n == Cardinality(S)
           f == [i \in S |-> Place(S, i)]
<1>1. n \in Nat
  BY FS_CardinalityType
<1>2. \A i \in S : /\ IsFiniteSet(Before(i)) /\ Place(S, i) = Cardinality(Before(i))
                    /\ Place(S, i) \in Nat
  <2>1. \A i \in S : Before(i) \in SUBSET S
    OBVIOUS
  <2>2. \A i \in S : IsFiniteSet(Before(i)) /\ Cardinality(Before(i)) \in Nat
    <3> HIDE DEF Before
    <3> QED
      BY <2>1, FS_Subset, FS_CardinalityType
  <2> QED
    BY <2>2 DEF Place
<1>3. ASSUME NEW i \in S PROVE Place(S, i) \in 0 .. n - 1
  <2>1. Before(i) \in SUBSET (S \ {i})
    OBVIOUS
  <2>2. IsFiniteSet(S \ {i}) /\ Cardinality(S \ {i}) = n - 1
    BY FS_RemoveElement
  <2>3. Cardinality(Before(i)) <= n - 1
    <3> HIDE DEF Before
    <3> QED
      BY <2>1, <2>2, FS_Subset
  <2> QED
    BY <1>1, <1>2, <2>3
<1>4. ASSUME NEW i \in S, NEW j \in S, i < j PROVE Place(S, i) # Place(S, j)
  <2>1. Before(i) \in SUBSET Before(j) /\ i \in Before(j) /\ i \notin Before(i)
    <3>1. ASSUME NEW l \in S, l < i PROVE l < j
      <4>1. l \in Nat /\ i \in Nat /\ j \in Nat
        OBVIOUS
      <4> QED
        BY <1>4, <3>1, <4>1
    <3>2. ~(i < i)
      <4>1. i \in Nat
        OBVIOUS
      <4> QED
        BY <4>1
    <3> QED
      BY <1>4, <3>1, <3>2
  <2>2. IsFiniteSet(Before(j))
    BY <1>2
  <2>3. Cardinality(Before(i)) # Cardinality(Before(j))
    <3> HIDE DEF Before
    <3> QED
      BY <2>1, <2>2, FS_Subset
  <2> QED
    BY <1>2, <2>3
<1>5. \A i, j \in S : Place(S, i) = Place(S, j) => i = j
  BY <1>4
<1>6. \A k \in 0 .. n - 1 : \E i \in S : Place(S, i) = k
  <2>1. f \in Injection(S, 0 .. n - 1)
    BY <1>3, <1>5 DEF Injection, IsInjective
  <2>2. IsFiniteSet(0 .. n - 1) /\ Cardinality(0 .. n - 1) = n
    <3> HIDE DEF n
    <3>1. 0 \in Int /\ n - 1 \in Int /\ (IF 0 > n - 1 THEN 0 ELSE (n - 1) - 0 + 1) = n
      BY <1>1
    <3> QED
      BY <3>1, FS_Interval
  <2>3. f \in Surjection(S, 0 .. n - 1)
    <3> HIDE DEF f
    <3> QED
      BY <2>1, <2>2, FS_Injection
  <2> QED
    BY <2>3 DEF Surjection
<1> QED
  BY <1>1, <1>3, <1>5, <1>6

-----------------------------------------------------------------------------
(* Sequences: what is in them. *)

LEMMA Listed ==
  ASSUME NEW S, NEW n \in Nat, NEW t, t = [i \in 1 .. n |-> t[i]], \A i \in 1 .. n : t[i] \in S
  PROVE  t \in Seq(S) /\ DOMAIN t = 1 .. n /\ Len(t) = n
OBVIOUS

LEMMA Refused == \A why : ~ Err(why).ok
BY DEF Err

LEMMA Wider ==
  ASSUME NEW S, NEW T, S \subseteq T, NEW s \in Seq(S)
  PROVE  s \in Seq(T)
OBVIOUS

\* Pick keeps the elements at the places, and nothing else.
LEMMA Picked ==
  ASSUME NEW S, NEW s \in Seq(S), NEW places, places \subseteq DOMAIN s
  PROVE  /\ Pick(s, places) \in Seq(S)
         /\ Range(Pick(s, places)) = { s[i] : i \in places }
         /\ Len(Pick(s, places)) = Cardinality(places)
         /\ (\A i, j \in places : s[i] = s[j] => i = j) => IsInjective(Pick(s, places))
<1> DEFINE n == Cardinality(places)
           At(k) == CHOOSE i \in places : Place(places, i) = k - 1
           t == Pick(s, places)
<1>1. /\ places \subseteq Nat /\ IsFiniteSet(places)
      /\ \A i \in places : s[i] \in S
  <2>1. Len(s) \in Nat /\ DOMAIN s = 1 .. Len(s) /\ \A i \in 1 .. Len(s) : s[i] \in S
    OBVIOUS
  <2>2. IsFiniteSet(1 .. Len(s))
    BY <2>1, FS_Interval
  <2> QED
    BY <2>1, <2>2, FS_Subset
<1>2. /\ n \in Nat
      /\ \A i \in places : Place(places, i) \in 0 .. n - 1
      /\ \A i, j \in places : Place(places, i) = Place(places, j) => i = j
      /\ \A m \in 0 .. n - 1 : \E i \in places : Place(places, i) = m
  BY <1>1, Places
<1>3. t = [k \in 1 .. n |-> s[At(k)]]
  BY Zenon DEF Pick, Place
<1>4. \A k \in 1 .. n : At(k) \in places /\ Place(places, At(k)) = k - 1
  <2> SUFFICES ASSUME NEW k \in 1 .. n PROVE At(k) \in places /\ Place(places, At(k)) = k - 1
    OBVIOUS
  <2>1. k - 1 \in 0 .. n - 1
    BY <1>2
  <2>2. \E i \in places : Place(places, i) = k - 1
    BY <1>2, <2>1
  <2> QED
    BY <2>2
<1>5. \A i \in places : \E k \in 1 .. n : At(k) = i
  <2> SUFFICES ASSUME NEW i \in places PROVE \E k \in 1 .. n : At(k) = i
    OBVIOUS
  <2>1. Place(places, i) + 1 \in 1 .. n /\ (Place(places, i) + 1) - 1 = Place(places, i)
    BY <1>2
  <2>2. At(Place(places, i) + 1) = CHOOSE j \in places : Place(places, j) = Place(places, i)
    BY <2>1
  <2>3. At(Place(places, i) + 1) = i
    <3> HIDE DEF At
    <3> QED
      BY <1>2, <2>2
  <2> QED
    BY <2>1, <2>3
<1> HIDE DEF At, n, t
<1>6. DOMAIN t = 1 .. n /\ \A k \in 1 .. n : t[k] = s[At(k)]
  BY <1>3
<1>7. t \in Seq(S) /\ Len(t) = n
  BY <1>1, <1>2, <1>3, <1>4
<1>8. Range(t) = { s[i] : i \in places }
  BY <1>4, <1>5, <1>6 DEF Range
<1>9. ASSUME \A i, j \in places : s[i] = s[j] => i = j PROVE IsInjective(t)
  <2> SUFFICES ASSUME NEW a \in 1 .. n, NEW b \in 1 .. n, t[a] = t[b] PROVE a = b
    BY <1>6 DEF IsInjective
  <2>1. At(a) = At(b)
    BY <1>4, <1>6, <1>9
  <2>2. a - 1 = b - 1
    BY <1>4, <2>1
  <2> QED
    BY <1>2, <2>2
<1> QED
  BY <1>7, <1>8, <1>9 DEF t, n

LEMMA Deduped ==
  ASSUME NEW S, NEW s \in Seq(S)
  PROVE  /\ Dedupe(s) \in Seq(S)
         /\ Range(Dedupe(s)) = Range(s)
         /\ s # <<>> => Dedupe(s) # <<>>
         /\ IsInjective(Dedupe(s))
<1> DEFINE places == { i \in DOMAIN s : \A j \in 1 .. i - 1 : s[j] # s[i] }
<1>1. DOMAIN s = 1 .. Len(s) /\ Len(s) \in Nat
  OBVIOUS
<1>2. /\ Dedupe(s) \in Seq(S)
      /\ Range(Dedupe(s)) = { s[i] : i \in places }
      /\ IsInjective(Dedupe(s))
  <2>1. places \subseteq DOMAIN s
    OBVIOUS
  <2>2. Dedupe(s) = Pick(s, places)
    BY DEF Dedupe
  <2>3. \A i, j \in places : s[i] = s[j] => i = j
    <3> SUFFICES ASSUME NEW i \in places, NEW j \in places, s[i] = s[j], i < j PROVE FALSE
      BY <1>1
    <3> QED
      BY <1>1
  <2> HIDE DEF places
  <2> QED
    BY <2>1, <2>2, <2>3, Picked
<1>3. \A i \in DOMAIN s : \E j \in places : s[j] = s[i]
  <2> SUFFICES ASSUME NEW i \in DOMAIN s PROVE \E j \in places : s[j] = s[i]
    OBVIOUS
  <2> DEFINE same == { j \in DOMAIN s : s[j] = s[i] }
  <2>1. PICK j \in same : \A k \in same : j <= k
    <3>1. same \subseteq Nat /\ same # {}
      BY <1>1
    <3> HIDE DEF same
    <3> QED
      BY <3>1, LeastExists
  <2>2. \A k \in 1 .. j - 1 : s[k] # s[j]
    <3> SUFFICES ASSUME NEW k \in 1 .. j - 1, s[k] = s[j] PROVE FALSE
      OBVIOUS
    <3>1. k \in same /\ k < j
      BY <1>1
    <3> QED
      BY <1>1, <2>1, <3>1
  <2> QED
    BY <2>1, <2>2
<1>4. Range(s) = { s[i] : i \in places }
  BY <1>3 DEF Range
<1>5. ASSUME s # <<>> PROVE Dedupe(s) # <<>>
  <2>1. 1 \in DOMAIN s
    BY <1>1, <1>5
  <2>2. s[1] \in Range(Dedupe(s))
    <3> HIDE DEF places
    <3> QED
      BY <1>2, <1>4, <2>1 DEF Range
  <2> QED
    BY <2>2 DEF Range
<1> QED
  BY <1>2, <1>4, <1>5

LEMMA Joined ==
  ASSUME NEW S, NEW s \in Seq(S), NEW t \in Seq(S)
  PROVE  s \o t \in Seq(S) /\ Range(s \o t) = Range(s) \cup Range(t)
<1>1. /\ s \o t \in Seq(S) /\ Len(s \o t) = Len(s) + Len(t)
      /\ Len(s) \in Nat /\ Len(t) \in Nat
      /\ DOMAIN s = 1 .. Len(s) /\ DOMAIN t = 1 .. Len(t) /\ DOMAIN (s \o t) = 1 .. Len(s) + Len(t)
  OBVIOUS
<1>2. \A i \in 1 .. Len(s) + Len(t) : (s \o t)[i] = IF i <= Len(s) THEN s[i] ELSE t[i - Len(s)]
  OBVIOUS
<1>3. ASSUME NEW x \in Range(s \o t) PROVE x \in Range(s) \cup Range(t)
  <2>1. PICK i \in 1 .. Len(s) + Len(t) : (s \o t)[i] = x
    BY <1>1 DEF Range
  <2>2. CASE i <= Len(s)
    BY <1>1, <1>2, <2>1, <2>2 DEF Range
  <2>3. CASE ~ (i <= Len(s))
    <3>1. i - Len(s) \in 1 .. Len(t)
      BY <1>1, <2>3
    <3> QED
      BY <1>1, <1>2, <2>1, <2>3, <3>1 DEF Range
  <2> QED
    BY <2>2, <2>3
<1>4. ASSUME NEW x \in Range(s) PROVE x \in Range(s \o t)
  <2>1. PICK i \in 1 .. Len(s) : s[i] = x
    BY <1>1 DEF Range
  <2>2. i \in 1 .. Len(s) + Len(t) /\ i <= Len(s)
    BY <1>1
  <2> QED
    BY <1>1, <1>2, <2>1, <2>2 DEF Range
<1>5. ASSUME NEW x \in Range(t) PROVE x \in Range(s \o t)
  <2>1. PICK i \in 1 .. Len(t) : t[i] = x
    BY <1>1 DEF Range
  <2>2. i + Len(s) \in 1 .. Len(s) + Len(t) /\ ~ (i + Len(s) <= Len(s)) /\ (i + Len(s)) - Len(s) = i
    BY <1>1
  <2> QED
    BY <1>1, <1>2, <2>1, <2>2 DEF Range
<1> QED
  BY <1>1, <1>3, <1>4, <1>5

\* Sequences one after the other hold what each of them holds.
LEMMA Flattened ==
  ASSUME NEW S, NEW seqs \in Seq(Seq(S))
  PROVE  /\ FlattenSeq(seqs) \in Seq(S)
         /\ Range(FlattenSeq(seqs)) = UNION { Range(seqs[i]) : i \in DOMAIN seqs }
<1> DEFINE n == Len(seqs)
           F == [k \in 1 .. n |-> [s \in Seq(S) |-> s \o seqs[k]]]
           Flattens(f) == f = [i \in 1 .. n |-> IF i = 1 THEN seqs[i] ELSE f[i - 1] \o seqs[i]]
           flat == CHOOSE f : Flattens(f)
           Upto(k) == UNION { Range(seqs[i]) : i \in 1 .. k }
<1>1. n \in Nat /\ DOMAIN seqs = 1 .. n /\ \A i \in 1 .. n : seqs[i] \in Seq(S)
  OBVIOUS
<1>2. CASE n = 0
  BY <1>1, <1>2 DEF FlattenSeq, Range
<1>3. CASE n # 0
  <2>1. PICK g : IsRun(n, Seq(S), <<>>, F, g)
    <3>1. F \in [1 .. n -> [Seq(S) -> Seq(S)]] /\ <<>> \in Seq(S)
      BY <1>1
    <3> HIDE DEF F, n
    <3> QED
      BY <1>1, <3>1, RunExists
  <2> DEFINE h == [i \in 1 .. n |-> g[i]]
  <2>2. ASSUME NEW i \in 1 .. n
        PROVE  g[i] = IF i = 1 THEN seqs[i] ELSE h[i - 1] \o seqs[i]
    <3>1. g[i] = g[i - 1] \o seqs[i] /\ g[i - 1] \in Seq(S) /\ g[0] = <<>>
      <4>1. i - 1 \in 0 .. n
        BY <1>1
      <4>2. g[i - 1] \in Seq(S) /\ g[i] = F[i][g[i - 1]] /\ g[0] = <<>>
        BY <2>1, <4>1 DEF IsRun
      <4> QED
        BY <4>2
    <3>2. CASE i = 1
      <4>1. g[i - 1] = <<>> /\ seqs[i] \in Seq(S)
        BY <1>1, <3>1, <3>2
      <4>2. g[i] = <<>> \o seqs[i]
        BY <3>1, <4>1
      <4>3. <<>> \o seqs[i] = seqs[i]
        BY <4>1
      <4> QED
        BY <3>2, <4>2, <4>3
    <3>3. CASE i # 1
      <4>1. i - 1 \in 1 .. n
        BY <1>1, <3>3
      <4> QED
        BY <3>1, <3>3, <4>1
    <3> QED
      BY <3>2, <3>3
  <2>3. Flattens(h)
    BY <2>2
  <2>4. Flattens(flat)
    <3> HIDE DEF Flattens, h
    <3> QED
      BY <2>3, Zenon
  <2>5. FlattenSeq(seqs) = flat[n]
    BY <1>3, Zenon DEF FlattenSeq
  <2> HIDE DEF flat
  <2>6. \A k \in 1 .. n : flat[k] = IF k = 1 THEN seqs[k] ELSE flat[k - 1] \o seqs[k]
    BY <2>4
  <2> DEFINE T == { k \in 0 .. n : k # 0 => flat[k] \in Seq(S) /\ Range(flat[k]) = Upto(k) }
  <2>7. 0 \in T
    BY <1>1
  <2>8. ASSUME NEW k \in 1 .. n, k - 1 \in T PROVE k \in T
    <3>1. CASE k = 1
      <4>1. flat[k] = seqs[1] /\ seqs[1] \in Seq(S)
        BY <1>1, <2>6, <3>1
      <4>2. Upto(1) = Range(seqs[1])
        OBVIOUS
      <4> HIDE DEF Upto, n
      <4> QED
        BY <1>1, <3>1, <4>1, <4>2
    <3>2. CASE k # 1
      <4>1. flat[k - 1] \in Seq(S) /\ Range(flat[k - 1]) = Upto(k - 1) /\ seqs[k] \in Seq(S)
        <5> HIDE DEF Upto, n
        <5>1. k - 1 # 0
          BY <1>1, <3>2
        <5> QED
          BY <1>1, <2>8, <5>1
      <4>2. flat[k] = flat[k - 1] \o seqs[k]
        BY <2>6, <3>2
      <4>3. flat[k] \in Seq(S) /\ Range(flat[k]) = Range(flat[k - 1]) \cup Range(seqs[k])
        BY <4>1, <4>2, Joined
      <4>4. Upto(k) = Upto(k - 1) \cup Range(seqs[k])
        <5>1. 1 .. k = (1 .. k - 1) \cup {k}
          BY <1>1
        <5> QED
          BY <5>1
      <4>5. k \in 0 .. n /\ Range(flat[k]) = Upto(k)
        <5> HIDE DEF Upto, n
        <5> QED
          BY <1>1, <4>1, <4>3, <4>4
      <4> HIDE DEF Upto, n
      <4> QED
        BY <4>3, <4>5
    <3> QED
      BY <3>1, <3>2
  <2>9. n \in T
    <3> HIDE DEF T, n
    <3>1. \A k \in 0 .. n : k \in T
      BY <1>1, <2>7, <2>8, Counting
    <3> QED
      BY <1>1, <3>1
  <2>10. FlattenSeq(seqs) \in Seq(S) /\ Range(FlattenSeq(seqs)) = Upto(n)
    <3> HIDE DEF Upto
    <3> QED
      BY <1>3, <2>5, <2>9
  <2> QED
    BY <1>1, <2>10
<1> QED
  BY <1>2, <1>3

\* The results of a sequence are all values, or one of the errors.
LEMMA AllOkResult ==
  ASSUME NEW n \in Nat, NEW results, DOMAIN results = 1 .. n
  PROVE  /\ (\A i \in 1 .. n : results[i].ok)
              => AllOk(results) = Ok([i \in 1 .. n |-> results[i].val])
         /\ (\E i \in 1 .. n : ~results[i].ok)
              => \E i \in 1 .. n : ~results[i].ok /\ AllOk(results) = results[i]
<1> DEFINE bad == { i \in DOMAIN results : ~results[i].ok }
<1>1. CASE bad = {}
  BY <1>1 DEF AllOk
<1>2. CASE bad # {}
  <2>1. \E i \in bad : \A j \in bad : i <= j
    <3>1. bad \subseteq Nat
      OBVIOUS
    <3> HIDE DEF bad
    <3> QED
      BY <1>2, <3>1, LeastExists
  <2> DEFINE first == CHOOSE i \in bad : \A j \in bad : i <= j
  <2>2. first \in bad
    <3> HIDE DEF bad
    <3> QED
      BY <2>1
  <2>3. AllOk(results) = results[first]
    BY <1>2 DEF AllOk
  <2> HIDE DEF first
  <2> QED
    BY <2>2, <2>3
<1> QED
  BY <1>1, <1>2

-----------------------------------------------------------------------------
(* The predicates. *)

Form(patterns) ==
  [sigma : DOMAIN FieldOf, field : Range(FieldOf) \ {NoField}, pattern : patterns,
   negated : BOOLEAN, lookaheadSafe : BOOLEAN]

Single == [op : {"value"}, value : Values]

Conjoined == [op : {"all"}, of : Seq(Single)]

Alternated == [op : {"any"}, of : Seq(Single \cup Conjoined)]

\* What LowerField makes of a value.
Predicates ==
  { p \in Form(Single) : p.lookaheadSafe => p.pattern.value \notin Anchored }

\* What CollapseConjunction leaves of them: an alternation is negated.
Conjuncts ==
  { p \in Form(Single \cup Conjoined \cup Alternated) : p.pattern.op = "any" => p.negated }

Planned == Form(Single \cup Conjoined \cup Alternated)

LEMMA Sorts ==
  /\ Predicates \subseteq Form(Single \cup Conjoined)
  /\ Predicates \subseteq Conjuncts
  /\ Conjuncts \subseteq Planned
  /\ \A p \in Conjuncts : ~ p.negated => p \in Form(Single \cup Conjoined)
BY DEF Predicates, Conjuncts, Planned, Form, Single, Conjoined, Alternated

LEMMA FiresByRange ==
  ASSUME NEW S, NEW rule \in Seq(S), NEW event
  PROVE  Fires(rule, event) <=> \A p \in Range(rule) : Holds(p, event)
BY DEF Fires, Range

LEMMA AlertsByRange ==
  ASSUME NEW S, NEW alternatives \in Seq(S), NEW event
  PROVE  Alerts(alternatives, event) <=> \E rule \in Range(alternatives) : Fires(rule, event)
BY DEF Alerts, Range

-----------------------------------------------------------------------------
(* The merges of one field. *)

LEMMA MatchesByKind ==
  ASSUME NEW pattern, NEW text
  PROVE  /\ pattern.op = "value" => (Matches(pattern, text) <=> pattern.value \in text)
         /\ pattern.op = "all"
              => (Matches(pattern, text)
                    <=> \A k \in DOMAIN pattern.of : pattern.of[k].value \in text \ Anchored)
         /\ pattern.op = "any" /\ (\A k \in DOMAIN pattern.of : pattern.of[k].op # "any")
              => (Matches(pattern, text)
                    <=> \E k \in DOMAIN pattern.of : Matches(pattern.of[k], text))
<1>1. "value" # "any" /\ "all" # "any" /\ "all" # "value"
  OBVIOUS
<1> QED
  BY <1>1, Zenon DEF Matches

LEMMA PatternsListed ==
  ASSUME NEW P, NEW group \in Seq(Form(P))
  PROVE  /\ PatternsOf(group) \in Seq(P)
         /\ Range(PatternsOf(group)) = { group[i].pattern : i \in DOMAIN group }
<1> DEFINE patterns == [i \in DOMAIN group |-> group[i].pattern]
<1>1. /\ DOMAIN group = 1 .. Len(group) /\ Len(group) \in Nat
      /\ \A i \in DOMAIN group : group[i].pattern \in P
  <2>1. \A i \in DOMAIN group : group[i] \in Form(P)
    OBVIOUS
  <2> QED
    BY <2>1 DEF Form
<1>2. patterns \in Seq(P) /\ Range(patterns) = { group[i].pattern : i \in DOMAIN group }
  BY <1>1 DEF Range
<1>3. PatternsOf(group) = Dedupe(patterns)
  BY DEF PatternsOf
<1> HIDE DEF patterns
<1> QED
  BY <1>2, <1>3, Deduped

OneField(group) == \A i \in DOMAIN group : group[i].field = group[1].field

\* A lookahead for each of the values of a field: all of them match.
LEMMA AllOfExact ==
  ASSUME NEW group \in Seq(Predicates), group # <<>>, OneField(group),
         \A i \in DOMAIN group : ~ group[i].negated /\ group[i].lookaheadSafe
  PROVE  /\ AllOf(group) \in Conjuncts
         /\ \A event : Holds(AllOf(group), event)
                         <=> \A i \in DOMAIN group : Holds(group[i], event)
<1> DEFINE p == AllOf(group)
           patterns == PatternsOf(group)
<1>1. /\ DOMAIN group = 1 .. Len(group) /\ 1 \in DOMAIN group
      /\ \A i \in DOMAIN group : group[i] \in Form(Single)
  BY DEF Predicates
<1>2. /\ patterns \in Seq(Single)
      /\ Range(patterns) = { group[i].pattern : i \in DOMAIN group }
  <2>1. group \in Seq(Form(Single))
    BY DEF Predicates
  <2> QED
    BY <2>1, PatternsListed
<1>3. p = [group[1] EXCEPT !.pattern = [op |-> "all", of |-> patterns]]
  BY DEF AllOf
<1> HIDE DEF p, patterns
<1>4. /\ p \in Form(Conjoined) /\ ~ p.negated /\ p.field = group[1].field
      /\ p.pattern = [op |-> "all", of |-> patterns]
  BY <1>1, <1>2, <1>3 DEF Form, Conjoined
<1>5. p \in Conjuncts
  BY <1>4 DEF Conjuncts, Form, Conjoined
<1>6. ASSUME NEW event
      PROVE  Holds(p, event) <=> \A i \in DOMAIN group : Holds(group[i], event)
  <2> DEFINE text == Text(event, p.field)
  <2>1. Holds(p, event) <=> \A k \in DOMAIN patterns : patterns[k].value \in text \ Anchored
    BY <1>4, MatchesByKind DEF Holds
  <2>2. \A i \in DOMAIN group : Holds(group[i], event) <=> group[i].pattern.value \in text \ Anchored
    <3> SUFFICES ASSUME NEW i \in DOMAIN group
                 PROVE  Holds(group[i], event) <=> group[i].pattern.value \in text \ Anchored
      OBVIOUS
    <3>1. /\ group[i] \in Form(Single) /\ group[i].pattern.value \notin Anchored
          /\ group[i].field = p.field /\ ~ group[i].negated
      BY <1>4 DEF Predicates, OneField
    <3>2. group[i].pattern.op = "value"
      BY <3>1 DEF Form, Single
    <3> QED
      BY <3>1, <3>2, MatchesByKind DEF Holds
  <2> HIDE DEF text
  <2>3. (\A k \in DOMAIN patterns : patterns[k].value \in text \ Anchored)
          <=> \A q \in Range(patterns) : q.value \in text \ Anchored
    BY DEF Range
  <2> QED
    BY <1>2, <2>1, <2>2, <2>3
<1> QED
  BY <1>5, <1>6 DEF p

\* An alternation of patterns of a field: one of them matches.
LEMMA AnyOfExact ==
  ASSUME NEW group \in Seq(Form(Single \cup Conjoined)), group # <<>>, OneField(group),
         NEW negated \in BOOLEAN, \A i \in DOMAIN group : group[i].negated = negated
  PROVE  /\ AnyOf(group, negated) \in Form(Alternated)
         /\ AnyOf(group, negated).negated = negated
         /\ \A event : Holds(AnyOf(group, negated), event)
                         <=> IF negated THEN \A i \in DOMAIN group : Holds(group[i], event)
                                        ELSE \E i \in DOMAIN group : Holds(group[i], event)
<1> DEFINE p == AnyOf(group, negated)
           patterns == PatternsOf(group)
<1>1. /\ DOMAIN group = 1 .. Len(group) /\ 1 \in DOMAIN group
      /\ \A i \in DOMAIN group : group[i] \in Form(Single \cup Conjoined)
  OBVIOUS
<1>2. /\ patterns \in Seq(Single \cup Conjoined)
      /\ Range(patterns) = { group[i].pattern : i \in DOMAIN group }
  BY PatternsListed
<1>3. p = [group[1] EXCEPT !.pattern = [op |-> "any", of |-> patterns],
                           !.negated = negated, !.lookaheadSafe = FALSE]
  BY DEF AnyOf
<1> HIDE DEF p, patterns
<1>4. /\ p \in Form(Alternated) /\ p.negated = negated /\ p.field = group[1].field
      /\ p.pattern = [op |-> "any", of |-> patterns]
  BY <1>1, <1>2, <1>3 DEF Form, Alternated
<1>5. ASSUME NEW event
      PROVE  Holds(p, event) <=> IF negated THEN \A i \in DOMAIN group : Holds(group[i], event)
                                            ELSE \E i \in DOMAIN group : Holds(group[i], event)
  <2> DEFINE text == Text(event, p.field)
  <2>1. Matches(p.pattern, text) <=> \E k \in DOMAIN patterns : Matches(patterns[k], text)
    <3>1. \A k \in DOMAIN patterns : patterns[k].op # "any"
      BY <1>2 DEF Single, Conjoined
    <3>2. p.pattern.op = "any" /\ p.pattern.of = patterns
      BY <1>4
    <3> HIDE DEF text
    <3> QED
      BY <3>1, <3>2, MatchesByKind
  <2>2. \A i \in DOMAIN group :
          Holds(group[i], event) <=> IF negated THEN ~Matches(group[i].pattern, text)
                                                ELSE Matches(group[i].pattern, text)
    <3>1. \A i \in DOMAIN group : group[i].field = p.field /\ group[i].negated = negated
      BY <1>4 DEF OneField
    <3> QED
      BY <3>1 DEF Holds
  <2>3. (\E k \in DOMAIN patterns : Matches(patterns[k], text))
          <=> \E q \in Range(patterns) : Matches(q, text)
    BY DEF Range
  <2>4. (\E k \in DOMAIN patterns : Matches(patterns[k], text))
          <=> \E i \in DOMAIN group : Matches(group[i].pattern, text)
    BY <1>2, <2>3
  <2>5. Holds(p, event) <=> IF negated THEN ~Matches(p.pattern, text) ELSE Matches(p.pattern, text)
    BY <1>4 DEF Holds
  <2> HIDE DEF text
  <2> QED
    BY <2>1, <2>2, <2>4, <2>5
<1> QED
  BY <1>4, <1>5 DEF p

-----------------------------------------------------------------------------
(* One rule for a conjunction. *)

Safe(alternative) == \A i \in DOMAIN alternative : alternative[i].lookaheadSafe

\* The predicates of one field that are negated, or that are not, are merged
\* into one that says the same, or refused for an anchored value.
LEMMA CollapseGroupExact ==
  ASSUME NEW group \in Seq(Predicates), group # <<>>,
         \A i \in DOMAIN group : KeyOf(group[i]) = KeyOf(group[1])
  PROVE  LET result == CollapseGroup(group)
         IN  /\ result.ok =>
                  /\ result.val \in Conjuncts
                  /\ \A event : Holds(result.val, event)
                                  <=> \A i \in DOMAIN group : Holds(group[i], event)
             /\ ~ result.ok => result = Err("not lookahead-lowerable") /\ ~ Safe(group)
<1> DEFINE result == CollapseGroup(group)
<1>1. /\ DOMAIN group = 1 .. Len(group) /\ Len(group) \in Nat /\ 1 \in DOMAIN group
      /\ \A i \in DOMAIN group : group[i] \in Predicates
  OBVIOUS
<1>2. /\ OneField(group)
      /\ \A i \in DOMAIN group : group[i].negated = group[1].negated
  BY DEF KeyOf, OneField
<1>3. CASE Len(group) = 1
  <2>1. result = Ok(group[1])
    BY <1>3 DEF CollapseGroup
  <2>2. DOMAIN group = {1} /\ group[1] \in Conjuncts
    BY <1>1, <1>3, Sorts
  <2> HIDE DEF result
  <2> QED
    BY <2>1, <2>2 DEF Ok, result
<1>4. CASE Len(group) # 1 /\ group[1].negated
  <2>1. result = Ok(AnyOf(group, TRUE))
    BY <1>4 DEF CollapseGroup
  <2>2. /\ AnyOf(group, TRUE) \in Form(Alternated) /\ AnyOf(group, TRUE).negated
        /\ \A event : Holds(AnyOf(group, TRUE), event)
                        <=> \A i \in DOMAIN group : Holds(group[i], event)
    <3>1. group \in Seq(Form(Single \cup Conjoined))
      BY Sorts, Wider
    <3>2. group[1].negated = TRUE
      BY <1>1, <1>4 DEF Predicates, Form
    <3>3. \A i \in DOMAIN group : group[i].negated = TRUE
      BY <1>2, <3>2
    <3> QED
      BY <1>2, <3>1, <3>3, AnyOfExact
  <2>3. AnyOf(group, TRUE) \in Conjuncts
    BY <2>2 DEF Conjuncts, Form
  <2>4. result.ok /\ result.val = AnyOf(group, TRUE)
    BY <2>1 DEF Ok
  <2> HIDE DEF result
  <2> QED
    BY <2>2, <2>3, <2>4 DEF result
<1>5. CASE Len(group) # 1 /\ ~ group[1].negated /\ Safe(group)
  <2>1. result = Ok(AllOf(group))
    BY <1>5, Zenon DEF CollapseGroup, CollapseSameFieldAnd, Safe
  <2>2. \A i \in DOMAIN group : ~ group[i].negated /\ group[i].lookaheadSafe
    BY <1>2, <1>5 DEF Safe
  <2>3. /\ AllOf(group) \in Conjuncts
        /\ \A event : Holds(AllOf(group), event) <=> \A i \in DOMAIN group : Holds(group[i], event)
    BY <1>2, <2>2, AllOfExact
  <2>4. result.ok /\ result.val = AllOf(group)
    BY <2>1 DEF Ok
  <2> HIDE DEF result
  <2> QED
    BY <2>3, <2>4 DEF result
<1>6. CASE Len(group) # 1 /\ ~ group[1].negated /\ ~ Safe(group)
  <2>1. result = Err("not lookahead-lowerable")
    BY <1>6, Zenon DEF CollapseGroup, CollapseSameFieldAnd, Safe
  <2>2. ~ result.ok
    <3> HIDE DEF result
    <3> QED
      BY <2>1 DEF Err
  <2> HIDE DEF result
  <2> QED
    BY <1>6, <2>1, <2>2 DEF result
<1> QED
  BY <1>3, <1>4, <1>5, <1>6

\* Every predicate is in the group of its key.
LEMMA Grouped ==
  ASSUME NEW alternative \in Seq(Predicates)
  PROVE  LET keys == KeysOf(alternative)
         IN  /\ Len(keys) \in Nat /\ DOMAIN keys = 1 .. Len(keys)
             /\ \A k \in DOMAIN keys :
                  /\ GroupOf(alternative, keys[k]) \in Seq(Predicates)
                  /\ GroupOf(alternative, keys[k]) # <<>>
                  /\ Range(GroupOf(alternative, keys[k]))
                       = { p \in Range(alternative) : KeyOf(p) = keys[k] }
             /\ \A p \in Range(alternative) : \E k \in DOMAIN keys : KeyOf(p) = keys[k]
<1> DEFINE listed == [i \in DOMAIN alternative |-> KeyOf(alternative[i])]
           keys == KeysOf(alternative)
           Keys == Range(listed)
<1>1. /\ DOMAIN alternative = 1 .. Len(alternative) /\ Len(alternative) \in Nat
      /\ listed \in Seq(Keys)
  <2>1. DOMAIN alternative = 1 .. Len(alternative) /\ Len(alternative) \in Nat
    OBVIOUS
  <2>2. \A i \in 1 .. Len(alternative) : listed[i] \in Keys
    BY <2>1 DEF Range
  <2>3. listed = [i \in 1 .. Len(alternative) |-> listed[i]]
    BY <2>1
  <2> HIDE DEF listed, Keys
  <2> QED
    BY <2>1, <2>2, <2>3
<1>2. keys \in Seq(Keys) /\ Range(keys) = Keys
  <2>1. keys = Dedupe(listed)
    BY DEF KeysOf
  <2> HIDE DEF listed
  <2> QED
    BY <1>1, <2>1, Deduped
<1>3. ASSUME NEW key
      PROVE  /\ GroupOf(alternative, key) \in Seq(Predicates)
             /\ Range(GroupOf(alternative, key)) = { p \in Range(alternative) : KeyOf(p) = key }
  <2> DEFINE places == { i \in DOMAIN alternative : KeyOf(alternative[i]) = key }
  <2>1. places \subseteq DOMAIN alternative /\ GroupOf(alternative, key) = Pick(alternative, places)
    BY DEF GroupOf
  <2>2. { alternative[i] : i \in places } = { p \in Range(alternative) : KeyOf(p) = key }
    BY DEF Range
  <2> HIDE DEF places
  <2> QED
    BY <2>1, <2>2, Picked
<1>4. \A p \in Range(alternative) : KeyOf(p) \in Keys
  BY DEF Range
<1>5. \A key \in Keys : \E p \in Range(alternative) : KeyOf(p) = key
  BY DEF Range
<1> HIDE DEF listed, keys, Keys
<1>6. Len(keys) \in Nat /\ DOMAIN keys = 1 .. Len(keys) /\ \A k \in DOMAIN keys : keys[k] \in Keys
  BY <1>2
<1>7. ASSUME NEW key \in Keys PROVE GroupOf(alternative, key) # <<>>
  <2>1. PICK p \in Range(alternative) : KeyOf(p) = key
    BY <1>5
  <2>2. p \in Range(GroupOf(alternative, key))
    BY <1>3, <2>1
  <2> QED
    BY <2>2 DEF Range
<1>8. \A p \in Range(alternative) : \E k \in DOMAIN keys : KeyOf(p) = keys[k]
  BY <1>2, <1>4 DEF Range
<1> QED
  BY <1>3, <1>6, <1>7, <1>8 DEF keys

\* What a collapsed conjunction says is what its predicates say together.
LEMMA CollapseConjunctionExact ==
  ASSUME NEW alternative \in Seq(Predicates)
  PROVE  LET result == CollapseConjunction(alternative)
         IN  /\ result.ok =>
                  /\ result.val \in Seq(Conjuncts)
                  /\ \A event : Fires(result.val, event) <=> Fires(alternative, event)
             /\ ~ result.ok => result = Err("not lookahead-lowerable") /\ ~ Safe(alternative)
<1> DEFINE keys == KeysOf(alternative)
           n == Len(keys)
           G(k) == GroupOf(alternative, keys[k])
           results == [k \in DOMAIN keys |-> CollapseGroup(G(k))]
           result == CollapseConjunction(alternative)
<1>1. /\ n \in Nat /\ DOMAIN keys = 1 .. n
      /\ \A k \in 1 .. n :
           /\ G(k) \in Seq(Predicates) /\ G(k) # <<>>
           /\ Range(G(k)) = { p \in Range(alternative) : KeyOf(p) = keys[k] }
      /\ \A p \in Range(alternative) : \E k \in 1 .. n : KeyOf(p) = keys[k]
  BY Grouped
<1>2. result = AllOk(results)
  BY Zenon DEF CollapseConjunction
<1>3. ASSUME NEW k \in 1 .. n
      PROVE  /\ results[k].ok =>
                  /\ results[k].val \in Conjuncts
                  /\ \A event : Holds(results[k].val, event)
                                  <=> \A p \in Range(G(k)) : Holds(p, event)
             /\ ~ results[k].ok =>
                  results[k] = Err("not lookahead-lowerable") /\ ~ Safe(alternative)
  <2>1. \A i \in DOMAIN G(k) : G(k)[i] \in Range(G(k))
    BY DEF Range
  <2>2. 1 \in DOMAIN G(k)
    <3> HIDE DEF G
    <3> QED
      BY <1>1
  <2>3. \A i \in DOMAIN G(k) : KeyOf(G(k)[i]) = KeyOf(G(k)[1])
    <3> HIDE DEF G, keys
    <3> QED
      BY <1>1, <2>1, <2>2
  <2>4. results[k] = CollapseGroup(G(k))
    BY <1>1
  <2>5. Safe(alternative) => Safe(G(k))
    <3>1. \A p \in Range(G(k)) : \E i \in DOMAIN alternative : alternative[i] = p
      <4>1. Range(G(k)) \subseteq Range(alternative)
        <5> HIDE DEF G, keys
        <5> QED
          BY <1>1
      <4>2. \A p \in Range(alternative) : \E i \in DOMAIN alternative : alternative[i] = p
        BY DEF Range
      <4> HIDE DEF G
      <4> QED
        BY <4>1, <4>2
    <3> HIDE DEF G
    <3> QED
      BY <2>1, <3>1 DEF Safe
  <2> HIDE DEF G, keys, results
  <2>6. /\ results[k].ok =>
             /\ results[k].val \in Conjuncts
             /\ \A event : Holds(results[k].val, event)
                             <=> \A i \in DOMAIN G(k) : Holds(G(k)[i], event)
        /\ ~ results[k].ok => results[k] = Err("not lookahead-lowerable") /\ ~ Safe(G(k))
    BY <1>1, <2>3, <2>4, CollapseGroupExact
  <2>7. \A event : (\A i \in DOMAIN G(k) : Holds(G(k)[i], event))
                     <=> \A p \in Range(G(k)) : Holds(p, event)
    BY DEF Range
  <2> QED
    BY <2>5, <2>6, <2>7
<1>4. DOMAIN results = 1 .. n
  BY <1>1
<1> HIDE DEF results, G, keys, n, result
<1>5. CASE \A k \in 1 .. n : results[k].ok
  <2> DEFINE t == [k \in 1 .. n |-> results[k].val]
  <2>1. result = Ok(t)
    BY <1>1, <1>2, <1>4, <1>5, AllOkResult
  <2>2. t \in Seq(Conjuncts) /\ DOMAIN t = 1 .. n
    <3>1. DOMAIN t = 1 .. n /\ \A k \in 1 .. n : t[k] \in Conjuncts
      BY <1>3, <1>5
    <3>2. t = [k \in 1 .. n |-> t[k]]
      OBVIOUS
    <3> HIDE DEF t
    <3> QED
      BY <1>1, <3>1, <3>2
  <2>3. ASSUME NEW event PROVE Fires(t, event) <=> Fires(alternative, event)
    <3>1. Fires(t, event) <=> \A k \in 1 .. n : \A p \in Range(G(k)) : Holds(p, event)
      BY <1>3, <1>5 DEF Fires
    <3>2. Fires(alternative, event) <=> \A p \in Range(alternative) : Holds(p, event)
      BY FiresByRange
    <3> QED
      BY <1>1, <3>1, <3>2
  <2> HIDE DEF t
  <2> QED
    BY <2>1, <2>2, <2>3 DEF Ok, result
<1>6. CASE \E k \in 1 .. n : ~ results[k].ok
  <2>1. PICK k \in 1 .. n : ~ results[k].ok /\ result = results[k]
    BY <1>1, <1>2, <1>4, <1>6, AllOkResult
  <2> QED
    BY <1>3, <2>1 DEF Err, result
<1> QED
  BY <1>5, <1>6

\* The alternatives one by one.
LEMMA CollapseEachExact ==
  ASSUME NEW alternatives \in Seq(Seq(Predicates))
  PROVE  LET result == CollapseEach(alternatives)
         IN  /\ result.ok =>
                  /\ result.val \in Seq(Seq(Conjuncts))
                  /\ Len(result.val) = Len(alternatives)
                  /\ \A event : Alerts(result.val, event) <=> Alerts(alternatives, event)
             /\ ~ result.ok =>
                  /\ result = Err("not lookahead-lowerable")
                  /\ \E i \in DOMAIN alternatives : ~ Safe(alternatives[i])
<1> DEFINE n == Len(alternatives)
           results == [i \in DOMAIN alternatives |-> CollapseConjunction(alternatives[i])]
           result == CollapseEach(alternatives)
<1>1. n \in Nat /\ DOMAIN alternatives = 1 .. n /\ \A i \in 1 .. n : alternatives[i] \in Seq(Predicates)
  OBVIOUS
<1>2. result = AllOk(results)
  BY Zenon DEF CollapseEach
<1>3. \A i \in 1 .. n :
        /\ results[i].ok =>
             /\ results[i].val \in Seq(Conjuncts)
             /\ \A event : Fires(results[i].val, event) <=> Fires(alternatives[i], event)
        /\ ~ results[i].ok =>
             results[i] = Err("not lookahead-lowerable") /\ ~ Safe(alternatives[i])
  <2> SUFFICES ASSUME NEW i \in 1 .. n
               PROVE  /\ results[i].ok =>
                           /\ results[i].val \in Seq(Conjuncts)
                           /\ \A event : Fires(results[i].val, event) <=> Fires(alternatives[i], event)
                      /\ ~ results[i].ok =>
                           results[i] = Err("not lookahead-lowerable") /\ ~ Safe(alternatives[i])
    OBVIOUS
  <2>1. results[i] = CollapseConjunction(alternatives[i]) /\ alternatives[i] \in Seq(Predicates)
    BY <1>1
  <2> HIDE DEF results
  <2> QED
    BY <2>1, CollapseConjunctionExact
<1>4. DOMAIN results = 1 .. n
  BY <1>1
<1> HIDE DEF results, n, result
<1>5. CASE \A i \in 1 .. n : results[i].ok
  <2> DEFINE t == [i \in 1 .. n |-> results[i].val]
  <2>1. result = Ok(t)
    BY <1>1, <1>2, <1>4, <1>5, AllOkResult
  <2>2. t \in Seq(Seq(Conjuncts)) /\ DOMAIN t = 1 .. n /\ Len(t) = n
    <3>1. DOMAIN t = 1 .. n /\ \A i \in 1 .. n : t[i] \in Seq(Conjuncts)
      BY <1>3, <1>5
    <3>2. t = [i \in 1 .. n |-> t[i]]
      OBVIOUS
    <3> HIDE DEF t
    <3> QED
      BY <1>1, <3>1, <3>2, Listed
  <2>3. \A event : Alerts(t, event) <=> Alerts(alternatives, event)
    BY <1>1, <1>3, <1>5 DEF Alerts
  <2> HIDE DEF t
  <2> QED
    BY <2>1, <2>2, <2>3 DEF Ok, result, n
<1>6. CASE \E i \in 1 .. n : ~ results[i].ok
  <2>1. PICK i \in 1 .. n : ~ results[i].ok /\ result = results[i]
    BY <1>1, <1>2, <1>4, <1>6, AllOkResult
  <2> QED
    BY <1>1, <1>3, <2>1 DEF Err, result
<1> QED
  BY <1>5, <1>6

-----------------------------------------------------------------------------
(* One rule for all the alternatives. *)

\* The predicates all the alternatives share, and what each of them has besides.
LEMMA Factored ==
  ASSUME NEW S, NEW alternatives \in Seq(Seq(S)), alternatives # <<>>
  PROVE  LET common == CommonPredicates(alternatives)
         IN  /\ common \in Seq(S)
             /\ \A i \in DOMAIN alternatives :
                  /\ Remainder(alternatives[i], common) \in Seq(S)
                  /\ \A event : Fires(alternatives[i], event)
                                  <=> /\ Fires(common, event)
                                      /\ Fires(Remainder(alternatives[i], common), event)
<1> DEFINE first == alternatives[1]
           shared == { k \in DOMAIN first : InAll(first[k], alternatives) }
           common == CommonPredicates(alternatives)
<1>1. /\ DOMAIN alternatives = 1 .. Len(alternatives) /\ 1 \in DOMAIN alternatives
      /\ \A i \in DOMAIN alternatives : alternatives[i] \in Seq(S)
  OBVIOUS
<1>2. common \in Seq(S) /\ Range(common) = { first[k] : k \in shared }
  <2>1. shared \subseteq DOMAIN first /\ common = Pick(first, shared) /\ first \in Seq(S)
    BY <1>1 DEF CommonPredicates
  <2> HIDE DEF shared, common, first
  <2> QED
    BY <2>1, Picked
<1>3. ASSUME NEW i \in DOMAIN alternatives PROVE Range(common) \subseteq Range(alternatives[i])
  <2>1. ASSUME NEW k \in shared PROVE first[k] \in Range(alternatives[i])
    <3>1. Contains(alternatives[i], first[k])
      BY DEF InAll
    <3> QED
      BY <1>1, <3>1 DEF Contains, Range
  <2> QED
    BY <1>2, <2>1
<1> HIDE DEF common
<1>4. ASSUME NEW i \in DOMAIN alternatives
      PROVE  /\ Remainder(alternatives[i], common) \in Seq(S)
             /\ Range(Remainder(alternatives[i], common)) = Range(alternatives[i]) \ Range(common)
  <2> DEFINE alternative == alternatives[i]
             left == { k \in DOMAIN alternative : ~ Contains(common, alternative[k]) }
  <2>1. /\ left \subseteq DOMAIN alternative /\ alternative \in Seq(S)
        /\ Remainder(alternative, common) = Pick(alternative, left)
    BY <1>1 DEF Remainder
  <2>2. \A p : Contains(common, p) <=> p \in Range(common)
    BY <1>2 DEF Contains, Range
  <2>3. { alternative[k] : k \in left } = Range(alternative) \ Range(common)
    <3> HIDE DEF alternative
    <3> QED
      BY <2>2 DEF Range
  <2> HIDE DEF left, alternative
  <2>4. /\ Remainder(alternative, common) \in Seq(S)
        /\ Range(Remainder(alternative, common)) = Range(alternative) \ Range(common)
    BY <2>1, <2>3, Picked
  <2> QED
    BY <2>4 DEF alternative
<1>5. ASSUME NEW i \in DOMAIN alternatives, NEW event
      PROVE  Fires(alternatives[i], event)
               <=> Fires(common, event) /\ Fires(Remainder(alternatives[i], common), event)
  <2>1. /\ Fires(alternatives[i], event) <=> \A p \in Range(alternatives[i]) : Holds(p, event)
        /\ Fires(common, event) <=> \A p \in Range(common) : Holds(p, event)
        /\ Fires(Remainder(alternatives[i], common), event)
             <=> \A p \in Range(Remainder(alternatives[i], common)) : Holds(p, event)
    BY <1>1, <1>2, <1>4, FiresByRange
  <2> QED
    BY <1>3, <1>4, <2>1
<1> QED
  BY <1>2, <1>4, <1>5 DEF common

\* Alternatives that differ in one predicate of one field, or in nothing, are
\* one rule; others are refused, for a rule for each of them.
LEMMA FactorExact ==
  ASSUME NEW alternatives \in Seq(Seq(Conjuncts)), alternatives # <<>>
  PROVE  LET result == Factor(alternatives)
         IN  /\ result.ok =>
                  /\ result.val \in Seq(Planned)
                  /\ \A event : Fires(result.val, event) <=> Alerts(alternatives, event)
             /\ ~ result.ok => result = Err("child rules required")
<1> DEFINE common == CommonPredicates(alternatives)
           rests == [i \in DOMAIN alternatives |-> Remainder(alternatives[i], common)]
           group == [i \in DOMAIN rests |-> rests[i][1]]
           merged == CollapseSameFieldOr(group)
           result == Factor(alternatives)
<1>1. /\ DOMAIN alternatives = 1 .. Len(alternatives) /\ Len(alternatives) \in Nat
      /\ 1 \in DOMAIN alternatives
  OBVIOUS
<1>2. /\ common \in Seq(Conjuncts)
      /\ DOMAIN rests = DOMAIN alternatives
      /\ \A i \in DOMAIN alternatives :
           /\ rests[i] \in Seq(Conjuncts)
           /\ \A event : Fires(alternatives[i], event) <=> Fires(common, event) /\ Fires(rests[i], event)
  <2>1. \A i \in DOMAIN alternatives : rests[i] = Remainder(alternatives[i], common)
    OBVIOUS
  <2> HIDE DEF common
  <2>2. DOMAIN rests = DOMAIN alternatives
    OBVIOUS
  <2> HIDE DEF rests
  <2> QED
    BY <2>1, <2>2, Factored DEF common
<1>3. result = IF \A i \in DOMAIN rests : Len(rests[i]) = 1
                 THEN IF merged.ok THEN Ok(Append(common, merged.val)) ELSE merged
               ELSE IF \A i \in DOMAIN rests : Len(rests[i]) = 0 THEN Ok(common)
               ELSE Err("child rules required")
  BY Zenon DEF Factor
<1>4. /\ group = [i \in 1 .. Len(alternatives) |-> rests[i][1]]
      /\ merged = IF \E i \in DOMAIN group : group[i].field # group[1].field \/ group[i].negated
                    THEN Err("child rules required") ELSE Ok(AnyOf(group, FALSE))
  BY <1>1, <1>2, Zenon DEF CollapseSameFieldOr
<1> HIDE DEF result, merged, group, rests, common
<1>5. CASE \A i \in DOMAIN rests : Len(rests[i]) = 1
  <2>1. \A i \in DOMAIN rests : DOMAIN rests[i] = {1} /\ rests[i][1] \in Conjuncts
    BY <1>2, <1>5
  <2>2. /\ group \in Seq(Conjuncts) /\ DOMAIN group = 1 .. Len(alternatives) /\ group # <<>>
        /\ group = [i \in 1 .. Len(alternatives) |-> group[i]]
    <3>1. \A i \in 1 .. Len(alternatives) : group[i] \in Conjuncts
      BY <1>1, <1>2, <1>4, <2>1
    <3>2. group = [i \in 1 .. Len(alternatives) |-> group[i]]
      BY <1>4
    <3>3. group \in Seq(Conjuncts) /\ DOMAIN group = 1 .. Len(alternatives)
      BY <1>1, <3>1, <3>2, Listed
    <3>4. group # <<>>
      BY <1>1, <3>3
    <3> QED
      BY <3>2, <3>3, <3>4
  <2>3. \A i \in DOMAIN alternatives : \A event :
          Fires(alternatives[i], event) <=> Fires(common, event) /\ Holds(group[i], event)
    BY <1>1, <1>2, <1>4, <2>1 DEF Fires
  <2>4. CASE \E i \in DOMAIN group : group[i].field # group[1].field \/ group[i].negated
    <3>1. result = Err("child rules required")
      BY <1>3, <1>4, <1>5, <2>4 DEF Err
    <3>2. ~ result.ok
      BY <3>1, Refused
    <3> QED
      BY <3>1, <3>2 DEF result
  <2>5. CASE \A i \in DOMAIN group : group[i].field = group[1].field /\ ~ group[i].negated
    <3> DEFINE any == AnyOf(group, FALSE)
    <3>1. result = Ok(Append(common, any))
      BY <1>3, <1>4, <1>5, <2>5 DEF Ok
    <3>2. /\ any \in Form(Alternated)
          /\ \A event : Holds(any, event) <=> \E i \in DOMAIN group : Holds(group[i], event)
      <4>1. \A i \in DOMAIN group : group[i] \in Form(Single \cup Conjoined) /\ group[i].negated = FALSE
        <5>1. \A i \in DOMAIN group : group[i] \in Conjuncts /\ ~ group[i].negated
          BY <2>2, <2>5
        <5>2. \A i \in DOMAIN group : group[i] \in Form(Single \cup Conjoined)
          BY <5>1, Sorts
        <5> QED
          BY <5>1, <5>2 DEF Form
      <4>2. group \in Seq(Form(Single \cup Conjoined))
        <5>1. \A i \in 1 .. Len(alternatives) : group[i] \in Form(Single \cup Conjoined)
          BY <2>2, <4>1
        <5> DEFINE S == Form(Single \cup Conjoined)
        <5> HIDE DEF S
        <5> QED
          BY <1>1, <2>2, <5>1, Listed DEF S
      <4>3. OneField(group)
        BY <2>5 DEF OneField
      <4> QED
        BY <2>2, <4>1, <4>2, <4>3, AnyOfExact
    <3>3. any \in Planned /\ common \in Seq(Planned)
      BY <1>2, <3>2, Sorts, Wider DEF Planned, Form
    <3> HIDE DEF any
    <3>4. /\ Append(common, any) \in Seq(Planned)
          /\ \A event : Fires(Append(common, any), event) <=> Fires(common, event) /\ Holds(any, event)
      <4>1. /\ Len(common) \in Nat /\ DOMAIN common = 1 .. Len(common)
            /\ Append(common, any) \in Seq(Planned)
            /\ DOMAIN Append(common, any) = 1 .. Len(common) + 1
            /\ \A k \in 1 .. Len(common) : Append(common, any)[k] = common[k]
            /\ Append(common, any)[Len(common) + 1] = any
        BY <3>3
      <4>2. 1 .. Len(common) + 1 = (1 .. Len(common)) \cup {Len(common) + 1}
        BY <4>1
      <4> QED
        BY <4>1, <4>2 DEF Fires
    <3>5. ASSUME NEW event
          PROVE  Fires(Append(common, any), event) <=> Alerts(alternatives, event)
      <4>1. Alerts(alternatives, event)
              <=> Fires(common, event) /\ \E i \in DOMAIN group : Holds(group[i], event)
        BY <1>1, <2>2, <2>3 DEF Alerts
      <4> QED
        BY <3>2, <3>4, <4>1
    <3>6. result.ok /\ result.val = Append(common, any)
      BY <3>1 DEF Ok
    <3> QED
      BY <3>4, <3>5, <3>6 DEF result
  <2> QED
    BY <2>4, <2>5
<1>6. CASE ~ (\A i \in DOMAIN rests : Len(rests[i]) = 1) /\ \A i \in DOMAIN rests : Len(rests[i]) = 0
  <2>1. result.ok /\ result.val = common
    BY <1>3, <1>6 DEF Ok
  <2>2. common \in Seq(Planned)
    BY <1>2, Sorts, Wider
  <2>3. \A i \in DOMAIN alternatives : DOMAIN rests[i] = {}
    BY <1>2, <1>6
  <2>4. \A i \in DOMAIN alternatives : \A event :
          Fires(alternatives[i], event) <=> Fires(common, event)
    BY <1>2, <2>3 DEF Fires
  <2>5. \A event : Fires(common, event) <=> Alerts(alternatives, event)
    BY <1>1, <2>4 DEF Alerts
  <2> QED
    BY <2>1, <2>2, <2>5 DEF result
<1>7. CASE /\ ~ (\A i \in DOMAIN rests : Len(rests[i]) = 1)
           /\ ~ (\A i \in DOMAIN rests : Len(rests[i]) = 0)
  <2>1. result = Err("child rules required") /\ ~ result.ok
    BY <1>3, <1>7, Refused
  <2> QED
    BY <2>1 DEF result
<1> QED
  BY <1>5, <1>6, <1>7

\* One rule for a DNF says what the DNF says; else it is refused for a reason
\* that _plan_child_rules tells from the others by its text.
LEMMA CollapseAlternativesExact ==
  ASSUME NEW alternatives \in Seq(Seq(Predicates))
  PROVE  LET result == CollapseAlternatives(alternatives)
         IN  /\ result.ok =>
                  /\ result.val \in Seq(Planned)
                  /\ \A event : Fires(result.val, event) <=> Alerts(alternatives, event)
             /\ ~ result.ok =>
                  \/ result = Err("empty condition") /\ alternatives = <<>>
                  \/ /\ result = Err("not lookahead-lowerable")
                     /\ \E i \in DOMAIN alternatives : ~ Safe(alternatives[i])
                  \/ result = Err("child rules required")
<1> DEFINE normal == CollapseEach(alternatives)
           result == CollapseAlternatives(alternatives)
<1>1. result = IF alternatives = <<>> THEN Err("empty condition")
               ELSE IF Len(alternatives) = 1 THEN CollapseConjunction(alternatives[1])
               ELSE IF normal.ok THEN Factor(normal.val) ELSE normal
  BY Zenon DEF CollapseAlternatives
<1> HIDE DEF result
<1>2. CASE alternatives = <<>>
  <2>1. result = Err("empty condition") /\ ~ result.ok
    BY <1>1, <1>2, Refused
  <2> QED
    BY <1>2, <2>1 DEF result
<1>3. CASE Len(alternatives) = 1
  <2>1. /\ DOMAIN alternatives = {1} /\ alternatives[1] \in Seq(Predicates) /\ alternatives # <<>>
    <3>1. DOMAIN alternatives = 1 .. 1 /\ 1 .. 1 = {1}
      BY <1>3
    <3>2. alternatives[1] \in Seq(Predicates)
      BY <3>1
    <3>3. alternatives # <<>>
      <4>1. 1 \in DOMAIN alternatives
        BY <3>1
      <4>2. DOMAIN <<>> = {}
        OBVIOUS
      <4> QED
        BY <4>1, <4>2
    <3>4. DOMAIN alternatives = {1}
      BY <3>1
    <3> QED
      BY <3>2, <3>3, <3>4
  <2>2. result = CollapseConjunction(alternatives[1])
    BY <1>1, <1>3, <2>1
  <2>3. /\ result.ok =>
             /\ result.val \in Seq(Conjuncts)
             /\ \A event : Fires(result.val, event) <=> Fires(alternatives[1], event)
        /\ ~ result.ok => result = Err("not lookahead-lowerable") /\ ~ Safe(alternatives[1])
    BY <2>1, <2>2, CollapseConjunctionExact
  <2>4. \A event : Alerts(alternatives, event) <=> Fires(alternatives[1], event)
    BY <2>1 DEF Alerts
  <2>5. result.val \in Seq(Conjuncts) => result.val \in Seq(Planned)
    BY Sorts, Wider
  <2> QED
    BY <2>1, <2>3, <2>4, <2>5 DEF result
<1>4. CASE alternatives # <<>> /\ Len(alternatives) # 1
  <2> HIDE DEF normal
  <2>1. /\ normal.ok =>
             /\ normal.val \in Seq(Seq(Conjuncts)) /\ Len(normal.val) = Len(alternatives)
             /\ \A event : Alerts(normal.val, event) <=> Alerts(alternatives, event)
        /\ ~ normal.ok =>
             /\ normal = Err("not lookahead-lowerable")
             /\ \E i \in DOMAIN alternatives : ~ Safe(alternatives[i])
    BY CollapseEachExact DEF normal
  <2>2. CASE normal.ok
    <3>1. result = Factor(normal.val)
      BY <1>1, <1>4, <2>2
    <3>2. normal.val # <<>>
      <4>1. Len(alternatives) # 0
        BY <1>4
      <4> QED
        BY <2>1, <2>2, <4>1
    <3> QED
      BY <2>1, <2>2, <3>1, <3>2, FactorExact DEF result
  <2>3. CASE ~ normal.ok
    <3>1. result = normal
      BY <1>1, <1>4, <2>3
    <3> QED
      BY <2>1, <2>3, <3>1 DEF result
  <2> QED
    BY <2>2, <2>3
<1> QED
  BY <1>2, <1>3, <1>4

-----------------------------------------------------------------------------
(* The steps of the lowering. *)

Dnf == Seq(Seq(Predicates))

\* Equal alternatives, and equal predicates in one, are said once.
LEMMA DedupedAlerts ==
  ASSUME NEW S, NEW alternatives \in Seq(Seq(S)), NEW event
  PROVE  Alerts(Dedupe(alternatives), event) <=> Alerts(alternatives, event)
<1>1. Dedupe(alternatives) \in Seq(Seq(S)) /\ Range(Dedupe(alternatives)) = Range(alternatives)
  BY Deduped
<1> QED
  BY <1>1, AlertsByRange

LEMMA DedupedFires ==
  ASSUME NEW S, NEW rule \in Seq(S), NEW event
  PROVE  Fires(Dedupe(rule), event) <=> Fires(rule, event)
<1>1. Dedupe(rule) \in Seq(S) /\ Range(Dedupe(rule)) = Range(rule)
  BY Deduped
<1> QED
  BY <1>1, FiresByRange

LEMMA Limited ==
  ASSUME NEW alternatives
  PROVE  LET result == WithinDnfLimits(alternatives)
         IN  /\ result.ok => result.val = alternatives
             /\ ~ result.ok => result.val \in {"too many alternatives", "too many predicates"}
BY DEF WithinDnfLimits, Ok, Err

LEMMA SafeByRange ==
  ASSUME NEW alternative
  PROVE  Safe(alternative) <=> \A p \in Range(alternative) : p.lookaheadSafe
BY DEF Safe, Range

AllSafe(dnf) == \A alternative \in Range(dnf) : Safe(alternative)

\* An AND of two DNFs, distributed.
LEMMA ProductExact ==
  ASSUME NEW left \in Dnf, NEW right \in Dnf
  PROVE  /\ Product(left, right) \in Dnf
         /\ left # <<>> /\ right # <<>> => Product(left, right) # <<>>
         /\ AllSafe(left) /\ AllSafe(right) => AllSafe(Product(left, right))
         /\ \A event : Alerts(Product(left, right), event)
                         <=> Alerts(left, event) /\ Alerts(right, event)
<1> DEFINE Both(i, j) == Dedupe(left[i] \o right[j])
           WithLeft(l) == [j \in DOMAIN right |-> Dedupe(l \o right[j])]
           rows == [i \in DOMAIN left |-> WithLeft(left[i])]
<1>1. /\ DOMAIN left = 1 .. Len(left) /\ Len(left) \in Nat
      /\ DOMAIN right = 1 .. Len(right) /\ Len(right) \in Nat
      /\ \A i \in DOMAIN left : left[i] \in Seq(Predicates)
      /\ \A j \in DOMAIN right : right[j] \in Seq(Predicates)
  BY DEF Dnf
<1>2. ASSUME NEW i \in DOMAIN left, NEW j \in DOMAIN right
      PROVE  /\ Both(i, j) \in Seq(Predicates)
             /\ \A event : Fires(Both(i, j), event) <=> Fires(left[i], event) /\ Fires(right[j], event)
             /\ Safe(left[i]) /\ Safe(right[j]) => Safe(Both(i, j))
  <2> DEFINE both == left[i] \o right[j]
  <2>1. both \in Seq(Predicates) /\ Range(both) = Range(left[i]) \cup Range(right[j])
    BY <1>1, Joined
  <2>2. \A event : Fires(both, event) <=> Fires(left[i], event) /\ Fires(right[j], event)
    <3> HIDE DEF both
    <3>1. ASSUME NEW event
          PROVE  /\ Fires(both, event) <=> \A p \in Range(both) : Holds(p, event)
                 /\ Fires(left[i], event) <=> \A p \in Range(left[i]) : Holds(p, event)
                 /\ Fires(right[j], event) <=> \A p \in Range(right[j]) : Holds(p, event)
      BY <1>1, <2>1, FiresByRange
    <3> QED
      BY <2>1, <3>1
  <2> HIDE DEF both
  <2>3. /\ Dedupe(both) \in Seq(Predicates) /\ Range(Dedupe(both)) = Range(both)
        /\ \A event : Fires(Dedupe(both), event) <=> Fires(both, event)
    BY <2>1, Deduped, DedupedFires
  <2>4. Safe(left[i]) /\ Safe(right[j]) => Safe(Dedupe(both))
    BY <2>1, <2>3, SafeByRange
  <2> QED
    BY <2>2, <2>3, <2>4 DEF both
<1>3. /\ DOMAIN rows = DOMAIN left
      /\ \A i \in DOMAIN left : /\ DOMAIN rows[i] = DOMAIN right
                                 /\ \A j \in DOMAIN right : rows[i][j] = Both(i, j)
      /\ \A i \in DOMAIN left : rows[i] = [j \in 1 .. Len(right) |-> rows[i][j]]
  BY <1>1
<1>4. rows = [i \in 1 .. Len(left) |-> rows[i]]
  BY <1>1
<1>5. Product(left, right) = Dedupe(FlattenSeq(rows))
  BY Zenon DEF Product
<1> HIDE DEF rows, Both
<1>6. rows \in Seq(Dnf) /\ DOMAIN rows = DOMAIN left
  <2>1. ASSUME NEW i \in 1 .. Len(left) PROVE rows[i] \in Dnf
    <3>1. \A j \in 1 .. Len(right) : rows[i][j] \in Seq(Predicates)
      BY <1>1, <1>2, <1>3
    <3>2. rows[i] = [j \in 1 .. Len(right) |-> rows[i][j]]
      BY <1>1, <1>3
    <3> QED
      BY <1>1, <3>1, <3>2, Listed DEF Dnf
  <2> QED
    BY <1>1, <1>4, <2>1, Listed
<1>7. /\ FlattenSeq(rows) \in Dnf
      /\ Range(FlattenSeq(rows)) = UNION { Range(rows[i]) : i \in DOMAIN rows }
  BY <1>6, Flattened DEF Dnf
<1>8. Product(left, right) \in Dnf /\ Range(Product(left, right)) = Range(FlattenSeq(rows))
  BY <1>5, <1>7, Deduped DEF Dnf
<1>9. ASSUME NEW event
      PROVE  Alerts(Product(left, right), event) <=> Alerts(left, event) /\ Alerts(right, event)
  <2>1. Alerts(Product(left, right), event)
          <=> \E rule \in UNION { Range(rows[i]) : i \in DOMAIN rows } : Fires(rule, event)
    BY <1>7, <1>8, AlertsByRange DEF Dnf
  <2>2. (\E rule \in UNION { Range(rows[i]) : i \in DOMAIN rows } : Fires(rule, event))
          <=> \E i \in DOMAIN left : \E j \in DOMAIN right : Fires(Both(i, j), event)
    BY <1>3 DEF Range
  <2>3. (\E i \in DOMAIN left : \E j \in DOMAIN right : Fires(Both(i, j), event))
          <=> Alerts(left, event) /\ Alerts(right, event)
    BY <1>2 DEF Alerts
  <2> QED
    BY <2>1, <2>2, <2>3
<1>10. \A x : x \in Range(Product(left, right)) <=>
               \E i \in DOMAIN left : \E j \in DOMAIN right : x = Both(i, j)
  <2>1. \A x : x \in Range(Product(left, right)) <=> \E i \in DOMAIN left : x \in Range(rows[i])
    BY <1>6, <1>7, <1>8
  <2>2. \A i \in DOMAIN left : \A x : x \in Range(rows[i]) <=> \E j \in DOMAIN right : x = Both(i, j)
    BY <1>3 DEF Range
  <2> QED
    BY <2>1, <2>2
<1>11. ASSUME left # <<>>, right # <<>> PROVE Product(left, right) # <<>>
  <2>1. 1 \in DOMAIN left /\ 1 \in DOMAIN right
    BY <1>1, <1>11 DEF Dnf
  <2>2. Both(1, 1) \in Range(Product(left, right))
    BY <1>10, <2>1
  <2> QED
    BY <2>2 DEF Range
<1>12. ASSUME AllSafe(left), AllSafe(right) PROVE AllSafe(Product(left, right))
  <2>1. (\A i \in DOMAIN left : Safe(left[i])) /\ (\A j \in DOMAIN right : Safe(right[j]))
    BY <1>12 DEF AllSafe, Range
  <2> QED
    BY <1>2, <1>10, <2>1 DEF AllSafe
<1> QED
  BY <1>8, <1>9, <1>11, <1>12

LEMMA LowerAndExact ==
  ASSUME NEW left \in Dnf, NEW right \in Dnf
  PROVE  LET result == LowerAnd(left, right)
         IN  /\ result.ok =>
                  /\ result.val \in Dnf
                  /\ left # <<>> /\ right # <<>> => result.val # <<>>
                  /\ AllSafe(left) /\ AllSafe(right) => AllSafe(result.val)
                  /\ \A event : Alerts(result.val, event)
                                  <=> Alerts(left, event) /\ Alerts(right, event)
             /\ ~ result.ok => result.val \in {"too many alternatives", "too many predicates"}
<1> DEFINE result == LowerAnd(left, right)
<1>1. result = WithinDnfLimits(Product(left, right))
  BY DEF LowerAnd
<1> HIDE DEF result
<1>2. /\ result.ok => result.val = Product(left, right)
      /\ ~ result.ok => result.val \in {"too many alternatives", "too many predicates"}
  BY <1>1, Limited
<1> QED
  BY <1>2, ProductExact DEF result

LEMMA LowerOrExact ==
  ASSUME NEW parts \in Seq(Dnf)
  PROVE  LET result == LowerOr(parts)
         IN  /\ result.ok =>
                  /\ result.val \in Dnf
                  /\ (\E i \in DOMAIN parts : parts[i] # <<>>) => result.val # <<>>
                  /\ (\A i \in DOMAIN parts : AllSafe(parts[i])) => AllSafe(result.val)
                  /\ \A event : Alerts(result.val, event)
                                  <=> \E i \in DOMAIN parts : Alerts(parts[i], event)
             /\ ~ result.ok => result.val \in {"too many alternatives", "too many predicates"}
<1> DEFINE result == LowerOr(parts)
           flat == FlattenSeq(parts)
<1>1. flat \in Dnf /\ Range(flat) = UNION { Range(parts[i]) : i \in DOMAIN parts }
  BY Flattened DEF Dnf
<1>2. result = WithinDnfLimits(Dedupe(flat))
  BY DEF LowerOr
<1> HIDE DEF result, flat
<1>3. /\ result.ok => result.val = Dedupe(flat)
      /\ ~ result.ok => result.val \in {"too many alternatives", "too many predicates"}
  BY <1>2, Limited
<1>4. Dedupe(flat) \in Dnf /\ Range(Dedupe(flat)) = Range(flat) /\ \A event : Alerts(Dedupe(flat), event) <=> Alerts(flat, event)
  BY <1>1, Deduped, DedupedAlerts DEF Dnf
<1>5. ASSUME NEW event
      PROVE  Alerts(flat, event) <=> \E i \in DOMAIN parts : Alerts(parts[i], event)
  <2>1. Alerts(flat, event) <=> \E rule \in Range(flat) : Fires(rule, event)
    BY <1>1, AlertsByRange DEF Dnf
  <2>2. ASSUME NEW i \in DOMAIN parts
        PROVE  Alerts(parts[i], event) <=> \E rule \in Range(parts[i]) : Fires(rule, event)
    <3>1. parts[i] \in Seq(Seq(Predicates))
      BY DEF Dnf
    <3> QED
      BY <3>1, AlertsByRange
  <2> QED
    BY <1>1, <2>1, <2>2
<1>6. ASSUME NEW i \in DOMAIN parts, parts[i] # <<>> PROVE Dedupe(flat) # <<>>
  <2>1. 1 \in DOMAIN parts[i]
    BY <1>6 DEF Dnf
  <2>2. parts[i][1] \in Range(parts[i])
    BY <2>1 DEF Range
  <2>3. parts[i][1] \in Range(Dedupe(flat))
    BY <1>1, <1>4, <2>2
  <2> QED
    BY <2>3 DEF Range
<1>7. (\A i \in DOMAIN parts : AllSafe(parts[i])) => AllSafe(Dedupe(flat))
  BY <1>1, <1>4 DEF AllSafe
<1> QED
  BY <1>3, <1>4, <1>5, <1>6, <1>7 DEF result

LEMMA LowerNotExact ==
  ASSUME NEW child \in Dnf
  PROVE  LET result == LowerNot(child)
         IN  /\ result.ok =>
                  /\ result.val \in Dnf /\ result.val # <<>>
                  /\ AllSafe(child) => AllSafe(result.val)
                  /\ \A event : Alerts(result.val, event) <=> ~ Alerts(child, event)
             /\ (\E p : child = << <<p>> >>) => result.ok
<1> DEFINE result == LowerNot(child)
           p == child[1][1]
           q == [p EXCEPT !.negated = ~@]
<1>1. result = IF Len(child) # 1 \/ Len(child[1]) # 1 THEN Err("grouped NOT") ELSE Ok(<< <<q>> >>)
  BY Zenon DEF LowerNot
<1>a. ASSUME NEW x, child = << <<x>> >> PROVE result.ok
  <2>1. Len(child) = 1 /\ Len(child[1]) = 1
    BY <1>a
  <2> HIDE DEF result, q
  <2> QED
    BY <1>1, <2>1 DEF Ok
<1> SUFFICES ASSUME result.ok
             PROVE  /\ result.val \in Dnf /\ result.val # <<>>
                    /\ AllSafe(child) => AllSafe(result.val)
                    /\ \A event : Alerts(result.val, event) <=> ~ Alerts(child, event)
  BY <1>a
<1> HIDE DEF result
<1>2. Len(child) = 1 /\ Len(child[1]) = 1 /\ result.val = << <<q>> >>
  BY <1>1, Refused DEF Ok
<1>3. DOMAIN child = {1} /\ DOMAIN child[1] = {1} /\ p \in Predicates
  <2>1. DOMAIN child = 1 .. 1
    BY <1>2 DEF Dnf
  <2>2. child[1] \in Seq(Predicates)
    BY <2>1 DEF Dnf
  <2>3. DOMAIN child[1] = 1 .. 1
    BY <1>2, <2>2
  <2>4. p \in Predicates
    BY <2>2, <2>3
  <2> QED
    BY <2>1, <2>3, <2>4
<1>4. /\ q \in Predicates /\ q.pattern = p.pattern /\ q.field = p.field /\ q.negated = ~ p.negated
      /\ q.lookaheadSafe = p.lookaheadSafe
  BY <1>3 DEF Predicates, Form
<1> HIDE DEF p, q
<1>5. << <<q>> >> \in Dnf
  BY <1>4 DEF Dnf
<1>6. ASSUME NEW event PROVE Alerts(<< <<q>> >>, event) <=> ~ Alerts(child, event)
  <2>1. Alerts(<< <<q>> >>, event) <=> Holds(q, event)
    BY DEF Alerts, Fires
  <2>2. Alerts(child, event) <=> Holds(p, event)
    BY <1>3 DEF Alerts, Fires, p
  <2>3. Holds(q, event) <=> ~ Holds(p, event)
    BY <1>4, Zenon DEF Holds
  <2> QED
    BY <2>1, <2>2, <2>3
<1>7. AllSafe(child) => AllSafe(<< <<q>> >>)
  <2>1. AllSafe(child) => p.lookaheadSafe
    BY <1>3 DEF AllSafe, Safe, Range, p
  <2>2. q.lookaheadSafe => AllSafe(<< <<q>> >>)
    BY DEF AllSafe, Safe, Range
  <2> QED
    BY <1>4, <2>1, <2>2
<1> QED
  BY <1>2, <1>5, <1>6, <1>7

LEMMA LowerFieldExact ==
  ASSUME NEW node, node.sigma \in DOMAIN FieldOf, node.value \in Values
  PROVE  LET result == LowerField(node)
         IN  /\ result.ok =>
                  /\ result.val \in Predicates
                  /\ result.val.lookaheadSafe <=> node.value \notin Anchored
                  /\ \A event : Holds(result.val, event)
                                  <=> <<FieldOf[node.sigma], node.value>> \in event
             /\ ~ result.ok =>
                  /\ result.val \in {"unresolved field", "unsupported value"}
                  /\ (FieldOf[node.sigma] = NoField \/ node.value \in Unlowerable)
<1> DEFINE result == LowerField(node)
           p == [sigma |-> node.sigma, field |-> FieldOf[node.sigma], pattern |-> Value(node.value),
                 negated |-> FALSE, lookaheadSafe |-> node.value \notin Anchored]
<1>1. result = IF FieldOf[node.sigma] = NoField THEN Err("unresolved field")
               ELSE IF node.value \in Unlowerable THEN Err("unsupported value") ELSE Ok(p)
  BY Zenon DEF LowerField
<1>2. /\ FieldOf[node.sigma] # NoField => p \in Predicates
      /\ (p.lookaheadSafe <=> node.value \notin Anchored)
      /\ p.pattern.op = "value" /\ p.pattern.value = node.value
      /\ p.field = FieldOf[node.sigma] /\ p.negated = FALSE
  BY DEF Predicates, Form, Single, Value, Range
<1> HIDE DEF result, p
<1>3. CASE FieldOf[node.sigma] # NoField /\ node.value \notin Unlowerable
  <2>1. result.ok /\ result.val = p
    BY <1>1, <1>3 DEF Ok
  <2>2. ASSUME NEW event PROVE Holds(p, event) <=> <<FieldOf[node.sigma], node.value>> \in event
    <3>1. Holds(p, event) <=> Matches(p.pattern, Text(event, p.field))
      BY <1>2 DEF Holds
    <3>2. Matches(p.pattern, Text(event, p.field)) <=> node.value \in Text(event, p.field)
      BY <1>2, MatchesByKind
    <3> QED
      BY <1>2, <3>1, <3>2 DEF Text
  <2> QED
    BY <1>2, <1>3, <2>1, <2>2 DEF result
<1>4. CASE FieldOf[node.sigma] = NoField \/ node.value \in Unlowerable
  <2>1. result = Err("unresolved field") \/ result = Err("unsupported value")
    BY <1>1, <1>4
  <2>2. \A why : ~ Err(why).ok /\ Err(why).val = why
    BY DEF Err
  <2> QED
    BY <1>4, <2>1, <2>2 DEF result
<1> QED
  BY <1>3, <1>4

-----------------------------------------------------------------------------
(* The plan. *)

LEMMA BranchesExact ==
  ASSUME NEW alternatives \in Dnf
  PROVE  LET result == Branches(alternatives)
         IN  /\ result.ok =>
                  /\ result.val \in Seq(Seq(Planned)) /\ ~ (Len(result.val) > MaxChildRules)
                  /\ alternatives # <<>> => result.val # <<>>
                  /\ \A event : Alerts(result.val, event) <=> Alerts(alternatives, event)
             /\ ~ result.ok =>
                  \/ result = Err("too many child rules")
                  \/ /\ result = Err("not lookahead-lowerable")
                     /\ \E i \in DOMAIN alternatives : ~ Safe(alternatives[i])
<1> DEFINE branches == CollapseEach(alternatives)
           branchRules == Dedupe(branches.val)
           result == Branches(alternatives)
<1>1. result = IF ~ branches.ok THEN branches
               ELSE IF Len(branchRules) > MaxChildRules THEN Err("too many child rules")
               ELSE Ok(branchRules)
  BY Zenon DEF Branches
<1>2. /\ branches.ok =>
           /\ branches.val \in Seq(Seq(Conjuncts)) /\ Len(branches.val) = Len(alternatives)
           /\ \A event : Alerts(branches.val, event) <=> Alerts(alternatives, event)
      /\ ~ branches.ok =>
           /\ branches = Err("not lookahead-lowerable")
           /\ \E i \in DOMAIN alternatives : ~ Safe(alternatives[i])
  BY CollapseEachExact DEF Dnf
<1> HIDE DEF result, branches
<1>3. CASE ~ branches.ok
  <2>1. result = branches
    BY <1>1, <1>3
  <2> QED
    BY <1>2, <1>3, <2>1 DEF result
<1>4. CASE branches.ok /\ Len(branchRules) > MaxChildRules
  <2>1. result = Err("too many child rules") /\ ~ result.ok
    BY <1>1, <1>4, Refused
  <2> QED
    BY <2>1 DEF result
<1>5. CASE branches.ok /\ ~ (Len(branchRules) > MaxChildRules)
  <2>1. result.ok /\ result.val = branchRules
    BY <1>1, <1>5 DEF Ok
  <2>2. /\ branchRules \in Seq(Seq(Conjuncts)) /\ (branches.val # <<>> => branchRules # <<>>)
        /\ \A event : Alerts(branchRules, event) <=> Alerts(branches.val, event)
    BY <1>2, <1>5, Deduped, DedupedAlerts
  <2>3. branchRules \in Seq(Seq(Planned))
    <3>1. Seq(Conjuncts) \subseteq Seq(Planned)
      BY Sorts, Wider
    <3> QED
      BY <2>2, <3>1, Wider
  <2>4. alternatives # <<>> => branches.val # <<>>
    <3>1. alternatives # <<>> => Len(alternatives) # 0
      BY DEF Dnf
    <3>2. branches.val = <<>> => Len(branches.val) = 0
      OBVIOUS
    <3> QED
      BY <1>2, <1>5, <3>1, <3>2
  <2> HIDE DEF branchRules
  <2> QED
    BY <1>2, <1>5, <2>1, <2>2, <2>3, <2>4 DEF result
<1> QED
  BY <1>3, <1>4, <1>5

\* The reasons for which the plan refuses a DNF of predicates that all have a
\* lookahead form: it is too large.
SizeReasons == {"too many alternatives", "too many predicates", "too many child rules"}

\* The rules planned for a DNF alert on the events the DNF is true of, whether
\* they are one merged rule or one for each alternative (wazuh.py:960-995).
THEOREM PlanExact ==
  ASSUME NEW dnf \in Dnf
  PROVE  LET plan == PlanChildRules(dnf)
         IN  /\ plan.ok =>
                  /\ plan.val \in Seq(Seq(Planned)) /\ (dnf # <<>> => plan.val # <<>>)
                  /\ \A event : Alerts(plan.val, event) <=> Alerts(dnf, event)
             /\ ~ plan.ok =>
                  \/ plan.val \in SizeReasons
                  \/ plan.val = "empty condition" /\ dnf = <<>>
                  \/ plan.val = "not lookahead-lowerable" /\ \E i \in DOMAIN dnf : ~ Safe(dnf[i])
<1> DEFINE each == [i \in DOMAIN dnf |-> Dedupe(dnf[i])]
           alternatives == Dedupe(each)
           single == CollapseAlternatives(alternatives)
           plan == PlanChildRules(dnf)
<1>1. DOMAIN dnf = 1 .. Len(dnf) /\ Len(dnf) \in Nat /\ \A i \in DOMAIN dnf : dnf[i] \in Seq(Predicates)
  BY DEF Dnf
<1>2. ASSUME NEW i \in DOMAIN dnf
      PROVE  /\ each[i] \in Seq(Predicates) /\ Range(each[i]) = Range(dnf[i])
             /\ \A event : Fires(each[i], event) <=> Fires(dnf[i], event)
  BY <1>1, Deduped, DedupedFires
<1>3. each \in Dnf /\ DOMAIN each = DOMAIN dnf /\ (dnf # <<>> => each # <<>>)
  <2>1. each = [i \in 1 .. Len(dnf) |-> each[i]]
    BY <1>1
  <2>2. \A i \in 1 .. Len(dnf) : each[i] \in Seq(Predicates)
    BY <1>1, <1>2
  <2> HIDE DEF each
  <2>3. each \in Dnf /\ DOMAIN each = DOMAIN dnf
    BY <1>1, <2>1, <2>2, Listed DEF Dnf
  <2>4. dnf # <<>> => 1 \in DOMAIN dnf
    BY <1>1 DEF Dnf
  <2> QED
    BY <2>3, <2>4
<1> HIDE DEF each
<1>4. /\ alternatives \in Dnf /\ Range(alternatives) = Range(each)
      /\ dnf # <<>> => alternatives # <<>>
      /\ \A event : Alerts(alternatives, event) <=> Alerts(each, event)
  BY <1>3, Deduped, DedupedAlerts DEF Dnf
<1>5. \A event : Alerts(alternatives, event) <=> Alerts(dnf, event)
  <2>1. \A event : Alerts(each, event) <=> Alerts(dnf, event)
    BY <1>2, <1>3 DEF Alerts
  <2> QED
    BY <1>4, <2>1
<1>6. plan = IF ~ WithinDnfLimits(alternatives).ok THEN WithinDnfLimits(alternatives)
             ELSE IF single.ok /\ (~ Oversized(single.val) \/ Len(alternatives) = 1)
               THEN Ok(<<single.val>>)
             ELSE IF ~ single.ok /\ single.val # "child rules required" THEN single
             ELSE Branches(alternatives)
  BY Zenon DEF PlanChildRules, each
<1>7. /\ single.ok =>
           /\ single.val \in Seq(Planned)
           /\ \A event : Fires(single.val, event) <=> Alerts(alternatives, event)
      /\ ~ single.ok =>
           \/ single = Err("empty condition") /\ alternatives = <<>>
           \/ /\ single = Err("not lookahead-lowerable")
              /\ \E i \in DOMAIN alternatives : ~ Safe(alternatives[i])
           \/ single = Err("child rules required")
  <2> HIDE DEF alternatives
  <2> QED
    BY <1>4, CollapseAlternativesExact DEF Dnf
<1>8. (\E i \in DOMAIN alternatives : ~ Safe(alternatives[i])) => \E i \in DOMAIN dnf : ~ Safe(dnf[i])
  <2> SUFFICES ASSUME NEW i \in DOMAIN alternatives, ~ Safe(alternatives[i])
               PROVE  \E j \in DOMAIN dnf : ~ Safe(dnf[j])
    OBVIOUS
  <2> HIDE DEF alternatives
  <2>1. alternatives[i] \in Range(each)
    BY <1>4 DEF Range
  <2>2. PICK j \in DOMAIN dnf : each[j] = alternatives[i]
    BY <1>3, <2>1 DEF Range
  <2>3. PICK p \in Range(each[j]) : ~ p.lookaheadSafe
    BY <2>2 DEF Safe, Range
  <2>4. p \in Range(dnf[j])
    BY <1>2, <2>3
  <2> QED
    BY <2>3, <2>4 DEF Safe, Range
<1> HIDE DEF alternatives, single, plan
<1>9. CASE ~ WithinDnfLimits(alternatives).ok
  <2>1. plan = WithinDnfLimits(alternatives)
    BY <1>6, <1>9
  <2>2. ~ plan.ok /\ plan.val \in SizeReasons
    BY <1>9, <2>1, Limited DEF SizeReasons
  <2> QED
    BY <2>2 DEF plan
<1>10. CASE /\ WithinDnfLimits(alternatives).ok
            /\ single.ok /\ (~ Oversized(single.val) \/ Len(alternatives) = 1)
  <2>1. plan.ok /\ plan.val = <<single.val>>
    BY <1>6, <1>10 DEF Ok
  <2>2. <<single.val>> \in Seq(Seq(Planned))
    BY <1>7, <1>10
  <2>3. \A event : Alerts(<<single.val>>, event) <=> Fires(single.val, event)
    BY DEF Alerts
  <2> QED
    BY <1>5, <1>7, <1>10, <2>1, <2>2, <2>3 DEF plan
<1>11. CASE WithinDnfLimits(alternatives).ok /\ ~ single.ok /\ single.val # "child rules required"
  <2>1. plan = single
    BY <1>6, <1>11
  <2>2. \A why : Err(why).val = why
    BY DEF Err
  <2>3. single # Err("child rules required")
    BY <1>11, <2>2
  <2> QED
    BY <1>4, <1>7, <1>8, <1>11, <2>1, <2>2, <2>3 DEF plan
<1>12. CASE /\ WithinDnfLimits(alternatives).ok
            /\ ~ (single.ok /\ (~ Oversized(single.val) \/ Len(alternatives) = 1))
            /\ ~ (~ single.ok /\ single.val # "child rules required")
  <2>1. plan = Branches(alternatives)
    BY <1>6, <1>12
  <2>2. /\ plan.ok =>
             /\ plan.val \in Seq(Seq(Planned)) /\ (alternatives # <<>> => plan.val # <<>>)
             /\ \A event : Alerts(plan.val, event) <=> Alerts(alternatives, event)
        /\ ~ plan.ok =>
             \/ plan = Err("too many child rules")
             \/ /\ plan = Err("not lookahead-lowerable")
                /\ \E i \in DOMAIN alternatives : ~ Safe(alternatives[i])
    BY <1>4, <2>1, BranchesExact
  <2>3. \A why : Err(why).val = why
    BY DEF Err
  <2> QED
    BY <1>4, <1>5, <1>8, <2>2, <2>3 DEF plan, SizeReasons
<1> QED
  BY <1>9, <1>10, <1>11, <1>12

-----------------------------------------------------------------------------
(* Recursion. *)

\* A step that makes a function from a function, on each level of its domain from
\* the values on the level below.
ByLevel(K, N, level, F, Step) ==
  /\ K \in Nat /\ Step \in [F -> F] /\ F # {}
  /\ \A f \in F : f = [x \in N |-> f[x]]
  /\ \A x \in N : x \in level[K]
  /\ \A k \in 0 .. K : \A x \in level[k] : x \in N
  /\ \A f, g \in F : \A x \in level[0] : Step[f][x] = Step[g][x]
  /\ \A f, g \in F : \A k \in 1 .. K :
       (\A y \in level[k - 1] : f[y] = g[y]) => \A x \in level[k] : Step[f][x] = Step[g][x]

\* The function the step leaves as it is: the steps agree on a level once they
\* have reached it.
LEMMA RecursionExists ==
  ASSUME NEW K, NEW N, NEW level, NEW F, NEW Step, ByLevel(K, N, level, F, Step)
  PROVE  \E f \in F : f = Step[f]
<1>0. PICK start : start \in F
  BY DEF ByLevel
<1>a. Step \in [F -> F]
  BY DEF ByLevel
<1> DEFINE M == K + 2
           S == [k \in 1 .. M |-> Step]
<1>1. K \in Nat /\ M \in Nat /\ K + 1 \in 0 .. M /\ K + 2 \in 1 .. M
  BY DEF ByLevel
<1>2. PICK val : IsRun(M, F, start, S, val)
  <2>1. S \in [1 .. M -> [F -> F]]
    BY <1>a
  <2> HIDE DEF S, M
  <2> QED
    BY <1>0, <1>1, <2>1, RunExists
<1>3. /\ \A j \in 0 .. M : val[j] \in F
      /\ \A j \in 1 .. M : val[j] = Step[val[j - 1]]
  BY <1>2 DEF IsRun
<1> USE DEF ByLevel
<1> DEFINE T == { k \in 0 .. K : \A x \in level[k] : \A j \in k + 1 .. M : val[j][x] = val[k + 1][x] }
<1> HIDE DEF M, S
<1>4. 0 \in T
  <2> SUFFICES ASSUME NEW x \in level[0], NEW j \in 1 .. M PROVE val[j][x] = val[1][x]
    OBVIOUS
  <2>1. 1 \in 1 .. M /\ j - 1 \in 0 .. M /\ 0 \in 0 .. M /\ 1 - 1 = 0
    BY <1>1
  <2>2. val[j] = Step[val[j - 1]] /\ val[1] = Step[val[0]] /\ val[j - 1] \in F /\ val[0] \in F
    BY <1>3, <2>1
  <2>3. \A f, g \in F : \A y \in level[0] : Step[f][y] = Step[g][y]
    OBVIOUS
  <2>4. Step[val[j - 1]][x] = Step[val[0]][x]
    BY <2>2, <2>3
  <2> QED
    BY <2>2, <2>4
<1>5. ASSUME NEW k \in 1 .. K, k - 1 \in T PROVE k \in T
  <2> SUFFICES ASSUME NEW x \in level[k], NEW j \in k + 1 .. M PROVE val[j][x] = val[k + 1][x]
    OBVIOUS
  <2>1. /\ k + 1 \in 1 .. M /\ k \in 0 .. M /\ j \in 1 .. M /\ j - 1 \in 0 .. M
        /\ k + 1 - 1 = k /\ j - 1 \in (k - 1) + 1 .. M /\ (k - 1) + 1 = k
    BY <1>1 DEF M
  <2>2. val[j] = Step[val[j - 1]] /\ val[k + 1] = Step[val[k]] /\ val[j - 1] \in F /\ val[k] \in F
    BY <1>3, <2>1
  <2>3. \A y \in level[k - 1] : val[j - 1][y] = val[k][y]
    BY <1>5, <2>1
  <2>4. \A f, g \in F : (\A y \in level[k - 1] : f[y] = g[y])
                           => \A y \in level[k] : Step[f][y] = Step[g][y]
    OBVIOUS
  <2>5. Step[val[j - 1]][x] = Step[val[k]][x]
    BY <2>2, <2>3, <2>4
  <2> QED
    BY <2>2, <2>5
<1>6. \A k \in 0 .. K : k \in T
  <2> HIDE DEF T
  <2> QED
    BY <1>4, <1>5, Counting
<1> DEFINE f == val[K + 1]
<1>7. f \in F /\ Step[f] \in F /\ val[K + 2] = Step[f]
  <2>1. K + 2 - 1 = K + 1
    OBVIOUS
  <2> QED
    BY <1>1, <1>3, <2>1
<1>8. \A x \in N : val[K + 2][x] = f[x]
  <2>1. K \in T /\ K + 2 \in K + 1 .. M
    BY <1>6 DEF M
  <2> QED
    BY <2>1
<1> HIDE DEF f
<1>9. f = [x \in N |-> f[x]] /\ Step[f] = [x \in N |-> Step[f][x]]
  BY <1>7
<1>10. \A x \in N : Step[f][x] = f[x]
  BY <1>7, <1>8
<1> QED
  BY <1>7, <1>9, <1>10

-----------------------------------------------------------------------------
(* Trees. *)

LEMMA TreeLevels ==
  ASSUME NEW leaves
  PROVE  /\ TreesOver(leaves)[0] = leaves
         /\ \A h \in Nat : TreesOver(leaves)[h + 1] = leaves \cup Over(TreesOver(leaves)[h])
<1> DEFINE Up(S) == leaves \cup Over(S)
           Builds(f, n) == f[0] = leaves /\ \A h \in 1 .. n : f[h] = Up(f[h - 1])
           Grows(f) == f = [h \in Nat |-> IF h = 0 THEN leaves ELSE Up(f[h - 1])]
<1>1. TreesOver(leaves) = CHOOSE f : Grows(f)
  BY Zenon DEF TreesOver
<1> HIDE DEF Up
<1>2. ASSUME NEW n \in Nat PROVE \E f : Builds(f, n)
  <2> DEFINE T == { m \in 0 .. n : \E f : Builds(f, m) }
  <2>1. 0 \in T
    <3> DEFINE f == [h \in {0} |-> leaves]
    <3>1. Builds(f, 0)
      OBVIOUS
    <3> HIDE DEF f, Builds
    <3> QED
      BY <3>1
  <2>2. ASSUME NEW m \in 1 .. n, m - 1 \in T PROVE m \in T
    <3>1. PICK f : Builds(f, m - 1)
      BY <2>2
    <3> DEFINE g == [h \in 0 .. m |-> IF h = m THEN Up(f[m - 1]) ELSE f[h]]
    <3>2. g[0] = leaves
      BY <3>1
    <3>3. ASSUME NEW h \in 1 .. m PROVE g[h] = Up(g[h - 1])
      <4>1. h - 1 \in 0 .. m /\ h - 1 # m
        OBVIOUS
      <4>2. g[h - 1] = f[h - 1]
        BY <4>1
      <4>3. CASE h = m
        BY <4>2, <4>3
      <4>4. CASE h # m
        <5>1. h \in 1 .. m - 1
          BY <4>4
        <5> QED
          BY <3>1, <4>2, <4>4, <5>1
      <4> QED
        BY <4>3, <4>4
    <3>4. Builds(g, m)
      BY <3>2, <3>3
    <3> HIDE DEF g, Builds
    <3> QED
      BY <3>4
  <2>3. \A m \in 0 .. n : m \in T
    <3> HIDE DEF T
    <3> QED
      BY <2>1, <2>2, Counting
  <2> QED
    BY <2>3
<1>3. ASSUME NEW n \in Nat, NEW f, NEW g, Builds(f, n), Builds(g, n), NEW h \in 0 .. n
      PROVE  f[h] = g[h]
  <2> DEFINE T == { m \in 0 .. n : f[m] = g[m] }
  <2>1. 0 \in T
    BY <1>3
  <2>2. ASSUME NEW m \in 1 .. n, m - 1 \in T PROVE m \in T
    BY <1>3, <2>2
  <2>3. \A m \in 0 .. n : m \in T
    <3> HIDE DEF T
    <3> QED
      BY <2>1, <2>2, Counting
  <2> QED
    BY <2>3
<1>4. \E f : Grows(f)
  <2> DEFINE Run(n) == CHOOSE f : Builds(f, n)
             f == [h \in Nat |-> Run(h)[h]]
  <2>1. \A n \in Nat : Builds(Run(n), n)
    <3> HIDE DEF Builds
    <3> QED
      BY <1>2
  <2> HIDE DEF Run
  <2>2. ASSUME NEW h \in Nat PROVE f[h] = IF h = 0 THEN leaves ELSE Up(f[h - 1])
    <3>1. CASE h = 0
      BY <2>1, <3>1
    <3>2. CASE h # 0
      <4>1. h \in 1 .. h /\ h - 1 \in Nat /\ h - 1 \in 0 .. h - 1 /\ \A i \in 1 .. h - 1 : i \in 1 .. h
        BY <3>2
      <4>2. Run(h)[h] = Up(Run(h)[h - 1])
        BY <2>1, <4>1
      <4>3. Builds(Run(h), h - 1) /\ Builds(Run(h - 1), h - 1)
        BY <2>1, <4>1
      <4>4. Run(h)[h - 1] = Run(h - 1)[h - 1]
        <5> HIDE DEF Builds
        <5> QED
          BY <1>3, <4>1, <4>3
      <4> QED
        BY <3>2, <4>1, <4>2, <4>4
    <3> QED
      BY <3>1, <3>2
  <2>3. Grows(f)
    BY <2>2
  <2> QED
    BY <2>3
<1>5. Grows(TreesOver(leaves))
  <2> HIDE DEF Grows
  <2> QED
    BY <1>1, <1>4
<1> DEFINE trees == TreesOver(leaves)
<1> HIDE DEF trees
<1>6. \A h \in Nat : trees[h] = IF h = 0 THEN leaves ELSE Up(trees[h - 1])
  BY <1>5 DEF trees
<1>7. \A h \in Nat : trees[h + 1] = Up(trees[h])
  <2> SUFFICES ASSUME NEW h \in Nat PROVE trees[h + 1] = Up(trees[h])
    OBVIOUS
  <2>1. h + 1 \in Nat /\ h + 1 # 0 /\ h + 1 - 1 = h
    OBVIOUS
  <2> QED
    BY <1>6, <2>1
<1> QED
  BY <1>6, <1>7 DEF trees, Up

-----------------------------------------------------------------------------
(* Trees. *)

Tree(h) == TreesOver(Leaves)[h]
IR(h) == TreesOver(Fields)[h]

\* A tree is a leaf, a NOT or a group, with its parts one level down.
LEMMA TreeCases ==
  ASSUME NEW L, L \subseteq Leaves, NEW h \in Nat, NEW node \in TreesOver(L)[h]
  PROVE  \/ node \in L /\ node.op \in {"field", "expansion", "keyword"}
         \/ /\ h # 0 /\ h - 1 \in Nat /\ node.op = "not"
            /\ node.arg \in TreesOver(L)[h - 1] /\ node = [op |-> "not", arg |-> node.arg]
         \/ /\ h # 0 /\ h - 1 \in Nat /\ node.op \in {"and", "or"}
            /\ node.args \in Seq(TreesOver(L)[h - 1]) /\ node.args # <<>>
            /\ node = [op |-> node.op, args |-> node.args]
<1>1. CASE node \in L
  BY <1>1 DEF Leaves, Fields
<1>2. CASE node \notin L
  <2>1. h # 0
    BY <1>2, TreeLevels
  <2>2. h - 1 \in Nat /\ h - 1 + 1 = h
    BY <2>1
  <2>3. node \in Over(TreesOver(L)[h - 1])
    BY <1>2, <2>2, TreeLevels
  <2> QED
    BY <2>1, <2>2, <2>3 DEF Over
<1> QED
  BY <1>1, <1>2

LEMMA TreeMade ==
  ASSUME NEW L, NEW h \in Nat
  PROVE  /\ \A node \in L : node \in TreesOver(L)[h]
         /\ \A node \in TreesOver(L)[h] : [op |-> "not", arg |-> node] \in TreesOver(L)[h + 1]
         /\ \A op \in {"and", "or"} : \A s \in Seq(TreesOver(L)[h]) :
              s # <<>> => [op |-> op, args |-> s] \in TreesOver(L)[h + 1]
<1>1. TreesOver(L)[h + 1] = L \cup Over(TreesOver(L)[h])
  BY TreeLevels
<1>2. \A node \in L : node \in TreesOver(L)[h]
  <2>1. CASE h = 0
    BY <2>1, TreeLevels
  <2>2. CASE h # 0
    <3>1. h - 1 \in Nat /\ h - 1 + 1 = h
      BY <2>2
    <3> QED
      BY <3>1, TreeLevels
  <2> QED
    BY <2>1, <2>2
<1> QED
  BY <1>1, <1>2 DEF Over

LEMMA TreeWider ==
  ASSUME NEW L, NEW M, L \subseteq M, NEW n \in Nat, NEW h \in 0 .. n
  PROVE  TreesOver(L)[h] \subseteq TreesOver(M)[n]
<1>1. \A k \in 0 .. n : TreesOver(L)[k] \subseteq TreesOver(M)[k]
  <2> DEFINE T == { k \in 0 .. n : TreesOver(L)[k] \subseteq TreesOver(M)[k] }
  <2>1. 0 \in T
    BY TreeLevels
  <2>2. ASSUME NEW k \in 1 .. n, k - 1 \in T PROVE k \in T
    <3>1. k - 1 \in Nat /\ k - 1 + 1 = k
      OBVIOUS
    <3>2. /\ TreesOver(L)[k] = L \cup Over(TreesOver(L)[k - 1])
          /\ TreesOver(M)[k] = M \cup Over(TreesOver(M)[k - 1])
      BY <3>1, TreeLevels
    <3>3. TreesOver(L)[k - 1] \subseteq TreesOver(M)[k - 1]
      BY <2>2
    <3>4. Over(TreesOver(L)[k - 1]) \subseteq Over(TreesOver(M)[k - 1])
      BY <3>3, Wider DEF Over
    <3> QED
      BY <3>2, <3>4
  <2> HIDE DEF T
  <2>3. \A k \in 0 .. n : k \in T
    BY <2>1, <2>2, Counting
  <2> QED
    BY <2>3 DEF T
<1>2. \A k \in 0 .. n - h : TreesOver(M)[h] \subseteq TreesOver(M)[h + k]
  <2> DEFINE T == { k \in 0 .. n - h : TreesOver(M)[h] \subseteq TreesOver(M)[h + k] }
  <2>1. 0 \in T
    OBVIOUS
  <2>2. ASSUME NEW k \in 1 .. n - h, k - 1 \in T PROVE k \in T
    <3>1. h + (k - 1) \in Nat /\ h + (k - 1) + 1 = h + k
      OBVIOUS
    <3>2. \A i \in Nat : TreesOver(M)[i] \subseteq TreesOver(M)[i + 1]
      <4> DEFINE U(i) == TreesOver(M)[i] \subseteq TreesOver(M)[i + 1]
      <4> SUFFICES ASSUME NEW m \in Nat PROVE U(m)
        OBVIOUS
      <4> DEFINE V == { i \in 0 .. m : U(i) }
      <4>1. 0 \in V
        BY TreeLevels
      <4>2. ASSUME NEW i \in 1 .. m, i - 1 \in V PROVE i \in V
        <5>1. i - 1 \in Nat /\ i - 1 + 1 = i /\ i \in Nat
          OBVIOUS
        <5>2. /\ TreesOver(M)[i] = M \cup Over(TreesOver(M)[i - 1])
              /\ TreesOver(M)[i + 1] = M \cup Over(TreesOver(M)[i])
          BY <5>1, TreeLevels
        <5>3. TreesOver(M)[i - 1] \subseteq TreesOver(M)[i]
          BY <4>2, <5>1
        <5>4. Over(TreesOver(M)[i - 1]) \subseteq Over(TreesOver(M)[i])
          BY <5>3, Wider DEF Over
        <5> QED
          BY <5>2, <5>4
      <4> HIDE DEF V, U
      <4>3. \A i \in 0 .. m : i \in V
        BY <4>1, <4>2, Counting
      <4> QED
        BY <4>3 DEF V
    <3> QED
      BY <2>2, <3>1, <3>2
  <2> HIDE DEF T
  <2>3. n - h \in Nat
    OBVIOUS
  <2>4. \A k \in 0 .. n - h : k \in T
    BY <2>1, <2>2, <2>3, Counting
  <2> QED
    BY <2>4 DEF T
<1>3. n - h \in 0 .. n - h /\ h + (n - h) = n
  OBVIOUS
<1>4. TreesOver(M)[h] \subseteq TreesOver(M)[n]
  BY <1>2, <1>3
<1> QED
  BY <1>1, <1>4

LEMMA Heights ==
  /\ MaxHeight \in Nat /\ MaxHeight + 1 \in Nat /\ MaxDepth \in Nat /\ MaxDepth + 1 \in Nat
  /\ Fields \subseteq Leaves
  /\ Parsed = Tree(MaxHeight) /\ Trees = Tree(MaxHeight + 1)
  /\ IRs = IR(MaxHeight + 1) /\ Negatable = IR(MaxHeight)
  /\ \A h \in 0 .. MaxHeight : Tree(h) \subseteq Parsed /\ IR(h) \subseteq Negatable
  /\ \A h \in 0 .. MaxHeight + 1 : Tree(h) \subseteq Trees /\ IR(h) \subseteq IRs /\ IR(h) \subseteq Tree(h)
<1>1. MaxHeight \in Nat /\ MaxHeight + 1 \in Nat /\ MaxDepth \in Nat /\ MaxDepth + 1 \in Nat
  BY LoweringAssumption
<1>2. Fields \subseteq Leaves
  BY DEF Leaves
<1>3. \A h \in 0 .. MaxHeight : Tree(h) \subseteq Parsed /\ IR(h) \subseteq Negatable
  BY <1>1, TreeWider DEF Tree, IR, Parsed, Negatable
<1>4. \A h \in 0 .. MaxHeight + 1 : Tree(h) \subseteq Trees /\ IR(h) \subseteq IRs
  BY <1>1, TreeWider DEF Tree, IR, Trees, IRs
<1>5. \A h \in 0 .. MaxHeight + 1 : IR(h) \subseteq Tree(h)
  <2> SUFFICES ASSUME NEW h \in 0 .. MaxHeight + 1 PROVE IR(h) \subseteq Tree(h)
    OBVIOUS
  <2>1. h \in Nat /\ h \in 0 .. h
    BY <1>1
  <2> QED
    BY <1>2, <2>1, TreeWider DEF Tree, IR
<1> QED
  BY <1>1, <1>2, <1>3, <1>4, <1>5 DEF Tree, IR, Parsed, Trees, IRs, Negatable
\* The truth of a tree is given by the truth of its parts.
LEMMA TruthOfTree ==
  ASSUME NEW event, NEW node \in Trees
  PROVE  IsTrue(node, event) =
           CASE node.op = "not" -> ~IsTrue(node.arg, event)
             [] node.op = "and" -> \A child \in Range(node.args) : IsTrue(child, event)
             [] node.op = "or" -> \E child \in Range(node.args) : IsTrue(child, event)
             [] OTHER -> LeafMatches(node) \cap event # {}
<1> DEFINE Body(f, n) ==
             CASE n.op = "not" -> ~f[n.arg]
               [] n.op = "and" -> \A child \in Range(n.args) : f[child]
               [] n.op = "or" -> \E child \in Range(n.args) : f[child]
               [] OTHER -> LeafMatches(n) \cap event # {}
           Truth(f) == f = [n \in Trees |-> Body(f, n)]
           F == [Trees -> BOOLEAN]
           Step == [f \in F |-> [n \in Trees |-> Body(f, n)]]
           K == MaxHeight + 1
           level == [k \in 0 .. K |-> Tree(k)]
<1>1. TruthOf(event) = CHOOSE f : Truth(f)
  BY Zenon DEF TruthOf
<1>2. \A f, n : Body(f, n) \in BOOLEAN
  OBVIOUS
<1> HIDE DEF Body
<1>3. Step \in [F -> F]
  BY <1>2
<1>4. PICK start : start \in F
  <2>1. [n \in Trees |-> TRUE] \in F
    OBVIOUS
  <2> QED
    BY <2>1
<1>5. /\ K \in Nat
      /\ \A f \in F : f = [x \in Trees |-> f[x]]
      /\ \A x \in Trees : x \in level[K]
      /\ \A k \in 0 .. K : \A x \in level[k] : x \in Trees
  BY Heights
<1>6. ASSUME NEW f \in F, NEW g \in F, NEW x \in level[0] PROVE Step[f][x] = Step[g][x]
  <2>1. 0 \in 0 .. K /\ x \in Tree(0) /\ x \in Trees
    BY <1>5, <1>6
  <2>2. x.op \in {"field", "expansion", "keyword"}
    BY <2>1, TreeCases DEF Tree
  <2>3. Body(f, x) = (LeafMatches(x) \cap event # {}) /\ Body(g, x) = (LeafMatches(x) \cap event # {})
    BY <2>2 DEF Body
  <2> QED
    BY <2>1, <2>3
<1>7. ASSUME NEW f \in F, NEW g \in F, NEW k \in 1 .. K,
             \A y \in level[k - 1] : f[y] = g[y], NEW x \in level[k]
      PROVE  Step[f][x] = Step[g][x]
  <2>1. k \in 0 .. K /\ k - 1 \in 0 .. K /\ k \in Nat /\ x \in Tree(k) /\ x \in Trees
    BY <1>5
  <2>2. \A y \in Tree(k - 1) : f[y] = g[y]
    BY <1>7, <2>1
  <2>3. Body(f, x) = Body(g, x)
    <3>1. CASE x.op \in {"field", "expansion", "keyword"}
      BY <3>1 DEF Body
    <3>2. CASE x.op = "not" /\ x.arg \in Tree(k - 1)
      BY <2>2, <3>2 DEF Body
    <3>3. CASE x.op \in {"and", "or"} /\ x.args \in Seq(Tree(k - 1))
      <4>1. Range(x.args) \subseteq Tree(k - 1)
        BY <3>3 DEF Range
      <4> QED
        BY <2>2, <3>3, <4>1 DEF Body
    <3> QED
      BY <2>1, <3>1, <3>2, <3>3, TreeCases DEF Tree
  <2> QED
    BY <2>1, <2>3
<1> HIDE DEF F, Step, K, level
<1>8. \E f \in F : f = Step[f]
  <2>1. \A f, g \in F : \A x \in level[0] : Step[f][x] = Step[g][x]
    BY <1>6
  <2>2. \A f, g \in F : \A k \in 1 .. K :
          (\A y \in level[k - 1] : f[y] = g[y]) => \A x \in level[k] : Step[f][x] = Step[g][x]
    BY <1>7
  <2>3. ByLevel(K, Trees, level, F, Step)
    BY <1>3, <1>4, <1>5, <2>1, <2>2 DEF ByLevel
  <2> QED
    BY <2>3, RecursionExists
<1>9. \E f : Truth(f)
  BY <1>8 DEF Step
<1> HIDE DEF Truth
<1>10. Truth(TruthOf(event))
  BY <1>1, <1>9
<1>11. TruthOf(event)[node] = Body(TruthOf(event), node)
  BY <1>10 DEF Truth
<1> QED
  BY <1>11 DEF Body, IsTrue

\* By kind.
LEMMA TruthIs ==
  ASSUME NEW event, NEW node \in Trees
  PROVE  /\ IsTrue(node, event) \in BOOLEAN
         /\ node.op \in {"field", "expansion", "keyword"} =>
              (IsTrue(node, event) <=> LeafMatches(node) \cap event # {})
         /\ node.op = "not" => (IsTrue(node, event) <=> ~ IsTrue(node.arg, event))
         /\ node.op = "and" =>
              (IsTrue(node, event) <=> \A child \in Range(node.args) : IsTrue(child, event))
         /\ node.op = "or" =>
              (IsTrue(node, event) <=> \E child \in Range(node.args) : IsTrue(child, event))
<1> DEFINE T(n) == IsTrue(n, event)
           all == \A child \in Range(node.args) : T(child)
           some == \E child \in Range(node.args) : T(child)
           hit == LeafMatches(node) \cap event # {}
<1>1. T(node) = CASE node.op = "not" -> ~T(node.arg)
                  [] node.op = "and" -> all
                  [] node.op = "or" -> some
                  [] OTHER -> hit
  BY TruthOfTree
<1>2. all \in BOOLEAN /\ some \in BOOLEAN /\ hit \in BOOLEAN /\ (~T(node.arg)) \in BOOLEAN
  OBVIOUS
<1> HIDE DEF T, all, some, hit
<1>3. /\ T(node) \in BOOLEAN
      /\ node.op \in {"field", "expansion", "keyword"} => T(node) = hit
      /\ node.op = "not" => T(node) = ~T(node.arg)
      /\ node.op = "and" => T(node) = all
      /\ node.op = "or" => T(node) = some
  <2>1. CASE node.op = "not"
    BY <1>1, <1>2, <2>1
  <2>2. CASE node.op = "and"
    BY <1>1, <1>2, <2>2
  <2>3. CASE node.op = "or"
    BY <1>1, <1>2, <2>3
  <2>4. CASE node.op \notin {"not", "and", "or"}
    BY <1>1, <1>2, <2>4
  <2> QED
    BY <2>1, <2>2, <2>3, <2>4
<1> QED
  BY <1>3 DEF T, all, some, hit

\* The leaves of a tree are those of its parts; a leaf is its own.
LEMMA SubtreesOfTree ==
  ASSUME NEW node \in Trees
  PROVE  /\ node.op \in {"field", "expansion", "keyword"} => Subtrees[node] = {node}
         /\ node.op = "not" => Subtrees[node] = {node} \cup Subtrees[node.arg]
         /\ node.op \in {"and", "or"} =>
              Subtrees[node] = {node} \cup UNION {Subtrees[child] : child \in Range(node.args)}
<1> DEFINE Body(f, n) ==
             CASE n.op \in {"field", "expansion", "keyword"} -> {n}
               [] n.op = "not" -> {n} \cup f[n.arg]
               [] OTHER -> {n} \cup UNION {f[child] : child \in Range(n.args)}
           Holder(f) == f = [n \in Trees |-> Body(f, n)]
           Cut(f, n) == Body(f, n) \cap Trees
           F == [Trees -> SUBSET Trees]
           K == MaxHeight + 1
           level == [k \in 0 .. K |-> Tree(k)]
<1>1. Subtrees = CHOOSE f : Holder(f)
  BY Zenon DEF Subtrees
<1> DEFINE leaf(n) == n.op \in {"field", "expansion", "keyword"}
           group(n) == n.op \in {"and", "or"}
           parts(f, n) == UNION {f[child] : child \in Range(n.args)}
<1>2. /\ \A f, n : leaf(n) => Body(f, n) = {n}
      /\ \A f, n : n.op = "not" => Body(f, n) = {n} \cup f[n.arg]
      /\ \A f, n : group(n) =>
           Body(f, n) = {n} \cup parts(f, n)
  BY Zenon
<1> HIDE DEF Body, leaf, group, parts
<1> DEFINE Step == [f \in F |-> [n \in Trees |-> Cut(f, n)]]
<1>3. Step \in [F -> F] /\ F # {}
  <2>1. [n \in Trees |-> {}] \in F
    OBVIOUS
  <2> QED
    BY <2>1
<1>4. /\ K \in Nat
      /\ \A f \in F : f = [x \in Trees |-> f[x]]
      /\ \A x \in Trees : x \in level[K]
      /\ \A k \in 0 .. K : \A x \in level[k] : x \in Trees
  BY Heights
<1>5. \A f, g \in F : \A x \in level[0] : Step[f][x] = Step[g][x]
  <2> SUFFICES ASSUME NEW f \in F, NEW g \in F, NEW x \in level[0] PROVE Step[f][x] = Step[g][x]
    OBVIOUS
  <2>1. 0 \in 0 .. K /\ x \in Tree(0) /\ x \in Trees
    BY <1>4
  <2>2. x.op \in {"field", "expansion", "keyword"}
    BY <2>1, TreeCases DEF Tree
  <2>3. Body(f, x) = {x} /\ Body(g, x) = {x}
    <3>1. leaf(x)
      BY <2>2 DEF leaf
    <3> QED
      BY <1>2, <3>1, Zenon
  <2> QED
    BY <2>1, <2>3
<1>6. \A f, g \in F : \A k \in 1 .. K :
        (\A y \in level[k - 1] : f[y] = g[y]) => \A x \in level[k] : Step[f][x] = Step[g][x]
  <2> SUFFICES ASSUME NEW f \in F, NEW g \in F, NEW k \in 1 .. K,
                      \A y \in level[k - 1] : f[y] = g[y], NEW x \in level[k]
               PROVE  Step[f][x] = Step[g][x]
    OBVIOUS
  <2>1. k \in 0 .. K /\ k - 1 \in 0 .. K /\ k \in Nat /\ x \in Tree(k) /\ x \in Trees
    BY <1>4
  <2>2. \A y \in Tree(k - 1) : f[y] = g[y]
    BY <2>1
  <2>3. Body(f, x) = Body(g, x)
    <3>1. CASE leaf(x)
      <4>1. Body(f, x) = {x} /\ Body(g, x) = {x}
        BY <1>2, <3>1, Zenon
      <4> QED
        BY <4>1
    <3>2. CASE x.op = "not" /\ x.arg \in Tree(k - 1)
      <4>1. Body(f, x) = {x} \cup f[x.arg] /\ Body(g, x) = {x} \cup g[x.arg]
        BY <1>2, <3>2, Zenon
      <4> QED
        BY <2>2, <3>2, <4>1
    <3>3. CASE group(x) /\ x.args \in Seq(Tree(k - 1))
      <4>1. Range(x.args) \subseteq Tree(k - 1)
        BY <3>3 DEF Range
      <4>2. {f[child] : child \in Range(x.args)} = {g[child] : child \in Range(x.args)}
        BY <2>2, <4>1
      <4>3. /\ Body(f, x) = {x} \cup parts(f, x)
            /\ Body(g, x) = {x} \cup parts(g, x)
        BY <1>2, <3>3, Zenon
      <4> QED
        BY <4>2, <4>3 DEF parts
    <3> QED
      BY <2>1, <3>1, <3>2, <3>3, TreeCases DEF Tree, leaf, group
  <2> QED
    BY <2>1, <2>3
<1>7. PICK f \in F : f = Step[f]
  <2> HIDE DEF F, Step, K, level
  <2>1. ByLevel(K, Trees, level, F, Step)
    BY <1>3, <1>4, <1>5, <1>6 DEF ByLevel
  <2> QED
    BY <2>1, RecursionExists
<1>8. f = [n \in Trees |-> Cut(f, n)]
  BY <1>7
<1>9. ASSUME NEW n \in Trees PROVE Body(f, n) \subseteq Trees
  <2>1. n \in Tree(K) /\ K \in Nat /\ Tree(K) = Trees /\ (K # 0 => K - 1 \in 0 .. K)
    BY <1>4, Heights
  <2>2. CASE leaf(n)
    <3>1. Body(f, n) = {n}
      BY <1>2, <2>2, Zenon
    <3> QED
      BY <3>1
  <2>3. CASE n.op = "not" /\ n.arg \in Trees
    <3>1. Body(f, n) = {n} \cup f[n.arg]
      BY <1>2, <2>3, Zenon
    <3> QED
      BY <1>7, <2>3, <3>1
  <2>4. CASE group(n) /\ n.args \in Seq(Trees)
    <3>1. Range(n.args) \subseteq Trees
      BY <2>4 DEF Range
    <3>2. \A child \in Range(n.args) : f[child] \subseteq Trees
      BY <1>7, <3>1
    <3>3. Body(f, n) = {n} \cup parts(f, n)
      BY <1>2, <2>4, Zenon
    <3> QED
      BY <3>2, <3>3 DEF parts
  <2>5. K # 0 => Tree(K - 1) \subseteq Trees
    BY <2>1, Heights
  <2>6. K # 0 => \A s \in Seq(Tree(K - 1)) : s \in Seq(Trees)
    BY <2>5, Wider
  <2> QED
    BY <2>1, <2>2, <2>3, <2>4, <2>5, <2>6, TreeCases DEF Tree, leaf, group
<1>10. Holder(f)
  BY <1>8, <1>9
<1> HIDE DEF Holder
<1>11. Holder(Subtrees)
  BY <1>1, <1>10
<1>12. Subtrees[node] = Body(Subtrees, node)
  BY <1>11 DEF Holder
<1>13. /\ leaf(node) => Subtrees[node] = {node}
       /\ node.op = "not" => Subtrees[node] = {node} \cup Subtrees[node.arg]
       /\ group(node) => Subtrees[node] = {node} \cup parts(Subtrees, node)
  BY <1>2, <1>12, Zenon
<1> QED
  BY <1>13 DEF leaf, group, parts

Leaf(node) == node.op \in {"field", "expansion", "keyword"}
Group(node) == node.op \in {"and", "or"}

LEMMA Parts ==
  ASSUME NEW node \in Trees
  PROVE  /\ Leaf(node) \/ node.op = "not" \/ Group(node)
         /\ Leaf(node) => node \in Leaves
         /\ node \in Leaves => Leaf(node)
         /\ node.op = "not" => node.arg \in Trees
         /\ Group(node) => node.args \in Seq(Trees) /\ node.args # <<>> /\ Range(node.args) \subseteq Trees
<1> DEFINE h == MaxHeight + 1
           below == TreesOver(Leaves)[h - 1]
<1>1. h \in Nat /\ node \in TreesOver(Leaves)[h]
  BY Heights DEF Trees
<1>2. ASSUME h # 0 PROVE below \subseteq Trees
  <2>1. h - 1 \in 0 .. h
    BY <1>1, <1>2
  <2> QED
    BY <2>1, Heights DEF Tree
<1> HIDE DEF h, below
<1>3. h # 0 => \A s \in Seq(below) : s \in Seq(Trees)
  BY <1>2, Wider
<1>4. \A s \in Seq(Trees) : Range(s) \subseteq Trees
  BY DEF Range
<1>5. node \in Leaves => Leaf(node)
  BY DEF Leaf, Leaves, Fields
<1>6. \/ node \in Leaves /\ node.op \in {"field", "expansion", "keyword"}
      \/ h # 0 /\ node.op = "not" /\ node.arg \in below
      \/ h # 0 /\ node.op \in {"and", "or"} /\ node.args \in Seq(below) /\ node.args # <<>>
  BY <1>1, TreeCases DEF below
<1> QED
  BY <1>2, <1>3, <1>4, <1>5, <1>6 DEF Leaf, Group

LEMMA LeavesOfTree ==
  ASSUME NEW node \in Trees
  PROVE  /\ Leaf(node) => LeavesOf(node) = {node}
         /\ node.op = "not" => LeavesOf(node) = LeavesOf(node.arg)
         /\ Group(node) => LeavesOf(node) = UNION {LeavesOf(child) : child \in Range(node.args)}
<1>1. CASE Leaf(node)
  <2>1. node \in Leaves /\ Subtrees[node] = {node}
    BY <1>1, Parts, SubtreesOfTree DEF Leaf
  <2> QED
    BY <1>1, <2>1 DEF LeavesOf, Leaf, Group
<1>2. CASE node.op = "not"
  <2>1. node \notin Leaves /\ Subtrees[node] = {node} \cup Subtrees[node.arg]
    BY <1>2, Parts, SubtreesOfTree DEF Leaf
  <2> QED
    BY <1>2, <2>1 DEF LeavesOf, Leaf, Group
<1>3. CASE Group(node)
  <2>1. /\ node \notin Leaves
        /\ Subtrees[node] = {node} \cup UNION {Subtrees[child] : child \in Range(node.args)}
    BY <1>3, Parts, SubtreesOfTree DEF Leaf, Group
  <2> QED
    BY <1>3, <2>1 DEF LeavesOf, Leaf, Group
<1> QED
  BY <1>1, <1>2, <1>3, Parts

LEMMA NormalTree ==
  ASSUME NEW node \in Trees
  PROVE  /\ Leaf(node) => IsNormal(node)
         /\ node.op = "not" =>
              (IsNormal(node) <=> node.arg.op = "field" /\ IsNormal(node.arg))
         /\ Group(node) =>
              (IsNormal(node) <=> /\ \A child \in Range(node.args) : child.op # node.op /\ IsNormal(child)
                                  /\ IsInjective(node.args))
<1> DEFINE Fine(n) == /\ n.op = "not" => n.arg.op = "field"
                      /\ n.op \in {"and", "or"} =>
                           /\ \A child \in Range(n.args) : child.op # n.op
                           /\ IsInjective(n.args)
<1>1. \A tree : IsNormal(tree) <=> \A n \in Subtrees[tree] : Fine(n)
  BY Zenon DEF IsNormal
<1>2. CASE Leaf(node)
  <2>1. Fine(node) /\ Subtrees[node] = {node}
    BY <1>2, SubtreesOfTree DEF Leaf
  <2> HIDE DEF Fine
  <2> QED
    BY <1>1, <1>2, <2>1 DEF Leaf, Group
<1>3. CASE node.op = "not"
  <2>1. Fine(node) <=> node.arg.op = "field"
    BY <1>3
  <2>2. Subtrees[node] = {node} \cup Subtrees[node.arg]
    BY <1>3, SubtreesOfTree
  <2> HIDE DEF Fine
  <2> QED
    BY <1>1, <1>3, <2>1, <2>2 DEF Leaf, Group
<1>4. CASE Group(node)
  <2>1. Fine(node) <=> /\ \A child \in Range(node.args) : child.op # node.op
                       /\ IsInjective(node.args)
    BY <1>4 DEF Group
  <2>2. Subtrees[node] = {node} \cup UNION {Subtrees[child] : child \in Range(node.args)}
    BY <1>4, SubtreesOfTree DEF Group
  <2> HIDE DEF Fine
  <2>3. IsNormal(node) <=> Fine(node) /\ \A child \in Range(node.args) : IsNormal(child)
    BY <1>1, <2>2
  <2> QED
    BY <1>4, <2>1, <2>3 DEF Leaf, Group
<1> QED
  BY <1>2, <1>3, <1>4, Parts

-----------------------------------------------------------------------------
(* _build_condition_ir. *)

\* A condition that is made of leaves the backend supports.
Clean(node) == \A leaf \in LeavesOf(node) : Supported(leaf)

LEMMA CleanTree ==
  ASSUME NEW node \in Trees
  PROVE  /\ Leaf(node) => (Clean(node) <=> Supported(node))
         /\ node.op = "not" => (Clean(node) <=> Clean(node.arg))
         /\ Group(node) => (Clean(node) <=> \A child \in Range(node.args) : Clean(child))
BY LeavesOfTree DEF Clean

LEMMA LeafMatchesOf ==
  ASSUME NEW leaf
  PROVE  /\ leaf.op = "field" => LeafMatches(leaf) = {<<FieldOf[leaf.sigma], leaf.value>>}
         /\ leaf.op = "expansion" =>
              LeafMatches(leaf) = {<<FieldOf[leaf.sigma], v>> : v \in Range(leaf.values)}
<1>1. ASSUME leaf.op = "field"
      PROVE  LeafMatches(leaf) = {<<FieldOf[leaf.sigma], leaf.value>>}
  BY <1>1 DEF LeafMatches
<1>2. ASSUME leaf.op = "expansion"
      PROVE  LeafMatches(leaf) = {<<FieldOf[leaf.sigma], v>> : v \in Range(leaf.values)}
  BY <1>2 DEF LeafMatches
<1> QED
  BY <1>1, <1>2

\* What the IR of a tree of some height is: a tree over field predicates that is
\* true of the same events, or the refusal of a keyword.
BuiltAt(height, node, result) ==
  \/ /\ result = Ok(result.val) /\ result.val \in IR(height + 1)
     /\ \A event : IsTrue(result.val, event) <=> IsTrue(node, event)
     /\ Clean(node) => Clean(result.val)
  \/ result = Err("fieldless value") /\ ~ Clean(node)

BuildBody(f, node) ==
  CASE node.op = "field" -> Ok(node)
    [] node.op = "expansion" -> Ok(ExpansionIR(node))
    [] node.op = "keyword" -> Err("fieldless value")
    [] node.op = "not" ->
         Bind(f[node.arg], LAMBDA child : Ok([op |-> "not", arg |-> child]))
    [] OTHER ->
         Bind(AllOk(Map(f, node.args)), LAMBDA children : Ok([node EXCEPT !.args = children]))

LEMMA BuildBodyIs ==
  ASSUME NEW f, NEW node
  PROVE  /\ node.op = "field" => BuildBody(f, node) = Ok(node)
         /\ node.op = "expansion" => BuildBody(f, node) = Ok(ExpansionIR(node))
         /\ node.op = "keyword" => BuildBody(f, node) = Err("fieldless value")
         /\ node.op = "not" =>
              BuildBody(f, node) = IF f[node.arg].ok
                                     THEN Ok([op |-> "not", arg |-> f[node.arg].val])
                                     ELSE f[node.arg]
         /\ Group(node) =>
              BuildBody(f, node) = IF AllOk(Map(f, node.args)).ok
                                     THEN Ok([node EXCEPT !.args = AllOk(Map(f, node.args)).val])
                                     ELSE AllOk(Map(f, node.args))
BY Zenon DEF BuildBody, Bind, Group

LEMMA ExpansionBuilt ==
  ASSUME NEW node \in Leaves, node.op = "expansion", NEW height \in 0 .. MaxHeight
  PROVE  BuiltAt(height, node, Ok(ExpansionIR(node)))
<1> DEFINE tree == ExpansionIR(node)
           args == [i \in DOMAIN node.values |-> Predicate(node.sigma, node.values[i])]
<1>1. /\ node.sigma \in DOMAIN FieldOf /\ node.values \in Seq(Values) /\ node.values # <<>>
  BY DEF Leaves, Fields
<1>2. tree = [op |-> "or", args |-> args]
  BY DEF ExpansionIR
<1>3. /\ args \in Seq(Fields) /\ args # <<>>
      /\ Range(args) = { Predicate(node.sigma, v) : v \in Range(node.values) }
  <2>1. /\ DOMAIN node.values = 1 .. Len(node.values) /\ Len(node.values) \in Nat
        /\ \A i \in DOMAIN node.values : node.values[i] \in Values
    BY <1>1
  <2>2. \A v \in Values : Predicate(node.sigma, v) \in Fields
    BY <1>1 DEF Predicate, Fields
  <2>3. args = [i \in 1 .. Len(node.values) |-> args[i]]
    BY <2>1
  <2>4. \A i \in 1 .. Len(node.values) : args[i] \in Fields
    BY <2>1, <2>2
  <2>5. args \in Seq(Fields) /\ Len(args) = Len(node.values)
    <3> HIDE DEF args
    <3> QED
      BY <2>1, <2>3, <2>4, Listed
  <2>6. Len(node.values) # 0
    BY <1>1
  <2>7. Range(args) = { Predicate(node.sigma, v) : v \in Range(node.values) }
    BY DEF Range
  <2> QED
    BY <2>5, <2>6, <2>7
<1> HIDE DEF args, tree
<1>4. tree \in IR(1) /\ tree \in IR(height + 1) /\ tree \in Trees
  <2>1. args \in Seq(TreesOver(Fields)[0])
    BY <1>3, TreeLevels
  <2>2. 0 \in Nat /\ 0 + 1 = 1
    OBVIOUS
  <2>3. tree \in IR(1)
    BY <1>2, <1>3, <2>1, <2>2, TreeMade DEF IR
  <2>4. height + 1 \in Nat /\ 1 \in 0 .. height + 1 /\ height + 1 \in 0 .. MaxHeight + 1
    BY Heights
  <2>5. tree \in IR(height + 1)
    BY <2>3, <2>4, TreeWider DEF IR
  <2> QED
    BY <2>3, <2>4, <2>5, Heights
<1>5. node \in Trees
  BY Heights, TreeMade DEF Trees
<1>6. tree.op = "or" /\ tree.args = args /\ Group(tree)
  BY <1>2 DEF Group
<1>7. \A p \in Range(args) : p \in Fields /\ p \in Trees /\ p.op = "field" /\ Leaf(p)
  <2>1. \A p \in Range(args) : p \in Fields /\ p \in Leaves
    BY <1>3, Heights DEF Range
  <2>2. \A p \in Leaves : p \in Trees
    BY Heights, TreeMade DEF Trees
  <2> QED
    BY <2>1, <2>2 DEF Fields, Leaf
<1>8. ASSUME NEW event PROVE IsTrue(tree, event) <=> IsTrue(node, event)
  <2>1. IsTrue(tree, event) <=> \E p \in Range(args) : IsTrue(p, event)
    BY <1>4, <1>6, TruthIs
  <2>2. \A p \in Range(args) : IsTrue(p, event) <=> <<FieldOf[p.sigma], p.value>> \in event
    BY <1>7, TruthIs, LeafMatchesOf
  <2>3. IsTrue(node, event) <=> \E v \in Range(node.values) : <<FieldOf[node.sigma], v>> \in event
    <3>1. IsTrue(node, event) <=> LeafMatches(node) \cap event # {}
      BY <1>5, TruthIs
    <3>2. LeafMatches(node) = {<<FieldOf[node.sigma], v>> : v \in Range(node.values)}
      BY LeafMatchesOf
    <3> QED
      BY <3>1, <3>2
  <2>4. \A v : Predicate(node.sigma, v).sigma = node.sigma /\ Predicate(node.sigma, v).value = v
    BY DEF Predicate
  <2> QED
    BY <1>3, <2>1, <2>2, <2>3, <2>4
<1>9. ASSUME Clean(node) PROVE Clean(tree)
  <2>1. Supported(node)
    BY <1>5, <1>9, CleanTree DEF Leaf
  <2>2. FieldOf[node.sigma] # NoField /\ Range(node.values) \cap (Unlowerable \cup Anchored) = {}
    BY <2>1 DEF Supported
  <2>3. \A p \in Range(args) : Supported(p)
    BY <1>3, <2>2 DEF Predicate, Supported
  <2> QED
    BY <1>4, <1>6, <1>7, <2>3, CleanTree
<1>10. Ok(tree).val = tree
  BY DEF Ok
<1> QED
  BY <1>4, <1>8, <1>9, <1>10 DEF BuiltAt, tree

LEMMA BuildNot ==
  ASSUME NEW k \in 1 .. MaxHeight, NEW node \in Trees, node.op = "not",
         NEW r, BuiltAt(k - 1, node.arg, r)
  PROVE  BuiltAt(k, node, IF r.ok THEN Ok([op |-> "not", arg |-> r.val]) ELSE r)
<1>1. CASE /\ r = Ok(r.val) /\ r.val \in IR(k)
           /\ \A event : IsTrue(r.val, event) <=> IsTrue(node.arg, event)
           /\ Clean(node.arg) => Clean(r.val)
  <2> DEFINE tree == [op |-> "not", arg |-> r.val]
  <2>1. r.ok
    BY <1>1 DEF Ok
  <2>2. tree \in IR(k + 1) /\ k \in Nat /\ k + 1 \in 0 .. MaxHeight + 1
    BY <1>1, Heights, TreeMade DEF IR
  <2>3. tree \in Trees /\ tree.op = "not" /\ tree.arg = r.val
    BY <2>2, Heights
  <2> HIDE DEF tree
  <2>4. \A event : IsTrue(tree, event) <=> IsTrue(node, event)
    <3> SUFFICES ASSUME NEW event PROVE IsTrue(tree, event) <=> IsTrue(node, event)
      OBVIOUS
    <3>1. IsTrue(tree, event) <=> ~ IsTrue(r.val, event)
      BY <2>3, TruthIs
    <3>2. IsTrue(node, event) <=> ~ IsTrue(node.arg, event)
      BY TruthIs
    <3> QED
      BY <1>1, <3>1, <3>2
  <2>5. Clean(node) => Clean(tree)
    BY <1>1, <2>3, CleanTree
  <2>6. Ok(tree).val = tree
    BY DEF Ok
  <2> QED
    BY <2>1, <2>2, <2>4, <2>5, <2>6 DEF BuiltAt, tree
<1>2. CASE r = Err("fieldless value") /\ ~ Clean(node.arg)
  <2>1. ~ r.ok
    BY <1>2, Refused
  <2> QED
    BY <1>2, <2>1, CleanTree DEF BuiltAt
<1>3. k - 1 + 1 = k
  OBVIOUS
<1> QED
  BY <1>1, <1>2, <1>3 DEF BuiltAt

LEMMA BuildGroup ==
  ASSUME NEW k \in 1 .. MaxHeight, NEW node \in Trees, Group(node),
         node = [op |-> node.op, args |-> node.args],
         NEW r, DOMAIN r = DOMAIN node.args,
         \A i \in DOMAIN r : BuiltAt(k - 1, node.args[i], r[i])
  PROVE  BuiltAt(k, node, IF AllOk(r).ok THEN Ok([node EXCEPT !.args = AllOk(r).val]) ELSE AllOk(r))
<1> DEFINE n == Len(node.args)
           s == [i \in 1 .. n |-> r[i].val]
           tree == [op |-> node.op, args |-> s]
<1>1. n \in Nat /\ DOMAIN node.args = 1 .. n /\ n # 0 /\ \A i \in 1 .. n : node.args[i] \in Range(node.args)
  BY Parts DEF Range
<1>2. ASSUME NEW i \in 1 .. n
      PROVE  \/ /\ r[i].ok /\ r[i].val \in IR(k)
                /\ \A event : IsTrue(r[i].val, event) <=> IsTrue(node.args[i], event)
                /\ Clean(node.args[i]) => Clean(r[i].val)
             \/ ~ r[i].ok /\ r[i] = Err("fieldless value") /\ ~ Clean(node.args[i])
  <2>1. BuiltAt(k - 1, node.args[i], r[i]) /\ k - 1 + 1 = k
    BY <1>1, <1>2
  <2>2. \A x : Ok(x).ok
    BY DEF Ok
  <2> QED
    BY <2>1, <2>2, Refused DEF BuiltAt
<1>3. CASE \A i \in 1 .. n : r[i].ok
  <2>1. AllOk(r) = Ok(s)
    BY <1>1, <1>3, AllOkResult
  <2>2. AllOk(r).ok /\ AllOk(r).val = s
    BY <2>1 DEF Ok
  <2>3. [node EXCEPT !.args = AllOk(r).val] = tree
    BY <2>2
  <2>4. /\ s \in Seq(IR(k)) /\ DOMAIN s = 1 .. n /\ s # <<>>
        /\ Range(s) = { r[i].val : i \in 1 .. n }
    <3>1. s = [i \in 1 .. n |-> s[i]] /\ \A i \in 1 .. n : s[i] \in IR(k)
      BY <1>2, <1>3
    <3>2. Range(s) = { r[i].val : i \in 1 .. n }
      BY DEF Range
    <3> HIDE DEF s, n
    <3>3. s \in Seq(IR(k)) /\ DOMAIN s = 1 .. n
      BY <1>1, <3>1, Listed
    <3> QED
      BY <1>1, <3>2, <3>3
  <2>5. Range(node.args) = { node.args[i] : i \in 1 .. n }
    BY <1>1 DEF Range
  <2> HIDE DEF s
  <2>6. tree \in IR(k + 1) /\ k \in Nat /\ k + 1 \in 0 .. MaxHeight + 1
    BY <2>4, Heights, TreeMade DEF IR, Group
  <2>7. tree \in Trees /\ tree.op = node.op /\ tree.args = s /\ Group(tree)
    BY <2>6, Heights DEF Group
  <2> HIDE DEF tree, n
  <2>8. \A event : IsTrue(tree, event) <=> IsTrue(node, event)
    <3> SUFFICES ASSUME NEW event PROVE IsTrue(tree, event) <=> IsTrue(node, event)
      OBVIOUS
    <3>1. \A i \in 1 .. n : IsTrue(r[i].val, event) <=> IsTrue(node.args[i], event)
      BY <1>2, <1>3
    <3>2. CASE node.op = "and"
      <4>1. IsTrue(tree, event) <=> \A child \in Range(s) : IsTrue(child, event)
        BY <2>7, <3>2, TruthIs
      <4>2. IsTrue(node, event) <=> \A child \in Range(node.args) : IsTrue(child, event)
        BY <3>2, TruthIs
      <4> QED
        BY <2>4, <2>5, <3>1, <4>1, <4>2
    <3>3. CASE node.op = "or"
      <4>1. IsTrue(tree, event) <=> \E child \in Range(s) : IsTrue(child, event)
        BY <2>7, <3>3, TruthIs
      <4>2. IsTrue(node, event) <=> \E child \in Range(node.args) : IsTrue(child, event)
        BY <3>3, TruthIs
      <4> QED
        BY <2>4, <2>5, <3>1, <4>1, <4>2
    <3> QED
      BY <3>2, <3>3 DEF Group
  <2>9. Clean(node) => Clean(tree)
    <3>1. Clean(node) <=> \A child \in Range(node.args) : Clean(child)
      BY CleanTree
    <3>2. Clean(tree) <=> \A child \in Range(s) : Clean(child)
      BY <2>7, CleanTree
    <3> QED
      BY <1>2, <1>3, <2>4, <2>5, <3>1, <3>2
  <2>10. Ok(tree).val = tree
    BY DEF Ok
  <2> QED
    BY <2>2, <2>3, <2>6, <2>8, <2>9, <2>10 DEF BuiltAt
<1>4. CASE \E i \in 1 .. n : ~ r[i].ok
  <2>1. PICK i \in 1 .. n : ~ r[i].ok /\ AllOk(r) = r[i]
    BY <1>1, <1>4, AllOkResult
  <2>2. AllOk(r) = Err("fieldless value") /\ ~ AllOk(r).ok /\ ~ Clean(node.args[i])
    BY <1>2, <2>1
  <2>3. ~ Clean(node)
    BY <1>1, <2>2, CleanTree
  <2> QED
    BY <2>2, <2>3 DEF BuiltAt
<1> QED
  BY <1>3, <1>4

\* Level by level, where a function is the body wherever that is as it should be.
LEMMA BuiltByLevel ==
  ASSUME NEW f,
         \A k \in 0 .. MaxHeight : \A node \in Tree(k) :
           BuiltAt(k, node, BuildBody(f, node)) => f[node] = BuildBody(f, node)
  PROVE  \A k \in 0 .. MaxHeight : \A node \in Tree(k) :
           BuiltAt(k, node, f[node]) /\ f[node] = BuildBody(f, node)
<1> DEFINE T == { k \in 0 .. MaxHeight : \A node \in Tree(k) :
                    BuiltAt(k, node, f[node]) /\ f[node] = BuildBody(f, node) }
<1>1. ASSUME NEW k \in 0 .. MaxHeight, k = 0 \/ k - 1 \in T PROVE k \in T
  <2> SUFFICES ASSUME NEW node \in Tree(k) PROVE BuiltAt(k, node, BuildBody(f, node))
    BY <1>1
  <2>1. k \in Nat /\ node \in Trees /\ node \in TreesOver(Leaves)[k] /\ k \in 0 .. MaxHeight + 1
    BY Heights DEF Tree
  <2>2. ASSUME node \in Leaves PROVE BuiltAt(k, node, BuildBody(f, node))
    <3>1. CASE node.op = "field"
      <4>1. node \in Fields
        BY <2>2, <3>1 DEF Leaves
      <4>2. node \in IR(k + 1) /\ Ok(node).val = node
        BY <2>1, <4>1, TreeMade DEF IR, Ok
      <4>3. BuildBody(f, node) = Ok(node)
        BY <3>1, BuildBodyIs
      <4> QED
        BY <4>2, <4>3 DEF BuiltAt
    <3>2. CASE node.op = "expansion"
      BY <2>2, <3>2, BuildBodyIs, ExpansionBuilt
    <3>3. CASE node.op = "keyword"
      <4>1. ~ Clean(node)
        BY <2>1, <3>3, CleanTree DEF Supported, Leaf
      <4> QED
        BY <3>3, <4>1, BuildBodyIs DEF BuiltAt
    <3> QED
      BY <2>2, <3>1, <3>2, <3>3 DEF Leaves, Fields
  <2>3. ASSUME k # 0, node.op = "not", node.arg \in TreesOver(Leaves)[k - 1]
        PROVE  BuiltAt(k, node, BuildBody(f, node))
    <3>1. k \in 1 .. MaxHeight /\ BuiltAt(k - 1, node.arg, f[node.arg])
      BY <1>1, <2>3 DEF Tree
    <3> DEFINE r == f[node.arg]
    <3> HIDE DEF r
    <3>2. BuiltAt(k, node, IF r.ok THEN Ok([op |-> "not", arg |-> r.val]) ELSE r)
      BY <2>1, <2>3, <3>1, BuildNot DEF r
    <3>3. BuildBody(f, node) = IF r.ok THEN Ok([op |-> "not", arg |-> r.val]) ELSE r
      BY <2>3, BuildBodyIs DEF r
    <3> QED
      BY <3>2, <3>3
  <2>4. ASSUME k # 0, Group(node), node.args \in Seq(TreesOver(Leaves)[k - 1]),
               node = [op |-> node.op, args |-> node.args]
        PROVE  BuiltAt(k, node, BuildBody(f, node))
    <3> DEFINE r == Map(f, node.args)
    <3>1. k \in 1 .. MaxHeight /\ DOMAIN r = DOMAIN node.args
      BY <2>4 DEF Map
    <3>2. \A i \in DOMAIN r : BuiltAt(k - 1, node.args[i], r[i])
      <4>1. \A i \in DOMAIN r : node.args[i] \in Tree(k - 1) /\ r[i] = f[node.args[i]]
        BY <2>4 DEF Map, Tree
      <4> QED
        BY <1>1, <2>4, <4>1
    <3> HIDE DEF r
    <3>3. BuiltAt(k, node, IF AllOk(r).ok THEN Ok([node EXCEPT !.args = AllOk(r).val]) ELSE AllOk(r))
      BY <2>1, <2>4, <3>1, <3>2, BuildGroup
    <3> QED
      BY <2>4, <3>3, BuildBodyIs DEF r
  <2>5. \/ node \in Leaves
        \/ k # 0 /\ node.op = "not" /\ node.arg \in TreesOver(Leaves)[k - 1]
        \/ /\ k # 0 /\ Group(node) /\ node.args \in Seq(TreesOver(Leaves)[k - 1])
           /\ node = [op |-> node.op, args |-> node.args]
    BY <2>1, TreeCases DEF Group
  <2> QED
    BY <2>2, <2>3, <2>4, <2>5
<1>2. 0 \in T /\ \A k \in 1 .. MaxHeight : k - 1 \in T => k \in T
  <2>1. 0 \in 0 .. MaxHeight /\ \A k \in 1 .. MaxHeight : k \in 0 .. MaxHeight
    BY Heights
  <2> HIDE DEF T
  <2> QED
    BY <1>1, <2>1
<1> HIDE DEF T
<1>3. \A k \in 0 .. MaxHeight : k \in T
  BY <1>2, Counting, Heights
<1> QED
  BY <1>3 DEF T

\* The IR of a parsed condition is true of the events the condition is true of,
\* and only a keyword is refused (_build_condition_ir).
LEMMA BuildExact ==
  ASSUME NEW node \in Parsed
  PROVE  BuiltAt(MaxHeight, node, BuildIR[node])
<1> DEFINE Builder(f) == f = [n \in Parsed |-> BuildBody(f, n)]
           K == MaxHeight
           level == [k \in 0 .. K |-> Tree(k)]
           Results == [ok : BOOLEAN, val : IRs \cup {"fieldless value"}]
           F == [Parsed -> Results]
           none == Err("fieldless value")
           Step == [f \in F |-> [n \in Parsed |->
                      IF BuildBody(f, n) \in Results THEN BuildBody(f, n) ELSE none]]
<1>1. BuildIR = CHOOSE f : Builder(f)
  BY Zenon DEF BuildIR, BuildBody
<1>3. none \in Results
  BY DEF Err
<1> HIDE DEF Results, none
<1>2. /\ K \in Nat
      /\ \A f \in F : f = [x \in Parsed |-> f[x]]
      /\ \A x \in Parsed : x \in level[K]
      /\ \A k \in 0 .. K : \A x \in level[k] : x \in Parsed
  <2>1. K \in Nat /\ Parsed = Tree(K) /\ \A k \in 0 .. K : Tree(k) \subseteq Parsed
    BY Heights
  <2>2. \A f \in F : f = [x \in Parsed |-> f[x]]
    OBVIOUS
  <2> HIDE DEF K
  <2> QED
    BY <2>1, <2>2
<1>4. Step \in [F -> F] /\ F # {}
  <2>1. [n \in Parsed |-> none] \in F
    BY <1>3
  <2> QED
    BY <1>3, <2>1
<1>5. \A f, g \in F : \A x \in level[0] : Step[f][x] = Step[g][x]
  <2> SUFFICES ASSUME NEW f \in F, NEW g \in F, NEW x \in level[0] PROVE Step[f][x] = Step[g][x]
    OBVIOUS
  <2>1. x \in Tree(0) /\ x \in Parsed
    BY <1>2
  <2>2. x.op \in {"field", "expansion", "keyword"}
    BY <2>1, TreeCases DEF Tree
  <2>3. BuildBody(f, x) = BuildBody(g, x)
    <3>1. CASE x.op = "field"
      BY <3>1, BuildBodyIs
    <3>2. CASE x.op = "expansion"
      BY <3>2, BuildBodyIs
    <3>3. CASE x.op = "keyword"
      BY <3>3, BuildBodyIs
    <3> QED
      BY <2>2, <3>1, <3>2, <3>3
  <2> QED
    BY <2>1, <2>3
<1>6. \A f, g \in F : \A k \in 1 .. K :
        (\A y \in level[k - 1] : f[y] = g[y]) => \A x \in level[k] : Step[f][x] = Step[g][x]
  <2> SUFFICES ASSUME NEW f \in F, NEW g \in F, NEW k \in 1 .. K,
                      \A y \in level[k - 1] : f[y] = g[y], NEW x \in level[k]
               PROVE  Step[f][x] = Step[g][x]
    OBVIOUS
  <2>1. k \in 0 .. K /\ k - 1 \in 0 .. K /\ k \in Nat /\ x \in Tree(k) /\ x \in Parsed
    BY <1>2
  <2>2. \A y \in Tree(k - 1) : f[y] = g[y]
    BY <2>1
  <2>3. BuildBody(f, x) = BuildBody(g, x)
    <3>1. CASE x.op = "field"
      BY <3>1, BuildBodyIs
    <3>2. CASE x.op = "expansion"
      BY <3>2, BuildBodyIs
    <3>3. CASE x.op = "keyword"
      BY <3>3, BuildBodyIs
    <3>4. CASE x.op = "not" /\ x.arg \in Tree(k - 1)
      <4> DEFINE r == f[x.arg]
                 q == g[x.arg]
      <4>1. r = q
        BY <2>2, <3>4
      <4> HIDE DEF r, q
      <4>2. /\ BuildBody(f, x) = IF r.ok THEN Ok([op |-> "not", arg |-> r.val]) ELSE r
            /\ BuildBody(g, x) = IF q.ok THEN Ok([op |-> "not", arg |-> q.val]) ELSE q
        BY <3>4, BuildBodyIs DEF r, q
      <4> QED
        BY <4>1, <4>2
    <3>5. CASE Group(x) /\ x.args \in Seq(Tree(k - 1))
      <4> DEFINE r == Map(f, x.args)
                 q == Map(g, x.args)
      <4>1. r = q
        BY <2>2, <3>5 DEF Map
      <4> HIDE DEF r, q
      <4>2. /\ BuildBody(f, x) = IF AllOk(r).ok THEN Ok([x EXCEPT !.args = AllOk(r).val]) ELSE AllOk(r)
            /\ BuildBody(g, x) = IF AllOk(q).ok THEN Ok([x EXCEPT !.args = AllOk(q).val]) ELSE AllOk(q)
        BY <3>5, BuildBodyIs DEF r, q
      <4> QED
        BY <4>1, <4>2
    <3> QED
      BY <2>1, <3>1, <3>2, <3>3, <3>4, <3>5, TreeCases DEF Tree, Group
  <2> QED
    BY <2>1, <2>3
<1>7. PICK f \in F : f = Step[f]
  <2> HIDE DEF F, Step, K, level
  <2>1. ByLevel(K, Parsed, level, F, Step)
    BY <1>2, <1>4, <1>5, <1>6 DEF ByLevel
  <2> QED
    BY <2>1, RecursionExists
<1>8. f = [n \in Parsed |-> IF BuildBody(f, n) \in Results THEN BuildBody(f, n) ELSE none]
  BY <1>7
<1>9. ASSUME NEW k \in 0 .. MaxHeight, NEW n \in Tree(k), NEW r, BuiltAt(k, n, r)
      PROVE  r \in Results
  <2>1. IR(k + 1) \subseteq IRs
    <3>1. k + 1 \in 0 .. MaxHeight + 1
      BY Heights
    <3> QED
      BY <3>1, Heights
  <2>2. CASE r = Ok(r.val) /\ r.val \in IRs
    <3>1. \A x \in IRs : Ok(x) \in Results
      BY DEF Ok, Results
    <3> QED
      BY <2>2, <3>1
  <2>3. CASE r = Err("fieldless value")
    BY <2>3 DEF Results, Err
  <2> QED
    BY <1>9, <2>1, <2>2, <2>3 DEF BuiltAt
<1>10. \A k \in 0 .. MaxHeight : \A n \in Tree(k) :
         BuiltAt(k, n, BuildBody(f, n)) => f[n] = BuildBody(f, n)
  BY <1>8, <1>9, Heights
<1>11. \A k \in 0 .. MaxHeight : \A n \in Tree(k) : f[n] = BuildBody(f, n)
  BY <1>10, BuiltByLevel
<1>12. \A n \in Parsed : f[n] = BuildBody(f, n)
  BY <1>11, Heights
<1>13. Builder(f)
  BY <1>8, <1>12
<1>14. Builder(BuildIR)
  <2> HIDE DEF Builder
  <2> QED
    BY <1>1, <1>13
<1>15. \A k \in 0 .. MaxHeight : \A n \in Tree(k) : BuildIR[n] = BuildBody(BuildIR, n)
  <2>1. BuildIR = [n \in Parsed |-> BuildBody(BuildIR, n)]
    BY <1>14
  <2>2. \A n \in Parsed : BuildIR[n] = BuildBody(BuildIR, n)
    BY <2>1
  <2> QED
    BY <2>2, Heights
<1>16. MaxHeight \in 0 .. MaxHeight /\ node \in Tree(MaxHeight)
  BY Heights
<1> QED
  BY <1>15, <1>16, BuiltByLevel

-----------------------------------------------------------------------------
(* _normalize_condition_ir and _normalize_not_ir. *)

\* A tree that is of two heights at the most: of what is normalised, and of the
\* levels that were needed for it.
Within(h, l) == IR(h) \cap IR(l)

LEMMA WithinMade ==
  ASSUME NEW h \in Nat, NEW l \in Nat
  PROVE  /\ \A node \in Fields : node \in Within(h, l)
         /\ \A node \in Within(h, l) : [op |-> "not", arg |-> node] \in Within(h + 1, l + 1)
         /\ \A op \in {"and", "or"} : \A s \in Seq(Within(h, l)) :
              s # <<>> => [op |-> op, args |-> s] \in Within(h + 1, l + 1)
<1>1. \A s \in Seq(Within(h, l)) : s \in Seq(IR(h)) /\ s \in Seq(IR(l))
  <2>1. Within(h, l) \subseteq IR(h) /\ Within(h, l) \subseteq IR(l)
    BY DEF Within
  <2> QED
    BY <2>1, Wider
<1> QED
  BY <1>1, TreeMade DEF Within, IR

LEMMA WithinWider ==
  ASSUME NEW h \in Nat, NEW l \in Nat, NEW g \in 0 .. h, NEW m \in 0 .. l
  PROVE  Within(g, m) \subseteq Within(h, l)
<1>1. IR(g) \subseteq IR(h) /\ IR(m) \subseteq IR(l)
  BY TreeWider DEF IR
<1> QED
  BY <1>1 DEF Within

LEMMA WithinCases ==
  ASSUME NEW h \in Nat, NEW l \in Nat, NEW node \in Within(h, l)
  PROVE  \/ node \in Fields /\ node.op = "field"
         \/ h # 0 /\ l # 0 /\ node.op = "not" /\ node.arg \in Within(h - 1, l - 1)
         \/ /\ h # 0 /\ l # 0 /\ Group(node) /\ node = [op |-> node.op, args |-> node.args]
            /\ node.args \in Seq(Within(h - 1, l - 1)) /\ node.args # <<>>
<1>1. Fields \subseteq Leaves /\ node \in TreesOver(Fields)[h] /\ node \in TreesOver(Fields)[l]
  BY Heights DEF Within, IR
<1>2. \A k \in Nat : node \in TreesOver(Fields)[k] =>
        \/ node \in Fields
        \/ k # 0 /\ node.op = "not" /\ node.arg \in TreesOver(Fields)[k - 1]
        \/ /\ k # 0 /\ Group(node) /\ node = [op |-> node.op, args |-> node.args]
           /\ node.args \in Seq(TreesOver(Fields)[k - 1]) /\ node.args # <<>>
  BY <1>1, TreeCases DEF Group
<1>3. node \in Fields => node.op = "field"
  BY DEF Fields
<1>4. CASE node \in Fields
  BY <1>3, <1>4
<1>5. CASE node.op = "not"
  BY <1>1, <1>2, <1>3, <1>5 DEF Within, IR, Group
<1>6. CASE Group(node)
  <2>1. node.op # "not" /\ node \notin Fields
    BY <1>3, <1>6 DEF Group
  <2>2. /\ h # 0 /\ l # 0 /\ node = [op |-> node.op, args |-> node.args] /\ node.args # <<>>
        /\ node.args \in Seq(IR(h - 1)) /\ node.args \in Seq(IR(l - 1))
    BY <1>1, <1>2, <2>1 DEF IR
  <2>3. node.args \in Seq(Within(h - 1, l - 1))
    BY <2>2 DEF Within
  <2> QED
    BY <1>6, <2>2, <2>3
<1> QED
  BY <1>1, <1>2, <1>4, <1>5, <1>6

\* The normal form of a tree of some height, or of its negation, for a number of
\* levels.
NormalOf(levels, height, node, result) ==
  \/ /\ levels # 0 /\ result = Ok(result.val)
     /\ result.val \in Within(height, levels - 1) /\ IsNormal(result.val)
     /\ \A event : IsTrue(result.val, event) <=> IsTrue(node, event)
     /\ Clean(node) => Clean(result.val)
     /\ node.op = "field" => result.val = node
     /\ node.op = "not" /\ node.arg.op = "field" => result.val.op = "not"
     /\ Group(node) => result.val.op = node.op
  \/ result = Err("condition too deep")

NotOf(levels, height, node, result) ==
  \/ /\ levels # 0 /\ result = Ok(result.val)
     /\ result.val \in Within(height + 1, levels) /\ IsNormal(result.val)
     /\ \A event : IsTrue(result.val, event) <=> ~ IsTrue(node, event)
     /\ Clean(node) => Clean(result.val)
     /\ node.op = "field" => result.val.op = "not"
     /\ node.op = "not" /\ node.arg.op = "field" => result.val.op = "field"
     /\ Group(node) => result.val.op = Dual(node.op)
  \/ result = Err("condition too deep")

NormalTable(levels, table) ==
  /\ \A h \in 0 .. MaxHeight + 1 : \A node \in IR(h) : NormalOf(levels, h, node, table.ir[node])
  /\ \A h \in 0 .. MaxHeight : \A node \in IR(h) : NotOf(levels, h, node, table.not[node])

Opened(S, op, s) == \A i \in DOMAIN s : s[i].op = op => s[i].args \in Seq(S)

InFlat(op, s, x) ==
  \E child \in Range(s) : IF child.op = op THEN x \in Range(child.args) ELSE x = child

\* Flattening puts the children of the groups in the place of these.
LEMMA FlattenIs ==
  ASSUME NEW S, NEW op, NEW s \in Seq(S), Opened(S, op, s)
  PROVE  /\ Flatten(op, s) \in Seq(S)
         /\ \A x : x \in Range(Flatten(op, s)) <=> InFlat(op, s, x)
<1> DEFINE parts == [i \in DOMAIN s |-> IF s[i].op = op THEN s[i].args ELSE <<s[i]>>]
<1>1. Len(s) \in Nat /\ DOMAIN s = 1 .. Len(s) /\ \A i \in DOMAIN s : s[i] \in S
  OBVIOUS
<1>2. \A i \in DOMAIN s : parts[i] \in Seq(S)
  BY <1>1 DEF Opened
<1>3. parts = [i \in 1 .. Len(s) |-> parts[i]]
  BY <1>1
<1>4. \A i \in DOMAIN s : Range(parts[i]) = IF s[i].op = op THEN Range(s[i].args) ELSE {s[i]}
  <2>1. \A x : Range(<<x>>) = {x}
    BY DEF Range
  <2> QED
    BY <2>1
<1>5. DOMAIN parts = DOMAIN s
  OBVIOUS
<1>6. Flatten(op, s) = FlattenSeq(parts)
  BY Zenon DEF Flatten
<1> HIDE DEF parts
<1>7. parts \in Seq(Seq(S))
  BY <1>1, <1>2, <1>3, Listed
<1>8. /\ FlattenSeq(parts) \in Seq(S)
      /\ Range(FlattenSeq(parts)) = UNION { Range(parts[i]) : i \in DOMAIN parts }
  BY <1>7, Flattened
<1>9. ASSUME NEW x PROVE x \in Range(Flatten(op, s)) <=> InFlat(op, s, x)
  <2>1. x \in Range(Flatten(op, s)) <=> \E i \in DOMAIN s : x \in Range(parts[i])
    BY <1>5, <1>6, <1>8
  <2>2. \A i \in DOMAIN s :
          x \in Range(parts[i]) <=> IF s[i].op = op THEN x \in Range(s[i].args) ELSE x = s[i]
    BY <1>4
  <2>3. (\E child \in Range(s) : IF child.op = op THEN x \in Range(child.args) ELSE x = child)
          <=> \E i \in DOMAIN s : IF s[i].op = op THEN x \in Range(s[i].args) ELSE x = s[i]
    BY DEF Range
  <2> QED
    BY <2>1, <2>2, <2>3 DEF InFlat
<1> QED
  BY <1>6, <1>8, <1>9

LEMMA WithinTrees ==
  ASSUME NEW h \in 0 .. MaxHeight + 1, NEW l \in Nat
  PROVE  /\ Within(h, l) \subseteq Trees /\ Within(h, l) \subseteq IRs
         /\ \A s \in Seq(Within(h, l)) : Range(s) \subseteq Trees /\ Range(s) \subseteq Within(h, l)
<1>1. Within(h, l) \subseteq Trees /\ Within(h, l) \subseteq IRs
  BY Heights DEF Within
<1>2. \A s \in Seq(Within(h, l)) : Range(s) \subseteq Within(h, l)
  BY DEF Range
<1> QED
  BY <1>1, <1>2

\* A group of different normal trees none of which has its operator is normal.
LEMMA GroupNormal ==
  ASSUME NEW h \in 0 .. MaxHeight, NEW l \in Nat, NEW op \in {"and", "or"},
         NEW s \in Seq(Within(h, l)), s # <<>>, IsInjective(s),
         \A x \in Range(s) : IsNormal(x) /\ x.op # op
  PROVE  LET tree == [op |-> op, args |-> s]
         IN  /\ tree \in Within(h + 1, l + 1) /\ IsNormal(tree)
             /\ \A event : IsTrue(tree, event) <=>
                  IF op = "and" THEN \A x \in Range(s) : IsTrue(x, event)
                                ELSE \E x \in Range(s) : IsTrue(x, event)
             /\ (\A x \in Range(s) : Clean(x)) => Clean(tree)
<1> DEFINE tree == [op |-> op, args |-> s]
<1>1. h \in Nat /\ h + 1 \in 0 .. MaxHeight + 1 /\ l + 1 \in Nat
  BY Heights
<1>2. tree \in Within(h + 1, l + 1) /\ tree \in Trees
  BY <1>1, WithinMade, WithinTrees
<1>3. tree.op = op /\ tree.args = s /\ Group(tree)
  BY DEF Group
<1> HIDE DEF tree
<1>4. IsNormal(tree)
  BY <1>2, <1>3, NormalTree
<1>5. ASSUME NEW event
      PROVE  IsTrue(tree, event) <=>
               IF op = "and" THEN \A x \in Range(s) : IsTrue(x, event)
                             ELSE \E x \in Range(s) : IsTrue(x, event)
  BY <1>2, <1>3, TruthIs
<1>6. (\A x \in Range(s) : Clean(x)) => Clean(tree)
  BY <1>2, <1>3, CleanTree
<1> QED
  BY <1>2, <1>4, <1>5, <1>6 DEF tree

\* Flattening and dropping equal children leaves a normal tree of the same truth.
LEMMA FlatExact ==
  ASSUME NEW h \in 0 .. MaxHeight, NEW l \in Nat, NEW op \in {"and", "or"},
         NEW s \in Seq(Within(h, l)), s # <<>>, \A x \in Range(s) : IsNormal(x)
  PROVE  LET tree == [op |-> op, args |-> Dedupe(Flatten(op, s))]
         IN  /\ tree \in Within(h + 1, l + 1) /\ IsNormal(tree)
             /\ \A event : IsTrue(tree, event) <=>
                  IF op = "and" THEN \A x \in Range(s) : IsTrue(x, event)
                                ELSE \E x \in Range(s) : IsTrue(x, event)
             /\ (\A x \in Range(s) : Clean(x)) => Clean(tree)
<1> DEFINE W == Within(h, l)
           flat == Flatten(op, s)
           d == Dedupe(flat)
           tree == [op |-> op, args |-> d]
<1>1. h \in Nat /\ h \in 0 .. MaxHeight + 1
  BY Heights
<1>2. Range(s) \subseteq W /\ W \subseteq Trees /\ Range(s) \subseteq Trees
  BY <1>1, WithinTrees
<1>3. ASSUME NEW c \in W, c.op = op
      PROVE  c.args \in Seq(W) /\ c.args # <<>> /\ Group(c)
  <2>1. Group(c) /\ c.op # "not" /\ c.op # "field"
    BY <1>3 DEF Group
  <2>2. h # 0 /\ l # 0 /\ c.args \in Seq(Within(h - 1, l - 1)) /\ c.args # <<>>
    BY <1>1, <2>1, WithinCases
  <2>3. Within(h - 1, l - 1) \subseteq W
    <3>1. h - 1 \in 0 .. h /\ l - 1 \in 0 .. l
      BY <1>1, <2>2
    <3> QED
      BY <1>1, <3>1, WithinWider
  <2> QED
    BY <2>1, <2>2, <2>3, Wider
<1>4. \A i \in DOMAIN s : s[i] \in W /\ s[i] \in Range(s)
  BY <1>2 DEF Range
<1> HIDE DEF W
<1>5. /\ flat \in Seq(W)
      /\ \A x : x \in Range(flat) <=>
           \E c \in Range(s) : IF c.op = op THEN x \in Range(c.args) ELSE x = c
  <2>1. s \in Seq(W) /\ \A i \in DOMAIN s : s[i].op = op => s[i].args \in Seq(W) /\ s[i].args # <<>>
    BY <1>3, <1>4 DEF W
  <2>2. Opened(W, op, s)
    BY <2>1 DEF Opened
  <2>3. /\ Flatten(op, s) \in Seq(W)
        /\ \A x : x \in Range(Flatten(op, s)) <=> InFlat(op, s, x)
    <3>1. s \in Seq(W)
      BY <2>1
    <3> QED
      BY <2>2, <3>1, FlattenIs
  <2> QED
    BY <2>3, Zenon DEF flat, InFlat
<1>6. ASSUME NEW c \in W, c.op = op PROVE Range(c.args) # {}
  <2>1. c.args \in Seq(W) /\ c.args # <<>>
    BY <1>3, <1>6
  <2>2. 1 \in DOMAIN c.args
    BY <2>1
  <2> QED
    BY <2>2 DEF Range
<1>7. flat # <<>>
  <2>1. PICK c : c \in Range(s)
    BY <1>4 DEF Range
  <2>2. PICK x : x \in Range(flat)
    BY <1>2, <1>5, <1>6, <2>1
  <2> QED
    BY <2>2 DEF Range
<1> HIDE DEF flat
<1>8. d \in Seq(W) /\ Range(d) = Range(flat) /\ d # <<>> /\ IsInjective(d)
  BY <1>5, <1>7, Deduped
<1> HIDE DEF d
<1>9. ASSUME NEW x \in Range(d) PROVE IsNormal(x) /\ x.op # op
  <2>1. PICK c \in Range(s) : IF c.op = op THEN x \in Range(c.args) ELSE x = c
    BY <1>5, <1>8
  <2>2. CASE c.op = op
    BY <1>2, <1>3, <2>1, <2>2, NormalTree
  <2> QED
    BY <2>1, <2>2
<1>10. /\ tree \in Within(h + 1, l + 1) /\ IsNormal(tree)
       /\ \A event : IsTrue(tree, event) <=>
            IF op = "and" THEN \A x \in Range(d) : IsTrue(x, event)
                          ELSE \E x \in Range(d) : IsTrue(x, event)
       /\ (\A x \in Range(d) : Clean(x)) => Clean(tree)
  <2>1. d \in Seq(Within(h, l))
    BY <1>8 DEF W
  <2> QED
    BY <1>8, <1>9, <2>1, GroupNormal
<1> HIDE DEF tree
<1>11. ASSUME NEW event
       PROVE  IsTrue(tree, event) <=>
                IF op = "and" THEN \A x \in Range(s) : IsTrue(x, event)
                              ELSE \E x \in Range(s) : IsTrue(x, event)
  <2>1. CASE op = "and"
    <3>1. \A c \in Range(s) : c.op = op =>
            (IsTrue(c, event) <=> \A x \in Range(c.args) : IsTrue(x, event))
      BY <1>2, <2>1, TruthIs
    <3>2. (\A x \in Range(d) : IsTrue(x, event)) <=> \A c \in Range(s) : IsTrue(c, event)
      BY <1>5, <1>8, <3>1
    <3> QED
      BY <1>10, <2>1, <3>2
  <2>2. CASE op = "or"
    <3>1. \A c \in Range(s) : c.op = op =>
            (IsTrue(c, event) <=> \E x \in Range(c.args) : IsTrue(x, event))
      BY <1>2, <2>2, TruthIs
    <3>2. (\E x \in Range(d) : IsTrue(x, event)) <=> \E c \in Range(s) : IsTrue(c, event)
      BY <1>5, <1>8, <3>1
    <3> QED
      BY <1>10, <2>2, <3>2
  <2> QED
    BY <2>1, <2>2
<1>12. ASSUME \A x \in Range(s) : Clean(x) PROVE Clean(tree)
  <2>1. \A c \in Range(s) : c.op = op => \A x \in Range(c.args) : Clean(x)
    BY <1>2, <1>3, <1>12, CleanTree
  <2>2. \A x \in Range(d) : Clean(x)
    BY <1>5, <1>8, <1>12, <2>1
  <2> QED
    BY <1>10, <2>2
<1> QED
  BY <1>10, <1>11, <1>12 DEF tree, d, flat

LEMMA NormalizeIRIs ==
  ASSUME NEW below, NEW node
  PROVE  /\ node.op = "field" => NormalizeIR(below, node) = Ok(node)
         /\ node.op = "not" => NormalizeIR(below, node) = below.not[node.arg]
         /\ Group(node) =>
              LET children == AllOk(Map(below.ir, node.args))
              IN  NormalizeIR(below, node) =
                    IF children.ok
                      THEN Ok([node EXCEPT !.args = Dedupe(Flatten(node.op, children.val))])
                      ELSE children
BY Zenon DEF NormalizeIR, Bind, Group

LEMMA NormalizeNotIs ==
  ASSUME NEW below, NEW child, NEW result, result = NormalizeIR(below, child)
  PROVE  /\ ~ result.ok => NormalizeNot(below, child) = result
         /\ result.ok /\ result.val.op = "field" =>
              NormalizeNot(below, child) = Ok([op |-> "not", arg |-> result.val])
         /\ result.ok /\ result.val.op = "not" =>
              NormalizeNot(below, child) = below.ir[result.val.arg]
         /\ result.ok /\ Group(result.val) =>
              LET children == AllOk(Map(below.not, result.val.args))
              IN  NormalizeNot(below, child) =
                    IF children.ok
                      THEN Ok([op |-> Dual(result.val.op), args |-> Dedupe(children.val)])
                      ELSE children
BY Zenon DEF NormalizeNot, Bind, Group

\* The results of the children of a group.
LEMMA ChildrenOk ==
  ASSUME NEW s, NEW n \in Nat, DOMAIN s = 1 .. n, NEW f, NEW W,
         \A i \in 1 .. n : \/ f[s[i]] = Ok(f[s[i]].val) /\ f[s[i]].val \in W
                           \/ f[s[i]] = Err("condition too deep")
  PROVE  LET children == AllOk(Map(f, s))
         IN  \/ /\ children.ok /\ children.val \in Seq(W) /\ DOMAIN children.val = 1 .. n
                /\ \A i \in 1 .. n : children.val[i] = f[s[i]].val /\ f[s[i]] = Ok(f[s[i]].val)
             \/ ~ children.ok /\ children = Err("condition too deep")
<1> DEFINE r == Map(f, s)
           vals == [i \in 1 .. n |-> r[i].val]
<1>1. DOMAIN r = 1 .. n /\ \A i \in 1 .. n : r[i] = f[s[i]]
  BY DEF Map
<1> HIDE DEF r
<1>2. \A x : Ok(x).ok /\ Ok(x).val = x
  BY DEF Ok
<1>3. CASE \A i \in 1 .. n : r[i].ok
  <2>1. ASSUME NEW i \in 1 .. n PROVE r[i] = Ok(r[i].val) /\ r[i].val \in W
    <3>1. (r[i] = Ok(r[i].val) /\ r[i].val \in W) \/ r[i] = Err("condition too deep")
      BY <1>1
    <3> QED
      BY <1>3, <3>1, Refused
  <2>2. AllOk(r) = Ok(vals)
    BY <1>1, <1>3, AllOkResult
  <2>3. vals = [i \in 1 .. n |-> vals[i]] /\ \A i \in 1 .. n : vals[i] \in W
    BY <2>1
  <2>4. \A i \in 1 .. n : vals[i] = r[i].val
    OBVIOUS
  <2> HIDE DEF vals
  <2>5. vals \in Seq(W) /\ DOMAIN vals = 1 .. n
    BY <2>3, Listed
  <2> DEFINE children == AllOk(Map(f, s))
  <2>6. children = Ok(vals)
    BY <2>2 DEF r
  <2> HIDE DEF children
  <2>7. children.ok /\ children.val = vals
    BY <1>2, <2>6
  <2>8. \A i \in 1 .. n : vals[i] = f[s[i]].val /\ f[s[i]] = Ok(f[s[i]].val)
    BY <1>1, <2>1, <2>4
  <2> QED
    BY <2>5, <2>7, <2>8 DEF children
<1>4. CASE \E i \in 1 .. n : ~ r[i].ok
  <2>1. PICK i \in 1 .. n : ~ r[i].ok /\ AllOk(r) = r[i]
    BY <1>1, <1>4, AllOkResult
  <2>2. r[i] # Ok(r[i].val)
    BY <1>2, <2>1
  <2>3. r[i] = Err("condition too deep")
    BY <1>1, <2>2
  <2> QED
    BY <2>1, <2>3 DEF r
<1> QED
  BY <1>3, <1>4

LEMMA NormalizeIRExact ==
  ASSUME NEW k \in 1 .. MaxDepth + 1, NEW below, NormalTable(k - 1, below),
         NEW h \in 0 .. MaxHeight + 1, NEW node \in IR(h)
  PROVE  NormalOf(k, h, node, NormalizeIR(below, node))
<1>1. /\ k \in Nat /\ k - 1 \in Nat /\ k # 0 /\ h \in Nat /\ node \in Trees
      /\ MaxHeight \in Nat /\ \A x : Ok(x).val = x
  BY Heights DEF Ok
<1>2. CASE node.op = "field"
  <2>1. node \in Fields
    <3>1. node \in Within(h, h)
      BY DEF Within
    <3> QED
      BY <1>1, <1>2, <3>1, WithinCases DEF Group
  <2>2. node \in Within(h, k - 1) /\ IsNormal(node)
    BY <1>1, <1>2, <2>1, WithinMade, NormalTree DEF Leaf
  <2>3. NormalizeIR(below, node) = Ok(node)
    BY <1>2, NormalizeIRIs
  <2> QED
    BY <1>1, <1>2, <2>2, <2>3 DEF NormalOf, Group
<1>3. CASE node.op = "not"
  <2> DEFINE r == below.not[node.arg]
  <2>1. NormalizeIR(below, node) = r
    BY <1>3, NormalizeIRIs
  <2>2. h # 0 /\ h - 1 \in 0 .. MaxHeight /\ node.arg \in IR(h - 1)
    <3>1. node \in Within(h, h)
      BY DEF Within
    <3>2. h # 0 /\ node.arg \in Within(h - 1, h - 1)
      BY <1>1, <1>3, <3>1, WithinCases DEF Group
    <3> QED
      BY <1>1, <3>2 DEF Within
  <2>3. NotOf(k - 1, h - 1, node.arg, r)
    BY <2>2 DEF NormalTable
  <2> HIDE DEF r
  <2>4. CASE r = Err("condition too deep")
    BY <2>1, <2>4 DEF NormalOf
  <2>5. CASE /\ r = Ok(r.val) /\ r.val \in Within(h, k - 1) /\ IsNormal(r.val)
             /\ \A event : IsTrue(r.val, event) <=> ~ IsTrue(node.arg, event)
             /\ Clean(node.arg) => Clean(r.val)
             /\ node.arg.op = "field" => r.val.op = "not"
    <3>1. \A event : IsTrue(r.val, event) <=> IsTrue(node, event)
      BY <1>1, <1>3, <2>5, TruthIs
    <3>2. Clean(node) => Clean(r.val)
      BY <1>1, <1>3, <2>5, CleanTree
    <3> QED
      BY <1>1, <1>3, <2>1, <2>5, <3>1, <3>2 DEF NormalOf, Group
  <2>6. h - 1 + 1 = h
    BY <1>1
  <2> QED
    BY <2>3, <2>4, <2>5, <2>6 DEF NotOf
<1>4. CASE Group(node)
  <2> DEFINE n == Len(node.args)
             W == Within(h - 1, k - 2)
             children == AllOk(Map(below.ir, node.args))
             s == children.val
             tree == [op |-> node.op, args |-> Dedupe(Flatten(node.op, s))]
  <2>1. /\ h # 0 /\ h - 1 \in 0 .. MaxHeight /\ h - 1 \in 0 .. MaxHeight + 1
        /\ node.args \in Seq(IR(h - 1)) /\ node.args # <<>>
        /\ node = [op |-> node.op, args |-> node.args]
    <3>1. node \in Within(h, h)
      BY DEF Within
    <3>2. node.op # "field" /\ node.op # "not"
      BY <1>4 DEF Group
    <3>3. /\ h # 0 /\ node.args \in Seq(Within(h - 1, h - 1)) /\ node.args # <<>>
          /\ node = [op |-> node.op, args |-> node.args]
      BY <1>1, <3>1, <3>2, WithinCases
    <3> QED
      BY <1>1, <3>3 DEF Within
  <2>2. /\ n \in Nat /\ DOMAIN node.args = 1 .. n /\ n # 0
        /\ \A i \in 1 .. n : node.args[i] \in IR(h - 1)
    BY <2>1
  <2> HIDE DEF n
  <2>3. \A i \in 1 .. n : NormalOf(k - 1, h - 1, node.args[i], below.ir[node.args[i]])
    BY <2>1, <2>2 DEF NormalTable
  <2>4. \/ /\ children.ok /\ s \in Seq(W) /\ DOMAIN s = 1 .. n
           /\ \A i \in 1 .. n : /\ s[i] = below.ir[node.args[i]].val
                                /\ below.ir[node.args[i]] = Ok(below.ir[node.args[i]].val)
        \/ ~ children.ok /\ children = Err("condition too deep")
    <3>1. k - 1 - 1 = k - 2
      BY <1>1
    <3>2. \A i \in 1 .. n : \/ /\ below.ir[node.args[i]] = Ok(below.ir[node.args[i]].val)
                               /\ below.ir[node.args[i]].val \in W
                            \/ below.ir[node.args[i]] = Err("condition too deep")
      BY <2>3, <3>1 DEF NormalOf
    <3> HIDE DEF W
    <3> QED
      BY <2>2, <3>2, ChildrenOk
  <2>5. CASE ~ children.ok /\ children = Err("condition too deep")
    BY <1>4, <2>5, NormalizeIRIs DEF NormalOf
  <2>6. CASE /\ children.ok /\ s \in Seq(W) /\ DOMAIN s = 1 .. n
             /\ \A i \in 1 .. n : /\ s[i] = below.ir[node.args[i]].val
                                  /\ below.ir[node.args[i]] = Ok(below.ir[node.args[i]].val)
    <3>1. NormalizeIR(below, node) = Ok(tree)
      <4>1. NormalizeIR(below, node) = Ok([node EXCEPT !.args = Dedupe(Flatten(node.op, s))])
        BY <1>4, <2>6, NormalizeIRIs
      <4> DEFINE d == Dedupe(Flatten(node.op, s))
      <4> HIDE DEF d
      <4>2. [node EXCEPT !.args = d] = [op |-> node.op, args |-> d]
        BY <2>1
      <4> QED
        BY <4>1, <4>2 DEF d
    <3> HIDE DEF children
    <3>2. ASSUME NEW i \in 1 .. n
          PROVE  /\ k - 1 # 0 /\ IsNormal(s[i])
                 /\ \A event : IsTrue(s[i], event) <=> IsTrue(node.args[i], event)
                 /\ Clean(node.args[i]) => Clean(s[i])
      <4> DEFINE r == below.ir[node.args[i]]
      <4>1. r = Ok(r.val) /\ s[i] = r.val /\ NormalOf(k - 1, h - 1, node.args[i], r)
        BY <2>3, <2>6
      <4> HIDE DEF r
      <4>2. r # Err("condition too deep")
        <5>1. Ok(r.val).ok
          BY DEF Ok
        <5> QED
          BY <4>1, <5>1, Refused
      <4> QED
        BY <4>1, <4>2 DEF NormalOf
    <3>3. 1 \in 1 .. n /\ k - 1 # 0 /\ k - 2 \in Nat /\ k - 2 + 1 = k - 1 /\ h - 1 + 1 = h
      BY <1>1, <2>1, <2>2, <3>2
    <3>4. Range(s) = { s[i] : i \in 1 .. n } /\ Range(node.args) = { node.args[i] : i \in 1 .. n }
      BY <2>2, <2>6 DEF Range
    <3>5. s # <<>> /\ \A x \in Range(s) : IsNormal(x)
      <4>1. \A x \in Range(s) : IsNormal(x)
        BY <3>2, <3>4
      <4>2. DOMAIN s # {}
        BY <2>6, <3>3
      <4> HIDE DEF s
      <4> QED
        BY <4>1, <4>2
    <3>6. node.op \in {"and", "or"}
      BY <1>4 DEF Group
    <3>7. s \in Seq(Within(h - 1, k - 2))
      BY <2>6
    <3> HIDE DEF s, W
    <3>8. /\ tree \in Within(h - 1 + 1, k - 2 + 1) /\ IsNormal(tree)
          /\ \A event : IsTrue(tree, event) <=>
               IF node.op = "and" THEN \A x \in Range(s) : IsTrue(x, event)
                                  ELSE \E x \in Range(s) : IsTrue(x, event)
          /\ (\A x \in Range(s) : Clean(x)) => Clean(tree)
      BY <2>1, <3>3, <3>5, <3>6, <3>7, FlatExact
    <3>9. tree.op = node.op
      OBVIOUS
    <3> HIDE DEF tree
    <3>10. \A event : IsTrue(tree, event) <=> IsTrue(node, event)
      <4> SUFFICES ASSUME NEW event PROVE IsTrue(tree, event) <=> IsTrue(node, event)
        OBVIOUS
      <4>1. CASE node.op = "and"
        <5>1. IsTrue(node, event) <=> \A x \in Range(node.args) : IsTrue(x, event)
          BY <1>1, <4>1, TruthIs
        <5> QED
          BY <3>2, <3>4, <3>8, <4>1, <5>1
      <4>2. CASE node.op = "or"
        <5>1. IsTrue(node, event) <=> \E x \in Range(node.args) : IsTrue(x, event)
          BY <1>1, <4>2, TruthIs
        <5> QED
          BY <3>2, <3>4, <3>8, <4>2, <5>1
      <4> QED
        BY <3>6, <4>1, <4>2
    <3>11. Clean(node) => Clean(tree)
      <4>1. Clean(node) => \A i \in 1 .. n : Clean(node.args[i])
        BY <1>1, <1>4, <3>4, CleanTree
      <4> QED
        BY <3>2, <3>4, <3>8, <4>1
    <3> QED
      BY <1>1, <3>1, <3>3, <3>6, <3>8, <3>9, <3>10, <3>11 DEF NormalOf
  <2> QED
    BY <2>4, <2>5, <2>6
<1> QED
  BY <1>1, <1>2, <1>3, <1>4, WithinCases DEF Within

LEMMA NormalizeNotExact ==
  ASSUME NEW k \in 1 .. MaxDepth + 1, NEW below, NormalTable(k - 1, below),
         NEW h \in 0 .. MaxHeight, NEW child \in IR(h)
  PROVE  NotOf(k, h, child, NormalizeNot(below, child))
<1> DEFINE r == NormalizeIR(below, child)
           v == r.val
           result == NormalizeNot(below, child)
<1>1. /\ k \in Nat /\ k - 1 \in Nat /\ k # 0 /\ h \in Nat /\ child \in Trees
      /\ h \in 0 .. MaxHeight + 1 /\ h + 1 \in 0 .. MaxHeight + 1
      /\ MaxHeight \in Nat /\ \A x : Ok(x).val = x /\ Ok(x).ok
  BY Heights DEF Ok
<1>2. NormalOf(k, h, child, r)
  BY <1>1, NormalizeIRExact
<1>3. /\ ~ r.ok => result = r
      /\ r.ok /\ v.op = "field" => result = Ok([op |-> "not", arg |-> v])
      /\ r.ok /\ v.op = "not" => result = below.ir[v.arg]
      /\ r.ok /\ Group(v) =>
           LET children == AllOk(Map(below.not, v.args))
           IN  result = IF children.ok
                          THEN Ok([op |-> Dual(v.op), args |-> Dedupe(children.val)])
                          ELSE children
  BY NormalizeNotIs
<1>4. (child.op = "not" => child.arg \in Trees) /\ (Leaf(child) \/ child.op = "not" \/ Group(child))
  BY <1>1, Parts
<1> SUFFICES NotOf(k, h, child, result)
  OBVIOUS
<1> HIDE DEF r, result
<1>5. CASE r = Err("condition too deep")
  BY <1>3, <1>5, Refused DEF NotOf
<1>6. CASE r # Err("condition too deep")
  <2>1. /\ r = Ok(v) /\ r.ok /\ v \in Within(h, k - 1) /\ IsNormal(v)
        /\ \A event : IsTrue(v, event) <=> IsTrue(child, event)
        /\ Clean(child) => Clean(v)
        /\ child.op = "field" => v = child
        /\ child.op = "not" /\ child.arg.op = "field" => v.op = "not"
        /\ Group(child) => v.op = child.op
    BY <1>1, <1>2, <1>6 DEF NormalOf
  <2>2. v \in Trees
    BY <1>1, <2>1, WithinTrees
  <2> HIDE DEF v
  <2>3. CASE v.op = "field"
    <3> DEFINE tree == [op |-> "not", arg |-> v]
    <3>1. result = Ok(tree)
      BY <1>3, <2>1, <2>3
    <3>2. tree.op = "not" /\ tree.arg = v
      OBVIOUS
    <3>3. k - 1 + 1 = k
      BY <1>1
    <3>4. tree \in Within(h + 1, k)
      BY <1>1, <2>1, <3>3, WithinMade
    <3>5. tree \in Trees
      BY <1>1, <3>4, WithinTrees
    <3> HIDE DEF tree
    <3>6. IsNormal(tree) /\ (Clean(child) => Clean(tree))
      BY <2>1, <2>3, <3>2, <3>5, NormalTree, CleanTree
    <3>7. \A event : IsTrue(tree, event) <=> ~ IsTrue(child, event)
      BY <2>1, <3>2, <3>5, TruthIs
    <3>8. ~ Group(child) /\ ~ (child.op = "not" /\ child.arg.op = "field")
      BY <2>1, <2>3 DEF Group
    <3> QED
      BY <1>1, <3>1, <3>2, <3>4, <3>6, <3>7, <3>8 DEF NotOf
  <2>4. CASE v.op = "not"
    <3> DEFINE q == below.ir[v.arg]
    <3>1. result = q
      BY <1>3, <2>1, <2>4
    <3>2. h # 0 /\ h - 1 \in 0 .. MaxHeight + 1 /\ v.arg \in IR(h - 1)
      <4>1. h # 0 /\ v.arg \in Within(h - 1, k - 1 - 1)
        BY <1>1, <2>1, <2>4, WithinCases DEF Group
      <4> QED
        BY <1>1, <4>1 DEF Within
    <3>3. NormalOf(k - 1, h - 1, v.arg, q)
      BY <3>2 DEF NormalTable
    <3> HIDE DEF q
    <3>4. v.arg.op = "field" /\ v.arg \in Trees
      BY <2>1, <2>2, <2>4, NormalTree, Parts
    <3>5. CASE q = Err("condition too deep")
      BY <3>1, <3>5 DEF NotOf
    <3>6. CASE q # Err("condition too deep")
      <4>1. /\ k - 1 # 0 /\ q = Ok(q.val) /\ q.val \in Within(h - 1, k - 1 - 1) /\ q.val = v.arg
            /\ IsNormal(q.val) /\ \A event : IsTrue(q.val, event) <=> IsTrue(v.arg, event)
        BY <3>3, <3>4, <3>6 DEF NormalOf
      <4>2. q.val \in Within(h + 1, k)
        <5>1. h - 1 \in 0 .. h + 1 /\ k - 1 - 1 \in 0 .. k /\ h + 1 \in Nat
          BY <1>1, <3>2, <4>1
        <5> QED
          BY <1>1, <4>1, <5>1, WithinWider
      <4>3. \A event : IsTrue(q.val, event) <=> ~ IsTrue(child, event)
        BY <2>1, <2>2, <2>4, <4>1, TruthIs
      <4>4. Clean(child) => Clean(q.val)
        BY <2>1, <2>2, <2>4, <4>1, CleanTree
      <4>5. child.op # "field" /\ ~ Group(child)
        BY <2>1, <2>4 DEF Group
      <4> QED
        BY <1>1, <3>1, <3>4, <4>1, <4>2, <4>3, <4>4, <4>5 DEF NotOf
    <3> QED
      BY <3>5, <3>6
  <2>5. CASE Group(v)
    <3> DEFINE n == Len(v.args)
               W == Within(h, k - 1)
               children == AllOk(Map(below.not, v.args))
               s == children.val
               tree == [op |-> Dual(v.op), args |-> Dedupe(s)]
    <3>1. /\ h # 0 /\ h - 1 \in 0 .. MaxHeight /\ h - 1 + 1 = h
          /\ v.args \in Seq(Within(h - 1, k - 1 - 1)) /\ v.args # <<>>
      <4>1. v.op # "field" /\ v.op # "not"
        BY <2>5 DEF Group
      <4> QED
        BY <1>1, <2>1, <4>1, WithinCases
    <3>2. /\ n \in Nat /\ DOMAIN v.args = 1 .. n /\ n # 0
          /\ \A i \in 1 .. n : v.args[i] \in IR(h - 1)
      BY <3>1 DEF Within
    <3> HIDE DEF n
    <3>3. \A i \in 1 .. n : NotOf(k - 1, h - 1, v.args[i], below.not[v.args[i]])
      BY <3>1, <3>2 DEF NormalTable
    <3>4. \/ /\ children.ok /\ s \in Seq(W) /\ DOMAIN s = 1 .. n
             /\ \A i \in 1 .. n : /\ s[i] = below.not[v.args[i]].val
                                  /\ below.not[v.args[i]] = Ok(below.not[v.args[i]].val)
          \/ ~ children.ok /\ children = Err("condition too deep")
      <4>1. \A i \in 1 .. n : \/ /\ below.not[v.args[i]] = Ok(below.not[v.args[i]].val)
                                 /\ below.not[v.args[i]].val \in W
                              \/ below.not[v.args[i]] = Err("condition too deep")
        BY <3>1, <3>3 DEF NotOf
      <4> HIDE DEF W
      <4> QED
        BY <3>2, <4>1, ChildrenOk
    <3>5. CASE ~ children.ok /\ children = Err("condition too deep")
      <4>1. result = children
        BY <1>3, <2>1, <2>5, <3>5
      <4> QED
        BY <3>5, <4>1 DEF NotOf
    <3>6. CASE /\ children.ok /\ s \in Seq(W) /\ DOMAIN s = 1 .. n
               /\ \A i \in 1 .. n : /\ s[i] = below.not[v.args[i]].val
                                    /\ below.not[v.args[i]] = Ok(below.not[v.args[i]].val)
      <4>1. result = Ok(tree)
        BY <1>3, <2>1, <2>5, <3>6
      <4> HIDE DEF children
      <4>2. ASSUME NEW i \in 1 .. n
            PROVE  /\ k - 1 # 0 /\ IsNormal(s[i])
                   /\ \A event : IsTrue(s[i], event) <=> ~ IsTrue(v.args[i], event)
                   /\ Clean(v.args[i]) => Clean(s[i])
                   /\ v.args[i].op = "field" => s[i].op = "not"
                   /\ v.args[i].op = "not" /\ v.args[i].arg.op = "field" => s[i].op = "field"
                   /\ Group(v.args[i]) => s[i].op = Dual(v.args[i].op)
        <5> DEFINE q == below.not[v.args[i]]
        <5>1. q = Ok(q.val) /\ s[i] = q.val /\ NotOf(k - 1, h - 1, v.args[i], q)
          BY <3>3, <3>6
        <5> HIDE DEF q
        <5>2. q # Err("condition too deep")
          BY <1>1, <5>1, Refused
        <5> QED
          BY <5>1, <5>2 DEF NotOf
      <4>3. 1 \in 1 .. n /\ k - 1 # 0
        BY <3>2, <4>2
      <4>4. Range(s) = { s[i] : i \in 1 .. n } /\ Range(v.args) = { v.args[i] : i \in 1 .. n }
        BY <3>2, <3>6 DEF Range
      <4>5. ASSUME NEW i \in 1 .. n PROVE s[i].op # Dual(v.op)
        <5> DEFINE c == v.args[i]
        <5>1. c \in Range(v.args) /\ Range(v.args) \subseteq Trees
          BY <2>2, <2>5, <4>4, Parts
        <5>2. c.op # v.op /\ IsNormal(c)
          BY <2>1, <2>2, <2>5, <5>1, NormalTree
        <5>3. c \in Trees /\ c.op \in {"field", "not", "and", "or"} /\ (c.op = "not" => c.arg.op = "field")
          <6>1. h - 1 \in Nat /\ c \in Within(h - 1, h - 1)
            BY <3>1, <3>2 DEF Within
          <6>2. c.op \in {"field", "not", "and", "or"}
            BY <6>1, WithinCases DEF Group
          <6> QED
            BY <5>1, <5>2, <6>2, NormalTree
        <5> HIDE DEF c
        <5>4. /\ c.op = "field" => s[i].op = "not"
              /\ c.op = "not" => s[i].op = "field"
              /\ Group(c) => s[i].op = Dual(c.op)
          BY <4>2, <5>3 DEF c
        <5> QED
          BY <2>5, <5>2, <5>3, <5>4 DEF Dual, Group
      <4>6. s \in Seq(Within(h, k - 1)) /\ s # <<>>
        <5>1. DOMAIN s # {}
          BY <3>6, <4>3
        <5>2. s \in Seq(Within(h, k - 1))
          BY <3>6
        <5> HIDE DEF s
        <5> QED
          BY <5>1, <5>2
      <4> DEFINE d == Dedupe(s)
      <4> HIDE DEF s
      <4>7. d \in Seq(Within(h, k - 1)) /\ Range(d) = Range(s) /\ d # <<>> /\ IsInjective(d)
        BY <4>6, Deduped
      <4>8. tree = [op |-> Dual(v.op), args |-> d]
        OBVIOUS
      <4> HIDE DEF d, tree
      <4>9. \A x \in Range(d) : IsNormal(x) /\ x.op # Dual(v.op)
        BY <4>2, <4>4, <4>5, <4>7
      <4>10. Dual(v.op) \in {"and", "or"}
        BY DEF Dual
      <4>11. /\ tree \in Within(h + 1, k - 1 + 1) /\ IsNormal(tree)
             /\ \A event : IsTrue(tree, event) <=>
                  IF Dual(v.op) = "and" THEN \A x \in Range(d) : IsTrue(x, event)
                                        ELSE \E x \in Range(d) : IsTrue(x, event)
             /\ (\A x \in Range(d) : Clean(x)) => Clean(tree)
        BY <1>1, <4>7, <4>8, <4>9, <4>10, GroupNormal
      <4>12. \A event : IsTrue(tree, event) <=> ~ IsTrue(child, event)
        <5> SUFFICES ASSUME NEW event PROVE IsTrue(tree, event) <=> ~ IsTrue(v, event)
          BY <2>1
        <5>0. /\ \A i \in 1 .. n : IsTrue(s[i], event) <=> ~ IsTrue(v.args[i], event)
              /\ IsTrue(tree, event) <=>
                   IF Dual(v.op) = "and" THEN \A x \in Range(s) : IsTrue(x, event)
                                         ELSE \E x \in Range(s) : IsTrue(x, event)
          BY <4>2, <4>7, <4>11
        <5>1. CASE v.op = "and"
          <6>1. IsTrue(v, event) <=> \A x \in Range(v.args) : IsTrue(x, event)
            BY <2>2, <5>1, TruthIs
          <6>2. Dual(v.op) # "and"
            BY <5>1 DEF Dual
          <6> QED
            BY <4>4, <5>0, <6>1, <6>2
        <5>2. CASE v.op = "or"
          <6>1. IsTrue(v, event) <=> \E x \in Range(v.args) : IsTrue(x, event)
            BY <2>2, <5>2, TruthIs
          <6>2. Dual(v.op) = "and"
            BY <5>2 DEF Dual
          <6> QED
            BY <4>4, <5>0, <6>1, <6>2
        <5> QED
          BY <2>5, <5>1, <5>2 DEF Group
      <4>13. Clean(child) => Clean(tree)
        <5>1. Clean(v) => \A i \in 1 .. n : Clean(v.args[i])
          BY <2>2, <2>5, <4>4, CleanTree
        <5> QED
          BY <2>1, <4>2, <4>4, <4>7, <4>11, <5>1
      <4>14. k - 1 + 1 = k /\ tree.op = Dual(v.op)
        BY <1>1, <4>8
      <4>15. child.op # "field" /\ ~ (child.op = "not" /\ child.arg.op = "field")
        BY <2>1, <2>5 DEF Group
      <4> QED
        BY <1>1, <2>1, <4>1, <4>11, <4>12, <4>13, <4>14, <4>15 DEF NotOf
    <3> QED
      BY <3>4, <3>5, <3>6
  <2>6. v.op = "field" \/ v.op = "not" \/ Group(v)
    BY <1>1, <2>1, WithinCases
  <2> QED
    BY <2>3, <2>4, <2>5, <2>6
<1> QED
  BY <1>5, <1>6

\* What the normalisation is on each number of levels.
LEMMA NormalizedLevels ==
  /\ Normalized[0] = TooDeep
  /\ \A k \in 1 .. MaxDepth + 1 :
       /\ \A node \in IRs : Normalized[k].ir[node] = NormalizeIR(Normalized[k - 1], node)
       /\ \A node \in Negatable : Normalized[k].not[node] = NormalizeNot(Normalized[k - 1], node)
<1> DEFINE D == MaxDepth + 1
           Up(t) == [ir |-> [node \in IRs |-> NormalizeIR(t, node)],
                     not |-> [node \in Negatable |-> NormalizeNot(t, node)]]
           Builds(f, n) == f[0] = TooDeep /\ \A k \in 1 .. n : f[k] = Up(f[k - 1])
           Grows(f) == f = [k \in 0 .. D |-> IF k = 0 THEN TooDeep ELSE Up(f[k - 1])]
           T == { m \in 0 .. D : \E f : Builds(f, m) }
<1>1. Normalized = CHOOSE f : Grows(f)
  BY Zenon DEF Normalized
<1>2. D \in Nat
  BY Heights
<1> HIDE DEF D, Up
<1>3. 0 \in T
  <2> DEFINE f == [k \in {0} |-> TooDeep]
  <2>1. Builds(f, 0)
    OBVIOUS
  <2> HIDE DEF f, Builds
  <2> QED
    BY <1>2, <2>1
<1>4. ASSUME NEW m \in 1 .. D, m - 1 \in T PROVE m \in T
  <2>1. PICK f : Builds(f, m - 1)
    BY <1>4
  <2> DEFINE g == [k \in 0 .. m |-> IF k = m THEN Up(f[m - 1]) ELSE f[k]]
  <2>2. m \in Nat /\ m # 0 /\ m \in 0 .. D
    BY <1>2
  <2>3. g[0] = TooDeep
    BY <2>1, <2>2
  <2>4. ASSUME NEW k \in 1 .. m PROVE g[k] = Up(g[k - 1])
    <3>1. k - 1 \in 0 .. m /\ k - 1 # m /\ k \in 0 .. m /\ (k # m => k \in 1 .. m - 1)
      BY <2>2
    <3>2. g[k - 1] = f[k - 1]
      BY <3>1
    <3> QED
      BY <2>1, <3>1, <3>2
  <2>5. Builds(g, m)
    BY <2>3, <2>4
  <2> HIDE DEF g, Builds
  <2> QED
    BY <2>2, <2>5
<1>5. D \in T
  <2> HIDE DEF T
  <2> QED
    BY <1>2, <1>3, <1>4, Counting
<1>6. PICK f : Builds(f, D)
  BY <1>5
<1>7. Grows([k \in 0 .. D |-> f[k]])
  <2> DEFINE g == [k \in 0 .. D |-> f[k]]
  <2>1. ASSUME NEW k \in 0 .. D PROVE g[k] = IF k = 0 THEN TooDeep ELSE Up(g[k - 1])
    <3>1. k # 0 => k \in 1 .. D /\ k - 1 \in 0 .. D
      BY <1>2
    <3> QED
      BY <1>6, <3>1
  <2> QED
    BY <2>1
<1> HIDE DEF Grows
<1>8. Grows(Normalized)
  BY <1>1, <1>7
<1>9. \A k \in 0 .. D : Normalized[k] = IF k = 0 THEN TooDeep ELSE Up(Normalized[k - 1])
  BY <1>8 DEF Grows
<1>10. ASSUME NEW k \in 1 .. D
       PROVE  /\ \A node \in IRs : Normalized[k].ir[node] = NormalizeIR(Normalized[k - 1], node)
              /\ \A node \in Negatable : Normalized[k].not[node] = NormalizeNot(Normalized[k - 1], node)
  <2>1. k \in 0 .. D /\ k # 0
    BY <1>2
  <2>2. Normalized[k] = Up(Normalized[k - 1])
    BY <1>9, <2>1
  <2> QED
    BY <2>2 DEF Up
<1>11. 0 \in 0 .. D
  BY <1>2
<1> QED
  BY <1>9, <1>10, <1>11 DEF D

LEMMA NormalizedTables ==
  \A k \in 0 .. MaxDepth + 1 : NormalTable(k, Normalized[k])
<1> DEFINE T == { k \in 0 .. MaxDepth + 1 : NormalTable(k, Normalized[k]) }
<1>1. 0 \in T
  <2>1. \A node \in IRs : TooDeep.ir[node] = Err("condition too deep")
    BY DEF TooDeep
  <2>2. \A node \in Negatable : TooDeep.not[node] = Err("condition too deep")
    BY DEF TooDeep
  <2>3. NormalTable(0, Normalized[0])
    BY <2>1, <2>2, Heights, NormalizedLevels DEF NormalTable, NormalOf, NotOf
  <2> QED
    BY <2>3, Heights
<1>2. ASSUME NEW k \in 1 .. MaxDepth + 1, k - 1 \in T PROVE k \in T
  <2>1. ASSUME NEW h \in 0 .. MaxHeight + 1, NEW node \in IR(h)
        PROVE  NormalOf(k, h, node, Normalized[k].ir[node])
    <3>1. NormalOf(k, h, node, NormalizeIR(Normalized[k - 1], node))
      BY <1>2, NormalizeIRExact
    <3>2. node \in IRs
      BY Heights
    <3> QED
      BY <3>1, <3>2, NormalizedLevels
  <2>2. ASSUME NEW h \in 0 .. MaxHeight, NEW node \in IR(h)
        PROVE  NotOf(k, h, node, Normalized[k].not[node])
    <3>1. NotOf(k, h, node, NormalizeNot(Normalized[k - 1], node))
      BY <1>2, NormalizeNotExact
    <3>2. node \in Negatable
      BY Heights
    <3> QED
      BY <3>1, <3>2, NormalizedLevels
  <2>3. NormalTable(k, Normalized[k])
    BY <2>1, <2>2 DEF NormalTable
  <2> QED
    BY <2>3, Heights
<1> HIDE DEF T
<1>3. \A k \in 0 .. MaxDepth + 1 : k \in T
  BY <1>1, <1>2, Counting, Heights
<1> QED
  BY <1>3 DEF T

\* "Normalize boolean IR without changing semantics" (wazuh.py:753-812).
LEMMA NormalizedExact ==
  ASSUME NEW node \in IRs
  PROVE  NormalOf(MaxDepth + 1, MaxHeight + 1, node, Normalized[MaxDepth + 1].ir[node])
<1>1. MaxDepth + 1 \in 0 .. MaxDepth + 1 /\ MaxHeight + 1 \in 0 .. MaxHeight + 1 /\ node \in IR(MaxHeight + 1)
  BY Heights
<1> QED
  BY <1>1, NormalizedTables DEF NormalTable

\* The same of the levels generate_rules starts with.
LEMMA NormalizedTop ==
  ASSUME NEW node \in IRs, NEW result, result = Normalized[MaxDepth + 1].ir[node]
  PROVE  \/ /\ result = Ok(result.val) /\ result.val \in IRs /\ result.val \in IR(MaxDepth)
            /\ IsNormal(result.val) /\ (Clean(node) => Clean(result.val))
            /\ \A event : IsTrue(result.val, event) <=> IsTrue(node, event)
         \/ result = Err("condition too deep")
<1>1. NormalOf(MaxDepth + 1, MaxHeight + 1, node, result)
  BY NormalizedExact
<1>2. IR(MaxHeight + 1) = IRs
  BY Heights
<1>3. CASE result # Err("condition too deep")
  <2> DEFINE K == MaxDepth + 1
  <2>1. K - 1 = MaxDepth
    BY Heights
  <2>2. NormalOf(K, MaxHeight + 1, node, result)
    BY <1>1, Zenon
  <2> HIDE DEF K
  <2>3. /\ result = Ok(result.val) /\ result.val \in Within(MaxHeight + 1, K - 1)
        /\ IsNormal(result.val) /\ (Clean(node) => Clean(result.val))
        /\ \A event : IsTrue(result.val, event) <=> IsTrue(node, event)
    BY <1>3, <2>2, Zenon DEF NormalOf
  <2>4. result.val \in IRs /\ result.val \in IR(MaxDepth)
    BY <1>2, <2>1, <2>3 DEF Within
  <2> QED
    BY <2>3, <2>4
<1> QED
  BY <1>3

-----------------------------------------------------------------------------
(* _lower_condition_ir. *)

TooMany == {"too many alternatives", "too many predicates"}

LEMMA LowerIRIs ==
  ASSUME NEW below, NEW node
  PROVE  /\ node.op = "field" =>
              LowerIR(below, node) =
                IF LowerField(node).ok THEN Ok(<< <<LowerField(node).val>> >>) ELSE LowerField(node)
         /\ node.op = "and" => LowerIR(below, node) = LowerChildren(Map(below, node.args))
         /\ node.op = "or" =>
              LET children == AllOk(Map(below, node.args))
              IN  LowerIR(below, node) = IF children.ok THEN LowerOr(children.val) ELSE children
         /\ node.op = "not" =>
              LowerIR(below, node) =
                IF below[node.arg].ok THEN LowerNot(below[node.arg].val) ELSE below[node.arg]
BY Zenon DEF LowerIR, Bind

\* The children of an AND so far.
Joins(parts, n, dnf) ==
  /\ dnf[0] = Ok(<< <<>> >>)
  /\ \A k \in 1 .. n :
       dnf[k] = IF ~ dnf[k - 1].ok THEN dnf[k - 1]
                ELSE IF ~ parts[k].ok THEN parts[k] ELSE LowerAnd(dnf[k - 1].val, parts[k].val)

LEMMA LowerChildrenIs ==
  ASSUME NEW parts, NEW n \in Nat, Len(parts) = n
  PROVE  \E dnf : Joins(parts, n, dnf) /\ LowerChildren(parts) = dnf[n]
<1> DEFINE first == Ok(<< <<>> >>)
           Up(x, k) == Bind(x, LAMBDA left : Bind(parts[k], LAMBDA right : LowerAnd(left, right)))
           Builds(f, m) == f[0] = first /\ \A k \in 1 .. m : f[k] = Up(f[k - 1], k)
           Grows(f) == f = [k \in 0 .. Len(parts) |-> IF k = 0 THEN first ELSE Up(f[k - 1], k)]
           chosen == CHOOSE f : Grows(f)
           T == { m \in 0 .. n : \E f : Builds(f, m) }
<1>1. LowerChildren(parts) = chosen[Len(parts)]
  BY Zenon DEF LowerChildren
<1>2. \A x, k : Up(x, k) = IF ~ x.ok THEN x
                           ELSE IF ~ parts[k].ok THEN parts[k] ELSE LowerAnd(x.val, parts[k].val)
  BY Zenon DEF Bind
<1> HIDE DEF Up, first
<1>3. 0 \in T
  <2> DEFINE f == [k \in {0} |-> first]
  <2>1. Builds(f, 0)
    OBVIOUS
  <2> HIDE DEF f, Builds
  <2> QED
    BY <2>1
<1>4. ASSUME NEW m \in 1 .. n, m - 1 \in T PROVE m \in T
  <2>1. PICK f : Builds(f, m - 1)
    BY <1>4
  <2> DEFINE g == [k \in 0 .. m |-> IF k = m THEN Up(f[m - 1], m) ELSE f[k]]
  <2>2. g[0] = first
    BY <2>1
  <2>3. ASSUME NEW k \in 1 .. m PROVE g[k] = Up(g[k - 1], k)
    <3>1. k - 1 \in 0 .. m /\ k - 1 # m /\ k \in 0 .. m /\ (k # m => k \in 1 .. m - 1)
      OBVIOUS
    <3>2. g[k - 1] = f[k - 1]
      BY <3>1
    <3> QED
      BY <2>1, <3>1, <3>2
  <2>4. Builds(g, m)
    BY <2>2, <2>3
  <2> HIDE DEF g, Builds
  <2> QED
    BY <2>4
<1>5. n \in T
  <2> HIDE DEF T
  <2> QED
    BY <1>3, <1>4, Counting
<1>6. PICK f : Builds(f, n)
  BY <1>5
<1>7. Grows([k \in 0 .. n |-> f[k]])
  <2> DEFINE g == [k \in 0 .. n |-> f[k]]
  <2>1. ASSUME NEW k \in 0 .. n PROVE g[k] = IF k = 0 THEN first ELSE Up(g[k - 1], k)
    <3>1. k # 0 => k \in 1 .. n /\ k - 1 \in 0 .. n
      OBVIOUS
    <3> QED
      BY <1>6, <3>1
  <2> QED
    BY <2>1
<1> HIDE DEF Grows
<1>8. Grows(chosen)
  BY <1>7
<1> HIDE DEF chosen
<1>9. \A k \in 0 .. n : chosen[k] = IF k = 0 THEN first ELSE Up(chosen[k - 1], k)
  BY <1>8 DEF Grows
<1>10. Joins(parts, n, chosen)
  <2>1. 0 \in 0 .. n /\ \A k \in 1 .. n : k \in 0 .. n /\ k # 0
    OBVIOUS
  <2>2. chosen[0] = first
    BY <1>9, <2>1
  <2>3. \A k \in 1 .. n : chosen[k] = Up(chosen[k - 1], k)
    BY <1>9, <2>1
  <2> QED
    BY <1>2, <2>2, <2>3 DEF Joins, first
<1> QED
  BY <1>1, <1>10

LEMMA LowerChildrenExact ==
  ASSUME NEW n \in Nat, NEW parts, Len(parts) = n,
         \A i \in 1 .. n : parts[i].ok => parts[i].val \in Dnf /\ parts[i].val # <<>>
  PROVE  LET result == LowerChildren(parts)
         IN  /\ result.ok =>
                  /\ result.val \in Dnf /\ result.val # <<>>
                  /\ \A i \in 1 .. n : parts[i].ok
                  /\ (\A i \in 1 .. n : AllSafe(parts[i].val)) => AllSafe(result.val)
                  /\ \A event : Alerts(result.val, event)
                                  <=> \A i \in 1 .. n : Alerts(parts[i].val, event)
             /\ ~ result.ok =>
                  result.val \in TooMany \/ \E i \in 1 .. n : ~ parts[i].ok /\ result.val = parts[i].val
<1>1. PICK dnf : Joins(parts, n, dnf) /\ LowerChildren(parts) = dnf[n]
  BY LowerChildrenIs
<1> DEFINE Good(k, r) ==
             /\ r.ok =>
                  /\ r.val \in Dnf /\ r.val # <<>>
                  /\ \A i \in 1 .. k : parts[i].ok
                  /\ (\A i \in 1 .. k : AllSafe(parts[i].val)) => AllSafe(r.val)
                  /\ \A event : Alerts(r.val, event) <=> \A i \in 1 .. k : Alerts(parts[i].val, event)
             /\ ~ r.ok => r.val \in TooMany \/ \E i \in 1 .. k : ~ parts[i].ok /\ r.val = parts[i].val
           T == { k \in 0 .. n : Good(k, dnf[k]) }
<1>2. 0 \in T
  <2> DEFINE one == << <<>> >>
  <2>1. dnf[0] = Ok(one) /\ Ok(one).ok /\ Ok(one).val = one
    BY <1>1 DEF Joins, Ok
  <2>2. one \in Dnf /\ one # <<>>
    BY DEF Dnf
  <2>3. AllSafe(one) /\ \A event : Alerts(one, event)
    BY DEF AllSafe, Safe, Alerts, Fires, Range
  <2> HIDE DEF one
  <2>4. Good(0, dnf[0])
    BY <2>1, <2>2, <2>3
  <2> HIDE DEF Good
  <2> QED
    BY <2>4
<1>3. ASSUME NEW k \in 1 .. n, k - 1 \in T PROVE k \in T
  <2> DEFINE left == dnf[k - 1]
             right == parts[k]
             r == dnf[k]
  <2>1. r = IF ~ left.ok THEN left ELSE IF ~ right.ok THEN right ELSE LowerAnd(left.val, right.val)
    BY <1>1 DEF Joins
  <2>2. Good(k - 1, left) /\ (right.ok => right.val \in Dnf /\ right.val # <<>>)
    BY <1>3
  <2>3. \A i \in 1 .. k : i = k \/ i \in 1 .. k - 1
    OBVIOUS
  <2>4. k \in 1 .. k /\ (\A i \in 1 .. k - 1 : i \in 1 .. k)
    OBVIOUS
  <2> SUFFICES Good(k, r)
    OBVIOUS
  <2> HIDE DEF left, r
  <2>5. CASE ~ left.ok
    BY <2>1, <2>2, <2>4, <2>5
  <2>6. CASE left.ok /\ ~ right.ok
    BY <2>1, <2>4, <2>6
  <2>7. CASE left.ok /\ right.ok
    <3>1. r = LowerAnd(left.val, right.val)
      BY <2>1, <2>7
    <3>2. left.val \in Dnf /\ left.val # <<>> /\ right.val \in Dnf /\ right.val # <<>>
      BY <2>2, <2>7
    <3> HIDE DEF right
    <3>3. /\ r.ok =>
               /\ r.val \in Dnf /\ r.val # <<>>
               /\ AllSafe(left.val) /\ AllSafe(right.val) => AllSafe(r.val)
               /\ \A event : Alerts(r.val, event) <=> Alerts(left.val, event) /\ Alerts(right.val, event)
          /\ ~ r.ok => r.val \in TooMany
      BY <3>1, <3>2, LowerAndExact DEF TooMany
    <3> QED
      BY <2>2, <2>3, <2>4, <2>7, <3>3 DEF right
  <2> QED
    BY <2>5, <2>6, <2>7
<1>4. n \in T
  <2> HIDE DEF T
  <2>1. \A k \in 0 .. n : k \in T
    BY <1>2, <1>3, Counting
  <2> QED
    BY <2>1
<1>5. Good(n, dnf[n])
  BY <1>4
<1> QED
  BY <1>1, <1>5

\* What a tree is lowered to: a DNF that is true of the same events.  A normal
\* tree of supported leaves that is no deeper than the levels is refused for its
\* size only.
LowerOf(levels, node, result) ==
  /\ result.ok =>
       /\ result.val \in Dnf /\ result.val # <<>>
       /\ \A event : Alerts(result.val, event) <=> IsTrue(node, event)
       /\ Clean(node) => AllSafe(result.val)
       /\ node.op = "field" => \E p : result.val = << <<p>> >>
  /\ ~ result.ok /\ Clean(node) /\ IsNormal(node) /\ levels # 0 /\ node \in IR(levels - 1) =>
       result.val \in TooMany

LowerTable(levels, table) == \A node \in IRs : LowerOf(levels, node, table[node])

\* What the children of a group are lowered to.
LEMMA LoweredChildren ==
  ASSUME NEW k \in 1 .. MaxDepth + 1, NEW below, LowerTable(k - 1, below),
         NEW node \in IRs, Group(node), NEW parts, parts = Map(below, node.args)
  PROVE  LET n == Len(parts)
         IN  /\ n \in Nat /\ n # 0 /\ DOMAIN parts = 1 .. n /\ DOMAIN node.args = 1 .. n
             /\ Range(node.args) = { node.args[i] : i \in 1 .. n }
             /\ \A i \in 1 .. n :
                  /\ parts[i].ok =>
                       /\ parts[i].val \in Dnf /\ parts[i].val # <<>>
                       /\ \A event : Alerts(parts[i].val, event) <=> IsTrue(node.args[i], event)
                       /\ Clean(node) => AllSafe(parts[i].val)
                  /\ ~ parts[i].ok /\ Clean(node) /\ IsNormal(node) /\ node \in IR(k - 1) =>
                       parts[i].val \in TooMany
<1> DEFINE n == Len(node.args)
           W == Within(MaxHeight, MaxHeight)
<1>1. /\ MaxHeight \in Nat /\ MaxHeight + 1 \in Nat /\ node \in Trees /\ k \in Nat /\ k - 1 \in Nat
      /\ node \in Within(MaxHeight + 1, MaxHeight + 1) /\ node.op # "field" /\ node.op # "not"
  BY Heights DEF Within, Group
<1>2. node.args \in Seq(W) /\ node.args # <<>>
  <2>1. MaxHeight + 1 - 1 = MaxHeight
    BY <1>1
  <2> QED
    BY <1>1, <2>1, WithinCases
<1>3. W \subseteq IRs
  BY <1>1, WithinTrees, Heights
<1>4. /\ n \in Nat /\ n # 0 /\ DOMAIN node.args = 1 .. n
      /\ \A i \in 1 .. n : node.args[i] \in W
  <2> HIDE DEF W
  <2> QED
    BY <1>2
<1> HIDE DEF n, W
<1>5. Range(node.args) = { node.args[i] : i \in 1 .. n }
  BY <1>4 DEF Range
<1>6. parts = [i \in 1 .. n |-> below[node.args[i]]]
  BY <1>4 DEF Map
<1>7. Len(parts) = n /\ DOMAIN parts = 1 .. n
  <2>1. parts = [i \in 1 .. n |-> parts[i]] /\ \A i \in 1 .. n : parts[i] \in { below[node.args[j]] : j \in 1 .. n }
    BY <1>6
  <2> QED
    BY <1>4, <2>1, Listed
<1>8. ASSUME NEW i \in 1 .. n
      PROVE  /\ LowerOf(k - 1, node.args[i], parts[i])
             /\ Clean(node) => Clean(node.args[i])
             /\ IsNormal(node) => IsNormal(node.args[i])
             /\ node \in IR(k - 1) => k - 1 # 0 /\ node.args[i] \in IR(k - 1 - 1)
  <2>1. node.args[i] \in IRs /\ node.args[i] \in Range(node.args)
    BY <1>3, <1>4, <1>5
  <2>2. LowerOf(k - 1, node.args[i], parts[i])
    BY <1>6, <2>1 DEF LowerTable
  <2>3. ASSUME node \in IR(k - 1) PROVE k - 1 # 0 /\ node.args[i] \in IR(k - 1 - 1)
    <3>1. node \in Within(k - 1, k - 1)
      BY <2>3 DEF Within
    <3>2. k - 1 # 0 /\ node.args \in Seq(Within(k - 1 - 1, k - 1 - 1))
      BY <1>1, <3>1, WithinCases
    <3> QED
      BY <1>4, <3>2 DEF Within
  <2> QED
    BY <1>1, <2>1, <2>2, <2>3, CleanTree, NormalTree
<1>9. ASSUME NEW i \in 1 .. n
      PROVE  /\ parts[i].ok =>
                  /\ parts[i].val \in Dnf /\ parts[i].val # <<>>
                  /\ \A event : Alerts(parts[i].val, event) <=> IsTrue(node.args[i], event)
                  /\ Clean(node) => AllSafe(parts[i].val)
             /\ ~ parts[i].ok /\ Clean(node) /\ IsNormal(node) /\ node \in IR(k - 1) =>
                  parts[i].val \in TooMany
  BY <1>8 DEF LowerOf
<1> QED
  BY <1>4, <1>5, <1>7, <1>9

LEMMA LowerIRExact ==
  ASSUME NEW k \in 1 .. MaxDepth + 1, NEW below, LowerTable(k - 1, below), NEW node \in IRs
  PROVE  LowerOf(k, node, LowerIR(below, node))
<1> DEFINE result == LowerIR(below, node)
<1>1. /\ k \in Nat /\ k - 1 \in Nat /\ k # 0 /\ MaxHeight \in Nat /\ MaxHeight + 1 \in Nat
      /\ node \in Trees /\ node \in Within(MaxHeight + 1, MaxHeight + 1)
      /\ \A x : Ok(x).ok /\ Ok(x).val = x
  BY Heights DEF Within, Ok
<1>2. CASE node.op = "field"
  <2> DEFINE low == LowerField(node)
             p == low.val
  <2>1. node \in Fields
    BY <1>1, <1>2, WithinCases DEF Group
  <2>2. result = IF low.ok THEN Ok(<< <<p>> >>) ELSE low
    BY <1>2, LowerIRIs
  <2>3. node.sigma \in DOMAIN FieldOf /\ node.value \in Values
    BY <2>1 DEF Fields
  <2>4. /\ low.ok =>
             /\ p \in Predicates /\ (p.lookaheadSafe <=> node.value \notin Anchored)
             /\ \A event : Holds(p, event) <=> <<FieldOf[node.sigma], node.value>> \in event
        /\ ~ low.ok => FieldOf[node.sigma] = NoField \/ node.value \in Unlowerable
    BY <2>3, LowerFieldExact
  <2> SUFFICES LowerOf(k, node, result)
    OBVIOUS
  <2> HIDE DEF low, result
  <2>5. Clean(node) => FieldOf[node.sigma] # NoField /\ node.value \notin Unlowerable /\ node.value \notin Anchored
    BY <1>1, <1>2, CleanTree DEF Supported, Leaf
  <2>6. CASE low.ok
    <3>1. result.ok /\ result.val = << <<p>> >>
      BY <1>1, <2>2, <2>6
    <3> HIDE DEF p
    <3>2. << <<p>> >> \in Dnf /\ << <<p>> >> # <<>>
      BY <2>4, <2>6 DEF Dnf
    <3>3. \A event : Alerts(<< <<p>> >>, event) <=> Holds(p, event)
      BY DEF Alerts, Fires
    <3>4. \A event : IsTrue(node, event) <=> <<FieldOf[node.sigma], node.value>> \in event
      <4> SUFFICES ASSUME NEW event
                   PROVE  IsTrue(node, event) <=> <<FieldOf[node.sigma], node.value>> \in event
        OBVIOUS
      <4>1. IsTrue(node, event) <=> LeafMatches(node) \cap event # {}
        BY <1>1, <1>2, TruthIs
      <4>2. LeafMatches(node) = {<<FieldOf[node.sigma], node.value>>}
        BY <1>2, LeafMatchesOf
      <4> QED
        BY <4>1, <4>2
    <3>5. Clean(node) => AllSafe(<< <<p>> >>)
      <4>1. p.lookaheadSafe => AllSafe(<< <<p>> >>)
        BY DEF AllSafe, Safe, Range
      <4> QED
        BY <2>4, <2>5, <2>6, <4>1
    <3> QED
      BY <2>4, <2>6, <3>1, <3>2, <3>3, <3>4, <3>5 DEF LowerOf
  <2>7. CASE ~ low.ok
    BY <2>2, <2>4, <2>5, <2>7 DEF LowerOf
  <2> QED
    BY <2>6, <2>7
<1>3. CASE node.op = "not"
  <2> DEFINE r == below[node.arg]
  <2>1. node.arg \in IRs
    <3>1. MaxHeight + 1 - 1 = MaxHeight /\ MaxHeight \in 0 .. MaxHeight + 1
      BY <1>1
    <3>2. node.arg \in Within(MaxHeight, MaxHeight)
      BY <1>1, <1>3, <3>1, WithinCases DEF Group
    <3> QED
      BY <3>1, <3>2, Heights DEF Within
  <2>2. LowerOf(k - 1, node.arg, r)
    BY <2>1 DEF LowerTable
  <2>3. result = IF r.ok THEN LowerNot(r.val) ELSE r
    BY <1>3, LowerIRIs
  <2>4. /\ Clean(node) => Clean(node.arg)
        /\ IsNormal(node) => node.arg.op = "field" /\ IsNormal(node.arg)
        /\ node \in IR(k - 1) => k - 1 # 0 /\ node.arg \in IR(k - 1 - 1)
    <3>1. ASSUME node \in IR(k - 1) PROVE k - 1 # 0 /\ node.arg \in IR(k - 1 - 1)
      <4>1. node \in Within(k - 1, k - 1)
        BY <3>1 DEF Within
      <4> QED
        BY <1>1, <1>3, <4>1, WithinCases DEF Within, Group
    <3> QED
      BY <1>1, <1>3, <3>1, CleanTree, NormalTree
  <2>5. \A event : IsTrue(node, event) <=> ~ IsTrue(node.arg, event)
    BY <1>1, <1>3, TruthIs
  <2> SUFFICES LowerOf(k, node, result)
    OBVIOUS
  <2> HIDE DEF r, result
  <2>6. CASE ~ r.ok
    <3>1. ~ result.ok /\ result.val = r.val
      BY <2>3, <2>6
    <3> QED
      BY <1>1, <2>2, <2>4, <2>6, <3>1 DEF LowerOf
  <2>7. CASE r.ok
    <3>1. result = LowerNot(r.val)
      BY <2>3, <2>7
    <3>2. /\ r.val \in Dnf
          /\ \A event : Alerts(r.val, event) <=> IsTrue(node.arg, event)
          /\ Clean(node.arg) => AllSafe(r.val)
          /\ node.arg.op = "field" => \E p : r.val = << <<p>> >>
      BY <2>2, <2>7 DEF LowerOf
    <3>3. /\ result.ok =>
               /\ result.val \in Dnf /\ result.val # <<>>
               /\ AllSafe(r.val) => AllSafe(result.val)
               /\ \A event : Alerts(result.val, event) <=> ~ Alerts(r.val, event)
          /\ (\E p : r.val = << <<p>> >>) => result.ok
      BY <3>1, <3>2, LowerNotExact
    <3>4. node.op # "field"
      BY <1>3
    <3> QED
      BY <2>4, <2>5, <3>2, <3>3, <3>4 DEF LowerOf
  <2> QED
    BY <2>6, <2>7
<1>4. CASE Group(node)
  <2> DEFINE parts == Map(below, node.args)
             n == Len(parts)
  <2>1. /\ n \in Nat /\ n # 0 /\ DOMAIN parts = 1 .. n /\ DOMAIN node.args = 1 .. n
        /\ Range(node.args) = { node.args[i] : i \in 1 .. n }
        /\ \A i \in 1 .. n :
             /\ parts[i].ok =>
                  /\ parts[i].val \in Dnf /\ parts[i].val # <<>>
                  /\ \A event : Alerts(parts[i].val, event) <=> IsTrue(node.args[i], event)
                  /\ Clean(node) => AllSafe(parts[i].val)
             /\ ~ parts[i].ok /\ Clean(node) /\ IsNormal(node) /\ node \in IR(k - 1) =>
                  parts[i].val \in TooMany
    BY <1>4, LoweredChildren
  <2>2. node.op # "field"
    BY <1>4 DEF Group
  <2> SUFFICES LowerOf(k, node, result)
    OBVIOUS
  <2>3. CASE node.op = "and"
    <3>1. result = LowerChildren(parts)
      BY <2>3, LowerIRIs
    <3> HIDE DEF parts, result
    <3>2. /\ result.ok =>
               /\ result.val \in Dnf /\ result.val # <<>>
               /\ \A i \in 1 .. n : parts[i].ok
               /\ (\A i \in 1 .. n : AllSafe(parts[i].val)) => AllSafe(result.val)
               /\ \A event : Alerts(result.val, event) <=> \A i \in 1 .. n : Alerts(parts[i].val, event)
          /\ ~ result.ok =>
               result.val \in TooMany \/ \E i \in 1 .. n : ~ parts[i].ok /\ result.val = parts[i].val
      BY <2>1, <3>1, LowerChildrenExact
    <3> HIDE DEF n
    <3>3. ASSUME result.ok, NEW event PROVE Alerts(result.val, event) <=> IsTrue(node, event)
      <4>1. IsTrue(node, event) <=> \A child \in Range(node.args) : IsTrue(child, event)
        BY <1>1, <2>3, TruthIs
      <4>2. \A i \in 1 .. n : Alerts(parts[i].val, event) <=> IsTrue(node.args[i], event)
        BY <2>1, <3>2, <3>3
      <4>3. Alerts(result.val, event) <=> \A i \in 1 .. n : Alerts(parts[i].val, event)
        BY <3>2, <3>3
      <4> QED
        BY <2>1, <4>1, <4>2, <4>3
    <3>4. ASSUME result.ok, Clean(node) PROVE AllSafe(result.val)
      BY <2>1, <3>2, <3>4
    <3>5. ASSUME ~ result.ok, Clean(node), IsNormal(node), node \in IR(k - 1)
          PROVE  result.val \in TooMany
      BY <2>1, <3>2, <3>5
    <3> QED
      BY <1>1, <2>2, <3>2, <3>3, <3>4, <3>5 DEF LowerOf
  <2>4. CASE node.op = "or"
    <3> DEFINE children == AllOk(parts)
               vals == [i \in 1 .. n |-> parts[i].val]
    <3>1. result = IF children.ok THEN LowerOr(children.val) ELSE children
      BY <2>4, LowerIRIs
    <3> HIDE DEF parts, result
    <3>2. CASE \E i \in 1 .. n : ~ parts[i].ok
      <4>1. PICK i \in 1 .. n : ~ parts[i].ok /\ children = parts[i]
        BY <2>1, <3>2, AllOkResult
      <4>2. ~ result.ok /\ result.val = parts[i].val
        BY <3>1, <4>1
      <4> QED
        BY <1>1, <2>1, <4>1, <4>2 DEF LowerOf
    <3>3. CASE \A i \in 1 .. n : parts[i].ok
      <4>1. children = Ok(vals)
        BY <2>1, <3>3, AllOkResult
      <4>2. result = LowerOr(vals)
        BY <1>1, <3>1, <4>1
      <4>3. vals = [i \in 1 .. n |-> vals[i]] /\ \A i \in 1 .. n : vals[i] = parts[i].val /\ vals[i] \in Dnf
        BY <2>1, <3>3
      <4> HIDE DEF vals, children, n
      <4>4. vals \in Seq(Dnf) /\ DOMAIN vals = 1 .. n
        BY <2>1, <4>3, Listed
      <4>5. /\ result.ok =>
                 /\ result.val \in Dnf
                 /\ (\E i \in DOMAIN vals : vals[i] # <<>>) => result.val # <<>>
                 /\ (\A i \in DOMAIN vals : AllSafe(vals[i])) => AllSafe(result.val)
                 /\ \A event : Alerts(result.val, event) <=> \E i \in DOMAIN vals : Alerts(vals[i], event)
            /\ ~ result.ok => result.val \in TooMany
        BY <4>2, <4>4, LowerOrExact DEF TooMany
      <4>6. ASSUME result.ok, NEW event PROVE Alerts(result.val, event) <=> IsTrue(node, event)
        <5>1. IsTrue(node, event) <=> \E child \in Range(node.args) : IsTrue(child, event)
          BY <1>1, <2>4, TruthIs
        <5>2. \A i \in 1 .. n : Alerts(vals[i], event) <=> IsTrue(node.args[i], event)
          BY <2>1, <3>3, <4>3
        <5>3. Alerts(result.val, event) <=> \E i \in 1 .. n : Alerts(vals[i], event)
          BY <4>4, <4>5, <4>6
        <5> QED
          BY <2>1, <5>1, <5>2, <5>3
      <4>7. ASSUME result.ok PROVE result.val # <<>>
        <5>1. 1 \in 1 .. n
          BY <2>1
        <5>2. vals[1] # <<>>
          BY <2>1, <3>3, <4>3, <5>1
        <5> QED
          BY <4>4, <4>5, <4>7, <5>1, <5>2
      <4>8. ASSUME result.ok, Clean(node) PROVE AllSafe(result.val)
        BY <2>1, <3>3, <4>3, <4>4, <4>5, <4>8
      <4> QED
        BY <1>1, <2>2, <4>5, <4>6, <4>7, <4>8 DEF LowerOf
    <3> QED
      BY <3>2, <3>3
  <2> QED
    BY <1>4, <2>3, <2>4 DEF Group
<1> QED
  BY <1>1, <1>2, <1>3, <1>4, WithinCases

\* What the lowering is on each number of levels.
LEMMA LoweredLevels ==
  /\ \A node \in IRs : Lowered[0][node] = Err("DNF too deep")
  /\ \A k \in 1 .. MaxDepth + 1 : \A node \in IRs : Lowered[k][node] = LowerIR(Lowered[k - 1], node)
<1> DEFINE D == MaxDepth + 1
           deep == [node \in IRs |-> Err("DNF too deep")]
           Up(t) == [node \in IRs |-> LowerIR(t, node)]
           Builds(f, n) == f[0] = deep /\ \A k \in 1 .. n : f[k] = Up(f[k - 1])
           Grows(f) == f = [k \in 0 .. D |-> IF k = 0 THEN deep ELSE Up(f[k - 1])]
           T == { m \in 0 .. D : \E f : Builds(f, m) }
<1>1. Lowered = CHOOSE f : Grows(f)
  BY Zenon DEF Lowered
<1>2. D \in Nat
  BY Heights
<1> HIDE DEF D, Up, deep
<1>3. 0 \in T
  <2> DEFINE f == [k \in {0} |-> deep]
  <2>1. Builds(f, 0)
    OBVIOUS
  <2> HIDE DEF f, Builds
  <2> QED
    BY <1>2, <2>1
<1>4. ASSUME NEW m \in 1 .. D, m - 1 \in T PROVE m \in T
  <2>1. PICK f : Builds(f, m - 1)
    BY <1>4
  <2> DEFINE g == [k \in 0 .. m |-> IF k = m THEN Up(f[m - 1]) ELSE f[k]]
  <2>2. m \in Nat /\ m # 0 /\ m \in 0 .. D
    BY <1>2
  <2>3. g[0] = deep
    BY <2>1, <2>2
  <2>4. ASSUME NEW k \in 1 .. m PROVE g[k] = Up(g[k - 1])
    <3>1. k - 1 \in 0 .. m /\ k - 1 # m /\ k \in 0 .. m /\ (k # m => k \in 1 .. m - 1)
      BY <2>2
    <3>2. g[k - 1] = f[k - 1]
      BY <3>1
    <3> QED
      BY <2>1, <3>1, <3>2
  <2>5. Builds(g, m)
    BY <2>3, <2>4
  <2> HIDE DEF g, Builds
  <2> QED
    BY <2>2, <2>5
<1>5. D \in T
  <2> HIDE DEF T
  <2> QED
    BY <1>2, <1>3, <1>4, Counting
<1>6. PICK f : Builds(f, D)
  BY <1>5
<1>7. Grows([k \in 0 .. D |-> f[k]])
  <2> DEFINE g == [k \in 0 .. D |-> f[k]]
  <2>1. ASSUME NEW k \in 0 .. D PROVE g[k] = IF k = 0 THEN deep ELSE Up(g[k - 1])
    <3>1. k # 0 => k \in 1 .. D /\ k - 1 \in 0 .. D
      BY <1>2
    <3> QED
      BY <1>6, <3>1
  <2> QED
    BY <2>1
<1> HIDE DEF Grows
<1>8. Grows(Lowered)
  BY <1>1, <1>7
<1>9. \A k \in 0 .. D : Lowered[k] = IF k = 0 THEN deep ELSE Up(Lowered[k - 1])
  BY <1>8 DEF Grows
<1>10. ASSUME NEW k \in 1 .. D, NEW node \in IRs
       PROVE  Lowered[k][node] = LowerIR(Lowered[k - 1], node)
  <2>1. k \in 0 .. D /\ k # 0
    BY <1>2
  <2>2. Lowered[k] = Up(Lowered[k - 1])
    BY <1>9, <2>1
  <2> QED
    BY <2>2 DEF Up
<1>11. 0 \in 0 .. D
  BY <1>2
<1> QED
  BY <1>9, <1>10, <1>11 DEF D, deep

LEMMA LoweredExact ==
  ASSUME NEW node \in IRs
  PROVE  LowerOf(MaxDepth + 1, node, Lowered[MaxDepth + 1][node])
<1> DEFINE T == { k \in 0 .. MaxDepth + 1 : LowerTable(k, Lowered[k]) }
<1>1. 0 \in T
  <2>1. \A n \in IRs : ~ Lowered[0][n].ok
    BY LoweredLevels, Refused
  <2>2. LowerTable(0, Lowered[0])
    BY <2>1 DEF LowerTable, LowerOf
  <2> QED
    BY <2>2, Heights
<1>2. ASSUME NEW k \in 1 .. MaxDepth + 1, k - 1 \in T PROVE k \in T
  <2>1. \A n \in IRs : LowerOf(k, n, LowerIR(Lowered[k - 1], n))
    BY <1>2, LowerIRExact
  <2>2. LowerTable(k, Lowered[k])
    BY <2>1, LoweredLevels DEF LowerTable
  <2> QED
    BY <2>2, Heights
<1> HIDE DEF T
<1>3. \A k \in 0 .. MaxDepth + 1 : k \in T
  BY <1>1, <1>2, Counting, Heights
<1>4. MaxDepth + 1 \in 0 .. MaxDepth + 1
  BY Heights
<1> QED
  BY <1>3, <1>4 DEF T, LowerTable

\* What LowerOf says of a condition that is not too deep.
LEMMA LowerRefusal ==
  ASSUME NEW levels, levels # 0, NEW node, NEW result, LowerOf(levels, node, result),
         ~ result.ok, Clean(node), IsNormal(node), node \in IR(levels - 1)
  PROVE  result.val \in TooMany
BY Zenon DEF LowerOf

\* The same of the levels generate_rules starts with.
LEMMA LoweredTop ==
  ASSUME NEW node \in IRs, NEW result, result = Lowered[MaxDepth + 1][node]
  PROVE  /\ result.ok =>
              /\ result.val \in Dnf /\ result.val # <<>> /\ (Clean(node) => AllSafe(result.val))
              /\ \A event : Alerts(result.val, event) <=> IsTrue(node, event)
         /\ ~ result.ok /\ Clean(node) /\ IsNormal(node) /\ node \in IR(MaxDepth) =>
              result.val \in TooMany
<1>1. LowerOf(MaxDepth + 1, node, result)
  BY LoweredExact
<1>3. ~ result.ok /\ Clean(node) /\ IsNormal(node) /\ node \in IR(MaxDepth) =>
        result.val \in TooMany
  <2> SUFFICES ASSUME ~ result.ok, Clean(node), IsNormal(node), node \in IR(MaxDepth)
               PROVE  result.val \in TooMany
    OBVIOUS
  <2> DEFINE K == MaxDepth + 1
  <2>1. K - 1 = MaxDepth /\ K # 0
    BY Heights
  <2>2. LowerOf(K, node, result)
    BY <1>1, Zenon
  <2> HIDE DEF K
  <2>3. node \in IR(K - 1)
    BY <2>1, Zenon
  <2> QED
    BY <2>1, <2>2, <2>3, LowerRefusal
<1>4. result.ok =>
        /\ result.val \in Dnf /\ result.val # <<>> /\ (Clean(node) => AllSafe(result.val))
        /\ \A event : Alerts(result.val, event) <=> IsTrue(node, event)
  BY <1>1, Zenon DEF LowerOf
<1> QED
  BY <1>3, <1>4

-----------------------------------------------------------------------------
(* generate_rules: what holds at each of its stages. *)

Exact(tree) == \A event \in EventsFor(condition) : IsTrue(tree, event) <=> IsTrue(condition, event)

ExactRules(some) == \A event \in EventsFor(condition) : Alerts(some, event) <=> IsTrue(condition, event)

LoweringInv ==
  /\ condition \in Conditions /\ stage \in Stages /\ rules \in Seq(Seq(Planned))
  /\ stage = "parsed" => ir = condition
  /\ stage \in {"built", "normalized"} => ir \in IRs /\ Exact(ir) /\ (Clean(condition) => Clean(ir))
  /\ stage = "normalized" => IsNormal(ir) /\ ir \in IR(MaxDepth)
  /\ stage = "lowered" => /\ lowered \in Dnf /\ lowered # <<>> /\ ExactRules(lowered)
                          /\ Clean(condition) => AllSafe(lowered)
  /\ stage \in {"planned", "emitted"} => rules # <<>> /\ ExactRules(rules)
  /\ stage = "rejected" /\ Clean(condition) => reason \in LimitReasons

LEMMA LoweringStarts == Init => LoweringInv
BY DEF Init, LoweringInv, Stages

\* The rejection of a condition of supported leaves, for its size.
LEMMA Rejected ==
  ASSUME LoweringInv, NEW result, Reject(result), Clean(condition) => result.val \in LimitReasons
  PROVE  LoweringInv'
BY DEF LoweringInv, Reject, Stages, Clean, Exact, ExactRules

LEMMA LoweringGoesOn ==
  ASSUME LoweringInv, [Next]_vars
  PROVE  LoweringInv'
<1>1. /\ condition \in Parsed /\ condition \in Trees
      /\ \A x : Ok(x).ok /\ Ok(x).val = x
  <2>1. MaxHeight \in 0 .. MaxHeight + 1
    BY Heights
  <2> QED
    BY <2>1, Heights, LoweringAssumption DEF LoweringInv, Ok
<1>2. CASE Build
  <2> DEFINE result == BuildIR[condition]
  <2>1. BuiltAt(MaxHeight, condition, result) /\ stage = "parsed"
    BY <1>1, <1>2, BuildExact DEF Build
  <2>2. \/ Reject(result)
        \/ /\ result.ok /\ stage' = "built" /\ ir' = result.val
           /\ UNCHANGED <<condition, lowered, rules, reason>>
    BY <1>2 DEF Build
  <2> HIDE DEF result
  <2>3. CASE Reject(result)
    <3>1. ~ Clean(condition)
      BY <1>1, <2>1, <2>3 DEF BuiltAt, Reject
    <3> QED
      BY <2>3, <3>1, Rejected
  <2>4. CASE /\ result.ok /\ stage' = "built" /\ ir' = result.val
             /\ UNCHANGED <<condition, lowered, rules, reason>>
    <3>1. /\ result.val \in IRs /\ (Clean(condition) => Clean(result.val))
          /\ \A event : IsTrue(result.val, event) <=> IsTrue(condition, event)
      BY <2>1, <2>4, Heights, Refused DEF BuiltAt
    <3>2. Exact(ir)' /\ (Clean(condition) => Clean(ir))'
      BY <2>4, <3>1 DEF Exact, Clean
    <3> QED
      BY <2>4, <3>1, <3>2 DEF LoweringInv, Stages
  <2> QED
    BY <2>2, <2>3, <2>4
<1>3. CASE Normalize
  <2> DEFINE result == Normalized[MaxDepth + 1].ir[ir]
  <2>1. stage = "built" /\ ir \in IRs /\ Exact(ir) /\ (Clean(condition) => Clean(ir))
    BY <1>3 DEF Normalize, LoweringInv
  <2>2. result = Normalized[MaxDepth + 1].ir[ir]
    OBVIOUS
  <2>3. \/ Reject(result)
        \/ /\ result.ok /\ stage' = "normalized" /\ ir' = result.val
           /\ UNCHANGED <<condition, lowered, rules, reason>>
    BY <1>3 DEF Normalize
  <2> HIDE DEF result
  <2>4. \/ /\ result = Ok(result.val) /\ result.val \in IRs /\ result.val \in IR(MaxDepth)
           /\ IsNormal(result.val) /\ (Clean(ir) => Clean(result.val))
           /\ \A event : IsTrue(result.val, event) <=> IsTrue(ir, event)
        \/ result = Err("condition too deep")
    BY <2>1, <2>2, NormalizedTop
  <2>5. CASE Reject(result)
    <3>1. result # Ok(result.val)
      BY <1>1, <2>5 DEF Reject
    <3>2. result = Err("condition too deep")
      BY <2>4, <3>1
    <3>3. result.val = "condition too deep"
      BY <3>2 DEF Err
    <3> QED
      BY <2>5, <3>3, Rejected DEF LimitReasons
  <2>6. CASE /\ result.ok /\ stage' = "normalized" /\ ir' = result.val
             /\ UNCHANGED <<condition, lowered, rules, reason>>
    <3>1. /\ result.val \in IRs /\ result.val \in IR(MaxDepth)
          /\ IsNormal(result.val) /\ (Clean(ir) => Clean(result.val))
          /\ \A event : IsTrue(result.val, event) <=> IsTrue(ir, event)
      BY <2>4, <2>6, Refused
    <3>2. Exact(ir)' /\ (Clean(condition) => Clean(ir))'
      BY <2>1, <2>6, <3>1 DEF Exact, Clean
    <3> QED
      BY <2>6, <3>1, <3>2 DEF LoweringInv, Stages
  <2> QED
    BY <2>3, <2>5, <2>6
<1>4. CASE Lower
  <2> DEFINE result == Lowered[MaxDepth + 1][ir]
  <2>1. /\ stage = "normalized" /\ ir \in IRs /\ Exact(ir) /\ (Clean(condition) => Clean(ir))
        /\ IsNormal(ir) /\ ir \in IR(MaxDepth)
    BY <1>4 DEF Lower, LoweringInv
  <2>2. result = Lowered[MaxDepth + 1][ir]
    OBVIOUS
  <2>3. \/ Reject(result)
        \/ /\ result.ok /\ stage' = "lowered" /\ lowered' = result.val
           /\ UNCHANGED <<condition, ir, rules, reason>>
    BY <1>4 DEF Lower
  <2> HIDE DEF result
  <2>4. /\ result.ok =>
             /\ result.val \in Dnf /\ result.val # <<>> /\ (Clean(ir) => AllSafe(result.val))
             /\ \A event : Alerts(result.val, event) <=> IsTrue(ir, event)
        /\ ~ result.ok /\ Clean(ir) /\ IsNormal(ir) /\ ir \in IR(MaxDepth) =>
             result.val \in TooMany
    BY <2>1, <2>2, LoweredTop
  <2>5. CASE Reject(result)
    <3>1. Clean(condition) => result.val \in TooMany
      BY <2>1, <2>4, <2>5 DEF Reject
    <3> QED
      BY <2>5, <3>1, Rejected DEF LimitReasons, TooMany
  <2>6. CASE /\ result.ok /\ stage' = "lowered" /\ lowered' = result.val
             /\ UNCHANGED <<condition, ir, rules, reason>>
    <3>1. /\ result.val \in Dnf /\ result.val # <<>> /\ (Clean(ir) => AllSafe(result.val))
          /\ \A event : Alerts(result.val, event) <=> IsTrue(ir, event)
      BY <2>4, <2>6
    <3>2. ExactRules(lowered)' /\ (Clean(condition) => AllSafe(lowered))'
      BY <2>1, <2>6, <3>1 DEF Exact, ExactRules, Clean
    <3> QED
      BY <2>6, <3>1, <3>2 DEF LoweringInv, Stages
  <2> QED
    BY <2>3, <2>5, <2>6
<1>5. CASE Plan
  <2> DEFINE result == PlanChildRules(lowered)
  <2>1. /\ stage = "lowered" /\ lowered \in Dnf /\ lowered # <<>> /\ ExactRules(lowered)
        /\ Clean(condition) => AllSafe(lowered)
    BY <1>5 DEF Plan, LoweringInv
  <2>2. /\ result.ok =>
             /\ result.val \in Seq(Seq(Planned)) /\ result.val # <<>>
             /\ \A event : Alerts(result.val, event) <=> Alerts(lowered, event)
        /\ ~ result.ok => result.val \in SizeReasons \/ \E i \in DOMAIN lowered : ~ Safe(lowered[i])
    BY <2>1, PlanExact
  <2>3. \/ Reject(result)
        \/ /\ result.ok /\ stage' = "planned" /\ rules' = result.val
           /\ UNCHANGED <<condition, ir, lowered, reason>>
    BY <1>5 DEF Plan
  <2> HIDE DEF result
  <2>4. CASE Reject(result)
    <3>1. AllSafe(lowered) => \A i \in DOMAIN lowered : Safe(lowered[i])
      BY DEF AllSafe, Range
    <3>2. Clean(condition) => result.val \in SizeReasons
      BY <2>1, <2>2, <2>4, <3>1 DEF Reject
    <3> QED
      BY <2>4, <3>2, Rejected DEF LimitReasons, SizeReasons
  <2>5. CASE /\ result.ok /\ stage' = "planned" /\ rules' = result.val
             /\ UNCHANGED <<condition, ir, lowered, reason>>
    <3>1. ExactRules(rules)'
      BY <2>1, <2>2, <2>5 DEF ExactRules
    <3> QED
      BY <2>2, <2>5, <3>1 DEF LoweringInv, Stages
  <2> QED
    BY <2>3, <2>4, <2>5
<1>6. CASE Emit
  <2> DEFINE result == EmitRules(rules)
  <2>1. stage = "planned" /\ rules # <<>> /\ ExactRules(rules)
    BY <1>6 DEF Emit, LoweringInv
  <2>2. \/ Reject(result)
        \/ /\ result.ok /\ stage' = "emitted" /\ UNCHANGED <<condition, ir, lowered, rules, reason>>
    BY <1>6 DEF Emit
  <2>3. ~ result.ok => result.val \in LimitReasons
    <3>1. \A why \in {"too many fields", "pattern too long", "XML too large"} :
            Err(why).val \in LimitReasons
      BY DEF Err, LimitReasons
    <3> QED
      BY <2>1, <3>1, Refused DEF EmitRules, Ok
  <2> HIDE DEF result
  <2>4. CASE Reject(result)
    BY <2>3, <2>4, Rejected DEF Reject
  <2>5. CASE /\ result.ok /\ stage' = "emitted" /\ UNCHANGED <<condition, ir, lowered, rules, reason>>
    <3>1. ExactRules(rules)'
      BY <2>1, <2>5 DEF ExactRules
    <3> QED
      BY <2>1, <2>5, <3>1 DEF LoweringInv, Stages
  <2> QED
    BY <2>2, <2>4, <2>5
<1>7. CASE UNCHANGED vars
  BY <1>7 DEF vars, LoweringInv, Exact, ExactRules, Clean
<1> QED
  BY <1>2, <1>3, <1>4, <1>5, <1>6, <1>7 DEF Next

LEMMA LoweringAlways == Spec => []LoweringInv
BY LoweringStarts, LoweringGoesOn, PTL DEF Spec

\* A rule is in one of its stages, and every predicate of a planned rule tests
\* a field that resolves (wazuh.py:901-927).
THEOREM TypeCorrect == Spec => []TypeOK
<1>1. LoweringInv => TypeOK
  <2> SUFFICES ASSUME LoweringInv, NEW r \in Range(rules), NEW p \in Range(r)
               PROVE  p.field \in Range(FieldOf) \ {NoField} /\ p.negated \in BOOLEAN
    BY DEF TypeOK, LoweringInv
  <2>1. r \in Seq(Planned)
    BY DEF LoweringInv, Range
  <2>2. p \in Planned
    BY <2>1 DEF Range
  <2> QED
    BY <2>2 DEF Planned, Form
<1> QED
  BY <1>1, LoweringAlways, PTL

\* The normalised IR is normal and true of exactly the events the condition is
\* true of, whatever the condition, its nesting and the limit on it
\* (wazuh.py:753-812).
THEOREM NormalizationIsExact == Spec => []NormalizationExact
<1>1. LoweringInv => NormalizationExact
  BY DEF LoweringInv, NormalizationExact, Exact
<1> QED
  BY <1>1, LoweringAlways, PTL

\* The rules that are emitted alert on exactly the events the condition is true
\* of, through the DNF, the plan and its branches (wazuh.py:825-1091).
THEOREM RulesAreExact == Spec => []RulesExact
<1>1. LoweringInv => RulesExact
  BY DEF LoweringInv, RulesExact, ExactRules
<1> QED
  BY <1>1, LoweringAlways, PTL

\* A condition whose values all have a pattern is refused only for a limit: the
\* normalisation leaves nothing the lowering refuses, at the same depth limit.
THEOREM SupportedIsNeverRejected == Spec => []SupportedNeverRejected
<1>1. LoweringInv => SupportedNeverRejected
  BY DEF LoweringInv, SupportedNeverRejected, Clean
<1> QED
  BY <1>1, LoweringAlways, PTL
=============================================================================
