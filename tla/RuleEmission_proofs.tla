------------------------- MODULE RuleEmission_proofs -------------------------
(***************************************************************************)
(* For every value and text: what the patterns match, where the matcher    *)
(* runs over the atoms of a branch and Sigma says where its value can be   *)
(* cut.  For every table of mappings, every configuration and every        *)
(* directory, whatever is added to the registry: strict mode stays         *)
(* verified (IInv), and what is written has its type, selects what the     *)
(* Sigma rule selects and passes the validator (WrittenInv).               *)
(***************************************************************************)
EXTENDS RuleEmission, FiniteSetTheorems, SequenceTheorems, WellFoundedInduction, TLAPS

-----------------------------------------------------------------------------
(* Counting up. *)

\* What holds of 0 and of each number whose predecessor it holds of, up to n.
LEMMA CountingUp ==
  ASSUME NEW n \in Nat, NEW T, 0 \in T, \A k \in 1 .. n : k - 1 \in T => k \in T
  PROVE  \A k \in 0 .. n : k \in T
<1> SUFFICES ASSUME NEW j \in 0 .. n, j \notin T PROVE FALSE
  OBVIOUS
<1> DEFINE Rest == { k \in 0 .. n : k \notin T }
<1>1. PICK k \in Rest : \A i \in Rest : ~ (<<i, k>> \in OpToRel(<, Nat))
  <2>1. Rest \subseteq Nat /\ Rest # {}
    OBVIOUS
  <2> HIDE DEF Rest
  <2> QED
    BY <2>1, NatLessThanWellFounded, WFMin
<1>2. \A i \in Rest : ~ (i < k)
  <2>1. ASSUME NEW i \in Rest, i < k PROVE <<i, k>> \in OpToRel(<, Nat)
    BY <2>1 DEF OpToRel
  <2> QED
    BY <1>1, <2>1
<1>3. k \in 1 .. n /\ k - 1 \in 0 .. n /\ k - 1 < k
  OBVIOUS
<1> QED
  BY <1>2, <1>3

IsRun(n, S, start, F, g) ==
  /\ g \in [0 .. n -> S]
  /\ g[0] = start
  /\ \A k \in 1 .. n : g[k] = F[k][g[k - 1]]

\* Steps of any kind can be taken one after the other.
LEMMA RunExists ==
  ASSUME NEW n \in Nat, NEW S, NEW start \in S, NEW F \in [1 .. n -> [S -> S]]
  PROVE  \E g : IsRun(n, S, start, F, g)
<1> DEFINE Run(g, m) == g[0] = start /\ \A k \in 1 .. m : g[k] = F[k][g[k - 1]]
           T == { m \in 0 .. n : \E g \in [0 .. m -> S] : Run(g, m) }
<1>1. 0 \in T
  <2> DEFINE g == [k \in 0 .. 0 |-> start]
  <2>1. g \in [0 .. 0 -> S] /\ Run(g, 0)
    OBVIOUS
  <2> HIDE DEF g, Run
  <2> QED
    BY <2>1
<1>2. ASSUME NEW k \in 1 .. n, k - 1 \in T PROVE k \in T
  <2>1. PICK g \in [0 .. k - 1 -> S] : Run(g, k - 1)
    BY <1>2
  <2> DEFINE h == [i \in 0 .. k |-> IF i = k THEN F[k][g[k - 1]] ELSE g[i]]
  <2>2. h \in [0 .. k -> S]
    <3>1. F[k] \in [S -> S] /\ g[k - 1] \in S
      OBVIOUS
    <3> QED
      BY <3>1
  <2>3. Run(h, k)
    <3>1. h[0] = start
      BY <2>1
    <3>2. ASSUME NEW i \in 1 .. k PROVE h[i] = F[i][h[i - 1]]
      <4>1. CASE i = k
        BY <4>1
      <4>2. CASE i # k
        <5>1. i \in 1 .. k - 1 /\ i - 1 \in 0 .. k - 1
          BY <4>2
        <5> QED
          BY <2>1, <4>2, <5>1
      <4> QED
        BY <4>1, <4>2
    <3> QED
      BY <3>1, <3>2
  <2> HIDE DEF h, Run
  <2> QED
    BY <2>2, <2>3
<1>3. \A k \in 0 .. n : k \in T
  <2> HIDE DEF T
  <2> QED
    BY <1>1, <1>2, CountingUp
<1> QED
  BY <1>3 DEF IsRun

-----------------------------------------------------------------------------
(* The matcher: the positions of a text run from 1 to one past its end. *)

Positions(text) == 1 .. Len(text) + 1

Atoms(atoms) == atoms \in Seq(Range(atoms))

Text(text) == text \in Seq(Range(text))

\* An atom leads from positions to positions.
LEMMA AdvanceStays ==
  ASSUME NEW text, Text(text), NEW at, at \subseteq Positions(text), NEW atom
  PROVE  Advance(text, at, atom) \subseteq Positions(text)
<1>1. Len(text) \in Nat
  BY DEF Text
<1>2. CASE atom.star
  BY <1>2 DEF Advance, Positions
<1>3. CASE ~atom.star
  BY <1>1, <1>3 DEF Advance, Positions
<1> QED
  BY <1>2, <1>3

\* Reach runs over the atoms one by one.
LEMMA ReachSteps ==
  ASSUME NEW text, Text(text), NEW atoms, Atoms(atoms),
         NEW starts, starts \subseteq Positions(text)
  PROVE  /\ Reach(atoms, text, starts) \in [0 .. Len(atoms) -> SUBSET Positions(text)]
         /\ Reach(atoms, text, starts)[0] = starts
         /\ \A k \in 1 .. Len(atoms) :
              Reach(atoms, text, starts)[k]
                = Advance(text, Reach(atoms, text, starts)[k - 1], atoms[k])
<1> DEFINE n == Len(atoms)
           S == SUBSET Positions(text)
           F == [k \in 1 .. n |-> [at \in S |-> Advance(text, at, atoms[k])]]
           Reaches(r) == r = [k \in 0 .. n |->
                                IF k = 0 THEN starts ELSE Advance(text, r[k - 1], atoms[k])]
<1>1. n \in Nat
  BY DEF Atoms
<1>2. F \in [1 .. n -> [S -> S]]
  <2>1. \A k \in 1 .. n, at \in S : Advance(text, at, atoms[k]) \in S
    BY AdvanceStays
  <2> QED
    BY <2>1
<1>3. PICK g : IsRun(n, S, starts, F, g)
  <2> HIDE DEF n, F, S
  <2>1. starts \in S
    BY DEF S
  <2> QED
    BY <1>1, <1>2, <2>1, RunExists
<1>4. Reaches(g)
  <2>1. g = [k \in 0 .. n |-> g[k]]
    BY <1>3 DEF IsRun
  <2>2. ASSUME NEW k \in 0 .. n
        PROVE  g[k] = IF k = 0 THEN starts ELSE Advance(text, g[k - 1], atoms[k])
    <3>1. CASE k = 0
      BY <1>3, <3>1 DEF IsRun
    <3>2. CASE k # 0
      <4>1. k \in 1 .. n /\ k - 1 \in 0 .. n
        BY <1>1, <3>2
      <4>2. g[k - 1] \in S
        BY <1>3, <4>1 DEF IsRun
      <4> QED
        BY <1>3, <3>2, <4>1, <4>2 DEF IsRun
    <3> QED
      BY <3>1, <3>2
  <2> QED
    BY <2>1, <2>2
<1>5. Reach(atoms, text, starts) = CHOOSE r : Reaches(r)
  BY Zenon DEF Reach
<1>6. Reaches(Reach(atoms, text, starts))
  <2> HIDE DEF Reaches
  <2> QED
    BY <1>4, <1>5, Zenon
<1> DEFINE r == Reach(atoms, text, starts)
<1>7. r = [k \in 0 .. n |-> IF k = 0 THEN starts ELSE Advance(text, r[k - 1], atoms[k])]
  BY <1>6
<1> HIDE DEF r
<1>8. r[0] = starts /\ \A k \in 1 .. n : r[k] = Advance(text, r[k - 1], atoms[k])
  BY <1>1, <1>7
<1>9. \A k \in 0 .. n : k \in { i \in 0 .. n : r[i] \in S }
  <2> DEFINE T == { i \in 0 .. n : r[i] \in S }
  <2>1. 0 \in T
    BY <1>1, <1>8
  <2>2. ASSUME NEW k \in 1 .. n, k - 1 \in T PROVE k \in T
    BY <1>8, <2>2, AdvanceStays
  <2> HIDE DEF T, n
  <2>3. \A k \in 0 .. n : k \in T
    BY <1>1, <2>1, <2>2, CountingUp
  <2> QED
    BY <2>3 DEF T
<1> QED
  BY <1>7, <1>8, <1>9 DEF r

\* More starting points reach no fewer ends.
LEMMA ReachMonotone ==
  ASSUME NEW text, Text(text), NEW atoms, Atoms(atoms), NEW starts, NEW more,
         starts \subseteq more, more \subseteq Positions(text)
  PROVE  Reach(atoms, text, starts)[Len(atoms)] \subseteq Reach(atoms, text, more)[Len(atoms)]
<1> DEFINE n == Len(atoms)
           r == Reach(atoms, text, starts)
           s == Reach(atoms, text, more)
           T == { k \in 0 .. n : r[k] \subseteq s[k] }
<1>1. /\ n \in Nat
      /\ r[0] = starts /\ \A k \in 1 .. n : r[k] = Advance(text, r[k - 1], atoms[k])
      /\ s[0] = more /\ \A k \in 1 .. n : s[k] = Advance(text, s[k - 1], atoms[k])
  BY ReachSteps DEF Atoms
<1> HIDE DEF r, s
<1>2. 0 \in T
  BY <1>1
<1>3. ASSUME NEW k \in 1 .. n, k - 1 \in T PROVE k \in T
  <2>1. Advance(text, r[k - 1], atoms[k]) \subseteq Advance(text, s[k - 1], atoms[k])
    BY <1>3 DEF Advance
  <2> QED
    BY <1>1, <2>1
<1>4. \A k \in 0 .. n : k \in T
  <2> HIDE DEF T, n
  <2> QED
    BY <1>1, <1>2, <1>3, CountingUp
<1> QED
  BY <1>1, <1>4 DEF r, s

\* A search that may begin in more places finds no less.
LEMMA MatchesMonotone ==
  ASSUME NEW text, Text(text), NEW branches, \A i \in DOMAIN branches : Atoms(branches[i].atoms),
         NEW from, NEW more, from \subseteq more, more \subseteq Positions(text),
         MatchesFrom(branches, text, from)
  PROVE  MatchesFrom(branches, text, more)
<1>1. PICK i \in DOMAIN branches : BranchMatches(branches[i], text, from)
  BY DEF MatchesFrom
<1> DEFINE branch == branches[i]
           Starts(at) == IF branch.start THEN at \cap {1} ELSE at
           Ends(at) == Reach(branch.atoms, text, Starts(at))[Len(branch.atoms)]
<1>2. Starts(from) \subseteq Starts(more) /\ Starts(more) \subseteq Positions(text)
  OBVIOUS
<1>3. Ends(from) \subseteq Ends(more)
  <2> HIDE DEF Starts
  <2> QED
    BY <1>2, ReachMonotone
<1>4. IF branch.end THEN Len(text) + 1 \in Ends(from) ELSE Ends(from) # {}
  BY <1>1 DEF BranchMatches
<1>5. IF branch.end THEN Len(text) + 1 \in Ends(more) ELSE Ends(more) # {}
  BY <1>3, <1>4
<1> QED
  BY <1>5 DEF BranchMatches, MatchesFrom

-----------------------------------------------------------------------------
(* Patterns that are anchored at both ends. *)

\* A whole pattern is tried at the start of the text only.
LEMMA WholeMatches ==
  ASSUME NEW atoms, NEW text, NEW from, 1 \in from
  PROVE  MatchesFrom(Whole(atoms).branches, text, from)
           <=> Len(text) + 1 \in Reach(atoms, text, {1})[Len(atoms)]
<1> DEFINE branch == Branch(TRUE, atoms, TRUE)
<1>1. branch.start /\ branch.end /\ branch.atoms = atoms /\ from \cap {1} = {1}
  BY DEF Branch
<1>2. DOMAIN Whole(atoms).branches = {1} /\ Whole(atoms).branches[1] = branch
  BY DEF Whole, Branches
<1> HIDE DEF branch
<1>3. BranchMatches(branch, text, from) <=> Len(text) + 1 \in Reach(atoms, text, {1})[Len(atoms)]
  BY <1>1 DEF BranchMatches
<1> QED
  BY <1>2, <1>3 DEF MatchesFrom

LEMMA PartAtoms ==
  ASSUME NEW part
  PROVE  /\ part = Multi => PartAtom(part) = Atom(AnySymbol, TRUE)
         /\ part = Single => PartAtom(part) = Atom(AnySymbol, FALSE)
         /\ part \notin {Multi, Single} => PartAtom(part) = Atom({part}, FALSE)
<1>1. Multi # Single
  BY DEF Multi, Single
<1>2. CASE part = Multi
  BY <1>1, <1>2, Zenon DEF PartAtom
<1>3. CASE part = Single
  BY <1>1, <1>3, Zenon DEF PartAtom
<1>4. CASE part # Multi /\ part # Single
  BY <1>4, Zenon DEF PartAtom, EscapeLiteral
<1> QED
  BY <1>1, <1>2, <1>3, <1>4

LEMMA PartsFit ==
  ASSUME NEW part, NEW text, NEW i, NEW j
  PROVE  /\ part = Multi => (PartFits(part, text, i, j) <=> i <= j)
         /\ part = Single => (PartFits(part, text, i, j) <=> j = i + 1)
         /\ part \notin {Multi, Single} =>
              (PartFits(part, text, i, j) <=> j = i + 1 /\ text[j] = part)
BY DEF PartFits, Multi, Single

\* The pattern of a string with wildcards matches the texts that can be cut
\* into its parts.
LEMMA StringMatches ==
  ASSUME NEW parts \in Seq(AnySymbol \cup {Multi, Single}), NEW text \in Seq(AnySymbol),
         NEW from, 1 \in from
  PROVE  MatchesFrom(StringPattern(parts).branches, text, from) <=> CutInto(parts, text)
<1> DEFINE n == Len(parts)
           L == Len(text)
           atoms == [i \in DOMAIN parts |-> PartAtom(parts[i])]
           r == Reach(atoms, text, {1})
           Step(i, a, b) == PartFits(parts[i], text, a, b)
           Cut(c, k, b) ==
             /\ c \in [0 .. k -> 0 .. L] /\ c[0] = 0 /\ c[k] = b
             /\ \A i \in 1 .. k : Step(i, c[i - 1], c[i])
<1>1. /\ n \in Nat /\ L \in Nat /\ DOMAIN parts = 1 .. n
      /\ text \in [1 .. L -> AnySymbol]
  OBVIOUS
<1>2. Text(text) /\ Atoms(atoms) /\ Len(atoms) = n /\ {1} \subseteq Positions(text)
  <2>1. text \in Seq(Range(text))
    BY <1>1 DEF Range
  <2>2. atoms \in Seq(Range(atoms)) /\ Len(atoms) = n
    BY <1>1 DEF Range
  <2> QED
    BY <1>1, <2>1, <2>2 DEF Text, Atoms, Positions
<1>3. /\ r \in [0 .. n -> SUBSET Positions(text)] /\ r[0] = {1}
      /\ \A k \in 1 .. n : r[k] = Advance(text, r[k - 1], atoms[k])
  <2> HIDE DEF atoms
  <2> QED
    BY <1>2, ReachSteps
<1>4. ASSUME NEW k \in 1 .. n, NEW at \in SUBSET Positions(text), NEW b \in 0 .. L
      PROVE  b + 1 \in Advance(text, at, atoms[k]) <=> \E a \in 0 .. L : a + 1 \in at /\ Step(k, a, b)
  <2>0. atoms[k] = PartAtom(parts[k]) /\ at \subseteq 1 .. L + 1
    BY <1>1 DEF Positions
  <2>1. CASE parts[k] = Multi
    <3>1. Advance(text, at, atoms[k]) = { j \in 1 .. L + 1 : \E i \in at : i <= j }
      <4>1. \A i \in at, j \in 1 .. L + 1 : \A m \in i .. j - 1 : text[m] \in AnySymbol
        BY <1>1, <2>0
      <4>2. atoms[k].star /\ atoms[k].class = AnySymbol
        BY <2>0, <2>1, PartAtoms DEF Atom
      <4>3. Advance(text, at, atoms[k])
              = { j \in 1 .. Len(text) + 1 :
                    \E i \in at : i <= j /\ \A m \in i .. j - 1 : text[m] \in AnySymbol }
        BY <4>2, Zenon DEF Advance
      <4> QED
        BY <4>1, <4>3
    <3>2. b + 1 \in 1 .. L + 1
      BY <1>1
    <3>3. ASSUME NEW i \in at, i <= b + 1 PROVE \E a \in 0 .. L : a + 1 \in at /\ Step(k, a, b)
      <4>1. i - 1 \in 0 .. L /\ (i - 1) + 1 = i /\ i - 1 <= b
        BY <1>1, <2>0, <3>3
      <4>2. Step(k, i - 1, b)
        BY <2>1, <4>1, PartsFit
      <4> HIDE DEF Step
      <4> QED
        BY <4>1, <4>2
    <3>4. ASSUME NEW a \in 0 .. L, a + 1 \in at, Step(k, a, b) PROVE a + 1 <= b + 1
      <4>1. a <= b
        BY <2>1, <3>4, PartsFit
      <4> QED
        BY <1>1, <4>1
    <3> HIDE DEF Step
    <3> QED
      BY <3>1, <3>2, <3>3, <3>4
  <2>2. CASE parts[k] # Multi
    <3> DEFINE class == IF parts[k] = Single THEN AnySymbol ELSE {parts[k]}
    <3>1. Advance(text, at, atoms[k]) = { i + 1 : i \in { i \in at : i <= L /\ text[i] \in class } }
      <4>1. ~atoms[k].star /\ atoms[k].class = class
        <5>1. CASE parts[k] = Single
          BY <2>0, <5>1, PartAtoms DEF Atom
        <5>2. CASE parts[k] # Single
          <6>1. atoms[k] = Atom({parts[k]}, FALSE)
            BY <2>0, <2>2, <5>2, PartAtoms
          <6> QED
            BY <5>2, <6>1 DEF Atom
        <5> QED
          BY <5>1, <5>2
      <4> HIDE DEF class, atoms
      <4> QED
        BY <4>1 DEF Advance
    <3>2. ASSUME NEW i \in at, i <= L, text[i] \in class, b + 1 = i + 1
          PROVE  \E a \in 0 .. L : a + 1 \in at /\ Step(k, a, b)
      <4>1. i - 1 \in 0 .. L /\ (i - 1) + 1 = i /\ b = (i - 1) + 1 /\ i = b
        BY <1>1, <2>0, <3>2
      <4>2. Step(k, i - 1, b)
        BY <2>2, <3>2, <4>1, PartsFit
      <4> HIDE DEF Step
      <4> QED
        BY <4>1, <4>2
    <3>3. ASSUME NEW a \in 0 .. L, a + 1 \in at, Step(k, a, b)
          PROVE  a + 1 <= L /\ text[a + 1] \in class /\ b + 1 = (a + 1) + 1
      <4>1. b = a + 1 /\ b \in 1 .. L
        BY <1>1, <2>2, <3>3, PartsFit
      <4>2. text[b] \in class
        BY <1>1, <2>2, <3>3, <4>1, PartsFit
      <4> QED
        BY <1>1, <4>1, <4>2
    <3> HIDE DEF class, Step
    <3> QED
      BY <3>1, <3>2, <3>3
  <2> QED
    BY <2>1, <2>2
<1> DEFINE Exact(k) == \A b \in 0 .. L : b + 1 \in r[k] <=> \E c : Cut(c, k, b)
           T == { k \in 0 .. n : Exact(k) }
<1> HIDE DEF r, Step, atoms
<1>5. Exact(0)
  <2> SUFFICES ASSUME NEW b \in 0 .. L PROVE b + 1 \in r[0] <=> \E c : Cut(c, 0, b)
    BY DEF Exact
  <2>1. ASSUME b = 0 PROVE \E c : Cut(c, 0, b)
    <3> DEFINE c == [i \in 0 .. 0 |-> 0]
    <3>1. Cut(c, 0, b)
      BY <1>1, <2>1
    <3> HIDE DEF c, Cut
    <3> QED
      BY <3>1
  <2>2. ASSUME NEW c, Cut(c, 0, b) PROVE b = 0
    BY <2>2
  <2> HIDE DEF Cut
  <2> QED
    BY <1>3, <2>1, <2>2
<1>6. ASSUME NEW k \in 1 .. n, Exact(k - 1) PROVE Exact(k)
  <2> SUFFICES ASSUME NEW b \in 0 .. L PROVE b + 1 \in r[k] <=> \E c : Cut(c, k, b)
    BY DEF Exact
  <2>1. r[k - 1] \in SUBSET Positions(text)
    BY <1>1, <1>3
  <2>2. b + 1 \in r[k] <=> \E a \in 0 .. L : a + 1 \in r[k - 1] /\ Step(k, a, b)
    <3>1. r[k] = Advance(text, r[k - 1], atoms[k])
      BY <1>3
    <3> QED
      BY <1>4, <2>1, <3>1
  <2>3. \A a \in 0 .. L : a + 1 \in r[k - 1] <=> \E c : Cut(c, k - 1, a)
    BY <1>6
  <2>4. ASSUME NEW a \in 0 .. L, NEW c, Cut(c, k - 1, a), Step(k, a, b) PROVE \E d : Cut(d, k, b)
    <3> DEFINE d == [i \in 0 .. k |-> IF i = k THEN b ELSE c[i]]
    <3>1. d \in [0 .. k -> 0 .. L] /\ d[0] = 0 /\ d[k] = b /\ d[k - 1] = a
      BY <1>1, <2>4
    <3>2. ASSUME NEW i \in 1 .. k PROVE Step(i, d[i - 1], d[i])
      <4>1. CASE i = k
        BY <2>4, <3>1, <4>1
      <4>2. CASE i # k
        <5>1. i \in 1 .. k - 1 /\ d[i] = c[i] /\ d[i - 1] = c[i - 1]
          BY <4>2
        <5> QED
          BY <2>4, <5>1
      <4> QED
        BY <4>1, <4>2
    <3>3. Cut(d, k, b)
      BY <3>1, <3>2
    <3> HIDE DEF d, Cut
    <3> QED
      BY <3>3
  <2>5. ASSUME NEW d, Cut(d, k, b)
        PROVE  \E a \in 0 .. L : (\E c : Cut(c, k - 1, a)) /\ Step(k, a, b)
    <3> DEFINE a == d[k - 1]
               c == [i \in 0 .. k - 1 |-> d[i]]
    <3>1. a \in 0 .. L /\ Step(k, a, b)
      BY <2>5
    <3>2. Cut(c, k - 1, a)
      <4>1. c \in [0 .. k - 1 -> 0 .. L] /\ c[0] = 0 /\ c[k - 1] = a
        BY <2>5
      <4>2. ASSUME NEW i \in 1 .. k - 1 PROVE Step(i, c[i - 1], c[i])
        <5>1. c[i] = d[i] /\ c[i - 1] = d[i - 1] /\ i \in 1 .. k
          OBVIOUS
        <5> QED
          BY <2>5, <5>1
      <4> QED
        BY <4>1, <4>2
    <3> HIDE DEF a, c, Cut
    <3> QED
      BY <3>1, <3>2
  <2> HIDE DEF Cut
  <2> QED
    BY <2>2, <2>3, <2>4, <2>5
<1>7. Exact(n)
  <2> HIDE DEF Exact
  <2>1. 0 \in T /\ \A k \in 1 .. n : k - 1 \in T => k \in T
    BY <1>1, <1>5, <1>6
  <2>2. \A k \in 0 .. n : k \in T
    <3> HIDE DEF T, n
    <3> QED
      BY <1>1, <2>1, CountingUp
  <2> QED
    BY <1>1, <2>2
<1>8. CutInto(parts, text) <=> \E c : Cut(c, n, L)
  BY DEF CutInto, Step
<1>9. MatchesFrom(StringPattern(parts).branches, text, from) <=> L + 1 \in r[n]
  BY <1>2, WholeMatches DEF StringPattern, r, atoms
<1>10. L + 1 \in r[n] <=> \E c : Cut(c, n, L)
  <2>1. L \in 0 .. L
    BY <1>1
  <2> HIDE DEF Cut, r, L, n
  <2> QED
    BY <1>7, <2>1
<1> HIDE DEF Cut, r, L, n
<1> QED
  BY <1>8, <1>9, <1>10

-----------------------------------------------------------------------------
(* Patterns of a fixed length: numbers and networks. *)

Plain(atoms) == Atoms(atoms) /\ \A k \in 1 .. Len(atoms) : ~atoms[k].star

\* Plain atoms match the texts of their length that are in their classes.
LEMMA ClassesMatch ==
  ASSUME NEW atoms, Plain(atoms), NEW text \in Seq(AnySymbol), NEW from, 1 \in from
  PROVE  MatchesFrom(Whole(atoms).branches, text, from)
           <=> /\ Len(text) = Len(atoms)
               /\ \A k \in 1 .. Len(atoms) : text[k] \in atoms[k].class
<1> DEFINE n == Len(atoms)
           L == Len(text)
           r == Reach(atoms, text, {1})
           Fits(k) == k <= L /\ \A i \in 1 .. k : text[i] \in atoms[i].class
           T == { k \in 0 .. n : r[k] = IF Fits(k) THEN {k + 1} ELSE {} }
<1>1. n \in Nat /\ L \in Nat /\ Text(text) /\ {1} \subseteq Positions(text)
  <2>1. text \in [1 .. L -> AnySymbol] /\ L \in Nat
    OBVIOUS
  <2>2. text \in Seq(Range(text))
    BY <2>1 DEF Range
  <2> QED
    BY <2>1, <2>2 DEF Plain, Atoms, Text, Positions
<1>2. /\ r \in [0 .. n -> SUBSET Positions(text)] /\ r[0] = {1}
      /\ \A k \in 1 .. n : r[k] = Advance(text, r[k - 1], atoms[k])
  BY <1>1, ReachSteps DEF Plain
<1> HIDE DEF r
<1>3. 0 \in T
  BY <1>1, <1>2
<1>4. ASSUME NEW k \in 1 .. n, k - 1 \in T PROVE k \in T
  <2> DEFINE at == r[k - 1]
  <2>1. r[k] = { i + 1 : i \in { i \in at : i <= L /\ text[i] \in atoms[k].class } }
    <3>1. ~atoms[k].star /\ r[k] = Advance(text, at, atoms[k])
      BY <1>2 DEF Plain
    <3> QED
      BY <3>1 DEF Advance
  <2>2. CASE Fits(k - 1)
    <3>1. at = {k}
      BY <1>1, <1>4, <2>2
    <3>2. Fits(k) <=> k <= L /\ text[k] \in atoms[k].class
      BY <1>1, <2>2
    <3> HIDE DEF Fits, at
    <3>3. r[k] = IF Fits(k) THEN {k + 1} ELSE {}
      BY <2>1, <3>1, <3>2
    <3> QED
      BY <3>3
  <2>3. CASE ~Fits(k - 1)
    <3>1. at = {}
      BY <1>4, <2>3
    <3>2. ~Fits(k)
      BY <1>1, <2>3
    <3> HIDE DEF Fits, at
    <3>3. r[k] = {}
      BY <2>1, <3>1
    <3> QED
      BY <3>2, <3>3
  <2> QED
    BY <2>2, <2>3
<1>5. n \in T
  <2> HIDE DEF T, n
  <2>1. \A k \in 0 .. n : k \in T
    BY <1>1, <1>3, <1>4, CountingUp
  <2> QED
    BY <1>1, <2>1
<1>6. L + 1 \in r[n] <=> L = n /\ Fits(n)
  BY <1>1, <1>5
<1>7. MatchesFrom(Whole(atoms).branches, text, from) <=> L + 1 \in r[n]
  BY WholeMatches DEF r
<1> QED
  BY <1>1, <1>6, <1>7

\* The pattern of a value, kind by kind.
LEMMA PatternOfKind ==
  ASSUME NEW value
  PROVE  /\ value.kind = "string" => PatternForValue(value) = StringPattern(value.parts)
         /\ value.kind = "number" =>
              PatternForValue(value)
                = Whole([i \in DOMAIN value.text |-> EscapeLiteral(value.text[i])])
         /\ value.kind = "cidr" =>
              PatternForValue(value) = CidrPattern(value.octets, value.prefix)
         /\ value.kind = "regex" => PatternForValue(value) = Branches(value.branches)
<1>1. CASE value.kind = "string"
  BY <1>1, Zenon DEF PatternForValue
<1>2. CASE value.kind = "number"
  BY <1>2, Zenon DEF PatternForValue
<1>3. CASE value.kind = "cidr"
  BY <1>3, Zenon DEF PatternForValue
<1>4. CASE value.kind = "regex"
  BY <1>4, Zenon DEF PatternForValue
<1> QED
  BY <1>1, <1>2, <1>3, <1>4

LEMMA NumberMatches ==
  ASSUME NEW value, ParsedValue(value), value.kind = "number",
         NEW text \in Seq(AnySymbol), NEW from, 1 \in from
  PROVE  MatchesFrom(PatternForValue(value).branches, text, from) <=> text = value.text
<1> DEFINE atoms == [i \in DOMAIN value.text |-> EscapeLiteral(value.text[i])]
<1>1. value.text \in Seq(Range(value.text))
  BY DEF ParsedValue
<1>2. Plain(atoms) /\ Len(atoms) = Len(value.text)
  <2>1. atoms \in Seq(Range(atoms)) /\ Len(atoms) = Len(value.text)
    <3>1. Len(value.text) \in Nat /\ DOMAIN value.text = 1 .. Len(value.text)
      BY <1>1
    <3> QED
      BY <3>1 DEF Range
  <2>2. \A k \in 1 .. Len(atoms) : ~atoms[k].star
    BY <1>1, <2>1 DEF EscapeLiteral, Atom
  <2> QED
    BY <2>1, <2>2 DEF Plain, Atoms
<1>3. \A k \in 1 .. Len(atoms) : atoms[k].class = {value.text[k]}
  BY <1>1, <1>2 DEF EscapeLiteral, Atom
<1>4. PatternForValue(value) = Whole(atoms)
  BY PatternOfKind
<1> HIDE DEF atoms
<1>5. MatchesFrom(PatternForValue(value).branches, text, from)
        <=> Len(text) = Len(value.text) /\ \A k \in 1 .. Len(value.text) : text[k] = value.text[k]
  BY <1>2, <1>3, <1>4, ClassesMatch
<1>6. text = value.text
        <=> Len(text) = Len(value.text) /\ \A k \in 1 .. Len(value.text) : text[k] = value.text[k]
  BY <1>1
<1> QED
  BY <1>5, <1>6

\* The octets that share their leading bits with one are a range.
LEMMA OctetBlock ==
  ASSUME NEW octet \in AnyOctet, NEW bits \in 0..8, NEW other
  PROVE  other \in OctetRange((octet \div PowerOfTwo(bits)) * PowerOfTwo(bits), bits)
           <=> other \in AnyOctet /\ other \div PowerOfTwo(bits) = octet \div PowerOfTwo(bits)
<1>1. bits \in {0, 1, 2, 3, 4, 5, 6, 7, 8}
  OBVIOUS
<1>2. CASE bits = 0
  BY <1>2 DEF OctetRange, PowerOfTwo, AnyOctet
<1>3. CASE bits = 1
  BY <1>3 DEF OctetRange, PowerOfTwo, AnyOctet
<1>4. CASE bits = 2
  BY <1>4 DEF OctetRange, PowerOfTwo, AnyOctet
<1>5. CASE bits = 3
  BY <1>5 DEF OctetRange, PowerOfTwo, AnyOctet
<1>6. CASE bits = 4
  BY <1>6 DEF OctetRange, PowerOfTwo, AnyOctet
<1>7. CASE bits = 5
  BY <1>7 DEF OctetRange, PowerOfTwo, AnyOctet
<1>8. CASE bits = 6
  BY <1>8 DEF OctetRange, PowerOfTwo, AnyOctet
<1>9. CASE bits = 7
  BY <1>9 DEF OctetRange, PowerOfTwo, AnyOctet
<1>10. CASE bits = 8
  BY <1>10 DEF OctetRange, PowerOfTwo, AnyOctet
<1> QED
  BY <1>1, <1>2, <1>3, <1>4, <1>5, <1>6, <1>7, <1>8, <1>9, <1>10

LEMMA OctetExtremes ==
  ASSUME NEW octet \in AnyOctet, NEW other \in AnyOctet
  PROVE  /\ other = octet <=> other \div 1 = octet \div 1
         /\ other \div 256 = octet \div 256
<1>1. octet \in 0..255 /\ other \in 0..255
  BY DEF AnyOctet
<1>2. octet \div 1 = octet /\ other \div 1 = other
  BY <1>1
<1>3. octet \div 256 = 0 /\ other \div 256 = 0
  BY <1>1
<1> QED
  BY <1>2, <1>3

\* The pattern of a network matches the addresses with its leading bits.
LEMMA CidrMatches ==
  ASSUME NEW octets \in [1..4 -> AnyOctet], NEW prefix \in 0..32,
         NEW text \in Seq(AnySymbol), NEW from, 1 \in from
  PROVE  MatchesFrom(CidrPattern(octets, prefix).branches, text, from)
           <=> InNetwork(octets, prefix, text)
<1> DEFINE full == prefix \div 8
           hostBits == 8 - (prefix % 8)
           low == (octets[full + 1] \div PowerOfTwo(hostBits)) * PowerOfTwo(hostBits)
           Class(i) == CASE i <= full -> {octets[i]}
                         [] i = full + 1 /\ prefix % 8 # 0 -> OctetRange(low, hostBits)
                         [] OTHER -> AnyOctet
           atoms == [i \in 1..4 |-> Atom(Class(i), FALSE)]
           Bits(i) == IF prefix >= 8 * i THEN 0
                      ELSE IF prefix <= 8 * (i - 1) THEN 8 ELSE 8 * i - prefix
           Same(i, other) ==
             other \in AnyOctet
               /\ other \div PowerOfTwo(Bits(i)) = octets[i] \div PowerOfTwo(Bits(i))
<1>1. CidrPattern(octets, prefix) = Whole(atoms)
  BY Zenon DEF CidrPattern
<1>2. ASSUME NEW i \in 1..4, NEW other PROVE other \in Class(i) <=> Same(i, other)
  <2>1. octets[i] \in AnyOctet /\ full \in 0..4
    OBVIOUS
  <2>2. CASE i <= full
    <3>1. i # full + 1
      BY <2>1, <2>2
    <3>2. Class(i) = {octets[i]}
      <4> HIDE DEF low, full, hostBits
      <4> QED
        BY <2>2, <3>1, Zenon
    <3>3. Bits(i) = 0 /\ PowerOfTwo(0) = 1
      BY <2>2 DEF PowerOfTwo
    <3> HIDE DEF Class, Bits
    <3>4. Same(i, other) <=> other \in AnyOctet /\ other \div 1 = octets[i] \div 1
      BY <3>3
    <3> HIDE DEF Same
    <3> QED
      BY <2>1, <3>2, <3>4, OctetExtremes
  <2>3. CASE i = full + 1 /\ prefix % 8 # 0
    <3>1. ~(i <= full) /\ low = (octets[i] \div PowerOfTwo(hostBits)) * PowerOfTwo(hostBits)
      BY <2>1, <2>3
    <3>2. Class(i) = OctetRange(low, hostBits)
      <4> HIDE DEF low, full, hostBits
      <4> QED
        BY <2>3, <3>1, Zenon
    <3>3. Bits(i) = hostBits /\ hostBits \in 0..8
      BY <2>3
    <3> HIDE DEF Class, Bits, hostBits, low
    <3> QED
      BY <2>1, <3>1, <3>2, <3>3, OctetBlock
  <2>4. CASE ~(i <= full) /\ ~(i = full + 1 /\ prefix % 8 # 0)
    <3>1. Class(i) = AnyOctet
      <4> HIDE DEF low, full, hostBits
      <4> QED
        BY <2>4, Zenon
    <3>2. Bits(i) = 8 /\ PowerOfTwo(8) = 256
      BY <2>4 DEF PowerOfTwo
    <3> HIDE DEF Class, Bits
    <3>3. Same(i, other) <=> other \in AnyOctet /\ other \div 256 = octets[i] \div 256
      BY <3>2
    <3> HIDE DEF Same
    <3> QED
      BY <2>1, <3>1, <3>3, OctetExtremes
  <2> QED
    BY <2>2, <2>3, <2>4
<1>3. Plain(atoms) /\ Len(atoms) = 4 /\ \A i \in 1..4 : atoms[i].class = Class(i)
  <2> HIDE DEF Class
  <2> QED
    BY DEF Plain, Atoms, Atom, Range
<1>4. InNetwork(octets, prefix, text)
        <=> Len(text) = 4 /\ \A i \in 1..4 : Same(i, text[i])
  BY DEF InNetwork
<1> HIDE DEF atoms, Class, Same
<1>5. MatchesFrom(CidrPattern(octets, prefix).branches, text, from)
        <=> Len(text) = 4 /\ \A i \in 1..4 : text[i] \in Class(i)
  BY <1>1, <1>3, ClassesMatch, SMTT(20)
<1> QED
  BY <1>2, <1>4, <1>5

-----------------------------------------------------------------------------
(* The pattern of a value. *)

FlatPattern(pattern) ==
  /\ pattern.kind = "branches" /\ ~Scoped(pattern)
  /\ pattern.branches \in Seq(Range(pattern.branches)) /\ pattern.branches # <<>>
  /\ \A i \in DOMAIN pattern.branches :
       ParsedBranch(pattern.branches[i]) /\ (pattern.branches[i].flags => i = 1)

Anchored(pattern) == \A i \in DOMAIN pattern.branches : pattern.branches[i].start

LEMMA CidrIsWhole ==
  ASSUME NEW octets, NEW prefix
  PROVE  \E atoms : Atoms(atoms) /\ CidrPattern(octets, prefix) = Whole(atoms)
<1> DEFINE full == prefix \div 8
           hostBits == 8 - (prefix % 8)
           low == (octets[full + 1] \div PowerOfTwo(hostBits)) * PowerOfTwo(hostBits)
           Class(i) == CASE i <= full -> {octets[i]}
                         [] i = full + 1 /\ prefix % 8 # 0 -> OctetRange(low, hostBits)
                         [] OTHER -> AnyOctet
           atoms == [i \in 1..4 |-> Atom(Class(i), FALSE)]
<1>1. CidrPattern(octets, prefix) = Whole(atoms)
  BY Zenon DEF CidrPattern
<1>2. Atoms(atoms)
  <2> HIDE DEF Class
  <2> QED
    BY DEF Atoms, Range
<1> HIDE DEF atoms
<1> QED
  BY <1>1, <1>2

LEMMA WholeIsFlat ==
  ASSUME NEW atoms, Atoms(atoms)
  PROVE  /\ FlatPattern(Whole(atoms)) /\ Anchored(Whole(atoms))
         /\ ~Whole(atoms).branches[1].flags
<1> DEFINE branch == Branch(TRUE, atoms, TRUE)
           pattern == Whole(atoms)
<1>1. ParsedBranch(branch) /\ branch.start /\ ~branch.flags
  BY DEF Branch, ParsedBranch, Atoms
<1>2. pattern.kind = "branches" /\ pattern.branches = <<branch>> /\ ~Scoped(pattern)
  BY DEF Whole, Branches, Scoped
<1> HIDE DEF branch, pattern
<1>3. /\ pattern.branches \in Seq({branch}) /\ Range(pattern.branches) = {branch}
      /\ DOMAIN pattern.branches = {1} /\ pattern.branches[1] = branch /\ pattern.branches # <<>>
  BY <1>2 DEF Range
<1>4. FlatPattern(pattern) /\ Anchored(pattern) /\ ~pattern.branches[1].flags
  BY <1>1, <1>2, <1>3 DEF FlatPattern, Anchored
<1> QED
  BY <1>4 DEF pattern

\* Every pattern of a value is flat; only a regular expression need not be
\* anchored, and it is taken as it is.
LEMMA ValuePattern ==
  ASSUME NEW value, ParsedValue(value), HasPattern(value)
  PROVE  /\ FlatPattern(PatternForValue(value))
         /\ value.kind # "regex" =>
              Anchored(PatternForValue(value)) /\ ~PatternForValue(value).branches[1].flags
         /\ value.kind = "regex" => PatternForValue(value).branches = value.branches
<1>1. value.kind \in {"string", "number", "cidr", "regex"}
  BY DEF ParsedValue, HasPattern
<1>2. CASE value.kind = "string"
  <2> DEFINE atoms == [i \in DOMAIN value.parts |-> PartAtom(value.parts[i])]
  <2>1. Atoms(atoms)
    <3>1. Len(value.parts) \in Nat /\ DOMAIN value.parts = 1 .. Len(value.parts)
      BY <1>2 DEF ParsedValue
    <3> QED
      BY <3>1 DEF Atoms, Range
  <2>2. PatternForValue(value) = Whole(atoms)
    BY <1>2, PatternOfKind DEF StringPattern
  <2> HIDE DEF atoms
  <2> QED
    BY <1>2, <2>1, <2>2, WholeIsFlat
<1>3. CASE value.kind = "number"
  <2> DEFINE atoms == [i \in DOMAIN value.text |-> EscapeLiteral(value.text[i])]
  <2>1. Atoms(atoms)
    <3>1. Len(value.text) \in Nat /\ DOMAIN value.text = 1 .. Len(value.text)
      BY <1>3 DEF ParsedValue
    <3> QED
      BY <3>1 DEF Atoms, Range
  <2>2. PatternForValue(value) = Whole(atoms)
    BY <1>3, PatternOfKind
  <2> HIDE DEF atoms
  <2> QED
    BY <1>3, <2>1, <2>2, WholeIsFlat
<1>4. CASE value.kind = "cidr"
  <2>1. PICK atoms : Atoms(atoms) /\ CidrPattern(value.octets, value.prefix) = Whole(atoms)
    BY CidrIsWhole
  <2> QED
    BY <1>4, <2>1, PatternOfKind, WholeIsFlat
<1>5. CASE value.kind = "regex"
  <2>1. PatternForValue(value) = Branches(value.branches)
    BY <1>5, PatternOfKind
  <2>2. /\ PatternForValue(value).kind = "branches"
        /\ PatternForValue(value).branches = value.branches
        /\ ~Scoped(PatternForValue(value))
    BY <2>1 DEF Branches, Scoped
  <2> QED
    BY <1>5, <2>2 DEF FlatPattern, ParsedValue
<1> QED
  BY <1>1, <1>2, <1>3, <1>4, <1>5

\* The pattern of a value, searched for anywhere, matches what Sigma says
\* the value matches (wazuh.py:907-1030).
THEOREM ValueExact ==
  ASSUME NEW value, ParsedValue(value), HasPattern(value), NEW text \in Seq(AnySymbol)
  PROVE  MatchesFrom(PatternForValue(value).branches, text, Positions(text))
           <=> SigmaMatches(value, text)
<1>1. value.kind \in {"string", "number", "cidr", "regex"}
  BY DEF ParsedValue, HasPattern
<1>2. 1 \in Positions(text)
  BY DEF Positions
<1>3. CASE value.kind = "string"
  <2>1. value.parts \in Seq(AnySymbol \cup {Multi, Single})
    BY <1>3 DEF ParsedValue
  <2>2. SigmaMatches(value, text) <=> CutInto(value.parts, text)
    BY <1>3, Zenon DEF SigmaMatches
  <2> QED
    BY <1>2, <1>3, <2>1, <2>2, PatternOfKind, StringMatches
<1>4. CASE value.kind = "number"
  <2>1. SigmaMatches(value, text) <=> text = value.text
    BY <1>4, Zenon DEF SigmaMatches
  <2> QED
    BY <1>2, <1>4, <2>1, NumberMatches
<1>5. CASE value.kind = "cidr"
  <2>1. value.octets \in [1..4 -> AnyOctet] /\ value.prefix \in 0..32
    BY <1>5 DEF ParsedValue
  <2>2. SigmaMatches(value, text) <=> InNetwork(value.octets, value.prefix, text)
    BY <1>5, Zenon DEF SigmaMatches
  <2> QED
    BY <1>2, <1>5, <2>1, <2>2, PatternOfKind, CidrMatches
<1>6. CASE value.kind = "regex"
  <2>1. SigmaMatches(value, text) <=> MatchesFrom(value.branches, text, Positions(text))
    BY <1>6, Zenon DEF SigmaMatches, Positions
  <2> QED
    BY <1>6, <2>1, ValuePattern
<1> QED
  BY <1>1, <1>3, <1>4, <1>5, <1>6

-----------------------------------------------------------------------------
(* Patterns inside a pattern. *)

\* Scoping the flags changes neither the anchors nor what is matched.
LEMMA ScopedIsSame ==
  ASSUME NEW pattern, FlatPattern(pattern)
  PROVE  LET part == ScopeLeadingFlags(pattern)
         IN  /\ part.kind = "branches" /\ DOMAIN part.branches = DOMAIN pattern.branches
             /\ \A i \in DOMAIN part.branches :
                  /\ ~part.branches[i].flags
                  /\ part.branches[i].start = pattern.branches[i].start
                  /\ part.branches[i].atoms = pattern.branches[i].atoms
                  /\ part.branches[i].end = pattern.branches[i].end
             /\ Scoped(part) <=> pattern.branches[1].flags
<1> DEFINE part == ScopeLeadingFlags(pattern)
<1>1. /\ Len(pattern.branches) \in Nat /\ DOMAIN pattern.branches = 1 .. Len(pattern.branches)
      /\ 1 \in DOMAIN pattern.branches
      /\ pattern.kind = "branches" /\ ~Scoped(pattern)
  BY DEF FlatPattern
<1>2. CASE pattern.branches[1].flags
  <2> DEFINE scoped == [pattern.branches EXCEPT ![1].flags = FALSE]
  <2>1. part = [kind |-> "branches", branches |-> scoped, scoped |-> TRUE]
    BY <1>1, <1>2 DEF ScopeLeadingFlags
  <2>2. part.kind = "branches" /\ part.branches = scoped /\ Scoped(part)
    BY <2>1 DEF Scoped
  <2>3. DOMAIN scoped = DOMAIN pattern.branches
    OBVIOUS
  <2>4. ASSUME NEW i \in DOMAIN scoped
        PROVE  /\ ~scoped[i].flags
               /\ scoped[i].start = pattern.branches[i].start
               /\ scoped[i].atoms = pattern.branches[i].atoms
               /\ scoped[i].end = pattern.branches[i].end
    <3>1. ParsedBranch(pattern.branches[i]) /\ (pattern.branches[i].flags => i = 1)
      BY DEF FlatPattern
    <3> QED
      BY <1>1, <3>1 DEF ParsedBranch
  <2> HIDE DEF scoped, part
  <2> QED
    BY <1>2, <2>2, <2>3, <2>4 DEF part
<1>3. CASE ~pattern.branches[1].flags
  <2>1. part = pattern
    BY <1>3 DEF ScopeLeadingFlags
  <2> QED
    BY <1>1, <1>3, <2>1 DEF FlatPattern
<1> QED
  BY <1>2, <1>3

LEMMA ScopedMatches ==
  ASSUME NEW pattern, FlatPattern(pattern), NEW text, NEW from
  PROVE  MatchesFrom(ScopeLeadingFlags(pattern).branches, text, from)
           <=> MatchesFrom(pattern.branches, text, from)
<1> DEFINE part == ScopeLeadingFlags(pattern)
<1>1. DOMAIN part.branches = DOMAIN pattern.branches
  BY ScopedIsSame
<1>2. ASSUME NEW i \in DOMAIN pattern.branches
      PROVE  BranchMatches(part.branches[i], text, from)
               <=> BranchMatches(pattern.branches[i], text, from)
  <2> DEFINE one == part.branches[i]
             other == pattern.branches[i]
  <2>1. one.start = other.start /\ one.atoms = other.atoms /\ one.end = other.end
    BY ScopedIsSame
  <2> HIDE DEF one, other
  <2>2. BranchMatches(one, text, from) <=> BranchMatches(other, text, from)
    BY <2>1, Zenon DEF BranchMatches
  <2> QED
    BY <2>2 DEF one, other
<1> QED
  BY <1>1, <1>2 DEF MatchesFrom

\* A flat pattern compiles, and so do a chain and an alternation of them.
LEMMA FlatCompiles ==
  ASSUME NEW pattern, FlatPattern(pattern)
  PROVE  Compiles(pattern)
BY DEF FlatPattern, Compiles

LEMMA PartsCompile ==
  ASSUME NEW patterns, \A p \in patterns : FlatPattern(p)
  PROVE  Compiles(AllOf(patterns)) /\ Compiles(AnyOf(patterns))
<1> DEFINE Parts == { ScopeLeadingFlags(p) : p \in patterns }
<1>1. \A part \in Parts : \A i \in DOMAIN part.branches : ~part.branches[i].flags
  BY ScopedIsSame
<1> HIDE DEF Parts
<1>2. \A kind \in {"all", "any"} : Compiles([kind |-> kind, parts |-> Parts])
  BY <1>1 DEF Compiles
<1> QED
  BY <1>2 DEF AllOf, AnyOf, Parts

\* A lookahead that is safe, and whose branches are all anchored or none is,
\* holds somewhere where its pattern matches, and at the start if it does.
LEMMA LookaheadExact ==
  ASSUME NEW pattern, FlatPattern(pattern), LookaheadSafe(pattern),
         pattern.branches[1].start => Anchored(pattern), NEW text, Text(text)
  PROVE  LET part == ScopeLeadingFlags(pattern)
             matches == MatchesFrom(pattern.branches, text, Positions(text))
         IN  /\ matches => LookaheadHolds(part, text, 1)
             /\ \A position \in Positions(text) : LookaheadHolds(part, text, position) => matches
<1> DEFINE part == ScopeLeadingFlags(pattern)
           AtFront == FirstStartAnchor(part) = "front"
           From(position) == IF AtFront THEN {position} ELSE position .. Len(text) + 1
<1>1. \A position : LookaheadHolds(part, text, position)
                       <=> MatchesFrom(pattern.branches, text, From(position))
  BY ScopedMatches DEF LookaheadHolds
<1>2. Len(text) \in Nat /\ \A position \in Positions(text) : From(position) \subseteq Positions(text)
  BY DEF Text, Positions
<1>3. \A i \in DOMAIN pattern.branches : Atoms(pattern.branches[i].atoms)
  <2> SUFFICES ASSUME NEW i \in DOMAIN pattern.branches PROVE Atoms(pattern.branches[i].atoms)
    OBVIOUS
  <2>1. ParsedBranch(pattern.branches[i])
    BY DEF FlatPattern
  <2> QED
    BY <2>1 DEF ParsedBranch, Atoms
<1>4. ASSUME NEW position \in Positions(text), LookaheadHolds(part, text, position)
      PROVE  MatchesFrom(pattern.branches, text, Positions(text))
  <2> HIDE DEF From, part
  <2> QED
    BY <1>1, <1>2, <1>3, <1>4, MatchesMonotone
<1>5. ASSUME MatchesFrom(pattern.branches, text, Positions(text))
      PROVE  LookaheadHolds(part, text, 1)
  <2>1. CASE ~AtFront
    <3>1. From(1) = Positions(text)
      BY <2>1 DEF Positions
    <3> HIDE DEF From, part
    <3> QED
      BY <1>1, <1>5, <3>1
  <2>2. CASE AtFront
    <3>1. pattern.branches[1].start
      <4>1. 1 \in DOMAIN pattern.branches
        BY DEF FlatPattern
      <4>2. part.branches[1].start
        BY <2>2 DEF FirstStartAnchor
      <4> QED
        BY <4>1, <4>2, ScopedIsSame
    <3>2. Anchored(pattern) /\ From(1) = {1} /\ Positions(text) \cap {1} = {1} /\ {1} \cap {1} = {1}
      BY <1>2, <2>2, <3>1 DEF Positions
    <3>3. MatchesFrom(pattern.branches, text, {1})
      BY <1>5, <3>2 DEF MatchesFrom, BranchMatches, Anchored
    <3> HIDE DEF From, part
    <3> QED
      BY <1>1, <3>2, <3>3
  <2> QED
    BY <2>1, <2>2
<1> QED
  BY <1>4, <1>5

-----------------------------------------------------------------------------
(* Strict mode. *)

(* The mappings nobody asked an unsafe mode for: a Windows rule either finds *)
(* a verified target in one, or is excluded by its products.                 *)
Guarded(mapping) ==
  \/ mapping.target.namespace \in {"system", "eventdata"}
  \/ mapping.products # {} /\ "windows" \notin mapping.products

RegistryInv ==
  /\ Table(registry)
  /\ ~bypassed => \A i \in DOMAIN registry : Guarded(registry[i])

EmittedInv == emitted \in Seq(Range(emitted))

IInv == config \in Configs /\ RegistryInv /\ EmittedInv /\ StrictStaysVerified

-----------------------------------------------------------------------------
(* The lookup. *)

\* Lookup finds a mapping for the field that applies, if there is one: among
\* finitely many there is one that none is better than.
LEMMA LookupApplies ==
  ASSUME NEW mappings, Table(mappings), NEW field, NEW context,
         Applicable(mappings, field, context) # {}
  PROVE  Lookup(mappings, field, context) \in Applicable(mappings, field, context)
<1> DEFINE A == Applicable(mappings, field, context)
           Rank(i) == Specificity(mappings[i])
           Better(i, j) == Rank(i) > Rank(j) \/ (Rank(i) = Rank(j) /\ i <= j)
           Above(i) == { j \in A : Better(j, i) /\ j # i }
           T == { Above(i) : i \in A }
<1>1. A \subseteq 1 .. Len(mappings) /\ Len(mappings) \in Nat /\ DOMAIN mappings = 1 .. Len(mappings)
  BY DEF Applicable, Table
<1>2. IsFiniteSet(A)
  <2>1. IsFiniteSet(1 .. Len(mappings))
    BY <1>1, FS_Interval
  <2> HIDE DEF A
  <2> QED
    BY <1>1, <2>1, FS_Subset
<1>3. \A i \in A : Rank(i) \in Nat
  <2> SUFFICES ASSUME NEW i \in A PROVE Rank(i) \in Nat
    OBVIOUS
  <2>1. IsFiniteSet(mappings[i].services) /\ IsFiniteSet(mappings[i].categories)
    BY <1>1 DEF Table, Mapped
  <2>2. Cardinality(mappings[i].services) \in Nat /\ Cardinality(mappings[i].categories) \in Nat
    BY <2>1, FS_CardinalityType
  <2> QED
    BY <2>2 DEF Specificity
<1>4. T \subseteq FiniteSubsetsOf(A) /\ T # {}
  <2>1. \A i \in A : Above(i) \subseteq A /\ IsFiniteSet(Above(i))
    BY <1>2, FS_Subset
  <2> QED
    BY <2>1, ZenonT(30) DEF FiniteSubsetsOf
<1>5. PICK X \in T : \A Y \in T : ~ (<<Y, X>> \in StrictSubsetOrdering(A))
  <2>1. IsWellFoundedOn(StrictSubsetOrdering(A), FiniteSubsetsOf(A))
    BY FS_StrictSubsetOrderingWellFounded
  <2> HIDE DEF T, A
  <2> QED
    BY <1>4, <2>1, WFMin
<1>6. PICK i \in A : X = Above(i)
  BY <1>5
<1>7. Above(i) = {}
  <2> SUFFICES ASSUME NEW j \in Above(i) PROVE FALSE
    OBVIOUS
  <2>1. j \in A /\ i \in A /\ j \in 1 .. Len(mappings) /\ i \in 1 .. Len(mappings)
    BY <1>1, <1>6
  <2>2. Above(j) \subseteq Above(i)
    <3> SUFFICES ASSUME NEW k \in Above(j) PROVE k \in Above(i)
      OBVIOUS
    <3>1. k \in A /\ k \in 1 .. Len(mappings)
      BY <1>1
    <3> HIDE DEF A, Rank
    <3>2. Rank(i) \in Nat /\ Rank(j) \in Nat /\ Rank(k) \in Nat
      BY <1>3, <2>1, <3>1
    <3> QED
      BY <1>1, <2>1, <3>1, <3>2
  <2>3. j \notin Above(j)
    OBVIOUS
  <2>4. Above(j) \in T /\ Above(j) \subseteq A /\ Above(i) \subseteq A
    BY <2>1
  <2>5. <<Above(j), Above(i)>> \in StrictSubsetOrdering(A)
    BY <2>2, <2>3, <2>4 DEF StrictSubsetOrdering
  <2> QED
    BY <1>5, <1>6, <2>4, <2>5
<1>8. \A j \in A : Better(i, j)
  <2> SUFFICES ASSUME NEW j \in A PROVE Better(i, j)
    OBVIOUS
  <2>1. ~Better(j, i) \/ j = i
    BY <1>7
  <2>2. i \in 1 .. Len(mappings) /\ j \in 1 .. Len(mappings) /\ Rank(i) \in Nat /\ Rank(j) \in Nat
    BY <1>1, <1>3, <1>6
  <2> HIDE DEF A, Rank
  <2> QED
    BY <1>1, <2>1, <2>2
<1>9. Lookup(mappings, field, context) = CHOOSE k \in A : \A j \in A : Better(k, j)
  BY DEF Lookup
<1> QED
  BY <1>6, <1>8, <1>9
-----------------------------------------------------------------------------
(* The registry. *)

\* A table that is extended by a table keeps what it had.
LEMMA TableExtended ==
  ASSUME NEW first, Table(first), NEW second, Table(second)
  PROVE  /\ Table(first \o second)
         /\ \A i \in DOMAIN first : i \in DOMAIN (first \o second) /\ (first \o second)[i] = first[i]
         /\ \A i \in DOMAIN (first \o second) :
              \/ i \in DOMAIN first /\ (first \o second)[i] = first[i]
              \/ \E j \in DOMAIN second : (first \o second)[i] = second[j]
<1> DEFINE S == Range(first) \cup Range(second)
           both == first \o second
<1>1. first \in Seq(S) /\ second \in Seq(S)
  BY DEF Table
<1>2. /\ both \in Seq(S) /\ Len(both) = Len(first) + Len(second)
      /\ \A i \in 1 .. Len(first) + Len(second) :
           both[i] = IF i <= Len(first) THEN first[i] ELSE second[i - Len(first)]
  <2> HIDE DEF S
  <2> QED
    BY <1>1, ConcatProperties
<1>3. /\ DOMAIN first = 1 .. Len(first) /\ DOMAIN second = 1 .. Len(second)
      /\ DOMAIN both = 1 .. Len(both) /\ Len(first) \in Nat /\ Len(second) \in Nat
  BY <1>1, <1>2
<1> HIDE DEF both, S
<1>4. \A i \in DOMAIN first : i \in DOMAIN both /\ both[i] = first[i]
  BY <1>2, <1>3
<1>5. \A i \in DOMAIN both : \/ i \in DOMAIN first /\ both[i] = first[i]
                             \/ \E j \in DOMAIN second : both[i] = second[j]
  <2> SUFFICES ASSUME NEW i \in DOMAIN both, ~(i \in DOMAIN first /\ both[i] = first[i])
               PROVE  \E j \in DOMAIN second : both[i] = second[j]
    OBVIOUS
  <2>1. i - Len(first) \in DOMAIN second /\ both[i] = second[i - Len(first)]
    BY <1>2, <1>3
  <2> QED
    BY <2>1
<1>6. Table(both)
  <2>1. both \in Seq(Range(both))
    BY <1>2, <1>3 DEF Range
  <2>2. \A i \in DOMAIN both : Mapped(both[i])
    BY <1>5 DEF Table
  <2> QED
    BY <2>1, <2>2 DEF Table
<1> QED
  BY <1>4, <1>5, <1>6 DEF both

\* One mapping more is a table of one mapping more.
LEMMA AppendedIsExtended ==
  ASSUME NEW mappings, Table(mappings), NEW mapping, Mapped(mapping)
  PROVE  Table(<<mapping>>) /\ Append(mappings, mapping) = mappings \o <<mapping>>
<1>1. <<mapping>> \in Seq({mapping}) /\ Range(<<mapping>>) = {mapping}
  BY DEF Range
<1>2. Table(<<mapping>>)
  BY <1>1 DEF Table
<1>3. mappings \in Seq(Range(mappings) \cup {mapping})
  BY DEF Table
<1> QED
  BY <1>2, <1>3

\* The registry grows at its end; bypassed says whether it is still guarded.
LEMMA AddOneStep ==
  ASSUME RegistryInv, NEW mapping \in CustomMappings, AddOne(mapping)
  PROVE  /\ RegistryInv'
         /\ bypassed => bypassed'
         /\ \A i \in DOMAIN registry : i \in DOMAIN registry' /\ registry'[i] = registry[i]
<1>1. Mapped(mapping) /\ Table(registry) /\ ValidMapping(mapping)
  BY MappingsAssumption DEF RegistryInv, AddOne
<1>2. Table(<<mapping>>) /\ registry' = registry \o <<mapping>>
  BY <1>1, AppendedIsExtended DEF AddOne, AddMapping
<1>3. /\ Table(registry')
      /\ \A i \in DOMAIN registry : i \in DOMAIN registry' /\ registry'[i] = registry[i]
      /\ \A i \in DOMAIN registry' :
           \/ i \in DOMAIN registry /\ registry'[i] = registry[i]
           \/ registry'[i] = mapping
  <2> DEFINE one == <<mapping>>
  <2>1. \A j \in DOMAIN one : one[j] = mapping
    OBVIOUS
  <2>2. Table(one) /\ registry' = registry \o one
    BY <1>2
  <2> HIDE DEF one
  <2> QED
    BY <1>1, <2>1, <2>2, TableExtended
<1>4. ASSUME ~bypassed' PROVE ~bypassed /\ Guarded(mapping)
  BY <1>1, <1>4 DEF AddOne, Bare, Guarded, ValidMapping, Mapped
<1>5. ASSUME ~bypassed' PROVE \A i \in DOMAIN registry' : Guarded(registry'[i])
  BY <1>3, <1>4, <1>5 DEF RegistryInv
<1>6. bypassed => bypassed'
  BY DEF AddOne
<1> QED
  BY <1>3, <1>5, <1>6 DEF RegistryInv

LEMMA AddBatchStep ==
  ASSUME RegistryInv, NEW batch \in Batches, NEW mode, AddBatch(batch, mode)
  PROVE  /\ RegistryInv'
         /\ bypassed => bypassed'
         /\ \A i \in DOMAIN registry : i \in DOMAIN registry' /\ registry'[i] = registry[i]
<1>1. Table(batch) /\ Table(registry) /\ registry' = registry \o batch
  BY MappingsAssumption DEF RegistryInv, AddBatch, AddCustomMappings
<1>2. /\ Table(registry')
      /\ \A i \in DOMAIN registry : i \in DOMAIN registry' /\ registry'[i] = registry[i]
      /\ \A i \in DOMAIN registry' :
           \/ i \in DOMAIN registry /\ registry'[i] = registry[i]
           \/ \E j \in DOMAIN batch : registry'[i] = batch[j]
  BY <1>1, TableExtended
<1>3. ASSUME ~bypassed', NEW j \in DOMAIN batch PROVE ~bypassed /\ Guarded(batch[j])
  <2>1. Mapped(batch[j]) /\ ValidMapping(batch[j]) /\ SafeForMode(batch[j], mode)
    BY <1>1 DEF AddBatch, BatchSafe, Table
  <2>2. ~bypassed /\ (mode = "legacy" => ~Bare(batch[j]))
    BY <1>3 DEF AddBatch
  <2> QED
    BY <2>1, <2>2 DEF Bare, Guarded, ValidMapping, Mapped, SafeForMode
<1>4. ASSUME ~bypassed' PROVE ~bypassed
  BY <1>4 DEF AddBatch
<1>5. ASSUME ~bypassed' PROVE \A i \in DOMAIN registry' : Guarded(registry'[i])
  BY <1>2, <1>3, <1>4, <1>5 DEF RegistryInv
<1> QED
  BY <1>2, <1>4, <1>5 DEF RegistryInv

-----------------------------------------------------------------------------
(* What is emitted. *)

\* A rule written is said of a field, of a rule and of a group of it.
Sound(element, group) ==
  \/ IsStatic(element)
  \/ group.field \in DOMAIN config.overrides
  \/ VerifiedFor(element, group)

\* The fields of a Windows rule that is written are sound: what the registry
\* finds for it is guarded, and its products do not exclude Windows.
LEMMA ElementSound ==
  ASSUME RegistryInv, ~bypassed, config \in Configs, config.mode # "legacy",
         NEW rule, rule.product = "windows", NEW group, Lowers(rule, group)
  PROVE  Sound(Element(rule, group), group)
<1> DEFINE field == group.field
           context == Context(rule)
           result == Resolve(registry, field, context, config.mode)
           element == Element(rule, group)
<1>1. config.mode \in {"strict", "warn"}
  BY ConfigsAssumption
<1>2. context.product = "windows"
  BY DEF Context
<1>3. element.field = FieldResult(rule, group).target /\ ShouldEmit(FieldResult(rule, group))
  BY DEF Element, Lowers
<1>4. CASE field \in StaticFields
  <2>1. FieldResult(rule, group) = Resolved(Target("bare", field))
    BY <1>4 DEF FieldResult, ResolveField
  <2>2. element.field = [namespace |-> "bare", name |-> field]
    BY <1>3, <2>1 DEF Resolved, Target
  <2> QED
    BY <1>4, <2>2 DEF IsStatic, Sound
<1>5. CASE field \in DOMAIN config.overrides
  BY <1>5 DEF Sound
<1>6. CASE field \notin StaticFields /\ field \notin DOMAIN config.overrides
  <2>1. FieldResult(rule, group) = result
    BY <1>1, <1>2, <1>6 DEF FieldResult, ResolveField
  <2>2. Applicable(registry, field, context) # {}
    <3>1. ASSUME Applicable(registry, field, context) = {}
          PROVE  result.status \in {"warning", "raised"}
      BY <1>1, <1>2, <3>1 DEF Resolve, Unresolved
    <3> QED
      BY <1>3, <2>1, <3>1 DEF ShouldEmit
  <2> DEFINE k == Lookup(registry, field, context)
  <2>3. k \in Applicable(registry, field, context)
    BY <2>2, LookupApplies DEF RegistryInv
  <2>4. k \in DOMAIN registry /\ registry[k].sigma = field /\ AppliesTo(registry[k], context)
    BY <2>3 DEF Applicable
  <2>5. element.field = registry[k].target
    BY <1>3, <2>1, <2>2 DEF Resolve, Resolved
  <2>6. registry[k].target.namespace \in {"system", "eventdata"}
    <3>1. Guarded(registry[k])
      BY <2>4 DEF RegistryInv
    <3>2. ~(registry[k].products # {} /\ "windows" \notin registry[k].products)
      <4>1. "windows" = NoValue \/ registry[k].products = {} \/ "windows" \in registry[k].products
        BY <1>2, <2>4 DEF AppliesTo, Admits
      <4> QED
        BY <4>1, NoValueAssumption
    <3> QED
      BY <3>1, <3>2 DEF Guarded
  <2> QED
    BY <2>4, <2>5, <2>6 DEF VerifiedFor, Sound
<1> QED
  BY <1>4, <1>5, <1>6

\* What was sound stays sound while the registry grows.
LEMMA SoundStays ==
  ASSUME NEW element, NEW group, Sound(element, group), UNCHANGED config,
         \A i \in DOMAIN registry : i \in DOMAIN registry' /\ registry'[i] = registry[i]
  PROVE  Sound(element, group)'
<1>1. CASE VerifiedFor(element, group)
  BY <1>1 DEF VerifiedFor, Sound
<1>2. CASE ~VerifiedFor(element, group)
  BY <1>2 DEF Sound
<1> QED
  BY <1>1, <1>2

\* StrictStaysVerified, said with Sound.
LEMMA StrictIsSound ==
  StrictStaysVerified
    <=> (config.mode # "legacy" /\ ~bypassed =>
           \A i \in DOMAIN emitted :
             emitted[i].from.product = "windows" =>
               \A j \in DOMAIN emitted[i].elements :
                 Sound(emitted[i].elements[j], emitted[i].from.groups[j]))
BY DEF StrictStaysVerified, Sound

\* A step that emits nothing and only extends the registry.
LEMMA QuietStep ==
  ASSUME IInv, UNCHANGED <<config, emitted>>, RegistryInv', bypassed => bypassed',
         \A i \in DOMAIN registry : i \in DOMAIN registry' /\ registry'[i] = registry[i]
  PROVE  IInv'
<1>1. EmittedInv' /\ (config \in Configs)'
  BY DEF IInv, EmittedInv
<1>2. StrictStaysVerified'
  <2> SUFFICES ASSUME config.mode # "legacy", ~bypassed', NEW i \in DOMAIN emitted,
                      emitted[i].from.product = "windows",
                      NEW j \in DOMAIN emitted[i].elements
               PROVE  Sound(emitted[i].elements[j], emitted[i].from.groups[j])'
    BY DEF StrictStaysVerified, Sound
  <2>1. Sound(emitted[i].elements[j], emitted[i].from.groups[j])
    BY StrictIsSound DEF IInv
  <2> QED
    BY <2>1, SoundStays
<1> QED
  BY <1>1, <1>2 DEF IInv

\* A rule that is converted is added to the file with sound elements.
LEMMA ConvertStep == ASSUME IInv, ConvertRule PROVE IInv'
<1> DEFINE rule == Head(pending).rule
           elements == [i \in DOMAIN rule.groups |-> Element(rule, rule.groups[i])]
<1>1. CASE emitted' = emitted
  <2>1. RegistryInv'
    BY DEF IInv, RegistryInv, ConvertRule
  <2> QED
    BY <1>1, <2>1, QuietStep DEF ConvertRule
<1>2. CASE emitted' # emitted
  <2>1. PICK xml : emitted' = Append(emitted, xml) /\ xml.from = rule /\ xml.elements = elements
    BY <1>2, SMTT(20) DEF ConvertRule
  <2>2. \A i \in DOMAIN rule.groups : Lowers(rule, rule.groups[i])
    BY DEF ConvertRule, Convertible
  <2>3. /\ emitted' \in Seq(Range(emitted) \cup {xml})
        /\ Len(emitted') = Len(emitted) + 1 /\ Len(emitted) \in Nat
        /\ DOMAIN emitted = 1 .. Len(emitted) /\ DOMAIN emitted' = 1 .. Len(emitted) + 1
        /\ emitted'[Len(emitted) + 1] = xml
        /\ \A i \in DOMAIN emitted : emitted'[i] = emitted[i]
    <3>1. emitted \in Seq(Range(emitted) \cup {xml})
      BY DEF IInv, EmittedInv
    <3> QED
      BY <2>1, <3>1, AppendProperties
  <2>4. EmittedInv'
    BY <2>3 DEF EmittedInv, Range
  <2>5. RegistryInv' /\ UNCHANGED <<config, registry, bypassed>>
    BY DEF IInv, RegistryInv, ConvertRule
  <2>6. StrictStaysVerified'
    <3> SUFFICES ASSUME config.mode # "legacy", ~bypassed, NEW i \in DOMAIN emitted',
                        emitted'[i].from.product = "windows",
                        NEW j \in DOMAIN emitted'[i].elements
                 PROVE  Sound(emitted'[i].elements[j], emitted'[i].from.groups[j])
      BY <2>5 DEF StrictStaysVerified, Sound, VerifiedFor, IsStatic
    <3>1. CASE i \in DOMAIN emitted
      BY <2>3, <3>1, StrictIsSound DEF IInv
    <3>2. CASE i = Len(emitted) + 1
      <4>1. j \in DOMAIN rule.groups /\ rule.product = "windows"
        BY <2>1, <2>3, <3>2
      <4>2. Sound(Element(rule, rule.groups[j]), rule.groups[j])
        BY <2>2, <4>1, ElementSound DEF IInv
      <4> QED
        BY <2>1, <2>3, <3>2, <4>1, <4>2
    <3> QED
      BY <2>3, <3>1, <3>2
  <2> QED
    BY <2>4, <2>5, <2>6 DEF IInv
<1> QED
  BY <1>1, <1>2

-----------------------------------------------------------------------------
(* The specification. *)

LEMMA InitInv == ASSUME Init PROVE IInv
<1>1. RegistryInv
  BY BuiltinAssumption DEF Init, RegistryInv, Guarded
<1>2. EmittedInv /\ StrictStaysVerified
  BY DEF Init, EmittedInv, StrictStaysVerified, Range
<1> QED
  BY <1>1, <1>2 DEF Init, IInv

LEMMA NextInv == ASSUME IInv, [Next]_vars PROVE IInv'
<1>1. CASE \E mapping \in CustomMappings : AddOne(mapping)
  <2>1. PICK mapping \in CustomMappings : AddOne(mapping)
    BY <1>1
  <2>2. UNCHANGED <<config, emitted>>
    BY <2>1 DEF AddOne
  <2> QED
    BY <2>1, <2>2, AddOneStep, QuietStep DEF IInv
<1>2. CASE \E batch \in Batches, mode \in Modes : AddBatch(batch, mode)
  <2>1. PICK batch \in Batches, mode \in Modes : AddBatch(batch, mode)
    BY <1>2
  <2>2. UNCHANGED <<config, emitted>>
    BY <2>1 DEF AddBatch
  <2> QED
    BY <2>1, <2>2, AddBatchStep, QuietStep DEF IInv
<1>3. CASE SkipRule \/ ValidateFile \/ UNCHANGED vars
  <2>1. UNCHANGED <<config, registry, bypassed, emitted>>
    BY <1>3 DEF SkipRule, ValidateFile, vars
  <2>2. RegistryInv'
    BY <2>1 DEF IInv, RegistryInv
  <2> QED
    BY <2>1, <2>2, QuietStep
<1>4. CASE ConvertRule
  BY <1>4, ConvertStep
<1> QED
  BY <1>1, <1>2, <1>3, <1>4 DEF Next

\* docs/windows-evtx-field-mapping.md: outside the legacy mode a Windows rule
\* selects only verified, static and overridden fields, for every table of
\* mappings, every configuration and everything added to the registry through
\* its operations (registry.py:187-219), unless a bare name was let in.
THEOREM StrictVerified == Spec => []StrictStaysVerified
<1>1. Init => IInv
  BY InitInv
<1>2. IInv /\ [Next]_vars => IInv'
  BY NextInv
<1>3. IInv => StrictStaysVerified
  BY DEF IInv
<1> QED
  BY <1>1, <1>2, <1>3, PTL DEF Spec

-----------------------------------------------------------------------------
(* Sequences. *)

IsSequence(s) == s \in Seq(Range(s))

LEMMA SequenceOf ==
  ASSUME NEW S, NEW s \in Seq(S)
  PROVE  IsSequence(s)
<1>1. Len(s) \in Nat /\ DOMAIN s = 1 .. Len(s)
  OBVIOUS
<1> QED
  BY <1>1 DEF IsSequence, Range

LEMMA SequencesJoined ==
  ASSUME NEW s, IsSequence(s), NEW t, IsSequence(t)
  PROVE  IsSequence(s \o t) /\ Len(s \o t) = Len(s) + Len(t) /\ Len(s) \in Nat
<1> DEFINE S == Range(s) \cup Range(t)
<1>1. s \in Seq(S) /\ t \in Seq(S)
  BY DEF IsSequence
<1> HIDE DEF S
<1>2. s \o t \in Seq(S) /\ Len(s \o t) = Len(s) + Len(t) /\ Len(s) \in Nat
  BY <1>1
<1> QED
  BY <1>2, SequenceOf

\* Sequences one after the other are a sequence.
LEMMA FlattenedSequence ==
  ASSUME NEW seqs, IsSequence(seqs), \A i \in DOMAIN seqs : IsSequence(seqs[i])
  PROVE  IsSequence(FlattenSeq(seqs))
<1> DEFINE n == Len(seqs)
           S == UNION { Range(seqs[i]) : i \in DOMAIN seqs }
           F == [k \in 1 .. n |-> [s \in Seq(S) |-> s \o seqs[k]]]
           Flattens(f) == f = [i \in 1 .. n |-> IF i = 1 THEN seqs[i] ELSE f[i - 1] \o seqs[i]]
           flat == CHOOSE f : Flattens(f)
<1>1. n \in Nat /\ DOMAIN seqs = 1 .. n /\ \A i \in 1 .. n : seqs[i] \in Seq(S)
  <2>1. n \in Nat /\ DOMAIN seqs = 1 .. n
    BY DEF IsSequence
  <2>2. \A i \in 1 .. n : Range(seqs[i]) \subseteq S /\ seqs[i] \in Seq(Range(seqs[i]))
    BY <2>1 DEF IsSequence
  <2> HIDE DEF S
  <2> QED
    BY <2>1, <2>2
<1>2. CASE n = 0
  BY <1>2 DEF FlattenSeq
<1>3. CASE n # 0
  <2>1. PICK g : IsRun(n, Seq(S), <<>>, F, g)
    <3>1. F \in [1 .. n -> [Seq(S) -> Seq(S)]] /\ <<>> \in Seq(S)
      <4> HIDE DEF S
      <4> QED
        BY <1>1
    <3> HIDE DEF F, S, n
    <3> QED
      BY <1>1, <3>1, RunExists
  <2> DEFINE h == [i \in 1 .. n |-> g[i]]
  <2>2. ASSUME NEW i \in 1 .. n
        PROVE  g[i] = IF i = 1 THEN seqs[i] ELSE h[i - 1] \o seqs[i]
    <3>1. g[i] = g[i - 1] \o seqs[i] /\ g[i - 1] \in Seq(S) /\ g[0] = <<>>
      <4>1. i - 1 \in 0 .. n
        BY <1>1
      <4>2. g[i - 1] \in Seq(S) /\ g[i] = F[i][g[i - 1]] /\ g[0] = <<>>
        BY <2>1, <4>1 DEF IsRun
      <4> HIDE DEF S
      <4> QED
        BY <4>2
    <3>2. CASE i = 1
      <4> HIDE DEF S
      <4> QED
        BY <1>1, <3>1, <3>2
    <3>3. CASE i # 1
      <4>1. i - 1 \in 1 .. n
        BY <1>1, <3>3
      <4> QED
        BY <3>1, <3>3, <4>1
    <3> QED
      BY <3>2, <3>3
  <2>3. Flattens(h)
    BY <2>2
  <2>4. Flattens(flat)
    <3> HIDE DEF Flattens, h
    <3> QED
      BY <2>3, Zenon
  <2>5. FlattenSeq(seqs) = flat[n]
    BY <1>3, Zenon DEF FlattenSeq
  <2> HIDE DEF flat, S
  <2>6. \A k \in 1 .. n : flat[k] = IF k = 1 THEN seqs[k] ELSE flat[k - 1] \o seqs[k]
    BY <2>4
  <2> DEFINE T == { k \in 0 .. n : k # 0 => flat[k] \in Seq(S) }
  <2>7. 0 \in T
    BY <1>1
  <2>8. ASSUME NEW k \in 1 .. n, k - 1 \in T PROVE k \in T
    <3>1. CASE k = 1
      BY <1>1, <2>6, <3>1
    <3>2. CASE k # 1
      <4>1. flat[k - 1] \in Seq(S) /\ seqs[k] \in Seq(S)
        BY <1>1, <2>8, <3>2
      <4>2. flat[k] = flat[k - 1] \o seqs[k]
        BY <2>6, <3>2
      <4>3. flat[k - 1] \o seqs[k] \in Seq(S)
        BY <4>1
      <4>4. k \in 0 .. n /\ flat[k] \in Seq(S)
        BY <1>1, <4>2, <4>3
      <4> HIDE DEF n
      <4> QED
        BY <4>4
    <3> QED
      BY <3>1, <3>2
  <2> HIDE DEF T, n
  <2>9. \A k \in 0 .. n : k \in T
    BY <1>1, <2>7, <2>8, CountingUp
  <2>10. FlattenSeq(seqs) \in Seq(S)
    BY <1>1, <1>3, <2>5, <2>9 DEF T
  <2> QED
    BY <2>10, SequenceOf
<1> QED
  BY <1>2, <1>3

-----------------------------------------------------------------------------
(* The parent rules. *)

LEMMA LeastExists ==
  ASSUME NEW S, S \subseteq Nat, S # {}
  PROVE  Min(S) \in S
<1>1. PICK k \in S : \A i \in S : ~ (<<i, k>> \in OpToRel(<, Nat))
  BY NatLessThanWellFounded, WFMin
<1>2. \A i \in S : k <= i
  <2> SUFFICES ASSUME NEW i \in S, i < k PROVE FALSE
    OBVIOUS
  <2>1. <<i, k>> \in OpToRel(<, Nat)
    BY DEF OpToRel
  <2> QED
    BY <1>1, <2>1
<1> QED
  BY <1>2 DEF Min

\* A sequence of optional keys.
LEMMA NamedSequence ==
  ASSUME NEW first, NEW second
  PROVE  IsSequence(<<>>) /\ IsSequence(<<first>>) /\ IsSequence(<<first, second>>)
<1>1. <<>> \in Seq({}) /\ <<first>> \in Seq({first}) /\ <<first, second>> \in Seq({first, second})
  OBVIOUS
<1> QED
  BY <1>1, SequenceOf

LEMMA EventIdsSequence ==
  ASSUME NEW rule, Parsed(rule)
  PROVE  IsSequence(DetectionEventIds(rule))
<1> DEFINE Numbers(g) == IF g.field \in {"EventID", "event_id"}
                         THEN [i \in DOMAIN g.values |-> g.values[i].text[1]] ELSE <<>>
           seqs == [i \in DOMAIN rule.groups |-> Numbers(rule.groups[i])]
<1>1. Len(rule.groups) \in Nat /\ DOMAIN rule.groups = 1 .. Len(rule.groups)
  BY DEF Parsed
<1>2. IsSequence(seqs)
  <2> HIDE DEF Numbers
  <2> QED
    BY <1>1 DEF IsSequence, Range
<1>3. ASSUME NEW i \in DOMAIN rule.groups PROVE IsSequence(Numbers(rule.groups[i]))
  <2> DEFINE group == rule.groups[i]
             ids == [k \in DOMAIN group.values |-> group.values[k].text[1]]
  <2>1. Len(group.values) \in Nat /\ DOMAIN group.values = 1 .. Len(group.values)
    BY DEF Parsed, ParsedGroup
  <2>2. IsSequence(ids)
    BY <2>1 DEF IsSequence, Range
  <2> HIDE DEF ids
  <2>3. IsSequence(IF group.field \in {"EventID", "event_id"} THEN ids ELSE <<>>)
    BY <2>2, NamedSequence
  <2> QED
    BY <2>3 DEF ids
<1>4. \A i \in DOMAIN seqs : IsSequence(seqs[i])
  <2> HIDE DEF Numbers
  <2> QED
    BY <1>3
<1>5. DetectionEventIds(rule) = FlattenSeq(seqs)
  BY Zenon DEF DetectionEventIds
<1> HIDE DEF seqs
<1> QED
  BY <1>2, <1>4, <1>5, FlattenedSequence

\* The default is the last key that is tried, so that a table with a default
\* finds a parent for every rule (wazuh.py:1131-1190).
LEMMA DefaultFound ==
  ASSUME NEW rule, Parsed(rule), NEW table,
         "default" \in DOMAIN table["bare"], table["bare"]["default"] # <<>>
  PROVE  ResolveParentRuleIds(table, rule) # <<>>
<1> DEFINE Security(id) == <<"security_event_id", id>>
           ids == DetectionEventIds(rule)
           Named(kind, value) ==
             IF value = NoValue THEN <<>> ELSE << <<kind, value>>, <<"bare", value>> >>
           source == IF rule.service # NoValue THEN rule.service ELSE rule.product
           security == IF rule.service = "security"
                       THEN [i \in DOMAIN ids |-> Security(ids[i])] ELSE <<>>
           bare == IF source = NoValue THEN <<>> ELSE << <<"bare", source>> >>
           front == security \o Named("service", rule.service)
                      \o Named("category", rule.category)
                      \o Named("product", rule.product) \o bare
           keys == CandidateKeys(rule)
<1>1. IsSequence(security)
  <2>1. IsSequence([i \in DOMAIN ids |-> Security(ids[i])])
    <3>1. Len(ids) \in Nat /\ DOMAIN ids = 1 .. Len(ids)
      BY EventIdsSequence DEF IsSequence
    <3> HIDE DEF ids
    <3> QED
      BY <3>1 DEF IsSequence, Range
  <2> HIDE DEF ids
  <2> QED
    BY <2>1, NamedSequence
<1>2. /\ IsSequence(Named("service", rule.service)) /\ IsSequence(Named("category", rule.category))
      /\ IsSequence(Named("product", rule.product)) /\ IsSequence(bare)
  BY NamedSequence
<1>3. IsSequence(front)
  <2> HIDE DEF security, Named, bare
  <2> QED
    BY <1>1, <1>2, SequencesJoined
<1>4. keys = front \o << <<"bare", "default">> >>
  BY Zenon DEF CandidateKeys
<1> HIDE DEF front
<1>5. /\ Len(keys) = Len(front) + 1 /\ Len(front) \in Nat /\ DOMAIN keys = 1 .. Len(front) + 1
      /\ keys[Len(front) + 1] = <<"bare", "default">>
  <2> DEFINE S == Range(front) \cup { <<"bare", "default">> }
  <2>1. front \in Seq(S) /\ << <<"bare", "default">> >> \in Seq(S)
    BY <1>3 DEF IsSequence
  <2> HIDE DEF S
  <2> QED
    BY <1>4, <2>1
<1> HIDE DEF keys
<1> DEFINE Known(key) == key[2] \in DOMAIN table[key[1]] /\ table[key[1]][key[2]] # <<>>
           known == { i \in DOMAIN keys : Known(keys[i]) }
<1>6. known # {} /\ known \subseteq Nat
  <2>1. Known(<<"bare", "default">>)
    OBVIOUS
  <2>2. Len(front) + 1 \in known
    BY <1>5, <2>1
  <2> QED
    BY <1>5, <2>2
<1>7. ResolveParentRuleIds(table, rule)
        = IF known = {} THEN <<>> ELSE table[keys[Min(known)][1]][keys[Min(known)][2]]
  BY Zenon DEF ResolveParentRuleIds, keys
<1>8. Known(keys[Min(known)])
  <2>1. Min(known) \in known
    <3> HIDE DEF known
    <3> QED
      BY <1>6, LeastExists
  <2> QED
    BY <2>1
<1> HIDE DEF known
<1> QED
  BY <1>6, <1>7, <1>8

-----------------------------------------------------------------------------
(* The pattern of a group. *)

\* The patterns of a group that can be written are flat, one at least.
LEMMA GroupPatterns ==
  ASSUME NEW group, ParsedGroup(group), Patternable(group)
  PROVE  /\ PatternsOf(group) # {}
         /\ \A p \in PatternsOf(group) : FlatPattern(p)
         /\ group.op \in {"any", "all"}
<1>1. DOMAIN group.values # {} /\ group.op \in {"any", "all"}
  <2>1. Len(group.values) \in Nat /\ DOMAIN group.values = 1 .. Len(group.values)
        /\ group.values # <<>>
    BY DEF ParsedGroup
  <2>2. Len(group.values) # 0
    BY <2>1 DEF ParsedGroup
  <2> QED
    BY <2>1, <2>2 DEF ParsedGroup
<1>2. \A i \in DOMAIN group.values : FlatPattern(PatternForValue(group.values[i]))
  BY ValuePattern DEF ParsedGroup, Patternable
<1> QED
  BY <1>1, <1>2 DEF PatternsOf

\* One of its three forms.
LEMMA GroupForms ==
  ASSUME NEW group, ParsedGroup(group), Patternable(group)
  PROVE  \/ /\ GroupPattern(group) \in PatternsOf(group)
            /\ \A p \in PatternsOf(group) : p = GroupPattern(group)
         \/ /\ group.op = "all" /\ GroupPattern(group) = AllOf(PatternsOf(group))
            /\ \A p \in PatternsOf(group) : LookaheadSafe(p)
         \/ group.op = "any" /\ GroupPattern(group) = AnyOf(PatternsOf(group))
<1> DEFINE patterns == PatternsOf(group)
<1>1. patterns # {} /\ group.op \in {"any", "all"}
  BY GroupPatterns
<1>2. CASE AreOne(patterns)
  <2>1. GroupPattern(group) = CHOOSE p \in patterns : TRUE
    BY <1>2, Zenon DEF GroupPattern
  <2>2. GroupPattern(group) \in patterns
    BY <1>1, <2>1
  <2> QED
    BY <1>2, <2>2 DEF AreOne
<1>3. CASE ~AreOne(patterns) /\ group.op = "all"
  <2>1. GroupPattern(group) = AllOf(patterns)
    BY <1>3, Zenon DEF GroupPattern
  <2> QED
    BY <1>3, <2>1 DEF Patternable
<1>4. CASE ~AreOne(patterns) /\ group.op = "any"
  BY <1>4, Zenon DEF GroupPattern
<1> QED
  BY <1>1, <1>2, <1>3, <1>4

\* Whatever the values of a group are, their pattern compiles.
LEMMA GroupCompiles ==
  ASSUME NEW group, ParsedGroup(group), Patternable(group)
  PROVE  Compiles(GroupPattern(group))
BY GroupPatterns, GroupForms, FlatCompiles, PartsCompile

\* The pattern of a group says what its values say, together or one of them,
\* with the one exception of a chain with a partly anchored regex
\* (wazuh.py:863-905).
THEOREM GroupExact ==
  ASSUME NEW group, ParsedGroup(group), Patternable(group), ~PartlyAnchored(group),
         NEW text \in Seq(AnySymbol)
  PROVE  Matches(GroupPattern(group), text) <=> GroupHolds(group, text)
<1> DEFINE patterns == PatternsOf(group)
           positions == Positions(text)
           Found(p) == MatchesFrom(p.branches, text, positions)
           Holds(i) == SigmaMatches(group.values[i], text)
           pattern == GroupPattern(group)
<1>1. /\ patterns = { PatternForValue(group.values[i]) : i \in DOMAIN group.values }
      /\ patterns # {} /\ \A p \in patterns : FlatPattern(p) /\ p.kind = "branches"
  BY GroupPatterns DEF PatternsOf, FlatPattern
<1>2. \A i \in DOMAIN group.values : Found(PatternForValue(group.values[i])) <=> Holds(i)
  BY ValueExact DEF ParsedGroup, Patternable
<1>3. /\ (\A p \in patterns : Found(p)) <=> \A i \in DOMAIN group.values : Holds(i)
      /\ (\E p \in patterns : Found(p)) <=> \E i \in DOMAIN group.values : Holds(i)
  <2> HIDE DEF Found, Holds
  <2> QED
    BY <1>1, <1>2
<1>4. Text(text) /\ 1 \in positions /\ positions = 1 .. Len(text) + 1
  <2>1. Len(text) \in Nat /\ DOMAIN text = 1 .. Len(text)
    OBVIOUS
  <2>2. text \in Seq(Range(text))
    BY <2>1 DEF Range
  <2> QED
    BY <2>1, <2>2 DEF Text, Positions
<1>5. /\ group.op = "all" => (GroupHolds(group, text) <=> \A i \in DOMAIN group.values : Holds(i))
      /\ group.op = "any" => (GroupHolds(group, text) <=> \E i \in DOMAIN group.values : Holds(i))
  BY DEF GroupHolds
<1>6. CASE pattern \in patterns /\ \A p \in patterns : p = pattern
  <2>1. Matches(pattern, text) <=> Found(pattern)
    <3>1. pattern.kind = "branches"
      BY <1>1, <1>6
    <3> HIDE DEF pattern
    <3> QED
      BY <1>4, <3>1, Zenon DEF Matches
  <2>2. Found(pattern) <=> \A p \in patterns : Found(p)
    <3> HIDE DEF Found, pattern, patterns
    <3> QED
      BY <1>6
  <2>3. Found(pattern) <=> \E p \in patterns : Found(p)
    <3> HIDE DEF Found, pattern, patterns
    <3> QED
      BY <1>6
  <2> HIDE DEF Found, Holds, pattern
  <2> QED
    BY <1>3, <1>5, <2>1, <2>2, <2>3, GroupPatterns DEF pattern
<1>7. CASE group.op = "any" /\ pattern = AnyOf(patterns)
  <2>1. pattern.kind = "any" /\ pattern.parts = { ScopeLeadingFlags(p) : p \in patterns }
    BY <1>7 DEF AnyOf
  <2>2. Matches(pattern, text)
          <=> \E part \in pattern.parts : MatchesFrom(part.branches, text, positions)
    <3> HIDE DEF pattern
    <3> QED
      BY <1>4, <2>1, Zenon DEF Matches
  <2>3. \A p \in patterns : MatchesFrom(ScopeLeadingFlags(p).branches, text, positions) <=> Found(p)
    BY <1>1, ScopedMatches
  <2> HIDE DEF Found, Holds, pattern
  <2> QED
    BY <1>3, <1>5, <1>7, <2>1, <2>2, <2>3 DEF pattern
<1>8. CASE /\ group.op = "all" /\ pattern = AllOf(patterns)
           /\ \A p \in patterns : LookaheadSafe(p)
  <2>1. pattern.kind = "all" /\ pattern.parts = { ScopeLeadingFlags(p) : p \in patterns }
    BY <1>8 DEF AllOf
  <2>2. Matches(pattern, text)
          <=> \E position \in positions :
                \A part \in pattern.parts : LookaheadHolds(part, text, position)
    <3> HIDE DEF pattern
    <3> QED
      BY <1>4, <2>1, Zenon DEF Matches
  <2>3. ASSUME NEW p \in patterns PROVE p.branches[1].start => Anchored(p)
    <3>1. PICK i \in DOMAIN group.values : p = PatternForValue(group.values[i])
      BY <1>1
    <3> DEFINE value == group.values[i]
    <3>2. ParsedValue(value) /\ HasPattern(value)
      BY DEF ParsedGroup, Patternable
    <3>3. CASE value.kind # "regex"
      BY <3>1, <3>2, <3>3, ValuePattern
    <3>4. CASE value.kind = "regex"
      <4>1. p.branches = value.branches
        BY <3>1, <3>2, <3>4, ValuePattern
      <4> QED
        BY <1>8, <3>4, <4>1 DEF PartlyAnchored, Anchored
    <3> QED
      BY <3>3, <3>4
  <2>4. ASSUME NEW p \in patterns
        PROVE  /\ Found(p) => LookaheadHolds(ScopeLeadingFlags(p), text, 1)
               /\ \A position \in positions :
                    LookaheadHolds(ScopeLeadingFlags(p), text, position) => Found(p)
    BY <1>1, <1>4, <1>8, <2>3, LookaheadExact
  <2> HIDE DEF Found, Holds, pattern
  <2>5. Matches(pattern, text) <=> \A p \in patterns : Found(p)
    BY <1>4, <2>1, <2>2, <2>4
  <2> QED
    BY <1>3, <1>5, <1>8, <2>5 DEF pattern
<1> QED
  BY <1>6, <1>7, <1>8, GroupForms

-----------------------------------------------------------------------------
(* What is written.  The ids only grow, so none is used twice; each element  *)
(* stays with the group whose pattern it has.                                *)

Written(xml) ==
  /\ xml.level \in 0..15
  /\ xml.described
  /\ "default" \in DOMAIN config.parents.bare /\ config.parents.bare["default"] # <<>> =>
       xml.parents # <<>>
  /\ DOMAIN xml.elements = DOMAIN xml.from.groups
  /\ \A j \in DOMAIN xml.elements :
       /\ ParsedGroup(xml.from.groups[j]) /\ Patternable(xml.from.groups[j])
       /\ xml.elements[j].pattern = GroupPattern(xml.from.groups[j])

PendingInv ==
  /\ pending \in Seq(Range(pending))
  /\ \A i \in DOMAIN pending : Parsed(pending[i].rule)

IdsInv ==
  /\ nextId \in config.firstId .. config.lastId + 1
  /\ \A i \in DOMAIN emitted : emitted[i].id \in config.firstId .. nextId - 1
  /\ \A i, k \in DOMAIN emitted : i < k => emitted[i].id < emitted[k].id

ReportsInv ==
  \A i \in DOMAIN reports : reports[i].fails = FALSE /\ reports[i].warns \in BOOLEAN

WrittenInv ==
  /\ config \in Configs /\ bypassed \in BOOLEAN
  /\ PendingInv
  /\ EmittedInv
  /\ IdsInv
  /\ \A i \in DOMAIN emitted : Written(emitted[i])
  /\ ReportsInv

LEMMA WrittenInit == ASSUME Init PROVE WrittenInv
<1>1. config \in Configs /\ bypassed \in BOOLEAN /\ PendingInv
  BY DirectoriesAssumption DEF Init, PendingInv
<1>2. EmittedInv /\ IdsInv
  BY ConfigsAssumption DEF Init, EmittedInv, IdsInv, Range
<1>3. ReportsInv /\ \A i \in DOMAIN emitted : Written(emitted[i])
  BY DEF Init, ReportsInv
<1> QED
  BY <1>1, <1>2, <1>3 DEF WrittenInv

\* What is left to convert is still parsed.
LEMMA PendingStep ==
  ASSUME PendingInv, pending # <<>>, pending' = Tail(pending)
  PROVE  PendingInv' /\ Parsed(Head(pending).rule)
<1>1. /\ pending' \in Seq(Range(pending)) /\ Len(pending) \in Nat \ {0}
      /\ DOMAIN pending = 1 .. Len(pending) /\ Head(pending) = pending[1]
      /\ DOMAIN pending' = 1 .. Len(pending) - 1
      /\ \A i \in 1 .. Len(pending) - 1 : pending'[i] = pending[i + 1]
  BY DEF PendingInv
<1>2. pending' \in Seq(Range(pending'))
  BY <1>1, SequenceOf DEF IsSequence
<1>3. \A i \in DOMAIN pending' : Parsed(pending'[i].rule)
  BY <1>1 DEF PendingInv
<1> QED
  BY <1>1, <1>2, <1>3 DEF PendingInv

\* A level is a name's or an advisor's that was looked at.
LEMMA LevelInRange ==
  ASSUME NEW rule, NEW override, LevelValid(override)
  PROVE  ResolveLevel(rule, override) \in 0..15
BY DEF ResolveLevel, LevelValid, LevelMapping

\* A rule that is converted has the next id and what a written rule has.
LEMMA WrittenConvert == ASSUME WrittenInv, ConvertRule PROVE WrittenInv'
<1> DEFINE rule == Head(pending).rule
           override == Head(pending).override
           elements == [i \in DOMAIN rule.groups |-> Element(rule, rule.groups[i])]
           xml == [id |-> nextId, level |-> ResolveLevel(rule, override),
                   described |-> rule.titled, group |-> rule.title,
                   parents |-> ResolveParentRuleIds(config.parents, rule),
                   elements |-> elements, from |-> rule]
<1>1. /\ Valid(rule) /\ Convertible(rule, override)
      /\ emitted' = IF WithinLimits(elements) THEN Append(emitted, xml) ELSE emitted
      /\ pending # <<>> /\ pending' = Tail(pending) /\ nextId' = nextId + 1
      /\ UNCHANGED <<config, registry, bypassed, reports>>
  BY DEF ConvertRule
<1>2. PendingInv' /\ Parsed(rule)
  BY <1>1, PendingStep DEF WrittenInv
<1>3. Written(xml)
  <2>1. xml.level \in 0..15
    BY <1>1, LevelInRange DEF Convertible
  <2>2. xml.described
    BY <1>1 DEF Valid
  <2>3. "default" \in DOMAIN config.parents.bare /\ config.parents.bare["default"] # <<>> =>
          xml.parents # <<>>
    BY <1>2, DefaultFound
  <2>4. xml.elements = elements /\ xml.from = rule
    OBVIOUS
  <2>5. ASSUME NEW j \in DOMAIN rule.groups
        PROVE  /\ ParsedGroup(rule.groups[j]) /\ Patternable(rule.groups[j])
               /\ elements[j].pattern = GroupPattern(rule.groups[j])
    BY <1>1, <1>2 DEF Parsed, Convertible, Lowers, Element
  <2> HIDE DEF xml, elements, rule
  <2>6. DOMAIN elements = DOMAIN rule.groups
    BY DEF elements
  <2> QED
    BY <2>1, <2>2, <2>3, <2>4, <2>5, <2>6 DEF Written
<1>4. /\ config.firstId \in Nat /\ config.lastId \in Nat /\ nextId \in Nat
      /\ nextId \in config.firstId .. config.lastId
  BY <1>1, ConfigsAssumption DEF WrittenInv, IdsInv, Convertible
<1>5. config' \in Configs /\ bypassed' \in BOOLEAN /\ ReportsInv'
  BY <1>1 DEF WrittenInv, ReportsInv
<1>6. config' = config
  BY <1>1
<1>7. CASE emitted' = emitted
  <2>1. IdsInv'
    BY <1>1, <1>4, <1>7, SMTT(20) DEF WrittenInv, IdsInv
  <2>2. EmittedInv' /\ (\A i \in DOMAIN emitted : Written(emitted[i]))'
    BY <1>6, <1>7 DEF WrittenInv, EmittedInv, Written
  <2> QED
    BY <1>2, <1>5, <2>1, <2>2 DEF WrittenInv
<1>8. CASE emitted' # emitted
  <2>1. emitted' = Append(emitted, xml) /\ xml.id = nextId
    BY <1>1, <1>8
  <2> HIDE DEF xml
  <2>2. /\ emitted' \in Seq(Range(emitted) \cup {xml})
        /\ Len(emitted) \in Nat
        /\ DOMAIN emitted = 1 .. Len(emitted) /\ DOMAIN emitted' = 1 .. Len(emitted) + 1
        /\ emitted'[Len(emitted) + 1] = xml
        /\ \A i \in DOMAIN emitted : emitted'[i] = emitted[i]
    <3>1. emitted \in Seq(Range(emitted) \cup {xml})
      BY DEF WrittenInv, EmittedInv
    <3> QED
      BY <2>1, <3>1, AppendProperties
  <2>3. EmittedInv'
    BY <2>2 DEF EmittedInv, Range
  <2>4. \A i \in DOMAIN emitted' : \/ emitted'[i] = xml /\ i = Len(emitted) + 1
                                   \/ i \in DOMAIN emitted /\ emitted'[i] = emitted[i]
    BY <2>2
  <2>5. (\A i \in DOMAIN emitted : Written(emitted[i]))'
    BY <1>3, <1>6, <2>4 DEF WrittenInv, Written
  <2>6. \A i \in DOMAIN emitted : emitted[i].id \in config.firstId .. nextId - 1
    BY DEF WrittenInv, IdsInv
  <2>7. \A i, k \in DOMAIN emitted' : i < k => emitted'[i].id < emitted'[k].id
    <3> SUFFICES ASSUME NEW i \in DOMAIN emitted', NEW k \in DOMAIN emitted', i < k
                 PROVE  emitted'[i].id < emitted'[k].id
      OBVIOUS
    <3>1. i \in DOMAIN emitted /\ emitted'[i] = emitted[i]
      BY <2>2
    <3>2. CASE k \in DOMAIN emitted
      BY <2>2, <3>1, <3>2 DEF WrittenInv, IdsInv
    <3>3. CASE k \notin DOMAIN emitted
      BY <1>4, <2>1, <2>4, <2>6, <3>1, <3>3
    <3> QED
      BY <3>2, <3>3
  <2>8. \A i \in DOMAIN emitted' : emitted'[i].id \in config'.firstId .. nextId' - 1
    BY <1>1, <1>4, <2>1, <2>4, <2>6
  <2>9. nextId' \in config'.firstId .. config'.lastId + 1
    BY <1>1, <1>4
  <2>10. IdsInv'
    BY <2>7, <2>8, <2>9 DEF IdsInv
  <2> QED
    BY <1>2, <1>5, <2>3, <2>5, <2>10 DEF WrittenInv
<1> QED
  BY <1>7, <1>8

\* None of the rules of the file fails: each id is a number, in range and
\* larger than the ones before it, and every pattern compiles.
LEMMA FilePasses ==
  ASSUME WrittenInv, emitted # <<>>, NEW i \in DOMAIN ValidateAll(<< XmlFile(emitted) >>)
  PROVE  /\ ValidateAll(<< XmlFile(emitted) >>)[i].fails = FALSE
         /\ ValidateAll(<< XmlFile(emitted) >>)[i].warns \in BOOLEAN
<1> DEFINE file == XmlFile(emitted)
           files == <<file>>
           rules == [k \in DOMAIN emitted |-> XmlRule(emitted[k])]
           seen(k) == SeenBefore(files, 1, k)
<1>1. /\ Len(emitted) \in Nat \ {0} /\ DOMAIN emitted = 1 .. Len(emitted)
  <2>1. emitted \in Seq(Range(emitted))
    BY DEF WrittenInv, EmittedInv
  <2> QED
    BY <2>1
<1>2. /\ file.readable /\ file.rules = rules /\ rules # <<>> /\ DOMAIN rules = DOMAIN emitted
  BY <1>1 DEF XmlFile
<1> HIDE DEF file
<1>3. DOMAIN files = {1} /\ files[1] = file /\ files # <<>>
  OBVIOUS
<1>4. i = 1 /\ ValidateAll(files) = [k \in {1} |-> ValidateRuleFile(files, k)]
  <2>1. ValidateAll(files) = [k \in DOMAIN files |-> ValidateRuleFile(files, k)]
    BY <1>3, Zenon DEF ValidateAll
  <2>2. i \in DOMAIN ValidateAll(files)
    BY DEF file
  <2> QED
    BY <1>3, <2>1, <2>2
<1> HIDE DEF rules
<1>5. ASSUME NEW k \in DOMAIN emitted
      PROVE  ~RuleFails(rules[k], seen(k))
  <2> DEFINE xml == emitted[k]
             row == rules[k]
  <2>1. /\ row.id = xml.id /\ row.level = xml.level /\ row.described = xml.described
        /\ row.patterns = XmlPatterns(xml.elements)
    BY DEF rules, XmlRule
  <2>2. xml.id \in Nat /\ xml.id \in 0 .. MaxRuleId /\ xml.level \in 0..15 /\ xml.described
    <3>1. xml.id \in config.firstId .. nextId - 1 /\ nextId \in config.firstId .. config.lastId + 1
      BY DEF WrittenInv, IdsInv
    <3>2. config.firstId \in Nat /\ config.lastId \in config.firstId .. MaxRuleId
      BY ConfigsAssumption DEF WrittenInv
    <3>3. xml.id \in Nat /\ xml.id \in 0 .. MaxRuleId
      BY <3>1, <3>2, ValidatorAssumption
    <3>4. xml.level \in 0..15 /\ xml.described
      BY DEF WrittenInv, Written
    <3> QED
      BY <3>3, <3>4
  <2>3. xml.id \notin seen(k)
    <3>1. seen(k) = { rules[r].id : r \in 1 .. k - 1 }
      <4>1. { j \in Readable(files) : j < 1 } = {}
        BY <1>3 DEF Readable
      <4>2. files[1].rules = rules
        BY <1>2
      <4> HIDE DEF files
      <4> QED
        BY <4>1, <4>2 DEF SeenBefore
    <3>2. ASSUME NEW r \in 1 .. k - 1 PROVE rules[r].id # xml.id
      <4>1. r \in DOMAIN emitted /\ r < k /\ k \in DOMAIN emitted
        BY <1>1
      <4>2. rules[r].id = emitted[r].id
        BY <4>1 DEF rules, XmlRule
      <4>3. emitted[r].id < xml.id /\ xml.id \in Nat
        BY <2>2, <4>1 DEF WrittenInv, IdsInv
      <4>4. emitted[r].id \in Nat
        BY <4>1, ConfigsAssumption DEF WrittenInv, IdsInv
      <4> QED
        BY <4>2, <4>3, <4>4
    <3> QED
      BY <3>1, <3>2
  <2>4. ASSUME NEW p \in DOMAIN row.patterns PROVE PatternResult(row.patterns[p]) # "FAIL"
    <3> DEFINE typed == { e \in DOMAIN xml.elements : ~IsStatic(xml.elements[e]) }
    <3>1. p \in typed
      BY <2>1 DEF XmlPatterns
    <3>2. row.patterns[p].compiles = Compiles(xml.elements[p].pattern)
      BY <2>1, <3>1 DEF XmlPatterns
    <3>3. Compiles(xml.elements[p].pattern)
      <4>1. p \in DOMAIN xml.elements
        BY <3>1
      <4> QED
        BY <4>1, GroupCompiles DEF WrittenInv, Written
    <3> QED
      BY <3>2, <3>3 DEF PatternResult
  <2>5. ~RuleIdFails(row, seen(k)) /\ ~RequiredMissing(row) /\ ~LevelOutOfRange(row)
    <3>1. xml.id # Missing /\ xml.level # Missing
      BY <2>2, ValidatorAssumption
    <3> HIDE DEF row, xml, seen
    <3> QED
      BY <2>1, <2>2, <2>3, <3>1 DEF RuleIdFails, RequiredMissing, LevelOutOfRange, ValidLevels
  <2> HIDE DEF row, seen
  <2> QED
    BY <2>4, <2>5 DEF RuleFails, row
<1>6. ValidateRuleFile(files, 1)
        = Report(\E k \in DOMAIN rules : RuleFails(rules[k], seen(k)),
                 \E k \in DOMAIN rules :
                   RuleWarns(rules[k], DeclaredGroups(files), DeclaredDecoders(files)))
  <2>1. files[1].rules = rules /\ files[1].readable
    BY <1>2, <1>3
  <2> HIDE DEF files
  <2> QED
    BY <1>2, <2>1 DEF ValidateRuleFile
<1>7. ValidateRuleFile(files, 1).fails = FALSE /\ ValidateRuleFile(files, 1).warns \in BOOLEAN
  <2> DEFINE fails == \E k \in DOMAIN rules : RuleFails(rules[k], seen(k))
             warns == \E k \in DOMAIN rules :
                        RuleWarns(rules[k], DeclaredGroups(files), DeclaredDecoders(files))
  <2>1. fails = FALSE
    BY <1>2, <1>5
  <2>2. warns \in BOOLEAN
    OBVIOUS
  <2> HIDE DEF fails, warns
  <2>3. ValidateRuleFile(files, 1) = Report(fails, warns)
    BY <1>6, Zenon DEF fails, warns
  <2> QED
    BY <2>1, <2>2, <2>3 DEF Report
<1> QED
  BY <1>4, <1>7 DEF file

LEMMA WrittenNext == ASSUME WrittenInv, [Next]_vars PROVE WrittenInv'
<1>1. ASSUME UNCHANGED <<config, pending, nextId, emitted, reports>>, bypassed' \in BOOLEAN
      PROVE  WrittenInv'
  <2>1. \A w : Written(w) => Written(w)'
    BY <1>1 DEF Written
  <2> QED
    BY <1>1, <2>1 DEF WrittenInv, PendingInv, EmittedInv, IdsInv, ReportsInv
<1>2. CASE \E mapping \in CustomMappings : AddOne(mapping)
  BY <1>1, <1>2 DEF AddOne
<1>3. CASE \E batch \in Batches, mode \in Modes : AddBatch(batch, mode)
  BY <1>1, <1>3 DEF AddBatch
<1>4. CASE SkipRule
  <2>1. PendingInv' /\ UNCHANGED <<config, registry, bypassed, nextId, emitted, reports>>
    BY <1>4, PendingStep DEF SkipRule, WrittenInv
  <2>2. \A w : Written(w) => Written(w)'
    BY <2>1 DEF Written
  <2> QED
    BY <2>1, <2>2 DEF WrittenInv, EmittedInv, IdsInv, ReportsInv
<1>5. CASE ConvertRule
  BY <1>5, WrittenConvert
<1>6. CASE ValidateFile
  <2>1. /\ reports' = ValidateAll(<< XmlFile(emitted) >>) /\ emitted # <<>>
        /\ UNCHANGED <<config, registry, bypassed, pending, nextId, emitted>>
    BY <1>6 DEF ValidateFile
  <2>2. ReportsInv'
    BY <2>1, FilePasses DEF ReportsInv
  <2>3. \A w : Written(w) => Written(w)'
    BY <2>1 DEF Written
  <2> QED
    BY <2>1, <2>2, <2>3 DEF WrittenInv, PendingInv, EmittedInv, IdsInv
<1>7. CASE UNCHANGED vars
  BY <1>1, <1>7 DEF vars, WrittenInv
<1> QED
  BY <1>2, <1>3, <1>4, <1>5, <1>6, <1>7 DEF Next

LEMMA WrittenHolds == Spec => []WrittenInv
<1>1. Init => WrittenInv
  BY WrittenInit
<1>2. WrittenInv /\ [Next]_vars => WrittenInv'
  BY WrittenNext
<1> QED
  BY <1>1, <1>2, PTL DEF Spec

\* Every rule written has an id of the range config.py:142-151 accepts, a
\* level of 0 to 15 and, where the table has a default, a parent.
THEOREM TypeCorrect == Spec => []TypeOK
<1>1. WrittenInv => TypeOK
  BY DEF WrittenInv, IdsInv, ReportsInv, Written, TypeOK
<1> QED
  BY <1>1, WrittenHolds, PTL

\* wazuh.py:863-1062: the pattern written for a group of values matches what
\* the values match, for every value, alphabet and text and every directory,
\* except for a chain of lookaheads with a partly anchored regex.
THEOREM PatternsAreExact == Spec => []PatternsExact
<1>1. ASSUME WrittenInv PROVE PatternsExact
  <2> SUFFICES ASSUME NEW i \in DOMAIN emitted, NEW j \in DOMAIN emitted[i].elements,
                      NEW text \in Samples, ~PartlyAnchored(emitted[i].from.groups[j])
               PROVE  Matches(emitted[i].elements[j].pattern, text)
                        <=> GroupHolds(emitted[i].from.groups[j], text)
    BY DEF PatternsExact
  <2>1. /\ ParsedGroup(emitted[i].from.groups[j]) /\ Patternable(emitted[i].from.groups[j])
        /\ emitted[i].elements[j].pattern = GroupPattern(emitted[i].from.groups[j])
    BY <1>1 DEF WrittenInv, Written
  <2>2. text \in Seq(AnySymbol)
    BY SamplesAssumption
  <2> QED
    BY <2>1, <2>2, GroupExact
<1> QED
  BY <1>1, WrittenHolds, PTL

\* What generate_rules and render_ruleset (backend/wazuh.py) write never fails
\* validate_all (validator/rule_validator.py), whatever the Sigma rules are: a
\* rule is left out or passes.
THEOREM WrittenPasses == Spec => []EmittedPassesValidator
<1>1. WrittenInv => EmittedPassesValidator
  BY DEF WrittenInv, ReportsInv, EmittedPassesValidator
<1> QED
  BY <1>1, WrittenHolds, PTL
=============================================================================
