---------------------------- MODULE ClaimsProofs ----------------------------
(***************************************************************************)
(* Proofs about what decides a claim: the rule (Rules), and where the rule *)
(* leaves it to an administrator, his decision (Review).                   *)
(*                                                                         *)
(* What is proved of rules holds for every catalogue of rules that can be  *)
(* played as they are defined (PlayableRules), every number called before  *)
(* and every order of those called from then on.  The solver is a          *)
(* recursion over the requirements of a rule, and its sets of shapes are a *)
(* recursion over their size.  The prover has no rule of induction for     *)
(* them: a recursive function is here shown to be the same as a set        *)
(* written without recursion, number by number (Upwards).  What the solver *)
(* finds (Selected) is then compared with what a rule says (Proves): it    *)
(* finds nothing else, and something whenever there is something to find.  *)
(*                                                                         *)
(* What is proved of reviews holds for any cartelas and claims.  The three *)
(* invariants are not inductive alone: that no second prize is paid rests  *)
(* on the session's winner never being replaced, that no claim is refused  *)
(* after another of its cartela was accepted on the cartela's status,      *)
(* which a refusal requires to be REGISTERED.                              *)
(***************************************************************************)
EXTENDS Rules, Review, FiniteSetTheorems, WellFoundedInduction, TLAPS

-----------------------------------------------------------------------------
(* Induction, which the provers have only for well-founded relations.      *)

\* A set of numbers that is not empty has a least one.
LEMMA LeastNumber ==
  ASSUME NEW T \in SUBSET Nat, T # {}
  PROVE  \E m \in T : \A k \in T : m <= k
<1>1. IsWellFoundedOn(OpToRel(<, Nat), Nat)
  BY NatLessThanWellFounded
<1>2. PICK m \in T : \A k \in T : ~(<<k, m>> \in OpToRel(<, Nat))
  BY <1>1, WFMin
<1>3. \A k \in T : ~(k < m)
  BY <1>2 DEF OpToRel
<1> QED
  BY <1>3

\* What has 0 and with every number the next one has all up to n.
LEMMA Upwards ==
  ASSUME NEW n \in Nat, NEW T, 0 \in T, \A i \in 1 .. n : i - 1 \in T => i \in T
  PROVE  0 .. n \subseteq T
<1>1. SUFFICES ASSUME NEW k \in 0 .. n, k \notin T PROVE FALSE
  OBVIOUS
<1>2. (0 .. n) \ T \in SUBSET Nat /\ (0 .. n) \ T # {}
  BY <1>1
<1>3. PICK m \in (0 .. n) \ T : \A j \in (0 .. n) \ T : m <= j
  BY <1>2, LeastNumber
<1>4. m \in 1 .. n /\ m - 1 \in 0 .. n /\ ~(m <= m - 1)
  BY <1>3
<1> QED
  BY <1>3, <1>4

\* A finite set has subsets of every size up to its own.
LEMMA SubsetOfSize ==
  ASSUME NEW S, IsFiniteSet(S), NEW n \in 0 .. Cardinality(S)
  PROVE  \E T \in SUBSET S : Cardinality(T) = n
<1> DEFINE sizes == {m \in Nat : \E T \in SUBSET S : Cardinality(T) = Cardinality(S) - m}
<1>1. Cardinality(S) \in Nat
  BY FS_CardinalityType
<1>2. 0 \in sizes
  BY <1>1
<1>3. ASSUME NEW m \in 1 .. Cardinality(S), m - 1 \in sizes PROVE m \in sizes
  <2>1. PICK T \in SUBSET S : Cardinality(T) = Cardinality(S) - (m - 1)
    BY <1>3
  <2>2. IsFiniteSet(T) /\ Cardinality(T) # 0
    BY <1>1, <2>1, FS_Subset
  <2>3. PICK x \in T : TRUE
    BY <2>2, FS_EmptySet
  <2>4. Cardinality(T \ {x}) = Cardinality(T) - 1
    BY <2>2, <2>3, FS_RemoveElement
  <2>5. Cardinality(T \ {x}) = Cardinality(S) - m
    BY <1>1, <2>1, <2>4
  <2>6. T \ {x} \in SUBSET S /\ m \in Nat
    OBVIOUS
  <2> QED
    BY <2>5, <2>6
<1>4. Cardinality(S) - n \in sizes
  <2>1. Cardinality(S) - n \in 0 .. Cardinality(S)
    BY <1>1
  <2> HIDE DEF sizes
  <2> QED
    BY <1>1, <1>2, <1>3, <2>1, Upwards
<1> QED
  BY <1>1, <1>4

\* It also has one that prefers a part of it: within that part or around it.
LEMMA SubsetPreferring ==
  ASSUME NEW S, IsFiniteSet(S), NEW F \in SUBSET S, NEW n \in 0 .. Cardinality(S)
  PROVE  \E T \in SUBSET S : Cardinality(T) = n /\ (T \subseteq F \/ F \subseteq T)
<1>1. IsFiniteSet(F) /\ IsFiniteSet(S \ F)
  BY FS_Subset
<1>2. /\ Cardinality(S) \in Nat /\ Cardinality(F) \in Nat
      /\ Cardinality(S \ F) = Cardinality(S) - Cardinality(F)
  <2>1. S \cap F = F
    OBVIOUS
  <2> QED
    BY <1>1, <2>1, FS_CardinalityType, FS_Difference
<1>3. CASE n <= Cardinality(F)
  <2>1. PICK T \in SUBSET F : Cardinality(T) = n
    BY <1>1, <1>2, <1>3, SubsetOfSize
  <2> QED
    BY <2>1
<1>4. CASE ~(n <= Cardinality(F))
  <2>1. n - Cardinality(F) \in 0 .. Cardinality(S \ F)
    BY <1>2, <1>4
  <2>2. PICK T \in SUBSET (S \ F) : Cardinality(T) = n - Cardinality(F)
    BY <1>1, <2>1, SubsetOfSize
  <2>3. IsFiniteSet(T) /\ F \cap T = {}
    BY <1>1, <2>2, FS_Subset
  <2>4. Cardinality(F \cup T) = n
    <3>1. Cardinality(F \cup T) = Cardinality(F) + Cardinality(T) - Cardinality(F \cap T)
      BY <1>1, <2>3, FS_Union
    <3>2. Cardinality(F \cap T) = 0
      BY <2>3, FS_EmptySet
    <3> QED
      BY <1>2, <2>2, <3>1, <3>2
  <2> QED
    BY <2>2, <2>4
<1> QED
  BY <1>3, <1>4

-----------------------------------------------------------------------------
(* ChooseCombinations.                                                     *)

\* One more shape of the candidates in every set.
OneMore(candidates, sets) == UNION {{s \cup {p} : p \in candidates \ s} : s \in sets}
Sized(candidates, k) == {s \in SUBSET candidates : Cardinality(s) = k}

\* Sets of one more candidate are those of the next size.
LEMMA OneMoreSized ==
  ASSUME NEW candidates, IsFiniteSet(candidates), NEW k \in Nat \ {0}
  PROVE  OneMore(candidates, Sized(candidates, k - 1)) = Sized(candidates, k)
<1>0. \A s \in SUBSET candidates : IsFiniteSet(s) /\ Cardinality(s) \in Nat
  BY FS_Subset, FS_CardinalityType
<1>1. ASSUME NEW s \in Sized(candidates, k - 1), NEW p \in candidates \ s
      PROVE  s \cup {p} \in Sized(candidates, k)
  <2>1. Cardinality(s \cup {p}) = Cardinality(s) + 1
    BY <1>0, FS_AddElement DEF Sized
  <2> QED
    BY <2>1 DEF Sized
<1>2. ASSUME NEW s \in Sized(candidates, k)
      PROVE  \E t \in Sized(candidates, k - 1) : \E p \in candidates \ t : s = t \cup {p}
  <2>1. s # {}
    BY FS_EmptySet DEF Sized
  <2>2. PICK p \in s : TRUE
    BY <2>1
  <2>3. Cardinality(s \ {p}) = k - 1
    BY <1>0, FS_RemoveElement DEF Sized
  <2>4. s \ {p} \in Sized(candidates, k - 1) /\ p \in candidates \ (s \ {p})
    BY <2>3 DEF Sized
  <2>5. s = (s \ {p}) \cup {p}
    OBVIOUS
  <2> QED
    BY <2>4, <2>5
<1> QED
  BY <1>1, <1>2 DEF OneMore

\* The recursion of the solver yields all sets of n candidates and nothing else.
THEOREM Combinations ==
  ASSUME NEW candidates, IsFiniteSet(candidates), NEW n \in Nat
  PROVE  ChooseCombinations(candidates, n) = Sized(candidates, n)
<1> DEFINE Solves(f) == f = [k \in 0 .. n |-> IF k = 0 THEN {{}} ELSE OneMore(candidates, f[k - 1])]
           f == CHOOSE f : Solves(f)
           g == [k \in 0 .. n |-> Sized(candidates, k)]
<1>1. ChooseCombinations(candidates, n) = f[n]
  BY DEF ChooseCombinations, OneMore
<1>2. Sized(candidates, 0) = {{}}
  <2>1. \A s \in SUBSET candidates : Cardinality(s) = 0 <=> s = {}
    BY FS_Subset, FS_EmptySet
  <2> QED
    BY <2>1 DEF Sized
<1>3. Solves(g)
  <2>1. \A k \in 0 .. n : k # 0 => k - 1 \in 0 .. n /\ k \in Nat \ {0}
    OBVIOUS
  <2>2. \A k \in 0 .. n :
          g[k] = IF k = 0 THEN {{}} ELSE OneMore(candidates, g[k - 1])
    BY <1>2, <2>1, OneMoreSized
  <2> QED
    BY <2>2
<1>4. Solves(f)
  <2> HIDE DEF Solves, g
  <2> QED
    BY <1>3
<1>5. \A k \in 0 .. n : f[k] = g[k]
  <2> DEFINE same == {k \in 0 .. n : f[k] = g[k]}
  <2> HIDE DEF f, g
  <2>1. \A k \in 0 .. n :
          /\ f[k] = IF k = 0 THEN {{}} ELSE OneMore(candidates, f[k - 1])
          /\ g[k] = IF k = 0 THEN {{}} ELSE OneMore(candidates, g[k - 1])
    BY <1>3, <1>4
  <2>2. 0 \in same
    BY <2>1
  <2>3. ASSUME NEW k \in 1 .. n, k - 1 \in same PROVE k \in same
    <3>1. k \in 0 .. n /\ k # 0
      OBVIOUS
    <3> QED
      BY <2>1, <2>3, <3>1
  <2> HIDE DEF same
  <2>4. 0 .. n \subseteq same
    BY <2>2, <2>3, Upwards
  <2> QED
    BY <2>4 DEF same
<1>6. n \in 0 .. n
  OBVIOUS
<1>7. f[n] = g[n]
  BY <1>5, <1>6
<1>8. g[n] = Sized(candidates, n)
  BY <1>6
<1> HIDE DEF f, g
<1> QED
  BY <1>1, <1>7, <1>8

-----------------------------------------------------------------------------
(* What the solver selects, without its recursion: shapes c[i] for every   *)
(* requirement i, as many as it asks for, each fitting those before it.    *)

Chosen(combo, c, i) == UNION {Picks(combo.requires[j], c[j]) : j \in 1 .. i}

Possible(combo, cells, lines, c, i) ==
    \A j \in 1 .. i :
        LET q == combo.requires[j]
        IN  /\ c[j] \in Sized(Candidates(q, cells, lines), q.count)
            /\ Fits(combo, Chosen(combo, c, j - 1), q, Picks(q, c[j]))

Assignments(combo, cells) == [1 .. Len(combo.requires) -> SUBSET SUBSET Marked(cells)]

Selected(combo, cells, lines, i) ==
    {Chosen(combo, c, i) :
        c \in {c \in Assignments(combo, cells) : Possible(combo, cells, lines, c, i)}}

\* A requirement of a combination.
LEMMA RequirementType ==
  ASSUME NEW combo \in Combos
  PROVE  /\ Len(combo.requires) \in Nat
         /\ DOMAIN combo.requires = 1 .. Len(combo.requires)
         /\ \A i \in 1 .. Len(combo.requires) :
              combo.requires[i] \in Requirements /\ combo.requires[i].count \in Nat \ {0}
<1>1. combo.requires \in Seq(Requirements)
  BY DEF Combos
<1>2. \A i \in 1 .. Len(combo.requires) : combo.requires[i] \in Requirements
  BY <1>1
<1>3. \A q \in Requirements : q.count \in Nat \ {0}
  BY DEF Requirements
<1> QED
  BY <1>1, <1>2, <1>3

\* A board with finitely many marked cells has finitely many shapes completed.
LEMMA CandidatesFinite ==
  ASSUME NEW q, NEW cells, IsFiniteSet(cells), NEW lines
  PROVE  /\ Candidates(q, cells, lines) \subseteq SUBSET Marked(cells)
         /\ IsFiniteSet(Candidates(q, cells, lines))
<1>1. Candidates(q, cells, lines) \subseteq SUBSET Marked(cells)
  BY DEF Candidates, Complete
<1>2. IsFiniteSet(SUBSET Marked(cells))
  BY FS_AddElement, FS_SUBSET DEF Marked
<1> QED
  BY <1>1, <1>2, FS_Subset

\* What is chosen for one more requirement.
LEMMA ChosenNext ==
  ASSUME NEW combo, NEW c, NEW i \in Nat \ {0}
  PROVE  Chosen(combo, c, i) = Chosen(combo, c, i - 1) \cup Picks(combo.requires[i], c[i])
<1>1. 1 .. i = (1 .. (i - 1)) \cup {i}
  OBVIOUS
<1> QED
  BY <1>1 DEF Chosen

\* What is chosen for some requirements depends on no other.
LEMMA ChosenSame ==
  ASSUME NEW combo, NEW c, NEW d, NEW i \in Nat, \A j \in 1 .. i : c[j] = d[j]
  PROVE  Chosen(combo, c, i) = Chosen(combo, d, i)
BY DEF Chosen

\* What is selected for the first i requirements is what extends the selections
\* for those before.
LEMMA SelectedNext ==
  ASSUME NEW combo \in Combos, NEW cells, IsFiniteSet(cells), NEW lines,
         NEW i \in 1 .. Len(combo.requires)
  PROVE  Selected(combo, cells, lines, i)
           = Extend(combo, cells, lines, Selected(combo, cells, lines, i - 1), combo.requires[i])
<1> DEFINE q == combo.requires[i]
           sets == Sized(Candidates(q, cells, lines), q.count)
<1>1. i \in Nat \ {0} /\ i - 1 \in Nat /\ i \in 1 .. i
  BY RequirementType
<1>2. ChooseCombinations(Candidates(q, cells, lines), q.count) = sets
  BY RequirementType, CandidatesFinite, Combinations
<1> HIDE DEF sets
<1>3. ASSUME NEW s \in Selected(combo, cells, lines, i)
      PROVE  \E t \in Selected(combo, cells, lines, i - 1), d \in sets :
               Fits(combo, t, q, Picks(q, d)) /\ s = t \cup Picks(q, d)
  <2>1. PICK c \in Assignments(combo, cells) :
          Possible(combo, cells, lines, c, i) /\ s = Chosen(combo, c, i)
    BY DEF Selected
  <2>2. Possible(combo, cells, lines, c, i - 1)
    BY <1>1, <2>1 DEF Possible
  <2>3. Chosen(combo, c, i - 1) \in Selected(combo, cells, lines, i - 1)
    BY <2>2 DEF Selected
  <2>4. c[i] \in sets /\ Fits(combo, Chosen(combo, c, i - 1), q, Picks(q, c[i]))
    BY <1>1, <2>1 DEF Possible, sets
  <2>5. s = Chosen(combo, c, i - 1) \cup Picks(q, c[i])
    BY <1>1, <2>1, ChosenNext
  <2> QED
    BY <2>3, <2>4, <2>5
<1>4. ASSUME NEW t \in Selected(combo, cells, lines, i - 1), NEW d \in sets,
             Fits(combo, t, q, Picks(q, d))
      PROVE  t \cup Picks(q, d) \in Selected(combo, cells, lines, i)
  <2>1. PICK c \in Assignments(combo, cells) :
          Possible(combo, cells, lines, c, i - 1) /\ t = Chosen(combo, c, i - 1)
    BY DEF Selected
  <2> DEFINE e == [c EXCEPT ![i] = d]
  <2>2. e \in Assignments(combo, cells) /\ e[i] = d /\ \A j \in 1 .. (i - 1) : e[j] = c[j]
    <3>1. d \in SUBSET SUBSET Marked(cells)
      BY DEF sets, Sized, Candidates, Complete
    <3> QED
      BY <2>1, <3>1 DEF Assignments
  <2> HIDE DEF e
  <2>3. \A j \in 0 .. (i - 1) : Chosen(combo, e, j) = Chosen(combo, c, j)
    BY <2>2, ChosenSame
  <2>4. Possible(combo, cells, lines, e, i)
    <3>1. ASSUME NEW j \in 1 .. i
          PROVE  LET r == combo.requires[j]
                 IN  /\ e[j] \in Sized(Candidates(r, cells, lines), r.count)
                     /\ Fits(combo, Chosen(combo, e, j - 1), r, Picks(r, e[j]))
      <4>1. CASE j = i
        BY <1>1, <1>4, <2>1, <2>2, <2>3, <4>1 DEF sets
      <4>2. CASE j \in 1 .. (i - 1)
        <5>1. j - 1 \in 0 .. (i - 1)
          BY <4>2
        <5> QED
          BY <2>1, <2>2, <2>3, <4>2, <5>1 DEF Possible
      <4> QED
        BY <4>1, <4>2
    <3> QED
      BY <3>1 DEF Possible
  <2>5. Chosen(combo, e, i) = t \cup Picks(q, d)
    <3>1. i - 1 \in 0 .. (i - 1)
      BY <1>1
    <3>2. Chosen(combo, e, i) = Chosen(combo, e, i - 1) \cup Picks(q, e[i])
      BY <1>1, ChosenNext
    <3>3. Chosen(combo, e, i - 1) = t
      BY <2>1, <2>3, <3>1
    <3> QED
      BY <2>2, <3>2, <3>3
  <2> QED
    BY <2>2, <2>4, <2>5 DEF Selected
<1>5. Extend(combo, cells, lines, Selected(combo, cells, lines, i - 1), q)
        = UNION {{s \cup Picks(q, c) : c \in {c \in sets : Fits(combo, s, q, Picks(q, c))}} :
                 s \in Selected(combo, cells, lines, i - 1)}
  BY <1>2 DEF Extend
<1> HIDE DEF q
<1>6. \A s : s \in Selected(combo, cells, lines, i)
               <=> s \in Extend(combo, cells, lines, Selected(combo, cells, lines, i - 1), q)
  BY <1>3, <1>4, <1>5
<1> QED
  BY <1>6 DEF q

\* The recursion of the solver selects exactly that.
LEMMA AllSelections ==
  ASSUME NEW combo \in Combos, NEW cells, IsFiniteSet(cells), NEW lines
  PROVE  Selections(combo, cells, lines) = Selected(combo, cells, lines, Len(combo.requires))
<1> DEFINE n == Len(combo.requires)
           Solves(f) == f = [i \in 0 .. n |->
               IF i = 0 THEN {{}} ELSE Extend(combo, cells, lines, f[i - 1], combo.requires[i])]
           f == CHOOSE f : Solves(f)
           g == [i \in 0 .. n |-> Selected(combo, cells, lines, i)]
<1>0. n \in Nat
  BY RequirementType
<1>1. Selections(combo, cells, lines) = f[n]
  BY DEF Selections
<1>2. g[0] = {{}}
  <2>1. \A c : Chosen(combo, c, 0) = {} /\ Possible(combo, cells, lines, c, 0)
    BY DEF Chosen, Possible
  <2>2. [j \in 1 .. n |-> {}] \in Assignments(combo, cells)
    BY DEF Assignments
  <2>3. Selected(combo, cells, lines, 0) = {{}}
    BY <2>1, <2>2 DEF Selected
  <2> QED
    BY <1>0, <2>3
<1>3. \A i \in 1 .. n : i # 0 /\ i \in 0 .. n /\ i - 1 \in 0 .. n
  BY <1>0
<1>4. \A i \in 1 .. n : g[i] = Extend(combo, cells, lines, g[i - 1], combo.requires[i])
  BY <1>3, SelectedNext
<1>5. Solves(g)
  <2>1. \A i \in 0 .. n :
          g[i] = IF i = 0 THEN {{}} ELSE Extend(combo, cells, lines, g[i - 1], combo.requires[i])
    <3> HIDE DEF g
    <3>1. \A i \in 0 .. n : i = 0 \/ i \in 1 .. n
      BY <1>0
    <3> QED
      BY <1>2, <1>3, <1>4, <3>1
  <2> QED
    BY <2>1
<1>6. Solves(f)
  <2> HIDE DEF Solves, g
  <2> QED
    BY <1>5
<1>7. /\ f[0] = {{}}
      /\ \A i \in 1 .. n : f[i] = Extend(combo, cells, lines, f[i - 1], combo.requires[i])
  <2> HIDE DEF f
  <2>1. 0 \in 0 .. n
    BY <1>0
  <2> QED
    BY <1>3, <1>6, <2>1
<1> HIDE DEF f, g
<1>8. 0 .. n \subseteq {i \in 0 .. n : f[i] = g[i]}
  <2> DEFINE same == {i \in 0 .. n : f[i] = g[i]}
  <2>1. 0 \in same
    <3>1. f[0] = g[0]
      BY <1>2, <1>7
    <3> QED
      BY <1>0, <3>1
  <2>2. ASSUME NEW i \in 1 .. n, i - 1 \in same PROVE i \in same
    BY <1>3, <1>4, <1>7, <2>2
  <2> HIDE DEF same
  <2>3. 0 .. n \subseteq same
    BY <1>0, <2>1, <2>2, Upwards
  <2> QED
    BY <2>3 DEF same
<1>9. n \in 0 .. n /\ g[n] = Selected(combo, cells, lines, n)
  BY <1>0 DEF g
<1> QED
  BY <1>1, <1>8, <1>9

\* A winning combination is what is chosen by some possible assignment.
LEMMA Winning ==
  ASSUME NEW combo \in Combos, NEW cells, IsFiniteSet(cells), NEW w
  PROVE  w \in WinningCombinations(combo, cells)
           <=> \E lines \in LineSets(combo) : \E c \in Assignments(combo, cells) :
                 /\ Possible(combo, cells, lines, c, Len(combo.requires))
                 /\ w = Chosen(combo, c, Len(combo.requires))
<1>1. \A lines \in LineSets(combo) :
        Selections(combo, cells, lines) = Selected(combo, cells, lines, Len(combo.requires))
  BY AllSelections
<1> QED
  BY <1>1 DEF WinningCombinations, Selected

-----------------------------------------------------------------------------
(* What a rule says and what the solver finds.                             *)

\* A pick for every shape.
LEMMA PicksSize ==
  ASSUME NEW q, NEW S, IsFiniteSet(S)
  PROVE  IsFiniteSet(Picks(q, S)) /\ Cardinality(Picks(q, S)) = Cardinality(S)
<1> DEFINE pick == [p \in S |-> [kind |-> q.kind, cells |-> p, group |-> q.group]]
<1>1. pick \in Surjection(S, Picks(q, S)) /\ pick \in Injection(S, Picks(q, S))
  BY DEF Picks, Surjection, Injection, IsInjective
<1> QED
  BY <1>1, FS_Surjection

\* What is chosen belongs to a requirement.
LEMMA ChosenOf ==
  ASSUME NEW combo, NEW c, NEW i \in Nat, NEW x \in Chosen(combo, c, i)
  PROVE  \E j \in 1 .. i : /\ x \in Picks(combo.requires[j], c[j])
                           /\ x.kind = combo.requires[j].kind /\ x.group = combo.requires[j].group
                           /\ x.cells \in c[j]
<1>1. PICK j \in 1 .. i : x \in Picks(combo.requires[j], c[j])
  BY DEF Chosen
<1>2. PICK p \in c[j] :
        x = [kind |-> combo.requires[j].kind, cells |-> p, group |-> combo.requires[j].group]
  BY <1>1 DEF Picks
<1> QED
  BY <1>1, <1>2

\* The solver selects nothing that the rule does not ask for.
LEMMA WinningProves ==
  ASSUME NEW combo \in Combos, combo.requires # <<>>, EarlierGroupsOnly(combo),
         NEW cells, IsFiniteSet(cells), NEW w \in WinningCombinations(combo, cells)
  PROVE  Proves(combo, w, cells)
<1> DEFINE n == Len(combo.requires)
           Q(i) == combo.requires[i]
<1>1. n \in Nat /\ n # 0 /\ DOMAIN combo.requires = 1 .. n
  <2>1. combo.requires \in Seq(Requirements)
    BY DEF Combos
  <2> QED
    BY <2>1, RequirementType
<1>2. PICK lines \in LineSets(combo) : \E c \in Assignments(combo, cells) :
        Possible(combo, cells, lines, c, n) /\ w = Chosen(combo, c, n)
  BY Winning
<1>3. PICK c \in Assignments(combo, cells) :
        Possible(combo, cells, lines, c, n) /\ w = Chosen(combo, c, n)
  BY <1>2
<1>4. \A i \in 1 .. n : /\ c[i] \subseteq Candidates(Q(i), cells, lines)
                        /\ Cardinality(c[i]) = Q(i).count
                        /\ Fits(combo, Chosen(combo, c, i - 1), Q(i), Picks(Q(i), c[i]))
  BY <1>3 DEF Possible, Sized
<1>5. \A x \in w : \E j \in 1 .. n :
        x \in Picks(Q(j), c[j]) /\ x.kind = Q(j).kind /\ x.group = Q(j).group /\ x.cells \in c[j]
  BY <1>1, <1>3, ChosenOf
<1>6. \A x \in w : x.cells \subseteq Marked(cells)
  BY <1>4, <1>5, CandidatesFinite
<1>7. ASSUME NEW i \in 1 .. n
      PROVE  Cardinality({x \in w : x.kind = Q(i).kind /\ x.group = Q(i).group
                                    /\ x.cells \in Candidates(Q(i), cells, lines)}) >= Q(i).count
  <2> DEFINE B == {x \in w : x.kind = Q(i).kind /\ x.group = Q(i).group
                              /\ x.cells \in Candidates(Q(i), cells, lines)}
             all == Picks(Q(i), Candidates(Q(i), cells, lines))
  <2>1. B \in SUBSET all
    <3>1. ASSUME NEW x \in B PROVE x \in all
      <4>1. PICK j \in 1 .. n : x \in Picks(Q(j), c[j])
        BY <1>5
      <4>2. x = [kind |-> x.kind, cells |-> x.cells, group |-> x.group]
        BY <4>1 DEF Picks
      <4> QED
        BY <4>2 DEF Picks
    <3> QED
      BY <3>1
  <2>2. IsFiniteSet(all) /\ IsFiniteSet(c[i])
    <3>1. IsFiniteSet(Candidates(Q(i), cells, lines))
      BY CandidatesFinite
    <3>2. IsFiniteSet(all)
      BY <3>1, PicksSize
    <3>3. c[i] \in SUBSET Candidates(Q(i), cells, lines)
      BY <1>4
    <3>4. IsFiniteSet(c[i])
      BY <3>1, <3>3, FS_Subset
    <3> QED
      BY <3>2, <3>4
  <2>3. IsFiniteSet(B)
    BY <2>1, <2>2, FS_Subset
  <2>4. Picks(Q(i), c[i]) \in SUBSET B
    <3>1. Picks(Q(i), c[i]) \subseteq w
      BY <1>3 DEF Chosen
    <3>2. \A x \in Picks(Q(i), c[i]) :
            x.kind = Q(i).kind /\ x.group = Q(i).group /\ x.cells \in c[i]
      BY DEF Picks
    <3> QED
      BY <1>4, <3>1, <3>2
  <2>5. Cardinality(Picks(Q(i), c[i])) = Q(i).count
    BY <1>4, <2>2, PicksSize
  <2>6. Cardinality(Picks(Q(i), c[i])) <= Cardinality(B)
    BY <2>3, <2>4, FS_Subset
  <2>7. Cardinality(B) \in Nat /\ Q(i).count \in Nat
    BY <2>3, FS_CardinalityType, RequirementType
  <2> HIDE DEF B
  <2>8. Cardinality(B) >= Q(i).count
    BY <2>5, <2>6, <2>7
  <2> QED
    BY <2>8 DEF B
<1>8. ASSUME combo.overlap = "DISALLOW" PROVE Disjoint(w)
  <2>1. n \in 1 .. n /\ n \in Nat \ {0}
    BY <1>1
  <2>2. Disjoint(Chosen(combo, c, n - 1) \cup Picks(Q(n), c[n]))
    BY <1>4, <1>8, <2>1 DEF Fits
  <2> QED
    BY <1>3, <2>1, <2>2, ChosenNext
<1>9. ASSUME NEW i \in 1 .. n, NEW x \in w, NEW y \in w, y.kind = Q(i).kind, y.group = Q(i).group,
             x.group \in Q(i).mustNotOverlapGroups \cup Q(i).mustNotBeContainedInGroups
      PROVE  /\ x.group \in Q(i).mustNotOverlapGroups => ~Overlap(x.cells, y.cells)
             /\ x.group \in Q(i).mustNotBeContainedInGroups => ~(y.cells \subseteq x.cells)
  <2>1. PICK l \in 1 .. n : x \in Picks(Q(l), c[l]) /\ x.group = Q(l).group
    BY <1>5
  <2>2. PICK j \in 1 .. n : y \in Picks(Q(j), c[j]) /\ y.kind = Q(j).kind /\ y.group = Q(j).group
    BY <1>5
  <2>3. l < i /\ j = i /\ combo.overlap = "MIXED"
    BY <1>1, <1>9, <2>1, <2>2 DEF EarlierGroupsOnly
  <2>4. x \in Chosen(combo, c, i - 1)
    <3>1. l \in 1 .. (i - 1)
      BY <1>1, <2>3
    <3> QED
      BY <2>1, <3>1 DEF Chosen
  <2>5. MixedFits(Chosen(combo, c, i - 1), Q(i), Picks(Q(i), c[i]))
    BY <1>4, <2>3 DEF Fits
  <2> QED
    BY <2>2, <2>3, <2>4, <2>5 DEF MixedFits
<1> QED
  <2>1. \E ls \in LineSets(combo) : \A i \in DOMAIN combo.requires :
          Cardinality({x \in w : x.kind = Q(i).kind /\ x.group = Q(i).group
                                 /\ x.cells \in Candidates(Q(i), cells, ls)}) >= Q(i).count
    BY <1>1, <1>7
  <2> QED
    BY <1>1, <1>6, <1>8, <1>9, <2>1 DEF Proves

\* Whatever is picked is a shape picked for some requirement.
LEMMA AllPicksType ==
  ASSUME NEW combo, NEW cells, NEW picks \in AllPicks(combo, cells), NEW x \in picks
  PROVE  x = [kind |-> x.kind, cells |-> x.cells, group |-> x.group]
<1> DEFINE places == DOMAIN combo.requires
<1>1. PICK c : picks = UNION {Picks(combo.requires[i], c[i]) : i \in places}
  BY DEF AllPicks
<1>2. PICK i \in places : x \in Picks(combo.requires[i], c[i])
  BY <1>1
<1> QED
  BY <1>2 DEF Picks

\* Shapes for all requirements that the picks prove can be assigned to them.
LEMMA PicksAssigned ==
  ASSUME NEW combo \in Combos, NEW cells, IsFiniteSet(cells), NEW lines,
         NEW picks, \A x \in picks : x = [kind |-> x.kind, cells |-> x.cells, group |-> x.group],
         \A i \in DOMAIN combo.requires :
           LET q == combo.requires[i]
           IN  Cardinality({x \in picks : x.kind = q.kind /\ x.group = q.group
                                          /\ x.cells \in Candidates(q, cells, lines)}) >= q.count
  PROVE  \E c \in Assignments(combo, cells) : \A i \in 1 .. Len(combo.requires) :
           LET q == combo.requires[i]
           IN  /\ c[i] \in Sized(Candidates(q, cells, lines), q.count)
               /\ Picks(q, c[i]) \subseteq picks
<1> DEFINE n == Len(combo.requires)
           Q(i) == combo.requires[i]
           Goes(i, S) == /\ S \in Sized(Candidates(Q(i), cells, lines), Q(i).count)
                         /\ Picks(Q(i), S) \subseteq picks
<1>1. ASSUME NEW i \in 1 .. n PROVE \E S \in SUBSET SUBSET Marked(cells) : Goes(i, S)
  <2> DEFINE B == {x \in picks : x.kind = Q(i).kind /\ x.group = Q(i).group
                                 /\ x.cells \in Candidates(Q(i), cells, lines)}
             C == {x.cells : x \in B}
  <2>1. B = Picks(Q(i), C)
    BY DEF Picks
  <2>2. C \in SUBSET Candidates(Q(i), cells, lines)
    OBVIOUS
  <2>3. Cardinality(B) >= Q(i).count
    BY RequirementType
  <2> HIDE DEF B, C
  <2>4. IsFiniteSet(C)
    BY <2>2, CandidatesFinite, FS_Subset
  <2>5. Cardinality(C) \in Nat /\ Q(i).count \in Nat /\ Cardinality(C) = Cardinality(B)
    BY <2>1, <2>4, PicksSize, FS_CardinalityType, RequirementType
  <2>6. Q(i).count \in 0 .. Cardinality(C)
    BY <2>3, <2>5
  <2>7. PICK S \in SUBSET C : Cardinality(S) = Q(i).count
    BY <2>4, <2>6, SubsetOfSize
  <2>8. Picks(Q(i), S) \subseteq B
    BY <2>1 DEF Picks
  <2>9. S \in SUBSET Candidates(Q(i), cells, lines) /\ S \in SUBSET SUBSET Marked(cells)
    BY <2>2, CandidatesFinite
  <2>10. B \subseteq picks
    BY DEF B
  <2> QED
    BY <2>7, <2>8, <2>9, <2>10 DEF Sized
<1> HIDE DEF Goes
<1> DEFINE c == [i \in 1 .. n |-> CHOOSE S \in SUBSET SUBSET Marked(cells) : Goes(i, S)]
<1>2. \A i \in 1 .. n : c[i] \in SUBSET SUBSET Marked(cells) /\ Goes(i, c[i])
  BY <1>1
<1>3. c \in Assignments(combo, cells)
  BY <1>2 DEF Assignments
<1> QED
  BY <1>2, <1>3 DEF Goes

\* The solver finds a combination when there are picks that prove one.
LEMMA ProvesWinning ==
  ASSUME NEW combo \in Combos, EarlierGroupsOnly(combo), NEW cells, IsFiniteSet(cells),
         NEW picks \in AllPicks(combo, cells), Proves(combo, picks, cells)
  PROVE  WinningCombinations(combo, cells) # {}
<1> DEFINE n == Len(combo.requires)
           Q(i) == combo.requires[i]
<1>1. n \in Nat /\ DOMAIN combo.requires = 1 .. n
  BY RequirementType
<1>2. PICK lines \in LineSets(combo) : \A i \in DOMAIN combo.requires :
        LET q == combo.requires[i]
        IN  Cardinality({x \in picks : x.kind = q.kind /\ x.group = q.group
                                       /\ x.cells \in Candidates(q, cells, lines)}) >= q.count
  BY DEF Proves
<1>3. \A x \in picks : x = [kind |-> x.kind, cells |-> x.cells, group |-> x.group]
  BY AllPicksType
<1>4. PICK c \in Assignments(combo, cells) : \A i \in 1 .. n :
        /\ c[i] \in Sized(Candidates(Q(i), cells, lines), Q(i).count)
        /\ Picks(Q(i), c[i]) \subseteq picks
  BY <1>2, <1>3, PicksAssigned
<1>5. ASSUME NEW j \in 1 .. n
      PROVE  Fits(combo, Chosen(combo, c, j - 1), Q(j), Picks(Q(j), c[j]))
  <2>1. Chosen(combo, c, j - 1) \subseteq picks /\ Picks(Q(j), c[j]) \subseteq picks
    BY <1>1, <1>4 DEF Chosen
  <2>2. combo.overlap \in {"ALLOW", "DISALLOW", "MIXED"}
    BY DEF Combos
  <2>3. CASE combo.overlap = "ALLOW"
    BY <2>3 DEF Fits
  <2>4. CASE combo.overlap = "DISALLOW"
    BY <2>1, <2>4 DEF Fits, Proves, Disjoint
  <2>5. CASE combo.overlap = "MIXED"
    <3>1. ASSUME NEW x \in Chosen(combo, c, j - 1), NEW y \in Picks(Q(j), c[j]),
                 x.group \in Q(j).mustNotOverlapGroups \cup Q(j).mustNotBeContainedInGroups
          PROVE  /\ x.group \in Q(j).mustNotOverlapGroups => ~Overlap(x.cells, y.cells)
                 /\ x.group \in Q(j).mustNotBeContainedInGroups => ~(y.cells \subseteq x.cells)
      <4>1. y.kind = Q(j).kind /\ y.group = Q(j).group
        BY DEF Picks
      <4>2. y.group \notin Q(j).mustNotOverlapGroups \cup Q(j).mustNotBeContainedInGroups
        BY <1>1, <4>1 DEF EarlierGroupsOnly
      <4> QED
        BY <1>1, <2>1, <3>1, <4>1, <4>2 DEF Proves
    <3> QED
      BY <2>5, <3>1 DEF Fits, MixedFits
  <2> QED
    BY <2>2, <2>3, <2>4, <2>5
<1>6. Possible(combo, cells, lines, c, n)
  BY <1>4, <1>5 DEF Possible
<1>7. Chosen(combo, c, n) \in WinningCombinations(combo, cells)
  BY <1>6, Winning
<1> QED
  BY <1>7

\* The quick test for combinations whose shapes may overlap says the same as the
\* search: enough shapes of every kind are enough.
THEOREM MinimumRule ==
  ASSUME NEW combo \in Combos, NEW cells, IsFiniteSet(cells)
  PROVE  MinimumRuleSatisfied(combo, cells) <=> WinningCombinations(combo, cells) # {}
<1> DEFINE n == Len(combo.requires)
           Q(i) == combo.requires[i]
           Enough == \A i \in 1 .. n : Cardinality(Candidates(Q(i), cells, Lines)) >= Q(i).count
<1>0. n \in Nat /\ DOMAIN combo.requires = 1 .. n
  BY RequirementType
<1>1. SUFFICES ASSUME combo.overlap = "ALLOW", LineSets(combo) = {Lines}
               PROVE  Enough <=> WinningCombinations(combo, cells) # {}
  BY <1>0 DEF MinimumRuleSatisfied
<1>2. \A i \in 1 .. n : /\ IsFiniteSet(Candidates(Q(i), cells, Lines))
                        /\ Cardinality(Candidates(Q(i), cells, Lines)) \in Nat
                        /\ Q(i).count \in Nat
  BY CandidatesFinite, FS_CardinalityType, RequirementType
<1>3. ASSUME Enough PROVE WinningCombinations(combo, cells) # {}
  <2> DEFINE c == [i \in 1 .. n |-> CHOOSE S \in SUBSET Candidates(Q(i), cells, Lines) :
                                      Cardinality(S) = Q(i).count]
  <2>1. ASSUME NEW i \in 1 .. n
        PROVE  c[i] \in Sized(Candidates(Q(i), cells, Lines), Q(i).count)
    <3>1. Q(i).count \in 0 .. Cardinality(Candidates(Q(i), cells, Lines))
      BY <1>2, <1>3
    <3>2. \E S \in SUBSET Candidates(Q(i), cells, Lines) : Cardinality(S) = Q(i).count
      BY <1>2, <3>1, SubsetOfSize
    <3> QED
      BY <3>2 DEF Sized
  <2>2. c \in Assignments(combo, cells)
    <3>1. \A i \in 1 .. n : c[i] \in SUBSET SUBSET Marked(cells)
      BY <2>1, CandidatesFinite DEF Sized
    <3> QED
      BY <3>1 DEF Assignments
  <2> HIDE DEF c
  <2>3. Possible(combo, cells, Lines, c, n)
    BY <1>1, <2>1 DEF Possible, Fits
  <2>4. Chosen(combo, c, n) \in WinningCombinations(combo, cells)
    BY <1>1, <2>2, <2>3, Winning
  <2> QED
    BY <2>4
<1>4. ASSUME NEW w \in WinningCombinations(combo, cells), NEW i \in 1 .. n
      PROVE  Cardinality(Candidates(Q(i), cells, Lines)) >= Q(i).count
  <2>1. PICK c \in Assignments(combo, cells) : Possible(combo, cells, Lines, c, n)
    BY <1>1, Winning
  <2>2. c[i] \in SUBSET Candidates(Q(i), cells, Lines) /\ Cardinality(c[i]) = Q(i).count
    BY <2>1 DEF Possible, Sized
  <2>3. Cardinality(c[i]) <= Cardinality(Candidates(Q(i), cells, Lines))
    BY <1>2, <2>2, FS_Subset
  <2> QED
    BY <1>2, <2>2, <2>3
<1> QED
  BY <1>3, <1>4

\* A combination found on one board is found on every other that has its shapes
\* completed.
LEMMA WinsWithin ==
  ASSUME NEW combo \in Combos, NEW cells, IsFiniteSet(cells), NEW other, IsFiniteSet(other),
         NEW w \in WinningCombinations(combo, other), \A x \in w : x.cells \subseteq Marked(cells)
  PROVE  w \in WinningCombinations(combo, cells)
<1> DEFINE n == Len(combo.requires)
           Q(i) == combo.requires[i]
<1>1. PICK lines \in LineSets(combo) : \E c \in Assignments(combo, other) :
        Possible(combo, other, lines, c, n) /\ w = Chosen(combo, c, n)
  BY Winning
<1>2. PICK c \in Assignments(combo, other) :
        Possible(combo, other, lines, c, n) /\ w = Chosen(combo, c, n)
  BY <1>1
<1>3. ASSUME NEW i \in 1 .. n
      PROVE  /\ c[i] \in Sized(Candidates(Q(i), cells, lines), Q(i).count)
             /\ Fits(combo, Chosen(combo, c, i - 1), Q(i), Picks(Q(i), c[i]))
  <2>1. /\ c[i] \in Sized(Candidates(Q(i), other, lines), Q(i).count)
        /\ Fits(combo, Chosen(combo, c, i - 1), Q(i), Picks(Q(i), c[i]))
    BY <1>2 DEF Possible
  <2>2. ASSUME NEW p \in c[i] PROVE p \in Candidates(Q(i), cells, lines)
    <3>1. p \in Candidates(Q(i), other, lines)
      BY <2>1 DEF Sized
    <3>2. [kind |-> Q(i).kind, cells |-> p, group |-> Q(i).group] \in w
      BY <1>2 DEF Chosen, Picks
    <3>3. p \subseteq Marked(cells)
      BY <3>2
    <3> QED
      BY <3>1, <3>3 DEF Candidates, Complete
  <2> QED
    BY <2>1, <2>2 DEF Sized
<1>4. Possible(combo, cells, lines, c, n)
  BY <1>3 DEF Possible
<1>5. c \in Assignments(combo, cells)
  <2>1. \A i \in 1 .. n : c[i] \in SUBSET SUBSET Marked(cells)
    BY <1>3, CandidatesFinite DEF Sized
  <2> QED
    BY <2>1 DEF Assignments
<1> QED
  BY <1>2, <1>4, <1>5, Winning

-----------------------------------------------------------------------------
(* The other rules.                                                        *)

\* A board has five rows, and they cover it.
LEMMA FiveRows == IsFiniteSet(Rows) /\ Cardinality(Rows) = 5 /\ UNION Rows = Cells
<1>1. Rows = (({} \cup {Row(0)}) \cup {Row(1)}) \cup {Row(2)} \cup {Row(3)} \cup {Row(4)}
  BY DEF Rows, Side
<1>2. \A i, j \in Side : i # j => Row(i) # Row(j)
  <2>1. \A i \in Side : <<i, 0>> \in Row(i) /\ \A p \in Row(i) : p[1] = i
    BY DEF Row, Side
  <2> QED
    BY <2>1
<1>3. 0 \in Side /\ 1 \in Side /\ 2 \in Side /\ 3 \in Side /\ 4 \in Side
  BY DEF Side
<1> DEFINE R1 == {Row(0)}
           R2 == R1 \cup {Row(1)}
           R3 == R2 \cup {Row(2)}
           R4 == R3 \cup {Row(3)}
<1>4. IsFiniteSet(R1) /\ Cardinality(R1) = 1
  BY FS_Singleton
<1>5. IsFiniteSet(R2) /\ Cardinality(R2) = 2
  BY <1>2, <1>3, <1>4, FS_AddElement
<1>6. IsFiniteSet(R3) /\ Cardinality(R3) = 3
  <2>1. Row(2) \notin R2
    BY <1>2, <1>3
  <2> QED
    BY <1>5, <2>1, FS_AddElement
<1>7. IsFiniteSet(R4) /\ Cardinality(R4) = 4
  <2>1. Row(3) \notin R3
    BY <1>2, <1>3
  <2> QED
    BY <1>6, <2>1, FS_AddElement
<1>8. Row(4) \notin R4
  BY <1>2, <1>3
<1>9. IsFiniteSet(R4 \cup {Row(4)}) /\ Cardinality(R4 \cup {Row(4)}) = 5
  <2> HIDE DEF R4
  <2> QED
    BY <1>7, <1>8, FS_AddElement
<1>10. UNION Rows = Cells
  BY DEF Rows, Row, Cells
<1> QED
  BY <1>1, <1>9, <1>10

\* Finitely many patterns are completed with finitely many cells.
LEMMA CompleteFinite ==
  ASSUME NEW cells, IsFiniteSet(cells), NEW patterns
  PROVE  IsFiniteSet(Complete(patterns, cells))
<1>1. IsFiniteSet(SUBSET Marked(cells))
  BY FS_AddElement, FS_SUBSET DEF Marked
<1>2. Complete(patterns, cells) \in SUBSET SUBSET Marked(cells)
  BY DEF Complete
<1> QED
  BY <1>1, <1>2, FS_Subset

\* A board has finitely many cells.
LEMMA BoardFinite == IsFiniteSet(Cells)
<1>1. IsFiniteSet(Side)
  <2>1. 0 \in Int /\ 4 \in Int
    OBVIOUS
  <2> QED
    BY <2>1, FS_Interval DEF Side
<1> QED
  BY <1>1, FS_Product DEF Cells

\* What is shown are shapes of those completed, as many as asked for.
LEMMA ShownType ==
  ASSUME NEW patterns, IsFiniteSet(patterns), NEW n \in Nat, NEW last
  PROVE  /\ ShownOf(patterns, n, last) \in SUBSET patterns
         /\ n <= Cardinality(patterns) => Cardinality(ShownOf(patterns, n, last)) = n
         /\ n # 0 /\ patterns # {} => ShownOf(patterns, n, last) # {}
<1> DEFINE first == WithLatest(patterns, last)
           k == Min({n, Cardinality(patterns)})
           OK(S) == Cardinality(S) = k /\ (S \subseteq first \/ first \subseteq S)
<1>1. Cardinality(patterns) \in Nat
  BY FS_CardinalityType
<1>2. k \in 0 .. Cardinality(patterns) /\ (k = n \/ (k = Cardinality(patterns) /\ k <= n))
  <2> DEFINE both == {n, Cardinality(patterns)}
  <2>1. \E x \in both : \A y \in both : x <= y
    BY <1>1
  <2>2. k \in both /\ \A y \in both : k <= y
    BY <2>1 DEF Min
  <2> QED
    BY <1>1, <2>2
<1> HIDE DEF k
<1>3. \E S \in SUBSET patterns : OK(S)
  <2>1. first \in SUBSET patterns
    BY DEF WithLatest
  <2> HIDE DEF first
  <2> QED
    BY <1>2, <2>1, SubsetPreferring
<1>4. ShownOf(patterns, n, last) = CHOOSE S \in SUBSET patterns : OK(S)
  BY DEF ShownOf, k
<1> HIDE DEF OK
<1>5. ShownOf(patterns, n, last) \in SUBSET patterns /\ OK(ShownOf(patterns, n, last))
  BY <1>3, <1>4
<1>6. n <= Cardinality(patterns) => k = n
  BY <1>1, <1>2
<1>7. n # 0 /\ patterns # {} => k # 0
  BY <1>1, <1>2, FS_EmptySet
<1> QED
  BY <1>5, <1>6, <1>7, FS_EmptySet DEF OK

-----------------------------------------------------------------------------
(* Every rule.                                                             *)

\* A combination that the solver can play is played as it is defined: the parser
\* drops none of its requirements.
LEMMA Parsed ==
  ASSUME NEW combo \in Combos
  PROVE  ParsedRequirements(combo.requires) = combo.requires
<1> DEFINE r == combo.requires
           n == Len(r)
           known == {i \in DOMAIN r : r[i].kind \in ValidKinds /\ r[i].count > 0}
           place(k) == CHOOSE i \in known : Cardinality(known \cap (1 .. i)) = k
<1>1. r \in [1 .. n -> Requirements] /\ n \in Nat /\ DOMAIN r = 1 .. n
  BY RequirementType DEF Combos
<1>2. known = 1 .. n
  <2>1. \A i \in 1 .. n : r[i].kind \in ValidKinds /\ r[i].count > 0
    BY <1>1 DEF Requirements, ValidKinds
  <2> QED
    BY <1>1, <2>1
<1>3. \A i \in 1 .. n : Cardinality((1 .. n) \cap (1 .. i)) = i
  <2>1. ASSUME NEW i \in 1 .. n PROVE Cardinality((1 .. n) \cap (1 .. i)) = i
    <3>1. (1 .. n) \cap (1 .. i) = 1 .. i
      BY <1>1
    <3>2. 1 \in Int /\ i \in Int /\ ~(1 > i) /\ i - 1 + 1 = i
      BY <1>1
    <3>3. Cardinality(1 .. i) = i
      BY <3>2, FS_Interval
    <3> QED
      BY <3>1, <3>3
  <2> QED
    BY <2>1
<1>4. Cardinality(known) = n
  <2> HIDE DEF known, n
  <2>1. CASE n = 0
    <3>1. known = {}
      BY <1>2, <2>1
    <3> QED
      BY <2>1, <3>1, FS_EmptySet
  <2>2. CASE n # 0
    BY <1>1, <1>2, <1>3, <2>2
  <2> QED
    BY <2>1, <2>2
<1>5. \A k \in 1 .. n : place(k) = k
  <2> HIDE DEF known
  <2> QED
    BY <1>2, <1>3
<1>6. ParsedRequirements(r) = [k \in 1 .. Cardinality(known) |-> r[place(k)]]
  BY DEF ParsedRequirements
<1> HIDE DEF known, place
<1>7. ParsedRequirements(r) = [k \in 1 .. n |-> r[k]]
  BY <1>4, <1>5, <1>6
<1> QED
  BY <1>1, <1>7

\* A rule is played by its definition.
LEMMA PlayedRule ==
  ASSUME NEW key, Playable(RULE_PATTERN_DEFINITIONS[key])
  PROVE  RulePattern(key) = RULE_PATTERN_DEFINITIONS[key]
<1> DEFINE pattern == RULE_PATTERN_DEFINITIONS[key]
<1> HIDE DEF pattern
<1>1. CASE pattern.type # "COMBO"
  BY <1>1 DEF RulePattern, pattern
<1>2. CASE pattern.type = "COMBO"
  <2>1. pattern \in Combos
    BY <1>2 DEF Playable, pattern
  <2>2. ParsedRequirements(pattern.requires) = pattern.requires
    BY <2>1, Parsed
  <2>3. [pattern EXCEPT !.requires = ParsedRequirements(@)] = pattern
    BY <2>1, <2>2 DEF Combos
  <2> QED
    BY <2>3 DEF RulePattern, pattern
<1> QED
  BY <1>1, <1>2

\* When a cartela wins, whatever number was called last.
Wins(pattern, cells) ==
    CASE pattern.type = "FULL_HOUSE" -> Cardinality(Complete(Rows, cells)) >= 5
      [] pattern.type = "ROWS_REQUIRED" -> Cardinality(Complete(Rows, cells)) >= pattern.count
      [] pattern.type = "ANY_OF" -> Complete(pattern.lines, cells) # {}
      [] pattern.type = "PATTERN_GROUP" -> Complete(pattern.patterns, cells) # {}
      [] pattern.type = "COMBO" -> WinningCombinations(pattern, cells) # {}

\* One of some completed patterns is shown when there is one.
LEMMA ShownSome ==
  ASSUME NEW patterns, IsFiniteSet(patterns), NEW last
  PROVE  /\ Shown(patterns, last) \in SUBSET patterns
         /\ Shown(patterns, last) # {} <=> patterns # {}
         /\ ShownOf(patterns, 1, last) \in SUBSET patterns
         /\ ShownOf(patterns, 1, last) # {} <=> patterns # {}
<1>1. /\ ShownOf(patterns, 1, last) \in SUBSET patterns
      /\ patterns # {} => ShownOf(patterns, 1, last) # {}
  BY ShownType
<1> QED
  BY <1>1 DEF Shown

\* The verdict does not depend on the number called last.
LEMMA WinnerIf ==
  ASSUME NEW pattern, Playable(pattern), NEW cells, IsFiniteSet(cells), NEW last
  PROVE  Evaluate(pattern, cells, last).isWinner <=> Wins(pattern, cells)
<1>1. CASE pattern.type \in {"FULL_HOUSE", "ROWS_REQUIRED"}
  BY <1>1 DEF Evaluate, EvaluateRows, Verdict, Wins
<1>2. CASE pattern.type = "ANY_OF"
  <2>1. Shown(Complete(pattern.lines, cells), last) # {} <=> Complete(pattern.lines, cells) # {}
    BY CompleteFinite, ShownSome
  <2> QED
    BY <1>2, <2>1 DEF Evaluate, EvaluatePatterns, Verdict, Wins
<1>3. CASE pattern.type = "PATTERN_GROUP"
  <2>1. ShownOf(Complete(pattern.patterns, cells), 1, last) # {}
          <=> Complete(pattern.patterns, cells) # {}
    BY CompleteFinite, ShownSome
  <2> QED
    BY <1>3, <2>1 DEF Evaluate, EvaluateGroup, Verdict, Wins
<1>4. CASE pattern \in Combos
  <2>1. pattern.type = "COMBO"
    BY <1>4 DEF Combos
  <2>2. MinimumRuleSatisfied(pattern, cells) <=> WinningCombinations(pattern, cells) # {}
    BY <1>4, MinimumRule
  <2> QED
    BY <2>1, <2>2 DEF Evaluate, EvaluateCombo, Verdict, Lost, Wins
<1> QED
  BY <1>1, <1>2, <1>3, <1>4 DEF Playable

\* The combination shown is one of those found, with the latest number if any is.
LEMMA PreferredOne ==
  ASSUME NEW combinations, combinations # {}, NEW last
  PROVE  /\ Preferred(combinations, last) \in combinations
         /\ (\E c \in combinations : Uses(c, last)) => Uses(Preferred(combinations, last), last)
<1>1. \E c \in combinations : Uses(c, last) \/ \A d \in combinations : ~Uses(d, last)
  OBVIOUS
<1> HIDE DEF Uses
<1>2. LET c == Preferred(combinations, last)
      IN  c \in combinations /\ (Uses(c, last) \/ \A d \in combinations : ~Uses(d, last))
  BY <1>1 DEF Preferred
<1> QED
  BY <1>2

\* What is shown of a cartela that wins proves that it wins.
LEMMA ShownWins ==
  ASSUME NEW pattern, Playable(pattern), NEW cells \in SUBSET Cells, NEW last,
         Evaluate(pattern, cells, last).isWinner
  PROVE  WinsBy(pattern, Evaluate(pattern, cells, last).completedPatterns, cells)
<1> DEFINE rows == Complete(Rows, cells)
<1>1. IsFiniteSet(cells)
  BY BoardFinite, FS_Subset
<1>2. Wins(pattern, cells)
  BY <1>1, WinnerIf
<1>3. rows \in SUBSET Rows /\ IsFiniteSet(rows) /\ Cardinality(rows) \in Nat
  BY FiveRows, FS_Subset, FS_CardinalityType DEF Complete
<1>4. CASE pattern.type = "FULL_HOUSE"
  <2>1. Cardinality(rows) >= 5
    BY <1>2, <1>4 DEF Wins
  <2>2. Cardinality(rows) = 5
    BY <1>3, <2>1, FiveRows, FS_Subset
  <2>3. rows = Rows
    BY <1>3, <2>2, FiveRows, FS_Subset
  <2>4. Cells \subseteq Marked(cells)
    BY <2>3, FiveRows DEF Complete
  <2> QED
    BY <1>4, <2>4 DEF WinsBy
<1>5. CASE pattern.type = "ROWS_REQUIRED"
  <2>1. Cardinality(rows) >= pattern.count /\ pattern.count \in Nat
    BY <1>2, <1>5 DEF Wins, Playable, Combos
  <2> DEFINE shown == ShownOf(rows, pattern.count, last)
  <2>2. shown \in SUBSET rows /\ Cardinality(shown) = pattern.count
    BY <1>3, <2>1, ShownType
  <2>3. Evaluate(pattern, cells, last).completedPatterns = shown
    BY <1>5, <2>1 DEF Evaluate, EvaluateRows, Verdict
  <2> HIDE DEF shown
  <2>4. {r \in Rows : r \in shown} = shown
    BY <1>3, <2>2
  <2> QED
    BY <1>5, <2>2, <2>3, <2>4 DEF WinsBy
<1>6. CASE pattern.type = "ANY_OF"
  <2> DEFINE shown == Shown(Complete(pattern.lines, cells), last)
  <2>1. shown \in SUBSET Complete(pattern.lines, cells) /\ shown # {}
    BY <1>1, <1>2, <1>6, CompleteFinite, ShownSome DEF Wins
  <2>2. Evaluate(pattern, cells, last).completedPatterns = shown
    BY <1>6 DEF Evaluate, EvaluatePatterns, Verdict
  <2> HIDE DEF shown
  <2> QED
    BY <1>6, <2>1, <2>2 DEF WinsBy
<1>7. CASE pattern.type = "PATTERN_GROUP"
  <2> DEFINE shown == ShownOf(Complete(pattern.patterns, cells), 1, last)
  <2>1. shown \in SUBSET Complete(pattern.patterns, cells) /\ shown # {}
    BY <1>1, <1>2, <1>7, CompleteFinite, ShownSome DEF Wins
  <2>2. Evaluate(pattern, cells, last).completedPatterns = shown
    BY <1>7 DEF Evaluate, EvaluateGroup, Verdict
  <2> HIDE DEF shown
  <2> QED
    BY <1>7, <2>1, <2>2 DEF WinsBy
<1>8. CASE pattern \in Combos /\ pattern.requires # <<>> /\ EarlierGroupsOnly(pattern)
  <2> DEFINE found == WinningCombinations(pattern, cells)
  <2>1. pattern.type = "COMBO"
    BY <1>8 DEF Combos
  <2>2. found # {} /\ MinimumRuleSatisfied(pattern, cells)
    BY <1>1, <1>2, <1>8, <2>1, MinimumRule DEF Wins
  <2> HIDE DEF found
  <2>3. Preferred(found, last) \in found
    BY <2>2, PreferredOne
  <2>4. Proves(pattern, Preferred(found, last), cells)
    BY <1>1, <1>8, <2>3, WinningProves DEF found
  <2>5. Evaluate(pattern, cells, last).completedPatterns = Preferred(found, last)
    BY <2>1, <2>2 DEF Evaluate, EvaluateCombo, Verdict, found
  <2> QED
    BY <2>1, <2>4, <2>5 DEF WinsBy
<1> QED
  BY <1>4, <1>5, <1>6, <1>7, <1>8 DEF Playable

\* A cartela with what its rule asks for wins.
LEMMA MayWinWins ==
  ASSUME NEW pattern, Playable(pattern), NEW cells \in SUBSET Cells, MayWin(pattern, cells)
  PROVE  Wins(pattern, cells)
<1> DEFINE rows == Complete(Rows, cells)
<1>1. IsFiniteSet(cells)
  BY BoardFinite, FS_Subset
<1>2. rows \in SUBSET Rows /\ IsFiniteSet(rows) /\ Cardinality(rows) \in Nat
  BY FiveRows, FS_Subset, FS_CardinalityType DEF Complete
<1>3. CASE pattern.type = "FULL_HOUSE"
  <2>1. rows = Rows
    BY <1>3, FiveRows DEF MayWin, Complete
  <2> QED
    BY <1>3, <2>1, FiveRows DEF Wins
<1>4. CASE pattern.type = "ROWS_REQUIRED"
  <2>1. PICK S \in SUBSET rows : Cardinality(S) = pattern.count
    BY <1>4 DEF MayWin
  <2>2. Cardinality(S) <= Cardinality(rows) /\ Cardinality(S) \in Nat
    BY <1>2, <2>1, FS_Subset, FS_CardinalityType
  <2>3. Cardinality(rows) >= pattern.count
    BY <1>2, <2>1, <2>2
  <2> QED
    BY <1>4, <2>3 DEF Wins
<1>5. CASE pattern.type \in {"ANY_OF", "PATTERN_GROUP"}
  BY <1>5 DEF MayWin, Wins
<1>6. CASE pattern \in Combos /\ pattern.requires # <<>> /\ EarlierGroupsOnly(pattern)
  <2>1. pattern.type = "COMBO"
    BY <1>6 DEF Combos
  <2>2. PICK picks \in AllPicks(pattern, cells) : Proves(pattern, picks, cells)
    BY <2>1 DEF MayWin
  <2>3. WinningCombinations(pattern, cells) # {}
    BY <1>1, <1>6, <2>2, ProvesWinning
  <2> QED
    BY <2>1, <2>3 DEF Wins
<1> QED
  BY <1>3, <1>4, <1>5, <1>6 DEF Playable

-----------------------------------------------------------------------------
(* One more number.                                                        *)

\* What is completed stays completed, and what is not yet completed without a
\* number has it.
LEMMA CompleteMore ==
  ASSUME NEW patterns, NEW cells, NEW more, cells \subseteq more
  PROVE  /\ Complete(patterns, cells) \subseteq Complete(patterns, more)
         /\ \A n : more = cells \cup {n} /\ WithLatest(Complete(patterns, more), n) = {}
              => Complete(patterns, more) = Complete(patterns, cells)
BY DEF Complete, Marked, WithLatest

\* A cartela that wins goes on winning.
LEMMA WinsMore ==
  ASSUME NEW pattern, Playable(pattern), NEW more \in SUBSET Cells, NEW cells \in SUBSET more,
         Wins(pattern, cells)
  PROVE  Wins(pattern, more)
<1>1. IsFiniteSet(cells) /\ IsFiniteSet(more)
  BY BoardFinite, FS_Subset
<1>2. CASE pattern.type \in {"FULL_HOUSE", "ROWS_REQUIRED"}
  <2> DEFINE before == Complete(Rows, cells)
             after == Complete(Rows, more)
  <2>1. before \in SUBSET after
    BY CompleteMore
  <2>2. IsFiniteSet(before) /\ IsFiniteSet(after)
    BY <1>1, CompleteFinite
  <2> HIDE DEF before, after
  <2>3. /\ Cardinality(before) \in Nat /\ Cardinality(after) \in Nat
        /\ Cardinality(before) <= Cardinality(after)
    BY <2>1, <2>2, FS_Subset, FS_CardinalityType
  <2>4. CASE pattern.type = "FULL_HOUSE"
    BY <2>3, <2>4 DEF Wins, before, after
  <2>5. CASE pattern.type = "ROWS_REQUIRED"
    <3>1. pattern.count \in Nat
      BY <2>5 DEF Playable, Combos
    <3> QED
      BY <2>3, <2>5, <3>1 DEF Wins, before, after
  <2> QED
    BY <1>2, <2>4, <2>5
<1>3. CASE pattern.type \in {"ANY_OF", "PATTERN_GROUP"}
  <2>1. \A patterns : Complete(patterns, cells) \subseteq Complete(patterns, more)
    BY CompleteMore
  <2> QED
    BY <1>3, <2>1 DEF Wins
<1>4. CASE pattern \in Combos /\ pattern.requires # <<>> /\ EarlierGroupsOnly(pattern)
  <2>1. pattern.type = "COMBO"
    BY <1>4 DEF Combos
  <2>2. PICK w \in WinningCombinations(pattern, cells) : TRUE
    BY <2>1 DEF Wins
  <2>3. \A x \in w : x.cells \subseteq Marked(cells)
    BY <1>1, <1>4, WinningProves DEF Proves
  <2>4. \A x \in w : x.cells \subseteq Marked(more)
    BY <2>3 DEF Marked
  <2>5. w \in WinningCombinations(pattern, more)
    BY <1>1, <1>4, <2>4, WinsWithin
  <2> QED
    BY <2>1, <2>5 DEF Wins
<1> QED
  BY <1>2, <1>3, <1>4 DEF Playable

\* The number that makes a cartela win is in what is shown of it.
LEMMA NewlyWins ==
  ASSUME NEW pattern, Playable(pattern), NEW cells \in SUBSET Cells, NEW n \in Cells \ cells,
         ~Wins(pattern, cells), Wins(pattern, cells \cup {n})
  PROVE  Evaluate(pattern, cells \cup {n}, n).completedByLatestNumber
<1> DEFINE more == cells \cup {n}
           new(patterns) == Complete(patterns, more)
<1>0. more \in SUBSET Cells /\ cells \subseteq more /\ Before(more, n) = cells
  BY DEF Before
<1>1. IsFiniteSet(cells) /\ IsFiniteSet(more)
  BY <1>0, BoardFinite, FS_Subset
<1>2. \A patterns : new(patterns) # Complete(patterns, cells) => WithLatest(new(patterns), n) # {}
  BY <1>0, CompleteMore
<1> HIDE DEF more
<1>3. ASSUME NEW count, NEW all, ~(Cardinality(Complete(Rows, cells)) >= count),
             Cardinality(new(Rows)) >= count, count \in Nat
      PROVE  EvaluateRows(count, all, more, n).completedByLatestNumber
  <2>1. ByLatest(new(Rows), n)
    BY <1>2, <1>3 DEF ByLatest
  <2>2. Cardinality(Complete(Rows, Before(more, n))) < count
    BY <1>0, <1>1, <1>3, CompleteFinite, FS_CardinalityType
  <2> QED
    BY <1>3, <2>1, <2>2 DEF EvaluateRows, Verdict
<1>4. CASE pattern.type = "FULL_HOUSE"
  BY <1>3, <1>4 DEF Evaluate, Wins, more
<1>5. CASE pattern.type = "ROWS_REQUIRED"
  <2>1. pattern.count \in Nat
    BY <1>5 DEF Playable, Combos
  <2> QED
    BY <1>3, <1>5, <2>1 DEF Evaluate, Wins, more
<1>6. ASSUME NEW patterns, Complete(patterns, cells) = {},
             NEW shown \in SUBSET new(patterns), shown # {}
      PROVE  ByLatest(shown, n)
  <2>1. \A p \in new(patterns) : n \in p
    BY <1>6 DEF Complete, Marked, more
  <2> QED
    BY <1>6, <2>1 DEF ByLatest, WithLatest
<1>7. CASE pattern.type = "ANY_OF"
  <2>1. Complete(pattern.lines, cells) = {} /\ new(pattern.lines) # {}
    BY <1>7 DEF Wins, more
  <2>2. ByLatest(Shown(new(pattern.lines), n), n)
    BY <1>1, <1>6, <2>1, CompleteFinite, ShownSome
  <2> QED
    BY <1>7, <2>2 DEF Evaluate, EvaluatePatterns, Verdict, more
<1>8. CASE pattern.type = "PATTERN_GROUP"
  <2>1. Complete(pattern.patterns, cells) = {} /\ new(pattern.patterns) # {}
    BY <1>8 DEF Wins, more
  <2>2. ByLatest(ShownOf(new(pattern.patterns), 1, n), n)
    BY <1>1, <1>6, <2>1, CompleteFinite, ShownSome
  <2> QED
    BY <1>8, <2>2 DEF Evaluate, EvaluateGroup, Verdict, more
<1>9. CASE pattern \in Combos /\ pattern.requires # <<>> /\ EarlierGroupsOnly(pattern)
  <2> DEFINE found == WinningCombinations(pattern, more)
  <2>1. pattern.type = "COMBO"
    BY <1>9 DEF Combos
  <2>2. WinningCombinations(pattern, cells) = {} /\ found # {}
    BY <2>1 DEF Wins, more
  <2>3. ASSUME NEW w \in found PROVE Uses(w, n)
    <3>1. SUFFICES ASSUME ~Uses(w, n) PROVE FALSE
      OBVIOUS
    <3>2. \A x \in w : x.cells \subseteq Marked(more)
      BY <1>1, <1>9, WinningProves DEF Proves
    <3>3. \A x \in w : x.cells \subseteq Marked(cells)
      BY <3>1, <3>2 DEF Uses, Marked, more
    <3>4. w \in WinningCombinations(pattern, cells)
      BY <1>1, <1>9, <3>3, WinsWithin
    <3> QED
      BY <2>2, <3>4
  <2>4. MinimumRuleSatisfied(pattern, more)
    BY <1>1, <1>9, <2>2, MinimumRule
  <2> HIDE DEF found
  <2>5. Uses(Preferred(found, n), n)
    BY <2>2, <2>3, PreferredOne
  <2> QED
    BY <2>1, <2>4, <2>5 DEF Evaluate, EvaluateCombo, Verdict, found, more
<1> QED
  BY <1>4, <1>5, <1>7, <1>8, <1>9 DEF Playable

-----------------------------------------------------------------------------
(* The theorems.                                                           *)

\* Numbers are called on the board only, and the result is that of its rule.
EvaluateInv ==
    /\ rule \in RuleKeys
    /\ called \in SUBSET (Cells \ {FREE_CENTER})
    /\ result = Evaluate(RULE_PATTERN_DEFINITIONS[rule], called, latest)

\* The invariant holds at the start and after every number.
LEMMA EvaluateInvariant == PlayableRules => (EvaluateSpec => []EvaluateInv)
<1> SUFFICES ASSUME PlayableRules PROVE EvaluateSpec => []EvaluateInv
  OBVIOUS
<1>1. \A key \in RuleKeys : RulePattern(key) = RULE_PATTERN_DEFINITIONS[key]
  BY PlayedRule DEF PlayableRules
<1>2. EvaluateInit => EvaluateInv
  BY <1>1, RulesAssumption DEF EvaluateInit, EvaluateInv
<1>3. EvaluateInv /\ [EvaluateNext]_evaluation => EvaluateInv'
  <2> SUFFICES ASSUME EvaluateInv, [EvaluateNext]_evaluation PROVE EvaluateInv'
    OBVIOUS
  <2>1. CASE UNCHANGED evaluation
    BY <2>1 DEF evaluation, EvaluateInv
  <2>2. ASSUME NEW n \in (Calls \ called) \cup {Elsewhere}, Call(n) PROVE EvaluateInv'
    BY <1>1, <2>2, RulesAssumption DEF Call, EvaluateInv
  <2> QED
    BY <2>1, <2>2 DEF EvaluateNext
<1> QED
  BY <1>2, <1>3, PTL DEF EvaluateSpec

\* A number called is new on the board, or on no cell of it.
LEMMA Called ==
  ASSUME EvaluateInv, [EvaluateNext]_evaluation, ~UNCHANGED evaluation
  PROVE  /\ rule' = rule
         /\ \/ called' = called
            \/ latest' \in Cells \ called /\ called' = called \cup {latest'}
<1>1. PICK n \in (Calls \ called) \cup {Elsewhere} : Call(n)
  BY DEF EvaluateNext
<1>2. n \in Calls => n \in Cells /\ n # Elsewhere
  BY RulesAssumption
<1> QED
  BY <1>1, <1>2 DEF Call

\* Definitions that do not keep shapes of one group apart are played as they are
\* defined: a cartela wins exactly if it has what its rule asks for, and what is
\* shown of it proves it (GameRuleEvaluationService.evaluate, combo-solver.ts).
THEOREM PlayedByTheRule == PlayableRules => (EvaluateSpec => []WinsByTheRule)
<1> SUFFICES ASSUME PlayableRules PROVE EvaluateSpec => []WinsByTheRule
  OBVIOUS
<1>1. EvaluateInv => WinsByTheRule
  <2> SUFFICES ASSUME EvaluateInv PROVE WinsByTheRule
    OBVIOUS
  <2> DEFINE pattern == RULE_PATTERN_DEFINITIONS[rule]
  <2>1. /\ Playable(pattern) /\ called \in SUBSET Cells
        /\ result = Evaluate(pattern, called, latest)
    BY DEF EvaluateInv, PlayableRules
  <2>2. IsFiniteSet(called)
    BY <2>1, BoardFinite, FS_Subset
  <2> HIDE DEF pattern
  <2>3. result.isWinner => WinsBy(pattern, result.completedPatterns, called)
    BY <2>1, ShownWins
  <2>4. MayWin(pattern, called) => result.isWinner
    BY <2>1, <2>2, MayWinWins, WinnerIf
  <2> QED
    BY <2>3, <2>4 DEF WinsByTheRule, pattern
<1> QED
  BY <1>1, EvaluateInvariant, PTL

\* A claim made when the number called makes the cartela win is in time.
THEOREM WinningNumberIsInTime == PlayableRules => (EvaluateSpec => WinningNumberCounts)
<1> SUFFICES ASSUME PlayableRules PROVE EvaluateSpec => WinningNumberCounts
  OBVIOUS
<1>1. EvaluateInv /\ EvaluateInv' /\ [EvaluateNext]_evaluation
        => [~result.isWinner /\ result'.isWinner => result'.completedByLatestNumber]_evaluation
  <2> SUFFICES ASSUME EvaluateInv, EvaluateInv', [EvaluateNext]_evaluation,
                      ~UNCHANGED evaluation, ~result.isWinner, result'.isWinner
               PROVE  result'.completedByLatestNumber
    OBVIOUS
  <2> DEFINE pattern == RULE_PATTERN_DEFINITIONS[rule]
  <2>1. /\ rule' = rule
        /\ \/ called' = called
           \/ latest' \in Cells \ called /\ called' = called \cup {latest'}
    BY Called
  <2>2. /\ Playable(pattern) /\ called \in SUBSET Cells /\ called' \in SUBSET Cells
        /\ result = Evaluate(pattern, called, latest)
        /\ result' = Evaluate(pattern, called', latest')
    BY <2>1 DEF EvaluateInv, PlayableRules
  <2> HIDE DEF pattern
  <2>3. IsFiniteSet(called) /\ IsFiniteSet(called')
    BY <2>2, BoardFinite, FS_Subset
  <2>4. ~Wins(pattern, called) /\ Wins(pattern, called')
    BY <2>2, <2>3, WinnerIf
  <2>5. latest' \in Cells \ called /\ called' = called \cup {latest'}
    BY <2>1, <2>4
  <2> QED
    BY <2>2, <2>4, <2>5, NewlyWins
<1> QED
  BY <1>1, EvaluateInvariant, PTL DEF EvaluateSpec, WinningNumberCounts

\* No number called takes a win away.
THEOREM WinsAreKept == PlayableRules => (EvaluateSpec => WinStays)
<1> SUFFICES ASSUME PlayableRules PROVE EvaluateSpec => WinStays
  OBVIOUS
<1>1. EvaluateInv /\ EvaluateInv' /\ [EvaluateNext]_evaluation
        => [result.isWinner => result'.isWinner]_evaluation
  <2> SUFFICES ASSUME EvaluateInv, EvaluateInv', [EvaluateNext]_evaluation,
                      ~UNCHANGED evaluation, result.isWinner
               PROVE  result'.isWinner
    OBVIOUS
  <2> DEFINE pattern == RULE_PATTERN_DEFINITIONS[rule]
  <2>1. rule' = rule /\ called \subseteq called'
    BY Called
  <2>2. /\ Playable(pattern) /\ called \in SUBSET Cells /\ called' \in SUBSET Cells
        /\ result = Evaluate(pattern, called, latest)
        /\ result' = Evaluate(pattern, called', latest')
    BY <2>1 DEF EvaluateInv, PlayableRules
  <2> HIDE DEF pattern
  <2>3. IsFiniteSet(called) /\ IsFiniteSet(called')
    BY <2>2, BoardFinite, FS_Subset
  <2>4. Wins(pattern, called)
    BY <2>2, <2>3, WinnerIf
  <2>5. Wins(pattern, called')
    BY <2>1, <2>2, <2>4, WinsMore
  <2> QED
    BY <2>2, <2>3, <2>5, WinnerIf
<1> QED
  BY <1>1, EvaluateInvariant, PTL DEF EvaluateSpec, WinStays

\* A cartela that won before may be claimed with every number that completes one
\* more combination for it (combo-solver.ts prefers one with the latest number).
THEOREM LaterShapesCount == PlayableRules => (EvaluateSpec => LaterShapeCounts)
<1> SUFFICES ASSUME PlayableRules PROVE EvaluateSpec => LaterShapeCounts
  OBVIOUS
<1> DEFINE Later ==
      result.isWinner /\ latest' # Elsewhere =>
        LET pattern == RULE_PATTERN_DEFINITIONS[rule]
        IN  pattern.type = "COMBO"
              /\ (\E c \in WinningCombinations(pattern, called') : Uses(c, latest'))
            => result'.completedByLatestNumber
<1>1. EvaluateInv /\ EvaluateInv' /\ [EvaluateNext]_evaluation => [Later]_evaluation
  <2> DEFINE pattern == RULE_PATTERN_DEFINITIONS[rule]
             found == WinningCombinations(pattern, called')
  <2> SUFFICES ASSUME EvaluateInv, EvaluateInv', [EvaluateNext]_evaluation,
                      ~UNCHANGED evaluation, pattern.type = "COMBO",
                      \E c \in found : Uses(c, latest')
               PROVE  result'.completedByLatestNumber
    OBVIOUS
  <2>1. rule' = rule
    BY DEF EvaluateNext, Call, evaluation
  <2>2. /\ Playable(pattern) /\ called' \in SUBSET Cells
        /\ result' = Evaluate(pattern, called', latest')
    BY <2>1 DEF EvaluateInv, PlayableRules
  <2> HIDE DEF pattern
  <2>3. IsFiniteSet(called') /\ pattern \in Combos
    BY <2>2, BoardFinite, FS_Subset DEF Playable
  <2>4. MinimumRuleSatisfied(pattern, called')
    BY <2>3, MinimumRule
  <2> HIDE DEF found
  <2>5. Uses(Preferred(found, latest'), latest')
    BY PreferredOne
  <2>6. result' = Verdict(TRUE, Uses(Preferred(found, latest'), latest'), Preferred(found, latest'))
    BY <2>2, <2>4 DEF Evaluate, EvaluateCombo, found
  <2> QED
    BY <2>5, <2>6 DEF Verdict
<1> QED
  BY <1>1, EvaluateInvariant, PTL DEF EvaluateSpec, LaterShapeCounts

-----------------------------------------------------------------------------
(* Review.                                                                 *)

\* What ties the status of cartelas and claims to the winner of the session: a
\* winner's cartela is never registered again, a refused claim's never was his.
Agree ==
    /\ \A c \in Cartelas : cartela[c] = "WINNER" => c = session.winnerCartelaId
    /\ session.winnerCartelaId # None =>
         cartela[session.winnerCartelaId] \in {"WINNER", "CANCELLED"}
    /\ \A k \in Claims : claim[k] = "VALID" => CartelaOf[k] = session.winnerCartelaId
    /\ \A k \in Claims : claim[k] = "INVALID" =>
         /\ cartela[CartelaOf[k]] \in {"BLOCKED", "CANCELLED"}
         /\ CartelaOf[k] # session.winnerCartelaId

IInv == TypeOK /\ Agree /\ PrizePaidOnce /\ RefundedOnce

\* The state does not matter for what a transaction has read.
LEMMA ReadKeeps ==
    ASSUME NEW t \in Transactions \cup {CancelSession}, IInv,
           Read(t) \/ (Written(t) /\ UNCHANGED <<session, cartela, claim, prizes, refunds>>)
    PROVE  IInv'
  BY DEF IInv, TypeOK, Agree, PrizePaidOnce, RefundedOnce, Read, Written

\* A round starts with nothing claimed, paid or refunded.
LEMMA InitInvariant == Init => IInv
  BY ReviewAssumption DEF Init, IInv, TypeOK, Agree, PrizePaidOnce, RefundedOnce,
                          SessionStatus, CartelaStatus, ClaimStatus

\* Every step keeps the inductive invariant.
LEMMA NextInvariant == IInv /\ [Next]_vars => IInv'
<1> USE ReviewAssumption
<1>0. SUFFICES ASSUME IInv, [Next]_vars PROVE IInv'
  OBVIOUS
<1>1. ASSUME NEW k \in Claims, ClaimWrite(k) PROVE IInv'
  BY <1>0, <1>1 DEF ClaimWrite, Written, IInv, TypeOK, Agree, PrizePaidOnce, RefundedOnce,
                    SessionStatus, ClaimStatus
<1>2. ASSUME NEW k \in Claims, ApproveWrite(k) PROVE IInv'
  <2> DEFINE c == CartelaOf[k]
  <2>1. /\ c \in Cartelas /\ cartela[c] = "REGISTERED" /\ session.winnerCartelaId = None
        /\ cartela' = [cartela EXCEPT ![c] = "WINNER"]
        /\ session' = [status |-> "FINISHED", winnerCartelaId |-> c, grace |-> FALSE]
        /\ prizes' = [prizes EXCEPT ![c] = @ + 1]
        /\ claim' = [claim EXCEPT ![k] = "VALID"]
        /\ refunds' = refunds
        /\ reading' \subseteq reading
    BY <1>2 DEF ApproveWrite, Finishable, Written
  <2>2. TypeOK'
    BY <1>0, <2>1 DEF IInv, TypeOK, SessionStatus, CartelaStatus, ClaimStatus
  <2>3. Agree'
    BY <1>0, <2>1 DEF IInv, TypeOK, Agree
  <2>4. PrizePaidOnce'
    BY <1>0, <2>1 DEF IInv, TypeOK, PrizePaidOnce
  <2>5. RefundedOnce'
    BY <1>0, <2>1 DEF IInv, TypeOK, RefundedOnce
  <2> QED BY <2>2, <2>3, <2>4, <2>5 DEF IInv
<1>3. ASSUME NEW k \in Claims, RejectWrite(k) PROVE IInv'
  <2> DEFINE c == CartelaOf[k]
  <2>1. /\ c \in Cartelas /\ cartela[c] = "REGISTERED"
        /\ cartela' = [cartela EXCEPT ![c] = "BLOCKED"]
        /\ claim' = [claim EXCEPT ![k] = "INVALID"]
        /\ session' = [session EXCEPT !.status = "PLAYING"]
        /\ prizes' = prizes /\ refunds' = refunds /\ reading' \subseteq reading
    BY <1>3 DEF RejectWrite, Blockable, Written
  <2>2. TypeOK'
    BY <1>0, <2>1 DEF IInv, TypeOK, SessionStatus, CartelaStatus, ClaimStatus
  <2>3. session'.winnerCartelaId = session.winnerCartelaId /\ c # session.winnerCartelaId
    BY <1>0, <2>1 DEF IInv, TypeOK, Agree
  <2>4. Agree'
    BY <1>0, <2>1, <2>3 DEF IInv, TypeOK, Agree
  <2>5. PrizePaidOnce' /\ RefundedOnce'
    BY <1>0, <2>1, <2>3 DEF IInv, TypeOK, PrizePaidOnce, RefundedOnce
  <2> QED BY <2>2, <2>4, <2>5 DEF IInv
<1>4. CASE CancelWrite
  <2>1. TypeOK' /\ Agree'
    BY <1>0, <1>4 DEF CancelWrite, Written, Refundable, IInv, TypeOK, Agree, SessionStatus,
                      CartelaStatus, ClaimStatus
  <2>2. PrizePaidOnce'
    BY <1>0, <1>4 DEF CancelWrite, IInv, TypeOK, PrizePaidOnce
  <2>3. RefundedOnce'
    BY <1>0, <1>4 DEF CancelWrite, Refundable, IInv, TypeOK, RefundedOnce
  <2> QED BY <2>1, <2>2, <2>3 DEF IInv
<1>5. CASE StartNoWinnerGrace
  BY <1>0, <1>5 DEF StartNoWinnerGrace, IInv, TypeOK, Agree, PrizePaidOnce, RefundedOnce
<1>6. CASE FinalizeNoWinner
  <2>1. TypeOK'
    BY <1>0, <1>6 DEF FinalizeNoWinner, IInv, TypeOK, SessionStatus, CartelaStatus, ClaimStatus
  <2>2. Agree'
    BY <1>0, <1>6 DEF FinalizeNoWinner, IInv, TypeOK, Agree, CartelaStatus
  <2>3. PrizePaidOnce' /\ RefundedOnce'
    BY <1>0, <1>6 DEF FinalizeNoWinner, IInv, TypeOK, PrizePaidOnce, RefundedOnce
  <2> QED BY <2>1, <2>2, <2>3 DEF IInv
<1>7. ASSUME NEW k \in Claims, ClaimRead(k) \/ ApproveRead(k) \/ RejectRead(k) PROVE IInv'
  <2>1. PICK t \in Transactions : Read(t)
    BY <1>7 DEF ClaimRead, ApproveRead, RejectRead, Transactions
  <2> QED BY <1>0, <2>1, ReadKeeps
<1>8. CASE CancelRead
  BY <1>0, <1>8, ReadKeeps DEF CancelRead
<1>9. ASSUME NEW t \in reading, Fail(t) PROVE IInv'
  <2>1. t \in Transactions \cup {CancelSession}
    BY <1>0 DEF IInv, TypeOK
  <2> QED BY <1>0, <1>9, <2>1, ReadKeeps DEF Fail
<1>10. CASE UNCHANGED vars
  BY <1>0, <1>10 DEF vars, IInv, TypeOK, Agree, PrizePaidOnce, RefundedOnce
<1> QED BY <1>0, <1>1, <1>2, <1>3, <1>4, <1>5, <1>6, <1>7, <1>8, <1>9, <1>10 DEF Next

\* The inductive invariant holds in every state of every round.
THEOREM Invariant == Spec => []IInv
  BY InitInvariant, NextInvariant, PTL DEF Spec

\* One prize at most leaves for a round, to its winner, although the round may be
\* reopened after it ended (approveClaim, finishGameWithWinner).
THEOREM PaidOnce == Spec => []PrizePaidOnce
<1>1. IInv => PrizePaidOnce
  BY DEF IInv
<1> QED BY <1>1, Invariant, PTL

\* The entry fee of a cartela comes back exactly once, when the cartela is
\* cancelled, however often its session is (cancelSession).
THEOREM Refunds == Spec => []RefundedOnce
<1>1. IInv => RefundedOnce
  BY DEF IInv
<1> QED BY <1>1, Invariant, PTL

\* No cartela has an accepted and a refused claim (approveClaim, rejectClaim).
THEOREM Verdicts == Spec => []OneVerdict
<1>1. IInv => OneVerdict
  BY DEF IInv, Agree, OneVerdict
<1> QED BY <1>1, Invariant, PTL
=============================================================================
