------------------------------ MODULE SumProofs ------------------------------
(***************************************************************************)
(* Sums over finite sets, as the specifications take them: the quantities  *)
(* of the open transfers, the units of a product over the warehouses, the  *)
(* units that the deliveries of an order brought.  SumFunctionOnSet folds  *)
(* its set in an order of its own choice; these lemmas say that the order  *)
(* does not matter, and what a change of one summand does.                 *)
(***************************************************************************)
EXTENDS Integers, FiniteSets, Functions, FiniteSetTheorems, WellFoundedInduction, TLAPS

\* The fold: take some element out, and add it to the sum of the others.
Chosen(s) == CHOOSE x \in s : TRUE
Others(s) == s \ {Chosen(s)}

Recurs(f, v, S) ==
    f = [s \in SUBSET S |-> IF s = {} THEN 0 ELSE v[Chosen(s)] + f[Others(s)]]

Iterated(v, S) == CHOOSE f : Recurs(f, v, S)

\* The sum is this function's value at the whole set.
LEMMA SumIsIterated ==
  ASSUME NEW v, NEW S
  PROVE  SumFunctionOnSet(v, S) = Iterated(v, S)[S]
  BY DEF SumFunctionOnSet, FoldFunctionOnSet, MapThenFoldSet, Iterated, Recurs, Chosen, Others

\* The chosen element is one of the set, and the others are fewer.
LEMMA OthersFacts ==
  ASSUME NEW s, s # {}
  PROVE  Chosen(s) \in s /\ Others(s) \subseteq s /\ Others(s) # s
  BY DEF Chosen, Others

\* Induction over the subsets of a finite set: of any that have a property there
\* is one none of whose proper subsets has it.
LEMMA MinimalSubset ==
  ASSUME NEW S, IsFiniteSet(S), NEW T, T \subseteq SUBSET S, T # {}
  PROVE  \E m \in T : \A y \in T : y \subseteq m => y = m
  <1>1. IsWellFoundedOn(StrictSubsetOrdering(S), SUBSET S)
    BY FS_StrictSubsetOrderingWellFounded, FS_FiniteSubsetsOfFinite
  <1>2. PICK m \in T : \A y \in T : <<y, m>> \notin StrictSubsetOrdering(S)
    BY <1>1, WFMin
  <1> QED BY <1>2 DEF StrictSubsetOrdering

\* Two such functions agree wherever both are defined.
LEMMA RecursAgree ==
  ASSUME NEW v, NEW D, NEW E, IsFiniteSet(D), NEW f, NEW g,
         Recurs(f, v, D), Recurs(g, v, E), NEW s, s \subseteq D, s \subseteq E
  PROVE  f[s] = g[s]
  <1> DEFINE T == {d \in SUBSET D : d \subseteq E /\ f[d] # g[d]}
  <1>1. SUFFICES ASSUME T # {} PROVE FALSE
    OBVIOUS
  <1>0. T \subseteq SUBSET D
    OBVIOUS
  <1> HIDE DEF T
  <1>2. PICK m \in T : \A y \in T : y \subseteq m => y = m
    BY <1>0, <1>1, MinimalSubset
  <1> USE DEF T
  <1>3. /\ f[m] = IF m = {} THEN 0 ELSE v[Chosen(m)] + f[Others(m)]
        /\ g[m] = IF m = {} THEN 0 ELSE v[Chosen(m)] + g[Others(m)]
    BY DEF Recurs
  <1>4. m # {} => f[Others(m)] = g[Others(m)]
    BY <1>2, OthersFacts
  <1> QED BY <1>3, <1>4

\* There is such a function on the subsets of every finite set.
LEMMA RecursExists ==
  ASSUME NEW v, NEW S, IsFiniteSet(S)
  PROVE  Recurs(Iterated(v, S), v, S)
  <1> DEFINE T == {d \in SUBSET S : ~Recurs(Iterated(v, d), v, d)}
  <1>1. SUFFICES ASSUME T # {} PROVE FALSE
    OBVIOUS
  <1>0. T \subseteq SUBSET S
    OBVIOUS
  <1> HIDE DEF T
  <1>2. PICK m \in T : \A y \in T : y \subseteq m => y = m
    BY <1>0, <1>1, MinimalSubset
  <1> USE DEF T
  <1>3. \A d \in SUBSET m : d # m => Recurs(Iterated(v, d), v, d) /\ IsFiniteSet(d)
    BY <1>2, FS_Subset
  <1> DEFINE val(s) == Iterated(v, Others(s))[Others(s)]
             g == [s \in SUBSET m |-> IF s = {} THEN 0 ELSE v[Chosen(s)] + val(s)]
  <1>4. ASSUME NEW s \in SUBSET m, s # {}
        PROVE  g[Others(s)] = val(s)
    <2> DEFINE d == Others(s)
               h == Iterated(v, d)
    <2>1. d \in SUBSET m /\ d # m /\ Recurs(h, v, d) /\ IsFiniteSet(d)
      <3>1. d \subseteq s /\ d # s
        BY <1>4, OthersFacts
      <3>2. d \in SUBSET m /\ d # m
        BY <3>1
      <3> HIDE DEF d
      <3> QED BY <1>3, <3>2
    <2>2. h[d] = IF d = {} THEN 0 ELSE v[Chosen(d)] + h[Others(d)]
      BY <2>1 DEF Recurs
    <2>3. ASSUME d # {} PROVE h[Others(d)] = val(d)
      <3>1. Others(d) \subseteq d /\ Others(d) # m
        BY <2>1, <2>3, OthersFacts
      <3>2. Recurs(Iterated(v, Others(d)), v, Others(d)) /\ IsFiniteSet(Others(d))
        BY <1>3, <2>1, <3>1
      <3> HIDE DEF h, d
      <3> QED BY <2>1, <3>1, <3>2, RecursAgree
    <2> HIDE DEF d, val, h
    <2>4. g[d] = IF d = {} THEN 0 ELSE v[Chosen(d)] + val(d)
      BY <2>1
    <2>5. g[d] = h[d]
      BY <2>2, <2>3, <2>4
    <2> QED BY <2>5 DEF d, h, val
  <1> HIDE DEF val
  <1>5. Recurs(g, v, m)
    BY <1>4 DEF Recurs
  <1>6. Recurs(Iterated(v, m), v, m)
    BY <1>5 DEF Iterated
  <1> QED BY <1>2, <1>6

-----------------------------------------------------------------------------
\* Nothing adds up to nothing.
LEMMA SumEmpty ==
  ASSUME NEW v
  PROVE  SumFunctionOnSet(v, {}) = 0
  <1>1. Recurs(Iterated(v, {}), v, {})
    BY RecursExists, FS_EmptySet
  <1> QED BY <1>1, SumIsIterated DEF Recurs

\* The sum is the chosen summand and the sum of the others.
LEMMA SumChosen ==
  ASSUME NEW v, NEW S, IsFiniteSet(S), S # {}
  PROVE  SumFunctionOnSet(v, S) = v[Chosen(S)] + SumFunctionOnSet(v, Others(S))
  <1>1. Recurs(Iterated(v, S), v, S)
    BY RecursExists
  <1>2. Iterated(v, S)[S] = v[Chosen(S)] + Iterated(v, S)[Others(S)]
    BY <1>1 DEF Recurs
  <1>3. Others(S) \subseteq S /\ IsFiniteSet(Others(S))
    BY OthersFacts, FS_Subset
  <1>4. Recurs(Iterated(v, Others(S)), v, Others(S))
    BY <1>3, RecursExists
  <1>5. Iterated(v, S)[Others(S)] = Iterated(v, Others(S))[Others(S)]
    BY <1>1, <1>3, <1>4, RecursAgree
  <1> QED BY <1>2, <1>5, SumIsIterated

\* A sum of integers is one.
LEMMA SumType ==
  ASSUME NEW v, NEW S, IsFiniteSet(S), \A x \in S : v[x] \in Int
  PROVE  SumFunctionOnSet(v, S) \in Int
  <1> DEFINE T == {d \in SUBSET S : SumFunctionOnSet(v, d) \notin Int}
  <1>1. SUFFICES ASSUME T # {} PROVE FALSE
    OBVIOUS
  <1>0. T \subseteq SUBSET S
    OBVIOUS
  <1> HIDE DEF T
  <1>2. PICK m \in T : \A y \in T : y \subseteq m => y = m
    BY <1>0, <1>1, MinimalSubset
  <1> USE DEF T
  <1>3. m # {}
    BY SumEmpty
  <1>4. SumFunctionOnSet(v, m) = v[Chosen(m)] + SumFunctionOnSet(v, Others(m))
    BY <1>3, SumChosen, FS_Subset
  <1>5. Chosen(m) \in S /\ SumFunctionOnSet(v, Others(m)) \in Int
    BY <1>2, <1>3, OthersFacts
  <1> QED BY <1>4, <1>5

\* Equal summands have equal sums.
LEMMA SumEqual ==
  ASSUME NEW v, NEW w, NEW S, IsFiniteSet(S), \A x \in S : v[x] = w[x]
  PROVE  SumFunctionOnSet(v, S) = SumFunctionOnSet(w, S)
  <1> DEFINE T == {d \in SUBSET S : SumFunctionOnSet(v, d) # SumFunctionOnSet(w, d)}
  <1>1. SUFFICES ASSUME T # {} PROVE FALSE
    OBVIOUS
  <1>0. T \subseteq SUBSET S
    OBVIOUS
  <1> HIDE DEF T
  <1>2. PICK m \in T : \A y \in T : y \subseteq m => y = m
    BY <1>0, <1>1, MinimalSubset
  <1> USE DEF T
  <1>3. m # {}
    BY SumEmpty
  <1>4. /\ SumFunctionOnSet(v, m) = v[Chosen(m)] + SumFunctionOnSet(v, Others(m))
        /\ SumFunctionOnSet(w, m) = w[Chosen(m)] + SumFunctionOnSet(w, Others(m))
    BY <1>3, SumChosen, FS_Subset
  <1>5. Chosen(m) \in S /\ SumFunctionOnSet(v, Others(m)) = SumFunctionOnSet(w, Others(m))
    BY <1>2, <1>3, OthersFacts
  <1> QED BY <1>4, <1>5

\* Zeros add up to zero.
LEMMA SumZeros ==
  ASSUME NEW v, NEW S, IsFiniteSet(S), \A x \in S : v[x] = 0
  PROVE  SumFunctionOnSet(v, S) = 0
  <1> DEFINE T == {d \in SUBSET S : SumFunctionOnSet(v, d) # 0}
  <1>1. SUFFICES ASSUME T # {} PROVE FALSE
    OBVIOUS
  <1>0. T \subseteq SUBSET S
    OBVIOUS
  <1> HIDE DEF T
  <1>2. PICK m \in T : \A y \in T : y \subseteq m => y = m
    BY <1>0, <1>1, MinimalSubset
  <1> USE DEF T
  <1>3. m # {}
    BY <1>2, SumEmpty
  <1>4. SumFunctionOnSet(v, m) = v[Chosen(m)] + SumFunctionOnSet(v, Others(m))
    BY <1>3, SumChosen, FS_Subset
  <1>5. Chosen(m) \in S /\ SumFunctionOnSet(v, Others(m)) = 0
    BY <1>2, <1>3, OthersFacts
  <1> QED BY <1>4, <1>5

\* Any summand may be taken out, whatever the order of the fold.
LEMMA SumWithout ==
  ASSUME NEW v, NEW S, IsFiniteSet(S), \A x \in S : v[x] \in Int, NEW e \in S
  PROVE  SumFunctionOnSet(v, S) = v[e] + SumFunctionOnSet(v, S \ {e})
  <1> DEFINE T == {d \in SUBSET S : \E y \in d :
                     SumFunctionOnSet(v, d) # v[y] + SumFunctionOnSet(v, d \ {y})}
  <1>1. SUFFICES ASSUME T # {} PROVE FALSE
    OBVIOUS
  <1>0. T \subseteq SUBSET S
    OBVIOUS
  <1> HIDE DEF T
  <1>2. PICK m \in T : \A y \in T : y \subseteq m => y = m
    BY <1>0, <1>1, MinimalSubset
  <1> USE DEF T
  <1>3. PICK y \in m : SumFunctionOnSet(v, m) # v[y] + SumFunctionOnSet(v, m \ {y})
    OBVIOUS
  <1> DEFINE c == Chosen(m)
             both == SumFunctionOnSet(v, (m \ {c}) \ {y})
  <1>4. c \in m /\ m \subseteq S /\ v[c] \in Int /\ v[y] \in Int
    BY OthersFacts
  <1>5. SumFunctionOnSet(v, m) = v[c] + SumFunctionOnSet(v, m \ {c})
    BY SumChosen, FS_Subset DEF Others
  <1>6. c # y
    BY <1>3, <1>5
  <1> HIDE DEF c
  <1>7. SumFunctionOnSet(v, m \ {c}) = v[y] + both
    <2>1. m \ {c} \notin T
      BY <1>2, <1>4
    <2> QED BY <1>4, <1>6, <2>1
  <1>8. SumFunctionOnSet(v, m \ {y}) = v[c] + both
    <2>1. m \ {y} \notin T
      BY <1>2, <1>4
    <2>2. (m \ {y}) \ {c} = (m \ {c}) \ {y}
      OBVIOUS
    <2> QED BY <1>4, <1>6, <2>1, <2>2
  <1>9. both \in Int
    <2>1. IsFiniteSet((m \ {c}) \ {y})
      BY <1>4, FS_Subset
    <2> QED BY <1>4, <2>1, SumType
  <1> QED BY <1>3, <1>4, <1>5, <1>7, <1>8, <1>9

\* One more summand.
LEMMA SumWith ==
  ASSUME NEW v, NEW S, IsFiniteSet(S), NEW e, e \notin S,
         \A x \in S \cup {e} : v[x] \in Int
  PROVE  SumFunctionOnSet(v, S \cup {e}) = v[e] + SumFunctionOnSet(v, S)
  <1>1. IsFiniteSet(S \cup {e}) /\ (S \cup {e}) \ {e} = S
    BY FS_AddElement
  <1> QED BY <1>1, SumWithout

\* A change of one summand changes the sum by as much.
LEMMA SumChange ==
  ASSUME NEW v, NEW w, NEW S, IsFiniteSet(S), NEW e \in S,
         \A x \in S : v[x] \in Int /\ w[x] \in Int,
         \A x \in S \ {e} : w[x] = v[x]
  PROVE  SumFunctionOnSet(w, S) = SumFunctionOnSet(v, S) + (w[e] - v[e])
  <1>1. IsFiniteSet(S \ {e})
    BY FS_Subset
  <1>2. SumFunctionOnSet(w, S \ {e}) = SumFunctionOnSet(v, S \ {e})
    BY <1>1, SumEqual
  <1>3. SumFunctionOnSet(v, S \ {e}) \in Int
    BY <1>1, SumType
  <1> QED BY <1>2, <1>3, SumWithout
=============================================================================
