------------------------------- MODULE Conteo -------------------------------
(***************************************************************************)
(* Lemmas that the proofs about the components share: the size of a finite *)
(* set after a change, the least of a set of naturals (the form in which   *)
(* induction is used), and what the folds of the community modules compute.*)
(***************************************************************************)
EXTENDS SequencesExt, FiniteSetTheorems, SequenceTheorems, WellFoundedInduction, TLAPS

------------------------------------------------------------------------------
(* Counting *)

\* A part of a finite set has no more elements than it.
LEMMA Parte ==
  ASSUME NEW S, IsFiniteSet(S), NEW T \in SUBSET S
  PROVE  IsFiniteSet(T) /\ Cardinality(T) \in Nat /\ Cardinality(S) \in Nat /\ Cardinality(T) <= Cardinality(S)
BY FS_Subset, FS_CardinalityType

\* One element more in a set is at most one more to count.
LEMMA ConUnoMas ==
  ASSUME NEW S, NEW x, IsFiniteSet(S)
  PROVE  /\ IsFiniteSet(S \cup {x}) /\ Cardinality(S) \in Nat /\ Cardinality(S \cup {x}) \in Nat
         /\ Cardinality(S) <= Cardinality(S \cup {x}) /\ Cardinality(S \cup {x}) <= Cardinality(S) + 1
<1>1. /\ IsFiniteSet(S \cup {x}) /\ Cardinality(S) \in Nat
      /\ Cardinality(S \cup {x}) = IF x \in S THEN Cardinality(S) ELSE Cardinality(S) + 1
  BY FS_AddElement, FS_CardinalityType
<1> QED BY <1>1

\* So is it in any part of the larger set.
LEMMA ConUnaMas ==
  ASSUME NEW S, NEW x, IsFiniteSet(S), NEW T \in SUBSET (S \cup {x})
  PROVE  /\ IsFiniteSet(T) /\ Cardinality(S) \in Nat /\ Cardinality(T) \in Nat
         /\ Cardinality(T) <= Cardinality(S) + 1
<1>1. /\ IsFiniteSet(S \cup {x}) /\ Cardinality(S) \in Nat /\ Cardinality(S \cup {x}) \in Nat
      /\ Cardinality(S \cup {x}) <= Cardinality(S) + 1
  BY ConUnoMas
<1>2. IsFiniteSet(T) /\ Cardinality(T) \in Nat /\ Cardinality(T) <= Cardinality(S \cup {x})
  BY <1>1, Parte
<1> QED BY <1>1, <1>2

\* A set without one of its elements has one less to count.
LEMMA SinUno ==
  ASSUME NEW S, IsFiniteSet(S), NEW x \in S
  PROVE  /\ IsFiniteSet(S \ {x}) /\ Cardinality(S) \in Nat /\ Cardinality(S \ {x}) \in Nat
         /\ Cardinality(S \ {x}) = Cardinality(S) - 1 /\ Cardinality(S \ {x}) < Cardinality(S)
<1>1. IsFiniteSet(S \ {x}) /\ Cardinality(S \ {x}) = Cardinality(S) - 1
  BY FS_RemoveElement
<1>2. Cardinality(S) \in Nat /\ Cardinality(S \ {x}) \in Nat
  BY <1>1, FS_CardinalityType
<1> QED BY <1>1, <1>2

\* Two sets together have at most as many as both.
LEMMA Juntos ==
  ASSUME NEW S, NEW T, IsFiniteSet(S), IsFiniteSet(T)
  PROVE  /\ IsFiniteSet(S \cup T) /\ Cardinality(S \cup T) \in Nat
         /\ Cardinality(S \cup T) <= Cardinality(S) + Cardinality(T)
<1>1. /\ IsFiniteSet(S \cup T)
      /\ Cardinality(S \cup T) = Cardinality(S) + Cardinality(T) - Cardinality(S \cap T)
  BY FS_Union
<1>2. IsFiniteSet(S \cap T) /\ Cardinality(S \cap T) \in Nat
  BY FS_Subset, FS_CardinalityType
<1>3. Cardinality(S) \in Nat /\ Cardinality(T) \in Nat /\ Cardinality(S \cup T) \in Nat
  BY <1>1, FS_CardinalityType
<1> QED BY <1>1, <1>2, <1>3

\* A set that maps one to one into a finite one is no larger.
LEMMA UnoAUno ==
  ASSUME NEW S, NEW T, IsFiniteSet(T), NEW f \in [S -> T], \A x, y \in S : f[x] = f[y] => x = y
  PROVE  IsFiniteSet(S) /\ Cardinality(S) \in Nat /\ Cardinality(T) \in Nat /\ Cardinality(S) <= Cardinality(T)
<1>1. f \in Injection(S, T)
  BY DEF Injection, IsInjective
<1> QED BY <1>1, FS_Injection, FS_CardinalityType

\* A set of naturals that is not empty has a least element: what fails for some
\* natural fails for a least one.
LEMMA Minimo ==
  ASSUME NEW T \in SUBSET Nat, T # {}
  PROVE  \E n \in T : \A m \in T : n <= m
<1> DEFINE R == OpToRel(<, Nat)
<1>1. IsWellFoundedOn(R, Nat)
  BY NatLessThanWellFounded
<1>2. \A m, n \in Nat : m < n => <<m, n>> \in R
  BY DEF OpToRel
<1> HIDE DEF R
<1>3. PICK n \in T : \A m \in T : ~(<<m, n>> \in R)
  BY <1>1, WFMin
<1>4. \A m \in T : ~(m < n)
  BY <1>2, <1>3
<1> QED BY <1>4

\* A set of finite sets that is not empty has one with fewest elements.
LEMMA MenorConjunto ==
  ASSUME NEW T, T # {}, \A s \in T : IsFiniteSet(s)
  PROVE  \E s \in T : \A t \in T : Cardinality(s) <= Cardinality(t)
<1> DEFINE N == {Cardinality(s) : s \in T}
<1>1. N \in SUBSET Nat /\ N # {}
  BY FS_CardinalityType
<1>2. PICK n \in N : \A m \in N : n <= m
  BY <1>1, Minimo
<1> QED BY <1>2

------------------------------------------------------------------------------
(* Folds *)

\* it[s] is the fold of s: the empty set folds to base, another s to what G makes
\* of it and of the fold of s without the element that c chooses in it.
EsPliegue(it, S, A, base, c, G) ==
  /\ it \in [SUBSET S -> A]
  /\ it[{}] = base
  /\ \A s \in (SUBSET S) \ {{}} : it[s] = G[<<s, it[s \ {c[s]}]>>]

\* Folding a finite set by taking out of each part the element that c chooses:
\* the recursive function of MapThenFoldSet exists, and its values stay where
\* the operation G keeps them.
LEMMA Pliegue ==
  ASSUME NEW S, IsFiniteSet(S), NEW A, NEW base \in A,
         NEW c \in [(SUBSET S) \ {{}} -> S], \A s \in (SUBSET S) \ {{}} : c[s] \in s,
         NEW G \in [(SUBSET S) \X A -> A]
  PROVE  \E it : EsPliegue(it, S, A, base, c, G)
<1> DEFINE Partes(n) == {s \in SUBSET S : Cardinality(s) <= n}
           Vale(it, n) == /\ it \in [Partes(n) -> A]
                          /\ \A s \in Partes(n) : it[s] = IF s = {} THEN base ELSE G[<<s, it[s \ {c[s]}]>>]
           Falta == {n \in Nat : ~\E it : Vale(it, n)}
<1>1. \A s \in SUBSET S : IsFiniteSet(s) /\ Cardinality(s) \in Nat /\ Cardinality(S) \in Nat /\ Cardinality(s) <= Cardinality(S)
  BY Parte
<1>2. ASSUME NEW s \in SUBSET S, s # {}
      PROVE  /\ c[s] \in s /\ s \ {c[s]} \in SUBSET S /\ Cardinality(s \ {c[s]}) = Cardinality(s) - 1
  BY <1>1, <1>2, SinUno
<1>3. \A s \in SUBSET S : Cardinality(s) <= 0 => s = {}
  BY <1>1, FS_EmptySet
<1>4. Vale([s \in Partes(0) |-> base], 0)
  BY <1>3
<1>5. ASSUME NEW n \in Nat, NEW g, Vale(g, n) PROVE \E it : Vale(it, n + 1)
  <2> DEFINE it == [s \in Partes(n + 1) |-> IF s = {} THEN base ELSE G[<<s, g[s \ {c[s]}]>>]]
  <2>1. ASSUME NEW s \in Partes(n + 1), s # {}
        PROVE  s \ {c[s]} \in Partes(n) /\ s \ {c[s]} \in Partes(n + 1)
    <3>1. s \in SUBSET S /\ Cardinality(s) <= n + 1 /\ Cardinality(s) \in Nat
      BY <1>1
    <3>2. s \ {c[s]} \in SUBSET S /\ Cardinality(s \ {c[s]}) = Cardinality(s) - 1
      BY <1>2, <2>1, <3>1
    <3>3. Cardinality(s \ {c[s]}) <= n /\ Cardinality(s \ {c[s]}) <= n + 1
      BY <3>1, <3>2
    <3> QED BY <3>2, <3>3
  <2>2. it \in [Partes(n + 1) -> A]
    <3>1. ASSUME NEW s \in Partes(n + 1), s # {} PROVE G[<<s, g[s \ {c[s]}]>>] \in A
      <4>1. s \ {c[s]} \in Partes(n) /\ s \in SUBSET S
        BY <2>1, <3>1
      <4>2. g[s \ {c[s]}] \in A
        BY <1>5, <4>1
      <4> QED BY <4>1, <4>2
    <3> QED BY <3>1
  <2>3. ASSUME NEW s \in Partes(n) PROVE it[s] = g[s]
    <3>1. s \in Partes(n + 1)
      BY <1>1
    <3>2. g[s] = IF s = {} THEN base ELSE G[<<s, g[s \ {c[s]}]>>]
      BY <1>5
    <3> QED BY <3>1, <3>2
  <2>4. ASSUME NEW s \in Partes(n + 1) PROVE it[s] = IF s = {} THEN base ELSE G[<<s, it[s \ {c[s]}]>>]
    <3>1. CASE s = {}
      BY <3>1
    <3>2. CASE s # {}
      <4>1. it[s \ {c[s]}] = g[s \ {c[s]}]
        BY <2>1, <2>3, <3>2
      <4> QED BY <3>2, <4>1
    <3> QED BY <3>1, <3>2
  <2> HIDE DEF it, Partes
  <2>5. Vale(it, n + 1)
    BY <2>2, <2>4
  <2> QED BY <2>5
<1>6. Falta = {}
  <2> SUFFICES ASSUME Falta # {} PROVE FALSE
    OBVIOUS
  <2> HIDE DEF Vale
  <2>1. PICK n \in Falta : \A m \in Falta : n <= m
    BY Minimo
  <2>2. n \in Nat /\ n # 0
    BY <1>4, <2>1
  <2>3. n - 1 \in Nat /\ n - 1 \notin Falta /\ (n - 1) + 1 = n
    BY <2>1, <2>2
  <2>4. PICK g : Vale(g, n - 1)
    BY <2>3
  <2> QED BY <1>5, <2>1, <2>3, <2>4
<1>7. Cardinality(S) \in Nat /\ Partes(Cardinality(S)) = SUBSET S
  BY <1>1
<1>8. PICK it : Vale(it, Cardinality(S))
  BY <1>6, <1>7
<1>9. /\ it \in [SUBSET S -> A]
      /\ \A s \in SUBSET S : it[s] = IF s = {} THEN base ELSE G[<<s, it[s \ {c[s]}]>>]
  BY <1>7, <1>8
<1> HIDE DEF Partes
<1>10. EsPliegue(it, S, A, base, c, G)
  BY <1>9 DEF EsPliegue
<1> QED BY <1>10

\* MapThenSumSet over a finite set of integers: the partial sums.
LEMMA Sumas ==
  ASSUME NEW S, IsFiniteSet(S)
  PROVE  \E c \in [(SUBSET S) \ {{}} -> S] :
           /\ \A s \in (SUBSET S) \ {{}} : c[s] \in s
           /\ \A f \in [S -> Int] : \E it \in [SUBSET S -> Int] :
                /\ it[{}] = 0
                /\ \A s \in (SUBSET S) \ {{}} : it[s] = f[c[s]] + it[s \ {c[s]}]
                /\ it[S] = MapThenSumSet(LAMBDA x : f[x], S)
<1> DEFINE E(s) == CHOOSE x \in s : TRUE
<1>1. \A s \in (SUBSET S) \ {{}} : E(s) \in s
  OBVIOUS
<1>2. \A f : MapThenSumSet(LAMBDA x : f[x], S)
              = (CHOOSE it : it = [s \in SUBSET S |-> IF s = {} THEN 0 ELSE f[E(s)] + it[s \ {E(s)}]])[S]
  BY DEF MapThenSumSet, MapThenFoldSet
<1> HIDE DEF E
<1> DEFINE c == [s \in (SUBSET S) \ {{}} |-> E(s)]
<1>3. c \in [(SUBSET S) \ {{}} -> S] /\ \A s \in (SUBSET S) \ {{}} : c[s] \in s /\ c[s] = E(s)
  BY <1>1
<1> HIDE DEF c
<1>4. ASSUME NEW f \in [S -> Int]
      PROVE  \E it \in [SUBSET S -> Int] :
                /\ it[{}] = 0
                /\ \A s \in (SUBSET S) \ {{}} : it[s] = f[c[s]] + it[s \ {c[s]}]
                /\ it[S] = MapThenSumSet(LAMBDA x : f[x], S)
  <2> DEFINE G == [x \in (SUBSET S) \X Int |-> IF x[1] = {} THEN 0 ELSE f[c[x[1]]] + x[2]]
             Regla(it) == it = [s \in SUBSET S |-> IF s = {} THEN 0 ELSE f[E(s)] + it[s \ {E(s)}]]
  <2>1. \A s \in (SUBSET S) \ {{}} : f[c[s]] \in Int
    BY <1>3
  <2>2. G \in [(SUBSET S) \X Int -> Int]
    BY <2>1
  <2>3. \A s \in (SUBSET S) \ {{}} : \A v \in Int : G[<<s, v>>] = f[c[s]] + v
    OBVIOUS
  <2> HIDE DEF G, Regla
  <2>4. PICK it \in [SUBSET S -> Int] :
          /\ it[{}] = 0
          /\ \A s \in (SUBSET S) \ {{}} : it[s] = G[<<s, it[s \ {c[s]}]>>]
    <3>1. 0 \in Int /\ \A s \in (SUBSET S) \ {{}} : c[s] \in s
      BY <1>3
    <3>2. \E it : EsPliegue(it, S, Int, 0, c, G)
      BY <1>3, <2>2, <3>1, Pliegue
    <3> QED BY <3>2 DEF EsPliegue
  <2>5. ASSUME NEW s \in (SUBSET S) \ {{}} PROVE it[s] = f[c[s]] + it[s \ {c[s]}]
    <3>1. it[s \ {c[s]}] \in Int /\ it[s] = G[<<s, it[s \ {c[s]}]>>]
      BY <2>4
    <3> QED BY <2>3, <3>1
  <2>6. \A g : Regla(g) <=> /\ g = [s \in SUBSET S |-> g[s]]
                           /\ g[{}] = 0
                           /\ \A s \in (SUBSET S) \ {{}} : g[s] = f[c[s]] + g[s \ {c[s]}]
    <3>1. ASSUME NEW g, Regla(g)
          PROVE  /\ g = [s \in SUBSET S |-> g[s]] /\ g[{}] = 0
                 /\ \A s \in (SUBSET S) \ {{}} : g[s] = f[c[s]] + g[s \ {c[s]}]
      <4>1. g = [s \in SUBSET S |-> IF s = {} THEN 0 ELSE f[E(s)] + g[s \ {E(s)}]]
        BY <3>1 DEF Regla
      <4>2. \A s \in SUBSET S : g[s] = IF s = {} THEN 0 ELSE f[E(s)] + g[s \ {E(s)}]
        BY <4>1
      <4>3. g = [s \in SUBSET S |-> g[s]]
        BY <4>1
      <4> QED BY <1>3, <4>2, <4>3
    <3>2. ASSUME NEW g, g = [s \in SUBSET S |-> g[s]], g[{}] = 0,
                 \A s \in (SUBSET S) \ {{}} : g[s] = f[c[s]] + g[s \ {c[s]}]
          PROVE  Regla(g)
      <4>1. \A s \in SUBSET S : g[s] = IF s = {} THEN 0 ELSE f[E(s)] + g[s \ {E(s)}]
        BY <1>3, <3>2
      <4>2. [s \in SUBSET S |-> g[s]] = [s \in SUBSET S |-> IF s = {} THEN 0 ELSE f[E(s)] + g[s \ {E(s)}]]
        BY <4>1
      <4> QED BY <3>2, <4>2 DEF Regla
    <3> QED BY <3>1, <3>2
  <2>7. it = [s \in SUBSET S |-> it[s]]
    OBVIOUS
  <2>8. Regla(it)
    BY <2>4, <2>5, <2>6, <2>7
  <2>9. ASSUME NEW g, Regla(g) PROVE g = it
    <3> DEFINE Otras == {s \in SUBSET S : g[s] # it[s]}
    <3>1. Otras = {}
      <4> SUFFICES ASSUME Otras # {} PROVE FALSE
        OBVIOUS
      <4>1. \A s \in SUBSET S : IsFiniteSet(s)
        BY Parte
      <4>2. PICK s \in Otras : \A t \in Otras : Cardinality(s) <= Cardinality(t)
        <5>1. \A s \in Otras : IsFiniteSet(s)
          BY <4>1
        <5> HIDE DEF Otras
        <5> QED BY <5>1, MenorConjunto
      <4>3. s \in (SUBSET S) \ {{}} /\ g[s] # it[s] /\ c[s] \in s
        BY <1>3, <2>4, <2>6, <2>9
      <4>4. g[s] = f[c[s]] + g[s \ {c[s]}] /\ it[s] = f[c[s]] + it[s \ {c[s]}]
        BY <2>5, <2>6, <2>9, <4>3
      <4>5. s \ {c[s]} \in Otras
        BY <4>3, <4>4
      <4>6. /\ Cardinality(s \ {c[s]}) < Cardinality(s)
            /\ Cardinality(s \ {c[s]}) \in Nat /\ Cardinality(s) \in Nat
        BY <4>1, <4>3, SinUno
      <4>7. Cardinality(s) <= Cardinality(s \ {c[s]})
        BY <4>2, <4>5
      <4> QED BY <4>6, <4>7
    <3>2. \A s \in SUBSET S : g[s] = it[s]
      BY <3>1
    <3>3. g = [s \in SUBSET S |-> g[s]]
      BY <2>6, <2>9
    <3>4. [s \in SUBSET S |-> g[s]] = [s \in SUBSET S |-> it[s]]
      BY <3>2
    <3> QED BY <2>7, <3>3, <3>4
  <2>10. MapThenSumSet(LAMBDA x : f[x], S) = (CHOOSE g : Regla(g))[S]
    BY <1>2 DEF Regla
  <2>11. (CHOOSE g : Regla(g)) = it
    BY <2>8, <2>9
  <2> QED BY <2>4, <2>5, <2>10, <2>11
<1> QED BY <1>3, <1>4

\* Sums of smaller terms are no larger,
LEMMA SumaMonotona ==
  ASSUME NEW S, IsFiniteSet(S), NEW f \in [S -> Int], NEW g \in [S -> Int], \A x \in S : f[x] <= g[x]
  PROVE  /\ MapThenSumSet(LAMBDA x : f[x], S) \in Int
         /\ MapThenSumSet(LAMBDA x : g[x], S) \in Int
         /\ MapThenSumSet(LAMBDA x : f[x], S) <= MapThenSumSet(LAMBDA x : g[x], S)
<1>0. PICK c \in [(SUBSET S) \ {{}} -> S] :
        /\ \A s \in (SUBSET S) \ {{}} : c[s] \in s
        /\ \A e \in [S -> Int] : \E it \in [SUBSET S -> Int] :
             /\ it[{}] = 0
             /\ \A s \in (SUBSET S) \ {{}} : it[s] = e[c[s]] + it[s \ {c[s]}]
             /\ it[S] = MapThenSumSet(LAMBDA x : e[x], S)
  BY Sumas
<1>1. PICK a \in [SUBSET S -> Int] :
        /\ a[{}] = 0
        /\ \A s \in (SUBSET S) \ {{}} : a[s] = f[c[s]] + a[s \ {c[s]}]
        /\ a[S] = MapThenSumSet(LAMBDA x : f[x], S)
  BY <1>0
<1>2. PICK b \in [SUBSET S -> Int] :
        /\ b[{}] = 0
        /\ \A s \in (SUBSET S) \ {{}} : b[s] = g[c[s]] + b[s \ {c[s]}]
        /\ b[S] = MapThenSumSet(LAMBDA x : g[x], S)
  BY <1>0
<1> DEFINE Malos == {s \in SUBSET S : ~(a[s] <= b[s])}
<1>3. Malos = {}
  <2> SUFFICES ASSUME Malos # {} PROVE FALSE
    OBVIOUS
  <2>1. \A s \in Malos : IsFiniteSet(s)
    BY Parte
  <2>2. PICK s \in Malos : \A t \in Malos : Cardinality(s) <= Cardinality(t)
    <3> HIDE DEF Malos
    <3> QED BY <2>1, MenorConjunto
  <2> DEFINE x == c[s]
  <2>3. s \in SUBSET S /\ ~(a[s] <= b[s]) /\ s # {} /\ x \in s
    <3>1. s \in SUBSET S /\ ~(a[s] <= b[s]) /\ s # {}
      <4>1. s = {} => a[s] = 0 /\ b[s] = 0
        BY <1>1, <1>2, Zenon
      <4>2. ~(a[s] = 0 /\ b[s] = 0)
        BY <2>2
      <4>3. s \in SUBSET S /\ ~(a[s] <= b[s])
        BY <2>2
      <4> QED BY <4>1, <4>2, <4>3, Zenon
    <3>2. x \in s
      BY <1>0, <3>1
    <3> QED BY <3>1, <3>2
  <2>4. a[s] = f[x] + a[s \ {x}] /\ b[s] = g[x] + b[s \ {x}]
    BY <1>1, <1>2, <2>3
  <2> HIDE DEF x
  <2>5. s \ {x} \in SUBSET S /\ f[x] <= g[x] /\ f[x] \in Int /\ g[x] \in Int
        /\ a[s \ {x}] \in Int /\ b[s \ {x}] \in Int
    BY <2>3
  <2>6. s \ {x} \in Malos
    BY <2>3, <2>4, <2>5
  <2>7. Cardinality(s \ {x}) < Cardinality(s) /\ Cardinality(s \ {x}) \in Nat /\ Cardinality(s) \in Nat
    BY <2>1, <2>3, SinUno
  <2>8. Cardinality(s) <= Cardinality(s \ {x})
    BY <2>2, <2>6
  <2> QED BY <2>7, <2>8
<1>4. a[S] <= b[S] /\ a[S] \in Int /\ b[S] \in Int
  BY <1>3
<1> QED BY <1>1, <1>2, <1>4

\* and one term more by one makes a sum more by one.
LEMMA SumaConUno ==
  ASSUME NEW S, IsFiniteSet(S), NEW f \in [S -> Int], NEW y \in S
  PROVE  LET g == [f EXCEPT ![y] = f[y] + 1]
         IN  /\ MapThenSumSet(LAMBDA x : f[x], S) \in Int
             /\ MapThenSumSet(LAMBDA x : g[x], S) = MapThenSumSet(LAMBDA x : f[x], S) + 1
<1> DEFINE g == [f EXCEPT ![y] = f[y] + 1]
<1>0. PICK c \in [(SUBSET S) \ {{}} -> S] :
        /\ \A s \in (SUBSET S) \ {{}} : c[s] \in s
        /\ \A e \in [S -> Int] : \E it \in [SUBSET S -> Int] :
             /\ it[{}] = 0
             /\ \A s \in (SUBSET S) \ {{}} : it[s] = e[c[s]] + it[s \ {c[s]}]
             /\ it[S] = MapThenSumSet(LAMBDA x : e[x], S)
  BY Sumas
<1>1. PICK a \in [SUBSET S -> Int] :
        /\ a[{}] = 0
        /\ \A s \in (SUBSET S) \ {{}} : a[s] = f[c[s]] + a[s \ {c[s]}]
        /\ a[S] = MapThenSumSet(LAMBDA x : f[x], S)
  BY <1>0
<1>2. g \in [S -> Int] /\ \A x \in S : g[x] = IF x = y THEN f[x] + 1 ELSE f[x]
  OBVIOUS
<1>3. ASSUME NEW e \in [S -> Int], \A x \in S : e[x] = IF x = y THEN f[x] + 1 ELSE f[x]
      PROVE  MapThenSumSet(LAMBDA x : e[x], S) = a[S] + 1
  <2>1. PICK b \in [SUBSET S -> Int] :
          /\ b[{}] = 0
          /\ \A s \in (SUBSET S) \ {{}} : b[s] = e[c[s]] + b[s \ {c[s]}]
          /\ b[S] = MapThenSumSet(LAMBDA x : e[x], S)
    BY <1>0
  <2> DEFINE Malos == {s \in SUBSET S : b[s] # a[s] + (IF y \in s THEN 1 ELSE 0)}
  <2>2. Malos = {}
    <3> SUFFICES ASSUME Malos # {} PROVE FALSE
      OBVIOUS
    <3>1. \A s \in Malos : IsFiniteSet(s)
      BY Parte
    <3>2. PICK s \in Malos : \A t \in Malos : Cardinality(s) <= Cardinality(t)
      <4> HIDE DEF Malos
      <4> QED BY <3>1, MenorConjunto
    <3> DEFINE x == c[s]
    <3>3. s \in SUBSET S /\ b[s] # a[s] + (IF y \in s THEN 1 ELSE 0) /\ s # {} /\ x \in s
      <4>1. s \in SUBSET S /\ b[s] # a[s] + (IF y \in s THEN 1 ELSE 0)
        BY <3>2
      <4>2. s # {}
        <5>1. s = {} => a[s] = 0 /\ b[s] = 0
          BY <1>1, <2>1, Zenon
        <5>2. s = {} => y \notin s
          OBVIOUS
        <5>3. (a[s] = 0 /\ b[s] = 0) => y \in s
          BY <4>1
        <5> QED BY <5>1, <5>2, <5>3, Zenon
      <4>3. x \in s
        BY <1>0, <4>1, <4>2
      <4> QED BY <4>1, <4>2, <4>3
    <3>4. a[s] = f[x] + a[s \ {x}] /\ b[s] = e[x] + b[s \ {x}]
      BY <1>1, <2>1, <3>3
    <3> HIDE DEF x
    <3>5. s \ {x} \in SUBSET S /\ f[x] \in Int /\ e[x] = (IF x = y THEN f[x] + 1 ELSE f[x])
          /\ a[s \ {x}] \in Int /\ b[s \ {x}] \in Int
          /\ a[s] \in Int /\ b[s] \in Int
      BY <1>3, <3>3
    <3>6. ASSUME b[s \ {x}] = a[s \ {x}] + (IF y \in s \ {x} THEN 1 ELSE 0) PROVE FALSE
      <4>1. CASE x = y
        <5>1. y \notin s \ {x} /\ y \in s
          BY <3>3, <4>1
        <5>2. b[s \ {x}] = a[s \ {x}]
          BY <3>5, <3>6, <5>1
        <5>3. b[s] # a[s] + 1
          BY <3>3, <5>1
        <5>4. e[x] = f[x] + 1
          BY <3>5, <4>1
        <5> QED BY <3>4, <3>5, <5>2, <5>3, <5>4
      <4>2. CASE x # y /\ y \in s
        <5>1. y \in s \ {x}
          BY <4>2
        <5>2. b[s \ {x}] = a[s \ {x}] + 1
          BY <3>5, <3>6, <5>1
        <5>3. b[s] # a[s] + 1
          BY <3>3, <4>2
        <5>4. e[x] = f[x]
          BY <3>5, <4>2
        <5> QED BY <3>4, <3>5, <5>2, <5>3, <5>4
      <4>3. CASE x # y /\ y \notin s
        <5>1. y \notin s \ {x}
          BY <4>3
        <5>2. b[s \ {x}] = a[s \ {x}]
          BY <3>5, <3>6, <5>1
        <5>3. b[s] # a[s]
          BY <3>3, <3>5, <4>3
        <5>4. e[x] = f[x]
          BY <3>5, <4>3
        <5> QED BY <3>4, <3>5, <5>2, <5>3, <5>4
      <4> QED BY <4>1, <4>2, <4>3
    <3>7. s \ {x} \in Malos
      BY <3>5, <3>6
    <3>8. Cardinality(s \ {x}) < Cardinality(s) /\ Cardinality(s \ {x}) \in Nat /\ Cardinality(s) \in Nat
      BY <3>1, <3>3, SinUno
    <3>9. Cardinality(s) <= Cardinality(s \ {x})
      BY <3>2, <3>7
    <3> QED BY <3>8, <3>9
  <2>3. b[S] = a[S] + 1
    BY <2>2
  <2> QED BY <2>1, <2>3
<1> HIDE DEF g
<1>4. a[S] \in Int /\ MapThenSumSet(LAMBDA x : g[x], S) = a[S] + 1
  BY <1>2, <1>3
<1>5. MapThenSumSet(LAMBDA x : f[x], S) \in Int /\ MapThenSumSet(LAMBDA x : g[x], S) = MapThenSumSet(LAMBDA x : f[x], S) + 1
  BY <1>1, <1>4
<1> USE DEF g
<1> QED BY <1>5

\* A sum of zeros is zero.
LEMMA SumaNula ==
  ASSUME NEW S, IsFiniteSet(S), NEW f \in [S -> Int], \A x \in S : f[x] = 0
  PROVE  MapThenSumSet(LAMBDA x : f[x], S) = 0
<1>0. PICK c \in [(SUBSET S) \ {{}} -> S] :
        /\ \A s \in (SUBSET S) \ {{}} : c[s] \in s
        /\ \A e \in [S -> Int] : \E it \in [SUBSET S -> Int] :
             /\ it[{}] = 0
             /\ \A s \in (SUBSET S) \ {{}} : it[s] = e[c[s]] + it[s \ {c[s]}]
             /\ it[S] = MapThenSumSet(LAMBDA x : e[x], S)
  BY Sumas
<1>1. PICK a \in [SUBSET S -> Int] :
        /\ a[{}] = 0
        /\ \A s \in (SUBSET S) \ {{}} : a[s] = f[c[s]] + a[s \ {c[s]}]
        /\ a[S] = MapThenSumSet(LAMBDA x : f[x], S)
  BY <1>0
<1> DEFINE Malos == {s \in SUBSET S : a[s] # 0}
<1>2. Malos = {}
  <2> SUFFICES ASSUME Malos # {} PROVE FALSE
    OBVIOUS
  <2>1. \A s \in Malos : IsFiniteSet(s)
    BY Parte
  <2>2. PICK s \in Malos : \A t \in Malos : Cardinality(s) <= Cardinality(t)
    <3> HIDE DEF Malos
    <3> QED BY <2>1, MenorConjunto
  <2> DEFINE x == c[s]
  <2>3. s \in SUBSET S /\ a[s] # 0
    BY <2>2
  <2>4. s # {}
    BY <1>1, <2>3, Zenon
  <2>5. x \in s
    BY <1>0, <2>3, <2>4
  <2>6. a[s] = f[x] + a[s \ {x}]
    BY <1>1, <2>3, <2>4
  <2> HIDE DEF x
  <2>7. s \ {x} \in SUBSET S /\ f[x] = 0 /\ a[s \ {x}] \in Int
    BY <2>3, <2>5
  <2>8. s \ {x} \in Malos
    BY <2>3, <2>6, <2>7
  <2>9. Cardinality(s \ {x}) < Cardinality(s) /\ Cardinality(s \ {x}) \in Nat /\ Cardinality(s) \in Nat
    BY <2>1, <2>2, <2>5, SinUno
  <2>10. Cardinality(s) <= Cardinality(s \ {x})
    BY <2>2, <2>8
  <2> QED BY <2>9, <2>10
<1>3. a[S] = 0
  BY <1>2
<1> QED BY <1>1, <1>3

------------------------------------------------------------------------------
(* Folds from the left *)

\* The largest of some of the first n numbers, and the others.
LEMMA LaUltima ==
  ASSUME NEW n \in Nat
  PROVE  /\ \A T \in (SUBSET (1 .. n)) \ {{}} : Max(T) \in T /\ T \ {Max(T)} \in SUBSET (1 .. n)
         /\ \A m \in 1 .. n : /\ (1 .. m) \in (SUBSET (1 .. n)) \ {{}} /\ Max(1 .. m) = m
                              /\ (1 .. m) \ {m} = 1 .. (m - 1)
<1>1. ASSUME NEW T \in (SUBSET (1 .. n)) \ {{}} PROVE Max(T) \in T
  <2> DEFINE F == {n - x : x \in T}
  <2>1. F \in SUBSET Nat /\ F # {}
    OBVIOUS
  <2>2. PICK k \in F : \A j \in F : k <= j
    BY <2>1, Minimo
  <2>3. PICK x \in T : k = n - x
    BY <2>2
  <2>4. \A y \in T : x >= y
    <3> SUFFICES ASSUME NEW y \in T PROVE x >= y
      OBVIOUS
    <3>1. n - y \in F /\ x \in Nat /\ y \in Nat
      OBVIOUS
    <3>2. n - x <= n - y
      BY <2>2, <2>3, <3>1
    <3> QED BY <3>1, <3>2
  <2> QED BY <2>4 DEF Max
<1>2. ASSUME NEW m \in 1 .. n PROVE Max(1 .. m) = m
  <2>1. m \in 1 .. m /\ \A y \in 1 .. m : m >= y
    OBVIOUS
  <2>2. Max(1 .. m) \in 1 .. m /\ \A y \in 1 .. m : Max(1 .. m) >= y
    BY <2>1, Zenon DEF Max
  <2>3. Max(1 .. m) >= m
    BY <2>1, <2>2
  <2>4. \A k \in 1 .. m : k >= m => k = m
    OBVIOUS
  <2> QED BY <2>2, <2>3, <2>4
<1>3. ASSUME NEW m \in 1 .. n
      PROVE  (1 .. m) \in (SUBSET (1 .. n)) \ {{}} /\ (1 .. m) \ {m} = 1 .. (m - 1)
  OBVIOUS
<1> QED BY <1>1, <1>2, <1>3

\* g takes the parts of the domain of s as FoldLeft does: what G makes of the part
\* without its last place and of the element there, wherever G is defined.
Recorre(g, s, A, base, G) ==
  /\ g = [T \in SUBSET (1 .. Len(s)) |-> g[T]]
  /\ g[{}] = base
  /\ \A T \in (SUBSET (1 .. Len(s))) \ {{}} :
       g[T \ {Max(T)}] \in A => g[T] = G[<<g[T \ {Max(T)}], s[Max(T)]>>]

PliegueIzq(s, A, base, G) == (CHOOSE g : Recorre(g, s, A, base, G))[1 .. Len(s)]

\* A fold of elements of B into A, its operation as a function.
EsTabla(A, B, base, G) == base \in A /\ G \in [A \X B -> A]

LEMMA RecorreHay ==
  ASSUME NEW A, NEW B, NEW base, NEW G, EsTabla(A, B, base, G), NEW s \in Seq(B)
  PROVE  \E g \in [SUBSET (1 .. Len(s)) -> A] : Recorre(g, s, A, base, G)
<1> USE DEF EsTabla
<1> DEFINE N == 1 .. Len(s)
           c == [T \in (SUBSET N) \ {{}} |-> Max(T)]
           H == [x \in (SUBSET N) \X A |-> IF x[1] = {} THEN base ELSE G[<<x[2], s[Max(x[1])]>>]]
<1>1. Len(s) \in Nat /\ \A i \in N : s[i] \in B
  OBVIOUS
<1>2. \A T \in (SUBSET N) \ {{}} : Max(T) \in T /\ T \ {Max(T)} \in SUBSET N
  BY <1>1, LaUltima
<1>3. /\ c \in [(SUBSET N) \ {{}} -> N]
      /\ \A T \in (SUBSET N) \ {{}} : c[T] \in T /\ c[T] = Max(T)
  BY <1>2
<1>4. H \in [(SUBSET N) \X A -> A]
  <2> SUFFICES ASSUME NEW T \in SUBSET N, NEW a \in A, T # {} PROVE G[<<a, s[Max(T)]>>] \in A
    OBVIOUS
  <2>1. s[Max(T)] \in B
    BY <1>1, <1>2
  <2> QED BY <2>1
<1>5. \A T \in (SUBSET N) \ {{}} : \A a \in A : H[<<T, a>>] = G[<<a, s[Max(T)]>>]
  OBVIOUS
<1>6. IsFiniteSet(N)
  BY <1>1, FS_Interval
<1> HIDE DEF c, H, N
<1>7. \A T \in (SUBSET N) \ {{}} : c[T] \in T
  BY <1>3
<1>8. PICK g : EsPliegue(g, N, A, base, c, H)
  BY <1>3, <1>4, <1>6, <1>7, Pliegue
<1>9. /\ g \in [SUBSET N -> A] /\ g[{}] = base
      /\ \A T \in (SUBSET N) \ {{}} : g[T] = H[<<T, g[T \ {c[T]}]>>]
  BY <1>8 DEF EsPliegue
<1>10. \A T \in (SUBSET N) \ {{}} : g[T] = G[<<g[T \ {Max(T)}], s[Max(T)]>>]
  BY <1>2, <1>3, <1>5, <1>9, ZenonT(40)
<1>11. g = [T \in SUBSET N |-> g[T]]
  BY <1>9
<1> QED BY <1>9, <1>10, <1>11 DEF Recorre, N

\* The first n places of s and t are the same.
Coinciden(s, t, n) == n \in Nat /\ n <= Len(s) /\ n <= Len(t) /\ \A i \in 1 .. n : s[i] = t[i]

\* On a common beginning two of them agree.
LEMMA RecorreUna ==
  ASSUME NEW A, NEW B, NEW base, NEW G, EsTabla(A, B, base, G),
         NEW s \in Seq(B), NEW t \in Seq(B), NEW n, Coinciden(s, t, n),
         NEW g, Recorre(g, s, A, base, G), NEW h, Recorre(h, t, A, base, G)
  PROVE  \A m \in 0 .. n : g[1 .. m] \in A /\ g[1 .. m] = h[1 .. m]
<1> USE DEF Coinciden, EsTabla
<1> DEFINE Igual(m) == g[1 .. m] \in A /\ g[1 .. m] = h[1 .. m]
           Mal == {m \in Nat : m <= n /\ ~Igual(m)}
<1>1. Igual(0)
  <2>1. (1 .. 0) = {}
    OBVIOUS
  <2> QED BY <2>1 DEF Recorre
<1>2. ASSUME NEW m \in 1 .. n, Igual(m - 1) PROVE Igual(m)
  <2>1. /\ Len(s) \in Nat /\ Len(t) \in Nat /\ m \in 1 .. Len(s) /\ m \in 1 .. Len(t)
        /\ s[m] \in B /\ s[m] = t[m]
    OBVIOUS
  <2>2. /\ (1 .. m) \in (SUBSET (1 .. Len(s))) \ {{}} /\ (1 .. m) \in (SUBSET (1 .. Len(t))) \ {{}}
        /\ Max(1 .. m) = m /\ (1 .. m) \ {m} = 1 .. (m - 1)
    BY <2>1, LaUltima
  <2>3. g[1 .. m] = G[<<g[1 .. (m - 1)], s[m]>>]
    <3>1. \A T \in (SUBSET (1 .. Len(s))) \ {{}} :
            g[T \ {Max(T)}] \in A => g[T] = G[<<g[T \ {Max(T)}], s[Max(T)]>>]
      BY DEF Recorre
    <3> QED BY <1>2, <2>2, <3>1, Zenon
  <2>4. h[1 .. m] = G[<<h[1 .. (m - 1)], t[m]>>]
    <3>1. \A T \in (SUBSET (1 .. Len(t))) \ {{}} :
            h[T \ {Max(T)}] \in A => h[T] = G[<<h[T \ {Max(T)}], t[Max(T)]>>]
      BY DEF Recorre
    <3>2. h[1 .. (m - 1)] \in A
      BY <1>2
    <3> QED BY <3>1, <3>2, <2>2, Zenon
  <2> QED BY <1>2, <2>1, <2>3, <2>4
<1>3. Mal = {}
  <2> SUFFICES ASSUME Mal # {} PROVE FALSE
    OBVIOUS
  <2> HIDE DEF Igual
  <2>1. PICK m \in Mal : \A j \in Mal : m <= j
    BY Minimo
  <2>2. m \in 1 .. n /\ m - 1 \in Nat /\ m - 1 <= n /\ m - 1 \notin Mal
    BY <1>1, <2>1
  <2> QED BY <1>2, <2>1, <2>2
<1> QED BY <1>3

\* The two equations of a fold from the left.
LEMMA Izquierda ==
  ASSUME NEW A, NEW B, NEW base, NEW G, EsTabla(A, B, base, G)
  PROVE  /\ PliegueIzq(<<>>, A, base, G) = base
         /\ \A s \in Seq(B) : PliegueIzq(s, A, base, G) \in A
         /\ \A s \in Seq(B) : \A x \in B :
              PliegueIzq(Append(s, x), A, base, G) = G[<<PliegueIzq(s, A, base, G), x>>]
         /\ \A s \in Seq(B) : \A g : Recorre(g, s, A, base, G) => g[1 .. Len(s)] = PliegueIzq(s, A, base, G)
<1> DEFINE e(s) == CHOOSE g : Recorre(g, s, A, base, G)
<1>1. ASSUME NEW s \in Seq(B) PROVE Recorre(e(s), s, A, base, G)
  <2>1. \E g : Recorre(g, s, A, base, G)
    BY RecorreHay
  <2> QED BY <2>1
<1>2. \A s : PliegueIzq(s, A, base, G) = e(s)[1 .. Len(s)]
  BY DEF PliegueIzq
<1> HIDE DEF e
<1>3. ASSUME NEW s \in Seq(B), NEW g, Recorre(g, s, A, base, G)
      PROVE  g[1 .. Len(s)] \in A /\ g[1 .. Len(s)] = PliegueIzq(s, A, base, G)
  <2>1. Coinciden(s, s, Len(s)) /\ Len(s) \in 0 .. Len(s)
    BY DEF Coinciden
  <2>2. Recorre(e(s), s, A, base, G)
    BY <1>1
  <2>3. ASSUME NEW h, Recorre(h, s, A, base, G)
        PROVE  g[1 .. Len(s)] \in A /\ g[1 .. Len(s)] = h[1 .. Len(s)]
    <3>1. \A m \in 0 .. Len(s) : g[1 .. m] \in A /\ g[1 .. m] = h[1 .. m]
      BY <1>3, <2>1, <2>3, RecorreUna
    <3> QED BY <2>1, <3>1
  <2>4. e(s)[1 .. Len(s)] = g[1 .. Len(s)]
    BY <2>2, <2>3
  <2> QED BY <1>2, <2>2, <2>3, <2>4
<1>4. PliegueIzq(<<>>, A, base, G) = base
  <2>1. <<>> \in Seq(B) /\ (1 .. Len(<<>>)) = {}
    OBVIOUS
  <2> QED BY <1>1, <1>2, <2>1 DEF Recorre
<1>5. ASSUME NEW s \in Seq(B), NEW x \in B
      PROVE  PliegueIzq(Append(s, x), A, base, G) = G[<<PliegueIzq(s, A, base, G), x>>]
  <2> DEFINE t == Append(s, x)
             n == Len(s)
  <2>1. /\ t \in Seq(B) /\ n \in Nat /\ Len(t) = n + 1 /\ t[n + 1] = x /\ Coinciden(s, t, n)
        /\ n \in 0 .. n /\ n + 1 \in Nat /\ n + 1 \in 1 .. n + 1 /\ (n + 1) - 1 = n
    BY DEF Coinciden
  <2> HIDE DEF t, n
  <2>2. Recorre(e(s), s, A, base, G) /\ Recorre(e(t), t, A, base, G)
    BY <1>1, <2>1
  <2>3. e(s)[1 .. n] \in A /\ e(s)[1 .. n] = e(t)[1 .. n]
    <3>1. ASSUME NEW g, NEW h, Recorre(g, s, A, base, G), Recorre(h, t, A, base, G)
          PROVE  g[1 .. n] \in A /\ g[1 .. n] = h[1 .. n]
      <4>1. \A m \in 0 .. n : g[1 .. m] \in A /\ g[1 .. m] = h[1 .. m]
        BY <2>1, <3>1, RecorreUna
      <4> QED BY <2>1, <4>1
    <3> QED BY <2>2, <3>1
  <2>4. /\ (1 .. n + 1) \in (SUBSET (1 .. n + 1)) \ {{}}
        /\ Max(1 .. n + 1) = n + 1 /\ (1 .. n + 1) \ {n + 1} = 1 .. n
    BY <2>1, LaUltima
  <2>5. e(t)[1 .. n + 1] = G[<<e(t)[1 .. n], x>>]
    <3>1. \A T \in (SUBSET (1 .. Len(t))) \ {{}} :
            e(t)[T \ {Max(T)}] \in A => e(t)[T] = G[<<e(t)[T \ {Max(T)}], t[Max(T)]>>]
      BY <2>2 DEF Recorre
    <3>2. e(t)[1 .. n] \in A
      BY <2>3
    <3>3. (1 .. n + 1) \in (SUBSET (1 .. Len(t))) \ {{}}
      BY <2>1, <2>4
    <3>4. e(t)[1 .. n + 1] = G[<<e(t)[1 .. n], t[n + 1]>>]
      BY <3>1, <3>2, <3>3, <2>4, Zenon
    <3> QED BY <2>1, <3>4
  <2> QED BY <1>2, <2>1, <2>3, <2>5 DEF t, n
<1>6. \A s \in Seq(B) : PliegueIzq(s, A, base, G) \in A
  BY <1>1, <1>3
<1> QED BY <1>3, <1>4, <1>5, <1>6

------------------------------------------------------------------------------
(* Sequences *)

\* Induction over sequences: a set of them that is not empty has the empty one, or
\* one whose beginning it does not have.
LEMMA PorAppend ==
  ASSUME NEW B, NEW T \in SUBSET Seq(B), T # {}
  PROVE  <<>> \in T \/ \E r \in Seq(B) \ T : \E x \in B : Append(r, x) \in T
<1> DEFINE F == {Len(s) : s \in T}
<1>0. \A s \in T : s \in Seq(B) /\ Len(s) \in Nat
  BY LenProperties
<1>1. F \in SUBSET Nat /\ F # {}
  BY <1>0
<1>2. PICK k \in F : \A j \in F : k <= j
  BY <1>1, Minimo
<1>3. PICK s \in T : k = Len(s)
  BY <1>2
<1>4. CASE s = <<>>
  BY <1>3, <1>4
<1>5. CASE s # <<>>
  <2>1. PICK r \in Seq(B), x \in B : s = Append(r, x)
    BY <1>0, <1>5, SequenceEmptyOrAppend
  <2>2. Len(r) \in Nat /\ Len(s) = Len(r) + 1
    BY <2>1
  <2>3. r \notin T
    BY <1>2, <1>3, <2>2
  <2> QED BY <2>1, <2>3
<1> QED BY <1>4, <1>5

\* A sequence with one element more in the middle, and without its last one.
LEMMA Pegar ==
  ASSUME NEW B, NEW t \in Seq(B), NEW c \in B
  PROVE  /\ t \o <<c>> = Append(t, c) /\ Front(t \o <<c>>) = t /\ Append(t, c) \in Seq(B)
         /\ \A R \in Seq(B) : t \o (<<c>> \o R) = Append(t, c) \o R
<1>1. t \o <<c>> = Append(t, c) /\ <<c>> \in Seq(B) /\ Append(t, c) \in Seq(B)
  BY AppendIsConcat
<1>2. Front(Append(t, c)) = t
  BY DEF Front
<1>3. \A R \in Seq(B) : t \o (<<c>> \o R) = (t \o <<c>>) \o R
  BY <1>1, ConcatAssociative
<1> QED BY <1>1, <1>2, <1>3

\* The recursive function of FlattenSeq: the first i sequences one after another.
Aplana(f, ts) == f = [i \in 1 .. Len(ts) |-> IF i = 1 THEN ts[i] ELSE f[i - 1] \o ts[i]]

\* There is such a function for all sequences of sequences,
LEMMA AplanaHay ==
  ASSUME NEW B
  PROVE  \A ts \in Seq(Seq(B)) : \E f : Aplana(f, ts) /\ \A i \in 1 .. Len(ts) : f[i] \in Seq(B)
<1> DEFINE Hay(ts) == \E f : Aplana(f, ts) /\ \A i \in 1 .. Len(ts) : f[i] \in Seq(B)
           Mal == {ts \in Seq(Seq(B)) : ~Hay(ts)}
<1>1. Hay(<<>>)
  <2> DEFINE f == [i \in 1 .. 0 |-> <<>>]
  <2>1. Aplana(f, <<>>) /\ \A i \in 1 .. Len(<<>>) : f[i] \in Seq(B)
    BY DEF Aplana
  <2> QED BY <2>1
<1>2. ASSUME NEW ts \in Seq(Seq(B)), NEW d \in Seq(B), Hay(ts) PROVE Hay(Append(ts, d))
  <2> DEFINE tt == Append(ts, d)
             n == Len(ts)
  <2>1. n \in Nat /\ Len(tt) = n + 1 /\ tt[n + 1] = d /\ \A i \in 1 .. n : tt[i] = ts[i] /\ ts[i] \in Seq(B)
    OBVIOUS
  <2>2. PICK g : Aplana(g, ts) /\ \A i \in 1 .. n : g[i] \in Seq(B)
    BY <1>2
  <2> DEFINE f == [i \in 1 .. n + 1 |-> IF i <= n THEN g[i] ELSE IF n = 0 THEN d ELSE g[n] \o d]
  <2>3. \A i \in 1 .. n : f[i] = g[i]
    BY <2>1
  <2>4. f[n + 1] = IF n = 0 THEN d ELSE g[n] \o d
    BY <2>1
  <2>5. f = [i \in 1 .. n + 1 |-> f[i]]
    OBVIOUS
  <2> HIDE DEF f, tt, n
  <2>6. \A i \in 1 .. n : g[i] = IF i = 1 THEN ts[i] ELSE g[i - 1] \o ts[i]
    BY <2>2 DEF Aplana, n
  <2>7. ASSUME NEW i \in 1 .. n + 1 PROVE f[i] = IF i = 1 THEN tt[i] ELSE f[i - 1] \o tt[i]
    <3>1. CASE i = n + 1
      <4>1. n # 0 => i - 1 = n /\ n \in 1 .. n /\ f[n] = g[n]
        BY <2>1, <2>3, <3>1
      <4> QED BY <2>1, <2>4, <3>1, <4>1
    <3>2. CASE i # n + 1
      <4>1. i \in 1 .. n /\ (i # 1 => i - 1 \in 1 .. n)
        BY <2>1, <3>2
      <4> QED BY <2>1, <2>3, <2>6, <4>1
    <3> QED BY <3>1, <3>2
  <2>8. Aplana(f, tt)
    BY <2>1, <2>5, <2>7 DEF Aplana
  <2>9. ASSUME NEW i \in 1 .. Len(tt) PROVE f[i] \in Seq(B)
    <3>1. CASE i = n + 1
      <4>1. n # 0 => g[n] \in Seq(B)
        BY <2>1, <2>2
      <4>2. n # 0 => g[n] \o d \in Seq(B)
        BY <4>1, ConcatProperties
      <4> QED BY <2>4, <3>1, <4>2
    <3>2. CASE i # n + 1
      <4>1. i \in 1 .. n
        BY <2>1, <3>2
      <4> QED BY <2>2, <2>3, <4>1
    <3> QED BY <3>1, <3>2
  <2> QED BY <2>8, <2>9 DEF tt
<1>3. Mal = {}
  <2> SUFFICES ASSUME Mal # {} PROVE FALSE
    OBVIOUS
  <2> HIDE DEF Hay
  <2>1. Mal \in SUBSET Seq(Seq(B)) /\ <<>> \notin Mal
    BY <1>1
  <2> HIDE DEF Mal
  <2>2. PICK r \in Seq(Seq(B)) \ Mal, x \in Seq(B) : Append(r, x) \in Mal
    BY <2>1, PorAppend
  <2> QED BY <1>2, <2>2 DEF Mal
<1> QED BY <1>3

\* and any two agree on a common beginning.
LEMMA AplanaUna ==
  ASSUME NEW s, NEW t, NEW n, Coinciden(s, t, n), Len(s) \in Nat, Len(t) \in Nat
  PROVE  \A f, g : Aplana(f, s) /\ Aplana(g, t) => \A i \in 1 .. n : f[i] = g[i]
<1> SUFFICES ASSUME NEW f, Aplana(f, s), NEW g, Aplana(g, t)
             PROVE  \A i \in 1 .. n : f[i] = g[i]
  OBVIOUS
<1> DEFINE Mal == {i \in 1 .. n : f[i] # g[i]}
<1> SUFFICES ASSUME Mal # {} PROVE FALSE
  OBVIOUS
<1>0. n \in Nat
  BY DEF Coinciden
<1>1. PICK i \in Mal : \A j \in Mal : i <= j
  <2>1. Mal \in SUBSET Nat
    BY <1>0
  <2> HIDE DEF Mal
  <2> QED BY <2>1, Minimo
<1>2. i \in Nat /\ i \in 1 .. n /\ i \in 1 .. Len(s) /\ i \in 1 .. Len(t) /\ s[i] = t[i] /\ f[i] # g[i]
  BY DEF Coinciden
<1>3. /\ f[i] = IF i = 1 THEN s[i] ELSE f[i - 1] \o s[i]
      /\ g[i] = IF i = 1 THEN t[i] ELSE g[i - 1] \o t[i]
  BY <1>2 DEF Aplana
<1>4. i # 1 => i - 1 \in 1 .. n /\ i - 1 \notin Mal
  BY <1>0, <1>1, <1>2
<1>5. i # 1 => f[i - 1] = g[i - 1]
  BY <1>4
<1> QED BY <1>2, <1>3, <1>5

\* The elements of some sequences one after another, a sequence more at a time.
LEMMA Aplanadas ==
  ASSUME NEW B
  PROVE  /\ FlattenSeq(<<>>) = <<>>
         /\ \A ts \in Seq(Seq(B)) : FlattenSeq(ts) \in Seq(B)
         /\ \A ts \in Seq(Seq(B)) : \A d \in Seq(B) : FlattenSeq(Append(ts, d)) = FlattenSeq(ts) \o d
<1> DEFINE e(ts) == CHOOSE f : Aplana(f, ts)
<1>1. \A ts : Len(ts) # 0 => FlattenSeq(ts) = e(ts)[Len(ts)]
  BY DEF FlattenSeq, Aplana
<1>2. FlattenSeq(<<>>) = <<>>
  BY DEF FlattenSeq
<1>3. ASSUME NEW ts \in Seq(Seq(B)) PROVE Aplana(e(ts), ts)
  <2>1. \E f : Aplana(f, ts)
    BY AplanaHay
  <2> QED BY <2>1
<1> HIDE DEF e
<1>4. ASSUME NEW ts \in Seq(Seq(B)) PROVE FlattenSeq(ts) \in Seq(B)
  <2>1. CASE ts = <<>>
    <3>1. <<>> \in Seq(B)
      BY EmptySeq
    <3> QED BY <1>2, <2>1, <3>1, Zenon
  <2>2. CASE ts # <<>>
    <3>1. Len(ts) \in Nat \ {0} /\ Coinciden(ts, ts, Len(ts))
      BY <2>2, EmptySeq DEF Coinciden
    <3>2. PICK f : Aplana(f, ts) /\ \A i \in 1 .. Len(ts) : f[i] \in Seq(B)
      BY AplanaHay
    <3>3. Aplana(e(ts), ts)
      BY <1>3
    <3>4. \A i \in 1 .. Len(ts) : e(ts)[i] = f[i]
      BY <3>1, <3>2, <3>3, AplanaUna
    <3>5. Len(ts) \in 1 .. Len(ts)
      BY <3>1
    <3> QED BY <1>1, <3>1, <3>2, <3>4, <3>5
  <2> QED BY <2>1, <2>2
<1>5. ASSUME NEW ts \in Seq(Seq(B)), NEW d \in Seq(B) PROVE FlattenSeq(Append(ts, d)) = FlattenSeq(ts) \o d
  <2> DEFINE tt == Append(ts, d)
             n == Len(ts)
  <2>1. n \in Nat /\ tt \in Seq(Seq(B)) /\ Len(tt) = n + 1 /\ tt[n + 1] = d /\ Coinciden(ts, tt, n)
        /\ (n = 0 => ts = <<>>)
    BY EmptySeq DEF Coinciden
  <2> HIDE DEF tt, n
  <2>2. Aplana(e(ts), ts) /\ Aplana(e(tt), tt)
    BY <1>3, <2>1
  <2>3. FlattenSeq(tt) = e(tt)[n + 1]
    <3>1. Len(tt) # 0
      BY <2>1
    <3> QED BY <1>1, <2>1, <3>1
  <2>4. e(tt)[n + 1] = IF n = 0 THEN d ELSE e(tt)[n] \o d
    <3>1. n + 1 \in 1 .. Len(tt) /\ (n + 1) - 1 = n /\ (n + 1 = 1 <=> n = 0)
      BY <2>1
    <3>2. e(tt)[n + 1] = IF n + 1 = 1 THEN tt[n + 1] ELSE e(tt)[(n + 1) - 1] \o tt[n + 1]
      BY <2>2, <3>1 DEF Aplana
    <3> QED BY <2>1, <3>1, <3>2
  <2>5. CASE n = 0
    <3>1. FlattenSeq(ts) = <<>> /\ <<>> \o d = d
      BY <1>2, <2>1, <2>5, ConcatEmptySeq
    <3> QED BY <2>3, <2>4, <2>5, <3>1 DEF tt
  <2>6. CASE n # 0
    <3>1. \A i \in 1 .. n : e(ts)[i] = e(tt)[i]
      <4>1. Len(ts) \in Nat /\ Len(tt) \in Nat
        BY <2>1 DEF n
      <4>2. Coinciden(ts, tt, n)
        BY <2>1
      <4>3. \A f, g : Aplana(f, ts) /\ Aplana(g, tt) => \A i \in 1 .. n : f[i] = g[i]
        BY <4>1, <4>2, AplanaUna
      <4> QED BY <2>2, <4>3
    <3>2. e(ts)[n] = e(tt)[n]
      BY <2>1, <2>6, <3>1
    <3>3. FlattenSeq(ts) = e(ts)[n]
      BY <1>1, <2>6 DEF n
    <3> QED BY <2>3, <2>4, <2>6, <3>2, <3>3 DEF tt
  <2> QED BY <2>5, <2>6
<1> QED BY <1>2, <1>4, <1>5
=============================================================================
