------------------------------ MODULE LedgerSums ------------------------------
(***************************************************************************)
(* Facts about SumFunctionOnSet, the fold that both fund ledgers use to   *)
(* total the funds of a set of buckets (fund_module's per-type and         *)
(* per-user totals, and the amounts the transformations move).            *)
(*                                                                         *)
(* The fold is a recursive function over the subsets of its index set     *)
(* that picks an element with CHOOSE.  Its facts are proved by induction   *)
(* over finite sets, in the first-order form that the provers can use: a   *)
(* nonempty family of subsets of a finite set has a member with no strict *)
(* subset in the family (MinimalSubset, from the well-foundedness of      *)
(* strict inclusion on finite sets).  Each inductive proof takes such a   *)
(* minimal counterexample and derives a contradiction.                    *)
(***************************************************************************)
EXTENDS Integers, FiniteSets, Functions, FiniteSetTheorems, TLAPS

\* A nonempty family of subsets of a finite set has a minimal member.
LEMMA MinimalSubset ==
  ASSUME NEW S, IsFiniteSet(S), NEW D \in SUBSET SUBSET S, D # {}
  PROVE  \E T \in D : \A U \in D : ~(U \subseteq T /\ U # T)
<1>1. IsWellFoundedOn(StrictSubsetOrdering(S), SUBSET S)
  BY FS_FiniteSubsetsOfFinite, FS_StrictSubsetOrderingWellFounded, Zenon
<1>2. \E T \in D : \A U \in D : ~(<<U, T>> \in StrictSubsetOrdering(S))
  BY <1>1, WFMin, Zenon
<1>3. QED
  BY <1>2 DEF StrictSubsetOrdering

-----------------------------------------------------------------------------
(* THE FOLD'S DEFINING EQUATION *)

\* The element the fold takes out of a nonempty set.
Ch(s) == CHOOSE x \in s : TRUE

\* The equation that the fold's recursive function satisfies on SUBSET S.
SumEq(m, S, f) ==
  f = [s \in SUBSET S |-> IF s = {} THEN 0 ELSE m[Ch(s)] + f[s \ {Ch(s)}]]

LEMMA SumAsChoice ==
  ASSUME NEW m, NEW S
  PROVE  SumFunctionOnSet(m, S) = (CHOOSE f : SumEq(m, S, f))[S]
BY DEF SumFunctionOnSet, FoldFunctionOnSet, MapThenFoldSet, SumEq, Ch

\* A solution on S is a solution on every subset of S.
LEMMA SumRestrict ==
  ASSUME NEW m, NEW S, NEW f, SumEq(m, S, f), NEW U \in SUBSET S
  PROVE  SumEq(m, U, [s \in SUBSET U |-> f[s]])
<1> DEFINE r == [s \in SUBSET U |-> f[s]]
<1>1. ASSUME NEW s \in SUBSET U
      PROVE  r[s] = IF s = {} THEN 0 ELSE m[Ch(s)] + r[s \ {Ch(s)}]
  <2>1. s \in SUBSET S /\ s \ {Ch(s)} \in SUBSET U
    OBVIOUS
  <2>2. f[s] = IF s = {} THEN 0 ELSE m[Ch(s)] + f[s \ {Ch(s)}]
    BY <2>1 DEF SumEq
  <2>3. QED
    BY <2>1, <2>2
<1>2. QED
  BY <1>1 DEF SumEq

\* On a finite set the equation has at most one solution.
LEMMA SumUnique ==
  ASSUME NEW m, NEW S, IsFiniteSet(S), NEW f, NEW g, SumEq(m, S, f), SumEq(m, S, g)
  PROVE  f = g
<1> DEFINE D == {s \in SUBSET S : f[s] # g[s]}
<1>1. DOMAIN f = SUBSET S /\ DOMAIN g = SUBSET S
  BY DEF SumEq
<1>2. D = {}
  <2> SUFFICES ASSUME D # {} PROVE FALSE
    OBVIOUS
  <2>0. D \in SUBSET SUBSET S
    OBVIOUS
  <2> HIDE DEF D
  <2>1. PICK T \in D : \A U \in D : ~(U \subseteq T /\ U # T)
    BY <2>0, MinimalSubset
  <2> USE DEF D
  <2>2. T \subseteq S /\ f[T] # g[T]
    OBVIOUS
  <2>3. f[{}] = 0 /\ g[{}] = 0
    BY DEF SumEq
  <2>4. T # {}
    BY <2>2, <2>3
  <2>5. Ch(T) \in T
    BY <2>4 DEF Ch
  <2>6. f[T \ {Ch(T)}] = g[T \ {Ch(T)}]
    BY <2>1, <2>2, <2>5
  <2>7. f[T] = m[Ch(T)] + f[T \ {Ch(T)}] /\ g[T] = m[Ch(T)] + g[T \ {Ch(T)}]
    BY <2>2, <2>4 DEF SumEq
  <2>8. QED
    BY <2>2, <2>6, <2>7
<1>3. QED
  BY <1>1, <1>2 DEF SumEq

\* On a finite set the equation has a solution.
LEMMA SumExists ==
  ASSUME NEW m, NEW S, IsFiniteSet(S)
  PROVE  \E f : SumEq(m, S, f)
<1> DEFINE Bad == {T \in SUBSET S : ~\E f : SumEq(m, T, f)}
           G(U) == CHOOSE g : SumEq(m, U, g)
<1> SUFFICES ASSUME Bad # {} PROVE FALSE
  OBVIOUS
<1>0. Bad \in SUBSET SUBSET S
  OBVIOUS
<1> HIDE DEF Bad
<1>1. PICK T \in Bad : \A U \in Bad : ~(U \subseteq T /\ U # T)
  BY <1>0, MinimalSubset
<1> USE DEF Bad
<1>2. T \subseteq S /\ ~\E f : SumEq(m, T, f)
  OBVIOUS
<1>3. \A U \in SUBSET T : U # T => SumEq(m, U, G(U))
  BY <1>1, <1>2
<1>4. SumEq(m, {}, [s \in SUBSET {} |-> 0])
  BY DEF SumEq
<1>5. T # {}
  BY <1>2, <1>4
<1> DEFINE x == Ch(T)
           f0 == [s \in SUBSET T |-> IF s = T THEN m[x] + G(T \ {x})[T \ {x}]
                                     ELSE G(s)[s]]
<1>6. x \in T
  BY <1>5 DEF Ch
<1>7. ASSUME NEW s \in SUBSET T
      PROVE  f0[s] = IF s = {} THEN 0 ELSE m[Ch(s)] + f0[s \ {Ch(s)}]
  <2>1. CASE s = {}
    <3>1. SumEq(m, {}, G({}))
      BY <1>3, <1>5, <2>1
    <3>2. G({})[{}] = 0
      BY <3>1 DEF SumEq
    <3>3. QED
      BY <1>5, <2>1, <3>2
  <2>2. CASE s = T
    <3>1. T \ {x} # T
      BY <1>6
    <3>2. QED
      BY <2>2, <1>5, <3>1
  <2>3. CASE s # {} /\ s # T
    <3> DEFINE y == Ch(s)
               s1 == s \ {y}
    <3>1. y \in s /\ s1 \in SUBSET s /\ s1 # T
      BY <2>3 DEF Ch
    <3>2. SumEq(m, s, G(s)) /\ SumEq(m, s1, G(s1))
      BY <1>3, <2>3, <3>1
    <3>3. G(s)[s] = m[y] + G(s)[s1]
      BY <2>3, <3>2 DEF SumEq
    <3>4. G(s)[s1] = G(s1)[s1]
      <4>1. SumEq(m, s1, [u \in SUBSET s1 |-> G(s)[u]])
        BY <3>1, <3>2, SumRestrict
      <4>2. IsFiniteSet(s1)
        BY <1>2, <3>1, FS_Subset
      <4>3. [u \in SUBSET s1 |-> G(s)[u]] = G(s1)
        BY <3>2, <4>1, <4>2, SumUnique
      <4>4. QED
        BY <4>3
    <3>5. QED
      BY <2>3, <3>1, <3>3, <3>4
  <2>4. QED
    BY <2>1, <2>2, <2>3
<1>8. SumEq(m, T, f0)
  <2>1. f0 = [s \in SUBSET T |-> f0[s]]
    OBVIOUS
  <2> HIDE DEF f0
  <2>2. QED
    BY <1>7, <2>1 DEF SumEq
<1>9. QED
  BY <1>2, <1>8
\* The fold on a finite set: empty, or the chosen element plus the rest.
LEMMA SumDef ==
  ASSUME NEW m, NEW S, IsFiniteSet(S)
  PROVE  SumFunctionOnSet(m, S) =
           IF S = {} THEN 0 ELSE m[Ch(S)] + SumFunctionOnSet(m, S \ {Ch(S)})
<1> DEFINE G(U) == CHOOSE g : SumEq(m, U, g)
           S1 == S \ {Ch(S)}
<1>1. SumEq(m, S, G(S))
  BY SumExists
<1>2. SumFunctionOnSet(m, S) = G(S)[S] /\ SumFunctionOnSet(m, S1) = G(S1)[S1]
  BY SumAsChoice
<1>3. CASE S = {}
  BY <1>1, <1>2, <1>3 DEF SumEq
<1>4. CASE S # {}
  <2>1. G(S)[S] = m[Ch(S)] + G(S)[S1]
    BY <1>1, <1>4 DEF SumEq
  <2>2. IsFiniteSet(S1) /\ S1 \in SUBSET S
    BY FS_RemoveElement
  <2>3. SumEq(m, S1, G(S1))
    BY <2>2, SumExists
  <2>4. SumEq(m, S1, [u \in SUBSET S1 |-> G(S)[u]])
    BY <1>1, <2>2, SumRestrict
  <2>5. [u \in SUBSET S1 |-> G(S)[u]] = G(S1)
    BY <2>2, <2>3, <2>4, SumUnique
  <2>6. G(S)[S1] = G(S1)[S1]
    BY <2>5
  <2>7. QED
    BY <1>2, <1>4, <2>1, <2>6
<1>5. QED
  BY <1>3, <1>4

\* Nothing is summed over no bucket.
LEMMA SumEmpty ==
  ASSUME NEW m
  PROVE  SumFunctionOnSet(m, {}) = 0
BY SumDef, FS_EmptySet

-----------------------------------------------------------------------------
(* THE SUM AS A SUM *)

\* A sum of integers is an integer.
LEMMA SumInt ==
  ASSUME NEW m, NEW S, IsFiniteSet(S), \A x \in S : m[x] \in Int
  PROVE  SumFunctionOnSet(m, S) \in Int
<1> DEFINE D == {T \in SUBSET S : SumFunctionOnSet(m, T) \notin Int}
<1> SUFFICES ASSUME D # {} PROVE FALSE
  OBVIOUS
<1>0. D \in SUBSET SUBSET S
  OBVIOUS
<1> HIDE DEF D
<1>1. PICK T \in D : \A U \in D : ~(U \subseteq T /\ U # T)
  BY <1>0, MinimalSubset
<1> USE DEF D
<1>2. T \subseteq S /\ SumFunctionOnSet(m, T) \notin Int /\ IsFiniteSet(T)
  BY FS_Subset
<1>3. CASE T = {}
  BY <1>2, <1>3, SumEmpty
<1>4. CASE T # {}
  <2>1. Ch(T) \in T /\ T \ {Ch(T)} # T
    BY <1>4 DEF Ch
  <2>2. SumFunctionOnSet(m, T \ {Ch(T)}) \in Int
    BY <1>1, <1>2, <2>1
  <2>3. QED
    BY <1>2, <1>4, <2>1, <2>2, SumDef
<1>5. QED
  BY <1>3, <1>4

\* A sum of naturals is a natural.
LEMMA SumNat ==
  ASSUME NEW m, NEW S, IsFiniteSet(S), \A x \in S : m[x] \in Nat
  PROVE  SumFunctionOnSet(m, S) \in Nat
<1> DEFINE D == {T \in SUBSET S : SumFunctionOnSet(m, T) \notin Nat}
<1> SUFFICES ASSUME D # {} PROVE FALSE
  OBVIOUS
<1>0. D \in SUBSET SUBSET S
  OBVIOUS
<1> HIDE DEF D
<1>1. PICK T \in D : \A U \in D : ~(U \subseteq T /\ U # T)
  BY <1>0, MinimalSubset
<1> USE DEF D
<1>2. T \subseteq S /\ SumFunctionOnSet(m, T) \notin Nat /\ IsFiniteSet(T)
  BY FS_Subset
<1>3. CASE T = {}
  BY <1>2, <1>3, SumEmpty
<1>4. CASE T # {}
  <2>1. Ch(T) \in T /\ T \ {Ch(T)} # T
    BY <1>4 DEF Ch
  <2>2. SumFunctionOnSet(m, T \ {Ch(T)}) \in Nat
    BY <1>1, <1>2, <2>1
  <2>3. QED
    BY <1>2, <1>4, <2>1, <2>2, SumDef
<1>5. QED
  BY <1>3, <1>4

\* The sum depends only on the values over the summed set.
LEMMA SumCongruence ==
  ASSUME NEW m1, NEW m2, NEW S, IsFiniteSet(S), \A x \in S : m1[x] = m2[x]
  PROVE  SumFunctionOnSet(m1, S) = SumFunctionOnSet(m2, S)
<1> DEFINE D == {T \in SUBSET S : SumFunctionOnSet(m1, T) # SumFunctionOnSet(m2, T)}
<1> SUFFICES ASSUME D # {} PROVE FALSE
  OBVIOUS
<1>0. D \in SUBSET SUBSET S
  OBVIOUS
<1> HIDE DEF D
<1>1. PICK T \in D : \A U \in D : ~(U \subseteq T /\ U # T)
  BY <1>0, MinimalSubset
<1> USE DEF D
<1>2. T \subseteq S /\ SumFunctionOnSet(m1, T) # SumFunctionOnSet(m2, T) /\ IsFiniteSet(T)
  BY FS_Subset
<1>3. CASE T = {}
  BY <1>2, <1>3, SumEmpty
<1>4. CASE T # {}
  <2>1. Ch(T) \in T /\ T \ {Ch(T)} # T
    BY <1>4 DEF Ch
  <2>2. SumFunctionOnSet(m1, T \ {Ch(T)}) = SumFunctionOnSet(m2, T \ {Ch(T)})
    BY <1>1, <1>2, <2>1
  <2>3. QED
    BY <1>2, <1>4, <2>1, <2>2, SumDef
<1>5. QED
  BY <1>3, <1>4

\* Any element can be taken out first: the sum is order-independent.
LEMMA SumRemove ==
  ASSUME NEW m, NEW S, IsFiniteSet(S), \A x \in S : m[x] \in Int, NEW x \in S
  PROVE  SumFunctionOnSet(m, S) = m[x] + SumFunctionOnSet(m, S \ {x})
<1> DEFINE D == {T \in SUBSET S :
                   \E z \in T : SumFunctionOnSet(m, T) # m[z] + SumFunctionOnSet(m, T \ {z})}
<1> SUFFICES ASSUME D # {} PROVE FALSE
  OBVIOUS
<1>0. D \in SUBSET SUBSET S
  OBVIOUS
<1> HIDE DEF D
<1>1. PICK T \in D : \A U \in D : ~(U \subseteq T /\ U # T)
  BY <1>0, MinimalSubset
<1> USE DEF D
<1>2. T \subseteq S /\ IsFiniteSet(T)
  BY FS_Subset
<1>3. PICK z \in T : SumFunctionOnSet(m, T) # m[z] + SumFunctionOnSet(m, T \ {z})
  OBVIOUS
<1> DEFINE y == Ch(T)
<1>4. y \in T
  BY <1>3 DEF Ch
<1>5. SumFunctionOnSet(m, T) = m[y] + SumFunctionOnSet(m, T \ {y})
  BY <1>2, <1>3, SumDef
<1>6. z # y
  BY <1>3, <1>5
<1>7. SumFunctionOnSet(m, T \ {y}) = m[z] + SumFunctionOnSet(m, (T \ {y}) \ {z})
  <2>1. T \ {y} \subseteq T /\ T \ {y} # T /\ z \in T \ {y}
    BY <1>4, <1>6
  <2>2. QED
    BY <1>1, <1>2, <2>1
<1>8. SumFunctionOnSet(m, T \ {z}) = m[y] + SumFunctionOnSet(m, (T \ {z}) \ {y})
  <2>1. T \ {z} \subseteq T /\ T \ {z} # T /\ y \in T \ {z}
    BY <1>3, <1>4, <1>6
  <2>2. QED
    BY <1>1, <1>2, <2>1
<1>9. SumFunctionOnSet(m, (T \ {y}) \ {z}) = SumFunctionOnSet(m, (T \ {z}) \ {y})
  <2>1. (T \ {y}) \ {z} = (T \ {z}) \ {y}
    OBVIOUS
  <2>2. QED
    BY <2>1, Zenon
<1>10. SumFunctionOnSet(m, (T \ {y}) \ {z}) \in Int /\ m[y] \in Int /\ m[z] \in Int
  BY <1>2, <1>3, <1>4, FS_Subset, SumInt
<1>11. QED
  BY <1>3, <1>5, <1>7, <1>8, <1>9, <1>10

\* Adding a new element adds its value.
LEMMA SumAddElement ==
  ASSUME NEW m, NEW S, IsFiniteSet(S), NEW x, x \notin S,
         \A y \in S \cup {x} : m[y] \in Int
  PROVE  SumFunctionOnSet(m, S \cup {x}) = m[x] + SumFunctionOnSet(m, S)
<1>1. IsFiniteSet(S \cup {x}) /\ (S \cup {x}) \ {x} = S
  BY FS_AddElement
<1>2. QED
  BY <1>1, SumRemove

\* The sum over one element is its value.
LEMMA SumSingleton ==
  ASSUME NEW m, NEW c, m[c] \in Int
  PROVE  SumFunctionOnSet(m, {c}) = m[c]
<1>1. IsFiniteSet({}) /\ c \notin {} /\ {} \cup {c} = {c}
  BY FS_EmptySet
<1>2. SumFunctionOnSet(m, {} \cup {c}) = m[c] + SumFunctionOnSet(m, {})
  BY <1>1, SumAddElement
<1>3. QED
  BY <1>1, <1>2, SumEmpty

\* A sum of zeros is zero.
LEMMA SumZero ==
  ASSUME NEW m, NEW S, IsFiniteSet(S), \A x \in S : m[x] = 0
  PROVE  SumFunctionOnSet(m, S) = 0
<1>1. SumFunctionOnSet(m, S) = SumFunctionOnSet([x \in S |-> 0], S)
  BY SumCongruence
<1> DEFINE z == [x \in S |-> 0]
           D == {T \in SUBSET S : SumFunctionOnSet(z, T) # 0}
<1>2. D = {}
  <2> SUFFICES ASSUME D # {} PROVE FALSE
    OBVIOUS
  <2>0. D \in SUBSET SUBSET S
    OBVIOUS
  <2> HIDE DEF D
  <2>1. PICK T \in D : \A U \in D : ~(U \subseteq T /\ U # T)
    BY <2>0, MinimalSubset
  <2> USE DEF D
  <2>2. T \subseteq S /\ IsFiniteSet(T) /\ SumFunctionOnSet(z, T) # 0
    BY FS_Subset
  <2>3. T # {}
    BY <2>2, SumEmpty
  <2>4. Ch(T) \in T /\ T \ {Ch(T)} # T
    BY <2>3 DEF Ch
  <2>5. SumFunctionOnSet(z, T \ {Ch(T)}) = 0
    BY <2>1, <2>2, <2>4
  <2>6. QED
    BY <2>2, <2>3, <2>4, <2>5, SumDef
<1>3. QED
  BY <1>1, <1>2

\* The sum over a disjoint union is the sum of the sums.
LEMMA SumUnion ==
  ASSUME NEW m, NEW A, NEW B, IsFiniteSet(A), IsFiniteSet(B), A \cap B = {},
         \A x \in A \cup B : m[x] \in Int
  PROVE  SumFunctionOnSet(m, A \cup B) = SumFunctionOnSet(m, A) + SumFunctionOnSet(m, B)
<1> DEFINE D == {T \in SUBSET B :
                   SumFunctionOnSet(m, A \cup T) # SumFunctionOnSet(m, A) + SumFunctionOnSet(m, T)}
<1> SUFFICES ASSUME D # {} PROVE FALSE
  OBVIOUS
<1>0. D \in SUBSET SUBSET B
  OBVIOUS
<1> HIDE DEF D
<1>1. PICK T \in D : \A U \in D : ~(U \subseteq T /\ U # T)
  BY <1>0, MinimalSubset
<1> USE DEF D
<1>2. T \subseteq B /\ IsFiniteSet(T) /\ IsFiniteSet(A \cup T)
      /\ SumFunctionOnSet(m, A \cup T) # SumFunctionOnSet(m, A) + SumFunctionOnSet(m, T)
  BY FS_Subset, FS_Union
<1>3. SumFunctionOnSet(m, A) \in Int
  BY SumInt
<1>4. CASE T = {}
  BY <1>2, <1>3, <1>4, SumEmpty
<1>5. CASE T # {}
  <2>1. PICK x \in T : TRUE
    BY <1>5
  <2>2. x \notin A /\ (A \cup T) \ {x} = A \cup (T \ {x}) /\ T \ {x} # T
    BY <1>2, <2>1
  <2>3. SumFunctionOnSet(m, A \cup (T \ {x})) = SumFunctionOnSet(m, A) + SumFunctionOnSet(m, T \ {x})
    BY <1>1, <1>2, <2>2
  <2>4. SumFunctionOnSet(m, A \cup T) = m[x] + SumFunctionOnSet(m, A \cup (T \ {x}))
    BY <1>2, <2>1, <2>2, SumRemove
  <2>5. SumFunctionOnSet(m, T) = m[x] + SumFunctionOnSet(m, T \ {x})
    BY <1>2, <2>1, SumRemove
  <2>6. SumFunctionOnSet(m, T \ {x}) \in Int /\ m[x] \in Int
    BY <1>2, <2>1, FS_RemoveElement, SumInt
  <2>7. QED
    BY <1>2, <1>3, <2>3, <2>4, <2>5, <2>6
<1>6. QED
  BY <1>4, <1>5

\* Summing f - g + h is summing each and combining.
LEMMA SumLinear ==
  ASSUME NEW f, NEW g, NEW h, NEW k, NEW S, IsFiniteSet(S),
         \A x \in S : f[x] \in Int /\ g[x] \in Int /\ h[x] \in Int,
         \A x \in S : k[x] = f[x] - g[x] + h[x]
  PROVE  SumFunctionOnSet(k, S) =
           SumFunctionOnSet(f, S) - SumFunctionOnSet(g, S) + SumFunctionOnSet(h, S)
<1> DEFINE P(T) == SumFunctionOnSet(k, T) =
                     SumFunctionOnSet(f, T) - SumFunctionOnSet(g, T) + SumFunctionOnSet(h, T)
           D == {T \in SUBSET S : ~P(T)}
<1> SUFFICES ASSUME D # {} PROVE FALSE
  OBVIOUS
<1>0. D \in SUBSET SUBSET S
  OBVIOUS
<1> HIDE DEF D
<1>1. PICK T \in D : \A U \in D : ~(U \subseteq T /\ U # T)
  BY <1>0, MinimalSubset
<1> USE DEF D
<1>2. T \subseteq S /\ IsFiniteSet(T) /\ ~P(T)
  BY FS_Subset
<1>3. CASE T = {}
  BY <1>2, <1>3, SumEmpty
<1>4. CASE T # {}
  <2> DEFINE y == Ch(T)
             T1 == T \ {y}
  <2>1. y \in T /\ T1 # T /\ T1 \subseteq T /\ IsFiniteSet(T1)
    BY <1>2, <1>4, FS_RemoveElement DEF Ch
  <2>2. P(T1)
    BY <1>1, <1>2, <2>1
  <2>3. /\ SumFunctionOnSet(k, T) = k[y] + SumFunctionOnSet(k, T1)
        /\ SumFunctionOnSet(f, T) = f[y] + SumFunctionOnSet(f, T1)
        /\ SumFunctionOnSet(g, T) = g[y] + SumFunctionOnSet(g, T1)
        /\ SumFunctionOnSet(h, T) = h[y] + SumFunctionOnSet(h, T1)
    BY <1>2, <1>4, SumDef
  <2>4. /\ SumFunctionOnSet(f, T1) \in Int
        /\ SumFunctionOnSet(g, T1) \in Int
        /\ SumFunctionOnSet(h, T1) \in Int
    BY <1>2, <2>1, SumInt
  <2>5. k[y] = f[y] - g[y] + h[y] /\ f[y] \in Int /\ g[y] \in Int /\ h[y] \in Int
    BY <1>2, <2>1
  <2>6. QED
    BY <1>2, <2>2, <2>3, <2>4, <2>5
<1>5. QED
  BY <1>3, <1>4

\* A function that is zero outside D sums over S as over D.
LEMMA SumZeroOutside ==
  ASSUME NEW m, NEW S, IsFiniteSet(S), NEW D \in SUBSET S,
         \A x \in S : m[x] \in Int, \A x \in S \ D : m[x] = 0
  PROVE  SumFunctionOnSet(m, S) = SumFunctionOnSet(m, D)
<1>1. IsFiniteSet(D) /\ IsFiniteSet(S \ D) /\ S = D \cup (S \ D) /\ D \cap (S \ D) = {}
  BY FS_Subset, FS_Difference
<1>2. SumFunctionOnSet(m, S \ D) = 0
  BY <1>1, SumZero
<1>3. SumFunctionOnSet(m, D) \in Int
  BY <1>1, SumInt
<1>4. SumFunctionOnSet(m, D \cup (S \ D)) = SumFunctionOnSet(m, D) + SumFunctionOnSet(m, S \ D)
  BY <1>1, SumUnion
<1>5. SumFunctionOnSet(m, S) = SumFunctionOnSet(m, D \cup (S \ D))
  BY <1>1, Zenon
<1>6. QED
  BY <1>2, <1>3, <1>4, <1>5

\* Changing one summed value by d changes the sum by d.
LEMMA SumExcept ==
  ASSUME NEW m, NEW S, IsFiniteSet(S), \A y \in S : m[y] \in Int,
         NEW x \in S, NEW d \in Int, NEW m2,
         m2[x] = m[x] + d, \A y \in S \ {x} : m2[y] = m[y]
  PROVE  SumFunctionOnSet(m2, S) = SumFunctionOnSet(m, S) + d
<1>1. IsFiniteSet(S \ {x})
  BY FS_RemoveElement
<1>2. SumFunctionOnSet(m2, S \ {x}) = SumFunctionOnSet(m, S \ {x})
  BY <1>1, SumCongruence
<1>3. \A y \in S : m2[y] \in Int
  OBVIOUS
<1>4. SumFunctionOnSet(m2, S) = m2[x] + SumFunctionOnSet(m2, S \ {x})
  BY <1>3, SumRemove
<1>5. SumFunctionOnSet(m, S) = m[x] + SumFunctionOnSet(m, S \ {x})
  BY SumRemove
<1>6. SumFunctionOnSet(m, S \ {x}) \in Int
  BY <1>1, SumInt
<1>7. QED
  BY <1>2, <1>4, <1>5, <1>6

\* A natural summand is at most the sum.
LEMMA SumBound ==
  ASSUME NEW m, NEW S, IsFiniteSet(S), \A y \in S : m[y] \in Nat, NEW x \in S
  PROVE  m[x] <= SumFunctionOnSet(m, S)
<1>1. IsFiniteSet(S \ {x})
  BY FS_RemoveElement
<1>2. SumFunctionOnSet(m, S \ {x}) \in Nat
  BY <1>1, SumNat
<1>3. SumFunctionOnSet(m, S) = m[x] + SumFunctionOnSet(m, S \ {x})
  BY SumRemove
<1>4. QED
  BY <1>2, <1>3

\* The sources of D that `to` maps into the target b, and into the set B.
Fiber(D, to, b) == {c \in D : to[c] = b}
MovedInto(D, to, B) == {c \in D : to[c] \in B}

\* Summing, over a set B of targets, what each target receives from the
\* sources D mapped into it by `to` sums the sources mapped into B.
LEMMA SumFibers ==
  ASSUME NEW m, NEW D, IsFiniteSet(D), \A c \in D : m[c] \in Int,
         NEW to, NEW B, IsFiniteSet(B), NEW h,
         \A b \in B : h[b] = SumFunctionOnSet(m, Fiber(D, to, b))
  PROVE  SumFunctionOnSet(h, B) = SumFunctionOnSet(m, MovedInto(D, to, B))
<1> DEFINE In(T) == MovedInto(D, to, T)
           Fib(b) == Fiber(D, to, b)
           Bad == {T \in SUBSET B : SumFunctionOnSet(h, T) # SumFunctionOnSet(m, In(T))}
<1> SUFFICES ASSUME Bad # {} PROVE FALSE
  OBVIOUS
<1>0. Bad \in SUBSET SUBSET B
  OBVIOUS
<1> HIDE DEF Bad
<1>1. PICK T \in Bad : \A U \in Bad : ~(U \subseteq T /\ U # T)
  BY <1>0, MinimalSubset
<1> USE DEF Bad
<1>2. T \subseteq B /\ IsFiniteSet(T) /\ SumFunctionOnSet(h, T) # SumFunctionOnSet(m, In(T))
  BY FS_Subset
<1>3. \A U : In(U) \subseteq D /\ IsFiniteSet(In(U)) /\ Fib(U) \subseteq D /\ IsFiniteSet(Fib(U))
  BY FS_Subset DEF Fiber, MovedInto
<1>4. ASSUME NEW b \in B PROVE h[b] \in Int
  <2>1. \A c \in Fib(b) : m[c] \in Int
    BY DEF Fiber
  <2>2. SumFunctionOnSet(m, Fib(b)) \in Int
    BY <1>3, <2>1, SumInt
  <2>3. QED
    BY <2>2
<1>5. CASE T = {}
  <2>1. In(T) = {}
    BY <1>5 DEF MovedInto
  <2>2. QED
    BY <1>2, <1>5, <2>1, SumEmpty
<1>6. CASE T # {}
  <2>1. PICK b \in T : TRUE
    BY <1>6
  <2>2. T \ {b} # T /\ T \ {b} \subseteq T /\ IsFiniteSet(T \ {b})
    BY <1>2, <2>1, FS_RemoveElement
  <2>3. SumFunctionOnSet(h, T \ {b}) = SumFunctionOnSet(m, In(T \ {b}))
    BY <1>1, <1>2, <2>2
  <2>4. SumFunctionOnSet(h, T) = h[b] + SumFunctionOnSet(h, T \ {b})
    BY <1>2, <1>4, <2>1, SumRemove
  <2>5. In(T) = Fib(b) \cup In(T \ {b}) /\ Fib(b) \cap In(T \ {b}) = {}
    BY <2>1 DEF Fiber, MovedInto
  <2>6. SumFunctionOnSet(m, Fib(b) \cup In(T \ {b})) =
          SumFunctionOnSet(m, Fib(b)) + SumFunctionOnSet(m, In(T \ {b}))
    <3>1. \A c \in Fib(b) \cup In(T \ {b}) : m[c] \in Int
      BY DEF Fiber, MovedInto
    <3>2. QED
      BY <1>3, <2>5, <3>1, SumUnion
  <2>7. SumFunctionOnSet(m, In(T)) = SumFunctionOnSet(m, Fib(b) \cup In(T \ {b}))
    BY <2>5, Zenon
  <2>8. QED
    BY <1>2, <2>1, <2>3, <2>4, <2>6, <2>7
<1>7. QED
  BY <1>5, <1>6

-----------------------------------------------------------------------------
(* MOVING FUNDS BETWEEN BUCKETS *)

\* A conversion over a finite set U of buckets takes m[c] out of each source
\* c of Src and puts it into bucket to[c].  Over any set S of buckets it
\* removes the parts of the sources in S and adds the parts of the sources
\* whose target is in S.
LEMMA SumMove ==
  ASSUME NEW U, IsFiniteSet(U), NEW L, \A b \in U : L[b] \in Int,
         NEW Src \in SUBSET U, NEW m, \A c \in Src : m[c] \in Int,
         NEW to, NEW L2,
         \A b \in U : L2[b] = L[b] - (IF b \in Src THEN m[b] ELSE 0)
                                   + SumFunctionOnSet(m, Fiber(Src, to, b)),
         NEW S \in SUBSET U
  PROVE  SumFunctionOnSet(L2, S) =
           SumFunctionOnSet(L, S) - SumFunctionOnSet(m, Src \cap S)
             + SumFunctionOnSet(m, MovedInto(Src, to, S))
<1> DEFINE outflow == [b \in U |-> IF b \in Src THEN m[b] ELSE 0]
           inflow == [b \in U |-> SumFunctionOnSet(m, Fiber(Src, to, b))]
<1>1. IsFiniteSet(S) /\ IsFiniteSet(Src) /\ IsFiniteSet(Src \cap S)
      /\ IsFiniteSet(MovedInto(Src, to, S))
      /\ \A b : IsFiniteSet(Fiber(Src, to, b)) /\ Fiber(Src, to, b) \subseteq Src
  BY FS_Subset DEF Fiber, MovedInto
<1>2. \A b \in S : inflow[b] \in Int
  <2> SUFFICES ASSUME NEW b \in S PROVE inflow[b] \in Int
    OBVIOUS
  <2>1. \A c \in Fiber(Src, to, b) : m[c] \in Int
    BY <1>1
  <2>2. QED
    BY <1>1, <2>1, SumInt
<1>3. SumFunctionOnSet(L2, S) =
        SumFunctionOnSet(L, S) - SumFunctionOnSet(outflow, S) + SumFunctionOnSet(inflow, S)
  <2>1. \A x \in S : L[x] \in Int /\ outflow[x] \in Int /\ inflow[x] \in Int
    BY <1>2
  <2>2. \A x \in S : L2[x] = L[x] - outflow[x] + inflow[x]
    OBVIOUS
  <2> HIDE DEF outflow, inflow
  <2>3. QED
    BY <1>1, <2>1, <2>2, SumLinear
<1>4. SumFunctionOnSet(outflow, S) = SumFunctionOnSet(m, Src \cap S)
  <2>1. (\A x \in S : outflow[x] \in Int) /\ \A x \in S \ (Src \cap S) : outflow[x] = 0
    OBVIOUS
  <2>2. \A x \in Src \cap S : outflow[x] = m[x]
    OBVIOUS
  <2> HIDE DEF outflow
  <2>3. SumFunctionOnSet(outflow, S) = SumFunctionOnSet(outflow, Src \cap S)
    BY <1>1, <2>1, SumZeroOutside
  <2>4. SumFunctionOnSet(outflow, Src \cap S) = SumFunctionOnSet(m, Src \cap S)
    BY <1>1, <2>2, SumCongruence
  <2>5. QED
    BY <2>3, <2>4
<1>5. SumFunctionOnSet(inflow, S) = SumFunctionOnSet(m, MovedInto(Src, to, S))
  <2>1. \A b \in S : inflow[b] = SumFunctionOnSet(m, Fiber(Src, to, b))
    OBVIOUS
  <2> HIDE DEF inflow
  <2>2. QED
    BY <1>1, <2>1, SumFibers
<1>6. /\ SumFunctionOnSet(L, S) \in Int /\ SumFunctionOnSet(m, Src \cap S) \in Int
      /\ SumFunctionOnSet(m, MovedInto(Src, to, S)) \in Int
  <2>1. MovedInto(Src, to, S) \subseteq Src
    BY DEF MovedInto
  <2>2. QED
    BY <1>1, <2>1, SumInt
<1> HIDE DEF outflow, inflow
<1>7. QED
  BY <1>3, <1>4, <1>5, <1>6

-----------------------------------------------------------------------------
(* COUNTING THE MEMBERS OF A FAMILY *)

\* The members of finitely many finite sets F[s], weighted by k each, are
\* at most the sum of the weighted sizes of the sets.
LEMMA UnionCard ==
  ASSUME NEW T, IsFiniteSet(T), NEW F, \A s \in T : IsFiniteSet(F[s]),
         NEW k \in Nat, NEW w, \A s \in T : w[s] = Cardinality(F[s]) * k
  PROVE  /\ IsFiniteSet(UNION {F[s] : s \in T})
         /\ Cardinality(UNION {F[s] : s \in T}) * k <= SumFunctionOnSet(w, T)
<1> DEFINE Un(R) == UNION {F[s] : s \in R}
           P(R) == IsFiniteSet(Un(R)) /\ Cardinality(Un(R)) * k <= SumFunctionOnSet(w, R)
           Bad == {R \in SUBSET T : ~P(R)}
<1> SUFFICES ASSUME Bad # {} PROVE FALSE
  OBVIOUS
<1>0. Bad \in SUBSET SUBSET T
  OBVIOUS
<1> HIDE DEF Bad
<1>1. PICK R \in Bad : \A V \in Bad : ~(V \subseteq R /\ V # R)
  BY <1>0, MinimalSubset
<1> USE DEF Bad
<1>2. R \subseteq T /\ IsFiniteSet(R) /\ ~P(R)
  BY FS_Subset
<1>3. \A s \in T : Cardinality(F[s]) \in Nat /\ w[s] \in Nat
  BY FS_CardinalityType
<1>4. CASE R = {}
  <2>1. Un(R) = {}
    BY <1>4
  <2>2. SumFunctionOnSet(w, R) = 0
    BY <1>4, SumEmpty
  <2>3. IsFiniteSet(Un(R)) /\ Cardinality(Un(R)) = 0
    BY <2>1, FS_EmptySet
  <2>4. QED
    BY <1>2, <2>2, <2>3
<1>5. CASE R # {}
  <2>1. PICK x \in R : TRUE
    BY <1>5
  <2>2. R \ {x} # R /\ R \ {x} \subseteq R /\ IsFiniteSet(R \ {x})
    BY <1>2, <2>1, FS_RemoveElement
  <2>3. P(R \ {x})
    BY <1>1, <1>2, <2>2
  <2>4. Un(R) = F[x] \cup Un(R \ {x})
    BY <2>1
  <2>5. IsFiniteSet(Un(R)) /\ Cardinality(Un(R)) <= Cardinality(F[x]) + Cardinality(Un(R \ {x}))
    <3> DEFINE A1 == F[x]
               A2 == Un(R \ {x})
    <3>1. IsFiniteSet(A1) /\ IsFiniteSet(A2)
      BY <1>2, <2>1, <2>3
    <3> HIDE DEF Un, A1, A2
    <3>2. IsFiniteSet(A1 \cup A2)
          /\ Cardinality(A1 \cup A2) = Cardinality(A1) + Cardinality(A2) - Cardinality(A1 \cap A2)
      BY <3>1, FS_Union
    <3>3. Cardinality(A1 \cap A2) \in Nat /\ Cardinality(A1) \in Nat /\ Cardinality(A2) \in Nat
      BY <3>1, FS_Intersection, FS_CardinalityType
    <3>4. QED
      BY <2>4, <3>2, <3>3 DEF A1, A2
  <2>6. SumFunctionOnSet(w, R) = w[x] + SumFunctionOnSet(w, R \ {x})
    BY <1>2, <1>3, <2>1, SumRemove
  <2>7. Cardinality(Un(R)) \in Nat /\ Cardinality(Un(R \ {x})) \in Nat
        /\ SumFunctionOnSet(w, R \ {x}) \in Nat
    BY <1>2, <1>3, <2>2, <2>3, <2>5, FS_CardinalityType, SumNat
  <2>8. Cardinality(Un(R)) * k <= w[x] + Cardinality(Un(R \ {x})) * k
    <3>1. w[x] = Cardinality(F[x]) * k /\ Cardinality(F[x]) \in Nat
      BY <1>2, <1>3, <2>1
    <3>2. \A a, b, c \in Nat : a <= b + c => a * k <= b * k + c * k
      OBVIOUS
    <3> HIDE DEF Un
    <3>3. QED
      BY <2>5, <2>7, <3>1, <3>2
  <2>9. w[x] \in Nat /\ Cardinality(Un(R)) * k \in Nat /\ Cardinality(Un(R \ {x})) * k \in Nat
    BY <1>2, <1>3, <2>1, <2>7
  <2> HIDE DEF Un
  <2>10. QED
    BY <1>2, <2>3, <2>5, <2>6, <2>7, <2>8, <2>9
<1>6. QED
  BY <1>4, <1>5

====
