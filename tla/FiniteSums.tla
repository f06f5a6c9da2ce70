------------------------------ MODULE FiniteSums ------------------------------
(***************************************************************************)
(* Facts about SumFunctionOnSet, the sum of an integer function over a     *)
(* finite set of indices.  The library defines it by a fold that removes   *)
(* one chosen element at a time; what the wallet's proofs need is that the *)
(* order does not matter: adding an index adds its value.                  *)
(*                                                                         *)
(* Both inductions are on the strict subset ordering of a finite set, in   *)
(* the form of a minimal counterexample.                                   *)
(***************************************************************************)
EXTENDS Integers, Functions, FiniteSets, FiniteSetTheorems, WellFoundedInduction, TLAPS

\* g assigns to every subset of S the sum of f over it.
Additive(g, f, S) ==
  /\ g \in [SUBSET S -> Int]
  /\ g[{}] = 0
  /\ \A T \in SUBSET S : \A x \in S \ T : g[T \cup {x}] = g[T] + f[x]

\* An additive function exists: extend one for S \ {x} by the value at x.
LEMMA AdditiveExists ==
  ASSUME NEW S, IsFiniteSet(S), NEW f, \A x \in S : f[x] \in Int
  PROVE  \E g : Additive(g, f, S)
<1> DEFINE Bad == {T \in FiniteSubsetsOf(S) : ~ \E g : Additive(g, f, T)}
<1>1. SUFFICES ASSUME Bad # {} PROVE FALSE
  BY DEF FiniteSubsetsOf
<1>2. PICK T \in Bad : \A U \in Bad : ~ (<<U, T>> \in StrictSubsetOrdering(S))
  <2> HIDE DEF Bad
  <2>1. Bad \subseteq FiniteSubsetsOf(S)
    BY DEF Bad
  <2> QED BY <1>1, <2>1, FS_StrictSubsetOrderingWellFounded, WFMin
<1>3. T # {}
  <2>1. SUFFICES ASSUME T = {} PROVE FALSE
    OBVIOUS
  <2>2. Additive([U \in SUBSET T |-> 0], f, T)
    BY <2>1 DEF Additive
  <2> QED BY <2>2
<1>4. PICK x \in T : TRUE
  BY <1>3
<1> DEFINE R == T \ {x}
<1>5. R \in FiniteSubsetsOf(S) /\ <<R, T>> \in StrictSubsetOrdering(S)
  BY <1>4, FS_RemoveElement DEF FiniteSubsetsOf, StrictSubsetOrdering
<1>6. PICK h : Additive(h, f, R)
  BY <1>5, <1>2
<1> DEFINE g == [U \in SUBSET T |-> IF x \in U THEN h[U \ {x}] + f[x] ELSE h[U]]
<1>7. x \in S /\ f[x] \in Int /\ T \subseteq S
  BY <1>4 DEF FiniteSubsetsOf
<1>8. Additive(g, f, T)
  <2>1. g \in [SUBSET T -> Int]
    BY <1>6, <1>7 DEF Additive
  <2>2. g[{}] = 0
    BY <1>6 DEF Additive
  <2>3. ASSUME NEW U \in SUBSET T, NEW y \in T \ U
        PROVE  g[U \cup {y}] = g[U] + f[y]
    <3>0. f[y] \in Int
      BY <1>7
    <3>1. CASE y = x
      <4>1. (U \cup {y}) \ {x} = U /\ U \in SUBSET R /\ x \notin U
        BY <3>1
      <4> QED BY <4>1, <3>1
    <3>2. CASE y # x /\ x \in U
      <4>1. /\ (U \cup {y}) \ {x} = (U \ {x}) \cup {y}
            /\ U \ {x} \in SUBSET R
            /\ y \in R \ (U \ {x})
            /\ x \in U \cup {y}
        BY <3>2
      <4>2. h[(U \ {x}) \cup {y}] = h[U \ {x}] + f[y] /\ h[U \ {x}] \in Int
        BY <4>1, <1>6 DEF Additive
      <4>3. g[U \cup {y}] = h[(U \ {x}) \cup {y}] + f[x] /\ g[U] = h[U \ {x}] + f[x]
        BY <4>1, <3>2
      <4> HIDE DEF g, R
      <4> QED BY <4>2, <4>3, <1>7, <3>0
    <3>3. CASE y # x /\ x \notin U
      <4>1. U \in SUBSET R /\ y \in R \ U /\ x \notin U \cup {y}
        BY <3>3
      <4>2. h[U \cup {y}] = h[U] + f[y]
        BY <4>1, <1>6 DEF Additive
      <4> QED BY <4>1, <4>2
    <3> QED BY <3>1, <3>2, <3>3
  <2> QED BY <2>1, <2>2, <2>3 DEF Additive
<1> QED BY <1>8

\* The fold computes it: the additive function satisfies the fold's recursion,
\* and the two cannot differ on a smallest set.
LEMMA SumIsAdditive ==
  ASSUME NEW S, IsFiniteSet(S), NEW f, \A x \in S : f[x] \in Int, NEW g, Additive(g, f, S)
  PROVE  SumFunctionOnSet(f, S) = g[S]
<1> DEFINE Rec(h) == h = [s \in SUBSET S |->
                 IF s = {} THEN 0
                 ELSE f[CHOOSE y \in s : TRUE] + h[s \ {CHOOSE y \in s : TRUE}]]
<1>1. SumFunctionOnSet(f, S) = (CHOOSE h : Rec(h))[S]
  BY DEF SumFunctionOnSet, FoldFunctionOnSet, MapThenFoldSet
<1>2. Rec(g)
  <2>1. ASSUME NEW s \in SUBSET S
        PROVE  g[s] = IF s = {} THEN 0
                      ELSE f[CHOOSE y \in s : TRUE] + g[s \ {CHOOSE y \in s : TRUE}]
    <3>1. CASE s = {}
      BY <3>1 DEF Additive
    <3>2. CASE s # {}
      <4> DEFINE c == CHOOSE y \in s : TRUE
      <4>1. c \in s
        BY <3>2
      <4> HIDE DEF c
      <4>2. /\ s \ {c} \in SUBSET S
            /\ c \in S \ (s \ {c})
            /\ (s \ {c}) \cup {c} = s
        BY <4>1
      <4>3. g[s] = g[s \ {c}] + f[c] /\ g[s \ {c}] \in Int /\ f[c] \in Int
        BY <4>2 DEF Additive
      <4>4. g[s] = f[c] + g[s \ {c}]
        BY <4>3
      <4> QED BY <4>4, <3>2 DEF c
    <3> QED BY <3>1, <3>2
  <2>2. g = [s \in SUBSET S |-> g[s]]
    BY DEF Additive
  <2> QED BY <2>1, <2>2
<1> DEFINE h == CHOOSE k : Rec(k)
<1>3. Rec(h)
  BY <1>2
<1> HIDE DEF h
<1> DEFINE Bad == {T \in FiniteSubsetsOf(S) : h[T] # g[T]}
<1>4. ASSUME Bad # {} PROVE FALSE
  <2>1. PICK T \in Bad : \A U \in Bad : ~ (<<U, T>> \in StrictSubsetOrdering(S))
    <3>1. Bad \subseteq FiniteSubsetsOf(S)
      OBVIOUS
    <3> HIDE DEF Bad
    <3> QED BY <1>4, <3>1, FS_StrictSubsetOrderingWellFounded, WFMin
  <2>2. T \in SUBSET S /\ T \in FiniteSubsetsOf(S) /\ h[T] # g[T]
    BY DEF FiniteSubsetsOf
  <2>3. T # {}
    BY <2>2, <1>3, <1>2
  <2> DEFINE c == CHOOSE y \in T : TRUE
  <2>4. c \in T
    BY <2>3
  <2>5. h[T] = f[c] + h[T \ {c}] /\ g[T] = f[c] + g[T \ {c}]
    BY <1>2, <1>3, <2>2, <2>3
  <2> HIDE DEF c
  <2>6. T \ {c} \in FiniteSubsetsOf(S) /\ <<T \ {c}, T>> \in StrictSubsetOrdering(S)
    BY <2>2, <2>4, FS_RemoveElement DEF FiniteSubsetsOf, StrictSubsetOrdering
  <2>7. h[T \ {c}] = g[T \ {c}]
    BY <2>1, <2>6
  <2> QED BY <2>2, <2>5, <2>7
<1>5. h[S] = g[S]
  BY <1>4 DEF FiniteSubsetsOf
<1> QED BY <1>1, <1>5 DEF h

\* What the proofs about the wallet use: the empty sum is zero, a sum is an
\* integer, and one more index adds its value.
THEOREM SumProperties ==
  ASSUME NEW S, IsFiniteSet(S), NEW f, \A x \in S : f[x] \in Int
  PROVE  /\ SumFunctionOnSet(f, {}) = 0
         /\ \A T \in SUBSET S : SumFunctionOnSet(f, T) \in Int
         /\ \A T \in SUBSET S : \A x \in S \ T :
              SumFunctionOnSet(f, T \cup {x}) = SumFunctionOnSet(f, T) + f[x]
<1>1. PICK g : Additive(g, f, S)
  BY AdditiveExists
<1>2. ASSUME NEW T \in SUBSET S
      PROVE  SumFunctionOnSet(f, T) = g[T]
  <2> DEFINE gT == [U \in SUBSET T |-> g[U]]
  <2>1. Additive(gT, f, T)
    BY <1>1 DEF Additive
  <2>2. IsFiniteSet(T)
    BY FS_Subset
  <2> HIDE DEF gT
  <2>3. SumFunctionOnSet(f, T) = gT[T]
    BY <2>1, <2>2, SumIsAdditive
  <2> QED BY <2>3 DEF gT
<1>3. \A T \in SUBSET S : \A x \in S \ T : T \cup {x} \in SUBSET S
  OBVIOUS
<1> QED BY <1>1, <1>2, <1>3 DEF Additive

\* A sum of naturals is natural.
THEOREM SumOfNaturals ==
  ASSUME NEW S, IsFiniteSet(S), NEW f, \A x \in S : f[x] \in Nat
  PROVE  \A T \in SUBSET S : SumFunctionOnSet(f, T) \in Nat
<1> DEFINE Bad == {T \in FiniteSubsetsOf(S) : SumFunctionOnSet(f, T) \notin Nat}
<1>0. /\ SumFunctionOnSet(f, {}) = 0
      /\ \A U \in SUBSET S : \A y \in S \ U :
           SumFunctionOnSet(f, U \cup {y}) = SumFunctionOnSet(f, U) + f[y]
  <2>1. \A y \in S : f[y] \in Int
    OBVIOUS
  <2> QED BY <2>1, SumProperties
<1>1. \A T \in SUBSET S : T \in FiniteSubsetsOf(S)
  BY FS_Subset DEF FiniteSubsetsOf
<1>2. SUFFICES ASSUME Bad # {} PROVE FALSE
  BY <1>1
<1>3. PICK T \in Bad : \A U \in Bad : ~ (<<U, T>> \in StrictSubsetOrdering(S))
  <2> HIDE DEF Bad
  <2>1. Bad \subseteq FiniteSubsetsOf(S)
    BY DEF Bad
  <2> QED BY <1>2, <2>1, FS_StrictSubsetOrderingWellFounded, WFMin
<1>4. T \subseteq S /\ SumFunctionOnSet(f, {}) = 0
  BY <1>0 DEF FiniteSubsetsOf
<1>5. PICK x \in T : TRUE
  BY <1>4
<1>6. /\ T \ {x} \in FiniteSubsetsOf(S)
      /\ <<T \ {x}, T>> \in StrictSubsetOrdering(S)
  BY <1>5, FS_RemoveElement DEF FiniteSubsetsOf, StrictSubsetOrdering
<1>7. SumFunctionOnSet(f, T \ {x}) \in Nat
  BY <1>3, <1>6
<1>8. SumFunctionOnSet(f, T) = SumFunctionOnSet(f, T \ {x}) + f[x]
  <2>1. (T \ {x}) \cup {x} = T /\ T \ {x} \in SUBSET S /\ x \in S \ (T \ {x})
    BY <1>4, <1>5
  <2> QED BY <1>0, <2>1
<1>9. f[x] \in Nat
  BY <1>4, <1>5
<1> QED BY <1>3, <1>7, <1>8, <1>9

\* Of naturals, a larger set has no smaller sum.
THEOREM SumOfSubset ==
  ASSUME NEW S, IsFiniteSet(S), NEW f, \A x \in S : f[x] \in Nat,
         NEW T \in SUBSET S, NEW W \in SUBSET S, T \subseteq W
  PROVE  SumFunctionOnSet(f, T) <= SumFunctionOnSet(f, W)
<1> DEFINE Bad == {U \in FiniteSubsetsOf(S) :
                     T \subseteq U /\ ~(SumFunctionOnSet(f, T) <= SumFunctionOnSet(f, U))}
<1>0. /\ \A U \in SUBSET S : SumFunctionOnSet(f, U) \in Nat
      /\ \A U \in SUBSET S : \A y \in S \ U :
           SumFunctionOnSet(f, U \cup {y}) = SumFunctionOnSet(f, U) + f[y]
  <2>1. \A y \in S : f[y] \in Int
    OBVIOUS
  <2> QED BY <2>1, SumProperties, SumOfNaturals
<1>1. \A U \in SUBSET S : U \in FiniteSubsetsOf(S)
  BY FS_Subset DEF FiniteSubsetsOf
<1>2. SUFFICES ASSUME Bad # {} PROVE FALSE
  BY <1>1
<1>3. PICK U \in Bad : \A V \in Bad : ~ (<<V, U>> \in StrictSubsetOrdering(S))
  <2> HIDE DEF Bad
  <2>1. Bad \subseteq FiniteSubsetsOf(S)
    BY DEF Bad
  <2> QED BY <1>2, <2>1, FS_StrictSubsetOrderingWellFounded, WFMin
<1>4. U \in SUBSET S /\ T \subseteq U
  BY DEF FiniteSubsetsOf
<1>5. PICK x \in U \ T : TRUE
  <2>1. T # U
    <3>1. SumFunctionOnSet(f, T) <= SumFunctionOnSet(f, T)
      BY <1>0
    <3> QED BY <3>1
  <2> QED BY <1>4, <2>1
<1>6. /\ U \ {x} \in FiniteSubsetsOf(S)
      /\ <<U \ {x}, U>> \in StrictSubsetOrdering(S)
      /\ T \subseteq U \ {x}
  BY <1>4, <1>5, FS_RemoveElement DEF FiniteSubsetsOf, StrictSubsetOrdering
<1>7. SumFunctionOnSet(f, T) <= SumFunctionOnSet(f, U \ {x})
  BY <1>3, <1>6
<1>8. SumFunctionOnSet(f, U) = SumFunctionOnSet(f, U \ {x}) + f[x]
  <2>1. (U \ {x}) \cup {x} = U /\ U \ {x} \in SUBSET S /\ x \in S \ (U \ {x})
    BY <1>4, <1>5
  <2> QED BY <1>0, <2>1
<1>9. /\ f[x] \in Nat /\ SumFunctionOnSet(f, T) \in Nat /\ SumFunctionOnSet(f, U \ {x}) \in Nat
      /\ U \ {x} \in SUBSET S
  BY <1>0, <1>4, <1>5
<1>10. SumFunctionOnSet(f, T) <= SumFunctionOnSet(f, U)
  BY <1>7, <1>8, <1>9
<1> QED BY <1>3, <1>10

\* Of larger numbers, the sum is no smaller.
THEOREM SumOfLarger ==
  ASSUME NEW S, IsFiniteSet(S), NEW f, NEW g,
         \A x \in S : f[x] \in Nat /\ g[x] \in Nat /\ f[x] <= g[x]
  PROVE  \A T \in SUBSET S : SumFunctionOnSet(f, T) <= SumFunctionOnSet(g, T)
<1> DEFINE Bad == {T \in FiniteSubsetsOf(S) : ~(SumFunctionOnSet(f, T) <= SumFunctionOnSet(g, T))}
<1>0. /\ SumFunctionOnSet(f, {}) = 0 /\ SumFunctionOnSet(g, {}) = 0
      /\ \A U \in SUBSET S : SumFunctionOnSet(f, U) \in Nat /\ SumFunctionOnSet(g, U) \in Nat
      /\ \A U \in SUBSET S : \A y \in S \ U :
           /\ SumFunctionOnSet(f, U \cup {y}) = SumFunctionOnSet(f, U) + f[y]
           /\ SumFunctionOnSet(g, U \cup {y}) = SumFunctionOnSet(g, U) + g[y]
  <2>1. \A y \in S : f[y] \in Int /\ g[y] \in Int
    OBVIOUS
  <2>2. \A U \in SUBSET S : SumFunctionOnSet(f, U) \in Nat /\ SumFunctionOnSet(g, U) \in Nat
    BY SumOfNaturals
  <2>3. /\ SumFunctionOnSet(f, {}) = 0
        /\ \A U \in SUBSET S : \A y \in S \ U :
             SumFunctionOnSet(f, U \cup {y}) = SumFunctionOnSet(f, U) + f[y]
    BY <2>1, SumProperties
  <2>4. /\ SumFunctionOnSet(g, {}) = 0
        /\ \A U \in SUBSET S : \A y \in S \ U :
             SumFunctionOnSet(g, U \cup {y}) = SumFunctionOnSet(g, U) + g[y]
    BY <2>1, SumProperties
  <2> QED BY <2>2, <2>3, <2>4
<1>1. \A U \in SUBSET S : U \in FiniteSubsetsOf(S)
  BY FS_Subset DEF FiniteSubsetsOf
<1>2. SUFFICES ASSUME Bad # {} PROVE FALSE
  BY <1>1
<1>3. PICK U \in Bad : \A V \in Bad : ~ (<<V, U>> \in StrictSubsetOrdering(S))
  <2> HIDE DEF Bad
  <2>1. Bad \subseteq FiniteSubsetsOf(S)
    BY DEF Bad
  <2> QED BY <1>2, <2>1, FS_StrictSubsetOrderingWellFounded, WFMin
<1>4. U \in SUBSET S
  BY DEF FiniteSubsetsOf
<1>5. PICK x \in U : TRUE
  BY <1>0, <1>3
<1>6. U \ {x} \in FiniteSubsetsOf(S) /\ <<U \ {x}, U>> \in StrictSubsetOrdering(S)
  BY <1>4, <1>5, FS_RemoveElement DEF FiniteSubsetsOf, StrictSubsetOrdering
<1>7. SumFunctionOnSet(f, U \ {x}) <= SumFunctionOnSet(g, U \ {x})
  BY <1>3, <1>6
<1>8. /\ SumFunctionOnSet(f, U) = SumFunctionOnSet(f, U \ {x}) + f[x]
      /\ SumFunctionOnSet(g, U) = SumFunctionOnSet(g, U \ {x}) + g[x]
  <2>1. (U \ {x}) \cup {x} = U /\ U \ {x} \in SUBSET S /\ x \in S \ (U \ {x})
    BY <1>4, <1>5
  <2> QED BY <1>0, <2>1
<1>9. /\ f[x] \in Nat /\ g[x] \in Nat /\ f[x] <= g[x]
      /\ SumFunctionOnSet(f, U \ {x}) \in Nat /\ SumFunctionOnSet(g, U \ {x}) \in Nat
  BY <1>0, <1>4, <1>5
<1>10. SumFunctionOnSet(f, U) <= SumFunctionOnSet(g, U)
  BY <1>7, <1>8, <1>9
<1> QED BY <1>3, <1>10
===============================================================================
