------------------------------ MODULE SeqLemmas ------------------------------
(***************************************************************************)
(* What the list operations of the scheduler (append, pop from the front,  *)
(* extend) do to the elements of a list without duplicates; the first and  *)
(* the last of finitely many numbers; and induction over a finite range in *)
(* the form the provers can use, about sets in place of predicates.        *)
(***************************************************************************)
EXTENDS Naturals, Sequences, Functions, FiniteSets, FiniteSetTheorems, TLAPS

\* list.append adds one element and, if it is new, no duplicate.
LEMMA AppendFacts ==
    ASSUME NEW S, NEW s \in Seq(S), NEW e \in S
    PROVE  /\ Append(s, e) \in Seq(S)
           /\ Range(Append(s, e)) = Range(s) \cup {e}
           /\ IsInjective(s) /\ e \notin Range(s) => IsInjective(Append(s, e))
  <1> DEFINE t == Append(s, e)
  <1>1. /\ t \in Seq(S)
        /\ Len(t) = Len(s) + 1
        /\ \A i \in 1 .. Len(s) : t[i] = s[i]
        /\ t[Len(s) + 1] = e
        /\ DOMAIN t = 1 .. Len(s) + 1
        /\ DOMAIN s = 1 .. Len(s)
        /\ Len(s) \in Nat
    OBVIOUS
  <1> HIDE DEF t
  <1>2. Range(t) = Range(s) \cup {e}
    <2>1. \A i \in DOMAIN t : t[i] \in Range(s) \cup {e}
      BY <1>1 DEF Range
    <2>2. \A i \in DOMAIN s : s[i] \in Range(t)
      BY <1>1 DEF Range
    <2>3. e \in Range(t)
      BY <1>1 DEF Range
    <2> QED BY <2>1, <2>2, <2>3 DEF Range
  <1>3. ASSUME IsInjective(s), e \notin Range(s)
        PROVE  IsInjective(t)
    <2> SUFFICES ASSUME NEW i \in DOMAIN t, NEW j \in DOMAIN t, t[i] = t[j]
                 PROVE  i = j
      BY DEF IsInjective
    <2>1. \A k \in 1 .. Len(s) : s[k] # e
      BY <1>1, <1>3 DEF Range
    <2> QED BY <1>1, <1>3, <2>1 DEF IsInjective
  <1> QED BY <1>1, <1>2, <1>3 DEF t

\* Taking the first element leaves the others, and no other copy of it.
LEMMA TailFacts ==
    ASSUME NEW S, NEW s \in Seq(S), s # << >>
    PROVE  /\ Head(s) \in S
           /\ Head(s) \in Range(s)
           /\ Tail(s) \in Seq(S)
           /\ IsInjective(s) => /\ IsInjective(Tail(s))
                                /\ Range(Tail(s)) = Range(s) \ {Head(s)}
  <1> DEFINE t == Tail(s)
  <1>1. /\ t \in Seq(S)
        /\ Len(s) \in Nat \ {0}
        /\ Len(t) = Len(s) - 1
        /\ \A i \in 1 .. Len(s) - 1 : t[i] = s[i + 1]
        /\ DOMAIN t = 1 .. Len(s) - 1
        /\ DOMAIN s = 1 .. Len(s)
        /\ Head(s) = s[1]
        /\ s[1] \in S
    OBVIOUS
  <1> HIDE DEF t
  <1>2. Head(s) \in Range(s)
    BY <1>1 DEF Range
  <1>3. ASSUME IsInjective(s)
        PROVE  IsInjective(t) /\ Range(t) = Range(s) \ {Head(s)}
    <2>1. IsInjective(t)
      <3> SUFFICES ASSUME NEW i \in DOMAIN t, NEW j \in DOMAIN t, t[i] = t[j]
                   PROVE  i = j
        BY DEF IsInjective
      <3>1. i + 1 \in DOMAIN s /\ j + 1 \in DOMAIN s /\ s[i + 1] = s[j + 1]
        BY <1>1
      <3>2. i + 1 = j + 1
        BY <3>1, <1>3 DEF IsInjective
      <3> QED BY <3>2, <1>1
    <2>2. \A i \in DOMAIN t : t[i] \in Range(s) \ {Head(s)}
      <3> SUFFICES ASSUME NEW i \in DOMAIN t
                   PROVE  t[i] \in Range(s) \ {Head(s)}
        OBVIOUS
      <3>1. i + 1 \in DOMAIN s /\ 1 \in DOMAIN s /\ i + 1 # 1 /\ t[i] = s[i + 1]
        BY <1>1
      <3>2. s[i + 1] # s[1]
        BY <3>1, <1>3 DEF IsInjective
      <3> QED BY <3>1, <3>2, <1>1 DEF Range
    <2>3. \A j \in DOMAIN s : s[j] # Head(s) => s[j] \in Range(t)
      <3> SUFFICES ASSUME NEW j \in DOMAIN s, s[j] # Head(s)
                   PROVE  s[j] \in Range(t)
        OBVIOUS
      <3>1. j - 1 \in DOMAIN t /\ t[j - 1] = s[j]
        BY <1>1
      <3> QED BY <3>1 DEF Range
    <2> QED BY <2>1, <2>2, <2>3 DEF Range
  <1> QED BY <1>1, <1>2, <1>3 DEF t

\* Extending a list by a disjoint one.
LEMMA ConcatFacts ==
    ASSUME NEW S, NEW s \in Seq(S), NEW t \in Seq(S)
    PROVE  /\ s \o t \in Seq(S)
           /\ Range(s \o t) = Range(s) \cup Range(t)
           /\ IsInjective(s) /\ IsInjective(t) /\ Range(s) \cap Range(t) = {}
                 => IsInjective(s \o t)
  <1> DEFINE u == s \o t
  <1>1. /\ u \in Seq(S)
        /\ Len(s) \in Nat /\ Len(t) \in Nat
        /\ DOMAIN s = 1 .. Len(s) /\ DOMAIN t = 1 .. Len(t)
        /\ DOMAIN u = 1 .. Len(s) + Len(t)
        /\ \A i \in 1 .. Len(s) : u[i] = s[i]
        /\ \A i \in Len(s) + 1 .. Len(s) + Len(t) : u[i] = t[i - Len(s)]
    OBVIOUS
  <1> HIDE DEF u
  <1>2. Range(u) = Range(s) \cup Range(t)
    <2>1. \A i \in DOMAIN u : u[i] \in Range(s) \cup Range(t)
      <3> SUFFICES ASSUME NEW i \in DOMAIN u PROVE u[i] \in Range(s) \cup Range(t)
        OBVIOUS
      <3>1. CASE i <= Len(s)
        BY <1>1, <3>1 DEF Range
      <3>2. CASE i > Len(s)
        <4>1. i - Len(s) \in DOMAIN t /\ u[i] = t[i - Len(s)]
          BY <1>1, <3>2
        <4> QED BY <4>1 DEF Range
      <3> QED BY <3>1, <3>2, <1>1
    <2>2. \A i \in DOMAIN s : s[i] \in Range(u)
      BY <1>1 DEF Range
    <2>3. \A i \in DOMAIN t : t[i] \in Range(u)
      <3> SUFFICES ASSUME NEW i \in DOMAIN t PROVE t[i] \in Range(u)
        OBVIOUS
      <3>1. i + Len(s) \in DOMAIN u /\ u[i + Len(s)] = t[i]
        BY <1>1
      <3> QED BY <3>1 DEF Range
    <2> QED BY <2>1, <2>2, <2>3 DEF Range
  <1>3. ASSUME IsInjective(s), IsInjective(t), Range(s) \cap Range(t) = {}
        PROVE  IsInjective(u)
    <2> SUFFICES ASSUME NEW i \in DOMAIN u, NEW j \in DOMAIN u, u[i] = u[j]
                 PROVE  i = j
      BY DEF IsInjective
    <2>1. \A k \in DOMAIN u : \/ k \in DOMAIN s /\ u[k] = s[k] /\ u[k] \in Range(s)
                              \/ /\ k - Len(s) \in DOMAIN t
                                 /\ u[k] = t[k - Len(s)] /\ u[k] \in Range(t)
      <3> SUFFICES ASSUME NEW k \in DOMAIN u
                   PROVE  \/ k \in DOMAIN s /\ u[k] = s[k] /\ u[k] \in Range(s)
                          \/ /\ k - Len(s) \in DOMAIN t
                             /\ u[k] = t[k - Len(s)] /\ u[k] \in Range(t)
        OBVIOUS
      <3>1. CASE k <= Len(s)
        BY <1>1, <3>1 DEF Range
      <3>2. CASE k > Len(s)
        <4>1. k - Len(s) \in DOMAIN t /\ u[k] = t[k - Len(s)]
          BY <1>1, <3>2
        <4> QED BY <4>1 DEF Range
      <3> QED BY <3>1, <3>2, <1>1
    <2>2. CASE i \in DOMAIN s /\ j \in DOMAIN s
      BY <2>2, <1>1, <1>3 DEF IsInjective
    <2>3. CASE i - Len(s) \in DOMAIN t /\ j - Len(s) \in DOMAIN t
      <3>1. t[i - Len(s)] = t[j - Len(s)]
        BY <2>3, <1>1
      <3>2. i - Len(s) = j - Len(s)
        BY <2>3, <3>1, <1>3 DEF IsInjective
      <3> QED BY <3>2, <1>1
    <2> QED BY <2>1, <2>2, <2>3, <1>3
  <1> QED BY <1>1, <1>2, <1>3 DEF u

\* A finite set of positions has a first one.  Subsets of it are well founded by
\* inclusion, so one of the sets below(x) is minimal: that of the first.
LEMMA FirstOf ==
    ASSUME NEW T \in SUBSET Nat, T # {}, IsFiniteSet(T)
    PROVE  \E x \in T : \A y \in T : x <= y
  <1> DEFINE below(x) == { y \in T : y < x }
             B == { below(x) : x \in T }
             R == StrictSubsetOrdering(T)
             F == FiniteSubsetsOf(T)
  <1>1. IsWellFoundedOn(R, F)
    BY FS_StrictSubsetOrderingWellFounded
  <1>2. B \subseteq F /\ B # {}
    <2>1. \A x \in T : IsFiniteSet(below(x)) /\ below(x) \in SUBSET T
      <3> TAKE x \in T
      <3>1. below(x) \subseteq T
        OBVIOUS
      <3> QED BY <3>1, FS_Subset
    <2> QED BY <2>1 DEF FiniteSubsetsOf
  <1>3. \A X, Y \in B : <<X, Y>> \in R <=> X \subseteq Y /\ X # Y
    BY DEF StrictSubsetOrdering
  <1> HIDE DEF R, F, B
  <1>4. PICK X \in B : \A Y \in B : ~(<<Y, X>> \in R)
    BY <1>1, <1>2, WFMin
  <1>5. PICK x \in T : X = below(x)
    BY DEF B
  <1>6. ASSUME NEW y \in T, y < x PROVE FALSE
    <2>1. below(y) \in B
      BY DEF B
    <2>2. y \in X /\ y \notin below(y)
      BY <1>5, <1>6
    <2>3. \A z \in T : z < y => z < x
      <3>1. \A z \in T : z \in Nat
        OBVIOUS
      <3> QED BY <3>1, <1>6
    <2>4. below(y) \subseteq X
      BY <1>5, <2>3
    <2> QED BY <2>1, <2>2, <2>4, <1>3, <1>4
  <1> QED BY <1>6

\* And a last one, by the sets above(x).
LEMMA LastOf ==
    ASSUME NEW T \in SUBSET Nat, T # {}, IsFiniteSet(T)
    PROVE  \E x \in T : \A y \in T : y <= x
  <1> DEFINE above(x) == { y \in T : x < y }
             B == { above(x) : x \in T }
             R == StrictSubsetOrdering(T)
             F == FiniteSubsetsOf(T)
  <1>1. IsWellFoundedOn(R, F)
    BY FS_StrictSubsetOrderingWellFounded
  <1>2. B \subseteq F /\ B # {}
    <2>1. \A x \in T : IsFiniteSet(above(x)) /\ above(x) \in SUBSET T
      <3> TAKE x \in T
      <3>1. above(x) \subseteq T
        OBVIOUS
      <3> QED BY <3>1, FS_Subset
    <2> QED BY <2>1 DEF FiniteSubsetsOf
  <1>3. \A X, Y \in B : <<X, Y>> \in R <=> X \subseteq Y /\ X # Y
    BY DEF StrictSubsetOrdering
  <1> HIDE DEF R, F, B
  <1>4. PICK X \in B : \A Y \in B : ~(<<Y, X>> \in R)
    BY <1>1, <1>2, WFMin
  <1>5. PICK x \in T : X = above(x)
    BY DEF B
  <1>6. ASSUME NEW y \in T, x < y PROVE FALSE
    <2>1. above(y) \in B
      BY DEF B
    <2>2. y \in X /\ y \notin above(y)
      BY <1>5, <1>6
    <2>3. \A z \in T : y < z => x < z
      <3>1. \A z \in T : z \in Nat
        OBVIOUS
      <3> QED BY <3>1, <1>6
    <2>4. above(y) \subseteq X
      BY <1>5, <2>3
    <2> QED BY <2>1, <2>2, <2>4, <1>3, <1>4
  <1> QED BY <1>6

\* A list without duplicates is as long as it has elements.
LEMMA LenOfBijection ==
    ASSUME NEW S, NEW s \in Seq(S), IsInjective(s), Range(s) = S
    PROVE  Len(s) = Cardinality(S)
  <1>1. Len(s) \in Nat /\ s \in [1 .. Len(s) -> S]
    OBVIOUS
  <1>2. s \in Bijection(1 .. Len(s), S)
    BY <1>1 DEF Bijection, Injection, Surjection, IsInjective, Range
  <1>3. ExistsBijection(1 .. Len(s), S)
    BY <1>2 DEF ExistsBijection
  <1> QED BY <1>1, <1>3, FS_CountingElements

\* Induction up to N, on the set H of the numbers for which a thing holds: the
\* first number outside H would have the one before it in H.
LEMMA UpTo ==
    ASSUME NEW N \in Nat, NEW H, 0 \in H, \A k \in 1 .. N : k - 1 \in H => k \in H
    PROVE  0 .. N \subseteq H
  <1> DEFINE T == (0 .. N) \ H
  <1> SUFFICES ASSUME T # {} PROVE FALSE
    OBVIOUS
  <1>1. T \in SUBSET Nat /\ \A x \in T : x <= N
    OBVIOUS
  <1>2. IsFiniteSet(T)
    BY <1>1, FS_BoundedSetOfNaturals
  <1>3. PICK x \in T : \A y \in T : x <= y
    BY <1>1, <1>2, FirstOf
  <1>4. x \in 1 .. N /\ x - 1 \in 0 .. N /\ ~(x <= x - 1)
    OBVIOUS
  <1>5. x - 1 \in H
    BY <1>3, <1>4
  <1> QED BY <1>4, <1>5

\* What a step makes of a when it is repeated N times.
Iterations(N, D, a, step) ==
    { f \in [0 .. N -> D] : f[0] = a /\ \A k \in 1 .. N : f[k] = step[f[k - 1]] }

\* It can be repeated.
LEMMA Iterate ==
    ASSUME NEW N \in Nat, NEW D, NEW a \in D, NEW step \in [D -> D]
    PROVE  Iterations(N, D, a, step) # {}
  <1> DEFINE Good(m, f) == f[0] = a /\ \A k \in 1 .. m : f[k] = step[f[k - 1]]
             H == { m \in 0 .. N : \E f \in [0 .. m -> D] : Good(m, f) }
  <1>1. 0 \in H
    <2> DEFINE f == [k \in 0 .. 0 |-> a]
    <2>1. f \in [0 .. 0 -> D] /\ Good(0, f)
      OBVIOUS
    <2>2. 0 \in 0 .. N
      OBVIOUS
    <2> HIDE DEF f, Good
    <2> QED BY <2>1, <2>2
  <1>2. ASSUME NEW m \in 1 .. N, m - 1 \in H PROVE m \in H
    <2>1. PICK f \in [0 .. m - 1 -> D] : Good(m - 1, f)
      BY <1>2
    <2> DEFINE h == [k \in 0 .. m |-> IF k = m THEN step[f[m - 1]] ELSE f[k]]
    <2>2. m - 1 \in 0 .. m - 1 /\ \A k \in 0 .. m : k # m => k \in 0 .. m - 1
      OBVIOUS
    <2>3. h \in [0 .. m -> D]
      BY <2>2
    <2>4. h[0] = a
      BY <2>1
    <2>5. ASSUME NEW k \in 1 .. m PROVE h[k] = step[h[k - 1]]
      <3>1. CASE k = m
        BY <3>1
      <3>2. CASE k # m
        <4>1. k \in 1 .. m - 1 /\ k \in 0 .. m /\ k - 1 \in 0 .. m /\ k - 1 # m
          BY <3>2
        <4> QED BY <2>1, <3>2, <4>1
      <3> QED BY <3>1, <3>2
    <2>6. Good(m, h)
      BY <2>4, <2>5
    <2> HIDE DEF h, Good
    <2> QED BY <2>3, <2>6
  <1> HIDE DEF H
  <1>3. 0 .. N \subseteq H
    BY <1>1, <1>2, UpTo
  <1>4. N \in H
    BY <1>3
  <1> QED BY <1>4 DEF H, Iterations

\* A function on a finite set takes finitely many values.
LEMMA FiniteRange ==
    ASSUME NEW f, IsFiniteSet(DOMAIN f)
    PROVE  IsFiniteSet(Range(f))
  <1> DEFINE h == [x \in DOMAIN f |-> f[x]]
  <1>1. h \in Surjection(DOMAIN f, Range(f))
    BY DEF Surjection, Range
  <1> QED BY <1>1, FS_Surjection

\* A list made of another, entry by entry, is as long.
LEMMA MapFacts ==
    ASSUME NEW s, s \in Seq(Range(s)), NEW f, f = [k \in DOMAIN s |-> f[k]]
    PROVE  /\ Len(s) \in Nat /\ DOMAIN s = 1 .. Len(s)
           /\ f \in Seq(Range(f)) /\ Len(f) = Len(s) /\ DOMAIN f = 1 .. Len(s)
  <1>1. Len(s) \in Nat /\ DOMAIN s = 1 .. Len(s)
    OBVIOUS
  <1>2. DOMAIN f = 1 .. Len(s)
    BY <1>1
  <1>3. f \in [1 .. Len(s) -> Range(f)]
    BY <1>2 DEF Range
  <1>4. f \in Seq(Range(f))
    BY <1>1, <1>3
  <1>5. Len(f) = Len(s)
    BY <1>1, <1>2, <1>4
  <1> QED BY <1>1, <1>2, <1>4, <1>5

LEMMA FunctionIsSeq ==
    ASSUME NEW n \in Nat, NEW S, NEW f \in [1 .. n -> S]
    PROVE  f \in Seq(S) /\ Len(f) = n /\ DOMAIN f = 1 .. n
  OBVIOUS

=============================================================================
