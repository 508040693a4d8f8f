----------------------------- MODULE DataInduction -----------------------------
(***************************************************************************)
(* Induction and recursion over data, in the form the provers can use.     *)
(*                                                                         *)
(* The library states induction for a predicate, which no backend here     *)
(* instantiates.  Stated for a set (the numbers or the subsets for which   *)
(* the predicate holds) it is first-order, and follows from WFMin.  So     *)
(* does the existence of a function that is defined by recursion: with it, *)
(* f[x \in S] == e, which is a CHOOSE, has the value e says.               *)
(***************************************************************************)
EXTENDS Integers, Sequences, FiniteSets, FiniteSetTheorems, WellFoundedInduction, TLAPS

\* A set that has 0 and, with a number, the next one, has every number.
LEMMA NatSetInduction ==
    ASSUME NEW S, 0 \in S, \A n \in Nat : n \in S => n + 1 \in S
    PROVE  Nat \subseteq S
<1> DEFINE R == OpToRel(<, Nat)
           Rest == Nat \ S
<1>1. IsWellFoundedOn(R, Nat)
    BY NatLessThanWellFounded
<1>2. \A x, y \in Nat : y < x => <<y, x>> \in R
    BY DEF OpToRel
<1> HIDE DEF R
<1> SUFFICES ASSUME Rest # {} PROVE FALSE
    OBVIOUS
<1>3. \E x \in Rest : \A y \in Rest : ~(<<y, x>> \in R)
    <2>1. Rest \subseteq Nat
        OBVIOUS
    <2> HIDE DEF Rest
    <2> QED BY <1>1, <2>1, WFMin
<1>4. PICK x \in Rest : \A y \in Rest : ~(<<y, x>> \in R)
    BY <1>3
<1>5. x \in Nat /\ x - 1 \in Nat /\ x - 1 < x /\ (x - 1) + 1 = x
    OBVIOUS
<1>6. x - 1 \in Rest
    BY <1>5
<1> QED BY <1>2, <1>4, <1>5, <1>6

\* A set that has {} and, with a subset of a finite set, each that has one
\* member more, has the whole.
LEMMA FiniteSetInduction ==
    ASSUME NEW S, IsFiniteSet(S), NEW F, {} \in F,
           \A T \in SUBSET S : \A x \in S \ T : T \in F => T \cup {x} \in F
    PROVE  S \in F
<1> DEFINE Good == {n \in Nat : \A T \in SUBSET S : Cardinality(T) = n => T \in F}
<1>1. 0 \in Good
    BY FS_Subset, FS_EmptySet
<1>2. ASSUME NEW n \in Nat, n \in Good PROVE n + 1 \in Good
    <2> SUFFICES ASSUME NEW T \in SUBSET S, Cardinality(T) = n + 1
                 PROVE  T \in F
        OBVIOUS
    <2>1. IsFiniteSet(T)
        BY FS_Subset
    <2>2. PICK x \in T : TRUE
        BY <2>1, FS_EmptySet
    <2>3. Cardinality(T \ {x}) = n
        <3>1. Cardinality(T \ {x}) = Cardinality(T) - 1
            BY <2>1, <2>2, FS_RemoveElement
        <3>2. n + 1 - 1 = n
            OBVIOUS
        <3> QED BY <3>1, <3>2
    <2>4. T \ {x} \in F /\ T \ {x} \in SUBSET S /\ x \in S \ (T \ {x})
        BY <1>2, <2>3
    <2>5. (T \ {x}) \cup {x} = T
        BY <2>2
    <2> QED BY <2>4, <2>5
<1> HIDE DEF Good
<1>3. Nat \subseteq Good
    BY <1>1, <1>2, NatSetInduction
<1>4. Cardinality(S) \in Good
    BY <1>3, FS_CardinalityType
<1> QED BY <1>4 DEF Good

\* f starts with base, and goes on with what step makes of its last value.
IsRecursive(f, m, V, base, step) ==
    /\ f \in [0 .. m -> V]
    /\ f[0] = base
    /\ \A k \in 1 .. m : f[k] = step[<<k, f[k - 1]>>]

\* A function of the first m + 1 numbers may be defined by recursion.
LEMMA RecursionExists ==
    ASSUME NEW m \in Nat, NEW V, NEW base \in V,
           NEW step \in [(1 .. m) \X V -> V]
    PROVE  \E f : IsRecursive(f, m, V, base, step)
<1> DEFINE Upto(n) ==
               \E f \in [0 .. n -> V] :
                  /\ f[0] = base
                  /\ \A k \in 1 .. n : f[k] = step[<<k, f[k - 1]>>]
           Good == {n \in Nat : n <= m => Upto(n)}
<1>1. 0 \in Good
    <2>1. [k \in 0 .. 0 |-> base] \in [0 .. 0 -> V]
        OBVIOUS
    <2>2. Upto(0)
        <3> WITNESS [k \in 0 .. 0 |-> base] \in [0 .. 0 -> V]
        <3> QED OBVIOUS
    <2> QED BY <2>2
<1>2. ASSUME NEW n \in Nat, n \in Good PROVE n + 1 \in Good
    <2> SUFFICES ASSUME n + 1 <= m PROVE Upto(n + 1)
        OBVIOUS
    <2>1. PICK f \in [0 .. n -> V] :
             /\ f[0] = base
             /\ \A k \in 1 .. n : f[k] = step[<<k, f[k - 1]>>]
        BY <1>2
    <2> DEFINE last == step[<<n + 1, f[n]>>]
               g == [k \in 0 .. n + 1 |-> IF k <= n THEN f[k] ELSE last]
    <2>2. last \in V
        <3>1. n + 1 \in 1 .. m /\ f[n] \in V
            OBVIOUS
        <3> QED BY <3>1
    <2> HIDE DEF last
    <2>3. g \in [0 .. n + 1 -> V]
        BY <2>2
    <2>4. g[0] = base
        BY <2>1
    <2>5. ASSUME NEW k \in 1 .. n + 1 PROVE g[k] = step[<<k, g[k - 1]>>]
        <3>1. g[k - 1] = f[k - 1]
            OBVIOUS
        <3>2. CASE k <= n
            BY <2>1, <3>1, <3>2
        <3>3. CASE k = n + 1
            <4>1. g[k] = last /\ k - 1 = n
                BY <3>3
            <4> QED BY <3>1, <3>3, <4>1 DEF last
        <3> QED BY <3>2, <3>3
    <2> HIDE DEF g
    <2> QED BY <2>3, <2>4, <2>5
<1> HIDE DEF Good
<1>3. m \in Good
    BY <1>1, <1>2, NatSetInduction
<1>4. Upto(m)
    BY <1>3 DEF Good
<1> QED BY <1>4 DEF IsRecursive

\* f takes a member away, and goes on with what step makes of the rest's value.
IsSetRecursive(f, S, V, base, pick, step) ==
    /\ f \in [SUBSET S -> V]
    /\ f[{}] = base
    /\ \A T \in SUBSET S : T # {} => f[T] = step[<<pick[T], f[T \ {pick[T]}]>>]

\* So may a function of the subsets of a finite set, by taking one member away.
LEMMA SetRecursionExists ==
    ASSUME NEW S, IsFiniteSet(S), NEW V, NEW base \in V,
           NEW pick, \A T \in SUBSET S : T # {} => pick[T] \in T,
           NEW step \in [S \X V -> V]
    PROVE  \E f : IsSetRecursive(f, S, V, base, pick, step)
<1> DEFINE Of(n) == {T \in SUBSET S : Cardinality(T) <= n}
           Upto(n) ==
               \E f \in [Of(n) -> V] :
                  /\ f[{}] = base
                  /\ \A T \in Of(n) : T # {} =>
                        f[T] = step[<<pick[T], f[T \ {pick[T]}]>>]
           Good == {n \in Nat : Upto(n)}
<1>1. \A T \in SUBSET S : IsFiniteSet(T) /\ Cardinality(T) \in Nat
    BY FS_Subset, FS_CardinalityType
<1>2. \A T \in SUBSET S : T # {} =>
        /\ Cardinality(T \ {pick[T]}) = Cardinality(T) - 1
        /\ Cardinality(T) # 0
        /\ T \ {pick[T]} \in SUBSET S
    BY <1>1, FS_RemoveElement, FS_EmptySet
<1>3. Cardinality({}) = 0
    BY FS_EmptySet
<1>4. 0 \in Good
    <2>1. Of(0) = {{}}
        BY <1>1, <1>3, FS_EmptySet
    <2>2. [T \in Of(0) |-> base] \in [Of(0) -> V]
        OBVIOUS
    <2>3. Upto(0)
        <3> HIDE DEF Of
        <3> WITNESS [T \in Of(0) |-> base] \in [Of(0) -> V]
        <3> QED BY <2>1
    <2> QED BY <2>3
<1>5. ASSUME NEW n \in Nat, n \in Good PROVE n + 1 \in Good
    <2>1. PICK f \in [Of(n) -> V] :
             /\ f[{}] = base
             /\ \A T \in Of(n) : T # {} =>
                   f[T] = step[<<pick[T], f[T \ {pick[T]}]>>]
        BY <1>5
    <2> DEFINE g == [T \in Of(n + 1) |->
                       IF Cardinality(T) <= n THEN f[T]
                       ELSE step[<<pick[T], f[T \ {pick[T]}]>>]]
    <2>2. ASSUME NEW T \in Of(n + 1), T # {}
          PROVE  /\ T \ {pick[T]} \in Of(n)
                 /\ T \ {pick[T]} \in Of(n + 1)
                 /\ pick[T] \in S
                 /\ g[T \ {pick[T]}] = f[T \ {pick[T]}]
        BY <1>1, <1>2, <2>2
    <2>3. \A T \in Of(n + 1) : Cardinality(T) <= n => T \in Of(n)
        OBVIOUS
    <2>4. g \in [Of(n + 1) -> V]
        <3>1. ASSUME NEW T \in Of(n + 1), ~(Cardinality(T) <= n)
              PROVE  step[<<pick[T], f[T \ {pick[T]}]>>] \in V
            <4>1. T # {}
                <5>1. 0 <= n
                    OBVIOUS
                <5> HIDE DEF Of
                <5> QED BY <1>3, <3>1, <5>1
            <4>2. f[T \ {pick[T]}] \in V /\ pick[T] \in S
                BY <2>2, <4>1
            <4> QED BY <4>2
        <3> HIDE DEF Of
        <3> QED BY <2>3, <3>1
    <2>5. g[{}] = base
        BY <1>3, <2>1
    <2>6. ASSUME NEW T \in Of(n + 1), T # {}
          PROVE  g[T] = step[<<pick[T], g[T \ {pick[T]}]>>]
        <3>1. g[T \ {pick[T]}] = f[T \ {pick[T]}]
            BY <2>2, <2>6
        <3>2. CASE Cardinality(T) <= n
            <4>1. g[T] = f[T] /\ T \in Of(n)
                BY <3>2
            <4> QED BY <2>1, <2>6, <3>1, <4>1
        <3>3. CASE ~(Cardinality(T) <= n)
            BY <3>1, <3>3
        <3> QED BY <3>2, <3>3
    <2> HIDE DEF g, Of
    <2>7. Upto(n + 1)
        BY <2>4, <2>5, <2>6
    <2> QED BY <2>7
<1> HIDE DEF Good
<1>6. Cardinality(S) \in Good
    BY <1>1, <1>4, <1>5, NatSetInduction
<1>7. Of(Cardinality(S)) = SUBSET S
    BY FS_Subset
<1>8. Upto(Cardinality(S))
    BY <1>6 DEF Good
<1> HIDE DEF Of
<1> QED BY <1>7, <1>8 DEF IsSetRecursive

\* A set that has {}, and every set it has the rest of, has every subset.
LEMMA RestInduction ==
    ASSUME NEW S, IsFiniteSet(S), NEW pick, \A T \in SUBSET S : T # {} => pick[T] \in T,
           NEW F, {} \in F,
           \A T \in SUBSET S : T # {} /\ T \ {pick[T]} \in F => T \in F
    PROVE  SUBSET S \subseteq F
<1> DEFINE Good == {n \in Nat : \A T \in SUBSET S : Cardinality(T) = n => T \in F}
<1>1. \A T \in SUBSET S : IsFiniteSet(T) /\ Cardinality(T) \in Nat
    BY FS_Subset, FS_CardinalityType
<1>2. 0 \in Good
    BY <1>1, FS_EmptySet
<1>3. ASSUME NEW n \in Nat, n \in Good PROVE n + 1 \in Good
    <2> SUFFICES ASSUME NEW T \in SUBSET S, Cardinality(T) = n + 1
                 PROVE  T \in F
        OBVIOUS
    <2>1. T # {} /\ pick[T] \in T
        <3>1. Cardinality({}) = 0 /\ n + 1 # 0
            BY FS_EmptySet
        <3> QED BY <3>1
    <2>2. Cardinality(T \ {pick[T]}) = Cardinality(T) - 1
        BY <1>1, <2>1, FS_RemoveElement
    <2>3. Cardinality(T \ {pick[T]}) = n
        BY <2>2
    <2>4. T \ {pick[T]} \in F
        BY <1>3, <2>3
    <2> QED BY <2>1, <2>4
<1> HIDE DEF Good
<1>4. Nat \subseteq Good
    BY <1>2, <1>3, NatSetInduction
<1> SUFFICES ASSUME NEW T \in SUBSET S PROVE T \in F
    OBVIOUS
<1>5. Cardinality(T) \in Good
    BY <1>1, <1>4
<1> QED BY <1>5 DEF Good

\* A family of subsets that has each one all of whose extensions by a member it
\* has, the whole set first, has them all.
LEMMA ExtensionInduction ==
    ASSUME NEW S, IsFiniteSet(S), NEW F,
           \A T \in SUBSET S : (\A x \in S \ T : T \cup {x} \in F) => T \in F
    PROVE  SUBSET S \subseteq F
<1> DEFINE Good == {n \in Nat : \A T \in SUBSET S : Cardinality(S \ T) = n => T \in F}
<1>1. \A T \in SUBSET S : IsFiniteSet(S \ T) /\ Cardinality(S \ T) \in Nat
    BY FS_Subset, FS_CardinalityType
<1>2. \A T \in SUBSET S : \A x \in S \ T :
         Cardinality(S \ (T \cup {x})) = Cardinality(S \ T) - 1
    <2> SUFFICES ASSUME NEW T \in SUBSET S, NEW x \in S \ T
                 PROVE  Cardinality(S \ (T \cup {x})) = Cardinality(S \ T) - 1
        OBVIOUS
    <2> DEFINE rest == S \ T
    <2>1. S \ (T \cup {x}) = rest \ {x} /\ IsFiniteSet(rest) /\ x \in rest
        BY <1>1
    <2> HIDE DEF rest
    <2>2. Cardinality(rest \ {x}) = Cardinality(rest) - 1
        BY <2>1, FS_RemoveElement
    <2> QED BY <2>1, <2>2 DEF rest
<1>3. 0 \in Good
    <2> SUFFICES ASSUME NEW T \in SUBSET S, Cardinality(S \ T) = 0 PROVE T \in F
        OBVIOUS
    <2>1. S \ T = {}
        BY <1>1, FS_EmptySet
    <2> QED BY <2>1
<1>4. ASSUME NEW n \in Nat, n \in Good PROVE n + 1 \in Good
    <2> SUFFICES ASSUME NEW T \in SUBSET S, Cardinality(S \ T) = n + 1
                 PROVE  T \in F
        OBVIOUS
    <2>1. ASSUME NEW x \in S \ T PROVE T \cup {x} \in F
        <3>1. Cardinality(S \ (T \cup {x})) = n /\ T \cup {x} \in SUBSET S
            BY <1>2
        <3> QED BY <1>4, <3>1
    <2> QED BY <2>1
<1> HIDE DEF Good
<1>5. Nat \subseteq Good
    BY <1>3, <1>4, NatSetInduction
<1> SUFFICES ASSUME NEW T \in SUBSET S PROVE T \in F
    OBVIOUS
<1>6. Cardinality(S \ T) \in Good
    BY <1>1, <1>5
<1> QED BY <1>6 DEF Good

\* What f gives for the extensions of T by one member, and base for T itself.
Extensions(f, S, T, base) ==
    [x \in S |-> IF x \in T THEN base ELSE f[T \cup {x}]]

\* f makes of T's extensions what step says.
IsGrowing(f, S, V, base, step) ==
    /\ f \in [SUBSET S -> V]
    /\ \A T \in SUBSET S : f[T] = step[<<T, Extensions(f, S, T, base)>>]

\* A function of the subsets of a finite set may also be defined by recursion
\* on larger ones.
LEMMA GrowingExists ==
    ASSUME NEW S, IsFiniteSet(S), NEW V, NEW base \in V,
           NEW step \in [(SUBSET S) \X [S -> V] -> V]
    PROVE  \E f : IsGrowing(f, S, V, base, step)
<1> DEFINE Of(n) == {T \in SUBSET S : Cardinality(S \ T) <= n}
           Upto(n) ==
               \E f \in [Of(n) -> V] :
                  \A T \in Of(n) : f[T] = step[<<T, Extensions(f, S, T, base)>>]
           Good == {n \in Nat : Upto(n)}
<1>1. \A T \in SUBSET S : IsFiniteSet(S \ T) /\ Cardinality(S \ T) \in Nat
    BY FS_Subset, FS_CardinalityType
<1>2. \A T \in SUBSET S : \A x \in S \ T :
        /\ T \cup {x} \in SUBSET S
        /\ Cardinality(S \ (T \cup {x})) = Cardinality(S \ T) - 1
        /\ Cardinality(S \ T) # 0
    <2> SUFFICES ASSUME NEW T \in SUBSET S, NEW x \in S \ T
                 PROVE  /\ Cardinality(S \ (T \cup {x})) = Cardinality(S \ T) - 1
                        /\ Cardinality(S \ T) # 0
        OBVIOUS
    <2> DEFINE rest == S \ T
    <2>1. S \ (T \cup {x}) = rest \ {x} /\ IsFiniteSet(rest) /\ x \in rest
        BY <1>1
    <2> HIDE DEF rest
    <2>2. Cardinality(rest \ {x}) = Cardinality(rest) - 1
        BY <2>1, FS_RemoveElement
    <2>3. Cardinality(rest) # 0
        BY <2>1, FS_EmptySet
    <2> QED BY <2>1, <2>2, <2>3 DEF rest
<1>3. ASSUME NEW f, NEW T \in SUBSET S,
             \A x \in S \ T : f[T \cup {x}] \in V
      PROVE  step[<<T, Extensions(f, S, T, base)>>] \in V
    <2>1. Extensions(f, S, T, base) \in [S -> V]
        BY <1>3 DEF Extensions
    <2> QED BY <2>1
<1>4. 0 \in Good
    <2> DEFINE f == [T \in Of(0) |-> step[<<T, [x \in S |-> base]>>]]
    <2>1. ASSUME NEW T \in Of(0) PROVE ~\E x \in S : x \notin T
        <3>1. /\ T \in SUBSET S /\ Cardinality(S \ T) <= 0
              /\ Cardinality(S \ T) \in Nat /\ IsFiniteSet(S \ T)
            BY <1>1
        <3>2. S \ T = {}
            BY <3>1, FS_EmptySet
        <3> QED BY <3>2
    <2>2. ASSUME NEW T \in Of(0)
          PROVE  Extensions(f, S, T, base) = [x \in S |-> base]
        BY <2>1 DEF Extensions
    <2>3. f \in [Of(0) -> V]
        OBVIOUS
    <2>4. \A T \in Of(0) : f[T] = step[<<T, Extensions(f, S, T, base)>>]
        BY <2>2
    <2> HIDE DEF f, Of
    <2> QED BY <2>3, <2>4
<1>5. ASSUME NEW n \in Nat, n \in Good PROVE n + 1 \in Good
    <2>1. PICK f \in [Of(n) -> V] :
             \A T \in Of(n) : f[T] = step[<<T, Extensions(f, S, T, base)>>]
        BY <1>5
    <2> DEFINE g == [T \in Of(n + 1) |->
                       IF Cardinality(S \ T) <= n THEN f[T]
                       ELSE step[<<T, Extensions(f, S, T, base)>>]]
    <2>2. ASSUME NEW T \in Of(n + 1), NEW x \in S \ T
          PROVE  /\ T \cup {x} \in Of(n)
                 /\ T \cup {x} \in Of(n + 1)
                 /\ g[T \cup {x}] = f[T \cup {x}]
        <3>1. /\ T \cup {x} \in SUBSET S
              /\ Cardinality(S \ T) \in Nat /\ Cardinality(S \ T) <= n + 1
              /\ Cardinality(S \ (T \cup {x})) = Cardinality(S \ T) - 1
            BY <1>1, <1>2
        <3>2. Cardinality(S \ (T \cup {x})) <= n
            BY <3>1
        <3>3. Cardinality(S \ (T \cup {x})) <= n + 1
            BY <3>1
        <3> QED BY <3>1, <3>2, <3>3
    <2>3. \A T \in Of(n + 1) : Cardinality(S \ T) <= n => T \in Of(n)
        OBVIOUS
    <2> HIDE DEF Of
    <2>4. g \in [Of(n + 1) -> V]
        <3> SUFFICES ASSUME NEW T \in Of(n + 1), ~(Cardinality(S \ T) <= n)
                     PROVE  step[<<T, Extensions(f, S, T, base)>>] \in V
            BY <2>3
        <3>1. T \in SUBSET S /\ \A x \in S \ T : f[T \cup {x}] \in V
            BY <2>2 DEF Of
        <3> QED BY <1>3, <3>1
    <2>5. ASSUME NEW T \in Of(n + 1)
          PROVE  g[T] = step[<<T, Extensions(g, S, T, base)>>]
        <3>1. Extensions(g, S, T, base) = Extensions(f, S, T, base)
            BY <2>2 DEF Extensions
        <3>2. g[T] = step[<<T, Extensions(f, S, T, base)>>]
            BY <2>1, <2>3
        <3> QED BY <3>1, <3>2
    <2> HIDE DEF g
    <2>6. Upto(n + 1)
        BY <2>4, <2>5
    <2>7. n + 1 \in Nat
        OBVIOUS
    <2> HIDE DEF Upto
    <2> QED BY <2>6, <2>7
<1> HIDE DEF Good
<1>6. Cardinality(S) \in Good
    <2>1. Cardinality(S) \in Nat
        BY FS_CardinalityType
    <2> QED BY <1>4, <1>5, <2>1, NatSetInduction
<1>7. Of(Cardinality(S)) = SUBSET S
    <2>1. \A T \in SUBSET S : S \ T \subseteq S
        OBVIOUS
    <2> QED BY <2>1, FS_Subset
<1>8. Upto(Cardinality(S))
    BY <1>6 DEF Good
<1> HIDE DEF Of
<1> QED BY <1>7, <1>8 DEF IsGrowing

-----------------------------------------------------------------------------
(* Folds over sets *)

\* What the folds of the community modules take away first.
Picked(S) == [T \in SUBSET S |-> CHOOSE x \in T : TRUE]

LEMMA PickedFrom == \A S : \A T \in SUBSET S : T # {} => Picked(S)[T] \in T
BY DEF Picked

LEMMA PickedInduction ==
    ASSUME NEW S, IsFiniteSet(S), NEW F, {} \in F,
           \A T \in SUBSET S : T # {} /\ T \ {Picked(S)[T]} \in F => T \in F
    PROVE  SUBSET S \subseteq F
<1> DEFINE pick == Picked(S)
<1>1. \A T \in SUBSET S : T # {} => pick[T] \in T
    BY PickedFrom
<1>2. \A T \in SUBSET S : T # {} /\ T \ {pick[T]} \in F => T \in F
    OBVIOUS
<1> HIDE DEF pick
<1> QED BY <1>1, <1>2, RestInduction, Z3

\* A set that has the empty sequence, and with all of one but its last element
\* the sequence itself, has every sequence.
LEMMA SequenceInduction ==
    ASSUME NEW S, NEW F, <<>> \in F,
           \A q \in Seq(S) : q # <<>> /\ SubSeq(q, 1, Len(q) - 1) \in F => q \in F
    PROVE  Seq(S) \subseteq F
<1> DEFINE Good == {n \in Nat : \A q \in Seq(S) : Len(q) = n => q \in F}
<1>1. 0 \in Good
    OBVIOUS
<1>2. ASSUME NEW n \in Nat, n \in Good PROVE n + 1 \in Good
    <2> SUFFICES ASSUME NEW q \in Seq(S), Len(q) = n + 1 PROVE q \in F
        OBVIOUS
    <2> DEFINE r == SubSeq(q, 1, Len(q) - 1)
    <2>1. q # <<>> /\ r \in Seq(S) /\ Len(r) = n
        OBVIOUS
    <2>2. r \in F
        BY <1>2, <2>1
    <2> QED BY <2>1, <2>2
<1> HIDE DEF Good
<1>3. Nat \subseteq Good
    BY <1>1, <1>2, NatSetInduction
<1> SUFFICES ASSUME NEW q \in Seq(S) PROVE q \in F
    OBVIOUS
<1>4. Len(q) \in Good
    BY <1>3
<1> QED BY <1>4 DEF Good

\* An initial part of an initial part is one of the whole.
LEMMA InitialOfInitial ==
    ASSUME NEW S, NEW q \in Seq(S), NEW m \in 0 .. Len(q), NEW n \in 0 .. m
    PROVE  SubSeq(SubSeq(q, 1, m), 1, n) = SubSeq(q, 1, n)
<1> DEFINE r == SubSeq(q, 1, m)
           s == SubSeq(r, 1, n)
           t == SubSeq(q, 1, n)
<1>1. r \in Seq(S) /\ Len(r) = m /\ \A i \in 1 .. m : r[i] = q[i]
    OBVIOUS
<1> HIDE DEF r
<1>2. s \in Seq(S) /\ Len(s) = n /\ \A i \in 1 .. n : s[i] = r[i]
    BY <1>1
<1>3. t \in Seq(S) /\ Len(t) = n /\ \A i \in 1 .. n : t[i] = q[i]
    OBVIOUS
<1> HIDE DEF s, t
<1>4. s = t
    BY <1>1, <1>2, <1>3
<1> QED BY <1>4 DEF r, s, t

\* f goes down a sequence: from base, by what step makes of its value for all
\* but the last element, and of the sequence.
IsDescent(f, S, V, base, step) ==
    /\ f \in [Seq(S) -> V]
    /\ f[<<>>] = base
    /\ \A q \in Seq(S) : q # <<>> => f[q] = step[<<f[SubSeq(q, 1, Len(q) - 1)], q>>]

\* A function of the sequences over a set may be defined by such a descent.
LEMMA DescentExists ==
    ASSUME NEW S, NEW V, NEW base \in V, NEW step \in [V \X Seq(S) -> V]
    PROVE  \E f : IsDescent(f, S, V, base, step)
<1> DEFINE along(q) == [kv \in (1 .. Len(q)) \X V |-> step[<<kv[2], SubSeq(q, 1, kv[1])>>]]
           down(q)  == CHOOSE g : IsRecursive(g, Len(q), V, base, along(q))
           f        == [q \in Seq(S) |-> down(q)[Len(q)]]
<1>1. ASSUME NEW q \in Seq(S)
      PROVE  /\ Len(q) \in Nat
             /\ IsRecursive(down(q), Len(q), V, base, along(q))
    <2>1. Len(q) \in Nat
        OBVIOUS
    <2>2. along(q) \in [(1 .. Len(q)) \X V -> V]
        <3>1. \A k \in 1 .. Len(q) : SubSeq(q, 1, k) \in Seq(S)
            OBVIOUS
        <3> QED BY <3>1
    <2> HIDE DEF along
    <2>3. \E g : IsRecursive(g, Len(q), V, base, along(q))
        BY <2>1, <2>2, RecursionExists
    <2> QED BY <2>1, <2>3
<1> HIDE DEF down
<1>2. ASSUME NEW q \in Seq(S)
      PROVE  /\ down(q) \in [0 .. Len(q) -> V]
             /\ down(q)[0] = base
             /\ \A k \in 1 .. Len(q) : down(q)[k] = step[<<down(q)[k - 1], SubSeq(q, 1, k)>>]
    <2>1. down(q) \in [0 .. Len(q) -> V] /\ down(q)[0] = base
        BY <1>1 DEF IsRecursive
    <2>2. \A k \in 1 .. Len(q) : down(q)[k] = along(q)[<<k, down(q)[k - 1]>>]
        <3> HIDE DEF along
        <3> QED BY <1>1 DEF IsRecursive
    <2>3. ASSUME NEW k \in 1 .. Len(q)
          PROVE  down(q)[k] = step[<<down(q)[k - 1], SubSeq(q, 1, k)>>]
        <3>1. k - 1 \in 0 .. Len(q)
            BY <1>1
        <3>2. down(q)[k - 1] \in V
            BY <2>1, <3>1
        <3>3. \A v \in V : along(q)[<<k, v>>] = step[<<v, SubSeq(q, 1, k)>>]
            OBVIOUS
        <3> HIDE DEF along
        <3> QED BY <2>2, <3>2, <3>3
    <2> QED BY <2>1, <2>3
<1>3. f \in [Seq(S) -> V]
    BY <1>1, <1>2
<1>4. f[<<>>] = base
    <2>1. <<>> \in Seq(S) /\ Len(<<>>) = 0
        OBVIOUS
    <2>2. down(<<>>)[0] = base
        BY <1>2, <2>1
    <2> QED BY <2>1, <2>2
<1>5. ASSUME NEW q \in Seq(S), q # <<>>
      PROVE  f[q] = step[<<f[SubSeq(q, 1, Len(q) - 1)], q>>]
    <2> DEFINE r == SubSeq(q, 1, Len(q) - 1)
               Same == {k \in Nat : k <= Len(r) => down(r)[k] = down(q)[k]}
    <2>1. r \in Seq(S) /\ Len(r) = Len(q) - 1 /\ Len(q) \in Nat /\ Len(r) \in Nat
        <3>1. Len(q) \in Nat /\ Len(q) # 0
            BY <1>5
        <3> DEFINE m == Len(q) - 1
        <3>2. m \in Nat /\ m \in 0 .. Len(q)
            BY <3>1
        <3> HIDE DEF m
        <3>3. SubSeq(q, 1, m) \in Seq(S) /\ Len(SubSeq(q, 1, m)) = m
            BY <3>2
        <3> QED BY <3>1, <3>2, <3>3 DEF m
    <2>2. 0 \in Same
        BY <1>2, <2>1
    <2>3. ASSUME NEW k \in Nat, k \in Same PROVE k + 1 \in Same
        <3> SUFFICES ASSUME k + 1 <= Len(r) PROVE down(r)[k + 1] = down(q)[k + 1]
            OBVIOUS
        <3>1. SubSeq(r, 1, k + 1) = SubSeq(q, 1, k + 1)
            <4> HIDE DEF r
            <4> DEFINE m == Len(q) - 1
            <4>1. m \in 0 .. Len(q) /\ k + 1 \in 0 .. m
                BY <2>1
            <4> HIDE DEF m
            <4>2. SubSeq(SubSeq(q, 1, m), 1, k + 1) = SubSeq(q, 1, k + 1)
                BY <4>1, InitialOfInitial
            <4> QED BY <4>2 DEF m, r
        <3>2. k + 1 \in 1 .. Len(r) /\ k + 1 \in 1 .. Len(q) /\ (k + 1) - 1 = k /\ k <= Len(r)
            BY <2>1
        <3>3. down(r)[k] = down(q)[k]
            BY <2>3, <3>2
        <3>4. down(r)[k + 1] = step[<<down(r)[k], SubSeq(r, 1, k + 1)>>]
            BY <1>2, <2>1, <3>2
        <3>5. down(q)[k + 1] = step[<<down(q)[k], SubSeq(q, 1, k + 1)>>]
            BY <1>2, <2>1, <3>2
        <3> QED BY <3>1, <3>3, <3>4, <3>5
    <2> HIDE DEF Same
    <2>4. Len(r) \in Same
        BY <2>1, <2>2, <2>3, NatSetInduction
    <2>5. down(r)[Len(r)] = down(q)[Len(r)]
        BY <2>1, <2>4 DEF Same
    <2>6. SubSeq(q, 1, Len(q)) = q /\ Len(q) \in 1 .. Len(q)
        BY <1>5
    <2>7. down(q)[Len(q)] = step[<<down(q)[Len(r)], q>>]
        <3>1. down(q)[Len(q)] = step[<<down(q)[Len(q) - 1], SubSeq(q, 1, Len(q))>>]
            BY <1>2, <2>6
        <3> QED BY <2>1, <2>6, <3>1
    <2> QED BY <2>1, <2>5, <2>7
<1> HIDE DEF f
<1> QED BY <1>3, <1>4, <1>5 DEF IsDescent

=============================================================================
