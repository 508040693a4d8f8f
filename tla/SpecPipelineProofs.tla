-------------------------- MODULE SpecPipelineProofs --------------------------
(***************************************************************************)
(* What is proved of `npm run generate`, for every set of documents the    *)
(* vendor may publish and every behaviour of refreshes, chains, raw runs   *)
(* and interruptions: a chain that reports success has typed the document  *)
(* that was published when it began, corrected as patch-spec.mjs announces,*)
(* has left nothing of another, and has each enum on its side.             *)
(*                                                                         *)
(* First what the operators of the model compute: what is followed from    *)
(* roots, a set's list, the deduplicated index, and each correction, from  *)
(* the first (the new names) to the last. Then the generated files and     *)
(* their index. Then the invariant of the chain, a lemma for each of its   *)
(* steps, and the theorems.                                                *)
(***************************************************************************)
EXTENDS SpecPipeline, DataInduction, TLAPS

-----------------------------------------------------------------------------
(* What is followed *)

\* One round: what is reached, and what that leads to at once.
Round(next, names) ==
    names \cup UNION {next[n] : n \in names \cap DOMAIN next}

\* f has what is reached after each round.
InRounds(f, roots, next) ==
    /\ f[0] = roots
    /\ \A i \in 1 .. Cardinality(DOMAIN next) : f[i] = Round(next, f[i - 1])

LEMMA FollowedInRounds ==
    ASSUME NEW roots, NEW next, IsFiniteSet(DOMAIN next)
    PROVE  \E f : /\ InRounds(f, roots, next)
                  /\ Followed(roots, next) = f[Cardinality(DOMAIN next)]
<1> DEFINE m == Cardinality(DOMAIN next)
           V == SUBSET (roots \cup UNION {next[n] : n \in DOMAIN next})
           step == [x \in (1 .. m) \X V |-> Round(next, x[2])]
           within == CHOOSE g : g = [i \in 0 .. m |->
                         IF i = 0 THEN roots ELSE Round(next, g[i - 1])]
<1>1. m \in Nat
    BY FS_CardinalityType
<1>2. roots \in V
    OBVIOUS
<1>3. step \in [(1 .. m) \X V -> V]
    BY DEF Round
<1>4. Followed(roots, next) = within[m]
    BY DEF Followed, Round
<1> HIDE DEF m, V
<1>5. PICK f : IsRecursive(f, m, V, roots, step)
    <2> HIDE DEF step
    <2> QED BY <1>1, <1>2, <1>3, RecursionExists
<1>6. f = [i \in 0 .. m |-> IF i = 0 THEN roots ELSE Round(next, f[i - 1])]
    <2>1. f = [i \in 0 .. m |-> f[i]] /\ f[0] = roots
        BY <1>5 DEF IsRecursive
    <2>2. ASSUME NEW i \in 1 .. m PROVE f[i] = Round(next, f[i - 1])
        <3>1. f[i] = step[<<i, f[i - 1]>>]
            BY <1>5 DEF IsRecursive
        <3>2. i - 1 \in 0 .. m
            BY <1>1
        <3>3. f[i - 1] \in V
            BY <1>5, <3>2 DEF IsRecursive
        <3> QED BY <3>1, <3>3
    <2>3. ASSUME NEW i \in 0 .. m
          PROVE  f[i] = IF i = 0 THEN roots ELSE Round(next, f[i - 1])
        <3>1. i = 0 \/ i \in 1 .. m
            BY <1>1
        <3> QED BY <2>1, <2>2, <3>1
    <2> QED BY <2>1, <2>3, Zenon
<1>7. within = [i \in 0 .. m |->
                  IF i = 0 THEN roots ELSE Round(next, within[i - 1])]
    BY <1>6, Zenon
<1> HIDE DEF within
<1>8. InRounds(within, roots, next)
    BY <1>1, <1>7 DEF InRounds, m
<1> QED BY <1>4, <1>8 DEF m

\* The roots are reached.
LEMMA FollowedRoots ==
    ASSUME NEW roots, NEW next, IsFiniteSet(DOMAIN next)
    PROVE  roots \subseteq Followed(roots, next)
<1> DEFINE m == Cardinality(DOMAIN next)
<1>1. PICK f : InRounds(f, roots, next) /\ Followed(roots, next) = f[m]
    BY FollowedInRounds
<1>2. m \in Nat
    BY FS_CardinalityType
<1> DEFINE S == {i \in Nat : i <= m => roots \subseteq f[i]}
<1>3. 0 \in S
    BY <1>1 DEF InRounds
<1>4. ASSUME NEW i \in Nat, i \in S PROVE i + 1 \in S
    <2> SUFFICES ASSUME i + 1 <= m PROVE roots \subseteq f[i + 1]
        OBVIOUS
    <2>1. i + 1 \in 1 .. m /\ (i + 1) - 1 = i
        BY <1>2
    <2>2. f[i + 1] = Round(next, f[i])
        BY <1>1, <2>1 DEF InRounds
    <2>3. roots \subseteq f[i]
        BY <1>2, <1>4, <2>1
    <2> QED BY <2>2, <2>3 DEF Round
<1> HIDE DEF S
<1>5. m \in S
    BY <1>2, <1>3, <1>4, NatSetInduction
<1> QED BY <1>1, <1>2, <1>5 DEF S

\* Nothing is reached that is not in every set the roots are in and no member
\* leads out of.
LEMMA FollowedLeast ==
    ASSUME NEW roots, NEW next, IsFiniteSet(DOMAIN next), NEW C,
           roots \subseteq C, \A n \in C \cap DOMAIN next : next[n] \subseteq C
    PROVE  Followed(roots, next) \subseteq C
<1> DEFINE m == Cardinality(DOMAIN next)
<1>1. PICK f : InRounds(f, roots, next) /\ Followed(roots, next) = f[m]
    BY FollowedInRounds
<1>2. m \in Nat
    BY FS_CardinalityType
<1> DEFINE S == {i \in Nat : i <= m => f[i] \subseteq C}
<1>3. 0 \in S
    BY <1>1 DEF InRounds
<1>4. ASSUME NEW i \in Nat, i \in S PROVE i + 1 \in S
    <2> SUFFICES ASSUME i + 1 <= m PROVE f[i + 1] \subseteq C
        OBVIOUS
    <2>1. i + 1 \in 1 .. m /\ (i + 1) - 1 = i
        BY <1>2
    <2>2. f[i + 1] = Round(next, f[i])
        BY <1>1, <2>1 DEF InRounds
    <2>3. f[i] \subseteq C
        BY <1>2, <1>4, <2>1
    <2> QED BY <2>2, <2>3 DEF Round
<1> HIDE DEF S
<1>5. m \in S
    BY <1>2, <1>3, <1>4, NatSetInduction
<1> QED BY <1>1, <1>2, <1>5 DEF S

\* As many rounds as there are names that lead on are enough: a round that
\* takes in none of them is the last that takes in anything.
LEMMA FollowedClosed ==
    ASSUME NEW roots, NEW next, IsFiniteSet(DOMAIN next)
    PROVE  \A n \in Followed(roots, next) \cap DOMAIN next :
               next[n] \subseteq Followed(roots, next)
<1> DEFINE m == Cardinality(DOMAIN next)
           Closed(names) == Round(next, names) = names
           In(names) == names \cap DOMAIN next
<1>1. PICK f : InRounds(f, roots, next) /\ Followed(roots, next) = f[m]
    BY FollowedInRounds
<1>2. m \in Nat
    BY FS_CardinalityType
<1>3. \A names : /\ IsFiniteSet(In(names))
                 /\ Cardinality(In(names)) \in Nat
                 /\ Cardinality(In(names)) <= m
    BY FS_Subset, FS_CardinalityType
<1>4. \A names : In(names) = {} => Closed(names)
    BY DEF Round
<1>5. \A names : In(Round(next, names)) = In(names) =>
                    Closed(Round(next, names))
    BY DEF Round
<1>6. \A names : In(names) \subseteq In(Round(next, names))
    BY DEF Round
<1> HIDE DEF In
<1> DEFINE S == {i \in Nat : i <= m =>
                    Closed(f[i]) \/ i < Cardinality(In(f[i]))}
<1>7. 0 \in S
    <2>1. CASE In(f[0]) = {}
        BY <1>4, <2>1
    <2>2. CASE In(f[0]) # {}
        <3>1. Cardinality(In(f[0])) # 0
            BY <1>3, <2>2, FS_EmptySet
        <3> QED BY <1>3, <3>1
    <2> QED BY <2>1, <2>2
<1>8. ASSUME NEW i \in Nat, i \in S PROVE i + 1 \in S
    <2> SUFFICES ASSUME i + 1 <= m
                 PROVE  Closed(f[i + 1]) \/ i + 1 < Cardinality(In(f[i + 1]))
        OBVIOUS
    <2>1. i + 1 \in 1 .. m /\ (i + 1) - 1 = i /\ i <= m
        BY <1>2
    <2>2. f[i + 1] = Round(next, f[i])
        BY <1>1, <2>1 DEF InRounds
    <2>3. CASE Closed(f[i])
        BY <2>2, <2>3
    <2>4. CASE In(f[i + 1]) = In(f[i])
        BY <1>5, <2>2, <2>4
    <2>5. CASE i < Cardinality(In(f[i])) /\ In(f[i + 1]) # In(f[i])
        <3>1. In(f[i]) \subseteq In(f[i + 1])
            BY <1>6, <2>2
        <3>2. Cardinality(In(f[i])) < Cardinality(In(f[i + 1]))
            BY <1>3, <2>5, <3>1, FS_Subset
        <3> QED BY <1>3, <2>5, <3>2
    <2> QED BY <1>8, <2>1, <2>3, <2>4, <2>5
<1> HIDE DEF S
<1>9. m \in S
    BY <1>2, <1>7, <1>8, NatSetInduction
<1>10. Closed(f[m])
    <2>1. Closed(f[m]) \/ m < Cardinality(In(f[m]))
        BY <1>2, <1>9 DEF S
    <2>2. ~ (m < Cardinality(In(f[m])))
        BY <1>2, <1>3
    <2> QED BY <2>1, <2>2
<1> QED BY <1>1, <1>10 DEF Round

\* list has the members of S, each once.
Lists(list, S) ==
    /\ list \in Seq(S)
    /\ Range(list) = S
    /\ IsInjective(list)
    /\ Len(list) = Cardinality(S)

\* One more member.
LEMMA ListsOneMore ==
    ASSUME NEW S, IsFiniteSet(S), NEW x, x \notin S, NEW list, Lists(list, S)
    PROVE  Lists(Append(list, x), S \cup {x})
<1> DEFINE more == Append(list, x)
<1>1. list \in Seq(S) /\ Len(list) \in Nat
    BY DEF Lists
<1>2. /\ more \in Seq(S \cup {x})
      /\ Len(more) = Len(list) + 1
      /\ \A i \in 1 .. Len(list) : more[i] = list[i]
      /\ more[Len(list) + 1] = x
      /\ DOMAIN more = 1 .. Len(list) + 1
      /\ DOMAIN list = 1 .. Len(list)
    <2>1. list \in Seq(S \cup {x})
        BY <1>1
    <2> QED BY <1>1, <2>1
<1>3. \A i \in DOMAIN list : list[i] \in S
    BY <1>1
<1> HIDE DEF more
<1>4. Range(more) = S \cup {x}
    <2>1. ASSUME NEW y \in Range(more) PROVE y \in S \cup {x}
        BY <1>2, <1>3, <2>1 DEF Range
    <2>2. ASSUME NEW y \in S PROVE y \in Range(more)
        <3>1. PICK i \in DOMAIN list : list[i] = y
            BY DEF Lists, Range
        <3> QED BY <1>1, <1>2, <3>1 DEF Range
    <2>3. x \in Range(more)
        BY <1>1, <1>2 DEF Range
    <2> QED BY <2>1, <2>2, <2>3
<1>5. IsInjective(more)
    <2> SUFFICES ASSUME NEW a \in DOMAIN more, NEW b \in DOMAIN more,
                        more[a] = more[b]
                 PROVE  a = b
        BY DEF IsInjective
    <2>1. CASE a \in DOMAIN list /\ b \in DOMAIN list
        BY <1>2, <2>1 DEF Lists, IsInjective
    <2>2. CASE a = Len(list) + 1 \/ b = Len(list) + 1
        BY <1>1, <1>2, <1>3, <2>2
    <2>3. a \in DOMAIN list \/ a = Len(list) + 1
        BY <1>1, <1>2
    <2>4. b \in DOMAIN list \/ b = Len(list) + 1
        BY <1>1, <1>2
    <2> QED BY <2>1, <2>2, <2>3, <2>4
<1>6. Cardinality(S \cup {x}) = Cardinality(S) + 1
    BY FS_AddElement
<1> QED BY <1>2, <1>4, <1>5, <1>6 DEF Lists, more

\* Listed lists the members of a finite set.
LEMMA ListedLists ==
    ASSUME NEW S, IsFiniteSet(S)
    PROVE  Lists(Listed(S), S)
<1> DEFINE V == Seq(S)
           step == [x \in S \X V |-> Append(x[2], x[1])]
           iter == CHOOSE g : g = [T \in SUBSET S |->
                       IF T = {} THEN <<>>
                       ELSE LET x == CHOOSE x \in T : TRUE
                            IN  Append(g[T \ {x}], x)]
<1>1. Listed(S) = iter[S]
    BY Zenon DEF Listed, FoldSet, MapThenFoldSet
<1>2. step \in [S \X V -> V]
    OBVIOUS
<1>3. \A x \in S, list \in V : step[<<x, list>>] = Append(list, x)
    OBVIOUS
<1>4. <<>> \in V
    OBVIOUS
<1>5. \A T \in SUBSET S : T # {} => Picked(S)[T] \in T
    BY DEF Picked
<1> HIDE DEF V, step
<1>6. PICK f : IsSetRecursive(f, S, V, <<>>, Picked(S), step)
    BY <1>2, <1>4, <1>5, SetRecursionExists
<1>7. f = [T \in SUBSET S |->
             IF T = {} THEN <<>>
             ELSE LET x == CHOOSE x \in T : TRUE
                  IN  Append(f[T \ {x}], x)]
    <2>1. f = [T \in SUBSET S |-> f[T]]
        BY <1>6 DEF IsSetRecursive
    <2>2. ASSUME NEW T \in SUBSET S
          PROVE  f[T] = IF T = {} THEN <<>>
                        ELSE LET x == CHOOSE x \in T : TRUE
                             IN  Append(f[T \ {x}], x)
        <3>1. CASE T = {}
            BY <1>6, <3>1 DEF IsSetRecursive
        <3>2. CASE T # {}
            <4> DEFINE x == CHOOSE x \in T : TRUE
            <4>1. x \in S /\ Picked(S)[T] = x
                BY <3>2 DEF Picked
            <4>2. f[T] = step[<<Picked(S)[T], f[T \ {Picked(S)[T]}]>>]
                BY <1>6, <3>2 DEF IsSetRecursive
            <4>3. f[T \ {x}] \in V
                BY <1>6 DEF IsSetRecursive
            <4> HIDE DEF x
            <4>4. f[T] = Append(f[T \ {x}], x)
                BY <1>3, <4>1, <4>2, <4>3
            <4> QED BY <3>2, <4>4 DEF x
        <3> QED BY <3>1, <3>2
    <2> QED BY <2>1, <2>2, Zenon
<1>8. iter = [T \in SUBSET S |->
                IF T = {} THEN <<>>
                ELSE LET x == CHOOSE x \in T : TRUE
                     IN  Append(iter[T \ {x}], x)]
    BY <1>7, Zenon
<1> HIDE DEF iter
<1> DEFINE F == {T \in SUBSET S : Lists(iter[T], T)}
<1>9. {} \in F
    <2>1. iter[{}] = <<>>
        BY <1>8
    <2>2. Lists(<<>>, {})
        BY FS_EmptySet DEF Lists, Range, IsInjective
    <2> QED BY <2>1, <2>2
<1>10. ASSUME NEW T \in SUBSET S, T # {}, T \ {Picked(S)[T]} \in F PROVE T \in F
    <2> DEFINE x == CHOOSE x \in T : TRUE
    <2>1. x = Picked(S)[T] /\ x \in T
        BY <1>10 DEF Picked
    <2>2. iter[T] = Append(iter[T \ {x}], x)
        BY <1>8, <1>10
    <2> HIDE DEF x
    <2>3. Lists(iter[T \ {x}], T \ {x})
        BY <1>10, <2>1
    <2>4. IsFiniteSet(T \ {x})
        BY FS_Subset
    <2>5. Lists(Append(iter[T \ {x}], x), (T \ {x}) \cup {x})
        BY <2>3, <2>4, ListsOneMore
    <2>6. (T \ {x}) \cup {x} = T
        BY <2>1
    <2> QED BY <2>2, <2>5, <2>6
<1> HIDE DEF F
<1>11. SUBSET S \subseteq F
    <2>1. \A T \in SUBSET S : T # {} /\ T \ {Picked(S)[T]} \in F => T \in F
        BY <1>10
    <2> QED BY ONLY <1>9, <2>1, PickedInduction, IsFiniteSet(S)
<1>12. Lists(iter[S], S)
    BY <1>11 DEF F
<1> QED BY <1>1, <1>12

\* A set of numbers up to n that is not empty has a greatest one.
LEMMA GreatestExists ==
    ASSUME NEW n \in Nat, NEW T \in SUBSET (1 .. n), T # {}
    PROVE  \E x \in T : \A y \in T : y <= x
<1> DEFINE Has(k) == \A U \in SUBSET (1 .. k) :
                        U # {} => \E x \in U : \A y \in U : y <= x
           S == {k \in Nat : Has(k)}
<1>1. 0 \in S
    <2>1. 1 .. 0 = {}
        OBVIOUS
    <2> QED BY <2>1
<1>2. ASSUME NEW k \in Nat, k \in S PROVE k + 1 \in S
    <2> SUFFICES ASSUME NEW U \in SUBSET (1 .. k + 1), U # {}
                 PROVE  \E x \in U : \A y \in U : y <= x
        OBVIOUS
    <2>1. CASE k + 1 \in U
        BY <2>1
    <2>2. CASE k + 1 \notin U
        <3>1. U \in SUBSET (1 .. k)
            BY <2>2
        <3> QED BY <1>2, <3>1
    <2> QED BY <2>1, <2>2
<1> HIDE DEF S
<1>3. n \in S
    BY <1>1, <1>2, NatSetInduction
<1> QED BY <1>3 DEF S

LEMMA GreatestIsMax ==
    ASSUME NEW n \in Nat
    PROVE  /\ \A T \in SUBSET (1 .. n) : T # {} => Max(T) \in T
           /\ \A k \in 1 .. n : Max(1 .. k) = k
<1>1. ASSUME NEW T \in SUBSET (1 .. n), T # {}
      PROVE  Max(T) \in T /\ \A y \in T : y <= Max(T)
    <2>1. \E x \in T : \A y \in T : y <= x
        BY <1>1, GreatestExists
    <2> QED BY <2>1, Zenon DEF Max
<1>2. ASSUME NEW k \in 1 .. n PROVE Max(1 .. k) = k
    <2>1. 1 .. k \in SUBSET (1 .. n) /\ k \in 1 .. k
        OBVIOUS
    <2>2. Max(1 .. k) \in 1 .. k /\ \A y \in 1 .. k : y <= Max(1 .. k)
        BY <1>1, <2>1
    <2> QED BY <2>1, <2>2
<1> QED BY <1>1, <1>2

\* The list so far, and the next line of the index.
WithLine(kept, line) ==
    IF Contains(kept, normalizeExportLine(line)) THEN kept
    ELSE Append(kept, normalizeExportLine(line))

\* K has what is kept of the first lines.
KeepsOf(K, lines) ==
    /\ K[0] = <<>>
    /\ \A k \in 1 .. Len(lines) : K[k] = WithLine(K[k - 1], lines[k])

LEMMA DedupeInSteps ==
    ASSUME NEW All, NEW lines \in Seq(All)
    PROVE  \E K : /\ KeepsOf(K, lines)
                  /\ dedupeExportLines(lines) =
                       IF Len(K[Len(lines)]) < Len(lines) THEN K[Len(lines)]
                       ELSE lines
<1> DEFINE n == Len(lines)
           S == 1 .. n
           V == Seq({normalizeExportLine(lines[i]) : i \in S})
           pick == [T \in SUBSET S |-> Max(T)]
           step == [x \in S \X V |-> WithLine(x[2], lines[x[1]])]
           iter == CHOOSE g : g = [T \in SUBSET S |->
                       IF T = {} THEN <<>>
                       ELSE LET x == Max(T)
                            IN  WithLine(g[T \ {x}], lines[x])]
<1>1. n \in Nat /\ DOMAIN lines = S
    OBVIOUS
<1>2. dedupeExportLines(lines) = IF Len(iter[S]) < n THEN iter[S] ELSE lines
    BY <1>1 DEF dedupeExportLines, FoldLeft, MapThenFoldSet, WithLine
<1>3. \A x \in S, kept \in V : WithLine(kept, lines[x]) \in V
    BY DEF WithLine
<1>4. /\ step \in [S \X V -> V]
      /\ \A x \in S, kept \in V : step[<<x, kept>>] = WithLine(kept, lines[x])
    BY <1>3
<1>5. <<>> \in V /\ IsFiniteSet(S)
    BY <1>1, FS_Interval
<1>6. \A T \in SUBSET S : T # {} => pick[T] = Max(T) /\ Max(T) \in T
    BY <1>1, GreatestIsMax
<1>7. \A T \in SUBSET S : T # {} => pick[T] \in T
    BY <1>6
<1> HIDE DEF V, step, pick
<1>8. PICK f : IsSetRecursive(f, S, V, <<>>, pick, step)
    <2> HIDE DEF S
    <2> QED BY <1>4, <1>5, <1>7, SetRecursionExists
<1> HIDE DEF S
<1>9. f = [T \in SUBSET S |->
             IF T = {} THEN <<>>
             ELSE LET x == Max(T) IN WithLine(f[T \ {x}], lines[x])]
    <2>1. f = [T \in SUBSET S |-> f[T]]
        BY <1>8 DEF IsSetRecursive
    <2>2. ASSUME NEW T \in SUBSET S
          PROVE  f[T] = IF T = {} THEN <<>>
                        ELSE LET x == Max(T) IN WithLine(f[T \ {x}], lines[x])
        <3>1. CASE T = {}
            BY <1>8, <3>1 DEF IsSetRecursive
        <3>2. CASE T # {}
            <4>1. Max(T) \in S /\ pick[T] = Max(T)
                BY <1>6, <3>2
            <4>2. f[T] = step[<<pick[T], f[T \ {pick[T]}]>>]
                BY <1>8, <3>2 DEF IsSetRecursive
            <4>3. f[T \ {Max(T)}] \in V
                BY <1>8 DEF IsSetRecursive
            <4>4. f[T] = WithLine(f[T \ {Max(T)}], lines[Max(T)])
                BY <1>4, <4>1, <4>2, <4>3
            <4> QED BY <3>2, <4>4
        <3> QED BY <3>1, <3>2
    <2> QED BY <2>1, <2>2, Zenon
<1>10. iter = [T \in SUBSET S |->
                 IF T = {} THEN <<>>
                 ELSE LET x == Max(T) IN WithLine(iter[T \ {x}], lines[x])]
    BY <1>9, Zenon
<1> HIDE DEF iter
<1> DEFINE K == [k \in 0 .. n |-> iter[1 .. k]]
<1>11. K[0] = <<>>
    <2>1. 1 .. 0 = {} /\ {} \in SUBSET S
        OBVIOUS
    <2> QED BY <1>1, <1>10, <2>1
<1>12. ASSUME NEW k \in 1 .. n PROVE K[k] = WithLine(K[k - 1], lines[k])
    <2>1. /\ 1 .. k \in SUBSET S /\ 1 .. k # {}
          /\ (1 .. k) \ {k} = 1 .. (k - 1)
          /\ k - 1 \in 0 .. n /\ k \in 0 .. n
        BY <1>1 DEF S
    <2>2. Max(1 .. k) = k
        BY <1>1, GreatestIsMax
    <2>3. iter[1 .. k] = WithLine(iter[(1 .. k) \ {k}], lines[k])
        BY <1>10, <2>1, <2>2
    <2> QED BY <2>1, <2>3
<1>13. K[n] = iter[S]
    BY <1>1 DEF S
<1> HIDE DEF K
<1>14. KeepsOf(K, lines)
    BY <1>11, <1>12 DEF KeepsOf
<1> QED BY <1>2, <1>13, <1>14

\* The lines kept are those there are, normalized, each once; if none was
\* dropped, none was there twice.
LEMMA DedupeKeepsEach ==
    ASSUME NEW All, NEW lines \in Seq(All), NEW K, KeepsOf(K, lines),
           NEW k \in 0 .. Len(lines)
    PROVE  /\ K[k] \in Seq({normalizeExportLine(lines[i]) : i \in 1 .. k})
           /\ Range(K[k]) = {normalizeExportLine(lines[i]) : i \in 1 .. k}
           /\ IsInjective(K[k])
           /\ Len(K[k]) <= k
           /\ Len(K[k]) = k =>
                 \A i \in 1 .. k : K[k][i] = normalizeExportLine(lines[i])
<1> DEFINE N(j) == {normalizeExportLine(lines[i]) : i \in 1 .. j}
           Held(j) ==
               /\ K[j] \in Seq(N(j))
               /\ Range(K[j]) = N(j)
               /\ IsInjective(K[j])
               /\ Len(K[j]) <= j
               /\ Len(K[j]) = j =>
                     \A i \in 1 .. j : K[j][i] = normalizeExportLine(lines[i])
           S == {j \in Nat : j <= Len(lines) => Held(j)}
<1>1. 0 \in S
    <2>1. N(0) = {} /\ 1 .. 0 = {}
        OBVIOUS
    <2> HIDE DEF N
    <2>2. K[0] = <<>> /\ <<>> \in Seq(N(0)) /\ Len(<<>>) = 0
        BY DEF KeepsOf
    <2>3. DOMAIN <<>> = {} /\ Range(<<>>) = {} /\ IsInjective(<<>>)
        BY DEF Range, IsInjective
    <2>4. K[0] \in Seq(N(0)) /\ Range(K[0]) = N(0) /\ IsInjective(K[0])
        BY <2>1, <2>2, <2>3
    <2>5. /\ Len(K[0]) <= 0
          /\ \A i \in 1 .. 0 : K[0][i] = normalizeExportLine(lines[i])
        BY <2>1, <2>2
    <2> QED BY <2>4, <2>5
<1>2. ASSUME NEW j \in Nat, j \in S PROVE j + 1 \in S
    <2> SUFFICES ASSUME j + 1 <= Len(lines) PROVE Held(j + 1)
        OBVIOUS
    <2> DEFINE line == normalizeExportLine(lines[j + 1])
               kept == K[j]
    <2>1. j + 1 \in 1 .. Len(lines) /\ (j + 1) - 1 = j /\ Held(j)
        BY <1>2
    <2>2. K[j + 1] = IF Contains(kept, line) THEN kept ELSE Append(kept, line)
        BY <2>1 DEF KeepsOf, WithLine
    <2>3. N(j + 1) = N(j) \cup {line} /\ \A i \in 1 .. j : i \in 1 .. j + 1
        OBVIOUS
    <2>4. /\ kept \in Seq(N(j)) /\ Range(kept) = N(j) /\ IsInjective(kept)
          /\ Len(kept) <= j
          /\ Len(kept) = j =>
                \A i \in 1 .. j : kept[i] = normalizeExportLine(lines[i])
        BY <2>1
    <2>5. Contains(kept, line) <=> line \in N(j)
        <3>1. DOMAIN kept = 1 .. Len(kept)
            BY <2>4
        <3>2. Contains(kept, line) <=> line \in Range(kept)
            BY <3>1, Zenon DEF Contains, Range
        <3> QED BY <2>4, <3>2
    <2>6. CASE Contains(kept, line)
        <3>1. N(j + 1) = N(j)
            BY <2>3, <2>5, <2>6
        <3>2. Len(kept) \in Nat /\ Len(kept) # j + 1
            BY <2>4
        <3> HIDE DEF N, line
        <3> QED BY <2>2, <2>4, <2>6, <3>1, <3>2
    <2>7. CASE ~Contains(kept, line)
        <3> HIDE DEF N, line
        <3> DEFINE more == Append(kept, line)
        <3>1. /\ kept \in Seq(N(j + 1)) /\ line \in N(j + 1)
              /\ Len(kept) \in Nat /\ DOMAIN kept = 1 .. Len(kept)
            BY <2>3, <2>4
        <3>2. /\ more \in Seq(N(j + 1)) /\ Len(more) = Len(kept) + 1
              /\ DOMAIN more = 1 .. Len(kept) + 1
              /\ \A i \in 1 .. Len(kept) : more[i] = kept[i]
              /\ more[Len(kept) + 1] = line
            BY <3>1
        <3> HIDE DEF more
        <3>3. Range(more) = N(j + 1)
            <4>1. ASSUME NEW y \in N(j + 1) PROVE y \in Range(more)
                <5>1. CASE y = line
                    BY <3>1, <3>2, <5>1, SMTT(30) DEF Range
                <5>2. CASE y \in N(j)
                    <6>1. PICK i \in DOMAIN kept : kept[i] = y
                        BY <2>4, <5>2 DEF Range
                    <6> QED BY <3>1, <3>2, <6>1 DEF Range
                <5> QED BY <2>3, <4>1, <5>1, <5>2
            <4>2. Range(more) \subseteq N(j + 1)
                BY <3>2 DEF Range
            <4> QED BY <4>1, <4>2
        <3>4. IsInjective(more)
            <4> SUFFICES ASSUME NEW a \in DOMAIN more, NEW b \in DOMAIN more,
                                more[a] = more[b]
                         PROVE  a = b
                BY DEF IsInjective
            <4>1. \A i \in DOMAIN kept : kept[i] # line
                BY <2>4, <2>5, <2>7 DEF Range
            <4>2. CASE a \in DOMAIN kept /\ b \in DOMAIN kept
                BY <2>4, <3>1, <3>2, <4>2 DEF IsInjective
            <4>3. CASE a = Len(kept) + 1 \/ b = Len(kept) + 1
                BY <3>1, <3>2, <4>1, <4>3, SMTT(30)
            <4>4. /\ a \in DOMAIN kept \/ a = Len(kept) + 1
                  /\ b \in DOMAIN kept \/ b = Len(kept) + 1
                BY <3>1, <3>2, SMTT(30)
            <4> QED BY <4>2, <4>3, <4>4
        <3>5. Len(more) = j + 1 =>
                 \A i \in 1 .. j + 1 : more[i] = normalizeExportLine(lines[i])
            BY <2>4, <3>1, <3>2 DEF line
        <3>6. Len(more) <= j + 1
            BY <2>4, <3>1, <3>2
        <3> QED BY <2>2, <2>7, <3>2, <3>3, <3>4, <3>5, <3>6 DEF more
    <2> QED BY <2>6, <2>7
<1> HIDE DEF S
<1>3. k \in S
    BY <1>1, <1>2, NatSetInduction
<1> QED BY <1>3 DEF S

-----------------------------------------------------------------------------
(* A correction makes a document of a document *)

\* A table written entry by entry over a finite set.
LEMMA TableWritten ==
    ASSUME NEW S, IsFiniteSet(S), NEW f, f = [k \in S |-> f[k]]
    PROVE  IsTable(f) /\ DOMAIN f = S
<1>1. DOMAIN f = S
    BY Zenon
<1> QED BY <1>1 DEF IsTable

LEMMA SchemaWith ==
    ASSUME NEW schema, IsSchema(schema), NEW nodes, IsNodes(nodes)
    PROVE  /\ [schema EXCEPT !.fields = nodes] =
                 [fields |-> nodes, bases |-> schema.bases]
           /\ IsSchema([schema EXCEPT !.fields = nodes])
<1>1. schema = [fields |-> schema.fields, bases |-> schema.bases]
    BY DEF IsSchema
<1>2. [schema EXCEPT !.fields = nodes] =
          [fields |-> nodes, bases |-> schema.bases]
    BY <1>1
<1> HIDE <1>1
<1> QED BY <1>2 DEF IsSchema

\* The schema of a document with another table of components.
LEMMA DocumentWith ==
    ASSUME NEW doc, IsDocument(doc), NEW schemas, IsTable(schemas),
           \A n \in DOMAIN schemas : IsSchema(schemas[n])
    PROVE  /\ [doc EXCEPT !.schemas = schemas] =
                 [schemas |-> schemas, ops |-> doc.ops]
           /\ IsDocument([doc EXCEPT !.schemas = schemas])
<1>1. doc = [schemas |-> doc.schemas, ops |-> doc.ops]
    BY DEF IsDocument
<1>2. [doc EXCEPT !.schemas = schemas] = [schemas |-> schemas, ops |-> doc.ops]
    BY <1>1
<1>3. IsTable(doc.ops) /\ \A o \in DOMAIN doc.ops : IsOperation(doc.ops[o])
    BY DEF IsDocument
<1> HIDE <1>1
<1> QED BY <1>2, <1>3 DEF IsDocument, Names

LEMMA DocumentWithOps ==
    ASSUME NEW doc, IsDocument(doc), NEW ops, IsTable(ops),
           \A o \in DOMAIN ops : IsOperation(ops[o])
    PROVE  /\ [doc EXCEPT !.ops = ops] =
                 [schemas |-> doc.schemas, ops |-> ops]
           /\ IsDocument([doc EXCEPT !.ops = ops])
<1>1. doc = [schemas |-> doc.schemas, ops |-> doc.ops]
    BY DEF IsDocument
<1>2. [doc EXCEPT !.ops = ops] = [schemas |-> doc.schemas, ops |-> ops]
    BY <1>1
<1>3. IsTable(doc.schemas) /\ \A n \in DOMAIN doc.schemas :
                                 IsSchema(doc.schemas[n])
    BY DEF IsDocument, Names
<1> HIDE <1>1
<1> QED BY <1>2, <1>3 DEF IsDocument, Names

\* The nodes of a document.
LEMMA NodesAreNodes ==
    ASSUME NEW doc, IsDocument(doc)
    PROVE  /\ \A n \in Names(doc) :
                 /\ \A f \in DOMAIN doc.schemas[n].fields :
                       doc.schemas[n].fields[f] \in AllNodes(doc)
           /\ \A o \in DOMAIN doc.ops :
                 /\ \A p \in DOMAIN doc.ops[o].params :
                       doc.ops[o].params[p] \in AllNodes(doc)
                 /\ doc.ops[o].body \in AllNodes(doc)
                 /\ \A code \in DOMAIN doc.ops[o].answers :
                       doc.ops[o].answers[code] \in AllNodes(doc)
           /\ \A node \in AllNodes(doc) : IsNode(node)
<1>1. ASSUME NEW n \in Names(doc), NEW f \in DOMAIN doc.schemas[n].fields
      PROVE  doc.schemas[n].fields[f] \in AllNodes(doc)
    <2>1. doc.schemas[n] \in Range(doc.schemas)
        BY Zenon DEF Names, Range
    <2>2. doc.schemas[n].fields[f] \in Nodes(doc.schemas[n])
        BY Zenon DEF Nodes, Range
    <2> QED BY <2>1, <2>2, Zenon DEF AllNodes
<1>2. ASSUME NEW o \in DOMAIN doc.ops
      PROVE  ParamNodes(doc.ops[o]) \cup AnswerNodes(doc.ops[o])
                \cup {doc.ops[o].body} \subseteq AllNodes(doc)
    <2>1. doc.ops[o] \in Range(doc.ops)
        BY Zenon DEF Range
    <2> QED BY <2>1 DEF AllNodes
<1>3. \A o \in DOMAIN doc.ops :
         /\ \A p \in DOMAIN doc.ops[o].params :
               doc.ops[o].params[p] \in ParamNodes(doc.ops[o])
         /\ \A code \in DOMAIN doc.ops[o].answers :
               doc.ops[o].answers[code] \in AnswerNodes(doc.ops[o])
    BY Zenon DEF ParamNodes, AnswerNodes, Range
<1>4. ASSUME NEW node \in AllNodes(doc) PROVE IsNode(node)
    <2>1. \/ \E schema \in Range(doc.schemas) : node \in Nodes(schema)
          \/ \E op \in Range(doc.ops) :
                node \in ParamNodes(op) \cup AnswerNodes(op) \cup {op.body}
        BY DEF AllNodes
    <2>2. ASSUME NEW schema \in Range(doc.schemas), node \in Nodes(schema)
          PROVE  IsNode(node)
        <3>1. IsSchema(schema)
            BY Zenon DEF IsDocument, Range, Names
        <3> QED BY <2>2, <3>1, Zenon DEF IsSchema, IsNodes, Nodes, Range
    <2>3. ASSUME NEW op \in Range(doc.ops),
                 node \in ParamNodes(op) \cup AnswerNodes(op) \cup {op.body}
          PROVE  IsNode(node)
        <3>1. IsOperation(op)
            BY Zenon DEF IsDocument, Range
        <3> QED BY <2>3, <3>1, Zenon DEF IsOperation, IsNodes, ParamNodes,
                                        AnswerNodes, Range
    <2> QED BY <2>1, <2>2, <2>3
<1>5. \A o \in DOMAIN doc.ops :
         /\ \A p \in DOMAIN doc.ops[o].params :
               doc.ops[o].params[p] \in AllNodes(doc)
         /\ doc.ops[o].body \in AllNodes(doc)
         /\ \A code \in DOMAIN doc.ops[o].answers :
               doc.ops[o].answers[code] \in AllNodes(doc)
    <2> SUFFICES ASSUME NEW o \in DOMAIN doc.ops
                 PROVE  /\ \A p \in DOMAIN doc.ops[o].params :
                              doc.ops[o].params[p] \in AllNodes(doc)
                        /\ doc.ops[o].body \in AllNodes(doc)
                        /\ \A code \in DOMAIN doc.ops[o].answers :
                              doc.ops[o].answers[code] \in AllNodes(doc)
        OBVIOUS
    <2> QED BY <1>2, <1>3
<1> QED BY <1>1, <1>4, <1>5

\* Nodes stay nodes.
Visits(visit, doc) == \A node \in AllNodes(doc) : IsNode(visit[node])

LEMMA VisitedNodes ==
    ASSUME NEW nodes, IsNodes(nodes), NEW visit,
           \A k \in DOMAIN nodes : IsNode(visit[nodes[k]])
    PROVE  IsNodes([k \in DOMAIN nodes |-> visit[nodes[k]]])
BY DEF IsNodes, IsTable

\* What a walk makes of the document's components, and of its operations.
LEMMA WalkedOver ==
    ASSUME NEW doc, IsDocument(doc), NEW visit, Visits(visit, doc)
    PROVE  LET walked == walkAllSchemaNodes(doc, visit)
               all(nodes) == [k \in DOMAIN nodes |-> visit[nodes[k]]]
           IN  /\ IsDocument(walked)
               /\ DOMAIN walked.schemas = Names(doc)
               /\ \A n \in Names(doc) :
                     walked.schemas[n] =
                       [fields |-> all(doc.schemas[n].fields),
                        bases |-> doc.schemas[n].bases]
               /\ DOMAIN walked.ops = DOMAIN doc.ops
               /\ \A o \in DOMAIN doc.ops :
                     walked.ops[o] =
                       [params |-> all(doc.ops[o].params),
                        body |-> visit[doc.ops[o].body],
                        answers |-> all(doc.ops[o].answers),
                        responds |-> doc.ops[o].responds]
<1> DEFINE walked == walkAllSchemaNodes(doc, visit)
           all(nodes) == [k \in DOMAIN nodes |-> visit[nodes[k]]]
           schemas == [n \in Names(doc) |->
                          [doc.schemas[n] EXCEPT !.fields = all(@)]]
           ops == [o \in DOMAIN doc.ops |->
                      [params |-> all(doc.ops[o].params),
                       body |-> visit[doc.ops[o].body],
                       answers |-> all(doc.ops[o].answers),
                       responds |-> doc.ops[o].responds]]
<1>1. walked = [schemas |-> schemas, ops |-> ops]
    BY DEF walkAllSchemaNodes
<1>2. IsFiniteSet(Names(doc)) /\ IsFiniteSet(DOMAIN doc.ops)
    BY DEF IsDocument, IsTable, Names
<1>3. ASSUME NEW n \in Names(doc)
      PROVE  /\ schemas[n] = [fields |-> all(doc.schemas[n].fields),
                              bases |-> doc.schemas[n].bases]
             /\ IsSchema(schemas[n])
    <2>1. IsSchema(doc.schemas[n])
        BY DEF IsDocument
    <2>2. \A k \in DOMAIN doc.schemas[n].fields :
              IsNode(visit[doc.schemas[n].fields[k]])
        BY NodesAreNodes DEF Visits
    <2>3. IsNodes(all(doc.schemas[n].fields))
        BY <2>1, <2>2, VisitedNodes DEF IsSchema
    <2>4. schemas[n] = [doc.schemas[n] EXCEPT !.fields = all(doc.schemas[n].fields)]
        OBVIOUS
    <2> HIDE DEF all, schemas
    <2> QED BY <2>1, <2>3, <2>4, SchemaWith
<1>4. ASSUME NEW o \in DOMAIN doc.ops
      PROVE  IsOperation(ops[o])
    <2>1. IsOperation(doc.ops[o])
        BY DEF IsDocument
    <2>2. /\ \A k \in DOMAIN doc.ops[o].params :
                IsNode(visit[doc.ops[o].params[k]])
          /\ IsNode(visit[doc.ops[o].body])
          /\ \A k \in DOMAIN doc.ops[o].answers :
                IsNode(visit[doc.ops[o].answers[k]])
        BY NodesAreNodes DEF Visits
    <2>3. IsNodes(all(doc.ops[o].params)) /\ IsNodes(all(doc.ops[o].answers))
        BY <2>1, <2>2, VisitedNodes DEF IsOperation
    <2>4. ops[o] = [params |-> all(doc.ops[o].params),
                    body |-> visit[doc.ops[o].body],
                    answers |-> all(doc.ops[o].answers),
                    responds |-> doc.ops[o].responds]
        OBVIOUS
    <2>5. /\ doc.ops[o].responds \in BOOLEAN
          /\ ~doc.ops[o].responds => DOMAIN all(doc.ops[o].answers) = {}
        BY <2>1 DEF IsOperation
    <2> HIDE DEF all, ops
    <2> QED BY <2>2, <2>3, <2>4, <2>5 DEF IsOperation
<1>5. /\ DOMAIN schemas = Names(doc) /\ IsTable(schemas)
      /\ DOMAIN ops = DOMAIN doc.ops /\ IsTable(ops)
    BY <1>2 DEF IsTable
<1>6. \A o \in DOMAIN doc.ops :
         ops[o] = [params |-> all(doc.ops[o].params),
                   body |-> visit[doc.ops[o].body],
                   answers |-> all(doc.ops[o].answers),
                   responds |-> doc.ops[o].responds]
    OBVIOUS
<1> HIDE DEF schemas, ops, all, walked
<1>7. walked.schemas = schemas /\ walked.ops = ops
    BY <1>1
<1>8. IsDocument(walked)
    BY <1>1, <1>3, <1>4, <1>5, <1>7 DEF IsDocument, Names
<1>9. /\ DOMAIN walked.schemas = Names(doc)
      /\ \A n \in Names(doc) :
            walked.schemas[n] = [fields |-> all(doc.schemas[n].fields),
                                 bases |-> doc.schemas[n].bases]
      /\ DOMAIN walked.ops = DOMAIN doc.ops
      /\ \A o \in DOMAIN doc.ops :
            walked.ops[o] = [params |-> all(doc.ops[o].params),
                             body |-> visit[doc.ops[o].body],
                             answers |-> all(doc.ops[o].answers),
                             responds |-> doc.ops[o].responds]
    BY <1>3, <1>5, <1>6, <1>7
<1> QED BY <1>8, <1>9 DEF walked, all

Renamed(names) == {toPascalCase(n) : n \in names}
Repointed(node) == Node(node.form, Renamed(node.refs))
RepointedAll(nodes) == [k \in DOMAIN nodes |-> Repointed(nodes[k])]

LEMMA RepointedNode ==
    ASSUME NEW node, IsNode(node)
    PROVE  /\ [node EXCEPT !.refs = Renamed(@)] = Repointed(node)
           /\ IsNode(Repointed(node))
           /\ Repointed(node).refs = Renamed(node.refs)
<1>1. node = [form |-> node.form, refs |-> node.refs]
    BY DEF IsNode, Node
<1>2. [node EXCEPT !.refs = Renamed(@)] =
          [form |-> node.form, refs |-> Renamed(node.refs)]
    BY <1>1
<1> HIDE <1>1
<1> QED BY <1>2 DEF Repointed, Node, IsNode

LEMMA SchemaWithBases ==
    ASSUME NEW schema, IsSchema(schema), NEW bases
    PROVE  /\ [schema EXCEPT !.bases = bases] =
                 [fields |-> schema.fields, bases |-> bases]
           /\ IsSchema([schema EXCEPT !.bases = bases])
<1>1. schema = [fields |-> schema.fields, bases |-> schema.bases]
    BY DEF IsSchema
<1>2. [schema EXCEPT !.bases = bases] =
          [fields |-> schema.fields, bases |-> bases]
    BY <1>1
<1>3. IsNodes(schema.fields)
    BY DEF IsSchema
<1> HIDE <1>1
<1> QED BY <1>2, <1>3 DEF IsSchema

LEMMA FiniteRenamed ==
    ASSUME NEW names, IsFiniteSet(names)
    PROVE  IsFiniteSet(Renamed(names))
<1> DEFINE f == [n \in names |-> toPascalCase(n)]
<1>1. f \in Surjection(names, Renamed(names))
    BY DEF Surjection, Renamed
<1> QED BY <1>1, FS_Surjection

\* Every reference, by the new names.
LEMMA RewrittenIs ==
    ASSUME NEW doc, IsDocument(doc)
    PROVE  LET new == rewriteComponentRefs(doc)
           IN  /\ IsDocument(new)
               /\ Names(new) = Names(doc)
               /\ \A n \in Names(doc) :
                     new.schemas[n] =
                       [fields |-> RepointedAll(doc.schemas[n].fields),
                        bases |-> Renamed(doc.schemas[n].bases)]
               /\ DOMAIN new.ops = DOMAIN doc.ops
               /\ \A o \in DOMAIN doc.ops :
                     new.ops[o] =
                       [params |-> RepointedAll(doc.ops[o].params),
                        body |-> Repointed(doc.ops[o].body),
                        answers |-> RepointedAll(doc.ops[o].answers),
                        responds |-> doc.ops[o].responds]
<1> DEFINE repoint == [node \in AllNodes(doc) |->
                          [node EXCEPT !.refs = Renamed(@)]]
           walked == walkAllSchemaNodes(doc, repoint)
           all(nodes) == [k \in DOMAIN nodes |-> repoint[nodes[k]]]
           schemas == [n \in Names(doc) |->
                          [walked.schemas[n] EXCEPT !.bases = Renamed(@)]]
           new == [walked EXCEPT !.schemas = schemas]
<1>1. rewriteComponentRefs(doc) = new
    BY DEF rewriteComponentRefs, Renamed
<1>2. \A node \in AllNodes(doc) : repoint[node] = Repointed(node)
    BY NodesAreNodes, RepointedNode
<1>3. Visits(repoint, doc)
    BY <1>2, NodesAreNodes, RepointedNode DEF Visits
<1> HIDE DEF repoint
<1>4. /\ IsDocument(walked)
      /\ DOMAIN walked.schemas = Names(doc)
      /\ \A n \in Names(doc) :
            walked.schemas[n] = [fields |-> all(doc.schemas[n].fields),
                                 bases |-> doc.schemas[n].bases]
      /\ DOMAIN walked.ops = DOMAIN doc.ops
      /\ \A o \in DOMAIN doc.ops :
            walked.ops[o] = [params |-> all(doc.ops[o].params),
                             body |-> repoint[doc.ops[o].body],
                             answers |-> all(doc.ops[o].answers),
                             responds |-> doc.ops[o].responds]
    BY <1>3, WalkedOver
<1> HIDE DEF walked
<1>5. \A n \in Names(doc) :
          all(doc.schemas[n].fields) = RepointedAll(doc.schemas[n].fields)
    BY <1>2, NodesAreNodes DEF RepointedAll
<1>6. \A o \in DOMAIN doc.ops :
          /\ all(doc.ops[o].params) = RepointedAll(doc.ops[o].params)
          /\ repoint[doc.ops[o].body] = Repointed(doc.ops[o].body)
          /\ all(doc.ops[o].answers) = RepointedAll(doc.ops[o].answers)
    BY <1>2, NodesAreNodes DEF RepointedAll
<1> HIDE DEF all
<1>7. ASSUME NEW n \in Names(doc)
      PROVE  /\ schemas[n] = [fields |-> RepointedAll(doc.schemas[n].fields),
                              bases |-> Renamed(doc.schemas[n].bases)]
             /\ IsSchema(schemas[n])
    <2>1. IsSchema(walked.schemas[n])
        <3>1. \A m \in DOMAIN walked.schemas : IsSchema(walked.schemas[m])
            BY <1>4 DEF IsDocument, Names
        <3> QED BY <1>4, <3>1
    <2>2. schemas[n] = [walked.schemas[n] EXCEPT
                           !.bases = Renamed(walked.schemas[n].bases)]
        OBVIOUS
    <2>3. /\ walked.schemas[n].bases = doc.schemas[n].bases
          /\ walked.schemas[n].fields = RepointedAll(doc.schemas[n].fields)
        <3>1. walked.schemas[n] = [fields |-> all(doc.schemas[n].fields),
                                   bases |-> doc.schemas[n].bases]
            BY <1>4
        <3>2. all(doc.schemas[n].fields) = RepointedAll(doc.schemas[n].fields)
            BY <1>5
        <3> QED BY <3>1, <3>2
    <2> HIDE DEF schemas
    <2> QED BY <2>1, <2>2, <2>3, SchemaWithBases
<1>8. IsTable(schemas) /\ DOMAIN schemas = Names(doc)
    BY DEF IsTable, IsDocument, Names
<1> HIDE DEF schemas
<1>9. IsDocument(new) /\ new = [schemas |-> schemas, ops |-> walked.ops]
    BY <1>4, <1>7, <1>8, DocumentWith
<1> HIDE DEF new
<1>10. new.schemas = schemas /\ new.ops = walked.ops
    BY <1>9
<1> QED BY <1>1, <1>4, <1>6, <1>7, <1>8, <1>9, <1>10 DEF Names

\* No two names become the same.
LEMMA RenamedApart ==
    ASSUME NEW doc, ~RenameFails(doc), NEW m \in Names(doc), NEW n \in Names(doc),
           toPascalCase(m) = toPascalCase(n)
    PROVE  m = n
<1>1. \A k : ValidKey(k) => toPascalCase(k) = k
    BY DEF ValidKey, toPascalCase
<1>2. \A k \in Names(doc) : ~ValidKey(k) => k \in Renames(doc)
    BY DEF Renames
<1> HIDE <1>1
<1> QED BY <1>1, <1>2 DEF RenameFails

\* The components, each under the name it has become.
LEMMA NormalizedIs ==
    ASSUME NEW doc, IsDocument(doc), ~RenameFails(doc)
    PROVE  LET new == normalizeComponentKeys(doc)
           IN  /\ IsDocument(new)
               /\ Names(new) = Renamed(Names(doc))
               /\ \A n \in Names(doc) :
                     new.schemas[toPascalCase(n)] =
                       [fields |-> RepointedAll(doc.schemas[n].fields),
                        bases |-> Renamed(doc.schemas[n].bases)]
               /\ DOMAIN new.ops = DOMAIN doc.ops
               /\ \A o \in DOMAIN doc.ops :
                     new.ops[o] =
                       [params |-> RepointedAll(doc.ops[o].params),
                        body |-> Repointed(doc.ops[o].body),
                        answers |-> RepointedAll(doc.ops[o].answers),
                        responds |-> doc.ops[o].responds]
<1> DEFINE old == rewriteComponentRefs(doc)
           oldName(key) == CHOOSE n \in Names(doc) : toPascalCase(n) = key
           schemas == [key \in Renamed(Names(doc)) |->
                          old.schemas[oldName(key)]]
           new == [old EXCEPT !.schemas = schemas]
<1>1. normalizeComponentKeys(doc) = new
    BY Zenon DEF normalizeComponentKeys, Renamed
<1>2. /\ IsDocument(old)
      /\ Names(old) = Names(doc)
      /\ \A n \in Names(doc) :
            old.schemas[n] = [fields |-> RepointedAll(doc.schemas[n].fields),
                              bases |-> Renamed(doc.schemas[n].bases)]
      /\ DOMAIN old.ops = DOMAIN doc.ops
      /\ \A o \in DOMAIN doc.ops :
            old.ops[o] = [params |-> RepointedAll(doc.ops[o].params),
                          body |-> Repointed(doc.ops[o].body),
                          answers |-> RepointedAll(doc.ops[o].answers),
                          responds |-> doc.ops[o].responds]
    BY RewrittenIs
<1> HIDE DEF old
<1>3. ASSUME NEW n \in Names(doc)
      PROVE  oldName(toPascalCase(n)) = n
    <2>1. /\ oldName(toPascalCase(n)) \in Names(doc)
          /\ toPascalCase(oldName(toPascalCase(n))) = toPascalCase(n)
        BY Zenon
    <2> QED BY <2>1, RenamedApart
<1> HIDE DEF oldName
<1>4. \A n \in Names(doc) : schemas[toPascalCase(n)] = old.schemas[n]
    BY <1>3 DEF Renamed
<1>5. IsTable(schemas) /\ DOMAIN schemas = Renamed(Names(doc))
    <2>1. IsFiniteSet(Names(doc))
        BY DEF IsDocument, IsTable, Names
    <2>2. IsFiniteSet(Renamed(Names(doc)))
        BY <2>1, FiniteRenamed
    <2> QED BY <2>2 DEF IsTable
<1>6. \A key \in Renamed(Names(doc)) : IsSchema(schemas[key])
    <2>1. \A n \in Names(doc) : IsSchema(old.schemas[n])
        BY <1>2, Zenon DEF IsDocument
    <2> QED BY <1>4, <2>1, Zenon DEF Renamed
<1> HIDE DEF schemas
<1>7. IsDocument(new) /\ new = [schemas |-> schemas, ops |-> old.ops]
    BY <1>2, <1>5, <1>6, DocumentWith
<1> HIDE DEF new
<1>8. new.schemas = schemas /\ new.ops = old.ops
    BY <1>7
<1> QED BY <1>1, <1>2, <1>4, <1>5, <1>7, <1>8 DEF Names

\* New nodes at their places, and nothing else changed.
LEMMA WithFieldsIs ==
    ASSUME NEW doc, IsDocument(doc), NEW nodes,
           \A a \in DOMAIN nodes : IsNode(nodes[a])
    PROVE  LET new == WithFields(doc, nodes)
           IN  /\ IsDocument(new)
               /\ Names(new) = Names(doc)
               /\ new.ops = doc.ops
               /\ \A n \in Names(doc) :
                     /\ new.schemas[n].bases = doc.schemas[n].bases
                     /\ DOMAIN new.schemas[n].fields =
                          DOMAIN doc.schemas[n].fields
                     /\ \A f \in DOMAIN doc.schemas[n].fields :
                           new.schemas[n].fields[f] =
                             IF <<n, f>> \in DOMAIN nodes THEN nodes[<<n, f>>]
                             ELSE doc.schemas[n].fields[f]
<1> DEFINE fields(n) == [f \in DOMAIN doc.schemas[n].fields |->
                            IF <<n, f>> \in DOMAIN nodes THEN nodes[<<n, f>>]
                            ELSE doc.schemas[n].fields[f]]
           schemas == [n \in Names(doc) |->
                          [doc.schemas[n] EXCEPT !.fields = fields(n)]]
           new == [doc EXCEPT !.schemas = schemas]
<1>1. WithFields(doc, nodes) = new
    BY DEF WithFields
<1>2. ASSUME NEW n \in Names(doc)
      PROVE  /\ schemas[n] = [fields |-> fields(n),
                              bases |-> doc.schemas[n].bases]
             /\ IsSchema(schemas[n])
    <2>1. IsSchema(doc.schemas[n])
        BY DEF IsDocument
    <2>2. IsNodes(fields(n))
        BY <2>1 DEF IsSchema, IsNodes, IsTable
    <2>3. schemas[n] = [doc.schemas[n] EXCEPT !.fields = fields(n)]
        OBVIOUS
    <2> HIDE DEF schemas, fields
    <2> QED BY <2>1, <2>2, <2>3, SchemaWith
<1>3. IsTable(schemas) /\ DOMAIN schemas = Names(doc)
    BY DEF IsTable, IsDocument, Names
<1>4. \A n \in Names(doc) :
         /\ DOMAIN fields(n) = DOMAIN doc.schemas[n].fields
         /\ \A f \in DOMAIN doc.schemas[n].fields :
               fields(n)[f] = IF <<n, f>> \in DOMAIN nodes THEN nodes[<<n, f>>]
                              ELSE doc.schemas[n].fields[f]
    OBVIOUS
<1> HIDE DEF schemas, fields
<1>5. IsDocument(new) /\ new = [schemas |-> schemas, ops |-> doc.ops]
    BY <1>2, <1>3, DocumentWith
<1> HIDE DEF new
<1>6. new.schemas = schemas /\ new.ops = doc.ops
    BY <1>5
<1>7. \A n \in Names(doc) : /\ new.schemas[n].bases = doc.schemas[n].bases
                            /\ new.schemas[n].fields = fields(n)
    <2> SUFFICES ASSUME NEW n \in Names(doc)
                 PROVE  /\ new.schemas[n].bases = doc.schemas[n].bases
                        /\ new.schemas[n].fields = fields(n)
        OBVIOUS
    <2>1. new.schemas[n] = [fields |-> fields(n),
                            bases |-> doc.schemas[n].bases]
        BY <1>2, <1>6
    <2> QED BY <2>1
<1> QED BY <1>1, <1>3, <1>4, <1>5, <1>6, <1>7 DEF Names

\* The same node at all the places.
Alike(places, node) == [a \in places |-> node]

LEMMA SameNodeIs ==
    ASSUME NEW doc, IsDocument(doc), NEW places, NEW node, IsNode(node)
    PROVE  LET new == WithFields(doc, Alike(places, node))
           IN  /\ IsDocument(new)
               /\ Names(new) = Names(doc)
               /\ \A n \in Names(doc) :
                     /\ new.schemas[n].bases = doc.schemas[n].bases
                     /\ DOMAIN new.schemas[n].fields =
                          DOMAIN doc.schemas[n].fields
                     /\ \A f \in DOMAIN doc.schemas[n].fields :
                           new.schemas[n].fields[f] =
                             IF <<n, f>> \in places THEN node
                             ELSE doc.schemas[n].fields[f]
<1> DEFINE nodes == Alike(places, node)
<1>1. DOMAIN nodes = places /\ \A a \in places : nodes[a] = node
    BY DEF Alike
<1> HIDE DEF nodes
<1>2. \A a \in DOMAIN nodes : IsNode(nodes[a])
    BY <1>1
<1> QED BY <1>1, <1>2, WithFieldsIs DEF nodes

\* A new answer, or a new component, over those there are.
LEMMA OverIs ==
    ASSUME NEW new, NEW there
    PROVE  /\ DOMAIN Over(new, there) = DOMAIN new \cup DOMAIN there
           /\ \A k \in DOMAIN new : Over(new, there)[k] = new[k]
           /\ \A k \in DOMAIN there \ DOMAIN new : Over(new, there)[k] = there[k]
           /\ IsFiniteSet(DOMAIN new) /\ IsFiniteSet(DOMAIN there) =>
                 IsTable(Over(new, there))
<1>1. IsFiniteSet(DOMAIN new) /\ IsFiniteSet(DOMAIN there) =>
          IsFiniteSet(DOMAIN new \cup DOMAIN there)
    BY FS_Union
<1>2. Over(new, there) = [k \in DOMAIN new \cup DOMAIN there |->
                            IF k \in DOMAIN new THEN new[k] ELSE there[k]]
    BY DEF Over
<1>3. DOMAIN Over(new, there) = DOMAIN new \cup DOMAIN there
    BY <1>2, Zenon
<1>4. \A k \in DOMAIN new \cup DOMAIN there :
         Over(new, there)[k] = IF k \in DOMAIN new THEN new[k] ELSE there[k]
    BY <1>2, Zenon
<1>5. Over(new, there) = [k \in DOMAIN Over(new, there) |-> Over(new, there)[k]]
    BY <1>2, <1>3, Zenon
<1> QED BY <1>1, <1>3, <1>4, <1>5 DEF IsTable

\* The split there is.
TheSplit == [sharedSchema |-> "ProxySettings",
             requestSchema |-> "ProxySettingsRequest",
             bodies |-> {"POST /v2/site/{siteUid}/settings/proxy"},
             fields |-> {<<"CreateSiteRequest", "proxySettings">>}]

LEMMA SplitsAre ==
    ASSUME NEW doc
    PROVE  patchRequestResponseSplits(doc) =
             Corrected(Split(doc, TheSplit).doc, Split(doc, TheSplit).missing)
<1> DEFINE base == Corrected(doc, {})
           next(split, sofar) ==
               LET done == Split(sofar.doc, split)
               IN  Corrected(done.doc, sofar.missing \cup done.missing)
           S == {TheSplit}
           iter == CHOOSE g : g = [T \in SUBSET S |->
                       IF T = {} THEN base
                       ELSE LET x == CHOOSE x \in T : TRUE
                            IN  next(x, g[T \ {x}])]
           f == [T \in SUBSET S |-> IF T = {} THEN base ELSE next(TheSplit, base)]
<1>1. patchRequestResponseSplits(doc) = iter[S]
    BY Zenon DEF patchRequestResponseSplits, FoldSet, MapThenFoldSet,
                 REQUEST_RESPONSE_SPLITS, TheSplit
<1> HIDE DEF next, base
<1>2. f = [T \in SUBSET S |->
             IF T = {} THEN base
             ELSE LET x == CHOOSE x \in T : TRUE IN next(x, f[T \ {x}])]
    <2>1. ASSUME NEW T \in SUBSET S
          PROVE  f[T] = IF T = {} THEN base
                        ELSE LET x == CHOOSE x \in T : TRUE
                             IN  next(x, f[T \ {x}])
        <3>1. CASE T = {}
            BY <3>1
        <3>2. CASE T # {}
            <4>1. T = S /\ (CHOOSE x \in T : TRUE) = TheSplit
                BY <3>2
            <4>2. T \ {TheSplit} = {} /\ {} \in SUBSET S /\ f[{}] = base
                BY <4>1
            <4>3. f[T] = next(TheSplit, base)
                BY <3>2
            <4> QED BY <3>2, <4>1, <4>2, <4>3
        <3> QED BY <3>1, <3>2
    <2>2. f = [T \in SUBSET S |-> f[T]]
        OBVIOUS
    <2> HIDE DEF f, S
    <2> QED BY <2>1, <2>2, Zenon
<1>3. iter = [T \in SUBSET S |->
                IF T = {} THEN base
                ELSE LET x == CHOOSE x \in T : TRUE IN next(x, iter[T \ {x}])]
    BY <1>2, Zenon
<1> HIDE DEF iter
<1>4. iter[{}] = base
    BY <1>3
<1>5. iter[S] = next(TheSplit, base)
    <2>1. (CHOOSE x \in S : TRUE) = TheSplit /\ S \ {TheSplit} = {}
        OBVIOUS
    <2> QED BY <1>3, <1>4, <2>1
<1> QED BY <1>1, <1>5 DEF next, base, Corrected

\* The fields a split is about, where they are as expected, and the
\* components once these lead to the clone.
SplitFields(doc, split) ==
    {a \in split.fields :
       /\ HasField(doc, a[1], a[2])
       /\ doc.schemas[a[1]].fields[a[2]] = Ref(split.sharedSchema)}
Retargeted(doc, split) ==
    WithFields(doc, Alike(SplitFields(doc, split), Ref(split.requestSchema)))

\* The request's references lead to a component of its own.
LEMMA SplitIs ==
    ASSUME NEW doc, IsDocument(doc), NEW split \in REQUEST_RESPONSE_SPLITS,
           Split(doc, split).missing = {}
    PROVE  LET new == Split(doc, split).doc
               shared == split.sharedSchema
               clone == split.requestSchema
               with == Retargeted(doc, split)
           IN  /\ IsDocument(new)
               /\ shared \in Names(doc)
               /\ Names(new) = Names(doc) \cup {clone}
               /\ new.schemas[clone] = with.schemas[shared]
               /\ \A n \in Names(doc) \ {clone} :
                     new.schemas[n] = with.schemas[n]
               /\ DOMAIN new.ops = DOMAIN doc.ops
               /\ \A o \in DOMAIN doc.ops :
                     /\ new.ops[o].params = doc.ops[o].params
                     /\ new.ops[o].answers = doc.ops[o].answers
                     /\ new.ops[o].responds = doc.ops[o].responds
                     /\ \/ new.ops[o].body = doc.ops[o].body
                        \/ new.ops[o].body = Ref(clone)
               /\ \A o \in split.bodies :
                     o \in DOMAIN doc.ops /\ doc.ops[o].body = Ref(shared)
<1> DEFINE shared == split.sharedSchema
           clone == split.requestSchema
           places == {a \in split.fields :
                        /\ HasField(doc, a[1], a[2])
                        /\ doc.schemas[a[1]].fields[a[2]] = Ref(shared)}
           with == WithFields(doc, Alike(places, Ref(clone)))
           bodies == {o \in split.bodies :
                        o \in DOMAIN doc.ops /\ doc.ops[o].body = Ref(shared)}
           added == [n \in {clone} |-> with.schemas[shared]]
           schemas == Over(added, with.schemas)
           ops == [o \in DOMAIN doc.ops |->
                     IF o \in bodies
                     THEN [doc.ops[o] EXCEPT !.body = Ref(clone)]
                     ELSE doc.ops[o]]
           new == [schemas |-> schemas, ops |-> ops]
<1>1. Split(doc, split) =
        IF shared \notin Names(doc) THEN Corrected(doc, {<<shared>>})
        ELSE Corrected(new, {<<o>> : o \in split.bodies \ bodies}
                               \cup (split.fields \ places))
    BY DEF Split, Alike
<1>2. shared \in Names(doc)
    <2>1. CASE shared \notin Names(doc)
        <3>1. Split(doc, split).missing = {<<shared>>}
            BY <1>1, <2>1 DEF Corrected
        <3> QED BY <3>1
    <2> QED BY <2>1
<1>3. Split(doc, split).doc = new /\ split.bodies \subseteq bodies
    <2> HIDE DEF new, bodies, places
    <2>1. Split(doc, split) =
             Corrected(new, {<<o>> : o \in split.bodies \ bodies}
                               \cup (split.fields \ places))
        BY <1>1, <1>2
    <2>2. /\ Split(doc, split).doc = new
          /\ Split(doc, split).missing =
                {<<o>> : o \in split.bodies \ bodies}
                  \cup (split.fields \ places)
        BY <2>1 DEF Corrected
    <2>3. {<<o>> : o \in split.bodies \ bodies} = {}
        BY <2>2
    <2>4. \A o \in split.bodies \ bodies : FALSE
        BY <2>3
    <2> QED BY <2>2, <2>4
<1>4. IsNode(Ref(clone))
    BY DEF IsNode, Ref, Node
<1> HIDE DEF bodies, places
<1>5. /\ IsDocument(with) /\ Names(with) = Names(doc)
    BY <1>4, SameNodeIs
<1> HIDE DEF with
<1>6. /\ DOMAIN with.schemas = Names(doc) /\ IsFiniteSet(Names(doc))
      /\ \A n \in Names(doc) : IsSchema(with.schemas[n])
    BY <1>5 DEF IsDocument, IsTable, Names
<1>7. /\ DOMAIN added = {clone} /\ added[clone] = with.schemas[shared]
      /\ IsFiniteSet({clone})
    BY FS_Singleton
<1> HIDE DEF added
<1>8. /\ IsTable(schemas) /\ DOMAIN schemas = Names(doc) \cup {clone}
      /\ schemas[clone] = with.schemas[shared]
      /\ \A n \in Names(doc) \ {clone} : schemas[n] = with.schemas[n]
    <2>1. /\ DOMAIN schemas = DOMAIN added \cup DOMAIN with.schemas
          /\ \A k \in DOMAIN added : schemas[k] = added[k]
          /\ \A k \in DOMAIN with.schemas \ DOMAIN added :
                schemas[k] = with.schemas[k]
          /\ IsFiniteSet(DOMAIN added) /\ IsFiniteSet(DOMAIN with.schemas) =>
                IsTable(schemas)
        BY OverIs
    <2> HIDE DEF schemas
    <2> QED BY <1>6, <1>7, <2>1
<1> HIDE DEF schemas
<1>9. ASSUME NEW o \in DOMAIN doc.ops
      PROVE  /\ IsOperation(ops[o])
             /\ ops[o].params = doc.ops[o].params
             /\ ops[o].answers = doc.ops[o].answers
             /\ ops[o].responds = doc.ops[o].responds
             /\ \/ ops[o].body = doc.ops[o].body
                \/ ops[o].body = Ref(clone)
    <2>1. IsOperation(doc.ops[o])
        BY DEF IsDocument
    <2>2. CASE o \notin bodies
        BY <2>1, <2>2
    <2>3. CASE o \in bodies
        <3>1. ops[o] = [doc.ops[o] EXCEPT !.body = Ref(clone)]
            BY <2>3
        <3>2. doc.ops[o] = [params |-> doc.ops[o].params,
                            body |-> doc.ops[o].body,
                            answers |-> doc.ops[o].answers,
                            responds |-> doc.ops[o].responds]
            BY <2>1 DEF IsOperation
        <3>3. ops[o] = [params |-> doc.ops[o].params, body |-> Ref(clone),
                        answers |-> doc.ops[o].answers,
                        responds |-> doc.ops[o].responds]
            BY <3>1, <3>2
        <3>4. /\ IsNodes(doc.ops[o].params) /\ IsNodes(doc.ops[o].answers)
              /\ doc.ops[o].responds \in BOOLEAN
              /\ ~doc.ops[o].responds => DOMAIN doc.ops[o].answers = {}
            BY <2>1 DEF IsOperation
        <3> DEFINE op == ops[o]
        <3>5. /\ op.params = doc.ops[o].params /\ op.body = Ref(clone)
              /\ op.answers = doc.ops[o].answers
              /\ op.responds = doc.ops[o].responds
            BY <3>3
        <3>6. op = [params |-> op.params, body |-> op.body,
                    answers |-> op.answers, responds |-> op.responds]
            BY <3>3, <3>5
        <3> HIDE DEF op
        <3>7. IsOperation(op)
            BY <1>4, <3>4, <3>5, <3>6 DEF IsOperation
        <3> QED BY <3>5, <3>7 DEF op
    <2> QED BY <2>2, <2>3
<1>10. IsTable(ops) /\ DOMAIN ops = DOMAIN doc.ops
    BY DEF IsDocument, IsTable
<1> HIDE DEF ops
<1>11. IsDocument(new)
    <2>1. \A n \in DOMAIN schemas : IsSchema(schemas[n])
        BY <1>2, <1>6, <1>8
    <2>2. new = [schemas |-> schemas, ops |-> ops]
        OBVIOUS
    <2>3. new.schemas = schemas /\ new.ops = ops
        OBVIOUS
    <2>4. \A o \in DOMAIN ops : IsOperation(ops[o])
        BY <1>9, <1>10
    <2>5. new = [schemas |-> new.schemas, ops |-> new.ops]
        BY <2>2, <2>3
    <2> HIDE DEF new
    <2> QED BY <1>8, <1>10, <2>1, <2>3, <2>4, <2>5 DEF IsDocument, Names
<1>12. new.schemas = schemas /\ new.ops = ops
    OBVIOUS
<1>13. \A o \in split.bodies :
          o \in DOMAIN doc.ops /\ doc.ops[o].body = Ref(shared)
    BY <1>3 DEF bodies
<1> HIDE DEF new
<1> QED BY <1>2, <1>3, <1>8, <1>9, <1>10, <1>11, <1>12, <1>13
        DEF Names, with, places, Retargeted, SplitFields

-----------------------------------------------------------------------------
(* The other corrections *)

\* An operation as it is after its answer is looked for.
AnsweredAs(before, after, o) ==
    IF ~before.responds \/ Typed(before) THEN after.answers = before.answers
    ELSE \/ /\ DOMAIN after.answers = DOMAIN before.answers \cup {"200"}
            /\ \A code \in DOMAIN before.answers :
                  after.answers[code] \in {after.answers["200"], NoSchema}
         \/ /\ after.answers = before.answers
            /\ o \in VOID_WRITE_OPERATIONS

LEMMA AnsweredIs ==
    ASSUME NEW doc, IsDocument(doc)
    PROVE  LET new == patchMissingSuccessResponses(doc).doc
               missing == patchMissingSuccessResponses(doc).missing
           IN  /\ IsDocument(new)
               /\ new.schemas = doc.schemas
               /\ DOMAIN new.ops = DOMAIN doc.ops
               /\ \A o \in DOMAIN doc.ops :
                     /\ new.ops[o].params = doc.ops[o].params
                     /\ new.ops[o].body = doc.ops[o].body
                     /\ \A code \in DOMAIN new.ops[o].answers :
                           new.ops[o].answers[code] \in AnswerNodes(doc.ops[o])
                     /\ missing = {} => AnsweredAs(doc.ops[o], new.ops[o], o)
<1> DEFINE untyped == {o \in DOMAIN doc.ops :
                         doc.ops[o].responds /\ ~Typed(doc.ops[o])}
           inferred == {o \in untyped :
                          Cardinality(distinctSchemas(doc.ops[o])) = 1}
           void == {o \in untyped : distinctSchemas(doc.ops[o]) = {}}
           answer(o) == CHOOSE s \in distinctSchemas(doc.ops[o]) : TRUE
           synthesized(o) == [code \in {"200"} |-> answer(o)]
           answers(o) == Over(synthesized(o), doc.ops[o].answers)
           ops == [o \in DOMAIN doc.ops |->
                      IF o \in inferred
                      THEN [doc.ops[o] EXCEPT !.answers = answers(o)]
                      ELSE doc.ops[o]]
           new == [doc EXCEPT !.ops = ops]
           missing == {<<o>> : o \in (untyped \ inferred)
                                        \ (void \cap VOID_WRITE_OPERATIONS)}
<1>1. patchMissingSuccessResponses(doc) = Corrected(new, missing)
    BY DEF patchMissingSuccessResponses
<1>2. /\ patchMissingSuccessResponses(doc).doc = new
      /\ patchMissingSuccessResponses(doc).missing = missing
    <2> HIDE DEF new, missing
    <2> QED BY <1>1 DEF Corrected
<1>3. \A o \in DOMAIN doc.ops : IsOperation(doc.ops[o])
    BY DEF IsDocument
<1>4. ASSUME NEW o \in inferred
      PROVE  distinctSchemas(doc.ops[o]) = {answer(o)}
    <2>1. IsFiniteSet(distinctSchemas(doc.ops[o]))
        <3> DEFINE given == doc.ops[o].answers
        <3>1. IsFiniteSet(DOMAIN given) /\ given = [k \in DOMAIN given |-> given[k]]
            BY <1>3 DEF IsOperation, IsNodes, IsTable
        <3>2. given \in Surjection(DOMAIN given, AnswerNodes(doc.ops[o]))
            BY <3>1, Zenon DEF Surjection, AnswerNodes, Range
        <3>3. IsFiniteSet(AnswerNodes(doc.ops[o]))
            <4> HIDE DEF given
            <4> QED BY <3>1, <3>2, FS_Surjection
        <3> QED BY <3>3, FS_Subset DEF distinctSchemas
    <2>2. Cardinality(distinctSchemas(doc.ops[o])) = 1
        OBVIOUS
    <2>3. PICK s : distinctSchemas(doc.ops[o]) = {s}
        BY <2>1, <2>2, FS_Singleton
    <2> QED BY <2>3
<1>5. ASSUME NEW o \in inferred
      PROVE  /\ DOMAIN answers(o) = {"200"} \cup DOMAIN doc.ops[o].answers
             /\ answers(o)["200"] = answer(o)
             /\ \A code \in DOMAIN doc.ops[o].answers :
                   /\ answers(o)[code] \in {answer(o), doc.ops[o].answers[code]}
                   /\ answers(o)[code] \in {answer(o), NoSchema}
             /\ IsNodes(answers(o))
             /\ \A code \in DOMAIN answers(o) :
                   answers(o)[code] \in AnswerNodes(doc.ops[o])
    <2> DEFINE given == doc.ops[o].answers
               said == synthesized(o)
    <2>1. DOMAIN said = {"200"} /\ said["200"] = answer(o)
        OBVIOUS
    <2>2. IsNodes(given) /\ IsFiniteSet(DOMAIN given)
        BY <1>3 DEF IsOperation, IsNodes, IsTable
    <2> HIDE DEF said
    <2>3. /\ DOMAIN Over(said, given) = DOMAIN said \cup DOMAIN given
          /\ \A k \in DOMAIN said : Over(said, given)[k] = said[k]
          /\ \A k \in DOMAIN given \ DOMAIN said : Over(said, given)[k] = given[k]
          /\ IsFiniteSet(DOMAIN said) /\ IsFiniteSet(DOMAIN given) =>
                IsTable(Over(said, given))
        BY OverIs
    <2>4. \A code \in DOMAIN given : given[code] \in AnswerNodes(doc.ops[o])
        BY Zenon DEF AnswerNodes, Range
    <2>5. \A s \in AnswerNodes(doc.ops[o]) : s \in {answer(o), NoSchema}
        BY <1>4 DEF distinctSchemas
    <2>6. answer(o) \in AnswerNodes(doc.ops[o])
        BY <1>4 DEF distinctSchemas
    <2>7. \A s \in AnswerNodes(doc.ops[o]) : IsNode(s)
        BY <2>2, Zenon DEF AnswerNodes, Range, IsNodes
    <2> HIDE DEF given, answer
    <2>8. answers(o) = Over(said, given)
        BY DEF said, given
    <2>9. IsTable(Over(said, given))
        BY <2>1, <2>2, <2>3, FS_Singleton
    <2>10. /\ DOMAIN Over(said, given) = {"200"} \cup DOMAIN given
           /\ Over(said, given)["200"] = answer(o)
           /\ \A code \in DOMAIN given :
                 Over(said, given)[code] \in {answer(o), given[code]}
        BY <2>1, <2>3
    <2>11. \A code \in DOMAIN Over(said, given) :
              Over(said, given)[code] \in AnswerNodes(doc.ops[o])
        BY <2>4, <2>6, <2>10
    <2>12. IsNodes(Over(said, given))
        BY <2>7, <2>9, <2>11 DEF IsNodes
    <2> HIDE DEF answers
    <2> QED BY <2>5, <2>8, <2>10, <2>11, <2>12 DEF given
<1>6. ASSUME NEW o \in DOMAIN doc.ops
      PROVE  /\ IsOperation(ops[o])
             /\ ops[o].params = doc.ops[o].params
             /\ ops[o].body = doc.ops[o].body
             /\ ops[o].answers = IF o \in inferred THEN answers(o)
                                 ELSE doc.ops[o].answers
    <2>1. CASE o \notin inferred
        <3>1. ops[o] = doc.ops[o]
            BY <2>1
        <3> QED BY <1>3, <2>1, <3>1
    <2>2. CASE o \in inferred
        <3> DEFINE op == doc.ops[o]
                   now == ops[o]
        <3>1. now = [op EXCEPT !.answers = answers(o)]
            BY <2>2
        <3>2. /\ op = [params |-> op.params, body |-> op.body,
                       answers |-> op.answers, responds |-> op.responds]
              /\ IsNodes(op.params) /\ IsNode(op.body)
              /\ op.responds \in BOOLEAN
            BY <1>3 DEF IsOperation
        <3>3. IsNodes(answers(o))
            BY <1>5, <2>2
        <3>4. op.responds
            BY <2>2
        <3> HIDE DEF op, now, answers
        <3>5. now = [params |-> op.params, body |-> op.body,
                     answers |-> answers(o), responds |-> op.responds]
            BY <3>1, <3>2
        <3>6. /\ now.params = op.params /\ now.body = op.body
              /\ now.answers = answers(o) /\ now.responds = op.responds
            BY <3>5
        <3>7. now = [params |-> now.params, body |-> now.body,
                     answers |-> now.answers, responds |-> now.responds]
            BY <3>5, <3>6
        <3>8. IsOperation(now)
            BY <3>2, <3>3, <3>4, <3>6, <3>7 DEF IsOperation
        <3> QED BY <2>2, <3>6, <3>8 DEF op, now
    <2> QED BY <2>1, <2>2
<1>7. IsTable(ops) /\ DOMAIN ops = DOMAIN doc.ops
    BY DEF IsDocument, IsTable
<1> HIDE DEF ops
<1>8. IsDocument(new) /\ new = [schemas |-> doc.schemas, ops |-> ops]
    BY <1>6, <1>7, DocumentWithOps
<1> HIDE DEF new
<1>9. new.schemas = doc.schemas /\ new.ops = ops
    BY <1>8
<1>10. ASSUME NEW o \in DOMAIN doc.ops, NEW code \in DOMAIN ops[o].answers
       PROVE  ops[o].answers[code] \in AnswerNodes(doc.ops[o])
    <2>1. CASE o \in inferred
        BY <1>5, <1>6, <2>1
    <2>2. CASE o \notin inferred
        <3>1. ops[o].answers = doc.ops[o].answers
            BY <1>6, <2>2
        <3> QED BY <3>1, Zenon DEF AnswerNodes, Range
    <2> QED BY <2>1, <2>2
<1>11. ASSUME NEW o \in DOMAIN doc.ops, missing = {}
       PROVE  AnsweredAs(doc.ops[o], ops[o], o)
    <2>1. CASE ~doc.ops[o].responds \/ Typed(doc.ops[o])
        BY <1>6, <2>1 DEF AnsweredAs
    <2>2. CASE o \in inferred
        BY <1>5, <1>6, <2>2 DEF AnsweredAs
    <2>3. CASE /\ doc.ops[o].responds /\ ~Typed(doc.ops[o])
               /\ o \notin inferred
        <3>1. o \in untyped \ inferred
            BY <2>3
        <3>2. \A x \in (untyped \ inferred)
                          \ (void \cap VOID_WRITE_OPERATIONS) : FALSE
            <4>1. \A x \in (untyped \ inferred)
                              \ (void \cap VOID_WRITE_OPERATIONS) :
                     <<x>> \in missing
                OBVIOUS
            <4> QED BY <1>11, <4>1
        <3>3. o \in VOID_WRITE_OPERATIONS
            BY <3>1, <3>2
        <3> QED BY <1>6, <2>3, <3>3 DEF AnsweredAs
    <2> QED BY <2>1, <2>2, <2>3
<1> HIDE DEF missing
<1> QED BY <1>2, <1>6, <1>7, <1>8, <1>9, <1>10, <1>11

\* What is pruned is in use nowhere, and its end was foreseen.
LEMMA PrunedIs ==
    ASSUME NEW doc, IsDocument(doc), NEW old
    PROVE  LET new == pruneOrphanedContextSchemas(doc, old).doc
           IN  /\ IsDocument(new)
               /\ new.ops = doc.ops
               /\ Names(new) \subseteq Names(doc)
               /\ \A n \in Names(new) : new.schemas[n] = doc.schemas[n]
               /\ \A n \in Names(doc) \ Names(new) :
                     /\ n \notin computeReachableComponentNames(doc)
                     /\ n \in EXPECTED_ORPHANED_COMPONENTS
<1> DEFINE bases == [n \in Names(doc) |-> doc.schemas[n].bases \cap Names(doc)]
           candidates == Followed(old \cap Names(doc), bases)
           orphaned == candidates \ computeReachableComponentNames(doc)
           pruned == orphaned \cap EXPECTED_ORPHANED_COMPONENTS
           schemas == Restrict(doc.schemas, Names(doc) \ pruned)
           new == [doc EXCEPT !.schemas = schemas]
<1>1. pruneOrphanedContextSchemas(doc, old).doc = new
    BY DEF pruneOrphanedContextSchemas, Corrected
<1>2. \A n \in pruned : /\ n \notin computeReachableComponentNames(doc)
                        /\ n \in EXPECTED_ORPHANED_COMPONENTS
    BY Zenon
<1> HIDE DEF pruned
<1>3. schemas = [n \in Names(doc) \ pruned |-> doc.schemas[n]]
    BY DEF Restrict
<1>4. IsFiniteSet(Names(doc) \ pruned)
    BY FS_Subset DEF IsDocument, IsTable, Names
<1>5. IsTable(schemas) /\ DOMAIN schemas = Names(doc) \ pruned
    BY <1>3, <1>4 DEF IsTable
<1>6. \A n \in DOMAIN schemas : /\ schemas[n] = doc.schemas[n]
                                /\ IsSchema(schemas[n])
    BY <1>3, <1>5 DEF IsDocument
<1> HIDE DEF schemas
<1>7. IsDocument(new) /\ new = [schemas |-> schemas, ops |-> doc.ops]
    BY <1>5, <1>6, DocumentWith
<1> HIDE DEF new
<1>8. new.schemas = schemas /\ new.ops = doc.ops
    BY <1>7
<1> QED BY <1>1, <1>2, <1>5, <1>6, <1>7, <1>8 DEF Names

Fixed(node) ==
    CASE node = PatternOnNumber -> Plain
      [] node = DoubledEnum -> Enum
      [] OTHER -> node

\* No malformed node is left, and the others are as they were.
LEMMA FixedNode ==
    ASSUME NEW node, IsNode(node)
    PROVE  /\ IsNode(Fixed(node))
           /\ Fixed(node).refs = node.refs
           /\ Fixed(node) \notin {PatternOnNumber, DoubledEnum}
           /\ Fixed(Fixed(node)) = Fixed(node)
           /\ node.form \notin {"patternOnNumber", "doubledEnum"} =>
                 Fixed(node) = node
           /\ node \in {Open, NoSchema} => Fixed(node) = node
<1>1. /\ IsNode(Plain) /\ Plain.refs = {} /\ Plain.form = "plain"
      /\ IsNode(Enum) /\ Enum.refs = {} /\ Enum.form = "enum"
      /\ PatternOnNumber.refs = {} /\ PatternOnNumber.form = "patternOnNumber"
      /\ DoubledEnum.refs = {} /\ DoubledEnum.form = "doubledEnum"
      /\ Open.form = "open" /\ NoSchema.form = "none"
    BY DEF IsNode, Node, Plain, Enum, PatternOnNumber, DoubledEnum, Open,
           NoSchema
<1>2. CASE node = PatternOnNumber
    BY <1>1, <1>2 DEF Fixed
<1>3. CASE node = DoubledEnum
    BY <1>1, <1>3 DEF Fixed
<1>4. CASE node \notin {PatternOnNumber, DoubledEnum}
    BY <1>4 DEF Fixed
<1> QED BY <1>2, <1>3, <1>4

FixedAll(nodes) == [k \in DOMAIN nodes |-> Fixed(nodes[k])]

LEMMA FixedIs ==
    ASSUME NEW doc, IsDocument(doc)
    PROVE  LET new == fixMalformedNonStringConstraints(doc)
           IN  /\ IsDocument(new)
               /\ Names(new) = Names(doc)
               /\ \A n \in Names(doc) :
                     new.schemas[n] =
                       [fields |-> FixedAll(doc.schemas[n].fields),
                        bases |-> doc.schemas[n].bases]
               /\ DOMAIN new.ops = DOMAIN doc.ops
               /\ \A o \in DOMAIN doc.ops :
                     new.ops[o] =
                       [params |-> FixedAll(doc.ops[o].params),
                        body |-> Fixed(doc.ops[o].body),
                        answers |-> FixedAll(doc.ops[o].answers),
                        responds |-> doc.ops[o].responds]
<1> DEFINE fix == [node \in AllNodes(doc) |-> Fixed(node)]
           walked == walkAllSchemaNodes(doc, fix)
           all(nodes) == [k \in DOMAIN nodes |-> fix[nodes[k]]]
<1>1. fixMalformedNonStringConstraints(doc) = walked
    BY Zenon DEF fixMalformedNonStringConstraints, Fixed
<1>2. Visits(fix, doc)
    BY NodesAreNodes, FixedNode DEF Visits
<1>3. \A node \in AllNodes(doc) : fix[node] = Fixed(node)
    OBVIOUS
<1> HIDE DEF fix
<1>4. /\ IsDocument(walked)
      /\ DOMAIN walked.schemas = Names(doc)
      /\ \A n \in Names(doc) :
            walked.schemas[n] = [fields |-> all(doc.schemas[n].fields),
                                 bases |-> doc.schemas[n].bases]
      /\ DOMAIN walked.ops = DOMAIN doc.ops
      /\ \A o \in DOMAIN doc.ops :
            walked.ops[o] = [params |-> all(doc.ops[o].params),
                             body |-> fix[doc.ops[o].body],
                             answers |-> all(doc.ops[o].answers),
                             responds |-> doc.ops[o].responds]
    BY <1>2, WalkedOver
<1> HIDE DEF walked
<1>5. \A n \in Names(doc) :
          all(doc.schemas[n].fields) = FixedAll(doc.schemas[n].fields)
    BY <1>3, NodesAreNodes DEF FixedAll
<1>6. \A o \in DOMAIN doc.ops :
          /\ all(doc.ops[o].params) = FixedAll(doc.ops[o].params)
          /\ fix[doc.ops[o].body] = Fixed(doc.ops[o].body)
          /\ all(doc.ops[o].answers) = FixedAll(doc.ops[o].answers)
    BY <1>3, NodesAreNodes DEF FixedAll
<1> HIDE DEF all
<1> QED BY <1>1, <1>4, <1>5, <1>6 DEF Names

-----------------------------------------------------------------------------
(* The whole correction *)

LEMMA FixedTwice ==
    ASSUME NEW doc, IsDocument(doc)
    PROVE  fixMalformedNonStringConstraints(
               fixMalformedNonStringConstraints(doc)) =
           fixMalformedNonStringConstraints(doc)
<1> DEFINE new == fixMalformedNonStringConstraints(doc)
           again == fixMalformedNonStringConstraints(new)
<1>1. /\ IsDocument(new)
      /\ Names(new) = Names(doc)
      /\ \A n \in Names(doc) :
            new.schemas[n] = [fields |-> FixedAll(doc.schemas[n].fields),
                              bases |-> doc.schemas[n].bases]
      /\ DOMAIN new.ops = DOMAIN doc.ops
      /\ \A o \in DOMAIN doc.ops :
            new.ops[o] = [params |-> FixedAll(doc.ops[o].params),
                          body |-> Fixed(doc.ops[o].body),
                          answers |-> FixedAll(doc.ops[o].answers),
                          responds |-> doc.ops[o].responds]
    BY FixedIs
<1> HIDE DEF new
<1>2. /\ IsDocument(again)
      /\ Names(again) = Names(new)
      /\ \A n \in Names(new) :
            again.schemas[n] = [fields |-> FixedAll(new.schemas[n].fields),
                                bases |-> new.schemas[n].bases]
      /\ DOMAIN again.ops = DOMAIN new.ops
      /\ \A o \in DOMAIN new.ops :
            again.ops[o] = [params |-> FixedAll(new.ops[o].params),
                            body |-> Fixed(new.ops[o].body),
                            answers |-> FixedAll(new.ops[o].answers),
                            responds |-> new.ops[o].responds]
    BY <1>1, FixedIs
<1> HIDE DEF again
<1>3. ASSUME NEW nodes, IsNodes(nodes)
      PROVE  FixedAll(FixedAll(nodes)) = FixedAll(nodes)
    <2>1. \A k \in DOMAIN nodes : Fixed(Fixed(nodes[k])) = Fixed(nodes[k])
        BY <1>3, FixedNode DEF IsNodes
    <2> QED BY <2>1 DEF FixedAll
<1>4. ASSUME NEW n \in Names(doc)
      PROVE  again.schemas[n] = new.schemas[n]
    <2>1. FixedAll(FixedAll(doc.schemas[n].fields)) =
              FixedAll(doc.schemas[n].fields)
        BY <1>3 DEF IsDocument, IsSchema
    <2>2. /\ new.schemas[n] = [fields |-> FixedAll(doc.schemas[n].fields),
                               bases |-> doc.schemas[n].bases]
          /\ again.schemas[n] = [fields |-> FixedAll(new.schemas[n].fields),
                                 bases |-> new.schemas[n].bases]
        BY <1>1, <1>2
    <2>3. /\ new.schemas[n].fields = FixedAll(doc.schemas[n].fields)
          /\ new.schemas[n].bases = doc.schemas[n].bases
        BY <2>2
    <2> QED BY <2>1, <2>2, <2>3
<1>5. ASSUME NEW o \in DOMAIN doc.ops
      PROVE  again.ops[o] = new.ops[o]
    <2>1. IsOperation(doc.ops[o])
        BY DEF IsDocument
    <2>2. /\ FixedAll(FixedAll(doc.ops[o].params)) = FixedAll(doc.ops[o].params)
          /\ FixedAll(FixedAll(doc.ops[o].answers)) =
                FixedAll(doc.ops[o].answers)
          /\ Fixed(Fixed(doc.ops[o].body)) = Fixed(doc.ops[o].body)
        BY <1>3, <2>1, FixedNode DEF IsOperation
    <2>3. /\ new.ops[o] = [params |-> FixedAll(doc.ops[o].params),
                           body |-> Fixed(doc.ops[o].body),
                           answers |-> FixedAll(doc.ops[o].answers),
                           responds |-> doc.ops[o].responds]
          /\ again.ops[o] = [params |-> FixedAll(new.ops[o].params),
                             body |-> Fixed(new.ops[o].body),
                             answers |-> FixedAll(new.ops[o].answers),
                             responds |-> new.ops[o].responds]
        BY <1>1, <1>2
    <2>4. /\ new.ops[o].params = FixedAll(doc.ops[o].params)
          /\ new.ops[o].body = Fixed(doc.ops[o].body)
          /\ new.ops[o].answers = FixedAll(doc.ops[o].answers)
        BY <2>3
    <2> QED BY <2>2, <2>3, <2>4
<1>6. again.schemas = new.schemas
    <2>1. /\ again.schemas = [n \in Names(doc) |-> again.schemas[n]]
          /\ new.schemas = [n \in Names(doc) |-> new.schemas[n]]
        BY <1>1, <1>2, Zenon DEF IsDocument, IsTable, Names
    <2>2. [n \in Names(doc) |-> again.schemas[n]] =
              [n \in Names(doc) |-> new.schemas[n]]
        BY <1>4
    <2> QED BY <2>1, <2>2, Zenon
<1>7. again.ops = new.ops
    <2>1. /\ again.ops = [o \in DOMAIN doc.ops |-> again.ops[o]]
          /\ new.ops = [o \in DOMAIN doc.ops |-> new.ops[o]]
        BY <1>1, <1>2, Zenon DEF IsDocument, IsTable
    <2>2. [o \in DOMAIN doc.ops |-> again.ops[o]] =
              [o \in DOMAIN doc.ops |-> new.ops[o]]
        BY <1>5
    <2> QED BY <2>1, <2>2, Zenon
<1>8. /\ again = [schemas |-> again.schemas, ops |-> again.ops]
      /\ new = [schemas |-> new.schemas, ops |-> new.ops]
    BY <1>1, <1>2, Zenon DEF IsDocument
<1>9. again = new
    BY <1>6, <1>7, <1>8, Zenon
<1> QED BY <1>9 DEF again, new

-----------------------------------------------------------------------------
(* What is reached is declared *)

RefersWithin(nodes, C) == \A k \in DOMAIN nodes : nodes[k].refs \subseteq C

\* Whatever an operation refers to is in C, and C leads nowhere else.
Supports(doc, C) ==
    /\ C \subseteq Names(doc)
    /\ \A o \in DOMAIN doc.ops : /\ RefersWithin(doc.ops[o].params, C)
                                 /\ doc.ops[o].body.refs \subseteq C
                                 /\ RefersWithin(doc.ops[o].answers, C)
    /\ \A n \in C : /\ RefersWithin(doc.schemas[n].fields, C)
                    /\ doc.schemas[n].bases \subseteq C

LEMMA RefersIs ==
    ASSUME NEW nodes, NEW C
    PROVE  RefersWithin(nodes, C) <=> RefsIn(Range(nodes)) \subseteq C
<1>1. ASSUME RefersWithin(nodes, C) PROVE RefsIn(Range(nodes)) \subseteq C
    BY <1>1 DEF RefersWithin, RefsIn, Range
<1>2. ASSUME RefsIn(Range(nodes)) \subseteq C PROVE RefersWithin(nodes, C)
    BY <1>2 DEF RefersWithin, RefsIn, Range
<1> QED BY <1>1, <1>2

\* What leads on, of a document.
LeadsTo(doc) == [n \in Names(doc) |-> Targets(doc, n)]
Roots(doc) ==
    UNION {RefsIn(ParamNodes(op) \cup {op.body} \cup AnswerNodes(op)) :
             op \in Range(doc.ops)}

LEMMA RootsWithin ==
    ASSUME NEW doc, NEW C
    PROVE  Roots(doc) \subseteq C <=>
             \A o \in DOMAIN doc.ops : /\ RefersWithin(doc.ops[o].params, C)
                                       /\ doc.ops[o].body.refs \subseteq C
                                       /\ RefersWithin(doc.ops[o].answers, C)
<1> DEFINE Refs(op) == RefsIn(ParamNodes(op) \cup {op.body} \cup AnswerNodes(op))
<1>1. ASSUME NEW o \in DOMAIN doc.ops
      PROVE  Refs(doc.ops[o]) \subseteq C <=>
               /\ RefersWithin(doc.ops[o].params, C)
               /\ doc.ops[o].body.refs \subseteq C
               /\ RefersWithin(doc.ops[o].answers, C)
    <2>1. Refs(doc.ops[o]) = RefsIn(Range(doc.ops[o].params))
                               \cup doc.ops[o].body.refs
                               \cup RefsIn(Range(doc.ops[o].answers))
        BY DEF RefsIn, ParamNodes, AnswerNodes
    <2> HIDE DEF Refs
    <2> QED BY <2>1, RefersIs
<1>2. Roots(doc) \subseteq C <=> \A op \in Range(doc.ops) : Refs(op) \subseteq C
    BY Zenon DEF Roots
<1> HIDE DEF Refs
<1>3. (\A op \in Range(doc.ops) : Refs(op) \subseteq C) <=>
         \A o \in DOMAIN doc.ops : Refs(doc.ops[o]) \subseteq C
    BY DEF Range
<1> QED BY <1>1, <1>2, <1>3

LEMMA TargetsWithin ==
    ASSUME NEW doc, NEW C, NEW n \in Names(doc)
    PROVE  Targets(doc, n) \subseteq C <=>
             /\ RefersWithin(doc.schemas[n].fields, C)
             /\ doc.schemas[n].bases \subseteq C
<1>1. Targets(doc, n) = RefsIn(Range(doc.schemas[n].fields))
                          \cup doc.schemas[n].bases
    BY DEF Targets, Nodes
<1> QED BY <1>1, RefersIs

LEMMA ReachedIs ==
    ASSUME NEW doc, IsDocument(doc), NEW roots
    PROVE  /\ roots \subseteq Reached(doc, roots)
           /\ \A n \in Reached(doc, roots) \cap Names(doc) :
                 Targets(doc, n) \subseteq Reached(doc, roots)
           /\ \A C : /\ roots \subseteq C
                     /\ \A n \in C \cap Names(doc) : Targets(doc, n) \subseteq C
                     => Reached(doc, roots) \subseteq C
<1>1. /\ DOMAIN LeadsTo(doc) = Names(doc)
      /\ \A n \in Names(doc) : LeadsTo(doc)[n] = Targets(doc, n)
      /\ Reached(doc, roots) = Followed(roots, LeadsTo(doc))
    BY DEF LeadsTo, Reached
<1>2. IsFiniteSet(Names(doc))
    BY DEF IsDocument, IsTable, Names
<1>3. roots \subseteq Followed(roots, LeadsTo(doc))
    BY <1>1, <1>2, FollowedRoots
<1>4. \A n \in Followed(roots, LeadsTo(doc)) \cap Names(doc) :
         LeadsTo(doc)[n] \subseteq Followed(roots, LeadsTo(doc))
    BY <1>1, <1>2, FollowedClosed
<1>5. ASSUME NEW C, roots \subseteq C,
             \A n \in C \cap Names(doc) : Targets(doc, n) \subseteq C
      PROVE  Followed(roots, LeadsTo(doc)) \subseteq C
    <2>1. \A n \in C \cap DOMAIN LeadsTo(doc) : LeadsTo(doc)[n] \subseteq C
        BY <1>1, <1>5
    <2> QED BY <1>1, <1>2, <1>5, <2>1, FollowedLeast
<1> QED BY <1>1, <1>3, <1>4, <1>5

LEMMA ReachedSupports ==
    ASSUME NEW doc, IsDocument(doc)
    PROVE  /\ computeReachableComponentNames(doc) \subseteq Names(doc) =>
                 Supports(doc, computeReachableComponentNames(doc))
           /\ \A C : Supports(doc, C) =>
                        computeReachableComponentNames(doc) \subseteq C
<1> DEFINE R == computeReachableComponentNames(doc)
<1>1. R = Reached(doc, Roots(doc))
    BY DEF computeReachableComponentNames, Roots
<1>2. /\ Roots(doc) \subseteq R
      /\ \A n \in R \cap Names(doc) : Targets(doc, n) \subseteq R
      /\ \A C : /\ Roots(doc) \subseteq C
                /\ \A n \in C \cap Names(doc) : Targets(doc, n) \subseteq C
                => R \subseteq C
    BY <1>1, ReachedIs
<1> HIDE DEF R
<1>3. ASSUME R \subseteq Names(doc) PROVE Supports(doc, R)
    <2>1. \A n \in R : Targets(doc, n) \subseteq R
        BY <1>2, <1>3
    <2>2. \A n \in R : /\ RefersWithin(doc.schemas[n].fields, R)
                       /\ doc.schemas[n].bases \subseteq R
        BY <1>3, <2>1, TargetsWithin
    <2> QED BY <1>2, <1>3, <2>2, RootsWithin DEF Supports
<1>4. ASSUME NEW C, Supports(doc, C) PROVE R \subseteq C
    <2>1. Roots(doc) \subseteq C
        BY <1>4, RootsWithin DEF Supports
    <2>2. \A n \in C \cap Names(doc) : Targets(doc, n) \subseteq C
        BY <1>4, TargetsWithin DEF Supports
    <2> QED BY <1>2, <2>1, <2>2
<1> QED BY <1>3, <1>4 DEF R

LEMMA PascalOfNames ==
    /\ \A n : ValidKey(n) => toPascalCase(n) = n
    /\ \A n : toPascalCase(n) \in EXPECTED_ORPHANED_COMPONENTS =>
                toPascalCase(n) = n
<1>1. \A n : ValidKey(n) => toPascalCase(n) = n
    BY DEF ValidKey, toPascalCase
<1>2. ASSUME NEW n, toPascalCase(n) \in EXPECTED_ORPHANED_COMPONENTS
      PROVE  toPascalCase(n) = n
    BY <1>2 DEF toPascalCase, EXPECTED_ORPHANED_COMPONENTS
<1> QED BY <1>1, <1>2

LEMMA NormalizedSupports ==
    ASSUME NEW doc, IsDocument(doc), ~RenameFails(doc), NEW C, Supports(doc, C)
    PROVE  Supports(normalizeComponentKeys(doc), Renamed(C))
<1> DEFINE new == normalizeComponentKeys(doc)
<1>1. /\ Names(new) = Renamed(Names(doc))
      /\ \A n \in Names(doc) :
            new.schemas[toPascalCase(n)] =
              [fields |-> RepointedAll(doc.schemas[n].fields),
               bases |-> Renamed(doc.schemas[n].bases)]
      /\ DOMAIN new.ops = DOMAIN doc.ops
      /\ \A o \in DOMAIN doc.ops :
            new.ops[o] = [params |-> RepointedAll(doc.ops[o].params),
                          body |-> Repointed(doc.ops[o].body),
                          answers |-> RepointedAll(doc.ops[o].answers),
                          responds |-> doc.ops[o].responds]
    BY NormalizedIs
<1> HIDE DEF new
<1>2. \A names : names \subseteq C => Renamed(names) \subseteq Renamed(C)
    BY DEF Renamed
<1>3. ASSUME NEW nodes, IsNodes(nodes), RefersWithin(nodes, C)
      PROVE  RefersWithin(RepointedAll(nodes), Renamed(C))
    <2>1. \A k \in DOMAIN nodes : Repointed(nodes[k]).refs \subseteq Renamed(C)
        BY <1>2, <1>3, RepointedNode DEF IsNodes, RefersWithin
    <2> QED BY <2>1 DEF RefersWithin, RepointedAll
<1>4. Renamed(C) \subseteq Names(new)
    BY <1>1 DEF Supports, Renamed
<1>5. ASSUME NEW o \in DOMAIN new.ops
      PROVE  /\ RefersWithin(new.ops[o].params, Renamed(C))
             /\ new.ops[o].body.refs \subseteq Renamed(C)
             /\ RefersWithin(new.ops[o].answers, Renamed(C))
    <2>1. /\ IsNodes(doc.ops[o].params) /\ IsNode(doc.ops[o].body)
          /\ IsNodes(doc.ops[o].answers)
        BY <1>1 DEF IsDocument, IsOperation
    <2>2. /\ RefersWithin(doc.ops[o].params, C)
          /\ doc.ops[o].body.refs \subseteq C
          /\ RefersWithin(doc.ops[o].answers, C)
        BY <1>1 DEF Supports
    <2>3. /\ new.ops[o].params = RepointedAll(doc.ops[o].params)
          /\ new.ops[o].body = Repointed(doc.ops[o].body)
          /\ new.ops[o].answers = RepointedAll(doc.ops[o].answers)
        <3>1. new.ops[o] = [params |-> RepointedAll(doc.ops[o].params),
                            body |-> Repointed(doc.ops[o].body),
                            answers |-> RepointedAll(doc.ops[o].answers),
                            responds |-> doc.ops[o].responds]
            BY <1>1
        <3> QED BY <3>1
    <2> QED BY <1>2, <1>3, <2>1, <2>2, <2>3, RepointedNode
<1>6. ASSUME NEW key \in Renamed(C)
      PROVE  /\ RefersWithin(new.schemas[key].fields, Renamed(C))
             /\ new.schemas[key].bases \subseteq Renamed(C)
    <2>1. PICK n \in C : key = toPascalCase(n)
        BY DEF Renamed
    <2>2. /\ n \in Names(doc) /\ RefersWithin(doc.schemas[n].fields, C)
          /\ doc.schemas[n].bases \subseteq C
        BY DEF Supports
    <2>3. IsNodes(doc.schemas[n].fields)
        BY <2>2 DEF IsDocument, IsSchema
    <2>4. /\ new.schemas[key].fields = RepointedAll(doc.schemas[n].fields)
          /\ new.schemas[key].bases = Renamed(doc.schemas[n].bases)
        <3>1. new.schemas[key] = [fields |-> RepointedAll(doc.schemas[n].fields),
                                  bases |-> Renamed(doc.schemas[n].bases)]
            BY <1>1, <2>1, <2>2
        <3> QED BY <3>1
    <2> QED BY <1>2, <1>3, <2>2, <2>3, <2>4
<1> QED BY <1>4, <1>5, <1>6 DEF Supports, new

LEMMA WithFieldsSupports ==
    ASSUME NEW doc, IsDocument(doc), NEW nodes,
           \A a \in DOMAIN nodes : IsNode(nodes[a]),
           NEW C, Supports(doc, C),
           \A n \in C : \A f : <<n, f>> \in DOMAIN nodes =>
                                nodes[<<n, f>>].refs \subseteq C
    PROVE  Supports(WithFields(doc, nodes), C)
<1> DEFINE new == WithFields(doc, nodes)
<1>1. /\ Names(new) = Names(doc)
      /\ new.ops = doc.ops
      /\ \A n \in Names(doc) :
            /\ new.schemas[n].bases = doc.schemas[n].bases
            /\ DOMAIN new.schemas[n].fields = DOMAIN doc.schemas[n].fields
            /\ \A f \in DOMAIN doc.schemas[n].fields :
                  new.schemas[n].fields[f] =
                     IF <<n, f>> \in DOMAIN nodes THEN nodes[<<n, f>>]
                     ELSE doc.schemas[n].fields[f]
    BY WithFieldsIs
<1> HIDE DEF new
<1>2. ASSUME NEW n \in C
      PROVE  RefersWithin(new.schemas[n].fields, C)
    <2>1. n \in Names(doc) /\ RefersWithin(doc.schemas[n].fields, C)
        BY DEF Supports
    <2> QED BY <1>1, <2>1 DEF RefersWithin
<1>3. \A n \in C : n \in Names(doc) /\ doc.schemas[n].bases \subseteq C
    BY DEF Supports
<1> QED BY <1>1, <1>2, <1>3 DEF Supports, new

LEMMA RefNode ==
    ASSUME NEW name
    PROVE  IsNode(Ref(name)) /\ Ref(name).refs = {name} /\ Ref(name).form = "ref"
BY DEF IsNode, Ref, Node

LEMMA SplitSupports ==
    ASSUME NEW doc, IsDocument(doc), Split(doc, TheSplit).missing = {},
           NEW C, Supports(doc, C)
    PROVE  Supports(Split(doc, TheSplit).doc, C \cup {TheSplit.requestSchema})
<1> DEFINE shared == TheSplit.sharedSchema
           clone == TheSplit.requestSchema
           places == SplitFields(doc, TheSplit)
           with == Retargeted(doc, TheSplit)
           new == Split(doc, TheSplit).doc
           D == C \cup {clone}
<1>1. TheSplit \in REQUEST_RESPONSE_SPLITS /\ TheSplit.bodies # {}
    BY DEF REQUEST_RESPONSE_SPLITS, TheSplit
<1>2. /\ shared \in Names(doc)
      /\ Names(new) = Names(doc) \cup {clone}
      /\ new.schemas[clone] = with.schemas[shared]
      /\ \A n \in Names(doc) \ {clone} : new.schemas[n] = with.schemas[n]
      /\ DOMAIN new.ops = DOMAIN doc.ops
      /\ \A o \in DOMAIN doc.ops :
            /\ new.ops[o].params = doc.ops[o].params
            /\ new.ops[o].answers = doc.ops[o].answers
            /\ \/ new.ops[o].body = doc.ops[o].body
               \/ new.ops[o].body = Ref(clone)
      /\ \A o \in TheSplit.bodies :
            o \in DOMAIN doc.ops /\ doc.ops[o].body = Ref(shared)
    BY <1>1, SplitIs
<1>3. shared \in C
    <2>1. PICK o \in TheSplit.bodies : TRUE
        BY <1>1
    <2>2. o \in DOMAIN doc.ops /\ doc.ops[o].body.refs = {shared}
        BY <1>2, RefNode
    <2> QED BY <2>2 DEF Supports
<1> HIDE DEF shared, clone, new
<1>4. \A n \in C : /\ n \in Names(doc)
                   /\ RefersWithin(with.schemas[n].fields, D)
                   /\ with.schemas[n].bases \subseteq D
    <2>1. /\ IsNode(Ref(clone)) /\ Ref(clone).refs = {clone}
          /\ with = WithFields(doc, Alike(places, Ref(clone)))
        BY RefNode DEF clone, Retargeted
    <2> HIDE DEF places, with
    <2>2. \A n \in Names(doc) :
            /\ with.schemas[n].bases = doc.schemas[n].bases
            /\ DOMAIN with.schemas[n].fields = DOMAIN doc.schemas[n].fields
            /\ \A f \in DOMAIN doc.schemas[n].fields :
                  with.schemas[n].fields[f] =
                     IF <<n, f>> \in places THEN Ref(clone)
                     ELSE doc.schemas[n].fields[f]
        BY <2>1, SameNodeIs
    <2>3. ASSUME NEW n \in C
          PROVE  /\ n \in Names(doc)
                 /\ RefersWithin(with.schemas[n].fields, D)
                 /\ with.schemas[n].bases \subseteq D
        <3>1. /\ n \in Names(doc) /\ RefersWithin(doc.schemas[n].fields, C)
              /\ doc.schemas[n].bases \subseteq C
            BY DEF Supports
        <3>2. \A f \in DOMAIN with.schemas[n].fields :
                 with.schemas[n].fields[f].refs \subseteq D
            BY <2>1, <2>2, <3>1 DEF RefersWithin
        <3> QED BY <2>2, <3>1, <3>2 DEF RefersWithin
    <2> QED BY <2>3
<1> HIDE DEF with, places
<1>5. D \subseteq Names(new)
    BY <1>2, <1>4
<1>6. ASSUME NEW n \in D
      PROVE  /\ RefersWithin(new.schemas[n].fields, D)
             /\ new.schemas[n].bases \subseteq D
    <2>1. CASE n = clone
        BY <1>2, <1>3, <1>4, <2>1
    <2>2. CASE n # clone
        BY <1>2, <1>4, <2>2
    <2> QED BY <2>1, <2>2
<1>7. ASSUME NEW o \in DOMAIN new.ops
      PROVE  /\ RefersWithin(new.ops[o].params, D)
             /\ new.ops[o].body.refs \subseteq D
             /\ RefersWithin(new.ops[o].answers, D)
    <2>1. /\ RefersWithin(doc.ops[o].params, C)
          /\ doc.ops[o].body.refs \subseteq C
          /\ RefersWithin(doc.ops[o].answers, C)
        BY <1>2 DEF Supports
    <2>2. /\ new.ops[o].params = doc.ops[o].params
          /\ new.ops[o].answers = doc.ops[o].answers
          /\ \/ new.ops[o].body = doc.ops[o].body
             \/ new.ops[o].body = Ref(clone)
        BY <1>2
    <2>3. RefersWithin(new.ops[o].params, D) /\ RefersWithin(new.ops[o].answers, D)
        BY <2>1, <2>2 DEF RefersWithin
    <2> QED BY <2>1, <2>2, <2>3, RefNode
<1>8. Supports(new, D)
    BY <1>5, <1>6, <1>7 DEF Supports
<1> QED BY <1>8 DEF new, clone

LEMMA AnsweredSupports ==
    ASSUME NEW doc, IsDocument(doc), NEW C, Supports(doc, C)
    PROVE  Supports(patchMissingSuccessResponses(doc).doc, C)
<1> DEFINE new == patchMissingSuccessResponses(doc).doc
<1>1. /\ new.schemas = doc.schemas
      /\ DOMAIN new.ops = DOMAIN doc.ops
      /\ \A o \in DOMAIN doc.ops :
            /\ new.ops[o].params = doc.ops[o].params
            /\ new.ops[o].body = doc.ops[o].body
            /\ \A code \in DOMAIN new.ops[o].answers :
                  new.ops[o].answers[code] \in AnswerNodes(doc.ops[o])
    BY AnsweredIs
<1> HIDE DEF new
<1>2. ASSUME NEW o \in DOMAIN doc.ops
      PROVE  RefersWithin(new.ops[o].answers, C)
    <2>1. RefersWithin(doc.ops[o].answers, C)
        BY DEF Supports
    <2>2. \A node \in AnswerNodes(doc.ops[o]) : node.refs \subseteq C
        BY <2>1 DEF RefersWithin, AnswerNodes, Range
    <2> QED BY <1>1, <2>2 DEF RefersWithin
<1> QED BY <1>1, <1>2 DEF Supports, Names, new

LEMMA PrunedSupports ==
    ASSUME NEW doc, IsDocument(doc), NEW old, NEW C, Supports(doc, C)
    PROVE  Supports(pruneOrphanedContextSchemas(doc, old).doc,
                    computeReachableComponentNames(doc))
<1> DEFINE new == pruneOrphanedContextSchemas(doc, old).doc
           R == computeReachableComponentNames(doc)
<1>1. R \subseteq Names(doc) /\ Supports(doc, R)
    <2>1. R \subseteq C
        BY ReachedSupports
    <2>2. C \subseteq Names(doc)
        BY DEF Supports
    <2> QED BY <2>1, <2>2, ReachedSupports
<1>2. /\ new.ops = doc.ops
      /\ \A n \in Names(new) : new.schemas[n] = doc.schemas[n]
      /\ \A n \in Names(doc) \ Names(new) : n \notin R
    BY PrunedIs
<1> HIDE DEF new, R
<1>3. R \subseteq Names(new)
    BY <1>1, <1>2
<1>4. Supports(new, R)
    BY <1>1, <1>2, <1>3 DEF Supports
<1> QED BY <1>4 DEF new, R

LEMMA FixedSupports ==
    ASSUME NEW doc, IsDocument(doc), NEW C, Supports(doc, C)
    PROVE  Supports(fixMalformedNonStringConstraints(doc), C)
<1> DEFINE new == fixMalformedNonStringConstraints(doc)
<1>1. /\ Names(new) = Names(doc)
      /\ \A n \in Names(doc) :
            new.schemas[n] = [fields |-> FixedAll(doc.schemas[n].fields),
                              bases |-> doc.schemas[n].bases]
      /\ DOMAIN new.ops = DOMAIN doc.ops
      /\ \A o \in DOMAIN doc.ops :
            new.ops[o] = [params |-> FixedAll(doc.ops[o].params),
                          body |-> Fixed(doc.ops[o].body),
                          answers |-> FixedAll(doc.ops[o].answers),
                          responds |-> doc.ops[o].responds]
    BY FixedIs
<1> HIDE DEF new
<1>2. ASSUME NEW nodes, IsNodes(nodes), RefersWithin(nodes, C)
      PROVE  RefersWithin(FixedAll(nodes), C)
    BY <1>2, FixedNode DEF RefersWithin, IsNodes, FixedAll
<1>3. ASSUME NEW o \in DOMAIN new.ops
      PROVE  /\ RefersWithin(new.ops[o].params, C)
             /\ new.ops[o].body.refs \subseteq C
             /\ RefersWithin(new.ops[o].answers, C)
    <2>1. /\ IsNodes(doc.ops[o].params) /\ IsNode(doc.ops[o].body)
          /\ IsNodes(doc.ops[o].answers)
        BY <1>1 DEF IsDocument, IsOperation
    <2>2. /\ RefersWithin(doc.ops[o].params, C)
          /\ doc.ops[o].body.refs \subseteq C
          /\ RefersWithin(doc.ops[o].answers, C)
        BY <1>1 DEF Supports
    <2>3. /\ new.ops[o].params = FixedAll(doc.ops[o].params)
          /\ new.ops[o].body = Fixed(doc.ops[o].body)
          /\ new.ops[o].answers = FixedAll(doc.ops[o].answers)
        <3>1. new.ops[o] = [params |-> FixedAll(doc.ops[o].params),
                            body |-> Fixed(doc.ops[o].body),
                            answers |-> FixedAll(doc.ops[o].answers),
                            responds |-> doc.ops[o].responds]
            BY <1>1
        <3> QED BY <3>1
    <2> QED BY <1>2, <2>1, <2>2, <2>3, FixedNode
<1>4. ASSUME NEW n \in C
      PROVE  /\ RefersWithin(new.schemas[n].fields, C)
             /\ new.schemas[n].bases \subseteq C
    <2>1. /\ n \in Names(doc) /\ RefersWithin(doc.schemas[n].fields, C)
          /\ doc.schemas[n].bases \subseteq C
        BY DEF Supports
    <2>2. IsNodes(doc.schemas[n].fields)
        BY <2>1 DEF IsDocument, IsSchema
    <2>3. /\ new.schemas[n].fields = FixedAll(doc.schemas[n].fields)
          /\ new.schemas[n].bases = doc.schemas[n].bases
        <3>1. new.schemas[n] = [fields |-> FixedAll(doc.schemas[n].fields),
                                bases |-> doc.schemas[n].bases]
            BY <1>1, <2>1
        <3> QED BY <3>1
    <2> QED BY <1>2, <2>1, <2>2, <2>3
<1> QED BY <1>1, <1>3, <1>4 DEF Supports, new

\* The node an anchor is found to be.
Anchored(doc, n, f, node) ==
    HasField(doc, n, f) /\ doc.schemas[n].fields[f] = node

LEMMA WithFieldsAnchored ==
    ASSUME NEW doc, IsDocument(doc), NEW nodes,
           \A a \in DOMAIN nodes : IsNode(nodes[a]), NEW n, NEW f
    PROVE  LET new == WithFields(doc, nodes)
           IN  /\ <<n, f>> \in DOMAIN nodes /\ HasField(doc, n, f) =>
                     Anchored(new, n, f, nodes[<<n, f>>])
               /\ \A was : /\ <<n, f>> \notin DOMAIN nodes
                           /\ Anchored(doc, n, f, was)
                           => Anchored(new, n, f, was)
<1> DEFINE new == WithFields(doc, nodes)
<1>1. /\ Names(new) = Names(doc)
      /\ \A m \in Names(doc) :
            /\ DOMAIN new.schemas[m].fields = DOMAIN doc.schemas[m].fields
            /\ \A g \in DOMAIN doc.schemas[m].fields :
                  new.schemas[m].fields[g] =
                     IF <<m, g>> \in DOMAIN nodes THEN nodes[<<m, g>>]
                     ELSE doc.schemas[m].fields[g]
    BY WithFieldsIs
<1> HIDE DEF new
<1>2. HasField(doc, n, f) =>
         /\ HasField(new, n, f)
         /\ new.schemas[n].fields[f] =
               IF <<n, f>> \in DOMAIN nodes THEN nodes[<<n, f>>]
               ELSE doc.schemas[n].fields[f]
    BY <1>1 DEF HasField
<1> QED BY <1>2 DEF Anchored, new

LEMMA SplitAnchored ==
    ASSUME NEW doc, IsDocument(doc), Split(doc, TheSplit).missing = {},
           NEW n, n # TheSplit.requestSchema, NEW f,
           <<n, f>> \notin TheSplit.fields, NEW node, Anchored(doc, n, f, node)
    PROVE  Anchored(Split(doc, TheSplit).doc, n, f, node)
<1> DEFINE with == Retargeted(doc, TheSplit)
           new == Split(doc, TheSplit).doc
           places == SplitFields(doc, TheSplit)
           clone == Ref(TheSplit.requestSchema)
<1>1. TheSplit \in REQUEST_RESPONSE_SPLITS
    BY DEF REQUEST_RESPONSE_SPLITS, TheSplit
<1>2. /\ Names(new) = Names(doc) \cup {TheSplit.requestSchema}
      /\ \A m \in Names(doc) \ {TheSplit.requestSchema} :
            new.schemas[m] = with.schemas[m]
    BY <1>1, SplitIs
<1>3. <<n, f>> \notin places
    BY Zenon DEF SplitFields
<1>4. with = WithFields(doc, Alike(places, clone)) /\ IsNode(clone)
    BY RefNode DEF Retargeted
<1> HIDE DEF places, with, clone
<1>5. Anchored(with, n, f, node)
    <2> DEFINE nodes == Alike(places, clone)
    <2>1. DOMAIN nodes = places /\ \A a \in DOMAIN nodes : IsNode(nodes[a])
        BY <1>4 DEF Alike
    <2>2. with = WithFields(doc, nodes)
        BY <1>4
    <2> HIDE DEF nodes
    <2> QED BY <1>3, <2>1, <2>2, WithFieldsAnchored
<1>6. Names(with) = Names(doc)
    BY <1>4, SameNodeIs
<1>7. new.schemas[n] = with.schemas[n]
    BY <1>2, <1>5, <1>6 DEF Anchored, HasField
<1> HIDE DEF new
<1> QED BY <1>2, <1>5, <1>6, <1>7 DEF Anchored, HasField, new

LEMMA AnsweredAnchored ==
    ASSUME NEW doc, IsDocument(doc), NEW n, NEW f, NEW node,
           Anchored(doc, n, f, node)
    PROVE  Anchored(patchMissingSuccessResponses(doc).doc, n, f, node)
<1>1. patchMissingSuccessResponses(doc).doc.schemas = doc.schemas
    BY AnsweredIs
<1> QED BY <1>1 DEF Anchored, HasField, Names

LEMMA PrunedAnchored ==
    ASSUME NEW doc, IsDocument(doc), NEW old, NEW n,
           n \notin EXPECTED_ORPHANED_COMPONENTS, NEW f, NEW node,
           Anchored(doc, n, f, node)
    PROVE  Anchored(pruneOrphanedContextSchemas(doc, old).doc, n, f, node)
<1> DEFINE new == pruneOrphanedContextSchemas(doc, old).doc
<1>1. n \in Names(new) /\ new.schemas[n] = doc.schemas[n]
    BY PrunedIs DEF Anchored, HasField
<1> HIDE DEF new
<1> QED BY <1>1 DEF Anchored, HasField, new

LEMMA FixedAnchored ==
    ASSUME NEW doc, IsDocument(doc), NEW n, NEW f, NEW node, IsNode(node),
           node.form \notin {"patternOnNumber", "doubledEnum"},
           Anchored(doc, n, f, node)
    PROVE  Anchored(fixMalformedNonStringConstraints(doc), n, f, node)
<1> DEFINE new == fixMalformedNonStringConstraints(doc)
<1>1. /\ Names(new) = Names(doc)
      /\ new.schemas[n] = [fields |-> FixedAll(doc.schemas[n].fields),
                           bases |-> doc.schemas[n].bases]
    BY FixedIs DEF Anchored, HasField
<1> HIDE DEF new
<1>2. new.schemas[n].fields = FixedAll(doc.schemas[n].fields)
    BY <1>1
<1>4. Fixed(node) = node
    BY FixedNode
<1> QED BY <1>1, <1>2, <1>4 DEF Anchored, HasField, FixedAll, new

\* The timestamps: none is in the alert's context, in a component that is
\* pruned or split, or in one that is renamed.
LEMMA TimestampsAre ==
    /\ \A n \in DOMAIN TIMESTAMP_FIELDS : \A f \in TIMESTAMP_FIELDS[n] :
          /\ n \notin EXPECTED_ORPHANED_COMPONENTS
          /\ n # TheSplit.requestSchema
          /\ <<n, f>> # <<"Alert", "alertContext">>
          /\ <<n, f>> \notin TheSplit.fields
          /\ \A m : toPascalCase(m) = n => m = n
    /\ "Alert" \notin EXPECTED_ORPHANED_COMPONENTS
    /\ "Alert" # TheSplit.requestSchema
    /\ <<"Alert", "alertContext">> \notin TheSplit.fields
<1>1. DOMAIN TIMESTAMP_FIELDS = {"Device", "AuthUser", "Alert"}
    BY DEF TIMESTAMP_FIELDS
<1>2. "alertContext" \notin TIMESTAMP_FIELDS["Alert"]
    BY DEF TIMESTAMP_FIELDS
<1>3. \A n \in {"Device", "AuthUser", "Alert"} :
         n \notin EXPECTED_ORPHANED_COMPONENTS /\ n # TheSplit.requestSchema
    BY DEF EXPECTED_ORPHANED_COMPONENTS, TheSplit
<1>4. \A n \in {"Device", "AuthUser", "Alert"} : \A f :
         <<n, f>> \notin TheSplit.fields
    BY DEF TheSplit
<1>5. \A n \in {"Device", "AuthUser", "Alert"} : \A m :
         toPascalCase(m) = n => m = n
    BY DEF toPascalCase
<1> QED BY <1>1, <1>2, <1>3, <1>4, <1>5

\* What a timestamp becomes.
LEMMA TimestampNode ==
    ASSUME NEW node, IsNode(node)
    PROVE  /\ IsNode(AsTimestamp(node)) /\ AsTimestamp(node).refs = node.refs
           /\ Composed(node) => AsTimestamp(node) = node
           /\ ~Composed(node) => AsTimestamp(node).form = "epoch"
           /\ AsTimestamp(node).form \notin {"patternOnNumber", "doubledEnum"}
<1>1. node = [form |-> node.form, refs |-> node.refs]
    BY DEF IsNode, Node
<1>2. [node EXCEPT !.form = "epoch"] = [form |-> "epoch", refs |-> node.refs]
    BY <1>1
<1>3. CASE Composed(node)
    BY <1>3 DEF AsTimestamp, Composed
<1>4. CASE ~Composed(node)
    <2>1. AsTimestamp(node) = [form |-> "epoch", refs |-> node.refs]
        BY <1>2, <1>4 DEF AsTimestamp
    <2> HIDE <1>1
    <2> QED BY <1>4, <2>1 DEF IsNode, Node
<1> QED BY <1>3, <1>4

LEMMA PatchedSteps ==
    ASSUME NEW doc, patchSpec(doc).missing = {}
    PROVE  LET first == normalizeComponentKeys(doc)
               times == patchTimestamps(first)
               context == patchAlertContext(times.doc)
               splits == Split(context.doc, TheSplit)
               typed == patchMissingSuccessResponses(splits.doc)
               pruned == pruneOrphanedContextSchemas(typed.doc,
                                                     oldContextNames(first))
           IN  /\ patchSpec(doc).doc =
                     fixMalformedNonStringConstraints(pruned.doc)
               /\ times.missing = {} /\ context.missing = {}
               /\ splits.missing = {} /\ typed.missing = {}
<1> DEFINE first == normalizeComponentKeys(doc)
           times == patchTimestamps(first)
           context == patchAlertContext(times.doc)
           splits == Split(context.doc, TheSplit)
           typed == patchMissingSuccessResponses(splits.doc)
           old == oldContextNames(first)
           pruned == pruneOrphanedContextSchemas(typed.doc, old)
<1>1. /\ patchRequestResponseSplits(context.doc).doc = splits.doc
      /\ patchRequestResponseSplits(context.doc).missing = splits.missing
    BY SplitsAre DEF Corrected
<1>2. patchSpec(doc) =
         Corrected(fixMalformedNonStringConstraints(pruned.doc),
                   UNION {times.missing, context.missing, splits.missing,
                          typed.missing, pruned.missing})
    BY <1>1, Zenon DEF patchSpec
<1> HIDE DEF first, times, context, splits, typed, old, pruned
<1>3. /\ patchSpec(doc).doc = fixMalformedNonStringConstraints(pruned.doc)
      /\ UNION {times.missing, context.missing, splits.missing, typed.missing,
                pruned.missing} = {}
    BY <1>2 DEF Corrected
<1>4. /\ times.missing = {} /\ context.missing = {}
      /\ splits.missing = {} /\ typed.missing = {}
    BY <1>3
<1> QED BY <1>3, <1>4 DEF first, times, context, splits, typed, old, pruned

LEMMA TimestampsIs ==
    ASSUME NEW doc, IsDocument(doc), patchTimestamps(doc).missing = {}
    PROVE  LET new == patchTimestamps(doc).doc
           IN  /\ IsDocument(new)
               /\ Names(new) = Names(doc)
               /\ new.ops = doc.ops
               /\ \A C : Supports(doc, C) => Supports(new, C)
               /\ \A n \in DOMAIN TIMESTAMP_FIELDS :
                     \A f \in TIMESTAMP_FIELDS[n] :
                        /\ HasField(doc, n, f)
                        /\ Anchored(new, n, f,
                                    AsTimestamp(doc.schemas[n].fields[f]))
<1> DEFINE anchors == UNION {{<<n, f>> : f \in TIMESTAMP_FIELDS[n]} :
                               n \in DOMAIN TIMESTAMP_FIELDS}
           found == {a \in anchors : HasField(doc, a[1], a[2])}
           nodes == [a \in found |-> AsTimestamp(doc.schemas[a[1]].fields[a[2]])]
           new == WithFields(doc, nodes)
<1>1. /\ patchTimestamps(doc).doc = new
      /\ anchors \ found = {}
    BY DEF patchTimestamps, Corrected
<1>2. ASSUME NEW a \in found
      PROVE  /\ HasField(doc, a[1], a[2])
             /\ IsNode(doc.schemas[a[1]].fields[a[2]])
    <2>1. HasField(doc, a[1], a[2])
        OBVIOUS
    <2> QED BY <2>1, NodesAreNodes DEF HasField
<1>3. ASSUME NEW n \in DOMAIN TIMESTAMP_FIELDS, NEW f \in TIMESTAMP_FIELDS[n]
      PROVE  <<n, f>> \in found /\ HasField(doc, n, f)
    <2>1. <<n, f>> \in anchors
        OBVIOUS
    <2>2. <<n, f>> \in found
        BY <1>1, <2>1
    <2>3. HasField(doc, <<n, f>>[1], <<n, f>>[2])
        BY <2>2
    <2> QED BY <2>2, <2>3
<1> HIDE DEF found, anchors
<1>4. /\ DOMAIN nodes = found
      /\ \A a \in found : nodes[a] = AsTimestamp(doc.schemas[a[1]].fields[a[2]])
    OBVIOUS
<1> HIDE DEF nodes
<1>5. \A a \in DOMAIN nodes : IsNode(nodes[a])
    BY <1>2, <1>4, TimestampNode
<1>6. /\ IsDocument(new) /\ Names(new) = Names(doc) /\ new.ops = doc.ops
    BY <1>5, WithFieldsIs
<1>7. ASSUME NEW C, Supports(doc, C)
      PROVE  Supports(new, C)
    <2>1. ASSUME NEW n \in C, NEW f, <<n, f>> \in DOMAIN nodes
          PROVE  nodes[<<n, f>>].refs \subseteq C
        <3>1. RefersWithin(doc.schemas[n].fields, C)
            BY <1>7 DEF Supports
        <3>2. /\ HasField(doc, n, f) /\ IsNode(doc.schemas[n].fields[f])
              /\ nodes[<<n, f>>] = AsTimestamp(doc.schemas[n].fields[f])
            <4>1. <<n, f>>[1] = n /\ <<n, f>>[2] = f
                OBVIOUS
            <4> QED BY <1>2, <1>4, <2>1, <4>1
        <3> QED BY <3>1, <3>2, TimestampNode DEF HasField, RefersWithin
    <2> QED BY <1>5, <1>7, <2>1, WithFieldsSupports
<1>8. \A n \in DOMAIN TIMESTAMP_FIELDS :
         \A f \in TIMESTAMP_FIELDS[n] :
            /\ HasField(doc, n, f)
            /\ Anchored(new, n, f, AsTimestamp(doc.schemas[n].fields[f]))
    <2> SUFFICES ASSUME NEW n \in DOMAIN TIMESTAMP_FIELDS,
                        NEW f \in TIMESTAMP_FIELDS[n]
                 PROVE  /\ HasField(doc, n, f)
                        /\ Anchored(new, n, f,
                                    AsTimestamp(doc.schemas[n].fields[f]))
        OBVIOUS
    <2>1. /\ <<n, f>> \in DOMAIN nodes /\ HasField(doc, n, f)
          /\ nodes[<<n, f>>] = AsTimestamp(doc.schemas[n].fields[f])
        BY <1>3, <1>4
    <2>2. Anchored(new, n, f, nodes[<<n, f>>])
        BY <1>5, <2>1, WithFieldsAnchored
    <2> QED BY <2>1, <2>2
<1> HIDE DEF new
<1> QED BY <1>1, <1>6, <1>7, <1>8

LEMMA ContextIs ==
    ASSUME NEW doc, IsDocument(doc), patchAlertContext(doc).missing = {}
    PROVE  LET new == patchAlertContext(doc).doc
           IN  /\ IsDocument(new)
               /\ Names(new) = Names(doc)
               /\ new.ops = doc.ops
               /\ \A C : Supports(doc, C) => Supports(new, C)
               /\ Anchored(new, "Alert", "alertContext", Open)
               /\ \A n, f, node : /\ <<n, f>> # <<"Alert", "alertContext">>
                                  /\ Anchored(doc, n, f, node)
                                  => Anchored(new, n, f, node)
<1> DEFINE place == <<"Alert", "alertContext">>
           nodes == [a \in {place} |-> Open]
           new == WithFields(doc, nodes)
<1>1. HasField(doc, "Alert", "alertContext")
    BY DEF patchAlertContext, Corrected
<1>2. patchAlertContext(doc).doc = new
    BY <1>1 DEF patchAlertContext, Corrected
<1>3. /\ DOMAIN nodes = {place} /\ nodes[place] = Open
      /\ IsNode(Open) /\ Open.refs = {}
    BY DEF IsNode, Open, Node
<1> HIDE DEF nodes
<1>4. \A a \in DOMAIN nodes : IsNode(nodes[a]) /\ nodes[a].refs = {}
    BY <1>3
<1>5. /\ IsDocument(new) /\ Names(new) = Names(doc) /\ new.ops = doc.ops
    BY <1>4, WithFieldsIs
<1>6. \A C : Supports(doc, C) => Supports(new, C)
    <2> SUFFICES ASSUME NEW C, Supports(doc, C) PROVE Supports(new, C)
        OBVIOUS
    <2>1. \A n \in C : \A f : <<n, f>> \in DOMAIN nodes =>
                                 nodes[<<n, f>>].refs \subseteq C
        BY <1>4
    <2> QED BY <1>4, <2>1, WithFieldsSupports
<1>7. Anchored(new, "Alert", "alertContext", Open)
    BY <1>1, <1>3, <1>4, WithFieldsAnchored
<1>8. ASSUME NEW n, NEW f, NEW node, <<n, f>> # place,
             Anchored(doc, n, f, node)
      PROVE  Anchored(new, n, f, node)
    <2>1. <<n, f>> \notin DOMAIN nodes
        BY <1>3, <1>8
    <2> QED BY <1>4, <1>8, <2>1, WithFieldsAnchored
<1> HIDE DEF new
<1> QED BY <1>2, <1>5, <1>6, <1>7, <1>8

\* What is promised of an operation's answer, after the correction.
Answered(op, after, o) ==
    IF ~op.responds \/ DOMAIN op.answers \cap {"200", "204"} # {}
    THEN DOMAIN after = DOMAIN op.answers
    ELSE \/ /\ "200" \in DOMAIN after
            /\ \A code \in DOMAIN op.answers :
                  after[code] \in {after["200"], NoSchema}
         \/ "200" \notin DOMAIN after /\ o \in VOID_WRITE_OPERATIONS

\* A timestamp by what it was published as.
TimedAs(doc, new, n, f) ==
    /\ HasField(doc, n, f)
    /\ Anchored(new, n, f, AsTimestamp(Repointed(doc.schemas[n].fields[f])))

\* Where the correction of a document finds all it looks for, what it makes
\* of it is whole.
LEMMA PatchedIs ==
    ASSUME NEW doc, IsDocument(doc), ~RenameFails(doc),
           patchSpec(doc).missing = {}
    PROVE  LET new == patchSpec(doc).doc
           IN  /\ IsDocument(new)
               /\ computeReachableComponentNames(doc) \subseteq Names(doc) =>
                     computeReachableComponentNames(new) \subseteq Names(new)
               /\ \A n \in Names(doc) :
                     \/ toPascalCase(n) \in Names(new)
                     \/ n \in EXPECTED_ORPHANED_COMPONENTS
               /\ DOMAIN new.ops = DOMAIN doc.ops
               /\ \A o \in DOMAIN doc.ops :
                     Answered(doc.ops[o], new.ops[o].answers, o)
               /\ \A n \in DOMAIN TIMESTAMP_FIELDS :
                     \A f \in TIMESTAMP_FIELDS[n] : TimedAs(doc, new, n, f)
               /\ Anchored(new, "Alert", "alertContext", Open)
               /\ fixMalformedNonStringConstraints(new) = new
               /\ Names(new) \subseteq
                     Renamed(Names(doc)) \cup {TheSplit.requestSchema}
<1> DEFINE first == normalizeComponentKeys(doc)
           times == patchTimestamps(first)
           context == patchAlertContext(times.doc)
           splits == Split(context.doc, TheSplit)
           typed == patchMissingSuccessResponses(splits.doc)
           old == oldContextNames(first)
           pruned == pruneOrphanedContextSchemas(typed.doc, old)
           new == patchSpec(doc).doc
<1>1. /\ new = fixMalformedNonStringConstraints(pruned.doc)
      /\ times.missing = {} /\ context.missing = {}
      /\ splits.missing = {} /\ typed.missing = {}
    BY PatchedSteps
<1>2. TheSplit \in REQUEST_RESPONSE_SPLITS
    BY DEF REQUEST_RESPONSE_SPLITS, TheSplit
\* Each step makes a document.
<1>3. IsDocument(first)
    BY NormalizedIs
<1> HIDE DEF first
<1>4. IsDocument(times.doc)
    BY <1>1, <1>3, TimestampsIs
<1> HIDE DEF times
<1>5. IsDocument(context.doc)
    BY <1>1, <1>4, ContextIs
<1> HIDE DEF context
<1>6. IsDocument(splits.doc)
    BY <1>1, <1>2, <1>5, SplitIs
<1> HIDE DEF splits
<1>7. IsDocument(typed.doc)
    BY <1>6, AnsweredIs
<1> HIDE DEF typed
<1>8. IsDocument(pruned.doc)
    BY <1>7, PrunedIs
<1> HIDE DEF pruned
<1>9. IsDocument(new)
    BY <1>1, <1>8, FixedIs
<1> HIDE DEF new
\* What is reached stays declared.
<1>10. ASSUME computeReachableComponentNames(doc) \subseteq Names(doc)
       PROVE  computeReachableComponentNames(new) \subseteq Names(new)
    <2>1. PICK C : Supports(doc, C)
        BY <1>10, ReachedSupports
    <2>2. Supports(first, Renamed(C))
        BY <2>1, NormalizedSupports DEF first
    <2>3. Supports(times.doc, Renamed(C))
        BY <1>1, <1>3, <2>2, TimestampsIs DEF times
    <2>4. Supports(context.doc, Renamed(C))
        BY <1>1, <1>4, <2>3, ContextIs DEF context
    <2>5. PICK D : Supports(splits.doc, D)
        BY <1>1, <1>5, <2>4, SplitSupports DEF splits
    <2>6. Supports(typed.doc, D)
        BY <1>6, <2>5, AnsweredSupports DEF typed
    <2>7. PICK E : Supports(pruned.doc, E)
        BY <1>7, <2>6, PrunedSupports DEF pruned
    <2>8. Supports(new, E)
        BY <1>1, <1>8, <2>7, FixedSupports
    <2>9. computeReachableComponentNames(new) \subseteq E
        BY <1>9, <2>8, ReachedSupports
    <2> QED BY <2>8, <2>9 DEF Supports
\* No component is lost but those expected to be.
<1>11. /\ Names(splits.doc) = Renamed(Names(doc)) \cup {TheSplit.requestSchema}
       /\ Names(new) \subseteq Names(splits.doc)
       /\ \A n \in Names(splits.doc) \ Names(new) :
             n \in EXPECTED_ORPHANED_COMPONENTS
    <2>1. Names(first) = Renamed(Names(doc))
        BY NormalizedIs DEF first
    <2>2. Names(times.doc) = Names(first)
        BY <1>1, <1>3, TimestampsIs DEF times
    <2>3. Names(context.doc) = Names(times.doc)
        BY <1>1, <1>4, ContextIs DEF context
    <2>4. Names(splits.doc) = Names(context.doc) \cup {TheSplit.requestSchema}
        BY <1>1, <1>2, <1>5, SplitIs DEF splits
    <2>5. Names(typed.doc) = Names(splits.doc)
        BY <1>6, AnsweredIs DEF typed, Names
    <2>6. /\ Names(pruned.doc) \subseteq Names(typed.doc)
          /\ \A n \in Names(typed.doc) \ Names(pruned.doc) :
                n \in EXPECTED_ORPHANED_COMPONENTS
        BY <1>7, PrunedIs DEF pruned
    <2>7. Names(new) = Names(pruned.doc)
        BY <1>1, <1>8, FixedIs
    <2> QED BY <2>1, <2>2, <2>3, <2>4, <2>5, <2>6, <2>7
<1>12. ASSUME NEW n \in Names(doc)
       PROVE  \/ toPascalCase(n) \in Names(new)
              \/ n \in EXPECTED_ORPHANED_COMPONENTS
    <2>1. toPascalCase(n) \in Names(splits.doc)
        BY <1>11 DEF Renamed
    <2> QED BY <1>11, <2>1, PascalOfNames
\* The answers.
<1>13. /\ DOMAIN first.ops = DOMAIN doc.ops
       /\ \A o \in DOMAIN doc.ops :
             /\ first.ops[o].answers = RepointedAll(doc.ops[o].answers)
             /\ first.ops[o].responds = doc.ops[o].responds
    <2>1. /\ DOMAIN first.ops = DOMAIN doc.ops
          /\ \A o \in DOMAIN doc.ops :
                first.ops[o] = [params |-> RepointedAll(doc.ops[o].params),
                                body |-> Repointed(doc.ops[o].body),
                                answers |-> RepointedAll(doc.ops[o].answers),
                                responds |-> doc.ops[o].responds]
        BY NormalizedIs DEF first
    <2>2. ASSUME NEW o \in DOMAIN doc.ops
          PROVE  /\ first.ops[o].answers = RepointedAll(doc.ops[o].answers)
                 /\ first.ops[o].responds = doc.ops[o].responds
        <3>1. first.ops[o] = [params |-> RepointedAll(doc.ops[o].params),
                              body |-> Repointed(doc.ops[o].body),
                              answers |-> RepointedAll(doc.ops[o].answers),
                              responds |-> doc.ops[o].responds]
            BY <2>1
        <3> QED BY <3>1
    <2> QED BY <2>1, <2>2
<1>14. /\ DOMAIN splits.doc.ops = DOMAIN first.ops
       /\ \A o \in DOMAIN first.ops :
             /\ splits.doc.ops[o].answers = first.ops[o].answers
             /\ splits.doc.ops[o].responds = first.ops[o].responds
    <2>1. times.doc.ops = first.ops
        BY <1>1, <1>3, TimestampsIs DEF times
    <2>2. context.doc.ops = times.doc.ops
        BY <1>1, <1>4, ContextIs DEF context
    <2>3. /\ DOMAIN splits.doc.ops = DOMAIN context.doc.ops
          /\ \A o \in DOMAIN context.doc.ops :
                /\ splits.doc.ops[o].answers = context.doc.ops[o].answers
                /\ splits.doc.ops[o].responds = context.doc.ops[o].responds
        BY <1>1, <1>2, <1>5, SplitIs DEF splits
    <2> QED BY <2>1, <2>2, <2>3
<1>15. /\ DOMAIN typed.doc.ops = DOMAIN splits.doc.ops
       /\ \A o \in DOMAIN splits.doc.ops :
             /\ AnsweredAs(splits.doc.ops[o], typed.doc.ops[o], o)
             /\ \A code \in DOMAIN typed.doc.ops[o].answers :
                   IsNode(typed.doc.ops[o].answers[code])
    <2>1. /\ DOMAIN typed.doc.ops = DOMAIN splits.doc.ops
          /\ \A o \in DOMAIN splits.doc.ops :
                AnsweredAs(splits.doc.ops[o], typed.doc.ops[o], o)
        BY <1>1, <1>6, AnsweredIs DEF typed
    <2>2. ASSUME NEW o \in DOMAIN typed.doc.ops,
                 NEW code \in DOMAIN typed.doc.ops[o].answers
          PROVE  IsNode(typed.doc.ops[o].answers[code])
        <3>1. IsOperation(typed.doc.ops[o])
            BY <1>7 DEF IsDocument
        <3> QED BY <3>1 DEF IsOperation, IsNodes
    <2> QED BY <2>1, <2>2
<1>16. /\ DOMAIN new.ops = DOMAIN typed.doc.ops
       /\ \A o \in DOMAIN typed.doc.ops :
             new.ops[o].answers = FixedAll(typed.doc.ops[o].answers)
    <2>1. pruned.doc.ops = typed.doc.ops
        BY <1>7, PrunedIs DEF pruned
    <2>2. /\ DOMAIN new.ops = DOMAIN pruned.doc.ops
          /\ \A o \in DOMAIN pruned.doc.ops :
                new.ops[o] = [params |-> FixedAll(pruned.doc.ops[o].params),
                              body |-> Fixed(pruned.doc.ops[o].body),
                              answers |-> FixedAll(pruned.doc.ops[o].answers),
                              responds |-> pruned.doc.ops[o].responds]
        BY <1>1, <1>8, FixedIs
    <2>3. ASSUME NEW o \in DOMAIN pruned.doc.ops
          PROVE  new.ops[o].answers = FixedAll(pruned.doc.ops[o].answers)
        <3>1. new.ops[o] = [params |-> FixedAll(pruned.doc.ops[o].params),
                            body |-> Fixed(pruned.doc.ops[o].body),
                            answers |-> FixedAll(pruned.doc.ops[o].answers),
                            responds |-> pruned.doc.ops[o].responds]
            BY <2>2
        <3> QED BY <3>1
    <2> QED BY <2>1, <2>2, <2>3
<1>17. ASSUME NEW o \in DOMAIN doc.ops
       PROVE  Answered(doc.ops[o], new.ops[o].answers, o)
    <2> DEFINE op == doc.ops[o]
               before == op.answers
               settled == \/ ~op.responds
                          \/ DOMAIN before \cap {"200", "204"} # {}
               mid == typed.doc.ops[o].answers
               after == new.ops[o].answers
    <2>1. /\ DOMAIN splits.doc.ops[o].answers = DOMAIN before
          /\ splits.doc.ops[o].responds = op.responds
        BY <1>13, <1>14 DEF RepointedAll
    <2>2. /\ AnsweredAs(splits.doc.ops[o], typed.doc.ops[o], o)
          /\ after = FixedAll(mid)
          /\ \A code \in DOMAIN mid : IsNode(mid[code])
        BY <1>13, <1>14, <1>15, <1>16
    <2>3. /\ DOMAIN after = DOMAIN mid
          /\ \A code \in DOMAIN mid : after[code] = Fixed(mid[code])
        BY <2>2 DEF FixedAll
    <2>4. Fixed(NoSchema) = NoSchema
        BY FixedNode DEF IsNode, NoSchema, Node
    <2>5. ~splits.doc.ops[o].responds \/ Typed(splits.doc.ops[o]) <=> settled
        BY <2>1 DEF Typed
    <2>6. IF settled THEN DOMAIN mid = DOMAIN before
          ELSE \/ /\ DOMAIN mid = DOMAIN before \cup {"200"}
                  /\ \A code \in DOMAIN before :
                        mid[code] \in {mid["200"], NoSchema}
               \/ DOMAIN mid = DOMAIN before /\ o \in VOID_WRITE_OPERATIONS
        BY <2>1, <2>2, <2>5 DEF AnsweredAs
    <2> SUFFICES Answered(op, after, o)
        OBVIOUS
    <2> HIDE DEF op, mid, after
    <2>7. CASE settled
        BY <2>3, <2>6, <2>7 DEF Answered
    <2>8. CASE /\ ~settled
               /\ DOMAIN mid = DOMAIN before \cup {"200"}
               /\ \A code \in DOMAIN before :
                     mid[code] \in {mid["200"], NoSchema}
        BY <2>3, <2>4, <2>8 DEF Answered
    <2>9. CASE /\ ~settled
               /\ DOMAIN mid = DOMAIN before /\ o \in VOID_WRITE_OPERATIONS
        BY <2>3, <2>9 DEF Answered
    <2> QED BY <2>6, <2>7, <2>8, <2>9
\* The anchors.
<1>18. \A n, f, node : /\ Anchored(context.doc, n, f, node)
                       /\ IsNode(node) /\ <<n, f>> \notin TheSplit.fields
                       /\ node.form \notin {"patternOnNumber", "doubledEnum"}
                       /\ n # TheSplit.requestSchema
                       /\ n \notin EXPECTED_ORPHANED_COMPONENTS
                       => Anchored(new, n, f, node)
    <2> SUFFICES ASSUME NEW n, NEW f, NEW node,
                        Anchored(context.doc, n, f, node), IsNode(node),
                        <<n, f>> \notin TheSplit.fields,
                        node.form \notin {"patternOnNumber", "doubledEnum"},
                        n # TheSplit.requestSchema,
                        n \notin EXPECTED_ORPHANED_COMPONENTS
                 PROVE  Anchored(new, n, f, node)
        OBVIOUS
    <2>2. Anchored(splits.doc, n, f, node)
        BY <1>1, <1>5, SplitAnchored DEF splits
    <2>3. Anchored(typed.doc, n, f, node)
        BY <1>6, <2>2, AnsweredAnchored DEF typed
    <2>4. Anchored(pruned.doc, n, f, node)
        BY <1>7, <2>3, PrunedAnchored DEF pruned
    <2> QED BY <1>1, <1>8, <2>4, FixedAnchored
<1>19. ASSUME NEW n \in DOMAIN TIMESTAMP_FIELDS, NEW f \in TIMESTAMP_FIELDS[n]
       PROVE  TimedAs(doc, new, n, f)
    <2> DEFINE was == doc.schemas[n].fields[f]
               node == AsTimestamp(Repointed(was))
    <2>1. /\ HasField(first, n, f)
          /\ Anchored(times.doc, n, f, AsTimestamp(first.schemas[n].fields[f]))
        BY <1>1, <1>3, TimestampsIs DEF times
    <2>2. HasField(doc, n, f) /\ first.schemas[n].fields[f] = Repointed(was)
        <3>1. PICK m \in Names(doc) : toPascalCase(m) = n
            BY <2>1, NormalizedIs DEF first, HasField, Renamed
        <3>2. n \in Names(doc) /\ toPascalCase(n) = n
            BY <3>1, TimestampsAre
        <3>3. first.schemas[n] = [fields |-> RepointedAll(doc.schemas[n].fields),
                                  bases |-> Renamed(doc.schemas[n].bases)]
            BY <3>2, NormalizedIs DEF first
        <3>4. first.schemas[n].fields = RepointedAll(doc.schemas[n].fields)
            BY <3>3
        <3> QED BY <2>1, <3>2, <3>4 DEF HasField, RepointedAll
    <2>3. IsNode(Repointed(was))
        BY <2>2, NodesAreNodes, RepointedNode DEF HasField
    <2>4. IsNode(node) /\ node.form \notin {"patternOnNumber", "doubledEnum"}
        BY <2>3, TimestampNode
    <2>5. Anchored(times.doc, n, f, node)
        BY <2>1, <2>2
    <2> HIDE DEF node
    <2>6. Anchored(context.doc, n, f, node)
        BY <1>1, <1>4, <2>5, ContextIs, TimestampsAre DEF context
    <2>7. Anchored(new, n, f, node)
        BY <1>18, <2>4, <2>6, TimestampsAre
    <2> QED BY <2>2, <2>7 DEF TimedAs, node
<1>20. Anchored(new, "Alert", "alertContext", Open)
    <2>1. Anchored(context.doc, "Alert", "alertContext", Open)
        BY <1>1, <1>4, ContextIs DEF context
    <2>2. IsNode(Open) /\ Open.form = "open"
        BY DEF IsNode, Open, Node
    <2> QED BY <1>18, <2>1, <2>2, TimestampsAre
<1>21. fixMalformedNonStringConstraints(new) = new
    BY <1>1, <1>8, FixedTwice
<1>22. DOMAIN new.ops = DOMAIN doc.ops
    BY <1>13, <1>14, <1>15, <1>16
<1>23. Names(new) \subseteq Renamed(Names(doc)) \cup {TheSplit.requestSchema}
    BY <1>11
<1> QED BY <1>9, <1>10, <1>12, <1>17, <1>19, <1>20, <1>21, <1>22, <1>23 DEF new

-----------------------------------------------------------------------------
(* The generated files *)

Holders(doc) == ComponentTypes(doc) \cup ParamsTypes(doc)

\* What a component's or a parameter list's file imports.
ImportsOf(names, holder, fields) ==
    {<<c>> : c \in names} \cup {<<holder, f>> : f \in EnumFields(fields)}
Imports(doc, t) ==
    ImportsOf(RefsIn(Range(FieldsOf(doc, t)))
                \cup (IF Len(t) = 1 THEN doc.schemas[t[1]].bases ELSE {}),
              t[1], FieldsOf(doc, t))

LEMMA GeneratedIs ==
    ASSUME NEW doc, NEW alias
    PROVE  LET files == Generated(doc, alias)
           IN  /\ DOMAIN files = Holders(doc) \cup EnumTypes(doc)
               /\ files = [t \in DOMAIN files |-> files[t]]
               /\ \A t \in DOMAIN files :
                     files[t] = IF t \in Holders(doc)
                                THEN File(Imports(doc, t), "none")
                                ELSE File({}, alias)
<1>1. Generated(doc, alias) =
         [t \in Holders(doc) \cup EnumTypes(doc) |->
             IF t \in Holders(doc) THEN File(Imports(doc, t), "none")
             ELSE File({}, alias)]
    BY DEF Generated, Holders, Imports, ImportsOf
<1> QED BY <1>1, Zenon

LEMMA FileIs ==
    ASSUME NEW imports, NEW alias
    PROVE  File(imports, alias).imports = imports /\ File(imports, alias).alias = alias
BY DEF File

\* The two kinds of holder, and what they hold.
LEMMA HoldersAre ==
    ASSUME NEW doc
    PROVE  /\ \A c \in Names(doc) :
                 /\ <<c>> \in Holders(doc)
                 /\ FieldsOf(doc, <<c>>) = doc.schemas[c].fields
                 /\ Imports(doc, <<c>>) =
                      ImportsOf(Targets(doc, c), c, doc.schemas[c].fields)
           /\ \A o \in DOMAIN doc.ops :
                 /\ DOMAIN doc.ops[o].params # {} =>
                       <<o, "Params">> \in Holders(doc)
                 /\ FieldsOf(doc, <<o, "Params">>) = doc.ops[o].params
                 /\ Imports(doc, <<o, "Params">>) =
                      ImportsOf(RefsIn(ParamNodes(doc.ops[o])), o,
                                doc.ops[o].params)
           /\ \A t \in Holders(doc) :
                 \/ \E c \in Names(doc) : t = <<c>>
                 \/ \E o \in DOMAIN doc.ops :
                       DOMAIN doc.ops[o].params # {} /\ t = <<o, "Params">>
<1>1. \A c, o : /\ Len(<<c>>) = 1 /\ <<c>>[1] = c
                /\ Len(<<o, "Params">>) # 1 /\ <<o, "Params">>[1] = o
    OBVIOUS
<1>2. \A c : FieldsOf(doc, <<c>>) = doc.schemas[c].fields
    BY <1>1 DEF FieldsOf
<1>3. \A o : FieldsOf(doc, <<o, "Params">>) = doc.ops[o].params
    BY <1>1 DEF FieldsOf
<1>4. ASSUME NEW c \in Names(doc)
      PROVE  Imports(doc, <<c>>) =
                ImportsOf(Targets(doc, c), c, doc.schemas[c].fields)
    <2> DEFINE t == <<c>>
    <2>1. Len(t) = 1 /\ t[1] = c /\ FieldsOf(doc, t) = doc.schemas[c].fields
        BY <1>1, <1>2
    <2>2. Targets(doc, c) = RefsIn(Range(doc.schemas[c].fields))
                              \cup doc.schemas[c].bases
        BY DEF Targets, Nodes
    <2> HIDE DEF t
    <2>3. Imports(doc, t) = ImportsOf(Targets(doc, c), c, doc.schemas[c].fields)
        BY <2>1, <2>2 DEF Imports
    <2> QED BY <2>3 DEF t
<1>5. ASSUME NEW o \in DOMAIN doc.ops
      PROVE  Imports(doc, <<o, "Params">>) =
                ImportsOf(RefsIn(ParamNodes(doc.ops[o])), o, doc.ops[o].params)
    <2> DEFINE t == <<o, "Params">>
    <2>1. Len(t) # 1 /\ t[1] = o /\ FieldsOf(doc, t) = doc.ops[o].params
        BY <1>1, <1>3
    <2>2. \A S : S \cup {} = S
        OBVIOUS
    <2> HIDE DEF t
    <2>3. Imports(doc, t) = ImportsOf(RefsIn(Range(doc.ops[o].params)), o,
                                      doc.ops[o].params)
        BY <2>1, <2>2 DEF Imports
    <2> QED BY <2>3 DEF t, ParamNodes
<1>6. /\ \A c \in Names(doc) : <<c>> \in Holders(doc)
      /\ \A o \in DOMAIN doc.ops : DOMAIN doc.ops[o].params # {} =>
            <<o, "Params">> \in Holders(doc)
      /\ \A t \in Holders(doc) :
            \/ \E c \in Names(doc) : t = <<c>>
            \/ \E o \in DOMAIN doc.ops :
                  DOMAIN doc.ops[o].params # {} /\ t = <<o, "Params">>
    BY DEF Holders, ComponentTypes, ParamsTypes
<1> QED BY <1>2, <1>3, <1>4, <1>5, <1>6

\* Where an enum's file comes from.
LEMMA EnumTypesAre ==
    ASSUME NEW doc
    PROVE  \A t \in EnumTypes(doc) :
              \/ \E c \in Names(doc) :
                    \E f \in EnumFields(doc.schemas[c].fields) : t = <<c, f>>
              \/ \E o \in DOMAIN doc.ops :
                    \E f \in EnumFields(doc.ops[o].params) :
                       DOMAIN doc.ops[o].params # {} /\ t = <<o, f>>
<1> SUFFICES ASSUME NEW t \in EnumTypes(doc)
             PROVE  \/ \E c \in Names(doc) :
                          \E f \in EnumFields(doc.schemas[c].fields) :
                             t = <<c, f>>
                    \/ \E o \in DOMAIN doc.ops :
                          \E f \in EnumFields(doc.ops[o].params) :
                             DOMAIN doc.ops[o].params # {} /\ t = <<o, f>>
    OBVIOUS
<1>1. PICK h \in Holders(doc) :
         \E f \in EnumFields(FieldsOf(doc, h)) : t = <<h[1], f>>
    BY Zenon DEF EnumTypes, Holders
<1>2. CASE \E c \in Names(doc) : h = <<c>>
    BY <1>1, <1>2, HoldersAre
<1>3. CASE \E o \in DOMAIN doc.ops :
              DOMAIN doc.ops[o].params # {} /\ h = <<o, "Params">>
    BY <1>1, <1>3, HoldersAre
<1> QED BY <1>2, <1>3, HoldersAre

LEMMA EnumsHaveTypes ==
    ASSUME NEW doc
    PROVE  \A h \in Holders(doc) : \A f \in EnumFields(FieldsOf(doc, h)) :
              <<h[1], f>> \in EnumTypes(doc)
<1> DEFINE enums(h) == {<<h[1], f>> : f \in EnumFields(FieldsOf(doc, h))}
<1>1. EnumTypes(doc) = UNION {enums(h) : h \in Holders(doc)}
    BY Zenon DEF EnumTypes, Holders
<1>2. \A h : \A f \in EnumFields(FieldsOf(doc, h)) : <<h[1], f>> \in enums(h)
    OBVIOUS
<1> HIDE DEF enums
<1> QED BY <1>1, <1>2

\* Where the generator refuses nothing, no import leads nowhere.
LEMMA ImportsInside ==
    ASSUME NEW doc, IsDocument(doc), Generates(doc), NEW alias,
           NEW t \in DOMAIN Generated(doc, alias)
    PROVE  Generated(doc, alias)[t].imports \subseteq
             DOMAIN Generated(doc, alias)
<1> DEFINE files == Generated(doc, alias)
           All == Holders(doc) \cup EnumTypes(doc)
<1>1. /\ DOMAIN files = All
      /\ files[t] = IF t \in Holders(doc) THEN File(Imports(doc, t), "none")
                    ELSE File({}, alias)
    BY GeneratedIs
<1>2. CASE t \notin Holders(doc)
    BY <1>1, <1>2, FileIs
<1>3. CASE t \in Holders(doc)
    <2>1. files[t].imports = Imports(doc, t)
        BY <1>1, <1>3, FileIs
    <2>2. \A c \in Names(doc) : <<c>> \in All
        BY HoldersAre
    <2>3. ASSUME NEW c \in Names(doc), t = <<c>>
          PROVE  Imports(doc, t) \subseteq All
        <3>1. Imports(doc, t) =
                {<<x>> : x \in Targets(doc, c)}
                  \cup {<<c, f>> : f \in EnumFields(doc.schemas[c].fields)}
            BY <2>3, HoldersAre DEF ImportsOf
        <3>2. Targets(doc, c) \subseteq Names(doc)
            BY DEF Generates
        <3>3. \A f \in EnumFields(doc.schemas[c].fields) : <<c, f>> \in All
            <4>1. FieldsOf(doc, t) = doc.schemas[c].fields /\ t[1] = c
                BY <2>3, HoldersAre
            <4> QED BY <1>3, <4>1, EnumsHaveTypes
        <3> QED BY <2>2, <3>1, <3>2, <3>3
    <2>4. ASSUME NEW o \in DOMAIN doc.ops, t = <<o, "Params">>
          PROVE  Imports(doc, t) \subseteq All
        <3>1. Imports(doc, t) =
                {<<x>> : x \in RefsIn(ParamNodes(doc.ops[o]))}
                  \cup {<<o, f>> : f \in EnumFields(doc.ops[o].params)}
            BY <2>4, HoldersAre DEF ImportsOf
        <3>2. RefsIn(ParamNodes(doc.ops[o])) \subseteq Names(doc)
            <4>1. computeReachableComponentNames(doc) \subseteq Names(doc)
                BY DEF Generates, Declares
            <4>2. Supports(doc, computeReachableComponentNames(doc))
                BY <4>1, ReachedSupports
            <4>3. RefersWithin(doc.ops[o].params,
                               computeReachableComponentNames(doc))
                BY <4>2 DEF Supports
            <4>4. RefsIn(ParamNodes(doc.ops[o])) \subseteq
                     computeReachableComponentNames(doc)
                BY <4>3, RefersIs DEF ParamNodes
            <4> QED BY <4>1, <4>4
        <3>3. \A f \in EnumFields(doc.ops[o].params) : <<o, f>> \in All
            <4>1. FieldsOf(doc, t) = doc.ops[o].params /\ t[1] = o
                BY <2>4, HoldersAre
            <4> QED BY <1>3, <4>1, EnumsHaveTypes
        <3> QED BY <2>2, <3>1, <3>2, <3>3
    <2>5. Imports(doc, t) \subseteq All
        BY <1>3, <2>3, <2>4, HoldersAre
    <2> QED BY <1>1, <2>1, <2>5
<1> QED BY <1>2, <1>3

\* There are finitely many.
LEMMA FiniteFiles ==
    ASSUME NEW doc, IsDocument(doc), NEW alias
    PROVE  IsFiniteSet(DOMAIN Generated(doc, alias))
<1> DEFINE C == ComponentTypes(doc)
           O == {o \in DOMAIN doc.ops : DOMAIN doc.ops[o].params # {}}
           P == ParamsTypes(doc)
           enums(t) == {<<t[1], f>> : f \in EnumFields(FieldsOf(doc, t))}
<1>1. IsFiniteSet(Names(doc)) /\ IsFiniteSet(O)
    BY FS_Subset DEF IsDocument, IsTable, Names
<1>2. IsFiniteSet(C)
    <2> DEFINE f == [c \in Names(doc) |-> <<c>>]
    <2>1. f \in Surjection(Names(doc), C)
        BY DEF Surjection, ComponentTypes
    <2> QED BY <1>1, <2>1, FS_Surjection
<1>3. IsFiniteSet(P)
    <2> DEFINE f == [o \in O |-> <<o, "Params">>]
    <2>1. f \in Surjection(O, P)
        BY DEF Surjection, ParamsTypes
    <2> HIDE DEF f, O
    <2> QED BY <1>1, <2>1, FS_Surjection
<1>4. IsFiniteSet(Holders(doc))
    BY <1>2, <1>3, FS_Union DEF Holders
<1>5. ASSUME NEW t \in Holders(doc) PROVE IsFiniteSet(enums(t))
    <2> DEFINE F == EnumFields(FieldsOf(doc, t))
               g == [f \in F |-> <<t[1], f>>]
    <2>1. IsNodes(FieldsOf(doc, t))
        <3>1. CASE \E c \in Names(doc) : t = <<c>>
            <4>1. PICK c \in Names(doc) : t = <<c>>
                BY <3>1
            <4>2. IsSchema(doc.schemas[c])
                BY DEF IsDocument
            <4> QED BY <4>1, <4>2, HoldersAre DEF IsSchema
        <3>2. CASE \E o \in DOMAIN doc.ops : t = <<o, "Params">>
            <4>1. PICK o \in DOMAIN doc.ops : t = <<o, "Params">>
                BY <3>2
            <4>2. IsOperation(doc.ops[o])
                BY DEF IsDocument
            <4> QED BY <4>1, <4>2, HoldersAre DEF IsOperation
        <3> QED BY <3>1, <3>2, HoldersAre
    <2>2. IsFiniteSet(DOMAIN FieldsOf(doc, t))
        BY <2>1 DEF IsNodes, IsTable
    <2>3. IsFiniteSet(F)
        BY <2>2, FS_Subset DEF EnumFields
    <2> HIDE DEF F
    <2>4. g \in Surjection(F, {<<t[1], f>> : f \in F})
        BY DEF Surjection
    <2>5. IsFiniteSet({<<t[1], f>> : f \in F})
        <3> HIDE DEF g
        <3> QED BY <2>3, <2>4, FS_Surjection
    <2> QED BY <2>5 DEF F
<1>6. IsFiniteSet(EnumTypes(doc))
    <2> DEFINE Sets == {enums(t) : t \in Holders(doc)}
               g == [t \in Holders(doc) |-> enums(t)]
    <2>1. EnumTypes(doc) = UNION Sets
        BY Zenon DEF EnumTypes, Holders
    <2>2. \A S \in Sets : IsFiniteSet(S)
        BY <1>5
    <2> HIDE DEF enums
    <2>3. g \in Surjection(Holders(doc), Sets)
        BY DEF Surjection
    <2>4. IsFiniteSet(Sets)
        <3> HIDE DEF g, Sets
        <3> QED BY <1>4, <2>3, FS_Surjection
    <2> HIDE DEF Sets, g
    <2> QED BY <2>1, <2>2, <2>4, FS_UNION
<1>7. DOMAIN Generated(doc, alias) = Holders(doc) \cup EnumTypes(doc)
    BY GeneratedIs
<1> QED BY <1>4, <1>6, <1>7, FS_Union

-----------------------------------------------------------------------------
(* The index *)

Lines(S) == [type : S, js : BOOLEAN]

\* The index exports each of S, and nothing else.
IndexOf(lines, S) ==
    /\ lines \in Seq(Lines(S))
    /\ \A t \in S : \E i \in DOMAIN lines : lines[i].type = t

\* Each once.
IndexOnce(lines, S) ==
    /\ IndexOf(lines, S)
    /\ \A i, j \in DOMAIN lines : lines[i].type = lines[j].type => i = j

LEMMA ExportsIs ==
    ASSUME NEW S, IsFiniteSet(S), NEW twice, twice \subseteq S
    PROVE  IndexOf(Exports(S, twice), S)
<1> DEFINE lines(seq, js) == [i \in DOMAIN seq |-> Export(seq[i], js)]
           a == Listed(S)
           b == Listed(twice)
           one == lines(a, FALSE)
           two == lines(b, TRUE)
<1>1. Exports(S, twice) = one \o two
    BY DEF Exports
<1>2. Lists(a, S) /\ Lists(b, twice)
    BY ListedLists, FS_Subset
<1>3. a \in Seq(S) /\ b \in Seq(S) /\ Range(a) = S
    BY <1>2 DEF Lists
<1> HIDE DEF a, b
<1>4. ASSUME NEW seq \in Seq(S), NEW js \in BOOLEAN
      PROVE  /\ lines(seq, js) \in Seq(Lines(S))
             /\ DOMAIN lines(seq, js) = DOMAIN seq
             /\ \A i \in DOMAIN seq : lines(seq, js)[i].type = seq[i]
    <2>1. \A i \in DOMAIN seq : Export(seq[i], js) \in Lines(S)
        BY DEF Export, Lines
    <2>2. \A i \in DOMAIN seq : Export(seq[i], js).type = seq[i]
        BY DEF Export
    <2>3. DOMAIN seq = 1 .. Len(seq) /\ Len(seq) \in Nat
        OBVIOUS
    <2> QED BY <2>1, <2>2, <2>3
<1>5. /\ one \in Seq(Lines(S)) /\ two \in Seq(Lines(S))
      /\ DOMAIN one = DOMAIN a /\ \A i \in DOMAIN a : one[i].type = a[i]
    BY <1>3, <1>4
<1> HIDE DEF one, two, lines
<1>6. /\ one \o two \in Seq(Lines(S))
      /\ \A i \in DOMAIN one : i \in DOMAIN (one \o two)
                                 /\ (one \o two)[i] = one[i]
    BY <1>5
<1>7. ASSUME NEW t \in S
      PROVE  \E i \in DOMAIN (one \o two) : (one \o two)[i].type = t
    <2>1. PICK i \in DOMAIN a : a[i] = t
        BY <1>3 DEF Range
    <2> QED BY <1>5, <1>6, <2>1
<1> QED BY <1>1, <1>6, <1>7 DEF IndexOf

LEMMA NormalizedLine ==
    ASSUME NEW S, NEW line \in Lines(S)
    PROVE  /\ normalizeExportLine(line) \in Lines(S)
           /\ normalizeExportLine(line).type = line.type
           /\ normalizeExportLine(line) = Export(line.type, FALSE)
<1> DEFINE new == normalizeExportLine(line)
<1>1. line = [type |-> line.type, js |-> line.js] /\ line.type \in S
    BY DEF Lines
<1>2. new = [type |-> line.type, js |-> FALSE]
    <2>1. new = [line EXCEPT !.js = FALSE]
        BY DEF normalizeExportLine
    <2> HIDE DEF new
    <2> QED BY <1>1, <2>1
<1> HIDE DEF new
<1>3. new.type = line.type /\ new \in Lines(S)
    BY <1>1, <1>2 DEF Lines
<1> QED BY <1>2, <1>3 DEF Export, new

\* What the script leaves exports the same, each once.
LEMMA DedupeOnce ==
    ASSUME NEW S, NEW lines, IndexOf(lines, S)
    PROVE  IndexOnce(dedupeExportLines(lines), S)
<1> DEFINE n == Len(lines)
           line(i) == normalizeExportLine(lines[i])
<1>1. lines \in Seq(Lines(S)) /\ n \in Nat /\ DOMAIN lines = 1 .. n
    BY DEF IndexOf
<1>2. PICK K : /\ KeepsOf(K, lines)
               /\ dedupeExportLines(lines) =
                    IF Len(K[n]) < n THEN K[n] ELSE lines
    BY <1>1, DedupeInSteps
<1> DEFINE kept == K[n]
<1>3. /\ kept \in Seq({line(i) : i \in 1 .. n})
      /\ Range(kept) = {line(i) : i \in 1 .. n}
      /\ IsInjective(kept)
      /\ Len(kept) <= n
      /\ Len(kept) = n => \A i \in 1 .. n : kept[i] = line(i)
    <2>1. n \in 0 .. Len(lines)
        BY <1>1
    <2> QED BY <1>1, <1>2, <2>1, DedupeKeepsEach
<1> HIDE DEF kept
<1>4. \A i \in 1 .. n : /\ lines[i] \in Lines(S)
                        /\ line(i) \in Lines(S)
                        /\ line(i).type = lines[i].type
                        /\ line(i) = Export(lines[i].type, FALSE)
    <2> SUFFICES ASSUME NEW i \in 1 .. n
                 PROVE  /\ lines[i] \in Lines(S)
                        /\ line(i) \in Lines(S)
                        /\ line(i).type = lines[i].type
                        /\ line(i) = Export(lines[i].type, FALSE)
        OBVIOUS
    <2>1. lines[i] \in Lines(S)
        <3> HIDE DEF n
        <3> QED BY <1>1
    <2> QED BY <2>1, NormalizedLine
<1> HIDE DEF line, n
<1>5. /\ kept \in Seq(Lines(S)) /\ Len(kept) \in Nat
      /\ DOMAIN kept = 1 .. Len(kept)
    <2>1. {line(i) : i \in 1 .. n} \subseteq Lines(S)
        BY <1>4
    <2> QED BY <1>3, <2>1
<1>6. \A i \in DOMAIN kept : \E j \in 1 .. n : kept[i] = line(j)
    BY <1>3
<1>7. CASE Len(kept) < n
    <2>1. dedupeExportLines(lines) = kept
        BY <1>2, <1>7 DEF kept
    <2>2. ASSUME NEW t \in S PROVE \E i \in DOMAIN kept : kept[i].type = t
        <3>1. PICK i \in 1 .. n : lines[i].type = t
            BY <1>1 DEF IndexOf
        <3>2. line(i) \in Range(kept)
            BY <1>3
        <3>3. PICK j \in DOMAIN kept : kept[j] = line(i)
            BY <3>2, Zenon DEF Range
        <3> QED BY <1>4, <3>1, <3>3
    <2>3. ASSUME NEW i \in DOMAIN kept, NEW j \in DOMAIN kept,
                 kept[i].type = kept[j].type
          PROVE  i = j
        <3>1. PICK p \in 1 .. n : kept[i] = line(p)
            BY <1>6
        <3>2. PICK q \in 1 .. n : kept[j] = line(q)
            BY <1>6
        <3>3. lines[p].type = lines[q].type
            BY <1>4, <2>3, <3>1, <3>2
        <3>4. kept[i] = kept[j]
            BY <1>4, <3>1, <3>2, <3>3
        <3> QED BY <1>3, <3>4 DEF IsInjective
    <2> QED BY <1>5, <2>1, <2>2, <2>3 DEF IndexOnce, IndexOf
<1>8. CASE Len(kept) = n
    <2>1. dedupeExportLines(lines) = lines
        BY <1>1, <1>2, <1>8 DEF kept
    <2>2. ASSUME NEW i \in DOMAIN lines, NEW j \in DOMAIN lines,
                 lines[i].type = lines[j].type
          PROVE  i = j
        <3>1. /\ i \in 1 .. n /\ j \in 1 .. n
              /\ kept[i] = line(i) /\ kept[j] = line(j)
            <4>1. i \in 1 .. n /\ j \in 1 .. n
                BY ONLY <1>1, i \in DOMAIN lines, j \in DOMAIN lines
            <4>2. \A k \in 1 .. n : kept[k] = line(k)
                BY <1>3, <1>8
            <4> QED BY <4>1, <4>2
        <3>2. line(i) = line(j)
            <4>1. /\ line(i) = Export(lines[i].type, FALSE)
                  /\ line(j) = Export(lines[j].type, FALSE)
                BY <1>4, <3>1
            <4> QED BY <2>2, <4>1
        <3>3. i \in DOMAIN kept /\ j \in DOMAIN kept
            BY <1>5, <1>8, <3>1
        <3> QED BY <1>3, <3>1, <3>2, <3>3 DEF IsInjective
    <2> QED BY <2>1, <2>2 DEF IndexOnce
<1>9. Len(kept) < n \/ Len(kept) = n
    <2>1. Len(kept) <= n /\ Len(kept) \in Nat /\ n \in Nat
        BY <1>1, <1>3, <1>5
    <2> QED BY <2>1
<1> QED BY <1>7, <1>8, <1>9

LEMMA OnceCounts ==
    ASSUME NEW S, NEW lines, IndexOnce(lines, S)
    PROVE  /\ {lines[i].type : i \in DOMAIN lines} = S
           /\ Len(lines) = Cardinality(S)
<1> DEFINE n == Len(lines)
           f == [i \in 1 .. n |-> lines[i].type]
<1>1. lines \in Seq(Lines(S)) /\ n \in Nat /\ DOMAIN lines = 1 .. n
    BY DEF IndexOnce, IndexOf
<1>2. \A i \in 1 .. n : lines[i].type \in S
    <2>1. \A line \in Lines(S) : line.type \in S
        BY DEF Lines
    <2>2. \A i \in 1 .. n : lines[i] \in Lines(S)
        <3> HIDE DEF n
        <3> QED BY <1>1
    <2> QED BY <2>1, <2>2
<1>3. \A t \in S : \E i \in 1 .. n : lines[i].type = t
    BY <1>1 DEF IndexOnce, IndexOf
<1>4. \A i, j \in 1 .. n : lines[i].type = lines[j].type => i = j
    BY <1>1 DEF IndexOnce
<1>5. {lines[i].type : i \in DOMAIN lines} = S
    BY <1>1, <1>2, <1>3
<1> HIDE DEF n
<1>6. f \in Bijection(1 .. n, S)
    BY <1>2, <1>3, <1>4 DEF Bijection, Injection, Surjection,
                               IsInjective
<1>7. ExistsBijection(1 .. n, S)
    BY <1>6 DEF ExistsBijection
<1>8. IsFiniteSet(1 .. n) /\ Cardinality(1 .. n) = n
    BY <1>1, FS_Interval
<1>9. Cardinality(S) = n
    BY <1>7, <1>8, FS_Bijection
<1> QED BY <1>5, <1>9 DEF n

\* A success is told only when the chain is over, and only the generator runs
\* raw.
Staged ==
    /\ outcome = "done" => at = "idle" /\ ~raw
    /\ at \in {"patch", "dedupe", "widen", "write"} => ~raw

\* Past its first step the chain works on what was made of the document, and
\* all that was looked for was found.
PatchedOf ==
    Corrects =>
        /\ patched = patchSpec(published).doc
        /\ ~RenameFails(published) /\ patchSpec(published).missing = {}

\* What is published and what was made of it are documents.
Documented == published \in Published /\ IsDocument(patched)

\* The generator is past refusing.
Generating == at \in {"dedupe", "widen", "write"} \/ outcome = "done"

\* It went on with a document it does not refuse.
Accepted == at = "emit" \/ Generating => Generates(patched)

\* The files the codemod opens, of those generated with one form of alias.
Opening(form) ==
    LET files == Generated(patched, form)
    IN  Matched(files, ExcludedIn(patched, files))

\* The files are those generated, but for the aliases opened since.
FilesOf(form) ==
    LET files == Generated(patched, form)
    IN  /\ DOMAIN tree = DOMAIN files
        /\ \A t \in DOMAIN tree :
              \/ tree[t] = files[t]
              \/ /\ at = "write" \/ outcome = "done"
                 /\ t \in Opening(form)
                 /\ tree[t] = File(files[t].imports, "opened")

\* What is to be opened is, or has still to be written.
OpensOf(form) ==
    /\ at = "write" => Range(toWrite) \subseteq Opening(form)
    /\ at = "write" \/ outcome = "done" =>
          \A t \in Opening(form) :
             tree[t].alias = "opened" \/ t \in Range(toWrite)

\* The tree is empty before the generator writes.
Written ==
    /\ at = "emit" => tree = <<>>
    /\ Generating =>
          \E form \in {"closed", "unread"} : FilesOf(form) /\ OpensOf(form)

\* What the codemod looked at before it wrote, and after.
Verified ==
    /\ at = "write" \/ outcome = "done" =>
          verifyNoSharedEnumBearingSchemas(patched)
    /\ outcome = "done" =>
          verifyWideningHappened(patched, tree, ExcludedIn(patched, tree))

\* The index exports every type, and once when it is deduped.
Indexed ==
    /\ at = "dedupe" => IndexOf(index, DOMAIN tree)
    /\ at \in {"widen", "write"} \/ outcome = "done" =>
          IndexOnce(index, DOMAIN tree)

\* The variables' types, and a list that only the last step has.
Sorted ==
    /\ at \in Steps /\ raw \in BOOLEAN
    /\ outcome \in {"none", "raw", "done", "failed", "interrupted"}
    /\ refreshes \in 0 .. Refreshes
    /\ \A t \in DOMAIN tree :
          tree[t].alias \in {"none", "closed", "opened", "unread"}
    /\ toWrite \in Seq(DOMAIN tree) /\ IsInjective(toWrite)
    /\ at # "write" => toWrite = <<>>

IInv ==
    /\ Staged /\ PatchedOf /\ Documented /\ Accepted /\ Written /\ Verified
    /\ Indexed /\ Sorted

-----------------------------------------------------------------------------
(* The files *)

\* Written over an empty directory, the files are all there is.
LEMMA WrittenOverNothing ==
    ASSUME NEW files, files = [t \in DOMAIN files |-> files[t]]
    PROVE  Over(files, <<>>) = files
<1>1. DOMAIN <<>> = {} /\ \A S : S \cup {} = S
    OBVIOUS
<1>2. Over(files, <<>>) = [t \in DOMAIN files |->
                              IF t \in DOMAIN files THEN files[t]
                              ELSE <<>>[t]]
    BY <1>1, Zenon DEF Over
<1>3. \A t \in DOMAIN files :
         (IF t \in DOMAIN files THEN files[t] ELSE <<>>[t]) = files[t]
    OBVIOUS
<1>4. Over(files, <<>>) = [t \in DOMAIN files |-> files[t]]
    BY <1>2, <1>3
<1> QED BY <1>4

\* What is left closed depends on what the files import, not on how their
\* aliases are written.
LEMMA ExcludedSame ==
    ASSUME NEW doc, NEW one, NEW two, DOMAIN one = DOMAIN two,
           \A t \in DOMAIN one : one[t].imports = two[t].imports
    PROVE  ExcludedIn(doc, one) = ExcludedIn(doc, two)
<1> DEFINE requestOnly == computeRequestOnlyComponentNames(doc)
<1>1. computeRootExclusion(one, requestOnly) =
          computeRootExclusion(two, requestOnly)
    BY DEF computeRootExclusion
<1>2. [t \in DOMAIN one |-> one[t].imports] =
          [t \in DOMAIN two |-> two[t].imports]
    BY Zenon
<1>3. \A roots : expandExcludedNames(roots, one) = expandExcludedNames(roots, two)
    BY <1>2, Zenon DEF expandExcludedNames
<1> QED BY <1>1, <1>3, Zenon DEF ExcludedIn

LEMMA FilesExcluded ==
    ASSUME NEW form, FilesOf(form)
    PROVE  /\ ExcludedIn(patched, tree) =
                 ExcludedIn(patched, Generated(patched, form))
           /\ \A t \in DOMAIN tree :
                 tree[t].imports = Generated(patched, form)[t].imports
<1>1. \A t \in DOMAIN tree :
         tree[t].imports = Generated(patched, form)[t].imports
    BY FileIs DEF FilesOf
<1> QED BY <1>1, ExcludedSame DEF FilesOf

\* The files the generator writes, and those the codemod opens.
LEMMA GeneratedAliases ==
    ASSUME NEW form \in {"closed", "unread"}
    PROVE  LET files == Generated(patched, form)
           IN  /\ \A t \in DOMAIN files :
                     /\ files[t] = File(files[t].imports, files[t].alias)
                     /\ files[t].alias \in {"none", form}
               /\ Opening(form) \subseteq DOMAIN files
               /\ \A t \in Opening(form) : files[t].alias = "closed"
               /\ \A t \in DOMAIN files \ Opening(form) :
                     \/ files[t].alias # "closed"
                     \/ t \in ExcludedIn(patched, files)
<1> DEFINE files == Generated(patched, form)
<1>1. ASSUME NEW t \in DOMAIN files
      PROVE  /\ files[t] = File(files[t].imports, files[t].alias)
             /\ files[t].alias \in {"none", form}
    <2>1. files[t] = IF t \in Holders(patched)
                     THEN File(Imports(patched, t), "none")
                     ELSE File({}, form)
        BY GeneratedIs
    <2> HIDE DEF files
    <2> QED BY <2>1, FileIs
<1>2. Opening(form) = {t \in DOMAIN files \ ExcludedIn(patched, files) :
                          files[t].alias \in {"closed", "opened"}}
    BY DEF Opening, Matched
<1> HIDE DEF files
<1>3. \A t \in Opening(form) : files[t].alias = "closed"
    BY <1>1, <1>2
<1> QED BY <1>1, <1>2, <1>3 DEF files

\* Before the codemod writes, it finds just these.
LEMMA WideningIs ==
    ASSUME NEW form \in {"closed", "unread"}, FilesOf(form),
           at # "write", outcome # "done"
    PROVE  LET new == applyWidening(tree, ExcludedIn(patched, tree))
           IN  {t \in DOMAIN tree : new[t] # tree[t]} = Opening(form)
<1> DEFINE files == Generated(patched, form)
           excluded == ExcludedIn(patched, tree)
           new == applyWidening(tree, excluded)
<1>1. /\ DOMAIN tree = DOMAIN files
      /\ \A t \in DOMAIN tree : tree[t] = files[t]
    BY DEF FilesOf
<1>2. excluded = ExcludedIn(patched, files)
    BY FilesExcluded
<1>3. /\ \A t \in DOMAIN files :
            /\ files[t] = File(files[t].imports, files[t].alias)
            /\ files[t].alias \in {"none", form}
      /\ Opening(form) \subseteq DOMAIN files
      /\ \A t \in Opening(form) : files[t].alias = "closed"
    BY GeneratedAliases
<1>4. Matched(tree, excluded) = Opening(form)
    BY <1>1, <1>2 DEF Matched, Opening
<1> HIDE DEF excluded, files
<1>5. ASSUME NEW t \in DOMAIN tree
      PROVE  new[t] # tree[t] <=> t \in Opening(form)
    <2>1. new[t] = IF t \in Opening(form)
                   THEN [tree[t] EXCEPT !.alias = "opened"] ELSE tree[t]
        BY <1>4 DEF applyWidening
    <2> HIDE DEF new
    <2>2. CASE t \notin Opening(form)
        BY <2>1, <2>2
    <2>3. CASE t \in Opening(form)
        <3>1. tree[t] = File(tree[t].imports, "closed")
            BY <1>1, <1>3, <2>3
        <3>2. [tree[t] EXCEPT !.alias = "opened"] =
                  File(tree[t].imports, "opened")
            BY <3>1 DEF File
        <3>3. File(tree[t].imports, "opened") # tree[t]
            BY <3>1, FileIs
        <3> QED BY <2>1, <2>3, <3>2, <3>3
    <2> QED BY <2>2, <2>3
<1> HIDE DEF new
<1> QED BY <1>1, <1>3, <1>5 DEF new, excluded

-----------------------------------------------------------------------------
(* The steps *)

LEMMA NothingListed ==
    ASSUME NEW S
    PROVE  <<>> \in Seq(S) /\ IsInjective(<<>>) /\ Range(<<>>) = {}
BY DEF IsInjective, Range

\* Nothing has been done yet.
LEMMA InitHolds == Init => IInv
<1> SUFFICES ASSUME Init PROVE IInv
    OBVIOUS
<1> USE DEF Init
<1>1. IsDocument(patched)
    <2>1. DOMAIN <<>> = {} /\ IsFiniteSet({})
        BY FS_EmptySet
    <2>2. IsTable(<<>>)
        BY <2>1 DEF IsTable
    <2>3. patched.schemas = <<>> /\ patched.ops = <<>>
        BY DEF NoDocument
    <2>4. patched = [schemas |-> patched.schemas, ops |-> patched.ops]
        BY DEF NoDocument
    <2> QED BY <2>1, <2>2, <2>3, <2>4 DEF IsDocument, Names
<1>2. Documented
    BY <1>1 DEF Documented
<1>3. Sorted
    <2>1. DOMAIN tree = {}
        OBVIOUS
    <2>2. toWrite \in Seq(DOMAIN tree) /\ IsInjective(toWrite)
        BY NothingListed
    <2>3. refreshes \in 0 .. Refreshes
        BY PipelineAssumption
    <2>4. /\ at \in Steps /\ raw \in BOOLEAN /\ toWrite = <<>>
          /\ outcome \in {"none", "raw", "done", "failed", "interrupted"}
        BY DEF Steps
    <2> QED BY <2>1, <2>2, <2>3, <2>4 DEF Sorted
<1>4. Staged /\ PatchedOf /\ Accepted /\ Written /\ Verified /\ Indexed
    BY DEF Staged, PatchedOf, Corrects, Accepted, Generating, Written,
           Verified, Indexed
<1> QED BY <1>2, <1>3, <1>4 DEF IInv

\* However a step ends the chain without success, what the invariant says of
\* the chain under way no longer matters.
LEMMA StopHolds ==
    ASSUME IInv, NEW how \in {"raw", "failed", "interrupted"}, Stop(how),
           UNCHANGED <<published, patched, raw, refreshes>>,
           \A t \in DOMAIN tree' :
              tree'[t].alias \in {"none", "closed", "opened", "unread"}
    PROVE  IInv'
<1>1. at' = "idle" /\ outcome' = how /\ toWrite' = <<>>
    BY DEF Stop
<1>2. Staged' /\ PatchedOf'
    BY <1>1 DEF Staged, PatchedOf, Corrects
<1>3. Documented'
    BY DEF IInv, Documented
<1>4. Accepted' /\ Written' /\ Verified' /\ Indexed'
    BY <1>1 DEF Accepted, Generating, Written, Verified, Indexed
<1>5. Sorted'
    BY <1>1, NothingListed DEF IInv, Sorted, Steps
<1> QED BY <1>2, <1>3, <1>4, <1>5 DEF IInv

\* A step that changes nothing on disk and leaves the chain before the
\* generator.
LEMMA BeginHolds ==
    ASSUME IInv, Refresh \/ Generate \/ GenerateRaw
    PROVE  IInv'
<1>1. /\ at = "idle" /\ outcome' = "none" /\ at' \in {"idle", "patch", "clean"}
      /\ UNCHANGED <<patched, tree, index, toWrite>>
      /\ published' \in Published
      /\ raw' \in BOOLEAN /\ refreshes' \in 0 .. Refreshes
      /\ at' = "patch" => ~raw'
      /\ at' = "clean" => raw'
    <2>1. CASE Refresh
        BY <2>1, PipelineAssumption DEF Refresh, IInv, Sorted
    <2>2. CASE Generate
        BY <2>2 DEF Generate, IInv, Sorted, Documented
    <2>3. CASE GenerateRaw
        BY <2>3 DEF GenerateRaw, IInv, Sorted, Documented
    <2> QED BY <2>1, <2>2, <2>3
<1>2. Staged' /\ PatchedOf'
    BY <1>1 DEF Staged, PatchedOf, Corrects
<1>3. Documented'
    BY <1>1 DEF IInv, Documented
<1>4. Accepted' /\ Written' /\ Verified' /\ Indexed'
    BY <1>1 DEF Accepted, Generating, Written, Verified, Indexed
<1>5. Sorted'
    BY <1>1 DEF IInv, Sorted, Steps
<1> QED BY <1>2, <1>3, <1>4, <1>5 DEF IInv

LEMMA PatchHolds ==
    ASSUME IInv, PatchSpec
    PROVE  IInv'
<1> DEFINE fails == \/ RenameFails(published)
                    \/ patchSpec(published).missing # {}
<1>1. /\ at = "patch" /\ UNCHANGED <<published, tree, index, raw, refreshes>>
      /\ \/ fails /\ Stop("failed") /\ UNCHANGED patched
         \/ /\ ~fails
            /\ patched' = patchSpec(published).doc /\ at' = "clean"
            /\ UNCHANGED <<outcome, toWrite>>
    BY DEF PatchSpec
<1>2. CASE Stop("failed") /\ UNCHANGED patched
    BY <1>1, <1>2, StopHolds DEF IInv, Sorted
<1>3. CASE /\ ~fails
           /\ patched' = patchSpec(published).doc /\ at' = "clean"
           /\ UNCHANGED <<outcome, toWrite>>
    <2>1. ~RenameFails(published) /\ patchSpec(published).missing = {}
        BY <1>3
    <2>2. published \in Published /\ IsDocument(published)
        BY DocumentsAssumption DEF IInv, Documented
    <2>3. IsDocument(patchSpec(published).doc)
        BY <2>1, <2>2, PatchedIs
    <2>4. Documented'
        BY <1>1, <1>3, <2>2, <2>3 DEF Documented
    <2>5. outcome # "done"
        BY <1>1 DEF IInv, Staged
    <2>6. PatchedOf'
        <3>1. /\ patchSpec(published)' = patchSpec(published)
              /\ RenameFails(published)' = RenameFails(published)
            BY <1>1
        <3> QED BY <1>3, <2>1, <3>1 DEF PatchedOf
    <2>7. Staged' /\ Accepted' /\ Written' /\ Verified' /\ Indexed'
        BY <1>1, <1>3, <2>5 DEF Staged, Accepted, Generating, Written, Verified,
                                Indexed
    <2>8. Sorted'
        BY <1>1, <1>3 DEF IInv, Sorted, Steps
    <2> QED BY <2>4, <2>6, <2>7, <2>8 DEF IInv
<1> QED BY <1>1, <1>2, <1>3

LEMMA CleanHolds ==
    ASSUME IInv, Clean
    PROVE  IInv'
<1>1. /\ at = "clean" /\ Generates(patched)
      /\ tree' = <<>> /\ at' = "emit"
      /\ UNCHANGED <<published, patched, raw, toWrite, outcome, refreshes>>
    BY DEF Clean
<1>2. outcome # "done" /\ toWrite = <<>>
    BY <1>1 DEF IInv, Staged, Sorted
<1>3. PatchedOf'
    <2>1. patchSpec(published)' = patchSpec(published)
        BY <1>1
    <2>2. RenameFails(published)' = RenameFails(published)
        BY <1>1
    <2> QED BY <1>1, <2>1, <2>2 DEF IInv, PatchedOf, Corrects
<1>4. Staged' /\ Documented' /\ Accepted' /\ Written' /\ Verified' /\ Indexed'
    <2>1. Generates(patched)' = Generates(patched)
        BY <1>1
    <2> QED BY <1>1, <1>2, <2>1 DEF Staged, IInv, Documented, Accepted,
                                    Generating, Written, Verified, Indexed
<1>5. Sorted'
    <2>1. DOMAIN tree' = {}
        BY <1>1
    <2> QED BY <1>1, <1>2, <2>1, NothingListed DEF IInv, Sorted, Steps
<1> QED BY <1>3, <1>4, <1>5 DEF IInv

\* What a step that keeps the documents keeps.
LEMMA SameDocuments ==
    ASSUME IInv, UNCHANGED <<published, patched, raw>>, at # "idle",
           at # "patch"
    PROVE  PatchedOf' /\ Documented' /\ Generates(patched)' = Generates(patched)
<1>1. /\ patchSpec(published)' = patchSpec(published)
      /\ RenameFails(published)' = RenameFails(published)
      /\ IsDocument(patched)' = IsDocument(patched)
    OBVIOUS
<1>2. PatchedOf'
    BY <1>1 DEF IInv, PatchedOf, Corrects
<1> QED BY <1>1, <1>2 DEF IInv, Documented

LEMMA EmitHolds ==
    ASSUME IInv, Emit
    PROVE  IInv'
<1>1. PICK open \in AliasForms, twice \in {{}, ExportedTwice} :
         LET new == Generated(patched, IF open THEN "closed" ELSE "unread")
         IN  /\ tree' = Over(new, tree)
             /\ index' = Exports(DOMAIN new, twice \cap DOMAIN new)
    BY DEF Emit
<1> DEFINE form == IF open THEN "closed" ELSE "unread"
           new == Generated(patched, form)
<1>2. /\ at = "emit" /\ UNCHANGED <<published, patched, raw, refreshes>>
      /\ IF raw THEN Stop("raw")
         ELSE at' = "dedupe" /\ UNCHANGED <<toWrite, outcome>>
    BY DEF Emit
<1>3. form \in {"closed", "unread"}
    OBVIOUS
<1> HIDE DEF form
<1>4. tree' = new
    <2>1. tree = <<>>
        BY <1>2 DEF IInv, Written
    <2>2. new = [t \in DOMAIN new |-> new[t]]
        BY GeneratedIs
    <2>3. tree' = Over(new, <<>>)
        BY <1>1, <2>1 DEF form
    <2> HIDE DEF new
    <2> QED BY <2>2, <2>3, WrittenOverNothing
<1>5. \A t \in DOMAIN tree' :
         tree'[t].alias \in {"none", "closed", "opened", "unread"}
    BY <1>3, <1>4, GeneratedAliases
<1>6. CASE raw
    BY <1>2, <1>5, <1>6, StopHolds
<1>7. CASE ~raw
    <2>1. at' = "dedupe" /\ UNCHANGED <<toWrite, outcome>>
        BY <1>2, <1>7
    <2>2. outcome # "done" /\ toWrite = <<>>
        BY <1>2 DEF IInv, Staged, Sorted
    <2>3. PatchedOf' /\ Documented' /\ Generates(patched)' = Generates(patched)
        BY <1>2, SameDocuments
    <2>4. Staged' /\ Accepted' /\ Verified'
        BY <1>2, <1>7, <2>1, <2>2, <2>3 DEF IInv, Staged, Accepted, Generating,
                                           Verified
    <2>5. Written'
        <3>1. Generated(patched, form)' = new
            BY <1>2
        <3>2. FilesOf(form)' /\ OpensOf(form)'
            <4> HIDE DEF new
            <4> QED BY <1>4, <2>1, <2>2, <3>1 DEF FilesOf, OpensOf
        <3> QED BY <1>3, <2>1, <3>2 DEF Written
    <2>6. Indexed'
        <3>1. index' = Exports(DOMAIN new, twice \cap DOMAIN new)
            BY <1>1 DEF form
        <3>2. IsFiniteSet(DOMAIN new)
            BY FiniteFiles DEF IInv, Documented
        <3> HIDE DEF new
        <3>3. IndexOf(index', DOMAIN new)
            BY <3>1, <3>2, ExportsIs
        <3> QED BY <1>4, <2>1, <2>2, <3>3 DEF Indexed
    <2>7. Sorted'
        BY <1>2, <1>5, <2>1, <2>2, NothingListed DEF IInv, Sorted, Steps
    <2> QED BY <2>3, <2>4, <2>5, <2>6, <2>7 DEF IInv
<1> QED BY <1>6, <1>7

LEMMA DedupeHolds ==
    ASSUME IInv, Dedupe
    PROVE  IInv'
<1>1. /\ at = "dedupe" /\ at' = "widen"
      /\ index' = dedupeExportLines(index)
      /\ UNCHANGED <<published, patched, tree, raw, toWrite, outcome, refreshes>>
    BY DEF Dedupe
<1>2. outcome # "done" /\ toWrite = <<>>
    BY <1>1 DEF IInv, Staged, Sorted
<1>3. PatchedOf' /\ Documented' /\ Generates(patched)' = Generates(patched)
    BY <1>1, SameDocuments
<1>4. Staged' /\ Accepted' /\ Verified'
    BY <1>1, <1>2, <1>3 DEF IInv, Staged, Accepted, Generating, Verified
<1>5. Written'
    <2>1. PICK form \in {"closed", "unread"} : FilesOf(form)
        BY <1>1 DEF IInv, Written, Generating
    <2>2. Generated(patched, form)' = Generated(patched, form)
        BY <1>1
    <2>3. FilesOf(form)' /\ OpensOf(form)'
        BY <1>1, <1>2, <2>1, <2>2 DEF FilesOf, OpensOf
    <2> QED BY <1>1, <2>3 DEF Written
<1>6. Indexed'
    <2>1. IndexOf(index, DOMAIN tree)
        BY <1>1 DEF IInv, Indexed
    <2>2. IndexOnce(index', DOMAIN tree')
        BY <1>1, <2>1, DedupeOnce
    <2> QED BY <1>1, <2>2 DEF Indexed
<1>7. Sorted'
    BY <1>1 DEF IInv, Sorted, Steps
<1> QED BY <1>3, <1>4, <1>5, <1>6, <1>7 DEF IInv

LEMMA WidenHolds ==
    ASSUME IInv, Widen
    PROVE  IInv'
<1> DEFINE new == applyWidening(tree, ExcludedIn(patched, tree))
           found == {t \in DOMAIN tree : new[t] # tree[t]}
<1>1. /\ at = "widen"
      /\ UNCHANGED <<published, patched, tree, index, raw, refreshes>>
      /\ IF verifyNoSharedEnumBearingSchemas(patched)
         THEN /\ toWrite' = Listed(found)
              /\ at' = "write" /\ UNCHANGED outcome
         ELSE Stop("failed")
    BY DEF Widen
<1>2. outcome # "done" /\ ~raw
    BY <1>1 DEF IInv, Staged
<1>3. CASE Stop("failed")
    BY <1>1, <1>3, StopHolds DEF IInv, Sorted
<1>4. CASE /\ verifyNoSharedEnumBearingSchemas(patched)
           /\ toWrite' = Listed(found)
           /\ at' = "write" /\ UNCHANGED outcome
    <2>1. PICK form \in {"closed", "unread"} : FilesOf(form)
        BY <1>1 DEF IInv, Written, Generating
    <2>2. found = Opening(form)
        BY <1>1, <1>2, <2>1, WideningIs
    <2>3. IsFiniteSet(DOMAIN tree)
        BY <2>1, FiniteFiles DEF FilesOf, IInv, Documented
    <2> HIDE DEF found
    <2>4. Opening(form) \subseteq DOMAIN tree
        BY <2>1, GeneratedAliases DEF FilesOf
    <2>5. Lists(toWrite', Opening(form))
        BY <1>4, <2>2, <2>3, <2>4, FS_Subset, ListedLists
    <2>6. PatchedOf' /\ Documented' /\ Generates(patched)' = Generates(patched)
        BY <1>1, SameDocuments
    <2>7. verifyNoSharedEnumBearingSchemas(patched)'
        BY <1>1, <1>4
    <2>8. Staged' /\ Accepted' /\ Verified'
        BY <1>1, <1>2, <1>4, <2>6, <2>7 DEF IInv, Staged, Accepted, Generating,
                                            Verified
    <2>9. Written'
        <3>1. /\ Generated(patched, form)' = Generated(patched, form)
              /\ Opening(form)' = Opening(form)
            BY <1>1 DEF Opening
        <3>2. FilesOf(form)'
            BY <1>1, <1>2, <2>1, <3>1 DEF FilesOf
        <3>3. OpensOf(form)'
            BY <2>5, <3>1 DEF OpensOf, Lists
        <3> QED BY <1>4, <3>2, <3>3 DEF Written
    <2>10. Indexed'
        BY <1>1, <1>4 DEF IInv, Indexed
    <2>11. Sorted'
        <3>1. toWrite' \in Seq(DOMAIN tree') /\ IsInjective(toWrite')
            BY <1>1, <2>4, <2>5 DEF Lists
        <3> QED BY <1>1, <1>4, <3>1 DEF IInv, Sorted, Steps
    <2> QED BY <2>6, <2>8, <2>9, <2>10, <2>11 DEF IInv
<1> QED BY <1>1, <1>3, <1>4

LEMMA HeadAndTail ==
    ASSUME NEW S, NEW s \in Seq(S), s # <<>>, IsInjective(s)
    PROVE  /\ Tail(s) \in Seq(S) /\ IsInjective(Tail(s))
           /\ Range(s) = {Head(s)} \cup Range(Tail(s))
<1>1. /\ Len(s) \in Nat \ {0} /\ DOMAIN s = 1 .. Len(s)
      /\ Head(s) = s[1]
    OBVIOUS
<1>2. /\ Tail(s) \in Seq(S) /\ DOMAIN Tail(s) = 1 .. Len(s) - 1
      /\ \A i \in 1 .. Len(s) - 1 : Tail(s)[i] = s[i + 1]
    OBVIOUS
<1>3. IsInjective(Tail(s))
    <2> SUFFICES ASSUME NEW i \in DOMAIN Tail(s), NEW j \in DOMAIN Tail(s),
                        Tail(s)[i] = Tail(s)[j]
                 PROVE  i = j
        BY DEF IsInjective
    <2>1. /\ i + 1 \in DOMAIN s /\ j + 1 \in DOMAIN s
          /\ s[i + 1] = s[j + 1] /\ i \in Nat /\ j \in Nat
        BY <1>1, <1>2
    <2>2. i + 1 = j + 1
        BY <2>1 DEF IsInjective
    <2> QED BY <2>1, <2>2
<1>4. ASSUME NEW t \in Range(s) PROVE t \in {Head(s)} \cup Range(Tail(s))
    <2>1. PICK i \in DOMAIN s : s[i] = t
        BY DEF Range
    <2>2. CASE i = 1
        BY <1>1, <2>1, <2>2
    <2>3. CASE i # 1
        <3>1. i - 1 \in 1 .. Len(s) - 1 /\ (i - 1) + 1 = i
            BY <1>1, <2>3
        <3>2. Tail(s)[i - 1] = t
            BY <1>2, <2>1, <3>1
        <3>3. i - 1 \in DOMAIN Tail(s)
            BY <1>2, <3>1
        <3> QED BY <3>2, <3>3 DEF Range
    <2> QED BY <2>2, <2>3
<1>5. ASSUME NEW t \in Range(Tail(s)) PROVE t \in Range(s)
    <2>1. PICK i \in DOMAIN Tail(s) : Tail(s)[i] = t
        BY DEF Range
    <2>2. i + 1 \in DOMAIN s /\ s[i + 1] = t
        BY <1>1, <1>2, <2>1
    <2> QED BY <2>2 DEF Range
<1>6. Head(s) \in Range(s)
    <2>1. 1 \in DOMAIN s
        BY <1>1
    <2> QED BY <1>1, <2>1 DEF Range
<1> QED BY <1>2, <1>3, <1>4, <1>5, <1>6

LEMMA WriteFileHolds ==
    ASSUME IInv, WriteFile
    PROVE  IInv'
<1> DEFINE h == Head(toWrite)
<1>1. /\ at = "write" /\ toWrite # <<>>
      /\ tree' = [tree EXCEPT ![h].alias = "opened"]
      /\ toWrite' = Tail(toWrite)
      /\ UNCHANGED <<published, patched, index, at, raw, outcome, refreshes>>
    BY DEF WriteFile
<1>2. outcome # "done" /\ ~raw
    BY <1>1 DEF IInv, Staged
<1>3. /\ toWrite' \in Seq(DOMAIN tree) /\ IsInjective(toWrite')
      /\ Range(toWrite) = {h} \cup Range(toWrite')
    BY <1>1, HeadAndTail DEF IInv, Sorted
<1>4. PICK form \in {"closed", "unread"} : FilesOf(form) /\ OpensOf(form)
    BY <1>1 DEF IInv, Written, Generating
<1> DEFINE files == Generated(patched, form)
<1>5. h \in Opening(form)
    BY <1>1, <1>3, <1>4 DEF OpensOf
<1>6. /\ DOMAIN tree = DOMAIN files /\ h \in DOMAIN tree
      /\ tree[h] = files[h] \/ tree[h] = File(files[h].imports, "opened")
    BY <1>4, <1>5, GeneratedAliases DEF FilesOf
<1>7. /\ DOMAIN tree' = DOMAIN tree
      /\ tree'[h] = [tree[h] EXCEPT !.alias = "opened"]
      /\ \A t \in DOMAIN tree \ {h} : tree'[t] = tree[t]
    <2> HIDE DEF h, files
    <2> QED BY <1>1, <1>6
<1>8. tree'[h] = File(files[h].imports, "opened")
    <2>1. \/ tree[h] = File(files[h].imports, "closed")
          \/ tree[h] = File(files[h].imports, "opened")
        BY <1>4, <1>5, <1>6, GeneratedAliases
    <2> HIDE DEF files
    <2> QED BY <1>7, <2>1 DEF File
<1>9. PatchedOf' /\ Documented' /\ Generates(patched)' = Generates(patched)
    BY <1>1, SameDocuments
<1>10. Staged' /\ Accepted' /\ Verified'
    <2>1. verifyNoSharedEnumBearingSchemas(patched)' =
            verifyNoSharedEnumBearingSchemas(patched)
        BY <1>1
    <2> QED BY <1>1, <1>2, <1>9, <2>1 DEF IInv, Staged, Accepted, Generating,
                                          Verified
<1>11. Written'
    <2>1. Opening(form)' = Opening(form) /\ Generated(patched, form)' = files
        BY <1>1 DEF Opening
    <2>2. at' = "write"
        BY <1>1
    <2> HIDE DEF h, files
    <2>3. FilesOf(form)'
        <3>1. ASSUME NEW t \in DOMAIN tree'
              PROVE  \/ tree'[t] = files[t]
                     \/ /\ t \in Opening(form)
                        /\ tree'[t] = File(files[t].imports, "opened")
            <4>1. CASE t = h
                BY <1>5, <1>8, <4>1
            <4>2. CASE t # h
                BY <1>4, <1>7, <4>2 DEF FilesOf, files
            <4> QED BY <4>1, <4>2
        <3>2. DOMAIN tree' = DOMAIN files
            BY <1>6, <1>7
        <3> QED BY <2>1, <2>2, <3>1, <3>2 DEF FilesOf
    <2>4. OpensOf(form)'
        <3>1. Range(toWrite') \subseteq Opening(form)
            BY <1>1, <1>3, <1>4 DEF OpensOf
        <3>2. ASSUME NEW t \in Opening(form)
              PROVE  tree'[t].alias = "opened" \/ t \in Range(toWrite')
            <4>1. CASE t = h
                BY <1>8, <4>1, FileIs
            <4>2. CASE t # h
                <5>1. t \in DOMAIN tree
                    BY <1>4, GeneratedAliases DEF FilesOf
                <5>2. tree[t].alias = "opened" \/ t \in Range(toWrite)
                    BY <1>1, <1>4 DEF OpensOf
                <5> QED BY <1>3, <1>7, <4>2, <5>1, <5>2
            <4> QED BY <4>1, <4>2
        <3> QED BY <2>1, <2>2, <3>1, <3>2 DEF OpensOf
    <2> QED BY <2>2, <2>3, <2>4 DEF Written
<1>12. Indexed'
    BY <1>1, <1>7 DEF IInv, Indexed
<1>13. Sorted'
    <2>1. \A t \in DOMAIN tree' :
             tree'[t].alias \in {"none", "closed", "opened", "unread"}
        <3> HIDE DEF h, files
        <3> QED BY <1>7, <1>8, FileIs DEF IInv, Sorted
    <2> QED BY <1>1, <1>3, <1>7, <2>1 DEF IInv, Sorted, Steps
<1> QED BY <1>9, <1>10, <1>11, <1>12, <1>13 DEF IInv

LEMMA VerifyHolds ==
    ASSUME IInv, Verify
    PROVE  IInv'
<1> DEFINE happened ==
        verifyWideningHappened(patched, tree, ExcludedIn(patched, tree))
<1>1. /\ at = "write" /\ toWrite = <<>>
      /\ Stop(IF happened THEN "done" ELSE "failed")
      /\ UNCHANGED <<published, patched, tree, index, raw, refreshes>>
    BY DEF Verify
<1>2. CASE ~happened
    BY <1>1, <1>2, StopHolds DEF IInv, Sorted
<1>3. CASE happened
    <2>1. at' = "idle" /\ outcome' = "done" /\ toWrite' = <<>>
        BY <1>1, <1>3 DEF Stop
    <2>2. ~raw /\ outcome # "done"
        BY <1>1 DEF IInv, Staged
    <2>3. PatchedOf' /\ Documented' /\ Generates(patched)' = Generates(patched)
        BY <1>1, SameDocuments
    <2>4. Staged' /\ Accepted'
        BY <1>1, <2>1, <2>2, <2>3 DEF IInv, Staged, Accepted, Generating
    <2>5. Verified'
        <3>1. happened'
            BY <1>1, <1>3
        <3>2. verifyNoSharedEnumBearingSchemas(patched)'
            BY <1>1 DEF IInv, Verified
        <3> QED BY <3>1, <3>2 DEF Verified
    <2>6. Written'
        <3>1. PICK form \in {"closed", "unread"} : FilesOf(form) /\ OpensOf(form)
            BY <1>1 DEF IInv, Written, Generating
        <3>2. /\ Opening(form)' = Opening(form)
              /\ Generated(patched, form)' = Generated(patched, form)
            BY <1>1 DEF Opening
        <3>3. FilesOf(form)'
            BY <1>1, <2>1, <3>1, <3>2 DEF FilesOf
        <3>4. OpensOf(form)'
            BY <1>1, <2>1, <3>1, <3>2 DEF OpensOf
        <3> QED BY <2>1, <3>3, <3>4 DEF Written
    <2>7. Indexed'
        BY <1>1, <2>1 DEF IInv, Indexed
    <2>8. Sorted'
        BY <1>1, <2>1, NothingListed DEF IInv, Sorted, Steps
    <2> QED BY <2>3, <2>4, <2>5, <2>6, <2>7, <2>8 DEF IInv
<1> QED BY <1>2, <1>3

\* A step that ends the chain and writes nothing.
LEMMA EndHolds ==
    ASSUME IInv, Refuse \/ Interrupt
    PROVE  IInv'
<1>1. /\ UNCHANGED <<published, patched, tree, index, raw, refreshes>>
      /\ Stop("failed") \/ Stop("interrupted")
    BY DEF Refuse, Interrupt
<1> QED BY <1>1, StopHolds DEF IInv, Sorted

LEMMA StutterHolds ==
    ASSUME IInv, UNCHANGED vars
    PROVE  IInv'
<1>1. /\ Staged' /\ PatchedOf' /\ Documented' /\ Accepted'
    BY DEF vars, IInv, Staged, PatchedOf, Corrects, Documented, Accepted,
           Generating
<1>2. Written' /\ Verified'
    BY DEF vars, IInv, Written, FilesOf, OpensOf, Opening, Generating, Verified
<1>3. Indexed' /\ Sorted'
    BY DEF vars, IInv, Indexed, Sorted
<1> QED BY <1>1, <1>2, <1>3 DEF IInv

\* The chain keeps its order, step after step: what it works on was made of
\* the published document, the files are those of that document and the
\* opened ones among them are those the codemod found, the index has each
\* once.
THEOREM ChainInOrder == Spec => []IInv
<1>1. Init => IInv
    BY InitHolds
<1>2. IInv /\ [Next]_vars => IInv'
    <2> SUFFICES ASSUME IInv, [Next]_vars PROVE IInv'
        OBVIOUS
    <2>1. CASE Refresh \/ Generate \/ GenerateRaw
        BY <2>1, BeginHolds
    <2>2. CASE PatchSpec
        BY <2>2, PatchHolds
    <2>3. CASE Clean
        BY <2>3, CleanHolds
    <2>4. CASE Refuse \/ Interrupt
        BY <2>4, EndHolds
    <2>5. CASE Emit
        BY <2>5, EmitHolds
    <2>6. CASE Dedupe
        BY <2>6, DedupeHolds
    <2>7. CASE Widen
        BY <2>7, WidenHolds
    <2>8. CASE WriteFile
        BY <2>8, WriteFileHolds
    <2>9. CASE Verify
        BY <2>9, VerifyHolds
    <2>10. CASE UNCHANGED vars
        BY <2>10, StutterHolds
    <2> QED BY <2>1, <2>2, <2>3, <2>4, <2>5, <2>6, <2>7, <2>8, <2>9, <2>10
            DEF Next
<1> QED BY <1>1, <1>2, PTL DEF Spec

\* At every moment the step to come, the outcome and the aliases are what
\* the chain knows, and what is still to be opened are files of the tree,
\* each once.
THEOREM PipelineTyped == Spec => []TypeOK
<1>1. IInv => TypeOK
    <2> SUFFICES ASSUME IInv PROVE TypeOK
        OBVIOUS
    <2>1. Range(toWrite) \subseteq DOMAIN tree
        BY DEF IInv, Sorted, Range
    <2> QED BY <2>1 DEF IInv, Sorted, Documented, TypeOK
<1> QED BY <1>1, ChainInOrder, PTL

\* What was made of the published document, once the chain has corrected it.
LEMMA CorrectedIs ==
    ASSUME IInv, Corrects
    PROVE  /\ IsDocument(published) /\ published \in Published
           /\ ~RenameFails(published) /\ patchSpec(published).missing = {}
           /\ patched = patchSpec(published).doc
BY DocumentsAssumption DEF IInv, PatchedOf, Documented

\* Of any document the correction lets through: nothing in use is pruned, no
\* reference is left behind, an operation that documents responses has its
\* success typed or is a reviewed void write, a timestamp spelled out in its
\* component is a number and one by reference is left as it was published,
\* the alert context is open, and a second look finds nothing malformed.
THEOREM CorrectionsAreWhole == Spec => []PatchedWhole
<1>1. IInv => PatchedWhole
    <2> SUFFICES ASSUME IInv, Corrects
                 PROVE  /\ Declares(published) => Declares(patched)
                        /\ \A n \in Names(published) : Kept(n)
                        /\ \A o \in DOMAIN published.ops : WellAnswered(o)
                        /\ \A n \in DOMAIN TIMESTAMP_FIELDS :
                              \A f \in TIMESTAMP_FIELDS[n] : WellTimed(n, f)
                        /\ patched.schemas["Alert"].fields["alertContext"] = Open
                        /\ fixMalformedNonStringConstraints(patched) = patched
        BY DEF PatchedWhole
    <2>1. /\ IsDocument(published)
          /\ ~RenameFails(published) /\ patchSpec(published).missing = {}
          /\ patched = patchSpec(published).doc
        BY CorrectedIs
    <2>2. /\ computeReachableComponentNames(published) \subseteq
                Names(published) =>
             computeReachableComponentNames(patched) \subseteq Names(patched)
          /\ \A n \in Names(published) :
                \/ toPascalCase(n) \in Names(patched)
                \/ n \in EXPECTED_ORPHANED_COMPONENTS
          /\ \A o \in DOMAIN published.ops :
                Answered(published.ops[o], patched.ops[o].answers, o)
          /\ \A n \in DOMAIN TIMESTAMP_FIELDS : \A f \in TIMESTAMP_FIELDS[n] :
                TimedAs(published, patched, n, f)
          /\ Anchored(patched, "Alert", "alertContext", Open)
          /\ fixMalformedNonStringConstraints(patched) = patched
        BY <2>1, PatchedIs
    <2>3. Declares(published) => Declares(patched)
        BY <2>2 DEF Declares
    <2>4. \A n \in Names(published) : Kept(n)
        BY <2>2 DEF Kept
    <2>5. \A o \in DOMAIN published.ops : WellAnswered(o)
        BY <2>2 DEF WellAnswered, Answered
    <2>6. ASSUME NEW n \in DOMAIN TIMESTAMP_FIELDS, NEW f \in TIMESTAMP_FIELDS[n]
          PROVE  WellTimed(n, f)
        <3> DEFINE was == published.schemas[n].fields[f]
        <3>1. /\ HasField(published, n, f)
              /\ patched.schemas[n].fields[f] = AsTimestamp(Repointed(was))
            BY <2>2 DEF TimedAs, Anchored
        <3>2. IsNode(was)
            BY <2>1, <3>1, NodesAreNodes DEF HasField
        <3>3. IsNode(Repointed(was)) /\ Repointed(was).form = was.form
            BY <3>2, RepointedNode DEF Repointed, Node
        <3>4. Composed(Repointed(was)) <=> Composed(was)
            BY <3>3 DEF Composed
        <3> HIDE DEF was
        <3> QED BY <3>1, <3>3, <3>4, TimestampNode
                DEF WellTimed, TimestampForm, was
    <2>7. patched.schemas["Alert"].fields["alertContext"] = Open
        BY <2>2 DEF Anchored
    <2> QED BY <2>2, <2>3, <2>4, <2>5, <2>6, <2>7
<1> QED BY <1>1, ChainInOrder, PTL

-----------------------------------------------------------------------------
(* The tree *)

\* Where the chain has succeeded.
LEMMA DoneIs ==
    ASSUME IInv, outcome = "done"
    PROVE  /\ Corrects /\ Generating /\ Generates(patched)
           /\ IsDocument(patched) /\ toWrite = <<>>
           /\ verifyNoSharedEnumBearingSchemas(patched)
           /\ verifyWideningHappened(patched, tree, ExcludedIn(patched, tree))
           /\ IndexOnce(index, DOMAIN tree)
           /\ \E form \in {"closed", "unread"} : FilesOf(form) /\ OpensOf(form)
<1>1. at = "idle" /\ ~raw
    BY DEF IInv, Staged
<1>2. Corrects /\ Generating
    BY <1>1 DEF Corrects, Generating
<1>3. Generates(patched) /\ IsDocument(patched)
    BY <1>2 DEF IInv, Accepted, Documented
<1>4. toWrite = <<>> /\ IndexOnce(index, DOMAIN tree)
    BY <1>1 DEF IInv, Sorted, Indexed
<1> QED BY <1>2, <1>3, <1>4 DEF IInv, Verified, Written

LEMMA DoneOnlyItsTypes ==
    ASSUME IInv, outcome = "done"
    PROVE  OnlyItsTypes
<1>1. PICK form \in {"closed", "unread"} : FilesOf(form)
    BY DoneIs
<1>2. DOMAIN tree = Holders(patched) \cup EnumTypes(patched)
    BY <1>1, GeneratedIs DEF FilesOf
<1>3. patched = patchSpec(published).doc
    BY DoneIs, CorrectedIs
<1> QED BY <1>2, <1>3 DEF OnlyItsTypes, Holders

\* After a success there is a type for each component, parameter list and
\* enum of this document, corrected, and no type that an earlier one left.
THEOREM NothingLeftOver == Spec => [](outcome = "done" => OnlyItsTypes)
<1>1. IInv => (outcome = "done" => OnlyItsTypes)
    BY DoneOnlyItsTypes
<1> QED BY <1>1, ChainInOrder, PTL

\* And no import of the tree leads nowhere, and the index exports every type
\* once.
THEOREM DoneTreeIsWhole == Spec => []TreeIsOfThisDocument
<1>1. IInv => TreeIsOfThisDocument
    <2> SUFFICES ASSUME IInv, outcome = "done"
                 PROVE  /\ OnlyItsTypes
                        /\ \A t \in DOMAIN tree :
                              tree[t].imports \subseteq DOMAIN tree
                        /\ {index[i].type : i \in DOMAIN index} = DOMAIN tree
                        /\ Len(index) = Cardinality(DOMAIN tree)
        BY DEF TreeIsOfThisDocument
    <2>1. OnlyItsTypes
        BY DoneOnlyItsTypes
    <2>2. \A t \in DOMAIN tree : tree[t].imports \subseteq DOMAIN tree
        <3>1. PICK form \in {"closed", "unread"} : FilesOf(form)
            BY DoneIs
        <3>2. DOMAIN tree = DOMAIN Generated(patched, form)
            BY <3>1 DEF FilesOf
        <3>3. \A t \in DOMAIN tree :
                 tree[t].imports = Generated(patched, form)[t].imports
            BY <3>1, FilesExcluded
        <3>4. \A t \in DOMAIN Generated(patched, form) :
                 Generated(patched, form)[t].imports \subseteq
                   DOMAIN Generated(patched, form)
            BY DoneIs, ImportsInside
        <3> QED BY <3>2, <3>3, <3>4
    <2>3. /\ {index[i].type : i \in DOMAIN index} = DOMAIN tree
          /\ Len(index) = Cardinality(DOMAIN tree)
        BY DoneIs, OnceCounts
    <2> QED BY <2>1, <2>2, <2>3
<1> QED BY <1>1, ChainInOrder, PTL

-----------------------------------------------------------------------------
(* The enums *)

\* What bodies and answers reach is declared, and a body's reach leads
\* nowhere else.
LEMMA ReachIs ==
    ASSUME NEW doc, IsDocument(doc), Declares(doc)
    PROVE  /\ requestReach(doc) \subseteq Names(doc)
           /\ responseReach(doc) \subseteq Names(doc)
           /\ \A n \in requestReach(doc) :
                 Targets(doc, n) \subseteq requestReach(doc)
<1> DEFINE all == computeReachableComponentNames(doc)
<1>1. Supports(doc, all) /\ all \subseteq Names(doc)
    BY ReachedSupports DEF Declares
<1> HIDE DEF all
<1>2. \A n \in all \cap Names(doc) : Targets(doc, n) \subseteq all
    BY <1>1, TargetsWithin DEF Supports
<1>3. ASSUME NEW o \in DOMAIN doc.ops
      PROVE  /\ Reached(doc, doc.ops[o].body.refs) \subseteq all
             /\ Reached(doc, RefsIn(AnswerNodes(doc.ops[o]))) \subseteq all
    <2>1. doc.ops[o].body.refs \subseteq all
        BY <1>1 DEF Supports
    <2>2. RefsIn(AnswerNodes(doc.ops[o])) \subseteq all
        BY <1>1, RefersIs DEF Supports, AnswerNodes
    <2> QED BY <1>2, <2>1, <2>2, ReachedIs
<1>4. /\ requestReach(doc) \subseteq all
      /\ responseReach(doc) \subseteq all
    BY <1>3 DEF requestReach, responseReach, Range
<1>5. ASSUME NEW n \in requestReach(doc)
      PROVE  Targets(doc, n) \subseteq requestReach(doc)
    <2>1. PICK op \in Range(doc.ops) : n \in Reached(doc, op.body.refs)
        BY DEF requestReach
    <2>2. n \in Names(doc)
        BY <1>1, <1>4
    <2>3. Targets(doc, n) \subseteq Reached(doc, op.body.refs)
        BY <2>1, <2>2, ReachedIs
    <2> QED BY <2>3 DEF requestReach
<1> QED BY <1>1, <1>4, <1>5

LEMMA EnumIsFound ==
    ASSUME NEW doc, IsDocument(doc), NEW c \in Names(doc),
           NEW f \in EnumFields(doc.schemas[c].fields)
    PROVE  componentHasEnum(doc, c)
<1>1. c \in Reached(doc, {c})
    BY ReachedIs
<1>2. /\ doc.schemas[c].fields[f] \in Nodes(doc.schemas[c])
      /\ IsEnum(doc.schemas[c].fields[f])
    BY DEF EnumFields, Nodes, Range
<1> QED BY <1>1, <1>2 DEF componentHasEnum

\* No component of the corrected document has an operation's name.
LEMMA PatchedApart ==
    ASSUME IInv, Corrects
    PROVE  \A n \in Names(patched) : n \notin DOMAIN patched.ops
<1>1. /\ DOMAIN patched.ops = DOMAIN published.ops
      /\ Names(patched) \subseteq
            Renamed(Names(published)) \cup {TheSplit.requestSchema}
    BY CorrectedIs, PatchedIs
<1>2. NamesApart(published)
    BY CorrectedIs, NamesAssumption
<1>3. TheSplit \in REQUEST_RESPONSE_SPLITS
    BY DEF REQUEST_RESPONSE_SPLITS, TheSplit
<1>4. ASSUME NEW n \in Renamed(Names(published)) \cup {TheSplit.requestSchema},
             n \in DOMAIN published.ops
      PROVE  FALSE
    <2>1. CASE n = TheSplit.requestSchema
        BY <1>2, <1>3, <1>4, <2>1 DEF NamesApart
    <2>2. CASE n \in Renamed(Names(published))
        BY <1>2, <1>4, <2>2 DEF NamesApart, Renamed
    <2> QED BY <2>1, <2>2
<1> QED BY <1>1, <1>4

\* What is left closed: the roots, what they import, and no more.
LEMMA ExcludedIs ==
    ASSUME NEW doc, NEW files, IsFiniteSet(DOMAIN files)
    PROVE  LET roots == computeRootExclusion(files,
                            computeRequestOnlyComponentNames(doc))
               excluded == ExcludedIn(doc, files)
           IN  /\ roots \subseteq excluded
               /\ \A t \in excluded \cap DOMAIN files :
                     files[t].imports \subseteq excluded
               /\ \A C : /\ roots \subseteq C
                         /\ \A t \in C \cap DOMAIN files :
                               files[t].imports \subseteq C
                         => excluded \subseteq C
<1> DEFINE roots == computeRootExclusion(files,
                        computeRequestOnlyComponentNames(doc))
           next == [t \in DOMAIN files |-> files[t].imports]
           excluded == ExcludedIn(doc, files)
<1>1. excluded = Followed(roots, next)
    BY DEF ExcludedIn, expandExcludedNames
<1>2. DOMAIN next = DOMAIN files /\ \A t \in DOMAIN files : next[t] = files[t].imports
    OBVIOUS
<1> HIDE DEF roots, next, excluded
<1>3. roots \subseteq excluded
    BY <1>1, <1>2, FollowedRoots
<1>4. \A t \in excluded \cap DOMAIN files : files[t].imports \subseteq excluded
    BY <1>1, <1>2, FollowedClosed
<1>5. \A C : /\ roots \subseteq C
             /\ \A t \in C \cap DOMAIN files : files[t].imports \subseteq C
             => excluded \subseteq C
    BY <1>1, <1>2, FollowedLeast
<1> QED BY <1>3, <1>4, <1>5 DEF roots, excluded

\* What the imports of the tree are, once the generator has written it.
LEMMA TreeImports ==
    ASSUME NEW form \in {"closed", "unread"}, FilesOf(form),
           NEW t \in DOMAIN tree
    PROVE  tree[t].imports = IF t \in Holders(patched)
                             THEN Imports(patched, t) ELSE {}
<1>1. t \in DOMAIN Generated(patched, form)
    BY DEF FilesOf
<1>2. tree[t].imports = Generated(patched, form)[t].imports
    BY FilesExcluded
<1>3. Generated(patched, form)[t] =
         IF t \in Holders(patched) THEN File(Imports(patched, t), "none")
         ELSE File({}, form)
    BY <1>1, GeneratedIs
<1> QED BY <1>2, <1>3, FileIs

\* A holder's enums are left closed with it.
LEMMA EnumsExcluded ==
    ASSUME NEW form \in {"closed", "unread"}, FilesOf(form),
           IsDocument(patched)
    PROVE  LET excluded == ExcludedIn(patched, tree)
           IN  /\ \A o \in DOMAIN patched.ops :
                     \A f \in EnumFields(patched.ops[o].params) :
                        DOMAIN patched.ops[o].params # {} =>
                           <<o, f>> \in excluded
               /\ \A c \in Names(patched) :
                     \A f \in EnumFields(patched.schemas[c].fields) :
                        c \in computeRequestOnlyComponentNames(patched) =>
                           <<c, f>> \in excluded
<1> DEFINE requestOnly == computeRequestOnlyComponentNames(patched)
           roots == computeRootExclusion(tree, requestOnly)
           excluded == ExcludedIn(patched, tree)
<1>1. /\ DOMAIN tree = Holders(patched) \cup EnumTypes(patched)
      /\ IsFiniteSet(DOMAIN tree)
    BY GeneratedIs, FiniteFiles DEF FilesOf
<1>2. /\ roots \subseteq excluded
      /\ \A t \in excluded \cap DOMAIN tree : tree[t].imports \subseteq excluded
    BY <1>1, ExcludedIs
<1>3. \A t \in DOMAIN tree : isRequestRootName(t, requestOnly) => t \in roots
    BY DEF computeRootExclusion
<1> HIDE DEF roots, excluded, requestOnly
<1>4. ASSUME NEW o \in DOMAIN patched.ops,
             NEW f \in EnumFields(patched.ops[o].params),
             DOMAIN patched.ops[o].params # {}
      PROVE  <<o, f>> \in excluded
    <2> DEFINE h == <<o, "Params">>
    <2>1. h \in Holders(patched)
        BY <1>4, HoldersAre
    <2>2. isRequestRootName(h, requestOnly)
        BY DEF isRequestRootName, EndsInRootSuffix
    <2>3. <<o, f>> \in Imports(patched, h)
        BY HoldersAre DEF ImportsOf
    <2>4. h \in DOMAIN tree /\ tree[h].imports = Imports(patched, h)
        BY <1>1, <2>1, TreeImports
    <2> HIDE DEF h
    <2> QED BY <1>2, <1>3, <2>2, <2>3, <2>4
<1>5. ASSUME NEW c \in Names(patched), c \in requestOnly,
             NEW f \in EnumFields(patched.schemas[c].fields)
      PROVE  <<c, f>> \in excluded
    <2> DEFINE h == <<c>>
    <2>1. h \in Holders(patched)
        BY HoldersAre
    <2>2. isRequestRootName(h, requestOnly)
        BY <1>5 DEF isRequestRootName
    <2>3. <<c, f>> \in Imports(patched, h)
        BY HoldersAre DEF ImportsOf
    <2>4. h \in DOMAIN tree /\ tree[h].imports = Imports(patched, h)
        BY <1>1, <2>1, TreeImports
    <2> HIDE DEF h
    <2> QED BY <1>2, <1>3, <2>2, <2>3, <2>4
<1> QED BY <1>4, <1>5 DEF excluded, requestOnly

\* The components taken for requests, and what bodies reach: no more than
\* their types and the parameters' is left closed, but for a type whose own
\* name ends like a request's.
LEMMA OnlyThoseExcluded ==
    ASSUME NEW form \in {"closed", "unread"}, FilesOf(form),
           IsDocument(patched), Generates(patched),
           \A n \in Names(patched) : n \notin DOMAIN patched.ops,
           NEW t \in ExcludedIn(patched, tree)
    PROVE  \/ EndsInRootSuffix(t)
           \/ t[1] \in TakenForRequests \cup requestReach(patched)
           \/ t[1] \in DOMAIN patched.ops
<1> DEFINE requestOnly == computeRequestOnlyComponentNames(patched)
           roots == computeRootExclusion(tree, requestOnly)
           B == TakenForRequests \cup requestReach(patched)
           C == {u \in DOMAIN tree : \/ EndsInRootSuffix(u)
                                     \/ u[1] \in B
                                     \/ u[1] \in DOMAIN patched.ops}
           taken == (UNION {RefsIn(ParamNodes(op)) : op \in Range(patched.ops)})
                      \cup {n \in Names(patched) : EndsInRootSuffix(<<n>>)}
<1>1. /\ DOMAIN tree = Holders(patched) \cup EnumTypes(patched)
      /\ IsFiniteSet(DOMAIN tree)
    BY GeneratedIs, FiniteFiles DEF FilesOf
<1>2. Declares(patched) /\ \A n \in Names(patched) : ValidKey(n)
    BY DEF Generates
<1>3. /\ taken \subseteq TakenForRequests
      /\ \A n \in TakenForRequests \cap Names(patched) :
            Targets(patched, n) \subseteq TakenForRequests
    <2>1. TakenForRequests = Reached(patched, taken)
        BY DEF TakenForRequests
    <2> HIDE DEF taken
    <2> QED BY ONLY <2>1, ReachedIs, IsDocument(patched)
<1>4. /\ requestReach(patched) \subseteq Names(patched)
      /\ \A n \in requestReach(patched) :
            Targets(patched, n) \subseteq requestReach(patched)
    BY <1>2, ReachIs
<1>5. \A n \in B \cap Names(patched) : Targets(patched, n) \subseteq B
    BY <1>3, <1>4
<1>6. \A n \in Names(patched) : EndsInRootSuffix(<<n>>) => n \in B
    BY <1>3
<1>7. \A o \in DOMAIN patched.ops :
         RefsIn(ParamNodes(patched.ops[o])) \subseteq B
    <2> SUFFICES ASSUME NEW o \in DOMAIN patched.ops
                 PROVE  RefsIn(ParamNodes(patched.ops[o])) \subseteq taken
        BY <1>3
    <2>1. patched.ops[o] \in Range(patched.ops)
        BY DEF Range
    <2> QED BY <2>1
<1>8. requestOnly \subseteq B
    BY <1>2, <1>4, PascalOfNames DEF computeRequestOnlyComponentNames
<1>9. roots \subseteq {u \in DOMAIN tree : \/ EndsInRootSuffix(u)
                                           \/ u[1] \in requestOnly}
    BY DEF computeRootExclusion, isRequestRootName
<1> HIDE DEF B, requestOnly, roots, taken
<1>10. roots \subseteq C
    BY <1>8, <1>9
<1>11. \A u \in DOMAIN tree : tree[u].imports \subseteq DOMAIN tree
    <2>1. DOMAIN tree = DOMAIN Generated(patched, form)
        BY DEF FilesOf
    <2>2. \A u \in DOMAIN tree :
             tree[u].imports = Generated(patched, form)[u].imports
        BY FilesExcluded
    <2>3. \A u \in DOMAIN Generated(patched, form) :
             Generated(patched, form)[u].imports \subseteq
                 DOMAIN Generated(patched, form)
        BY ImportsInside
    <2> QED BY <2>1, <2>2, <2>3
<1>12. ASSUME NEW u \in C, NEW v \in tree[u].imports
       PROVE  v[1] \in B \/ v[1] \in DOMAIN patched.ops
    <2>1. u \in Holders(patched) /\ v \in Imports(patched, u)
        BY TreeImports
    <2>2. ASSUME NEW c \in Names(patched), u = <<c>>
          PROVE  v[1] \in B
        <3>1. c \in B
            BY <1>6, <2>2
        <3>2. v \in ImportsOf(Targets(patched, c), c, patched.schemas[c].fields)
            BY <2>1, <2>2, HoldersAre
        <3>3. \/ \E x \in Targets(patched, c) : v = <<x>>
              \/ \E f \in EnumFields(patched.schemas[c].fields) : v = <<c, f>>
            BY <3>2 DEF ImportsOf
        <3>4. Targets(patched, c) \subseteq B
            BY <1>5, <3>1
        <3> QED BY <3>1, <3>3, <3>4
    <2>3. ASSUME NEW o \in DOMAIN patched.ops, u = <<o, "Params">>
          PROVE  v[1] \in B \/ v[1] \in DOMAIN patched.ops
        <3>1. v \in ImportsOf(RefsIn(ParamNodes(patched.ops[o])), o,
                              patched.ops[o].params)
            BY <2>1, <2>3, HoldersAre
        <3>2. \/ \E x \in RefsIn(ParamNodes(patched.ops[o])) : v = <<x>>
              \/ \E f \in EnumFields(patched.ops[o].params) : v = <<o, f>>
            BY <3>1 DEF ImportsOf
        <3> QED BY <1>7, <3>2
    <2> QED BY <2>1, <2>2, <2>3, HoldersAre
<1>13. \A u \in C \cap DOMAIN tree : tree[u].imports \subseteq C
    BY <1>11, <1>12
<1> HIDE DEF C
<1>14. ExcludedIn(patched, tree) \subseteq C
    BY <1>1, <1>10, <1>13, ExcludedIs DEF roots, requestOnly
<1> QED BY <1>14 DEF C, B

\* Every enum of a body's component is on the request's side: its component
\* is reached from no answer, or the chain would not have gone on.
LEMMA RequestEnum ==
    ASSUME IInv, outcome = "done", NEW c \in Names(patched),
           NEW f \in EnumFields(patched.schemas[c].fields)
    PROVE  c \in requestReach(patched) <=>
             c \in computeRequestOnlyComponentNames(patched)
<1>1. /\ IsDocument(patched) /\ Generates(patched) /\ Declares(patched)
      /\ verifyNoSharedEnumBearingSchemas(patched)
    BY DoneIs DEF Generates
<1>2. componentHasEnum(patched, c)
    BY <1>1, EnumIsFound
<1>3. c \in requestReach(patched) => c \notin responseReach(patched)
    BY <1>1, <1>2 DEF verifyNoSharedEnumBearingSchemas
<1>4. /\ requestReach(patched) \subseteq Names(patched)
      /\ \A n \in Names(patched) : toPascalCase(n) = n
    BY <1>1, ReachIs, PascalOfNames DEF Generates
<1> QED BY <1>3, <1>4 DEF computeRequestOnlyComponentNames

LEMMA RequestsStayClosed ==
    ASSUME IInv, outcome = "done", NEW t \in EnumTypes(patched),
           \/ t[1] \in requestReach(patched)
           \/ t[1] \in DOMAIN patched.ops
    PROVE  tree[t].alias # "opened"
<1>1. IsDocument(patched) /\ Corrects
    BY DoneIs
<1>2. PICK form \in {"closed", "unread"} : FilesOf(form)
    BY DoneIs
<1>3. t \in ExcludedIn(patched, tree)
    <2>0. \A n \in Names(patched) : n \notin DOMAIN patched.ops
        BY <1>1, PatchedApart
    <2>1. CASE \E o \in DOMAIN patched.ops :
                  \E f \in EnumFields(patched.ops[o].params) :
                     DOMAIN patched.ops[o].params # {} /\ t = <<o, f>>
        BY <1>1, <1>2, <2>1, EnumsExcluded
    <2>2. CASE \E c \in Names(patched) :
                  \E f \in EnumFields(patched.schemas[c].fields) : t = <<c, f>>
        <3>1. PICK c \in Names(patched) :
                 \E f \in EnumFields(patched.schemas[c].fields) : t = <<c, f>>
            BY <2>2
        <3>2. PICK f \in EnumFields(patched.schemas[c].fields) : t = <<c, f>>
            BY <3>1
        <3>3. t[1] = c
            BY <3>2
        <3>4. c \in requestReach(patched)
            BY <2>0, <3>3
        <3>5. c \in computeRequestOnlyComponentNames(patched)
            BY <3>4, RequestEnum
        <3> QED BY <1>1, <1>2, <3>2, <3>5, EnumsExcluded
    <2> QED BY <2>1, <2>2, EnumTypesAre
<1> DEFINE files == Generated(patched, form)
<1>4. t \in DOMAIN tree /\ DOMAIN tree = DOMAIN files
    <2>1. DOMAIN tree = DOMAIN files
        BY <1>2 DEF FilesOf
    <2>2. DOMAIN files = Holders(patched) \cup EnumTypes(patched)
        BY GeneratedIs
    <2> QED BY <2>1, <2>2
<1>5. t \notin Opening(form)
    BY <1>2, <1>3, FilesExcluded DEF Opening, Matched
<1>6. tree[t] = files[t]
    BY <1>2, <1>4, <1>5 DEF FilesOf
<1>7. files[t].alias \in {"none", form}
    BY <1>4, GeneratedAliases
<1> QED BY <1>6, <1>7

LEMMA AnswersAreOpened ==
    ASSUME IInv, outcome = "done", NEW t \in EnumTypes(patched),
           t[1] \in responseReach(patched) \ TakenForRequests,
           ~EndsInRootSuffix(t)
    PROVE  tree[t].alias = "opened"
<1>1. /\ IsDocument(patched) /\ Corrects /\ Generates(patched)
      /\ Declares(patched) /\ toWrite = <<>>
      /\ verifyWideningHappened(patched, tree, ExcludedIn(patched, tree))
    BY DoneIs DEF Generates
<1>2. PICK form \in {"closed", "unread"} : FilesOf(form) /\ OpensOf(form)
    BY DoneIs
<1>3. \A n \in Names(patched) : n \notin DOMAIN patched.ops
    BY <1>1, PatchedApart
<1>4. t[1] \in Names(patched)
    BY <1>1, ReachIs
<1>5. PICK c \in Names(patched) :
         \E f \in EnumFields(patched.schemas[c].fields) : t = <<c, f>>
    BY <1>3, <1>4, EnumTypesAre
<1>6. PICK f \in EnumFields(patched.schemas[c].fields) : t = <<c, f>>
    BY <1>5
<1>7. t[1] = c /\ t[Len(t)] = f /\ Len(t) = 2
    BY <1>6
<1>8. componentHasEnum(patched, c)
    BY <1>1, EnumIsFound
<1>9. c \notin requestReach(patched)
    BY <1>1, <1>7, <1>8, DoneIs DEF verifyNoSharedEnumBearingSchemas
<1> DEFINE excluded == ExcludedIn(patched, tree)
           files == Generated(patched, form)
<1>10. t \notin excluded
    BY <1>1, <1>2, <1>3, <1>4, <1>7, <1>9, OnlyThoseExcluded
<1>11. /\ t \in DOMAIN files /\ DOMAIN tree = DOMAIN files
       /\ excluded = ExcludedIn(patched, files)
    <2>1. DOMAIN tree = DOMAIN files
        BY <1>2 DEF FilesOf
    <2>2. DOMAIN files = Holders(patched) \cup EnumTypes(patched)
        BY GeneratedIs
    <2>3. excluded = ExcludedIn(patched, files)
        BY <1>2, FilesExcluded
    <2> QED BY <2>1, <2>2, <2>3
<1>12. t \notin Holders(patched)
    <2>1. \A o : <<o, "Params">>[Len(<<o, "Params">>)] = "Params"
        OBVIOUS
    <2>2. \A n : Len(<<n>>) = 1
        OBVIOUS
    <2>3. t[Len(t)] # "Params"
        BY DEF EndsInRootSuffix
    <2> QED BY <1>7, <2>1, <2>2, <2>3, HoldersAre
<1>13. files[t].alias = form
    <2>1. files[t] = IF t \in Holders(patched)
                     THEN File(Imports(patched, t), "none") ELSE File({}, form)
        BY <1>11, GeneratedIs
    <2> HIDE DEF files
    <2> QED BY <1>12, <2>1, FileIs
<1>14. CASE form = "closed"
    <2>1. t \in Opening(form)
        BY <1>10, <1>11, <1>13, <1>14 DEF Opening, Matched
    <2>2. t \notin Range(toWrite)
        BY <1>1, NothingListed
    <2> QED BY <1>2, <2>1, <2>2 DEF OpensOf
<1>15. CASE form = "unread"
    <2>1. Opening(form) = {}
        <3>1. \A u \in Opening(form) : /\ u \in DOMAIN files
                                       /\ files[u].alias = "closed"
            BY GeneratedAliases
        <3>2. \A u \in DOMAIN files : files[u].alias \in {"none", form}
            BY GeneratedAliases
        <3> QED BY <1>15, <3>1, <3>2
    <2>2. \A u \in DOMAIN tree : tree[u].alias \in {"none", "unread"}
        <3>1. \A u \in DOMAIN tree : tree[u] = files[u]
            BY <1>2, <2>1 DEF FilesOf
        <3>2. \A u \in DOMAIN files : files[u].alias \in {"none", form}
            BY GeneratedAliases
        <3> HIDE DEF files
        <3> QED BY <1>11, <1>15, <3>1, <3>2
    <2>3. Matched(tree, excluded) = {}
        BY <2>2 DEF Matched
    <2>4. \A n \in responseReach(patched) : ~componentHasEnum(patched, n)
        BY <1>1, <2>3 DEF verifyWideningHappened
    <2> QED BY <1>7, <1>8, <2>4
<1> QED BY <1>14, <1>15

\* After a success the union of an enum a client sends is closed, at any
\* depth of a body and for every parameter, and an enum the server answers
\* with is open, but for the components the codemod takes for requests.
THEOREM EnumsAreOnTheirSide == Spec => []EnumsOnTheirSide
<1>1. IInv => EnumsOnTheirSide
    BY RequestsStayClosed, AnswersAreOpened DEF EnumsOnTheirSide
<1> QED BY <1>1, ChainInOrder, PTL
=============================================================================
