---------------------------- MODULE MaskingProofs ----------------------------
(***************************************************************************)
(* What is proved of a log call, for every graph of objects the            *)
(* application may link: the walk that shares one set of ancestors between *)
(* all its branches gives the logger what a walk with a set of its own for *)
(* each branch would, and no udf value of plain structure is in it.        *)
(*                                                                         *)
(* The walk is a fold over the keys of an object inside a recursion over   *)
(* the objects, with a set that both write to.  That the set comes back    *)
(* from a nested walk as it went in holds because it does for every larger *)
(* set: an induction over the sets of ancestors from the largest down.     *)
(***************************************************************************)
EXTENDS Masking, DataInduction, TLAPS

Values == Objects \cup Scalars
Keys   == {UdfKey, Index} \cup OtherKeys
Whats  == {"record", "redacted", "circular", "same"}
Places == [path : Seq(Keys), what : Whats, of : Values]
Walks  == [out : SUBSET Places, seen : SUBSET Objects, threw : BOOLEAN]

\* The objects are linked as the application may link them.
Linked ==
    /\ kind \in [Objects -> {"plain", "bare", "array", "instance"}]
    /\ heap = [o \in Objects |-> heap[o]]
    /\ \A o \in Objects :
          /\ DOMAIN heap[o] \subseteq KeysOf(o)
          /\ IsFiniteSet(DOMAIN heap[o])
          /\ \A k \in DOMAIN heap[o] : heap[o][k] \in Values

LEMMA KeysAre == \A o : KeysOf(o) \subseteq Keys
BY DEF KeysOf, Keys

LEMMA PlacesAre ==
    /\ Record \in SUBSET Places
    /\ Redacted \in SUBSET Places
    /\ Circular \in SUBSET Places
    /\ \A v \in Values : Same(v) \in SUBSET Places
    /\ \A k \in Keys, P \in SUBSET Places : Under(k, P) \in SUBSET Places
<1>1. << >> \in Seq(Keys) /\ Null \in Values
    BY DEF Values, Scalars
<1>2. \A what \in Whats, of \in Values : Here(what, of) \in SUBSET Places
    BY <1>1 DEF Here, Places
<1>3. ASSUME NEW k \in Keys, NEW P \in SUBSET Places
      PROVE  Under(k, P) \in SUBSET Places
    <2>1. \A q \in Seq(Keys) : <<k>> \o q \in Seq(Keys)
        OBVIOUS
    <2>2. ASSUME NEW p \in P
          PROVE  [path |-> <<k>> \o p.path, what |-> p.what, of |-> p.of] \in Places
        <3>1. p \in Places
            OBVIOUS
        <3>2. p.path \in Seq(Keys) /\ p.what \in Whats /\ p.of \in Values
            BY <3>1 DEF Places
        <3> QED BY <2>1, <3>2 DEF Places
    <2> QED BY <2>2 DEF Under
<1> QED BY <1>1, <1>2, <1>3 DEF Record, Redacted, Circular, Same, Whats

-----------------------------------------------------------------------------
(* One object: the fold over its keys *)

\* What becomes of the value under a key, when the set is T.
Part(f, T, o, k) ==
    LET v == heap[o][k]
    IN  IF IsUdf(k, v)
        THEN [out |-> Redacted, seen |-> T, threw |-> ~Serializes(v) /\ ~Prints(v)]
        ELSE Scrub(f, v, T)

\* What becomes of the object, if each key gets the same set.
Closed(f, T, o) ==
    [out   |-> UNION {Under(k, Part(f, T, o, k).out) : k \in DOMAIN heap[o]},
     seen  |-> T,
     threw |-> {k \in DOMAIN heap[o] : Part(f, T, o, k).threw} # {}]

\* What becomes of it, with the set handed on from key to key.
Folded(f, T, o) ==
    LET iter[s \in SUBSET DOMAIN heap[o]] ==
            IF s = {} THEN [out |-> {}, seen |-> T, threw |-> FALSE]
            ELSE LET x == CHOOSE x \in s : TRUE
                 IN  ScrubEntry(f, o, x, iter[s \ {x}])
    IN  iter[DOMAIN heap[o]]

\* f, for one object more among the ancestors, leaves them as it found them.
Restores(f, T) ==
    \A v \in Objects \ T :
       /\ f[T \cup {v}][v].seen = T \cup {v}
       /\ f[T \cup {v}][v].threw \in BOOLEAN
       /\ f[T \cup {v}][v].out \in SUBSET Places

\* Then so does a key.
LEMMA PartRestores ==
    ASSUME Linked, NEW f, NEW T \in SUBSET Objects, Restores(f, T),
           NEW o \in Objects, NEW k \in DOMAIN heap[o]
    PROVE  /\ Part(f, T, o, k).seen = T
           /\ Part(f, T, o, k).threw \in BOOLEAN
           /\ Part(f, T, o, k).out \in SUBSET Places
<1> DEFINE v == heap[o][k]
<1>1. v \in Values
    BY DEF Linked
<1> HIDE DEF v
<1>2. CASE IsUdf(k, v)
    <2>1. Part(f, T, o, k) =
             [out |-> Redacted, seen |-> T, threw |-> ~Serializes(v) /\ ~Prints(v)]
        BY <1>2 DEF Part, v
    <2>2. (~Serializes(v) /\ ~Prints(v)) \in BOOLEAN
        OBVIOUS
    <2> QED BY <2>1, <2>2, PlacesAre
<1>3. CASE ~IsUdf(k, v)
    <2>1. Part(f, T, o, k) = Scrub(f, v, T)
        BY <1>3 DEF Part, v
    <2>2. CASE ~Walkable(v)
        BY <1>1, <2>1, <2>2, PlacesAre DEF Scrub
    <2>3. CASE Walkable(v) /\ v \in T
        BY <2>1, <2>3, PlacesAre DEF Scrub
    <2>4. CASE Walkable(v) /\ v \notin T
        <3> DEFINE w == f[T \cup {v}][v]
        <3>1. v \in Objects \ T
            BY <2>4 DEF Walkable
        <3>2. /\ w.seen = T \cup {v} /\ w.threw \in BOOLEAN
              /\ w.out \in SUBSET Places
            BY <3>1 DEF Restores
        <3>3. Scrub(f, v, T) = [out |-> Record \cup w.out,
                                seen |-> Leave(w.seen, v), threw |-> w.threw]
            BY <2>4 DEF Scrub, Enter
        <3> HIDE DEF w
        <3>4. Leave(w.seen, v) = T
            BY <3>1, <3>2 DEF Leave
        <3> QED BY <2>1, <3>2, <3>3, <3>4, PlacesAre
    <2> QED BY <2>2, <2>3, <2>4
<1> QED BY <1>2, <1>3

\* And so the keys of an object may be taken in any order, each for itself.
LEMMA FoldIsClosed ==
    ASSUME Linked, NEW f, NEW T \in SUBSET Objects, Restores(f, T),
           NEW o \in Objects
    PROVE  Folded(f, T, o) = Closed(f, T, o)
<1> DEFINE S == DOMAIN heap[o]
           bad == {k \in S : Part(f, T, o, k).threw}
           Out(s) == UNION {Under(k, Part(f, T, o, k).out) : k \in s}
           Of(s) == [out |-> Out(s), seen |-> T, threw |-> s \cap bad # {}]
           base == [out |-> {}, seen |-> T, threw |-> FALSE]
           iter == CHOOSE g : g = [s \in SUBSET S |->
                        IF s = {} THEN base
                        ELSE LET x == CHOOSE x \in s : TRUE
                             IN  ScrubEntry(f, o, x, g[s \ {x}])]
           c == [s \in SUBSET S |-> Of(s)]
<1>1. Folded(f, T, o) = iter[S]
    BY Zenon DEF Folded
<1>2. IsFiniteSet(S)
    BY DEF Linked
<1>3. Closed(f, T, o) = Of(S)
    <2>1. bad = S \cap bad
        OBVIOUS
    <2> QED BY <2>1 DEF Closed
<1>4. ASSUME NEW s \in SUBSET S, NEW x \in s
      PROVE  Of(s) = ScrubEntry(f, o, x, Of(s \ {x}))
    <2> DEFINE p == Part(f, T, o, x)
               sofar == Of(s \ {x})
    <2>1. p.seen = T /\ p.threw \in BOOLEAN
        BY <1>4, PartRestores
    <2>2. ScrubEntry(f, o, x, sofar) =
             [out |-> sofar.out \cup Under(x, p.out), seen |-> p.seen,
              threw |-> sofar.threw \/ p.threw]
        BY DEF ScrubEntry, Part
    <2>3. sofar.out = Out(s \ {x})
        OBVIOUS
    <2>4. Out(s) = Out(s \ {x}) \cup Under(x, p.out)
        OBVIOUS
    <2>5. (s \cap bad # {}) <=> ((s \ {x}) \cap bad # {} \/ p.threw)
        OBVIOUS
    <2>6. sofar.threw = ((s \ {x}) \cap bad # {})
        OBVIOUS
    <2>7. (s \cap bad # {}) = (sofar.threw \/ p.threw)
        <3> HIDE DEF p, bad, sofar
        <3> QED BY <2>5, <2>6
    <2> HIDE DEF p, bad, sofar, Out
    <2>8. ScrubEntry(f, o, x, sofar) =
             [out |-> Out(s), seen |-> T, threw |-> s \cap bad # {}]
        BY <2>1, <2>2, <2>3, <2>4, <2>7
    <2>9. ScrubEntry(f, o, x, sofar) = Of(s)
        BY <2>8
    <2> HIDE DEF Of
    <2> QED BY <2>9 DEF sofar
<1>5. Of({}) = base
    OBVIOUS
<1> HIDE DEF Of, base
<1>6. c = [s \in SUBSET S |->
             IF s = {} THEN base
             ELSE LET x == CHOOSE x \in s : TRUE
                  IN  ScrubEntry(f, o, x, c[s \ {x}])]
    <2>1. ASSUME NEW s \in SUBSET S
          PROVE  Of(s) = IF s = {} THEN base
                         ELSE LET x == CHOOSE x \in s : TRUE
                              IN  ScrubEntry(f, o, x, c[s \ {x}])
        <3>1. CASE s = {}
            BY <1>5, <3>1
        <3>2. CASE s # {}
            <4> DEFINE x == CHOOSE x \in s : TRUE
            <4>1. x \in s
                BY <3>2
            <4> HIDE DEF x
            <4>2. c[s \ {x}] = Of(s \ {x})
                OBVIOUS
            <4>3. Of(s) = ScrubEntry(f, o, x, c[s \ {x}])
                BY <1>4, <4>1, <4>2
            <4> QED BY <3>2, <4>3 DEF x
        <3> QED BY <3>1, <3>2
    <2> QED BY <2>1, Zenon
<1>7. iter = [s \in SUBSET S |->
                IF s = {} THEN base
                ELSE LET x == CHOOSE x \in s : TRUE
                     IN  ScrubEntry(f, o, x, iter[s \ {x}])]
    <2> HIDE DEF c
    <2> QED BY <1>6, Zenon
<1> HIDE DEF iter, c
<1> DEFINE F == {s \in SUBSET S : iter[s] = Of(s)}
<1>8. {} \in F
    BY <1>5, <1>7
<1>9. ASSUME NEW s \in SUBSET S, s # {}, s \ {Picked(S)[s]} \in F PROVE s \in F
    <2> DEFINE x == CHOOSE x \in s : TRUE
    <2>1. x = Picked(S)[s] /\ x \in s
        BY <1>9 DEF Picked
    <2>2. iter[s] = ScrubEntry(f, o, x, iter[s \ {x}])
        BY <1>7, <1>9
    <2> HIDE DEF x
    <2>3. iter[s \ {x}] = Of(s \ {x})
        BY <1>9, <2>1
    <2> QED BY <1>4, <2>1, <2>2, <2>3
<1> HIDE DEF F, S
<1>10. SUBSET S \subseteq F
    BY ONLY <1>2, <1>8, <1>9, PickedInduction
<1>11. S \in F
    BY <1>10
<1> QED BY <1>1, <1>3, <1>11 DEF F

-----------------------------------------------------------------------------
(* All objects: the recursion *)

\* What becomes of an object depends on what becomes of the others with one
\* ancestor more, and on nothing else.
LEMMA ClosedOfLarger ==
    ASSUME NEW f, NEW g, NEW T \in SUBSET Objects,
           \A v \in Objects \ T : f[T \cup {v}][v] = g[T \cup {v}][v],
           NEW o \in Objects
    PROVE  Closed(f, T, o) = Closed(g, T, o)
<1>1. ASSUME NEW k \in DOMAIN heap[o] PROVE Part(f, T, o, k) = Part(g, T, o, k)
    <2> DEFINE v == heap[o][k]
    <2>1. Scrub(f, v, T) = Scrub(g, v, T)
        <3>1. CASE ~Walkable(v) \/ v \in T
            BY <3>1 DEF Scrub
        <3>2. CASE Walkable(v) /\ v \notin T
            <4>1. f[Enter(T, v)][v] = g[Enter(T, v)][v]
                BY <3>2 DEF Walkable, Enter
            <4> HIDE DEF v
            <4> QED BY <4>1 DEF Scrub
        <3> QED BY <3>1, <3>2
    <2> QED BY <2>1 DEF Part
<1>2. UNION {Under(k, Part(f, T, o, k).out) : k \in DOMAIN heap[o]} =
      UNION {Under(k, Part(g, T, o, k).out) : k \in DOMAIN heap[o]}
    BY <1>1
<1>3. {k \in DOMAIN heap[o] : Part(f, T, o, k).threw} =
      {k \in DOMAIN heap[o] : Part(g, T, o, k).threw}
    BY <1>1
<1> QED BY <1>2, <1>3 DEF Closed

\* What becomes of an object is a walk, if the others' are.
LEMMA ClosedIsWalk ==
    ASSUME Linked, NEW f, NEW T \in SUBSET Objects, Restores(f, T),
           NEW o \in Objects
    PROVE  /\ Closed(f, T, o) \in Walks
           /\ Closed(f, T, o).seen = T
<1>1. ASSUME NEW k \in DOMAIN heap[o]
      PROVE  Under(k, Part(f, T, o, k).out) \in SUBSET Places
    <2>1. k \in Keys
        BY KeysAre DEF Linked
    <2> QED BY <2>1, PartRestores, PlacesAre
<1>2. (UNION {Under(k, Part(f, T, o, k).out) : k \in DOMAIN heap[o]})
         \in SUBSET Places
    BY <1>1
<1>3. ({k \in DOMAIN heap[o] : Part(f, T, o, k).threw} # {}) \in BOOLEAN
    OBVIOUS
<1> QED BY <1>2, <1>3 DEF Closed, Walks

\* Every object, for every set of ancestors, has a walk, and one set of
\* ancestors for all of them comes to the same.
LEMMA WalkExists ==
    ASSUME Linked
    PROVE  \E f : /\ f \in [SUBSET Objects -> [Objects -> Walks]]
                  /\ \A T \in SUBSET Objects : \A o \in Objects :
                        f[T][o] = Closed(f, T, o)
<1> DEFINE V == [Objects -> Walks]
           none == [out |-> {}, seen |-> {}, threw |-> FALSE]
           base == [o \in Objects |-> none]
           After(T, N) == [U \in SUBSET Objects |->
                             [v \in Objects |->
                                [out |-> N[v][v].out, seen |-> U,
                                 threw |-> N[v][v].threw]]]
           step == [p \in (SUBSET Objects) \X [Objects -> V] |->
                      [o \in Objects |-> Closed(After(p[1], p[2]), p[1], o)]]
<1>1. base \in V
    BY DEF Walks
<1>2. ASSUME NEW T \in SUBSET Objects, NEW N \in [Objects -> V]
      PROVE  Restores(After(T, N), T)
    <2>1. ASSUME NEW v \in Objects \ T
          PROVE  After(T, N)[T \cup {v}][v] =
                    [out |-> N[v][v].out, seen |-> T \cup {v},
                     threw |-> N[v][v].threw]
        OBVIOUS
    <2>2. \A v \in Objects : N[v][v] \in Walks
        OBVIOUS
    <2> HIDE DEF After
    <2>3. ASSUME NEW v \in Objects \ T
          PROVE  LET r == After(T, N)[T \cup {v}][v]
                 IN  /\ r.seen = T \cup {v}
                     /\ r.threw \in BOOLEAN
                     /\ r.out \in SUBSET Places
        <3> DEFINE w == N[v][v]
                   r == After(T, N)[T \cup {v}][v]
        <3>1. r = [out |-> w.out, seen |-> T \cup {v}, threw |-> w.threw]
            BY <2>1
        <3>2. w.out \in SUBSET Places /\ w.threw \in BOOLEAN
            <4>1. w \in Walks
                BY <2>2
            <4> HIDE DEF w
            <4> QED BY <4>1 DEF Walks
        <3>3. r.seen = T \cup {v} /\ r.out = w.out /\ r.threw = w.threw
            <4> HIDE DEF w, r
            <4> QED BY <3>1
        <3> HIDE DEF w, r
        <3>4. r.threw \in BOOLEAN
            BY <3>2, <3>3
        <3> QED BY <3>2, <3>3, <3>4 DEF r
    <2> QED BY <2>3 DEF Restores
<1>3. ASSUME NEW T \in SUBSET Objects, NEW N \in [Objects -> V]
      PROVE  /\ step[<<T, N>>] = [o \in Objects |-> Closed(After(T, N), T, o)]
             /\ step[<<T, N>>] \in V
    <2>1. step[<<T, N>>] = [o \in Objects |-> Closed(After(T, N), T, o)]
        <3> HIDE DEF After, V
        <3> QED OBVIOUS
    <2>2. \A o \in Objects : Closed(After(T, N), T, o) \in Walks
        <3> HIDE DEF After
        <3> QED BY <1>2, ClosedIsWalk
    <2> HIDE DEF After, step
    <2> QED BY <2>1, <2>2
<1>4. step \in [(SUBSET Objects) \X [Objects -> V] -> V]
    <2>1. ASSUME NEW p \in (SUBSET Objects) \X [Objects -> V] PROVE step[p] \in V
        <3>1. PICK T \in SUBSET Objects, N \in [Objects -> V] : p = <<T, N>>
            OBVIOUS
        <3> HIDE DEF step, V
        <3> QED BY <1>3, <3>1
    <2>2. step = [p \in (SUBSET Objects) \X [Objects -> V] |-> step[p]]
        OBVIOUS
    <2> HIDE DEF step, V
    <2> QED BY <2>1, <2>2
<1> HIDE DEF step
<1>5. PICK f : IsGrowing(f, Objects, V, base, step)
    <2> HIDE DEF V, base
    <2> QED BY <1>1, <1>4, GrowingExists, GraphAssumption
<1>6. f \in [SUBSET Objects -> V]
    BY <1>5 DEF IsGrowing
<1>7. ASSUME NEW T \in SUBSET Objects, NEW o \in Objects,
             \A U \in SUBSET Objects : \A v \in Objects : f[U][v].seen = U
      PROVE  f[T][o] = Closed(f, T, o)
    <2> DEFINE N == Extensions(f, Objects, T, base)
    <2>1. N \in [Objects -> V]
        <3>1. \A v \in Objects : T \cup {v} \in SUBSET Objects
            OBVIOUS
        <3> HIDE DEF V, base
        <3> QED BY <1>1, <1>6, <3>1 DEF Extensions
    <2>2. f[T] = step[<<T, N>>]
        BY <1>5 DEF IsGrowing
    <2>3. f[T][o] = Closed(After(T, N), T, o)
        <3> HIDE DEF N, V
        <3>1. f[T] = [x \in Objects |-> Closed(After(T, N), T, x)]
            BY <1>3, <2>1, <2>2
        <3> HIDE DEF After
        <3> QED BY <3>1
    <2>4. ASSUME NEW v \in Objects \ T
          PROVE  After(T, N)[T \cup {v}][v] = f[T \cup {v}][v]
        <3> DEFINE w == f[T \cup {v}][v]
        <3>1. T \cup {v} \in SUBSET Objects
            OBVIOUS
        <3>2. w \in Walks /\ w.seen = T \cup {v}
            BY <1>6, <1>7, <3>1
        <3>3. w = [out |-> w.out, seen |-> w.seen, threw |-> w.threw]
            <4> HIDE DEF w
            <4> QED BY <3>2 DEF Walks
        <3>4. N[v][v] = w
            BY DEF Extensions
        <3>5. After(T, N)[T \cup {v}][v] =
                 [out |-> N[v][v].out, seen |-> T \cup {v}, threw |-> N[v][v].threw]
            <4> HIDE DEF N
            <4> QED BY <3>1
        <3> HIDE DEF w, N, After
        <3>6. [out |-> N[v][v].out, seen |-> T \cup {v}, threw |-> N[v][v].threw]
                 = [out |-> w.out, seen |-> w.seen, threw |-> w.threw]
            BY <3>2, <3>4
        <3>7. After(T, N)[T \cup {v}][v] = w
            BY <3>3, <3>5, <3>6
        <3> QED BY <3>7 DEF w
    <2> HIDE DEF After, N
    <2> QED BY <2>3, <2>4, ClosedOfLarger
<1>8. ASSUME NEW T \in SUBSET Objects, NEW o \in Objects
      PROVE  f[T][o].seen = T
    <2> DEFINE N == Extensions(f, Objects, T, base)
    <2>1. N \in [Objects -> V]
        <3>1. \A v \in Objects : T \cup {v} \in SUBSET Objects
            OBVIOUS
        <3> HIDE DEF V, base
        <3> QED BY <1>1, <1>6, <3>1 DEF Extensions
    <2>2. f[T] = step[<<T, N>>]
        BY <1>5 DEF IsGrowing
    <2> HIDE DEF N, V
    <2>3. f[T] = [x \in Objects |-> Closed(After(T, N), T, x)]
        BY <1>3, <2>1, <2>2
    <2> HIDE DEF After
    <2>4. f[T][o] = Closed(After(T, N), T, o)
        BY <2>3
    <2> QED BY <2>4 DEF Closed
<1> QED BY <1>6, <1>7, <1>8

LEMMA WalksRestore ==
    ASSUME NEW f \in [SUBSET Objects -> [Objects -> Walks]],
           NEW T \in SUBSET Objects,
           \A v \in Objects \ T : f[T \cup {v}][v].seen = T \cup {v}
    PROVE  Restores(f, T)
<1>1. ASSUME NEW v \in Objects \ T PROVE f[T \cup {v}][v] \in Walks
    <2>1. T \cup {v} \in SUBSET Objects
        OBVIOUS
    <2> QED BY <2>1
<1> QED BY <1>1 DEF Restores, Walks

\* What the code computes is a solution of its own equation.
LEMMA ScrubEntriesIs ==
    ASSUME Linked
    PROVE  ScrubEntries = [seen \in SUBSET Objects |->
                             [o \in Objects |-> Folded(ScrubEntries, seen, o)]]
<1>1. ScrubEntries = CHOOSE f : f = [seen \in SUBSET Objects |->
                                       [o \in Objects |-> Folded(f, seen, o)]]
    BY Zenon DEF ScrubEntries, Folded, FoldSet, MapThenFoldSet
<1>2. PICK f : /\ f \in [SUBSET Objects -> [Objects -> Walks]]
               /\ \A T \in SUBSET Objects : \A o \in Objects :
                     f[T][o] = Closed(f, T, o)
    BY WalkExists
<1>3. ASSUME NEW T \in SUBSET Objects PROVE Restores(f, T)
    <2>1. ASSUME NEW v \in Objects \ T PROVE f[T \cup {v}][v].seen = T \cup {v}
        <3>1. f[T \cup {v}][v] = Closed(f, T \cup {v}, v)
            BY <1>2
        <3> QED BY <3>1 DEF Closed
    <2> QED BY <1>2, <2>1, WalksRestore
<1>4. f = [seen \in SUBSET Objects |-> [o \in Objects |-> Folded(f, seen, o)]]
    <2>1. ASSUME NEW T \in SUBSET Objects
          PROVE  f[T] = [o \in Objects |-> Folded(f, T, o)]
        <3>1. ASSUME NEW o \in Objects PROVE f[T][o] = Folded(f, T, o)
            <4>1. Restores(f, T)
                BY <1>3
            <4>2. Folded(f, T, o) = Closed(f, T, o)
                BY <4>1, FoldIsClosed
            <4> QED BY <1>2, <4>2
        <3>2. f[T] \in [Objects -> Walks]
            BY <1>2
        <3> HIDE <1>2
        <3> QED BY <3>1, <3>2
    <2> QED BY <1>2, <2>1
<1> QED BY <1>1, <1>4, Zenon

\* The walk, whatever its ancestors are, leaves them as it found them, and its
\* keys and branches may be taken each for itself.
LEMMA ScrubEntriesClosed ==
    ASSUME Linked, NEW T \in SUBSET Objects, NEW o \in Objects
    PROVE  /\ ScrubEntries[T][o] = Closed(ScrubEntries, T, o)
           /\ ScrubEntries[T][o] \in Walks
           /\ ScrubEntries[T][o].seen = T
           /\ Restores(ScrubEntries, T)
<1> DEFINE f == ScrubEntries
           F == {U \in SUBSET Objects : \A p \in Objects :
                    /\ f[U][p] = Closed(f, U, p)
                    /\ f[U][p] \in Walks
                    /\ f[U][p].seen = U}
<1>1. \A U \in SUBSET Objects : \A p \in Objects : f[U][p] = Folded(f, U, p)
    <2>1. f = [seen \in SUBSET Objects |-> [p \in Objects |-> Folded(f, seen, p)]]
        BY ScrubEntriesIs
    <2> HIDE DEF f
    <2> QED BY <2>1
<1> HIDE DEF f
<1>2. ASSUME NEW U \in SUBSET Objects, \A v \in Objects \ U : U \cup {v} \in F
      PROVE  Restores(f, U)
    <2> SUFFICES ASSUME NEW v \in Objects \ U
                 PROVE  /\ f[U \cup {v}][v].seen = U \cup {v}
                        /\ f[U \cup {v}][v].threw \in BOOLEAN
                        /\ f[U \cup {v}][v].out \in SUBSET Places
        BY DEF Restores
    <2>1. f[U \cup {v}][v] \in Walks /\ f[U \cup {v}][v].seen = U \cup {v}
        BY <1>2
    <2> QED BY <2>1 DEF Walks
<1>3. ASSUME NEW U \in SUBSET Objects, \A v \in Objects \ U : U \cup {v} \in F
      PROVE  U \in F
    <2>1. ASSUME NEW p \in Objects
          PROVE  /\ f[U][p] = Closed(f, U, p)
                 /\ f[U][p] \in Walks
                 /\ f[U][p].seen = U
        <3>1. Restores(f, U)
            BY <1>2, <1>3
        <3> HIDE DEF F
        <3>2. Folded(f, U, p) = Closed(f, U, p)
            BY <3>1, FoldIsClosed
        <3>3. f[U][p] = Closed(f, U, p)
            BY <1>1, <3>2
        <3> QED BY <3>1, <3>3, ClosedIsWalk
    <2> QED BY <2>1
<1> HIDE DEF F
<1>4. SUBSET Objects \subseteq F
    BY <1>3, ExtensionInduction, GraphAssumption
<1>5. T \in F
    BY <1>4
<1>6. Restores(f, T)
    BY <1>2, <1>4
<1> QED BY <1>5, <1>6 DEF F, f

-----------------------------------------------------------------------------
(* What is due *)

\* What is due at a key.
Shown(D, h, kd, T, o, k) ==
    LET v == h[o][k]
    IN  IF k = UdfKey /\ v # Null THEN Redacted
        ELSE IF v \notin Objects \/ kd[v] = "instance" THEN Same(v)
        ELSE IF v \in T THEN Circular
        ELSE Record \cup D[T \cup {v}][v]

\* D is what is due of each object, in the graph h of objects of kinds kd.
IsDue(D, h, kd) ==
    D = [T \in SUBSET Objects |->
           [o \in Objects |-> UNION {Under(k, Shown(D, h, kd, T, o, k))
                                        : k \in DOMAIN h[o]}]]

\* It is what the walk puts out.
LEMMA OutIsDue ==
    ASSUME Linked
    PROVE  IsDue([T \in SUBSET Objects |->
                    [o \in Objects |-> ScrubEntries[T][o].out]], heap, kind)
<1> DEFINE D == [T \in SUBSET Objects |->
                   [o \in Objects |-> ScrubEntries[T][o].out]]
<1>1. ASSUME NEW T \in SUBSET Objects, NEW o \in Objects
      PROVE  D[T][o] = UNION {Under(k, Shown(D, heap, kind, T, o, k))
                                 : k \in DOMAIN heap[o]}
    <2>1. ScrubEntries[T][o].out =
             UNION {Under(k, Part(ScrubEntries, T, o, k).out) : k \in DOMAIN heap[o]}
        <3>1. ScrubEntries[T][o] = Closed(ScrubEntries, T, o)
            BY ScrubEntriesClosed
        <3> QED BY <3>1 DEF Closed
    <2>2. ASSUME NEW k \in DOMAIN heap[o]
          PROVE  Part(ScrubEntries, T, o, k).out = Shown(D, heap, kind, T, o, k)
        <3> DEFINE v == heap[o][k]
        <3>1. CASE IsUdf(k, v)
            BY <3>1 DEF Part, Shown, IsUdf
        <3>2. CASE ~IsUdf(k, v) /\ ~Walkable(v)
            <4>1. Part(ScrubEntries, T, o, k).out = Same(v)
                BY <3>2 DEF Part, Scrub
            <4> QED BY <3>2, <4>1 DEF Shown, IsUdf, Walkable
        <3>3. CASE ~IsUdf(k, v) /\ Walkable(v) /\ v \in T
            <4>1. Part(ScrubEntries, T, o, k).out = Circular
                BY <3>3 DEF Part, Scrub
            <4> QED BY <3>3, <4>1 DEF Shown, IsUdf, Walkable
        <3>4. CASE ~IsUdf(k, v) /\ Walkable(v) /\ v \notin T
            <4>1. v \in Objects /\ T \cup {v} \in SUBSET Objects
                BY <3>4 DEF Walkable
            <4>2. Part(ScrubEntries, T, o, k).out =
                     Record \cup ScrubEntries[T \cup {v}][v].out
                BY <3>4 DEF Part, Scrub, Enter
            <4>3. D[T \cup {v}][v] = ScrubEntries[T \cup {v}][v].out
                BY <4>1
            <4> HIDE DEF D
            <4>4. Shown(D, heap, kind, T, o, k) = Record \cup D[T \cup {v}][v]
                BY <3>4 DEF Shown, IsUdf, Walkable
            <4> QED BY <4>2, <4>3, <4>4
        <3> QED BY <3>1, <3>2, <3>3, <3>4
    <2>3. D[T][o] = ScrubEntries[T][o].out
        OBVIOUS
    <2> HIDE DEF D
    <2> QED BY <2>1, <2>2, <2>3
<1>2. D = [T \in SUBSET Objects |-> [o \in Objects |-> D[T][o]]]
    OBVIOUS
<1> HIDE DEF D
<1>3. IsDue(D, heap, kind)
    BY <1>1, <1>2 DEF IsDue
<1> QED BY <1>3 DEF D

LEMMA DueIs == Linked => IsDue(Due, heap, kind)
<1> SUFFICES ASSUME Linked PROVE IsDue(Due, heap, kind)
    OBVIOUS
<1>1. Due = CHOOSE D : IsDue(D, heap, kind)
    BY Zenon DEF Due, IsDue, Shown
<1> QED BY <1>1, OutIsDue, Zenon

\* And nothing else is.
LEMMA DueIsUnique ==
    ASSUME NEW h, NEW kd, NEW D, IsDue(D, h, kd), NEW E, IsDue(E, h, kd)
    PROVE  D = E
<1> DEFINE Of(G, T, o) == UNION {Under(k, Shown(G, h, kd, T, o, k)) : k \in DOMAIN h[o]}
<1>1. /\ \A T \in SUBSET Objects : \A o \in Objects : /\ D[T][o] = Of(D, T, o)
                                                     /\ E[T][o] = Of(E, T, o)
      /\ D = [T \in SUBSET Objects |-> [o \in Objects |-> D[T][o]]]
      /\ E = [T \in SUBSET Objects |-> [o \in Objects |-> E[T][o]]]
    <2>1. /\ D = [T \in SUBSET Objects |-> [o \in Objects |-> Of(D, T, o)]]
          /\ E = [T \in SUBSET Objects |-> [o \in Objects |-> Of(E, T, o)]]
        BY DEF IsDue
    <2> HIDE DEF Of
    <2>2. \A T \in SUBSET Objects : \A o \in Objects : /\ D[T][o] = Of(D, T, o)
                                                      /\ E[T][o] = Of(E, T, o)
        BY <2>1
    <2> QED BY <2>1, <2>2
<1> DEFINE F == {T \in SUBSET Objects : \A o \in Objects : D[T][o] = E[T][o]}
<1>2. ASSUME NEW T \in SUBSET Objects, \A v \in Objects \ T : T \cup {v} \in F
      PROVE  T \in F
    <2>1. ASSUME NEW o \in Objects PROVE D[T][o] = E[T][o]
        <3>1. ASSUME NEW k PROVE Shown(D, h, kd, T, o, k) = Shown(E, h, kd, T, o, k)
            <4> DEFINE v == h[o][k]
            <4>1. CASE v \in Objects /\ v \notin T
                <5>1. D[T \cup {v}][v] = E[T \cup {v}][v]
                    BY <1>2, <4>1
                <5> QED BY <5>1 DEF Shown
            <4>2. CASE v \notin Objects \/ v \in T
                BY <4>2 DEF Shown
            <4> QED BY <4>1, <4>2
        <3>2. Of(D, T, o) = Of(E, T, o)
            BY <3>1
        <3> HIDE DEF Of, F
        <3> QED BY <1>1, <3>2
    <2> QED BY <2>1
<1> HIDE DEF F, Of
<1>3. SUBSET Objects \subseteq F
    BY <1>2, ExtensionInduction, GraphAssumption
<1>4. \A T \in SUBSET Objects : \A o \in Objects : D[T][o] = E[T][o]
    BY <1>3 DEF F
<1>5. [T \in SUBSET Objects |-> [o \in Objects |-> D[T][o]]]
         = [T \in SUBSET Objects |-> [o \in Objects |-> E[T][o]]]
    BY <1>4
<1> QED BY <1>1, <1>5

\* No udf value is due, at a place whose path has the key: what is due there
\* is a placeholder or the null, and nothing below it.
Masked(p) ==
    UdfKey \in {p.path[n] : n \in DOMAIN p.path} =>
        /\ p.what = "redacted" \/ (p.what = "same" /\ p.of = Null)
        /\ p.path[Len(p.path)] = UdfKey

\* Nor is an object, other than an instance, due as it is.
Untouched(p) ==
    p.what = "same" => \/ p.of \in Scalars
                       \/ p.of \in Objects /\ kind[p.of] = "instance"

LEMMA UnderMasked ==
    ASSUME NEW k \in Keys, NEW p \in Places,
           \/ k # UdfKey /\ (p.path = << >> \/ Masked(p))
           \/ /\ p.path = << >>
              /\ p.what = "redacted" \/ (p.what = "same" /\ p.of = Null)
    PROVE  Masked([path |-> <<k>> \o p.path, what |-> p.what, of |-> p.of])
<1> DEFINE q == [path |-> <<k>> \o p.path, what |-> p.what, of |-> p.of]
<1>1. p.path \in Seq(Keys)
    BY DEF Places
<1>2. /\ q.path = <<k>> \o p.path /\ q.what = p.what /\ q.of = p.of
    OBVIOUS
<1>3. /\ Len(q.path) = Len(p.path) + 1 /\ DOMAIN q.path = 1 .. Len(p.path) + 1
      /\ q.path[1] = k
      /\ \A n \in 1 .. Len(p.path) : q.path[n + 1] = p.path[n]
    BY <1>1, <1>2
<1>4. Len(p.path) \in Nat /\ DOMAIN p.path = 1 .. Len(p.path)
    BY <1>1
<1> HIDE DEF q
<1> SUFFICES ASSUME NEW n \in DOMAIN q.path, q.path[n] = UdfKey
             PROVE  /\ q.what = "redacted" \/ (q.what = "same" /\ q.of = Null)
                    /\ q.path[Len(q.path)] = UdfKey
    BY DEF Masked, q
<1>5. CASE p.path = << >>
    <2>1. Len(p.path) = 0 /\ n = 1 /\ Len(q.path) = 1
        BY <1>3, <1>5
    <2> QED BY <1>2, <1>3, <2>1
<1>6. CASE p.path # << >>
    <2>1. k # UdfKey /\ Masked(p)
        BY <1>6
    <2>2. n # 1 /\ n - 1 \in DOMAIN p.path /\ q.path[n] = p.path[n - 1]
        <3>1. n \in 1 .. Len(p.path) + 1 /\ n # 1
            BY <1>3, <2>1
        <3>2. n - 1 \in 1 .. Len(p.path) /\ (n - 1) + 1 = n
            BY <1>4, <3>1
        <3> QED BY <1>3, <1>4, <3>1, <3>2
    <2>3. /\ p.what = "redacted" \/ (p.what = "same" /\ p.of = Null)
          /\ p.path[Len(p.path)] = UdfKey
        BY <2>1, <2>2 DEF Masked
    <2>4. Len(p.path) \in 1 .. Len(p.path)
        BY <1>4, <2>2
    <2>5. q.path[Len(q.path)] = p.path[Len(p.path)]
        BY <1>3, <2>4
    <2> QED BY <1>2, <2>3, <2>5
<1> QED BY <1>5, <1>6

LEMMA DueIsSafe ==
    ASSUME Linked, NEW T \in SUBSET Objects, NEW o \in Objects
    PROVE  /\ Due[T][o] \in SUBSET Places
           /\ \A p \in Due[T][o] : Masked(p) /\ Untouched(p)
<1> DEFINE D == Due
           Safe(p) == p \in Places /\ Masked(p) /\ Untouched(p)
           F == {U \in SUBSET Objects : \A x \in Objects : \A p \in D[U][x] : Safe(p)}
<1>1. ASSUME NEW U \in SUBSET Objects, NEW x \in Objects
      PROVE  D[U][x] = UNION {Under(k, Shown(D, heap, kind, U, x, k))
                                 : k \in DOMAIN heap[x]}
    <2>1. D = [V \in SUBSET Objects |->
                 [y \in Objects |-> UNION {Under(k, Shown(D, heap, kind, V, y, k))
                                              : k \in DOMAIN heap[y]}]]
        BY DueIs DEF IsDue
    <2> DEFINE Of(V, y) == UNION {Under(k, Shown(D, heap, kind, V, y, k))
                                     : k \in DOMAIN heap[y]}
    <2>2. D = [V \in SUBSET Objects |-> [y \in Objects |-> Of(V, y)]]
        BY <2>1
    <2> HIDE DEF Of, D
    <2>3. D[U][x] = Of(U, x)
        BY <2>2
    <2> QED BY <2>3 DEF Of
<1> HIDE DEF D
<1>2. ASSUME NEW U \in SUBSET Objects, \A v \in Objects \ U : U \cup {v} \in F
      PROVE  U \in F
    <2> SUFFICES ASSUME NEW x \in Objects, NEW k \in DOMAIN heap[x],
                        NEW p \in Shown(D, heap, kind, U, x, k)
                 PROVE  Safe([path |-> <<k>> \o p.path, what |-> p.what, of |-> p.of])
        <3>1. ASSUME NEW x \in Objects, NEW q \in D[U][x] PROVE Safe(q)
            <4>1. PICK k \in DOMAIN heap[x] :
                          q \in Under(k, Shown(D, heap, kind, U, x, k))
                BY <1>1
            <4>2. PICK p \in Shown(D, heap, kind, U, x, k) :
                          q = [path |-> <<k>> \o p.path, what |-> p.what, of |-> p.of]
                BY <4>1 DEF Under
            <4> HIDE DEF Safe
            <4> QED BY <4>2
        <3> QED BY <3>1
    <2> DEFINE v == heap[x][k]
               q == [path |-> <<k>> \o p.path, what |-> p.what, of |-> p.of]
               Due0 == \/ k # UdfKey /\ (p.path = << >> \/ Masked(p))
                       \/ /\ p.path = << >>
                          /\ p.what = "redacted" \/ (p.what = "same" /\ p.of = Null)
    <2>1. v \in Values /\ k \in Keys
        BY KeysAre DEF Linked
    <2>2. p \in Places /\ Untouched(p) /\ Due0
        <3>1. CASE k = UdfKey /\ v # Null
            <4>1. p \in Redacted
                BY <3>1 DEF Shown
            <4>2. p \in Places
                BY <4>1, PlacesAre
            <4>3. p.path = << >> /\ p.what = "redacted"
                BY <4>1 DEF Redacted, Here
            <4> QED BY <4>2, <4>3 DEF Untouched
        <3>2. CASE ~(k = UdfKey /\ v # Null) /\ (v \notin Objects \/ kind[v] = "instance")
            <4>1. p \in Same(v)
                BY <3>2 DEF Shown
            <4>2. p \in Places
                BY <2>1, <4>1, PlacesAre
            <4>3. p.path = << >> /\ p.what = "same" /\ p.of = v
                BY <4>1 DEF Same, Here
            <4>4. Untouched(p)
                BY <2>1, <3>2, <4>3 DEF Untouched, Values
            <4> QED BY <3>2, <4>2, <4>3, <4>4
        <3>3. CASE ~(k = UdfKey /\ v # Null) /\ v \in Objects
                     /\ kind[v] # "instance" /\ v \in U
            <4>1. p \in Circular
                BY <3>3 DEF Shown
            <4>2. p \in Places
                BY <4>1, PlacesAre
            <4>3. p.path = << >> /\ p.what = "circular"
                BY <4>1 DEF Circular, Here
            <4>4. k # UdfKey
                BY <3>3, GraphAssumption DEF Scalars
            <4> QED BY <4>2, <4>3, <4>4 DEF Untouched
        <3>4. CASE ~(k = UdfKey /\ v # Null) /\ v \in Objects
                     /\ kind[v] # "instance" /\ v \notin U
            <4>1. p \in Record \/ p \in D[U \cup {v}][v]
                BY <3>4 DEF Shown
            <4>2. k # UdfKey
                BY <3>4, GraphAssumption DEF Scalars
            <4>3. CASE p \in Record
                <5>1. p \in Places
                    BY <4>3, PlacesAre
                <5>2. p.path = << >> /\ p.what = "record"
                    BY <4>3 DEF Record, Here
                <5> QED BY <4>2, <5>1, <5>2 DEF Untouched
            <4>4. CASE p \in D[U \cup {v}][v]
                <5>1. U \cup {v} \in F
                    BY <1>2, <3>4
                <5>2. Safe(p)
                    BY <3>4, <4>4, <5>1
                <5> QED BY <4>2, <5>2
            <4> QED BY <4>1, <4>3, <4>4
        <3> QED BY <3>1, <3>2, <3>3, <3>4
    <2>3. Masked(q)
        BY <2>1, <2>2, UnderMasked
    <2>4. Untouched(q)
        BY <2>2 DEF Untouched
    <2>5. q \in Places
        <3>1. {p} \in SUBSET Places
            BY <2>2
        <3>2. q \in Under(k, {p})
            BY DEF Under
        <3> QED BY <2>1, <3>1, <3>2, PlacesAre
    <2> QED BY <2>3, <2>4, <2>5
<1> HIDE DEF F
<1>3. SUBSET Objects \subseteq F
    BY <1>2, ExtensionInduction, GraphAssumption
<1>4. \A p \in D[T][o] : Safe(p)
    BY <1>3 DEF F
<1> QED BY <1>4 DEF D

-----------------------------------------------------------------------------
(* A log call *)

\* What was logged last is what is due of the objects as they are.
LoggedDue ==
    /\ logged \in [done : BOOLEAN, threw : BOOLEAN, out : SUBSET Places]
    /\ logged.done => logged.out = Due[{}][Meta]

IInv == Linked /\ LoggedDue

LEMMA InitLinked == Init => IInv
<1> SUFFICES ASSUME Init PROVE IInv
    OBVIOUS
<1>1. \A o \in Objects : heap[o] = << >>
    BY DEF Init
<1>2. DOMAIN << >> = {} /\ IsFiniteSet({})
    BY FS_EmptySet
<1>3. Linked
    BY <1>1, <1>2, GraphAssumption DEF Init, Linked
<1>4. LoggedDue
    BY DEF Init, NotLogged, LoggedDue
<1> QED BY <1>3, <1>4 DEF IInv

LEMMA LinkLinks ==
    ASSUME IInv, NEW o \in Objects, NEW v \in Values, NEW k \in KeysOf(o),
           Link(o, k, v)
    PROVE  IInv'
<1> DEFINE more == [j \in DOMAIN heap[o] \cup {k} |-> IF j = k THEN v ELSE heap[o][j]]
<1>1. heap' = [heap EXCEPT ![o] = more] /\ kind' = kind /\ logged' = NotLogged
    BY DEF Link
<1>2. /\ DOMAIN more = DOMAIN heap[o] \cup {k}
      /\ \A j \in DOMAIN more : more[j] = IF j = k THEN v ELSE heap[o][j]
    OBVIOUS
<1> HIDE DEF more
<1>3. heap = [p \in Objects |-> heap[p]]
    BY DEF IInv, Linked
<1>4. /\ heap'[o] = more
      /\ \A p \in Objects \ {o} : heap'[p] = heap[p]
      /\ heap' = [p \in Objects |-> heap'[p]]
    BY <1>1, <1>3
<1>5. /\ DOMAIN more \subseteq KeysOf(o)
      /\ IsFiniteSet(DOMAIN more)
      /\ \A j \in DOMAIN more : more[j] \in Values
    BY <1>2, FS_AddElement DEF IInv, Linked
<1>6. \A p : KeysOf(p)' = KeysOf(p)
    BY <1>1 DEF KeysOf
<1>7. ASSUME NEW p \in Objects
      PROVE  /\ DOMAIN heap'[p] \subseteq KeysOf(p)'
             /\ IsFiniteSet(DOMAIN heap'[p])
             /\ \A j \in DOMAIN heap'[p] : heap'[p][j] \in Values
    BY <1>4, <1>5, <1>6 DEF IInv, Linked
<1>8. Linked'
    BY <1>1, <1>4, <1>7 DEF IInv, Linked
<1>9. LoggedDue'
    BY <1>1 DEF LoggedDue, NotLogged
<1> QED BY <1>8, <1>9 DEF IInv

LEMMA LogLogs ==
    ASSUME IInv, Log
    PROVE  IInv'
<1>1. Linked' /\ kind' = kind /\ heap' = heap
    BY DEF IInv, Linked, Log, KeysOf
<1>2. Due' = Due
    <2>1. IsDue(Due, heap, kind)
        BY DueIs DEF IInv
    <2>2. Linked' => IsDue(Due, heap, kind)'
        BY DueIs, PTL
    <2>3. IsDue(Due', heap', kind')
        BY <1>1, <2>2
    <2> QED BY <1>1, <2>1, <2>3, DueIsUnique
<1>3. {} \in SUBSET Objects /\ Meta \in Objects
    BY GraphAssumption
<1>4. Due[{}][Meta] = ScrubEntries[{}][Meta].out
    <2> DEFINE D == [T \in SUBSET Objects |->
                       [o \in Objects |-> ScrubEntries[T][o].out]]
    <2>1. IsDue(D, heap, kind) /\ IsDue(Due, heap, kind)
        BY OutIsDue, DueIs DEF IInv
    <2>2. D[{}][Meta] = ScrubEntries[{}][Meta].out
        BY <1>3
    <2> HIDE DEF D
    <2>3. D = Due
        BY <2>1, DueIsUnique
    <2> QED BY <2>2, <2>3
<1>5. ScrubEntries[{}][Meta] \in Walks
    BY <1>3, ScrubEntriesClosed DEF IInv
<1>6. logged' = [done |-> TRUE, threw |-> ScrubEntries[{}][Meta].threw,
                 out |-> ScrubEntries[{}][Meta].out]
    BY DEF Log
<1>7. LoggedDue'
    BY <1>2, <1>4, <1>5, <1>6 DEF LoggedDue, Walks
<1> QED BY <1>1, <1>7 DEF IInv

LEMMA StutterLogs ==
    ASSUME IInv, UNCHANGED vars
    PROVE  IInv'
<1>1. Linked' /\ kind' = kind /\ heap' = heap /\ logged' = logged
    BY DEF IInv, Linked, vars, KeysOf
<1>2. Due' = Due
    <2>1. IsDue(Due, heap, kind)
        BY DueIs DEF IInv
    <2>2. Linked' => IsDue(Due, heap, kind)'
        BY DueIs, PTL
    <2>3. IsDue(Due', heap', kind')
        BY <1>1, <2>2
    <2> QED BY <1>1, <2>1, <2>3, DueIsUnique
<1> QED BY <1>1, <1>2 DEF IInv, LoggedDue

THEOREM LoggedIsDue == Spec => []IInv
<1>1. ASSUME IInv, [Next]_vars PROVE IInv'
    <2>1. ASSUME NEW o \in Objects, NEW v \in Objects \cup Scalars,
                 NEW k \in KeysOf(o), Link(o, k, v)
          PROVE  IInv'
        BY <1>1, <2>1, LinkLinks DEF Values
    <2>2. CASE Log
        BY <1>1, <2>2, LogLogs
    <2>3. CASE UNCHANGED vars
        BY <1>1, <2>3, StutterLogs
    <2> QED BY <1>1, <2>1, <2>2, <2>3 DEF Next
<1> QED BY <1>1, InitLinked, PTL DEF Spec

\* The logger sees all of the data but what is redacted: each field exactly if
\* it is in the data, an object on every branch that leads to it.
THEOREM LoggedWhole == Spec => []KeepsTheRest
<1>1. IInv => KeepsTheRest
    BY DEF IInv, LoggedDue, KeepsTheRest, Output
<1> QED BY <1>1, LoggedIsDue, PTL

LEMMA OutputIsSafe ==
    IInv => \A p \in Output : Masked(p) /\ Untouched(p)
<1> SUFFICES ASSUME IInv, NEW p \in Output PROVE Masked(p) /\ Untouched(p)
    OBVIOUS
<1>1. p \in Due[{}][Meta]
    BY DEF IInv, LoggedDue, Output
<1>2. {} \in SUBSET Objects /\ Meta \in Objects
    BY GraphAssumption
<1> QED BY <1>1, <1>2, DueIsSafe DEF IInv

\* Every variable has its type, and no object but an instance is handed on.
THEOREM LogTyped == Spec => []TypeOK
<1>1. IInv => TypeOK
    BY OutputIsSafe DEF IInv, Linked, TypeOK, Untouched, Values
<1> QED BY <1>1, LoggedIsDue, PTL

\* No value under a udf key of plain structure reaches the logger, in any graph
\* and at any depth, and nothing that leads to one is handed on but instances.
THEOREM UdfRedacted == Spec => []RedactsUdf
<1>1. ASSUME IInv, NEW p \in Output, Reveals(p) PROVE kind[p.of] = "instance"
    <2>1. p.of \notin Objects => Within(p.of) = {}
        BY Zenon DEF Within
    <2>2. p.what = "same" /\ \E q \in Within(p.of) : HoldsUdf(q)
        BY <1>1, Zenon DEF Reveals
    <2>3. p.of \in Objects
        BY <2>1, <2>2
    <2>4. Untouched(p)
        BY <1>1, OutputIsSafe
    <2> QED BY <2>2, <2>3, <2>4, GraphAssumption DEF Untouched
<1>2. IInv => RedactsUdf
    BY <1>1, OutputIsSafe DEF RedactsUdf, Masked
<1> QED BY <1>2, LoggedIsDue, PTL
=============================================================================
