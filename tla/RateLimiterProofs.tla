-------------------------- MODULE RateLimiterProofs --------------------------
(***************************************************************************)
(* Proofs about RateLimiter, for every set of callers, every limit table   *)
(* and every window length.                                                *)
(*                                                                         *)
(* WithinBudget is not inductive: it does not say that what a window still *)
(* holds is what the history needs.  Ledger says so for one window, and    *)
(* the proof is a chain of facts about Ledger alone (pruning keeps it,     *)
(* recording keeps it when there is room, time keeps it) that the actions  *)
(* then apply to each window they touch.                                   *)
(***************************************************************************)
EXTENDS RateLimiter, FiniteSetTheorems, WellFoundedInduction, TLAPS

\* A window holding s, of limit n, is faithful at time t to its history g: it
\* holds the end of the history; what it dropped has left the window; the
\* history is in order; any n + 1 entries in a row span a window's length.
Ledger(s, g, n, t) ==
    /\ Len(s) <= Len(g)
    /\ Len(s) <= n
    /\ \A i \in 1 .. Len(s) : s[i] = g[Len(g) - Len(s) + i]
    /\ \A i \in 1 .. Len(g) - Len(s) : g[i] + Window <= t
    /\ \A i, j \in 1 .. Len(g) : i <= j => g[i] <= g[j]
    /\ \A i \in 1 .. Len(g) : g[i] <= t
    /\ \A i \in 1 .. Len(g) : i + n <= Len(g) => g[i] + Window <= g[i + n]

Faithful == \A b \in Windows : Ledger(stamps[b], granted[b], LimitOf(b), now)

\* A key without a window has never been written to.
NotYetCreated ==
    \A b \in WriteKeys \ created : stamps[b] = <<>> /\ granted[b] = <<>>

\* A sleeping write has had its window created by the call that slept.
SleepersOpened ==
    \A c \in Callers : pc[c] = "sleeping" => Missing(descriptor[c]) = {}

IInv == TypeOK /\ Faithful /\ NotYetCreated /\ SleepersOpened

-----------------------------------------------------------------------------
(* The operators *)

\* Every non-empty set of naturals has a least element.
LEMMA LeastNatural ==
    ASSUME NEW S \in SUBSET Nat, S # {}
    PROVE  \E m \in S : \A k \in S : m <= k
<1>1. PICK m \in S : \A k \in S : <<k, m>> \notin OpToRel(<, Nat)
  BY NatLessThanWellFounded, WFMin
<1>2. ASSUME NEW k \in S PROVE m <= k
  <2>1. <<k, m>> \notin {p \in Nat \X Nat : p[1] < p[2]}
    BY <1>1 DEF OpToRel
  <2>2. ~ (k < m)
    BY <2>1
  <2>3. QED BY <2>2
<1>3. QED BY <1>2

\* Each window has a limit of at least one.
LEMMA LimitType == \A b \in Windows : LimitOf(b) \in Nat \ {0}
  BY ConstantsAssumption DEF LimitOf, Windows, WriteKeys, Unspecified

\* A request draws on windows that exist.
LEMMA WindowsOfType == \A d \in Descriptors : WindowsOf(d) \subseteq Windows
  BY DEF Descriptors, WindowsOf, Windows, WriteKeys, KeyOf

\* Pruning drops k entries from the head, all of them outside the window, and
\* keeps the rest in place.
LEMMA PruneDrops ==
    ASSUME NEW s \in Seq(Nat), NEW t \in Nat
    PROVE  \E k \in 0 .. Len(s) :
              /\ Prune(s, t) \in Seq(Nat)
              /\ Len(Prune(s, t)) = Len(s) - k
              /\ \A i \in 1 .. Len(s) - k : Prune(s, t)[i] = s[i + k]
              /\ \A i \in 1 .. k : s[i] + Window <= t
<1> DEFINE live == {i \in 1 .. Len(s) : s[i] > t - Window}
           first == SelectInSeq(s, LAMBDA ts : ts > t - Window)
<1>w. Window \in Nat BY ConstantsAssumption
<1>s. /\ Len(s) \in Nat
      /\ \A i \in 1 .. Len(s) : s[i] \in Nat
  OBVIOUS
<1>1. first = IF live # {} THEN CHOOSE i \in live : \A j \in live : i <= j ELSE 0
  BY DEF SelectInSeq, Min
<1>2. Prune(s, t) = IF first = 0 THEN <<>> ELSE SubSeq(s, first, Len(s))
  BY DEF Prune
<1> HIDE DEF first
<1>3. CASE live = {}
  <2>1. Prune(s, t) = <<>> BY <1>1, <1>2, <1>3
  <2>2. \A i \in 1 .. Len(s) : s[i] + Window <= t BY <1>3, <1>w, <1>s
  <2>3. QED BY <2>1, <2>2, <1>s
<1>4. CASE live # {}
  <2>1. \E m \in live : \A k \in live : m <= k
    <3>1. live \in SUBSET Nat BY <1>s
    <3> HIDE DEF live
    <3>2. QED BY <1>4, <3>1, LeastNatural
  <2>2. first \in live /\ \A j \in live : first <= j
    <3> HIDE DEF live
    <3>1. QED BY <1>1, <1>4, <2>1
  <2>3. /\ first \in 1 .. Len(s)
        /\ \A i \in 1 .. first - 1 : ~(s[i] > t - Window)
    BY <2>2, <1>s
  <2>4. Prune(s, t) = SubSeq(s, first, Len(s)) BY <1>2, <2>3
  <2>5. /\ Prune(s, t) \in Seq(Nat)
        /\ Len(Prune(s, t)) = Len(s) - (first - 1)
        /\ \A i \in 1 .. Len(s) - (first - 1) :
              Prune(s, t)[i] = s[i + (first - 1)]
    BY <2>3, <2>4, <1>s
  <2>6. \A i \in 1 .. first - 1 : s[i] + Window <= t
    BY <2>3, <1>s, <1>w
  <2>7. first - 1 \in 0 .. Len(s) BY <2>3, <1>s
  <2> HIDE DEF live
  <2>8. QED BY <2>5, <2>6, <2>7
<1>5. QED BY <1>3, <1>4

\* What is left after pruning begins inside the window.
LEMMA PruneHead ==
    ASSUME NEW s \in Seq(Nat), NEW t \in Nat, Len(Prune(s, t)) >= 1
    PROVE  Prune(s, t)[1] \in Nat /\ Prune(s, t)[1] > t - Window
<1> DEFINE live == {i \in 1 .. Len(s) : s[i] > t - Window}
           first == SelectInSeq(s, LAMBDA ts : ts > t - Window)
<1>1. first = IF live # {} THEN CHOOSE i \in live : \A j \in live : i <= j ELSE 0
  BY DEF SelectInSeq, Min
<1>2. Prune(s, t) = IF first = 0 THEN <<>> ELSE SubSeq(s, first, Len(s))
  BY DEF Prune
<1> HIDE DEF first
<1>3. first # 0 BY <1>2
<1>4. live # {} BY <1>1, <1>3
<1>5. live \in SUBSET Nat OBVIOUS
<1>6. first \in live
  <2> HIDE DEF live
  <2>1. \E m \in live : \A k \in live : m <= k BY <1>4, <1>5, LeastNatural
  <2>2. QED BY <1>1, <1>4, <2>1
<1>7. first \in 1 .. Len(s) /\ s[first] > t - Window BY <1>6
<1>8. SubSeq(s, first, Len(s))[1] = s[first] BY <1>7
<1>9. QED BY <1>2, <1>3, <1>7, <1>8

-----------------------------------------------------------------------------
(* One window and its history *)

\* Pruning loses nothing the history needs.
LEMMA LedgerPrune ==
    ASSUME NEW s \in Seq(Nat), NEW g \in Seq(Nat), NEW n \in Nat \ {0},
           NEW t \in Nat, Ledger(s, g, n, t)
    PROVE  Ledger(Prune(s, t), g, n, t) /\ Prune(s, t) \in Seq(Nat)
<1>w. Window \in Nat /\ n \in Nat /\ n >= 1 BY ConstantsAssumption
<1>s. /\ Len(s) \in Nat /\ Len(g) \in Nat
      /\ \A i \in 1 .. Len(s) : s[i] \in Nat
      /\ \A i \in 1 .. Len(g) : g[i] \in Nat
  OBVIOUS
<1> DEFINE p == Prune(s, t)
<1>1. PICK k \in 0 .. Len(s) :
         /\ p \in Seq(Nat)
         /\ Len(p) = Len(s) - k
         /\ \A i \in 1 .. Len(s) - k : p[i] = s[i + k]
         /\ \A i \in 1 .. k : s[i] + Window <= t
  BY PruneDrops
<1> HIDE DEF p
<1>2. Len(p) <= Len(g) /\ Len(p) <= n
  BY <1>1, <1>s DEF Ledger
<1>3. ASSUME NEW i \in 1 .. Len(p) PROVE p[i] = g[Len(g) - Len(p) + i]
  <2>1. i + k \in 1 .. Len(s) BY <1>1, <1>s
  <2>2. p[i] = s[i + k] BY <1>1, <1>s
  <2>3. s[i + k] = g[Len(g) - Len(s) + (i + k)] BY <2>1 DEF Ledger
  <2>4. Len(g) - Len(s) + (i + k) = Len(g) - Len(p) + i BY <1>1, <1>s
  <2>5. QED BY <2>2, <2>3, <2>4
<1>4. ASSUME NEW i \in 1 .. Len(g) - Len(p) PROVE g[i] + Window <= t
  <2>1. CASE i <= Len(g) - Len(s) BY <2>1, <1>s DEF Ledger
  <2>2. CASE i > Len(g) - Len(s)
    <3> DEFINE j == i - (Len(g) - Len(s))
    <3>1. j \in 1 .. k BY <2>2, <1>1, <1>s
    <3>2. s[j] = g[Len(g) - Len(s) + j] BY <3>1, <1>s DEF Ledger
    <3>3. Len(g) - Len(s) + j = i BY <1>s
    <3>4. QED BY <3>1, <3>2, <3>3, <1>1
  <2>3. QED BY <2>1, <2>2, <1>1, <1>s
<1>5. QED BY <1>1, <1>2, <1>3, <1>4 DEF Ledger, p

\* What is at most the next number is the next one or at most this one.
LEMMA AtMostNext ==
    ASSUME NEW j \in Int, NEW n \in Int, NEW l \in Int, j + n <= l + 1
    PROVE  j + n <= l \/ j + n = l + 1
  OBVIOUS

\* Recording a request keeps the window faithful when it had room.
LEMMA LedgerRecord ==
    ASSUME NEW s \in Seq(Nat), NEW g \in Seq(Nat), NEW n \in Nat \ {0},
           NEW t \in Nat, Ledger(s, g, n, t), Len(s) < n
    PROVE  Ledger(Append(s, t), Append(g, t), n, t)
<1>w. Window \in Nat /\ n \in Nat /\ n >= 1 BY ConstantsAssumption
<1>s. /\ Len(s) \in Nat /\ Len(g) \in Nat
      /\ \A i \in 1 .. Len(s) : s[i] \in Nat
      /\ \A i \in 1 .. Len(g) : g[i] \in Nat
  OBVIOUS
<1> DEFINE s2 == Append(s, t)
           g2 == Append(g, t)
<1>1. /\ Len(s2) = Len(s) + 1
      /\ \A i \in 1 .. Len(s) : s2[i] = s[i]
      /\ s2[Len(s) + 1] = t
  OBVIOUS
<1>2. /\ Len(g2) = Len(g) + 1
      /\ \A i \in 1 .. Len(g) : g2[i] = g[i]
      /\ g2[Len(g) + 1] = t
  OBVIOUS
<1> HIDE DEF s2, g2
<1>3. Len(s2) <= Len(g2) /\ Len(s2) <= n BY <1>1, <1>2, <1>s DEF Ledger
<1>4. ASSUME NEW i \in 1 .. Len(s2) PROVE s2[i] = g2[Len(g2) - Len(s2) + i]
  <2>0. Len(s) <= Len(g) BY DEF Ledger
  <2>1. CASE i = Len(s) + 1 BY <2>1, <1>1, <1>2, <1>s
  <2>2. CASE i \in 1 .. Len(s)
    <3>1. s[i] = g[Len(g) - Len(s) + i] BY <2>2 DEF Ledger
    <3>2. Len(g) - Len(s) + i \in 1 .. Len(g) BY <2>0, <2>2, <1>s
    <3>3. Len(g2) - Len(s2) + i = Len(g) - Len(s) + i BY <1>1, <1>2, <1>s
    <3>4. QED BY <3>1, <3>2, <3>3, <2>2, <1>1, <1>2
  <2>3. QED BY <2>1, <2>2, <1>1, <1>s
<1>5. ASSUME NEW i \in 1 .. Len(g2) - Len(s2) PROVE g2[i] + Window <= t
  <2>1. i \in 1 .. Len(g) - Len(s) /\ i \in 1 .. Len(g) BY <1>1, <1>2, <1>s
  <2>2. QED BY <2>1, <1>2 DEF Ledger
<1>6. ASSUME NEW i \in 1 .. Len(g2) PROVE g2[i] <= t
  <2>1. CASE i = Len(g) + 1 BY <2>1, <1>2
  <2>2. CASE i \in 1 .. Len(g) BY <2>2, <1>2 DEF Ledger
  <2>3. QED BY <2>1, <2>2, <1>2, <1>s
<1>7. ASSUME NEW i \in 1 .. Len(g2), NEW j \in 1 .. Len(g2), i <= j
      PROVE  g2[i] <= g2[j]
  <2>1. CASE j = Len(g) + 1 BY <2>1, <1>2, <1>6
  <2>2. CASE j \in 1 .. Len(g)
    <3>1. i \in 1 .. Len(g) BY <2>2, <1>7, <1>s
    <3>2. QED BY <3>1, <2>2, <1>2, <1>7 DEF Ledger
  <2>3. QED BY <2>1, <2>2, <1>2, <1>s
<1>8. ASSUME NEW i \in 1 .. Len(g2), i + n <= Len(g2)
      PROVE  g2[i] + Window <= g2[i + n]
  <2>1. i \in 1 .. Len(g) BY <1>8, <1>2, <1>s
  <2>2. CASE i + n <= Len(g)
    <3>1. i + n \in 1 .. Len(g) BY <2>1, <2>2, <1>s
    <3>2. QED BY <3>1, <2>1, <2>2, <1>2 DEF Ledger
  <2>3. CASE i + n = Len(g) + 1
    <3>1. i \in 1 .. Len(g) - Len(s) BY <2>1, <2>3, <1>s
    <3>2. g[i] + Window <= t BY <3>1 DEF Ledger
    <3>3. QED BY <3>2, <2>1, <2>3, <1>2
  <2>4. i + n <= Len(g) \/ i + n = Len(g) + 1
    <3>1. i \in Int /\ n \in Int /\ Len(g) \in Int BY <2>1, <1>s, <1>w
    <3>2. i + n <= Len(g) + 1 BY <1>8, <1>2
    <3>3. QED BY ONLY <3>1, <3>2, AtMostNext
  <2>5. QED BY <2>2, <2>3, <2>4
<1>9. QED BY <1>3, <1>4, <1>5, <1>6, <1>7, <1>8 DEF Ledger, s2, g2

\* The clock may advance: what has left the window stays out of it.
LEMMA LedgerTick ==
    ASSUME NEW s \in Seq(Nat), NEW g \in Seq(Nat), NEW n \in Nat \ {0},
           NEW t \in Nat, Ledger(s, g, n, t)
    PROVE  Ledger(s, g, n, t + 1)
<1>1. Window \in Nat BY ConstantsAssumption
<1>l. Len(s) \in Nat /\ Len(g) \in Nat /\ Len(s) <= Len(g) BY DEF Ledger
<1>g. \A i \in 1 .. Len(g) : g[i] \in Nat OBVIOUS
<1>h. /\ \A i \in 1 .. Len(g) - Len(s) : g[i] + Window <= t
      /\ \A i \in 1 .. Len(g) : g[i] <= t
  BY DEF Ledger
<1>2. ASSUME NEW i \in 1 .. Len(g) - Len(s) PROVE g[i] + Window <= t + 1
  <2>1. g[i] \in Nat BY ONLY <1>l, <1>g, i \in 1 .. Len(g) - Len(s)
  <2>2. g[i] + Window <= t BY ONLY <1>h, i \in 1 .. Len(g) - Len(s)
  <2>3. QED BY ONLY <2>1, <2>2, <1>1, t \in Nat
<1>3. ASSUME NEW i \in 1 .. Len(g) PROVE g[i] <= t + 1
  BY ONLY <1>g, <1>h, t \in Nat, i \in 1 .. Len(g)
<1>4. QED BY <1>2, <1>3 DEF Ledger

\* Two numbers a window's length apart are not within one stretch of it.
LEMMA OutOfReach ==
    ASSUME NEW p \in Nat, NEW m \in Nat, NEW q \in Nat, NEW u \in Nat, NEW w \in Nat,
           u <= p, p + w <= m, m <= q, q < u + w
    PROVE  FALSE
  OBVIOUS

\* A stretch as long as the window, wherever it begins, holds at most n.
LEMMA LedgerBudget ==
    ASSUME NEW s \in Seq(Nat), NEW g \in Seq(Nat), NEW n \in Nat \ {0},
           NEW t \in Nat, Ledger(s, g, n, t), NEW u \in Nat
    PROVE  Cardinality({i \in DOMAIN g : u <= g[i] /\ g[i] < u + Window}) <= n
<1>w. Window \in Nat /\ n \in Nat /\ n >= 1 BY ConstantsAssumption
<1>s. /\ Len(g) \in Nat /\ DOMAIN g = 1 .. Len(g)
      /\ \A i \in 1 .. Len(g) : g[i] \in Nat
  OBVIOUS
<1> DEFINE I == {i \in DOMAIN g : u <= g[i] /\ g[i] < u + Window}
<1>1. CASE I = {}
  <2> HIDE DEF I
  <2>1. Cardinality(I) = 0 BY <1>1, FS_EmptySet
  <2>2. QED BY <2>1 DEF I
<1>2. CASE I # {}
  <2>0. I \in SUBSET Nat BY <1>s
  <2>1. PICK a \in I : \A k \in I : a <= k
    <3> HIDE DEF I
    <3>1. QED BY <1>2, <2>0, LeastNatural
  <2>2. ASSUME NEW i \in I PROVE i \in a .. a + n - 1
    <3>1. a <= i /\ i \in 1 .. Len(g) /\ a \in 1 .. Len(g) BY <2>1, <1>s
    <3>l. /\ \A j, k \in 1 .. Len(g) : j <= k => g[j] <= g[k]
          /\ \A j \in 1 .. Len(g) : j + n <= Len(g) => g[j] + Window <= g[j + n]
      BY DEF Ledger
    <3>u. u <= g[a] /\ g[i] < u + Window BY <2>1, <2>2
    <3> HIDE DEF I
    <3>2. ~(a + n <= i)
      <4> SUFFICES ASSUME a + n <= i PROVE FALSE OBVIOUS
      <4>1. a + n \in 1 .. Len(g) /\ a + n <= Len(g)
        BY ONLY <3>1, <1>s, <1>w, a + n <= i
      <4>2. g[a] + Window <= g[a + n] BY ONLY <3>1, <3>l, <4>1
      <4>3. g[a + n] <= g[i] BY ONLY <3>1, <3>l, <4>1, a + n <= i
      <4>5. g[a] \in Nat /\ g[i] \in Nat /\ g[a + n] \in Nat
        BY ONLY <3>1, <4>1, <1>s
      <4>6. QED BY ONLY <3>u, <4>2, <4>3, <4>5, <1>w, OutOfReach, u \in Nat
    <3>3. QED BY ONLY <3>1, <3>2, <1>s, <1>w
  <2>3. I \in SUBSET (a .. a + n - 1) BY <2>2
  <2>4. a \in Int /\ n \in Int /\ n >= 1 BY <2>0, <2>1
  <2> HIDE DEF I
  <2>5. /\ IsFiniteSet(a .. a + n - 1)
        /\ Cardinality(a .. a + n - 1) = n
    BY <2>4, FS_Interval
  <2>6. Cardinality(I) <= n BY <2>3, <2>5, FS_Subset
  <2>7. QED BY <2>6 DEF I
<1>3. QED BY <1>1, <1>2

\* A window with room holds fewer than n, so its history has fewer than n
\* entries in the stretch ending now.
LEMMA LedgerRoom ==
    ASSUME NEW s \in Seq(Nat), NEW g \in Seq(Nat), NEW n \in Nat \ {0},
           NEW t \in Nat, Ledger(s, g, n, t), Len(s) < n
    PROVE  Cardinality({i \in DOMAIN g : g[i] > t - Window}) < n
<1>w. Window \in Nat BY ConstantsAssumption
<1>g. /\ Len(g) \in Nat /\ Len(s) \in Nat /\ DOMAIN g = 1 .. Len(g)
      /\ \A i \in 1 .. Len(g) : g[i] \in Nat
  OBVIOUS
<1>s. /\ Window \in Nat
      /\ Len(g) \in Nat /\ Len(s) \in Nat /\ DOMAIN g = 1 .. Len(g)
      /\ \A i \in 1 .. Len(g) : g[i] \in Nat
  BY ONLY <1>w, <1>g
<1> DEFINE I == {i \in DOMAIN g : g[i] > t - Window}
           a == Len(g) - Len(s) + 1
<1>1. ASSUME NEW i \in I PROVE i \in a .. Len(g)
  <2>1. i \in 1 .. Len(g) /\ g[i] > t - Window BY <1>s
  <2>2. ~(i <= Len(g) - Len(s))
    <3> SUFFICES ASSUME i <= Len(g) - Len(s) PROVE FALSE OBVIOUS
    <3>1. i \in 1 .. Len(g) - Len(s) BY <2>1, <1>s
    <3>2. g[i] + Window <= t BY <3>1 DEF Ledger
    <3>3. g[i] \in Nat BY <2>1, <1>s
    <3>4. QED BY <2>1, <3>2, <3>3, <1>s
  <2>3. QED BY <2>1, <2>2, <1>s
<1>2. I \in SUBSET (a .. Len(g)) BY <1>1
<1>3. a \in Int /\ Len(g) \in Int BY <1>s
<1>4. /\ IsFiniteSet(a .. Len(g))
      /\ Cardinality(a .. Len(g)) = IF a > Len(g) THEN 0 ELSE Len(g) - a + 1
  <2> HIDE DEF a
  <2>1. QED BY <1>3, FS_Interval
<1>5. Cardinality(a .. Len(g)) = Len(s) BY <1>4, <1>s
<1> HIDE DEF I, a
<1>6. Cardinality(I) <= Len(s) /\ Cardinality(I) \in Nat
  BY <1>2, <1>4, <1>5, FS_Subset, FS_CardinalityType
<1>7. QED BY <1>6, <1>s DEF I

-----------------------------------------------------------------------------
(* The actions *)

\* Creating a missing window changes nothing: it has no history.
LEMMA OpenedIsStamps ==
    ASSUME IInv, NEW d \in Descriptors
    PROVE  Opened(d) = stamps
<1>1. Missing(d) \subseteq WriteKeys \ created
  BY WindowsOfType DEF Missing, Windows
<1>2. \A b \in Missing(d) : stamps[b] = <<>>
  BY <1>1 DEF IInv, NotYetCreated
<1>3. stamps \in [Windows -> Seq(Nat)] BY DEF IInv, TypeOK
<1>4. QED BY <1>2, <1>3 DEF Opened

\* Pruning the windows of a request keeps every window faithful.
LEMMA PrunedFaithful ==
    ASSUME IInv, NEW d \in Descriptors
    PROVE  /\ Pruned(d, stamps) \in [Windows -> Seq(Nat)]
           /\ \A b \in Windows :
                 /\ Ledger(Pruned(d, stamps)[b], granted[b], LimitOf(b), now)
                 /\ b \notin WindowsOf(d) => Pruned(d, stamps)[b] = stamps[b]
<1> DEFINE ws == Pruned(d, stamps)
<1>1. /\ stamps \in [Windows -> Seq(Nat)]
      /\ granted \in [Windows -> Seq(Nat)]
      /\ now \in Nat
  BY DEF IInv, TypeOK
<1>2. ws = [b \in Windows |-> IF b \in WindowsOf(d) THEN Prune(stamps[b], now)
                                                      ELSE stamps[b]]
  BY DEF Pruned
<1> HIDE DEF ws
<1>3. ASSUME NEW b \in Windows
      PROVE  /\ ws[b] \in Seq(Nat)
             /\ Ledger(ws[b], granted[b], LimitOf(b), now)
             /\ b \notin WindowsOf(d) => ws[b] = stamps[b]
  <2>1. Ledger(stamps[b], granted[b], LimitOf(b), now) BY DEF IInv, Faithful
  <2>2. stamps[b] \in Seq(Nat) /\ granted[b] \in Seq(Nat) BY <1>1
  <2>3. LimitOf(b) \in Nat \ {0} BY LimitType
  <2>4. /\ Ledger(Prune(stamps[b], now), granted[b], LimitOf(b), now)
        /\ Prune(stamps[b], now) \in Seq(Nat)
    BY <2>1, <2>2, <2>3, <1>1, LedgerPrune
  <2>5. ws[b] = IF b \in WindowsOf(d) THEN Prune(stamps[b], now) ELSE stamps[b]
    BY <1>2
  <2>6. QED BY <2>1, <2>2, <2>4, <2>5
<1>4. ws \in [Windows -> Seq(Nat)] BY <1>2, <1>3
<1>5. QED BY <1>3, <1>4 DEF ws

\* A request that need not wait finds room in each of its windows.
LEMMA NoWaitMeansRoom ==
    ASSUME IInv, NEW d \in Descriptors,
           \A w \in Waits(d, Pruned(d, stamps)) : w <= 0
    PROVE  \A b \in WindowsOf(d) : Len(Pruned(d, stamps)[b]) < LimitOf(b)
<1> DEFINE ws == Pruned(d, stamps)
<1>1. SUFFICES ASSUME NEW b \in WindowsOf(d), ~(Len(ws[b]) < LimitOf(b))
               PROVE  FALSE
  OBVIOUS
<1>2. b \in Windows BY WindowsOfType
<1>3. /\ stamps[b] \in Seq(Nat) /\ now \in Nat /\ LimitOf(b) \in Nat
      /\ LimitOf(b) >= 1 /\ Window \in Nat
  BY <1>2, LimitType, ConstantsAssumption DEF IInv, TypeOK
<1>4. ws[b] = Prune(stamps[b], now) BY <1>2 DEF Pruned
<1>5. TimeUntilRoom(ws[b], LimitOf(b), now) <= 0 BY DEF Waits
<1>6. Len(ws[b]) >= 1
  <2>1. ws[b] \in Seq(Nat) BY <1>2, PrunedFaithful
  <2> HIDE DEF ws
  <2>2. Len(ws[b]) \in Nat BY <2>1
  <2>3. QED BY <2>2, <1>1, <1>3
<1>7. ws[b][1] + Window - now <= 0 BY <1>1, <1>5 DEF TimeUntilRoom
<1>8. Prune(stamps[b], now)[1] > now - Window
      /\ Prune(stamps[b], now)[1] \in Nat
  BY <1>3, <1>4, <1>6, PruneHead
<1>9. QED BY <1>3, <1>4, <1>7, <1>8

\* One pass of acquire's loop that goes ahead.
LEMMA AdmitStep ==
    ASSUME IInv, NEW c \in Callers, Admit(c, stamps), now' = now
    PROVE  /\ pc' \in [Callers -> {"idle", "sleeping", "granted"}]
           /\ wakeAt' \in [Callers -> Nat]
           /\ stamps' \in [Windows -> Seq(Nat)]
           /\ granted' \in [Windows -> Seq(Nat)]
           /\ Faithful'
           /\ \A b \in Windows \ WindowsOf(descriptor[c]) :
                 stamps'[b] = stamps[b] /\ granted'[b] = granted[b]
           /\ \A k \in Callers : pc'[k] = "sleeping" => pc[k] = "sleeping"
<1> DEFINE d == descriptor[c]
           ws == Pruned(d, stamps)
<1>1. /\ d \in Descriptors
      /\ pc \in [Callers -> {"idle", "sleeping", "granted"}]
      /\ wakeAt \in [Callers -> Nat]
      /\ granted \in [Windows -> Seq(Nat)]
      /\ now \in Nat
  BY DEF IInv, TypeOK
<1>2. /\ \A w \in Waits(d, ws) : w <= 0
      /\ stamps' = Record(d, ws)
      /\ granted' = Record(d, granted)
      /\ pc' = [pc EXCEPT ![c] = "granted"]
      /\ wakeAt' = wakeAt
  BY DEF Admit
<1>3. \A b \in WindowsOf(d) : Len(ws[b]) < LimitOf(b)
  BY <1>1, <1>2, NoWaitMeansRoom
<1>4. /\ ws \in [Windows -> Seq(Nat)]
      /\ \A b \in Windows :
            /\ Ledger(ws[b], granted[b], LimitOf(b), now)
            /\ b \notin WindowsOf(d) => ws[b] = stamps[b]
  BY <1>1, PrunedFaithful
<1> HIDE DEF d, ws
<1>5. ASSUME NEW b \in Windows
      PROVE  /\ stamps'[b] \in Seq(Nat)
             /\ granted'[b] \in Seq(Nat)
             /\ Ledger(stamps'[b], granted'[b], LimitOf(b), now)
             /\ b \notin WindowsOf(d) =>
                   stamps'[b] = stamps[b] /\ granted'[b] = granted[b]
  <2>1. /\ stamps'[b] = IF b \in WindowsOf(d) THEN Append(ws[b], now) ELSE ws[b]
        /\ granted'[b] = IF b \in WindowsOf(d)
                           THEN Append(granted[b], now) ELSE granted[b]
    BY <1>2 DEF Record
  <2>2. /\ ws[b] \in Seq(Nat) /\ granted[b] \in Seq(Nat)
        /\ LimitOf(b) \in Nat \ {0}
    BY <1>1, <1>4, LimitType
  <2>3. CASE b \in WindowsOf(d)
    <3>1. stamps'[b] = Append(ws[b], now) /\ granted'[b] = Append(granted[b], now)
      BY <2>1, <2>3
    <3>2. Ledger(Append(ws[b], now), Append(granted[b], now), LimitOf(b), now)
      BY <1>1, <1>3, <1>4, <2>2, <2>3, LedgerRecord
    <3>3. QED BY <3>1, <3>2, <2>2, <2>3, <1>1
  <2>4. CASE b \notin WindowsOf(d) BY <2>1, <2>2, <2>4, <1>4
  <2>5. QED BY <2>3, <2>4
<1>6. stamps' \in [Windows -> Seq(Nat)] /\ granted' \in [Windows -> Seq(Nat)]
  BY <1>2, <1>5 DEF Record
<1>7. /\ pc' \in [Callers -> {"idle", "sleeping", "granted"}]
      /\ \A k \in Callers : pc'[k] = "sleeping" => pc[k] = "sleeping"
      /\ wakeAt' \in [Callers -> Nat]
  BY <1>1, <1>2
<1>8. Faithful' BY <1>5 DEF Faithful, LimitOf
<1>9. QED BY <1>5, <1>6, <1>7, <1>8 DEF d

\* One pass that goes to sleep.
LEMMA ThrottleStep ==
    ASSUME IInv, NEW c \in Callers, Throttle(c, stamps), now' = now
    PROVE  /\ pc' \in [Callers -> {"idle", "sleeping", "granted"}]
           /\ wakeAt' \in [Callers -> Nat]
           /\ stamps' \in [Windows -> Seq(Nat)]
           /\ granted' = granted
           /\ Faithful'
           /\ \A b \in Windows \ WindowsOf(descriptor[c]) : stamps'[b] = stamps[b]
           /\ \A k \in Callers \ {c} : pc'[k] = "sleeping" => pc[k] = "sleeping"
<1> DEFINE d == descriptor[c]
           ws == Pruned(d, stamps)
<1>1. /\ d \in Descriptors
      /\ pc \in [Callers -> {"idle", "sleeping", "granted"}]
      /\ wakeAt \in [Callers -> Nat]
      /\ granted \in [Windows -> Seq(Nat)]
      /\ now \in Nat
  BY DEF IInv, TypeOK
<1>2. PICK wait \in Waits(d, ws) :
        /\ wait > 0
        /\ stamps' = ws
        /\ pc' = [pc EXCEPT ![c] = "sleeping"]
        /\ wakeAt' = [wakeAt EXCEPT ![c] = now + wait]
        /\ granted' = granted
  BY DEF Throttle
<1>3. /\ ws \in [Windows -> Seq(Nat)]
      /\ \A b \in Windows :
            /\ Ledger(ws[b], granted[b], LimitOf(b), now)
            /\ b \notin WindowsOf(d) => ws[b] = stamps[b]
  BY <1>1, PrunedFaithful
<1>4. wait \in Int
  <2>1. PICK b \in WindowsOf(d) : wait = TimeUntilRoom(ws[b], LimitOf(b), now)
    BY <1>2 DEF Waits
  <2>2. b \in Windows BY <1>1, WindowsOfType
  <2>3. ws[b] \in Seq(Nat) /\ LimitOf(b) \in Nat \ {0} /\ Window \in Nat
    BY <1>3, <2>2, LimitType, ConstantsAssumption
  <2> HIDE DEF ws
  <2>4. CASE Len(ws[b]) < LimitOf(b) BY <2>1, <2>4 DEF TimeUntilRoom
  <2>5. CASE ~(Len(ws[b]) < LimitOf(b))
    <3>1. Len(ws[b]) \in Nat /\ LimitOf(b) \in Nat /\ LimitOf(b) >= 1 BY <2>3
    <3>2. 1 \in 1 .. Len(ws[b]) BY <2>5, <3>1
    <3>3. ws[b][1] \in Nat BY <2>3, <3>2
    <3>4. QED BY <2>1, <2>3, <2>5, <3>3, <1>1 DEF TimeUntilRoom
  <2>6. QED BY <2>4, <2>5
<1> HIDE DEF d, ws
<1>5. wakeAt' \in [Callers -> Nat] BY <1>1, <1>2, <1>4
<1>6. /\ pc' \in [Callers -> {"idle", "sleeping", "granted"}]
      /\ \A k \in Callers \ {c} : pc'[k] = "sleeping" => pc[k] = "sleeping"
  BY <1>1, <1>2
<1>7. Faithful' BY <1>2, <1>3 DEF Faithful, LimitOf
<1>8. QED BY <1>2, <1>3, <1>5, <1>6, <1>7 DEF d

\* acquire called: the missing window is opened, then one pass of the loop runs.
LEMMA CallPreserves ==
    ASSUME IInv, NEW c \in Callers, Call(c)
    PROVE  IInv'
<1> DEFINE d == descriptor[c]
<1>1. d \in Descriptors BY DEF IInv, TypeOK
<1>2. /\ created' = created \cup Missing(d)
      /\ now' = now /\ descriptor' = descriptor
      /\ Admit(c, stamps) \/ Throttle(c, stamps)
  BY <1>1, OpenedIsStamps DEF Call
<1>3. /\ pc' \in [Callers -> {"idle", "sleeping", "granted"}]
      /\ wakeAt' \in [Callers -> Nat]
      /\ stamps' \in [Windows -> Seq(Nat)]
      /\ granted' \in [Windows -> Seq(Nat)]
      /\ Faithful'
      /\ \A b \in Windows \ WindowsOf(d) :
            stamps'[b] = stamps[b] /\ granted'[b] = granted[b]
      /\ \A k \in Callers \ {c} : pc'[k] = "sleeping" => pc[k] = "sleeping"
  <2>1. CASE Admit(c, stamps) BY <2>1, <1>2, AdmitStep
  <2>2. CASE Throttle(c, stamps)
    <3>1. granted \in [Windows -> Seq(Nat)] BY DEF IInv, TypeOK
    <3>2. QED BY <2>2, <3>1, <1>2, ThrottleStep
  <2>3. QED BY <1>2, <2>1, <2>2
<1>4. Missing(d) \subseteq WriteKeys
  BY <1>1, WindowsOfType DEF Missing, Windows
<1>5. TypeOK' BY <1>2, <1>3, <1>4 DEF IInv, TypeOK
<1>6. NotYetCreated'
  <2>1. SUFFICES ASSUME NEW b \in WriteKeys \ created'
                 PROVE  stamps'[b] = <<>> /\ granted'[b] = <<>>
    BY DEF NotYetCreated
  <2>2. b \in WriteKeys \ created /\ b \notin Missing(d) BY <1>2
  <2>3. b \notin {"read", "aggregate"}
    BY ConstantsAssumption DEF WriteKeys, Unspecified
  <2>4. b \in Windows \ WindowsOf(d) BY <2>2, <2>3 DEF Missing, Windows
  <2>5. QED BY <2>2, <2>4, <1>3 DEF IInv, NotYetCreated
<1>7. SleepersOpened'
  <2>1. SUFFICES ASSUME NEW k \in Callers, pc'[k] = "sleeping"
                 PROVE  Missing(descriptor[k])' = {}
    BY DEF SleepersOpened
  <2>2. CASE k = c BY <2>2, <1>2 DEF Missing
  <2>3. CASE k # c BY <2>1, <2>3, <1>2, <1>3 DEF IInv, SleepersOpened, Missing
  <2>4. QED BY <2>2, <2>3
<1>8. QED BY <1>3, <1>5, <1>6, <1>7 DEF IInv

\* acquire woken from its sleep: one more pass, over windows that exist by now.
LEMMA WakePreserves ==
    ASSUME IInv, NEW c \in Callers, Wake(c)
    PROVE  IInv'
<1> DEFINE d == descriptor[c]
<1>1. d \in Descriptors BY DEF IInv, TypeOK
<1>2. /\ created' = created /\ now' = now /\ descriptor' = descriptor
      /\ pc[c] = "sleeping"
      /\ Admit(c, stamps) \/ Throttle(c, stamps)
  BY DEF Wake
<1>3. /\ pc' \in [Callers -> {"idle", "sleeping", "granted"}]
      /\ wakeAt' \in [Callers -> Nat]
      /\ stamps' \in [Windows -> Seq(Nat)]
      /\ granted' \in [Windows -> Seq(Nat)]
      /\ Faithful'
      /\ \A b \in Windows \ WindowsOf(d) :
            stamps'[b] = stamps[b] /\ granted'[b] = granted[b]
      /\ \A k \in Callers : pc'[k] = "sleeping" => pc[k] = "sleeping"
  <2>1. CASE Admit(c, stamps) BY <2>1, <1>2, AdmitStep
  <2>2. CASE Throttle(c, stamps)
    <3>1. granted \in [Windows -> Seq(Nat)] BY DEF IInv, TypeOK
    <3>2. QED BY <2>2, <3>1, <1>2, ThrottleStep
  <2>3. QED BY <1>2, <2>1, <2>2
<1>4. TypeOK' BY <1>2, <1>3 DEF IInv, TypeOK
<1>5. SleepersOpened' BY <1>2, <1>3 DEF IInv, SleepersOpened, Missing
<1>6. NotYetCreated'
  <2>1. SUFFICES ASSUME NEW b \in WriteKeys \ created
                 PROVE  stamps'[b] = <<>> /\ granted'[b] = <<>>
    BY <1>2 DEF NotYetCreated
  <2>2. Missing(d) = {} BY <1>2 DEF IInv, SleepersOpened
  <2>3. b \notin {"read", "aggregate"}
    BY ConstantsAssumption DEF WriteKeys, Unspecified
  <2>4. b \in Windows \ WindowsOf(d) BY <2>2, <2>3 DEF Missing, Windows
  <2>5. QED BY <2>4, <1>3 DEF IInv, NotYetCreated
<1>7. QED BY <1>3, <1>4, <1>5, <1>6 DEF IInv

\* Time passing changes no window and puts no entry in the future.
LEMMA TickPreserves ==
    ASSUME IInv, Tick
    PROVE  IInv'
<1>1. /\ now' = now + 1
      /\ UNCHANGED <<descriptor, pc, wakeAt, created, stamps, granted>>
  BY DEF Tick
<1>2. TypeOK' BY <1>1 DEF IInv, TypeOK
<1>3. NotYetCreated' /\ SleepersOpened'
  BY <1>1 DEF IInv, NotYetCreated, SleepersOpened, Missing
<1>4. ASSUME NEW b \in Windows
      PROVE  Ledger(stamps[b], granted[b], LimitOf(b), now + 1)
  <2>1. /\ stamps[b] \in Seq(Nat) /\ granted[b] \in Seq(Nat) /\ now \in Nat
        /\ LimitOf(b) \in Nat \ {0}
        /\ Ledger(stamps[b], granted[b], LimitOf(b), now)
    BY LimitType DEF IInv, TypeOK, Faithful
  <2>2. QED BY <2>1, LedgerTick
<1>5. Faithful' BY <1>1, <1>4 DEF Faithful
<1>6. QED BY <1>2, <1>3, <1>5 DEF IInv

-----------------------------------------------------------------------------
(* Theorems *)

\* A limiter that has let nothing through is faithful to its empty history.
LEMMA InitHolds == Init => IInv
<1> SUFFICES ASSUME Init PROVE IInv OBVIOUS
<1>1. TypeOK BY DEF Init, TypeOK
<1>2. NotYetCreated BY DEF Init, NotYetCreated, Windows
<1>3. SleepersOpened BY DEF Init, SleepersOpened
<1>4. ASSUME NEW b \in Windows
      PROVE  Ledger(stamps[b], granted[b], LimitOf(b), now)
  <2>1. stamps[b] = <<>> /\ granted[b] = <<>> BY DEF Init
  <2>2. LimitOf(b) \in Nat BY LimitType
  <2>3. Len(stamps[b]) = 0 /\ Len(granted[b]) = 0 BY <2>1
  <2>4. QED BY <2>2, <2>3 DEF Ledger
<1>5. QED BY <1>1, <1>2, <1>3, <1>4 DEF IInv, Faithful

\* Every step of every caller keeps the invariant.
LEMMA NextPreserves == IInv /\ [Next]_vars => IInv'
<1> SUFFICES ASSUME IInv, [Next]_vars PROVE IInv' OBVIOUS
<1>1. CASE Tick BY <1>1, TickPreserves
<1>2. CASE \E c \in Callers : Call(c) BY <1>2, CallPreserves
<1>3. CASE \E c \in Callers : Wake(c) BY <1>3, WakePreserves
<1>4. CASE UNCHANGED vars
  BY <1>4 DEF vars, IInv, TypeOK, Faithful, NotYetCreated, SleepersOpened, Missing
<1>5. QED BY <1>1, <1>2, <1>3, <1>4 DEF Next, Finished

\* The windows stay faithful to the whole history of the requests let through:
\* what SlidingWindow's pruning has dropped no later decision needs.
THEOREM Invariance == Spec => []IInv
<1>1. QED BY InitHolds, NextPreserves, PTL DEF Spec

\* Every variable of the rate limiter keeps its type.
THEOREM TypeCorrect == Spec => []TypeOK
<1>1. IInv => TypeOK BY DEF IInv
<1>2. QED BY Invariance, <1>1, PTL

\* acquire never lets more requests through than a budget allows in any
\* stretch of time as long as the window.
THEOREM BudgetKept == Spec => []WithinBudget
<1>1. IInv => WithinBudget
  <2> SUFFICES ASSUME IInv, NEW b \in Windows, NEW t \in 0 .. now
               PROVE  Cardinality({i \in DOMAIN granted[b] :
                                      /\ t <= granted[b][i]
                                      /\ granted[b][i] < t + Window}) <= LimitOf(b)
    BY DEF WithinBudget
  <2>1. /\ stamps[b] \in Seq(Nat) /\ granted[b] \in Seq(Nat) /\ now \in Nat
        /\ LimitOf(b) \in Nat \ {0}
        /\ Ledger(stamps[b], granted[b], LimitOf(b), now)
    BY LimitType DEF IInv, TypeOK, Faithful
  <2>2. t \in Nat BY <2>1
  <2>3. QED BY <2>1, <2>2, LedgerBudget
<1>2. QED BY Invariance, <1>1, PTL

\* A pass that goes ahead is a grant of the abstract budget.
LEMMA AdmitIsGrant ==
    ASSUME IInv, NEW c \in Callers, Admit(c, stamps), now' = now
    PROVE  Budget!Grant(WindowsOf(descriptor[c]))
<1> DEFINE d == descriptor[c]
           ws == Pruned(d, stamps)
<1>1. d \in Descriptors BY DEF IInv, TypeOK
<1>2. \A w \in Waits(d, ws) : w <= 0 BY DEF Admit
<1>3. granted' = Record(d, granted) BY DEF Admit
<1>4. ASSUME NEW b \in WindowsOf(d)
      PROVE  Budget!Recent(b) < [w \in Windows |-> LimitOf(w)][b]
  <2>1. b \in Windows BY <1>1, WindowsOfType
  <2>2. Len(ws[b]) < LimitOf(b) BY <1>1, <1>2, NoWaitMeansRoom
  <2>3. /\ ws[b] \in Seq(Nat)
        /\ Ledger(ws[b], granted[b], LimitOf(b), now)
    BY <1>1, <2>1, PrunedFaithful
  <2>4. /\ granted[b] \in Seq(Nat) /\ now \in Nat
        /\ LimitOf(b) \in Nat \ {0}
    BY <2>1, LimitType DEF IInv, TypeOK
  <2> HIDE DEF ws, d
  <2>5. Cardinality({i \in DOMAIN granted[b] : granted[b][i] > now - Window})
          < LimitOf(b)
    BY <2>2, <2>3, <2>4, LedgerRoom
  <2>6. Budget!Recent(b) < LimitOf(b)
    BY <2>5 DEF Budget!Recent, Budget!Cardinality, Cardinality
  <2>7. QED BY <2>1, <2>6
<1>5. QED BY <1>3, <1>4 DEF Budget!Grant, Record

\* acquire implements RateBudget: a step of the limiter lets a request through
\* exactly as the abstract budget does, or is invisible to it.
THEOREM Refinement == Spec => ImplementsBudget
<1>1. Init => Budget!Init BY DEF Init, Budget!Init
<1>2. IInv /\ [Next]_vars => [Budget!Next]_(Budget!vars)
  <2> SUFFICES ASSUME IInv, [Next]_vars PROVE [Budget!Next]_(Budget!vars)
    OBVIOUS
  <2>1. CASE Tick BY <2>1 DEF Tick, Budget!Next, Budget!Tick
  <2>2. ASSUME NEW c \in Callers, now' = now,
               Admit(c, stamps) \/ Throttle(c, stamps)
        PROVE  [Budget!Next]_(Budget!vars)
    <3>1. CASE Admit(c, stamps)
      <4>1. Budget!Grant(WindowsOf(descriptor[c])) BY <3>1, <2>2, AdmitIsGrant
      <4>2. descriptor[c] \in Descriptors BY DEF IInv, TypeOK
      <4>3. QED BY <4>1, <4>2 DEF Budget!Next
    <3>2. CASE Throttle(c, stamps)
      BY <3>2, <2>2 DEF Throttle, Budget!vars
    <3>3. QED BY <2>2, <3>1, <3>2
  <2>3. CASE \E c \in Callers : Call(c)
    <3>1. PICK c \in Callers : Call(c) BY <2>3
    <3>2. Opened(descriptor[c]) = stamps BY OpenedIsStamps DEF IInv, TypeOK
    <3>3. QED BY <3>1, <3>2, <2>2 DEF Call
  <2>4. CASE \E c \in Callers : Wake(c) BY <2>4, <2>2 DEF Wake
  <2>5. CASE UNCHANGED vars BY <2>5 DEF vars, Budget!vars
  <2>6. QED BY <2>1, <2>3, <2>4, <2>5 DEF Next, Finished
<1>3. QED BY Invariance, <1>1, <1>2, PTL DEF Spec, ImplementsBudget, Budget!Spec

-----------------------------------------------------------------------------
(***************************************************************************)
(* What is proved of the callers of acquire, for every set of callers,     *)
(* every limit table and every window length: a caller is counted once in  *)
(* each window it draws on, and is never made to sleep longer than it      *)
(* must.                                                                   *)
(*                                                                         *)
(* That a sleep is no longer than needed is decided when it begins, from   *)
(* the one window that makes the caller wait longest.  What lasts is that  *)
(* the history of that window keeps the requests the caller waits out:     *)
(* pruning touches the window, never the history.                          *)
(***************************************************************************)

\* The callers let through a window.
Through(b) ==
    {c \in Callers : pc[c] = "granted" /\ b \in WindowsOf(descriptor[c])}

\* There are as many of them as the history has entries.
Counts ==
    \A b \in Windows : /\ IsFiniteSet(Through(b))
                       /\ Len(granted[b]) = Cardinality(Through(b))

\* A history g has n entries in a row that stay in the window until time w.
FullUntil(g, n, w) ==
    \E lo \in Nat \ {0} :
        /\ lo + n - 1 <= Len(g)
        /\ \A i \in lo .. lo + n - 1 : w <= g[i] + Window

\* One of the windows a sleeper draws on is full until its deadline.
SleepersNeed ==
    \A c \in Callers : pc[c] = "sleeping" =>
        \E b \in WindowsOf(descriptor[c]) :
            FullUntil(granted[b], LimitOf(b), wakeAt[c])

-----------------------------------------------------------------------------
(* The histories *)

\* What a history has is not lost when a request is appended to it.
LEMMA StaysFull ==
    ASSUME NEW g \in Seq(Nat), NEW t \in Nat, NEW n \in Nat \ {0}, NEW w \in Nat,
           FullUntil(g, n, w)
    PROVE  FullUntil(Append(g, t), n, w)
<1>1. PICK lo \in Nat \ {0} : /\ lo + n - 1 <= Len(g)
                              /\ \A i \in lo .. lo + n - 1 : w <= g[i] + Window
    BY DEF FullUntil
<1>2. Len(g) \in Nat /\ Len(Append(g, t)) = Len(g) + 1
    OBVIOUS
<1>3. lo + n - 1 <= Len(Append(g, t))
    BY <1>1, <1>2
<1>4. ASSUME NEW i \in lo .. lo + n - 1 PROVE w <= Append(g, t)[i] + Window
    <2>1. i \in 1 .. Len(g)
        BY <1>1, <1>2
    <2>2. Append(g, t)[i] = g[i]
        BY <2>1
    <2> QED BY <2>2, <1>1
<1> QED BY <1>3, <1>4 DEF FullUntil

\* A history that has n entries in the window until w has n of them in it at
\* every instant before.
LEMMA FullBefore ==
    ASSUME NEW g \in Seq(Nat), NEW n \in Nat \ {0}, NEW w \in Nat, NEW t \in Nat,
           t < w, FullUntil(g, n, w)
    PROVE  n <= Cardinality({i \in DOMAIN g : g[i] > t - Window})
<1> DEFINE recent == {i \in DOMAIN g : g[i] > t - Window}
<1>1. PICK lo \in Nat \ {0} : /\ lo + n - 1 <= Len(g)
                              /\ \A i \in lo .. lo + n - 1 : w <= g[i] + Window
    BY DEF FullUntil
<1>2. /\ Window \in Nat /\ Len(g) \in Nat /\ DOMAIN g = 1 .. Len(g)
      /\ \A i \in 1 .. Len(g) : g[i] \in Nat
    <2>1. Window \in Nat
        BY ConstantsAssumption
    <2>2. /\ Len(g) \in Nat /\ DOMAIN g = 1 .. Len(g)
          /\ \A i \in 1 .. Len(g) : g[i] \in Nat
        OBVIOUS
    <2> QED BY <2>1, <2>2
<1>3. ASSUME NEW i \in lo .. lo + n - 1 PROVE i \in recent
    <2>1. i \in 1 .. Len(g)
        BY <1>1, <1>2
    <2>2. w <= g[i] + Window /\ g[i] \in Nat
        BY <2>1, <1>1, <1>2
    <2> QED BY <2>1, <2>2, <1>2
<1>4. lo .. lo + n - 1 \subseteq recent /\ recent \subseteq 1 .. Len(g)
    BY <1>2, <1>3
<1>5. Cardinality(lo .. lo + n - 1) = n
    <2>1. lo \in Int /\ lo + n - 1 \in Int /\ lo <= lo + n - 1
        BY <1>1
    <2> QED BY <2>1, FS_Interval
<1> HIDE DEF recent
<1>6. IsFiniteSet(recent)
    <2>1. 1 \in Int /\ Len(g) \in Int
        BY <1>2
    <2>2. IsFiniteSet(1 .. Len(g))
        BY <2>1, FS_Interval
    <2> QED BY <2>2, <1>4, FS_Subset
<1>7. Cardinality(lo .. lo + n - 1) <= Cardinality(recent)
    BY <1>4, <1>6, FS_Subset
<1> QED BY <1>5, <1>7 DEF recent

\* What a window holds when it makes a request wait is what it waits out.
LEMMA WaitIsNeeded ==
    ASSUME NEW s \in Seq(Nat), NEW g \in Seq(Nat), NEW n \in Nat \ {0},
           NEW t \in Nat, Ledger(s, g, n, t), TimeUntilRoom(s, n, t) > 0
    PROVE  FullUntil(g, n, t + TimeUntilRoom(s, n, t))
<1> DEFINE lo == Len(g) - Len(s) + 1
<1>1. /\ Window \in Nat /\ n \in Nat /\ n >= 1
      /\ Len(s) \in Nat /\ Len(g) \in Nat
      /\ \A i \in 1 .. Len(g) : g[i] \in Nat
    BY ConstantsAssumption, SMTT(30)
<1>2. /\ Len(s) <= Len(g) /\ Len(s) <= n
      /\ \A i \in 1 .. Len(s) : s[i] = g[Len(g) - Len(s) + i]
      /\ \A i, j \in 1 .. Len(g) : i <= j => g[i] <= g[j]
    BY DEF Ledger
<1>3. ~(Len(s) < n) /\ TimeUntilRoom(s, n, t) = s[1] + Window - t
    BY <1>1 DEF TimeUntilRoom
<1>4. Len(s) = n /\ 1 \in 1 .. Len(s)
    BY <1>1, <1>2, <1>3
<1>5. /\ lo \in Nat \ {0} /\ lo \in 1 .. Len(g)
      /\ lo + n - 1 = Len(g)
      /\ s[1] = g[lo]
    BY <1>1, <1>2, <1>4
<1>6. t + TimeUntilRoom(s, n, t) = g[lo] + Window /\ g[lo] \in Nat
    <2>1. s[1] \in Nat /\ g[lo] \in Nat
        BY <1>1, <1>5
    <2>2. t + (s[1] + Window - t) = s[1] + Window
        BY <1>1, <2>1
    <2> QED BY <1>3, <1>5, <2>1, <2>2
<1> HIDE DEF lo
<1>7. ASSUME NEW i \in lo .. lo + n - 1 PROVE g[lo] + Window <= g[i] + Window
    <2>1. i \in 1 .. Len(g) /\ lo <= i
        BY <1>1, <1>5
    <2>2. g[lo] <= g[i] /\ g[i] \in Nat
        BY <2>1, <1>1, <1>2, <1>5
    <2>3. \A x, y, z \in Nat : x <= y => x + z <= y + z
        OBVIOUS
    <2> QED BY <2>2, <2>3, <1>1, <1>6
<1>8. lo + n - 1 <= Len(g)
    BY <1>1, <1>5
<1> QED BY <1>5, <1>6, <1>7, <1>8 DEF FullUntil

-----------------------------------------------------------------------------
(* One pass of acquire's loop *)

\* A request let through is one more caller and one more entry.
LEMMA AdmitCounts ==
    ASSUME IInv, Counts, NEW c \in Callers, pc[c] # "granted",
           Admit(c, stamps), descriptor' = descriptor
    PROVE  Counts'
<1>1. /\ granted' = Record(descriptor[c], granted)
      /\ pc' = [pc EXCEPT ![c] = "granted"]
    BY DEF Admit
<1>2. /\ granted \in [Windows -> Seq(Nat)]
      /\ pc \in [Callers -> {"idle", "sleeping", "granted"}]
      /\ now \in Nat
    BY DEF IInv, TypeOK
<1>3. ASSUME NEW b \in Windows
      PROVE  /\ IsFiniteSet(Through(b)')
             /\ Len(granted'[b]) = Cardinality(Through(b)')
    <2>1. /\ IsFiniteSet(Through(b)) /\ Len(granted[b]) = Cardinality(Through(b))
          /\ granted[b] \in Seq(Nat)
        BY <1>2 DEF Counts
    <2>2. granted'[b] = IF b \in WindowsOf(descriptor[c])
                          THEN Append(granted[b], now) ELSE granted[b]
        BY <1>1 DEF Record
    <2>3. \A k \in Callers : pc'[k] = "granted" <=> pc[k] = "granted" \/ k = c
        BY <1>1, <1>2
    <2>4. CASE b \in WindowsOf(descriptor[c])
        <3>1. Through(b)' = Through(b) \cup {c}
            BY <2>3, <2>4 DEF Through
        <3>2. c \notin Through(b)
            BY DEF Through
        <3>3. /\ IsFiniteSet(Through(b) \cup {c})
              /\ Cardinality(Through(b) \cup {c}) = Cardinality(Through(b)) + 1
            BY <2>1, <3>2, FS_AddElement
        <3>4. Len(granted'[b]) = Len(granted[b]) + 1
            BY <2>1, <2>2, <2>4, <1>2
        <3> QED BY <2>1, <3>1, <3>3, <3>4
    <2>5. CASE b \notin WindowsOf(descriptor[c])
        <3>1. Through(b)' = Through(b)
            BY <2>3, <2>5 DEF Through
        <3> QED BY <2>1, <2>2, <2>5, <3>1
    <2> QED BY <2>4, <2>5
<1> QED BY <1>3 DEF Counts

\* A caller that goes to sleep is counted nowhere.
LEMMA ThrottleCounts ==
    ASSUME IInv, Counts, NEW c \in Callers, pc[c] # "granted",
           Throttle(c, stamps), descriptor' = descriptor
    PROVE  Counts'
<1>1. granted' = granted /\ pc' = [pc EXCEPT ![c] = "sleeping"]
    BY DEF Throttle
<1>2. pc \in [Callers -> {"idle", "sleeping", "granted"}]
    BY DEF IInv, TypeOK
<1>3. \A k \in Callers : pc'[k] = "granted" <=> pc[k] = "granted"
    BY <1>1, <1>2
<1>4. \A b \in Windows : Through(b)' = Through(b)
    BY <1>3 DEF Through
<1> QED BY <1>1, <1>4 DEF Counts

\* A request let through leaves what the sleepers wait out where it is.
LEMMA AdmitNeeds ==
    ASSUME IInv, SleepersNeed, NEW c \in Callers, Admit(c, stamps),
           descriptor' = descriptor
    PROVE  SleepersNeed'
<1>1. /\ granted' = Record(descriptor[c], granted)
      /\ pc' = [pc EXCEPT ![c] = "granted"]
      /\ wakeAt' = wakeAt
    BY DEF Admit
<1>2. /\ granted \in [Windows -> Seq(Nat)]
      /\ pc \in [Callers -> {"idle", "sleeping", "granted"}]
      /\ wakeAt \in [Callers -> Nat]
      /\ descriptor \in [Callers -> Descriptors]
      /\ now \in Nat
    BY DEF IInv, TypeOK
<1>3. ASSUME NEW k \in Callers, pc'[k] = "sleeping"
      PROVE  \E b \in WindowsOf(descriptor[k]) :
                FullUntil(granted'[b], LimitOf(b), wakeAt[k])
    <2>1. pc[k] = "sleeping"
        BY <1>1, <1>2, <1>3
    <2>2. PICK b \in WindowsOf(descriptor[k]) :
              FullUntil(granted[b], LimitOf(b), wakeAt[k])
        BY <2>1 DEF SleepersNeed
    <2>3. /\ b \in Windows /\ granted[b] \in Seq(Nat)
          /\ LimitOf(b) \in Nat \ {0} /\ wakeAt[k] \in Nat
        BY <1>2, WindowsOfType, LimitType
    <2>4. granted'[b] = IF b \in WindowsOf(descriptor[c])
                          THEN Append(granted[b], now) ELSE granted[b]
        BY <1>1, <2>3 DEF Record
    <2>5. FullUntil(granted'[b], LimitOf(b), wakeAt[k])
        BY <1>2, <2>2, <2>3, <2>4, StaysFull
    <2> QED BY <2>5
<1> QED BY <1>1, <1>3 DEF SleepersNeed, FullUntil, LimitOf

\* A caller goes to sleep until the window that is full longest has room.
LEMMA ThrottleNeeds ==
    ASSUME IInv, SleepersNeed, NEW c \in Callers, Throttle(c, stamps),
           descriptor' = descriptor
    PROVE  SleepersNeed'
<1> DEFINE d == descriptor[c]
           ws == Pruned(d, stamps)
<1>1. PICK wait \in Waits(d, ws) :
        /\ wait > 0
        /\ pc' = [pc EXCEPT ![c] = "sleeping"]
        /\ wakeAt' = [wakeAt EXCEPT ![c] = now + wait]
        /\ granted' = granted
    BY DEF Throttle
<1>2. /\ granted \in [Windows -> Seq(Nat)]
      /\ pc \in [Callers -> {"idle", "sleeping", "granted"}]
      /\ wakeAt \in [Callers -> Nat]
      /\ d \in Descriptors
      /\ now \in Nat
    BY DEF IInv, TypeOK
<1>3. PICK b \in WindowsOf(d) : wait = TimeUntilRoom(ws[b], LimitOf(b), now)
    BY <1>1 DEF Waits
<1>4. /\ b \in Windows
      /\ ws[b] \in Seq(Nat) /\ granted[b] \in Seq(Nat)
      /\ LimitOf(b) \in Nat \ {0}
      /\ Ledger(ws[b], granted[b], LimitOf(b), now)
    <2>1. b \in Windows
        BY <1>2, WindowsOfType
    <2> HIDE DEF d
    <2> QED BY <2>1, <1>2, LimitType, PrunedFaithful
<1> HIDE DEF ws
<1>5. FullUntil(granted[b], LimitOf(b), now + wait)
    BY <1>1, <1>2, <1>3, <1>4, WaitIsNeeded
<1>6. ASSUME NEW k \in Callers, pc'[k] = "sleeping"
      PROVE  \E w \in WindowsOf(descriptor[k]) :
                FullUntil(granted[w], LimitOf(w), wakeAt'[k])
    <2>1. CASE k = c
        BY <2>1, <1>1, <1>2, <1>3, <1>5
    <2>2. CASE k # c
        BY <2>2, <1>1, <1>2, <1>6 DEF SleepersNeed
    <2> QED BY <2>1, <2>2
<1> QED BY <1>1, <1>6 DEF SleepersNeed, FullUntil, LimitOf

-----------------------------------------------------------------------------
(* The theorems *)

\* Before any call no one is counted and no one sleeps.
LEMMA InitCounted == Init => Counts /\ SleepersNeed
<1> SUFFICES ASSUME Init PROVE Counts /\ SleepersNeed
    OBVIOUS
<1>1. \A b \in Windows : Through(b) = {} /\ Len(granted[b]) = 0
    BY DEF Init, Through
<1>2. Counts
    BY <1>1, FS_EmptySet DEF Counts
<1> QED BY <1>2 DEF Init, SleepersNeed

\* Every step keeps the counts, and what the sleepers wait out.
LEMMA NextCounted ==
    IInv /\ Counts /\ SleepersNeed /\ [Next]_vars => Counts' /\ SleepersNeed'
<1> SUFFICES ASSUME IInv, Counts, SleepersNeed, [Next]_vars
             PROVE  Counts' /\ SleepersNeed'
    OBVIOUS
<1>1. ASSUME NEW c \in Callers, Call(c) \/ Wake(c)
      PROVE  Counts' /\ SleepersNeed'
    <2>1. descriptor[c] \in Descriptors
        BY DEF IInv, TypeOK
    <2>2. /\ pc[c] # "granted" /\ descriptor' = descriptor
          /\ Admit(c, stamps) \/ Throttle(c, stamps)
        BY <1>1, <2>1, OpenedIsStamps DEF Call, Wake
    <2> QED BY <2>2, AdmitCounts, AdmitNeeds, ThrottleCounts, ThrottleNeeds
<1>2. CASE UNCHANGED <<descriptor, pc, wakeAt, granted>>
    BY <1>2 DEF Counts, Through, SleepersNeed, FullUntil, LimitOf
<1> QED BY <1>1, <1>2 DEF Next, Tick, Finished, vars

\* The counts, and what the sleepers wait out, in every reachable state.
THEOREM CallersCounted == Spec => [](IInv /\ Counts /\ SleepersNeed)
BY InitHolds, NextPreserves, InitCounted, NextCounted, PTL DEF Spec

\* A request is counted once in each window it draws on, when it goes ahead
\* and not before, however often it slept and looked again.
THEOREM CountedExactlyOnce == Spec => []CountedOnce
<1>1. Counts => CountedOnce
    BY DEF Counts, Through, CountedOnce
<1> QED BY <1>1, CallersCounted, PTL

\* At each instant before a sleeper's deadline a window it draws on is full by
\* the whole history: it could not have been let through earlier.
THEOREM SleepsOnlyAsNeeded == Spec => []NoOversleep
<1>1. IInv /\ SleepersNeed => NoOversleep
    <2> SUFFICES ASSUME IInv, SleepersNeed,
                        NEW c \in Callers, pc[c] = "sleeping",
                        NEW t \in now .. wakeAt[c] - 1
                 PROVE  \E b \in WindowsOf(descriptor[c]) :
                          LimitOf(b) <= Cardinality({i \in DOMAIN granted[b] :
                                                       granted[b][i] > t - Window})
        BY DEF NoOversleep
    <2>1. PICK b \in WindowsOf(descriptor[c]) :
              FullUntil(granted[b], LimitOf(b), wakeAt[c])
        BY DEF SleepersNeed
    <2>2. /\ descriptor[c] \in Descriptors /\ wakeAt[c] \in Nat /\ now \in Nat
          /\ granted \in [Windows -> Seq(Nat)]
        BY DEF IInv, TypeOK
    <2>3. /\ granted[b] \in Seq(Nat) /\ LimitOf(b) \in Nat \ {0}
        BY <2>2, WindowsOfType, LimitType
    <2>4. t \in Nat /\ t < wakeAt[c]
        BY <2>2
    <2> QED BY <2>1, <2>2, <2>3, <2>4, FullBefore
<1> QED BY <1>1, CallersCounted, PTL
=============================================================================
