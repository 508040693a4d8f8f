------------------------------ MODULE Masking ------------------------------
(* The logging boundary (logging/mask.ts): what withUdfMasking makes of the  *)
(* meta of a log call before the logger sees it.  The application links      *)
(* objects as it likes, in shared structure and in cycles, and then logs one *)
(* of them.                                                                  *)
EXTENDS Naturals, Sequences, FiniteSetsExt, Relation, TLC

CONSTANTS Objects, Meta,       \* the objects; the one given to the logger
          Text, BigInt, Null,  \* scalars: a string, a bigint, null
          Kinds,               \* the kinds the other objects may be of
          UdfKey, OtherKeys,   \* keys of records
          Index,               \* the index of an array's item
          MaxLinks             \* bound on the assignments made

Scalars == {Text, BigInt, Null}

\* A program has finitely many objects, none of them a scalar; neither another
\* key nor an index matches the pattern of a udf key.
ASSUME GraphAssumption ==
  /\ IsFiniteSet(Objects) /\ Meta \in Objects
  /\ Objects \cap Scalars = {}
  /\ Kinds \subseteq {"plain", "bare", "array", "instance"}
  /\ UdfKey \notin OtherKeys /\ UdfKey # Index

VARIABLES kind,    \* "plain", "bare" (no prototype), "array" or "instance"
          heap,    \* the fields of each object
          logged   \* the outcome of the last log call

vars == <<kind, heap, logged>>

NotLogged == [done |-> FALSE, threw |-> FALSE, out |-> {}]

Init ==
  /\ kind \in {k \in [Objects -> Kinds] : k[Meta] = "plain"}
  /\ heap = [o \in Objects |-> << >>]
  /\ logged = NotLogged

\* A field of an object, or an item of an array, is given a value.
KeysOf(o) == IF kind[o] = "array" THEN {Index} ELSE {UdfKey} \cup OtherKeys

Link(o, k, v) ==
  /\ MapThenSumSet(LAMBDA p : Cardinality(DOMAIN heap[p]), Objects) < MaxLinks
  /\ k \notin DOMAIN heap[o]
  /\ heap' = [heap EXCEPT ![o] = [j \in DOMAIN heap[o] \cup {k} |->
                                    IF j = k THEN v ELSE heap[o][j]]]
  /\ logged' = NotLogged
  /\ UNCHANGED kind

-----------------------------------------------------------------------------
\* mask: the length of a value, by JSON.stringify or else by String.

Refers(o, p) == \E k \in DOMAIN heap[o] : heap[o][k] = p
Reaches == TransitiveClosure([a, b \in Objects |-> Refers(a, b)], Objects)

\* What one finds who follows every reference from a value.
Within(v) == IF v \in Objects THEN {v} \cup {p \in Objects : Reaches[v, p]} ELSE {}

\* JSON.stringify does; it throws on a cycle and a bigint.
Serializes(v) ==
  /\ v # BigInt
  /\ \A p \in Within(v) : /\ ~Reaches[p, p]
                          /\ BigInt \notin {heap[p][k] : k \in DOMAIN heap[p]}

\* String needs a toString to call, which an object without a prototype lacks;
\* an array's joins its items', and passes over an array that it is inside.
Joins(a, v) == kind[a] = "array" /\ Refers(a, v)
Prints(v) ==
  v \in Objects =>
     LET joined == TransitiveClosure([a, b \in Objects |-> Joins(a, b)], Objects)
     IN  \A p \in Objects : p = v \/ joined[v, p] => kind[p] # "bare"

\* What the logger is given is a set of places: what stands at each path.
Here(what, of) == {[path |-> << >>, what |-> what, of |-> of]}
Record   == Here("record", Null)
Redacted == Here("redacted", Null)
Circular == Here("circular", Null)
Same(v)  == Here("same", v)

Under(k, places) ==
  {[path |-> <<k>> \o p.path, what |-> p.what, of |-> p.of] : p \in places}

-----------------------------------------------------------------------------
\* scrub and scrubEntries.  The set of the live ancestors is one mutable set,
\* threaded through the walk; a throw is noted and the walk's output unused.

\* (Mutant: only scalars are masked, and records under a udf key walked.)
IsUdf_Scalar(k, v) == k = UdfKey /\ v \in {Text, BigInt}
IsUdf(k, v) == k = UdfKey /\ v # Null
\* (Mutant: an array is taken for an instance.)
Walkable_Records(v) == v \in Objects /\ kind[v] \notin {"array", "instance"}
Walkable(v) == v \in Objects /\ kind[v] # "instance"

Enter(seen, o) == seen \cup {o}
\* (Mutant: an object once entered stays in the set.)
Leave_Never(seen, o) == seen
Leave(seen, o) == seen \ {o}

\* entries[s][o]: what scrubEntries makes of o when s is the set.
Scrub(entries, v, seen) ==
  IF ~Walkable(v) THEN [out |-> Same(v), seen |-> seen, threw |-> FALSE]
  ELSE IF v \in seen THEN [out |-> Circular, seen |-> seen, threw |-> FALSE]
  ELSE LET walk == entries[Enter(seen, v)][v]
       IN  [out |-> Record \cup walk.out, seen |-> Leave(walk.seen, v),
            threw |-> walk.threw]

ScrubEntry(entries, o, k, sofar) ==
  LET v == heap[o][k]
      r == IF IsUdf(k, v)
           THEN [out |-> Redacted, seen |-> sofar.seen,
                 threw |-> ~Serializes(v) /\ ~Prints(v)]
           ELSE Scrub(entries, v, sofar.seen)
  IN  [out |-> sofar.out \cup Under(k, r.out), seen |-> r.seen,
       threw |-> sofar.threw \/ r.threw]

ScrubEntries[seen \in SUBSET Objects] ==
  [o \in Objects |->
     FoldSet(LAMBDA k, sofar : ScrubEntry(ScrubEntries, o, k, sofar),
             [out |-> {}, seen |-> seen, threw |-> FALSE], DOMAIN heap[o])]

\* A log call.  The meta itself is walked without being one of its ancestors.
Log ==
  /\ logged' = LET walk == ScrubEntries[{}][Meta]
               IN  [done |-> TRUE, threw |-> walk.threw, out |-> walk.out]
  /\ UNCHANGED <<kind, heap>>

Next ==
  \/ \E o \in Objects, v \in Objects \cup Scalars : \E k \in KeysOf(o) : Link(o, k, v)
  \/ Log

Spec == Init /\ [][Next]_vars

-----------------------------------------------------------------------------
\* What the logger is to see below an object: every object on every branch that
\* leads to it, with the ancestors of that branch, the meta not counted.
Due[ancestors \in SUBSET Objects] ==
  [o \in Objects |->
     UNION {Under(k, LET v == heap[o][k]
                     IN  IF k = UdfKey /\ v # Null THEN Redacted
                         ELSE IF v \notin Objects \/ kind[v] = "instance" THEN Same(v)
                         ELSE IF v \in ancestors THEN Circular
                         ELSE Record \cup Due[ancestors \cup {v}][v])
              : k \in DOMAIN heap[o]}]

\* What it sees.
Output == IF logged.done /\ ~logged.threw THEN logged.out ELSE {}

\* Every variable has its type; no object but an instance is handed on.
TypeOK ==
  /\ kind \in [Objects -> {"plain", "bare", "array", "instance"}]
  /\ \A o \in Objects : /\ DOMAIN heap[o] \subseteq KeysOf(o)
                        /\ \A k \in DOMAIN heap[o] : heap[o][k] \in Objects \cup Scalars
  /\ \A seen \in Output : seen.what = "same" =>
        \/ seen.of \in Scalars
        \/ seen.of \in Objects /\ kind[seen.of] = "instance"

\* Through shared objects and in cycles, the logger sees no value that stands
\* under a udf key of plain structure: at the key there is a placeholder, or the
\* null that was there, and nothing below it; and what is handed on as it was,
\* to be followed wherever it leads, has no such value in it unless it is an
\* instance.  (Instances are not looked into: mask.ts, at withUdfMasking.)
HoldsUdf(p) == UdfKey \in DOMAIN heap[p] /\ heap[p][UdfKey] # Null
Reveals(seen) ==
  seen.what = "same" /\ \E p \in Within(seen.of) : HoldsUdf(p)

RedactsUdf ==
  \A seen \in Output :
     /\ UdfKey \in {seen.path[n] : n \in DOMAIN seen.path} =>
           /\ seen.what = "redacted" \/ (seen.what = "same" /\ seen.of = Null)
           /\ seen.path[Len(seen.path)] = UdfKey
     /\ Reveals(seen) => kind[seen.of] = "instance"

\* "Any non-null value under a key matching /^udf\d+$/ - at any nesting depth
\* ... - is replaced ... this masking is unconditional" (README.md): nothing the
\* logger is given leads to one.
RedactsAtAnyDepth == \A seen \in Output : ~Reveals(seen)

\* All else the logger sees as it is: a field is in the output exactly if it is
\* in the data, an object is walked on every branch that leads to it, and cut
\* short only where it is its own ancestor.
KeepsTheRest ==
  logged.done /\ ~logged.threw => Output = Due[{}][Meta]

\* "This is a total function: it never throws ... fall back to String(value),
\* which cannot throw" (mask.ts): a log call returns.
NeverThrows == ~logged.threw
=============================================================================
