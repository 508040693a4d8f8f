------------------------------ MODULE Leniency ------------------------------
(* How a response body is validated: parseLenient (schema-leniency.ts), the  *)
(* collector of its diagnostics (diagnostics.ts) and the two primitives of   *)
(* BaseResource that call it, one for a single value and one per array item. *)
(*                                                                           *)
(* A schema is a tree of the Zod node kinds the client's response schemas    *)
(* use.  A body is a function from positions, the steps into fields and      *)
(* items that lead to a value, to what stands there.  The server answers     *)
(* with a body that fits its schema and then drifts from it, one deviation   *)
(* at a time: a key nobody documented, an enum member nobody listed, a null, *)
(* an absence (all benign) or a value of the wrong kind.  Then the client    *)
(* validates what arrived, item by item and call by call of the walk that    *)
(* cleans it.  The walk is synchronous: nothing comes between its steps.     *)
(*                                                                           *)
(* The names of the specification itself carry the module's name, so that it *)
(* can be extended together with Pagination, which walks what is kept here.  *)
EXTENDS Integers, Sequences, FiniteSets, SequencesExt

CONSTANTS Endpoints,              \* the calls of this instance
          Schemas,                \* the response schemas, with all their parts
          SchemaOf, BodyOf,       \* the response (or item) schema and a fitting body
          PerItem,                \* the endpoints validated item by item
          Texts,                  \* the strings that keys and values may be
          UndocumentedKeys, UnlistedMembers,
          MaxDeviations,
          MaxReportedDropErrors   \* MAX_REPORTED_DROP_ERRORS

-----------------------------------------------------------------------------
\* Schemas: the _zod.def of the node kinds in use.  The wrappers optional and
\* nullable are two marks of what they wrap: safeParse accepts the same in
\* either order, and the walk goes through them to what is inside.  A boolean
\* is a terminal as a number is, and is taken for one.

Plain(type) == [type |-> type, optional |-> FALSE, nullable |-> FALSE]
Unknown == Plain("unknown")
Never   == Plain("never")
Str     == Plain("string")
Num     == Plain("number")
Object(shape, catchall) ==
  [type |-> "object", optional |-> FALSE, nullable |-> FALSE,
   shape |-> shape, catchall |-> catchall]
ArrayOf(element) ==
  [type |-> "array", optional |-> FALSE, nullable |-> FALSE, element |-> element]
UnionOf(options) ==
  [type |-> "union", optional |-> FALSE, nullable |-> FALSE, options |-> options]
RecordOf(keys, value) ==
  [type |-> "record", optional |-> FALSE, nullable |-> FALSE, keys |-> keys, value |-> value]
EnumOf(members) ==
  [type |-> "enum", optional |-> FALSE, nullable |-> FALSE, members |-> members]
Optional(s) == [s EXCEPT !.optional = TRUE]
Nullable(s) == [s EXCEPT !.nullable = TRUE]

\* The values: what stands at a position.
Value(kind, text, size) == [kind |-> kind, text |-> text, size |-> size]
String(text) == Value("string", text, 0)
Number       == Value("number", "", 0)
NullValue    == Value("null", "", 0)
Fields       == Value("object", "", 0)
Items(size)  == Value("array", "", size)

Values == [kind : {"string", "number", "null", "object", "array"}, text : Texts, size : Nat]

\* Positions.
Field(k)  == [key |-> k, index |-> 0]
Item(i)   == [key |-> "", index |-> i]
Steps     == [key : Texts, index : Nat]
Positions == Seq(Steps)

Below(t, pos) == {p \in DOMAIN t : IsPrefix(pos, p)}
Part(t, pos)  == [p \in Below(t, pos) |-> t[p]]

\* The body with the value at pos made new, or gone.
Put(t, pos, v) ==
  [p \in (DOMAIN t \ Below(t, pos)) \cup {pos} |-> IF p = pos THEN v ELSE t[p]]
Without(t, pos) == [p \in DOMAIN t \ Below(t, pos) |-> t[p]]

IsBody(t) ==
  /\ IsFiniteSet(DOMAIN t) /\ DOMAIN t \subseteq Positions
  /\ t \in [DOMAIN t -> Values] /\ <<>> \in DOMAIN t
  /\ \A p \in DOMAIN t :
        /\ t[p].kind = "array" => \A i \in 1 .. t[p].size : Append(p, Item(i)) \in DOMAIN t
        /\ p # <<>> =>
             /\ Front(p) \in DOMAIN t
             /\ \/ t[Front(p)].kind = "object" /\ Last(p).index = 0
                \/ /\ t[Front(p)].kind = "array"
                   /\ \E i \in 1 .. t[Front(p)].size : Last(p) = Item(i)

-----------------------------------------------------------------------------
\* The schema of each position: of the part that describes it, or Unknown.

Inner(s, step) ==
  CASE s.type = "object" /\ step.index = 0 ->
         IF step.key \in DOMAIN s.shape THEN s.shape[step.key] ELSE s.catchall
    [] s.type = "record" /\ step.index = 0 -> s.value
    [] s.type = "array" /\ step.index # 0  -> s.element
    [] OTHER                               -> Unknown

Whole(e) == IF e \in PerItem THEN ArrayOf(SchemaOf[e]) ELSE SchemaOf[e]

Declared(e) ==
  LET at[p \in Positions] ==
        IF p = <<>> THEN Whole(e) ELSE Inner(at[Front(p)], Last(p))
  IN  at

\* A field of an object, as opposed to an item, a record's value or the whole.
Named(e, p) ==
  /\ p # <<>> /\ Last(p).index = 0
  /\ Declared(e)[Front(p)].type = "object"
  /\ Last(p).key \in DOMAIN Declared(e)[Front(p)].shape

\* A key that a record's pattern does not match.
Unmatched(e, p) ==
  /\ p # <<>> /\ Last(p).index = 0
  /\ Declared(e)[Front(p)].type = "record"
  /\ Last(p).key \notin Declared(e)[Front(p)].keys

\* The kinds of value a schema speaks of.
KindOf(s) ==
  CASE s.type = "enum" -> "string" [] s.type = "record" -> "object" [] OTHER -> s.type
KindsOf(s) ==
  IF s.type = "union" THEN {KindOf(s.options[i]) : i \in DOMAIN s.options} ELSE {KindOf(s)}

\* Zod's safeParse, as a verdict on one value, the values inside it apart.
Fits(s, v) ==
  \/ s.type = "unknown"
  \/ s.nullable /\ v.kind = "null"
  \/ v.kind \in KindsOf(s) /\ (s.type = "enum" => v.text \in s.members)

Fitting(e, t) ==
  IsBody(t) /\ \A p \in DOMAIN t : Fits(Declared(e)[p], t[p]) /\ ~Unmatched(e, p)

\* The schemas are finite trees, and these are all the nodes of those in use.
\* Never says that an object has no catchall, or refuses one, and every
\* catchall is unknown; no array has arrays for items; and the one union, the
\* value of a udf, leaves open what is inside.
IsNode(s) ==
  /\ {"type", "optional", "nullable"} \subseteq DOMAIN s
  /\ s.optional \in BOOLEAN /\ s.nullable \in BOOLEAN
  /\ s.type \in {"unknown", "never", "string", "number", "enum",
                 "array", "record", "object", "union"}
  /\ s.type = "unknown" => s = Unknown
  /\ s.type = "never"   => s = Never
  /\ s.type = "array"   => s.element \in Schemas \ {Never} /\ s.element.type # "array"
  /\ s.type = "record"  => s.value \in Schemas \ {Never}
  /\ s.type = "object"  => /\ DOMAIN s.shape \subseteq Texts
                           /\ \A k \in DOMAIN s.shape : s.shape[k] \in Schemas \ {Never}
                           /\ "catchall" \in DOMAIN s /\ s.catchall \in {Unknown, Never}
  /\ s.type = "union"   => /\ "options" \in DOMAIN s /\ s.options \in Seq(Schemas)
                           /\ \A i \in DOMAIN s.options :
                                LET o == s.options[i]
                                IN  \/ o.type \in {"string", "number"}
                                    \/ o.type = "array"  /\ o.element = Unknown
                                    \/ o.type = "record" /\ o.value = Unknown

ASSUME SchemasAssumption ==
  /\ {Unknown, Never} \subseteq Schemas
  /\ \A e \in Endpoints : {SchemaOf[e], Whole(e)} \subseteq Schemas \ {Never}
  /\ \A s \in Schemas : IsNode(s)

ASSUME BodiesAssumption ==
  /\ \A e \in Endpoints : Fitting(e, BodyOf[e])
  /\ {"", "undocumented"} \cup UndocumentedKeys \cup UnlistedMembers \subseteq Texts
  /\ MaxDeviations \in Nat /\ MaxReportedDropErrors \in Nat

-----------------------------------------------------------------------------
\* The permissive copy of a schema.

\* (Mutant: no catchall is ever meaningful.)
ObjectCatchall_None(s) == FALSE
ObjectCatchall(s) == s.catchall.type # "never"

\* (Mutant: a null is not tolerated, an absence is.)
LenientField_AbsentOnly(s) == [s EXCEPT !.optional = TRUE]
LenientField(s) == [s EXCEPT !.optional = TRUE, !.nullable = TRUE]

\* One node of it: the parts are copied as they are come to.
AddCatchall(s) ==
  CASE s.type = "object" -> [s EXCEPT !.catchall = Unknown]
    [] s.type = "enum"   -> [s EXCEPT !.type = "string"]
    [] OTHER             -> s

\* The node of the copy that speaks for a position.
Permissive(e, p) ==
  IF p = <<>> THEN AddCatchall(Whole(e))
  ELSE LET s == AddCatchall(Inner(AddCatchall(Declared(e)[Front(p)]), Last(p)))
       IN  IF Named(e, p) THEN LenientField(s) ELSE s

\* safeParse by the copy: every value fits, every key of a record matches, and
\* a field that is not there may be absent.
Accepts(e, t, root) ==
  \A p \in Below(t, root) :
     /\ Fits(Permissive(e, p), t[p])
     /\ ~Unmatched(e, p)
     /\ Declared(e)[p].type = "object" /\ t[p].kind = "object" =>
          \A k \in DOMAIN Declared(e)[p].shape :
             \/ Append(p, Field(k)) \in DOMAIN t
             \/ Permissive(e, Append(p, Field(k))).optional

-----------------------------------------------------------------------------
VARIABLES stage,      \* "idle", "answering" (the server's side), "parsing",
                      \* "cleaning", "validated"
          endpoint,   \* the call under way
          body,       \* what the server sends
          promised,   \* what the caller is to get of it, were nothing dropped
          deviations, \* how body came to differ from a fitting one
          index,      \* the call of parseLenient: the item's index, or 1
          frames,     \* the calls of cleanAndDiagnoseResponse to be made yet
          cleaned,    \* what those that were made have kept
          groups,     \* DiagnosticsCollector.groups
          examined,   \* DiagnosticsCollector.examined
          result      \* what validation has returned and logged

leniencyVars == <<stage, endpoint, body, promised, deviations, index,
                  frames, cleaned, groups, examined, result>>

serverVars  == <<endpoint, body, promised, deviations>>
walkVars    == <<frames, cleaned, groups, examined>>

Nothing  == [x \in {} |-> x]
NoResult == [threw |-> FALSE, rows |-> <<>>, dropped |-> <<>>, lines |-> {}]

LeniencyInit ==
  /\ stage = "idle"
  /\ endpoint \in Endpoints
  /\ body = Nothing /\ promised = Nothing
  /\ deviations = {}
  /\ index = 1
  /\ frames = {} /\ cleaned = Nothing
  /\ groups = Nothing /\ examined = Nothing
  /\ result = NoResult

-----------------------------------------------------------------------------
\* The call, and the server's drift.

\* The client calls; the server starts from a body that fits the schema.
Call(e) ==
  /\ stage = "idle"
  /\ stage' = "answering"
  /\ endpoint' = e
  /\ body' = BodyOf[e]
  /\ promised' = BodyOf[e]
  /\ UNCHANGED <<deviations, index, walkVars, result>>

\* A place nothing has happened to, or below, so far.
Untouched(at) == \A d \in deviations : ~IsPrefix(at, d.at)

Drift(kind, at, text) ==
  /\ Cardinality(deviations) < MaxDeviations
  /\ Untouched(at)
  /\ deviations' = deviations \cup {[kind |-> kind, at |-> at, text |-> text]}
  /\ UNCHANGED <<stage, endpoint, index, walkVars, result>>

Becomes(at, v) ==
  /\ body' = Put(body, at, v)
  /\ promised' = Put(promised, at, v)

Undocumented == String("undocumented")

\* A key the schema does not list, in an object.  Where the schema declares
\* a catchall the caller is to get it, elsewhere not.
UndocumentedKey(p, k) ==
  LET s  == Declared(endpoint)[p]
      at == Append(p, Field(k))
  IN  /\ s.type = "object" /\ body[p].kind = "object"
      /\ k \notin DOMAIN s.shape
      /\ \/ /\ s.catchall = Never
            /\ Drift("stripped", at, "")
            /\ body' = Put(body, at, Undocumented)
            /\ UNCHANGED promised
         \/ /\ s.catchall # Never
            /\ Drift("extra", at, "")
            /\ Becomes(at, Undocumented)

UnlistedMember(p, m) ==
  /\ Declared(endpoint)[p].type = "enum"
  /\ m \notin Declared(endpoint)[p].members
  /\ Drift("widened", p, m)
  /\ Becomes(p, String(m))

NullField(p) ==
  /\ Named(endpoint, p)
  /\ Drift("null", p, "")
  /\ Becomes(p, NullValue)

AbsentField(p) ==
  /\ Named(endpoint, p)
  /\ Drift("absent", p, "")
  /\ body' = Without(body, p)
  /\ promised' = Without(promised, p)

\* Values no leniency covers: one of the wrong kind, a null that is no field,
\* a record's key outside its pattern.
Misfits == {Number, Items(0), NullValue}

WrongValue(p, v) ==
  /\ Declared(endpoint)[p] \notin {Unknown, Never}
  /\ v.kind \notin KindsOf(Declared(endpoint)[p])
  /\ v.kind = "null" => ~Declared(endpoint)[p].nullable /\ ~Named(endpoint, p)
  /\ Drift("wrong", p, "")
  /\ Becomes(p, v)

UnmatchedKey(p, k) ==
  LET at == Append(p, Field(k))
  IN  /\ body[p].kind = "object" /\ Unmatched(endpoint, at)
      /\ Drift("wrong", at, "")
      /\ Becomes(at, Undocumented)

Drifts ==
  /\ stage = "answering"
  /\ \E p \in DOMAIN body :
       \/ \E k \in UndocumentedKeys : UndocumentedKey(p, k) \/ UnmatchedKey(p, k)
       \/ \E m \in UnlistedMembers : UnlistedMember(p, m)
       \/ NullField(p)
       \/ AbsentField(p)
       \/ \E v \in Misfits : WrongValue(p, v)

-----------------------------------------------------------------------------
\* DiagnosticsCollector.  A path is the sequence of the keys that lead to a
\* field, array indexes left out; "within" is {} outside every array and the
\* nearest array's own path, in a singleton, inside one.

\* (Mutant: the size of the last array visited stands.)
TrackExamined_Last(path, size) ==
  examined' = [p \in DOMAIN examined \cup {path} |->
                 IF p = path THEN size ELSE examined[p]]
TrackExamined(path, size) ==
  examined' = [p \in DOMAIN examined \cup {path} |->
                 IF p # path THEN examined[p]
                 ELSE size + IF p \in DOMAIN examined THEN examined[p] ELSE 0]

Group(message, field, value) == [message |-> message, field |-> field, value |-> value]

Counted(group, within) ==
  groups' = [g \in DOMAIN groups \cup {group} |->
               IF g # group THEN groups[g]
               ELSE IF g \in DOMAIN groups
                    THEN [count |-> groups[g].count + 1, within |-> groups[g].within]
                    ELSE [count |-> 1, within |-> within]]

\* (Mutant: the value is no part of a group's identity.)
RecordEvent_ByField(message, field, value, within) ==
  Counted(Group(message, field, ""), within)
RecordEvent(message, field, value, within) ==
  Counted(Group(message, field, value), within)

Line(call, group, count, total) ==
  [call |-> call, message |-> group.message, field |-> group.field,
   value |-> group.value, count |-> count, total |-> total, firstErrors |-> <<>>]

\* One line per group.  Its total is looked up here, after the whole walk.
TotalOf(within) ==
  IF within = {} THEN 1
  ELSE LET path == CHOOSE p \in within : TRUE
       IN  IF path \in DOMAIN examined THEN examined[path] ELSE 1
Flush(call) ==
  {Line(call, g, groups[g].count, TotalOf(groups[g].within)) : g \in DOMAIN groups}

-----------------------------------------------------------------------------
\* cleanAndDiagnoseResponse: the parsed value beside the original schema, one
\* step for each of its calls (those for a wrapper or for a union's branch are
\* one with the call inside) and each key it strips.  What calls are still to
\* be made is what the stack and the loops on it hold.

Frame(schema, pos, path, within) ==
  [schema |-> schema, pos |-> pos, path |-> path, within |-> within]

Children(pos) == {p \in DOMAIN body : p # <<>> /\ Front(p) = pos}

\* The union branch that speaks for a value: the first array option for an
\* array; for an object the option with the most keys among those whose keys
\* are all there, or else the first record.  Otherwise the value passes as it is.
BranchFor(s, kind, keys) ==
  LET Options(type) == {i \in DOMAIN s.options : s.options[i].type = type}
      Full == {i \in Options("object") : DOMAIN s.options[i].shape \subseteq keys}
      Size(i) == Cardinality(DOMAIN s.options[i].shape)
      Widest == {i \in Full : \A j \in Full : Size(j) <= Size(i)}
      Found == CASE kind = "array"  -> Options("array")
                 [] kind = "object" -> IF Full # {} THEN Widest ELSE Options("record")
                 [] OTHER           -> {}
  IN  IF Found = {} THEN s
      ELSE s.options[CHOOSE i \in Found : \A j \in Found : i <= j]

\* The schema a frame's value is cleaned by.
Meant(f) ==
  IF f.schema.type # "union" THEN f.schema
  ELSE BranchFor(f.schema, body[f.pos].kind, {Last(p).key : p \in Children(f.pos)})

\* What is inside is to be cleaned, or examined, in its turn.
Opens(f) ==
  /\ body[f.pos].kind = KindOf(Meant(f))
  /\ \/ Meant(f).type \in {"object", "array"}
     \/ Meant(f).type = "record" /\ Meant(f).value.type # "unknown"

Unlisted(f) ==
  /\ Meant(f).type = "enum" /\ body[f.pos].kind = "string"
  /\ body[f.pos].text \notin Meant(f).members

\* f returns: it keeps its value, and calls for what is inside.
Keeps(f, positions, calls) ==
  /\ cleaned' = [p \in DOMAIN cleaned \cup positions |->
                   IF p \in positions THEN body[p] ELSE cleaned[p]]
  /\ frames' = (frames \ {f}) \cup calls

Strip(f) ==
  /\ f.schema = Never
  /\ RecordEvent("stripped", f.path, "", f.within)
  /\ frames' = frames \ {f}
  /\ UNCHANGED <<cleaned, examined>>

WalkObject(f) ==
  /\ Opens(f) /\ Meant(f).type = "object"
  /\ LET s == Meant(f)
         OfKey(k) == IF k \in DOMAIN s.shape THEN s.shape[k]
                     ELSE IF ObjectCatchall(s) THEN s.catchall ELSE Never
     IN  Keeps(f, {f.pos},
               {Frame(OfKey(Last(p).key), p, Append(f.path, Last(p).key), f.within)
                  : p \in Children(f.pos)})
  /\ UNCHANGED <<groups, examined>>

WalkRecord(f) ==
  /\ Opens(f) /\ Meant(f).type = "record"
  /\ Keeps(f, {f.pos},
           {Frame(Meant(f).value, p, Append(f.path, Last(p).key), f.within)
              : p \in Children(f.pos)})
  /\ UNCHANGED <<groups, examined>>

WalkArray(f) ==
  /\ Opens(f) /\ Meant(f).type = "array"
  /\ TrackExamined(f.path, body[f.pos].size)
  /\ Keeps(f, {f.pos},
           {Frame(Meant(f).element, p, f.path, {f.path}) : p \in Children(f.pos)})
  /\ UNCHANGED groups

Widen(f) ==
  /\ Unlisted(f)
  /\ RecordEvent("widened", f.path, body[f.pos].text, f.within)
  /\ Keeps(f, {f.pos}, {})
  /\ UNCHANGED examined

\* A null, a terminal, what a schema leaves open.
PassAsIs(f) ==
  /\ f.schema # Never /\ ~Opens(f) /\ ~Unlisted(f)
  /\ Keeps(f, Below(body, f.pos), {})
  /\ UNCHANGED <<groups, examined>>

Innermost == CHOOSE f \in frames : \A g \in frames : Len(g.pos) <= Len(f.pos)

CleanAndDiagnose ==
  /\ stage = "cleaning"
  /\ \E f \in frames :
       /\ f = Innermost
       /\ \/ Strip(f)
          \/ WalkObject(f)
          \/ WalkRecord(f)
          \/ WalkArray(f)
          \/ Widen(f)
          \/ PassAsIs(f)
  /\ UNCHANGED <<stage, serverVars, index, result>>

-----------------------------------------------------------------------------
\* BaseResource: what the caller gets, and the lines that are logged.

Root(i) == IF endpoint \in PerItem THEN <<Item(i)>> ELSE <<>>
Size    == IF endpoint \in PerItem THEN body[<<>>].size ELSE 1

Warning(message, count, total, firstErrors) ==
  [call |-> 0, message |-> message, field |-> <<>>, value |-> "", count |-> count,
   total |-> total, firstErrors |-> firstErrors]

\* The first few of the dropped.
Reported(dropped) ==
  IF Len(dropped) <= MaxReportedDropErrors THEN dropped
  ELSE SubSeq(dropped, 1, MaxReportedDropErrors)

\* The body is there: validateResponse takes it whole, validateArrayResponse
\* item by item, if it is an array.
Validate ==
  /\ stage = "answering"
  /\ IF endpoint \in PerItem /\ body[<<>>].kind # "array"
     THEN /\ result' = [result EXCEPT !.lines = {Warning("not an array", 1, 1, <<>>)}]
          /\ stage' = "validated"
     ELSE /\ stage' = "parsing"
          /\ UNCHANGED result
  /\ UNCHANGED <<serverVars, index, walkVars>>

\* parseLenient's safeParse succeeds, and the walk begins.
Parse ==
  /\ stage = "parsing" /\ index <= Size
  /\ Accepts(endpoint, body, Root(index))
  /\ stage' = "cleaning"
  /\ frames' = {Frame(SchemaOf[endpoint], Root(index), <<>>, {})}
  /\ UNCHANGED <<serverVars, index, cleaned, groups, examined, result>>

\* It fails: a single value is refused, an item dropped.
ThrowInvalid ==
  /\ stage = "parsing" /\ index <= Size
  /\ endpoint \notin PerItem
  /\ ~Accepts(endpoint, body, Root(index))
  /\ result' = [result EXCEPT !.threw = TRUE]
  /\ stage' = "validated"
  /\ UNCHANGED <<serverVars, index, walkVars>>

DropItem ==
  /\ stage = "parsing" /\ index <= Size
  /\ endpoint \in PerItem
  /\ ~Accepts(endpoint, body, Root(index))
  /\ result' = [result EXCEPT !.dropped = Append(@, index)]
  /\ index' = index + 1
  /\ UNCHANGED <<stage, serverVars, walkVars>>

\* parseLenient returns what it cleaned, and logs what it found.
Succeed ==
  /\ stage = "cleaning" /\ frames = {}
  /\ result' = [result EXCEPT !.rows = Append(@, cleaned),
                              !.lines = @ \cup Flush(index)]
  /\ cleaned' = Nothing /\ groups' = Nothing /\ examined' = Nothing
  /\ index' = index + 1
  /\ stage' = "parsing"
  /\ UNCHANGED <<serverVars, frames>>

\* Every item was validated: the dropped ones make one line.
Report ==
  /\ stage = "parsing" /\ index > Size
  /\ result' = [result EXCEPT !.lines = @ \cup
       IF result.dropped = <<>> THEN {}
       ELSE {Warning("dropped", Len(result.dropped), Size, Reported(result.dropped))}]
  /\ stage' = "validated"
  /\ UNCHANGED <<serverVars, index, walkVars>>

\* The call has returned or thrown; the client is free to make another.
HandOver ==
  /\ stage = "validated"
  /\ stage' = "idle"
  /\ body' = Nothing /\ promised' = Nothing
  /\ deviations' = {}
  /\ index' = 1
  /\ result' = NoResult
  /\ UNCHANGED <<endpoint, walkVars>>

LeniencyNext ==
  \/ \E e \in Endpoints : Call(e)
  \/ Drifts
  \/ Validate
  \/ Parse
  \/ CleanAndDiagnose
  \/ Succeed
  \/ ThrowInvalid
  \/ DropItem
  \/ Report
  \/ HandOver

LeniencySpec == LeniencyInit /\ [][LeniencyNext]_leniencyVars

-----------------------------------------------------------------------------
\* A reference for validation, from the history of the drift alone.

Calls    == 1 .. Size
Under(i) == {d \in deviations : IsPrefix(Root(i), d.at)}
Spoilt   == {i \in Calls : \E d \in Under(i) : d.kind = "wrong"}
WholeIsWrong == \E d \in deviations : d.kind = "wrong" /\ d.at = <<>>

\* At n, those of the first n numbers that are in S, in order, for n up to m.
Listing(S, m) ==
  LET upto[n \in 0 .. m] == IF n = 0 THEN <<>>
                            ELSE IF n \in S THEN Append(upto[n - 1], n) ELSE upto[n - 1]
  IN  upto
KeptItems    == Listing(Calls \ Spoilt, Size)[Size]
DroppedItems == Listing(Spoilt, Size)[Size]

\* The keys that lead to a position, and the nearest array item it is in.
PathOf[p \in Positions] ==
  IF p = <<>> THEN <<>>
  ELSE IF Last(p).index # 0 THEN PathOf[Front(p)]
  ELSE Append(PathOf[Front(p)], Last(p).key)
ItemOf[p \in Positions] ==
  IF p = <<>> \/ Last(p).index # 0 THEN p ELSE ItemOf[Front(p)]

\* How many items there are, all told, in the arrays at the path of the one
\* nearest around a position; one, where there is none.
ItemsAt(i, path) ==
  {p \in Below(body, Root(i)) \ {Root(i)} :
     /\ Last(p).index # 0
     /\ Declared(endpoint)[Front(p)].type \in {"array", "union"}
     /\ PathOf[p] = path}
ItemsAround(i, at) ==
  IF ItemOf[at] = Root(i) THEN 1
  ELSE Cardinality(ItemsAt(i, PathOf[ItemOf[at]]))

Told(i)    == {d \in Under(i) : d.kind \in {"stripped", "widened"}}
GroupOf(d) == Group(d.kind, PathOf[d.at], d.text)
LinesDue(i) ==
  {Line(i, GroupOf(d), Cardinality({e \in Told(i) : GroupOf(e) = GroupOf(d)}),
        ItemsAround(i, d.at)) : d \in Told(i)}

-----------------------------------------------------------------------------
\* Every variable has its type; a line never counts more than it examined.
LeniencyTypeOK ==
  /\ stage \in {"idle", "answering", "parsing", "cleaning", "validated"}
  /\ endpoint \in Endpoints
  /\ stage = "answering" => IsBody(body)
  /\ IsFiniteSet(deviations) /\ Cardinality(deviations) <= MaxDeviations
  /\ \A d \in deviations :
        /\ d.kind \in {"stripped", "extra", "widened", "null", "absent", "wrong"}
        /\ d.text \in UnlistedMembers \cup {""}
  /\ frames # {} => stage = "cleaning"
  /\ \A f \in frames : f.pos \in DOMAIN body /\ f.schema \in Schemas
  /\ result.threw \in BOOLEAN
  /\ \A l \in result.lines : l.count \in 1 .. l.total

\* Undocumented keys, unlisted enum members, nulls and absences, any number
\* of them and however deep, cost the caller nothing: a single value is
\* refused, and an item dropped, exactly when a value of the wrong kind lies
\* in it, and a wrong value in one item never costs another.
RefusesOnlyWrong ==
  stage = "validated" =>
     IF endpoint \in PerItem
     THEN ~result.threw /\ Len(result.rows) = Len(KeptItems)
     ELSE result.threw <=> Spoilt # {}

\* What the caller gets is what the server sent, in its order, less just the
\* undocumented keys of objects that declare no catchall: no documented
\* field, udf, item of an inner array or alert-context key is lost, none is
\* altered, and none of the undocumented keys comes through.
StripsOnlyUndocumented ==
  stage = "validated" /\ ~result.threw =>
     result.rows = [n \in DOMAIN KeptItems |-> Part(promised, Root(KeptItems[n]))]

\* The diagnostics tell the truth: one line per call, field and value, with
\* as many occurrences as there were, out of as many items as were looked at
\* in all the arrays at that place; nothing of a value that was refused; one
\* warning for all the items dropped, naming the first of them; and one for
\* a body that is no array.
TellsWhatItTolerated ==
  stage = "validated" =>
     result.lines =
       (UNION {LinesDue(i) : i \in Calls \ Spoilt})
       \cup (IF endpoint \in PerItem /\ WholeIsWrong
             THEN {Warning("not an array", 1, 1, <<>>)} ELSE {})
       \cup (IF endpoint \in PerItem /\ DroppedItems # <<>>
             THEN {Warning("dropped", Len(DroppedItems), Size, Reported(DroppedItems))}
             ELSE {})

\* "Unknown keys are stripped and logged at debug (deduped/aggregated per
\* call - a fully-walked 848-device page produces one summarized diagnostic,
\* not 848 lines)" (README.md): a call logs a field's deviation once.
OneLinePerField ==
  \A l, m \in result.lines :
     l.message = m.message /\ l.field = m.field /\ l.value = m.value => l = m

=============================================================================
