----------------------------- MODULE MCLeniency -----------------------------
(* Three calls: devices, validated item by item, with enums and a udf record; *)
(* one alert, whose context keeps what it does not list; and the answer to a  *)
(* quick job, with arrays inside the items of an array.                       *)
EXTENDS Leniency

\* Bodies are put together from the values inside them.
Leaf(v) == [p \in {<<>>} |-> v]
Within(v, steps, inside(_)) ==
  [p \in {<<>>} \cup UNION {{<<x>> \o q : q \in DOMAIN inside(x)} : x \in steps} |->
     IF p = <<>> THEN v ELSE inside(Head(p))[Tail(p)]]
Obj(fields) ==
  LET inside(x) == fields[x.key]
  IN  Within(Fields, {Field(k) : k \in DOMAIN fields}, inside)
Arr(items) ==
  LET inside(x) == items[x.index]
  IN  Within(Items(Len(items)), {Item(i) : i \in DOMAIN items}, inside)

\* What a udf may hold.
UdfSchema == Nullable(UnionOf(<<Str, Num, RecordOf({"any"}, Unknown), ArrayOf(Unknown)>>))
UdfsSchema == Optional(RecordOf({"udf1"}, UdfSchema))
ClassSchema == Optional(EnumOf({"device"}))
DeviceSchema ==
  Object([uid |-> Str, deviceClass |-> ClassSchema, udf |-> UdfsSchema], Never)
Device(udf1) ==
  Obj([uid |-> Leaf(String("d")), deviceClass |-> Leaf(String("device")),
       udf |-> Obj([udf1 |-> udf1])])

PrioritySchema == Optional(EnumOf({"Low"}))
ContextSchema  == Optional(Object([class |-> Optional(Str)], Unknown))
TypeSchema     == Optional(EnumOf({"EMAIL"}))
ActionSchema   == Object([actionType |-> TypeSchema], Never)
ActionsSchema  == Optional(ArrayOf(ActionSchema))
AlertSchema ==
  Object([priority |-> PrioritySchema, alertContext |-> ContextSchema,
          responseActions |-> ActionsSchema], Never)
Email == Obj([actionType |-> Leaf(String("EMAIL"))])
Alert == Obj([priority        |-> Leaf(String("Low")),
              alertContext    |-> Obj([class |-> Leaf(String("ping"))]),
              responseActions |-> Arr(<<Email, Email>>)])

VariableSchema   == Object([name |-> Optional(Str)], Never)
VariablesSchema  == Optional(ArrayOf(VariableSchema))
ComponentSchema  == Object([variables |-> VariablesSchema], Never)
ComponentsSchema == Optional(ArrayOf(ComponentSchema))
QuickJobSchema   == Object([jobComponents |-> ComponentsSchema], Never)
Variable == Obj([name |-> Leaf(String("v"))])
QuickJob == Obj([jobComponents |->
                   Arr(<<Obj([variables |-> Arr(<<Variable, Variable>>)]),
                         Obj([variables |-> Arr(<<Variable>>)])>>)])

MCSchemas ==
  {Unknown, Never, Str, Optional(Str), UdfSchema, UdfsSchema, ClassSchema, DeviceSchema,
   ArrayOf(DeviceSchema), PrioritySchema, ContextSchema, TypeSchema, ActionSchema,
   ActionsSchema, AlertSchema, VariableSchema, VariablesSchema, ComponentSchema,
   ComponentsSchema, QuickJobSchema} \cup {UdfSchema.options[i] : i \in 1 .. 4}
MCTexts    == STRING
MCSchemaOf == [devices |-> DeviceSchema, alert |-> AlertSchema, job |-> QuickJobSchema]
MCBodyOf   == [devices |-> Arr(<<Device(Leaf(String("secret"))),
                                 Device(Arr(<<Leaf(Number)>>)),
                                 Device(Obj([any |-> Leaf(Number)]))>>),
               alert   |-> Alert,
               job     |-> QuickJob]
=============================================================================
