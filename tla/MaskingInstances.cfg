SPECIFICATION Spec
CONSTANTS
    Objects = {meta, o1, o2}
    Meta = meta
    Text = Text
    BigInt = BigInt
    Null = Null
    Kinds = {"plain", "bare", "array", "instance"}
    UdfKey = udf1
    OtherKeys = {a, b}
    Index = i0
    MaxLinks = 2
SYMMETRY Symmetry
INVARIANTS
    RedactsAtAnyDepth
