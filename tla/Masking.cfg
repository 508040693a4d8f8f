SPECIFICATION Spec
CONSTANTS
    Objects = {meta, o1, o2}
    Meta = meta
    Text = Text
    BigInt = BigInt
    Null = Null
    Kinds = {"plain", "bare", "array", "instance"}
    UdfKey = udf1
    OtherKeys = {a, b}
    Index = i0
    MaxLinks = 3
SYMMETRY Symmetry
INVARIANTS
    TypeOK
    RedactsUdf
    KeepsTheRest
