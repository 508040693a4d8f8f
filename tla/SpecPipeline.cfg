SPECIFICATION Spec
CONSTANTS
    Published <- MCPublished
    ExportedTwice <- MCTwice
    AliasForms = {TRUE, FALSE}
    Refreshes = 1
INVARIANTS
    TypeOK
    PatchedWhole
    EnumsOnTheirSide
    TreeIsOfThisDocument
