SPECIFICATION LeniencySpec
CONSTANTS
    Endpoints = {"devices", "alert", "job"}
    SchemaOf <- MCSchemaOf
    Schemas <- MCSchemas
    BodyOf <- MCBodyOf
    Texts <- MCTexts
    PerItem = {"devices"}
    UndocumentedKeys = {"extra"}
    UnlistedMembers = {"new1", "new2"}
    MaxDeviations = 3
    MaxReportedDropErrors = 2
INVARIANTS
    LeniencyTypeOK
    RefusesOnlyWrong
    StripsOnlyUndocumented
    TellsWhatItTolerated
