SPECIFICATION LeniencySpec
CONSTANTS
    Endpoints = {"devices", "alert", "job"}
    SchemaOf <- MCSchemaOf
    Schemas <- MCSchemas
    BodyOf <- MCBodyOf
    Texts <- MCTexts
    PerItem = {"devices"}
    UndocumentedKeys = {"extra"}
    UnlistedMembers = {"new1", "new2"}
    MaxDeviations = 2
    MaxReportedDropErrors = 2
INVARIANTS
    OneLinePerField
