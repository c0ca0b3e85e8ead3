SPECIFICATION Spec
CONSTANTS
    Types = {"lambda", "s3"}
    Required = {owner}
    Others = {team}
    Marker = marker
    Limit = 2
    Top = 3
    None = None
    MaxEdits = 2
    MaxFaults = 2
INVARIANTS
    TypeOK
PROPERTIES
    HumanSettingsSurvive
    UndoRestores
CHECK_DEADLOCK FALSE
