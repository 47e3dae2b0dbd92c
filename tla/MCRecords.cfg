SPECIFICATION RecordsSpec
CONSTANTS
    Scopes = {1, 2, 3}
    MaxFaults = 1
    MaxEdits = 3
    Blank = blank
    Segments = {a, b}
    Shapes <- MCShapes
    CallStatuses = {200, 400, 404, 500}
    MaxSegments = 3
    MaxObjects = 2
    StateNames = {"size", "capacity", "name", "label"}
    Contents = {"1", "word", "blank"}
    Numerals = {"1"}
    Blanks = {"blank"}
    Histories <- MCHistories
INVARIANTS
    NamesLeadToTheObject
    NothingSilentlyLost
    StoredFitsSchema
    JumpsLikeSteps
    SurvivesUpgrade
PROPERTIES
    UpdateActsOnWhatItSaw
    PinHidesNothing
    LinksSettle
    DropsOnlyWhatIsGone
\* Once the configurations and the backend rest there is nothing to apply.
CHECK_DEADLOCK FALSE
