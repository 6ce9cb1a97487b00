SPECIFICATION Spec
CONSTANTS
    PageMax = 3
    PageDefault = 2
    StringsCap = 3
    SearchCap = 2
    SearchPoll = 2
    TraceNodes = 4
    TraceEdges = 5
    Poll = 2
    SurveyFuncs = 3
    SurveyStrings = 3
    SurveyTop = 2
    SurveyRoots = 2
    Limits <- CallLimits
    Cuts = {0, 2}
    Depths = {1, 2, 3}
    Glances = {1, 3, 4}
    SigPoll = 2
    MaxSites = 3
    MaxRange = 4
    MaxPatternLen = 1000
    BodyLimit = 3
    OutputCap = 2
    SessionTtl = 2
    SessionMax = 2
    AuditValue = 2
    AuditBlob = 5
    Underscored = {"_meta", "_c"}
    MaxInstalls = 3
    MaxEvents = 3
    EventsKept = 2
    Slots = 3
    Known = {1, 2}
    Conditions = {"none", "x"}
    Languages = {"none", "IDC", "Python"}
    PatchCap = 3
    PatchWindow = 2
    Segments <- TwoSegments
INVARIANTS
    ListsSound
    GraphsSound
    PatternsSound
    RequestsSound
    HooksAreThose
    EditsAsTold
CHECK_DEADLOCK FALSE
