CONSTANTS
    Exceptions = {"derived", "torn", "plain"}
    Derived = {"derived"}
    Label <- MCLabel
    Ambiguous <- MCAmbiguous
    Codes = {"E01", "E02", "E09", "E14", "E99"}
    Assignable = {"E01", "E02", "E09", "E14"}
    NoCode = ""
    Replies <- MCReplies
    Batch <- MCBatch
    Resolutions = {"resolved"}
    Exports = {"export"}
    Drafts <- MCDrafts
    Model = "model"
    People = {"meera"}
    Nobody = "nobody"
    Retries = 3
    MaxRuns = 2
    MaxAccepted = 1
SPECIFICATION Spec
INVARIANTS
    NothingMovesUnattested
    DerivedStands
    AnsweredOnceAndRecorded
CHECK_DEADLOCK FALSE
