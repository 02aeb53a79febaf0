CONSTANTS
    unread = unread
    nofigure = nofigure
    undeclared = undeclared
    Parts = {"tan", "section", "quarter"}
    Unread = unread
    NoFigure = nofigure
    Undeclared = undeclared
    Window <- MCWindow
    Budget <- MCBudget
    Anchors = "government"
    Groups = "books"
    ByDifference <- MCByDifference
    ByAbsence <- MCByAbsence
    Unexplained = "E14"
    Tolerance = 5
    Limit = 4
    Digest <- MCDigest
    Unfiled = "U"
    Scenes <- MCScenes
    Strangers <- MCStrangers
    MaxExports = 1
SPECIFICATION BreaksSpec
INVARIANTS
    LeftoversRaisedOnce
    VerdictIsDecisive
    VerifiedMissesNothing
PROPERTIES
    BreaksKeepTheirNames
CHECK_DEADLOCK FALSE
