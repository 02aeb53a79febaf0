CONSTANTS
    None = None
    Anchors = {"a1", "a2", "a3"}
    Others = {"g1", "g2", "g3"}
    External <- MCExternal
    Amount <- MCAmount
    Decisions <- MCDecisions
    Endings = {"book", "chase", "write_off"}
    Bookable = {"x2"}
    Ceiling = 1
    BudgetRatio = 50
    Key = "approver"
    MaxReview = 2
    Weight <- MCWeight
    ResultBudget = 3
    Limits <- MCLimits
SPECIFICATION DeskSpec
INVARIANTS
    RecordSaysWhatWasDecided
    ViewNeverFlatters
    
    SignatureCoversClose
    PagesTileTheRecord
    
CHECK_DEADLOCK FALSE
