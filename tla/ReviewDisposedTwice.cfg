CONSTANTS
    a1 = a1
    a2 = a2
    x = x
    y = y
    z = z
    Actors = {a1, a2}
    Items <- MCItems
    Blocking = {x}
    Reclassifiable = {x}
    Bookable = {y}
    Value <- MCValue
    Ceiling = 2
    Budget = 3
    BooksBlocked = FALSE
    Endings = {"write_off", "chase"}
    None = None
    MaxEvents = 4
SPECIFICATION Spec
INVARIANTS
    DisposedOnce
CHECK_DEADLOCK FALSE
