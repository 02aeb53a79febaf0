CONSTANTS
    c1 = c1
    c2 = c2
    r1 = r1
    Closers = {c1, c2}
    Readers = {r1}
    Bodies <- MCBodies
    MaxCloses = 3
    MaxCrashes = 1
SPECIFICATION Spec
PROPERTIES
    ImplementsAtomicRecord
CHECK_DEADLOCK FALSE
