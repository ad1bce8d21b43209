\* Violation: a projection error of the body surfaces as another error.
SPECIFICATION Spec
CONSTANTS
    Writers = {w1}
    Readers = {r1}
    Dirs = {d1, d2}
    Files = {f1}
    Dbs = {b1, b2}
    InitialDir = d1
    InitialDb = b1
    NoFile = NoFile
    MaxAttempts = 2
    MaxCommits = 2
INVARIANT ProjectionErrorsSurface
