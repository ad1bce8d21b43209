\* Runs and writers end, and nothing more happens: no deadlock check.
SPECIFICATION EitherSpec
CONSTANTS
    k1 = k1
    p = p
    vA = vA
    vB = vB
    NoFact = NoFact
    Variants = {vA, vB}
    Payloads = {p}
    Generations <- TwoReleases
    VariantsOf <- ShrinkingVariants
    SchemaOf <- SameSchema
    MetaOf <- MovedMeta
    EmptyAllowed = TRUE
    Runs = {r1, r2}
    Keys = {k1}
    AppendOnly = TRUE
    Fetches <- AppendFetches
    Writers = {r1, r2}
    Readers = {reader}
    Dirs = {d1, d2}
    Files = {f1, f2}
    Dbs = {b1, b2}
    InitialDir = d1
    InitialDb = b1
    NoFile = NoFile
    MaxAttempts = 2
    MaxCommits = 2
    n1 = n1
    n2 = n2
    Threads = {r1, r2, t3}
    Nodes = {n1, n2}
    Snapshots <- MCSnapshots
    NoNode = NoNode
    MaxConcurrency = 2
    MaxRequests = 1
    Window = 2
    Timeout = 2
    Cooldown = 1
SYMMETRY Symmetry
CHECK_DEADLOCK FALSE
INVARIANTS FactsBacked CleanRunKeepsItsRows ReceiptsTellAll AuthorityIsKept LeaseConservation StartsAreSound
PROPERTIES AppendOnlyImmutable EndedRunsAreFinal NoReplay
