CONSTANTS
    p1 = p1
    p2 = p2
    b1 = b1
    b2 = b2
    Procs = {p1, p2}
    Writers = {p1, p2}
    Builds = {b1, b2}
    NumFiles = 2
    MaxFaults = 2
    None = None
    Torn = Torn
    NoDir = NoDir
    Nobody = Nobody
SPECIFICATION Spec
SYMMETRY Symmetry
INVARIANTS AtomicRead PublishedWhole PutLasts UnlockedPutsAgree
PROPERTIES KeepsStore
