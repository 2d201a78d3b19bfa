CONSTANTS
    w1 = w1
    w2 = w2
    Writers = {w1, w2}
    NoWriter = NoWriter
    NoRecord = NoRecord
    Versions = {1, 2}
    Times = {1, 2}
SPECIFICATION FairSpec
INVARIANTS CopyIsFresh LastUpdateMatches AcknowledgedCheck NeverTorn
PROPERTIES KeepsContract WritersReturn
