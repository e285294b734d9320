CONSTANTS
    h1 = h1
    h2 = h2
    q1 = q1
    q2 = q2
    q3 = q3
    q4 = q4
    Reqs = {q1, q2, q3}
    Hash = {h1, h2}
    HashOf <- MCHashOf
    Tunnelled = {q3}
    Stuck = {}
    Modes = {"record", "replay", "auto"}
    IOFaults = TRUE
    None = None
SPECIFICATION Spec
INVARIANT TypeOK
INVARIANT PlainHitsAreWhole
INVARIANT HitsAreRecordings
PROPERTY ReplayIsPure
PROPERTY NoFalseMiss
