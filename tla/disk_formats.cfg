CONSTANTS
    h1 = h1
    h2 = h2
    n1 = n1
    n2 = n2
    Procs = {p1}
    Hash = {h1}
    Recs = {r1, r2, Empty, Cut, Stub}
    Written = {r1, r2}
    Empty = Empty
    Cut = Cut
    Stub = Stub
    Left = n2
    Namespaces = {n1, n2}
    NsOf <- MCNsOf
    Formats = {".yaml", ".json"}
    IOFaults = TRUE
    None = None
SPECIFICATION PSpec
INVARIANT SyncedIsServed
INVARIANT FiledRight
PROPERTY SessionExact
