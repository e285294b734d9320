CONSTANTS
    h1 = h1
    h2 = h2
    n1 = n1
    Procs = {p1}
    Hash = {h1, h2}
    Recs = {r1, r2}
    Namespaces = {n1}
    NsOf <- MCNsOf
    Formats = {".yaml", ".json"}
    IOFaults = FALSE
    None = None
SPECIFICATION Spec
INVARIANT RestartTransparent
