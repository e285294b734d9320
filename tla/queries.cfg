CONSTANTS
    h1 = h1
    h2 = h2
    n1 = n1
    Procs = {p1, p2}
    Hash = {h1, h2}
    Recs = {rOld, rNew}
    Old = {rOld}
    Namespaces = {n1}
    NsOf <- MCNsOf
    Formats = {".yaml"}
    IOFaults = FALSE
    None = None
SPECIFICATION QSpec
INVARIANT TypeOK
INVARIANT LockHeld
INVARIANT QTypeOK
INVARIANT NamespaceExact
INVARIANT RestartTransparent
PROPERTY DeleteRemoves
PROPERTY QueryComplete
PROPERTY PruneDone
PROPERTY ImplementsStore
