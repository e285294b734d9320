CONSTANTS
    h1 = h1
    h2 = h2
    q1 = q1
    q2 = q2
    q3 = q3
    q4 = q4
    Reqs = {q1, q2, q3, q4}
    Hash = {h1}
    HashOf <- MCHashOf
    Tunnelled = {}
    Stuck = {}
    Modes = {"auto"}
    IOFaults = FALSE
    None = None
SPECIFICATION Spec
PROPERTY ReplaysDeterministic
