CONSTANTS
    h1 = h1
    q1 = q1
    q2 = q2
    q3 = q3
    Reqs = {q1, q2, q3}
    Hash = {h1}
    HashOf <- MCHashOf
    Tunnelled = {q2}
    Stuck = {q3}
    Modes = {"auto"}
    IOFaults = FALSE
    None = None
SPECIFICATION SSpec
INVARIANT EndingOK
PROPERTY AllAnswered
PROPERTY GracefulLosesNothing
PROPERTY StoreOutlivesRequests
PROPERTY Stops
