CONSTANTS
    get = get
    scan = scan
    Reqs <- ReqSet
    methodOf <- Methods
    MaxConns = 2
    Modes = {"reconnect", "once", "post"}
SPECIFICATION Spec
INVARIANTS
    NothingTwice
PROPERTIES
    ClientGoesOn
CHECK_DEADLOCK FALSE
