\* Two host invocations and a browser compete for four revisions.
SPECIFICATION Spec
CONSTANTS
    h1 = h1
    h2 = h2
    w1 = w1
    Hosts = {h1, h2}
    Browsers = {w1}
    None = None
    Times = {0, 1}
    MaxRevision = 4
PROPERTIES
    RelaxedKnowingly
    NothingLost
    ImplementsControls
