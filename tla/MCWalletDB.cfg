SPECIFICATION Spec
CONSTANTS
    User = {u1, u2}
    MaxUpdates = 3
    MaxRewrites = 2
INVARIANT HandleLive
INVARIANT LogNotNeeded
INVARIANT KeysSomewhere
PROPERTY SelfContained
