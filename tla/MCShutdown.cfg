SPECIFICATION ActiveSpec
CONSTANTS
    Stopper = {s1, s2, s3}
    Client = {c1, c2}
    Timer = {t1}
INVARIANT HandlersGone
INVARIANT OneStops
PROPERTY StopsEventually
