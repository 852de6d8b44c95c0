SPECIFICATION Spec
CONSTANTS
    MaxBody = 3
    Halves = {2}
    Bounce = 2
    MaxCalls = 1
INVARIANT
    OkMeansOnCard
