CONSTANTS
    Callers = {c1}
    NoTime = NoTime
    MinInterval <- MCMinInterval
    MaxTime <- MCMaxTime

SPECIFICATION Spec

PROPERTY LandedSpacing
