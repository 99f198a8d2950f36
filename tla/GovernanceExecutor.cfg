CONSTANTS
    Callers = {c1, c2}
    NoTime = NoTime
    MinInterval <- MCMinInterval
    MaxTime <- MCMaxTime

SPECIFICATION Spec

INVARIANT TypeOK
INVARIANT SingleInFlight
PROPERTY ConfirmedSpacing
PROPERTY InFlightCleared
