CONSTANTS
    s1 = s1
    s2 = s2
    Sigs = {s1, s2}
    ClassOf <- MCClassOf
    NoTime = NoTime
    NoEnvelope = NoEnvelope
    RigEnabled = TRUE
    Capacity <- MCCapacity
    MaxDeliveries <- MCMaxDeliveries
    TTL <- MCTTL
    WindowLen <- MCWindowLen
    MinSamples <- MCMinSamples
    MinInterval <- MCMinInterval
    MaxTime <- MCMaxTime

SPECIFICATION Spec

PROPERTY ProducerReleased
