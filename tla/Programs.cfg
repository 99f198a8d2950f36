CONSTANTS
    u1 = u1
    Authority = Authority
    k1 = k1
    k2 = k2
    Forged = Forged
    h1 = h1
    h2 = h2
    z1 = z1
    n1 = n1
    n2 = n2
    b1 = b1
    OracleKey = OracleKey
    s1 = s1
    s2 = s2
    s3 = s3
    NoTime = NoTime

SPECIFICATION Spec

INVARIANT TypeOK
INVARIANT NoReplay
INVARIANT OneTicketPerNonce
INVARIANT PriceRisesWithSales
INVARIANT SetMirrorsQueue
PROPERTY ImplementsDedupeSpec
