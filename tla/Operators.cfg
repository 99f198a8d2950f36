SPECIFICATION Spec

INVARIANT TypeOK
INVARIANT VelocityMonotone
INVARIANT PriceFloorWithoutLoyalty
INVARIANT DignityMonotoneUnderHeat
INVARIANT EmittedEventDecoded
INVARIANT DecodeMatchesReference
INVARIANT AdminHashReadBack
INVARIANT EndingMonotone
INVARIANT ShieldAcceptsOnlyOracleSigned
INVARIANT TicketAcceptsOnlyOracleSigned
INVARIANT MetricsMatchSpec
INVARIANT GrowthFollowsTrend
INVARIANT AssessmentConsistent
INVARIANT TierMonotone
