CONSTANTS
    b1 = b1
    n1 = n1
    n2 = n2
    OracleKey = OracleKey
    Forged = Forged
    Buyers = {b1}
    Nonces = {n1, n2}
    TierLevels <- MCTierLevels
    Expiries <- MCExpiries
    TargetRates <- MCTargetRates
    StartTimes <- MCStartTimes
    BasePrices <- MCBasePrices
    MaxClock <- MCMaxClock
    MaxAttestations <- MCMaxAttestations
    FpScale <- MCFpScale
    U64Max <- MCU64Max
    U128Max <- MCU128Max

SPECIFICATION Spec



INVARIANT ChargedAtLeastVrgda
