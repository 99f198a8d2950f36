CONSTANTS
    FpScale <- MCFpScale
    U64Max <- MCU64Max
    U128Max <- MCU128Max
    MaxTimeElapsed <- MCMaxTimeElapsed

SPECIFICATION Spec

INVARIANT DignityMonotone
