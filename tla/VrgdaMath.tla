------------------------------ MODULE VrgdaMath ------------------------------
(***************************************************************************)
(* calculate_vrgda_quote of src/programs/unforgiven_v2/src/unforgiven_math.rs *)
(* as operators.  Every u128 step of the code is a checked operation whose *)
(* None ends in infinity_quote; they are kept, with the widths scaled: the *)
(* u128 and u64 maxima and the fixed-point scale (10^9 in the code) are    *)
(* constants, so that the overflow paths are reached with small inputs.    *)
(* The basis-point constants are the code's own.  None is -1: every u128   *)
(* value is non-negative.                                                  *)
(***************************************************************************)
EXTENDS Integers

CONSTANTS
    FpScale,         \* FIXED_POINT_SCALE
    U64Max,          \* u64::MAX
    U128Max,         \* u128::MAX
    MaxTimeElapsed   \* MAX_TIME_ELAPSED_SECS

ASSUME /\ FpScale \in Nat \ {0}
       /\ U64Max \in Nat /\ U128Max \in Nat /\ U64Max <= U128Max
       /\ MaxTimeElapsed \in Nat

BpsScale                == 10000
LoyaltyBaseBps          == 10000
LoyaltyThreshold        == 70
LoyaltyPointDiscountBps == 30
BlockMultiplier         == 100
BotPriceCapMultiplier   == 120

None == -1

Max1(x) == IF x < 1 THEN 1 ELSE x
MinOf(a, b) == IF a < b THEN a ELSE b

\* u128 checked_mul / checked_div / saturating_mul; None propagates as `?`.
CheckedMul(a, b) ==
    IF a = None \/ b = None THEN None
    ELSE IF b # 0 /\ a > U128Max \div b THEN None ELSE a * b
CheckedDiv(a, b) ==
    IF a = None \/ b = 0 THEN None ELSE a \div b
SaturatingMul(a, b) ==
    IF b # 0 /\ a > U128Max \div b THEN U128Max ELSE a * b

\* i128 division rounds toward zero.
TruncDiv(a, b) == IF a >= 0 THEN a \div b ELSE -((-a) \div b)

\* The square-and-multiply loop of pow_fixed.
RECURSIVE PowLoop(_, _, _)
PowLoop(result, base, exponent) ==
    IF exponent = 0 THEN result
    ELSE LET r == IF exponent % 2 = 1
                  THEN CheckedDiv(CheckedMul(result, base), FpScale)
                  ELSE result
             e == exponent \div 2
             b == IF e > 0 THEN CheckedDiv(CheckedMul(base, base), FpScale)
                  ELSE base
         IN  IF r = None \/ b = None THEN None ELSE PowLoop(r, b, e)

PowFixed(base, exponent) == PowLoop(FpScale, base, exponent)

\* compute_exponential_price: None on any overflow.
ComputeExponentialPrice(basePrice, velocity, time) ==
    IF time = 0 \/ velocity = 0 THEN Max1(basePrice)
    ELSE LET growth == BpsScale + velocity
         IN  IF growth <= 0 THEN 1
             ELSE LET step  == CheckedDiv(CheckedMul(growth, FpScale), BpsScale)
                      gf    == IF step = None THEN None ELSE PowFixed(step, time)
                      price == CheckedDiv(CheckedMul(Max1(basePrice), gf), FpScale)
                  IN  IF price = None THEN None ELSE Max1(price)

Quote(final, infinite, blocked, velocity) ==
    [ok |-> TRUE, err |-> "none", final |-> final, infinite |-> infinite,
     blocked |-> blocked, velocity |-> velocity]

\* Mutant: the infinite quote carries a zero price.
InfinityQuoteZero(velocity) == Quote(0, TRUE, TRUE, velocity)

InfinityQuote(velocity) == Quote(U64Max, TRUE, TRUE, velocity)

Reject(e) == [ok |-> FALSE, err |-> e, final |-> 0, infinite |-> FALSE,
              blocked |-> FALSE, velocity |-> 0]

\* Mutant: the heat weight grows with the score instead of its distance.
HeatWeightFromScore(dignity) == dignity * dignity

\* `(100 - dignity)^2`, the heat weight in basis points.
HeatWeight(dignity) == (100 - dignity) * (100 - dignity)

\* Mutant: the loyalty discount starts at score 0.
LoyaltyDiscountNoThreshold(dignity) ==
    LoyaltyBaseBps - dignity * LoyaltyPointDiscountBps

\* `10_000 - 30 * dignity.saturating_sub(70)`
LoyaltyDiscount(dignity) ==
    LoyaltyBaseBps
      - (IF dignity > LoyaltyThreshold THEN dignity - LoyaltyThreshold ELSE 0)
        * LoyaltyPointDiscountBps

\* Mutant: the capped price is narrowed to u64 without the try_from check.
PriceQuoteUnchecked(basePrice, expPrice, dignity, velocity) ==
    LET discounted == CheckedDiv(CheckedMul(expPrice, LoyaltyDiscount(dignity)),
                                 LoyaltyBaseBps)
        capped     == MinOf(Max1(discounted),
                            SaturatingMul(basePrice, BotPriceCapMultiplier))
    IN  IF discounted = None
        THEN InfinityQuote(velocity)
        ELSE Quote(Max1(capped), FALSE,
                   Max1(capped) >= SaturatingMul(basePrice, BlockMultiplier),
                   velocity)

\* The quote once the exponential price is known: loyalty discount, the
\* 120x cap, the u64 conversion and the 100x block threshold.
PriceQuote(basePrice, expPrice, dignity, velocity) ==
    LET discounted == CheckedDiv(CheckedMul(expPrice, LoyaltyDiscount(dignity)),
                                 LoyaltyBaseBps)
        capped     == MinOf(Max1(discounted),
                            SaturatingMul(basePrice, BotPriceCapMultiplier))
    IN  IF discounted = None \/ capped > U64Max
        THEN InfinityQuote(velocity)
        ELSE Quote(Max1(capped), FALSE,
                   Max1(capped) >= SaturatingMul(basePrice, BlockMultiplier),
                   velocity)

\* calculate_vrgda_quote on a VrgdaInput [price, velocity, time, dignity].
CalculateVrgdaQuote(in) ==
    IF in.dignity > 100 THEN Reject("InvalidDignityScore")
    ELSE IF in.velocity <= -BpsScale THEN Reject("InvalidSalesVelocity")
    ELSE IF in.time > MaxTimeElapsed THEN Reject("InvalidTimeElapsed")
    ELSE LET base     == Max1(in.price)
             velocity == TruncDiv(in.velocity * HeatWeight(in.dignity), BpsScale)
             expPrice == ComputeExponentialPrice(base, velocity, in.time)
         IN  IF expPrice = None
             THEN InfinityQuote(velocity)
             ELSE PriceQuote(base, expPrice, in.dignity, velocity)
=============================================================================
