----------------------------- MODULE MCVrgdaMath -----------------------------
(* calculate_vrgda_quote over every input of a grid that reaches each     *)
(* rejection, the zero-time and zero-velocity shortcuts, the fixed-point  *)
(* overflow, the 120x cap, the u64 conversion and the loyalty threshold.  *)
(* The widths are scaled: u64::MAX = 2^16 - 1, u128::MAX = 2^31 - 1 (the  *)
(* largest integer TLC holds), fixed point 10^3, 20 s for 30 days.        *)
EXTENDS VrgdaMath

VARIABLE input

MCFpScale == 1000
MCU64Max == 65535
MCU128Max == 2147483647
MCMaxTimeElapsed == 20

Prices     == {0, 1, 100, MCU64Max}
Velocities == {-10000, -9999, -5000, -1, 0, 1, 5000, 9000}
Times      == {0, 1, 2, 12, 20, 21}
Dignities  == {0, 50, 70, 71, 90, 100, 101}

Inputs == [price : Prices, velocity : Velocities, time : Times,
           dignity : Dignities]

Init == input \in Inputs
Next == UNCHANGED input
Spec == Init /\ [][Next]_input

Q(in) == CalculateVrgdaQuote(in)

\* Every quote is a rejection or a price that fits in u64.
TypeOK ==
    /\ input \in Inputs
    /\ Q(input).final \in 0..U64Max
    /\ Q(input).ok => Q(input).final >= 1

\* More sales velocity never lowers the quote (the VRGDA's premise), through
\* the fixed-point power, its overflow to infinity, the cap and the u64
\* conversion.
VelocityMonotone ==
    \A v \in Velocities :
        LET other == [input EXCEPT !.velocity = v]
        IN  (v > input.velocity /\ Q(input).ok /\ Q(other).ok)
            => Q(input).final <= Q(other).final

\* Under non-negative heat a caller without loyalty (score <= 70) never
\* pays less than the initial price: truncation in pow_fixed never pulls
\* the growth factor below one.
PriceFloorWithoutLoyalty ==
    (Q(input).ok /\ input.velocity >= 0 /\ input.dignity <= LoyaltyThreshold)
        => Q(input).final >= Max1(input.price)

\* Under the same non-negative heat a higher dignity score never pays more
\* (tests dignity_score_reduces_price_monotonically_under_same_heat and
\* same_heat_higher_dignity_yields_lower_price).
DignityMonotoneUnderHeat ==
    \A d \in Dignities :
        LET other == [input EXCEPT !.dignity = d]
        IN  (d > input.dignity /\ input.velocity >= 0
               /\ Q(input).ok /\ Q(other).ok)
            => Q(other).final <= Q(input).final

\* The same for any sales velocity the program accepts, negative included.
DignityMonotone ==
    \A d \in Dignities :
        LET other == [input EXCEPT !.dignity = d]
        IN  (d > input.dignity /\ Q(input).ok /\ Q(other).ok)
            => Q(other).final <= Q(input).final
=============================================================================
