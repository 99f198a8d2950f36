----------------------------- MODULE AttackScorer -----------------------------
(***************************************************************************)
(* judge_attack_probability of src/crates/sentinel/src/main.rs after its   *)
(* memberships are computed: the blend of dimension A, the verified-      *)
(* absence boost of B, the low-entropy bonus of C, the weighted vote, the *)
(* composite bonus, the edge noise and clamp, the tiering and the Severe  *)
(* override.  The f64 values are exact rationals [num, den].  What feeds *)
(* them is an input: the sigmoid memberships (membership_high /           *)
(* membership_low of the RMS acceleration, the guest count, the scissor   *)
(* gap and the timestamp entropy against the fuzzy thresholds), the two   *)
(* comparisons verified_disappeared and "entropy < 0.6 * threshold", and  *)
(* fuzzy_unit_noise in [-1, 1].  guest_spike is not an input: guests >=   *)
(* threshold exactly when membership_high of the count is >= 1/2.         *)
(***************************************************************************)
EXTENDS Integers

RECURSIVE Gcd(_, _)
Gcd(x, y) == IF y = 0 THEN x ELSE Gcd(y, x % y)

\* The rational n / d (d > 0) in lowest terms.
R(n, d) == LET g == Gcd(IF n < 0 THEN -n ELSE n, d)
           IN  [num |-> n \div g, den |-> d \div g]
Add(p, q) == R(p.num * q.den + q.num * p.den, p.den * q.den)
Mul(p, q) == R(p.num * q.num, p.den * q.den)
Leq(p, q) == p.num * q.den <= q.num * p.den
Lt(p, q)  == p.num * q.den < q.num * p.den
RMax(p, q) == IF Leq(p, q) THEN q ELSE p
RMin(p, q) == IF Leq(p, q) THEN p ELSE q
Clamp01(p) == RMax(R(0, 1), RMin(p, R(1, 1)))

Tiers == {"Observe", "Mild", "Severe"}

\* Dimension A: 0.75 * membership_high(acceleration_rms) + 0.25 *
\* guest_pressure, clamped to [0, 1].
DimensionA(in) == Clamp01(Add(Mul(R(3, 4), in.accel), Mul(R(1, 4), in.guestPressure)))

\* guest_spike: guest_requests >= guest_request_threshold.
GuestSpike(in) == Leq(R(1, 2), in.guestPressure)

\* Dimension B: membership_high(scissor_gap), raised to at least 0.94 when
\* verified users vanished during a guest spike.
DimensionB(in) ==
    IF in.verifiedDisappeared /\ GuestSpike(in)
    THEN RMax(in.gap, R(94, 100))
    ELSE in.gap

\* Dimension C: membership_low(timestamp_entropy), plus 0.1 capped at 1
\* when the entropy is below 60% of the threshold.
DimensionC(in) ==
    IF in.veryLowEntropy THEN RMin(Add(in.lowEntropy, R(1, 10)), R(1, 1))
    ELSE in.lowEntropy

\* The weighted mean over max(weight_sum, 1e-9), the +0.08 composite bonus
\* capped at 1, then the edge noise (unit * edge_noise_bps / 10000) and the
\* clamp to [0, 1].  With non-negative weights the floor only applies when
\* all are 0, and then the sum divided is 0 too: the mean is 0.
Vote(in, a, b, c, w) ==
    LET wsum  == Add(Add(w.a, w.b), w.c)
        total == Add(Add(Mul(a, w.a), Mul(b, w.b)), Mul(c, w.c))
        mean  == IF wsum.num = 0 THEN R(0, 1) ELSE Mul(total, R(wsum.den, wsum.num))
        bonus == IF in.verifiedDisappeared /\ GuestSpike(in) /\ Lt(R(7, 10), a)
                 THEN RMin(Add(mean, R(8, 100)), R(1, 1))
                 ELSE mean
    IN  Clamp01(Add(bonus, R(in.noise * in.edgeNoiseBps, 10000)))

\* Mutant: the override forces Severe without flooring the probability.
TieringNoFloor(in, p, b, c, t) ==
    LET tier == IF Leq(t.severe, p) THEN "Severe"
                ELSE IF Leq(t.mild, p) THEN "Mild" ELSE "Observe"
    IN  IF in.verifiedDisappeared /\ GuestSpike(in) /\ Lt(R(9, 10), b) /\ Lt(R(8, 10), c)
        THEN [tier |-> "Severe", probability |-> p]
        ELSE [tier |-> tier, probability |-> p]

\* Mutant: the override reads "dimension C below 0.8".
TieringLowC(in, p, b, c, t) ==
    LET tier == IF Leq(t.severe, p) THEN "Severe"
                ELSE IF Leq(t.mild, p) THEN "Mild" ELSE "Observe"
    IN  IF in.verifiedDisappeared /\ GuestSpike(in) /\ Lt(R(9, 10), b) /\ Lt(c, R(8, 10))
        THEN [tier |-> "Severe", probability |-> RMax(p, t.severe)]
        ELSE [tier |-> tier, probability |-> p]

\* Severe at or above severe_probability, else Mild at or above
\* mild_probability, else Observe; the composite signature forces Severe
\* and floors the probability at severe_probability.
Tiering(in, p, b, c, t) ==
    LET tier == IF Leq(t.severe, p) THEN "Severe"
                ELSE IF Leq(t.mild, p) THEN "Mild" ELSE "Observe"
    IN  IF in.verifiedDisappeared /\ GuestSpike(in) /\ Lt(R(9, 10), b) /\ Lt(R(8, 10), c)
        THEN [tier |-> "Severe", probability |-> RMax(p, t.severe)]
        ELSE [tier |-> tier, probability |-> p]

\* The AttackAssessment for inputs in, voting weights w and response
\* thresholds t.
JudgeAttackProbability(in, w, t) ==
    LET a == DimensionA(in)
        b == DimensionB(in)
        c == DimensionC(in)
        r == Tiering(in, Vote(in, a, b, c, w), b, c, t)
    IN  [probability |-> r.probability, tier |-> r.tier, a |-> a, b |-> b, c |-> c]
=============================================================================
