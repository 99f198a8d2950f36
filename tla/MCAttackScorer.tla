----------------------------- MODULE MCAttackScorer -----------------------------
(* judge_attack_probability over a grid of its inputs: memberships on both  *)
(* sides of the 0.7 / 0.8 / 0.9 / 0.94 cut points and of 1/2 (the guest   *)
(* spike), both comparison flags (the very-low-entropy one only where     *)
(* membership_low exceeds sigmoid(0.4 / 0.35) > 3/4, which it implies),    *)
(* non-negative weights 0..2 each (all zero reaches the 1e-9 floor), the  *)
(* noise at -1, 0 and 1 with 0 or 300 bps, and two response configs, one  *)
(* with mild = severe.                                                    *)
EXTENDS AttackScorer

VARIABLE input

Levels == {R(1, 20), R(1, 2), R(3, 4), R(19, 20)}

Inputs ==
    {in \in [accel : Levels, guestPressure : {R(1, 20), R(1, 2), R(19, 20)},
             gap : Levels, lowEntropy : Levels,
             verifiedDisappeared : BOOLEAN, veryLowEntropy : BOOLEAN,
             noise : {-1, 0, 1}, edgeNoiseBps : {0, 300}] :
        in.veryLowEntropy => Lt(R(3, 4), in.lowEntropy)}

Weights == [a : {R(0, 1), R(1, 1), R(2, 1)}, b : {R(0, 1), R(1, 1), R(2, 1)},
            c : {R(0, 1), R(1, 1), R(2, 1)}]

Responses == {[mild |-> R(1, 2), severe |-> R(4, 5)],
              [mild |-> R(3, 5), severe |-> R(3, 5)]}

Init == input \in [in : Inputs, w : Weights, t : Responses]
Next == UNCHANGED input
Spec == Init /\ [][Next]_input

Rank(tier) == CASE tier = "Observe" -> 0 [] tier = "Mild" -> 1 [] tier = "Severe" -> 2

\* The inputs one notch stronger than in: one membership raised to the
\* next level, or verified users now vanished.
Stronger(in) ==
    {[in EXCEPT !.accel = l] : l \in {l \in Levels : Lt(in.accel, l)}}
    \cup {[in EXCEPT !.gap = l] : l \in {l \in Levels : Lt(in.gap, l)}}
    \cup {[in EXCEPT !.lowEntropy = l] : l \in {l \in Levels : Lt(in.lowEntropy, l)}}
    \cup {[in EXCEPT !.guestPressure = l] :
            l \in {l \in {R(1, 20), R(1, 2), R(19, 20)} : Lt(in.guestPressure, l)}}
    \cup {[in EXCEPT !.verifiedDisappeared = TRUE]}

-----------------------------------------------------------------------------
\* The assessment judge_attack_probability returns is what spec 4.4
\* describes: a probability and three scores in [0, 1], and a tier that
\* is the tiering of the reported probability (Severe at or above the
\* severe threshold, Mild at or above the mild one, else Observe), also
\* when the composite signature forced Severe.
AssessmentConsistent ==
    LET r == JudgeAttackProbability(input.in, input.w, input.t)
        p == r.probability
    IN  /\ \A s \in {p, r.a, r.b, r.c} : Leq(R(0, 1), s) /\ Leq(s, R(1, 1))
        /\ r.tier = "Severe"  <=> Leq(input.t.severe, p)
        /\ r.tier = "Observe" <=> Lt(p, input.t.mild)

\* A stronger signal never gets a weaker response: raising any membership
\* or losing the verified users never lowers the tier or the probability,
\* through the boost of B, the bonus of C, the composite bonus, the clamp
\* and the Severe override.
TierMonotone ==
    LET r == JudgeAttackProbability(input.in, input.w, input.t)
    IN  \A s \in Stronger(input.in) :
           LET q == JudgeAttackProbability(s, input.w, input.t)
           IN  Rank(r.tier) <= Rank(q.tier) /\ Leq(r.probability, q.probability)

=============================================================================
