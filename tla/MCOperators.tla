----------------------------- MODULE MCOperators ------------------------------
(* The pure functions of the repository checked in one state space: the  *)
(* VRGDA quote of unforgiven_v2 (MCVrgdaMath), the event and account      *)
(* layouts the sentinel reads (MCWireFormat) and the hide_sis ending      *)
(* rules (MCHideSisEndings), the ed25519 introspection of both programs *)
(* over every transaction of MCEd25519Introspection, the window metrics  *)
(* of the sentinel over every window of MCSlidingWindow, and the attack   *)
(* scorer's vote and tiering over the grid of MCAttackScorer.  Each       *)
(* initial state explores the grid of one of them while the others hold  *)
(* one fixed member of their own grid, so the state space is the sum of  *)
(* the six, not their product.  `grid` names the grid a state explores,  *)
(* and each property is checked on the states of its own grid, which    *)
(* include its fixed input.                                              *)
EXTENDS Naturals

VARIABLES
    grid,         \* the grid this state explores
    vrgdaInput,   \* MCVrgdaMath's input
    endingInput,  \* MCHideSisEndings' input
    event, noise, logs, account,  \* MCWireFormat's variables
    tx, call,     \* MCEd25519Introspection's variables
    windowInput,  \* MCSlidingWindow's input
    scorerInput   \* MCAttackScorer's input

vars == <<grid, vrgdaInput, endingInput, event, noise, logs, account, tx, call, windowInput, scorerInput>>

V == INSTANCE MCVrgdaMath WITH input <- vrgdaInput, FpScale <- 1000,
        U64Max <- 65535, U128Max <- 2147483647, MaxTimeElapsed <- 20
H == INSTANCE MCHideSisEndings WITH input <- endingInput
W == INSTANCE MCWireFormat
E == INSTANCE MCEd25519Introspection WITH OracleKey <- "oracle",
        AttackerKey <- "attacker", Messages <- {"PA", "PB"}, OracleSigned <- {"PA"}
SW == INSTANCE MCSlidingWindow WITH input <- windowInput
AS == INSTANCE MCAttackScorer WITH input <- scorerInput

FixedVrgda  == [price |-> 100, velocity |-> 0, time |-> 0, dignity |-> 50]
FixedEnding == [decision |-> 0, dignity |-> 0, relation |-> 0,
                pollution |-> FALSE, c2n3 |-> FALSE]
FixedWire   == /\ event = W!E1 /\ noise = <<>> /\ logs = <<>>
               /\ account = [authority |-> "authority", oracle |-> "k1",
                             hash |-> "h1", bump |-> 254]
FixedTx     == /\ tx = E!Honest("PA")
               /\ call = [kind |-> "buy_ticket", index |-> 1, payload |-> "PA"]
FixedWindow == windowInput = <<>>
FixedScorer == scorerInput =
    [in |-> [accel |-> AS!R(1, 20), guestPressure |-> AS!R(1, 20), gap |-> AS!R(1, 20),
             lowEntropy |-> AS!R(1, 20), verifiedDisappeared |-> FALSE,
             veryLowEntropy |-> FALSE, noise |-> 0, edgeNoiseBps |-> 0],
     w |-> [a |-> AS!R(1, 1), b |-> AS!R(1, 1), c |-> AS!R(1, 1)],
     t |-> [mild |-> AS!R(1, 2), severe |-> AS!R(4, 5)]]

\* The grid g is explored; every other one holds its fixed input.
Init ==
    \E g \in {"vrgda", "ending", "wire", "ed25519", "window", "scorer"} :
        /\ grid = g
        /\ IF g = "vrgda"   THEN V!Init  ELSE vrgdaInput = FixedVrgda
        /\ IF g = "ending"  THEN H!Init  ELSE endingInput = FixedEnding
        /\ IF g = "wire"    THEN W!Init  ELSE FixedWire
        /\ IF g = "ed25519" THEN E!Init  ELSE FixedTx
        /\ IF g = "window"  THEN SW!Init ELSE FixedWindow
        /\ IF g = "scorer"  THEN AS!Init ELSE FixedScorer
Next == UNCHANGED vars
Spec == Init /\ [][Next]_vars

-----------------------------------------------------------------------------
\* Every calculate_vrgda_quote result is a rejection or a price that fits
\* in u64 and is at least 1.
TypeOK == grid = "vrgda" => V!TypeOK

\* calculate_vrgda_quote: more sales velocity never lowers the quote,
\* through pow_fixed, its overflow to infinity, the cap and the u64 cast.
VelocityMonotone == grid = "vrgda" => V!VelocityMonotone

\* calculate_vrgda_quote: under non-negative heat a caller without loyalty
\* never pays less than the initial price (truncation in pow_fixed).
PriceFloorWithoutLoyalty == grid = "vrgda" => V!PriceFloorWithoutLoyalty

\* calculate_vrgda_quote: under non-negative heat a higher dignity score
\* never pays more.
DignityMonotoneUnderHeat == grid = "vrgda" => V!DignityMonotoneUnderHeat

\* decode_preview_event reads back exactly the event preview_price emitted,
\* behind any skipped log lines, negative velocities included.
EmittedEventDecoded == grid = "wire" => W!EmittedEventDecoded

\* decode_preview_event's line scan returns the first well-formed preview
\* record of the transaction, whatever lines come before it.
DecodeMatchesReference == grid = "wire" => W!DecodeMatchesReference

\* parse_admin_active_hash reads the hash where AdminConfig stores it.
AdminHashReadBack == grid = "wire" => W!AdminHashReadBack

\* resolve_ending_code: a better score never earns a worse ending.
EndingMonotone == grid = "ending" => H!EndingMonotone

\* verify_ed25519_ix (v2): execute_shield accepts only payloads the oracle
\* signed, whatever precompile instruction and offsets the attacker builds.
ShieldAcceptsOnlyOracleSigned == grid = "ed25519" => E!ShieldAcceptsOnlyOracleSigned

\* verify_ed25519_ix (v1): buy_ticket accepts only authorizations the
\* oracle signed, whichever instruction sig_instruction_index names.
TicketAcceptsOnlyOracleSigned == grid = "ed25519" => E!TicketAcceptsOnlyOracleSigned

\* SlidingWindow::metrics computes the ratios, the floored span, the
\* per-second rates and compute_velocity_growth_pct as spec 4.2 defines.
MetricsMatchSpec == grid = "window" => SW!MetricsMatchSpec

\* compute_velocity_growth_pct never reports growth against the trend of
\* the window's velocities.
GrowthFollowsTrend == grid = "window" => SW!GrowthFollowsTrend

\* judge_attack_probability returns a probability and scores in [0, 1]
\* and the tier of that probability, also under the Severe override.
AssessmentConsistent == grid = "scorer" => AS!AssessmentConsistent

\* judge_attack_probability: a stronger signal never gets a lower tier or
\* probability.
TierMonotone == grid = "scorer" => AS!TierMonotone
=============================================================================
