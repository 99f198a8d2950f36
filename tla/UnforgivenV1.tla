----------------------------- MODULE UnforgivenV1 -----------------------------
(***************************************************************************)
(* The unforgiven (v1) program of src/programs/unforgiven/src/lib.rs and   *)
(* its calculate_vrgda_price (unforgiven_math.rs): a single-event auction  *)
(* whose GlobalState counts tickets sold, and buy_ticket, which checks an *)
(* oracle authorization, prices the ticket by exponential VRGDA from the  *)
(* sales ahead of or behind target, divides by the tier's alpha, takes    *)
(* the payment and mints a Ticket PDA keyed by (buyer, nonce).            *)
(*                                                                         *)
(* Widths are scaled as in VrgdaMath: u64::MAX is U64Max, so `as u64`     *)
(* keeps the value modulo U64Max + 1.  The ed25519 introspection is       *)
(* reduced to "a valid signature by the named key over exactly the 81-    *)
(* byte AuthorizationPayload"; event_id always names the one GlobalState. *)
(***************************************************************************)
EXTENDS Integers, Sequences, FiniteSets

CONSTANTS
    Buyers,         \* buyer wallets
    OracleKey,      \* the oracle the deployer means to install
    Forged,         \* a key an attacker holds
    TierLevels,     \* tier_level values the oracle signs
    Expiries,       \* expiry values
    Nonces,         \* nonce values
    TargetRates,    \* target_rate_bps values initialize may receive
    StartTimes,     \* start_time values
    BasePrices,     \* base_price values
    MaxClock,       \* bound on Clock::unix_timestamp
    MaxAttestations,\* bound on the oracle's signatures
    FpScale, U64Max, U128Max

Math == INSTANCE VrgdaMath WITH MaxTimeElapsed <- MaxClock

Keys == {OracleKey, Forged}

\* The AuthorizationPayload: user_wallet, tier_level, expiry, nonce.
Messages == [buyer : Buyers, tier : TierLevels, expiry : Expiries, nonce : Nonces]

Bps               == 10000
MinAlphaBps       == 500
DecayConstant     == 100
PriceModifierMax  == 5000

VARIABLES
    clock,        \* Clock::unix_timestamp
    initialized,  \* the GlobalState and Vault PDAs exist
    global,       \* GlobalState: [oracle, rate, start, base, sold]
    signed,       \* [msg, key] pairs signed with a key
    tickets,      \* Ticket PDAs, as their (buyer, nonce) seeds
    purchases     \* history: [buyer, nonce, tier, at, vrgda, charged]

vars == <<clock, initialized, global, signed, tickets, purchases>>

NoGlobal == [oracle |-> OracleKey, rate |-> 0, start |-> 0, base |-> 0, sold |-> 0]

TypeOK ==
    /\ clock \in 0..MaxClock
    /\ initialized \in BOOLEAN
    /\ global \in [oracle : Keys, rate : TargetRates \cup {0},
                   start : StartTimes \cup {0}, base : BasePrices \cup {0},
                   sold : Nat]
    /\ signed \subseteq [msg : Messages, key : Keys]
    /\ tickets \subseteq [buyer : Buyers, nonce : Nonces]
    /\ purchases \in Seq([buyer : Buyers, nonce : Nonces, tier : TierLevels,
                          at : 0..MaxClock, vrgda : 0..U64Max,
                          charged : 0..U64Max])

Init ==
    /\ clock = 0
    /\ initialized = FALSE
    /\ global = NoGlobal
    /\ signed = {}
    /\ tickets = {}
    /\ purchases = <<>>

-----------------------------------------------------------------------------
(* unforgiven_math.rs *)

\* pow_fixed is the same loop as in v2, with Err for None.
PowFixed(base, exponent) == Math!PowFixed(base, exponent)

\* Mutant: the u64::try_from check on the result is left out.
CalculateVrgdaPriceUnchecked(initial, velocity, time) ==
    IF initial = 0 \/ time = 0 \/ velocity = 0 THEN initial
    ELSE IF velocity <= -Bps THEN Math!None
    ELSE LET step  == Math!CheckedDiv(Math!CheckedMul(Bps + velocity, FpScale), Bps)
             gf    == IF step = Math!None THEN Math!None ELSE PowFixed(step, time)
         IN  Math!CheckedDiv(Math!CheckedMul(initial, gf), FpScale)

\* calculate_vrgda_price: initial * (1 + velocity / 10_000) ^ time, or
\* Err (Math!None) on an invalid velocity or any overflow, u64 included.
CalculateVrgdaPrice(initial, velocity, time) ==
    IF initial = 0 \/ time = 0 \/ velocity = 0 THEN initial
    ELSE IF velocity <= -Bps THEN Math!None
    ELSE LET step  == Math!CheckedDiv(Math!CheckedMul(Bps + velocity, FpScale), Bps)
             gf    == IF step = Math!None THEN Math!None ELSE PowFixed(step, time)
             price == Math!CheckedDiv(Math!CheckedMul(initial, gf), FpScale)
         IN  IF price = Math!None \/ price > U64Max THEN Math!None ELSE price

-----------------------------------------------------------------------------
(* lib.rs *)

\* tier_to_alpha_bps, then `.max(MIN_ALPHA_BPS)`.
TierToAlphaBps(tier) ==
    LET a == CASE tier = 1 -> 10000 [] tier = 2 -> 5000 [] OTHER -> 2500
    IN  IF a < MinAlphaBps THEN MinAlphaBps ELSE a

Clamp(x, lo, hi) == IF x < lo THEN lo ELSE IF x > hi THEN hi ELSE x

\* Mutant: the sales difference is taken the wrong way round.
SalesVelocityReversed(g, now) ==
    LET duration == IF now - g.start > 0 THEN now - g.start ELSE 0
        target   == (duration * g.rate) \div Bps
        diff     == target - g.sold
    IN  Clamp(Math!TruncDiv(diff * DecayConstant, IF duration > 1 THEN duration ELSE 1),
              -PriceModifierMax, PriceModifierMax)

\* The sales velocity buy_ticket derives from the schedule.
SalesVelocity(g, now) ==
    LET duration == IF now - g.start > 0 THEN now - g.start ELSE 0
        target   == (duration * g.rate) \div Bps
        diff     == g.sold - target
    IN  Clamp(Math!TruncDiv(diff * DecayConstant, IF duration > 1 THEN duration ELSE 1),
              -PriceModifierMax, PriceModifierMax)

\* The VRGDA price at instant now, or Math!None.
VrgdaPrice(g, now) ==
    CalculateVrgdaPrice(g.base, SalesVelocity(g, now),
                        IF now - g.start > 0 THEN now - g.start ELSE 0)

\* `(vrgda * 10_000 / alpha) as u64`
FinalPrice(vrgda, tier) == ((vrgda * Bps) \div TierToAlphaBps(tier)) % (U64Max + 1)

\* verify_ed25519_ix: a signature over exactly msg by the stored oracle key.
Verified(msg, k) ==
    /\ k = Forged \/ [msg |-> msg, key |-> k] \in signed
    /\ k = global.oracle

-----------------------------------------------------------------------------
(* Environment *)

Tick ==
    /\ clock < MaxClock
    /\ clock' = clock + 1
    /\ UNCHANGED <<initialized, global, signed, tickets, purchases>>

\* The oracle signs an authorization with its key (signing the same
\* payload again yields the same signature).
Attest(msg) ==
    /\ Cardinality(signed \cup {[msg |-> msg, key |-> OracleKey]}) <= MaxAttestations
    /\ signed' = signed \cup {[msg |-> msg, key |-> OracleKey]}
    /\ UNCHANGED <<clock, initialized, global, tickets, purchases>>

-----------------------------------------------------------------------------
(* Instructions *)

\* initialize: `init` of the global and vault PDAs fails if they exist;
\* any signer may call it and names the oracle account.
Initialize(k, rate, start, base) ==
    /\ ~initialized
    /\ initialized' = TRUE
    /\ global' = [oracle |-> k, rate |-> rate, start |-> start, base |-> base,
                  sold |-> 0]
    /\ UNCHANGED <<clock, signed, tickets, purchases>>

\* Mutant: the Ticket account is `init_if_needed`.
BuyTicketInitIfNeeded(b, tier, expiry, nonce, k) ==
    LET msg   == [buyer |-> b, tier |-> tier, expiry |-> expiry, nonce |-> nonce]
        vrgda == VrgdaPrice(global, clock)
    IN  /\ initialized
        /\ clock < expiry
        /\ Verified(msg, k)
        /\ vrgda # Math!None
        /\ global' = [global EXCEPT !.sold = @ + 1]
        /\ tickets' = tickets \cup {[buyer |-> b, nonce |-> nonce]}
        /\ purchases' = Append(purchases,
                           [buyer |-> b, nonce |-> nonce, tier |-> tier, at |-> clock,
                            vrgda |-> vrgda, charged |-> FinalPrice(vrgda, tier)])
        /\ UNCHANGED <<clock, initialized, signed>>

\* buy_ticket, whole: expiry, signature, VRGDA math (any overflow fails
\* the transaction), transfer, items_sold + 1, Ticket PDA `init`.
BuyTicket(b, tier, expiry, nonce, k) ==
    LET msg   == [buyer |-> b, tier |-> tier, expiry |-> expiry, nonce |-> nonce]
        vrgda == VrgdaPrice(global, clock)
    IN  /\ initialized
        /\ clock < expiry
        /\ Verified(msg, k)
        /\ vrgda # Math!None
        /\ [buyer |-> b, nonce |-> nonce] \notin tickets
        /\ global' = [global EXCEPT !.sold = @ + 1]
        /\ tickets' = tickets \cup {[buyer |-> b, nonce |-> nonce]}
        /\ purchases' = Append(purchases,
                           [buyer |-> b, nonce |-> nonce, tier |-> tier, at |-> clock,
                            vrgda |-> vrgda, charged |-> FinalPrice(vrgda, tier)])
        /\ UNCHANGED <<clock, initialized, signed>>

Next ==
    \/ Tick
    \/ \E m \in Messages : Attest(m)
    \/ \E k \in Keys, r \in TargetRates, s \in StartTimes, p \in BasePrices :
          Initialize(k, r, s, p)
    \/ \E b \in Buyers, t \in TierLevels, e \in Expiries, n \in Nonces, k \in Keys :
          BuyTicket(b, t, e, n, k)

Spec == Init /\ [][Next]_vars

-----------------------------------------------------------------------------
\* A Ticket is minted at most once per (buyer, nonce): the `init` of the
\* Ticket PDA in buy_ticket stops a replayed oracle authorization, however
\* the buyer reuses signatures across tiers, expiries and instants.
OneTicketPerNonce ==
    \A i, j \in DOMAIN purchases :
        i < j => <<purchases[i].buyer, purchases[i].nonce>>
                 # <<purchases[j].buyer, purchases[j].nonce>>

\* The VRGDA premise as buy_ticket computes it: at one instant, every
\* further sale (items_sold + 1) can only raise the VRGDA price, through
\* the sales difference, the clamped velocity and pow_fixed.
PriceRisesWithSales ==
    \A i, j \in DOMAIN purchases :
        (i < j /\ purchases[i].at = purchases[j].at)
            => purchases[i].vrgda <= purchases[j].vrgda

\* The comment on buy_ticket's final price: the buyer pays
\* vrgda_price * 10_000 / alpha, never less than the VRGDA price
\* (alpha is at most 10_000), with every step checked.
ChargedAtLeastVrgda ==
    \A i \in DOMAIN purchases : purchases[i].charged >= purchases[i].vrgda
=============================================================================
