# TLA+ models of the sentinel and the shield programs

This directory holds TLA+ models of `project-unforgiven-core`. TLC checks them.
The models cover the off-chain **sentinel** (`src/crates/sentinel/src/main.rs`),
which has concurrent, failure-prone control flow. They also cover the two on-chain
programs: `unforgiven` (v1, ticket sale) and `unforgiven_v2` (admin config,
preview and shield execution), together with their VRGDA price arithmetic.

## The system

The sentinel is one tokio process made of two tasks and one shared object.

* **Producer**: `subscribe_preview_events` (main.rs 1055-1118). It connects to
  Solana pubsub and subscribes to the program's logs. On a failure it sleeps
  `reconnect_backoff_ms` and tries again. Each decodable `PreviewPriceEvent`
  becomes a `PreviewEventEnvelope`, stamped with the producer's `Instant::now()`.
  The envelope is then sent into a bounded `mpsc` channel of
  `event_channel_capacity` with `tx.send(..).await`, which blocks while the
  channel is full. When the stream ends, the producer unsubscribes, backs off
  and reconnects. Notifications from while it was down are lost.
* **Consumer**: `detection_loop` (690-780). For each envelope it does these steps:
  1. `SignatureDedupe::insert_if_new` (TTL by the consumer's clock) drops duplicates.
  2. `SlidingWindow::push` appends the sample and evicts from the front by the
     producer's stamp.
  3. If `metrics()` is `None` or below `min_samples_for_growth`, the envelope is
     skipped.
  4. `judge_attack_probability` picks a tier. `Observe` is skipped.
  5. `RigGovernanceAgent::decide` is awaited. If it returns `Err`, the decision
     is `TRIGGER`.
  6. `GovernanceExecutor::trigger_if_needed` is awaited.

  The loop takes the next envelope only after all of this has returned.
* **GovernanceExecutor** (449-642). Its state is `GovernanceState`
  {`action_in_flight`, `last_success_action_at`}, held behind a tokio `Mutex`.
  `trigger_if_needed` does this:
  1. It returns early for `Observe`.
  2. Under the lock, it returns early if an action is in flight or the cooldown
     has not elapsed. Otherwise it sets the in-flight flag and releases the lock.
  3. Either it runs `execute_action`, or, for a Mild tier the advisory bypassed,
     it yields `Ok(())`.
  4. It takes the lock again, clears the flag, and records a success instant on
     `Ok`.

  `execute_action` reads the admin account, fetches a blockhash, sends and
  confirms `set_scoring_model_hash`, then reads the account again. The lock is
  not held during any of these calls.
* **On chain**: `unforgiven_v2::set_scoring_model_hash` writes
  `AdminConfig.active_scoring_model_hash`. `preview_price` emits the events the
  producer consumes. `execute_shield` checks the attestation against the active
  hash and records a `ProofUse` PDA so that a nonce cannot be replayed.
* **v1 program** (`src/programs/unforgiven/src/lib.rs`): `initialize` creates the
  `global` and `vault` PDAs and stores the oracle key. `buy_ticket` works in this order:
  1. It checks the expiry and the oracle's ed25519 authorization over
     (buyer, event, tier, expiry, nonce).
  2. It computes the sales velocity from the schedule and prices the ticket
     with `calculate_vrgda_price`.
  3. It divides by the tier's alpha and casts the result `as u64`.
  4. It transfers the SOL and increments `items_sold`.
  5. It mints a `Ticket` PDA seeded by (buyer, nonce).

## Modules

| module | models | state / actions ↔ code |
|---|---|---|
| `GovernanceExecutor` | `trigger_if_needed`, `execute_action`, `GovernanceState`, the active hash on chain | `inFlight`, `lastSuccess` = the two fields. Per caller, `pc` tracks where it is in `trigger_if_needed`. `Skip` = the three early returns. `Acquire` = the check-and-set. `Bypass` = the `Ok(())` branch. `ExecuteAction` = the RPC sequence, ending confirmed, failed, or landed-but-Err. `Finalize` = the second lock section. `Callers` is the set of concurrent invocations. |
| `DedupeSpec` | the promise of spec 4.1 | an unordered map from signature to acceptance instant; every expired entry is forgotten before each test |
| `SignatureDedupe` | `SignatureDedupe` (310-348) | `ordered`/`set` = the `VecDeque` and the `HashSet`. `ExpiredPrefix` (RECURSIVE) is the `while let` front eviction. `InsertIfNew` is the whole method. It is shown to refine `DedupeSpec` through `INSTANCE ... WITH seen <- ...`. |
| `SlidingWindow` | `push`, `evict_expired`, `metrics` (238-308), `compute_velocity_growth_pct` | operators on a sequence of samples. `Metrics` gives the counts, which is all `Pipeline` reads. `WindowMetrics` adds the ratios, `SpanMs` (the wall-clock span, `saturating_sub` then floored at 1 ms), the per-second rates and `VelocityGrowthPct` (the split at the temporal midpoint, the two means or the front/back fallback, and the baseline floored at 1). The f64 arithmetic is done on exact rationals `[num, den]`; every operand is a small integer, so this checks the formulas but not the rounding. |
| `DecisionAgent` | `decide`, `parse_agent_decision`, `extract_json_range`, `should_trigger`, the Err fallback | a reply is reduced to its shape (no client, transport error, JSON, JSON in prose, no braces, bad JSON) and its action word |
| `Pipeline` | producer + channel + `detection_loop` + executor | It composes the four modules above with `INSTANCE`. `Receive`/`Send`/`StreamEnds`/`Connect`/`ConnectFails`/`Reconnect` = the producer's loop. `Process` = one consumer iteration up to the advisory await. `Advise` = `decide` and its fallback. `Govern` = the executor's steps for the loop's one call. `Restart` = the process dying and `main` running again: the channel, the dedupe store, the window and `GovernanceState` are rebuilt empty, the subscription reconnects, and a transaction already sent may still land. The chain is untouched. |
| `WireFormat` | v2's `PreviewPriceEvent` and its `emit!`, `dignity_bucket`, the sentinel's `decode_preview_event`/`decode_preview_event_body`, the `AdminConfig` account and `parse_admin_active_hash` | operators. `LE`/`FromLE` (RECURSIVE) are the little-endian integers, and `I64LE` is the two's complement of an i64. `EncodePreviewEvent` is the 22-byte Borsh body. `DecodeLines` (RECURSIVE) is the loop over log lines with its four `continue`s. A log line is a record `[prefixed, b64, raw]`, so base64 and the sha256 discriminator are tags. `ReferenceDecode` restates the scan with `SelectInSeq`. A 32-byte key is 32 symbolic bytes. |
| `HideSisEndings` | `truth_unlocked`, `stable_cooperation_path`, `resolve_ending_code` and their constants | operators, checked over every decision code, the boundary dignities (69/70), relation scores from -128 to 127 around 0-2, and both flags |
| `VrgdaMath` | v2 `calculate_vrgda_quote`, `compute_exponential_price`, `pow_fixed` (RECURSIVE `PowLoop`), `infinity_quote` | operators. Each checked u128 step gives `None` (-1), which ends in the infinite, blocked quote. The widths are scaled: u128::MAX = 2^31-1, u64::MAX = 65535, fixed-point scale 1000. `MCVrgdaMath` enumerates a grid of inputs that reaches every branch. |
| `ShieldV2` | the v2 instructions | `adminInit`/`oracle`/`activeHash` = `AdminConfig`. `proofUses` = the `ProofUse` PDAs. `signed` = the signatures the oracle has made (`Attest`). A forger holds the key `Forged`. Each instruction is one atomic action, and its guard is its account constraints and `require!`s. |
| `UnforgivenV1` | v1 `initialize`, `buy_ticket`, `tier_to_alpha_bps`, `verify_ed25519_ix`, `calculate_vrgda_price` | `global` = `GlobalState`. `tickets` = the Ticket PDAs. `purchases` = a history of (buyer, nonce, tier, instant, VRGDA price, amount charged), kept for the properties. `Initialize` may be called by anyone, with either key. `BuyTicket` is the whole handler. |
| `Ed25519Introspection` | the ed25519 precompile as the runtime runs it, and both programs' `verify_ed25519_ix` | operators. An instruction is its program, whether it has accounts, and its data reduced to the signature count, the three instruction indices of the first offsets entry and the signature, key and message at its offsets. `PrecompilePasses` fetches each from the instruction its index names (u16::MAX = itself), and `TxExecutes` fails the transaction unless every precompile passes. A signature is the (key, message) pair it signs. The v2 reader takes the instruction just before the program's; the v1 reader takes the one the caller names. Both require the three indices to be u16::MAX. |
| `AttackScorer` | `judge_attack_probability` (782-859) after its memberships | operators on exact rationals. `DimensionA` = the 0.75/0.25 blend. `DimensionB` = the gap membership, boosted to ≥ 0.94 when `verified_disappeared` and `GuestSpike`. `DimensionC` = the low-entropy membership plus the 0.1 bonus. `Vote` = the weighted mean (the 1e-9 floor applies only when every weight is 0, and then the mean is 0), the +0.08 composite bonus, the edge noise and the clamp. `Tiering` = the thresholds, then the Severe override with its probability floor. The memberships, `verified_disappeared`, the "entropy < 0.6·threshold" flag and the unit noise are inputs. `guest_spike` is derived, because guests ≥ threshold exactly when the guest membership is ≥ 1/2. |

The `MC*` modules fix the bounds. `MCOperators` checks the grids of
`MCVrgdaMath`, `MCWireFormat`, `MCHideSisEndings`, `MCEd25519Introspection`,
`MCSlidingWindow` and `MCAttackScorer` in one run: it instantiates the six with
their variables renamed, and each initial state explores one grid, named by
`grid`, while the others hold a fixed member of theirs. The state space is the
sum of the six. Each property is checked on its own grid's states. `MCPrograms`
does the same for `ShieldV2`, `UnforgivenV1` and `SignatureDedupe`, which share
no state: a `program` variable picks whose steps a behaviour runs. Each `.cfg` file names the constants, the
specification and the properties of one run.

Abstractions. Time is a discrete clock `now` bounded by `MaxTime`. One tick is
one second. `Instant` is monotonic, so every clock read is `now`. Inside
`Pipeline` the tier is a free choice once the window holds `min_samples`
samples, which over-approximates any scorer. The scorer's combination step is
checked on its own in `AttackScorer`. Signatures are model values. The patch hash is identified with the
tier that built it.

## Runs

| run | result | what it shows |
|---|---|---|
| `gov_pass` (`GovernanceExecutor.cfg`) | pass | Two concurrent callers. `SingleInFlight`: at most one caller is past the check-and-set, and the flag is set exactly then. `ConfirmedSpacing`: two confirmed mitigations land ≥ `min_action_interval` apart. `InFlightCleared`: the flag is always cleared, on error paths too. |
| `gov_landed_spacing` | violation of `LandedSpacing` | A transaction lands but its confirmation returns `Err`. No success is recorded, so the next signal lands a second mitigation at once (**finding**). |
| `gov_bypass_cooldown` | violation of `SevereDroppedOnlyAfterMitigation` | A Mild signal that was BYPASSed records success. A Severe signal right after it is dropped for cooldown although nothing was submitted (**finding**). |
| `pipeline` (`Pipeline.cfg`, rig disabled) | pass | `WindowFresh`: no retained sample is older than the window at the last push, although samples are stamped by the producer and pushed late. `WindowDistinct`: a redelivered signature is never counted twice (TTL = window, the boundary case). `ProducerReleased`: a producer blocked in `tx.send` is always released. |
| `pipeline_bypass` (rig enabled) | violation of `BypassOnlyOnExplicitBypass` | A well-formed reply whose action is `HOLD` (with `confidence` and `reason`, as `AgentDecision` requires) bypasses a Mild signal instead of falling back to TRIGGER (**finding**). |
| `pipeline_hung_advisory` (rig enabled) | violation of `ProducerReleased` | A `decide` call that never returns stalls the loop. Once the channel is full, the producer is stuck too (**finding**). |
| `vrgda_dignity` | violation of `DignityMonotone` | With a negative velocity, the heat weight `(100-d)^2` makes a dignity-0 caller's price decay fastest. The tests check only positive velocity (**finding**, spec gap). |
| `operators_pass` (`MCOperators`, `Operators.cfg`) | pass | The pure functions, each over its grid. VRGDA (v2): `TypeOK` says quotes fit in u64. `VelocityMonotone`: the price rises with velocity. `PriceFloorWithoutLoyalty`: without loyalty the price is never below the initial price. `DignityMonotoneUnderHeat`: under non-negative heat the price falls as dignity rises. Wire format: `EmittedEventDecoded`: every event v2 can emit over the quote grid is decoded field for field behind up to two skipped lines, negative velocities included. `DecodeMatchesReference`: over all logs of up to three lines of seven kinds, the scan returns the first well-formed preview record. `AdminHashReadBack`: the hash is read from where `AdminConfig` stores it, and 104 bytes are refused. hide_sis: `EndingMonotone`: a higher dignity or relation score, or dropping pollution, never worsens the ending. ed25519: `ShieldAcceptsOnlyOracleSigned` and `TicketAcceptsOnlyOracleSigned`: over every three-instruction transaction an attacker can build, `execute_shield` and `buy_ticket` accept only a payload the oracle signed, and both accept the oracle's well-formed transaction. Window: `MetricsMatchSpec`: `metrics()` computes the ratios, the floored span, the rates and the growth as spec 4.2 defines them. The reference is restated over min/max stamps with `SelectSeq` and `FoldSeq`, and it puts a sample on the midpoint in the second half. `GrowthFollowsTrend`: a window whose velocity never falls reports growth ≥ 0, and one whose velocity never rises reports growth ≤ 0. Scorer: `AssessmentConsistent`: the probability and the scores lie in [0, 1], and the tier is the tiering of the reported probability, also under the override. `TierMonotone`: raising any membership, or losing the verified users, never lowers the tier or the probability. |
| `programs_pass` (`MCPrograms`, `Programs.cfg`) | pass | v2: `NoReplay`: an attestation executes at most once. It holds across rotations, hash changes and a forged key. That only oracle signatures are accepted is checked on the instruction bytes by `ShieldAcceptsOnlyOracleSigned` in `operators_pass`. v1: `OneTicketPerNonce`: a (buyer, nonce) authorization buys one ticket, whatever tier, expiry or instant it is replayed with. `PriceRisesWithSales`: at one instant, each further sale never lowers the VRGDA price, through truncating division, clamping and fixed-point powers. `TypeOK` covers the accounts of both programs and the dedupe queue. Dedupe: `SetMirrorsQueue`: the set mirrors the queue. `ImplementsDedupeSpec`: the lazy front-only eviction implements `DedupeSpec`. |
| `v1_truncation` | violation of `ChargedAtLeastVrgda` | A Silver buyer at a VRGDA price above u64::MAX/4 pays `(4·price) mod 2^64`, which is less than the price. The code comment says "all checked ops" (**finding**, code bug at `lib.rs:231`). |

Every property of a passing run has a mutant in `PROJECT.json`. A mutant is a
plausible bug in the modelled code, and TLC finds the property violated under it.

## Bounds

* Governance: two callers, `MinInterval` 2, clock to 5. This is enough for two
  full cycles, a cooldown that expires, and a second caller interleaving at
  every step.
* Dedupe: three signatures, TTL 2, clock to 6. Entries expire at different
  instants, so the queue holds expired entries behind a live one.
* Pipeline: two signatures, each handed over at most twice, channel capacity 1
  (the producer blocks), TTL = window = 1 (the boundary), `min_samples` 1,
  clock to 2. A sample stamped at 0 can be pushed at 2, which is past both the
  window and the TTL.
* VRGDA (v2): prices 0, 1, 100 and u64::MAX; velocities around -10000, 0, 5000
  and 9000; times 0, 1, 2, 12, 20 and 21 (the limit is 20); dignities on both
  sides of 70 and 100. The overflow, reject, cap and block branches are all taken.
* Shield: one user, two oracle keys plus the forged key, two hashes, two nonces,
  two expiries, clock to 2, and two attested inputs (one allowed, one blocked).
* v1: one buyer, tiers 1-3, two nonces, expiries 1 and 3, clock to 3, target
  rates 0 and 1/s, start times 0 and 1. There are three base prices: 100; 20000,
  which is above u64::MAX/4 at the scaled width, so the cast wraps for Silver;
  and 65000, whose first rise overflows u64 and fails with `MathOverflow`. Two sales at the same instant with a positive duration exercise
  `PriceRisesWithSales`.

* Wire format: final prices 0, 1, 300 and u64::MAX (scaled); velocities
  -9999, -300, 0, 300 and 9000, so negative i64s cross the wire; dignities on
  the bucket edges 20/21 and 80/81; both adapter masks and all user modes.
  Logs are every sequence of up to three lines over seven kinds: not program
  data, bad base64, shorter than the discriminator, another event, a short
  preview body, and two different preview records.
* hide_sis: decisions 0 and 11-13, dignities 0, 69, 70, 100, 255, relations
  -128, -1, 0, 1, 2, 3, 127, both flags: every threshold on both sides.
* ed25519: three instructions. Instruction 0 belongs to another program and
  carries any key, signature and message. Instruction 1 is anything, including a
  precompile with indices u16::MAX, 0 or 1. Instruction 2 is the program. There
  are two payloads, one signed by the oracle, and an attacker key. Every call
  argument is enumerated. This is enough for a precompile to verify a replayed
  oracle signature over bytes in another instruction while its own data holds
  a different message.
* Scorer: memberships 1/20, 1/2, 3/4 and 19/20, which lie on both sides of the
  cut points 0.7, 0.8, 0.9 and 0.94. The guest membership is 1/20, 1/2 or 19/20,
  so a spike happens at exactly 1/2. Both flags are taken, and the very-low-entropy
  flag only with membership 19/20: `membership_low` is then above
  sigmoid(0.4/0.35) ≈ 0.76. Weights run 0-2 each, including all zero. The noise is
  -1, 0 or 1 at 0 or 300 bps. The thresholds are (0.5, 0.8) and (0.6, 0.6).
* Window metrics: every window of up to three samples with wall stamps 0, 1
  or 2 ms in non-decreasing order, velocities -4, 0, 1 and 3, and every
  guest/verified marking. Equal stamps reach the 1 ms floor and the
  one-sided fallback of the growth split. `[0, 1, 2]` puts a sample exactly on
  the temporal midpoint.

## Fairness

* `Send`, `Process` and `Govern` are weakly fair. Tokio polls ready tasks, and
  every RPC call in `trigger_if_needed` returns because `RpcClient` has a request
  timeout.
* `Advise` is weakly fair only when rig is disabled, because then `decide`
  returns at once. With rig enabled, `agent.prompt` has no timeout, so no
  fairness is assumed.
* The on-chain models (`ShieldV2`, `UnforgivenV1`) check safety only, with no
  fairness: nobody is obliged to send a transaction.
* `Restart` has no fairness: nothing makes the process restart.
* The chain, the stream and the clock have no fairness. Nothing obliges events
  to arrive.

## Not modelled, and the plan

* **Backwards wall-clock stamps in the window**: the grid keeps stamps in
  order because spec 4.2 defines the span and the halves only in time order.
  With stamps [5, 10, 0] and rising velocities, `compute_velocity_growth_pct`
  reports negative growth. This is listed as a hazard.
* **Scorer inputs**: the sigmoid memberships, `compute_velocity_second_derivative_rms`,
  `compute_timestamp_entropy` (natural logarithms) and `materialize_fuzzy_thresholds` /
  `hash_to_unit` (sha256 of the epoch). They are transcendental or hash-based,
  so `AttackScorer` takes their outputs as inputs from a grid. `Pipeline` keeps a
  free tier. A `severe_probability` above 1 would report a probability above 1.
  Nothing validates the config, and the grid keeps the thresholds in [0, 1].
* **Base64 and the sha256 discriminator**: `WireFormat` models which line
  and which bytes are taken, with base64 validity and the discriminator as
  tags. The encodings themselves are library code.
* **Configuration** (`load_config`, `ensure_payload_spec`, `default_config_path`):
  startup file and environment I/O. Their values are the MC constants.
* **Inside `Pipeline`, the decoder is still "decodable or skipped"**. Its
  faithfulness is checked separately by `operators_pass`.
* **Hash rotation × attestations**: `ShieldV2` models both the rotation and
  the attestations. Nothing in the repository states which attestations a
  mitigation should revoke, so no property is checked. Composing `ShieldV2` with
  `GovernanceExecutor` is planned.
* **hide_sis_types constants and event structs**: the chapter, node and pact
  codes and the three `#[event]` structs are data. No instruction of v2 uses
  them yet, nor the helpers `truth_unlocked`, `stable_cooperation_path` and
  `resolve_ending_code`, so `HideSisEndings` checks them as functions only.
* **SOL transfers and account rent**: the transfer in `buy_ticket` is assumed
  funded. A failed transfer aborts the transaction, which the model represents
  as the action not being taken.
* **Restarts and the cooldown**: `Pipeline`'s `Restart` rebuilds all in-memory state, as `main` does. The spec's non-goals disclaim keeping
  in-memory state across restarts, and the spec names the immediate re-trigger after a restart as an open
  policy question without requiring persistence, so no property asks for spacing across a restart.
* **The Severe override of the scorer** needs C > 0.8 as well as the B boost, as spec 4.4 states; `AssessmentConsistent` and
  `TierMonotone` check the tiering around it.
* **v1 `initialize`** accepts any signer, and the model lets it install either
  key. No property states who must initialize v1 (v2 adds the upgrade-authority
  check), so this is listed as a hazard only.
