----------------------------- MODULE SlidingWindow -----------------------------
(***************************************************************************)
(* SlidingWindow of src/crates/sentinel/src/main.rs as operators on its   *)
(* VecDeque<EventSample>.  A sample keeps what the detector reads of it:  *)
(* the producer's Instant (at), the signature it came from (sig), and     *)
(* whether its dignity_score equals the guest marker and its user_mode    *)
(* the verified marker; for metrics() also its wall-clock stamp in ms     *)
(* (wall, observed_unix_ms) and its effective_velocity_bps (vel).  The    *)
(* f64 arithmetic of metrics() is computed on exact rationals [num, den]: *)
(* every operand is a small integer, so this checks the formulas, not the *)
(* rounding.                                                              *)
(***************************************************************************)
EXTENDS Integers, Sequences, FiniteSetsExt

\* Mutant: `if let` instead of `while let`, one sample evicted per push.
EvictOnce(samples, now, window) ==
    IF samples # <<>> /\ now - Head(samples).at > window
    THEN Tail(samples)
    ELSE samples

\* `while let Some(front) = ...: if now.duration_since(front.observed_at)
\* > window { pop_front } else { break }`
RECURSIVE EvictExpired(_, _, _)
EvictExpired(samples, now, window) ==
    IF samples # <<>> /\ now - Head(samples).at > window
    THEN EvictExpired(Tail(samples), now, window)
    ELSE samples

\* push: push_back, then evict_expired against Instant::now().
Push(samples, sample, now, window) ==
    EvictExpired(Append(samples, sample), now, window)

\* The number of samples satisfying P, as metrics() counts them with filter.
CountWhere(samples, P(_)) == Quantify(DOMAIN samples, LAMBDA i : P(samples[i]))

\* metrics(): None for an empty window, otherwise the counts.
NoMetrics == [total |-> 0, guest |-> 0, verified |-> 0]
Metrics(samples) ==
    IF samples = <<>>
    THEN NoMetrics
    ELSE [total    |-> Len(samples),
          guest    |-> CountWhere(samples, LAMBDA s : s.guest),
          verified |-> CountWhere(samples, LAMBDA s : s.verified)]

-----------------------------------------------------------------------------
(* The f64 part of metrics() *)

Rat(n, d) == [num |-> n, den |-> d]
RatSub(p, q) == Rat(p.num * q.den - q.num * p.den, p.den * q.den)
RatAbs(p) == Rat(IF p.num < 0 THEN -p.num ELSE p.num, p.den)
RatEq(p, q) == p.num * q.den = q.num * p.den
\* p / q for q > 0
RatDivPos(p, q) == Rat(p.num * q.den, p.den * q.num)

\* Mutant: no 1 ms floor.
SpanMsUnfloored(samples) ==
    LET d == samples[Len(samples)].wall - samples[1].wall
    IN  IF d > 0 THEN d ELSE 0

\* newest_ms.saturating_sub(oldest_ms).max(1), front and back of the deque.
SpanMs(samples) ==
    LET d == samples[Len(samples)].wall - samples[1].wall
    IN  IF d > 1 THEN d ELSE 1

\* Mutant: the fallback compares the back sample against the front one.
VelocityGrowthPctSwapped(samples) ==
    IF Len(samples) < 2 THEN Rat(0, 1)
    ELSE
    LET oldest == samples[1].wall
        newest == samples[Len(samples)].wall
        split  == 2 * oldest + (IF newest > oldest THEN newest - oldest ELSE 0)
        prev   == {i \in DOMAIN samples : 2 * samples[i].wall < split}
        curr   == DOMAIN samples \ prev
        Mean(I) == Rat(MapThenSumSet(LAMBDA i : samples[i].vel, I), Cardinality(I))
        both   == prev # {} /\ curr # {}
        baseline == IF both THEN Mean(prev) ELSE Rat(samples[Len(samples)].vel, 1)
        current  == IF both THEN Mean(curr) ELSE Rat(samples[1].vel, 1)
        denom    == IF RatAbs(baseline).num >= baseline.den THEN RatAbs(baseline) ELSE Rat(1, 1)
        diff     == RatSub(current, baseline)
    IN  RatDivPos(Rat(100 * diff.num, diff.den), denom)

\* compute_velocity_growth_pct.  split = oldest + max(newest - oldest, 0)
\* * 0.5 is kept doubled, in half-milliseconds; a sample before it adds
\* to prev_sum, any other to curr_sum.  With both halves non-empty the
\* means are compared, otherwise the front and back samples; the
\* baseline's magnitude is floored at 1.
VelocityGrowthPct(samples) ==
    IF Len(samples) < 2 THEN Rat(0, 1)
    ELSE
    LET oldest == samples[1].wall
        newest == samples[Len(samples)].wall
        split  == 2 * oldest + (IF newest > oldest THEN newest - oldest ELSE 0)
        prev   == {i \in DOMAIN samples : 2 * samples[i].wall < split}
        curr   == DOMAIN samples \ prev
        Mean(I) == Rat(MapThenSumSet(LAMBDA i : samples[i].vel, I), Cardinality(I))
        both   == prev # {} /\ curr # {}
        baseline == IF both THEN Mean(prev) ELSE Rat(samples[1].vel, 1)
        current  == IF both THEN Mean(curr) ELSE Rat(samples[Len(samples)].vel, 1)
        denom    == IF RatAbs(baseline).num >= baseline.den THEN RatAbs(baseline) ELSE Rat(1, 1)
        diff     == RatSub(current, baseline)
    IN  RatDivPos(Rat(100 * diff.num, diff.den), denom)

\* metrics() for a non-empty window: ratios, span in ms, per-second rates
\* (count / (span_ms / 1000)), growth and the latest velocity.
WindowMetrics(samples) ==
    LET m    == Metrics(samples)
        span == SpanMs(samples)
    IN  [total |-> m.total, guest |-> m.guest, verified |-> m.verified,
         guestRatio |-> Rat(m.guest, m.total),
         verifiedRatio |-> Rat(m.verified, m.total),
         spanMs |-> span,
         guestRate |-> Rat(1000 * m.guest, span),
         verifiedRate |-> Rat(1000 * m.verified, span),
         growth |-> VelocityGrowthPct(samples),
         latestVelocity |-> samples[Len(samples)].vel]
=============================================================================
