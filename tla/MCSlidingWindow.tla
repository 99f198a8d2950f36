------------------------------ MODULE MCSlidingWindow ------------------------------
(* metrics() over every window of up to three samples whose wall-clock    *)
(* stamps are 0, 1 or 2 ms and never decrease along the deque (the        *)
(* producer stamps them in arrival order), velocities -4, 0, 1 and 3 bps  *)
(* and every guest / verified marking.  Equal stamps reach the 1 ms span  *)
(* floor and the one-sided split; [0, 1, 2] puts a sample exactly on the  *)
(* temporal midpoint.                                                     *)
EXTENDS SlidingWindow, SequencesExt

VARIABLE input

Sample == [wall : {0, 1, 2}, vel : {-4, 0, 1, 3}, guest : BOOLEAN, verified : BOOLEAN]

Ordered(s) == \A i \in 1..(Len(s) - 1) : s[i].wall <= s[i + 1].wall

Windows == {s \in UNION {[1..n -> Sample] : n \in 0..3} : Ordered(s)}

Init == input \in Windows
Next == UNCHANGED input
Spec == Init /\ [][Next]_input

-----------------------------------------------------------------------------
(* Spec 4.2, restated over the window in time order *)

RefMean(q) == Rat(FoldSeq(LAMBDA x, acc : x.vel + acc, 0, q), Len(q))

\* The mean velocity of the half after the temporal midpoint against the
\* half before it, or the last sample against the first when a half is
\* empty, relative to the baseline's magnitude floored at 1.
RefGrowth(s) ==
    IF Len(s) < 2 THEN Rat(0, 1)
    ELSE
    LET stamps == {s[i].wall : i \in DOMAIN s}
        mid2   == Min(stamps) + Max(stamps)
        early  == SelectSeq(s, LAMBDA x : 2 * x.wall < mid2)
        late   == SelectSeq(s, LAMBDA x : 2 * x.wall >= mid2)
        halves == early # <<>> /\ late # <<>>
        b == IF halves THEN RefMean(early) ELSE Rat(Head(s).vel, 1)
        c == IF halves THEN RefMean(late) ELSE Rat(Last(s).vel, 1)
        mag == IF RatAbs(b).num > b.den THEN RatAbs(b) ELSE Rat(1, 1)
    IN  Rat(100 * (c.num * b.den - b.num * c.den) * mag.den, c.den * b.den * mag.num)

RefSpanMs(s) == LET w == {s[i].wall : i \in DOMAIN s} IN Max({Max(w) - Min(w), 1})

-----------------------------------------------------------------------------
\* metrics() computes what spec 4.2 defines: None for an empty window;
\* otherwise the guest and verified ratios, the span between the oldest
\* and newest stamp floored at 1 ms, the per-second rates over that span,
\* and the velocity growth between the two halves around the temporal
\* midpoint (or the first and last sample), relative to the baseline's
\* magnitude floored at 1.
MetricsMatchSpec ==
    IF input = <<>>
    THEN Metrics(input) = NoMetrics
    ELSE LET m   == WindowMetrics(input)
             g   == CountWhere(input, LAMBDA x : x.guest)
             v   == CountWhere(input, LAMBDA x : x.verified)
             sec == Rat(RefSpanMs(input), 1000)
         IN  /\ RatEq(m.guestRatio, Rat(g, Len(input)))
             /\ RatEq(m.verifiedRatio, Rat(v, Len(input)))
             /\ m.spanMs = RefSpanMs(input)
             /\ RatEq(m.guestRate, RatDivPos(Rat(g, 1), sec))
             /\ RatEq(m.verifiedRate, RatDivPos(Rat(v, 1), sec))
             /\ RatEq(m.growth, RefGrowth(input))
             /\ m.latestVelocity = Last(input).vel

\* compute_velocity_growth_pct follows the trend: a window whose velocity
\* never falls from one sample to the next reports no negative growth,
\* and one whose velocity never rises reports no positive growth, whether
\* the halves or the first and last sample are compared.
GrowthFollowsTrend ==
    Len(input) >= 1 =>
    LET g == VelocityGrowthPct(input)
        steps == 1..(Len(input) - 1)
    IN  /\ (\A i \in steps : input[i].vel <= input[i + 1].vel) => g.num * g.den >= 0
        /\ (\A i \in steps : input[i].vel >= input[i + 1].vel) => g.num * g.den <= 0
=============================================================================
