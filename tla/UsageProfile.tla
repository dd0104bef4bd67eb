---- MODULE UsageProfile ----
\* What a circuit draws: the template's own model of it (engine.py), the recorder's
\* watts in its place, and the usage profile that ha_api/profile_builder.py computes
\* from the recorder and profile_applicator.py writes into the template.  Pure
\* functions, over exact fractions where the code has floats; noise is left out, and
\* so are months, seasons and the weather, which scale every hour of a day alike.
EXTENDS Integers, FiniteSets, FiniteSetsExt, Folds

CONSTANTS HoursPerDay, DaysPerWeek,
          Evening,     \* the hours a load that responds to the grid is reduced in
          Night,       \* the hours a load without a profile sleeps in
          CycleOn,     \* the hours in which a cycling load is on
          Sunlight,    \* [hours -> Nat] tenths of its nameplate a producer yields
          MinPoints,   \* records below which no active days are guessed
          None

Hours == 0 .. HoursPerDay - 1
Days == 0 .. DaysPerWeek - 1
Slots == Days \X Hours

ASSUME UsageAssumption ==
    /\ HoursPerDay \in Nat \ {0} /\ DaysPerWeek \in Nat \ {0}
    /\ Evening \cup Night \cup CycleOn \subseteq Hours
    /\ Sunlight \in [Hours -> Nat] /\ MinPoints \in Nat

------------------------------------------------------------------------
\* Fractions, in lowest terms so that equal ones are the same value

Gcd[p \in Nat \X Nat] == IF p[2] = 0 THEN p[1] ELSE Gcd[<<p[2], p[1] % p[2]>>]
Fraction(n, d) == LET g == Gcd[<<n, d>>] IN [n |-> n \div g, d |-> d \div g]
Whole(n) == Fraction(n, 1)
Zero == Whole(0)
Plus(x, y) == Fraction(x.n * y.d + y.n * x.d, x.d * y.d)
Minus(x, y) == Fraction(x.n * y.d - y.n * x.d, x.d * y.d)
Times(x, y) == Fraction(x.n * y.n, x.d * y.d)
Over(x, y) == Fraction(x.n * y.d, x.d * y.n)
Below(x, y) == x.n * y.d < y.n * x.d
Sum(S, f(_)) == MapThenFoldSet(Plus, Zero, f, LAMBDA T : CHOOSE s \in T : TRUE, S)
Mean(S, f(_)) == Over(Sum(S, f), Whole(Cardinality(S)))
Largest(S, f(_)) == CHOOSE x \in {f(s) : s \in S} : \A s \in S : ~Below(x, f(s))

------------------------------------------------------------------------
\* The usage profile of what the recorder holds of a circuit: one mean for each
\* weekday and hour it saw.

Seen(recorded) == {s \in Slots : recorded[s] # None}
At(recorded, S) == Mean(S, LAMBDA s : Whole(recorded[s]))
SeenAt(recorded, h) == {s \in Seen(recorded) : s[2] = h}
SeenOn(recorded, d) == {s \in Seen(recorded) : s[1] = d}

\* _nearest_in_cycle: how far to the nearest hour of O, one way round the day or
\* the other.
Nearest(O, h, way) ==
    CHOOSE k \in 1 .. HoursPerDay :
        /\ (h + way * k) % HoursPerDay \in O
        /\ \A j \in 1 .. k - 1 : (h + way * j) % HoursPerDay \notin O

\* _interpolate_hourly_gaps: an hour never seen lies between its neighbours, each
\* weighted by the distance to the other.
Interpolated(mean, h) ==
    LET O == DOMAIN mean
        back == Nearest(O, h, -1)
        ahead == Nearest(O, h, 1)
        before == mean[(h - back) % HoursPerDay]
        after == mean[(h + ahead) % HoursPerDay]
    IN  Over(Plus(Times(after, Whole(back)), Times(before, Whole(ahead))), Whole(back + ahead))

\* _compute_hour_factors: the shape of a day, 1 at its peak.
HourFactors(recorded) ==
    LET mean == [h \in {s[2] : s \in Seen(recorded)} |-> At(recorded, SeenAt(recorded, h))]
        filled == [h \in Hours |-> IF h \in DOMAIN mean THEN mean[h] ELSE Interpolated(mean, h)]
        peak == Largest(Hours, LAMBDA h : filled[h])
    IN  [h \in Hours |-> Over(filled[h], peak)]

\* _compute_active_days: the days with a tenth of the busiest day's mean; no day
\* at all stands for every day.
ActiveDays(recorded) ==
    LET days == {s[1] : s \in Seen(recorded)}
        mean(d) == At(recorded, SeenOn(recorded, d))
        peak == Largest(days, mean)
        active == {d \in days : ~Below(Times(mean(d), Whole(10)), peak)}
    IN  IF Cardinality(Seen(recorded)) < MinPoints \/ active = Days THEN {} ELSE active

\* _compute_profile finds nothing to say of a circuit that was never seen to draw.
HasProfile(recorded) == \E s \in Seen(recorded) : recorded[s] > 0

\* apply_usage_profiles: a consumer takes the mean, every template the day's shape
\* and a duty cycle, in place of whatever profile it had.
Profiled(template, recorded) ==
    [template EXCEPT
        !.typical = IF template.mode = "consumer" THEN At(recorded, Seen(recorded)) ELSE @,
        !.day = [factors |-> HourFactors(recorded), drawn |-> None, peak |-> {},
                 active |-> ActiveDays(recorded)],
        !.cycle = "duty",
        !.modified = FALSE]

------------------------------------------------------------------------
\* The template's own model

\* Mutant: the factors are used as they are, 1 at the peak.
ShapedUnscaled(base, day, s) ==
    IF day # None /\ day.factors # None THEN Times(base, day.factors[s[2]]) ELSE base

\* _apply_time_of_day_modulation.  The factors of a profile average below 1, so
\* they are scaled to average 1; the multipliers drawn in the editor are not.
Shaped(base, day, s) ==
    CASE day = None -> base
      [] day # None /\ day.active # {} /\ s[1] \notin day.active -> Zero
      [] OTHER ->
            IF day.factors # None
            THEN LET mean == Mean(Hours, LAMBDA h : day.factors[h])
                 IN  IF mean = Zero THEN Zero
                     ELSE Times(Over(base, mean), day.factors[s[2]])
            ELSE IF day.drawn # None THEN Times(base, day.drawn[s[2]])
            ELSE IF s[2] \in day.peak THEN Times(base, Fraction(13, 10))
            ELSE IF s[2] \in Night THEN Times(base, Fraction(3, 10))
            ELSE base

\* _apply_cycling_behavior: the hourly means of a profile have the cycles in them.
Cycled(base, template, s) ==
    IF \/ template.cycle = "none"
       \/ template.cycle = "duty" /\ template.day # None /\ template.day.factors # None
       \/ s[2] \in CycleOn
    THEN base ELSE Zero

\* _apply_smart_behavior, at its default reduction.
Spared(base, template, s) ==
    IF template.smart /\ s[2] \in Evening THEN Times(base, Fraction(1, 2)) ELSE base

\* The clamp to the template's power_range, which starts at no power.
Clamped(power, most) == IF Below(most, power) THEN most ELSE power

\* _synthetic_circuit_power without its noise.
Synthetic(template, s) ==
    LET base == IF template.mode = "producer"
                THEN Times(template.most, Fraction(Sunlight[s[2]], 10))
                ELSE Shaped(IF template.own = None THEN template.typical ELSE template.own,
                            template.day, s)
    IN  Clamped(Spared(Cycled(base, template, s), template, s), template.most)

\* _power_from_recorder_if_applicable, then the template's own model.  A circuit
\* that was edited leaves the recording, except in the model's Before pass.
\* Mutant: the Before pass leaves it too.
PowerAsEdited(template, recorded, s, baseline) ==
    IF template.entity /\ ~template.modified /\ recorded[s] # None
    THEN Whole(recorded[s]) ELSE Synthetic(template, s)
Power(template, recorded, s, baseline) ==
    IF template.entity /\ (baseline \/ ~template.modified) /\ recorded[s] # None
    THEN Whole(recorded[s]) ELSE Synthetic(template, s)
====
