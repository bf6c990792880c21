------------------------------ MODULE Waveform ------------------------------
(***************************************************************************)
(* The scalars of a series: result.measure (operations/result_measure.py), *)
(* result.transfer.measure (operations/result_transfer_measure.py) and     *)
(* result.spectral.measure (operations/result_spectral_measure.py).        *)
(*                                                                         *)
(* A series is a sequence of samples with an axis; a trace, of magnitudes  *)
(* in dB and phases in degrees over the logarithm of the frequency. The    *)
(* numbers are integers or ratios of integers: what the code computes in   *)
(* binary floating point is computed exactly here. The transform of a      *)
(* sampled record is written over a finite field in which Root has the     *)
(* order of the largest record; the powers of the bins are given to the    *)
(* rest, and a frequency counts quarters of a bin.                         *)
(***************************************************************************)
EXTENDS Integers, Sequences, FiniteSets, SequencesExt

CONSTANTS Prime,    \* the order of the field
          Root,     \* a root of unity in it
          Length    \* its order, the length of a record: 8 or 16

Least(S)    == CHOOSE n \in S : \A m \in S : n <= m
Greatest(S) == CHOOSE n \in S : \A m \in S : n >= m
Abs(n)      == IF n < 0 THEN -n ELSE n
Ratio(n, d) == [num |-> n, den |-> d]
Sum(q)      == FoldLeft(LAMBDA a, b : a + b, 0, q)

NotFound   == [status |-> "not_found"]
Refused    == [status |-> "refused"]
Unresolved == [status |-> "unknown"]
Measured(value, at) == [status |-> "measured", value |-> value, at |-> at]
-----------------------------------------------------------------------------
(* _normalize_series: as many values as points, and an axis that grows.    *)
Normal(s) ==
    /\ Len(s.x) >= 1 /\ Len(s.y) = Len(s.x)
    /\ \A i \in 1 .. Len(s.x) - 1 : s.x[i] < s.x[i + 1]

(* The window of a request: all of the axis if it declares none.           *)
Window(s, r) == IF "window" \in DOMAIN r THEN r.window ELSE [start |-> s.x[1], stop |-> Last(s.x)]
Indices(s, w) == {i \in DOMAIN s.x : w.start <= s.x[i] /\ s.x[i] <= w.stop}

(* The value at a coordinate: a sample, or between two of them.            *)
SampleAt(s, at, interpolation) ==
    LET i == Least({j \in DOMAIN s.x : s.x[j] >= at}) IN
    IF s.x[i] = at THEN Measured(Ratio(s.y[i], 1), at)
    ELSE IF interpolation = "linear" THEN Measured(Ratio(s.y[i - 1] * (s.x[i] - s.x[i - 1])
                                                 + (s.y[i] - s.y[i - 1]) * (at - s.x[i - 1]),
                                               s.x[i] - s.x[i - 1]), at)
    ELSE NotFound

(* The segments inside the window that cross the threshold. A sample on    *)
(* the threshold belongs to the far side.                                  *)
Rises(s, i, t) == s.y[i] < t /\ t <= s.y[i + 1]
Falls(s, i, t) == s.y[i] > t /\ t >= s.y[i + 1]
Crosses(s, i, t, direction) ==
    \/ direction \in {"rising", "either"} /\ Rises(s, i, t)
    \/ direction \in {"falling", "either"} /\ Falls(s, i, t)
CrossingAt(s, i, t) ==
    s.x[i] + (Abs(t - s.y[i]) * (s.x[i + 1] - s.x[i])) \div Abs(s.y[i + 1] - s.y[i])
Crossed(s, t, direction, w) ==
    {i \in 1 .. Len(s.x) - 1 : s.x[i] >= w.start /\ s.x[i + 1] <= w.stop /\ Crosses(s, i, t, direction)}
Nth(S, k) == CHOOSE i \in S : Cardinality({j \in S : j <= i}) = k
Crossings(s, t, direction, w) ==
    LET crossed == Crossed(s, t, direction, w)
    IN [k \in 1 .. Cardinality(crossed) |-> CrossingAt(s, Nth(crossed, k), t)]

Extreme(s, w, kind) ==
    LET values == {s.y[i] : i \in Indices(s, w)}
        value  == IF kind = "minimum" THEN Least(values) ELSE Greatest(values)
    IN IF values = {} THEN NotFound
       ELSE Measured(Ratio(value, 1), s.x[Least({i \in Indices(s, w) : s.y[i] = value})])

(* Sums over the samples of the window: the mean, the square of the rms    *)
(* value, and the slope of the least-squares line.                         *)
Over(s, w, F(_, _)) == Sum([i \in DOMAIN s.x |-> IF i \in Indices(s, w) THEN F(s.x[i], s.y[i]) ELSE 0])
Mean(s, w, F(_, _)) ==
    IF Indices(s, w) = {} THEN NotFound
    ELSE Measured(Ratio(Over(s, w, F), Cardinality(Indices(s, w))), s.x[1])
Slope(s, w) ==
    LET n  == Cardinality(Indices(s, w))
        sx == Over(s, w, LAMBDA x, y : x)
        sy == Over(s, w, LAMBDA x, y : y)
    IN IF n < 2 THEN NotFound
       ELSE Measured(Ratio(n * Over(s, w, LAMBDA x, y : x * y) - sx * sy,
                           n * Over(s, w, LAMBDA x, y : x * x) - sx * sx), s.x[1])

AnyLaterEnd(starts, ends, n) ==   \* mutation: the next edge does not close this one
    {k \in DOMAIN ends : ends[k] >= starts[n]}

(* The ends that belong to the n-th start: before the next one.            *)
EndsOf(starts, ends, n) ==
    {k \in DOMAIN ends : ends[k] >= starts[n] /\ (n < Len(starts) => ends[k] < starts[n + 1])}
Transition(s, w, kind, lower, upper, n) ==
    LET rising == kind = "rise_time"
        direction == IF rising THEN "rising" ELSE "falling"
        starts == Crossings(s, IF rising THEN lower ELSE upper, direction, w)
        ends   == Crossings(s, IF rising THEN upper ELSE lower, direction, w)
    IN IF lower >= upper THEN Refused
       ELSE IF Len(starts) < n THEN NotFound
       ELSE IF EndsOf(starts, ends, n) = {} THEN NotFound
       ELSE LET end == ends[Least(EndsOf(starts, ends, n))]
                     IN Measured(Ratio(end - starts[n], 1), end)

(* Settled: the earliest sample from which on all are inside, and which    *)
(* lies far enough before the last one.                                    *)
Settling(s, w, r) ==
    LET seen   == {i \in Indices(s, w) : s.x[i] >= r.reference}
        inside == {i \in seen : \A j \in seen : j >= i => Abs(s.y[j] - r.target) <= r.tolerance}
        held   == {i \in inside : s.x[Greatest(seen)] - s.x[i] >= r.hold}
    IN IF r.tolerance <= 0 \/ r.hold <= 0 \/ ~(s.x[1] <= r.reference /\ r.reference <= Last(s.x)) THEN Refused
       ELSE IF held = {} THEN NotFound
       ELSE Measured(Ratio(s.x[Least(held)] - r.reference, 1), s.x[Least(held)])

Measure(s, r) ==
    LET w == Window(s, r) IN
    IF ~Normal(s) \/ ("window" \in DOMAIN r /\ w.start >= w.stop) THEN Refused
    ELSE CASE r.kind = "sample_at" -> IF s.x[1] <= r.at /\ r.at <= Last(s.x)
                                 THEN SampleAt(s, r.at, r.interpolation) ELSE Refused
      [] r.kind \in {"minimum", "maximum"} -> Extreme(s, w, r.kind)
      [] r.kind = "mean"  -> Mean(s, w, LAMBDA x, y : y)
      [] r.kind = "rms"   -> Mean(s, w, LAMBDA x, y : y * y)
      [] r.kind = "slope" -> Slope(s, w)
      [] r.kind = "crossing" ->
            LET found == Crossings(s, r.threshold, r.direction, w)
            IN IF Len(found) < r.occurrence THEN NotFound
               ELSE Measured(Ratio(found[r.occurrence], 1), found[r.occurrence])
      [] r.kind \in {"rise_time", "fall_time"} ->
            Transition(s, w, r.kind, r.lower, r.upper, r.occurrence)
      [] r.kind = "settling_time" -> Settling(s, w, r)
-----------------------------------------------------------------------------
(* A trace has the unit of each signal, the ratio of output to input at    *)
(* each point (zero: one of the two is zero there), and its angle. A       *)
(* differential operand has both terminals or neither.                     *)
Operand(names) == Len(names) \in {2, 4}
WellNamed(t, r) ==
    /\ Operand(r.input) /\ Operand(r.output) /\ IsInjective(r.input \o r.output)
    /\ ToSet(r.input \o r.output) \subseteq DOMAIN t.units
UnitsOf(t, names) == {t.units[n] : n \in ToSet(names)}
(* Two like quantities, or volts over amperes for an impedance.            *)
UnitsFit(t, r) ==
    IF r.kind = "low_frequency_impedance"
    THEN UnitsOf(t, r.output) = {"V"} /\ UnitsOf(t, r.input) = {"A"}
    ELSE UnitsOf(t, r.output) = UnitsOf(t, r.input) /\ Cardinality(UnitsOf(t, r.input)) = 1
FitsContext(r) == r.kind = "phase_margin" => r.interpretation = "loop-gain-negative-feedback"

(* The principal angle is in [-180, 180); each further one is brought to   *)
(* within half a turn of the one before it.                                *)
Principal(a) == IF a >= 180 THEN a - 360 ELSE a
Nearest(a, previous) == a + 360 * ((previous - a + 179) \div 360)
Unwrapped(angles) ==
    LET phase[i \in 1 .. Len(angles)] ==
            IF i = 1 THEN Principal(angles[1]) ELSE Nearest(Principal(angles[i]), phase[i - 1])
    IN phase

(* A falling crossing, on a line over the logarithm of the frequency.      *)
FallsThrough(t, i, level) == t.db[i] > level /\ t.db[i + 1] <= level
CrossingOf(t, i, level) ==
    LET part(q) == q[i] + ((t.db[i] - level) * (q[i + 1] - q[i])) \div (t.db[i] - t.db[i + 1])
    IN [log |-> part(t.log), phase |-> part(Unwrapped(t.angle))]
FallingCrossings(t, level) ==
    LET falling == {i \in 1 .. Len(t.db) - 1 : FallsThrough(t, i, level)}
    IN [k \in 1 .. Cardinality(falling) |-> CrossingOf(t, Nth(falling, k), level)]

AnySingle(crossings) == IF crossings = <<>> THEN "not_found" ELSE "measured"   \* mutation: the first of many
CrossingStatus(crossings) ==
    CASE crossings = <<>> -> "not_found" [] Len(crossings) = 1 -> "measured" [] OTHER -> "ambiguous"
OfCrossing(crossings, value(_)) ==
    CASE CrossingStatus(crossings) = "not_found" -> NotFound
      [] CrossingStatus(crossings) = "ambiguous" -> Unresolved
      [] OTHER -> Measured(Ratio(value(crossings[1]), 1), crossings[1].log)

MagnitudeAt(t, at) ==
    LET i == Least({j \in DOMAIN t.log : t.log[j] >= at}) IN
    IF t.log[i] = at THEN Measured(Ratio(t.db[i], 1), at)
    ELSE Measured(Ratio(t.db[i - 1] * (t.log[i] - t.log[i - 1]) + (at - t.log[i - 1]) * (t.db[i] - t.db[i - 1]),
                        t.log[i] - t.log[i - 1]), at)

Bandwidth(t) == FallingCrossings(t, t.db[1] - 3)
Unity(t)     == FallingCrossings(t, 0)
Transfer(t, r) ==
    IF Len(t.log) < 2 \/ ~(WellNamed(t, r) /\ UnitsFit(t, r) /\ FitsContext(r)) THEN Refused
    ELSE IF \E i \in DOMAIN t.zero : t.zero[i] THEN Unresolved
    ELSE CASE r.kind \in {"low_frequency_gain_db", "low_frequency_impedance"} ->
            Measured(Ratio(t.db[1], 1), t.log[1])
      [] r.kind = "ac_magnitude_at_frequency" ->
            IF t.log[1] <= r.at /\ r.at <= Last(t.log) THEN MagnitudeAt(t, r.at) ELSE Refused
      [] r.kind = "bandwidth_3db"         -> OfCrossing(Bandwidth(t), LAMBDA c : c.log)
      [] r.kind = "unity_gain_frequency"  -> OfCrossing(Unity(t), LAMBDA c : c.log)
      [] r.kind = "phase_margin"          -> OfCrossing(Unity(t), LAMBDA c : 180 + c.phase)
-----------------------------------------------------------------------------
(* A measured edge is one edge of the waveform: from its start to its end  *)
(* the samples stay between the two thresholds. Two crossings in the same  *)
(* direction have a sample before the threshold between them. A settled    *)
(* waveform was outside right before, and stays inside until the end.      *)
Between(s, from, to) == {i \in DOMAIN s.x : from < s.x[i] /\ s.x[i] < to}
OneEdge(s, r) ==
    LET m == Measure(s, r) IN m.status = "measured" =>
        /\ m.value.num > 0
        /\ \A i \in Between(s, m.at - m.value.num, m.at) : r.lower <= s.y[i] /\ s.y[i] <= r.upper
SeparateCrossings(s, r) ==
    LET nth(n) == Measure(s, [r EXCEPT !.occurrence = n])
    IN \A n \in 1 .. Len(s.x) : nth(n + 1).status = "measured" =>
           /\ nth(n).at <= nth(n + 1).at
           /\ \E i \in DOMAIN s.x : /\ nth(n).at <= s.x[i] /\ s.x[i] < nth(n + 1).at
                                    /\ IF r.direction = "rising" THEN s.y[i] < r.threshold
                                                                  ELSE s.y[i] > r.threshold
Steady(s, r) ==
    LET m == Measure(s, r)
        seen == {i \in Indices(s, Window(s, r)) : s.x[i] >= r.reference}
        out(i) == Abs(s.y[i] - r.target) > r.tolerance
    IN /\ m.status = "measured" =>
            /\ \A i \in seen : s.x[i] >= m.at => ~out(i)
            /\ \A i \in seen : s.x[i] < m.at => \E j \in seen : s.x[i] <= s.x[j] /\ s.x[j] < m.at /\ out(j)
       /\ m.status = "not_found" =>
            \A i \in seen : (\E j \in seen : s.x[j] - s.x[i] >= r.hold) =>
                \E j \in seen : j >= i /\ out(j)
Sloped(s, r) ==
    LET m == Measure(s, r) IN m.status = "measured" =>
        LET w == Window(s, r)
            climbs(sign) == \A i, j \in Indices(s, w) : i < j => sign * s.y[i] <= sign * s.y[j]
        IN /\ climbs(1) => m.value.num >= 0
           /\ climbs(-1) => m.value.num <= 0
           /\ m.value.den > 0

(* A measured bandwidth is the only place where the response falls to its  *)
(* threshold, so that it is below on one stretch only; with a unity gain   *)
(* also on a stretch at the start. The phase is followed without a jump.   *)
Stretches(t, level) == {i \in DOMAIN t.db : t.db[i] <= level /\ (i = 1 \/ t.db[i - 1] > level)}
OneFall(t, r, level) ==
    LET m == Transfer(t, r) IN
    /\ m.status = "measured" => Cardinality(Stretches(t, level) \ {1}) = 1
    /\ m.status = "measured" /\ r.kind # "phase_margin" =>
          \E i \in Stretches(t, level) \ {1} : t.log[i - 1] <= m.value.num /\ m.value.num <= t.log[i]
    /\ m.status = "not_found" => Stretches(t, level) \subseteq {1}
Followed(t) ==
    LET u == Unwrapped(t.angle) IN
    /\ \A i \in DOMAIN u : (u[i] - t.angle[i]) % 360 = 0
    /\ \A i \in 1 .. Len(u) - 1 : u[i + 1] - u[i] < 180 /\ u[i + 1] - u[i] >= -180
-----------------------------------------------------------------------------
Quarters == 4
Places   == 0 .. Length - 1
Bins     == 0 .. Length \div 2
Power(n) == LET power[k \in 0 .. Length] == IF k = 0 THEN 1 ELSE (Root * power[k - 1]) % Prime IN power[n % Length]
Widths   == SelectSeq(<<2, 4, 8, 16>>, LAMBDA w : w <= Length)
-----------------------------------------------------------------------------
(* The place of the next sample in bit-reversed order: the highest bits    *)
(* that are set are cleared, and the next one is set.                      *)
Reversed(place) ==
    LET carry[bit \in 0 .. Length, target \in Places] ==
            IF bit > 0 /\ (target \div bit) % 2 = 1 THEN carry[bit \div 2, target - bit] ELSE target + bit
        after[n \in Places] == IF n = 0 THEN 0 ELSE carry[Length \div 2, after[n - 1]]
    IN after[place]
Shuffled(v) == [p \in Places |-> v[Reversed(p)]]

(* One round of butterflies: each of a half with its partner in the other. *)
Butterflies(v, width) ==
    LET half == width \div 2
        even(p) == v[(p - (p % width)) + (p % half)]
        odd(p)  == v[(p - (p % width)) + (p % half) + half] * Power((Length \div width) * (p % half))
    IN [p \in Places |-> IF p % width < half THEN (even(p) + odd(p)) % Prime ELSE (even(p) - odd(p)) % Prime]
Fft(v) == LET round[k \in 0 .. Len(Widths)] == IF k = 0 THEN Shuffled(v) ELSE Butterflies(round[k - 1], Widths[k])
          IN round[Len(Widths)]

(* The transform it stands for, and a tone of n cycles in the record.      *)
Dft(v)  == [k \in Places |-> FoldFunction(+, 0, [n \in Places |-> v[n] * Power(k * n)]) % Prime]
Tone(n) == [p \in Places |-> (Power(n * p) + Power((Length - (n % Length)) * p)) % Prime]
-----------------------------------------------------------------------------
PlainFold(frequency) == frequency % (Length * Quarters)   \* mutation: the upper half is not mirrored

(* A frequency folded below half of the sampling rate, and its bin.        *)
Fold(frequency) ==
    LET rate == Length * Quarters IN Min({frequency % rate, rate - (frequency % rate)})
OnBin(frequency)      == frequency % Quarters = 0
NearestBin(frequency) == (frequency + Quarters \div 2) \div Quarters

(* What a request declares fits the record and the method.                 *)
References == [generic |-> [reference |-> "none", alignment |-> "openada-definition"],
               adc |-> [reference |-> "ieee-1241-2023", alignment |-> "candidate"],
               dac |-> [reference |-> "ieee-1658-2023", alignment |-> "candidate"],
               waveform_recorder |-> [reference |-> "ieee-1057-2017", alignment |-> "candidate"]]
SpectralRequestFits(r, count) ==
    /\ r.length = count /\ count >= 8 /\ count \in {2, 4, 8, 16}
    /\ r.method = "coherent-single-tone-fft"
    /\ 0 <= r.lower /\ r.lower < r.upper
    /\ r.fundamental > 0
    /\ \A o \in r.orders : 2 <= o /\ o <= 64
    /\ r.metric \in {"snr", "sinad", "thd", "sfdr"}
    /\ r.domain \in DOMAIN References
    /\ References[r.domain] = [reference |-> r.reference, alignment |-> r.alignment]
Uniform(axis) == \A i \in 2 .. Len(axis) - 1 : axis[i + 1] - axis[i] = axis[2] - axis[1]

Band(r)        == {b \in Bins : r.lower <= b * Quarters /\ b * Quarters <= r.upper}
Fundamental(r) == NearestBin(r.fundamental)
FundamentalFits(r) ==
    /\ r.upper <= (Length \div 2) * Quarters
    /\ OnBin(r.fundamental)
    /\ 0 < Fundamental(r) /\ Fundamental(r) < Length \div 2
    /\ Fundamental(r) \in Band(r)

(* Every harmonic has a bin of its own, neither DC nor another component.  *)
HarmonicBin(r, order) == NearestBin(Fold(order * Fundamental(r) * Quarters))
HarmonicsFit(r) ==
    /\ \A o \in r.orders : HarmonicBin(r, o) \notin {0, Fundamental(r)}
    /\ \A o, q \in r.orders : o # q => HarmonicBin(r, o) # HarmonicBin(r, q)
Harmonics(r) == {HarmonicBin(r, o) : o \in r.orders} \cap Band(r)
Residual(r)  == Band(r) \ {0, Fundamental(r)}
Noise(r)     == Residual(r) \ Harmonics(r)

PowerOf(powers, bins) == FoldFunctionOnSet(+, 0, powers, bins)
Spur(r, powers) ==
    CHOOSE b \in Residual(r) : \A c \in Residual(r) : powers[b] > powers[c] \/ (powers[b] = powers[c] /\ b <= c)
Numerator(r, powers)   == IF r.metric = "thd" THEN PowerOf(powers, Harmonics(r)) ELSE powers[Fundamental(r)]
Denominator(r, powers) ==
    CASE r.metric = "snr"   -> PowerOf(powers, Noise(r))
      [] r.metric = "sinad" -> PowerOf(powers, Residual(r))
      [] r.metric = "thd"   -> powers[Fundamental(r)]
      [] r.metric = "sfdr"  -> IF Residual(r) = {} THEN 0 ELSE powers[Spur(r, powers)]

(* The answer: a ratio, or why there is none.                              *)
MeasureSpectrum(r, axis, powers) ==
    IF ~(SpectralRequestFits(r, Len(axis)) /\ Uniform(axis) /\ FundamentalFits(r) /\ HarmonicsFit(r)) THEN [status |-> "refused"]
    ELSE IF powers[Fundamental(r)] = 0 THEN [status |-> "not_found"]
    ELSE IF Numerator(r, powers) = 0 \/ Denominator(r, powers) = 0 THEN [status |-> "unknown"]
    ELSE [status |-> "measured", num |-> Numerator(r, powers), den |-> Denominator(r, powers),
                   at |-> IF r.metric = "sfdr" THEN Spur(r, powers) ELSE Fundamental(r)]
-----------------------------------------------------------------------------
(* The fast transform is the transform.                                    *)
TransformIsTrue(v) == Fft(v) = Dft(v)

(* In an accepted partition a harmonic is read from the only bin that its  *)
(* tone reaches, below the aliases of all others, and the band is split    *)
(* without a bin counted twice or lost. A ratio over more of the band is   *)
(* never better, and nothing in the band exceeds the spur.                 *)
PartitionIsTrue(r, axis, powers) ==
    LET m(metric) == MeasureSpectrum([r EXCEPT !.metric = metric], axis, powers)
        worse(a, b) == m(a).status = "measured" /\ m(b).status = "measured"
                          => m(a).num * m(b).den <= m(b).num * m(a).den
    IN m("snr").status # "refused" =>
        /\ \A o \in r.orders \cup {1} :
             {b \in Bins : Dft(Tone(o * Fundamental(r)))[b] # 0} = {HarmonicBin(r, o)}
        /\ PowerOf(powers, Band(r) \ {0}) = powers[Fundamental(r)] + PowerOf(powers, Harmonics(r)) + PowerOf(powers, Noise(r))
        /\ worse("sinad", "snr") /\ worse("sinad", "sfdr")
        /\ m("sfdr").status = "measured" =>
             \A b \in Band(r) \ {0, Fundamental(r)} : powers[b] <= powers[m("sfdr").at]
=============================================================================
