----------------------------- MODULE Oscillator -----------------------------
(***************************************************************************)
(* Does it oscillate, and how fast: result.oscillator.measure              *)
(* (operations/result_osc_measure.py), for a transient, and for a grid or  *)
(* a pair of the receipts it leaves.                                       *)
(*                                                                         *)
(* A wave is the difference of its two signals at even times, Step apart,  *)
(* in integers, a line between two samples. Step has the divisors that     *)
(* make every crossing and every mean of a few periods an integer. A value *)
(* at a time is Step times what the code computes. A digest is what it is  *)
(* the digest of. The average power is left out.                           *)
(***************************************************************************)
EXTENDS Integers, Sequences, FiniteSets, FiniteSetsExt, SequencesExt

CONSTANT Step   \* the time between two samples, a multiple of 151200

NoTime       == -1
Size(n)    == IF n < 0 THEN -n ELSE n
TimeOf(i)  == (i - 1) * Step
Total(q)   == LET sum[k \in 0 .. Len(q)] == IF k = 0 THEN 0 ELSE sum[k - 1] + q[k] IN sum[Len(q)]
-----------------------------------------------------------------------------
(* The value of a wave at a time; the points of a stretch are its ends and *)
(* the samples inside it.                                                  *)
Value(w, at) ==
    LET i == at \div Step + 1
    IN IF at % Step = 0 THEN w[i] * Step ELSE w[i] * Step + (w[i + 1] - w[i]) * (at % Step)
Breakpoints(w, from, to) == {from, to} \cup {TimeOf(i) : i \in {j \in DOMAIN w : from < TimeOf(j) /\ TimeOf(j) < to}}
PeakToPeak(w, from, to) ==
    LET values == {Value(w, at) : at \in Breakpoints(w, from, to)} IN Max(values) - Min(values)

(* A candidate does not outlive a return below the hysteresis.             *)
StillPending(pending, low) == pending   \* mutation: two excursions are spliced together
Returned(pending, low)     == IF low THEN NoTime ELSE pending

(* The rising zeros confirmed by the hysteresis: armed by a low sample,    *)
(* pending from a zero, found at a high sample.                            *)
ZeroIn(w, i) == TimeOf(i) + ((-w[i]) * Step) \div (w[i + 1] - w[i])
RisesIn(w, i) == w[i] < 0 /\ 0 <= w[i + 1]
Segment(w, h, s, i) ==
    LET low     == w[i] <= -h \/ w[i + 1] <= -h
        armed   == s.armed \/ low
        kept    == Returned(s.pending, low)
        pending == IF armed /\ kept = NoTime /\ RisesIn(w, i) THEN ZeroIn(w, i) ELSE kept
    IN IF pending # NoTime /\ (w[i] >= h \/ w[i + 1] >= h)
       THEN [armed |-> FALSE, pending |-> NoTime, found |-> Append(s.found, pending)]
       ELSE [armed |-> armed, pending |-> pending, found |-> s.found]
HystereticCrossings(w, first, last, h) ==
    LET scan[i \in first .. last] ==
            IF i = first THEN [armed |-> w[first] <= -h, pending |-> NoTime, found |-> <<>>]
            ELSE Segment(w, h, scan[i - 1], i - 1)
    IN scan[last].found

(* Each cycle with its period, its amplitude and its number of points.     *)
Cycles(w, c) ==
    [k \in 1 .. Len(c) - 1 |-> [period    |-> c[k + 1] - c[k],
                                amplitude |-> PeakToPeak(w, c[k], c[k + 1]),
                                samples   |-> Cardinality(Breakpoints(w, c[k], c[k + 1]))]]
Field(cycles, f) == [k \in DOMAIN cycles |-> cycles[k][f]]
Deviation(q) == [num |-> Max({Size(q[k] * Len(q) - Total(q)) : k \in DOMAIN q}), den |-> Total(q)]
Tolerated(d, percent) == d.num * 100 <= percent * d.den
-----------------------------------------------------------------------------
(* The figures of a range of cycles, kept in a segment tree.               *)
Leaf(c) == [shortest |-> c.period, longest |-> c.period, least |-> c.amplitude, most |-> c.amplitude,
            sum |-> c.amplitude, samples |-> c.samples, count |-> 1]
Nothing == [count |-> 0]
Merge(a, b) ==
    IF a = Nothing THEN b ELSE IF b = Nothing THEN a
    ELSE [shortest |-> Min({a.shortest, b.shortest}), longest |-> Max({a.longest, b.longest}),
          least |-> Min({a.least, b.least}), most |-> Max({a.most, b.most}),
          sum |-> a.sum + b.sum, samples |-> Min({a.samples, b.samples}), count |-> a.count + b.count]
TreeSize(cycles) == Min({s \in {1, 2, 4, 8, 16} : s >= Len(cycles)})
Tree(cycles) ==
    LET size == TreeSize(cycles)
        node[k \in 1 .. 2 * size - 1] ==
            IF k < size THEN Merge(node[2 * k], node[2 * k + 1])
            ELSE IF k - size < Len(cycles) THEN Leaf(cycles[k - size + 1]) ELSE Nothing
    IN node

(* The cycles from the first to before the last, both counted from zero.   *)
OverRange(tree, size, first, last) ==
    LET climb(s, level) ==
            IF s.from >= s.to THEN s
            ELSE LET left  == s.from % 2 = 1
                     right == s.to % 2 = 1
                 IN [from  |-> (IF left THEN s.from + 1 ELSE s.from) \div 2,
                     to    |-> (IF right THEN s.to - 1 ELSE s.to) \div 2,
                     left  |-> IF left THEN Merge(s.left, tree[s.from]) ELSE s.left,
                     right |-> IF right THEN Merge(tree[s.to - 1], s.right) ELSE s.right]
        top == FoldLeft(climb, [from |-> first + size, to |-> last + size, left |-> Nothing, right |-> Nothing],
                        <<1, 2, 3, 4, 5>>)
    IN Merge(top.left, top.right)

(* The first crossing from which the cycles of the hold, three at least,   *)
(* are large, sampled and even enough.                                     *)
HoldEnd(c, k, hold) ==
    Max({k + 3, Min({j \in DOMAIN c : c[j] >= c[k] + hold} \cup {Len(c) + 1})})
Even(s, total, r) ==
    /\ s.least >= r.minimum * Step /\ s.samples >= r.samples
    /\ Tolerated([num |-> Max({Size(s.shortest * s.count - total), Size(s.longest * s.count - total)}), den |-> total],
              r.periodDeviation)
    /\ Tolerated([num |-> Max({Size(s.least * s.count - s.sum), Size(s.most * s.count - s.sum)}), den |-> s.sum],
              r.amplitudeDeviation)
Active(cycles, r) == \E k \in DOMAIN cycles : cycles[k].amplitude >= r.minimum * Step
Started(c, cycles, r) ==
    LET tree == Tree(cycles)
        end(k) == HoldEnd(c, k, r.hold)
        holds == {k \in 1 .. Len(cycles) - 2 :
                    /\ end(k) <= Len(c)
                    /\ Even(OverRange(tree, TreeSize(cycles), k - 1, end(k) - 1), c[end(k)] - c[k], r)}
    IN IF Len(c) < 2 \/ ~Active(cycles, r) \/ holds = {} THEN NoTime ELSE c[Min(holds)]
-----------------------------------------------------------------------------
TransientRequestFits(r) ==
    /\ Cardinality(r.signals) = 4
    /\ r.start < r.stop /\ r.cycles >= 2
    /\ r.hold > 0 /\ r.minimum > 0 /\ r.hysteresis > 0
    /\ r.search <= r.start /\ r.hold <= r.stop - r.search
    /\ r.periodDeviation \in 0 .. 5 /\ r.amplitudeDeviation \in 0 .. 20
    /\ r.samples >= 3
    /\ r.orientation \in {"positive_into_load", "positive_into_source"}
WindowFits(w, r) == /\ 0 <= r.search /\ r.stop <= TimeOf(Len(w))
                    /\ r.search % Step = 0 /\ r.stop % Step = 0   \* bound: the search is cut at samples

(* What the late window shows: its mean period (the middle one of all the  *)
(* cycles if it has none), whether it is covered from the first crossing   *)
(* to the last, and the amplitude of its last period.                      *)
Middle(q) == SortSeq(q, <)[Len(q) \div 2 + 1]
LateView(w, r, all, cycles, late) ==
    LET mean  == IF Len(late) >= 2 THEN (Last(late) - late[1]) \div (Len(late) - 1)
                 ELSE Middle(Field(cycles, "period"))
        tail  == Max({r.start, r.stop - mean})
    IN IF Len(all) < 2 THEN [leading |-> FALSE, trailing |-> FALSE, tail |-> r.start,
                             amplitude |-> PeakToPeak(w, r.start, r.stop), seen |-> FALSE]
       ELSE [leading  |-> late # <<>> /\ late[1] - r.start <= mean,
             trailing |-> late # <<>> /\ 10 * (r.stop - Last(late)) <= 11 * mean,
             tail |-> tail, amplitude |-> PeakToPeak(w, tail, r.stop), seen |-> TRUE]

Flag(name, holds) == IF holds THEN {name} ELSE {}
Flags(r, view, late, lateCycles) ==
    LET low == r.minimum * Step
        faded == Len(late) >= 2 /\ \E k \in DOMAIN lateCycles : lateCycles[k].amplitude < low
    IN Flag("window_not_fully_covered", view.seen /\ ~(view.leading /\ view.trailing))
       \cup Flag("amplitude_below_minimum", view.seen /\ (faded \/ view.amplitude < low))
       \cup Flag("late_crossings_insufficient", Len(late) < r.cycles + 1)
       \cup (IF Len(late) < 2 THEN {}
             ELSE Flag("period_inconsistent", ~Tolerated(Deviation(Field(lateCycles, "period")), r.periodDeviation))
                  \cup Flag("amplitude_inconsistent", ~Tolerated(Deviation(Field(lateCycles, "amplitude")), r.amplitudeDeviation))
                  \cup Flag("sampling_resolution_insufficient", \E k \in DOMAIN lateCycles : lateCycles[k].samples < r.samples))

(* A collapse needs a complete cycle after the onset as its evidence.      *)
Failures(r, started, view, late, lateCycles) ==
    IF started = NoTime THEN {}
    ELSE {late[k] : k \in {j \in DOMAIN lateCycles : lateCycles[j].amplitude < r.minimum * Step /\ late[j] >= started}}
         \cup (IF /\ Len(late) >= 2 /\ ~view.trailing
                  /\ view.amplitude < r.minimum * Step
                  /\ Last(lateCycles).amplitude >= r.minimum * Step THEN {view.tail} ELSE {})

TransientVerdict(r, started, active, view, late, flags, failures) ==
    IF "sampling_resolution_insufficient" \in flags THEN "unknown"
    ELSE IF started = NoTime THEN IF active THEN "not_sustained" ELSE "never_started"
    ELSE IF failures # {} THEN "collapsed"
    ELSE IF \/ started > r.start \/ ~view.leading \/ ~view.trailing
            \/ flags \cap {"late_crossings_insufficient", "amplitude_below_minimum"} # {} THEN "not_sustained"
    ELSE IF flags \cap {"period_inconsistent", "amplitude_inconsistent"} # {} THEN "multimode"
    ELSE "sustained"

(* The crossings are in order, so those in the window are the last ones.   *)
LateOf(all, from) == SubSeq(all, Min({k \in DOMAIN all : all[k] >= from} \cup {Len(all) + 1}), Len(all))
CrossingsOf(w, r) == HystereticCrossings(w, r.search \div Step + 1, r.stop \div Step + 1, r.hysteresis)
Answer(w, r, late, lates, started, seen, failed, verdict) ==
    [status |-> verdict, crossings |-> late, started |-> started,
     collapse |-> IF verdict = "collapsed" THEN Min({r.stop, Max({started, Min(failed)})}) ELSE NoTime,
     flags |-> seen \cup Flag("startup_hold_not_met", started = NoTime /\ verdict = "not_sustained")
                    \cup Flag("oscillation_activity_absent", verdict = "never_started"),
     elapsed |-> IF verdict = "sustained" THEN late[r.cycles + 1] - late[1] ELSE NoTime,
     amplitude |-> PeakToPeak(w, r.start, r.stop),
     deviation |-> IF Len(late) < 2 THEN <<>>
                   ELSE [period |-> Deviation(Field(lates, "period")), amplitude |-> Deviation(Field(lates, "amplitude")),
                         samples |-> Min({lates[k].samples : k \in DOMAIN lates})]]
Judged(w, r, late, lates, active, started, view, seen, failed) ==
    Answer(w, r, late, lates, started, seen, failed, TransientVerdict(r, started, active, view, late, seen, failed))
Viewed(w, r, late, lates, active, started, view) ==
    Judged(w, r, late, lates, active, started, view, Flags(r, view, late, lates), Failures(r, started, view, late, lates))
OfCycles(w, r, all, cycles, late) ==
    Viewed(w, r, late, Cycles(w, late), Active(cycles, r), Started(all, cycles, r), LateView(w, r, all, cycles, late))
OfCrossings(w, r, all) == OfCycles(w, r, all, Cycles(w, all), LateOf(all, r.start))
Transient(w, r)        == OfCrossings(w, r, CrossingsOf(w, r))
MeasureTransient(w, r) ==
    IF TransientRequestFits(r) /\ WindowFits(w, r) THEN Transient(w, r) ELSE [status |-> "refused"]
-----------------------------------------------------------------------------
(* What a transient leaves for a grid or a pair: the request, its digests, *)
(* the window, the source with its conditions, and the verdict with its    *)
(* figures.                                                                *)
MethodOf(r) == [f \in DOMAIN r \ {"id"} |-> r[f]]
WindowOf(r, series) == [series |-> series, start |-> r.start, stop |-> r.stop, signals |-> r.signals]
Metric(value, status, window) == [value |-> value, status |-> status, window |-> window]
IfSustained(m, value) == IF m.status = "sustained" THEN value ELSE <<>>
Body(m, r, source, status, window) ==
    [id |-> r.id, status |-> m.status, request |-> r, requestDigest |-> r, method |-> MethodOf(r),
     series |-> source.series, windowDigest |-> window, source |-> source,
     window |-> window, cycles |-> r.cycles,
     frequency |-> Metric(IfSustained(m, <<r.cycles, m.elapsed>>), status, window),
     period    |-> Metric(IfSustained(m, <<m.elapsed, r.cycles>>), status, window),
     amplitude |-> Metric(m.amplitude, "measured", window),
     power     |-> Metric(0, "measured", window),
     startup   |-> [status |-> m.status, at |-> m.started, collapse |-> m.collapse,
                    time |-> IF m.started = NoTime THEN NoTime ELSE m.started - r.search,
                    search |-> r.search, hold |-> r.hold, minimum |-> r.minimum],
     quality   |-> [status |-> IF m.status = "sustained" THEN "pass" ELSE IF m.status = "unknown" THEN "unknown" ELSE "fail",
                    observed |-> m.deviation, flags |-> m.flags, periodDeviation |-> r.periodDeviation,
                    amplitudeDeviation |-> r.amplitudeDeviation, samples |-> r.samples]]
Sealed(body)            == body @@ [digest |-> body]
Receipt(m, r, source)   ==
    Sealed(Body(m, r, source, IF m.status = "sustained" THEN "measured" ELSE m.status, WindowOf(r, source.series)))
ReceiptOf(w, r, source) == Receipt(MeasureTransient(w, r), r, source)

(* The checks a receipt passes before it is composed with others.          *)
MetricFits(metric, receipt, status, none) ==
    /\ metric.status = status /\ metric.window = receipt.windowDigest
    /\ (metric.value = <<>>) = none
SourceFits(source) ==
    /\ source.role = "measurement.source" /\ source.artifact = source.series
    /\ source.conditionsDigest = source.conditions
    /\ source.lineage \in {"none", "unverified"}
StartupFits(s, r, status) ==
    /\ s.status = status
    /\ s.search = r.search /\ s.hold = r.hold /\ s.minimum = r.minimum
    /\ (s.at = NoTime) = (s.time = NoTime)
    /\ s.at # NoTime => /\ r.search <= s.at /\ s.at <= r.stop - r.hold
                      /\ s.time = s.at - r.search
    /\ (status = "collapsed") = (s.collapse # NoTime)
    /\ status = "never_started" => s.at = NoTime
    /\ s.collapse # NoTime => s.at # NoTime /\ s.at <= s.collapse /\ s.collapse <= r.stop
    /\ status \in {"sustained", "multimode"} => s.at # NoTime
KnownFlags == {"period_inconsistent", "amplitude_inconsistent", "sampling_resolution_insufficient",
               "amplitude_below_minimum", "window_not_fully_covered", "late_crossings_insufficient",
               "startup_hold_not_met", "oscillation_activity_absent"}
QualityFits(q, r, status) ==
    /\ q.status = (CASE status = "sustained" -> "pass" [] status = "unknown" -> "unknown" [] OTHER -> "fail")
    /\ q.periodDeviation = r.periodDeviation /\ q.amplitudeDeviation = r.amplitudeDeviation /\ q.samples = r.samples
    /\ q.flags \subseteq KnownFlags
    /\ status = "sustained" =>
         /\ q.flags = {} /\ q.observed # <<>>
         /\ Tolerated(q.observed.period, r.periodDeviation) /\ Tolerated(q.observed.amplitude, r.amplitudeDeviation)
         /\ q.observed.samples >= r.samples
    /\ status = "multimode" => q.flags \cap {"period_inconsistent", "amplitude_inconsistent"} # {}
Verdicts == {"sustained", "never_started", "not_sustained", "collapsed", "multimode", "unknown"}
ReceiptFits(t) ==
    LET r == t.request
        sustained == t.status = "sustained"
        status == IF sustained THEN "measured" ELSE t.status
    IN /\ t.digest = [f \in DOMAIN t \ {"digest"} |-> t[f]]
       /\ t.status \in Verdicts
       /\ TransientRequestFits(r) /\ r.id = t.id /\ t.requestDigest = r /\ t.method = MethodOf(r)
       /\ t.window = WindowOf(r, t.series) /\ t.windowDigest = t.window /\ t.cycles = r.cycles
       /\ SourceFits(t.source) /\ t.source.series = t.series
       /\ MetricFits(t.frequency, t, status, ~sustained) /\ MetricFits(t.period, t, status, ~sustained)
       /\ t.amplitude.status = "measured" /\ t.power.status = "measured"
       /\ t.amplitude.window = t.windowDigest /\ t.power.window = t.windowDigest
       /\ t.amplitude.value >= 0
       /\ sustained => /\ t.amplitude.value >= r.minimum * Step
                       /\ t.frequency.value[1] > 0 /\ t.period.value[1] > 0
                       /\ t.frequency.value[1] * t.period.value[1] = t.frequency.value[2] * t.period.value[2]
       /\ StartupFits(t.startup, r, t.status) /\ QualityFits(t.quality, r, t.status)
-----------------------------------------------------------------------------
(* A grid: receipts of one method that differ in one condition only, which *)
(* grows. A pair: two of them. Conditions are a function from names.       *)
Context(receipt, name) == [c \in DOMAIN receipt.source.conditions \ {name} |-> receipt.source.conditions[c]]
Alike(receipts, name) ==
    \A i, j \in DOMAIN receipts : /\ receipts[i].method = receipts[j].method
                                  /\ Context(receipts[i], name) = Context(receipts[j], name)
Distinct(receipts) == \A i, j \in DOMAIN receipts : i # j => receipts[i].digest # receipts[j].digest
BoundTo(receipts, name, values) ==
    \A i \in DOMAIN receipts : /\ ReceiptFits(receipts[i])
                              /\ name \in DOMAIN receipts[i].source.conditions
                              /\ receipts[i].source.conditions[name] = values[i]
GridFits(controls, receipts, name) ==
    /\ Len(controls) >= 3 /\ BoundTo(receipts, name, controls)
    /\ \A i \in 1 .. Len(controls) - 1 : controls[i] < controls[i + 1]
    /\ Distinct(receipts) /\ Alike(receipts, name)
ShiftFits(values, receipts, name) ==
    /\ Len(values) = 2 /\ BoundTo(receipts, name, values)
    /\ values[1] # values[2] /\ Distinct(receipts) /\ Alike(receipts, name)

(* The slope at each point of the quadratic through it and its neighbours, *)
(* at the ends of the line to the neighbour; ratios.                       *)
Gain(x, f, i) ==
    LET n == Len(x)
        secant(a, b) == [num |-> f[b] - f[a], den |-> x[b] - x[a]]
        h0 == x[i] - x[i - 1]
        h1 == x[i + 1] - x[i]
    IN IF i = 1 THEN secant(1, 2)
       ELSE IF i = n THEN secant(n - 1, n)
       ELSE [num |-> h1 * h1 * (f[i] - f[i - 1]) + h0 * h0 * (f[i + 1] - f[i]), den |-> h0 * h1 * (h0 + h1)]
Monotonicity(f) ==
    LET rises == \E i \in 1 .. Len(f) - 1 : f[i] < f[i + 1]
        falls == \E i \in 1 .. Len(f) - 1 : f[i] > f[i + 1]
    IN CASE ~rises /\ ~falls -> "constant" [] rises /\ ~falls -> "nondecreasing"
         [] ~rises /\ falls -> "nonincreasing" [] rises /\ falls -> "non_monotonic"
(* Whether every receipt of a composition has a frequency.                 *)
AllSustained(receipts) == \A i \in DOMAIN receipts : receipts[i].status = "sustained"
GridAnswer(controls, receipts, name, f, expected) ==
    IF ~GridFits(controls, receipts, name) THEN [status |-> "refused"]
    ELSE IF ~AllSustained(receipts) THEN [status |-> "unknown"]
    ELSE [status |-> "measured", gains |-> [i \in DOMAIN controls |-> Gain(controls, f, i)],
          span |-> Max({f[i] : i \in DOMAIN f}) - Min({f[i] : i \in DOMAIN f}),
          check |-> IF Monotonicity(f) \in {"constant", expected} THEN "pass" ELSE "fail"]
ShiftAnswer(values, receipts, name, f) ==
    IF ~ShiftFits(values, receipts, name) THEN [status |-> "refused"]
    ELSE IF ~AllSustained(receipts) THEN [status |-> "unknown"]
    ELSE [status |-> "measured", signed |-> f[2] - f[1], absolute |-> Size(f[2] - f[1])]
-----------------------------------------------------------------------------
(* A crossing is a rising zero with a low sample before and a high sample  *)
(* after it, none of either in between, and the first such zero.           *)
Extremes(w, h) == {i \in DOMAIN w : w[i] <= -h \/ w[i] >= h}
IsCrossing(w, first, last, h, i) ==
    LET before == {j \in Extremes(w, h) : first <= j /\ j <= i}
        after  == {j \in Extremes(w, h) : i < j /\ j <= last}
    IN /\ RisesIn(w, i)
       /\ before # {} /\ w[Max(before)] < 0
       /\ after # {} /\ w[Min(after)] > 0
       /\ \A k \in Max(before) .. i - 1 : ~RisesIn(w, k)
CrossingsAreReal(w, r) ==
    LET first == r.search \div Step + 1
        last  == r.stop \div Step + 1
    IN ToSet(CrossingsOf(w, r)) =
         {ZeroIn(w, i) : i \in {k \in first .. last - 1 : IsCrossing(w, first, last, r.hysteresis, k)}}

(* The tree gives the figures of a range, whichever it is.                 *)
FiguresAreReal(w, r) ==
    LET cycles == Cycles(w, CrossingsOf(w, r))
        tree == Tree(cycles)
        direct(a, b) == FoldLeft(LAMBDA s, c : Merge(s, Leaf(c)), Nothing, SubSeq(cycles, a + 1, b))
    IN cycles # <<>> => \A a \in 0 .. Len(cycles) - 1 : \A b \in a + 1 .. Len(cycles) :
                           OverRange(tree, TreeSize(cycles), a, b) = direct(a, b)

(* A sustained wave has its amplitude everywhere in the window, in every   *)
(* stretch of a little over two periods, and has started before it. One    *)
(* that collapsed has started too, and has a stretch after its collapse    *)
(* without the amplitude.                                                  *)
VerdictHolds(w, r, m) ==
    LET mean == (Last(m.crossings) - m.crossings[1]) \div (Len(m.crossings) - 1)
        enough(from, to) == PeakToPeak(w, from, to) >= r.minimum * Step
    IN /\ m.status = "sustained" =>
            /\ m.started <= r.start
            /\ \A at \in Breakpoints(w, r.start, r.stop) \cup ToSet(m.crossings) :
                 at + (22 * mean) \div 10 <= r.stop => enough(at, at + (22 * mean) \div 10)
            /\ enough(Max({r.start, r.stop - (22 * mean) \div 10}), r.stop)
       /\ m.status = "collapsed" =>
            /\ m.started <= m.collapse
            /\ \E to \in ToSet(m.crossings) \cup {r.stop} : m.collapse < to /\ ~enough(m.collapse, to)
       /\ m.status = "never_started" =>
            \A k \in 1 .. Len(CrossingsOf(w, r)) - 1 : ~enough(CrossingsOf(w, r)[k], CrossingsOf(w, r)[k + 1])
VerdictIsReal(w, r) == VerdictHolds(w, r, MeasureTransient(w, r))

(* A receipt of this operation is one it composes.                         *)
ReceiptIsReal(w, r, source) == ReceiptFits(ReceiptOf(w, r, source))

(* The gains of a curve without a turn agree with its direction, and those *)
(* of a quadratic are its slope.                                           *)
GainsAreReal(x, f) ==
    /\ \A i \in DOMAIN x : /\ Monotonicity(f) \in {"constant", "nondecreasing"} => Gain(x, f, i).num >= 0
                           /\ Monotonicity(f) \in {"constant", "nonincreasing"} => Gain(x, f, i).num <= 0
    /\ \A a, b \in -2 .. 2, i \in 2 .. Len(x) - 1 :
          LET g == Gain(x, [k \in DOMAIN x |-> a * x[k] * x[k] + b * x[k]], i)
          IN g.num = (2 * a * x[i] + b) * g.den

(* A grid is a grid of pairs: it is accepted, and has a frequency at every *)
(* point, exactly if every two of its points make a shift; none exceeds    *)
(* its span, and none goes against a direction it passed.                  *)
GridIsReal(x, receipts, name, f) ==
    LET grid(expected) == GridAnswer(x, receipts, name, f, expected)
        pair(i, j) == ShiftAnswer(<<x[i], x[j]>>, <<receipts[i], receipts[j]>>, name, <<f[i], f[j]>>)
        pairs == {p \in (DOMAIN x) \X (DOMAIN x) : p[1] < p[2]}
    IN /\ (grid("nondecreasing").status = "measured") = (\A p \in pairs : pair(p[1], p[2]).status = "measured")
       /\ grid("nondecreasing").status = "measured" => \A p \in pairs :
             /\ pair(p[1], p[2]).absolute <= grid("nondecreasing").span
             /\ grid("nondecreasing").check = "pass" => pair(p[1], p[2]).signed >= 0
             /\ grid("nonincreasing").check = "pass" => pair(p[1], p[2]).signed <= 0
=============================================================================
