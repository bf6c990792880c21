----------------------------- MODULE MCSignals ------------------------------
(* What is measured: short waveforms and responses, sampled records, and   *)
(* the start of an oscillation.                                            *)
EXTENDS Waveform, Oscillator, TLC
-----------------------------------------------------------------------------
(* Every waveform of six samples at four levels, and every trace of five   *)
(* points at four magnitudes with a turning phase.                         *)

Waves  == {[x |-> [i \in 1 .. 6 |-> 12 * i], y |-> y] : y \in [1 .. 6 -> 0 .. 3]}
Angles == {<<0, -60, -120, 180, 120>>, <<120, 180, -120, -60, 0>>}
Names  == [real |-> "V", imag |-> "V", ir |-> "A", ii |-> "A", or |-> "V", oi |-> "V"]
Traces == {[log |-> [i \in 1 .. 5 |-> 12 * i], db |-> db, angle |-> a, units |-> Names,
            zero |-> [i \in 1 .. 5 |-> FALSE]] : db \in [1 .. 5 -> {-6, -3, 0, 3}], a \in Angles}
-----------------------------------------------------------------------------
Cut == [start |-> 24, stop |-> 60]
Edge(kind, n)  == [kind |-> kind, lower |-> 1, upper |-> 2, occurrence |-> n]
Reach(d, t)    == [kind |-> "crossing", threshold |-> t, direction |-> d, occurrence |-> 1]
Hold(t, h)     == [kind |-> "settling_time", target |-> t, tolerance |-> 1, reference |-> 24, hold |-> h]
Windowed(r)      == r @@ [window |-> Cut]
Response(kind) == [kind |-> kind, interpretation |-> "loop-gain-negative-feedback",
                   input |-> <<"real", "imag">>, output |-> <<"or", "oi">>]

WaveHolds(s) ==
    /\ \A k \in {"rise_time", "fall_time"}, n \in 1 .. 2 : OneEdge(s, Edge(k, n)) /\ OneEdge(s, Windowed(Edge(k, n)))
    /\ \A d \in {"rising", "falling"}, t \in 1 .. 2 : SeparateCrossings(s, Reach(d, t)) /\ SeparateCrossings(s, Windowed(Reach(d, t)))
    /\ \A t \in {0, 2}, h \in {12, 24} : Steady(s, Hold(t, h)) /\ Steady(s, Windowed(Hold(t, h)))
    /\ Sloped(s, [kind |-> "slope"]) /\ Sloped(s, Windowed([kind |-> "slope"]))
TraceHolds(t) ==
    /\ OneFall(t, Response("bandwidth_3db"), t.db[1] - 3)
    /\ \A k \in {"unity_gain_frequency", "phase_margin"} : OneFall(t, Response(k), 0)
    /\ Followed(t)
-----------------------------------------------------------------------------
(* Records of sixteen samples, requests about every tone in them, and the  *)
(* powers of a few spectra.                                                *)

Vectors == {[p \in Places |-> IF p \in S THEN 1 ELSE 0] : S \in kSubset(2, Places) \cup kSubset(1, Places) \cup kSubset(7, 0 .. 7)}
Uniformly == [i \in 1 .. Length |-> i]
Spectra == {[b \in Bins |-> (b * b + 3) % 5], [b \in Bins |-> IF b % 3 = 0 THEN 0 ELSE 9 - b], [b \in Bins |-> 1]}
Requests ==
    {[length |-> Length, method |-> "coherent-single-tone-fft", lower |-> band[1], upper |-> band[2], fundamental |-> f,
      orders |-> o, metric |-> "snr", domain |-> d, reference |-> "none", alignment |-> "openada-definition"] :
        band \in {<<0, 32>>, <<2, 30>>, <<4, 20>>, <<8, 34>>}, f \in {4 * b : b \in 0 .. 8} \cup {6},
        o \in {p \in SUBSET {2, 3, 4, 5, 7, 11} : Cardinality(p) <= 3}, d \in {"generic", "adc"}}

SpectrumHolds(r) == \A s \in Spectra : PartitionIsTrue(r, Uniformly, s)
-----------------------------------------------------------------------------
(* An even oscillation of thirteen samples, of which single samples are    *)
(* replaced, seen through three windows.                                   *)

Levels   == {-5, -4, -1, 0, 1, 3, 4, 5}
BaseWave == [i \in 1 .. 13 |-> IF i % 2 = 1 THEN -4 ELSE 4]
At(tenths) == (tenths * Step) \div 10

Request(start, stop, hold) ==
    [id |-> "f", signals |-> {"p", "n", "v", "i"}, start |-> At(start), stop |-> At(stop), cycles |-> 2,
     search |-> 0, hold |-> At(hold), minimum |-> 6, hysteresis |-> 3, periodDeviation |-> 5,
     amplitudeDeviation |-> 20, samples |-> 3, orientation |-> "positive_into_load"]
Windows == {Request(40, 120, 40), Request(55, 120, 61), [Request(20, 90, 20) EXCEPT !.minimum = 9],
             [Request(20, 100, 40) EXCEPT !.samples = 5]}
Source   == [role |-> "measurement.source", series |-> "wave", artifact |-> "wave", conditions |-> [vctl |-> 1, temp |-> 27],
             conditionsDigest |-> [vctl |-> 1, temp |-> 27], lineage |-> "unverified"]

OscillationHolds(w) ==
    \A r \in Windows : /\ CrossingsAreReal(w, r) /\ FiguresAreReal(w, r) /\ VerdictIsReal(w, r)
                        /\ ReceiptIsReal(w, r, Source)
-----------------------------------------------------------------------------
(* Frequencies over uneven controls, from receipts that differ in their    *)
(* control, and one that may differ elsewhere, or never have started.      *)
Controls == <<1, 2, 4, 5>>
Grids    == [f : [1 .. 4 -> 0 .. 2], odd : 1 .. 4, how : {"same", "temp", "method", "flat", "again"}]
Bound(v, t) == [Source EXCEPT !.conditions = [vctl |-> v, temp |-> t], !.conditionsDigest = [vctl |-> v, temp |-> t]]
PointReceipt(v, how) ==
    CASE how = "temp"   -> ReceiptOf(BaseWave, Request(40, 120, 40), Bound(v, 85))
      [] how = "method" -> ReceiptOf(BaseWave, Request(55, 120, 61), Bound(v, 27))
      [] how = "flat"   -> ReceiptOf([BaseWave EXCEPT ![12] = -5], Request(40, 120, 40), Bound(v, 27))
      [] how = "again"  -> ReceiptOf(BaseWave, Request(40, 120, 40), Bound(3, 27))
      [] how = "same"   -> ReceiptOf(BaseWave, Request(40, 120, 40), Bound(v, 27))
GridHolds(g) ==
    /\ GainsAreReal(Controls, g.f)
    /\ GridIsReal(Controls, [i \in 1 .. 4 |-> PointReceipt(Controls[i], IF i = g.odd THEN g.how ELSE "same")], "vctl", g.f)
=============================================================================
