---------------------------- MODULE ExperimentSpec ----------------------------
(***************************************************************************)
(* An experiment's document: its validation (operations/experiment.py),    *)
(* and what the runs of an accepted one ask of the binder                  *)
(* (pdk_bindings.py), of the extraction of series                          *)
(* (operations/result_series_extract.py) and of the measurements. Every    *)
(* check adds an issue and a document with any issue is refused: so the    *)
(* validator is the conjunction of its checks.                             *)
(*                                                                         *)
(* The lists of a document are sequences of records; what an element or a  *)
(* measurement is given is a function of its parameters' names. A scalar   *)
(* is an integer, a quantity has a value and a unit.                       *)
(***************************************************************************)
EXTENDS Waveform

CONSTANTS Lower,    \* the case-folded form of the names that are not lower case
          Initial,  \* the first letter, in upper case, of the names of elements
          Bundle,   \* the published device: its digests, top, ports and netlist
          Pdk,      \* the binding: its id, corners, models and global nodes
          PointLimit, ScalarLimit   \* what an extraction holds

Folded(name)    == IF name \in DOMAIN Lower THEN Lower[name] ELSE name
Every(q, Test(_)) == \A i \in DOMAIN q : Test(q[i])
Differ(q)       == IsInjective(q)
Ids(q)          == {q[i].id : i \in DOMAIN q}
Item(q, id)     == q[CHOOSE i \in DOMAIN q : q[i].id = id]
Unique(q)       == Differ([i \in DOMAIN q |-> q[i].id])
Has(f, key)     == key \in DOMAIN f
OfAnalysis(q, a) == SelectSeq(q, LAMBDA o : o.analysis = a.id)
-----------------------------------------------------------------------------
(* Elements: their cards' names, parameters and ranges.                    *)
Pulse  == {"initial_value", "pulsed_value", "delay_time", "rise_time", "fall_time", "pulse_width", "period"}
Sine   == {"dc", "amplitude", "freq", "delay", "damping"}
Needs  == [vdc |-> {"dc"}, idc |-> {"dc"}, vpulse |-> Pulse, ipulse |-> Pulse, vsin |-> Sine, isin |-> Sine,
           vpwl |-> {"dc", "points"}, ipwl |-> {"dc", "points"}, resistor |-> {"r"}, capacitor |-> {"c"}, inductor |-> {"l"}]
Voltage     == {"vdc", "vpulse", "vsin", "vpwl"}
Independent == Voltage \cup {"idc", "ipulse", "isin", "ipwl"}
Takes(kind) == Needs[kind] \cup (IF kind \in Independent THEN {"ac_mag", "ac_phase"}
                                 ELSE IF kind = "capacitor" THEN {"ic"} ELSE {})
Prefix(kind) == CASE kind \in Voltage -> "V" [] kind \in Independent \ Voltage -> "I"
                  [] kind = "resistor" -> "R" [] kind = "capacitor" -> "C" [] kind = "inductor" -> "L"
Emitted(e) == IF Initial[e.name] = Prefix(e.kind) THEN e.name ELSE Prefix(e.kind) \o "_" \o e.name

RangesFit(kind, p) ==
    /\ kind \in {"vpulse", "ipulse"} =>
         /\ p.delay_time >= 0 /\ p.rise_time >= 0 /\ p.fall_time >= 0
         /\ 0 < p.pulse_width /\ p.pulse_width <= p.period
    /\ kind \in {"vsin", "isin"} => p.freq > 0 /\ p.delay >= 0 /\ p.damping >= 0
PwlFits(points) ==
    /\ Len(points) >= 2 /\ points[1].time >= 0
    /\ \A i \in 1 .. Len(points) - 1 : points[i].time < points[i + 1].time
ParametersFit(e) ==
    /\ Needs[e.kind] \subseteq DOMAIN e.values /\ DOMAIN e.values \subseteq Takes(e.kind)
    /\ Has(e.values, "ac_mag") = Has(e.values, "ac_phase")
    /\ Has(e.values, "points") => PwlFits(e.values.points)
    /\ RangesFit(e.kind, e.values)
ElementsFit(d) ==
    /\ Every(d.elements, LAMBDA e : e.kind \in DOMAIN Needs /\ Folded(e.plus) # Folded(e.minus) /\ ParametersFit(e))
    /\ Differ([i \in DOMAIN d.elements |-> Folded(d.elements[i].name)])
    /\ Differ([i \in DOMAIN d.elements |-> Folded(Emitted(d.elements[i]))])
Element(d, name)  == d.elements[CHOOSE i \in DOMAIN d.elements : d.elements[i].name = name]
Named(d)          == {d.elements[i].name : i \in DOMAIN d.elements}
SourceOf(d, name) == name \in Named(d) /\ Element(d, name).kind \in Independent
-----------------------------------------------------------------------------
(* The device: the bundle at a locator, with all of its ports connected.   *)
DutFits(d) ==
    /\ d.dut.locator = "canonical" /\ d.dut.digests = Bundle.digests /\ d.dut.top = Bundle.top
    /\ DOMAIN d.dut.nets = ToSet(Bundle.ports) /\ "0" \notin ToSet(Bundle.ports)

(* The netlist: subcircuits of devices, one after the other.               *)
Depth(lines, i) == Cardinality({j \in 1 .. i : lines[j].card = "subckt"}) - Cardinality({j \in 1 .. i : lines[j].card = "ends"})
Isolated(lines) ==
    /\ \E i \in DOMAIN lines : lines[i].card = "subckt"
    /\ \A i \in DOMAIN lines : Depth(lines, i) \in {0, 1}
    /\ \A i \in DOMAIN lines : lines[i].card = "device" => Depth(lines, i) = 1
    /\ \A i \in DOMAIN lines : lines[i].card \notin {"subckt", "ends", "device", "comment"} => i = 1
    /\ Depth(lines, Len(lines)) = 0
Subcircuits == {Folded(Bundle.netlist[i].name) : i \in {j \in DOMAIN Bundle.netlist : Bundle.netlist[j].card = "subckt"}}

(* Nets: where each one is attached, one spelling for each, and none that  *)
(* dangles or floats.                                                      *)
Terminals(d) == {<<i, t>> : i \in DOMAIN d.elements, t \in {"plus", "minus"}}
Attached(d, net) == Cardinality({x \in Terminals(d) : d.elements[x[1]][x[2]] = net})
                    + Cardinality({p \in DOMAIN d.dut.nets : d.dut.nets[p] = net})
Bound(d)     == {d.dut.nets[p] : p \in DOMAIN d.dut.nets}
Nets(d)      == {d.elements[x[1]][x[2]] : x \in Terminals(d)} \cup Bound(d)
Spread(d, S) == S \cup {d.elements[i].plus : i \in {j \in DOMAIN d.elements : d.elements[j].minus \in S}}
                  \cup {d.elements[i].minus : i \in {j \in DOMAIN d.elements : d.elements[j].plus \in S}}
Anchored(d)  == FoldLeft(LAMBDA S, e : Spread(d, S), {"0"} \cup Bound(d), d.elements)
NetsFit(d) ==
    /\ \A n, m \in Nets(d) : Folded(n) = Folded(m) => n = m
    /\ "0" \in Nets(d)
    /\ \A n \in Nets(d) : Attached(d, n) >= 2
    /\ Nets(d) \subseteq Anchored(d)

(* No name of the document is one of the PDK's or of the device's.         *)
NamespacesFit(d) ==
    /\ {Folded(n) : n \in Nets(d) \ {"0"}} \cap Pdk.globals = {}
    /\ Isolated(Bundle.netlist) /\ Folded(Bundle.top) \in Subcircuits
    /\ (Subcircuits \cup {"x_openada_dut"}) \cap Pdk.models = {}
    /\ Every(d.elements, LAMBDA e : Folded(Emitted(e)) \notin Pdk.models \cup Subcircuits)

ConditionsFit(d, chosen) ==
    /\ d.pdk.id = chosen /\ d.pdk.id = Pdk.id /\ d.pdk.corner \in Pdk.corners
    /\ Has(d.pdk, "temperature") => -273 <= d.pdk.temperature /\ d.pdk.temperature <= 1000
-----------------------------------------------------------------------------
(* Analyses: their ranges, and how many points they are expected to have.  *)
Ceiling(n, m)     == (n + m - 1) \div m
Base              == [dec |-> 10, oct |-> 2]
Reaches(a, n)     == Base[a.sweep] ^ n * a.start ^ a.points >= a.stop ^ a.points
Intervals(a)      == CHOOSE n \in 0 .. 30 : Reaches(a, n) /\ \A k \in 0 .. n - 1 : ~Reaches(a, k)
From(a)           == IF Has(a, "start") THEN a.start ELSE 0
LongestStep(a)    == IF Has(a, "max_step") /\ a.max_step < a.step THEN a.max_step ELSE a.step
EstimatedPoints(a) ==
    CASE a.kind = "op"   -> 1
      [] a.kind = "ac"   -> IF a.sweep = "lin" THEN a.points ELSE Intervals(a) + 1
      [] a.kind = "dc"   -> Ceiling(a.stop - a.start, a.step) + 1
      [] a.kind = "tran" -> Ceiling(a.stop - From(a), LongestStep(a)) + 1

Magnitude(d, name) == LET v == Element(d, name).values IN IF Has(v, "ac_mag") THEN v.ac_mag ELSE 0
ExcitationFits(d, a) ==
    /\ a.excitation # <<>> /\ Differ(a.excitation)
    /\ Every(a.excitation, LAMBDA n : SourceOf(d, n))
    /\ \E n \in ToSet(a.excitation) : Magnitude(d, n) # 0
    /\ {n \in Named(d) : Magnitude(d, n) # 0} \subseteq ToSet(a.excitation)
SamplingFits(a) == Has(a, "count") => a.count \in {8, 16} /\ a.stop - From(a) = a.step * (a.count - 1)
AnalysisFits(d, a) ==
    /\ CASE a.kind = "op"   -> TRUE
         [] a.kind = "ac"   -> a.points >= 1 /\ 0 < a.start /\ a.start < a.stop /\ ExcitationFits(d, a)
         [] a.kind = "dc"   -> SourceOf(d, a.source) /\ a.start < a.stop /\ a.step > 0
         [] a.kind = "tran" -> /\ a.step > 0 /\ 0 <= From(a) /\ From(a) < a.stop
                               /\ Has(a, "max_step") => a.max_step > 0
                               /\ SamplingFits(a)
AnalysesFit(d) == d.analyses # <<>> /\ Unique(d.analyses) /\ Every(d.analyses, LAMBDA a : AnalysisFits(d, a))
AxisUnit(d, a) == CASE a.kind = "op" -> "1" [] a.kind = "ac" -> "Hz" [] a.kind = "tran" -> "s"
                    [] a.kind = "dc" -> IF Element(d, a.source).kind \in Voltage THEN "V" ELSE "A"
-----------------------------------------------------------------------------
(* Observations, and the native vectors they select.                       *)
IsVoltage(o)   == o.kind = "node_voltage"
Native(d, o)   == IF IsVoltage(o) THEN <<"v", Folded(o.of)>> ELSE <<"i", Folded(Emitted(Element(d, o.of)))>>
UnitOf(o)      == IF IsVoltage(o) THEN "V" ELSE "A"

AnyComponent(d, o) ==   \* mutation: an imaginary part of a real analysis
    /\ o.analysis \in Ids(d.analyses)
    /\ IF IsVoltage(o) THEN o.of \in Nets(d) ELSE o.of \in Named(d) /\ Element(d, o.of).kind \in Voltage

ObservationFits(d, o) ==
    /\ o.analysis \in Ids(d.analyses)
    /\ o.component = "imaginary" => Item(d.analyses, o.analysis).kind = "ac"
    /\ IF IsVoltage(o) THEN o.of \in Nets(d) ELSE o.of \in Named(d) /\ Element(d, o.of).kind \in Voltage
ObservationsFit(d) ==
    /\ Unique(d.observations) /\ Every(d.observations, LAMBDA o : ObservationFits(d, o))
    /\ Differ([i \in DOMAIN d.observations |->
                 LET o == d.observations[i] IN <<o.analysis, Native(d, o), o.component>>])
    /\ Differ(d.debug) /\ ToSet(d.debug) \subseteq Nets(d)

(* What the extraction would refuse later.                                 *)
Vectors(d, a) == {Native(d, o) : o \in ToSet(OfAnalysis(d.observations, a))}
ScalarsOf(d, a, points) == points * (1 + Cardinality(Vectors(d, a)) * (IF a.kind = "ac" THEN 2 ELSE 1))
ExtractionFits(d, a) ==
    Vectors(d, a) # {} => /\ EstimatedPoints(a) <= PointLimit
                          /\ ScalarsOf(d, a, EstimatedPoints(a)) <= ScalarLimit
-----------------------------------------------------------------------------
(* Measurements. The signals of a request are observations of its          *)
(* analysis, and every quantity has the unit of the signal or of the axis. *)
OverAxis   == {"at", "reference", "hold_for"}
AxisValued == {"crossing", "rise_time", "fall_time", "settling_time"}
QuantitiesFit(r, axis, signal) ==
    /\ \A q \in DOMAIN r.given : r.given[q].unit = (IF q \in OverAxis THEN axis ELSE signal)
    /\ Has(r, "window") => r.window.unit = axis /\ r.window.start < r.window.stop
    /\ r.kind \in {"rise_time", "fall_time"} => r.given.lower_threshold.value < r.given.upper_threshold.value
    /\ r.kind = "settling_time" => r.given.tolerance.value > 0 /\ r.given.hold_for.value > 0
OrdinaryUnit(r, axis, signal) ==
    CASE r.kind = "slope" -> signal \o "/" \o axis
      [] r.kind \in AxisValued -> axis
      [] OTHER -> signal

Among(d, a, names) == ToSet(names) \subseteq Ids(OfAnalysis(d.observations, a))
Part(i)            == IF i % 2 = 1 THEN "real" ELSE "imaginary"
Parts(d, names)    == \A i \in DOMAIN names : Item(d.observations, names[i]).component = Part(i)
Units(d, names)    == {UnitOf(Item(d.observations, n)) : n \in ToSet(names)}
TransferUnit == [low_frequency_gain_db |-> "dB", low_frequency_impedance |-> "Ohm", bandwidth_3db |-> "Hz",
                 ac_magnitude_at_frequency |-> "dB", unity_gain_frequency |-> "Hz", phase_margin |-> "deg"]
TransferFits(d, a, r) ==
    /\ a.kind = "ac"
    /\ Operand(r.input) /\ Operand(r.output) /\ Differ(r.input \o r.output)
    /\ r.unit = TransferUnit[r.kind] /\ FitsContext(r)
    /\ Has(r, "at") <=> r.kind = "ac_magnitude_at_frequency"
    /\ Among(d, a, r.input \o r.output) /\ Parts(d, r.input) /\ Parts(d, r.output)
    /\ IF r.kind = "low_frequency_impedance" THEN Units(d, r.input) = {"A"} /\ Units(d, r.output) = {"V"}
       ELSE Units(d, r.input) = Units(d, r.output)
SpectralFits(d, a, r) ==
    /\ a.kind = "tran" /\ Among(d, a, <<r.signal>>)
    /\ Has(a, "count") /\ r.length = a.count /\ SpectralRequestFits(r, a.count)
RequestFits(d, m) ==
    LET a == Item(d.analyses, m.analysis)  r == m.request IN
    CASE m.profile = "measure"  -> /\ Among(d, a, <<r.signal>>)
                                   /\ QuantitiesFit(r, AxisUnit(d, a), UnitOf(Item(d.observations, r.signal)))
      [] m.profile = "transfer" -> TransferFits(d, a, r)
      [] m.profile = "spectral" -> SpectralFits(d, a, r)
ExpectedUnit(d, m) ==
    CASE m.profile = "measure"  -> OrdinaryUnit(m.request, AxisUnit(d, Item(d.analyses, m.analysis)),
                                                UnitOf(Item(d.observations, m.request.signal)))
      [] m.profile = "transfer" -> TransferUnit[m.request.kind]
      [] m.profile = "spectral" -> "dB"
MeasurementsFit(d) ==
    /\ Unique(d.measurements)
    /\ Every(d.measurements, LAMBDA m : m.analysis \in Ids(d.analyses) /\ m.request.id = m.id /\ RequestFits(d, m))

(* A derivation subtracts two crossings of its analysis.                   *)
DerivationsFit(d) ==
    /\ Differ([i \in DOMAIN d.derivations |-> d.derivations[i].id])
    /\ Ids(d.derivations) \cap Ids(d.measurements) = {}
    /\ Every(d.derivations, LAMBDA s :
        /\ s.kind = "subtract" /\ s.analysis \in Ids(d.analyses)
        /\ ToSet(s.parents) \subseteq Ids(d.measurements)
        /\ LET up == {Item(d.measurements, n) : n \in ToSet(s.parents)} IN
           /\ \A m \in up : m.analysis = s.analysis /\ m.profile = "measure" /\ m.request.kind = "crossing"
           /\ Cardinality({ExpectedUnit(d, m) : m \in up}) = 1)

(* The checks of validate on the document and the names around it. It then *)
(* composes and binds the deck of every analysis, and refuses what cannot  *)
(* be: that it never has to is part of the promise below.                  *)
Accepted(d, chosen) ==
    /\ DutFits(d) /\ ElementsFit(d) /\ AnalysesFit(d) /\ ConditionsFit(d, chosen)
    /\ ObservationsFit(d) /\ Every(d.analyses, LAMBDA a : ExtractionFits(d, a))
    /\ MeasurementsFit(d) /\ DerivationsFit(d)
    /\ NetsFit(d) /\ NamespacesFit(d)
-----------------------------------------------------------------------------
(* The run of an analysis: what it saves, and the cards of its deck.       *)
Kept(q)          == FoldLeft(LAMBDA kept, x : IF x \in ToSet(kept) THEN kept ELSE Append(kept, x), <<>>, q)
Observed(d, a, kind) ==
    LET chosen == SelectSeq(OfAnalysis(d.observations, a), LAMBDA o : o.kind = kind)
    IN [i \in DOMAIN chosen |-> chosen[i].of]
SavedNets(d, a)  == Kept(Observed(d, a, "node_voltage") \o d.debug)
Retained(d, a)   == LET kept == Kept(Observed(d, a, "element_current"))
                    IN [i \in DOMAIN kept |-> Emitted(Element(d, kept[i]))]
Cards(d)         == <<"X_OPENADA_DUT">> \o [i \in DOMAIN d.elements |-> Emitted(d.elements[i])]
CardsCollide(d)  == ~Differ([i \in DOMAIN Cards(d) |-> Folded(Cards(d)[i])])

(* bind_deck: saved nets that differ, and currents of sources in the deck. *)
TopSources(d)    == {Folded(Emitted(d.elements[i])) : i \in {j \in DOMAIN d.elements : Prefix(d.elements[j].kind) = "V"}}
BinderTakes(d, a) ==
    /\ Differ([i \in DOMAIN SavedNets(d, a) |-> Folded(SavedNets(d, a)[i])])
    /\ Differ([i \in DOMAIN Retained(d, a) |-> Folded(Retained(d, a)[i])])
    /\ Every(Retained(d, a), LAMBDA n : Folded(n) \in TopSources(d))
-----------------------------------------------------------------------------
(* What is in the raw file of a completed run: the vectors that were asked *)
(* for, with all of them if none was. There is none for the ground.        *)
Asked(d, a) == {<<"v", Folded(n)>> : n \in ToSet(SavedNets(d, a))} \cup {<<"i", Folded(n)>> : n \in ToSet(Retained(d, a))}
Deck(d)     == {<<"v", Folded(n)>> : n \in Nets(d)} \cup {<<"i", n>> : n \in TopSources(d)}
Raw(d, a)   == (IF Asked(d, a) = {} THEN Deck(d) ELSE Asked(d, a) \cap Deck(d)) \ {<<"v", "0">>}
NativeUnit(vector) == IF vector[1] = "v" THEN "V" ELSE "A"

(* extract_result_series, given the selectors of the observations.         *)
Selectors(d, a) == LET chosen == OfAnalysis(d.observations, a)
                   IN [i \in DOMAIN chosen |-> [native |-> Native(d, chosen[i]), name |-> chosen[i].id,
                                                unit |-> UnitOf(chosen[i]), component |-> chosen[i].component]]
SelectorsFit(q) ==
    /\ Differ([i \in DOMAIN q |-> <<q[i].native, q[i].component>>])
    /\ Differ([i \in DOMAIN q |-> q[i].name])
Extracts(d, a) ==
    LET q == Selectors(d, a) IN
    /\ SelectorsFit(q)
    /\ Every(q, LAMBDA s : /\ s.native \in Raw(d, a) /\ s.unit = NativeUnit(s.native)
                           /\ s.component = "imaginary" => a.kind = "ac")
    /\ EstimatedPoints(a) <= PointLimit /\ ScalarsOf(d, a, EstimatedPoints(a)) <= ScalarLimit
Signals(d, a) == LET q == Selectors(d, a)
                 IN [n \in {q[i].name : i \in DOMAIN q} |-> NativeUnit((CHOOSE s \in ToSet(q) : s.name = n).native)]

(* The series an analysis yields, and whether a measurement takes it. The  *)
(* axis of a sweep has the unit of its source: a card of the deck.         *)
SeriesAxis(d, a) == CASE a.kind = "dc" -> NativeUnit(<<IF Folded(Emitted(Element(d, a.source))) \in TopSources(d)
                                                      THEN "v" ELSE "i", a.source>>)
                      [] a.kind = "ac" -> "Hz" [] a.kind = "tran" -> "s" [] OTHER -> "1"
Takeable(d, a, m) ==
    LET r == m.request  units == Signals(d, a) IN
    CASE m.profile = "measure"  -> Has(units, r.signal) /\ QuantitiesFit(r, SeriesAxis(d, a), units[r.signal])
      [] m.profile = "transfer" -> WellNamed([units |-> units], r) /\ UnitsFit([units |-> units], r) /\ FitsContext(r)
      [] m.profile = "spectral" -> Has(units, r.signal) /\ SpectralRequestFits(r, EstimatedPoints(a))
MeasuredUnit(d, a, m) ==
    CASE m.profile = "measure"  -> OrdinaryUnit(m.request, SeriesAxis(d, a), Signals(d, a)[m.request.signal])
      [] m.profile = "transfer" -> TransferUnit[m.request.kind]
      [] m.profile = "spectral" -> "dB"

(* Whatever a run looks up is there, and fits: the parts of the promise of *)
(* an accepted document, DeckHolds of the decks that validate composes and *)
(* binds, RunHolds of what a completed run is read for. Ground is no vector of a raw file, an operand may *)
(* mix volts and amperes on both sides: the validator lets both by.        *)
AsksGround(d, a) == "0" \in ToSet(SavedNets(d, a))
Mixed(d, m)      == m.profile = "transfer" /\ Cardinality(Units(d, m.request.input)) > 1
DeckHolds(d) ==
    /\ ~CardsCollide(d)
    /\ Every(d.analyses, LAMBDA a : BinderTakes(d, a) /\ (~AsksGround(d, a) => Asked(d, a) \subseteq Deck(d)))
RunHolds(d, a) ==
    ~AsksGround(d, a) /\ OfAnalysis(d.observations, a) # <<>> =>
        /\ Extracts(d, a)
        /\ Every(OfAnalysis(d.measurements, a), LAMBDA m :
             /\ ~Mixed(d, m) => Takeable(d, a, m)
             /\ MeasuredUnit(d, a, m) = ExpectedUnit(d, m))
DerivedHolds(d) ==
    Every(d.derivations, LAMBDA s :
        Cardinality({MeasuredUnit(d, Item(d.analyses, s.analysis), Item(d.measurements, n)) : n \in ToSet(s.parents)}) = 1)
=============================================================================
