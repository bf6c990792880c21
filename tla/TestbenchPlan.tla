---------------------------- MODULE TestbenchPlan ----------------------------
(***************************************************************************)
(* The validation of a testbench plan, and what the compiler and the       *)
(* runner take for granted of a plan that passed it. Every check of the    *)
(* validator adds an issue, and a plan with any issue is refused: so the   *)
(* validator is the conjunction of its checks. The JSON schema comes first *)
(* and is what the documents given to these operators already obey.        *)
(*                                                                         *)
(* A plan's lists are sequences of records with an id. A value source is a *)
(* literal (value, unit), or a stage input (input, unit) with perhaps an   *)
(* affine offset.                                                          *)
(***************************************************************************)
EXTENDS Integers, Sequences, FiniteSets, SequencesExt
LOCAL INSTANCE Relation

CONSTANTS
    Lower,        \* the case-folded form of the names that are not lower case
    MaxDcSamples  \* MAX_DC_SAMPLES

Folded(name)  == IF name \in DOMAIN Lower THEN Lower[name] ELSE name
Ids(s)        == {s[i].id : i \in DOMAIN s}
Item(s, id)   == s[CHOOSE i \in DOMAIN s : s[i].id = id]
Distinct(s)   == \A i, j \in DOMAIN s : s[i] = s[j] => i = j
FoldedApart(s) == Distinct([i \in DOMAIN s |-> Folded(s[i])])
Unique(s)     == Distinct([i \in DOMAIN s |-> s[i].id])
Literal(v)    == "value" \in DOMAIN v
Every(s, Test(_)) == \A i \in DOMAIN s : Test(s[i])
-----------------------------------------------------------------------------
(* The device: an override may replace where its file is and what it holds.*)
Sealed   == {"namespace", "top", "ports", "nets"}
Dut(p)   == IF "override" \in DOMAIN p THEN p.override ELSE p.dut
Names(d) == [i \in DOMAIN d.ports |-> d.ports[i].name]
Nodes(d) == FlattenSeq([i \in DOMAIN d.ports |-> d.ports[i].nodes])
Port(d, name) == d.ports[CHOOSE i \in DOMAIN d.ports : d.ports[i].name = name]
DutValid(p) ==
    LET d == Dut(p) IN
    /\ \A f \in Sealed : d[f] = p.dut[f]
    /\ d.locator = "canonical"
    /\ Folded(d.namespace) # Folded(d.top) /\ d.namespace # "openada"
    /\ FoldedApart(Names(d) \o Nodes(d))
    /\ DOMAIN d.nets = ToSet(Names(d))

Abi(c) == {<<c.values[i].id, c.values[i].unit>> : i \in DOMAIN c.values}
CornersValid(p) ==
    /\ Unique(p.corners)
    /\ Every(p.corners, LAMBDA c : Unique(c.values) /\ Abi(c) = Abi(p.corners[1]))

SuppliesValid(p) ==
    LET nets == {Dut(p).nets[n] : n \in DOMAIN Dut(p).nets} \cup {"0"} IN
    /\ Unique(p.supplies)
    /\ Every(p.supplies, LAMBDA s :
        /\ Folded(s.positive) # Folded(s.negative) /\ {s.positive, s.negative} \subseteq nets
        /\ Every(p.corners, LAMBDA c :
            s.voltage \in Ids(c.values)
            /\ Item(c.values, s.voltage).unit = "V" /\ Item(c.values, s.voltage).value > 0))

(* Which ports a stimulus drives, and which direction they must have.      *)
Pulsed      == {"pulse_train", "phase_offset_pair"}
Targets(s)  == IF s.kind = "phase_offset_pair" THEN <<s.reference, s.offset>> ELSE <<s.target>>
Drivable(s) ==
    CASE s.kind = "small_signal_ac"                  -> {"input", "output", "inout"}
      [] s.kind = "dc_state" /\ s.state = "bias"     -> {"output", "inout", "reference"}
      [] OTHER                                       -> {"input", "inout"}
LevelsFit(s) ==
    IF s.kind = "dc_state"
    THEN (s.state = "low" => s.level <= 50) /\ (s.state = "high" => s.level > 50)
    ELSE /\ s.high > s.low /\ s.delay >= 0 /\ s.rise >= 0 /\ s.fall >= 0
         /\ s.width > 0 /\ s.rise + s.width + s.fall <= s.period
StimuliValid(p) ==
    LET d == Dut(p)  known == ToSet(Names(d)) IN
    /\ Unique(p.stimuli)
    /\ Every(p.stimuli, LAMBDA s :
        /\ Every(Targets(s), LAMBDA n : n \in known /\ Port(d, n).direction \in Drivable(s))
        /\ IF s.kind = "small_signal_ac"
           THEN /\ s.reference \in known /\ Port(d, s.reference).direction \in {"reference", "supply"}
                /\ Folded(s.reference) # Folded(s.target)
           ELSE /\ s.supply \in Ids(p.supplies) /\ s.scale = s.supply
                /\ FoldedApart(Targets(s)) /\ LevelsFit(s))

Branches(s) == IF s.kind = "phase_offset_pair" THEN {"reference", "offset"} ELSE {"single"}
ProbesValid(p) ==
    LET d == Dut(p)  known == ToSet(Names(d)) IN
    /\ Unique(p.probes)
    /\ \A i \in DOMAIN p.probes :
        LET b == p.probes[i]  earlier == SubSeq(p.probes, 1, i - 1) IN
        /\ b.kind \in {"dut_port_voltage", "dut_port_current"} => b.port \in known
        /\ b.kind \in {"dut_port_voltage", "dut_internal_node"} => b.reference \in known
        /\ b.kind = "dut_internal_node" => b.node \in ToSet(Nodes(d))
        /\ b.kind = "stimulus_branch_current" =>
              b.stimulus \in Ids(p.stimuli) /\ b.branch \in Branches(Item(p.stimuli, b.stimulus))
        /\ b.kind = "pll_loop_gain" =>
              /\ b.stimulus \in Ids(p.stimuli) /\ Item(p.stimuli, b.stimulus).kind = "small_signal_ac"
              /\ b.response \in Ids(earlier)
              /\ Item(earlier, b.response).kind \in {"dut_port_voltage", "dut_internal_node"}
-----------------------------------------------------------------------------
(* The graph of the stages.                                                *)
Follows(p) ==
    TransitiveClosure([e \in Ids(p.stages) \X Ids(p.stages) |-> e[2] \in Item(p.stages, e[1]).after],
                      Ids(p.stages))
GraphValid(p) ==
    /\ Unique(p.stages)
    /\ Every(p.stages, LAMBDA s : s.after \subseteq Ids(p.stages))
    /\ \A n \in Ids(p.stages) : ~Follows(p)[n, n]

SourceFits(v, s) ==
    Literal(v) \/ /\ v.input \in Ids(s.inputs) /\ Item(s.inputs, v.input).unit = v.unit
                  /\ "offset" \in DOMAIN v => v.offset = v.unit
Threshold(p, t) == IF "supply" \in DOMAIN t
                   THEN (IF t.supply \in Ids(p.supplies) THEN "V" ELSE "none") ELSE t.unit

(* A point's initial voltages, settling, analysis and active stimuli.      *)
StateFits(p, s, i) ==
    LET d == Dut(p)  point == s.points[i]  state == point.state IN
    IF state.kind = "fresh"
    THEN /\ Distinct([j \in DOMAIN state.initial |->
                        <<state.initial[j].kind, Folded(state.initial[j].name)>>])
         /\ Every(state.initial, LAMBDA v :
                v.name \in (IF v.kind = "port" THEN ToSet(Names(d)) ELSE ToSet(Nodes(d))))
    ELSE /\ state.stage \in Ids(p.stages)
         /\ state.point \in Ids(Item(p.stages, state.stage).points)
         /\ IF state.stage = s.id
            THEN \E j \in 1..(i - 1) : s.points[j].id = state.point
            ELSE state.stage \in s.after
SettleFits(p, point) ==
    LET settle == point.settle IN
    CASE settle.kind = "operating_point" -> point.analysis.kind = "dc_sweep"
      [] settle.kind = "fixed_time"      -> point.analysis.kind # "dc_sweep" /\ settle.duration >= 0
      [] OTHER -> /\ settle.probe \in Ids(p.probes) /\ Item(p.probes, settle.probe).unit = settle.unit
                  /\ settle.tolerance > 0 /\ settle.hold > 0 /\ settle.hold <= settle.maximum
Excites == [dc_sweep |-> "dc_state", pulse_train_transient |-> "pulse_train",
            phase_offset_pair_transient |-> "phase_offset_pair", linear_ac |-> "small_signal_ac"]
Bounds(a) == CASE a.kind = "dc_sweep"  -> <<a.start, a.stop, a.step>>
               [] a.kind = "linear_ac" -> <<a.start, a.stop>>
               [] OTHER                -> <<a.step, a.stop>>
AnalysisFits(p, s, a) ==
    LET bounds == Bounds(a) IN
    /\ a.stimulus \in Ids(p.stimuli) /\ Item(p.stimuli, a.stimulus).kind = Excites[a.kind]
    /\ Every(bounds, LAMBDA v : SourceFits(v, s) /\ v.unit = bounds[1].unit)
    /\ a.kind = "linear_ac" => bounds[1].unit = "Hz"
    /\ Every(bounds, Literal) =>
         CASE a.kind = "dc_sweep"  -> a.stop.value > a.start.value /\ a.step.value > 0
           [] a.kind = "linear_ac" -> a.start.value > 0 /\ a.stop.value > a.start.value
           [] OTHER                -> a.step.value > 0 /\ a.stop.value > 0
ActiveFits(p, s, point) ==
    LET active == [i \in DOMAIN point.active |-> Item(p.stimuli, point.active[i])] IN
    /\ ToSet(point.active) \subseteq Ids(p.stimuli)
    /\ point.analysis.stimulus \in ToSet(point.active)
    /\ Distinct(FlattenSeq([i \in DOMAIN active |-> Targets(active[i])]))
    /\ Every(active, LAMBDA a : a.kind = "phase_offset_pair" => SourceFits(a.phase, s) /\ a.phase.unit = "s")
-----------------------------------------------------------------------------
(* The closed tables of units; "none" where the tables have no entry.      *)
Quotient == {<<"C", "A", "s">>, <<"A", "V", "A/V">>, <<"C", "V", "C/V">>,
             <<"V", "s", "V/s">>, <<"A", "s", "A/s">>, <<"C", "s", "A">>}
Product  == {<<"A", "s", "C">>, <<"A/V", "V", "A">>, <<"C/V", "V", "C">>, <<"V/s", "s", "V">>}
Divide(a, b) == CASE b = "1" -> a
                  [] b # "1" /\ a = b -> "1"
                  [] OTHER -> IF \E q \in Quotient : q[1] = a /\ q[2] = b
                              THEN (CHOOSE q \in Quotient : q[1] = a /\ q[2] = b)[3] ELSE "none"
Multiply(a, b) == CASE a = "1" -> b
                    [] a # "1" /\ b = "1" -> a
                    [] OTHER -> IF \E q \in Product : {q[1], q[2]} = {a, b}
                                THEN (CHOOSE q \in Product : {q[1], q[2]} = {a, b})[3] ELSE "none"
(* What the bindings take for the intercept's unit, from the slope's.      *)
Intercept(u) == CASE u = "A/V" -> "A" [] u = "C/V" -> "C" [] u = "V/V" -> "V" [] OTHER -> u

Axis(kind)    == CASE kind = "dc_sweep" -> "V" [] kind = "linear_ac" -> "Hz" [] OTHER -> "s"
AxisOf(m, a)  == IF m.kind \in {"curve", "loop_transfer"} THEN Axis(a.kind) ELSE "none"

(* A measurement, given those before it in its point.                      *)
ProbeFits(p, s, a, m) ==
    LET b == Item(p.probes, m.probe) IN
    /\ m.probe \in Ids(p.probes)
    /\ m.kind = "curve" => m.unit = b.unit
    /\ m.kind = "integrate" =>
         /\ b.unit = "A"
         /\ m.quantity = "delivered_charge" => b.kind = "dut_port_current"
         /\ m.quantity = "source_charge"    => b.kind = "stimulus_branch_current"
    /\ m.kind = "loop_transfer" =>
         /\ a.kind = "linear_ac" /\ b.kind = "pll_loop_gain" /\ b.stimulus = a.stimulus
         /\ Every(b.factors, LAMBDA f : SourceFits(f.source, s) /\ f.source.unit = f.unit
                                        /\ (Literal(f.source) => f.source.value > 0))
WindowFits(s, w) ==
    SourceFits(w.start, s) /\ SourceFits(w.stop, s) /\ w.start.unit = w.stop.unit
CountFits(p, m) ==
    LET t == Item(p.stimuli, m.counted) IN
    /\ m.counted \in Ids(p.stimuli) /\ t.kind \in Pulsed /\ m.count <= t.count
    /\ Literal(m.window.start) /\ Literal(m.window.stop) =>
         m.window.stop.value - m.window.start.value = m.count * t.period
Derived(p, a, m, up) ==
    LET parent == up[1]  axis == AxisOf(parent, a) IN
    CASE m.kind = "linear_fit"  -> axis # "none" /\ m.unit = Divide(parent.unit, axis)
      [] m.kind = "max_abs"     -> m.unit = parent.unit
      [] m.kind = "crossing"    -> /\ Threshold(p, m.threshold) = parent.unit
                                   /\ axis # "none" => m.unit = axis
      [] m.kind = "sign"        -> m.tolerance = parent.unit
      [] m.kind = "unity_frequency" -> parent.kind = "loop_transfer" /\ m.unit = "Hz"
      [] m.kind = "negative_feedback_phase_margin" ->
            /\ parent.kind = "loop_transfer" /\ m.unit = "deg"
            /\ up[2].kind = "unity_frequency" /\ up[2].parents[1] = parent.id
      [] m.kind = "mismatch_fraction" -> up[2].unit = parent.unit /\ m.floor = parent.unit
      [] m.kind = "compliance_interval" ->
            m.bounds = parent.unit /\ (axis # "none" => m.unit = axis) /\ m.upper > m.lower
      [] OTHER -> TRUE
MeasurementFits(p, s, point, i) ==
    LET m == point.measurements[i]  a == point.analysis
        earlier == SubSeq(point.measurements, 1, i - 1)
    IN /\ Every(m.parents, LAMBDA n : n \in Ids(earlier))
       /\ "probe" \in DOMAIN m => ProbeFits(p, s, a, m)
       /\ "window" \in DOMAIN m => WindowFits(s, m.window)
       /\ "counted" \in DOMAIN m => CountFits(p, m)
       /\ Derived(p, a, m, [j \in DOMAIN m.parents |-> Item(earlier, m.parents[j])])

(* A rule over measurements of the point, or over reductions of the stage. *)
Shapes(kind) == CASE kind = "r2" -> {"linear_fit"}
                  [] kind = "unity_crossing" -> {"loop_transfer"}
                  [] kind \in {"monotonicity", "single_sign_change", "crossings"} -> {"curve", "collect_curve"}
                  [] OTHER -> {}
RuleFits(p, r, over) ==
    /\ Every(r.of, LAMBDA n : n \in Ids(over))
    /\ LET chosen == [i \in DOMAIN r.of |-> Item(over, r.of[i])] IN
       /\ Shapes(r.kind) # {} => chosen[1].kind \in Shapes(r.kind)
       /\ "limit" \in DOMAIN r => Threshold(p, r.limit) = chosen[1].unit
       /\ r.kind = "settling_delta" => chosen[1].unit = chosen[2].unit
       /\ "least" \in DOMAIN r => r.most >= r.least
       /\ r.kind = "pulse_count" =>
             r.stimulus \in Ids(p.stimuli) /\ Item(p.stimuli, r.stimulus).kind \in Pulsed

PointValid(p, s, i) ==
    LET point == s.points[i] IN
    /\ point.corner \in Ids(p.corners) /\ point.temperature = Item(p.corners, point.corner).temperature
    /\ Distinct([j \in DOMAIN point.parameters |-> point.parameters[j].name])
    /\ Every(point.parameters, LAMBDA v : SourceFits(v.value, s))
    /\ StateFits(p, s, i) /\ SettleFits(p, point)
    /\ AnalysisFits(p, s, point.analysis) /\ ActiveFits(p, s, point)
    /\ Unique(point.measurements)
    /\ \A j \in DOMAIN point.measurements : MeasurementFits(p, s, point, j)
    /\ Unique(point.rules) /\ Every(point.rules, LAMBDA r : RuleFits(p, r, point.measurements))
-----------------------------------------------------------------------------
(* The reductions of a stage. What a reduction gives under each name, and   *)
(* in which unit; the intercept of a fit is in the unit of its curve.      *)
ReductionEmits(kind) ==
    CASE kind = "linear_fit" -> {"value", "slope", "intercept", "r2"}
      [] kind = "crossing"   -> {"value", "crossing"}
      [] kind = "compliance_intersection" -> {"value", "lower", "upper", "span"}
      [] OTHER -> {"value"}
ComponentUnit(rs, r, c) ==
    CASE c \notin ReductionEmits(r.kind) -> "none"
      [] c = "r2"        -> "1"
      [] c = "intercept" -> IF r.parent \in Ids(rs) THEN Item(rs, r.parent).unit ELSE "none"
      [] OTHER           -> r.unit
ReductionShape(r, c) ==
    IF c # "value" THEN "scalar"
    ELSE CASE r.kind = "collect_array" -> "array" [] r.kind = "collect_curve" -> "curve"
           [] r.kind = "linear_fit" -> "fit" [] r.kind = "compliance_intersection" -> "interval"
           [] OTHER -> "scalar"

Unscalar == {"curve", "linear_fit", "compliance_interval"}
SourceExists(p, at) ==
    /\ at.stage \in Ids(p.stages)
    /\ at.point \in Ids(Item(p.stages, at.stage).points)
    /\ at.measurement \in Ids(Item(Item(p.stages, at.stage).points, at.point).measurements)
SourceOf(p, at) == Item(Item(Item(p.stages, at.stage).points, at.point).measurements, at.measurement)
CollectFits(p, s, r) ==
    LET at(e) == [stage |-> s.id, point |-> e.point, measurement |-> e.measurement] IN
    /\ Distinct([j \in DOMAIN r.from |-> at(r.from[j])])
    /\ Every(r.from, LAMBDA e : /\ SourceExists(p, at(e))
                                /\ SourceOf(p, at(e)).kind \notin Unscalar
                                /\ SourceOf(p, at(e)).unit = r.unit)
    /\ r.kind = "collect_curve" => Every(r.from, LAMBDA e :
         /\ e.axis = r.axis
         /\ "parameter" \in DOMAIN e =>
              \E j \in DOMAIN Item(s.points, e.point).parameters :
                LET v == Item(s.points, e.point).parameters[j]
                IN v.name = e.parameter /\ v.value.unit = e.axis)
FollowFits(p, r, parent) ==
    CASE r.kind = "linear_fit" ->
           /\ parent.kind = "collect_curve" /\ r.unit = Divide(parent.unit, parent.axis)
           /\ r.window.start.unit = parent.axis /\ r.window.stop.unit = parent.axis
      [] r.kind = "crossing" ->
           /\ parent.kind = "collect_curve" /\ r.unit = parent.axis
           /\ Threshold(p, r.threshold) = parent.unit
      [] r.kind = "select" ->
           /\ parent.kind = "collect_array" /\ r.unit = parent.unit
           /\ IF "index" \in DOMAIN r THEN r.index < Len(parent.from)
              ELSE Cardinality({j \in DOMAIN parent.from : r.equals \in parent.from[j].conditions}) = 1

OperandUnit(earlier, o) ==
    IF Literal(o) THEN o.unit
    ELSE IF o.reduction \in Ids(earlier)
         THEN ComponentUnit(earlier, Item(earlier, o.reduction), o.component) ELSE "none"
Combine(operator, a, b) ==
    CASE "none" \in {a, b}              -> "none"
      [] operator \in {"add", "subtract"} -> IF a = b THEN a ELSE "none"
      [] operator = "multiply"          -> Multiply(a, b)
      [] operator = "divide"            -> Divide(a, b)
      [] OTHER                          -> "none"
ArithmeticFits(earlier, r) ==
    LET units == [j \in DOMAIN r.operands |-> OperandUnit(earlier, r.operands[j])] IN
    /\ Every(r.operands, LAMBDA o : OperandUnit(earlier, o) = o.unit)
    /\ r.operator \in {"subtract", "divide"}   => Len(units) = 2
    /\ r.operator \in {"absolute", "max_abs"}  => Len(units) = 1
    /\ r.operator = "max_abs" => /\ ~Literal(r.operands[1]) /\ r.operands[1].component = "value"
                                 /\ Item(earlier, r.operands[1].reduction).kind = "collect_array"
    /\ r.unit = FoldLeft(LAMBDA a, b : Combine(r.operator, a, b), units[1], Tail(units))
IntersectionFits(earlier, r) ==
    /\ {r.positive, r.negative} \subseteq Ids(earlier)
    /\ LET a == Item(earlier, r.positive)  b == Item(earlier, r.negative) IN
       /\ a.kind = "collect_curve" /\ b.kind = "collect_curve"
       /\ a.unit = b.unit /\ a.axis = b.axis /\ r.unit = a.axis
       /\ Every(r.references, LAMBDA o : OperandUnit(earlier, o) = o.unit /\ o.unit = a.unit)
ReductionFits(p, s, i) ==
    LET r == s.reductions[i]  earlier == SubSeq(s.reductions, 1, i - 1) IN
    CASE r.kind \in {"collect_array", "collect_curve"} -> CollectFits(p, s, r)
      [] r.kind = "arithmetic"                         -> ArithmeticFits(earlier, r)
      [] r.kind = "compliance_intersection"            -> IntersectionFits(earlier, r)
      [] OTHER -> r.parent \in Ids(earlier) /\ FollowFits(p, r, Item(earlier, r.parent))
StageValid(p, s) ==
    /\ Unique(s.inputs)
    /\ Unique(s.points)     /\ \A i \in DOMAIN s.points : PointValid(p, s, i)
    /\ Unique(s.reductions) /\ \A i \in DOMAIN s.reductions : ReductionFits(p, s, i)
    /\ Unique(s.rules)      /\ Every(s.rules, LAMBDA r : RuleFits(p, r, s.reductions))
-----------------------------------------------------------------------------
(* The edges between stages, and what the plan promises its reader.        *)
MeasurementEmits(kind) == CASE kind = "linear_fit" -> {"slope", "intercept"}
                            [] kind = "crossing"   -> {"crossing", "value"}
                            [] OTHER               -> {"value"}
FromMeasurement(at) == "measurement" \in DOMAIN at
KnownSource(p, at) ==
    IF FromMeasurement(at) THEN SourceExists(p, at)
    ELSE at.stage \in Ids(p.stages) /\ at.reduction \in Ids(Item(p.stages, at.stage).reductions)
SourceUnit(p, at) ==
    IF FromMeasurement(at)
    THEN LET m == SourceOf(p, at) IN
         CASE at.component \notin MeasurementEmits(m.kind) -> "none"
           [] at.component = "intercept" -> Intercept(m.unit)
           [] OTHER -> m.unit
    ELSE LET rs == Item(p.stages, at.stage).reductions
         IN ComponentUnit(rs, Item(rs, at.reduction), at.component)
(* Mutants: an edge needs no dependency; an edge's unit is its target's.    *)
BindingFitsUnordered(p, b) ==
    /\ KnownSource(p, b.from)
    /\ b.to.stage \in Ids(p.stages) /\ b.to.input \in Ids(Item(p.stages, b.to.stage).inputs)
    /\ b.from.stage # b.to.stage /\ SourceUnit(p, b.from) = b.unit
    /\ Item(Item(p.stages, b.to.stage).inputs, b.to.input).unit = b.unit
BindingFitsTarget(p, b) ==
    /\ KnownSource(p, b.from)
    /\ b.to.stage \in Ids(p.stages) /\ b.to.input \in Ids(Item(p.stages, b.to.stage).inputs)
    /\ b.from.stage # b.to.stage /\ b.from.stage \in Item(p.stages, b.to.stage).after
    /\ Item(Item(p.stages, b.to.stage).inputs, b.to.input).unit = b.unit
BindingFits(p, b) ==
    /\ KnownSource(p, b.from)
    /\ b.to.stage \in Ids(p.stages) /\ b.to.input \in Ids(Item(p.stages, b.to.stage).inputs)
    /\ b.from.stage # b.to.stage /\ b.from.stage \in Item(p.stages, b.to.stage).after
    /\ SourceUnit(p, b.from) = b.unit
    /\ Item(Item(p.stages, b.to.stage).inputs, b.to.input).unit = b.unit
BindingsValid(p) ==
    /\ Unique(p.bindings) /\ Distinct([i \in DOMAIN p.bindings |-> p.bindings[i].to])
    /\ Every(p.bindings, LAMBDA b : BindingFits(p, b))
    /\ Every(p.stages, LAMBDA s : Every(s.inputs, LAMBDA v :
         \E i \in DOMAIN p.bindings : p.bindings[i].to = [stage |-> s.id, input |-> v.id]))

MeasurementShape(kind) == CASE kind \in {"curve", "loop_transfer"} -> "curve"
                            [] kind = "linear_fit" -> "fit"
                            [] kind = "compliance_interval" -> "interval"
                            [] OTHER -> "scalar"
(* An observable names a measurement, a reduction, or a rule of a point or *)
(* of a stage.                                                             *)
ObservableFits(p, o) ==
    LET at == o.from IN
    IF "rule" \in DOMAIN at
    THEN /\ o.unit = "1" /\ o.shape = "verdict"
         /\ at.stage \in Ids(p.stages)
         /\ LET s == Item(p.stages, at.stage) IN
            IF "point" \in DOMAIN at
            THEN at.point \in Ids(s.points) /\ at.rule \in Ids(Item(s.points, at.point).rules)
            ELSE at.rule \in Ids(s.rules)
    ELSE /\ KnownSource(p, at)
         /\ IF FromMeasurement(at)
            THEN o.unit = SourceOf(p, at).unit /\ o.shape = MeasurementShape(SourceOf(p, at).kind)
            ELSE /\ o.unit = SourceUnit(p, at)
                 /\ o.shape = ReductionShape(Item(Item(p.stages, at.stage).reductions, at.reduction),
                                             at.component)
ObservablesValid(p) ==
    /\ Unique(p.observables) /\ Distinct([i \in DOMAIN p.observables |-> p.observables[i].from])
    /\ Every(p.observables, LAMBDA o : ObservableFits(p, o))

(* The names that must differ whatever their case.                         *)
IdSeq(s) == [i \in DOMAIN s |-> s[i].id]
IdentitiesValid(p) ==
    LET v(s) == [i \in DOMAIN s |-> "v_" \o Folded(s[i].id)] IN
    /\ \A s \in {IdSeq(p.supplies) \o IdSeq(p.stimuli) \o IdSeq(p.probes), IdSeq(p.stages),
                 IdSeq(p.bindings), IdSeq(p.observables)} : FoldedApart(s)
    /\ Distinct(v(p.supplies) \o v(p.stimuli))

Accepted(p) ==
    /\ DutValid(p) /\ CornersValid(p) /\ SuppliesValid(p) /\ StimuliValid(p) /\ ProbesValid(p)
    /\ GraphValid(p) /\ Every(p.stages, LAMBDA s : StageValid(p, s))
    /\ BindingsValid(p) /\ ObservablesValid(p) /\ IdentitiesValid(p)
-----------------------------------------------------------------------------
(* What is made of a plan that was accepted: the deck the compiler writes  *)
(* for each of its points, and the values the runner computes from the     *)
(* waveform that comes back. The compiler looks up by name what the        *)
(* validator has checked by its own rules; where a lookup can fail without *)
(* a refusal of its own, the model says "undefined".                       *)

(* The order of execution: the stages that wait for none of the remaining   *)
(* ones, then the next; "cycle" if there is none.                          *)
Schedule(p) ==
    LET Rest[remaining \in SUBSET Ids(p.stages)] ==
          LET ready == {n \in remaining : Item(p.stages, n).after \cap remaining = {}} IN
          CASE remaining = {} -> <<>>
            [] remaining # {} /\ ready = {} -> <<{"cycle"}>>
            [] OTHER -> <<ready>> \o Rest[remaining \ ready]
    IN Rest[Ids(p.stages)]
Before(p, s) == UNION {Schedule(p)[i] : i \in {j \in DOMAIN Schedule(p) :
                          \E k \in (j + 1)..Len(Schedule(p)) : s.id \in Schedule(p)[k]}}
(* The bindings whose value can have been measured when a stage compiles.  *)
Given(p, s)       == SelectSeq(p.bindings, LAMBDA b : b.from.stage \in Before(p, s))
Provided(p, s, v) == \E i \in DOMAIN Given(p, s) : Given(p, s)[i].to = [stage |-> s.id, input |-> v.id]

(* A value source that a deck needs: what can go wrong with it.            *)
SourceTrouble(p, s, v) ==
    IF Literal(v) THEN {}
    ELSE LET bs == SelectSeq(Given(p, s), LAMBDA b : b.to = [stage |-> s.id, input |-> v.input]) IN
         IF bs = <<>> THEN {"binding_unresolved"}
         ELSE IF Last(bs).unit # v.unit \/ ("offset" \in DOMAIN v /\ v.offset # v.unit)
              THEN {"binding_unit_mismatch"} ELSE {}

(* The samples of a DC sweep, when its bounds are known.                   *)
GridTrouble(start, stop, step) ==
    IF step <= 0 \/ stop < start THEN {"dc_range_invalid"}
    ELSE LET last == (stop - start) \div step IN
         IF last + 1 > MaxDcSamples THEN {"dc_range_over_limit"}
         ELSE IF start + step * last # stop THEN {"dc_range_not_integral"} ELSE {}

SupplyVoltage(p, s, corner) == Item(Item(p.corners, corner).values, s.voltage)
SupplyTrouble(p, corner) ==
    IF Every(p.supplies, LAMBDA s : /\ s.voltage \in Ids(Item(p.corners, corner).values)
                                    /\ SupplyVoltage(p, s, corner).unit = "V")
    THEN {} ELSE {"corner_value_unresolved"}
-----------------------------------------------------------------------------
(* A deck. The port of a current probe gets a node of its own, behind a    *)
(* zero-volt source; the deck's devices are sequences of a name and nodes. *)
Current(p)     == {p.probes[i].port : i \in {j \in DOMAIN p.probes : p.probes[j].kind = "dut_port_current"}}
Terminal(p, n) == IF n \in Current(p) THEN "n_openada_dut_" \o Folded(n) ELSE Folded(Dut(p).nets[n])
Sources(s)     == IF s.kind = "phase_offset_pair"
                  THEN <<"v_stim_" \o Folded(s.id) \o "_ref", "v_stim_" \o Folded(s.id) \o "_offset">>
                  ELSE <<"v_stim_" \o Folded(s.id)>>
StimulusLines(p, s) ==
    LET return == Folded(Item(p.supplies, s.supply).negative) IN
    [i \in DOMAIN Targets(s) |-> <<Sources(s)[i], Folded(Dut(p).nets[Targets(s)[i]]), return>>]
ProbeNames(p) == SetToSeq(Current(p))
Devices(p, point) ==
    [i \in DOMAIN p.supplies |-> <<"v_supply_" \o Folded(p.supplies[i].id),
                                   Folded(p.supplies[i].positive), Folded(p.supplies[i].negative)>>]
    \o FlattenSeq([i \in DOMAIN point.active |-> StimulusLines(p, Item(p.stimuli, point.active[i]))])
    \o [i \in DOMAIN ProbeNames(p) |-> <<"v_probe_port_" \o Folded(ProbeNames(p)[i]),
                                         Folded(Dut(p).nets[ProbeNames(p)[i]]), Terminal(p, ProbeNames(p)[i])>>]
    \o <<<<"x_openada_dut">> \o [i \in DOMAIN Names(Dut(p)) |-> Terminal(p, Names(Dut(p))[i])]>>
DeviceNames(p, point) == [i \in DOMAIN Devices(p, point) |-> Head(Devices(p, point)[i])]
Wired(p, point) == UNION {ToSet(Tail(Devices(p, point)[i])) : i \in DOMAIN Devices(p, point)} \cup {"0"}
Inner(p)        == {"x_openada_dut." \o Folded(n) : n \in ToSet(Nodes(Dut(p)))}

(* What each probe saves: the nodes it reads, or the device whose current. *)
Branch(p, point, b) ==
    LET names == IF b.stimulus \in ToSet(point.active) THEN Sources(Item(p.stimuli, b.stimulus)) ELSE <<>> IN
    CASE b.branch = "single"    -> IF Len(names) = 1 THEN {names[1]} ELSE {}
      [] b.branch = "reference" -> IF Len(names) = 2 THEN {names[1]} ELSE {}
      [] OTHER                  -> IF Len(names) = 2 THEN {names[2]} ELSE {}
Reads(p, b) ==
    CASE b.kind = "dut_port_voltage"  -> {Terminal(p, b.port), Terminal(p, b.reference)}
      [] b.kind = "dut_internal_node" -> {"x_openada_dut." \o Folded(b.node), Terminal(p, b.reference)}
      [] OTHER                        -> {}
Through(p, point, b) ==
    CASE b.kind = "dut_port_current"        -> {"v_probe_port_" \o Folded(b.port)}
      [] b.kind = "stimulus_branch_current" -> Branch(p, point, b)
      [] OTHER                              -> {}
Available(p, point, b) == Reads(p, b) \cup Through(p, point, b) # {}
InitialNodes(p, point) ==
    IF point.state.kind # "fresh" THEN {}
    ELSE {IF point.state.initial[i].kind = "port" THEN Terminal(p, point.state.initial[i].name)
          ELSE "x_openada_dut." \o Folded(point.state.initial[i].name) : i \in DOMAIN point.state.initial}

(* Every reason why a point of a stage gets no deck.                       *)
Phased(p, point) == {i \in DOMAIN point.active : Item(p.stimuli, point.active[i]).kind = "phase_offset_pair"}
Named(p, point) ==
    /\ ToSet(point.active) \subseteq Ids(p.stimuli) /\ point.corner \in Ids(p.corners)
    /\ Current(p) \subseteq DOMAIN Dut(p).nets /\ ToSet(Names(Dut(p))) \subseteq DOMAIN Dut(p).nets
    /\ Every(point.active, LAMBDA n : LET s == Item(p.stimuli, n) IN
         /\ "supply" \in DOMAIN s /\ s.supply \in Ids(p.supplies) /\ s.scale \in Ids(p.supplies)
         /\ ToSet(Targets(s)) \subseteq DOMAIN Dut(p).nets)
    /\ Every(p.probes, LAMBDA b :
         /\ "port" \in DOMAIN b => b.port \in ToSet(Names(Dut(p)))
         /\ "reference" \in DOMAIN b => b.reference \in ToSet(Names(Dut(p))))
    /\ point.state.kind = "fresh" => Every(point.state.initial, LAMBDA v :
         v.kind = "port" => v.name \in ToSet(Names(Dut(p))))
PointTroubles(p, s, point) ==
    LET a == point.analysis  bounds == Bounds(a) IN
    IF a.kind = "linear_ac" THEN {"analysis_unsupported"}
    ELSE IF \E i \in DOMAIN s.inputs : ~Provided(p, s, s.inputs[i]) THEN {"binding_unresolved"}
    ELSE IF point.state.kind = "carryover" THEN {"state_unresolved"}
    ELSE IF ~Named(p, point) THEN {"undefined"}
    ELSE SupplyTrouble(p, point.corner)
         \cup UNION {SourceTrouble(p, s, point.parameters[i].value) : i \in DOMAIN point.parameters}
         \cup UNION {SourceTrouble(p, s, bounds[i]) : i \in DOMAIN bounds}
         \cup UNION {SourceTrouble(p, s, Item(p.stimuli, point.active[i]).phase) : i \in Phased(p, point)}
         \cup (IF a.kind = "dc_sweep" /\ Every(bounds, Literal)
               THEN GridTrouble(a.start.value, a.stop.value, a.step.value) ELSE {})
         \cup (IF Every(point.measurements, LAMBDA m : "probe" \in DOMAIN m =>
                        m.probe \in Ids(p.probes) /\ Available(p, point, Item(p.probes, m.probe)))
               THEN {} ELSE {"measurement_probe_unavailable"})
-----------------------------------------------------------------------------
(* The runner's values. A dimension is the exponents of volt, ampere and   *)
(* second; a curve has one for each of its axes.                           *)
Dimension == [u \in {"1", "V", "A", "s", "C", "V/s", "A/s", "C/s", "A/V", "C/V", "V/V", "Hz"} |->
    CASE u = "V"   -> <<1, 0, 0>>  [] u = "A"   -> <<0, 1, 0>>  [] u = "s"   -> <<0, 0, 1>>
      [] u = "C"   -> <<0, 1, 1>>  [] u = "V/s" -> <<1, 0, -1>> [] u = "A/s" -> <<0, 1, -1>>
      [] u = "C/s" -> <<0, 1, 0>>  [] u = "A/V" -> <<-1, 1, 0>> [] u = "C/V" -> <<-1, 1, 1>>
      [] u = "Hz"  -> <<0, 0, -1>> [] OTHER     -> <<0, 0, 0>>]
Over(d, e)  == [i \in 1..3 |-> d[i] - e[i]]
Times(d, e) == [i \in 1..3 |-> d[i] + e[i]]

Refused == [shape |-> "refused"]
Scalar(d) == [shape |-> "scalar", dim |-> d]
Computed(p, point, m, up) ==
    LET swept == Dimension[Axis(point.analysis.kind)]
        Of(shape) == Len(up) > 0 /\ up[1].shape = shape
    IN CASE m.kind = "curve" -> [shape |-> "curve", dim |-> Dimension[Item(p.probes, m.probe).unit], x |-> swept]
         [] m.kind = "integrate" -> Scalar(Times(Dimension[Item(p.probes, m.probe).unit], swept))
         [] m.kind = "linear_fit" /\ Of("curve") ->
              [shape |-> "fit", dim |-> Over(up[1].dim, up[1].x), intercept |-> up[1].dim]
         [] m.kind = "crossing" /\ Of("curve") -> Scalar(up[1].x)
         [] m.kind = "sign" /\ (Of("curve") \/ Of("scalar")) -> [shape |-> "list", dim |-> Dimension["1"]]
         [] m.kind = "max_abs" /\ (Of("curve") \/ Of("scalar") \/ Of("list")) -> Scalar(up[1].dim)
         [] m.kind = "compliance_interval" /\ Of("curve") -> [shape |-> "interval", dim |-> up[1].x]
         [] m.kind = "mismatch_fraction" /\ Of("scalar") /\ up[2].shape = "scalar" -> Scalar(Dimension["1"])
         [] OTHER -> Refused
(* A point's measurements in their order, each from its parents.           *)
PointValues(p, point) ==
    LET Upto[i \in 0..Len(point.measurements)] ==
          IF i = 0 THEN <<>>
          ELSE LET m == point.measurements[i]
                   at(n) == CHOOSE j \in 1..(i - 1) : point.measurements[j].id = n
               IN Append(Upto[i - 1], Computed(p, point, m,
                         [j \in DOMAIN m.parents |-> Upto[i - 1][at(m.parents[j])]]))
    IN Upto[Len(point.measurements)]
ValueOf(p, at) ==
    LET point == Item(Item(p.stages, at.stage).points, at.point)
    IN PointValues(p, point)[CHOOSE j \in DOMAIN point.measurements : point.measurements[j].id = at.measurement]
=============================================================================
