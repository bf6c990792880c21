----------------------------- MODULE MCDocuments -----------------------------
(***************************************************************************)
(* Documents as their authors leave them, and waves as a simulator does: a *)
(* correct plan or experiment, then up to MaxEdits edits, each a slip or a *)
(* legitimate change; an even oscillation, of which up to MaxEdits samples change;    *)
(* every short waveform, response and spectrum. The properties say what    *)
(* holds of every one that is accepted or measured.                        *)
(***************************************************************************)
EXTENDS TestbenchPlan, TLC

CONSTANT MaxEdits

VARIABLES subject,   \* what the document is
          doc,       \* the document
          edits      \* the edits made to it

vars == <<subject, doc, edits>>

Signals  == INSTANCE MCSignals WITH Prime <- 17, Root <- 3, Length <- 16, Step <- 151200
Bench    == INSTANCE MCExperiments
Judge    == INSTANCE MCVerdicts WITH Widest <- 5, MaxConditions <- 2, MaxComparisons <- 3, MaxMarkers <- 6, MaxItems <- 3,
                                     PerMarker <- 2, MaxGeometries <- 3, PerGeometry <- 3, MaxPairs <- 4, MaxVariables <- 2
Library  == INSTANCE MCBlockLibrary WITH Lower <- [BHV |-> "bhv", LEAF |-> "leaf", GAIN |-> "gain", HALF |-> "half",
                                                    In |-> "in", SUB |-> "sub", CLK |-> "clk", TD |-> "td"],
                                         Sorted <- <<<<"amp">>, <<"amp", "2">>, <<"cmp">>, <<"gone">>, <<"leaf">>>>,
                                         MaxClosure <- 3

MCLower == [UP |-> "up", DOWN |-> "down", OUT |-> "out", VDD |-> "vdd", VSS |-> "vss", MID |-> "mid",
            Vdd |-> "vdd", Mid |-> "mid", PUMP |-> "pump"]
-----------------------------------------------------------------------------
(* The plan of a charge pump: a DC stage, pulses from its crossing, and a  *)
(* phase offset that follows the fit of the DC stage.                      *)
Lit(v, u)  == [value |-> v, unit |-> u]
In(i, u)   == [input |-> i, unit |-> u]
BaseDut    ==
    [namespace |-> "cp", top |-> "PUMP", locator |-> "canonical",
     ports |-> <<[name |-> "UP",   direction |-> "input",     nodes |-> <<>>],
                 [name |-> "DOWN", direction |-> "input",     nodes |-> <<>>],
                 [name |-> "OUT",  direction |-> "output",    nodes |-> <<"MID">>],
                 [name |-> "VDD",  direction |-> "supply",    nodes |-> <<>>],
                 [name |-> "VSS",  direction |-> "reference", nodes |-> <<>>]>>,
     nets  |-> [UP |-> "in_up", DOWN |-> "in_down", OUT |-> "pump", VDD |-> "vdd", VSS |-> "0"]]
Pulses(id, kind) ==
    [id |-> id, kind |-> kind, supply |-> "core", scale |-> "core", low |-> 0, high |-> 100,
     delay |-> 1, rise |-> 1, fall |-> 1, width |-> 4, period |-> 10, count |-> 8]
BaseStimuli ==
    <<[id |-> "up_dc", kind |-> "dc_state", target |-> "UP", supply |-> "core", scale |-> "core",
       state |-> "high", level |-> 100],
      Pulses("up", "pulse_train") @@ [target |-> "UP"],
      Pulses("pair", "phase_offset_pair")
         @@ [reference |-> "UP", offset |-> "DOWN", phase |-> In("skew", "s")],
      [id |-> "loop", kind |-> "small_signal_ac", target |-> "OUT", reference |-> "VSS"]>>
BaseProbes ==
    <<[id |-> "v_out", kind |-> "dut_port_voltage", unit |-> "V", port |-> "OUT", reference |-> "VSS"],
      [id |-> "i_out", kind |-> "dut_port_current", unit |-> "A", port |-> "OUT"],
      [id |-> "v_mid", kind |-> "dut_internal_node", unit |-> "V", node |-> "MID", reference |-> "VSS"],
      [id |-> "i_up", kind |-> "stimulus_branch_current", unit |-> "A", stimulus |-> "up", branch |-> "single"],
      [id |-> "gain", kind |-> "pll_loop_gain", unit |-> "1", stimulus |-> "loop", response |-> "v_out",
       factors |-> <<[source |-> Lit(8, "Hz/V"), unit |-> "Hz/V"]>>]>>
Window(a, b, u) == [start |-> Lit(a, u), stop |-> Lit(b, u)]
Point(analysis, active) ==
    [id |-> "nominal", corner |-> "tt", temperature |-> 27, parameters |-> <<>>,
     state |-> [kind |-> "fresh", initial |-> <<[kind |-> "port", name |-> "OUT"], [kind |-> "node", name |-> "MID"]>>],
     settle |-> [kind |-> "fixed_time", duration |-> 1], analysis |-> analysis, active |-> active,
     measurements |-> <<>>, rules |-> <<>>]
DcPoint ==
    [Point([kind |-> "dc_sweep", stimulus |-> "up_dc", start |-> Lit(0, "V"), stop |-> Lit(8, "V"),
            step |-> Lit(2, "V")], <<"up_dc">>)
     EXCEPT !.settle = [kind |-> "operating_point"],
       !.measurements =
         <<[id |-> "iv",    kind |-> "curve", unit |-> "A", probe |-> "i_out", parents |-> <<>>],
           [id |-> "vv",    kind |-> "curve", unit |-> "V", probe |-> "v_mid", parents |-> <<>>],
           [id |-> "fit",   kind |-> "linear_fit", unit |-> "A/V", parents |-> <<"iv">>, window |-> Window(2, 6, "V")],
           [id |-> "zero",  kind |-> "crossing", unit |-> "V", parents |-> <<"iv">>, threshold |-> Lit(0, "A")],
           [id |-> "sense", kind |-> "sign", unit |-> "1", parents |-> <<"iv">>, tolerance |-> "A"],
           [id |-> "peak",  kind |-> "max_abs", unit |-> "A", parents |-> <<"iv">>],
           [id |-> "span",  kind |-> "compliance_interval", unit |-> "V", parents |-> <<"iv">>,
            bounds |-> "A", lower |-> 0, upper |-> 1]>>,
       !.rules = <<[id |-> "linear", kind |-> "r2", of |-> <<"fit">>],
                   [id |-> "positive", kind |-> "threshold", of |-> <<"zero">>,
                    limit |-> [supply |-> "core"]]>>]
PulsePoint ==
    [Point([kind |-> "pulse_train_transient", stimulus |-> "up", step |-> Lit(1, "s"), stop |-> Lit(90, "s")], <<"up">>)
     EXCEPT !.parameters = <<[name |-> "bias", value |-> In("bias", "V")], [name |-> "level", value |-> Lit(1, "V")]>>,
       !.settle = [kind |-> "until_delta", probe |-> "v_out", unit |-> "V", tolerance |-> 1, hold |-> 1, maximum |-> 2],
       !.measurements =
         <<[id |-> "q_out", kind |-> "integrate", unit |-> "C", quantity |-> "delivered_charge", probe |-> "i_out",
            parents |-> <<>>, window |-> Window(1, 81, "s"), counted |-> "up", count |-> 8],
           [id |-> "q_up",  kind |-> "integrate", unit |-> "C", quantity |-> "source_charge", probe |-> "i_up",
            parents |-> <<>>, window |-> Window(1, 81, "s"), counted |-> "up", count |-> 8],
           [id |-> "loss",  kind |-> "mismatch_fraction", unit |-> "1", parents |-> <<"q_out", "q_up">>, floor |-> "C"],
           [id |-> "ramp",  kind |-> "curve", unit |-> "V", probe |-> "v_out", parents |-> <<>>],
           [id |-> "slew",  kind |-> "linear_fit", unit |-> "V/s", parents |-> <<"ramp">>, window |-> Window(2, 6, "s")],
           [id |-> "edge",  kind |-> "crossing", unit |-> "s", parents |-> <<"ramp">>, threshold |-> Lit(6, "V")]>>,
       !.rules = <<[id |-> "pulses", kind |-> "pulse_count", of |-> <<>>, stimulus |-> "up", least |-> 1, most |-> 8]>>]
PairPoint ==
    [Point([kind |-> "phase_offset_pair_transient", stimulus |-> "pair", step |-> Lit(1, "s"),
            stop |-> Lit(90, "s")], <<"pair">>)
     EXCEPT !.measurements =
         <<[id |-> "wave", kind |-> "curve", unit |-> "V", probe |-> "v_out", parents |-> <<>>],
           [id |-> "rise", kind |-> "crossing", unit |-> "s", parents |-> <<"wave">>, threshold |-> [supply |-> "core"]]>>]
BaseReductions ==
    <<[id |-> "charges", kind |-> "collect_array", unit |-> "C",
       from |-> <<[point |-> "nominal", measurement |-> "q_out", conditions |-> {1}],
                  [point |-> "nominal", measurement |-> "q_up",  conditions |-> {2}]>>],
      [id |-> "first", kind |-> "select", unit |-> "C", parent |-> "charges", index |-> 1],
      [id |-> "line", kind |-> "collect_curve", unit |-> "C", axis |-> "V",
       from |-> <<[point |-> "nominal", measurement |-> "q_out", axis |-> "V", parameter |-> "level"],
                  [point |-> "nominal", measurement |-> "q_up",  axis |-> "V"]>>],
      [id |-> "gain", kind |-> "linear_fit", unit |-> "C/V", parent |-> "line", window |-> Window(0, 1, "V")],
      [id |-> "at", kind |-> "crossing", unit |-> "V", parent |-> "line", threshold |-> Lit(0, "C")],
      [id |-> "charge", kind |-> "arithmetic", unit |-> "C", operator |-> "multiply",
       operands |-> <<[reduction |-> "gain", component |-> "slope", unit |-> "C/V"],
                      [reduction |-> "at", component |-> "crossing", unit |-> "V"]>>],
      [id |-> "most", kind |-> "arithmetic", unit |-> "C", operator |-> "max_abs",
       operands |-> <<[reduction |-> "charges", component |-> "value", unit |-> "C"]>>],
      [id |-> "edges", kind |-> "collect_array", unit |-> "s",
       from |-> <<[point |-> "nominal", measurement |-> "edge", conditions |-> {}]>>],
      [id |-> "late", kind |-> "select", unit |-> "s", parent |-> "edges", index |-> 0]>>
Stage(id, after, inputs, point) ==
    [id |-> id, after |-> after, inputs |-> inputs, points |-> <<point>>, reductions |-> <<>>, rules |-> <<>>]
At(s, m, c)   == [stage |-> s, point |-> "nominal", measurement |-> m, component |-> c]
To(s, i)      == [stage |-> s, input |-> i]
BasePlan ==
    [dut |-> BaseDut, corners |-> <<[id |-> "tt", temperature |-> 27, values |-> <<[id |-> "vdd", unit |-> "V", value |-> 12]>>]>>,
     supplies |-> <<[id |-> "core", positive |-> "vdd", negative |-> "0", voltage |-> "vdd"]>>,
     stimuli |-> BaseStimuli, probes |-> BaseProbes,
     stages |-> <<Stage("pair", {"dc", "pulse"}, <<[id |-> "skew", unit |-> "s"]>>, PairPoint),
                  Stage("dc", {}, <<>>, DcPoint),
                  [Stage("pulse", {"dc"}, <<[id |-> "bias", unit |-> "V"]>>, PulsePoint)
                   EXCEPT !.reductions = BaseReductions,
                          !.rules = <<[id |-> "fits", kind |-> "r2", of |-> <<"gain">>]>>]>>,
     bindings |-> <<[id |-> "b1", from |-> At("dc", "zero", "crossing"), to |-> To("pulse", "bias"), unit |-> "V"],
                   [id |-> "b2", from |-> At("pulse", "edge", "value"), to |-> To("pair", "skew"), unit |-> "s"]>>,
     observables |-> <<[id |-> "gm", from |-> At("dc", "fit", "value"), unit |-> "A/V", shape |-> "fit"],
                       [id |-> "ok", from |-> [stage |-> "dc", point |-> "nominal", rule |-> "linear"], unit |-> "1", shape |-> "verdict"],
                       [id |-> "q", from |-> [stage |-> "pulse", reduction |-> "charge", component |-> "value"], unit |-> "C", shape |-> "scalar"]>>]
-----------------------------------------------------------------------------
(* What an author may change: some edits keep a plan correct, most do not. *)
Edits ==
    {"case_port", "drop_net", "swap_override", "corner_value", "corner_unit", "supply_net", "low_output",
     "swap_levels", "rename_up", "ac_active", "ac_sweep", "idle_probe", "probe_port", "probe_branch",
     "cycle", "drop_edge", "self_edge", "rename_stage", "input_unit", "unbind", "bind_twice", "bind_intercept",
     "bind_v_fit", "bind_reduction", "bind_sign", "start_bound", "step_uneven", "carry", "carry_self",
     "initial_node", "fit_v", "fit_unit", "fit_of_crossing", "cross_unit", "cross_v", "sum_dc", "count_more",
     "settle_amps", "rule_of_curve", "rule_limit", "select_out", "multiply_wrong", "operand_curve",
     "divide", "collect_curves", "collect_same", "observe_unit", "observe_twice", "observe_sign"}

Dc    == 2  \* the places of the stages in the plan
Pulse == 3
EditPlan(e, p) ==
    CASE e = "case_port"   -> [p EXCEPT !.dut.ports[2].name = "Vdd"]
      [] e = "drop_net"    -> [p EXCEPT !.dut.nets = [n \in DOMAIN @ \ {"OUT"} |-> @[n]]]
      [] e = "swap_override" -> [override |-> [p.dut EXCEPT !.top = "other"]] @@ p
      [] e = "corner_value" -> [p EXCEPT !.corners[1].values[1].id = "vss"]
      [] e = "corner_unit" -> [p EXCEPT !.corners[1].values[1].unit = "A"]
      [] e = "supply_net"  -> [p EXCEPT !.supplies[1].positive = "elsewhere"]
      [] e = "low_output"  -> [p EXCEPT !.stimuli[1].target = "OUT"]
      [] e = "swap_levels" -> [p EXCEPT !.stimuli[2].low = 100, !.stimuli[2].high = 0]
      [] e = "rename_up"   -> [p EXCEPT !.stimuli = @ \o <<[@[1] EXCEPT !.id = "pair_ref", !.target = "OUT", !.state = "bias"]>>,
                                 !.stages[1].points[1].active = @ \o <<"pair_ref">>]
      [] e = "ac_active"   -> [p EXCEPT !.stages[Dc].points[1].active = @ \o <<"loop">>]
      [] e = "ac_sweep"    -> [p EXCEPT !.stages[Dc].points[1].active = @ \o <<"loop">>,
                                 !.stages[Dc].points[1].settle = [kind |-> "fixed_time", duration |-> 1],
                                 !.stages[Dc].points[1].analysis =
                                   [kind |-> "linear_ac", stimulus |-> "loop", start |-> Lit(1, "Hz"), stop |-> Lit(9, "Hz")]]
      [] e = "idle_probe"  -> [p EXCEPT !.stages[Dc].points[1].measurements[1].probe = "i_up"]
      [] e = "probe_port"  -> [p EXCEPT !.probes[2].port = "MID"]
      [] e = "probe_branch" -> [p EXCEPT !.probes[4].branch = "reference"]
      [] e = "cycle"       -> [p EXCEPT !.stages[Dc].after = {"pair"}]
      [] e = "drop_edge"   -> [p EXCEPT !.stages[1].after = {"dc"}]
      [] e = "self_edge"   -> [p EXCEPT !.stages[Dc].after = {"dc"}]
      [] e = "rename_stage" -> [p EXCEPT !.stages[1].id = "pulse"]
      [] e = "input_unit"  -> [p EXCEPT !.stages[Pulse].inputs[1].unit = "A"]
      [] e = "unbind"      -> [p EXCEPT !.bindings = SubSeq(@, 1, 1)]
      [] e = "bind_twice"  -> [p EXCEPT !.bindings = @ \o <<[@[1] EXCEPT !.id = "b3", !.from = At("dc", "span", "value")]>>]
      [] e = "bind_intercept" -> [p EXCEPT !.bindings[1].from = At("dc", "fit", "intercept"), !.bindings[1].unit = "A",
                                    !.stages[Pulse].inputs[1].unit = "A",
                                    !.stages[Pulse].points[1].parameters[1].value.unit = "A"]
      [] e = "bind_v_fit"  -> [p EXCEPT !.bindings[1].from = At("dc", "fit", "intercept"), !.bindings[1].unit = "1",
                                    !.stages[Pulse].inputs[1].unit = "1",
                                    !.stages[Pulse].points[1].parameters[1].value.unit = "1"]
      [] e = "bind_reduction" -> [p EXCEPT !.bindings[2].from = [stage |-> "pulse", reduction |-> "late", component |-> "value"]]
      [] e = "bind_sign"   -> [p EXCEPT !.bindings[1].from = At("dc", "sense", "value")]
      [] e = "start_bound" -> [p EXCEPT !.stages[1].points[1].analysis.stop = In("skew", "s")]
      [] e = "step_uneven" -> [p EXCEPT !.stages[Dc].points[1].analysis.step = Lit(3, "V")]
      [] e = "carry"       -> [p EXCEPT !.stages[1].points[1].state = [kind |-> "carryover", stage |-> "dc", point |-> "nominal"]]
      [] e = "carry_self"  -> [p EXCEPT !.stages[1].points[1].state = [kind |-> "carryover", stage |-> "pair", point |-> "nominal"]]
      [] e = "initial_node" -> [p EXCEPT !.stages[1].points[1].state.initial[2].name = "VDD"]
      [] e = "fit_v"       -> [p EXCEPT !.stages[Dc].points[1].measurements[3].parents = <<"vv">>,
                                    !.stages[Dc].points[1].measurements[3].unit = "1", !.observables[1].unit = "1"]
      [] e = "fit_unit"    -> [p EXCEPT !.stages[Pulse].points[1].measurements[5].unit = "A/s"]
      [] e = "fit_of_crossing" -> [p EXCEPT !.stages[Pulse].points[1].measurements[6].parents = <<"slew">>,
                                    !.stages[Pulse].points[1].measurements[6].threshold = Lit(0, "V/s")]
      [] e = "cross_unit"  -> [p EXCEPT !.stages[Dc].points[1].measurements[4].unit = "A"]
      [] e = "cross_v"     -> [p EXCEPT !.stages[Dc].points[1].measurements[4].parents = <<"vv">>,
                                    !.stages[Dc].points[1].measurements[4].threshold = Lit(0, "V")]
      [] e = "sum_dc"      -> [p EXCEPT !.stages[Dc].points[1].measurements = @ \o
                                 <<[id |-> "sum", kind |-> "integrate", unit |-> "C", quantity |-> "delivered_charge",
                                    probe |-> "i_out", parents |-> <<>>, window |-> Window(1, 2, "V")]>>]
      [] e = "count_more"  -> [p EXCEPT !.stages[Pulse].points[1].measurements[1].count = 9]
      [] e = "settle_amps" -> [p EXCEPT !.stages[Pulse].points[1].settle.probe = "i_out"]
      [] e = "rule_of_curve" -> [p EXCEPT !.stages[Dc].points[1].rules[1].of = <<"iv">>]
      [] e = "rule_limit"  -> [p EXCEPT !.stages[Dc].points[1].rules[2].of = <<"peak">>]
      [] e = "select_out"  -> [p EXCEPT !.stages[Pulse].reductions[2].index = 2]
      [] e = "multiply_wrong" -> [p EXCEPT !.stages[Pulse].reductions[6].operator = "divide"]
      [] e = "operand_curve" -> [p EXCEPT !.stages[Pulse].reductions[7].operands[1].reduction = "line"]
      [] e = "divide"      -> [p EXCEPT !.stages[Pulse].reductions[6] =
                                 [id |-> "charge", kind |-> "arithmetic", unit |-> "1", operator |-> "divide",
                                  operands |-> <<[reduction |-> "first", component |-> "value", unit |-> "C"],
                                                 [reduction |-> "gain", component |-> "intercept", unit |-> "C"]>>],
                                 !.observables[3].unit = "1"]
      [] e = "collect_curves" -> [p EXCEPT !.stages[Pulse].reductions[1].from[1].measurement = "ramp"]
      [] e = "collect_same" -> [p EXCEPT !.stages[Pulse].reductions[1].from[2].measurement = "q_out"]
      [] e = "observe_unit" -> [p EXCEPT !.observables[1].unit = "A"]
      [] e = "observe_twice" -> [p EXCEPT !.observables[2] = [@ EXCEPT !.from = p.observables[1].from]]
      [] e = "observe_sign" -> [p EXCEPT !.observables[1] =
                                 [@ EXCEPT !.from = At("dc", "sense", "value"), !.unit = "1", !.shape = "scalar"]]
-----------------------------------------------------------------------------
Init == /\ edits = {}
        /\ \/ subject = "plan" /\ doc = BasePlan
           \/ subject = "experiment" /\ doc = Bench!BaseSpec
           \/ subject = "template" /\ doc = Bench!BaseTemplate
           \/ subject = "verdict" /\ doc = Judge!BaseVerdict
           \/ subject = "comparison" /\ doc \in Judge!LvsBases
           \/ subject = "rule check" /\ doc \in Judge!DrcBases
           \/ subject = "call" /\ doc \in Judge!CallBases
           \/ subject = "exchange" /\ doc = Judge!BaseExchange
           \/ subject = "library" /\ doc = Library!BaseLibrary
           \/ subject = "series" /\ doc \in Bench!Bases
           \/ subject = "waveform" /\ doc \in Signals!Waves
           \/ subject = "response" /\ doc \in Signals!Traces
           \/ subject = "record" /\ doc \in Signals!Vectors
           \/ subject = "tone" /\ doc \in Signals!Requests
           \/ subject = "oscillation" /\ doc = Signals!BaseWave
           \/ subject = "grid" /\ doc \in Signals!Grids
EditsPlan == /\ subject = "plan"
             /\ \E e \in Edits \ edits : edits' = edits \cup {e} /\ doc' = EditPlan(e, doc)
EditsSpec == /\ subject = "experiment"
             /\ \E e \in Bench!Edits \ edits : edits' = edits \cup {e} /\ doc' = Bench!EditSpec(e, doc)
EditsTemplate == /\ subject = "template"
                 /\ \E e \in Bench!TemplateEdits \ edits : edits' = edits \cup {e} /\ doc' = Bench!EditTemplate(e, doc)
EditsVerdict == /\ subject = "verdict"
                /\ \E e \in Judge!Edits \ edits : edits' = edits \cup {e} /\ doc' = Judge!EditVerdict(e, doc)
EditsLvs == /\ subject = "comparison"
            /\ \E e \in Judge!LvsEdits \ edits : edits' = edits \cup {e} /\ doc' = Judge!EditLvs(e, doc)
EditsDrc == /\ subject = "rule check"
            /\ \E e \in Judge!DrcEdits \ edits : edits' = edits \cup {e} /\ doc' = Judge!EditDrc(e, doc)
EditsCall == /\ subject = "call"
             /\ \E e \in Judge!CallEdits \ edits : edits' = edits \cup {e} /\ doc' = Judge!EditCall(e, doc)
EditsExchange == /\ subject = "exchange"
                 /\ \E e \in Judge!ExchangeEdits \ edits : edits' = edits \cup {e} /\ doc' = Judge!EditExchange(e, doc)
EditsLibrary == /\ subject = "library"
                /\ \E e \in Library!Edits \ edits : edits' = edits \cup {e} /\ doc' = Library!EditLibrary(e, doc)
EditsSeries == /\ subject = "series"
               /\ \E e \in Bench!SeriesEdits \ edits : edits' = edits \cup {e} /\ doc' = Bench!EditRaw(e, doc)
EditsWave == /\ subject = "oscillation"
             /\ \E i \in (DOMAIN doc) \ edits : \E level \in Signals!Levels \ {doc[i]} :
                   edits' = edits \cup {i} /\ doc' = [doc EXCEPT ![i] = level]
Next == /\ Cardinality(edits) < MaxEdits
        /\ UNCHANGED subject
        /\ EditsPlan \/ EditsSpec \/ EditsTemplate \/ EditsVerdict \/ EditsLvs \/ EditsDrc \/ EditsCall \/ EditsExchange \/ EditsLibrary \/ EditsSeries \/ EditsWave
Spec == Init /\ [][Next]_vars
-----------------------------------------------------------------------------
(* Every measured edge, crossing, settling time, slope, bandwidth and      *)
(* phase is one that the samples have; the transform is the one it stands  *)
(* for, and a spectral ratio's band is split into tone, aliased harmonics  *)
(* and noise; the crossings, figures, verdict and receipt of a transient   *)
(* are its wave's, and a grid of receipts is a grid of comparable pairs.   *)
MeasuresAreTrue ==
    /\ subject = "waveform" => Signals!WaveHolds(doc)
    /\ subject = "response" => Signals!TraceHolds(doc)
    /\ subject = "record" => Signals!TransformIsTrue(doc)
    /\ subject = "tone" => Signals!SpectrumHolds(doc)
    /\ subject = "oscillation" => Signals!OscillationHolds(doc)
    /\ subject = "grid" => Signals!GridHolds(doc)

(* A series is what the simulator computed and what was asked for, and of  *)
(* an honest run there is one; and tables of values are told apart.        *)
SeriesIsNative == subject = "series" => Bench!SeriesHolds(doc) /\ Bench!TablesHold(doc)

(* A plan that passed validation compiles: whatever the compiler looks up  *)
(* by name is there, every stage input has a bound value of its unit by    *)
(* the time its stage runs, and what a deck saves or initialises is in it. *)
(* What the compiler itself declines are the limits it names, a stimulus   *)
(* without supply apart, which it trips over. The names of a deck differ,  *)
(* unless a stimulus is called like a source of a pair.                    *)
Limits == {"analysis_unsupported", "state_unresolved", "dc_range_over_limit",
           "dc_range_not_integral", "measurement_probe_unavailable"}
Tripped(p, point) == \E n \in ToSet(point.active) : Item(p.stimuli, n).kind = "small_signal_ac"
Clash(p) == \E i, j \in DOMAIN p.stimuli : /\ p.stimuli[i].kind = "phase_offset_pair"
                                           /\ Folded(p.stimuli[j].id) \in {Folded(p.stimuli[i].id) \o "_ref",
                                                                           Folded(p.stimuli[i].id) \o "_offset"}
DeckSound(p, point) ==
    /\ InitialNodes(p, point) \subseteq Wired(p, point) \cup Inner(p)
    /\ Every(p.probes, LAMBDA b : /\ Reads(p, b) \subseteq Wired(p, point) \cup Inner(p)
                                  /\ Through(p, point, b) \subseteq ToSet(DeviceNames(p, point)))
    /\ ~Clash(p) => Distinct(DeviceNames(p, point))
PlanResolves ==
    subject = "plan" /\ Accepted(doc) =>
      /\ {"cycle"} \notin ToSet(Schedule(doc))
      /\ Every(doc.stages, LAMBDA s : Every(s.points, LAMBDA point :
           LET troubles == PointTroubles(doc, s, point) IN
           /\ troubles \subseteq Limits \cup (IF Tripped(doc, point) THEN {"undefined"} ELSE {})
           /\ troubles = {} => DeckSound(doc, point)))

(* The unit a validated plan declares for a value is the dimension of what *)
(* the runner computes, through curves, fits, crossings and charges, and   *)
(* through the edges between stages; a declared shape is the value's. A    *)
(* charge integrated over a DC sweep, the list of signs and the intercept  *)
(* of a fit taken by an edge are where the code does not keep this.        *)
Agrees(p, point, m, v) ==
    \/ v = Refused
    \/ m.kind = "integrate" /\ point.analysis.kind = "dc_sweep"
    \/ v.dim = Dimension[m.unit] /\ (m.kind # "sign" => v.shape = MeasurementShape(m.kind))
Carried(p, at) == LET v == ValueOf(p, at) IN IF at.component = "intercept" THEN v.intercept ELSE v.dim
PlanUnits ==
    subject = "plan" /\ Accepted(doc) =>
      /\ Every(doc.stages, LAMBDA s : Every(s.points, LAMBDA point :
           LET values == PointValues(doc, point) IN
           \A i \in DOMAIN values : Agrees(doc, point, point.measurements[i], values[i])))
      /\ Every(doc.bindings, LAMBDA b :
           FromMeasurement(b.from) /\ b.from.component # "intercept" /\ ValueOf(doc, b.from) # Refused
             => Carried(doc, b.from) = Dimension[b.unit])
      /\ Every(doc.stages, LAMBDA s : \A i \in DOMAIN s.reductions :
           LET r == s.reductions[i]
               d(o) == Dimension[IF Literal(o) THEN o.unit ELSE OperandUnit(s.reductions, o)]
           IN /\ r.kind = "arithmetic" /\ r.operator = "multiply" /\ Len(r.operands) = 2
                   => Dimension[r.unit] = Times(d(r.operands[1]), d(r.operands[2]))
              /\ r.kind = "arithmetic" /\ r.operator = "divide"
                   => Dimension[r.unit] = Over(d(r.operands[1]), d(r.operands[2])))

(* An experiment that passed validation runs: its decks have no two cards  *)
(* of a name and hold what they save, the binder takes them, every vector  *)
(* that the extraction selects is in the raw file with its unit and its    *)
(* part, every request fits the series it is given, and yields the unit    *)
(* that its derivations were checked with. A template that compiles yields *)
(* such an experiment, with every value where it was declared to go and in *)
(* its unit, limits that are their formulas, and no parameter that turns   *)
(* nothing.                                                                *)
SpecResolves == /\ subject = "experiment" => Bench!SpecHolds(doc)
                /\ subject = "template" => Bench!TemplateHolds(doc)

(* A verdict is earned: everything it needs was bound by the measurement,  *)
(* and its margin says how far the value may move; that of a sign-off tool *)
(* rests on files that are complete, that agree, and that nothing in them  *)
(* contradicts.                                                            *)
VerdictsAreSound ==
    /\ subject = "verdict" => Judge!VerdictHolds(doc)
    /\ subject = "comparison" => Judge!LvsHolds(doc, edits = {})
    /\ subject = "rule check" => Judge!DrcHolds(doc, edits = {})

(* A simulation that is launched is the one analysis of its deck, the one  *)
(* that was asked for, and its verdict is of that analysis. What the host  *)
(* accepts of a provider is about the files that it named, as they stayed, *)
(* with evidence where it was to go; and it does accept what the PDK       *)
(* provider answers of itself about files that stand still.                *)
AnswersAreBound ==
    /\ subject = "call" => Judge!CallHolds(doc, edits = {})
    /\ subject = "exchange" => Judge!ExchangeHolds(doc, edits = {})

(* The prelude composed of a library that loads is closed and complete:    *)
(* each name is defined once, each instance and active device finds what it*)
(* names, dependencies come first, and headers and bytes are the published.*)
PreludeIsClosed == subject = "library" => Library!PreludeHolds(doc)

(* A deck that is launched with compiled blocks has the one co-simulated   *)
(* instance that the simulator can host, or uses the OSDI modules through  *)
(* their wrappers only, with parameters that they realise, and nothing but *)
(* reviewed loads comes in with them.                                      *)
DeckIsHonest == subject = "library" => Library!DeckHolds(doc)

(* Every model or subcircuit reference resolves inside the closure, as the *)
(* module's own description has it (block_library.py).                     *)
NothingFromTheDeck == subject = "library" => Library!PreludeHolds(doc) /\ Library!ReferencesHold(doc)

(* The documented units of an edge from a fit: both its slope and its      *)
(* intercept are in the unit of what they carry.                           *)
EdgesKeepUnits ==
    subject = "plan" /\ Accepted(doc) => Every(doc.bindings, LAMBDA b :
        FromMeasurement(b.from) /\ ValueOf(doc, b.from) # Refused
          => Carried(doc, b.from) = Dimension[b.unit])
=============================================================================
