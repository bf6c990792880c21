---------------------------- MODULE MCExperiments -----------------------------
(* An amplifier's testbench with all four analyses, and the edits an       *)
(* author makes to it; and a simulation of one analysis with the file it   *)
(* wrote and a request for a series of it. The plots are what the          *)
(* simulator computed; what is on the disk is their rendering, in which    *)
(* slips may have happened.                                                *)
EXTENDS RawSeries, TLC

Cased   == [VIN |-> "vin", Out |-> "out", VDD |-> "vdd", X_OPENADA_DUT |-> "x_openada_dut", R_load |-> "r_load",
            V_in |-> "v_in", AMP |-> "amp", I_bias |-> "i_bias", C_out |-> "c_out", C_dec |-> "c_dec", V_amp |-> "v_amp",
            I_clk |-> "i_clk", V_clk |-> "v_clk", L_out |-> "l_out"]
Initial == [vin |-> "V", VIN |-> "V", vdd |-> "V", in |-> "I", load |-> "L", R_load |-> "R", bias |-> "B", dec |-> "D",
            out |-> "O", amp |-> "A", clk |-> "C", V_in |-> "V"]
Card(kind, name) == [card |-> kind, name |-> name]
Bundle  == [digests |-> "published", top |-> "AMP", ports |-> <<"IN", "OUT", "VDD", "VSS">>,
            netlist |-> <<Card("title", ""), Card("comment", ""), Card("subckt", "bias"), Card("device", "M1"), Card("ends", ""),
                          Card("subckt", "AMP"), Card("device", "M2"), Card("device", "XB"), Card("ends", "")>>]
Pdk     == [id |-> "pdk", corners |-> {"tt", "ff"}, models |-> {"nmos", "v_clk"}, globals |-> {"sub"}]
Subject == INSTANCE ExperimentTemplate WITH Lower <- Cased, PointLimit <- 21, ScalarLimit <- 100, Malformed <- -99, Rounded <- {3},
                                       Prime <- 17, Root <- 3, Length <- 16
-----------------------------------------------------------------------------
Source(name, kind, plus, values) == [name |-> name, kind |-> kind, plus |-> plus, minus |-> "0", values |-> values]
Ac(m)  == [ac_mag |-> m, ac_phase |-> 0]
Pulsed == [initial_value |-> 0, pulsed_value |-> 8, delay_time |-> 0, rise_time |-> 1, fall_time |-> 1,
           pulse_width |-> 4, period |-> 8]
Elements ==
    <<Source("vin", "vdc", "in", [dc |-> 1] @@ Ac(1)), Source("vdd", "vdc", "vdd", [dc |-> 8]),
      Source("clk", "ipulse", "out", Pulsed), Source("R_load", "resistor", "out", [r |-> 1]),
      [Source("dec", "capacitor", "vdd", [c |-> 1, ic |-> 0]) EXCEPT !.minus = "mid"],
      Source("load", "inductor", "mid", [l |-> 1])>>
Analyses ==
    <<[id |-> "op", kind |-> "op"],
      [id |-> "ac", kind |-> "ac", sweep |-> "dec", points |-> 2, start |-> 1, stop |-> 1000, excitation |-> <<"vin">>],
      [id |-> "dc", kind |-> "dc", source |-> "vin", start |-> 0, stop |-> 8, step |-> 3],
      [id |-> "tran", kind |-> "tran", step |-> 1, stop |-> 15, count |-> 16]>>
Voltage(id, a, net)   == [id |-> id, analysis |-> a, kind |-> "node_voltage", of |-> net, component |-> "real"]
Current(id, a, name)  == [id |-> id, analysis |-> a, kind |-> "element_current", of |-> name, component |-> "real"]
Observations ==
    <<Voltage("o_op", "op", "out"), Voltage("ir", "ac", "in"), [Voltage("ii", "ac", "in") EXCEPT !.component = "imaginary"],
      Voltage("or", "ac", "out"), [Voltage("oi", "ac", "out") EXCEPT !.component = "imaginary"],
      Current("cr", "ac", "vin"), [Current("ci", "ac", "vin") EXCEPT !.component = "imaginary"],
      Voltage("o_dc", "dc", "out"), Current("i_dc", "dc", "vdd"), Voltage("o_tran", "tran", "out")>>
Q(v, u) == [value |-> v, unit |-> u]
Ordinary(id, a, kind, signal, given) ==
    [id |-> id, analysis |-> a, profile |-> "measure", request |-> [id |-> id, kind |-> kind, signal |-> signal, given |-> given]]
Transfer(id, kind, input, unit) ==
    [id |-> id, analysis |-> "ac", profile |-> "transfer",
     request |-> [id |-> id, kind |-> kind, input |-> input, output |-> <<"or", "oi">>, unit |-> unit, interpretation |-> "forward"]]
Measurements ==
    <<Ordinary("level", "op", "sample_at", "o_op", [at |-> Q(0, "1")]),
      Ordinary("low", "dc", "crossing", "o_dc", [threshold |-> Q(2, "V")]),
      Ordinary("high", "dc", "crossing", "o_dc", [threshold |-> Q(6, "V")]),
      Ordinary("gm", "dc", "slope", "i_dc", <<>>),
      Ordinary("rise", "tran", "rise_time", "o_tran", [lower_threshold |-> Q(1, "V"), upper_threshold |-> Q(7, "V")]),
      Ordinary("settle", "tran", "settling_time", "o_tran",
               [target |-> Q(8, "V"), tolerance |-> Q(1, "V"), reference |-> Q(2, "s"), hold_for |-> Q(3, "s")]),
      Transfer("gain", "low_frequency_gain_db", <<"ir", "ii">>, "dB"),
      Transfer("zin", "low_frequency_impedance", <<"cr", "ci">>, "Ohm"),
      [id |-> "sfdr", analysis |-> "tran", profile |-> "spectral",
       request |-> [id |-> "sfdr", signal |-> "o_tran", length |-> 16, method |-> "coherent-single-tone-fft", lower |-> 0,
                    upper |-> 32, fundamental |-> 4, orders |-> {2, 3}, metric |-> "sfdr", domain |-> "generic",
                    reference |-> "none", alignment |-> "openada-definition"]]>>
BaseSpec ==
    [dut |-> [locator |-> "canonical", digests |-> "published", top |-> "AMP",
              nets |-> [IN |-> "in", OUT |-> "out", VDD |-> "vdd", VSS |-> "0"]],
     elements |-> Elements, analyses |-> Analyses, observations |-> Observations, measurements |-> Measurements,
     derivations |-> <<[id |-> "span", kind |-> "subtract", analysis |-> "dc", parents |-> <<"high", "low">>]>>,
     debug |-> <<"vdd">>, pdk |-> [id |-> "pdk", corner |-> "tt", temperature |-> 27]]
-----------------------------------------------------------------------------
Pwl(t) == [dc |-> 0, points |-> <<[time |-> 0, value |-> 0], [time |-> t, value |-> 1]>>]
Edits ==
    {"bundle", "unbound", "ground_net", "case_net", "float", "dangle", "collide", "folded", "model", "subckt", "global",
     "short", "pulse", "pwl", "pwl_back", "no_phase", "second_ac", "zero_ac", "sweep_resistor", "sweep_current", "sweep_back",
     "lin", "one_point", "many_points", "octaves", "oversample", "max_step", "late_start", "imaginary", "imaginary_dc", "same_vector",
     "observe_ground", "observe_current", "debug_case", "debug_twice", "other_analysis", "axis_unit", "window", "bounds",
     "slope_tran", "mixed", "differential", "swap_parts", "margin", "impedance", "short_record", "plain_tran", "parents",
     "cross_analysis", "same_id", "corner", "cold", "two_sources"}
EditSpec(e, d) ==
    CASE e = "bundle"    -> [d EXCEPT !.dut.digests = "older"]
      [] e = "unbound"   -> [d EXCEPT !.dut.nets = [IN |-> "in", OUT |-> "out", VDD |-> "vdd"]]
      [] e = "ground_net" -> [d EXCEPT !.dut.nets.VSS = "vss", !.elements = Append(@, Source("bias", "vdc", "vss", [dc |-> 0]))]
      [] e = "case_net"  -> [d EXCEPT !.dut.nets.OUT = "Out"]
      [] e = "float"     -> [d EXCEPT !.elements[5].plus = "far", !.elements[6].minus = "far"]
      [] e = "dangle"    -> [d EXCEPT !.elements[6].plus = "end"]
      [] e = "collide"   -> [d EXCEPT !.elements = @ \o <<Source("in", "vdc", "out", [dc |-> 0]), Source("V_in", "vdc", "out", [dc |-> 0])>>]
      [] e = "folded"    -> [d EXCEPT !.elements = Append(@, Source("VIN", "vdc", "out", [dc |-> 0]))]
      [] e = "model"     -> [d EXCEPT !.elements[3] = Source("clk", "vpulse", "out", Pulsed)]
      [] e = "subckt"    -> [d EXCEPT !.elements[1].name = "amp", !.analyses[2].excitation = <<"amp">>]
      [] e = "global"    -> [d EXCEPT !.elements[5].minus = "sub", !.elements[6].plus = "sub"]
      [] e = "short"     -> [d EXCEPT !.elements[4].plus = "0"]
      [] e = "pulse"     -> [d EXCEPT !.elements[3].values.pulse_width = 9]
      [] e = "pwl"       -> [d EXCEPT !.elements[3] = Source("clk", "ipwl", "out", Pwl(4))]
      [] e = "pwl_back"  -> [d EXCEPT !.elements[3] = Source("clk", "ipwl", "out", Pwl(0))]
      [] e = "no_phase"  -> [d EXCEPT !.elements[1].values = [dc |-> 1, ac_mag |-> 1]]
      [] e = "second_ac" -> [d EXCEPT !.elements[2].values = [dc |-> 8] @@ Ac(1)]
      [] e = "zero_ac"   -> [d EXCEPT !.elements[1].values.ac_mag = 0]
      [] e = "sweep_resistor" -> [d EXCEPT !.analyses[3].source = "R_load"]
      [] e = "sweep_current"  -> [d EXCEPT !.analyses[3].source = "clk"]
      [] e = "sweep_back" -> [d EXCEPT !.analyses[3].stop = -8]
      [] e = "lin"       -> [d EXCEPT !.analyses[2].sweep = "lin", !.analyses[2].points = 9]
      [] e = "one_point" -> [d EXCEPT !.analyses[2].points = 1]
      [] e = "many_points" -> [d EXCEPT !.analyses[2].sweep = "lin", !.analyses[2].points = 20]
      [] e = "octaves"   -> [d EXCEPT !.analyses[2].sweep = "oct", !.analyses[2].points = 2]
      [] e = "oversample" -> [d EXCEPT !.analyses[4].stop = 30]
      [] e = "max_step"  -> [d EXCEPT !.analyses[4] = [max_step |-> 1] @@ @, !.analyses[4].step = 2, !.analyses[4].stop = 30]
      [] e = "late_start" -> [d EXCEPT !.analyses[4] = [start |-> 8] @@ @, !.analyses[4].count = 8]
      [] e = "imaginary" -> [d EXCEPT !.observations[10].component = "imaginary"]
      [] e = "imaginary_dc" -> [d EXCEPT !.observations = Append(@, [Voltage("x_dc", "dc", "out") EXCEPT !.component = "imaginary"])]
      [] e = "same_vector" -> [d EXCEPT !.observations[5].component = "real"]
      [] e = "observe_ground" -> [d EXCEPT !.observations = Append(@, Voltage("g", "op", "0"))]
      [] e = "observe_current" -> [d EXCEPT !.observations[9].of = "clk"]
      [] e = "debug_case"  -> [d EXCEPT !.debug = <<"vdd", "VDD">>]
      [] e = "debug_twice" -> [d EXCEPT !.debug = <<"out", "vdd", "out">>]
      [] e = "other_analysis" -> [d EXCEPT !.measurements[5].request.signal = "o_dc"]
      [] e = "axis_unit" -> [d EXCEPT !.measurements[6].request.given.reference.unit = "V"]
      [] e = "window"    -> [d EXCEPT !.measurements[2].request = [window |-> [start |-> 1, stop |-> 7, unit |-> "V"]] @@ @]
      [] e = "bounds"    -> [d EXCEPT !.measurements[5].request.given.lower_threshold.value = 7]
      [] e = "slope_tran" -> [d EXCEPT !.measurements[4] = Ordinary("gm", "tran", "slope", "o_tran", <<>>)]
      [] e = "mixed"     -> [d EXCEPT !.measurements[7].request.input = <<"ir", "ci">>, !.measurements[7].request.output = <<"cr", "oi">>]
      [] e = "differential" -> [d EXCEPT !.measurements[7].request.input = <<"ir", "ii", "cr", "ci">>]
      [] e = "swap_parts" -> [d EXCEPT !.measurements[7].request.input = <<"ii", "ir">>]
      [] e = "margin"    -> [d EXCEPT !.measurements[7].request.kind = "phase_margin", !.measurements[7].request.unit = "deg"]
      [] e = "impedance" -> [d EXCEPT !.measurements[7].request.kind = "low_frequency_impedance", !.measurements[7].request.unit = "Ohm"]
      [] e = "short_record" -> [d EXCEPT !.measurements[9].request.length = 8]
      [] e = "plain_tran" -> [d EXCEPT !.analyses[4] = [id |-> "tran", kind |-> "tran", step |-> 1, stop |-> 15]]
      [] e = "parents"   -> [d EXCEPT !.derivations[1].parents = <<"high", "gm">>]
      [] e = "cross_analysis" -> [d EXCEPT !.derivations[1].analysis = "tran"]
      [] e = "same_id"   -> [d EXCEPT !.derivations[1].id = "low"]
      [] e = "corner"    -> [d EXCEPT !.pdk.corner = "ss"]
      [] e = "cold"      -> [d EXCEPT !.pdk.temperature = -300]
      [] e = "two_sources" -> [d EXCEPT !.elements = Append(@, Source("out", "vdc", "out", [dc |-> 0])),
                                 !.observations[9].of = "out"]

SpecHolds(d) == Subject!Accepted(d, "pdk") => Subject!DeckHolds(d) /\ Subject!DerivedHolds(d)
                                         /\ \A i \in DOMAIN d.analyses : Subject!RunHolds(d, d.analyses[i])
-----------------------------------------------------------------------------
(* A template of it: what its author leaves open, and for what it is fit.  *)
Form(form, name, site) == [form |-> form, name |-> name, site |-> site]
Value(i, name)    == [at |-> "parameter", element |-> i, name |-> name]
Sweep(i, name)    == [at |-> "analysis", analysis |-> i, name |-> name]
Quantity(i, name) == [at |-> "quantity", measurement |-> i, name |-> name]
Edge(i, name)     == [at |-> "window", measurement |-> i, name |-> name]
Sample(name)      == [at |-> "pair", element |-> 3, point |-> 2, name |-> name]
Heat  == [at |-> "temperature"]
Other == [at |-> "elsewhere"]
Free(unit, low, high, default) == [unit |-> unit, minimum |-> low, maximum |-> high, default |-> default]
Follow(ref, factor, offset) == [ref |-> ref, factor |-> factor, offset |-> offset, unit |-> "V", inclusive |-> TRUE]
BaseTemplate ==
    [constants  |-> [supply |-> Q(8, "V"), unity |-> Q(1, "V")],
     parameters |-> [load |-> Free("Ohm", 1, 3, 1), stop |-> [unit |-> "s", default |-> 15], heat |-> Free("degC", 0, 99, 27),
                     trip |-> Free("V", 0, 6, 2)],
     overrides  |-> <<[name |-> "trip", value |-> 2]>>,
     experiment |-> [BaseSpec EXCEPT !.measurements[2].request = [window |-> [start |-> 1, stop |-> 7, unit |-> "V"]] @@ @],
     forms |-> <<Form("$ref", "supply", Value(2, "dc")), Form("$ref", "load", Value(4, "r")), Form("$number", "stop", Sweep(4, "stop")),
                 Form("$ref", "heat", Heat), Form("$number", "trip", Quantity(2, "threshold")), Form("$number", "unity", Edge(2, "start")),
                 Form("$ref", "supply", Sweep(3, "stop"))>>,
     specifications |->
       <<[id |-> "low_trip", measurement |-> "low",
          limits |-> [lower |-> Follow("trip", 1, -1), upper |-> [value |-> 8, unit |-> "V", inclusive |-> FALSE]],
          conditions |-> <<[name |-> "heat", unit |-> "degC", form |-> "$number", of |-> "heat"],
                           [name |-> "corner", unit |-> "1", type |-> "text", value |-> 1]>>]>>]
Kept     == {"sweep_current", "sweep_resistor", "axis_unit", "cold", "other_analysis", "pwl", "bounds", "debug_case", "oversample"}
TemplateEdits == Kept \cup
    {"more_load", "much_load", "load_twice", "set_other", "set_malformed", "no_default", "low_default", "reversed", "no_range",
     "same_name", "malformed", "unused", "spare", "trip_volts", "number_load", "ref_trip", "ref_stop", "rounded", "rounded_load", "rounded_offset",
     "unknown", "elsewhere", "elsewhere_r", "degrees", "pair", "pair_value", "moved_source", "zero_factor", "limit_only", "factor", "limit_unit",
     "limit_unknown", "limit_malformed", "empty", "touching", "no_lower", "twice", "no_measurement", "fixed_heat", "hot_condition",
     "condition_ref", "same_condition", "current_sweep", "ampere_stop"}
Declare(t, n, p) == [t EXCEPT !.parameters = (n :> p) @@ @]
EditTemplate(e, t) ==
    CASE e \in Kept -> [t EXCEPT !.experiment = EditSpec(e, @)]
      [] e = "more_load"  -> [t EXCEPT !.overrides = Append(@, [name |-> "load", value |-> 2])]
      [] e = "much_load"  -> [t EXCEPT !.overrides = Append(@, [name |-> "load", value |-> 4])]
      [] e = "load_twice" -> [t EXCEPT !.overrides = @ \o <<[name |-> "load", value |-> 1], [name |-> "load", value |-> 2]>>]
      [] e = "set_other"  -> [t EXCEPT !.overrides = Append(@, [name |-> "supply", value |-> 7])]
      [] e = "set_malformed" -> [t EXCEPT !.overrides = Append(@, [name |-> "stop", value |-> -99])]
      [] e = "no_default" -> [t EXCEPT !.parameters = ("trip" :> [unit |-> "V"]) @@ @]
      [] e = "low_default" -> Declare(t, "load", Free("Ohm", 1, 3, 0))
      [] e = "reversed"   -> Declare(t, "load", Free("Ohm", 3, 1, 2))
      [] e = "no_range"   -> Declare(t, "load", [unit |-> "Ohm", default |-> 0])
      [] e = "same_name"  -> Declare(t, "supply", Free("V", 0, 9, 8))
      [] e = "malformed"  -> [t EXCEPT !.constants["supply"].value = -99]
      [] e = "unused"     -> [t EXCEPT !.constants = ("idle" :> Q(1, "V")) @@ @]
      [] e = "spare"      -> Declare(t, "spare", Free("V", 0, 9, 1))
      [] e = "trip_volts" -> Declare(t, "trip", Free("A", 0, 6, 2))
      [] e = "number_load" -> [t EXCEPT !.forms[2].form = "$number"]
      [] e = "ref_trip"   -> [t EXCEPT !.forms[5].form = "$ref"]
      [] e = "ref_stop"   -> [t EXCEPT !.forms[3].form = "$ref"]
      [] e = "rounded"    -> [t EXCEPT !.overrides = <<[name |-> "trip", value |-> 3]>>]
      [] e = "rounded_load" -> [t EXCEPT !.overrides = Append(@, [name |-> "load", value |-> 3])]
      [] e = "rounded_offset" -> [t EXCEPT !.specifications[1].limits.lower = Follow("trip", 1, 1)]
      [] e = "unknown"    -> [t EXCEPT !.forms[2].name = "gone"]
      [] e = "elsewhere"  -> [t EXCEPT !.forms[2].site = Other]
      [] e = "elsewhere_r" -> [t EXCEPT !.forms[2].site = Value(4, "width")]
      [] e = "degrees"    -> [t EXCEPT !.forms[1].site = Value(1, "ac_phase")]
      [] e = "pair"       -> [t EXCEPT !.experiment = EditSpec("pwl", @), !.forms[3] = Form("$ref", "stop", Sample("time"))]
      [] e = "pair_value" -> [t EXCEPT !.experiment = EditSpec("pwl", @), !.forms[1].site = Sample("value")]
      [] e = "moved_source" -> [t EXCEPT !.forms[7].site = Sweep(2, "start")]
      [] e = "zero_factor" -> [t EXCEPT !.specifications[1].limits.lower.factor = 0]
      [] e = "limit_only" -> [t EXCEPT !.forms = SelectSeq(@, LAMBDA f : f.name # "trip")]
      [] e = "factor"     -> [t EXCEPT !.specifications[1].limits.lower = Follow("supply", 2, -9)]
      [] e = "limit_unit" -> [t EXCEPT !.specifications[1].limits.lower.unit = "A"]
      [] e = "limit_unknown" -> [t EXCEPT !.specifications[1].limits.lower.ref = "gone"]
      [] e = "limit_malformed" -> [t EXCEPT !.specifications[1].limits.lower.offset = -99]
      [] e = "empty"      -> [t EXCEPT !.specifications[1].limits.upper.value = 0]
      [] e = "touching"   -> [t EXCEPT !.specifications[1].limits.upper.value = 1]
      [] e = "no_lower"  -> [t EXCEPT !.specifications[1].limits = [upper |-> @.upper]]
      [] e = "twice"      -> [t EXCEPT !.specifications = @ \o @]
      [] e = "no_measurement" -> [t EXCEPT !.specifications[1].measurement = "gone"]
      [] e = "fixed_heat" -> [t EXCEPT !.specifications[1].conditions = Tail(@)]
      [] e = "hot_condition" -> [t EXCEPT !.forms = SelectSeq(@, LAMBDA f : f.name # "heat")]
      [] e = "condition_ref" -> [t EXCEPT !.specifications[1].conditions[1].form = "$ref"]
      [] e = "current_sweep" -> [t EXCEPT !.experiment = [EditSpec("sweep_current", @) EXCEPT !.measurements[2].request =
                                                            [window |-> [start |-> 1, stop |-> 7, unit |-> "A"]] @@ @],
                                          !.constants["unity"].unit = "A"]
      [] e = "ampere_stop" -> [t EXCEPT !.constants = ("end" :> Q(8, "A")) @@ @, !.forms[7].name = "end"]
      [] e = "same_condition" -> [t EXCEPT !.specifications[1].conditions[2].name = "heat"]
CompiledHolds(t, c) ==
    c.status = "compiled" => SpecHolds(c.experiment) /\ Subject!ValuesArrive(t, c) /\ Subject!ParametersTurn(t, c, "pdk")
TemplateHolds(t) == CompiledHolds(t, Subject!Compile(t, "pdk"))
-----------------------------------------------------------------------------
V(n) == <<"v", "(", n, ")">>
I(n) == <<"i", "(", n, ")">>
Vector(name, type, values) == [name |-> name, type |-> type, values |-> values, dims |-> <<>>]
Real(q) == [p \in DOMAIN q |-> <<q[p]>>]
PlotOf(name, flags, vectors) ==
    [name |-> name, flags |-> flags, encoding |-> "binary", vectors |-> vectors]
OpPlot   == PlotOf("operating point", {"real"}, <<Vector(V("in"), "voltage", <<<<2>>>>), Vector(V("out"), "voltage", <<<<5>>>>),
                                                  Vector(I("v1"), "current", <<<<-1>>>>)>>)
DcPlot   == PlotOf("dc transfer characteristic", {"real"},
                   <<Vector(<<"v", "(", "v", "-", "sweep", ")">>, "voltage", Real(<<0, 2, 4>>)),
                     Vector(V("out"), "voltage", Real(<<5, 6, 8>>)), Vector(I("v1"), "current", Real(<<-1, -2, -3>>))>>)
AcPlot   == PlotOf("ac analysis", {"complex"},
                   <<Vector(<<"frequency">>, "frequency", <<<<1, 0>>, <<10, 0>>, <<100, 0>>>>),
                     Vector(V("out"), "voltage", <<<<9, 1>>, <<8, 2>>, <<7, 3>>>>),
                     Vector(I("v1"), "current", <<<<4, 0>>, <<5, 0>>, <<6, 0>>>>)>>)
TranPlot == PlotOf("transient analysis", {"real"},
                   <<Vector(<<"time">>, "time", Real(<<0, 1, 3>>)), Vector(V("out"), "voltage", Real(<<1, 2, 1>>)),
                     Vector(I("v1"), "current", Real(<<3, 4, 5>>))>>)
ConstantPlot == PlotOf("constants", {"real"}, <<Vector(<<"c">>, "notype", <<<<3>>>>)>>)
NoisePlot    == PlotOf("noise spectral density", {"real"}, <<Vector(<<"frequency">>, "frequency", Real(<<1, 2>>))>>)

Analysis == [op   |-> [type |-> "op"],
             dc   |-> [type |-> "dc", source |-> <<"v1">>, unit |-> "V", start |-> 0, stop |-> 5, step |-> 2],
             ac   |-> [type |-> "ac", sweep |-> "dec", points |-> 1, start |-> 1, stop |-> 100],
             tran |-> [type |-> "tran"]]
Record(role, kind) == [role |-> role, kind |-> kind, exists |-> TRUE, path |-> role, bytes |-> 1, digest |-> <<>>]
ResultOf(type, counts) ==
    [shape |-> "closed", driver |-> "org.openada.driver.ngspice", tool |-> "ngspice", backend |-> "ngspice",
     execution |-> "completed", exit |-> 0, engineering |-> "pass", completion |-> "completed",
     convergence |-> "converged", binding |-> "exact", freshness |-> "fresh", structure |-> "valid",
     roles |-> {"simulation.result", "simulation.log"}, type |-> type, requested |-> Analysis[type], counts |-> counts,
     artifacts |-> <<Record("simulation.result", "ngspice-raw"), Record("simulation.log", "log")>>]
Select(name, output, unit) == [name |-> name, output |-> output, unit |-> unit, component |-> "real"]
BaseOf(type, plot, counts) ==
    [plots |-> <<plot>>, slips |-> <<>>, result |-> ResultOf(type, counts), record |-> "own", path |-> "simulation.result",
     selectors |-> <<Select(V("out"), "o", "V"), Select(I("v1"), "supply", "A")>>, conditions |-> <<[name |-> "vdd", value |-> 1]>>,
     moments |-> {}, kind |-> "regular", honest |-> TRUE,
     tables |-> <<[named |-> TRUE, rows |-> <<<<1, 2>>, <<3, 4>>>>], [named |-> TRUE, rows |-> <<<<1, 2, 3>>>>]>>]
Found(points, dependent, values) == [points |-> points, dependent |-> dependent, values |-> values]
Bases == {BaseOf("op", OpPlot, Found(1, 3, 3)), BaseOf("dc", DcPlot, Found(3, 2, 6)),
          BaseOf("ac", AcPlot, Found(3, 2, 12)), BaseOf("tran", TranPlot, Found(3, 2, 6))}
-----------------------------------------------------------------------------
(* What a simulator writes of its plots: a shorter vector is filled up with*)
(* zeros, unless the plot is not padded.                                   *)
Field(key, value) == [is |-> "field", key |-> key, value |-> value]
PointsOf(plot)    == Max({Len(v.values) : v \in ToSet(plot.vectors)})
Filled(v, p, width) == IF p \in DOMAIN v.values THEN v.values[p] ELSE [k \in 1 .. width |-> 0]
Row(plot, p) ==
    LET width == IF "complex" \in plot.flags THEN 2 ELSE 1
        there == SelectSeq(plot.vectors, LAMBDA v : "unpadded" \notin plot.flags \/ p \in DOMAIN v.values)
    IN [k \in DOMAIN there |-> Filled(there[k], p, width)]
Lines(plot, p) ==
    LET row == Row(plot, p)
        word(x) == [is |-> "word", value |-> x]
    IN IF plot.encoding = "binary" THEN FlattenSeq([k \in DOMAIN row |-> [part \in DOMAIN row[k] |-> word(row[k][part])]])
       ELSE [k \in DOMAIN row |-> [is |-> "value", index |-> IF k = 1 THEN <<p - 1>> ELSE <<>>, value |-> row[k]]]
Render(plot) ==
    <<Field("title", "t"), Field("date", "d"), Field("plotname", plot.name), Field("flags", plot.flags),
      Field("no. variables", Len(plot.vectors)), Field("no. points", PointsOf(plot)), Field("variables", "")>>
    \o [k \in DOMAIN plot.vectors |-> [is |-> "variable", index |-> k - 1, name |-> plot.vectors[k].name,
                                      type |-> plot.vectors[k].type, dims |-> plot.vectors[k].dims]]
    \o <<Field(IF plot.encoding = "binary" THEN "binary" ELSE "values", "")>>
    \o FlattenSeq([p \in 1 .. PointsOf(plot) |-> Lines(plot, p)])

Payload(file) == {i \in DOMAIN file : file[i].is \in {"word", "value"}}
Restate(file, key, by) == LET i == Min({i \in DOMAIN file : IsField(file[i], key)}) IN [file EXCEPT ![i].value = @ + by]
Slip(file, s) ==
    LET i == Min(Payload(file) \cup {Len(file)}) IN
    CASE s = "cut"        -> SubSeq(file, 1, Len(file) - 1)
      [] s = "cut row"    -> SubSeq(file, 1, Len(file) - 3)
      [] s = "cut header" -> SubSeq(file, 1, 8)
      [] s = "lost value" -> RemoveAt(file, i)
      [] s = "stray"      -> Append(file, file[Len(file)])
      [] s = "blank"      -> IF file[i].is = "value" THEN InsertAt(file, i, [is |-> "blank"]) ELSE file
      [] s = "last blank" -> Append(file, [is |-> "blank"])
      [] s = "index"      -> IF file[i].is = "value" THEN [file EXCEPT ![i].index = <<1>>] ELSE file
      [] s = "nan"        -> CASE file[i].is = "word"  -> [file EXCEPT ![i].value = NaN]
                              [] file[i].is = "value" -> [file EXCEPT ![i].value[1] = NaN]
                              [] OTHER -> file
      [] s = "points more"    -> Restate(file, "no. points", 1)
      [] s = "points fewer"   -> Restate(file, "no. points", -1)
      [] s = "variables more" -> Restate(file, "no. variables", 1)
      [] s = "flags twice" -> InsertAt(file, 3, Field("flags", {"real"}))
      [] s = "no flags"    -> SelectSeq(file, LAMBDA item : ~IsField(item, "flags"))
      [] s = "no title"    -> Tail(file)
      [] s = "later titles" -> [j \in {1} |-> file[1]] \o SelectSeq(Tail(file), LAMBDA item : ~IsField(item, "title") /\ ~IsField(item, "date"))
Slips == {"cut", "cut row", "cut header", "lost value", "stray", "blank", "last blank", "index", "nan", "points more",
          "points fewer", "variables more", "flags twice", "no flags", "no title", "later titles"}
FileOf(d) == FoldLeft(Slip, FlattenSeq([i \in DOMAIN d.plots |-> Render(d.plots[i])]), d.slips)

(* The file during the call: it may change between the passes, and be put  *)
(* back, but its times then tell.                                          *)
Reworded(file) == [file EXCEPT ![Max(DOMAIN file)] = [is |-> "word", value |-> 0]]
Disk(d) ==
    LET file == FileOf(d)
        shown(m) == CASE m = "parsed" /\ "edit" \in d.moments -> Reworded(file)
                      [] m = "validated" /\ "early edit" \in d.moments -> Reworded(file)
                      [] "late record" \in d.moments -> Reworded(file)
                      [] OTHER -> file
        stamp(m) == CASE m = "validated" -> IF "early edit" \in d.moments THEN 1 ELSE 0
                      [] m = "opened" -> 0
                      [] m = "named" /\ "renamed" \in d.moments -> 9
                      [] OTHER -> Cardinality(d.moments \cap {"edit", "early edit"})
    IN [kind |-> d.kind] @@ [m \in {"opened", "validated", "parsed", "digested", "named"} |-> [file |-> shown(m), stamp |-> stamp(m)]]
CallOf(d) ==
    LET file == FileOf(d)
        artifacts == [i \in DOMAIN d.result.artifacts |->
                        IF d.result.artifacts[i].role = "simulation.result"
                        THEN [d.result.artifacts[i] EXCEPT !.digest = IF d.record = "own" THEN file ELSE <<>>, !.bytes = Len(file)]
                        ELSE d.result.artifacts[i]]
    IN [result |-> [d.result EXCEPT !.artifacts = artifacts], path |-> d.path, selectors |-> d.selectors,
        conditions |-> d.conditions, disk |-> Disk(d)]
TableLines(d) ==
    FlattenSeq([t \in DOMAIN d.tables |->
        (IF d.tables[t].named THEN <<[k \in DOMAIN d.tables[t].rows[1] |-> Nothing]>> ELSE <<>>)
        \o [r \in DOMAIN d.tables[t].rows |-> [k \in DOMAIN d.tables[t].rows[r] |-> [is |-> "number", value |-> d.tables[t].rows[r][k]]]]])
-----------------------------------------------------------------------------
(* Legitimate variations, and what is none.                                *)
Variations == {"ascii", "constants first", "noise after", "linearized", "dims", "extra vector", "double", "blank", "last blank",
               "late title", "control driver", "real only", "one condition", "unnamed table"}
SeriesEdits == Variations \cup Slips \cup
    {"unpadded", "short", "bad dims", "again", "constants only", "other plot", "both flags", "complex", "double selected",
     "axis", "source axis", "uneven", "reversed", "longer", "notype", "stop", "step", "lin", "oct", "source", "ampere", "type",
     "xyce", "failed", "stale", "no log", "lost log", "two raws", "kind", "counts", "open", "other path", "pick axis", "absent",
     "imaginary", "unit", "same output", "same part", "conditions", "edit", "early edit", "renamed", "late record", "other digest",
     "link", "table row", "table nan", "table names"}
Main(d) == Max({1} \cup {i \in DOMAIN d.plots : d.plots[i] \notin {ConstantPlot, NoisePlot}})
OnMain(d, change(_)) == [d EXCEPT !.plots[Main(d)] = change(@)]
Vary(e, d) ==
    CASE e = "ascii"           -> [d EXCEPT !.plots = [i \in DOMAIN @ |-> [@[i] EXCEPT !.encoding = "ascii"]]]
      [] e = "constants first" -> [d EXCEPT !.plots = <<ConstantPlot>> \o @]
      [] e = "noise after"     -> [d EXCEPT !.plots = Append(@, NoisePlot)]
      [] e = "linearized"      -> OnMain(d, LAMBDA p : IF p.name = "transient analysis" THEN [p EXCEPT !.name = @ \o " (linearized)"] ELSE p)
      [] e = "dims"            -> OnMain(d, LAMBDA p : [p EXCEPT !.vectors[1].dims = <<1, PointsOf(p)>>])
      [] e = "extra vector"    -> [OnMain(d, LAMBDA p : [p EXCEPT !.vectors = Append(@, [@[1] EXCEPT !.name = V("x"), !.type = "voltage"])])
                                   EXCEPT !.result.counts.dependent = @ + 1,
                                          !.result.counts.values = (@ \div d.result.counts.dependent) * (d.result.counts.dependent + 1)]
      [] e = "double"          -> [OnMain(d, LAMBDA p : [p EXCEPT !.vectors = @ \o <<[@[1] EXCEPT !.name = V("y")], [@[1] EXCEPT !.name = V("y")]>>])
                                   EXCEPT !.result.counts.dependent = @ + 2,
                                          !.result.counts.values = (@ \div d.result.counts.dependent) * (d.result.counts.dependent + 2)]
      [] e = "late title"      -> [d EXCEPT !.slips = Append(@, "later titles")]
      [] e = "control driver"  -> [d EXCEPT !.result.driver = "org.openada.driver.ngspice-pdk-control"]
      [] e = "real only"       -> [d EXCEPT !.selectors = SubSeq(@, 1, 1)]
      [] e = "one condition"   -> [d EXCEPT !.conditions = <<>>]
      [] e = "unnamed table"   -> [d EXCEPT !.tables[2].named = FALSE]
      [] e \in Slips           -> [d EXCEPT !.slips = Append(@, e)]
Break(e, d) ==
    CASE e = "unpadded" -> OnMain(d, LAMBDA p : [p EXCEPT !.flags = @ \cup {"unpadded"}])
      [] e = "short"    -> OnMain(d, LAMBDA p : [p EXCEPT !.vectors[Len(p.vectors)].values = SubSeq(@, 1, 1), !.vectors[Len(p.vectors)].dims = <<1>>])
      [] e = "bad dims" -> OnMain(d, LAMBDA p : [p EXCEPT !.vectors[1].dims = <<2, PointsOf(p)>>])
      [] e = "again"    -> [d EXCEPT !.plots = Append(@, @[Main(d)])]
      [] e = "constants only" -> [d EXCEPT !.plots = <<ConstantPlot>>]
      [] e = "other plot" -> OnMain(d, LAMBDA p : [p EXCEPT !.name = IF @ = "ac analysis" THEN "operating point" ELSE "ac analysis"])
      [] e = "both flags" -> OnMain(d, LAMBDA p : [p EXCEPT !.flags = {"real", "complex"}])
      [] e = "complex"  -> OnMain(d, LAMBDA p : [p EXCEPT !.flags = {"complex"}, !.vectors = [k \in DOMAIN @ |->
                              [@[k] EXCEPT !.values = [i \in DOMAIN @ |-> <<@[i][1], 0>>]]]])
      [] e = "double selected" -> OnMain(d, LAMBDA p : [p EXCEPT !.vectors[Len(p.vectors)].name = V("out"), !.vectors[Len(p.vectors)].type = "voltage"])
      [] e = "axis"     -> OnMain(d, LAMBDA p : [p EXCEPT !.vectors[1].name = V("in")])
      [] e = "source axis" -> OnMain(d, LAMBDA p : [p EXCEPT !.vectors[1].name = <<"v1">>])
      [] e = "uneven"   -> OnMain(d, LAMBDA p : [p EXCEPT !.vectors[1].values[1][1] = @ - 1])
      [] e = "reversed" -> OnMain(d, LAMBDA p : [p EXCEPT !.vectors = [k \in DOMAIN @ |-> [@[k] EXCEPT !.values = Reverse(@)]]])
      [] e = "longer"   -> OnMain(d, LAMBDA p : [p EXCEPT !.vectors = [k \in DOMAIN @ |-> [@[k] EXCEPT !.values =
                              Append(@, [part \in DOMAIN @[1] |-> 2 * @[Len(@)][part] + 1])]]])
      [] e = "notype"   -> OnMain(d, LAMBDA p : [p EXCEPT !.vectors[1].type = "notype"])
      [] e = "stop"     -> IF d.result.type \in {"dc", "ac"} THEN [d EXCEPT !.result.requested.stop = @ + 3] ELSE d
      [] e = "step"     -> IF d.result.type = "dc" THEN [d EXCEPT !.result.requested.step = 1] ELSE d
      [] e = "lin"      -> IF d.result.type = "ac" THEN [d EXCEPT !.result.requested.sweep = "lin", !.result.requested.points = 3] ELSE d
      [] e = "oct"      -> IF d.result.type = "ac" THEN [d EXCEPT !.result.requested.sweep = "oct"] ELSE d
      [] e = "source"   -> IF d.result.type = "dc" THEN [d EXCEPT !.result.requested.source = <<"v2">>] ELSE d
      [] e = "ampere"   -> IF d.result.type = "dc" THEN [d EXCEPT !.result.requested.unit = "A"] ELSE d
      [] e = "type"     -> [d EXCEPT !.result.requested = Analysis["tran"]]
      [] e = "xyce"     -> [d EXCEPT !.result.driver = "org.openada.driver.xyce", !.result.tool = "xyce", !.result.backend = "xyce",
                                     !.result.artifacts[1].kind = "xyce-raw"]
      [] e = "failed"   -> [d EXCEPT !.result.exit = 1]
      [] e = "stale"    -> [d EXCEPT !.result.freshness = "stale"]
      [] e = "no log"   -> [d EXCEPT !.result.artifacts[2].exists = FALSE, !.result.artifacts[2].bytes = -1]
      [] e = "lost log" -> [d EXCEPT !.result.artifacts[2].exists = FALSE, !.result.artifacts[2].bytes = -1,
                                     !.result.roles = {"simulation.result"}]
      [] e = "two raws" -> [d EXCEPT !.result.artifacts = Append(@, @[1])]
      [] e = "kind"     -> [d EXCEPT !.result.artifacts[1].kind = "xyce-raw"]
      [] e = "counts"   -> [d EXCEPT !.result.counts.values = @ + 1]
      [] e = "open"     -> [d EXCEPT !.result.shape = "open"]
      [] e = "other path" -> [d EXCEPT !.path = "copy"]
      [] e = "pick axis" -> [d EXCEPT !.selectors[1].name = d.plots[Main(d)].vectors[1].name]
      [] e = "absent"   -> [d EXCEPT !.selectors[1].name = V("gone")]
      [] e = "imaginary" -> [d EXCEPT !.selectors[1].component = "imaginary"]
      [] e = "unit"     -> [d EXCEPT !.selectors[1].unit = "A"]
      [] e = "same output" -> [d EXCEPT !.selectors = Append(@, Select(V("in"), "o", "V"))]
      [] e = "same part" -> [d EXCEPT !.selectors = Append(@, [@[1] EXCEPT !.output = "again"])]
      [] e = "conditions" -> [d EXCEPT !.conditions = @ \o @ \o <<[name |-> "vdd", value |-> 2]>>]
      [] e \in {"edit", "early edit", "renamed", "late record"} -> [d EXCEPT !.moments = @ \cup {e}]
      [] e = "other digest" -> [d EXCEPT !.record = "other"]
      [] e = "link"     -> [d EXCEPT !.kind = "link"]
      [] e = "table row" -> [d EXCEPT !.tables[1].rows[2] = <<3>>]
      [] e = "table nan" -> [d EXCEPT !.tables[1].rows[2][1] = NaN]
      [] e = "table names" -> [d EXCEPT !.tables = <<[@[1] EXCEPT !.rows = <<<<1, 2, 3>>>>]>> \o @]
EditRaw(e, d) == IF e \in Variations \cup Slips THEN [Vary(e, d) EXCEPT !.honest = @ /\ e \in Variations]
                 ELSE [Break(e, d) EXCEPT !.honest = FALSE]
-----------------------------------------------------------------------------
(* A series is the vectors that the simulator computed, whole and part for *)
(* part, of the one plot of the analysis, over the axis that was asked for,*)
(* from the bytes that the result records; and what an honest run wrote is *)
(* extracted. Of a vector that the simulator filled up, the filling counts *)
(* as values; and a file that lost a value and gained another is whole.    *)
Replaced(d) == "stray" \in ToSet(d.slips) /\ {"cut", "cut row", "lost value"} \cap ToSet(d.slips) # {}
GridHolds(a, x) ==
    CASE a.type = "dc" -> /\ \A i \in DOMAIN x : x[i] = a.start + (i - 1) * a.step
                          /\ Last(x) <= a.stop /\ Last(x) + a.step > a.stop
      [] a.type = "ac" -> /\ x[1] = a.start /\ Last(x) <= a.stop
                          /\ a.sweep = "lin" => \A i \in DOMAIN x : (x[i] - a.start) * (a.points - 1) = (i - 1) * (a.stop - a.start)
                          /\ a.sweep # "lin" => \A i \in 2 .. Len(x) - 1 : x[i] * x[i] = x[i - 1] * x[i + 1]
                          /\ a.sweep = "oct" => \A i \in 2 .. Len(x) : x[i] ^ a.points = 2 * x[i - 1] ^ a.points
      [] OTHER         -> \A i \in 2 .. Len(x) : x[i - 1] < x[i]
SelectorsHold(d, plot, e, type) ==
    \A i \in DOMAIN d.selectors : \E k \in DOMAIN plot.vectors :
        /\ {n \in DOMAIN plot.vectors : plot.vectors[n].name = d.selectors[i].name /\ (n > 1 \/ type = "op")} = {k}
        /\ e.signals[i].unit = (IF plot.vectors[k].type = "voltage" THEN "V" ELSE "A")
        /\ e.signals[i].values = [p \in 1 .. PointsOf(plot) |->
              Filled(plot.vectors[k], p, 2)[IF d.selectors[i].component = "real" THEN 1 ELSE 2]]
PlotHolds(d, plot, a, e) ==
    /\ a.type # "op" => e.axis.values = [p \in 1 .. PointsOf(plot) |-> plot.vectors[1].values[p][1]]
    /\ GridHolds(a, e.axis.values)
    /\ SelectorsHold(d, plot, e, a.type)
ExtractedHolds(d, a, e) ==
    /\ d.honest => e.status = "extracted"
    /\ e.status = "extracted" /\ ~Replaced(d) =>
         /\ e.from = FileOf(d) /\ d.record = "own" /\ d.result.type = a.type
         /\ \E i \in DOMAIN d.plots :
               /\ {j \in DOMAIN d.plots : d.plots[j].name \in PlotNames[a.type]} = {i}
               /\ PlotHolds(d, d.plots[i], a, e)
SeriesHolds(d) == ExtractedHolds(d, d.result.requested, Extract(CallOf(d)))
TablesHold(d) ==
    TablesFit(TableLines(d)) =>
      /\ \A t \in DOMAIN d.tables : NaN \notin UNION {ToSet(d.tables[t].rows[r]) : r \in DOMAIN d.tables[t].rows}
      /\ (\A t \in DOMAIN d.tables : d.tables[t].named) => Cardinality(Sections(TableLines(d))) = Len(d.tables)
=============================================================================
