------------------------------ MODULE MCVerdicts ------------------------------
(* Verdicts and the evidence for them: a measurement and the specification *)
(* that it meets, the files of a layout comparison, the marker database of *)
(* a rule check; and what may differ.                                      *)
EXTENDS SpecificationEvaluate, Reports, TLC
Cond(name, type, value, unit) == [name |-> name, type |-> type, value |-> value, unit |-> unit]
AtCorner    == <<Cond("temperature", "number", 3, "K"), Cond("corner", "text", 1, "1")>>
BaseVerdict ==
    [measurement |-> [id |-> "gain", status |-> "measured", request |-> "r", value |-> 2, unit |-> "dB",
                      source |-> [role |-> "measurement.source", request |-> "u", artifact |-> "series",
                                  series |-> "series", conditions |-> AtCorner, seal |-> AtCorner,
                                  lineage |-> "unverified"]],
     specification |-> [id |-> "spec", measurement |-> "gain",
                        limits |-> [lower |-> [value |-> 1, unit |-> "dB", inclusive |-> TRUE],
                                    upper |-> [value |-> 4, unit |-> "dB", inclusive |-> FALSE]],
                        conditions |-> <<AtCorner[2], AtCorner[1]>>]]

(* The measurement is another one, or at other conditions, with their seal.*)
Measured(d, cs) == [d EXCEPT !.measurement.source.conditions = cs, !.measurement.source.seal = cs]
Edits == {<<"value", v>> : v \in -Widest .. Widest}
         \cup {<<"limit", k, v>> : k \in {"lower", "upper"}, v \in -Widest .. Widest}
         \cup {<<"open", k>> : k \in {"lower", "upper"}}
         \cup {<<"close", k>> : k \in {"lower", "upper"}}
         \cup {<<"drop", k>> : k \in {"lower", "upper"}}
         \cup {<<"at", i, c>> : i \in 1 .. 2, c \in {Cond("temperature", "number", 4, "K"), Cond("corner", "number", 1, "1"),
                                                       Cond("corner", "text", 1, "V")}}
         \cup {<<what>> : what \in {"unseal", "unit", "limit unit", "not found", "no request", "other id", "huge",
                                    "series", "lineage", "fewer", "asks more", "asks twice", "unasked"}}
EditVerdict(e, d) ==
    CASE e[1] = "value" -> [d EXCEPT !.measurement.value = e[2]]
      [] e[1] = "limit" -> IF e[2] \in DOMAIN d.specification.limits
                           THEN [d EXCEPT !.specification.limits[e[2]].value = e[3]] ELSE d
      [] e[1] \in {"open", "close"} -> IF e[2] \in DOMAIN d.specification.limits
                                       THEN [d EXCEPT !.specification.limits[e[2]].inclusive = (e[1] = "close")] ELSE d
      [] e[1] = "drop"  -> [d EXCEPT !.specification.limits = [k \in DOMAIN @ \ {e[2]} |-> @[k]]]
      [] e[1] = "at"    -> IF e[2] \in DOMAIN d.measurement.source.conditions
                           THEN Measured(d, [d.measurement.source.conditions EXCEPT ![e[2]] = e[3]]) ELSE d
      [] e[1] = "unseal" -> [d EXCEPT !.measurement.source.conditions = <<AtCorner[1]>>]
      [] e[1] = "unit"   -> [d EXCEPT !.measurement.unit = "V"]
      [] e[1] = "limit unit" -> [d EXCEPT !.specification.limits = [k \in DOMAIN @ |-> [@[k] EXCEPT !.unit = "V"]]]
      [] e[1] = "not found"  -> [d EXCEPT !.measurement.status = "not_found", !.measurement.value = NoValue]
      [] e[1] = "no request" -> [d EXCEPT !.measurement.request = Absent]
      [] e[1] = "other id"   -> [d EXCEPT !.specification.measurement = "slew"]
      [] e[1] = "huge"       -> [d EXCEPT !.measurement.value = Widest + 1]
      [] e[1] = "series"     -> [d EXCEPT !.measurement.source.series = "another"]
      [] e[1] = "lineage"    -> [d EXCEPT !.measurement.source.lineage = "verified"]
      [] e[1] = "fewer"      -> Measured(d, <<d.measurement.source.conditions[1]>>)
      [] e[1] = "asks more"  -> [d EXCEPT !.specification.conditions = @ \o <<Cond("load", "number", 1, "F")>>]
      [] e[1] = "asks twice" -> [d EXCEPT !.specification.conditions = @ \o <<[AtCorner[1] EXCEPT !.value = 4]>>]
      [] e[1] = "unasked"    -> [d EXCEPT !.specification.conditions = <<>>]

VerdictHolds(d) == VerdictIsSound(d.measurement, d.specification)
-----------------------------------------------------------------------------
(* A comparison of the cell "top" and of the subcell in it, as Netgen      *)
(* reports it, of circuits that match and of some that do not.             *)
Say(what)          == [is |-> what]
Both(what, l, r)   == [is |-> what, left |-> l, right |-> r]
Block(cell, n, m)  == <<Say("summary"), Both("pair", cell, cell), Both("devices", n, m), Both("nets", 3, 3)>>
EqualPins(cell)    == <<Say("pins"), Both("pair", cell, cell), Say("equal_pins"), Both("classes", cell, cell)>>
Lines(n) == Block("sub", 2, 2) \o EqualPins("sub") \o Block("top", 3, n)
            \o (IF n = 3 THEN <<Say("unique")>> \o EqualPins("top") \o <<Say("final_match"), Say("stop")>>
                ELSE <<Say("failure"), Say("pins"), Say("final_failure"), Say("remark")>>)
Compared(cell, n, m) == [name |-> <<cell, cell>>, devices |-> <<<<<<"mos", n - 1>>, <<"res", 1>>>>, <<<<"res", 1>>, <<"mos", m - 1>>>>>>,
                         nets |-> <<3, 3>>, badnets |-> 0, badelements |-> IF n = m THEN 0 ELSE 1,
                         pins |-> <<<<"a", "b">>, <<"a", "b">>>>]
Named(name)   == [stem |-> name, suffix |-> "spice", log |-> FALSE]
LvsOf(n) ==
    [truth |-> IF n = 3 THEN "pass" ELSE "fail",
     request |-> [cell |-> "top", report |-> [stem |-> "top", suffix |-> "comp", log |-> FALSE],
                  inputs |-> <<[path |-> Named("layout"), plain |-> TRUE], [path |-> Named("schematic"), plain |-> TRUE],
                               [path |-> [Named("setup") EXCEPT !.suffix = "tcl"], plain |-> TRUE]>>],
     report |-> [whole |-> TRUE, lines |-> Lines(n)],
     json |-> <<[pins |-> <<<<"p">>, <<"p">>>>], Compared("sub", 2, 2), Compared("top", 3, n)>>,
     transcript |-> [whole |-> TRUE, out |-> {"setup_read", "done"}, err |-> {}], exit |-> 0]
(* Properties are compared last, after the netlists were found to match.   *)
Wrong == LET d == LvsOf(3) IN
         [d EXCEPT !.truth = "fail", !.report.lines = @ \o <<Say("cells_with_errors"), Say("remark")>>, !.json[3] = [properties |-> 2] @@ @]
LvsBases == {LvsOf(3), LvsOf(4), Wrong}

(* A line is lost, or one is said at the end, before it or amid the report;*)
(* anything else differs.                                                  *)
Remarks == {"final_match", "final_failure", "property_errors", "cells_with_errors", "unique", "failure", "mismatch",
            "remark", "blank", "summary"}
Details == <<Both("devices", 4, 4), Both("pair", "top", "top"), Both("classes", "sub", "sub")>>
LvsEdits == {<<"drop", i>> : i \in 9 .. 18} \cup {<<"say", i, w>> : i \in {0, 1, 6}, w \in Remarks}
            \cup {<<"detail", i, k>> : i \in {1, 8}, k \in DOMAIN Details}
            \cup {<<what>> : what \in {"torn", "two tops", "no name", "bad nets", "properties", "no pins", "pin order", "classes",
                                       "sub differs", "placeholder", "unknown field", "more devices", "truncated", "no setup",
                                       "setup_error", "permuted", "complaint", "exit", "same file", "spaces", "json name",
                                       "other cell", "report on input"}}
Put(s, back, line) == LET at == IF Len(s) >= back THEN Len(s) - back ELSE 0
                      IN SubSeq(s, 1, at) \o <<line>> \o SubSeq(s, at + 1, Len(s))
EditLvs(e, d) ==
    LET n == Len(d.json) IN
    CASE e[1] = "drop" -> [d EXCEPT !.report.lines = IF e[2] \in DOMAIN @ THEN RemoveAt(@, e[2]) ELSE @]
      [] e[1] = "say"    -> [d EXCEPT !.report.lines = Put(@, e[2], Say(e[3]))]
      [] e[1] = "detail" -> [d EXCEPT !.report.lines = Put(@, e[2], Details[e[3]])]
      [] e[1] = "torn"        -> [d EXCEPT !.report.whole = FALSE]
      [] e[1] = "two tops"    -> [d EXCEPT !.json = @ \o <<Compared("top", 3, 3)>>]
      [] e[1] = "no name"     -> [d EXCEPT !.json[2].name[1] = ""]
      [] e[1] = "bad nets"    -> [d EXCEPT !.json[2].badnets = 1]
      [] e[1] = "properties"  -> [d EXCEPT !.json[n] = [properties |-> 1] @@ @]
      [] e[1] = "no pins"     -> [d EXCEPT !.json[3] = [f \in DOMAIN @ \ {"pins"} |-> @[f]]]
      [] e[1] = "pin order"   -> [d EXCEPT !.json[2].pins[1] = <<"b", "a">>]
      [] e[1] = "classes"     -> [d EXCEPT !.json[3].devices[1] = <<<<"res", 2>>, <<"mos", 1>>>>]
      [] e[1] = "sub differs" -> [d EXCEPT !.json[2].nets[1] = 4]
      [] e[1] = "placeholder" -> [d EXCEPT !.json[1].pins[1] = <<"q">>]
      [] e[1] = "unknown field" -> [d EXCEPT !.json[2] = [notes |-> 1] @@ @]
      [] e[1] = "more devices" -> [d EXCEPT !.json[3].devices = <<<<<<"mos", 3>>>>, <<<<"mos", 3>>>>>>]
      [] e[1] = "truncated"   -> [d EXCEPT !.transcript.whole = FALSE]
      [] e[1] = "no setup"    -> [d EXCEPT !.transcript.out = @ \ {"setup_read"}]
      [] e[1] = "setup_error" -> [d EXCEPT !.transcript.out = @ \cup {"setup_error"}]
      [] e[1] = "permuted"    -> [d EXCEPT !.transcript.err = @ \cup {"permute"}]
      [] e[1] = "complaint"   -> [d EXCEPT !.transcript.err = @ \cup {"other"}]
      [] e[1] = "exit"        -> [d EXCEPT !.exit = 1]
      [] e[1] = "same file"   -> [d EXCEPT !.request.inputs[2] = d.request.inputs[1]]
      [] e[1] = "spaces"      -> [d EXCEPT !.request.inputs[1].plain = FALSE]
      [] e[1] = "json name"   -> [d EXCEPT !.request.report.suffix = "json"]
      [] e[1] = "other cell"  -> [d EXCEPT !.request.cell = "sub"]
      [] e[1] = "report on input" -> [d EXCEPT !.request.inputs[3].path.stem = "top", !.request.inputs[3].path.suffix = "json"]

(* An honest one is understood.                                            *)
LvsHolds(d, untouched) == LvsIsStated(d) /\ (untouched => Lvs(d) = d.truth)
-----------------------------------------------------------------------------
(* A rule check of the cell "top" with two nested categories, a variant of *)
(* a cell, the nameless global cell; clean, or with markers.               *)
Shape(kind, n) == [kind |-> kind, corners |-> n]
Marker(path, cell, tags, n, shapes) ==
    [category |-> <<path>>, cell |-> <<cell>>, tags |-> <<tags>>, count |-> <<n>>, shapes |-> shapes]
Width   == <<"m1", "width">>
Spaced  == Marker(<<"m2">>, "sub:1", <<>>, 2, <<Shape("box", 2), Shape("polygon", 4), Shape("edges", 2)>>)
Narrow  == Marker(Width, "top", <<"waived", "seen">>, 1, <<Shape("polygon", 3), Shape("text", 0)>>)
DrcOf(items) ==
    [truth |-> IF items = <<>> THEN "pass" ELSE "fail",
     request |-> [gds |-> "chip", deck |-> "rules", provenance |-> <<"layers">>, script |-> FALSE, report |-> "out",
                  variable |-> "report", variables |-> <<"mode">>, top |-> "top", waiver |-> "", found |-> "nothing"],
     report |-> [closed |-> TRUE,
                 root |-> <<[is |-> "generator", says |-> "rules"], [is |-> "top-cell", says |-> "top"],
                            [is |-> "categories", holds |-> <<[path |-> Width, text |-> "w"], [path |-> <<"m1">>, text |-> ""],
                                                              [path |-> <<"m2">>, text |-> "s"]>>],
                            [is |-> "cells", holds |-> <<[name |-> "top", variant |-> ""], [name |-> "sub", variant |-> "1"],
                                                         [name |-> "", variant |-> ""]>>],
                            [is |-> "items", holds |-> items]>>],
     waivers |-> "nothing", exit |-> 0]
DrcBases == {DrcOf(<<>>), DrcOf(<<Narrow>>), DrcOf(<<Spaced, Narrow>>)}

DrcEdits == {<<"drop", i>> : i \in 1 .. 5} \cup {<<"again", i>> : i \in 1 .. 5} \cup {<<"later", i>> : i \in 1 .. 4}
            \cup {<<"count", n>> : n \in {0, 5, 7}}
            \cup {<<what>> : what \in {"cut", "marker", "big marker", "global", "stray category", "stray cell", "two tags", "tag twice",
                                       "no tags", "other text", "same text", "unnamed", "no categories", "cell twice", "variant only",
                                       "other deck", "other top", "any top", "undeclared top", "exit", "waivers", "waivers declared",
                                       "waivers lost", "waivers wrong", "script", "shadow", "twice", "named output", "own variable",
                                       "report on layers", "waiver on layers", "layers twice"}}
Within(d, kind, held) == [d EXCEPT !.report.root = [i \in DOMAIN @ |-> IF @[i].is = kind THEN [@[i] EXCEPT !.holds = held] ELSE @[i]]]
Add(d, kind, one)     == [d EXCEPT !.report.root = [i \in DOMAIN @ |-> IF @[i].is = kind THEN [@[i] EXCEPT !.holds = @ \o <<one>>] ELSE @[i]]]
Naming(d, kind, what) == [d EXCEPT !.report.root = [i \in DOMAIN @ |-> IF @[i].is = kind THEN [@[i] EXCEPT !.says = what] ELSE @[i]]]
EditDrc(e, d) ==
    LET root == d.report.root IN
    CASE e[1] = "drop"  -> IF e[2] \in DOMAIN root THEN [d EXCEPT !.report.root = RemoveAt(root, e[2])] ELSE d
      [] e[1] = "again" -> IF e[2] \in DOMAIN root THEN [d EXCEPT !.report.root = root \o <<root[e[2]]>>] ELSE d
      [] e[1] = "later" -> IF e[2] + 1 \in DOMAIN root
                           THEN [d EXCEPT !.report.root[e[2]] = root[e[2] + 1], !.report.root[e[2] + 1] = root[e[2]]] ELSE d
      [] e[1] = "count" -> Add(d, "items", [Spaced EXCEPT !.count = <<e[2]>>])
      [] e[1] = "cut"   -> [d EXCEPT !.report.closed = FALSE]
      [] e[1] = "marker" -> Add(d, "items", Spaced)
      [] e[1] = "big marker" -> Add(d, "items", [Narrow EXCEPT !.shapes = <<Shape("polygon", 3), Shape("blank", 0), Shape("box", 2)>>])
      [] e[1] = "global" -> Add(d, "items", [Narrow EXCEPT !.cell = <<"">>])
      [] e[1] = "stray category" -> Add(d, "items", [Narrow EXCEPT !.category = <<<<"width">>>>])
      [] e[1] = "stray cell" -> Add(d, "items", [Narrow EXCEPT !.cell = <<"sub">>])
      [] e[1] = "two tags"   -> Add(d, "items", [Narrow EXCEPT !.tags = @ \o @])
      [] e[1] = "tag twice"  -> Add(d, "items", [Narrow EXCEPT !.tags = <<<<"seen", "seen">>>>])
      [] e[1] = "no tags"    -> Add(d, "items", [Narrow EXCEPT !.tags = <<>>])
      [] e[1] = "other text" -> Add(d, "categories", [path |-> <<"m2">>, text |-> "other"])
      [] e[1] = "same text"  -> Add(d, "categories", [path |-> <<"m2">>, text |-> "s"])
      [] e[1] = "unnamed"    -> Add(d, "categories", [path |-> <<"m1", "">>, text |-> "s"])
      [] e[1] = "no categories" -> Within(d, "categories", <<>>)
      [] e[1] = "cell twice" -> Add(d, "cells", [name |-> "sub:1", variant |-> ""])
      [] e[1] = "variant only" -> Add(d, "cells", [name |-> "", variant |-> "2"])
      [] e[1] = "other deck" -> Naming(d, "generator", "older rules")
      [] e[1] = "other top"  -> Naming(d, "top-cell", "sub")
      [] e[1] = "any top"    -> [d EXCEPT !.request.top = ""]
      [] e[1] = "undeclared top" -> Naming(d, "top-cell", "chip")
      [] e[1] = "exit"       -> [d EXCEPT !.exit = 1]
      [] e[1] = "waivers"    -> [d EXCEPT !.waivers = "other waivers"]
      [] e[1] = "waivers declared" -> [d EXCEPT !.request.waiver = "out.w", !.request.found = "waivers", !.waivers = "waivers"]
      [] e[1] = "waivers lost"  -> [d EXCEPT !.request.found = "nothing"]
      [] e[1] = "waivers wrong" -> [d EXCEPT !.request.waiver = "chip.w"]
      [] e[1] = "script"        -> [d EXCEPT !.request.script = TRUE]
      [] e[1] = "shadow"        -> [d EXCEPT !.request.variables = @ \o <<"output">>]
      [] e[1] = "twice"         -> [d EXCEPT !.request.variables = @ \o <<"mode">>]
      [] e[1] = "named output"  -> [d EXCEPT !.request.variable = "output"]
      [] e[1] = "own variable"  -> [d EXCEPT !.request.variable = "topcell"]
      [] e[1] = "report on layers" -> [d EXCEPT !.request.provenance = <<"out">>]
      [] e[1] = "waiver on layers" -> [d EXCEPT !.request.provenance = <<"out.w">>]
      [] e[1] = "layers twice"     -> [d EXCEPT !.request.provenance = @ \o @]

(* Each marker is counted in one category, and one more is never           *)
(* overlooked.                                                             *)
DrcHolds(d, untouched) ==
    /\ DrcIsStated(d) /\ (untouched => Drc(d) = d.truth)
    /\ Drc(d) \in {"pass", "fail"} =>
         /\ Drc(Add(d, "items", Narrow)) \in {"fail", "unknown"}
         /\ LET items == Items(d.report) IN
            Markers(items) = MapThenSumSet(LAMBDA path : Total(CountsOf(items, path)), Paths(The(d.report, "categories").holds))
-----------------------------------------------------------------------------
(* A call of the shared simulation profile: a deck with one card, typed    *)
(* parameters that say the same, and what a simulator made of it; and what *)
(* may differ. Numbers are in halves, a card's with its suffix.            *)
Contract   == INSTANCE ProviderContract WITH PointLimit <- 4, MaxArtifacts <- 4
Num(n, suffix) == [is |-> "number", digits |-> n, suffix |-> suffix, plain |-> TRUE]
Word(letter, folded) == [is |-> "word", letter |-> letter, spelled |-> folded, folded |-> folded, plain |-> TRUE]
Card(kind) ==
    [kind |-> kind, args |->
       CASE kind = "op"   -> <<>>
         [] kind = "dc"   -> <<Word("v", "vin"), Num(0, <<>>), Num(4, <<>>), Num(3, <<"m">>)>>
         [] kind = "ac"   -> <<Word("d", "dec"), Num(2, <<>>), Num(1, <<>>), Num(5, <<"k">>)>>
         [] kind = "tran" -> <<Num(1, <<>>), Num(3, <<"s">>), Num(1, <<"m">>), Num(2, <<>>)>>]
Typed(f, v)  == [is |-> IF f = "points" THEN "int" ELSE "float", value |-> v]
Asking(a)   == [closed |-> TRUE, extended |-> FALSE, analysis |->
                   [f \in DOMAIN a |-> IF f \in Contract!Numeric[a.type] THEN Typed(f, a[f]) ELSE a[f]]]
Milli(v)     == Num(v, <<"m">>)
Written(a)   ==
    [kind |-> a.type, args |->
       CASE a.type = "op"   -> <<>>
         [] a.type = "dc"   -> <<a.source_name, Milli(a.start), Milli(a.stop), Milli(a.step)>>
         [] a.type = "ac"   -> <<Word("x", a.sweep), Num(a.points, <<>>), Milli(a.start_hz), Milli(a.stop_hz)>>
         [] a.type = "tran" -> <<Milli(a.step_s), Milli(a.stop_s)>>
              \o (IF DOMAIN a \cap {"start_s", "max_step_s"} = {} THEN <<>> ELSE <<Milli(Contract!StartOf(a))>>)
              \o (IF "max_step_s" \in DOMAIN a THEN <<Milli(a.max_step_s)>> ELSE <<>>)]
DeckOf(sha, card) ==
    [state |-> "whole", sha |-> sha, lines |-> <<[is |-> "card", long |-> FALSE, card |-> Card("op")],
                                                [is |-> "comment", long |-> FALSE, card |-> card],
                                                [is |-> "analysis", long |-> FALSE, card |-> card]>>]
Ran(a) ==
    [status |-> "pass", execution |-> "completed", exit |-> <<0>>, command |-> TRUE, tool |-> TRUE, log |-> "valid", stable |-> TRUE,
     artifacts |-> <<[kind |-> "raw", name |-> "tran.raw", role |-> "output", bytes |-> 1, sha |-> "raw"],
                     [kind |-> "log", name |-> "log", role |-> "output", bytes |-> 0, sha |-> "log"],
                     [kind |-> "control", name |-> "script", role |-> "output", bytes |-> 0, sha |-> "script"]>>,
     captures |-> <<[status |-> "valid", of |-> a, counts |-> <<3, 2, 6>>]>>, counts |-> <<>>, diagnostics |-> {}]
CallOf(kind) ==
    LET a == Contract!AnalysisOf(Card(kind)) IN
    [call |-> [driver |-> "ngspice", canonical_id |-> TRUE, inspects |-> "source", digest |-> "none",
               decks |-> [source |-> DeckOf("d1", Card(kind)), another |-> DeckOf("d2", Card(kind))],
               parameters |-> <<Asking(a)>>, features |-> Contract!Kinds],
     native |-> Ran(a)]
CallBases == {CallOf(kind) : kind \in Contract!Kinds}

Tokens    == {Num(0, <<>>), Num(1, <<>>), Num(3, <<>>), Num(1, <<"k">>), Num(1, <<"m", "eg">>), Num(2, <<"z">>),
              Word("i", "iin"), Word("l", "lin")}
Odd       == [op |-> {"type"}, dc |-> {"start", "stop", "step"}, ac |-> {"points", "start_hz", "stop_hz"}, tran |-> {"step_s", "stop_s", "start_s", "max_step_s"}]
CallEdits ==
    {<<"arg", i, t>> : i \in 1 .. 4, t \in Tokens} \cup {<<"more", 1, t>> : t \in {Num(0, <<>>), Num(1, <<>>), Num(2, <<"z">>)}} \cup {<<"card", kind>> : kind \in Contract!Kinds}
    \cup {<<"say", f, v>> : f \in Odd.dc \cup Odd.ac \cup Odd.tran, v \in {0, 2, 7}}
    \cup {<<"write", f>> : f \in Odd.dc \cup Odd.ac \cup Odd.tran}
    \cup {<<"line", is>> : is \in {"analysis", "include", "unsupported", "comment", "long"}}
    \cup {<<"deck", state>> : state \in {"large", "unstable", "absent"}}
    \cup {<<"torn", status>> : status \in {"unstable", "modified", "invalid", "missing"}}
    \cup {<<what>> : what \in {"unasked", "open", "extension", "other unit", "log scale", "infinite", "another", "digest", "driver", "no tran",
                               "failed", "unknown", "stale", "of another", "of two", "no points", "own counts", "nothing", "no launcher",
                               "error", "warning"}}
OfDeck(d, f(_)) == [d EXCEPT !.call.decks[d.call.inspects].lines[3].card = f(@)]
OfAsked(d, f, v) ==
    IF d.call.parameters = <<>> THEN d
    ELSE [d EXCEPT !.call.parameters[1].analysis = IF f \in DOMAIN @ \/ f \in Contract!Optional(@.type) THEN (f :> v) @@ @ ELSE @]
EditCall(e, d) ==
    CASE e[1] = "arg"   -> OfDeck(d, LAMBDA c : IF e[2] \in DOMAIN c.args THEN [c EXCEPT !.args[e[2]] = e[3]] ELSE c)
      [] e[1] = "more"  -> OfDeck(d, LAMBDA c : [c EXCEPT !.args = Append(@, e[3])])
      [] e[1] = "card"  -> OfDeck(d, LAMBDA c : Card(e[2]))
      [] e[1] = "say"   -> OfAsked(d, e[2], [is |-> "int", value |-> e[3]])
      [] e[1] = "write" -> OfAsked(d, e[2], [is |-> "other", value |-> 1])
      [] e[1] = "line"  -> [d EXCEPT !.call.decks.source.lines =
                                Append(@, [is |-> e[2], long |-> e[2] = "long", card |-> Card("op")])]
      [] e[1] = "deck"  -> [d EXCEPT !.call.decks.source.state = e[2]]
      [] e[1] = "torn"  -> [d EXCEPT !.native.captures = @ \o <<[status |-> e[2], of |-> [type |-> "none"], counts |-> <<>>]>>]
      [] e[1] = "unasked"    -> [d EXCEPT !.call.parameters = <<>>]
      [] e[1] = "open"       -> [d EXCEPT !.call.parameters = [i \in DOMAIN @ |-> [@[i] EXCEPT !.closed = FALSE]]]
      [] e[1] = "extension"  -> [d EXCEPT !.call.parameters = [i \in DOMAIN @ |-> [@[i] EXCEPT !.extended = TRUE]]]
      [] e[1] = "other unit" -> OfAsked(d, "source_unit", "A")
      [] e[1] = "log scale"  -> OfAsked(d, "sweep", "log")
      [] e[1] = "infinite"   -> OfAsked(d, "step_s", [is |-> "other", value |-> 2])
      [] e[1] = "another"    -> [d EXCEPT !.call.inspects = "another"]
      [] e[1] = "digest"     -> [d EXCEPT !.call.digest = "d1"]
      [] e[1] = "driver"     -> [d EXCEPT !.call.driver = "unknown"]
      [] e[1] = "no tran"    -> [d EXCEPT !.call.features = @ \ {"tran"}]
      [] e[1] = "failed"     -> [d EXCEPT !.native.status = "fail", !.native.exit = <<1>>]
      [] e[1] = "unknown"    -> [d EXCEPT !.native.status = "unknown"]
      [] e[1] = "stale"      -> [d EXCEPT !.native.status = "unknown", !.native.stable = FALSE]
      [] e[1] = "of another" -> [d EXCEPT !.native.captures = [i \in DOMAIN @ |-> [@[i] EXCEPT !.of = [type |-> "noise"]]]]
      [] e[1] = "of two"     -> [d EXCEPT !.native.captures = <<[status |-> "valid", of |-> [type |-> "noise"], counts |-> <<9, 9, 9>>]>> \o @]
      [] e[1] = "no points"  -> [d EXCEPT !.native.counts = <<0, 2, 6>>]
      [] e[1] = "own counts" -> [d EXCEPT !.native.counts = <<4, 1, 4>>]
      [] e[1] = "nothing"    -> [d EXCEPT !.native.artifacts = <<>>, !.native.captures = <<>>]
      [] e[1] = "no launcher" -> [d EXCEPT !.native.artifacts = SelectSeq(@, LAMBDA a : a.kind # "control")]
      [] e[1] = "error"      -> [d EXCEPT !.native.diagnostics = @ \cup {[severity |-> "error", code |-> "input.changed"]}]
      [] e[1] = "warning"    -> [d EXCEPT !.native.diagnostics = @ \cup {[severity |-> "warning", code |-> "solver"]}]

(* The points of an analysis, one by one; an analogous card and parameters *)
(* are read alike; a call that is launched is bound to its deck and to     *)
(* what it asks, and its answer is founded (CircuitProfile).               *)
Full(a)     == IF a.type = "tran" THEN a @@ [start_s |-> 0] ELSE a
PointsOf(a) ==
    CASE a.type = "op"   -> {a.type}
      [] a.type = "dc"   -> {v \in a.start .. a.stop : (v - a.start) % a.step = 0}
      [] a.type = "ac"   -> IF a.sweep = "lin" THEN 1 .. a.points ELSE {i \in 0 .. 4 : Contract!Reaches(a, i)}
      [] a.type = "tran" -> {v \in Contract!StartOf(a) .. a.stop_s - 1 : (v - Contract!StartOf(a)) % Contract!StepOf(a) = 0} \cup {a.stop_s}
ReadAlike(card, q) ==
    /\ Contract!Parses(card) =>
         LET a == Contract!AnalysisOf(card) IN
         /\ Contract!ParametersFit(Asking(a)) /\ Full(Contract!Normalized(Asking(a).analysis)) = Full(a)
         /\ Cardinality(PointsOf(a)) <= 4
    /\ Contract!ParametersFit(q) =>
         LET a == Contract!Normalized(q.analysis) IN
         Contract!Parses(Written(a)) /\ Full(a) = Full(Contract!AnalysisOf(Written(a)))
Found(d, a) == Contract!Decorate(d.native, [request |-> "r"], a)
CallHolds(d, untouched) ==
    LET deck  == Contract!Inspected(d.call)
        issue == Contract!Issue(d.call, deck)
        a     == Contract!Asked(d.call, deck)
        found == Found(d, a)
    IN /\ \A q \in ToSet(d.call.parameters) : ReadAlike(deck.lines[3].card, q)
       /\ untouched => issue = "none" /\ found.status = "pass" /\ found.evidence.binding = "exact"
       /\ Contract!LaunchIsBound(d.call)
       /\ issue = "none" =>
            /\ \A i \in 2 .. Len(deck.lines) : deck.lines[i].is = "analysis" => Full(a) = Full(Contract!AnalysisOf(deck.lines[i].card))
            /\ Contract!AnswerIsFounded(d.native, [request |-> "r"], a)
-----------------------------------------------------------------------------
(* A host, a provider and the files that both see: a transient of a deck,  *)
(* configured by two files and a PDK's revision; and what may differ, in   *)
(* what was written, in the files at one of the three moments, in what the *)
(* simulator did, and, for another provider, in the answer.                *)
Dir(n)     == [is |-> "dir", size |-> 0, sha |-> "", id |-> n, links |-> 1, run |-> FALSE, elf |-> FALSE, to |-> <<>>]
File(s, n) == [Dir(n) EXCEPT !.is = "file", !.sha = s]
Tool(s, n) == [File(s, n) EXCEPT !.run = TRUE, !.elf = TRUE, !.size = 1]
Root       == <<"/", "pdk">>
Out        == <<"/", "run", "out">>
Places == [deck    |-> <<"/", "run", "deck">>, init |-> <<"/", "pdk", "ihp", "init">>, commit |-> <<"/", "pdk", "ihp", "COMMIT">>,
           startup |-> <<"/", "etc", "spinit">>, control |-> <<"/", "etc", "control">>, ngspice |-> <<"/", "bin", "ngspice">>,
           host    |-> <<"/", "bin", "provider">>]
Watched == {"deck", "init", "commit", "startup", "control", "ngspice"}
Tree ==
    [p \in {<<"/">>, <<"/", "run">>, Root, <<"/", "pdk", "ihp">>, <<"/", "etc">>, <<"/", "bin">>} |-> Dir(1)]
    @@ [p \in {Places[w] : w \in {"deck", "init", "commit", "startup", "control"}} |->
          File(CHOOSE w \in Watched : Places[w] = p, 1)]
    @@ [p \in {Places.ngspice, Places.host} |-> Tool(p[3], 1)]
At(w)      == [type |-> "filesystem", path |-> Places[w], sha |-> w]
RecordNo(r, level) ==
    [id |-> r, products |-> <<"ngspice">>, profile |-> Contract!Circuit, assertion |-> Contract!Evidence, schema |-> Contract!Envelope,
     version |-> "0.5.0", status |-> "pass", level |-> level]
Manifest ==
    [driver |-> [id |-> "ngspice-pdk", version |-> "0.5.0"], products |-> <<"ngspice">>,
     transports |-> <<[id |-> "local-json-stdio", type |-> "local-cli", printable |-> TRUE, modes |-> {"wait"},
                       argv |-> <<[is |-> "name", name |-> "provider"]>>]>>,
     records |-> <<RecordNo("r1", "validated")>>,
     capabilities |-> <<[profile |-> Contract!Circuit, assertions |-> {Contract!Evidence}, schemas |-> {Contract!Envelope},
                         maturity |-> "validated", transports |-> {"local-json-stdio"}, products |-> {"ngspice"}, records |-> {"r1"},
                         locators |-> {"filesystem"}, modes |-> {"wait"}, features |-> {Contract!Feature.tran, Contract!Feature.op},
                         effects |-> {"evidence"}]>>]
Asks ==
    [id |-> "r", profile |-> Contract!Circuit, assertion |-> Contract!Evidence, target |-> [kind |-> "testbench", locator |-> At("deck")],
     configuration |-> <<[role |-> "pdk", required |-> TRUE, locator |-> At("commit")],
                         [role |-> "simulator-configuration", required |-> TRUE, locator |-> At("control")]>>,
     parameters |-> Asking(Contract!AnalysisOf(Card("tran"))),
     selector |-> <<[driver |-> "ngspice-pdk", version |-> "0.5.0", transport |-> "local-json-stdio",
                     features |-> <<Contract!Feature.tran>>]>>,
     policy |-> [roles |-> {"simulation.result"}, native |-> TRUE, logs |-> TRUE, provenance |-> "bounded", identity |-> "content-digest"],
     constraints |-> [completion |-> "wait", effects |-> "evidence", log |-> 2, artifact |-> 4],
     destination |-> [locator |-> [type |-> "filesystem", path |-> Out, sha |-> ""], collision |-> "fail-if-present"]]
Spells(what) == [say |-> what, long |-> FALSE, card |-> Card("op"), safe |-> TRUE, name |-> "tran.raw"]
Script == <<Spells("card"), Spells(".control"), Spells("save"), [Spells("analysis") EXCEPT !.card = Card("tran")], Spells("linearize"),
            Spells("write"), Spells(".endc")>>
Unfinished(execution, exit) ==
    [Ran(Contract!AnalysisOf(Card("tran"))) EXCEPT !.status = "unknown", !.execution = execution, !.exit = exit,
       !.artifacts = SelectSeq(@, LAMBDA a : a.kind # "raw"), !.captures = [i \in DOMAIN @ |-> [@[i] EXCEPT !.status = "missing"]],
       !.diagnostics = {[severity |-> "error", code |-> "artifact.missing"]}]
BaseExchange ==
    [manifest |-> Manifest, profiles |-> <<[name |-> Contract!Circuit, readable |-> TRUE, fits |-> TRUE, body |-> 1]>>, request |-> Asks,
     search |-> <<<<"/", "etc">>, <<"/", "bin">>>>, files |-> [m \in 1 .. 3 |-> Tree], decks |-> [deck |-> Script],
     configs |-> [control |-> [closed |-> TRUE, root |-> Root, pdk |-> "ihp", init |-> [path |-> Places.init, sha |-> "init"],
                               system |-> [path |-> Places.startup, sha |-> "startup"]]],
     natives |-> <<<<"/", "etc", "ngspice">>, Places.ngspice>>, native |-> Ran(Contract!AnalysisOf(Card("tran"))), slips |-> <<>>]

Touches == {"edit", "replace", "link", "remove", "follow", "undo"}
Slips   == {"operation", "request", "version", "exit", "omits an input", "names it twice", "old input", "outside", "absent", "longer",
            "more roles", "no result", "no points", "loose", "stale", "silent", "type", "completion", "pass", "many"}
ExchangeEdits ==
    {<<"touch", w, how, m>> : w \in Watched, how \in Touches, m \in 2 .. 3}
    \cup {<<"touch", w, how, 1>> : w \in Watched, how \in {"link", "follow", "undo"}}
    \cup {<<"moves", p, "", m>> : p \in {Root, Out, <<"/", "run">>}, m \in 2 .. 3}
    \cup {<<"size", w, s>> : w \in Watched, s \in {2, 4, 8}} \cup {<<"slip", s>> : s \in Slips}
    \cup {<<"line", i, w>> : i \in 3 .. 6, w \in {"comment", "shell", "save", "analysis", ".control"}} \cup {<<"cut", "">>}
    \cup {<<"again", i>> : i \in 2 .. 7}
    \cup {<<"named", w>> : w \in {"deck", "control", "commit"}} \cup {<<"unnamed", w>> : w \in {"deck", "control", "commit"}}
    \cup {<<"manifest", what>> : what \in {"no record", "failed record", "old record", "weak record", "other product", "twice", "two ways",
                                           "discovered", "two records", "no effects", "version"}}
    \cup {<<"profile", what>> : what \in {"again", "another", "unreadable"}}
    \cup {<<"request", what>> : what \in {"no selector", "any transport", "any version", "more features", "role twice", "model", "read",
                                          "design", "complete", "best", "other op", "op", "launcher", "netlist", "less", "dots", "outside"}}
    \cup {<<"config", what>> : what \in {"open", "pdk", "old init", "etc"}}
    \cup {<<"native", what>> : what \in {"fail", "late", "of another", "torn", "warning", "spilled", "no log", "gone"}}

Persists(d, m, f(_)) == [d EXCEPT !.files = [k \in 1 .. 3 |-> IF k >= m THEN f(@[k]) ELSE @[k]]]
Touch(d, p, how, m) ==
    IF p \notin DOMAIN d.files[3] THEN d
    ELSE CASE how = "edit"    -> Persists(d, m, LAMBDA fs : [fs EXCEPT ![p].sha = "changed"])
           [] how = "replace" -> Persists(d, m, LAMBDA fs : [fs EXCEPT ![p].id = 2])
           [] how = "link"    -> Persists(d, m, LAMBDA fs : [fs EXCEPT ![p].links = 2])
           [] how = "remove"  -> Persists(d, m, LAMBDA fs : [q \in DOMAIN fs \ {p} |-> fs[q]])
           [] how = "follow"  -> Persists(d, m, LAMBDA fs : (Append(p, "real") :> fs[p]) @@ [fs EXCEPT ![p].is = "link", ![p].to = Append(p, "real")])
           [] how = "undo"    -> [d EXCEPT !.files[m] = [@ EXCEPT ![p].sha = "changed"]]
SelectFirst(s, f(_)) == IF s = <<>> THEN s ELSE <<f(s[1])>> \o Tail(s)
EditManifest(what, m) ==
    CASE what = "no record"     -> [m EXCEPT !.capabilities[1].records = {}]
      [] what = "failed record" -> [m EXCEPT !.records[1].status = "fail"]
      [] what = "old record"    -> [m EXCEPT !.records[1].version = "0.4.0"]
      [] what = "weak record"   -> [m EXCEPT !.records[1].level = "structured"]
      [] what = "other product" -> [m EXCEPT !.products = @ \o <<"xyce">>, !.capabilities[1].products = @ \cup {"xyce"}]
      [] what = "twice"         -> [m EXCEPT !.capabilities = @ \o <<[@[1] EXCEPT !.maturity = "structured"]>>]
      [] what = "two ways"      -> [m EXCEPT !.transports = @ \o <<[@[1] EXCEPT !.id = "local"]>>, !.capabilities[1].transports = @ \cup {"local"}]
      [] what = "discovered"    -> [m EXCEPT !.capabilities[1].maturity = "discovered"]
      [] what = "two records"   -> [m EXCEPT !.records = @ \o <<[RecordNo("r2", "structured") EXCEPT !.products = <<"xyce">>]>>,
                                              !.capabilities[1].records = @ \cup {"r2"}]
      [] what = "no effects"    -> [m EXCEPT !.capabilities[1].effects = {"read"}]
      [] what = "version"       -> [m EXCEPT !.driver.version = "0.6.0", !.records[1].version = "0.6.0"]
EditRequest(what, q) ==
    CASE what = "no selector"   -> [q EXCEPT !.selector = <<>>]
      [] what = "any transport" -> [q EXCEPT !.selector = [i \in DOMAIN @ |-> [@[i] EXCEPT !.transport = ""]]]
      [] what = "any version"   -> [q EXCEPT !.selector = [i \in DOMAIN @ |-> [@[i] EXCEPT !.version = ""]]]
      [] what = "more features" -> [q EXCEPT !.selector = [i \in DOMAIN @ |-> [@[i] EXCEPT !.features = @ \o <<Contract!Feature.op>>]]]
      [] what = "role twice"    -> [q EXCEPT !.configuration[1].role = "simulator-configuration"]
      [] what = "model"         -> [q EXCEPT !.configuration[1].role = "model-library"]
      [] what = "read"          -> [q EXCEPT !.constraints.effects = "read"]
      [] what = "design"        -> [q EXCEPT !.constraints.effects = "design"]
      [] what = "complete"      -> [q EXCEPT !.policy.provenance = "complete-required"]
      [] what = "best"          -> [q EXCEPT !.policy.identity = "best-available"]
      [] what = "other op"      -> [q EXCEPT !.assertion = "other"]
      [] what = "op"            -> [q EXCEPT !.parameters = Asking([type |-> "op"]), !.selector =
                                                [i \in DOMAIN @ |-> [@[i] EXCEPT !.features = <<Contract!Feature.op>>]]]
      [] what = "launcher"      -> [q EXCEPT !.policy.roles = @ \cup {"simulation.launcher"}]
      [] what = "netlist"       -> [q EXCEPT !.policy.roles = @ \cup {"simulation.resolved-netlist"}]
      [] what = "less"          -> [q EXCEPT !.constraints.artifact = 0]
      [] what = "dots"          -> [q EXCEPT !.destination.locator.path = <<"/", "run", "..">>]
      [] what = "outside"       -> [q EXCEPT !.destination.locator.path = <<"/", "gone", "out">>]
EditNative(what, n) ==
    CASE what = "fail"       -> [n EXCEPT !.status = IF @ = "pass" THEN "fail" ELSE @, !.exit = [i \in DOMAIN @ |-> 1],
                                          !.diagnostics = @ \cup {[severity |-> "error", code |-> "simulation.nonconvergent"]}]
      [] what = "late"       -> Unfinished("timed_out", <<>>)
      [] what = "of another" -> [n EXCEPT !.captures = [i \in DOMAIN @ |-> [@[i] EXCEPT !.of = [type |-> "op"]]]]
      [] what = "torn"       -> [n EXCEPT !.status = "unknown", !.log = "unstable"]
      [] what = "warning"    -> [n EXCEPT !.diagnostics = @ \cup {[severity |-> "warning", code |-> "solver"]}]
      [] what = "spilled"    -> [n EXCEPT !.status = "unknown", !.diagnostics = @ \cup {[severity |-> "error", code |-> "execution.output_truncated"]}]
      [] what = "no log"     -> [n EXCEPT !.status = "unknown", !.log = "missing", !.artifacts = SelectSeq(@, LAMBDA a : a.kind # "log"),
                                          !.diagnostics = @ \cup {[severity |-> "error", code |-> "simulation.log.missing"]}]
      [] what = "gone"       -> [Unfinished("not_available", <<>>) EXCEPT !.artifacts = <<>>, !.tool = FALSE, !.command = FALSE]
EditExchange(e, d) ==
    CASE e[1] = "touch"    -> Touch(d, Places[e[2]], e[3], e[4])
      [] e[1] = "moves"    -> Persists(d, e[4], LAMBDA fs : (e[2] :> Dir(2)) @@ fs)
      [] e[1] = "size"     -> [d EXCEPT !.files = [m \in 1 .. 3 |-> IF Places[e[2]] \in DOMAIN @[m] THEN [@[m] EXCEPT ![Places[e[2]]].size = e[3]] ELSE @[m]]]
      [] e[1] = "slip"     -> [d EXCEPT !.slips = Append(@, e[2])]
      [] e[1] = "line"     -> [d EXCEPT !.decks.deck = [i \in DOMAIN @ |-> IF i = e[2] THEN [@[i] EXCEPT !.say = e[3]] ELSE @[i]]]
      [] e[1] = "again"    -> [d EXCEPT !.decks.deck = IF e[2] <= Len(@) THEN InsertAt(@, e[2], @[e[2]]) ELSE @]
      [] e[1] = "cut"      -> [d EXCEPT !.decks.deck = Front(@)]
      [] e[1] = "named"    -> [d EXCEPT !.request = [@ EXCEPT !.target.locator = IF @.path = Places[e[2]] THEN [@ EXCEPT !.sha = "old"] ELSE @,
                                  !.configuration = [i \in DOMAIN @ |-> IF @[i].locator.path = Places[e[2]] THEN [@[i] EXCEPT !.locator.sha = "old"] ELSE @[i]]]]
      [] e[1] = "unnamed"  -> [d EXCEPT !.request = [@ EXCEPT !.target.locator = IF @.path = Places[e[2]] THEN [@ EXCEPT !.sha = ""] ELSE @,
                                  !.configuration = [i \in DOMAIN @ |-> IF @[i].locator.path = Places[e[2]] THEN [@[i] EXCEPT !.locator.sha = ""] ELSE @[i]]]]
      [] e[1] = "manifest" -> [d EXCEPT !.manifest = EditManifest(e[2], @)]
      [] e[1] = "profile"  -> [d EXCEPT !.profiles = @ \o <<[@[1] EXCEPT !.body = IF e[2] = "another" THEN 2 ELSE 1, !.readable = e[2] # "unreadable"]>>]
      [] e[1] = "request"  -> [d EXCEPT !.request = EditRequest(e[2], @)]
      [] e[1] = "config"   -> [d EXCEPT !.configs.control =
                                  CASE e[2] = "open"     -> [@ EXCEPT !.closed = FALSE]
                                    [] e[2] = "pdk"      -> [@ EXCEPT !.pdk = "sky"]
                                    [] e[2] = "old init" -> [@ EXCEPT !.init.sha = "old"]
                                    [] e[2] = "etc"      -> [@ EXCEPT !.init = [path |-> Places.control, sha |-> "control"]]]
      [] e[1] = "native"   -> [d EXCEPT !.native = EditNative(e[2], @)]

(* An answer of a provider that errs.                                      *)
Slip(a, s) ==
    CASE s = "operation" -> [a EXCEPT !.operation = "other"]
      [] s = "request"   -> [a EXCEPT !.protocol.request = "another"]
      [] s = "version"   -> [a EXCEPT !.protocol.version = "0.4.0"]
      [] s = "exit"      -> [a EXCEPT !.exit = <<1>>]
      [] s = "omits an input" -> [a EXCEPT !.inputs = IF @ = <<>> THEN @ ELSE Tail(@)]
      [] s = "names it twice" -> [a EXCEPT !.inputs = @ \o @]
      [] s = "old input" -> [a EXCEPT !.inputs = SelectFirst(@, LAMBDA r : [r EXCEPT !.sha = "old"])]
      [] s = "outside"   -> [a EXCEPT !.artifacts = SelectFirst(@, LAMBDA r : [r EXCEPT !.path = Places.deck, !.sha = "deck", !.bytes = 0])]
      [] s = "absent"    -> [a EXCEPT !.artifacts = SelectFirst(@, LAMBDA r : [r EXCEPT !.exists = FALSE])]
      [] s = "longer"    -> [a EXCEPT !.artifacts = SelectFirst(@, LAMBDA r : [r EXCEPT !.bytes = @ + 1])]
      [] s = "more roles" -> [a EXCEPT !.evidence.roles = @ \cup {"simulation.launcher"}]
      [] s = "no result" -> [a EXCEPT !.artifacts = SelectSeq(@, LAMBDA r : r.role # "simulation.result"), !.evidence.roles = @ \ {"simulation.result"}]
      [] s = "no points" -> [a EXCEPT !.analysis.counts = <<0, 2, 6>>]
      [] s = "loose"     -> [a EXCEPT !.evidence.binding = "not-established"]
      [] s = "stale"     -> [a EXCEPT !.evidence.freshness = "stale"]
      [] s = "silent"    -> [a EXCEPT !.diagnostics = {}]
      [] s = "type"      -> [a EXCEPT !.analysis.type = "op"]
      [] s = "completion" -> [a EXCEPT !.analysis.completion = "unproven"]
      [] s = "many"      -> [a EXCEPT !.artifacts = @ \o @]
      [] s = "pass"      -> [a EXCEPT !.status = "pass", !.analysis = [type |-> @.type, completion |-> "completed", convergence |-> "converged", counts |-> <<1, 1, 1>>],
                               !.evidence.binding = "exact", !.evidence.freshness = "fresh", !.evidence.structure = "valid"]
Given(d, fs) == FoldLeft(Slip, Contract!Answer(d, fs), d.slips)

(* An exchange that nothing disturbed is resolved, accepted and has the    *)
(* simulator's verdict. Whatever the provider answers of itself while the  *)
(* files stand still is accepted, if they are within its bounds and the    *)
(* request does not require more provenance than it has. A verdict that is *)
(* accepted names each file of the request once, as it was before and is   *)
(* after, and its evidence is in the destination as recorded; from this    *)
(* provider it also names all that the run used, unchanged since it was    *)
(* read and of the digests configured, the deck's one analysis is the      *)
(* asked one, and the verdict is the simulator's. Only a capability of     *)
(* which each product has a passing record of its maturity is chosen.      *)
Size(d, w)   == d.files[1][Places[w]].size
Steady(d)    == \A m \in 2 .. 3 : d.files[m] = d.files[1]
WithinBounds(d) ==
    /\ \A w \in Watched : Places[w] \in DOMAIN d.files[1]
    /\ \A w \in {"init", "commit", "startup", "control"} : Size(d, w) <= Contract!MaxConfig
    /\ Size(d, "ngspice") <= Contract!MaxData /\ Size(d, "deck") + 2 * Size(d, "ngspice") + 1 <= Contract!MaxTotal
Controls(line) == line.say \notin {"comment", "card"}
Orders == {<<".control", "save", "analysis", "write", ".endc">>, <<".control", "save", "analysis", "linearize", "write", ".endc">>}
Spelled(lines) == [i \in DOMAIN SelectSeq(lines, Controls) |-> SelectSeq(lines, Controls)[i].say]
OwnHolds(d, a) ==
    /\ Contract!OwnVerdict(d, a)
    /\ {Places[w] : w \in Watched} \subseteq Contract!UsedBy(d)
    /\ \A w \in Watched \ {"ngspice"} : Contract!Content(d.files[2], Places[w]) = w
    /\ \E r \in ToSet(a.inputs) : r.path = Contract!WorkCopy(d) /\ r.sha = Contract!Content(d.files[2], Places.ngspice)
    /\ LET cards == SelectSeq(d.decks.deck, LAMBDA line : line.say = "analysis")
       IN Len(cards) = 1 /\ Full(Contract!AnalysisOf(cards[1].card)) = Full(Contract!Normalized(d.request.parameters.analysis))
    /\ Spelled(d.decks.deck) \in Orders
AnswerHolds(d, a, fs) ==
    /\ Steady(d) /\ WithinBounds(d) /\ d.slips = <<>> /\ d.request.policy.provenance = "bounded"
         /\ d.manifest.driver.version = "0.5.0" => Contract!Accepts(d, a, fs)
    /\ Contract!Accepts(d, a, fs) /\ a.status = "unknown" => a.diagnostics # {}
    /\ Contract!Accepts(d, a, fs) /\ a.status \in {"pass", "fail"} =>
         Contract!Evidenced(d, a, fs) /\ (d.slips = <<>> => OwnHolds(d, a))
ResolvedHolds(d, fs) == Contract!Vouched(d) /\ AnswerHolds(d, Given(d, fs), fs)
Untouched(d, fs) == Contract!Accepts(d, Given(d, fs), fs) /\ Given(d, fs).status = d.native.status
ExchangeHolds(d, untouched) ==
    /\ untouched => Contract!Resolves(d) /\ Untouched(d, Contract!After(d))
    /\ Contract!Resolves(d) => ResolvedHolds(d, Contract!After(d))
=============================================================================
