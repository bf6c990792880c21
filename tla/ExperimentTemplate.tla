-------------------------- MODULE ExperimentTemplate --------------------------
(***************************************************************************)
(* The compiler of experiment templates (operations/experiment_template.py):*)
(* a document with declared constants and parameters, of which some values *)
(* stand for a declared name, and specifications whose limits follow the   *)
(* declarations. Compiling resolves the parameters, puts each value at its *)
(* site, computes the limits and has both validated by those who use them. *)
(*                                                                         *)
(* A template is the document with its substitutions beside it: a form has *)
(* the site it stands at, what it is ("$ref", "$number") and whom it names.*)
(***************************************************************************)
EXTENDS ExperimentSpec

CONSTANTS Malformed,  \* a scalar that does not parse
          Rounded     \* the values that are not exactly a JSON number

Evaluation == INSTANCE SpecificationEvaluate WITH Widest <- 200, MaxConditions <- 2
-----------------------------------------------------------------------------
(* Declarations, and the values that the caller sets.                      *)
Within(v, p) == (Has(p, "minimum") => p.minimum <= v) /\ (Has(p, "maximum") => v <= p.maximum)
DeclarationsFit(t) ==
    /\ DOMAIN t.constants \cap DOMAIN t.parameters = {}
    /\ \A n \in DOMAIN t.constants : t.constants[n].value # Malformed
    /\ \A n \in DOMAIN t.parameters :
          LET p == t.parameters[n] IN
          /\ \A bound \in {"minimum", "maximum", "default"} \cap DOMAIN p : p[bound] # Malformed
          /\ Has(p, "minimum") /\ Has(p, "maximum") => p.minimum <= p.maximum
          /\ Has(p, "default") => Within(p.default, p)
Overridden(t) == {t.overrides[i].name : i \in DOMAIN t.overrides}
OverlayFits(t) ==
    /\ Differ([i \in DOMAIN t.overrides |-> t.overrides[i].name]) /\ Overridden(t) \subseteq DOMAIN t.parameters
    /\ Every(t.overrides, LAMBDA o : o.value # Malformed /\ Within(o.value, t.parameters[o.name]))
    /\ \A n \in DOMAIN t.parameters \ Overridden(t) : Has(t.parameters[n], "default")
Chosen(t, n) == IF n \in Overridden(t) THEN t.overrides[CHOOSE i \in DOMAIN t.overrides : t.overrides[i].name = n].value
                ELSE t.parameters[n].default
Bindings(t) == [n \in DOMAIN t.constants |-> t.constants[n]]
               @@ [n \in DOMAIN t.parameters |-> [value |-> Chosen(t, n), unit |-> t.parameters[n].unit]]
-----------------------------------------------------------------------------
(* The sites that have a unit; at any other there is none, which is no     *)
(* unit of a declaration.                                                  *)
NoUnit == ""
SourceUnit(kind) == IF kind \in Voltage THEN "V" ELSE IF kind \in Independent THEN "A" ELSE NoUnit
ParameterUnit(kind, name) ==
    CASE kind = "resistor"  -> IF name = "r" THEN "Ohm" ELSE NoUnit
      [] kind = "capacitor" -> IF name = "c" THEN "F" ELSE IF name = "ic" THEN "V" ELSE NoUnit
      [] kind = "inductor"  -> IF name = "l" THEN "H" ELSE NoUnit
      [] OTHER -> CASE name \in {"dc", "initial_value", "pulsed_value", "amplitude", "ac_mag"} -> SourceUnit(kind)
                    [] name = "ac_phase" -> "deg"
                    [] name \in {"delay_time", "rise_time", "fall_time", "pulse_width", "period", "delay"} -> "s"
                    [] name = "freq" -> "Hz"
                    [] name = "damping" -> "1/s"
                    [] OTHER -> NoUnit
KindOf(d, name) == IF name \in Named(d) THEN Element(d, name).kind ELSE "none"
AnalysisUnit(d, a, field) ==
    CASE a.kind = "ac" /\ field \in {"start", "stop"} -> "Hz"
      [] a.kind = "tran" /\ field \in {"start", "step", "stop", "max_step"} -> "s"
      [] a.kind = "dc" /\ field \in {"start", "stop", "step"} -> SourceUnit(KindOf(d, a.source))
      [] OTHER -> NoUnit
SiteUnit(d, s) ==
    CASE s.at = "parameter"   -> ParameterUnit(d.elements[s.element].kind, s.name)
      [] s.at = "pair"        -> IF s.name = "time" THEN "s" ELSE SourceUnit(d.elements[s.element].kind)
      [] s.at = "analysis"    -> AnalysisUnit(d, d.analyses[s.analysis], s.name)
      [] s.at = "temperature" -> "degC"
      [] s.at = "quantity"    -> d.measurements[s.measurement].request.given[s.name].unit
      [] s.at = "window"      -> d.measurements[s.measurement].request.window.unit
      [] OTHER                -> NoUnit
FormsAt(s) == CASE s.at \in {"parameter", "pair"} -> {"$ref"}
                [] s.at \in {"analysis", "temperature"} -> {"$ref", "$number"}
                [] s.at \in {"quantity", "window"} -> {"$number"}
                [] OTHER -> {}
Resolves(bindings, f, forms, unit) ==
    /\ f.form \in forms /\ f.name \in DOMAIN bindings
    /\ bindings[f.name].unit = unit /\ unit # NoUnit
    /\ f.form = "$number" => bindings[f.name].value \notin Rounded
Put(d, s, v) ==
    CASE s.at = "parameter"   -> [d EXCEPT !.elements[s.element].values[s.name] = v]
      [] s.at = "pair"        -> [d EXCEPT !.elements[s.element].values.points[s.point][s.name] = v]
      [] s.at = "analysis"    -> [d EXCEPT !.analyses[s.analysis][s.name] = v]
      [] s.at = "temperature" -> [d EXCEPT !.pdk.temperature = v]
      [] s.at = "quantity"    -> [d EXCEPT !.measurements[s.measurement].request.given[s.name].value = v]
      [] s.at = "window"      -> [d EXCEPT !.measurements[s.measurement].request.window[s.name] = v]
SubstitutionsFit(t) == Every(t.forms, LAMBDA f : Resolves(Bindings(t), f, FormsAt(f.site), SiteUnit(t.experiment, f.site)))
Substituted(t) == FoldLeft(LAMBDA d, f : Put(d, f.site, Bindings(t)[f.name].value), t.experiment, t.forms)
-----------------------------------------------------------------------------
(* Specifications. A limit is a number, or a declared quantity of its unit *)
(* times a factor plus an offset, exactly.                                 *)
Follows(limit)     == Has(limit, "ref")
Limit(t, limit)    == IF Follows(limit) THEN limit.factor * Bindings(t)[limit.ref].value + limit.offset ELSE limit.value
LimitFits(t, limit) ==
    Follows(limit) => /\ limit.ref \in DOMAIN Bindings(t)
                      /\ Bindings(t)[limit.ref].unit = limit.unit
                      /\ limit.factor # Malformed /\ limit.offset # Malformed
                      /\ Limit(t, limit) \notin Rounded
Refers(c)          == Has(c, "form")
Condition(t, c)    == [name |-> c.name, unit |-> c.unit, type |-> IF Refers(c) THEN "number" ELSE c.type,
                       value |-> IF Refers(c) THEN Bindings(t)[c.of].value ELSE c.value]
ConditionResolves(t, c) == Refers(c) => Resolves(Bindings(t), [form |-> c.form, name |-> c.of], {"$number"}, c.unit)
Specified(t, s) ==
    [id |-> s.id, measurement |-> s.measurement,
     limits |-> [k \in DOMAIN s.limits |-> [value |-> Limit(t, s.limits[k]), unit |-> s.limits[k].unit,
                                            inclusive |-> s.limits[k].inclusive]],
     conditions |-> [i \in DOMAIN s.conditions |-> Condition(t, s.conditions[i])]]
SpecificationsFit(t) ==
    /\ Unique(t.specifications)
    /\ Every(t.specifications, LAMBDA s :
         /\ s.measurement \in Ids(t.experiment.measurements)
         /\ \A k \in DOMAIN s.limits : LimitFits(t, s.limits[k])
         /\ Every(s.conditions, LAMBDA c : ConditionResolves(t, c))
         /\ Evaluation!SpecificationFits(Specified(t, s)))

(* What is declared is used, or it would be a knob that turns nothing.     *)
Used(t) == {t.forms[i].name : i \in DOMAIN t.forms}
           \cup UNION {{s.limits[k].ref : k \in {k \in DOMAIN s.limits : Follows(s.limits[k])}}
                       \cup {s.conditions[i].of : i \in {i \in DOMAIN s.conditions : Refers(s.conditions[i])}}
                       : s \in ToSet(t.specifications)}
Declared(t) == DOMAIN t.constants \cup DOMAIN t.parameters
Compile(t, chosen) ==
    IF ~(DeclarationsFit(t) /\ OverlayFits(t)) THEN Refused
    ELSE IF ~(SubstitutionsFit(t) /\ SpecificationsFit(t) /\ Declared(t) \subseteq Used(t)) THEN Refused
    ELSE IF ~Accepted(Substituted(t), chosen) THEN Refused
    ELSE [status |-> "compiled", experiment |-> Substituted(t),
          specifications |-> [i \in DOMAIN t.specifications |-> Specified(t, t.specifications[i])]]
-----------------------------------------------------------------------------
(* What a compiled template promises. Each site reads its value in the     *)
(* unit it was declared in, as the accepted experiment understands it; the *)
(* value lies in the declared range; a limit is its formula.               *)
Read(d, s) ==
    CASE s.at = "parameter"   -> d.elements[s.element].values[s.name]
      [] s.at = "pair"        -> d.elements[s.element].values.points[s.point][s.name]
      [] s.at = "analysis"    -> d.analyses[s.analysis][s.name]
      [] s.at = "temperature" -> d.pdk.temperature
      [] s.at = "quantity"    -> d.measurements[s.measurement].request.given[s.name].value
      [] s.at = "window"      -> d.measurements[s.measurement].request.window[s.name]
MeasuredIn(d, m, overAxis) == IF overAxis THEN AxisUnit(d, Item(d.analyses, m.analysis))
                              ELSE UnitOf(Item(d.observations, m.request.signal))
UnitRead(d, s) ==
    CASE s.at = "analysis" -> AxisUnit(d, d.analyses[s.analysis])
      [] s.at \in {"quantity", "window"} ->
           MeasuredIn(d, d.measurements[s.measurement], s.at = "window" \/ s.name \in OverAxis)
      [] OTHER -> SiteUnit(d, s)
ValuesArrive(t, c) ==
    /\ Every(t.forms, LAMBDA f : Read(c.experiment, f.site) = Bindings(t)[f.name].value
                                 /\ UnitRead(c.experiment, f.site) = Bindings(t)[f.name].unit)
    /\ \A n \in DOMAIN t.parameters : Within(Bindings(t)[n].value, t.parameters[n])
    /\ \A i \in DOMAIN c.specifications : \A k \in DOMAIN c.specifications[i].limits :
          LET l == t.specifications[i].limits[k] IN
          Follows(l) => /\ c.specifications[i].limits[k].value = l.factor * Bindings(t)[l.ref].value + l.offset
                        /\ c.specifications[i].limits[k].unit = Bindings(t)[l.ref].unit

(* Each parameter turns something: set otherwise, other documents or none  *)
(* come out, unless limits alone refer to it, and with a factor of zero.   *)
Idle(t, n) == /\ n \in Used(t) /\ \A i \in DOMAIN t.forms : t.forms[i].name # n
              /\ \A s \in ToSet(t.specifications) :
                    /\ \A k \in DOMAIN s.limits : Follows(s.limits[k]) /\ s.limits[k].ref = n => s.limits[k].factor = 0
                    /\ \A i \in DOMAIN s.conditions : Refers(s.conditions[i]) => s.conditions[i].of # n
Set(t, n, v) == [t EXCEPT !.overrides = Append(SelectSeq(@, LAMBDA o : o.name # n), [name |-> n, value |-> v])]
ParametersTurn(t, c, chosen) ==
    \A n \in DOMAIN t.parameters : \A v \in 0 .. 2 \ {Bindings(t)[n].value} :
        Idle(t, n) \/ Compile(Set(t, n, v), chosen) # c
=============================================================================
