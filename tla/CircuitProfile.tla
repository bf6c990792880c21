--------------------------- MODULE CircuitProfile ---------------------------
(***************************************************************************)
(* The shared circuit.simulate profile (operations/circuit_simulate.py):   *)
(* one analysis, given by a card in a deck and by the typed parameters of  *)
(* a request; the inspection of the deck; and what a native result says in *)
(* the profile's terms. A number is an integer in halves of the unit, with *)
(* a thousand abstracted to two. A typed value has a field is, "int",      *)
(* "float", "text" or "other"; a token is a "word" or a "number".          *)
(***************************************************************************)
EXTENDS Integers, Sequences, FiniteSets, SequencesExt, FiniteSetsExt

CONSTANT PointLimit  \* MAX_SHARED_ANALYSIS_POINTS

Kinds  == {"op", "dc", "ac", "tran"}
Sweeps == {"lin", "dec", "oct"}
Ratio(sweep) == IF sweep = "dec" THEN 10 ELSE 2
-----------------------------------------------------------------------------
(* The scale of a suffix is that of the first name that it begins with.    *)
Scales == <<[letters |-> <<"m", "eg">>, factor |-> 8], [letters |-> <<"k">>, factor |-> 4], [letters |-> <<"m">>, factor |-> 1]>>
ScalesOf(suffix) == SelectSeq(Scales, LAMBDA s : IsPrefix(s.letters, suffix))
Legible(token)   == token.is = "number" /\ (token.suffix \in {<<>>, <<"s">>} \/ ScalesOf(token.suffix) # <<>>)
Value(token)     == token.digits * (IF ScalesOf(token.suffix) = <<>> THEN 2 ELSE ScalesOf(token.suffix)[1].factor)
Readings(tokens) == [i \in DOMAIN tokens |-> Value(tokens[i])]

(* The points of a sweep, counted no further than past the limit; those of *)
(* a transient are the steps that cover its span.                          *)
Reaches(a, i) == a.start_hz ^ a.points * Ratio(a.sweep) ^ i <= a.stop_hz ^ a.points
StartOf(a)    == IF "start_s" \in DOMAIN a THEN a.start_s ELSE 0
StepOf(a)     == IF "max_step_s" \in DOMAIN a THEN Min({a.step_s, a.max_step_s}) ELSE a.step_s
Points(a) ==
    CASE a.type = "op"   -> 1
      [] a.type = "dc"   -> (a.stop - a.start) \div a.step + 1
      [] a.type = "ac"   -> IF a.sweep = "lin" THEN a.points ELSE Max({i \in 0 .. PointLimit : Reaches(a, i)}) + 1
      [] a.type = "tran" -> (a.stop_s - StartOf(a) + StepOf(a) - 1) \div StepOf(a) + 1
Bounded(a) == Points(a) <= PointLimit
-----------------------------------------------------------------------------
(* The card of an analysis, as parse_simulation_analysis_line reads it.    *)
SourceUnits == [v |-> "V", i |-> "A"]
Names(token) == token.is = "word" /\ token.plain /\ token.letter \in DOMAIN SourceUnits
DcCard(args) ==
    /\ Len(args) = 4 /\ Names(args[1]) /\ \A i \in 2 .. 4 : Legible(args[i])
    /\ Value(args[2]) < Value(args[3]) /\ Value(args[4]) > 0
Dc(args) == [type |-> "dc", source_name |-> args[1], source_unit |-> SourceUnits[args[1].letter],
             start |-> Value(args[2]), stop |-> Value(args[3]), step |-> Value(args[4])]
AcCard(args) ==
    /\ Len(args) = 4 /\ args[1].is = "word" /\ args[1].folded \in Sweeps
    /\ args[2].is = "number" /\ args[2].plain /\ args[2].suffix = <<>> /\ args[2].digits \in 1 .. PointLimit
    /\ Legible(args[3]) /\ Legible(args[4]) /\ Value(args[3]) > 0 /\ Value(args[3]) < Value(args[4])
Ac(args) == [type |-> "ac", sweep |-> args[1].folded, points |-> args[2].digits,
             start_hz |-> Value(args[3]), stop_hz |-> Value(args[4])]
TranControls == <<"step_s", "stop_s", "start_s", "max_step_s">>
Tran(args) == [f \in {"type"} \cup ToSet(SubSeq(TranControls, 1, Len(args))) |->
                 IF f = "type" THEN "tran" ELSE Value(args[CHOOSE i \in DOMAIN args : TranControls[i] = f])]
TranCard(args) ==
    /\ Len(args) \in 2 .. 4 /\ \A i \in DOMAIN args : Legible(args[i])
    /\ LET v == Readings(args)
           from == IF Len(v) >= 3 THEN v[3] ELSE 0
       IN v[1] > 0 /\ v[2] > 0 /\ 0 <= from /\ from < v[2] /\ (Len(v) = 4 => 0 < v[4] /\ v[4] <= v[2] - from)
CardFits(card) ==
    CASE card.kind = "op"   -> card.args = <<>>
      [] card.kind = "dc"   -> DcCard(card.args)
      [] card.kind = "ac"   -> AcCard(card.args)
      [] card.kind = "tran" -> TranCard(card.args)
      [] OTHER              -> FALSE
AnalysisOf(card) ==
    CASE card.kind = "op"   -> [type |-> "op"]
      [] card.kind = "dc"   -> Dc(card.args)
      [] card.kind = "ac"   -> Ac(card.args)
      [] card.kind = "tran" -> Tran(card.args)
Parses(card) == CardFits(card) /\ Bounded(AnalysisOf(card))
-----------------------------------------------------------------------------
(* The typed parameters of a request, as _validate_requested_parameters    *)
(* takes them: a closed object for each type, of which a transient's start *)
(* and largest step may be left out.                                       *)
Fields   == [op |-> {"type"}, dc |-> {"type", "source_name", "source_unit", "start", "stop", "step"},
             ac |-> {"type", "sweep", "points", "start_hz", "stop_hz"}, tran |-> {"type", "step_s", "stop_s"}]
Optional(type) == IF type = "tran" THEN {"start_s", "max_step_s"} ELSE {}
Numeric  == [op |-> {}, dc |-> {"start", "stop", "step"}, ac |-> {"points", "start_hz", "stop_hz"}, tran |-> ToSet(TranControls)]
Finite(v)     == v.is \in {"int", "float"}
Closed(a)     == a.type \in Kinds /\ Fields[a.type] \subseteq DOMAIN a /\ DOMAIN a \subseteq Fields[a.type] \cup Optional(a.type)
Normalized(a) == [f \in DOMAIN a |-> IF f \in Numeric[a.type] THEN a[f].value ELSE a[f]]
DcFits(a) ==
    /\ a.source_name.is = "word" /\ a.source_name.plain /\ \A f \in {"start", "stop", "step"} : Finite(a[f])
    /\ a.source_name.letter \in {"v", "i"} /\ a.source_unit = (IF a.source_name.letter = "v" THEN "V" ELSE "A")
    /\ a.start.value < a.stop.value /\ a.step.value > 0
AcFits(a) ==
    /\ a.sweep \in Sweeps /\ a.points.is = "int" /\ a.points.value \in 1 .. PointLimit
    /\ Finite(a.start_hz) /\ Finite(a.stop_hz) /\ 0 < a.start_hz.value /\ a.start_hz.value < a.stop_hz.value
TranFits(a) ==
    /\ \A f \in DOMAIN a \ {"type"} : Finite(a[f])
    /\ LET n == Normalized(a) IN
       /\ n.step_s > 0 /\ n.stop_s > 0 /\ StartOf(n) >= 0 /\ StartOf(n) < n.stop_s
       /\ "max_step_s" \in DOMAIN n => n.max_step_s > 0 /\ n.max_step_s <= n.stop_s - StartOf(n)
ParametersFit(q) ==
    /\ q.closed /\ ~q.extended /\ Closed(q.analysis)
    /\ CASE q.analysis.type = "op"   -> TRUE
         [] q.analysis.type = "dc"   -> DcFits(q.analysis)
         [] q.analysis.type = "ac"   -> AcFits(q.analysis)
         [] q.analysis.type = "tran" -> TranFits(q.analysis)
    /\ Bounded(Normalized(q.analysis))

(* The analysis that was asked for and the one in the deck are the same.   *)
SameAnalysis(a, b) ==
    /\ a.type = b.type
    /\ CASE a.type = "op" -> TRUE
         [] a.type = "dc" -> /\ a.source_name.folded = b.source_name.folded /\ a.source_unit = b.source_unit
                             /\ \A f \in Numeric["dc"] : a[f] = b[f]
         [] a.type = "ac" -> a.sweep = b.sweep /\ \A f \in Numeric["ac"] : a[f] = b[f]
         [] a.type = "tran" -> /\ a.step_s = b.step_s /\ a.stop_s = b.stop_s /\ StartOf(a) = StartOf(b)
                               /\ ("max_step_s" \in DOMAIN a) = ("max_step_s" \in DOMAIN b)
                               /\ "max_step_s" \in DOMAIN a => a.max_step_s = b.max_step_s
-----------------------------------------------------------------------------
(* The inspection of a deck: its title, comments and over-long lines are   *)
(* not looked at, the last of these is remembered.                         *)
Looked(deck)   == {i \in 2 .. Len(deck.lines) : ~deck.lines[i].long /\ deck.lines[i].is # "comment"}
OfKind(deck, is) == {i \in Looked(deck) : deck.lines[i].is = is}
Unparsed(deck) == \/ Cardinality(OfKind(deck, "analysis")) # 1
                  \/ \A i \in OfKind(deck, "analysis") : ~Parses(deck.lines[i].card)
Declared(deck) == AnalysisOf(deck.lines[CHOOSE i \in OfKind(deck, "analysis") : TRUE].card)
TooLong(deck)  == \E i \in DOMAIN deck.lines : deck.lines[i].long
(* What the deck declares stands for parameters that were not given.       *)
Asked(call, deck) ==
    IF call.parameters # <<>> THEN Normalized(call.parameters[1].analysis) ELSE Declared(deck)

(* A call of the profile, refused at its first trouble; the deck inspected *)
(* may be another than the one that runs, if the latter's digest is given. *)
Inspected(call) == IF call.inspects = "another" THEN call.decks.another ELSE call.decks.source
Troubles(call, deck) ==
    <<<<call.driver = "unknown", "driver.unsupported">>,
      <<~call.canonical_id \/ (call.inspects = "another" /\ call.digest = "none"), "simulation.request.invalid">>,
      <<call.decks.source.state = "absent", "input.missing">>,
      <<deck.state \in {"unstable", "absent"}, "simulation.request.invalid">>,
      <<deck.state = "large", "simulation.evidence.over_limit">>,
      <<call.parameters # <<>> /\ ~ParametersFit(call.parameters[1]), "simulation.request.invalid">>,
      <<TooLong(deck), "input.line_too_long">>,
      <<OfKind(deck, "include") # {}, "input.transitive_uninspected">>,
      <<OfKind(deck, "unsupported") # {}, "simulation.feature.unsupported">>,
      <<Unparsed(deck), "simulation.analysis.unsupported">>>>
LateTroubles(call, deck) ==
    <<<<~SameAnalysis(Asked(call, deck), Declared(deck)), "simulation.request.invalid">>,
      <<Asked(call, deck).type \notin call.features, "simulation.analysis.unsupported">>>>
Met(troubles) == {i \in DOMAIN troubles : troubles[i][1]}
Issue(call, deck) ==
    LET early == Troubles(call, deck)
        late  == LateTroubles(call, deck)
    IN IF Met(early) # {} THEN early[Min(Met(early))][2] ELSE IF Met(late) # {} THEN late[Min(Met(late))][2] ELSE "none"

(* The digest that the launch is bound to: the given one, or that of the   *)
(* bytes which were inspected.                                             *)
LaunchDigest(call) ==
    IF call.digest # "none" THEN call.digest ELSE IF call.inspects = "source" THEN call.decks.source.sha ELSE "none"
-----------------------------------------------------------------------------
(* What the driver found, in the terms of the profile. The counts are its  *)
(* own or those of the first valid capture that has the asked analysis.    *)
Answered(native)  == native.status \in {"pass", "fail"}
Positive(counts)  == Len(counts) = 3 /\ \A i \in 1 .. 3 : counts[i] > 0
Shows(capture, a) == capture.status = "valid" /\ capture.of = a /\ Positive(capture.counts)
CountsFor(native, a) ==
    LET shown == {i \in DOMAIN native.captures : Shows(native.captures[i], a)} IN
    IF ~Answered(native) THEN <<>>
    ELSE IF Positive(native.counts) THEN native.counts
    ELSE IF shown = {} THEN <<>> ELSE native.captures[Min(shown)].counts
RoleOf == [raw |-> "simulation.result", log |-> "simulation.log", control |-> "simulation.launcher"]
Roled(artifacts) ==
    [i \in DOMAIN artifacts |-> [artifacts[i] EXCEPT !.role = IF artifacts[i].kind \in DOMAIN RoleOf THEN RoleOf[artifacts[i].kind] ELSE @]]
RolesIn(artifacts) == {RoleOf[artifacts[i].kind] : i \in {j \in DOMAIN artifacts : artifacts[j].kind \in DOMAIN RoleOf}}

(* The profile's codes for the driver's diagnostics.                       *)
Shared == {"simulation.request.invalid", "simulation.analysis.unsupported", "simulation.tool.unavailable",
           "simulation.analysis.non_convergent", "simulation.analysis.unproven", "simulation.result.missing",
           "simulation.result.stale", "simulation.result.malformed", "simulation.evidence.over_limit",
           "simulation.provenance.incomplete", "simulation.collateral.unloadable", "simulation.startup.failed"}
CodeOf(d) ==
    CASE d.code \in {"simulation.nonconvergent"}        -> "simulation.analysis.non_convergent"
      [] d.code \in {"tool.missing", "execution.not_available"} -> "simulation.tool.unavailable"
      [] d.code \in {"request.invalid", "execution_mode.invalid", "input.transitive_uninspected",
                     "simulation.feature.unsupported"}  -> "simulation.request.invalid"
      [] d.code \in {"artifact.missing", "simulation.log.missing"} -> "simulation.result.missing"
      [] d.code \in {"artifact.invalid", "artifact.empty", "simulation.log.malformed", "simulation.native_error"}
                                                        -> "simulation.result.malformed"
      [] d.code = "input.changed"                       -> "simulation.result.stale"
      [] d.code \in {"artifact.too_large", "execution.output_truncated", "input.too_large"}
                                                        -> "simulation.evidence.over_limit"
      [] d.code \in Shared -> d.code
      [] OTHER -> IF d.severity = "warning" THEN "simulation.provenance.incomplete" ELSE "simulation.analysis.unproven"
Said(native, unbound) ==
    {[severity |-> d.severity, code |-> CodeOf(d)] : d \in native.diagnostics}
    \cup (IF unbound THEN {[severity |-> "error", code |-> "simulation.result.malformed"]} ELSE {})
Diagnosed(said, status) ==
    IF said = {} /\ status = "unknown" THEN {[severity |-> "error", code |-> "simulation.analysis.unproven"]} ELSE said

Torn == {"unstable", "parent_changed", "modified", "hardlinked"}
Statuses(native) == {native.captures[i].status : i \in DOMAIN native.captures} \cup {native.log}
Freshness(native) ==
    CASE Statuses(native) \cap Torn # {}                      -> "stale"
      [] Statuses(native) \cap Torn = {} /\ native.stable /\ RolesIn(native.artifacts) # {} -> "fresh"
      [] OTHER                                                -> "not-established"
Structure(native, counts) ==
    CASE counts # <<>> -> "valid"
      [] counts = <<>> /\ Statuses(native) \ {"missing"} # {} -> "invalid"
      [] OTHER         -> "not-established"
Completion  == [pass |-> "completed", fail |-> "terminal-failure", unknown |-> "unproven"]
Convergence == [pass |-> "converged", fail |-> "non-converged", unknown |-> "not-established"]

(* The fields of one over those of another (@@ of the module TLC).         *)
Over(f, g) == [x \in DOMAIN f \cup DOMAIN g |-> IF x \in DOMAIN f THEN f[x] ELSE g[x]]
(* A verdict stands only if its evidence is of the asked analysis.         *)
Decorate(native, protocol, a) ==
    LET counts == CountsFor(native, a)
        status == IF Answered(native) /\ counts = <<>> THEN "unknown" ELSE native.status
        judged == [native EXCEPT !.status = status, !.artifacts = Roled(@),
                                 !.diagnostics = Diagnosed(Said(native, Answered(native) /\ counts = <<>>), status)]
        shared ==
          [operation |-> "simulate", protocol |-> protocol,
           analysis |-> [type |-> a.type, completion |-> Completion[status], convergence |-> Convergence[status], counts |-> counts],
           evidence |-> [binding |-> IF native.stable /\ counts # <<>> THEN "exact" ELSE "not-established",
                         freshness |-> Freshness(native), structure |-> Structure(native, counts),
                         roles |-> RolesIn(native.artifacts), provenance |-> IF native.stable THEN "bounded" ELSE "incomplete"]]
    IN Over(judged, shared)

(* A call that was refused, or could not be read at all.                   *)
Refused(inputs, code, stable) ==
    [status |-> "unknown", execution |-> "invalid_request", exit |-> <<>>, command |-> FALSE, tool |-> TRUE, inputs |-> inputs,
     artifacts |-> <<>>, captures |-> <<>>, counts |-> <<>>, log |-> "missing", stable |-> stable,
     diagnostics |-> {[severity |-> "error", code |-> code]}]
(***************************************************************************)
(* A call that is launched runs the one analysis of the deck inspected     *)
(* that the simulator would see: the asked one, which the driver has, of   *)
(* at most PointLimit points, with no other file taken in; and the launch  *)
(* is bound to the bytes that were inspected, or to those that were named. *)
(***************************************************************************)
LaunchIsBound(call) ==
    LET deck  == Inspected(call)
        asked == Asked(call, deck)
        seen  == {i \in 2 .. Len(deck.lines) : deck.lines[i].is # "comment"}
    IN Issue(call, deck) = "none" =>
         /\ \A i \in DOMAIN deck.lines : ~deck.lines[i].long
         /\ \A i \in seen : deck.lines[i].is \notin {"include", "unsupported"}
         /\ \E i \in seen :
              /\ \A j \in seen : deck.lines[j].is = "analysis" <=> j = i
              /\ LET card == deck.lines[i].card IN
                 Parses(card) /\ SameAnalysis(asked, AnalysisOf(card)) /\ Points(asked) = Points(AnalysisOf(card))
         /\ asked.type \in call.features /\ Points(asked) <= PointLimit
         /\ LaunchDigest(call) # "none" /\ LaunchDigest(call) \in {deck.sha, call.digest}

(* The profile's result: a verdict is the driver's, with counts of its own *)
(* or of the first valid capture of the asked analysis; none is given      *)
(* without saying why; exact and fresh evidence is of a stable run that    *)
(* left no torn file; and the artifacts are the driver's.                  *)
AnswerIsFounded(native, protocol, a) ==
    LET found  == Decorate(native, protocol, a)
        counts == found.analysis.counts
        Carries(i) == Shows(native.captures[i], a) /\ native.captures[i].counts = counts
    IN /\ Answered(found) =>
            /\ found.status = native.status /\ Positive(counts)
            /\ counts = native.counts \/ \E i \in DOMAIN native.captures :
                 Carries(i) /\ \A j \in DOMAIN native.captures : Shows(native.captures[j], a) => i <= j
            /\ found.analysis.completion \in {"completed", "terminal-failure"}
       /\ ~Answered(found) =>
            /\ counts = <<>> /\ found.diagnostics # {}
            /\ Answered(native) => [severity |-> "error", code |-> "simulation.result.malformed"] \in found.diagnostics
            /\ found.analysis.completion = "unproven" /\ found.evidence.structure # "valid"
       /\ found.evidence.binding = "exact" => native.stable /\ Answered(found)
       /\ found.evidence.freshness = "fresh" =>
            /\ native.stable /\ native.log \notin Torn /\ \A i \in DOMAIN native.captures : native.captures[i].status \notin Torn
            /\ \E i \in DOMAIN native.artifacts : native.artifacts[i].kind \in DOMAIN RoleOf
       /\ \A d \in native.diagnostics : \E e \in found.diagnostics : e.severity = d.severity /\ e.code = CodeOf(d)
       /\ DOMAIN found.artifacts = DOMAIN native.artifacts
       /\ \A i \in DOMAIN native.artifacts : found.artifacts[i] = [native.artifacts[i] EXCEPT !.role = found.artifacts[i].role]
=============================================================================
