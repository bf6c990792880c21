------------------------------ MODULE RawSeries ------------------------------
(***************************************************************************)
(* From a native result file to a series: the validation of raw and wrdata *)
(* files (engines/ngspice_outputs.py), their binding to the analysis that  *)
(* was asked for, and result.series.extract                                *)
(* (operations/result_series_extract.py).                                  *)
(*                                                                         *)
(* A file is a sequence of items: a field of a header, a line of a table of*)
(* variables, a line with a value, a binary scalar ("word"), or a blank    *)
(* line. A value is a sequence of one or two integers; NaN stands for what *)
(* is not finite. A name is a sequence of parts, some of them punctuation. *)
(* The lengths of lines, headers and names are not bounded here.           *)
(***************************************************************************)
EXTENDS Integers, Sequences, FiniteSets, FiniteSetsExt, SequencesExt, TLC

MaxPlots     == 3
MaxVariables == 6
MaxPoints    == 6
MaxScalars   == 60

NaN      == -99
Nothing  == [is |-> "nothing"]
Refused  == [status |-> "refused"]
IsField(item, key) == item.is = "field" /\ item.key = key
At(file, i)        == IF i \in DOMAIN file THEN file[i] ELSE Nothing
-----------------------------------------------------------------------------
(* One plot, from the line it starts at: its header, which ends at the line*)
(* "Variables:", its table of variables, the marker and the payload.       *)
Required == {"plotname", "flags", "no. variables", "no. points"}
HeaderEnd(file, i) == LET ends == {j \in i + 1 .. Len(file) : IsField(file[j], "variables")}
                      IN IF ends = {} THEN 0 ELSE Min(ends)
HeaderFits(file, i, end, first) ==
    /\ IsField(file[i], "title") \/ (~first /\ IsField(file[i], "plotname"))
    /\ \A j \in i .. end - 1 : file[j].is = "field"
    /\ \A key \in Required : Cardinality({j \in i .. end - 1 : IsField(file[j], key)}) = 1
Stated(file, i, end, key) == file[CHOOSE j \in i .. end - 1 : IsField(file[j], key)].value
FlagsFit(flags) == ("complex" \in flags) # ("real" \in flags) /\ ~{"padded", "unpadded"} \subseteq flags

(* A vector may state dimensions; their product is its length.             *)
Product(dims) == FoldLeft(LAMBDA a, b : a * b, 1, dims)
VariableFits(item, index, points) ==
    /\ item.is = "variable" /\ item.index = index
    /\ \A k \in DOMAIN item.dims : item.dims[k] \in 1 .. points
    /\ Product(item.dims) <= points
LengthOf(item, points) == IF item.dims = <<>> THEN points ELSE Product(item.dims)
HeaderAt(file, i, end) ==
    [status |-> "read", name |-> Stated(file, i, end, "plotname"), flags |-> Stated(file, i, end, "flags"),
     count |-> Stated(file, i, end, "no. variables"), points |-> Stated(file, i, end, "no. points"), end |-> end]
TableFits(file, h, marker) ==
    /\ h.name # "" /\ h.count \in 1 .. MaxVariables /\ h.points \in 1 .. MaxPoints
    /\ FlagsFit(h.flags)
    /\ \A k \in 1 .. h.count : VariableFits(At(file, h.end + k), k - 1, h.points)
    /\ IsField(marker, "binary") \/ IsField(marker, "values")
Layout(file, h, marker) ==
    IF ~TableFits(file, h, marker) THEN Refused
    ELSE [status |-> "read", name |-> h.name, points |-> h.points,
          encoding |-> IF IsField(marker, "binary") THEN "binary" ELSE "ascii",
          width |-> IF "complex" \in h.flags THEN 2 ELSE 1, unpadded |-> "unpadded" \in h.flags,
          variables |-> [k \in 1 .. h.count |->
                           [name |-> file[h.end + k].name, type |-> file[h.end + k].type,
                            length |-> LengthOf(file[h.end + k], h.points)]],
          data |-> h.end + h.count + 2]
LayoutOf(file, h) == Layout(file, h, At(file, h.end + h.count + 1))
Header(file, i, first, end) ==
    IF end = 0 \/ ~HeaderFits(file, i, end, first) THEN Refused ELSE LayoutOf(file, HeaderAt(file, i, end))

(* How many values are before a point: a vector that is not padded ends at *)
(* its length.                                                             *)
Sum(q) == FoldLeft(LAMBDA a, b : a + b, 0, q)
Before(h, p) == Sum([k \in DOMAIN h.variables |-> IF h.unpadded THEN Min({h.variables[k].length, p}) ELSE p])
Scalars(h)   == Before(h, h.points) * h.width

(* A binary payload takes its bytes, be they a scalar or a piece of text;  *)
(* where it ends within a line, no plot begins.                            *)
BinaryPayload(file, h) ==
    LET end == h.data + Scalars(h) - 1 IN
    IF end > Len(file) \/ (\E i \in h.data .. end : file[i].is = "word" /\ file[i].value = NaN) \/ file[end].is # "word"
    THEN Refused
    ELSE [status |-> "read", next |-> end + 1,
          cell |-> [v \in 1 .. Before(h, h.points) |->
                      [part \in 1 .. h.width |-> LET item == file[h.data + (v - 1) * h.width + part - 1]
                                                 IN IF item.is = "word" THEN item.value ELSE 0]]]
AsciiPayload(file, h) ==
    LET lines == SelectSeq([k \in 1 .. Len(file) |-> k], LAMBDA i : i >= h.data /\ file[i].is # "blank")
        count == Before(h, h.points)
        start(v) == {p \in 0 .. h.points - 1 : Before(h, p) = v - 1}
    IN IF \/ \E p \in 0 .. h.points - 1 : Before(h, p + 1) = Before(h, p)
          \/ count > Len(lines)
          \/ \E v \in 1 .. count : LET item == file[lines[v]] IN
               \/ item.is # "value"
               \/ item.index # (IF start(v) = {} THEN <<>> ELSE <<Min(start(v))>>)
               \/ Len(item.value) # h.width \/ NaN \in ToSet(item.value)
       THEN Refused
       ELSE [status |-> "read", next |-> lines[count] + 1, cell |-> [v \in 1 .. count |-> file[lines[v]].value]]
WithCells(h, body) == IF body = Refused THEN Refused ELSE h @@ [next |-> body.next, cell |-> body.cell]
Plot(file, h) ==
    IF h = Refused \/ Scalars(h) \notin 1 .. MaxScalars THEN Refused
    ELSE WithCells(h, IF h.encoding = "binary" THEN BinaryPayload(file, h) ELSE AsciiPayload(file, h))
PlotAt(file, i, first) == Plot(file, Header(file, i, first, HeaderEnd(file, i)))

(* A file is one plot after the other, within bounds on their number and   *)
(* on all their scalars, and not only the simulator's constants.           *)
NextStart(file, i) == Min({j \in i .. Len(file) : file[j].is # "blank"} \cup {Len(file) + 1})
Then(plot, rest) == IF rest = Refused THEN Refused ELSE [rest EXCEPT !.plots = <<plot>> \o @]
Plots(file) ==
    LET read[i \in 1 .. Len(file) + 1, n \in 0 .. MaxPlots] ==
            LET follow(plot) == IF plot = Refused THEN Refused
                                ELSE Then(plot, read[NextStart(file, plot.next), n + 1])
            IN IF i > Len(file) THEN [status |-> "read", plots |-> <<>>]
               ELSE IF n = MaxPlots THEN Refused ELSE follow(PlotAt(file, i, n = 0))
    IN read[NextStart(file, 1), 0]
Constants == {"const", "constant values", "constants"}
Valid(file, p) ==
    /\ file # <<>> /\ p # Refused
    /\ Sum([i \in DOMAIN p.plots |-> Scalars(p.plots[i])]) <= MaxScalars
    /\ \E i \in DOMAIN p.plots : p.plots[i].name \notin Constants

(* A file of wrdata is a sequence of lines of tokens: numbers, or names for*)
(* the columns of the rows that follow. A new table begins after a blank   *)
(* line, below names, or where the width changes.                          *)
MaxColumns  == 4
MaxSections == 3
IsNames(line) == line # <<>> /\ \A k \in DOMAIN line : line[k] = Nothing
IsRow(line)   == line # <<>> /\ \A k \in DOMAIN line : line[k].is = "number" /\ line[k].value # NaN
Opens(lines, i) == IsRow(lines[i]) /\ (i = 1 \/ ~IsRow(lines[i - 1]) \/ Len(lines[i - 1]) # Len(lines[i]))
Sections(lines) == {i \in DOMAIN lines : Opens(lines, i)}
TablesFit(lines) ==
    /\ \A i \in DOMAIN lines : lines[i] = <<>> \/ (Len(lines[i]) \in 2 .. MaxColumns /\ (IsNames(lines[i]) \/ IsRow(lines[i])))
    /\ \A i \in DOMAIN lines : IsNames(lines[i]) =>
          LET below == {j \in i + 1 .. Len(lines) : lines[j] # <<>>}
          IN below # {} /\ IsRow(lines[Min(below)]) /\ Len(lines[Min(below)]) = Len(lines[i])
    /\ Cardinality(Sections(lines)) \in 1 .. MaxSections
-----------------------------------------------------------------------------
(* The sweep that an analysis asks for: how many points, the last of them  *)
(* and its spacing, in exact arithmetic over integers.                     *)
Column(plot, k) == [p \in 1 .. plot.points |-> plot.cell[(p - 1) * Len(plot.variables) + k]]
Parts(column, part) == [p \in DOMAIN column |-> column[p][part]]
Axis(plot)      == Parts(Column(plot, 1), 1)
Increasing(x)   == \A i \in 1 .. Len(x) - 1 : x[i] < x[i + 1]
Stepped(x, num, den) == \A i \in 1 .. Len(x) - 1 : den * (x[i + 1] - x[i]) = num
Proportional(x) == \A i \in 1 .. Len(x) - 2 : x[i] > 0 /\ x[i + 1] * x[i + 1] = x[i] * x[i + 2]
Intervals(a)    == LET base == IF a.sweep = "dec" THEN 10 ELSE 2
                   IN Max({n \in 0 .. MaxPoints : base ^ n * a.start ^ a.points <= a.stop ^ a.points})
SweepIs(x, a, format) ==
    LET base == IF a.sweep = "dec" THEN 10 ELSE 2
        n    == Intervals(a)
    IN /\ a.start > 0 /\ a.stop > a.start /\ a.points > 0
       /\ Increasing(x) /\ x[1] = a.start
       /\ IF a.sweep = "lin"
          THEN Len(x) = a.points
               /\ (a.points > 1 => Last(x) = a.stop /\ Stepped(x, a.stop - a.start, a.points - 1))
          ELSE /\ Len(x) = n + 1
               /\ n > 0 => /\ Proportional(x)
                           /\ IF a.sweep = "dec" /\ format = "ngspice-raw" THEN Last(x) = a.stop
                              ELSE x[2] ^ a.points = base * x[1] ^ a.points

(* The one plot of the analysis, of its numeric type, over its axis.       *)
PlotNames == [op   |-> {"operating point", "dc operating point"},
              dc   |-> {"dc transfer characteristic", "dc sweep: bias dc transfer characteristic"},
              ac   |-> {"ac analysis"},
              tran |-> {"transient analysis", "transient analysis (linearized)"}]
Marks       == {"(", ")", "-", "#", "."}
Plain(name) == SelectSeq(name, LAMBDA part : part \notin Marks)
Bound(plot, a, format) ==
    LET x    == Axis(plot)
        over == Plain(plot.variables[1].name)
    IN /\ ~plot.unpadded
       /\ (a.type = "ac") <=> (plot.width = 2)
       /\ a.type # "op" => Len(plot.variables) > 1
       /\ CASE a.type = "op"   -> plot.points = 1
            [] a.type = "tran" -> over = <<"time">> /\ Increasing(x)
            [] a.type = "ac"   -> over = <<"frequency">> /\ SweepIs(x, a, format)
            [] a.type = "dc"   ->
                 /\ a.stop > a.start /\ a.step > 0 /\ plot.points = (a.stop - a.start) \div a.step + 1
                 /\ x[1] = a.start /\ Increasing(x) /\ Stepped(x, a.step, 1)
                 /\ Plain(a.source) # <<>>
                 /\ \/ over = <<"sweep">> \/ (format = "ngspice-raw" /\ over = <<"v", "v", "sweep">>)
                    \/ IsSuffix(Plain(a.source), over)
Matching(plots, a) == {i \in DOMAIN plots : plots[i].name \in PlotNames[a.type]}
CountsOf(plot, a, format, dependent) ==
    IF ~Bound(plot, a, format) THEN Refused
    ELSE [status |-> "bound", points |-> plot.points, dependent |-> dependent,
          values |-> plot.points * dependent * plot.width]
Dependent(plot, a) == Len(plot.variables) - (IF a.type = "op" THEN 0 ELSE 1)
Counts(plots, a, format, target) ==
    IF Cardinality(Matching(plots, a)) # 1 THEN Refused
    ELSE CountsOf(plots[target], a, format, Dependent(plots[target], a))
-----------------------------------------------------------------------------
(* The extraction reads an opened file three times, to validate, to take   *)
(* the vectors and for the digest, and looks at its identity in between and*)
(* finally at what the path names. A moment is what a pass reads and the   *)
(* stamp (inode, size, times) that the file has after it.                  *)
MaxExtracted == 5
MaxSelected  == 40
(* Mutant: of vectors with one name the first is taken.                    *)
SelectedFirst(plot, a, names) ==
    LET from  == IF a.type = "op" THEN 1 ELSE 2
        of(n) == {k \in from .. Len(plot.variables) : plot.variables[k].name = n}
    IN IF \E i \in DOMAIN names : of(names[i]) = {} THEN Refused
       ELSE [status |-> "selected", at |-> [i \in DOMAIN names |-> Min(of(names[i]))]]
Selected(plot, a, names) ==
    LET from  == IF a.type = "op" THEN 1 ELSE 2
        of(n) == {k \in from .. Len(plot.variables) : plot.variables[k].name = n}
    IN IF \E i \in DOMAIN names : Cardinality(of(names[i])) # 1 THEN Refused
       ELSE [status |-> "selected", at |-> [i \in DOMAIN names |-> Min(of(names[i]))]]
Vectors(plot, a, names, s) ==
    IF s = Refused THEN Refused
    ELSE [status |-> "taken", plot |-> plot, axis |-> IF a.type = "op" THEN <<>> ELSE Axis(plot),
          type |-> plot.variables[1].type,
          signals |-> [i \in DOMAIN names |-> [name |-> names[i], type |-> plot.variables[s.at[i]].type,
                                               values |-> Column(plot, s.at[i])]]]
VectorsOf(plot, a, names) == IF plot.unpadded THEN Refused ELSE Vectors(plot, a, names, Selected(plot, a, names))
TakeVectors(p, target, a, names, backend) ==
    IF \/ p = Refused \/ target \notin DOMAIN p.plots
       \/ backend = "xyce" /\ \E i \in DOMAIN p.plots : p.plots[i].encoding # "ascii"
    THEN Refused ELSE VectorsOf(p.plots[target], a, names)
Openable(disk, size) == disk.kind = "regular" /\ Len(disk.opened.file) = size
Stable(disk) == \A moment \in {disk.parsed, disk.digested, disk.named} : moment.stamp = disk.opened.stamp
Format(backend) == IF backend = "xyce" THEN "xyce-raw" ELSE "ngspice-raw"
Fits(plot, backend, names, counts) ==
    /\ counts # Refused
    /\ backend = "xyce" => plot.encoding = "ascii"
    /\ counts.points <= MaxExtracted
    /\ counts.points * (1 + Len(names) * plot.width) <= MaxSelected
IfUnchanged(taken, disk, digest, points) ==
    IF taken = Refused \/ ~Stable(disk) \/ disk.digested.file # digest \/ taken.plot.points # points
    THEN Refused ELSE taken
TakeFrom(disk, backend, a, names, digest, plots, target, counts) ==
    IF ~Fits(plots[target], backend, names, counts) THEN Refused
    ELSE IfUnchanged(TakeVectors(Plots(disk.parsed.file), target, a, names, backend), disk, digest, counts.points)
TakeTarget(disk, backend, a, names, digest, plots, target) ==
    TakeFrom(disk, backend, a, names, digest, plots, target, Counts(plots, a, Format(backend), target))
TakeValidated(disk, backend, a, names, digest, v) ==
    IF ~Valid(disk.validated.file, v) \/ Matching(v.plots, a) = {} THEN Refused
    ELSE TakeTarget(disk, backend, a, names, digest, v.plots, Min(Matching(v.plots, a)))
ExtractRaw(disk, backend, a, names, size, digest) ==
    IF ~Openable(disk, size) \/ Len(disk.validated.file) # size THEN Refused
    ELSE TakeValidated(disk, backend, a, names, digest, Plots(disk.validated.file))
-----------------------------------------------------------------------------
(* What result.series.extract asks of a simulation's result: it is whole,  *)
(* and proves a fresh converged analysis of the request it retains.        *)
DriverOf  == ("org.openada.driver.ngspice"             :> [backend |-> "ngspice", kind |-> "ngspice-raw"])
          @@ ("org.openada.driver.ngspice-pdk-control" :> [backend |-> "ngspice", kind |-> "ngspice-raw"])
          @@ ("org.openada.driver.xyce"                :> [backend |-> "xyce", kind |-> "xyce-raw"])
RolesOf(r) == {r.artifacts[i].role : i \in {i \in DOMAIN r.artifacts : r.artifacts[i].exists}}
Proven(r) ==
    /\ r.execution = "completed" /\ r.exit = 0 /\ r.engineering = "pass"
    /\ r.completion = "completed" /\ r.convergence = "converged"
    /\ r.binding = "exact" /\ r.freshness = "fresh" /\ r.structure = "valid"
    /\ r.roles = RolesOf(r) /\ {"simulation.result", "simulation.log"} \subseteq r.roles
RecordsFit(q) == \A i \in DOMAIN q : q[i].exists <=> q[i].bytes >= 0
Enveloped(r)    == r.shape = "closed" /\ RecordsFit(r.artifacts)
ArtifactFits(r, path) ==
    LET raw == SelectSeq(r.artifacts, LAMBDA f : f.role = "simulation.result")
    IN Len(raw) = 1 /\ raw[1].kind = DriverOf[r.driver].kind /\ raw[1].bytes > 0 /\ raw[1].path = path
SourceFits(r, path) ==
    /\ Enveloped(r)
    /\ r.driver \in DOMAIN DriverOf /\ r.tool = DriverOf[r.driver].backend
    /\ \A n \in {r.counts.points, r.counts.dependent, r.counts.values} : n > 0
    /\ Proven(r)
    /\ r.backend = DriverOf[r.driver].backend /\ r.requested.type = r.type
    /\ ArtifactFits(r, path)

SelectorsFit(q) ==
    /\ q # <<>>
    /\ \A i, j \in DOMAIN q : i # j => q[i].output # q[j].output
                                       /\ <<q[i].name, q[i].component>> # <<q[j].name, q[j].component>>
ConditionsFit(q) == \A i, j \in DOMAIN q : i # j => q[i].name # q[j].name
NativeNames(q) == FoldLeft(LAMBDA done, s : IF s.name \in ToSet(done) THEN done ELSE Append(done, s.name), <<>>, q)

(* The series: the units are proven by the native types of axis and vectors.*)
UnitOf == [voltage |-> "V", current |-> "A", time |-> "s", frequency |-> "Hz"]
AxisUnit(a) == CASE a.type = "op" -> "1" [] a.type = "dc" -> a.unit [] a.type = "ac" -> "Hz" [] a.type = "tran" -> "s"
AxisName(a) == CASE a.type = "op" -> <<"sample">> [] a.type = "dc" -> a.source
                 [] a.type = "ac" -> <<"frequency">> [] a.type = "tran" -> <<"time">>
SignalNamed(taken, name) == CHOOSE t \in ToSet(taken.signals) : t.name = name
UnitsProven(taken, a, selectors) ==
    /\ a.type # "op" => /\ taken.type \in DOMAIN UnitOf /\ UnitOf[taken.type] = AxisUnit(a)
                        /\ (a.type = "dc" => a.unit \in {"V", "A"})
                        /\ AxisName(a) # <<>>
    /\ \A i \in DOMAIN selectors :
          /\ SignalNamed(taken, selectors[i].name).type \in {"voltage", "current"}
          /\ selectors[i].unit = UnitOf[SignalNamed(taken, selectors[i].name).type]
          /\ selectors[i].component = "imaginary" => taken.plot.width = 2
SeriesOf(taken, r, selectors, digest) ==
    IF \/ taken = Refused
       \/ r.counts # [points |-> taken.plot.points, dependent |-> Dependent(taken.plot, r),
                      values |-> taken.plot.points * Dependent(taken.plot, r) * taken.plot.width]
       \/ ~UnitsProven(taken, r.requested, selectors)
    THEN Refused
    ELSE [status |-> "extracted",
          axis |-> [name |-> AxisName(r.requested), unit |-> AxisUnit(r.requested),
                    values |-> IF r.type = "op" THEN <<0>> ELSE taken.axis],
          signals |-> [i \in DOMAIN selectors |->
                         [name |-> selectors[i].output, unit |-> selectors[i].unit,
                          values |-> Parts(SignalNamed(taken, selectors[i].name).values,
                                           IF selectors[i].component = "imaginary" THEN 2 ELSE 1)]],
          from |-> digest]
ExtractFile(call, r, file) ==
    SeriesOf(ExtractRaw(call.disk, r.backend, r.requested, NativeNames(call.selectors), file.bytes, file.digest),
             r, call.selectors, file.digest)
Extract(call) ==
    IF ~SourceFits(call.result, call.path) \/ ~SelectorsFit(call.selectors) \/ ~ConditionsFit(call.conditions) THEN Refused
    ELSE ExtractFile(call, call.result, CHOOSE f \in ToSet(call.result.artifacts) : f.role = "simulation.result")
=============================================================================
