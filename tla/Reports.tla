------------------------------- MODULE Reports -------------------------------
(***************************************************************************)
(* What the sign-off drivers conclude from the files of their tools: the   *)
(* comparison report, its JSON and the transcript of Netgen, and the       *)
(* marker database of KLayout, each with the request that it answers. That *)
(* the files are this run's is ToolDriver; here is what they say.          *)
(*                                                                         *)
(* A report of Netgen is a sequence of lines, told apart by what they say, *)
(* its JSON a sequence of comparisons, whose fields are those that are     *)
(* there. A marker database is the sequence of its root's children.        *)
(***************************************************************************)
EXTENDS Integers, Sequences, SequencesExt, FiniteSetsExt

CONSTANTS
    MaxComparisons,  \* MAX_COMPARISONS
    MaxMarkers,      \* MAX_MARKER_COUNT
    MaxItems,        \* MAX_ITEMS
    PerMarker,       \* MAX_GEOMETRIES_PER_VIOLATION
    MaxGeometries,   \* MAX_GEOMETRIES_TOTAL
    PerGeometry,     \* MAX_COORDINATES_PER_GEOMETRY
    MaxPairs,        \* MAX_COORDINATES_TOTAL
    MaxVariables     \* MAX_DECK_VARIABLES

Untold == <<>>
Unlike(s) == \A i, j \in DOMAIN s : s[i] = s[j] => i = j
Total(s)  == LET sum[n \in 0 .. Len(s)] == IF n = 0 THEN 0 ELSE sum[n - 1] + s[n] IN sum[Len(s)]
-----------------------------------------------------------------------------
(* The JSON: each comparison names two circuits and counts their devices   *)
(* by class and their nets; it may list pins, and what did not match. A    *)
(* record of nothing but pins is of a placeholder, and equal.              *)
Keys == {"name", "devices", "nets", "pins", "badnets", "badelements", "properties", "goodnets", "goodelements"}
Faults == {"badnets", "badelements", "properties"}
SideFits(side) == /\ \A i \in DOMAIN side : side[i][2] >= 0 /\ side[i][1] # ""
                  /\ Unlike([i \in DOMAIN side |-> side[i][1]])
PinsFit(pins)  == Unlike(pins[1]) /\ Unlike(pins[2])
Listed(c, f)   == IF f \in DOMAIN c THEN c[f] ELSE 0
Auxiliary(c)   == DOMAIN c = {"pins"}
ComparisonFits(c) ==
    /\ DOMAIN c \subseteq Keys
    /\ "pins" \in DOMAIN c => PinsFit(c.pins)
    /\ IF Auxiliary(c) THEN c.pins[1] = c.pins[2]
       ELSE /\ {"name", "devices", "nets", "badnets", "badelements"} \subseteq DOMAIN c
            /\ c.name[1] # "" /\ c.name[2] # "" /\ SideFits(c.devices[1]) /\ SideFits(c.devices[2])
            /\ \A i \in 1 .. 2 : c.nets[i] >= 0
            /\ \A f \in Faults : Listed(c, f) >= 0

Top(c, cell) == ~Auxiliary(c) /\ c.name = <<cell, cell>>
(* Pins count in their order, device classes do not.                       *)
Reasons(c, cell) ==
    IF Auxiliary(c) THEN {}
    ELSE {f \in Faults : Listed(c, f) > 0}
         \cup (IF ToSet(c.devices[1]) # ToSet(c.devices[2]) THEN {"device-counts"} ELSE {})
         \cup (IF c.nets[1] # c.nets[2] THEN {"net-counts"} ELSE {})
         \cup (IF "pins" \in DOMAIN c /\ c.pins[1] # c.pins[2] THEN {"pins"} ELSE {})
         \cup (IF "pins" \notin DOMAIN c /\ Top(c, cell) THEN {"missing-pins"} ELSE {})
DevicesOf(side) == Total([i \in DOMAIN side |-> side[i][2]])
Told(outcome, devices, nets) == [outcome |-> outcome, devices |-> devices, nets |-> nets]
Nothing == Told("unknown", Untold, Untold)
JsonSays(payload, cell) ==
    LET tops == {i \in DOMAIN payload : Top(payload[i], cell)}
        top  == payload[CHOOSE i \in tops : TRUE] IN
    IF Len(payload) \in 1 .. MaxComparisons /\ (\A i \in DOMAIN payload : ComparisonFits(payload[i])) /\ Cardinality(tops) = 1
    THEN Told(IF \A i \in DOMAIN payload : Reasons(payload[i], cell) = {} THEN "pass" ELSE "fail",
              <<DevicesOf(top.devices[1]), DevicesOf(top.devices[2])>>, top.nets)
    ELSE Nothing
-----------------------------------------------------------------------------
(* The report is read line by line. A summary opens a comparison; the      *)
(* first pair of circuits, device count and net count of a section are     *)
(* kept, and the classes that were last found equivalent.                  *)
Empty == [summary |-> Untold, pins |-> Untold, devices |-> Untold, nets |-> Untold, equal |-> FALSE, classes |-> Untold]
Pair(line) == <<line.left, line.right>>
KeepFirst(kept, line) == IF kept = Untold THEN Pair(line) ELSE kept
Keep(c, section, line) ==
    CASE line.is = "pair" /\ section = "summary"    -> [c EXCEPT !.summary = KeepFirst(@, line)]
      [] line.is = "pair" /\ section = "pins"       -> [c EXCEPT !.pins = KeepFirst(@, line)]
      [] line.is = "devices" /\ section = "summary" -> [c EXCEPT !.devices = KeepFirst(@, line)]
      [] line.is = "nets" /\ section = "summary"    -> [c EXCEPT !.nets = KeepFirst(@, line)]
      [] line.is = "equal_pins"                     -> [c EXCEPT !.equal = TRUE]
      [] line.is = "classes"                        -> [c EXCEPT !.classes = Pair(line)]
      [] OTHER                                      -> c
ReadLine(state, line) ==
    CASE line.is = "summary" -> [section |-> "summary", found |-> Append(state.found, Empty)]
      [] line.is = "pins"    -> [state EXCEPT !.section = "pins"]
      [] OTHER -> IF state.found = <<>> THEN state
                  ELSE [state EXCEPT !.found[Len(state.found)] = Keep(@, state.section, line)]
Unread == [section |-> "none", found |-> <<>>]
Comparisons(lines) ==
    LET read[n \in 0 .. Len(lines)] == IF n = 0 THEN Unread ELSE ReadLine(read[n - 1], lines[n])
    IN read[Len(lines)].found

(* Where the report ends. With final results the last one counts, if they  *)
(* agree; a match must be the last word, a full stop aside, and properties *)
(* found wrong after it make it a failure. An older report ends with a     *)
(* plain sentence, which the three lines before must not contradict.       *)
PropertyFailure == {"property_errors", "cells_with_errors"}
Failure  == {"final_failure", "failure", "mismatch"} \cup PropertyFailure
Spoken(lines) == {i \in DOMAIN lines : lines[i].is # "blank"}
After(lines, i)  == {j \in Spoken(lines) : j > i}
Finals(lines) == {i \in Spoken(lines) : lines[i].is \in {"final_match", "final_failure"}}
End(outcome, conflict) == [outcome |-> outcome, conflict |-> conflict]
(* Mutant: what follows a match is not looked at.                          *)
LastWordAnywhere(lines, at) == at \in DOMAIN lines
LastWord(lines, at) == \A j \in After(lines, at) : After(lines, at) = {j} /\ lines[j].is = "stop"
FinalEnd(lines) ==
    LET at       == Max(Finals(lines))
        conflict == \E i \in Finals(lines) : lines[i].is # lines[at].is
    IN CASE lines[at].is = "final_failure" -> End("fail", conflict)
         [] lines[at].is = "final_match" /\ ~conflict /\ (\E i \in After(lines, at) : lines[i].is \in PropertyFailure)
              -> End("fail", FALSE)
         [] OTHER -> End(IF LastWord(lines, at) THEN "pass" ELSE "none", conflict)
Recently(lines, word) == \E i \in Spoken(lines) : Cardinality(After(lines, i)) \in 1 .. 3 /\ lines[i].is = word
OlderEnd(lines) ==
    LET last == lines[Max(Spoken(lines))].is IN
    CASE Spoken(lines) = {} -> End("none", FALSE)
      [] Spoken(lines) # {} /\ (\E i \in Spoken(lines) : lines[i].is \in PropertyFailure) -> End("fail", FALSE)
      [] OTHER -> IF last = "unique" THEN End("pass", Recently(lines, "failure"))
                  ELSE IF last = "failure" THEN End("fail", Recently(lines, "unique")) ELSE End("none", FALSE)
Ending(lines) == IF Finals(lines) # {} THEN FinalEnd(lines) ELSE OlderEnd(lines)

(* What a match has to show for the cell that was asked for; a mismatch    *)
(* its counts only.                                                        *)
Counted(c)     == c.devices # Untold /\ c.nets # Untold
Matches(c)     == /\ Counted(c) /\ c.devices[1] = c.devices[2] /\ c.nets[1] = c.nets[2]
                  /\ c.pins = c.summary /\ c.equal /\ c.classes = c.summary
ReportTells(lines, cell) ==
    LET found == Comparisons(lines)
        tops  == {i \in DOMAIN found : found[i].summary = <<cell, cell>>}
        top   == found[CHOOSE i \in tops : TRUE]
        end   == Ending(lines)
        silent == \A i \in DOMAIN lines : lines[i].is \notin Failure
    IN IF Len(found) > MaxComparisons \/ end.conflict \/ Cardinality(tops) # 1 THEN Nothing
       ELSE CASE end.outcome = "pass" /\ Matches(top) /\ silent -> Told("pass", top.devices, top.nets)
              [] end.outcome = "fail" /\ Counted(top)           -> Told("fail", top.devices, top.nets)
              [] OTHER                                          -> Nothing
ReportSays(report, cell) == IF report.whole THEN ReportTells(report.lines, cell) ELSE Nothing
-----------------------------------------------------------------------------
(* The transcript: both streams complete, the setup read without an error, *)
(* nothing on stderr but the one warning that is known.                    *)
Clean(t) == /\ t.whole /\ {"setup_read", "done"} \subseteq t.out
            /\ {"setup_error", "error"} \cap t.out = {} /\ t.err \subseteq {"permute"}

(* The request: two netlists, a setup and what else is declared. The names *)
(* of the evidence come from the name of the report.                       *)
Evidence(report) == <<report, [report EXCEPT !.suffix = "json"], [report EXCEPT !.log = TRUE]>>
LvsRequestFits(q) ==
    /\ q.cell # "" /\ Unlike([i \in DOMAIN q.inputs |-> q.inputs[i].path])
    /\ \A i \in 1 .. 2 : q.inputs[i].plain
    /\ q.report.suffix # "" /\ Unlike(Evidence(q.report))
    /\ \A i \in DOMAIN q.inputs : q.inputs[i].path \notin ToSet(Evidence(q.report))

Agree(report, json) == /\ report.outcome = json.outcome /\ report.outcome \in {"pass", "fail"}
                       /\ report.devices = json.devices /\ report.nets = json.nets
Lvs(d) ==
    LET report == ReportSays(d.report, d.request.cell)
        json   == JsonSays(d.json, d.request.cell)
    IN CASE ~LvsRequestFits(d.request) -> "refused"
         [] LvsRequestFits(d.request) /\ d.exit = 0 /\ Clean(d.transcript) /\ Agree(report, json) -> report.outcome
         [] OTHER -> "unknown"
(* What is said of a cell: the lines from its summary to the next one.     *)
Opens(lines, i)      == i \in DOMAIN lines /\ lines[i].is = "summary"
BlockAt(lines, i)    == {j \in i .. Len(lines) : \A k \in i + 1 .. j : ~Opens(lines, k)}
SummaryAt(lines, i)  == {j \in BlockAt(lines, i) : \A k \in i .. j : lines[k].is # "pins"}
Says(lines, S, what) == {j \in S : lines[j].is = what}
FirstSays(lines, S, what, sides) ==
    Says(lines, S, what) # {} /\ Pair(lines[Min(Says(lines, S, what))]) = sides
LastSays(lines, S, what, sides) ==
    Says(lines, S, what) # {} /\ Pair(lines[Max(Says(lines, S, what))]) = sides
IsOf(lines, i, cell) == FirstSays(lines, SummaryAt(lines, i), "pair", <<cell, cell>>)
TellsOf(lines, i, cell, told) ==
    /\ IsOf(lines, i, cell)
    /\ FirstSays(lines, SummaryAt(lines, i), "devices", told.devices)
    /\ FirstSays(lines, SummaryAt(lines, i), "nets", told.nets)
Completes(lines, i, cell) ==
    /\ FirstSays(lines, BlockAt(lines, i) \ SummaryAt(lines, i), "pair", <<cell, cell>>)
    /\ Says(lines, BlockAt(lines, i), "equal_pins") # {}
    /\ LastSays(lines, BlockAt(lines, i), "classes", <<cell, cell>>)
Differs(c) == \/ "nets" \in DOMAIN c /\ c.nets[1] # c.nets[2]
              \/ "devices" \in DOMAIN c /\ ToSet(c.devices[1]) # ToSet(c.devices[2])
              \/ "pins" \in DOMAIN c /\ c.pins[1] # c.pins[2]
              \/ \E f \in Faults : Listed(c, f) > 0

(* A match is found only if both files say so of the cell, once, in full,  *)
(* nothing in them says otherwise of any cell, and the report ends with it;*)
(* what is called a mismatch is stated in both. The same report cut short  *)
(* tells the same or nothing (NetgenDriver.lvs).                           *)
Cut(d, n) == [d EXCEPT !.report.lines = SubSeq(@, 1, n)]
LvsIsStated(d) ==
    LET verdict == Lvs(d)
        lines   == d.report.lines
        cell    == d.request.cell
    IN /\ verdict \in {"pass", "fail"} =>
             /\ d.exit = 0 /\ "setup_read" \in d.transcript.out /\ d.transcript.err \subseteq {"permute"}
             /\ \E i \in DOMAIN d.json : ~Auxiliary(d.json[i]) /\ d.json[i].name = <<cell, cell>>
             /\ d.report.whole /\ \A i, j \in Finals(lines) : lines[i].is = lines[j].is
             /\ \E i \in DOMAIN lines :
                    /\ Opens(lines, i) /\ TellsOf(lines, i, cell, JsonSays(d.json, cell))
                    /\ verdict = "pass" => Completes(lines, i, cell)
                    /\ \A j \in DOMAIN lines : Opens(lines, j) /\ j # i => ~IsOf(lines, j, cell)
             /\ \A n \in DOMAIN lines : Lvs(Cut(d, n)) \in {verdict, "unknown"}
       /\ verdict = "pass" =>
             /\ \A i \in DOMAIN d.json : ~Differs(d.json[i])
             /\ \A i \in DOMAIN lines : lines[i].is \notin Failure
             /\ \E i \in DOMAIN lines : /\ lines[i].is \in {"final_match", "unique"}
                                         /\ \A j \in After(lines, i) : lines[j].is = "stop"
       /\ verdict = "fail" =>
             /\ \E i \in DOMAIN d.json : Differs(d.json[i]) \/ "pins" \notin DOMAIN d.json[i]
             /\ \E i \in DOMAIN lines : lines[i].is \in Failure \ {"mismatch"}
-----------------------------------------------------------------------------
(* The marker database, in the order of its text. A category is declared   *)
(* with the names that lead to it, a cell with its variant; an item counts *)
(* only if both were declared before it.                                   *)
Sections(r, kind) == {i \in DOMAIN r.root : r.root[i].is = kind}
Once(r, kind)     == Cardinality(Sections(r, kind)) = 1
The(r, kind)      == r.root[CHOOSE i \in Sections(r, kind) : TRUE]
Precedes(r, kind) == \A i \in Sections(r, kind), j \in Sections(r, "items") : i < j
Identity(cell) == IF cell.variant = "" THEN cell.name ELSE cell.name \o ":" \o cell.variant
Paths(declared) == {declared[i].path : i \in DOMAIN declared}
Meanings(declared, path) == {declared[i].text : i \in {j \in DOMAIN declared : declared[j].path = path}}
CategoryFits(c) == c.path # <<>> /\ "" \notin ToSet(c.path)
CellsFit(cells) == /\ \A i \in DOMAIN cells : cells[i].name = "" => cells[i].variant = ""
                   /\ Unlike([i \in DOMAIN cells |-> Identity(cells[i])])
ItemFits(item, categories, cells) ==
    /\ Len(item.category) = 1 /\ Len(item.cell) = 1 /\ Len(item.tags) = 1 /\ Len(item.count) = 1
    /\ item.count[1] \in 1 .. MaxMarkers /\ Unlike(item.tags[1])
    /\ Cardinality(Meanings(categories, item.category[1])) = 1
    /\ item.cell[1] \in {Identity(cells[i]) : i \in DOMAIN cells}

Items(r)        == The(r, "items").holds
Counts(items)   == [i \in DOMAIN items |-> items[i].count[1]]
Waives(items)   == [i \in DOMAIN items |-> IF "waived" \in ToSet(items[i].tags[1]) THEN items[i].count[1] ELSE 0]
CountsOf(items, path) == [i \in DOMAIN items |-> IF items[i].category[1] = path THEN items[i].count[1] ELSE 0]
Markers(items)  == Total(Counts(items))

ItemsFit(r) ==
    /\ Items(r) # <<>> => Precedes(r, "categories") /\ Precedes(r, "cells")
    /\ \A i \in DOMAIN Items(r) : ItemFits(Items(r)[i], The(r, "categories").holds, The(r, "cells").holds)
    /\ Len(Items(r)) <= MaxItems /\ Markers(Items(r)) <= MaxMarkers
DatabaseFits(r, deck, cell) ==
    /\ r.closed /\ \A kind \in {"generator", "top-cell", "categories", "cells", "items"} : Once(r, kind)
    /\ \A i \in DOMAIN The(r, "categories").holds : CategoryFits(The(r, "categories").holds[i])
    /\ CellsFit(The(r, "cells").holds) /\ ItemsFit(r)
    /\ The(r, "categories").holds # <<>>
    /\ The(r, "top-cell").says # ""
    /\ \E i \in DOMAIN The(r, "cells").holds : The(r, "cells").holds[i].name = The(r, "top-cell").says
    /\ The(r, "generator").says = deck
    /\ cell # "" => The(r, "top-cell").says = cell

(* The examples that a result carries: of each marker the first shapes, of *)
(* those the first corners, all within one budget.                         *)
Cost(shape, room) == CASE shape.kind = "box"  -> 2
                       [] shape.kind = "text" -> 0
                       [] OTHER               -> Min({shape.corners, room})
Draw(g, shape) ==
    IF shape.kind = "blank" \/ g.mine >= PerMarker \/ g.kept >= MaxGeometries \/ g.pairs >= MaxPairs THEN g
    ELSE [mine |-> g.mine + 1, kept |-> g.kept + 1, pairs |-> g.pairs + Cost(shape, Min({PerGeometry, MaxPairs - g.pairs}))]
DrawItem(g, item) ==
    LET drawn[k \in 0 .. Len(item.shapes)] ==
          IF k = 0 THEN [g EXCEPT !.mine = 0] ELSE Draw(drawn[k - 1], item.shapes[k])
    IN drawn[Len(item.shapes)]
Undrawn == [mine |-> 0, kept |-> 0, pairs |-> 0]
Drawn(items) ==
    LET drawn[n \in 0 .. Len(items)] == IF n = 0 THEN Undrawn ELSE DrawItem(drawn[n - 1], items[n])
    IN drawn[Len(items)]
MineOf(items, i) == Drawn(SubSeq(items, 1, i)).mine
-----------------------------------------------------------------------------
(* The request: the names of the deck's variables, which are bound once,   *)
(* and paths that are distinct. The tool reads waivers from a file whose   *)
(* name it makes from the report's: it is declared, or it is not there.    *)
Reserved(q) == {"input", "topcell", "report", q.variable}
Waivers(q)  == q.report \o ".w"
DeclaredInputs(q) == <<q.gds, q.deck>> \o q.provenance
DrcRequestFits(q) ==
    /\ Unlike(DeclaredInputs(q)) /\ q.variable \notin {"", "input", "topcell"}
    /\ q.script => q.variable = "report"
    /\ Len(q.variables) <= MaxVariables /\ Unlike([i \in DOMAIN q.variables |-> q.variables[i]])
    /\ ToSet(q.variables) \cap (Reserved(q) \cup {""}) = {}
    /\ {q.report, Waivers(q)} \cap ToSet(DeclaredInputs(q)) = {}
    /\ q.waiver \in {"", Waivers(q)} /\ (q.waiver # "" <=> q.found = "waivers")
(* What the command binds, in its order.                                   *)
Bound(q) == <<"input">> \o (IF q.script THEN <<>> ELSE <<q.variable>>)
            \o (IF q.top = "" THEN <<>> ELSE <<"topcell">>) \o q.variables

Drc(d) ==
    CASE ~DrcRequestFits(d.request) -> "refused"
      [] /\ DrcRequestFits(d.request) /\ d.exit = 0 /\ d.waivers = d.request.found
         /\ DatabaseFits(d.report, d.request.deck, d.request.top)
           -> IF Markers(Items(d.report)) = 0 THEN "pass" ELSE "fail"
      [] OTHER -> "unknown"

(* Clean means that a check ran, of this deck over this cell, and that     *)
(* there is no marker, not even a waived one, nor any that was not         *)
(* understood; otherwise each marker is counted once, in a category and a  *)
(* cell of one meaning. The waivers are those declared, and each variable  *)
(* of the deck is bound once (KLayoutDriver.drc).                          *)
DrcIsStated(d) ==
    LET verdict    == Drc(d)
        items      == Items(d.report)
        categories == The(d.report, "categories").holds
        cells      == The(d.report, "cells").holds
    IN /\ verdict # "refused" =>
             /\ Unlike(Bound(d.request)) /\ {"input"} \cup ToSet(d.request.variables) \subseteq ToSet(Bound(d.request))
             /\ d.request.report \notin {d.request.gds, d.request.deck}
       /\ verdict \in {"pass", "fail"} =>
             /\ d.waivers = (IF d.request.waiver = "" THEN "nothing" ELSE "waivers") /\ Paths(categories) # {}
             /\ \A i \in DOMAIN d.report.root : d.report.root[i].is = "generator" => d.report.root[i].says = d.request.deck
             /\ d.request.top \in {"", The(d.report, "top-cell").says}
             /\ \A i \in DOMAIN items :
                    /\ items[i].count[1] > 0 /\ Cardinality(Meanings(categories, items[i].category[1])) = 1
                    /\ Cardinality({c \in DOMAIN cells : Identity(cells[c]) = items[i].cell[1]}) = 1
             /\ (verdict = "pass") = (items = <<>>)
             /\ Total(Waives(items)) <= Markers(items) /\ \A i \in DOMAIN items : items[i].count[1] <= Markers(items)
             /\ Drawn(items).pairs <= MaxPairs + 1 /\ Drawn(items).kept <= MaxGeometries
             /\ \A i \in DOMAIN items : MineOf(items, i) <= PerMarker
=============================================================================
