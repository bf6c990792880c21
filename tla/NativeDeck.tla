----------------------------- MODULE NativeDeck -----------------------------
(***************************************************************************)
(* The compiled realisations of a block, and the decks that may use them:  *)
(* a Verilog-A source compiled to an OSDI module with a generated wrapper, *)
(* a digital core compiled to a co-simulation object behind its published  *)
(* wrapper; and what a caller's deck is refused for, given the composition.*)
(*                                                                         *)
(* A host also has the tools of its machine, the deck, what is asked to be *)
(* compiled, and the compiled files at launch. A line of a deck may also be*)
(* a note, which begins with an inline comment's mark; a word that opens   *)
(* such a comment is a remark. A setting that lacks its value is open.     *)
(***************************************************************************)
EXTENDS BlockLibrary

Lowered(names) == [i \in DOMAIN names |-> Fold(names[i])]
Plain(name)    == Fold(name) = name
-----------------------------------------------------------------------------
(* A core is built only by tools of one installation, under the name that  *)
(* the contract promises, and if the ports come out in the declared order. *)
ShimFits(tools) == tools.simulator = "whole" /\ tools.shim = "whole"
Named(header, direction) ==
    LET some == SelectSeq(header, LAMBDA p : p.direction = direction) IN [i \in DOMAIN some |-> some[i].name]
PortsParse(header) ==
    /\ \A i \in DOMAIN header : header[i].direction # "inout" /\ header[i].bits = 1 /\ Plain(header[i].name)
    /\ Named(header, "in") # <<>> /\ Named(header, "out") # <<>>
PortsFit(names) == names # <<>> /\ Differ(names) /\ \A i \in DOMAIN names : Plain(names[i])
CoreCompiles(tools, core, source, inputs, outputs) ==
    /\ PortsFit(inputs) /\ PortsFit(outputs)
    /\ tools.verilator /\ ShimFits(tools)
    /\ source.top = core /\ PortsParse(source.header)
    /\ Named(source.header, "in") = inputs /\ Named(source.header, "out") = outputs

(* What the composition adds to the wrapper: the card that binds its model *)
(* to the object.                                                          *)
BindingCard(id, object) == [head |-> "model", words |-> <<[is |-> "word", name |-> Binding(id)],
                                                          [is |-> "word", name |-> <<"d_cosim">>],
                                                          [is |-> "setting", name |-> <<"simulation">>, value |-> object]>>]
ComposeCosim(host) ==
    LET root == Root(host)
        id   == host.cores[1]
        b    == Contract(root, id).cosim
        core == Content(root, PathOf(id, b.coreFile))
        text == Statements(Content(root, PathOf(id, b.file)).lines)
    IN CASE ~Loads(host) \/ Len(host.cores) # 1 -> Refused
         [] id \notin Ids(root) -> Refused
         [] Contract(root, id).depends # {} \/ ~Has(Contract(root, id), "cosim") -> Refused
         [] ~CoreCompiles(host.tools, b.core, core, b.inputs, b.outputs) -> Refused
         [] Binding(id) \in Defined(text, "subckt") \cup Defined(text, "model") -> Refused
         [] OTHER -> [status |-> "composed", wrappers |-> <<b.wrapper>>, binding |-> Binding(id), object |-> core,
                      constraints |-> <<b.constraints>>, contracts |-> <<Contract(root, id)>>,
                      text |-> Append(text, BindingCard(id, core))]
-----------------------------------------------------------------------------
(* A deck's statements: comments are cut from each line before the lines   *)
(* are joined. The count of instances joins the lines as they are.         *)
Cut(words) ==
    LET remarks == {i \in DOMAIN words : words[i].is = "remark"}
    IN IF remarks = {} THEN words ELSE SubSeq(words, 1, Min(remarks) - 1)
Stitch(lines) ==
    FoldLeft(LAMBDA done, l :
               CASE l.mark = "star" -> done
                 [] l.mark = "plus" /\ done # <<>> -> [done EXCEPT ![Len(done)].words = @ \o l.words]
                 [] OTHER -> Append(done, [head |-> IF l.mark = "card" THEN l.head ELSE l.mark, words |-> l.words]),
             <<>>, lines)
Folded(deck) ==
    LET lines == SelectSeq(deck, LAMBDA l : l.mark # "note") IN
    Stitch([i \in DOMAIN lines |-> [lines[i] EXCEPT !.words = Cut(@)]])

(* The words of an instance's card, joined around "=".                     *)
Joined(words) ==
    FoldLeft(LAMBDA done, w :
               IF done = <<>> THEN <<w>>
               ELSE LET last == done[Len(done)] IN
                    CASE w.is = "equals" /\ last.is = "word" ->
                           [done EXCEPT ![Len(done)] = [is |-> "setting", name |-> last.name, value |-> Nothing]]
                      [] last.is = "setting" /\ last.value = Nothing ->
                           [done EXCEPT ![Len(done)].value = IF w.is = "number" THEN w.value ELSE Formula]
                      [] OTHER -> Append(done, w),
             <<>>, words)
CalledBy(st) ==
    LET words == Joined(st.words)
        stops == {i \in DOMAIN words : words[i].is \in {"params", "setting"}}
        at    == IF stops = {} THEN Len(words) ELSE Min(stops) - 1
    IN IF at > 0 /\ words[at].is = "word" THEN Fold(words[at].name) ELSE <<>>
Overrides(st) == SelectSeq(Joined(st.words), LAMBDA w : w.is = "setting" /\ w.value # Nothing)
LastWord(st)  == Word(st, Len(st.words))

(* Exactly one instance, and that outside every subcircuit of the deck.    *)
DepthsOf(ss) ==
    FoldLeft(LAMBDA d, st : Append(d, CASE st.head = "subckt" -> Last(d) + 1
                                        [] st.head = "ends"   -> Max({0, Last(d) - 1})
                                        [] OTHER              -> Last(d)), <<0>>, ss)
References(st, wrappers, bindings) ==
    \/ st.head = "x" /\ CalledBy(st) \in wrappers
    \/ st.head = "a" /\ LastWord(st) \in bindings
SingleInstance(deck, wrappers, bindings) ==
    LET ss    == Stitch(deck)
        found == {i \in DOMAIN ss : References(ss[i], wrappers, bindings)}
    IN Cardinality(found) = 1 /\ \A i \in found : DepthsOf(ss)[i] = 0

(* What every instance is given satisfies what the realisation requires; if*)
(* there is none, the defaults do.                                         *)
DefaultsOf(c) == [n \in {p.name : p \in ToSet(c.parameters)} |-> (CHOOSE p \in ToSet(c.parameters) : p.name = n).default]
Instances(deck, wrapper) == SelectSeq(Folded(deck), LAMBDA st : st.head = "x" /\ CalledBy(st) = wrapper)
Effective(st, defaults) ==
    FoldLeft(LAMBDA given, w : [n \in DOMAIN given \cup {Fold(w.name)} |-> IF n = Fold(w.name) THEN w.value ELSE given[n]],
             defaults, Overrides(st))
Literal(st) == \A i \in DOMAIN Overrides(st) : Overrides(st)[i].value # Formula
ConstraintHolds(k, given) ==
    /\ {k.left} \cup DOMAIN k.terms \subseteq DOMAIN given
    /\ LET right == k.constant + FoldLeft(LAMBDA sum, n : sum + k.terms[n] * given[n], 0, SetToSeq(DOMAIN k.terms))
       IN IF k.relation = ">" THEN given[k.left] > right ELSE given[k.left] >= right
(* Mutant: the overrides of all instances are laid over each other.        *)
ParametersFitTogether(deck, wrapper, constraints, defaults) ==
    LET cards == Instances(deck, wrapper) IN
    constraints # <<>> =>
      /\ \A i \in DOMAIN cards : Literal(cards[i])
      /\ \A k \in ToSet(constraints) :
            ConstraintHolds(k, FoldLeft(LAMBDA given, st : Effective(st, given), defaults, cards))
ParametersFit(deck, wrapper, constraints, defaults) ==
    LET cards == Instances(deck, wrapper) IN
    constraints # <<>> =>
      /\ \A i \in DOMAIN cards : Literal(cards[i])
      /\ \A k \in ToSet(constraints) :
            /\ \A i \in DOMAIN cards : ConstraintHolds(k, Effective(cards[i], defaults))
            /\ cards = <<>> => ConstraintHolds(k, defaults)
AllParametersFit(deck, made) ==
    \A i \in DOMAIN made.wrappers :
        ParametersFit(deck, made.wrappers[i], made.constraints[i], DefaultsOf(made.contracts[i]))

(* Before the launch the object still has the bytes that were compiled.    *)
CosimRuns(host, made) ==
    /\ SingleInstance(host.deck, ToSet(made.wrappers), {made.binding})
    /\ AllParametersFit(host.deck, made)
    /\ host.objects = "compiled"
-----------------------------------------------------------------------------
(* A Verilog-A source is a sequence of code, events, line ends and the     *)
(* marks of comments. Line comments are taken out, then block comments; an *)
(* event that is left refuses the source.                                  *)
WithoutLines(marks) ==
    FoldLeft(LAMBDA s, m : CASE m = "newline" -> [text |-> Append(s.text, m), out |-> FALSE]
                             [] s.out \/ m = "slashes" -> [s EXCEPT !.out = TRUE]
                             [] OTHER -> [s EXCEPT !.text = Append(@, m)],
             [text |-> <<>>, out |-> FALSE], marks).text
Hidden(marks, i) ==
    \E a, b \in DOMAIN marks : /\ a < i /\ i < b /\ marks[a] = "open" /\ marks[b] = "close"
                               /\ \A j \in a .. b - 1 : marks[j] # "close"
EventFree(marks) == LET left == WithoutLines(marks) IN \A i \in DOMAIN left : left[i] = "event" => Hidden(left, i)
VerilogCompiles(tools, source) == EventFree(source.marks) /\ tools.openvaf

(* The prelude: every module preloaded, then for each a wrapper of the     *)
(* contract's interface that hands its parameters on to the model.         *)
AliasOf(module) == Append(module, "osdi")
NameWord(name) == [is |-> "word", name |-> name]
CardOf(head, words) == [mark |-> "card", head |-> head, words |-> words]
WrapperLines(module, c) ==
    LET ports == [i \in DOMAIN c.ports |-> NameWord(c.ports[i].name)]
        settings(value(_)) == [i \in DOMAIN c.parameters |->
                                 [is |-> "setting", name |-> c.parameters[i].name, value |-> value(c.parameters[i])]]
    IN <<CardOf("subckt", <<NameWord(module)>> \o ports \o settings(LAMBDA p : p.default)),
         CardOf("model", <<NameWord(AliasOf(module)), NameWord(module)>> \o settings(LAMBDA p : Formula)),
         CardOf("n", ports \o <<NameWord(AliasOf(module))>>),
         CardOf("ends", <<NameWord(module)>>)>>
InterfaceFits(c) == Len(c.ports) > 0 /\ Differ(Lowered([i \in DOMAIN c.ports |-> c.ports[i].name]))
PreludeLines(ids, root) ==
    LET module(id) == Contract(root, id).veriloga.module IN
    <<CardOf("control", <<>>)>>
    \o [i \in DOMAIN ids |-> CardOf("pre_osdi", <<NameWord(module(ids[i]))>>)]
    \o <<CardOf("endc", <<>>)>>
    \o FlattenSeq([i \in DOMAIN ids |-> WrapperLines(module(ids[i]), Contract(root, ids[i]))])
ComposeOsdi(host) ==
    LET root == Root(host)
        ids  == host.modules
        c(i) == Contract(root, ids[i])
    IN CASE ~Loads(host) \/ ids = <<>> \/ ~Differ(ids) -> Refused
         [] \E i \in DOMAIN ids : ids[i] \notin Ids(root) -> Refused
         [] \E i \in DOMAIN ids : ~Has(c(i), "veriloga") -> Refused
         [] \E i \in DOMAIN ids : ~VerilogCompiles(host.tools, Content(root, PathOf(ids[i], c(i).veriloga.file)))
                                  \/ ~InterfaceFits(c(i)) -> Refused
         [] OTHER -> [status |-> "composed", wrappers |-> [i \in DOMAIN ids |-> c(i).veriloga.module],
                      constraints |-> [i \in DOMAIN ids |-> c(i).veriloga.constraints],
                      contracts |-> [i \in DOMAIN ids |-> c(i)], lines |-> PreludeLines(ids, root)]

(* The one text that may bring a control section: nothing but loads of     *)
(* modules that have the reviewed bytes, and below it wrappers only.       *)
PreloadFits(lines, objects, reviewed) ==
    LET ls   == SelectSeq(lines, LAMBDA l : l.mark # "star")
        ends == {i \in DOMAIN ls : ls[i].head = "endc"}
    IN /\ ls # <<>> /\ ls[1].mark = "card" /\ ls[1].head = "control" /\ ends # {}
       /\ Min(ends) > 2
       /\ \A i \in 2 .. Min(ends) - 1 :
             /\ ls[i].mark = "card" /\ ls[i].head = "pre_osdi" /\ Len(ls[i].words) = 1
             /\ ls[i].words[1].name \in reviewed
       /\ \A i \in Min(ends) + 1 .. Len(ls) : ls[i].mark = "card" /\ ls[i].head \in {"subckt", "model", "ends", "n"}
       /\ objects = "compiled"

(* A caller's deck uses the modules through their wrappers only.           *)
Through(deck, modules) ==
    \A i \in DOMAIN Folded(deck) :
        LET st == Folded(deck)[i]
            names == {Fold(w.name) : w \in {w \in ToSet(st.words) : w.is = "word"}}
        IN /\ st.head = "model" => Word(st, 2) \notin modules
           /\ st.head = "n" => names \cap (modules \cup {AliasOf(m) : m \in modules}) = {}
OsdiRuns(host, made) ==
    /\ PreloadFits(made.lines, host.objects, ToSet(made.wrappers))
    /\ Through(host.deck, ToSet(made.wrappers))
    /\ AllParametersFit(host.deck, made)
=============================================================================
