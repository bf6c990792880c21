--------------------------- MODULE MCBlockLibrary ---------------------------
(* A library of four blocks installed twice, a deck that uses one of them  *)
(* compiled, and what may change in them.                                  *)
EXTENDS NativeDeck

Leaf == <<"leaf">>
Amp  == <<"amp">>
Amp2 == <<"amp", "2">>
Cmp  == <<"cmp">>

N(name)       == [is |-> "word", name |-> name]
N1(part)      == N(<<part>>)
Num(v)        == [is |-> "number", value |-> v]
Number        == Num(1)
Remark        == [is |-> "remark"]
P(name, v)    == [is |-> "setting", name |-> <<name>>, value |-> v]
Equals        == [is |-> "equals"]
Params        == [is |-> "params"]
Card(h, ws)   == [mark |-> "card", head |-> h, words |-> ws]
Plus(ws)      == [mark |-> "plus", head |-> "", words |-> ws]
Line(mark)    == [mark |-> mark, head |-> "", words |-> <<>>]
Port(n, i)    == [name |-> <<n>>, ordinal |-> i, reference |-> <<>>]
Param(n, v)   == [name |-> <<n>>, type |-> "real", default |-> v, minimum |-> 0, maximum |-> 9, exclusive |-> FALSE]
Ports         == <<Port("in", 0), [Port("out", 1) EXCEPT !.reference = <<"in">>]>>
Contracted(id, depends, parameters) ==
    [what |-> "contract", id |-> id, abi |-> "v1", depends |-> depends, ports |-> Ports, parameters |-> parameters]
Native(id, families) == [wrapper |-> Wrapper(id, "v1"), file |-> <<"sub">>, families |-> families]
LeafLines ==
    <<Card("subckt", <<N(Wrapper(Leaf, "v1")), N1("in"), N1("out"), P("gain", 1), P("en", 1)>>),
      Card("s", <<N1("in"), N1("out"), N1("in"), Number, N(<<"bhv", "leaf", "sw">>)>>),
      Card("ends", <<N(Wrapper(Leaf, "v1"))>>),
      Card("model", <<N(<<"bhv", "leaf", "sw">>), N1("sw")>>)>>
AmpLines ==
    <<Line("star"),
      Card("subckt", <<N(Wrapper(Amp, "v1")), N1("in")>>), Plus(<<N1("out"), P("gain", 1)>>),
      Card("x", <<N1("in"), N1("n"), N(Wrapper(Leaf, "v1")), P("gain", 2)>>),
      Card("x", <<N1("n"), N1("out"), N(<<"bhv", "amp", "half">>)>>),
      Card("d", <<N1("out"), Number, N(<<"bhv", "amp", "d">>)>>),
      Card("ends", <<>>),
      Card("subckt", <<N(<<"bhv", "amp", "half">>), N1("a"), N1("b")>>),
      Card("r", <<N1("a"), N1("b"), Number>>),
      Card("ends", <<N(<<"bhv", "amp", "half">>)>>),
      Card("model", <<N(<<"bhv", "amp", "d">>), N1("d")>>)>>
Amp2Lines ==
    <<Card("subckt", <<N(Wrapper(Amp2, "v1")), N1("in"), N1("out")>>),
      Card("a", <<N1("in"), N1("out"), N(<<"bhv", "amp", "2", "gain">>)>>),
      Card("ends", <<>>),
      Card("model", <<N(<<"bhv", "amp", "2", "gain">>), N1("gain")>>)>>
CmpLines ==
    <<Card("subckt", <<N(Wrapper(Cmp, "v1")), N1("in"), N1("out"), P("td", 4), P("tedge", 2)>>),
      Card("a", <<N1("in"), N1("out"), N(Binding(Cmp))>>),
      Card("ends", <<>>)>>
Headroom        == [left |-> <<"td">>, relation |-> ">", terms |-> <<"tedge">> :> 1, constant |-> 1]
BaseMarks       == <<"code", "slashes", "code", "newline", "open", "event", "close", "code", "newline">>
Pin(d, n)       == [direction |-> d, bits |-> 1, name |-> <<n>>]
BaseDeck ==
    <<Line("star"), Card("v", <<N1("clk"), Number>>),
      Card("x", <<N1("in"), N1("out"), N(Wrapper(Cmp, "v1")), P("td", 5)>>),
      Card("subckt", <<N1("dut"), N1("a")>>), Card("r", <<N1("a"), N1("b"), Number>>), Card("ends", <<>>),
      Card("x", <<N1("in"), N1("dut")>>)>>
Source(lines) == [what |-> "source", lines |-> lines]
ContractPath(id) == PathOf(id, <<"json">>)
SubPath(id)      == PathOf(id, <<"sub">>)
File(path, role, content) == [path |-> path, role |-> role, content |-> content]
BaseFiles ==
    <<File(ContractPath(Leaf), "contract", Contracted(Leaf, {}, <<Param("gain", 1), [Param("en", 1) EXCEPT !.type = "boolean"]>>)
                                           @@ [native |-> Native(Leaf, {"switch"})]),
      File(SubPath(Leaf), "ngspice-native", Source(LeafLines)),
      File(ContractPath(Amp), "contract", Contracted(Amp, {Leaf}, <<Param("gain", 1)>>)
                                          @@ [native |-> Native(Amp, {"spice-primitive", "diode"})]),
      File(SubPath(Amp), "ngspice-native", Source(AmpLines)),
      File(ContractPath(Amp2), "contract", Contracted(Amp2, {}, <<>>) @@ [native |-> Native(Amp2, {"xspice-analog"})]),
      File(SubPath(Amp2), "ngspice-native", Source(Amp2Lines)),
      File(ContractPath(Cmp), "contract", Contracted(Cmp, {}, <<Param("td", 4), Param("tedge", 2)>>)
                                          @@ [veriloga |-> [module |-> Wrapper(Cmp, "v1"), file |-> <<"va">>, constraints |-> <<Headroom>>],
                                              cosim |-> Native(Cmp, {"xspice-bridge"})
                                                        @@ [core |-> Append(Wrapper(Cmp, "v1"), "core"), coreFile |-> <<"v">>,
                                                            inputs |-> <<<<"clk">>, <<"din">>>>, outputs |-> <<<<"q">>>>,
                                                            constraints |-> <<Headroom>>]]),
      File(SubPath(Cmp), "xspice-cosim", Source(CmpLines)),
      File(PathOf(Cmp, <<"va">>), "verilog-a", [what |-> "verilog", marks |-> BaseMarks]),
      File(PathOf(Cmp, <<"v">>), "verilog-cosim-core",
           [what |-> "verilog", top |-> Append(Wrapper(Cmp, "v1"), "core"),
            header |-> <<Pin("in", "clk"), Pin("out", "q"), Pin("in", "din")>>])>>
BaseRoot ==
    [name |-> "core", linked |-> FALSE,
     manifest |-> [id |-> "core", version |-> 1, files |-> BaseFiles,
                   blocks |-> [i \in 1 .. 4 |-> LET id == <<Leaf, Amp, Amp2, Cmp>>[i] IN [id |-> id, contract |-> ContractPath(id)]]],
     disk |-> [p \in {f.path : f \in ToSet(BaseFiles)} |->
                  [kind |-> "file", content |-> (CHOOSE f \in ToSet(BaseFiles) : f.path = p).content]]]
BaseLibrary == [asked |-> "core", roots |-> <<BaseRoot, BaseRoot>>, selection |-> {Amp, Amp2},
                cores |-> <<Cmp>>, modules |-> <<Cmp>>, deck |-> BaseDeck, objects |-> "compiled", slip |-> <<>>,
                tools |-> [verilator |-> TRUE, simulator |-> "whole", shim |-> "whole", openvaf |-> TRUE]]
-----------------------------------------------------------------------------
(* What an author changes is installed everywhere under a new manifest; a  *)
(* tampered file is not.                                                   *)
FileAt(path) == CHOOSE i \in DOMAIN BaseFiles : BaseFiles[i].path = path
Authored(l, path, content) ==
    [l EXCEPT !.roots = [r \in DOMAIN @ |->
        [@[r] EXCEPT !.disk = (path :> [kind |-> "file", content |-> content]) @@ @,
                     !.manifest.files[FileAt(path)].content = content]]]
Now(l, path)       == l.roots[1].manifest.files[FileAt(path)].content
Rewrite(l, id, at, line) == LET s == Now(l, SubPath(id)) IN Authored(l, SubPath(id), [s EXCEPT !.lines[at] = line])
Insert(l, id, at, line)  == LET s == Now(l, SubPath(id)) IN Authored(l, SubPath(id), [s EXCEPT !.lines = InsertAt(@, at, line)])
Manifested(l, b)   == [l EXCEPT !.roots = [r \in DOMAIN @ |-> [@[r] EXCEPT !.manifest = b]]]
First(l)           == l.roots[1].manifest
DeckEdits == {"second x", "second a", "remarked x", "noted x", "split x", "folded a", "nested x", "nested twice", "no x", "td low", "td formula",
              "td spaced", "td open", "td params", "td again", "TD low", "default low", "unbound left", "no constraint", "own model", "remarked model",
              "own n", "alias n", "rotated", "wide", "inout", "other top", "no verilator", "headerless", "half shim", "changed",
              "cores twice", "core of amp", "core gone", "event", "event hidden", "event after", "slashes inside", "no openvaf", "modules twice",
              "module of amp", "shell", "late load", "second control", "unreviewed", "bare n"}
CmpX(words)     == Card("x", <<N1("in"), N1("out"), N(Wrapper(Cmp, "v1"))>> \o words)
WithLines(l, ls) == [l EXCEPT !.deck = @ \o ls]
Using(l, words) == [l EXCEPT !.deck[3] = CmpX(words)]
EditDeck(e, l) ==
    LET cmp  == Now(l, ContractPath(Cmp))
        terms(c) == Authored(l, ContractPath(Cmp), c)
        va(marks) == Authored(l, PathOf(Cmp, <<"va">>), [what |-> "verilog", marks |-> marks])
        core == Now(l, PathOf(Cmp, <<"v">>))
        built(c) == Authored(l, PathOf(Cmp, <<"v">>), c)
    IN CASE e = "second x"     -> WithLines(l, <<CmpX(<<>>)>>)
         [] e = "second a"     -> WithLines(l, <<Card("a", <<N1("in"), N(Binding(Cmp))>>)>>)
         [] e = "remarked x"   -> WithLines(l, <<CmpX(<<Remark, N1("again")>>)>>)
         [] e = "noted x"      -> WithLines(l, <<Card("x", <<N1("in"), N1("out")>>), [Line("note") EXCEPT !.words = <<N1("again")>>],
                                                 Plus(<<N(Wrapper(Cmp, "v1"))>>)>>)
         [] e = "split x"      -> WithLines(l, <<Card("x", <<N1("in"), N1("dut")>>), Line("star"), Plus(<<N(Wrapper(Cmp, "v1"))>>)>>)
         [] e = "folded a"     -> WithLines(l, <<Card("a", <<N1("in")>>), Plus(<<N(<<"BHV", "cmp", "cosim">>)>>)>>)
         [] e = "nested x"     -> [l EXCEPT !.deck[5] = CmpX(<<>>)]
         [] e = "nested twice" -> WithLines([l EXCEPT !.deck[5] = CmpX(<<>>), !.deck[3] = Line("star")], <<Card("x", <<N1("in"), N1("dut")>>)>>)
         [] e = "no x"         -> [l EXCEPT !.deck[3] = Line("star")]
         [] e = "td low"       -> Using(l, <<P("td", 3)>>)
         [] e = "td formula"   -> Using(l, <<P("td", Formula)>>)
         [] e = "td spaced"    -> Using(l, <<N1("td"), Equals, Num(3)>>)
         [] e = "td open"      -> Using(l, <<P("td", Nothing), Num(3)>>)
         [] e = "td params"    -> Using(l, <<Params, P("tedge", 3), N1("td"), Equals, Num(4)>>)
         [] e = "td again"     -> Using(l, <<P("td", 3), P("td", 5)>>)
         [] e = "TD low"       -> Using(l, <<P("TD", 3)>>)
         [] e = "default low"  -> Authored(terms([cmp EXCEPT !.parameters[1].default = 3]), SubPath(Cmp),
                                           [Now(l, SubPath(Cmp)) EXCEPT !.lines[1].words[4].value = 3])
         [] e = "unbound left" -> terms([cmp EXCEPT !.cosim.constraints[1].left = <<"ts">>])
         [] e = "no constraint" -> terms([cmp EXCEPT !.veriloga.constraints = <<>>])
         [] e = "own model"    -> WithLines(l, <<Card("model", <<N1("mine"), N(<<"BHV", "cmp", "v1">>)>>), Card("n", <<N1("in"), N1("mine")>>)>>)
         [] e = "remarked model" -> WithLines(l, <<Card("model", <<N1("mine"), Remark, N1("x")>>), Plus(<<N(Wrapper(Cmp, "v1"))>>),
                                                   Card("n", <<N1("in"), N1("mine")>>)>>)
         [] e = "own n"        -> WithLines(l, <<Card("n", <<N1("in"), N(Wrapper(Cmp, "v1"))>>)>>)
         [] e = "alias n"      -> WithLines(l, <<Card("n", <<N1("in"), N(<<"bhv", "cmp", "v1", "osdi">>)>>)>>)
         [] e = "rotated"      -> terms([cmp EXCEPT !.cosim.inputs = <<<<"din">>, <<"clk">>>>])
         [] e = "wide"         -> built([core EXCEPT !.header[1].bits = 2])
         [] e = "inout"        -> built([core EXCEPT !.header[2].direction = "inout"])
         [] e = "other top"    -> built([core EXCEPT !.top = Wrapper(Cmp, "v1")])
         [] e = "no verilator" -> [l EXCEPT !.tools.verilator = FALSE]
         [] e = "headerless"   -> [l EXCEPT !.tools.simulator = "headerless"]
         [] e = "half shim"    -> [l EXCEPT !.tools.shim = "half"]
         [] e = "changed"      -> [l EXCEPT !.objects = "changed"]
         [] e = "cores twice"  -> [l EXCEPT !.cores = <<Cmp, Cmp>>]
         [] e = "core of amp"  -> [l EXCEPT !.cores = <<Amp>>]
         [] e = "core gone"    -> [l EXCEPT !.cores = <<<<"gone">>>>]
         [] e = "event"        -> va(<<"code", "event", "newline">>)
         [] e = "event hidden" -> va(<<"slashes", "event", "newline", "code", "newline">>)
         [] e = "event after"  -> va(<<"open", "code", "close", "event", "newline", "open", "close">>)
         [] e = "slashes inside" -> va(<<"open", "slashes", "close", "newline", "event", "newline", "open", "close">>)
         [] e = "no openvaf"   -> [l EXCEPT !.tools.openvaf = FALSE]
         [] e = "modules twice" -> [l EXCEPT !.modules = <<Cmp, Cmp>>]
         [] e = "module of amp" -> [l EXCEPT !.modules = <<Cmp, Amp>>]
         [] e = "shell"        -> [l EXCEPT !.slip = <<[at |-> 2, line |-> Card("shell", <<N1("x")>>)]>>]
         [] e = "late load"    -> [l EXCEPT !.slip = <<[at |-> 5, line |-> Card("pre_osdi", <<N(Wrapper(Cmp, "v1"))>>)]>>]
         [] e = "second control" -> [l EXCEPT !.slip = <<[at |-> 4, line |-> Card("control", <<>>)]>>]
         [] e = "unreviewed"   -> [l EXCEPT !.slip = <<[at |-> 2, line |-> Card("pre_osdi", <<N1("other")>>)]>>]
         [] e = "bare n"       -> [l EXCEPT !.slip = <<[at |-> 8, line |-> Card("n", <<N1("in"), N1("caller")>>)]>>]
Edits == DeckEdits \cup {"stale root", "stale version", "one root", "linked", "tampered", "gone", "link", "climbs", "case path", "same block",
          "outside", "other id", "role", "depends unknown", "depends back", "no depends", "wrapper", "bound wrapper", "ports swapped", "ordinal", "port twice",
          "reference", "default", "literal", "out of range", "boolean", "parameters swapped", "shout", "no native",
          "select leaf", "select cmp", "select unknown", "select none", "next wrapper", "same wrapper", "other abi", "v999", "own x", "local x",
          "params x", "spaced x", "bare x", "tail x", "inline", "command", "lead plus", "nest", "unclosed", "misnamed end", "outer param",
          "outer card", "stimulus", "undeclared family", "model type", "unprefixed", "two models", "no model", "resistor model",
          "stray d", "stray a", "missing d", "reserved", "core name", "core ports", "cosim x"}
EditLibrary(e, l) ==
    LET contract(id) == Now(l, ContractPath(id))
        terms(id, c) == Authored(l, ContractPath(id), c)
        amp  == SubPath(Amp)
        x(words) == Rewrite(l, Amp, 4, Card("x", words))
    IN CASE e = "stale root"    -> LET longer == Source(Append(LeafLines, Line("star"))) IN
                                   [l EXCEPT !.roots[1].manifest.files[2].content = longer, !.roots[1].disk[SubPath(Leaf)].content = longer]
         [] e = "stale version" -> [l EXCEPT !.roots[1].manifest.version = 2]
         [] e = "one root"      -> [l EXCEPT !.roots = <<@[1]>>]
         [] e = "linked"        -> [l EXCEPT !.roots[1].linked = TRUE]
         [] e = "tampered"      -> [l EXCEPT !.roots[1].disk = (amp :> [kind |-> "file", content |-> Now(l, SubPath(Leaf))]) @@ @]
         [] e = "gone"          -> [l EXCEPT !.roots[1].disk = [p \in DOMAIN @ \ {amp} |-> @[p]]]
         [] e = "link"          -> [l EXCEPT !.roots[1].disk = (amp :> [kind |-> "link", content |-> Now(l, amp)]) @@ @]
         [] e = "climbs"        -> Manifested(l, [First(l) EXCEPT !.blocks[1].contract = <<<<"..">>>> \o @])
         [] e = "case path"     -> LET again == File(PathOf(Leaf, <<"SUB">>), "ngspice-native", Now(l, SubPath(Leaf))) IN
                                   [l EXCEPT !.roots = [r \in DOMAIN @ |->
                                       [@[r] EXCEPT !.manifest.files = Append(@, again),
                                                    !.disk = (again.path :> [kind |-> "file", content |-> again.content]) @@ @]]]
         [] e = "same block"    -> Manifested(l, [First(l) EXCEPT !.blocks[2] = First(l).blocks[1]])
         [] e = "outside"       -> Manifested(l, [First(l) EXCEPT !.blocks[3].contract = PathOf(Amp2, <<"va">>)])
         [] e = "other id"      -> Manifested(l, [First(l) EXCEPT !.blocks[3].contract = ContractPath(Leaf)])
         [] e = "role"          -> Manifested(l, [First(l) EXCEPT !.files[4].role = "verilog-a"])
         [] e = "depends unknown" -> terms(Amp, [contract(Amp) EXCEPT !.depends = @ \cup {<<"gone">>}])
         [] e = "depends back"  -> terms(Leaf, [contract(Leaf) EXCEPT !.depends = @ \cup {Amp}])
         [] e = "no depends"    -> terms(Amp, [contract(Amp) EXCEPT !.depends = {}])
         [] e = "wrapper"       -> terms(Amp2, [contract(Amp2) EXCEPT !.native.wrapper = Wrapper(Amp, "v1")])
         [] e = "bound wrapper" -> terms(Cmp, [contract(Cmp) EXCEPT !.cosim.wrapper = Binding(Cmp)])
         [] e = "ports swapped" -> terms(Leaf, [contract(Leaf) EXCEPT !.ports = <<Port("out", 0), Port("in", 1)>>])
         [] e = "ordinal"       -> terms(Leaf, [contract(Leaf) EXCEPT !.ports[2].ordinal = 0])
         [] e = "port twice"    -> terms(Leaf, [contract(Leaf) EXCEPT !.ports[2].name = <<"In">>])
         [] e = "reference"     -> terms(Leaf, [contract(Leaf) EXCEPT !.ports[2].reference = <<"vss">>])
         [] e = "default"       -> terms(Leaf, [contract(Leaf) EXCEPT !.parameters[1].default = 2])
         [] e = "literal"       -> Rewrite(l, Leaf, 1, [LeafLines[1] EXCEPT !.words[4].value = Formula])
         [] e = "out of range"  -> terms(Leaf, [contract(Leaf) EXCEPT !.parameters[1].minimum = 1, !.parameters[1].exclusive = TRUE])
         [] e = "boolean"       -> terms(Leaf, [contract(Leaf) EXCEPT !.parameters[1].type = "boolean", !.parameters[1].default = 2])
         [] e = "parameters swapped" -> Rewrite(l, Leaf, 1, Card("subckt", <<N(Wrapper(Leaf, "v1")), N1("in"), N1("out"), P("en", 1), P("gain", 1)>>))
         [] e = "shout"         -> x(<<N1("in"), N1("n"), N(<<"BHV", "LEAF", "v1">>), P("GAIN", 2)>>)
         [] e = "no native"     -> terms(Leaf, [k \in DOMAIN contract(Leaf) \ {"native"} |-> contract(Leaf)[k]])
         [] e = "select leaf"   -> [l EXCEPT !.selection = @ \cup {Leaf}]
         [] e = "select cmp"    -> [l EXCEPT !.selection = {Cmp}]
         [] e = "select unknown" -> [l EXCEPT !.selection = @ \cup {<<"gone">>}]
         [] e = "select none"   -> [l EXCEPT !.selection = {}]
         [] e = "next wrapper"  -> Rewrite(l, Amp, 8, Card("subckt", <<N(Wrapper(Amp2, "v1")), N1("a"), N1("b")>>))
         [] e = "same wrapper"  -> Insert(l, Amp, 12, Card("subckt", <<N(Wrapper(Amp, "v1"))>>))
         [] e = "other abi"     -> terms(Leaf, [native |-> [wrapper |-> Wrapper(Leaf, "v2"), file |-> <<"sub">>, families |-> {"switch"}]]
                                               @@ [contract(Leaf) EXCEPT !.abi = "v2"])
         [] e = "v999"          -> x(<<N1("in"), N1("n"), N(Wrapper(Leaf, "v999"))>>)
         [] e = "own x"         -> x(<<N1("in"), N1("n"), N(<<"bhv", "amp", "HALF">>)>>)
         [] e = "local x"       -> x(<<N1("in"), N1("n"), N1("caller")>>)
         [] e = "params x"      -> x(<<N1("in"), N1("n"), N1("caller"), Params, N1("p"), Equals, N(Wrapper(Leaf, "v1"))>>)
         [] e = "spaced x"      -> x(<<N1("in"), N1("n"), N1("caller"), N(Wrapper(Leaf, "v1")), Equals, Number>>)
         [] e = "tail x"        -> x(<<N1("in"), N1("n"), N(Wrapper(Leaf, "v1")), P("gain", 2), N1("caller"), Equals>>)
         [] e = "bare x"        -> x(<<N1("in"), N1("n"), N(Wrapper(Leaf, "v1")), P("gain", Nothing)>>)
         [] e = "inline"        -> Insert(l, Amp, 5, Line("inline"))
         [] e = "command"       -> Insert(l, Amp, 1, Line("command"))
         [] e = "lead plus"     -> Insert(l, Amp, 2, Plus(<<N1("caller")>>))
         [] e = "nest"          -> Rewrite(l, Amp, 7, Line("star"))
         [] e = "unclosed"      -> Rewrite(l, Amp, 10, Line("star"))
         [] e = "misnamed end"  -> Rewrite(l, Amp, 10, Card("ends", <<N(Wrapper(Amp, "v1"))>>))
         [] e = "outer param"   -> Insert(l, Leaf, 1, Card("param", <<P("gain", 3)>>))
         [] e = "outer card"    -> Insert(l, Leaf, 1, Card("c", <<N1("a"), N1("b"), Number>>))
         [] e = "stimulus"      -> Rewrite(l, Leaf, 2, Card("v", <<N1("in"), Number>>))
         [] e = "undeclared family" -> terms(Amp, [contract(Amp) EXCEPT !.native.families = {"spice-primitive"}])
         [] e = "model type"    -> Rewrite(l, Leaf, 4, Card("model", <<N(<<"bhv", "leaf", "sw">>), N1("d_process")>>))
         [] e = "unprefixed"    -> Rewrite(l, Leaf, 4, Card("model", <<N1("sw"), N1("sw")>>))
         [] e = "two models"    -> Insert(l, Amp, 12, Card("model", <<N(<<"bhv", "amp", "HALF">>), N1("d")>>))
         [] e = "no model"      -> Rewrite(l, Leaf, 4, Line("star"))
         [] e = "resistor model" -> Rewrite(l, Amp, 9, Card("r", <<N1("a"), N1("b"), N1("caller")>>))
         [] e = "stray d"       -> Rewrite(l, Amp, 6, Card("d", <<N1("out"), Number, N1("caller")>>))
         [] e = "stray a"       -> Rewrite(l, Amp2, 2, Card("a", <<N1("in"), N(<<"bhv", "amp", "2", "gain">>), N1("caller")>>))
         [] e = "missing d"     -> Rewrite(l, Amp, 6, Card("d", <<N1("out"), N(<<"bhv", "amp", "d">>)>>))
         [] e = "reserved"      -> Insert(l, Cmp, 4, Card("model", <<N(Binding(Cmp)), N1("adc_bridge")>>))
         [] e = "core name"     -> terms(Cmp, [contract(Cmp) EXCEPT !.cosim.core = Binding(Cmp)])
         [] e = "core ports"    -> terms(Cmp, [contract(Cmp) EXCEPT !.cosim.outputs = <<<<"CLK">>>>])
         [] e \in DeckEdits     -> EditDeck(e, l)
         [] e = "cosim x"       -> terms(Cmp, [contract(Cmp) EXCEPT !.cosim.families = @ \cup {"spice-primitive"}])
-----------------------------------------------------------------------------
(* What a simulator that knows no blocks makes of the composed text: the   *)
(* subcircuit an instance calls is the last word before its parameters, a  *)
(* word before "=" being one of them; a resistor, a capacitor or an        *)
(* inductor may name a model after its nodes.                              *)
Calls(st) ==
    LET plain == {i \in DOMAIN st.words : /\ \A j \in 1 .. i : st.words[j].is \in {"word", "number"}
                                          /\ i < Len(st.words) => st.words[i + 1].is # "equals"}
    IN Word(st, Max({0} \cup plain))
Passive == {"r", "c", "l"}
Models(st) == IF st.head \in Passive THEN {Word(st, i) : i \in {j \in DOMAIN st.words : j > 2 /\ st.words[j].is = "word"}}
              ELSE {Word(st, ModelAt(st))}
Places(text, h, name) == {i \in DOMAIN text : text[i].head = h /\ Word(text[i], 1) = name}

(* The composed text is closed: every name is defined once, every instance *)
(* and every active device finds what it names in it, definitions of other *)
(* blocks coming first; the blocks are those that the selection needs and  *)
(* no other; the public header is the contract's; and every block is as it *)
(* was published.                                                          *)
Needed(root, ids) ==
    LET grow[n \in 0 .. Len(Sorted)] ==
            IF n = 0 THEN ids ELSE grow[n - 1] \cup UNION {Contract(root, id).depends : id \in grow[n - 1]}
    IN grow[Len(Sorted)]
PreludeCloses(l, root, c, text) ==
      LET place(id) == CHOOSE i \in DOMAIN c.closure : c.closure[i] = id
      IN /\ ToSet(c.closure) = Needed(root, l.selection) /\ Differ(c.closure)
         /\ \A id \in ToSet(c.closure) : \A d \in Contract(root, id).depends : place(d) < place(id)
         /\ \A i \in DOMAIN text : text[i].head \in {"subckt", "model"}
               => Cardinality(Places(text, "subckt", Word(text[i], 1)) \cup Places(text, "model", Word(text[i], 1))) = 1
         /\ \A i \in Heads(text, "x") : Places(text, "subckt", Calls(text[i])) # {}
         /\ \A i \in DOMAIN text : text[i].head \in Modelled =>
               \A m \in Models(text[i]) : Places(text, "model", m) # {}
         /\ \A i \in DOMAIN text : text[i].head \notin {"v", "i"}
         /\ \A id \in ToSet(c.closure) : \E i \in DOMAIN text :
               /\ text[i].head = "subckt" /\ Word(text[i], 1) = WrapperOf(root, id)
               /\ \A k \in DOMAIN Contract(root, id).ports : Word(text[i], k + 1) = Fold(Contract(root, id).ports[k].name)
               /\ \A k \in DOMAIN Contract(root, id).parameters :
                     \E w \in ToSet(text[i].words) : w.is = "setting" /\ Fold(w.name) = Fold(Contract(root, id).parameters[k].name)
                                                     /\ w.value = Contract(root, id).parameters[k].default
         /\ \A r \in DOMAIN l.roots : InventoryDigest(l.roots[r].manifest) = InventoryDigest(root.manifest)
         /\ \A f \in ToSet(root.manifest.files) : root.disk[f.path].content = f.content
PreludeIs(l, c) == c.status = "composed" => PreludeCloses(l, Root(l), c, c.text)
PreludeHolds(l) == PreludeIs(l, Compose(l))

(* As documented, also for the model of a resistor, capacitor or inductor. *)
ReferencesFound(c) ==
    c.status = "composed" =>
      \A i \in DOMAIN c.text : c.text[i].head \in Passive =>
         \A m \in Models(c.text[i]) : Places(c.text, "model", m) # {}
ReferencesHold(l) == ReferencesFound(Compose(l))
-----------------------------------------------------------------------------
(* What a simulator makes of the deck: comments are no part of a line, and *)
(* a subcircuit is as often there as it is called.                         *)
Scope(ss, i) == IF DepthsOf(ss)[i] = 0 THEN <<>> ELSE Word(ss[Max({j \in 1 .. i : ss[j].head = "subckt"})], 1)
Realized(deck, wrapper, binding) ==
    LET ss == Folded(deck)
        here(i) == \/ ss[i].head = "x" /\ Calls(ss[i]) = wrapper
                   \/ ss[i].head = "a" /\ LastWord(ss[i]) = binding
        names  == Defined(ss, "subckt")
        count[n \in 0 .. 3] ==
            [scope \in names \cup {<<>>} |->
               LET inside == {i \in DOMAIN ss : Scope(ss, i) = scope} IN
               FoldLeft(LAMBDA sum, i :
                          sum + (IF here(i) THEN 1
                                 ELSE IF ss[i].head = "x" /\ Calls(ss[i]) \in names /\ n > 0 THEN count[n - 1][Calls(ss[i])]
                                 ELSE 0), 0, SetToSeq(inside))]
    IN count[3][<<>>]
GivenTo(st, name, otherwise) ==
    LET ws == st.words
        at == {i \in DOMAIN ws : /\ ws[i].is \in {"setting", "word"} /\ Fold(ws[i].name) = name
                                 /\ ws[i].is = "setting" \/ (i < Len(ws) /\ ws[i + 1].is = "equals")}
        i  == Max(at)
    IN IF at = {} THEN otherwise
       ELSE IF ws[i].is = "word" THEN ws[i + 2].value
       ELSE IF ws[i].value = Nothing THEN ws[i + 1].value ELSE ws[i].value
HeadroomHolds(deck, wrapper, c) ==
    \A i \in DOMAIN Folded(deck) :
        LET st == Folded(deck)[i] IN
        st.head = "x" /\ Calls(st) = wrapper =>
            GivenTo(st, <<"td">>, c.parameters[1].default) > GivenTo(st, <<"tedge">>, c.parameters[2].default) + 1
HeaderIs(st, wrapper, c) ==
    /\ st.head = "subckt" /\ Word(st, 1) = wrapper /\ Len(st.words) = 1 + Len(c.ports) + Len(c.parameters)
    /\ \A k \in DOMAIN c.ports : Word(st, k + 1) = Fold(c.ports[k].name)
    /\ \A k \in DOMAIN c.parameters : st.words[1 + Len(c.ports) + k].value = c.parameters[k].default
Commented(deck) == \E i \in DOMAIN deck : deck[i].mark = "note" \/ \E w \in ToSet(deck[i].words) : w.is = "remark"

(* A co-simulation that is launched has one instance, if the deck has no   *)
(* inline comments, with parameters that the wrapper realises, behind the  *)
(* contract's header, bound to the core whose ports are in the order of the*)
(* contract.                                                               *)
CosimIs(l, made) ==
    LET c == made.contracts[1] IN
    made.status = "composed" /\ CosimRuns(l, made) =>
      /\ ~Commented(l.deck) => Realized(l.deck, made.wrappers[1], made.binding) = 1
      /\ HeadroomHolds(l.deck, made.wrappers[1], c)
      /\ Cardinality(Places(made.text, "model", made.binding)) = 1 /\ Places(made.text, "subckt", made.binding) = {}
      /\ \E i \in DOMAIN made.text : HeaderIs(made.text[i], made.wrappers[1], c)
      /\ \E i \in DOMAIN made.text : made.text[i].head = "a" /\ LastWord(made.text[i]) = made.binding
      /\ \A direction \in {"in", "out"} :
            Named(made.object.header, direction) = IF direction = "in" THEN c.cosim.inputs ELSE c.cosim.outputs
CosimHolds(l) == CosimIs(l, ComposeCosim(l))

(* What a compiler leaves out of a source: the rest of a line, or a block. *)
LiveEvent(marks) ==
    FoldLeft(LAMBDA s, m :
               CASE s.in = "line"  -> IF m = "newline" THEN [s EXCEPT !.in = "code"] ELSE s
                 [] s.in = "block" -> IF m = "close" THEN [s EXCEPT !.in = "code"] ELSE s
                 [] m = "slashes"  -> [s EXCEPT !.in = "line"]
                 [] m = "open"     -> [s EXCEPT !.in = "block"]
                 [] OTHER          -> [s EXCEPT !.found = @ \/ m = "event"],
             [in |-> "code", found |-> FALSE], marks).found
SlashesInside(marks) == \E a, b \in DOMAIN marks : a < b /\ marks[a] = "open" /\ marks[b] = "slashes"
                                                   /\ \A j \in a .. b : marks[j] # "close"

(* An OSDI run loads what was reviewed and nothing else in its control     *)
(* section; modules are used through wrappers with the contract's header   *)
(* only, each with parameters that it realises; and no event is compiled,  *)
(* unless a block comment has the mark of a line comment in it.            *)
Loaded(lines) == {i \in DOMAIN lines : /\ \E j \in 1 .. i - 1 : lines[j].head = "control"
                                      /\ \A j \in 1 .. i : lines[j].head # "endc" \/ \E k \in j .. i : lines[k].head = "control"}
WithSlip(l, lines) == IF l.slip = <<>> THEN lines ELSE InsertAt(lines, l.slip[1].at, l.slip[1].line)
OsdiIs(l, root, made, text, ss) ==
    made.status = "composed" =>
      /\ l.objects = "compiled" => PreloadFits(made.lines, l.objects, ToSet(made.wrappers))
      /\ \A i \in DOMAIN l.modules :
            LET marks == Content(root, PathOf(l.modules[i], Contract(root, l.modules[i]).veriloga.file)).marks IN
            LiveEvent(marks) => SlashesInside(marks)
      /\ \A i \in DOMAIN made.wrappers : \E k \in DOMAIN made.lines : HeaderIs(made.lines[k], made.wrappers[i], made.contracts[i])
      /\ PreloadFits(text, l.objects, ToSet(made.wrappers)) =>
            \A i \in Loaded(text) \cup {i \in DOMAIN text : text[i].head = "pre_osdi"} :
               text[i].head = "pre_osdi" /\ text[i].words[1].name \in ToSet(made.wrappers)
      /\ OsdiRuns(l, made) =>
            /\ \A i \in DOMAIN ss : ss[i].head = "n" =>
                  LET model == LastWord(ss[i]) IN
                  /\ model \notin {AliasOf(w) : w \in ToSet(made.wrappers)}
                  /\ \A k \in Places(ss, "model", model) : Word(ss[k], 2) \notin ToSet(made.wrappers)
            /\ \A i \in DOMAIN made.wrappers :
                  made.constraints[i] # <<>> => HeadroomHolds(l.deck, made.wrappers[i], made.contracts[i])
OsdiMade(l, made) == made.status = "composed" => OsdiIs(l, Root(l), made, WithSlip(l, made.lines), Folded(l.deck))
DeckHolds(l) == CosimHolds(l) /\ OsdiMade(l, ComposeOsdi(l))
=============================================================================
