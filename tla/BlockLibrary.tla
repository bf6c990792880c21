---------------------------- MODULE BlockLibrary ----------------------------
(***************************************************************************)
(* The library of behavioral blocks: which installed root answers for an   *)
(* identity, what is loaded from it, what each block's contract and source *)
(* must be, and the prelude that a selection of blocks is composed to.     *)
(*                                                                         *)
(* A name is a sequence of parts, so that a prefix of a name is a prefix of*)
(* the sequence: the block <<"amp", "2">> is in the namespace of the block *)
(* <<"amp">>. A path is a sequence of names. A digest is the content it is *)
(* of. A physical line of a source is its mark ("card", "plus", "star" or  *)
(* one that is refused), the head of its card (a directive or the letter of*)
(* an element) and its words: names, numbers, assignments, "=" and params. *)
(***************************************************************************)
EXTENDS Integers, Sequences, SequencesExt, FiniteSetsExt

CONSTANTS
    Lower,      \* the lower case of the parts that have an upper case
    Sorted,     \* every block identity, in lexicographic order
    MaxClosure  \* how many blocks a composition may span

Nothing == -1  \* the value of an assignment that has none
Formula == -2  \* one that is not a literal
Fold(name) == [i \in DOMAIN name |-> IF name[i] \in DOMAIN Lower THEN Lower[name[i]] ELSE name[i]]
FoldPath(path) == [i \in DOMAIN path |-> Fold(path[i])]
Differ(s)  == \A i, j \in DOMAIN s : s[i] = s[j] => i = j
Namespace(id)    == <<"bhv">> \o id
Wrapper(id, abi) == Namespace(id) \o <<abi>>
Binding(id)      == Namespace(id) \o <<"cosim">>
PathOf(id, file) == <<<<"blocks">>, id, file>>
-----------------------------------------------------------------------------
(* The root that is read: the first that carries the identity, if all that *)
(* do have the same inventory, each reached without a symbolic link.       *)
InventoryDigest(manifest) == [id |-> manifest.id, version |-> manifest.version, files |-> ToSet(manifest.files)]
Candidates(host) == SelectSeq(host.roots, LAMBDA r : r.name = host.asked)
RootAgreed(host) ==
    LET roots == Candidates(host) IN
    /\ Len(roots) > 0
    /\ Len(roots) > 1 => /\ \A i \in DOMAIN roots : ~roots[i].linked
                         /\ \A i, j \in DOMAIN roots :
                               InventoryDigest(roots[i].manifest) = InventoryDigest(roots[j].manifest)
    /\ ~roots[1].linked
Root(host) == Candidates(host)[1]

(* Every enumerated file is there, no link on its way, with the bytes of   *)
(* its record; no two paths differ in their case only.                     *)
Canonical(path)   == \A i \in DOMAIN path : path[i] \notin {<<"">>, <<".">>, <<"..">>}
Verified(root, f) == /\ f.path \in DOMAIN root.disk
                     /\ root.disk[f.path].kind = "file" /\ root.disk[f.path].content = f.content
InventoryFits(root, asked) ==
    LET files == root.manifest.files IN
    /\ root.manifest.id = asked
    /\ \A i \in DOMAIN files : Canonical(files[i].path) /\ Verified(root, files[i])
    /\ Differ([i \in DOMAIN files |-> FoldPath(files[i].path)])
Recorded(root, path, role) == \E f \in ToSet(root.manifest.files) : f.path = path /\ f.role = role
Content(root, path)        == root.disk[path].content
-----------------------------------------------------------------------------
(* The contract, and what its schema cannot say.                           *)
DefaultFits(p) ==
    /\ p.type = "boolean" => p.default \in {0, 1}
    /\ IF p.exclusive THEN p.default > p.minimum ELSE p.default >= p.minimum
    /\ p.default <= p.maximum
ContractFits(c) ==
    LET names(s) == [i \in DOMAIN s |-> Fold(s[i].name)] IN
    /\ \A i \in DOMAIN c.ports : c.ports[i].ordinal = i - 1
    /\ Differ(names(c.ports)) /\ Differ(names(c.parameters))
    /\ \A i \in DOMAIN c.ports : c.ports[i].reference \in {<<>>} \cup ToSet(names(c.ports))
    /\ \A i \in DOMAIN c.parameters : DefaultFits(c.parameters[i])
-----------------------------------------------------------------------------
(* The statements of a source: comments dropped, continuations folded.     *)
Readable(lines) ==
    /\ \A i \in DOMAIN lines : lines[i].mark \in {"card", "plus", "star"}
    /\ \A i \in DOMAIN lines : lines[i].mark = "plus" => \E j \in 1 .. i - 1 : lines[j].mark = "card"
Statements(lines) ==
    FoldLeft(LAMBDA done, l :
               CASE l.mark = "card" -> Append(done, [head |-> l.head, words |-> l.words])
                 [] l.mark = "plus" -> [done EXCEPT ![Len(done)].words = @ \o l.words]
                 [] OTHER -> done, <<>>, lines)

Directives     == {"subckt", "ends", "model", "param"}
ElementLetters == {"a", "b", "c", "d", "e", "g", "j", "l", "r", "s", "x"}
Primitives     == {"c", "e", "g", "j", "l", "r", "x"}
LettersOf(family) ==
    CASE family = "b-source" -> {"b"} [] family = "switch" -> {"s"} [] family = "diode" -> {"d"}
      [] family = "spice-primitive" -> Primitives [] OTHER -> {"a"}
TypesOf(family) ==
    CASE family = "switch" -> {"sw", "csw"} [] family = "diode" -> {"d"}
      [] family = "xspice-analog" -> {"gain", "limit"} [] family = "xspice-digital" -> {"d_and", "d_dff"}
      [] family = "xspice-bridge" -> {"adc_bridge", "dac_bridge"} [] OTHER -> {}

Word(st, i)  == IF i \in DOMAIN st.words /\ st.words[i].is = "word" THEN Fold(st.words[i].name) ELSE <<>>
Heads(ss, h) == {i \in DOMAIN ss : ss[i].head = h}
Before(ss, h, i)   == Cardinality({j \in Heads(ss, h) : j <= i})
Depth(ss, i)       == Before(ss, "subckt", i) - Before(ss, "ends", i)
OpenAt(ss, i)      == Word(ss[Max({j \in Heads(ss, "subckt") : j <= i})], 1)
Defined(ss, h)     == {Word(ss[i], 1) : i \in Heads(ss, h)}
Defines(ss)        == Heads(ss, "subckt") \cup Heads(ss, "model")
Nested(ss) ==
    /\ \A i \in DOMAIN ss : Depth(ss, i) \in {0, 1}
    /\ ss # <<>> => Depth(ss, Len(ss)) = 0
    /\ \A i \in Heads(ss, "ends") : ss[i].words # <<>> => Word(ss[i], 1) = OpenAt(ss, i)
    /\ \A i \in DOMAIN ss : ss[i].head \notin {"subckt", "ends", "model"} => Depth(ss, i) = 1

SymbolsFit(id, wrapper, ss, types, reserved) ==
    /\ \A i, j \in Defines(ss) : Word(ss[i], 1) = Word(ss[j], 1) => i = j
    /\ \A i \in Defines(ss) : IsPrefix(Namespace(id), Word(ss[i], 1))
    /\ \A i \in Heads(ss, "model") :
          /\ Len(ss[i].words) >= 2 /\ ss[i].words[2].name[1] \in types
          /\ Word(ss[i], 1) \notin reserved
    /\ wrapper \in Defined(ss, "subckt")

(* The child of an X card is the word before whatever opens its parameters.*)
Opens(w) == w.is \in {"params", "equals", "setting"}
ChildAt(st) ==
    LET openings == {i \in DOMAIN st.words : Opens(st.words[i])} IN
    IF openings = {} THEN Len(st.words)
    ELSE LET first == Min(openings) IN
         IF st.words[first].is = "equals" THEN Max({0, first - 2}) ELSE first - 1
Compact(st) ==
    /\ ChildAt(st) > 0
    /\ \A i \in ChildAt(st) + 1 .. Len(st.words) :
          st.words[i].is = "setting" /\ st.words[i].name # <<>> /\ st.words[i].value # Nothing
ChildOf(st) == Word(st, ChildAt(st))

(* The word of a card that names its model, by the grammar of its letter.  *)
ModelAt(st) == CASE st.head = "a" -> Len(st.words) [] st.head = "d" -> 3 [] st.head = "j" -> 4 [] st.head = "s" -> 5
Modelled    == {"a", "d", "j", "s"}
ModelOf(st) == Word(st, ModelAt(st))
CardFits(st, letters) ==
    /\ st.head \in ElementLetters \cap letters
    /\ st.head = "a" => Len(st.words) >= 2 /\ ModelOf(st) # <<>>
    /\ st.head \in Modelled => Len(st.words) >= ModelAt(st)
    /\ st.head = "x" => Compact(st)

(* A source is accepted when all its models are its own, those apart that  *)
(* the composer makes; its other subcircuits are looked for later.         *)
SourceFits(id, wrapper, source, families, reserved) ==
    /\ source.what = "source" /\ Readable(source.lines)
    /\ LET ss == Statements(source.lines)
           letters == UNION {LettersOf(f) : f \in families}
       IN /\ Nested(ss)
          /\ SymbolsFit(id, wrapper, ss, UNION {TypesOf(f) : f \in families}, reserved)
          /\ \A i \in DOMAIN ss : \/ ss[i].head \in Directives
                                  \/ CardFits(ss[i], letters)
          /\ \A i \in DOMAIN ss : ss[i].head \in Modelled =>
                 ModelOf(ss[i]) \in Defined(ss, "model") \cup reserved
Outside(ss) == {ChildOf(ss[i]) : i \in Heads(ss, "x")} \ Defined(ss, "subckt")

(* The header of the public wrapper is the contract: its ports in order,   *)
(* its parameters in order, each with the contract's default as a literal. *)
Header(ss, wrapper) == ss[Min({i \in Heads(ss, "subckt") : Word(ss[i], 1) = wrapper})]
AbiFits(wrapper, ss, c) ==
    LET tokens   == Tail(Header(ss, wrapper).words)
        settings == SelectSeq(tokens, LAMBDA w : w.is = "setting")
        pins     == SelectSeq(tokens, LAMBDA w : w.is = "word")
    IN /\ \A i, j \in DOMAIN tokens : i < j /\ tokens[j].is = "word" => tokens[i].is = "word"
       /\ \A i \in DOMAIN tokens : tokens[i].is # "equals"
       /\ [i \in DOMAIN pins |-> Fold(pins[i].name)] = [i \in DOMAIN c.ports |-> Fold(c.ports[i].name)]
       /\ [i \in DOMAIN settings |-> Fold(settings[i].name)]
            = [i \in DOMAIN c.parameters |-> Fold(c.parameters[i].name)]
       /\ \A i \in DOMAIN settings : settings[i].value = c.parameters[i].default
-----------------------------------------------------------------------------
(* A block has up to three realisations, each under the block's one public *)
(* name: SPICE, Verilog-A, and a digital core with its SPICE wrapper.      *)
NativeFits(root, id, c) ==
    LET b == c.native  path == PathOf(id, b.file)  wrapper == Wrapper(id, c.abi) IN
    /\ b.wrapper = wrapper /\ Recorded(root, path, "ngspice-native")
    /\ SourceFits(id, wrapper, Content(root, path), b.families, {})
    /\ AbiFits(wrapper, Statements(Content(root, path).lines), c)
VerilogFits(root, id, c) ==
    /\ c.veriloga.module = Wrapper(id, c.abi)
    /\ Recorded(root, PathOf(id, c.veriloga.file), "verilog-a")
CosimFits(root, id, c) ==
    LET b == c.cosim  path == PathOf(id, b.file)  wrapper == Wrapper(id, c.abi) IN
    /\ b.wrapper = wrapper /\ b.core = Append(wrapper, "core")
    /\ Recorded(root, path, "xspice-cosim") /\ Recorded(root, PathOf(id, b.coreFile), "verilog-cosim-core")
    /\ SourceFits(id, wrapper, Content(root, path), b.families, {Binding(id)})
    /\ Outside(Statements(Content(root, path).lines)) = {}
    /\ AbiFits(wrapper, Statements(Content(root, path).lines), c)
    /\ Differ([i \in 1 .. Len(b.inputs) + Len(b.outputs) |-> Fold((b.inputs \o b.outputs)[i])])
Has(c, backend) == backend \in DOMAIN c
BlockFits(root, entry) ==
    LET c == Content(root, entry.contract) IN
    /\ Canonical(entry.contract) /\ entry.contract \in {f.path : f \in ToSet(root.manifest.files)}
    /\ c.what = "contract" /\ c.id = entry.id /\ ContractFits(c)
    /\ Has(c, "native") => NativeFits(root, entry.id, c)
    /\ Has(c, "veriloga") => VerilogFits(root, entry.id, c)
    /\ Has(c, "cosim") => CosimFits(root, entry.id, c)

Ids(root)           == {b.id : b \in ToSet(root.manifest.blocks)}
Contract(root, id)  == Content(root, (CHOOSE b \in ToSet(root.manifest.blocks) : b.id = id).contract)
WrapperOf(root, id) == Wrapper(id, Contract(root, id).abi)
SourceOf(root, id)  == Statements(Content(root, PathOf(id, Contract(root, id).native.file)).lines)

(* Mutant: a name in the namespace of a dependency is enough.              *)
ReferencesLookRight(root, id) ==
    LET c == Contract(root, id) IN
    /\ c.depends \subseteq Ids(root)
    /\ Has(c, "native") => \A r \in Outside(SourceOf(root, id)) : \E d \in c.depends : IsPrefix(Namespace(d), r)

(* A subcircuit from elsewhere is the exact wrapper of a declared          *)
(* dependency, never only a name that looks like one.                      *)
ReferencesFit(root, id) ==
    LET c == Contract(root, id) IN
    /\ c.depends \subseteq Ids(root)
    /\ Has(c, "native") => Outside(SourceOf(root, id)) \subseteq {WrapperOf(root, d) : d \in c.depends}
Loads(host) ==
    /\ RootAgreed(host) /\ InventoryFits(Root(host), host.asked)
    /\ Differ([i \in DOMAIN Root(host).manifest.blocks |-> Root(host).manifest.blocks[i].id])
    /\ \A b \in ToSet(Root(host).manifest.blocks) : BlockFits(Root(host), b)
    /\ \A id \in Ids(Root(host)) : ReferencesFit(Root(host), id)
-----------------------------------------------------------------------------
(* The closure of a selection, dependencies first.                         *)
InOrder(S) == SelectSeq(Sorted, LAMBDA id : id \in S)
RECURSIVE Visit(_, _, _, _)
Visit(root, walk, id, open) ==
    CASE ~walk.ok \/ id \in ToSet(walk.order) -> walk
      [] id \in open \/ id \notin Ids(root) -> [walk EXCEPT !.ok = FALSE]
      [] OTHER ->
           LET below == FoldLeft(LAMBDA w, d : Visit(root, w, d, open \cup {id}), walk, InOrder(Contract(root, id).depends))
           IN IF below.ok THEN [below EXCEPT !.order = Append(@, id)] ELSE below
Closure(root, ids) == FoldLeft(LAMBDA w, id : Visit(root, w, id, {}), [ok |-> TRUE, order |-> <<>>], InOrder(ids))

(* No simulator symbol is defined by two blocks of the closure.            *)
Symbols(root, id) == Defined(SourceOf(root, id), "subckt") \cup Defined(SourceOf(root, id), "model")
Disjoint(root, ids) == \A a, b \in ids : a # b => Symbols(root, a) \cap Symbols(root, b) = {}
Refused == [status |-> "refused"]
Compose(host) ==
    LET root == Root(host)
        walk == Closure(root, host.selection)
        text == FlattenSeq([i \in DOMAIN walk.order |-> SourceOf(root, walk.order[i])])
    IN CASE ~Loads(host) \/ host.selection = {} -> Refused
         [] ~walk.ok \/ Len(walk.order) > MaxClosure -> Refused
         [] ~\A id \in ToSet(walk.order) : Has(Contract(root, id), "native") -> Refused
         [] ~Disjoint(root, ToSet(walk.order)) -> Refused
         [] OTHER -> [status |-> "composed", closure |-> walk.order, text |-> text]
=============================================================================
