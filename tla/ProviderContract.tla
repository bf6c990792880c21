-------------------------- MODULE ProviderContract --------------------------
(***************************************************************************)
(* What is said and checked between the host and an external provider, and *)
(* what the ngspice PDK provider does (provider_runtime.py, conformance.py,*)
(* providers/ngspice_pdk_control.py). The process between them is the      *)
(* module ProviderInvocation. The files are those at three moments: when   *)
(* the host resolves the provider, when the provider reads them, and when  *)
(* the run is over; what the provider creates comes on top.                *)
(* A path is a sequence of names and a file's content is its digest, "" is *)
(* none. Sizes are steps: 1 stands for 1 MiB, 2 for 16 MiB, 4 for 256 MiB  *)
(* and 8 for 512 MiB.                                                      *)
(***************************************************************************)
EXTENDS CircuitProfile

CONSTANT MaxArtifacts  \* the profile's max_artifact_count

Circuit   == "circuit.simulate/v1alpha2"
Evidence  == "simulation.evidence.valid"
Envelope  == "openada.result/v0alpha1"
Effects   == [read |-> 0, evidence |-> 1, design |-> 2]
Maturity  == [discovered |-> 0, structured |-> 1, validated |-> 2]
Feature   == [op |-> "analysis.op", dc |-> "analysis.dc", ac |-> "analysis.ac", tran |-> "analysis.tran"]

(* The installed profile: roles of files, and the outcomes it allows.      *)
ConfigRoles   == {"model-library", "pdk", "corner", "simulator-configuration"}
Digested      == ConfigRoles \ {"pdk"}
ArtifactRoles == {"simulation.result", "simulation.log", "simulation.launcher", "simulation.resolved-netlist"}
Needed        == {"simulation.result", "simulation.log"}
Allowed == [pass |-> {"completed"}, fail |-> {"completed", "failed"},
            unknown |-> {"completed", "timed_out", "not_available", "invalid_request", "failed"}]

MaxConfig    == 1  \* the provider's bound on its configuration
MaxTarget    == 2  \* a deck or a log
MaxData      == 4  \* a configuration input or an artifact
MaxTotal     == 8  \* all inputs, all recorded files, an executable
-----------------------------------------------------------------------------
(* Paths and files.                                                        *)
Canonical(p)  == p # <<>> /\ p[1] = "/" /\ \A i \in DOMAIN p : p[i] \notin {".", ".."}
Within(p, q)  == Len(p) > Len(q) /\ SubSeq(p, 1, Len(q)) = q
Steps(p)      == {SubSeq(p, 1, i) : i \in DOMAIN p}
Linked(fs, p) == {q \in Steps(p) \cap DOMAIN fs : fs[q].is = "link"}
Plain(fs, p)  == Canonical(p) /\ p \in DOMAIN fs /\ Linked(fs, p) = {}
IsFile(fs, p) == Plain(fs, p) /\ fs[p].is = "file"
IsDir(fs, p)  == Plain(fs, p) /\ fs[p].is = "dir"
Own(fs, p)    == IsFile(fs, p) /\ fs[p].links = 1
Target(fs, p) == IF Linked(fs, p) = {} THEN p
                 ELSE LET q == CHOOSE x \in Linked(fs, p) : TRUE IN fs[q].to \o SubSeq(p, Len(q) + 1, Len(p))
Holds(fs, p)  == Target(fs, p) \in DOMAIN fs /\ fs[Target(fs, p)].is = "file"
Fits(fs, p, most) == Holds(fs, p) => fs[Target(fs, p)].size <= most
(* file_record, which fails of a file that is larger than the bound.       *)
Record(fs, p) ==
    LET t == Target(fs, p) IN
    IF Holds(fs, p) THEN [path |-> t, exists |-> TRUE, bytes |-> fs[t].size, sha |-> fs[t].sha]
    ELSE [path |-> t, exists |-> FALSE, bytes |-> 0, sha |-> ""]
Same(a, b) == a.exists = b.exists /\ a.bytes = b.bytes /\ a.sha = b.sha
-----------------------------------------------------------------------------
(* A manifest: names are unique and known, and a capability that claims    *)
(* more than to be discovered has passing records of this driver for every *)
(* product.                                                                *)
Ids(s)         == {s[i].id : i \in DOMAIN s}
Distinct(s)    == Cardinality(Ids(s)) = Len(s)
RecordOf(m, r) == m.records[CHOOSE i \in DOMAIN m.records : m.records[i].id = r]
Belongs(r, c, m) ==
    /\ r.profile = c.profile /\ r.assertion \in c.assertions /\ r.schema \in c.schemas /\ r.version = m.driver.version
    /\ ToSet(r.products) \subseteq c.products
Supporting(c, m) == {r \in c.records : LET it == RecordOf(m, r) IN it.status = "pass" /\ Maturity[it.level] >= Maturity[c.maturity]}
CapabilityFits(c, m) ==
    /\ c.transports \subseteq Ids(m.transports) /\ c.products \subseteq ToSet(m.products)
    /\ c.schemas \subseteq {Envelope} /\ c.records \subseteq Ids(m.records)
    /\ \A r \in c.records : Belongs(RecordOf(m, r), c, m)
    /\ c.maturity # "discovered" =>
         Supporting(c, m) # {} /\ c.products \subseteq UNION {ToSet(RecordOf(m, r).products) : r \in Supporting(c, m)}
ManifestFits(m) ==
    /\ IsInjective(m.products) /\ Distinct(m.transports) /\ Distinct(m.records) /\ IsInjective(m.capabilities)
    /\ \A i \in DOMAIN m.transports : m.transports[i].type = "local-cli" => m.transports[i].printable
    /\ \A i \in DOMAIN m.records : LET of == m.records[i].products IN IsInjective(of) /\ ToSet(of) \subseteq ToSet(m.products)
    /\ \A i \in DOMAIN m.capabilities : CapabilityFits(m.capabilities[i], m)

(* The profiles on disk: of those with the asked name, one definition.     *)
ProfileLoads(files, name) ==
    LET named == {i \in DOMAIN files : files[i].name = name} IN
    /\ \A i \in DOMAIN files : files[i].readable
    /\ \A i \in named : files[i].fits
    /\ Cardinality({files[i].body : i \in named}) = 1
-----------------------------------------------------------------------------
(* A request of that profile: what is simulated, with which configuration, *)
(* for whom, and what may and must come of it.                             *)
Locators(q) == <<q.target.locator>> \o [i \in DOMAIN q.configuration |-> q.configuration[i].locator]
RequestFits(q) ==
    /\ q.assertion = Evidence /\ q.target.kind = "testbench"
    /\ Effects[q.constraints.effects] >= Effects["evidence"]
    /\ \A i \in DOMAIN q.configuration : LET c == q.configuration[i] IN
          /\ c.role \in ConfigRoles /\ (c.role \in Digested => c.locator.sha # "")
          /\ \A j \in DOMAIN q.configuration : i # j => q.configuration[j].role # c.role
    /\ ParametersFit(q.parameters)
    /\ \A l \in ToSet(Locators(q)) \cup {q.destination.locator} : l.type = "filesystem" /\ Canonical(l.path)
    /\ q.destination.collision = "fail-if-present"
    /\ q.policy.roles \subseteq ArtifactRoles
Features(q) == {Feature[q.parameters.analysis.type]} \cup ToSet(q.selector[1].features)

(* The executable is a path, or a name on the fixed search path; what else *)
(* on the command line names a file is bound and no link.                  *)
Runnable(fs, p) == Holds(fs, p) /\ fs[Target(fs, p)].run
Search(d, name) == SelectSeq([i \in DOMAIN d.search |-> Append(d.search[i], name)], LAMBDA p : Runnable(d.files[1], p))
Executable(d, arg) ==
    IF arg.is = "path" THEN Runnable(d.files[1], arg.path) ELSE arg.is = "name" /\ Search(d, arg.name) # <<>>
ArgvFits(d, argv) ==
    /\ Executable(d, argv[1])
    /\ \A i \in 2 .. Len(argv) : argv[i].is = "path" /\ argv[i].path \in DOMAIN d.files[1] => d.files[1][argv[i].path].is # "link"

(* The inputs, as the host takes them before the launch.                   *)
MostOf(i)    == IF i = 1 THEN MaxTarget ELSE MaxData
Bindable(fs, p, sha, most) == IsFile(fs, p) /\ fs[p].size <= most /\ sha \in {"", fs[p].sha}
Snapshots(d) == [i \in DOMAIN Locators(d.request) |-> d.files[1][Locators(d.request)[i].path]]
InputsBind(d) ==
    LET ls == Locators(d.request) IN
    /\ \A i \in DOMAIN ls : Bindable(d.files[1], ls[i].path, ls[i].sha, MostOf(i))
    /\ FoldLeft(LAMBDA total, s : total + s.size, 0, Snapshots(d)) <= MaxTotal

(* The one capability and transport that answer the request.               *)
Serves(c, q) ==
    /\ c.maturity # "discovered" /\ c.profile = q.profile /\ q.assertion \in c.assertions /\ Envelope \in c.schemas
    /\ q.target.locator.type \in c.locators /\ "wait" \in c.modes /\ Features(q) \subseteq c.features
    /\ "evidence" \in c.effects
TransportNamed(m, t) == m.transports[CHOOSE i \in DOMAIN m.transports : m.transports[i].id = t]
Candidates(m, q) ==
    {x \in (DOMAIN m.capabilities) \X Ids(m.transports) :
        LET c == m.capabilities[x[1]] IN
        /\ Serves(c, q) /\ x[2] \in c.transports /\ q.selector[1].transport \in {"", x[2]}
        /\ TransportNamed(m, x[2]).type = "local-cli" /\ "wait" \in TransportNamed(m, x[2]).modes}
Selected(m, q) ==
    /\ q.selector # <<>> /\ q.selector[1].driver = m.driver.id /\ q.selector[1].version \in {"", m.driver.version}
    /\ Cardinality(Candidates(m, q)) = 1
Chosen(d) == CHOOSE x \in Candidates(d.manifest, d.request) : TRUE
Resolves(d) ==
    LET q == d.request IN
    /\ ManifestFits(d.manifest) /\ ProfileLoads(d.profiles, Circuit) /\ q.profile = Circuit /\ RequestFits(q)
    /\ q.policy.identity \in {"content-digest", "best-available"} /\ q.constraints.completion = "wait"
    /\ Selected(d.manifest, q) /\ ArgvFits(d, TransportNamed(d.manifest, Chosen(d)[2]).argv) /\ InputsBind(d)
-----------------------------------------------------------------------------
(* The ngspice PDK provider asks for more than the host does.              *)
Read(d)     == d.files[2]
Chooses(q)  == q.selector # <<>> /\ q.selector[1].driver = "ngspice-pdk" /\ q.selector[1].version = "0.5.0"
               /\ q.selector[1].transport = "local-json-stdio"
Connects(q) ==
    /\ q.profile = Circuit /\ RequestFits(q) /\ Chooses(q)
    /\ ToSet(q.selector[1].features) \subseteq {Feature[k] : k \in Kinds}
    /\ q.target.locator.sha # "" /\ Len(q.configuration) = 2
    /\ {q.configuration[i].role : i \in 1 .. 2} = {"pdk", "simulator-configuration"}
    /\ \A i \in 1 .. 2 : q.configuration[i].required /\ q.configuration[i].locator.sha # ""
    /\ q.policy.native /\ q.policy.logs /\ q.policy.roles \subseteq Needed \cup {"simulation.launcher"}
    /\ q.policy.provenance = "bounded" /\ q.policy.identity = "content-digest"
    /\ q.constraints.completion = "wait" /\ q.constraints.effects = "evidence"
    /\ q.constraints.log >= MaxTarget /\ q.constraints.artifact >= MaxData
RoleLocator(q, role) == q.configuration[CHOOSE i \in DOMAIN q.configuration : q.configuration[i].role = role].locator

(* The control block of the deck: save all, one analysis, linearize for a  *)
(* transient if at all, one write; nothing else, and nothing twice.        *)
Outside == [inside |-> FALSE, opened |-> 0, at |-> "save", card |-> [kind |-> "none", args |-> <<>>], output |-> ""]
Wrong   == [Outside EXCEPT !.at = "wrong"]
Command(s, line) ==
    CASE line.say = "save" /\ s.at = "save"                              -> [s EXCEPT !.at = "analysis"]
      [] line.say = "analysis" /\ s.at = "analysis" /\ Parses(line.card)     -> [s EXCEPT !.at = "after", !.card = line.card]
      [] line.say = "linearize" /\ s.at = "after" /\ s.card.kind = "tran"    -> [s EXCEPT !.at = "write"]
      [] line.say = "write" /\ s.at \in {"after", "write"} /\ line.safe      -> [s EXCEPT !.at = "complete", !.output = line.name]
      [] OTHER -> Wrong
DeckLine(s, line) ==
    CASE s.at = "wrong" \/ line.long     -> Wrong
      [] ~line.long /\ s.at # "wrong" /\ line.say = "comment"  -> s
      [] ~line.long /\ s.at # "wrong" /\ line.say = ".control" -> IF s.inside THEN Wrong ELSE [s EXCEPT !.inside = TRUE, !.opened = @ + 1]
      [] ~line.long /\ s.at # "wrong" /\ line.say = ".endc"    -> IF s.inside THEN [s EXCEPT !.inside = FALSE] ELSE Wrong
      [] OTHER -> IF s.inside THEN Command(s, line) ELSE s
ControlBlock(lines) ==
    LET after[k \in 0 .. Len(lines)] == IF k = 0 THEN Outside ELSE DeckLine(after[k - 1], lines[k])
    IN after[Len(lines)]
ControlFits(lines)  == LET s == ControlBlock(lines) IN ~s.inside /\ s.opened = 1 /\ s.at = "complete"
ControlDeck(d)      == d.decks[d.request.target.locator.sha]

(* The configuration names the startup files by digest, and the PDK below  *)
(* its root, whose COMMIT file stands for it.                              *)
Bound(d, ref, most) == Own(Read(d), ref.path) /\ Read(d)[ref.path].size <= most /\ Read(d)[ref.path].sha = ref.sha
Executables(d) ==
    {i \in DOMAIN d.natives : LET p == d.natives[i] IN
                               Own(Read(d), p) /\ Read(d)[p].run /\ Read(d)[p].elf /\ Read(d)[p].size <= MaxTotal}
Native(d)    == d.natives[Min(Executables(d))]
Config(d)    == d.configs[RoleLocator(d.request, "simulator-configuration").sha]
PdkDir(d)    == Append(Config(d).root, Config(d).pdk)
ConfigFits(d) ==
    LET config == Config(d) IN
    /\ config.closed /\ Canonical(config.root) /\ IsDir(Read(d), config.root) /\ Executables(d) # {}
    /\ Bound(d, config.init, MaxTarget) /\ Bound(d, config.system, MaxTarget) /\ Last(config.system.path) = "spinit"
    /\ IsDir(Read(d), PdkDir(d)) /\ Within(config.init.path, PdkDir(d))
    /\ RoleLocator(d.request, "pdk").path = Append(PdkDir(d), "COMMIT")
DestinationIsFresh(d) ==
    LET p == d.request.destination.locator.path IN p \notin DOMAIN Read(d) /\ IsDir(Read(d), Front(p))
NamesItsFeature(q) == Len(q.selector[1].features) = 1 /\ q.selector[1].features[1] = Feature[q.parameters.analysis.type]

(* Whether the provider accepts, with the code if not; of its codes two.   *)
Refusal(d) ==
    LET q == d.request
        configured == RoleLocator(q, "simulator-configuration")
        wanted     == Normalized(q.parameters.analysis) IN
    CASE ~Connects(q) -> "simulation.request.invalid"
      [] Connects(q)  ->
           IF \/ ~Bound(d, q.target.locator, MaxTarget) \/ ~ControlFits(ControlDeck(d))
              \/ ~SameAnalysis(wanted, AnalysisOf(ControlBlock(ControlDeck(d)).card)) \/ ~NamesItsFeature(q)
              \/ ~Bound(d, configured, MaxConfig) \/ ~Bound(d, RoleLocator(q, "pdk"), MaxConfig) \/ ~ConfigFits(d)
           THEN "simulation.request.invalid"
           ELSE IF DestinationIsFresh(d) THEN "none" ELSE "simulation.result.stale"
-----------------------------------------------------------------------------
(* The run: a fresh directory with a private copy of the executable and    *)
(* what the driver leaves there. The driver records the deck and the       *)
(* startup files and finds whether they changed; the provider looks again  *)
(* at what it had bound, and appends the records that are not there yet.   *)
Destination(d) == d.request.destination.locator.path
WorkCopy(d)    == Destination(d) \o <<"work", "openada-native-ngspice">>
FilesOf(d)     == [i \in DOMAIN d.native.artifacts |-> Destination(d) \o <<"simulation", d.native.artifacts[i].name>>]
Artifacts(d)   == [i \in DOMAIN d.native.artifacts |-> LET a == d.native.artifacts[i] IN
                     [kind |-> a.kind, role |-> "output", path |-> FilesOf(d)[i], exists |-> TRUE, bytes |-> a.bytes, sha |-> a.sha]]
Made(d) ==
    LET dir  == [is |-> "dir", size |-> 0, sha |-> "", id |-> 1, links |-> 1, run |-> FALSE, elf |-> FALSE]
        file == [dir EXCEPT !.is = "file"]
        of(p) == CHOOSE i \in DOMAIN d.native.artifacts : FilesOf(d)[i] = p
    IN [p \in {Destination(d), WorkCopy(d)} \cup ToSet(FilesOf(d)) |->
          CASE p = Destination(d) -> dir
            [] p = WorkCopy(d)    -> [Read(d)[Native(d)] EXCEPT !.id = 1]
            [] OTHER -> LET a == d.native.artifacts[of(p)] IN [file EXCEPT !.size = a.bytes, !.sha = a.sha]]
Launched(d) == Refusal(d) = "none"
Before(d)   == Over(Read(d), Made(d))
After(d)    == IF Launched(d) THEN Over(d.files[3], Made(d)) ELSE d.files[3]

Opened(d)   == <<d.request.target.locator.path, Config(d).init.path, Config(d).system.path>>
Rechecked(d) ==
    <<<<RoleLocator(d.request, "simulator-configuration").path, MaxConfig>>, <<Native(d), MaxTotal>>,
      <<Config(d).init.path, MaxConfig>>, <<Config(d).system.path, MaxConfig>>,
      <<RoleLocator(d.request, "pdk").path, MaxConfig>>, <<WorkCopy(d), MaxTotal>>>>
Unmoved(was, fs, p)     == Same(Record(fs, p), Record(was, p))
KeepsTarget(d, was) ==
    LET deck == d.request.target.locator IN
    {i \in DOMAIN Opened(d) : Opened(d)[i] = deck.path} = {1} /\ Record(was, deck.path).sha = deck.sha
KeepsItsFiles(d, was, fs) == \A p \in ToSet(Opened(d)) : Fits(fs, p, MaxTarget) /\ Unmoved(was, fs, p)
(* Mutant: the second look reads the files but compares nothing.           *)
KeepsReadable(d, was, fs) == \A x \in ToSet(Rechecked(d)) : Fits(fs, x[1], x[2])
KeepsConfig(d, was, fs) == \A x \in ToSet(Rechecked(d)) : Fits(fs, x[1], x[2]) /\ Unmoved(was, fs, x[1])
KeepsDirs(d, was, fs) ==
    \A p \in {Config(d).root, PdkDir(d), Front(Destination(d)), Destination(d)} : IsDir(fs, p) /\ fs[p].id = was[p].id
Appended(fs, records, x) ==
    LET r == Record(fs, x[1]) IN
    IF Fits(fs, x[1], x[2]) /\ \A i \in DOMAIN records : records[i].path # r.path THEN Append(records, r) ELSE records
Inputs(d, was, fs) ==
    LET records[k \in 0 .. Len(Rechecked(d))] ==
            IF k = 0 THEN [i \in DOMAIN Opened(d) |-> Record(was, Opened(d)[i])]
            ELSE Appended(fs, records[k - 1], Rechecked(d)[k])
    IN records[Len(Rechecked(d))]
Changed(native) == [native EXCEPT !.status = "unknown", !.stable = FALSE,
                                  !.diagnostics = @ \cup {[severity |-> "error", code |-> "input.changed"]}]
Echo(d) == [request |-> d.request.id, operation |-> d.request.profile, assertion |-> d.request.assertion,
            driver |-> "ngspice-pdk", version |-> "0.5.0"]
Ended(d, was, fs) ==
    LET native == Over([d.native EXCEPT !.artifacts = Artifacts(d)], [inputs |-> Inputs(d, was, fs)])
    IN IF KeepsItsFiles(d, was, fs) /\ KeepsTarget(d, was) /\ KeepsConfig(d, was, fs) /\ KeepsDirs(d, was, fs)
       THEN native ELSE Changed(native)
Run(d, fs) == Decorate(Ended(d, Before(d), fs), Echo(d), Normalized(d.request.parameters.analysis))

(* A refusal names the inputs that it can read within its own bounds.      *)
Readables(d) ==
    LET ls == Locators(d.request)
        add(records, i) ==
          LET r == Record(Read(d), ls[i].path) IN
          IF ls[i].type # "filesystem" \/ ~Fits(Read(d), ls[i].path, IF i = 1 THEN MaxTarget ELSE MaxConfig)
             \/ \E j \in DOMAIN records : records[j].path = r.path
          THEN records ELSE Append(records, r)
    IN FoldLeft(add, <<>>, [i \in DOMAIN ls |-> i])
Answer(d, fs) ==
    IF Launched(d) THEN Run(d, fs)
    ELSE Decorate(Refused(Readables(d), Refusal(d), TRUE), Echo(d), Normalized(d.request.parameters.analysis))
-----------------------------------------------------------------------------
(* What the host asks of an answer, whoever gave it.                       *)
Conclusive(a)   == a.status \in {"pass", "fail"}
Existing(s)     == {s[i] : i \in {j \in DOMAIN s : s[j].exists}}
RolesOf(s)      == {r.role : r \in Existing(s)}
Echoes(d, a) == a.operation = "simulate"
    /\ a.protocol = [Echo(d) EXCEPT !.driver = d.manifest.driver.id, !.version = d.manifest.driver.version]
Ceiling(q, role) == IF role = "simulation.log" THEN Min({q.constraints.log, MaxTarget}) ELSE Min({q.constraints.artifact, MaxData})
EvidenceFits(d, a) ==
    LET q == d.request IN
    /\ a.execution \in Allowed[a.status] /\ Len(a.artifacts) <= MaxArtifacts /\ RolesOf(a.artifacts) \subseteq ArtifactRoles
    /\ \A r \in Existing(a.artifacts) : r.bytes <= Ceiling(q, r.role)
    /\ Conclusive(a) => Needed \cup q.policy.roles \subseteq RolesOf(a.artifacts)
    /\ a.evidence.roles = RolesOf(a.artifacts)
    /\ q.policy.provenance = "complete-required" => a.evidence.provenance = "complete"

(* Each reference of the request is one recorded input, of the content     *)
(* that it names and of what the host found before the launch and again.   *)
Of(a, path)  == {i \in DOMAIN a.inputs : a.inputs[i].exists /\ a.inputs[i].path = path}
InputsNamed(d, a) ==
    Conclusive(a) => \A l \in ToSet(Locators(d.request)) :
        \E i \in DOMAIN a.inputs : Of(a, l.path) = {i} /\ l.sha \in {"", a.inputs[i].sha}
SnapshotsStand(d, a, fs) ==
    \A i \in DOMAIN Snapshots(d) :
        LET l == Locators(d.request)[i]
            s == Snapshots(d)[i]
        IN /\ Bindable(fs, l.path, s.sha, MostOf(i))
           /\ fs[l.path].id = s.id /\ fs[l.path].size = s.size
           /\ \E j \in DOMAIN a.inputs : Of(a, l.path) = {j} /\ a.inputs[j].bytes = s.size /\ a.inputs[j].sha = s.sha

(* Artifacts are in the destination, if it is there.                       *)
DestinationHolds(d, a, fs) ==
    IF IsDir(fs, Destination(d))
    THEN \A r \in ToSet(a.artifacts) : Canonical(r.path) /\ Within(r.path, Destination(d)) /\ (r.exists => Plain(fs, r.path))
    ELSE ~Conclusive(a) /\ a.artifacts = <<>>

ProfileHolds(d, a) ==
    /\ Conclusive(a) =>
         /\ a.tool /\ a.command /\ a.exit # <<>> /\ a.analysis.type = d.request.parameters.analysis.type
         /\ a.analysis.completion = Completion[a.status] /\ a.analysis.convergence = Convergence[a.status]
         /\ Positive(a.analysis.counts)
         /\ a.evidence.binding = "exact" /\ a.evidence.freshness = "fresh" /\ a.evidence.structure = "valid"
    /\ a.status = "pass" => a.exit = <<0>>
    /\ a.status = "unknown" => a.diagnostics # {}

(* The records are verified: absent ones are absent, the others are read   *)
(* again, none larger than the verification's bound, nor all together.     *)
Verifies(fs, r) ==
    IF r.exists THEN r.path \in DOMAIN fs /\ fs[r.path].is = "file" /\ fs[r.path].size = r.bytes /\ fs[r.path].sha = r.sha
    ELSE r.path \notin DOMAIN fs
FilesVerify(a, fs) ==
    /\ \A r \in ToSet(a.inputs) \cup ToSet(a.artifacts) : Verifies(fs, r) /\ r.bytes <= Min({MaxTotal, Max({MaxData, MaxTarget})})
    /\ FoldLeft(LAMBDA total, r : total + r.bytes, 0, a.inputs \o a.artifacts) <= MaxTotal
Accepts(d, a, fs) ==
    /\ Echoes(d, a) /\ EvidenceFits(d, a) /\ InputsNamed(d, a) /\ SnapshotsStand(d, a, fs) /\ DestinationHolds(d, a, fs)
    /\ ProfileHolds(d, a) /\ FilesVerify(a, fs)
-----------------------------------------------------------------------------
(* Each product of the capability that is chosen has a passing record of   *)
(* this version of the driver, of the maturity that the capability claims. *)
Vouched(d) ==
    LET c == d.manifest.capabilities[Chosen(d)[1]] IN
    \A p \in c.products : \E r \in ToSet(d.manifest.records) :
        /\ p \in ToSet(r.products) /\ r.status = "pass" /\ r.version = d.manifest.driver.version
        /\ Maturity[r.level] >= Maturity[c.maturity]

(* What an accepted verdict rests on: each file of the request is one of   *)
(* its inputs, as it was before and is after; the other records are true   *)
(* too; and it has a result and a log, in the destination.                 *)
Content(fs, p) == IF p \in DOMAIN fs THEN fs[p].sha ELSE "none"
Evidenced(d, a, fs) ==
    /\ \A l \in ToSet(Locators(d.request)) :
         /\ \E i \in DOMAIN a.inputs : a.inputs[i].path = l.path /\ a.inputs[i].sha = Content(d.files[1], l.path)
         /\ \A i, j \in DOMAIN a.inputs : a.inputs[i].path = l.path /\ a.inputs[j].path = l.path => i = j
         /\ Content(d.files[1], l.path) = Content(fs, l.path) /\ l.sha \in {"", Content(fs, l.path)}
    /\ \A r \in ToSet(a.artifacts) : Within(r.path, Destination(d))
    /\ \A r \in ToSet(a.inputs) \cup ToSet(a.artifacts) :
         IF r.exists THEN fs[r.path].sha = r.sha /\ fs[r.path].size = r.bytes ELSE r.path \notin DOMAIN fs
    /\ \A role \in Needed : \E r \in ToSet(a.artifacts) : r.role = role /\ r.exists
    /\ \A i \in 1 .. 3 : a.analysis.counts[i] > 0
    /\ a.status = "pass" => a.exit = <<0>>

(* The deck is one control block amid its cards, with one analysis.        *)
Told(lines, b, e) == {i \in b + 1 .. e - 1 : lines[i].say # "comment"}
OneBlock(lines, card) ==
    \E b, e \in DOMAIN lines :
        /\ lines[b].say = ".control" /\ lines[e].say = ".endc"
        /\ \A i \in DOMAIN lines : ~lines[i].long /\ (lines[i].say \in {".control", ".endc"} => i \in {b, e})
        /\ \E s, n, w \in Told(lines, b, e) :
             /\ s < n /\ n < w /\ lines[s].say = "save" /\ lines[n].say = "analysis" /\ lines[w].say = "write"
             /\ lines[n].card = card /\ Parses(card) /\ lines[w].safe
             /\ \A i, j \in Told(lines, b, e) \ {s, n, w} :
                  i = j /\ n < i /\ i < w /\ lines[i].say = "linearize" /\ card.kind = "tran"

(* What a verdict of this provider rests on: the simulator's own, of the   *)
(* one analysis of the deck, which is the asked one; every file that the   *)
(* run used is one of the inputs and is after it as it was before, as are  *)
(* the directories; and those that have a digest had it.                   *)
Digests(d) == {d.request.target.locator, RoleLocator(d.request, "simulator-configuration"), RoleLocator(d.request, "pdk"),
               Config(d).init, Config(d).system}
UsedBy(d)  == ToSet(Opened(d)) \cup {x[1] : x \in ToSet(Rechecked(d))}
OwnVerdict(d, a) ==
    LET was  == Before(d)
        fs   == After(d)
        card == ControlBlock(ControlDeck(d)).card
    IN /\ a.status = d.native.status
       /\ \A p \in UsedBy(d) :
            /\ Same(Record(fs, p), Record(was, p))
            /\ \E r \in ToSet(a.inputs) :
                 /\ r.path \in {Target(was, p), Target(fs, p)} /\ r.exists = Record(was, p).exists
                 /\ r.exists => r.bytes = Record(was, p).bytes /\ r.sha = Record(was, p).sha
       /\ \A ref \in Digests(d) : Own(was, ref.path) /\ was[ref.path].sha = ref.sha
       /\ KeepsDirs(d, was, fs)
       /\ OneBlock(ControlDeck(d), card) /\ SameAnalysis(Normalized(d.request.parameters.analysis), AnalysisOf(card))
       /\ a.analysis.counts = d.native.counts \/ \E i \in DOMAIN d.native.captures :
            LET c == d.native.captures[i] IN Shows(c, Normalized(d.request.parameters.analysis)) /\ c.counts = a.analysis.counts
=============================================================================
