# OpenADA in TLA+

OpenADA turns an engineering intent into runs of native EDA tools and returns evidence: an envelope whose verdict
must be about the inputs it names and rest on the files it cites. Almost everything that can go wrong without a test
noticing lies around the native process: threads that drain pipes, processes that outlive their parent, files that
change between two looks, calls that share a directory, calls that are killed. These modules model that part of
`src/src/openada`, TLC checks them on small instances, and TLAPS proves the safety results for all values of the
constants. `PROJECT.json` lists the components, runs, hazards, findings, theorems and, per definition, the source
lines it stands for.

## The system

| Component (under `src/src/openada/`) | State | Operations | What makes it correct |
|---|---|---|---|
| Bounded execution (`process.py`) | child group, two reader threads and their buffers, deadline | `run_process` | returns; complete tail or a killed group |
| Provider runtime (`provider_runtime.py`) | request inputs, launch files, private copies, three threads, evidence parent | `invoke_local_provider` and its resolution, transport, validation | an accepted result comes from what was resolved and bound, over a clean transport |
| Publication (`operations/testbench_plan_ngspice.py`, `testbench_plan_runner.py`, `experiment_template.py`) | target and staging directories | check, stage, write, recheck, rmdir, rename, clean up | the target is whole and nothing is overwritten |
| ngspice driver (`engines/spice.py`) | deck record, control script, temporary and final outputs, captures | `NgspiceDriver.simulate` | the verdict is about the recorded deck, from evidence of this run |
| Output parsers (`engines/*_outputs.py`) | none | validators of raw, netlist-comparison and layout reports | reject what is not complete and well formed |
| Other drivers (`engines/xyce, verilator, yosys, opensta, klayout_engine, netgen, xschem, hdl, rtl_test`) | as ngspice, per tool | record, run, capture, judge | as ngspice |
| PDK binding (`pdk_bindings.py`, `pdk_startup.py`, `pdk_collateral.py`) | captured closure, snapshot directory | resolve, capture, publish, verify | the snapshot is one consistent preimage, immutable under its digest |
| Compilation (`osdi_compile.py`, `cosim_compile.py`, `block_library.py`) | private sources, compiled objects | snapshot, compile, record, recheck | the object comes from the recorded source |
| Experiments (`operations/experiment.py`) | output directory, children, artifacts, manifest | validate, run children, measure, derive, audit, write manifest | a pass means every child passed and every retained file is what was recorded |
| Testbench plans (`operations/testbench_plan*.py`, `testbench_oracle.py`) | compilation, condition runs, observables, receipt | compile, execute, publish, compare | a receipt binds deck, run and observable |
| Simulation operations (`operations/simulate.py`, `circuit_simulate.py`, `testbench_simulate.py`) | request, dispatch | validate, dispatch, wrap | one driver, one envelope, honest status |
| Measurements and judgement (`operations/result_*.py`, `specification_evaluate.py`, `drc_*.py`, `conformance*.py`, `contract.py`) | none | extract, measure, evaluate, compare | never conclude from missing or unstable evidence |
| Discovery, registry, command line (`discovery.py`, `driver_registry.py`, `preflight.py`, `cli.py`) | none | look up tools, dispatch | refuse rather than guess |

Interactions: an operation pins digests and calls a driver; every driver calls `run_process` (the provider runtime has
its own transport because it feeds stdin and must not accept after the group is gone); drivers return envelopes built
with `contract.py`; experiments and testbench plans retain those envelopes and files and publish directories. Nothing
is shared in memory between calls: they meet in the file system and in the process table. The hard behaviours are
therefore threads inside one call, processes that fork, detach and hold pipes, files edited between two looks, two
calls in one directory, and a call killed in the middle.

## Modules

| Module | What it is |
|---|---|
| `ProcessGroup` | the processes of one launched command: fork, leave the group, close a pipe, exit; the launch and the kill of the group. Used by the next two |
| `ProcessRun` | one `run_process` call: main thread, two `_drain` threads, the processes, the deadline |
| `BoundedRun` | the abstract promise of `run_process`: refusal, start, free running, one-step answer |
| `ProviderInvocation` | one `invoke_local_provider` call: calling thread, `_write_stdin`, two `_drain_bounded`, the provider's processes, an outsider editing files |
| `DirectoryPublish` | several publishers and an outsider on one target directory |
| `NgspiceDriver` | several `simulate` calls and their ngspice processes on one deck and directory, an outsider editing the deck |
| `ExperimentRun` | several `run_experiment` calls given one output directory, and an outsider editing its files |
| `PdkClosure` | one `resolve_pdk_binding` up to the publication: the two descents through the PDK's libraries, and an outsider changing the installed tree |
| `PdkSnapshot` | what becomes of that capture: `publish`, `verify_snapshot`, the native runs enclosed by it, the cleanup at exit, and an outsider changing the snapshot |
| `TestbenchRun` | one corner of a testbench plan: its stages, their conditions, what is evaluated, bound and reported, while the DUT's file may be replaced |
| `TestbenchOracle` | `TestbenchRun` and the comparison of the published report with an oracle |
| `ToolDriver` | several calls of one of eleven other tool operations in one evidence directory, while somebody edits an input, replaces the executable or overwrites evidence |
| `SimulateCall` | several `circuit.simulate` calls with one directory of decks, from the source of models to the weakest result, while somebody edits what they read |
| `TestbenchPlan` | the validation of a testbench plan, and what the compiler and the runner make of a plan that passed it |
| `ExperimentSpec` | the validation of an experiment's document, and what its runs ask of the binder, of `extract_result_series` and of the measurements |
| `Waveform` | the scalars of a series and of a frequency response, and the spectral ratios of a tone with its FFT: `measure_result`, `measure_transfer`, `measure_spectrum` |
| `SpecificationEvaluate` | the judgement of measurements against limits: `evaluate_specification` |
| `EvidenceReceipt` | one verification of a signed receipt, `verify_typed_evidence_receipt`, while others edit its files and directory |
| `Oscillator` | the figures, the verdict and the receipt of an oscillation, and what two receipts or a grid of them come to: `measure_oscillator` |
| `ExperimentTemplate` | the compilation of a template to an experiment and its specifications, over `ExperimentSpec` and `SpecificationEvaluate` |
| `RawSeries` | the validation of raw and wrdata files, their binding to the analysis that was asked for, and `extract_result_series` |
| `Reports` | what Netgen's report, JSON and transcript and KLayout's marker database must say for `layout.lvs` and `layout.drc` to conclude |
| `BlockLibrary` | what loading a library of behavioral blocks accepts, and the prelude that a selection of blocks is composed to |
| `NativeDeck` | the compiled realisations of a block (Verilog-A module, digital co-simulation object), what is composed of them, and the decks that may use them |
| `CircuitProfile` | the shared `circuit.simulate` profile: cards, typed parameters, the inspection of a deck, and what a native result says in the profile's terms |
| `ProviderContract` | what host and external provider say to each other and check: manifest, profile, request, result; and what the ngspice PDK provider makes of a request |
| `*_proofs` | the theorems about the module they are named after; those of `SimulateCall` are in `NgspiceDriver_proofs`, those of `DirectoryPublish`, `ToolDriver` and `EvidenceReceipt` in `EvidenceFiles_proofs`, those of `SpecificationEvaluate` and `Reports` in `ExperimentRun_proofs`, those of `Waveform` and `Oscillator` in `TestbenchRun_proofs`, those of `ProviderContract` and `CircuitProfile` in `ProviderInvocation_proofs` |
| `MC*` | the instances TLC checks |

**ProcessRun.** `pc` is the line the main thread is at: `called` (validation and launch), `waiting` (`process.wait`),
`join`, `check` (`any(reader.is_alive())`), `grace` (the one-second joins), the two closes, `decode`, `sizes`, `flags`.
Each statement that reads what a live reader may still change is a step of its own, so a report can be built while a
reader is between counting and appending. A byte is its position in the stream, so the tail buffer is an interval, and
`AppendTail` is the code's arithmetic on it. A buffered `read(n)` returns a full block or what is left at end of file;
end of file needs every process to have closed the write end. `_drain`'s swallowed `OSError` is `ReadFails`.

**ProviderInvocation.** The steps of the call in order: resolve and hash the inputs, pin the evidence parent, identify
the launch files, copy them (in two halves, with the identity checks before and after), launch, wait or time out,
join, close, rehash the private copies, take the observation, recheck launch files and parent, classify the transport,
parse, rehash inputs, check files. A file is the number of its last edit; an identity includes the change time and so
never repeats; the parent is identified without times, so two swaps restore it. What makes a manifest, result or
recorded file invalid is abstracted: every such check may refuse.

**DirectoryPublish.** One action per statement between two of which another process can run. The testbench publishers
recheck a target that was empty; the template compiler does not and follows links. `Kill` may strike anywhere.

**NgspiceDriver.** One action per look at, or change of, a file that calls share: record, scan, write and reread the
control script, launch guard, launch, move log and raw file (with the look after the move, which a move across devices
does not have), capture (open, then hash against the path), recheck the inputs, read the captured log by its digest,
decide. A file's content is the call whose ngspice wrote it. ngspice opens the script and the deck when it likes,
writes when it likes, and survives the death of its caller in a session of its own.

**ExperimentRun.** `pc` follows `_run_experiment_impl`: the look for an empty directory, the specification and the base
deck, then per analysis the deck, `simulate`, the capture of its retained envelope, the tests of that envelope, the
extraction and the measurements; then the derivations, the judgement of the whole set of children, the two audits, the
log, the report. Writing a file (`Put`, exclusive creation) and recording what is read back (`Record`) are two steps, and
each audit looks at one file per step, so edits fall between any two of them. A digest is the number of writes and edits
of the file. A child envelope is the set of the code's tests it would pass: the loop and `_complete_child_states` make
different ones (`SimFacts`, `ChildFacts`, `Asked`), and the envelope's content is otherwise nondeterministic. `Break` is
an error of a file operation or a kill, anywhere. `simulate` itself is one reading of the deck and one return; its
driver is `NgspiceDriver`.

**PdkClosure.** The recursion of `capture_transport_closure` and of `walk` is the variable `stack`: a frame is a view (a
file and the section selected in it), its next line, the section open there and whether the selected one was seen. One
action per call, per line and per return; a call is part of the line that makes it. A file's body is its sequence of
directives (`include`, a `.lib` of a file, a section's begin and end, a `.model` or `.subckt`, a malformed one), any other line being
absent. `carried` and `walked` are `_transport_walked` and `_walked_views`; `_capture` reads the installed file once and
may fail on a new file; every target is looked up in the installed tree first, and may have gone.

**PdkSnapshot.** `publish` is a step per file created, file filled, directory sealed, the rename and each file read
again; any of them may fail, and the `rmtree` that follows removes only what is below writable directories.
`verify_snapshot` is a step for the root, for each record, for each directory of the walk (`seen` is `observed_files`)
and for the comparison, so a change can land behind it. `after` says what a verification is for: the end of
`resolve_pdk_binding`, a mere user (`_pdk_namespaces`, `_resolve_model_source`), the launch or the report of
`_run_bound_deck`. The native run reads paths in any order, undeclared ones too. A *loose* file has the right bytes but
the wrong mode, link count or kind.

**TestbenchRun.** `pc` is the loop of `execute_testbench_plan_ngspice` the call is in: `stage` (the topological order,
with `prepare_testbench_plan_ngspice` as one step that captures the DUT's file), `condition` (one executor call per step,
in compiler order), then the evaluation of the stage and the bindings out of it as one step, the report, and its
publication. A condition's identifier holds its point, its sample of the DC grid and the DUT in its deck. `lineage` is
`condition_values` reduced to the conditions behind a measured point, `upstream` is `stage_upstream_lineage`; what a
measurement comes to, and what a rule says of it, is chosen. A point whose DC range names a stage input cannot be
enumerated when its stage is refused. The report is `_evaluate_plan_outputs`, source kind by source kind.

**TestbenchOracle.** One step, `Compare`, whose operators are the row functions of `testbench_oracle.py`. A row that
compares numbers is decided by a choice once its evidence is complete; recall, false-valid rate, completeness and
lineage are counted, with the row's limit as a number of what is counted.

**ToolDriver.** A driver is its sequence of steps (`Steps`), taken from its code in order: record, scan the includes,
pull in the declared second input, stat and probe the executable, ask whether the evidence names are free, claim them,
run, bring the product to its final name, write the transcript, read the evidence, look at the inputs again, record what
is kept, judge. The operations are `rtl_lint`, `rtl_test`, `rtl_check`, `synthesize`, `timing_analyze`, KLayout's `drc`,
Netgen's `lvs`, Xyce's `simulate`, Xschem's `netlist`, `drc review` and `drc compare`; each has its own judgement. A
review runs KLayout on a script and markers of its own; a comparison runs nothing and reads the two reports itself. A file says who wrote it, after
whose script, with which executable and from which inputs. The native process loads what it needs in two steps, which
is as many as a single edit can tell apart.

**SimulateCall.** `at` is the step that a call is before, and `Follows` the one after it, which depends on the request and
on how many analyses have run: the library and the objects of a model source, the text, its record, and for each analysis
the objects again, the derived deck written and read back, and the driver's entry, launch guard, run and recheck. A text is the versions of the deck and the library it was composed of
and the kind of its models. `Weakest` is `_weakest`. The driver's inner life is `NgspiceDriver`'s; here it is its four
looks at the files, so that what the operation pins can be compared with what ran.

**EvidenceReceipt.** The steps of the verification in its order (a refusal closes whatever is open): each file of the chain opened (its directory's identity
and its own looked at) and read, the signature, the comparisons between the documents, the replay of extraction and
measurement, then each file looked at again. `moment` remembers what every file held when the second look began.

**TestbenchPlan.** No state: a plan is a record, `Accepted` the conjunction of the validator's checks in its
order (each check adds an issue, any issue refuses), and what comes after is operators of their own, taken from the
compiler and the runner: the order of the stages, the lookups a deck needs, its devices and nodes, what each probe saves,
and a value for each measurement, of which only the shape and the dimension are kept. Names are compared with and
without their case, as in the code. The JSON schema is what the instance's plans already obey.

**ExperimentSpec.** No state: `Accepted` is the conjunction of the checks that `_Validator` makes of the document, the
published device and the names of the PDK. What follows is taken from the code it is handed to: the cards and saved
vectors of each analysis, `bind_deck`'s own checks of them, which vectors are then in a raw file, the selectors and
units of `extract_result_series`, and what each measurement asks of the series (`Waveform`'s request
checks are used here). A native vector is a pair of quantity and folded name. `validate` composes and binds every deck
itself and would refuse there too; `Accepted` leaves those late checks out, and `SpecResolves` says that they are idle.

**SpecificationEvaluate.** No state: the normalisations of the measurement and of the specification as predicates, the
binding as the rules that select it, and the verdict with its margin over small integers.

**BlockLibrary.** No state: a host is the roots it searches, each with its manifest and its files, and what was selected.
`Loads` is the conjunction of what `load_block_library` checks (the candidates' agreement, every file against its record,
contracts, sources, public headers, references), `Compose` the closure and its text or a refusal. A name is a sequence of
parts, so that a block's namespace can be a prefix of another block's; a physical line is its mark, head and words, and
`Statements` drops comments and joins continuations as the code does.

**NativeDeck.** No state: the host of `BlockLibrary` with the tools of its machine, the caller's deck, what is asked to be
compiled and the compiled files at launch. `ComposeCosim` and `ComposeOsdi` are what the compilations compose, `CosimRuns`
and `OsdiRuns` what a deck is then refused for. The code reads a deck in two ways, and so does the module: `Folded` cuts
comments from every line before joining (parameters, names), `Stitch` joins the lines as they are (the count of instances).

**ExperimentTemplate.** No state: a template is the experiment's document with its substitutions beside it, each with the
site it stands at, its form and the name it refers to. `Compile` resolves constants, defaults and overrides, gives every
site its unit and its forms, puts the values there, computes the limits and has both validated by those who use them, in
the code's order as far as it can be told apart: any issue refuses.

**RawSeries.** No state: a file is a sequence of items (a header field, a row of the variables' table, a line with a value,
a binary scalar, a blank line) and `Plots` reads it plot by plot from the item where the last one ended, as the code does;
a payload takes as many items as its header states, whatever they are. `Bound` is what an analysis demands of its plot and
its axis, in exact arithmetic. `ExtractRaw` is the three passes over one descriptor: a *moment* is what a pass reads and the
stamp that the file has after it. `Extract` puts the checks of the simulation's result and of the request around it.

**Reports.** No state. `JsonSays`, `ReportSays` and `Clean` are what the three files of a comparison tell by themselves, `Lvs`
puts them together; a report is its lines, told apart by what they say, read one by one into comparisons as
`parse_netgen_report_stream` does. `LvsIsStated` and `DrcIsStated` are what a verdict has to have in its files, which the
runs and the proofs share. `Drc` is the verdict of a marker database: the children of its root in their order, the categories and cells they
declare, and the items with their geometries, each bounded as in the code.

**CircuitProfile.** No state: a request is a target, a typed analysis or none, and parameters; a deck is its lines with what
their first word is. `Issue` is the first trouble of a call in the code's order, `Points` the count that the limit is put
on, and the last operators turn the driver's envelope into the profile's result: which evidence counts, which code stands
for a diagnostic, what becomes of a verdict whose evidence is of another analysis. `LaunchIsBound` and `AnswerIsFounded` are
what a call and its result must satisfy, which the runs and the proofs share. Numbers are in halves of the unit.

**ProviderContract.** No state: the files are three functions on paths, as they are when the host resolves the provider,
when the provider reads them and when the run is over. The host's half is manifest, profile, request, the inputs that it
takes and takes again, the choice of capability and transport, and the tests of a result (shape, inputs, destination,
verification of the records); the provider's half is its stricter reading of the request, the one accepted control block,
the binding of the configuration, the run on a private copy and its answer. `ProviderInvocation` has the process between
the two, and abstracts exactly these tests to "may refuse". A size is one of four steps.

**Waveform, Oscillator.** No state: a series is a sequence of samples, and each measurement an operator that
returns a value, *not found*, *unknown* or a refusal, as the code does. Numbers are integers and ratios of integers.
In `Waveform` a trace is given in decibels and degrees over the logarithm of the frequency. A spectrum is computed in a
field of 17 elements with a root of unity of order 16, where the code's butterflies are exact; the powers of a spectrum
are given. In `Oscillator` `HystereticCrossings` is the scan with its one pending candidate, `Tree` the segment tree of
period statistics as a function on node numbers, `LateView` the comparison of the halves of the window, and
`ReceiptFits` what a consumer checks of a receipt before a grid or a shift is computed of it.

## Runs

| Run | Instance | Checks | States |
|---|---|---|---|
| `process_run` | leader and one child, limit 2, block 2, 3 bytes per stream | below | 316 thousand |
| `provider_invocation` | leader and one child, limits 1, block 2, one edit | below | 695 thousand |
| `provider_hang` | the same without edits | a disagreement, see Findings | – |
| `ngspice_calls` | two interchangeable calls of the driver, one deck edit, all three output modes; or two of `circuit.simulate`, one edit or overwritten deck, all model sources | below | 3.0 million |
| `experiment_run` | two interchangeable calls, two analyses, of which one is measured and derived from, one edit, at most one failed test per simulation | below | 1.6 million |
| `pdk_closure` | a corner library with seven bodies, a cell library with five, a file they may include; two entries, one OSDI module; two changes of the tree | below | 316 thousand |
| `pdk_snapshot` | a library, the manifest and an undeclared path in two directories, two runs, three changes of one path, of all files or of a mode | below | 7.0 million |
| `testbench_run` | three stages in a chain of bindings with a point of two samples in each of two; two other corners for a refused settle policy and for too many conditions; two contents of the DUT's file; four tolerance rows | below | 72 thousand |
| `evidence_files` | compiler, runner and template compiler, two files and an outsider; or two interchangeable calls of each of eleven operations, one leftover file, one change of an input, the executable or a file; or one verification of a receipt and two changes | below | 1.2 million |
| `documents` | a correct plan of three stages with up to two of 47 edits; a correct experiment with one device, six elements, all four analyses, ten observations, nine measurements and a derivation, with up to two of 53 edits; a template of it with two constants, four parameters and a specification, with up to two of 53 edits; all waveforms of six samples at four levels, responses of five points, records in the finite field and spectra with every fundamental; an oscillation with up to two of its samples changed; grids of receipts; a library of four blocks under two roots and a deck that uses two of them, with up to two of 112 edits; a simulation of each of four analyses with its raw file, of three points and two or three vectors, and a table, with up to two of 76 edits; the files of a layout comparison and of a rule check, a request for a simulation with its deck and native result, and an exchange with a provider, each with up to two edits | below | 103 thousand |
| `plan_units` | the same | a disagreement, see Findings | – |
| `block_closure` | the same, one edit | a disagreement, see Findings | – |

* `process_run`. `ReportIsTrue`: a completed result holds exactly the last `Limit` bytes anybody wrote, the
  true count and the right flag; and however a report is interleaved with live readers, text, limit and
  count fit. `RunReturns`: the call returns although a detached process holds the pipes. `KeepsPromise`: the call
  implements `BoundedRun`.
* `provider_invocation`. `AcceptedIsBound`: what ran and what it read is what was resolved. `AcceptedTransportIsClean`:
  zero exit, within limits, nothing on stderr up to the moment it was closed. `NoGroupOutlivesCall`.
  `ReturnsUnlessDetached`: the call returns unless a process outside the group keeps an output pipe open for ever.
* `ngspice_calls`. `ConcludesAboutTheDeck`: a verdict is about the recorded deck. `VerdictFitsEvidence`: the log judged
  is the log cited, whoever else is in the directory. `AloneConcludesFromOwn`: without another active call or simulator
  the cited files are this run's own, whatever lies in the directory. `SimulatedAsVetted`: behind a conclusion of
  `circuit.simulate` through ngspice, every analysis that concluded ran the very text that was composed, or a bare deck as
  recorded, with objects of the reviewed digest, although the other call writes its decks over this one's; and a pass
  is a pass of all analyses.
* `experiment_run`. `PassIsGenuine`: behind a passing manifest every child passed every test, those of the loop and those
  of the judgement, and the simulator read the deck that was validated. `EvidenceStood`: there was one moment at which
  all records of a pass were true, though they were made and audited one by one.
  `OneRunPerDirectory`: of the calls that found a directory empty, one retains evidence in it.
* `pdk_closure`. `ClosureIsExact`: a captured closure is what the entries reach, read off the captured bytes by a
  definition that knows neither descent, and the namespace has the models of exactly those views.
  `SnapshotIsSelfContained`: the preprocessor finds every file that a captured library names, in whatever section.
  `CyclesAreExact`: what is captured has no cycle, and a refusal for one is deserved, so no legal selection of another
  section is refused.
* `pdk_snapshot`. `FinalIsWhole`: without interference the digest's directory is complete and sealed, kills and failures
  included. `ReportIsOfTheCapture`: a returned result was read from the captured bytes unless a path was changed *and* put
  back within the run; one change is caught whenever it lands. `Reclaimed`: a temporary directory is gone after an exit.
* `testbench_run`. `EvidenceIsWhole`: a measured observable names every condition it rests on, through all stages that
  feed it, each completed on the pinned DUT; every point has a receipt, and an inventory called complete has every
  sample. `ScoredOnSoundGround`: a verdict that could earn credit was passed on a
  completed point, its inputs coming from completed points found VALID. `PassIsEarned`: the same for what the command line calls a pass
  and for a comparison that passes, where missing evidence must not count.
* `documents`. `PlanResolves`: a plan that passed validation compiles, or is declined by one of five named limits; what
  its decks save and initialise is in them and every stage input has its value in time. `PlanUnits`: the declared unit is
  the dimension of the computed value, through curves, fits, crossings, charges and edges. `MeasuresAreTrue`: a rise is from
  the last crossing of the lower level before the upper one is reached, two crossings of one level have one of the
  other direction between them, a settled waveform stays within its band for the whole hold, and a bandwidth or margin
  is measured only when the response falls through its level once; the FFT is the transform's
  definition, harmonics fold to bins of their own in the band, and the band is shared out once between tone, harmonics
  and noise; every crossing is a rise through both hysteresis levels, the tree's statistics are those
  of its range, the start is the earliest window in which the cycles are even, a verdict fits its flags, and a receipt
  that is accepted again gives the figures that were measured. `SpecResolves`: an experiment that passed validation has no two
  cards of a name, saves only what is in its decks, selects only vectors that its raw files hold, within the extraction's
  limits and with their units and parts, asks of every series only what the measurement accepts, and gets the units
  that its derivations were checked with; a template that compiles yields such an experiment, with every value at its site and in
  its unit, in its declared range, limits that are their formulas, and no parameter that turns nothing. `VerdictsAreSound`: a pass or a fail has the measurement, unit, sources and conditions that the specification asks
  for behind it, and its margin says exactly how far the value may move before the verdict turns; behind a concluded comparison the tool exited cleanly, its report is whole and
  has one comparison of the two cells that were asked for, complete and with the JSON's counts, and no two endings, and with
  fewer of its last lines the verdict is the same or none; a pass has no difference in the JSON, no failure anywhere in the
  report and a match as its last word, a fail a difference in the JSON; a concluded rule check has the database of its own
  deck and top cell, in which every item is of one declared category and one declared cell and the markers of the categories
  are those of the items, and passes when there is no item; what an honest tool wrote is concluded from. `PreludeIsClosed`: a composed prelude has the
  closure's texts as published, dependencies first, defines each name once, and every subcircuit instance and every device of
  a modelled letter finds what it names in it. `DeckIsHonest`: a co-simulation that is launched has one
  instance, if its deck has no inline comments, whose parameters the realisation supports as each instance is given them,
  bound to a core with the contract's ports in their order; a compiled source reacts to no event, a preload loads reviewed
  modules only, and a deck reaches them through their wrappers. `SeriesIsNative`: an extracted series is, value for value and
  unit for unit, the vector of that name that the simulator computed in the one plot of the analysis, over the axis that was
  asked for, out of the bytes that the result recorded, although the file was cut, restated, edited between the passes or
  renamed; and what an honest run wrote is extracted. `AnswersAreBound`: a simulation that is launched is the one analysis of
  its deck, the one that was asked for, and its verdict is of that analysis; what the host accepts of a provider is about the
  files that it named, as they stayed, with evidence where it was to go; and it accepts what the PDK provider answers of itself
  about files that stand still. Not claimed, because the code does not keep it: an observation of ground (no
  raw file has it) and a transfer whose operands mix volts and amperes on both sides are valid and fail when run; nor
  that a measured instant or window lies within the sweep, which only the run can tell.
* `evidence_files`. `TargetIsWhole`: at every moment, kills included, the target of a publication is nothing, somebody
  else's, or one complete publication. `OutcomeIsTrue`: a returned call has its files there, a raised one left no staging
  directory. `NothingIsOverwritten`. `ConcludedFromRecorded`: a driver that looks at its inputs again concludes only about the inputs, and
  the executable, it recorded, includes that appeared during the run among them. `OwnEvidence`: a driver that claims its names
  concludes only from its own process and its own script, whoever else works there, and of the calls whose names must be
  free one concludes. `NoLeftovers`: nothing an earlier run left is ever judged. `JudgedIsKept`: what was judged is
  what the artifact records describe. `VerifiedStood`: when a receipt is accepted there was one moment at which every file of its chain
  held what was captured of it, the files are those that were signed for this job, and the value is what was replayed.

**Bounds.** Six samples are enough for two edges with a relapse in between, four levels for both thresholds and a value
beyond each; a window starts and stops at samples. `Limit = Block = 2` with three bytes reaches a chunk as long as the limit, a short last chunk and an
overflow that cuts an earlier chunk; one child suffices for every way a pipe outlives the leader, in or out of the
group. One edit lands at any moment of a provider call, and either half of the copy, so every check has a chance to
miss it; a second edit only restores the parent, about which nothing is claimed. Three publishers cover every pair of
kinds and a third that arrives between them; two files make a partial publication visible. Two ngspice calls and one
edit give every pairwise overlap and every place of the edit. An analysis with an
observation, its measurement and a derivation, and one without, go through every branch of the loop; an edit that no audit may miss needs
only one file, and one failed test per simulation envelope makes every test decide alone. The bodies of `pdk_closure` include a library that selects itself legally, one that
does so in a circle, one that a file it includes selects, an include that only the preprocessor sees, and malformed ones; depth, edges and
files are low enough to refuse. Three changes are one more than `ReportIsOfTheCapture` admits, and two runs show that those of an
earlier run excuse nothing. In `testbench_run`
two bindings in a row and a third beside them show what is lost between stages, a point of two samples how one of
them fails, and a ceiling of six conditions is met by the corner that needs seven. An analysis of up
to four points (`PointLimit`) is on either side of the limit after an edit of one of its numbers, four artifacts
(`MaxArtifacts`) are one more than a run leaves, and four sizes stand for the bounds on configurations, decks, artifacts and
totals. The theorems remove these bounds for safety.

**Fairness.** `ProcessRun`: the main thread, the two readers (a read that can return returns; a failing read is never
required) and the clock. `ProviderInvocation`: the calling thread, in whose wait the timeout is always enabled, the
writer and the two readers. Python threads of a live interpreter are scheduled and `wait(timeout)` returns, which is all
this asks. Native processes owe nothing: no exit, no write, no close. `DirectoryPublish`, `NgspiceDriver`,
`ExperimentRun`, `PdkClosure`, `PdkSnapshot`, `TestbenchRun`, `ToolDriver` and `SimulateCall` have no liveness property and no fairness.

## Findings

* `provider_hang`. After its one-second joins the provider transport closes stdout and stderr whatever the readers do.
  If a process that left the group still holds a pipe, `close` waits for the blocked read: the call outlives its
  declared timeout, which docs/DRIVER_PROTOCOL.md and docs/CONTRACT.md say bounds it. `run_process` has the guard.
* `plan_units`. The unit of a fit's intercept, taken by an edge between two stages, comes from the slope's unit by a table
  of three entries. A fit of a voltage over a voltage sweep has a slope of unit `1`, so its intercept, in volts, can only be
  bound as a number without a unit; docs/TESTBENCH_PLANS.md calls the edges unit-checked.
* `block_closure`. A resistor, capacitor or inductor of a block may name a model that the block does not have: its words
  are not looked at, and the name is then taken from whatever deck includes the prelude. The module says of itself that
  every model and subcircuit reference must resolve inside the composed closure.

Met on the way, and named in the properties as the exceptions they are: two overlapping ngspice calls with one source stem
and output directory may pass on each other's files (`AloneConcludesFromOwn` asks for a call without company); a
completeness row counts the verdict that a rule of an unexecuted condition is given; a stimulus called like one source of
a phase pair gives a deck two devices of a name; a small-signal stimulus active in a point that is not AC trips the
compiler; a bare deck is read once to be vetted and composed and once more to be recorded, so after an edit in between the
input record of a composed run names other bytes than were simulated; Xyce's driver is given no digest of the derived deck,
so that nothing is claimed of what it ran; a charge integrated over a DC sweep is still called a charge; the list of signs is declared a scalar;
the count of a deck's co-simulated instances does not cut inline comments, so a comment at the end of an instance's card or
between it and its continuation hides the instance or makes one up; a block comment of a Verilog-A source that has `//` in
it may hide an event from the screening, which takes out line comments first; in a padded plot the filling of a vector that is
shorter than the others is extracted as if it were values.


## Proofs

Each proof module states one inductive invariant as named conjuncts, proves one lemma per conjunct with one step per
action, and concludes with the temporal step. All constants are arbitrary, under the assumptions named in the modules
(`LeaderAssumption`, `SizesAssumption`, `BoundAssumption`, `LimitAssumption`, `BlockAssumption`, `PublisherAssumption`,
`FilesAssumption`, `NobodyAssumption`, `ExperimentAssumption`, `NameAssumption`, `BodyAssumption`, `ProfileAssumption`,
`PathAssumption`, `DirAssumption`, `ChangeAssumption`, `RunAssumption`, `PlanAssumption`, `BindingAssumption`,
`ObservableAssumption`, `RowAssumption`, `ToolAssumption`, `CallAssumption`).

* `ProcessRun_proofs`. A report's correctness is not inductive by itself: the invariant ties each buffer to its total
  and to what was written (`TailInv`), says what each `pc` implies of readers and status (`StatusInv`, `CloseInv`) and
  what each field already copied still satisfies (`ReportInv`). From it `CaptureCorrect`, `ReportCorrect`,
  `CompletedDrained`, `TimeoutKillsGroup`, and `PromiseKept`, the step simulation of `BoundedRun`.
* `ProviderInvocation_proofs`. `BoundInv` records that identities only grow and that a copy made between two equal
  looks is of one version; `GroupInv` that after the wait nothing of the group is alive; `ReaderInv` what a reader over
  means for the bytes left in the pipe; `CheckInv` what each passed check has established. From them `AcceptedBound`,
  `AcceptedClean`, `NoGroupSurvives`.
* `EvidenceFiles_proofs`, of `DirectoryPublish`. `StagingInv` says what is staged at each `pc`; the key lemma is that the target changes
  only by the outsider, by removing an empty directory or by a rename over nothing. From them `TargetWhole`,
  `OutcomeTrue`, `NothingOverwritten`.
* `EvidenceFiles_proofs`, of `ToolDriver`. The eleven programs are read in one place: the lemma `StepOrder` says what is behind
  a call at each step, and nothing after it looks at a program again. `VersionInv`: what was recorded is not newer than what
  the process read, and that not newer than what is there; an edit is never undone, so a digest found again was there all the
  while, which is why looking twice is enough. `FileInv`: what lies at a name and leads back to a call says what its process
  said. `ScriptInv`: the process ran the script that the call wrote, as far as the script that is there is the call's.
  `AloneInv`: whoever created the transcript exclusively is alone. `FreshInv`: nothing of an earlier run is at a name that was
  asked to be free or moved to. From them, for any calls and any number of changes, `ConcludesFromRecorded`,
  `ConcludesFromOwnEvidence`, `ConcludesFromNoLeftovers`, `KeepsWhatItJudged`.
* `EvidenceFiles_proofs`, of `EvidenceReceipt`. A stamp is never given twice, so a file that still has the stamp of its
  capture has the captured content (`CaptureInv`). What is left of a list of records tells which of them were found. `PhaseInv`
  says what the verifier knows in each phase: the chain is the scheduler's for this job (`Chained`), the records were found
  and the replay agreed (`Replayed`), and every file that keeps its stamp held its content when the second look began. From it
  `WhatIsVerifiedStood`, for any tampering.
* `NgspiceDriver_proofs`. `Frame` says that a step keeps what every other call remembers. On it rest `DeckInv` (what a
  simulator read lies between the digest its call recorded and the present edit, so that equal ends mean nothing
  happened in between), `LogInv` (a log that exists was written by a simulator that had read its deck, so what it says
  is settled), `QuietInv` and `OwnInv` (a call that is alone has the directories to itself, and from the step that
  clears, moves or captures a file, that file is its own). From them `DeckConcluded`, `VerdictFits`, `AloneOwn`.
* `NgspiceDriver_proofs`, of `SimulateCall`. `Progress` counts results and readings by the step a call is before; `Held` says
  that its text is settled once it is loaded; `Ran` that the file which the driver recorded holds the call's text unless it was
  written over, in which case only a call that composes the same text could put it back, and that what a simulator read of a
  bare deck lies between its record and now. `Done` keeps this of every result that is drawn; the objects of a PDK are
  looked at only after the run, so of them it speaks when the call is over. `Replied` relates the weakest result to one or
  two of them. From these `RepliesAsVetted`, for any calls and any number of edits.
* `ExperimentRun_proofs`. Digests only grow, so a record that is not true any more is `Stale` for ever. An analysis that
  passed has good envelopes behind it (`Backed`), except that the vectors found in the raw file may not be those of the
  envelope, and then the raw file's record is stale. `Judged` says that a pass without a stale record had all its
  evidence true, and that a stale record is still before the final audit: the audits thus decide what the loop could
  not. `Directory` says that whoever put the specification owns the directory alone. From them `PassEarned`,
  `EvidenceTrue`, `DeckValidated`, `DirectoryOwned`; `Keeps` carries the invariant over the other calls and the edits.
* `PdkClosure_proofs`. `Shape` reduces the actions to what a step does to the stack. `CarriedIsClosed` follows the first
  descent: what a carried file links to is carried or has a frame. `Sections` says that a frame knows the section its
  line is in, for which two lemmas relate the walk's one variable to the definition over the whole body. `Recording`,
  `Reading` and `Origin` say what has been recorded, what a frame has read up to its line, and where a record came from;
  `Descending` that a walked view has its children among those walked before. `Path` ties each frame to the line that
  called the next. From them `SelfContained`, `Exact`, `Acyclic` and `CyclesAreReal`, for any tree, profile and ceiling:
  no bound on the depth of a real PDK is involved.
* `PdkSnapshot_proofs`. `Publishing` says how far the tree is at each `pc` while nobody interferes, `Room` when there is
  no tree. `Watching` carries the argument for the two verifications: a path untouched since the first passed it is
  fine; what a run found otherwise is, after at most one change, still otherwise; so the second verification, once past
  it, has found it out. From them `FinalWhole`, `LeavesNothing` and `ReportGenuine`.
* `TestbenchRun_proofs`. `Rested` says that a measured point completed and rests on completed conditions only, `Passed`
  that a bound value's conditions are behind the stage it feeds and every rule found it VALID, `Fed` that this holds of
  all a stage's inputs; `Done` keeps the stage being run apart, so that evaluating it disturbs no earlier point.
  `Counted` follows a point's samples from the queue to the receipts, and `Grounded` ties a point without values to a
  refusal. From them `EvidenceClosed`, `ScoredSound`, `InventoryHonest`; with the comparison, `PassEarned`.

* `ExperimentRun_proofs`, of `SpecificationEvaluate`. `VerdictEarned` says of any measurement and specification record, for
  any range of numbers, what `VerdictsAreSound` checks on documents. The reported margin is the least one, so a value that
  moves by less stays on its side of each limit (`Sides`, `LeastMargin`); it is then judged by `Conclude` again, and alike
  (`JudgedAlike`). `Matched` counts the conditions bound before the first that is not, so it is all of them only if each is
  (`LeftOver`, `WholeEvidence`).
* `ExperimentRun_proofs`, of `Reports`. `ComparisonsAreStated` and `RuleChecksAreStated` prove `LvsIsStated` and `DrcIsStated`,
  which `VerdictsAreSound` checks on documents, for reports, JSON and databases of any length. The reader of a report keeps
  four first pairs, a flag and a last pair for each comparison; its invariant (`ReadUpTo`) says that after n lines these are
  what the lines of the comparison's block say first or last (`Records`), that the blocks found begin at the summaries, in
  order, and which section is open. A line either opens a block or extends the last one by one (`BlockGrows`, `KeepRecords`).
  At the end the comparison of the asked cell is the only block of it (`ReportIsSaid`). `Total`, `DrawItem` and `Drawn` are
  recursive functions too: steps within a set exist (`StepsExist`) and stay in it (`AllReached`); no marker is lost in the
  total, so no count is clean by summing (`MarkersAreCounted`). The hypotheses are that reports, JSON, sections and lists of
  names are sequences, that a shape has a number of corners, and that at a waiver's path there is one or none.
* `TestbenchRun_proofs`, of `Waveform`. `SettledIsSettled`, `EdgeIsOneEdge` and `CrossingsAreSeparate` say of series, and
  `FallIsTheOnlyOne` and `PhaseIsFollowed` of responses, of any length what `MeasuresAreTrue` checks on six samples or five points. Induction over a series is by least counterexample: a set
  of indices has a least element (`LeastIndex`), from which follow that an axis growing from sample to sample grows
  (`Growing`), that a waveform below a threshold and later not below it rises through it somewhere between
  (`SomewhereRises`), and that the k-th crossing is that of the k-th segment (`Ranked`). `OneRise` is the argument about an
  edge: a sample below the lower threshold would have to rise through it once more, and be the next start before the end; one
  above the upper has risen through it, and there was an earlier end. A fall is a rise of the series upside down (`Mirror`).
  `EdgeIsOneEdge` and `CrossingsAreSeparate` assume `Scaled`, that each step of the axis is a multiple of the rise or fall in it: crossings are
  integers here where the code has fractions, and any series of ratios can be scaled so; those of the run are. The segments
  in which a response falls to a level and the stretches it is then below it are one to one (`FallsToStretch`). The
  unwrapped phase is a recursive function: that there is one which satisfies the recursion is proved by extending a prefix
  (`UnwrappedPhases`).
* `TestbenchRun_proofs`, of `Oscillator`. `CyclesAreReal`: the crossings of the hysteretic scan are exactly the rising zeros
  that a sample at or below the lower threshold arms and one at or above the upper confirms, in order, a sampling step apart
  and inside the searched stretch. The scan is a recursive function over the samples; that one satisfying it exists is proved
  by extending a prefix, and its invariant says which crossings have been found up to a sample (`FoundTo`) and what is known
  while one is awaited (`Waiting`). `VerdictsAreTrue`: sustained, collapsed and never started are true of the wave, of every
  stretch between the samples too. The wave is linear between two samples, so that its extremes are at breakpoints, and a
  wider stretch has no smaller peak-to-peak value (`Wider`). It assumes a sampling step of at least 100 units of time, so that
  what the integer division of a period loses cannot matter (the run has 151200). `GainsAreTrue` and `GridsAreTrue` say the same of the
  sensitivities of a curve, and of the shifts between two receipts and over a grid of them: a grid is accepted exactly if each
  pair in it would be, its span is not exceeded, and a direction that passed has no pair against it.
* `ProviderInvocation_proofs`, of `ProviderContract`, what `AnswersAreBound` checks on documents. `ChosenIsVouched`: each
  product of the capability that a request is resolved to has a passing record of this driver's version and of the claimed
  maturity. `AcceptedIsEvidenced`: a verdict that the host accepts, whoever gave it, is about the files of the request as they
  were before the launch and are after it. `DeckIsOneBlock`: a deck of any length that the provider accepts has exactly one
  control block, and in it one analysis, after everything is saved and before one safe write; the scan is a recursive function
  over the lines, `DeckScan` gives its states, `ReadTo` and `Heard` are its invariant. `OwnVerdictStands`: an accepted verdict
  of the ngspice provider is the simulator's, of that analysis, and each file of the run is one of its inputs, with one content
  before and after. A refused or changed answer is unknown (`VerdictOfRun`); `InputsName` unfolds the six appends from
  which the inputs come, `BoundBefore` ties each to its digest. The hypotheses say that a report has its fields, that decks
  are sequences and that each file has a kind. Of `CircuitProfile`, `LaunchesAreBound`: a call without an issue runs the one
  analysis card of the inspected deck, which is the asked one and within the limit of points, with no file taken in, bound to
  the inspected digest; only the digest is assumed to be there. It needs that the analyses called the same have as many points
  (`SamePoints`), since the limit is checked before the two are compared. `AnswersAreFounded`: a verdict is the driver's own,
  with its counts or those of the first valid capture of the asked analysis; a missing verdict has a diagnostic, and an error
  where the driver had one; exact and fresh evidence is of a stable run that left no torn file. The run checks both as they
  stand in the module (`LaunchIsBound`, `AnswerIsFounded`).

Only model-checked: the liveness properties (`RunReturns`, `ReturnsUnlessDetached`), since temporal reasoning with
`ENABLED` is out of the prover's reach, and the nine invariants of `documents` (`PlanResolves`, `PlanUnits`,
`MeasuresAreTrue`, `SpecResolves`, `VerdictsAreSound`, `PreludeIsClosed`, `DeckIsHonest`, `SeriesIsNative`,
`AnswersAreBound`), except for the parts above. Of `MeasuresAreTrue` the spectrum, the figures and the receipt of an
oscillation (`FiguresAreReal`, `ReceiptIsReal`) are left, of `VerdictsAreSound` that an honest comparison or rule check is
understood and that the markers are the sum over the categories, of `AnswersAreBound` that
an honest exchange is accepted and that card and parameters are read alike. The values of the others are folds and recursive functions over a document, a file or a wave: what those compute for every input takes an induction
that the library states for an operator, which no prover here can instantiate. Where a definition can be written with sets, as
the crossings of a series are, or as a recursive function over the indices of one sequence, the least counterexample replaces it.

## Assumptions and what is left out

* A one-second join suffices for a thread that waits for no process. An `OSError` from a pipe read is modelled in
  `ProcessRun` only.
* Process numbers are not reused; `KillGroup` reaches exactly the group.
* Removing a staging directory succeeds.
* Editing the deck never restores earlier bytes (the driver compares digests, and documents this residual).
* In `NgspiceDriver` the first look at the outputs is one step with the scan and the second one with the launch guard;
  a call whose result can only be `unknown` returns at once, since nothing it still does touches a shared file;
  structure, measurement and stream evidence may take a conclusion back and never make one.
* In `ExperimentRun` the outsider edits files that are there and creates none; an edit never restores earlier bytes; a
  digest names its content, so the bound digest of a deck comes from that deck only; validation (`ExperimentSpec`) comes before.
* In `PdkClosure` the profile's families, corner and root are resolved before; an include or a `.lib` names a file by its
  path in the tree (escapes, links and absolute locators are refusals like a missing file); `.param` and `.global` names are
  left out of the namespace, as are the profile's own device models that it starts with.
* In `PdkSnapshot` the mode bits bind (the process is not root), nobody interferes with the cleanup at exit, an undeclared
  empty directory is not represented, and a fresh `mkdtemp` name makes each publication private.
* In `TestbenchRun` a validated plan is what the constants' assumptions say (each input has one binding, from a stage that
  the target depends on); carryover and the other refused constructs are `Uncompilable` stages, reductions are never
  evaluated, as in the code; a timed-out attempt is a failed one; the tests' prepared compilation is not modelled. In
  `TestbenchOracle` documents that the comparison rejects as malformed have no comparison.
* In `ToolDriver` an edit is never undone, the build directory of a self-test is not tampered with, and what makes a report
  well formed is a choice. Two drc or lvs calls whose tools write one report in place may judge each other's: only
  `OneConcludes` is claimed of them, and not even that of two reviews, which write over what appeared after their check.
  `rtl_check` and `netlist` never look at their inputs again.
* In `SimulateCall` version 1 of a file is the published or reviewed one; one call in the pair asks for two analyses, through
  ngspice, and one has compiled objects; two calls that compose the same text may restore it for each other. What deck
  inspection and the checks of options and collateral refuse is a choice.
* In `ExperimentSpec` the document already obeys its schema, including the maximal lengths of its lists and the numbers'
  syntax; the comparisons of the composed text with itself (`_portable_allowlist_issue`, `_bound_allowlist_issue`) are
  left out, as are name collisions that the PDK's rewriting of instances makes. The limits of the extraction are 21 points
  and 100 scalars, so that edits of the sweeps reach both. A counted record has 8 or 16 points.
* In `ExperimentTemplate` scalars are integers, of which some do not parse and some are not exactly a JSON number. A
  parameter that nothing but a limit with factor zero refers to counts as used, for the compiler and here. The unit of a
  site of an element's parameter is the compiler's own table. What a compiled limit is compared with is left to
  `SpecificationEvaluate`: the compiler does not relate its unit to the measurement's.
* In the measurements arithmetic is exact: rounding, overflow and the `isfinite` guards behind them are left out, as are
  logarithms and square roots (a ratio is kept as numerator and denominator). `Oscillator` leaves the average power out,
  and its receipts in the unit interval are compared exactly.
* In `RawSeries` the lengths of lines, headers and names are not bounded, letters have no case, sweeps over decades and
  octaves have one point in each, and numbers are exact where the code compares with a tolerance. A file that lost a value
  and gained another is whole for every reader, and excepted.
* In `CircuitProfile` a thousand is two and a number has no fraction but the half; which evidence and which diagnostics a
  driver gives is chosen.
* In `ProviderContract` the manifests and results obey their schemas. Refused or not accepted by the code although honest, and
  excepted where the properties ask for acceptance: a configuration file of more than 1 MiB, which the host would allow up to
  256 MiB, makes the provider's refusal one that the host cannot accept; a profile that requires complete provenance never gets it; an
  executable above 256 MiB, or counted twice above 512 MiB, cannot be verified; a startup file between 1 and 16 MiB is bound
  with one limit and recorded again with the other, and so reported as changed; a manifest of another driver version than the
  provider's own is not answered. A launch through Xyce is not bound to the digest that was inspected, and one file may be
  both result and log.
* In `Reports` a line is what its regular expression makes of it; encodings, sizes and the syntax of XML and JSON are left
  out. The bound on all coordinates may be exceeded by the pair that reaches it (`klayout_outputs.py:685`), which bounds
  the work and not the verdict.
* In `NativeDeck` the compilers' success is a property of the tools and the source; the title line of a deck, a deck that
  defines a wrapper's name again, and the bounds on sizes and counts are left out. A Verilog-A source is a sequence of marks.
* In `BlockLibrary` the manifest, the contracts and their bounds obey their schemas; a subcircuit that calls itself, the
  number of pins of an inner instance, a name of a parameter or node that the deck happens to have and the scope of a model
  inside a subcircuit are not claimed; literals are integers.
* Bytes, paths, JSON, logs and wording are abstracted everywhere.

## Plan

1. Done: bounded execution, provider invocation, publication, ngspice driver, and their proofs; `ProviderContract`.
2. Done: `PdkClosure`, `PdkSnapshot` and their proofs.
3. Done: `ExperimentRun` and its proofs. `ExperimentSpec`, the validator before it, and `ExperimentTemplate`, the compiler
   before that.
   To come: the composition with `NgspiceDriver`.
4. Done: `TestbenchRun`, `TestbenchOracle` and their proofs; `TestbenchPlan`. To come: the composition
   with `DirectoryPublish`.
5. Done: `ToolDriver`, with `Reports`, the other drivers and the DRC review and comparison; `SimulateCall`; `EvidenceReceipt`;
   their proofs; `CircuitProfile`; the theorems of `ProviderContract`, `Reports` and `CircuitProfile`.
6. Done: `RawSeries`, `Waveform`, `Oscillator`, `SpecificationEvaluate`, and theorems about verdicts, settling times, edges,
   crossings, falls, phases, cycles, and the verdicts, gains and grids of oscillations. To come: their figures and receipts.
7. Done: `BlockLibrary` and `NativeDeck`.
