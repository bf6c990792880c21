----------------------------- MODULE TestbenchRun -----------------------------
(***************************************************************************)
(* One corner of a testbench plan, from its first stage to its score:      *)
(* execute_testbench_plan_ngspice (operations/testbench_plan_runner.py)    *)
(* compiles the stages in topological order (testbench_plan_ngspice.py),   *)
(* attempts every condition, evaluates the points all of whose conditions  *)
(* completed, binds measured values to the inputs of later stages, and     *)
(* reports verdicts, observables and the conditions behind each of them.   *)
(*                                                                         *)
(* Values are abstracted to what decides: a point was measured or not, a   *)
(* rule holds, fails or cannot be evaluated on the point's values, a       *)
(* number is within its limit or not.  All measurements of a point have    *)
(* the same conditions behind them, so those are kept for the point.       *)
(***************************************************************************)
EXTENDS Integers, FiniteSets

CONSTANTS
    Stages, DependsOn,    \* the stages, and depends_on of each
    Position,             \* the position of a stage or a point in the plan
    Points, StageOf,      \* condition points, and the stage of each
    Corners, CornerOf,    \* the corners, and the corner of each point
    Grid,                 \* number of conditions a point expands to
    BoundGrid,            \* points whose DC range names a stage input
    Uncompilable,         \* stages the compiler refuses whatever is bound: carryover, AC, ...
    Unsettled,            \* points whose settle policy the runner refuses
    Rules, PointOf,       \* point validity rules, and the point of each
    Reduced,              \* stages with reductions and stage validity rules
    Bindings, From, To,   \* a binding's source point and target stage
    FromReduction,        \* bindings whose source is a reduction
    Observables, Source,  \* Source[o]: kind, and the point, rule or stage
    Duts, Pinned,         \* contents of the DUT's file; the one whose digest is expected
    NoDut,                \* in a condition's identifier: no deck was compiled
    None,                 \* no stage, no report
    MaxConditions         \* MAX_ENVELOPE_CONDITIONS

ASSUME PlanAssumption ==
    /\ DependsOn \in [Stages -> SUBSET Stages] /\ None \notin Stages
    /\ Position \in [Stages \cup Points -> Nat]
    /\ StageOf \in [Points -> Stages]
    /\ CornerOf \in [Points -> Corners] /\ BoundGrid \subseteq Points /\ Unsettled \subseteq Points
    /\ Grid \in [Points -> Nat \ {0}]
    /\ Uncompilable \subseteq Stages /\ Reduced \subseteq Stages
    /\ PointOf \in [Rules -> Points] /\ IsFiniteSet(Rules) /\ Rules \cap Stages = {}
    /\ FromReduction \subseteq Bindings

(* _validate_bindings: a value flows from a stage that the target names.   *)
ASSUME BindingAssumption ==
    /\ From \in [Bindings -> Points] /\ To \in [Bindings -> Stages]
    /\ \A b \in Bindings : StageOf[From[b]] \in DependsOn[To[b]]

ASSUME ObservableAssumption ==
    Source \in [Observables -> [kind : {"measurement"}, of : Points]
                               \cup [kind : {"validity"}, of : Rules]
                               \cup [kind : {"stage_validity", "reduction"}, of : Stages]]

ASSUME BoundAssumption ==
    Pinned \in Duts /\ NoDut \notin Duts /\ MaxConditions \in Nat

(***************************************************************************)
(* _topological_stages: wave after wave, each in the order of the plan.    *)
(***************************************************************************)
Wave[s \in Stages] ==
    IF DependsOn[s] = {} THEN 0
    ELSE 1 + CHOOSE n \in {Wave[d] : d \in DependsOn[s]} : \A d \in DependsOn[s] : Wave[d] <= n

Precedes(s, t) == Wave[s] < Wave[t] \/ (Wave[s] = Wave[t] /\ Position[s] < Position[t])

VARIABLES
    pc,         \* "stage", "condition", "publish", or how it ended: "published", "raised"
    corner,     \* the corner that is run
    available,  \* an ngspice was found
    pending,    \* stages not yet begun
    current,    \* the stage whose conditions are attempted
    queue,      \* its conditions not yet attempted
    attempts,   \* the conditions that have a receipt
    lineage,    \* condition_values: the conditions behind each measured point, {} if not measured
    judged,     \* what each rule says of the values of its point
    bound,      \* the bindings in binding_values
    upstream,   \* stage_upstream_lineage
    inventory,  \* condition_inventory_complete
    dut,        \* actual_dut_sha
    refused,    \* the codes of the refusals
    report      \* the observables and the receipt

progress == <<pc, corner, available, pending, current, queue>>
evidence == <<attempts, lineage, judged, bound, upstream>>
receipt  == <<inventory, dut, refused>>
vars     == <<progress, evidence, receipt, report>>

Selected == {p \in Points : CornerOf[p] = corner}

(***************************************************************************)
(* A condition is identified by its point, its place in the point's DC     *)
(* grid and the DUT in its deck.  The receipts of a stage that could not   *)
(* be compiled name every sample of a literal grid, or the point alone.    *)
(***************************************************************************)
Condition(p, i, d) == [point |-> p, sample |-> i, dut |-> d]
Conditions == [point : Points, sample : Nat, dut : Duts \cup {NoDut}]

Selection(s)  == {p \in Selected : StageOf[p] = s}
Expansion(p, samples, d) == {Condition(p, i, d) : i \in samples}
Compiled(s, d) == UNION {Expansion(p, 1 .. Grid[p], d) : p \in Selection(s)}
Literal(p)    == IF p \in BoundGrid THEN {0} ELSE 1 .. Grid[p]
Uncompiled(s) == UNION {Expansion(p, Literal(p), NoDut) : p \in Selection(s)}
Sooner(c, d)  == \/ Position[c.point] < Position[d.point]
                 \/ c.point = d.point /\ c.sample < d.sample

(***************************************************************************)
(* What became of an attempt.  failed: a record came back that is no       *)
(* evidence (exit code, time-out, no waveform or none that can be read);   *)
(* raised: the executor raised or its record is malformed; refused: the    *)
(* executor was not invoked.                                               *)
(***************************************************************************)
Outcomes == {"completed", "failed", "raised", "refused", "uncompiled"}
Attempts == [condition : Conditions, outcome : Outcomes]
Executed == {"completed", "failed"}

Judgements == {"VALID", "INVALID", "UNKNOWN"}
Subjects   == Rules \cup Reduced   \* what has a verdict in the report
Refusals   == {"stage_uncompiled", "condition_invalid", "measurement_invalid", "binding",
               "validity", "observable"}

Init ==
    /\ pc = "stage" /\ corner \in Corners /\ available \in BOOLEAN
    /\ pending = Stages /\ current = None /\ queue = {}
    /\ attempts = {}
    /\ lineage = [p \in Points |-> {}]
    /\ judged = [r \in Rules |-> "UNKNOWN"]
    /\ bound = {} /\ upstream = [s \in Stages |-> {}]
    /\ inventory = TRUE /\ dut = NoDut /\ refused = {}
    /\ report = None

AttemptsOf(p)   == {a \in attempts : a.condition.point = p}
ConditionsOf(p) == {a.condition : a \in AttemptsOf(p)}
Known           == {a.condition : a \in attempts}
Whole(p)        == AttemptsOf(p) # {} /\ \A a \in AttemptsOf(p) : a.outcome = "completed"
RulesOf(p)      == {r \in Rules : PointOf[r] = p}
Into(s)         == {b \in Bindings : To[b] = s}

(* A ValueError leaves execute_testbench_plan_ngspice: there is no report. *)
Raise ==
    /\ pc' = "raised" /\ current' = None /\ queue' = {}
    /\ UNCHANGED <<corner, available, pending, evidence, receipt, report>>

-----------------------------------------------------------------------------
(* Stages.                                                                 *)

Begin(s) ==
    /\ pc = "stage" /\ s \in pending
    /\ \A t \in pending \ {s} : Precedes(s, t)
    /\ pending' = pending \ {s}

SkipStage(s) ==
    /\ Begin(s) /\ Selection(s) = {}
    /\ UNCHANGED <<pc, corner, available, current, queue, evidence, receipt, report>>

(***************************************************************************)
(* prepare_testbench_plan_ngspice captures the DUT's file, whose digest    *)
(* must be the expected one, and needs a value for every input: each has   *)
(* exactly one binding.                                                    *)
(***************************************************************************)
Seals(d)        == d = Pinned
InputsBound(s)  == Into(s) \subseteq bound
Compiles(s, d)  == Seals(d) /\ s \notin Uncompilable /\ InputsBound(s)

Capacity(new) == Cardinality(Known) + Cardinality(new) <= MaxConditions
SameDut(d)    == dut \in {NoDut, d}

CompileStage(s, d) ==
    /\ Begin(s) /\ Selection(s) # {} /\ Compiles(s, d)
    /\ Capacity(Compiled(s, d)) /\ SameDut(d)
    /\ pc' = "condition" /\ current' = s /\ queue' = Compiled(s, d) /\ dut' = d
    /\ UNCHANGED <<corner, available, evidence, inventory, refused, report>>

CompiledTooMuch(s, d) ==
    /\ pc = "stage" /\ s \in pending /\ \A t \in pending \ {s} : Precedes(s, t)
    /\ Selection(s) # {} /\ Compiles(s, d)
    /\ ~Capacity(Compiled(s, d)) \/ ~SameDut(d)
    /\ Raise

(***************************************************************************)
(* A stage is refused for what the plan or the file is, or because a bound *)
(* value is out of the range of what uses it.  Its conditions get receipts *)
(* without a deck; it resolves no bindings.                                *)
(***************************************************************************)
AllEnumerated(s) == TRUE   \* mutation: a grid that could not be expanded is not reported

Enumerated(s) == Selection(s) \cap BoundGrid = {}

RefuseStage(s, d) ==
    /\ Begin(s) /\ Selection(s) # {}
    /\ ~Compiles(s, d) \/ Into(s) # {}
    /\ attempts' = attempts \cup [condition : Uncompiled(s), outcome : {"uncompiled"}]
    /\ inventory' = (inventory /\ Enumerated(s))
    /\ refused' = refused \cup {"stage_uncompiled"}
    /\ UNCHANGED <<pc, corner, available, current, queue, lineage, judged, bound, upstream, dut, report>>

-----------------------------------------------------------------------------
(* Conditions, in compiler order; a failure does not keep the next one     *)
(* from being attempted.                                                   *)

Possible(c) ==
    IF c.point \in Unsettled THEN {"refused"}
    ELSE IF available THEN {"completed", "failed", "raised"} ELSE {"raised"}

RunCondition(c) ==
    /\ pc = "condition" /\ c \in queue
    /\ \A e \in queue \ {c} : Sooner(c, e)
    /\ queue' = queue \ {c}
    /\ \E outcome \in Possible(c) :
          /\ attempts' = attempts \cup {[condition |-> c, outcome |-> outcome]}
          /\ refused' = IF outcome = "completed" THEN refused ELSE refused \cup {"condition_invalid"}
    /\ UNCHANGED <<pc, corner, available, pending, current, lineage, judged, bound, upstream,
                   inventory, dut, report>>

-----------------------------------------------------------------------------
(* Evaluation.                                                             *)

(***************************************************************************)
(* _evaluate_point_group: the points in good could be measured; behind     *)
(* their values are their conditions and those behind the stage's inputs.  *)
(***************************************************************************)
Lineage(s, good) ==
    [p \in Points |-> IF p \in good THEN ConditionsOf(p) \cup upstream[s] ELSE lineage[p]]

(* _resolved_stage_bindings: what a value must be to leave the stage.      *)
MeasuredSource(p, lin, jud) ==   \* mutation: the point's rules are not asked
    lin[p] # {} /\ Whole(p)

ValidSource(p, lin, jud) ==
    /\ lin[p] # {} /\ Whole(p)
    /\ \A r \in RulesOf(p) : jud[r] = "VALID"

Resolvable(s, lin, jud) ==
    {b \in Bindings \ FromReduction : StageOf[From[b]] = s /\ ValidSource(From[b], lin, jud)
                                      /\ lin[From[b]] \subseteq Known}

(* The conditions behind a bound value are behind all its stage measures.  *)
NoUpstream(bs, lin) == upstream   \* mutation: a bound value does not say where it is from

Upstream(bs, lin) ==
    [s \in Stages |-> upstream[s] \cup UNION {lin[From[b]] : b \in bs \cap Into(s)}]

Judgement(good, says) ==
    [r \in Rules |-> IF PointOf[r] \in good THEN says[r] ELSE judged[r]]

Settle(good, lin, jud) ==
    LET wanted == {b \in Bindings : StageOf[From[b]] = current}
    IN /\ lineage' = lin /\ judged' = jud
       /\ \E bs \in SUBSET Resolvable(current, lin, jud) :   \* scalar and finite
             /\ bound' = bound \cup bs /\ upstream' = Upstream(bs, lin)
             /\ refused' = refused
                   \cup (IF \E p \in Selection(current) \ good : Whole(p)
                         THEN {"measurement_invalid"} ELSE {})
                   \cup (IF bs # wanted THEN {"binding"} ELSE {})

EvaluateStage ==
    /\ pc = "condition" /\ queue = {}
    /\ \E good \in SUBSET {p \in Selection(current) : Whole(p)} :
       \E says \in [{r \in Rules : PointOf[r] \in good} -> Judgements] :
          Settle(good, Lineage(current, good), Judgement(good, says))
    /\ pc' = "stage" /\ current' = None
    /\ UNCHANGED <<corner, available, pending, queue, attempts, inventory, dut, report>>

-----------------------------------------------------------------------------
(* The report.                                                             *)

Verdict(x) ==
    IF x \in Rules
    THEN IF PointOf[x] \notin Selected THEN "absent"
         ELSE IF \E a \in AttemptsOf(PointOf[x]) : a.outcome # "completed" THEN "UNKNOWN"
         ELSE IF lineage[PointOf[x]] = {} THEN "UNKNOWN" ELSE judged[x]
    ELSE IF \A p \in Selection(x) : AttemptsOf(p) = {} THEN "absent" ELSE "UNKNOWN"

RuleLineage(r) ==
    IF lineage[PointOf[r]] # {} THEN lineage[PointOf[r]] ELSE ConditionsOf(PointOf[r])

StageLineage(s) == UNION {ConditionsOf(p) \cup lineage[p] : p \in {q \in Points : StageOf[q] = s}}

SourceLineage(kind, x) ==
    CASE kind = "measurement" -> lineage[x]
      [] kind = "validity" -> IF Verdict(x) = "absent" THEN {} ELSE RuleLineage(x)
      [] kind = "stage_validity" ->
            IF x \notin Reduced \/ Verdict(x) = "absent" THEN {} ELSE StageLineage(x)
      [] OTHER -> {}

(* An observable is emitted if there are conditions behind it, all known.  *)
ObservableLineage(o) ==
    LET ids == SourceLineage(Source[o].kind, Source[o].of)
    IN IF ids \subseteq Known THEN ids ELSE {}

(* A validity observable of another corner is left out without a refusal.  *)
Missing(o) == /\ ObservableLineage(o) = {}
              /\ Source[o].kind = "validity" => PointOf[Source[o].of] \in Selected

FinalRefusals ==
    refused
    \cup (IF \E x \in Subjects : Verdict(x) = "UNKNOWN"
             /\ (x \in Rules => \A a \in AttemptsOf(PointOf[x]) : a.outcome = "completed")
          THEN {"validity"} ELSE {})
    \cup (IF \E o \in Observables : Missing(o) THEN {"observable"} ELSE {})

(* The command line says "pass" of a run that is complete.                 *)
Complete ==
    /\ FinalRefusals = {}
    /\ \A a \in attempts : a.outcome = "completed"
    /\ \A x \in Subjects : Verdict(x) # "UNKNOWN"

CompiledDut == dut   \* mutation: without a deck there is no digest

ReportedDut == IF dut = NoDut THEN Pinned ELSE dut

Assemble ==
    /\ pc = "stage" /\ pending = {}
    /\ Cardinality(Known) <= MaxConditions
    /\ refused' = FinalRefusals
    /\ dut' = ReportedDut
    /\ report' = [verdict  |-> [x \in Subjects |-> Verdict(x)],
                  lineage  |-> [o \in Observables |-> ObservableLineage(o)],
                  complete |-> Complete, dut |-> dut']
    /\ pc' = "publish"
    /\ UNCHANGED <<corner, available, pending, current, queue, evidence, inventory>>

AssembledTooMuch ==
    /\ pc = "stage" /\ pending = {} /\ Cardinality(Known) > MaxConditions
    /\ Raise

(* publish_testbench_plan_run, whose steps are DirectoryPublish's.         *)
Publish ==
    /\ pc = "publish" /\ pc' = "published"
    /\ UNCHANGED <<corner, available, pending, current, queue, evidence, receipt, report>>

PublishFails ==
    /\ pc = "publish" /\ pc' = "raised" /\ report' = None
    /\ UNCHANGED <<corner, available, pending, current, queue, evidence, receipt>>

Ended == pc \in {"published", "raised"} /\ UNCHANGED vars

Stage     == \E s \in Stages : SkipStage(s) \/ \E d \in Duts : CompileStage(s, d)
                                  \/ CompiledTooMuch(s, d) \/ RefuseStage(s, d)
Attempt == \E c \in queue : RunCondition(c)

Next == \/ Stage \/ Attempt \/ EvaluateStage
        \/ Assemble \/ AssembledTooMuch \/ Publish \/ PublishFails
        \/ Ended

Spec == Init /\ [][Next]_vars

-----------------------------------------------------------------------------
(* Properties.                                                             *)

Reports ==
    [verdict  : [Subjects -> Judgements \cup {"absent"}],
     lineage  : [Observables -> SUBSET Conditions],
     complete : BOOLEAN, dut : Duts]

(* What the runner holds between its steps.                                *)
TypeOK ==
    /\ pc \in {"stage", "condition", "publish", "published", "raised"}
    /\ corner \in Corners /\ available \in BOOLEAN /\ pending \subseteq Stages
    /\ current \in Stages \cup {None} /\ queue \subseteq Conditions
    /\ attempts \subseteq Attempts
    /\ lineage \in [Points -> SUBSET Conditions] /\ judged \in [Rules -> Judgements]
    /\ bound \subseteq Bindings /\ upstream \in [Stages -> SUBSET Conditions]
    /\ inventory \in BOOLEAN /\ dut \in Duts \cup {NoDut}
    /\ refused \subseteq Refusals /\ report \in Reports \cup {None}

(***************************************************************************)
(* A measured observable names every condition that it rests on: those of  *)
(* its point and, through the values bound to the stage's inputs, all that *)
(* the source points rest on.  Each of them completed, on a deck with the  *)
(* pinned DUT, which is also the one reported.                             *)
(***************************************************************************)
MeasuredAt(p) == {o \in Observables : Source[o] = [kind |-> "measurement", of |-> p]}

EvidenceIsClosed ==
    report # None =>
    /\ report.dut = Pinned
    /\ \A p \in Points : \A o \in MeasuredAt(p) : report.lineage[o] # {} =>
         /\ Whole(p) /\ ConditionsOf(p) \subseteq report.lineage[o]
         /\ \A c \in report.lineage[o] :
              c.dut = Pinned /\ [condition |-> c, outcome |-> "completed"] \in attempts
         /\ \A b \in Into(StageOf[p]) : lineage[From[b]] # {} /\ lineage[From[b]] \subseteq report.lineage[o]

(***************************************************************************)
(* A verdict other than UNKNOWN, the only kind that can earn credit, was   *)
(* passed on a point all of whose conditions completed, in a stage all of  *)
(* whose inputs came from points that completed and that every rule found  *)
(* VALID.                                                                  *)
(***************************************************************************)
Sound(p) == \A b \in Into(StageOf[p]) :
               Whole(From[b]) /\ \A r \in RulesOf(From[b]) : report.verdict[r] = "VALID"

ScoredOnSoundGround ==
    report # None => \A r \in Rules : report.verdict[r] \in {"VALID", "INVALID"} =>
                        Whole(PointOf[r]) /\ Sound(PointOf[r])

(***************************************************************************)
(* Every point of the corner has a receipt; and a receipt that calls the   *)
(* inventory complete names every condition that the points expand to.     *)
(***************************************************************************)
InventoryIsHonest ==
    report # None => \A p \in Selected :
        /\ AttemptsOf(p) # {}
        /\ inventory => {c.sample : c \in ConditionsOf(p)} = 1 .. Grid[p]
(***************************************************************************)
(* What the report says of its own evidence is so: the conditions behind a *)
(* value, through every stage before it, and whether any is missing.       *)
(***************************************************************************)
EvidenceIsWhole == EvidenceIsClosed /\ InventoryIsHonest
=============================================================================
