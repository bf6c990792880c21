------------------------- MODULE TestbenchRun_proofs -------------------------
(***************************************************************************)
(* Proofs about TestbenchRun and TestbenchOracle: types, the conditions    *)
(* behind a measured observable, the ground of a verdict, the inventory,   *)
(* and what a pass rests on, for every plan. And about the measurements    *)
(* that its results are measured with: settling times, edges and           *)
(* crossings, for every series (Waveform), and the confirmed cycles, the   *)
(* verdicts and the control gains of an oscillation, for every wave        *)
(* (Oscillator).                                                           *)
(***************************************************************************)
EXTENDS TestbenchOracle, Waveform, Oscillator, WellFoundedInduction, FiniteSetTheorems, TLAPS

-----------------------------------------------------------------------------
(* The inductive invariant.                                                *)

Completed(c) == [condition |-> c, outcome |-> "completed"] \in attempts

(* The stage of p is behind: its conditions were evaluated or refused.     *)
Done(p) == /\ p \in Selected /\ StageOf[p] \notin pending
           /\ pc = "condition" => StageOf[p] # current

Place ==
    /\ pc = "condition" => /\ current \in Stages /\ current \notin pending
                           /\ InputsBound(current) /\ dut = Pinned
    /\ pc # "condition" => queue = {}
    /\ dut \in {NoDut, Pinned}
    /\ pc \in {"publish", "published"} => pending = {}
    /\ report # None => pc \in {"publish", "published"}

Queued == \A c \in queue : c.dut = Pinned /\ c.point \in Selection(current)

Attempted ==
    \A a \in attempts :
        /\ a.condition.point \in Selected /\ StageOf[a.condition.point] \notin pending
        /\ a.outcome = "completed" => a.condition.dut = Pinned

(* What a measured point rests on; that its sources do, too, is in Passed. *)
Rested ==
    \A p \in Points : lineage[p] # {} =>
        /\ Done(p) /\ Whole(p) /\ ConditionsOf(p) \subseteq lineage[p]
        /\ \A c \in lineage[p] : Completed(c)
        /\ \A b \in Into(StageOf[p]) : b \in bound /\ lineage[From[b]] \subseteq lineage[p]

Passed ==
    \A b \in bound :
        /\ lineage[From[b]] # {} /\ lineage[From[b]] \subseteq upstream[To[b]]
        /\ \A r \in RulesOf(From[b]) : judged[r] = "VALID"

Fed == \A s \in Stages : \A c \in upstream[s] : Completed(c)

Grounded ==
    \A p \in Points : Done(p) /\ Whole(p) /\ lineage[p] = {} => "measurement_invalid" \in refused

(* The samples of a point that were attempted or are about to be.          *)
Samples(p) == {c.sample : c \in ConditionsOf(p) \cup {q \in queue : q.point = p}}

Counted ==
    \A p \in Selected : StageOf[p] \notin pending =>
        Samples(p) # {} /\ (inventory => Samples(p) = 1 .. Grid[p])

Reported ==
    pc \in {"publish", "published"} =>
        /\ report.dut = Pinned
        /\ report.verdict = [x \in Subjects |-> Verdict(x)]
        /\ report.lineage = [o \in Observables |-> ObservableLineage(o)]
        /\ report.complete =>
              /\ "measurement_invalid" \notin refused
              /\ \A a \in attempts : a.outcome = "completed"
              /\ \A o \in Observables : ~Missing(o)

Evidence == Rested /\ Passed /\ Fed
IInv == TypeOK /\ Place /\ Queued /\ Attempted /\ Evidence /\ Grounded /\ Counted /\ Reported

-----------------------------------------------------------------------------
(* The conditions of a stage.                                              *)

LEMMA SelectionIn == ASSUME NEW s PROVE Selection(s) \subseteq Points
BY DEF Selection, Selected

LEMMA CompiledIn ==
    ASSUME NEW s \in Stages, NEW d \in Duts
    PROVE  /\ Compiled(s, d) \subseteq Conditions
           /\ \A c \in Compiled(s, d) : c.dut = d /\ c.point \in Selection(s)
           /\ \A p \in Selection(s) : {c.sample : c \in {q \in Compiled(s, d) : q.point = p}} = 1 .. Grid[p]
<1>1. \A c \in Compiled(s, d) : \E p \in Selection(s) : \E i \in 1 .. Grid[p] :
          c = [point |-> p, sample |-> i, dut |-> d]
  <2>1. SUFFICES ASSUME NEW c \in Compiled(s, d)
        PROVE  \E p \in Selection(s) : \E i \in 1 .. Grid[p] : c = [point |-> p, sample |-> i, dut |-> d]
    OBVIOUS
  <2>2. PICK p \in Selection(s) : c \in Expansion(p, 1 .. Grid[p], d)
    BY DEF Compiled
  <2>3. PICK i \in 1 .. Grid[p] : c = Condition(p, i, d)
    BY <2>2 DEF Expansion
  <2>4. QED BY <2>3 DEF Condition
<1>2. \A p \in Selection(s) : \A i \in 1 .. Grid[p] : [point |-> p, sample |-> i, dut |-> d] \in Compiled(s, d)
  BY DEF Compiled, Expansion, Condition
<1>3. \A p \in Selection(s) : p \in Points /\ Grid[p] \in Nat
  BY PlanAssumption, SelectionIn
<1>4. Compiled(s, d) \subseteq Conditions
  BY <1>1, <1>3 DEF Conditions
<1>5. ASSUME NEW p \in Selection(s)
      PROVE  {c.sample : c \in {q \in Compiled(s, d) : q.point = p}} = 1 .. Grid[p]
  <2>1. {c.sample : c \in {q \in Compiled(s, d) : q.point = p}} \subseteq 1 .. Grid[p]
    BY <1>1
  <2>2. ASSUME NEW i \in 1 .. Grid[p]
        PROVE  i \in {c.sample : c \in {q \in Compiled(s, d) : q.point = p}}
    <3>1. [point |-> p, sample |-> i, dut |-> d] \in {q \in Compiled(s, d) : q.point = p}
      BY <1>2
    <3>2. QED BY <3>1
  <2>3. QED BY <2>1, <2>2
<1>6. QED BY <1>1, <1>4, <1>5

LEMMA UncompiledIn ==
    ASSUME NEW s \in Stages
    PROVE  /\ Uncompiled(s) \subseteq Conditions
           /\ \A c \in Uncompiled(s) : c.point \in Selection(s)
           /\ \A p \in Selection(s) : {c.sample : c \in {q \in Uncompiled(s) : q.point = p}} = Literal(p)
<1>1. \A c \in Uncompiled(s) : \E p \in Selection(s) : \E i \in Literal(p) :
          c = [point |-> p, sample |-> i, dut |-> NoDut]
  BY DEF Uncompiled, Expansion, Condition
<1>2. \A p \in Selection(s) : \A i \in Literal(p) : [point |-> p, sample |-> i, dut |-> NoDut] \in Uncompiled(s)
  BY DEF Uncompiled, Expansion, Condition
<1>3. \A p \in Selection(s) : p \in Points /\ Literal(p) \subseteq Nat
  BY PlanAssumption, SelectionIn DEF Literal
<1>4. Uncompiled(s) \subseteq Conditions
  BY <1>1, <1>3 DEF Conditions
<1>5. ASSUME NEW p \in Selection(s)
      PROVE  {c.sample : c \in {q \in Uncompiled(s) : q.point = p}} = Literal(p)
  <2>1. {c.sample : c \in {q \in Uncompiled(s) : q.point = p}} \subseteq Literal(p)
    BY <1>1
  <2>2. ASSUME NEW i \in Literal(p)
        PROVE  i \in {c.sample : c \in {q \in Uncompiled(s) : q.point = p}}
    <3>1. [point |-> p, sample |-> i, dut |-> NoDut] \in {q \in Uncompiled(s) : q.point = p}
      BY <1>2
    <3>2. QED BY <3>1
  <2>3. QED BY <2>1, <2>2
<1>6. QED BY <1>1, <1>4, <1>5

-----------------------------------------------------------------------------
(* Every step keeps the types.                                             *)

LEMMA VerdictIn ==
    ASSUME TypeOK, NEW x \in Subjects PROVE Verdict(x) \in Judgements \cup {"absent"}
<1>1. CASE x \in Rules
  BY <1>1, PlanAssumption DEF Verdict, TypeOK, Judgements
<1>2. CASE x \notin Rules
  BY <1>2 DEF Verdict, Judgements
<1>3. QED BY <1>1, <1>2

LEMMA KnownIn == ASSUME TypeOK PROVE Known \subseteq Conditions
BY DEF TypeOK, Attempts, Known

LEMMA ObservableIn == ASSUME TypeOK, NEW o PROVE ObservableLineage(o) \subseteq Conditions
BY KnownIn DEF ObservableLineage

LEMMA TypeInit == Init => TypeOK
BY PlanAssumption DEF Init, TypeOK, Judgements, Refusals

(* What the evaluation of a stage comes to.                                *)
LEMMA Evaluating ==
    ASSUME EvaluateStage
    PROVE  \E good \in SUBSET {p \in Selection(current) : Whole(p)} :
             \E says \in [{r \in Rules : PointOf[r] \in good} -> Judgements] :
             /\ lineage' = Lineage(current, good) /\ judged' = Judgement(good, says)
             /\ Settle(good, lineage', judged')
<1>1. PICK good \in SUBSET {p \in Selection(current) : Whole(p)} :
         \E says \in [{r \in Rules : PointOf[r] \in good} -> Judgements] :
            Settle(good, Lineage(current, good), Judgement(good, says))
  BY DEF EvaluateStage
<1>2. PICK says \in [{r \in Rules : PointOf[r] \in good} -> Judgements] :
         Settle(good, Lineage(current, good), Judgement(good, says))
  BY <1>1
<1>3. lineage' = Lineage(current, good) /\ judged' = Judgement(good, says)
  BY <1>2 DEF Settle
<1>4. QED BY <1>2, <1>3

LEMMA TypeEvaluate == TypeOK /\ Place /\ EvaluateStage => TypeOK'
<1> SUFFICES ASSUME TypeOK, Place, EvaluateStage PROVE TypeOK'
  OBVIOUS
<1>1. PICK good \in SUBSET {p \in Selection(current) : Whole(p)} :
         \E says \in [{r \in Rules : PointOf[r] \in good} -> Judgements] :
         /\ lineage' = Lineage(current, good) /\ judged' = Judgement(good, says)
         /\ Settle(good, lineage', judged')
  BY Evaluating
<1>2. current \in Stages
  BY DEF EvaluateStage, Place
<1>3. \A p \in Points : ConditionsOf(p) \subseteq Conditions
  BY DEF ConditionsOf, AttemptsOf, TypeOK, Attempts
<1>4. lineage' \in [Points -> SUBSET Conditions]
  BY <1>1, <1>2, <1>3 DEF Lineage, TypeOK
<1>5. judged' \in [Rules -> Judgements]
  BY <1>1 DEF Judgement, TypeOK
<1>6. PICK bs \in SUBSET Resolvable(current, lineage', judged') :
         /\ bound' = bound \cup bs /\ upstream' = Upstream(bs, lineage')
         /\ refused' \subseteq refused \cup {"measurement_invalid", "binding"}
  BY <1>1 DEF Settle
<1>7. bs \subseteq Bindings
  BY <1>6 DEF Resolvable
<1>8. \A b \in bs : lineage'[From[b]] \subseteq Conditions
  BY <1>4, <1>7, BindingAssumption
<1>9. upstream' \in [Stages -> SUBSET Conditions]
  BY <1>6, <1>8 DEF Upstream, TypeOK
<1>10. bound' \subseteq Bindings /\ refused' \subseteq Refusals
  BY <1>6, <1>7 DEF TypeOK, Refusals
<1>11. QED
  BY <1>4, <1>5, <1>9, <1>10 DEF EvaluateStage, TypeOK, receipt

LEMMA TypeAssemble == TypeOK /\ Place /\ Assemble => TypeOK'
<1> SUFFICES ASSUME TypeOK, Place, Assemble PROVE TypeOK'
  OBVIOUS
<1>1. dut' \in Duts
  BY BoundAssumption DEF Assemble, ReportedDut, TypeOK
<1>2. [x \in Subjects |-> Verdict(x)] \in [Subjects -> Judgements \cup {"absent"}]
  BY VerdictIn
<1>3. [o \in Observables |-> ObservableLineage(o)] \in [Observables -> SUBSET Conditions]
  BY ObservableIn
<1>4. Complete \in BOOLEAN
  BY DEF Complete
<1>5. report' \in Reports
  BY <1>1, <1>2, <1>3, <1>4 DEF Assemble, Reports
<1>6. FinalRefusals \subseteq Refusals
  BY DEF FinalRefusals, Refusals, TypeOK
<1>7. QED BY <1>1, <1>5, <1>6 DEF Assemble, TypeOK, evidence

LEMMA TypeNext == TypeOK /\ Place /\ [Next]_vars => TypeOK'
<1> SUFFICES ASSUME TypeOK, Place, [Next]_vars PROVE TypeOK'
  OBVIOUS
<1> USE DEF TypeOK, progress, evidence, receipt, vars
<1>1. ASSUME NEW s \in Stages, SkipStage(s) PROVE TypeOK'
  BY <1>1 DEF SkipStage, Begin
<1>2. ASSUME NEW s \in Stages, NEW d \in Duts, CompileStage(s, d) PROVE TypeOK'
  BY <1>2, CompiledIn DEF CompileStage, Begin
<1>3. ASSUME NEW s \in Stages, NEW d \in Duts, CompiledTooMuch(s, d) PROVE TypeOK'
  BY <1>3 DEF CompiledTooMuch, Raise
<1>4. ASSUME NEW s \in Stages, NEW d \in Duts, RefuseStage(s, d) PROVE TypeOK'
  <2>1. attempts' \subseteq Attempts
    BY <1>4, UncompiledIn DEF RefuseStage, Attempts, Outcomes
  <2>2. inventory' \in BOOLEAN
    BY <1>4 DEF RefuseStage, Enumerated
  <2>3. QED BY <1>4, <2>1, <2>2 DEF RefuseStage, Begin, Refusals
<1>5. ASSUME NEW c \in queue, RunCondition(c) PROVE TypeOK'
  BY <1>5 DEF RunCondition, Possible, Attempts, Outcomes, Refusals
<1>6. CASE EvaluateStage
  BY <1>6, TypeEvaluate
<1>7. CASE Assemble
  BY <1>7, TypeAssemble
<1>8. CASE AssembledTooMuch
  BY <1>8 DEF AssembledTooMuch, Raise
<1>9. CASE Publish \/ PublishFails
  BY <1>9 DEF Publish, PublishFails
<1>10. CASE Ended \/ UNCHANGED vars
  BY <1>10 DEF Ended
<1>11. QED
  BY <1>1, <1>2, <1>3, <1>4, <1>5, <1>6, <1>7, <1>8, <1>9, <1>10 DEF Next, Stage, Attempt

-----------------------------------------------------------------------------
(* The invariant is inductive.                                             *)

LEMMA InitIInv == Init => IInv
<1> SUFFICES ASSUME Init PROVE IInv
  OBVIOUS
<1>1. TypeOK
  BY TypeInit
<1>2. Place /\ Queued /\ Attempted
  BY DEF Init, Place, Queued, Attempted
<1>3. Evidence
  BY DEF Init, Evidence, Rested, Passed, Fed
<1>4. Grounded /\ Counted /\ Reported
  BY PlanAssumption DEF Init, Grounded, Counted, Reported, Done, Selected
<1>5. QED BY <1>1, <1>2, <1>3, <1>4 DEF IInv

(* More receipts, none of a measured point, leave the evidence standing.   *)
LEMMA EvidenceStands ==
    ASSUME TypeOK, Evidence, UNCHANGED <<corner, lineage, judged, bound, upstream>>,
           attempts \subseteq attempts',
           \A p \in Points : lineage[p] # {} => Done(p)' /\ AttemptsOf(p)' = AttemptsOf(p)
    PROVE  Evidence'
<1>1. \A c : Completed(c) => Completed(c)'
  BY DEF Completed
<1>2. \A p \in Points : lineage[p] # {} =>
          /\ Whole(p) => Whole(p)'
          /\ ConditionsOf(p)' = ConditionsOf(p)
  BY DEF Whole, ConditionsOf
<1>3. Rested'
  BY <1>1, <1>2 DEF Rested, Evidence
<1>4. Passed' /\ Fed'
  BY <1>1 DEF Passed, Fed, Evidence
<1>5. QED BY <1>3, <1>4 DEF Evidence

(* A step that only moves between stages.                                  *)
LEMMA AttemptsStand ==
    ASSUME TypeOK, Evidence, UNCHANGED <<corner, evidence>>,
           \A p \in Points : lineage[p] # {} => Done(p)'
    PROVE  Evidence'
BY EvidenceStands DEF evidence, AttemptsOf

LEMMA SkipKeeps ==
    ASSUME IInv, NEW s \in Stages, SkipStage(s) PROVE IInv'
<1> USE DEF IInv, SkipStage, Begin, progress, evidence, receipt
<1>1. TypeOK'
  BY TypeNext DEF Next, Stage
<1>2. \A p \in Points : StageOf[p] = s => p \notin Selected
  BY DEF Selection
<1>3. \A p \in Points : Done(p)' <=> Done(p)
  BY <1>2 DEF Done, Selected
<1>4. Place' /\ Queued' /\ Attempted'
  BY DEF Place, Queued, Attempted, Selection, Selected
<1>5. Evidence'
  BY <1>3, AttemptsStand DEF Evidence, Rested
<1>6. Grounded'
  BY <1>3 DEF Grounded, Whole, AttemptsOf
<1>7. Counted'
  BY <1>2 DEF Counted, Samples, ConditionsOf, AttemptsOf, Selected
<1>8. Reported'
  BY DEF Reported
<1>9. QED BY <1>1, <1>4, <1>5, <1>6, <1>7, <1>8

LEMMA CompileKeeps ==
    ASSUME IInv, NEW s \in Stages, NEW d \in Duts, CompileStage(s, d) PROVE IInv'
<1> USE DEF IInv, CompileStage, Begin, progress, evidence, receipt
<1>1. TypeOK'
  BY TypeNext DEF Next, Stage
<1>2. \A p \in Points : Done(p)' <=> Done(p)
  BY DEF Done, Selected
<1>3. Place' /\ Queued' /\ Attempted'
  <2>1. Place'
    BY DEF Place, Compiles, Seals, InputsBound
  <2>2. Queued'
    BY CompiledIn DEF Queued, Compiles, Seals, Selection, Selected
  <2>3. Attempted'
    BY DEF Attempted, Selected
  <2>4. QED BY <2>1, <2>2, <2>3
<1>4. Evidence'
  BY <1>2, AttemptsStand DEF Evidence, Rested
<1>5. Grounded'
  BY <1>2 DEF Grounded, Whole, AttemptsOf
<1>6. Counted'
  <2>1. SUFFICES ASSUME NEW p \in Points, p \in Selected, StageOf[p] \notin pending'
        PROVE  Samples(p)' # {} /\ (inventory => Samples(p)' = 1 .. Grid[p])
    BY DEF Counted, Selected
  <2>2. CASE StageOf[p] = s
    <3>1. ConditionsOf(p)' = {}
      BY <2>2 DEF Attempted, ConditionsOf, AttemptsOf
    <3>2. p \in Selection(s)
      BY <2>1, <2>2 DEF Selection
    <3>3. Samples(p)' = 1 .. Grid[p]
      BY <3>1, <3>2, CompiledIn DEF Samples
    <3>4. Grid[p] \in Nat \ {0}
      BY PlanAssumption
    <3>5. 1 \in 1 .. Grid[p]
      BY <3>4
    <3>6. QED BY <3>3, <3>5
  <2>3. CASE StageOf[p] # s
    <3>1. {q \in queue' : q.point = p} = {}
      BY <2>3, CompiledIn DEF Selection
    <3>2. {q \in queue : q.point = p} = {}
      BY DEF Place
    <3>3. ConditionsOf(p)' = ConditionsOf(p)
      BY DEF ConditionsOf, AttemptsOf
    <3>4. Samples(p)' = Samples(p)
      BY <3>1, <3>2, <3>3 DEF Samples
    <3>5. QED BY <2>1, <2>3, <3>4 DEF Counted
  <2>4. QED BY <2>2, <2>3
<1>7. Reported'
  BY DEF Reported
<1>8. QED BY <1>1, <1>3, <1>4, <1>5, <1>6, <1>7

LEMMA RaiseKeeps ==
    ASSUME IInv, pc = "stage", Raise, TypeOK' PROVE IInv'
<1> USE DEF IInv, Raise, progress, evidence, receipt
<1>1. \A p \in Points : Done(p)' <=> Done(p)
  BY DEF Done, Selected
<1>2. Place' /\ Queued' /\ Attempted'
  BY DEF Place, Queued, Attempted, Selected
<1>3. Evidence'
  BY <1>1, AttemptsStand DEF Evidence, Rested
<1>4. Grounded'
  BY <1>1 DEF Grounded, Whole, AttemptsOf
<1>5. Counted'
  BY DEF Counted, Samples, ConditionsOf, AttemptsOf, Selected, Place
<1>6. Reported'
  BY DEF Reported
<1>7. QED BY <1>2, <1>3, <1>4, <1>5, <1>6

LEMMA RefuseKeeps ==
    ASSUME IInv, NEW s \in Stages, NEW d \in Duts, RefuseStage(s, d) PROVE IInv'
<1> USE DEF IInv, RefuseStage, Begin, progress, evidence, receipt
<1>1. TypeOK'
  BY TypeNext DEF Next, Stage
<1>2. \A p \in Points : Done(p) => Done(p)'
  BY DEF Done, Selected, Attempted
<1>3. \A a \in attempts' \ attempts :
          a.outcome = "uncompiled" /\ a.condition \in Uncompiled(s) /\ a.condition.point \in Selection(s)
  BY UncompiledIn
<1>4. \A p \in Points : p \notin Selection(s) => AttemptsOf(p)' = AttemptsOf(p)
  BY <1>3 DEF AttemptsOf
<1>5. \A p \in Points : Done(p)' /\ ~Done(p) => p \in Selection(s)
  BY DEF Done, Selection, Selected
<1>6. \A p \in Points : Done(p) => p \notin Selection(s)
  BY DEF Done, Selection
<1>7. \A p \in Selection(s) : AttemptsOf(p) = {}
  BY DEF Attempted, AttemptsOf, Selection
<1>8. \A p \in Selection(s) :
          ConditionsOf(p)' = {c \in Uncompiled(s) : c.point = p}
  <2>1. SUFFICES ASSUME NEW p \in Selection(s)
        PROVE  ConditionsOf(p)' = {c \in Uncompiled(s) : c.point = p}
    OBVIOUS
  <2>2. ASSUME NEW a \in AttemptsOf(p)' PROVE a.condition \in Uncompiled(s) /\ a.condition.point = p
    BY <1>3, <1>7 DEF AttemptsOf
  <2>3. ASSUME NEW c \in Uncompiled(s), c.point = p PROVE c \in ConditionsOf(p)'
    <3>1. [condition |-> c, outcome |-> "uncompiled"] \in attempts'
      OBVIOUS
    <3>2. [condition |-> c, outcome |-> "uncompiled"] \in AttemptsOf(p)'
      BY <2>3, <3>1 DEF AttemptsOf
    <3>3. QED BY <3>2 DEF ConditionsOf
  <2>4. QED BY <2>2, <2>3 DEF ConditionsOf
<1>9. \A p \in Selection(s) : {c.sample : c \in ConditionsOf(p)'} = Literal(p) /\ Literal(p) # {}
  <2>1. SUFFICES ASSUME NEW p \in Selection(s)
        PROVE  {c.sample : c \in ConditionsOf(p)'} = Literal(p) /\ Literal(p) # {}
    OBVIOUS
  <2>2. {c.sample : c \in ConditionsOf(p)'} = Literal(p)
    BY <1>8, UncompiledIn
  <2>3. Grid[p] \in Nat \ {0}
    BY SelectionIn, PlanAssumption
  <2>4. 1 \in 1 .. Grid[p]
    BY <2>3
  <2>5. QED BY <2>2, <2>4 DEF Literal
<1>10. Place' /\ Queued' /\ Attempted'
  BY <1>3 DEF Place, Queued, Attempted, Selection, Selected
<1>11. Evidence'
  BY <1>2, <1>4, <1>6, EvidenceStands DEF Evidence, Rested
<1>12. Grounded'
  <2>1. \A p \in Selection(s) : ~Whole(p)'
    <3>1. SUFFICES ASSUME NEW p \in Selection(s) PROVE ~Whole(p)'
      OBVIOUS
    <3>2. PICK c : c \in ConditionsOf(p)'
      BY <1>9
    <3>3. [condition |-> c, outcome |-> "uncompiled"] \in AttemptsOf(p)'
      BY <1>8, <3>2 DEF AttemptsOf
    <3>4. QED BY <3>3 DEF Whole
  <2>2. QED BY <1>4, <1>5, <1>6, <2>1 DEF Grounded, Whole
<1>13. Counted'
  <2>1. SUFFICES ASSUME NEW p \in Points, p \in Selected, StageOf[p] \notin pending'
        PROVE  Samples(p)' # {} /\ (inventory' => Samples(p)' = 1 .. Grid[p])
    BY DEF Counted, Selected
  <2>2. queue = {} /\ queue' = {}
    BY DEF Place
  <2>3. CASE StageOf[p] = s
    <3>1. p \in Selection(s)
      BY <2>1, <2>3 DEF Selection
    <3>2. Samples(p)' = Literal(p) /\ Literal(p) # {}
      BY <1>9, <2>2, <3>1 DEF Samples
    <3>3. inventory' => p \notin BoundGrid
      BY <3>1 DEF Enumerated
    <3>4. QED BY <3>2, <3>3 DEF Literal
  <2>4. CASE StageOf[p] # s
    <3>1. AttemptsOf(p)' = AttemptsOf(p)
      BY <1>4, <2>4 DEF Selection
    <3>2. Samples(p)' = Samples(p)
      BY <2>2, <3>1 DEF Samples, ConditionsOf
    <3>3. QED BY <2>1, <2>4, <3>2 DEF Counted
  <2>5. QED BY <2>3, <2>4
<1>14. Reported'
  BY DEF Reported
<1>15. QED BY <1>1, <1>10, <1>11, <1>12, <1>13, <1>14

LEMMA RunKeeps ==
    ASSUME IInv, NEW c \in queue, RunCondition(c) PROVE IInv'
<1> USE DEF IInv, RunCondition, progress, evidence, receipt
<1>1. TypeOK'
  BY TypeNext DEF Next, Attempt
<1>2. \A p \in Points : Done(p)' <=> Done(p)
  BY DEF Done, Selected
<1>3. PICK outcome \in Possible(c) :
          /\ attempts' = attempts \cup {[condition |-> c, outcome |-> outcome]}
          /\ refused \subseteq refused'
  OBVIOUS
<1>4. c.point \in Selection(current) /\ c.dut = Pinned
  BY DEF Queued
<1>5. \A p \in Points : p # c.point => AttemptsOf(p)' = AttemptsOf(p)
  BY <1>3 DEF AttemptsOf
<1>6. \A p \in Points : Done(p) => p # c.point
  BY <1>4 DEF Done, Selection
<1>7. Place' /\ Queued' /\ Attempted'
  <2>1. Place'
    BY DEF Place, InputsBound
  <2>2. Queued'
    BY DEF Queued, Selection, Selected
  <2>3. Attempted'
    BY <1>3, <1>4 DEF Attempted, Selection, Selected, Place
  <2>4. QED BY <2>1, <2>2, <2>3
<1>8. Evidence'
  BY <1>2, <1>3, <1>5, <1>6, EvidenceStands DEF Evidence, Rested
<1>9. Grounded'
  BY <1>2, <1>3, <1>5, <1>6 DEF Grounded, Whole
<1>10. \A p \in Points : Samples(p)' = Samples(p)
  <2>1. SUFFICES ASSUME NEW p \in Points
        PROVE  ConditionsOf(p)' \cup {q \in queue' : q.point = p} = ConditionsOf(p) \cup {q \in queue : q.point = p}
    BY DEF Samples
  <2>2. CASE p = c.point
    <3>1. AttemptsOf(p)' = AttemptsOf(p) \cup {[condition |-> c, outcome |-> outcome]}
      BY <1>3, <2>2 DEF AttemptsOf
    <3>2. ConditionsOf(p)' = ConditionsOf(p) \cup {c}
      <4>1. c \in ConditionsOf(p)'
        <5>1. [condition |-> c, outcome |-> outcome].condition = c
          OBVIOUS
        <5>2. QED BY <3>1, <5>1 DEF ConditionsOf
      <4>2. ConditionsOf(p) \subseteq ConditionsOf(p)'
        BY <3>1 DEF ConditionsOf
      <4>3. ConditionsOf(p)' \subseteq ConditionsOf(p) \cup {c}
        BY <3>1 DEF ConditionsOf
      <4>4. QED BY <4>1, <4>2, <4>3
    <3>3. QED BY <2>2, <3>2
  <2>3. CASE p # c.point
    <3>1. ConditionsOf(p)' = ConditionsOf(p)
      BY <1>5, <2>3 DEF ConditionsOf
    <3>2. QED BY <2>3, <3>1
  <2>4. QED BY <2>2, <2>3
<1>11. Counted'
  BY <1>10 DEF Counted, Selected
<1>12. Reported'
  BY DEF Reported
<1>13. QED BY <1>1, <1>7, <1>8, <1>9, <1>11, <1>12

LEMMA EvaluateKeeps ==
    ASSUME IInv, EvaluateStage PROVE IInv'
<1> USE DEF IInv
<1>1. TypeOK'
  BY TypeNext DEF Next
<1>2. PICK good \in SUBSET {p \in Selection(current) : Whole(p)} :
         \E says \in [{r \in Rules : PointOf[r] \in good} -> Judgements] :
         /\ lineage' = Lineage(current, good) /\ judged' = Judgement(good, says)
         /\ Settle(good, lineage', judged')
  BY Evaluating
<1>3. PICK bs \in SUBSET Resolvable(current, lineage', judged') :
         /\ bound' = bound \cup bs /\ upstream' = Upstream(bs, lineage')
         /\ refused \subseteq refused'
         /\ (\E p \in Selection(current) \ good : Whole(p)) => "measurement_invalid" \in refused'
  BY <1>2 DEF Settle
<1>4. /\ pc = "condition" /\ queue = {} /\ pc' = "stage" /\ queue' = {}
      /\ UNCHANGED <<corner, pending, attempts, inventory, dut, report>>
      /\ current \in Stages /\ current \notin pending /\ InputsBound(current)
  BY DEF EvaluateStage, Place
<1>5. \A p \in Points : Done(p)' <=> Done(p) \/ p \in Selection(current)
  BY <1>4 DEF Done, Selection, Selected
<1>6. \A p \in good : p \in Points /\ StageOf[p] = current /\ Whole(p) /\ p \in Selection(current)
  BY SelectionIn DEF Selection
<1>7. \A p \in Points : AttemptsOf(p)' = AttemptsOf(p) /\ (Whole(p)' <=> Whole(p)) /\ ConditionsOf(p)' = ConditionsOf(p)
  BY <1>4 DEF AttemptsOf, Whole, ConditionsOf
<1>8. \A p \in Points : lineage'[p] = IF p \in good THEN ConditionsOf(p) \cup upstream[current] ELSE lineage[p]
  BY <1>2 DEF Lineage
<1>9. \A p \in Points : lineage[p] # {} => p \notin good
  BY <1>4, <1>6 DEF Evidence, Rested, Done
<1>10. \A s \in Stages : upstream'[s] = upstream[s] \cup UNION {lineage'[From[b]] : b \in bs \cap Into(s)}
  BY <1>3 DEF Upstream
<1>11. \A b \in bs : b \in Bindings /\ From[b] \in Points /\ To[b] \in Stages
                     /\ ValidSource(From[b], lineage', judged')
  BY <1>3, BindingAssumption DEF Resolvable
<1>12. \A b \in bound : /\ From[b] \in Points /\ To[b] \in Stages /\ From[b] \notin good
                        /\ lineage[From[b]] # {} /\ lineage'[From[b]] = lineage[From[b]]
                        /\ lineage[From[b]] \subseteq upstream[To[b]]
  BY <1>8, <1>9, BindingAssumption DEF Evidence, Passed, TypeOK
<1>13. \A c : Completed(c)' <=> Completed(c)
  BY <1>4 DEF Completed
<1>14. \A p \in Points : Whole(p) => ConditionsOf(p) # {} /\ \A c \in ConditionsOf(p) : Completed(c)
  <2>1. SUFFICES ASSUME NEW p \in Points, Whole(p)
        PROVE  ConditionsOf(p) # {} /\ \A c \in ConditionsOf(p) : Completed(c)
    OBVIOUS
  <2>2. \A a \in AttemptsOf(p) : a = [condition |-> a.condition, outcome |-> "completed"] /\ a \in attempts
    BY <2>1 DEF Whole, AttemptsOf, TypeOK, Attempts
  <2>3. QED BY <2>1, <2>2 DEF Whole, ConditionsOf, Completed
<1>15. Rested'
  <2>1. SUFFICES ASSUME NEW p \in Points, lineage'[p] # {}
        PROVE  /\ Done(p)' /\ Whole(p) /\ ConditionsOf(p) \subseteq lineage'[p]
               /\ \A c \in lineage'[p] : Completed(c)
               /\ \A b \in Into(StageOf[p]) : b \in bound' /\ lineage'[From[b]] \subseteq lineage'[p]
    BY <1>7, <1>13 DEF Rested
  <2>2. CASE p \in good
    <3>1. lineage'[p] = ConditionsOf(p) \cup upstream[current]
      BY <1>8, <2>2
    <3>2. \A b \in Into(current) : b \in bound /\ To[b] = current
      BY <1>4 DEF InputsBound, Into
    <3>3. \A b \in Into(current) : lineage'[From[b]] \subseteq upstream[current]
      BY <1>12, <3>2
    <3>4. \A c \in lineage'[p] : Completed(c)
      BY <1>4, <1>6, <1>14, <2>2, <3>1 DEF Evidence, Fed
    <3>5. QED BY <1>3, <1>5, <1>6, <2>2, <3>1, <3>2, <3>3, <3>4
  <2>3. CASE p \notin good
    <3>1. lineage'[p] = lineage[p] /\ lineage[p] # {}
      BY <1>8, <2>1, <2>3
    <3>2. \A b \in Into(StageOf[p]) : b \in bound /\ lineage[From[b]] \subseteq lineage[p]
      BY <3>1 DEF Evidence, Rested
    <3>3. QED BY <1>3, <1>5, <1>12, <3>1, <3>2 DEF Evidence, Rested
  <2>4. QED BY <2>2, <2>3
<1>16. Passed'
  <2>1. SUFFICES ASSUME NEW b \in bound'
        PROVE  /\ lineage'[From[b]] # {} /\ lineage'[From[b]] \subseteq upstream'[To[b]]
               /\ \A r \in RulesOf(From[b]) : judged'[r] = "VALID"
    BY DEF Passed, RulesOf
  <2>2. CASE b \in bs
    <3>1. b \in bs \cap Into(To[b])
      BY <1>11, <2>2 DEF Into
    <3>2. lineage'[From[b]] \subseteq upstream'[To[b]]
      BY <1>10, <1>11, <2>2, <3>1
    <3>3. QED BY <1>11, <2>2, <3>2 DEF ValidSource
  <2>3. CASE b \in bound
    <3>1. lineage'[From[b]] # {} /\ lineage'[From[b]] \subseteq upstream'[To[b]]
      BY <1>10, <1>12, <2>3
    <3>2. \A r \in RulesOf(From[b]) : judged'[r] = judged[r]
      BY <1>2, <1>12, <2>3 DEF Judgement, RulesOf
    <3>3. QED BY <2>3, <3>1, <3>2 DEF Evidence, Passed
  <2>4. QED BY <1>3, <2>2, <2>3
<1>17. Fed'
  BY <1>10, <1>11, <1>13, <1>15 DEF Evidence, Fed, Rested
<1>18. Grounded'
  <2>1. SUFFICES ASSUME NEW p \in Points, Done(p)', Whole(p), lineage'[p] = {}
        PROVE  "measurement_invalid" \in refused'
    BY <1>7 DEF Grounded
  <2>2. p \notin good /\ lineage[p] = {}
    BY <1>8, <1>14, <2>1
  <2>3. CASE p \in Selection(current)
    BY <1>3, <2>1, <2>2, <2>3
  <2>4. CASE Done(p)
    BY <1>3, <2>1, <2>2, <2>4 DEF Grounded
  <2>5. QED BY <1>5, <2>1, <2>3, <2>4
<1>19. Place' /\ Queued' /\ Attempted'
  BY <1>4 DEF Place, Queued, Attempted, Selected
<1>20. Counted' /\ Reported'
  BY <1>4 DEF Counted, Samples, ConditionsOf, AttemptsOf, Selected, Reported
<1>21. QED BY <1>1, <1>15, <1>16, <1>17, <1>18, <1>19, <1>20 DEF Evidence

(* What the report reads stands after the last stage.                      *)
LEMMA ReadsStand ==
    ASSUME UNCHANGED <<corner, attempts, lineage, judged>>
    PROVE  /\ \A x \in Subjects : Verdict(x)' = Verdict(x)
           /\ \A o \in Observables : ObservableLineage(o)' = ObservableLineage(o)
           /\ \A o \in Observables : Missing(o)' <=> Missing(o)
<1>1. /\ Selected' = Selected /\ Known' = Known
      /\ \A p : AttemptsOf(p)' = AttemptsOf(p) /\ ConditionsOf(p)' = ConditionsOf(p)
  BY DEF Selected, Known, AttemptsOf, ConditionsOf
<1>2. \A s : Selection(s)' = Selection(s) /\ StageLineage(s)' = StageLineage(s)
  BY <1>1 DEF Selection, StageLineage
<1>3. \A x : Verdict(x)' = Verdict(x) /\ RuleLineage(x)' = RuleLineage(x)
  BY <1>1, <1>2 DEF Verdict, RuleLineage
<1>4. \A kind, x : SourceLineage(kind, x)' = SourceLineage(kind, x)
  BY <1>2, <1>3 DEF SourceLineage
<1>5. \A o : ObservableLineage(o)' = ObservableLineage(o)
  BY <1>1, <1>4 DEF ObservableLineage
<1>6. \A o : Missing(o)' <=> Missing(o)
  BY <1>1, <1>5 DEF Missing
<1>7. QED BY <1>3, <1>5, <1>6

LEMMA AssembleKeeps == ASSUME IInv, Assemble PROVE IInv'
<1> USE DEF IInv, Assemble, evidence
<1>1. TypeOK'
  BY TypeNext DEF Next
<1>2. \A p \in Points : Done(p)' <=> Done(p)
  BY DEF Done, Selected
<1>3. dut' = Pinned
  BY DEF Place, ReportedDut
<1>4. Place' /\ Queued' /\ Attempted'
  BY <1>3 DEF Place, Queued, Attempted, Selected
<1>5. Evidence'
  BY <1>2, AttemptsStand DEF Evidence, Rested
<1>6. Grounded'
  BY <1>2 DEF Grounded, Whole, AttemptsOf, FinalRefusals
<1>7. Counted'
  BY DEF Counted, Samples, ConditionsOf, AttemptsOf, Selected, Place
<1>8. Reported'
  <2>1. \A x \in Subjects : Verdict(x)' = Verdict(x)
    BY ReadsStand
  <2>2. /\ \A o \in Observables : ObservableLineage(o)' = ObservableLineage(o)
        /\ \A o \in Observables : Missing(o)' <=> Missing(o)
    BY ReadsStand
  <2>3. Complete => /\ \A a \in attempts : a.outcome = "completed"
                    /\ FinalRefusals = {} /\ \A o \in Observables : ~Missing(o)
    BY DEF Complete, FinalRefusals
  <2>4. QED BY <1>3, <2>1, <2>2, <2>3 DEF Reported
<1>9. QED BY <1>1, <1>4, <1>5, <1>6, <1>7, <1>8

LEMMA PublishKeeps == ASSUME IInv, Publish \/ PublishFails PROVE IInv'
<1> USE DEF IInv, Publish, PublishFails, evidence, receipt
<1>1. TypeOK'
  BY TypeNext DEF Next
<1>2. \A p \in Points : Done(p)' <=> Done(p)
  BY DEF Done, Selected
<1>3. Place' /\ Queued' /\ Attempted'
  BY DEF Place, Queued, Attempted, Selected
<1>4. Evidence'
  BY <1>2, AttemptsStand DEF Evidence, Rested
<1>5. Grounded'
  BY <1>2 DEF Grounded, Whole, AttemptsOf
<1>6. Counted'
  BY DEF Counted, Samples, ConditionsOf, AttemptsOf, Selected
<1>7. Reported'
  BY ReadsStand DEF Reported
<1>8. QED BY <1>1, <1>3, <1>4, <1>5, <1>6, <1>7

LEMMA StutterKeeps == ASSUME IInv, UNCHANGED vars PROVE IInv'
<1> USE DEF IInv, vars, progress, evidence, receipt
<1>1. TypeOK'
  BY TypeNext
<1>2. \A p \in Points : Done(p)' <=> Done(p)
  BY DEF Done, Selected
<1>3. Place' /\ Queued' /\ Attempted'
  BY DEF Place, InputsBound, Queued, Attempted, Selection, Selected
<1>4. Evidence'
  BY <1>2, AttemptsStand DEF Evidence, Rested
<1>5. Grounded'
  BY <1>2 DEF Grounded, Whole, AttemptsOf
<1>6. Counted'
  BY DEF Counted, Samples, ConditionsOf, AttemptsOf, Selected
<1>7. Reported'
  BY ReadsStand DEF Reported
<1>8. QED BY <1>1, <1>3, <1>4, <1>5, <1>6, <1>7

LEMMA NextIInv == IInv /\ [Next]_vars => IInv'
<1> SUFFICES ASSUME IInv, [Next]_vars PROVE IInv'
  OBVIOUS
<1>1. TypeOK'
  BY TypeNext DEF IInv
<1>2. CASE Stage
  BY <1>1, <1>2, SkipKeeps, CompileKeeps, RefuseKeeps, RaiseKeeps DEF Stage, CompiledTooMuch
<1>3. CASE Attempt
  BY <1>3, RunKeeps DEF Attempt
<1>4. CASE EvaluateStage
  BY <1>4, EvaluateKeeps
<1>5. CASE Assemble
  BY <1>5, AssembleKeeps
<1>6. CASE AssembledTooMuch
  BY <1>1, <1>6, RaiseKeeps DEF AssembledTooMuch
<1>7. CASE Publish \/ PublishFails
  BY <1>7, PublishKeeps
<1>8. CASE Ended \/ UNCHANGED vars
  BY <1>8, StutterKeeps DEF Ended
<1>9. QED BY <1>2, <1>3, <1>4, <1>5, <1>6, <1>7, <1>8 DEF Next

LEMMA Inductive == Spec => []IInv
BY InitIInv, NextIInv, PTL DEF Spec

-----------------------------------------------------------------------------
(* Theorems about the run.                                                 *)

(* TypeOK: what the runner holds between the steps of                      *)
(* execute_testbench_plan_ngspice stays within its types, for every plan.  *)
THEOREM TypeCorrect == Spec => []TypeOK
<1>1. IInv => TypeOK
  BY DEF IInv
<1>2. QED BY <1>1, Inductive, PTL

(* What a measured observable in a report rests on.                        *)
LEMMA Reporting ==
    ASSUME IInv, report # None \/ pc = "published"
    PROVE  /\ report.dut = Pinned /\ pending = {} /\ pc \in {"publish", "published"}
           /\ \A o \in Observables : report.lineage[o] = ObservableLineage(o)
           /\ \A x \in Subjects : report.verdict[x] = Verdict(x)
           /\ \A p \in Points, o \in Observables :
                 o \in MeasuredAt(p) /\ report.lineage[o] # {} => report.lineage[o] = lineage[p]
<1>1. /\ report.dut = Pinned /\ pending = {} /\ pc \in {"publish", "published"}
      /\ report.verdict = [x \in Subjects |-> Verdict(x)]
      /\ report.lineage = [o \in Observables |-> ObservableLineage(o)]
  BY DEF IInv, Place, Reported
<1>2. ASSUME NEW p \in Points, NEW o \in Observables, o \in MeasuredAt(p), ObservableLineage(o) # {}
      PROVE  ObservableLineage(o) = lineage[p]
  <2>1. Source[o].kind = "measurement" /\ Source[o].of = p
    BY <1>2 DEF MeasuredAt
  <2>2. QED BY <1>2, <2>1 DEF ObservableLineage, SourceLineage
<1>3. QED BY <1>1, <1>2

(* EvidenceIsClosed: a measured observable names every condition behind it,*)
(* also those behind the stage's inputs, all completed on the pinned DUT.  *)
THEOREM EvidenceClosed == Spec => []EvidenceIsClosed
<1>1. IInv => EvidenceIsClosed
  <2>1. SUFFICES ASSUME IInv, report # None
        PROVE  /\ report.dut = Pinned
               /\ \A p \in Points : \A o \in MeasuredAt(p) : report.lineage[o] # {} =>
                    /\ Whole(p) /\ ConditionsOf(p) \subseteq report.lineage[o]
                    /\ \A c \in report.lineage[o] : c.dut = Pinned /\ Completed(c)
                    /\ \A b \in Into(StageOf[p]) :
                          lineage[From[b]] # {} /\ lineage[From[b]] \subseteq report.lineage[o]
    BY DEF EvidenceIsClosed, Completed
  <2>2. ASSUME NEW c, Completed(c) PROVE c.dut = Pinned
    <3>1. PICK a \in attempts : a = [condition |-> c, outcome |-> "completed"]
      BY <2>2 DEF Completed
    <3>2. a.condition = c /\ a.outcome = "completed"
      BY <3>1
    <3>3. QED BY <2>1, <3>2 DEF IInv, Attempted
  <2>3. SUFFICES ASSUME NEW p \in Points, NEW o \in MeasuredAt(p), report.lineage[o] # {}
        PROVE  /\ Whole(p) /\ ConditionsOf(p) \subseteq report.lineage[o]
               /\ \A c \in report.lineage[o] : Completed(c)
               /\ \A b \in Into(StageOf[p]) :
                     lineage[From[b]] # {} /\ lineage[From[b]] \subseteq report.lineage[o]
    BY <2>1, <2>2, Reporting
  <2>4. report.lineage[o] = lineage[p] /\ lineage[p] # {}
    BY <2>1, <2>3, Reporting DEF MeasuredAt
  <2>5. QED BY <2>1, <2>4 DEF IInv, Evidence, Rested, Passed
<1>2. QED BY <1>1, Inductive, PTL

(* A measured point is one that completed, in a stage all of whose inputs  *)
(* come from points that completed and that every rule found VALID.        *)
LEMMA MeasuredSoundly ==
    ASSUME IInv, report # None \/ pc = "published", NEW p \in Points, lineage[p] # {}
    PROVE  Whole(p) /\ Sound(p)
<1>1. Whole(p) /\ \A b \in Into(StageOf[p]) : b \in bound
  BY DEF IInv, Evidence, Rested
<1>2. SUFFICES ASSUME NEW b \in Into(StageOf[p])
      PROVE  Whole(From[b]) /\ \A r \in RulesOf(From[b]) : report.verdict[r] = "VALID"
  BY <1>1 DEF Sound
<1>3. From[b] \in Points /\ lineage[From[b]] # {} /\ \A r \in RulesOf(From[b]) : judged[r] = "VALID"
  BY <1>1, BindingAssumption DEF IInv, Evidence, Passed, Into
<1>4. Whole(From[b]) /\ From[b] \in Selected
  BY <1>3 DEF IInv, Evidence, Rested, Done
<1>5. ASSUME NEW r \in RulesOf(From[b]) PROVE report.verdict[r] = "VALID"
  <2>1. Verdict(r) = judged[r]
    BY <1>3, <1>4 DEF RulesOf, Verdict, Whole
  <2>2. QED BY <1>3, <2>1, Reporting DEF RulesOf, Subjects
<1>6. QED BY <1>4, <1>5

LEMMA ScoredMeans == IInv => ScoredOnSoundGround
<1>1. SUFFICES ASSUME IInv, report # None, NEW r \in Rules, report.verdict[r] \in {"VALID", "INVALID"}
      PROVE  Whole(PointOf[r]) /\ Sound(PointOf[r])
  BY DEF ScoredOnSoundGround
<1>2. Verdict(r) \in {"VALID", "INVALID"}
  BY <1>1, Reporting DEF Subjects
<1>3. PointOf[r] \in Points /\ lineage[PointOf[r]] # {}
  BY <1>2, PlanAssumption DEF Verdict
<1>4. QED BY <1>1, <1>3, MeasuredSoundly

(* ScoredOnSoundGround: a verdict VALID or INVALID was passed on a point   *)
(* that completed, from inputs that were found VALID, in every plan.       *)
THEOREM ScoredSound == Spec => []ScoredOnSoundGround
BY ScoredMeans, Inductive, PTL

(* InventoryIsHonest: every point of the corner has a receipt, and where   *)
(* the inventory is called complete every sample of it has one.            *)
THEOREM InventoryHonest == Spec => []InventoryIsHonest
<1>1. IInv => InventoryIsHonest
  <2>1. SUFFICES ASSUME IInv, report # None, NEW p \in Selected
        PROVE  /\ AttemptsOf(p) # {}
               /\ inventory => {c.sample : c \in ConditionsOf(p)} = 1 .. Grid[p]
    BY DEF InventoryIsHonest
  <2>2. pending = {} /\ queue = {} /\ p \in Points
    BY <2>1, Reporting DEF IInv, Place, Selected
  <2>3. Samples(p) = {c.sample : c \in ConditionsOf(p)}
    BY <2>2 DEF Samples
  <2>4. Samples(p) # {} /\ (inventory => Samples(p) = 1 .. Grid[p])
    BY <2>1, <2>2 DEF IInv, Counted
  <2>5. AttemptsOf(p) # {}
    BY <2>3, <2>4 DEF ConditionsOf
  <2>6. QED BY <2>3, <2>4, <2>5
<1>2. QED BY <1>1, Inductive, PTL

(* The report names all the evidence it rests on, and all that it has.     *)
THEOREM EvidenceWhole == Spec => []EvidenceIsWhole
BY EvidenceClosed, InventoryHonest, PTL DEF EvidenceIsWhole

-----------------------------------------------------------------------------
(* Theorems about the score.                                               *)

LEMMA CompleteMeans ==
    ASSUME IInv, report # None, report.complete, NEW p \in Selected
    PROVE  Whole(p) /\ lineage[p] # {} /\ \A o \in MeasuredAt(p) : Emitted(o)
<1>1. /\ pending = {} /\ queue = {} /\ p \in Points /\ Done(p)
      /\ "measurement_invalid" \notin refused
      /\ \A a \in attempts : a.outcome = "completed"
      /\ \A o \in Observables : ~Missing(o)
  BY Reporting DEF IInv, Place, Reported, Selected, Done
<1>2. Samples(p) = {c.sample : c \in ConditionsOf(p)} /\ Samples(p) # {}
  BY <1>1 DEF Samples, IInv, Counted
<1>3. AttemptsOf(p) # {}
  BY <1>2 DEF ConditionsOf
<1>4. Whole(p)
  BY <1>1, <1>3 DEF Whole, AttemptsOf
<1>5. lineage[p] # {}
  BY <1>1, <1>4 DEF IInv, Grounded
<1>6. ASSUME NEW o \in MeasuredAt(p) PROVE Emitted(o)
  <2>1. o \in Observables /\ Source[o].kind = "measurement"
    BY DEF MeasuredAt
  <2>2. ObservableLineage(o) # {}
    BY <1>1, <2>1 DEF Missing
  <2>3. QED BY <2>1, <2>2, Reporting DEF Emitted
<1>7. QED BY <1>4, <1>5, <1>6

(* What a comparison that passed has scored.                               *)
Scored ==
    score # None =>
        /\ pc = "published"
        /\ score.status = "PASS" => \A row \in Rows : row.required => Earns(row)

ScoreInv == IInv /\ Scored

LEMMA NumericEarned ==
    ASSUME IInv, pc = "published", NEW row \in Rows, row.observables \subseteq Observables, Comparable(row)
    PROVE  \A o \in row.observables :
              Emitted(o) /\ \A p \in Points : o \in MeasuredAt(p) => Whole(p) /\ Sound(p)
<1>1. SUFFICES ASSUME NEW o \in row.observables
      PROVE  Emitted(o) /\ \A p \in Points : o \in MeasuredAt(p) => Whole(p) /\ Sound(p)
  OBVIOUS
<1>2. Emitted(o)
  BY DEF Comparable
<1>3. ASSUME NEW p \in Points, o \in MeasuredAt(p) PROVE Whole(p) /\ Sound(p)
  <2>1. lineage[p] # {}
    BY <1>2, <1>3, Reporting DEF Emitted
  <2>2. QED BY <2>1, MeasuredSoundly
<1>4. QED BY <1>2, <1>3

LEMMA RecallEarned ==
    ASSUME IInv, pc = "published", NEW row \in Rows, row.op = ">=", NEW oracle,
           Fraction(row, DetectedInvalid(oracle), OracleInvalid(oracle)) \notin {"FAIL", "UNKNOWN"}
    PROVE  row.limit <= Cardinality({r \in Rules : oracle[r] = "INVALID" /\ Whole(PointOf[r])})
<1> DEFINE Good == {r \in Rules : oracle[r] = "INVALID" /\ Whole(PointOf[r])}
<1>1. DetectedInvalid(oracle) \subseteq Good
  <2>1. SUFFICES ASSUME NEW x \in DetectedInvalid(oracle) PROVE x \in Good
    OBVIOUS
  <2>2. x \in Subjects /\ oracle[x] = "INVALID" /\ Verdict(x) = "INVALID"
    BY Reporting DEF DetectedInvalid, OracleInvalid
  <2>3. x \in Rules /\ lineage[PointOf[x]] # {} /\ PointOf[x] \in Points
    BY <2>2, PlanAssumption DEF Verdict
  <2>4. Whole(PointOf[x])
    BY <2>3 DEF IInv, Evidence, Rested
  <2>5. QED BY <2>2, <2>3, <2>4
<1>2. IsFiniteSet(Good)
  BY PlanAssumption, FS_Subset
<1>3. /\ IsFiniteSet(DetectedInvalid(oracle))
      /\ Cardinality(DetectedInvalid(oracle)) <= Cardinality(Good)
  BY <1>1, <1>2, FS_Subset
<1>4. Cardinality(DetectedInvalid(oracle)) \in Nat /\ Cardinality(Good) \in Nat
  BY <1>2, <1>3, FS_CardinalityType
<1>5. row.limit \in Nat
  BY RowAssumption
<1>6. Cardinality(DetectedInvalid(oracle)) >= row.limit
  BY DEF Fraction, Within
<1>7. QED BY <1>3, <1>4, <1>5, <1>6

LEMMA CompareScores ==
    ASSUME IInv, NEW oracle, NEW match, NEW numbers, Compare(oracle, match, numbers)
    PROVE  Scored'
<1> DEFINE rows == [row \in Rows |-> RowStatus(row, oracle, match, numbers)]
<1>1. /\ pc = "published" /\ UNCHANGED vars
      /\ score'.status = Overall(rows, match) /\ score'.oracle = oracle
  BY DEF Compare
<1>2. SUFFICES ASSUME Overall(rows, match) = "PASS", NEW row \in Rows, row.required
      PROVE  Earns(row)'
  BY <1>1 DEF Scored, vars, progress
<1>3. match /\ RowStatus(row, oracle, match, numbers) \notin {"FAIL", "UNKNOWN"}
  BY <1>2 DEF Overall
<1>4. row.kind = "numeric" =>
         \A o \in row.observables :
            Emitted(o) /\ \A p \in Points : o \in MeasuredAt(p) => Whole(p) /\ Sound(p)
  <2>1. row.observables \subseteq Observables
    BY RowAssumption
  <2>2. row.kind = "numeric" => Comparable(row)
    BY <1>3 DEF RowStatus
  <2>3. QED BY <1>1, <2>1, <2>2, NumericEarned
<1>5. row.kind = "invalid_detection_recall" /\ row.op = ">=" =>
         row.limit <= Cardinality({r \in Rules : oracle[r] = "INVALID" /\ Whole(PointOf[r])})
  BY <1>1, <1>3, RecallEarned DEF RowStatus
<1>6. QED
  BY <1>1, <1>4, <1>5 DEF Earns, vars, progress, evidence, receipt, Emitted, Whole, AttemptsOf, Sound, RulesOf

LEMMA InductiveScore == ScoreSpec => []ScoreInv
<1>1. ScoreInit => ScoreInv
  BY InitIInv DEF ScoreInit, ScoreInv, Scored
<1>2. ASSUME ScoreInv, UNCHANGED scoreVars PROVE Scored'
  BY <1>2 DEF ScoreInv, Scored, scoreVars, vars, progress, evidence, receipt, Earns, Emitted, Whole,
              AttemptsOf, Sound, RulesOf
<1>3. ASSUME ScoreInv, Next, UNCHANGED score PROVE Scored'
  <2>1. CASE score = None
    BY <1>3, <2>1 DEF Scored
  <2>2. CASE score # None
    <3>1. pc = "published"
      BY <1>3, <2>2 DEF ScoreInv, Scored
    <3>2. UNCHANGED vars
      BY <1>3, <3>1 DEF Next, Stage, Attempt, SkipStage, CompileStage, CompiledTooMuch, RefuseStage,
                        Begin, RunCondition, EvaluateStage, Assemble, AssembledTooMuch, Publish,
                        PublishFails, Ended
    <3>3. QED BY <1>2, <1>3, <3>2 DEF scoreVars
  <2>3. QED BY <2>1, <2>2
<1>4. ScoreInv /\ [ScoreNext]_scoreVars => ScoreInv'
  <2>1. SUFFICES ASSUME ScoreInv, [ScoreNext]_scoreVars PROVE ScoreInv'
    OBVIOUS
  <2>2. CASE Next /\ UNCHANGED score
    BY <1>3, <2>1, <2>2, NextIInv DEF ScoreInv
  <2>3. CASE UNCHANGED scoreVars
    BY <1>2, <2>1, <2>3, NextIInv DEF ScoreInv, scoreVars
  <2>4. ASSUME NEW oracle \in [Subjects -> Judgements], NEW match \in BOOLEAN,
               NEW numbers \in [Measuring -> Status], Compare(oracle, match, numbers)
        PROVE  ScoreInv'
    <3>1. IInv'
      BY <2>1, <2>4, NextIInv DEF Compare, ScoreInv
    <3>2. QED BY <2>1, <2>4, <3>1, CompareScores DEF ScoreInv
  <2>5. QED BY <2>1, <2>2, <2>3, <2>4 DEF ScoreNext
<1>5. QED BY <1>1, <1>4, PTL DEF ScoreSpec

(* PassIsEarned: what the command line or compare_testbench_observables    *)
(* calls a pass was measured, from sound inputs, for every plan and every  *)
(* tolerance document.                                                     *)
THEOREM PassEarned == ScoreSpec => []PassIsEarned
<1>1. ScoreInv => PassIsEarned
  <2>1. SUFFICES ASSUME ScoreInv PROVE PassIsEarned
    OBVIOUS
  <2>2. report # None /\ report.complete =>
           \A p \in Selected : Whole(p) /\ lineage[p] # {} /\ \A o \in MeasuredAt(p) : Emitted(o)
    BY <2>1, CompleteMeans DEF ScoreInv
  <2>3. QED BY <2>1, <2>2 DEF ScoreInv, Scored, PassIsEarned
<1>2. QED BY <1>1, InductiveScore, PTL
-----------------------------------------------------------------------------
(* A set of indices has a least element, and a bounded one a greatest.     *)
LEMMA LeastIndex ==
    ASSUME NEW T \in SUBSET Nat, T # {}
    PROVE  Least(T) \in T /\ \A n \in T : Least(T) <= n
<1> DEFINE R == OpToRel(<, Nat)
<1>1. IsWellFoundedOn(R, Nat)
    BY NatLessThanWellFounded
<1>2. \A m, n \in Nat : m < n => <<m, n>> \in R
    BY DEF OpToRel
<1> HIDE DEF R
<1>3. PICK m \in T : \A n \in T : ~(<<n, m>> \in R)
    BY <1>1, WFMin
<1>4. ASSUME NEW n \in T PROVE m <= n
  <2>1. n \in Nat /\ m \in Nat
    OBVIOUS
  <2>2. ~(n < m)
    BY <1>2, <1>3, <2>1
  <2>3. QED
    BY <2>1, <2>2
<1>5. QED
    BY <1>4 DEF Least

LEMMA GreatestIndex ==
    ASSUME NEW top \in Nat, NEW T \in SUBSET (0 .. top), T # {}
    PROVE  Greatest(T) \in T /\ \A n \in T : Greatest(T) >= n
<1> DEFINE U == {top - n : n \in T}
<1>1. U \in SUBSET Nat /\ U # {}
  <2>1. \A n \in T : top - n \in Nat
    OBVIOUS
  <2>2. QED
    BY <2>1
<1>2. Least(U) \in U /\ \A n \in U : Least(U) <= n
    BY <1>1, LeastIndex
<1> HIDE DEF U
<1>3. PICK m \in T : Least(U) = top - m
    BY <1>2 DEF U
<1>4. ASSUME NEW n \in T PROVE m >= n
  <2>1. top - n \in U
    BY DEF U
  <2>2. QED
    BY <1>2, <1>3, <2>1
<1>5. QED
    BY <1>4 DEF Greatest

(* A series: samples over an axis, which grows if the series is normal.    *)
Series == [x : Seq(Int), y : Seq(Int)]

LEMMA Growing ==
    ASSUME NEW s \in Series, Normal(s)
    PROVE  /\ DOMAIN s.x = 1 .. Len(s.x) /\ DOMAIN s.y = 1 .. Len(s.x) /\ Len(s.x) \in Nat \ {0}
           /\ \A i \in DOMAIN s.x : s.x[i] \in Int /\ s.y[i] \in Int
           /\ \A i, j \in DOMAIN s.x : i < j <=> s.x[i] < s.x[j]
<1>1. s.x \in Seq(Int) /\ s.y \in Seq(Int) /\ Len(s.y) = Len(s.x) /\ Len(s.x) >= 1
    BY DEF Series, Normal
<1>2. /\ DOMAIN s.x = 1 .. Len(s.x) /\ DOMAIN s.y = 1 .. Len(s.x) /\ Len(s.x) \in Nat \ {0}
      /\ \A i \in DOMAIN s.x : s.x[i] \in Int /\ s.y[i] \in Int
    BY <1>1
<1>3. \A i, j \in DOMAIN s.x : i < j => s.x[i] < s.x[j]
  <2> SUFFICES ASSUME NEW i \in DOMAIN s.x, NEW k \in DOMAIN s.x, i < k, ~(s.x[i] < s.x[k]) PROVE FALSE
    OBVIOUS
  <2> DEFINE late == {j \in DOMAIN s.x : i < j /\ ~(s.x[i] < s.x[j])}
             first == Least(late)
  <2>1. late \in SUBSET Nat /\ late # {}
    BY <1>2
  <2>2. first \in late /\ \A j \in late : first <= j
    BY <2>1, LeastIndex
  <2> HIDE DEF first
  <2>3. first - 1 \in 1 .. Len(s.x) - 1 /\ i <= first - 1
    BY <1>2, <2>2
  <2>4. s.x[first - 1] < s.x[first]
    <3>1. \A n \in 1 .. Len(s.x) - 1 : s.x[n] < s.x[n + 1]
        BY DEF Normal
    <3>2. first - 1 + 1 = first
        BY <1>2, <2>2
    <3>3. QED
        BY <2>3, <3>1, <3>2
  <2>5. first - 1 \notin late
    <3>1. first \in Int /\ ~(first <= first - 1)
        BY <1>2, <2>2
    <3>2. QED
        BY <2>2, <3>1
  <2>6. i = first - 1 \/ s.x[i] < s.x[first - 1]
    BY <1>2, <2>3, <2>5
  <2>7. s.x[i] \in Int /\ s.x[first - 1] \in Int /\ s.x[first] \in Int /\ ~(s.x[i] < s.x[first])
    BY <1>2, <2>2, <2>3
  <2>8. QED
    BY <2>4, <2>6, <2>7
<1>4. \A i, j \in DOMAIN s.x : s.x[i] < s.x[j] => i < j
  <2> SUFFICES ASSUME NEW i \in DOMAIN s.x, NEW j \in DOMAIN s.x, s.x[i] < s.x[j] PROVE i < j
    OBVIOUS
  <2>1. i \in Int /\ j \in Int /\ s.x[i] \in Int /\ s.x[j] \in Int
    BY <1>2
  <2>2. i # j /\ ~(j < i)
    BY <1>3, <2>1
  <2>3. QED
    BY <2>1, <2>2
<1>5. QED
    BY <1>2, <1>3, <1>4

(* Requests, with a window or for the whole axis.                          *)
WindowRecord    == [start : Int, stop : Int]
SettlingRequest == [kind : {"settling_time"}, target : Int, tolerance : Int, reference : Int, hold : Int]
                   \cup [kind : {"settling_time"}, target : Int, tolerance : Int, reference : Int, hold : Int,
                         window : WindowRecord]

LEMMA SettlingMeasured ==
    ASSUME NEW s, NEW r, r.kind = "settling_time", Measure(s, r).status \in {"measured", "not_found"}
    PROVE  Normal(s) /\ Measure(s, r) = Settling(s, Window(s, r), r)
<1>1. Refused.status = "refused"
    BY DEF Refused
<1>2. Normal(s)
    BY <1>1 DEF Measure
<1>3. QED
    BY <1>1 DEF Measure

(* What result.measure calls a settling time is one: from there on all     *)
(* samples of the window are within the tolerance, every earlier one is    *)
(* followed by one outside, and where none is found no stretch of the hold *)
(* is inside to the end (the settling measurement of measure_result).      *)
THEOREM SettledIsSettled ==
    ASSUME NEW s \in Series, NEW r \in SettlingRequest
    PROVE  Steady(s, r)
<1> DEFINE m      == Measure(s, r)
           w      == Window(s, r)
           seen   == {i \in Indices(s, w) : s.x[i] >= r.reference}
           out(i) == Abs(s.y[i] - r.target) > r.tolerance
           inside == {i \in seen : \A j \in seen : j >= i => Abs(s.y[j] - r.target) <= r.tolerance}
           last   == Greatest(seen)
           held   == {i \in inside : s.x[last] - s.x[i] >= r.hold}
           first  == Least(held)
<1>1. /\ r.kind = "settling_time" /\ r.target \in Int /\ r.tolerance \in Int /\ r.reference \in Int /\ r.hold \in Int
    BY DEF SettlingRequest
<1>2. CASE m.status \notin {"measured", "not_found"}
    BY <1>2 DEF Steady
<1>3. CASE m.status \in {"measured", "not_found"}
  <2>1. Normal(s) /\ m = Settling(s, w, r)
    BY <1>1, <1>3, SettlingMeasured
  <2>2. /\ DOMAIN s.x = 1 .. Len(s.x) /\ Len(s.x) \in Nat \ {0}
        /\ \A i \in DOMAIN s.x : s.x[i] \in Int /\ s.y[i] \in Int
        /\ \A i, j \in DOMAIN s.x : i < j <=> s.x[i] < s.x[j]
    BY <2>1, Growing
  <2>3. m = IF held = {} THEN NotFound ELSE Measured(Ratio(s.x[first] - r.reference, 1), s.x[first])
    <3>1. Refused.status = "refused"
        BY DEF Refused
    <3>2. QED
        BY <1>3, <2>1, <3>1 DEF Settling
  <2>4. seen \subseteq DOMAIN s.x /\ inside \subseteq seen /\ held \subseteq inside /\ DOMAIN s.x \subseteq Nat
    BY <2>2 DEF Indices
  <2>5. \A i \in DOMAIN s.x : Abs(s.y[i] - r.target) \in Int
    BY <1>1, <2>2 DEF Abs
  <2>6. seen # {} => last \in seen /\ \A i \in seen : i <= last
    <3>1. seen \in SUBSET (0 .. Len(s.x)) /\ Len(s.x) \in Nat
        BY <2>2, <2>4
    <3> HIDE DEF seen
    <3>2. ASSUME seen # {} PROVE last \in seen /\ \A i \in seen : last >= i
        BY <3>1, <3>2, GreatestIndex
    <3>3. QED
        BY <2>2, <2>4, <3>2
  <2>7. held # {} => first \in held /\ \A i \in held : first <= i
    <3>1. held \in SUBSET Nat
        BY <2>4
    <3> HIDE DEF held
    <3>2. QED
        BY <3>1, LeastIndex
  <2> HIDE DEF w, first, last
  (* Outside, or before a sample that is.                                  *)
  <2>8. ASSUME NEW i \in seen, i \notin inside
        PROVE  \E j \in seen : i <= j /\ out(j)
    <3>1. PICK j \in seen : j >= i /\ ~(Abs(s.y[j] - r.target) <= r.tolerance)
        BY <2>8
    <3>2. out(j)
        BY <1>1, <2>4, <2>5, <3>1
    <3>3. QED
        BY <2>4, <3>1, <3>2
  <2>9. CASE m.status = "measured"
    <3>1. held # {} /\ m.at = s.x[first]
        BY <2>3, <2>9 DEF NotFound, Measured
    <3>2. first \in held /\ first \in inside /\ first \in seen /\ s.x[first] \in Int
        BY <2>2, <2>4, <2>7, <3>1
    <3>3. ASSUME NEW i \in seen, s.x[i] >= m.at PROVE ~out(i)
        <4>1. ~(i < first)
            BY <2>2, <2>4, <3>1, <3>2, <3>3
        <4>2. i >= first
            BY <2>2, <2>4, <3>2, <4>1
        <4>3. Abs(s.y[i] - r.target) <= r.tolerance
            BY <3>2, <4>2
        <4>4. QED
            BY <1>1, <2>4, <2>5, <4>3
    <3>4. ASSUME NEW i \in seen, s.x[i] < m.at
          PROVE  \E j \in seen : s.x[i] <= s.x[j] /\ s.x[j] < m.at /\ out(j)
        <4>1. i < first
            BY <2>2, <2>4, <3>1, <3>2, <3>4
        <4>2. i \notin held
            <5>1. i \in Int /\ first \in Int /\ ~(first <= i)
                BY <2>4, <3>2, <4>1
            <5> HIDE DEF held
            <5>2. QED
                BY <2>7, <3>1, <5>1
        <4>3. s.x[last] - s.x[i] >= r.hold
            <5>1. s.x[last] - s.x[first] >= r.hold
                BY <3>2
            <5>2. s.x[last] \in Int /\ s.x[i] \in Int
                BY <2>2, <2>4, <2>6, <3>2
            <5>3. QED
                BY <1>1, <3>1, <3>2, <3>4, <5>1, <5>2
        <4>4. i \notin inside
            BY <4>2, <4>3
        <4>5. PICK j \in seen : i <= j /\ out(j)
            BY <2>8, <4>4
        <4>6. s.x[i] <= s.x[j]
            BY <2>2, <2>4, <4>5
        <4>7. s.x[j] < m.at
            <5>1. ~(s.x[j] >= m.at)
                BY <3>3, <4>5
            <5>2. QED
                BY <2>2, <2>4, <3>1, <3>2, <5>1
        <4>8. QED
            BY <4>5, <4>6, <4>7
    <3>5. QED
        BY <2>9, <3>3, <3>4 DEF Steady, w
  <2>10. CASE m.status = "not_found"
    <3>1. held = {}
        BY <2>3, <2>10 DEF NotFound, Measured
    <3>2. ASSUME NEW i \in seen, NEW k \in seen, s.x[k] - s.x[i] >= r.hold
          PROVE  \E j \in seen : j >= i /\ out(j)
        <4>1. last \in seen /\ k <= last
            BY <2>6
        <4>2. s.x[k] <= s.x[last]
            BY <2>2, <2>4, <4>1
        <4>3. s.x[last] - s.x[i] >= r.hold
            <5>1. s.x[k] \in Int /\ s.x[last] \in Int /\ s.x[i] \in Int
                BY <2>2, <2>4, <4>1
            <5> HIDE DEF seen
            <5>2. QED
                BY <1>1, <3>2, <4>2, <5>1
        <4>4. i \notin inside
            BY <3>1, <4>3
        <4>5. QED
            BY <2>4, <2>8, <4>4
    <3>3. QED
        BY <2>10, <3>2 DEF Steady, w
  <2>11. QED
    BY <1>3, <2>9, <2>10
<1>4. QED
    BY <1>2, <1>3

(* The k-th of a set of indices: each rank is taken once, in order.        *)
LEMMA Ranked ==
    ASSUME NEW top \in Nat, NEW S \in SUBSET (1 .. top)
    PROVE  /\ Cardinality(S) \in Nat
           /\ \A k \in 1 .. Cardinality(S) : Nth(S, k) \in S
           /\ \A k, l \in 1 .. Cardinality(S) : k < l => Nth(S, k) < Nth(S, l)
           /\ \A i \in S : \E k \in 1 .. Cardinality(S) : Nth(S, k) = i
<1> DEFINE upTo(n) == {j \in S : j <= n}
           rank(n) == Cardinality(upTo(n))
<1>0. \A j \in S : j \in Int /\ 1 <= j /\ j <= top
    OBVIOUS
<1>1. IsFiniteSet(S) /\ Cardinality(S) \in Nat
  <2>1. IsFiniteSet(1 .. top)
    <3>1. 1 \in Int /\ top \in Int
        OBVIOUS
    <3>2. QED
        BY <3>1, FS_Interval, Zenon
  <2>2. IsFiniteSet(S)
    BY <2>1, FS_Subset
  <2>3. QED
    BY <2>2, FS_CardinalityType
<1>2. ASSUME NEW n \in Int
      PROVE  IsFiniteSet(upTo(n)) /\ rank(n) \in Nat /\ rank(n) <= Cardinality(S)
  <2>1. upTo(n) \in SUBSET S
    OBVIOUS
  <2> HIDE DEF upTo
  <2>2. IsFiniteSet(upTo(n)) /\ Cardinality(upTo(n)) <= Cardinality(S)
    BY <1>1, <2>1, FS_Subset
  <2>3. QED
    BY <2>2, FS_CardinalityType
<1>3. ASSUME NEW m \in Int, NEW n \in Int, m <= n
      PROVE  rank(m) <= rank(n) /\ (rank(m) = rank(n) => upTo(m) = upTo(n))
  <2>1. upTo(m) \in SUBSET upTo(n)
    <3>1. \A j \in S : j <= m => j <= n
        BY <1>0, <1>3
    <3>2. QED
        BY <3>1
  <2>2. IsFiniteSet(upTo(n))
    BY <1>2
  <2> HIDE DEF upTo
  <2>3. QED
    BY <2>1, <2>2, FS_Subset
<1>4. ASSUME NEW i \in S, NEW j \in S, i < j
      PROVE  rank(i) < rank(j)
  <2>1. i \in Int /\ j \in Int /\ i <= j /\ j \in upTo(j) /\ j \notin upTo(i)
    BY <1>4
  <2>2. rank(i) \in Nat /\ rank(j) \in Nat
    BY <1>2, <2>1
  <2> HIDE DEF rank, upTo
  <2>3. rank(i) <= rank(j) /\ rank(i) # rank(j)
    BY <1>3, <2>1
  <2>4. QED
    BY <2>2, <2>3
<1>5. ASSUME NEW k \in 1 .. Cardinality(S)
      PROVE  Nth(S, k) \in S /\ rank(Nth(S, k)) = k
  <2> DEFINE enough == {n \in 0 .. top : rank(n) >= k}
             n      == Least(enough)
  <2>1. top \in enough
    <3>1. upTo(top) = S
        BY <1>0
    <3>2. QED
        BY <1>1, <3>1
  <2>2. enough \in SUBSET Nat /\ enough # {}
    BY <2>1
  <2>3. n \in enough /\ \A m \in enough : n <= m
    BY <2>2, LeastIndex
  <2> HIDE DEF n
  <2>4. n \in 0 .. top /\ rank(n) >= k /\ rank(n) \in Nat
    BY <1>2, <2>3
  <2>5. n # 0
    <3>1. upTo(0) = {}
        <4>1. \A j \in S : ~(j <= 0)
            BY <1>0
        <4>2. QED
            BY <4>1
    <3>2. rank(0) = 0
        BY <3>1, FS_EmptySet
    <3>3. QED
        BY <2>4, <3>2
  <2>6. n - 1 \in 0 .. top /\ n - 1 \in Int /\ ~(n <= n - 1)
    BY <2>4, <2>5
  <2>7. rank(n - 1) \in Nat /\ rank(n - 1) < k
    <3>1. rank(n - 1) \in Nat
        BY <1>2, <2>6
    <3>2. ~(rank(n - 1) >= k)
        BY <2>3, <2>6
    <3> HIDE DEF rank
    <3>3. QED
        BY <3>1, <3>2
  <2>8. n \in S
    <3>1. CASE n \notin S
        <4>1. \A j \in S : j <= n <=> j <= n - 1
            BY <1>0, <2>4, <3>1
        <4>2. upTo(n) = upTo(n - 1)
            BY <4>1
        <4> HIDE DEF upTo
        <4>3. QED
            BY <2>4, <2>7, <4>2
    <3>2. QED
        BY <3>1
  <2>9. upTo(n) = upTo(n - 1) \cup {n} /\ n \notin upTo(n - 1)
    <3>1. \A j \in S : j <= n <=> (j <= n - 1 \/ j = n)
        BY <1>0, <2>4
    <3>2. QED
        BY <2>6, <2>8, <3>1
  <2>10. rank(n) = rank(n - 1) + 1
    <3>1. IsFiniteSet(upTo(n - 1))
        BY <1>2, <2>6
    <3> HIDE DEF upTo
    <3>2. QED
        BY <2>9, <3>1, FS_AddElement
  <2>11. rank(n) = k
    <3> HIDE DEF rank
    <3>1. QED
        BY <2>4, <2>7, <2>10
  <2>12. QED
    BY <2>8, <2>11 DEF Nth
<1>6. ASSUME NEW k \in 1 .. Cardinality(S), NEW l \in 1 .. Cardinality(S), k < l
      PROVE  Nth(S, k) < Nth(S, l)
  <2>1. /\ Nth(S, k) \in Int /\ Nth(S, l) \in Int /\ rank(Nth(S, k)) = k /\ rank(Nth(S, l)) = l
    BY <1>0, <1>5
  <2> HIDE DEF rank
  <2>2. ~(Nth(S, l) <= Nth(S, k))
    BY <1>1, <1>3, <1>6, <2>1
  <2>3. QED
    BY <2>1, <2>2
<1>7. ASSUME NEW i \in S
      PROVE  \E k \in 1 .. Cardinality(S) : Nth(S, k) = i
  <2>1. rank(i) \in 1 .. Cardinality(S)
    <3>0. \A j \in S : ~(j <= 0)
        BY <1>0
    <3>1. i \in Int /\ upTo(0) = {} /\ 0 <= i /\ i \in upTo(i)
        <4>1. i \in Int /\ 0 <= i /\ i <= i
            BY <1>0
        <4>2. QED
            BY <3>0, <4>1
    <3>2. rank(0) = 0 /\ rank(i) \in Nat /\ rank(i) <= Cardinality(S)
        BY <1>2, <3>1, FS_EmptySet
    <3> HIDE DEF upTo
    <3>3. rank(0) <= rank(i) /\ rank(0) # rank(i)
        BY <1>3, <3>1
    <3> HIDE DEF rank
    <3>4. QED
        BY <1>1, <3>2, <3>3
  <2>2. Nth(S, rank(i)) \in S /\ rank(Nth(S, rank(i))) = rank(i)
    BY <1>5, <2>1
  <2> DEFINE n == Nth(S, rank(i))
  <2> HIDE DEF n
  <2>3. n \in S /\ rank(n) = rank(i)
    BY <2>2 DEF n
  <2>4. n \in Int /\ i \in Int /\ rank(i) \in Nat
    BY <1>2, <2>3
  <2>5. ~(n < i) /\ ~(i < n)
    <3> HIDE DEF rank
    <3>1. QED
        BY <1>4, <2>3, <2>4
  <2>6. n = i
    BY <2>4, <2>5
  <2>7. QED
    BY <2>1, <2>6 DEF n
<1>8. QED
    BY <1>1, <1>5, <1>6, <1>7

(* Where a line crosses a threshold. The axis is scaled so that each step  *)
(* is a multiple of the rise or fall in it, and every crossing an integer: *)
(* any series of ratios can be.                                            *)
Scaled(s) == \A i \in 1 .. Len(s.x) - 1 :
                s.y[i] # s.y[i + 1] => (s.x[i + 1] - s.x[i]) % Abs(s.y[i + 1] - s.y[i]) = 0

LEMMA Multiple ==
    ASSUME NEW n \in Nat \ {0}, NEW d \in Nat \ {0}, n % d = 0
    PROVE  \E q \in Nat \ {0} : n = q * d
<1>1. n = d * (n \div d) + (n % d) /\ n \div d \in Nat
    OBVIOUS
<1>2. n = (n \div d) * d /\ n \div d # 0
    BY <1>1
<1>3. QED
    BY <1>1, <1>2

LEMMA Quotient ==
    ASSUME NEW a \in Nat, NEW d \in Nat \ {0}, NEW q \in Nat
    PROVE  (a * (q * d)) \div d = a * q
<1> DEFINE n == a * (q * d)
           c == n \div d
<1>1. n = d * (a * q) /\ n \in Nat /\ c \in Int /\ a * q \in Int
    OBVIOUS
<1>2. d * c <= n /\ n < d * (c + 1)
    BY <1>1
<1> HIDE DEF n, c
<1>3. c <= a * q /\ a * q < c + 1
    BY <1>1, <1>2
<1>4. QED
    BY <1>1, <1>3 DEF n, c

(* In a segment that rises, a threshold is crossed after the segment's     *)
(* start and not after its end, and a higher one later.                    *)
LEMMA RisingInstant ==
    ASSUME NEW s \in Series, Normal(s), Scaled(s), NEW i \in 1 .. Len(s.x) - 1,
           NEW t \in Int, Rises(s, i, t)
    PROVE  /\ CrossingAt(s, i, t) \in Int
           /\ s.x[i] < CrossingAt(s, i, t) /\ CrossingAt(s, i, t) <= s.x[i + 1]
           /\ \A u \in Int : Rises(s, i, u) /\ t < u => CrossingAt(s, i, t) < CrossingAt(s, i, u)
<1>1. i \in DOMAIN s.x /\ i + 1 \in DOMAIN s.x /\ i < i + 1
    BY Growing
<1>2. /\ s.x[i] \in Int /\ s.x[i + 1] \in Int /\ s.x[i] < s.x[i + 1]
      /\ s.y[i] \in Int /\ s.y[i + 1] \in Int
    BY <1>1, Growing
<1> DEFINE d == s.y[i + 1] - s.y[i]
           n == s.x[i + 1] - s.x[i]
<1>3. d \in Nat \ {0} /\ n \in Nat \ {0} /\ Abs(s.y[i + 1] - s.y[i]) = d
  <2>1. s.y[i] < t /\ t <= s.y[i + 1]
    BY DEF Rises
  <2>2. \A a, b \in Int : a < b => b - a \in Nat \ {0}
    OBVIOUS
  <2>3. s.y[i] < s.y[i + 1]
    BY <1>2, <2>1
  <2>4. d \in Nat \ {0} /\ n \in Nat \ {0}
    BY <1>2, <2>2, <2>3
  <2>5. QED
    BY <2>4 DEF Abs
<1>4. n % d = 0
  <2>1. s.y[i] # s.y[i + 1]
    BY <1>2, <1>3
  <2>2. n % Abs(s.y[i + 1] - s.y[i]) = 0
    BY <2>1 DEF Scaled
  <2>3. QED
    BY <1>3, <2>2
<1>5. PICK q \in Nat \ {0} : n = q * d
  <2> HIDE DEF n, d
  <2>1. QED
    BY <1>3, <1>4, Multiple
<1>6. ASSUME NEW u \in Int, Rises(s, i, u)
      PROVE  CrossingAt(s, i, u) = s.x[i] + (u - s.y[i]) * q /\ u - s.y[i] \in Nat \ {0} /\ u - s.y[i] <= d
  <2>1. u - s.y[i] \in Nat \ {0} /\ u - s.y[i] <= d /\ Abs(u - s.y[i]) = u - s.y[i]
    <3>1. s.y[i] < u /\ u <= s.y[i + 1]
        BY <1>6 DEF Rises
    <3>2. \A k, l, j \in Int : k < l /\ l <= j => l - k \in Nat \ {0} /\ l - k <= j - k
        OBVIOUS
    <3>3. u - s.y[i] \in Nat \ {0} /\ u - s.y[i] <= d
        BY <1>2, <3>1, <3>2
    <3>4. QED
        BY <3>3 DEF Abs
  <2>2. CrossingAt(s, i, u) = s.x[i] + ((u - s.y[i]) * n) \div d
    BY <1>3, <2>1 DEF CrossingAt
  <2> DEFINE a == u - s.y[i]
  <2> HIDE DEF a, n, d
  <2>3. a \in Nat
    BY <2>1 DEF a
  <2>4. (a * n) \div d = a * q
    BY <1>3, <1>5, <2>3, Quotient
  <2>5. QED
    BY <2>1, <2>2, <2>4 DEF a
<1>7. ASSUME NEW u \in Int, Rises(s, i, u), t < u
      PROVE  CrossingAt(s, i, t) < CrossingAt(s, i, u)
  <2> DEFINE a == t - s.y[i]
             b == u - s.y[i]
  <2>1. a \in Nat /\ b \in Nat /\ a < b
    BY <1>2, <1>6, <1>7
  <2>2. CrossingAt(s, i, t) = s.x[i] + a * q /\ CrossingAt(s, i, u) = s.x[i] + b * q
    BY <1>6, <1>7
  <2> HIDE DEF a, b
  <2>3. a * q < b * q /\ a * q \in Int /\ b * q \in Int
    BY <2>1
  <2> DEFINE early == a * q
             later == b * q
  <2> HIDE DEF early, later
  <2>4. early < later /\ early \in Int /\ later \in Int
    BY <2>3 DEF early, later
  <2>5. CrossingAt(s, i, t) = s.x[i] + early /\ CrossingAt(s, i, u) = s.x[i] + later
    BY <2>2 DEF early, later
  <2>6. QED
    BY <1>2, <2>4, <2>5
<1>8. CrossingAt(s, i, t) \in Int /\ s.x[i] < CrossingAt(s, i, t) /\ CrossingAt(s, i, t) <= s.x[i + 1]
  <2> DEFINE a == t - s.y[i]
  <2>1. a \in Nat \ {0} /\ a <= d /\ CrossingAt(s, i, t) = s.x[i] + a * q
    BY <1>6
  <2>2. s.x[i + 1] = s.x[i] + n
    BY <1>2
  <2> HIDE DEF a, d, n
  <2>3. 0 < a * q /\ a * q <= q * d /\ a * q \in Int /\ q * d = n
    <3>1. a \in Nat \ {0} /\ d \in Nat \ {0} /\ q \in Nat \ {0} /\ a <= d
        BY <1>3, <1>5, <2>1
    <3>2. \A k, l, j \in Nat \ {0} : k <= l => 0 < k * j /\ k * j <= j * l /\ k * j \in Int
        OBVIOUS
    <3>3. 0 < a * q /\ a * q <= q * d /\ a * q \in Int
        BY <3>1, <3>2
    <3>4. QED
        BY <1>5, <3>3
  <2> DEFINE part == a * q
  <2> HIDE DEF part
  <2>4. part \in Int /\ 0 < part /\ part <= n /\ CrossingAt(s, i, t) = s.x[i] + part
    BY <2>1, <2>3 DEF part
  <2>5. n \in Int
    BY <1>3
  <2>6. QED
    BY <1>2, <2>2, <2>4, <2>5
<1>9. QED
    BY <1>7, <1>8

(* Between a sample below a threshold and a later one that is not, some    *)
(* segment rises through it.                                               *)
LEMMA SomewhereRises ==
    ASSUME NEW s \in Series, Normal(s), NEW t \in Int, NEW a \in DOMAIN s.x, NEW b \in DOMAIN s.x,
           a < b, s.y[a] < t, t <= s.y[b]
    PROVE  \E i \in 1 .. Len(s.x) - 1 : a <= i /\ i < b /\ Rises(s, i, t)
<1> DEFINE high  == {j \in DOMAIN s.x : a < j /\ t <= s.y[j]}
           first == Least(high)
<1>1. /\ DOMAIN s.x = 1 .. Len(s.x) /\ Len(s.x) \in Nat
      /\ \A j \in DOMAIN s.x : j \in Nat /\ 1 <= j /\ j <= Len(s.x) /\ s.y[j] \in Int
    BY Growing
<1>2. high \in SUBSET Nat /\ b \in high
    BY <1>1
<1>3. first \in high /\ \A j \in high : first <= j
    BY <1>2, LeastIndex
<1> HIDE DEF first
<1>4. first \in DOMAIN s.x /\ a < first /\ t <= s.y[first] /\ first <= b
    BY <1>2, <1>3
<1>5. first - 1 \in DOMAIN s.x /\ first - 1 \in 1 .. Len(s.x) - 1 /\ a <= first - 1 /\ first - 1 < b
    BY <1>1, <1>4
<1>6. s.y[first - 1] < t
  <2>1. CASE a = first - 1
    BY <2>1
  <2>2. CASE a # first - 1
    <3>1. a < first - 1 /\ ~(first <= first - 1)
        BY <1>1, <1>4, <1>5, <2>2
    <3>2. first - 1 \notin high
        BY <1>3, <3>1
    <3>3. ~(t <= s.y[first - 1]) /\ s.y[first - 1] \in Int
        BY <1>1, <1>5, <3>1, <3>2
    <3>4. QED
        BY <3>3
  <2>3. QED
    BY <2>1, <2>2
<1>7. first - 1 + 1 = first
    BY <1>1, <1>4
<1>8. Rises(s, first - 1, t)
    BY <1>4, <1>6, <1>7 DEF Rises
<1>9. QED
    BY <1>5, <1>8

(* The rising crossings of a window, one for each segment, in order.       *)
LEMMA RisingCrossings ==
    ASSUME NEW s \in Series, Normal(s), Scaled(s), NEW t \in Int, NEW w \in WindowRecord
    PROVE  LET rising == Crossed(s, t, "rising", w)
               found  == Crossings(s, t, "rising", w)
           IN /\ Len(found) \in Nat /\ DOMAIN found = 1 .. Len(found)
              /\ \A i \in rising : /\ i \in 1 .. Len(s.x) - 1 /\ Rises(s, i, t)
                                   /\ s.x[i] >= w.start /\ s.x[i + 1] <= w.stop
              /\ \A k \in DOMAIN found : \E i \in rising : found[k] = CrossingAt(s, i, t)
              /\ \A i \in rising : \E k \in DOMAIN found : found[k] = CrossingAt(s, i, t)
              /\ \A k \in DOMAIN found : found[k] \in Int
              /\ \A k, l \in DOMAIN found : k < l => found[k] < found[l]
<1> DEFINE rising == Crossed(s, t, "rising", w)
           found  == Crossings(s, t, "rising", w)
<1>1. \A i \in rising : i \in 1 .. Len(s.x) - 1 /\ Rises(s, i, t) /\ s.x[i] >= w.start /\ s.x[i + 1] <= w.stop
    BY DEF Crossed, Crosses
<1>2. Len(s.x) - 1 \in Nat /\ rising \in SUBSET (1 .. Len(s.x) - 1)
    BY <1>1, Growing
<1>3. found = [k \in 1 .. Cardinality(rising) |-> CrossingAt(s, Nth(rising, k), t)]
    BY DEF Crossings
<1> HIDE DEF rising, found
<1>4. /\ Cardinality(rising) \in Nat
      /\ \A k \in 1 .. Cardinality(rising) : Nth(rising, k) \in rising
      /\ \A k, l \in 1 .. Cardinality(rising) : k < l => Nth(rising, k) < Nth(rising, l)
      /\ \A i \in rising : \E k \in 1 .. Cardinality(rising) : Nth(rising, k) = i
    BY <1>2, Ranked
<1>5. DOMAIN found = 1 .. Cardinality(rising) /\ Len(found) = Cardinality(rising)
    BY <1>3, <1>4
<1>6. \A k \in DOMAIN found : Nth(rising, k) \in rising /\ found[k] = CrossingAt(s, Nth(rising, k), t)
    BY <1>3, <1>4, <1>5
<1>7. \A i \in rising : /\ CrossingAt(s, i, t) \in Int
                        /\ s.x[i] < CrossingAt(s, i, t) /\ CrossingAt(s, i, t) <= s.x[i + 1]
    BY <1>1, RisingInstant
<1>8. ASSUME NEW k \in DOMAIN found, NEW l \in DOMAIN found, k < l
      PROVE  found[k] < found[l]
  <2> DEFINE i == Nth(rising, k)
             j == Nth(rising, l)
  <2>1. i \in rising /\ j \in rising /\ i < j /\ found[k] = CrossingAt(s, i, t) /\ found[l] = CrossingAt(s, j, t)
    BY <1>4, <1>5, <1>6, <1>8
  <2> HIDE DEF i, j
  <2>2. i + 1 \in DOMAIN s.x /\ j \in DOMAIN s.x /\ (i + 1 < j \/ i + 1 = j)
    BY <1>1, <2>1, Growing
  <2>3. s.x[i + 1] \in Int /\ s.x[j] \in Int /\ s.x[i + 1] <= s.x[j]
    BY <2>2, Growing
  <2>4. QED
    BY <1>7, <2>1, <2>3
<1>9. QED
    BY <1>1, <1>4, <1>5, <1>6, <1>7, <1>8 DEF rising, found

LEMMA Chained == \A k, l, n \in Int : /\ k <= l /\ l <= n => k <= n /\ n >= k
                                      /\ k < l /\ l <= n => k < n
                                      /\ k < l /\ l < n => k < n
    OBVIOUS

(* Positions and what an ascending sequence holds at them.                 *)
LEMMA InOrder ==
    ASSUME NEW f, DOMAIN f \subseteq Int, \A k \in DOMAIN f : f[k] \in Int,
           \A k, l \in DOMAIN f : k < l => f[k] < f[l], NEW k \in DOMAIN f, NEW l \in DOMAIN f
    PROVE  /\ k \in Int /\ l \in Int /\ f[k] \in Int /\ f[l] \in Int
           /\ k <= l => f[k] <= f[l]
           /\ k < l => f[k] < f[l]
           /\ f[k] < f[l] => k < l
<1>1. k \in Int /\ l \in Int /\ f[k] \in Int /\ f[l] \in Int
    OBVIOUS
<1>2. (k < l => f[k] < f[l]) /\ (l < k => f[l] < f[k]) /\ (k = l => f[k] = f[l])
    OBVIOUS
<1>3. QED
    BY <1>1, <1>2

LEMMA OnAxis ==
    ASSUME NEW s \in Series, Normal(s), NEW i \in DOMAIN s.x, NEW j \in DOMAIN s.x
    PROVE  /\ i \in Nat /\ j \in Nat /\ s.x[i] \in Int /\ s.x[j] \in Int /\ s.y[i] \in Int /\ s.y[j] \in Int
           /\ i <= j => s.x[i] <= s.x[j]
           /\ s.x[i] < s.x[j] => i < j
<1>1. i \in Nat /\ j \in Nat /\ s.x[i] \in Int /\ s.x[j] \in Int /\ s.y[i] \in Int /\ s.y[j] \in Int
    BY Growing
<1>2. (i < j => s.x[i] < s.x[j]) /\ (s.x[i] < s.x[j] => i < j)
    BY Growing
<1>3. QED
    BY <1>1, <1>2

(* From its start to the first end before the next start, a rise stays     *)
(* between its levels.                                                     *)
LEMMA OneRise ==
    ASSUME NEW s \in Series, Normal(s), Scaled(s), NEW w \in WindowRecord,
           NEW lower \in Int, NEW upper \in Int, lower < upper, NEW n \in Nat \ {0},
           NEW starts, starts = Crossings(s, lower, "rising", w), n <= Len(starts),
           NEW ends, ends = Crossings(s, upper, "rising", w), EndsOf(starts, ends, n) # {}
    PROVE  LET end == ends[Least(EndsOf(starts, ends, n))] IN
           /\ end \in Int /\ starts[n] \in Int /\ starts[n] < end
           /\ \A i \in DOMAIN s.x : starts[n] < s.x[i] /\ s.x[i] < end => lower <= s.y[i] /\ s.y[i] <= upper
<1> DEFINE from  == Crossed(s, lower, "rising", w)
           to    == Crossed(s, upper, "rising", w)
           last  == Least(EndsOf(starts, ends, n))
           start == starts[n]
           end   == ends[last]
<1>1. /\ DOMAIN s.x = 1 .. Len(s.x) /\ Len(s.x) \in Nat \ {0}
      /\ \A i \in DOMAIN s.x : s.x[i] \in Int /\ s.y[i] \in Int
      /\ \A i, j \in DOMAIN s.x : i < j <=> s.x[i] < s.x[j]
    BY Growing
<1>2. /\ Len(starts) \in Nat /\ DOMAIN starts = 1 .. Len(starts)
      /\ \A i \in from : i \in 1 .. Len(s.x) - 1 /\ Rises(s, i, lower) /\ s.x[i] >= w.start /\ s.x[i + 1] <= w.stop
      /\ \A k \in DOMAIN starts : \E i \in from : starts[k] = CrossingAt(s, i, lower)
      /\ \A i \in from : \E k \in DOMAIN starts : starts[k] = CrossingAt(s, i, lower)
      /\ \A k \in DOMAIN starts : starts[k] \in Int
      /\ \A k, l \in DOMAIN starts : k < l => starts[k] < starts[l]
    BY RisingCrossings
<1>3. /\ Len(ends) \in Nat /\ DOMAIN ends = 1 .. Len(ends)
      /\ \A i \in to : i \in 1 .. Len(s.x) - 1 /\ Rises(s, i, upper) /\ s.x[i] >= w.start /\ s.x[i + 1] <= w.stop
      /\ \A k \in DOMAIN ends : \E i \in to : ends[k] = CrossingAt(s, i, upper)
      /\ \A i \in to : \E k \in DOMAIN ends : ends[k] = CrossingAt(s, i, upper)
      /\ \A k \in DOMAIN ends : ends[k] \in Int
      /\ \A k, l \in DOMAIN ends : k < l => ends[k] < ends[l]
    BY RisingCrossings
<1>4. /\ last \in DOMAIN ends /\ end >= start /\ (n < Len(starts) => end < starts[n + 1])
      /\ \A k \in DOMAIN ends : ends[k] >= start /\ (n < Len(starts) => ends[k] < starts[n + 1]) => last <= k
  <2>1. EndsOf(starts, ends, n) \in SUBSET Nat
    <3>1. EndsOf(starts, ends, n) \subseteq DOMAIN ends
        BY DEF EndsOf
    <3>2. DOMAIN ends \subseteq Nat
        BY <1>3
    <3>3. QED
        BY <3>1, <3>2
  <2>2. last \in EndsOf(starts, ends, n) /\ \A k \in EndsOf(starts, ends, n) : last <= k
    BY <2>1, LeastIndex
  <2> HIDE DEF last
  <2>3. QED
    BY <2>2 DEF EndsOf
<1> HIDE DEF last
<1>5. n \in DOMAIN starts /\ start \in Int /\ end \in Int
    BY <1>2, <1>3, <1>4
<1>6. PICK a \in from : start = CrossingAt(s, a, lower)
    BY <1>2, <1>5
<1>7. PICK b \in to : end = CrossingAt(s, b, upper)
    BY <1>3, <1>4
<1>a. /\ a \in 1 .. Len(s.x) - 1 /\ a \in DOMAIN s.x /\ a + 1 \in DOMAIN s.x /\ s.x[a] >= w.start
      /\ s.y[a] < lower /\ lower <= s.y[a + 1] /\ s.x[a] < start /\ start <= s.x[a + 1]
  <2>1. a \in 1 .. Len(s.x) - 1 /\ Rises(s, a, lower) /\ s.x[a] >= w.start
    BY <1>2, <1>6
  <2>2. a \in DOMAIN s.x /\ a + 1 \in DOMAIN s.x
    BY <1>1, <2>1
  <2>3. s.y[a] < lower /\ lower <= s.y[a + 1]
    BY <2>1 DEF Rises
  <2>4. s.x[a] < CrossingAt(s, a, lower) /\ CrossingAt(s, a, lower) <= s.x[a + 1]
    BY <2>1, RisingInstant
  <2>5. QED
    BY <1>6, <2>1, <2>2, <2>3, <2>4
<1>b. /\ b \in 1 .. Len(s.x) - 1 /\ b \in DOMAIN s.x /\ b + 1 \in DOMAIN s.x /\ s.x[b + 1] <= w.stop
      /\ s.y[b] < upper /\ upper <= s.y[b + 1] /\ s.x[b] < end /\ end <= s.x[b + 1]
  <2>1. b \in 1 .. Len(s.x) - 1 /\ Rises(s, b, upper) /\ s.x[b + 1] <= w.stop
    BY <1>3, <1>7
  <2>2. b \in DOMAIN s.x /\ b + 1 \in DOMAIN s.x
    BY <1>1, <2>1
  <2>3. s.y[b] < upper /\ upper <= s.y[b + 1]
    BY <2>1 DEF Rises
  <2>4. s.x[b] < CrossingAt(s, b, upper) /\ CrossingAt(s, b, upper) <= s.x[b + 1]
    BY <2>1, RisingInstant
  <2>5. QED
    BY <1>7, <2>1, <2>2, <2>3, <2>4
<1> HIDE DEF start, end, from, to
<1>w. w.start \in Int /\ w.stop \in Int
    BY DEF WindowRecord
<1>d. \A k, l \in DOMAIN starts : /\ k \in Int /\ l \in Int /\ k <= Len(starts) /\ starts[k] \in Int /\ starts[l] \in Int
                                  /\ k <= l => starts[k] <= starts[l]
                                  /\ starts[k] < starts[l] => k < l
  <2>1. DOMAIN starts \subseteq Int /\ \A k \in DOMAIN starts : k <= Len(starts)
    BY <1>2
  <2>2. QED
    BY <1>2, <2>1, InOrder
<1>e. \A k, l \in DOMAIN ends : /\ k \in Int /\ l \in Int /\ ends[k] \in Int /\ ends[l] \in Int
                                /\ k <= l => ends[k] <= ends[l]
  <2>1. DOMAIN ends \subseteq Int
    BY <1>3
  <2>2. QED
    BY <1>3, <2>1, InOrder
<1>c. /\ a \in Nat /\ b \in Nat /\ s.y[a] \in Int /\ s.y[b + 1] \in Int
      /\ s.x[a] \in Int /\ s.x[a + 1] \in Int /\ s.x[b] \in Int /\ s.x[b + 1] \in Int
    BY <1>a, <1>b, OnAxis
(* The segments between the two lie in the window.                         *)
<1>8. ASSUME NEW i \in 1 .. Len(s.x) - 1, a <= i, i <= b
      PROVE  /\ i \in DOMAIN s.x /\ i + 1 \in DOMAIN s.x /\ s.x[i] >= w.start /\ s.x[i + 1] <= w.stop
             /\ Rises(s, i, lower) => i \in from
             /\ Rises(s, i, upper) => i \in to
  <2>1. i \in DOMAIN s.x /\ i + 1 \in DOMAIN s.x
    BY <1>1
  <2>2. s.x[a] <= s.x[i]
    BY <1>8, <1>a, <2>1, OnAxis
  <2>3. s.x[i + 1] <= s.x[b + 1]
    <3>1. i + 1 <= b + 1
        BY <1>c, <1>8
    <3>2. QED
        BY <1>b, <2>1, <3>1, OnAxis
  <2>4. s.x[i] >= w.start /\ s.x[i + 1] <= w.stop
    <3>1. s.x[i] \in Int /\ s.x[i + 1] \in Int
        BY <2>1, OnAxis
    <3>2. s.x[i] >= w.start
        <4>1. w.start <= s.x[a]
            BY <1>a, <1>w, <1>c
        <4>2. QED
            BY <1>c, <1>w, <2>2, <3>1, <4>1, Chained
    <3>3. s.x[i + 1] <= w.stop
        <4>1. s.x[b + 1] <= w.stop
            BY <1>b
        <4>2. QED
            BY <1>c, <1>w, <2>3, <3>1, <4>1, Chained
    <3>4. QED
        BY <3>2, <3>3
  <2>5. QED
    BY <2>1, <2>4 DEF from, to, Crossed, Crosses
(* The two do not meet.                                                    *)
<1>9. start < end
  <2>1. SUFFICES ASSUME start = end PROVE FALSE
    BY <1>4, <1>5
  <2>2. ~(a < b) /\ ~(b < a)
    <3>1. ASSUME a < b PROVE FALSE
        <4>1. a + 1 <= b
            BY <1>c, <3>1
        <4>2. s.x[a + 1] <= s.x[b]
            BY <1>a, <1>b, <4>1, OnAxis
        <4>3. start <= s.x[b]
            BY <1>5, <1>a, <1>c, <4>2, Chained
        <4>4. QED
            BY <1>5, <1>b, <1>c, <2>1, <4>3
    <3>2. ASSUME b < a PROVE FALSE
        <4>1. b + 1 <= a
            BY <1>c, <3>2
        <4>2. s.x[b + 1] <= s.x[a]
            BY <1>a, <1>b, <4>1, OnAxis
        <4>3. end <= s.x[a]
            BY <1>5, <1>b, <1>c, <4>2, Chained
        <4>4. QED
            BY <1>5, <1>a, <1>c, <2>1, <4>3
    <3>3. QED
        BY <3>1, <3>2
  <2>3. a = b
    BY <1>a, <1>b, <2>2
  <2>4. Rises(s, a, lower) /\ Rises(s, a, upper)
    BY <1>2, <1>3, <1>6, <1>7, <2>3
  <2>5. start < end
    BY <1>6, <1>7, <1>a, <2>3, <2>4, RisingInstant
  <2>6. QED
    BY <1>5, <2>1, <2>5
<1>10. ASSUME NEW i \in DOMAIN s.x, start < s.x[i], s.x[i] < end
       PROVE  lower <= s.y[i] /\ s.y[i] <= upper
  <2>1. a < i /\ i < b + 1
    <3>1. s.x[a] < s.x[i] /\ s.x[i] < s.x[b + 1]
        <4>1. s.x[i] \in Int
            BY OnAxis
        <4>2. s.x[a] < start
            BY <1>a
        <4>3. end <= s.x[b + 1]
            BY <1>b
        <4>4. s.x[a] < s.x[i]
            BY <1>5, <1>10, <1>c, <4>1, <4>2, Chained
        <4>5. s.x[i] < s.x[b + 1]
            BY <1>5, <1>10, <1>c, <4>1, <4>3, Chained
        <4>6. QED
            BY <4>4, <4>5
    <3>2. QED
        BY <1>1, <1>a, <1>b, <3>1
  <2>2. i \in Nat /\ a \in Nat /\ b \in Nat /\ i <= b /\ s.y[i] \in Int
    <3>1. i \in Nat /\ s.y[i] \in Int
        BY OnAxis
    <3>2. QED
        BY <1>c, <2>1, <3>1
  (* Below the lower level it would have to rise through it once more, and *)
  (* that would be the next start, before the end.                         *)
  <2>3. ASSUME s.y[i] < lower PROVE FALSE
    <3>1. PICK j \in 1 .. Len(s.x) - 1 : i <= j /\ j < b + 1 /\ Rises(s, j, lower)
        <4>1. i < b + 1 /\ lower <= s.y[b + 1]
            BY <1>1, <1>b, <2>1
        <4>2. QED
            BY <1>b, <2>3, <4>1, SomewhereRises
    <3>2. a < j /\ j <= b /\ j \in Nat
        BY <2>1, <2>2, <3>1
    <3>3. j \in from /\ j \in DOMAIN s.x /\ j + 1 \in DOMAIN s.x
        BY <1>8, <2>2, <3>1, <3>2
    <3>4. /\ CrossingAt(s, j, lower) \in Int /\ s.x[j] < CrossingAt(s, j, lower)
          /\ CrossingAt(s, j, lower) <= s.x[j + 1]
        BY <3>1, RisingInstant
    <3>5. CrossingAt(s, j, lower) <= end
        <4>1. CASE j = b
            <5>1. Rises(s, b, upper)
                BY <1>3, <1>7
            <5>2. CrossingAt(s, b, lower) < CrossingAt(s, b, upper)
                BY <3>1, <4>1, <5>1, RisingInstant
            <5>3. QED
                BY <1>5, <1>7, <3>4, <4>1, <5>2
        <4>2. CASE j # b
            <5>1. j + 1 <= b
                BY <2>2, <3>2, <4>2
            <5>2. s.x[j + 1] <= s.x[b]
                BY <1>b, <3>3, <5>1, OnAxis
            <5>3. QED
                <6>1. s.x[j + 1] \in Int
                    BY <3>3, OnAxis
                <6>2. QED
                    <7>1. CrossingAt(s, j, lower) <= s.x[b]
                        BY <1>c, <3>4, <5>2, <6>1, Chained
                    <7>2. s.x[b] <= end
                        BY <1>5, <1>b, <1>c
                    <7>3. QED
                        BY <1>5, <1>c, <3>4, <7>1, <7>2, Chained
        <4>3. QED
            BY <4>1, <4>2
    <3>6. PICK k \in DOMAIN starts : starts[k] = CrossingAt(s, j, lower)
        BY <1>2, <3>3
    <3>7. start < starts[k]
        <4>1. a + 1 <= j
            BY <2>2, <3>2
        <4>2. s.x[a + 1] <= s.x[j]
            BY <1>a, <3>3, <4>1, OnAxis
        <4>3. QED
            <5>1. s.x[j] \in Int
                BY <3>3, OnAxis
            <5>2. QED
                <6>1. start <= s.x[j]
                    BY <1>5, <1>a, <1>c, <4>2, <5>1, Chained
                <6>2. QED
                    BY <1>5, <3>4, <3>6, <5>1, <6>1
    <3>8. n < k /\ n < Len(starts) /\ n + 1 \in DOMAIN starts /\ (n + 1 = k \/ n + 1 < k)
        <4>1. starts[n] < starts[k]
            BY <3>7 DEF start
        <4>2. n < k
            BY <1>5, <1>d, <4>1
        <4>3. k \in Int /\ n \in Int /\ k <= Len(starts) /\ Len(starts) \in Int
            BY <1>2, <1>d
        <4>4. n < Len(starts) /\ (n + 1 = k \/ n + 1 < k)
            BY <4>2, <4>3
        <4>5. n + 1 \in DOMAIN starts
            BY <1>2, <4>3, <4>4
        <4>6. QED
            BY <4>2, <4>4, <4>5
    <3>9. starts[n + 1] <= starts[k]
        <4>1. n + 1 <= k
            BY <1>d, <3>8
        <4>2. QED
            BY <1>d, <3>8, <4>1
    <3>10. QED
        BY <1>2, <1>4, <1>5, <3>4, <3>5, <3>6, <3>8, <3>9
  (* Above the upper level it would have risen through it already, and     *)
  (* that would be an earlier end.                                         *)
  <2>4. ASSUME s.y[i] > upper PROVE FALSE
    <3>1. PICK j \in 1 .. Len(s.x) - 1 : a <= j /\ j < i /\ Rises(s, j, upper)
        <4>1. s.y[a] < upper /\ upper <= s.y[i]
            <5>1. s.y[a] < lower
                BY <1>a
            <5>2. s.y[a] < upper
                BY <1>c, <5>1
            <5>3. QED
                BY <2>2, <2>4, <5>2
        <4>2. QED
            BY <1>a, <2>1, <4>1, SomewhereRises
    <3>2. j <= b /\ j \in Nat
        BY <2>2, <3>1
    <3>3. j \in to /\ j \in DOMAIN s.x /\ j + 1 \in DOMAIN s.x
        BY <1>8, <2>2, <3>1, <3>2
    <3>4. /\ CrossingAt(s, j, upper) \in Int /\ s.x[j] < CrossingAt(s, j, upper)
          /\ CrossingAt(s, j, upper) <= s.x[j + 1]
        BY <3>1, RisingInstant
    <3>5. CrossingAt(s, j, upper) < end
        <4>1. j + 1 <= i
            BY <2>2, <3>1, <3>2
        <4>2. /\ s.x[j + 1] <= s.x[i] /\ s.x[j + 1] \in Int /\ s.x[i] \in Int
            BY <3>3, <4>1, OnAxis
        <4>3. CrossingAt(s, j, upper) <= s.x[i]
            BY <3>4, <4>2, Chained
        <4>4. QED
            BY <1>5, <1>10, <3>4, <4>2, <4>3
    <3>6. CrossingAt(s, j, upper) >= start
        <4>1. CASE j = a
            <5>1. Rises(s, a, lower)
                BY <1>2, <1>6
            <5>2. CrossingAt(s, a, lower) < CrossingAt(s, a, upper)
                BY <3>1, <4>1, <5>1, RisingInstant
            <5>3. QED
                BY <1>5, <1>6, <3>4, <4>1, <5>2
        <4>2. CASE j # a
            <5>1. a + 1 <= j
                BY <2>2, <3>1, <3>2, <4>2
            <5>2. s.x[a + 1] <= s.x[j]
                BY <1>a, <3>3, <5>1, OnAxis
            <5>3. QED
                <6>1. s.x[j] \in Int
                    BY <3>3, OnAxis
                <6>2. QED
                    <7>1. start <= s.x[j]
                        BY <1>5, <1>a, <1>c, <5>2, <6>1, Chained
                    <7>2. QED
                        BY <1>5, <3>4, <6>1, <7>1
        <4>3. QED
            BY <4>1, <4>2
    <3>7. PICK k \in DOMAIN ends : ends[k] = CrossingAt(s, j, upper)
        BY <1>3, <3>3
    <3>8. last <= k
        <4>1. n < Len(starts) => ends[k] < starts[n + 1]
            <5>1. ASSUME n < Len(starts) PROVE ends[k] < starts[n + 1]
                <6>1. n + 1 \in DOMAIN starts
                    BY <1>2, <5>1
                <6>2. starts[n + 1] \in Int /\ end < starts[n + 1]
                    BY <1>2, <1>4, <5>1, <6>1
                <6>3. QED
                    BY <1>5, <3>4, <3>5, <3>7, <6>2
            <5>2. QED
                BY <5>1
        <4>2. QED
            BY <1>4, <3>6, <3>7, <4>1
    <3>10. end <= ends[k]
        <4>1. last <= k
            BY <3>8
        <4>2. ends[last] <= ends[k]
            BY <1>4, <1>e, <4>1
        <4>3. QED
            BY <4>2 DEF end
    <3>11. QED
        BY <1>5, <3>4, <3>5, <3>7, <3>10
  <2>5. QED
    BY <2>2, <2>3, <2>4
<1>11. QED
    BY <1>5, <1>9, <1>10 DEF start, end, last

(* A fall is a rise of the series upside down.                             *)
Mirrored(s) == [x |-> s.x, y |-> [i \in DOMAIN s.y |-> -s.y[i]]]

LEMMA Mirror ==
    ASSUME NEW s \in Series, Normal(s), Scaled(s)
    PROVE  /\ Mirrored(s) \in Series /\ Normal(Mirrored(s)) /\ Scaled(Mirrored(s))
           /\ Mirrored(s).x = s.x
           /\ \A i \in DOMAIN s.x : Mirrored(s).y[i] = -s.y[i]
           /\ \A t \in Int : \A w : Crossings(s, t, "falling", w) = Crossings(Mirrored(s), -t, "rising", w)
<1> DEFINE u == Mirrored(s)
<1>1. /\ DOMAIN s.x = 1 .. Len(s.x) /\ DOMAIN s.y = 1 .. Len(s.x) /\ Len(s.x) \in Nat \ {0}
      /\ \A i \in DOMAIN s.x : s.x[i] \in Int /\ s.y[i] \in Int
      /\ s.x \in Seq(Int) /\ s.y \in Seq(Int) /\ Len(s.y) = Len(s.x)
    BY Growing DEF Series, Normal
<1>2. u.x = s.x /\ u.y = [i \in 1 .. Len(s.x) |-> -s.y[i]]
    BY <1>1 DEF Mirrored
<1>3. u.y \in Seq(Int) /\ Len(u.y) = Len(s.x)
    BY <1>1, <1>2
<1>4. u \in Series
  <2>1. u = [x |-> u.x, y |-> u.y]
    BY DEF Mirrored
  <2>2. QED
    BY <1>1, <1>2, <1>3, <2>1 DEF Series
<1>5. \A i \in DOMAIN s.x : u.y[i] = -s.y[i]
    BY <1>1, <1>2
<1> HIDE DEF u
<1>6. Normal(u)
    BY <1>2, <1>3 DEF Normal
<1>7. \A i \in 1 .. Len(s.x) - 1 : /\ i \in DOMAIN s.x /\ i + 1 \in DOMAIN s.x
                                   /\ s.y[i] \in Int /\ s.y[i + 1] \in Int
                                   /\ u.y[i] = -s.y[i] /\ u.y[i + 1] = -s.y[i + 1]
  <2>1. \A i \in 1 .. Len(s.x) - 1 : i \in DOMAIN s.x /\ i + 1 \in DOMAIN s.x
    BY <1>1
  <2>2. QED
    BY <1>1, <1>5, <2>1
<1>8. \A i \in 1 .. Len(s.x) - 1 : /\ u.y[i] = u.y[i + 1] <=> s.y[i] = s.y[i + 1]
                                   /\ Abs(u.y[i + 1] - u.y[i]) = Abs(s.y[i + 1] - s.y[i])
  <2>1. \A p, q \in Int : (-p = -q <=> p = q) /\ Abs(-q - -p) = Abs(q - p)
    BY DEF Abs
  <2>2. SUFFICES ASSUME NEW i \in 1 .. Len(s.x) - 1
                 PROVE  /\ u.y[i] = u.y[i + 1] <=> s.y[i] = s.y[i + 1]
                        /\ Abs(u.y[i + 1] - u.y[i]) = Abs(s.y[i + 1] - s.y[i])
    OBVIOUS
  <2>3. s.y[i] \in Int /\ s.y[i + 1] \in Int /\ u.y[i] = -s.y[i] /\ u.y[i + 1] = -s.y[i + 1]
    BY <1>7
  <2>4. QED
    BY <2>1, <2>3
<1>9. Scaled(u)
    BY <1>2, <1>8 DEF Scaled
<1>10. ASSUME NEW t \in Int, NEW w
       PROVE  Crossings(s, t, "falling", w) = Crossings(u, -t, "rising", w)
  <2>1. \A i \in 1 .. Len(s.x) - 1 : Falls(s, i, t) <=> Rises(u, i, -t)
    BY <1>7 DEF Falls, Rises
  <2>2. \A i \in 1 .. Len(s.x) - 1 : Crosses(s, i, t, "falling") <=> Crosses(u, i, -t, "rising")
    BY <2>1 DEF Crosses
  <2>3. Crossed(s, t, "falling", w) = Crossed(u, -t, "rising", w)
    BY <1>2, <2>2 DEF Crossed
  <2>4. \A i \in 1 .. Len(s.x) - 1 : Abs(-t - u.y[i]) = Abs(t - s.y[i])
    <3>1. \A p \in Int : Abs(-t - -p) = Abs(t - p)
        BY DEF Abs
    <3>2. QED
        BY <1>7, <3>1
  <2>5. \A i \in 1 .. Len(s.x) - 1 : CrossingAt(s, i, t) = CrossingAt(u, i, -t)
    BY <1>2, <1>8, <2>4 DEF CrossingAt
  <2> DEFINE crossed == Crossed(s, t, "falling", w)
  <2>6. crossed \in SUBSET (1 .. Len(s.x) - 1) /\ Len(s.x) - 1 \in Nat
    BY <1>1 DEF Crossed
  <2>7. Crossings(s, t, "falling", w) = [k \in 1 .. Cardinality(crossed) |-> CrossingAt(s, Nth(crossed, k), t)]
    BY DEF Crossings
  <2>8. Crossings(u, -t, "rising", w) = [k \in 1 .. Cardinality(crossed) |-> CrossingAt(u, Nth(crossed, k), -t)]
    BY <2>3 DEF Crossings
  <2> HIDE DEF crossed
  <2>9. \A k \in 1 .. Cardinality(crossed) : Nth(crossed, k) \in 1 .. Len(s.x) - 1
    BY <2>6, Ranked
  <2>10. \A k \in 1 .. Cardinality(crossed) :
            CrossingAt(s, Nth(crossed, k), t) = CrossingAt(u, Nth(crossed, k), -t)
    BY <2>5, <2>9
  <2>11. QED
    BY <2>7, <2>8, <2>10
<1>11. QED
    BY <1>2, <1>4, <1>5, <1>6, <1>9, <1>10 DEF u

LEMMA Bounds ==
    ASSUME NEW s \in Series, Normal(s), NEW r, "window" \in DOMAIN r => r.window \in WindowRecord
    PROVE  Window(s, r) \in WindowRecord
<1>1. CASE "window" \in DOMAIN r
    BY <1>1 DEF Window
<1>2. CASE "window" \notin DOMAIN r
  <2>1. s.x \in Seq(Int) /\ Len(s.x) \in Nat \ {0}
    BY Growing DEF Series
  <2>2. s.x[1] \in Int /\ Last(s.x) \in Int
    BY <2>1 DEF Last
  <2>3. QED
    BY <1>2, <2>2 DEF Window, WindowRecord
<1>3. QED
    BY <1>1, <1>2

EdgeRequest == [kind : {"rise_time", "fall_time"}, lower : Int, upper : Int, occurrence : Nat \ {0}]
               \cup [kind : {"rise_time", "fall_time"}, lower : Int, upper : Int, occurrence : Nat \ {0},
                     window : WindowRecord]

LEMMA EdgeMeasured ==
    ASSUME NEW s, NEW r, r.kind \in {"rise_time", "fall_time"}, Measure(s, r).status = "measured"
    PROVE  Normal(s) /\ Measure(s, r) = Transition(s, Window(s, r), r.kind, r.lower, r.upper, r.occurrence)
<1>1. Refused.status = "refused"
    BY DEF Refused
<1>2. Normal(s)
    BY <1>1 DEF Measure
<1>3. QED
    BY <1>1 DEF Measure

LEMMA TransitionMeasured ==
    ASSUME NEW s, NEW w, NEW kind, NEW lower, NEW upper, NEW n, NEW starts, NEW ends,
           Transition(s, w, kind, lower, upper, n).status = "measured",
           \/ kind = "rise_time" /\ starts = Crossings(s, lower, "rising", w) /\ ends = Crossings(s, upper, "rising", w)
           \/ kind = "fall_time" /\ starts = Crossings(s, upper, "falling", w) /\ ends = Crossings(s, lower, "falling", w)
    PROVE  /\ ~(lower >= upper) /\ ~(Len(starts) < n) /\ EndsOf(starts, ends, n) # {}
           /\ Transition(s, w, kind, lower, upper, n)
                = Measured(Ratio(ends[Least(EndsOf(starts, ends, n))] - starts[n], 1),
                           ends[Least(EndsOf(starts, ends, n))])
<1>1. Refused.status = "refused" /\ NotFound.status = "not_found"
    BY DEF Refused, NotFound
<1>2. Transition(s, w, kind, lower, upper, n) =
        IF lower >= upper THEN Refused
        ELSE IF Len(starts) < n THEN NotFound
        ELSE IF EndsOf(starts, ends, n) = {} THEN NotFound
        ELSE Measured(Ratio(ends[Least(EndsOf(starts, ends, n))] - starts[n], 1),
                      ends[Least(EndsOf(starts, ends, n))])
    BY DEF Transition
<1>3. QED
    BY <1>1, <1>2

(* What result.measure calls a rise or a fall time is the time of one      *)
(* edge: it is positive, and between the two instants every sample is      *)
(* between the two thresholds (_transition_measurement).                   *)
THEOREM EdgeIsOneEdge ==
    ASSUME NEW s \in Series, Scaled(s), NEW r \in EdgeRequest
    PROVE  OneEdge(s, r)
<1> DEFINE m == Measure(s, r)
           w == Window(s, r)
<1>1. SUFFICES ASSUME m.status = "measured"
               PROVE  /\ m.value.num > 0
                      /\ \A i \in Between(s, m.at - m.value.num, m.at) : r.lower <= s.y[i] /\ s.y[i] <= r.upper
    BY DEF OneEdge
<1>2. /\ r.kind \in {"rise_time", "fall_time"} /\ r.lower \in Int /\ r.upper \in Int /\ r.occurrence \in Nat \ {0}
    BY DEF EdgeRequest
<1>3. Normal(s) /\ m = Transition(s, w, r.kind, r.lower, r.upper, r.occurrence)
    BY <1>1, <1>2, EdgeMeasured
<1>4. w \in WindowRecord
  <2>1. "window" \in DOMAIN r => r.window \in WindowRecord
    BY DEF EdgeRequest
  <2>2. QED
    BY <1>3, <2>1, Bounds
<1> HIDE DEF w
<1>5. ASSUME NEW start \in Int, NEW end \in Int, start < end, m = Measured(Ratio(end - start, 1), end),
             \A i \in DOMAIN s.x : start < s.x[i] /\ s.x[i] < end => r.lower <= s.y[i] /\ s.y[i] <= r.upper
      PROVE  /\ m.value.num > 0
             /\ \A i \in Between(s, m.at - m.value.num, m.at) : r.lower <= s.y[i] /\ s.y[i] <= r.upper
  <2>1. m.value.num = end - start /\ m.at = end
    BY <1>5 DEF Measured, Ratio
  <2>2. m.value.num > 0 /\ m.at - m.value.num = start
    BY <2>1, <1>5
  <2> HIDE DEF m
  <2>3. QED
    BY <1>5, <2>1, <2>2 DEF Between
<1>6. CASE r.kind = "rise_time"
  <2> DEFINE starts == Crossings(s, r.lower, "rising", w)
             ends   == Crossings(s, r.upper, "rising", w)
             n      == r.occurrence
             end    == ends[Least(EndsOf(starts, ends, n))]
  <2>1. /\ ~(r.lower >= r.upper) /\ ~(Len(starts) < n) /\ EndsOf(starts, ends, n) # {}
        /\ m = Measured(Ratio(end - starts[n], 1), end)
    BY <1>1, <1>3, <1>6, TransitionMeasured
  <2>2. r.lower < r.upper /\ n <= Len(starts)
    <3>1. Len(starts) \in Nat
        BY <1>2, <1>3, <1>4, RisingCrossings
    <3> HIDE DEF starts
    <3>2. QED
        BY <1>2, <2>1, <3>1
  <2>3. /\ end \in Int /\ starts[n] \in Int /\ starts[n] < end
        /\ \A i \in DOMAIN s.x : starts[n] < s.x[i] /\ s.x[i] < end => r.lower <= s.y[i] /\ s.y[i] <= r.upper
    BY <1>2, <1>3, <1>4, <2>1, <2>2, OneRise
  <2> HIDE DEF starts, end, m
  <2>4. QED
    BY <1>5, <2>1, <2>3
<1>7. CASE r.kind = "fall_time"
  <2> DEFINE u      == Mirrored(s)
             starts == Crossings(s, r.upper, "falling", w)
             ends   == Crossings(s, r.lower, "falling", w)
             n      == r.occurrence
             end    == ends[Least(EndsOf(starts, ends, n))]
  <2>1. /\ ~(r.lower >= r.upper) /\ ~(Len(starts) < n) /\ EndsOf(starts, ends, n) # {}
        /\ m = Measured(Ratio(end - starts[n], 1), end)
    BY <1>1, <1>3, <1>7, TransitionMeasured
  <2>2. /\ u \in Series /\ Normal(u) /\ Scaled(u) /\ u.x = s.x
        /\ \A i \in DOMAIN s.x : u.y[i] = -s.y[i]
        /\ starts = Crossings(u, -r.upper, "rising", w) /\ ends = Crossings(u, -r.lower, "rising", w)
    BY <1>2, <1>3, Mirror
  <2> HIDE DEF u, starts, ends
  <2>3. -r.upper \in Int /\ -r.lower \in Int /\ -r.upper < -r.lower /\ n <= Len(starts)
    <3>1. Len(starts) \in Nat
        BY <1>2, <1>4, <2>2, RisingCrossings
    <3>2. QED
        BY <1>2, <2>1, <3>1
  <2>4. /\ end \in Int /\ starts[n] \in Int /\ starts[n] < end
        /\ \A i \in DOMAIN u.x : starts[n] < u.x[i] /\ u.x[i] < end => -r.upper <= u.y[i] /\ u.y[i] <= -r.lower
    <3>1. u \in Series /\ Normal(u) /\ Scaled(u)
        BY <2>2
    <3>2. starts = Crossings(u, -r.upper, "rising", w) /\ ends = Crossings(u, -r.lower, "rising", w)
        BY <2>2
    <3>3. EndsOf(starts, ends, n) # {}
        BY <2>1
    <3>4. QED
        BY <1>2, <1>4, <2>3, <3>1, <3>2, <3>3, OneRise
  <2> HIDE DEF end, m
  <2>5. \A i \in DOMAIN s.x : starts[n] < s.x[i] /\ s.x[i] < end => r.lower <= s.y[i] /\ s.y[i] <= r.upper
    <3>1. \A i \in DOMAIN s.x : s.y[i] \in Int
        BY <1>3, Growing
    <3> SUFFICES ASSUME NEW i \in DOMAIN s.x, starts[n] < s.x[i], s.x[i] < end
                 PROVE  r.lower <= s.y[i] /\ s.y[i] <= r.upper
        OBVIOUS
    <3>2. -r.upper <= -s.y[i] /\ -s.y[i] <= -r.lower
        BY <2>2, <2>4
    <3>3. QED
        BY <1>2, <3>1, <3>2
  <2>6. QED
    BY <1>5, <2>1, <2>4, <2>5
<1>8. QED
    BY <1>2, <1>6, <1>7

(* Two rising crossings have a sample below the threshold between them:    *)
(* the one that the second segment starts from.                            *)
LEMMA DipBetween ==
    ASSUME NEW s \in Series, Normal(s), Scaled(s), NEW t \in Int, NEW w \in WindowRecord,
           NEW found, found = Crossings(s, t, "rising", w), NEW n \in Nat \ {0}, n + 1 <= Len(found)
    PROVE  /\ found[n] <= found[n + 1]
           /\ \E i \in DOMAIN s.x : found[n] <= s.x[i] /\ s.x[i] < found[n + 1] /\ s.y[i] < t
<1> DEFINE rising == Crossed(s, t, "rising", w)
<1>1. /\ Len(found) \in Nat /\ DOMAIN found = 1 .. Len(found)
      /\ \A i \in rising : i \in 1 .. Len(s.x) - 1 /\ Rises(s, i, t)
      /\ \A k \in DOMAIN found : \E i \in rising : found[k] = CrossingAt(s, i, t)
      /\ \A k \in DOMAIN found : found[k] \in Int
      /\ \A k, l \in DOMAIN found : k < l => found[k] < found[l]
    BY RisingCrossings, ZenonT(30)
<1> HIDE DEF rising
<1>2. n \in DOMAIN found /\ n + 1 \in DOMAIN found /\ n < n + 1
    BY <1>1
<1>3. found[n] \in Int /\ found[n + 1] \in Int /\ found[n] < found[n + 1]
    BY <1>1, <1>2
<1>4. PICK i \in 1 .. Len(s.x) - 1 : Rises(s, i, t) /\ found[n] = CrossingAt(s, i, t)
    BY <1>1, <1>2
<1>5. PICK j \in 1 .. Len(s.x) - 1 : Rises(s, j, t) /\ found[n + 1] = CrossingAt(s, j, t)
    BY <1>1, <1>2
<1>6. /\ i \in DOMAIN s.x /\ i + 1 \in DOMAIN s.x /\ j \in DOMAIN s.x /\ j + 1 \in DOMAIN s.x
      /\ i \in Nat /\ j \in Nat
    BY Growing
<1>7. s.x[i] < found[n] /\ found[n] <= s.x[i + 1]
    BY <1>4, RisingInstant
<1>8. s.x[j] < found[n + 1] /\ found[n + 1] <= s.x[j + 1]
    BY <1>5, RisingInstant
<1>9. s.x[i] \in Int /\ s.x[i + 1] \in Int /\ s.x[j] \in Int /\ s.x[j + 1] \in Int
    BY <1>6, OnAxis
<1>10. i < j
  <2>1. s.x[i] < s.x[j + 1]
    <3>1. s.x[i] < found[n + 1]
        <4>1. s.x[i] < found[n]
            BY <1>7
        <4>2. QED
            BY <1>3, <1>9, <4>1, Chained
    <3>2. QED
        BY <1>3, <1>8, <1>9, <3>1, Chained
  <2>2. i < j + 1
    BY <1>6, <2>1, OnAxis
  <2>3. i # j
    BY <1>3, <1>4, <1>5
  <2>4. QED
    BY <1>6, <2>2, <2>3
<1>11. s.x[i + 1] <= s.x[j]
  <2>1. i + 1 <= j
    BY <1>6, <1>10
  <2>2. QED
    BY <1>6, <2>1, OnAxis
<1>12. found[n] <= s.x[j]
    BY <1>3, <1>7, <1>9, <1>11, Chained
<1>13. s.y[j] < t
    BY <1>5 DEF Rises
<1>14. found[n] <= found[n + 1]
    BY <1>3
<1>15. QED
    BY <1>6, <1>8, <1>12, <1>13, <1>14

CrossingRequest == [kind : {"crossing"}, threshold : Int, direction : {"rising", "falling"}, occurrence : Nat \ {0}]
                   \cup [kind : {"crossing"}, threshold : Int, direction : {"rising", "falling"}, occurrence : Nat \ {0},
                         window : WindowRecord]

LEMMA CrossingMeasured ==
    ASSUME NEW s, NEW r \in CrossingRequest, NEW n, NEW found,
           found = Crossings(s, r.threshold, r.direction, Window(s, r)),
           Normal(s), ~("window" \in DOMAIN r /\ r.window.start >= r.window.stop)
    PROVE  Measure(s, [r EXCEPT !.occurrence = n])
             = IF Len(found) < n THEN NotFound ELSE Measured(Ratio(found[n], 1), found[n])
<1> DEFINE q == [r EXCEPT !.occurrence = n]
<1>1. /\ q.kind = "crossing" /\ q.threshold = r.threshold /\ q.direction = r.direction /\ q.occurrence = n
      /\ DOMAIN q = DOMAIN r /\ ("window" \in DOMAIN r => q.window = r.window)
    BY DEF CrossingRequest
<1> HIDE DEF q
<1>2. Window(s, q) = Window(s, r) /\ ("window" \in DOMAIN r => Window(s, q) = r.window)
    BY <1>1 DEF Window
<1>3. Measure(s, q) = IF Len(found) < n THEN NotFound ELSE Measured(Ratio(found[n], 1), found[n])
    BY <1>1, <1>2 DEF Measure
<1>4. QED
    BY <1>3 DEF q

LEMMA CrossingRefused ==
    ASSUME NEW s, NEW r \in CrossingRequest, NEW n,
           ~Normal(s) \/ ("window" \in DOMAIN r /\ r.window.start >= r.window.stop)
    PROVE  Measure(s, [r EXCEPT !.occurrence = n]).status # "measured"
<1> DEFINE q == [r EXCEPT !.occurrence = n]
<1>1. DOMAIN q = DOMAIN r /\ ("window" \in DOMAIN r => q.window = r.window)
    BY DEF CrossingRequest
<1> HIDE DEF q
<1>2. "window" \in DOMAIN r => Window(s, q) = r.window
    BY <1>1 DEF Window
<1>3. Measure(s, q) = Refused
    BY <1>1, <1>2 DEF Measure
<1>4. QED
    BY <1>3 DEF q, Refused

(* The crossings that result.measure counts are different ones: between    *)
(* one and the next the waveform was back on the other side (_crossings).  *)
THEOREM CrossingsAreSeparate ==
    ASSUME NEW s \in Series, Scaled(s), NEW r \in CrossingRequest
    PROVE  SeparateCrossings(s, r)
<1> DEFINE nth(n) == Measure(s, [r EXCEPT !.occurrence = n])
           w      == Window(s, r)
           found  == Crossings(s, r.threshold, r.direction, w)
<1>1. SUFFICES ASSUME NEW n \in 1 .. Len(s.x), nth(n + 1).status = "measured"
               PROVE  /\ nth(n).at <= nth(n + 1).at
                      /\ \E i \in DOMAIN s.x : /\ nth(n).at <= s.x[i] /\ s.x[i] < nth(n + 1).at
                                               /\ IF r.direction = "rising" THEN s.y[i] < r.threshold
                                                                            ELSE s.y[i] > r.threshold
    BY DEF SeparateCrossings
<1>2. Normal(s) /\ ~("window" \in DOMAIN r /\ r.window.start >= r.window.stop)
    BY <1>1, CrossingRefused
<1>3. r.direction \in {"rising", "falling"} /\ r.threshold \in Int /\ w \in WindowRecord
  <2>1. "window" \in DOMAIN r => r.window \in WindowRecord
    BY DEF CrossingRequest
  <2>2. QED
    BY <1>2, <2>1, Bounds DEF CrossingRequest
<1>4. n \in Nat \ {0}
    BY <1>1
<1> HIDE DEF w
<1>5. \A k : nth(k) = IF Len(found) < k THEN NotFound ELSE Measured(Ratio(found[k], 1), found[k])
    BY <1>2, CrossingMeasured DEF w
<1> HIDE DEF nth
<1>6. ~(Len(found) < n + 1) /\ nth(n + 1).at = found[n + 1]
  <2> HIDE DEF found
  <2>1. NotFound.status = "not_found"
    BY DEF NotFound
  <2>2. QED
    BY <1>1, <1>5, <2>1 DEF Measured
<1>7. ASSUME Len(found) \in Nat
      PROVE  n + 1 <= Len(found) /\ nth(n).at = found[n]
  <2> HIDE DEF found
  <2>1. n + 1 <= Len(found) /\ ~(Len(found) < n)
    BY <1>4, <1>6, <1>7
  <2>2. QED
    BY <1>5, <2>1 DEF Measured
<1>8. CASE r.direction = "rising"
  <2>1. Len(found) \in Nat
    BY <1>2, <1>3, <1>8, RisingCrossings
  <2>2. /\ found[n] <= found[n + 1]
        /\ \E i \in DOMAIN s.x : found[n] <= s.x[i] /\ s.x[i] < found[n + 1] /\ s.y[i] < r.threshold
    BY <1>2, <1>3, <1>4, <1>7, <1>8, <2>1, DipBetween
  <2> HIDE DEF found
  <2>3. QED
    BY <1>6, <1>7, <1>8, <2>1, <2>2
<1>9. CASE r.direction = "falling"
  <2> DEFINE u == Mirrored(s)
  <2>1. /\ u \in Series /\ Normal(u) /\ Scaled(u) /\ u.x = s.x
        /\ \A i \in DOMAIN s.x : u.y[i] = -s.y[i]
        /\ found = Crossings(u, -r.threshold, "rising", w)
    BY <1>2, <1>3, <1>9, Mirror
  <2>2. -r.threshold \in Int
    BY <1>3
  <2> HIDE DEF u, found
  <2>3. Len(found) \in Nat
    BY <1>3, <2>1, <2>2, RisingCrossings
  <2>4. /\ found[n] <= found[n + 1]
        /\ \E i \in DOMAIN u.x : found[n] <= u.x[i] /\ u.x[i] < found[n + 1] /\ u.y[i] < -r.threshold
    BY <1>3, <1>4, <1>7, <2>1, <2>2, <2>3, DipBetween
  <2>5. PICK i \in DOMAIN s.x : found[n] <= s.x[i] /\ s.x[i] < found[n + 1] /\ u.y[i] < -r.threshold
    BY <2>1, <2>4
  <2>6. u.y[i] = -s.y[i] /\ s.y[i] \in Int
    BY <1>2, <2>1, OnAxis
  <2>7. s.y[i] > r.threshold
    BY <1>3, <2>5, <2>6
  <2>8. QED
    BY <1>6, <1>7, <1>9, <2>3, <2>4, <2>5, <2>7
<1>10. QED
    BY <1>3, <1>8, <1>9

(* A response: magnitudes over the logarithm of frequencies that grow.     *)
Response(t) ==
    /\ t.log \in Seq(Int) /\ t.db \in Seq(Int) /\ Len(t.db) = Len(t.log)
    /\ \A i \in 1 .. Len(t.log) - 1 : t.log[i] < t.log[i + 1]
FallKinds   == {"bandwidth_3db", "unity_gain_frequency", "phase_margin"}
LevelOf(t, kind) == IF kind = "bandwidth_3db" THEN t.db[1] - 3 ELSE 0

(* A falling segment ends where a stretch at or below the level begins.    *)
LEMMA FallsToStretch ==
    ASSUME NEW t, Response(t), NEW level \in Int
    PROVE  LET falling == {i \in 1 .. Len(t.db) - 1 : FallsThrough(t, i, level)} IN
           /\ \A i \in falling : i + 1 \in Stretches(t, level) \ {1}
           /\ \A j \in Stretches(t, level) \ {1} : j - 1 \in falling /\ (j - 1) + 1 = j
<1> DEFINE falling == {i \in 1 .. Len(t.db) - 1 : FallsThrough(t, i, level)}
<1>1. DOMAIN t.db = 1 .. Len(t.db) /\ Len(t.db) \in Nat /\ \A i \in DOMAIN t.db : t.db[i] \in Int
    BY DEF Response
<1>2. ASSUME NEW i \in falling PROVE i + 1 \in Stretches(t, level) \ {1}
  <2>1. i + 1 \in DOMAIN t.db /\ (i + 1) - 1 = i /\ i + 1 # 1
    BY <1>1
  <2>2. t.db[i] > level /\ t.db[i + 1] <= level
    BY DEF FallsThrough
  <2>3. QED
    BY <2>1, <2>2 DEF Stretches
<1>3. ASSUME NEW j \in Stretches(t, level) \ {1} PROVE j - 1 \in falling /\ (j - 1) + 1 = j
  <2>1. j \in DOMAIN t.db /\ t.db[j] <= level /\ t.db[j - 1] > level
    BY DEF Stretches
  <2>2. j - 1 \in 1 .. Len(t.db) - 1 /\ (j - 1) + 1 = j
    BY <1>1, <2>1
  <2>3. QED
    BY <2>1, <2>2 DEF FallsThrough
<1>4. QED
    BY <1>2, <1>3

(* A part of a step is not more than the step.                             *)
LEMMA PartOf ==
    ASSUME NEW a \in Nat, NEW d \in Nat \ {0}, a <= d, NEW n \in Nat
    PROVE  (a * n) \div d \in Int /\ 0 <= (a * n) \div d /\ (a * n) \div d <= n
<1> DEFINE m == a * n
           c == m \div d
<1>1. m \in Nat /\ m <= d * n /\ d * n \in Nat
    OBVIOUS
<1> HIDE DEF m
<1>2. c \in Int /\ d * c <= m /\ m < d * (c + 1)
    BY <1>1
<1> HIDE DEF c
<1>3. d * c <= d * n /\ 0 < d * (c + 1)
    BY <1>1, <1>2
<1>4. c <= n /\ 0 < c + 1
    BY <1>2, <1>3
<1>5. QED
    BY <1>2, <1>4 DEF c, m

LEMMA FallAt ==
    ASSUME NEW t, Response(t), NEW level \in Int, NEW i \in 1 .. Len(t.db) - 1, FallsThrough(t, i, level)
    PROVE  t.log[i] <= CrossingOf(t, i, level).log /\ CrossingOf(t, i, level).log <= t.log[i + 1]
<1> DEFINE a == t.db[i] - level
           d == t.db[i] - t.db[i + 1]
           n == t.log[i + 1] - t.log[i]
<1>1. i \in DOMAIN t.db /\ i + 1 \in DOMAIN t.db /\ i \in DOMAIN t.log /\ i + 1 \in DOMAIN t.log
  <2>1. DOMAIN t.db = 1 .. Len(t.db) /\ DOMAIN t.log = 1 .. Len(t.db) /\ Len(t.db) \in Nat
    BY DEF Response
  <2>2. QED
    BY <2>1
<1>2. t.db[i] \in Int /\ t.db[i + 1] \in Int /\ t.log[i] \in Int /\ t.log[i + 1] \in Int
    BY <1>1 DEF Response
<1>3. t.db[i] > level /\ t.db[i + 1] <= level
    BY DEF FallsThrough
<1>4. t.log[i] < t.log[i + 1]
    BY DEF Response
<1>5. a \in Nat /\ d \in Nat \ {0} /\ a <= d
  <2>1. \A k, l, j \in Int : k > l /\ j <= l => k - l \in Nat /\ k - j \in Nat \ {0} /\ k - l <= k - j
    OBVIOUS
  <2>2. QED
    BY <1>2, <1>3, <2>1
<1>6. n \in Nat
    BY <1>2, <1>4
<1>7. CrossingOf(t, i, level).log = t.log[i] + (a * n) \div d
    BY DEF CrossingOf
<1>8. t.log[i + 1] = t.log[i] + n
    BY <1>2
<1> DEFINE part == (a * n) \div d
<1> HIDE DEF a, d, n
<1>9. part \in Int /\ 0 <= part /\ part <= n
    BY <1>5, <1>6, PartOf
<1>10. CrossingOf(t, i, level).log = t.log[i] + part
    BY <1>7
<1> HIDE DEF part
<1>11. t.log[i] <= t.log[i] + part /\ t.log[i] + part <= t.log[i] + n
    BY <1>2, <1>6, <1>9
<1>12. QED
    BY <1>8, <1>10, <1>11

LEMMA FallMeasured ==
    ASSUME NEW t, NEW r, r.kind \in FallKinds, Transfer(t, r).status \in {"measured", "not_found"}
    PROVE  LET found == FallingCrossings(t, LevelOf(t, r.kind)) IN
           /\ Transfer(t, r).status = "measured" => Len(found) = 1
           /\ Transfer(t, r).status = "measured" /\ r.kind # "phase_margin" => Transfer(t, r).value.num = found[1].log
           /\ Transfer(t, r).status = "not_found" => found = <<>>
<1> DEFINE found == FallingCrossings(t, LevelOf(t, r.kind))
           m     == Transfer(t, r)
<1>1. Refused.status = "refused" /\ Unresolved.status = "unknown" /\ NotFound.status = "not_found"
    BY DEF Refused, Unresolved, NotFound
<1>2. \A v, at : Measured(Ratio(v, 1), at).status = "measured" /\ Measured(Ratio(v, 1), at).value.num = v
    BY DEF Measured, Ratio
<1>3. /\ r.kind = "bandwidth_3db" => m = OfCrossing(found, LAMBDA c : c.log)
      /\ r.kind = "unity_gain_frequency" => m = OfCrossing(found, LAMBDA c : c.log)
      /\ r.kind = "phase_margin" => m = OfCrossing(found, LAMBDA c : 180 + c.phase)
    BY <1>1 DEF Transfer, FallKinds, LevelOf, Bandwidth, Unity
<1> HIDE DEF found, m
<1>4. CrossingStatus(found) = IF found = <<>> THEN "not_found" ELSE IF Len(found) = 1 THEN "measured" ELSE "ambiguous"
    BY SMTT(30) DEF CrossingStatus
<1>5. r.kind # "phase_margin" =>
        m = IF found = <<>> THEN NotFound ELSE IF Len(found) = 1 THEN Measured(Ratio(found[1].log, 1), found[1].log) ELSE Unresolved
    BY <1>3, <1>4 DEF OfCrossing, FallKinds
<1>6. r.kind = "phase_margin" =>
        m = IF found = <<>> THEN NotFound ELSE IF Len(found) = 1 THEN Measured(Ratio(180 + found[1].phase, 1), found[1].log) ELSE Unresolved
    BY <1>3, <1>4 DEF OfCrossing
<1>7. m.status \in {"measured", "not_found"}
    BY DEF m
<1>8. /\ m.status = "measured" => Len(found) = 1
      /\ m.status = "measured" /\ r.kind # "phase_margin" => m.value.num = found[1].log
      /\ m.status = "not_found" => found = <<>>
    BY <1>1, <1>2, <1>5, <1>6, <1>7
<1>9. QED
    BY <1>8 DEF m, found

(* What result.transfer.measure calls a bandwidth, a unity-gain frequency  *)
(* or the frequency of a phase margin is where the response falls to its   *)
(* level for the only time, and none is found only if it never falls to it *)
(* (_falling_crossings, _crossing_record).                                 *)
THEOREM FallIsTheOnlyOne ==
    ASSUME NEW t, Response(t), NEW r, r.kind \in FallKinds
    PROVE  OneFall(t, r, LevelOf(t, r.kind))
<1> DEFINE m       == Transfer(t, r)
           level   == LevelOf(t, r.kind)
           falling == {i \in 1 .. Len(t.db) - 1 : FallsThrough(t, i, level)}
           found   == FallingCrossings(t, level)
           below   == Stretches(t, level) \ {1}
<1>0. CASE m.status \notin {"measured", "not_found"}
    BY <1>0 DEF OneFall
<1>1. CASE m.status \in {"measured", "not_found"}
  <2>0. CASE Len(t.log) < 2
    <3>1. m = Refused
        BY <2>0 DEF Transfer
    <3>2. QED
        BY <1>1, <3>1 DEF Refused
  <2>1. CASE ~(Len(t.log) < 2)
    <3>1. Len(t.db) \in Nat /\ Len(t.db) - 1 \in Nat /\ t.db[1] \in Int /\ level \in Int
        BY <2>1 DEF Response, LevelOf
    <3>2. /\ m.status = "measured" => Len(found) = 1
          /\ m.status = "measured" /\ r.kind # "phase_margin" => m.value.num = found[1].log
          /\ m.status = "not_found" => found = <<>>
        BY <1>1, FallMeasured
    <3>3. found = [k \in 1 .. Cardinality(falling) |-> CrossingOf(t, Nth(falling, k), level)]
        BY DEF FallingCrossings
    <3> HIDE DEF level, found
    <3>4. falling \in SUBSET (1 .. Len(t.db) - 1)
        OBVIOUS
    <3>5. /\ \A i \in falling : i + 1 \in below
          /\ \A j \in below : j - 1 \in falling /\ (j - 1) + 1 = j
        BY <3>1, FallsToStretch
    <3>a. \A i \in falling : /\ i \in 1 .. Len(t.db) - 1
                             /\ t.log[i] <= CrossingOf(t, i, level).log /\ CrossingOf(t, i, level).log <= t.log[i + 1]
        BY <3>1, FallAt
    <3> HIDE DEF falling, below
    <3>6. Cardinality(falling) \in Nat /\ \A k \in 1 .. Cardinality(falling) : Nth(falling, k) \in falling
        BY <3>1, <3>4, Ranked
    <3>7. Len(found) = Cardinality(falling)
        BY <3>3, <3>6
    <3>8. ASSUME m.status = "measured"
          PROVE  /\ Cardinality(below) = 1
                 /\ r.kind # "phase_margin" =>
                       \E i \in below : t.log[i - 1] <= m.value.num /\ m.value.num <= t.log[i]
        <4>1. Cardinality(falling) = 1 /\ IsFiniteSet(falling)
            <5>1. IsFiniteSet(1 .. Len(t.db) - 1)
                BY <3>1, FS_Interval
            <5>2. QED
                BY <3>2, <3>4, <3>7, <3>8, <5>1, FS_Subset
        <4>2. PICK i : falling = {i}
            BY <4>1, FS_Singleton
        <4>3. below = {i + 1} /\ (i + 1) - 1 = i
            BY <3>4, <3>5, <4>2
        <4>4. Cardinality(below) = 1
            BY <4>3, FS_Singleton
        <4>5. found[1] = CrossingOf(t, i, level)
            <5>1. 1 \in 1 .. Cardinality(falling)
                BY <4>1
            <5>2. Nth(falling, 1) = i
                BY <3>6, <4>2, <5>1
            <5>3. QED
                BY <3>3, <5>1, <5>2
        <4>6. t.log[i] <= CrossingOf(t, i, level).log /\ CrossingOf(t, i, level).log <= t.log[i + 1]
            BY <3>a, <4>2
        <4>7. QED
            BY <3>2, <3>8, <4>3, <4>4, <4>5, <4>6
    <3>9. ASSUME m.status = "not_found" PROVE Stretches(t, level) \subseteq {1}
        <4>1. Cardinality(falling) = 0 /\ IsFiniteSet(falling)
            <5>1. IsFiniteSet(1 .. Len(t.db) - 1)
                BY <3>1, FS_Interval
            <5>2. Len(<<>>) = 0
                OBVIOUS
            <5>3. QED
                BY <3>2, <3>4, <3>7, <3>9, <5>1, <5>2, FS_Subset
        <4>2. falling = {}
            BY <4>1, FS_EmptySet
        <4>3. QED
            BY <3>5, <4>2 DEF below
    <3>10. QED
        BY <1>1, <3>8, <3>9 DEF OneFall, level, below
  <2>2. QED
    BY <2>0, <2>1
<1>2. QED
    BY <1>0, <1>1

(* A phase and the one that follows it: within half a turn of each other.  *)
LEMMA NearestPhase ==
    ASSUME NEW a \in Int, NEW previous \in Int
    PROVE  LET n == Nearest(Principal(a), previous) IN
           /\ n \in Int /\ (n - a) % 360 = 0
           /\ n - previous < 180 /\ n - previous >= -180
<1> DEFINE k == (previous - Principal(a) + 179) \div 360
<1>1. Principal(a) \in Int /\ (Principal(a) = a \/ Principal(a) = a - 360)
    BY DEF Principal
<1> HIDE DEF Principal
<1>2. k \in Int /\ 360 * k <= previous - Principal(a) + 179 /\ previous - Principal(a) + 179 < 360 * k + 360
    BY <1>1
<1> HIDE DEF k
<1>3. Nearest(Principal(a), previous) = Principal(a) + 360 * k
    BY DEF Nearest, k
<1>4. \A j \in Int : (360 * j) % 360 = 0
    OBVIOUS
<1>5. Principal(a) + 360 * k - a = 360 * k \/ Principal(a) + 360 * k - a = 360 * (k - 1)
    BY <1>1, <1>2
<1>6. (Principal(a) + 360 * k - a) % 360 = 0 /\ k - 1 \in Int
    BY <1>2, <1>4, <1>5
<1>7. QED
    BY <1>1, <1>2, <1>3, <1>6

(* The phases that the recursion describes exist, so that they are what    *)
(* Unwrapped returns: a prefix of them can always be extended.             *)
LEMMA UnwrappedPhases ==
    ASSUME NEW q \in Seq(Int)
    PROVE  LET u == Unwrapped(q) IN
           /\ DOMAIN u = 1 .. Len(q) /\ Len(u) = Len(q)
           /\ \A i \in 1 .. Len(q) : u[i] \in Int
           /\ \A i \in 1 .. Len(q) : u[i] = IF i = 1 THEN Principal(q[1]) ELSE Nearest(Principal(q[i]), u[i - 1])
<1> DEFINE After(f, i) == IF i = 1 THEN Principal(q[1]) ELSE Nearest(Principal(q[i]), f[i - 1])
           Phases(f, n) == f \in [1 .. n -> Int] /\ \A i \in 1 .. n : f[i] = After(f, i)
           bad == {n \in 0 .. Len(q) : ~ \E f : Phases(f, n)}
           least == Least(bad)
<1>1. Len(q) \in Nat /\ \A i \in 1 .. Len(q) : q[i] \in Int
    OBVIOUS
<1>2. \A a, b \in Int : Principal(a) \in Int /\ Nearest(Principal(a), b) \in Int
  <2>1. \A a \in Int : Principal(a) \in Int
    BY DEF Principal
  <2>2. \A a, b \in Int : Nearest(Principal(a), b) \in Int
    BY NearestPhase
  <2>3. QED
    BY <2>1, <2>2
<1>3. bad = {}
  <2> SUFFICES ASSUME bad # {} PROVE FALSE
    OBVIOUS
  <2>1. bad \in SUBSET Nat
    BY <1>1
  <2>2. least \in bad /\ \A n \in bad : least <= n
    BY <2>1, LeastIndex
  <2> HIDE DEF least
  <2>3. least \in 0 .. Len(q) /\ least \in Nat /\ ~ \E f : Phases(f, least)
    <3> HIDE DEF Phases
    <3>1. QED
        BY <1>1, <2>2
  <2>4. least # 0
    <3>1. Phases([i \in 1 .. 0 |-> 0], 0)
        OBVIOUS
    <3>2. QED
        BY <2>3, <3>1
  <2>5. PICK f : Phases(f, least - 1)
    <3>1. least - 1 \in 0 .. Len(q) /\ ~(least <= least - 1)
        BY <1>1, <2>3, <2>4
    <3>2. QED
        BY <2>2, <3>1
  <2> DEFINE g == [i \in 1 .. least |-> IF i = least THEN After(f, least) ELSE f[i]]
  <2>6. f \in [1 .. least - 1 -> Int] /\ \A i \in 1 .. least - 1 : f[i] = After(f, i)
    BY <2>5
  <2>7. After(f, least) \in Int
    <3>1. CASE least = 1
        <4>1. 1 \in 1 .. Len(q)
            BY <1>1, <2>3, <3>1
        <4>2. q[1] \in Int
            BY <1>1, <4>1
        <4>3. QED
            BY <1>2, <3>1, <4>2
    <3>2. CASE least # 1
        <4>1. least - 1 \in 1 .. least - 1 /\ least \in 1 .. Len(q)
            BY <1>1, <2>3, <2>4, <3>2
        <4>2. f[least - 1] \in Int /\ q[least] \in Int
            BY <1>1, <2>6, <4>1
        <4>3. QED
            BY <1>2, <3>2, <4>2
    <3>3. QED
        BY <3>1, <3>2
  <2>8. \A i \in 1 .. least : i = least \/ i \in 1 .. least - 1
    BY <2>3
  <2>9. g \in [1 .. least -> Int]
    <3> HIDE DEF After
    <3>1. QED
        BY <2>6, <2>7, <2>8
  <2>10. \A i \in 1 .. least : g[i] = After(g, i)
    <3> SUFFICES ASSUME NEW i \in 1 .. least PROVE g[i] = After(g, i)
        OBVIOUS
    <3>1. g[i] = After(f, i)
        <4> HIDE DEF After
        <4>1. QED
            BY <2>6, <2>8
    <3>2. i # 1 => g[i - 1] = f[i - 1]
        <4>1. i # 1 => i - 1 \in 1 .. least /\ i - 1 # least
            BY <2>3
        <4> HIDE DEF After
        <4>2. QED
            BY <4>1
    <3> HIDE DEF g
    <3>3. QED
        BY <3>1, <3>2
  <2>11. Phases(g, least)
    BY <2>9, <2>10
  <2>12. QED
    BY <2>3, <2>11
<1>4. PICK f : Phases(f, Len(q))
  <2>1. Len(q) \in 0 .. Len(q)
    BY <1>1
  <2>2. QED
    BY <1>3, <2>1
<1> DEFINE Recurs(p) == p = [i \in 1 .. Len(q) |-> After(p, i)]
           u        == CHOOSE p : Recurs(p)
<1>5. Recurs(f)
    BY <1>4
<1>6. Recurs(u)
    BY <1>5
<1>7. Unwrapped(q) = u
    BY DEF Unwrapped
<1> HIDE DEF u
<1>8. DOMAIN u = 1 .. Len(q) /\ Len(u) = Len(q) /\ \A i \in 1 .. Len(q) : u[i] = After(u, i)
  <2>1. u = [i \in 1 .. Len(q) |-> After(u, i)]
    BY <1>6
  <2> HIDE DEF After, Recurs
  <2>2. DOMAIN u = 1 .. Len(q) /\ \A i \in 1 .. Len(q) : u[i] = After(u, i)
    BY <2>1
  <2>3. Len([i \in 1 .. Len(q) |-> After(u, i)]) = Len(q)
    BY <1>1
  <2>4. QED
    BY <2>1, <2>2, <2>3
(* Every phase is an integer: the one before it is.                        *)
<1>9. \A i \in 1 .. Len(q) : u[i] \in Int
  <2> DEFINE odd == {i \in 1 .. Len(q) : u[i] \notin Int}
             first == Least(odd)
  <2> SUFFICES ASSUME odd # {} PROVE FALSE
    OBVIOUS
  <2>1. first \in odd /\ \A i \in odd : first <= i
    <3>1. odd \in SUBSET Nat
        BY <1>1
    <3>2. QED
        BY <3>1, LeastIndex
  <2> HIDE DEF first
  <2>2. first \in 1 .. Len(q) /\ u[first] = After(u, first) /\ u[first] \notin Int
    BY <1>8, <2>1
  <2>3. CASE first = 1
    BY <1>1, <1>2, <2>2, <2>3
  <2>4. CASE first # 1
    <3>1. first - 1 \in 1 .. Len(q) /\ ~(first <= first - 1)
        BY <1>1, <2>2, <2>4
    <3>2. u[first - 1] \in Int
        BY <2>1, <3>1
    <3>3. QED
        BY <1>1, <1>2, <2>2, <2>4, <3>2
  <2>5. QED
    BY <2>3, <2>4
<1>10. QED
    BY <1>7, <1>8, <1>9

(* What a trace reports as its phase is followed without a jump: each      *)
(* value is an angle of that point, within half a turn of the one before   *)
(* it (_principal_phase_degrees, _unwrap_phase).                           *)
THEOREM PhaseIsFollowed ==
    ASSUME NEW t, t.angle \in Seq(Int)
    PROVE  Followed(t)
<1> DEFINE q == t.angle
           u == Unwrapped(q)
<1>1. /\ DOMAIN u = 1 .. Len(q) /\ Len(u) = Len(q)
      /\ \A i \in 1 .. Len(q) : u[i] \in Int
      /\ \A i \in 1 .. Len(q) : u[i] = IF i = 1 THEN Principal(q[1]) ELSE Nearest(Principal(q[i]), u[i - 1])
    BY UnwrappedPhases
<1>2. Len(q) \in Nat /\ \A i \in 1 .. Len(q) : q[i] \in Int
    OBVIOUS
<1> HIDE DEF u, q
<1>3. ASSUME NEW i \in 1 .. Len(q)
      PROVE  /\ (u[i] - q[i]) % 360 = 0
             /\ i # 1 => u[i] - u[i - 1] < 180 /\ u[i] - u[i - 1] >= -180
  <2>1. CASE i = 1
    <3>1. u[i] = q[i] \/ u[i] = q[i] - 360
        BY <1>1, <2>1 DEF Principal
    <3>2. u[i] - q[i] = 0 \/ u[i] - q[i] = -360
        BY <1>2, <3>1
    <3>3. (0 % 360 = 0) /\ (-360 % 360 = 0)
        OBVIOUS
    <3>4. QED
        BY <2>1, <3>2, <3>3
  <2>2. CASE i # 1
    <3>1. i - 1 \in 1 .. Len(q)
        BY <1>2, <2>2
    <3>2. u[i] = Nearest(Principal(q[i]), u[i - 1]) /\ q[i] \in Int /\ u[i - 1] \in Int
        BY <1>1, <1>2, <2>2, <3>1
    <3>3. \A a, previous \in Int :
             LET n == Nearest(Principal(a), previous)
             IN (n - a) % 360 = 0 /\ n - previous < 180 /\ n - previous >= -180
        BY NearestPhase, ZenonT(30)
    <3>4. QED
        BY <2>2, <3>2, <3>3
  <2>3. QED
    BY <2>1, <2>2
<1>4. \A i \in 1 .. Len(u) - 1 : u[i + 1] - u[i] < 180 /\ u[i + 1] - u[i] >= -180
  <2> SUFFICES ASSUME NEW i \in 1 .. Len(u) - 1 PROVE u[i + 1] - u[i] < 180 /\ u[i + 1] - u[i] >= -180
    OBVIOUS
  <2>1. i + 1 \in 1 .. Len(q) /\ i + 1 # 1 /\ (i + 1) - 1 = i
    BY <1>1, <1>2
  <2>2. QED
    BY <1>3, <2>1
<1>5. QED
    BY <1>1, <1>3, <1>4 DEF Followed, u, q

-----------------------------------------------------------------------------
(* The instants of the samples grow, and a rising zero is between its two. *)
LEMMA Instants ==
    ASSUME Step \in Nat \ {0}
    PROVE  /\ \A i \in Int : TimeOf(i) \in Int /\ TimeOf(i + 1) = TimeOf(i) + Step
           /\ \A i, j \in Int : i < j => TimeOf(i) + Step <= TimeOf(j)
           /\ TimeOf(1) = 0
<1>1. \A i \in Int : TimeOf(i) \in Int /\ TimeOf(i + 1) = TimeOf(i) + Step
    BY DEF TimeOf
<1>2. ASSUME NEW i \in Int, NEW j \in Int, i < j PROVE TimeOf(i) + Step <= TimeOf(j)
  <2> DEFINE n == j - i - 1
  <2>1. n \in Nat /\ j - 1 = (i - 1) + (n + 1)
    BY <1>2
  <2> HIDE DEF n
  <2>2. (j - 1) * Step = (i - 1) * Step + n * Step + Step /\ n * Step \in Nat
    BY <2>1
  <2>3. (i - 1) * Step \in Int
    OBVIOUS
  <2>4. QED
    BY <2>2, <2>3 DEF TimeOf
<1>3. QED
    BY <1>1, <1>2 DEF TimeOf

LEMMA ZeroBetween ==
    ASSUME Step \in Nat \ {0}, NEW w \in Seq(Int), NEW i \in 1 .. Len(w) - 1, RisesIn(w, i)
    PROVE  /\ ZeroIn(w, i) \in Int /\ ZeroIn(w, i) # NoTime
           /\ TimeOf(i) <= ZeroIn(w, i) /\ ZeroIn(w, i) <= TimeOf(i + 1)
<1> DEFINE a == -w[i]
           d == w[i + 1] - w[i]
           part == (a * Step) \div d
<1>1. w[i] \in Int /\ w[i + 1] \in Int /\ w[i] < 0 /\ 0 <= w[i + 1]
    BY DEF RisesIn
<1>2. a \in Nat /\ d \in Nat \ {0} /\ a <= d
    BY <1>1
<1>3. ZeroIn(w, i) = TimeOf(i) + part
    BY DEF ZeroIn
<1> HIDE DEF a, d
<1>4. part \in Int /\ 0 <= part /\ part <= Step
    BY <1>2, PartOf
<1>5. TimeOf(i) \in Int /\ 0 <= TimeOf(i) /\ TimeOf(i + 1) = TimeOf(i) + Step
  <2>1. i \in Int /\ 1 \in Int /\ (i = 1 \/ 1 < i)
    OBVIOUS
  <2>2. QED
    BY <2>1, Instants
<1> HIDE DEF part
<1>6. QED
    BY <1>3, <1>4, <1>5 DEF NoTime

(* The states of the scan exist: a prefix of them can always be extended.  *)
AtFirst(w, first, h) == [armed |-> w[first] <= -h, pending |-> NoTime, found |-> <<>>]
Scans(s, w, first, last, h) ==
    \A i \in first .. last : s[i] = IF i = first THEN AtFirst(w, first, h) ELSE Segment(w, h, s[i - 1], i - 1)
LEMMA Scan ==
    ASSUME NEW w \in Seq(Int), NEW h \in Nat \ {0}, NEW first \in Int, NEW last \in Int, first <= last
    PROVE  \E s : Scans(s, w, first, last, h) /\ HystereticCrossings(w, first, last, h) = s[last].found
<1> DEFINE start == AtFirst(w, first, h)
           After(s, i) == IF i = first THEN start ELSE Segment(w, h, s[i - 1], i - 1)
           States(s, n) == s = [i \in first .. first + n |-> After(s, i)]
           bad == {n \in Nat : ~ \E s : States(s, n)}
           least == Least(bad)
<1>1. bad = {}
  <2> SUFFICES ASSUME bad # {} PROVE FALSE
    OBVIOUS
  <2>1. bad \in SUBSET Nat
    OBVIOUS
  <2>2. least \in bad /\ \A n \in bad : least <= n
    BY <2>1, LeastIndex
  <2> HIDE DEF least
  <2>3. least \in Nat /\ ~ \E s : States(s, least)
    <3> HIDE DEF States
    <3>1. QED
        BY <2>2
  <2>4. least # 0
    <3> DEFINE s == [i \in first .. first |-> start]
    <3>1. \A i \in first .. first + 0 : i = first
        OBVIOUS
    <3>2. s = [i \in first .. first + 0 |-> After(s, i)]
        BY <3>1
    <3>3. QED
        BY <2>3, <3>2
  <2>5. PICK s : States(s, least - 1)
    <3> HIDE DEF States
    <3>1. least - 1 \in Nat /\ ~(least <= least - 1)
        BY <2>3, <2>4
    <3>2. QED
        BY <2>2, <3>1
  <2> DEFINE top == first + least
             g == [i \in first .. top |-> IF i = top THEN Segment(w, h, s[top - 1], top - 1) ELSE s[i]]
  <2>6. top \in Int /\ first < top /\ first + (least - 1) = top - 1
    BY <2>3, <2>4
  <2> HIDE DEF top
  <2>7. \A i \in first .. top - 1 : s[i] = After(s, i)
    <3> HIDE DEF After
    <3>1. s = [i \in first .. top - 1 |-> After(s, i)]
        BY <2>5, <2>6
    <3>2. QED
        BY <3>1
  <2>8. ASSUME NEW i \in first .. top PROVE g[i] = After(g, i)
    <3>1. CASE i = top
        <4>1. top - 1 \in first .. top /\ top - 1 # top /\ top # first
            BY <2>6
        <4>2. g[top - 1] = s[top - 1]
            BY <4>1
        <4>3. QED
            BY <3>1, <4>1, <4>2
    <3>2. CASE i # top
        <4>1. i \in first .. top - 1
            BY <2>6, <3>2
        <4>2. g[i] = After(s, i)
            <5> HIDE DEF After
            <5>1. QED
                BY <2>7, <3>2, <4>1
        <4>3. CASE i = first
            BY <4>2, <4>3
        <4>4. CASE i # first
            <5>1. i - 1 \in first .. top /\ i - 1 # top
                BY <2>6, <4>1, <4>4
            <5>2. g[i - 1] = s[i - 1]
                BY <5>1
            <5>3. QED
                BY <4>2, <4>4, <5>2
        <4>5. QED
            BY <4>3, <4>4
    <3>3. QED
        BY <3>1, <3>2
  <2>9. g = [i \in first .. top |-> After(g, i)]
    <3> HIDE DEF After
    <3>1. \A i \in first .. top : g[i] = After(g, i)
        BY <2>8
    <3>2. g = [i \in first .. top |-> g[i]]
        OBVIOUS
    <3> HIDE DEF g
    <3>3. QED
        BY <3>1, <3>2
  <2>10. States(g, least)
    BY <2>9 DEF top
  <2>11. QED
    <3> HIDE DEF g, States
    <3>1. QED
        BY <2>3, <2>10
<1>2. \E s : s = [i \in first .. last |-> After(s, i)]
  <2>1. last - first \in Nat /\ first + (last - first) = last
    OBVIOUS
  <2>2. \E s : States(s, last - first)
    <3> HIDE DEF States
    <3>1. QED
        BY <1>1, <2>1
  <2>3. QED
    BY <2>1, <2>2
<1> DEFINE scan == CHOOSE s : s = [i \in first .. last |-> After(s, i)]
<1>3. scan = [i \in first .. last |-> After(scan, i)]
    BY <1>2
<1>4. HystereticCrossings(w, first, last, h) = scan[last].found
    BY DEF HystereticCrossings, AtFirst
<1> HIDE DEF scan
<1>5. \A i \in first .. last : scan[i] = After(scan, i)
  <2> HIDE DEF After
  <2>1. QED
    BY <1>3
<1>6. QED
    BY <1>4, <1>5 DEF Scans

(* The last extreme sample up to i is the low one at m; k is the first     *)
(* rising zero since; and k is one that a high sample up to i confirms.    *)
Quiet(w, h, m, i)  == w[m] <= -h /\ \A j \in m + 1 .. i : -h < w[j] /\ w[j] < h
FirstRise(w, m, k) == RisesIn(w, k) /\ \A l \in m .. k - 1 : ~RisesIn(w, l)
Confirmed(w, first, h, k, i) ==
    \E m \in first .. k, n \in k + 1 .. i : Quiet(w, h, m, n - 1) /\ w[n] >= h /\ FirstRise(w, m, k)
ConfirmedTo(w, first, last, h, i) == {k \in first .. last - 1 : Confirmed(w, first, h, k, i)}

LEMMA QuietOn ==
    ASSUME NEW w \in Seq(Int), NEW h \in Nat \ {0}, NEW first \in 1 .. Len(w), NEW i \in first .. Len(w) - 1
    PROVE  /\ w[i + 1] <= -h => \A m \in first .. i + 1 : Quiet(w, h, m, i + 1) <=> m = i + 1
           /\ -h < w[i + 1] /\ w[i + 1] < h =>
                \A m \in first .. i + 1 : Quiet(w, h, m, i + 1) <=> m # i + 1 /\ Quiet(w, h, m, i)
           /\ w[i + 1] >= h => \A m \in first .. i + 1 : ~Quiet(w, h, m, i + 1)
<1>1. Len(w) \in Nat /\ i \in Int /\ first \in Int /\ (\A j \in 1 .. Len(w) : w[j] \in Int) /\ i + 1 \in 1 .. Len(w)
    OBVIOUS
<1>2. ASSUME w[i + 1] <= -h, NEW m \in first .. i + 1 PROVE Quiet(w, h, m, i + 1) <=> m = i + 1
  <2>1. CASE m = i + 1
    BY <1>1, <1>2, <2>1 DEF Quiet
  <2>2. CASE m # i + 1
    <3>1. i + 1 \in m + 1 .. i + 1 /\ ~(-h < w[i + 1])
        BY <1>1, <1>2, <2>2
    <3>2. QED
        BY <2>2, <3>1 DEF Quiet
  <2>3. QED
    BY <2>1, <2>2
<1>3. ASSUME -h < w[i + 1], w[i + 1] < h, NEW m \in first .. i + 1
      PROVE  Quiet(w, h, m, i + 1) <=> m # i + 1 /\ Quiet(w, h, m, i)
  <2>1. CASE m = i + 1
    <3>1. ~(w[i + 1] <= -h)
        BY <1>1, <1>3
    <3>2. QED
        BY <2>1, <3>1 DEF Quiet
  <2>2. CASE m # i + 1
    <3>1. \A j \in m + 1 .. i + 1 : j = i + 1 \/ j \in m + 1 .. i
        BY <1>1
    <3>2. \A j \in m + 1 .. i : j \in m + 1 .. i + 1
        BY <1>1
    <3>3. QED
        BY <1>3, <2>2, <3>1, <3>2 DEF Quiet
  <2>3. QED
    BY <2>1, <2>2
<1>4. ASSUME w[i + 1] >= h, NEW m \in first .. i + 1 PROVE ~Quiet(w, h, m, i + 1)
  <2>1. CASE m = i + 1
    <3>1. ~(w[i + 1] <= -h)
        BY <1>1, <1>4
    <3>2. QED
        BY <2>1, <3>1 DEF Quiet
  <2>2. CASE m # i + 1
    <3>1. i + 1 \in m + 1 .. i + 1 /\ ~(w[i + 1] < h)
        BY <1>1, <1>4, <2>2
    <3>2. QED
        BY <3>1 DEF Quiet
  <2>3. QED
    BY <2>1, <2>2
<1>5. QED
    BY <1>2, <1>3, <1>4

LEMMA ConfirmedOn ==
    ASSUME NEW w \in Seq(Int), NEW h \in Nat \ {0}, NEW first \in 1 .. Len(w), NEW last \in first .. Len(w),
           NEW i \in first .. last - 1, NEW k \in first .. last - 1
    PROVE  /\ w[i + 1] < h => (Confirmed(w, first, h, k, i + 1) <=> Confirmed(w, first, h, k, i))
           /\ w[i + 1] >= h =>
                (Confirmed(w, first, h, k, i + 1) <=>
                    \/ Confirmed(w, first, h, k, i)
                    \/ k <= i /\ \E m \in first .. k : Quiet(w, h, m, i) /\ FirstRise(w, m, k))
<1>1. i \in Int /\ k \in Int /\ i + 1 \in 1 .. Len(w) /\ w[i + 1] \in Int /\ (i + 1) - 1 = i
    OBVIOUS
<1>2. Confirmed(w, first, h, k, i) => Confirmed(w, first, h, k, i + 1)
  <2>1. \A n \in k + 1 .. i : n \in k + 1 .. i + 1
    BY <1>1
  <2>2. QED
    BY <2>1 DEF Confirmed
<1>3. ASSUME Confirmed(w, first, h, k, i + 1), ~Confirmed(w, first, h, k, i)
      PROVE  w[i + 1] >= h /\ k <= i /\ \E m \in first .. k : Quiet(w, h, m, i) /\ FirstRise(w, m, k)
  <2>1. PICK m \in first .. k, n \in k + 1 .. i + 1 : Quiet(w, h, m, n - 1) /\ w[n] >= h /\ FirstRise(w, m, k)
    BY <1>3 DEF Confirmed
  <2>2. ~(n \in k + 1 .. i)
    BY <1>3, <2>1 DEF Confirmed
  <2>3. n = i + 1 /\ k <= i
    BY <1>1, <2>2
  <2>4. QED
    BY <1>1, <2>1, <2>3
<1>4. ASSUME w[i + 1] >= h, k <= i, NEW m \in first .. k, Quiet(w, h, m, i), FirstRise(w, m, k)
      PROVE  Confirmed(w, first, h, k, i + 1)
  <2>1. i + 1 \in k + 1 .. i + 1
    BY <1>1, <1>4
  <2>2. QED
    BY <1>1, <1>4, <2>1 DEF Confirmed
<1>5. w[i + 1] < h => ~(w[i + 1] >= h)
    BY <1>1
<1>6. QED
    BY <1>2, <1>3, <1>4, <1>5

(* What the state of the scan at sample i says: whether there is a last    *)
(* low sample, the first rising zero since, and the zeros confirmed.       *)
Waiting(w, first, h, s, i) ==
    /\ s.armed \in BOOLEAN /\ s.pending \in Int
    /\ s.armed <=> \E m \in first .. i : Quiet(w, h, m, i)
    /\ ~s.armed => s.pending = NoTime
    /\ s.pending = NoTime => \A m \in first .. i : Quiet(w, h, m, i) =>
                                w[i] < 0 /\ \A k \in m .. i - 1 : ~RisesIn(w, k)
    /\ s.pending # NoTime => \E m \in first .. i : \E k \in m .. i - 1 :
                                Quiet(w, h, m, i) /\ FirstRise(w, m, k) /\ s.pending = ZeroIn(w, k)
Spaced(found) == \A a, b \in 1 .. Len(found) : a < b => found[a] + Step <= found[b]
FoundTo(w, first, last, h, s, i) ==
    /\ s.found \in Seq(Int)
    /\ ToSet(s.found) = {ZeroIn(w, k) : k \in ConfirmedTo(w, first, last, h, i)}
    /\ Spaced(s.found)
    /\ \A a \in 1 .. Len(s.found) :
          /\ s.found[a] <= TimeOf(i)
          /\ \A m \in first .. i : Quiet(w, h, m, i) => s.found[a] + Step <= TimeOf(m)

LEMMA QuietOnce ==
    ASSUME NEW w \in Seq(Int), NEW h \in Nat \ {0}, NEW first \in 1 .. Len(w), NEW i \in first .. Len(w),
           NEW m \in first .. i, NEW n \in first .. i, Quiet(w, h, m, i), Quiet(w, h, n, i)
    PROVE  m = n
<1>1. ASSUME NEW a \in first .. i, NEW b \in first .. i, Quiet(w, h, a, i), Quiet(w, h, b, i), a < b PROVE FALSE
  <2>1. b \in a + 1 .. i /\ b \in 1 .. Len(w)
    BY <1>1
  <2>2. -h < w[b] /\ w[b] <= -h /\ w[b] \in Int
    BY <1>1, <2>1 DEF Quiet
  <2>3. QED
    BY <2>2
<1>2. m < n \/ n < m \/ m = n
    OBVIOUS
<1>3. QED
    BY <1>1, <1>2

LEMMA RiseOnce ==
    ASSUME NEW w, NEW m \in Int, NEW k \in Int, NEW l \in Int, m <= k, m <= l,
           FirstRise(w, m, k), FirstRise(w, m, l)
    PROVE  k = l
<1>1. k < l => k \in m .. l - 1
    OBVIOUS
<1>2. l < k => l \in m .. k - 1
    OBVIOUS
<1>3. QED
    BY <1>1, <1>2 DEF FirstRise

(* What waits after the next sample, before it is compared with h.         *)
NextPending(w, s, i) == IF s.armed /\ s.pending = NoTime /\ RisesIn(w, i) THEN ZeroIn(w, i) ELSE s.pending
LEMMA NextWaits ==
    ASSUME Step \in Nat \ {0}, NEW w \in Seq(Int), NEW h \in Nat \ {0}, NEW first \in 1 .. Len(w),
           NEW i \in first .. Len(w) - 1, NEW s, Waiting(w, first, h, s, i)
    PROVE  /\ NextPending(w, s, i) \in Int
           /\ ~s.armed => NextPending(w, s, i) = NoTime
           /\ NextPending(w, s, i) = NoTime => \A m \in first .. i : Quiet(w, h, m, i) =>
                                w[i + 1] < 0 /\ \A k \in m .. i : ~RisesIn(w, k)
           /\ NextPending(w, s, i) # NoTime => \E m \in first .. i : \E k \in m .. i :
                                Quiet(w, h, m, i) /\ FirstRise(w, m, k) /\ NextPending(w, s, i) = ZeroIn(w, k)
           /\ w[i] <= -h => s.armed /\ s.pending = NoTime
           /\ w[i] >= h => ~s.armed
<1>1. i \in 1 .. Len(w) - 1 /\ i \in Int /\ i - 1 \in Int /\ i \in first .. i /\ w[i] \in Int /\ w[i + 1] \in Int
    OBVIOUS
<1>2. RisesIn(w, i) => ZeroIn(w, i) \in Int /\ ZeroIn(w, i) # NoTime
    BY <1>1, ZeroBetween
<1>3. s.armed \in BOOLEAN /\ s.pending \in Int /\ (~s.armed => s.pending = NoTime)
    BY DEF Waiting
<1>4. NextPending(w, s, i) \in Int /\ (~s.armed => NextPending(w, s, i) = NoTime)
    BY <1>2, <1>3 DEF NextPending
<1>5. ASSUME NextPending(w, s, i) = NoTime, NEW m \in first .. i, Quiet(w, h, m, i)
      PROVE  w[i + 1] < 0 /\ \A k \in m .. i : ~RisesIn(w, k)
  <2>1. s.armed
    BY <1>5 DEF Waiting
  <2>2. s.pending = NoTime /\ ~RisesIn(w, i)
    BY <1>2, <1>5, <2>1 DEF NextPending
  <2>3. w[i] < 0 /\ \A k \in m .. i - 1 : ~RisesIn(w, k)
    BY <1>5, <2>2 DEF Waiting
  <2>4. w[i + 1] < 0
    BY <1>1, <2>2, <2>3 DEF RisesIn
  <2>5. \A k \in m .. i : k = i \/ k \in m .. i - 1
    OBVIOUS
  <2>6. QED
    BY <2>2, <2>3, <2>4, <2>5
<1>6. ASSUME NextPending(w, s, i) # NoTime
      PROVE  \E m \in first .. i : \E k \in m .. i :
                Quiet(w, h, m, i) /\ FirstRise(w, m, k) /\ NextPending(w, s, i) = ZeroIn(w, k)
  <2>1. CASE s.pending # NoTime
    <3>1. PICK m \in first .. i : \E k \in m .. i - 1 :
                Quiet(w, h, m, i) /\ FirstRise(w, m, k) /\ s.pending = ZeroIn(w, k)
        BY <2>1 DEF Waiting
    <3>2. PICK k \in m .. i - 1 : Quiet(w, h, m, i) /\ FirstRise(w, m, k) /\ s.pending = ZeroIn(w, k)
        BY <3>1
    <3>3. NextPending(w, s, i) = s.pending /\ k \in m .. i
        BY <2>1 DEF NextPending
    <3>4. QED
        BY <3>2, <3>3
  <2>2. CASE s.pending = NoTime
    <3>1. s.armed /\ RisesIn(w, i) /\ NextPending(w, s, i) = ZeroIn(w, i)
        BY <1>6, <2>2 DEF NextPending
    <3>2. PICK m \in first .. i : Quiet(w, h, m, i)
        BY <3>1 DEF Waiting
    <3>3. \A k \in m .. i - 1 : ~RisesIn(w, k)
        BY <2>2, <3>2 DEF Waiting
    <3>4. FirstRise(w, m, i) /\ i \in m .. i
        BY <3>1, <3>3 DEF FirstRise
    <3>5. QED
        BY <3>1, <3>2, <3>4
  <2>3. QED
    BY <2>1, <2>2
<1>7. ASSUME w[i] <= -h PROVE s.armed /\ s.pending = NoTime
  <2>1. Quiet(w, h, i, i)
    BY <1>1, <1>7 DEF Quiet
  <2>2. s.armed
    BY <1>1, <2>1 DEF Waiting
  <2>3. ASSUME s.pending # NoTime PROVE FALSE
    <3>1. PICK m \in first .. i : \E k \in m .. i - 1 : Quiet(w, h, m, i)
        BY <2>3 DEF Waiting
    <3>2. m # i /\ Quiet(w, h, m, i)
        BY <3>1
    <3>3. m = i
        BY <1>1, <2>1, <3>2, QuietOnce
    <3>4. QED
        BY <3>2, <3>3
  <2>4. QED
    BY <2>2, <2>3
<1>8. ASSUME w[i] >= h, s.armed PROVE FALSE
  <2>1. PICK m \in first .. i : Quiet(w, h, m, i)
    BY <1>8 DEF Waiting
  <2>2. CASE m = i
    BY <1>1, <1>8, <2>1, <2>2 DEF Quiet
  <2>3. CASE m # i
    <3>1. i \in m + 1 .. i
        BY <2>3
    <3>2. QED
        BY <1>1, <1>8, <2>1, <3>1 DEF Quiet
  <2>4. QED
    BY <2>2, <2>3
<1>9. QED
    BY <1>4, <1>5, <1>6, <1>7, <1>8

(* So a step of the scan is one of three.                                  *)
LEMMA SegmentIs ==
    ASSUME Step \in Nat \ {0}, NEW w \in Seq(Int), NEW h \in Nat \ {0}, NEW first \in 1 .. Len(w),
           NEW i \in first .. Len(w) - 1, NEW s, Waiting(w, first, h, s, i)
    PROVE  /\ w[i + 1] <= -h => Segment(w, h, s, i) = [armed |-> TRUE, pending |-> NoTime, found |-> s.found]
           /\ -h < w[i + 1] /\ w[i + 1] < h =>
                Segment(w, h, s, i) = [armed |-> s.armed, pending |-> NextPending(w, s, i), found |-> s.found]
           /\ w[i + 1] >= h =>
                Segment(w, h, s, i) = IF s.armed
                    THEN [armed |-> FALSE, pending |-> NoTime, found |-> Append(s.found, NextPending(w, s, i))]
                    ELSE [armed |-> FALSE, pending |-> NoTime, found |-> s.found]
<1>1. i \in Int /\ i \in first .. i /\ w[i] \in Int /\ w[i + 1] \in Int
    OBVIOUS
<1>2. s.armed \in BOOLEAN /\ s.pending \in Int
    BY DEF Waiting
<1>3. /\ w[i] <= -h => s.armed /\ s.pending = NoTime
      /\ w[i] >= h => ~s.armed
      /\ ~s.armed => NextPending(w, s, i) = NoTime
    BY NextWaits
<1>4. ASSUME w[i + 1] <= -h
      PROVE  Segment(w, h, s, i) = [armed |-> TRUE, pending |-> NoTime, found |-> s.found]
  <2>1. ~RisesIn(w, i)
    BY <1>1, <1>4 DEF RisesIn
  <2>2. QED
    BY <1>4, <2>1 DEF Segment, Returned
<1>5. ASSUME ~(w[i + 1] <= -h)
      PROVE  Segment(w, h, s, i) =
                IF NextPending(w, s, i) # NoTime /\ (w[i] >= h \/ w[i + 1] >= h)
                THEN [armed |-> FALSE, pending |-> NoTime, found |-> Append(s.found, NextPending(w, s, i))]
                ELSE [armed |-> s.armed, pending |-> NextPending(w, s, i), found |-> s.found]
  <2>1. CASE w[i] <= -h
    <3>1. s.armed = TRUE /\ s.pending = NoTime
        BY <1>2, <1>3, <2>1
    <3>2. QED
        BY <1>5, <2>1, <3>1 DEF Segment, Returned, NextPending
  <2>2. CASE ~(w[i] <= -h)
    <3>1. (s.armed \/ FALSE) = s.armed
        BY <1>2
    <3>2. QED
        BY <1>5, <2>2, <3>1 DEF Segment, Returned, NextPending
  <2>3. QED
    BY <2>1, <2>2
<1>6. ASSUME -h < w[i + 1], w[i + 1] < h
      PROVE  Segment(w, h, s, i) = [armed |-> s.armed, pending |-> NextPending(w, s, i), found |-> s.found]
  <2>1. ~(w[i + 1] <= -h) /\ ~(w[i + 1] >= h)
    BY <1>1, <1>6
  <2>2. ~(NextPending(w, s, i) # NoTime /\ (w[i] >= h \/ w[i + 1] >= h))
    BY <1>3, <2>1
  <2>3. QED
    BY <1>5, <2>1, <2>2
<1>7. ASSUME w[i + 1] >= h
      PROVE  Segment(w, h, s, i) = IF s.armed
                    THEN [armed |-> FALSE, pending |-> NoTime, found |-> Append(s.found, NextPending(w, s, i))]
                    ELSE [armed |-> FALSE, pending |-> NoTime, found |-> s.found]
  <2>1. ~(w[i + 1] <= -h) /\ ~(w[i + 1] < 0)
    BY <1>1, <1>7
  <2>2. CASE s.armed
    <3>1. NextPending(w, s, i) # NoTime
        BY <2>1, <2>2, NextWaits DEF Waiting
    <3>2. QED
        BY <1>5, <1>7, <2>1, <2>2, <3>1
  <2>3. CASE ~s.armed
    <3>1. s.armed = FALSE /\ NextPending(w, s, i) = NoTime
        BY <1>2, <1>3, <2>3
    <3>2. QED
        BY <1>5, <2>1, <3>1
  <2>4. QED
    BY <2>2, <2>3
<1>8. QED
    BY <1>4, <1>6, <1>7

LEMMA WaitingKept ==
    ASSUME Step \in Nat \ {0}, NEW w \in Seq(Int), NEW h \in Nat \ {0}, NEW first \in 1 .. Len(w),
           NEW i \in first .. Len(w) - 1, NEW s, Waiting(w, first, h, s, i)
    PROVE  Waiting(w, first, h, Segment(w, h, s, i), i + 1)
<1> DEFINE t == Segment(w, h, s, i)
<1>1. i \in Int /\ i + 1 \in first .. i + 1 /\ (i + 1) - 1 = i /\ w[i + 1] \in Int /\ NoTime \in Int
    BY DEF NoTime
<1>2. s.armed \in BOOLEAN /\ (s.armed <=> \E m \in first .. i : Quiet(w, h, m, i))
    BY DEF Waiting
<1>3. CASE w[i + 1] <= -h
  <2>1. t.armed = TRUE /\ t.pending = NoTime
    BY <1>3, SegmentIs
  <2>2. \A m \in first .. i + 1 : Quiet(w, h, m, i + 1) <=> m = i + 1
    BY <1>3, QuietOn
  <2>3. w[i + 1] < 0 /\ \A k \in i + 1 .. i : FALSE
    BY <1>1, <1>3
  <2> HIDE DEF t
  <2>4. Waiting(w, first, h, t, i + 1)
    BY <1>1, <2>1, <2>2, <2>3 DEF Waiting
  <2>5. QED
    BY <2>4 DEF t
<1>4. CASE -h < w[i + 1] /\ w[i + 1] < h
  <2>1. t.armed = s.armed /\ t.pending = NextPending(w, s, i)
    <3>1. t = [armed |-> s.armed, pending |-> NextPending(w, s, i), found |-> s.found]
        BY <1>4, SegmentIs
    <3> HIDE DEF t
    <3>2. QED
        BY <3>1
  <2>2. \A m \in first .. i + 1 : Quiet(w, h, m, i + 1) <=> m # i + 1 /\ Quiet(w, h, m, i)
    BY <1>4, QuietOn
  <2>3. \A m \in first .. i + 1 : m # i + 1 => m \in first .. i
    BY <1>1
  <2>4. \A m \in first .. i : m \in first .. i + 1 /\ m # i + 1
    BY <1>1
  <2> HIDE DEF t
  <2>5. /\ NextPending(w, s, i) \in Int
        /\ ~s.armed => NextPending(w, s, i) = NoTime
        /\ NextPending(w, s, i) = NoTime => \A m \in first .. i : Quiet(w, h, m, i) =>
                                w[i + 1] < 0 /\ \A k \in m .. i : ~RisesIn(w, k)
        /\ NextPending(w, s, i) # NoTime => \E m \in first .. i : \E k \in m .. i :
                                Quiet(w, h, m, i) /\ FirstRise(w, m, k) /\ NextPending(w, s, i) = ZeroIn(w, k)
    BY NextWaits
  <2>6. t.armed \in BOOLEAN /\ t.pending \in Int /\ (~t.armed => t.pending = NoTime)
    BY <1>2, <2>1, <2>5
  <2>7. t.armed <=> \E m \in first .. i + 1 : Quiet(w, h, m, i + 1)
    BY <1>2, <2>1, <2>2, <2>3, <2>4
  <2>8. ASSUME t.pending = NoTime, NEW m \in first .. i + 1, Quiet(w, h, m, i + 1)
        PROVE  w[i + 1] < 0 /\ \A k \in m .. i : ~RisesIn(w, k)
    BY <2>1, <2>2, <2>3, <2>5, <2>8
  <2>9. ASSUME t.pending # NoTime
        PROVE  \E m \in first .. i + 1 : \E k \in m .. i :
                   Quiet(w, h, m, i + 1) /\ FirstRise(w, m, k) /\ t.pending = ZeroIn(w, k)
    BY <2>1, <2>2, <2>4, <2>5, <2>9
  <2>10. Waiting(w, first, h, t, i + 1)
    BY <1>1, <2>6, <2>7, <2>8, <2>9 DEF Waiting
  <2>11. QED
    BY <2>10 DEF t
<1>5. CASE w[i + 1] >= h
  <2>1. t.armed = FALSE /\ t.pending = NoTime
    <3>1. t = IF s.armed
              THEN [armed |-> FALSE, pending |-> NoTime, found |-> Append(s.found, NextPending(w, s, i))]
              ELSE [armed |-> FALSE, pending |-> NoTime, found |-> s.found]
        BY <1>5, SegmentIs
    <3> HIDE DEF t
    <3>2. QED
        BY <1>2, <3>1
  <2>2. \A m \in first .. i + 1 : ~Quiet(w, h, m, i + 1)
    BY <1>5, QuietOn
  <2> HIDE DEF t
  <2>3. Waiting(w, first, h, t, i + 1)
    BY <1>1, <2>1, <2>2 DEF Waiting
  <2>4. QED
    BY <2>3 DEF t
<1>6. QED
    BY <1>1, <1>3, <1>4, <1>5

LEMMA FoundKept ==
    ASSUME Step \in Nat \ {0}, NEW w \in Seq(Int), NEW h \in Nat \ {0}, NEW first \in 1 .. Len(w), NEW last \in first .. Len(w),
           NEW i \in first .. last - 1, NEW s, Waiting(w, first, h, s, i), FoundTo(w, first, last, h, s, i)
    PROVE  FoundTo(w, first, last, h, Segment(w, h, s, i), i + 1)
<1> DEFINE t == Segment(w, h, s, i)
           p == NextPending(w, s, i)
           old == s.found
<1>1. i \in Int /\ i \in first .. Len(w) - 1 /\ i + 1 \in first .. i + 1 /\ (i + 1) - 1 = i /\ w[i + 1] \in Int
    OBVIOUS
<1>2. TimeOf(i) \in Int /\ TimeOf(i + 1) = TimeOf(i) + Step /\ Step \in Nat \ {0}
    BY <1>1, Instants
<1>3. /\ old \in Seq(Int) /\ Spaced(old)
      /\ ToSet(old) = {ZeroIn(w, k) : k \in ConfirmedTo(w, first, last, h, i)}
      /\ \A a \in 1 .. Len(old) : /\ old[a] <= TimeOf(i)
                                 /\ \A m \in first .. i : Quiet(w, h, m, i) => old[a] + Step <= TimeOf(m)
    BY DEF FoundTo
<1>4. \A a \in 1 .. Len(old) : old[a] \in Int
  <2>1. old \in Seq(Int)
    BY <1>3
  <2> HIDE DEF old
  <2>2. QED
    BY <2>1
<1>5. \A k \in first .. last - 1 :
            /\ w[i + 1] < h => (Confirmed(w, first, h, k, i + 1) <=> Confirmed(w, first, h, k, i))
            /\ w[i + 1] >= h =>
                (Confirmed(w, first, h, k, i + 1) <=>
                    \/ Confirmed(w, first, h, k, i)
                    \/ k <= i /\ \E m \in first .. k : Quiet(w, h, m, i) /\ FirstRise(w, m, k))
    BY ConfirmedOn
<1>6. ASSUME t.found = old, ConfirmedTo(w, first, last, h, i + 1) = ConfirmedTo(w, first, last, h, i),
             \A m \in first .. i + 1 : Quiet(w, h, m, i + 1) => m = i + 1 \/ (m \in first .. i /\ Quiet(w, h, m, i))
      PROVE  FoundTo(w, first, last, h, t, i + 1)
  <2> HIDE DEF t
  <2>1. ASSUME NEW a \in 1 .. Len(old)
        PROVE  /\ old[a] <= TimeOf(i + 1)
               /\ \A m \in first .. i + 1 : Quiet(w, h, m, i + 1) => old[a] + Step <= TimeOf(m)
    <3> HIDE DEF old
    <3>1. old[a] \in Int /\ old[a] <= TimeOf(i)
        BY <1>3, <1>4
    <3>2. old[a] <= TimeOf(i + 1) /\ old[a] + Step <= TimeOf(i + 1)
        BY <1>2, <3>1
    <3>3. QED
        BY <1>3, <1>6, <3>2
  <2>2. QED
    BY <1>3, <1>6, <2>1 DEF FoundTo
<1>7. CASE w[i + 1] <= -h
  <2>1. t.found = old
    <3>1. t = [armed |-> TRUE, pending |-> NoTime, found |-> old]
        BY <1>1, <1>7, SegmentIs
    <3> HIDE DEF t, old
    <3>2. QED
        BY <3>1
  <2>2. \A m \in first .. i + 1 : Quiet(w, h, m, i + 1) <=> m = i + 1
    BY <1>1, <1>7, QuietOn
  <2>3. w[i + 1] < h
    BY <1>1, <1>7
  <2>4. ConfirmedTo(w, first, last, h, i + 1) = ConfirmedTo(w, first, last, h, i)
    BY <1>5, <2>3 DEF ConfirmedTo
  <2> HIDE DEF t, old
  <2>5. QED
    BY <1>6, <2>1, <2>2, <2>4 DEF t
<1>8. CASE -h < w[i + 1] /\ w[i + 1] < h
  <2>1. t.found = old
    <3>1. t = [armed |-> s.armed, pending |-> p, found |-> old]
        BY <1>1, <1>8, SegmentIs
    <3> HIDE DEF t, old, p
    <3>2. QED
        BY <3>1
  <2>2. \A m \in first .. i + 1 : Quiet(w, h, m, i + 1) <=> m # i + 1 /\ Quiet(w, h, m, i)
    BY <1>1, <1>8, QuietOn
  <2>3. \A m \in first .. i + 1 : m # i + 1 => m \in first .. i
    BY <1>1
  <2>4. ConfirmedTo(w, first, last, h, i + 1) = ConfirmedTo(w, first, last, h, i)
    BY <1>5, <1>8 DEF ConfirmedTo
  <2> HIDE DEF t, old
  <2>5. QED
    BY <1>6, <2>1, <2>2, <2>3, <2>4 DEF t
<1>9. CASE w[i + 1] >= h
  <2>1. \A m \in first .. i + 1 : ~Quiet(w, h, m, i + 1)
    BY <1>1, <1>9, QuietOn
  <2>2. s.armed \in BOOLEAN /\ (s.armed <=> \E m \in first .. i : Quiet(w, h, m, i))
    BY DEF Waiting
  <2>3. CASE ~s.armed
    <3>1. t.found = old
        BY <1>1, <1>9, <2>3, SegmentIs
    <3>2. \A k \in first .. last - 1 : k <= i => \A m \in first .. k : m \in first .. i
        BY <1>1
    <3>3. ConfirmedTo(w, first, last, h, i + 1) = ConfirmedTo(w, first, last, h, i)
        BY <1>5, <1>9, <2>2, <2>3, <3>2 DEF ConfirmedTo
    <3> HIDE DEF t, old
    <3>4. QED
        BY <1>6, <2>1, <3>1, <3>3 DEF t
  <2>4. CASE s.armed
    <3>1. t.found = Append(old, p)
        BY <1>1, <1>9, <2>4, SegmentIs
    <3>2. p # NoTime /\ p \in Int
        <4>1. PICK m \in first .. i : Quiet(w, h, m, i)
            BY <2>2, <2>4
        <4>2. ~(w[i + 1] < 0)
            BY <1>1, <1>9
        <4>3. QED
            BY <1>1, <4>1, <4>2, NextWaits
    <3>3. PICK m \in first .. i : \E k \in m .. i : Quiet(w, h, m, i) /\ FirstRise(w, m, k) /\ p = ZeroIn(w, k)
        BY <1>1, <3>2, NextWaits
    <3>4. PICK k \in m .. i : Quiet(w, h, m, i) /\ FirstRise(w, m, k) /\ p = ZeroIn(w, k)
        BY <3>3
    <3> HIDE DEF t, p, old
    <3>5. k \in 1 .. Len(w) - 1 /\ k \in first .. last - 1 /\ k \in Int /\ m \in Int /\ m <= k /\ k <= i /\ m \in first .. k
        BY <1>1
    <3>6. TimeOf(k) <= p /\ p <= TimeOf(k + 1)
        BY <3>4, <3>5, ZeroBetween DEF FirstRise
    <3>7. TimeOf(m) <= TimeOf(k) /\ TimeOf(k + 1) <= TimeOf(i + 1)
          /\ TimeOf(m) \in Int /\ TimeOf(k) \in Int /\ TimeOf(k + 1) \in Int /\ TimeOf(i + 1) \in Int
        <4>1. m = k \/ m < k
            BY <3>5
        <4>2. k = i \/ k + 1 < i + 1
            BY <1>1, <3>5
        <4>3. k + 1 \in Int /\ i + 1 \in Int
            BY <1>1, <3>5
        <4>4. TimeOf(m) \in Int /\ TimeOf(k) \in Int /\ TimeOf(k + 1) \in Int /\ TimeOf(i + 1) \in Int
            BY <3>5, <4>3, Instants
        <4>5. m < k => TimeOf(m) + Step <= TimeOf(k)
            BY <3>5, Instants
        <4>6. k + 1 < i + 1 => TimeOf(k + 1) + Step <= TimeOf(i + 1)
            BY <4>3, Instants
        <4>7. Step \in Int /\ 0 <= Step
            BY <1>2
        <4>8. TimeOf(m) <= TimeOf(k)
            BY <4>1, <4>4, <4>5, <4>7
        <4>9. TimeOf(k + 1) <= TimeOf(i + 1)
            BY <4>2, <4>4, <4>6, <4>7
        <4>10. QED
            BY <4>4, <4>8, <4>9
    <3>8. p <= TimeOf(i + 1) /\ TimeOf(m) <= p
        BY <3>2, <3>6, <3>7
    <3>9. \A a \in 1 .. Len(old) : old[a] + Step <= p /\ old[a] <= TimeOf(i + 1)
        <4>1. TAKE a \in 1 .. Len(old)
        <4>2. old[a] \in Int /\ old[a] <= TimeOf(i) /\ old[a] + Step <= TimeOf(m)
            BY <1>3, <1>4, <3>4
        <4>3. Step \in Int /\ 0 <= Step
            BY <1>2
        <4>4. old[a] + Step <= p
            <5>1. p \in Int /\ TimeOf(m) \in Int
                BY <3>2, <3>7
            <5>2. \A x, y, z \in Int : x <= y /\ y <= z => x <= z
                OBVIOUS
            <5>3. QED
                BY <3>8, <4>2, <4>3, <5>1, <5>2
        <4>5. TimeOf(i) <= TimeOf(i + 1)
            BY <1>2, <4>3
        <4>6. TimeOf(i) \in Int /\ TimeOf(i + 1) \in Int /\ old[a] \in Int /\ old[a] <= TimeOf(i)
            BY <1>2, <3>7, <4>2
        <4>7. old[a] <= TimeOf(i + 1)
            BY <4>5, <4>6
        <4>8. QED
            BY <4>4, <4>7
    <3>10. /\ Append(old, p) \in Seq(Int) /\ Len(Append(old, p)) = Len(old) + 1 /\ Len(old) \in Nat
           /\ \A a \in 1 .. Len(old) : Append(old, p)[a] = old[a]
           /\ Append(old, p)[Len(old) + 1] = p
        BY <1>3, <3>2
    <3>11. \A a \in 1 .. Len(old) + 1 : a \in 1 .. Len(old) \/ a = Len(old) + 1
        <4>1. Len(old) \in Nat
            BY <3>10
        <4>2. QED
            BY <4>1
    <3>12. Spaced(Append(old, p))
        <4> SUFFICES ASSUME NEW a \in 1 .. Len(old) + 1, NEW b \in 1 .. Len(old) + 1, a < b
                     PROVE  Append(old, p)[a] + Step <= Append(old, p)[b]
            BY <3>10 DEF Spaced
        <4>1. a \in 1 .. Len(old)
            BY <3>10
        <4>2. CASE b \in 1 .. Len(old)
            BY <1>3, <3>10, <4>1, <4>2 DEF Spaced
        <4>3. CASE b = Len(old) + 1
            BY <3>9, <3>10, <4>1, <4>3
        <4>4. QED
            BY <3>11, <4>2, <4>3
    <3>13. \A a \in 1 .. Len(Append(old, p)) : Append(old, p)[a] <= TimeOf(i + 1)
        BY <3>8, <3>9, <3>10, <3>11
    <3>14. ToSet(Append(old, p)) = ToSet(old) \cup {p}
        <4>1. DOMAIN Append(old, p) = 1 .. Len(old) + 1 /\ DOMAIN old = 1 .. Len(old)
            BY <1>3, <3>10
        <4>2. \A a \in 1 .. Len(old) : a \in 1 .. Len(old) + 1
            BY <3>10
        <4>3. Len(old) + 1 \in 1 .. Len(old) + 1
            BY <3>10
        <4>4. QED
            BY <3>10, <3>11, <4>1, <4>2, <4>3 DEF ToSet
    <3>15. ConfirmedTo(w, first, last, h, i + 1) = ConfirmedTo(w, first, last, h, i) \cup {k}
        <4>1. Confirmed(w, first, h, k, i + 1)
            BY <1>5, <1>9, <3>4, <3>5
        <4>2. ASSUME NEW l \in first .. last - 1, l <= i, NEW n \in first .. l, Quiet(w, h, n, i), FirstRise(w, n, l)
              PROVE  l = k
            <5>1. n \in first .. i /\ i \in first .. Len(w)
                BY <1>1, <4>2
            <5>2. n = m
                BY <3>4, <4>2, <5>1, QuietOnce
            <5>3. QED
                BY <3>4, <3>5, <4>2, <5>2, RiseOnce
        <4>3. \A l \in first .. last - 1 : Confirmed(w, first, h, l, i + 1) <=> Confirmed(w, first, h, l, i) \/ l = k
            BY <1>5, <1>9, <4>1, <4>2
        <4>4. QED
            BY <3>5, <4>3 DEF ConfirmedTo
    <3>16. ToSet(Append(old, p)) = {ZeroIn(w, l) : l \in ConfirmedTo(w, first, last, h, i + 1)}
        BY <1>3, <3>4, <3>14, <3>15
    <3>17. FoundTo(w, first, last, h, t, i + 1)
        BY <2>1, <3>1, <3>10, <3>12, <3>13, <3>16 DEF FoundTo
    <3>18. QED
        BY <3>17 DEF t
  <2>5. QED
    BY <2>2, <2>3, <2>4
<1>10. QED
    BY <1>1, <1>7, <1>8, <1>9

(* It is so at the first sample, and so at every one.                      *)
LEMMA ScanHolds ==
    ASSUME Step \in Nat \ {0}, NEW w \in Seq(Int), NEW h \in Nat \ {0}, NEW first \in 1 .. Len(w), NEW last \in first .. Len(w)
    PROVE  \E s : /\ HystereticCrossings(w, first, last, h) = s.found
                  /\ Waiting(w, first, h, s, last) /\ FoundTo(w, first, last, h, s, last)
<1> DEFINE start == AtFirst(w, first, h)
<1>1. first \in Int /\ last \in Int /\ first <= last /\ w[first] \in Int /\ first \in first .. last
    OBVIOUS
<1>2. PICK s : Scans(s, w, first, last, h) /\ HystereticCrossings(w, first, last, h) = s[last].found
    BY <1>1, Scan
<1>3. Waiting(w, first, h, start, first)
  <2>1. \A m \in first .. first : m = first
    OBVIOUS
  <2>2. Quiet(w, h, first, first) <=> w[first] <= -h
    BY <1>1 DEF Quiet
  <2>3. w[first] <= -h => w[first] < 0
    BY <1>1
  <2>4. \A k \in first .. first - 1 : FALSE
    OBVIOUS
  <2>5. first \in first .. first
    OBVIOUS
  <2>6. start.armed = (w[first] <= -h) /\ start.pending = NoTime /\ start.pending \in Int
    BY DEF NoTime, AtFirst
  <2> HIDE DEF start
  <2>7. start.armed \in BOOLEAN
    BY <1>1, <2>6
  <2>8. QED
    BY <2>1, <2>2, <2>3, <2>4, <2>5, <2>6, <2>7 DEF Waiting
<1>4. FoundTo(w, first, last, h, start, first)
  <2>1. start.found = <<>>
    BY DEF AtFirst
  <2> HIDE DEF start
  <2>2. <<>> \in Seq(Int) /\ Len(<<>>) = 0 /\ ToSet(<<>>) = {}
    BY DEF ToSet
  <2>3. ConfirmedTo(w, first, last, h, first) = {}
    <3>1. \A k \in first .. last - 1 : \A n \in k + 1 .. first : FALSE
        OBVIOUS
    <3>2. QED
        BY <3>1 DEF ConfirmedTo, Confirmed
  <2>4. \A a \in 1 .. 0 : FALSE
    OBVIOUS
  <2>5. QED
    BY <2>1, <2>2, <2>3, <2>4 DEF FoundTo, Spaced
<1> HIDE DEF start
<1>7. \A i \in first .. last : s[i] = IF i = first THEN start ELSE Segment(w, h, s[i - 1], i - 1)
    BY <1>2 DEF Scans, start
<1> DEFINE holds(i) == Waiting(w, first, h, s[i], i) /\ FoundTo(w, first, last, h, s[i], i)
           bad == {i \in first .. last : ~holds(i)}
           least == Least(bad)
<1>5. bad = {}
  <2> SUFFICES ASSUME bad # {} PROVE FALSE
    OBVIOUS
  <2>1. bad \in SUBSET Nat
    OBVIOUS
  <2>2. least \in bad /\ \A n \in bad : least <= n
    BY <2>1, LeastIndex
  <2> HIDE DEF least
  <2>3. least \in first .. last /\ ~holds(least)
    <3> HIDE DEF holds
    <3>1. QED
        BY <2>2
  <2>4. least # first
    <3>1. s[first] = start
        BY <1>1, <1>7
    <3>2. holds(first)
        BY <1>3, <1>4, <3>1
    <3> HIDE DEF holds
    <3>3. QED
        BY <2>3, <3>2
  <2> DEFINE i == least - 1
  <2>5. i \in first .. last - 1 /\ i \in first .. last /\ i + 1 = least /\ ~(least <= i) /\ i \in first .. Len(w) - 1
    BY <1>1, <2>3, <2>4
  <2> HIDE DEF i
  <2>6. holds(i)
    <3> HIDE DEF holds
    <3>1. QED
        BY <2>2, <2>5
  <2>7. s[least] = Segment(w, h, s[i], i)
    <3>1. least - 1 = i
        BY <2>3, <2>5
    <3>2. QED
        BY <1>7, <2>3, <2>4, <3>1
  <2>8. Waiting(w, first, h, s[i], i) /\ FoundTo(w, first, last, h, s[i], i)
    BY <2>6
  <2>9. Waiting(w, first, h, Segment(w, h, s[i], i), i + 1)
    BY <2>5, <2>8, WaitingKept
  <2>10. FoundTo(w, first, last, h, Segment(w, h, s[i], i), i + 1)
    BY <2>5, <2>8, FoundKept
  <2>11. holds(least)
    BY <2>5, <2>7, <2>9, <2>10
  <2>12. QED
    <3> HIDE DEF holds
    <3>1. QED
        BY <2>3, <2>11
<1>6. holds(last)
  <2> HIDE DEF holds
  <2>1. last \in first .. last
    BY <1>1
  <2>2. QED
    BY <1>5, <2>1
<1>8. QED
    BY <1>2, <1>6

-----------------------------------------------------------------------------
(* A finite set of integers has a greatest and a least member.             *)
LEMMA MaxMin ==
    ASSUME NEW S \in SUBSET Int, IsFiniteSet(S), S # {}
    PROVE  /\ Max(S) \in S /\ \A x \in S : x <= Max(S)
           /\ Min(S) \in S /\ \A x \in S : Min(S) <= x
<1> DEFINE Most(T)  == \E x \in T : \A y \in T : y <= x
           Least1(T) == \E x \in T : \A y \in T : x <= y
           sets(n)  == {T \in SUBSET S : T # {} /\ Cardinality(T) = n}
           bad      == {n \in Nat : \E T \in sets(n) : ~(Most(T) /\ Least1(T))}
           least    == Least(bad)
<1>1. \A T \in SUBSET S : IsFiniteSet(T) /\ Cardinality(T) \in Nat
    BY FS_Subset, FS_CardinalityType
<1>2. bad = {}
  <2> SUFFICES ASSUME bad # {} PROVE FALSE
    OBVIOUS
  <2>1. least \in bad /\ \A n \in bad : least <= n
    BY LeastIndex
  <2> HIDE DEF least
  <2>2. least \in Nat
    BY <2>1
  <2>3. PICK T \in sets(least) : ~(Most(T) /\ Least1(T))
    BY <2>1
  <2>4. T \in SUBSET S /\ T # {} /\ Cardinality(T) = least /\ IsFiniteSet(T)
    BY <1>1
  <2>5. PICK x \in T : TRUE
    BY <2>4
  <2> DEFINE U == T \ {x}
  <2>6. IsFiniteSet(U) /\ Cardinality(U) = least - 1 /\ U \in SUBSET S /\ Cardinality(U) \in Nat
    BY <1>1, <2>4, FS_RemoveElement
  <2>7. CASE U = {}
    <3>1. T = {x} /\ x \in Int
        BY <2>4, <2>7
    <3>2. x <= x
        BY <3>1
    <3>3. QED
        BY <2>3, <3>1, <3>2
  <2>8. CASE U # {}
    <3>1. least - 1 \in Nat /\ ~(least <= least - 1)
        BY <2>2, <2>6
    <3>2. least - 1 \notin bad
        BY <2>1, <3>1
    <3>3. Most(U) /\ Least1(U)
        BY <2>6, <2>8, <3>1, <3>2
    <3>4. PICK a \in U : \A y \in U : y <= a
        BY <3>3
    <3>5. PICK b \in U : \A y \in U : b <= y
        BY <3>3
    <3>6. a \in Int /\ b \in Int /\ x \in Int /\ a \in T /\ b \in T /\ \A y \in T : y = x \/ y \in U
        BY <2>4
    <3>7. \A y \in U : y \in Int
        BY <2>4
    <3> HIDE DEF U
    <3>8. Most(T)
        <4>1. CASE x <= a
            BY <3>4, <3>6, <4>1
        <4>2. CASE ~(x <= a)
            <5>1. a <= x /\ x <= x
                BY <3>6, <4>2
            <5>2. \A y \in U : y <= x
                BY <3>4, <3>6, <3>7, <5>1
            <5>3. QED
                BY <3>6, <5>1, <5>2
        <4>3. QED
            BY <4>1, <4>2
    <3>9. Least1(T)
        <4>1. CASE b <= x
            BY <3>5, <3>6, <4>1
        <4>2. CASE ~(b <= x)
            <5>1. x <= b /\ x <= x
                BY <3>6, <4>2
            <5>2. \A y \in U : x <= y
                BY <3>5, <3>6, <3>7, <5>1
            <5>3. QED
                BY <3>6, <5>1, <5>2
        <4>3. QED
            BY <4>1, <4>2
    <3>10. QED
        BY <2>3, <3>8, <3>9
  <2>9. QED
    BY <2>7, <2>8
<1>3. Most(S) /\ Least1(S)
  <2>1. S \in sets(Cardinality(S)) /\ Cardinality(S) \in Nat
    BY <1>1
  <2>2. QED
    BY <1>2, <2>1
<1>4. PICK a \in S : \A y \in S : y <= a
    BY <1>3
<1>5. PICK b \in S : \A y \in S : b <= y
    BY <1>3
<1>6. \E x \in S : \A y \in S : x >= y
  <2>1. \A y \in S : a >= y
    BY <1>4
  <2>2. QED
    BY <2>1
<1>7. Max(S) \in S /\ \A y \in S : Max(S) >= y
    BY <1>6 DEF Max
<1>8. Min(S) \in S /\ \A y \in S : Min(S) <= y
    BY <1>5 DEF Min
<1>9. \A y \in S : Max(S) >= y => y <= Max(S)
    BY <1>7
<1>10. QED
    BY <1>7, <1>8, <1>9

LEMMA MaxIs ==
    ASSUME NEW S \in SUBSET Int, NEW a \in S, \A x \in S : x <= a
    PROVE  Max(S) = a
<1>1. a \in Int /\ (\A x \in S : x \in Int) /\ \A x \in S : a >= x
    OBVIOUS
<1>2. Max(S) \in S /\ \A y \in S : Max(S) >= y
    BY <1>1 DEF Max
<1>3. Max(S) \in Int /\ Max(S) <= a /\ Max(S) >= a
    BY <1>1, <1>2
<1>4. QED
    BY <1>1, <1>3

LEMMA MinIs ==
    ASSUME NEW S \in SUBSET Int, NEW a \in S, \A x \in S : a <= x
    PROVE  Min(S) = a
<1>1. a \in Int /\ (\A x \in S : x \in Int)
    OBVIOUS
<1>2. Min(S) \in S /\ \A y \in S : Min(S) <= y
    BY DEF Min
<1>3. Min(S) \in Int /\ Min(S) <= a /\ a <= Min(S)
    BY <1>1, <1>2
<1>4. QED
    BY <1>1, <1>3

(* A confirmed zero is a crossing, and a crossing is confirmed.            *)
LEMMA ConfirmedIsCrossing ==
    ASSUME NEW w \in Seq(Int), NEW h \in Nat \ {0}, NEW first \in 1 .. Len(w), NEW last \in first .. Len(w),
           NEW k \in first .. last - 1
    PROVE  Confirmed(w, first, h, k, last) <=> IsCrossing(w, first, last, h, k)
<1> DEFINE before == {j \in Extremes(w, h) : first <= j /\ j <= k}
           after  == {j \in Extremes(w, h) : k < j /\ j <= last}
<1>1. /\ Len(w) \in Nat /\ DOMAIN w = 1 .. Len(w) /\ \A j \in 1 .. Len(w) : w[j] \in Int
      /\ first \in Int /\ last \in Int /\ k \in Int
    OBVIOUS
<1>2. Extremes(w, h) = {j \in 1 .. Len(w) : w[j] <= -h \/ w[j] >= h}
    BY <1>1 DEF Extremes
<1>3. before \in SUBSET Int /\ after \in SUBSET Int /\ IsFiniteSet(before) /\ IsFiniteSet(after)
  <2>1. before \in SUBSET (1 .. Len(w)) /\ after \in SUBSET (1 .. Len(w))
    BY <1>2
  <2>2. IsFiniteSet(1 .. Len(w))
    BY <1>1, FS_Interval
  <2> HIDE DEF before, after
  <2>3. IsFiniteSet(before) /\ IsFiniteSet(after)
    BY <2>1, <2>2, FS_Subset
  <2>4. QED
    BY <2>1, <2>3
<1>4. IsCrossing(w, first, last, h, k) <=>
        /\ RisesIn(w, k)
        /\ before # {} /\ w[Max(before)] < 0
        /\ after # {} /\ w[Min(after)] > 0
        /\ \A l \in Max(before) .. k - 1 : ~RisesIn(w, l)
    BY DEF IsCrossing
<1>5. ASSUME IsCrossing(w, first, last, h, k) PROVE Confirmed(w, first, h, k, last)
  <2> DEFINE m == Max(before)
             n == Min(after)
  <2>1. /\ m \in before /\ \A j \in before : j <= m
        /\ n \in after /\ \A j \in after : n <= j
    <3> HIDE DEF before, after
    <3>1. QED
        BY <1>3, <1>4, <1>5, MaxMin
  <2>2. w[m] < 0 /\ w[n] > 0 /\ FirstRise(w, m, k)
    BY <1>4, <1>5 DEF FirstRise
  <2> HIDE DEF m, n
  <2>3. m \in first .. k /\ m \in 1 .. Len(w) /\ (w[m] <= -h \/ w[m] >= h)
    BY <1>1, <1>2, <2>1
  <2>4. n \in k + 1 .. last /\ n \in 1 .. Len(w) /\ (w[n] <= -h \/ w[n] >= h)
    BY <1>1, <1>2, <2>1
  <2>5. w[m] <= -h /\ w[n] >= h
    <3>1. w[m] \in Int /\ w[n] \in Int
        BY <1>1, <2>3, <2>4
    <3>2. QED
        BY <2>2, <2>3, <2>4, <3>1
  <2>6. ASSUME NEW j \in m + 1 .. n - 1 PROVE -h < w[j] /\ w[j] < h
    <3>1. j \in 1 .. Len(w) /\ first <= j /\ j <= last /\ ~(j <= m) /\ ~(n <= j) /\ (j <= k \/ k < j)
        BY <1>1, <2>3, <2>4
    <3>2. j \notin before /\ j \notin after
        <4> HIDE DEF before, after
        <4>1. QED
            BY <2>1, <3>1
    <3>3. j \notin Extremes(w, h)
        BY <3>1, <3>2
    <3>4. w[j] \in Int /\ ~(w[j] <= -h) /\ ~(w[j] >= h)
        BY <1>1, <1>2, <3>1, <3>3
    <3>5. QED
        BY <3>4
  <2>7. Quiet(w, h, m, n - 1)
    BY <2>5, <2>6 DEF Quiet
  <2>8. QED
    BY <2>2, <2>3, <2>4, <2>5, <2>7 DEF Confirmed
<1>6. ASSUME Confirmed(w, first, h, k, last) PROVE IsCrossing(w, first, last, h, k)
  <2>1. PICK m \in first .. k, n \in k + 1 .. last : Quiet(w, h, m, n - 1) /\ w[n] >= h /\ FirstRise(w, m, k)
    BY <1>6 DEF Confirmed
  <2>2. m \in 1 .. Len(w) /\ n \in 1 .. Len(w) /\ m \in Int /\ n \in Int
    BY <1>1
  <2>3. w[m] \in Int /\ w[n] \in Int /\ w[m] <= -h
    BY <1>1, <2>1, <2>2 DEF Quiet
  <2>4. m \in before /\ n \in after
    BY <1>1, <1>2, <2>1, <2>2, <2>3
  <2>5. ASSUME NEW j \in m + 1 .. n - 1 PROVE j \notin Extremes(w, h)
    <3>1. -h < w[j] /\ w[j] < h /\ j \in 1 .. Len(w)
        BY <1>1, <2>1, <2>2 DEF Quiet
    <3>2. w[j] \in Int
        BY <1>1, <3>1
    <3>3. QED
        BY <1>2, <3>1, <3>2
  <2>6. \A j \in before : j <= m
    <3> SUFFICES ASSUME NEW j \in before, ~(j <= m) PROVE FALSE
        OBVIOUS
    <3>1. j \in Extremes(w, h) /\ j \in Int /\ j <= k
        BY <1>3
    <3>2. j \in m + 1 .. n - 1
        BY <1>1, <2>1, <2>2, <3>1
    <3>3. QED
        BY <2>5, <3>1, <3>2
  <2>7. \A j \in after : n <= j
    <3> SUFFICES ASSUME NEW j \in after, ~(n <= j) PROVE FALSE
        OBVIOUS
    <3>1. j \in Extremes(w, h) /\ j \in Int /\ k < j
        BY <1>3
    <3>2. j \in m + 1 .. n - 1
        BY <1>1, <2>1, <2>2, <3>1
    <3>3. QED
        BY <2>5, <3>1, <3>2
  <2>8. Max(before) = m /\ Min(after) = n
    <3> HIDE DEF before, after
    <3>1. QED
        BY <1>3, <2>4, <2>6, <2>7, MaxIs, MinIs
  <2>9. before # {} /\ after # {} /\ w[m] < 0 /\ w[n] > 0
    <3>1. w[m] < 0
        BY <2>3
    <3>2. w[n] > 0
        BY <2>1, <2>3
    <3>3. QED
        BY <2>4, <3>1, <3>2
  <2>10. RisesIn(w, k) /\ \A l \in m .. k - 1 : ~RisesIn(w, l)
    BY <2>1 DEF FirstRise
  <2> HIDE DEF before, after
  <2>11. QED
    BY <1>4, <2>8, <2>9, <2>10
<1>7. QED
    BY <1>5, <1>6

LEMMA WholeSteps ==
    ASSUME NEW n \in Nat, NEW d \in Nat \ {0}, n % d = 0
    PROVE  n \div d \in Nat /\ n = (n \div d) * d
<1>1. n = d * (n \div d) + (n % d) /\ n \div d \in Nat
    OBVIOUS
<1>2. QED
    BY <1>1

LEMMA CrossingsOfWindow ==
    ASSUME Step \in Nat \ {0}, NEW w \in Seq(Int), NEW r, r.search \in Int, r.start \in Int, r.stop \in Int, r.hysteresis \in Int,
           TransientRequestFits(r), WindowFits(w, r)
    PROVE  /\ r.search \div Step + 1 \in 1 .. Len(w) /\ r.stop \div Step + 1 \in r.search \div Step + 1 .. Len(w)
           /\ TimeOf(r.search \div Step + 1) = r.search /\ TimeOf(r.stop \div Step + 1) = r.stop
           /\ r.hysteresis \in Nat \ {0} /\ 0 <= r.search /\ r.search < r.stop
<1> DEFINE a == r.search \div Step
           b == r.stop \div Step
<1>1. r.hysteresis > 0 /\ r.search <= r.start /\ r.start < r.stop
    BY DEF TransientRequestFits
<1>2. 0 <= r.search /\ r.stop <= TimeOf(Len(w)) /\ r.search % Step = 0 /\ r.stop % Step = 0
    BY DEF WindowFits
<1>3. r.hysteresis \in Nat \ {0} /\ r.search < r.stop /\ r.search \in Nat /\ r.stop \in Nat
    BY <1>1, <1>2
<1>4. a \in Nat /\ b \in Nat /\ r.search = a * Step /\ r.stop = b * Step
  <2>1. ASSUME NEW n \in Nat, n % Step = 0 PROVE n \div Step \in Nat /\ n = (n \div Step) * Step
    <3>1. \A d \in Nat \ {0} : n % d = 0 => n \div d \in Nat /\ n = (n \div d) * d
        BY WholeSteps
    <3>2. QED
        BY <2>1, <3>1
  <2>2. QED
    BY <1>2, <1>3, <2>1
<1> HIDE DEF a, b
<1>5. TimeOf(a + 1) = r.search /\ TimeOf(b + 1) = r.stop
    BY <1>4 DEF TimeOf
<1>6. \A i, j \in Int : i < j => TimeOf(i) + Step <= TimeOf(j) /\ TimeOf(i) \in Int /\ TimeOf(j) \in Int
    BY Instants
<1>7. a + 1 <= b + 1
  <2> SUFFICES ASSUME b + 1 < a + 1 PROVE FALSE
    BY <1>4
  <2>1. a + 1 \in Int /\ b + 1 \in Int
    BY <1>4
  <2>2. TimeOf(b + 1) + Step <= TimeOf(a + 1)
    BY <1>6, <2>1
  <2>3. QED
    BY <1>3, <1>5, <2>2
<1>8. b + 1 <= Len(w)
  <2> SUFFICES ASSUME Len(w) < b + 1 PROVE FALSE
    BY <1>4
  <2>1. b + 1 \in Int /\ Len(w) \in Int
    BY <1>4
  <2>2. TimeOf(Len(w)) + Step <= TimeOf(b + 1) /\ TimeOf(Len(w)) \in Int
    BY <1>6, <2>1
  <2>3. QED
    BY <1>2, <1>3, <1>5, <2>2
<1>9. a + 1 \in 1 .. Len(w) /\ b + 1 \in a + 1 .. Len(w)
    BY <1>4, <1>7, <1>8
<1>10. QED
    BY <1>2, <1>3, <1>5, <1>9 DEF a, b

(* What result.oscillator.measure counts as a cycle is one, for every wave *)
(* and every admitted request: the crossings of the hysteretic scan are    *)
(* exactly the rising zeros that a sample at or below the lower threshold  *)
(* arms and one at or above the upper confirms (no excursion is spliced,   *)
(* none is lost), in order, at least a sampling step apart and inside the  *)
(* searched stretch.                                                       *)
THEOREM CyclesAreReal ==
    ASSUME Step \in Nat \ {0}, NEW w \in Seq(Int), NEW r, r.search \in Int, r.start \in Int, r.stop \in Int, r.hysteresis \in Int,
           TransientRequestFits(r), WindowFits(w, r)
    PROVE  /\ CrossingsAreReal(w, r)
           /\ CrossingsOf(w, r) \in Seq(Int) /\ Spaced(CrossingsOf(w, r))
           /\ \A a \in 1 .. Len(CrossingsOf(w, r)) : r.search <= CrossingsOf(w, r)[a] /\ CrossingsOf(w, r)[a] <= r.stop
<1> DEFINE first == r.search \div Step + 1
           last  == r.stop \div Step + 1
           h     == r.hysteresis
           all   == CrossingsOf(w, r)
<1>1. first \in 1 .. Len(w) /\ last \in first .. Len(w) /\ h \in Nat \ {0} /\ TimeOf(first) = r.search /\ TimeOf(last) = r.stop
    BY CrossingsOfWindow
<1>2. all = HystereticCrossings(w, first, last, h)
    BY DEF CrossingsOf
<1>3. CrossingsAreReal(w, r) <=>
        ToSet(all) = {ZeroIn(w, i) : i \in {k \in first .. last - 1 : IsCrossing(w, first, last, h, k)}}
    BY DEF CrossingsAreReal
<1> HIDE DEF first, last, h, all
<1>4. PICK s : all = s.found /\ FoundTo(w, first, last, h, s, last)
    BY <1>1, <1>2, ScanHolds
<1>5. ConfirmedTo(w, first, last, h, last) = {k \in first .. last - 1 : IsCrossing(w, first, last, h, k)}
  <2>1. \A k \in first .. last - 1 : Confirmed(w, first, h, k, last) <=> IsCrossing(w, first, last, h, k)
    BY <1>1, ConfirmedIsCrossing
  <2>2. QED
    BY <2>1 DEF ConfirmedTo
<1>6. /\ all \in Seq(Int) /\ Spaced(all)
      /\ ToSet(all) = {ZeroIn(w, k) : k \in ConfirmedTo(w, first, last, h, last)}
      /\ \A a \in 1 .. Len(all) : all[a] <= TimeOf(last)
    BY <1>4 DEF FoundTo
<1>7. CrossingsAreReal(w, r)
    BY <1>3, <1>5, <1>6
<1>8. ASSUME NEW a \in 1 .. Len(all) PROVE r.search <= all[a] /\ all[a] <= r.stop
  <2>1. all[a] \in ToSet(all) /\ all[a] \in Int
    BY <1>6 DEF ToSet
  <2>2. PICK k \in first .. last - 1 : Confirmed(w, first, h, k, last) /\ all[a] = ZeroIn(w, k)
    BY <1>6, <2>1 DEF ConfirmedTo
  <2>3. RisesIn(w, k)
    BY <2>2 DEF Confirmed, FirstRise
  <2>4. k \in 1 .. Len(w) - 1 /\ first \in Int /\ k \in Int /\ (first = k \/ first < k)
    BY <1>1
  <2>5. TimeOf(k) <= all[a]
    BY <2>2, <2>3, <2>4, ZeroBetween
  <2>6. TimeOf(first) \in Int /\ TimeOf(k) \in Int /\ (first < k => TimeOf(first) + Step <= TimeOf(k))
    BY <2>4, Instants
  <2>7. r.search <= all[a]
    <3>1. \A x, y, z \in Int : (x = y \/ x + Step <= y) /\ y <= z => x <= z
        OBVIOUS
    <3>2. TimeOf(first) <= all[a]
        BY <2>1, <2>4, <2>5, <2>6, <3>1
    <3>3. QED
        BY <1>1, <3>2
  <2>8. all[a] <= r.stop
    <3>1. all[a] <= TimeOf(last) /\ TimeOf(last) = r.stop
        BY <1>1, <1>6
    <3>2. QED
        BY <3>1
  <2>9. QED
    BY <2>7, <2>8
<1>9. QED
    BY <1>6, <1>7, <1>8 DEF all

-----------------------------------------------------------------------------
(* The segment of an instant, and the line the wave follows on it.         *)
LEMMA SegmentOf ==
    ASSUME Step \in Nat \ {0}, NEW n \in Nat, NEW x \in Int, 0 <= x, x <= TimeOf(n)
    PROVE  /\ x \div Step + 1 \in 1 .. n /\ x % Step = x - TimeOf(x \div Step + 1)
           /\ TimeOf(x \div Step + 1) <= x /\ x < TimeOf(x \div Step + 1) + Step
<1> DEFINE q == x \div Step
           m == x % Step
<1>1. x \in Nat
    OBVIOUS
<1>2. x = Step * q + m /\ q \in Nat /\ m \in Nat /\ m < Step
    BY <1>1
<1> HIDE DEF q, m
<1>3. TimeOf(q + 1) = Step * q
    BY <1>2 DEF TimeOf
<1>4. q + 1 <= n
  <2> SUFFICES ASSUME n < q + 1 PROVE FALSE
    BY <1>2
  <2>1. TimeOf(n) + Step <= TimeOf(q + 1)
    BY <1>2, Instants
  <2>2. TimeOf(n) \in Int /\ TimeOf(q + 1) \in Int
    BY <1>2, Instants
  <2>3. QED
    BY <1>2, <1>3, <2>1, <2>2
<1>5. TimeOf(q + 1) \in Int
    BY <1>2, Instants
<1>6. m = x - TimeOf(q + 1) /\ TimeOf(q + 1) <= x /\ x < TimeOf(q + 1) + Step
    BY <1>2, <1>3, <1>5
<1>7. QED
    BY <1>2, <1>4, <1>6 DEF q, m

LEMMA SegmentIsOne ==
    ASSUME Step \in Nat \ {0}, NEW i \in Int, NEW j \in Int, NEW x \in Int,
           TimeOf(i) <= x, x < TimeOf(i) + Step, TimeOf(j) <= x, x < TimeOf(j) + Step
    PROVE  i = j
<1>1. TimeOf(i) \in Int /\ TimeOf(j) \in Int
    BY Instants
<1>2. (i < j => TimeOf(i) + Step <= TimeOf(j)) /\ (j < i => TimeOf(j) + Step <= TimeOf(i))
    BY Instants
<1>3. ~(i < j) /\ ~(j < i)
    BY <1>1, <1>2
<1>4. QED
    BY <1>3

LEMMA ValueAt ==
    ASSUME Step \in Nat \ {0}, NEW w \in Seq(Int), NEW i \in 1 .. Len(w)
    PROVE  Value(w, TimeOf(i)) = w[i] * Step
<1>1. i \in Int /\ Len(w) \in Nat /\ 1 \in Int /\ (i = 1 \/ 1 < i) /\ (i = Len(w) \/ i < Len(w))
    OBVIOUS
<1>2. TimeOf(i) \in Int /\ 0 <= TimeOf(i) /\ TimeOf(i) <= TimeOf(Len(w))
  <2>1. TimeOf(i) \in Int /\ TimeOf(1) = 0 /\ TimeOf(Len(w)) \in Int
    BY <1>1, Instants
  <2>2. 1 < i => TimeOf(1) + Step <= TimeOf(i)
    BY <1>1, Instants
  <2>3. i < Len(w) => TimeOf(i) + Step <= TimeOf(Len(w))
    BY <1>1, Instants
  <2>4. QED
    BY <1>1, <2>1, <2>2, <2>3
<1> DEFINE j == TimeOf(i) \div Step + 1
<1>3. /\ j \in 1 .. Len(w) /\ TimeOf(i) % Step = TimeOf(i) - TimeOf(j)
      /\ TimeOf(j) <= TimeOf(i) /\ TimeOf(i) < TimeOf(j) + Step
    BY <1>1, <1>2, SegmentOf
<1>4. TimeOf(i) <= TimeOf(i) /\ TimeOf(i) < TimeOf(i) + Step /\ j \in Int
    BY <1>2, <1>3
<1> HIDE DEF j
<1>5. j = i
    BY <1>1, <1>2, <1>3, <1>4, SegmentIsOne
<1>6. TimeOf(i) % Step = 0
    BY <1>2, <1>3, <1>5
<1>7. QED
    BY <1>5, <1>6 DEF Value, j

LEMMA OnLine ==
    ASSUME Step \in Nat \ {0}, NEW w \in Seq(Int), NEW i \in 1 .. Len(w) - 1, NEW x \in Int,
           TimeOf(i) <= x, x <= TimeOf(i) + Step
    PROVE  Value(w, x) = w[i] * Step + (w[i + 1] - w[i]) * (x - TimeOf(i))
<1>1. i \in Int /\ Len(w) \in Nat /\ w[i] \in Int /\ w[i + 1] \in Int /\ i \in 1 .. Len(w) /\ i + 1 \in 1 .. Len(w)
    OBVIOUS
<1>2. TimeOf(i) \in Int /\ TimeOf(i + 1) = TimeOf(i) + Step
    BY <1>1, Instants
<1>3. CASE x = TimeOf(i)
  <2>1. x - TimeOf(i) = 0
    BY <1>2, <1>3
  <2>2. Value(w, x) = w[i] * Step
    BY <1>1, <1>3, ValueAt
  <2>3. QED
    BY <1>1, <2>1, <2>2
<1>4. CASE x = TimeOf(i) + Step
  <2>1. x - TimeOf(i) = Step
    BY <1>2, <1>4
  <2>2. Value(w, x) = w[i + 1] * Step
    BY <1>1, <1>2, <1>4, ValueAt
  <2>3. \A a, b \in Int : b * Step = a * Step + (b - a) * Step
    OBVIOUS
  <2>4. QED
    BY <1>1, <2>1, <2>2, <2>3
<1>5. CASE TimeOf(i) < x /\ x < TimeOf(i) + Step
  <2> DEFINE j == x \div Step + 1
  <2>1. 0 <= x /\ x <= TimeOf(Len(w))
    <3>1. TimeOf(1) = 0 /\ TimeOf(Len(w)) \in Int /\ TimeOf(i + 1) \in Int /\ i + 1 \in Int
        BY <1>1, <1>2, Instants
    <3>2. 1 < i => TimeOf(1) + Step <= TimeOf(i)
        BY <1>1, Instants
    <3>3. i + 1 < Len(w) => TimeOf(i + 1) + Step <= TimeOf(Len(w))
        BY <1>1, <3>1, Instants
    <3>4. 0 <= TimeOf(i)
        <4>1. i = 1 \/ 1 < i
            BY <1>1
        <4>2. QED
            BY <1>2, <3>1, <3>2, <4>1
    <3>5. TimeOf(i + 1) <= TimeOf(Len(w))
        <4>1. i + 1 = Len(w) \/ i + 1 < Len(w)
            BY <1>1
        <4>2. QED
            BY <3>1, <3>3, <4>1
    <3>6. QED
        BY <1>2, <1>5, <3>1, <3>4, <3>5
  <2>2. /\ j \in 1 .. Len(w) /\ x % Step = x - TimeOf(j) /\ TimeOf(j) <= x /\ x < TimeOf(j) + Step
    BY <1>1, <2>1, SegmentOf
  <2> HIDE DEF j
  <2>3. j = i
    BY <1>1, <1>5, <2>2, SegmentIsOne
  <2>4. x % Step = x - TimeOf(i) /\ x - TimeOf(i) # 0
    BY <1>2, <1>5, <2>2, <2>3
  <2>5. QED
    BY <2>3, <2>4 DEF Value, j
<1>6. x = TimeOf(i) \/ x = TimeOf(i) + Step \/ (TimeOf(i) < x /\ x < TimeOf(i) + Step)
    BY <1>2
<1>7. QED
    BY <1>3, <1>4, <1>5, <1>6

LEMMA ValueIs ==
    ASSUME Step \in Nat \ {0}, NEW w \in Seq(Int), NEW x \in Int, 0 <= x, x <= TimeOf(Len(w))
    PROVE  /\ Value(w, x) \in Int
           /\ \/ \E i \in 1 .. Len(w) : x = TimeOf(i)
              \/ \E i \in 1 .. Len(w) - 1 : TimeOf(i) < x /\ x < TimeOf(i) + Step
<1> DEFINE i == x \div Step + 1
<1>1. Len(w) \in Nat /\ \A k \in 1 .. Len(w) : w[k] \in Int
    OBVIOUS
<1>2. i \in 1 .. Len(w) /\ TimeOf(i) <= x /\ x < TimeOf(i) + Step /\ i \in Int
  <2> DEFINE n == Len(w)
  <2>1. n \in Nat
    BY <1>1
  <2> HIDE DEF n
  <2>2. x <= TimeOf(n)
    BY DEF n
  <2>3. i \in 1 .. n /\ TimeOf(i) <= x /\ x < TimeOf(i) + Step
    BY <2>1, <2>2, SegmentOf
  <2> HIDE DEF i
  <2>4. i \in Int
    BY <2>1, <2>3
  <2>5. QED
    BY <2>3, <2>4 DEF n
<1> HIDE DEF i
<1>3. TimeOf(i) \in Int
    BY <1>2, Instants
<1>4. CASE x = TimeOf(i)
  <2>1. Value(w, x) = w[i] * Step /\ w[i] \in Int
    BY <1>1, <1>2, <1>4, ValueAt
  <2>2. QED
    BY <1>2, <1>4, <2>1
<1>5. CASE x # TimeOf(i)
  <2>1. i # Len(w)
    BY <1>2, <1>3, <1>5
  <2>2. i \in 1 .. Len(w) - 1 /\ w[i] \in Int /\ w[i + 1] \in Int
    BY <1>1, <1>2, <2>1
  <2>3. Value(w, x) = w[i] * Step + (w[i + 1] - w[i]) * (x - TimeOf(i))
    BY <1>2, <1>3, <2>2, OnLine
  <2>4. Value(w, x) \in Int
    <3>1. w[i + 1] - w[i] \in Int /\ x - TimeOf(i) \in Int
        BY <1>3, <2>2
    <3>2. \A a, b \in Int : a * b \in Int
        OBVIOUS
    <3>3. w[i] * Step \in Int /\ (w[i + 1] - w[i]) * (x - TimeOf(i)) \in Int
        BY <2>2, <3>1, <3>2
    <3>4. QED
        BY <2>3, <3>3
  <2>5. QED
    BY <1>2, <1>3, <1>5, <2>2, <2>4
<1>6. QED
    BY <1>4, <1>5

(* A line is between its values at the two ends of a stretch of it.        *)
LEMMA Leans ==
    ASSUME NEW c \in Int, NEW s \in Int, NEW a \in Int, NEW x \in Int, NEW b \in Int, a <= x, x <= b
    PROVE  \/ c + s * a <= c + s * x /\ c + s * x <= c + s * b
           \/ c + s * a >= c + s * x /\ c + s * x >= c + s * b
<1> DEFINE d == x - a
           e == b - x
<1>1. d \in Nat /\ e \in Nat /\ x = a + d /\ b = x + e
    OBVIOUS
<1> HIDE DEF d, e
<1>2. s * x = s * a + s * d /\ s * b = s * x + s * e /\ s * a \in Int /\ s * d \in Int /\ s * e \in Int
  <2>1. \A p, q \in Int : s * (p + q) = s * p + s * q /\ s * p \in Int
    OBVIOUS
  <2>2. QED
    BY <1>1, <2>1
<1>3. CASE s >= 0
  <2>1. s * d >= 0 /\ s * e >= 0
    BY <1>1, <1>3
  <2>2. QED
    BY <1>2, <2>1
<1>4. CASE s < 0
  <2>1. s * d <= 0 /\ s * e <= 0
    BY <1>1, <1>4
  <2>2. QED
    BY <1>2, <2>1
<1>5. QED
    BY <1>3, <1>4

(* The value inside a stretch is between two values at its points.         *)
LEMMA BetweenPoints ==
    ASSUME Step \in Nat \ {0}, NEW w \in Seq(Int), NEW a \in Int, NEW x \in Int, NEW b \in Int,
           0 <= a, a <= x, x <= b, b <= TimeOf(Len(w))
    PROVE  \E p, q \in Breakpoints(w, a, b) : Value(w, p) <= Value(w, x) /\ Value(w, x) <= Value(w, q)
<1>1. Len(w) \in Nat /\ DOMAIN w = 1 .. Len(w) /\ (\A k \in 1 .. Len(w) : w[k] \in Int) /\ TimeOf(Len(w)) \in Int
  <2>1. Len(w) \in Nat /\ DOMAIN w = 1 .. Len(w) /\ \A k \in 1 .. Len(w) : w[k] \in Int
    OBVIOUS
  <2>2. QED
    BY <2>1, Instants
<1>2. 0 <= x /\ x <= TimeOf(Len(w))
    BY <1>1
<1>3. Value(w, x) \in Int
    BY <1>2, ValueIs
<1>4. a \in Breakpoints(w, a, b) /\ b \in Breakpoints(w, a, b)
    BY DEF Breakpoints
<1>5. \A j \in 1 .. Len(w) : a < TimeOf(j) /\ TimeOf(j) < b => TimeOf(j) \in Breakpoints(w, a, b)
    BY <1>1 DEF Breakpoints
<1>6. CASE \E i \in 1 .. Len(w) : x = TimeOf(i)
  <2>1. x \in Breakpoints(w, a, b)
    BY <1>4, <1>5, <1>6
  <2>2. Value(w, x) <= Value(w, x)
    BY <1>3
  <2>3. QED
    BY <2>1, <2>2
<1>7. CASE \E i \in 1 .. Len(w) - 1 : TimeOf(i) < x /\ x < TimeOf(i) + Step
  <2>1. PICK i \in 1 .. Len(w) - 1 : TimeOf(i) < x /\ x < TimeOf(i) + Step
    BY <1>7
  <2>2. /\ TimeOf(i) \in Int /\ TimeOf(i + 1) = TimeOf(i) + Step
        /\ i \in 1 .. Len(w) /\ i + 1 \in 1 .. Len(w) /\ w[i] \in Int /\ w[i + 1] \in Int
    <3>1. i \in Int /\ i \in 1 .. Len(w) /\ i + 1 \in 1 .. Len(w)
        BY <1>1
    <3>2. TimeOf(i) \in Int /\ TimeOf(i + 1) = TimeOf(i) + Step
        BY <3>1, Instants
    <3>3. QED
        BY <1>1, <3>1, <3>2
  <2> DEFINE t == TimeOf(i)
             p == IF t <= a THEN a ELSE t
             q == IF b <= t + Step THEN b ELSE t + Step
             s == w[i + 1] - w[i]
             c == w[i] * Step - s * t
  <2>3. p \in Breakpoints(w, a, b) /\ q \in Breakpoints(w, a, b)
    <3>1. p \in Breakpoints(w, a, b)
        <4>1. CASE t <= a
            BY <1>4, <4>1
        <4>2. CASE ~(t <= a)
            <5>1. a < t /\ t < b
                BY <2>1, <2>2, <4>2
            <5>2. QED
                BY <1>5, <2>2, <4>2, <5>1
        <4>3. QED
            BY <4>1, <4>2
    <3>2. q \in Breakpoints(w, a, b)
        <4>1. CASE b <= t + Step
            BY <1>4, <4>1
        <4>2. CASE ~(b <= t + Step)
            <5>1. a < t + Step /\ t + Step < b
                BY <2>1, <2>2, <4>2
            <5>2. q = TimeOf(i + 1) /\ a < TimeOf(i + 1) /\ TimeOf(i + 1) < b
                BY <2>2, <4>2, <5>1
            <5>3. QED
                BY <1>5, <2>2, <5>2
        <4>3. QED
            BY <4>1, <4>2
    <3>3. QED
        BY <3>1, <3>2
  <2>4. p \in Int /\ q \in Int /\ p <= x /\ x <= q /\ t <= p /\ q <= t + Step /\ t <= x /\ x <= t + Step
    BY <2>1, <2>2
  <2>5. t <= q /\ p <= t + Step /\ t \in Int /\ s \in Int /\ Step \in Int
    <3>1. t \in Int /\ s \in Int /\ Step \in Int
        BY <2>2
    <3> HIDE DEF p, q, s, t
    <3>2. t <= q /\ p <= t + Step
        BY <2>4, <3>1
    <3>3. QED
        BY <3>1, <3>2
  <2>6. \A y \in Int : t <= y /\ y <= t + Step => Value(w, y) = w[i] * Step + s * (y - t)
    BY OnLine
  <2> HIDE DEF t, p, q, s
  <2>7. c \in Int /\ \A y \in Int : w[i] * Step + s * (y - t) = c + s * y
    <3>1. \A m, n \in Int : m * n \in Int
        OBVIOUS
    <3>2. w[i] * Step \in Int /\ s * t \in Int
        BY <2>2, <2>5, <3>1
    <3>3. ASSUME NEW y \in Int PROVE s * (y - t) = s * y - s * t /\ s * y \in Int
        BY <2>5
    <3>4. ASSUME NEW y \in Int PROVE w[i] * Step + s * (y - t) = c + s * y
        <4>1. s * (y - t) = s * y - s * t /\ s * y \in Int
            BY <3>3
        <4>2. QED
            BY <3>2, <4>1
    <3>5. QED
        BY <3>2, <3>4
  <2> HIDE DEF c
  <2>8. Value(w, p) = c + s * p /\ Value(w, x) = c + s * x /\ Value(w, q) = c + s * q
    BY <2>4, <2>5, <2>6, <2>7
  <2>9. \/ c + s * p <= c + s * x /\ c + s * x <= c + s * q
        \/ c + s * p >= c + s * x /\ c + s * x >= c + s * q
    BY <2>4, <2>5, <2>7, Leans
  <2>10. s * p \in Int /\ s * x \in Int /\ s * q \in Int
    BY <2>4, <2>5
  <2>11. \/ Value(w, p) <= Value(w, x) /\ Value(w, x) <= Value(w, q)
         \/ Value(w, q) <= Value(w, x) /\ Value(w, x) <= Value(w, p)
    BY <2>7, <2>8, <2>9, <2>10
  <2>12. QED
    BY <2>3, <2>11
<1>8. QED
    BY <1>2, <1>6, <1>7, ValueIs

(* A stretch has no smaller amplitude than one inside it.                  *)
LEMMA ValuesOf ==
    ASSUME Step \in Nat \ {0}, NEW w \in Seq(Int), NEW a \in Int, NEW b \in Int, 0 <= a, a <= b, b <= TimeOf(Len(w))
    PROVE  LET values == {Value(w, x) : x \in Breakpoints(w, a, b)} IN
           /\ values \in SUBSET Int /\ IsFiniteSet(values) /\ values # {}
           /\ \A x \in Breakpoints(w, a, b) : x \in Int /\ a <= x /\ x <= b
<1> DEFINE points == Breakpoints(w, a, b)
           values == {Value(w, x) : x \in points}
<1>1. Len(w) \in Nat /\ DOMAIN w = 1 .. Len(w) /\ TimeOf(Len(w)) \in Int /\ \A i \in 1 .. Len(w) : TimeOf(i) \in Int
  <2>1. Len(w) \in Nat /\ DOMAIN w = 1 .. Len(w) /\ Len(w) \in Int /\ \A i \in 1 .. Len(w) : i \in Int
    OBVIOUS
  <2>2. QED
    BY <2>1, Instants
<1>2. \A x \in points : x \in Int /\ a <= x /\ x <= b
    BY <1>1 DEF Breakpoints
<1>3. IsFiniteSet(points)
  <2> DEFINE inner == {j \in DOMAIN w : a < TimeOf(j) /\ TimeOf(j) < b}
  <2>1. IsFiniteSet(1 .. Len(w)) /\ inner \in SUBSET (1 .. Len(w))
    BY <1>1, FS_Interval
  <2>2. IsFiniteSet(inner)
    BY <2>1, FS_Subset
  <2> HIDE DEF inner
  <2>3. IsFiniteSet({TimeOf(i) : i \in inner})
    <3> DEFINE f == [i \in inner |-> TimeOf(i)]
    <3>1. f \in Surjection(inner, {TimeOf(i) : i \in inner})
        BY DEF Surjection
    <3>2. QED
        BY <2>2, <3>1, FS_Surjection
  <2>4. IsFiniteSet({a, b})
    <3>1. IsFiniteSet({a}) /\ IsFiniteSet({b}) /\ {a, b} = {a} \cup {b}
        BY FS_Singleton
    <3>2. QED
        BY <3>1, FS_Union
  <2>5. points = {a, b} \cup {TimeOf(i) : i \in inner}
    BY DEF Breakpoints, inner
  <2> DEFINE more == {TimeOf(i) : i \in inner}
             ends == {a, b}
  <2>6. IsFiniteSet(more) /\ IsFiniteSet(ends) /\ points = ends \cup more
    BY <2>3, <2>4, <2>5
  <2> HIDE DEF more, ends, points
  <2>7. QED
    BY <2>6, FS_Union
<1>4. a \in points
    BY DEF Breakpoints
<1> HIDE DEF points
<1>5. IsFiniteSet(values)
  <2> DEFINE f == [x \in points |-> Value(w, x)]
  <2>1. f \in Surjection(points, values)
    BY DEF Surjection
  <2>2. QED
    BY <1>3, <2>1, FS_Surjection
<1>6. \A x \in points : Value(w, x) \in Int
  <2>1. \A x \in points : x \in Int /\ 0 <= x /\ x <= TimeOf(Len(w))
    BY <1>1, <1>2
  <2>2. QED
    BY <2>1, ValueIs
<1>7. QED
    BY <1>2, <1>4, <1>5, <1>6 DEF points

LEMMA Wider ==
    ASSUME Step \in Nat \ {0}, NEW w \in Seq(Int), NEW a \in Int, NEW c \in Int, NEW d \in Int, NEW b \in Int,
           0 <= a, a <= c, c <= d, d <= b, b <= TimeOf(Len(w))
    PROVE  /\ PeakToPeak(w, a, b) \in Int /\ PeakToPeak(w, c, d) \in Int
           /\ PeakToPeak(w, c, d) <= PeakToPeak(w, a, b)
<1> DEFINE outer == {Value(w, x) : x \in Breakpoints(w, a, b)}
           inner == {Value(w, x) : x \in Breakpoints(w, c, d)}
<1>1. Len(w) \in Nat /\ TimeOf(Len(w)) \in Int /\ 0 <= c /\ a <= b /\ d <= TimeOf(Len(w))
  <2>1. Len(w) \in Nat /\ Len(w) \in Int
    OBVIOUS
  <2>2. TimeOf(Len(w)) \in Int
    BY <2>1, Instants
  <2>3. QED
    BY <2>1, <2>2
<1>2. outer \in SUBSET Int /\ IsFiniteSet(outer) /\ outer # {}
    BY <1>1, ValuesOf
<1>3. /\ inner \in SUBSET Int /\ IsFiniteSet(inner) /\ inner # {}
      /\ \A x \in Breakpoints(w, c, d) : x \in Int /\ c <= x /\ x <= d
    BY <1>1, ValuesOf
<1>4. \A v \in inner : \E l, u \in outer : l <= v /\ v <= u
  <2> SUFFICES ASSUME NEW x \in Breakpoints(w, c, d)
               PROVE  \E l, u \in outer : l <= Value(w, x) /\ Value(w, x) <= u
    OBVIOUS
  <2>1. x \in Int /\ a <= x /\ x <= b
    BY <1>3
  <2>2. PICK p, q \in Breakpoints(w, a, b) : Value(w, p) <= Value(w, x) /\ Value(w, x) <= Value(w, q)
    BY <2>1, BetweenPoints
  <2>3. QED
    BY <2>2
<1>5. PeakToPeak(w, a, b) = Max(outer) - Min(outer) /\ PeakToPeak(w, c, d) = Max(inner) - Min(inner)
    BY DEF PeakToPeak
<1> HIDE DEF outer, inner
<1>6. /\ Max(outer) \in Int /\ (\A x \in outer : x <= Max(outer))
      /\ Min(outer) \in Int /\ \A x \in outer : Min(outer) <= x
    BY <1>2, MaxMin
<1>7. Max(inner) \in inner /\ Min(inner) \in inner /\ Max(inner) \in Int /\ Min(inner) \in Int
    BY <1>3, MaxMin
<1>8. Max(inner) <= Max(outer)
  <2>1. PICK u \in outer : Max(inner) <= u
    BY <1>4, <1>7
  <2>2. u \in Int /\ u <= Max(outer)
    BY <1>2, <1>6
  <2>3. QED
    BY <1>6, <1>7, <2>1, <2>2
<1>9. Min(outer) <= Min(inner)
  <2>1. PICK l \in outer : l <= Min(inner)
    BY <1>4, <1>7
  <2>2. l \in Int /\ Min(outer) <= l
    BY <1>2, <1>6
  <2>3. QED
    BY <1>6, <1>7, <2>1, <2>2
<1>10. QED
    BY <1>5, <1>6, <1>7, <1>8, <1>9

-----------------------------------------------------------------------------
LEMMA Divided ==
    ASSUME NEW n \in Nat, NEW d \in Nat \ {0}
    PROVE  n = d * (n \div d) + (n % d) /\ n \div d \in Nat /\ n % d \in Nat /\ n % d < d
<1>1. n = d * (n \div d) + (n % d) /\ n \div d \in Nat
    OBVIOUS
<1>2. n % d \in Nat /\ n % d < d
    OBVIOUS
<1>3. QED
    BY <1>1, <1>2

(* A period within five percent of the others, and the mean of all.        *)
LEMMA ShortPeriod ==
    ASSUME NEW p \in Nat, NEW n \in Nat \ {0}, NEW total \in Nat, 20 * (p * n - total) <= total
    PROVE  total \div n \in Nat /\ 20 * p <= 21 * (total \div n) + 20
<1> DEFINE mean == total \div n
<1>1. total = n * mean + (total % n) /\ mean \in Nat /\ total % n \in Nat /\ total % n < n
    BY Divided, ZenonT(30)
<1> HIDE DEF mean
<1> DEFINE x == 20 * p
           y == 21 * mean + 21
<1>2. n * x = 20 * (p * n) /\ p * n \in Int /\ n * mean \in Int
    BY <1>1
<1>3. n * y = 21 * (n * mean) + 21 * n
    BY <1>1
<1>4. n * x < n * y
    BY <1>1, <1>2, <1>3
<1>5. x \in Int /\ y \in Int
    BY <1>1
<1> HIDE DEF x, y
<1>6. x < y
  <2> SUFFICES ASSUME y <= x PROVE FALSE
    BY <1>5
  <2>1. x - y \in Nat
    BY <1>5
  <2>2. n * (x - y) \in Nat /\ n * (x - y) = n * x - n * y /\ n * x \in Int /\ n * y \in Int
    BY <1>5, <2>1
  <2>3. QED
    BY <1>4, <2>2
<1>7. QED
    BY <1>1, <1>6 DEF x, y, mean

LEMMA MeanIsLong ==
    ASSUME NEW n \in Nat \ {0}, NEW total \in Nat, NEW s \in Nat, n * s <= total
    PROVE  s <= total \div n
<1> DEFINE mean == total \div n
<1>1. total = n * mean + (total % n) /\ mean \in Nat /\ total % n \in Nat /\ total % n < n
    BY Divided, ZenonT(30)
<1> HIDE DEF mean
<1>2. SUFFICES ASSUME mean + 1 <= s PROVE FALSE
    BY <1>1 DEF mean
<1>3. s - (mean + 1) \in Nat
    BY <1>1, <1>2
<1>4. n * (s - (mean + 1)) \in Nat /\ n * (s - (mean + 1)) = n * s - n * mean - n /\ n * s \in Int /\ n * mean \in Int
    BY <1>1, <1>3
<1>5. QED
    BY <1>1, <1>4

(* Every stretch of 2.2 mean periods has a whole cycle in it.              *)
LEMMA CycleInside ==
    ASSUME NEW n \in Nat \ {0}, NEW late \in Seq(Int), Len(late) = n + 1, NEW mean \in Nat, mean >= 100,
           NEW start \in Int, NEW stop \in Int, start <= late[1], late[n + 1] <= stop,
           \A k \in 1 .. n : 20 * (late[k + 1] - late[k]) <= 21 * mean + 20,
           late[1] - start <= mean, 10 * (stop - late[n + 1]) <= 11 * mean,
           NEW at \in Int, start <= at, at + (22 * mean) \div 10 <= stop
    PROVE  \E k \in 1 .. n : at <= late[k] /\ late[k + 1] <= at + (22 * mean) \div 10
<1> DEFINE D == (22 * mean) \div 10
           K == {j \in 1 .. n + 1 : late[j] >= at}
           k == Least(K)
<1>1. D \in Nat /\ 10 * D >= 22 * mean - 9
    OBVIOUS
<1> HIDE DEF D
<1>2. /\ \A j \in 1 .. n + 1 : late[j] \in Int
      /\ n + 1 \in 1 .. n + 1 /\ n \in 1 .. n /\ 1 \in 1 .. n /\ 1 \in 1 .. n + 1
  <2>1. \A j \in 1 .. Len(late) : late[j] \in Int
    OBVIOUS
  <2>2. QED
    BY <2>1
<1>3. at + D <= stop
    BY DEF D
<1>4. late[n + 1] >= at
  <2>1. late[n + 1] \in Int
    BY <1>2
  <2>2. \A e \in Int : 10 * (stop - e) <= 11 * mean => e >= at
    BY <1>1, <1>3
  <2>3. QED
    BY <2>1, <2>2
<1>5. K \in SUBSET Nat /\ K # {}
  <2>1. n + 1 \in K
    BY <1>2, <1>4
  <2>2. \A j \in 1 .. n + 1 : j \in Nat
    OBVIOUS
  <2>3. QED
    BY <2>1, <2>2
<1>6. k \in K /\ \A j \in K : k <= j
    BY <1>5, LeastIndex
<1> HIDE DEF k
<1>7. k \in 1 .. n + 1 /\ late[k] >= at /\ k \in Int
    BY <1>6
<1>8. k > 1 => k - 1 \in 1 .. n /\ late[k - 1] < at /\ late[k - 1] \in Int /\ (k - 1) + 1 = k
  <2> SUFFICES ASSUME k > 1 PROVE k - 1 \in 1 .. n /\ late[k - 1] < at /\ late[k - 1] \in Int /\ (k - 1) + 1 = k
    OBVIOUS
  <2>1. k - 1 \in 1 .. n /\ k - 1 \in 1 .. n + 1 /\ ~(k <= k - 1) /\ (k - 1) + 1 = k
    BY <1>7
  <2>2. k - 1 \notin K
    BY <1>6, <2>1
  <2>3. late[k - 1] \in Int /\ ~(late[k - 1] >= at)
    BY <1>2, <2>1, <2>2
  <2>4. QED
    BY <2>1, <2>3
<1>9. \A j \in 1 .. n : 20 * (late[j + 1] - late[j]) <= 21 * mean + 20
    OBVIOUS
<1>10. k > 1 => 20 * (late[k] - late[k - 1]) <= 21 * mean + 20
    BY <1>8, <1>9
<1>11. late[k] \in Int
    BY <1>2, <1>7
<1>12. k # n + 1
  <2> SUFFICES ASSUME k = n + 1 PROVE FALSE
    OBVIOUS
  <2>1. k > 1 /\ late[k] <= stop /\ 10 * (stop - late[k]) <= 11 * mean
    OBVIOUS
  <2>2. 20 * (late[k] - late[k - 1]) <= 21 * mean + 20 /\ late[k - 1] < at /\ late[k - 1] \in Int
    BY <1>8, <1>10, <2>1
  <2>3. \A e, f \in Int : 10 * (stop - e) <= 11 * mean /\ 20 * (e - f) <= 21 * mean + 20 => at <= f
    BY <1>1, <1>3
  <2>4. at <= late[k - 1]
    BY <1>11, <2>1, <2>2, <2>3
  <2>5. QED
    BY <2>2, <2>4
<1>13. k \in 1 .. n /\ late[k + 1] \in Int /\ 20 * (late[k + 1] - late[k]) <= 21 * mean + 20
  <2>1. k \in 1 .. n /\ k + 1 \in 1 .. n + 1
    BY <1>7, <1>12
  <2>2. QED
    BY <1>2, <1>9, <2>1
<1>14. late[k + 1] <= at + D
  <2>1. CASE k = 1
    <3>1. late[k] - start <= mean
        BY <2>1
    <3>2. \A e, f \in Int : e - start <= mean /\ 20 * (f - e) <= 21 * mean + 20 => f <= at + D
        BY <1>1
    <3>3. QED
        BY <1>11, <1>13, <3>1, <3>2
  <2>2. CASE k > 1
    <3>1. 20 * (late[k] - late[k - 1]) <= 21 * mean + 20 /\ late[k - 1] < at /\ late[k - 1] \in Int
        BY <1>8, <1>10, <2>2
    <3>2. \A d, e, f \in Int : d < at /\ 20 * (e - d) <= 21 * mean + 20 /\ 20 * (f - e) <= 21 * mean + 20 => f <= at + D
        BY <1>1
    <3>3. QED
        BY <1>11, <1>13, <3>1, <3>2
  <2>3. QED
    BY <1>7, <2>1, <2>2
<1>15. QED
    BY <1>7, <1>13, <1>14 DEF D

(* The late crossings are the last ones, from the first of the window on.  *)
LEMMA LateIs ==
    ASSUME Step \in Nat \ {0}, NEW all \in Seq(Int), Spaced(all), NEW from \in Int
    PROVE  /\ LateOf(all, from) \in Seq(Int) /\ Spaced(LateOf(all, from)) /\ Len(LateOf(all, from)) <= Len(all)
           /\ \A k \in 1 .. Len(LateOf(all, from)) :
                 from <= LateOf(all, from)[k] /\ \E j \in 1 .. Len(all) : LateOf(all, from)[k] = all[j]
<1> DEFINE S == {k \in DOMAIN all : all[k] >= from} \cup {Len(all) + 1}
           m == Min(S)
           late == LateOf(all, from)
<1>1. Len(all) \in Nat /\ DOMAIN all = 1 .. Len(all) /\ \A k \in 1 .. Len(all) : all[k] \in Int
    OBVIOUS
<1>2. S \in SUBSET (1 .. Len(all) + 1) /\ S # {}
    BY <1>1
<1>3. IsFiniteSet(S) /\ S \in SUBSET Int
  <2>1. IsFiniteSet(1 .. Len(all) + 1)
    BY <1>1, FS_Interval
  <2>2. QED
    BY <1>2, <2>1, FS_Subset
<1>4. m \in S /\ \A x \in S : m <= x
    BY <1>2, <1>3, MaxMin
<1>5. late = SubSeq(all, m, Len(all))
    BY DEF LateOf
<1> HIDE DEF m, late
<1>6. m \in 1 .. Len(all) + 1 /\ (m \in 1 .. Len(all) => all[m] >= from)
  <2>1. m \in 1 .. Len(all) + 1
    BY <1>2, <1>4
  <2>2. m \in 1 .. Len(all) => all[m] >= from
    BY <1>1, <1>4
  <2>3. QED
    BY <2>1, <2>2
<1>7. /\ late \in Seq(Int) /\ Len(late) = Len(all) + 1 - m
      /\ \A k \in 1 .. Len(all) + 1 - m : late[k] = all[m + k - 1]
  <2>1. SubSeq(all, m, Len(all)) = [k \in 1 .. Len(all) + 1 - m |-> all[m + k - 1]]
    <3>1. SubSeq(all, m, Len(all)) = [k \in 1 .. (1 + Len(all) - m) |-> all[k + m - 1]]
        BY <1>1, <1>6
    <3>2. 1 + Len(all) - m = Len(all) + 1 - m /\ \A k \in Int : k + m - 1 = m + k - 1
        BY <1>1, <1>6
    <3>3. QED
        <4>1. \A k \in 1 .. Len(all) + 1 - m : k + m - 1 = m + k - 1
            BY <1>1, <1>6
        <4>2. QED
            BY <3>1, <3>2, <4>1
  <2>2. \A k \in 1 .. Len(all) + 1 - m : m + k - 1 \in 1 .. Len(all)
    BY <1>1, <1>6
  <2>3. Len(all) + 1 - m \in Nat
    BY <1>1, <1>6
  <2>4. \A k \in 1 .. Len(all) + 1 - m : all[m + k - 1] \in Int
    BY <1>1, <2>2
  <2>5. late = [k \in 1 .. Len(all) + 1 - m |-> all[m + k - 1]]
    BY <1>5, <2>1
  <2>6. QED
    BY <2>3, <2>4, <2>5
<1>8. ASSUME NEW k \in 1 .. Len(late)
      PROVE  m + k - 1 \in 1 .. Len(all) /\ late[k] = all[m + k - 1] /\ m \in 1 .. Len(all) /\ k \in Int
    BY <1>1, <1>6, <1>7
<1>9. ASSUME NEW k \in 1 .. Len(late) PROVE from <= late[k]
  <2>1. m + k - 1 \in 1 .. Len(all) /\ late[k] = all[m + k - 1] /\ m \in 1 .. Len(all) /\ k \in Int
    BY <1>8
  <2> DEFINE j == m + k - 1
  <2>2. j = m \/ m < j
    BY <1>7, <2>1
  <2>3. all[m] \in Int /\ all[j] \in Int /\ all[m] >= from
    BY <1>1, <1>6, <2>1
  <2> HIDE DEF j
  <2>4. m < j => all[m] + Step <= all[j]
    BY <2>1 DEF Spaced, j
  <2>5. late[k] = all[j]
    BY <2>1 DEF j
  <2>6. QED
    BY <2>2, <2>3, <2>4, <2>5
<1>10. Spaced(late)
  <2> SUFFICES ASSUME NEW a \in 1 .. Len(late), NEW b \in 1 .. Len(late), a < b PROVE late[a] + Step <= late[b]
    BY DEF Spaced
  <2>1. m + a - 1 \in 1 .. Len(all) /\ late[a] = all[m + a - 1]
    BY <1>8
  <2>2. m + b - 1 \in 1 .. Len(all) /\ late[b] = all[m + b - 1]
    BY <1>8
  <2>3. m + a - 1 < m + b - 1
    BY <1>6, <1>7
  <2>4. QED
    BY <2>1, <2>2, <2>3 DEF Spaced
<1>11. Len(late) <= Len(all)
    BY <1>1, <1>6, <1>7
<1>12. \A k \in 1 .. Len(late) : \E j \in 1 .. Len(all) : late[k] = all[j]
    BY <1>8
<1>13. QED
    BY <1>7, <1>9, <1>10, <1>11, <1>12 DEF late

(* A recursive sum of differences is the difference of the ends.           *)
LEMMA Differences ==
    ASSUME NEW n \in Nat, NEW c \in Seq(Int), Len(c) = n + 1, NEW q \in Seq(Int), Len(q) = n,
           \A k \in 1 .. n : q[k] = c[k + 1] - c[k]
    PROVE  Total(q) = c[n + 1] - c[1]
<1> DEFINE Sums(f) == f = [k \in 0 .. n |-> IF k = 0 THEN 0 ELSE f[k - 1] + q[k]]
           sum     == CHOOSE f : Sums(f)
           g       == [k \in 0 .. n |-> c[k + 1] - c[1]]
<1>1. \A k \in 1 .. n + 1 : c[k] \in Int
    OBVIOUS
<1>2. Sums(g)
  <2>1. ASSUME NEW k \in 0 .. n PROVE g[k] = IF k = 0 THEN 0 ELSE g[k - 1] + q[k]
    <3>1. CASE k = 0
        <4>1. c[1] \in Int /\ k + 1 = 1
            BY <1>1, <3>1
        <4>2. g[k] = c[1] - c[1]
            BY <4>1
        <4>3. g[k] = 0
            BY <4>1, <4>2
        <4>4. QED
            BY <3>1, <4>3
    <3>2. CASE k # 0
        <4>1. k - 1 \in 0 .. n /\ (k - 1) + 1 = k /\ k \in 1 .. n /\ k + 1 \in 1 .. n + 1 /\ k \in 1 .. n + 1 /\ 1 \in 1 .. n + 1
            BY <3>2
        <4>2. g[k] = c[k + 1] - c[1] /\ g[k - 1] = c[k] - c[1] /\ q[k] = c[k + 1] - c[k]
            BY <4>1
        <4> HIDE DEF g
        <4>3. c[k + 1] \in Int /\ c[k] \in Int /\ c[1] \in Int
            BY <1>1, <4>1
        <4>4. g[k] = g[k - 1] + q[k]
            BY <4>2, <4>3
        <4>5. QED
            BY <3>2, <4>4
    <3>3. QED
        BY <3>1, <3>2
  <2>2. g = [k \in 0 .. n |-> g[k]]
    OBVIOUS
  <2> HIDE DEF g
  <2>3. QED
    BY <2>1, <2>2
<1>3. Sums(sum)
  <2> HIDE DEF Sums, g
  <2>1. QED
    BY <1>2
<1>4. Total(q) = sum[n]
    BY DEF Total
<1> HIDE DEF sum
<1>5. \A k \in 0 .. n : sum[k] = IF k = 0 THEN 0 ELSE sum[k - 1] + q[k]
    BY <1>3
<1> DEFINE bad   == {k \in 0 .. n : sum[k] # c[k + 1] - c[1]}
           least == Least(bad)
<1>6. bad = {}
  <2> SUFFICES ASSUME bad # {} PROVE FALSE
    OBVIOUS
  <2>1. bad \in SUBSET Nat
    OBVIOUS
  <2>2. least \in bad /\ \A k \in bad : least <= k
    BY <2>1, LeastIndex
  <2> HIDE DEF least
  <2>3. least \in 0 .. n /\ sum[least] # c[least + 1] - c[1]
    BY <2>2
  <2>4. least # 0
    <3> SUFFICES ASSUME least = 0 PROVE FALSE
        OBVIOUS
    <3>1. sum[least] = 0 /\ least + 1 = 1 /\ c[1] \in Int
        BY <1>1, <1>5
    <3>2. c[1] - c[1] = 0
        BY <3>1
    <3>3. QED
        BY <2>3, <3>1, <3>2
  <2> DEFINE k == least - 1
  <2>5. k \in 0 .. n /\ k + 1 = least /\ ~(least <= k) /\ least \in 1 .. n /\ least + 1 \in 1 .. n + 1 /\ least \in 1 .. n + 1 /\ 1 \in 1 .. n + 1
    BY <2>3, <2>4
  <2>6. sum[least] = sum[k] + q[least]
    BY <1>5, <2>3, <2>4
  <2> HIDE DEF k
  <2>7. k \notin bad
    BY <2>2, <2>5
  <2>8. sum[k] = c[least] - c[1] /\ q[least] = c[least + 1] - c[least]
    BY <2>5, <2>7
  <2>9. c[least] \in Int /\ c[1] \in Int /\ c[least + 1] \in Int
    BY <1>1, <2>5
  <2>10. sum[least] = c[least + 1] - c[1]
    BY <2>6, <2>8, <2>9
  <2>11. QED
    BY <2>3, <2>10
<1>7. n \in 0 .. n
    OBVIOUS
<1>8. QED
    BY <1>4, <1>6, <1>7

LEMMA CyclesOf ==
    ASSUME NEW w \in Seq(Int), NEW n \in Nat, NEW c \in Seq(Int), Len(c) = n + 1
    PROVE  /\ DOMAIN Cycles(w, c) = 1 .. n
           /\ \A k \in 1 .. n : /\ Cycles(w, c)[k].amplitude = PeakToPeak(w, c[k], c[k + 1])
                               /\ Cycles(w, c)[k].period = c[k + 1] - c[k]
<1>1. DOMAIN Cycles(w, c) = 1 .. n /\ Len(c) - 1 = n
    BY DEF Cycles
<1>2. ASSUME NEW k \in 1 .. n
      PROVE  /\ Cycles(w, c)[k].amplitude = PeakToPeak(w, c[k], c[k + 1])
             /\ Cycles(w, c)[k].period = c[k + 1] - c[k]
  <2>1. Cycles(w, c)[k] = [period    |-> c[k + 1] - c[k],
                           amplitude |-> PeakToPeak(w, c[k], c[k + 1]),
                           samples   |-> Cardinality(Breakpoints(w, c[k], c[k + 1]))]
    BY <1>1 DEF Cycles
  <2>2. QED
    BY <2>1
<1>3. QED
    BY <1>1, <1>2

(* The periods, and how far each may be from their mean.                   *)
LEMMA PeriodsOf ==
    ASSUME NEW w \in Seq(Int), NEW n \in Nat, NEW c \in Seq(Int), Len(c) = n + 1
    PROVE  LET q == Field(Cycles(w, c), "period") IN
           /\ q \in Seq(Int) /\ Len(q) = n /\ Total(q) = c[n + 1] - c[1]
           /\ \A k \in 1 .. n : q[k] = c[k + 1] - c[k]
<1> DEFINE q == Field(Cycles(w, c), "period")
<1>1. \A k \in 1 .. n + 1 : c[k] \in Int
    OBVIOUS
<1>2. DOMAIN Cycles(w, c) = 1 .. n /\ \A k \in 1 .. n : Cycles(w, c)[k].period = c[k + 1] - c[k]
    BY CyclesOf
<1>3. q = [k \in 1 .. n |-> c[k + 1] - c[k]]
    BY <1>2 DEF Field
<1>4. \A k \in 1 .. n : c[k + 1] - c[k] \in Int /\ q[k] = c[k + 1] - c[k]
  <2>1. \A k \in 1 .. n : k \in 1 .. n + 1 /\ k + 1 \in 1 .. n + 1
    OBVIOUS
  <2>2. QED
    BY <1>1, <1>3, <2>1
<1> HIDE DEF q
<1>5. q \in Seq(Int) /\ Len(q) = n
    BY <1>3, <1>4
<1>6. Total(q) = c[n + 1] - c[1]
    BY <1>4, <1>5, Differences
<1>7. QED
    BY <1>4, <1>5, <1>6 DEF q

LEMMA DeviationBounds ==
    ASSUME NEW n \in Nat \ {0}, NEW q \in Seq(Int), Len(q) = n, Total(q) \in Nat, NEW percent \in 0 .. 5,
           Tolerated(Deviation(q), percent), NEW k \in 1 .. n
    PROVE  20 * (q[k] * n - Total(q)) <= Total(q)
<1> DEFINE S == {Size(q[j] * Len(q) - Total(q)) : j \in DOMAIN q}
           total == Total(q)
<1>1. DOMAIN q = 1 .. n /\ \A j \in 1 .. n : q[j] \in Int
    OBVIOUS
<1>2. Deviation(q).num = Max(S) /\ Deviation(q).den = total
    BY DEF Deviation
<1> HIDE DEF total
<1>3. Max(S) * 100 <= percent * total
    BY <1>2 DEF Tolerated
<1>4. \A j \in 1 .. n : q[j] * n - total \in Int
  <2>1. \A a, b \in Int : a * b \in Int
    OBVIOUS
  <2>2. \A j \in 1 .. n : q[j] * n \in Int
    BY <1>1, <2>1
  <2>3. QED
    BY <2>2 DEF total
<1>5. S = {Size(q[j] * n - total) : j \in 1 .. n}
    BY <1>1 DEF total
<1> HIDE DEF S
<1>6. S \in SUBSET Nat /\ S # {} /\ IsFiniteSet(S)
  <2>1. \A j \in 1 .. n : Size(q[j] * n - total) \in Nat
    BY <1>4 DEF Size
  <2> DEFINE f == [j \in 1 .. n |-> Size(q[j] * n - total)]
  <2>2. f \in Surjection(1 .. n, S)
    BY <1>5 DEF Surjection
  <2>3. IsFiniteSet(1 .. n)
    BY FS_Interval
  <2>4. IsFiniteSet(S)
    BY <2>2, <2>3, FS_Surjection
  <2>5. QED
    BY <1>5, <2>1, <2>4
<1>7. Max(S) \in Nat /\ \A x \in S : x <= Max(S)
  <2>1. S \in SUBSET Int
    BY <1>6
  <2>2. QED
    BY <1>6, <2>1, MaxMin
<1> DEFINE d == q[k] * n - total
<1>8. d \in Int
    BY <1>4
<1>9. Size(d) <= Max(S)
    BY <1>5, <1>7
<1> HIDE DEF d
<1>10. Size(d) \in Nat /\ d <= Size(d)
    BY <1>8 DEF Size
<1> DEFINE most == Max(S)
<1>11. d <= most /\ most \in Nat /\ most * 100 <= percent * total
    BY <1>3, <1>7, <1>8, <1>9, <1>10
<1> HIDE DEF most
<1>12. total \in Nat
    BY DEF total
<1>13. percent * total <= 5 * total /\ percent * total \in Int
    BY <1>12
<1>14. 20 * d <= total
    BY <1>8, <1>11, <1>12, <1>13
<1>15. QED
    BY <1>14 DEF d, total

LEMMA OfTwo ==
    ASSUME NEW a \in Int, NEW b \in Int
    PROVE  /\ a >= b => Max({a, b}) = a /\ Min({a, b}) = b
           /\ b >= a => Max({a, b}) = b /\ Min({a, b}) = a
<1> DEFINE S == {a, b}
<1>1. S \in SUBSET Int /\ S # {} /\ IsFiniteSet(S)
  <2>1. IsFiniteSet({a}) /\ IsFiniteSet({b}) /\ S = {a} \cup {b}
    BY FS_Singleton
  <2>2. QED
    BY <2>1, FS_Union
<1>2. Max(S) \in S /\ (\A x \in S : x <= Max(S)) /\ Min(S) \in S /\ (\A x \in S : Min(S) <= x)
  <2> HIDE DEF S
  <2>1. QED
    BY <1>1, MaxMin
<1>3. /\ (Max(S) = a \/ Max(S) = b) /\ a <= Max(S) /\ b <= Max(S)
      /\ (Min(S) = a \/ Min(S) = b) /\ Min(S) <= a /\ Min(S) <= b
    BY <1>2
<1>4. QED
    BY <1>3

LEMMA Apart ==
    ASSUME Step \in Nat \ {0}, NEW c \in Seq(Int), Spaced(c), NEW n \in Nat, Len(c) = n + 1
    PROVE  n * Step <= c[n + 1] - c[1] /\ c[n + 1] - c[1] \in Nat
<1> DEFINE bad   == {k \in 0 .. n : ~(k * Step <= c[k + 1] - c[1])}
           least == Least(bad)
<1>1. \A k \in 1 .. n + 1 : c[k] \in Int
    OBVIOUS
<1>2. bad = {}
  <2> SUFFICES ASSUME bad # {} PROVE FALSE
    OBVIOUS
  <2>1. bad \in SUBSET Nat
    OBVIOUS
  <2>2. least \in bad /\ \A k \in bad : least <= k
    BY <2>1, LeastIndex
  <2> HIDE DEF least
  <2>3. least \in 0 .. n /\ ~(least * Step <= c[least + 1] - c[1])
    BY <2>2
  <2>4. least # 0
    <3> SUFFICES ASSUME least = 0 PROVE FALSE
        OBVIOUS
    <3>1. least * Step = 0 /\ c[least + 1] - c[1] = 0
        BY <1>1
    <3>2. QED
        BY <2>3, <3>1
  <2> DEFINE k == least - 1
  <2>5. /\ k \in 0 .. n /\ k + 1 = least /\ ~(least <= k)
        /\ least \in 1 .. n + 1 /\ least + 1 \in 1 .. n + 1 /\ 1 \in 1 .. n + 1 /\ least < least + 1
    BY <2>3, <2>4
  <2> HIDE DEF k
  <2>6. k * Step <= c[least] - c[1]
    <3>1. k \notin bad
        BY <2>2, <2>5
    <3>2. QED
        BY <2>5, <3>1
  <2>7. least * Step = k * Step + Step /\ k * Step \in Int
    BY <2>5
  <2>8. c[least] + Step <= c[least + 1]
    BY <2>5 DEF Spaced
  <2>9. c[least] \in Int /\ c[1] \in Int /\ c[least + 1] \in Int
    BY <1>1, <2>5
  <2> DEFINE ks == k * Step
  <2>10. least * Step = ks + Step /\ ks <= c[least] - c[1] /\ ks \in Int
    BY <2>6, <2>7
  <2> HIDE DEF ks
  <2>11. least * Step <= c[least + 1] - c[1]
    <3>1. \A x, y, u, v \in Int : x <= y - v /\ y + Step <= u => x + Step <= u - v
        OBVIOUS
    <3>2. QED
        BY <2>8, <2>9, <2>10, <3>1
  <2>12. QED
    BY <2>3, <2>11
<1>3. n * Step <= c[n + 1] - c[1]
  <2>1. n \in 0 .. n
    OBVIOUS
  <2>2. QED
    BY <1>2, <2>1
<1>4. n * Step \in Nat /\ c[n + 1] - c[1] \in Int
  <2>1. \A a, b \in Nat : a * b \in Nat
    OBVIOUS
  <2>2. 1 \in 1 .. n + 1 /\ n + 1 \in 1 .. n + 1
    OBVIOUS
  <2>3. c[1] \in Int /\ c[n + 1] \in Int
    BY <1>1, <2>2
  <2>4. QED
    BY <2>1, <2>3
<1> DEFINE a == n * Step
           b == c[n + 1] - c[1]
<1>5. a <= b /\ a \in Nat /\ b \in Int
    BY <1>3, <1>4
<1> HIDE DEF a, b
<1>6. b \in Nat
    BY <1>5
<1>7. QED
    BY <1>3, <1>6 DEF b

(* A start is a crossing with three more after it.                         *)
LEMMA StartedIs ==
    ASSUME NEW w, NEW c \in Seq(Int), NEW r, Started(c, Cycles(w, c), r) # NoTime
    PROVE  \E k \in 1 .. Len(c) : k + 3 <= Len(c) /\ Started(c, Cycles(w, c), r) = c[k]
<1> DEFINE cycles == Cycles(w, c)
           tree   == Tree(cycles)
           end(k) == HoldEnd(c, k, r.hold)
           holds  == {k \in 1 .. Len(cycles) - 2 :
                        /\ end(k) <= Len(c)
                        /\ Even(OverRange(tree, TreeSize(cycles), k - 1, end(k) - 1), c[end(k)] - c[k], r)}
<1>1. Len(c) \in Nat /\ DOMAIN c = 1 .. Len(c)
    OBVIOUS
<1>2. Started(c, cycles, r) = IF Len(c) < 2 \/ ~Active(cycles, r) \/ holds = {} THEN NoTime ELSE c[Min(holds)]
    BY DEF Started
<1>3. ~(Len(c) < 2) /\ holds # {} /\ Started(c, cycles, r) = c[Min(holds)]
    BY <1>2
<1>4. Len(cycles) = Len(c) - 1
  <2>1. Len(c) - 1 \in Nat
    BY <1>1, <1>3
  <2>2. QED
    BY <2>1 DEF Cycles
<1>5. holds \in SUBSET (1 .. Len(c) - 3) /\ \A k \in holds : end(k) <= Len(c)
  <2>1. Len(cycles) - 2 = Len(c) - 3
    BY <1>1, <1>4
  <2>2. holds \in SUBSET (1 .. Len(cycles) - 2)
    OBVIOUS
  <2>3. QED
    BY <2>1, <2>2
<1> HIDE DEF holds
<1>6. holds \in SUBSET Int /\ IsFiniteSet(holds)
  <2>1. IsFiniteSet(1 .. Len(c) - 3)
    BY <1>1, FS_Interval
  <2>2. \A k \in 1 .. Len(c) - 3 : k \in Int
    BY <1>1
  <2>3. QED
    BY <1>5, <2>1, <2>2, FS_Subset
<1>7. Min(holds) \in 1 .. Len(c) - 3
    BY <1>3, <1>5, <1>6, MaxMin
<1>8. QED
    BY <1>1, <1>3, <1>7

LEMMA FlagsSay ==
    ASSUME NEW r, NEW view, NEW late, NEW lates
    PROVE  LET flags == Flags(r, view, late, lates) IN
           /\ "late_crossings_insufficient" \notin flags => ~(Len(late) < r.cycles + 1)
           /\ "amplitude_below_minimum" \notin flags /\ view.seen /\ Len(late) >= 2 =>
                 \A k \in DOMAIN lates : ~(lates[k].amplitude < r.minimum * Step)
           /\ "period_inconsistent" \notin flags /\ ~(Len(late) < 2) =>
                 Tolerated(Deviation(Field(lates, "period")), r.periodDeviation)
<1> DEFINE flags == Flags(r, view, late, lates)
           few   == Len(late) < r.cycles + 1
           faded == Len(late) >= 2 /\ \E k \in DOMAIN lates : lates[k].amplitude < r.minimum * Step
           low   == view.seen /\ (faded \/ view.amplitude < r.minimum * Step)
           even  == Tolerated(Deviation(Field(lates, "period")), r.periodDeviation)
<1>1. Flag("late_crossings_insufficient", few) \subseteq flags
    BY DEF Flags
<1>2. Flag("amplitude_below_minimum", low) \subseteq flags
    BY DEF Flags
<1>3. ~(Len(late) < 2) => Flag("period_inconsistent", ~even) \subseteq flags
    BY DEF Flags
<1>4. ASSUME NEW name, NEW holds, Flag(name, holds) \subseteq flags, name \notin flags PROVE ~holds
    BY <1>4 DEF Flag
<1> HIDE DEF flags, few, low, even
<1>5. "late_crossings_insufficient" \notin flags => ~few
    BY <1>1, <1>4
<1>6. "amplitude_below_minimum" \notin flags => ~low
    BY <1>2, <1>4
<1>7. "period_inconsistent" \notin flags /\ ~(Len(late) < 2) => even
    BY <1>3, <1>4
<1>8. ~low /\ view.seen => ~faded
    BY DEF low
<1>9. QED
    BY <1>5, <1>6, <1>7, <1>8 DEF flags, few, even

LEMMA VerdictSays ==
    ASSUME NEW r, NEW started, NEW active, NEW view, NEW late, NEW flags, NEW failures
    PROVE  LET verdict == TransientVerdict(r, started, active, view, late, flags, failures) IN
           /\ verdict = "sustained" =>
                /\ started # NoTime /\ ~(started > r.start) /\ view.leading /\ view.trailing
                /\ "late_crossings_insufficient" \notin flags /\ "amplitude_below_minimum" \notin flags
                /\ "period_inconsistent" \notin flags
           /\ verdict = "collapsed" => started # NoTime /\ failures # {}
           /\ verdict = "never_started" => ~active
    BY DEF TransientVerdict

(* What result.oscillator.measure computes on its way to a verdict.        *)
LateFor(w, r)    == LateOf(CrossingsOf(w, r), r.start)
StartFor(w, r)   == Started(CrossingsOf(w, r), Cycles(w, CrossingsOf(w, r)), r)
ViewFor(w, r)    == LateView(w, r, CrossingsOf(w, r), Cycles(w, CrossingsOf(w, r)), LateFor(w, r))
FlagsFor(w, r)   == Flags(r, ViewFor(w, r), LateFor(w, r), Cycles(w, LateFor(w, r)))
FailedFor(w, r)  == Failures(r, StartFor(w, r), ViewFor(w, r), LateFor(w, r), Cycles(w, LateFor(w, r)))
StatusFor(w, r)  ==
    TransientVerdict(r, StartFor(w, r), Active(Cycles(w, CrossingsOf(w, r)), r), ViewFor(w, r), LateFor(w, r),
                     FlagsFor(w, r), FailedFor(w, r))
LEMMA AnswerIs ==
    ASSUME NEW w, NEW r, TransientRequestFits(r), WindowFits(w, r)
    PROVE  LET m == MeasureTransient(w, r) IN
           /\ m.status = StatusFor(w, r) /\ m.crossings = LateFor(w, r) /\ m.started = StartFor(w, r)
           /\ m.status = "collapsed" => m.collapse = Min({r.stop, Max({m.started, Min(FailedFor(w, r))})})
<1> DEFINE m == MeasureTransient(w, r)
<1>1. m = Answer(w, r, LateFor(w, r), Cycles(w, LateFor(w, r)), StartFor(w, r), FlagsFor(w, r), FailedFor(w, r), StatusFor(w, r))
    BY DEF MeasureTransient, Transient, OfCrossings, OfCycles, Viewed, Judged, LateFor, StartFor, ViewFor, FlagsFor, FailedFor, StatusFor
<1> HIDE DEF m
<1>2. /\ m.status = StatusFor(w, r) /\ m.crossings = LateFor(w, r) /\ m.started = StartFor(w, r)
      /\ m.collapse = IF StatusFor(w, r) = "collapsed" THEN Min({r.stop, Max({StartFor(w, r), Min(FailedFor(w, r))})}) ELSE NoTime
    BY <1>1 DEF Answer
<1>3. QED
    BY <1>2 DEF m

IntegerRequest(r) ==
    /\ r.search \in Int /\ r.start \in Int /\ r.stop \in Int /\ r.hysteresis \in Int
    /\ r.minimum \in Int /\ r.cycles \in Int

(* What every judgement rests on.                                          *)
LEMMA LateFacts ==
    ASSUME Step \in Nat \ {0}, NEW w \in Seq(Int), NEW r, IntegerRequest(r), TransientRequestFits(r), WindowFits(w, r)
    PROVE  LET late == LateFor(w, r) IN
           /\ late \in Seq(Int) /\ Spaced(late) /\ Len(late) <= Len(CrossingsOf(w, r))
           /\ \A k \in 1 .. Len(late) : late[k] \in Int /\ r.start <= late[k] /\ late[k] <= r.stop
           /\ 0 <= r.start /\ r.start < r.stop /\ r.stop <= TimeOf(Len(w)) /\ TimeOf(Len(w)) \in Int
           /\ CrossingsOf(w, r) \in Seq(Int) /\ Spaced(CrossingsOf(w, r))
           /\ \A a \in 1 .. Len(CrossingsOf(w, r)) :
                 CrossingsOf(w, r)[a] \in Int /\ 0 <= CrossingsOf(w, r)[a] /\ CrossingsOf(w, r)[a] <= r.stop
<1> DEFINE all  == CrossingsOf(w, r)
           late == LateFor(w, r)
<1>1. r.search \in Int /\ r.start \in Int /\ r.stop \in Int /\ r.hysteresis \in Int
    BY DEF IntegerRequest
<1>2. /\ all \in Seq(Int) /\ Spaced(all)
      /\ \A a \in 1 .. Len(all) : r.search <= all[a] /\ all[a] <= r.stop
    BY <1>1, CyclesAreReal
<1>3. late = LateOf(all, r.start)
    BY DEF LateFor
<1>4. 0 <= r.search /\ r.search <= r.start /\ r.start < r.stop /\ r.stop <= TimeOf(Len(w))
    BY DEF TransientRequestFits, WindowFits
<1> HIDE DEF all, late
<1>5. /\ late \in Seq(Int) /\ Spaced(late) /\ Len(late) <= Len(all)
      /\ \A k \in 1 .. Len(late) : r.start <= late[k] /\ \E j \in 1 .. Len(all) : late[k] = all[j]
    BY <1>1, <1>2, <1>3, LateIs
<1>6. \A a \in 1 .. Len(all) : all[a] \in Int /\ r.search <= all[a] /\ 0 <= all[a] /\ all[a] <= r.stop
  <2>1. \A a \in 1 .. Len(all) : all[a] \in Int
    BY <1>2
  <2>2. QED
    BY <1>1, <1>2, <1>4, <2>1
<1>7. \A k \in 1 .. Len(late) : late[k] \in Int /\ r.start <= late[k] /\ late[k] <= r.stop
    BY <1>5, <1>6
<1>8. TimeOf(Len(w)) \in Int
  <2>1. Len(w) \in Int
    OBVIOUS
  <2>2. QED
    BY <2>1, Instants
<1>9. 0 <= r.start
    BY <1>1, <1>4
<1>10. QED
    BY <1>2, <1>4, <1>5, <1>6, <1>7, <1>8, <1>9 DEF all, late

LEMMA SustainedHolds ==
    ASSUME Step \in Nat, Step >= 100, NEW w \in Seq(Int), NEW r, IntegerRequest(r), TransientRequestFits(r), WindowFits(w, r),
           StatusFor(w, r) = "sustained"
    PROVE  LET late == LateFor(w, r)
               mean == (Last(late) - late[1]) \div (Len(late) - 1)
               D    == (22 * mean) \div 10
           IN  /\ StartFor(w, r) <= r.start
               /\ \A at \in Int : r.start <= at /\ at + D <= r.stop => PeakToPeak(w, at, at + D) >= r.minimum * Step
               /\ PeakToPeak(w, Max({r.start, r.stop - D}), r.stop) >= r.minimum * Step
<1> DEFINE late  == LateFor(w, r)
           lates == Cycles(w, late)
           view  == ViewFor(w, r)
           flags == FlagsFor(w, r)
           n     == Len(late) - 1
           total == late[n + 1] - late[1]
           mean  == (Last(late) - late[1]) \div (Len(late) - 1)
           D     == (22 * mean) \div 10
           low   == r.minimum * Step
<1>1. Step \in Nat \ {0}
    OBVIOUS
<1>2. /\ late \in Seq(Int) /\ Spaced(late) /\ Len(late) <= Len(CrossingsOf(w, r))
      /\ \A k \in 1 .. Len(late) : late[k] \in Int /\ r.start <= late[k] /\ late[k] <= r.stop
      /\ 0 <= r.start /\ r.start < r.stop /\ r.stop <= TimeOf(Len(w)) /\ TimeOf(Len(w)) \in Int
      /\ CrossingsOf(w, r) \in Seq(Int) /\ Spaced(CrossingsOf(w, r))
      /\ \A a \in 1 .. Len(CrossingsOf(w, r)) :
            CrossingsOf(w, r)[a] \in Int /\ 0 <= CrossingsOf(w, r)[a] /\ CrossingsOf(w, r)[a] <= r.stop
    BY <1>1, LateFacts
<1>3. r.start \in Int /\ r.stop \in Int /\ r.minimum \in Int /\ r.cycles \in Int /\ low \in Int
  <2>1. r.start \in Int /\ r.stop \in Int /\ r.minimum \in Int /\ r.cycles \in Int
    BY DEF IntegerRequest
  <2>2. \A a, b \in Int : a * b \in Int
    OBVIOUS
  <2>3. QED
    BY <2>1, <2>2
<1>4. r.cycles >= 2 /\ r.periodDeviation \in 0 .. 5
    BY DEF TransientRequestFits
<1>5. /\ StartFor(w, r) # NoTime /\ ~(StartFor(w, r) > r.start) /\ view.leading /\ view.trailing
      /\ "late_crossings_insufficient" \notin flags /\ "amplitude_below_minimum" \notin flags
      /\ "period_inconsistent" \notin flags
    BY VerdictSays DEF StatusFor
<1>6. flags = Flags(r, view, late, lates) /\ view = LateView(w, r, CrossingsOf(w, r), Cycles(w, CrossingsOf(w, r)), late)
    BY DEF FlagsFor, ViewFor
<1> HIDE DEF late, lates, view, flags, low
<1>7. StartFor(w, r) <= r.start
  <2>1. \E k \in 1 .. Len(CrossingsOf(w, r)) : StartFor(w, r) = CrossingsOf(w, r)[k]
    BY <1>2, <1>5, StartedIs DEF StartFor
  <2>2. StartFor(w, r) \in Int
    BY <1>2, <2>1
  <2>3. QED
    BY <1>3, <1>5, <2>2
<1>8. n \in Nat \ {0} /\ Len(late) = n + 1 /\ n >= 2 /\ Len(late) >= 2 /\ ~(Len(late) < 2) /\ Last(late) = late[n + 1]
  <2>1. ~(Len(late) < r.cycles + 1)
    BY <1>5, <1>6, FlagsSay
  <2>2. Len(late) \in Nat
    BY <1>2
  <2>3. Len(late) >= 3
    BY <1>3, <1>4, <2>1, <2>2
  <2>4. Len(late) = n + 1 /\ n \in Nat \ {0} /\ n >= 2
    <3>1. \A l \in Nat : l >= 3 => l = (l - 1) + 1 /\ l - 1 \in Nat \ {0} /\ l - 1 >= 2
        OBVIOUS
    <3>2. QED
        BY <2>2, <2>3, <3>1
  <2> HIDE DEF n
  <2>5. QED
    BY <2>2, <2>3, <2>4 DEF Last
<1> HIDE DEF n
<1>9. mean = total \div n
    BY <1>8
<1>10. n * Step <= total /\ total \in Nat
    BY <1>1, <1>2, <1>8, Apart
<1>11. Step <= mean /\ mean \in Nat
  <2> HIDE DEF total
  <2>1. Step <= total \div n
    BY <1>1, <1>8, <1>10, MeanIsLong
  <2>2. total \div n \in Nat
    BY <1>8, <1>10, Divided
  <2>3. QED
    BY <1>9, <2>1, <2>2
<1>12. mean >= 100
    <2> HIDE DEF mean
    <2>1. QED
        BY <1>1, <1>11
<1>13. late # <<>> /\ late[1] - r.start <= mean /\ 10 * (r.stop - Last(late)) <= 11 * mean /\ view.seen
  <2>1. ~(Len(CrossingsOf(w, r)) < 2)
    <3>1. Len(CrossingsOf(w, r)) \in Nat
        BY <1>2
    <3>2. QED
        BY <1>2, <1>8, <3>1
  <2>2. view.seen = TRUE /\ view.leading = (late # <<>> /\ late[1] - r.start <= mean)
        /\ view.trailing = (late # <<>> /\ 10 * (r.stop - Last(late)) <= 11 * mean)
    BY <1>6, <1>8, <2>1 DEF LateView
  <2>3. QED
    BY <1>5, <2>2
<1> HIDE DEF mean
<1>14. \A k \in 1 .. n : ~(PeakToPeak(w, late[k], late[k + 1]) < low)
  <2>1. /\ DOMAIN lates = 1 .. n /\ \A k \in 1 .. n : lates[k].amplitude = PeakToPeak(w, late[k], late[k + 1])
    <3>1. n \in Nat /\ late \in Seq(Int) /\ Len(late) = n + 1
        BY <1>2, <1>8
    <3>2. QED
        BY <3>1, CyclesOf DEF lates
  <2>2. \A k \in DOMAIN lates : ~(lates[k].amplitude < r.minimum * Step)
    BY <1>5, <1>6, <1>8, <1>13, FlagsSay
  <2>3. QED
    BY <2>1, <2>2 DEF low
<1>15. \A k \in 1 .. n : 20 * (late[k + 1] - late[k]) <= 21 * mean + 20
  <2> DEFINE q == Field(lates, "period")
  <2>1. /\ q \in Seq(Int) /\ Len(q) = n /\ Total(q) = total
        /\ \A k \in 1 .. n : q[k] = late[k + 1] - late[k]
    <3>1. n \in Nat /\ late \in Seq(Int) /\ Len(late) = n + 1
        BY <1>2, <1>8
    <3>2. LET p == Field(Cycles(w, late), "period") IN
          /\ p \in Seq(Int) /\ Len(p) = n /\ Total(p) = late[n + 1] - late[1]
          /\ \A k \in 1 .. n : p[k] = late[k + 1] - late[k]
        BY <3>1, PeriodsOf, ZenonT(60)
    <3>3. QED
        BY <3>2 DEF lates
  <2>2. Tolerated(Deviation(q), r.periodDeviation)
    BY <1>5, <1>6, <1>8, FlagsSay
  <2> HIDE DEF q, total
  <2>3. ASSUME NEW k \in 1 .. n PROVE 20 * (late[k + 1] - late[k]) <= 21 * mean + 20
    <3>1. 20 * (q[k] * n - total) <= total
        <4>1. Total(q) \in Nat
            BY <1>10, <2>1
        <4>2. 20 * (q[k] * n - Total(q)) <= Total(q)
            BY <1>4, <1>8, <2>1, <2>2, <4>1, DeviationBounds
        <4>3. QED
            BY <2>1, <4>2
    <3>2. q[k] \in Nat
        <4>1. k \in 1 .. Len(late) /\ k + 1 \in 1 .. Len(late) /\ k < k + 1
            BY <1>8
        <4>2. late[k] + Step <= late[k + 1] /\ late[k] \in Int /\ late[k + 1] \in Int
            BY <1>2, <4>1 DEF Spaced
        <4>3. QED
            BY <2>1, <4>2
    <3>3. 20 * q[k] <= 21 * (total \div n) + 20
        BY <1>8, <1>10, <3>1, <3>2, ShortPeriod
    <3>4. QED
        BY <1>9, <2>1, <3>3 DEF total
  <2>4. QED
    BY <2>3
<1>16. \A k \in 1 .. n : /\ late[k] \in Int /\ late[k + 1] \in Int /\ late[k] <= late[k + 1]
                       /\ r.start <= late[k] /\ late[k + 1] <= r.stop
  <2> SUFFICES ASSUME NEW k \in 1 .. n
               PROVE  /\ late[k] \in Int /\ late[k + 1] \in Int /\ late[k] <= late[k + 1]
                      /\ r.start <= late[k] /\ late[k + 1] <= r.stop
    OBVIOUS
  <2>1. k \in 1 .. Len(late) /\ k + 1 \in 1 .. Len(late) /\ k < k + 1
    BY <1>8
  <2>2. late[k] + Step <= late[k + 1] /\ late[k] \in Int /\ late[k + 1] \in Int
    BY <1>2, <2>1 DEF Spaced
  <2>3. late[k] <= late[k + 1]
    BY <1>1, <2>2
  <2>4. r.start <= late[k] /\ late[k + 1] <= r.stop
    BY <1>1, <1>2, <2>1
  <2>5. QED
    BY <2>2, <2>3, <2>4
<1>17. ASSUME NEW a \in Int, NEW b \in Int, NEW k \in 1 .. n, 0 <= a, a <= late[k], late[k + 1] <= b, b <= r.stop
       PROVE  PeakToPeak(w, a, b) >= low
  <2>1. b <= TimeOf(Len(w))
    BY <1>2, <1>3, <1>17
  <2>2. /\ PeakToPeak(w, a, b) \in Int /\ PeakToPeak(w, late[k], late[k + 1]) \in Int
        /\ PeakToPeak(w, late[k], late[k + 1]) <= PeakToPeak(w, a, b)
    BY <1>1, <1>16, <1>17, <2>1, Wider
  <2>3. ~(PeakToPeak(w, late[k], late[k + 1]) < low)
    BY <1>14
  <2>4. QED
    BY <1>3, <2>2, <2>3
<1>18. D \in Nat
    BY <1>11
<1>19. ASSUME NEW at \in Int, r.start <= at, at + D <= r.stop PROVE PeakToPeak(w, at, at + D) >= low
  <2>1. late[n + 1] <= r.stop /\ r.start <= late[1]
    <3>1. n \in 1 .. n /\ 1 \in 1 .. n
        BY <1>8
    <3>2. QED
        BY <1>16, <3>1
  <2>2. 10 * (r.stop - late[n + 1]) <= 11 * mean
    BY <1>8, <1>13
  <2>3. PICK k \in 1 .. n : at <= late[k] /\ late[k + 1] <= at + D
    BY <1>2, <1>3, <1>8, <1>11, <1>12, <1>13, <1>15, <1>19, <2>1, <2>2, CycleInside
  <2> HIDE DEF D
  <2>4. at + D \in Int /\ 0 <= at
    BY <1>2, <1>3, <1>18, <1>19
  <2>5. QED
    BY <1>17, <1>19, <2>3, <2>4
<1>20. PeakToPeak(w, Max({r.start, r.stop - D}), r.stop) >= low
  <2> HIDE DEF D
  <2>1. r.stop - D \in Int
    BY <1>3, <1>18
  <2>2. CASE r.stop - D >= r.start
    <3>1. Max({r.start, r.stop - D}) = r.stop - D
        BY <1>3, <2>1, <2>2, OfTwo
    <3>2. (r.stop - D) + D = r.stop /\ r.stop <= r.stop
        BY <1>3, <1>18
    <3>3. PeakToPeak(w, r.stop - D, (r.stop - D) + D) >= low
        BY <1>3, <1>19, <2>1, <2>2, <3>2
    <3>4. QED
        BY <3>1, <3>2, <3>3
  <2>3. CASE r.start >= r.stop - D
    <3>1. Max({r.start, r.stop - D}) = r.start
        BY <1>3, <2>1, <2>3, OfTwo
    <3>2. 1 \in 1 .. n /\ r.stop <= r.stop
        BY <1>3, <1>8
    <3>3. PeakToPeak(w, r.start, r.stop) >= low
        BY <1>2, <1>3, <1>16, <1>17, <3>2
    <3>4. QED
        BY <3>1, <3>3
  <2>4. QED
    BY <1>3, <2>1, <2>2, <2>3
<1>21. QED
    BY <1>7, <1>19, <1>20 DEF D, mean, late, low

LEMMA CollapsedHolds ==
    ASSUME Step \in Nat \ {0}, NEW w \in Seq(Int), NEW r, IntegerRequest(r), TransientRequestFits(r), WindowFits(w, r),
           StatusFor(w, r) = "collapsed"
    PROVE  LET collapse == Min({r.stop, Max({StartFor(w, r), Min(FailedFor(w, r))})}) IN
           /\ StartFor(w, r) <= collapse
           /\ \E to \in ToSet(LateFor(w, r)) \cup {r.stop} :
                 collapse < to /\ ~(PeakToPeak(w, collapse, to) >= r.minimum * Step)
<1> DEFINE late  == LateFor(w, r)
           lates == Cycles(w, late)
           view  == ViewFor(w, r)
           started == StartFor(w, r)
           low   == r.minimum * Step
           failed == FailedFor(w, r)
           first == Min(failed)
           collapse == Min({r.stop, Max({started, first})})
           weak  == {late[k] : k \in {j \in DOMAIN lates : lates[j].amplitude < low /\ late[j] >= started}}
           faded == /\ Len(late) >= 2 /\ ~view.trailing
                    /\ view.amplitude < low
                    /\ Last(lates).amplitude >= low
<1>1. /\ late \in Seq(Int) /\ Spaced(late) /\ Len(late) <= Len(CrossingsOf(w, r))
      /\ \A k \in 1 .. Len(late) : late[k] \in Int /\ r.start <= late[k] /\ late[k] <= r.stop
      /\ 0 <= r.start /\ r.start < r.stop /\ r.stop <= TimeOf(Len(w)) /\ TimeOf(Len(w)) \in Int
      /\ CrossingsOf(w, r) \in Seq(Int) /\ Spaced(CrossingsOf(w, r))
      /\ \A a \in 1 .. Len(CrossingsOf(w, r)) :
            CrossingsOf(w, r)[a] \in Int /\ 0 <= CrossingsOf(w, r)[a] /\ CrossingsOf(w, r)[a] <= r.stop
    BY LateFacts
<1>2. r.start \in Int /\ r.stop \in Int /\ r.minimum \in Int /\ low \in Int
  <2>1. r.start \in Int /\ r.stop \in Int /\ r.minimum \in Int
    BY DEF IntegerRequest
  <2>2. \A a, b \in Int : a * b \in Int
    OBVIOUS
  <2>3. QED
    BY <2>1, <2>2
<1>3. started # NoTime /\ failed # {}
    BY VerdictSays DEF StatusFor
<1>4. failed = weak \cup (IF faded THEN {view.tail} ELSE {})
    BY <1>3 DEF FailedFor, Failures
<1>5. view = LateView(w, r, CrossingsOf(w, r), Cycles(w, CrossingsOf(w, r)), late)
    BY DEF ViewFor
<1>6. started \in Int /\ 0 <= started /\ started < r.stop
  <2>1. PICK k \in 1 .. Len(CrossingsOf(w, r)) : k + 3 <= Len(CrossingsOf(w, r)) /\ started = CrossingsOf(w, r)[k]
    BY <1>1, <1>3, StartedIs DEF StartFor
  <2>2. k + 1 \in 1 .. Len(CrossingsOf(w, r)) /\ k < k + 1 /\ Len(CrossingsOf(w, r)) \in Nat
    BY <1>1, <2>1
  <2>3. CrossingsOf(w, r)[k] + Step <= CrossingsOf(w, r)[k + 1]
    BY <1>1, <2>2 DEF Spaced
  <2>4. /\ CrossingsOf(w, r)[k + 1] \in Int /\ CrossingsOf(w, r)[k + 1] <= r.stop
        /\ CrossingsOf(w, r)[k] \in Int /\ 0 <= CrossingsOf(w, r)[k]
    BY <1>1, <2>2
  <2>5. QED
    BY <1>2, <2>1, <2>3, <2>4
<1>7. \A k \in 1 .. Len(late) - 1 : /\ k \in 1 .. Len(late) /\ k + 1 \in 1 .. Len(late)
                                  /\ late[k] \in Int /\ late[k + 1] \in Int /\ late[k] < late[k + 1]
  <2> SUFFICES ASSUME NEW k \in 1 .. Len(late) - 1
               PROVE  /\ k \in 1 .. Len(late) /\ k + 1 \in 1 .. Len(late)
                      /\ late[k] \in Int /\ late[k + 1] \in Int /\ late[k] < late[k + 1]
    OBVIOUS
  <2>1. Len(late) \in Nat
    BY <1>1
  <2>2. k \in 1 .. Len(late) /\ k + 1 \in 1 .. Len(late) /\ k < k + 1
    BY <2>1
  <2>3. late[k] + Step <= late[k + 1] /\ late[k] \in Int /\ late[k + 1] \in Int
    BY <1>1, <2>2 DEF Spaced
  <2>4. QED
    BY <2>2, <2>3
<1> HIDE DEF late, view, started, low, failed
<1>8. weak # {} => Len(late) - 1 \in Nat /\ Len(late) = (Len(late) - 1) + 1
  <2>1. DOMAIN lates = 1 .. Len(late) - 1
    BY DEF Cycles
  <2>2. weak # {} => \E k \in 1 .. Len(late) - 1 : TRUE
    BY <2>1
  <2>3. Len(late) \in Nat
    BY <1>1
  <2>4. QED
    BY <2>2, <2>3
<1>9. \A x \in weak : \E k \in 1 .. Len(late) - 1 :
            x = late[k] /\ late[k] >= started /\ PeakToPeak(w, late[k], late[k + 1]) < low
  <2> SUFFICES ASSUME NEW x \in weak
               PROVE  \E k \in 1 .. Len(late) - 1 :
                         x = late[k] /\ late[k] >= started /\ PeakToPeak(w, late[k], late[k + 1]) < low
    OBVIOUS
  <2>1. PICK k \in DOMAIN lates : x = late[k] /\ lates[k].amplitude < low /\ late[k] >= started
    OBVIOUS
  <2> DEFINE n == Len(late) - 1
  <2>2. n \in Nat /\ Len(late) = n + 1 /\ late \in Seq(Int)
    BY <1>1, <1>8
  <2>3. DOMAIN lates = 1 .. n /\ \A j \in 1 .. n : lates[j].amplitude = PeakToPeak(w, late[j], late[j + 1])
    <3> HIDE DEF n
    <3>1. QED
        BY <2>2, CyclesOf
  <2>4. QED
    BY <2>1, <2>3
<1>10. faded => /\ view.tail \in Int /\ r.start <= view.tail /\ view.tail < r.stop
                /\ PeakToPeak(w, view.tail, r.stop) < low
  <2> SUFFICES ASSUME faded
               PROVE  /\ view.tail \in Int /\ r.start <= view.tail /\ view.tail < r.stop
                      /\ PeakToPeak(w, view.tail, r.stop) < low
    OBVIOUS
  <2> DEFINE n    == Len(late) - 1
             mean == (Last(late) - late[1]) \div n
             tail == Max({r.start, r.stop - mean})
  <2>1. n \in Nat \ {0} /\ Len(late) = n + 1 /\ Last(late) = late[n + 1] /\ Len(late) >= 2
    <3>1. Len(late) \in Nat /\ Len(late) >= 2 /\ Last(late) = late[Len(late)]
        BY <1>1 DEF Last
    <3>2. \A l \in Nat : l >= 2 => l = (l - 1) + 1 /\ l - 1 \in Nat \ {0}
        OBVIOUS
    <3>3. QED
        BY <3>1, <3>2
  <2>2. view.tail = tail /\ view.amplitude = PeakToPeak(w, tail, r.stop)
    <3>1. ~(Len(CrossingsOf(w, r)) < 2)
        <4>1. Len(CrossingsOf(w, r)) \in Nat
            BY <1>1
        <4>2. QED
            BY <1>1, <2>1, <4>1
    <3>2. QED
        BY <1>5, <2>1, <3>1 DEF LateView
  <2>3. mean \in Nat \ {0}
    <3> DEFINE total == Last(late) - late[1]
    <3>1. n * Step <= total /\ total \in Nat
        <4> HIDE DEF n
        <4>1. QED
            BY <1>1, <2>1, Apart
    <3> HIDE DEF total, n
    <3>2. Step <= total \div n /\ total \div n \in Nat
        BY <2>1, <3>1, MeanIsLong, Divided
    <3>3. QED
        BY <3>2 DEF total
  <2> HIDE DEF mean
  <2>4. tail \in Int /\ r.start <= tail /\ tail < r.stop
    <3>1. r.stop - mean \in Int /\ r.stop - mean < r.stop
        BY <1>2, <2>3
    <3>2. CASE r.start >= r.stop - mean
        <4>1. tail = r.start
            BY <1>2, <3>1, <3>2, OfTwo
        <4>2. QED
            BY <1>1, <1>2, <4>1
    <3>3. CASE r.stop - mean >= r.start
        <4>1. tail = r.stop - mean
            BY <1>2, <3>1, <3>3, OfTwo
        <4>2. QED
            BY <1>2, <3>1, <3>3, <4>1
    <3>4. QED
        BY <1>2, <3>1, <3>2, <3>3
  <2> HIDE DEF tail
  <2>5. QED
    BY <2>2, <2>4
<1> HIDE DEF lates
<1>11. failed \in SUBSET Int /\ IsFiniteSet(failed)
  <2>1. weak \in SUBSET ToSet(late)
    <3>1. \A x \in weak : \E k \in DOMAIN late : x = late[k]
        <4>1. DOMAIN late = 1 .. Len(late)
            BY <1>1
        <4>2. QED
            BY <1>7, <1>9, <4>1
    <3> HIDE DEF weak
    <3>2. QED
        BY <3>1 DEF ToSet
  <2>2. ToSet(late) \in SUBSET Int /\ IsFiniteSet(ToSet(late))
    <3>1. late \in Surjection(1 .. Len(late), ToSet(late))
        <4>1. DOMAIN late = 1 .. Len(late) /\ late \in [1 .. Len(late) -> Int]
            BY <1>1
        <4>2. late \in [1 .. Len(late) -> ToSet(late)] /\ \A x \in ToSet(late) : \E k \in 1 .. Len(late) : late[k] = x
            BY <4>1 DEF ToSet
        <4>3. QED
            BY <4>2 DEF Surjection
    <3>2. IsFiniteSet(1 .. Len(late))
        <4>1. Len(late) \in Int
            BY <1>1
        <4>2. QED
            BY <4>1, FS_Interval
    <3>3. IsFiniteSet(ToSet(late))
        BY <3>1, <3>2, FS_Surjection
    <3>4. QED
        BY <1>1, <3>3 DEF ToSet
  <2>3. IsFiniteSet(weak) /\ weak \in SUBSET Int
    <3> HIDE DEF weak
    <3>1. QED
        BY <2>1, <2>2, FS_Subset
  <2> HIDE DEF weak, faded
  <2>4. CASE faded
    <3>1. IsFiniteSet({view.tail}) /\ failed = weak \cup {view.tail}
        BY <1>4, <2>4, FS_Singleton
    <3>2. IsFiniteSet(failed)
        BY <2>3, <3>1, FS_Union
    <3>3. QED
        BY <1>10, <2>3, <2>4, <3>1, <3>2
  <2>5. CASE ~faded
    <3>1. failed = weak
        BY <1>4, <2>5
    <3>2. QED
        BY <2>3, <3>1
  <2>6. QED
    BY <2>4, <2>5
<1>12. first \in failed /\ first \in Int
  <2>1. first \in failed
    BY <1>3, <1>11, MaxMin
  <2>2. QED
    BY <1>11, <2>1
<1>13. first \in weak \/ (faded /\ first = view.tail)
  <2> HIDE DEF weak, faded, first
  <2>1. QED
    BY <1>4, <1>12
<1> HIDE DEF first
<1>14. CASE first \in weak
  <2>1. PICK k \in 1 .. Len(late) - 1 :
            first = late[k] /\ late[k] >= started /\ PeakToPeak(w, late[k], late[k + 1]) < low
    BY <1>9, <1>14
  <2>2. /\ k \in 1 .. Len(late) /\ k + 1 \in 1 .. Len(late)
        /\ late[k] \in Int /\ late[k + 1] \in Int /\ late[k] < late[k + 1] /\ late[k + 1] <= r.stop /\ 0 <= late[k]
    <3>1. /\ k \in 1 .. Len(late) /\ k + 1 \in 1 .. Len(late)
          /\ late[k] \in Int /\ late[k + 1] \in Int /\ late[k] < late[k + 1]
        BY <1>7
    <3>2. late[k + 1] <= r.stop /\ r.start <= late[k]
        BY <1>1, <3>1
    <3>3. 0 <= late[k]
        <4>1. 0 <= r.start /\ r.start \in Int
            BY <1>1, <1>2
        <4>2. QED
            BY <3>1, <3>2, <4>1
    <3>4. QED
        BY <3>1, <3>2, <3>3
  <2>3. Max({started, first}) = first
    BY <1>6, <1>12, <2>1, OfTwo
  <2>4. r.stop >= first
    BY <1>2, <2>1, <2>2
  <2>5. collapse = first
    <3>1. \A a \in Int : a >= first => Min({a, first}) = first
        BY <1>12, OfTwo
    <3>2. Min({r.stop, first}) = first
        BY <1>2, <2>4, <3>1
    <3>3. QED
        BY <2>3, <3>2
  <2>6. started <= first
    BY <1>6, <1>12, <2>1
  <2>7. late[k + 1] \in ToSet(late) /\ first < late[k + 1]
    <3>1. DOMAIN late = 1 .. Len(late)
        BY <1>1
    <3>2. QED
        BY <2>1, <2>2, <3>1 DEF ToSet
  <2>8. ~(PeakToPeak(w, first, late[k + 1]) >= low)
    <3>1. late[k] <= late[k] /\ late[k] <= late[k + 1] /\ late[k + 1] <= late[k + 1] /\ late[k + 1] <= TimeOf(Len(w))
        <4>1. \A a, b, c, d \in Int : a < b /\ b <= c /\ c <= d => a <= a /\ a <= b /\ b <= b /\ b <= d
            OBVIOUS
        <4>2. TimeOf(Len(w)) \in Int /\ r.stop \in Int /\ r.stop <= TimeOf(Len(w))
            BY <1>1, <1>2
        <4>3. QED
            BY <2>2, <4>1, <4>2
    <3>2. PeakToPeak(w, late[k], late[k + 1]) \in Int
        BY <2>2, <3>1, Wider
    <3>3. QED
        BY <1>2, <2>1, <3>2
  <2> HIDE DEF collapse
  <2>9. started <= collapse /\ \E to \in ToSet(late) \cup {r.stop} : collapse < to /\ ~(PeakToPeak(w, collapse, to) >= low)
    BY <2>5, <2>6, <2>7, <2>8
  <2>10. QED
    BY <2>9 DEF collapse, first, started, failed, low, late
<1>15. CASE faded /\ first = view.tail
  <2>1. r.start <= first /\ first < r.stop /\ PeakToPeak(w, first, r.stop) < low
    BY <1>10, <1>15
  <2> DEFINE later == Max({started, first})
  <2>2. later \in Int /\ started <= later /\ first <= later /\ later < r.stop
    <3>1. CASE started >= first
        <4>1. later = started
            BY <1>6, <1>12, <3>1, OfTwo
        <4>2. QED
            BY <1>6, <1>12, <3>1, <4>1
    <3>2. CASE first >= started
        <4>1. later = first
            BY <1>6, <1>12, <3>2, OfTwo
        <4>2. QED
            BY <1>2, <1>6, <1>12, <2>1, <3>2, <4>1
    <3>3. QED
        BY <1>6, <1>12, <3>1, <3>2
  <2>3. collapse = later
    <3> HIDE DEF later
    <3>1. \A a \in Int : a >= later => Min({a, later}) = later
        BY <2>2, OfTwo
    <3>2. r.stop >= later
        BY <1>2, <2>2
    <3>3. Min({r.stop, later}) = later
        BY <1>2, <3>1, <3>2
    <3>4. QED
        BY <3>3 DEF later
  <2> HIDE DEF later, collapse
  <2>4. ~(PeakToPeak(w, later, r.stop) >= low)
    <3>1. 0 <= first /\ r.stop <= r.stop /\ later <= r.stop
        BY <1>1, <1>2, <1>12, <2>1, <2>2
    <3>2. /\ PeakToPeak(w, first, r.stop) \in Int /\ PeakToPeak(w, later, r.stop) \in Int
          /\ PeakToPeak(w, later, r.stop) <= PeakToPeak(w, first, r.stop)
        BY <1>1, <1>2, <1>12, <2>2, <3>1, Wider
    <3>3. QED
        BY <1>2, <2>1, <3>2
  <2>5. started <= collapse /\ \E to \in ToSet(late) \cup {r.stop} : collapse < to /\ ~(PeakToPeak(w, collapse, to) >= low)
    BY <2>2, <2>3, <2>4
  <2>6. QED
    BY <2>5 DEF collapse, first, started, failed, low, late
<1>16. QED
    BY <1>13, <1>14, <1>15

(* A verdict of result.oscillator.measure is true of the wave, for every   *)
(* one and every request. Sustained: it has started before the window, and *)
(* in every stretch of 2.2 mean periods inside the window, the last one    *)
(* included, its amplitude reaches the declared minimum, so that no gap    *)
(* hides between the cycles, before the first or after the last.           *)
(* Collapsed: it had started, and from the reported instant to a later     *)
(* crossing or the end the amplitude is too small. Never started: no cycle *)
(* of the whole search has the amplitude.                                  *)
THEOREM VerdictsAreTrue ==
    ASSUME Step \in Nat, Step >= 100, NEW w \in Seq(Int), NEW r, IntegerRequest(r)
    PROVE  VerdictIsReal(w, r)
<1> DEFINE m == MeasureTransient(w, r)
<1>1. VerdictIsReal(w, r) = VerdictHolds(w, r, m)
    BY DEF VerdictIsReal
<1>2. CASE ~(TransientRequestFits(r) /\ WindowFits(w, r))
  <2>1. m.status = "refused"
    BY <1>2 DEF MeasureTransient
  <2> HIDE DEF m
  <2>2. VerdictHolds(w, r, m)
    BY <2>1 DEF VerdictHolds
  <2>3. QED
    BY <1>1, <2>2
<1>3. CASE TransientRequestFits(r) /\ WindowFits(w, r)
  <2> DEFINE late == LateFor(w, r)
             mean == (Last(late) - late[1]) \div (Len(late) - 1)
             D    == (22 * mean) \div 10
  <2>1. TransientRequestFits(r) /\ WindowFits(w, r) /\ Step \in Nat \ {0}
    BY <1>3
  <2>2. /\ m.status = StatusFor(w, r) /\ m.crossings = late /\ m.started = StartFor(w, r)
        /\ m.status = "collapsed" => m.collapse = Min({r.stop, Max({m.started, Min(FailedFor(w, r))})})
    BY <2>1, AnswerIs
  <2> HIDE DEF m
  <2>3. ASSUME m.status = "sustained"
        PROVE  /\ m.started <= r.start
               /\ \A at \in Breakpoints(w, r.start, r.stop) \cup ToSet(late) :
                     at + D <= r.stop => PeakToPeak(w, at, at + D) >= r.minimum * Step
               /\ PeakToPeak(w, Max({r.start, r.stop - D}), r.stop) >= r.minimum * Step
    <3>1. /\ StartFor(w, r) <= r.start
          /\ \A at \in Int : r.start <= at /\ at + D <= r.stop => PeakToPeak(w, at, at + D) >= r.minimum * Step
          /\ PeakToPeak(w, Max({r.start, r.stop - D}), r.stop) >= r.minimum * Step
        BY <2>1, <2>2, <2>3, SustainedHolds
    <3>2. \A at \in Breakpoints(w, r.start, r.stop) \cup ToSet(late) : at \in Int /\ r.start <= at
        <4>1. /\ late \in Seq(Int) /\ \A k \in 1 .. Len(late) : late[k] \in Int /\ r.start <= late[k]
              /\ 0 <= r.start /\ r.start < r.stop /\ r.stop <= TimeOf(Len(w))
            BY <2>1, LateFacts
        <4>2. r.start \in Int /\ r.stop \in Int
            BY DEF IntegerRequest
        <4>3. r.start <= r.stop
            BY <4>1, <4>2
        <4>4. \A x \in Breakpoints(w, r.start, r.stop) : x \in Int /\ r.start <= x
            BY <2>1, <4>1, <4>2, <4>3, ValuesOf
        <4>5. \A x \in ToSet(late) : x \in Int /\ r.start <= x
            <5> HIDE DEF late
            <5>1. DOMAIN late = 1 .. Len(late)
                BY <4>1
            <5>2. QED
                BY <4>1, <5>1 DEF ToSet
        <4>6. QED
            BY <4>4, <4>5
    <3> HIDE DEF D, late
    <3>3. QED
        BY <2>2, <3>1, <3>2
  <2>4. ASSUME m.status = "collapsed"
        PROVE  /\ m.started <= m.collapse
               /\ \E to \in ToSet(late) \cup {r.stop} : m.collapse < to /\ ~(PeakToPeak(w, m.collapse, to) >= r.minimum * Step)
    <3>1. m.collapse = Min({r.stop, Max({StartFor(w, r), Min(FailedFor(w, r))})}) /\ StatusFor(w, r) = "collapsed"
        BY <2>2, <2>4
    <3>2. LET collapse == Min({r.stop, Max({StartFor(w, r), Min(FailedFor(w, r))})}) IN
          /\ StartFor(w, r) <= collapse
          /\ \E to \in ToSet(late) \cup {r.stop} :
                collapse < to /\ ~(PeakToPeak(w, collapse, to) >= r.minimum * Step)
        BY <2>1, <3>1, CollapsedHolds
    <3>3. QED
        BY <2>2, <3>1, <3>2
  <2>5. ASSUME m.status = "never_started", NEW k \in 1 .. Len(CrossingsOf(w, r)) - 1
        PROVE  ~(PeakToPeak(w, CrossingsOf(w, r)[k], CrossingsOf(w, r)[k + 1]) >= r.minimum * Step)
    <3> DEFINE n == Len(CrossingsOf(w, r)) - 1
    <3>1. CrossingsOf(w, r) \in Seq(Int)
        BY <2>1, LateFacts
    <3>2. n \in Nat /\ Len(CrossingsOf(w, r)) = n + 1
        <4>1. Len(CrossingsOf(w, r)) \in Nat
            BY <3>1
        <4>2. QED
            BY <2>5, <4>1
    <3>3. ~Active(Cycles(w, CrossingsOf(w, r)), r)
        BY <2>2, <2>5, VerdictSays DEF StatusFor
    <3> HIDE DEF n
    <3>4. /\ DOMAIN Cycles(w, CrossingsOf(w, r)) = 1 .. n
          /\ \A j \in 1 .. n : Cycles(w, CrossingsOf(w, r))[j].amplitude = PeakToPeak(w, CrossingsOf(w, r)[j], CrossingsOf(w, r)[j + 1])
        BY <3>1, <3>2, CyclesOf
    <3>5. k \in 1 .. n
        BY DEF n
    <3>6. QED
        BY <3>3, <3>4, <3>5 DEF Active
  <2>6. VerdictHolds(w, r, m)
    <3> HIDE DEF late
    <3>1. QED
        BY <2>2, <2>3, <2>4, <2>5 DEF VerdictHolds
  <2>7. QED
    BY <1>1, <2>6
<1>4. QED
    BY <1>2, <1>3

-----------------------------------------------------------------------------
(* A sequence that never falls from one place to the next never falls.     *)
LEMMA NeverFalls ==
    ASSUME NEW n \in Nat, NEW q, \A k \in 1 .. n : q[k] \in Int, \A k \in 1 .. n - 1 : q[k] <= q[k + 1],
           NEW i \in 1 .. n, NEW j \in 1 .. n, i <= j
    PROVE  q[i] <= q[j]
<1> DEFINE bad   == {k \in i .. n : ~(q[i] <= q[k])}
           least == Least(bad)
<1>1. bad = {}
  <2> SUFFICES ASSUME bad # {} PROVE FALSE
    OBVIOUS
  <2>1. bad \in SUBSET Nat
    OBVIOUS
  <2>2. least \in bad /\ \A k \in bad : least <= k
    BY <2>1, LeastIndex
  <2> HIDE DEF least
  <2>3. least \in i .. n /\ ~(q[i] <= q[least])
    BY <2>2
  <2>4. least # i
    <3>1. q[i] \in Int /\ q[i] <= q[i]
        OBVIOUS
    <3>2. QED
        BY <2>3, <3>1
  <2> DEFINE k == least - 1
  <2>5. k \in i .. n /\ k + 1 = least /\ ~(least <= k) /\ k \in 1 .. n - 1 /\ k \in 1 .. n /\ least \in 1 .. n
    BY <2>3, <2>4
  <2> HIDE DEF k
  <2>6. q[i] <= q[k]
    <3>1. k \notin bad
        BY <2>2, <2>5
    <3>2. QED
        BY <2>5, <3>1
  <2>7. q[k] <= q[least] /\ q[k] \in Int /\ q[least] \in Int /\ q[i] \in Int
    BY <2>5
  <2>8. QED
    BY <2>3, <2>6, <2>7
<1>2. j \in i .. n
    OBVIOUS
<1>3. QED
    BY <1>1, <1>2

LEMMA Directions ==
    ASSUME NEW f \in Seq(Int), NEW i \in 1 .. Len(f), NEW j \in 1 .. Len(f), i <= j
    PROVE  /\ Monotonicity(f) \in {"constant", "nondecreasing"} => f[i] <= f[j]
           /\ Monotonicity(f) \in {"constant", "nonincreasing"} => f[j] <= f[i]
<1> DEFINE n == Len(f)
           rises == \E k \in 1 .. n - 1 : f[k] < f[k + 1]
           falls == \E k \in 1 .. n - 1 : f[k] > f[k + 1]
           g == [k \in 1 .. n |-> -f[k]]
<1>1. n \in Nat /\ \A k \in 1 .. n : f[k] \in Int
    OBVIOUS
<1>2. Monotonicity(f) \in {"constant", "nondecreasing"} => ~falls
    BY DEF Monotonicity
<1>3. Monotonicity(f) \in {"constant", "nonincreasing"} => ~rises
    BY DEF Monotonicity
<1>4. \A k \in 1 .. n - 1 : k \in 1 .. n /\ k + 1 \in 1 .. n /\ f[k] \in Int /\ f[k + 1] \in Int
    BY <1>1
<1>5. ~falls => f[i] <= f[j]
  <2>1. ~falls => \A k \in 1 .. n - 1 : f[k] <= f[k + 1]
    BY <1>4
  <2> HIDE DEF falls
  <2>2. QED
    BY <1>1, <2>1, NeverFalls
<1>6. ~rises => f[j] <= f[i]
  <2> SUFFICES ASSUME ~rises PROVE f[j] <= f[i]
    OBVIOUS
  <2>1. \A k \in 1 .. n : g[k] = -f[k] /\ g[k] \in Int
    BY <1>1
  <2>2. \A k \in 1 .. n - 1 : f[k] >= f[k + 1]
    BY <1>4
  <2> HIDE DEF g, n
  <2>3. \A k \in 1 .. n - 1 : g[k] <= g[k + 1]
    <3> SUFFICES ASSUME NEW k \in 1 .. n - 1 PROVE g[k] <= g[k + 1]
        OBVIOUS
    <3>1. g[k] = -f[k] /\ g[k + 1] = -f[k + 1] /\ f[k] \in Int /\ f[k + 1] \in Int /\ f[k] >= f[k + 1]
        BY <1>4, <2>1, <2>2
    <3>2. QED
        BY <3>1
  <2>4. i \in 1 .. n /\ j \in 1 .. n
    BY DEF n
  <2>5. g[i] <= g[j]
    BY <1>1, <2>1, <2>3, <2>4, NeverFalls
  <2>6. f[i] \in Int /\ f[j] \in Int /\ g[i] = -f[i] /\ g[j] = -f[j]
    BY <1>1, <2>1, <2>4
  <2>7. QED
    BY <2>5, <2>6
<1>7. QED
    BY <1>2, <1>3, <1>5, <1>6

(* The gain inside, of two secants weighed by the steps beside it.         *)
LEMMA WeighedSign ==
    ASSUME NEW h0 \in Nat, NEW h1 \in Nat, NEW d0 \in Int, NEW d1 \in Int
    PROVE  /\ d0 >= 0 /\ d1 >= 0 => h1 * h1 * d0 + h0 * h0 * d1 >= 0
           /\ d0 <= 0 /\ d1 <= 0 => h1 * h1 * d0 + h0 * h0 * d1 <= 0
<1>1. \A a \in Nat, d \in Int : a * d \in Int /\ (d >= 0 => a * d >= 0) /\ (d <= 0 => a * d <= 0)
  <2>1. \A a \in Nat, d \in Int : a * d \in Int
    OBVIOUS
  <2>2. \A a \in Nat, d \in Int : d >= 0 => a * d >= 0
    OBVIOUS
  <2>3. \A a \in Nat, d \in Int : d <= 0 => a * d <= 0
    OBVIOUS
  <2>4. QED
    BY <2>1, <2>2, <2>3
<1> DEFINE p == h1 * h1
           q == h0 * h0
<1>2. p \in Nat /\ q \in Nat
    OBVIOUS
<1> HIDE DEF p, q
<1> DEFINE u == p * d0
           v == q * d1
<1>3. /\ u \in Int /\ (d0 >= 0 => u >= 0) /\ (d0 <= 0 => u <= 0)
      /\ v \in Int /\ (d1 >= 0 => v >= 0) /\ (d1 <= 0 => v <= 0)
    BY <1>1, <1>2
<1> HIDE DEF u, v
<1>4. (d0 >= 0 /\ d1 >= 0 => u + v >= 0) /\ (d0 <= 0 /\ d1 <= 0 => u + v <= 0)
    BY <1>3
<1>5. QED
    BY <1>4 DEF u, v, p, q

(* For a quadratic the weighed secants are its slope.                      *)
LEMMA Quadratic ==
    ASSUME NEW a \in Int, NEW b \in Int, NEW x \in Int, NEW h \in Int, NEW k \in Int
    PROVE  k * k * ((a * x * x + b * x) - (a * (x - h) * (x - h) + b * (x - h)))
             + h * h * ((a * (x + k) * (x + k) + b * (x + k)) - (a * x * x + b * x))
           = (2 * a * x + b) * (h * k * (h + k))
    OBVIOUS

Grows(x) == \A i \in 1 .. Len(x) - 1 : x[i] < x[i + 1]

LEMMA ControlsGrow ==
    ASSUME NEW x \in Seq(Int), Grows(x), NEW i \in 1 .. Len(x), NEW j \in 1 .. Len(x), i < j
    PROVE  x[i] < x[j]
<1> DEFINE n == Len(x)
<1>1. n \in Nat /\ (\A k \in 1 .. n : x[k] \in Int) /\ \A k \in 1 .. n - 1 : k \in 1 .. n /\ k + 1 \in 1 .. n
    OBVIOUS
<1>2. \A k \in 1 .. n - 1 : x[k] <= x[k + 1]
    BY <1>1 DEF Grows
<1>3. i \in 1 .. n - 1 /\ i + 1 \in 1 .. n /\ i + 1 <= j /\ j \in 1 .. n
    OBVIOUS
<1>4. x[i] < x[i + 1]
    BY <1>3 DEF Grows
<1> HIDE DEF n
<1>5. x[i + 1] <= x[j]
    BY <1>1, <1>2, <1>3, NeverFalls
<1>6. x[i] \in Int /\ x[i + 1] \in Int /\ x[j] \in Int
    BY <1>1, <1>3
<1>7. QED
    BY <1>4, <1>5, <1>6

(* The gains a grid reports say what its curve does: those of a curve that *)
(* nowhere falls (rises) are nowhere negative (positive), and those of a   *)
(* quadratic are its slope at the inner points, for every grid and curve.  *)
THEOREM GainsAreTrue ==
    ASSUME NEW x \in Seq(Int), Grows(x), Len(x) >= 3, NEW f \in Seq(Int), Len(f) = Len(x)
    PROVE  GainsAreReal(x, f)
<1> DEFINE n == Len(x)
<1>1. n \in Nat /\ n >= 3 /\ DOMAIN x = 1 .. n /\ (\A k \in 1 .. n : x[k] \in Int /\ f[k] \in Int)
    OBVIOUS
<1>2. ASSUME NEW i \in 1 .. n
      PROVE  /\ Monotonicity(f) \in {"constant", "nondecreasing"} => Gain(x, f, i).num >= 0
             /\ Monotonicity(f) \in {"constant", "nonincreasing"} => Gain(x, f, i).num <= 0
  <2>1. ASSUME NEW k \in 1 .. n, NEW l \in 1 .. n, k <= l
        PROVE  /\ Monotonicity(f) \in {"constant", "nondecreasing"} => f[l] - f[k] >= 0
               /\ Monotonicity(f) \in {"constant", "nonincreasing"} => f[l] - f[k] <= 0
               /\ f[l] - f[k] \in Int
    <3>1. /\ Monotonicity(f) \in {"constant", "nondecreasing"} => f[k] <= f[l]
          /\ Monotonicity(f) \in {"constant", "nonincreasing"} => f[l] <= f[k]
        BY <2>1, Directions
    <3>2. f[k] \in Int /\ f[l] \in Int
        BY <1>1
    <3>3. \A u, v \in Int : (u <= v => v - u >= 0) /\ (v <= u => v - u <= 0) /\ v - u \in Int
        OBVIOUS
    <3> DEFINE up   == Monotonicity(f) \in {"constant", "nondecreasing"}
               down == Monotonicity(f) \in {"constant", "nonincreasing"}
    <3>4. (up => f[k] <= f[l]) /\ (down => f[l] <= f[k])
        BY <3>1
    <3> HIDE DEF up, down
    <3>5. (up => f[l] - f[k] >= 0) /\ (down => f[l] - f[k] <= 0) /\ f[l] - f[k] \in Int
        BY <3>2, <3>3, <3>4
    <3>6. QED
        BY <3>5 DEF up, down
  <2>2. CASE i = 1
    <3>1. Gain(x, f, i).num = f[2] - f[1] /\ 1 \in 1 .. n /\ 2 \in 1 .. n
        BY <1>1, <2>2 DEF Gain
    <3>2. QED
        BY <2>1, <3>1
  <2>3. CASE i = n /\ i # 1
    <3>1. Gain(x, f, i).num = f[n] - f[n - 1] /\ n - 1 \in 1 .. n /\ n \in 1 .. n /\ n - 1 <= n
        BY <1>1, <2>3 DEF Gain
    <3>2. QED
        BY <2>1, <3>1
  <2>4. CASE i # n /\ i # 1
    <3> DEFINE h0 == x[i] - x[i - 1]
               h1 == x[i + 1] - x[i]
               d0 == f[i] - f[i - 1]
               d1 == f[i + 1] - f[i]
    <3>1. i - 1 \in 1 .. n /\ i + 1 \in 1 .. n /\ i - 1 < i /\ i < i + 1 /\ i - 1 <= i /\ i <= i + 1
        BY <1>1, <2>4
    <3>2. Gain(x, f, i).num = h1 * h1 * d0 + h0 * h0 * d1
        BY <2>4 DEF Gain
    <3>3. h0 \in Nat /\ h1 \in Nat
        <4>1. x[i - 1] < x[i] /\ x[i] < x[i + 1]
            BY <3>1, ControlsGrow
        <4>2. x[i - 1] \in Int /\ x[i] \in Int /\ x[i + 1] \in Int
            BY <1>1, <3>1
        <4>3. \A u, v \in Int : u < v => v - u \in Nat
            OBVIOUS
        <4>4. QED
            BY <4>1, <4>2, <4>3
    <3>4. /\ Monotonicity(f) \in {"constant", "nondecreasing"} => d0 >= 0 /\ d1 >= 0
          /\ Monotonicity(f) \in {"constant", "nonincreasing"} => d0 <= 0 /\ d1 <= 0
          /\ d0 \in Int /\ d1 \in Int
        BY <2>1, <3>1
    <3> HIDE DEF h0, h1, d0, d1
    <3>5. /\ d0 >= 0 /\ d1 >= 0 => h1 * h1 * d0 + h0 * h0 * d1 >= 0
          /\ d0 <= 0 /\ d1 <= 0 => h1 * h1 * d0 + h0 * h0 * d1 <= 0
        BY <3>3, <3>4, WeighedSign
    <3> DEFINE num == h1 * h1 * d0 + h0 * h0 * d1
    <3>6. Gain(x, f, i).num = num /\ (d0 >= 0 /\ d1 >= 0 => num >= 0) /\ (d0 <= 0 /\ d1 <= 0 => num <= 0)
        BY <3>2, <3>5
    <3> HIDE DEF num
    <3>7. QED
        BY <3>4, <3>6
  <2>5. QED
    BY <2>2, <2>3, <2>4
<1>3. ASSUME NEW a \in Int, NEW b \in Int, NEW i \in 2 .. n - 1
      PROVE  LET g == Gain(x, [k \in DOMAIN x |-> a * x[k] * x[k] + b * x[k]], i)
             IN g.num = (2 * a * x[i] + b) * g.den
  <2> DEFINE q  == [k \in DOMAIN x |-> a * x[k] * x[k] + b * x[k]]
             c  == x[i]
             h0 == x[i] - x[i - 1]
             h1 == x[i + 1] - x[i]
  <2>1. i - 1 \in 1 .. n /\ i \in 1 .. n /\ i + 1 \in 1 .. n /\ i # 1 /\ i # n
    BY <1>1
  <2>2. x[i - 1] \in Int /\ x[i] \in Int /\ x[i + 1] \in Int
    BY <1>1, <2>1
  <2>3. c \in Int /\ h0 \in Int /\ h1 \in Int /\ x[i - 1] = c - h0 /\ x[i + 1] = c + h1
    <3>1. \A u, v, w \in Int : v - u \in Int /\ w - v \in Int /\ u = v - (v - u) /\ w = v + (w - v)
        OBVIOUS
    <3>2. QED
        BY <2>2, <3>1
  <2>4. q[i] = a * x[i] * x[i] + b * x[i] /\ q[i - 1] = a * x[i - 1] * x[i - 1] + b * x[i - 1]
        /\ q[i + 1] = a * x[i + 1] * x[i + 1] + b * x[i + 1]
    BY <1>1, <2>1
  <2>5. Gain(x, q, i) = [num |-> h1 * h1 * (q[i] - q[i - 1]) + h0 * h0 * (q[i + 1] - q[i]), den |-> h0 * h1 * (h0 + h1)]
    <3> HIDE DEF q
    <3>1. QED
        BY <2>1 DEF Gain
  <2>6. q[i] = a * c * c + b * c /\ q[i - 1] = a * (c - h0) * (c - h0) + b * (c - h0)
        /\ q[i + 1] = a * (c + h1) * (c + h1) + b * (c + h1)
    <3> HIDE DEF q, h0, h1
    <3>1. QED
        BY <2>3, <2>4
  <2> HIDE DEF q, c, h0, h1
  <2>7. /\ Gain(x, q, i).num = h1 * h1 * (q[i] - q[i - 1]) + h0 * h0 * (q[i + 1] - q[i])
        /\ Gain(x, q, i).den = h0 * h1 * (h0 + h1)
    BY <2>5
  <2>8. Gain(x, q, i).num = (2 * a * c + b) * Gain(x, q, i).den
    BY <2>3, <2>6, <2>7, Quadratic
  <2>9. QED
    BY <2>8 DEF q, c
<1>4. ASSUME NEW a \in -2 .. 2, NEW b \in -2 .. 2, NEW i \in 2 .. Len(x) - 1
      PROVE  LET g == Gain(x, [k \in DOMAIN x |-> a * x[k] * x[k] + b * x[k]], i)
             IN g.num = (2 * a * x[i] + b) * g.den
  <2>1. a \in Int /\ b \in Int /\ i \in 2 .. n - 1
    OBVIOUS
  <2>2. QED
    BY <1>3, <2>1, ZenonT(30)
<1>5. QED
    BY <1>1, <1>2, <1>4 DEF GainsAreReal

(* A grid of receipts is a grid of comparable pairs, for every method,     *)
(* condition and curve: it is accepted, with a frequency at every point,   *)
(* exactly if every two of its points would be accepted as a shift, so     *)
(* that nothing is compared across methods, conditions or unsustained      *)
(* oscillations; no shift in it exceeds the span it reports, and none goes *)
(* against a direction that it passed.                                     *)
THEOREM GridsAreTrue ==
    ASSUME NEW x \in Seq(Int), Grows(x), Len(x) >= 3, NEW f \in Seq(Int), Len(f) = Len(x),
           NEW receipts, DOMAIN receipts = 1 .. Len(x), NEW name
    PROVE  GridIsReal(x, receipts, name, f)
<1> DEFINE n == Len(x)
           grid(expected) == GridAnswer(x, receipts, name, f, expected)
           pair(i, j) == ShiftAnswer(<<x[i], x[j]>>, <<receipts[i], receipts[j]>>, name, <<f[i], f[j]>>)
           pairs == {p \in (DOMAIN x) \X (DOMAIN x) : p[1] < p[2]}
           tied(i) == /\ ReceiptFits(receipts[i])
                       /\ name \in DOMAIN receipts[i].source.conditions
                       /\ receipts[i].source.conditions[name] = x[i]
           alike(i, j) == /\ receipts[i].method = receipts[j].method
                          /\ Context(receipts[i], name) = Context(receipts[j], name)
           sound(i) == receipts[i].status = "sustained"
           differ(i, j) == receipts[i].digest # receipts[j].digest
<1>1. n \in Nat /\ n >= 3 /\ DOMAIN x = 1 .. n /\ (\A k \in 1 .. n : x[k] \in Int /\ f[k] \in Int) /\ DOMAIN f = 1 .. n
    OBVIOUS
<1>2. \A e : (grid(e).status = "measured") <=> GridFits(x, receipts, name) /\ AllSustained(receipts)
    BY DEF GridAnswer
<1>3. GridFits(x, receipts, name) /\ AllSustained(receipts) <=>
        \A i, j \in 1 .. n : tied(i) /\ sound(i) /\ alike(i, j) /\ (i # j => differ(i, j))
  <2>1. BoundTo(receipts, name, x) <=> \A i \in 1 .. n : tied(i)
    BY DEF BoundTo
  <2>2. Distinct(receipts) <=> \A i, j \in 1 .. n : i # j => differ(i, j)
    BY DEF Distinct
  <2>3. Alike(receipts, name) <=> \A i, j \in 1 .. n : alike(i, j)
    BY DEF Alike
  <2>4. AllSustained(receipts) <=> \A i \in 1 .. n : sound(i)
    BY DEF AllSustained
  <2>5. \A i \in 1 .. Len(x) - 1 : x[i] < x[i + 1]
    BY DEF Grows
  <2> HIDE DEF tied, sound, alike, differ
  <2>6. QED
    BY <1>1, <2>1, <2>2, <2>3, <2>4, <2>5 DEF GridFits
<1>4. ASSUME NEW i \in 1 .. n, NEW j \in 1 .. n, i < j
      PROVE  (pair(i, j).status = "measured") <=>
                /\ tied(i) /\ tied(j) /\ sound(i) /\ sound(j)
                /\ alike(i, j) /\ alike(j, i) /\ differ(i, j) /\ alike(i, i) /\ alike(j, j)
  <2> DEFINE two == <<receipts[i], receipts[j]>>
             at  == <<x[i], x[j]>>
  <2>1. DOMAIN two = {1, 2} /\ two[1] = receipts[i] /\ two[2] = receipts[j] /\ at[1] = x[i] /\ at[2] = x[j] /\ Len(at) = 2
    OBVIOUS
  <2>2. x[i] # x[j]
    <3>1. x[i] < x[j] /\ x[i] \in Int /\ x[j] \in Int
        BY <1>1, <1>4, ControlsGrow
    <3>2. QED
        BY <3>1
  <2>3. (pair(i, j).status = "measured") <=> ShiftFits(at, two, name) /\ AllSustained(two)
    BY DEF ShiftAnswer
  <2> HIDE DEF two, at
  <2>4. BoundTo(two, name, at) <=> tied(i) /\ tied(j)
    BY <2>1 DEF BoundTo
  <2>5. Distinct(two) <=> differ(i, j)
    BY <2>1 DEF Distinct
  <2>6. Alike(two, name) <=> alike(i, j) /\ alike(j, i) /\ alike(i, i) /\ alike(j, j)
    BY <2>1 DEF Alike
  <2>7. AllSustained(two) <=> sound(i) /\ sound(j)
    BY <2>1 DEF AllSustained
  <2> HIDE DEF tied, sound, alike, differ, pair
  <2>8. ShiftFits(at, two, name) <=> BoundTo(two, name, at) /\ Distinct(two) /\ Alike(two, name)
    BY <2>1, <2>2 DEF ShiftFits
  <2>9. QED
    BY <2>3, <2>4, <2>5, <2>6, <2>7, <2>8
<1>5. \A p \in pairs : p[1] \in 1 .. n /\ p[2] \in 1 .. n /\ p[1] < p[2]
    BY <1>1
<1>6. \A i, j \in 1 .. n : i < j => <<i, j>> \in pairs
    BY <1>1
<1>7. \A i, j \in 1 .. n : differ(i, j) <=> differ(j, i)
    OBVIOUS
<1>8. \A i \in 1 .. n : \E j \in 1 .. n : i < j \/ j < i
  <2> SUFFICES ASSUME NEW i \in 1 .. n PROVE \E j \in 1 .. n : i < j \/ j < i
    OBVIOUS
  <2>1. CASE i = 1
    <3>1. 2 \in 1 .. n /\ i < 2
        BY <1>1, <2>1
    <3>2. QED
        BY <3>1
  <2>2. CASE i # 1
    <3>1. 1 \in 1 .. n /\ 1 < i
        BY <1>1, <2>2
    <3>2. QED
        BY <3>1
  <2>3. QED
    BY <2>1, <2>2
<1> HIDE DEF pairs, pair, tied, alike, sound, differ, grid
<1>9. (\A i, j \in 1 .. n : tied(i) /\ sound(i) /\ alike(i, j) /\ (i # j => differ(i, j)))
        <=> \A p \in pairs : pair(p[1], p[2]).status = "measured"
  <2>1. ASSUME \A i, j \in 1 .. n : tied(i) /\ sound(i) /\ alike(i, j) /\ (i # j => differ(i, j)), NEW p \in pairs
        PROVE  pair(p[1], p[2]).status = "measured"
    <3>1. p[1] \in 1 .. n /\ p[2] \in 1 .. n /\ p[1] < p[2] /\ p[1] # p[2]
        BY <1>5
    <3>2. QED
        BY <1>4, <2>1, <3>1
  <2>2. ASSUME \A p \in pairs : pair(p[1], p[2]).status = "measured"
        PROVE  \A i, j \in 1 .. n : tied(i) /\ sound(i) /\ alike(i, j) /\ (i # j => differ(i, j))
    <3>1. ASSUME NEW i \in 1 .. n, NEW j \in 1 .. n, i < j
          PROVE  /\ tied(i) /\ tied(j) /\ sound(i) /\ sound(j)
                 /\ alike(i, j) /\ alike(j, i) /\ differ(i, j) /\ alike(i, i) /\ alike(j, j)
        <4>1. <<i, j>> \in pairs
            BY <1>6, <3>1
        <4>2. <<i, j>>[1] = i /\ <<i, j>>[2] = j
            OBVIOUS
        <4>3. pair(i, j).status = "measured"
            BY <2>2, <4>1, <4>2
        <4>4. QED
            BY <1>4, <3>1, <4>3
    <3>2. ASSUME NEW i \in 1 .. n PROVE tied(i) /\ sound(i) /\ alike(i, i)
        BY <1>8, <3>1
    <3>3. ASSUME NEW i \in 1 .. n, NEW j \in 1 .. n, i # j PROVE alike(i, j) /\ differ(i, j)
        <4>1. i < j \/ j < i
            BY <3>3
        <4>2. QED
            BY <1>7, <3>1, <4>1
    <3>4. QED
        BY <3>2, <3>3
  <2>3. QED
    BY <2>1, <2>2
<1>10. (grid("nondecreasing").status = "measured") = (\A p \in pairs : pair(p[1], p[2]).status = "measured")
  <2>1. (grid("nondecreasing").status = "measured") <=> (\A p \in pairs : pair(p[1], p[2]).status = "measured")
    BY <1>2, <1>3, <1>9
  <2>2. QED
    BY <2>1
<1>11. ASSUME grid("nondecreasing").status = "measured", NEW p \in pairs
       PROVE  /\ pair(p[1], p[2]).absolute <= grid("nondecreasing").span
              /\ grid("nondecreasing").check = "pass" => pair(p[1], p[2]).signed >= 0
              /\ grid("nonincreasing").check = "pass" => pair(p[1], p[2]).signed <= 0
  <2> DEFINE i == p[1]
             j == p[2]
             d == f[j] - f[i]
             F == {f[k] : k \in DOMAIN f}
  <2>1. i \in 1 .. n /\ j \in 1 .. n /\ i < j /\ i <= j
    BY <1>5
  <2>2. pair(i, j).status = "measured"
    BY <1>10, <1>11
  <2> HIDE DEF i, j
  <2>3. pair(i, j).signed = d /\ pair(i, j).absolute = Size(d)
    <3>1. /\ ~ShiftFits(<<x[i], x[j]>>, <<receipts[i], receipts[j]>>, name) => pair(i, j).status = "refused"
          /\ ~AllSustained(<<receipts[i], receipts[j]>>) /\ ShiftFits(<<x[i], x[j]>>, <<receipts[i], receipts[j]>>, name)
                => pair(i, j).status = "unknown"
        BY DEF pair, ShiftAnswer
    <3>2. ShiftFits(<<x[i], x[j]>>, <<receipts[i], receipts[j]>>, name) /\ AllSustained(<<receipts[i], receipts[j]>>)
        BY <2>2, <3>1
    <3>3. <<f[i], f[j]>>[1] = f[i] /\ <<f[i], f[j]>>[2] = f[j]
        OBVIOUS
    <3>4. pair(i, j) = [status |-> "measured", signed |-> d, absolute |-> Size(d)]
        BY <3>2, <3>3 DEF pair, ShiftAnswer
    <3>5. QED
        BY <3>4
  <2>4. \A e : /\ grid(e).span = Max(F) - Min(F)
              /\ grid(e).check = IF Monotonicity(f) \in {"constant", e} THEN "pass" ELSE "fail"
    <3>1. GridFits(x, receipts, name) /\ AllSustained(receipts)
        BY <1>2, <1>11
    <3>2. QED
        BY <3>1 DEF grid, GridAnswer
  <2>5. d \in Int /\ f[i] \in Int /\ f[j] \in Int /\ f[i] \in F /\ f[j] \in F
    <3>1. f[i] \in Int /\ f[j] \in Int
        BY <1>1, <2>1
    <3>2. f[i] \in F /\ f[j] \in F
        BY <1>1, <2>1
    <3>3. QED
        BY <3>1, <3>2
  <2>6. /\ grid("nondecreasing").check = "pass" => d >= 0
        /\ grid("nonincreasing").check = "pass" => d <= 0
    <3>1. /\ Monotonicity(f) \in {"constant", "nondecreasing"} => f[i] <= f[j]
          /\ Monotonicity(f) \in {"constant", "nonincreasing"} => f[j] <= f[i]
        BY <2>1, Directions
    <3>2. /\ grid("nondecreasing").check = "pass" => f[i] <= f[j]
          /\ grid("nonincreasing").check = "pass" => f[j] <= f[i]
        BY <2>4, <3>1
    <3>3. \A u, w \in Int : (u <= w => w - u >= 0) /\ (w <= u => w - u <= 0)
        OBVIOUS
    <3>4. (f[i] <= f[j] => d >= 0) /\ (f[j] <= f[i] => d <= 0)
        BY <2>5, <3>3
    <3>5. QED
        BY <3>2, <3>4
  <2>7. Size(d) <= Max(F) - Min(F)
    <3>1. F \in SUBSET Int /\ IsFiniteSet(F) /\ F # {}
        <4>1. f \in Surjection(1 .. n, F)
            <5>1. f \in [1 .. n -> Int] /\ f \in [1 .. n -> F] /\ \A v \in F : \E k \in 1 .. n : f[k] = v
                BY <1>1
            <5>2. QED
                BY <5>1 DEF Surjection
        <4>2. IsFiniteSet(1 .. n)
            BY <1>1, FS_Interval
        <4>3. IsFiniteSet(F)
            BY <4>1, <4>2, FS_Surjection
        <4>4. QED
            BY <1>1, <2>5, <4>3
    <3> HIDE DEF F
    <3>2. Max(F) \in Int /\ Min(F) \in Int /\ f[i] <= Max(F) /\ f[j] <= Max(F) /\ Min(F) <= f[i] /\ Min(F) <= f[j]
        BY <2>5, <3>1, MaxMin
    <3>3. \A s, t, u, v \in Int : s <= u /\ t <= u /\ v <= s /\ v <= t => t - s <= u - v /\ -(t - s) <= u - v
        OBVIOUS
    <3>4. d <= Max(F) - Min(F) /\ -d <= Max(F) - Min(F)
        BY <2>5, <3>2, <3>3
    <3>5. QED
        BY <2>5, <3>4 DEF Size
  <2>8. QED
    BY <2>3, <2>4, <2>6, <2>7 DEF i, j
<1>12. QED
    BY <1>10, <1>11 DEF GridIsReal, pairs, pair, grid
=============================================================================
