--------------------------- MODULE TestbenchOracle ---------------------------
(***************************************************************************)
(* The score of a published report: compare_testbench_observables          *)
(* (operations/testbench_oracle.py) compares it with the observables of an *)
(* oracle, row by row of a tolerance document.                             *)
(*                                                                         *)
(* A fraction and its limit are the numbers of what is counted; whether a  *)
(* number meets its tolerance, a choice.                                   *)
(***************************************************************************)
EXTENDS TestbenchRun

CONSTANTS
    Rows,             \* kind, required, observables, conditions, op and limit
    LineageRequired,  \* lineage_required of the tolerances
    TopCorner         \* the corner, where a completeness row may name a condition

RowKinds == {"numeric", "invalid_detection_recall", "false_valid_rate", "completeness",
             "lineage_presence", "grading_runtime"}

ASSUME RowAssumption ==
    /\ Rows \subseteq [kind : RowKinds, required : BOOLEAN, observables : SUBSET Observables,
                       conditions : SUBSET (Conditions \cup {TopCorner}),
                       op : {"<=", ">="}, limit : Nat]
    /\ LineageRequired \in BOOLEAN /\ TopCorner \notin Conditions

VARIABLE score   \* the comparison, None until there is one

scoreVars == <<vars, score>>

Status == {"PASS", "FAIL", "UNKNOWN"}

Emitted(o)  == report.lineage[o] # {}
Declared(c) == {o \in Observables : c \in report.lineage[o]}

(* _verdict; a fraction of nothing is UNKNOWN.                             *)
Within(row, n) == IF row.op = "<=" THEN n <= row.limit ELSE n >= row.limit
Fraction(row, part, total) ==
    IF total = {} THEN "UNKNOWN" ELSE IF Within(row, Cardinality(part)) THEN "PASS" ELSE "FAIL"

(* _lineage_coverage: of observables, or of pairs of a condition and one.  *)
LineageTotal(row) ==
    IF row.conditions = {} THEN row.observables ELSE row.conditions \X row.observables
LineageCovered(row) ==
    IF row.conditions = {} THEN {o \in row.observables : Emitted(o)}
    ELSE {x \in row.conditions \X row.observables :
             Emitted(x[2]) /\ x[1] \in Known /\ x[2] \in Declared(x[1])}

(* _condition_coverage: the pairs that a completeness row counts.          *)
Present(row) ==
    {x \in row.conditions \X row.observables :
        Emitted(x[2]) /\ (x[1] = TopCorner \/ (x[1] \in Known /\ x[2] \in Declared(x[1])))}

(* _validity_counts.                                                       *)
OracleInvalid(oracle)   == {x \in Subjects : oracle[x] = "INVALID"}
DetectedInvalid(oracle) == {x \in OracleInvalid(oracle) : report.verdict[x] = "INVALID"}
ObservedValid(oracle)   == {x \in Subjects : report.verdict[x] = "VALID" /\ oracle[x] # "UNKNOWN"}
FalseValid(oracle)      == {x \in ObservedValid(oracle) : oracle[x] = "INVALID"}

(* The rows that are UNKNOWN if the corners differ.                        *)
OfOracle == {"numeric", "invalid_detection_recall", "false_valid_rate"}

(***************************************************************************)
(* Numeric evidence: both values are there, and with lineage_required the  *)
(* conditions behind all the observables of the row.                       *)
(***************************************************************************)
Comparable(row) ==
    /\ \A o \in row.observables : Emitted(o)
    /\ LineageRequired => row.observables \subseteq LineageCovered([row EXCEPT !.conditions = {}])

(* numbers: what the rows that measure a number or a time come to.         *)
RowStatus(row, oracle, match, numbers) ==
    IF ~match /\ row.kind \in OfOracle THEN "UNKNOWN" ELSE
    CASE row.kind = "numeric" -> IF Comparable(row) THEN numbers[row] ELSE "UNKNOWN"
      [] row.kind = "invalid_detection_recall" ->
            Fraction(row, DetectedInvalid(oracle), OracleInvalid(oracle))
      [] row.kind = "false_valid_rate" -> Fraction(row, FalseValid(oracle), ObservedValid(oracle))
      [] row.kind = "completeness" -> Fraction(row, Present(row), row.conditions \X row.observables)
      [] row.kind = "lineage_presence" -> Fraction(row, LineageCovered(row), LineageTotal(row))
      [] row.kind = "grading_runtime" -> IF numbers[row] = "PASS" THEN "PASS" ELSE "FAIL"

FailuresOnly(rows, match) ==   \* mutation: what could not be compared does not count
    IF \E row \in Rows : row.required /\ rows[row] = "FAIL" THEN "FAIL"
    ELSE IF ~match THEN "UNKNOWN" ELSE "PASS"

Overall(rows, match) ==
    IF \E row \in Rows : row.required /\ rows[row] = "FAIL" THEN "FAIL"
    ELSE IF ~match \/ \E row \in Rows : row.required /\ rows[row] = "UNKNOWN" THEN "UNKNOWN"
    ELSE "PASS"

(* The oracle's verdicts, its corner and the numbers are given.            *)
Measuring == {row \in Rows : row.kind \in {"numeric", "grading_runtime"}}

Compare(oracle, match, numbers) ==
    /\ pc = "published" /\ score = None
    /\ LET rows == [row \in Rows |-> RowStatus(row, oracle, match, numbers)]
       IN score' = [rows |-> rows, oracle |-> oracle, match |-> match, status |-> Overall(rows, match)]
    /\ UNCHANGED vars

ScoreInit == Init /\ score = None
ScoreNext == \/ Next /\ UNCHANGED score
             \/ \E oracle \in [Subjects -> Judgements], match \in BOOLEAN,
                   numbers \in [Measuring -> Status] : Compare(oracle, match, numbers)
ScoreSpec == ScoreInit /\ [][ScoreNext]_scoreVars

-----------------------------------------------------------------------------
(* Properties.                                                             *)

(***************************************************************************)
(* "pass" on the command line: every point of the corner was measured, and *)
(* every observable it has is emitted.  PASS in a comparison: whatever a   *)
(* required numeric row compares was emitted, and was measured on points   *)
(* that completed, from inputs that were found VALID; and a required row   *)
(* that asks for n detections has n rules, invalid to the oracle, whose    *)
(* points completed.                                                       *)
(***************************************************************************)
Earns(row) ==
    /\ row.kind = "numeric" => \A o \in row.observables :
         /\ Emitted(o)
         /\ \A p \in Points : o \in MeasuredAt(p) => Whole(p) /\ Sound(p)
    /\ row.kind = "invalid_detection_recall" /\ row.op = ">=" =>
         row.limit <= Cardinality({r \in Rules : score.oracle[r] = "INVALID" /\ Whole(PointOf[r])})

PassIsEarned ==
    /\ report # None /\ report.complete =>
         \A p \in Selected : Whole(p) /\ lineage[p] # {} /\ \A o \in MeasuredAt(p) : Emitted(o)
    /\ score # None /\ score.status = "PASS" =>
         \A row \in Rows : row.required => Earns(row)
=============================================================================
