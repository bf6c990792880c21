------------------------ MODULE SpecificationEvaluate ------------------------
(***************************************************************************)
(* specification.evaluate: one measurement record against one              *)
(* specification. Both are normalised first; then the measurement must     *)
(* have a value, of exactly the unit of the limits, taken at exactly the   *)
(* conditions that the specification names; only then is it compared.      *)
(*                                                                         *)
(* A number is an integer; beyond Widest it is not a finite float. A text, *)
(* a unit or an identifier is its own name, "" one that is not well formed,*)
(* and a digest is what it is the digest of.                               *)
(***************************************************************************)
EXTENDS Integers, Sequences, FiniteSets, SequencesExt

CONSTANTS
    Widest,        \* the largest finite number
    MaxConditions  \* how many conditions a record may have

Absent      == "absent"
NoValue     == Widest + 2
Finite(x)   == x \in -Widest .. Widest
Known(text) == text \notin {"", Absent}
Distinct(s) == \A i, j \in DOMAIN s : s[i] = s[j] => i = j

(* A condition has a name, a unit and a value, which is a number, a text or*)
(* a truth value; its type counts.                                         *)
ConditionFits(c)   == /\ Known(c.name) /\ Known(c.unit)
                      /\ \/ c.type = "number" /\ Finite(c.value)
                         \/ c.type = "text" /\ c.value # 0
                         \/ c.type = "boolean"
ConditionsFit(cs)  == /\ Len(cs) <= MaxConditions /\ \A c \in ToSet(cs) : ConditionFits(c)
                      /\ Distinct([i \in DOMAIN cs |-> cs[i].name])

(* Where the measurement comes from: one series, its conditions sealed by  *)
(* their digest, and a lineage that claims to be nothing but unverified.   *)
SourceFits(source) ==
    /\ source.role = "measurement.source" /\ Known(source.request)
    /\ source.artifact = source.series /\ Known(source.artifact)
    /\ ConditionsFit(source.conditions) /\ source.seal = source.conditions
    /\ source.lineage \in {Absent, "unverified"}

MeasurementFits(m) ==
    /\ Known(m.id) /\ m.status \in {"measured", "not_found", "unknown"}
    /\ m.status \in {"measured", "not_found"} => Known(m.request)
    /\ IF m.status = "measured" THEN Finite(m.value) /\ Known(m.unit) ELSE m.value = NoValue
    /\ SourceFits(m.source)

(* At least one limit; two of one unit that leave a value between them.    *)
LimitFits(l)  == Finite(l.value) /\ Known(l.unit)
Between(limits) ==
    LET lower == limits["lower"]
        upper == limits["upper"]
    IN /\ lower.unit = upper.unit /\ lower.value <= upper.value
       /\ lower.value = upper.value => lower.inclusive /\ upper.inclusive
SpecificationFits(s) ==
    /\ Known(s.id) /\ Known(s.measurement)
    /\ DOMAIN s.limits # {} /\ \A k \in DOMAIN s.limits : LimitFits(s.limits[k])
    /\ DOMAIN s.limits = {"lower", "upper"} => Between(s.limits)
    /\ ConditionsFit(s.conditions)
-----------------------------------------------------------------------------
UnitsMatch(m, s) == \A k \in DOMAIN s.limits : s.limits[k].unit = m.unit

(* The conditions are taken in their order, up to the first that the       *)
(* measurement does not bind, or binds to another unit, type or value.     *)
BindsTo(m, c) == c \in ToSet(m.source.conditions)
Matched(m, s) == Cardinality({n \in DOMAIN s.conditions : \A i \in 1 .. n : BindsTo(m, s.conditions[i])})
Proven(m, s)  == Matched(m, s) = Len(s.conditions)

(* How far the value is inside each limit; the first of the least decides. *)
MarginTo(m, s, k) == IF k = "lower" THEN m.value - s.limits[k].value ELSE s.limits[k].value - m.value
Limiting(m, s)    == IF \/ "upper" \notin DOMAIN s.limits
                        \/ "lower" \in DOMAIN s.limits /\ MarginTo(m, s, "lower") <= MarginTo(m, s, "upper")
                     THEN "lower" ELSE "upper"
Violates(m, s, k) == \/ MarginTo(m, s, k) < 0
                     \/ MarginTo(m, s, k) = 0 /\ ~s.limits[k].inclusive

Reply(execution, status, matched, margin) ==
    [execution |-> execution, status |-> status, matched |-> matched, margin |-> margin]
Unknown(matched) == Reply("completed", "unknown", matched, Absent)
Invalid          == Reply("invalid_request", "unknown", 0, Absent)

Conclude(m, s) ==
    IF \E k \in DOMAIN s.limits : ~Finite(MarginTo(m, s, k)) THEN Invalid
    ELSE Reply("completed", IF \E k \in DOMAIN s.limits : Violates(m, s, k) THEN "fail" ELSE "pass",
               Len(s.conditions), [value |-> MarginTo(m, s, Limiting(m, s)), to |-> Limiting(m, s)])

Evaluate(m, s) ==
    IF ~MeasurementFits(m) \/ ~SpecificationFits(s) \/ s.measurement # m.id THEN Invalid
    ELSE IF m.status # "measured" \/ ~UnitsMatch(m, s) THEN Unknown(0)
    ELSE IF ~Proven(m, s) THEN Unknown(Matched(m, s))
    ELSE Conclude(m, s)
-----------------------------------------------------------------------------
(* What a conclusion promises.                                             *)
Status(m, s)     == Evaluate(m, s).status
Concludes(m, s)  == Status(m, s) \in {"pass", "fail"}
MovedTo(m, s, w) == Status([m EXCEPT !.value = w], s)

(* The values that the limits leave.                                       *)
Leaves(k, limit, w) ==
    IF limit.inclusive THEN (IF k = "lower" THEN limit.value <= w ELSE w <= limit.value)
    ELSE (IF k = "lower" THEN limit.value < w ELSE w < limit.value)
Permitted(limits) == {w \in -Widest .. Widest : \A k \in DOMAIN limits : Leaves(k, limits[k], w)}

(* The margin is how far the value may move: every value strictly within   *)
(* it is judged alike, unless a margin of its own is not a finite number,  *)
(* and beyond the limit that it is measured to a passing value fails       *)
(* (evaluate_specification, from the comparison to the reported margin).   *)
MarginIsSafe(m, s) ==
    Concludes(m, s) =>
        LET margin  == Evaluate(m, s).margin
            inside  == IF margin.value < 0 THEN -margin.value ELSE margin.value
            outward == IF margin.to = "lower" THEN -1 ELSE 1
            past    == m.value + outward * (margin.value + 1)
        IN /\ (Status(m, s) = "pass") <=> (m.value \in Permitted(s.limits))
           /\ IF Status(m, s) = "pass" THEN margin.value >= 0 ELSE margin.value <= 0
           /\ \A w \in -Widest .. Widest :
                 w > m.value - inside /\ w < m.value + inside => MovedTo(m, s, w) \in {Status(m, s), "unknown"}
           /\ Finite(past) /\ Status(m, s) = "pass" => MovedTo(m, s, past) \in {"fail", "unknown"}

(* Nothing is concluded without the evidence: the value and the limits are *)
(* of one unit, and the measurement's sealed source binds each condition   *)
(* that is asked for to what is asked, once (the binding checks before the *)
(* comparison in evaluate_specification).                                  *)
EvidenceIsComplete(m, s) ==
    Concludes(m, s) =>
        LET bound == m.source.conditions
            asked == s.conditions
        IN /\ s.measurement = m.id /\ m.source.seal = bound
           /\ \A k \in DOMAIN s.limits : s.limits[k].unit = m.unit
           /\ \A i \in DOMAIN asked : \A j \in DOMAIN bound : bound[j].name = asked[i].name => bound[j] = asked[i]
           /\ \A i \in DOMAIN asked : \E j \in DOMAIN bound : bound[j].name = asked[i].name
VerdictIsSound(m, s) == MarginIsSafe(m, s) /\ EvidenceIsComplete(m, s)
=============================================================================
