-------------------------- MODULE MCTestbenchOracle --------------------------
(* Three stages that feed one another at corner tt, and a fourth for two    *)
(* other corners: a point with a settle policy that is refused (ss), and    *)
(* one that expands to more conditions than a report may have (ff).         *)
EXTENDS TestbenchOracle

CONSTANTS A, B, C, D, p1, p2, p3, p4, p5, p6, r1, r2, r3, r4, b1, b2, b3, m1, m3, v2, v4, g, tt, ss, ff

MCDependsOn == [s \in Stages |-> CASE s = B -> {A} [] s = C -> {A, B} [] OTHER -> {}]
MCPosition  == [x \in Stages \cup Points |->
                  CASE x \in {C, p1} -> 0 [] x \in {D, p2} -> 1 [] x \in {A, p3} -> 2
                    [] x \in {B, p4} -> 3 [] x = p5 -> 4 [] OTHER -> 5]
MCStageOf   == [p \in Points |-> CASE p \in {p1, p6} -> A [] p = p2 -> B [] p = p3 -> C [] OTHER -> D]
MCCornerOf  == [p \in Points |-> CASE p = p4 -> ss [] p = p5 -> ff [] OTHER -> tt]
MCGrid      == [p \in Points |-> CASE p \in {p1, p2} -> 2 [] p = p5 -> MaxConditions + 1 [] OTHER -> 1]
MCPointOf   == [r \in Rules |-> CASE r = r1 -> p1 [] r = r2 -> p2 [] r = r3 -> p3 [] OTHER -> p4]
MCFrom      == [b \in Bindings |-> CASE b = b1 -> p1 [] b = b2 -> p2 [] OTHER -> p6]
MCTo        == [b \in Bindings |-> IF b = b1 THEN B ELSE C]
MCSource    == [o \in Observables |->
                  CASE o = m1 -> [kind |-> "measurement", of |-> p1]
                    [] o = m3 -> [kind |-> "measurement", of |-> p3]
                    [] o = v2 -> [kind |-> "validity", of |-> r2]
                    [] o = v4 -> [kind |-> "validity", of |-> r4]
                    [] o = g  -> [kind |-> "stage_validity", of |-> D]]

Row(kind, observables, conditions, op, limit) ==
    [kind |-> kind, required |-> TRUE, observables |-> observables, conditions |-> conditions,
     op |-> op, limit |-> limit]

MCRows ==
    {Row("numeric", {m1, m3}, {}, "<=", 0),
     Row("invalid_detection_recall", {}, {}, ">=", 1),
     [Row("false_valid_rate", {}, {}, "<=", 0) EXCEPT !.required = FALSE],
     Row("lineage_presence", {m3, v2}, {}, ">=", 2)}

Exact(p) == Condition(p, 1, Pinned)
CompletenessRows == {Row("completeness", {v4, g}, {TopCorner, Exact(p4)}, ">=", 4)}
=============================================================================
