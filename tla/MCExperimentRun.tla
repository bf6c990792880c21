--------------------------- MODULE MCExperimentRun ---------------------------
(* An analysis with a measurement that a derivation subtracts from itself,  *)
(* and one that is only simulated; two interchangeable calls.               *)
EXTENDS ExperimentRun, TLC

CONSTANTS ac, op, vt, d

MCAnalysisOf == [x \in {vt} |-> ac]
MCParentsOf  == [x \in {d} |-> {vt}]

CallSymmetry == Permutations(Calls)
=============================================================================
