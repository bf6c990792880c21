------------------------- MODULE ExperimentRun_proofs -------------------------
(***************************************************************************)
(* Proofs about ExperimentRun: its types, that a directory holds the       *)
(* evidence of one call, that the evidence of a pass stood together, and   *)
(* that a pass is earned by every child, on the deck that was validated;   *)
(* about the judgement of measurements, SpecificationEvaluate, and about   *)
(* the verdicts of the sign-off drivers, Reports.                          *)
(***************************************************************************)
EXTENDS ExperimentRun, SpecificationEvaluate, Reports, WellFoundedInduction, FiniteSetTheorems, TLAPS

-----------------------------------------------------------------------------
(* The inductive invariant.                                                *)

Observing == {"select", "extract", "extracted", "measure", "measuring"}
InLoop    == {"simulate", "simulating", "capture", "inspect"} \cup Observing
Judging   == {"audit", "log", "final", "returned"}
Stages    == {"check", "spec", "base", "run", "refused", "broken"}
             \cup InLoop \cup Judging

Record0 == Files \X (Nat \ {0})

TypeInv ==
    /\ disk \in [Files -> Nat] /\ edits \in 0 .. MaxEdits
    /\ pc \in [Calls -> Stages]
    /\ todo \in [Calls -> SUBSET Children]
    /\ current \in [Calls -> (Analyses \cup {None}) \X (Measurements \cup {None})]
    /\ writing \in [Calls -> Files \cup {None}]
    /\ records \in [Calls -> SUBSET Record0]
    /\ deckRead \in [Calls -> [Analyses -> Nat]]
    /\ returned \in [Calls -> [Analyses -> [holds : SUBSET SimFacts, names : SUBSET Record0]]]
    /\ manifest \in [Calls -> [Children -> SUBSET Facts]]
    /\ unaudited \in [Calls -> SUBSET Files]
    /\ status \in [Calls -> {"running", "pass", "fail"}]
    /\ stood \in [Calls -> BOOLEAN]

Holds(c, a)  == returned[c][a].holds
Names(c, a)  == returned[c][a].names
Verdict(c, a) == manifest[c][<<"analysis", a>>]

(* Where the call is tells which analysis and measurement are under way.   *)
Here(c) ==
    /\ pc[c] \in InLoop =>
         /\ Analysis(c) \in Analyses
         /\ <<"simulate", Analysis(c)>> \notin todo[c]
         /\ Verdict(c, Analysis(c)) = {}
    /\ pc[c] \in Observing => Analysis(c) \in Observed
    /\ pc[c] \in {"simulate", "simulating"} =>
         /\ disk[<<"deck", Analysis(c)>>] > 0
         /\ returned[c][Analysis(c)] = NoEnvelope
    /\ pc[c] = "measuring" =>
         /\ current[c][2] \in Measurements
         /\ AnalysisOf[current[c][2]] = Analysis(c)

Written(c) == writing[c] # None => disk[writing[c]] > 0

Waiting(c) ==
    \A a \in Analyses : <<"simulate", a>> \in todo[c] =>
         Verdict(c, a) = {} /\ returned[c][a] = NoEnvelope

Place(c) == Here(c) /\ Written(c) /\ Waiting(c)

(* Digests only grow: a record was true once, and what is stale remains so. *)
Past(c) ==
    /\ \A r \in records[c] : r[2] <= disk[r[1]]
    /\ \A a \in Analyses : \A r \in Names(c, a) : r[2] <= disk[r[1]]
    /\ unaudited[c] \subseteq Retained(c)

Stale(c) == \E r \in records[c] : r[2] < disk[r[1]]

Good(c, a) ==
    /\ {"wellFormed", "passed", "bound", "raw"} \subseteq Holds(c, a)
    /\ "vectors" \in Holds(c, a) \/ Stale(c)

Extraction(c, a) == manifest[c][<<"extract", a>>] = ChildFacts

(***************************************************************************)
(* What an analysis that passed has behind it: a good envelope, but for    *)
(* the vectors of a raw file that is no longer the recorded one; its       *)
(* extraction; its measurements.                                           *)
(***************************************************************************)
Backed(c) ==
    /\ \A a \in Analyses : "bound" \in Holds(c, a) => deckRead[c][a] = 1
    /\ \A a \in Analyses : "raw" \in Holds(c, a) =>
         \E r \in Names(c, a) : r[1] = <<"raw", a>>
    /\ \A a \in Analyses : Verdict(c, a) # {} => Good(c, a)
    /\ \A a \in Observed : Verdict(c, a) # {} => Extraction(c, a)
    /\ \A m \in Measurements : Verdict(c, AnalysisOf[m]) # {} =>
         manifest[c][<<"measure", m>>] \in {{}, ChildFacts}
    /\ \A m \in Measurements : AnalysisOf[m] \notin Observed => manifest[c][<<"measure", m>>] = {}

(* And what the one under way has behind it so far.                        *)
Backing(c) ==
    /\ pc[c] = "inspect" =>
         "wellFormed" \in Holds(c, Analysis(c)) /\ Names(c, Analysis(c)) \subseteq records[c]
    /\ pc[c] \in Observing => Good(c, Analysis(c))
    /\ pc[c] \in {"measure", "measuring"} => Extraction(c, Analysis(c))

(***************************************************************************)
(* A status of pass after the judgement: every child passes, and unless    *)
(* the evidence stood there is a stale record that the final audit has     *)
(* still to look at.                                                       *)
(***************************************************************************)
Judged(c) ==
    /\ pc[c] \in Judging /\ status[c] = "pass" => ChildrenPass(c)
    /\ pc[c] \in {"final", "returned"} => writing[c] = None
    /\ pc[c] \in {"final", "returned"} /\ status[c] = "pass" =>
         /\ ~Conflict(c)
         /\ stood[c] \/ \E r \in records[c] : r[1] \in unaudited[c] /\ r[2] < disk[r[1]]
    /\ pc[c] = "returned" => unaudited[c] = {}
    /\ stood[c] => /\ pc[c] \in {"final", "returned", "broken"}
                   /\ \A a \in Analyses : Verdict(c, a) # {} => "vectors" \in Holds(c, a)

(* A call that has put the specification is the only one that has.         *)
Owns(c) == writing[c] # None \/ records[c] # {}
           \/ pc[c] \notin {"check", "spec", "refused", "broken"}
Directory ==
    /\ \A c \in Calls : Owns(c) => disk[<<"spec", None>>] > 0
    /\ \A c, d \in Calls : Owns(c) /\ Owns(d) => c = d

CallInv(c) == Place(c) /\ Past(c) /\ Backed(c) /\ Backing(c) /\ Judged(c)

IInv == TypeInv /\ Directory /\ \A c \in Calls : CallInv(c)

-----------------------------------------------------------------------------
(* Names of files and of children.                                         *)

(* The files that the code names are files of the run.                     *)
LEMMA FileNames ==
    /\ <<"spec", None>> \in Files /\ <<"base", None>> \in Files /\ <<"log", None>> \in Files
    /\ \A a \in Analyses : \A k \in {"deck", "bound", "raw", "sim", "selection", "extract"} :
         <<k, a>> \in Files
    /\ \A m \in Measurements : <<"request", m>> \in Files /\ <<"result", m>> \in Files
    /\ \A d \in Derivations : <<"derived", d>> \in Files
BY DEF Files

(* The children that the code names are children of the run.               *)
LEMMA ChildNames ==
    /\ \A a \in Analyses : <<"simulate", a>> \in Children /\ <<"analysis", a>> \in Children
    /\ \A a \in Observed : <<"extract", a>> \in Children
    /\ \A m \in Measurements : <<"measure", m>> \in Children
    /\ \A d \in Derivations : <<"derivation", d>> \in Children
BY DEF Children

(* A child of a kind is what that kind is about.                           *)
LEMMA ChildKinds ==
    ASSUME NEW k \in Children
    PROVE  /\ k[1] = "simulate" => k[2] \in Analyses /\ k = <<"simulate", k[2]>>
           /\ k[1] = "measure" => k[2] \in Measurements /\ k = <<"measure", k[2]>>
           /\ k[1] = "derivation" => k[2] \in Derivations /\ k = <<"derivation", k[2]>>
BY DEF Children

-----------------------------------------------------------------------------
(* What a step leaves alone.                                               *)

Same(d) ==
    /\ pc'[d] = pc[d] /\ todo'[d] = todo[d] /\ current'[d] = current[d]
    /\ writing'[d] = writing[d] /\ records'[d] = records[d]
    /\ deckRead'[d] = deckRead[d] /\ returned'[d] = returned[d]
    /\ manifest'[d] = manifest[d] /\ unaudited'[d] = unaudited[d]
    /\ status'[d] = status[d] /\ stood'[d] = stood[d]

Rise == disk' \in [Files -> Nat] /\ \A f \in Files : disk[f] <= disk'[f]

Shape ==
    /\ DOMAIN pc = Calls /\ DOMAIN todo = Calls /\ DOMAIN current = Calls
    /\ DOMAIN writing = Calls /\ DOMAIN records = Calls /\ DOMAIN deckRead = Calls
    /\ DOMAIN returned = Calls /\ DOMAIN manifest = Calls /\ DOMAIN unaudited = Calls
    /\ DOMAIN status = Calls /\ DOMAIN stood = Calls

(* The types give the domains.                                             *)
LEMMA ShapeOfType == TypeInv => Shape
BY DEF TypeInv, Shape

(* A step of one call leaves what the others hold.                         *)
LEMMA Frame ==
    ASSUME Shape, NEW c \in Calls, Step(c) \/ Break(c), NEW d \in Calls \ {c}
    PROVE  Same(d)
<1> USE DEF Shape, Same, progress, children, judged
<1>1. CASE Check(c)
    BY <1>1 DEF Check, Goto
<1>2. CASE PutInputs(c)
    BY <1>2 DEF PutInputs, At, Put, Goto
<1>3. CASE Record(c)
    BY <1>3 DEF Record, Retain
<1>4. CASE Begin(c)
    BY <1>4 DEF Begin, At, Left, Put, Goto
<1>5. CASE Simulate(c)
    BY <1>5 DEF Simulate, At, Goto, Analysis
<1>6. CASE Simulated(c)
    BY <1>6 DEF Simulated, Goto, Analysis, Cited
<1>7. CASE Capture(c)
    BY <1>7 DEF Capture, Goto, Abandon, Note, Retain, Analysis
<1>8. CASE Inspect(c)
    BY <1>8 DEF Inspect, Goto, Abandon, Note, Analysis
<1>9. CASE Select(c)
    BY <1>9 DEF Select, At, Put, Goto, Analysis
<1>10. CASE Extract(c)
    BY <1>10 DEF Extract, At, Put, Goto, Note, Analysis
<1>11. CASE Extracted(c)
    BY <1>11 DEF Extracted, At, Goto, Abandon
<1>12. CASE Request(c)
    BY <1>12 DEF Request, At, Due, Left, Put, Goto
<1>13. CASE Measure(c)
    BY <1>13 DEF Measure, At, Put, Goto, Note
<1>14. CASE Measured(c)
    BY <1>14 DEF Measured, At, Goto, Note, Analysis
<1>15. CASE Derive(c)
    BY <1>15 DEF Derive, NoneLeft, At, Left, Put, Goto, Note
<1>16. CASE Judge(c)
    BY <1>16 DEF Judge, NoneLeft, At, Goto
<1>17. CASE Audit(c)
    BY <1>17 DEF Audit
<1>18. CASE PutLog(c)
    BY <1>18 DEF PutLog, At, Put, Goto
<1>19. CASE AuditAgain(c)
    BY <1>19 DEF AuditAgain, At, Goto
<1>20. CASE Report(c)
    BY <1>20 DEF Report, At, Goto
<1>21. CASE Break(c)
    BY <1>21 DEF Break, Goto
<1> QED
    BY <1>1, <1>2, <1>3, <1>4, <1>5, <1>6, <1>7, <1>8, <1>9, <1>10, <1>11, <1>12, <1>13,
       <1>14, <1>15, <1>16, <1>17, <1>18, <1>19, <1>20, <1>21 DEF Step

(* A file is put where there was none; simulate and an edit add to a digest. *)
LEMMA Rises ==
    ASSUME disk \in [Files -> Nat], NEW c \in Calls, Step(c) \/ Break(c)
    PROVE  Rise
<1> USE DEF Rise, progress, children, judged
<1>1. CASE UNCHANGED disk
    BY <1>1
<1>2. ASSUME NEW f, NEW next, Put(c, f, next)
      PROVE  Rise
    <2>1. /\ disk' = [disk EXCEPT ![f] = 1]
          /\ disk[f] = 0
        BY <1>2 DEF Put
    <2>2. ASSUME NEW g \in Files
          PROVE  disk[g] <= disk'[g] /\ disk'[g] \in Nat
        <3>1. CASE g = f
            BY <2>1, <3>1
        <3>2. CASE g # f
            BY <2>1, <3>2
        <3> QED
            BY <3>1, <3>2
    <2> QED
        BY <2>1, <2>2
<1>3. CASE Simulated(c)
    <2> SUFFICES ASSUME NEW kept,
                        disk' = [f \in Files |-> disk[f] + IF f \in kept \X {Analysis(c)} THEN 1 ELSE 0]
                 PROVE  Rise
        BY <1>3 DEF Simulated
    <2> QED
        OBVIOUS
<1> QED
    BY <1>1, <1>2, <1>3 DEF Step, Check, PutInputs, Record, Begin, Simulate, Capture, Inspect,
       Select,
        Extract, Extracted, Request, Measure, Measured, Derive, Judge, Audit, PutLog, AuditAgain,
        Report, Break

-----------------------------------------------------------------------------
(* Types.                                                                  *)

(* The initial state is well typed.                                        *)
LEMMA TypeInit == Init => TypeInv
BY ExperimentAssumption DEF Init, TypeInv, Stages, InLoop, Children, NoEnvelope, Facts

(* What is taken first is one of those that are left.                      *)
LEMMA FirstIn == ASSUME NEW S, S # {} PROVE First(S) \in S
BY DEF First

(* Types of what moving on, putting, noting and retaining change.          *)
LEMMA GotoType ==
    ASSUME TypeInv, NEW c \in Calls, NEW next \in Stages, Goto(c, next)
    PROVE  pc' \in [Calls -> Stages]
BY DEF TypeInv, Goto

(* Putting a file keeps the types of the directory and of the call.        *)
LEMMA PutType ==
    ASSUME TypeInv, NEW c \in Calls, NEW f \in Files, NEW next \in Stages, Put(c, f, next)
    PROVE  /\ disk' \in [Files -> Nat]
           /\ writing' \in [Calls -> Files \cup {None}]
           /\ pc' \in [Calls -> Stages]
BY DEF TypeInv, Goto, Put

(* Noting what holds of a child keeps the manifest a manifest.             *)
LEMMA NoteType ==
    ASSUME TypeInv, NEW c \in Calls, NEW k \in Children, NEW facts \in SUBSET Facts,
           Note(c, k, facts)
    PROVE  manifest' \in [Calls -> [Children -> SUBSET Facts]]
<1> DEFINE m == [manifest[c] EXCEPT ![k] = facts]
<1>1. m \in [Children -> SUBSET Facts]
    BY DEF TypeInv
<1>2. manifest' = [manifest EXCEPT ![c] = m]
    BY DEF Note
<1> QED
    BY <1>1, <1>2 DEF TypeInv

(* Retaining records keeps the records records.                            *)
LEMMA RetainType ==
    ASSUME TypeInv, NEW c \in Calls, NEW rs \in SUBSET Record0, Retain(c, rs)
    PROVE  records' \in [Calls -> SUBSET Record0]
BY DEF TypeInv, Retain

(* What is retained are files.                                             *)
LEMMA RetainedType ==
    ASSUME TypeInv, NEW c \in Calls
    PROVE  Retained(c) \subseteq Files
BY DEF TypeInv, Retained, Record0

(* The tests that a step may note.                                         *)
LEMMA FactNames ==
    /\ SimFacts \subseteq Facts /\ ChildFacts \subseteq Facts /\ "retained" \in Facts
    /\ "complete" \in Facts /\ "raw" \in Facts
BY DEF Facts, SimFacts, ChildFacts

(* Every step keeps the types.                                             *)
LEMMA TypeNext == TypeInv /\ (\A c \in Calls : Place(c)) /\ [Next]_vars => TypeInv'
<1> SUFFICES ASSUME TypeInv, \A c \in Calls : Place(c), [Next]_vars
             PROVE  TypeInv'
    OBVIOUS
<1> USE DEF Stages, InLoop, Observing, Judging
<1>1. ASSUME NEW c \in Calls, Step(c) \/ Break(c)
      PROVE  TypeInv'
    <2> USE DEF progress, children, judged
    <2>0. disk' \in [Files -> Nat]
        BY <1>1, Rises DEF TypeInv, Rise
    <2>a. Place(c)
        OBVIOUS
    <2>1. CASE Check(c)
        BY <2>1, GotoType DEF Check, TypeInv
    <2>2. CASE PutInputs(c)
        BY <2>2, PutType, FileNames DEF PutInputs, TypeInv
    <2>3. CASE Record(c)
        <3> DEFINE f == writing[c]
        <3>1. f \in Files /\ disk[f] \in Nat \ {0}
            BY <2>3, <2>a DEF Record, TypeInv, Place, Here, Written
        <3>2. {<<f, disk[f]>>} \in SUBSET Record0
            BY <3>1 DEF Record0
        <3>3. records' \in [Calls -> SUBSET Record0]
            BY <2>3, <3>2, RetainType DEF Record
        <3> QED
            BY <2>3, <3>3 DEF Record, TypeInv
    <2>4. CASE Begin(c)
        <3> PICK k \in Left(c, "simulate") :
                 /\ todo' = [todo EXCEPT ![c] = @ \ {k}]
                 /\ current' = [current EXCEPT ![c] = <<k[2], None>>]
                 /\ Put(c, <<"deck", k[2]>>, "simulate")
            BY <2>4, FirstIn DEF Begin
        <3>1. k[2] \in Analyses /\ <<"deck", k[2]>> \in Files
            BY ChildKinds, FileNames DEF Left, TypeInv
        <3>2. /\ disk' \in [Files -> Nat]
              /\ writing' \in [Calls -> Files \cup {None}]
              /\ pc' \in [Calls -> Stages]
            BY <3>1, PutType
        <3>3. todo' \in [Calls -> SUBSET Children]
            BY DEF TypeInv
        <3>4. current' \in [Calls -> (Analyses \cup {None}) \X (Measurements \cup {None})]
            BY <3>1 DEF TypeInv
        <3> QED
            BY <2>4, <3>2, <3>3, <3>4 DEF Begin, TypeInv
    <2>5. CASE Simulate(c)
        <3> DEFINE a == Analysis(c)
        <3>1. a \in Analyses /\ disk[<<"deck", a>>] \in Nat
            BY <2>5, <2>a, FileNames DEF Simulate, At, Place, Here, Written, TypeInv
        <3>2. deckRead' \in [Calls -> [Analyses -> Nat]]
            BY <2>5, <3>1 DEF Simulate, TypeInv
        <3> QED
            BY <2>5, <3>2, GotoType DEF Simulate, TypeInv
    <2>6. CASE Simulated(c)
        <3> DEFINE a == Analysis(c)
        <3>1. a \in Analyses /\ disk[<<"deck", a>>] > 0
            BY <2>6, <2>a DEF Simulated, Place, Here, Written
        <3>2. PICK kept \in SUBSET {"bound", "raw", "sim"}, facts \in SUBSET SimFacts :
                /\ disk' = [f \in Files |-> disk[f] + IF f \in kept \X {a} THEN 1 ELSE 0]
                /\ returned' = [returned EXCEPT ![c][a] =
                     [holds |-> facts,
                      names |-> {<<f, Cited(f)>> : f \in ({"deck"} \cup (kept \ {"sim"})) \X {a}}]]
            BY <2>6 DEF Simulated
        <3> DEFINE names == {<<f, disk'[f]>> : f \in ({"deck"} \cup (kept \ {"sim"})) \X {a}}
        <3>3. ASSUME NEW f \in ({"deck"} \cup (kept \ {"sim"})) \X {a}
              PROVE  f \in Files /\ disk'[f] \in Nat \ {0}
            <4>1. f = <<f[1], a>> /\ f[1] \in {"deck", "bound", "raw"}
                BY <3>2
            <4>2. f \in Files
                BY <4>1, <3>1, FileNames
            <4>3. disk'[f] = disk[f] + IF f \in kept \X {a} THEN 1 ELSE 0
                BY <4>2, <3>2
            <4>4. CASE f[1] = "deck"
                <5>1. f = <<"deck", a>>
                    BY <4>1, <4>4
                <5>2. f \notin kept \X {a}
                    BY <4>4, <3>2
                <5> QED
                    BY <5>1, <5>2, <4>2, <4>3, <3>1 DEF TypeInv
            <4>5. CASE f[1] # "deck"
                <5>1. f \in kept \X {a}
                    BY <4>5
                <5> QED
                    BY <5>1, <4>2, <4>3 DEF TypeInv
            <4> QED
                BY <4>4, <4>5
        <3>4. names \in SUBSET Record0
            BY <3>3 DEF Record0
        <3>5. [holds |-> facts, names |-> names] \in [holds : SUBSET SimFacts, names : SUBSET Record0]
            BY <3>4
        <3>6. returned' = [returned EXCEPT ![c] = [returned[c] EXCEPT ![a] = [holds |-> facts, names |-> names]]]
            BY <3>2 DEF Cited
        <3>7. returned' \in [Calls -> [Analyses -> [holds : SUBSET SimFacts, names : SUBSET Record0]]]
            BY <3>1, <3>5, <3>6 DEF TypeInv
        <3> QED
            BY <2>6, <2>0, <3>7, GotoType DEF Simulated, TypeInv
    <2>7. CASE Capture(c)
        <3> DEFINE a == Analysis(c)
                   k == <<"simulate", a>>
        <3>1. a \in Analyses /\ k \in Children
            BY <2>7, <2>a, ChildNames DEF Capture, Place, Here, Written
        <3>2. pc' \in [Calls -> Stages]
            BY <2>7, GotoType DEF Capture, Abandon
        <3>3. manifest' \in [Calls -> [Children -> SUBSET Facts]]
            <4>1. PICK facts : Note(c, k, facts) /\ facts \subseteq SimFacts \cup {"retained"}
                <5>1. returned[c][a].holds \subseteq SimFacts
                    BY <3>1 DEF TypeInv
                <5> QED
                    BY <2>7, <5>1 DEF Capture, SimFacts
            <4> QED
                BY <4>1, <3>1, NoteType, FactNames
        <3>4. records' \in [Calls -> SUBSET Record0]
            <4>1. returned[c][a].names \subseteq Record0
                BY <3>1 DEF TypeInv
            <4>2. <<"sim", a>> \in Files
                BY <3>1, FileNames
            <4>4. disk[<<"sim", a>>] \in Nat
                BY <4>2 DEF TypeInv
            <4>3. ASSUME disk[<<"sim", a>>] >= 1
                  PROVE  <<<<"sim", a>>, disk[<<"sim", a>>]>> \in Record0
                <5>1. disk[<<"sim", a>>] \in Nat \ {0}
                    BY <4>3, <4>4
                <5> QED
                    BY <4>2, <5>1 DEF Record0
            <4>5. UNCHANGED records \/ \E rs \in SUBSET Record0 : Retain(c, rs)
                BY <2>7, <4>1, <4>3, <4>4 DEF Capture
            <4> QED
                BY <4>5, RetainType DEF TypeInv
        <3> QED
            BY <2>7, <3>2, <3>3, <3>4 DEF Capture, TypeInv
    <2>8. CASE Inspect(c)
        <3> DEFINE a == Analysis(c)
                   k == <<"simulate", a>>
                   named == manifest[c][k] \cup {"raw"}
        <3>1. a \in Analyses /\ k \in Children /\ <<"analysis", a>> \in Children
            BY <2>8, <2>a, ChildNames DEF Inspect, Place, Here, Written
        <3>2. pc' \in [Calls -> Stages]
            BY <2>8, GotoType DEF Inspect, Abandon
        <3>3. named \in SUBSET Facts
            BY <3>1, FactNames DEF TypeInv
        <3>4. Note(c, k, named) => manifest' \in [Calls -> [Children -> SUBSET Facts]]
            BY <3>1, <3>3, NoteType
        <3>5. manifest' = [manifest EXCEPT ![c][k] = named, ![c][<<"analysis", a>>] = {"complete"}]
              => manifest' \in [Calls -> [Children -> SUBSET Facts]]
            <4> DEFINE m == [manifest[c] EXCEPT ![k] = named]
                       n == [m EXCEPT ![<<"analysis", a>>] = {"complete"}]
            <4>1. m \in [Children -> SUBSET Facts]
                BY <3>1, <3>3 DEF TypeInv
            <4>2. n \in [Children -> SUBSET Facts]
                BY <4>1, <3>1, FactNames
            <4>3. [manifest EXCEPT ![c][k] = named, ![c][<<"analysis", a>>] = {"complete"}]
                  = [manifest EXCEPT ![c] = n]
                BY DEF TypeInv
            <4> HIDE DEF n
            <4>4. [manifest EXCEPT ![c] = n] \in [Calls -> [Children -> SUBSET Facts]]
                BY <4>2 DEF TypeInv
            <4> QED
                BY <4>3, <4>4
        <3>6. manifest' \in [Calls -> [Children -> SUBSET Facts]]
            BY <2>8, <3>4, <3>5 DEF Inspect, TypeInv
        <3> QED
            BY <2>8, <3>2, <3>6 DEF Inspect, TypeInv
    <2>9. CASE Select(c)
        <3>1. <<"selection", Analysis(c)>> \in Files
            BY <2>9, <2>a, FileNames DEF Select, At, Place, Here, Written
        <3> QED
            BY <2>9, <3>1, PutType DEF Select, TypeInv
    <2>10. CASE Extract(c)
        <3> DEFINE a == Analysis(c)
        <3>1. <<"extract", a>> \in Files /\ <<"extract", a>> \in Children
            BY <2>10, <2>a, FileNames, ChildNames DEF Extract, At, Place, Here, Written
        <3>2. manifest' \in [Calls -> [Children -> SUBSET Facts]]
            BY <2>10, <3>1, NoteType, FactNames DEF Extract
        <3>3. /\ writing' \in [Calls -> Files \cup {None}]
              /\ pc' \in [Calls -> Stages]
            BY <2>10, <3>1, PutType DEF Extract
        <3> QED
            BY <2>10, <2>0, <3>2, <3>3 DEF Extract, TypeInv
    <2>11. CASE Extracted(c)
        BY <2>11, GotoType DEF Extracted, Abandon, TypeInv
    <2>12. CASE Request(c)
        <3> PICK k \in Due(c) :
                 /\ todo' = [todo EXCEPT ![c] = @ \ {k}]
                 /\ current' = [current EXCEPT ![c][2] = k[2]]
                 /\ Put(c, <<"request", k[2]>>, "measuring")
            BY <2>12, FirstIn DEF Request
        <3>1. k[2] \in Measurements /\ <<"request", k[2]>> \in Files
            BY ChildKinds, FileNames DEF Due, Left, TypeInv
        <3>2. /\ disk' \in [Files -> Nat]
              /\ writing' \in [Calls -> Files \cup {None}]
              /\ pc' \in [Calls -> Stages]
            BY <3>1, PutType
        <3>3. current' \in [Calls -> (Analyses \cup {None}) \X (Measurements \cup {None})]
            <4> DEFINE p == [current[c] EXCEPT ![2] = k[2]]
            <4>1. current[c] \in (Analyses \cup {None}) \X (Measurements \cup {None})
                BY DEF TypeInv
            <4>2. p = <<current[c][1], k[2]>>
                BY <4>1
            <4>3. p \in (Analyses \cup {None}) \X (Measurements \cup {None})
                BY <4>1, <4>2, <3>1
            <4>4. current' = [current EXCEPT ![c] = p]
                OBVIOUS
            <4> HIDE DEF p
            <4> QED
                BY ZenonT(30), <4>3, <4>4 DEF TypeInv
        <3> QED
            BY <2>12, <3>2, <3>3 DEF Request, TypeInv
    <2>13. CASE Measure(c)
        <3> DEFINE m == current[c][2]
        <3>1. <<"result", m>> \in Files /\ <<"measure", m>> \in Children
            BY <2>13, <2>a, FileNames, ChildNames DEF Measure, At, Place, Here, Written
        <3>2. manifest' \in [Calls -> [Children -> SUBSET Facts]]
            BY <2>13, <3>1, NoteType, FactNames DEF Measure
        <3>3. /\ writing' \in [Calls -> Files \cup {None}]
              /\ pc' \in [Calls -> Stages]
            BY <2>13, <3>1, PutType DEF Measure
        <3> QED
            BY <2>13, <2>0, <3>2, <3>3 DEF Measure, TypeInv
    <2>14. CASE Measured(c)
        <3>1. <<"analysis", Analysis(c)>> \in Children
            BY <2>14, <2>a, ChildNames DEF Measured, At, Place, Here, Written
        <3>2. PICK facts \in {{}, {"complete"}} : Note(c, <<"analysis", Analysis(c)>>, facts)
            BY <2>14 DEF Measured
        <3>3. manifest' \in [Calls -> [Children -> SUBSET Facts]]
            BY <3>1, <3>2, NoteType, FactNames
        <3> QED
            BY <2>14, <3>3, GotoType DEF Measured, TypeInv
    <2>15. CASE Derive(c)
        <3>1. PICK k \in Left(c, "derivation") :
                 /\ todo' = [todo EXCEPT ![c] = @ \ {k}]
                 /\ \/ /\ Note(c, k, {"complete"})
                       /\ Put(c, <<"derived", k[2]>>, "run")
                    \/ UNCHANGED <<disk, pc, writing, manifest>>
            BY <2>15, FirstIn DEF Derive
        <3>2. k \in Children /\ <<"derived", k[2]>> \in Files
            BY ChildKinds, FileNames DEF Left, TypeInv
        <3>3. manifest' \in [Calls -> [Children -> SUBSET Facts]]
            BY <3>1, <3>2, NoteType, FactNames DEF TypeInv
        <3>4. /\ writing' \in [Calls -> Files \cup {None}]
              /\ pc' \in [Calls -> Stages]
            BY <3>1, <3>2, PutType DEF TypeInv
        <3>5. todo' \in [Calls -> SUBSET Children]
            BY <3>1 DEF TypeInv
        <3> QED
            BY <2>15, <2>0, <3>3, <3>4, <3>5 DEF Derive, TypeInv
    <2>16. CASE Judge(c)
        BY <2>16, GotoType, RetainedType DEF Judge, TypeInv
    <2>17. CASE Audit(c)
        BY <2>17 DEF Audit, TypeInv
    <2>18. CASE PutLog(c)
        BY <2>18, PutType, FileNames DEF PutLog, TypeInv
    <2>19. CASE AuditAgain(c)
        BY <2>19, GotoType, RetainedType DEF AuditAgain, Stands, TypeInv
    <2>20. CASE Report(c)
        BY <2>20, GotoType DEF Report, TypeInv
    <2>21. CASE Break(c)
        BY <2>21, GotoType DEF Break, NoEnvelope, TypeInv
    <2> QED
        BY <1>1, <2>1, <2>2, <2>3, <2>4, <2>5, <2>6, <2>7, <2>8, <2>9, <2>10, <2>11, <2>12,
           <2>13, <2>14, <2>15, <2>16, <2>17, <2>18, <2>19, <2>20, <2>21 DEF Step
<1>2. CASE Edit
    <2>1. edits' \in 0 .. MaxEdits
        BY <1>2, ExperimentAssumption DEF Edit, TypeInv
    <2> QED
        BY <1>2, <2>1 DEF Edit, progress, children, judged, TypeInv
<1>3. CASE UNCHANGED vars
    BY <1>3 DEF vars, progress, children, judged, TypeInv
<1> QED
    BY <1>1, <1>2, <1>3 DEF Next, AllEnded

-----------------------------------------------------------------------------
(* What a step does to its own call.                                       *)

(* Noting changes the entry of one child.                                  *)
LEMMA NoteEffect ==
    ASSUME TypeInv, NEW c \in Calls, NEW k \in Children, NEW facts, Note(c, k, facts)
    PROVE  /\ manifest'[c][k] = facts
           /\ \A l \in Children \ {k} : manifest'[c][l] = manifest[c][l]
BY DEF Note, TypeInv

(* Noting another child leaves an analysis's own state.                    *)
LEMMA NoteVerdict ==
    ASSUME TypeInv, NEW c \in Calls, NEW k \in Children, NEW facts, Note(c, k, facts),
           NEW a \in Analyses, k # <<"analysis", a>>
    PROVE  Verdict(c, a)' = Verdict(c, a)
<1>1. <<"analysis", a>> \in Children \ {k}
    BY ChildNames
<1>2. \A l \in Children \ {k} : manifest'[c][l] = manifest[c][l]
    BY NoteEffect
<1> QED
    BY <1>1, <1>2 DEF Verdict

(* Putting a file moves the call on and makes the file.                    *)
LEMMA PutEffect ==
    ASSUME TypeInv, NEW c \in Calls, NEW f \in Files, NEW next, Put(c, f, next)
    PROVE  /\ pc'[c] = next /\ writing'[c] = f
           /\ disk[f] = 0 /\ disk'[f] = 1
BY DEF Put, Goto, TypeInv

-----------------------------------------------------------------------------
(* Records and digests.                                                    *)

(* A digest at or below that of its file stays so.                         *)
LEMMA Later ==
    ASSUME TypeInv, Rise, NEW r \in Record0, r[2] <= disk[r[1]]
    PROVE  r[2] <= disk'[r[1]]
<1>1. r[1] \in Files /\ r[2] \in Nat
    BY DEF Record0
<1>2. disk[r[1]] \in Nat /\ disk'[r[1]] \in Nat /\ disk[r[1]] <= disk'[r[1]]
    BY <1>1 DEF Rise, TypeInv
<1> QED
    BY <1>1, <1>2

(* What was recorded stays in the past of a directory that only rises.     *)
LEMMA PastKept ==
    ASSUME TypeInv, Rise, NEW c \in Calls, Past(c),
           records'[c] = records[c], returned'[c] = returned[c],
           unaudited'[c] \subseteq unaudited[c] \/ unaudited'[c] = Retained(c)
    PROVE  Past(c)'
<1>2. records[c] \subseteq Record0 /\ \A a \in Analyses : Names(c, a) \subseteq Record0
    BY DEF TypeInv, Names
<1>3. \A r \in Record0 : r[2] <= disk[r[1]] => r[2] <= disk'[r[1]]
    BY Later
<1> QED
    BY <1>2, <1>3 DEF Past, Names, Retained

(* Every step of a call keeps its records in the past.                     *)
LEMMA PastNext ==
    ASSUME TypeInv, TypeInv', NEW c \in Calls, Place(c), Past(c), Step(c) \/ Break(c)
    PROVE  Past(c)'
<1>0. Rise
    BY Rises DEF TypeInv
<1> USE DEF progress, children, judged
<1>1. CASE Check(c)
    BY <1>0, <1>1, PastKept DEF Check, TypeInv
<1>2. CASE PutInputs(c)
    BY <1>0, <1>2, PastKept DEF PutInputs, TypeInv
<1>3. CASE Begin(c)
    BY <1>0, <1>3, PastKept DEF Begin, TypeInv
<1>4. CASE Simulate(c)
    BY <1>0, <1>4, PastKept DEF Simulate, TypeInv
<1>5. CASE Inspect(c)
    BY <1>0, <1>5, PastKept DEF Inspect, TypeInv
<1>6. CASE Select(c)
    BY <1>0, <1>6, PastKept DEF Select, TypeInv
<1>7. CASE Extract(c)
    BY <1>0, <1>7, PastKept DEF Extract, TypeInv
<1>8. CASE Extracted(c)
    BY <1>0, <1>8, PastKept DEF Extracted, TypeInv
<1>9. CASE Request(c)
    BY <1>0, <1>9, PastKept DEF Request, TypeInv
<1>10. CASE Measure(c)
    BY <1>0, <1>10, PastKept DEF Measure, TypeInv
<1>11. CASE Measured(c)
    BY <1>0, <1>11, PastKept DEF Measured, TypeInv
<1>12. CASE Derive(c)
    BY <1>0, <1>12, PastKept DEF Derive, TypeInv
<1>13. CASE Judge(c)
    BY <1>0, <1>13, PastKept DEF Judge, TypeInv
<1>14. CASE Audit(c)
    BY <1>0, <1>14, PastKept DEF Audit, TypeInv
<1>15. CASE PutLog(c)
    BY <1>0, <1>15, PastKept DEF PutLog, TypeInv
<1>16. CASE AuditAgain(c)
    BY <1>0, <1>16, PastKept DEF AuditAgain, TypeInv
<1>17. CASE Report(c)
    BY <1>0, <1>17, PastKept DEF Report, TypeInv
<1>21. CASE Record(c)
    <2>1. writing[c] \in Files /\ records'[c] = records[c] \cup {<<writing[c], disk[writing[c]]>>}
        BY <1>21 DEF Record, Retain, TypeInv
    <2>2. disk' = disk /\ returned'[c] = returned[c] /\ unaudited'[c] = unaudited[c]
        BY <1>21 DEF Record
    <2>3. disk[writing[c]] <= disk[writing[c]]
        BY <2>1 DEF TypeInv
    <2> QED
        BY <2>1, <2>2, <2>3 DEF Past, Names, Retained
<1>22. CASE Simulated(c)
    <2> DEFINE a == Analysis(c)
    <2>1. a \in Analyses /\ records'[c] = records[c] /\ unaudited'[c] = unaudited[c]
        BY <1>22 DEF Simulated, Place, Here, Written, InLoop
    <2>2. /\ \A r \in returned'[c][a].names : r[2] = disk'[r[1]]
          /\ \A b \in Analyses \ {a} : returned'[c][b] = returned[c][b]
        BY <1>22, <2>1 DEF Simulated, Cited, TypeInv
    <2>3. \A r \in Record0 : r[2] <= disk[r[1]] => r[2] <= disk'[r[1]]
        BY <1>0, Later
    <2>4. \A b \in Analyses : \A r \in Names(c, b)' : r[2] <= disk'[r[1]]
        <3> SUFFICES ASSUME NEW b \in Analyses, NEW r \in Names(c, b)'
                     PROVE  r[2] <= disk'[r[1]]
            OBVIOUS
        <3>1. r \in Record0
            BY DEF TypeInv, Names
        <3>2. CASE b = a
            BY <3>1, <3>2, <2>2 DEF Record0, Names
        <3>3. CASE b # a
            BY <3>1, <3>3, <2>2, <2>3 DEF Past, Names
        <3> QED
            BY <3>2, <3>3
    <2>5. \A r \in records'[c] : r[2] <= disk'[r[1]]
        BY <2>1, <2>3 DEF Past, TypeInv
    <2> QED
        BY <2>1, <2>4, <2>5 DEF Past, Retained
<1>23. CASE Capture(c)
    <2> DEFINE a == Analysis(c)
               sim == <<<<"sim", a>>, disk[<<"sim", a>>]>>
    <2>1. a \in Analyses /\ disk[<<"sim", a>>] \in Nat
        BY <1>23, FileNames DEF Capture, Place, Here, Written, InLoop, TypeInv
    <2>2. records[c] \subseteq records'[c]
          /\ records'[c] \subseteq records[c] \cup Names(c, a) \cup {sim}
        <3>1. UNCHANGED records \/ Retain(c, Names(c, a) \cup {sim}) \/ Retain(c, {sim})
            BY <1>23 DEF Capture, Names
        <3> HIDE DEF sim
        <3> QED
            BY <3>1 DEF Retain, TypeInv
    <2>3. disk' = disk /\ returned'[c] = returned[c] /\ unaudited'[c] = unaudited[c]
        BY <1>23 DEF Capture
    <2>4. \A r \in records'[c] : r[2] <= disk[r[1]]
        BY <2>1, <2>2 DEF Past
    <2> QED
        BY <2>2, <2>3, <2>4 DEF Past, Names, Retained
<1>24. CASE Break(c)
    BY <1>24 DEF Break, Past, Names, NoEnvelope, Retained, TypeInv
<1> QED
    BY <1>1, <1>2, <1>3, <1>4, <1>5, <1>6, <1>7, <1>8, <1>9, <1>10, <1>11, <1>12, <1>13,
       <1>14, <1>15, <1>16, <1>17, <1>21, <1>22, <1>23, <1>24 DEF Step

-----------------------------------------------------------------------------
(* Where a call is.                                                        *)

(* A file that is being written is there.                                  *)
LEMMA PutWritten ==
    ASSUME TypeInv, TypeInv', NEW c \in Calls, NEW f, NEW next, Put(c, f, next)
    PROVE  Written(c)'
<1>1. writing'[c] = f /\ disk' = [disk EXCEPT ![f] = 1]
    BY DEF Put, TypeInv
<1>2. f # None => f \in Files
    BY <1>1 DEF TypeInv
<1> QED
    BY <1>1, <1>2 DEF Written, TypeInv

(* Every step of a call keeps the file it is writing there.                *)
LEMMA WrittenNext ==
    ASSUME TypeInv, TypeInv', NEW c \in Calls, Written(c), Step(c) \/ Break(c)
    PROVE  Written(c)'
<1>0. Rise
    BY Rises DEF TypeInv
<1>a. ASSUME writing'[c] \in {None, writing[c]}
      PROVE  Written(c)'
    <2> SUFFICES ASSUME writing'[c] # None
                 PROVE  disk'[writing[c]] > 0 /\ writing'[c] = writing[c]
        BY DEF Written
    <2>1. writing[c] \in Files /\ writing'[c] = writing[c] /\ disk[writing[c]] > 0
        BY <1>a DEF TypeInv, Written
    <2> QED
        BY <1>0, <2>1 DEF Rise, TypeInv
<1>b. ASSUME NEW f, NEW next, Put(c, f, next)
      PROVE  Written(c)'
    BY <1>b, PutWritten
<1> USE DEF progress, children, judged
<1>1. CASE Check(c)
    BY <1>1, <1>a DEF Check, TypeInv
<1>2. CASE Record(c)
    BY <1>2, <1>a DEF Record, TypeInv
<1>3. CASE Simulate(c)
    BY <1>3, <1>a DEF Simulate, TypeInv
<1>4. CASE Simulated(c)
    BY <1>4, <1>a DEF Simulated, TypeInv
<1>5. CASE Capture(c)
    BY <1>5, <1>a DEF Capture, TypeInv
<1>6. CASE Inspect(c)
    BY <1>6, <1>a DEF Inspect, TypeInv
<1>7. CASE Extracted(c)
    BY <1>7, <1>a DEF Extracted, TypeInv
<1>8. CASE Measured(c)
    BY <1>8, <1>a DEF Measured, TypeInv
<1>9. CASE Judge(c)
    BY <1>9, <1>a DEF Judge, TypeInv
<1>10. CASE Audit(c)
    BY <1>10, <1>a DEF Audit, TypeInv
<1>11. CASE AuditAgain(c)
    BY <1>11, <1>a DEF AuditAgain, TypeInv
<1>12. CASE Report(c)
    BY <1>12, <1>a DEF Report, TypeInv
<1>13. CASE Break(c)
    BY <1>13, <1>a DEF Break, TypeInv
<1>14. CASE PutInputs(c)
    BY <1>14, <1>b DEF PutInputs
<1>15. CASE Begin(c)
    BY <1>15, <1>b DEF Begin
<1>16. CASE Select(c)
    BY <1>16, <1>b DEF Select
<1>17. CASE Extract(c)
    BY <1>17, <1>b DEF Extract
<1>18. CASE Request(c)
    BY <1>18, <1>b DEF Request
<1>19. CASE Measure(c)
    BY <1>19, <1>b DEF Measure
<1>20. CASE Derive(c)
    BY <1>20, <1>a, <1>b DEF Derive
<1>21. CASE PutLog(c)
    BY <1>21, <1>b DEF PutLog
<1> QED
    BY <1>1, <1>2, <1>3, <1>4, <1>5, <1>6, <1>7, <1>8, <1>9, <1>10, <1>11, <1>12, <1>13,
       <1>14, <1>15, <1>16, <1>17, <1>18, <1>19, <1>20, <1>21 DEF Step

(* Every step of a call keeps what waits untouched.                        *)
LEMMA WaitingNext ==
    ASSUME TypeInv, TypeInv', NEW c \in Calls, Here(c), Waiting(c), Step(c) \/ Break(c)
    PROVE  Waiting(c)'
<1>a. ASSUME todo'[c] \subseteq todo[c],
             \A a \in Analyses : <<"simulate", a>> \in todo[c] =>
                /\ Verdict(c, a)' \in {{}, Verdict(c, a)}
                /\ returned'[c][a] \in {NoEnvelope, returned[c][a]}
      PROVE  Waiting(c)'
    BY <1>a DEF Waiting
<1> USE DEF progress, children, judged, Verdict
<1>1. CASE Check(c)
    BY <1>1, <1>a DEF Check, TypeInv
<1>2. CASE PutInputs(c)
    BY <1>2, <1>a DEF PutInputs, TypeInv
<1>3. CASE Record(c)
    BY <1>3, <1>a DEF Record, TypeInv
<1>4. CASE Begin(c)
    BY <1>4, <1>a DEF Begin, TypeInv
<1>5. CASE Simulate(c)
    BY <1>5, <1>a DEF Simulate, TypeInv
<1>6. CASE Select(c)
    BY <1>6, <1>a DEF Select, TypeInv
<1>7. CASE Extracted(c)
    BY <1>7, <1>a DEF Extracted, TypeInv
<1>8. CASE Request(c)
    BY <1>8, <1>a DEF Request, TypeInv
<1>9. CASE Judge(c)
    BY <1>9, <1>a DEF Judge, TypeInv
<1>10. CASE Audit(c)
    BY <1>10, <1>a DEF Audit, TypeInv
<1>11. CASE PutLog(c)
    BY <1>11, <1>a DEF PutLog, TypeInv
<1>12. CASE AuditAgain(c)
    BY <1>12, <1>a DEF AuditAgain, TypeInv
<1>13. CASE Report(c)
    BY <1>13, <1>a DEF Report, TypeInv
<1>14. CASE Capture(c)
    <2>1. PICK facts : Note(c, <<"simulate", Analysis(c)>>, facts)
        BY <1>14 DEF Capture
    <2>2. Analysis(c) \in Analyses /\ <<"simulate", Analysis(c)>> \in Children
        BY <1>14, ChildNames DEF Capture, Here, InLoop
    <2>3. \A a \in Analyses : Verdict(c, a)' = Verdict(c, a)
        BY <2>1, <2>2, NoteVerdict
    <2> QED
        BY <1>14, <1>a, <2>3 DEF Capture
<1>15. CASE Inspect(c)
    <2> DEFINE a == Analysis(c)
               k == <<"simulate", a>>
    <2>2. a \in Analyses /\ k \in Children /\ k \notin todo[c]
        BY <1>15, ChildNames DEF Inspect, Here, InLoop
    <2>3. ASSUME NEW b \in Analyses, b # a
          PROVE  Verdict(c, b)' = Verdict(c, b)
        <3>1. <<"analysis", b>> \in Children /\ <<"analysis", b>> # k /\ <<"analysis", b>> # <<"analysis", a>>
            BY <2>3, ChildNames
        <3>2. CASE UNCHANGED manifest
            BY <3>2
        <3>3. CASE \E facts : Note(c, k, facts)
            BY <2>2, <3>1, <3>3, NoteEffect
        <3>4. CASE \E facts : manifest' = [manifest EXCEPT ![c][k] = facts,
                                             ![c][<<"analysis", a>>] = {"complete"}]
            BY <2>2, <3>1, <3>4 DEF TypeInv
        <3> QED
            BY <1>15, <3>2, <3>3, <3>4 DEF Inspect
    <2> QED
        BY <1>15, <1>a, <2>2, <2>3 DEF Inspect
<1>16. CASE Extract(c)
    <2>1. PICK facts : Note(c, <<"extract", Analysis(c)>>, facts)
        BY <1>16 DEF Extract
    <2>2. <<"extract", Analysis(c)>> \in Children
        BY <1>16, ChildNames DEF Extract, At, Here, InLoop, Observing
    <2>3. \A b \in Analyses : Verdict(c, b)' = Verdict(c, b)
        BY <2>1, <2>2, NoteVerdict
    <2> QED
        BY <1>16, <1>a, <2>3 DEF Extract
<1>17. CASE Measure(c)
    <2>1. PICK facts : Note(c, <<"measure", current[c][2]>>, facts)
        BY <1>17 DEF Measure
    <2>2. <<"measure", current[c][2]>> \in Children
        BY <1>17, ChildNames DEF Measure, At, Here, InLoop, Observing
    <2>3. \A b \in Analyses : Verdict(c, b)' = Verdict(c, b)
        BY <2>1, <2>2, NoteVerdict
    <2> QED
        BY <1>17, <1>a, <2>3 DEF Measure
<1>18. CASE Measured(c)
    <2> DEFINE a == Analysis(c)
    <2>1. PICK facts : Note(c, <<"analysis", a>>, facts)
        BY <1>18 DEF Measured
    <2>2. a \in Analyses /\ <<"simulate", a>> \notin todo[c]
        BY <1>18 DEF Measured, At, Here, InLoop, Observing
    <2>3. ASSUME NEW b \in Analyses \ {a}
          PROVE  Verdict(c, b)' = Verdict(c, b)
        <3>1. <<"analysis", a>> # <<"analysis", b>> /\ <<"analysis", a>> \in Children
            BY <2>2, ChildNames
        <3> QED
            BY <2>1, <3>1, NoteVerdict
    <2> QED
        BY <1>18, <1>a, <2>2, <2>3 DEF Measured
<1>19. CASE Derive(c)
    <2>1. PICK k \in Left(c, "derivation") :
             (\E facts : Note(c, k, facts)) \/ UNCHANGED manifest
        BY <1>19, FirstIn DEF Derive
    <2>2. k \in Children /\ k[1] = "derivation"
        BY DEF Left, TypeInv
    <2>3. ASSUME NEW b \in Analyses
          PROVE  Verdict(c, b)' = Verdict(c, b)
        <3>1. k # <<"analysis", b>>
            BY <2>2
        <3>2. CASE UNCHANGED manifest
            BY <3>2 DEF Verdict
        <3>3. CASE \E facts : Note(c, k, facts)
            BY <2>2, <3>1, <3>3, NoteVerdict
        <3> QED
            BY <2>1, <3>2, <3>3
    <2>4. todo'[c] \subseteq todo[c]
        BY <1>19 DEF Derive, TypeInv
    <2> QED
        BY <1>19, <1>a, <2>3, <2>4 DEF Derive
<1>20. CASE Simulated(c)
    <2> DEFINE a == Analysis(c)
    <2>1. a \in Analyses /\ <<"simulate", a>> \notin todo[c]
        BY <1>20 DEF Simulated, Here, InLoop
    <2>2. \A b \in Analyses \ {a} : returned'[c][b] = returned[c][b]
        BY <1>20 DEF Simulated, TypeInv
    <2> QED
        BY <1>20, <1>a, <2>1, <2>2 DEF Simulated
<1>21. CASE Break(c)
    <2>1. manifest'[c] = [k \in Children |-> {}]
        BY <1>21 DEF Break, TypeInv
    <2>2. returned'[c] = [a \in Analyses |-> NoEnvelope]
        BY <1>21 DEF Break, TypeInv
    <2>3. \A a \in Analyses : Verdict(c, a)' = {} /\ returned'[c][a] = NoEnvelope
        BY <2>1, <2>2, ChildNames
    <2> QED
        BY <2>3 DEF Waiting
<1> QED
    BY <1>1, <1>2, <1>3, <1>4, <1>5, <1>6, <1>7, <1>8, <1>9, <1>10, <1>11, <1>12, <1>13,
       <1>14, <1>15, <1>16, <1>17, <1>18, <1>19, <1>20, <1>21 DEF Step

(* Every step of a call keeps what its place says.                         *)
LEMMA HereNext ==
    ASSUME TypeInv, TypeInv', NEW c \in Calls, Here(c), Waiting(c), Step(c) \/ Break(c)
    PROVE  Here(c)'
<1>0. Rise
    BY Rises DEF TypeInv
<1>a. ASSUME pc'[c] \notin InLoop
      PROVE  Here(c)'
    BY <1>a DEF Here, InLoop, Observing
<1>b. ASSUME pc[c] \in InLoop, Analysis(c)' = Analysis(c), todo'[c] \subseteq todo[c],
             Verdict(c, Analysis(c))' = Verdict(c, Analysis(c)),
             pc'[c] \in Observing => pc[c] \in Observing \/ Analysis(c) \in Observed,
             pc'[c] \in {"simulate", "simulating"} =>
                pc[c] \in {"simulate", "simulating"} /\ returned'[c] = returned[c],
             pc'[c] = "measuring" => pc[c] = "measuring" /\ current'[c] = current[c]
      PROVE  Here(c)'
    <2>1. Analysis(c) \in Analyses /\ <<"deck", Analysis(c)>> \in Files
        BY <1>b, FileNames DEF Here
    <2>2. disk[<<"deck", Analysis(c)>>] \in Nat /\ disk'[<<"deck", Analysis(c)>>] \in Nat
          /\ disk[<<"deck", Analysis(c)>>] <= disk'[<<"deck", Analysis(c)>>]
        BY <1>0, <2>1 DEF Rise, TypeInv
    <2>3. disk[<<"deck", Analysis(c)>>] > 0 => disk'[<<"deck", Analysis(c)>>] > 0
        BY <2>2
    <2>4. Verdict(c, Analysis(c))' = manifest'[c][<<"analysis", Analysis(c)>>]
        BY <1>b DEF Verdict
    <2> QED
        BY <1>b, <2>1, <2>3, <2>4 DEF Here, Verdict
<1> USE DEF progress, children, judged
<1>1. CASE Check(c)
    BY <1>1, <1>a DEF Check, Goto, TypeInv, InLoop, Observing
<1>2. CASE PutInputs(c)
    BY <1>2, <1>a DEF PutInputs, Goto, Put, At, TypeInv, InLoop, Observing
<1>3. CASE Measured(c)
    BY <1>3, <1>a DEF Measured, Goto, At, TypeInv, InLoop, Observing
<1>4. CASE Derive(c)
    BY <1>4, <1>a DEF Derive, NoneLeft, Goto, Put, At, TypeInv, InLoop, Observing
<1>5. CASE Judge(c)
    BY <1>5, <1>a DEF Judge, NoneLeft, Goto, At, TypeInv, InLoop, Observing
<1>6. CASE Audit(c)
    BY <1>6, <1>a DEF Audit, TypeInv, InLoop, Observing
<1>7. CASE PutLog(c)
    BY <1>7, <1>a DEF PutLog, Goto, Put, At, TypeInv, InLoop, Observing
<1>8. CASE AuditAgain(c)
    BY <1>8, <1>a DEF AuditAgain, Goto, At, TypeInv, InLoop, Observing
<1>9. CASE Report(c)
    BY <1>9, <1>a DEF Report, Goto, At, TypeInv, InLoop, Observing
<1>10. CASE Break(c)
    BY <1>10, <1>a DEF Break, Goto, TypeInv, InLoop, Observing
<1>11. CASE Record(c)
    <2>1. CASE pc[c] \in InLoop
        BY <1>11, <1>b, <2>1 DEF Record, Analysis, Verdict
    <2>2. CASE pc[c] \notin InLoop
        BY <1>11, <1>a, <2>2 DEF Record
    <2> QED
        BY <2>1, <2>2
<1>12. CASE Begin(c)
    <2> PICK k \in Left(c, "simulate") :
             /\ todo' = [todo EXCEPT ![c] = @ \ {k}]
             /\ current' = [current EXCEPT ![c] = <<k[2], None>>]
             /\ Put(c, <<"deck", k[2]>>, "simulate")
        BY <1>12, FirstIn DEF Begin
    <2>1. k[2] \in Analyses /\ k = <<"simulate", k[2]>> /\ k \in todo[c]
        BY ChildKinds DEF Left, TypeInv
    <2>2. Verdict(c, k[2]) = {} /\ returned[c][k[2]] = NoEnvelope
        BY <2>1 DEF Waiting
    <2>3. /\ pc'[c] = "simulate" /\ disk'[<<"deck", k[2]>>] > 0
          /\ Analysis(c)' = k[2] /\ k \notin todo'[c]
        <3>1. <<"deck", k[2]>> \in Files
            BY <2>1, FileNames
        <3>2. pc'[c] = "simulate" /\ disk'[<<"deck", k[2]>>] = 1
            BY <3>1, PutEffect
        <3>3. current'[c] = <<k[2], None>> /\ todo'[c] = todo[c] \ {k}
            BY DEF TypeInv
        <3> QED
            BY <3>2, <3>3 DEF Analysis
    <2>4. Verdict(c, k[2])' = {} /\ returned'[c][k[2]] = NoEnvelope
        BY <1>12, <2>2 DEF Begin, Verdict
    <2>5. Verdict(c, Analysis(c))' = {}
        BY <2>3, <2>4 DEF Verdict
    <2> QED
        BY <2>1, <2>3, <2>4, <2>5 DEF Here, Observing
<1>13. CASE Simulate(c)
    BY <1>13, <1>b DEF Simulate, At, Goto, Analysis, Verdict, TypeInv, InLoop, Observing
<1>14. CASE Simulated(c)
    BY <1>14, <1>b DEF Simulated, Goto, Analysis, Verdict, TypeInv, InLoop, Observing
<1>15. CASE Capture(c)
    <2>1. Analysis(c) \in Analyses /\ <<"simulate", Analysis(c)>> \in Children
        BY <1>15, ChildNames DEF Capture, Here, InLoop
    <2>2. PICK facts : Note(c, <<"simulate", Analysis(c)>>, facts)
        BY <1>15 DEF Capture
    <2>3. Verdict(c, Analysis(c))' = Verdict(c, Analysis(c))
        BY <1>15, <2>1, <2>2, NoteVerdict DEF Capture, Analysis, Verdict
    <2>4. pc'[c] \in {"run", "inspect"}
        BY <1>15 DEF Capture, Goto, Abandon, TypeInv
    <2> QED
        BY <1>15, <1>a, <1>b, <2>3, <2>4 DEF Capture, Analysis, InLoop, Observing
<1>16. CASE Inspect(c)
    <2>1. Analysis(c) \in Analyses /\ <<"simulate", Analysis(c)>> \in Children
        BY <1>16, ChildNames DEF Inspect, Here, InLoop
    <2>2. CASE pc'[c] = "run"
        BY <1>a, <2>2 DEF InLoop, Observing
    <2>3. CASE pc'[c] # "run"
        <3>1. pc'[c] = "select" /\ Analysis(c) \in Observed
              /\ \E facts : Note(c, <<"simulate", Analysis(c)>>, facts)
            BY <1>16, <2>3 DEF Inspect, Goto, Abandon, TypeInv
        <3>2. Verdict(c, Analysis(c))' = Verdict(c, Analysis(c))
            BY <1>16, <2>1, <3>1, NoteVerdict DEF Inspect, Analysis, Verdict
        <3> QED
            BY <1>16, <1>b, <3>1, <3>2 DEF Inspect, Analysis, InLoop, Observing
    <2> QED
        BY <2>2, <2>3
<1>17. CASE Select(c)
    <2>1. pc[c] = "select" /\ pc'[c] = "extract"
        BY <1>17 DEF Select, Put, At, Goto, TypeInv
    <2> QED
        BY <1>17, <1>b, <2>1 DEF Select, Analysis, Verdict, InLoop, Observing
<1>18. CASE Extract(c)
    <2>1. pc[c] = "extract" /\ pc'[c] = "extracted"
        BY <1>18 DEF Extract, Put, At, Goto, TypeInv
    <2>2. PICK facts : Note(c, <<"extract", Analysis(c)>>, facts)
        BY <1>18 DEF Extract
    <2>3. Analysis(c) \in Analyses /\ <<"extract", Analysis(c)>> \in Children
        BY <2>1, ChildNames DEF Here, InLoop, Observing
    <2>4. Verdict(c, Analysis(c))' = Verdict(c, Analysis(c))
        BY <1>18, <2>2, <2>3, NoteVerdict DEF Extract, Analysis, Verdict
    <2> QED
        BY <1>18, <1>b, <2>1, <2>4 DEF Extract, Analysis, InLoop, Observing
<1>19. CASE Extracted(c)
    <2>1. pc[c] = "extracted" /\ pc'[c] \in {"measure", "run"}
        BY <1>19 DEF Extracted, Abandon, At, Goto, TypeInv
    <2> QED
        BY <1>19, <1>a, <1>b, <2>1 DEF Extracted, Analysis, Verdict, InLoop, Observing
<1>20. CASE Request(c)
    <2> PICK k \in Due(c) :
             /\ todo' = [todo EXCEPT ![c] = @ \ {k}]
             /\ current' = [current EXCEPT ![c][2] = k[2]]
             /\ Put(c, <<"request", k[2]>>, "measuring")
        BY <1>20, FirstIn DEF Request
    <2>1. k[2] \in Measurements /\ AnalysisOf[k[2]] = Analysis(c)
        BY ChildKinds DEF Due, Left, TypeInv
    <2>2. pc[c] = "measure" /\ pc'[c] = "measuring"
        BY <1>20 DEF Request, At, Put, Goto, TypeInv
    <2>3. current'[c][1] = current[c][1] /\ current'[c][2] = k[2]
        BY DEF TypeInv
    <2>4. todo'[c] \subseteq todo[c] /\ manifest'[c] = manifest[c]
        BY <1>20 DEF Request, TypeInv
    <2>5. Analysis(c)' = Analysis(c)
        BY <2>3 DEF Analysis
    <2> QED
        BY <2>1, <2>2, <2>3, <2>4, <2>5 DEF Here, Verdict, InLoop, Observing
<1>21. CASE Measure(c)
    <2>1. pc[c] = "measuring" /\ pc'[c] = "measure"
        BY <1>21 DEF Measure, Put, At, Goto, TypeInv
    <2>2. PICK facts : Note(c, <<"measure", current[c][2]>>, facts)
        BY <1>21 DEF Measure
    <2>3. Analysis(c) \in Analyses /\ <<"measure", current[c][2]>> \in Children
        BY <2>1, ChildNames DEF Here, InLoop, Observing
    <2>4. Verdict(c, Analysis(c))' = Verdict(c, Analysis(c))
        BY <1>21, <2>2, <2>3, NoteVerdict DEF Measure, Analysis, Verdict
    <2> QED
        BY <1>21, <1>b, <2>1, <2>4 DEF Measure, Analysis, InLoop, Observing
<1> QED
    BY <1>1, <1>2, <1>3, <1>4, <1>5, <1>6, <1>7, <1>8, <1>9, <1>10, <1>11, <1>12, <1>13,
       <1>14, <1>15, <1>16, <1>17, <1>18, <1>19, <1>20, <1>21 DEF Step

-----------------------------------------------------------------------------
(* What a pass has behind it.                                              *)

(* A stale record stays stale.                                             *)
LEMMA StaleKept ==
    ASSUME TypeInv, Rise, NEW c \in Calls, records[c] \subseteq records'[c], Stale(c)
    PROVE  Stale(c)'
<1>1. PICK r \in records[c] : r[2] < disk[r[1]]
    BY DEF Stale
<1>2. r[1] \in Files /\ r[2] \in Nat
    BY DEF TypeInv, Record0
<1>3. disk[r[1]] \in Nat /\ disk'[r[1]] \in Nat /\ disk[r[1]] <= disk'[r[1]]
    BY <1>2 DEF Rise, TypeInv
<1>4. r[2] < disk'[r[1]]
    BY <1>1, <1>2, <1>3
<1> QED
    BY <1>4 DEF Stale

(* No step of a call drops a record.                                       *)
LEMMA RecordsKept ==
    ASSUME TypeInv, NEW c \in Calls, Step(c) \/ Break(c)
    PROVE  records[c] \subseteq records'[c]
<1> USE DEF progress, children, judged, Retain, TypeInv
<1>1. CASE Check(c)
    BY <1>1 DEF Check
<1>2. CASE PutInputs(c)
    BY <1>2 DEF PutInputs
<1>3. CASE Record(c)
    BY <1>3 DEF Record
<1>4. CASE Begin(c)
    BY <1>4 DEF Begin
<1>5. CASE Simulate(c)
    BY <1>5 DEF Simulate
<1>6. CASE Simulated(c)
    BY <1>6 DEF Simulated
<1>7. CASE Capture(c)
    BY <1>7 DEF Capture
<1>8. CASE Inspect(c)
    BY <1>8 DEF Inspect
<1>9. CASE Select(c)
    BY <1>9 DEF Select
<1>10. CASE Extract(c)
    BY <1>10 DEF Extract
<1>11. CASE Extracted(c)
    BY <1>11 DEF Extracted
<1>12. CASE Request(c)
    BY <1>12 DEF Request
<1>13. CASE Measure(c)
    BY <1>13 DEF Measure
<1>14. CASE Measured(c)
    BY <1>14 DEF Measured
<1>15. CASE Derive(c)
    BY <1>15 DEF Derive
<1>16. CASE Judge(c)
    BY <1>16 DEF Judge
<1>17. CASE Audit(c)
    BY <1>17 DEF Audit
<1>18. CASE PutLog(c)
    BY <1>18 DEF PutLog
<1>19. CASE AuditAgain(c)
    BY <1>19 DEF AuditAgain
<1>20. CASE Report(c)
    BY <1>20 DEF Report
<1>21. CASE Break(c)
    BY <1>21 DEF Break
<1> QED
    BY <1>1, <1>2, <1>3, <1>4, <1>5, <1>6, <1>7, <1>8, <1>9, <1>10, <1>11, <1>12, <1>13,
       <1>14, <1>15, <1>16, <1>17, <1>18, <1>19, <1>20, <1>21 DEF Step

(* A good envelope stays good while it is the one returned.                *)
LEMMA GoodKept ==
    ASSUME TypeInv, NEW c \in Calls, Step(c) \/ Break(c),
           NEW a \in Analyses, returned'[c][a] = returned[c][a], Good(c, a)
    PROVE  Good(c, a)'
<1>1. Stale(c) => Stale(c)'
    BY RecordsKept, StaleKept, Rises DEF TypeInv
<1> QED
    BY <1>1 DEF Good, Holds

(* Changes of the manifest that what is Backed does not look at.           *)
Aside(c) ==
    \A k \in Children : k[1] \in {"analysis", "extract", "measure"} =>
        manifest'[c][k] = manifest[c][k]

(* Noting a simulation or a derivation is such a change.                   *)
LEMMA NoteAside ==
    ASSUME TypeInv, NEW c \in Calls, NEW k \in Children, NEW facts, Note(c, k, facts),
           k[1] \notin {"analysis", "extract", "measure"}
    PROVE  Aside(c)
<1>1. \A l \in Children \ {k} : manifest'[c][l] = manifest[c][l]
    BY NoteEffect
<1> QED
    BY <1>1 DEF Aside

(* Steps that return, read and note nothing of it keep what is Backed.     *)
LEMMA BackedKept ==
    ASSUME TypeInv, NEW c \in Calls, Step(c) \/ Break(c), Backed(c), Aside(c),
           deckRead'[c] = deckRead[c], returned'[c] = returned[c]
    PROVE  Backed(c)'
<1>1. /\ \A a \in Analyses : Verdict(c, a)' = Verdict(c, a)
      /\ \A a \in Observed : Extraction(c, a)' = Extraction(c, a)
      /\ \A m \in Measurements : manifest'[c][<<"measure", m>>] = manifest[c][<<"measure", m>>]
    BY ChildNames DEF Aside, Verdict, Extraction
<1>2. \A a \in Analyses : Good(c, a) => Good(c, a)'
    BY GoodKept
<1>3. Observed \subseteq Analyses /\ \A m \in Measurements : AnalysisOf[m] \in Analyses
    BY ExperimentAssumption
<1>4. \A a \in Analyses : Verdict(c, a)' # {} => Good(c, a)'
    BY <1>1, <1>2 DEF Backed
<1>5. \A a \in Observed : Verdict(c, a)' # {} => Extraction(c, a)'
    BY <1>1, <1>3 DEF Backed
<1>6. \A m \in Measurements : Verdict(c, AnalysisOf[m])' # {} =>
         manifest'[c][<<"measure", m>>] \in {{}, ChildFacts}
    BY <1>1, <1>3 DEF Backed, Verdict
<1> QED
    BY <1>1, <1>4, <1>5, <1>6 DEF Backed, Holds, Names, Verdict

(* The envelope that Inspect lets pass: vectors that it lacks are those of  *)
(* a raw file that is no longer the recorded one.                          *)
LEMMA InspectGood ==
    ASSUME TypeInv, NEW c \in Calls, Past(c), Backed(c), Analysis(c) \in Analyses,
           "wellFormed" \in Holds(c, Analysis(c)),
           Names(c, Analysis(c)) \subseteq records[c], Usable(c),
           "vectors" \in Holds(c, Analysis(c)) \/ ~Untouched(c, "raw")
    PROVE  Good(c, Analysis(c))
<1> DEFINE a == Analysis(c)
<1>1. {"wellFormed", "passed", "bound", "raw"} \subseteq Holds(c, a)
    BY DEF Usable, Holds
<1>2. CASE ~Untouched(c, "raw")
    <2>1. PICK r \in Names(c, a) : r[1] = <<"raw", a>>
        BY <1>1 DEF Backed
    <2>2. r \in Record0 /\ r \in records[c] /\ r[2] <= disk[<<"raw", a>>]
        BY <2>1 DEF Past, Names, TypeInv
    <2>3. r = <<<<"raw", a>>, r[2]>> /\ r[2] \in Nat
        BY <2>1, <2>2 DEF Record0
    <2>4. r[2] # disk[<<"raw", a>>]
        BY <1>2, <2>1, <2>3 DEF Untouched, Names
    <2>5. disk[<<"raw", a>>] \in Nat
        BY FileNames DEF TypeInv
    <2>6. r[2] < disk[r[1]]
        BY <2>1, <2>2, <2>3, <2>4, <2>5
    <2> QED
        BY <1>1, <2>2, <2>6 DEF Good, Stale
<1> QED
    BY <1>1, <1>2 DEF Good

(* Every step of a call keeps what its passing analyses have behind them.  *)
LEMMA BackedNext ==
    ASSUME TypeInv, TypeInv', NEW c \in Calls, Place(c), Past(c), Backed(c), Backing(c),
           Step(c) \/ Break(c)
    PROVE  Backed(c)'
<1>0. Observed \subseteq Analyses /\ \A m \in Measurements : AnalysisOf[m] \in Analyses
    BY ExperimentAssumption
<1>a. ASSUME deckRead'[c] = deckRead[c], returned'[c] = returned[c], manifest'[c] = manifest[c]
      PROVE  Backed(c)'
    BY <1>a, BackedKept DEF Aside
<1> USE DEF progress, children, judged
<1>1. CASE Check(c)
    BY <1>1, <1>a DEF Check, TypeInv
<1>2. CASE PutInputs(c)
    BY <1>2, <1>a DEF PutInputs, TypeInv
<1>3. CASE Record(c)
    BY <1>3, <1>a DEF Record, TypeInv
<1>4. CASE Begin(c)
    BY <1>4, <1>a DEF Begin, TypeInv
<1>5. CASE Select(c)
    BY <1>5, <1>a DEF Select, TypeInv
<1>6. CASE Extracted(c)
    BY <1>6, <1>a DEF Extracted, TypeInv
<1>7. CASE Request(c)
    BY <1>7, <1>a DEF Request, TypeInv
<1>8. CASE Judge(c)
    BY <1>8, <1>a DEF Judge, TypeInv
<1>9. CASE Audit(c)
    BY <1>9, <1>a DEF Audit, TypeInv
<1>10. CASE PutLog(c)
    BY <1>10, <1>a DEF PutLog, TypeInv
<1>11. CASE AuditAgain(c)
    BY <1>11, <1>a DEF AuditAgain, TypeInv
<1>12. CASE Report(c)
    BY <1>12, <1>a DEF Report, TypeInv
<1>13. CASE Capture(c)
    <2>1. <<"simulate", Analysis(c)>> \in Children
        BY <1>13, ChildNames DEF Capture, Place, Here, InLoop
    <2>2. \E facts : Note(c, <<"simulate", Analysis(c)>>, facts)
        BY <1>13 DEF Capture
    <2>3. Aside(c)
        BY <2>1, <2>2, NoteAside
    <2> QED
        BY <1>13, <2>3, BackedKept DEF Capture
<1>14. CASE Derive(c)
    <2> DEFINE k == First(Left(c, "derivation"))
    <2>1. k \in Children /\ k[1] = "derivation"
        BY <1>14, FirstIn DEF Derive, Left, TypeInv
    <2>2. (\E facts : Note(c, k, facts)) \/ UNCHANGED manifest
        BY <1>14 DEF Derive
    <2> HIDE DEF k
    <2>3. (\E facts : Note(c, k, facts)) => Aside(c)
        BY <2>1, NoteAside
    <2>4. UNCHANGED manifest => Aside(c)
        BY DEF Aside
    <2> QED
        BY <1>14, <2>2, <2>3, <2>4, BackedKept DEF Derive
<1>15. CASE Break(c)
    <2>1. /\ \A k \in Children : manifest'[c][k] = {}
          /\ \A a \in Analyses : returned'[c][a] = NoEnvelope
        BY <1>15 DEF Break, TypeInv
    <2>2. /\ \A a \in Analyses : Verdict(c, a)' = {}
          /\ \A a \in Analyses : Holds(c, a)' = {}
        <3>1. \A a \in Analyses : Verdict(c, a)' = {}
            BY <2>1, ChildNames DEF Verdict
        <3>2. \A a \in Analyses : Holds(c, a)' = {}
            BY <2>1 DEF Holds, NoEnvelope
        <3> QED
            BY <3>1, <3>2
    <2>3. \A m \in Measurements : manifest'[c][<<"measure", m>>] = {}
        BY <2>1, ChildNames
    <2> QED
        BY <1>0, <2>2, <2>3 DEF Backed
<1>16. CASE Simulate(c)
    <2> DEFINE a == Analysis(c)
    <2>1. a \in Analyses /\ returned[c][a] = NoEnvelope
        BY <1>16 DEF Simulate, At, Place, Here, InLoop
    <2>2. returned'[c] = returned[c] /\ manifest'[c] = manifest[c]
        BY <1>16 DEF Simulate
    <2>3. \A b \in Analyses \ {a} : deckRead'[c][b] = deckRead[c][b]
        BY <1>16, <2>1 DEF Simulate, TypeInv
    <2>4. \A b \in Analyses : "bound" \in returned'[c][b].holds => deckRead'[c][b] = 1
        BY <2>1, <2>2, <2>3 DEF Backed, Holds, NoEnvelope
    <2>5. \A b \in Analyses : Good(c, b) => Good(c, b)'
        BY <2>2, GoodKept
    <2> QED
        BY <1>0, <2>2, <2>4, <2>5 DEF Backed, Holds, Names, Verdict, Extraction
<1>17. CASE Simulated(c)
    <2> DEFINE a == Analysis(c)
    <2>a. a \in Analyses /\ Verdict(c, a) = {}
        BY <1>17 DEF Simulated, Place, Here, InLoop
    <2>2. deckRead'[c] = deckRead[c] /\ manifest'[c] = manifest[c]
        BY <1>17 DEF Simulated
    <2>3. PICK kept \in SUBSET {"bound", "raw", "sim"}, facts \in SUBSET SimFacts :
            /\ \/ facts = {"wellFormed"} /\ kept \subseteq {"bound"}
               \/ "raw" \in facts => "raw" \in kept
            /\ "bound" \in facts => deckRead[c][a] = 1
            /\ returned' = [returned EXCEPT ![c][a] =
                 [holds |-> facts,
                  names |-> {<<f, Cited(f)>> : f \in ({"deck"} \cup (kept \ {"sim"})) \X {a}}]]
        BY <1>17 DEF Simulated
    <2>4. \A b \in Analyses \ {a} : returned'[c][b] = returned[c][b]
        BY <2>a, <2>3 DEF TypeInv
    <2>5. /\ returned'[c][a].holds = facts
          /\ returned'[c][a].names =
               {<<f, Cited(f)>> : f \in ({"deck"} \cup (kept \ {"sim"})) \X {a}}
        BY <2>a, <2>3 DEF TypeInv
    <2>6. "raw" \in facts => \E r \in returned'[c][a].names : r[1] = <<"raw", a>>
        <3> SUFFICES ASSUME "raw" \in facts
                     PROVE  \E r \in returned'[c][a].names : r[1] = <<"raw", a>>
            OBVIOUS
        <3>1. <<"raw", a>> \in ({"deck"} \cup (kept \ {"sim"})) \X {a}
            BY <2>3
        <3>2. <<<<"raw", a>>, Cited(<<"raw", a>>)>> \in returned'[c][a].names
            BY <2>5, <3>1
        <3> QED
            BY <3>2
    <2>7. \A b \in Analyses \ {a} : Good(c, b) => Good(c, b)'
        BY <2>4, GoodKept
    <2>8. \A b \in Analyses : Verdict(c, b)' = Verdict(c, b)
        BY <2>2 DEF Verdict
    <2>9. \A b \in Analyses : Verdict(c, b)' # {} => Good(c, b)'
        BY <2>a, <2>7, <2>8 DEF Backed
    <2>10. \A b \in Analyses : "bound" \in Holds(c, b)' => deckRead'[c][b] = 1
        BY <2>2, <2>3, <2>4, <2>5 DEF Backed, Holds
    <2>11. \A b \in Analyses : "raw" \in Holds(c, b)' =>
             \E r \in Names(c, b)' : r[1] = <<"raw", b>>
        BY <2>4, <2>5, <2>6 DEF Backed, Holds, Names
    <2> QED
        BY <1>0, <2>2, <2>9, <2>10, <2>11 DEF Backed, Verdict, Extraction
<1>18. CASE Inspect(c)
    <2> DEFINE a == Analysis(c)
               k == <<"simulate", a>>
    <2>1. a \in Analyses /\ k \in Children /\ <<"analysis", a>> \in Children
        BY <1>18, ChildNames DEF Inspect, Place, Here, InLoop
    <2>2. deckRead'[c] = deckRead[c] /\ returned'[c] = returned[c]
        BY <1>18 DEF Inspect
    <2>3. CASE UNCHANGED manifest \/ \E facts : Note(c, k, facts)
        <3>1. Aside(c)
            BY <2>1, <2>3, NoteAside DEF Aside
        <3> QED
            BY <2>2, <3>1, BackedKept
    <2>4. CASE /\ a \notin Observed /\ Usable(c)
               /\ "vectors" \in returned[c][a].holds \/ ~Untouched(c, "raw")
               /\ \E facts : manifest' = [manifest EXCEPT ![c][k] = facts,
                                           ![c][<<"analysis", a>>] = {"complete"}]
        <3>1. Good(c, a)
            BY <1>18, <2>1, <2>4, InspectGood DEF Inspect, Backing, Holds
        <3>2. \A b \in Analyses : Good(c, b) => Good(c, b)'
            BY <2>2, GoodKept
        <3>3. \A l \in Children \ {k, <<"analysis", a>>} : manifest'[c][l] = manifest[c][l]
            BY <2>1, <2>4 DEF TypeInv
        <3>4. ASSUME NEW b \in Analyses
              PROVE  Verdict(c, b)' # {} => Good(c, b)'
            <4>1. CASE b = a
                BY <3>1, <3>2, <4>1
            <4>2. CASE b # a
                <5>1. <<"analysis", b>> \in Children \ {k, <<"analysis", a>>}
                    BY <4>2, ChildNames
                <5> QED
                    BY <3>2, <3>3, <5>1 DEF Backed, Verdict
            <4> QED
                BY <4>1, <4>2
        <3>5. ASSUME NEW b \in Observed
              PROVE  Verdict(c, b)' # {} => Extraction(c, b)'
            <4>1. <<"analysis", b>> \in Children \ {k, <<"analysis", a>>}
                  /\ <<"extract", b>> \in Children \ {k, <<"analysis", a>>}
                BY <1>0, <2>4, ChildNames
            <4> QED
                BY <3>3, <4>1 DEF Backed, Verdict, Extraction
        <3>6. \A m \in Measurements : manifest'[c][<<"measure", m>>] = manifest[c][<<"measure", m>>]
            BY <3>3, ChildNames
        <3>7. ASSUME NEW m \in Measurements, Verdict(c, AnalysisOf[m])' # {}
              PROVE  manifest'[c][<<"measure", m>>] \in {{}, ChildFacts}
            <4>1. CASE AnalysisOf[m] = a
                BY <2>4, <3>6, <4>1 DEF Backed
            <4>2. CASE AnalysisOf[m] # a
                <5>1. <<"analysis", AnalysisOf[m]>> \in Children \ {k, <<"analysis", a>>}
                    BY <1>0, <4>2, ChildNames
                <5>2. Verdict(c, AnalysisOf[m]) # {}
                    BY <3>3, <3>7, <5>1 DEF Verdict
                <5> QED
                    BY <3>6, <5>2 DEF Backed
            <4> QED
                BY <4>1, <4>2
        <3> QED
            BY <2>2, <3>4, <3>5, <3>6, <3>7 DEF Backed, Holds, Names, Verdict
    <2> QED
        BY <1>18, <2>3, <2>4 DEF Inspect
<1>19. CASE Extract(c)
    <2> DEFINE a == Analysis(c)
               k == <<"extract", a>>
    <2>1. a \in Analyses /\ Verdict(c, a) = {} /\ k \in Children
        BY <1>19, ChildNames DEF Extract, At, Place, Here, InLoop, Observing
    <2>2. deckRead'[c] = deckRead[c] /\ returned'[c] = returned[c]
        BY <1>19 DEF Extract
    <2>3. \A l \in Children \ {k} : manifest'[c][l] = manifest[c][l]
        BY <1>19, <2>1, NoteEffect DEF Extract
    <2>4. \A b \in Analyses : Verdict(c, b)' = Verdict(c, b)
        BY <2>3, ChildNames DEF Verdict
    <2>5. \A m \in Measurements : manifest'[c][<<"measure", m>>] = manifest[c][<<"measure", m>>]
        BY <2>3, ChildNames
    <2>6. \A b \in Analyses : Good(c, b) => Good(c, b)'
        BY <2>2, GoodKept
    <2>7. ASSUME NEW b \in Observed, Verdict(c, b)' # {}
          PROVE  Extraction(c, b)'
        <3>1. <<"extract", b>> \in Children \ {k} /\ Verdict(c, b) # {}
            BY <1>0, <2>1, <2>4, <2>7, ChildNames
        <3> QED
            BY <2>3, <3>1 DEF Backed, Extraction
    <2>8. \A b \in Analyses : Verdict(c, b)' # {} => Good(c, b)'
        BY <2>4, <2>6 DEF Backed
    <2>9. \A m \in Measurements : Verdict(c, AnalysisOf[m])' # {} =>
             manifest'[c][<<"measure", m>>] \in {{}, ChildFacts}
        BY <1>0, <2>4, <2>5 DEF Backed
    <2> QED
        BY <2>2, <2>5, <2>7, <2>8, <2>9 DEF Backed, Holds, Names, Verdict
<1>20. CASE Measure(c)
    <2> DEFINE m == current[c][2]
               k == <<"measure", m>>
    <2>1. /\ m \in Measurements /\ k \in Children
          /\ AnalysisOf[m] \in Observed /\ Verdict(c, AnalysisOf[m]) = {}
        BY <1>20, ChildNames DEF Measure, At, Place, Here, InLoop, Observing
    <2>2. deckRead'[c] = deckRead[c] /\ returned'[c] = returned[c]
        BY <1>20 DEF Measure
    <2>3. \A l \in Children \ {k} : manifest'[c][l] = manifest[c][l]
        BY <1>20, <2>1, NoteEffect DEF Measure
    <2>4. \A b \in Analyses : Verdict(c, b)' = Verdict(c, b)
        BY <2>3, ChildNames DEF Verdict
    <2>5. \A b \in Observed : Extraction(c, b)' = Extraction(c, b)
        BY <2>3, ChildNames DEF Extraction
    <2>6. \A b \in Analyses : Good(c, b) => Good(c, b)'
        BY <2>2, GoodKept
    <2>7. \A n \in Measurements \ {m} : manifest'[c][<<"measure", n>>] = manifest[c][<<"measure", n>>]
        <3> TAKE n \in Measurements \ {m}
        <3>1. <<"measure", n>> \in Children \ {k}
            BY ChildNames
        <3> QED
            BY <2>3, <3>1
    <2>8. \A b \in Analyses : Verdict(c, b)' # {} => Good(c, b)'
        BY <2>4, <2>6 DEF Backed
    <2>9. \A b \in Observed : Verdict(c, b)' # {} => Extraction(c, b)'
        BY <1>0, <2>4, <2>5 DEF Backed
    <2>10. ASSUME NEW n \in Measurements
           PROVE  /\ Verdict(c, AnalysisOf[n])' # {} =>
                       manifest'[c][<<"measure", n>>] \in {{}, ChildFacts}
                  /\ AnalysisOf[n] \notin Observed => manifest'[c][<<"measure", n>>] = {}
        <3>1. CASE n = m
            BY <1>0, <2>1, <2>4, <3>1
        <3>2. CASE n # m
            BY <1>0, <2>4, <2>7, <3>2 DEF Backed
        <3> QED
            BY <3>1, <3>2
    <2> HIDE DEF m, k
    <2> QED
        BY <2>2, <2>8, <2>9, <2>10 DEF Backed, Holds, Names, Verdict
<1>21. CASE Measured(c)
    <2> DEFINE a == Analysis(c)
               k == <<"analysis", a>>
    <2>1. a \in Observed /\ k \in Children /\ Good(c, a) /\ Extraction(c, a)
        BY <1>21, ChildNames DEF Measured, At, Place, Here, InLoop, Observing, Backing
    <2>2. deckRead'[c] = deckRead[c] /\ returned'[c] = returned[c]
        BY <1>21 DEF Measured
    <2>3. PICK facts :
            /\ Note(c, k, facts)
            /\ facts # {} => \A m \in Measurements : AnalysisOf[m] = a =>
                               manifest[c][<<"measure", m>>] = ChildFacts
        BY <1>21 DEF Measured
    <2>4. manifest'[c][k] = facts /\ \A l \in Children \ {k} : manifest'[c][l] = manifest[c][l]
        BY <2>1, <2>3, NoteEffect
    <2>5. \A b \in Analyses : Good(c, b) => Good(c, b)'
        BY <2>2, GoodKept
    <2>6. /\ \A b \in Observed : Extraction(c, b)' = Extraction(c, b)
          /\ \A m \in Measurements : manifest'[c][<<"measure", m>>] = manifest[c][<<"measure", m>>]
        BY <2>4, ChildNames DEF Extraction
    <2>7. ASSUME NEW b \in Analyses, b # a
          PROVE  Verdict(c, b)' = Verdict(c, b)
        <3>1. <<"analysis", b>> \in Children \ {k}
            BY <2>7, ChildNames
        <3> QED
            BY <2>4, <3>1 DEF Verdict
    <2>8. \A b \in Analyses : Verdict(c, b)' # {} => Good(c, b)'
        BY <2>1, <2>5, <2>7 DEF Backed
    <2>9. \A b \in Observed : Verdict(c, b)' # {} => Extraction(c, b)'
        BY <1>0, <2>1, <2>6, <2>7 DEF Backed
    <2>10. ASSUME NEW m \in Measurements, Verdict(c, AnalysisOf[m])' # {}
           PROVE  manifest'[c][<<"measure", m>>] \in {{}, ChildFacts}
        <3>1. CASE AnalysisOf[m] = a
            BY <2>3, <2>4, <2>6, <2>10, <3>1 DEF Verdict
        <3>2. CASE AnalysisOf[m] # a
            BY <1>0, <2>6, <2>7, <2>10, <3>2 DEF Backed
        <3> QED
            BY <3>1, <3>2
    <2> HIDE DEF a, k
    <2> QED
        BY <2>2, <2>6, <2>8, <2>9, <2>10 DEF Backed, Holds, Names, Verdict
<1> QED
    BY <1>1, <1>2, <1>3, <1>4, <1>5, <1>6, <1>7, <1>8, <1>9, <1>10, <1>11, <1>12, <1>13,
       <1>14, <1>15, <1>16, <1>17, <1>18, <1>19, <1>20, <1>21 DEF Step

(* Every step keeps what the analysis under way has behind it.             *)
LEMMA BackingNext ==
    ASSUME TypeInv, TypeInv', NEW c \in Calls, Place(c), Past(c), Backed(c), Backing(c),
           Step(c) \/ Break(c)
    PROVE  Backing(c)'
<1>0. \A a \in Analyses : returned'[c] = returned[c] /\ Good(c, a) => Good(c, a)'
    BY GoodKept
<1>a. ASSUME pc'[c] \notin {"inspect"} \cup Observing
      PROVE  Backing(c)'
    BY <1>a DEF Backing, Observing
<1>b. ASSUME pc[c] \in Observing, pc'[c] \in Observing,
             current'[c][1] = current[c][1], returned'[c] = returned[c],
             pc'[c] \in {"measure", "measuring"} => Extraction(c, Analysis(c))',
             pc[c] \in Observing => Analysis(c) \in Analyses
      PROVE  Backing(c)'
    <2>1. Good(c, Analysis(c))' = Good(c, current[c][1])'
        BY <1>b DEF Analysis, Good, Holds, Stale
    <2> QED
        BY <1>0, <1>b DEF Backing, Observing, Analysis, Good, Holds, Stale
<1> USE DEF progress, children, judged
<1>1. CASE Check(c)
    BY <1>1, <1>a DEF Check, Goto, TypeInv, Observing
<1>2. CASE PutInputs(c)
    BY <1>2, <1>a DEF PutInputs, Goto, Put, At, TypeInv, Observing
<1>3. CASE Begin(c)
    BY <1>3, <1>a DEF Begin, Goto, Put, At, TypeInv, Observing
<1>4. CASE Simulate(c)
    BY <1>4, <1>a DEF Simulate, Goto, At, TypeInv, Observing
<1>5. CASE Simulated(c)
    BY <1>5, <1>a DEF Simulated, Goto, TypeInv, Observing
<1>6. CASE Measured(c)
    BY <1>6, <1>a DEF Measured, Goto, At, TypeInv, Observing
<1>7. CASE Derive(c)
    BY <1>7, <1>a DEF Derive, NoneLeft, Goto, Put, At, TypeInv, Observing
<1>8. CASE Judge(c)
    BY <1>8, <1>a DEF Judge, NoneLeft, Goto, At, TypeInv, Observing
<1>9. CASE Audit(c)
    BY <1>9, <1>a DEF Audit, TypeInv, Observing
<1>10. CASE PutLog(c)
    BY <1>10, <1>a DEF PutLog, Goto, Put, At, TypeInv, Observing
<1>11. CASE AuditAgain(c)
    BY <1>11, <1>a DEF AuditAgain, Goto, At, TypeInv, Observing
<1>12. CASE Report(c)
    BY <1>12, <1>a DEF Report, Goto, At, TypeInv, Observing
<1>13. CASE Break(c)
    BY <1>13, <1>a DEF Break, Goto, TypeInv, Observing
<1>14. CASE Record(c)
    <2>1. /\ pc'[c] = pc[c] /\ current'[c] = current[c] /\ returned'[c] = returned[c]
          /\ manifest'[c] = manifest[c]
        BY <1>14 DEF Record
    <2>2. records[c] \subseteq records'[c]
        BY RecordsKept
    <2>3. CASE pc[c] = "inspect"
        BY <2>1, <2>2, <2>3 DEF Backing, Analysis, Holds, Names, Observing
    <2>4. CASE pc[c] \in Observing
        <3>1. Analysis(c) \in Analyses
            BY <2>4 DEF Place, Here, InLoop
        <3> QED
            BY <1>b, <2>1, <2>4, <3>1 DEF Backing, Analysis, Extraction
    <2>5. CASE pc[c] \notin {"inspect"} \cup Observing
        BY <1>a, <2>1, <2>5
    <2> QED
        BY <2>3, <2>4, <2>5
<1>15. CASE Capture(c)
    <2>1. returned'[c] = returned[c] /\ current'[c] = current[c] /\ pc'[c] \in {"run", "inspect"}
        BY <1>15 DEF Capture, Goto, Abandon, TypeInv
    <2>2. pc'[c] = "inspect" =>
             "wellFormed" \in Holds(c, Analysis(c)) /\ Names(c, Analysis(c)) \subseteq records'[c]
        BY <1>15 DEF Capture, Goto, Abandon, Retain, Holds, Names, TypeInv
    <2> QED
        BY <2>1, <2>2 DEF Backing, Observing, Analysis, Holds, Names
<1>16. CASE Inspect(c)
    <2> DEFINE a == Analysis(c)
    <2>1. returned'[c] = returned[c] /\ current'[c] = current[c] /\ pc'[c] \in {"run", "select"}
        BY <1>16 DEF Inspect, Goto, Abandon, TypeInv
    <2>2. CASE pc'[c] = "run"
        BY <1>a, <2>2 DEF Observing
    <2>3. CASE pc'[c] = "select"
        <3>1. a \in Analyses /\ "wellFormed" \in Holds(c, a) /\ Names(c, a) \subseteq records[c]
            BY <1>16 DEF Inspect, Place, Here, InLoop, Backing
        <3>2. Usable(c) /\ ("vectors" \in Holds(c, a) \/ ~Untouched(c, "raw"))
            BY <1>16, <2>3 DEF Inspect, Goto, Abandon, TypeInv, Holds
        <3>3. Good(c, a)
            BY <3>1, <3>2, InspectGood
        <3>4. \A b \in Analyses : b = a => Good(c, b)'
            BY <1>0, <2>1, <3>3
        <3>5. Good(c, Analysis(c))'
            BY <2>1, <3>1, <3>4 DEF Good, Holds, Stale, Analysis
        <3> QED
            BY <2>3, <3>5 DEF Backing
    <2> QED
        BY <2>1, <2>2, <2>3
<1>17. CASE Select(c)
    <2>1. pc[c] = "select" /\ pc'[c] = "extract"
        BY <1>17 DEF Select, At, Put, Goto, TypeInv
    <2>2. current'[c][1] = current[c][1] /\ returned'[c] = returned[c]
        BY <1>17 DEF Select, TypeInv
    <2>3. Analysis(c) \in Analyses
        BY <2>1 DEF Place, Here, InLoop, Observing
    <2> QED
        BY <1>b, <2>1, <2>2, <2>3 DEF Observing
<1>18. CASE Extract(c)
    <2>1. pc[c] = "extract" /\ pc'[c] = "extracted"
        BY <1>18 DEF Extract, At, Put, Goto, TypeInv
    <2>2. current'[c][1] = current[c][1] /\ returned'[c] = returned[c]
        BY <1>18 DEF Extract, TypeInv
    <2>3. Analysis(c) \in Analyses
        BY <2>1 DEF Place, Here, InLoop, Observing
    <2> QED
        BY <1>b, <2>1, <2>2, <2>3 DEF Observing
<1>19. CASE Extracted(c)
    <2>1. /\ pc[c] = "extracted" /\ pc'[c] \in {"run", "measure"}
          /\ current'[c] = current[c] /\ returned'[c] = returned[c]
          /\ pc'[c] = "measure" => Extraction(c, Analysis(c))'
        BY <1>19 DEF Extracted, Goto, Abandon, At, Extraction, Analysis, TypeInv
    <2>2. Analysis(c) \in Analyses
        BY <2>1 DEF Place, Here, InLoop, Observing
    <2> QED
        BY <1>a, <1>b, <2>1, <2>2 DEF Observing
<1>20. CASE Request(c)
    <2>1. pc[c] = "measure" /\ pc'[c] = "measuring"
        BY <1>20 DEF Request, At, Put, Goto, TypeInv
    <2>2. current'[c][1] = current[c][1] /\ returned'[c] = returned[c]
        BY <1>20 DEF Request, TypeInv
    <2>3. Analysis(c) \in Analyses
        BY <2>1 DEF Place, Here, InLoop, Observing
    <2>4. manifest'[c] = manifest[c]
        BY <1>20 DEF Request
    <2> QED
        BY <1>b, <2>1, <2>2, <2>3, <2>4 DEF Backing, Extraction, Analysis, Observing
<1>21. CASE Measure(c)
    <2>1. pc[c] = "measuring" /\ pc'[c] = "measure"
        BY <1>21 DEF Measure, At, Put, Goto, TypeInv
    <2>2. current'[c][1] = current[c][1] /\ returned'[c] = returned[c]
        BY <1>21 DEF Measure, TypeInv
    <2>3. Analysis(c) \in Analyses
        BY <2>1 DEF Place, Here, InLoop, Observing
    <2>4. <<"extract", Analysis(c)>> \in Children /\ <<"measure", current[c][2]>> \in Children
        BY <2>1, ChildNames DEF Place, Here, Observing
    <2>5. manifest'[c][<<"extract", Analysis(c)>>] = manifest[c][<<"extract", Analysis(c)>>]
        BY <1>21, <2>4, NoteEffect DEF Measure
    <2> QED
        BY <1>b, <2>1, <2>2, <2>3, <2>5 DEF Backing, Extraction, Analysis, Observing
<1> QED
    BY <1>1, <1>2, <1>3, <1>4, <1>5, <1>6, <1>7, <1>8, <1>9, <1>10, <1>11, <1>12, <1>13,
       <1>14, <1>15, <1>16, <1>17, <1>18, <1>19, <1>20, <1>21 DEF Step

-----------------------------------------------------------------------------
(* The judgement and the audits.                                           *)

(* Before the audits a call is not judged, and it has not been audited.    *)
LEMMA JudgedEarly ==
    ASSUME NEW c \in Calls, Judged(c), pc[c] \notin {"final", "returned", "broken"},
           pc'[c] \notin Judging, stood'[c] = stood[c]
    PROVE  Judged(c)'
BY DEF Judged, Judging

(* Every step of a call keeps what its status says after the judgement.    *)
LEMMA JudgedNext ==
    ASSUME TypeInv, TypeInv', NEW c \in Calls, Place(c), Past(c), Backed(c), Judged(c),
           Step(c) \/ Break(c)
    PROVE  Judged(c)'
<1> USE DEF progress, children, judged
<1>1. CASE Check(c)
    BY <1>1, JudgedEarly DEF Check, Goto, TypeInv, InLoop, Observing, Place, Here, Judging
<1>2. CASE PutInputs(c)
    BY <1>2, JudgedEarly DEF PutInputs, Goto, Put, At, TypeInv, InLoop, Observing, Place,
       Here, Judging
<1>3. CASE Begin(c)
    BY <1>3, JudgedEarly DEF Begin, Goto, Put, At, TypeInv, InLoop, Observing, Place, Here,
       Judging
<1>4. CASE Simulate(c)
    BY <1>4, JudgedEarly DEF Simulate, Goto, At, TypeInv, InLoop, Observing, Place, Here,
       Judging
<1>5. CASE Simulated(c)
    BY <1>5, JudgedEarly DEF Simulated, Goto, TypeInv, InLoop, Observing, Place, Here, Judging
<1>6. CASE Capture(c)
    BY <1>6, JudgedEarly DEF Capture, Goto, Abandon, TypeInv, InLoop, Observing, Place, Here,
       Judging
<1>7. CASE Inspect(c)
    BY <1>7, JudgedEarly DEF Inspect, Goto, Abandon, TypeInv, InLoop, Observing, Place, Here,
       Judging
<1>8. CASE Select(c)
    BY <1>8, JudgedEarly DEF Select, Goto, Put, At, TypeInv, InLoop, Observing, Place, Here,
       Judging
<1>9. CASE Extract(c)
    BY <1>9, JudgedEarly DEF Extract, Goto, Put, At, TypeInv, InLoop, Observing, Place, Here,
       Judging
<1>10. CASE Extracted(c)
    BY <1>10, JudgedEarly DEF Extracted, Goto, Abandon, At, TypeInv, InLoop, Observing, Place,
       Here, Judging
<1>11. CASE Request(c)
    BY <1>11, JudgedEarly DEF Request, Goto, Put, At, TypeInv, InLoop, Observing, Place, Here,
       Judging
<1>12. CASE Measure(c)
    BY <1>12, JudgedEarly DEF Measure, Goto, Put, At, TypeInv, InLoop, Observing, Place, Here,
       Judging
<1>13. CASE Measured(c)
    BY <1>13, JudgedEarly DEF Measured, Goto, At, TypeInv, InLoop, Observing, Place, Here,
       Judging
<1>14. CASE Derive(c)
    BY <1>14, JudgedEarly DEF Derive, NoneLeft, Goto, Put, At, TypeInv, InLoop, Observing,
       Place, Here, Judging
<1>15. CASE Record(c)
    <2>1. /\ pc'[c] = pc[c] /\ status'[c] = status[c] /\ manifest'[c] = manifest[c]
          /\ returned'[c] = returned[c] /\ stood'[c] = stood[c] /\ writing'[c] = None
          /\ writing[c] # None /\ pc[c] \notin {"returned", "broken"}
        BY <1>15 DEF Record, Ended, TypeInv
    <2>2. pc[c] # "final"
        BY <2>1 DEF Judged
    <2> QED
        BY <2>1, <2>2 DEF Judged, ChildrenPass, Verdict, Holds
<1>16. CASE Judge(c)
    <2>1. /\ pc[c] = "run" /\ pc'[c] = "audit" /\ stood'[c] = stood[c] /\ manifest'[c] = manifest[c]
          /\ status'[c] = "pass" => ChildrenPass(c)
        BY <1>16 DEF Judge, NoneLeft, At, Goto, TypeInv
    <2>2. ~stood[c]
        BY <2>1 DEF Judged
    <2> QED
        BY <1>16, <2>1, <2>2 DEF Judge, Judged, Judging, ChildrenPass, TypeInv
<1>17. CASE Audit(c)
    <2> DEFINE f == First(unaudited[c])
    <2>1. /\ pc'[c] = pc[c] /\ manifest'[c] = manifest[c] /\ records'[c] = records[c]
          /\ returned'[c] = returned[c] /\ stood'[c] = stood[c] /\ writing'[c] = writing[c]
          /\ disk' = disk /\ pc[c] \in {"audit", "final"}
          /\ unaudited'[c] = unaudited[c] \ {f}
          /\ status'[c] = "pass" => status[c] = "pass" /\ <<f, disk[f]>> \in records[c]
        BY <1>17 DEF Audit, TypeInv
    <2>2. ASSUME pc[c] = "final", status'[c] = "pass", ~stood[c]
          PROVE  \E r \in records[c] : r[1] \in unaudited'[c] /\ r[2] < disk[r[1]]
        <3>1. PICK r \in records[c] : r[1] \in unaudited[c] /\ r[2] < disk[r[1]]
            BY <2>1, <2>2 DEF Judged
        <3>2. ~Conflict(c) /\ <<f, disk[f]>> \in records[c]
            BY <2>1, <2>2 DEF Judged
        <3>3. ASSUME r[1] = f
              PROVE  FALSE
            <4>1. r[2] = disk[f]
                BY <3>2, <3>3 DEF Conflict
            <4>2. f \in Files /\ disk[f] \in Nat
                BY <3>1, <3>3 DEF TypeInv, Record0
            <4> QED
                BY <3>1, <3>3, <4>1, <4>2
        <3> QED
            BY <2>1, <3>1, <3>3
    <2>3. Conflict(c)' = Conflict(c) /\ ChildrenPass(c)' = ChildrenPass(c)
        BY <2>1 DEF Conflict, ChildrenPass
    <2> QED
        BY <2>1, <2>2, <2>3 DEF Judged, Judging, Verdict, Holds
<1>18. CASE PutLog(c)
    <2>1. /\ pc[c] = "audit" /\ pc'[c] = "log" /\ stood'[c] = stood[c]
          /\ manifest'[c] = manifest[c] /\ status'[c] = status[c]
        BY <1>18 DEF PutLog, Put, Goto, At, TypeInv
    <2> QED
        BY <2>1 DEF Judged, Judging, ChildrenPass
<1>19. CASE AuditAgain(c)
    <2>1. /\ pc[c] = "log" /\ pc'[c] = "final" /\ writing[c] = None /\ writing'[c] = None
          /\ manifest'[c] = manifest[c] /\ records'[c] = records[c] /\ disk' = disk
          /\ returned'[c] = returned[c]
          /\ unaudited'[c] = Retained(c) /\ stood'[c] = Stands(c)
          /\ status'[c] = "pass" => status[c] = "pass" /\ ~Conflict(c)
        BY <1>19 DEF AuditAgain, Goto, At, TypeInv
    <2>2. Conflict(c)' = Conflict(c) /\ ChildrenPass(c)' = ChildrenPass(c)
        BY <2>1 DEF Conflict, ChildrenPass
    <2>3. ~Stands(c) => \E r \in records[c] : r[1] \in Retained(c) /\ r[2] < disk[r[1]]
        <3> SUFFICES ASSUME NEW r \in records[c], disk[r[1]] # r[2]
                     PROVE  r[2] < disk[r[1]] /\ r[1] \in Retained(c)
            BY DEF Stands
        <3>1. r[1] \in Files /\ r[2] \in Nat /\ disk[r[1]] \in Nat /\ r[2] <= disk[r[1]]
            BY DEF TypeInv, Record0, Past
        <3> QED
            BY <3>1 DEF Retained
    <2>4. ASSUME Stands(c), NEW a \in Analyses, Verdict(c, a) # {}
          PROVE  "vectors" \in Holds(c, a)
        <3>1. Good(c, a)
            BY <2>4 DEF Backed
        <3>2. ~Stale(c)
            <4> SUFFICES ASSUME NEW r \in records[c], r[2] < disk[r[1]]
                         PROVE  FALSE
                BY DEF Stale
            <4>1. r[1] \in Files /\ r[2] \in Nat /\ disk[r[1]] = r[2]
                BY <2>4 DEF TypeInv, Record0, Stands
            <4> QED
                BY <4>1
        <3> QED
            BY <3>1, <3>2 DEF Good
    <2> QED
        BY <2>1, <2>2, <2>3, <2>4 DEF Judged, Judging, Verdict, Holds
<1>20. CASE Report(c)
    <2>1. /\ pc[c] = "final" /\ pc'[c] = "returned" /\ writing[c] = None
          /\ writing'[c] = writing[c] /\ stood'[c] = stood[c] /\ status'[c] = status[c]
          /\ manifest'[c] = manifest[c] /\ records'[c] = records[c] /\ disk' = disk
          /\ returned'[c] = returned[c] /\ unaudited'[c] = unaudited[c] /\ unaudited[c] = {}
        BY <1>20 DEF Report, Goto, At, TypeInv
    <2>2. Conflict(c)' = Conflict(c) /\ ChildrenPass(c)' = ChildrenPass(c)
        BY <2>1 DEF Conflict, ChildrenPass
    <2> QED
        BY <2>1, <2>2 DEF Judged, Judging, Verdict, Holds
<1>21. CASE Break(c)
    <2>1. /\ pc'[c] = "broken" /\ \A a \in Analyses : Verdict(c, a)' = {}
        BY ZenonT(30), <1>21, ChildNames DEF Break, Goto, Verdict, TypeInv
    <2> QED
        BY <2>1 DEF Judged, Judging
<1> QED
    BY <1>1, <1>2, <1>3, <1>4, <1>5, <1>6, <1>7, <1>8, <1>9, <1>10, <1>11, <1>12, <1>13,
       <1>14, <1>15, <1>16, <1>17, <1>18, <1>19, <1>20, <1>21 DEF Step

-----------------------------------------------------------------------------
(* The calls and the outsider together.                                    *)

(* What a step of another call, or an edit, leaves of a call's invariant.  *)
LEMMA Keeps ==
    ASSUME TypeInv, Rise, NEW c \in Calls, Same(c), CallInv(c)
    PROVE  CallInv(c)'
<1> USE DEF Same
<1>1. Here(c)'
    <2>1. pc[c] \in {"simulate", "simulating"} => <<"deck", Analysis(c)>> \in Files
        BY FileNames DEF CallInv, Place, Here, InLoop
    <2>2. \A f \in Files : disk[f] > 0 => disk'[f] > 0
        BY DEF Rise, TypeInv
    <2> QED
        BY <2>1, <2>2 DEF CallInv, Place, Here, Analysis, Verdict
<1>2. Written(c)'
    <2>1. \A f \in Files : disk[f] > 0 => disk'[f] > 0
        BY DEF Rise, TypeInv
    <2>2. writing[c] # None => writing[c] \in Files
        BY DEF TypeInv
    <2> QED
        BY <2>1, <2>2 DEF CallInv, Place, Written
<1>3. Waiting(c)'
    BY DEF CallInv, Place, Waiting, Verdict
<1>4. Past(c)'
    BY PastKept DEF CallInv
<1>5. Stale(c) => Stale(c)'
    BY StaleKept
<1>6. Backed(c)' /\ Backing(c)'
    <2>1. \A a : Good(c, a) => Good(c, a)'
        BY <1>5 DEF Good, Holds
    <2>2. /\ \A a \in Analyses : Verdict(c, a)' # {} => Good(c, a)'
        BY <2>1 DEF CallInv, Backed, Verdict
    <2>3. Backed(c)'
        BY <2>2 DEF CallInv, Backed, Holds, Names, Verdict, Extraction
    <2>4. Good(c, current[c][1]) => Good(c, Analysis(c))'
        BY <1>5 DEF Good, Holds, Analysis
    <2>5. Backing(c)'
        BY <2>4 DEF CallInv, Backing, Holds, Names, Analysis, Extraction
    <2> QED
        BY <2>3, <2>5
<1>7. Judged(c)'
    <2>1. Conflict(c)' = Conflict(c) /\ ChildrenPass(c)' = ChildrenPass(c)
        BY DEF Conflict, ChildrenPass
    <2>2. \A r \in records[c] : r[2] < disk[r[1]] => r[2] < disk'[r[1]]
        <3> SUFFICES ASSUME NEW r \in records[c], r[2] < disk[r[1]]
                     PROVE  r[2] < disk'[r[1]]
            OBVIOUS
        <3>1. r[1] \in Files /\ r[2] \in Nat
            BY DEF TypeInv, Record0
        <3>2. disk[r[1]] \in Nat /\ disk'[r[1]] \in Nat /\ disk[r[1]] <= disk'[r[1]]
            BY <3>1 DEF Rise, TypeInv
        <3> QED
            BY <3>1, <3>2
    <2> QED
        BY <2>1, <2>2 DEF CallInv, Judged, Verdict, Holds
<1> QED
    BY <1>1, <1>2, <1>3, <1>4, <1>6, <1>7 DEF CallInv, Place

(* If nobody comes to own the directory, it stays as it is.                *)
LEMMA DirectoryKept ==
    ASSUME TypeInv, Rise, Directory, \A c \in Calls : Owns(c)' => Owns(c)
    PROVE  Directory'
<1>1. disk[<<"spec", None>>] > 0 => disk'[<<"spec", None>>] > 0
    <2> DEFINE f == <<"spec", None>>
    <2>1. f \in Files
        BY FileNames
    <2> HIDE DEF f
    <2>2. disk[f] \in Nat /\ disk'[f] \in Nat /\ disk[f] <= disk'[f]
        BY <2>1 DEF Rise, TypeInv
    <2>3. disk[f] > 0 => disk'[f] > 0
        BY <2>2
    <2> QED
        BY <2>3 DEF f
<1>2. \A c \in Calls : Owns(c)' => disk'[<<"spec", None>>] > 0
    BY <1>1 DEF Directory
<1>3. \A c, d \in Calls : Owns(c)' /\ Owns(d)' => c = d
    BY DEF Directory
<1> QED
    BY <1>2, <1>3 DEF Directory

(* Only the call that puts the specification comes to own the directory,   *)
(* and then no other owns it, since there was no specification.            *)
LEMMA DirectoryNext ==
    ASSUME TypeInv, TypeInv', Directory, NEW c \in Calls, Place(c), Step(c) \/ Break(c)
    PROVE  Directory'
<1>0. Rise
    BY Rises DEF TypeInv
<1>1. \A d \in Calls \ {c} : Owns(d)' = Owns(d)
    BY Frame, ShapeOfType DEF Same, Owns
<1>a. ASSUME Owns(c)' => Owns(c)
      PROVE  Directory'
    BY <1>0, <1>1, <1>a, DirectoryKept
<1> USE DEF progress, children, judged
<1>2. CASE Check(c)
    BY <1>2, <1>a DEF Check, Goto, Owns, TypeInv
<1>3. CASE Record(c)
    BY <1>3, <1>a DEF Record, Owns
<1>4. CASE Break(c)
    BY <1>4, <1>a DEF Break, Goto, Owns, TypeInv
<1>5. CASE PutInputs(c)
    <2>1. CASE pc[c] = "base"
        BY <1>a, <2>1 DEF Owns
    <2>2. CASE pc[c] # "base"
        <3>1. disk[<<"spec", None>>] = 0 /\ disk'[<<"spec", None>>] = 1
            BY <1>5, <2>2, FileNames, PutEffect DEF PutInputs, At
        <3>2. \A d \in Calls : ~Owns(d)
            BY <3>1 DEF Directory
        <3>3. \A d \in Calls \ {c} : ~Owns(d)'
            BY <1>1, <3>2
        <3> QED
            BY <3>1, <3>3 DEF Directory
    <2> QED
        BY <2>1, <2>2
<1>6. CASE Begin(c)
    BY <1>6, <1>a DEF Begin, At, Owns
<1>7. CASE Simulate(c)
    BY <1>7, <1>a DEF Simulate, At, Owns
<1>8. CASE Simulated(c)
    BY <1>8, <1>a DEF Simulated, Owns
<1>9. CASE Capture(c)
    BY <1>9, <1>a DEF Capture, Owns
<1>10. CASE Inspect(c)
    BY <1>10, <1>a DEF Inspect, Owns
<1>11. CASE Select(c)
    BY <1>11, <1>a DEF Select, At, Owns
<1>12. CASE Extract(c)
    BY <1>12, <1>a DEF Extract, At, Owns
<1>13. CASE Extracted(c)
    BY <1>13, <1>a DEF Extracted, At, Owns
<1>14. CASE Request(c)
    BY <1>14, <1>a DEF Request, At, Owns
<1>15. CASE Measure(c)
    BY <1>15, <1>a DEF Measure, At, Owns
<1>16. CASE Measured(c)
    BY <1>16, <1>a DEF Measured, At, Owns
<1>17. CASE Derive(c)
    BY <1>17, <1>a DEF Derive, NoneLeft, At, Owns
<1>18. CASE Judge(c)
    BY <1>18, <1>a DEF Judge, NoneLeft, At, Owns
<1>19. CASE Audit(c)
    BY <1>19, <1>a DEF Audit, Owns
<1>20. CASE PutLog(c)
    BY <1>20, <1>a DEF PutLog, At, Owns
<1>21. CASE AuditAgain(c)
    BY <1>21, <1>a DEF AuditAgain, At, Owns
<1>22. CASE Report(c)
    BY <1>22, <1>a DEF Report, At, Owns
<1> QED
    BY <1>2, <1>3, <1>4, <1>5, <1>6, <1>7, <1>8, <1>9, <1>10, <1>11, <1>12, <1>13, <1>14,
       <1>15, <1>16, <1>17, <1>18, <1>19, <1>20, <1>21, <1>22 DEF Step

-----------------------------------------------------------------------------
(* The inductive invariant and what follows from it.                       *)

(* The invariant holds before any call begins.                             *)
LEMMA InitIInv == Init => IInv
<1> SUFFICES ASSUME Init
             PROVE  IInv
    OBVIOUS
<1>1. TypeInv
    BY TypeInit
<1>2. Directory
    BY DEF Init, Directory, Owns
<1>3. ASSUME NEW c \in Calls
      PROVE  CallInv(c)
    <2>1. /\ pc[c] = "check" /\ writing[c] = None /\ records[c] = {} /\ unaudited[c] = {}
          /\ ~stood[c]
          /\ \A a \in Analyses : returned[c][a] = NoEnvelope
          /\ \A k \in Children : manifest[c][k] = {}
        BY DEF Init
    <2>2. /\ \A a \in Analyses : Verdict(c, a) = {}
          /\ \A m \in Measurements : manifest[c][<<"measure", m>>] = {}
        BY <2>1, ChildNames DEF Verdict
    <2>3. /\ \A a \in Analyses : Holds(c, a) = {}
          /\ \A a \in Analyses : Names(c, a) = {}
        BY <2>1 DEF Holds, Names, NoEnvelope
    <2>4. Place(c)
        BY <2>1, <2>2 DEF Place, Here, Written, Waiting, InLoop, Observing
    <2>5. Past(c)
        BY <2>1, <2>3 DEF Past
    <2>6. Backed(c)
        BY <2>2, <2>3, ExperimentAssumption DEF Backed
    <2>7. Backing(c) /\ Judged(c)
        BY <2>1 DEF Backing, Judged, Judging, Observing
    <2> QED
        BY <2>4, <2>5, <2>6, <2>7 DEF CallInv
<1> QED
    BY <1>1, <1>2, <1>3 DEF IInv

(* Every step of any call, and of the outsider, keeps the invariant.       *)
LEMMA NextIInv == IInv /\ [Next]_vars => IInv'
<1> SUFFICES ASSUME IInv, [Next]_vars
             PROVE  IInv'
    OBVIOUS
<1>1. TypeInv'
    BY TypeNext DEF IInv, CallInv
<1>2. ASSUME NEW c \in Calls, Step(c) \/ Break(c)
      PROVE  IInv'
    <2>1. Rise
        BY <1>2, Rises DEF IInv, TypeInv
    <2>2. CallInv(c)'
        BY <1>1, <1>2, HereNext, WrittenNext, WaitingNext, PastNext, BackedNext, BackingNext,
           JudgedNext DEF IInv, CallInv, Place
    <2>3. ASSUME NEW d \in Calls \ {c}
          PROVE  CallInv(d)'
        BY <1>2, <2>1, Frame, ShapeOfType, Keeps DEF IInv
    <2>4. Directory'
        BY <1>1, <1>2, DirectoryNext DEF IInv, CallInv
    <2> QED
        BY <1>1, <2>2, <2>3, <2>4 DEF IInv
<1>3. CASE Edit \/ UNCHANGED vars
    <2>1. Rise
        <3>1. CASE Edit
            <4> PICK g \in Files : disk' = [disk EXCEPT ![g] = @ + 1]
                BY <3>1 DEF Edit
            <4> QED
                BY DEF Rise, IInv, TypeInv
        <3>2. CASE UNCHANGED vars
            BY <3>2 DEF vars, Rise, IInv, TypeInv
        <3> QED
            BY <1>3, <3>1, <3>2
    <2>2. \A c \in Calls : Same(c)
        BY <1>3 DEF Edit, vars, progress, children, judged, Same
    <2>3. \A c \in Calls : CallInv(c)'
        BY <2>1, <2>2, Keeps DEF IInv
    <2>4. Directory'
        BY <2>1, <2>2, DirectoryKept DEF IInv, Same, Owns
    <2> QED
        BY <1>1, <2>3, <2>4 DEF IInv
<1> QED
    BY <1>2, <1>3 DEF Next, AllEnded

(* The invariant all the theorems rest on.                                 *)
THEOREM Invariance == Spec => []IInv
BY InitIInv, NextIInv, PTL DEF Spec

(* Every reachable state of the directory and of the calls is well typed.  *)
THEOREM TypeCorrect == Spec => []TypeOK
<1>1. IInv => TypeOK
    BY DEF IInv, CallInv, Past, TypeInv, TypeOK, Record0
<1> QED
    BY Invariance, <1>1, PTL

(* In a call that passed every child passed every test of the loop and of  *)
(* the judgement, although each makes only some of them.                   *)
THEOREM PassEarned == Spec => []PassIsEarned
<1>1. ASSUME IInv, NEW c \in Calls, Passes(c)
      PROVE  /\ \A a \in Analyses : returned[c][a].holds = SimFacts
             /\ \A a \in Observed : manifest[c][<<"extract", a>>] = ChildFacts
             /\ \A m \in Measurements : manifest[c][<<"measure", m>>] = ChildFacts
             /\ \A d \in Derivations : "complete" \in manifest[c][<<"derivation", d>>]
    <2>1. TypeInv /\ Backed(c) /\ Judged(c)
        BY <1>1 DEF IInv, CallInv
    <2>2. ChildrenPass(c) /\ stood[c]
        BY <1>1, <2>1 DEF Passes, Judged, Judging
    <2>3. \A a \in Analyses : Verdict(c, a) # {}
        BY <2>2, ChildNames DEF ChildrenPass, Asked, Verdict
    <2>4. ASSUME NEW a \in Analyses
          PROVE  returned[c][a].holds = SimFacts
        <3>1. Good(c, a) /\ "vectors" \in Holds(c, a)
            BY <2>1, <2>2, <2>3 DEF Backed, Judged
        <3>2. returned[c][a].holds \subseteq SimFacts
            BY <2>1 DEF TypeInv
        <3> QED
            BY <3>1, <3>2 DEF Good, Holds, SimFacts
    <2>5. \A a \in Observed : manifest[c][<<"extract", a>>] = ChildFacts
        BY <2>1, <2>3, ExperimentAssumption DEF Backed, Extraction
    <2>6. ASSUME NEW m \in Measurements
          PROVE  manifest[c][<<"measure", m>>] = ChildFacts
        <3>1. manifest[c][<<"measure", m>>] \in {{}, ChildFacts}
            BY <2>1, <2>3, ExperimentAssumption DEF Backed
        <3>2. "complete" \in manifest[c][<<"measure", m>>]
            BY <2>2, ChildNames DEF ChildrenPass, Asked
        <3> QED
            BY <3>1, <3>2
    <2>7. \A d \in Derivations : "complete" \in manifest[c][<<"derivation", d>>]
        BY <2>2, ChildNames DEF ChildrenPass, Asked
    <2> QED
        BY <2>4, <2>5, <2>6, <2>7
<1>2. IInv => PassIsEarned
    BY <1>1 DEF PassIsEarned
<1> QED
    BY Invariance, <1>2, PTL

(* The evidence of a pass was all true at one moment: a record that was    *)
(* stale when the final audit began is stale when the audit comes to it.   *)
THEOREM EvidenceTrue == Spec => []EvidenceStood
<1>1. IInv => EvidenceStood
    BY DEF IInv, CallInv, Judged, EvidenceStood, Passes
<1> QED
    BY Invariance, <1>1, PTL

(* The simulator of a passing run read the deck that was validated.        *)
THEOREM DeckValidated == Spec => []PassedDeckIsValidated
<1>1. ASSUME IInv, NEW c \in Calls, Passes(c), NEW a \in Analyses
      PROVE  deckRead[c][a] = 1
    <2>1. ChildrenPass(c) /\ Backed(c)
        BY <1>1 DEF IInv, CallInv, Judged, Judging, Passes
    <2>2. Verdict(c, a) # {}
        BY <2>1, ChildNames DEF ChildrenPass, Asked, Verdict
    <2> QED
        BY <2>1, <2>2 DEF Backed, Good
<1>2. IInv => PassedDeckIsValidated
    BY <1>1 DEF PassedDeckIsValidated
<1> QED
    BY Invariance, <1>2, PTL

(* A pass rests on tests passed by children that read the validated deck.  *)
THEOREM PassGenuine == Spec => []PassIsGenuine
    BY PassEarned, DeckValidated, PTL DEF PassIsGenuine

(* The evidence in a directory is that of one call: the specification is   *)
(* created exclusively, before anything else.                              *)
THEOREM DirectoryOwned == Spec => []OneRunPerDirectory
<1>1. IInv => OneRunPerDirectory
    BY DEF IInv, Directory, Owns, OneRunPerDirectory
<1> QED
    BY Invariance, <1>1, PTL
-----------------------------------------------------------------------------
(* SpecificationEvaluate.                                                  *)

(* The judgement of a measurement. The records that it is about: any       *)
(* names, any integers, any conditions.                                    *)
ConditionRecord   == [name : STRING, type : STRING, value : Int, unit : STRING]
SourceRecord      == [role : STRING, request : STRING, artifact : STRING, series : STRING, lineage : STRING,
                      conditions : Seq(ConditionRecord), seal : Seq(ConditionRecord)]
MeasurementRecord == [id : STRING, status : STRING, request : STRING, value : Int, unit : STRING, source : SourceRecord]
LimitRecord       == [value : Int, unit : STRING, inclusive : BOOLEAN]
LimitsRecord      == UNION {[sides -> LimitRecord] : sides \in SUBSET {"lower", "upper"}}
SpecificationRecord == [id : STRING, measurement : STRING, limits : LimitsRecord, conditions : Seq(ConditionRecord)]

(* A conclusion is drawn only by Conclude, after every other test.         *)
LEMMA OnlyConclude ==
    ASSUME NEW m, NEW s, Concludes(m, s)
    PROVE  /\ MeasurementFits(m) /\ SpecificationFits(s) /\ s.measurement = m.id /\ m.status = "measured"
           /\ UnitsMatch(m, s) /\ Proven(m, s) /\ Evaluate(m, s) = Conclude(m, s)
<1>1. Invalid.status = "unknown" /\ \A n : Unknown(n).status = "unknown"
    BY DEF Invalid, Unknown, Reply
<1>2. QED
    BY <1>1 DEF Concludes, Status, Evaluate

(* The limits of a specification that fits.                                *)
LEMMA Sides ==
    ASSUME NEW s \in SpecificationRecord, SpecificationFits(s)
    PROVE  /\ DOMAIN s.limits # {} /\ DOMAIN s.limits \subseteq {"lower", "upper"}
           /\ \A k \in DOMAIN s.limits : s.limits[k] \in LimitRecord
           /\ \A k \in DOMAIN s.limits : s.limits[k].value \in Int
<1>1. s.limits \in LimitsRecord
    BY DEF SpecificationRecord
<1>2. PICK sides \in SUBSET {"lower", "upper"} : s.limits \in [sides -> LimitRecord]
    BY <1>1 DEF LimitsRecord
<1>3. QED
    BY <1>2 DEF SpecificationFits, LimitRecord

(* What Conclude says, of any value of the measurement.                    *)
LEMMA WhatIsConcluded ==
    ASSUME NEW m, NEW s
    PROVE  /\ (\E k \in DOMAIN s.limits : ~Finite(MarginTo(m, s, k))) => Conclude(m, s).status = "unknown"
           /\ (\A k \in DOMAIN s.limits : Finite(MarginTo(m, s, k))) =>
                 /\ Conclude(m, s).status = IF \E k \in DOMAIN s.limits : Violates(m, s, k) THEN "fail" ELSE "pass"
                 /\ Conclude(m, s).margin = [value |-> MarginTo(m, s, Limiting(m, s)), to |-> Limiting(m, s)]
BY DEF Conclude, Invalid, Reply

(* The limiting side is the one with the least margin.                     *)
LEMMA LeastMargin ==
    ASSUME NEW m, NEW s, m.value \in Int, DOMAIN s.limits # {}, DOMAIN s.limits \subseteq {"lower", "upper"},
           \A k \in DOMAIN s.limits : s.limits[k].value \in Int
    PROVE  /\ Limiting(m, s) \in DOMAIN s.limits
           /\ \A k \in DOMAIN s.limits : MarginTo(m, s, k) \in Int
           /\ \A k \in DOMAIN s.limits : MarginTo(m, s, Limiting(m, s)) <= MarginTo(m, s, k)
<1>1. \A k \in DOMAIN s.limits : MarginTo(m, s, k) \in Int
    BY DEF MarginTo
<1>2. CASE "upper" \notin DOMAIN s.limits
  <2>1. DOMAIN s.limits = {"lower"} /\ Limiting(m, s) = "lower"
    BY <1>2 DEF Limiting
  <2>2. QED
    BY <1>1, <2>1
<1>3. CASE "upper" \in DOMAIN s.limits /\ "lower" \notin DOMAIN s.limits
  <2>1. DOMAIN s.limits = {"upper"} /\ Limiting(m, s) = "upper"
    BY <1>3 DEF Limiting
  <2>2. QED
    BY <1>1, <2>1
<1>4. CASE "upper" \in DOMAIN s.limits /\ "lower" \in DOMAIN s.limits
  <2>1. DOMAIN s.limits = {"lower", "upper"}
    BY <1>4
  <2>2. MarginTo(m, s, "lower") \in Int /\ MarginTo(m, s, "upper") \in Int
    BY <1>1, <1>4
  <2>3. CASE MarginTo(m, s, "lower") <= MarginTo(m, s, "upper")
    <3>1. Limiting(m, s) = "lower"
      BY <1>4, <2>3 DEF Limiting
    <3>2. QED
      BY <1>1, <2>1, <2>2, <2>3, <3>1
  <2>4. CASE ~(MarginTo(m, s, "lower") <= MarginTo(m, s, "upper"))
    <3>1. Limiting(m, s) = "upper"
      BY <1>4, <2>4 DEF Limiting
    <3>2. QED
      BY <1>1, <2>1, <2>2, <2>4, <3>1
  <2>5. QED
    BY <2>3, <2>4
<1>5. QED
    BY <1>2, <1>3, <1>4

(* The limits leave exactly the values that violate none of them.          *)
LEMMA LeftOver ==
    ASSUME Widest \in Nat, NEW m, NEW s, m.value \in -Widest .. Widest, DOMAIN s.limits \subseteq {"lower", "upper"},
           \A k \in DOMAIN s.limits : s.limits[k].value \in Int
    PROVE  m.value \in Permitted(s.limits) <=> \A k \in DOMAIN s.limits : ~Violates(m, s, k)
<1>1. ASSUME NEW k \in DOMAIN s.limits
      PROVE  Leaves(k, s.limits[k], m.value) <=> ~Violates(m, s, k)
  <2>1. m.value \in Int /\ s.limits[k].value \in Int
    OBVIOUS
  <2>2. CASE k = "lower"
    BY <2>1, <2>2 DEF Leaves, Violates, MarginTo
  <2>3. CASE k # "lower"
    BY <2>1, <2>3 DEF Leaves, Violates, MarginTo
  <2>4. QED
    BY <2>2, <2>3
<1>2. QED
    BY <1>1 DEF Permitted

(* The same measurement with another value is judged by Conclude as well.  *)
LEMMA JudgedAlike ==
    ASSUME Widest \in Nat, NEW m \in MeasurementRecord, NEW s, Concludes(m, s), NEW w \in -Widest .. Widest
    PROVE  /\ [m EXCEPT !.value = w].value = w
           /\ Evaluate([m EXCEPT !.value = w], s) = Conclude([m EXCEPT !.value = w], s)
<1> DEFINE n == [m EXCEPT !.value = w]
<1>1. /\ n.value = w /\ n.id = m.id /\ n.status = m.status /\ n.request = m.request
      /\ n.unit = m.unit /\ n.source = m.source
    BY DEF MeasurementRecord
<1> HIDE DEF n
<1>2. /\ MeasurementFits(m) /\ SpecificationFits(s) /\ s.measurement = m.id /\ m.status = "measured"
      /\ UnitsMatch(m, s) /\ Proven(m, s)
    BY OnlyConclude
<1>3. MeasurementFits(n)
    BY <1>1, <1>2 DEF MeasurementFits, Finite
<1>4. UnitsMatch(n, s) /\ Proven(n, s)
    BY <1>1, <1>2 DEF UnitsMatch, Proven, Matched, BindsTo
<1>5. Evaluate(n, s) = Conclude(n, s)
    BY <1>1, <1>2, <1>3, <1>4 DEF Evaluate
<1>6. QED
    BY <1>1, <1>5 DEF n

(* A verdict says whether the value is among those that the limits leave,  *)
(* and its margin is how far it may move.                                  *)
LEMMA SafeMargin ==
    ASSUME Widest \in Nat, NEW m \in MeasurementRecord, NEW s \in SpecificationRecord
    PROVE  MarginIsSafe(m, s)
<1> SUFFICES ASSUME Concludes(m, s) PROVE MarginIsSafe(m, s)
    BY DEF MarginIsSafe
<1> DEFINE sides  == DOMAIN s.limits
           near   == Limiting(m, s)
           least  == MarginTo(m, s, near)
           margin == Evaluate(m, s).margin
           inside == IF margin.value < 0 THEN -margin.value ELSE margin.value
           past   == m.value + (IF margin.to = "lower" THEN -1 ELSE 1) * (margin.value + 1)
<1>1. /\ MeasurementFits(m) /\ SpecificationFits(s) /\ m.status = "measured" /\ Evaluate(m, s) = Conclude(m, s)
    BY OnlyConclude
<1>2. /\ sides # {} /\ sides \subseteq {"lower", "upper"}
      /\ \A k \in sides : s.limits[k].value \in Int
    BY <1>1, Sides
<1>3. m.value \in -Widest .. Widest /\ m.value \in Int
    BY <1>1 DEF MeasurementFits, Finite
<1>4. /\ near \in sides /\ least \in Int /\ \A k \in sides : MarginTo(m, s, k) \in Int /\ least <= MarginTo(m, s, k)
    BY <1>2, <1>3, LeastMargin
<1>5. \A k \in sides : Finite(MarginTo(m, s, k))
    BY <1>1, WhatIsConcluded DEF Concludes, Status
<1>6. /\ Status(m, s) = IF \E k \in sides : Violates(m, s, k) THEN "fail" ELSE "pass"
      /\ margin = [value |-> least, to |-> near]
    BY <1>1, <1>5, WhatIsConcluded DEF Status
<1>7. margin.value = least /\ margin.to = near
    BY <1>6
<1>8. ASSUME NEW w \in -Widest .. Widest
      PROVE  /\ MovedTo(m, s, w) \in {"pass", "fail", "unknown"}
             /\ MovedTo(m, s, w) = "pass" => \A k \in sides : ~Violates([m EXCEPT !.value = w], s, k)
             /\ MovedTo(m, s, w) = "fail" => \E k \in sides : Violates([m EXCEPT !.value = w], s, k)
             /\ \A k \in sides : MarginTo([m EXCEPT !.value = w], s, k) =
                                   MarginTo(m, s, k) + (IF k = "lower" THEN w - m.value ELSE m.value - w)
  <2> DEFINE n == [m EXCEPT !.value = w]
  <2>1. n.value = w /\ Evaluate(n, s) = Conclude(n, s)
    BY JudgedAlike
  <2> HIDE DEF n
  <2>2. MovedTo(m, s, w) = Conclude(n, s).status
    BY <2>1 DEF MovedTo, Status, n
  <2>3. \A k \in sides : MarginTo(n, s, k) = MarginTo(m, s, k) + (IF k = "lower" THEN w - m.value ELSE m.value - w)
    <3> SUFFICES ASSUME NEW k \in sides
                 PROVE  MarginTo(n, s, k) = MarginTo(m, s, k) + (IF k = "lower" THEN w - m.value ELSE m.value - w)
        OBVIOUS
    <3>1. s.limits[k].value \in Int /\ w \in Int
        BY <1>2
    <3>2. CASE k = "lower"
        BY <1>3, <2>1, <3>1, <3>2 DEF MarginTo
    <3>3. CASE k # "lower"
        BY <1>3, <2>1, <3>1, <3>3 DEF MarginTo
    <3>4. QED
        BY <3>2, <3>3
  <2>4. CASE \E k \in sides : ~Finite(MarginTo(n, s, k))
    <3>1. Conclude(n, s).status = "unknown"
        BY <2>4, WhatIsConcluded
    <3>2. QED
        BY <2>2, <2>3, <3>1 DEF n
  <2>5. CASE \A k \in sides : Finite(MarginTo(n, s, k))
    <3>1. Conclude(n, s).status = IF \E k \in sides : Violates(n, s, k) THEN "fail" ELSE "pass"
        BY <2>5, WhatIsConcluded
    <3>2. QED
        BY <2>2, <2>3, <3>1 DEF n
  <2>6. QED
    BY <2>4, <2>5
<1> HIDE DEF sides, near, least, margin
(* The verdict is that of the limits.                                      *)
<1>9. (Status(m, s) = "pass") <=> (m.value \in Permitted(s.limits))
    BY <1>2, <1>3, <1>6, LeftOver DEF sides
<1>10. IF Status(m, s) = "pass" THEN margin.value >= 0 ELSE margin.value <= 0
  <2>1. CASE Status(m, s) = "pass"
    BY <1>4, <1>6, <1>7, <2>1 DEF Violates, least
  <2>2. CASE Status(m, s) # "pass"
    <3>1. PICK k \in sides : Violates(m, s, k)
        BY <1>6, <2>2
    <3>2. QED
        BY <1>4, <1>7, <2>2, <3>1 DEF Violates
  <2>3. QED
    BY <2>1, <2>2
(* Strictly within the margin, what was violated still is, and what was    *)
(* not still is not.                                                       *)
<1>11. ASSUME NEW w \in -Widest .. Widest, w > m.value - inside, w < m.value + inside
       PROVE  MovedTo(m, s, w) \in {Status(m, s), "unknown"}
  <2> DEFINE n == [m EXCEPT !.value = w]
  <2>0. w \in Int /\ least \in Int
    BY <1>4
  <2>1. CASE Status(m, s) = "pass"
    <3>1. inside = least
        BY <1>4, <1>7, <1>10, <2>1
    <3>2. w - m.value < least /\ m.value - w < least
        BY <1>3, <1>11, <2>0, <3>1
    <3>3. ASSUME NEW k \in sides PROVE MarginTo(n, s, k) \in Int /\ MarginTo(n, s, k) > 0
        <4>1. least <= MarginTo(m, s, k) /\ MarginTo(m, s, k) \in Int
            BY <1>4
        <4>2. k = "lower" => MarginTo(n, s, k) = MarginTo(m, s, k) + (w - m.value)
            BY <1>8
        <4>3. k # "lower" => MarginTo(n, s, k) = MarginTo(m, s, k) + (m.value - w)
            BY <1>8
        <4> HIDE DEF n
        <4>4. QED
            BY <1>3, <2>0, <3>2, <4>1, <4>2, <4>3
    <3>4. \A k \in sides : ~Violates(n, s, k)
        <4> HIDE DEF n
        <4>1. QED
            BY <3>3 DEF Violates
    <3>5. QED
        BY <1>8, <2>1, <3>4
  <2>2. CASE Status(m, s) # "pass"
    <3>1. Status(m, s) = "fail"
        BY <1>6, <2>2
    <3>2. inside = -least /\ least <= 0
        BY <1>4, <1>7, <1>10, <2>2
    <3>3. w - m.value < -least /\ m.value - w < -least
        BY <1>3, <1>11, <2>0, <3>2
    <3>4. MarginTo(n, s, near) < 0
        <4>1. near = "lower" => MarginTo(n, s, near) = least + (w - m.value)
            BY <1>4, <1>8 DEF least
        <4>2. near # "lower" => MarginTo(n, s, near) = least + (m.value - w)
            BY <1>4, <1>8 DEF least
        <4> HIDE DEF n
        <4>3. QED
            BY <1>3, <2>0, <3>3, <4>1, <4>2
    <3>5. Violates(n, s, near)
        BY <3>4 DEF Violates
    <3>6. QED
        BY <1>4, <1>8, <3>1, <3>5
  <2>3. QED
    BY <2>1, <2>2
(* One step past the limit it is violated.                                 *)
<1>12. ASSUME Finite(past), Status(m, s) = "pass"
       PROVE  MovedTo(m, s, past) \in {"fail", "unknown"}
  <2>1. past \in -Widest .. Widest
    BY <1>12 DEF Finite
  <2>2. least >= 0
    BY <1>7, <1>10, <1>12
  <2>3. MarginTo([m EXCEPT !.value = past], s, near) = -1
    <3>1. CASE near = "lower"
        <4>1. past = m.value - (least + 1)
            BY <1>3, <1>4, <1>7, <3>1
        <4> DEFINE n == [m EXCEPT !.value = past]
        <4>2. MarginTo(n, s, near) = least + (past - m.value)
            BY <1>4, <1>8, <2>1, <3>1 DEF least
        <4> HIDE DEF n, past
        <4>3. MarginTo(n, s, near) = -1
            BY <1>3, <1>4, <4>1, <4>2
        <4>4. QED
            BY <4>3 DEF n, past
    <3>2. CASE near # "lower"
        <4>1. past = m.value + (least + 1)
            BY <1>3, <1>4, <1>7, <3>2
        <4> DEFINE n == [m EXCEPT !.value = past]
        <4>2. MarginTo(n, s, near) = least + (m.value - past)
            BY <1>4, <1>8, <2>1, <3>2 DEF least
        <4> HIDE DEF n, past
        <4>3. MarginTo(n, s, near) = -1
            BY <1>3, <1>4, <4>1, <4>2
        <4>4. QED
            BY <4>3 DEF n, past
    <3>3. QED
        BY <3>1, <3>2
  <2>4. Violates([m EXCEPT !.value = past], s, near)
    BY <2>3 DEF Violates
  <2> HIDE DEF past
  <2>5. QED
    BY <1>4, <1>8, <2>1, <2>4
<1>13. QED
    BY <1>9, <1>10, <1>11, <1>12 DEF MarginIsSafe, margin

(* Every condition that is asked for is bound, by the one of its name.     *)
LEMMA WholeEvidence ==
    ASSUME NEW m \in MeasurementRecord, NEW s \in SpecificationRecord
    PROVE  EvidenceIsComplete(m, s)
<1> SUFFICES ASSUME Concludes(m, s) PROVE EvidenceIsComplete(m, s)
    BY DEF EvidenceIsComplete
<1> DEFINE bound == m.source.conditions
           asked == s.conditions
<1>1. /\ MeasurementFits(m) /\ s.measurement = m.id /\ UnitsMatch(m, s) /\ Proven(m, s)
    BY OnlyConclude
<1>2. asked \in Seq(ConditionRecord) /\ bound \in Seq(ConditionRecord)
    BY DEF SpecificationRecord, MeasurementRecord, SourceRecord
<1>3. \A i \in DOMAIN asked : BindsTo(m, asked[i])
  <2> DEFINE heads == {n \in DOMAIN asked : \A i \in 1 .. n : BindsTo(m, asked[i])}
  <2>1. DOMAIN asked = 1 .. Len(asked) /\ Len(asked) \in Nat
    BY <1>2
  <2>2. IsFiniteSet(DOMAIN asked) /\ Cardinality(DOMAIN asked) = Len(asked)
    <3>1. /\ IsFiniteSet(1 .. Len(asked))
          /\ Cardinality(1 .. Len(asked)) = IF 1 > Len(asked) THEN 0 ELSE Len(asked) - 1 + 1
        <4> HIDE DEF asked
        <4>1. 1 \in Int /\ Len(asked) \in Int
            BY <2>1
        <4>2. QED
            BY <4>1, FS_Interval, Zenon
    <3>2. QED
        BY <2>1, <3>1
  <2>3. Cardinality(heads) = Len(asked)
    BY <1>1 DEF Proven, Matched
  <2>4. heads = DOMAIN asked
    BY <2>2, <2>3, FS_Subset
  <2>5. QED
    BY <2>1, <2>4
<1>4. Distinct([i \in DOMAIN bound |-> bound[i].name]) /\ m.source.seal = bound
    BY <1>1 DEF MeasurementFits, SourceFits, ConditionsFit
<1>5. ASSUME NEW i \in DOMAIN asked
      PROVE  \E j \in DOMAIN bound : bound[j] = asked[i]
    BY <1>3 DEF BindsTo, ToSet
<1>6. ASSUME NEW i \in DOMAIN asked, NEW j \in DOMAIN bound, bound[j].name = asked[i].name
      PROVE  bound[j] = asked[i]
  <2>1. PICK k \in DOMAIN bound : bound[k] = asked[i]
    BY <1>5
  <2>2. k = j
    BY <1>4, <1>6, <2>1 DEF Distinct
  <2>3. QED
    BY <2>1, <2>2
<1>7. \A k \in DOMAIN s.limits : s.limits[k].unit = m.unit
    BY <1>1 DEF UnitsMatch
<1>8. QED
    BY <1>1, <1>4, <1>5, <1>6, <1>7 DEF EvidenceIsComplete

(* Whatever is measured and specified, a pass or a fail of                 *)
(* evaluate_specification rests on complete evidence, says whether the     *)
(* value is among those that the limits leave, and reports a margin within *)
(* which the value may move.                                               *)
THEOREM VerdictEarned ==
    ASSUME Widest \in Nat, NEW m \in MeasurementRecord, NEW s \in SpecificationRecord
    PROVE  VerdictIsSound(m, s)
BY SafeMargin, WholeEvidence DEF VerdictIsSound
-----------------------------------------------------------------------------
LEMMA LeastOf ==
    ASSUME NEW T \in SUBSET Nat, T # {}
    PROVE  Min(T) \in T /\ \A n \in T : Min(T) <= n
<1> DEFINE R == OpToRel(<, Nat)
<1>1. IsWellFoundedOn(R, Nat)
    BY NatLessThanWellFounded
<1>2. \A m, n \in Nat : m < n => <<m, n>> \in R
    BY DEF OpToRel
<1> HIDE DEF R
<1>3. PICK m \in T : \A n \in T : ~(<<n, m>> \in R)
    BY <1>1, WFMin
<1>4. ASSUME NEW n \in T PROVE m <= n
  <2>1. n \in Nat /\ m \in Nat
    OBVIOUS
  <2>2. ~(n < m)
    BY <1>2, <1>3, <2>1
  <2>3. QED
    BY <2>1, <2>2
<1>5. QED
    BY <1>4 DEF Min

LEMMA GreatestOf ==
    ASSUME NEW n \in Nat, NEW T \in SUBSET (1 .. n), T # {}
    PROVE  Max(T) \in T /\ \A m \in T : m <= Max(T)
<1> DEFINE R == {m \in Nat : m <= n /\ n - m \in T}
<1>1. R \in SUBSET Nat /\ R # {}
  <2>1. PICK t \in T : TRUE
    OBVIOUS
  <2>2. n - t \in R
    <3>1. t \in 1 .. n
        BY <2>1
    <3>2. n - t \in Nat /\ n - t <= n /\ n - (n - t) = t
        BY <3>1
    <3>3. QED
        BY <2>1, <3>2
  <2>3. QED
    BY <2>2
<1>2. Min(R) \in R /\ \A m \in R : Min(R) <= m
    BY <1>1, LeastOf
<1> DEFINE low == Min(R)
<1>3. low \in Nat /\ n - low \in T
    BY <1>2
<1>4. ASSUME NEW m \in T PROVE m <= n - low
  <2>1. m \in 1 .. n /\ n - m \in Nat /\ n - m <= n /\ n - (n - m) = m
    OBVIOUS
  <2>2. n - m \in R
    BY <2>1
  <2>3. low <= n - m
    BY <1>2, <2>2
  <2> HIDE DEF low
  <2>4. QED
    BY <1>3, <2>1, <2>3
<1> HIDE DEF low
<1>5. \E x \in T : \A y \in T : y <= x
    BY <1>3, <1>4
<1>6. \E x \in T : \A y \in T : x >= y
  <2>1. \A x, y \in T : y <= x => x >= y
    OBVIOUS
  <2>2. QED
    BY <1>5, <2>1
<1>7. Max(T) \in T /\ \A y \in T : Max(T) >= y
    BY <1>6 DEF Max
<1>8. QED
    BY <1>7

(* The reading of a report, state by state.                                *)
ReportSteps(s, lines) == s[0] = Unread /\ \A k \in 1 .. Len(lines) : s[k] = ReadLine(s[k - 1], lines[k])
LEMMA ReportScan ==
    ASSUME NEW lines, Len(lines) \in Nat
    PROVE  \E s : ReportSteps(s, lines) /\ Comparisons(lines) = s[Len(lines)].found
<1> DEFINE n == Len(lines)
           StateAt(s, k) == IF k = 0 THEN Unread ELSE ReadLine(s[k - 1], lines[k])
           States(s, m) == s = [k \in 0 .. m |-> StateAt(s, k)]
           bad == {m \in Nat : ~ \E s : States(s, m)}
           least == Min(bad)
<1>1. bad = {}
  <2> SUFFICES ASSUME bad # {} PROVE FALSE
    OBVIOUS
  <2>1. bad \in SUBSET Nat
    OBVIOUS
  <2>2. least \in bad /\ \A m \in bad : least <= m
    BY <2>1, LeastOf
  <2> HIDE DEF least
  <2>3. least \in Nat /\ ~ \E s : States(s, least)
    <3> HIDE DEF States
    <3>1. QED
        BY <2>2
  <2>4. least # 0
    <3> DEFINE s == [k \in 0 .. 0 |-> Unread]
    <3>1. \A k \in 0 .. 0 : k = 0
        OBVIOUS
    <3>2. s = [k \in 0 .. 0 |-> StateAt(s, k)]
        BY <3>1
    <3>3. QED
        BY <2>3, <3>2
  <2>5. PICK s : States(s, least - 1)
    <3> HIDE DEF States
    <3>1. least - 1 \in Nat /\ ~(least <= least - 1)
        BY <2>3, <2>4
    <3>2. QED
        BY <2>2, <3>1
  <2> DEFINE g == [k \in 0 .. least |-> IF k = least THEN ReadLine(s[least - 1], lines[least]) ELSE s[k]]
  <2>6. \A k \in 0 .. least - 1 : s[k] = StateAt(s, k)
    <3> HIDE DEF StateAt
    <3>1. s = [k \in 0 .. least - 1 |-> StateAt(s, k)]
        BY <2>5
    <3>2. QED
        BY <3>1
  <2>7. ASSUME NEW k \in 0 .. least PROVE g[k] = StateAt(g, k)
    <3>1. k \in Int /\ least \in Int /\ least - 1 \in 0 .. least
        BY <2>3, <2>4
    <3>2. CASE k = least
        <4>1. g[k] = ReadLine(s[least - 1], lines[least]) /\ g[least - 1] = s[least - 1]
            BY <3>1, <3>2
        <4>2. QED
            BY <2>4, <3>2, <4>1
    <3>3. CASE k # least /\ k # 0
        <4>1. k \in 0 .. least - 1 /\ k - 1 \in 0 .. least /\ k - 1 # least
            BY <3>1, <3>3
        <4>2. g[k] = s[k] /\ g[k - 1] = s[k - 1]
            BY <3>3, <4>1
        <4>3. QED
            BY <2>6, <3>3, <4>1, <4>2
    <3>4. CASE k # least /\ k = 0
        <4>1. k \in 0 .. least - 1
            BY <3>1, <3>4
        <4>2. QED
            BY <2>6, <3>4, <4>1
    <3>5. QED
        BY <3>2, <3>3, <3>4
  <2>8. States(g, least)
    <3> HIDE DEF StateAt
    <3>1. QED
        BY <2>7
  <2>9. QED
    BY <2>3, <2>8
<1>2. PICK s : States(s, n)
  <2> HIDE DEF States
  <2>1. QED
    BY <1>1
<1> DEFINE of == CHOOSE f : States(f, n)
<1>3. States(of, n)
  <2> HIDE DEF States
  <2>1. QED
    BY <1>2
<1>4. Comparisons(lines) = of[n].found
    BY DEF Comparisons
<1> HIDE DEF of
<1>5. \A k \in 0 .. n : of[k] = StateAt(of, k)
  <2> HIDE DEF StateAt
  <2>1. of = [k \in 0 .. n |-> StateAt(of, k)]
    BY <1>3
  <2>2. QED
    BY <2>1
<1>6. ReportSteps(of, lines)
  <2>1. of[0] = Unread
    BY <1>5
  <2>2. ASSUME NEW k \in 1 .. n PROVE of[k] = ReadLine(of[k - 1], lines[k])
    <3>1. k \in 0 .. n /\ k # 0
        OBVIOUS
    <3>2. QED
        BY <1>5, <3>1
  <2>3. QED
    BY <2>1, <2>2 DEF ReportSteps
<1>7. QED
    BY <1>4, <1>6

(* What a comparison has kept, once the lines up to n were read, of the    *)
(* block that its summary opens.                                           *)
BlockTo(lines, i, n)   == {j \in i .. n : \A k \in i + 1 .. j : lines[k].is # "summary"}
SummaryTo(lines, i, n) == {j \in BlockTo(lines, i, n) : \A k \in i .. j : lines[k].is # "pins"}
FirstOf(lines, T)      == IF T = {} THEN Untold ELSE Pair(lines[Min(T)])
LastOf(lines, T)       == IF T = {} THEN Untold ELSE Pair(lines[Max(T)])
Records(lines, B, S, c) ==
    /\ DOMAIN c = {"summary", "pins", "devices", "nets", "equal", "classes"}
    /\ c.summary = FirstOf(lines, Says(lines, S, "pair"))
    /\ c.pins = FirstOf(lines, Says(lines, B \ S, "pair"))
    /\ c.devices = FirstOf(lines, Says(lines, S, "devices"))
    /\ c.nets = FirstOf(lines, Says(lines, S, "nets"))
    /\ c.equal = (Says(lines, B, "equal_pins") # {})
    /\ c.classes = LastOf(lines, Says(lines, B, "classes"))
(* Where the comparisons found so far begin, and what they have kept.      *)
ReadUpTo(lines, s, n, at) ==
    /\ DOMAIN s = {"section", "found"} /\ \E C : s.found \in Seq(C)
    /\ \A a \in 1 .. Len(s.found) :
          /\ at[a] \in 1 .. n /\ lines[at[a]].is = "summary"
          /\ Records(lines, BlockTo(lines, at[a], n), SummaryTo(lines, at[a], n), s.found[a])
    /\ \A a, b \in 1 .. Len(s.found) : a < b => at[a] < at[b]
    /\ \A i \in 1 .. n : lines[i].is = "summary" => \E a \in 1 .. Len(s.found) : at[a] = i
    /\ Len(s.found) > 0 =>
          s.section = IF \E k \in at[Len(s.found)] .. n : lines[k].is = "pins" THEN "pins" ELSE "summary"

(* One line more, of those that are looked for or not.                     *)
LEMMA OneMore ==
    ASSUME NEW lines, NEW n \in Nat, NEW T \in SUBSET (1 .. n)
    PROVE  /\ FirstOf(lines, T \cup {n + 1}) = KeepFirst(FirstOf(lines, T), lines[n + 1])
           /\ LastOf(lines, T \cup {n + 1}) = Pair(lines[n + 1])
<1> DEFINE U == T \cup {n + 1}
<1>1. U \in SUBSET (1 .. n + 1) /\ U # {} /\ U \in SUBSET Nat /\ T \in SUBSET Nat /\ n + 1 \in Nat
    OBVIOUS
<1>2. Min(U) \in U /\ \A m \in U : Min(U) <= m
    BY <1>1, LeastOf
<1>3. Max(U) \in U /\ \A m \in U : m <= Max(U)
    BY <1>1, GreatestOf
<1>4. Max(U) = n + 1
  <2> DEFINE top == Max(U)
  <2>1. top \in U /\ n + 1 <= top
    BY <1>3
  <2>2. top \in 1 .. n \/ top = n + 1
    BY <2>1
  <2> HIDE DEF top
  <2>3. top = n + 1
    BY <2>1, <2>2
  <2>4. QED
    BY <2>3 DEF top
<1>5. CASE T = {}
  <2>1. Min(U) = n + 1
    BY <1>2, <1>5
  <2>2. QED
    BY <1>1, <1>4, <1>5, <2>1 DEF FirstOf, LastOf, KeepFirst
<1>6. CASE T # {}
  <2>1. Min(T) \in T /\ \A m \in T : Min(T) <= m
    BY <1>1, <1>6, LeastOf
  <2>2. Min(U) = Min(T)
    <3> DEFINE low == Min(U)
               old == Min(T)
    <3>1. low \in U /\ old \in T /\ old \in U /\ low <= old
        BY <1>2, <2>1
    <3>2. low \in T => old <= low
        BY <2>1
    <3>3. old \in 1 .. n /\ low \in Nat
        BY <1>1, <3>1
    <3> HIDE DEF low, old
    <3>4. low \in T
        BY <3>1, <3>3
    <3>5. low = old
        BY <3>1, <3>2, <3>3, <3>4
    <3>6. QED
        BY <3>5 DEF low, old
  <2>3. Pair(lines[Min(T)]) # Untold
    BY DEF Pair, Untold
  <2>4. QED
    BY <1>1, <1>4, <1>6, <2>2, <2>3 DEF FirstOf, LastOf, KeepFirst
<1>7. QED
    BY <1>5, <1>6

(* A block grows by the line that follows it, and not when the next begins.*)
LEMMA BlockGrows ==
    ASSUME NEW lines, NEW n \in Nat, NEW i \in 1 .. n
    PROVE  /\ BlockTo(lines, i, n) \in SUBSET (1 .. n) /\ SummaryTo(lines, i, n) \in SUBSET BlockTo(lines, i, n)
           /\ (\E k \in i + 1 .. n + 1 : lines[k].is = "summary") =>
                 /\ BlockTo(lines, i, n + 1) = BlockTo(lines, i, n)
                 /\ SummaryTo(lines, i, n + 1) = SummaryTo(lines, i, n)
           /\ (\A k \in i + 1 .. n + 1 : lines[k].is # "summary") =>
                 /\ BlockTo(lines, i, n + 1) = BlockTo(lines, i, n) \cup {n + 1}
                 /\ SummaryTo(lines, i, n + 1) = SummaryTo(lines, i, n)
                       \cup (IF \A k \in i .. n + 1 : lines[k].is # "pins" THEN {n + 1} ELSE {})
<1> DEFINE B == BlockTo(lines, i, n)
           C == BlockTo(lines, i, n + 1)
<1>1. B \in SUBSET (1 .. n) /\ SummaryTo(lines, i, n) \in SUBSET B
    BY DEF BlockTo, SummaryTo
<1>2. C = B \cup (IF \A k \in i + 1 .. n + 1 : lines[k].is # "summary" THEN {n + 1} ELSE {})
    BY DEF BlockTo
<1>3. SummaryTo(lines, i, n) = {j \in B : \A k \in i .. j : lines[k].is # "pins"}
    BY DEF SummaryTo
<1>4. SummaryTo(lines, i, n + 1) = {j \in C : \A k \in i .. j : lines[k].is # "pins"}
    BY DEF SummaryTo
<1> HIDE DEF B, C
<1>5. CASE \E k \in i + 1 .. n + 1 : lines[k].is = "summary"
  <2>1. C = B
    BY <1>2, <1>5
  <2>2. QED
    BY <1>1, <1>3, <1>4, <1>5, <2>1 DEF B, C
<1>6. CASE \A k \in i + 1 .. n + 1 : lines[k].is # "summary"
  <2>1. C = B \cup {n + 1}
    BY <1>2, <1>6
  <2>2. {j \in C : \A k \in i .. j : lines[k].is # "pins"} = {j \in B : \A k \in i .. j : lines[k].is # "pins"}
            \cup (IF \A k \in i .. n + 1 : lines[k].is # "pins" THEN {n + 1} ELSE {})
    BY <2>1
  <2>3. QED
    BY <1>1, <1>3, <1>4, <1>6, <2>1, <2>2 DEF B, C
<1>7. QED
    BY <1>5, <1>6

(* The comparison that is open keeps what the line says of it.             *)
LEMMA KeepRecords ==
    ASSUME NEW lines, NEW n \in Nat, NEW B \in SUBSET (1 .. n), NEW S \in SUBSET B, NEW c, Records(lines, B, S, c),
           NEW section \in {"summary", "pins"}, lines[n + 1].is \notin {"summary", "pins"}
    PROVE  Records(lines, B \cup {n + 1}, S \cup (IF section = "summary" THEN {n + 1} ELSE {}), Keep(c, section, lines[n + 1]))
<1> DEFINE line == lines[n + 1]
           C == B \cup {n + 1}
           R == S \cup (IF section = "summary" THEN {n + 1} ELSE {})
           e == Keep(c, section, line)
<1>1. n + 1 \notin B /\ n + 1 \notin S /\ S \subseteq B
    OBVIOUS
<1>2. ASSUME NEW what
      PROVE  /\ Says(lines, C, what) = Says(lines, B, what) \cup (IF line.is = what THEN {n + 1} ELSE {})
             /\ Says(lines, R, what) = Says(lines, S, what) \cup (IF line.is = what /\ section = "summary" THEN {n + 1} ELSE {})
             /\ Says(lines, C \ R, what) = Says(lines, B \ S, what) \cup (IF line.is = what /\ section = "pins" THEN {n + 1} ELSE {})
             /\ Says(lines, B, what) \in SUBSET (1 .. n) /\ Says(lines, S, what) \in SUBSET (1 .. n)
             /\ Says(lines, B \ S, what) \in SUBSET (1 .. n)
    BY <1>1 DEF Says
<1>3. ASSUME NEW what
      PROVE  /\ FirstOf(lines, Says(lines, R, what)) =
                   (IF line.is = what /\ section = "summary" THEN KeepFirst(FirstOf(lines, Says(lines, S, what)), line)
                    ELSE FirstOf(lines, Says(lines, S, what)))
             /\ FirstOf(lines, Says(lines, C \ R, what)) =
                   (IF line.is = what /\ section = "pins" THEN KeepFirst(FirstOf(lines, Says(lines, B \ S, what)), line)
                    ELSE FirstOf(lines, Says(lines, B \ S, what)))
             /\ LastOf(lines, Says(lines, C, what)) =
                   (IF line.is = what THEN Pair(line) ELSE LastOf(lines, Says(lines, B, what)))
             /\ (Says(lines, C, what) # {}) = (IF line.is = what THEN TRUE ELSE Says(lines, B, what) # {})
  <2> DEFINE P == Says(lines, S, what)
             Q == Says(lines, B \ S, what)
             A == Says(lines, B, what)
  <2>1. P \in SUBSET (1 .. n) /\ Q \in SUBSET (1 .. n) /\ A \in SUBSET (1 .. n)
    BY <1>2
  <2>2. /\ Says(lines, C, what) = IF line.is = what THEN A \cup {n + 1} ELSE A
        /\ Says(lines, R, what) = IF line.is = what /\ section = "summary" THEN P \cup {n + 1} ELSE P
        /\ Says(lines, C \ R, what) = IF line.is = what /\ section = "pins" THEN Q \cup {n + 1} ELSE Q
    <3>1. A \cup {} = A /\ P \cup {} = P /\ Q \cup {} = Q
        OBVIOUS
    <3> HIDE DEF C, R, line, A, P, Q
    <3>2. QED
        BY <1>2, <3>1 DEF A, P, Q
  <2> HIDE DEF C, R, P, Q, A
  <2>3. /\ FirstOf(lines, P \cup {n + 1}) = KeepFirst(FirstOf(lines, P), line)
        /\ FirstOf(lines, Q \cup {n + 1}) = KeepFirst(FirstOf(lines, Q), line)
        /\ LastOf(lines, A \cup {n + 1}) = Pair(line)
    BY <2>1, OneMore
  <2> HIDE DEF line
  <2>4. FirstOf(lines, Says(lines, R, what)) =
           (IF line.is = what /\ section = "summary" THEN KeepFirst(FirstOf(lines, P), line) ELSE FirstOf(lines, P))
    BY <2>2, <2>3
  <2>5. FirstOf(lines, Says(lines, C \ R, what)) =
           (IF line.is = what /\ section = "pins" THEN KeepFirst(FirstOf(lines, Q), line) ELSE FirstOf(lines, Q))
    BY <2>2, <2>3
  <2>6. LastOf(lines, Says(lines, C, what)) = (IF line.is = what THEN Pair(line) ELSE LastOf(lines, A))
    BY <2>2, <2>3
  <2>7. (Says(lines, C, what) # {}) = (IF line.is = what THEN TRUE ELSE A # {})
    BY <2>2
  <2>8. QED
    BY <2>4, <2>5, <2>6, <2>7 DEF P, Q, A
<1>4. c.summary = FirstOf(lines, Says(lines, S, "pair")) /\ c.pins = FirstOf(lines, Says(lines, B \ S, "pair"))
      /\ c.devices = FirstOf(lines, Says(lines, S, "devices")) /\ c.nets = FirstOf(lines, Says(lines, S, "nets"))
      /\ c.equal = (Says(lines, B, "equal_pins") # {}) /\ c.classes = LastOf(lines, Says(lines, B, "classes"))
      /\ DOMAIN c = {"summary", "pins", "devices", "nets", "equal", "classes"}
    BY DEF Records
<1>5. /\ DOMAIN e = DOMAIN c
      /\ e.summary = (IF line.is = "pair" /\ section = "summary" THEN KeepFirst(c.summary, line) ELSE c.summary)
      /\ e.pins = (IF line.is = "pair" /\ section = "pins" THEN KeepFirst(c.pins, line) ELSE c.pins)
      /\ e.devices = (IF line.is = "devices" /\ section = "summary" THEN KeepFirst(c.devices, line) ELSE c.devices)
      /\ e.nets = (IF line.is = "nets" /\ section = "summary" THEN KeepFirst(c.nets, line) ELSE c.nets)
      /\ e.equal = (IF line.is = "equal_pins" THEN TRUE ELSE c.equal)
      /\ e.classes = (IF line.is = "classes" THEN Pair(line) ELSE c.classes)
  <2> HIDE DEF line
  <2>1. CASE line.is = "pair" /\ section = "summary"
    <3>1. e = [c EXCEPT !.summary = KeepFirst(@, line)]
        BY <2>1 DEF Keep
    <3> HIDE DEF e
    <3>2. QED
        BY <1>4, <2>1, <3>1
  <2>2. CASE line.is = "pair" /\ section = "pins"
    <3>1. e = [c EXCEPT !.pins = KeepFirst(@, line)]
        BY <2>2 DEF Keep
    <3> HIDE DEF e
    <3>2. QED
        BY <1>4, <2>2, <3>1
  <2>3. CASE line.is = "devices" /\ section = "summary"
    <3>1. e = [c EXCEPT !.devices = KeepFirst(@, line)]
        BY <2>3 DEF Keep
    <3> HIDE DEF e
    <3>2. QED
        BY <1>4, <2>3, <3>1
  <2>4. CASE line.is = "nets" /\ section = "summary"
    <3>1. e = [c EXCEPT !.nets = KeepFirst(@, line)]
        BY <2>4 DEF Keep
    <3> HIDE DEF e
    <3>2. QED
        BY <1>4, <2>4, <3>1
  <2>5. CASE line.is = "equal_pins"
    <3>1. e = [c EXCEPT !.equal = TRUE]
        BY <2>5 DEF Keep
    <3> HIDE DEF e
    <3>2. QED
        BY <1>4, <2>5, <3>1
  <2>6. CASE line.is = "classes"
    <3>1. e = [c EXCEPT !.classes = Pair(line)]
        BY <2>6 DEF Keep
    <3> HIDE DEF e
    <3>2. QED
        BY <1>4, <2>6, <3>1
  <2>7. CASE /\ ~(line.is = "pair" /\ section = "summary") /\ ~(line.is = "pair" /\ section = "pins")
             /\ ~(line.is = "devices" /\ section = "summary") /\ ~(line.is = "nets" /\ section = "summary")
             /\ line.is # "equal_pins" /\ line.is # "classes"
    <3>1. e = c
        BY <2>7 DEF Keep
    <3> HIDE DEF e
    <3>2. QED
        BY <2>7, <3>1
  <2>8. QED
    BY <2>1, <2>2, <2>3, <2>4, <2>5, <2>6, <2>7
<1> HIDE DEF line, C, R, e
<1>6. e.summary = FirstOf(lines, Says(lines, R, "pair")) /\ e.pins = FirstOf(lines, Says(lines, C \ R, "pair"))
    BY <1>3, <1>4, <1>5
<1>7. e.devices = FirstOf(lines, Says(lines, R, "devices"))
    BY <1>3, <1>4, <1>5
<1>8. e.nets = FirstOf(lines, Says(lines, R, "nets"))
    BY <1>3, <1>4, <1>5
<1>9. e.equal = (Says(lines, C, "equal_pins") # {})
    BY <1>3, <1>4, <1>5
<1>10. e.classes = LastOf(lines, Says(lines, C, "classes"))
    BY <1>3, <1>4, <1>5
<1>11. Records(lines, C, R, e)
    BY <1>4, <1>5, <1>6, <1>7, <1>8, <1>9, <1>10 DEF Records
<1>12. QED
    BY <1>11 DEF line, C, R, e

(* What was read so far is a sequence.                                     *)
LEMMA FoundIsSeq ==
    ASSUME NEW lines, NEW n, NEW s, NEW at, ReadUpTo(lines, s, n, at)
    PROVE  /\ Len(s.found) \in Nat /\ DOMAIN s.found = 1 .. Len(s.found) /\ (s.found = <<>> <=> Len(s.found) = 0)
           /\ \E C : s.found \in Seq(C)
<1>1. PICK C : s.found \in Seq(C)
    BY DEF ReadUpTo
<1>2. QED
    BY <1>1

(* A sequence with one more element, and with its last one replaced.       *)
LEMMA Appended ==
    ASSUME NEW S, NEW f \in Seq(S), NEW e
    PROVE  /\ Append(f, e) \in Seq(S \cup {e}) /\ Len(Append(f, e)) = Len(f) + 1
           /\ Append(f, e)[Len(f) + 1] = e /\ \A a \in 1 .. Len(f) : Append(f, e)[a] = f[a]
<1>1. f \in Seq(S \cup {e})
    OBVIOUS
<1>2. QED
    BY <1>1

LEMMA Replaced ==
    ASSUME NEW S, NEW f \in Seq(S), NEW e, Len(f) > 0
    PROVE  LET g == [f EXCEPT ![Len(f)] = e] IN
           /\ g \in Seq(S \cup {e}) /\ Len(g) = Len(f) /\ g[Len(f)] = e
           /\ \A a \in 1 .. Len(f) : a # Len(f) => g[a] = f[a]
<1>1. f \in Seq(S \cup {e})
    OBVIOUS
<1>2. QED
    BY <1>1

(* A line read after a summary leaves the comparisons before the last.     *)
LEMMA EarlierBlocks ==
    ASSUME NEW lines, NEW n \in Nat, NEW s, NEW at, ReadUpTo(lines, s, n, at), NEW a \in 1 .. Len(s.found),
           a # Len(s.found) \/ lines[n + 1].is = "summary"
    PROVE  Records(lines, BlockTo(lines, at[a], n + 1), SummaryTo(lines, at[a], n + 1), s.found[a])
<1> DEFINE m == Len(s.found)
<1>1. m \in Nat /\ at[a] \in 1 .. n /\ Records(lines, BlockTo(lines, at[a], n), SummaryTo(lines, at[a], n), s.found[a])
    BY FoundIsSeq DEF ReadUpTo
<1>2. \E k \in at[a] + 1 .. n + 1 : lines[k].is = "summary"
  <2>1. CASE a # m
    <3>1. m \in 1 .. m /\ a < m
        BY <1>1, <2>1
    <3>2. at[m] \in 1 .. n /\ lines[at[m]].is = "summary" /\ at[a] < at[m]
        BY <3>1 DEF ReadUpTo
    <3>3. at[m] \in at[a] + 1 .. n + 1
        BY <1>1, <3>2
    <3>4. QED
        BY <3>2, <3>3
  <2>2. CASE lines[n + 1].is = "summary"
    <3>1. n + 1 \in at[a] + 1 .. n + 1
        BY <1>1
    <3>2. QED
        BY <2>2, <3>1
  <2>3. QED
    BY <2>1, <2>2
<1>3. BlockTo(lines, at[a], n + 1) = BlockTo(lines, at[a], n) /\ SummaryTo(lines, at[a], n + 1) = SummaryTo(lines, at[a], n)
    BY <1>1, <1>2, BlockGrows
<1>4. QED
    BY <1>1, <1>3

(* The block that is open takes the line in.                               *)
LEMMA OpenBlock ==
    ASSUME NEW lines, NEW n \in Nat, NEW s, NEW at, ReadUpTo(lines, s, n, at), Len(s.found) > 0, lines[n + 1].is # "summary",
           NEW i, i = at[Len(s.found)]
    PROVE  /\ i \in 1 .. n /\ s.section \in {"summary", "pins"}
           /\ Records(lines, BlockTo(lines, i, n), SummaryTo(lines, i, n), s.found[Len(s.found)])
           /\ BlockTo(lines, i, n) \in SUBSET (1 .. n) /\ SummaryTo(lines, i, n) \in SUBSET BlockTo(lines, i, n)
           /\ BlockTo(lines, i, n + 1) = BlockTo(lines, i, n) \cup {n + 1}
           /\ SummaryTo(lines, i, n + 1) \in {SummaryTo(lines, i, n), SummaryTo(lines, i, n) \cup {n + 1}}
           /\ s.section = "summary" /\ lines[n + 1].is # "pins" => n + 1 \in SummaryTo(lines, i, n + 1)
           /\ ~(s.section = "summary" /\ lines[n + 1].is # "pins") => SummaryTo(lines, i, n + 1) = SummaryTo(lines, i, n)
<1> DEFINE m == Len(s.found)
<1>1. m \in Nat /\ m \in 1 .. m
    BY FoundIsSeq
<1>2. i \in 1 .. n /\ Records(lines, BlockTo(lines, i, n), SummaryTo(lines, i, n), s.found[m])
    BY <1>1 DEF ReadUpTo
<1>3. s.section = IF \E k \in i .. n : lines[k].is = "pins" THEN "pins" ELSE "summary"
    BY DEF ReadUpTo
<1>4. \A k \in i + 1 .. n + 1 : lines[k].is # "summary"
  <2> SUFFICES ASSUME NEW k \in i + 1 .. n + 1, lines[k].is = "summary" PROVE FALSE
    OBVIOUS
  <2>1. k # n + 1
    OBVIOUS
  <2>2. k \in 1 .. n /\ i < k
    BY <1>2, <2>1
  <2>3. PICK a \in 1 .. m : at[a] = k
    BY <2>2 DEF ReadUpTo
  <2>4. a = m \/ a < m
    BY <1>1
  <2>5. a < m => at[a] < at[m]
    BY <1>1 DEF ReadUpTo
  <2>6. QED
    BY <1>2, <2>2, <2>3, <2>4, <2>5
<1>5. (\A k \in i .. n + 1 : lines[k].is # "pins") <=> (s.section = "summary" /\ lines[n + 1].is # "pins")
  <2>1. \A k : k \in i .. n + 1 <=> k \in i .. n \/ k = n + 1
    BY <1>2
  <2>2. (s.section = "summary") <=> ~ \E k \in i .. n : lines[k].is = "pins"
    BY <1>3
  <2>3. QED
    BY <2>1, <2>2
<1>6. /\ BlockTo(lines, i, n) \in SUBSET (1 .. n) /\ SummaryTo(lines, i, n) \in SUBSET BlockTo(lines, i, n)
      /\ BlockTo(lines, i, n + 1) = BlockTo(lines, i, n) \cup {n + 1}
      /\ SummaryTo(lines, i, n + 1) = SummaryTo(lines, i, n)
            \cup (IF \A k \in i .. n + 1 : lines[k].is # "pins" THEN {n + 1} ELSE {})
    BY <1>2, <1>4, BlockGrows
<1>7. s.section \in {"summary", "pins"}
    BY <1>3
<1>8. QED
    BY <1>2, <1>5, <1>6, <1>7

(* A summary opens a block; any other line leaves the blocks as they were. *)
LEMMA ReadsSummary ==
    ASSUME NEW lines, NEW n \in Nat, NEW s, NEW at, ReadUpTo(lines, s, n, at), lines[n + 1].is = "summary"
    PROVE  \E next : ReadUpTo(lines, ReadLine(s, lines[n + 1]), n + 1, next)
<1> DEFINE m == Len(s.found)
           t == ReadLine(s, lines[n + 1])
           next == [a \in 1 .. m + 1 |-> IF a = m + 1 THEN n + 1 ELSE at[a]]
<1>1. m \in Nat /\ \E C : s.found \in Seq(C)
    BY FoundIsSeq
<1>2. t.section = "summary" /\ t.found = Append(s.found, Empty) /\ DOMAIN t = {"section", "found"}
    BY DEF ReadLine
<1> HIDE DEF t
<1>3. (\E C : t.found \in Seq(C)) /\ Len(t.found) = m + 1 /\ t.found[m + 1] = Empty
      /\ \A a \in 1 .. m : t.found[a] = s.found[a]
  <2>1. PICK C : s.found \in Seq(C)
    BY <1>1
  <2>2. /\ Append(s.found, Empty) \in Seq(C \cup {Empty}) /\ Len(Append(s.found, Empty)) = m + 1
        /\ Append(s.found, Empty)[m + 1] = Empty /\ \A a \in 1 .. m : Append(s.found, Empty)[a] = s.found[a]
    BY <2>1, Appended
  <2>3. QED
    BY <1>2, <2>2
<1>4. ASSUME NEW a \in 1 .. m
      PROVE  /\ next[a] = at[a] /\ at[a] \in 1 .. n /\ lines[at[a]].is = "summary"
             /\ Records(lines, BlockTo(lines, next[a], n + 1), SummaryTo(lines, next[a], n + 1), t.found[a])
  <2>1. Records(lines, BlockTo(lines, at[a], n + 1), SummaryTo(lines, at[a], n + 1), s.found[a])
    BY EarlierBlocks
  <2>2. a \in 1 .. m + 1 /\ a # m + 1
    BY <1>1
  <2>3. next[a] = at[a]
    BY <2>2
  <2>4. at[a] \in 1 .. n /\ lines[at[a]].is = "summary"
    BY DEF ReadUpTo
  <2> HIDE DEF next
  <2>5. QED
    BY <1>3, <2>1, <2>3, <2>4
<1>5. next[m + 1] = n + 1
    BY <1>1
<1>6. Records(lines, BlockTo(lines, n + 1, n + 1), SummaryTo(lines, n + 1, n + 1), Empty)
  <2>1. BlockTo(lines, n + 1, n + 1) = {n + 1}
    BY DEF BlockTo
  <2>2. SummaryTo(lines, n + 1, n + 1) = {n + 1}
    BY <2>1 DEF SummaryTo
  <2>3. \A what \in {"pair", "devices", "nets", "equal_pins", "classes"} :
           Says(lines, {n + 1}, what) = {} /\ Says(lines, {n + 1} \ {n + 1}, what) = {}
    BY DEF Says
  <2>4. FirstOf(lines, {}) = Untold /\ LastOf(lines, {}) = Untold
    BY DEF FirstOf, LastOf
  <2>5. QED
    BY <2>1, <2>2, <2>3, <2>4 DEF Records, Empty
<1> HIDE DEF next
<1>7. \A a \in 1 .. m + 1 : a = m + 1 \/ a \in 1 .. m
    BY <1>1
<1>8. \A a \in 1 .. m + 1 :
         /\ next[a] \in 1 .. n + 1 /\ lines[next[a]].is = "summary"
         /\ Records(lines, BlockTo(lines, next[a], n + 1), SummaryTo(lines, next[a], n + 1), t.found[a])
  <2> SUFFICES ASSUME NEW a \in 1 .. m + 1
               PROVE  /\ next[a] \in 1 .. n + 1 /\ lines[next[a]].is = "summary"
                      /\ Records(lines, BlockTo(lines, next[a], n + 1), SummaryTo(lines, next[a], n + 1), t.found[a])
    OBVIOUS
  <2>1. CASE a = m + 1
    BY <1>3, <1>5, <1>6, <2>1
  <2>2. CASE a \in 1 .. m
    BY <1>4, <2>2
  <2>3. QED
    BY <1>7, <2>1, <2>2
<1>9. \A a, b \in 1 .. m + 1 : a < b => next[a] < next[b]
  <2> SUFFICES ASSUME NEW a \in 1 .. m + 1, NEW b \in 1 .. m + 1, a < b PROVE next[a] < next[b]
    OBVIOUS
  <2>1. a \in 1 .. m
    BY <1>1
  <2>2. next[a] = at[a] /\ at[a] \in 1 .. n
    BY <1>4, <2>1
  <2>3. CASE b = m + 1
    BY <1>5, <2>2, <2>3
  <2>4. CASE b \in 1 .. m
    <3>1. at[a] < at[b]
        BY <2>1, <2>4 DEF ReadUpTo
    <3>2. QED
        BY <1>4, <2>2, <2>4, <3>1
  <2>5. QED
    BY <1>7, <2>3, <2>4
<1>10. \A i \in 1 .. n + 1 : lines[i].is = "summary" => \E a \in 1 .. m + 1 : next[a] = i
  <2> SUFFICES ASSUME NEW i \in 1 .. n + 1, lines[i].is = "summary" PROVE \E a \in 1 .. m + 1 : next[a] = i
    OBVIOUS
  <2>1. CASE i = n + 1
    <3>1. m + 1 \in 1 .. m + 1
        BY <1>1
    <3>2. QED
        BY <1>5, <2>1, <3>1
  <2>2. CASE i \in 1 .. n
    <3>1. PICK a \in 1 .. m : at[a] = i
        BY <2>2 DEF ReadUpTo
    <3>2. a \in 1 .. m + 1 /\ next[a] = i
        BY <1>1, <1>4, <3>1
    <3>3. QED
        BY <3>2
  <2>3. QED
    BY <2>1, <2>2
<1>11. t.section = IF \E k \in next[Len(t.found)] .. n + 1 : lines[k].is = "pins" THEN "pins" ELSE "summary"
  <2>1. next[Len(t.found)] = n + 1
    BY <1>3, <1>5
  <2>2. \A k \in n + 1 .. n + 1 : k = n + 1
    OBVIOUS
  <2>3. ~ \E k \in n + 1 .. n + 1 : lines[k].is = "pins"
    BY <2>2
  <2>4. QED
    BY <1>2, <2>1, <2>3
<1>12. ReadUpTo(lines, t, n + 1, next)
    BY <1>2, <1>3, <1>8, <1>9, <1>10, <1>11 DEF ReadUpTo
<1>13. QED
    BY <1>12 DEF t

LEMMA ReadsInside ==
    ASSUME NEW lines, NEW n \in Nat, NEW s, NEW at, ReadUpTo(lines, s, n, at), lines[n + 1].is # "summary"
    PROVE  ReadUpTo(lines, ReadLine(s, lines[n + 1]), n + 1, at)
<1> DEFINE m == Len(s.found)
           t == ReadLine(s, lines[n + 1])
<1>1. m \in Nat /\ (s.found = <<>> <=> m = 0)
    BY FoundIsSeq
<1>2. PICK C : s.found \in Seq(C)
    BY FoundIsSeq
<1>3. /\ (\E D : t.found \in Seq(D)) /\ Len(t.found) = m
      /\ \A a \in 1 .. m : a # m => t.found[a] = s.found[a]
      /\ m > 0 /\ lines[n + 1].is # "pins" => t.section = s.section /\ t.found[m] = Keep(s.found[m], s.section, lines[n + 1])
      /\ lines[n + 1].is = "pins" => t.section = "pins" /\ t.found = s.found
      /\ DOMAIN t = {"section", "found"}
  <2> DOMAIN s = {"section", "found"}
    BY DEF ReadUpTo
  <2>1. CASE lines[n + 1].is = "pins"
    <3>1. t = [s EXCEPT !.section = "pins"]
        BY <2>1 DEF ReadLine
    <3> HIDE DEF t
    <3>2. t.found = s.found /\ t.section = "pins" /\ DOMAIN t = DOMAIN s
        BY <3>1
    <3>3. QED
        BY <1>2, <2>1, <3>2
  <2>2. CASE lines[n + 1].is # "pins" /\ m = 0
    <3>1. t = s
        BY <1>1, <2>2 DEF ReadLine
    <3>2. QED
        BY <1>2, <2>2, <3>1
  <2>3. CASE lines[n + 1].is # "pins" /\ m # 0
    <3> DEFINE e == Keep(s.found[m], s.section, lines[n + 1])
    <3>1. t = [s EXCEPT !.found[m] = e]
        BY <1>1, <2>3 DEF ReadLine
    <3>2. m > 0
        BY <1>1, <2>3
    <3> HIDE DEF e, t
    <3>3. t.section = s.section /\ t.found = [s.found EXCEPT ![m] = e] /\ DOMAIN t = DOMAIN s
        BY <3>1
    <3>4. LET g == [s.found EXCEPT ![Len(s.found)] = e] IN
          /\ g \in Seq(C \cup {e}) /\ Len(g) = Len(s.found) /\ g[Len(s.found)] = e
          /\ \A a \in 1 .. Len(s.found) : a # Len(s.found) => g[a] = s.found[a]
        BY <1>2, <3>2, Replaced
    <3>5. QED
        BY <2>3, <3>3, <3>4 DEF e
  <2>4. QED
    BY <2>1, <2>2, <2>3
<1> HIDE DEF t
<1>4. ASSUME NEW a \in 1 .. m
      PROVE  /\ at[a] \in 1 .. n + 1 /\ lines[at[a]].is = "summary"
             /\ Records(lines, BlockTo(lines, at[a], n + 1), SummaryTo(lines, at[a], n + 1), t.found[a])
  <2>1. at[a] \in 1 .. n + 1 /\ lines[at[a]].is = "summary"
    BY DEF ReadUpTo
  <2>2. CASE a # m
    <3>1. Records(lines, BlockTo(lines, at[a], n + 1), SummaryTo(lines, at[a], n + 1), s.found[a])
        BY <2>2, EarlierBlocks
    <3>2. QED
        BY <1>3, <2>1, <2>2, <3>1
  <2>3. CASE a = m
    <3>0. PICK i : i = at[Len(s.found)]
        OBVIOUS
    <3> DEFINE B == BlockTo(lines, i, n)
               S == SummaryTo(lines, i, n)
    <3>1. /\ i \in 1 .. n /\ s.section \in {"summary", "pins"} /\ Records(lines, B, S, s.found[m])
          /\ B \in SUBSET (1 .. n) /\ S \in SUBSET B /\ BlockTo(lines, i, n + 1) = B \cup {n + 1}
          /\ s.section = "summary" /\ lines[n + 1].is # "pins" => SummaryTo(lines, i, n + 1) = S \cup {n + 1}
          /\ ~(s.section = "summary" /\ lines[n + 1].is # "pins") => SummaryTo(lines, i, n + 1) = S
        <4>1. Len(s.found) > 0
            BY <1>1, <2>3
        <4>2. s.section \in {"summary", "pins"} /\ i \in 1 .. n /\ BlockTo(lines, i, n) \in SUBSET (1 .. n)
            BY <3>0, <4>1, OpenBlock
        <4>3. Records(lines, BlockTo(lines, i, n), SummaryTo(lines, i, n), s.found[Len(s.found)])
            BY <3>0, <4>1, OpenBlock
        <4>4. /\ SummaryTo(lines, i, n) \in SUBSET BlockTo(lines, i, n)
              /\ BlockTo(lines, i, n + 1) = BlockTo(lines, i, n) \cup {n + 1}
            BY <3>0, <4>1, OpenBlock
        <4>5. /\ SummaryTo(lines, i, n + 1) \in {SummaryTo(lines, i, n), SummaryTo(lines, i, n) \cup {n + 1}}
              /\ s.section = "summary" /\ lines[n + 1].is # "pins" => n + 1 \in SummaryTo(lines, i, n + 1)
            BY <3>0, <4>1, OpenBlock
        <4>6. ~(s.section = "summary" /\ lines[n + 1].is # "pins") => SummaryTo(lines, i, n + 1) = SummaryTo(lines, i, n)
            BY <3>0, <4>1, OpenBlock
        <4>7. QED
            BY <4>2, <4>3, <4>4, <4>5, <4>6
    <3> HIDE DEF B, S
    <3>2. CASE lines[n + 1].is # "pins"
        <4>1. lines[n + 1].is \notin {"summary", "pins"} /\ m > 0
            BY <1>1, <2>3, <3>2
        <4>2. Records(lines, B \cup {n + 1}, S \cup (IF s.section = "summary" THEN {n + 1} ELSE {}),
                      Keep(s.found[m], s.section, lines[n + 1]))
            BY <3>1, <4>1, KeepRecords
        <4>3. t.found[m] = Keep(s.found[m], s.section, lines[n + 1])
            BY <1>3, <3>2, <4>1
        <4>4. SummaryTo(lines, i, n + 1) = S \cup (IF s.section = "summary" THEN {n + 1} ELSE {})
            BY <3>1, <3>2
        <4>5. Records(lines, BlockTo(lines, i, n + 1), SummaryTo(lines, i, n + 1), t.found[m])
            BY <3>1, <4>2, <4>3, <4>4
        <4>6. QED
            BY <2>1, <2>3, <3>0, <4>5
    <3>3. CASE lines[n + 1].is = "pins"
        <4>1. BlockTo(lines, i, n + 1) = B \cup {n + 1} /\ SummaryTo(lines, i, n + 1) = S /\ n + 1 \notin S
            BY <3>1, <3>3
        <4>2. \A what \in {"pair", "devices", "nets", "equal_pins", "classes"} :
                 /\ Says(lines, B \cup {n + 1}, what) = Says(lines, B, what)
                 /\ Says(lines, (B \cup {n + 1}) \ S, what) = Says(lines, B \ S, what)
            <5> SUFFICES ASSUME NEW what \in {"pair", "devices", "nets", "equal_pins", "classes"}
                         PROVE  /\ Says(lines, B \cup {n + 1}, what) = Says(lines, B, what)
                                /\ Says(lines, (B \cup {n + 1}) \ S, what) = Says(lines, B \ S, what)
                OBVIOUS
            <5>1. lines[n + 1].is # what
                BY <3>3
            <5>2. QED
                BY <5>1 DEF Says
        <4>3. Records(lines, B \cup {n + 1}, S, s.found[m])
            BY <3>1, <4>2 DEF Records
        <4>4. t.found[m] = s.found[m]
            BY <1>3, <3>3
        <4>5. Records(lines, BlockTo(lines, i, n + 1), SummaryTo(lines, i, n + 1), t.found[m])
            BY <4>1, <4>3, <4>4
        <4>6. QED
            BY <2>1, <2>3, <3>0, <4>5
    <3>4. QED
        BY <3>2, <3>3
  <2>4. QED
    BY <2>2, <2>3
<1>5. \A a, b \in 1 .. m : a < b => at[a] < at[b]
    BY DEF ReadUpTo
<1>6. \A i \in 1 .. n + 1 : lines[i].is = "summary" => \E a \in 1 .. m : at[a] = i
  <2> SUFFICES ASSUME NEW i \in 1 .. n + 1, lines[i].is = "summary" PROVE \E a \in 1 .. m : at[a] = i
    OBVIOUS
  <2>1. i \in 1 .. n
    OBVIOUS
  <2>2. QED
    BY <2>1 DEF ReadUpTo
<1>7. m > 0 => t.section = IF \E k \in at[m] .. n + 1 : lines[k].is = "pins" THEN "pins" ELSE "summary"
  <2> SUFFICES ASSUME m > 0
               PROVE t.section = IF \E k \in at[m] .. n + 1 : lines[k].is = "pins" THEN "pins" ELSE "summary"
    OBVIOUS
  <2>1. at[m] \in 1 .. n + 1
    BY <1>1, <1>4
  <2>2. \A k : k \in at[m] .. n + 1 <=> k \in at[m] .. n \/ k = n + 1
    BY <2>1
  <2>3. s.section = IF \E k \in at[m] .. n : lines[k].is = "pins" THEN "pins" ELSE "summary"
    BY DEF ReadUpTo
  <2>4. CASE lines[n + 1].is = "pins"
    BY <1>3, <2>2, <2>4
  <2>5. CASE lines[n + 1].is # "pins"
    <3>1. (\E k \in at[m] .. n + 1 : lines[k].is = "pins") <=> \E k \in at[m] .. n : lines[k].is = "pins"
        BY <2>2, <2>5
    <3>2. t.section = s.section
        BY <1>3, <2>5
    <3>3. QED
        BY <2>3, <3>1, <3>2
  <2>6. QED
    BY <2>4, <2>5
<1>8. ReadUpTo(lines, t, n + 1, at)
    BY <1>3, <1>4, <1>5, <1>6, <1>7 DEF ReadUpTo
<1>9. QED
    BY <1>8 DEF t

(* After the last line the comparisons are those of the report's blocks.   *)
LEMMA WholeReport ==
    ASSUME NEW lines, Len(lines) \in Nat
    PROVE  \E s, at : ReadUpTo(lines, s, Len(lines), at) /\ s.found = Comparisons(lines)
<1> DEFINE N == Len(lines)
<1>1. PICK s : ReportSteps(s, lines) /\ Comparisons(lines) = s[N].found
    BY ReportScan
<1>2. s[0] = Unread /\ \A k \in 1 .. N : s[k] = ReadLine(s[k - 1], lines[k])
    BY <1>1 DEF ReportSteps
<1> DEFINE bad == {k \in 0 .. N : ~ \E at : ReadUpTo(lines, s[k], k, at)}
           least == Min(bad)
<1>3. bad = {}
  <2> SUFFICES ASSUME bad # {} PROVE FALSE
    OBVIOUS
  <2>1. bad \in SUBSET Nat
    OBVIOUS
  <2>2. least \in bad /\ \A k \in bad : least <= k
    BY <2>1, LeastOf
  <2> HIDE DEF least
  <2>3. least \in 0 .. N /\ ~ \E at : ReadUpTo(lines, s[least], least, at)
    BY <2>2
  <2>4. least # 0
    <3> DEFINE at == [a \in {} |-> 0]
    <3>1. Unread.found = <<>> /\ Unread.section = "none" /\ DOMAIN Unread = {"section", "found"}
        BY DEF Unread
    <3>2. <<>> \in Seq({}) /\ Len(<<>>) = 0
        OBVIOUS
    <3> HIDE DEF at
    <3>3. ReadUpTo(lines, Unread, 0, at)
        BY <3>1, <3>2 DEF ReadUpTo
    <3>4. QED
        BY <1>2, <2>3, <3>3
  <2>5. least - 1 \in 0 .. N /\ least - 1 \in Nat /\ least \in 1 .. N /\ ~(least <= least - 1) /\ (least - 1) + 1 = least
    BY <2>3, <2>4
  <2>6. PICK at : ReadUpTo(lines, s[least - 1], least - 1, at)
    BY <2>2, <2>5
  <2>7. s[least] = ReadLine(s[least - 1], lines[least])
    BY <1>2, <2>5
  <2> DEFINE k == least - 1
  <2>8. k \in Nat /\ k + 1 = least
    BY <2>5
  <2>9. ReadUpTo(lines, s[k], k, at)
    BY <2>6
  <2> HIDE DEF k
  <2>10. \E next : ReadUpTo(lines, ReadLine(s[k], lines[k + 1]), k + 1, next)
    <3>1. CASE lines[k + 1].is = "summary"
        BY <2>8, <2>9, <3>1, ReadsSummary
    <3>2. CASE lines[k + 1].is # "summary"
        BY <2>8, <2>9, <3>2, ReadsInside
    <3>3. QED
        BY <3>1, <3>2
  <2>11. s[least] = ReadLine(s[k], lines[k + 1])
    BY <2>7, <2>8 DEF k
  <2>12. QED
    BY <2>3, <2>8, <2>10, <2>11
<1>4. PICK at : ReadUpTo(lines, s[N], N, at)
  <2>1. N \in 0 .. N
    OBVIOUS
  <2>2. QED
    BY <1>3, <2>1
<1>5. QED
    BY <1>1, <1>4

(* Where the line that ends a report is found, and what it says.           *)
LEMMA EndingIsSaid ==
    ASSUME NEW L, NEW lines \in Seq(L), ~Ending(lines).conflict
    PROVE  /\ \A i, j \in Finals(lines) : lines[i].is = lines[j].is
           /\ Ending(lines).outcome = "pass" =>
                 \E i \in DOMAIN lines : /\ lines[i].is \in {"final_match", "unique"}
                                         /\ \A j \in After(lines, i) : lines[j].is = "stop"
           /\ Ending(lines).outcome = "fail" =>
                 \E i \in DOMAIN lines : lines[i].is \in Failure \ {"mismatch"}
<1> DEFINE N == Len(lines)
           at == Max(Finals(lines))
           last == Max(Spoken(lines))
           conflict == \E i \in Finals(lines) : lines[i].is # lines[at].is
<1>1. N \in Nat /\ DOMAIN lines = 1 .. N
    OBVIOUS
<1>2. Spoken(lines) \in SUBSET (1 .. N) /\ Finals(lines) \in SUBSET (1 .. N)
      /\ \A i : After(lines, i) = {j \in Spoken(lines) : j > i}
    BY <1>1 DEF Spoken, Finals, After
<1>3. CASE Finals(lines) # {}
  <2>1. at \in Finals(lines)
    BY <1>1, <1>2, <1>3, GreatestOf
  <2>2. at \in DOMAIN lines /\ lines[at].is \in {"final_match", "final_failure"}
    BY <1>1, <1>2, <2>1 DEF Finals
  <2>3. Ending(lines) = FinalEnd(lines)
    BY <1>3 DEF Ending
  <2> DEFINE wrong == \E i \in After(lines, at) : lines[i].is \in PropertyFailure
             word  == LastWord(lines, at)
  <2>4. Ending(lines) = CASE lines[at].is = "final_failure" -> End("fail", conflict)
                          [] lines[at].is = "final_match" /\ ~conflict /\ wrong -> End("fail", FALSE)
                          [] OTHER -> End(IF word THEN "pass" ELSE "none", conflict)
    BY <2>3 DEF FinalEnd
  <2>5. \A outcome, c : End(outcome, c).outcome = outcome /\ End(outcome, c).conflict = c
    BY DEF End
  <2>6. word => \A j \in After(lines, at) : lines[j].is = "stop"
    BY DEF LastWord
  <2>7. wrong => \E i \in DOMAIN lines : lines[i].is \in Failure \ {"mismatch"}
    <3> SUFFICES ASSUME NEW i \in After(lines, at), lines[i].is \in PropertyFailure
                 PROVE  \E k \in DOMAIN lines : lines[k].is \in Failure \ {"mismatch"}
        OBVIOUS
    <3>1. i \in DOMAIN lines
        BY <1>1, <1>2
    <3>2. QED
        BY <3>1 DEF Failure, PropertyFailure
  <2>8. "final_failure" \in Failure \ {"mismatch"}
    BY DEF Failure
  <2> HIDE DEF wrong, word, conflict, at
  <2>9. CASE lines[at].is = "final_failure"
    <3>1. Ending(lines) = End("fail", conflict)
        BY <2>4, <2>9
    <3>2. ~conflict /\ Ending(lines).outcome = "fail"
        BY <2>5, <3>1
    <3>3. \A i \in Finals(lines) : lines[i].is = lines[at].is
        BY <3>2 DEF conflict
    <3>4. QED
        BY <2>2, <2>8, <2>9, <3>2, <3>3
  <2>10. CASE lines[at].is = "final_match" /\ ~conflict /\ wrong
    <3>1. Ending(lines) = End("fail", FALSE)
        BY <2>4, <2>10
    <3>2. Ending(lines).outcome = "fail"
        BY <2>5, <3>1
    <3>3. \A i \in Finals(lines) : lines[i].is = lines[at].is
        BY <2>10 DEF conflict
    <3>4. QED
        BY <2>7, <2>10, <3>2, <3>3
  <2>11. CASE lines[at].is = "final_match" /\ ~(~conflict /\ wrong)
    <3>1. Ending(lines) = End(IF word THEN "pass" ELSE "none", conflict)
        BY <2>4, <2>11
    <3>2. ~conflict /\ Ending(lines).outcome = IF word THEN "pass" ELSE "none"
        BY <2>5, <3>1
    <3>3. \A i \in Finals(lines) : lines[i].is = lines[at].is
        BY <3>2 DEF conflict
    <3>4. QED
        BY <2>2, <2>6, <2>11, <3>2, <3>3
  <2>12. QED
    BY <2>2, <2>9, <2>10, <2>11
<1>4. CASE Finals(lines) = {}
  <2> DEFINE wrong == \E i \in Spoken(lines) : lines[i].is \in PropertyFailure
  <2>1. Ending(lines) = OlderEnd(lines)
    BY <1>4 DEF Ending
  <2>2. \A outcome, c : End(outcome, c).outcome = outcome
    BY DEF End
  <2>3. CASE Spoken(lines) = {}
    <3>1. Ending(lines) = End("none", FALSE)
        BY <2>1, <2>3 DEF OlderEnd
    <3>2. Ending(lines).outcome = "none"
        BY <2>2, <3>1
    <3>3. QED
        BY <1>4, <3>2
  <2>4. CASE Spoken(lines) # {} /\ wrong
    <3>1. PICK i \in Spoken(lines) : lines[i].is \in PropertyFailure
        BY <2>4
    <3>2. i \in DOMAIN lines /\ lines[i].is \in Failure \ {"mismatch"}
        BY <1>1, <1>2, <3>1 DEF Failure, PropertyFailure
    <3>3. Ending(lines) = End("fail", FALSE)
        BY <2>1, <2>4 DEF OlderEnd
    <3>4. Ending(lines).outcome = "fail"
        BY <2>2, <3>3
    <3>5. QED
        BY <1>4, <3>2, <3>4
  <2>5. CASE Spoken(lines) # {} /\ ~wrong
    <3>1. last \in Spoken(lines) /\ \A j \in Spoken(lines) : j <= last
        BY <1>1, <1>2, <2>5, GreatestOf
    <3>2. last \in DOMAIN lines
        BY <1>1, <1>2, <3>1
    <3>3. After(lines, last) = {}
        <4> SUFFICES ASSUME NEW j \in Spoken(lines), j > last PROVE FALSE
            BY <1>2
        <4>1. j <= last /\ j \in Nat /\ last \in Nat
            BY <1>2, <3>1
        <4> HIDE DEF last
        <4>2. QED
            BY <4>1
    <3>4. Ending(lines) = IF lines[last].is = "unique" THEN End("pass", Recently(lines, "failure"))
                          ELSE IF lines[last].is = "failure" THEN End("fail", Recently(lines, "unique")) ELSE End("none", FALSE)
        BY <2>1, <2>5 DEF OlderEnd
    <3>5. "failure" \in Failure \ {"mismatch"}
        BY DEF Failure
    <3> HIDE DEF last
    <3>6. Ending(lines).outcome = IF lines[last].is = "unique" THEN "pass" ELSE IF lines[last].is = "failure" THEN "fail" ELSE "none"
        <4>1. CASE lines[last].is = "unique"
            <5>1. Ending(lines) = End("pass", Recently(lines, "failure"))
                BY <3>4, <4>1
            <5>2. QED
                BY <2>2, <4>1, <5>1
        <4>2. CASE lines[last].is = "failure"
            <5>1. Ending(lines) = End("fail", Recently(lines, "unique"))
                BY <3>4, <4>2
            <5>2. QED
                BY <2>2, <4>2, <5>1
        <4>3. CASE lines[last].is \notin {"unique", "failure"}
            <5>1. Ending(lines) = End("none", FALSE)
                BY <3>4, <4>3
            <5>2. QED
                BY <2>2, <4>3, <5>1
        <4>4. QED
            BY <4>1, <4>2, <4>3
    <3>7. Ending(lines).outcome = "pass" => \E i \in DOMAIN lines : /\ lines[i].is \in {"final_match", "unique"}
                                                                   /\ \A j \in After(lines, i) : lines[j].is = "stop"
        BY <3>2, <3>3, <3>6
    <3>8. Ending(lines).outcome = "fail" => \E i \in DOMAIN lines : lines[i].is \in Failure \ {"mismatch"}
        BY <3>2, <3>5, <3>6
    <3>9. QED
        BY <1>4, <3>7, <3>8
  <2>6. QED
    BY <2>3, <2>4, <2>5
<1>5. QED
    BY <1>3, <1>4

(* What the JSON says, and of which comparisons.                           *)
LEMMA JsonIsSaid ==
    ASSUME NEW J, NEW payload \in Seq(J), NEW cell, JsonSays(payload, cell).outcome \in {"pass", "fail"}
    PROVE  /\ \E i \in DOMAIN payload : Top(payload[i], cell)
           /\ JsonSays(payload, cell).outcome = "pass" => \A i \in DOMAIN payload : ~Differs(payload[i])
           /\ JsonSays(payload, cell).outcome = "fail" =>
                 \E i \in DOMAIN payload : Differs(payload[i]) \/ "pins" \notin DOMAIN payload[i]
<1> DEFINE tops == {i \in DOMAIN payload : Top(payload[i], cell)}
           top  == payload[CHOOSE i \in tops : TRUE]
           fits == /\ Len(payload) \in 1 .. MaxComparisons /\ (\A i \in DOMAIN payload : ComparisonFits(payload[i]))
                   /\ Cardinality(tops) = 1
           same == \A i \in DOMAIN payload : Reasons(payload[i], cell) = {}
           told == Told(IF same THEN "pass" ELSE "fail", <<DevicesOf(top.devices[1]), DevicesOf(top.devices[2])>>, top.nets)
<1>1. JsonSays(payload, cell) = IF fits THEN told ELSE Nothing
    BY DEF JsonSays
<1>2. told.outcome = (IF same THEN "pass" ELSE "fail") /\ Nothing.outcome = "unknown"
    BY DEF Told, Nothing
<1> HIDE DEF fits, told
<1>3. fits /\ JsonSays(payload, cell).outcome = IF same THEN "pass" ELSE "fail"
    BY <1>1, <1>2
<1>4. \E i \in DOMAIN payload : Top(payload[i], cell)
  <2>1. IsFiniteSet(DOMAIN payload)
    BY FS_Interval
  <2>2. IsFiniteSet(tops)
    BY <2>1, FS_Subset
  <2>3. Cardinality(tops) = 1
    BY <1>3 DEF fits
  <2> HIDE DEF tops
  <2>4. \E i : tops = {i}
    BY <2>2, <2>3, FS_Singleton
  <2>5. QED
    BY <2>4 DEF tops
<1>5. ASSUME NEW i \in DOMAIN payload, Reasons(payload[i], cell) = {} PROVE ~Differs(payload[i])
  <2> DEFINE c == payload[i]
  <2>1. ComparisonFits(c)
    BY <1>3 DEF fits
  <2> HIDE DEF c
  <2>2. CASE Auxiliary(c)
    <3>1. DOMAIN c = {"pins"} /\ c.pins[1] = c.pins[2]
        BY <2>1, <2>2 DEF Auxiliary, ComparisonFits
    <3>2. \A f \in Faults : Listed(c, f) = 0
        BY <3>1 DEF Faults, Listed
    <3>3. ~Differs(c)
        BY <3>1, <3>2 DEF Differs
    <3>4. QED
        BY <3>3 DEF c
  <2>3. CASE ~Auxiliary(c)
    <3>1. Reasons(c, cell) = {}
        BY <1>5 DEF c
    <3>2. /\ {f \in Faults : Listed(c, f) > 0} = {}
          /\ ToSet(c.devices[1]) = ToSet(c.devices[2]) /\ c.nets[1] = c.nets[2]
          /\ ("pins" \in DOMAIN c => c.pins[1] = c.pins[2])
        BY <2>3, <3>1 DEF Reasons
    <3>3. ~Differs(c)
        BY <3>2 DEF Differs
    <3>4. QED
        BY <3>3 DEF c
  <2>4. QED
    BY <2>2, <2>3
<1>6. ASSUME NEW i \in DOMAIN payload, Reasons(payload[i], cell) # {}
      PROVE  Differs(payload[i]) \/ "pins" \notin DOMAIN payload[i]
  <2> DEFINE c == payload[i]
  <2>1. ComparisonFits(c)
    BY <1>3 DEF fits
  <2>2. Reasons(c, cell) # {}
    BY <1>6
  <2> HIDE DEF c
  <2>3. ~Auxiliary(c)
    BY <2>2 DEF Reasons
  <2>4. "nets" \in DOMAIN c /\ "devices" \in DOMAIN c
    BY <2>1, <2>3 DEF ComparisonFits
  <2>5. Differs(c) \/ "pins" \notin DOMAIN c
    BY <2>2, <2>3, <2>4 DEF Reasons, Differs
  <2>6. QED
    BY <2>5 DEF c
<1>7. QED
    BY <1>3, <1>4, <1>5, <1>6

(* What a section says first is what was kept of it.                       *)
LEMMA FirstIsKept ==
    ASSUME NEW lines, NEW T, NEW what, NEW sides, sides # Untold
    PROVE  /\ FirstSays(lines, T, what, sides) <=> FirstOf(lines, Says(lines, T, what)) = sides
           /\ LastSays(lines, T, what, sides) <=> LastOf(lines, Says(lines, T, what)) = sides
<1> DEFINE S == Says(lines, T, what)
<1>1. FirstSays(lines, T, what, sides) <=> S # {} /\ Pair(lines[Min(S)]) = sides
    BY DEF FirstSays
<1>2. LastSays(lines, T, what, sides) <=> S # {} /\ Pair(lines[Max(S)]) = sides
    BY DEF LastSays
<1>3. FirstOf(lines, S) = (IF S = {} THEN Untold ELSE Pair(lines[Min(S)])) /\ LastOf(lines, S) = IF S = {} THEN Untold ELSE Pair(lines[Max(S)])
    BY DEF FirstOf, LastOf
<1> HIDE DEF S
<1>4. (FirstOf(lines, S) = sides <=> S # {} /\ Pair(lines[Min(S)]) = sides)
      /\ (LastOf(lines, S) = sides <=> S # {} /\ Pair(lines[Max(S)]) = sides)
    BY <1>3
<1>5. QED
    BY <1>1, <1>2, <1>4 DEF S

(* The comparison that the report tells of is the only one of the cell.    *)
LEMMA ReportIsSaid ==
    ASSUME NEW L, NEW lines \in Seq(L), NEW cell, ReportTells(lines, cell).outcome \in {"pass", "fail"}
    PROVE  /\ ~Ending(lines).conflict /\ Ending(lines).outcome = ReportTells(lines, cell).outcome
           /\ ReportTells(lines, cell).outcome = "pass" => \A i \in DOMAIN lines : lines[i].is \notin Failure
           /\ \E i \in DOMAIN lines :
                 /\ Opens(lines, i) /\ TellsOf(lines, i, cell, ReportTells(lines, cell))
                 /\ ReportTells(lines, cell).outcome = "pass" => Completes(lines, i, cell)
                 /\ \A j \in DOMAIN lines : Opens(lines, j) /\ j # i => ~IsOf(lines, j, cell)
<1> DEFINE N      == Len(lines)
           found  == Comparisons(lines)
           tops   == {i \in DOMAIN found : found[i].summary = <<cell, cell>>}
           top    == found[CHOOSE i \in tops : TRUE]
           end    == Ending(lines)
           crowded == Len(found) > MaxComparisons
           silent == \A i \in DOMAIN lines : lines[i].is \notin Failure
           told   == ReportTells(lines, cell)
<1>1. told = IF crowded \/ end.conflict \/ Cardinality(tops) # 1 THEN Nothing
             ELSE CASE end.outcome = "pass" /\ Matches(top) /\ silent -> Told("pass", top.devices, top.nets)
                    [] end.outcome = "fail" /\ Counted(top)           -> Told("fail", top.devices, top.nets)
                    [] OTHER                                          -> Nothing
    BY DEF ReportTells
<1>2. Nothing.outcome = "unknown"
      /\ \A o, v, w : Told(o, v, w).outcome = o /\ Told(o, v, w).devices = v /\ Told(o, v, w).nets = w
    BY DEF Told, Nothing
<1> HIDE DEF tops, top, silent, told, end, crowded, found
<1>3. /\ ~end.conflict /\ Cardinality(tops) = 1 /\ told.outcome = end.outcome
      /\ told.devices = top.devices /\ told.nets = top.nets /\ Counted(top)
      /\ told.outcome = "pass" => Matches(top) /\ silent
  <2>0. told.outcome \in {"pass", "fail"}
    BY DEF told
  <2>1. ~end.conflict /\ Cardinality(tops) = 1 /\ ~crowded
    BY <1>1, <1>2, <2>0
  <2>2. CASE end.outcome = "pass" /\ Matches(top) /\ silent
    <3>1. told = Told("pass", top.devices, top.nets)
        BY <1>1, <2>1, <2>2
    <3>2. QED
        BY <1>2, <2>1, <2>2, <3>1 DEF Matches
  <2>3. CASE end.outcome = "fail" /\ Counted(top)
    <3>1. told = Told("fail", top.devices, top.nets)
        BY <1>1, <2>1, <2>3
    <3>2. QED
        BY <1>2, <2>1, <2>3, <3>1
  <2>4. CASE ~(end.outcome = "pass" /\ Matches(top) /\ silent) /\ ~(end.outcome = "fail" /\ Counted(top))
    <3>1. told = Nothing
        BY <1>1, <2>1, <2>4
    <3>2. QED
        BY <1>2, <2>0, <3>1
  <2>5. QED
    BY <2>2, <2>3, <2>4
<1>4. N \in Nat /\ DOMAIN lines = 1 .. N
    OBVIOUS
<1>5. PICK s, at : ReadUpTo(lines, s, N, at) /\ s.found = found
    BY <1>4, WholeReport DEF found
<1>6. Len(found) \in Nat /\ DOMAIN found = 1 .. Len(found)
    BY <1>5, FoundIsSeq
<1>7. PICK a : tops = {a}
  <2>1. IsFiniteSet(DOMAIN found)
    BY <1>6, FS_Interval
  <2>2. tops \in SUBSET DOMAIN found
    BY DEF tops
  <2>3. IsFiniteSet(tops)
    BY <2>1, <2>2, FS_Subset
  <2>4. QED
    BY <1>3, <2>3, FS_Singleton
<1>8. a \in 1 .. Len(found) /\ top = found[a] /\ found[a].summary = <<cell, cell>>
      /\ \A b \in 1 .. Len(found) : found[b].summary = <<cell, cell>> => b = a
  <2>1. a \in tops /\ (CHOOSE i \in tops : TRUE) = a /\ \A b \in tops : b = a
    BY <1>7
  <2>2. QED
    BY <1>6, <2>1 DEF tops, top
<1> DEFINE B(i) == BlockTo(lines, i, N)
           S(i) == SummaryTo(lines, i, N)
<1>9. \A i \in 1 .. N : BlockAt(lines, i) = B(i) /\ SummaryAt(lines, i) = S(i)
  <2> SUFFICES ASSUME NEW i \in 1 .. N PROVE BlockAt(lines, i) = B(i) /\ SummaryAt(lines, i) = S(i)
    OBVIOUS
  <2>1. \A j \in i .. N : \A k \in i + 1 .. j : k \in DOMAIN lines
    BY <1>4
  <2>2. \A j \in i .. N : \A k \in i + 1 .. j : (~Opens(lines, k)) <=> lines[k].is # "summary"
    BY <2>1 DEF Opens
  <2>3. BlockAt(lines, i) = B(i)
    BY <2>2 DEF BlockAt, BlockTo
  <2>4. QED
    BY <2>3 DEF SummaryAt, SummaryTo
<1> HIDE DEF B, S
<1>10. ASSUME NEW b \in 1 .. Len(found)
       PROVE  at[b] \in 1 .. N /\ Opens(lines, at[b]) /\ Records(lines, B(at[b]), S(at[b]), found[b])
    BY <1>4, <1>5 DEF ReadUpTo, Opens, B, S
<1>11. ASSUME NEW b \in 1 .. Len(found) PROVE IsOf(lines, at[b], cell) <=> found[b].summary = <<cell, cell>>
  <2>1. <<cell, cell>> # Untold
    BY DEF Untold
  <2>2. at[b] \in 1 .. N /\ found[b].summary = FirstOf(lines, Says(lines, S(at[b]), "pair"))
    BY <1>10 DEF Records
  <2>3. SummaryAt(lines, at[b]) = S(at[b])
    BY <1>9, <2>2
  <2>4. QED
    BY <2>1, <2>2, <2>3, FirstIsKept DEF IsOf
<1> DEFINE i == at[a]
<1>12. i \in 1 .. N /\ Opens(lines, i) /\ Records(lines, B(i), S(i), top) /\ IsOf(lines, i, cell)
       /\ SummaryAt(lines, i) = S(i) /\ BlockAt(lines, i) = B(i)
    BY <1>8, <1>9, <1>10, <1>11
<1>13. \A j \in DOMAIN lines : Opens(lines, j) /\ j # i => ~IsOf(lines, j, cell)
  <2> SUFFICES ASSUME NEW j \in DOMAIN lines, Opens(lines, j), j # i PROVE ~IsOf(lines, j, cell)
    OBVIOUS
  <2>1. PICK b \in 1 .. Len(found) : at[b] = j
    BY <1>4, <1>5 DEF ReadUpTo, Opens
  <2>2. b # a
    BY <2>1
  <2>3. QED
    BY <1>8, <1>11, <2>1, <2>2
<1> HIDE DEF i
<1>14. TellsOf(lines, i, cell, told)
  <2>1. told.devices # Untold /\ told.nets # Untold
    BY <1>3 DEF Counted
  <2>2. told.devices = FirstOf(lines, Says(lines, S(i), "devices")) /\ told.nets = FirstOf(lines, Says(lines, S(i), "nets"))
    BY <1>3, <1>12 DEF Records
  <2>3. FirstSays(lines, S(i), "devices", told.devices) /\ FirstSays(lines, S(i), "nets", told.nets)
    BY <2>1, <2>2, FirstIsKept
  <2>4. QED
    BY <1>12, <2>3 DEF TellsOf
<1>15. ASSUME told.outcome = "pass" PROVE Completes(lines, i, cell)
  <2>1. <<cell, cell>> # Untold
    BY DEF Untold
  <2>2. Matches(top) /\ top.summary = <<cell, cell>>
    BY <1>3, <1>8, <1>15
  <2>3. top.pins = <<cell, cell>> /\ top.equal /\ top.classes = <<cell, cell>>
    BY <2>2 DEF Matches
  <2>4. /\ FirstOf(lines, Says(lines, B(i) \ S(i), "pair")) = <<cell, cell>>
        /\ LastOf(lines, Says(lines, B(i), "classes")) = <<cell, cell>>
    BY <1>12, <2>3 DEF Records
  <2>5. Says(lines, B(i), "equal_pins") # {}
    BY <1>12, <2>3 DEF Records
  <2>6. FirstSays(lines, B(i) \ S(i), "pair", <<cell, cell>>) /\ LastSays(lines, B(i), "classes", <<cell, cell>>)
    BY <2>1, <2>4, FirstIsKept
  <2>7. QED
    BY <1>12, <2>5, <2>6 DEF Completes
<1>16. i \in DOMAIN lines /\ (told.outcome = "pass" => silent)
    BY <1>3, <1>4, <1>12
<1>17. QED
    BY <1>3, <1>12, <1>13, <1>14, <1>15, <1>16 DEF told, end, silent

(* What a comparison concludes is what both of its files state, of the one *)
(* cell that was asked for, and a match only if nothing in them differs; a *)
(* report that was cut short is never the other verdict (NetgenDriver.lvs).*)
THEOREM ComparisonsAreStated ==
    ASSUME NEW L, NEW J, NEW d, {"request", "report", "json", "transcript", "exit"} \subseteq DOMAIN d,
           d.report.lines \in Seq(L), d.json \in Seq(J)
    PROVE  LvsIsStated(d)
<1> DEFINE verdict == Lvs(d)
           lines   == d.report.lines
           cell    == d.request.cell
           said    == ReportSays(d.report, cell)
           json    == JsonSays(d.json, cell)
           sound   == LvsRequestFits(d.request) /\ d.exit = 0 /\ Clean(d.transcript) /\ Agree(said, json)
<1>1. verdict \in {"pass", "fail"} => verdict = said.outcome /\ sound
  <2>1. verdict = CASE ~LvsRequestFits(d.request) -> "refused" [] sound -> said.outcome [] OTHER -> "unknown"
    BY DEF Lvs
  <2> HIDE DEF verdict, sound
  <2>2. CASE ~LvsRequestFits(d.request)
    BY <2>1, <2>2 DEF sound
  <2>3. CASE LvsRequestFits(d.request) /\ sound
    BY <2>1, <2>3
  <2>4. CASE LvsRequestFits(d.request) /\ ~sound
    BY <2>1, <2>4
  <2>5. QED
    BY <2>2, <2>3, <2>4
<1> DEFINE told == ReportTells(lines, cell)
<1>2. ASSUME verdict \in {"pass", "fail"}
      PROVE  /\ d.exit = 0 /\ Clean(d.transcript) /\ d.report.whole /\ told.outcome = verdict /\ json.outcome = verdict
             /\ told.devices = json.devices /\ told.nets = json.nets /\ LvsRequestFits(d.request)
  <2>1. Nothing.outcome = "unknown"
    BY DEF Nothing, Told
  <2>2. said = IF d.report.whole THEN told ELSE Nothing
    BY DEF ReportSays
  <2>3. said.outcome = json.outcome /\ said.devices = json.devices /\ said.nets = json.nets
    BY <1>1, <1>2 DEF Agree
  <2> HIDE DEF told, said, json, verdict
  <2>4. d.report.whole
    BY <1>1, <1>2, <2>1, <2>2
  <2>5. QED
    BY <1>1, <1>2, <2>2, <2>3, <2>4
<1>3. ASSUME verdict \in {"pass", "fail"}
      PROVE  \A n \in DOMAIN lines : Lvs(Cut(d, n)) \in {verdict, "unknown"}
  <2> SUFFICES ASSUME NEW n \in DOMAIN lines PROVE Lvs(Cut(d, n)) \in {verdict, "unknown"}
    OBVIOUS
  <2> DEFINE e == Cut(d, n)
             other == ReportSays(e.report, cell)
             agreed == e.exit = 0 /\ Clean(e.transcript) /\ Agree(other, json)
  <2>1. e.request = d.request /\ e.json = d.json /\ e.transcript = d.transcript /\ e.exit = d.exit
    BY DEF Cut
  <2>2. LvsRequestFits(e.request) /\ JsonSays(e.json, e.request.cell) = json /\ e.request.cell = cell
    BY <1>2, <1>3, <2>1
  <2> HIDE DEF e
  <2>3. Lvs(e) = CASE ~LvsRequestFits(e.request) -> "refused"
                   [] LvsRequestFits(e.request) /\ agreed -> other.outcome [] OTHER -> "unknown"
    BY <2>2 DEF Lvs
  <2>4. agreed => other.outcome = json.outcome
    BY DEF Agree
  <2>5. json.outcome = verdict
    BY <1>2, <1>3
  <2> HIDE DEF other, agreed, json, verdict
  <2>6. Lvs(e) \in {verdict, "unknown"}
    BY <2>2, <2>3, <2>4, <2>5
  <2>7. QED
    BY <2>6 DEF e
<1>4. ASSUME verdict \in {"pass", "fail"}
      PROVE  /\ ~Ending(lines).conflict /\ Ending(lines).outcome = verdict
             /\ verdict = "pass" => \A i \in DOMAIN lines : lines[i].is \notin Failure
             /\ \E i \in DOMAIN lines :
                   /\ Opens(lines, i) /\ TellsOf(lines, i, cell, json) /\ (verdict = "pass" => Completes(lines, i, cell))
                   /\ \A j \in DOMAIN lines : Opens(lines, j) /\ j # i => ~IsOf(lines, j, cell)
  <2>1. told.outcome \in {"pass", "fail"} /\ told.outcome = verdict
    BY <1>2, <1>4
  <2>2. /\ ~Ending(lines).conflict /\ Ending(lines).outcome = told.outcome
        /\ told.outcome = "pass" => \A i \in DOMAIN lines : lines[i].is \notin Failure
        /\ \E i \in DOMAIN lines :
              /\ Opens(lines, i) /\ TellsOf(lines, i, cell, told) /\ (told.outcome = "pass" => Completes(lines, i, cell))
              /\ \A j \in DOMAIN lines : Opens(lines, j) /\ j # i => ~IsOf(lines, j, cell)
    BY <2>1, ReportIsSaid
  <2>3. \A i : TellsOf(lines, i, cell, told) <=> TellsOf(lines, i, cell, json)
    BY <1>2, <1>4 DEF TellsOf
  <2> HIDE DEF told, json, verdict, lines, cell
  <2>4. QED
    BY <2>1, <2>2, <2>3
<1>5. ASSUME verdict \in {"pass", "fail"}
      PROVE  /\ \A i, j \in Finals(lines) : lines[i].is = lines[j].is
             /\ verdict = "pass" => \E i \in DOMAIN lines : /\ lines[i].is \in {"final_match", "unique"}
                                                           /\ \A j \in After(lines, i) : lines[j].is = "stop"
             /\ verdict = "fail" => \E i \in DOMAIN lines : lines[i].is \in Failure \ {"mismatch"}
  <2> HIDE DEF lines, verdict
  <2>1. lines \in Seq(L)
    BY DEF lines
  <2>2. ~Ending(lines).conflict /\ Ending(lines).outcome = verdict
    BY <1>4, <1>5
  <2>3. QED
    BY <2>1, <2>2, EndingIsSaid
<1>6. ASSUME verdict \in {"pass", "fail"}
      PROVE  /\ \E i \in DOMAIN d.json : Top(d.json[i], cell)
             /\ verdict = "pass" => \A i \in DOMAIN d.json : ~Differs(d.json[i])
             /\ verdict = "fail" => \E i \in DOMAIN d.json : Differs(d.json[i]) \/ "pins" \notin DOMAIN d.json[i]
  <2> HIDE DEF verdict, cell
  <2>1. json.outcome = verdict
    BY <1>2, <1>6
  <2>2. QED
    BY <1>6, <2>1, JsonIsSaid
<1>7. ASSUME verdict \in {"pass", "fail"}
      PROVE  /\ "setup_read" \in d.transcript.out /\ d.transcript.err \subseteq {"permute"}
             /\ \E i \in DOMAIN d.json : ~Auxiliary(d.json[i]) /\ d.json[i].name = <<cell, cell>>
  <2>1. "setup_read" \in d.transcript.out /\ d.transcript.err \subseteq {"permute"}
    BY <1>2, <1>7 DEF Clean
  <2>2. PICK i \in DOMAIN d.json : Top(d.json[i], cell)
    BY <1>6, <1>7
  <2>3. QED
    BY <2>1, <2>2 DEF Top
<1> HIDE DEF verdict, lines, cell, json, said, sound, told
<1>8. verdict \in {"pass", "fail"} =>
         /\ d.exit = 0 /\ "setup_read" \in d.transcript.out /\ d.transcript.err \subseteq {"permute"}
         /\ \E i \in DOMAIN d.json : ~Auxiliary(d.json[i]) /\ d.json[i].name = <<cell, cell>>
         /\ d.report.whole /\ \A i, j \in Finals(lines) : lines[i].is = lines[j].is
         /\ \E i \in DOMAIN lines :
                /\ Opens(lines, i) /\ TellsOf(lines, i, cell, json) /\ (verdict = "pass" => Completes(lines, i, cell))
                /\ \A j \in DOMAIN lines : Opens(lines, j) /\ j # i => ~IsOf(lines, j, cell)
         /\ \A n \in DOMAIN lines : Lvs(Cut(d, n)) \in {verdict, "unknown"}
    BY <1>2, <1>3, <1>4, <1>5, <1>7
<1>9. verdict = "pass" =>
         /\ \A i \in DOMAIN d.json : ~Differs(d.json[i])
         /\ \A i \in DOMAIN lines : lines[i].is \notin Failure
         /\ \E i \in DOMAIN lines : lines[i].is \in {"final_match", "unique"} /\ \A j \in After(lines, i) : lines[j].is = "stop"
    BY <1>4, <1>5, <1>6
<1>10. verdict = "fail" =>
         /\ \E i \in DOMAIN d.json : Differs(d.json[i]) \/ "pins" \notin DOMAIN d.json[i]
         /\ \E i \in DOMAIN lines : lines[i].is \in Failure \ {"mismatch"}
    BY <1>5, <1>6
<1>11. QED
    BY <1>8, <1>9, <1>10 DEF LvsIsStated, verdict, lines, cell, json

(* What holds at first, and at each step if it held before, holds always.  *)
LEMMA AllReached ==
    ASSUME NEW n \in Nat, NEW B \in SUBSET (0 .. n), 0 \in B, \A k \in 1 .. n : k - 1 \in B => k \in B
    PROVE  B = 0 .. n
<1> DEFINE bad   == (0 .. n) \ B
           least == Min(bad)
<1>1. bad = {}
  <2> SUFFICES ASSUME bad # {} PROVE FALSE
    OBVIOUS
  <2>1. bad \in SUBSET Nat
    OBVIOUS
  <2>2. least \in bad /\ \A k \in bad : least <= k
    BY <2>1, LeastOf
  <2> HIDE DEF least
  <2>3. least \in 1 .. n /\ least - 1 \in 0 .. n /\ ~(least <= least - 1)
    BY <2>2
  <2>4. least - 1 \in B
    BY <2>2, <2>3
  <2>5. QED
    BY <2>2, <2>3, <2>4
<1>2. QED
    BY <1>1

(* Steps within a set can be taken one after the other.                    *)
AreSteps(h, f, base, n, G) == h \in [0 .. n -> G] /\ h[0] = base /\ \A k \in 1 .. n : h[k] = f[k][h[k - 1]]
LEMMA StepsExist ==
    ASSUME NEW G, NEW base \in G, NEW n \in Nat, NEW f, \A k \in 1 .. n : \A x \in G : f[k][x] \in G
    PROVE  \E h : AreSteps(h, f, base, n, G)
<1> DEFINE Steps(h, m) == h \in [0 .. m -> G] /\ h[0] = base /\ \A k \in 1 .. m : h[k] = f[k][h[k - 1]]
           B == {m \in 0 .. n : \E h : Steps(h, m)}
<1>1. 0 \in B
  <2> DEFINE h == [k \in 0 .. 0 |-> base]
  <2>1. Steps(h, 0)
    OBVIOUS
  <2> HIDE DEF Steps
  <2>2. QED
    BY <2>1
<1>2. ASSUME NEW m \in 1 .. n, m - 1 \in B PROVE m \in B
  <2>1. PICK h : Steps(h, m - 1)
    <3> HIDE DEF Steps
    <3>1. QED
        BY <1>2
  <2> DEFINE g == [k \in 0 .. m |-> IF k = m THEN f[m][h[m - 1]] ELSE h[k]]
  <2>2. m - 1 \in 0 .. m - 1 /\ h[m - 1] \in G /\ f[m][h[m - 1]] \in G
    BY <2>1
  <2>3. g \in [0 .. m -> G]
    <3>1. ASSUME NEW k \in 0 .. m, k # m PROVE k \in 0 .. m - 1
        BY <3>1
    <3>2. \A k \in 0 .. m - 1 : h[k] \in G
        BY <2>1
    <3>3. QED
        BY <2>2, <3>1, <3>2
  <2>4. g[0] = base
    BY <2>1
  <2>5. ASSUME NEW k \in 1 .. m PROVE g[k] = f[k][g[k - 1]]
    <3>1. k - 1 \in 0 .. m /\ k - 1 # m /\ k \in 0 .. m
        OBVIOUS
    <3>2. g[k - 1] = h[k - 1]
        BY <3>1
    <3>3. CASE k = m
        BY <3>1, <3>2, <3>3
    <3>4. CASE k # m
        <4>1. k \in 1 .. m - 1
            BY <3>4
        <4>2. QED
            BY <2>1, <3>1, <3>2, <3>4, <4>1
    <3>5. QED
        BY <3>3, <3>4
  <2> HIDE DEF g
  <2>6. Steps(g, m)
    BY <2>3, <2>4, <2>5
  <2> HIDE DEF Steps
  <2>7. QED
    BY <2>6
<1> HIDE DEF Steps
<1>3. B = 0 .. n
  <2> HIDE DEF B
  <2>1. B \in SUBSET (0 .. n)
    BY DEF B
  <2>2. QED
    BY <1>1, <1>2, <2>1, AllReached
<1>4. n \in B
  <2> HIDE DEF B
  <2>1. QED
    BY <1>3
<1>5. QED
    BY <1>4 DEF Steps, AreSteps

(* A total is that of its steps.                                           *)
LEMMA TotalSteps ==
    ASSUME NEW s \in Seq(Nat)
    PROVE  \E h \in [0 .. Len(s) -> Nat] :
              h[0] = 0 /\ (\A k \in 1 .. Len(s) : h[k] = h[k - 1] + s[k]) /\ Total(s) = h[Len(s)]
<1> DEFINE n == Len(s)
           f == [k \in 1 .. n |-> [x \in Nat |-> x + s[k]]]
           IsSum(g) == g = [k \in 0 .. n |-> IF k = 0 THEN 0 ELSE g[k - 1] + s[k]]
           of == CHOOSE g : IsSum(g)
<1>1. n \in Nat /\ \A k \in 1 .. n : s[k] \in Nat
    OBVIOUS
<1>2. \A k \in 1 .. n : \A x \in Nat : f[k][x] \in Nat
    BY <1>1
<1>3. \A k \in 1 .. n : \A x \in Nat : f[k][x] = x + s[k]
    OBVIOUS
<1> HIDE DEF f, n
<1>4. PICK h \in [0 .. n -> Nat] : h[0] = 0 /\ \A k \in 1 .. n : h[k] = f[k][h[k - 1]]
  <2> DEFINE G == Nat
             base == 0
  <2>1. base \in G /\ n \in Nat /\ \A k \in 1 .. n : \A x \in G : f[k][x] \in G
    BY <1>1, <1>2
  <2> HIDE DEF G, base
  <2>2. \E h : AreSteps(h, f, base, n, G)
    BY <2>1, StepsExist
  <2>3. QED
    BY <2>2 DEF G, base, AreSteps
<1>5. \A k \in 1 .. n : k - 1 \in 0 .. n /\ h[k] = h[k - 1] + s[k]
  <2> SUFFICES ASSUME NEW k \in 1 .. n PROVE k - 1 \in 0 .. n /\ h[k] = h[k - 1] + s[k]
    OBVIOUS
  <2>1. k - 1 \in 0 .. n
    BY <1>1
  <2>2. h[k - 1] \in Nat
    BY <1>4, <2>1
  <2>3. QED
    BY <1>3, <1>4, <2>1, <2>2
<1>6. IsSum(h)
  <2>1. \A k \in 0 .. n : k = 0 \/ k \in 1 .. n
    BY <1>1
  <2>2. \A k \in 0 .. n : h[k] = IF k = 0 THEN 0 ELSE h[k - 1] + s[k]
    BY <1>4, <1>5, <2>1
  <2>3. QED
    BY <2>2
<1>7. IsSum(of)
  <2> HIDE DEF IsSum
  <2>1. QED
    BY <1>6
<1>8. Total(s) = of[n]
    BY DEF Total, n
<1> HIDE DEF of
<1>9. of[0] = 0 /\ \A k \in 1 .. n : of[k] = of[k - 1] + s[k]
  <2>1. \A k \in 1 .. n : k \in 0 .. n /\ k # 0
    BY <1>1
  <2>2. QED
    BY <1>1, <1>7, <2>1
<1>10. \A k \in 0 .. n : of[k] \in Nat
  <2> DEFINE B == {k \in 0 .. n : of[k] \in Nat}
  <2>1. 0 \in B
    BY <1>1, <1>9
  <2>2. ASSUME NEW k \in 1 .. n, k - 1 \in B PROVE k \in B
    <3>1. of[k - 1] \in Nat /\ s[k] \in Nat /\ of[k] = of[k - 1] + s[k] /\ k \in 0 .. n
        BY <1>1, <1>9, <2>2
    <3>2. QED
        BY <3>1
  <2>3. B = 0 .. n
    <3> HIDE DEF B
    <3>1. B \in SUBSET (0 .. n)
        BY DEF B
    <3>2. QED
        BY <1>1, <2>1, <2>2, <3>1, AllReached
  <2>4. QED
    BY <2>3
<1>11. of \in [0 .. n -> Nat]
  <2>1. of = [k \in 0 .. n |-> of[k]]
    BY <1>7
  <2>2. QED
    BY <1>10, <2>1
<1>12. QED
    BY <1>8, <1>9, <1>11 DEF n

(* Each part is within the total, and larger parts have a larger total.    *)
LEMMA TotalCovers ==
    ASSUME NEW s \in Seq(Nat)
    PROVE  Total(s) \in Nat /\ (\A i \in DOMAIN s : s[i] <= Total(s)) /\ (s = <<>> => Total(s) = 0)
<1> DEFINE n == Len(s)
<1>1. PICK h \in [0 .. n -> Nat] : h[0] = 0 /\ (\A k \in 1 .. n : h[k] = h[k - 1] + s[k]) /\ Total(s) = h[n]
    BY TotalSteps
<1>2. n \in Nat /\ DOMAIN s = 1 .. n /\ (\A k \in 1 .. n : s[k] \in Nat) /\ (s = <<>> => n = 0)
    OBVIOUS
<1> HIDE DEF n
<1>3. ASSUME NEW i \in 1 .. n PROVE s[i] <= h[n]
  <2> DEFINE B == {k \in 0 .. n : k >= i => s[i] <= h[k]}
  <2>1. 0 \in B
    BY <1>2
  <2>2. ASSUME NEW k \in 1 .. n, k - 1 \in B PROVE k \in B
    <3>1. k - 1 \in 0 .. n /\ h[k - 1] \in Nat /\ h[k] = h[k - 1] + s[k] /\ s[k] \in Nat /\ s[i] \in Nat
        BY <1>1, <1>2
    <3>2. k - 1 >= i => s[i] <= h[k - 1]
        BY <2>2
    <3>3. k >= i => s[i] <= h[k]
        <4>1. CASE k = i
            BY <3>1, <4>1
        <4>2. CASE k # i
            BY <3>1, <3>2, <4>2
        <4>3. QED
            BY <4>1, <4>2
    <3>4. QED
        BY <3>3
  <2>3. B = 0 .. n
    <3> HIDE DEF B
    <3>1. B \in SUBSET (0 .. n)
        BY DEF B
    <3>2. QED
        BY <1>2, <2>1, <2>2, <3>1, AllReached
  <2>4. n \in B
    <3> HIDE DEF B
    <3>1. n \in 0 .. n
        BY <1>2
    <3>2. QED
        BY <2>3, <3>1
  <2>5. n >= i => s[i] <= h[n]
    BY <2>4
  <2>6. n >= i
    BY <1>2
  <2>7. QED
    BY <2>5, <2>6
<1>4. QED
    BY <1>1, <1>2, <1>3

LEMMA TotalsInOrder ==
    ASSUME NEW s \in Seq(Nat), NEW t \in Seq(Nat), Len(s) = Len(t), \A i \in DOMAIN s : s[i] <= t[i]
    PROVE  Total(s) <= Total(t)
<1> DEFINE n == Len(s)
<1>1. n \in Nat /\ \A k \in 1 .. n : s[k] \in Nat /\ t[k] \in Nat /\ s[k] <= t[k]
    OBVIOUS
<1>2. PICK g \in [0 .. n -> Nat] : g[0] = 0 /\ (\A k \in 1 .. n : g[k] = g[k - 1] + s[k]) /\ Total(s) = g[n]
    BY TotalSteps
<1>3. PICK h \in [0 .. n -> Nat] : h[0] = 0 /\ (\A k \in 1 .. n : h[k] = h[k - 1] + t[k]) /\ Total(t) = h[n]
  <2>1. \E h \in [0 .. Len(t) -> Nat] :
           h[0] = 0 /\ (\A k \in 1 .. Len(t) : h[k] = h[k - 1] + t[k]) /\ Total(t) = h[Len(t)]
    BY TotalSteps
  <2>2. QED
    BY <2>1
<1> HIDE DEF n
<1> DEFINE B == {k \in 0 .. n : g[k] <= h[k]}
<1>4. 0 \in B
    BY <1>1, <1>2, <1>3
<1>5. ASSUME NEW k \in 1 .. n, k - 1 \in B PROVE k \in B
  <2>1. k - 1 \in 0 .. n /\ g[k - 1] \in Nat /\ h[k - 1] \in Nat /\ g[k - 1] <= h[k - 1]
    BY <1>5
  <2>2. g[k] = g[k - 1] + s[k] /\ h[k] = h[k - 1] + t[k] /\ s[k] \in Nat /\ t[k] \in Nat /\ s[k] <= t[k]
    BY <1>1, <1>2, <1>3
  <2>3. QED
    BY <2>1, <2>2
<1>6. B = 0 .. n
  <2> HIDE DEF B
  <2>1. B \in SUBSET (0 .. n)
    BY DEF B
  <2>2. QED
    BY <1>1, <1>4, <1>5, <2>1, AllReached
<1>7. n \in B
  <2> HIDE DEF B
  <2>1. QED
    BY <1>1, <1>6
<1>8. QED
    BY <1>2, <1>3, <1>7

(* The smaller of two.                                                     *)
LEMMA LeastOfTwo ==
    ASSUME NEW a \in Nat, NEW b \in Nat
    PROVE  Min({a, b}) \in Nat /\ Min({a, b}) <= b
<1>1. {a, b} \in SUBSET Nat /\ {a, b} # {}
    OBVIOUS
<1>2. Min({a, b}) \in {a, b} /\ \A n \in {a, b} : Min({a, b}) <= n
    BY <1>1, LeastOf
<1> DEFINE low == Min({a, b})
<1> HIDE DEF low
<1>3. low \in {a, b} /\ low <= b
    BY <1>2 DEF low
<1>4. low \in Nat
    BY <1>3
<1>5. QED
    BY <1>3, <1>4 DEF low

(* What the examples of a result may come to, whatever is drawn.           *)
Limits == /\ MaxMarkers \in Nat /\ PerMarker \in Nat /\ MaxGeometries \in Nat
          /\ PerGeometry \in Nat /\ MaxPairs \in Nat
Within(g) == /\ g.mine <= PerMarker /\ g.kept <= MaxGeometries /\ g.pairs <= MaxPairs + 1
Drawings == {g \in [mine : Nat, kept : Nat, pairs : Nat] : Within(g)}
IsSeq(s) == \E E : s \in Seq(E)
Shapes(s) == IsSeq(s) /\ \A k \in DOMAIN s : s[k].corners \in Nat

(* A shape is drawn within the budget, so are those of a marker or of all. *)
LEMMA DrawsWithin ==
    ASSUME Limits, NEW g \in Drawings, NEW shape, shape.corners \in Nat
    PROVE  Draw(g, shape) \in Drawings
<1>1. g \in [mine : Nat, kept : Nat, pairs : Nat] /\ Within(g)
    BY DEF Drawings
<1>2. CASE shape.kind = "blank" \/ g.mine >= PerMarker \/ g.kept >= MaxGeometries \/ g.pairs >= MaxPairs
    BY <1>2 DEF Draw
<1>3. CASE ~(shape.kind = "blank" \/ g.mine >= PerMarker \/ g.kept >= MaxGeometries \/ g.pairs >= MaxPairs)
  <2> DEFINE room == Min({PerGeometry, MaxPairs - g.pairs})
             cost == Cost(shape, room)
             h == [mine |-> g.mine + 1, kept |-> g.kept + 1, pairs |-> g.pairs + cost]
  <2>1. Draw(g, shape) = h
    BY <1>3 DEF Draw
  <2>2. g.mine < PerMarker /\ g.kept < MaxGeometries /\ g.pairs < MaxPairs /\ MaxPairs \in Nat /\ g.pairs \in Nat
        /\ g.mine \in Nat /\ g.kept \in Nat /\ PerGeometry \in Nat /\ PerMarker \in Nat /\ MaxGeometries \in Nat
    BY <1>1, <1>3 DEF Limits
  <2>3. MaxPairs - g.pairs \in Nat
    BY <2>2
  <2>4. room \in Nat /\ room <= MaxPairs - g.pairs
    BY <2>2, <2>3, LeastOfTwo
  <2> HIDE DEF room
  <2>5. Min({shape.corners, room}) \in Nat /\ Min({shape.corners, room}) <= room
    BY <2>4, LeastOfTwo
  <2>6. cost \in Nat /\ (cost = 2 \/ cost <= MaxPairs - g.pairs)
    <3>1. CASE shape.kind = "box"
        <4>1. cost = 2
            BY <3>1 DEF Cost
        <4>2. QED
            BY <4>1
    <3>2. CASE shape.kind = "text"
        <4>1. cost = 0
            BY <3>2 DEF Cost
        <4>2. QED
            BY <2>3, <4>1
    <3>3. CASE shape.kind \notin {"box", "text"}
        <4>1. cost = Min({shape.corners, room})
            BY <3>3 DEF Cost
        <4> HIDE DEF cost
        <4>2. QED
            BY <2>3, <2>4, <2>5, <4>1
    <3>4. QED
        BY <3>1, <3>2, <3>3
  <2> HIDE DEF cost
  <2>7. g.pairs + cost <= MaxPairs + 1 /\ g.pairs + cost \in Nat
    BY <2>2, <2>6
  <2>8. h \in Drawings
    <3>1. h \in [mine : Nat, kept : Nat, pairs : Nat]
        BY <2>2, <2>7
    <3>2. Within(h)
        BY <2>2, <2>7 DEF Within
    <3>3. QED
        BY <3>1, <3>2 DEF Drawings
  <2>9. QED
    BY <2>1, <2>8
<1>4. QED
    BY <1>2, <1>3

LEMMA ItemDrawsWithin ==
    ASSUME Limits, NEW g \in Drawings, NEW item, Shapes(item.shapes)
    PROVE  DrawItem(g, item) \in Drawings
<1> DEFINE n == Len(item.shapes)
           base == [g EXCEPT !.mine = 0]
           f == [k \in 1 .. n |-> [x \in Drawings |-> Draw(x, item.shapes[k])]]
           IsDrawn(h) == h = [k \in 0 .. n |-> IF k = 0 THEN base ELSE Draw(h[k - 1], item.shapes[k])]
           of == CHOOSE h : IsDrawn(h)
<1>1. n \in Nat /\ DOMAIN item.shapes = 1 .. n
  <2>1. PICK E : item.shapes \in Seq(E)
    BY DEF Shapes, IsSeq
  <2>2. QED
    BY <2>1
<1>2. \A k \in 1 .. n : \A x \in Drawings : Draw(x, item.shapes[k]) \in Drawings
  <2>1. \A k \in 1 .. n : item.shapes[k].corners \in Nat
    BY <1>1 DEF Shapes
  <2>2. QED
    BY <2>1, DrawsWithin
<1>3. base \in Drawings
    BY DEF Drawings, Within, Limits
<1>4. \A k \in 1 .. n : \A x \in Drawings : f[k][x] = Draw(x, item.shapes[k])
    BY <1>2
<1>5. DrawItem(g, item) = of[n]
    BY DEF DrawItem
<1> HIDE DEF f, n, base, of, IsDrawn
<1>6. PICK h \in [0 .. n -> Drawings] : h[0] = base /\ \A k \in 1 .. n : h[k] = f[k][h[k - 1]]
  <2>1. \A k \in 1 .. n : \A x \in Drawings : f[k][x] \in Drawings
    BY <1>2, <1>4
  <2>2. \E h : AreSteps(h, f, base, n, Drawings)
    BY <1>1, <1>3, <2>1, StepsExist
  <2>3. QED
    BY <2>2 DEF AreSteps
<1>7. \A k \in 1 .. n : h[k] = Draw(h[k - 1], item.shapes[k])
  <2> SUFFICES ASSUME NEW k \in 1 .. n PROVE h[k] = Draw(h[k - 1], item.shapes[k])
    OBVIOUS
  <2>1. k - 1 \in 0 .. n
    BY <1>1
  <2>2. h[k - 1] \in Drawings
    BY <1>6, <2>1
  <2>3. QED
    BY <1>4, <1>6, <2>2
<1>8. IsDrawn(h)
  <2>1. \A k \in 0 .. n : k = 0 \/ k \in 1 .. n
    BY <1>1
  <2>2. \A k \in 0 .. n : h[k] = IF k = 0 THEN base ELSE Draw(h[k - 1], item.shapes[k])
    BY <1>6, <1>7, <2>1
  <2>3. QED
    BY <2>2 DEF IsDrawn
<1>9. IsDrawn(of)
    BY <1>8 DEF of
<1>10. of[0] = base /\ \A k \in 1 .. n : of[k] = Draw(of[k - 1], item.shapes[k])
  <2>1. 0 \in 0 .. n /\ \A k \in 1 .. n : k \in 0 .. n /\ k # 0
    BY <1>1
  <2>2. QED
    BY <1>9, <2>1 DEF IsDrawn
<1> DEFINE B == {k \in 0 .. n : of[k] \in Drawings}
<1>11. 0 \in B
    BY <1>1, <1>3, <1>10
<1>12. ASSUME NEW k \in 1 .. n, k - 1 \in B PROVE k \in B
  <2>1. of[k - 1] \in Drawings /\ k \in 0 .. n
    BY <1>1, <1>12
  <2>2. QED
    BY <1>2, <1>10, <2>1
<1>13. B \in SUBSET (0 .. n)
    OBVIOUS
<1> HIDE DEF B
<1>14. B = 0 .. n
    BY <1>1, <1>11, <1>12, <1>13, AllReached
<1>15. n \in B
    BY <1>1, <1>14
<1>16. QED
    BY <1>5, <1>15 DEF B

LEMMA AllDrawsWithin ==
    ASSUME Limits, NEW items, IsSeq(items), \A i \in DOMAIN items : Shapes(items[i].shapes)
    PROVE  Drawn(items) \in Drawings
<1> DEFINE n == Len(items)
           base == Undrawn
           f == [k \in 1 .. n |-> [x \in Drawings |-> DrawItem(x, items[k])]]
           IsDrawn(h) == h = [k \in 0 .. n |-> IF k = 0 THEN base ELSE DrawItem(h[k - 1], items[k])]
           of == CHOOSE h : IsDrawn(h)
<1>1. n \in Nat /\ DOMAIN items = 1 .. n
  <2>1. PICK E : items \in Seq(E)
    BY DEF IsSeq
  <2>2. QED
    BY <2>1
<1>2. \A k \in 1 .. n : \A x \in Drawings : DrawItem(x, items[k]) \in Drawings
  <2>1. \A k \in 1 .. n : Shapes(items[k].shapes)
    BY <1>1
  <2>2. QED
    BY <2>1, ItemDrawsWithin
<1>3. base \in Drawings
    BY DEF Drawings, Within, Limits, Undrawn
<1>4. \A k \in 1 .. n : \A x \in Drawings : f[k][x] = DrawItem(x, items[k])
    BY <1>2
<1>5. Drawn(items) = of[n]
    BY DEF Drawn
<1> HIDE DEF f, n, base, of, IsDrawn
<1>6. PICK h \in [0 .. n -> Drawings] : h[0] = base /\ \A k \in 1 .. n : h[k] = f[k][h[k - 1]]
  <2>1. \A k \in 1 .. n : \A x \in Drawings : f[k][x] \in Drawings
    BY <1>2, <1>4
  <2>2. \E h : AreSteps(h, f, base, n, Drawings)
    BY <1>1, <1>3, <2>1, StepsExist
  <2>3. QED
    BY <2>2 DEF AreSteps
<1>7. \A k \in 1 .. n : h[k] = DrawItem(h[k - 1], items[k])
  <2> SUFFICES ASSUME NEW k \in 1 .. n PROVE h[k] = DrawItem(h[k - 1], items[k])
    OBVIOUS
  <2>1. k - 1 \in 0 .. n
    BY <1>1
  <2>2. h[k - 1] \in Drawings
    BY <1>6, <2>1
  <2>3. QED
    BY <1>4, <1>6, <2>2
<1>8. IsDrawn(h)
  <2>1. \A k \in 0 .. n : k = 0 \/ k \in 1 .. n
    BY <1>1
  <2>2. \A k \in 0 .. n : h[k] = IF k = 0 THEN base ELSE DrawItem(h[k - 1], items[k])
    BY <1>6, <1>7, <2>1
  <2>3. QED
    BY <2>2 DEF IsDrawn
<1>9. IsDrawn(of)
    BY <1>8 DEF of
<1>10. of[0] = base /\ \A k \in 1 .. n : of[k] = DrawItem(of[k - 1], items[k])
  <2>1. 0 \in 0 .. n /\ \A k \in 1 .. n : k \in 0 .. n /\ k # 0
    BY <1>1
  <2>2. QED
    BY <1>9, <2>1 DEF IsDrawn
<1> DEFINE B == {k \in 0 .. n : of[k] \in Drawings}
<1>11. 0 \in B
    BY <1>1, <1>3, <1>10
<1>12. ASSUME NEW k \in 1 .. n, k - 1 \in B PROVE k \in B
  <2>1. of[k - 1] \in Drawings /\ k \in 0 .. n
    BY <1>1, <1>12
  <2>2. QED
    BY <1>2, <1>10, <2>1
<1>13. B \in SUBSET (0 .. n)
    OBVIOUS
<1> HIDE DEF B
<1>14. B = 0 .. n
    BY <1>1, <1>11, <1>12, <1>13, AllReached
<1>15. n \in B
    BY <1>1, <1>14
<1>16. QED
    BY <1>5, <1>15 DEF B

(* Two lists of names, each without repetition, that share none.           *)
LEMMA UnlikeJoined ==
    ASSUME NEW S, NEW s \in Seq(S), NEW t \in Seq(S), Unlike(s), Unlike(t), ToSet(s) \cap ToSet(t) = {}
    PROVE  s \o t \in Seq(S) /\ Unlike(s \o t) /\ ToSet(s \o t) = ToSet(s) \cup ToSet(t)
<1> DEFINE m == Len(s)
           n == Len(t)
           u == s \o t
<1>1. m \in Nat /\ n \in Nat /\ DOMAIN s = 1 .. m /\ DOMAIN t = 1 .. n /\ u \in Seq(S) /\ DOMAIN u = 1 .. m + n
    OBVIOUS
<1>2. (\A i \in 1 .. m : u[i] = s[i]) /\ (\A i \in m + 1 .. m + n : u[i] = t[i - m])
    OBVIOUS
<1> HIDE DEF m, n, u
<1>3. ToSet(s) = {s[i] : i \in 1 .. m} /\ ToSet(t) = {t[i] : i \in 1 .. n} /\ ToSet(u) = {u[i] : i \in 1 .. m + n}
    BY <1>1 DEF ToSet
<1>4. \A i \in 1 .. m + n : i \in 1 .. m \/ (i \in m + 1 .. m + n /\ i - m \in 1 .. n)
    BY <1>1
<1>5. (\A i \in 1 .. m : i \in 1 .. m + n) /\ \A i \in 1 .. n : i + m \in m + 1 .. m + n /\ i + m \in 1 .. m + n /\ (i + m) - m = i
    BY <1>1
<1>6. ToSet(u) = ToSet(s) \cup ToSet(t)
  <2>1. ASSUME NEW x \in ToSet(u) PROVE x \in ToSet(s) \cup ToSet(t)
    <3>1. PICK i \in 1 .. m + n : x = u[i]
        BY <1>3
    <3>2. QED
        BY <1>2, <1>3, <1>4, <3>1
  <2>2. ASSUME NEW x \in ToSet(s) PROVE x \in ToSet(u)
    BY <1>2, <1>3, <1>5
  <2>3. ASSUME NEW x \in ToSet(t) PROVE x \in ToSet(u)
    <3>1. PICK i \in 1 .. n : x = t[i]
        BY <1>3
    <3>2. u[i + m] = x /\ i + m \in 1 .. m + n
        BY <1>2, <1>5, <3>1
    <3>3. QED
        BY <1>3, <3>2
  <2>4. QED
    BY <2>1, <2>2, <2>3
<1>7. \A i \in 1 .. m, j \in 1 .. n : s[i] # t[j]
    BY <1>3
<1>8. \A i, j \in 1 .. m + n : u[i] = u[j] => i = j
  <2> SUFFICES ASSUME NEW i \in 1 .. m + n, NEW j \in 1 .. m + n, u[i] = u[j] PROVE i = j
    OBVIOUS
  <2>1. CASE i \in 1 .. m /\ j \in 1 .. m
    BY <1>1, <1>2, <2>1 DEF Unlike
  <2>2. CASE i \in 1 .. m /\ j \notin 1 .. m
    BY <1>2, <1>4, <1>7, <2>2
  <2>3. CASE i \notin 1 .. m /\ j \in 1 .. m
    BY <1>2, <1>4, <1>7, <2>3
  <2>4. CASE i \notin 1 .. m /\ j \notin 1 .. m
    <3>1. i - m \in 1 .. n /\ j - m \in 1 .. n /\ t[i - m] = t[j - m]
        BY <1>2, <1>4, <2>4
    <3>2. i - m = j - m
        BY <1>1, <3>1 DEF Unlike
    <3>3. QED
        BY <1>1, <3>2
  <2>5. QED
    BY <2>1, <2>2, <2>3, <2>4
<1>9. QED
    BY <1>1, <1>6, <1>8 DEF Unlike, u

(* The command binds each variable once.                                   *)
LEMMA BoundOnce ==
    ASSUME NEW q, IsSeq(q.variables), DrcRequestFits(q)
    PROVE  Unlike(Bound(q)) /\ {"input"} \cup ToSet(q.variables) \subseteq ToSet(Bound(q))
<1>1. PICK E : q.variables \in Seq(E)
    BY DEF IsSeq
<1> DEFINE S == E \cup {"input", "topcell", q.variable}
           a == <<"input">>
           b == IF q.script THEN <<>> ELSE <<q.variable>>
           c == IF q.top = "" THEN <<>> ELSE <<"topcell">>
           v == q.variables
<1> HIDE DEF v
<1>2. v \in Seq(S) /\ \A x \in S : <<x>> \in Seq(S) /\ Unlike(<<x>>) /\ ToSet(<<x>>) = {x}
  <2>1. v \in Seq(S)
    BY <1>1 DEF v
  <2>2. \A x \in S : <<x>> \in Seq(S) /\ DOMAIN <<x>> = {1} /\ <<x>>[1] = x
    OBVIOUS
  <2>3. QED
    BY <2>1, <2>2 DEF Unlike, ToSet
<1>3. <<>> \in Seq(S) /\ Unlike(<<>>) /\ ToSet(<<>>) = {}
    BY DEF Unlike, ToSet
<1>4. /\ a \in Seq(S) /\ Unlike(a) /\ ToSet(a) = {"input"}
      /\ b \in Seq(S) /\ Unlike(b) /\ ToSet(b) \subseteq {q.variable}
      /\ c \in Seq(S) /\ Unlike(c) /\ ToSet(c) \subseteq {"topcell"}
  <2>1. "input" \in S /\ q.variable \in S /\ "topcell" \in S
    OBVIOUS
  <2> HIDE DEF S
  <2>2. a \in Seq(S) /\ Unlike(a) /\ ToSet(a) = {"input"}
    BY <1>2, <2>1
  <2>3. b \in Seq(S) /\ Unlike(b) /\ ToSet(b) \subseteq {q.variable}
    <3>1. b = <<>> \/ b = <<q.variable>>
        OBVIOUS
    <3> HIDE DEF b
    <3>2. QED
        BY <1>2, <1>3, <2>1, <3>1
  <2>4. c \in Seq(S) /\ Unlike(c) /\ ToSet(c) \subseteq {"topcell"}
    <3>1. c = <<>> \/ c = <<"topcell">>
        OBVIOUS
    <3> HIDE DEF c
    <3>2. QED
        BY <1>2, <1>3, <2>1, <3>1
  <2>5. QED
    BY <2>2, <2>3, <2>4
<1>5. q.variable \notin {"input", "topcell"} /\ ToSet(v) \cap {"input", "topcell", q.variable} = {}
    BY DEF DrcRequestFits, Reserved, v
<1>6. Unlike(v)
  <2>1. Unlike([i \in DOMAIN v |-> v[i]])
    BY DEF DrcRequestFits, v
  <2>2. QED
    BY <2>1 DEF Unlike
<1>7. Bound(q) = ((a \o b) \o c) \o v
    BY DEF Bound, v
<1> HIDE DEF S, a, b, c, v
<1>8. a \o b \in Seq(S) /\ Unlike(a \o b) /\ ToSet(a \o b) = ToSet(a) \cup ToSet(b)
  <2>1. ToSet(a) \cap ToSet(b) = {}
    BY <1>4, <1>5
  <2>2. QED
    BY <1>4, <2>1, UnlikeJoined
<1>9. (a \o b) \o c \in Seq(S) /\ Unlike((a \o b) \o c) /\ ToSet((a \o b) \o c) = ToSet(a \o b) \cup ToSet(c)
  <2>1. ToSet(a \o b) \cap ToSet(c) = {}
    BY <1>4, <1>5, <1>8
  <2> DEFINE s == a \o b
  <2>2. s \in Seq(S) /\ Unlike(s) /\ ToSet(s) \cap ToSet(c) = {}
    BY <1>8, <2>1
  <2> HIDE DEF s
  <2>3. s \o c \in Seq(S) /\ Unlike(s \o c) /\ ToSet(s \o c) = ToSet(s) \cup ToSet(c)
    BY <1>4, <2>2, UnlikeJoined
  <2>4. QED
    BY <2>3 DEF s
<1> DEFINE s == (a \o b) \o c
<1>10. s \in Seq(S) /\ Unlike(s) /\ ToSet(s) = ToSet(a) \cup ToSet(b) \cup ToSet(c)
    BY <1>8, <1>9
<1>11. Bound(q) = s \o v
    BY <1>7
<1> HIDE DEF s
<1>12. ToSet(s) \cap ToSet(v) = {}
    BY <1>4, <1>5, <1>10
<1>13. Unlike(s \o v) /\ ToSet(s \o v) = ToSet(s) \cup ToSet(v)
    BY <1>2, <1>6, <1>10, <1>12, UnlikeJoined
<1>14. QED
    BY <1>4, <1>10, <1>11, <1>13 DEF v

(* A database as its text gives it: sequences of sections, categories,     *)
(* cells and items, and each shape of an item has so many corners.         *)
DatabaseFile(r) ==
    /\ IsSeq(r.root)
    /\ \A i \in DOMAIN r.root :
          /\ r.root[i].is \in {"categories", "cells", "items"} => IsSeq(r.root[i].holds)
          /\ r.root[i].is = "items" => \A k \in DOMAIN r.root[i].holds : Shapes(r.root[i].holds[k].shapes)

(* The one section of a kind.                                              *)
LEMMA TheOnly ==
    ASSUME NEW r, IsSeq(r.root), NEW kind, Once(r, kind)
    PROVE  \E i \in DOMAIN r.root : /\ r.root[i].is = kind /\ The(r, kind) = r.root[i]
                                    /\ \A j \in DOMAIN r.root : r.root[j].is = kind => j = i
<1> DEFINE T == Sections(r, kind)
<1>1. PICK E : r.root \in Seq(E)
    BY DEF IsSeq
<1>2. IsFiniteSet(DOMAIN r.root)
    BY <1>1, FS_Interval
<1>3. T \in SUBSET DOMAIN r.root /\ \A i \in DOMAIN r.root : i \in T <=> r.root[i].is = kind
    BY DEF Sections
<1>4. Cardinality(T) = 1 /\ The(r, kind) = r.root[CHOOSE i \in T : TRUE]
    BY DEF Once, The
<1> HIDE DEF T
<1>5. IsFiniteSet(T)
    BY <1>2, <1>3, FS_Subset
<1>6. PICK i : T = {i}
    BY <1>4, <1>5, FS_Singleton
<1>7. (CHOOSE j \in T : TRUE) = i /\ i \in T
    BY <1>6
<1>8. QED
    BY <1>3, <1>4, <1>6, <1>7

(* No marker is lost in the count, and what is waived is counted.          *)
LEMMA MarkersAreCounted ==
    ASSUME Limits, NEW items, IsSeq(items), \A i \in DOMAIN items : items[i].count[1] \in 1 .. MaxMarkers
    PROVE  /\ (Markers(items) = 0) <=> items = <<>>
           /\ Total(Waives(items)) <= Markers(items) /\ \A i \in DOMAIN items : items[i].count[1] <= Markers(items)
<1> DEFINE n == Len(items)
           s == Counts(items)
           t == Waives(items)
<1>1. n \in Nat /\ DOMAIN items = 1 .. n /\ (items = <<>> <=> n = 0)
  <2>1. PICK E : items \in Seq(E)
    BY DEF IsSeq
  <2>2. QED
    BY <2>1
<1>2. \A i \in 1 .. n : items[i].count[1] \in Nat /\ items[i].count[1] > 0
    BY <1>1 DEF Limits
<1>3. s = [i \in 1 .. n |-> items[i].count[1]]
      /\ t = [i \in 1 .. n |-> IF "waived" \in ToSet(items[i].tags[1]) THEN items[i].count[1] ELSE 0]
    BY <1>1 DEF Counts, Waives
<1>4. Markers(items) = Total(s)
    BY DEF Markers
<1> HIDE DEF n, s, t
<1>5. s \in Seq(Nat) /\ Len(s) = n /\ DOMAIN s = 1 .. n /\ \A i \in 1 .. n : s[i] = items[i].count[1]
  <2>1. s \in [1 .. n -> Nat]
    BY <1>2, <1>3
  <2>2. QED
    BY <1>1, <1>3, <2>1
<1>6. t \in Seq(Nat) /\ Len(t) = n /\ DOMAIN t = 1 .. n /\ \A i \in 1 .. n : t[i] <= s[i]
  <2>1. \A i \in 1 .. n : t[i] \in Nat /\ t[i] <= s[i]
    BY <1>2, <1>3, <1>5
  <2>2. t \in [1 .. n -> Nat]
    BY <1>3, <2>1
  <2>3. QED
    BY <1>1, <1>3, <2>1, <2>2
<1>7. Total(s) \in Nat /\ (\A i \in DOMAIN s : s[i] <= Total(s)) /\ (s = <<>> => Total(s) = 0)
    BY <1>5, TotalCovers
<1>8. Total(t) <= Total(s)
    BY <1>5, <1>6, TotalsInOrder
<1>9. Total(s) = 0 <=> n = 0
  <2>1. CASE n = 0
    BY <1>5, <1>7, <2>1
  <2>2. CASE n # 0
    <3>1. 1 \in 1 .. n
        BY <1>1, <2>2
    <3>2. s[1] > 0 /\ s[1] <= Total(s) /\ s[1] \in Nat
        BY <1>2, <1>5, <1>7, <3>1
    <3>3. QED
        BY <1>7, <2>2, <3>2
  <2>3. QED
    BY <2>1, <2>2
<1>10. \A i \in 1 .. n : items[i].count[1] <= Total(s)
    BY <1>5, <1>7
<1>11. QED
    BY <1>1, <1>4, <1>8, <1>9, <1>10 DEF t

(* Two lists, one after the other, and the inputs that are declared.       *)
LEMMA Joined ==
    ASSUME NEW S, NEW s \in Seq(S), NEW t \in Seq(S)
    PROVE  \A i \in 1 .. Len(s) : i \in DOMAIN (s \o t) /\ (s \o t)[i] = s[i]
<1> DEFINE m == Len(s)
           n == Len(t)
           u == s \o t
<1>1. m \in Nat /\ n \in Nat /\ DOMAIN u = 1 .. m + n /\ \A i \in 1 .. m : u[i] = s[i]
    OBVIOUS
<1> HIDE DEF m, n, u
<1>2. \A i \in 1 .. m : i \in DOMAIN u /\ u[i] = s[i]
    BY <1>1
<1>3. QED
    BY <1>2 DEF m, u

LEMMA DeclaredBoth ==
    ASSUME NEW q, IsSeq(q.provenance)
    PROVE  q.gds \in ToSet(DeclaredInputs(q)) /\ q.deck \in ToSet(DeclaredInputs(q))
<1> DEFINE a == <<q.gds, q.deck>>
           s == a \o q.provenance
<1>1. PICK E : q.provenance \in Seq(E)
    BY DEF IsSeq
<1> DEFINE S == E \cup {q.gds, q.deck}
<1>2. a \in Seq(S) /\ q.provenance \in Seq(S) /\ Len(a) = 2 /\ a[1] = q.gds /\ a[2] = q.deck
    BY <1>1
<1> HIDE DEF a, S
<1>3. 1 \in DOMAIN s /\ 2 \in DOMAIN s /\ s[1] = q.gds /\ s[2] = q.deck
  <2>1. \A i \in 1 .. Len(a) : i \in DOMAIN (a \o q.provenance) /\ (a \o q.provenance)[i] = a[i]
    BY <1>2, Joined
  <2> HIDE DEF s
  <2>2. s = a \o q.provenance
    BY DEF s
  <2>3. \A i \in 1 .. 2 : i \in DOMAIN s /\ s[i] = a[i]
    BY <1>2, <2>1, <2>2
  <2>4. QED
    BY <1>2, <2>3
<1>4. DeclaredInputs(q) = s
    BY DEF DeclaredInputs, a
<1> HIDE DEF s
<1>5. QED
    BY <1>3, <1>4 DEF ToSet

(* A rule check is clean only without a marker; each marker is counted, in *)
(* a category and a cell of one meaning, of this deck over this cell, the  *)
(* waivers are those declared, each variable is bound once and the shapes  *)
(* that are drawn stay within their budget (KLayoutDriver.drc).            *)
THEOREM RuleChecksAreStated ==
    ASSUME Limits, NEW d, DatabaseFile(d.report), IsSeq(d.request.variables),
           IsSeq(d.request.provenance), d.request.found \in {"nothing", "waivers"}
    PROVE  DrcIsStated(d)
<1> DEFINE verdict    == Drc(d)
           r          == d.report
           items      == Items(d.report)
           categories == The(d.report, "categories").holds
           cells      == The(d.report, "cells").holds
           sound      == d.exit = 0 /\ d.waivers = d.request.found /\ DatabaseFits(d.report, d.request.deck, d.request.top)
<1>1. verdict = CASE ~DrcRequestFits(d.request) -> "refused"
                  [] DrcRequestFits(d.request) /\ sound -> IF Markers(items) = 0 THEN "pass" ELSE "fail"
                  [] OTHER -> "unknown"
    BY DEF Drc
<1> HIDE DEF verdict, sound
<1>2. /\ verdict # "refused" => DrcRequestFits(d.request)
      /\ verdict \in {"pass", "fail"} => DrcRequestFits(d.request) /\ sound /\ (verdict = "pass" <=> Markers(items) = 0)
  <2> HIDE DEF items
  <2>1. CASE ~DrcRequestFits(d.request)
    BY <1>1, <2>1
  <2>2. CASE DrcRequestFits(d.request) /\ sound
    BY <1>1, <2>2
  <2>3. CASE DrcRequestFits(d.request) /\ ~sound
    BY <1>1, <2>3
  <2>4. QED
    BY <2>1, <2>2, <2>3
<1>3. ASSUME verdict # "refused"
      PROVE  /\ Unlike(Bound(d.request)) /\ {"input"} \cup ToSet(d.request.variables) \subseteq ToSet(Bound(d.request))
             /\ d.request.report \notin {d.request.gds, d.request.deck}
  <2>1. DrcRequestFits(d.request)
    BY <1>2, <1>3
  <2>2. d.request.report \notin ToSet(DeclaredInputs(d.request))
    BY <2>1 DEF DrcRequestFits
  <2>3. Unlike(DeclaredInputs(d.request))
    BY <2>1 DEF DrcRequestFits
  <2>4. d.request.gds \in ToSet(DeclaredInputs(d.request)) /\ d.request.deck \in ToSet(DeclaredInputs(d.request))
    BY DeclaredBoth
  <2>5. QED
    BY <2>1, <2>2, <2>4, BoundOnce
<1> SUFFICES ASSUME verdict \in {"pass", "fail"}
             PROVE  /\ d.waivers = (IF d.request.waiver = "" THEN "nothing" ELSE "waivers") /\ Paths(categories) # {}
                    /\ \A i \in DOMAIN d.report.root : d.report.root[i].is = "generator" => d.report.root[i].says = d.request.deck
                    /\ d.request.top \in {"", The(d.report, "top-cell").says}
                    /\ \A i \in DOMAIN items :
                           /\ items[i].count[1] > 0 /\ Cardinality(Meanings(categories, items[i].category[1])) = 1
                           /\ Cardinality({c \in DOMAIN cells : Identity(cells[c]) = items[i].cell[1]}) = 1
                    /\ (verdict = "pass") = (items = <<>>)
                    /\ Total(Waives(items)) <= Markers(items) /\ \A i \in DOMAIN items : items[i].count[1] <= Markers(items)
                    /\ Drawn(items).pairs <= MaxPairs + 1 /\ Drawn(items).kept <= MaxGeometries
                    /\ \A i \in DOMAIN items : MineOf(items, i) <= PerMarker
    BY <1>3 DEF DrcIsStated, verdict
<1>4. /\ \A kind \in {"generator", "top-cell", "categories", "cells", "items"} : Once(r, kind)
      /\ CellsFit(cells) /\ ItemsFit(r) /\ categories # <<>> /\ The(r, "generator").says = d.request.deck
      /\ d.request.top # "" => The(r, "top-cell").says = d.request.top
      /\ d.waivers = d.request.found /\ DrcRequestFits(d.request)
    BY <1>2 DEF sound, DatabaseFits
<1>5. IsSeq(r.root)
    BY DEF DatabaseFile
<1>6. IsSeq(items) /\ IsSeq(categories) /\ IsSeq(cells) /\ \A i \in DOMAIN items : Shapes(items[i].shapes)
  <2>1. IsSeq(categories)
    <3>1. \E i \in DOMAIN r.root : /\ r.root[i].is = "categories" /\ The(r, "categories") = r.root[i]
                                   /\ \A j \in DOMAIN r.root : r.root[j].is = "categories" => j = i
        BY <1>4, <1>5, TheOnly
    <3>2. QED
        BY <3>1 DEF DatabaseFile
  <2>2. IsSeq(cells)
    <3>1. \E i \in DOMAIN r.root : /\ r.root[i].is = "cells" /\ The(r, "cells") = r.root[i]
                                   /\ \A j \in DOMAIN r.root : r.root[j].is = "cells" => j = i
        BY <1>4, <1>5, TheOnly
    <3>2. QED
        BY <3>1 DEF DatabaseFile
  <2>3. PICK i \in DOMAIN r.root : r.root[i].is = "items" /\ The(r, "items") = r.root[i]
    <3>1. \E i \in DOMAIN r.root : /\ r.root[i].is = "items" /\ The(r, "items") = r.root[i]
                                   /\ \A j \in DOMAIN r.root : r.root[j].is = "items" => j = i
        BY <1>4, <1>5, TheOnly
    <3>2. QED
        BY <3>1
  <2>4. items = r.root[i].holds
    BY <2>3 DEF Items
  <2>5. QED
    BY <2>1, <2>2, <2>3, <2>4 DEF DatabaseFile
<1>7. \A i \in DOMAIN r.root : r.root[i].is = "generator" => r.root[i].says = d.request.deck
  <2>1. \E i \in DOMAIN r.root : /\ r.root[i].is = "generator" /\ The(r, "generator") = r.root[i]
                                 /\ \A j \in DOMAIN r.root : r.root[j].is = "generator" => j = i
    BY <1>4, <1>5, TheOnly
  <2>2. QED
    BY <1>4, <2>1
<1>8. d.waivers = IF d.request.waiver = "" THEN "nothing" ELSE "waivers"
    BY <1>4 DEF DrcRequestFits
<1>9. Paths(categories) # {}
  <2> HIDE DEF categories
  <2>1. PICK E : categories \in Seq(E)
    BY <1>6 DEF IsSeq
  <2>2. Len(categories) \in Nat /\ DOMAIN categories = 1 .. Len(categories) /\ (categories = <<>> <=> Len(categories) = 0)
    BY <2>1
  <2> DEFINE n == Len(categories)
  <2>3. n \in Nat /\ n # 0 /\ DOMAIN categories = 1 .. n
    BY <1>4, <2>2
  <2> HIDE DEF n
  <2>4. 1 \in 1 .. n
    BY <2>3
  <2>5. 1 \in DOMAIN categories
    BY <2>3, <2>4
  <2>6. QED
    BY <2>5 DEF Paths
<1>10. \A i \in DOMAIN items : ItemFits(items[i], categories, cells)
    BY <1>4 DEF ItemsFit
<1> HIDE DEF items, categories, cells
<1>11. ASSUME NEW i \in DOMAIN items
       PROVE  /\ items[i].count[1] \in 1 .. MaxMarkers /\ items[i].count[1] > 0
              /\ Cardinality(Meanings(categories, items[i].category[1])) = 1
              /\ Cardinality({c \in DOMAIN cells : Identity(cells[c]) = items[i].cell[1]}) = 1
  <2>1. ItemFits(items[i], categories, cells)
    BY <1>10
  <2>2. items[i].count[1] \in 1 .. MaxMarkers /\ Cardinality(Meanings(categories, items[i].category[1])) = 1
    BY <2>1 DEF ItemFits
  <2>3. items[i].count[1] > 0
    BY <2>2 DEF Limits
  <2>4. PICK c \in DOMAIN cells : items[i].cell[1] = Identity(cells[c])
    BY <2>1 DEF ItemFits
  <2>5. Unlike([k \in DOMAIN cells |-> Identity(cells[k])])
    BY <1>4 DEF CellsFit
  <2>6. \A k \in DOMAIN cells : Identity(cells[k]) = Identity(cells[c]) => k = c
    BY <2>5 DEF Unlike
  <2>7. {k \in DOMAIN cells : Identity(cells[k]) = items[i].cell[1]} = {c}
    BY <2>4, <2>6
  <2>8. QED
    BY <2>2, <2>3, <2>7, FS_Singleton
<1>12. /\ (Markers(items) = 0) <=> items = <<>>
       /\ Total(Waives(items)) <= Markers(items) /\ \A i \in DOMAIN items : items[i].count[1] <= Markers(items)
    BY <1>6, <1>11, MarkersAreCounted
<1>13. (verdict = "pass") = (items = <<>>)
    BY <1>2, <1>12
<1>14. Drawn(items).pairs <= MaxPairs + 1 /\ Drawn(items).kept <= MaxGeometries
    BY <1>6, AllDrawsWithin DEF Drawings, Within
<1>15. ASSUME NEW i \in DOMAIN items PROVE MineOf(items, i) <= PerMarker
  <2> DEFINE part == SubSeq(items, 1, i)
  <2>1. IsSeq(part) /\ \A k \in DOMAIN part : k \in DOMAIN items /\ part[k] = items[k]
    <3>1. PICK E : items \in Seq(E)
        BY <1>6 DEF IsSeq
    <3>2. i \in 1 .. Len(items) /\ DOMAIN items = 1 .. Len(items)
        BY <3>1
    <3>3. part \in Seq(E) /\ DOMAIN part = 1 .. i /\ \A k \in 1 .. i : part[k] = items[k]
        BY <3>1, <3>2
    <3> HIDE DEF part
    <3>4. IsSeq(part)
        BY <3>3 DEF IsSeq
    <3>5. \A k \in DOMAIN part : k \in DOMAIN items /\ part[k] = items[k]
        BY <3>2, <3>3
    <3>6. QED
        BY <3>4, <3>5
  <2> HIDE DEF part
  <2>2. \A k \in DOMAIN part : Shapes(part[k].shapes)
    BY <1>6, <2>1
  <2>3. Drawn(part) \in Drawings
    BY <2>1, <2>2, AllDrawsWithin
  <2>4. Drawn(part).mine <= PerMarker
    BY <2>3 DEF Drawings, Within
  <2>5. QED
    BY <2>4 DEF MineOf, part
<1>16. d.request.top \in {"", The(r, "top-cell").says}
    BY <1>4
<1>17. QED
    BY <1>7, <1>8, <1>9, <1>11, <1>12, <1>13, <1>14, <1>15, <1>16
=============================================================================
