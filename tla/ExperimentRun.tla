---------------------------- MODULE ExperimentRun ----------------------------
(***************************************************************************)
(* Calls of run_experiment (src/src/openada/operations/experiment.py) that *)
(* are given one output directory: check that it is empty, write the       *)
(* specification, run every analysis with its extraction and measurements, *)
(* derive, judge the set of children, audit what was retained, write the   *)
(* log, audit again, and report.  An outsider edits files; a call may be   *)
(* killed or meet an error wherever it touches the directory.              *)
(*                                                                         *)
(* The digest of a file is its number of writes and edits: no edit         *)
(* restores earlier bytes.  A child envelope is the set of the code's      *)
(* tests that it would pass.  Analyses, measurements, derivations and      *)
(* audited files are taken in some fixed order: the code takes the         *)
(* specification's, and that of the sorted paths.                          *)
(***************************************************************************)
EXTENDS Naturals, FiniteSets

CONSTANTS
    Calls,         \* calls that share the output directory
    Analyses,      \* prepared.runs, by their identifiers
    Observed,      \* the analyses that have observations
    Measurements,
    AnalysisOf,    \* the analysis of each measurement
    Derivations,
    ParentsOf,     \* the two measurements each derivation subtracts
    None,          \* no file, analysis or measurement; stands for the whole run
    MaxEdits,      \* bound: edits by the outsider
    MaxFlaws       \* bound: tests a simulate envelope fails, but for refusals

ASSUME ExperimentAssumption ==
    /\ Observed \subseteq Analyses
    /\ AnalysisOf \in [Measurements -> Analyses]
    /\ ParentsOf \in [Derivations -> SUBSET Measurements]
    /\ MaxEdits \in Nat /\ MaxFlaws \in Nat

(***************************************************************************)
(* What the code asks of a simulate envelope (wellFormed: its identity and *)
(* its structure; passed: both statuses; bound: it names the validated     *)
(* deck; raw: one result; vectors: it has every observation), and of the   *)
(* others (complete: what both the loop and the final judgement ask; fits: *)
(* what only the loop asks: profile, identifier, value and unit).          *)
(***************************************************************************)
SimFacts   == {"wellFormed", "passed", "bound", "raw", "vectors"}
ChildFacts == {"complete", "fits"}

(* The files of a run; those in Captured are compared with what was put.   *)
Captured == {"selection", "extract", "request", "result", "derived"}
Files == ({"spec", "base", "log"} \X {None})
         \cup ({"deck", "bound", "raw", "sim", "selection", "extract"} \X Analyses)
         \cup ({"request", "result"} \X Measurements)
         \cup ({"derived"} \X Derivations)

(* The children whose states decide, and the tests each of them is put to. *)
Children == ({"simulate", "analysis"} \X Analyses) \cup ({"extract"} \X Observed)
            \cup ({"measure"} \X Measurements) \cup ({"derivation"} \X Derivations)
Asked(k) == IF k[1] = "simulate" THEN {"wellFormed", "passed", "retained", "raw"}
                                 ELSE {"complete"}
Facts == SimFacts \cup ChildFacts \cup {"retained"}

VARIABLES
    disk,      \* digest of each file, 0 if absent
    edits,     \* number of edits so far
    pc,        \* where each call is
    todo,      \* simulations, measurements and derivations not yet begun
    current,   \* current[c]: the analysis and the measurement under way
    writing,   \* the file c has put and not yet recorded
    records,   \* artifacts and retained_child_records: files with digests
    deckRead,  \* digest of the deck that each analysis's simulator read
    returned,  \* the envelope that each analysis's simulate returned
    manifest,  \* manifest[c]: what the run manifest holds of each child
    unaudited, \* files the running audit has still to look at
    status,    \* manifest["status"]
    stood      \* every record was true when the final audit began

progress == <<pc, todo, current>>
children == <<deckRead, returned, manifest>>
judged   == <<unaudited, status, stood>>
vars     == <<disk, edits, progress, writing, records, children, judged>>

Ended(c) == pc[c] \in {"refused", "returned", "broken"}

NoEnvelope == [holds |-> {}, names |-> {}]

Init ==
    /\ disk = [f \in Files |-> 0] /\ edits = 0
    /\ pc = [c \in Calls |-> "check"]
    /\ todo = [c \in Calls |-> {k \in Children : k[1] \in {"simulate", "measure", "derivation"}}]
    /\ current = [c \in Calls |-> <<None, None>>]
    /\ writing = [c \in Calls |-> None]
    /\ records = [c \in Calls |-> {}]
    /\ deckRead = [c \in Calls |-> [a \in Analyses |-> 0]]
    /\ returned = [c \in Calls |-> [a \in Analyses |-> NoEnvelope]]
    /\ manifest = [c \in Calls |-> [k \in Children |-> {}]]
    /\ unaudited = [c \in Calls |-> {}]
    /\ status = [c \in Calls |-> "running"]
    /\ stood = [c \in Calls |-> FALSE]

Goto(c, next)     == pc' = [pc EXCEPT ![c] = next]
At(c, stage)      == pc[c] = stage /\ writing[c] = None
Retain(c, rs)     == records' = [records EXCEPT ![c] = @ \cup rs]
Note(c, k, facts) == manifest' = [manifest EXCEPT ![c][k] = facts]
Analysis(c)       == current[c][1]
Left(c, kind)     == {k \in todo[c] : k[1] = kind}
First(S)          == CHOOSE x \in S : TRUE

-----------------------------------------------------------------------------
(* Files.                                                                  *)

PutOver(c, f, next) ==   \* mutation: opened with "wb"
    /\ disk' = [disk EXCEPT ![f] = @ + 1]
    /\ writing' = [writing EXCEPT ![c] = f]
    /\ Goto(c, next)

(* _write_bytes creates the file exclusively.  It fails if there is one.   *)
Put(c, f, next) ==
    /\ disk[f] = 0
    /\ disk' = [disk EXCEPT ![f] = 1]
    /\ writing' = [writing EXCEPT ![c] = f]
    /\ Goto(c, next)

(***************************************************************************)
(* file_record reads the file back.  _write_json and _write_captured_json  *)
(* compare it with what was put; _write_bytes by itself does not.          *)
(***************************************************************************)
Record(c) ==
    /\ writing[c] # None /\ ~Ended(c)
    /\ writing[c][1] \in Captured => disk[writing[c]] = 1
    /\ Retain(c, {<<writing[c], disk[writing[c]]>>})
    /\ writing' = [writing EXCEPT ![c] = None]
    /\ UNCHANGED <<disk, edits, progress, children, judged>>

(***************************************************************************)
(* An exception of a file operation, or a kill.  Nothing is cleaned up in  *)
(* the directory; what the call held of its children is lost with it.      *)
(***************************************************************************)
Break(c) ==
    /\ ~Ended(c)
    /\ Goto(c, "broken")
    /\ manifest' = [manifest EXCEPT ![c] = [k \in Children |-> {}]]
    /\ returned' = [returned EXCEPT ![c] = [a \in Analyses |-> NoEnvelope]]
    /\ deckRead' = [deckRead EXCEPT ![c] = [a \in Analyses |-> 0]]
    /\ UNCHANGED <<disk, edits, todo, current, writing, records, judged>>

(* The output directory must be absent or empty.                           *)
Check(c) ==
    /\ pc[c] = "check"
    /\ Goto(c, IF \A f \in Files : disk[f] = 0 THEN "spec" ELSE "refused")
    /\ UNCHANGED <<disk, edits, todo, current, writing, records, children, judged>>

PutInputs(c) ==
    /\ \/ At(c, "spec") /\ Put(c, <<"spec", None>>, "base")
       \/ At(c, "base") /\ Put(c, <<"base", None>>, "run")
    /\ UNCHANGED <<edits, todo, current, records, children, judged>>

-----------------------------------------------------------------------------
(* One analysis: prepared.runs.                                            *)

(* The analysis directory is made and its portable deck is written.        *)
Begin(c) ==
    LET k == First(Left(c, "simulate")) IN
    /\ At(c, "run") /\ Left(c, "simulate") # {}
    /\ todo' = [todo EXCEPT ![c] = @ \ {k}]
    /\ current' = [current EXCEPT ![c] = <<k[2], None>>]
    /\ Put(c, <<"deck", k[2]>>, "simulate")
    /\ UNCHANGED <<edits, records, children, judged>>

(* simulate reads the deck, binds it to the PDK and runs the simulator.    *)
Simulate(c) ==
    /\ At(c, "simulate")
    /\ deckRead' = [deckRead EXCEPT ![c][Analysis(c)] = disk[<<"deck", Analysis(c)>>]]
    /\ Goto(c, "simulating")
    /\ UNCHANGED <<disk, edits, todo, current, writing, records, returned, manifest, judged>>

CitedEarly(f) == disk[f]   \* mutation: the record is made before the file
Cited(f)      == disk'[f]

(***************************************************************************)
(* It returns an envelope, and retains it if it can: what holds of it, and *)
(* the files it names.  A refusal is well formed and no more, and is not   *)
(* retained.  Only the deck that was validated has the bound digest that   *)
(* was computed beforehand.                                                *)
(***************************************************************************)
Simulated(c) ==
    LET a == Analysis(c) IN
    /\ pc[c] = "simulating"
    /\ \E kept \in SUBSET {"bound", "raw", "sim"}, facts \in SUBSET SimFacts :
         /\ disk' = [f \in Files |-> disk[f] + IF f \in kept \X {a} THEN 1 ELSE 0]
         /\ \/ facts = {"wellFormed"} /\ kept \subseteq {"bound"}
            \/ /\ Cardinality(SimFacts \ facts) <= MaxFlaws
               /\ "bound" \in kept /\ ("raw" \in facts => "raw" \in kept)
         /\ "bound" \in facts => deckRead[c][a] = 1
         /\ returned' = [returned EXCEPT ![c][a] =
              [holds |-> facts,
               names |-> {<<f, Cited(f)>> : f \in ({"deck"} \cup (kept \ {"sim"})) \X {a}}]]
    /\ Goto(c, "capture")
    /\ UNCHANGED <<edits, todo, current, writing, records, deckRead, manifest, judged>>

(* The child's entry is what it is; its analysis fails.                    *)
Abandon(c) == Goto(c, "run")

(***************************************************************************)
(* _capture_retained_json, and whether it is what was returned.  There may *)
(* be nothing to capture.  An envelope that was edited may say anything;   *)
(* what files it names does not matter any more.                           *)
(***************************************************************************)
Capture(c) ==
    LET a == Analysis(c)  k == <<"simulate", a>>
        seen == disk[<<"sim", a>>]  said == returned[c][a].holds IN
    /\ pc[c] = "capture"
    /\ \/ /\ Note(c, k, said \cap {"passed"})
          /\ Abandon(c) /\ UNCHANGED records
       \/ /\ seen = 1
          /\ Retain(c, returned[c][a].names \cup {<<<<"sim", a>>, seen>>})
          /\ Note(c, k, (said \cap {"wellFormed", "passed"}) \cup {"retained"})
          /\ IF "wellFormed" \in said THEN Goto(c, "inspect") ELSE Abandon(c)
       \/ /\ seen > 1
          /\ Retain(c, {<<<<"sim", a>>, seen>>})
          /\ \E facts \in SUBSET {"wellFormed", "passed"} :
               Note(c, k, facts \cup {"retained"})
          /\ Abandon(c)
    /\ UNCHANGED <<disk, edits, todo, current, writing, deckRead, returned, judged>>

UnboundUsable(c) ==   \* mutation: the bound deck is not asked for
    {"passed", "raw"} \subseteq returned[c][Analysis(c)].holds

(* A file that the envelope names is still what it was.                    *)
Untouched(c, kind) ==
    LET f == <<kind, Analysis(c)>> IN <<f, disk[f]>> \in returned[c][Analysis(c)].names

(***************************************************************************)
(* The envelope names the bound deck that was validated, that file still   *)
(* has its digest, the simulation passed, and there is one result.         *)
(***************************************************************************)
Usable(c) ==
    /\ {"bound", "passed", "raw"} \subseteq returned[c][Analysis(c)].holds
    /\ Untouched(c, "bound")

(* _raw_vector_names looks at the file: an edited one may have any names.  *)
Inspect(c) ==
    LET a == Analysis(c)  k == <<"simulate", a>>
        named == manifest[c][k] \cup {"raw"} IN
    /\ pc[c] = "inspect"
    /\ \/ ~Usable(c) /\ Abandon(c) /\ UNCHANGED manifest
       \/ /\ Usable(c) /\ Note(c, k, named) /\ Abandon(c)
          /\ "vectors" \notin returned[c][a].holds \/ ~Untouched(c, "raw")
       \/ /\ Usable(c)
          /\ "vectors" \in returned[c][a].holds \/ ~Untouched(c, "raw")
          /\ IF a \in Observed
             THEN Note(c, k, named) /\ Goto(c, "select")
             ELSE /\ manifest' = [manifest EXCEPT ![c][k] = named,
                                    ![c][<<"analysis", a>>] = {"complete"}]
                  /\ Goto(c, "run")
    /\ UNCHANGED <<disk, edits, todo, current, writing, records, deckRead, returned, judged>>

-----------------------------------------------------------------------------
(* Its extraction and its measurements.                                    *)

Select(c) ==
    /\ At(c, "select")
    /\ Put(c, <<"selection", Analysis(c)>>, "extract")
    /\ UNCHANGED <<edits, todo, current, records, children, judged>>

(* extract_result_series must read the raw file that the envelope names.   *)
Extract(c) ==
    LET a == Analysis(c) IN
    /\ At(c, "extract")
    /\ \E facts \in SUBSET ChildFacts :
         /\ "complete" \in facts => Untouched(c, "raw")
         /\ Note(c, <<"extract", a>>, facts)
    /\ Put(c, <<"extract", a>>, "extracted")
    /\ UNCHANGED <<edits, todo, current, records, deckRead, returned, judged>>

Extracted(c) ==
    /\ At(c, "extracted")
    /\ IF manifest[c][<<"extract", Analysis(c)>>] = ChildFacts
       THEN Goto(c, "measure") ELSE Abandon(c)
    /\ UNCHANGED <<disk, edits, todo, current, writing, records, children, judged>>

Due(c) == {k \in Left(c, "measure") : AnalysisOf[k[2]] = Analysis(c)}

Request(c) ==
    LET k == First(Due(c)) IN
    /\ At(c, "measure") /\ Due(c) # {}
    /\ todo' = [todo EXCEPT ![c] = @ \ {k}]
    /\ current' = [current EXCEPT ![c][2] = k[2]]
    /\ Put(c, <<"request", k[2]>>, "measuring")
    /\ UNCHANGED <<edits, records, children, judged>>

Measure(c) ==
    LET m == current[c][2] IN
    /\ At(c, "measuring")
    /\ \E facts \in SUBSET ChildFacts : Note(c, <<"measure", m>>, facts)
    /\ Put(c, <<"result", m>>, "measure")
    /\ UNCHANGED <<edits, todo, current, records, deckRead, returned, judged>>

(* The analysis passes if every measurement it had did.                    *)
Measured(c) ==
    LET a == Analysis(c) IN
    /\ At(c, "measure") /\ Due(c) = {}
    /\ Note(c, <<"analysis", a>>,
            IF \A m \in Measurements : AnalysisOf[m] = a =>
                 manifest[c][<<"measure", m>>] = ChildFacts
            THEN {"complete"} ELSE {})
    /\ Goto(c, "run")
    /\ UNCHANGED <<disk, edits, todo, current, writing, records, deckRead, returned, judged>>

-----------------------------------------------------------------------------
(* The derivations, the judgement and the two audits.                      *)

NoneLeft(c) == At(c, "run") /\ Left(c, "simulate") = {}

(***************************************************************************)
(* _derivation_parent_binding wants of a measurement all that made it      *)
(* pass, and its lineage.                                                  *)
(***************************************************************************)
Binds(c, m) == manifest[c][<<"measure", m>>] = ChildFacts

(* Both parents bind, have one unit, and their difference is finite.       *)
Derive(c) ==
    LET k == First(Left(c, "derivation")) IN
    /\ NoneLeft(c) /\ Left(c, "derivation") # {}
    /\ todo' = [todo EXCEPT ![c] = @ \ {k}]
    /\ \/ /\ \A m \in ParentsOf[k[2]] : Binds(c, m)
          /\ Note(c, k, {"complete"})
          /\ Put(c, <<"derived", k[2]>>, "run")
       \/ UNCHANGED <<disk, pc, writing, manifest>>
    /\ UNCHANGED <<edits, current, records, deckRead, returned, judged>>

SomeChildrenPass(c) ==   \* mutation: the analyses' own states are not asked
    \A k \in Children : k[1] # "analysis" => Asked(k) \subseteq manifest[c][k]

(* _complete_child_states: the whole set of children decides.              *)
ChildrenPass(c) == \A k \in Children : Asked(k) \subseteq manifest[c][k]

Retained(c) == {r[1] : r \in records[c]}
Conflict(c) == \E r, s \in records[c] : r[1] = s[1] /\ r[2] # s[2]
Stands(c)   == \A r \in records[c] : disk[r[1]] = r[2]

Judge(c) ==
    /\ NoneLeft(c) /\ Left(c, "derivation") = {}
    /\ status' = [status EXCEPT ![c] =
                    IF ChildrenPass(c) /\ ~Conflict(c) THEN "pass" ELSE "fail"]
    /\ unaudited' = [unaudited EXCEPT ![c] = Retained(c)]
    /\ Goto(c, "audit")
    /\ UNCHANGED <<disk, edits, todo, current, writing, records, children, stood>>

AuditOnce(c) ==   \* mutation: the second audit decides nothing
    LET f == First(unaudited[c]) IN
    /\ pc[c] \in {"audit", "final"} /\ writing[c] = None
    /\ unaudited[c] # {}
    /\ unaudited' = [unaudited EXCEPT ![c] = @ \ {f}]
    /\ status' = [status EXCEPT ![c] =
         IF pc[c] = "final" \/ <<f, disk[f]>> \in records[c] THEN @ ELSE "fail"]
    /\ UNCHANGED <<disk, edits, progress, writing, records, children, stood>>

(* _audit_retained_files binds every retained path again, one at a time.   *)
Audit(c) ==
    LET f == First(unaudited[c]) IN
    /\ pc[c] \in {"audit", "final"} /\ writing[c] = None
    /\ unaudited[c] # {}
    /\ unaudited' = [unaudited EXCEPT ![c] = @ \ {f}]
    /\ status' = [status EXCEPT ![c] =
         IF <<f, disk[f]>> \in records[c] THEN @ ELSE "fail"]
    /\ UNCHANGED <<disk, edits, progress, writing, records, children, stood>>

PutLog(c) ==
    /\ At(c, "audit") /\ unaudited[c] = {}
    /\ Put(c, <<"log", None>>, "log")
    /\ UNCHANGED <<edits, todo, current, records, children, judged>>

AuditAgain(c) ==
    /\ At(c, "log")
    /\ unaudited' = [unaudited EXCEPT ![c] = Retained(c)]
    /\ status' = [status EXCEPT ![c] = IF Conflict(c) THEN "fail" ELSE @]
    /\ stood' = [stood EXCEPT ![c] = Stands(c)]
    /\ Goto(c, "final")
    /\ UNCHANGED <<disk, edits, todo, current, writing, records, children>>

(* The manifest is written, whatever its status, and the call returns.     *)
Report(c) ==
    /\ At(c, "final") /\ unaudited[c] = {}
    /\ Goto(c, "returned")
    /\ UNCHANGED <<disk, edits, todo, current, writing, records, children, judged>>

Step(c) ==
    \/ Check(c) \/ PutInputs(c) \/ Record(c) \/ Begin(c)
    \/ Simulate(c) \/ Simulated(c) \/ Capture(c) \/ Inspect(c)
    \/ Select(c) \/ Extract(c) \/ Extracted(c)
    \/ Request(c) \/ Measure(c) \/ Measured(c)
    \/ Derive(c) \/ Judge(c) \/ Audit(c) \/ PutLog(c) \/ AuditAgain(c) \/ Report(c)

Edit ==
    /\ edits < MaxEdits /\ edits' = edits + 1
    /\ \E f \in Files : disk[f] # 0 /\ disk' = [disk EXCEPT ![f] = @ + 1]
    /\ UNCHANGED <<progress, writing, records, children, judged>>

AllEnded == (\A c \in Calls : Ended(c)) /\ UNCHANGED vars

Next == (\E c \in Calls : Step(c) \/ Break(c)) \/ Edit \/ AllEnded

Spec == Init /\ [][Next]_vars

-----------------------------------------------------------------------------
(* Properties.                                                             *)

(* The types of the directory's and the calls' state.                      *)
TypeOK ==
    /\ disk \in [Files -> Nat] /\ edits \in 0 .. MaxEdits
    /\ todo \in [Calls -> SUBSET Children]
    /\ \A c \in Calls : writing[c] \in Files \cup {None}
    /\ records \in [Calls -> SUBSET (Files \X (Nat \ {0}))]
    /\ manifest \in [Calls -> [Children -> SUBSET Facts]]
    /\ \A c \in Calls : unaudited[c] \subseteq Retained(c)
    /\ status \in [Calls -> {"running", "pass", "fail"}]

Passes(c) == pc[c] = "returned" /\ status[c] = "pass"

(***************************************************************************)
(* A pass is earned by every child: each simulation returned an envelope   *)
(* that passes all the tests, each extraction, measurement and derivation  *)
(* was made and fits, whichever of the tests are made in the loop, in      *)
(* _complete_child_states, or only in the audit of an edited file.         *)
(***************************************************************************)
PassIsEarned ==
    \A c \in Calls : Passes(c) =>
        /\ \A a \in Analyses : returned[c][a].holds = SimFacts
        /\ \A a \in Observed : manifest[c][<<"extract", a>>] = ChildFacts
        /\ \A m \in Measurements : manifest[c][<<"measure", m>>] = ChildFacts
        /\ \A d \in Derivations : "complete" \in manifest[c][<<"derivation", d>>]

(***************************************************************************)
(* The evidence of a pass was true together: though files are recorded and *)
(* audited one at a time while others may change, there was one moment,    *)
(* after the log was written, at which every record was true.              *)
(***************************************************************************)
EvidenceStood == \A c \in Calls : Passes(c) => stood[c]

(***************************************************************************)
(* What was simulated in a passing run is the deck that was validated,     *)
(* whatever happened to the file after it was written.                     *)
(***************************************************************************)
PassedDeckIsValidated ==
    \A c \in Calls : Passes(c) => \A a \in Analyses : deckRead[c][a] = 1

(***************************************************************************)
(* A pass says what it seems to say: every child of it passed every test,  *)
(* and what they were about is the deck that was validated.                *)
(***************************************************************************)
PassIsGenuine == PassIsEarned /\ PassedDeckIsValidated

(***************************************************************************)
(* The evidence in a directory is one call's: of calls that found it empty *)
(* together, or find it after a call that broke, no two retain anything.   *)
(***************************************************************************)
OneRunPerDirectory ==
    \A c, d \in Calls : records[c] # {} /\ records[d] # {} => c = d
=============================================================================
