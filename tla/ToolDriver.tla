----------------------------- MODULE ToolDriver -----------------------------
(***************************************************************************)
(* The drivers of the other native tools: Xyce, Verilator, Icarus, Yosys,  *)
(* OpenSTA, KLayout, Netgen and Xschem. Each is a straight program of a    *)
(* few kinds of step: hash what it was given, look at the executable, ask  *)
(* that its evidence names are free, claim them, run the tool, bring its   *)
(* files to their names, read them, look at the inputs again, judge. The   *)
(* drivers differ in which steps they take and in which order (Steps).     *)
(*                                                                         *)
(* Several calls of one tool share the inputs and the evidence directory.  *)
(* While they run somebody edits an input, replaces the executable, or     *)
(* overwrites an evidence file; an edit is never undone.                   *)
(***************************************************************************)
EXTENDS Naturals, Sequences, FiniteSets

CONSTANTS
    Call,       \* the calls of the tool
    Tool,       \* the operations that this instance covers
    MaxChanges  \* bound on what somebody else changes

(* What each driver does, in the order of its code.                        *)
LintSteps    == <<"record", "scan", "stat", "probe", "fresh",
                  "run", "log", "recheck", "judge">>
TestSteps    == <<"record", "scan", "stat", "probe", "fresh", "claim",
                  "run", "log", "test", "recheck", "judge">>
CheckSteps   == <<"record", "script", "run", "move", "capture", "keep", "judge">>
MapSteps     == <<"record", "scan", "stat", "probe", "fresh", "claim",
                  "run", "copy", "log", "recheck", "capture", "keep", "judge">>
TimingSteps  == <<"record", "pull", "fresh", "stat", "probe", "claim",
                  "run", "copy", "log", "recheck", "capture", "keep", "judge">>
DrcSteps     == <<"record", "pull", "fresh", "settle",
                  "run", "capture", "log", "recheck", "judge">>
LvsSteps     == <<"record", "pull", "fresh",
                  "run", "log", "capture", "captureJson", "recheck", "judge">>
XyceSteps    == <<"record", "run", "moveLog", "move",
                  "captureLog", "capture", "recheck", "judge">>
NetlistSteps == <<"record", "pull", "run", "move", "capture", "keep", "judge">>
ReviewSteps  == <<"fresh", "record", "pull", "script",
                  "run", "logOver", "capture", "recheck", "keep", "judge">>
CompareSteps == <<"record", "pull", "parse", "parseSecond", "recheck", "judge">>

Steps == [lint |-> LintSteps, test |-> TestSteps, check |-> CheckSteps,
          map |-> MapSteps, timing |-> TimingSteps, drc |-> DrcSteps,
          lvs |-> LvsSteps, xyce |-> XyceSteps, netlist |-> NetlistSteps,
          review |-> ReviewSteps, compare |-> CompareSteps]

(* "second" is what the first input pulls in: a literal include for HDL    *)
(* sources (version 0: absent), the deck, the reference netlist, the       *)
(* constraints or the rcfile for the others, the report that is reviewed,  *)
(* the other revision of a comparison. Xyce accepts no second file.        *)
File == {"source", "second"}
Hdl  == {"lint", "test", "check", "map"}
Read(t) == IF t = "xyce" THEN {"source"} ELSE File

(* The names of the evidence: what is written before the run (a script, a  *)
(* snapshot, a build directory), the transcript, what the tool produces.   *)
Fresh == [lint |-> {"log"}, test |-> {"prepared", "log", "native"}, check |-> {},
          map |-> {"prepared", "log", "native"}, timing |-> {"prepared", "log", "native"},
          drc |-> {"log", "native"}, lvs |-> {"log", "native", "json"},
          xyce |-> {}, netlist |-> {}, review |-> {"prepared", "log", "native"},
          compare |-> {}]
Place == {"prepared", "log", "native", "json"}

(* The drivers that write their script where the tool reads it, and those  *)
(* whose tool writes its files straight to their final names.              *)
Scripted == {"check", "map", "timing", "review"}
InPlace  == {"test", "drc", "lvs", "review"}
(* The drivers that bind the executable by its stat record.                *)
Bound    == {"lint", "test", "map", "timing"}

ASSUME ToolAssumption  == Tool \subseteq DOMAIN Steps
ASSUME BoundAssumption == MaxChanges \in Nat
ASSUME CallAssumption  == Call \cap {"earlier", "outsider", "nobody"} = {}

VARIABLES
    tool,     \* the operation of this behaviour
    input,    \* the version of each input file
    binary,   \* the identity of the executable
    disk,     \* what is at each evidence name
    changes,  \* what somebody else has changed: inputs, the executable, evidence
    pos,      \* the step each call is at
    recd,     \* the version of each input that the call hashed
    probed,   \* the identity of the executable that it looked at
    work,     \* its native process
    tested,   \* what the compiled self-test said
    basis,    \* what it read and judges
    kept,     \* what its artifact records describe
    trusted,  \* nothing has been found wrong so far
    verdict   \* engineering_status; "none" while the call runs

world == <<tool, input, binary, disk, changes>>
toolVars  == <<world, pos, recd, probed, work, tested, basis, kept, trusted, verdict>>

Nothing   == [f \in File |-> 0]
(* A file: who wrote it, after whose script, with which executable, from   *)
(* which inputs, and what it says.                                         *)
Evidence(by, of, ran, saw, says) == [by |-> by, of |-> of, ran |-> ran, saw |-> saw, says |-> says]
Missing    == Evidence("nobody", "nobody", 0, Nothing, "none")
Earlier   == Evidence("earlier", "earlier", 0, Nothing, "clean")
Idle      == [status |-> "none", of |-> "nobody", ran |-> 0, saw |-> Nothing, says |-> "none"]

ToolInit ==
    /\ tool \in Tool
    /\ input \in {i \in [File -> {0, 1}] : i.source = 1 /\ (i.second = 0 => tool \in Hdl)}
    /\ binary = 1 /\ changes = [edit |-> 0, swap |-> 0, tamper |-> 0]
    /\ disk \in [Place -> {Missing, Earlier}]
    /\ disk["json"] = Earlier => tool = "lvs"
    /\ disk["prepared"] = Earlier => tool \in Scripted \cup {"test"}
    /\ Cardinality({n \in Place : disk[n] = Earlier}) <= 1
    /\ pos = [c \in Call |-> 1]
    /\ recd = [c \in Call |-> Nothing] /\ probed = [c \in Call |-> 0]
    /\ work = [c \in Call |-> Idle] /\ tested = [c \in Call |-> Missing]
    /\ basis = [c \in Call |-> {}] /\ kept = [c \in Call |-> {}]
    /\ trusted = [c \in Call |-> TRUE] /\ verdict = [c \in Call |-> "none"]

At(c, step) == verdict[c] = "none" /\ Steps[tool][pos[c]] = step
Advance(c)  == pos' = [pos EXCEPT ![c] = @ + 1]
(* An early return: invalid_request, not_available or failed.              *)
Refuse(c)   == /\ verdict' = [verdict EXCEPT ![c] = "unknown"]
               /\ UNCHANGED <<world, pos, recd, probed, work, tested, basis, kept, trusted>>

-----------------------------------------------------------------------------
(* The request: the inputs are hashed one after the other.                 *)
Record(c) ==
    /\ At(c, "record") /\ Advance(c)
    /\ recd' = [recd EXCEPT ![c].source = input.source]
    /\ UNCHANGED <<world, probed, work, tested, basis, kept, trusted, verdict>>

(* The include closure: what the source names now, hashed if it is there.  *)
Scan(c) ==
    /\ At(c, "scan") /\ Advance(c)
    /\ recd' = [recd EXCEPT ![c].second = input.second]
    /\ UNCHANGED <<world, probed, work, tested, basis, kept, trusted, verdict>>

(* The declared second input. The timing driver parses its inputs a second *)
(* time and refuses when the digest is no longer the recorded one.         *)
Moved(c) == tool = "timing" /\ input.source # recd[c].source
Pull(c) ==
    /\ At(c, "pull")
    /\ \/ ~Moved(c) /\ Advance(c)
          /\ recd' = [recd EXCEPT ![c].second = input.second]
          /\ UNCHANGED <<world, probed, work, tested, basis, kept, trusted, verdict>>
       \/ Moved(c) /\ Refuse(c)

(* _binary_identity before the version probe.                              *)
Stat(c) ==
    /\ At(c, "stat") /\ Advance(c)
    /\ probed' = [probed EXCEPT ![c] = binary]
    /\ UNCHANGED <<world, recd, work, tested, basis, kept, trusted, verdict>>

(* The probe may fail; the identity after it must be the one before it.    *)
Probe(c) ==
    /\ At(c, "probe")
    /\ \/ binary = probed[c] /\ Advance(c)
          /\ UNCHANGED <<world, recd, probed, work, tested, basis, kept, trusted, verdict>>
       \/ Refuse(c)

AllFree == \A n \in Fresh[tool] : disk[n] = Missing
CheckFresh(c) ==
    /\ At(c, "fresh")
    /\ \/ AllFree /\ Advance(c)
          /\ UNCHANGED <<world, recd, probed, work, tested, basis, kept, trusted, verdict>>
       \/ ~AllFree /\ Refuse(c)

(* What is prepared says what the call recorded: build directory, script   *)
(* and manifest, script and SDC snapshot.                                  *)
Prepared(c) == Evidence(c, c, 0, recd[c], "clean")
ClaimOver(c) ==
    /\ At(c, "claim") /\ Advance(c)
    /\ disk' = [disk EXCEPT !["prepared"] = Prepared(c)]
    /\ UNCHANGED <<tool, input, binary, changes, recd, probed, work, tested, basis, kept, trusted, verdict>>
Claim(c) ==
    /\ At(c, "claim")
    /\ \/ disk["prepared"] = Missing /\ Advance(c)
          /\ disk' = [disk EXCEPT !["prepared"] = Prepared(c)]
          /\ UNCHANGED <<tool, input, binary, changes, recd, probed, work, tested, basis, kept, trusted, verdict>>
       \/ Refuse(c)

(* rtl_check writes its script over whatever has the name, and so does a   *)
(* review its markers, which it has just read in the report.               *)
Marked(c) == IF tool = "review" THEN [Prepared(c) EXCEPT !.saw.second = input.second]
             ELSE Prepared(c)
Script(c) ==
    /\ At(c, "script") /\ Advance(c)
    /\ disk' = [disk EXCEPT !["prepared"] = Marked(c)]
    /\ UNCHANGED <<tool, input, binary, changes, recd, probed, work, tested, basis, kept, trusted, verdict>>

InputsUnchanged(c) == \A f \in Read(tool) : recd[c][f] # 0 => input[f] = recd[c][f]
(* An include that was not there, and is now, has no record to compare.    *)
RecordsUnchanged(c) == tool \in Hdl /\ recd[c].second # 0 => input.second # 0
ClosureUnchanged(c) == tool \in Hdl => (input.second = 0 <=> recd[c].second = 0)
ToolUnchanged(c)    == tool \in Bound => binary = probed[c]

(* The KLayout driver looks at inputs and names again before the launch.   *)
Settle(c) ==
    /\ At(c, "settle")
    /\ \/ AllFree /\ InputsUnchanged(c) /\ Advance(c)
          /\ UNCHANGED <<world, recd, probed, work, tested, basis, kept, trusted, verdict>>
       \/ ~(AllFree /\ InputsUnchanged(c)) /\ Refuse(c)
-----------------------------------------------------------------------------
(* The native process: it loads the executable and the script, reads the   *)
(* inputs one after the other, writes its files and ends, or is killed.    *)
Launch(c) ==
    /\ At(c, "run") /\ work[c].status = "none"
    /\ work' = [work EXCEPT ![c].status = "running", ![c].ran = binary,
                  ![c].of = IF tool \in Scripted THEN disk["prepared"].of ELSE c,
                  ![c].saw.source = input.source]
    /\ UNCHANGED <<world, pos, recd, probed, tested, basis, kept, trusted, verdict>>

Running(c) == work[c].status = "running"
(* OpenSTA reads the constraints from the snapshot, KLayout the markers of *)
(* a review from the configuration beside its script.                      *)
Finds == CASE tool \in {"timing", "review"} -> disk["prepared"].saw.second
           [] tool = "xyce"   -> 0
           [] OTHER           -> input.second
Product(c, w) == Evidence(c, w.of, w.ran, w.saw, w.says)
(* The tools that know no private directory leave their files in place.    *)
Leave(c, w) ==
    disk' = [n \in Place |-> IF tool \in InPlace /\ w.says # "none"
                                /\ (n = "native" \/ (n = "json" /\ tool = "lvs"))
                             THEN Product(c, w) ELSE disk[n]]
End(c, w) ==
    /\ work' = [work EXCEPT ![c] = w] /\ Leave(c, w) /\ Advance(c)
    /\ UNCHANGED <<tool, input, binary, changes, recd, probed, tested, basis, kept, trusted, verdict>>
Exit(c) ==
    /\ Running(c)
    /\ \E says \in {"clean", "findings", "junk", "none"} :
          End(c, [work[c] EXCEPT !.status = "exited", !.saw.second = Finds, !.says = says,
                                 !.of = IF tool = "review" THEN disk["prepared"].of ELSE @])
TimeOut(c) ==
    /\ Running(c)
    /\ \E says \in {"junk", "none"} : End(c, [work[c] EXCEPT !.status = "killed", !.says = says])

Own(c) == Product(c, work[c])
(* Yosys writes no netlist after an error; Xschem's is taken only after a  *)
(* zero exit.                                                              *)
Produced(c) ==
    /\ work[c].says # "none"
    /\ tool = "check" => work[c].says # "findings"
    /\ tool = "netlist" => work[c].status = "exited"
-----------------------------------------------------------------------------
(* From a private directory to the final name, over what is there.         *)
Move(c, step, n) ==
    /\ At(c, step) /\ Advance(c)
    /\ disk' = IF Produced(c) THEN [disk EXCEPT ![n] = Own(c)] ELSE disk
    /\ UNCHANGED <<tool, input, binary, changes, recd, probed, work, tested, basis, kept, trusted, verdict>>

(* The same into a file that must not exist yet.                           *)
Copy(c) ==
    /\ At(c, "copy") /\ Advance(c)
    /\ \/ /\ Produced(c) /\ disk["native"] = Missing
          /\ disk' = [disk EXCEPT !["native"] = Own(c)] /\ UNCHANGED trusted
       \/ trusted' = [trusted EXCEPT ![c] = FALSE] /\ UNCHANGED disk
    /\ UNCHANGED <<tool, input, binary, changes, recd, probed, work, tested, basis, kept, verdict>>

(* The transcript is created exclusively; the write may fail. Without the  *)
(* compiler's, rtl_test returns at once.                                   *)
LogOver(c) ==
    /\ At(c, "log") /\ Advance(c)
    /\ disk' = [disk EXCEPT !["log"] = Own(c)]
    /\ UNCHANGED <<tool, input, binary, changes, recd, probed, work, tested, basis, kept, trusted, verdict>>
Log(c) ==
    /\ At(c, "log")
    /\ \/ /\ disk["log"] = Missing /\ Advance(c)
          /\ disk' = [disk EXCEPT !["log"] = Own(c)]
          /\ UNCHANGED <<tool, input, binary, changes, recd, probed, work, tested, basis, kept, trusted, verdict>>
       \/ /\ tool # "test" /\ Advance(c)
          /\ trusted' = [trusted EXCEPT ![c] = FALSE]
          /\ UNCHANGED <<world, recd, probed, work, tested, basis, kept, verdict>>
       \/ tool = "test" /\ Refuse(c)

(* A review writes its transcript over what is there.                      *)
Overwrite(c) ==
    /\ At(c, "logOver") /\ Advance(c)
    /\ disk' = [disk EXCEPT !["log"] = Own(c)]
    /\ UNCHANGED <<tool, input, binary, changes, recd, probed, work, tested, basis, kept, trusted, verdict>>

(* A comparison runs no tool: it reads the two revisions itself, one after *)
(* the other, and refuses a report that is not well formed.                *)
Parse(c, step, f) ==
    /\ At(c, step)
    /\ \/ /\ Advance(c)
          /\ work' = [work EXCEPT ![c] = [@ EXCEPT !.status = "exited", !.of = c,
                                            !.saw[f] = input[f], !.says = "clean"]]
          /\ UNCHANGED <<world, recd, probed, tested, basis, kept, trusted, verdict>>
       \/ Refuse(c)

(* The executable that is at its name now is run, if the compiler said so. *)
Test(c) ==
    /\ At(c, "test") /\ Advance(c)
    /\ IF work[c].status = "exited" /\ work[c].says = "clean"
       THEN \E says \in {"clean", "findings", "junk"} :
               tested' = [tested EXCEPT ![c] = [disk["native"] EXCEPT !.says = says]]
       ELSE UNCHANGED tested
    /\ UNCHANGED <<world, recd, probed, work, basis, kept, trusted, verdict>>

(* A final name is opened, and what is there is read and hashed at once.   *)
(* The Yosys checks, and Xschem's, only look when they moved a file there. *)
LooksAnyway(c) == TRUE
Looks(c) == tool \in {"check", "netlist", "xyce", "map", "timing"} => Produced(c)
Capture(c, step, n) ==
    /\ At(c, step) /\ Advance(c)
    /\ LET found == IF Looks(c) /\ disk[n] # Missing THEN {disk[n]} ELSE {}
       IN  /\ basis' = [basis EXCEPT ![c] = @ \cup found]
           /\ kept' = IF tool \in {"drc", "lvs", "xyce"}
                      THEN [kept EXCEPT ![c] = @ \cup found] ELSE kept
           /\ trusted' = [trusted EXCEPT ![c] = @ /\ found # {}]
    /\ UNCHANGED <<world, recd, probed, work, tested, verdict>>

Recheck(c) ==
    /\ At(c, "recheck") /\ Advance(c)
    /\ trusted' = [trusted EXCEPT ![c] =
                     @ /\ InputsUnchanged(c) /\ ClosureUnchanged(c) /\ ToolUnchanged(c)]
    /\ UNCHANGED <<world, recd, probed, work, tested, basis, kept, verdict>>

(* The artifact records are taken from the final names. Synthesis and      *)
(* timing ask that script and output are still what they wrote.            *)
ScriptRetained(c) == tool \in {"map", "timing"} => disk["prepared"] = Prepared(c)
Retained(c) == tool \in {"map", "timing"} =>
                   disk["prepared"] = Prepared(c) /\ disk["native"] = Own(c)
Keep(c) ==
    /\ At(c, "keep") /\ Advance(c)
    /\ kept' = [kept EXCEPT ![c] = {disk["native"]} \ {Missing}]
    /\ trusted' = [trusted EXCEPT ![c] = @ /\ Retained(c)]
    /\ UNCHANGED <<world, recd, probed, work, tested, basis, verdict>>
-----------------------------------------------------------------------------
(* The verdicts. Said(c): what the process's own output said.              *)
Said(c)   == IF work[c].status = "exited" THEN work[c].says ELSE "junk"
Whole(c)  == basis[c] # {} /\ \A b \in basis[c] : b.says \in {"clean", "findings"}
Agree(c)  == \E s \in {"clean", "findings"} : \A b \in basis[c] : b.says = s
Clean(c)  == \A b \in basis[c] : b.says = "clean"

Trusting(c, judged) == IF trusted[c] THEN judged ELSE "unknown"
Lint(c)    == Trusting(c, CASE Said(c) = "clean"    -> "pass"
                            [] Said(c) = "findings" -> "fail"
                            [] OTHER                -> "unknown")
SelfTest(c) ==
    Trusting(c, CASE Said(c) = "findings"                              -> "fail"
                  [] Said(c) = "clean" /\ tested[c].says = "clean"     -> "pass"
                  [] Said(c) = "clean" /\ tested[c].says = "findings"  -> "fail"
                  [] OTHER                                             -> "unknown")
Structure(c) ==
    CASE Said(c) = "clean" /\ Produced(c) /\ Whole(c) -> "pass"
      [] Said(c) = "findings"                         -> "fail"
      [] OTHER                                        -> "unknown"
Mapping(c) ==
    Trusting(c, CASE Said(c) = "clean" /\ Whole(c)  -> IF Clean(c) THEN "pass" ELSE "fail"
                  [] Said(c) = "findings"           -> "fail"
                  [] OTHER                          -> "unknown")
Timing(c) ==
    Trusting(c, CASE Said(c) = "clean" /\ Whole(c) /\ Clean(c)                  -> "pass"
                  [] Said(c) = "findings" /\ Whole(c) /\ Agree(c) /\ ~Clean(c)  -> "fail"
                  [] OTHER                                                      -> "unknown")
(* What a report says, when the process ended of itself and it is whole.   *)
Reported(c) ==
    IF Whole(c) /\ Said(c) \in {"clean", "findings"}
    THEN IF Clean(c) THEN "pass" ELSE "fail" ELSE "unknown"
Drc(c)     == Trusting(c, Reported(c))
Lvs(c)     == Trusting(c, IF Agree(c) THEN Reported(c) ELSE "unknown")
Simulated(c) ==
    Trusting(c, CASE Said(c) = "clean" /\ Whole(c) /\ Clean(c)      -> "pass"
                  [] Said(c) = "findings" /\ Whole(c) /\ ~Clean(c)  -> "fail"
                  [] OTHER                                          -> "unknown")
Netlist(c) == Reported(c)

(* Pictures and a comparison say nothing about the layout: any that is     *)
(* whole passes, and none fails.                                           *)
Review(c)  == IF trusted[c] /\ Said(c) = "clean" /\ Whole(c) /\ Clean(c) THEN "pass" ELSE "unknown"
Compare(c) == IF trusted[c] THEN "pass" ELSE "unknown"

Judgement(c) ==
    CASE tool = "review" -> Review(c)   [] tool = "compare" -> Compare(c)
      [] tool = "lint"  -> Lint(c)      [] tool = "test"   -> SelfTest(c)
      [] tool = "check" -> Structure(c) [] tool = "map"    -> Mapping(c)
      [] tool = "drc"   -> Drc(c)       [] tool = "timing" -> Timing(c)
      [] tool = "lvs"   -> Lvs(c)       [] tool = "xyce"   -> Simulated(c)
      [] OTHER          -> Netlist(c)
Judge(c) ==
    /\ At(c, "judge")
    /\ verdict' = [verdict EXCEPT ![c] = Judgement(c)]
    /\ UNCHANGED <<world, pos, recd, probed, work, tested, basis, kept, trusted>>
-----------------------------------------------------------------------------
(* Everybody else.                                                         *)
Others  == <<pos, recd, probed, work, tested, basis, kept, trusted, verdict>>
Live    == \E c \in Call : verdict[c] = "none"
Change(what) == /\ Live /\ changes.edit + changes.swap + changes.tamper < MaxChanges
                /\ changes' = [changes EXCEPT ![what] = @ + 1]
                /\ UNCHANGED <<tool, Others>>
Edit(f) ==
    /\ f \in Read(tool) /\ Change("edit")
    /\ input' = [input EXCEPT ![f] = @ + 1]
    /\ UNCHANGED <<binary, disk>>
Swap ==
    /\ tool \in Bound /\ Change("swap")
    /\ binary' = binary + 1
    /\ UNCHANGED <<input, disk>>
(* Somebody writes over a file; the build directory is not one.            *)
Tamper(n) ==
    /\ disk[n] \notin {Missing, Earlier} /\ Change("tamper")
    /\ n = "prepared" => tool # "test"
    /\ disk' = [disk EXCEPT ![n] = Evidence("outsider", "outsider", 0, Nothing, "clean")]
    /\ UNCHANGED <<input, binary>>

Takes(c) ==
    \/ Record(c) \/ Scan(c) \/ Pull(c) \/ Stat(c) \/ Probe(c) \/ CheckFresh(c)
    \/ Claim(c) \/ Script(c) \/ Settle(c) \/ Launch(c)
    \/ Move(c, "move", "native") \/ Move(c, "moveLog", "log") \/ Copy(c) \/ Log(c) \/ Test(c)
    \/ Capture(c, "capture", "native") \/ Capture(c, "captureJson", "json")
    \/ Capture(c, "captureLog", "log")
    \/ Overwrite(c) \/ Parse(c, "parse", "source") \/ Parse(c, "parseSecond", "second")
    \/ Recheck(c) \/ Keep(c) \/ Judge(c)

Done == ~Live /\ UNCHANGED toolVars
ToolNext == \/ \E c \in Call : Takes(c) \/ Exit(c) \/ TimeOut(c)
            \/ \E f \in File : Edit(f)
            \/ Swap \/ (\E n \in Place : Tamper(n))
            \/ Done
ToolSpec == ToolInit /\ [][ToolNext]_toolVars
-----------------------------------------------------------------------------
Concluded(c) == verdict[c] \in {"pass", "fail"}
(* What a conclusion rests on: what was read, and what the process said.   *)
Grounds(c) == basis[c] \cup {Own(c)}
              \cup (IF tested[c] = Missing THEN {} ELSE {tested[c]})

(* The drivers that look at their inputs again, and those that claim their *)
(* names before the run or judge nothing but their own process's output.   *)
Rechecks  == {"lint", "test", "map", "timing", "drc", "lvs", "xyce", "review", "compare"}
Exclusive == {"lint", "test", "map", "timing"}
Sealed    == {"map", "timing"}

(* A conclusion of a driver that looks again is about the inputs and the   *)
(* executable it recorded: of the evidence it judged, what its own process *)
(* produced, from its own script, was produced from exactly these.         *)
ConcludedFromRecorded ==
    \A c \in Call : Concluded(c) /\ tool \in Rechecks =>
        \A g \in Grounds(c) : g.by = c /\ g.of = c =>
            /\ \A f \in Read(tool) : g.saw[f] = recd[c][f]
            /\ tool \in Bound => g.ran = probed[c]

(* Two calls in one directory, and somebody who overwrites its files: the  *)
(* drivers that claim their names conclude only from their own process and *)
(* their own script. The self-test executes whatever file the compiler's   *)
(* name leads to, so there it holds while nobody writes over it. Of two    *)
(* calls whose names must be free, one at most concludes; two reviews that *)
(* both found them so may, since neither claims a name.                    *)
OneConcludes ==
    tool \in {t \in Tool \ {"review"} : "log" \in Fresh[t]} =>
        \A c, d \in Call : Concluded(c) /\ Concluded(d) => c = d
OwnEvidence ==
    /\ OneConcludes
    /\ \A c \in Call :
          Concluded(c) /\ tool \in Exclusive /\ (tool \in Sealed \/ changes.tamper = 0) =>
              \A g \in Grounds(c) : g.by = c /\ g.of = c

(* No driver concludes from a file that an earlier run left, even those    *)
(* that never ask whether their names are free.                            *)
NoLeftovers == \A c \in Call : Concluded(c) => \A g \in Grounds(c) : g.by # "earlier"

(* What was judged is what the artifact records describe; the drivers that *)
(* record afterwards can only promise it to a call without company.        *)
JudgedIsKept ==
    \A c \in Call : verdict[c] = "pass" /\ tool \notin {"check", "netlist", "review", "lint", "test"} =>
        basis[c] \subseteq kept[c]
=============================================================================
