---------------------------- MODULE NgspiceDriver ----------------------------
(***************************************************************************)
(* Calls of NgspiceDriver.simulate (src/src/openada/engines/spice.py) that *)
(* are given one source file and one output and working directory: pin the *)
(* deck, write the control script, check the deck again, run ngspice, move *)
(* what it wrote into the output directory, capture it as evidence and     *)
(* decide the engineering status from it.  Calls may overlap, or follow    *)
(* one that was killed and left its files and its ngspice behind; an       *)
(* outsider edits the deck.                                                *)
(*                                                                         *)
(* The digest or identity of a file is the call whose ngspice (for the     *)
(* script: which) wrote it, and for the deck the number of its last edit:  *)
(* no edit restores earlier bytes.                                         *)
(***************************************************************************)
EXTENDS Integers

CONSTANTS
    Calls,     \* calls that share the source and the directories
    Nobody,    \* stands for no file, and for no evidence
    MaxEdits   \* bound: edits of the deck

ASSUME NobodyAssumption == Nobody \notin Calls
ASSUME BoundAssumption  == MaxEdits \in Nat

VARIABLES
    mode,      \* "batch", "control" (wrapper-owned raw) or "deck" (deck-owned)
    version,   \* the last edit of the deck
    files,     \* files[f]: who wrote the log, raw, script or deck output
    temp,      \* temp[c]: who wrote the raw file in c's temporary directory
    pc,        \* where each call is
    recorded,  \* the digest c was given for the deck, then its input record
    script,    \* initial_script_sha256
    evidence,  \* evidence[c]: what c holds as its log and as its output
    status,    \* engineering_status; "invalid" for a static refusal
    ngspice,   \* ngspice[c]: "none", "running" or how it ended
    read,      \* read[c]: the edit of the deck that c's ngspice read
    runs,      \* runs[c]: whose control script c's ngspice executes
    verdict,   \* verdict[c]: what the log of c's ngspice says
    alone      \* no other call, nor its ngspice, was active during c

NotRead  == -1
Names    == {"log", "raw", "script", "deck"}
Output   == IF mode = "deck" THEN "deck" ELSE "raw"
NoEvidence == [f \in {"log", "output"} |-> Nobody]

world    == <<version, files, temp>>
records  == <<recorded, script, evidence>>
machines == <<ngspice, read, runs, verdict>>
vars     == <<mode, world, pc, records, status, machines, alone>>

Ended(c)  == pc[c] \in {"returned", "killed"}
Active(c) == (pc[c] # "idle" /\ ~Ended(c)) \/ ngspice[c] = "running"

Init ==
    /\ mode \in {"batch", "control", "deck"}
    /\ version = 0
    /\ files = [f \in Names |-> Nobody] /\ temp = [c \in Calls |-> Nobody]
    /\ pc = [c \in Calls |-> "idle"]
    /\ recorded = [c \in Calls |-> NotRead]
    /\ script = [c \in Calls |-> Nobody]
    /\ evidence = [c \in Calls |-> NoEvidence]
    /\ status = [c \in Calls |-> "unknown"]
    /\ ngspice = [c \in Calls |-> "none"] /\ read = [c \in Calls |-> NotRead]
    /\ runs = [c \in Calls |-> Nobody]
    /\ verdict = [c \in Calls |-> "clean"]
    /\ alone = [c \in Calls |-> TRUE]

Goto(c, next) == pc' = [pc EXCEPT ![c] = next] /\ UNCHANGED status

(***************************************************************************)
(* The call ends without a conclusion.  What it still had to look at       *)
(* cannot change that and touches nothing, so it ends here, and what it    *)
(* remembered is of no use to anyone.                                      *)
(***************************************************************************)
End(c, how, as) ==
    /\ pc' = [pc EXCEPT ![c] = how]
    /\ status' = [status EXCEPT ![c] = as]
    /\ recorded' = [recorded EXCEPT ![c] = NotRead]
    /\ script' = [script EXCEPT ![c] = Nobody]
    /\ evidence' = [evidence EXCEPT ![c] = NoEvidence]

Refuse(c)  == End(c, "returned", "invalid")
Unknown(c) == End(c, "returned", "unknown")

-----------------------------------------------------------------------------
(* Before the launch.                                                      *)

(* The operation layer pins the digest of the deck it has reviewed.        *)
Call(c) ==
    /\ pc[c] = "idle"
    /\ Goto(c, "record")
    /\ recorded' = [recorded EXCEPT ![c] = version]
    /\ alone' = [d \in Calls |->
                   alone[d] /\ IF d = c THEN \A e \in Calls \ {c} : ~Active(e)
                                        ELSE ~Active(d)]
    /\ UNCHANGED <<mode, world, script, evidence, machines>>

(* file_record, the reviewed digest, then every argument check.            *)
Record(c) ==
    /\ pc[c] = "record"
    /\ \/ version = recorded[c] /\ Goto(c, "scan") /\ UNCHANGED records
       \/ Refuse(c)
    /\ UNCHANGED <<mode, world, machines, alone>>

Fresh == mode = "deck" => files["deck"] = Nobody

(***************************************************************************)
(* _resolve_expected_outputs: a deck-owned output must not exist yet.      *)
(* _scan_source must read the recorded bytes; a deck it cannot accept, or  *)
(* a missing simulator, ends the call.                                     *)
(***************************************************************************)
Scan(c) ==
    /\ pc[c] = "scan"
    /\ \/ /\ Fresh /\ version = recorded[c] /\ UNCHANGED records
          /\ Goto(c, IF mode = "batch" THEN "guard" ELSE "write")
       \/ Refuse(c)
    /\ UNCHANGED <<mode, world, machines, alone>>

(***************************************************************************)
(* _write_control_script, an atomic replacement.  The launcher names the   *)
(* call's temporary raw file; for deck-owned outputs it names none and has *)
(* the same bytes for every call.                                          *)
(***************************************************************************)
WriteScript(c) ==
    /\ pc[c] = "write"
    /\ files' = [files EXCEPT !["script"] = IF mode = "control" THEN c ELSE Nobody]
    /\ Goto(c, "reread")
    /\ UNCHANGED <<mode, version, temp, records, machines, alone>>

(* initial_script_sha256 is read back from the path.                       *)
RereadScript(c) ==
    /\ pc[c] = "reread"
    /\ script' = [script EXCEPT ![c] = files["script"]]
    /\ Goto(c, "guard")
    /\ UNCHANGED <<mode, world, recorded, evidence, machines, alone>>

(* Last boundary: the outputs are still fresh and anchored, and every      *)
(* guarded input still has its digest.                                     *)
Guard(c) ==
    /\ pc[c] = "guard"
    /\ IF Fresh /\ version = recorded[c]
       THEN Goto(c, "launch") /\ UNCHANGED records ELSE Refuse(c)
    /\ UNCHANGED <<mode, world, machines, alone>>

-----------------------------------------------------------------------------
(* run_process and the simulator.                                          *)

Launch(c) ==
    /\ pc[c] = "launch"
    /\ \/ Goto(c, "wait") /\ ngspice' = [ngspice EXCEPT ![c] = "running"]
       \/ Goto(c, "moveLog") /\ ngspice' = [ngspice EXCEPT ![c] = "incomplete"]
    /\ UNCHANGED <<mode, world, records, read, runs, verdict, alone>>

(* ngspice runs the launcher it finds, on the deck it finds.  What it will *)
(* say of the deck is chosen here.                                         *)
ReadDeck(c) ==
    /\ ngspice[c] = "running" /\ read[c] = NotRead
    /\ read' = [read EXCEPT ![c] = version]
    /\ runs' = [runs EXCEPT ![c] = IF mode = "control" THEN files["script"] ELSE c]
    /\ verdict' \in {[verdict EXCEPT ![c] = v] : v \in {"clean", "nonconvergent"}}
    /\ UNCHANGED <<mode, world, pc, records, status, ngspice, alone>>

HasTemp(c) == pc[c] \in {"reread", "guard", "launch", "wait", "moveLog",
                         "movedLog", "moveRaw", "killed"}

WriteOutput(c) ==
    /\ ngspice[c] = "running" /\ read[c] # NotRead
    /\ \/ /\ mode = "deck" /\ files["deck"] # c
          /\ files' = [files EXCEPT !["deck"] = c] /\ UNCHANGED temp
       \/ /\ mode # "deck" /\ HasTemp(runs[c]) /\ temp[runs[c]] # c
          /\ temp' = [temp EXCEPT ![runs[c]] = c] /\ UNCHANGED files
    /\ UNCHANGED <<mode, version, pc, records, status, machines, alone>>

Exit(c) ==
    /\ ngspice[c] = "running"
    /\ ngspice' \in {[ngspice EXCEPT ![c] = x] : x \in {"zero", "nonzero"}}
    /\ UNCHANGED <<mode, world, pc, records, status, read, runs, verdict, alone>>

Simulator(c) == ReadDeck(c) \/ WriteOutput(c) \/ Exit(c)

(* run_process returns, or kills the simulator when the timeout passes.    *)
Wait(c) ==
    /\ pc[c] = "wait"
    /\ \/ ngspice[c] # "running" /\ UNCHANGED ngspice
       \/ ngspice[c] = "running" /\ ngspice' = [ngspice EXCEPT ![c] = "incomplete"]
    /\ Goto(c, "moveLog")
    /\ UNCHANGED <<mode, world, records, read, runs, verdict, alone>>

-----------------------------------------------------------------------------
(* The evidence.                                                           *)

Hold(c, f, who) ==
    /\ evidence' = [evidence EXCEPT ![c][f] = who]
    /\ UNCHANGED <<recorded, script>>

(* _move_regular_output: nothing happens if there is no file to move.      *)
Move(c, f, as, from, here, next) ==
    /\ pc[c] = here
    /\ files' = IF from = Nobody THEN files ELSE [files EXCEPT ![f] = from]
    /\ Hold(c, as, from)
    /\ Goto(c, next)
    /\ UNCHANGED <<mode, version, temp, machines, alone>>

(***************************************************************************)
(* After the replacement the destination must be the file that was moved;  *)
(* where the temporary directory is on another device, the copy that was   *)
(* put there is not looked at again.                                       *)
(***************************************************************************)
Moved(c, f, as, here, next) ==
    /\ pc[c] = here
    /\ \/ Hold(c, as, IF files[f] = evidence[c][as] THEN files[f] ELSE Nobody)
       \/ UNCHANGED records
    /\ Goto(c, next)
    /\ UNCHANGED <<mode, world, machines, alone>>

(* The log is private to c and its ngspice, which may not have written it. *)
MoveLog(c) ==
    \/ Move(c, "log", "log", Nobody, "moveLog", "movedLog")
    \/ read[c] # NotRead /\ Move(c, "log", "log", c, "moveLog", "movedLog")

MoveOutputs(c) ==
    \/ MoveLog(c)
    \/ Moved(c, "log", "log", "movedLog", IF mode = "deck" THEN "script" ELSE "moveRaw")
    \/ Move(c, "raw", "output", temp[c], "moveRaw", "movedRaw")
    \/ Moved(c, "raw", "output", "movedRaw", "script")

(* The launcher must not have changed since it was read back.              *)
CaptureScript(c) ==
    /\ pc[c] = "script"
    /\ IF mode = "batch" \/ files["script"] = script[c]
       THEN Goto(c, "openLog") /\ UNCHANGED records ELSE Unknown(c)
    /\ UNCHANGED <<mode, world, machines, alone>>

OpenWhatever(c, f, as, produced, here, next) ==   \* mutation: nothing is asked
    /\ pc[c] = here
    /\ Hold(c, as, files[f]) /\ Goto(c, next)
    /\ UNCHANGED <<mode, world, machines, alone>>

OpenStale(c, f, as, produced, here, next) ==   \* mutation: any file there will do
    /\ pc[c] = here
    /\ IF files[f] # Nobody
       THEN Hold(c, as, files[f]) /\ Goto(c, next) ELSE Unknown(c)
    /\ UNCHANGED <<mode, world, machines, alone>>

(* _capture_file opens the path if a file was produced, whatever it is now. *)
Open(c, f, as, produced, here, next) ==
    /\ pc[c] = here
    /\ IF produced /\ files[f] # Nobody
       THEN Hold(c, as, files[f]) /\ Goto(c, next) ELSE Unknown(c)
    /\ UNCHANGED <<mode, world, machines, alone>>

(* It validates and hashes what it opened; the path must still be that.    *)
Hash(c, f, as, here, next) ==
    /\ pc[c] = here
    /\ IF files[f] = evidence[c][as]
       THEN Goto(c, next) /\ UNCHANGED records ELSE Unknown(c)
    /\ UNCHANGED <<mode, world, machines, alone>>

Produced(c, as) == evidence[c][as] # Nobody

CaptureFiles(c) ==
    \/ Open(c, "log", "log", Produced(c, "log"), "openLog", "hashLog")
    \/ Hash(c, "log", "log", "hashLog", "openOut")
    \/ Open(c, Output, "output", mode = "deck" \/ Produced(c, "output"),
            "openOut", "hashOut")
    \/ Hash(c, Output, "output", "hashOut", "inputs")

InputsTrusted(c) ==   \* mutation: the inputs are not hashed again
    /\ pc[c] = "inputs"
    /\ Goto(c, "decide") /\ UNCHANGED records
    /\ UNCHANGED <<mode, world, machines, alone>>

(* Every input record is made again: inputs_stable.                        *)
RecheckInputs(c) ==
    /\ pc[c] = "inputs"
    /\ IF version = recorded[c]
       THEN Goto(c, "decide") /\ UNCHANGED records ELSE Unknown(c)
    /\ UNCHANGED <<mode, world, machines, alone>>

-----------------------------------------------------------------------------
(* The verdict.                                                            *)

LogIsUnasked(c)   == TRUE   \* mutation: the digest of the text is not compared
LogIsTheRecord(c) == files["log"] = evidence[c]["log"]

Conclude(c, as) ==
    /\ pc' = [pc EXCEPT ![c] = "returned"]
    /\ status' = [status EXCEPT ![c] = as]
    /\ UNCHANGED records

(***************************************************************************)
(* _read_captured_text must read the recorded digest; then passed and      *)
(* conclusive_nonconvergence.  Anything else those look at (the output     *)
(* streams, the measurements, the outputs' structure) can only take a      *)
(* conclusion back.                                                        *)
(***************************************************************************)
Decide(c) ==
    /\ pc[c] = "decide"
    /\ \/ Unknown(c)
       \/ /\ LogIsTheRecord(c) /\ verdict[files["log"]] = "nonconvergent"
          /\ ngspice[c] \in {"zero", "nonzero"}
          /\ Conclude(c, "fail")
       \/ /\ LogIsTheRecord(c) /\ verdict[files["log"]] = "clean"
          /\ ngspice[c] = "zero"
          /\ Conclude(c, "pass")
    /\ UNCHANGED <<mode, world, machines, alone>>

Step(c) ==
    \/ Call(c) \/ Record(c) \/ Scan(c) \/ WriteScript(c) \/ RereadScript(c)
    \/ Guard(c) \/ Launch(c) \/ Wait(c)
    \/ MoveOutputs(c) \/ CaptureScript(c) \/ CaptureFiles(c) \/ RecheckInputs(c)
    \/ Decide(c)

(* The call is killed; its simulator, in a session of its own, is not.     *)
Kill(c) ==
    /\ pc[c] # "idle" /\ ~Ended(c)
    /\ End(c, "killed", "unknown")
    /\ UNCHANGED <<mode, world, machines, alone>>

Edit ==
    /\ version < MaxEdits /\ version' = version + 1
    /\ UNCHANGED <<mode, files, temp, pc, records, status, machines, alone>>

AllEnded == (\A c \in Calls : Ended(c)) /\ UNCHANGED vars

Next == \/ \E c \in Calls : Step(c) \/ Simulator(c) \/ Kill(c)
        \/ Edit \/ AllEnded

Spec == Init /\ [][Next]_vars

-----------------------------------------------------------------------------
(* Properties.                                                             *)

(* The types of the calls', the files' and the simulators' state.          *)
TypeOK ==
    /\ version \in 0 .. MaxEdits
    /\ files \in [Names -> Calls \cup {Nobody}]
    /\ {temp, script, runs} \subseteq [Calls -> Calls \cup {Nobody}]
    /\ {recorded, read} \subseteq [Calls -> -1 .. MaxEdits]
    /\ evidence \in [Calls -> [{"log", "output"} -> Calls \cup {Nobody}]]
    /\ alone \in [Calls -> BOOLEAN]
    /\ status \in [Calls -> {"unknown", "invalid", "pass", "fail"}]
    /\ ngspice \in [Calls -> {"none", "running", "zero", "nonzero", "incomplete"}]
    /\ verdict \in [Calls -> {"clean", "nonconvergent"}]
    /\ \A c \in Calls : pc[c] = "decide" => evidence[c]["log"] # Nobody

Concluded(c) == status[c] \in {"pass", "fail"}

(***************************************************************************)
(* A call concludes only about the deck it was given and recorded: that is *)
(* the deck its ngspice read, whenever the outsider edits it               *)
(* (expected_source_sha256, launch_guard, inputs_stable).                  *)
(***************************************************************************)
ConcludesAboutTheDeck ==
    \A c \in Calls : Concluded(c) => read[c] = recorded[c]

(***************************************************************************)
(* A conclusion agrees with the log it cites: a call that overlaps another *)
(* never judges by one log and records the other (_capture_file,           *)
(* _read_captured_text).                                                   *)
(***************************************************************************)
VerdictFitsEvidence ==
    \A c \in Calls : Concluded(c) =>
        LET log == evidence[c]["log"] IN
        /\ log # Nobody
        /\ verdict[log] = IF status[c] = "pass" THEN "clean" ELSE "nonconvergent"

OwnEvidence(c) == /\ evidence[c] = [log |-> c, output |-> c]
                  /\ runs[c] = c

(***************************************************************************)
(* A call during which no other was active, nor the simulator of a killed  *)
(* one, concludes only from what its own ngspice wrote, whatever files an  *)
(* earlier call left in the directories (_move_regular_output,             *)
(* _resolve_expected_outputs, simulate).                                   *)
(***************************************************************************)
AloneConcludesFromOwn ==
    \A c \in Calls : Concluded(c) /\ alone[c] => OwnEvidence(c)
=============================================================================
