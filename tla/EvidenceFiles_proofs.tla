------------------------ MODULE EvidenceFiles_proofs ------------------------
(***************************************************************************)
(* Proofs about the modules of the evidence files: a publication, for any  *)
(* publishers and files; the drivers of the other tools, for any calls and *)
(* any number of changes; the verification of a receipt, for any           *)
(* tampering.                                                              *)
(***************************************************************************)
EXTENDS DirectoryPublish, ToolDriver, EvidenceReceipt, TLAPS

-----------------------------------------------------------------------------
(***************************************************************************)
(* DirectoryPublish.                                                       *)
(***************************************************************************)
(***************************************************************************)
(* What a publisher's place says of its staging directory: none before     *)
(* mkdtemp, and all of the files once the target is about to be touched.   *)
(***************************************************************************)
StagingInv ==
    \A p \in Publishers :
        /\ pc[p] \in {"check", "stage"}  => ~made[p]
        /\ pc[p] \in {"rmdir", "rename"} => staged[p] = Files

IInv == TypeOK /\ TargetIsWhole /\ OutcomeIsTrue /\ StagingInv

(* A published target is not empty, and what it holds is not the outsider's. *)
LEMMA PublishedIsOwned ==
    ASSUME NEW p \in Publishers, Published(p)
    PROVE  /\ kind = "dir" /\ entries # {}
           /\ \E e \in entries : e[1] # Outsider
<1>1. PICK f : f \in Files
    BY FilesAssumption
<1>2. <<p, f>> \in entries
    BY <1>1 DEF Published
<1>3. <<p, f>>[1] # Outsider
    BY PublisherAssumption
<1> QED
    BY <1>2, <1>3 DEF Published

(* The first states satisfy the invariant.                                 *)
LEMMA InitIInv == Init => IInv
BY DEF Init, IInv, TypeOK, TargetIsWhole, OutcomeIsTrue, StagingInv

-----------------------------------------------------------------------------
(* Every step keeps the types, and entries stay inside a directory.        *)
LEMMA TypeStep == IInv /\ [Next]_vars => TypeOK'
<1> SUFFICES ASSUME IInv, [Next]_vars PROVE TypeOK'
    OBVIOUS
<1> USE DEF IInv, TypeOK, target, staging, Goto
<1>1. ASSUME NEW p \in Publishers, CheckTarget(p) PROVE TypeOK'
    BY <1>1 DEF CheckTarget
<1>2. ASSUME NEW p \in Publishers, MakeStaging(p) PROVE TypeOK'
    BY <1>2 DEF MakeStaging
<1>3. ASSUME NEW p \in Publishers, WriteFile(p) PROVE TypeOK'
    BY <1>3 DEF WriteFile
<1>4. ASSUME NEW p \in Publishers, Written(p) PROVE TypeOK'
    BY <1>4 DEF Written
<1>5. ASSUME NEW p \in Publishers, RemoveEmpty(p) PROVE TypeOK'
    BY <1>5 DEF RemoveEmpty, EmptyDir
<1>6. ASSUME NEW p \in Publishers, Rename(p) PROVE TypeOK'
    BY <1>6 DEF Rename, Unstage
<1>7. ASSUME NEW p \in Publishers, CleanUp(p) PROVE TypeOK'
    BY <1>7 DEF CleanUp, Unstage
<1>8. ASSUME NEW p \in Publishers, Kill(p) PROVE TypeOK'
    BY <1>8 DEF Kill
<1>9. ASSUME Outside PROVE TypeOK'
    BY <1>9 DEF Outside, Absent
<1>10. ASSUME UNCHANGED vars PROVE TypeOK'
    BY <1>10 DEF vars
<1> QED
    BY <1>1, <1>2, <1>3, <1>4, <1>5, <1>6, <1>7, <1>8, <1>9, <1>10
    DEF Next, Step, AllEnded

(* Every step keeps what a publisher's place says of its staging.          *)
LEMMA StagingStep == IInv /\ [Next]_vars => StagingInv'
<1> SUFFICES ASSUME IInv, [Next]_vars PROVE StagingInv'
    OBVIOUS
<1> USE DEF IInv, TypeOK, StagingInv, target, staging, Goto
<1>1. ASSUME NEW p \in Publishers, CheckTarget(p) PROVE StagingInv'
    BY <1>1 DEF CheckTarget
<1>2. ASSUME NEW p \in Publishers, MakeStaging(p) PROVE StagingInv'
    BY <1>2 DEF MakeStaging
<1>3. ASSUME NEW p \in Publishers, WriteFile(p) PROVE StagingInv'
    BY <1>3 DEF WriteFile
<1>4. ASSUME NEW p \in Publishers, Written(p) PROVE StagingInv'
    BY <1>4 DEF Written
<1>5. ASSUME NEW p \in Publishers, RemoveEmpty(p) PROVE StagingInv'
    BY <1>5 DEF RemoveEmpty
<1>6. ASSUME NEW p \in Publishers, Rename(p) PROVE StagingInv'
    BY <1>6 DEF Rename, Unstage
<1>7. ASSUME NEW p \in Publishers, CleanUp(p) PROVE StagingInv'
    BY <1>7 DEF CleanUp, Unstage
<1>8. ASSUME NEW p \in Publishers, Kill(p) PROVE StagingInv'
    BY <1>8 DEF Kill
<1>9. ASSUME Outside \/ UNCHANGED vars PROVE StagingInv'
    BY <1>9 DEF Outside, vars
<1> QED
    BY <1>1, <1>2, <1>3, <1>4, <1>5, <1>6, <1>7, <1>8, <1>9
    DEF Next, Step, AllEnded

(***************************************************************************)
(* Only rmdir, the rename and the outsider touch the target, and none of   *)
(* them touches a published one.                                           *)
(***************************************************************************)
LEMMA TargetMoves ==
    ASSUME IInv, [Next]_vars
    PROVE  \/ UNCHANGED target
           \/ Outside
           \/ \E p \in Publishers : pc[p] = "rmdir" /\ RemoveEmpty(p) /\ EmptyDir
           \/ \E p \in Publishers : Rename(p) /\ (Absent \/ EmptyDir)
BY DEF Next, Step, AllEnded, vars, CheckTarget, MakeStaging, WriteFile, Written,
       RemoveEmpty, Rename, CleanUp, Kill

(* While a complete publication is at the target, the target does not move.*)
LEMMA PublishedStays ==
    ASSUME IInv, [Next]_vars, NEW p \in Publishers, Published(p)
    PROVE  Published(p)'
<1>1. /\ kind = "dir" /\ entries # {}
      /\ \E e \in entries : e[1] # Outsider
    BY PublishedIsOwned
<1>2. ~Outside /\ ~Absent /\ ~EmptyDir
    BY <1>1 DEF Outside, Absent, EmptyDir
<1>3. UNCHANGED target
    BY <1>2, TargetMoves
<1> QED
    BY <1>3 DEF target, Published

(* The target stays nothing, the outsider's or one complete set of files.  *)
LEMMA WholeStep == IInv /\ [Next]_vars => TargetIsWhole'
<1> SUFFICES ASSUME IInv, [Next]_vars PROVE TargetIsWhole'
    OBVIOUS
<1>1. CASE UNCHANGED target
    BY <1>1 DEF IInv, TargetIsWhole, Published, target
<1>2. CASE Outside
    <2>1. \A e \in entries' : e[1] = Outsider
        BY <1>2 DEF Outside
    <2> QED
        BY <2>1 DEF TargetIsWhole
<1>3. ASSUME NEW p \in Publishers, RemoveEmpty(p), EmptyDir PROVE TargetIsWhole'
    <2>1. entries' = {}
        BY <1>3 DEF RemoveEmpty, EmptyDir, target
    <2> QED
        BY <2>1 DEF TargetIsWhole
<1>4. ASSUME NEW p \in Publishers, Rename(p), Absent \/ EmptyDir
      PROVE  TargetIsWhole'
    <2>1. Published(p)'
        BY <1>4 DEF Rename, IInv, StagingInv, Published
    <2> QED
        BY <2>1 DEF TargetIsWhole
<1> QED
    BY <1>1, <1>2, <1>3, <1>4, TargetMoves

(* A call that returns has just renamed; one that raises has cleaned up.   *)
LEMMA OutcomeStep == IInv /\ [Next]_vars => OutcomeIsTrue'
<1> SUFFICES ASSUME IInv, [Next]_vars, NEW q \in Publishers
             PROVE  /\ pc'[q] = "returned" => Published(q)'
                    /\ pc'[q] = "raised"   => ~made'[q]
    BY DEF OutcomeIsTrue, Published
<1>1. CASE pc[q] \in {"returned", "raised"}
    <2>1. pc'[q] = pc[q] /\ made'[q] = made[q]
        BY <1>1 DEF IInv, TypeOK, Next, Step, AllEnded, vars, staging, target,
           CheckTarget, MakeStaging, WriteFile, Written, RemoveEmpty, Rename,
           CleanUp, Unstage, Kill, Ended, Outside, Goto
    <2> QED
        BY <2>1, PublishedStays DEF IInv, OutcomeIsTrue
<1>2. CASE pc[q] \notin {"returned", "raised"}
    <2> USE DEF IInv, TypeOK, target, staging, Goto
    <2>1. ASSUME pc'[q] = "returned" PROVE Published(q)'
        <3>1. Rename(q) /\ pc[q] = "rename" /\ kind' = "dir"
              /\ entries' = {q} \X staged[q]
            BY <1>2, <2>1 DEF Next, Step, AllEnded, vars, CheckTarget,
               MakeStaging, WriteFile, Written, RemoveEmpty, Rename, CleanUp,
               Kill, Outside
        <3> QED
            BY <3>1 DEF StagingInv, Published
    <2>2. ASSUME pc'[q] = "raised" PROVE ~made'[q]
        <3>1. CheckTarget(q) \/ MakeStaging(q) \/ CleanUp(q)
            BY <1>2, <2>2 DEF Next, Step, AllEnded, vars, CheckTarget,
               MakeStaging, WriteFile, Written, RemoveEmpty, Rename, CleanUp,
               Kill, Outside
        <3> QED
            BY <2>2, <3>1 DEF StagingInv, CheckTarget, MakeStaging, CleanUp, Unstage
    <2> QED
        BY <2>1, <2>2
<1> QED
    BY <1>1, <1>2

-----------------------------------------------------------------------------
(* The invariant holds in every state.                                     *)
THEOREM Invariance == Spec => []IInv
<1>1. IInv /\ [Next]_vars => IInv'
    BY TypeStep, WholeStep, OutcomeStep, StagingStep DEF IInv
<1> QED
    BY InitIInv, <1>1, PTL DEF Spec

(* Type correctness: in particular only a directory ever has entries.      *)
THEOREM TypeCorrect == Spec => []TypeOK
BY Invariance, PTL DEF IInv

(***************************************************************************)
(* However many calls publish to one target, and whoever else uses it, it  *)
(* never holds a part of a publication or a mixture (_publish_compilation, *)
(* publish_testbench_plan_run, compile_experiment_template).               *)
(***************************************************************************)
THEOREM TargetWhole == Spec => []TargetIsWhole
BY Invariance, PTL DEF IInv

(* A call that returned has published; one that raised left nothing.       *)
THEOREM OutcomeTrue == Spec => []OutcomeIsTrue
BY Invariance, PTL DEF IInv

(***************************************************************************)
(* No step of a publisher removes an entry, so publication is new-file-    *)
(* only.                                                                   *)
(***************************************************************************)
THEOREM NothingOverwritten == Spec => NothingIsOverwritten
<1>1. IInv /\ [Next]_vars =>
        [(\E p \in Publishers : pc'[p] # pc[p]) => entries \subseteq entries']_vars
    <2> SUFFICES ASSUME IInv, [Next]_vars, NEW q \in Publishers, pc'[q] # pc[q]
                 PROVE  entries \subseteq entries'
        OBVIOUS
    <2>1. ~Outside
        BY DEF Outside
    <2>2. CASE UNCHANGED target
        BY <2>2 DEF target
    <2>3. CASE Absent \/ EmptyDir
        BY <2>3 DEF Absent, EmptyDir, IInv, TypeOK
    <2> QED
        BY <2>1, <2>2, <2>3, TargetMoves
<1> QED
    BY Invariance, <1>1, PTL DEF Spec, NothingIsOverwritten

-----------------------------------------------------------------------------
(***************************************************************************)
(* ToolDriver. What each call has recorded, looked at and read is tied to  *)
(* where it is in its program (what is behind it); what lies at an evidence *)
(* name, to whoever wrote it.                                              *)
(***************************************************************************)
Writer == Call \cup {"earlier", "outsider", "nobody"}
Says   == {"none", "clean", "findings", "junk"}
Content == [by : Writer, of : Writer, ran : Nat, saw : [File -> Nat], says : Says]
Process == [status : {"none", "running", "exited", "killed"}, of : Writer, ran : Nat,
            saw : [File -> Nat], says : Says]

(* The types.                                                              *)
ToolTypes ==
    /\ tool \in Tool /\ input \in [File -> Nat] /\ binary \in Nat
    /\ changes \in [edit : Nat, swap : Nat, tamper : Nat]
    /\ disk \in [Place -> Content]
    /\ pos \in [Call -> DOMAIN Steps[tool]]
    /\ recd \in [Call -> [File -> Nat]] /\ probed \in [Call -> Nat]
    /\ work \in [Call -> Process] /\ tested \in [Call -> Content]
    /\ basis \in [Call -> SUBSET Content] /\ kept \in [Call -> SUBSET Content]
    /\ trusted \in [Call -> BOOLEAN]
    /\ verdict \in [Call -> {"none", "pass", "fail", "unknown"}]

(* The steps behind the i-th of a sequence, and behind a call.             *)
Behind(steps, i) == {steps[j] : j \in 1 .. (i - 1)}
Past(c, s)       == s \in Behind(Steps[tool], pos[c])

Stopped(c)    == work[c].status \in {"exited", "killed"}
Launched(c) == work[c].status # "none"

(* The process runs only while its call is at the run; behind the run it   *)
(* has ended. A conclusion is drawn at the judgement, from a process that  *)
(* ended of itself, by a call that found nothing wrong if its driver looks *)
(* again.                                                                  *)
StatusInv(c) ==
    /\ Running(c) => verdict[c] = "none" /\ Steps[tool][pos[c]] = "run"
    /\ Past(c, "run") => Stopped(c)
    /\ Launched(c) => Running(c) \/ Past(c, "run") \/ Past(c, "parse")
    /\ Past(c, "parse") => work[c].status = "exited"
    /\ Concluded(c) => Steps[tool][pos[c]] = "judge" /\ work[c].status = "exited"
    /\ Concluded(c) /\ tool \in Rechecks => trusted[c]

(* What was hashed is not newer than what the process read, and that not   *)
(* newer than what is there. An edit is never undone, so a digest that is  *)
(* the same again was the same all the while: this is what makes looking   *)
(* again enough.                                                           *)
Between(c, f) == recd[c][f] <= work[c].saw[f] /\ work[c].saw[f] <= input[f]
ReadSecond(c) == \/ tool \in {"lint", "test", "map", "drc", "lvs"} /\ work[c].status = "exited"
                 \/ tool = "review" /\ work[c].status = "exited" /\ work[c].of = c
                 \/ Past(c, "parseSecond")
VersionInv(c) ==
    /\ \A f \in File : recd[c][f] <= input[f]
    /\ probed[c] <= binary
    /\ input["source"] # 0 /\ (tool \notin Hdl => input["second"] # 0)
    /\ Past(c, "record") => recd[c]["source"] # 0
    /\ Past(c, "pull") /\ tool \notin Hdl => recd[c]["second"] # 0
    /\ Launched(c) => Between(c, "source")
    /\ Launched(c) /\ tool \in Bound => probed[c] <= work[c].ran /\ work[c].ran <= binary
    /\ ReadSecond(c) => Between(c, "second")
    /\ Past(c, "recheck") /\ trusted[c] /\ work[c].status = "exited" =>
          /\ work[c].saw["source"] = recd[c]["source"]
          /\ tool \in Bound => work[c].ran = probed[c]
          /\ ReadSecond(c) => work[c].saw["second"] = recd[c]["second"]

(* A file by a call is what its process said, a script by it says what it  *)
(* recorded, and what it read of its own files is the same.                *)
Evidenced == {"log", "native", "json"}
FileInv(c) ==
    /\ disk["prepared"].by = c =>
          /\ Past(c, "claim") \/ Past(c, "script")
          /\ tool # "review" => disk["prepared"] = Prepared(c)
          /\ /\ recd[c]["second"] <= disk["prepared"].saw["second"]
             /\ disk["prepared"].saw["second"] <= input["second"]
    /\ disk["prepared"].of = disk["prepared"].by
    /\ \A n \in Evidenced : disk[n].by = c => Past(c, "run") /\ disk[n] = Own(c)
    /\ \A g \in basis[c] : g.by = c => g = Own(c)
    /\ tested[c].by = c => /\ tested[c].of = work[c].of
                           /\ tested[c].saw = work[c].saw /\ tested[c].ran = work[c].ran
    /\ ~Past(c, "capture") /\ ~Past(c, "captureLog") => basis[c] = {}
    /\ ~Past(c, "test") => tested[c] = Missing

(* A process ran the script that the call wrote, as far as the script that *)
(* is there is the call's; a call that found script and output retained    *)
(* judged its own output and described it.                                 *)
ScriptInv(c) ==
    /\ tool \notin Scripted /\ Launched(c) => work[c].of = c
    /\ tool \in Sealed /\ disk["prepared"].by = c =>
          /\ Launched(c) => work[c].of = c
          /\ tool = "timing" /\ work[c].status = "exited" =>
                work[c].saw["second"] = recd[c]["second"]
    /\ tool \in Sealed /\ disk["native"].by = c => basis[c] \subseteq {disk["native"]}
    /\ tool \in Sealed /\ Past(c, "keep") /\ trusted[c] =>
          /\ work[c].of = c
          /\ tool = "timing" /\ work[c].status = "exited" =>
                work[c].saw["second"] = recd[c]["second"]
          /\ basis[c] \subseteq {Own(c)} /\ Own(c) \in kept[c]
    /\ tool \in {"drc", "lvs", "xyce"} => kept[c] = basis[c]

(* One transcript for one call: whoever created it exclusively is alone.   *)
(* One build directory for one self-test.                                  *)
Wrote(c) == Past(c, "log") /\ trusted[c]
AloneInv(c) ==
    /\ Wrote(c) => disk["log"] # Missing
    /\ \A d \in Call \ {c} : ~(Wrote(c) /\ Wrote(d))
    /\ tool = "test" /\ Past(c, "claim") => disk["prepared"].by = c
    /\ tool = "test" /\ changes.tamper = 0 =>
          /\ work[c].status = "exited" /\ work[c].says # "none" => disk["native"].by = c
          /\ tested[c] # Missing => tested[c].by = c

(* Nothing of an earlier run is at a name that was asked to be free, or to *)
(* which a file was moved, or in what was read.                            *)
FreshInv(c) ==
    /\ Past(c, "fresh") => \A n \in Fresh[tool] : disk[n].by # "earlier"
    /\ Past(c, "move") /\ Produced(c) => disk["native"].by # "earlier"
    /\ Past(c, "moveLog") /\ Produced(c) => disk["log"].by # "earlier"
    /\ \A g \in basis[c] : g.by # "earlier"
    /\ tested[c].by # "earlier"

ToolInvs == ToolTypes /\ \A c \in Call : /\ StatusInv(c) /\ VersionInv(c) /\ FileInv(c)
                                        /\ ScriptInv(c) /\ AloneInv(c) /\ FreshInv(c)

(* The steps before any file is written, and those that write one before   *)
(* the run.                                                                *)
Preparing == {"record", "scan", "pull", "stat", "probe", "fresh", "settle"}
Placing   == {"claim", "script"}

(* What is behind a call at a step, whatever the tool.                     *)
Order(steps, i) ==
    LET at == steps[i]
        behind == Behind(steps, i) IN
    /\ at # "judge" => i + 1 \in DOMAIN steps
    /\ at \in Preparing => behind \subseteq Preparing
    /\ at \in Placing   => behind \subseteq Preparing
    /\ at = "run"       => behind \subseteq Preparing \cup Placing
    /\ at = "parse"     => behind \subseteq Preparing
    /\ at = "parseSecond" => behind \subseteq Preparing \cup {"parse"} /\ "parse" \in behind
    /\ at = "copy"      => behind \subseteq Preparing \cup Placing \cup {"run"}
    /\ at \in {"capture", "captureJson", "captureLog"} => "keep" \notin behind
    /\ at = "captureJson" => "capture" \in behind
    /\ at = "recheck" => "record" \in behind

(* What the judgement and the evidence of each tool have behind them.      *)
Needs(t, steps, i) ==
    LET at == steps[i]
        behind == Behind(steps, i) IN
    /\ at \notin Preparing \cup Placing \cup {"run"} /\ t # "compare" => "run" \in behind
    /\ t = "test" /\ (at = "run" \/ "run" \in behind) => "claim" \in behind
    /\ at = "recheck" /\ t \in {"timing", "drc", "lvs", "review", "compare"} => "pull" \in behind
    /\ at \in {"capture", "captureJson"} /\ t \in {"map", "timing", "drc", "lvs", "review"} => "fresh" \in behind
    /\ at = "capture" /\ t \in {"check", "netlist", "xyce"} => "move" \in behind
    /\ at = "captureLog" => "moveLog" \in behind
    /\ at = "test" => "fresh" \in behind
    /\ at = "judge" =>
          /\ t \in Rechecks => "recheck" \in behind
          /\ t \in Sealed   => "keep" \in behind
          /\ t = "compare"  => {"parse", "parseSecond"} \subseteq behind
          /\ t \in {"lint", "test", "map", "timing", "drc", "lvs"} => "log" \in behind

(* Which tools take a step.                                                *)
Takers(t, at) ==
    /\ at = "move"         => t \in {"check", "xyce", "netlist"}
    /\ at \in {"moveLog", "captureLog"} => t = "xyce"
    /\ at = "copy"         => t \in Sealed
    /\ at = "log"          => t \in {"lint", "test", "map", "timing", "drc", "lvs"}
    /\ at = "test"         => t = "test"
    /\ at = "claim"        => t \in {"test", "map", "timing"}
    /\ at = "script"       => t \in {"check", "review"}
    /\ at = "capture"      => t \notin {"lint", "test", "compare"}
    /\ at = "captureJson" => t = "lvs"
    /\ at = "logOver"     => t = "review"
    /\ at = "keep"         => t \notin {"drc", "lvs", "xyce"}
    /\ at \in {"parse", "parseSecond"} => t = "compare"
    /\ at = "run"          => t # "compare"

(* A driver's steps are numbered from 1.                                   *)
LEMMA StepsAreSequences ==
    ASSUME NEW t \in DOMAIN Steps
    PROVE  \E n \in Nat \ {0} : DOMAIN Steps[t] = 1 .. n
<1>1. t = "lint" => \E n \in Nat \ {0} : DOMAIN LintSteps = 1 .. n
    BY DEF LintSteps
<1>2. t = "test" => \E n \in Nat \ {0} : DOMAIN TestSteps = 1 .. n
    BY DEF TestSteps
<1>3. t = "check" => \E n \in Nat \ {0} : DOMAIN CheckSteps = 1 .. n
    BY DEF CheckSteps
<1>4. t = "map" => \E n \in Nat \ {0} : DOMAIN MapSteps = 1 .. n
    BY DEF MapSteps
<1>5. t = "timing" => \E n \in Nat \ {0} : DOMAIN TimingSteps = 1 .. n
    BY DEF TimingSteps
<1>6. t = "drc" => \E n \in Nat \ {0} : DOMAIN DrcSteps = 1 .. n
    BY DEF DrcSteps
<1>7. t = "lvs" => \E n \in Nat \ {0} : DOMAIN LvsSteps = 1 .. n
    BY DEF LvsSteps
<1>8. t = "xyce" => \E n \in Nat \ {0} : DOMAIN XyceSteps = 1 .. n
    BY DEF XyceSteps
<1>9. t = "netlist" => \E n \in Nat \ {0} : DOMAIN NetlistSteps = 1 .. n
    BY DEF NetlistSteps
<1>10. t = "review" => \E n \in Nat \ {0} : DOMAIN ReviewSteps = 1 .. n
    BY DEF ReviewSteps
<1>11. t = "compare" => \E n \in Nat \ {0} : DOMAIN CompareSteps = 1 .. n
    BY DEF CompareSteps
<1> QED
    BY <1>1, <1>2, <1>3, <1>4, <1>5, <1>6, <1>7, <1>8, <1>9, <1>10, <1>11 DEF Steps

(* The order of the steps, read off the drivers one by one: everything     *)
(* below knows the drivers only through this.                              *)
LEMMA StepOrder ==
    ASSUME NEW t \in DOMAIN Steps, NEW i \in DOMAIN Steps[t]
    PROVE  Order(Steps[t], i) /\ Needs(t, Steps[t], i) /\ Takers(t, Steps[t][i])
<1> DEFINE Goal(steps) == \A k \in DOMAIN steps :
                              Order(steps, k) /\ Needs(t, steps, k) /\ Takers(t, steps[k])
<1> USE DEF Order, Needs, Takers, Behind, Preparing, Placing, Rechecks, Sealed
<1>1. t = "lint" => Goal(LintSteps)
    BY DEF LintSteps
<1>2. t = "test" => Goal(TestSteps)
    BY DEF TestSteps
<1>3. t = "check" => Goal(CheckSteps)
    BY DEF CheckSteps
<1>4. t = "map" => Goal(MapSteps)
    BY DEF MapSteps
<1>5. t = "timing" => Goal(TimingSteps)
    BY DEF TimingSteps
<1>6. t = "drc" => Goal(DrcSteps)
    BY DEF DrcSteps
<1>7. t = "lvs" => Goal(LvsSteps)
    BY DEF LvsSteps
<1>8. t = "xyce" => Goal(XyceSteps)
    BY DEF XyceSteps
<1>9. t = "netlist" => Goal(NetlistSteps)
    BY DEF NetlistSteps
<1>10. t = "review" => Goal(ReviewSteps)
    BY DEF ReviewSteps
<1>11. t = "compare" => Goal(CompareSteps)
    BY DEF CompareSteps
<1> HIDE DEF Order, Needs, Takers
<1> QED
    BY <1>1, <1>2, <1>3, <1>4, <1>5, <1>6, <1>7, <1>8, <1>9, <1>10, <1>11 DEF Steps
(* What is behind a call is a step of its tool.                            *)
LEMMA Only ==
    ASSUME NEW t \in DOMAIN Steps, NEW i \in DOMAIN Steps[t], NEW s \in Behind(Steps[t], i)
    PROVE  Takers(t, s)
<1>1. PICK j \in 1 .. (i - 1) : Steps[t][j] = s
    BY DEF Behind
<1>2. j \in DOMAIN Steps[t]
    BY <1>1, StepsAreSequences
<1> QED
    BY <1>1, <1>2, StepOrder

(* Where a call is says what is behind it.                                 *)
LEMMA Located ==
    ASSUME ToolTypes, NEW c \in Call
    PROVE  /\ Order(Steps[tool], pos[c]) /\ Needs(tool, Steps[tool], pos[c])
           /\ Takers(tool, Steps[tool][pos[c]])
BY StepOrder, ToolAssumption DEF ToolTypes

(* A step that a call takes is behind it from then on.                     *)
LEMMA Advancing ==
    ASSUME ToolTypes, NEW c \in Call, NEW s, At(c, s), s # "judge", Advance(c), tool' = tool
    PROVE  /\ pos' \in [Call -> DOMAIN Steps[tool]]
           /\ \A d \in Call \ {c} : pos'[d] = pos[d]
           /\ \A r : Past(c, r)' <=> Past(c, r) \/ r = s
<1>1. pos[c] \in DOMAIN Steps[tool] /\ pos[c] + 1 \in DOMAIN Steps[tool]
    BY Located DEF At, Order, ToolTypes
<1>2. pos'[c] = pos[c] + 1 /\ pos[c] \in Nat \ {0}
    <2>1. pos[c] \in Nat \ {0}
        BY <1>1, StepsAreSequences, ToolAssumption DEF ToolTypes
    <2> QED
        BY <2>1 DEF Advance, ToolTypes
<1>3. 1 .. pos'[c] - 1 = (1 .. pos[c] - 1) \cup {pos[c]}
    BY <1>2
<1> QED
    BY <1>1, <1>2, <1>3 DEF At, Advance, ToolTypes, Past, Behind

(* The types of what a step writes.                                        *)
LEMMA Writes ==
    ASSUME ToolTypes, NEW c \in Call
    PROVE  /\ Missing \in Content /\ Own(c) \in Content /\ Prepared(c) \in Content
           /\ Marked(c) \in Content /\ work[c] \in Process
BY DEF ToolTypes, Missing, Own, Product, Prepared, Marked, Evidence, Content, Process, Writer,
       Says, Nothing, File

(* What somebody else writes over a file is a file.                        *)
LEMMA OthersWrite == Evidence("outsider", "outsider", 0, Nothing, "clean") \in Content
BY DEF Evidence, Content, Writer, Says, Nothing

(* A process after a launch, the end of a run, or a comparison's reading.  *)
LEMMA LaunchTypes ==
    ASSUME NEW w \in Process, NEW of \in Writer, NEW ran \in Nat, NEW f \in File, NEW version \in Nat
    PROVE  [w EXCEPT !.status = "running", !.ran = ran, !.of = of, !.saw[f] = version] \in Process
BY DEF Process

(* The end of a process, by itself or by force.                            *)
LEMMA EndTypes ==
    ASSUME NEW w \in Process, NEW of \in Writer, NEW f \in File, NEW version \in Nat, NEW says \in Says
    PROVE  /\ [w EXCEPT !.status = "exited", !.of = of, !.saw[f] = version, !.says = says] \in Process
           /\ [w EXCEPT !.status = "exited", !.saw[f] = version, !.says = says, !.of = of] \in Process
           /\ [w EXCEPT !.status = "killed", !.says = says] \in Process
BY DEF Process

(* The first states have the types.                                        *)
LEMMA ToolTypesInit == ToolInit => ToolTypes
<1> SUFFICES ASSUME ToolInit PROVE ToolTypes
    OBVIOUS
<1>1. /\ tool \in Tool /\ 1 \in DOMAIN Steps[tool]
      /\ input \in [File -> Nat] /\ binary \in Nat
    BY ToolAssumption, StepsAreSequences DEF ToolInit
<1>2. Missing \in Content /\ Earlier \in Content /\ Idle \in Process /\ Nothing \in [File -> Nat]
    BY DEF Missing, Earlier, Idle, Evidence, Content, Process, Writer, Says, Nothing
<1>3. disk \in [Place -> Content]
    BY <1>2 DEF ToolInit
<1> QED
    BY <1>1, <1>2, <1>3 DEF ToolInit, ToolTypes

(* The verdicts that there are.                                            *)
LEMMA Judgements == \A c \in Call : Judgement(c) \in {"pass", "fail", "unknown"}
BY DEF Judgement, Trusting, Review, Compare, Lint, SelfTest, Structure, Mapping, Timing, Drc, Lvs,
       Reported, Simulated, Netlist

(* A call that refuses changes nothing but its verdict.                    *)
LEMMA RefuseTypes == ASSUME ToolTypes, NEW c \in Call, Refuse(c) PROVE ToolTypes'
BY DEF Refuse, world, ToolTypes

(* The process after a step of its call.                                   *)
LEMMA Works ==
    ASSUME ToolTypes, NEW c \in Call
    PROVE  /\ Launch(c) => work' \in [Call -> Process]
           /\ \A f \in File : \A s : Parse(c, s, f) => work' \in [Call -> Process]
           /\ Exit(c) \/ TimeOut(c) => \E w \in Process : End(c, w)
<1>1. ASSUME Launch(c) PROVE work' \in [Call -> Process]
    <2>1. work'[c] = [work[c] EXCEPT !.status = "running", !.ran = binary,
                        !.of = IF tool \in Scripted THEN disk["prepared"].of ELSE c,
                        !.saw.source = input.source]
        BY <1>1 DEF Launch, ToolTypes
    <2>2. (IF tool \in Scripted THEN disk["prepared"].of ELSE c) \in Writer
        BY DEF ToolTypes, Content, Writer, Place
    <2>3. [work[c] EXCEPT !.status = "running", !.ran = binary,
                !.of = IF tool \in Scripted THEN disk["prepared"].of ELSE c,
                !.saw.source = input.source] \in Process
        BY <2>2, LaunchTypes DEF ToolTypes, File
    <2> QED
        BY <1>1, <2>1, <2>3 DEF Launch, ToolTypes
<1>2. ASSUME NEW f \in File, NEW s, Parse(c, s, f) PROVE work' \in [Call -> Process]
    <2>1. CASE Refuse(c)
        BY <2>1 DEF Refuse, ToolTypes
    <2>2. CASE ~Refuse(c)
        <3>1. work'[c] = [work[c] EXCEPT !.status = "exited", !.of = c, !.saw[f] = input[f], !.says = "clean"]
            BY <1>2, <2>2 DEF Parse, ToolTypes
        <3>2. [work[c] EXCEPT !.status = "exited", !.of = c, !.saw[f] = input[f], !.says = "clean"] \in Process
            BY EndTypes DEF ToolTypes, Writer, Says
        <3> QED
            BY <1>2, <2>2, <3>1, <3>2 DEF Parse, ToolTypes
    <2> QED
        BY <2>1, <2>2
<1>3. ASSUME Exit(c) PROVE \E w \in Process : End(c, w)
    <2> DEFINE of == IF tool = "review" THEN disk["prepared"].of ELSE work[c].of
    <2>1. PICK says \in Says :
             End(c, [work[c] EXCEPT !.status = "exited", !.saw.second = Finds, !.says = says, !.of = of])
        BY <1>3 DEF Exit, Says
    <2>2. Finds \in Nat /\ of \in Writer /\ work[c] \in Process
        BY DEF Finds, ToolTypes, Content, Process, File, Place
    <2>3. [work[c] EXCEPT !.status = "exited", !.saw.second = Finds, !.says = says, !.of = of] \in Process
        BY <2>2, EndTypes DEF File
    <2> QED
        BY <2>1, <2>3
<1>4. ASSUME TimeOut(c) PROVE \E w \in Process : End(c, w)
    <2>1. PICK says \in Says : End(c, [work[c] EXCEPT !.status = "killed", !.says = says])
        BY <1>4 DEF TimeOut, Says
    <2>2. [work[c] EXCEPT !.status = "killed", !.says = says] \in Process
        BY EndTypes DEF ToolTypes, File, Writer
    <2> QED
        BY <2>1, <2>2
<1> QED
    BY <1>1, <1>2, <1>3, <1>4

(* Every step keeps the types.                                             *)
LEMMA ToolTypesStep ==
    ASSUME ToolTypes, \A c \in Call : StatusInv(c), [ToolNext]_toolVars
    PROVE  ToolTypes'
<1>a. ASSUME NEW c \in Call, NEW s, At(c, s), s # "judge", Advance(c), tool' = tool
      PROVE  pos' \in [Call -> DOMAIN Steps[tool']]
    BY <1>a, Advancing
<1> USE Writes DEF world, File, Place
<1>1. ASSUME NEW c \in Call, Record(c) \/ Scan(c) PROVE ToolTypes'
    <2>1. PICK f \in File : recd' = [recd EXCEPT ![c][f] = input[f]]
        BY <1>1 DEF Record, Scan
    <2>2. recd' \in [Call -> [File -> Nat]]
        BY <2>1 DEF ToolTypes
    <2>3. pos' \in [Call -> DOMAIN Steps[tool']]
        BY <1>1, <1>a DEF Record, Scan
    <2> QED
        BY <1>1, <2>2, <2>3 DEF Record, Scan, ToolTypes
<1>2. ASSUME NEW c \in Call, Pull(c), ~Refuse(c) PROVE ToolTypes'
    BY <1>2, <1>a DEF Pull, ToolTypes
<1>3. ASSUME NEW c \in Call, Stat(c) PROVE ToolTypes'
    BY <1>3, <1>a DEF Stat, ToolTypes
<1>4. ASSUME NEW c \in Call, Probe(c) \/ CheckFresh(c) \/ Settle(c), ~Refuse(c) PROVE ToolTypes'
    BY <1>4, <1>a DEF Probe, CheckFresh, Settle, ToolTypes
<1>5. ASSUME NEW c \in Call, Claim(c), ~Refuse(c) PROVE ToolTypes'
    BY <1>5, <1>a DEF Claim, ToolTypes
<1>6. ASSUME NEW c \in Call, Script(c) \/ Overwrite(c) PROVE ToolTypes'
    BY <1>6, <1>a DEF Script, Overwrite, ToolTypes
<1>7. ASSUME NEW c \in Call, Launch(c) PROVE ToolTypes'
    <2>1. work' \in [Call -> Process]
        BY <1>7, Works
    <2> QED
        BY <1>7, <2>1 DEF Launch, ToolTypes
<1>8. ASSUME NEW c \in Call, Parse(c, "parse", "source") \/ Parse(c, "parseSecond", "second"), ~Refuse(c)
      PROVE  ToolTypes'
    <2>1. work' \in [Call -> Process]
        BY <1>8, Works
    <2> QED
        BY <1>8, <2>1, <1>a DEF Parse, ToolTypes
<1>9. ASSUME NEW c \in Call, Exit(c) \/ TimeOut(c) PROVE ToolTypes'
    <2>1. PICK w : End(c, w) /\ w \in Process
        BY <1>9, Works
    <2>2. Product(c, w) \in Content
        BY <2>1 DEF Product, Evidence, Content, Process, Writer
    <2>3. At(c, "run")
        BY <1>9 DEF Exit, TimeOut, At, StatusInv
    <2>4. pos' \in [Call -> DOMAIN Steps[tool']]
        BY <2>1, <2>3, <1>a DEF End
    <2>5. disk' \in [Place -> Content] /\ work' \in [Call -> Process]
        BY <2>1, <2>2 DEF End, Leave, ToolTypes
    <2> QED
        BY <2>1, <2>4, <2>5 DEF End, ToolTypes
<1>10. ASSUME NEW c \in Call, Move(c, "move", "native") \/ Move(c, "moveLog", "log") PROVE ToolTypes'
    BY <1>10, <1>a DEF Move, ToolTypes
<1>11. ASSUME NEW c \in Call, Copy(c) PROVE ToolTypes'
    <2>1. CASE UNCHANGED disk
        BY <1>11, <2>1, <1>a DEF Copy, ToolTypes
    <2>2. CASE UNCHANGED trusted
        BY <1>11, <2>2, <1>a DEF Copy, ToolTypes
    <2> QED
        BY <1>11, <2>1, <2>2 DEF Copy
<1>12. ASSUME NEW c \in Call, Log(c), ~Refuse(c) PROVE ToolTypes'
    <2>a. Own(c) \in Content
        OBVIOUS
    <2>b. disk' = disk \/ disk' = [disk EXCEPT !["log"] = Own(c)]
        BY <1>12 DEF Log
    <2>c. trusted' = trusted \/ trusted' = [trusted EXCEPT ![c] = FALSE]
        BY <1>12 DEF Log
    <2>d. disk' \in [Place -> Content]
        BY <2>a, <2>b DEF ToolTypes
    <2>e. trusted' \in [Call -> BOOLEAN]
        BY <2>c DEF ToolTypes
    <2>1. disk' \in [Place -> Content] /\ trusted' \in [Call -> BOOLEAN]
        BY <2>d, <2>e
    <2> QED
        BY <1>12, <2>1, <1>a DEF Log, ToolTypes
<1>13. ASSUME NEW c \in Call, Test(c) PROVE ToolTypes'
    <2>1. \A says \in Says : [disk["native"] EXCEPT !.says = says] \in Content
        BY DEF ToolTypes, Content
    <2>2. tested' = tested \/ \E says \in Says : tested' = [tested EXCEPT ![c] = [disk["native"] EXCEPT !.says = says]]
        BY <1>13 DEF Test, Says
    <2>3. tested' \in [Call -> Content]
        BY <2>1, <2>2 DEF ToolTypes
    <2> QED
        BY <1>13, <2>3, <1>a DEF Test, ToolTypes
<1>14. ASSUME NEW c \in Call, NEW s, s # "judge", NEW n \in Place, Capture(c, s, n) PROVE ToolTypes'
    BY <1>14, <1>a DEF Capture, ToolTypes
<1>15. ASSUME NEW c \in Call, Recheck(c) PROVE ToolTypes'
    BY <1>15, <1>a DEF Recheck, InputsUnchanged, ClosureUnchanged, ToolUnchanged, ToolTypes
<1>16. ASSUME NEW c \in Call, Keep(c) PROVE ToolTypes'
    <2>1. kept' \in [Call -> SUBSET Content] /\ trusted' \in [Call -> BOOLEAN]
        BY <1>16 DEF Keep, Retained, ToolTypes
    <2> QED
        BY <1>16, <2>1, <1>a DEF Keep, ToolTypes
<1>17. ASSUME NEW c \in Call, Judge(c) PROVE ToolTypes'
    BY <1>17, Judgements DEF Judge, ToolTypes
<1>18. ASSUME NEW f \in File, Edit(f) PROVE ToolTypes'
    BY <1>18 DEF Edit, Change, Others, ToolTypes
<1>19. ASSUME Swap PROVE ToolTypes'
    BY <1>19 DEF Swap, Change, Others, ToolTypes
<1>20. ASSUME NEW n \in Place, Tamper(n) PROVE ToolTypes'
    BY <1>20, OthersWrite DEF Tamper, Change, Others, ToolTypes
<1>21. ASSUME UNCHANGED toolVars PROVE ToolTypes'
    BY <1>21 DEF toolVars, ToolTypes
<1> QED
    BY <1>1, <1>2, <1>3, <1>4, <1>5, <1>6, <1>7, <1>8, <1>9, <1>10, <1>11, <1>12, <1>13, <1>14,
       <1>15, <1>16, <1>17, <1>18, <1>19, <1>20, <1>21, RefuseTypes DEF ToolNext, Takes, Done

Acts(c)  == Takes(c) \/ Exit(c) \/ TimeOut(c)
Quiet(c) == UNCHANGED <<tool, pos[c], recd[c], probed[c], work[c], tested[c], basis[c], kept[c],
                        trusted[c], verdict[c]>>

(* A step is its call's alone, as far as the calls' own state goes.        *)
LEMMA Frame ==
    ASSUME ToolTypes, NEW d \in Call, Acts(d), NEW c \in Call \ {d}
    PROVE  Quiet(c)
<1> USE DEF Quiet, ToolTypes, world, Advance, Refuse
<1>1. CASE Record(d) \/ Scan(d) \/ Pull(d)
    BY <1>1 DEF Record, Scan, Pull
<1>2. CASE Stat(d) \/ Probe(d) \/ CheckFresh(d) \/ Settle(d)
    BY <1>2 DEF Stat, Probe, CheckFresh, Settle
<1>3. CASE Claim(d) \/ Script(d) \/ Overwrite(d)
    BY <1>3 DEF Claim, Script, Overwrite
<1>4. CASE Launch(d)
    BY <1>4 DEF Launch
<1>5. ASSUME NEW s, NEW f, Parse(d, s, f) PROVE Quiet(c)
    BY <1>5 DEF Parse
<1>6. CASE Exit(d) \/ TimeOut(d)
    <2>1. PICK w : End(d, w)
        BY <1>6 DEF Exit, TimeOut
    <2> QED
        BY <2>1 DEF End
<1>7. ASSUME NEW s, NEW n, Move(d, s, n) PROVE Quiet(c)
    BY <1>7 DEF Move
<1>8. CASE Copy(d)
    BY <1>8 DEF Copy
<1>9. CASE Log(d)
    BY <1>9 DEF Log
<1>10. CASE Test(d)
    BY <1>10 DEF Test
<1>11. ASSUME NEW s, NEW n, Capture(d, s, n) PROVE Quiet(c)
    BY <1>11 DEF Capture
<1>12. CASE Recheck(d) \/ Keep(d) \/ Judge(d)
    BY <1>12 DEF Recheck, Keep, Judge
<1> QED
    BY <1>1, <1>2, <1>3, <1>4, <1>5, <1>6, <1>7, <1>8, <1>9, <1>10, <1>11, <1>12 DEF Acts, Takes

(* Nobody else touches it.                                                 *)
LEMMA OtherSteps ==
    ASSUME ToolTypes, [ToolNext]_toolVars, NEW c \in Call
    PROVE  Acts(c) \/ Quiet(c)
<1>1. CASE \E d \in Call \ {c} : Acts(d)
    BY <1>1, Frame
<1>2. CASE ~\E d \in Call : Acts(d)
    BY <1>2 DEF ToolNext, Acts, Edit, Swap, Tamper, Change, Others, Done, toolVars, world, Quiet
<1> QED
    BY <1>1, <1>2

(* What a step may do to an evidence name: a call claims it, or writes its *)
(* script there, or what its process said, or somebody overwrites it.      *)
Claims(d, n) == At(d, "claim") /\ n = "prepared" /\ disk[n] = Missing /\ disk'[n] = Prepared(d)
Marks(d, n)  == At(d, "script") /\ n = "prepared" /\ disk'[n] = Marked(d)
Brings(d, n) == /\ n # "prepared" /\ disk'[n] = Own(d) /\ UNCHANGED work
                /\ \/ At(d, "move") /\ n = "native"
                   \/ At(d, "moveLog") /\ n = "log"
                   \/ At(d, "copy") /\ n = "native" /\ disk[n] = Missing
                   \/ At(d, "log") /\ n = "log" /\ disk[n] = Missing
                   \/ At(d, "logOver") /\ n = "log"
Leaves(d, n) == /\ Exit(d) \/ TimeOut(d) 
                /\ n \in {"native", "json"} /\ tool \in InPlace
                /\ disk'[n] = Own(d)' /\ work'[d].says # "none"
Spoils(n)    == /\ disk[n] \notin {Missing, Earlier} /\ changes'.tamper # 0
                /\ n = "prepared" => tool # "test"
                /\ disk'[n] = Evidence("outsider", "outsider", 0, Nothing, "clean")

(* A step of one call, or of somebody else, changes a name in one of these *)
(* ways or not at all.                                                     *)
LEMMA DiskMoves ==
    ASSUME ToolTypes, [ToolNext]_toolVars, NEW n \in Place
    PROVE  \/ disk'[n] = disk[n]
           \/ \E d \in Call : Acts(d) /\ (Claims(d, n) \/ Marks(d, n) \/ Brings(d, n) \/ Leaves(d, n))
           \/ Spoils(n) /\ ~\E d \in Call : Acts(d)
<1> USE DEF ToolTypes, Place
<1>1. ASSUME NEW d \in Call, Acts(d), disk'[n] # disk[n]
      PROVE  Claims(d, n) \/ Marks(d, n) \/ Brings(d, n) \/ Leaves(d, n)
    <2>1. CASE Claim(d)
        BY <1>1, <2>1 DEF Claim, Claims, Refuse, world
    <2>2. CASE Script(d)
        BY <1>1, <2>2 DEF Script, Marks
    <2>3. CASE Move(d, "move", "native") \/ Move(d, "moveLog", "log")
        BY <1>1, <2>3 DEF Move, Brings
    <2>4. CASE Copy(d) \/ Overwrite(d)
        BY <1>1, <2>4 DEF Copy, Overwrite, Brings
    <2>5. CASE Log(d)
        BY <1>1, <2>5 DEF Log, Brings, Refuse, world
    <2>6. CASE Exit(d) \/ TimeOut(d)
        <3>1. PICK w : End(d, w)
            BY <2>6 DEF Exit, TimeOut
        <3>2. work'[d] = w /\ Leave(d, w)
            BY <3>1 DEF End
        <3> QED
            BY <1>1, <2>6, <3>2 DEF Leave, Leaves, Own
    <2>7. CASE UNCHANGED disk
        BY <1>1, <2>7
    <2> QED
        BY <1>1, <2>1, <2>2, <2>3, <2>4, <2>5, <2>6, <2>7
        DEF Acts, Takes, Record, Scan, Pull, Stat, Probe, CheckFresh, Settle, Launch, Parse, Test,
            Capture, Recheck, Keep, Judge, Refuse, world
<1>2. ASSUME ~\E d \in Call : Acts(d), disk'[n] # disk[n] PROVE Spoils(n)
    <2>1. PICK m \in Place : Tamper(m)
        BY <1>2 DEF ToolNext, Acts, Edit, Swap, Change, Others, Done, toolVars, world
    <2>2. changes'.tamper # 0
        BY <2>1 DEF Tamper, Change
    <2> QED
        BY <1>2, <2>1, <2>2 DEF Tamper, Spoils
<1> QED
    BY <1>1, <1>2

(* Inputs and the executable only change for newer ones, and so does the   *)
(* count of what was overwritten.                                          *)
LEMMA Grows ==
    ASSUME ToolTypes, [ToolNext]_toolVars
    PROVE  /\ tool' = tool /\ binary <= binary'
           /\ \A f \in File : input[f] <= input'[f]
           /\ changes'.tamper = 0 => changes.tamper = 0
<1>1. ASSUME NEW d \in Call, Acts(d)
      PROVE  tool' = tool /\ binary' = binary /\ input' = input /\ changes' = changes
    <2>1. CASE Exit(d) \/ TimeOut(d)
        <3>1. PICK w : End(d, w)
            BY <2>1 DEF Exit, TimeOut
        <3> QED
            BY <3>1 DEF End
    <2>2. CASE Takes(d)
        BY <2>2 DEF Takes, Record, Scan, Pull, Stat, Probe, CheckFresh, Claim, Script, Settle, Launch,
           Move, Copy, Log, Test, Capture, Overwrite, Parse, Recheck, Keep, Judge, Refuse, world
    <2> QED
        BY <1>1, <2>1, <2>2 DEF Acts
<1>2. ASSUME NEW f \in File, Edit(f)
      PROVE  /\ tool' = tool /\ binary' = binary /\ changes'.tamper = changes.tamper
             /\ \A g \in File : input[g] <= input'[g]
    BY <1>2 DEF Edit, Change, ToolTypes
<1>3. ASSUME Swap
      PROVE  tool' = tool /\ binary' = binary + 1 /\ input' = input /\ changes'.tamper = changes.tamper
    BY <1>3 DEF Swap, Change, ToolTypes
<1>4. ASSUME NEW n \in Place, Tamper(n)
      PROVE  tool' = tool /\ binary' = binary /\ input' = input /\ changes'.tamper # 0
    BY <1>4 DEF Tamper, Change, ToolTypes
<1>5. ASSUME UNCHANGED toolVars
      PROVE  tool' = tool /\ binary' = binary /\ input' = input /\ changes' = changes
    BY <1>5 DEF toolVars, world
<1> QED
    BY <1>1, <1>2, <1>3, <1>4, <1>5 DEF ToolNext, Acts, Done, ToolTypes

(* Nothing that a call or somebody else writes is missing or an earlier    *)
(* run's.                                                                  *)
LEMMA NewlyWritten ==
    ASSUME ToolTypes, [ToolNext]_toolVars, NEW n \in Place, disk'[n] # disk[n]
    PROVE  /\ disk'[n] # Missing /\ disk'[n].by # "earlier"
           /\ \A c \in Call : disk'[n].by = c => Acts(c)
<1>1. ASSUME NEW d \in Call, Claims(d, n) \/ Marks(d, n) \/ Brings(d, n) \/ Leaves(d, n)
      PROVE  disk'[n].by = d
    BY <1>1 DEF Claims, Marks, Brings, Leaves, Prepared, Marked, Own, Product, Evidence
<1>2. ASSUME Spoils(n) PROVE disk'[n].by = "outsider"
    BY <1>2 DEF Spoils, Evidence
<1> QED
    BY <1>1, <1>2, DiskMoves, CallAssumption DEF Missing, Evidence

(* The process of a call after its launch, its end, or a reading of its    *)
(* own, field by field.                                                    *)
LEMMA LaunchFields ==
    ASSUME ToolTypes, NEW c \in Call, Launch(c)
    PROVE  /\ work'[c].status = "running" /\ work'[c].ran = binary
           /\ work'[c].of = (IF tool \in Scripted THEN disk["prepared"].of ELSE c)
           /\ work'[c].saw["source"] = input["source"]
<1>1. work'[c] = [work[c] EXCEPT !.status = "running", !.ran = binary,
                    !.of = IF tool \in Scripted THEN disk["prepared"].of ELSE c,
                    !.saw.source = input.source]
    BY DEF Launch, ToolTypes
<1>2. work[c] \in Process
    BY DEF ToolTypes
<1> QED
    BY <1>1, <1>2 DEF Process, File

(* The process after its end.                                              *)
LEMMA EndFields ==
    ASSUME ToolTypes, NEW c \in Call, Exit(c) \/ TimeOut(c)
    PROVE  /\ Advance(c)
           /\ UNCHANGED <<tool, input, binary, changes, recd, probed, tested, basis, kept, trusted, verdict>>
           /\ work'[c].status \in {"exited", "killed"}
           /\ work'[c].ran = work[c].ran /\ work'[c].saw["source"] = work[c].saw["source"]
           /\ work'[c].status = "exited" => work'[c].saw["second"] = Finds
           /\ tool # "review" => work'[c].of = work[c].of
           /\ tool = "review" /\ work'[c].status = "exited" => work'[c].of = disk["prepared"].of
<1>1. work[c] \in Process
    BY DEF ToolTypes
<1>2. ASSUME NEW w, End(c, w) 
      PROVE  /\ Advance(c) /\ work'[c] = w
             /\ UNCHANGED <<tool, input, binary, changes, recd, probed, tested, basis, kept, trusted, verdict>>
    BY <1>2 DEF End, ToolTypes
<1>3. CASE Exit(c)
    <2> DEFINE of == IF tool = "review" THEN disk["prepared"].of ELSE work[c].of
    <2>1. PICK says \in Says :
             End(c, [work[c] EXCEPT !.status = "exited", !.saw.second = Finds, !.says = says, !.of = of])
        BY <1>3 DEF Exit, Says
    <2>2. work'[c] = [work[c] EXCEPT !.status = "exited", !.saw.second = Finds, !.says = says, !.of = of]
        BY <2>1, <1>2
    <2>3. /\ work'[c].status = "exited" /\ work'[c].ran = work[c].ran /\ work'[c].of = of
          /\ work'[c].saw["second"] = Finds /\ work'[c].saw["source"] = work[c].saw["source"]
        BY <1>1, <2>2 DEF Process, File
    <2>4. /\ Advance(c)
          /\ UNCHANGED <<tool, input, binary, changes, recd, probed, tested, basis, kept, trusted, verdict>>
        BY <2>1, <1>2
    <2> QED
        BY <2>3, <2>4
<1>4. CASE TimeOut(c)
    <2>1. PICK says \in Says : End(c, [work[c] EXCEPT !.status = "killed", !.says = says])
        BY <1>4 DEF TimeOut, Says
    <2>2. work'[c] = [work[c] EXCEPT !.status = "killed", !.says = says]
        BY <2>1, <1>2
    <2>3. /\ work'[c].status = "killed" /\ work'[c].ran = work[c].ran /\ work'[c].of = work[c].of
          /\ work'[c].saw = work[c].saw
        BY <1>1, <2>2 DEF Process
    <2>4. /\ Advance(c)
          /\ UNCHANGED <<tool, input, binary, changes, recd, probed, tested, basis, kept, trusted, verdict>>
        BY <2>1, <1>2
    <2> QED
        BY <2>3, <2>4
<1> QED
    BY <1>3, <1>4

(* The process of a comparison after a reading.                            *)
LEMMA ParseFields ==
    ASSUME ToolTypes, NEW c \in Call, NEW s, NEW f \in File, Parse(c, s, f), ~Refuse(c)
    PROVE  /\ work'[c].status = "exited" /\ work'[c].of = c /\ work'[c].says = "clean"
           /\ work'[c].saw[f] = input[f] /\ \A g \in File \ {f} : work'[c].saw[g] = work[c].saw[g]
<1>1. work'[c] = [work[c] EXCEPT !.status = "exited", !.of = c, !.saw[f] = input[f], !.says = "clean"]
    BY DEF Parse, ToolTypes
<1>2. work[c] \in Process
    BY DEF ToolTypes
<1> QED
    BY <1>1, <1>2 DEF Process

-----------------------------------------------------------------------------
(* The status of the process, and what a conclusion needs.                 *)
LEMMA StatusStep ==
    ASSUME ToolTypes, [ToolNext]_toolVars, NEW c \in Call, StatusInv(c)
    PROVE  StatusInv(c)'
<1> USE DEF ToolTypes, world
<1>0. CASE Quiet(c)
    BY <1>0 DEF Quiet, StatusInv, Running, Stopped, Launched, Past, Concluded
<1>1. ASSUME NEW s, At(c, s), s \notin {"judge", "run", "parse", "parseSecond"}, Advance(c), tool' = tool,
             UNCHANGED <<work, verdict>>
      PROVE  StatusInv(c)'
    <2>1. \A r : Past(c, r)' <=> Past(c, r) \/ r = s
        BY <1>1, Advancing
    <2> QED
        BY <1>1, <2>1 DEF StatusInv, At, Running, Stopped, Launched, Concluded
<1>2. ASSUME Refuse(c), Steps[tool][pos[c]] # "run" PROVE StatusInv(c)'
    BY <1>2 DEF Refuse, StatusInv, Running, Stopped, Launched, Past, Concluded
<1>3. CASE Launch(c)
    BY <1>3 DEF Launch, At, StatusInv, Running, Stopped, Launched, Past, Concluded
<1>4. ASSUME NEW s \in {"parse", "parseSecond"}, NEW f \in File, Parse(c, s, f), ~Refuse(c) PROVE StatusInv(c)'
    <2>1. \A r : Past(c, r)' <=> Past(c, r) \/ r = s
        BY <1>4, Advancing DEF Parse
    <2>2. "parse" = s \/ Past(c, "parse")
        BY <1>4, Located DEF Parse, At, Order, Past
    <2>3. work'[c].status = "exited"
        BY <1>4, ParseFields
    <2>4. verdict' = verdict /\ verdict[c] = "none"
        BY <1>4 DEF Parse, At
    <2> QED
        BY <2>1, <2>2, <2>3, <2>4 DEF StatusInv, Running, Stopped, Launched, Concluded
<1>5. CASE Exit(c) \/ TimeOut(c)
    <2>1. work'[c].status \in {"exited", "killed"} /\ Advance(c) /\ UNCHANGED <<tool, verdict>>
        BY <1>5, EndFields
    <2>2. At(c, "run")
        BY <1>5 DEF Exit, TimeOut, At, StatusInv
    <2>3. \A r : Past(c, r)' <=> Past(c, r) \/ r = "run"
        BY <2>1, <2>2, Advancing
    <2>4. ~Past(c, "parse")
        BY <2>2, Located DEF At, Order, Past, Preparing, Placing
    <2>5. verdict'[c] = "none"
        BY <2>1, <2>2 DEF At
    <2> QED
        BY <2>1, <2>3, <2>4, <2>5 DEF StatusInv, Running, Stopped, Launched, Concluded
<1>6. CASE Judge(c)
    <2>1. Steps[tool][pos[c]] = "judge" /\ UNCHANGED <<tool, pos, work, trusted>>
        BY <1>6 DEF Judge, At
    <2>2. verdict'[c] = Judgement(c)
        BY <1>6 DEF Judge
    <2>3. tool = "compare" => Past(c, "parse")
        BY <2>1, Located DEF Needs, Past
    <2>4. Judgement(c) \in {"pass", "fail"} => work[c].status = "exited"
        BY <2>3 DEF StatusInv, Judgement, Trusting, Review, Compare, Lint, SelfTest, Structure, Mapping,
           Timing, Drc, Lvs, Reported, Simulated, Netlist, Said
    <2>5. Judgement(c) \in {"pass", "fail"} /\ tool \in Rechecks => trusted[c]
        BY DEF Rechecks, Judgement, Trusting, Review, Compare, Lint, SelfTest, Mapping, Timing, Drc, Lvs,
           Simulated
    <2> QED
        BY <2>1, <2>2, <2>4, <2>5 DEF StatusInv, Running, Stopped, Launched, Past, Concluded
<1>7. Acts(c) => StatusInv(c)'
    BY <1>1, <1>2, <1>3, <1>4, <1>5, <1>6
    DEF Acts, Takes, Record, Scan, Pull, Stat, Probe, CheckFresh, Claim, Script, Settle,
        Move, Copy, Log, Test, Capture, Overwrite, Parse, Recheck, Keep, At, File
<1> QED
    BY <1>0, <1>7, OtherSteps

(* What was hashed lies before what the process read, and that before now; *)
(* what was looked at again was the same all the while.                    *)
LEMMA VersionStep ==
    ASSUME ToolTypes, ToolTypes', [ToolNext]_toolVars, NEW c \in Call, StatusInv(c), FileInv(c), VersionInv(c)
    PROVE  VersionInv(c)'
<1> USE DEF File, Between
<1>t. /\ tool \in DOMAIN Steps
      /\ \A f \in File : input[f] \in Nat /\ recd[c][f] \in Nat /\ work[c].saw[f] \in Nat
      /\ \A f \in File : input'[f] \in Nat /\ recd'[c][f] \in Nat /\ work'[c].saw[f] \in Nat
      /\ binary \in Nat /\ probed[c] \in Nat /\ work[c].ran \in Nat
      /\ binary' \in Nat /\ probed'[c] \in Nat /\ work'[c].ran \in Nat
    BY ToolAssumption DEF ToolTypes, Process
<1>g. /\ tool' = tool /\ binary <= binary' /\ \A f \in File : input[f] <= input'[f]
    BY Grows
<1>0. CASE Quiet(c)
    BY <1>0, <1>t, <1>g DEF Quiet, VersionInv, Launched, ReadSecond, Past
<1>1. ASSUME NEW s, At(c, s), s \notin {"judge", "run", "parse", "parseSecond", "record", "pull", "recheck"},
             Advance(c), tool' = tool,
             UNCHANGED <<work, recd, probed>>, trusted'[c] => trusted[c]
      PROVE  VersionInv(c)'
    <2>1. \A r : Past(c, r)' <=> Past(c, r) \/ r = s
        BY <1>1, Advancing
    <2> QED
        BY <1>1, <2>1, <1>t, <1>g DEF VersionInv, Launched, ReadSecond
<1>2. ASSUME UNCHANGED <<tool, pos, work, recd, probed, trusted>> PROVE VersionInv(c)'
    BY <1>2, <1>t, <1>g DEF VersionInv, Launched, ReadSecond, Past
<1>3. ASSUME NEW s \in Preparing, At(c, s), Record(c) \/ Scan(c) \/ Pull(c) \/ Stat(c), ~Refuse(c)
      PROVE  VersionInv(c)'
    <2>1. \A r : Past(c, r)' <=> Past(c, r) \/ r = s
        BY <1>3, Advancing DEF Record, Scan, Pull, Stat, world, Preparing
    <2>2. \A r : Past(c, r) => r \in Preparing
        BY <1>3, Located DEF At, Order, Past
    <2>3. ~Launched(c)
        BY <1>3, <2>2 DEF StatusInv, Preparing, At, Running
    <2>4. UNCHANGED <<tool, input, binary, work, trusted>>
        BY <1>3 DEF Record, Scan, Pull, Stat, world
    <2>5. \A f \in File : recd'[c][f] \in {recd[c][f], input[f]}
        BY <1>3, <1>t DEF Record, Scan, Pull, Stat, ToolTypes
    <2>6. probed'[c] \in {probed[c], binary}
        BY <1>3, <1>t DEF Record, Scan, Pull, Stat, ToolTypes
    <2>7. /\ s = "record" => recd'[c]["source"] = input["source"]
          /\ s = "pull"   => recd'[c]["second"] = input["second"]
        BY <1>3 DEF Record, Scan, Pull, Stat, ToolTypes, At
    <2> QED
        BY <2>1, <2>2, <2>3, <2>4, <2>5, <2>6, <2>7, <1>t
        DEF VersionInv, Launched, ReadSecond, Preparing
<1>4. CASE Launch(c)
    <2>1. Steps[tool][pos[c]] = "run" /\ ~Launched(c)
        BY <1>4 DEF Launch, At, Launched
    <2>2. \A r : Past(c, r) => r \in Preparing \cup Placing
        BY <2>1, Located DEF Order, Past
    <2>3. UNCHANGED <<tool, input, binary, pos, recd, probed, trusted>>
        BY <1>4 DEF Launch, world
    <2>4. work'[c].status = "running" /\ work'[c].ran = binary /\ work'[c].saw["source"] = input["source"]
        BY <1>4, LaunchFields
    <2> QED
        BY <2>2, <2>3, <2>4, <1>t DEF VersionInv, Launched, ReadSecond, Past, Preparing, Placing
<1>5. CASE Exit(c) \/ TimeOut(c)
    <2>1. At(c, "run") /\ Launched(c)
        BY <1>5 DEF Exit, TimeOut, At, StatusInv, Launched, Running
    <2>2. \A r : Past(c, r)' <=> Past(c, r) \/ r = "run"
        BY <1>5, <2>1, Advancing, EndFields
    <2>3. \A r : Past(c, r) => r \in Preparing \cup Placing
        BY <2>1, Located DEF At, Order, Past
    <2>4. /\ UNCHANGED <<tool, input, binary, recd, probed, trusted>>
          /\ work'[c].ran = work[c].ran /\ work'[c].saw["source"] = work[c].saw["source"]
          /\ work'[c].status = "exited" => work'[c].saw["second"] = Finds
          /\ tool = "review" /\ work'[c].status = "exited" => work'[c].of = disk["prepared"].of
        BY <1>5, EndFields
    <2>5. work'[c].status = "exited" /\ tool \in {"lint", "test", "map", "drc", "lvs"} =>
              work'[c].saw["second"] = input["second"]
        BY <2>4 DEF Finds
    <2>6. work'[c].status = "exited" /\ tool = "review" /\ work'[c].of = c => Between(c, "second")'
        BY <2>4 DEF Finds, FileInv
    <2> QED
        BY <2>1, <2>2, <2>3, <2>4, <2>5, <2>6, <1>t
        DEF VersionInv, Launched, ReadSecond, Preparing, Placing
<1>6. ASSUME NEW s \in {"parse", "parseSecond"}, NEW f \in File, s = "parse" <=> f = "source",
             Parse(c, s, f), ~Refuse(c) PROVE VersionInv(c)'
    <2>1. \A r : Past(c, r)' <=> Past(c, r) \/ r = s
        BY <1>6, Advancing DEF Parse, world
    <2>2. /\ \A r : Past(c, r) => r \in Preparing \cup {"parse"}
          /\ s = "parse" => \A r : Past(c, r) => r \in Preparing
          /\ s = "parseSecond" => Past(c, "parse")
          /\ tool = "compare"
        BY <1>6, Located DEF Parse, At, Order, Takers, Past
    <2>3. work'[c].saw[f] = input[f] /\ \A g \in File \ {f} : work'[c].saw[g] = work[c].saw[g]
        BY <1>6, ParseFields
    <2>4. UNCHANGED <<tool, input, binary, recd, probed, trusted>>
        BY <1>6 DEF Parse, world
    <2>5. s = "parseSecond" => Launched(c)
        BY <2>2 DEF StatusInv, Launched
    <2> QED
        BY <1>6, <2>1, <2>2, <2>3, <2>4, <2>5, <1>t
        DEF VersionInv, Launched, ReadSecond, Preparing, Bound
<1>7. CASE Recheck(c)
    <2>1. At(c, "recheck") /\ UNCHANGED <<tool, input, binary, recd, probed, work>>
        BY <1>7 DEF Recheck, world
    <2>2. \A r : Past(c, r)' <=> Past(c, r) \/ r = "recheck"
        BY <1>7, <2>1, Advancing DEF Recheck
    <2>3. /\ Past(c, "record")
          /\ tool \in {"timing", "drc", "lvs", "review", "compare"} => Past(c, "pull")
        BY <2>1, Located DEF At, Order, Needs, Past
    <2>4. trusted'[c] => InputsUnchanged(c) /\ ClosureUnchanged(c) /\ ToolUnchanged(c)
        BY <1>7 DEF Recheck, ToolTypes
    <2>5. trusted'[c] => input["source"] = recd[c]["source"]
        BY <2>3, <2>4 DEF InputsUnchanged, VersionInv, Read
    <2>6. trusted'[c] /\ ReadSecond(c) => input["second"] = recd[c]["second"]
        <3>1. ReadSecond(c) => tool \in Hdl \/ tool \in {"drc", "lvs", "review", "compare"}
            <4>1. Past(c, "parseSecond") => tool = "compare"
                BY <1>t, Only DEF Past, Takers, ToolTypes
            <4> QED
                BY <4>1 DEF ReadSecond, Hdl
        <3> QED
            BY <3>1, <2>3, <2>4, <1>t DEF InputsUnchanged, ClosureUnchanged, VersionInv, Read, Hdl
    <2> QED
        BY <2>1, <2>2, <2>4, <2>5, <2>6, <1>t DEF VersionInv, Launched, ReadSecond, ToolUnchanged
<1>8. Acts(c) => VersionInv(c)'
    <2>1. \A s : At(c, s) /\ trusted' = [trusted EXCEPT ![c] = FALSE] => ~trusted'[c]
        BY DEF ToolTypes
    <2> QED
    BY <1>1, <1>2, <1>3, <1>4, <1>5, <1>6, <1>7, <2>1
    DEF Acts, Takes, Record, Scan, Pull, Stat, Probe, CheckFresh, Claim, Script, Settle,
        Move, Copy, Log, Test, Capture, Overwrite, Keep, Judge, Refuse, At, File, world, ToolTypes, Preparing
<1> QED
    BY <1>0, <1>8, OtherSteps

(* A script is by whoever it leads back to.                                *)
LEMMA PreparedStep ==
    ASSUME ToolTypes, [ToolNext]_toolVars, disk["prepared"].of = disk["prepared"].by
    PROVE  disk'["prepared"].of = disk'["prepared"].by
<1>1. ASSUME NEW d \in Call PROVE Prepared(d).of = Prepared(d).by /\ Marked(d).of = Marked(d).by
    BY DEF Prepared, Marked, Evidence
<1> QED
    BY <1>1, DiskMoves DEF Claims, Marks, Brings, Leaves, Spoils, Evidence, Place

(* Its files and what it read of them are what its own process said.       *)
LEMMA FileStep ==
    ASSUME ToolTypes, ToolTypes', [ToolNext]_toolVars, NEW c \in Call, StatusInv(c), VersionInv(c), FileInv(c)
    PROVE  FileInv(c)'
<1> USE DEF File, Evidenced
<1>t. /\ tool \in DOMAIN Steps /\ Evidenced \subseteq Place /\ "prepared" \in Place
      /\ \A f \in File : input[f] \in Nat /\ recd[c][f] \in Nat /\ input'[f] \in Nat
      /\ \A n \in Place : disk[n].saw["second"] \in Nat
      /\ c \notin {"earlier", "outsider", "nobody"} /\ Missing.by # c
    BY ToolAssumption, CallAssumption DEF ToolTypes, Content, Place, Missing, Evidence
<1>g. /\ tool' = tool /\ \A f \in File : input[f] <= input'[f]
    BY Grows
<1>p. disk'["prepared"].of = disk'["prepared"].by
    BY PreparedStep DEF FileInv
<1>0. CASE Quiet(c) /\ ~Acts(c)
    <2>1. \A n \in Place : disk'[n].by = c => disk'[n] = disk[n]
        BY <1>0, NewlyWritten
    <2> QED
        BY <1>0, <1>t, <1>g, <1>p, <2>1 DEF Quiet, FileInv, Past, Prepared, Own
<1>1. ASSUME NEW s, At(c, s), s # "judge", Advance(c), tool' = tool,
             UNCHANGED <<disk, work, recd, basis, tested>>
      PROVE  FileInv(c)'
    <2>1. \A r : Past(c, r)' <=> Past(c, r) \/ r = s
        BY <1>1, Advancing
    <2> QED
        BY <1>1, <1>t, <1>g, <2>1 DEF FileInv, Prepared, Own
<1>2. ASSUME UNCHANGED <<tool, disk, pos, work, recd, basis, tested>> PROVE FileInv(c)'
    BY <1>2, <1>t, <1>g DEF FileInv, Past, Prepared, Own
<1>3. ASSUME NEW s \in Preparing, At(c, s), Record(c) \/ Scan(c) \/ Pull(c), ~Refuse(c)
      PROVE  FileInv(c)'
    <2>1. \A r : Past(c, r)' <=> Past(c, r) \/ r = s
        BY <1>3, Advancing DEF Record, Scan, Pull, world, Preparing
    <2>2. \A r : Past(c, r) => r \in Preparing
        BY <1>3, Located DEF At, Order, Past
    <2>3. UNCHANGED <<tool, disk, work, basis, tested>>
        BY <1>3 DEF Record, Scan, Pull, world
    <2> QED
        BY <2>1, <2>2, <2>3, <1>t, <1>p DEF FileInv, Preparing, Own
<1>4. ASSUME NEW s \in Placing, At(c, s), Claim(c) \/ Script(c), ~Refuse(c)
      PROVE  FileInv(c)'
    <2>1. \A r : Past(c, r)' <=> Past(c, r) \/ r = s
        BY <1>4, Advancing DEF Claim, Script, Placing
    <2>2. \A r : Past(c, r) => r \in Preparing
        BY <1>4, Located DEF At, Order, Past
    <2>3. UNCHANGED <<tool, input, work, recd, basis, tested>>
        BY <1>4 DEF Claim, Script
    <2>4. \A n \in Evidenced : disk'[n] = disk[n]
        BY <1>4 DEF Claim, Script, ToolTypes, Place
    <2>5. disk'["prepared"] \in {Prepared(c), Marked(c)} /\ (tool # "review" => disk'["prepared"] = Prepared(c))
        BY <1>4, <1>t DEF Claim, Script, ToolTypes, Marked
    <2>6. Prepared(c)' = Prepared(c)
        BY <2>3 DEF Prepared
    <2>7. /\ Prepared(c).saw["second"] = recd[c]["second"]
          /\ Marked(c).saw["second"] \in {recd[c]["second"], input["second"]}
        BY DEF Prepared, Marked, Evidence, ToolTypes
    <2>8. recd[c]["second"] <= input["second"]
        BY DEF VersionInv
    <2>9. /\ recd'[c]["second"] <= disk'["prepared"].saw["second"]
          /\ disk'["prepared"].saw["second"] <= input'["second"]
        BY <2>3, <2>5, <2>7, <2>8, <1>t
    <2>10. \A n \in Evidenced : disk'[n].by # c
        BY <2>2, <2>4 DEF FileInv, Preparing
    <2> QED
        BY <2>1, <2>2, <2>3, <2>5, <2>6, <2>9, <2>10, <1>t, <1>p DEF FileInv, Preparing, Placing, Own
<1>5. ASSUME ~Past(c, "run"), ~Past(c, "capture"), ~Past(c, "captureLog"), ~Past(c, "test"),
             UNCHANGED <<tool, input, recd, basis, tested>>,
             \A r : Past(c, r) => Past(c, r)',
             \A n \in Evidenced : disk'[n].by = c => Past(c, "run")' /\ disk'[n] = Own(c)',
             disk'["prepared"] = disk["prepared"]
      PROVE  FileInv(c)'
    <2>1. basis[c] = {} /\ tested[c] = Missing
        BY <1>5 DEF FileInv
    <2>2. Prepared(c)' = Prepared(c)
        BY <1>5 DEF Prepared
    <2>3. \A n \in Evidenced : (disk[n].by)' = c => Past(c, "run")' /\ (disk[n] = Own(c))'
        BY <1>5
    <2> QED
        BY <1>5, <2>1, <2>2, <2>3, <1>t, <1>p DEF FileInv
<1>6. CASE Launch(c)
    <2>1. Steps[tool][pos[c]] = "run" /\ UNCHANGED <<tool, input, pos, disk, recd, basis, tested>>
        BY <1>6 DEF Launch, At, world
    <2>2. \A r : Past(c, r) => r \in Preparing \cup Placing
        BY <2>1, Located DEF Order, Past
    <2>3. \A r : Past(c, r)' <=> Past(c, r)
        BY <2>1 DEF Past
    <2>4. \A n \in Evidenced : disk'[n].by # c
        BY <2>1, <2>2 DEF FileInv, Preparing, Placing
    <2> QED
        BY <2>1, <2>2, <2>3, <2>4, <1>5 DEF Preparing, Placing
<1>7. ASSUME NEW s \in {"parse", "parseSecond"}, NEW f \in File, Parse(c, s, f), ~Refuse(c) PROVE FileInv(c)'
    <2>1. \A r : Past(c, r)' <=> Past(c, r) \/ r = s
        BY <1>7, Advancing DEF Parse, world
    <2>2. \A r : Past(c, r) => r \in Preparing \cup {"parse"}
        BY <1>7, Located DEF Parse, At, Order, Past
    <2>3. UNCHANGED <<tool, input, disk, recd, basis, tested>>
        BY <1>7 DEF Parse, world
    <2>4. \A n \in Evidenced : disk'[n].by # c
        BY <2>2, <2>3 DEF FileInv, Preparing
    <2> QED
        BY <2>1, <2>2, <2>3, <2>4, <1>5 DEF Preparing
<1>8. CASE Exit(c) \/ TimeOut(c)
    <2>1. At(c, "run") /\ UNCHANGED <<tool, input, recd, basis, tested>>
        BY <1>8, EndFields DEF Exit, TimeOut, At, StatusInv
    <2>2. \A r : Past(c, r)' <=> Past(c, r) \/ r = "run"
        BY <1>8, <2>1, Advancing, EndFields
    <2>3. \A r : Past(c, r) => r \in Preparing \cup Placing
        BY <2>1, Located DEF At, Order, Past
    <2>4. \A n \in Place : disk'[n] = disk[n] \/ (n # "prepared" /\ disk'[n] = Own(c)')
        <3>1. PICK w : End(c, w)
            BY <1>8 DEF Exit, TimeOut
        <3>2. work'[c] = w /\ Leave(c, w)
            BY <3>1 DEF End, ToolTypes
        <3>3. Own(c)' = Product(c, w)
            BY <3>2 DEF Own, Product
        <3> QED
            BY <3>2, <3>3 DEF Leave
    <2>5. \A n \in Evidenced : disk'[n].by = c => Past(c, "run")' /\ disk'[n] = Own(c)'
        BY <2>2, <2>3, <2>4, <1>t DEF FileInv, Preparing, Placing
    <2> QED
        BY <2>1, <2>2, <2>3, <2>4, <2>5, <1>5, <1>t DEF Preparing, Placing
<1>9. ASSUME NEW s \in {"move", "moveLog", "copy", "log", "logOver"}, At(c, s), Advance(c),
             UNCHANGED <<tool, work, recd, basis, tested>>,
             \A n \in Place : disk'[n] = disk[n] \/ (n # "prepared" /\ disk'[n] = Own(c))
      PROVE  FileInv(c)'
    <2>1. \A r : Past(c, r)' <=> Past(c, r) \/ r = s
        BY <1>9, Advancing
    <2>2. Past(c, "run")
        BY <1>9, Located DEF At, Needs, Takers, Past, Preparing, Placing, Sealed
    <2>3. Own(c)' = Own(c) /\ Prepared(c)' = Prepared(c)
        BY <1>9 DEF Own, Prepared
    <2>4. \A n \in Evidenced : disk'[n].by = c => Past(c, "run")' /\ disk'[n] = Own(c)'
        BY <1>9, <2>1, <2>2, <2>3, <1>t DEF FileInv
    <2> QED
        BY <1>9, <2>1, <2>3, <2>4, <1>t, <1>g, <1>p DEF FileInv
<1>10. CASE Move(c, "move", "native") \/ Move(c, "moveLog", "log") \/ Copy(c) \/ (Log(c) /\ ~Refuse(c)) \/ Overwrite(c)
    <2>1. CASE Move(c, "move", "native") \/ Move(c, "moveLog", "log")
        BY <2>1, <1>9 DEF Move, ToolTypes
    <2>2. CASE Copy(c)
        <3>1. \A n \in Place : disk'[n] = disk[n] \/ (n # "prepared" /\ disk'[n] = Own(c))
            BY <2>2 DEF Copy, ToolTypes
        <3> QED
            BY <2>2, <3>1, <1>9 DEF Copy
    <2>3. CASE Log(c) /\ ~Refuse(c)
        <3>1. \A n \in Place : disk'[n] = disk[n] \/ (n # "prepared" /\ disk'[n] = Own(c))
            BY <2>3 DEF Log, world, ToolTypes
        <3> QED
            BY <2>3, <3>1, <1>9 DEF Log, world
    <2>4. CASE Overwrite(c)
        BY <2>4, <1>9 DEF Overwrite, ToolTypes
    <2> QED
        BY <1>10, <2>1, <2>2, <2>3, <2>4
<1>11. CASE Test(c)
    <2>1. At(c, "test") /\ UNCHANGED <<tool, disk, work, recd, basis>>
        BY <1>11 DEF Test, world
    <2>2. \A r : Past(c, r)' <=> Past(c, r) \/ r = "test"
        BY <1>11, <2>1, Advancing DEF Test
    <2>3. ASSUME NEW says, NEW x, x = [disk["native"] EXCEPT !.says = says]
          PROVE  /\ x.by = disk["native"].by /\ x.of = disk["native"].of
                 /\ x.ran = disk["native"].ran /\ x.saw = disk["native"].saw
        <3>1. disk["native"] \in Content
            BY <1>t DEF ToolTypes
        <3> QED
            BY <2>3, <3>1 DEF Content
    <2>4. tested'[c] = tested[c] \/ \E says \in Says : tested'[c] = [disk["native"] EXCEPT !.says = says]
        BY <1>11 DEF Test, Says, ToolTypes
    <2>5. tested'[c].by = c => /\ tested'[c].of = work[c].of
                              /\ tested'[c].saw = work[c].saw /\ tested'[c].ran = work[c].ran
        <3>1. disk["native"].by = c => /\ disk["native"].of = work[c].of
                                       /\ disk["native"].saw = work[c].saw /\ disk["native"].ran = work[c].ran
            BY DEF FileInv, Own, Product, Evidence
        <3>2. CASE tested'[c] = tested[c]
            BY <3>2 DEF FileInv
        <3>3. CASE \E says \in Says : tested'[c] = [disk["native"] EXCEPT !.says = says]
            <4>1. PICK says \in Says : tested'[c] = [disk["native"] EXCEPT !.says = says]
                BY <3>3
            <4>2. /\ tested'[c].by = disk["native"].by /\ tested'[c].of = disk["native"].of
                  /\ tested'[c].ran = disk["native"].ran /\ tested'[c].saw = disk["native"].saw
                BY <4>1, <2>3
            <4> QED
                BY <4>2, <3>1
        <3> QED
            BY <2>4, <3>2, <3>3
    <2> QED
        BY <2>1, <2>2, <2>5, <1>t, <1>g DEF FileInv, Prepared, Own
<1>12. ASSUME NEW s \in {"capture", "captureJson", "captureLog"}, NEW n \in Evidenced, Capture(c, s, n)
       PROVE  FileInv(c)'
    <2>1. At(c, s) /\ UNCHANGED <<tool, disk, work, recd, tested>>
        BY <1>12 DEF Capture, world
    <2>2. \A r : Past(c, r)' <=> Past(c, r) \/ r = s
        BY <1>12, <2>1, Advancing DEF Capture
    <2>3. basis'[c] = basis[c] \/ basis'[c] = basis[c] \cup {disk[n]}
        BY <1>12 DEF Capture, ToolTypes
    <2>4. s = "captureJson" => Past(c, "capture")
        BY <2>1, Located DEF At, Order, Past
    <2>5. \A g \in basis'[c] : g.by = c => g = Own(c)
        BY <2>3 DEF FileInv
    <2> QED
        BY <2>1, <2>2, <2>4, <2>5, <1>t, <1>g DEF FileInv, Prepared, Own
<1>13. Acts(c) => FileInv(c)'
    BY <1>1, <1>2, <1>3, <1>4, <1>6, <1>7, <1>8, <1>10, <1>11, <1>12
    DEF Acts, Takes, Record, Scan, Pull, Stat, Probe, CheckFresh, Claim, Script, Settle,
        Recheck, Keep, Judge, Refuse, At, world, Preparing, Placing
<1> QED
    BY <1>0, <1>13, OtherSteps

(* A retained script is the one the process ran, a retained output the one *)
(* that was read.                                                          *)
LEMMA ScriptStep ==
    ASSUME ToolTypes, ToolTypes', [ToolNext]_toolVars, NEW c \in Call,
           StatusInv(c), FileInv(c), ScriptInv(c)
    PROVE  ScriptInv(c)'
<1> USE DEF File
<1>t. /\ tool \in DOMAIN Steps /\ "prepared" \in Place /\ "native" \in Place
      /\ c \notin {"earlier", "outsider", "nobody"} /\ Missing.by # c /\ tool' = tool
    BY ToolAssumption, CallAssumption, Grows DEF ToolTypes, Place, Missing, Evidence
<1>0. ASSUME UNCHANGED <<work[c], recd[c], basis[c], kept[c]>>,
             trusted'[c] => trusted[c], Past(c, "keep")' => Past(c, "keep"),
             disk'["prepared"] = disk["prepared"] \/ disk'["prepared"].by # c,
             disk'["native"] = disk["native"] \/ disk'["native"].by # c
      PROVE  ScriptInv(c)'
    <2>1. Own(c)' = Own(c)
        BY <1>0 DEF Own
    <2> QED
        BY <1>0, <1>t, <2>1 DEF ScriptInv, Launched
<1>1. CASE Quiet(c) /\ ~Acts(c)
    <2>1. \A n \in Place : disk'[n] = disk[n] \/ disk'[n].by # c
        BY <1>1, NewlyWritten
    <2> QED
        BY <1>1, <1>t, <1>0, <2>1 DEF Quiet, Past
<1>2. ASSUME NEW s, s \notin {"judge", "keep"}, At(c, s), Advance(c),
             UNCHANGED <<work, recd, basis, kept>>, trusted'[c] => trusted[c],
             disk'["prepared"] = disk["prepared"], disk'["native"] = disk["native"]
      PROVE  ScriptInv(c)'
    BY <1>2, <1>t, <1>0, Advancing
<1>3. CASE (Record(c) \/ Scan(c) \/ Pull(c)) /\ ~Refuse(c)
    <2>1. PICK s \in Preparing : At(c, s)
        BY <1>3 DEF Record, Scan, Pull, Preparing
    <2>2. Advance(c) /\ UNCHANGED <<disk, work, basis, kept, trusted>>
        BY <1>3 DEF Record, Scan, Pull, world
    <2>3. \A r : Past(c, r) => r \in Preparing
        BY <2>1, Located DEF At, Order, Past
    <2>4. \A r : Past(c, r)' => r \in Preparing
        BY <2>1, <2>2, <2>3, <1>t, Advancing DEF Preparing
    <2>5. disk["prepared"].by # c /\ ~Launched(c)
        BY <2>1, <2>3 DEF FileInv, StatusInv, Launched, Preparing, At
    <2> QED
        BY <2>2, <2>4, <2>5, <1>t DEF ScriptInv, Launched, Preparing
<1>4. CASE (Claim(c) \/ Script(c)) /\ ~Refuse(c)
    <2>1. PICK s \in Placing : At(c, s)
        BY <1>4 DEF Claim, Script, Placing
    <2>2. Advance(c) /\ UNCHANGED <<work, recd, basis, kept, trusted>>
        BY <1>4 DEF Claim, Script, world
    <2>3. \A r : Past(c, r) => r \in Preparing
        BY <2>1, Located DEF At, Order, Past
    <2>4. \A r : Past(c, r)' => r \in Preparing \cup Placing
        BY <2>1, <2>2, <2>3, <1>t, Advancing DEF Placing
    <2>5. ~Launched(c)
        BY <2>1, <2>3 DEF StatusInv, Launched, Preparing, Placing, At
    <2>6. disk'["native"] = disk["native"]
        BY <1>4, <1>t DEF Claim, Script, ToolTypes, Place
    <2> QED
        BY <2>2, <2>4, <2>5, <2>6, <1>t DEF ScriptInv, Launched, Preparing, Placing
<1>5. CASE Launch(c)
    <2>1. At(c, "run") /\ UNCHANGED <<pos, recd, basis, kept, trusted, disk>>
        BY <1>5 DEF Launch, world
    <2>2. work'[c].status = "running"
          /\ work'[c].of = (IF tool \in Scripted THEN disk["prepared"].of ELSE c)
        BY <1>5, LaunchFields
    <2>3. ~Past(c, "keep")'
        BY <2>1, <1>t, Located DEF At, Order, Past, Preparing, Placing
    <2>4. disk["prepared"].of = disk["prepared"].by
        BY DEF FileInv
    <2> QED
        BY <2>1, <2>2, <2>3, <2>4, <1>t DEF ScriptInv, Launched, Sealed, Scripted
<1>6. CASE Exit(c) \/ TimeOut(c)
    <2>1. At(c, "run") /\ UNCHANGED <<recd, basis, kept, trusted>> /\ Launched(c)
        BY <1>6, EndFields DEF Exit, TimeOut, At, StatusInv, Launched, Running
    <2>2. ~Past(c, "keep")'
        BY <1>6, <2>1, <1>t, Located, Advancing, EndFields DEF At, Order, Past, Preparing, Placing
    <2>3. /\ disk'["prepared"] = disk["prepared"]
          /\ tool \in Sealed => disk'["native"] = disk["native"]
        <3>1. PICK w : End(c, w)
            BY <1>6 DEF Exit, TimeOut
        <3> QED
            BY <3>1, <1>t DEF End, Leave, Sealed, InPlace, ToolTypes
    <2>4. /\ tool # "review" => work'[c].of = work[c].of
          /\ tool = "timing" /\ work'[c].status = "exited" => work'[c].saw["second"] = disk["prepared"].saw["second"]
        BY <1>6, EndFields DEF Finds
    <2>5. tool = "timing" /\ disk["prepared"].by = c => disk["prepared"].saw["second"] = recd[c]["second"]
        BY DEF FileInv, Prepared, Evidence
    <2> QED
        BY <2>1, <2>2, <2>3, <2>4, <2>5, <1>t DEF ScriptInv, Launched, Sealed, Scripted
<1>7. ASSUME NEW s \in {"parse", "parseSecond"}, NEW f \in File, Parse(c, s, f), ~Refuse(c) PROVE ScriptInv(c)'
    <2>1. tool = "compare"
        BY <1>7, Located DEF Parse, At, Takers
    <2>2. work'[c].of = c
        BY <1>7, ParseFields
    <2> QED
        BY <2>1, <2>2, <1>t DEF ScriptInv, Sealed, Scripted
<1>8. CASE Move(c, "move", "native")
    <2>1. tool \notin Sealed
        BY <1>8, Located DEF Move, At, Takers, Sealed
    <2>2. UNCHANGED <<work, recd, basis, kept, trusted>>
        BY <1>8 DEF Move
    <2> QED
        BY <2>1, <2>2, <1>t DEF ScriptInv, Launched
<1>9. CASE Copy(c)
    <2>1. At(c, "copy") /\ Advance(c) /\ UNCHANGED <<work, recd, basis, kept>>
        BY <1>9 DEF Copy
    <2>2. /\ disk'["prepared"] = disk["prepared"] /\ (trusted'[c] => trusted[c])
        BY <1>9, <1>t DEF Copy, ToolTypes, Place
    <2>3. \A r : Past(c, r) => r \in Preparing \cup Placing \cup {"run"}
        BY <2>1, Located DEF At, Order, Past
    <2>4. basis[c] = {}
        BY <2>3 DEF FileInv, Preparing, Placing
    <2>5. ~Past(c, "keep")'
        BY <2>1, <2>3, <1>t, Advancing DEF Preparing, Placing
    <2> QED
        BY <2>1, <2>2, <2>4, <2>5, <1>t DEF ScriptInv, Launched
<1>10. CASE Move(c, "moveLog", "log") \/ Overwrite(c) \/ (Log(c) /\ ~Refuse(c))
    <2>1. disk'["prepared"] = disk["prepared"] /\ disk'["native"] = disk["native"]
        BY <1>10, <1>t DEF Move, Overwrite, Log, world, ToolTypes
    <2>2. trusted'[c] => trusted[c]
        BY <1>10 DEF Move, Overwrite, Log, ToolTypes
    <2> QED
        BY <1>10, <2>1, <2>2, <1>2 DEF Move, Overwrite, Log, world
<1>11. ASSUME NEW s \in {"capture", "captureJson", "captureLog"}, NEW n \in Place, Capture(c, s, n),
              s = "capture" => n = "native" PROVE ScriptInv(c)'
    <2>1. At(c, s) /\ Advance(c) /\ UNCHANGED <<disk, work, recd>>
        BY <1>11 DEF Capture, world
    <2>2. ~Past(c, "keep")'
        BY <2>1, <1>t, Located, Advancing DEF At, Order, Past
    <2>3. s = "capture" \/ tool \notin Sealed
        BY <2>1, Located DEF At, Takers, Sealed
    <2>4. PICK found \in SUBSET {disk[n]} :
              /\ basis'[c] = basis[c] \cup found
              /\ kept'[c] = IF tool \in {"drc", "lvs", "xyce"} THEN kept[c] \cup found ELSE kept[c]
        <3> DEFINE all == IF Looks(c) /\ disk[n] # Missing THEN {disk[n]} ELSE {}
        <3>1. /\ basis'[c] = basis[c] \cup all
              /\ kept'[c] = IF tool \in {"drc", "lvs", "xyce"} THEN kept[c] \cup all ELSE kept[c]
            BY <1>11 DEF Capture, ToolTypes
        <3> QED
            BY <3>1
    <2> QED
        BY <1>11, <2>1, <2>2, <2>3, <2>4, <1>t DEF ScriptInv, Launched
<1>12. CASE Keep(c)
    <2>1. At(c, "keep") /\ UNCHANGED <<disk, work, recd, basis>>
        BY <1>12 DEF Keep, world
    <2>2. tool \notin {"drc", "lvs", "xyce"}
        BY <2>1, Located DEF At, Takers
    <2>3. kept'[c] = {disk["native"]} \ {Missing} /\ (trusted'[c] => Retained(c))
        BY <1>12 DEF Keep, ToolTypes
    <2>4. Own(c)' = Own(c) /\ Own(c).by = c /\ Prepared(c).by = c
        BY <2>1 DEF Own, Product, Prepared, Evidence
    <2>5. ASSUME tool \in Sealed, trusted'[c]
          PROVE  /\ disk["prepared"].by = c /\ disk["native"].by = c
                 /\ disk["native"] = Own(c) /\ Own(c) \in kept'[c] /\ Launched(c)
        <3>1. Past(c, "run")
            BY <2>1, <2>5, Located DEF At, Needs, Past, Preparing, Placing, Sealed, Takers
        <3>2. Launched(c)
            BY <3>1 DEF StatusInv, Stopped, Launched
        <3> QED
            BY <2>3, <2>4, <2>5, <3>2, <1>t DEF Retained, Sealed
    <2> QED
        BY <2>1, <2>2, <2>4, <2>5, <1>t DEF ScriptInv, Launched
<1>13. CASE Recheck(c)
    BY <1>13, <1>2 DEF Recheck, world, ToolTypes
<1>14. CASE Test(c) \/ ((Stat(c) \/ Probe(c) \/ CheckFresh(c) \/ Settle(c)) /\ ~Refuse(c))
    BY <1>14, <1>2 DEF Test, Stat, Probe, CheckFresh, Settle, world
<1>15. CASE Judge(c) \/ Refuse(c)
    BY <1>15, <1>t, <1>0 DEF Judge, Refuse, world, Past
<1> QED
    BY <1>1, <1>3, <1>4, <1>5, <1>6, <1>7, <1>8, <1>9, <1>10, <1>11, <1>12, <1>13, <1>14, <1>15, OtherSteps
    DEF Acts, Takes, Script, Overwrite, Place

(* A name that is taken stays taken, and trust that is lost stays lost.    *)
LEMMA NeverFree ==
    ASSUME ToolTypes, [ToolNext]_toolVars
    PROVE  /\ \A n \in Place : disk[n] # Missing => disk'[n] # Missing
           /\ \A c \in Call : trusted'[c] => trusted[c]
<1>1. \A n \in Place : disk[n] # Missing => disk'[n] # Missing
    BY NewlyWritten
<1>2. ASSUME NEW c \in Call, Acts(c), trusted'[c] PROVE trusted[c]
    <2>1. CASE Exit(c) \/ TimeOut(c)
        BY <1>2, <2>1, EndFields
    <2>2. CASE Takes(c)
        BY <1>2, <2>2 DEF ToolTypes, Takes, Record, Scan, Pull, Stat, Probe, CheckFresh, Claim, Script, Settle,
           Launch, Move, Copy, Log, Test, Capture, Overwrite, Parse, Recheck, Keep, Judge, Refuse, world
    <2> QED
        BY <1>2, <2>1, <2>2 DEF Acts
<1> QED
    BY <1>1, <1>2, OtherSteps DEF Quiet

(* Only a call that takes a step has it behind it then.                    *)
LEMMA NewlyPast ==
    ASSUME ToolTypes, [ToolNext]_toolVars, NEW c \in Call, StatusInv(c), NEW s, Past(c, s)', ~Past(c, s)
    PROVE  Acts(c) /\ At(c, s) /\ Advance(c) /\ ~Refuse(c)
<1>1. Acts(c)
    <2>1. ~Quiet(c)
        BY DEF Quiet, Past
    <2> QED
        BY <2>1, OtherSteps
<1>2. ~UNCHANGED <<tool, pos>>
    BY DEF Past
<1>3. PICK r : At(c, r) /\ r # "judge" /\ Advance(c) /\ tool' = tool
    <2>1. CASE Exit(c) \/ TimeOut(c)
        BY <2>1, EndFields DEF Exit, TimeOut, At, StatusInv
    <2>2. CASE Takes(c)
        BY <1>2, <2>2 DEF Takes, Record, Scan, Pull, Stat, Probe, CheckFresh, Claim, Script, Settle,
           Launch, Move, Copy, Log, Test, Capture, Overwrite, Parse, Recheck, Keep, Judge, Refuse, world
    <2> QED
        BY <1>1, <2>1, <2>2 DEF Acts
<1>4. r = s
    BY <1>3, Advancing
<1>5. ~Refuse(c)
    BY <1>2 DEF Refuse, world
<1> QED
    BY <1>1, <1>3, <1>4, <1>5

(* Which step a call takes is where it is.                                 *)
LEMMA ActsAt ==
    ASSUME ToolTypes, NEW c \in Call, StatusInv(c), Acts(c), ~Refuse(c)
    PROVE  /\ At(c, "log") => Log(c)
           /\ At(c, "claim") => Claim(c)
           /\ At(c, "fresh") => CheckFresh(c)
           /\ At(c, "test") => Test(c)
           /\ At(c, "move") => Move(c, "move", "native")
           /\ At(c, "moveLog") => Move(c, "moveLog", "log")
BY DEF Acts, Takes, Exit, TimeOut, StatusInv, At, Record, Scan, Pull, Stat, Probe, CheckFresh, Claim,
       Script, Settle, Launch, Move, Copy, Log, Test, Capture, Overwrite, Parse, Recheck, Keep, Judge

(* One transcript, one build directory, one compiled self-test.            *)
LEMMA AloneStep ==
    ASSUME ToolTypes, ToolTypes', [ToolNext]_toolVars,
           \A c \in Call : StatusInv(c) /\ FileInv(c) /\ AloneInv(c), NEW c \in Call
    PROVE  AloneInv(c)'
<1>t. /\ tool \in DOMAIN Steps /\ Place = {"prepared", "log", "native", "json"} /\ tool' = tool
      /\ c \notin {"earlier", "outsider", "nobody"} /\ Missing.by # c
      /\ changes'.tamper = 0 => changes.tamper = 0
    BY ToolAssumption, CallAssumption, Grows DEF ToolTypes, Place, Missing, Evidence
<1>1. ASSUME NEW d \in Call, Wrote(d)', ~Wrote(d)
      PROVE  /\ disk["log"] = Missing /\ disk'["log"] # Missing
             /\ \A e \in Call \ {d} : Wrote(e)' => Wrote(e)
    <2>1. Past(d, "log")' /\ ~Past(d, "log")
        BY <1>1, NeverFree DEF Wrote
    <2>2. Acts(d) /\ Log(d) /\ ~Refuse(d)
        <3>1. StatusInv(d)
            OBVIOUS
        <3>2. Acts(d) /\ At(d, "log") /\ ~Refuse(d)
            BY <2>1, <3>1, NewlyPast
        <3> QED
            BY <3>1, <3>2, ActsAt
    <2>3. disk["log"] = Missing /\ disk'["log"] = Own(d)
        BY <1>1, <2>2, <1>t DEF Log, Wrote, ToolTypes
    <2>4. Own(d) # Missing
        BY CallAssumption DEF Own, Product, Evidence, Missing
    <2>5. \A e \in Call \ {d} : Quiet(e)
        BY <2>2, Frame
    <2> QED
        BY <2>3, <2>4, <2>5 DEF Quiet, Wrote, Past
<1>2. Wrote(c)' => disk'["log"] # Missing
    BY <1>1, <1>t, NeverFree DEF AloneInv
<1>3. ASSUME NEW d \in Call \ {c} PROVE ~(Wrote(c)' /\ Wrote(d)')
    BY <1>1 DEF AloneInv
<1>4. ASSUME tool = "test", Past(c, "claim")' PROVE disk'["prepared"].by = c
    <2>1. CASE ~Past(c, "claim")
        <3>1. Claim(c) /\ ~Refuse(c)
            <4>1. StatusInv(c)
                OBVIOUS
            <4>2. Acts(c) /\ At(c, "claim") /\ ~Refuse(c)
                BY <1>4, <2>1, <4>1, NewlyPast
            <4> QED
                BY <4>1, <4>2, ActsAt
        <3> QED
            BY <3>1, <1>t DEF Claim, ToolTypes, Prepared, Evidence
    <2>2. CASE Past(c, "claim")
        <3>1. disk["prepared"].by = c
            BY <1>4, <2>2 DEF AloneInv
        <3>2. ASSUME NEW d \in Call PROVE ~At(d, "script")
            BY <1>4, Located DEF At, Takers
        <3> QED
            BY <1>4, <1>t, <3>1, <3>2, DiskMoves DEF Claims, Marks, Brings, Leaves, Spoils
    <2> QED
        BY <2>1, <2>2
<1>5. ASSUME tool = "test", NEW d \in Call, Running(d) PROVE disk["prepared"].by = d
    <2>1. Past(d, "claim")
        BY <1>5, Located DEF StatusInv, Needs, Past
    <2> QED
        BY <1>5, <2>1 DEF AloneInv
<1>6. ASSUME tool = "test", work[c].status = "exited" PROVE disk["prepared"].by = c
    <2>1. Past(c, "run")
        <3>1. Past(c, "run") \/ Past(c, "parse")
            BY <1>6 DEF StatusInv, Launched, Running
        <3>2. ~Past(c, "parse")
            BY <1>6, <1>t, Only DEF Past, Takers, ToolTypes
        <3> QED
            BY <3>1, <3>2
    <2>2. Past(c, "claim")
        BY <1>6, <2>1, Located DEF Needs, Past
    <2> QED
        BY <1>6, <2>2 DEF AloneInv
<1>7. ASSUME tool = "test", changes'.tamper = 0, disk["native"].by = c, work[c].status = "exited"
      PROVE  disk'["native"].by = c
    <2>1. ASSUME NEW d \in Call PROVE ~At(d, "move") /\ ~At(d, "copy")
        BY <1>7, Located DEF At, Takers, Sealed
    <2>2. ASSUME NEW d \in Call, Leaves(d, "native") PROVE disk'["native"].by = c
        <3>1. Running(d)
            BY <2>2 DEF Leaves, Exit, TimeOut
        <3>2. d = c
            BY <1>5, <1>6, <1>7, <3>1
        <3> QED
            BY <2>2, <3>2 DEF Leaves, Own, Product, Evidence
    <2> QED
        BY <1>7, <1>t, <2>1, <2>2, DiskMoves DEF Claims, Marks, Brings, Spoils
<1>8. ASSUME tool = "test", changes'.tamper = 0, work'[c].status = "exited", work'[c].says # "none"
      PROVE  disk'["native"].by = c
    <2>1. CASE work'[c] = work[c]
        BY <1>7, <1>8, <1>t, <2>1 DEF AloneInv
    <2>2. CASE Exit(c) \/ TimeOut(c)
        <3>1. PICK w : End(c, w)
            BY <2>2 DEF Exit, TimeOut
        <3>2. work'[c] = w /\ Leave(c, w)
            BY <3>1 DEF End, ToolTypes
        <3> QED
            BY <1>8, <1>t, <3>2 DEF Leave, InPlace, Product, Evidence
    <2>3. CASE Acts(c) /\ ~(Exit(c) \/ TimeOut(c)) /\ work'[c] # work[c]
        <3>1. ASSUME NEW s \in {"parse", "parseSecond"}, NEW f \in File PROVE ~Parse(c, s, f)
            BY <1>8, Located DEF Parse, At, Takers
        <3>2. Launch(c)
            BY <2>3, <3>1 DEF Acts, Takes, Record, Scan, Pull, Stat, Probe, CheckFresh, Claim, Script, Settle,
               Move, Copy, Log, Test, Capture, Overwrite, Recheck, Keep, Judge, Refuse, world, File
        <3> QED
            BY <1>8, <3>2, LaunchFields
    <2> QED
        BY <2>1, <2>2, <2>3, OtherSteps DEF Quiet
<1>9. ASSUME tool = "test", changes'.tamper = 0, tested'[c] # Missing PROVE tested'[c].by = c
    <2>1. CASE tested'[c] = tested[c]
        BY <1>9, <1>t, <2>1 DEF AloneInv
    <2>2. CASE tested'[c] # tested[c]
        <3>1. Test(c)
            <4>1. Acts(c)
                BY <2>2, OtherSteps DEF Quiet
            <4> QED
                BY <2>2, <4>1, EndFields DEF Acts, Takes, Record, Scan, Pull, Stat, Probe, CheckFresh, Claim, Script,
                   Settle, Launch, Parse, Move, Copy, Log, Capture, Overwrite, Recheck, Keep, Judge, Refuse, world
        <3>2. work[c].status = "exited" /\ work[c].says = "clean"
            BY <2>2, <3>1 DEF Test
        <3>3. PICK says \in Says : tested'[c] = [disk["native"] EXCEPT !.says = says]
            BY <2>2, <3>1 DEF Test, Says, ToolTypes
        <3>4. disk["native"].by = c
            BY <1>9, <1>t, <3>2 DEF AloneInv
        <3>5. disk["native"] \in Content
            BY <1>t DEF ToolTypes
        <3> QED
            BY <3>3, <3>4, <3>5 DEF Content
    <2> QED
        BY <2>1, <2>2
<1> QED
    BY <1>2, <1>3, <1>4, <1>8, <1>9, <1>t DEF AloneInv

(* Nothing of an earlier run is at a name that was asked to be free, or    *)
(* that a file was moved to; none was read there.                          *)
LEMMA FreshStep ==
    ASSUME ToolTypes, ToolTypes', [ToolNext]_toolVars, NEW c \in Call, StatusInv(c), FreshInv(c)
    PROVE  FreshInv(c)'
<1>t. /\ tool \in DOMAIN Steps /\ Place = {"prepared", "log", "native", "json"} /\ tool' = tool
      /\ c # "earlier" /\ Missing.by # "earlier" /\ Own(c).by # "earlier" /\ Fresh[tool] \subseteq Place
    BY ToolAssumption, CallAssumption, Grows DEF ToolTypes, Place, Missing, Evidence, Own, Product, Fresh, Steps
<1>1. \A n \in Place : disk[n].by # "earlier" => disk'[n].by # "earlier"
    BY NewlyWritten
<1>2. ASSUME Past(c, "fresh")', NEW n \in Fresh[tool] PROVE disk'[n].by # "earlier"
    <2>1. CASE ~Past(c, "fresh")
        <3>1. Acts(c) /\ At(c, "fresh") /\ ~Refuse(c)
            BY <1>2, <2>1, NewlyPast
        <3>2. CheckFresh(c)
            BY <3>1, ActsAt
        <3> QED
            BY <1>1, <1>t, <3>1, <3>2 DEF CheckFresh, AllFree
    <2> QED
        BY <1>1, <1>2, <1>t, <2>1 DEF FreshInv
<1>3. ASSUME NEW s, NEW n \in Place, Past(c, s)', Produced(c)', s \in {"move", "moveLog"},
             Past(c, s) /\ Produced(c) => disk[n].by # "earlier",
             At(c, s) /\ ~Refuse(c) /\ Acts(c) => Move(c, s, n)
      PROVE  disk'[n].by # "earlier"
    <2>1. CASE ~Past(c, s)
        <3>1. Acts(c) /\ At(c, s) /\ ~Refuse(c)
            BY <1>3, <2>1, NewlyPast
        <3>2. Move(c, s, n)
            BY <1>3, <3>1
        <3>3. Produced(c)
            BY <1>3, <3>2 DEF Move, Produced
        <3> QED
            BY <1>t, <3>2, <3>3 DEF Move, ToolTypes
    <2>2. CASE Past(c, s)
        <3>1. Produced(c)
            <4>1. ASSUME At(c, "run") PROVE FALSE
                BY <2>2, <4>1, <1>3, Located DEF At, Order, Past, Preparing, Placing
            <4>2. ASSUME At(c, "parse") \/ At(c, "parseSecond") PROVE FALSE
                BY <2>2, <4>2, <1>3, Located DEF At, Order, Past, Preparing, Placing
            <4>3. work'[c] = work[c]
                <5>1. ~Launch(c) /\ ~Exit(c) /\ ~TimeOut(c)
                    BY <4>1 DEF Launch, Exit, TimeOut, At, StatusInv
                <5>2. \A f \in File : ~Parse(c, "parse", f) /\ ~Parse(c, "parseSecond", f)
                    BY <4>2 DEF Parse
                <5> QED
                    BY <5>1, <5>2, OtherSteps
                    DEF Quiet, Acts, Takes, Record, Scan, Pull, Stat, Probe, CheckFresh, Claim, Script, Settle,
                        Move, Copy, Log, Test, Capture, Overwrite, Recheck, Keep, Judge, Refuse, world, File
            <4> QED
                BY <1>3, <1>t, <4>3 DEF Produced
        <3> QED
            BY <1>1, <1>3, <2>2, <3>1
    <2> QED
        BY <2>1, <2>2
<1>4. /\ Past(c, "move")' /\ Produced(c)' => disk'["native"].by # "earlier"
      /\ Past(c, "moveLog")' /\ Produced(c)' => disk'["log"].by # "earlier"
    <2>1. At(c, "move") /\ ~Refuse(c) /\ Acts(c) => Move(c, "move", "native")
        BY ActsAt
    <2>2. At(c, "moveLog") /\ ~Refuse(c) /\ Acts(c) => Move(c, "moveLog", "log")
        BY ActsAt
    <2> QED
        BY <1>3, <1>t, <2>1, <2>2 DEF FreshInv
<1>5. ASSUME NEW s \in {"capture", "captureJson", "captureLog"}, NEW n \in Place, Capture(c, s, n),
             s = "capture" => n = "native", s = "captureJson" => n = "json", s = "captureLog" => n = "log"
      PROVE  \A g \in basis'[c] : g.by # "earlier"
    <2> DEFINE found == IF Looks(c) /\ disk[n] # Missing THEN {disk[n]} ELSE {}
    <2>1. At(c, s) /\ basis'[c] = basis[c] \cup found
        BY <1>5 DEF Capture, ToolTypes
    <2>2. ASSUME Looks(c) PROVE disk[n].by # "earlier"
        <3>1. CASE tool \in {"map", "timing", "drc", "lvs", "review"} /\ s # "captureLog"
            <4>1. Past(c, "fresh")
                BY <2>1, <3>1, Located DEF At, Needs, Past
            <4>2. s = "captureJson" => tool = "lvs"
                BY <2>1, Located DEF At, Takers
            <4> QED
                BY <1>5, <3>1, <4>1, <4>2 DEF FreshInv, Fresh
        <3>2. CASE s = "captureLog"
            <4>1. Past(c, "moveLog") /\ tool = "xyce"
                BY <2>1, <3>2, Located DEF At, Needs, Takers, Past
            <4> QED
                BY <1>5, <2>2, <3>2, <4>1 DEF FreshInv, Looks
        <3>3. CASE tool \in {"check", "netlist", "xyce"} /\ s # "captureLog"
            <4>1. s = "capture"
                BY <2>1, <3>3, Located DEF At, Takers
            <4>2. Past(c, "move")
                BY <2>1, <3>3, <4>1, Located DEF At, Needs, Past
            <4> QED
                BY <1>5, <2>2, <3>3, <4>1, <4>2 DEF FreshInv, Looks
        <3>4. CASE tool \in {"lint", "test", "compare"}
            BY <2>1, <3>4, Located DEF At, Takers
        <3> QED
            BY <3>1, <3>2, <3>3, <3>4, <1>t DEF Steps
    <2> QED
        BY <2>1, <2>2 DEF FreshInv
<1>6. \A g \in basis'[c] : g.by # "earlier"
    <2>1. CASE basis'[c] = basis[c]
        BY <2>1 DEF FreshInv
    <2>2. CASE basis'[c] # basis[c]
        <3>1. Acts(c)
            BY <2>2, OtherSteps DEF Quiet
        <3>2. \/ Capture(c, "capture", "native") \/ Capture(c, "captureJson", "json")
              \/ Capture(c, "captureLog", "log")
            BY <2>2, <3>1, EndFields DEF Acts, Takes, Record, Scan, Pull, Stat, Probe, CheckFresh, Claim, Script,
               Settle, Launch, Parse, Move, Copy, Log, Test, Overwrite, Recheck, Keep, Judge, Refuse, world
        <3> QED
            BY <1>5, <1>t, <3>2
    <2> QED
        BY <2>1, <2>2
<1>7. tested'[c].by # "earlier"
    <2>1. CASE tested'[c] = tested[c]
        BY <2>1 DEF FreshInv
    <2>2. CASE tested'[c] # tested[c]
        <3>1. Acts(c)
            BY <2>2, OtherSteps DEF Quiet
        <3>2. Test(c)
            BY <2>2, <3>1, EndFields DEF Acts, Takes, Record, Scan, Pull, Stat, Probe, CheckFresh, Claim, Script,
               Settle, Launch, Parse, Move, Copy, Log, Capture, Overwrite, Recheck, Keep, Judge, Refuse, world
        <3>3. PICK says \in Says : tested'[c] = [disk["native"] EXCEPT !.says = says]
            BY <2>2, <3>2 DEF Test, Says, ToolTypes
        <3>4. Past(c, "fresh") /\ tool = "test"
            BY <3>2, Located DEF Test, At, Needs, Takers, Past
        <3>5. disk["native"].by # "earlier" /\ disk["native"] \in Content
            BY <1>t, <3>4 DEF FreshInv, Fresh, ToolTypes
        <3> QED
            BY <3>3, <3>5 DEF Content
    <2> QED
        BY <2>1, <2>2
<1> QED
    BY <1>2, <1>4, <1>6, <1>7, <1>t DEF FreshInv

(* The first states satisfy all of them.                                   *)
LEMMA ToolInvsInit == ToolInit => ToolInvs
<1> SUFFICES ASSUME ToolInit PROVE ToolInvs
    OBVIOUS
<1>1. ToolTypes
    BY ToolTypesInit
<1>2. ASSUME NEW c \in Call
      PROVE  /\ StatusInv(c) /\ VersionInv(c) /\ FileInv(c)
             /\ ScriptInv(c) /\ AloneInv(c) /\ FreshInv(c)
    <2>1. /\ pos[c] = 1 /\ recd[c] = Nothing /\ probed[c] = 0 /\ work[c] = Idle /\ tested[c] = Missing
          /\ basis[c] = {} /\ kept[c] = {} /\ trusted[c] /\ verdict[c] = "none"
          /\ binary = 1 /\ input \in [File -> {0, 1}] /\ input["source"] = 1
          /\ (input["second"] = 0 => tool \in Hdl)
        BY DEF ToolInit
    <2>2. \A s : ~Past(c, s)
        BY <2>1 DEF Past, Behind
    <2>3. Missing.by \notin {"earlier", c} /\ Earlier.by # c
          /\ Missing.of = Missing.by /\ Earlier.of = Earlier.by
        BY CallAssumption DEF Missing, Earlier, Evidence
    <2>4. \A n \in Place : disk[n].by # c /\ disk[n].of = disk[n].by
        BY <2>3 DEF ToolInit
    <2>5. StatusInv(c)
        BY <2>1, <2>2 DEF StatusInv, Running, Launched, Idle, Concluded
    <2>6. VersionInv(c)
        BY <2>1, <2>2 DEF VersionInv, Launched, ReadSecond, Idle, Nothing, File, Between
    <2>7. FileInv(c)
        BY <2>1, <2>2, <2>3, <2>4 DEF FileInv, Evidenced, Place
    <2>8. ScriptInv(c)
        BY <2>1, <2>2, <2>4 DEF ScriptInv, Launched, Idle, Place
    <2>9. AloneInv(c)
        BY <2>1, <2>2 DEF AloneInv, Wrote, Idle
    <2>10. FreshInv(c)
        BY <2>1, <2>2, <2>3 DEF FreshInv
    <2> QED
        BY <2>5, <2>6, <2>7, <2>8, <2>9, <2>10
<1> QED
    BY <1>1, <1>2 DEF ToolInvs

(* The invariants of the drivers hold in every reachable state, for any    *)
(* calls, any of the eleven operations and any number of changes by        *)
(* others.                                                                 *)
THEOREM ToolInvariance == ToolSpec => []ToolInvs
<1>1. ToolInvs /\ [ToolNext]_toolVars => ToolInvs'
    <2> SUFFICES ASSUME ToolInvs, [ToolNext]_toolVars PROVE ToolInvs'
        OBVIOUS
    <2>1. ToolTypes /\ ToolTypes'
        BY ToolTypesStep DEF ToolInvs
    <2>2. Call' = Call
        OBVIOUS
    <2>3. ASSUME NEW c \in Call
          PROVE  /\ StatusInv(c)' /\ VersionInv(c)' /\ FileInv(c)'
                 /\ ScriptInv(c)' /\ AloneInv(c)' /\ FreshInv(c)'
        BY <2>1, StatusStep, VersionStep, FileStep, ScriptStep, AloneStep, FreshStep DEF ToolInvs
    <2> QED
        BY <2>1, <2>3 DEF ToolInvs
<1> QED
    BY <1>1, ToolInvsInit, PTL DEF ToolSpec

(* Where a conclusion was drawn, and what is behind it.                    *)
LEMMA Conclusions ==
    ASSUME ToolInvs, NEW c \in Call, Concluded(c)
    PROVE  /\ work[c].status = "exited" /\ Needs(tool, Steps[tool], pos[c])
           /\ Steps[tool][pos[c]] = "judge"
           /\ (tool \in Rechecks => trusted[c] /\ Past(c, "recheck"))
           /\ (tool \in Sealed => Past(c, "keep"))
           /\ (tool = "compare" => Past(c, "parseSecond"))
           /\ (tool \in {"lint", "test", "map", "timing", "drc", "lvs"} => Past(c, "log"))
           /\ (tool # "test" => tested[c] = Missing)
           /\ (tool \in {"lint", "test", "compare"} => basis[c] = {})
           /\ tool \in DOMAIN Steps
<1>1. ToolTypes /\ StatusInv(c) /\ FileInv(c) /\ tool \in DOMAIN Steps
    BY ToolAssumption DEF ToolInvs, ToolTypes
<1>2. Steps[tool][pos[c]] = "judge"
    BY <1>1 DEF StatusInv
<1>3. Needs(tool, Steps[tool], pos[c])
    BY <1>1, Located
<1>4. \A s : Past(c, s) => Takers(tool, s)
    BY <1>1, Only DEF Past, ToolTypes
<1>5. tool # "test" => tested[c] = Missing
    BY <1>1, <1>4 DEF Takers, FileInv
<1>6. tool \in {"lint", "test", "compare"} => basis[c] = {}
    BY <1>1, <1>4 DEF Takers, FileInv
<1> QED
    BY <1>1, <1>2, <1>3, <1>5, <1>6 DEF StatusInv, Needs, Past

(* What a call's own product says of its process.                          *)
LEMMA OwnFields ==
    \A c \in Call : /\ Own(c).by = c /\ Own(c).of = work[c].of
                    /\ Own(c).saw = work[c].saw /\ Own(c).ran = work[c].ran
BY DEF Own, Product, Evidence

(* The conclusion is about what was recorded: looking again found input    *)
(* and executable as recorded, and what the process read lies between.     *)
LEMMA FromRecorded == ToolInvs => ConcludedFromRecorded
<1> SUFFICES ASSUME ToolInvs, NEW c \in Call, Concluded(c), tool \in Rechecks,
                    NEW g \in Grounds(c), g.by = c, g.of = c
             PROVE  /\ \A f \in Read(tool) : g.saw[f] = recd[c][f]
                    /\ (tool \in Bound => g.ran = probed[c])
    BY DEF ConcludedFromRecorded
<1>1. VersionInv(c) /\ FileInv(c) /\ ScriptInv(c)
    BY DEF ToolInvs
<1>2. work[c].of = c /\ g.saw = work[c].saw /\ g.ran = work[c].ran
    BY <1>1, OwnFields DEF Grounds, FileInv
<1>3. trusted[c] /\ Past(c, "recheck") /\ work[c].status = "exited"
    BY Conclusions
<1>4. work[c].saw["source"] = recd[c]["source"] /\ (tool \in Bound => work[c].ran = probed[c])
    BY <1>1, <1>3 DEF VersionInv
<1>5. tool # "xyce" => work[c].saw["second"] = recd[c]["second"]
    <2>1. CASE tool = "timing"
        BY <1>1, <1>3, <2>1, Conclusions DEF ScriptInv, Sealed
    <2>2. CASE tool \in {"lint", "test", "map", "drc", "lvs", "review", "compare"}
        <3>1. ReadSecond(c)
            BY <1>2, <1>3, <2>2, Conclusions DEF ReadSecond
        <3> QED
            BY <1>1, <1>3, <3>1 DEF VersionInv
    <2> QED
        BY <2>1, <2>2 DEF Rechecks
<1> QED
    BY <1>2, <1>4, <1>5 DEF Read, File

(* The conclusion is the call's own: it holds the transcript, and found    *)
(* script and output retained.                                             *)
LEMMA OwnOnly == ToolInvs => OwnEvidence
<1> SUFFICES ASSUME ToolInvs PROVE OwnEvidence
    OBVIOUS
<1>1. OneConcludes
    <2> SUFFICES ASSUME tool \in Tool \ {"review"}, "log" \in Fresh[tool],
                        NEW c \in Call, NEW d \in Call, Concluded(c), Concluded(d)
                 PROVE  c = d
        BY DEF OneConcludes
    <2>1. tool \in {"lint", "test", "map", "timing", "drc", "lvs"}
        BY Conclusions DEF Fresh, Steps
    <2>2. Wrote(c) /\ Wrote(d)
        BY <2>1, Conclusions DEF Wrote, Rechecks
    <2>3. AloneInv(c)
        BY DEF ToolInvs
    <2> QED
        BY <2>2, <2>3 DEF AloneInv
<1>2. ASSUME NEW c \in Call, Concluded(c), tool \in Exclusive, tool \in Sealed \/ changes.tamper = 0,
             NEW g \in Grounds(c)
      PROVE  g.by = c /\ g.of = c
    <2>1. ScriptInv(c) /\ FileInv(c) /\ AloneInv(c)
        BY DEF ToolInvs
    <2>2. work[c].of = c
        <3>1. CASE tool \in Sealed
            BY <2>1, <3>1, <1>2, Conclusions DEF ScriptInv, Sealed, Rechecks
        <3>2. CASE tool \in {"lint", "test"}
            BY <2>1, <3>2, <1>2, Conclusions DEF ScriptInv, Scripted, Launched
        <3> QED
            BY <1>2, <3>1, <3>2 DEF Exclusive, Sealed
    <2>3. basis[c] \subseteq {Own(c)}
        <3>1. CASE tool \in Sealed
            BY <2>1, <3>1, <1>2, Conclusions DEF ScriptInv, Sealed, Rechecks
        <3> QED
            BY <1>2, <3>1, Conclusions DEF Exclusive, Sealed
    <2>4. tested[c] # Missing => tested[c].by = c /\ tested[c].of = c
        BY <1>2, <2>1, <2>2, Conclusions DEF AloneInv, FileInv, Sealed
    <2> QED
        BY <2>2, <2>3, <2>4, OwnFields DEF Grounds
<1> QED
    BY <1>1, <1>2 DEF OwnEvidence

(* None of the grounds is an earlier run's.                                *)
LEMMA NoneEarlier == ToolInvs => NoLeftovers
BY OwnFields, CallAssumption DEF ToolInvs, FreshInv, NoLeftovers, Grounds

(* What was judged is what was described.                                  *)
LEMMA JudgedKept == ToolInvs => JudgedIsKept
<1> SUFFICES ASSUME ToolInvs, NEW c \in Call, verdict[c] = "pass",
                    tool \notin {"check", "netlist", "review", "lint", "test"}
             PROVE  basis[c] \subseteq kept[c]
    BY DEF JudgedIsKept
<1>1. Concluded(c) /\ ScriptInv(c)
    BY DEF Concluded, ToolInvs
<1>2. CASE tool \in {"drc", "lvs", "xyce"}
    BY <1>1, <1>2 DEF ScriptInv
<1>3. CASE tool \in Sealed
    BY <1>1, <1>3, Conclusions DEF ScriptInv, Sealed, Rechecks
<1>4. CASE tool = "compare"
    BY <1>1, <1>4, Conclusions
<1> QED
    BY <1>1, <1>2, <1>3, <1>4, Conclusions DEF Steps, Sealed

(* The type invariant of the drivers.                                      *)
THEOREM ToolTypeOK == ToolSpec => []ToolTypes
BY ToolInvariance, PTL DEF ToolInvs

(* A driver that looks at its inputs again (the final identity checks      *)
(* before each of its verdicts) passes or fails only what it recorded: the *)
(* evidence of its own process and script was made from the hashed inputs, *)
(* with the executable that it looked at.                                  *)
THEOREM ConcludesFromRecorded == ToolSpec => []ConcludedFromRecorded
BY ToolInvariance, FromRecorded, PTL

(* Of any number of calls whose evidence names must be free, at most one   *)
(* concludes; and a driver that claims its names concludes from its own    *)
(* process and script alone, whoever writes over its files (the exclusive  *)
(* creation of scripts, transcripts and outputs).                          *)
THEOREM ConcludesFromOwnEvidence == ToolSpec => []OwnEvidence
BY ToolInvariance, OwnOnly, PTL

(* No verdict of any driver rests on a file that an earlier run left at an *)
(* evidence name.                                                          *)
THEOREM ConcludesFromNoLeftovers == ToolSpec => []NoLeftovers
BY ToolInvariance, NoneEarlier, PTL

(* A pass of a driver that seals its files, or records what it reads, is   *)
(* about files that its artifact records describe.                         *)
THEOREM KeepsWhatItJudged == ToolSpec => []JudgedIsKept
BY ToolInvariance, JudgedKept, PTL

-----------------------------------------------------------------------------
(***************************************************************************)
(* EvidenceReceipt. The stamp of a file ties what was captured to what is  *)
(* there: equal stamps, equal contents; and what is left of a list of records *)
(* tells which of them were found.                                         *)
(***************************************************************************)
Stamped == [body : Nat, stamp : Nat]
Phases  == {"receipt", "roles", "files", "again", "verified", "refused"}

(* The types.                                                              *)
ReceiptTypes ==
    /\ sealed \in Chains /\ stored \in [Path -> Stamped]
    /\ stored["receipt"].body \in 0 .. 5
    /\ leads \in {"here", "there"} /\ known \in {"none", "here", "there"}
    /\ phase \in Phases /\ todo \in Seq([path : Path, sha : Nat]) /\ opened \in Nat
    /\ DOMAIN held \subseteq Path /\ held \in [DOMAIN held -> Stamped]

(* What was captured is not newer than what is there, and the same file    *)
(* has the same content.                                                   *)
CaptureInv ==
    /\ \A p \in DOMAIN held :
          /\ known # "none" /\ held[p].stamp <= In(known, p).stamp
          /\ held[p].stamp = In(known, p).stamp => held[p].body = In(known, p).body
    /\ opened # 0 =>
          /\ phase \in {"receipt", "roles", "files"} /\ todo # <<>> /\ known # "none"
          /\ Head(todo).path \in DOMAIN held => held[Head(todo).path].stamp = opened - 1

(* What is left to do of a list of records, and what was done of it.       *)
Suffix(left, list) ==
    /\ Len(left) <= Len(list)
    /\ \A i \in 1 .. Len(left) : left[i] = list[Len(list) - Len(left) + i]
Found(captures, r) == r.path \in DOMAIN captures /\ captures[r.path].body = r.sha
Finished(captures, left, list) ==
    \A i \in 1 .. (Len(list) - Len(left)) : Found(captures, list[i])

(* What the receipt says of the files of the chain, once it is the         *)
(* scheduler's.                                                            *)
RoleRecords == [i \in DOMAIN Roles |-> Rec(Roles[i], sealed[Roles[i]])]
Paths(list) == {list[i].path : i \in DOMAIN list}
(* The receipts that the scheduler signed for this attempt and subject.    *)
TrueReceipt == "receipt" \in DOMAIN held /\ held["receipt"].body \in {1, 5}
(* The chain was captured, is what was signed, and was judged.             *)
Chained ==
    /\ \A p \in ToSet(Roles) : p \in DOMAIN held /\ held[p].body = sealed[p]
    /\ Conforms(Simulation) /\ Simulation.configured /\ Pinned
    /\ Receipt.files = Recorded(Body("simulation"))
    /\ DOMAIN held \subseteq {"receipt"} \cup ToSet(Roles) \cup Paths(Receipt.files)
(* Everything recorded was found, and the replay agreed. A file that still *)
(* has the stamp it was captured with held that content at the moment of   *)
(* the last capture; those that were looked at again, still did.           *)
Replayed ==
    /\ \A i \in DOMAIN Receipt.files : Found(held, Receipt.files[i])
    /\ Binds(Simulation) /\ Replays
    /\ \A p \in DOMAIN held :
          /\ held[p].stamp = In(known, p).stamp => moment[p] = held[p].body
          /\ moment[p] = held[p].body \/ \E i \in 1 .. Len(todo) : todo[i].path = p

(* How far the verifier is tells what it knows.                            *)
PhaseInv ==
    /\ phase = "receipt" =>
          /\ DOMAIN held \subseteq {"receipt"}
          /\ IF todo = <<>> THEN TrueReceipt ELSE todo = <<Rec("receipt", Gone)>>
    /\ phase = "roles" => /\ TrueReceipt /\ Suffix(todo, RoleRecords) /\ Finished(held, todo, RoleRecords)
                          /\ DOMAIN held \subseteq {"receipt"} \cup ToSet(Roles)
    /\ phase \in {"files", "again", "verified"} => TrueReceipt /\ Chained
    /\ phase = "files" => Suffix(todo, Receipt.files) /\ Finished(held, todo, Receipt.files)
    /\ phase \in {"again", "verified"} => Replayed
    /\ phase = "verified" => todo = <<>> /\ verified = Body("measurement")

ReceiptInv == ReceiptTypes /\ CaptureInv /\ PhaseInv

(* The records of files.                                                   *)
FileRecords == [path : Path, sha : Nat]

(* The names of the files, spelled out.                                    *)
LEMMA PathNames ==
    /\ ToSet(Roles) = {"simulation", "raw", "selection", "extraction", "request", "measurement"}
    /\ Path = {"simulation", "raw", "selection", "extraction", "request", "measurement", "receipt", "deck", "log"}
    /\ DOMAIN Roles = 1 .. 6 /\ \A i \in 1 .. 6 : Roles[i] \in ToSet(Roles)
<1>1. DOMAIN Roles = 1 .. 6
    BY DEF Roles
<1>2. ToSet(Roles) = {Roles[1], Roles[2], Roles[3], Roles[4], Roles[5], Roles[6]}
    BY <1>1 DEF ToSet
<1> QED
    BY <1>1, <1>2 DEF Path, Roles

(* The simulation envelopes that there are.                                *)
LEMMA EnvelopeCount == DOMAIN Simulations = 1 .. 11
BY DEF Simulations

(* Records and lists of them.                                              *)
LEMMA RecordsAre ==
    /\ \A s \in Seq(FileRecords) : \A t \in Seq(FileRecords) : s \o t \in Seq(FileRecords)
    /\ \A p \in Path : \A n \in Nat : Rec(p, n) \in FileRecords /\ <<Rec(p, n)>> \in Seq(FileRecords)
    /\ <<>> \in Seq(FileRecords)
<1>1. \A s \in Seq(FileRecords) : \A t \in Seq(FileRecords) : s \o t \in Seq(FileRecords)
    OBVIOUS
<1>2. \A p \in Path : \A n \in Nat : Rec(p, n) \in FileRecords
    BY DEF Rec, FileRecords
<1> QED
    BY <1>1, <1>2

(* What a simulation envelope holds.                                       *)
Envelope == [status : {"pass", "fail"}, context : Nat, configured : BOOLEAN, results : Seq(FileRecords),
             inputs : Seq(FileRecords), logs : Seq(FileRecords), others : Seq(FileRecords)]

(* Each of the envelopes is one.                                           *)
LEMMA Envelopes == \A n \in 1 .. 11 : Simulations[n] \in Envelope
<1>1. /\ <<Rec("raw", 1)>> \in Seq(FileRecords) /\ <<Rec("deck", 1)>> \in Seq(FileRecords)
      /\ <<Rec("log", 1)>> \in Seq(FileRecords) /\ <<>> \in Seq(FileRecords)
      /\ <<Rec("deck", Gone)>> \in Seq(FileRecords) /\ <<Rec("raw", 2)>> \in Seq(FileRecords)
      /\ <<Rec("log", 2)>> \in Seq(FileRecords)
      /\ <<Rec("deck", 1), Rec("selection", 1)>> \in Seq(FileRecords)
    BY PathNames DEF Rec, FileRecords, Gone
<1>2. Honest \in Envelope
    BY <1>1 DEF Honest, Envelope
<1>3. Honest.results \o <<Rec("log", 1)>> \in Seq(FileRecords)
    BY <1>1, <1>2, RecordsAre DEF Envelope
<1>4. Simulations[1] \in Envelope
    BY <1>2 DEF Simulations
<1>5. Simulations[2] \in Envelope
    BY <1>2 DEF Simulations, Envelope
<1>6. Simulations[3] \in Envelope
    BY <1>1, <1>2 DEF Simulations, Envelope
<1>7. Simulations[4] \in Envelope
    BY <1>1, <1>2 DEF Simulations, Envelope
<1>8. Simulations[5] \in Envelope
    BY <1>1, <1>2 DEF Simulations, Envelope
<1>9. Simulations[6] \in Envelope
    BY <1>1, <1>2, <1>3 DEF Simulations, Envelope
<1>10. Simulations[7] \in Envelope
    BY <1>1, <1>2 DEF Simulations, Envelope
<1>11. Simulations[8] \in Envelope
    BY <1>1, <1>2 DEF Simulations, Envelope
<1>12. Simulations[9] \in Envelope
    BY <1>1, <1>2 DEF Simulations, Envelope
<1>13. Simulations[10] \in Envelope
    BY <1>1, <1>2 DEF Simulations, Envelope
<1>14. Simulations[11] \in Envelope
    BY <1>1, <1>2 DEF Simulations, Envelope
<1> QED
    BY <1>4, <1>5, <1>6, <1>7, <1>8, <1>9, <1>10, <1>11, <1>12, <1>13, <1>14

(* What a simulation recorded is a list of records.                        *)
LEMMA RecordedAre == \A n \in 1 .. 11 : Recorded(n) \in Seq(FileRecords)
<1> TAKE n \in 1 .. 11
<1>1. Simulations[n].inputs \in Seq(FileRecords) /\ Simulations[n].logs \in Seq(FileRecords)
      /\ Simulations[n].others \in Seq(FileRecords)
    BY Envelopes DEF Envelope
<1>2. Simulations[n].inputs \o Simulations[n].logs \in Seq(FileRecords)
    BY <1>1, RecordsAre
<1> QED
    BY <1>1, <1>2, RecordsAre DEF Recorded

(* Every chain has all of the files.                                       *)
LEMMA ChainsAre ==
    ASSUME NEW chain \in Chains
    PROVE  /\ chain \in [Path -> Nat] /\ chain["simulation"] \in 1 .. 11 /\ chain["receipt"] = 1
<1>1. \A a \in 1 .. 11 : \A b \in {1, 2} : \A c \in {1, 2} : \A d \in {1, 2} :
          /\ Chain(a, b, c, d) \in [Path -> Nat] /\ Chain(a, b, c, d)["simulation"] = a
          /\ Chain(a, b, c, d)["receipt"] = 1
    BY PathNames DEF Chain, Extract, Measure
<1>2. 1 \in 1 .. 11 /\ DOMAIN Simulations = 1 .. 11
    BY EnvelopeCount
<1> DEFINE good == Chain(1, 1, 1, 1)
<1>3. /\ good \in [Path -> Nat] /\ good["simulation"] = 1 /\ good["receipt"] = 1
      /\ Extract(1, 2, 1) \in Nat /\ Measure(Extract(1, 2, 1), 1) \in Nat
    BY <1>1 DEF Extract, Measure
<1> HIDE DEF good
<1> DEFINE Fits(c) == c \in [Path -> Nat] /\ c["simulation"] = 1 /\ c["receipt"] = 1
<1>4. /\ Fits([good EXCEPT !.extraction = Extract(1, 2, 1), !.measurement = Measure(Extract(1, 2, 1), 1)])
      /\ Fits([good EXCEPT !.measurement = Measure(Extract(1, 2, 1), 1)])
      /\ Fits([good EXCEPT !.deck = 2])
    BY <1>3, PathNames
<1>5. CASE \E n \in DOMAIN Simulations : chain = Chain(n, 1, 1, 1)
    BY <1>1, <1>2, <1>5
<1>6. CASE chain \in {Chain(1, 1, 2, 1), Chain(1, 1, 1, 2), Chain(1, 2, 1, 1)}
    BY <1>1, <1>2, <1>6
<1>7. CASE chain \in {[good EXCEPT !.extraction = Extract(1, 2, 1), !.measurement = Measure(Extract(1, 2, 1), 1)],
                      [good EXCEPT !.measurement = Measure(Extract(1, 2, 1), 1)], [good EXCEPT !.deck = 2]}
    BY <1>2, <1>4, <1>7
<1> QED
    BY <1>5, <1>6, <1>7 DEF Chains, good

(* The receipts that pass as authentic are the scheduler's, for this       *)
(* attempt and subject, and name what it captured.                         *)
LEMMA Signed ==
    /\ \A b \in 1 .. 5 : Authentic(Receipts[b]) => b \in {1, 5}
    /\ \A b \in {1, 5} : /\ Authentic(Receipts[b]) /\ \A p \in ToSet(Roles) : Receipts[b].evidence[p] = sealed[p]
<1>1. /\ Receipts[1].job = 1 /\ Receipts[1].subject = 1 /\ Receipts[1].signed
      /\ Receipts[5].job = 1 /\ Receipts[5].subject = 1 /\ Receipts[5].signed
      /\ Receipts[1].evidence = Restrict(sealed, ToSet(Roles))
      /\ Receipts[5].evidence = Restrict(sealed, ToSet(Roles))
    BY DEF Receipts, Seal
<1>2. Receipts[2].job = 2 /\ Receipts[3].subject = 2 /\ ~Receipts[4].signed
    BY DEF Receipts, Seal
<1> QED
    BY <1>1, <1>2 DEF Authentic, Restrict

(* What is in either directory is a file.                                  *)
LEMMA Directories ==
    ASSUME ReceiptTypes
    PROVE  \A d \in {"here", "there"} : \A p \in Path :
               In(d, p) \in Stamped /\ (p = "receipt" => In(d, p).body \in 0 .. 5)
<1>1. Chain(1, 1, 1, 1) \in Chains /\ 1 \in DOMAIN Simulations
    BY EnvelopeCount DEF Chains
<1>2. Chain(1, 1, 1, 1) \in [Path -> Nat] /\ Chain(1, 1, 1, 1)["receipt"] = 1
    BY <1>1, ChainsAre
<1> QED
    BY <1>2 DEF In, ReceiptTypes, Stamped

(* Taking the first record off what is left.                               *)
LEMMA HeadAndTail ==
    ASSUME NEW left \in Seq(FileRecords), left # <<>>
    PROVE  /\ Head(left) \in FileRecords /\ Tail(left) \in Seq(FileRecords) /\ Head(left) = left[1]
           /\ Len(left) \in Nat \ {0} /\ Len(Tail(left)) = Len(left) - 1
           /\ \A i \in 1 .. Len(Tail(left)) : Tail(left)[i] = left[i + 1]
           /\ \A i \in 2 .. Len(left) : i - 1 \in 1 .. Len(Tail(left)) /\ left[i] = Tail(left)[i - 1]
OBVIOUS

(* One record less is left, and it is the next of the list.                *)
LEMMA SuffixTail ==
    ASSUME NEW left \in Seq(FileRecords), left # <<>>, NEW list \in Seq(FileRecords), Suffix(left, list)
    PROVE  /\ Suffix(Tail(left), list)
           /\ Head(left) = list[Len(list) - Len(left) + 1]
           /\ 1 .. (Len(list) - Len(Tail(left))) = (1 .. (Len(list) - Len(left))) \cup {Len(list) - Len(left) + 1}
<1>1. /\ Len(left) \in Nat \ {0} /\ Len(list) \in Nat /\ Len(left) <= Len(list)
      /\ Len(Tail(left)) = Len(left) - 1 /\ Head(left) = left[1]
      /\ \A i \in 1 .. Len(Tail(left)) : Tail(left)[i] = left[i + 1]
    BY HeadAndTail DEF Suffix
<1>2. \A i \in 1 .. Len(Tail(left)) : Tail(left)[i] = list[Len(list) - Len(Tail(left)) + i]
    <2> TAKE i \in 1 .. Len(Tail(left))
    <2>1. i + 1 \in 1 .. Len(left) /\ Len(list) - Len(Tail(left)) + i = Len(list) - Len(left) + (i + 1)
        BY <1>1
    <2> QED
        BY <1>1, <2>1 DEF Suffix
<1>3. Head(left) = list[Len(list) - Len(left) + 1]
    BY <1>1 DEF Suffix
<1>4. 1 .. (Len(list) - Len(Tail(left))) = (1 .. (Len(list) - Len(left))) \cup {Len(list) - Len(left) + 1}
    BY <1>1
<1> QED
    BY <1>1, <1>2, <1>3, <1>4 DEF Suffix

(* More captures and the next record done: everything so far is done.      *)
LEMMA FinishedTail ==
    ASSUME NEW left \in Seq(FileRecords), left # <<>>, NEW list \in Seq(FileRecords), Suffix(left, list),
           NEW h, NEW g, DOMAIN h \subseteq DOMAIN g, \A p \in DOMAIN h : g[p] = h[p],
           Finished(h, left, list), Found(g, Head(left))
    PROVE  Finished(g, Tail(left), list)
BY SuffixTail DEF Finished, Found

(* A capture adds one file, in the state in which it is there, and changes *)
(* nothing that was captured before.                                       *)
LEMMA Captures ==
    ASSUME ReceiptTypes, CaptureInv, ReadFile, ~Reject
    PROVE  LET p == Head(todo).path IN
           /\ opened' = 0 /\ todo' = Tail(todo) /\ UNCHANGED <<World, phase, known, verified, moment>>
           /\ p \in Path /\ todo # <<>> /\ leads = known /\ known # "none"
           /\ DOMAIN held' = DOMAIN held \cup {p}
           /\ held' \in [DOMAIN held' -> Stamped]
           /\ held'[p] = In(known, p) /\ In(known, p).body # Gone
           /\ \A q \in DOMAIN held : held'[q] = held[q]
           /\ Matches(Head(todo), held'[p].body)
<1> DEFINE p == Head(todo).path
<1>1. opened # 0 /\ todo # <<>> /\ known # "none"
    BY DEF ReadFile, CaptureInv
<1>2. p \in Path /\ Head(todo) \in FileRecords
    BY <1>1, HeadAndTail DEF ReceiptTypes, FileRecords
<1>3. /\ Unchanged(p, opened - 1) /\ Matches(Head(todo), In(known, p).body)
      /\ opened' = 0 /\ todo' = Tail(todo)
      /\ held' = [q \in DOMAIN held \cup {p} |->
                   IF q = p THEN [body |-> In(known, p).body, stamp |-> opened - 1] ELSE held[q]]
      /\ UNCHANGED <<World, phase, known, verified, moment>>
    BY DEF ReadFile
<1>4. leads = known /\ In(known, p).body # Gone /\ In(known, p).stamp = opened - 1
    BY <1>3 DEF Unchanged
<1>5. In(known, p) \in Stamped /\ In(known, p) = [body |-> In(known, p).body, stamp |-> opened - 1]
    <2>1. In(known, p) \in Stamped
        BY <1>1, <1>2, Directories DEF ReceiptTypes
    <2> QED
        BY <1>4, <2>1 DEF Stamped
<1>6. DOMAIN held' = DOMAIN held \cup {p} /\ held'[p] = In(known, p)
    BY <1>3, <1>5
<1>7. ASSUME NEW q \in DOMAIN held PROVE held'[q] = held[q]
    <2>1. CASE q # p
        BY <1>3, <2>1
    <2>2. CASE q = p
        <3>1. held[p].stamp = opened - 1
            BY <1>1, <2>2 DEF CaptureInv
        <3>2. held[p].body = In(known, p).body
            BY <1>4, <2>2, <3>1 DEF CaptureInv
        <3>3. held[p] \in Stamped
            BY <2>2 DEF ReceiptTypes
        <3> QED
            BY <1>5, <1>6, <2>2, <3>1, <3>2, <3>3 DEF Stamped
    <2> QED
        BY <2>1, <2>2
<1>8. held' \in [DOMAIN held' -> Stamped]
    <2>1. \A q \in DOMAIN held' : held'[q] \in Stamped
        BY <1>5, <1>6, <1>7 DEF ReceiptTypes
    <2>2. held' = [q \in DOMAIN held' |-> held'[q]]
        BY <1>3
    <2> QED
        BY <2>1, <2>2
<1> QED
    BY <1>1, <1>2, <1>3, <1>4, <1>6, <1>7, <1>8

(* The records of the chain, one for each role.                            *)
LEMMA RoleRecordsAre ==
    ASSUME ReceiptTypes
    PROVE  /\ RoleRecords \in Seq(FileRecords) /\ Len(RoleRecords) = 6
           /\ \A i \in 1 .. 6 : RoleRecords[i] = Rec(Roles[i], sealed[Roles[i]])
<1>1. sealed \in [Path -> Nat]
    BY ChainsAre DEF ReceiptTypes
<1>2. \A i \in 1 .. 6 : Roles[i] \in Path /\ Rec(Roles[i], sealed[Roles[i]]) \in FileRecords
    BY <1>1, PathNames, RecordsAre
<1> QED
    BY <1>2, PathNames DEF RoleRecords

(* The receipt was captured, and it is one of those the scheduler signed.  *)
LEMMA CaptureChainFacts ==
    ASSUME ReceiptTypes, PhaseInv, CaptureChain
    PROVE  /\ TrueReceipt /\ phase = "receipt" /\ todo = <<>> /\ opened = 0
           /\ phase' = "roles" /\ todo' = RoleRecords
           /\ UNCHANGED <<World, known, opened, held, verified, moment>>
<1>1. /\ phase = "receipt" /\ todo = <<>> /\ opened = 0
      /\ UNCHANGED <<World, known, opened, held, verified, moment>> /\ phase' = "roles"
      /\ todo' = [i \in DOMAIN Roles |-> Rec(Roles[i], Receipt.evidence[Roles[i]])]
    BY DEF CaptureChain, Arrive, Proceed
<1>2. TrueReceipt
    BY <1>1 DEF PhaseInv
<1>3. \A i \in DOMAIN Roles : Receipt.evidence[Roles[i]] = sealed[Roles[i]]
    BY <1>2, Signed, PathNames DEF TrueReceipt, Receipt
<1> QED
    BY <1>1, <1>2, <1>3 DEF RoleRecords

(* All of the chain is captured and is what the scheduler signed.          *)
LEMMA JudgeChainFacts ==
    ASSUME ReceiptTypes, PhaseInv, JudgeChain, ~Reject
    PROVE  /\ TrueReceipt /\ Chained /\ Receipt.files \in Seq(FileRecords)
           /\ phase' = "files" /\ todo' = Receipt.files /\ todo = <<>> /\ phase = "roles" /\ opened = 0
           /\ UNCHANGED <<World, known, opened, held, verified, moment>>
<1>1. /\ phase = "roles" /\ todo = <<>> /\ opened = 0
      /\ UNCHANGED <<World, known, opened, held, verified, moment>>
      /\ phase' = "files" /\ todo' = Receipt.files
      /\ Conforms(Simulation) /\ Simulation.configured /\ Pinned
      /\ Receipt.files = Recorded(Body("simulation"))
    BY DEF JudgeChain, Arrive, Proceed
<1>2. /\ TrueReceipt /\ Finished(held, todo, RoleRecords)
      /\ DOMAIN held \subseteq {"receipt"} \cup ToSet(Roles)
    BY <1>1 DEF PhaseInv
<1>3. \A i \in 1 .. 6 : Roles[i] \in DOMAIN held /\ held[Roles[i]].body = sealed[Roles[i]]
    <2>1. \A i \in 1 .. 6 : Found(held, RoleRecords[i])
        <3>1. Len(todo) = 0 /\ Len(RoleRecords) = 6
            BY <1>1, RoleRecordsAre
        <3> QED
            BY <1>2, <3>1 DEF Finished
    <2> QED
        BY <2>1, RoleRecordsAre DEF Found, Rec
<1>4. \A p \in ToSet(Roles) : p \in DOMAIN held /\ held[p].body = sealed[p]
    BY <1>3, PathNames DEF ToSet
<1>5. Body("simulation") \in 1 .. 11
    BY <1>4, PathNames, ChainsAre DEF Body, ReceiptTypes
<1>6. Receipt.files \in Seq(FileRecords)
    BY <1>1, <1>5, RecordedAre
<1> QED
    BY <1>1, <1>2, <1>4, <1>6 DEF Chained

(* The records whose files are captured.                                   *)
LEMMA ChainFacts ==
    ASSUME ReceiptTypes, TrueReceipt, Chained
    PROVE  /\ Body("simulation") \in 1 .. 11 /\ Receipt.files \in Seq(FileRecords)
           /\ \A p \in ToSet(Roles) : p \in DOMAIN held /\ held[p].body = sealed[p]
           /\ Simulation \in Envelope
<1>1. \A p \in ToSet(Roles) : p \in DOMAIN held /\ held[p].body = sealed[p]
    BY DEF Chained
<1>2. Body("simulation") \in 1 .. 11
    BY <1>1, PathNames, ChainsAre DEF Body, ReceiptTypes
<1> QED
    BY <1>1, <1>2, RecordedAre, Envelopes DEF Chained, Simulation

(* A path that was taken before was captured.                              *)
LEMMA TakenFound ==
    ASSUME ReceiptTypes, TrueReceipt, Chained, Suffix(todo, Receipt.files), Finished(held, todo, Receipt.files),
           NEW p \in Taken
    PROVE  p \in DOMAIN held
<1>1. Receipt.files = Recorded(held["simulation"].body)
    BY DEF Chained, Body
<1>2. PICK i \in 1 .. (Len(Receipt.files) - Len(todo)) : Receipt.files[i].path = p
    BY <1>1 DEF Taken
<1> QED
    BY <1>2 DEF Finished, Found

(* What is looked at again: every file that was captured.                  *)
LEMMA ReplayFacts ==
    ASSUME ReceiptTypes, PhaseInv, Replay, ~Reject
    PROVE  /\ TrueReceipt /\ Chained /\ phase = "files" /\ phase' = "again" /\ todo = <<>> /\ opened = 0
           /\ \A i \in DOMAIN Receipt.files : Found(held, Receipt.files[i])
           /\ Binds(Simulation) /\ Replays
           /\ todo' \in Seq(FileRecords)
           /\ \A p \in DOMAIN held : \E i \in 1 .. Len(todo') : todo'[i].path = p
           /\ moment' = [p \in DOMAIN held |-> In(known, p).body]
           /\ UNCHANGED <<World, known, opened, held, verified>>
<1> DEFINE files == [i \in DOMAIN Receipt.files |-> Receipt.files[i].path]
           some  == Roles \o files
           all   == some \o <<"receipt">>
<1>1. /\ phase = "files" /\ todo = <<>> /\ opened = 0 /\ Binds(Simulation) /\ Replays /\ phase' = "again"
      /\ todo' = Records(all)
      /\ moment' = [p \in DOMAIN held |-> In(known, p).body]
      /\ UNCHANGED <<World, known, opened, held, verified>>
    BY DEF Replay, Arrive, Proceed
<1>2. /\ TrueReceipt /\ Chained /\ Suffix(todo, Receipt.files) /\ Finished(held, todo, Receipt.files)
    BY <1>1 DEF PhaseInv
<1>3. Receipt.files \in Seq(FileRecords) /\ \A p \in ToSet(Roles) : p \in DOMAIN held
    BY <1>2, ChainFacts
<1>4. \A i \in DOMAIN Receipt.files : Found(held, Receipt.files[i])
    <2>1. Len(todo) = 0 /\ DOMAIN Receipt.files = 1 .. Len(Receipt.files) /\ Len(Receipt.files) \in Nat
        BY <1>1, <1>3
    <2> QED
        BY <1>2, <2>1 DEF Finished
<1>5. files \in Seq(DOMAIN held) /\ Len(files) = Len(Receipt.files)
    <2>1. \A i \in DOMAIN Receipt.files : Receipt.files[i].path \in DOMAIN held
        BY <1>4 DEF Found
    <2>2. DOMAIN Receipt.files = 1 .. Len(Receipt.files) /\ Len(Receipt.files) \in Nat
        BY <1>3
    <2> QED
        BY <2>1, <2>2
<1>6. Roles \in Seq(DOMAIN held) /\ Len(Roles) = 6
    <2>1. \A i \in 1 .. 6 : Roles[i] \in DOMAIN held
        BY <1>3, PathNames
    <2>2. Roles \in Seq(ToSet(Roles)) /\ Len(Roles) = 6
        BY PathNames DEF Roles
    <2>3. ToSet(Roles) \subseteq DOMAIN held
        BY <1>3
    <2> QED
        BY <2>2, <2>3
<1>7. <<"receipt">> \in Seq(DOMAIN held)
    BY <1>2 DEF TrueReceipt
<1> HIDE DEF files
<1>8. /\ some \in Seq(DOMAIN held) /\ Len(some) = 6 + Len(files)
      /\ \A i \in 1 .. 6 : some[i] = Roles[i]
      /\ \A i \in 1 .. Len(files) : some[6 + i] = files[i]
    <2>1. Roles \in Seq(DOMAIN held) /\ files \in Seq(DOMAIN held)
        BY <1>5, <1>6
    <2>2. \A i \in 1 .. Len(files) : some[Len(Roles) + i] = files[i]
        BY <2>1
    <2>3. some \in Seq(DOMAIN held) /\ Len(some) = Len(Roles) + Len(files)
        BY <2>1
    <2>4. \A i \in 1 .. Len(Roles) : some[i] = Roles[i]
        BY <2>1
    <2> HIDE DEF some
    <2> QED
        BY <1>6, <2>2, <2>3, <2>4
<1> HIDE DEF some
<1>9. /\ all \in Seq(DOMAIN held) /\ Len(all) = Len(some) + 1
      /\ \A i \in 1 .. Len(some) : all[i] = some[i]
      /\ all[Len(some) + 1] = "receipt"
    BY <1>7, <1>8
<1> HIDE DEF all
<1>10. /\ Len(todo') = Len(all) /\ \A i \in 1 .. Len(all) : todo'[i] = Rec(all[i], Body(all[i]))
       /\ todo' \in Seq(FileRecords)
    <2>1. DOMAIN all = 1 .. Len(all) /\ Len(all) \in Nat
        BY <1>9
    <2>2. \A i \in 1 .. Len(all) : Rec(all[i], Body(all[i])) \in FileRecords
        <3>1. \A p \in DOMAIN held : p \in Path /\ Body(p) \in Nat
            BY DEF ReceiptTypes, Body, Stamped
        <3> QED
            BY <1>9, <3>1, RecordsAre
    <2>3. todo' = [i \in 1 .. Len(all) |-> Rec(all[i], Body(all[i]))]
        BY <1>1, <2>1 DEF Records
    <2> QED
        BY <2>1, <2>2, <2>3
<1>11. ASSUME NEW p \in DOMAIN held PROVE \E i \in 1 .. Len(all) : all[i] = p
    <2>1. CASE p = "receipt"
        <3>1. Len(some) \in Nat /\ Len(some) + 1 \in 1 .. Len(all)
            BY <1>8, <1>9
        <3> QED
            BY <1>9, <2>1, <3>1
    <2>2. CASE p \in ToSet(Roles)
        <3>1. PICK i \in 1 .. 6 : Roles[i] = p
            BY <2>2, PathNames DEF ToSet
        <3>2. i \in 1 .. Len(some) /\ some[i] = p
            BY <1>5, <1>8, <3>1
        <3> QED
            BY <1>9, <3>2
    <2>3. CASE p \in Paths(Receipt.files)
        <3>1. PICK i \in 1 .. Len(files) : files[i] = p
            BY <1>3, <1>5, <2>3 DEF Paths, files
        <3>2. 6 + i \in 1 .. Len(some) /\ some[6 + i] = p
            BY <1>5, <1>8, <3>1
        <3> QED
            BY <1>9, <3>2
    <2> QED
        BY <1>2, <2>1, <2>2, <2>3 DEF Chained
<1>12. ASSUME NEW p \in DOMAIN held PROVE \E i \in 1 .. Len(todo') : todo'[i].path = p
    <2>1. PICK i \in 1 .. Len(all) : all[i] = p
        BY <1>11
    <2>2. i \in 1 .. Len(todo') /\ todo'[i].path = p
        <3>1. i \in 1 .. Len(todo') /\ todo'[i] = Rec(p, Body(p))
            BY <1>10, <2>1
        <3>2. Rec(p, Body(p)).path = p
            BY DEF Rec
        <3> QED
            BY <3>1, <3>2
    <2> QED
        BY <2>2
<1> QED
    BY <1>1, <1>2, <1>4, <1>10, <1>12

(* A capture leaves what was judged before as it was.                      *)
LEMMA Extends ==
    ASSUME TrueReceipt, Chained, sealed' = sealed,
           \A q \in DOMAIN held : q \in DOMAIN held' /\ held'[q] = held[q]
    PROVE  /\ TrueReceipt' /\ Receipt' = Receipt /\ Simulation' = Simulation
           /\ (Pinned <=> Pinned') /\ (Replays <=> Replays')
           /\ (Binds(Simulation) <=> Binds(Simulation)')
           /\ \A p \in ToSet(Roles) : p \in DOMAIN held' /\ held'[p].body = sealed'[p] /\ Body(p)' = Body(p)
           /\ (DOMAIN held' \subseteq {"receipt"} \cup ToSet(Roles) \cup Paths(Receipt.files) => Chained')
<1>1. TrueReceipt' /\ held'["receipt"] = held["receipt"]
    BY DEF TrueReceipt
<1>2. Receipts' = Receipts
    BY DEF Receipts, Seal
<1>3. Receipt' = Receipt
    BY <1>1, <1>2 DEF Receipt
<1>4. \A p \in ToSet(Roles) : p \in DOMAIN held' /\ held'[p].body = sealed'[p] /\ Body(p)' = Body(p)
    BY DEF Chained, Body
<1>5. /\ Body("simulation")' = Body("simulation") /\ Body("raw")' = Body("raw")
      /\ Body("selection")' = Body("selection") /\ Body("request")' = Body("request")
      /\ Body("extraction")' = Body("extraction") /\ Body("measurement")' = Body("measurement")
    BY <1>4, PathNames
<1>6. Simulation' = Simulation
    BY <1>5 DEF Simulation
<1>7. /\ (Pinned <=> Pinned') /\ (Replays <=> Replays')
      /\ (Binds(Simulation) <=> Binds(Simulation)')
    BY <1>5, <1>6 DEF Pinned, Replays, Binds
<1> QED
    BY <1>1, <1>3, <1>4, <1>5, <1>6, <1>7 DEF Chained, Conforms

(* A change of a file gives it a newer stamp.                              *)
LEMMA StampStep ==
    ASSUME ReceiptTypes, EditFile \/ SwapName \/ UNCHANGED stored, NEW d \in {"here", "there"}, NEW p \in Path
    PROVE  /\ In(d, p).stamp <= In(d, p)'.stamp
           /\ In(d, p).stamp = In(d, p)'.stamp => In(d, p)' = In(d, p)
<1>1. CASE UNCHANGED stored
    BY <1>1, Directories DEF In, Stamped
<1>2. CASE EditFile
    <2>1. PICK q \in Path : \E body : stored' = [stored EXCEPT ![q] = [body |-> body, stamp |-> @.stamp + 1]]
        BY <1>2 DEF EditFile
    <2>2. PICK body : stored' = [stored EXCEPT ![q] = [body |-> body, stamp |-> stored[q].stamp + 1]]
        BY <2>1
    <2>3. stored[p].stamp \in Nat
        BY DEF ReceiptTypes, Stamped
    <2>4. stored'[p] = stored[p] \/ stored'[p].stamp = stored[p].stamp + 1
        BY <2>2 DEF ReceiptTypes
    <2> QED
        BY <2>3, <2>4, Directories DEF In, Stamped
<1>3. CASE SwapName
    BY <1>1, <1>3 DEF SwapName
<1> QED
    BY <1>1, <1>2, <1>3

(* What others write is a file; at the receipt's name it is a receipt, or  *)
(* nothing.                                                                *)
LEMMA Edited ==
    ASSUME ReceiptTypes, EditFile
    PROVE  stored' \in [Path -> Stamped] /\ stored'["receipt"].body \in 0 .. 5
<1>0. PICK q \in Path : \E body \in (Contents(q) \cup {Gone}) \ {stored[q].body} :
          stored' = [stored EXCEPT ![q] = [body |-> body, stamp |-> @.stamp + 1]]
    BY DEF EditFile
<1>1. PICK body \in Contents(q) \cup {Gone} :
          stored' = [stored EXCEPT ![q] = [body |-> body, stamp |-> stored[q].stamp + 1]]
    BY <1>0
<1>2. sealed \in [Path -> Nat]
    BY ChainsAre DEF ReceiptTypes
<1>3. body \in Nat /\ (q = "receipt" => body \in 0 .. 5)
    BY <1>0, <1>1, <1>2 DEF Contents, Gone, Extract, Measure
<1>4. [body |-> body, stamp |-> stored[q].stamp + 1] \in Stamped
    BY <1>0, <1>3 DEF ReceiptTypes, Stamped
<1> QED
    BY <1>0, <1>1, <1>3, <1>4, PathNames DEF ReceiptTypes

(* Every step keeps the types.                                             *)
LEMMA ReceiptTypesStep ==
    ASSUME ReceiptTypes, CaptureInv, PhaseInv, [ReceiptNext]_receiptVars
    PROVE  ReceiptTypes'
<1> USE DEF World, Phases
<1>r. ReceiptTypes => todo \in Seq(FileRecords)
    BY DEF ReceiptTypes, FileRecords
<1>1. CASE Reject
    BY <1>1 DEF Reject, ReceiptTypes
<1>2. CASE Open /\ ~Reject
    <2>1. /\ phase \in {"receipt", "roles", "files"} /\ todo # <<>>
          /\ known' = leads /\ opened' = In(leads, Head(todo).path).stamp + 1
          /\ UNCHANGED <<World, phase, todo, held, verified, moment>>
        BY <1>2 DEF Open
    <2>2. Head(todo).path \in Path
        BY <1>r, <2>1, HeadAndTail DEF FileRecords
    <2>3. In(leads, Head(todo).path).stamp \in Nat
        BY <2>2, Directories DEF ReceiptTypes, Stamped
    <2> QED
        BY <2>1, <2>3 DEF ReceiptTypes
<1>3. CASE ReadFile /\ ~Reject
    <2> DEFINE p == Head(todo).path
    <2>1. /\ opened' = 0 /\ todo' = Tail(todo) /\ UNCHANGED <<World, phase, known>> /\ todo # <<>> /\ p \in Path
          /\ DOMAIN held' = DOMAIN held \cup {p} /\ held' \in [DOMAIN held' -> Stamped]
        BY <1>3, Captures
    <2>2. Tail(todo) \in Seq(FileRecords)
        BY <1>r, <2>1, HeadAndTail
    <2> QED
        BY <2>1, <2>2 DEF ReceiptTypes, FileRecords
<1>4. CASE (Reuse \/ Again) /\ ~Reject
    <2>1. /\ todo # <<>> /\ todo' = Tail(todo) /\ UNCHANGED <<World, phase, known, opened, held>>
        BY <1>4 DEF Reuse, Again
    <2>2. Tail(todo) \in Seq(FileRecords)
        BY <1>r, <2>1, HeadAndTail
    <2> QED
        BY <2>1, <2>2 DEF ReceiptTypes, FileRecords
<1>5. CASE CaptureChain
    <2>1. /\ phase' = "roles" /\ todo' = RoleRecords /\ UNCHANGED <<World, known, opened, held>>
        BY <1>5, CaptureChainFacts
    <2> QED
        BY <2>1, RoleRecordsAre DEF ReceiptTypes, FileRecords
<1>6. CASE JudgeChain /\ ~Reject
    <2>1. /\ phase' = "files" /\ todo' = Receipt.files /\ UNCHANGED <<World, known, opened, held>>
          /\ Receipt.files \in Seq(FileRecords)
        BY <1>6, JudgeChainFacts
    <2> QED
        BY <2>1 DEF ReceiptTypes, FileRecords
<1>7. CASE Replay /\ ~Reject
    <2>1. /\ phase' = "again" /\ todo' \in Seq(FileRecords) /\ UNCHANGED <<World, known, opened, held>>
        BY <1>7, ReplayFacts
    <2> QED
        BY <2>1 DEF ReceiptTypes, FileRecords
<1>8. CASE Return
    BY <1>8 DEF Return, ReceiptTypes
<1>9. CASE EditFile
    <2>1. UNCHANGED <<sealed, phase, todo, known, opened, held, leads>>
        BY <1>9 DEF EditFile, Tampers
    <2> QED
        BY <1>9, <2>1, Edited DEF ReceiptTypes
<1>10. CASE SwapName
    BY <1>10 DEF SwapName, Tampers, ReceiptTypes
<1>11. CASE UNCHANGED receiptVars
    BY <1>11 DEF receiptVars, ReceiptTypes
<1> QED
    BY <1>1, <1>2, <1>3, <1>4, <1>5, <1>6, <1>7, <1>8, <1>9, <1>10, <1>11 DEF ReceiptNext, Verifies, Over

(* Equal stamps, equal contents: captures take the state that is there,    *)
(* and changes leave their mark.                                           *)
LEMMA CaptureInvStep ==
    ASSUME ReceiptTypes, CaptureInv, PhaseInv, [ReceiptNext]_receiptVars
    PROVE  CaptureInv'
<1> USE DEF World
<1>t. \A p \in DOMAIN held : p \in Path /\ held[p].stamp \in Nat /\ held[p] \in Stamped
    BY DEF ReceiptTypes, Stamped
<1>1. ASSUME UNCHANGED <<stored, known, held>>, opened' = 0 PROVE CaptureInv'
    BY <1>1 DEF CaptureInv, In
<1>2. CASE Open /\ ~Reject
    <2> DEFINE p == Head(todo).path
    <2>1. /\ phase \in {"receipt", "roles", "files"} /\ todo # <<>> /\ Opens(p)
          /\ known' = leads /\ opened' = In(leads, p).stamp + 1
          /\ UNCHANGED <<World, phase, todo, held>>
        BY <1>2 DEF Open
    <2>2. p \in Path
        BY <2>1, HeadAndTail DEF ReceiptTypes, FileRecords
    <2>3. In(leads, p).stamp \in Nat /\ leads # "none"
        BY <2>2, Directories DEF ReceiptTypes, Stamped
    <2>4. \A q \in DOMAIN held : known' = known /\ In(known, q)' = In(known, q)
        <3>1. \A q \in DOMAIN held : known' = known
            BY <2>1 DEF CaptureInv, Opens
        <3> QED
            BY <2>1, <3>1 DEF In
    <2>5. p \in DOMAIN held => held[p].stamp = In(leads, p).stamp
        BY <2>1 DEF Opens
    <2> QED
        <3>1. \A q \in DOMAIN held :
                  /\ known' # "none" /\ held[q].stamp <= In(known, q)'.stamp
                  /\ (held[q].stamp = In(known, q)'.stamp => held[q].body = In(known, q)'.body)
            BY <2>1, <2>3, <2>4 DEF CaptureInv
        <3>2. opened' - 1 = In(leads, p).stamp
            BY <2>1, <2>3
        <3> QED
            BY <2>1, <2>3, <2>5, <3>1, <3>2 DEF CaptureInv
<1>3. CASE ReadFile /\ ~Reject
    <2> DEFINE p == Head(todo).path
    <2>1. /\ opened' = 0 /\ UNCHANGED <<World, known>> /\ known # "none" /\ p \in Path
          /\ DOMAIN held' = DOMAIN held \cup {p} /\ held'[p] = In(known, p)
          /\ \A q \in DOMAIN held : held'[q] = held[q]
        BY <1>3, Captures
    <2>2. In(known, p).stamp \in Nat
        BY <2>1, Directories DEF ReceiptTypes, Stamped
    <2>3. \A q : In(known, q)' = In(known, q)
        BY <2>1 DEF In
    <2> QED
        BY <2>1, <2>2, <2>3 DEF CaptureInv
<1>4. CASE EditFile \/ SwapName
    <2>1. UNCHANGED <<phase, todo, known, opened, held>>
        BY <1>4 DEF EditFile, SwapName, Tampers
    <2>2. ASSUME NEW p \in DOMAIN held
          PROVE  /\ held[p].stamp <= In(known, p)'.stamp
                 /\ held[p].stamp = In(known, p)'.stamp => held[p].body = In(known, p)'.body
        <3>1. known \in {"here", "there"} /\ p \in Path
            BY <1>t DEF CaptureInv, ReceiptTypes
        <3>2. /\ In(known, p).stamp <= In(known, p)'.stamp
              /\ In(known, p).stamp = In(known, p)'.stamp => In(known, p)' = In(known, p)
            <4>1. ASSUME NEW d \in {"here", "there"}, known = d
                  PROVE  /\ In(d, p).stamp <= In(d, p)'.stamp
                         /\ In(d, p).stamp = In(d, p)'.stamp => In(d, p)' = In(d, p)
                BY <1>4, <3>1, StampStep
            <4> QED
                BY <2>1, <3>1, <4>1 DEF In
        <3>3. In(known, p).stamp \in Nat /\ In(known, p)'.stamp \in Nat
            <4>1. In(known, p) \in Stamped
                BY <3>1, Directories
            <4>2. stored' \in [Path -> Stamped]
                BY <1>4, Edited DEF SwapName, ReceiptTypes
            <4> QED
                BY <2>1, <3>1, <4>1, <4>2 DEF In, Stamped
        <3> QED
            BY <1>t, <3>2, <3>3 DEF CaptureInv
    <2> QED
        BY <2>1, <2>2 DEF CaptureInv
<1>5. CASE UNCHANGED receiptVars
    BY <1>5 DEF receiptVars, CaptureInv, In
<1>6. CASE Again /\ ~Reject
    <2>1. opened = 0
        BY <1>6 DEF Again, CaptureInv
    <2> QED
        BY <1>1, <1>6, <2>1 DEF Again
<1> QED
    BY <1>1, <1>2, <1>3, <1>4, <1>5, <1>6
    DEF ReceiptNext, Verifies, Over, Reject, Reuse, CaptureChain, JudgeChain, Replay, Return, Arrive, Proceed

(* Each step of the verifier establishes what its next phase knows, and    *)
(* changes by others cannot undo it.                                       *)
LEMMA PhaseStep ==
    ASSUME ReceiptTypes, CaptureInv, PhaseInv, [ReceiptNext]_receiptVars
    PROVE  PhaseInv'
<1> USE DEF World
<1>r. todo \in Seq(FileRecords)
    BY DEF ReceiptTypes, FileRecords
<1>1. CASE Reject
    BY <1>1 DEF Reject, PhaseInv
<1>2. ASSUME UNCHANGED <<sealed, held>>
      PROVE  /\ Receipt' = Receipt /\ Simulation' = Simulation /\ RoleRecords' = RoleRecords
             /\ Body("measurement")' = Body("measurement")
             /\ (TrueReceipt => TrueReceipt') /\ (Chained => Chained')
             /\ (Binds(Simulation) => Binds(Simulation)') /\ (Replays => Replays')
    <2>1. Receipts' = Receipts
        BY <1>2 DEF Receipts, Seal
    <2>2. Receipt' = Receipt /\ \A p : Body(p)' = Body(p)
        BY <1>2, <2>1 DEF Receipt, Body
    <2>3. Simulation' = Simulation
        BY <2>2 DEF Simulation
    <2> QED
        BY <1>2, <2>2, <2>3 DEF RoleRecords, TrueReceipt, Chained, Conforms, Pinned, Binds, Replays, Body
<1>3. ASSUME UNCHANGED <<sealed, phase, todo, held, verified, moment>>,
             phase \in {"again", "verified"} =>
                 \A p \in DOMAIN held : held[p].stamp = In(known, p)'.stamp => moment[p] = held[p].body
      PROVE  PhaseInv'
    <2>1. /\ Receipt' = Receipt /\ Simulation' = Simulation /\ RoleRecords' = RoleRecords
          /\ Body("measurement")' = Body("measurement")
          /\ (TrueReceipt => TrueReceipt') /\ (Chained => Chained')
          /\ (Binds(Simulation) => Binds(Simulation)') /\ (Replays => Replays')
        BY <1>2, <1>3
    <2>2. phase \in {"again", "verified"} => Replayed'
        BY <1>3, <2>1 DEF PhaseInv, Replayed
    <2> QED
        BY <1>3, <2>1, <2>2 DEF PhaseInv
<1>4. CASE Open /\ ~Reject
    BY <1>4, <1>3 DEF Open
<1>5. CASE ReadFile /\ ~Reject
    <2> DEFINE p == Head(todo).path
    <2>1. /\ todo' = Tail(todo) /\ UNCHANGED <<World, phase, known>> /\ known # "none" /\ p \in Path
          /\ todo # <<>> /\ Matches(Head(todo), held'[p].body)
          /\ DOMAIN held' = DOMAIN held \cup {p} /\ held'[p] = In(known, p) /\ In(known, p).body # Gone
          /\ \A q \in DOMAIN held : held'[q] = held[q]
        BY <1>5, Captures
    <2>2. phase \in {"receipt", "roles", "files"}
        BY <1>5 DEF ReadFile, CaptureInv
    <2>3. CASE phase = "receipt"
        <3>1. todo = <<Rec("receipt", Gone)>> /\ DOMAIN held \subseteq {"receipt"}
            BY <2>1, <2>3 DEF PhaseInv
        <3>2. p = "receipt" /\ todo' = <<>>
            BY <2>1, <3>1 DEF Rec
        <3>3. Authentic(Receipts[held'["receipt"].body])
            BY <2>1, <2>3, <3>2 DEF Matches
        <3>4. held'["receipt"].body \in 1 .. 5
            <4>1. In(known, "receipt").body \in 0 .. 5
                BY <2>1, <3>2, Directories DEF ReceiptTypes
            <4> QED
                BY <2>1, <3>2, <4>1 DEF Gone
        <3>5. TrueReceipt'
            BY <2>1, <3>2, <3>3, <3>4, Signed DEF TrueReceipt
        <3> QED
            BY <2>1, <2>3, <3>1, <3>2, <3>5 DEF PhaseInv
    <2>4. ASSUME phase # "receipt" PROVE Found(held', Head(todo))
        BY <2>1, <2>4 DEF Matches, Found
    <2>5. CASE phase = "roles"
        <3>1. /\ TrueReceipt /\ Suffix(todo, RoleRecords) /\ Finished(held, todo, RoleRecords)
              /\ DOMAIN held \subseteq {"receipt"} \cup ToSet(Roles)
            BY <2>5 DEF PhaseInv
        <3>2. RoleRecords \in Seq(FileRecords) /\ RoleRecords' = RoleRecords
            BY <2>1, RoleRecordsAre DEF RoleRecords
        <3>3. Suffix(todo', RoleRecords) /\ Finished(held', todo', RoleRecords)
            BY <1>r, <2>1, <2>4, <2>5, <3>1, <3>2, SuffixTail, FinishedTail
        <3>4. p \in ToSet(Roles)
            <4>1. Head(todo) = RoleRecords[Len(RoleRecords) - Len(todo) + 1]
                BY <1>r, <2>1, <3>1, <3>2, SuffixTail
            <4>2. Len(RoleRecords) - Len(todo) + 1 \in 1 .. 6
                <5>1. Len(todo) \in Nat \ {0}
                    BY <1>r, <2>1, HeadAndTail
                <5>2. Len(todo) <= 6 /\ Len(RoleRecords) = 6
                    BY <3>1, RoleRecordsAre DEF Suffix
                <5> QED
                    BY <5>1, <5>2
            <4>3. \A i \in 1 .. 6 : RoleRecords[i].path = Roles[i]
                BY RoleRecordsAre DEF Rec
            <4> QED
                BY <4>1, <4>2, <4>3, PathNames
        <3>5. TrueReceipt'
            BY <2>1, <3>1 DEF TrueReceipt
        <3> QED
            BY <2>1, <2>5, <3>1, <3>2, <3>3, <3>4, <3>5 DEF PhaseInv
    <2>6. CASE phase = "files"
        <3>1. /\ TrueReceipt /\ Chained /\ Suffix(todo, Receipt.files) /\ Finished(held, todo, Receipt.files)
            BY <2>6 DEF PhaseInv
        <3>2. Receipt.files \in Seq(FileRecords)
            BY <3>1, ChainFacts
        <3>3. Suffix(todo', Receipt.files) /\ Finished(held', todo', Receipt.files)
            BY <1>r, <2>1, <2>4, <2>6, <3>1, <3>2, SuffixTail, FinishedTail
        <3>4. p \in Paths(Receipt.files)
            <4>1. Head(todo) = Receipt.files[Len(Receipt.files) - Len(todo) + 1]
                BY <1>r, <2>1, <3>1, <3>2, SuffixTail
            <4>2. Len(Receipt.files) - Len(todo) + 1 \in DOMAIN Receipt.files
                BY <1>r, <2>1, <3>1, <3>2, HeadAndTail DEF Suffix
            <4> QED
                BY <4>1, <4>2 DEF Paths
        <3>5. DOMAIN held \subseteq {"receipt"} \cup ToSet(Roles) \cup Paths(Receipt.files)
            BY <3>1 DEF Chained
        <3>6. TrueReceipt' /\ Receipt' = Receipt /\ Chained'
            BY <2>1, <3>1, <3>4, <3>5, Extends
        <3> QED
            BY <2>1, <2>6, <3>3, <3>6 DEF PhaseInv
    <2> QED
        BY <2>2, <2>3, <2>5, <2>6
<1>6. CASE Reuse /\ ~Reject
    <2>1. /\ phase = "files" /\ todo # <<>> /\ Head(todo).path \in Taken
          /\ Matches(Head(todo), held[Head(todo).path].body)
          /\ todo' = Tail(todo) /\ UNCHANGED <<World, phase, held>>
        BY <1>6 DEF Reuse
    <2>2. /\ TrueReceipt /\ Chained /\ Suffix(todo, Receipt.files) /\ Finished(held, todo, Receipt.files)
        BY <2>1 DEF PhaseInv
    <2>3. Found(held, Head(todo))
        BY <2>1, <2>2, TakenFound DEF Found, Matches
    <2>4. Suffix(todo', Receipt.files) /\ Finished(held', todo', Receipt.files)
        BY <1>r, <2>1, <2>2, <2>3, ChainFacts, SuffixTail, FinishedTail
    <2> QED
        BY <1>2, <2>1, <2>2, <2>4 DEF PhaseInv
<1>7. CASE CaptureChain
    <2>1. /\ TrueReceipt /\ phase = "receipt" /\ todo = <<>> /\ phase' = "roles" /\ todo' = RoleRecords
          /\ UNCHANGED <<World, held>>
        BY <1>7, CaptureChainFacts
    <2>2. Suffix(RoleRecords, RoleRecords) /\ Finished(held, RoleRecords, RoleRecords)
        BY RoleRecordsAre DEF Suffix, Finished
    <2>3. DOMAIN held \subseteq {"receipt"}
        BY <2>1 DEF PhaseInv
    <2> QED
        BY <1>2, <2>1, <2>2, <2>3 DEF PhaseInv
<1>8. CASE JudgeChain /\ ~Reject
    <2>1. /\ TrueReceipt /\ Chained /\ Receipt.files \in Seq(FileRecords)
          /\ phase' = "files" /\ todo' = Receipt.files /\ UNCHANGED <<World, held>>
        BY <1>8, JudgeChainFacts
    <2>2. Suffix(Receipt.files, Receipt.files) /\ Finished(held, Receipt.files, Receipt.files)
        BY <2>1 DEF Suffix, Finished
    <2> QED
        BY <1>2, <2>1, <2>2 DEF PhaseInv
<1>9. CASE Replay /\ ~Reject
    <2>1. /\ TrueReceipt /\ Chained /\ phase' = "again"
          /\ \A i \in DOMAIN Receipt.files : Found(held, Receipt.files[i])
          /\ Binds(Simulation) /\ Replays
          /\ \A p \in DOMAIN held : \E i \in 1 .. Len(todo') : todo'[i].path = p
          /\ moment' = [p \in DOMAIN held |-> In(known, p).body]
          /\ UNCHANGED <<World, known, held>>
        BY <1>9, ReplayFacts
    <2>2. \A p \in DOMAIN held : held[p].stamp = In(known, p)'.stamp => moment'[p] = held[p].body
        BY <2>1 DEF In, CaptureInv
    <2>3. Replayed'
        BY <1>2, <2>1, <2>2 DEF Replayed
    <2> QED
        BY <1>2, <2>1, <2>3 DEF PhaseInv
<1>10. CASE Again /\ ~Reject
    <2> DEFINE p == Head(todo).path
    <2>1. /\ phase = "again" /\ todo # <<>> /\ Unchanged(p, held[p].stamp)
          /\ todo' = Tail(todo) /\ UNCHANGED <<World, phase, known, held, verified, moment>>
        BY <1>10 DEF Again
    <2>2. TrueReceipt /\ Chained /\ Replayed
        BY <2>1 DEF PhaseInv
    <2>3. p \in DOMAIN held => moment[p] = held[p].body
        BY <2>1, <2>2 DEF Unchanged, Replayed
    <2>4. ASSUME NEW q \in DOMAIN held, moment[q] # held[q].body PROVE \E i \in 1 .. Len(todo') : todo'[i].path = q
        <3>1. PICK i \in 1 .. Len(todo) : todo[i].path = q
            BY <2>2, <2>4 DEF Replayed
        <3>2. i # 1
            BY <1>r, <2>1, <2>3, <2>4, <3>1, HeadAndTail
        <3>3. i \in 2 .. Len(todo) /\ Len(todo) \in Nat
            BY <1>r, <2>1, <3>1, <3>2, HeadAndTail
        <3>4. i - 1 \in 1 .. Len(todo') /\ todo'[i - 1].path = q
            BY <1>r, <2>1, <3>1, <3>3, HeadAndTail
        <3> QED
            BY <3>4
    <2>5. Replayed'
        BY <1>2, <2>1, <2>2, <2>4 DEF Replayed, In
    <2> QED
        BY <1>2, <2>1, <2>2, <2>5 DEF PhaseInv
<1>11. CASE Return
    <2>1. /\ phase = "again" /\ todo = <<>> /\ phase' = "verified" /\ verified' = Body("measurement")
          /\ UNCHANGED <<World, todo, known, held, moment>>
        BY <1>11 DEF Return, Arrive
    <2>2. TrueReceipt /\ Chained /\ Replayed
        BY <2>1 DEF PhaseInv
    <2>3. Replayed'
        BY <1>2, <2>1, <2>2 DEF Replayed, In
    <2> QED
        BY <1>2, <2>1, <2>2, <2>3 DEF PhaseInv
<1>12. CASE EditFile \/ SwapName
    <2>1. UNCHANGED <<sealed, phase, todo, known, held, verified, moment>>
        BY <1>12 DEF EditFile, SwapName, Tampers
    <2>2. ASSUME phase \in {"again", "verified"}, NEW p \in DOMAIN held, held[p].stamp = In(known, p)'.stamp
          PROVE  moment[p] = held[p].body
        <3>1. known \in {"here", "there"} /\ p \in Path
            BY DEF CaptureInv, ReceiptTypes
        <3>2. In(known, p).stamp <= In(known, p)'.stamp
            <4>1. ASSUME NEW d \in {"here", "there"} PROVE In(d, p).stamp <= In(d, p)'.stamp
                BY <1>12, <3>1, StampStep
            <4> QED
                BY <2>1, <3>1, <4>1 DEF In
        <3>3. In(known, p).stamp \in Nat /\ held[p].stamp \in Nat
            BY <3>1, Directories DEF ReceiptTypes, Stamped
        <3>4. held[p].stamp = In(known, p).stamp
            BY <2>2, <3>2, <3>3 DEF CaptureInv
        <3> QED
            BY <2>2, <3>4 DEF PhaseInv, Replayed
    <2> QED
        BY <1>3, <2>1, <2>2
<1>13. CASE UNCHANGED receiptVars
    <2>1. UNCHANGED <<sealed, stored, phase, todo, known, held, verified, moment>>
        BY <1>13 DEF receiptVars
    <2>2. \A p : In(known, p)' = In(known, p)
        BY <2>1 DEF In
    <2> QED
        BY <1>3, <2>1, <2>2 DEF PhaseInv, Replayed
<1> QED
    BY <1>1, <1>4, <1>5, <1>6, <1>7, <1>8, <1>9, <1>10, <1>11, <1>12, <1>13 DEF ReceiptNext, Verifies, Over

(* The first states satisfy all of them.                                   *)
LEMMA ReceiptInvInit == ReceiptInit => ReceiptInv
<1> SUFFICES ASSUME ReceiptInit PROVE ReceiptInv
    OBVIOUS
<1>1. sealed \in [Path -> Nat] /\ sealed["receipt"] = 1
    BY ChainsAre DEF ReceiptInit
<1>2. /\ stored = [p \in Path |-> [body |-> sealed[p], stamp |-> 1]] /\ leads = "here" /\ phase = "receipt"
      /\ todo = <<Rec("receipt", Gone)>> /\ known = "none" /\ opened = 0 /\ held = <<>> /\ sealed \in Chains
    BY DEF ReceiptInit
<1>3. DOMAIN held = {} /\ held \in [DOMAIN held -> Stamped]
    BY <1>2
<1>4. ReceiptTypes
    <2>1. stored \in [Path -> Stamped] /\ stored["receipt"].body \in 0 .. 5
        BY <1>1, <1>2, PathNames DEF Stamped
    <2>2. todo \in Seq(FileRecords)
        BY <1>2, PathNames, RecordsAre DEF Gone
    <2> QED
        BY <1>2, <1>3, <2>1, <2>2 DEF ReceiptTypes, Phases, FileRecords
<1>5. CaptureInv
    BY <1>2, <1>3 DEF CaptureInv
<1>6. PhaseInv
    BY <1>2, <1>3 DEF PhaseInv
<1> QED
    BY <1>4, <1>5, <1>6 DEF ReceiptInv

(* The invariants of the verification hold in every reachable state,       *)
(* however often others touch files and directories.                       *)
THEOREM ReceiptInvariance == ReceiptSpec => []ReceiptInv
<1>1. ReceiptInv /\ [ReceiptNext]_receiptVars => ReceiptInv'
    BY ReceiptTypesStep, CaptureInvStep, PhaseStep DEF ReceiptInv
<1> QED
    BY <1>1, ReceiptInvInit, PTL DEF ReceiptSpec

(* A verified chain satisfies the property.                                *)
LEMMA Stood == ReceiptInv => VerifiedStood
<1> SUFFICES ASSUME ReceiptInv, phase = "verified" 
             PROVE  /\ Together /\ OfThisJob
                    /\ Simulation.status = "pass" /\ Simulation.configured /\ Simulation.context = 1
                    /\ Simulation.results = <<Rec("raw", Body("raw"))>>
                    /\ verified = Measure(Extract(Body("simulation"), Body("raw"), 1), 1)
    BY DEF VerifiedStood
<1>1. /\ ReceiptTypes /\ TrueReceipt /\ Chained /\ Replayed /\ todo = <<>> /\ verified = Body("measurement")
    BY DEF ReceiptInv, PhaseInv
<1>2. Together
    <2>1. Len(todo) = 0
        BY <1>1
    <2> QED
        BY <1>1, <2>1 DEF Replayed, Together
<1>3. OfThisJob
    <2>1. Receipt.signed /\ Receipt.job = 1 /\ Receipt.subject = 1
        BY <1>1, Signed DEF TrueReceipt, Receipt, Authentic
    <2>2. \A r \in ToSet(Recorded(Body("simulation"))) : held[r.path].body = r.sha
        BY <1>1 DEF Replayed, Chained, Found, ToSet
    <2> QED
        BY <1>1, <2>1, <2>2 DEF OfThisJob, Chained
<1>4. Simulation.status = "pass" /\ Simulation.configured /\ Simulation.context = 1
      /\ Body("selection") = 1 /\ Body("request") = 1
    BY <1>1 DEF Chained, Conforms, Pinned
<1>5. Simulation.results = <<Rec("raw", Body("raw"))>>
    <2>1. Simulation.results \in Seq(FileRecords)
        BY <1>1, ChainFacts DEF Envelope
    <2>2. Len(Simulation.results) = 1 /\ Simulation.results[1] = Rec("raw", Body("raw"))
        BY <1>1 DEF Replayed, Binds
    <2> QED
        BY <2>1, <2>2
<1>6. verified = Measure(Extract(Body("simulation"), Body("raw"), 1), 1)
    BY <1>1, <1>4 DEF Replayed, Replays
<1> QED
    BY <1>2, <1>3, <1>4, <1>5, <1>6

(* The type invariant of the verification.                                 *)
THEOREM ReceiptTypeOK == ReceiptSpec => []ReceiptTypes
BY ReceiptInvariance, PTL DEF ReceiptInv

(* The measurement that verify_typed_evidence_receipt hands on stood: at   *)
(* one moment every file held what was captured of it, the files are those *)
(* that the scheduler signed for this attempt and subject, and the value   *)
(* is what extraction and measurement make of the recorded raw file.       *)
THEOREM WhatIsVerifiedStood == ReceiptSpec => []VerifiedStood
BY ReceiptInvariance, Stood, PTL
=============================================================================
