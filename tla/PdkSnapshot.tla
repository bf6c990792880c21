---------------------------- MODULE PdkSnapshot ----------------------------
(***************************************************************************)
(* What becomes of a captured closure: publish writes it to a directory of *)
(* its own, takes the write permissions away and renames it to its digest, *)
(* and every native run is enclosed by two calls of verify_snapshot.       *)
(* Somebody with the same rights may change that directory at any time,    *)
(* any step of the file system may fail, and the process may be killed.    *)
(*                                                                         *)
(* A path is a place where a file may be below the snapshot's root: the    *)
(* captured files, the manifest, and those that nobody declared.           *)
(***************************************************************************)
EXTENDS Naturals, Sequences, FiniteSets

CONSTANTS
    Path,      \* the places below the root
    Order,     \* builder.captured: the captured files, in the order of capture
    Manifest,  \* openada-pdk-snapshot.json
    Dirs,      \* the directories, each after those inside it: last the PDK's and the root
    DirOf,     \* DirOf[p]: the directory that p is in
    Disturbed, \* the sets of paths that one change of somebody else affects
    MaxRuns,   \* bound on the native runs that share the binding
    MaxEdits   \* bound on the changes that somebody else makes

Written  == Append(Order, Manifest)      \* the order of publish
Records  == <<Manifest>> \o Order        \* input_records, the order of verify_snapshot
Range(s) == {s[i] : i \in DOMAIN s}
File     == Range(Written)
Dir      == Range(Dirs)

(* A loose file has the captured bytes and is writable, linked or a link.  *)
Content == {"absent", "partial", "captured", "loose", "changed"}
Byte    == {"absent", "partial", "captured", "changed"}

Expected(p) == IF p \in File THEN "captured" ELSE "absent"

ASSUME PathAssumption ==
    /\ Order \in Seq(Path) /\ Manifest \in Path
    /\ \A i, j \in DOMAIN Written : Written[i] = Written[j] => i = j
ASSUME DirAssumption ==
    /\ Len(Dirs) >= 2 /\ Dirs \in Seq(Range(Dirs)) /\ DirOf \in [Path -> Range(Dirs)]
    /\ \A i, j \in DOMAIN Dirs : Dirs[i] = Dirs[j] => i = j
ASSUME ChangeAssumption == Disturbed \subseteq SUBSET Path
ASSUME RunAssumption == {MaxRuns, MaxEdits} \subseteq Nat

VARIABLES
    parent,   \* "temp": made by mkdtemp for this process; "kept": below the caller's snapshot_parent
    place,    \* where the tree is: "none", "made" (no tree yet), "staging" or "final"
    disk,     \* what is at each path of the tree
    sealed,   \* the directories without write permission
    pc,       \* what the process does next
    at,       \* the file or directory it does it to
    seen,     \* observed_files
    after,    \* what this verification is for: "resolve", "use", "launch" or "report"
    why,      \* the code of the last refusal
    used,     \* the bytes that the current native run found at each path
    runs,     \* the native runs so far
    reports,  \* those whose result was returned
    alive,    \* the process has not been killed
    edits,    \* the changes that somebody else made
    touched   \* those made to each path since the current run's first verification began

tree   == <<parent, place, disk, sealed>>
call   == <<pc, at, seen, after, why>>
native == <<used, runs, reports>>
other  == <<alive, edits, touched>>
vars   == <<tree, call, native, other>>

Unread    == [p \in Path |-> "unread"]
Untouched == [p \in Path |-> 0]

Init ==
    /\ parent \in {"temp", "kept"} /\ place = "none"
    /\ disk = [p \in Path |-> "absent"] /\ sealed = {}
    /\ pc = "start" /\ at = 1 /\ seen = {} /\ after = "resolve" /\ why = "none"
    /\ used = Unread /\ runs = 0 /\ reports = 0
    /\ alive = TRUE /\ edits = 0 /\ touched = Untouched

Goto(next, index) ==
    /\ pc' = next /\ at' = index
    /\ UNCHANGED <<seen, after, why>>

Refuse(next, code) ==
    /\ pc' = next /\ why' = code
    /\ UNCHANGED <<at, seen, after>>

-----------------------------------------------------------------------------
(***************************************************************************)
(* publish.  The files are created with O_EXCL and mode 0400.              *)
(***************************************************************************)
MakeParent ==
    /\ pc = "start"
    /\ \/ /\ place' = "made" /\ Goto("stage", 1)
       \/ /\ Refuse("refused", IF parent = "kept" THEN "destination_invalid" ELSE "os_error")
          /\ UNCHANGED place
    /\ UNCHANGED <<parent, disk, sealed, native, touched>>

WriteInPlace ==   \* mutation: the files are written below the digest's name
    /\ pc = "stage"
    /\ place' = "final" /\ Goto("create", 1)
    /\ UNCHANGED <<parent, disk, sealed, native, touched>>

MakeStaging ==
    /\ pc = "stage"
    /\ place' = "staging" /\ Goto("create", 1)
    /\ UNCHANGED <<parent, disk, sealed, native, touched>>

CreateFile ==
    /\ pc = "create" /\ disk[Written[at]] = "absent"
    /\ disk' = [disk EXCEPT ![Written[at]] = "partial"]
    /\ Goto("fill", at)
    /\ UNCHANGED <<parent, place, sealed, native, touched>>

(* The bytes go to the file that was created, whatever is there by now.    *)
FillFile ==
    /\ pc = "fill"
    /\ disk' = [disk EXCEPT ![Written[at]] = IF @ = "partial" THEN "captured" ELSE @]
    /\ IF at < Len(Written) THEN Goto("create", at + 1) ELSE Goto("seal", 1)
    /\ UNCHANGED <<parent, place, sealed, native, touched>>

SealDirectory ==
    /\ pc = "seal"
    /\ sealed' = sealed \cup {Dirs[at]}
    /\ IF at < Len(Dirs) THEN Goto("seal", at + 1) ELSE Goto("rename", 1)
    /\ UNCHANGED <<parent, place, disk, native, touched>>

RenameToDigest ==
    /\ pc = "rename"
    /\ place' = "final" /\ Goto("reread", 1)
    /\ UNCHANGED <<parent, disk, sealed, native, touched>>

(* Any of these steps may fail instead: rmtree, which ignores its errors.  *)
Remains == [p \in Path |-> IF DirOf[p] \in sealed THEN disk[p] ELSE "absent"]

PublishFails ==
    /\ pc \in {"stage", "create", "fill", "seal", "rename"}
    /\ disk' = Remains
    /\ place' = IF sealed = {} THEN "none" ELSE "staging"
    /\ Refuse("refused", "publication_failed")
    /\ UNCHANGED <<parent, sealed, native, touched>>

(* The bytes of a path, as somebody finds them who follows a link.         *)
Listed(p) == disk[p]   \* mutation: links are not followed

Bytes(p) == IF disk[p] = "loose" THEN "captured" ELSE disk[p]

Verify(purpose) == pc' = "verify" /\ at' = 0 /\ seen' = {} /\ after' = purpose /\ UNCHANGED why

(* A file that cannot be read, or that differs: nothing is removed.        *)
Reread ==
    /\ pc = "reread"
    /\ \/ Refuse("refused", "publication_failed")
       \/ /\ Bytes(Written[at]) = "captured"
          /\ IF at < Len(Written) THEN Goto("reread", at + 1) ELSE Verify("resolve")
    /\ UNCHANGED <<tree, native, touched>>

-----------------------------------------------------------------------------
(***************************************************************************)
(* verify_snapshot: the root, each record, each directory, the comparison. *)
(* A file or directory that cannot be read is refused as one that differs, *)
(* and the binding, once resolved, may be used again after a refusal.      *)
(***************************************************************************)
Walked(i) == Dirs[Len(Dirs) + 1 - (i - Len(Records))]   \* the directory of step i
WalkSteps == Len(Records) + 1 .. Len(Records) + Len(Dirs)
VerifyEnd == Len(Records) + Len(Dirs) + 1

Unstable == Refuse(IF after = "resolve" THEN "refused" ELSE "held", "unstable")

Root == {Dirs[Len(Dirs)], Dirs[Len(Dirs) - 1]}   \* snapshot_root and root

VerifyRoot ==
    /\ pc = "verify" /\ at = 0
    /\ (Root \subseteq sealed /\ Goto("verify", 1)) \/ Unstable
    /\ UNCHANGED <<tree, native, touched>>

VerifyRecord ==
    /\ pc = "verify" /\ at \in DOMAIN Records
    /\ (disk[Records[at]] = "captured" /\ Goto("verify", at + 1)) \/ Unstable
    /\ UNCHANGED <<tree, native, touched>>

(* A loose file is seen like another here, unless it is a link.            *)
VerifyDirectory ==
    /\ pc = "verify" /\ at \in WalkSteps
    /\ \/ /\ Walked(at) \in sealed
          /\ seen' = seen \cup {p \in Path : DirOf[p] = Walked(at) /\ disk[p] # "absent"}
          /\ at' = at + 1 /\ UNCHANGED <<pc, after, why>>
       \/ Unstable
    /\ UNCHANGED <<tree, native, touched>>

(* The files that were seen against the records; then what it was for.     *)
(* The locators and the closure's digest that are compared too never       *)
(* change.                                                                 *)
VerifyTree ==
    /\ pc = "verify" /\ at = VerifyEnd
    /\ \/ seen # File /\ Unstable /\ UNCHANGED native
       \/ seen = File /\ after \in {"resolve", "use"} /\ Goto("held", 1) /\ UNCHANGED native
       \/ /\ seen = File /\ after = "launch" /\ Goto("native", 1)
          /\ runs' = runs + 1 /\ used' = Unread /\ UNCHANGED reports
       \/ /\ seen = File /\ after = "report" /\ Goto("held", 1)
          /\ reports' = reports + 1 /\ UNCHANGED <<used, runs>>
    /\ UNCHANGED <<tree, touched>>

-----------------------------------------------------------------------------
(***************************************************************************)
(* The users of a binding: _pdk_namespaces and _resolve_model_source only  *)
(* verify it, _run_bound_deck verifies it before and after ngspice.        *)
(***************************************************************************)
UseBinding == pc = "held" /\ Verify("use") /\ UNCHANGED <<tree, native, touched>>

BeginRun ==
    /\ pc = "held" /\ runs < MaxRuns
    /\ Verify("launch") /\ touched' = Untouched
    /\ UNCHANGED <<tree, native>>

NativeReads(p) ==
    /\ pc = "native" /\ used[p] = "unread"
    /\ used' = [used EXCEPT ![p] = Bytes(p)]
    /\ UNCHANGED <<tree, call, runs, reports, touched>>

UncheckedEnd ==   \* mutation: the snapshot is not verified after the run
    /\ pc = "native" /\ Goto("held", 1) /\ reports' = reports + 1
    /\ UNCHANGED <<tree, used, runs, touched>>

EndRun == pc = "native" /\ Verify("report") /\ UNCHANGED <<tree, native, touched>>

-----------------------------------------------------------------------------
(***************************************************************************)
(* The process exits: _cleanup_temp_snapshot_parent, registered with the   *)
(* directory of its own, gives the permissions back and removes the tree.  *)
(***************************************************************************)
Exit ==
    /\ pc \in {"held", "refused"}
    /\ IF parent = "temp" /\ place # "none" THEN Goto("relax", 1) ELSE Goto("exited", 1)
    /\ UNCHANGED <<tree, native, touched>>

RelaxNothing ==   \* mutation: the permissions are not given back
    /\ pc = "relax" /\ Goto("remove", 1) /\ UNCHANGED <<tree, native, touched>>

Relax ==
    /\ pc = "relax" /\ sealed' = {} /\ Goto("remove", 1)
    /\ UNCHANGED <<parent, place, disk, native, touched>>

RemoveFile(p) ==
    /\ pc = "remove" /\ disk[p] # "absent" /\ DirOf[p] \notin sealed
    /\ disk' = [disk EXCEPT ![p] = "absent"]
    /\ UNCHANGED <<parent, place, sealed, call, native, touched>>

RemoveParent ==
    /\ pc = "remove" /\ \A p \in Path : disk[p] # "absent" => DirOf[p] \in sealed
    /\ place' = IF sealed = {} THEN "none" ELSE place
    /\ Goto("exited", 1)
    /\ UNCHANGED <<parent, disk, sealed, native, touched>>

-----------------------------------------------------------------------------
(***************************************************************************)
(* Somebody else changes the files of a set alike, or the mode of a        *)
(* directory; to rename an ancestor and back is to change every file.      *)
(***************************************************************************)
Meddling == place \in {"staging", "final"} /\ pc \notin {"relax", "remove", "exited"}

Tamper(S, c) ==
    /\ Meddling /\ edits < MaxEdits
    /\ \A p \in S : disk[p] # c /\ (p \notin File => c \in {"absent", "changed"})
    /\ disk' = [p \in Path |-> IF p \in S THEN c ELSE disk[p]]
    /\ edits' = edits + 1
    /\ touched' = [p \in Path |-> IF p \in S THEN touched[p] + 1 ELSE touched[p]]
    /\ UNCHANGED <<parent, place, sealed, call, native, alive>>

Chmod(d) ==
    /\ Meddling /\ edits < MaxEdits
    /\ sealed' = IF d \in sealed THEN sealed \ {d} ELSE sealed \cup {d}
    /\ edits' = edits + 1
    /\ UNCHANGED <<parent, place, disk, call, native, alive, touched>>

Kill == alive /\ alive' = FALSE /\ UNCHANGED <<tree, call, native, edits, touched>>

Finished == (~alive \/ pc = "exited") /\ UNCHANGED vars

Publish ==
    \/ MakeParent \/ MakeStaging \/ CreateFile \/ FillFile \/ SealDirectory
    \/ RenameToDigest \/ PublishFails \/ Reread

Consume ==
    \/ VerifyRoot \/ VerifyRecord \/ VerifyDirectory \/ VerifyTree
    \/ UseBinding \/ BeginRun \/ EndRun \/ (\E p \in Path : NativeReads(p))

Reclaim == Exit \/ Relax \/ RemoveParent \/ \E p \in Path : RemoveFile(p)

Next ==
    \/ alive /\ (Publish \/ Consume \/ Reclaim) /\ UNCHANGED <<alive, edits>>
    \/ \E S \in Disturbed : \E c \in {"absent", "captured", "loose", "changed"} : Tamper(S, c)
    \/ \E d \in Dir : Chmod(d)
    \/ Kill
    \/ Finished

Spec == Init /\ [][Next]_vars

-----------------------------------------------------------------------------
(* The variables have their types.                                         *)
TypeOK ==
    /\ parent \in {"temp", "kept"} /\ place \in {"none", "made", "staging", "final"}
    /\ disk \in [Path -> Content] /\ sealed \subseteq Dir
    /\ pc \in {"start", "stage", "create", "fill", "seal", "rename", "reread", "verify", "held",
               "native", "refused", "relax", "remove", "exited"}
    /\ at \in 0..VerifyEnd /\ seen \subseteq Path
    /\ after \in {"resolve", "use", "launch", "report"}
    /\ why \in {"none", "os_error", "destination_invalid", "publication_failed", "unstable"}
    /\ used \in [Path -> Byte \cup {"unread"}]
    /\ runs \in 0..MaxRuns /\ reports \in 0..runs
    /\ alive \in BOOLEAN /\ edits \in 0..MaxEdits /\ touched \in [Path -> 0..MaxEdits]

(***************************************************************************)
(* Unless somebody else interferes, the directory with the digest's name   *)
(* holds the captured files, the manifest and nothing else, and is sealed: *)
(* also when a step failed or the process was killed (publish).            *)
(***************************************************************************)
FinalIsWhole ==
    place = "final" /\ edits = 0 /\ pc # "remove" =>
        (\A p \in Path : disk[p] = Expected(p)) /\ sealed = Dir

(***************************************************************************)
(* A native run whose result is returned found at every path what had been *)
(* captured, unless somebody changed that path and put it back during the  *)
(* run: one change, whenever it is made, is not missed (verify_snapshot    *)
(* before and after the native launch).                                    *)
(***************************************************************************)
Genuine(p) == used[p] \in {"unread", Expected(p)}

ReportIsOfTheCapture ==
    [][reports' # reports => \A p \in Path : Genuine(p) \/ touched[p] >= 2]_vars

(***************************************************************************)
(* A process that ends in its own time leaves nothing of the directory it  *)
(* made for itself, however the publication or the runs ended              *)
(* (_cleanup_temp_snapshot_parent).                                        *)
(***************************************************************************)
Reclaimed == pc = "exited" /\ parent = "temp" => place = "none" /\ \A p \in Path : disk[p] = "absent"
=============================================================================
