------------------------- MODULE PdkSnapshot_proofs -------------------------
(***************************************************************************)
(* Proofs about PdkSnapshot, for every set of files and every bound.       *)
(***************************************************************************)
EXTENDS PdkSnapshot, TLAPS

(* Where the indices of publish are, and the counters that bound others.   *)
Counting ==
    /\ pc \in {"create", "fill", "reread"} => at \in DOMAIN Written
    /\ pc = "seal" => at \in DOMAIN Dirs
    /\ pc = "verify" /\ after = "launch" => runs < MaxRuns
    /\ pc = "native" => reports < runs
    /\ pc = "verify" /\ after = "report" => reports < runs
    /\ \A p \in Path : touched[p] =< edits

TypeInv == TypeOK /\ Counting

-----------------------------------------------------------------------------
(* The two orders of the files, and the walk, as sequences.                *)
LEMMA Orders ==
    /\ Len(Order) \in Nat /\ Len(Dirs) \in Nat /\ Len(Dirs) >= 1
    /\ Written \in Seq(Path) /\ Len(Written) = Len(Order) + 1
    /\ Records \in Seq(Path) /\ Len(Records) = Len(Order) + 1
    /\ DOMAIN Written = 1..(Len(Order) + 1) /\ DOMAIN Records = 1..(Len(Order) + 1)
    /\ DOMAIN Dirs = 1..Len(Dirs)
    /\ VerifyEnd = Len(Order) + Len(Dirs) + 2
    /\ WalkSteps = Len(Order) + 2 .. Len(Order) + Len(Dirs) + 1
<1>1. Len(Order) \in Nat /\ Order \in Seq(Path) /\ Manifest \in Path
    BY PathAssumption
<1>2. Len(Dirs) \in Nat /\ Len(Dirs) >= 1 /\ DOMAIN Dirs = 1..Len(Dirs)
    BY DirAssumption
<1>3. Written \in Seq(Path) /\ Len(Written) = Len(Order) + 1
    BY <1>1 DEF Written
<1>4. Records \in Seq(Path) /\ Len(Records) = Len(Order) + 1
    BY <1>1 DEF Records
<1>5. DOMAIN Written = 1..(Len(Order) + 1) /\ DOMAIN Records = 1..(Len(Order) + 1)
    BY <1>1, <1>3, <1>4
<1>6. VerifyEnd = Len(Order) + Len(Dirs) + 2
    BY <1>1, <1>2, <1>4 DEF VerifyEnd
<1>7. WalkSteps = Len(Order) + 2 .. Len(Order) + Len(Dirs) + 1
    BY <1>1, <1>2, <1>4 DEF WalkSteps
<1> QED
    BY <1>1, <1>2, <1>3, <1>4, <1>5, <1>6, <1>7

(* Every file has one place in each of the two orders.                     *)
LEMMA Files ==
    /\ File \subseteq Path
    /\ \A p \in File : \E i \in DOMAIN Written : Written[i] = p
    /\ \A i \in DOMAIN Written : Written[i] \in File
    /\ \A i, j \in DOMAIN Written : Written[i] = Written[j] => i = j
    /\ \A p \in File : \E i \in DOMAIN Records : Records[i] = p
    /\ \A i \in DOMAIN Records : Records[i] \in File
<1>1. File = {Written[i] : i \in DOMAIN Written}
    BY DEF File, Range
<1>2. \A i \in DOMAIN Written : Written[i] \in Path
    BY Orders
<1>3. \A i, j \in DOMAIN Written : Written[i] = Written[j] => i = j
    BY PathAssumption
<1>4. /\ \A i \in 1..Len(Order) : Written[i] = Order[i] /\ Records[i + 1] = Order[i]
      /\ Written[Len(Order) + 1] = Manifest /\ Records[1] = Manifest
    BY PathAssumption DEF Written, Records
<1>5. ASSUME NEW i \in DOMAIN Written
      PROVE  \E j \in DOMAIN Records : Records[j] = Written[i]
  <2>1. CASE i = Len(Order) + 1
    BY SMTT(30), <2>1, <1>4, Orders
  <2>2. CASE i # Len(Order) + 1
    <3>1. i \in 1..Len(Order) /\ i + 1 \in DOMAIN Records
        BY <2>2, <1>5, Orders
    <3> QED
        BY <3>1, <1>4
  <2> QED
    BY <2>1, <2>2
<1>6. ASSUME NEW j \in DOMAIN Records
      PROVE  \E i \in DOMAIN Written : Written[i] = Records[j]
  <2>1. CASE j = 1
    BY <2>1, <1>4, Orders
  <2>2. CASE j # 1
    <3>1. j - 1 \in 1..Len(Order) /\ j - 1 \in DOMAIN Written /\ (j - 1) + 1 = j
        BY <2>2, <1>6, Orders
    <3> QED
        BY <3>1, <1>4
  <2> QED
    BY <2>1, <2>2
<1> QED
    BY <1>1, <1>2, <1>3, <1>5, <1>6

(* The walk's directory is one of them; the walk reaches every one.        *)
LEMMA Walks ==
    /\ \A i \in WalkSteps : Walked(i) \in Dir
    /\ \A d \in Dir : \E i \in WalkSteps : Walked(i) = d
    /\ \A p \in Path : DirOf[p] \in Dir
    /\ \A i \in DOMAIN Dirs : Dirs[i] \in Dir
    /\ \A d \in Dir : \E i \in DOMAIN Dirs : Dirs[i] = d
<1>1. Dir = {Dirs[i] : i \in DOMAIN Dirs}
    BY DEF Dir, Range
<1>2. \A i \in WalkSteps : Len(Dirs) + 1 - (i - Len(Records)) \in DOMAIN Dirs
    BY Orders
<1>3. ASSUME NEW k \in DOMAIN Dirs
      PROVE  \E i \in WalkSteps : Walked(i) = Dirs[k]
  <2> DEFINE i == Len(Dirs) + 1 - k + Len(Records)
  <2>1. i \in WalkSteps /\ Len(Dirs) + 1 - (i - Len(Records)) = k
    BY Orders, <1>3
  <2> QED
    BY <2>1 DEF Walked
<1>4. \A p \in Path : DirOf[p] \in Dir
    BY DirAssumption DEF Dir
<1> QED
    BY <1>1, <1>2, <1>3, <1>4 DEF Walked

-----------------------------------------------------------------------------
LEMMA InitTypeInv == Init => TypeInv
<1> SUFFICES ASSUME Init PROVE TypeInv
    OBVIOUS
<1>1. MaxRuns \in Nat /\ MaxEdits \in Nat
    BY RunAssumption
<1>2. 0 \in 0..MaxRuns /\ 0 \in 0..MaxEdits /\ 1 \in 0..VerifyEnd /\ 0 \in 0..0
    BY <1>1, Orders
<1>3. disk \in [Path -> Content] /\ used \in [Path -> Byte \cup {"unread"}]
    BY DEF Init, Content, Byte, Unread
<1>4. touched \in [Path -> 0..MaxEdits] /\ \A p \in Path : touched[p] =< edits
    BY <1>2 DEF Init, Untouched
<1>5. TypeOK
    BY <1>2, <1>3, <1>4 DEF Init, TypeOK
<1> QED
    BY <1>4, <1>5 DEF Init, TypeInv, Counting

(* A step of the process, of somebody else, or the end.                    *)
Move == Publish \/ Consume \/ Reclaim

LEMMA PublishTypeInv ==
    ASSUME TypeInv, Publish, UNCHANGED <<alive, edits>>
    PROVE  TypeInv'
<1> USE DEF TypeInv
<1>0. MaxRuns \in Nat /\ MaxEdits \in Nat
    BY RunAssumption
<1>1. UNCHANGED <<native, touched>>
    BY DEF Publish, MakeParent, MakeStaging, CreateFile, FillFile, SealDirectory, RenameToDigest,
           PublishFails, Reread
<1>2. disk' \in [Path -> Content] /\ place' \in {"none", "made", "staging", "final"} /\ sealed' \subseteq Dir
      /\ parent' \in {"temp", "kept"}
  <2>1. CASE CreateFile \/ FillFile
    BY <2>1, Orders DEF CreateFile, FillFile, TypeOK, Content, Counting
  <2>2. CASE SealDirectory
    BY <2>2, Walks DEF SealDirectory, TypeOK, Counting
  <2>3. CASE PublishFails
    BY <2>3 DEF PublishFails, Remains, TypeOK, Content
  <2>4. CASE MakeParent \/ MakeStaging \/ RenameToDigest \/ Reread
    BY <2>4 DEF MakeParent, MakeStaging, RenameToDigest, Reread, tree, TypeOK
  <2> QED
    BY <2>1, <2>2, <2>3, <2>4 DEF Publish
<1>3. /\ pc' \in {"start", "stage", "create", "fill", "seal", "rename", "reread", "verify", "refused"}
      /\ at' \in 0..VerifyEnd /\ seen' \subseteq Path /\ after' \in {"resolve", "use", "launch", "report"}
      /\ why' \in {"none", "os_error", "destination_invalid", "publication_failed", "unstable"}
      /\ pc' \in {"create", "fill", "reread"} => at' \in DOMAIN Written
      /\ pc' = "seal" => at' \in DOMAIN Dirs
      /\ pc' = "verify" => after' = "resolve"
  <2>1. CASE MakeParent
    BY <2>1, Orders DEF MakeParent, Goto, Refuse, TypeOK
  <2>2. CASE MakeStaging \/ RenameToDigest
    BY <2>2, Orders DEF MakeStaging, RenameToDigest, Goto, TypeOK
  <2>3. CASE CreateFile
    BY <2>3, Orders DEF CreateFile, Goto, TypeOK, Counting
  <2>4. CASE FillFile
    <3>1. at \in DOMAIN Written /\ at' \in 0..VerifyEnd /\ UNCHANGED <<seen, after, why>>
        BY <2>4, Orders DEF FillFile, Goto, Counting
    <3>2. CASE at < Len(Written)
        <4>1. pc' = "create" /\ at' = at + 1
            BY <2>4, <3>2 DEF FillFile, Goto
        <4>2. at + 1 \in 1..(Len(Order) + 1)
            BY <3>1, <3>2, Orders
        <4>3. at' \in DOMAIN Written
            BY <4>1, <4>2, Orders
        <4> QED
            BY <3>1, <4>1, <4>3 DEF TypeOK
    <3>3. CASE ~(at < Len(Written))
        <4>1. pc' = "seal" /\ at' = 1
            BY <2>4, <3>3 DEF FillFile, Goto
        <4> QED
            BY <3>1, <4>1, Orders DEF TypeOK
    <3> QED
        BY <3>2, <3>3
  <2>5. CASE SealDirectory
    BY SMTT(30), <2>5, Orders DEF SealDirectory, Goto, TypeOK, Counting
  <2>6. CASE PublishFails
    BY <2>6, Orders DEF PublishFails, Refuse, TypeOK
  <2>7. CASE Reread
    <3>1. CASE Refuse("refused", "publication_failed")
        BY <3>1 DEF Refuse, TypeOK
    <3>2. CASE Verify("resolve")
        BY <3>2, Orders DEF Verify, TypeOK
    <3>3. CASE at < Len(Written) /\ Goto("reread", at + 1)
        BY SMTT(30), <2>7, <3>3, Orders DEF Reread, Goto, TypeOK, Counting
    <3> QED
        BY <2>7, <3>1, <3>2, <3>3 DEF Reread
  <2> QED
    BY <2>1, <2>2, <2>3, <2>4, <2>5, <2>6, <2>7 DEF Publish
<1>4. TypeOK'
    BY <1>1, <1>2, <1>3 DEF TypeOK, native
<1>5. Counting'
    BY <1>1, <1>3 DEF Counting, native
<1> QED
    BY <1>4, <1>5

LEMMA ConsumeTypeInv ==
    ASSUME TypeInv, Consume, UNCHANGED <<alive, edits>>
    PROVE  TypeInv'
<1> USE DEF TypeInv
<1>0. MaxRuns \in Nat /\ MaxEdits \in Nat
    BY RunAssumption
<1>1. UNCHANGED tree
    BY DEF Consume, VerifyRoot, VerifyRecord, VerifyDirectory, VerifyTree, UseBinding, BeginRun,
           EndRun, NativeReads
<1>2. CASE VerifyRoot \/ VerifyRecord \/ VerifyDirectory
  <2>1. UNCHANGED <<native, touched, after>> /\ pc = "verify"
    BY <1>2 DEF VerifyRoot, VerifyRecord, VerifyDirectory, Goto, Unstable, Refuse
  <2>2. seen' \subseteq Path
    BY <1>2 DEF VerifyRoot, VerifyRecord, VerifyDirectory, Goto, Unstable, Refuse, TypeOK
  <2>3. /\ pc' \in {"verify", "held", "refused"} /\ at' \in 0..VerifyEnd
        /\ why' \in {"none", "os_error", "destination_invalid", "publication_failed", "unstable"}
    <3>1. CASE VerifyRoot
        BY <3>1, Orders DEF VerifyRoot, Goto, Unstable, Refuse, TypeOK
    <3>2. CASE VerifyRecord
        BY SMTT(30), <3>2, Orders DEF VerifyRecord, Goto, Unstable, Refuse, TypeOK
    <3>3. CASE VerifyDirectory
        BY SMTT(30), <3>3, Orders DEF VerifyDirectory, Unstable, Refuse, TypeOK
    <3> QED
        BY <1>2, <3>1, <3>2, <3>3
  <2>4. TypeOK'
    BY <1>1, <2>1, <2>2, <2>3 DEF TypeOK, tree, native
  <2> QED
    BY <2>1, <2>3, <2>4 DEF Counting, native
<1>3. CASE VerifyTree
  <2>1. pc = "verify" /\ UNCHANGED <<touched, seen, after>>
    BY <1>3 DEF VerifyTree, Unstable, Refuse, Goto
  <2>2. used' \in [Path -> Byte \cup {"unread"}]
    BY <1>3 DEF VerifyTree, native, TypeOK, Unread
  <2>3. /\ pc' \in {"held", "refused", "native"} /\ at' \in 0..VerifyEnd
        /\ why' \in {"none", "os_error", "destination_invalid", "publication_failed", "unstable"}
    BY SMTT(30), <1>3, Orders DEF VerifyTree, Goto, Unstable, Refuse, TypeOK
  <2>4. runs' \in 0..MaxRuns /\ reports' \in 0..runs' /\ (pc' = "native" => reports' < runs')
    <3>1. CASE UNCHANGED native /\ pc' # "native"
        BY <3>1 DEF native, TypeOK
    <3>2. CASE after = "launch" /\ runs' = runs + 1 /\ UNCHANGED reports
        BY <3>2, <2>1, <1>0 DEF TypeOK, Counting
    <3>3. CASE after = "report" /\ pc' = "held" /\ reports' = reports + 1 /\ UNCHANGED runs
        BY <3>3, <2>1, <1>0 DEF TypeOK, Counting
    <3> QED
        BY <1>3, <3>1, <3>2, <3>3 DEF VerifyTree, Unstable, Refuse, Goto
  <2>5. TypeOK'
    BY <1>1, <2>1, <2>2, <2>3, <2>4 DEF TypeOK, tree
  <2> QED
    BY <2>1, <2>3, <2>4, <2>5 DEF Counting
<1>4. CASE UseBinding \/ BeginRun \/ EndRun
  <2>1. UNCHANGED native /\ pc' = "verify" /\ at' = 0 /\ seen' = {} /\ UNCHANGED why
    BY <1>4 DEF UseBinding, BeginRun, EndRun, Verify
  <2>2. after' \in {"use", "launch", "report"} /\ (after' = "launch" => runs < MaxRuns)
        /\ (after' = "report" => pc = "native")
    BY <1>4 DEF UseBinding, BeginRun, EndRun, Verify
  <2>3. touched' \in [Path -> 0..MaxEdits] /\ \A p \in Path : touched'[p] =< edits
    BY <1>0, <1>4 DEF UseBinding, BeginRun, EndRun, Untouched, TypeOK, Counting
  <2>4. TypeOK'
    BY SMTT(30), <1>1, <2>1, <2>2, <2>3, Orders DEF TypeOK, tree, native
  <2> QED
    BY <2>1, <2>2, <2>3, <2>4 DEF Counting, native
<1>5. ASSUME NEW p \in Path, NativeReads(p)
      PROVE  TypeInv'
  <2>1. UNCHANGED <<call, runs, reports, touched>>
    BY <1>5 DEF NativeReads
  <2>2. Bytes(p) \in Byte
    BY DEF Bytes, Byte, Content, TypeOK
  <2>3. used' \in [Path -> Byte \cup {"unread"}]
    BY <1>5, <2>2 DEF NativeReads, TypeOK
  <2>4. TypeOK'
    BY <1>1, <2>1, <2>3 DEF TypeOK, tree, call
  <2> QED
    BY <2>1, <2>4 DEF Counting, call
<1> QED
    BY <1>2, <1>3, <1>4, <1>5 DEF Consume

LEMMA ReclaimTypeInv ==
    ASSUME TypeInv, Reclaim, UNCHANGED <<alive, edits>>
    PROVE  TypeInv'
<1> USE DEF TypeInv
<1>1. UNCHANGED <<native, touched, parent, seen, after, why>>
    BY DEF Reclaim, Exit, Relax, RemoveParent, RemoveFile, Goto, tree, call
<1>2. disk' \in [Path -> Content] /\ sealed' \subseteq Dir /\ place' \in {"none", "made", "staging", "final"}
    BY DEF Reclaim, Exit, Relax, RemoveParent, RemoveFile, tree, TypeOK, Content
<1>3. pc' \in {"relax", "remove", "exited"} /\ at' \in 0..VerifyEnd
    BY Orders DEF Reclaim, Exit, Relax, RemoveParent, RemoveFile, Goto, call, TypeOK
<1>4. TypeOK'
    BY <1>1, <1>2, <1>3 DEF TypeOK, native
<1> QED
    BY <1>1, <1>3, <1>4 DEF Counting, native

(* What somebody else's change does to the variables it reaches.           *)
LEMMA TamperTypeInv ==
    ASSUME TypeInv, NEW S \in Disturbed, NEW c \in {"absent", "captured", "loose", "changed"}, Tamper(S, c)
    PROVE  TypeInv'
<1> USE DEF TypeInv
<1>0. MaxEdits \in Nat /\ edits \in 0..MaxEdits /\ edits < MaxEdits
    BY RunAssumption DEF Tamper, TypeOK
<1>1. disk' \in [Path -> Content]
    BY DEF Tamper, TypeOK, Content
<1>2. \A p \in Path : touched[p] \in Nat /\ touched[p] =< edits
    BY <1>0 DEF TypeOK, Counting
<1>3. touched' \in [Path -> 0..MaxEdits] /\ \A p \in Path : touched'[p] =< edits'
    BY <1>0, <1>2 DEF Tamper
<1>4. edits' \in 0..MaxEdits
    BY <1>0 DEF Tamper
<1>5. UNCHANGED <<parent, place, sealed, call, native, alive>>
    BY DEF Tamper
<1>6. TypeOK'
    BY <1>1, <1>3, <1>4, <1>5 DEF TypeOK, call, native
<1> QED
    BY <1>3, <1>5, <1>6 DEF Counting, call, native

LEMMA ChmodTypeInv ==
    ASSUME TypeInv, NEW d \in Dir, Chmod(d)
    PROVE  TypeInv'
<1> USE DEF TypeInv
<1>0. MaxEdits \in Nat /\ edits \in 0..MaxEdits /\ edits < MaxEdits
    BY RunAssumption DEF Chmod, TypeOK
<1>1. sealed' \subseteq Dir /\ edits' = edits + 1 /\ edits' \in 0..MaxEdits
    BY <1>0 DEF Chmod, TypeOK
<1>2. UNCHANGED <<parent, place, disk, call, native, alive, touched>>
    BY DEF Chmod
<1>3. \A p \in Path : touched[p] \in Nat /\ touched[p] =< edits
    BY <1>0 DEF TypeOK, Counting
<1>4. \A p \in Path : touched'[p] =< edits'
    BY <1>0, <1>1, <1>2, <1>3
<1>5. TypeOK'
    BY <1>1, <1>2 DEF TypeOK, call, native
<1> QED
    BY <1>2, <1>4, <1>5 DEF Counting, call, native

LEMMA NextTypeInv == TypeInv /\ [Next]_vars => TypeInv'
<1> SUFFICES ASSUME TypeInv, [Next]_vars PROVE TypeInv'
    OBVIOUS
<1>1. CASE Publish /\ UNCHANGED <<alive, edits>>
    BY <1>1, PublishTypeInv
<1>2. CASE Consume /\ UNCHANGED <<alive, edits>>
    BY <1>2, ConsumeTypeInv
<1>3. CASE Reclaim /\ UNCHANGED <<alive, edits>>
    BY <1>3, ReclaimTypeInv
<1>4. CASE \E S \in Disturbed : \E c \in {"absent", "captured", "loose", "changed"} : Tamper(S, c)
    BY <1>4, TamperTypeInv
<1>5. CASE \E d \in Dir : Chmod(d)
    BY <1>5, ChmodTypeInv
<1>6. CASE Kill \/ Finished \/ UNCHANGED vars
  <2>1. UNCHANGED <<tree, call, native, edits, touched>> /\ alive' \in BOOLEAN
    BY <1>6 DEF Kill, Finished, vars, other, TypeInv, TypeOK
  <2>2. TypeOK'
    BY <2>1 DEF tree, call, native, TypeInv, TypeOK
  <2> QED
    BY <2>1, <2>2 DEF tree, call, native, TypeInv, Counting
<1> QED
    BY <1>1, <1>2, <1>3, <1>4, <1>5, <1>6 DEF Next

(* The variables have their types in every reachable state.                *)
THEOREM TypeCorrect == Spec => []TypeOK
<1>1. Spec => []TypeInv
    BY InitTypeInv, NextTypeInv, PTL DEF Spec
<1>2. TypeInv => TypeOK
    BY DEF TypeInv
<1> QED
    BY <1>1, <1>2, PTL

-----------------------------------------------------------------------------
(***************************************************************************)
(* How far the publication is while nobody else has changed the tree.      *)
(***************************************************************************)
Empty == (\A p \in Path : disk[p] = "absent") /\ sealed = {}
Whole == (\A p \in Path : disk[p] = Expected(p)) /\ sealed = Dir

(* The files before index i are written, the one at i is as here says.     *)
FilledTo(i, here) ==
    /\ \A j \in DOMAIN Written :
           disk[Written[j]] = IF j < i THEN "captured" ELSE IF j = i THEN here ELSE "absent"
    /\ \A p \in Path \ File : disk[p] = "absent"
    /\ sealed = {}

Publishing ==
    edits = 0 =>
        /\ pc \in {"start", "stage"} => Empty
        /\ pc = "create" => FilledTo(at, "absent")
        /\ pc = "fill" => FilledTo(at, "partial")
        /\ pc = "seal" => /\ \A p \in Path : disk[p] = Expected(p)
                          /\ sealed = {Dirs[j] : j \in 1..(at - 1)}
        /\ pc \in {"rename", "reread", "verify", "held", "native"} => Whole
        /\ place = "final" /\ pc \in {"refused", "relax", "exited"} => Whole

Placed ==
    /\ pc \in {"start", "stage"} => place \in {"none", "made"}
    /\ pc \in {"create", "fill", "seal", "rename"} => place = "staging"
    /\ pc = "remove" => sealed = {}

PublishInv == TypeInv /\ Placed /\ Publishing

LEMMA InitPublishInv == Init => PublishInv
<1>1. Init => Placed /\ Publishing
    BY DEF Init, Placed, Publishing, Empty
<1> QED
    BY <1>1, InitTypeInv DEF PublishInv

LEMMA PublishPlaced ==
    ASSUME PublishInv, Publish
    PROVE  Placed'
<1> QED
    BY DEF PublishInv, Placed, Publish, MakeParent, MakeStaging, CreateFile, FillFile, SealDirectory,
           RenameToDigest, PublishFails, Reread, Goto, Refuse, Verify, tree

(* The steps of publish carry the publication forward.                     *)
LEMMA PublishPublishing ==
    ASSUME PublishInv, Publish, UNCHANGED edits, edits = 0
    PROVE  Publishing'
<1> USE DEF PublishInv
<1>1. CASE MakeParent
  <2>1. Empty /\ UNCHANGED <<disk, sealed>> /\ pc' \in {"stage", "refused"} /\ place' # "final"
    BY <1>1 DEF MakeParent, Goto, Refuse, Publishing, Placed
  <2>2. Empty'
    BY <2>1 DEF Empty
  <2> QED
    BY <2>1, <2>2 DEF Publishing
<1>2. CASE MakeStaging
  <2>1. Empty /\ UNCHANGED <<disk, sealed>> /\ pc' = "create" /\ at' = 1 /\ place' = "staging"
    BY <1>2 DEF MakeStaging, Goto, Publishing
  <2>2. FilledTo(1, "absent")
    <3>1. \A j \in DOMAIN Written : ~(j < 1) /\ Written[j] \in Path
        BY Orders, Files
    <3> QED
        BY <2>1, <3>1 DEF Empty, FilledTo
  <2>3. FilledTo(at, "absent")'
    BY <2>1, <2>2 DEF FilledTo
  <2> QED
    BY <2>1, <2>3 DEF Publishing
<1>3. CASE CreateFile
  <2>1. FilledTo(at, "absent") /\ at \in DOMAIN Written /\ UNCHANGED <<at, sealed>> /\ pc' = "fill" /\ place' = "staging"
    BY <1>3 DEF CreateFile, Goto, Publishing, TypeInv, Counting, Placed
  <2>2. disk' = [disk EXCEPT ![Written[at]] = "partial"] /\ disk \in [Path -> Content]
    BY <1>3 DEF CreateFile, TypeInv, TypeOK
  <2>3. \A j \in DOMAIN Written : disk'[Written[j]] = IF j = at THEN "partial" ELSE disk[Written[j]]
    BY <2>1, <2>2, Files
  <2>4. \A p \in Path \ File : disk'[p] = disk[p]
    BY <2>1, <2>2, Files
  <2>5. FilledTo(at, "partial")'
    <3>1. \A j \in DOMAIN Written :
              disk'[Written[j]] = IF j < at THEN "captured" ELSE IF j = at THEN "partial" ELSE "absent"
        BY <2>1, <2>3, Orders DEF FilledTo
    <3> QED
        BY <2>1, <2>4, <3>1 DEF FilledTo
  <2> QED
    BY <2>1, <2>5 DEF Publishing
<1>4. CASE FillFile
  <2>1. FilledTo(at, "partial") /\ at \in DOMAIN Written /\ UNCHANGED sealed /\ place' = "staging"
    BY <1>4 DEF FillFile, Publishing, TypeInv, Counting, Placed
  <2>2. disk[Written[at]] = "partial" /\ disk' = [disk EXCEPT ![Written[at]] = "captured"] /\ disk \in [Path -> Content]
    <3>1. ~(at < at)
        BY <2>1, Orders
    <3>2. disk[Written[at]] = "partial"
        BY <2>1, <3>1 DEF FilledTo
    <3> QED
        BY <1>4, <3>2 DEF FillFile, TypeInv, TypeOK
  <2>3. \A j \in DOMAIN Written : disk'[Written[j]] = IF j = at THEN "captured" ELSE disk[Written[j]]
    BY <2>1, <2>2, Files
  <2>4. \A p \in Path \ File : disk'[p] = disk[p]
    BY <2>1, <2>2, Files
  <2>5. CASE at < Len(Written)
    <3>1. pc' = "create" /\ at' = at + 1
        BY <1>4, <2>5 DEF FillFile, Goto
    <3>2. \A j \in DOMAIN Written : disk'[Written[j]] = IF j < at + 1 THEN "captured" ELSE "absent"
        BY <2>1, <2>3, Orders DEF FilledTo
    <3>3. FilledTo(at, "absent")'
        BY <2>1, <2>4, <3>1, <3>2 DEF FilledTo
    <3> QED
        BY <2>1, <3>1, <3>3 DEF Publishing
  <2>6. CASE ~(at < Len(Written))
    <3>1. pc' = "seal" /\ at' = 1
        BY <1>4, <2>6 DEF FillFile, Goto
    <3>2. \A j \in DOMAIN Written : disk'[Written[j]] = "captured"
        BY <2>1, <2>3, <2>6, Orders DEF FilledTo
    <3>3. \A p \in Path : disk'[p] = Expected(p)
        BY <2>1, <2>4, <3>2, Files DEF FilledTo, Expected
    <3>4. sealed' = {} /\ {Dirs[j] : j \in 1..(at' - 1)} = {}
        BY <2>1, <3>1 DEF FilledTo
    <3> QED
        BY <2>1, <3>1, <3>3, <3>4 DEF Publishing, Expected
  <2> QED
    BY <2>5, <2>6
<1>5. CASE SealDirectory
  <2>1. /\ at \in DOMAIN Dirs /\ UNCHANGED disk /\ sealed' = sealed \cup {Dirs[at]} /\ place' = "staging"
        /\ \A p \in Path : disk[p] = Expected(p) /\ sealed = {Dirs[j] : j \in 1..(at - 1)}
    BY <1>5 DEF SealDirectory, Publishing, TypeInv, Counting, Placed
  <2>2. sealed' = {Dirs[j] : j \in 1..at}
    BY <2>1, Orders
  <2>3. \A p \in Path : disk'[p] = Expected(p)'
    BY <2>1 DEF Expected
  <2>4. CASE at < Len(Dirs)
    <3>1. pc' = "seal" /\ at' = at + 1 /\ at' - 1 = at
        BY <1>5, <2>1, <2>4, Orders DEF SealDirectory, Goto
    <3> QED
        BY <2>1, <2>2, <2>3, <3>1 DEF Publishing
  <2>5. CASE ~(at < Len(Dirs))
    <3>1. pc' = "rename" /\ at = Len(Dirs)
        BY <1>5, <2>1, <2>5, Orders DEF SealDirectory, Goto
    <3>2. sealed' = Dir
        BY <2>2, <3>1, Orders DEF Dir, Range
    <3> QED
        BY <2>1, <2>3, <3>1, <3>2 DEF Publishing, Whole
  <2> QED
    BY <2>4, <2>5
<1>6. CASE RenameToDigest
    BY <1>6 DEF RenameToDigest, Goto, Publishing, Whole, Expected
<1>7. CASE PublishFails
  <2>1. pc' = "refused" /\ place' # "final"
    BY <1>7 DEF PublishFails, Refuse
  <2> QED
    BY <2>1 DEF Publishing
<1>8. CASE Reread
  <2>1. Whole /\ UNCHANGED <<disk, sealed>> /\ pc' \in {"refused", "reread", "verify"}
    BY <1>8 DEF Reread, Refuse, Goto, Verify, tree, Publishing
  <2> QED
    BY <2>1 DEF Publishing, Whole, Expected
<1> QED
    BY <1>1, <1>2, <1>3, <1>4, <1>5, <1>6, <1>7, <1>8 DEF Publish

LEMMA NextPublishInv == PublishInv /\ [Next]_vars => PublishInv'
<1> SUFFICES ASSUME PublishInv, [Next]_vars PROVE PublishInv'
    OBVIOUS
<1> USE DEF PublishInv
<1>0. TypeInv'
    BY NextTypeInv
<1>1. CASE Publish /\ UNCHANGED <<alive, edits>>
  <2>1. Publishing'
    BY <1>1, PublishPublishing DEF Publishing
  <2> QED
    BY <1>0, <1>1, <2>1, PublishPlaced
<1>2. CASE Consume /\ UNCHANGED <<alive, edits>>
  <2>1. /\ UNCHANGED tree /\ pc \in {"verify", "held", "native"}
        /\ pc' \in {"verify", "held", "native", "refused"}
    BY <1>2 DEF Consume, VerifyRoot, VerifyRecord, VerifyDirectory, VerifyTree, UseBinding, BeginRun,
                EndRun, NativeReads, Verify, Goto, Unstable, Refuse, call
  <2>2. edits' = edits /\ disk' = disk /\ sealed' = sealed
    BY <1>2, <2>1 DEF tree
  <2>3. Placed'
    BY <2>1 DEF Placed
  <2>4. Publishing'
    BY <2>1, <2>2 DEF Publishing, Whole, Expected
  <2> QED
    BY <1>0, <2>3, <2>4
<1>3. CASE Reclaim /\ UNCHANGED <<alive, edits>>
  <2>1. pc' \in {"relax", "remove", "exited"}
    BY <1>3 DEF Reclaim, Exit, Relax, RemoveParent, RemoveFile, Goto, call
  <2>2. Placed'
    BY <1>3, <2>1 DEF Placed, Reclaim, Exit, Relax, RemoveParent, RemoveFile, Goto, call
  <2>3. ASSUME Exit PROVE Publishing'
    <3>1. pc \in {"held", "refused"} /\ UNCHANGED <<place, disk, sealed, edits>>
        BY <1>3, <2>3 DEF Exit, tree
    <3>2. edits = 0 /\ place = "final" => Whole
        BY <3>1 DEF Publishing
    <3>3. edits' = 0 /\ place' = "final" => Whole'
        BY <3>1, <3>2 DEF Whole, Expected
    <3> QED
        BY <2>1, <3>3 DEF Publishing
  <2>4. ASSUME Relax \/ \E p \in Path : RemoveFile(p) PROVE Publishing'
    <3>1. pc' = "remove"
        BY <2>4 DEF Relax, RemoveFile, Goto, call
    <3> QED
        BY <3>1 DEF Publishing
  <2>5. ASSUME RemoveParent PROVE Publishing'
    <3>1. pc' = "exited" /\ place' = "none"
        BY <2>5 DEF RemoveParent, Goto, Placed
    <3> QED
        BY <3>1 DEF Publishing
  <2> QED
    BY <1>0, <1>3, <2>2, <2>3, <2>4, <2>5 DEF Reclaim
<1>4. CASE \E S \in Disturbed : \E c \in {"absent", "captured", "loose", "changed"} : Tamper(S, c)
  <2>1. edits' # 0 /\ UNCHANGED <<pc, place, sealed>>
    BY <1>4 DEF Tamper, call, TypeInv, TypeOK
  <2> QED
    BY <1>0, <2>1 DEF Placed, Publishing
<1>5. CASE \E d \in Dir : Chmod(d)
  <2>1. edits' # 0 /\ UNCHANGED <<pc, place>> /\ pc # "remove"
    BY <1>5 DEF Chmod, Meddling, call, TypeInv, TypeOK
  <2> QED
    BY <1>0, <2>1 DEF Placed, Publishing
<1>6. CASE Kill \/ Finished \/ UNCHANGED vars
  <2>1. UNCHANGED <<place, disk, sealed, pc, at, edits>>
    BY <1>6 DEF Kill, Finished, vars, other, tree, call
  <2> QED
    BY <1>0, <2>1 DEF Placed, Publishing, Whole, Empty, FilledTo, Expected
<1> QED
    BY <1>1, <1>2, <1>3, <1>4, <1>5, <1>6 DEF Next

(***************************************************************************)
(* Until somebody else interferes, the directory with the digest's name is *)
(* whole and sealed, also after a failure or the end of the process.       *)
(***************************************************************************)
THEOREM FinalWhole == Spec => []FinalIsWhole
<1>1. Spec => []PublishInv
    BY InitPublishInv, NextPublishInv, PTL DEF Spec
<1>2. PublishInv => FinalIsWhole
    BY DEF PublishInv, Placed, Publishing, Whole, FinalIsWhole, TypeInv, TypeOK
<1> QED
    BY <1>1, <1>2, PTL

-----------------------------------------------------------------------------
(***************************************************************************)
(* Without a tree there is no file; the cleanup is that of a directory of  *)
(* the process's own, and leaves no tree.                                  *)
(***************************************************************************)
Room ==
    /\ place \in {"none", "made"} => Empty
    /\ pc \in {"relax", "remove"} => parent = "temp"
    /\ pc = "remove" => sealed = {}
    /\ pc = "exited" /\ parent = "temp" => place = "none"

LEMMA NextRoom == Room /\ PublishInv /\ [Next]_vars => Room'
<1> SUFFICES ASSUME Room, PublishInv, [Next]_vars PROVE Room'
    OBVIOUS
<1>1. CASE Publish /\ UNCHANGED <<alive, edits>>
  <2>1. pc' \notin {"relax", "remove", "exited"}
    BY <1>1 DEF Publish, MakeParent, MakeStaging, CreateFile, FillFile, SealDirectory, RenameToDigest,
                PublishFails, Reread, Goto, Refuse, Verify
  <2>2. ASSUME place' \in {"none", "made"} PROVE Empty'
    <3>1. CASE MakeParent
        BY <3>1 DEF MakeParent, Room, Empty, PublishInv, Placed
    <3>2. CASE PublishFails
        BY <2>2, <3>2 DEF PublishFails, Remains, Empty
    <3>3. CASE CreateFile \/ FillFile \/ SealDirectory \/ Reread
        BY <2>2, <3>3 DEF CreateFile, FillFile, SealDirectory, Reread, tree, Room, Empty, PublishInv, Placed
    <3>4. CASE MakeStaging \/ RenameToDigest
        BY <2>2, <3>4 DEF MakeStaging, RenameToDigest
    <3> QED
        BY <1>1, <3>1, <3>2, <3>3, <3>4 DEF Publish
  <2> QED
    BY <2>1, <2>2 DEF Room
<1>2. CASE Consume /\ UNCHANGED <<alive, edits>>
  <2>1. UNCHANGED tree /\ pc' \notin {"relax", "remove", "exited"}
    BY <1>2 DEF Consume, VerifyRoot, VerifyRecord, VerifyDirectory, VerifyTree, UseBinding, BeginRun,
                EndRun, NativeReads, Verify, Goto, Unstable, Refuse, call
  <2> QED
    BY <2>1 DEF Room, Empty, tree
<1>3. CASE Reclaim /\ UNCHANGED <<alive, edits>>
  <2>1. CASE Exit
    BY <2>1 DEF Exit, Goto, tree, Room, Empty
  <2>2. CASE Relax
    BY <2>2 DEF Relax, Goto, Room, Empty
  <2>3. ASSUME NEW p \in Path, RemoveFile(p) PROVE Room'
    BY <2>3 DEF RemoveFile, call, Room, Empty, PublishInv, TypeInv, TypeOK
  <2>4. CASE RemoveParent
    BY <2>4 DEF RemoveParent, Goto, Room, Empty
  <2> QED
    BY <1>3, <2>1, <2>2, <2>3, <2>4 DEF Reclaim
<1>4. CASE \E S \in Disturbed : \E c \in {"absent", "captured", "loose", "changed"} : Tamper(S, c)
    BY <1>4 DEF Tamper, Meddling, call, Room
<1>5. CASE \E d \in Dir : Chmod(d)
    BY <1>5 DEF Chmod, Meddling, call, Room
<1>6. CASE Kill \/ Finished \/ UNCHANGED vars
    BY <1>6 DEF Kill, Finished, vars, tree, call, Room, Empty
<1> QED
    BY <1>1, <1>2, <1>3, <1>4, <1>5, <1>6 DEF Next

(* A process that ends in its own time leaves no directory of its own.     *)
THEOREM LeavesNothing == Spec => []Reclaimed
<1>1. Init => Room /\ PublishInv
    BY InitPublishInv DEF Init, Room, Empty
<1>2. Room /\ PublishInv /\ [Next]_vars => (Room /\ PublishInv)'
    BY NextRoom, NextPublishInv
<1>3. Room => Reclaimed
    BY DEF Room, Reclaimed, Empty
<1> QED
    BY <1>1, <1>2, <1>3, PTL DEF Spec

-----------------------------------------------------------------------------
(***************************************************************************)
(* A path that nobody touched since the run's first verification passed it *)
(* is as it was captured.  What the run found otherwise is, after a single *)
(* change, still otherwise, and the second verification finds it too.      *)
(***************************************************************************)
Fine(p) == Bytes(p) = Expected(p)

Checked(p) ==
    IF p \in File
    THEN \E i \in DOMAIN Records : i < at /\ Records[i] = p
    ELSE p \notin seen /\ \E i \in WalkSteps : i < at /\ Walked(i) = DirOf[p]

Verifying(purpose) == pc = "verify" /\ after = purpose
Running == pc = "native" \/ Verifying("report")

Watching ==
    \A p \in Path :
        /\ Verifying("launch") /\ Checked(p) /\ touched[p] = 0 => Fine(p)
        /\ Running /\ touched[p] = 0 => Fine(p)
        /\ Running /\ ~Genuine(p) /\ Fine(p) => touched[p] >= 2
        /\ Verifying("report") /\ Checked(p) => Genuine(p) \/ touched[p] >= 2

WatchInv == TypeInv /\ Watching

(* A complete verification that saw the files only has checked every path. *)
LEMMA AllChecked ==
    ASSUME at = VerifyEnd, seen = File, NEW p \in Path
    PROVE  Checked(p)
<1>1. CASE p \in File
  <2>1. PICK i \in DOMAIN Records : Records[i] = p
    BY <1>1, Files
  <2>2. i < at
    BY <2>1, Orders
  <2> QED
    BY <1>1, <2>1, <2>2 DEF Checked
<1>2. CASE p \notin File
  <2>1. PICK i \in WalkSteps : Walked(i) = DirOf[p]
    BY Walks
  <2>2. i < at
    BY <2>1, Orders
  <2> QED
    BY <1>2, <2>1, <2>2 DEF Checked
<1> QED
    BY <1>1, <1>2

(* A step of a verification checks a path only when the path is fine.      *)
LEMMA CheckStep ==
    ASSUME TypeInv, VerifyRoot \/ VerifyRecord \/ VerifyDirectory, pc' = "verify",
           NEW p \in Path, Checked(p)'
    PROVE  Checked(p) \/ Fine(p)
<1>1. at' = at + 1 /\ at \in Nat /\ UNCHANGED tree /\ pc = "verify"
    BY Orders DEF VerifyRoot, VerifyRecord, VerifyDirectory, Goto, Unstable, Refuse, TypeInv, TypeOK
<1>2. CASE p \in File
  <2>1. PICK i \in DOMAIN Records : i < at + 1 /\ Records[i] = p
    BY <1>1, <1>2 DEF Checked
  <2>2. CASE i < at
    BY <1>2, <2>1, <2>2 DEF Checked
  <2>3. CASE ~(i < at)
    <3>1. i = at /\ at \in DOMAIN Records /\ at # 0 /\ at \notin WalkSteps
        BY <1>1, <2>1, <2>3, Orders
    <3>2. disk[p] = "captured"
        BY <1>1, <2>1, <3>1 DEF VerifyRoot, VerifyRecord, VerifyDirectory, Unstable, Refuse
    <3> QED
        BY <1>2, <3>2 DEF Fine, Bytes, Expected
  <2> QED
    BY <2>2, <2>3
<1>3. CASE p \notin File
  <2>1. PICK i \in WalkSteps : i < at + 1 /\ Walked(i) = DirOf[p]
    BY <1>1, <1>3 DEF Checked
  <2>2. p \notin seen' /\ seen \subseteq seen'
    BY <1>3 DEF Checked, VerifyRoot, VerifyRecord, VerifyDirectory, Goto, Unstable, Refuse
  <2>3. CASE i < at
    BY <1>3, <2>1, <2>2, <2>3 DEF Checked
  <2>4. CASE ~(i < at)
    <3>1. i = at /\ at \in WalkSteps /\ at # 0 /\ at \notin DOMAIN Records
        BY <1>1, <2>1, <2>4, Orders
    <3>2. seen' = seen \cup {q \in Path : DirOf[q] = Walked(at) /\ disk[q] # "absent"}
        BY <1>1, <3>1 DEF VerifyRoot, VerifyRecord, VerifyDirectory, Unstable, Refuse
    <3>3. disk[p] = "absent"
        BY <2>1, <2>2, <3>1, <3>2
    <3> QED
        BY <1>3, <3>3 DEF Fine, Bytes, Expected
  <2> QED
    BY <2>3, <2>4
<1> QED
    BY <1>2, <1>3

LEMMA ConsumeWatching ==
    ASSUME WatchInv, Consume
    PROVE  Watching'
<1> USE DEF WatchInv
<1>0. UNCHANGED <<tree, disk>> /\ \A p \in Path : Fine(p)' = Fine(p) /\ touched[p] \in Nat
  <2>1. UNCHANGED tree
    BY DEF Consume, VerifyRoot, VerifyRecord, VerifyDirectory, VerifyTree, UseBinding, BeginRun,
           EndRun, NativeReads
  <2> QED
    BY <2>1, RunAssumption DEF tree, Fine, Bytes, Expected, TypeInv, TypeOK
<1>1. CASE VerifyRoot \/ VerifyRecord \/ VerifyDirectory
  <2>1. UNCHANGED <<touched, used, after>> /\ pc = "verify" /\ pc' \in {"verify", "held", "refused"}
    BY <1>1 DEF VerifyRoot, VerifyRecord, VerifyDirectory, Goto, Unstable, Refuse, native
  <2>2. CASE pc' # "verify"
    BY <2>1, <2>2 DEF Watching, Verifying, Running
  <2>3. CASE pc' = "verify"
    <3>1. \A p \in Path : Checked(p)' => Checked(p) \/ Fine(p)
        BY <1>1, <2>3, CheckStep
    <3>2. Verifying("launch")' = Verifying("launch") /\ Verifying("report")' = Verifying("report")
          /\ Running' = Running /\ (Running => Verifying("report"))
        BY <2>1, <2>3 DEF Verifying, Running
    <3>3. \A p \in Path : Genuine(p)' = Genuine(p)
        BY <2>1 DEF Genuine, Expected
    <3> SUFFICES ASSUME NEW p \in Path
                 PROVE  /\ Verifying("launch") /\ Checked(p)' /\ touched[p] = 0 => Fine(p)
                        /\ Running /\ touched[p] = 0 => Fine(p)
                        /\ Running /\ ~Genuine(p) /\ Fine(p) => touched[p] >= 2
                        /\ Verifying("report") /\ Checked(p)' => Genuine(p) \/ touched[p] >= 2
        BY <1>0, <2>1, <3>2, <3>3 DEF Watching
    <3>4. Verifying("report") => Running
        BY DEF Running
    <3> QED
        BY <3>1, <3>4 DEF Watching
  <2> QED
    BY <2>2, <2>3
<1>2. CASE VerifyTree
  <2>1. UNCHANGED touched /\ pc = "verify"
    BY <1>2 DEF VerifyTree
  <2>2. CASE pc' # "native"
    <3>1. pc' \in {"held", "refused"}
        BY <1>2, <2>2 DEF VerifyTree, Unstable, Refuse, Goto
    <3> QED
        BY <3>1 DEF Watching, Verifying, Running
  <2>3. CASE pc' = "native"
    <3>1. after = "launch" /\ seen = File /\ at = VerifyEnd /\ used' = Unread
        BY <1>2, <2>3 DEF VerifyTree, Unstable, Refuse, Goto
    <3>2. \A p \in Path : Checked(p)
        BY <3>1, AllChecked
    <3>3. \A p \in Path : touched[p] = 0 => Fine(p)
        BY <2>1, <3>1, <3>2 DEF Watching, Verifying
    <3>4. \A p \in Path : Genuine(p)'
        BY <3>1 DEF Genuine, Unread
    <3> QED
        BY <1>0, <2>1, <2>3, <3>3, <3>4 DEF Watching, Verifying
  <2> QED
    BY <2>2, <2>3
<1>3. CASE UseBinding
    BY <1>3 DEF UseBinding, Verify, Watching, Verifying, Running
<1>4. CASE BeginRun \/ EndRun
  <2>1. at' = 0 /\ pc' = "verify" /\ \A p \in Path : ~Checked(p)'
    <3>1. at' = 0 /\ pc' = "verify"
        BY <1>4 DEF BeginRun, EndRun, Verify
    <3>2. \A i \in DOMAIN Records \cup WalkSteps : ~(i < 0)
        BY Orders
    <3> QED
        BY <3>1, <3>2 DEF Checked
  <2>2. CASE BeginRun
    <3>1. after' = "launch"
        BY <2>2 DEF BeginRun, Verify
    <3> QED
        BY <2>1, <3>1 DEF Watching, Verifying, Running
  <2>3. CASE EndRun
    <3>1. pc = "native" /\ after' = "report" /\ UNCHANGED <<touched, used>>
        BY <2>3 DEF EndRun, Verify, native
    <3>2. \A p \in Path : Genuine(p)' = Genuine(p)
        BY <3>1 DEF Genuine, Expected
    <3> QED
        BY <1>0, <2>1, <3>1, <3>2 DEF Watching, Verifying, Running
  <2> QED
    BY <1>4, <2>2, <2>3
<1>5. ASSUME NEW q \in Path, NativeReads(q)
      PROVE  Watching'
  <2>1. pc = "native" /\ pc' = "native" /\ UNCHANGED touched
    BY <1>5 DEF NativeReads, call
  <2>2. used' = [used EXCEPT ![q] = Bytes(q)] /\ used \in [Path -> Byte \cup {"unread"}]
    BY <1>5 DEF NativeReads, TypeInv, TypeOK
  <2>3. \A p \in Path : ~Genuine(p)' => ~Genuine(p) \/ ~Fine(p)
    BY <2>2 DEF Genuine, Fine, Expected
  <2> QED
    BY <1>0, <2>1, <2>3 DEF Watching, Verifying, Running
<1> QED
    BY <1>1, <1>2, <1>3, <1>4, <1>5 DEF Consume

(* One change makes an untouched path other than it was captured.          *)
LEMMA TamperWatching ==
    ASSUME WatchInv, NEW S \in Disturbed, NEW c \in {"absent", "captured", "loose", "changed"}, Tamper(S, c)
    PROVE  Watching'
<1> USE DEF WatchInv
<1>1. UNCHANGED <<pc, at, after, seen, used>>
    BY DEF Tamper, call, native
<1>2. \A p \in Path : touched[p] \in Nat /\ touched'[p] = IF p \in S THEN touched[p] + 1 ELSE touched[p]
    BY RunAssumption DEF Tamper, TypeInv, TypeOK
<1>3. \A p \in Path \ S : Fine(p)' = Fine(p)
    BY DEF Tamper, Fine, Bytes, Expected
<1>4. \A p \in Path : Checked(p)' = Checked(p) /\ Genuine(p)' = Genuine(p)
    BY <1>1 DEF Checked, Genuine, Expected
<1>5. Running' = Running /\ Verifying("launch")' = Verifying("launch") /\ Verifying("report")' = Verifying("report")
    BY <1>1 DEF Running, Verifying
<1> SUFFICES ASSUME NEW p \in Path
             PROVE  /\ Verifying("launch") /\ Checked(p) /\ touched'[p] = 0 => Fine(p)'
                    /\ Running /\ touched'[p] = 0 => Fine(p)'
                    /\ Running /\ ~Genuine(p) /\ Fine(p)' => touched'[p] >= 2
                    /\ Verifying("report") /\ Checked(p) => Genuine(p) \/ touched'[p] >= 2
    BY <1>4, <1>5 DEF Watching
<1>6. /\ Verifying("launch") /\ Checked(p) /\ touched[p] = 0 => Fine(p)
      /\ Running /\ touched[p] = 0 => Fine(p)
      /\ Running /\ ~Genuine(p) /\ Fine(p) => touched[p] >= 2
      /\ Verifying("report") /\ Checked(p) => Genuine(p) \/ touched[p] >= 2
    BY DEF Watching
<1>7. CASE p \notin S
    BY <1>2, <1>3, <1>6, <1>7
<1>8. CASE p \in S
  <2>1. touched'[p] = touched[p] + 1 /\ touched[p] \in Nat
    BY <1>2, <1>8
  <2>2. Running /\ ~Genuine(p) => touched[p] # 0
    BY <1>6
  <2> QED
    BY <1>6, <2>1, <2>2
<1> QED
    BY <1>7, <1>8

LEMMA NextWatchInv == WatchInv /\ [Next]_vars => WatchInv'
<1> SUFFICES ASSUME WatchInv, [Next]_vars PROVE Watching'
    BY NextTypeInv DEF WatchInv
<1>1. CASE Publish /\ UNCHANGED <<alive, edits>>
  <2>1. pc' # "native" /\ (pc' = "verify" => after' = "resolve")
    BY <1>1 DEF Publish, MakeParent, MakeStaging, CreateFile, FillFile, SealDirectory, RenameToDigest,
                PublishFails, Reread, Goto, Refuse, Verify
  <2> QED
    BY <2>1 DEF Watching, Verifying, Running
<1>2. CASE Consume /\ UNCHANGED <<alive, edits>>
    BY <1>2, ConsumeWatching
<1>3. CASE Reclaim /\ UNCHANGED <<alive, edits>>
  <2>1. pc' \in {"relax", "remove", "exited"}
    BY <1>3 DEF Reclaim, Exit, Relax, RemoveParent, RemoveFile, Goto, call
  <2> QED
    BY <2>1 DEF Watching, Verifying, Running
<1>4. CASE \E S \in Disturbed : \E c \in {"absent", "captured", "loose", "changed"} : Tamper(S, c)
    BY <1>4, TamperWatching
<1>5. CASE (\E d \in Dir : Chmod(d)) \/ Kill \/ Finished \/ UNCHANGED vars
  <2>1. UNCHANGED <<disk, pc, at, seen, after, used, touched>>
    BY <1>5 DEF Chmod, Kill, Finished, vars, tree, call, native, other
  <2> QED
    BY <2>1 DEF WatchInv, Watching, Verifying, Running, Checked, Fine, Bytes, Genuine, Expected
<1> QED
    BY <1>1, <1>2, <1>3, <1>4, <1>5 DEF Next

(* The run whose result is returned was enclosed by two verifications.     *)
LEMMA ReportStep ==
    ASSUME WatchInv, [Next]_vars, reports' # reports, NEW p \in Path
    PROVE  Genuine(p) \/ touched[p] >= 2
<1>1. CASE VerifyTree
  <2>1. pc = "verify" /\ after = "report" /\ at = VerifyEnd /\ seen = File
    BY <1>1 DEF VerifyTree, native
  <2>2. Checked(p)
    BY <2>1, AllChecked
  <2> QED
    BY <2>1, <2>2 DEF WatchInv, Watching, Verifying
<1>2. CASE ~VerifyTree
  <2>1. UNCHANGED reports
    BY <1>2 DEF Next, Publish, MakeParent, MakeStaging, CreateFile, FillFile, SealDirectory,
                RenameToDigest, PublishFails, Reread, Consume, VerifyRoot, VerifyRecord, VerifyDirectory,
                UseBinding, BeginRun, EndRun, NativeReads, Reclaim, Exit, Relax, RemoveFile, RemoveParent,
                Tamper, Chmod, Kill, Finished, vars, native
  <2> QED
    BY <2>1
<1> QED
    BY <1>1, <1>2

(***************************************************************************)
(* A returned result was found in the captured bytes, unless somebody both *)
(* changed a path and put it back during the run.                          *)
(***************************************************************************)
THEOREM ReportGenuine == Spec => ReportIsOfTheCapture
<1>1. Init => WatchInv
    BY InitTypeInv DEF Init, WatchInv, Watching, Verifying, Running
<1>2. WatchInv /\ [Next]_vars =>
          [reports' # reports => \A p \in Path : Genuine(p) \/ touched[p] >= 2]_vars
    BY ReportStep
<1> QED
    BY <1>1, <1>2, NextWatchInv, PTL DEF Spec, ReportIsOfTheCapture
=============================================================================
