---------------------- MODULE ProviderInvocation_proofs ----------------------
(***************************************************************************)
(* Proofs about invoke_local_provider, for any set of processes, limits,   *)
(* block size, amount of output and number of edits; about what is said    *)
(* and checked in the exchange, for any request, manifest, deck and files; *)
(* and about the shared profile, for any call and native result.           *)
(***************************************************************************)
EXTENDS ProviderInvocation, ProviderContract, WellFoundedInduction, FiniteSetTheorems, TLAPS

BeforeLaunch == {"resolve", "prepare", "identify", "copy", "copying", "recheck", "launch"}
Closing      == {"joinIn", "joinOut", "joinErr", "closeOut", "closeErr", "verify"}
Checking     == {"after", "parent", "classify", "parse", "inputs", "files"}
Accepted     == pc = "returned" /\ outcome = "accepted"

(* Until the launch there is no process, no output and no thread at work.  *)
IdleInv ==
    /\ outcome # "none" <=> pc = "returned"
    /\ pc \in BeforeLaunch =>
        /\ world = [p \in Procs |-> "unborn"]
        /\ holds = [p \in Procs |-> {}] /\ exited = NoExit
        /\ ~misread /\ ~raised
        /\ writer = "idle" /\ reader = [s \in Outputs |-> "idle"]
        /\ produced = [s \in Outputs |-> 0] /\ total = [s \in Outputs |-> 0]
        /\ closed = [s \in Outputs |-> FALSE] /\ lost = [s \in Outputs |-> 0]
    /\ pc \in {"waiting"} \cup Closing \cup Checking =>
        \A s \in Outputs : reader[s] # "idle"

(***************************************************************************)
(* An identity recorded is never ahead of the file's, the copy is made     *)
(* between two looks at the same identity, and a provider that read        *)
(* something else than the input bound did so after an edit.               *)
(***************************************************************************)
BoundInv ==
    /\ bound <= version["input"] /\ before <= version["launch"]
    /\ misread => bound < version["input"]
    /\ pc \in {"copying", "recheck"} => snap[1] = before
    /\ pc = "recheck" => before <= snap[2] /\ snap[2] <= version["launch"]
    /\ pc \in {"launch", "waiting"} \cup Closing \cup Checking \/ Accepted =>
           snap = <<before, before>>
    /\ pc = "files" \/ Accepted => ~misread

(* Once the wait is over the group is dead, whatever may have left it.     *)
GroupInv ==
    pc \in Closing \cup Checking \cup {"returned"} =>
        \A p \in Procs : world[p] # "group"

(***************************************************************************)
(* A reader that stopped has counted something or has seen the end of a    *)
(* stream nobody can write to, so bytes lost at a close betray themselves. *)
(***************************************************************************)
ReaderInv ==
    \A s \in Outputs :
        /\ total[s] <= produced[s]
        /\ reader[s] = "counted" => total[s] > 0
        /\ reader[s] = "ended" =>
               total[s] > 0 \/ (produced[s] = total[s] /\ ~HeldOpen(s))
        /\ lost[s] > 0 => total[s] > 0

(* What the transport's checks have established at each point.             *)
CheckInv ==
    /\ pc \in Checking \/ Accepted =>
           ~raised /\ (lost["stderr"] > 0 => seen.err > 0)
    /\ pc \in {"parse", "inputs", "files"} \/ Accepted =>
           exited = "zero" /\ seen.out <= MaxResult /\ seen.err = 0
    /\ pc \in {"inputs", "files"} \/ Accepted => seen.out > 0

IInv == /\ TypeOK /\ IdleInv /\ BoundInv /\ GroupInv /\ ReaderInv /\ CheckInv

-----------------------------------------------------------------------------
(* The types: an action at a time. *)
LEMMA TypeOKStep == IInv /\ [Next]_vars => TypeOK'
<1> SUFFICES ASSUME IInv, [Next]_vars PROVE TypeOK'
    OBVIOUS
<1> USE LeaderAssumption, LimitAssumption, BlockAssumption, BoundAssumption
   DEF IInv, TypeOK, GroupTypeOK, vars, provider, group, threads, locals,
   NoExit, NoEdit, Outputs, Pipes, Files, Identity, Fail, Goto, BeforeLaunch,
   Closing, Checking, Accepted, ExitCodes, Numbers, Counts
<1>1. CASE Resolve
    BY <1>1 DEF Resolve
<1>2. CASE Prepare
    BY <1>2 DEF Prepare
<1>3. CASE Identify
    BY <1>3 DEF Identify
<1>4. CASE CopyStart
    BY <1>4 DEF CopyStart
<1>5. CASE CopyRest
    BY <1>5 DEF CopyRest
<1>6. CASE CopyRecheck
    BY <1>6 DEF CopyRecheck
<1>7. CASE Launch
    BY <1>7 DEF Launch, StartLeader
<1>8. CASE WaitReturns
    BY <1>8 DEF WaitReturns, KillGroup
<1>9. CASE WaitTimesOut
    BY <1>9 DEF WaitTimesOut, KillGroup
<1>10. CASE JoinWriter
    BY <1>10 DEF JoinWriter, JoinThread
<1>11. CASE JoinReader
    BY <1>11 DEF JoinReader, JoinThread
<1>12. CASE CloseStream("stdout", "closeOut", "closeErr")
    BY <1>12 DEF CloseStream, ReaderInv
<1>13. CASE CloseStream("stderr", "closeErr", "verify")
    BY <1>13 DEF CloseStream, ReaderInv
<1>14. CASE Verify
    <2>1. \A s \in Outputs : total[s] \in Nat
        BY DEF Counts
    <2>2. seen' \in [out : Nat, err : Nat, writeError : BOOLEAN]
        <3>1. CASE UNCHANGED seen
            BY <3>1
        <3>2. CASE seen' = [out |-> total["stdout"], err |-> total["stderr"],
                            writeError |-> writer = "error"]
            <4>1. (writer = "error") \in BOOLEAN
                OBVIOUS
            <4> HIDE DEF Outputs
            <4>2. total["stdout"] \in Nat /\ total["stderr"] \in Nat
                BY <2>1 DEF Outputs
            <4> QED
                BY <3>2, <4>1, <4>2, Zenon
        <3> QED
            BY <1>14, <3>1, <3>2 DEF Verify
    <2>3. UNCHANGED <<version, provider, threads, bound, pinned, before, snap,
                      raised, fits, closed, lost>>
        BY <1>14 DEF Verify
    <2> QED
        BY <2>2, <2>3
<1>15. CASE CheckLaunchFiles
    BY <1>15 DEF CheckLaunchFiles
<1>16. CASE CheckParent
    BY <1>16 DEF CheckParent
<1>17. CASE Classify
    BY <1>17 DEF Classify, TransportIssue
<1>18. CASE Parse
    BY <1>18 DEF Parse
<1>19. CASE CheckEvidence
    BY <1>19 DEF CheckEvidence
<1>20. CASE CheckFiles
    BY <1>20 DEF CheckFiles
<1>21. CASE WriteStdin
    BY <1>21 DEF WriteStdin, HeldOpen
<1>22. ASSUME NEW s \in Outputs, ReadChunk(s) PROVE TypeOK'
    BY <1>22 DEF ReadChunk, HeldOpen
<1>23. ASSUME NEW s \in Outputs, CheckLimit(s) PROVE TypeOK'
    BY <1>23 DEF CheckLimit, KillGroup
<1>24. ASSUME NEW s \in Outputs, EndOfStream(s) PROVE TypeOK'
    BY <1>24 DEF EndOfStream, HeldOpen
<1>25. CASE Provider
    <2>1. CASE GroupStep(Pipes) /\ UNCHANGED <<consumed, misread, produced>>
        <3>1. GroupTypeOK(Pipes)'
            BY <2>1 DEF GroupStep, Fork, LeaveGroup, Exit, ClosePipe, Live
        <3>2. UNCHANGED <<version, threads, locals, fits, pc, closed, lost,
                          consumed, misread, produced>>
            BY <1>25, <2>1 DEF Provider
        <3> QED
            BY <3>1, <3>2
    <2>2. ASSUME NEW p \in Procs, ReadRequest(p) PROVE TypeOK'
        BY <1>25, <2>2 DEF Provider, ReadRequest
    <2>3. ASSUME NEW p \in Procs, NEW s \in Outputs, WriteByte(p, s) PROVE TypeOK'
        <3>1. produced' \in Counts
            BY <2>3 DEF WriteByte, Counts
        <3>2. UNCHANGED <<version, threads, locals, fits, pc, closed, lost,
                          group, consumed, misread>>
            BY <1>25, <2>3 DEF Provider, WriteByte
        <3> QED
            BY <3>1, <3>2
    <2>4. CASE ReadInput
        BY <1>25, <2>4 DEF Provider, ReadInput
    <2> QED
        BY <1>25, <2>1, <2>2, <2>3, <2>4 DEF Provider
<1>26. CASE Outsider
    BY <1>26 DEF Outsider, Edits
<1>27. CASE UNCHANGED vars
    BY <1>27
<1> QED
    BY <1>1, <1>2, <1>3, <1>4, <1>5, <1>6, <1>7, <1>8, <1>9, <1>10, <1>11,
       <1>12, <1>13, <1>14, <1>15, <1>16, <1>17, <1>18, <1>19, <1>20, <1>21,
       <1>22, <1>23, <1>24, <1>25, <1>26, <1>27 DEF Next, Main, CloseStreams,
       Reader, Returned

(* Only the launch leaves the initial situation. *)
LEMMA IdleInvStep == IInv /\ [Next]_vars => IdleInv'
<1> SUFFICES ASSUME IInv, [Next]_vars PROVE IdleInv'
    OBVIOUS
<1> USE LeaderAssumption, LimitAssumption, BlockAssumption, BoundAssumption
   DEF IInv, TypeOK, GroupTypeOK, vars, provider, group, threads, locals,
   NoExit, NoEdit, Outputs, Pipes, Files, Identity, Fail, Goto, BeforeLaunch,
   Closing, Checking, Accepted, ExitCodes, IdleInv
<1>1. CASE Resolve
    BY <1>1 DEF Resolve
<1>2. CASE Prepare
    BY <1>2 DEF Prepare
<1>3. CASE Identify
    BY <1>3 DEF Identify
<1>4. CASE CopyStart
    BY <1>4 DEF CopyStart
<1>5. CASE CopyRest
    BY <1>5 DEF CopyRest
<1>6. CASE CopyRecheck
    BY <1>6 DEF CopyRecheck
<1>7. CASE Launch
    BY <1>7 DEF Launch, StartLeader
<1>8. CASE WaitReturns
    BY <1>8 DEF WaitReturns, KillGroup
<1>9. CASE WaitTimesOut
    BY <1>9 DEF WaitTimesOut, KillGroup
<1>10. CASE JoinWriter
    BY <1>10 DEF JoinWriter, JoinThread
<1>11. CASE JoinReader
    BY <1>11 DEF JoinReader, JoinThread
<1>12. CASE CloseStream("stdout", "closeOut", "closeErr")
    BY <1>12 DEF CloseStream
<1>13. CASE CloseStream("stderr", "closeErr", "verify")
    BY <1>13 DEF CloseStream
<1>14. CASE Verify
    BY <1>14 DEF Verify
<1>15. CASE CheckLaunchFiles
    BY <1>15 DEF CheckLaunchFiles
<1>16. CASE CheckParent
    BY <1>16 DEF CheckParent
<1>17. CASE Classify
    BY <1>17 DEF Classify, TransportIssue
<1>18. CASE Parse
    BY <1>18 DEF Parse
<1>19. CASE CheckEvidence
    BY <1>19 DEF CheckEvidence
<1>20. CASE CheckFiles
    BY <1>20 DEF CheckFiles
<1>21. CASE WriteStdin
    BY <1>21 DEF WriteStdin, HeldOpen
<1>22. ASSUME NEW s \in Outputs, ReadChunk(s) PROVE IdleInv'
    BY <1>22 DEF ReadChunk, HeldOpen
<1>23. ASSUME NEW s \in Outputs, CheckLimit(s) PROVE IdleInv'
    BY <1>23 DEF CheckLimit, KillGroup
<1>24. ASSUME NEW s \in Outputs, EndOfStream(s) PROVE IdleInv'
    BY <1>24 DEF EndOfStream, HeldOpen
<1>25. CASE Provider
    BY <1>25 DEF Provider, GroupStep, Fork, LeaveGroup, Exit, ClosePipe,
       ReadRequest, WriteByte, ReadInput, Live, HeldOpen, Observed
<1>26. CASE Outsider
    BY <1>26 DEF Outsider, Edits
<1>27. CASE UNCHANGED vars
    BY <1>27
<1> QED
    BY <1>1, <1>2, <1>3, <1>4, <1>5, <1>6, <1>7, <1>8, <1>9, <1>10, <1>11,
       <1>12, <1>13, <1>14, <1>15, <1>16, <1>17, <1>18, <1>19, <1>20, <1>21,
       <1>22, <1>23, <1>24, <1>25, <1>26, <1>27 DEF Next, Main, CloseStreams,
       Reader, Returned

(* Recorded identities stay behind the files, and the copy is made
   between two equal ones. *)
LEMMA BoundInvStep == IInv /\ [Next]_vars => BoundInv'
<1> SUFFICES ASSUME IInv, [Next]_vars PROVE BoundInv'
    OBVIOUS
<1> USE LeaderAssumption, LimitAssumption, BlockAssumption, BoundAssumption
   DEF IInv, TypeOK, GroupTypeOK, vars, provider, group, threads, locals,
   NoExit, NoEdit, Outputs, Pipes, Files, Identity, Fail, Goto, BeforeLaunch,
   Closing, Checking, Accepted, ExitCodes, BoundInv, IdleInv, Numbers
<1>1. CASE Resolve
    BY <1>1 DEF Resolve
<1>2. CASE Prepare
    BY <1>2 DEF Prepare
<1>3. CASE Identify
    BY <1>3 DEF Identify
<1>4. CASE CopyStart
    BY <1>4 DEF CopyStart
<1>5. CASE CopyRest
    BY <1>5 DEF CopyRest
<1>6. CASE CopyRecheck
    BY <1>6 DEF CopyRecheck
<1>7. CASE Launch
    BY <1>7 DEF Launch, StartLeader
<1>8. CASE WaitReturns
    BY <1>8 DEF WaitReturns, KillGroup
<1>9. CASE WaitTimesOut
    BY <1>9 DEF WaitTimesOut, KillGroup
<1>10. CASE JoinWriter
    BY <1>10 DEF JoinWriter, JoinThread
<1>11. CASE JoinReader
    BY <1>11 DEF JoinReader, JoinThread
<1>12. CASE CloseStream("stdout", "closeOut", "closeErr")
    BY <1>12 DEF CloseStream
<1>13. CASE CloseStream("stderr", "closeErr", "verify")
    BY <1>13 DEF CloseStream
<1>14. CASE Verify
    BY <1>14 DEF Verify
<1>15. CASE CheckLaunchFiles
    BY <1>15 DEF CheckLaunchFiles
<1>16. CASE CheckParent
    BY <1>16 DEF CheckParent
<1>17. CASE Classify
    BY <1>17 DEF Classify, TransportIssue
<1>18. CASE Parse
    BY <1>18 DEF Parse
<1>19. CASE CheckEvidence
    BY <1>19 DEF CheckEvidence
<1>20. CASE CheckFiles
    BY <1>20 DEF CheckFiles
<1>21. CASE WriteStdin
    BY <1>21 DEF WriteStdin, HeldOpen
<1>22. ASSUME NEW s \in Outputs, ReadChunk(s) PROVE BoundInv'
    BY <1>22 DEF ReadChunk, HeldOpen
<1>23. ASSUME NEW s \in Outputs, CheckLimit(s) PROVE BoundInv'
    BY <1>23 DEF CheckLimit, KillGroup
<1>24. ASSUME NEW s \in Outputs, EndOfStream(s) PROVE BoundInv'
    BY <1>24 DEF EndOfStream, HeldOpen
<1>25. CASE Provider
    BY <1>25 DEF Provider, GroupStep, Fork, LeaveGroup, Exit, ClosePipe,
       ReadRequest, WriteByte, ReadInput, Live, HeldOpen, Observed
<1>26. CASE Outsider
    BY <1>26 DEF Outsider, Edits
<1>27. CASE UNCHANGED vars
    BY <1>27
<1> QED
    BY <1>1, <1>2, <1>3, <1>4, <1>5, <1>6, <1>7, <1>8, <1>9, <1>10, <1>11,
       <1>12, <1>13, <1>14, <1>15, <1>16, <1>17, <1>18, <1>19, <1>20, <1>21,
       <1>22, <1>23, <1>24, <1>25, <1>26, <1>27 DEF Next, Main, CloseStreams,
       Reader, Returned

(* The wait ends with a kill, and what is outside the group never enters
   it. *)
LEMMA GroupInvStep == IInv /\ [Next]_vars => GroupInv'
<1> SUFFICES ASSUME IInv, [Next]_vars PROVE GroupInv'
    OBVIOUS
<1> USE LeaderAssumption, LimitAssumption, BlockAssumption, BoundAssumption
   DEF IInv, TypeOK, GroupTypeOK, vars, provider, group, threads, locals,
   NoExit, NoEdit, Outputs, Pipes, Files, Identity, Fail, Goto, BeforeLaunch,
   Closing, Checking, Accepted, ExitCodes, GroupInv, IdleInv
<1>1. CASE Resolve
    BY <1>1 DEF Resolve
<1>2. CASE Prepare
    BY <1>2 DEF Prepare
<1>3. CASE Identify
    BY <1>3 DEF Identify
<1>4. CASE CopyStart
    BY <1>4 DEF CopyStart
<1>5. CASE CopyRest
    BY <1>5 DEF CopyRest
<1>6. CASE CopyRecheck
    BY <1>6 DEF CopyRecheck
<1>7. CASE Launch
    BY <1>7 DEF Launch, StartLeader
<1>8. CASE WaitReturns
    BY <1>8 DEF WaitReturns, KillGroup
<1>9. CASE WaitTimesOut
    BY <1>9 DEF WaitTimesOut, KillGroup
<1>10. CASE JoinWriter
    BY <1>10 DEF JoinWriter, JoinThread
<1>11. CASE JoinReader
    BY <1>11 DEF JoinReader, JoinThread
<1>12. CASE CloseStream("stdout", "closeOut", "closeErr")
    BY <1>12 DEF CloseStream
<1>13. CASE CloseStream("stderr", "closeErr", "verify")
    BY <1>13 DEF CloseStream
<1>14. CASE Verify
    BY <1>14 DEF Verify
<1>15. CASE CheckLaunchFiles
    BY <1>15 DEF CheckLaunchFiles
<1>16. CASE CheckParent
    BY <1>16 DEF CheckParent
<1>17. CASE Classify
    BY <1>17 DEF Classify, TransportIssue
<1>18. CASE Parse
    BY <1>18 DEF Parse
<1>19. CASE CheckEvidence
    BY <1>19 DEF CheckEvidence
<1>20. CASE CheckFiles
    BY <1>20 DEF CheckFiles
<1>21. CASE WriteStdin
    BY <1>21 DEF WriteStdin, HeldOpen
<1>22. ASSUME NEW s \in Outputs, ReadChunk(s) PROVE GroupInv'
    BY <1>22 DEF ReadChunk, HeldOpen
<1>23. ASSUME NEW s \in Outputs, CheckLimit(s) PROVE GroupInv'
    BY <1>23 DEF CheckLimit, KillGroup
<1>24. ASSUME NEW s \in Outputs, EndOfStream(s) PROVE GroupInv'
    BY <1>24 DEF EndOfStream, HeldOpen
<1>25. CASE Provider
    BY <1>25 DEF Provider, GroupStep, Fork, LeaveGroup, Exit, ClosePipe,
       ReadRequest, WriteByte, ReadInput, Live, HeldOpen, Observed
<1>26. CASE Outsider
    BY <1>26 DEF Outsider, Edits
<1>27. CASE UNCHANGED vars
    BY <1>27
<1> QED
    BY <1>1, <1>2, <1>3, <1>4, <1>5, <1>6, <1>7, <1>8, <1>9, <1>10, <1>11,
       <1>12, <1>13, <1>14, <1>15, <1>16, <1>17, <1>18, <1>19, <1>20, <1>21,
       <1>22, <1>23, <1>24, <1>25, <1>26, <1>27 DEF Next, Main, CloseStreams,
       Reader, Returned

(* The readers, the writers of the pipes and the closing of a stream. *)
LEMMA ReaderInvStep == IInv /\ [Next]_vars => ReaderInv'
<1> SUFFICES ASSUME IInv, [Next]_vars PROVE ReaderInv'
    OBVIOUS
<1> USE LeaderAssumption, LimitAssumption, BlockAssumption, BoundAssumption
   DEF IInv, TypeOK, GroupTypeOK, vars, provider, group, threads, locals,
   NoExit, NoEdit, Outputs, Pipes, Files, Identity, Fail, Goto, BeforeLaunch,
   Closing, Checking, Accepted, ExitCodes, ReaderInv, IdleInv, HeldOpen,
   Counts
<1>1. CASE Resolve
    BY <1>1 DEF Resolve
<1>2. CASE Prepare
    BY <1>2 DEF Prepare
<1>3. CASE Identify
    BY <1>3 DEF Identify
<1>4. CASE CopyStart
    BY <1>4 DEF CopyStart
<1>5. CASE CopyRest
    BY <1>5 DEF CopyRest
<1>6. CASE CopyRecheck
    BY <1>6 DEF CopyRecheck
<1>7. CASE Launch
    BY <1>7 DEF Launch, StartLeader
<1>8. CASE WaitReturns
    BY <1>8 DEF WaitReturns, KillGroup
<1>9. CASE WaitTimesOut
    BY <1>9 DEF WaitTimesOut, KillGroup
<1>10. CASE JoinWriter
    BY <1>10 DEF JoinWriter, JoinThread
<1>11. CASE JoinReader
    BY <1>11 DEF JoinReader, JoinThread
<1>12. CASE CloseStream("stdout", "closeOut", "closeErr")
    BY <1>12 DEF CloseStream
<1>13. CASE CloseStream("stderr", "closeErr", "verify")
    BY <1>13 DEF CloseStream
<1>14. CASE Verify
    BY <1>14 DEF Verify
<1>15. CASE CheckLaunchFiles
    BY <1>15 DEF CheckLaunchFiles
<1>16. CASE CheckParent
    BY <1>16 DEF CheckParent
<1>17. CASE Classify
    BY <1>17 DEF Classify, TransportIssue
<1>18. CASE Parse
    BY <1>18 DEF Parse
<1>19. CASE CheckEvidence
    BY <1>19 DEF CheckEvidence
<1>20. CASE CheckFiles
    BY <1>20 DEF CheckFiles
<1>21. CASE WriteStdin
    BY <1>21 DEF WriteStdin, HeldOpen
<1>22. ASSUME NEW s \in Outputs, ReadChunk(s) PROVE ReaderInv'
    BY <1>22 DEF ReadChunk, HeldOpen
<1>23. ASSUME NEW s \in Outputs, CheckLimit(s) PROVE ReaderInv'
    BY <1>23 DEF CheckLimit, KillGroup
<1>24. ASSUME NEW s \in Outputs, EndOfStream(s) PROVE ReaderInv'
    BY <1>24 DEF EndOfStream, HeldOpen
<1>25. CASE Provider
    BY <1>25 DEF Provider, GroupStep, Fork, LeaveGroup, Exit, ClosePipe,
       ReadRequest, WriteByte, ReadInput, Live, HeldOpen, Observed
<1>26. CASE Outsider
    BY <1>26 DEF Outsider, Edits
<1>27. CASE UNCHANGED vars
    BY <1>27
<1> QED
    BY <1>1, <1>2, <1>3, <1>4, <1>5, <1>6, <1>7, <1>8, <1>9, <1>10, <1>11,
       <1>12, <1>13, <1>14, <1>15, <1>16, <1>17, <1>18, <1>19, <1>20, <1>21,
       <1>22, <1>23, <1>24, <1>25, <1>26, <1>27 DEF Next, Main, CloseStreams,
       Reader, Returned

(* What each check has established stays true until the call returns. *)
LEMMA CheckInvStep == IInv /\ [Next]_vars => CheckInv'
<1> SUFFICES ASSUME IInv, [Next]_vars PROVE CheckInv'
    OBVIOUS
<1> USE LeaderAssumption, LimitAssumption, BlockAssumption, BoundAssumption
   DEF IInv, TypeOK, GroupTypeOK, vars, provider, group, threads, locals,
   NoExit, NoEdit, Outputs, Pipes, Files, Identity, Fail, Goto, BeforeLaunch,
   Closing, Checking, Accepted, ExitCodes, CheckInv, ReaderInv, GroupInv,
   IdleInv
<1>1. CASE Resolve
    BY <1>1 DEF Resolve
<1>2. CASE Prepare
    BY <1>2 DEF Prepare
<1>3. CASE Identify
    BY <1>3 DEF Identify
<1>4. CASE CopyStart
    BY <1>4 DEF CopyStart
<1>5. CASE CopyRest
    BY <1>5 DEF CopyRest
<1>6. CASE CopyRecheck
    BY <1>6 DEF CopyRecheck
<1>7. CASE Launch
    BY <1>7 DEF Launch, StartLeader
<1>8. CASE WaitReturns
    BY <1>8 DEF WaitReturns, KillGroup
<1>9. CASE WaitTimesOut
    BY <1>9 DEF WaitTimesOut, KillGroup
<1>10. CASE JoinWriter
    BY <1>10 DEF JoinWriter, JoinThread
<1>11. CASE JoinReader
    BY <1>11 DEF JoinReader, JoinThread
<1>12. CASE CloseStream("stdout", "closeOut", "closeErr")
    BY <1>12 DEF CloseStream
<1>13. CASE CloseStream("stderr", "closeErr", "verify")
    BY <1>13 DEF CloseStream
<1>14. CASE Verify
    BY <1>14 DEF Verify
<1>15. CASE CheckLaunchFiles
    BY <1>15 DEF CheckLaunchFiles
<1>16. CASE CheckParent
    BY <1>16 DEF CheckParent
<1>17. CASE Classify
    BY <1>17 DEF Classify, TransportIssue
<1>18. CASE Parse
    BY <1>18 DEF Parse
<1>19. CASE CheckEvidence
    BY <1>19 DEF CheckEvidence
<1>20. CASE CheckFiles
    BY <1>20 DEF CheckFiles
<1>21. CASE WriteStdin
    BY <1>21 DEF WriteStdin, HeldOpen
<1>22. ASSUME NEW s \in Outputs, ReadChunk(s) PROVE CheckInv'
    BY <1>22 DEF ReadChunk, HeldOpen
<1>23. ASSUME NEW s \in Outputs, CheckLimit(s) PROVE CheckInv'
    BY <1>23 DEF CheckLimit, KillGroup
<1>24. ASSUME NEW s \in Outputs, EndOfStream(s) PROVE CheckInv'
    BY <1>24 DEF EndOfStream, HeldOpen
<1>25. CASE Provider
    BY <1>25 DEF Provider, GroupStep, Fork, LeaveGroup, Exit, ClosePipe,
       ReadRequest, WriteByte, ReadInput, Live, HeldOpen, Observed
<1>26. CASE Outsider
    BY <1>26 DEF Outsider, Edits
<1>27. CASE UNCHANGED vars
    BY <1>27
<1> QED
    BY <1>1, <1>2, <1>3, <1>4, <1>5, <1>6, <1>7, <1>8, <1>9, <1>10, <1>11,
       <1>12, <1>13, <1>14, <1>15, <1>16, <1>17, <1>18, <1>19, <1>20, <1>21,
       <1>22, <1>23, <1>24, <1>25, <1>26, <1>27 DEF Next, Main, CloseStreams,
       Reader, Returned

(* The invariant holds before the call has done anything.                  *)
LEMMA InitIInv == Init => IInv
<1> SUFFICES ASSUME Init PROVE IInv
    OBVIOUS
<1> USE LeaderAssumption, LimitAssumption, BoundAssumption DEF Init, NoProcess,
        GroupTypeOK, NoExit, NoEdit, Outputs, Files, BeforeLaunch, Closing,
        Checking, Accepted
<1>1. TypeOK
    <2>1. produced \in Counts /\ total \in Counts /\ lost \in Counts
        BY DEF Counts
    <2>2. version \in [Files -> Numbers]
        BY DEF Numbers
    <2>3. snap \in (Numbers \cup {NoEdit}) \X (Numbers \cup {NoEdit})
        OBVIOUS
    <2>4. seen \in [out : Nat, err : Nat, writeError : BOOLEAN]
        OBVIOUS
    <2>5. GroupTypeOK(Pipes)
        OBVIOUS
    <2> QED
        BY <2>1, <2>2, <2>3, <2>4, <2>5 DEF TypeOK
<1>2. IdleInv /\ BoundInv /\ GroupInv /\ ReaderInv /\ CheckInv
    BY DEF IdleInv, BoundInv, GroupInv, ReaderInv, CheckInv
<1> QED
    BY <1>1, <1>2 DEF IInv

-----------------------------------------------------------------------------
(* The invariant holds in every state.                                     *)
THEOREM Invariance == Spec => []IInv
<1>1. IInv /\ [Next]_vars => IInv'
    BY TypeOKStep, IdleInvStep, BoundInvStep, GroupInvStep, ReaderInvStep,
       CheckInvStep DEF IInv
<1> QED
    BY InitIInv, <1>1, PTL DEF Spec

(* Type correctness.                                                       *)
THEOREM TypeCorrect == Spec => []TypeOK
BY Invariance, PTL DEF IInv

(***************************************************************************)
(* An accepted result comes from one version of the launch file, the one   *)
(* identified before the copy, and from the inputs bound at resolution,    *)
(* however often an outsider edits them (invoke_local_provider,            *)
(* _snapshot_transport_file, _request_snapshot_result_issues).             *)
(***************************************************************************)
THEOREM AcceptedBound == Spec => []AcceptedIsBound
<1>1. IInv => AcceptedIsBound
    BY DEF IInv, IdleInv, BoundInv, Accepted, AcceptedIsBound
<1> QED
    BY Invariance, <1>1, PTL

(***************************************************************************)
(* An accepted result comes from a leader that exited zero within its      *)
(* limits and a standard error on which nothing was ever written.          *)
(***************************************************************************)
THEOREM AcceptedClean == Spec => []AcceptedTransportIsClean
<1>1. IInv => AcceptedTransportIsClean
    BY LimitAssumption, BoundAssumption
    DEF IInv, TypeOK, Counts, Outputs, IdleInv, CheckInv, Accepted,
        AcceptedTransportIsClean
<1> QED
    BY Invariance, <1>1, PTL

(* No process of the provider's group is left when the call returns.       *)
THEOREM NoGroupSurvives == Spec => []NoGroupOutlivesCall
<1>1. IInv => NoGroupOutlivesCall
    BY DEF IInv, GroupInv, NoGroupOutlivesCall
<1> QED
    BY Invariance, <1>1, PTL
-----------------------------------------------------------------------------
(* Contracts: a manifest that vouches, an accepted verdict, a control      *)
(* block, and the PDK provider's own answer.                               *)

(* The capability that a request is resolved to is vouched for: each of    *)
(* its products has a passing record, of this version of the driver and of *)
(* the maturity that it claims (provider_manifest_issues).                 *)
THEOREM ChosenIsVouched ==
    ASSUME NEW d, Resolves(d)
    PROVE  Vouched(d)
<1> DEFINE m == d.manifest
           q == d.request
           c == m.capabilities[Chosen(d)[1]]
<1>1. ManifestFits(m) /\ Cardinality(Candidates(m, q)) = 1
    BY DEF Resolves, Selected
<1>2. Candidates(m, q) # {}
    BY <1>1, FS_EmptySet
<1>3. Chosen(d) \in Candidates(m, q)
    BY <1>2 DEF Chosen
<1>4. Chosen(d)[1] \in DOMAIN m.capabilities /\ Serves(c, q)
    BY <1>3 DEF Candidates
<1>5. CapabilityFits(c, m) /\ c.maturity # "discovered"
    BY <1>1, <1>4 DEF ManifestFits, Serves
<1> HIDE DEF m, q, c
<1>6. /\ c.records \subseteq Ids(m.records) /\ \A r \in c.records : Belongs(RecordOf(m, r), c, m)
      /\ c.products \subseteq UNION {ToSet(RecordOf(m, r).products) : r \in Supporting(c, m)}
    BY <1>5 DEF CapabilityFits
<1>7. ASSUME NEW p \in c.products
      PROVE  \E r \in ToSet(m.records) : /\ p \in ToSet(r.products) /\ r.status = "pass" /\ r.version = m.driver.version
                                         /\ Maturity[r.level] >= Maturity[c.maturity]
  <2>1. PICK r \in Supporting(c, m) : p \in ToSet(RecordOf(m, r).products)
    BY <1>6
  <2> DEFINE it == RecordOf(m, r)
  <2>2. r \in c.records /\ it.status = "pass" /\ Maturity[it.level] >= Maturity[c.maturity]
    BY DEF Supporting
  <2>3. it \in ToSet(m.records)
    <3>1. \E i \in DOMAIN m.records : m.records[i].id = r
        BY <1>6, <2>2 DEF Ids
    <3>2. QED
        BY <3>1 DEF RecordOf, ToSet
  <2>4. it.version = m.driver.version
    BY <1>6, <2>2 DEF Belongs
  <2>5. QED
    BY <2>1, <2>2, <2>3, <2>4
<1>8. QED
    BY <1>7 DEF Vouched, m, c

(* A verdict that the host accepts, whoever gave it, is evidenced: it is   *)
(* about the files of the request, as they were before the launch and are  *)
(* after it, its records are true, and its result and log are where they   *)
(* were to go (validate_provider_result, result_conformance_issues).       *)
THEOREM AcceptedIsEvidenced ==
    ASSUME NEW d, NEW a, NEW fs, Resolves(d), Accepts(d, a, fs), Conclusive(a)
    PROVE  Evidenced(d, a, fs)
<1> DEFINE ls == Locators(d.request)
           earlier == d.files[1]
<1>1. /\ EvidenceFits(d, a) /\ InputsNamed(d, a) /\ SnapshotsStand(d, a, fs) /\ DestinationHolds(d, a, fs)
      /\ ProfileHolds(d, a) /\ FilesVerify(a, fs) /\ InputsBind(d)
    BY DEF Accepts, Resolves
<1>2. \A r \in ToSet(a.inputs) \cup ToSet(a.artifacts) : Verifies(fs, r)
    BY <1>1 DEF FilesVerify
<1>3. ASSUME NEW l \in ToSet(ls)
      PROVE  /\ \E i \in DOMAIN a.inputs : a.inputs[i].path = l.path /\ a.inputs[i].sha = Content(earlier, l.path)
             /\ \A i, j \in DOMAIN a.inputs : a.inputs[i].path = l.path /\ a.inputs[j].path = l.path => i = j
             /\ Content(earlier, l.path) = Content(fs, l.path) /\ l.sha \in {"", Content(fs, l.path)}
  <2>1. PICK k \in DOMAIN ls : l = ls[k]
    BY DEF ToSet
  <2> DEFINE s == earlier[l.path]
  <2>2. IsFile(earlier, l.path) /\ l.sha \in {"", s.sha}
    BY <1>1, <2>1 DEF InputsBind, Bindable
  <2>3. k \in DOMAIN Snapshots(d) /\ Snapshots(d)[k] = s
    BY <2>1 DEF Snapshots
  <2>4. /\ Bindable(fs, l.path, s.sha, MostOf(k))
        /\ \E j \in DOMAIN a.inputs : Of(a, l.path) = {j} /\ a.inputs[j].bytes = s.size /\ a.inputs[j].sha = s.sha
    BY <1>1, <2>1, <2>3 DEF SnapshotsStand
  <2>5. PICK j \in DOMAIN a.inputs : Of(a, l.path) = {j} /\ a.inputs[j].sha = s.sha
    BY <2>4
  <2>6. a.inputs[j].exists /\ a.inputs[j].path = l.path
    BY <2>5 DEF Of
  <2>7. l.path \in DOMAIN fs /\ l.path \in DOMAIN earlier
    BY <1>3, <2>2, <2>4 DEF Bindable, IsFile, Plain
  <2>8. fs[l.path].sha = s.sha
    <3>1. a.inputs[j] \in ToSet(a.inputs)
        BY DEF ToSet
    <3>2. QED
        BY <1>2, <2>5, <2>6, <3>1 DEF Verifies
  <2>9. ASSUME NEW i \in DOMAIN a.inputs, a.inputs[i].path = l.path PROVE i = j
    <3>1. a.inputs[i].exists
        <4>1. a.inputs[i] \in ToSet(a.inputs)
            BY DEF ToSet
        <4>2. QED
            BY <1>2, <2>7, <2>9, <4>1 DEF Verifies
    <3>2. i \in Of(a, l.path)
        BY <2>9, <3>1 DEF Of
    <3>3. QED
        BY <2>5, <3>2
  <2>10. QED
    BY <2>2, <2>5, <2>6, <2>7, <2>8, <2>9 DEF Content
<1>4. \A r \in ToSet(a.artifacts) : Within(r.path, Destination(d))
    BY <1>1 DEF DestinationHolds
<1>5. \A role \in Needed : \E r \in ToSet(a.artifacts) : r.role = role /\ r.exists
  <2>1. Needed \subseteq RolesOf(a.artifacts)
    BY <1>1 DEF EvidenceFits
  <2>2. QED
    BY <2>1 DEF RolesOf, Existing, ToSet
<1>6. (\A i \in 1 .. 3 : a.analysis.counts[i] > 0) /\ (a.status = "pass" => a.exit = <<0>>)
    BY <1>1 DEF ProfileHolds, Positive
<1>7. \A r \in ToSet(a.inputs) \cup ToSet(a.artifacts) :
         IF r.exists THEN fs[r.path].sha = r.sha /\ fs[r.path].size = r.bytes ELSE r.path \notin DOMAIN fs
    BY <1>2 DEF Verifies
<1> HIDE DEF ls, earlier
<1>8. QED
    BY <1>3, <1>4, <1>5, <1>6, <1>7 DEF Evidenced, ls, earlier
(* The least of a set of numbers.                                          *)
LEMMA LeastOf ==
    ASSUME NEW T \in SUBSET Nat, T # {}
    PROVE  Min(T) \in T /\ \A n \in T : Min(T) <= n
<1> DEFINE R == OpToRel(<, Nat)
<1>1. IsWellFoundedOn(R, Nat)
    BY NatLessThanWellFounded
<1>2. \A m, n \in Nat : m < n => <<m, n>> \in R
    BY DEF OpToRel
<1> HIDE DEF R
<1>3. PICK m \in T : \A n \in T : ~(<<n, m>> \in R)
    BY <1>1, WFMin
<1>4. ASSUME NEW n \in T PROVE m <= n
  <2>1. n \in Nat /\ m \in Nat
    OBVIOUS
  <2>2. ~(n < m)
    BY <1>2, <1>3, <2>1
  <2>3. QED
    BY <2>1, <2>2
<1>5. QED
    BY <1>4 DEF Min

(* The scan of a deck, state by state.                                     *)
ScanSteps(s, lines) == s[0] = Outside /\ \A k \in 1 .. Len(lines) : s[k] = DeckLine(s[k - 1], lines[k])
LEMMA DeckScan ==
    ASSUME NEW lines, Len(lines) \in Nat
    PROVE  \E s : ScanSteps(s, lines) /\ ControlBlock(lines) = s[Len(lines)]
<1> DEFINE StateAt(s, k) == IF k = 0 THEN Outside ELSE DeckLine(s[k - 1], lines[k])
           States(s, n) == s = [k \in 0 .. n |-> StateAt(s, k)]
           bad == {n \in Nat : ~ \E s : States(s, n)}
           least == Min(bad)
<1>1. bad = {}
  <2> SUFFICES ASSUME bad # {} PROVE FALSE
    OBVIOUS
  <2>1. bad \in SUBSET Nat
    OBVIOUS
  <2>2. least \in bad /\ \A n \in bad : least <= n
    BY <2>1, LeastOf
  <2> HIDE DEF least
  <2>3. least \in Nat /\ ~ \E s : States(s, least)
    <3> HIDE DEF States
    <3>1. QED
        BY <2>2
  <2>4. least # 0
    <3> DEFINE s == [k \in 0 .. 0 |-> Outside]
    <3>1. \A k \in 0 .. 0 : k = 0
        OBVIOUS
    <3>2. s = [k \in 0 .. 0 |-> StateAt(s, k)]
        BY <3>1
    <3>3. QED
        BY <2>3, <3>2
  <2>5. PICK s : States(s, least - 1)
    <3> HIDE DEF States
    <3>1. least - 1 \in Nat /\ ~(least <= least - 1)
        BY <2>3, <2>4
    <3>2. QED
        BY <2>2, <3>1
  <2> DEFINE g == [k \in 0 .. least |-> IF k = least THEN DeckLine(s[least - 1], lines[least]) ELSE s[k]]
  <2>6. \A k \in 0 .. least - 1 : s[k] = StateAt(s, k)
    <3> HIDE DEF StateAt
    <3>1. s = [k \in 0 .. least - 1 |-> StateAt(s, k)]
        BY <2>5
    <3>2. QED
        BY <3>1
  <2>7. ASSUME NEW k \in 0 .. least PROVE g[k] = StateAt(g, k)
    <3>1. k \in Int /\ least \in Int /\ least - 1 \in 0 .. least
        BY <2>3, <2>4
    <3>2. CASE k = least
        <4>1. g[k] = DeckLine(s[least - 1], lines[least]) /\ g[least - 1] = s[least - 1]
            BY <3>1, <3>2
        <4>2. QED
            BY <2>4, <3>2, <4>1
    <3>3. CASE k # least /\ k # 0
        <4>1. k \in 0 .. least - 1 /\ k - 1 \in 0 .. least /\ k - 1 # least
            BY <3>1, <3>3
        <4>2. g[k] = s[k] /\ g[k - 1] = s[k - 1]
            BY <3>3, <4>1
        <4>3. QED
            BY <2>6, <3>3, <4>1, <4>2
    <3>4. CASE k # least /\ k = 0
        <4>1. k \in 0 .. least - 1
            BY <3>1, <3>4
        <4>2. QED
            BY <2>6, <3>4, <4>1
    <3>5. QED
        BY <3>2, <3>3, <3>4
  <2>8. States(g, least)
    <3> HIDE DEF StateAt
    <3>1. QED
        BY <2>7
  <2>9. QED
    BY <2>3, <2>8
<1>2. PICK s : States(s, Len(lines))
  <2> HIDE DEF States
  <2>1. QED
    BY <1>1
<1> DEFINE of == CHOOSE f : States(f, Len(lines))
<1>3. States(of, Len(lines))
  <2> HIDE DEF States
  <2>1. QED
    BY <1>2
<1>4. ControlBlock(lines) = of[Len(lines)]
    BY DEF ControlBlock
<1> HIDE DEF of
<1>5. \A k \in 0 .. Len(lines) : of[k] = StateAt(of, k)
  <2> HIDE DEF StateAt
  <2>1. of = [k \in 0 .. Len(lines) |-> StateAt(of, k)]
    BY <1>3
  <2>2. QED
    BY <2>1
<1>6. ScanSteps(of, lines)
  <2>1. of[0] = Outside
    BY <1>5
  <2>2. ASSUME NEW k \in 1 .. Len(lines) PROVE of[k] = DeckLine(of[k - 1], lines[k])
    <3>1. k \in 0 .. Len(lines) /\ k # 0
        OBVIOUS
    <3>2. QED
        BY <1>5, <3>1
  <2>3. QED
    BY <2>1, <2>2 DEF ScanSteps
<1>7. QED
    BY <1>4, <1>6
(* What the scan has made of the lines so far.                             *)
IsScan(s) == /\ s = [inside |-> s.inside, opened |-> s.opened, at |-> s.at, card |-> s.card, output |-> s.output]
             /\ s.inside \in BOOLEAN /\ s.opened \in Nat
Edges     == {".control", ".endc"}
Silent    == {"comment", ".control", ".endc"}
Stages    == {"save", "analysis", "after", "write", "complete"}
Saved(lines, a)     == lines[a].say = "save"
Chose(lines, n, s)  == lines[n].say = "analysis" /\ lines[n].card = s.card /\ Parses(s.card)
Linear(lines, l, s) == lines[l].say = "linearize" /\ s.card.kind = "tran"
Wrote(lines, w)     == lines[w].say = "write" /\ lines[w].safe
Heard(lines, T, s) ==
    /\ s.at \in Stages
    /\ s.at = "save"     => T = {}
    /\ s.at = "analysis" => \E a \in T : T = {a} /\ Saved(lines, a)
    /\ s.at = "after"    => \E a, n \in T : T = {a, n} /\ a < n /\ Saved(lines, a) /\ Chose(lines, n, s)
    /\ s.at = "write"    => \E a, n, l \in T : /\ T = {a, n, l} /\ a < n /\ n < l
                                              /\ Saved(lines, a) /\ Chose(lines, n, s) /\ Linear(lines, l, s)
    /\ s.at = "complete" => \E a, n, w \in T :
                               /\ a < n /\ n < w /\ Saved(lines, a) /\ Chose(lines, n, s) /\ Wrote(lines, w)
                               /\ \A i, j \in T \ {a, n, w} : i = j /\ n < i /\ i < w /\ Linear(lines, i, s)
LEMMA LineHeard ==
    ASSUME NEW s, IsScan(s), NEW line, DeckLine(s, line).at # "wrong"
    PROVE  LET t == DeckLine(s, line) IN
           /\ IsScan(t) /\ s.at # "wrong" /\ ~line.long
           /\ \/ line.say = "comment" /\ t = s
              \/ line.say = ".control" /\ ~s.inside /\ t.inside /\ t.opened = s.opened + 1 /\ t.at = s.at /\ t.card = s.card
              \/ line.say = ".endc" /\ s.inside /\ ~t.inside /\ t.opened = s.opened /\ t.at = s.at /\ t.card = s.card
              \/ line.say \notin Silent /\ ~s.inside /\ t = s
              \/ line.say \notin Silent /\ s.inside /\ t.inside /\ t.opened = s.opened /\ t = Command(s, line)
<1> DEFINE t == DeckLine(s, line)
<1>1. Wrong.at = "wrong"
    BY DEF Wrong, Outside
<1>2. s.at # "wrong" /\ ~line.long
  <2> SUFFICES ASSUME s.at = "wrong" \/ line.long PROVE FALSE
    OBVIOUS
  <2>1. t = Wrong
    BY DEF DeckLine
  <2>2. QED
    BY <1>1, <2>1
<1>3. CASE line.say = "comment"
  <2>1. t = s
    BY <1>2, <1>3 DEF DeckLine
  <2>2. QED
    BY <1>2, <1>3, <2>1
<1>4. CASE line.say = ".control"
  <2>1. t = IF s.inside THEN Wrong ELSE [s EXCEPT !.inside = TRUE, !.opened = @ + 1]
    BY <1>2, <1>4 DEF DeckLine
  <2>2. ~s.inside
    BY <1>1, <2>1
  <2>3. t = [s EXCEPT !.inside = TRUE, !.opened = @ + 1]
    BY <2>1, <2>2
  <2>4. t = [inside |-> TRUE, opened |-> s.opened + 1, at |-> s.at, card |-> s.card, output |-> s.output] /\ s.opened + 1 \in Nat
    <3>1. s.opened + 1 \in Nat
        BY DEF IsScan
    <3> DEFINE o == s.opened + 1
    <3>2. t = [s EXCEPT !.inside = TRUE, !.opened = o]
        BY <2>3
    <3> HIDE DEF o
    <3>3. t = [inside |-> TRUE, opened |-> o, at |-> s.at, card |-> s.card, output |-> s.output]
        BY <3>2 DEF IsScan
    <3>4. QED
        BY <3>1, <3>3 DEF o
  <2>5. QED
    BY <1>2, <1>4, <2>2, <2>4 DEF IsScan
<1>5. CASE line.say = ".endc"
  <2>1. t = IF s.inside THEN [s EXCEPT !.inside = FALSE] ELSE Wrong
    BY <1>2, <1>5 DEF DeckLine
  <2>2. s.inside
    BY <1>1, <2>1
  <2>3. t = [s EXCEPT !.inside = FALSE]
    BY <2>1, <2>2
  <2>4. t = [inside |-> FALSE, opened |-> s.opened, at |-> s.at, card |-> s.card, output |-> s.output] /\ s.opened \in Nat
    BY <2>3 DEF IsScan
  <2>5. QED
    BY <1>2, <1>5, <2>2, <2>4 DEF IsScan
<1>6. CASE line.say \notin Silent
  <2>1. t = IF s.inside THEN Command(s, line) ELSE s
    BY <1>2, <1>6 DEF DeckLine, Silent
  <2>2. CASE ~s.inside
    BY <1>2, <1>6, <2>1, <2>2
  <2>3. CASE s.inside
    <3>1. t = Command(s, line)
        BY <2>1, <2>3
    <3>2. \/ t = [s EXCEPT !.at = "analysis"]
          \/ t = [s EXCEPT !.at = "after", !.card = line.card]
          \/ t = [s EXCEPT !.at = "write"]
          \/ t = [s EXCEPT !.at = "complete", !.output = line.name]
        BY <1>1, <3>1 DEF Command
    <3>3. IsScan(t) /\ t.inside /\ t.opened = s.opened
        BY <2>3, <3>2 DEF IsScan
    <3>4. QED
        BY <1>2, <1>6, <2>3, <3>1, <3>3
  <2>4. QED
    BY <2>2, <2>3
<1>7. QED
    BY <1>3, <1>4, <1>5, <1>6 DEF Silent
LEMMA CommandHeard ==
    ASSUME NEW s, IsScan(s), NEW lines, NEW T \in SUBSET Int, NEW k \in Int, \A i \in T : i < k,
           Heard(lines, T, s), Command(s, lines[k]).at # "wrong"
    PROVE  Heard(lines, T \cup {k}, Command(s, lines[k]))
<1> DEFINE t == Command(s, lines[k])
           U == T \cup {k}
<1>1. Wrong.at = "wrong"
    BY DEF Wrong, Outside
<1>2. \/ lines[k].say = "save" /\ s.at = "save" /\ t = [s EXCEPT !.at = "analysis"]
      \/ lines[k].say = "analysis" /\ s.at = "analysis" /\ Parses(lines[k].card) /\ t = [s EXCEPT !.at = "after", !.card = lines[k].card]
      \/ lines[k].say = "linearize" /\ s.at = "after" /\ s.card.kind = "tran" /\ t = [s EXCEPT !.at = "write"]
      \/ lines[k].say = "write" /\ s.at \in {"after", "write"} /\ lines[k].safe
           /\ t = [s EXCEPT !.at = "complete", !.output = lines[k].name]
    BY <1>1 DEF Command
<1>3. CASE lines[k].say = "save" /\ s.at = "save" /\ t = [s EXCEPT !.at = "analysis"]
  <2>1. t.at = "analysis" /\ U = {k} /\ Saved(lines, k) /\ k \in U
    BY <1>3 DEF IsScan, Heard, Saved
  <2> HIDE DEF t, U
  <2>2. Heard(lines, U, t)
    BY <2>1 DEF Heard, Stages
  <2>3. QED
    BY <2>2 DEF t, U
<1>4. CASE lines[k].say = "analysis" /\ s.at = "analysis" /\ Parses(lines[k].card) /\ t = [s EXCEPT !.at = "after", !.card = lines[k].card]
  <2>1. PICK a \in T : T = {a} /\ Saved(lines, a)
    BY <1>4 DEF Heard
  <2>2. t.at = "after" /\ t.card = lines[k].card
    BY <1>4 DEF IsScan
  <2>3. a \in U /\ k \in U /\ U = {a, k} /\ a < k /\ Saved(lines, a) /\ Chose(lines, k, t)
    BY <1>4, <2>1, <2>2 DEF Chose
  <2> HIDE DEF t, U
  <2>4. Heard(lines, U, t)
    BY <2>2, <2>3 DEF Heard, Stages
  <2>5. QED
    BY <2>4 DEF t, U
<1>5. CASE lines[k].say = "linearize" /\ s.at = "after" /\ s.card.kind = "tran" /\ t = [s EXCEPT !.at = "write"]
  <2>1. PICK a, n \in T : T = {a, n} /\ a < n /\ Saved(lines, a) /\ Chose(lines, n, s)
    BY <1>5 DEF Heard
  <2>2. t.at = "write" /\ t.card = s.card
    BY <1>5 DEF IsScan
  <2>3. /\ a \in U /\ n \in U /\ k \in U /\ U = {a, n, k} /\ a < n /\ n < k
        /\ Saved(lines, a) /\ Chose(lines, n, t) /\ Linear(lines, k, t)
    BY <1>5, <2>1, <2>2 DEF Chose, Linear
  <2> HIDE DEF t, U
  <2>4. Heard(lines, U, t)
    BY <2>2, <2>3 DEF Heard, Stages
  <2>5. QED
    BY <2>4 DEF t, U
<1>6. CASE /\ lines[k].say = "write" /\ s.at \in {"after", "write"} /\ lines[k].safe
           /\ t = [s EXCEPT !.at = "complete", !.output = lines[k].name]
  <2>1. t.at = "complete" /\ t.card = s.card
    BY <1>6 DEF IsScan
  <2>2. \E a, n \in T : /\ a < n /\ Saved(lines, a) /\ Chose(lines, n, s)
                        /\ \A i, j \in T \ {a, n} : i = j /\ n < i /\ Linear(lines, i, s)
    <3>1. CASE s.at = "after"
        <4>1. PICK a, n \in T : T = {a, n} /\ a < n /\ Saved(lines, a) /\ Chose(lines, n, s)
            BY <3>1 DEF Heard
        <4>2. T \ {a, n} = {}
            BY <4>1
        <4>3. QED
            BY <4>1, <4>2
    <3>2. CASE s.at = "write"
        <4>1. PICK a, n, l \in T : /\ T = {a, n, l} /\ a < n /\ n < l
                                   /\ Saved(lines, a) /\ Chose(lines, n, s) /\ Linear(lines, l, s)
            BY <3>2 DEF Heard
        <4>2. \A i \in T \ {a, n} : i = l
            BY <4>1
        <4>3. \A i, j \in T \ {a, n} : i = j /\ n < i /\ Linear(lines, i, s)
            BY <4>1, <4>2
        <4>4. QED
            BY <4>1, <4>3
    <3>3. QED
        BY <1>6, <3>1, <3>2
  <2>3. PICK a, n \in T : /\ a < n /\ Saved(lines, a) /\ Chose(lines, n, s)
                         /\ \A i, j \in T \ {a, n} : i = j /\ n < i /\ Linear(lines, i, s)
    BY <2>2
  <2>4. a \in U /\ n \in U /\ k \in U /\ n < k /\ Chose(lines, n, t) /\ Wrote(lines, k)
    BY <1>6, <2>1, <2>3 DEF Chose, Wrote
  <2>5. ASSUME NEW i \in U \ {a, n, k}, NEW j \in U \ {a, n, k} PROVE i = j /\ n < i /\ i < k /\ Linear(lines, i, t)
    <3>1. i \in T \ {a, n} /\ j \in T \ {a, n}
        BY <2>5
    <3>2. i = j /\ n < i /\ Linear(lines, i, s) /\ i < k
        BY <2>3, <3>1
    <3>3. QED
        BY <2>1, <3>2 DEF Linear
  <2> HIDE DEF t, U
  <2>6. Heard(lines, U, t)
    BY <2>1, <2>3, <2>4, <2>5 DEF Heard, Stages
  <2>7. QED
    BY <2>6 DEF t, U
<1>7. QED
    BY <1>2, <1>3, <1>4, <1>5, <1>6
ReadTo(lines, s, k) ==
    /\ IsScan(s) /\ \A i \in 1 .. k : ~lines[i].long
    /\ s.opened = 0 => ~s.inside /\ s.at = "save" /\ \A i \in 1 .. k : lines[i].say \notin Edges
    /\ s.opened = 1 /\ s.inside =>
         \E b \in 1 .. k : /\ lines[b].say = ".control" /\ \A i \in 1 .. k : lines[i].say \in Edges => i = b
                           /\ Heard(lines, Told(lines, b, k + 1), s)
    /\ s.opened = 1 /\ ~s.inside =>
         \E b, e \in 1 .. k : /\ lines[b].say = ".control" /\ lines[e].say = ".endc"
                              /\ \A i \in 1 .. k : lines[i].say \in Edges => i \in {b, e}
                              /\ Heard(lines, Told(lines, b, e), s)
LEMMA ReadOn ==
    ASSUME NEW lines, NEW k \in Nat, NEW s, ReadTo(lines, s, k), DeckLine(s, lines[k + 1]).at # "wrong"
    PROVE  ReadTo(lines, DeckLine(s, lines[k + 1]), k + 1)
<1> DEFINE t == DeckLine(s, lines[k + 1])
           line == lines[k + 1]
<1>1. IsScan(s) /\ \A i \in 1 .. k : ~lines[i].long
    BY DEF ReadTo
<1>2. IsScan(t) /\ s.at # "wrong" /\ ~line.long
    BY <1>1, LineHeard
<1>3. \/ line.say = "comment" /\ t = s
      \/ line.say = ".control" /\ ~s.inside /\ t.inside /\ t.opened = s.opened + 1 /\ t.at = s.at /\ t.card = s.card
      \/ line.say = ".endc" /\ s.inside /\ ~t.inside /\ t.opened = s.opened /\ t.at = s.at /\ t.card = s.card
      \/ line.say \notin Silent /\ ~s.inside /\ t = s
      \/ line.say \notin Silent /\ s.inside /\ t.inside /\ t.opened = s.opened /\ t = Command(s, line)
    BY <1>1, LineHeard
<1>4. /\ \A i \in 1 .. k + 1 : i \in 1 .. k \/ i = k + 1
      /\ \A i \in 1 .. k : i \in 1 .. k + 1 /\ i \in Int /\ i < k + 1
      /\ k + 1 \in 1 .. k + 1 /\ k + 1 \in Int
    OBVIOUS
<1>5. \A i \in 1 .. k + 1 : ~lines[i].long
    BY <1>1, <1>2, <1>4
<1>6. s.opened \in Nat /\ t.opened \in Nat /\ s.inside \in BOOLEAN /\ t.inside \in BOOLEAN
    BY <1>1, <1>2 DEF IsScan
<1>7. ASSUME NEW b \in 1 .. k
      PROVE  Told(lines, b, k + 2) = IF line.say = "comment" THEN Told(lines, b, k + 1) ELSE Told(lines, b, k + 1) \cup {k + 1}
  <2>1. b + 1 .. (k + 2) - 1 = (b + 1 .. (k + 1) - 1) \cup {k + 1} /\ k + 1 \notin b + 1 .. (k + 1) - 1
    OBVIOUS
  <2>2. QED
    BY <2>1 DEF Told
<1>8. CASE t.opened = 0
  <2>1. s.opened = 0
    BY <1>3, <1>6, <1>8
  <2>2. ~s.inside /\ s.at = "save" /\ \A i \in 1 .. k : lines[i].say \notin Edges
    BY <2>1 DEF ReadTo
  <2>3. line.say \notin Edges /\ t = s
    BY <1>3, <1>6, <1>8, <2>1, <2>2 DEF Edges, Silent
  <2>4. ~t.inside /\ t.at = "save" /\ \A i \in 1 .. k + 1 : lines[i].say \notin Edges
    BY <1>4, <2>2, <2>3
  <2> HIDE DEF t
  <2>5. ReadTo(lines, t, k + 1)
    BY <1>2, <1>5, <1>8, <2>4 DEF ReadTo
  <2>6. QED
    BY <2>5 DEF t
<1>9. CASE t.opened = 1 /\ t.inside
  <2>1. \E b \in 1 .. k + 1 : /\ lines[b].say = ".control" /\ \A i \in 1 .. k + 1 : lines[i].say \in Edges => i = b
                              /\ Heard(lines, Told(lines, b, k + 2), t)
    <3>1. CASE line.say = ".control"
        <4>1. ~s.inside /\ s.opened = 0 /\ t.at = s.at
            BY <1>3, <1>6, <1>9, <3>1 DEF Silent
        <4>2. t.at = "save" /\ \A i \in 1 .. k : lines[i].say \notin Edges
            BY <4>1 DEF ReadTo
        <4>3. \A i \in 1 .. k + 1 : lines[i].say \in Edges => i = k + 1
            BY <1>4, <4>2
        <4>4. Told(lines, k + 1, k + 2) = {}
            <5>1. (k + 1) + 1 .. (k + 2) - 1 = {}
                OBVIOUS
            <5>2. QED
                BY <5>1 DEF Told
        <4>5. Heard(lines, Told(lines, k + 1, k + 2), t)
            BY <4>2, <4>4 DEF Heard, Stages
        <4>6. QED
            BY <1>4, <3>1, <4>3, <4>5
    <3>2. CASE line.say # ".control"
        <4>1. s.inside /\ s.opened = 1 /\ line.say \notin Edges
            BY <1>3, <1>6, <1>9, <3>2 DEF Edges, Silent
        <4>2. PICK b \in 1 .. k : /\ lines[b].say = ".control" /\ \A i \in 1 .. k : lines[i].say \in Edges => i = b
                                  /\ Heard(lines, Told(lines, b, k + 1), s)
            BY <4>1 DEF ReadTo
        <4>3. \A i \in 1 .. k + 1 : lines[i].say \in Edges => i = b
            BY <1>4, <4>1, <4>2
        <4>4. Heard(lines, Told(lines, b, k + 2), t)
            <5>1. CASE line.say = "comment"
                <6>1. t = s
                    BY <1>3, <5>1 DEF Silent
                <6>2. QED
                    BY <1>7, <4>2, <5>1, <6>1
            <5>2. CASE line.say # "comment"
                <6>1. t = Command(s, line) /\ t.at # "wrong"
                    BY <1>3, <3>2, <4>1, <5>2 DEF Edges, Silent
                <6> DEFINE T == Told(lines, b, k + 1)
                <6>2. T \in SUBSET Int /\ \A i \in T : i < k + 1
                    <7>1. \A i \in b + 1 .. (k + 1) - 1 : i \in Int /\ i < k + 1
                        OBVIOUS
                    <7>2. QED
                        BY <7>1 DEF Told
                <6> HIDE DEF t, T
                <6>3. Heard(lines, T, s) /\ Command(s, lines[k + 1]).at # "wrong"
                    BY <4>2, <6>1 DEF T
                <6>4. Heard(lines, T \cup {k + 1}, t)
                    BY <1>1, <1>4, <6>1, <6>2, <6>3, CommandHeard
                <6>5. QED
                    BY <1>7, <5>2, <6>4 DEF T
            <5>3. QED
                BY <5>1, <5>2
        <4>5. QED
            BY <1>4, <4>2, <4>3, <4>4
    <3>3. QED
        BY <3>1, <3>2
  <2> HIDE DEF t
  <2>2. (k + 1) + 1 = k + 2
    OBVIOUS
  <2>3. ReadTo(lines, t, k + 1)
    BY <1>2, <1>5, <1>9, <2>1, <2>2 DEF ReadTo
  <2>4. QED
    BY <2>3 DEF t
<1>10. CASE t.opened = 1 /\ ~t.inside
  <2>1. \E b, e \in 1 .. k + 1 : /\ lines[b].say = ".control" /\ lines[e].say = ".endc"
                                 /\ \A i \in 1 .. k + 1 : lines[i].say \in Edges => i \in {b, e}
                                 /\ Heard(lines, Told(lines, b, e), t)
    <3>1. CASE line.say = ".endc"
        <4>1. s.inside /\ s.opened = 1 /\ t.at = s.at /\ t.card = s.card
            BY <1>3, <1>6, <1>10, <3>1 DEF Silent
        <4>2. PICK b \in 1 .. k : /\ lines[b].say = ".control" /\ \A i \in 1 .. k : lines[i].say \in Edges => i = b
                                  /\ Heard(lines, Told(lines, b, k + 1), s)
            BY <4>1 DEF ReadTo
        <4>3. \A i \in 1 .. k + 1 : lines[i].say \in Edges => i \in {b, k + 1}
            BY <1>4, <4>2
        <4> HIDE DEF t
        <4>4. Heard(lines, Told(lines, b, k + 1), t)
            BY <4>1, <4>2 DEF Heard, Chose, Linear
        <4>5. QED
            BY <1>4, <3>1, <4>2, <4>3, <4>4
    <3>2. CASE line.say # ".endc"
        <4>1. ~s.inside /\ t = s /\ s.opened = 1 /\ line.say \notin Edges
            BY <1>3, <1>6, <1>10, <3>2 DEF Edges, Silent
        <4>2. PICK b, e \in 1 .. k : /\ lines[b].say = ".control" /\ lines[e].say = ".endc"
                                     /\ \A i \in 1 .. k : lines[i].say \in Edges => i \in {b, e}
                                     /\ Heard(lines, Told(lines, b, e), s)
            BY <4>1 DEF ReadTo
        <4>3. \A i \in 1 .. k + 1 : lines[i].say \in Edges => i \in {b, e}
            BY <1>4, <4>1, <4>2
        <4>4. QED
            BY <1>4, <4>1, <4>2, <4>3
    <3>3. QED
        BY <3>1, <3>2
  <2> HIDE DEF t
  <2>2. ReadTo(lines, t, k + 1)
    BY <1>2, <1>5, <1>10, <2>1 DEF ReadTo
  <2>3. QED
    BY <2>2 DEF t
<1>11. CASE t.opened # 0 /\ t.opened # 1
  <2> HIDE DEF t
  <2>1. ReadTo(lines, t, k + 1)
    BY <1>2, <1>5, <1>11 DEF ReadTo
  <2>2. QED
    BY <2>1 DEF t
<1>12. QED
    BY <1>6, <1>8, <1>9, <1>10, <1>11

(* A deck that the provider accepts has exactly one control block, and in  *)
(* it the one analysis, after everything is saved and before one safe      *)
(* write; the card that the scan remembers is that analysis                *)
(* (_parse_control_deck, for decks of any length).                         *)
THEOREM DeckIsOneBlock ==
    ASSUME NEW lines, Len(lines) \in Nat, DOMAIN lines = 1 .. Len(lines), ControlFits(lines)
    PROVE  OneBlock(lines, ControlBlock(lines).card)
<1> DEFINE n == Len(lines)
<1>1. PICK s : ScanSteps(s, lines) /\ ControlBlock(lines) = s[n]
    BY DeckScan
<1>2. ~s[n].inside /\ s[n].opened = 1 /\ s[n].at = "complete"
    BY <1>1 DEF ControlFits
<1>3. s[0] = Outside /\ \A k \in 1 .. n : s[k] = DeckLine(s[k - 1], lines[k])
    BY <1>1 DEF ScanSteps
<1> DEFINE bad == {k \in 0 .. n : ~(s[k].at # "wrong" => ReadTo(lines, s[k], k))}
           least == Min(bad)
<1>4. bad = {}
  <2> SUFFICES ASSUME bad # {} PROVE FALSE
    OBVIOUS
  <2>1. bad \in SUBSET Nat
    OBVIOUS
  <2>2. least \in bad /\ \A k \in bad : least <= k
    BY <2>1, LeastOf
  <2> HIDE DEF least
  <2>3. least \in 0 .. n /\ s[least].at # "wrong" /\ ~ReadTo(lines, s[least], least)
    BY <2>2
  <2>4. CASE least = 0
    <3>1. IsScan(Outside) /\ Outside.opened = 0 /\ ~Outside.inside /\ Outside.at = "save"
        BY DEF IsScan, Outside
    <3>2. \A i \in 1 .. 0 : FALSE
        OBVIOUS
    <3>3. ReadTo(lines, Outside, 0)
        BY <3>1, <3>2 DEF ReadTo
    <3>4. QED
        BY <1>3, <2>3, <2>4, <3>3
  <2>5. CASE least # 0
    <3> DEFINE k == least - 1
    <3>1. k \in 0 .. n /\ k \in Nat /\ ~(least <= k) /\ k + 1 = least /\ least \in 1 .. n
        BY <2>3, <2>5
    <3>2. s[least] = DeckLine(s[k], lines[least])
        BY <1>3, <3>1
    <3> HIDE DEF k
    <3>3. s[k].at # "wrong"
        <4> SUFFICES ASSUME s[k].at = "wrong" PROVE FALSE
            OBVIOUS
        <4>1. s[least] = Wrong
            BY <3>2 DEF DeckLine
        <4>2. QED
            BY <2>3, <4>1 DEF Wrong, Outside
    <3>4. ReadTo(lines, s[k], k)
        BY <2>2, <3>1, <3>3
    <3>5. ReadTo(lines, DeckLine(s[k], lines[k + 1]), k + 1)
        BY <2>3, <3>1, <3>2, <3>4, ReadOn
    <3>6. QED
        BY <2>3, <3>1, <3>2, <3>5
  <2>6. QED
    BY <2>4, <2>5
<1>5. ReadTo(lines, s[n], n)
  <2>1. n \in 0 .. n
    OBVIOUS
  <2>2. s[n].at # "wrong"
    BY <1>2
  <2>3. QED
    BY <1>4, <2>1, <2>2
<1> DEFINE last == s[n]
<1>6. PICK b, e \in 1 .. n : /\ lines[b].say = ".control" /\ lines[e].say = ".endc"
                             /\ \A i \in 1 .. n : lines[i].say \in Edges => i \in {b, e}
                             /\ Heard(lines, Told(lines, b, e), last)
    BY <1>2, <1>5 DEF ReadTo
<1>7. \A i \in 1 .. n : ~lines[i].long
    BY <1>5 DEF ReadTo
<1> DEFINE T == Told(lines, b, e)
<1>8. PICK a, m, w \in T : /\ a < m /\ m < w /\ Saved(lines, a) /\ Chose(lines, m, last) /\ Wrote(lines, w)
                          /\ \A i, j \in T \ {a, m, w} : i = j /\ m < i /\ i < w /\ Linear(lines, i, last)
    BY <1>2, <1>6 DEF Heard
<1> HIDE DEF T, last
<1> DEFINE card == last.card
<1>9. /\ lines[a].say = "save" /\ lines[m].say = "analysis" /\ lines[w].say = "write"
      /\ lines[m].card = card /\ Parses(card) /\ lines[w].safe
      /\ \A i, j \in T \ {a, m, w} : i = j /\ m < i /\ i < w /\ lines[i].say = "linearize" /\ card.kind = "tran"
    BY <1>8 DEF Saved, Chose, Wrote, Linear
<1> HIDE DEF card
<1>10. OneBlock(lines, card)
    BY <1>6, <1>7, <1>8, <1>9 DEF OneBlock, Edges, T
<1>11. QED
    BY <1>1, <1>10 DEF card, last
-----------------------------------------------------------------------------
(* What the driver reports has these fields, and not those that are added. *)
IsReport(n) == /\ {"status", "artifacts", "diagnostics", "stable", "counts", "captures"} \subseteq DOMAIN n
               /\ "inputs" \notin DOMAIN n /\ "analysis" \notin DOMAIN n /\ DOMAIN n.captures \subseteq Nat
LEMMA Joined ==
    ASSUME NEW f, NEW g
    PROVE  /\ DOMAIN Over(f, g) = DOMAIN f \cup DOMAIN g
           /\ \A x \in DOMAIN f : Over(f, g)[x] = f[x]
           /\ \A x \in DOMAIN g : x \notin DOMAIN f => Over(f, g)[x] = g[x]
BY DEF Over

(* An answer carries the driver's status, unless no counts are of the asked*)
(* analysis, the inputs, and those counts.                                 *)
LEMMA Decorated ==
    ASSUME NEW n, {"status", "artifacts", "diagnostics"} \subseteq DOMAIN n, "analysis" \notin DOMAIN n, NEW protocol, NEW x
    PROVE  LET a == Decorate(n, protocol, x)
               counts == CountsFor(n, x)
           IN /\ a.status = IF Answered(n) /\ counts = <<>> THEN "unknown" ELSE n.status
              /\ a.analysis.counts = counts
              /\ "inputs" \in DOMAIN n => a.inputs = n.inputs
<1> DEFINE a == Decorate(n, protocol, x)
           counts == CountsFor(n, x)
           status == IF Answered(n) /\ counts = <<>> THEN "unknown" ELSE n.status
           roled == Roled(n.artifacts)
           said == Diagnosed(Said(n, Answered(n) /\ counts = <<>>), status)
           judged == [n EXCEPT !.status = status, !.artifacts = roled, !.diagnostics = said]
           analysis == [type |-> x.type, completion |-> Completion[status], convergence |-> Convergence[status], counts |-> counts]
           evidence == [binding |-> IF n.stable /\ counts # <<>> THEN "exact" ELSE "not-established",
                        freshness |-> Freshness(n), structure |-> Structure(n, counts),
                        roles |-> RolesIn(n.artifacts), provenance |-> IF n.stable THEN "bounded" ELSE "incomplete"]
           shared == [operation |-> "simulate", protocol |-> protocol, analysis |-> analysis, evidence |-> evidence]
<1>1. a = Over(judged, shared)
    BY DEF Decorate
<1>2. analysis.counts = counts
    OBVIOUS
<1> HIDE DEF a, status, roled, said, analysis, evidence, counts
<1>3. /\ DOMAIN judged = DOMAIN n /\ judged.status = status
      /\ "inputs" \in DOMAIN n => judged.inputs = n.inputs
    OBVIOUS
<1>4. "analysis" \in DOMAIN shared /\ shared.analysis = analysis
    OBVIOUS
<1> HIDE DEF judged, shared
<1>5. /\ \A f \in DOMAIN judged : Over(judged, shared)[f] = judged[f]
      /\ \A f \in DOMAIN shared : f \notin DOMAIN judged => Over(judged, shared)[f] = shared[f]
    BY Joined, ZenonT(20)
<1>6. a.status = status /\ a.analysis = analysis /\ ("inputs" \in DOMAIN n => a.inputs = n.inputs)
    BY <1>1, <1>3, <1>4, <1>5
<1>7. a.analysis.counts = counts
    BY <1>2, <1>6
<1>8. QED
    BY <1>6, <1>7 DEF a, status, counts
(* A verdict of this provider is of a run, after which everything that it  *)
(* looks at again is as it was.                                            *)
LEMMA VerdictOfRun ==
    ASSUME NEW d, IsReport(d.native), NEW fs, Conclusive(Answer(d, fs))
    PROVE  LET a   == Answer(d, fs)
               was == Before(d)
           IN /\ Launched(d) /\ KeepsItsFiles(d, was, fs) /\ KeepsTarget(d, was) /\ KeepsConfig(d, was, fs) /\ KeepsDirs(d, was, fs)
              /\ a.status = d.native.status /\ a.inputs = Inputs(d, was, fs)
              /\ \/ a.analysis.counts = d.native.counts
                 \/ \E i \in DOMAIN d.native.captures :
                      LET c == d.native.captures[i] IN Shows(c, Normalized(d.request.parameters.analysis)) /\ c.counts = a.analysis.counts
<1> DEFINE a == Answer(d, fs)
           was == Before(d)
           x == Normalized(d.request.parameters.analysis)
           arts == Artifacts(d)
           inputs == Inputs(d, was, fs)
           native == Over([d.native EXCEPT !.artifacts = arts], [inputs |-> inputs])
           kept == KeepsItsFiles(d, was, fs) /\ KeepsTarget(d, was) /\ KeepsConfig(d, was, fs) /\ KeepsDirs(d, was, fs)
<1>1. a.status \in {"pass", "fail"}
    BY DEF Conclusive
<1>2. Launched(d)
  <2> SUFFICES ASSUME ~Launched(d) PROVE FALSE
    OBVIOUS
  <2> DEFINE n == Refused(Readables(d), Refusal(d), TRUE)
  <2>1. /\ {"status", "artifacts", "diagnostics"} \subseteq DOMAIN n /\ "analysis" \notin DOMAIN n
        /\ n.status = "unknown" /\ ~Answered(n)
    BY DEF Refused, Answered
  <2>2. a = Decorate(n, Echo(d), x)
    BY DEF Answer
  <2> HIDE DEF n, a, x
  <2>3. a.status = IF Answered(n) /\ CountsFor(n, x) = <<>> THEN "unknown" ELSE n.status
    BY <2>1, <2>2, Decorated
  <2>4. QED
    BY <1>1, <2>1, <2>3
<1>3. a = Decorate(Ended(d, was, fs), Echo(d), x)
    BY <1>2 DEF Answer, Run
<1>4. Ended(d, was, fs) = IF kept THEN native ELSE Changed(native)
    BY DEF Ended
<1>5. /\ {"status", "artifacts", "diagnostics", "stable", "counts", "captures", "inputs"} \subseteq DOMAIN native
      /\ "analysis" \notin DOMAIN native
      /\ native.status = d.native.status /\ native.counts = d.native.counts /\ native.captures = d.native.captures
      /\ native.inputs = inputs
  <2> DEFINE f == [d.native EXCEPT !.artifacts = arts]
             g == [inputs |-> inputs]
  <2>1. /\ DOMAIN f = DOMAIN d.native /\ {"status", "artifacts", "diagnostics", "stable", "counts", "captures"} \subseteq DOMAIN f
        /\ "inputs" \notin DOMAIN f /\ "analysis" \notin DOMAIN f
        /\ f.status = d.native.status /\ f.counts = d.native.counts /\ f.captures = d.native.captures
    BY DEF IsReport
  <2>2. DOMAIN g = {"inputs"} /\ g.inputs = inputs
    OBVIOUS
  <2> HIDE DEF f, g
  <2>3. /\ DOMAIN Over(f, g) = DOMAIN f \cup DOMAIN g
        /\ \A y \in DOMAIN f : Over(f, g)[y] = f[y]
        /\ \A y \in DOMAIN g : y \notin DOMAIN f => Over(f, g)[y] = g[y]
    BY Joined
  <2> DEFINE o == Over(f, g)
  <2>4. /\ DOMAIN o = DOMAIN f \cup {"inputs"} /\ o["inputs"] = inputs
        /\ o["status"] = f["status"] /\ o["counts"] = f["counts"] /\ o["captures"] = f["captures"]
    BY <2>1, <2>2, <2>3
  <2>5. native = o
    BY DEF f, g
  <2> HIDE DEF o, native
  <2>6. QED
    BY <2>1, <2>4, <2>5
<1> HIDE DEF a, was, x, arts, inputs, native, kept
<1>6. kept
  <2> SUFFICES ASSUME ~kept PROVE FALSE
    OBVIOUS
  <2> DEFINE n == Changed(native)
  <2>1. n.status = "unknown" /\ DOMAIN n = DOMAIN native /\ ~Answered(n)
    BY <1>5 DEF Changed, Answered
  <2>2. a = Decorate(n, Echo(d), x)
    BY <1>3, <1>4
  <2> HIDE DEF n
  <2>3. {"status", "artifacts", "diagnostics"} \subseteq DOMAIN n /\ "analysis" \notin DOMAIN n
    BY <1>5, <2>1
  <2>4. a.status = IF Answered(n) /\ CountsFor(n, x) = <<>> THEN "unknown" ELSE n.status
    BY <2>2, <2>3, Decorated
  <2>5. QED
    BY <1>1, <2>1, <2>4
<1>7. a = Decorate(native, Echo(d), x)
    BY <1>3, <1>4, <1>6
<1>8. {"status", "artifacts", "diagnostics"} \subseteq DOMAIN native /\ "analysis" \notin DOMAIN native /\ "inputs" \in DOMAIN native
    BY <1>5
<1> DEFINE counts == CountsFor(native, x)
<1>9. /\ a.status = IF Answered(native) /\ counts = <<>> THEN "unknown" ELSE native.status
      /\ a.analysis.counts = counts /\ a.inputs = native.inputs
    BY <1>7, <1>8, Decorated
<1>10. a.status = native.status /\ Answered(native) /\ counts # <<>>
  <2> HIDE DEF counts
  <2>1. a.status = native.status /\ (Answered(native) => counts # <<>>)
    BY <1>1, <1>9
  <2>2. QED
    BY <1>1, <2>1 DEF Answered
<1>11. \/ counts = d.native.counts
       \/ \E i \in DOMAIN d.native.captures : LET c == d.native.captures[i] IN Shows(c, x) /\ c.counts = counts
  <2> DEFINE shown == {i \in DOMAIN native.captures : Shows(native.captures[i], x)}
  <2>1. CASE Positive(native.counts)
    BY <1>5, <1>10, <2>1 DEF CountsFor
  <2>2. CASE ~Positive(native.counts)
    <3>1. counts = IF shown = {} THEN <<>> ELSE native.captures[Min(shown)].counts
        BY <1>10, <2>2 DEF CountsFor
    <3>2. shown # {} /\ counts = native.captures[Min(shown)].counts
        BY <1>10, <3>1
    <3>3. shown \in SUBSET Nat
        BY <1>5 DEF IsReport
    <3> HIDE DEF counts
    <3>4. Min(shown) \in shown
        <4> HIDE DEF shown
        <4>1. QED
            BY <3>2, <3>3, LeastOf
    <3> DEFINE i == Min(shown)
    <3>5. i \in DOMAIN native.captures /\ Shows(native.captures[i], x) /\ native.captures[i].counts = counts
        BY <3>2, <3>4
    <3> HIDE DEF i
    <3>6. QED
        BY <1>5, <3>5
  <2>3. QED
    BY <2>1, <2>2
<1> HIDE DEF counts
<1>12. a.status = d.native.status /\ a.inputs = inputs /\ a.analysis.counts = counts
    BY <1>5, <1>9, <1>10
<1>13. QED
    BY <1>2, <1>6, <1>11, <1>12 DEF a, was, x, inputs, kept
(* What the run used is among the inputs that it names.                    *)
LEMMA AppendedNames ==
    ASSUME NEW X, NEW s \in Seq(X), NEW fs, NEW x, Record(fs, x[1]) \in X, Fits(fs, x[1], x[2])
    PROVE  LET t == Appended(fs, s, x) IN
           /\ t \in Seq(X) /\ ToSet(s) \subseteq ToSet(t)
           /\ \E r \in ToSet(t) : r.path = Record(fs, x[1]).path
<1> DEFINE r == Record(fs, x[1])
           t == Appended(fs, s, x)
<1>1. t = IF \A i \in DOMAIN s : s[i].path # r.path THEN Append(s, r) ELSE s
    BY DEF Appended
<1>2. r \in X
    OBVIOUS
<1> HIDE DEF r, t
<1>3. Append(s, r) \in Seq(X) /\ ToSet(s) \subseteq ToSet(Append(s, r)) /\ r \in ToSet(Append(s, r))
  <2>1. /\ Append(s, r) \in Seq(X) /\ DOMAIN s = 1 .. Len(s) /\ Len(s) \in Nat
        /\ DOMAIN Append(s, r) = 1 .. Len(s) + 1 /\ Append(s, r)[Len(s) + 1] = r
        /\ \A i \in 1 .. Len(s) : Append(s, r)[i] = s[i]
    BY <1>2
  <2>2. ASSUME NEW y \in ToSet(s) PROVE y \in ToSet(Append(s, r))
    <3>1. PICK i \in 1 .. Len(s) : y = s[i]
        BY <2>1 DEF ToSet
    <3>2. i \in DOMAIN Append(s, r) /\ Append(s, r)[i] = y
        BY <2>1, <3>1
    <3>3. QED
        BY <3>2 DEF ToSet
  <2>3. r \in ToSet(Append(s, r))
    BY <2>1 DEF ToSet
  <2>4. QED
    BY <2>1, <2>2, <2>3
<1>4. CASE \A i \in DOMAIN s : s[i].path # r.path
  <2>1. t = Append(s, r)
    BY <1>1, <1>4
  <2>2. QED
    BY <1>3, <2>1 DEF r, t
<1>5. CASE \E i \in DOMAIN s : s[i].path = r.path
  <2>1. t = s
    BY <1>1, <1>5
  <2>2. \E q \in ToSet(s) : q.path = r.path
    BY <1>5 DEF ToSet
  <2>3. QED
    BY <2>1, <2>2 DEF r, t
<1>6. QED
    BY <1>4, <1>5

LEMMA InputsName ==
    ASSUME NEW d, NEW was, NEW fs, \A x \in ToSet(Rechecked(d)) : Fits(fs, x[1], x[2])
    PROVE  LET s == Inputs(d, was, fs) IN
           /\ \A p \in ToSet(Opened(d)) : Record(was, p) \in ToSet(s)
           /\ \A x \in ToSet(Rechecked(d)) : \E r \in ToSet(s) : r.path = Record(fs, x[1]).path
           /\ \A r \in ToSet(s) : \E p \in UsedBy(d) : r = Record(was, p) \/ r = Record(fs, p)
<1> DEFINE x == Rechecked(d)
           X == {Record(was, p) : p \in UsedBy(d)} \cup {Record(fs, p) : p \in UsedBy(d)}
           s0 == [i \in DOMAIN Opened(d) |-> Record(was, Opened(d)[i])]
           s1 == Appended(fs, s0, x[1])
           s2 == Appended(fs, s1, x[2])
           s3 == Appended(fs, s2, x[3])
           s4 == Appended(fs, s3, x[4])
           s5 == Appended(fs, s4, x[5])
           s6 == Appended(fs, s5, x[6])
           StepsFrom(f) == f = [k \in 0 .. Len(x) |-> IF k = 0 THEN s0 ELSE Appended(fs, f[k - 1], x[k])]
           g == [k \in 0 .. 6 |-> IF k = 0 THEN s0 ELSE IF k = 1 THEN s1 ELSE IF k = 2 THEN s2 ELSE IF k = 3 THEN s3
                                  ELSE IF k = 4 THEN s4 ELSE IF k = 5 THEN s5 ELSE s6]
           of == CHOOSE f : StepsFrom(f)
<1>1. Len(x) = 6 /\ DOMAIN x = 1 .. 6 /\ DOMAIN Opened(d) = 1 .. 3
    BY DEF Rechecked, Opened
<1>2. Inputs(d, was, fs) = of[6]
  <2>1. Inputs(d, was, fs) = of[Len(x)]
    BY DEF Inputs
  <2> HIDE DEF of, x
  <2>2. QED
    BY <1>1, <2>1
<1>3. \A k \in 1 .. 6 : x[k] \in ToSet(x)
    BY <1>1 DEF ToSet
<1>4. \A k \in 1 .. 6 : x[k][1] \in UsedBy(d) /\ Fits(fs, x[k][1], x[k][2]) /\ Record(fs, x[k][1]) \in X
    BY <1>3 DEF UsedBy
<1>5. s0 \in Seq(X) /\ \A p \in ToSet(Opened(d)) : Record(was, p) \in ToSet(s0)
  <2>1. \A i \in 1 .. 3 : Record(was, Opened(d)[i]) \in X
    BY <1>1 DEF UsedBy, ToSet
  <2>2. s0 = [i \in 1 .. 3 |-> Record(was, Opened(d)[i])]
    BY <1>1
  <2> HIDE DEF X
  <2>3. s0 \in Seq(X)
    BY <2>1, <2>2
  <2>4. \A p \in ToSet(Opened(d)) : Record(was, p) \in ToSet(s0)
    BY <1>1, <2>2 DEF ToSet
  <2>5. QED
    BY <2>3, <2>4
<1> HIDE DEF x, X, s0
<1>6. g[0] = s0 /\ \A k \in 1 .. 6 : g[k] = Appended(fs, g[k - 1], x[k])
  <2>1. \A k \in 1 .. 6 : k = 1 \/ k = 2 \/ k = 3 \/ k = 4 \/ k = 5 \/ k = 6
    OBVIOUS
  <2>2. g[0] = s0 /\ g[1] = s1 /\ g[2] = s2 /\ g[3] = s3 /\ g[4] = s4 /\ g[5] = s5 /\ g[6] = s6
    <3> HIDE DEF s1, s2, s3, s4, s5, s6
    <3>1. QED
        OBVIOUS
  <2> HIDE DEF g
  <2>3. /\ g[1] = Appended(fs, g[0], x[1]) /\ g[2] = Appended(fs, g[1], x[2]) /\ g[3] = Appended(fs, g[2], x[3])
        /\ g[4] = Appended(fs, g[3], x[4]) /\ g[5] = Appended(fs, g[4], x[5]) /\ g[6] = Appended(fs, g[5], x[6])
    BY <2>2
  <2>4. QED
    BY <2>1, <2>2, <2>3
<1>7. DOMAIN g = 0 .. 6 /\ g = [k \in 0 .. 6 |-> g[k]]
  <2> HIDE DEF s1, s2, s3, s4, s5, s6
  <2>1. QED
    OBVIOUS
<1> HIDE DEF g, s1, s2, s3, s4, s5, s6
<1>8. StepsFrom(g)
  <2>1. \A k \in 0 .. 6 : g[k] = IF k = 0 THEN s0 ELSE Appended(fs, g[k - 1], x[k])
    <3>1. \A k \in 0 .. 6 : k = 0 \/ k \in 1 .. 6
        OBVIOUS
    <3>2. QED
        BY <1>6, <3>1
  <2>2. QED
    BY <1>1, <1>7, <2>1
<1>9. StepsFrom(of)
  <2> HIDE DEF StepsFrom
  <2>1. QED
    BY <1>8
<1> HIDE DEF of
<1>10. of[0] = s0 /\ \A k \in 1 .. 6 : of[k] = Appended(fs, of[k - 1], x[k])
  <2>1. of = [k \in 0 .. 6 |-> IF k = 0 THEN s0 ELSE Appended(fs, of[k - 1], x[k])]
    BY <1>1, <1>9
  <2>2. \A k \in 1 .. 6 : k \in 0 .. 6 /\ k # 0
    OBVIOUS
  <2>3. QED
    BY <2>1, <2>2
<1> HIDE DEF StepsFrom
<1>11. \A k \in 1 .. 6 : of[k - 1] \in Seq(X) =>
            /\ of[k] \in Seq(X) /\ ToSet(of[k - 1]) \subseteq ToSet(of[k])
            /\ \E r \in ToSet(of[k]) : r.path = Record(fs, x[k][1]).path
  <2> SUFFICES ASSUME NEW k \in 1 .. 6, of[k - 1] \in Seq(X)
               PROVE  /\ of[k] \in Seq(X) /\ ToSet(of[k - 1]) \subseteq ToSet(of[k])
                      /\ \E r \in ToSet(of[k]) : r.path = Record(fs, x[k][1]).path
    OBVIOUS
  <2>1. Record(fs, x[k][1]) \in X /\ Fits(fs, x[k][1], x[k][2]) /\ of[k] = Appended(fs, of[k - 1], x[k])
    BY <1>4, <1>10
  <2> DEFINE u == of[k - 1]
             y == x[k]
  <2>2. u \in Seq(X) /\ Record(fs, y[1]) \in X /\ Fits(fs, y[1], y[2])
    BY <2>1
  <2> HIDE DEF u, y
  <2>3. LET t == Appended(fs, u, y) IN
        /\ t \in Seq(X) /\ ToSet(u) \subseteq ToSet(t) /\ \E r \in ToSet(t) : r.path = Record(fs, y[1]).path
    BY <2>2, AppendedNames
  <2>4. QED
    BY <2>1, <2>3 DEF u, y
<1>12. /\ of[1] \in Seq(X) /\ of[2] \in Seq(X) /\ of[3] \in Seq(X) /\ of[4] \in Seq(X) /\ of[5] \in Seq(X) /\ of[6] \in Seq(X)
       /\ \A k \in 1 .. 6 : /\ ToSet(of[k - 1]) \subseteq ToSet(of[k])
                            /\ \E r \in ToSet(of[k]) : r.path = Record(fs, x[k][1]).path
  <2>1. 1 - 1 = 0 /\ 2 - 1 = 1 /\ 3 - 1 = 2 /\ 4 - 1 = 3 /\ 5 - 1 = 4 /\ 6 - 1 = 5
    OBVIOUS
  <2>2. of[0] \in Seq(X)
    BY <1>5, <1>10
  <2>3. of[1] \in Seq(X)
    BY <1>11, <2>1, <2>2
  <2>4. of[2] \in Seq(X)
    BY <1>11, <2>1, <2>3
  <2>5. of[3] \in Seq(X)
    BY <1>11, <2>1, <2>4
  <2>6. of[4] \in Seq(X)
    BY <1>11, <2>1, <2>5
  <2>7. of[5] \in Seq(X)
    BY <1>11, <2>1, <2>6
  <2>8. of[6] \in Seq(X)
    BY <1>11, <2>1, <2>7
  <2>9. \A k \in 1 .. 6 : of[k - 1] \in Seq(X)
    <3>1. \A k \in 1 .. 6 : k = 1 \/ k = 2 \/ k = 3 \/ k = 4 \/ k = 5 \/ k = 6
        OBVIOUS
    <3>2. QED
        BY <2>1, <2>2, <2>3, <2>4, <2>5, <2>6, <2>7, <3>1
  <2>10. QED
    BY <1>11, <2>3, <2>4, <2>5, <2>6, <2>7, <2>8, <2>9
<1>13. \A k \in 0 .. 6 : ToSet(of[k]) \subseteq ToSet(of[6])
  <2>1. /\ ToSet(of[0]) \subseteq ToSet(of[1]) /\ ToSet(of[1]) \subseteq ToSet(of[2]) /\ ToSet(of[2]) \subseteq ToSet(of[3])
        /\ ToSet(of[3]) \subseteq ToSet(of[4]) /\ ToSet(of[4]) \subseteq ToSet(of[5]) /\ ToSet(of[5]) \subseteq ToSet(of[6])
    <3>1. 1 - 1 = 0 /\ 2 - 1 = 1 /\ 3 - 1 = 2 /\ 4 - 1 = 3 /\ 5 - 1 = 4 /\ 6 - 1 = 5
        OBVIOUS
    <3>2. QED
        BY <1>12, <3>1
  <2>2. \A k \in 0 .. 6 : k = 0 \/ k = 1 \/ k = 2 \/ k = 3 \/ k = 4 \/ k = 5 \/ k = 6
    OBVIOUS
  <2>3. QED
    BY <2>1, <2>2
<1>14. \A p \in ToSet(Opened(d)) : Record(was, p) \in ToSet(of[6])
  <2>1. 0 \in 0 .. 6
    OBVIOUS
  <2>2. QED
    BY <1>5, <1>10, <1>13, <2>1
<1>15. ASSUME NEW y \in ToSet(x) PROVE \E r \in ToSet(of[6]) : r.path = Record(fs, y[1]).path
  <2>1. PICK k \in 1 .. 6 : y = x[k]
    BY <1>1 DEF ToSet
  <2>2. k \in 0 .. 6
    OBVIOUS
  <2>3. QED
    BY <1>12, <1>13, <2>1, <2>2
<1>16. \A r \in ToSet(of[6]) : r \in X
  <2>1. of[6] \in Seq(X)
    BY <1>12
  <2> DEFINE u == of[6]
  <2> HIDE DEF u
  <2>2. u \in Seq(X) => \A r \in ToSet(u) : r \in X
    BY DEF ToSet
  <2>3. QED
    BY <2>1, <2>2 DEF u
<1>17. \A r \in ToSet(of[6]) : \E p \in UsedBy(d) : r = Record(was, p) \/ r = Record(fs, p)
    BY <1>16 DEF X
<1>18. QED
    BY <1>2, <1>14, <1>15, <1>17 DEF x
(* The digests that were bound are those of the files before the run.      *)
LEMMA BoundBefore ==
    ASSUME NEW d, Executables(d) # {}, DOMAIN d.natives \subseteq Nat, \A p \in DOMAIN Read(d) : "is" \in DOMAIN Read(d)[p],
           NEW ref, NEW most, Bound(d, ref, most)
    PROVE  Own(Before(d), ref.path) /\ Before(d)[ref.path].sha = ref.sha
<1> DEFINE fs == Read(d)
           made == Made(d)
           was == Before(d)
           p == ref.path
<1>1. p \in DOMAIN fs /\ Canonical(p) /\ Linked(fs, p) = {} /\ fs[p].is = "file" /\ fs[p].links = 1 /\ fs[p].sha = ref.sha
    BY DEF Bound, Own, IsFile, Plain
<1>2. fs[Native(d)].is = "file" /\ Native(d) \in DOMAIN fs
  <2>1. Executables(d) \in SUBSET Nat
    BY DEF Executables
  <2>2. Min(Executables(d)) \in Executables(d)
    BY <2>1, LeastOf
  <2>3. Own(fs, Native(d))
    BY <2>2 DEF Executables, Native
  <2>4. QED
    BY <2>3 DEF Own, IsFile, Plain
<1>3. \A q \in DOMAIN made : made[q].is # "link"
  <2> DEFINE dir == [is |-> "dir", size |-> 0, sha |-> "", id |-> 1, links |-> 1, run |-> FALSE, elf |-> FALSE]
             file == [dir EXCEPT !.is = "file"]
             of(q) == d.native.artifacts[CHOOSE i \in DOMAIN d.native.artifacts : FilesOf(d)[i] = q]
             copy == [fs[Native(d)] EXCEPT !.id = 1]
             left(q) == [file EXCEPT !.size = of(q).bytes, !.sha = of(q).sha]
             places == {Destination(d), WorkCopy(d)} \cup ToSet(FilesOf(d))
  <2>1. made = [q \in places |-> CASE q = Destination(d) -> dir [] q = WorkCopy(d) -> copy [] OTHER -> left(q)]
    BY DEF Made
  <2>2. dir.is = "dir" /\ \A q : left(q).is = "file"
    <3> HIDE DEF of
    <3>1. dir.is = "dir" /\ file.is = "file" /\ DOMAIN file = {"is", "size", "sha", "id", "links", "run", "elf"}
        OBVIOUS
    <3> HIDE DEF file
    <3>2. QED
        BY <3>1
  <2>3. copy.is = "file"
    <3> DEFINE f == fs[Native(d)]
    <3>1. "is" \in DOMAIN f /\ f.is = "file"
        BY <1>2
    <3> HIDE DEF f
    <3>2. [f EXCEPT !.id = 1].is = "file"
        BY <3>1
    <3>3. QED
        BY <3>2 DEF f
  <2> HIDE DEF made, dir, left, copy, places
  <2>4. ASSUME NEW q \in places PROVE made[q] = dir \/ made[q] = copy \/ made[q] = left(q)
    <3>1. CASE q = Destination(d)
        BY <2>1, <3>1
    <3>2. CASE q # Destination(d) /\ q = WorkCopy(d)
        BY <2>1, <3>2
    <3>3. CASE q # Destination(d) /\ q # WorkCopy(d)
        BY <2>1, <3>3
    <3>4. QED
        BY <3>1, <3>2, <3>3
  <2>5. DOMAIN made = places
    BY <2>1
  <2>6. QED
    BY <2>2, <2>3, <2>4, <2>5
<1>4. was = Over(fs, made)
    BY DEF Before
<1> HIDE DEF fs, made, was, p
<1>5. /\ DOMAIN was = DOMAIN fs \cup DOMAIN made /\ \A q \in DOMAIN fs : was[q] = fs[q]
      /\ \A q \in DOMAIN made : q \notin DOMAIN fs => was[q] = made[q]
  <2>1. /\ DOMAIN Over(fs, made) = DOMAIN fs \cup DOMAIN made /\ \A q \in DOMAIN fs : Over(fs, made)[q] = fs[q]
        /\ \A q \in DOMAIN made : q \notin DOMAIN fs => Over(fs, made)[q] = made[q]
    BY Joined
  <2>2. QED
    BY <1>4, <2>1
<1>6. Linked(was, p) = {}
  <2> SUFFICES ASSUME NEW q \in Linked(was, p) PROVE FALSE
    OBVIOUS
  <2>1. q \in Steps(p) /\ q \in DOMAIN was /\ was[q].is = "link"
    BY DEF Linked
  <2>2. CASE q \in DOMAIN fs
    <3>1. q \in Linked(fs, p)
        BY <1>5, <2>1, <2>2 DEF Linked
    <3>2. QED
        BY <1>1, <3>1
  <2>3. CASE q \notin DOMAIN fs
    BY <1>3, <1>5, <2>1, <2>3
  <2>4. QED
    BY <2>2, <2>3
<1>7. p \in DOMAIN was /\ was[p] = fs[p]
    BY <1>1, <1>5
<1>8. Own(was, p) /\ was[p].sha = ref.sha
    BY <1>1, <1>6, <1>7 DEF Own, IsFile, Plain
<1>9. QED
    BY <1>8 DEF was, p

(* A verdict of the ngspice PDK provider that the host accepts is the      *)
(* simulator's, of the asked analysis, which is the one of the deck's one  *)
(* control block; each file that the run used is one of its inputs, with   *)
(* the content that it had before the run and has after it, and those that *)
(* the request and the configuration name by digest had that digest        *)
(* (invoke of ngspice_pdk_control.py, and validate_provider_result).       *)
THEOREM OwnVerdictStands ==
    ASSUME NEW d, IsReport(d.native), DOMAIN d.natives \subseteq Nat,
           DOMAIN ControlDeck(d) = 1 .. Len(ControlDeck(d)), Len(ControlDeck(d)) \in Nat,
           \A p \in DOMAIN Read(d) : "is" \in DOMAIN Read(d)[p],
           Accepts(d, Answer(d, After(d)), After(d)), Conclusive(Answer(d, After(d)))
    PROVE  Launched(d) /\ OwnVerdict(d, Answer(d, After(d)))
<1> DEFINE fs   == After(d)
           was  == Before(d)
           a    == Answer(d, fs)
           deck == ControlDeck(d)
           card == ControlBlock(deck).card
           x    == Normalized(d.request.parameters.analysis)
<1>1. /\ Launched(d) /\ KeepsItsFiles(d, was, fs) /\ KeepsTarget(d, was) /\ KeepsConfig(d, was, fs) /\ KeepsDirs(d, was, fs)
      /\ a.status = d.native.status /\ a.inputs = Inputs(d, was, fs)
      /\ \/ a.analysis.counts = d.native.counts
         \/ \E i \in DOMAIN d.native.captures :
              LET c == d.native.captures[i] IN Shows(c, x) /\ c.counts = a.analysis.counts
  <2> DEFINE gs == After(d)
  <2>1. Conclusive(Answer(d, gs))
    OBVIOUS
  <2> HIDE DEF gs
  <2>2. LET b == Answer(d, gs)
            earlier == Before(d)
        IN /\ Launched(d) /\ KeepsItsFiles(d, earlier, gs) /\ KeepsTarget(d, earlier) /\ KeepsConfig(d, earlier, gs) /\ KeepsDirs(d, earlier, gs)
           /\ b.status = d.native.status /\ b.inputs = Inputs(d, earlier, gs)
           /\ \/ b.analysis.counts = d.native.counts
              \/ \E i \in DOMAIN d.native.captures :
                   LET c == d.native.captures[i] IN Shows(c, Normalized(d.request.parameters.analysis)) /\ c.counts = b.analysis.counts
    BY <2>1, VerdictOfRun
  <2>3. QED
    BY <2>2 DEF gs
<1>2. \A r \in ToSet(a.inputs) \cup ToSet(a.artifacts) : Verifies(fs, r)
    BY DEF Accepts, FilesVerify
<1>3. /\ Bound(d, d.request.target.locator, MaxTarget) /\ ControlFits(deck) /\ SameAnalysis(x, AnalysisOf(card))
      /\ Bound(d, RoleLocator(d.request, "simulator-configuration"), MaxConfig)
      /\ Bound(d, RoleLocator(d.request, "pdk"), MaxConfig) /\ ConfigFits(d)
    BY <1>1 DEF Launched, Refusal
<1>4. Executables(d) # {} /\ Bound(d, Config(d).init, MaxTarget) /\ Bound(d, Config(d).system, MaxTarget)
    BY <1>3 DEF ConfigFits
<1>5. OneBlock(deck, card)
    BY <1>3, DeckIsOneBlock
<1>6. \A ref \in Digests(d) : Own(was, ref.path) /\ was[ref.path].sha = ref.sha
    BY <1>3, <1>4, BoundBefore DEF Digests
<1>7. \A y \in ToSet(Rechecked(d)) : Fits(fs, y[1], y[2]) /\ Unmoved(was, fs, y[1])
    BY <1>1 DEF KeepsConfig
<1> HIDE DEF fs, was, a, deck, card, x
<1>8. /\ \A p \in ToSet(Opened(d)) : Record(was, p) \in ToSet(a.inputs)
      /\ \A y \in ToSet(Rechecked(d)) : \E r \in ToSet(a.inputs) : r.path = Record(fs, y[1]).path
      /\ \A r \in ToSet(a.inputs) : \E p \in UsedBy(d) : r = Record(was, p) \/ r = Record(fs, p)
    BY <1>1, <1>7, InputsName
<1>9. \A p \in UsedBy(d) : Same(Record(fs, p), Record(was, p))
    BY <1>1, <1>7 DEF UsedBy, KeepsItsFiles, Unmoved
<1>10. ASSUME NEW p \in UsedBy(d)
       PROVE  \E r \in ToSet(a.inputs) :
                 /\ r.path \in {Target(was, p), Target(fs, p)} /\ r.exists = Record(was, p).exists
                 /\ r.exists => r.bytes = Record(was, p).bytes /\ r.sha = Record(was, p).sha
  <2>1. \A gs : Record(gs, p).path = Target(gs, p)
    BY DEF Record
  <2>2. CASE p \in ToSet(Opened(d))
    BY <1>8, <2>1, <2>2
  <2>3. CASE \E y \in ToSet(Rechecked(d)) : p = y[1]
    <3>1. PICK r \in ToSet(a.inputs) : r.path = Target(fs, p)
        BY <1>8, <2>1, <2>3
    <3>2. Verifies(fs, r)
        BY <1>2, <3>1
    <3>3. r.exists \in BOOLEAN
        <4>1. PICK q \in UsedBy(d) : r = Record(was, q) \/ r = Record(fs, q)
            BY <1>8, <3>1
        <4>2. \A gs : Record(gs, q).exists \in BOOLEAN
            BY DEF Record
        <4>3. QED
            BY <4>1, <4>2
    <3> DEFINE t == Target(fs, p)
    <3>4. r.exists = Holds(fs, p) /\ (r.exists => fs[t].size = r.bytes /\ fs[t].sha = r.sha)
        BY <3>1, <3>2, <3>3 DEF Verifies, Holds
    <3>5. r.exists = Record(fs, p).exists /\ (r.exists => r.bytes = Record(fs, p).bytes /\ r.sha = Record(fs, p).sha)
        <4>1. CASE Holds(fs, p)
            <5>1. Record(fs, p) = [path |-> t, exists |-> TRUE, bytes |-> fs[t].size, sha |-> fs[t].sha]
                BY <4>1 DEF Record
            <5>2. r.exists = TRUE /\ r.bytes = fs[t].size /\ r.sha = fs[t].sha
                BY <3>3, <3>4, <4>1
            <5>3. Record(fs, p).exists = TRUE /\ Record(fs, p).bytes = fs[t].size /\ Record(fs, p).sha = fs[t].sha
                BY <5>1
            <5> HIDE DEF t
            <5>4. QED
                BY <5>2, <5>3
        <4>2. CASE ~Holds(fs, p)
            <5>1. Record(fs, p) = [path |-> t, exists |-> FALSE, bytes |-> 0, sha |-> ""]
                BY <4>2 DEF Record
            <5>2. r.exists = FALSE
                BY <3>3, <3>4, <4>2
            <5> DEFINE none == ""
            <5> HIDE DEF none
            <5>3. Record(fs, p).exists = FALSE
                <6>1. Record(fs, p) = [path |-> t, exists |-> FALSE, bytes |-> 0, sha |-> none]
                    BY <5>1 DEF none
                <6>2. QED
                    BY <6>1
            <5>4. QED
                BY <5>2, <5>3
        <4>3. QED
            BY <4>1, <4>2
    <3>6. QED
        BY <1>9, <3>1, <3>5 DEF Same
  <2>4. QED
    BY <2>2, <2>3 DEF UsedBy
<1>11. OwnVerdict(d, a)
    BY <1>1, <1>3, <1>5, <1>6, <1>9, <1>10 DEF OwnVerdict, fs, was, deck, card, x
<1>12. QED
    BY <1>1, <1>11 DEF a, fs
-----------------------------------------------------------------------------
(* What the driver gave to the profile.                                    *)
IsNative(n) ==
    /\ {"status", "artifacts", "diagnostics"} \subseteq DOMAIN n /\ "analysis" \notin DOMAIN n /\ "evidence" \notin DOMAIN n
    /\ n.status \in {"pass", "fail", "unknown"} /\ DOMAIN n.captures \subseteq Nat
    /\ \A i \in DOMAIN n.artifacts : "role" \in DOMAIN n.artifacts[i]

(* A call without an issue met none of the troubles.                       *)
LEMMA NoTrouble ==
    ASSUME NEW call, NEW deck, Issue(call, deck) = "none"
    PROVE  /\ ~(call.inspects = "another" /\ call.digest = "none")
           /\ ~TooLong(deck) /\ OfKind(deck, "include") = {} /\ OfKind(deck, "unsupported") = {} /\ ~Unparsed(deck)
           /\ SameAnalysis(Asked(call, deck), Declared(deck)) /\ Asked(call, deck).type \in call.features
<1> DEFINE early == Troubles(call, deck)
           late  == LateTroubles(call, deck)
<1>1. DOMAIN early = 1 .. 10 /\ \A k \in 1 .. 10 : early[k][2] # "none"
  <2>1. \A k \in 1 .. 10 : k = 1 \/ k = 2 \/ k = 3 \/ k = 4 \/ k = 5 \/ k = 6 \/ k = 7 \/ k = 8 \/ k = 9 \/ k = 10
    OBVIOUS
  <2>2. QED
    BY <2>1 DEF Troubles
<1>2. DOMAIN late = 1 .. 2 /\ \A k \in 1 .. 2 : late[k][2] # "none"
  <2>1. \A k \in 1 .. 2 : k = 1 \/ k = 2
    OBVIOUS
  <2>2. QED
    BY <2>1 DEF LateTroubles
<1>3. Met(early) \in SUBSET Nat /\ Met(late) \in SUBSET Nat
  <2> HIDE DEF early, late
  <2>1. QED
    BY <1>1, <1>2 DEF Met
<1>4. Met(early) = {}
  <2> SUFFICES ASSUME Met(early) # {} PROVE FALSE
    OBVIOUS
  <2>1. Issue(call, deck) = early[Min(Met(early))][2]
    BY DEF Issue
  <2> HIDE DEF early
  <2>2. Min(Met(early)) \in Met(early)
    BY <1>3, LeastOf
  <2>3. Min(Met(early)) \in 1 .. 10
    BY <1>1, <2>2 DEF Met
  <2>4. QED
    BY <1>1, <2>1, <2>3
<1>5. Met(late) = {}
  <2> SUFFICES ASSUME Met(late) # {} PROVE FALSE
    OBVIOUS
  <2>1. Issue(call, deck) = late[Min(Met(late))][2]
    BY <1>4 DEF Issue
  <2> HIDE DEF early, late
  <2>2. Min(Met(late)) \in Met(late)
    BY <1>3, LeastOf
  <2>3. Min(Met(late)) \in 1 .. 2
    BY <1>2, <2>2 DEF Met
  <2>4. QED
    BY <1>2, <2>1, <2>3
<1>6. (\A k \in 1 .. 10 : ~early[k][1]) /\ (\A k \in 1 .. 2 : ~late[k][1])
  <2> HIDE DEF early, late
  <2>1. QED
    BY <1>1, <1>2, <1>4, <1>5 DEF Met
<1>7. ~early[2][1] /\ ~early[7][1] /\ ~early[8][1] /\ ~early[9][1] /\ ~early[10][1] /\ ~late[1][1] /\ ~late[2][1]
  <2> HIDE DEF early, late
  <2>1. QED
    BY <1>6
<1>8. QED
    BY <1>7 DEF Troubles, LateTroubles

(* The analyses that are called the same have as many points.              *)
LEMMA SamePoints ==
    ASSUME NEW a, NEW b, b.type \in Kinds, SameAnalysis(a, b)
    PROVE  Points(a) = Points(b)
<1>1. a.type = b.type
    BY DEF SameAnalysis
<1>2. CASE b.type = "op"
    BY <1>1, <1>2 DEF Points
<1>3. CASE b.type = "dc"
  <2>1. \A f \in {"start", "stop", "step"} : a[f] = b[f]
    BY <1>1, <1>3 DEF SameAnalysis, Numeric
  <2>2. a.start = b.start /\ a.stop = b.stop /\ a.step = b.step
    BY <2>1
  <2>3. QED
    BY <1>1, <1>3, <2>2 DEF Points
<1>4. CASE b.type = "ac"
  <2>1. a.sweep = b.sweep /\ \A f \in {"points", "start_hz", "stop_hz"} : a[f] = b[f]
    BY <1>1, <1>4 DEF SameAnalysis, Numeric
  <2>2. a.sweep = b.sweep /\ a.points = b.points /\ a.start_hz = b.start_hz /\ a.stop_hz = b.stop_hz
    BY <2>1
  <2>3. \A i : Reaches(a, i) = Reaches(b, i)
    BY <2>2 DEF Reaches
  <2>4. {i \in 0 .. PointLimit : Reaches(a, i)} = {i \in 0 .. PointLimit : Reaches(b, i)}
    BY <2>3
  <2>5. QED
    BY <1>1, <1>4, <2>2, <2>4 DEF Points
<1>5. CASE b.type = "tran"
  <2>1. /\ a.step_s = b.step_s /\ a.stop_s = b.stop_s /\ StartOf(a) = StartOf(b)
        /\ ("max_step_s" \in DOMAIN a) = ("max_step_s" \in DOMAIN b)
        /\ "max_step_s" \in DOMAIN a => a.max_step_s = b.max_step_s
    BY <1>1, <1>5 DEF SameAnalysis
  <2>2. StepOf(a) = StepOf(b)
    BY <2>1 DEF StepOf
  <2>3. QED
    BY <1>1, <1>5, <2>1, <2>2 DEF Points
<1>6. QED
    BY <1>2, <1>3, <1>4, <1>5 DEF Kinds

(* Whatever the call and its decks, a call of the shared profile that is   *)
(* launched runs the one analysis of the inspected deck, the asked one and *)
(* within the limit, and is bound to what was inspected                    *)
(* (simulate_circuit_profile and inspect_simulation_deck).                 *)
THEOREM LaunchesAreBound ==
    ASSUME NEW call, call.inspects \in {"source", "another"}, Inspected(call).sha # "none",
           DOMAIN Inspected(call).lines = 1 .. Len(Inspected(call).lines), Len(Inspected(call).lines) \in Nat
    PROVE  LaunchIsBound(call)
<1> DEFINE deck  == Inspected(call)
           asked == Asked(call, deck)
           read  == {i \in 2 .. Len(deck.lines) : deck.lines[i].is # "comment"}
           given == OfKind(deck, "analysis")
<1> SUFFICES ASSUME Issue(call, deck) = "none"
             PROVE  /\ \A i \in DOMAIN deck.lines : ~deck.lines[i].long
                    /\ \A i \in read : deck.lines[i].is \notin {"include", "unsupported"}
                    /\ \E i \in read :
                         /\ \A j \in read : deck.lines[j].is = "analysis" <=> j = i
                         /\ LET card == deck.lines[i].card IN
                            Parses(card) /\ SameAnalysis(asked, AnalysisOf(card)) /\ Points(asked) = Points(AnalysisOf(card))
                    /\ asked.type \in call.features /\ Points(asked) <= PointLimit
                    /\ LaunchDigest(call) # "none" /\ LaunchDigest(call) \in {deck.sha, call.digest}
    BY DEF LaunchIsBound
<1>1. /\ ~(call.inspects = "another" /\ call.digest = "none")
      /\ ~TooLong(deck) /\ OfKind(deck, "include") = {} /\ OfKind(deck, "unsupported") = {} /\ ~Unparsed(deck)
      /\ SameAnalysis(asked, Declared(deck)) /\ asked.type \in call.features
  <2> HIDE DEF deck
  <2>1. QED
    BY NoTrouble
<1>2. LaunchDigest(call) # "none" /\ LaunchDigest(call) \in {deck.sha, call.digest}
    BY <1>1 DEF LaunchDigest, Inspected
<1> HIDE DEF deck
<1>3. DOMAIN deck.lines = 1 .. Len(deck.lines) /\ Len(deck.lines) \in Nat
    BY DEF deck
<1>4. \A i \in DOMAIN deck.lines : ~deck.lines[i].long
    BY <1>1 DEF TooLong
<1>5. Looked(deck) = read
  <2>1. \A i \in 2 .. Len(deck.lines) : i \in DOMAIN deck.lines
    BY <1>3
  <2>2. QED
    BY <1>4, <2>1 DEF Looked
<1>6. \A i \in read : deck.lines[i].is \notin {"include", "unsupported"}
    BY <1>1, <1>5 DEF OfKind
<1>7. PICK i : given = {i}
  <2>1. Cardinality(given) = 1
    BY <1>1 DEF Unparsed
  <2>2. IsFiniteSet(2 .. Len(deck.lines)) /\ given \subseteq 2 .. Len(deck.lines)
    <3>1. given \subseteq 2 .. Len(deck.lines)
        BY <1>5 DEF OfKind
    <3>2. QED
        BY <1>3, <3>1, FS_Interval
  <2>3. IsFiniteSet(given)
    BY <2>2, FS_Subset
  <2> HIDE DEF given
  <2>4. QED
    BY <2>1, <2>3, FS_Singleton
<1> DEFINE card == deck.lines[i].card
<1>8. i \in read /\ \A j \in read : deck.lines[j].is = "analysis" <=> j = i
    BY <1>5, <1>7 DEF OfKind
<1>9. Parses(card)
    BY <1>1, <1>7 DEF Unparsed
<1>10. Declared(deck) = AnalysisOf(card)
  <2>1. (CHOOSE j \in given : TRUE) = i
    BY <1>7
  <2>2. QED
    BY <2>1 DEF Declared
<1>11. AnalysisOf(card).type \in Kinds
    BY <1>9 DEF Parses, CardFits, AnalysisOf, Kinds, Dc, Ac, Tran
<1> HIDE DEF asked, card
<1>12. Points(asked) = Points(AnalysisOf(card)) /\ SameAnalysis(asked, AnalysisOf(card))
    BY <1>1, <1>10, <1>11, SamePoints
<1>13. Points(asked) <= PointLimit
    BY <1>9, <1>12 DEF Parses, Bounded
<1>14. QED
    BY <1>1, <1>2, <1>4, <1>6, <1>8, <1>9, <1>12, <1>13 DEF card

(* The fields of the profile's result.                                     *)
LEMMA ResultOf ==
    ASSUME NEW n, IsNative(n), NEW protocol, NEW x
    PROVE  LET a      == Decorate(n, protocol, x)
               counts == CountsFor(n, x)
               void   == Answered(n) /\ counts = <<>>
               status == IF void THEN "unknown" ELSE n.status
           IN /\ a.status = status /\ a.artifacts = Roled(n.artifacts) /\ a.diagnostics = Diagnosed(Said(n, void), status)
              /\ a.analysis.counts = counts /\ a.analysis.completion = Completion[status]
              /\ a.evidence.binding = IF n.stable /\ counts # <<>> THEN "exact" ELSE "not-established"
              /\ a.evidence.freshness = Freshness(n) /\ a.evidence.structure = Structure(n, counts)
<1> DEFINE a == Decorate(n, protocol, x)
           counts == CountsFor(n, x)
           void == Answered(n) /\ counts = <<>>
           status == IF void THEN "unknown" ELSE n.status
           roled == Roled(n.artifacts)
           said == Diagnosed(Said(n, void), status)
           judged == [n EXCEPT !.status = status, !.artifacts = roled, !.diagnostics = said]
           binding == IF n.stable /\ counts # <<>> THEN "exact" ELSE "not-established"
           completion == Completion[status]
           freshness == Freshness(n)
           structure == Structure(n, counts)
           analysis == [type |-> x.type, completion |-> completion, convergence |-> Convergence[status], counts |-> counts]
           evidence == [binding |-> binding, freshness |-> freshness, structure |-> structure,
                        roles |-> RolesIn(n.artifacts), provenance |-> IF n.stable THEN "bounded" ELSE "incomplete"]
           shared == [operation |-> "simulate", protocol |-> protocol, analysis |-> analysis, evidence |-> evidence]
<1>1. a = Over(judged, shared)
    BY DEF Decorate
<1> HIDE DEF a, void, status, roled, said, counts, binding, completion, freshness, structure
<1>2. analysis.counts = counts /\ analysis.completion = completion
    OBVIOUS
<1>3. evidence.binding = binding /\ evidence.freshness = freshness /\ evidence.structure = structure
    OBVIOUS
<1> HIDE DEF analysis, evidence
<1>4. DOMAIN judged = DOMAIN n /\ judged.status = status /\ judged.artifacts = roled /\ judged.diagnostics = said
    BY DEF IsNative
<1>5. "analysis" \in DOMAIN shared /\ "evidence" \in DOMAIN shared /\ shared.analysis = analysis /\ shared.evidence = evidence
    OBVIOUS
<1> HIDE DEF judged, shared
<1>6. /\ \A f \in DOMAIN judged : Over(judged, shared)[f] = judged[f]
      /\ \A f \in DOMAIN shared : f \notin DOMAIN judged => Over(judged, shared)[f] = shared[f]
    BY Joined, ZenonT(20)
<1>7. a.status = status /\ a.artifacts = roled /\ a.diagnostics = said /\ a.analysis = analysis /\ a.evidence = evidence
    BY <1>1, <1>4, <1>5, <1>6 DEF IsNative
<1>8. QED
    BY <1>2, <1>3, <1>7 DEF a, counts, void, status, roled, said, binding, completion, freshness, structure

(* The counts of a verdict.                                                *)
LEMMA CountsOf ==
    ASSUME NEW n, IsNative(n), NEW x, CountsFor(n, x) # <<>>
    PROVE  /\ Answered(n) /\ Positive(CountsFor(n, x))
           /\ CountsFor(n, x) = n.counts \/ \E i \in DOMAIN n.captures :
                /\ Shows(n.captures[i], x) /\ n.captures[i].counts = CountsFor(n, x)
                /\ \A j \in DOMAIN n.captures : Shows(n.captures[j], x) => i <= j
<1> DEFINE shown == {i \in DOMAIN n.captures : Shows(n.captures[i], x)}
           counts == CountsFor(n, x)
<1>1. Answered(n)
    BY DEF CountsFor
<1>2. CASE Positive(n.counts)
  <2>1. counts = n.counts
    BY <1>1, <1>2 DEF CountsFor
  <2>2. QED
    BY <1>1, <1>2, <2>1
<1>3. CASE ~Positive(n.counts)
  <2>1. counts = IF shown = {} THEN <<>> ELSE n.captures[Min(shown)].counts
    BY <1>1, <1>3 DEF CountsFor
  <2>2. shown # {} /\ counts = n.captures[Min(shown)].counts
    BY <2>1
  <2>3. shown \in SUBSET Nat
    BY DEF IsNative
  <2>4. Min(shown) \in shown /\ \A j \in shown : Min(shown) <= j
    <3> HIDE DEF shown
    <3>1. QED
        BY <2>2, <2>3, LeastOf
  <2> DEFINE i == Min(shown)
  <2> HIDE DEF counts, i
  <2>5. i \in DOMAIN n.captures /\ Shows(n.captures[i], x) /\ n.captures[i].counts = counts
    BY <2>2, <2>4 DEF i
  <2>6. \A j \in DOMAIN n.captures : Shows(n.captures[j], x) => i <= j
    BY <2>4 DEF i
  <2>7. Positive(counts)
    BY <2>5 DEF Shows
  <2>8. QED
    BY <1>1, <2>5, <2>6, <2>7 DEF counts
<1>4. QED
    BY <1>2, <1>3

(* Evidence is called fresh only if nothing of it is torn.                 *)
LEMMA FreshOf ==
    ASSUME NEW n, Freshness(n) = "fresh"
    PROVE  /\ n.stable /\ n.log \notin Torn /\ \A i \in DOMAIN n.captures : n.captures[i].status \notin Torn
           /\ \E i \in DOMAIN n.artifacts : n.artifacts[i].kind \in DOMAIN RoleOf
<1>1. Statuses(n) \cap Torn = {} /\ n.stable /\ RolesIn(n.artifacts) # {}
    BY DEF Freshness
<1>2. n.log \in Statuses(n) /\ \A i \in DOMAIN n.captures : n.captures[i].status \in Statuses(n)
    BY DEF Statuses
<1>3. \E i \in DOMAIN n.artifacts : n.artifacts[i].kind \in DOMAIN RoleOf
    BY <1>1 DEF RolesIn
<1>4. QED
    BY <1>1, <1>2, <1>3

(* Whatever the driver found, the profile's result is founded: a verdict is*)
(* the driver's and is of the asked analysis, its absence is explained, and*)
(* evidence is exact and fresh only of a stable run with no torn file      *)
(* (decorate_circuit_simulation_result).                                   *)
THEOREM AnswersAreFounded ==
    ASSUME NEW native, IsNative(native), NEW protocol, NEW x
    PROVE  AnswerIsFounded(native, protocol, x)
<1> DEFINE found  == Decorate(native, protocol, x)
           counts == CountsFor(native, x)
           void   == Answered(native) /\ counts = <<>>
           status == IF void THEN "unknown" ELSE native.status
           malformed == [severity |-> "error", code |-> "simulation.result.malformed"]
<1>1. /\ found.status = status /\ found.artifacts = Roled(native.artifacts)
      /\ found.diagnostics = Diagnosed(Said(native, void), status)
      /\ found.analysis.counts = counts /\ found.analysis.completion = Completion[status]
      /\ found.evidence.binding = IF native.stable /\ counts # <<>> THEN "exact" ELSE "not-established"
      /\ found.evidence.freshness = Freshness(native) /\ found.evidence.structure = Structure(native, counts)
    BY ResultOf
<1>2. counts # <<>> =>
        /\ Answered(native) /\ Positive(counts)
        /\ counts = native.counts \/ \E i \in DOMAIN native.captures :
             /\ Shows(native.captures[i], x) /\ native.captures[i].counts = counts
             /\ \A j \in DOMAIN native.captures : Shows(native.captures[j], x) => i <= j
    BY CountsOf
<1>3. native.status \in {"pass", "fail", "unknown"}
    BY DEF IsNative
<1> HIDE DEF found, counts
<1>4. /\ Answered(found) <=> counts # <<>>
      /\ Answered(found) => found.status = native.status /\ status = native.status
      /\ ~Answered(found) => status = "unknown"
    BY <1>1, <1>2, <1>3 DEF Answered
<1>5. Answered(found) => found.analysis.completion \in {"completed", "terminal-failure"}
  <2>1. Answered(found) => status \in {"pass", "fail"}
    BY <1>1 DEF Answered
  <2> HIDE DEF status
  <2>2. QED
    BY <1>1, <2>1 DEF Completion
<1>6. ~Answered(found) => found.analysis.completion = "unproven" /\ found.evidence.structure # "valid"
  <2>1. ~Answered(found) => Structure(native, counts) # "valid"
    BY <1>4 DEF Structure
  <2>2. Completion["unknown"] = "unproven"
    BY DEF Completion
  <2>3. QED
    BY <1>1, <1>4, <2>1, <2>2
<1>7. void => malformed \in Said(native, void)
    BY DEF Said
<1> HIDE DEF malformed
<1>8. found.diagnostics = Said(native, void) \/ (Said(native, void) = {} /\ found.diagnostics # {})
    BY <1>1 DEF Diagnosed
<1>9. ~Answered(found) => found.diagnostics # {} /\ (Answered(native) => malformed \in found.diagnostics)
  <2>1. ~Answered(found) => found.diagnostics # {}
    BY <1>1, <1>4 DEF Diagnosed
  <2>2. ~Answered(found) /\ Answered(native) => void
    BY <1>4
  <2>3. QED
    BY <1>7, <1>8, <2>1, <2>2
<1>10. \A d \in native.diagnostics : \E e \in found.diagnostics : e.severity = d.severity /\ e.code = CodeOf(d)
  <2> SUFFICES ASSUME NEW d \in native.diagnostics
               PROVE  \E e \in found.diagnostics : e.severity = d.severity /\ e.code = CodeOf(d)
    OBVIOUS
  <2> DEFINE e == [severity |-> d.severity, code |-> CodeOf(d)]
  <2>1. e \in Said(native, void)
    BY DEF Said
  <2>2. e \in found.diagnostics
    BY <1>8, <2>1
  <2>3. e.severity = d.severity /\ e.code = CodeOf(d)
    OBVIOUS
  <2>4. QED
    BY <2>2, <2>3
<1>11. /\ DOMAIN found.artifacts = DOMAIN native.artifacts
       /\ \A i \in DOMAIN native.artifacts : found.artifacts[i] = [native.artifacts[i] EXCEPT !.role = found.artifacts[i].role]
  <2>1. DOMAIN found.artifacts = DOMAIN native.artifacts
    BY <1>1 DEF Roled
  <2> SUFFICES ASSUME NEW i \in DOMAIN native.artifacts
               PROVE  found.artifacts[i] = [native.artifacts[i] EXCEPT !.role = found.artifacts[i].role]
    BY <2>1
  <2> DEFINE own  == native.artifacts[i]
             role == IF own.kind \in DOMAIN RoleOf THEN RoleOf[own.kind] ELSE own.role
  <2>2. found.artifacts[i] = [own EXCEPT !.role = role]
    BY <1>1 DEF Roled
  <2>3. "role" \in DOMAIN own
    BY DEF IsNative
  <2> HIDE DEF own, role
  <2>4. [own EXCEPT !.role = role].role = role
    BY <2>3
  <2>5. found.artifacts[i] = [own EXCEPT !.role = found.artifacts[i].role]
    BY <2>2, <2>4
  <2>6. QED
    BY <2>5 DEF own
<1>12. found.evidence.binding = "exact" => native.stable /\ Answered(found)
    BY <1>1, <1>4
<1>13. found.evidence.freshness = "fresh" =>
         /\ native.stable /\ native.log \notin Torn /\ \A i \in DOMAIN native.captures : native.captures[i].status \notin Torn
         /\ \E i \in DOMAIN native.artifacts : native.artifacts[i].kind \in DOMAIN RoleOf
    BY <1>1, FreshOf
<1>14. QED
    BY <1>1, <1>2, <1>4, <1>5, <1>6, <1>9, <1>10, <1>11, <1>12, <1>13 DEF AnswerIsFounded, found, malformed
=============================================================================
