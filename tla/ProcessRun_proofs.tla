------------------------- MODULE ProcessRun_proofs -------------------------
(***************************************************************************)
(* Proofs about run_process, for any set of processes, capture limit,      *)
(* block size and amount of output.  Everything follows from one inductive *)
(* invariant, IInv.                                                        *)
(***************************************************************************)
EXTENDS ProcessRun, TLAPS

AfterCheck == {"closeOut", "closeErr", "decode", "sizes", "flags", "returned"}
AfterClose == {"decode", "sizes", "flags", "returned"}

(* Only a live process holds a pipe; the leader never leaves its group and *)
(* its exit code exists exactly when it is dead.                           *)
WorldInv ==
    /\ \A p \in Procs : holds[p] # {} => Live(p)
    /\ world[Leader] # "escaped"
    /\ exited # NoExit <=> world[Leader] = "dead"

(* Before the launch, and after a refusal, there is nothing.               *)
NothingYet ==
    /\ world = [p \in Procs |-> "unborn"] /\ holds = [p \in Procs |-> {}]
    /\ exited = NoExit /\ exitCode = NoExit
    /\ reader = [s \in Streams |-> "idle"]
    /\ written = [s \in Streams |-> 0] /\ total = [s \in Streams |-> 0]
    /\ bytes = [s \in Streams |-> 0]
    /\ buffer = [s \in Streams |-> Empty] /\ text = [s \in Streams |-> Empty]
    /\ closed = [s \in Streams |-> FALSE] /\ truncated = [s \in Streams |-> FALSE]

IdleInv ==
    /\ pc = "called" => NothingYet /\ status = "completed"
    /\ status \in Refusals => pc = "returned" /\ NothingYet
    /\ pc # "called" /\ status \notin Refusals =>
           world[Leader] # "unborn" /\ \A s \in Streams : reader[s] # "idle"

(* A reader has counted what it took, has appended all of it but the chunk *)
(* in hand, and keeps exactly the tail; at the end of the stream there is  *)
(* nothing left and nobody to write more.                                  *)
TailInv ==
    \A s \in Streams :
        /\ buffer[s].hi <= total[s] /\ total[s] <= written[s]
        /\ buffer[s].hi = total[s] <=> reader[s] # "counted"
        /\ buffer[s].lo = IF buffer[s].hi > Limit THEN buffer[s].hi - Limit ELSE 0
        /\ reader[s] = "eof" => ~HeldOpen(s) /\ total[s] = written[s]

(* What the main thread knows at each point.                               *)
StatusInv ==
    /\ pc = "waiting" => status = "completed"
    /\ status = "completed" /\ pc \notin {"called", "waiting"} =>
           exited # NoExit /\ exitCode = exited
    /\ status = "timed_out" =>
           exitCode = NoExit /\ \A p \in Procs : world[p] # "group"
    /\ pc = "grace" => status = "timed_out"
    /\ status = "completed" /\ pc \in AfterCheck => ~AnyAlive

CloseInv ==
    /\ \A s \in Streams : closed[s] => ~AnyAlive
    /\ status = "completed" /\ pc \in AfterClose \cup {"closeErr"} => closed["stdout"]
    /\ status = "completed" /\ pc \in AfterClose => closed["stderr"]

(* The report reads the text, then the totals, then the flags; nothing     *)
(* moves any more under a stream that is closed.                           *)
ReportInv ==
    \A s \in Streams :
        /\ pc \in {"sizes", "flags", "returned"} =>
               /\ text[s].hi - text[s].lo <= Limit
               /\ text[s].hi <= total[s]
               /\ closed[s] => text[s] = buffer[s]
        /\ pc \in {"flags", "returned"} =>
               /\ text[s].hi <= bytes[s] /\ bytes[s] <= total[s]
               /\ closed[s] => bytes[s] = total[s]
        /\ pc = "returned" /\ closed[s] => truncated[s] = (text[s].lo > 0)

IInv == /\ TypeOK /\ WorldInv /\ IdleInv /\ TailInv /\ StatusInv
        /\ CloseInv /\ ReportInv

-----------------------------------------------------------------------------
(* TypeOK is preserved by every action. *)
LEMMA TypeOKStep == IInv /\ [Next]_vars => TypeOK'
<1> SUFFICES ASSUME IInv, [Next]_vars PROVE TypeOK'
  OBVIOUS
<1> USE LeaderAssumption, SizesAssumption, BoundAssumption DEF IInv,
   TypeOK, GroupTypeOK, vars, processes, group, threads, report, NoExit,
   Streams, Intervals, Statuses, Refusals, ExitCodes, Empty
<1>1. CASE Refuse
  BY <1>1 DEF Refuse
<1>2. CASE Launch
  BY <1>2 DEF Launch, StartLeader
<1>3. CASE WaitReturns
  BY <1>3 DEF WaitReturns
<1>4. CASE WaitTimesOut
  BY <1>4 DEF WaitTimesOut, Terminate, KillGroup
<1>5. CASE JoinReaders
  BY <1>5 DEF JoinReaders
<1>6. CASE ReadersEnded
  BY <1>6 DEF ReadersEnded
<1>7. CASE ReaderStillAlive
  BY <1>7 DEF ReaderStillAlive, Terminate, KillGroup
<1>8. CASE GraceJoin
  BY <1>8 DEF GraceJoin
<1>9. CASE CloseStream("stdout", "closeOut", "closeErr")
  BY <1>9 DEF CloseStream, MayClose, CloseBlocks, AnyAlive, IsAlive
<1>10. CASE CloseStream("stderr", "closeErr", "decode")
  BY <1>10 DEF CloseStream, MayClose, CloseBlocks, AnyAlive, IsAlive
<1>11. CASE Decode
  BY <1>11 DEF Decode
<1>12. CASE ReadSizes
  BY <1>12 DEF ReadSizes
<1>13. CASE ReadFlags
  BY <1>13 DEF ReadFlags
<1>14. ASSUME NEW s \in Streams, CountChunk(s) PROVE TypeOK'
  BY <1>14 DEF CountChunk, HeldOpen
<1>15. ASSUME NEW s \in Streams, AppendChunk(s) PROVE TypeOK'
  BY <1>15 DEF AppendChunk, AppendTail, TailInv
<1>16. ASSUME NEW s \in Streams, EndOfStream(s) PROVE TypeOK'
  BY <1>16 DEF EndOfStream, HeldOpen
<1>17. ASSUME NEW s \in Streams, ReadFails(s) PROVE TypeOK'
  BY <1>17 DEF ReadFails
<1>18. CASE Processes
  BY <1>18 DEF Processes, GroupStep, Fork, LeaveGroup, Exit, WriteByte,
     ClosePipe, Live, HeldOpen
<1>19. CASE Expire
  BY <1>19 DEF Expire
<1>20. CASE UNCHANGED vars
  BY <1>20
<1>21. QED
  BY <1>1, <1>2, <1>3, <1>4, <1>5, <1>6, <1>7, <1>8, <1>9, <1>10, <1>11,
     <1>12, <1>13, <1>14, <1>15, <1>16, <1>17, <1>18, <1>19, <1>20 DEF
     Next, Main, Reader, Returned

(* Forks, exits and kills keep WorldInv: before the launch nobody can
   fork. *)
LEMMA WorldInvStep == IInv /\ [Next]_vars => WorldInv'
<1> SUFFICES ASSUME IInv, [Next]_vars PROVE WorldInv'
  OBVIOUS
<1> USE LeaderAssumption, SizesAssumption, BoundAssumption DEF IInv,
   TypeOK, GroupTypeOK, vars, processes, group, threads, report, NoExit,
   Streams, WorldInv, Live, ExitCodes
<1>1. CASE Launch
  BY <1>1 DEF Launch, StartLeader, IdleInv, NothingYet
<1>2. CASE WaitTimesOut
  BY <1>2 DEF WaitTimesOut, Terminate, KillGroup
<1>3. CASE ReaderStillAlive
  BY <1>3 DEF ReaderStillAlive, Terminate, KillGroup
<1>4. CASE Processes
  BY <1>4 DEF Processes, GroupStep, Fork, LeaveGroup, Exit, WriteByte,
     ClosePipe, Live, HeldOpen, IdleInv, NothingYet
<1>5. CASE Refuse \/ WaitReturns \/ JoinReaders \/ ReadersEnded \/
   GraceJoin \/ CloseStream("stdout", "closeOut", "closeErr") \/
   CloseStream("stderr", "closeErr", "decode") \/ Decode \/ ReadSizes \/
   ReadFlags \/ Expire
  BY <1>5 DEF Refuse, WaitReturns, JoinReaders, ReadersEnded, GraceJoin,
     CloseStream, Decode, ReadSizes, ReadFlags, Expire
<1>6. ASSUME NEW s \in Streams, Reader(s) PROVE WorldInv'
  BY <1>6 DEF Reader, CountChunk, AppendChunk, EndOfStream, ReadFails
<1>7. CASE UNCHANGED vars
  BY <1>7
<1>8. QED
  BY <1>1, <1>2, <1>3, <1>4, <1>5, <1>6, <1>7 DEF Next, Main, Reader,
     Returned

(* Only a refusal or the launch leaves the initial situation, and no
   process or thread can disturb it. *)
LEMMA IdleInvStep == IInv /\ [Next]_vars => IdleInv'
<1> SUFFICES ASSUME IInv, [Next]_vars PROVE IdleInv'
  OBVIOUS
<1> USE LeaderAssumption, SizesAssumption, BoundAssumption DEF IInv,
   TypeOK, GroupTypeOK, vars, processes, group, threads, report, NoExit,
   Streams, IdleInv, NothingYet, Refusals, Empty
<1>1. CASE Refuse
  BY <1>1 DEF Refuse
<1>2. CASE Launch
  BY <1>2 DEF Launch, StartLeader
<1>3. CASE WaitReturns
  BY <1>3 DEF WaitReturns
<1>4. CASE WaitTimesOut
  BY <1>4 DEF WaitTimesOut, Terminate, KillGroup
<1>5. CASE JoinReaders
  BY <1>5 DEF JoinReaders
<1>6. CASE ReadersEnded
  BY <1>6 DEF ReadersEnded
<1>7. CASE ReaderStillAlive
  BY <1>7 DEF ReaderStillAlive, Terminate, KillGroup
<1>8. CASE GraceJoin
  BY <1>8 DEF GraceJoin
<1>9. CASE CloseStream("stdout", "closeOut", "closeErr")
  BY <1>9 DEF CloseStream, MayClose, CloseBlocks, AnyAlive, IsAlive
<1>10. CASE CloseStream("stderr", "closeErr", "decode")
  BY <1>10 DEF CloseStream, MayClose, CloseBlocks, AnyAlive, IsAlive
<1>11. CASE Decode
  BY <1>11 DEF Decode
<1>12. CASE ReadSizes
  BY <1>12 DEF ReadSizes
<1>13. CASE ReadFlags
  BY <1>13 DEF ReadFlags
<1>14. ASSUME NEW s \in Streams, CountChunk(s) PROVE IdleInv'
  BY <1>14 DEF CountChunk, HeldOpen
<1>15. ASSUME NEW s \in Streams, AppendChunk(s) PROVE IdleInv'
  BY <1>15 DEF AppendChunk
<1>16. ASSUME NEW s \in Streams, EndOfStream(s) PROVE IdleInv'
  BY <1>16 DEF EndOfStream, HeldOpen
<1>17. ASSUME NEW s \in Streams, ReadFails(s) PROVE IdleInv'
  BY <1>17 DEF ReadFails
<1>18. CASE Processes
  BY <1>18 DEF Processes, GroupStep, Fork, LeaveGroup, Exit, WriteByte,
     ClosePipe, Live, HeldOpen
<1>19. CASE Expire
  BY <1>19 DEF Expire
<1>20. CASE UNCHANGED vars
  BY <1>20
<1>21. QED
  BY <1>1, <1>2, <1>3, <1>4, <1>5, <1>6, <1>7, <1>8, <1>9, <1>10, <1>11,
     <1>12, <1>13, <1>14, <1>15, <1>16, <1>17, <1>18, <1>19, <1>20 DEF
     Next, Main, Reader, Returned

(* The readers keep the tail: a chunk is counted, then appended, and the
   end of a stream is final. *)
LEMMA TailInvStep == IInv /\ [Next]_vars => TailInv'
<1> SUFFICES ASSUME IInv, [Next]_vars PROVE TailInv'
  OBVIOUS
<1> USE LeaderAssumption, SizesAssumption, BoundAssumption DEF IInv,
   TypeOK, GroupTypeOK, vars, processes, group, threads, report, NoExit,
   Streams, TailInv, IsAlive, HeldOpen, Live, WorldInv, Empty
<1>1. CASE Launch
  BY <1>1 DEF Launch, StartLeader, IdleInv, NothingYet
<1>2. CASE WaitTimesOut
  BY <1>2 DEF WaitTimesOut, Terminate, KillGroup
<1>3. CASE ReaderStillAlive
  BY <1>3 DEF ReaderStillAlive, Terminate, KillGroup
<1>4. ASSUME NEW s \in Streams, CountChunk(s) PROVE TailInv'
  BY <1>4 DEF CountChunk, Intervals, HeldOpen
<1>5. ASSUME NEW s \in Streams, AppendChunk(s) PROVE TailInv'
  BY <1>5 DEF AppendChunk, AppendTail, Intervals
<1>6. ASSUME NEW s \in Streams, EndOfStream(s) PROVE TailInv'
  BY <1>6 DEF EndOfStream, HeldOpen
<1>7. ASSUME NEW s \in Streams, ReadFails(s) PROVE TailInv'
  BY <1>7 DEF ReadFails
<1>8. CASE Processes
  BY <1>8 DEF Processes, GroupStep, Fork, LeaveGroup, Exit, WriteByte,
     ClosePipe, Live, HeldOpen
<1>9. CASE Refuse \/ WaitReturns \/ JoinReaders \/ ReadersEnded \/
   GraceJoin \/ CloseStream("stdout", "closeOut", "closeErr") \/
   CloseStream("stderr", "closeErr", "decode") \/ Decode \/ ReadSizes \/
   ReadFlags \/ Expire
  BY <1>9 DEF Refuse, WaitReturns, JoinReaders, ReadersEnded, GraceJoin,
     CloseStream, Decode, ReadSizes, ReadFlags, Expire
<1>10. CASE UNCHANGED vars
  BY <1>10
<1>11. QED
  BY <1>1, <1>2, <1>3, <1>4, <1>5, <1>6, <1>7, <1>8, <1>9, <1>10 DEF Next,
     Main, Reader, Returned

(* The status and the exit code the main thread holds. *)
LEMMA StatusInvStep == IInv /\ [Next]_vars => StatusInv'
<1> SUFFICES ASSUME IInv, [Next]_vars PROVE StatusInv'
  OBVIOUS
<1> USE LeaderAssumption, SizesAssumption, BoundAssumption DEF IInv,
   TypeOK, GroupTypeOK, vars, processes, group, threads, report, NoExit,
   Streams, StatusInv, AnyAlive, IsAlive, AfterCheck, WorldInv
<1>1. CASE Refuse
  BY <1>1 DEF Refuse, IdleInv, Refusals
<1>2. CASE Launch
  BY <1>2 DEF Launch, StartLeader, IdleInv, NothingYet, Refusals
<1>3. CASE WaitReturns
  BY <1>3 DEF WaitReturns
<1>4. CASE WaitTimesOut
  BY <1>4 DEF WaitTimesOut, Terminate, KillGroup
<1>5. CASE JoinReaders
  BY <1>5 DEF JoinReaders
<1>6. CASE ReadersEnded
  BY <1>6 DEF ReadersEnded
<1>7. CASE ReaderStillAlive
  BY <1>7 DEF ReaderStillAlive, Terminate, KillGroup
<1>8. CASE GraceJoin
  BY <1>8 DEF GraceJoin
<1>9. CASE CloseStream("stdout", "closeOut", "closeErr")
  BY <1>9 DEF CloseStream, MayClose, CloseBlocks, AnyAlive, IsAlive
<1>10. CASE CloseStream("stderr", "closeErr", "decode")
  BY <1>10 DEF CloseStream, MayClose, CloseBlocks, AnyAlive, IsAlive
<1>11. CASE Decode
  BY <1>11 DEF Decode
<1>12. CASE ReadSizes
  BY <1>12 DEF ReadSizes
<1>13. CASE ReadFlags
  BY <1>13 DEF ReadFlags
<1>14. ASSUME NEW s \in Streams, CountChunk(s) PROVE StatusInv'
  BY <1>14 DEF CountChunk, HeldOpen
<1>15. ASSUME NEW s \in Streams, AppendChunk(s) PROVE StatusInv'
  BY <1>15 DEF AppendChunk
<1>16. ASSUME NEW s \in Streams, EndOfStream(s) PROVE StatusInv'
  BY <1>16 DEF EndOfStream, HeldOpen
<1>17. ASSUME NEW s \in Streams, ReadFails(s) PROVE StatusInv'
  BY <1>17 DEF ReadFails
<1>18. CASE Processes
  BY <1>18 DEF Processes, GroupStep, Fork, LeaveGroup, Exit, WriteByte,
     ClosePipe, Live, HeldOpen, IdleInv, NothingYet
<1>19. CASE Expire
  BY <1>19 DEF Expire
<1>20. CASE UNCHANGED vars
  BY <1>20
<1>21. QED
  BY <1>1, <1>2, <1>3, <1>4, <1>5, <1>6, <1>7, <1>8, <1>9, <1>10, <1>11,
     <1>12, <1>13, <1>14, <1>15, <1>16, <1>17, <1>18, <1>19, <1>20 DEF
     Next, Main, Reader, Returned

(* A stream is closed only when both readers ended. *)
LEMMA CloseInvStep == IInv /\ [Next]_vars => CloseInv'
<1> SUFFICES ASSUME IInv, [Next]_vars PROVE CloseInv'
  OBVIOUS
<1> USE LeaderAssumption, SizesAssumption, BoundAssumption DEF IInv,
   TypeOK, GroupTypeOK, vars, processes, group, threads, report, NoExit,
   Streams, CloseInv, AnyAlive, IsAlive, AfterClose, AfterCheck, StatusInv
<1>1. CASE Refuse
  BY <1>1 DEF Refuse, IdleInv, NothingYet, Refusals
<1>2. CASE Launch
  BY <1>2 DEF Launch, StartLeader, IdleInv, NothingYet, Refusals
<1>3. CASE WaitReturns
  BY <1>3 DEF WaitReturns
<1>4. CASE WaitTimesOut
  BY <1>4 DEF WaitTimesOut, Terminate, KillGroup
<1>5. CASE JoinReaders
  BY <1>5 DEF JoinReaders
<1>6. CASE ReadersEnded
  BY <1>6 DEF ReadersEnded
<1>7. CASE ReaderStillAlive
  BY <1>7 DEF ReaderStillAlive, Terminate, KillGroup
<1>8. CASE GraceJoin
  BY <1>8 DEF GraceJoin
<1>9. CASE CloseStream("stdout", "closeOut", "closeErr")
  BY <1>9 DEF CloseStream, MayClose, CloseBlocks, AnyAlive, IsAlive
<1>10. CASE CloseStream("stderr", "closeErr", "decode")
  BY <1>10 DEF CloseStream, MayClose, CloseBlocks, AnyAlive, IsAlive
<1>11. CASE Decode
  BY <1>11 DEF Decode
<1>12. CASE ReadSizes
  BY <1>12 DEF ReadSizes
<1>13. CASE ReadFlags
  BY <1>13 DEF ReadFlags
<1>14. ASSUME NEW s \in Streams, CountChunk(s) PROVE CloseInv'
  BY <1>14 DEF CountChunk, HeldOpen
<1>15. ASSUME NEW s \in Streams, AppendChunk(s) PROVE CloseInv'
  BY <1>15 DEF AppendChunk
<1>16. ASSUME NEW s \in Streams, EndOfStream(s) PROVE CloseInv'
  BY <1>16 DEF EndOfStream, HeldOpen
<1>17. ASSUME NEW s \in Streams, ReadFails(s) PROVE CloseInv'
  BY <1>17 DEF ReadFails
<1>18. CASE Processes \/ Expire
  BY <1>18 DEF Processes, Expire
<1>19. CASE UNCHANGED vars
  BY <1>19
<1>20. QED
  BY <1>1, <1>2, <1>3, <1>4, <1>5, <1>6, <1>7, <1>8, <1>9, <1>10, <1>11,
     <1>12, <1>13, <1>14, <1>15, <1>16, <1>17, <1>18, <1>19 DEF Next, Main,
     Reader, Returned

(* The report is read in the order text, totals, flags while the readers
   may still run. *)
LEMMA ReportInvStep == IInv /\ [Next]_vars => ReportInv'
<1> SUFFICES ASSUME IInv, [Next]_vars PROVE ReportInv'
  OBVIOUS
<1> USE LeaderAssumption, SizesAssumption, BoundAssumption DEF IInv,
   TypeOK, GroupTypeOK, vars, processes, group, threads, report, NoExit,
   Streams, ReportInv, AnyAlive, IsAlive, TailInv, CloseInv, Empty
<1>1. CASE Refuse
  BY <1>1 DEF Refuse, IdleInv, NothingYet, Refusals
<1>2. CASE Launch
  BY <1>2 DEF Launch, StartLeader, IdleInv, NothingYet
<1>3. CASE WaitReturns
  BY <1>3 DEF WaitReturns
<1>4. CASE WaitTimesOut
  BY <1>4 DEF WaitTimesOut, Terminate, KillGroup
<1>5. CASE JoinReaders
  BY <1>5 DEF JoinReaders
<1>6. CASE ReadersEnded
  BY <1>6 DEF ReadersEnded
<1>7. CASE ReaderStillAlive
  BY <1>7 DEF ReaderStillAlive, Terminate, KillGroup
<1>8. CASE GraceJoin
  BY <1>8 DEF GraceJoin
<1>9. CASE CloseStream("stdout", "closeOut", "closeErr")
  BY <1>9 DEF CloseStream, MayClose, CloseBlocks, AnyAlive, IsAlive
<1>10. CASE CloseStream("stderr", "closeErr", "decode")
  BY <1>10 DEF CloseStream, MayClose, CloseBlocks, AnyAlive, IsAlive
<1>11. CASE Decode
  BY <1>11 DEF Decode, Intervals
<1>12. CASE ReadSizes
  BY <1>12 DEF ReadSizes
<1>13. CASE ReadFlags
  BY <1>13 DEF ReadFlags
<1>14. ASSUME NEW s \in Streams, CountChunk(s) PROVE ReportInv'
  BY <1>14 DEF CountChunk, Intervals, HeldOpen
<1>15. ASSUME NEW s \in Streams, AppendChunk(s) PROVE ReportInv'
  BY <1>15 DEF AppendChunk, AppendTail, Intervals
<1>16. ASSUME NEW s \in Streams, EndOfStream(s) PROVE ReportInv'
  BY <1>16 DEF EndOfStream, HeldOpen
<1>17. ASSUME NEW s \in Streams, ReadFails(s) PROVE ReportInv'
  BY <1>17 DEF ReadFails
<1>18. CASE Processes \/ Expire
  BY <1>18 DEF Processes, Expire
<1>19. CASE UNCHANGED vars
  BY <1>19
<1>20. QED
  BY <1>1, <1>2, <1>3, <1>4, <1>5, <1>6, <1>7, <1>8, <1>9, <1>10, <1>11,
     <1>12, <1>13, <1>14, <1>15, <1>16, <1>17, <1>18, <1>19 DEF Next, Main,
     Reader, Returned

(* The invariant holds before the call has done anything.                  *)
LEMMA InitIInv == Init => IInv
<1> SUFFICES ASSUME Init PROVE IInv
  OBVIOUS
<1> USE LeaderAssumption, SizesAssumption, BoundAssumption
    DEF Init, NoProcess, Streams, Empty, NoExit, Refusals
<1>1. TypeOK
  <2>1. [lo |-> 0, hi |-> 0] \in Intervals /\ 0 \in 0 .. MaxBytes
    BY DEF Intervals
  <2>2. QED
    BY <2>1 DEF TypeOK, GroupTypeOK, Statuses, ExitCodes
<1>2. WorldInv /\ IdleInv
  BY DEF WorldInv, IdleInv, NothingYet, Live
<1>3. TailInv
  BY DEF TailInv, HeldOpen
<1>4. StatusInv /\ CloseInv /\ ReportInv
  BY DEF StatusInv, CloseInv, ReportInv, AnyAlive, IsAlive, AfterCheck, AfterClose
<1>5. QED
  BY <1>1, <1>2, <1>3, <1>4 DEF IInv

(* IInv is an invariant of run_process. *)
THEOREM Invariance == Spec => []IInv
<1>1. IInv /\ [Next]_vars => IInv'
  BY TypeOKStep, WorldInvStep, IdleInvStep, TailInvStep, StatusInvStep,
     CloseInvStep, ReportInvStep DEF IInv
<1>2. QED
  BY InitIInv, <1>1, PTL DEF Spec

(* Every variable of run_process keeps its type. *)
THEOREM TypeCorrect == Spec => []TypeOK
<1>1. IInv => TypeOK
  BY DEF IInv
<1>2. QED
  BY Invariance, <1>1, PTL

(* What the invariant says of a completed report is the drained one.       *)
LEMMA DrainedInIInv == IInv => CompletedIsDrained
  BY DEF IInv, CompletedIsDrained, Reports, StatusInv, TailInv, AfterCheck,
         AnyAlive

(* A completed result comes from a dead leader and from streams nobody can *)
(* write any more. *)
THEOREM CompletedDrained == Spec => []CompletedIsDrained
  BY Invariance, DrainedInIInv, PTL

(* A drained stream and the tail invariant give the exact tail.            *)
LEMMA CaptureInIInv == IInv => CompletedCaptureIsTail
<1>1. ASSUME IInv, Reports("completed"), NEW s \in Streams, reader[s] # "failed"
      PROVE  /\ bytes[s] = written[s] /\ text[s].hi = written[s]
             /\ text[s].lo = IF written[s] > Limit THEN written[s] - Limit ELSE 0
             /\ truncated[s] = (written[s] > Limit)
  <2>1. pc = "returned" /\ status = "completed" /\ ~IsAlive(s)
    BY <1>1 DEF IInv, Reports, StatusInv, AfterCheck, AnyAlive
  <2>2. closed[s]
    BY <1>1, <2>1 DEF IInv, CloseInv, AfterClose, Streams
  <2>3. reader[s] = "eof"
    BY <1>1, <2>1 DEF IInv, TypeOK, IdleInv, IsAlive, Refusals
  <2>4. total[s] = written[s] /\ buffer[s].hi = total[s]
    BY <1>1, <2>3 DEF IInv, TailInv
  <2>5. text[s] = buffer[s] /\ bytes[s] = total[s]
        /\ truncated[s] = (text[s].lo > 0)
    BY <1>1, <2>1, <2>2 DEF IInv, ReportInv
  <2>6. buffer[s].lo = IF written[s] > Limit THEN written[s] - Limit ELSE 0
    BY <1>1, <2>4 DEF IInv, TailInv
  <2>7. Limit \in Nat /\ written[s] \in Nat
    BY <1>1, SizesAssumption, BoundAssumption DEF IInv, TypeOK
  <2>8. QED
    BY <2>4, <2>5, <2>6, <2>7
<1>2. QED
  BY <1>1 DEF CompletedCaptureIsTail

(* A completed result is exactly the tail of everything that was written. *)
THEOREM CaptureCorrect == Spec => []CompletedCaptureIsTail
  BY Invariance, CaptureInIInv, PTL

(* A timeout leaves no process of the group alive. *)
THEOREM TimeoutKillsGroup == Spec => []TimedOutGroupIsDead
<1>1. IInv => TimedOutGroupIsDead
  BY DEF IInv, TimedOutGroupIsDead, Reports, StatusInv
<1>2. QED
  BY Invariance, <1>1, PTL

(* The three fields reported for a stream agree with each other. *)
THEOREM ReportCorrect == Spec => []ReportIsCoherent
<1>1. ASSUME IInv, pc = "returned", NEW s \in Streams
      PROVE  /\ text[s].hi - text[s].lo <= Limit
             /\ text[s].hi <= bytes[s] /\ bytes[s] <= written[s]
             /\ closed[s] => /\ text[s].hi = bytes[s]
                             /\ truncated[s] = (text[s].lo > 0)
  <2>1. bytes[s] <= total[s] /\ total[s] <= written[s]
        /\ bytes[s] \in Int /\ total[s] \in Int /\ written[s] \in Int
    BY <1>1, BoundAssumption DEF IInv, TypeOK, ReportInv, TailInv
  <2>2. closed[s] => buffer[s].hi = total[s]
    BY <1>1 DEF IInv, CloseInv, AnyAlive, IsAlive, TailInv
  <2>3. QED
    BY <1>1, <2>1, <2>2 DEF IInv, ReportInv
<1>2. IInv => ReportIsCoherent
  BY <1>1 DEF ReportIsCoherent
<1>3. QED
  BY Invariance, <1>2, PTL

(* The report of a stream is true of it, on every way out of the call.     *)
THEOREM ReportTrue == Spec => []ReportIsTrue
  BY CaptureCorrect, ReportCorrect, PTL DEF ReportIsTrue

-----------------------------------------------------------------------------
(***************************************************************************)
(* run_process implements the promise of BoundedRun.                       *)
(***************************************************************************)
LEMMA InitPromise == Init => Promise!Init
  BY LeaderAssumption
  DEF Init, NoProcess, Promise!Init, Streams, NoExit, HeldOpen

(* What the processes do on their own, or what a kill does to them, the    *)
(* promise allows at any time: nothing dead, closed or exited comes back.  *)
LEMMA WorldMoves ==
    ASSUME IInv, pc # "called", Processes \/ Terminate,
           UNCHANGED <<reader, bytes>>, pc' \notin {"called", "returned"} \/ pc' = pc,
           pc = "returned" => pc' = pc /\ UNCHANGED <<status, exitCode>>
    PROVE  Promise!Run
<1> USE LeaderAssumption, BoundAssumption DEF IInv, TypeOK, GroupTypeOK, processes, group, Streams
<1>1. (\E p \in Procs : world'[p] = "group") => \E p \in Procs : world[p] = "group"
  BY DEF Processes, Terminate, KillGroup, GroupStep, WriteByte, Fork, LeaveGroup, Exit, ClosePipe, Live
<1>2. {s \in Streams : HeldOpen(s)}' \subseteq {s \in Streams : HeldOpen(s)}
  BY DEF Processes, Terminate, KillGroup, GroupStep, WriteByte, Fork, LeaveGroup, Exit, ClosePipe, HeldOpen
<1>3. \A s \in Streams : /\ written'[s] >= written[s]
                         /\ ~HeldOpen(s) => written'[s] = written[s]
  BY DEF Processes, Terminate, KillGroup, GroupStep, WriteByte, Fork, LeaveGroup, Exit, ClosePipe, HeldOpen
<1>4. exited' \in ExitCodes \cup {NoExit} /\ (exited # NoExit => exited' = exited)
  BY DEF Processes, Terminate, KillGroup, GroupStep, WriteByte, Fork, LeaveGroup, Exit, ClosePipe, Live,
         WorldInv, ExitCodes, NoExit
<1>5. QED
  BY <1>1, <1>2, <1>3, <1>4 DEF Promise!Run, Promise!answer

(* Every step of the call is a step of the promise, or a stutter.          *)
LEMMA StepPromise == IInv /\ IInv' /\ [Next]_vars => [Promise!Next]_(Promise!vars)
<1> SUFFICES ASSUME IInv, IInv', [Next]_vars PROVE [Promise!Next]_(Promise!vars)
  OBVIOUS
<1> USE DEF vars, processes, group, threads, report, Promise!vars, Promise!env, Promise!answer
<1>1. CASE Refuse
  BY <1>1 DEF Refuse, Promise!Next, Promise!Refuse, HeldOpen, IInv, IdleInv,
              NothingYet, NoExit, Streams
<1>2. CASE Launch
  <2>1. (\E p \in Procs : world'[p] = "group") /\ {s \in Streams : HeldOpen(s)}' = Streams
    BY <1>2, LeaderAssumption DEF Launch, StartLeader, HeldOpen, IInv, TypeOK, GroupTypeOK
  <2>2. {s \in Streams : reader[s] = "failed"}' = {s \in Streams : reader[s] = "failed"}
    BY <1>2 DEF Launch, IInv, IdleInv, NothingYet
  <2>3. QED
    BY <1>2, <2>1, <2>2 DEF Launch, StartLeader, Promise!Next, Promise!Start
<1>3. CASE \/ WaitReturns \/ JoinReaders \/ ReadersEnded \/ GraceJoin
           \/ CloseStream("stdout", "closeOut", "closeErr")
           \/ CloseStream("stderr", "closeErr", "decode")
           \/ Decode \/ ReadSizes
  BY <1>3 DEF WaitReturns, JoinReaders, ReadersEnded, GraceJoin, CloseStream,
              Decode, ReadSizes, HeldOpen
<1>4. CASE WaitTimesOut \/ ReaderStillAlive
  BY <1>4, WorldMoves DEF WaitTimesOut, ReaderStillAlive, Promise!Next
<1>5. CASE ReadFlags
  <2>1. CASE status = "completed"
    <3>0. CompletedIsDrained' /\ CompletedCaptureIsTail'
      BY DrainedInIInv, CaptureInIInv, PTL
    <3>1. Reports("completed")' /\ CompletedIsDrained' /\ CompletedCaptureIsTail'
      BY <1>5, <2>1, <3>0 DEF ReadFlags, Reports
    <3>2. \A s \in Streams : /\ reader[s] # "failed" => bytes[s] = written[s]
                             /\ HeldOpen(s) => reader[s] = "failed"
      BY <3>1, <1>5 DEF ReadFlags, CompletedCaptureIsTail, CompletedIsDrained,
                        IsAlive, IInv, IdleInv, TypeOK, Refusals, HeldOpen
    <3>3. exited # NoExit /\ exitCode = exited
      BY <3>1, <1>5 DEF ReadFlags, CompletedIsDrained
    <3>4. QED
      BY <1>5, <2>1, <3>2, <3>3 DEF ReadFlags, Promise!Next, Promise!Complete, HeldOpen
  <2>2. CASE status # "completed"
    <3>1. status = "timed_out"
      BY <1>5, <2>2 DEF ReadFlags, IInv, IdleInv, TypeOK, Statuses
    <3>2. exitCode = NoExit /\ \A p \in Procs : world[p] # "group"
      BY <3>1 DEF IInv, StatusInv
    <3>3. QED
      BY <1>5, <3>1, <3>2 DEF ReadFlags, Promise!Next, Promise!TimeOut, HeldOpen
  <2>3. QED
    BY <2>1, <2>2
<1>6. ASSUME NEW s \in Streams, CountChunk(s) \/ AppendChunk(s) \/ EndOfStream(s)
      PROVE  UNCHANGED Promise!vars
  BY <1>6 DEF CountChunk, AppendChunk, EndOfStream, HeldOpen, IInv, TypeOK
<1>7. ASSUME NEW s \in Streams, ReadFails(s)
      PROVE  Promise!Run
  BY <1>7, BoundAssumption
  DEF ReadFails, Promise!Run, HeldOpen, IInv, TypeOK, GroupTypeOK, IdleInv,
      NothingYet, Streams
<1>8. CASE Processes
  <2>1. pc # "called"
    BY <1>8 DEF Processes, GroupStep, Fork, LeaveGroup, Exit, ClosePipe,
                WriteByte, Live, IInv, IdleInv, NothingYet
  <2>2. QED
    BY <1>8, <2>1, WorldMoves DEF Processes, Promise!Next
<1>9. CASE Expire \/ UNCHANGED vars
  BY <1>9 DEF Expire, HeldOpen
<1>10. QED
  BY <1>1, <1>2, <1>3, <1>4, <1>5, <1>6, <1>7, <1>8, <1>9
  DEF Next, Main, Reader, Returned, Promise!Next

(* run_process implements BoundedRun: every call is one of its atomic      *)
(* answers, for any command. *)
THEOREM PromiseKept == Spec => KeepsPromise
<1>1. QED
  BY InitPromise, StepPromise, Invariance, PTL DEF Spec, KeepsPromise, Promise!Spec
=============================================================================
