----------------------------- MODULE ProcessRun -----------------------------
(***************************************************************************)
(* One call of run_process (src/src/openada/process.py): the main thread   *)
(* that launches a command, waits for it and reports; the two daemon       *)
(* threads that drain its standard streams; and the processes the command  *)
(* forks, which may keep a pipe open, outlive the command or leave its     *)
(* process group.                                                          *)
(*                                                                         *)
(* A captured byte is its position in the stream, so the retained tail     *)
(* buffer is the interval of positions (lo, hi].                           *)
(***************************************************************************)
EXTENDS ProcessGroup

CONSTANTS
    Limit,     \* capture_limit_bytes
    Block,     \* bytes one stream.read returns unless the stream ends first
    MaxBytes   \* bound: bytes the processes write to one stream

ASSUME SizesAssumption  == Limit \in Nat \ {0} /\ Block \in Nat \ {0}
ASSUME BoundAssumption  == MaxBytes \in Nat

Streams  == {"stdout", "stderr"}
Refusals == {"failed", "not_available"}
Statuses == Refusals \cup {"completed", "timed_out"}

VARIABLES
    written,   \* written[s]: bytes written to stream s
    expired,   \* the deadline started + timeout has passed
    pc,        \* where the main thread is
    status,    \* local and field: status
    exitCode,  \* local and field: exit_code
    reader,    \* reader[s]: "idle", "reading", "counted" (before the append),
               \*   "eof" or "failed" (the swallowed OSError)
    total,     \* total[s]: bytes the reader has counted
    buffer,    \* buffer[s]: retained tail, an interval (lo, hi]
    closed,    \* closed[s]: the parent has closed its read end
    text,      \* field: the decoded tail
    bytes,     \* field: stdout_bytes, stderr_bytes
    truncated  \* field: stdout_truncated, stderr_truncated

processes == <<group, written>>
threads   == <<reader, total, buffer>>
report    == <<text, bytes, truncated>>
vars == <<processes, threads, report, expired, pc, status, exitCode, closed>>

IsAlive(s) == reader[s] \in {"reading", "counted"}
AnyAlive   == \E s \in Streams : IsAlive(s)
Empty      == [lo |-> 0, hi |-> 0]

(***************************************************************************)
(* _append_tail: n more bytes, then only the last Limit bytes are kept.    *)
(***************************************************************************)
AppendTailAlwaysCut(b, n) ==   \* mutation: no "if overflow > 0"
    [lo |-> b.hi + n - Limit, hi |-> b.hi + n]

AppendTail(b, n) ==
    LET hi       == b.hi + n
        overflow == hi - b.lo - Limit
    IN  IF n >= Limit   THEN [lo |-> hi - Limit, hi |-> hi]
        ELSE IF overflow > 0 THEN [lo |-> b.lo + overflow, hi |-> hi]
        ELSE [lo |-> b.lo, hi |-> hi]

Init ==
    /\ NoProcess
    /\ written = [s \in Streams |-> 0]
    /\ expired = FALSE
    /\ pc = "called" /\ status = "completed" /\ exitCode = NoExit
    /\ reader = [s \in Streams |-> "idle"]
    /\ total = [s \in Streams |-> 0]
    /\ buffer = [s \in Streams |-> Empty]
    /\ closed = [s \in Streams |-> FALSE]
    /\ text = [s \in Streams |-> Empty]
    /\ bytes = [s \in Streams |-> 0]
    /\ truncated = [s \in Streams |-> FALSE]

-----------------------------------------------------------------------------
(* The main thread.                                                        *)

(***************************************************************************)
(* A working directory that does not resolve, a timeout or capture limit   *)
(* out of range, an empty argv, or a failed launch: nothing was started.   *)
(***************************************************************************)
Refuse ==
    /\ pc = "called"
    /\ status' \in Refusals
    /\ pc' = "returned"
    /\ UNCHANGED <<processes, threads, report, expired, exitCode, closed>>

Launch ==
    /\ pc = "called"
    /\ pc' = "waiting"
    /\ StartLeader(Streams)
    /\ reader' = [s \in Streams |-> "reading"]
    /\ UNCHANGED <<written, total, buffer, report, expired, status,
                   exitCode, closed>>

(* _terminate.                                                             *)
Terminate == KillGroup /\ UNCHANGED written

WaitReturns ==
    /\ pc = "waiting"
    /\ exited # NoExit
    /\ exitCode' = exited
    /\ pc' = "join"
    /\ UNCHANGED <<processes, threads, report, expired, status, closed>>

(* The leader may also have exited between the last poll and the deadline. *)
WaitTimesOut ==
    /\ pc = "waiting"
    /\ expired
    /\ status' = "timed_out"
    /\ exitCode' = NoExit
    /\ Terminate
    /\ pc' = "join"
    /\ UNCHANGED <<threads, report, expired, closed>>

(***************************************************************************)
(* Both joins share one deadline and a reader that ended stays ended, so   *)
(* the two calls in a row return exactly when this guard holds.            *)
(***************************************************************************)
JoinReaders ==
    /\ pc = "join"
    /\ ~AnyAlive \/ expired
    /\ pc' = "check"
    /\ UNCHANGED <<processes, threads, report, expired, status, exitCode, closed>>

ReadersNotChecked ==   \* mutation: no "any(reader.is_alive() ...)"
    /\ pc = "check"
    /\ pc' = "closeOut"
    /\ UNCHANGED <<processes, threads, report, expired, status, exitCode, closed>>

ReadersEnded ==
    /\ pc = "check"
    /\ ~AnyAlive
    /\ pc' = "closeOut"
    /\ UNCHANGED <<processes, threads, report, expired, status, exitCode, closed>>

ReaderStillAliveNoKill ==   \* mutation: no second _terminate
    /\ pc = "check"
    /\ AnyAlive
    /\ status' = "timed_out"
    /\ exitCode' = NoExit
    /\ pc' = "grace"
    /\ UNCHANGED <<processes, threads, report, expired, closed>>

ReaderStillAlive ==
    /\ pc = "check"
    /\ AnyAlive
    /\ status' = "timed_out"
    /\ exitCode' = NoExit
    /\ Terminate
    /\ pc' = "grace"
    /\ UNCHANGED <<threads, report, expired, closed>>

(* join(timeout=1) returns when the reader ends or the second is over.     *)
GraceJoin ==
    /\ pc = "grace"
    /\ pc' = "closeOut"
    /\ UNCHANGED <<processes, threads, report, expired, status, exitCode, closed>>

(***************************************************************************)
(* A read end is closed only when no reader is left: close takes the lock  *)
(* that a blocked read holds, so closing under a reader would wait for it. *)
(***************************************************************************)
CloseAnyway == TRUE   \* mutation: close without looking at the readers
MayClose    == ~AnyAlive
CloseBlocks(s) == IsAlive(s)

CloseStream(s, here, next) ==
    /\ pc = here
    /\ MayClose => ~CloseBlocks(s)
    /\ closed' = [closed EXCEPT ![s] = MayClose]
    /\ pc' = next
    /\ UNCHANGED <<processes, threads, report, expired, status, exitCode>>

Decode ==
    /\ pc = "decode"
    /\ text' = buffer
    /\ pc' = "sizes"
    /\ UNCHANGED <<processes, threads, bytes, truncated, expired, status,
                   exitCode, closed>>

ReadSizes ==
    /\ pc = "sizes"
    /\ bytes' = total
    /\ pc' = "flags"
    /\ UNCHANGED <<processes, threads, text, truncated, expired, status,
                   exitCode, closed>>

ReadFlagsInclusive ==   \* mutation: total >= len(buffer)
    /\ pc = "flags"
    /\ truncated' = [s \in Streams |-> total[s] >= buffer[s].hi - buffer[s].lo]
    /\ pc' = "returned"
    /\ UNCHANGED <<processes, threads, text, bytes, expired, status, exitCode,
                   closed>>

ReadFlags ==
    /\ pc = "flags"
    /\ truncated' = [s \in Streams |-> total[s] > buffer[s].hi - buffer[s].lo]
    /\ pc' = "returned"
    /\ UNCHANGED <<processes, threads, text, bytes, expired, status, exitCode,
                   closed>>

Main == \/ Refuse \/ Launch \/ WaitReturns \/ WaitTimesOut \/ JoinReaders
        \/ ReadersEnded \/ ReaderStillAlive \/ GraceJoin
        \/ CloseStream("stdout", "closeOut", "closeErr")
        \/ CloseStream("stderr", "closeErr", "decode")
        \/ Decode \/ ReadSizes \/ ReadFlags

-----------------------------------------------------------------------------
(* The reader threads: _drain.                                             *)

(***************************************************************************)
(* A buffered read returns a full block, or what is left once no process   *)
(* has the write end open.  The total is counted before the append.        *)
(***************************************************************************)
CountChunk(s) ==
    /\ reader[s] = "reading"
    /\ LET avail == written[s] - total[s]
       IN  \/ avail >= Block /\ total' = [total EXCEPT ![s] = @ + Block]
           \/ /\ avail \in 1 .. Block - 1 /\ ~HeldOpen(s)
              /\ total' = [total EXCEPT ![s] = @ + avail]
    /\ reader' = [reader EXCEPT ![s] = "counted"]
    /\ UNCHANGED <<processes, buffer, report, expired, pc, status, exitCode, closed>>

AppendChunk(s) ==
    /\ reader[s] = "counted"
    /\ buffer' = [buffer EXCEPT ![s] = AppendTail(@, total[s] - @.hi)]
    /\ reader' = [reader EXCEPT ![s] = "reading"]
    /\ UNCHANGED <<processes, total, report, expired, pc, status, exitCode, closed>>

EndOfStream(s) ==
    /\ reader[s] = "reading"
    /\ written[s] = total[s]
    /\ ~HeldOpen(s)
    /\ reader' = [reader EXCEPT ![s] = "eof"]
    /\ UNCHANGED <<processes, total, buffer, report, expired, pc, status,
                   exitCode, closed>>

ReadFails(s) ==
    /\ reader[s] = "reading"
    /\ reader' = [reader EXCEPT ![s] = "failed"]
    /\ UNCHANGED <<processes, total, buffer, report, expired, pc, status,
                   exitCode, closed>>

Reader(s) == CountChunk(s) \/ AppendChunk(s) \/ EndOfStream(s) \/ ReadFails(s)

-----------------------------------------------------------------------------
(* The environment: the command's processes and the clock.                 *)

WriteByte(p, s) ==
    /\ Live(p) /\ s \in holds[p]
    /\ written[s] < MaxBytes
    /\ written' = [written EXCEPT ![s] = @ + 1]
    /\ UNCHANGED group

Processes ==
    /\ \/ GroupStep(Streams) /\ UNCHANGED written
       \/ \E p \in Procs, s \in Streams : WriteByte(p, s)
    /\ UNCHANGED <<threads, report, expired, pc, status, exitCode, closed>>

Expire ==
    /\ pc # "called" /\ ~expired
    /\ expired' = TRUE
    /\ UNCHANGED <<processes, threads, report, pc, status, exitCode, closed>>

Returned == pc = "returned" /\ UNCHANGED vars

Next == \/ Main
        \/ \E s \in Streams : Reader(s)
        \/ Processes
        \/ Expire
        \/ Returned

(***************************************************************************)
(* The main thread is scheduled, the reader threads are scheduled and time *)
(* passes.  Nothing obliges the command's processes to exit, or a read to  *)
(* fail.                                                                   *)
(***************************************************************************)
Fairness == /\ WF_vars(Main)
            /\ \A s \in Streams :
                 WF_vars(CountChunk(s) \/ AppendChunk(s) \/ EndOfStream(s))
            /\ WF_vars(Expire)

Spec == Init /\ [][Next]_vars /\ Fairness

-----------------------------------------------------------------------------
(* Properties.                                                             *)

Intervals == {b \in [lo : 0 .. MaxBytes, hi : 0 .. MaxBytes] : b.lo <= b.hi}

(* The types of the call's, the threads' and the processes' state.         *)
TypeOK ==
    /\ GroupTypeOK(Streams) /\ exitCode \in ExitCodes \cup {NoExit}
    /\ written \in [Streams -> 0 .. MaxBytes]
    /\ expired \in BOOLEAN
    /\ pc \in {"called", "waiting", "join", "check", "grace", "closeOut",
              "closeErr", "decode", "sizes", "flags", "returned"}
    /\ status \in Statuses
    /\ reader \in [Streams -> {"idle", "reading", "counted", "eof", "failed"}]
    /\ total \in [Streams -> 0 .. MaxBytes] /\ bytes \in [Streams -> 0 .. MaxBytes]
    /\ buffer \in [Streams -> Intervals] /\ text \in [Streams -> Intervals]
    /\ closed \in [Streams -> BOOLEAN] /\ truncated \in [Streams -> BOOLEAN]

Reports(st) == pc = "returned" /\ status = st

(***************************************************************************)
(* A completed result carries the leader's own exit code, and no process,  *)
(* whatever the command forked or detached, can still write to a stream    *)
(* whose reader saw the end of it (run_process, after the joins).          *)
(***************************************************************************)
CompletedIsDrained ==
    Reports("completed") =>
        /\ exited # NoExit /\ exitCode = exited
        /\ \A s \in Streams : ~IsAlive(s) /\ (reader[s] = "eof" => ~HeldOpen(s))

(***************************************************************************)
(* A completed result holds, unless the machine failed to read the stream, *)
(* exactly the last Limit bytes the processes ever wrote, their true count *)
(* and the right truncation flag (_drain, _append_tail, the report).       *)
(***************************************************************************)
CompletedCaptureIsTail ==
    Reports("completed") =>
        \A s \in Streams : reader[s] # "failed" =>
            /\ bytes[s] = written[s] /\ text[s].hi = written[s]
            /\ text[s].lo = IF written[s] > Limit THEN written[s] - Limit ELSE 0
            /\ truncated[s] = (written[s] > Limit)

(***************************************************************************)
(* A timed-out result has no exit code and leaves no process alive in the  *)
(* command's group, on both ways to time out (_terminate).                 *)
(***************************************************************************)
TimedOutGroupIsDead ==
    Reports("timed_out") =>
        /\ exitCode = NoExit
        /\ \A p \in Procs : world[p] # "group"

(***************************************************************************)
(* Whatever a reader still does while the report is built, the text is     *)
(* within the limit and never ahead of the byte count reported with it.    *)
(* Once the parent could close the stream, on a timeout too, the text ends *)
(* at that count and the truncation flag is set exactly when the text does *)
(* not start at the first byte (run_process, from the close to the end).   *)
(***************************************************************************)
ReportIsCoherent ==
    pc = "returned" =>
        \A s \in Streams :
            /\ text[s].hi - text[s].lo <= Limit
            /\ text[s].hi <= bytes[s] /\ bytes[s] <= written[s]
            /\ closed[s] => /\ text[s].hi = bytes[s]
                            /\ truncated[s] = (text[s].lo > 0)

(***************************************************************************)
(* What is reported of a stream is true of it: exact when the call         *)
(* completed, and consistent with itself however the readers are doing.    *)
(***************************************************************************)
ReportIsTrue == CompletedCaptureIsTail /\ ReportIsCoherent

(***************************************************************************)
(* run_process returns, even if a process that escaped the group keeps a   *)
(* pipe open for ever.                                                     *)
(***************************************************************************)
RunReturns == <>(pc = "returned")

(***************************************************************************)
(* The call implements the promise its callers rely on: see BoundedRun.    *)
(***************************************************************************)
Promise == INSTANCE BoundedRun WITH
    phase  <- IF pc \in {"called", "returned"} THEN pc ELSE "running",
    alive  <- \E p \in Procs : world[p] = "group",
    open   <- {s \in Streams : HeldOpen(s)},
    faulty <- {s \in Streams : reader[s] = "failed"},
    reply  <- IF pc # "returned" THEN "none" ELSE status,
    code   <- IF pc # "returned" THEN NoExit ELSE exitCode,
    count  <- IF pc # "returned" THEN [s \in Streams |-> 0] ELSE bytes

KeepsPromise == Promise!Spec
=============================================================================
