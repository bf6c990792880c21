------------------------- MODULE ProviderInvocation -------------------------
(***************************************************************************)
(* One call of invoke_local_provider (src/src/openada/provider_runtime.py):*)
(* bind the request's inputs, pin the evidence directory and the launch    *)
(* files, run the provider from a private copy of those files with a       *)
(* writer and two reader threads, and accept its result only if nothing it *)
(* was bound to has moved.                                                 *)
(*                                                                         *)
(* Around the call run the provider's processes, which may detach, and an  *)
(* outsider that edits the launch file and the input or swaps the evidence *)
(* directory's parent.  A file is the number of its last edit: an identity *)
(* holds the change time, so no edit restores an earlier identity.  The    *)
(* parent is pinned without times, so a second swap puts it back.          *)
(***************************************************************************)
EXTENDS ProcessGroup

CONSTANTS
    MaxResult,  \* max_result_bytes
    MaxStderr,  \* max_stderr_bytes
    Block,      \* bytes one read returns unless the stream ends first
    MaxBytes,   \* bound: MaxBytes[s] bytes are written to output s
    MaxEdits    \* bound: edits and swaps in all

ASSUME LimitAssumption == MaxResult \in Nat \ {0} /\ MaxStderr \in Nat \ {0}
ASSUME BlockAssumption == Block \in Nat \ {0}
ASSUME BoundAssumption == MaxBytes \in [{"stdout", "stderr"} -> Nat] /\ MaxEdits \in Nat

Outputs == {"stdout", "stderr"}
Pipes   == Outputs \cup {"stdin"}
Files   == {"launch", "input", "parent"}
Maximum == [s \in Outputs |-> IF s = "stdout" THEN MaxResult ELSE MaxStderr]
NoEdit  == -1    \* no identity recorded yet

VARIABLES
    version,    \* version[f]: the last edit of file f
    fits,       \* the request fits in the stdin pipe
    consumed,   \* somebody has read the whole request
    misread,    \* the provider has read an input other than the one bound
    produced,   \* produced[s]: bytes written to output s
    pc,         \* where the calling thread is
    bound,      \* identity of the input in resolved.request_inputs
    pinned,     \* destination_parent_identity
    before,     \* before_identities of the launch file
    snap,       \* the two halves of the private copy, by version
    raised,     \* the timeout error is being raised
    writer,     \* stdin thread: "idle", "writing", "done" or "error"
    reader,     \* reader[s]: "idle", "reading" (in read), "counted" or "ended"
    total,      \* total[s]: bytes counted
    closed,     \* closed[s]: the parent closed its end
    lost,       \* lost[s]: bytes in the pipe when it was closed
    seen,       \* the observation: out, err, write_errors
    outcome     \* "none", "accepted" or the code of the error

provider == <<group, consumed, misread, produced>>
threads  == <<writer, reader, total>>
locals   == <<bound, pinned, before, snap, raised, seen>>
Identity(f) == IF f = "parent" THEN version[f] % 2 ELSE version[f]

vars == <<version, provider, threads, locals, fits, pc, closed, lost,
          outcome>>

Init ==
    /\ NoProcess
    /\ version = [f \in Files |-> 0]
    /\ fits \in BOOLEAN
    /\ consumed = FALSE /\ misread = FALSE
    /\ produced = [s \in Outputs |-> 0]
    /\ pc = "resolve"
    /\ bound = NoEdit /\ pinned = NoEdit /\ before = NoEdit
    /\ snap = <<NoEdit, NoEdit>>
    /\ raised = FALSE
    /\ writer = "idle" /\ reader = [s \in Outputs |-> "idle"]
    /\ total = [s \in Outputs |-> 0]
    /\ closed = [s \in Outputs |-> FALSE] /\ lost = [s \in Outputs |-> 0]
    /\ seen = [out |-> 0, err |-> 0, writeError |-> FALSE]
    /\ outcome = "none"

-----------------------------------------------------------------------------
(* The calling thread.                                                     *)

Fail(code) == pc' = "returned" /\ outcome' = code
Goto(next) == pc' = next /\ UNCHANGED outcome

(***************************************************************************)
(* resolve_local_provider: a manifest, request, profile or selector that   *)
(* does not resolve to one dispatchable transport is refused; otherwise    *)
(* each request input is hashed and its identity kept.                     *)
(***************************************************************************)
Resolve ==
    /\ pc = "resolve"
    /\ \/ Fail("resolution") /\ UNCHANGED bound
       \/ Goto("prepare") /\ bound' = Identity("input")
    /\ UNCHANGED <<version, provider, threads, pinned, before, snap, raised,
                   seen, fits, closed, lost>>

(* The request body's limit, then _prepare_evidence_destination.           *)
Prepare ==
    /\ pc = "prepare"
    /\ \/ /\ \E code \in {"request_over_limit", "destination_exists",
                          "destination_invalid"} : Fail(code)
          /\ UNCHANGED pinned
       \/ Goto("identify") /\ pinned' = Identity("parent")
    /\ UNCHANGED <<version, provider, threads, bound, before, snap, raised,
                   seen, fits, closed, lost>>

(* before_identities: _executable_identity of every launch file.           *)
Identify ==
    /\ pc = "identify"
    /\ before' = Identity("launch")
    /\ Goto("copy")
    /\ UNCHANGED <<version, provider, threads, bound, pinned, snap, raised,
                   seen, fits, closed, lost>>

(* _snapshot_transport_file: open, compare the identity, read the start.   *)
CopyStart ==
    /\ pc = "copy"
    /\ IF Identity("launch") = before
       THEN Goto("copying") /\ snap' = [snap EXCEPT ![1] = version["launch"]]
       ELSE Fail("unavailable") /\ UNCHANGED snap
    /\ UNCHANGED <<version, provider, threads, bound, pinned, before, raised,
                   seen, fits, closed, lost>>

(* Read the rest; the identity must still be the expected one.             *)
CopyRest ==
    /\ pc = "copying"
    /\ snap' = [snap EXCEPT ![2] = version["launch"]]
    /\ pc' = "recheck"
    /\ UNCHANGED <<version, provider, threads, bound, pinned, before, raised,
                   seen, fits, closed, lost, outcome>>

CopyNoRecheck ==   \* mutation: the copy is not compared with its source again
    /\ pc = "recheck" /\ Goto("launch")
    /\ UNCHANGED <<version, provider, threads, locals, fits, closed, lost>>

CopyRecheck ==
    /\ pc = "recheck"
    /\ IF Identity("launch") = before THEN Goto("launch") ELSE Fail("unavailable")
    /\ UNCHANGED <<version, provider, threads, locals, fits, closed, lost>>

Launch ==
    /\ pc = "launch"
    /\ \/ /\ Fail("unavailable")
          /\ UNCHANGED <<group, threads>>
       \/ /\ Goto("waiting")
          /\ StartLeader(Pipes)
          /\ writer' = "writing"
          /\ reader' = [s \in Outputs |-> "reading"]
          /\ UNCHANGED total
    /\ UNCHANGED <<version, consumed, misread, produced, locals, fits,
                   closed, lost>>

(* The leader exited: the whole group is killed all the same.              *)
WaitReturnsNoKill ==   \* mutation: no kill after the parent exits
    /\ pc = "waiting" /\ exited # NoExit
    /\ Goto("joinIn")
    /\ UNCHANGED <<version, provider, threads, locals, fits, closed, lost>>

WaitReturns ==
    /\ pc = "waiting" /\ exited # NoExit
    /\ KillGroup
    /\ Goto("joinIn")
    /\ UNCHANGED <<version, consumed, misread, produced, threads, locals,
                   fits, closed, lost>>

WaitTimesOutNoKill ==   \* mutation: the timeout is raised without a kill
    /\ pc = "waiting"
    /\ raised' = TRUE
    /\ Goto("joinIn")
    /\ UNCHANGED <<version, provider, threads, bound, pinned, before, snap, seen,
                   fits, closed, lost>>

(* The declared timeout may pass at any moment of the wait.                *)
WaitTimesOut ==
    /\ pc = "waiting"
    /\ KillGroup
    /\ raised' = TRUE
    /\ Goto("joinIn")
    /\ UNCHANGED <<version, consumed, misread, produced, threads, bound,
                   pinned, before, snap, seen, fits, closed, lost>>

Readable(s) == produced[s] - total[s] >= Block \/ ~HeldOpen(s)

(***************************************************************************)
(* join(timeout=1.0) gives up on a thread only if it waits for a process:  *)
(* a second is taken to be enough for a thread that has nothing to wait    *)
(* for.                                                                    *)
(***************************************************************************)
WriterStuck == writer = "writing" /\ ~fits /\ ~consumed /\ HeldOpen("stdin")

JoinThread(here, next, over) ==
    /\ pc = here
    /\ over
    /\ Goto(next)
    /\ UNCHANGED <<version, provider, threads, locals, fits, closed, lost>>

JoinWriter    == JoinThread("joinIn", "joinOut",
                            writer \in {"done", "error"} \/ WriterStuck)
ReaderOver(s) == reader[s] = "ended" \/ (reader[s] = "reading" /\ ~Readable(s))
JoinReader    == \/ JoinThread("joinOut", "joinErr", ReaderOver("stdout"))
                 \/ JoinThread("joinErr", "closeOut", ReaderOver("stderr"))

(***************************************************************************)
(* stream.close() takes the lock a read in progress holds: it waits until  *)
(* that read returns.                                                      *)
(***************************************************************************)
CloseStream(s, here, next) ==
    /\ pc = here
    /\ reader[s] # "reading"
    /\ closed' = [closed EXCEPT ![s] = TRUE]
    /\ lost' = [lost EXCEPT ![s] = produced[s] - total[s]]
    /\ Goto(next)
    /\ UNCHANGED <<version, provider, threads, locals, fits>>

CloseStreams == \/ CloseStream("stdout", "closeOut", "closeErr")
                \/ CloseStream("stderr", "closeErr", "verify")

(***************************************************************************)
(* The pending timeout propagates.  Otherwise the private copies, which    *)
(* the provider may have altered, are hashed again and the observation is  *)
(* taken.                                                                  *)
(***************************************************************************)
Verify ==
    /\ pc = "verify"
    /\ \/ raised /\ Fail("timed_out") /\ UNCHANGED seen
       \/ ~raised /\ Fail("identity_changed") /\ UNCHANGED seen
       \/ /\ ~raised /\ Goto("after")
          /\ seen' = [out |-> total["stdout"], err |-> total["stderr"],
                      writeError |-> writer = "error"]
    /\ UNCHANGED <<version, provider, threads, bound, pinned, before, snap,
                   raised, fits, closed, lost>>

(* after_identities, then _check_evidence_destination_parent.              *)
CheckLaunchFiles ==
    /\ pc = "after"
    /\ IF Identity("launch") = before THEN Goto("parent") ELSE Fail("identity_changed")
    /\ UNCHANGED <<version, provider, threads, locals, fits, closed, lost>>

CheckParent ==
    /\ pc = "parent"
    /\ IF Identity("parent") = pinned THEN Goto("classify") ELSE Fail("destination_changed")
    /\ UNCHANGED <<version, provider, threads, locals, fits, closed, lost>>

TransportIssueNoStderr ==   \* mutation: text on stderr is tolerated
    CASE seen.out > MaxResult -> "result_over_limit"
      [] seen.err > MaxStderr -> "stderr_over_limit"
      [] seen.writeError      -> "write_failed"
      [] exited # "zero"      -> "failed"
      [] OTHER                -> "none"

(* The transport's own verdict, in the order the code asks.                *)
TransportIssue ==
    CASE seen.out > MaxResult -> "result_over_limit"
      [] seen.err > MaxStderr -> "stderr_over_limit"
      [] seen.writeError      -> "write_failed"
      [] exited # "zero"      -> "failed"
      [] seen.err > 0         -> "stderr"
      [] OTHER                -> "none"

Classify ==
    /\ pc = "classify"
    /\ IF TransportIssue = "none" THEN Goto("parse") ELSE Fail(TransportIssue)
    /\ UNCHANGED <<version, provider, threads, locals, fits, closed, lost>>

(* _parse_result, the envelope, the data schema and the protocol echoes.   *)
Parse ==
    /\ pc = "parse"
    /\ \/ \E code \in {"result_invalid", "identity_mismatch", "data_invalid"} :
            Fail(code)
       \/ seen.out > 0 /\ Goto("inputs")
    /\ UNCHANGED <<version, provider, threads, locals, fits, closed, lost>>

(***************************************************************************)
(* The evidence policy and _request_snapshot_result_issues: each request   *)
(* input is hashed again and must have the identity bound at resolution.   *)
(***************************************************************************)
CheckEvidenceNoInputs ==   \* mutation: request inputs are not hashed again
    /\ pc = "inputs"
    /\ Fail("evidence_invalid") \/ Goto("files")
    /\ UNCHANGED <<version, provider, threads, locals, fits, closed, lost>>

CheckEvidence ==
    /\ pc = "inputs"
    /\ \/ Fail("evidence_invalid")
       \/ Identity("input") = bound /\ Goto("files")
    /\ UNCHANGED <<version, provider, threads, locals, fits, closed, lost>>

(* result_conformance_issues over the recorded files.                      *)
CheckFiles ==
    /\ pc = "files"
    /\ Fail("file_invalid") \/ Fail("accepted")
    /\ UNCHANGED <<version, provider, threads, locals, fits, closed, lost>>

Main == \/ Resolve \/ Prepare \/ Identify \/ CopyStart \/ CopyRest \/ CopyRecheck
        \/ Launch \/ WaitReturns \/ WaitTimesOut \/ JoinWriter \/ JoinReader
        \/ CloseStreams \/ Verify \/ CheckLaunchFiles \/ CheckParent \/ Classify
        \/ Parse \/ CheckEvidence \/ CheckFiles

-----------------------------------------------------------------------------
(* The three threads.                                                      *)

(* _write_stdin: done once the request is in the pipe, or EPIPE.           *)
WriteStdin ==
    /\ writer = "writing"
    /\ \/ (fits \/ consumed) /\ writer' = "done"
       \/ ~consumed /\ ~HeldOpen("stdin") /\ writer' = "error"
    /\ UNCHANGED <<version, provider, reader, total, locals, fits, pc,
                   closed, lost, outcome>>

ReadChunkWhole(s) ==   \* mutation: a short read counts as a whole block
    /\ reader[s] = "reading" /\ produced[s] > total[s]
    /\ produced[s] - total[s] >= Block \/ ~HeldOpen(s)
    /\ total' = [total EXCEPT ![s] = @ + Block]
    /\ reader' = [reader EXCEPT ![s] = "counted"]
    /\ UNCHANGED <<version, provider, writer, locals, fits, pc, closed,
                   lost, outcome>>

(* _drain_bounded: a read returns a full block, or what is left at the end.*)
ReadChunk(s) ==
    /\ reader[s] = "reading" /\ produced[s] > total[s]
    /\ \/ /\ produced[s] - total[s] >= Block
          /\ total' = [total EXCEPT ![s] = @ + Block]
       \/ /\ produced[s] - total[s] < Block /\ ~HeldOpen(s)
          /\ total' = [total EXCEPT ![s] = produced[s]]
    /\ reader' = [reader EXCEPT ![s] = "counted"]
    /\ UNCHANGED <<version, provider, writer, locals, fits, pc, closed,
                   lost, outcome>>

(* Over the limit: kill the group.  Then read again, unless it was closed. *)
CheckLimit(s) ==
    /\ reader[s] = "counted"
    /\ IF total[s] > Maximum[s] THEN KillGroup ELSE UNCHANGED group
    /\ reader' = [reader EXCEPT ![s] = IF closed[s] THEN "ended" ELSE "reading"]
    /\ UNCHANGED <<version, consumed, misread, produced, writer, total,
                   locals, fits, pc, closed, lost, outcome>>

EndOfStream(s) ==
    /\ reader[s] = "reading"
    /\ produced[s] = total[s] /\ ~HeldOpen(s)
    /\ reader' = [reader EXCEPT ![s] = "ended"]
    /\ UNCHANGED <<version, provider, writer, total, locals, fits, pc,
                   closed, lost, outcome>>

Reader(s) == ReadChunk(s) \/ CheckLimit(s) \/ EndOfStream(s)

-----------------------------------------------------------------------------
(* The provider's processes and the outsider.                              *)

ReadRequest(p) ==
    /\ Live(p) /\ "stdin" \in holds[p] /\ ~consumed
    /\ consumed' = TRUE
    /\ UNCHANGED <<group, misread, produced>>

(* The provider proper reads the input it was given.                       *)
ReadInput ==
    /\ Live(Leader) /\ Identity("input") # bound
    /\ misread' = TRUE
    /\ UNCHANGED <<group, consumed, produced>>

WriteByte(p, s) ==
    /\ Live(p) /\ s \in holds[p] /\ ~closed[s]
    /\ produced[s] < MaxBytes[s]
    /\ produced' = [produced EXCEPT ![s] = @ + 1]
    /\ UNCHANGED <<group, consumed, misread>>

(***************************************************************************)
(* After the observation nothing is shared with the processes but files:   *)
(* their steps end there.                                                  *)
(***************************************************************************)
Observed == pc \in {"after", "parent", "classify", "parse", "inputs", "files", "returned"}

Provider ==
    /\ ~Observed
    /\ \/ GroupStep(Pipes) /\ UNCHANGED <<consumed, misread, produced>>
       \/ \E p \in Procs : ReadRequest(p)
       \/ \E p \in Procs, s \in Outputs : WriteByte(p, s)
       \/ ReadInput
    /\ UNCHANGED <<version, threads, locals, fits, pc, closed, lost, outcome>>

Edits(v) == v["launch"] + v["input"] + v["parent"]

Outsider ==
    /\ pc # "returned" /\ Edits(version) < MaxEdits
    /\ \E f \in Files : version' = [version EXCEPT ![f] = @ + 1]
    /\ UNCHANGED <<provider, threads, locals, fits, pc, closed, lost, outcome>>

Returned == pc = "returned" /\ UNCHANGED vars

Next == \/ Main \/ WriteStdin
        \/ \E s \in Outputs : Reader(s)
        \/ Provider \/ Outsider \/ Returned

(***************************************************************************)
(* The calling thread and its three threads are scheduled and time passes, *)
(* so a wait ends by the leader's exit or by the timeout.                  *)
(* Nothing obliges the provider's processes to do anything.                *)
(***************************************************************************)
Fairness == /\ WF_vars(Main) /\ WF_vars(WriteStdin)
            /\ \A s \in Outputs : WF_vars(Reader(s))

Spec == Init /\ [][Next]_vars /\ Fairness

-----------------------------------------------------------------------------
(* Properties.                                                             *)

Numbers == 0 .. MaxEdits
Counts  == {f \in [Outputs -> Nat] : \A s \in Outputs : f[s] <= MaxBytes[s]}

(* The types of the call's, the threads' and the processes' state.         *)
TypeOK ==
    /\ GroupTypeOK(Pipes)
    /\ version \in [Files -> Numbers]
    /\ fits \in BOOLEAN /\ consumed \in BOOLEAN /\ misread \in BOOLEAN
    /\ raised \in BOOLEAN
    /\ produced \in Counts /\ total \in Counts /\ lost \in Counts
    /\ closed \in [Outputs -> BOOLEAN]
    /\ {bound, before, pinned} \subseteq Numbers \cup {NoEdit}
    /\ snap \in (Numbers \cup {NoEdit}) \X (Numbers \cup {NoEdit})
    /\ writer \in {"idle", "writing", "done", "error"}
    /\ reader \in [Outputs -> {"idle", "reading", "counted", "ended"}]
    /\ seen \in [out : Nat, err : Nat, writeError : BOOLEAN]

(***************************************************************************)
(* An accepted result comes from the program that was resolved and the     *)
(* inputs that were bound: the private copy that ran is one untorn version *)
(* of the launch file, and every read the provider made of the input saw   *)
(* the version hashed before the launch, whoever edited the files          *)
(* meanwhile (invoke_local_provider, _snapshot_transport_file,             *)
(* _request_snapshot_result_issues).                                       *)
(***************************************************************************)
AcceptedIsBound ==
    outcome = "accepted" => /\ snap = <<before, before>>
                            /\ ~misread

(***************************************************************************)
(* An accepted result comes from a leader that exited zero, within the     *)
(* limits, and nothing had been written to stderr when the stream was      *)
(* closed, not even bytes the reader had yet to see                        *)
(* (_run_local_provider_transport, the transport checks of                 *)
(* invoke_local_provider).                                                 *)
(***************************************************************************)
AcceptedTransportIsClean ==
    outcome = "accepted" =>
        /\ exited = "zero" /\ ~raised
        /\ seen.out \in 1 .. MaxResult
        /\ seen.err = 0 /\ lost["stderr"] = 0

(***************************************************************************)
(* Whatever the call answers, success or any error, no process of the      *)
(* provider's group is left running ("A provider may not return while      *)
(* leaving inherited descendants alive", _run_local_provider_transport).   *)
(***************************************************************************)
NoGroupOutlivesCall == pc = "returned" => \A p \in Procs : world[p] # "group"

(***************************************************************************)
(* The call returns, provided that from some time on no process outside    *)
(* the group keeps an output pipe open.                                    *)
(***************************************************************************)
DetachedHolder ==
    \E p \in Procs : world[p] = "escaped" /\ holds[p] \cap Outputs # {}

ReturnsUnlessDetached == <>[]~DetachedHolder => <>(pc = "returned")

(***************************************************************************)
(* docs/DRIVER_PROTOCOL.md: "It bounds all three streams and time": the    *)
(* call returns.                                                           *)
(***************************************************************************)
InvocationReturns == <>(pc = "returned")
=============================================================================
