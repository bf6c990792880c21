----------------------------- MODULE BoundedRun -----------------------------
(***************************************************************************)
(* What a driver relies on when it calls run_process: an answer that is    *)
(* either a refusal that started nothing, a completion that accounts for   *)
(* every byte written, or a timeout that left the command's group dead.    *)
(* There are no threads here and no partial state: the answer is one step. *)
(***************************************************************************)
EXTENDS Integers

CONSTANTS Streams, NoExit, ExitCodes, Refusals

VARIABLES
    phase,    \* "called", "running" or "returned"
    alive,    \* some process of the command's group is alive
    open,     \* the streams some process can still write
    written,  \* bytes written to each stream
    exited,   \* the leader's exit code
    faulty,   \* streams the machine failed to read
    reply,    \* status of the answer
    code,     \* exit code of the answer
    count     \* byte counts of the answer

env    == <<alive, open, written, exited, faulty>>
answer == <<reply, code, count>>
vars   == <<phase, env, answer>>

Init ==
    /\ phase = "called" /\ reply = "none" /\ code = NoExit /\ exited = NoExit
    /\ alive = FALSE /\ open = {} /\ faulty = {}
    /\ written = [s \in Streams |-> 0] /\ count = [s \in Streams |-> 0]

Refuse ==
    /\ phase = "called" /\ phase' = "returned"
    /\ reply' \in Refusals
    /\ UNCHANGED <<env, code, count>>

Start ==
    /\ phase = "called" /\ phase' = "running"
    /\ alive' = TRUE /\ open' = Streams
    /\ UNCHANGED <<written, exited, faulty, answer>>

(* A dead group, a closed stream and an exit code are final.               *)
Run ==
    /\ phase # "called"
    /\ alive' => alive
    /\ open' \subseteq open
    /\ \A s \in Streams :
         written'[s] >= written[s] /\ (s \notin open => written'[s] = written[s])
    /\ exited' \in ExitCodes \cup {NoExit}
    /\ exited # NoExit => exited' = exited
    /\ faulty \subseteq faulty'
    /\ UNCHANGED <<phase, answer>>

Complete ==
    /\ phase = "running" /\ phase' = "returned"
    /\ exited # NoExit
    /\ open \subseteq faulty
    /\ reply' = "completed" /\ code' = exited
    /\ \A s \in Streams \ faulty : count'[s] = written[s]
    /\ UNCHANGED env

TimeOut ==
    /\ phase = "running" /\ phase' = "returned"
    /\ ~alive
    /\ reply' = "timed_out" /\ code' = NoExit
    /\ UNCHANGED env

Next == Refuse \/ Start \/ Run \/ Complete \/ TimeOut

Spec == Init /\ [][Next]_vars
=============================================================================
