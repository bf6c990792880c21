---------------------------- MODULE ProcessGroup ----------------------------
(***************************************************************************)
(* The processes of one launched command: the leader that Popen started in *)
(* a fresh session and what it forks.  A process inherits the pipes of the *)
(* one that forked it and may close them, leave the process group, or      *)
(* outlive the leader.  The callers (run_process and the local provider    *)
(* transport) reach these processes only through the pipes and by killing  *)
(* the group.                                                              *)
(***************************************************************************)
EXTENDS Integers

CONSTANTS
    Procs,     \* the command's processes: the leader and what it may fork
    Leader     \* the process Popen starts, leader of the fresh session

ASSUME LeaderAssumption == Leader \in Procs

VARIABLES
    world,     \* world[p]: "unborn", in the "group", "escaped" from it or "dead"
    holds,     \* holds[p]: the pipes whose far end p has open
    exited     \* the leader's exit code once it is dead

group == <<world, holds, exited>>

ExitCodes == {"zero", "nonzero", "signalled"}
NoExit    == "none"

Live(p)     == world[p] \in {"group", "escaped"}
HeldOpen(s) == \E p \in Procs : s \in holds[p]

GroupTypeOK(pipes) ==
    /\ world \in [Procs -> {"unborn", "group", "escaped", "dead"}]
    /\ holds \in [Procs -> SUBSET pipes]
    /\ exited \in ExitCodes \cup {NoExit}

NoProcess ==
    /\ world = [p \in Procs |-> "unborn"]
    /\ holds = [p \in Procs |-> {}]
    /\ exited = NoExit

(* subprocess.Popen(..., start_new_session=True).                          *)
StartLeader(pipes) ==
    /\ world' = [world EXCEPT ![Leader] = "group"]
    /\ holds' = [holds EXCEPT ![Leader] = pipes]
    /\ UNCHANGED exited

(***************************************************************************)
(* SIGKILL to every process still in the group.  A process that left the   *)
(* group is out of reach.                                                  *)
(***************************************************************************)
KillGroup ==
    /\ world' = [p \in Procs |-> IF world[p] = "group" THEN "dead" ELSE world[p]]
    /\ holds' = [p \in Procs |-> IF world[p] = "group" THEN {} ELSE holds[p]]
    /\ exited' = IF world[Leader] = "group" THEN "signalled" ELSE exited

Fork(p, q) ==
    /\ Live(p) /\ world[q] = "unborn"
    /\ world' = [world EXCEPT ![q] = world[p]]
    /\ holds' = [holds EXCEPT ![q] = holds[p]]
    /\ UNCHANGED exited

(* setsid or setpgid; a session leader cannot leave its own group.         *)
LeaveGroup(p) ==
    /\ p # Leader /\ world[p] = "group"
    /\ world' = [world EXCEPT ![p] = "escaped"]
    /\ UNCHANGED <<holds, exited>>

ClosePipe(p, s) ==
    /\ Live(p) /\ s \in holds[p]
    /\ holds' = [holds EXCEPT ![p] = @ \ {s}]
    /\ UNCHANGED <<world, exited>>

Exit(p) ==
    /\ Live(p)
    /\ world' = [world EXCEPT ![p] = "dead"]
    /\ holds' = [holds EXCEPT ![p] = {}]
    /\ \/ p = Leader /\ exited' \in {"zero", "nonzero"}
       \/ p # Leader /\ UNCHANGED exited

GroupStep(pipes) ==
    \/ \E p, q \in Procs : Fork(p, q)
    \/ \E p \in Procs : LeaveGroup(p) \/ Exit(p)
    \/ \E p \in Procs, s \in pipes : ClosePipe(p, s)
=============================================================================
