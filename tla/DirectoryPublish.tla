-------------------------- MODULE DirectoryPublish --------------------------
(***************************************************************************)
(* The publication of a directory of files that the testbench compiler,    *)
(* the testbench runner and the experiment template compiler share:        *)
(* write everything into a staging directory beside the target, then       *)
(* rename it over a target that is absent or empty.  Several calls may     *)
(* publish to one target while somebody else creates, fills or removes it, *)
(* any write may fail and any call may be killed.                          *)
(***************************************************************************)
EXTENDS FiniteSets

CONSTANTS
    Publishers,  \* calls that publish to the one target
    Files,       \* the files each of them publishes
    Templates,   \* the publishers that are template compilations
    Outsider     \* whoever else uses the target

ASSUME PublisherAssumption == Templates \subseteq Publishers /\ Outsider \notin Publishers
ASSUME FilesAssumption     == Files # {}

VARIABLES
    kind,      \* the target: "absent", "blocked" (a link or a file) or "dir"
    entries,   \* its entries: <<owner, file>>
    pc,        \* where each publisher is
    wasEmpty,  \* local target_was_empty
    made,      \* made[p]: the staging directory of p exists
    staged     \* staged[p]: the files written into it

target == <<kind, entries>>
staging == <<made, staged>>
vars == <<target, pc, wasEmpty, staging>>

Absent   == kind = "absent"
EmptyDir == kind = "dir" /\ entries = {}

Init ==
    /\ kind \in {"absent", "blocked", "dir"} /\ entries = {}
    /\ pc = [p \in Publishers |-> "check"]
    /\ wasEmpty = [p \in Publishers |-> FALSE]
    /\ made = [p \in Publishers |-> FALSE]
    /\ staged = [p \in Publishers |-> {}]

Goto(p, next) == pc' = [pc EXCEPT ![p] = next]

(***************************************************************************)
(* A file or a directory with entries is refused at once; so is a link,    *)
(* but the template compiler follows one to an empty directory or to       *)
(* nothing.  Making the parent directory may fail.                         *)
(***************************************************************************)
CheckTarget(p) ==
    /\ pc[p] = "check"
    /\ \/ /\ Absent \/ (kind = "blocked" /\ p \in Templates)
          /\ Goto(p, "stage") /\ UNCHANGED wasEmpty
       \/ EmptyDir /\ Goto(p, "stage") /\ wasEmpty' = [wasEmpty EXCEPT ![p] = TRUE]
       \/ Goto(p, "raised") /\ UNCHANGED wasEmpty
    /\ UNCHANGED <<target, staging>>

Unstage(p) == /\ made' = [made EXCEPT ![p] = FALSE]
              /\ staged' = [staged EXCEPT ![p] = {}]

(* tempfile.mkdtemp beside the target, or the call fails.                  *)
MakeStaging(p) ==
    /\ pc[p] = "stage"
    /\ \/ Goto(p, "write") /\ made' = [made EXCEPT ![p] = TRUE]
       \/ Goto(p, "raised") /\ UNCHANGED made
    /\ UNCHANGED <<target, wasEmpty, staged>>

(* open("xb"), write, flush, fsync; any of them may fail.                  *)
WriteFile(p) ==
    /\ pc[p] = "write"
    /\ \/ /\ \E f \in Files \ staged[p] : staged' = [staged EXCEPT ![p] = @ \cup {f}]
          /\ UNCHANGED pc
       \/ Goto(p, "failing") /\ UNCHANGED staged
    /\ UNCHANGED <<target, wasEmpty, made>>

(***************************************************************************)
(* Everything is written.  The testbench publishers recheck a directory    *)
(* that was empty; the template compiler looks at the target again.        *)
(***************************************************************************)
WrittenEarly(p) ==   \* mutation: the receipt is written after the rename
    /\ pc[p] = "write"
    /\ Goto(p, "rename")
    /\ UNCHANGED <<target, wasEmpty, staging>>

Written(p) ==
    /\ pc[p] = "write" /\ staged[p] = Files
    /\ \/ /\ p \notin Templates
          /\ Goto(p, CASE ~wasEmpty[p] -> "rename"
                       [] wasEmpty[p] /\ EmptyDir  -> "rmdir"
                       [] wasEmpty[p] /\ ~EmptyDir -> "failing")
       \/ /\ p \in Templates
          /\ \/ kind # "dir" /\ Goto(p, "rename")
             \/ ~Absent /\ Goto(p, "rmdir")
    /\ UNCHANGED <<target, wasEmpty, staging>>

RemoveTree(p) ==   \* mutation: shutil.rmtree(target) in place of rmdir
    /\ pc[p] = "rmdir"
    /\ kind' = "absent" /\ entries' = {} /\ Goto(p, "rename")
    /\ UNCHANGED <<wasEmpty, staging>>

RemoveUnguarded(p) ==   \* mutation: the name is unlinked, whatever it holds
    /\ pc[p] = "rmdir"
    /\ kind' = "absent" /\ UNCHANGED entries /\ Goto(p, "rename")
    /\ UNCHANGED <<wasEmpty, staging>>

(* target.rmdir fails unless the target is an empty directory.             *)
RemoveEmpty(p) ==
    /\ pc[p] = "rmdir"
    /\ \/ EmptyDir /\ kind' = "absent" /\ UNCHANGED entries /\ Goto(p, "rename")
       \/ ~EmptyDir /\ UNCHANGED target /\ Goto(p, "failing")
    /\ UNCHANGED <<wasEmpty, staging>>

MergeInto(p) ==   \* mutation: the files are moved into an existing directory
    /\ pc[p] = "rename"
    /\ kind' = "dir" /\ entries' = entries \cup {p} \X staged[p]
    /\ Unstage(p)
    /\ Goto(p, "returned")
    /\ UNCHANGED wasEmpty

(***************************************************************************)
(* os.rename of a directory replaces an absent or empty target in one      *)
(* step; over anything else it fails.                                      *)
(***************************************************************************)
Rename(p) ==
    /\ pc[p] = "rename"
    /\ \/ /\ Absent \/ EmptyDir
          /\ kind' = "dir" /\ entries' = {p} \X staged[p]
          /\ Unstage(p)
          /\ Goto(p, "returned")
       \/ /\ ~Absent /\ ~EmptyDir
          /\ Goto(p, "failing")
          /\ UNCHANGED <<target, staging>>
    /\ UNCHANGED wasEmpty

ReraiseOnly(p) ==   \* mutation: no rmtree of the staging directory
    /\ pc[p] = "failing"
    /\ Goto(p, "raised")
    /\ UNCHANGED <<target, wasEmpty, staging>>

(* except BaseException: remove the staging directory and raise again.     *)
CleanUp(p) ==
    /\ pc[p] = "failing"
    /\ Unstage(p)
    /\ Goto(p, "raised")
    /\ UNCHANGED <<target, wasEmpty>>

Step(p) == \/ CheckTarget(p) \/ MakeStaging(p) \/ WriteFile(p) \/ Written(p)
           \/ RemoveEmpty(p) \/ Rename(p) \/ CleanUp(p)

Ended(p) == pc[p] \in {"returned", "raised", "killed"}

Kill(p) == ~Ended(p) /\ Goto(p, "killed") /\ UNCHANGED <<target, wasEmpty, staging>>

-----------------------------------------------------------------------------
(* The outsider makes, fills, empties and removes a directory of its own   *)
(* at the target, or puts a link there.  It leaves a published one alone.  *)

Outside ==
    /\ \A e \in entries : e[1] = Outsider
    /\ \/ Absent /\ kind' \in {"dir", "blocked"} /\ UNCHANGED entries
       \/ kind = "dir" /\ UNCHANGED kind
          /\ \E f \in Files : entries' = entries \cup {<<Outsider, f>>}
       \/ kind = "dir" /\ entries # {} /\ entries' = {} /\ UNCHANGED kind
       \/ ~Absent /\ entries = {} /\ kind' = "absent" /\ UNCHANGED entries
    /\ UNCHANGED <<pc, wasEmpty, staging>>

AllEnded == (\A p \in Publishers : Ended(p)) /\ UNCHANGED vars

Next == \/ \E p \in Publishers : Step(p) \/ Kill(p)
        \/ Outside \/ AllEnded

Spec == Init /\ [][Next]_vars

-----------------------------------------------------------------------------
(* Properties.                                                             *)

(* The types of the state; only a directory has entries.                   *)
TypeOK ==
    /\ kind \in {"absent", "blocked", "dir"}
    /\ entries \subseteq (Publishers \cup {Outsider}) \X Files
    /\ kind # "dir" => entries = {}
    /\ pc \in [Publishers -> {"check", "stage", "write", "rmdir", "rename",
                              "failing", "returned", "raised", "killed"}]
    /\ wasEmpty \in [Publishers -> BOOLEAN]
    /\ made \in [Publishers -> BOOLEAN]
    /\ staged \in [Publishers -> SUBSET Files]

Published(p) == kind = "dir" /\ entries = {p} \X Files

(***************************************************************************)
(* At every moment, whoever was killed in the middle and however the calls *)
(* interleave, the target is nothing, the outsider's own, or exactly one   *)
(* publisher's complete set of files (_publish_compilation,                *)
(* publish_testbench_plan_run, compile_experiment_template).               *)
(***************************************************************************)
TargetIsWhole ==
    \/ \A e \in entries : e[1] = Outsider
    \/ \E p \in Publishers : Published(p)

(***************************************************************************)
(* A call that returned has its files at the target, so two calls never    *)
(* both succeed; one that raised left no staging directory behind.         *)
(***************************************************************************)
OutcomeIsTrue ==
    \A p \in Publishers : /\ pc[p] = "returned" => Published(p)
                          /\ pc[p] = "raised"   => ~made[p]

(***************************************************************************)
(* "Publication is new-file-only" (docs/TESTBENCH_PLANS.md): no publisher's*)
(* step removes or changes an entry that exists, its own or anybody's.     *)
(***************************************************************************)
NothingIsOverwritten ==
    [][(\E p \in Publishers : pc'[p] # pc[p]) => entries \subseteq entries']_vars
=============================================================================
