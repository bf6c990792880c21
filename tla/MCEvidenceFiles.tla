--------------------------- MODULE MCEvidenceFiles ---------------------------
(* Who writes evidence and who believes it: calls that publish to one      *)
(* target, two calls of one of the other tools, or the verification of a   *)
(* signed receipt. A behaviour chooses which when it starts; the others    *)
(* have nothing left to do.                                                *)
EXTENDS DirectoryPublish, ToolDriver, EvidenceReceipt, TLC

(* The calls of the tool are interchangeable: no property is temporal.     *)
CallSymmetry == Permutations(Call)

NoPublication ==
    /\ kind = "dir" /\ \E p \in Templates : entries = {p} \X Files
    /\ pc = [p \in Publishers |-> "raised"] /\ wasEmpty = [p \in Publishers |-> FALSE]
    /\ made = [p \in Publishers |-> FALSE] /\ staged = [p \in Publishers |-> {}]
NoTool ==
    /\ tool = "lint" /\ input = [f \in File |-> 1] /\ binary = 1
    /\ disk = [n \in Place |-> Missing] /\ changes = [edit |-> 0, swap |-> 0, tamper |-> 0]
    /\ pos = [c \in Call |-> 1]
    /\ recd = [c \in Call |-> Nothing] /\ probed = [c \in Call |-> 0]
    /\ work = [c \in Call |-> Idle] /\ tested = [c \in Call |-> Missing]
    /\ basis = [c \in Call |-> {}] /\ kept = [c \in Call |-> {}]
    /\ trusted = [c \in Call |-> TRUE] /\ verdict = [c \in Call |-> "unknown"]
NoReceipt ==
    /\ sealed = Chain(1, 1, 1, 1) /\ stored = [p \in Path |-> [body |-> sealed[p], stamp |-> 1]]
    /\ leads = "here" /\ tampering = 0 /\ phase = "refused" /\ todo = <<>>
    /\ known = "none" /\ opened = 0 /\ held = <<>> /\ verified = 0 /\ moment = <<>>

OneInit == \/ Init /\ NoTool /\ NoReceipt
           \/ NoPublication /\ ToolInit /\ NoReceipt
           \/ NoPublication /\ NoTool /\ ReceiptInit
OneNext == \/ Next /\ UNCHANGED <<toolVars, receiptVars>>
           \/ ToolNext /\ UNCHANGED <<vars, receiptVars>>
           \/ ReceiptNext /\ UNCHANGED <<vars, toolVars>>
OneSpec == OneInit /\ [][OneNext]_<<vars, toolVars, receiptVars>>
=============================================================================
