------------------------ MODULE MCProviderInvocation ------------------------
(* A provider and one process it may fork and detach.                      *)
EXTENDS ProviderInvocation

(* stdout may pass its limit of one byte, stderr may carry one byte.       *)
MCMaxBytes == [s \in {"stdout", "stderr"} |-> IF s = "stdout" THEN 2 ELSE 1]
=============================================================================
