--------------------------- MODULE MCNgspiceDriver ---------------------------
(* Two calls of the driver that share a source and a directory, or two     *)
(* calls of circuit.simulate, which uses it: a behaviour chooses which     *)
(* when it starts; the other calls have returned by then.                  *)
EXTENDS NgspiceDriver, SimulateCall, TLC

(* The calls are interchangeable: no property is a temporal one.           *)
CallSymmetry == Permutations(Calls)

NoDriver ==
    /\ mode = "batch" /\ version = MaxEdits
    /\ files = [f \in Names |-> Nobody] /\ temp = [c \in Calls |-> Nobody]
    /\ pc = [c \in Calls |-> "returned"] /\ recorded = [c \in Calls |-> NotRead]
    /\ script = [c \in Calls |-> Nobody] /\ evidence = [c \in Calls |-> NoEvidence]
    /\ status = [c \in Calls |-> "invalid"]
    /\ ngspice = [c \in Calls |-> "none"] /\ read = [c \in Calls |-> NotRead]
    /\ runs = [c \in Calls |-> Nobody] /\ verdict = [c \in Calls |-> "clean"]
    /\ alone = [c \in Calls |-> TRUE]
NoSimulation ==
    /\ request = [c \in Calls |-> [target |-> "deck", source |-> "none", backend |-> "ngspice",
                                   analyses |-> 1]]
    /\ file = [deck |-> 1, library |-> 1, object |-> 1] /\ spent = 0
    /\ decks = [i \in 1..2 |-> Scribble]
    /\ at = [c \in Calls |-> "load"] /\ taken = [c \in Calls |-> [deck |-> 0, library |-> 0]]
    /\ bound = [c \in Calls |-> 0] /\ held = [c \in Calls |-> Scribble]
    /\ reads = [c \in Calls |-> <<>>] /\ results = [c \in Calls |-> <<>>]
    /\ reply = [c \in Calls |-> [index |-> 0, status |-> "refused"]]

EitherInit == (Init /\ NoSimulation) \/ (NoDriver /\ SimInit)
EitherNext == \/ Next /\ UNCHANGED simVars
              \/ SimNext /\ UNCHANGED vars
EitherSpec == EitherInit /\ [][EitherNext]_<<vars, simVars>>
=============================================================================
