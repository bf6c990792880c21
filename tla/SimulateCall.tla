---------------------------- MODULE SimulateCall ----------------------------
(***************************************************************************)
(* circuit.simulate (operations/simulate.py): from a deck or a published   *)
(* artifact and at most one source of models to what one or two runs of    *)
(* the simulator say. The call composes a deck per analysis, writes it     *)
(* beside its evidence, hands it to the driver with its digest, and        *)
(* returns the weakest of the results.                                     *)
(*                                                                         *)
(* Two calls share the files they are given and the directory of their     *)
(* decks, while somebody edits what they read; an edit is never undone.    *)
(* Version 1 of a file is the published or reviewed one. Of the calls,     *)
(* at most one asks for two analyses, and at most one has compiled objects. *)
(***************************************************************************)
EXTENDS Naturals, Sequences

CONSTANTS Caller, MaxChanges

VARIABLES
    request,  \* target, source and backend of each call
    file,     \* the version of the deck, the model library, the compiled object
    decks,    \* the text of the derived deck of each analysis
    spent,    \* the edits so far
    at,       \* the step each call is at
    taken,    \* the versions of deck and library that the call holds in memory
    bound,    \* the version of the deck that its input record names
    held,     \* the text that the driver recorded when it was entered
    reads,    \* what the simulator read, run after run
    results,  \* the execution and engineering status of each run
    reply     \* the analysis that the returned envelope reports, and its status

simVars == <<request, file, decks, spent, at, taken, bound, held, reads, results, reply>>

Source  == {"none", "models", "cosim", "osdi", "pdk"}
Request == {r \in [target : {"deck", "artifact"}, source : Source, backend : {"ngspice", "xyce"},
                    analyses : 1..2] :
              /\ r.backend = "xyce" => r.source \in {"none", "models"}
              /\ r.analyses = 2 => r.target = "artifact" /\ r.backend = "ngspice"}
(* Only a deck that the call composed is written.                          *)
Derived(r)  == r.target = "artifact" \/ r.source # "none"
(* The sources that come with compiled objects of a reviewed digest.       *)
Reviewed(r) == r.source \in {"cosim", "osdi", "pdk"}
(* The objects that the driver is told to look at, too.                    *)
Pinned(r)   == r.source \in {"cosim", "osdi"}

(* The steps of a call. Executable objects are looked at before each run,  *)
(* a PDK's snapshot before and after.                                      *)
Begins(r)   == IF r.source \in {"models", "cosim"} THEN "library"
               ELSE IF Reviewed(r) THEN "objects" ELSE "load"
Dispatch(r) == IF r.source = "cosim" THEN "before" ELSE IF Derived(r) THEN "write" ELSE "enter"
(* What follows an analysis, when so many have a result.                   *)
Onward(r, ran) == IF ran = r.analyses THEN "reply" ELSE Dispatch(r)
Follows(r, ran, step) ==
    CASE step = "library" -> IF Reviewed(r) THEN "objects" ELSE "load"
      [] step = "objects" -> "load"
      [] step = "load"    -> IF r.target = "deck" THEN "bind" ELSE Dispatch(r)
      [] step = "bind"    -> Dispatch(r)
      [] step = "before"  -> IF r.source = "cosim" THEN "write" ELSE "enter"
      [] step = "write"   -> "reread"
      [] step = "reread"  -> IF r.source = "pdk" THEN "before" ELSE "enter"
      [] step = "enter"   -> "guard"
      [] step = "guard"   -> "launch"
      [] step = "launch"  -> "recheck"
      [] step = "recheck" -> IF r.source = "pdk" THEN "after" ELSE Onward(r, ran)
      [] step = "after"   -> Onward(r, ran)

Scribble   == [deck |-> 0, library |-> 0, source |-> "scribble"]
Unasked  == [index |-> 0, status |-> "none"]
SimInit ==
    /\ request \in {q \in [Caller -> Request] : \A c, d \in Caller :
                       /\ q[c].target = q[d].target
                       /\ c # d => /\ q[c].analyses + q[d].analyses <= 3
                                   /\ ~(Reviewed(q[c]) /\ Reviewed(q[d]))}
    /\ file = [deck |-> 1, library |-> 1, object |-> 1] /\ spent = 0
    /\ decks = [i \in 1..2 |-> Scribble]
    /\ at = [c \in Caller |-> Begins(request[c])] /\ taken = [c \in Caller |-> [deck |-> 0, library |-> 0]]
    /\ bound = [c \in Caller |-> 0] /\ held = [c \in Caller |-> Scribble]
    /\ reads = [c \in Caller |-> <<>>] /\ results = [c \in Caller |-> <<>>]
    /\ reply = [c \in Caller |-> Unasked]

Takes(c, step) == reply[c] = Unasked /\ at[c] = step
Goes(c)        == at' = [at EXCEPT ![c] = Follows(request[c], Len(results[c]), @)]
(* _refusal: the simulator is not run, or not run again.                   *)
Refuses(c)     == /\ reply' = [reply EXCEPT ![c] = [index |-> 0, status |-> "refused"]]
                  /\ UNCHANGED <<request, file, decks, spent, at, taken, bound, held, reads, results>>
Turn(c)        == Len(results[c]) + 1
(* The derived deck: the caller's text with the models of the call.        *)
Text(c)        == [deck |-> taken[c].deck, library |-> taken[c].library, source |-> request[c].source]
(* What is now at the path of the deck that is to run.                     *)
OnDisk(c)      == IF Derived(request[c]) THEN decks[Turn(c)]
                  ELSE [deck |-> file.deck, library |-> 0, source |-> "none"]
(* What the deck's record names: the digest that the driver is given.      *)
Expected(c)    == IF Derived(request[c]) THEN Text(c)
                  ELSE [deck |-> bound[c], library |-> 0, source |-> "none"]
-----------------------------------------------------------------------------
(* load_model_prelude. A composition of blocks comes with its digest.      *)
Library(c) ==
    /\ Takes(c, "library")
    /\ \/ /\ request[c].source = "cosim" => file.library = 1
          /\ Goes(c) /\ taken' = [taken EXCEPT ![c].library = file.library]
          /\ UNCHANGED <<request, file, decks, spent, bound, held, reads, results, reply>>
       \/ request[c].source = "cosim" /\ file.library # 1 /\ Refuses(c)

(* Every object is hashed again; so is a PDK's snapshot.                   *)
Objects(c) ==
    /\ \E look \in {"objects", "before", "after"} : Takes(c, look)
    /\ \/ file.object = 1 /\ Goes(c)
          /\ UNCHANGED <<request, file, decks, spent, taken, bound, held, reads, results, reply>>
       \/ file.object # 1 /\ Refuses(c)

(* The text to simulate. An artifact's deck must have its published digest; *)
(* block constraints, options, analyses and collateral may refuse it.      *)
Load(c) ==
    /\ Takes(c, "load")
    /\ \/ /\ request[c].target = "artifact" => file.deck = 1
          /\ Goes(c) /\ taken' = [taken EXCEPT ![c].deck = file.deck]
          /\ bound' = IF request[c].target = "artifact" THEN [bound EXCEPT ![c] = 1] ELSE bound
          /\ UNCHANGED <<request, file, decks, spent, held, reads, results, reply>>
       \/ Refuses(c)

(* A bare deck is recorded by a reading of its own.                        *)
Bind(c) ==
    /\ Takes(c, "bind") /\ Goes(c)
    /\ bound' = [bound EXCEPT ![c] = file.deck]
    /\ UNCHANGED <<request, file, decks, spent, taken, held, reads, results, reply>>

WriteDeck(c) ==
    /\ Takes(c, "write") /\ Goes(c)
    /\ decks' = [decks EXCEPT ![Turn(c)] = Text(c)]
    /\ UNCHANGED <<request, file, spent, taken, bound, held, reads, results, reply>>
Reread(c) ==
    /\ Takes(c, "reread")
    /\ \/ decks[Turn(c)] = Text(c) /\ Goes(c)
          /\ UNCHANGED <<request, file, decks, spent, taken, bound, held, reads, results, reply>>
       \/ decks[Turn(c)] # Text(c) /\ Refuses(c)
-----------------------------------------------------------------------------
(* The driver's part: it has a result, and the call goes on to what follows *)
(* its recheck. It gives up with a result, too, which the others outlive.  *)
Gets(c, result) ==
    /\ results' = [results EXCEPT ![c] = Append(@, result)]
    /\ at' = [at EXCEPT ![c] = Follows(request[c], Turn(c), "recheck")]
PinsHold(c) == Pinned(request[c]) => file.object = 1
GivesUp(c) ==
    /\ Gets(c, <<"invalid_request", "unknown">>)
    /\ reads' = [reads EXCEPT ![c] = Append(@, [text |-> Scribble, object |-> 0])]
    /\ UNCHANGED <<request, file, decks, spent, taken, bound, held, reply>>

Unquestioned(c) == TRUE
(* ngspice's driver asks for the digest it was given; Xyce's is given none. *)
(* The profile may refuse the deck, and the driver anything else.          *)
AsExpected(c) == request[c].backend = "ngspice" => OnDisk(c) = Expected(c)
Enter(c) ==
    /\ Takes(c, "enter")
    /\ \/ /\ AsExpected(c) /\ PinsHold(c) /\ Goes(c)
          /\ held' = [held EXCEPT ![c] = OnDisk(c)]
          /\ UNCHANGED <<request, file, decks, spent, taken, bound, reads, results, reply>>
       \/ GivesUp(c)

(* The launch guard, of ngspice's driver only.                             *)
LaunchGuard(c) ==
    /\ Takes(c, "guard")
    /\ LET holds == request[c].backend = "ngspice" => OnDisk(c) = held[c] /\ PinsHold(c) IN
       \/ holds /\ Goes(c)
          /\ UNCHANGED <<request, file, decks, spent, taken, bound, held, reads, results, reply>>
       \/ ~holds /\ GivesUp(c)

(* The simulator opens deck and object by their paths.                     *)
Simulates(c) ==
    /\ Takes(c, "launch") /\ Goes(c)
    /\ reads' = [reads EXCEPT ![c] = Append(@, [text |-> OnDisk(c), object |-> file.object])]
    /\ UNCHANGED <<request, file, decks, spent, taken, bound, held, results, reply>>

(* What the driver recorded must still be there for the run to conclude,   *)
(* and the output have the form of the analysis that was asked for.        *)
Concludes(c) == OnDisk(c) = held[c] /\ PinsHold(c)
RecheckRun(c) ==
    /\ Takes(c, "recheck")
    /\ \E result \in {<<"timed_out", "unknown">>}
                     \cup (IF Concludes(c)
                           THEN {<<"completed", "pass">>, <<"failed", "fail">>} ELSE {}) :
          Gets(c, result)
    /\ UNCHANGED <<request, file, decks, spent, taken, bound, held, reads, reply>>

(* _weakest: execution first, then engineering, then the order.            *)
ExecutionPrecedence   == <<"completed", "timed_out", "not_available", "failed", "invalid_request">>
EngineeringPrecedence == <<"pass", "not_applicable", "fail", "unknown">>
RankOf(order, s)      == CHOOSE n \in DOMAIN order : order[n] = s
Weaker(x, y) ==
    LET e(z) == RankOf(ExecutionPrecedence, z[1])
        s(z) == RankOf(EngineeringPrecedence, z[2])
    IN  e(x) > e(y) \/ (e(x) = e(y) /\ s(x) > s(y))
Weakest(all) == CHOOSE i \in DOMAIN all : \A j \in DOMAIN all \ {i} :
                    Weaker(all[i], all[j]) \/ (i < j /\ ~Weaker(all[j], all[i]))
Replies(c) ==
    /\ Takes(c, "reply")
    /\ LET i == Weakest(results[c])
       IN  reply' = [reply EXCEPT ![c] = [index |-> i, status |-> results[c][i][2]]]
    /\ UNCHANGED <<request, file, decks, spent, at, taken, bound, held, reads, results>>
-----------------------------------------------------------------------------
Pending == \E c \in Caller : reply[c] = Unasked
(* Somebody edits a file, or a derived deck.                               *)
Edits(f) ==
    /\ Pending /\ spent < MaxChanges /\ spent' = spent + 1
    /\ file' = [file EXCEPT ![f] = @ + 1]
    /\ UNCHANGED <<request, decks, at, taken, bound, held, reads, results, reply>>
Overwrites(i) ==
    /\ Pending /\ spent < MaxChanges /\ spent' = spent + 1
    /\ decks[i] # Scribble /\ decks' = [decks EXCEPT ![i] = Scribble]
    /\ UNCHANGED <<request, file, at, taken, bound, held, reads, results, reply>>

CallStep(c) ==
    \/ Library(c) \/ Objects(c) \/ Load(c) \/ Bind(c) \/ WriteDeck(c) \/ Reread(c)
    \/ Enter(c) \/ LaunchGuard(c) \/ Simulates(c) \/ RecheckRun(c) \/ Replies(c)
SimNext == \/ \E c \in Caller : CallStep(c)
           \/ \E f \in DOMAIN file : Edits(f)
           \/ \E i \in DOMAIN decks : Overwrites(i)
SimSpec == SimInit /\ [][SimNext]_simVars
-----------------------------------------------------------------------------
(* A reply that concludes: ngspice read, for every analysis it speaks for, *)
(* the text that was vetted with the models of this call, whoever wrote    *)
(* over it, and the objects of their reviewed digest. A deck that the      *)
(* other call composes alike may be overwritten, run and written again. A  *)
(* bare deck is what its record names, which is a reading after the vetted *)
(* one. Xyce's driver, which is given no digest, promises nothing of this. *)
Alike(c) == \E d \in Caller \ {c} : Text(d) = Text(c)
Vetted(c, run) ==
    /\ Derived(request[c]) /\ ~Alike(c) => run.text = Text(c)
    /\ ~Derived(request[c]) => run.text.deck = bound[c]
    /\ Reviewed(request[c]) => run.object = 1
    /\ request[c].source = "cosim" => taken[c].library = 1
SimulatedAsVetted ==
    \A c \in Caller :
        /\ reply[c].status \in {"pass", "fail"} /\ request[c].backend = "ngspice" =>
              \A i \in DOMAIN reads[c] :
                 results[c][i][2] \in {"pass", "fail"} => Vetted(c, reads[c][i])
        /\ reply[c].status = "pass" =>
              /\ \A i \in DOMAIN results[c] : results[c][i][2] = "pass"
              /\ reply[c].index = 1
=============================================================================
