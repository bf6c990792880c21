--------------------------- MODULE EvidenceReceipt ---------------------------
(***************************************************************************)
(* verify_typed_evidence_receipt (conformance_receipt.py): a scheduler has *)
(* captured and signed the files of one job; the verifier captures them    *)
(* again, one at a time, through descriptors that it keeps open, compares  *)
(* them with the signed receipt and with the pinned experiment, replays    *)
(* extraction and measurement, looks at every file once more, and hands    *)
(* the measurement on.                                                     *)
(*                                                                         *)
(* A digest is the number of a content. Others may edit, remove, restore   *)
(* any of the files meanwhile, or make the directory's name lead to another*)
(* directory and back.                                                     *)
(***************************************************************************)
EXTENDS Naturals, Sequences, SequencesExt, Functions

CONSTANT MaxTampering  \* the bound on what the job and others do to the evidence

VARIABLES
    sealed,    \* the chain as the scheduler captured it, and its tampering before
    stored,      \* the files of the directory: content and fingerprint
    leads,     \* the directory that its name leads to
    tampering, \* how often the evidence was touched
    phase,     \* how far the verifier is
    todo,      \* the records whose files it still captures, or looks at again
    known,     \* the directory that it found, kept open
    opened,    \* the fingerprint of the file being captured
    held,      \* what it captured: content and fingerprint
    verified,  \* the measurement handed on
    moment     \* what the files held when the last capture was done (history)

receiptVars == <<sealed, stored, leads, tampering, phase, todo, known, opened, held, verified, moment>>

Gone == 0
(* What a passing simulation's envelope binds. The honest one is the first;*)
(* the others differ in one thing that verification could overlook.        *)
Rec(path, sha) == [path |-> path, sha |-> sha]
Honest == [status |-> "pass", context |-> 1, configured |-> TRUE, results |-> <<Rec("raw", 1)>>,
           inputs |-> <<Rec("deck", 1)>>, logs |-> <<Rec("log", 1)>>, others |-> <<>>]
Simulations ==
    <<Honest,
      [Honest EXCEPT !.status = "fail"],
      [Honest EXCEPT !.inputs = <<>>],
      [Honest EXCEPT !.others = <<Rec("deck", Gone)>>],
      [Honest EXCEPT !.logs = <<>>],
      [Honest EXCEPT !.results = @ \o <<Rec("log", 1)>>],
      [Honest EXCEPT !.results = <<Rec("raw", 2)>>],
      [Honest EXCEPT !.configured = FALSE],
      [Honest EXCEPT !.context = 2],
      [Honest EXCEPT !.logs = <<Rec("log", 2)>>],
      [Honest EXCEPT !.others = <<Rec("deck", 1), Rec("selection", 1)>>]>>
Recorded(n) == Simulations[n].inputs \o Simulations[n].logs \o Simulations[n].others

(* The replayed operations are functions of what they are given; nothing   *)
(* but the same arguments yields the same envelope.                        *)
Extract(simulation, raw, selection) == 100 * simulation + 10 * raw + selection
Measure(series, request)            == 10 * series + request

Roles == <<"simulation", "raw", "selection", "extraction", "request", "measurement">>
Path  == ToSet(Roles) \cup {"receipt", "deck", "log"}

(* A chain that the operations produced from these.                        *)
Chain(simulation, raw, selection, request) ==
    [simulation |-> simulation, raw |-> raw, selection |-> selection, request |-> request,
     extraction |-> Extract(simulation, raw, selection),
     measurement |-> Measure(Extract(simulation, raw, selection), request),
     receipt |-> 1, deck |-> 1, log |-> 1]
(* What the job left: an honest chain; one of another experiment or claim; *)
(* or one with an envelope written by hand.                                *)
Chains ==
    LET good == Chain(1, 1, 1, 1) IN
    {Chain(n, 1, 1, 1) : n \in DOMAIN Simulations} \cup {Chain(1, 1, 2, 1), Chain(1, 1, 1, 2), Chain(1, 2, 1, 1)}
    \cup {[good EXCEPT !.extraction = Extract(1, 2, 1), !.measurement = Measure(Extract(1, 2, 1), 1)],
          [good EXCEPT !.measurement = Measure(Extract(1, 2, 1), 1)], [good EXCEPT !.deck = 2]}

(* The receipts there are: of this attempt, of another one, of another     *)
(* subject, one that nobody signed, one that misses a file.                *)
Seal == [job |-> 1, subject |-> 1, signed |-> TRUE, evidence |-> Restrict(sealed, ToSet(Roles)),
         files |-> Recorded(sealed.simulation)]
Receipts == <<Seal, [Seal EXCEPT !.job = 2], [Seal EXCEPT !.subject = 2],
              [Seal EXCEPT !.signed = FALSE, !.evidence["extraction"] = Extract(1, 2, 1),
                           !.evidence["measurement"] = Measure(Extract(1, 2, 1), 1)],
              [Seal EXCEPT !.files = SubSeq(@, 1, Len(@) - 1)]>>
Contents(p) == CASE p = "receipt"     -> 1..5
                 [] p = "simulation"  -> {sealed[p], 1, 9}
                 [] p = "extraction"  -> {sealed[p], Extract(1, 2, 1)}
                 [] p = "measurement" -> {sealed[p], Measure(Extract(1, 2, 1), 1)}
                 [] OTHER             -> {1, 2}

ReceiptInit ==
    /\ sealed \in Chains
    /\ stored = [p \in Path |-> [body |-> sealed[p], stamp |-> 1]]
    /\ leads = "here" /\ tampering = IF sealed = Chain(1, 1, 1, 1) THEN 0 ELSE 1
    /\ phase = "receipt" /\ todo = <<Rec("receipt", Gone)>>
    /\ known = "none" /\ opened = 0 /\ held = <<>> /\ verified = 0 /\ moment = <<>>
-----------------------------------------------------------------------------
World  == <<sealed, stored, leads, tampering>>
(* Whatever is open is closed.                                             *)
Reject == /\ phase' = "refused" /\ opened' = 0
          /\ UNCHANGED <<World, todo, known, held, verified, moment>>

(* The other directory holds an honest chain that nobody touches.          *)
In(directory, p) == IF directory = "here" THEN stored[p]
                    ELSE [body |-> Chain(1, 1, 1, 1)[p], stamp |-> 0]
StillThere(p, stamp) ==   \* mutation: the fingerprint is not compared
    leads = known /\ In(known, p).body # Gone
(* The descriptor, the name and the directory are still what they were.    *)
Unchanged(p, stamp) == leads = known /\ In(known, p).body # Gone /\ In(known, p).stamp = stamp

(* _StableCapture, up to the descriptor. The identity of the directory and *)
(* of a file met before are remembered from capture to capture.            *)
Opens(p) == /\ In(leads, p).body # Gone
            /\ known \in {"none", leads}
            /\ p \in DOMAIN held => held[p].stamp = In(leads, p).stamp
(* A file that the simulation records twice is captured once.              *)
Taken == {Recorded(held["simulation"].body)[i].path :
            i \in 1 .. Len(Recorded(held["simulation"].body)) - Len(todo)}
Open == /\ phase \in {"receipt", "roles", "files"} /\ todo # <<>> /\ opened = 0
        /\ phase = "files" => Head(todo).path \notin Taken
        /\ IF Opens(Head(todo).path)
           THEN /\ known' = leads /\ opened' = In(leads, Head(todo).path).stamp + 1
                /\ UNCHANGED <<World, phase, todo, held, verified, moment>>
           ELSE Reject

(* The signature under the pinned key, then the attempt and the subject.   *)
Authentic(r) == r.signed /\ r.job = 1 /\ r.subject = 1
Matches(record, body) == IF phase = "receipt" THEN Authentic(Receipts[body]) ELSE body = record.sha

(* The rest of the capture, and the comparison with the record.            *)
ReadFile ==
        /\ opened # 0
        /\ LET p == Head(todo).path
               body == In(known, p).body
           IN IF Unchanged(p, opened - 1) /\ Matches(Head(todo), body)
              THEN /\ opened' = 0 /\ todo' = Tail(todo)
                   /\ held' = [q \in DOMAIN held \cup {p} |->
                                IF q = p THEN [body |-> body, stamp |-> opened - 1] ELSE held[q]]
                   /\ UNCHANGED <<World, phase, known, verified, moment>>
              ELSE Reject
Reuse == /\ phase = "files" /\ todo # <<>> /\ opened = 0 /\ Head(todo).path \in Taken
         /\ IF Matches(Head(todo), held[Head(todo).path].body)
            THEN todo' = Tail(todo) /\ UNCHANGED <<World, phase, known, opened, held, verified, moment>>
            ELSE Reject

Receipt     == Receipts[held["receipt"].body]
Body(p)     == held[p].body
Simulation  == Simulations[Body("simulation")]
Arrive(p)   == phase = p /\ todo = <<>> /\ opened = 0
Proceed(to, records) == /\ phase' = to /\ todo' = records
                        /\ UNCHANGED <<World, known, opened, held, verified>>

CaptureChain == /\ Arrive("receipt")
           /\ Proceed("roles", [i \in DOMAIN Roles |-> Rec(Roles[i], Receipt.evidence[Roles[i]])])
           /\ UNCHANGED moment

(* Is it the pinned experiment and claim, and does the receipt cover what  *)
(* the simulation recorded?                                                *)
Conforms(s)   == s.status = "pass"
Pinned        == Body("selection") = 1 /\ Body("request") = 1 /\ Simulation.context = 1
Complete(s)   == /\ s.inputs # <<>> /\ Len(s.logs) = 1
                 /\ \A r \in ToSet(s.inputs \o s.logs \o s.others) : r.sha # Gone
JudgeChain == /\ Arrive("roles")
         /\ IF /\ Conforms(Simulation) /\ Simulation.configured /\ Pinned /\ Complete(Simulation)
               /\ Receipt.files = Recorded(Body("simulation"))
            THEN Proceed("files", Receipt.files) /\ UNCHANGED moment
            ELSE Reject

(* The envelopes are what the operations say now, of the captured bytes.   *)
Binds(s)  == Len(s.results) = 1 /\ s.results[1] = Rec("raw", Body("raw"))
Replays   == /\ Body("extraction") = Extract(Body("simulation"), Body("raw"), Body("selection"))
             /\ Body("measurement") = Measure(Body("extraction"), Body("request"))
Records(paths) == [i \in DOMAIN paths |-> Rec(paths[i], Body(paths[i]))]
Replay == /\ Arrive("files")
          /\ IF Binds(Simulation) /\ Replays
             THEN /\ Proceed("again", Records(Roles \o [i \in DOMAIN Receipt.files |-> Receipt.files[i].path]
                                              \o <<"receipt">>))
                  /\ moment' = [p \in DOMAIN held |-> In(known, p).body]
             ELSE Reject

Again  == /\ phase = "again" /\ todo # <<>>
          /\ IF Unchanged(Head(todo).path, held[Head(todo).path].stamp)
             THEN todo' = Tail(todo) /\ UNCHANGED <<World, phase, known, opened, held, verified, moment>>
             ELSE Reject
Return == /\ Arrive("again")
          /\ phase' = "verified" /\ verified' = Body("measurement")
          /\ UNCHANGED <<World, todo, known, opened, held, moment>>

(* Others: every change of a file, also one back, leaves its mark on the   *)
(* file; that a name led elsewhere for a while leaves none.                *)
Tampers == /\ phase \notin {"verified", "refused"} /\ tampering < MaxTampering /\ tampering' = tampering + 1
           /\ UNCHANGED <<sealed, phase, todo, known, opened, held, verified, moment>>
EditFile == /\ Tampers
        /\ \E p \in Path : \E body \in (Contents(p) \cup {Gone}) \ {stored[p].body} :
              stored' = [stored EXCEPT ![p] = [body |-> body, stamp |-> @.stamp + 1]]
        /\ UNCHANGED leads
SwapName == Tampers /\ leads' = (IF leads = "here" THEN "there" ELSE "here") /\ UNCHANGED stored

Verifies    == Open \/ ReadFile \/ Reuse \/ CaptureChain \/ JudgeChain \/ Replay \/ Again \/ Return
Over        == phase \in {"verified", "refused"} /\ UNCHANGED receiptVars
ReceiptNext == Verifies \/ EditFile \/ SwapName \/ Over
ReceiptSpec == ReceiptInit /\ [][ReceiptNext]_receiptVars
-----------------------------------------------------------------------------
(***************************************************************************)
(* The verified measurement stood: there was one moment at which every     *)
(* file of the chain held what was captured of it, though each was read    *)
(* and looked at again in its own time, and others changed files and       *)
(* directories meanwhile. The files are those that the scheduler signed    *)
(* for this attempt and subject, the experiment and the claim are the      *)
(* pinned ones, and the value is what extraction and measurement make of   *)
(* the raw file that the simulation recorded (the return of                *)
(* verify_typed_evidence_receipt).                                         *)
(***************************************************************************)
Together == \A p \in DOMAIN held : moment[p] = held[p].body
OfThisJob == /\ Receipt.signed /\ Receipt.job = 1 /\ Receipt.subject = 1
             /\ \A p \in ToSet(Roles) : held[p].body = sealed[p]
             /\ \A r \in ToSet(Recorded(Body("simulation"))) : held[r.path].body = r.sha
VerifiedStood ==
    phase = "verified" =>
        /\ Together /\ OfThisJob
        /\ Simulation.status = "pass" /\ Simulation.configured /\ Simulation.context = 1
        /\ Simulation.results = <<Rec("raw", Body("raw"))>>
        /\ verified = Measure(Extract(Body("simulation"), Body("raw"), 1), 1)
=============================================================================
