------------------------ MODULE NgspiceDriver_proofs ------------------------
(***************************************************************************)
(* Proofs about calls of NgspiceDriver.simulate, for any number of calls   *)
(* and of edits of the deck; and about calls of circuit.simulate, which    *)
(* compose the decks that the driver runs, for any calls and edits.        *)
(***************************************************************************)
EXTENDS NgspiceDriver, SimulateCall, TLAPS

-----------------------------------------------------------------------------
(***************************************************************************)
(* NgspiceDriver.                                                          *)
(***************************************************************************)
BeforeLaunch == {"idle", "record", "scan", "write", "reread", "guard", "launch"}
Moving       == {"movedLog", "moveRaw", "movedRaw", "script", "openLog"}
Captured     == {"hashLog", "openOut", "hashOut", "inputs", "decide"}
Stages       == BeforeLaunch \cup {"wait", "moveLog"} \cup Moving \cup Captured
                    \cup {"returned", "killed"}

(* The types the proofs need beyond those TypeOK states.                   *)
TypeInv ==
    /\ mode \in {"batch", "control", "deck"}
    /\ version \in 0 .. MaxEdits
    /\ files \in [Names -> Calls \cup {Nobody}]
    /\ temp \in [Calls -> Calls \cup {Nobody}]
    /\ pc \in [Calls -> Stages]
    /\ recorded \in [Calls -> -1 .. MaxEdits] /\ read \in [Calls -> -1 .. MaxEdits]
    /\ script \in [Calls -> Calls \cup {Nobody}]
    /\ runs \in [Calls -> Calls \cup {Nobody}]
    /\ evidence \in [Calls -> [{"log", "output"} -> Calls \cup {Nobody}]]
    /\ status \in [Calls -> {"unknown", "invalid", "pass", "fail"}]
    /\ ngspice \in [Calls -> {"none", "running", "zero", "nonzero", "incomplete"}]
    /\ verdict \in [Calls -> {"clean", "nonconvergent"}]
    /\ alone \in [Calls -> BOOLEAN]

(***************************************************************************)
(* A simulator runs only under its call or after the call was killed, and  *)
(* what it read lies between the record it was launched on and now.        *)
(***************************************************************************)
Deck(c) ==
    /\ pc[c] \in BeforeLaunch => ngspice[c] = "none"
    /\ ngspice[c] = "running" => pc[c] \in {"wait", "killed"}
    /\ ngspice[c] = "none" => read[c] = NotRead
    /\ recorded[c] <= version /\ read[c] <= version
    /\ read[c] # NotRead => recorded[c] <= read[c]
    /\ Concluded(c) => pc[c] = "returned"
    /\ pc[c] = "decide" \/ Concluded(c) => read[c] \in {NotRead, recorded[c]}

DeckInv == \A c \in Calls : Deck(c)

(***************************************************************************)
(* Whoever wrote the log at the path, or a log that is held, has read the  *)
(* deck, so what that log says is settled; from the capture on a call      *)
(* holds a log, and has read the deck itself.                              *)
(***************************************************************************)
LogFile == files["log"] # Nobody => read[files["log"]] # NotRead

Log(c) ==
    LET log == evidence[c]["log"] IN
    /\ log # Nobody => read[log] # NotRead
    /\ pc[c] \in Moving => log \in {Nobody, c}
    /\ pc[c] \in Captured \/ Concluded(c) => log # Nobody /\ read[c] # NotRead
    /\ Concluded(c) =>
         verdict[log] = IF status[c] = "pass" THEN "clean" ELSE "nonconvergent"

LogInv == LogFile /\ \A c \in Calls : Log(c)

(* A call that is alone and under way has the directories to itself.       *)
QuietInv ==
    \A c \in Calls : alone[c] /\ Active(c) => \A d \in Calls \ {c} : ~Active(d)

Working(c)  == alone[c] /\ pc[c] # "killed"
Launching   == {"reread", "guard", "launch", "wait"}
Accepted    == {"write"} \cup Launching \cup {"moveLog"} \cup Moving \cup Captured
HoldsOutput == {"hashOut", "inputs", "decide"}

(***************************************************************************)
(* What lies where a call that is alone looks is its own, from the step    *)
(* that makes it so: its script, its raw file, its deck output, its log.   *)
(***************************************************************************)
Own(c) ==
    /\ mode = "control" /\ pc[c] \in Launching => files["script"] = c
    /\ read[c] # NotRead => runs[c] = c
    /\ temp[c] \in {Nobody, c}
    /\ mode = "deck" /\ pc[c] \in Accepted => files["deck"] \in {Nobody, c}
    /\ pc[c] \in Moving /\ evidence[c]["log"] = c => files["log"] = c
    /\ pc[c] \in Captured => evidence[c]["log"] = c
    /\ mode # "deck" /\ pc[c] \in (Moving \cup Captured) \ {"movedLog", "moveRaw"}
         => /\ evidence[c]["output"] \in {Nobody, c}
            /\ evidence[c]["output"] = c => files["raw"] = c
    /\ pc[c] \in HoldsOutput => evidence[c]["output"] = c
    /\ Concluded(c) => evidence[c]["log"] = c /\ evidence[c]["output"] = c

OwnInv == \A c \in Calls : Working(c) => Own(c)

IInv == TypeInv /\ DeckInv /\ LogInv /\ QuietInv /\ OwnInv

Acts(d) == Step(d) \/ Simulator(d) \/ Kill(d)

-----------------------------------------------------------------------------
(* The local state of a call, all that another one leaves alone.           *)
Kept(c) == UNCHANGED <<pc[c], recorded[c], script[c], evidence[c], status[c],
                       ngspice[c], read[c], runs[c], verdict[c]>>

(* A step of one call leaves what another remembers alone, and its
   temporary directory unless that is in use; only a call that is active,
   or begins, takes a step. *)
LEMMA Frame ==
    ASSUME TypeInv, NEW d \in Calls, Acts(d), NEW c \in Calls \ {d}
    PROVE  /\ Kept(c)
           /\ temp'[c] # temp[c] => HasTemp(c)
           /\ alone'[c] => alone[c]
           /\ Active(d) \/ pc[d] = "idle"
           /\ ~Active(d) /\ alone'[c] => ~Active(c)
<1> USE DEF vars, world, records, machines, Goto, End, Refuse, Unknown,
   Ended, Active, NotRead, Names, NoEvidence, Kept, TypeInv
<1>1. CASE Call(d)
    BY <1>1 DEF Call
<1>2. CASE Record(d)
    BY <1>2 DEF Record
<1>3. CASE Scan(d)
    BY <1>3 DEF Scan, Fresh
<1>4. CASE WriteScript(d)
    BY <1>4 DEF WriteScript
<1>5. CASE RereadScript(d)
    BY <1>5 DEF RereadScript
<1>6. CASE Guard(d)
    BY <1>6 DEF Guard, Fresh
<1>7. CASE Launch(d)
    BY <1>7 DEF Launch
<1>8. CASE Wait(d)
    BY <1>8 DEF Wait
<1>9. CASE MoveLog(d)
    BY <1>9 DEF MoveLog, Move, Hold
<1>10. CASE Moved(d, "log", "log", "movedLog", IF mode = "deck" THEN "script" ELSE "moveRaw")
    BY <1>10 DEF Moved, Hold
<1>11. CASE Move(d, "raw", "output", temp[d], "moveRaw", "movedRaw")
    BY <1>11 DEF Move, Hold
<1>12. CASE Moved(d, "raw", "output", "movedRaw", "script")
    BY <1>12 DEF Moved, Hold
<1>13. CASE CaptureScript(d)
    BY <1>13 DEF CaptureScript
<1>14. CASE Open(d, "log", "log", Produced(d, "log"), "openLog", "hashLog")
    BY <1>14 DEF Open, Hold, Produced
<1>15. CASE Hash(d, "log", "log", "hashLog", "openOut")
    BY <1>15 DEF Hash
<1>16. CASE Open(d, Output, "output", mode = "deck" \/ Produced(d, "output"), "openOut", "hashOut")
    BY <1>16 DEF Open, Hold, Produced, Output
<1>17. CASE Hash(d, Output, "output", "hashOut", "inputs")
    BY <1>17 DEF Hash, Output
<1>18. CASE RecheckInputs(d)
    BY <1>18 DEF RecheckInputs
<1>19. CASE Decide(d)
    BY <1>19 DEF Decide, Conclude, LogIsTheRecord
<1>20. CASE ReadDeck(d)
    BY <1>20 DEF ReadDeck
<1>21. CASE WriteOutput(d)
    BY <1>21 DEF WriteOutput, HasTemp
<1>22. CASE Exit(d)
    BY <1>22 DEF Exit
<1>23. CASE Kill(d)
    BY <1>23 DEF Kill
<1> QED
    BY <1>1, <1>2, <1>3, <1>4, <1>5, <1>6, <1>7, <1>8, <1>9, <1>10, <1>11,
       <1>12, <1>13, <1>14, <1>15, <1>16, <1>17, <1>18, <1>19, <1>20, <1>21,
       <1>22, <1>23 DEF Acts, Step, Simulator, MoveOutputs, CaptureFiles

(* Ending a call keeps the types.                                          *)
LEMMA EndTypes ==
    ASSUME TypeInv, NEW d \in Calls, Refuse(d) \/ Unknown(d) \/ End(d, "killed", "unknown"),
           UNCHANGED <<mode, world, machines, alone>>
    PROVE  TypeInv'
<1>1. NoEvidence \in [{"log", "output"} -> Calls \cup {Nobody}]
    BY DEF NoEvidence
<1>2. /\ pc' \in [Calls -> Stages]
      /\ status' \in [Calls -> {"unknown", "invalid", "pass", "fail"}]
      /\ recorded' \in [Calls -> -1 .. MaxEdits]
      /\ script' \in [Calls -> Calls \cup {Nobody}]
      /\ evidence' = [evidence EXCEPT ![d] = NoEvidence]
    BY SMTT(30), BoundAssumption DEF TypeInv, Refuse, Unknown, End, Stages, NotRead
<1>3. evidence' \in [Calls -> [{"log", "output"} -> Calls \cup {Nobody}]]
    BY <1>1, <1>2 DEF TypeInv
<1> QED
    BY <1>2, <1>3 DEF TypeInv, world, machines

(* Every step of a call keeps the types. *)
LEMMA TypeActs ==
    ASSUME TypeInv, NEW d \in Calls, Acts(d)
    PROVE  TypeInv'
<1> USE NobodyAssumption, BoundAssumption DEF vars, world, records, machines,
   Goto, Ended, Active, NotRead, Names, TypeInv, Stages, BeforeLaunch, Moving,
   Captured
<1>1. CASE Call(d)
    BY <1>1 DEF Call
<1>2. CASE Record(d)
    <2>1. CASE Refuse(d)
        <3>1. UNCHANGED <<mode, world, machines, alone>>
            BY <1>2 DEF Record
        <3> QED
            BY <2>1, <3>1, EndTypes
    <2>2. CASE ~(Refuse(d))
        BY <1>2, <2>2 DEF Record
    <2> QED
        BY <2>1, <2>2
<1>3. CASE Scan(d)
    <2>1. CASE Refuse(d)
        <3>1. UNCHANGED <<mode, world, machines, alone>>
            BY <1>3 DEF Scan
        <3> QED
            BY <2>1, <3>1, EndTypes
    <2>2. CASE ~(Refuse(d))
        BY <1>3, <2>2 DEF Scan, Fresh
    <2> QED
        BY <2>1, <2>2
<1>4. CASE WriteScript(d)
    BY <1>4 DEF WriteScript
<1>5. CASE RereadScript(d)
    BY <1>5 DEF RereadScript
<1>6. CASE Guard(d)
    <2>1. CASE Refuse(d)
        <3>1. UNCHANGED <<mode, world, machines, alone>>
            BY <1>6 DEF Guard
        <3> QED
            BY <2>1, <3>1, EndTypes
    <2>2. CASE ~(Refuse(d))
        BY <1>6, <2>2 DEF Guard, Fresh
    <2> QED
        BY <2>1, <2>2
<1>7. CASE Launch(d)
    BY <1>7 DEF Launch
<1>8. CASE Wait(d)
    BY <1>8 DEF Wait
<1>9. CASE MoveLog(d)
    <2>1. CASE Move(d, "log", "log", Nobody, "moveLog", "movedLog")
        BY <2>1 DEF Move, Hold
    <2>2. CASE Move(d, "log", "log", d, "moveLog", "movedLog")
        BY <2>2 DEF Move, Hold
    <2> QED
        BY <1>9, <2>1, <2>2 DEF MoveLog
<1>10. CASE Moved(d, "log", "log", "movedLog", IF mode = "deck" THEN "script" ELSE "moveRaw")
    BY SMTT(30), <1>10 DEF Moved, Hold
<1>11. CASE Move(d, "raw", "output", temp[d], "moveRaw", "movedRaw")
    BY <1>11 DEF Move, Hold
<1>12. CASE Moved(d, "raw", "output", "movedRaw", "script")
    BY <1>12 DEF Moved, Hold
<1>13. CASE CaptureScript(d)
    <2>1. CASE Unknown(d)
        <3>1. UNCHANGED <<mode, world, machines, alone>>
            BY <1>13 DEF CaptureScript
        <3> QED
            BY <2>1, <3>1, EndTypes
    <2>2. CASE ~(Unknown(d))
        BY <1>13, <2>2 DEF CaptureScript
    <2> QED
        BY <2>1, <2>2
<1>14. CASE Open(d, "log", "log", Produced(d, "log"), "openLog", "hashLog")
    <2>1. CASE Unknown(d)
        <3>1. UNCHANGED <<mode, world, machines, alone>>
            BY <1>14 DEF Open
        <3> QED
            BY <2>1, <3>1, EndTypes
    <2>2. CASE ~(Unknown(d))
        BY SMTT(30), <1>14, <2>2 DEF Open, Hold, Produced
    <2> QED
        BY <2>1, <2>2
<1>15. CASE Hash(d, "log", "log", "hashLog", "openOut")
    <2>1. CASE Unknown(d)
        <3>1. UNCHANGED <<mode, world, machines, alone>>
            BY <1>15 DEF Hash
        <3> QED
            BY <2>1, <3>1, EndTypes
    <2>2. CASE ~(Unknown(d))
        BY <1>15, <2>2 DEF Hash
    <2> QED
        BY <2>1, <2>2
<1>16. CASE Open(d, Output, "output", mode = "deck" \/ Produced(d, "output"), "openOut", "hashOut")
    <2>1. CASE Unknown(d)
        <3>1. UNCHANGED <<mode, world, machines, alone>>
            BY <1>16 DEF Open
        <3> QED
            BY <2>1, <3>1, EndTypes
    <2>2. CASE ~(Unknown(d))
        BY SMTT(30), <1>16, <2>2 DEF Open, Hold, Produced, Output
    <2> QED
        BY <2>1, <2>2
<1>17. CASE Hash(d, Output, "output", "hashOut", "inputs")
    <2>1. CASE Unknown(d)
        <3>1. UNCHANGED <<mode, world, machines, alone>>
            BY <1>17 DEF Hash
        <3> QED
            BY <2>1, <3>1, EndTypes
    <2>2. CASE ~(Unknown(d))
        BY <1>17, <2>2 DEF Hash, Output
    <2> QED
        BY <2>1, <2>2
<1>18. CASE RecheckInputs(d)
    <2>1. CASE Unknown(d)
        <3>1. UNCHANGED <<mode, world, machines, alone>>
            BY <1>18 DEF RecheckInputs
        <3> QED
            BY <2>1, <3>1, EndTypes
    <2>2. CASE ~(Unknown(d))
        BY <1>18, <2>2 DEF RecheckInputs
    <2> QED
        BY <2>1, <2>2
<1>19. CASE Decide(d)
    <2>1. CASE Unknown(d)
        <3>1. UNCHANGED <<mode, world, machines, alone>>
            BY <1>19 DEF Decide
        <3> QED
            BY <2>1, <3>1, EndTypes
    <2>2. CASE ~(Unknown(d))
        BY <1>19, <2>2 DEF Decide, Conclude, LogIsTheRecord
    <2> QED
        BY <2>1, <2>2
<1>20. CASE ReadDeck(d)
    BY <1>20 DEF ReadDeck
<1>21. CASE WriteOutput(d)
    BY <1>21 DEF WriteOutput, HasTemp
<1>22. CASE Exit(d)
    BY <1>22 DEF Exit
<1>23. CASE Kill(d)
    BY <1>23, EndTypes DEF Kill
<1> QED
    BY <1>1, <1>2, <1>3, <1>4, <1>5, <1>6, <1>7, <1>8, <1>9, <1>10, <1>11,
       <1>12, <1>13, <1>14, <1>15, <1>16, <1>17, <1>18, <1>19, <1>20, <1>21,
       <1>22, <1>23 DEF Acts, Step, Simulator, MoveOutputs, CaptureFiles

(* A step of a call keeps what is known of its own simulator and deck. *)
LEMMA DeckActs ==
    ASSUME TypeInv, DeckInv, LogInv, NEW d \in Calls, Acts(d)
    PROVE  Deck(d)'
<1> USE NobodyAssumption, BoundAssumption DEF vars, world, records, machines,
   Goto, End, Refuse, Unknown, Ended, Active, NotRead, Names, NoEvidence,
   TypeInv, DeckInv, Deck, LogInv, Log, Stages, BeforeLaunch, Moving,
   Captured, Concluded
<1>1. CASE Call(d)
    BY <1>1 DEF Call
<1>2. CASE Record(d)
    BY <1>2 DEF Record
<1>3. CASE Scan(d)
    BY <1>3 DEF Scan, Fresh
<1>4. CASE WriteScript(d)
    BY <1>4 DEF WriteScript
<1>5. CASE RereadScript(d)
    BY <1>5 DEF RereadScript
<1>6. CASE Guard(d)
    BY <1>6 DEF Guard, Fresh
<1>7. CASE Launch(d)
    BY <1>7 DEF Launch
<1>8. CASE Wait(d)
    BY <1>8 DEF Wait
<1>9. CASE MoveLog(d)
    BY <1>9 DEF MoveLog, Move, Hold
<1>10. CASE Moved(d, "log", "log", "movedLog", IF mode = "deck" THEN "script" ELSE "moveRaw")
    BY <1>10 DEF Moved, Hold
<1>11. CASE Move(d, "raw", "output", temp[d], "moveRaw", "movedRaw")
    BY <1>11 DEF Move, Hold
<1>12. CASE Moved(d, "raw", "output", "movedRaw", "script")
    BY <1>12 DEF Moved, Hold
<1>13. CASE CaptureScript(d)
    BY SMTT(30), <1>13 DEF CaptureScript
<1>14. CASE Open(d, "log", "log", Produced(d, "log"), "openLog", "hashLog")
    BY <1>14 DEF Open, Hold, Produced
<1>15. CASE Hash(d, "log", "log", "hashLog", "openOut")
    BY <1>15 DEF Hash
<1>16. CASE Open(d, Output, "output", mode = "deck" \/ Produced(d, "output"), "openOut", "hashOut")
    BY SMTT(30), <1>16 DEF Open, Hold, Produced, Output
<1>17. CASE Hash(d, Output, "output", "hashOut", "inputs")
    BY <1>17 DEF Hash, Output
<1>18. CASE RecheckInputs(d)
    BY <1>18 DEF RecheckInputs
<1>19. CASE Decide(d)
    BY <1>19 DEF Decide, Conclude, LogIsTheRecord
<1>20. CASE ReadDeck(d)
    BY <1>20 DEF ReadDeck
<1>21. CASE WriteOutput(d)
    BY <1>21 DEF WriteOutput, HasTemp
<1>22. CASE Exit(d)
    BY <1>22 DEF Exit
<1>23. CASE Kill(d)
    BY <1>23 DEF Kill
<1> QED
    BY <1>1, <1>2, <1>3, <1>4, <1>5, <1>6, <1>7, <1>8, <1>9, <1>10, <1>11,
       <1>12, <1>13, <1>14, <1>15, <1>16, <1>17, <1>18, <1>19, <1>20, <1>21,
       <1>22, <1>23 DEF Acts, Step, Simulator, MoveOutputs, CaptureFiles

(* A step of a call keeps what is known of its own log. *)
LEMMA LogActs ==
    ASSUME TypeInv, DeckInv, LogInv, NEW d \in Calls, Acts(d)
    PROVE  LogFile' /\ Log(d)'
<1> USE NobodyAssumption, BoundAssumption DEF vars, world, records, machines,
   Goto, End, Refuse, Unknown, Ended, Active, NotRead, Names, NoEvidence,
   TypeInv, DeckInv, Deck, LogInv, LogFile, Log, Stages, BeforeLaunch, Moving,
   Captured, Concluded
<1>1. CASE Call(d)
    BY <1>1 DEF Call
<1>2. CASE Record(d)
    BY <1>2 DEF Record
<1>3. CASE Scan(d)
    BY <1>3 DEF Scan, Fresh
<1>4. CASE WriteScript(d)
    BY <1>4 DEF WriteScript
<1>5. CASE RereadScript(d)
    BY <1>5 DEF RereadScript
<1>6. CASE Guard(d)
    BY <1>6 DEF Guard, Fresh
<1>7. CASE Launch(d)
    BY <1>7 DEF Launch
<1>8. CASE Wait(d)
    BY <1>8 DEF Wait
<1>9. CASE MoveLog(d)
    BY <1>9 DEF MoveLog, Move, Hold
<1>10. CASE Moved(d, "log", "log", "movedLog", IF mode = "deck" THEN "script" ELSE "moveRaw")
    BY <1>10 DEF Moved, Hold
<1>11. CASE Move(d, "raw", "output", temp[d], "moveRaw", "movedRaw")
    BY <1>11 DEF Move, Hold
<1>12. CASE Moved(d, "raw", "output", "movedRaw", "script")
    BY <1>12 DEF Moved, Hold
<1>13. CASE CaptureScript(d)
    BY <1>13 DEF CaptureScript
<1>14. CASE Open(d, "log", "log", Produced(d, "log"), "openLog", "hashLog")
    BY <1>14 DEF Open, Hold, Produced
<1>15. CASE Hash(d, "log", "log", "hashLog", "openOut")
    BY <1>15 DEF Hash
<1>16. CASE Open(d, Output, "output", mode = "deck" \/ Produced(d, "output"), "openOut", "hashOut")
    BY <1>16 DEF Open, Hold, Produced, Output
<1>17. CASE Hash(d, Output, "output", "hashOut", "inputs")
    BY <1>17 DEF Hash, Output
<1>18. CASE RecheckInputs(d)
    BY <1>18 DEF RecheckInputs
<1>19. CASE Decide(d)
    BY <1>19 DEF Decide, Conclude, LogIsTheRecord
<1>20. CASE ReadDeck(d)
    BY <1>20 DEF ReadDeck
<1>21. CASE WriteOutput(d)
    BY <1>21 DEF WriteOutput, HasTemp
<1>22. CASE Exit(d)
    BY <1>22 DEF Exit
<1>23. CASE Kill(d)
    BY <1>23 DEF Kill
<1> QED
    BY <1>1, <1>2, <1>3, <1>4, <1>5, <1>6, <1>7, <1>8, <1>9, <1>10, <1>11,
       <1>12, <1>13, <1>14, <1>15, <1>16, <1>17, <1>18, <1>19, <1>20, <1>21,
       <1>22, <1>23 DEF Acts, Step, Simulator, MoveOutputs, CaptureFiles

(* A step of a call that is alone leaves its own where it looks. *)
LEMMA OwnActs ==
    ASSUME TypeInv, DeckInv, LogInv, OwnInv, NEW d \in Calls, Acts(d), Working(d)'
    PROVE  Own(d)'
<1> USE NobodyAssumption, BoundAssumption DEF vars, world, records, machines,
   Goto, End, Refuse, Unknown, Ended, Active, NotRead, Names, NoEvidence,
   TypeInv, DeckInv, Deck, LogInv, LogFile, Log, OwnInv, Own, Working,
   Launching, Accepted, HoldsOutput, Stages, BeforeLaunch, Moving, Captured,
   Concluded, Fresh, HasTemp
<1>1. CASE Call(d)
    BY <1>1 DEF Call
<1>2. CASE Record(d)
    BY <1>2 DEF Record
<1>3. CASE Scan(d)
    BY <1>3 DEF Scan, Fresh
<1>4. CASE WriteScript(d)
    BY <1>4 DEF WriteScript
<1>5. CASE RereadScript(d)
    BY <1>5 DEF RereadScript
<1>6. CASE Guard(d)
    BY <1>6 DEF Guard, Fresh
<1>7. CASE Launch(d)
    BY <1>7 DEF Launch
<1>8. CASE Wait(d)
    BY <1>8 DEF Wait
<1>9. CASE MoveLog(d)
    BY <1>9 DEF MoveLog, Move, Hold
<1>10. CASE Moved(d, "log", "log", "movedLog", IF mode = "deck" THEN "script" ELSE "moveRaw")
    BY <1>10 DEF Moved, Hold
<1>11. CASE Move(d, "raw", "output", temp[d], "moveRaw", "movedRaw")
    BY <1>11 DEF Move, Hold
<1>12. CASE Moved(d, "raw", "output", "movedRaw", "script")
    BY <1>12 DEF Moved, Hold
<1>13. CASE CaptureScript(d)
    BY <1>13 DEF CaptureScript
<1>14. CASE Open(d, "log", "log", Produced(d, "log"), "openLog", "hashLog")
    BY SMTT(30), <1>14 DEF Open, Hold, Produced
<1>15. CASE Hash(d, "log", "log", "hashLog", "openOut")
    BY <1>15 DEF Hash
<1>16. CASE Open(d, Output, "output", mode = "deck" \/ Produced(d, "output"), "openOut", "hashOut")
    BY <1>16 DEF Open, Hold, Produced, Output
<1>17. CASE Hash(d, Output, "output", "hashOut", "inputs")
    BY <1>17 DEF Hash, Output
<1>18. CASE RecheckInputs(d)
    BY <1>18 DEF RecheckInputs
<1>19. CASE Decide(d)
    BY <1>19 DEF Decide, Conclude, LogIsTheRecord
<1>20. CASE ReadDeck(d)
    BY <1>20 DEF ReadDeck
<1>21. CASE WriteOutput(d)
    BY <1>21 DEF WriteOutput, HasTemp
<1>22. CASE Exit(d)
    BY <1>22 DEF Exit
<1>23. CASE Kill(d)
    BY <1>23 DEF Kill
<1> QED
    BY <1>1, <1>2, <1>3, <1>4, <1>5, <1>6, <1>7, <1>8, <1>9, <1>10, <1>11,
       <1>12, <1>13, <1>14, <1>15, <1>16, <1>17, <1>18, <1>19, <1>20, <1>21,
       <1>22, <1>23 DEF Acts, Step, Simulator, MoveOutputs, CaptureFiles

(* A call that begins beside another one is not alone.                     *)
LEMMA Alone ==
    ASSUME IInv, NEW c \in Calls, Acts(c), alone'[c], Active(c)', NEW e \in Calls \ {c}
    PROVE  ~Active(e)
<1>1. CASE Call(c)
    BY <1>1 DEF Call, IInv, TypeInv
<1>2. CASE ~Call(c)
    <2>1. alone[c] /\ Active(c)
        BY <1>2 DEF Acts, Step, Simulator, MoveOutputs, MoveLog, CaptureFiles,
           Record, Scan, WriteScript, RereadScript, Guard, Launch, Wait, Move,
           Moved, CaptureScript, Open, Hash, RecheckInputs, Decide, ReadDeck,
           WriteOutput, Exit, Kill, Active, Ended
    <2> QED
        BY <2>1 DEF IInv, QuietInv
<1> QED
    BY <1>1, <1>2
(***************************************************************************)
(* A step belongs to a call, is the outsider's edit, or does nothing.      *)
(***************************************************************************)
LEMMA NextCases ==
    ASSUME [Next]_vars
    PROVE  (\E d \in Calls : Acts(d)) \/ Edit \/ UNCHANGED vars
BY DEF Next, Acts, AllEnded

(* The types: every action of a call, and the edit.                        *)
LEMMA TypeStep == IInv /\ [Next]_vars => TypeInv'
<1> SUFFICES ASSUME IInv, [Next]_vars PROVE TypeInv'
    OBVIOUS
<1>1. ASSUME NEW d \in Calls, Acts(d) PROVE TypeInv'
    BY <1>1, TypeActs DEF IInv
<1>2. CASE Edit
    BY <1>2, BoundAssumption DEF Edit, IInv, TypeInv, records, machines
<1>3. CASE UNCHANGED vars
    BY <1>3 DEF vars, world, records, machines, IInv, TypeInv
<1> QED
    BY <1>1, <1>2, <1>3, NextCases

(* What holds of the call that acts holds of the others: they are kept.    *)
LEMMA DeckStep == IInv /\ [Next]_vars => DeckInv'
<1> SUFFICES ASSUME IInv, [Next]_vars, NEW c \in Calls PROVE Deck(c)'
    BY DEF DeckInv
<1> USE DEF IInv, Deck, Concluded
<1>1. ASSUME NEW d \in Calls, Acts(d) PROVE Deck(c)'
    <2>1. CASE d = c
        BY <1>1, <2>1, DeckActs
    <2>2. CASE d # c
        <3>1. Kept(c)
            BY <1>1, <2>2, Frame
        <3>2. version' = version
            BY <1>1 DEF Acts, Step, Simulator, MoveOutputs, MoveLog, CaptureFiles,
               Call, Record, Scan, WriteScript, RereadScript, Guard, Launch, Wait,
               Move, Moved, CaptureScript, Open, Hash, RecheckInputs, Decide,
               ReadDeck, WriteOutput, Exit, Kill, world
        <3> QED
            BY <3>1, <3>2 DEF Kept, DeckInv
    <2> QED
        BY <2>1, <2>2
<1>2. CASE Edit
    BY <1>2 DEF Edit, DeckInv, TypeInv, records, machines
<1>3. CASE UNCHANGED vars
    BY <1>3 DEF vars, world, records, machines, DeckInv
<1> QED
    BY <1>1, <1>2, <1>3, NextCases

(* A simulator reads the deck once, so what a log says stays settled.      *)
LEMMA Settled ==
    ASSUME TypeInv, NEW d \in Calls, Acts(d), NEW e \in Calls, read[e] # NotRead
    PROVE  read'[e] = read[e] /\ verdict'[e] = verdict[e]
BY DEF Acts, Step, Simulator, MoveOutputs, MoveLog, CaptureFiles, Call, Record,
   Scan, WriteScript, RereadScript, Guard, Launch, Wait, Move, Moved,
   CaptureScript, Open, Hash, RecheckInputs, Decide, ReadDeck, WriteOutput,
   Exit, Kill, machines, TypeInv

(* The log a call holds, whoever acts.                                     *)
LEMMA LogStep == IInv /\ [Next]_vars => LogInv'
<1> SUFFICES ASSUME IInv, [Next]_vars PROVE LogInv'
    OBVIOUS
<1> USE DEF IInv, LogInv, Log, LogFile, Concluded
<1>1. ASSUME NEW d \in Calls, Acts(d) PROVE LogInv'
    <2>1. LogFile' /\ Log(d)'
        BY <1>1, LogActs
    <2>2. ASSUME NEW c \in Calls \ {d} PROVE Log(c)'
        <3>1. Kept(c)
            BY <1>1, Frame
        <3>2. evidence[c]["log"] \in Calls \cup {Nobody}
            BY DEF TypeInv
        <3>3. evidence[c]["log"] # Nobody =>
                /\ read'[evidence[c]["log"]] = read[evidence[c]["log"]]
                /\ verdict'[evidence[c]["log"]] = verdict[evidence[c]["log"]]
            BY <1>1, <3>2, Settled
        <3> QED
            BY <3>1, <3>3 DEF Kept
    <2> QED
        BY <2>1, <2>2
<1>2. CASE Edit
    BY <1>2 DEF Edit, records, machines
<1>3. CASE UNCHANGED vars
    BY <1>3 DEF vars, world, records, machines
<1> QED
    BY <1>1, <1>2, <1>3, NextCases

(* Only a call that begins takes a step beside one that is under way, and  *)
(* then neither of them is alone any more.                                 *)
LEMMA QuietStep == IInv /\ [Next]_vars => QuietInv'
<1> SUFFICES ASSUME IInv, [Next]_vars, NEW c \in Calls, NEW e \in Calls \ {c},
                    alone'[c], Active(c)'
             PROVE  ~Active(e)'
    BY DEF QuietInv
<1> USE DEF IInv
<1>1. ASSUME NEW d \in Calls, Acts(d) PROVE ~Active(e)'
    <2>1. CASE d = c
        <3>1. Kept(e)
            BY <1>1, <2>1, Frame
        <3>2. ~Active(e)
            BY <1>1, <2>1, Alone
        <3> QED
            BY <3>1, <3>2 DEF Kept, Active, Ended
    <2>2. CASE d # c
        <3>1. Kept(c) /\ alone[c] /\ (Active(d) \/ ~Active(c))
            BY <1>1, <2>2, Frame
        <3>2. Active(c)
            BY <3>1 DEF Kept, Active, Ended
        <3>3. ~Active(d)
            BY <2>2, <3>1, <3>2 DEF QuietInv
        <3> QED
            BY <3>1, <3>2, <3>3
    <2> QED
        BY <2>1, <2>2
<1>2. CASE Edit
    BY <1>2 DEF Edit, machines, Active, Ended, QuietInv
<1>3. CASE UNCHANGED vars
    BY <1>3 DEF vars, machines, Active, Ended, QuietInv
<1> QED
    BY <1>1, <1>2, <1>3, NextCases

(* A step of another call does not touch the files of one that is alone.   *)
LEMMA OwnStep == IInv /\ [Next]_vars => OwnInv'
<1> SUFFICES ASSUME IInv, [Next]_vars, NEW c \in Calls, Working(c)' PROVE Own(c)'
    BY DEF OwnInv
<1> USE DEF IInv
<1>1. ASSUME NEW d \in Calls, Acts(d) PROVE Own(c)'
    <2>1. CASE d = c
        BY <1>1, <2>1, OwnActs
    <2>2. CASE d # c
        <3>1. /\ Kept(c) /\ alone[c] /\ (Active(d) \/ ~Active(c))
              /\ temp'[c] # temp[c] => HasTemp(c)
            BY <1>1, <2>2, Frame DEF Working
        <3>2. ~Active(c)
            BY <2>2, <3>1 DEF QuietInv
        <3>3. Working(c)
            BY <3>1 DEF Working, Kept
        <3>4. pc[c] \in {"idle", "returned"} /\ pc'[c] = pc[c]
            BY <3>1, <3>2, <3>3 DEF Working, Active, Ended, Kept
        <3>5. temp'[c] = temp[c]
            BY <3>1, <3>4 DEF HasTemp
        <3> QED
            BY <3>1, <3>3, <3>4, <3>5 DEF OwnInv, Own, Kept, Launching, Accepted,
               Moving, Captured, HoldsOutput, Concluded
    <2> QED
        BY <2>1, <2>2
<1>2. CASE Edit
    BY <1>2 DEF Edit, records, machines, OwnInv, Own, Working, Concluded
<1>3. CASE UNCHANGED vars
    BY <1>3 DEF vars, world, records, machines, OwnInv, Own, Working, Concluded
<1> QED
    BY <1>1, <1>2, <1>3, NextCases

(* The invariant holds before any call begins.                             *)
LEMMA InitIInv == Init => IInv
<1> SUFFICES ASSUME Init PROVE IInv
    OBVIOUS
<1> USE NobodyAssumption, BoundAssumption DEF Init, NotRead
<1>1. TypeInv
    BY DEF TypeInv, Stages, BeforeLaunch, NoEvidence
<1>2. DeckInv
    <2> SUFFICES ASSUME NEW c \in Calls PROVE Deck(c)
        BY DEF DeckInv
    <2>1. /\ pc[c] = "idle" /\ status[c] = "unknown" /\ ngspice[c] = "none"
          /\ recorded[c] = -1 /\ read[c] = -1 /\ version = 0
        OBVIOUS
    <2> HIDE DEF Init
    <2> QED
        BY <2>1 DEF Deck, BeforeLaunch, Concluded
<1>3. LogInv
    BY DEF LogInv, LogFile, Log, Moving, Captured, Concluded, Names, NoEvidence
<1>4. QuietInv
    BY DEF QuietInv, Active, Ended
<1>5. OwnInv
    BY DEF OwnInv, Own, Launching, Accepted, Moving, Captured, HoldsOutput, Concluded
<1> QED
    BY <1>1, <1>2, <1>3, <1>4, <1>5 DEF IInv

(* The invariant all the theorems rest on.                                 *)
THEOREM Invariance == Spec => []IInv
<1>1. IInv /\ [Next]_vars => IInv'
    BY TypeStep, DeckStep, LogStep, QuietStep, OwnStep DEF IInv
<1> QED
    BY InitIInv, <1>1, PTL DEF Spec

(* Every reachable state of the calls, files and simulators is well typed. *)
THEOREM TypeCorrect == Spec => []TypeOK
<1>1. IInv => TypeOK
    BY DEF IInv, TypeInv, TypeOK, LogInv, Log, Captured
<1> QED
    BY Invariance, <1>1, PTL

(* A verdict is about the deck its call recorded: the simulator read it,   *)
(* and it was still the same when the inputs were hashed again.            *)
THEOREM DeckConcluded == Spec => []ConcludesAboutTheDeck
<1>1. IInv => ConcludesAboutTheDeck
    BY DEF IInv, DeckInv, Deck, LogInv, Log, ConcludesAboutTheDeck
<1> QED
    BY Invariance, <1>1, PTL

(* The log a verdict was read from is the one it cites, however many calls *)
(* write to the same directory.                                            *)
THEOREM VerdictFits == Spec => []VerdictFitsEvidence
<1>1. IInv => VerdictFitsEvidence
    BY DEF IInv, LogInv, Log, VerdictFitsEvidence
<1> QED
    BY Invariance, <1>1, PTL

(* A call that was alone cites only what its own ngspice wrote.            *)
THEOREM AloneOwn == Spec => []AloneConcludesFromOwn
<1>1. ASSUME IInv, NEW c \in Calls, Concluded(c), alone[c] PROVE OwnEvidence(c)
    <2>1. pc[c] = "returned" /\ read[c] # NotRead
        BY <1>1 DEF IInv, DeckInv, Deck, LogInv, Log
    <2>2. Own(c)
        BY <1>1, <2>1 DEF IInv, OwnInv, Working
    <2>3. evidence[c] \in [{"log", "output"} -> Calls \cup {Nobody}]
        BY <1>1 DEF IInv, TypeInv
    <2> QED
        BY <1>1, <2>1, <2>2, <2>3 DEF Own, OwnEvidence
<1>2. IInv => AloneConcludesFromOwn
    BY <1>1 DEF AloneConcludesFromOwn
<1> QED
    BY Invariance, <1>2, PTL

-----------------------------------------------------------------------------
(***************************************************************************)
(* SimulateCall. What a call has composed stays in its memory; a text that is *)
(* at the path of its deck whenever the driver looks was there in between, *)
(* unless another call composes the same.                                  *)
(***************************************************************************)
SimStep   == {"library", "objects", "load", "bind", "before", "write", "reread", "enter", "guard",
              "launch", "recheck", "after", "reply"}
Unloaded  == {"library", "objects", "load"}
Text0     == [deck : Nat, library : Nat, source : Source \cup {"scribble"}]
Outcome   == {<<"invalid_request", "unknown">>, <<"timed_out", "unknown">>,
              <<"completed", "pass">>, <<"failed", "fail">>}

SimTypes ==
    /\ request \in [Caller -> Request]
    /\ file \in [{"deck", "library", "object"} -> Nat \ {0}]
    /\ decks \in [1..2 -> Text0]
    /\ at \in [Caller -> SimStep] /\ taken \in [Caller -> [deck : Nat, library : Nat]]
    /\ bound \in [Caller -> Nat] /\ held \in [Caller -> Text0]
    /\ reads \in [Caller -> Seq([text : Text0, object : Nat])]
    /\ results \in [Caller -> Seq(Outcome)]
    /\ reply \in [Caller -> [index : Nat, status : {"none", "refused", "pass", "fail", "unknown"}]]

(* How far a call is: a result for every analysis behind it, and one       *)
(* reading more while the simulator's run is to be concluded from.         *)
Progress(c) ==
    /\ at[c] \in Unloaded \cup {"bind"} => Len(results[c]) = 0
    /\ at[c] \notin {"after", "reply"} => Len(results[c]) < request[c].analyses
    /\ at[c] = "after" => /\ request[c].source = "pdk"
                          /\ 0 < Len(results[c]) /\ Len(results[c]) <= request[c].analyses
    /\ at[c] = "reply" => Len(results[c]) = request[c].analyses
    /\ at[c] = "recheck" => Len(reads[c]) = Len(results[c]) + 1
    /\ at[c] # "recheck" => Len(reads[c]) = Len(results[c])
    /\ at[c] = "objects" => Reviewed(request[c])
    /\ at[c] = "bind" => request[c].target = "deck"
    /\ at[c] \in {"before", "write", "reread"} => Derived(request[c])

(* What the call holds in memory is settled once it has been loaded.       *)
Held(c) ==
    /\ at[c] \in Unloaded <=> taken[c].deck = 0
    /\ request[c].source = "cosim" /\ at[c] # "library" => taken[c].library = 1
    /\ bound[c] <= file.deck

(* From the entry on, the driver holds the text that the call named; what  *)
(* the simulator read lies between that and now.                           *)
Ran(c) ==
    request[c].backend = "ngspice" =>
        /\ at[c] \in {"guard", "launch", "recheck"} => held[c] = Expected(c)
        /\ at[c] = "recheck" =>
              LET run == reads[c][Len(reads[c])] IN
              /\ 0 < run.object /\ run.object <= file.object
              /\ Derived(request[c]) /\ ~Alike(c) /\ OnDisk(c) = Text(c) => run.text = Text(c)
              /\ ~Derived(request[c]) => bound[c] <= run.text.deck /\ run.text.deck <= file.deck

(* The objects that the driver is not told to look at are looked at after  *)
(* the run, so all is known only then.                                     *)
Fine(c, i) ==
    results[c][i][2] \in {"pass", "fail"} =>
        LET run == reads[c][i] IN
        /\ Derived(request[c]) /\ ~Alike(c) => run.text = Text(c)
        /\ ~Derived(request[c]) => run.text.deck = bound[c]
        /\ 0 < run.object /\ run.object <= file.object
        /\ Pinned(request[c]) => run.object = 1
        /\ request[c].source = "pdk" /\ at[c] = "reply" => run.object = 1
Done(c) == request[c].backend = "ngspice" => \A i \in DOMAIN results[c] : Fine(c, i)

Replied(c) ==
    /\ reply[c].status \in {"pass", "fail", "unknown"} => at[c] = "reply"
    /\ reply[c].status = "pass" => /\ \A i \in DOMAIN results[c] : results[c][i][2] = "pass"
                                   /\ reply[c].index = 1

SimInv == SimTypes /\ \A c \in Caller : Progress(c) /\ Held(c) /\ Ran(c) /\ Done(c) /\ Replied(c)

(* What a step of a call leaves alone: the versions of the files, and what *)
(* every other call remembers.                                             *)
SimKeeps(c) ==
    /\ request' = request
    /\ at'[c] = at[c] /\ taken'[c] = taken[c] /\ bound'[c] = bound[c] /\ held'[c] = held[c]
    /\ reads'[c] = reads[c] /\ results'[c] = results[c] /\ reply'[c] = reply[c]

(* A step of a call is about that call; it edits nothing that the caller   *)
(* gave.                                                                   *)
LEMMA SimOthers ==
    ASSUME SimTypes, NEW c \in Caller, CallStep(c)
    PROVE  /\ request' = request /\ file' = file
           /\ \A d \in Caller \ {c} : SimKeeps(d)
<1> USE DEF SimTypes, SimKeeps, Goes, Refuses
<1>1. CASE Library(c)
    BY <1>1 DEF Library
<1>2. CASE Objects(c)
    BY <1>2 DEF Objects
<1>3. CASE Load(c)
    BY <1>3 DEF Load
<1>4. CASE Bind(c) \/ WriteDeck(c) \/ Reread(c)
    BY <1>4 DEF Bind, WriteDeck, Reread
<1>5. CASE Enter(c)
    BY <1>5 DEF Enter, GivesUp, Gets
<1>6. CASE LaunchGuard(c)
    BY <1>6 DEF LaunchGuard, GivesUp, Gets
<1>7. CASE Simulates(c)
    BY <1>7 DEF Simulates
<1>8. CASE RecheckRun(c)
    BY <1>8 DEF RecheckRun, Gets
<1>9. CASE Replies(c)
    BY <1>9 DEF Replies
<1> QED
    BY <1>1, <1>2, <1>3, <1>4, <1>5, <1>6, <1>7, <1>8, <1>9 DEF CallStep

(* The steps that there are.                                               *)
LEMMA FollowsTypes ==
    ASSUME NEW r \in Request, NEW ran, NEW step \in SimStep \ {"reply"}
    PROVE  Follows(r, ran, step) \in SimStep \ {"library"}
BY DEF SimStep, Follows, Onward, Dispatch

(* The types of what a step writes.                                        *)
LEMMA Following ==
    ASSUME SimTypes, NEW c \in Caller, Goes(c), at[c] # "reply"
    PROVE  at' \in [Caller -> SimStep]
<1>1. request[c] \in Request /\ at[c] \in SimStep \ {"reply"}
    BY DEF SimTypes
<1>2. Follows(request[c], Len(results[c]), at[c]) \in SimStep
    BY <1>1, FollowsTypes
<1> QED
    BY <1>2 DEF Goes, SimTypes

(* The driver's result makes the list of results longer by one.            *)
LEMMA Getting ==
    ASSUME SimTypes, NEW c \in Caller, NEW result \in Outcome, Gets(c, result)
    PROVE  at' \in [Caller -> SimStep] /\ results' \in [Caller -> Seq(Outcome)]
<1>1. Follows(request[c], Turn(c), "recheck") \in SimStep
    BY FollowsTypes DEF SimTypes, SimStep
<1>2. at' \in [Caller -> SimStep]
    BY <1>1 DEF Gets, SimTypes
<1>3. Append(results[c], result) \in Seq(Outcome)
    BY DEF SimTypes
<1> QED
    BY <1>2, <1>3 DEF Gets, SimTypes

(* A composed text is never what a scribbler leaves behind.                *)
LEMMA TextTypes ==
    ASSUME SimTypes, NEW c \in Caller
    PROVE  /\ Scribble \in Text0 /\ Text(c) \in Text0
           /\ [deck |-> file.deck, library |-> 0, source |-> "none"] \in Text0
           /\ Text(c) # Scribble
<1>1. request[c].source \in Source /\ "scribble" \notin Source
    BY DEF SimTypes, Request, Source
<1>2. taken[c].deck \in Nat /\ taken[c].library \in Nat /\ file.deck \in Nat
    BY DEF SimTypes
<1> QED
    BY <1>1, <1>2 DEF Text, Text0, Scribble, Source

(* An analysis is dispatched for the one whose turn it is.                 *)
LEMMA OnDiskTypes ==
    ASSUME SimTypes, NEW c \in Caller, Progress(c), at[c] \notin {"after", "reply"}
    PROVE  Turn(c) \in 1..2 /\ OnDisk(c) \in Text0 /\ Len(results[c]) \in Nat
<1>1. Len(results[c]) \in Nat
    BY DEF SimTypes
<1>2. request[c].analyses \in 1..2
    BY DEF SimTypes, Request
<1>3. Turn(c) \in 1..2
    BY <1>1, <1>2 DEF Progress, Turn
<1> QED
    BY <1>1, <1>3, TextTypes DEF OnDisk, SimTypes

(* The types hold at the start.                                            *)
LEMMA SimTypesInit == SimInit => SimTypes
<1> SUFFICES ASSUME SimInit PROVE SimTypes
    OBVIOUS
<1>1. request \in [Caller -> Request]
    BY DEF SimInit
<1>2. \A c \in Caller : Begins(request[c]) \in SimStep
    BY DEF Begins, SimStep
<1>3. at \in [Caller -> SimStep]
    BY <1>2 DEF SimInit
<1>4. Scribble \in Text0 /\ Unasked.index \in Nat /\ Unasked \in [index : Nat, status : {"none", "refused", "pass", "fail", "unknown"}]
    BY DEF Scribble, Text0, Unasked
<1>5. <<>> \in Seq(Outcome) /\ <<>> \in Seq([text : Text0, object : Nat])
    OBVIOUS
<1>6. file \in [{"deck", "library", "object"} -> Nat \ {0}] /\ decks \in [1..2 -> Text0]
    BY <1>4 DEF SimInit
<1> QED
    BY <1>1, <1>3, <1>4, <1>5, <1>6 DEF SimInit, SimTypes

(* A refusal writes the reply only.                                        *)
LEMMA RefuseKeepsTypes == ASSUME SimTypes, NEW c \in Caller, Refuses(c) PROVE SimTypes'
<1>1. reply' \in [Caller -> [index : Nat, status : {"none", "refused", "pass", "fail", "unknown"}]]
    BY DEF Refuses, SimTypes
<1> QED
    BY <1>1 DEF Refuses, SimTypes

(* A sequence grows by an element of its set.                              *)
LEMMA Longer == ASSUME NEW S, NEW s \in Seq(S), NEW e \in S PROVE Append(s, e) \in Seq(S)
OBVIOUS

(* A driver that gives up adds a result and an empty reading.              *)
LEMMA GivesUpTypes ==
    ASSUME SimTypes, NEW c \in Caller, GivesUp(c)
    PROVE  SimTypes'
<1>1. at' \in [Caller -> SimStep] /\ results' \in [Caller -> Seq(Outcome)]
    BY Getting DEF GivesUp, Outcome
<1>2. [text |-> Scribble, object |-> 0] \in [text : Text0, object : Nat]
    BY TextTypes
<1>3. Append(reads[c], [text |-> Scribble, object |-> 0]) \in Seq([text : Text0, object : Nat])
    BY <1>2, Longer DEF SimTypes
<1>4. reads' \in [Caller -> Seq([text : Text0, object : Nat])]
    BY <1>3 DEF GivesUp, SimTypes
<1> QED
    BY <1>1, <1>4 DEF GivesUp, SimTypes

(* The weakest of the one or two results: it is a pass only if all are.    *)
LEMMA WeakestOfFew ==
    ASSUME NEW all \in Seq(Outcome), Len(all) \in 1..2
    PROVE  /\ Weakest(all) \in DOMAIN all
           /\ all[Weakest(all)][2] = "pass" =>
                 Weakest(all) = 1 /\ \A i \in DOMAIN all : all[i][2] = "pass"
<1> DEFINE Choice(i) == \A j \in DOMAIN all \ {i} : Weaker(all[i], all[j]) \/ (i < j /\ ~Weaker(all[j], all[i]))
<1>1. /\ RankOf(ExecutionPrecedence, "completed") = 1 /\ RankOf(ExecutionPrecedence, "timed_out") = 2
      /\ RankOf(ExecutionPrecedence, "failed") = 4 /\ RankOf(ExecutionPrecedence, "invalid_request") = 5
    BY DEF RankOf, ExecutionPrecedence
<1>2. /\ RankOf(EngineeringPrecedence, "pass") = 1 /\ RankOf(EngineeringPrecedence, "fail") = 3
      /\ RankOf(EngineeringPrecedence, "unknown") = 4
    BY DEF RankOf, EngineeringPrecedence
<1> DEFINE Rank(z) == IF z = <<"completed", "pass">> THEN 1 ELSE IF z = <<"timed_out", "unknown">> THEN 2
                      ELSE IF z = <<"failed", "fail">> THEN 3 ELSE 4
<1>3. \A x, y \in Outcome : Weaker(x, y) <=> Rank(x) > Rank(y)
    BY <1>1, <1>2 DEF Weaker, Outcome
<1>4. \A i \in DOMAIN all : all[i] \in Outcome /\ Rank(all[i]) \in 1..4
    BY DEF Outcome
<1>5. \A x \in Outcome : x[2] = "pass" <=> Rank(x) = 1
    BY DEF Outcome
<1> HIDE DEF Rank
<1>6. \E i \in DOMAIN all : Choice(i)
    <2>1. CASE Len(all) = 1
        <3>1. DOMAIN all = {1}
            BY <2>1
        <3> QED
            BY <3>1
    <2>2. CASE Len(all) = 2
        <3>1. DOMAIN all = {1, 2}
            BY <2>2
        <3>2. CASE Rank(all[1]) >= Rank(all[2])
            <4>1. ~Weaker(all[2], all[1])
                BY <3>1, <3>2, <1>3, <1>4
            <4>2. Choice(1)
                BY <3>1, <4>1
            <4> QED
                BY <3>1, <4>2
        <3>3. CASE Rank(all[1]) < Rank(all[2])
            <4>1. Weaker(all[2], all[1])
                BY <3>1, <3>3, <1>3, <1>4
            <4>2. Choice(2)
                BY <3>1, <4>1
            <4> QED
                BY <3>1, <4>2
        <3> QED
            BY <3>1, <3>2, <3>3, <1>4
    <2> QED
        BY <2>1, <2>2
<1>7. Weakest(all) \in DOMAIN all /\ Choice(Weakest(all))
    BY <1>6 DEF Weakest
<1>8. ASSUME all[Weakest(all)][2] = "pass"
      PROVE  Weakest(all) = 1 /\ \A i \in DOMAIN all : all[i][2] = "pass"
    <2> DEFINE k == Weakest(all)
    <2>1. Rank(all[k]) = 1
        BY <1>5, <1>7, <1>4, <1>8
    <2>2. \A j \in DOMAIN all \ {k} : ~Weaker(all[k], all[j])
        BY <2>1, <1>3, <1>4, <1>7
    <2>3. \A j \in DOMAIN all \ {k} : k < j /\ ~Weaker(all[j], all[k])
        BY <2>2, <1>7
    <2>4. \A j \in DOMAIN all \ {k} : Rank(all[j]) = 1
        BY <2>1, <2>3, <1>3, <1>4, <1>7
    <2>5. 1 \in DOMAIN all /\ \A j \in DOMAIN all : 1 <= j
        OBVIOUS
    <2>6. k = 1
        <3>1. k \in DOMAIN all /\ 1 <= k
            BY <1>7, <2>5
        <3>2. 1 \in DOMAIN all \ {k} => k < 1
            BY <2>3
        <3> QED
            BY <3>1, <3>2, <2>5
    <2> QED
        BY <2>1, <2>4, <2>6, <1>4, <1>5
<1> QED
    BY <1>7, <1>8

(* The types are kept by every step.                                       *)
LEMMA SimTypesStep ==
    ASSUME SimTypes, \A c \in Caller : Progress(c), [SimNext]_simVars
    PROVE  SimTypes'
<1>1. ASSUME NEW c \in Caller, Library(c) PROVE SimTypes'
    <2>1. CASE Refuses(c)
        BY <2>1, RefuseKeepsTypes
    <2>2. CASE ~Refuses(c)
        <3>1. at' \in [Caller -> SimStep]
            BY <1>1, <2>2, Following DEF Library, Takes
        <3>2. taken' \in [Caller -> [deck : Nat, library : Nat]]
            <4>1. [taken[c] EXCEPT !.library = file.library] \in [deck : Nat, library : Nat]
                BY DEF SimTypes
            <4>2. taken' = [taken EXCEPT ![c].library = file.library]
                BY <1>1, <2>2 DEF Library
            <4> QED
                BY <4>1, <4>2 DEF SimTypes
        <3> QED
            BY <1>1, <2>2, <3>1, <3>2 DEF Library, SimTypes
    <2> QED
        BY <2>1, <2>2
<1>2. ASSUME NEW c \in Caller, Objects(c) PROVE SimTypes'
    <2>1. CASE Refuses(c)
        BY <2>1, RefuseKeepsTypes
    <2>2. CASE ~Refuses(c)
        <3>1. at' \in [Caller -> SimStep]
            BY <1>2, <2>2, Following DEF Objects, Takes
        <3> QED
            BY <1>2, <2>2, <3>1 DEF Objects, SimTypes
    <2> QED
        BY <2>1, <2>2
<1>3. ASSUME NEW c \in Caller, Load(c) PROVE SimTypes'
    <2>1. CASE Refuses(c)
        BY <2>1, RefuseKeepsTypes
    <2>2. CASE ~Refuses(c)
        <3>1. at' \in [Caller -> SimStep]
            BY <1>3, <2>2, Following DEF Load, Takes
        <3>2. taken' \in [Caller -> [deck : Nat, library : Nat]]
            <4>1. [taken[c] EXCEPT !.deck = file.deck] \in [deck : Nat, library : Nat]
                BY DEF SimTypes
            <4>2. taken' = [taken EXCEPT ![c].deck = file.deck]
                BY <1>3, <2>2 DEF Load
            <4> QED
                BY <4>1, <4>2 DEF SimTypes
        <3>3. bound' \in [Caller -> Nat]
            BY <1>3, <2>2 DEF Load, SimTypes
        <3> QED
            BY <1>3, <2>2, <3>1, <3>2, <3>3 DEF Load, SimTypes
    <2> QED
        BY <2>1, <2>2
<1>4. ASSUME NEW c \in Caller, Bind(c) PROVE SimTypes'
    <2>1. at' \in [Caller -> SimStep]
        BY <1>4, Following DEF Bind, Takes
    <2>2. bound' \in [Caller -> Nat]
        BY <1>4 DEF Bind, SimTypes
    <2> QED
        BY <1>4, <2>1, <2>2 DEF Bind, SimTypes
<1>5. ASSUME NEW c \in Caller, WriteDeck(c) PROVE SimTypes'
    <2>1. at' \in [Caller -> SimStep]
        BY <1>5, Following DEF WriteDeck, Takes
    <2>2. decks' \in [1..2 -> Text0]
        BY <1>5, TextTypes DEF WriteDeck, SimTypes
    <2> QED
        BY <1>5, <2>1, <2>2 DEF WriteDeck, SimTypes
<1>6. ASSUME NEW c \in Caller, Reread(c) PROVE SimTypes'
    <2>1. CASE Refuses(c)
        BY <2>1, RefuseKeepsTypes
    <2>2. CASE ~Refuses(c)
        <3>1. at' \in [Caller -> SimStep]
            BY <1>6, <2>2, Following DEF Reread, Takes
        <3> QED
            BY <1>6, <2>2, <3>1 DEF Reread, SimTypes
    <2> QED
        BY <2>1, <2>2
<1>7. ASSUME NEW c \in Caller, Enter(c) \/ LaunchGuard(c) PROVE SimTypes'
    <2>1. CASE GivesUp(c)
        BY <2>1, GivesUpTypes
    <2>2. CASE Enter(c) /\ ~GivesUp(c)
        <3>1. at' \in [Caller -> SimStep]
            BY <2>2, Following DEF Enter, Takes
        <3>2. OnDisk(c) \in Text0
            BY <2>2, OnDiskTypes DEF Enter, Takes
        <3>3. held' \in [Caller -> Text0]
            BY <2>2, <3>2 DEF Enter, SimTypes
        <3> QED
            BY <2>2, <3>1, <3>3 DEF Enter, SimTypes
    <2>3. CASE LaunchGuard(c) /\ ~GivesUp(c)
        <3>1. at' \in [Caller -> SimStep]
            BY <2>3, Following DEF LaunchGuard, Takes
        <3> QED
            BY <2>3, <3>1 DEF LaunchGuard, SimTypes
    <2> QED
        BY <1>7, <2>1, <2>2, <2>3
<1>8. ASSUME NEW c \in Caller, Simulates(c) PROVE SimTypes'
    <2>1. at' \in [Caller -> SimStep]
        BY <1>8, Following DEF Simulates, Takes
    <2>2. OnDisk(c) \in Text0 /\ file.object \in Nat
        BY <1>8, OnDiskTypes DEF Simulates, Takes, SimTypes
    <2>3. Append(reads[c], [text |-> OnDisk(c), object |-> file.object]) \in Seq([text : Text0, object : Nat])
        BY <2>2, Longer DEF SimTypes
    <2>4. reads' \in [Caller -> Seq([text : Text0, object : Nat])]
        BY <1>8, <2>3 DEF Simulates, SimTypes
    <2> QED
        BY <1>8, <2>1, <2>4 DEF Simulates, SimTypes
<1>9. ASSUME NEW c \in Caller, RecheckRun(c) PROVE SimTypes'
    <2>1. PICK result \in Outcome : Gets(c, result)
        BY <1>9 DEF RecheckRun, Outcome
    <2>2. at' \in [Caller -> SimStep] /\ results' \in [Caller -> Seq(Outcome)]
        BY <2>1, Getting
    <2> QED
        BY <1>9, <2>2 DEF RecheckRun, SimTypes
<1>10. ASSUME NEW c \in Caller, Replies(c) PROVE SimTypes'
    <2>1. results[c] \in Seq(Outcome) /\ Len(results[c]) \in 1..2
        BY <1>10 DEF Replies, Takes, Progress, SimTypes, Request
    <2> DEFINE i == Weakest(results[c])
    <2>2. i \in DOMAIN results[c]
        BY <2>1, WeakestOfFew
    <2>3. i \in Nat /\ results[c][i] \in Outcome
        BY <2>1, <2>2
    <2>4. results[c][i][2] \in {"pass", "fail", "unknown"}
        BY <2>3 DEF Outcome
    <2> HIDE DEF i
    <2>5. reply' = [reply EXCEPT ![c] = [index |-> i, status |-> results[c][i][2]]]
        BY <1>10 DEF Replies, i
    <2>6. reply' \in [Caller -> [index : Nat, status : {"none", "refused", "pass", "fail", "unknown"}]]
        BY <2>3, <2>4, <2>5 DEF SimTypes
    <2> QED
        BY <1>10, <2>6 DEF Replies, SimTypes
<1>11. ASSUME NEW f \in DOMAIN file, Edits(f) PROVE SimTypes'
    <2>1. file' \in [{"deck", "library", "object"} -> Nat \ {0}]
        BY <1>11 DEF Edits, SimTypes
    <2> QED
        BY <1>11, <2>1 DEF Edits, SimTypes
<1>12. ASSUME NEW i \in DOMAIN decks, Overwrites(i) PROVE SimTypes'
    <2>1. Scribble \in Text0
        BY DEF Scribble, Text0
    <2> QED
        BY <1>12, <2>1 DEF Overwrites, SimTypes
<1>13. CASE UNCHANGED simVars
    BY <1>13 DEF simVars, SimTypes
<1> QED
    BY <1>1, <1>2, <1>3, <1>4, <1>5, <1>6, <1>7, <1>8, <1>9, <1>10, <1>11, <1>12, <1>13 DEF SimNext, CallStep

(* An element of a sequence.                                               *)
LEMMA Element == ASSUME NEW S, NEW s \in Seq(S), NEW i \in 1..Len(s) PROVE s[i] \in S
OBVIOUS

(* The files' versions grow, and a request is for ever.                    *)
LEMMA FilesGrow ==
    ASSUME SimTypes, [SimNext]_simVars
    PROVE  request' = request /\ file.deck <= file'.deck /\ file.object <= file'.object
<1>0. file.deck \in Nat /\ file.object \in Nat
    BY DEF SimTypes
<1>1. ASSUME NEW c \in Caller, CallStep(c) PROVE request' = request /\ file' = file
    BY <1>1, SimOthers
<1>2. ASSUME NEW f \in DOMAIN file, Edits(f)
      PROVE  request' = request /\ file.deck <= file'.deck /\ file.object <= file'.object
    BY <1>2 DEF Edits, SimTypes
<1>3. ASSUME NEW i \in DOMAIN decks, Overwrites(i) PROVE request' = request /\ file' = file
    BY <1>3 DEF Overwrites
<1>4. CASE UNCHANGED simVars
    BY <1>4, <1>0 DEF simVars
<1> QED
    BY <1>0, <1>1, <1>2, <1>3, <1>4 DEF SimNext

(* What a call has loaded it holds, and so with whom it agrees.            *)
LEMMA TextSettled ==
    ASSUME SimTypes, [SimNext]_simVars, NEW d \in Caller, at[d] \notin Unloaded
    PROVE  taken'[d] = taken[d] /\ Text(d)' = Text(d)
<1>1. ASSUME NEW c \in Caller, CallStep(c), c # d PROVE taken'[d] = taken[d]
    BY <1>1, SimOthers DEF SimKeeps
<1>2. ASSUME CallStep(d) PROVE taken'[d] = taken[d]
    BY <1>2 DEF CallStep, Library, Objects, Load, Bind, WriteDeck, Reread, Enter, LaunchGuard, GivesUp, Gets,
                Simulates, RecheckRun, Replies, Refuses, Takes, Unloaded
<1>3. ASSUME NEW f \in DOMAIN file, Edits(f) PROVE taken'[d] = taken[d]
    BY <1>3 DEF Edits
<1>4. ASSUME NEW i \in DOMAIN decks, Overwrites(i) PROVE taken'[d] = taken[d]
    BY <1>4 DEF Overwrites
<1>5. ASSUME UNCHANGED simVars PROVE taken'[d] = taken[d]
    BY <1>5 DEF simVars
<1>6. taken'[d] = taken[d]
    BY <1>1, <1>2, <1>3, <1>4, <1>5 DEF SimNext
<1> QED
    BY <1>6, FilesGrow DEF Text

(* Two calls that have composed the same text have done so for good.       *)
LEMMA AlikeStays ==
    ASSUME SimTypes, \A c \in Caller : Held(c), [SimNext]_simVars,
           NEW d \in Caller, at[d] \notin Unloaded, Alike(d)
    PROVE  Alike(d)'
<1>1. PICK e \in Caller \ {d} : Text(e) = Text(d)
    BY DEF Alike
<1>2. taken[e].deck = taken[d].deck
    BY <1>1 DEF Text
<1>3. at[e] \notin Unloaded
    BY <1>2 DEF Held
<1>4. Text(e)' = Text(e) /\ Text(d)' = Text(d)
    BY <1>3, TextSettled
<1> QED
    BY <1>1, <1>4 DEF Alike

(* Only a call that composes the same text can put it back.                *)
LEMMA NoneElseWrites ==
    ASSUME SimTypes, [SimNext]_simVars, NEW d \in Caller, ~Alike(d), ~WriteDeck(d),
           NEW i \in 1..2, decks'[i] = Text(d)
    PROVE  decks[i] = Text(d)
<1>1. ASSUME NEW c \in Caller, WriteDeck(c) PROVE decks[i] = Text(d)
    <2>1. c # d /\ Text(c) # Text(d)
        BY <1>1 DEF Alike
    <2> QED
        BY <1>1, <2>1 DEF WriteDeck, SimTypes
<1>2. ASSUME NEW c \in Caller, CallStep(c), ~WriteDeck(c) PROVE decks' = decks
    BY <1>2 DEF CallStep, Library, Objects, Load, Bind, Reread, Enter, LaunchGuard, GivesUp, Gets,
                Simulates, RecheckRun, Replies, Refuses
<1>3. ASSUME NEW f \in DOMAIN file, Edits(f) PROVE decks' = decks
    BY <1>3 DEF Edits
<1>4. ASSUME NEW j \in DOMAIN decks, Overwrites(j) PROVE decks[i] = Text(d)
    <2>1. Text(d) # Scribble
        BY TextTypes
    <2> QED
        BY <1>4, <2>1 DEF Overwrites, SimTypes
<1>5. CASE UNCHANGED simVars
    BY <1>5 DEF simVars
<1> QED
    BY <1>1, <1>2, <1>3, <1>4, <1>5 DEF SimNext

(* A call that does not move keeps what is known of it.                    *)
Known(c) == Progress(c) /\ Held(c) /\ Ran(c) /\ Done(c) /\ Replied(c)

(* A call that does not move keeps what is known of it, whatever the       *)
(* others write over its deck.                                             *)
LEMMA AnotherMoves ==
    ASSUME SimTypes, SimTypes', \A c \in Caller : Known(c), [SimNext]_simVars,
           NEW d \in Caller, SimKeeps(d), ~WriteDeck(d)
    PROVE  Known(d)'
<1>0. /\ request' = request /\ file.deck <= file'.deck /\ file.object <= file'.object
      /\ file.deck \in Nat /\ file.object \in Nat /\ file'.deck \in Nat /\ file'.object \in Nat
    BY FilesGrow DEF SimTypes
<1>1. Progress(d)' /\ Replied(d)'
    <2>1. Progress(d)'
        BY DEF Known, Progress, SimKeeps
    <2>2. Replied(d)'
        BY DEF Known, Replied, SimKeeps
    <2> QED
        BY <2>1, <2>2
<1>2. Held(d)'
    <2>1. bound[d] \in Nat
        BY DEF SimTypes
    <2> QED
        BY <1>0, <2>1 DEF Known, Held, SimKeeps
<1>3. Turn(d)' = Turn(d) /\ Text(d)' = Text(d)
    BY DEF SimKeeps, Turn, Text
<1>4. at[d] \notin Unloaded => (Alike(d) => Alike(d)')
    BY AlikeStays DEF Known
<1>5. Expected(d)' = Expected(d)
    BY <1>3 DEF SimKeeps, Expected
<1>6. Ran(d)'
    <2> SUFFICES ASSUME request[d].backend = "ngspice" PROVE Ran(d)'
        BY <1>0 DEF Ran
    <2>1. (at[d] \in {"guard", "launch", "recheck"})' => (held[d] = Expected(d))'
        BY <1>5 DEF Known, Ran, SimKeeps
    <2>2. ASSUME at[d] = "recheck"
          PROVE  LET run == reads[d][Len(reads[d])]' IN
                 /\ 0 < run.object /\ run.object <= file'.object
                 /\ Derived(request[d]) /\ ~Alike(d)' /\ OnDisk(d)' = Text(d) => run.text = Text(d)
                 /\ ~Derived(request[d]) => bound[d] <= run.text.deck /\ run.text.deck <= file'.deck
        <3> DEFINE run == reads[d][Len(reads[d])]
        <3>1. /\ 0 < run.object /\ run.object <= file.object
              /\ Derived(request[d]) /\ ~Alike(d) /\ OnDisk(d) = Text(d) => run.text = Text(d)
              /\ ~Derived(request[d]) => bound[d] <= run.text.deck /\ run.text.deck <= file.deck
            BY <2>2 DEF Known, Ran
        <3>2. Len(reads[d]) = Len(results[d]) + 1 /\ Len(results[d]) \in Nat
            BY <2>2 DEF Known, Progress, SimTypes
        <3>a. reads[d] \in Seq([text : Text0, object : Nat])
            BY DEF SimTypes
        <3>b. Len(reads[d]) \in 1..Len(reads[d])
            BY <3>2
        <3>3. run \in [text : Text0, object : Nat]
            BY <3>a, <3>b, Element
        <3>4. run.object \in Nat /\ run.text.deck \in Nat
            BY <3>3 DEF Text0
        <3>5. reads'[d][Len(reads'[d])] = run
            BY DEF SimKeeps
        <3>6. ASSUME Derived(request[d]), ~Alike(d)', OnDisk(d)' = Text(d) PROVE run.text = Text(d)
            <4>1. ~Alike(d)
                BY <1>4, <2>2, <3>6 DEF Unloaded
            <4>2. Turn(d) \in 1..2
                BY <2>2, OnDiskTypes DEF Known
            <4>3. decks'[Turn(d)] = Text(d)
                BY <1>0, <1>3, <3>6 DEF OnDisk
            <4>4. decks[Turn(d)] = Text(d)
                BY <4>1, <4>2, <4>3, NoneElseWrites
            <4> QED
                BY <3>1, <3>6, <4>1, <4>4 DEF OnDisk
        <3> QED
            BY <1>0, <3>1, <3>4, <3>5, <3>6
    <2> QED
        BY <1>0, <1>3, <2>1, <2>2 DEF Ran, SimKeeps
<1>7. Done(d)'
    <2> SUFFICES ASSUME request[d].backend = "ngspice",
                        NEW i \in DOMAIN results[d], results[d][i][2] \in {"pass", "fail"}
                 PROVE  LET run == reads[d][i] IN
                        /\ Derived(request[d]) /\ ~Alike(d)' => run.text = Text(d)
                        /\ ~Derived(request[d]) => run.text.deck = bound[d]
                        /\ 0 < run.object /\ run.object <= file'.object
                        /\ Pinned(request[d]) => run.object = 1
                        /\ request[d].source = "pdk" /\ at[d] = "reply" => run.object = 1
        BY <1>0, <1>3 DEF Done, Fine, SimKeeps
    <2> DEFINE run == reads[d][i]
    <2>1. /\ Derived(request[d]) /\ ~Alike(d) => run.text = Text(d)
          /\ ~Derived(request[d]) => run.text.deck = bound[d]
          /\ 0 < run.object /\ run.object <= file.object
          /\ Pinned(request[d]) => run.object = 1
          /\ request[d].source = "pdk" /\ at[d] = "reply" => run.object = 1
        BY DEF Known, Done, Fine
    <2>2. results[d] \in Seq(Outcome) /\ reads[d] \in Seq([text : Text0, object : Nat])
        BY DEF SimTypes
    <2>b. i \in 1..Len(results[d]) /\ Len(results[d]) \in Nat
        BY <2>2
    <2>d. Len(reads[d]) = Len(results[d]) \/ Len(reads[d]) = Len(results[d]) + 1
        BY DEF Known, Progress
    <2>3. i \in 1..Len(reads[d])
        BY <2>b, <2>d
    <2>c. run \in [text : Text0, object : Nat]
        BY <2>2, <2>3, Element
    <2>4. run.object \in Nat
        BY <2>c
    <2>5. at[d] \notin Unloaded
        <3>1. Len(results[d]) # 0
            BY <2>2
        <3> QED
            BY <3>1 DEF Known, Progress
    <2> QED
        BY <1>0, <1>4, <2>1, <2>4, <2>5
<1> QED
    BY <1>1, <1>2, <1>6, <1>7 DEF Known

(* What is known of a call at its start.                                   *)
LEMMA KnownInit == ASSUME SimInit, NEW c \in Caller PROVE Known(c)
<1>1. at[c] = Begins(request[c]) /\ request[c] \in Request
    BY DEF SimInit
<1>2. /\ at[c] \in Unloaded /\ (at[c] = "objects" => Reviewed(request[c]))
      /\ request[c].source = "cosim" => at[c] = "library"
    BY <1>1 DEF Begins, Unloaded
<1>3. /\ results[c] = <<>> /\ reads[c] = <<>> /\ reply[c] = Unasked /\ bound[c] = 0
      /\ taken[c].deck = 0 /\ file.deck = 1
    BY DEF SimInit
<1>4. request[c].analyses \in 1..2
    BY <1>1 DEF Request
<1>5. Len(results[c]) = 0 /\ Len(reads[c]) = 0 /\ DOMAIN results[c] = {}
    BY <1>3
<1>6. Progress(c)
    BY <1>2, <1>4, <1>5 DEF Progress, Unloaded
<1>7. Held(c)
    BY <1>2, <1>3 DEF Held
<1>8. Ran(c) /\ Done(c) /\ Replied(c)
    BY <1>2, <1>3, <1>5 DEF Ran, Done, Replied, Unasked, Unloaded
<1> QED
    BY <1>6, <1>7, <1>8 DEF Known

(* A call that is refused is over, and nothing else is new about it.       *)
LEMMA RefusedKnown ==
    ASSUME SimTypes, NEW c \in Caller, Known(c), Refuses(c), reply[c] = Unasked
    PROVE  Known(c)'
<1>1. /\ UNCHANGED <<request, file, decks, spent, at, taken, bound, held, reads, results>>
      /\ reply'[c] = [index |-> 0, status |-> "refused"]
    BY DEF Refuses, SimTypes
<1>2. Progress(c)' /\ Held(c)'
    BY <1>1 DEF Known, Progress, Held
<1>3. Ran(c)' /\ Done(c)'
    BY <1>1 DEF Known, Ran, Done, Fine, Expected, OnDisk, Text, Turn, Alike
<1>4. Replied(c)'
    BY <1>1 DEF Replied
<1> QED
    BY <1>2, <1>3, <1>4 DEF Known

(* Before the entry: nothing has been read since the last result, so only  *)
(* what is known of the results behind is carried on.                      *)
Entering == {"library", "objects", "load", "bind", "before", "write", "reread"}
(* What is known of the results behind a call stays known, whatever step   *)
(* it takes.                                                               *)
LEMMA BehindStays ==
    ASSUME SimTypes, SimTypes', \A d \in Caller : Known(d), [SimNext]_simVars,
           NEW c \in Caller, bound'[c] = bound[c] \/ Len(results[c]) = 0,
           \A i \in DOMAIN results[c] : results'[c][i] = results[c][i] /\ reads'[c][i] = reads[c][i],
           request[c].source = "pdk" /\ at'[c] = "reply" => at[c] = "reply" \/ file.object = 1
    PROVE  request[c].backend = "ngspice" => \A i \in DOMAIN results[c] : Fine(c, i)'
<1>0. /\ request' = request /\ file.deck <= file'.deck /\ file.object <= file'.object
      /\ file.object \in Nat /\ file'.object \in Nat
    BY FilesGrow DEF SimTypes
<1> SUFFICES ASSUME request[c].backend = "ngspice",
                    NEW i \in DOMAIN results[c], results[c][i][2] \in {"pass", "fail"}
             PROVE  LET run == reads[c][i] IN
                    /\ Derived(request[c]) /\ ~Alike(c)' => run.text = Text(c)'
                    /\ ~Derived(request[c]) => run.text.deck = bound'[c]
                    /\ 0 < run.object /\ run.object <= file'.object
                    /\ Pinned(request[c]) => run.object = 1
                    /\ request[c].source = "pdk" /\ at'[c] = "reply" => run.object = 1
    BY <1>0 DEF Fine
<1> DEFINE run == reads[c][i]
<1>1. /\ Derived(request[c]) /\ ~Alike(c) => run.text = Text(c)
      /\ ~Derived(request[c]) => run.text.deck = bound[c]
      /\ 0 < run.object /\ run.object <= file.object
      /\ Pinned(request[c]) => run.object = 1
      /\ request[c].source = "pdk" /\ at[c] = "reply" => run.object = 1
    BY DEF Known, Done, Fine
<1>2. results[c] \in Seq(Outcome) /\ reads[c] \in Seq([text : Text0, object : Nat])
    BY DEF SimTypes
<1>3. i \in 1..Len(results[c]) /\ Len(results[c]) \in Nat /\ Len(results[c]) # 0
    BY <1>2
<1>4. i \in 1..Len(reads[c])
    <2>2. Len(reads[c]) = Len(results[c]) \/ Len(reads[c]) = Len(results[c]) + 1
        BY DEF Known, Progress
    <2> QED
        BY <1>3, <2>2
<1>5. run \in [text : Text0, object : Nat]
    BY <1>2, <1>4, Element
<1>6. run.object \in Nat
    BY <1>5
<1>7. at[c] \notin Unloaded
    BY <1>3 DEF Known, Progress
<1>8. Text(c)' = Text(c)
    BY <1>7, TextSettled
<1>9. ~Alike(c)' => ~Alike(c)
    BY <1>7, AlikeStays DEF Known
<1> QED
    BY <1>0, <1>1, <1>3, <1>6, <1>8, <1>9

(* Where a step takes its call, but for the launch and what comes of it.   *)
LEMMA GoesOn ==
    ASSUME SimTypes, NEW c \in Caller, Known(c), Goes(c), UNCHANGED <<request, results, reads>>,
           at[c] \notin {"launch", "recheck", "reply"}
    PROVE  /\ Progress(c)'
           /\ at'[c] \in Unloaded <=> at[c] \in {"library", "objects"}
           /\ at'[c] \notin {"library", "recheck"}
           /\ at'[c] = "guard" <=> at[c] = "enter"
           /\ at'[c] = "launch" <=> at[c] = "guard"
           /\ request[c].source = "pdk" /\ at'[c] = "reply" => at[c] = "after"
<1> DEFINE r == request[c]
           ran == Len(results[c])
<1>1. r \in Request /\ at[c] \in SimStep /\ ran \in Nat /\ r.analyses \in 1..2
    BY DEF SimTypes, Request
<1>2. at'[c] = Follows(r, ran, at[c])
    BY DEF Goes, SimTypes
<1>3. Progress(c)
    BY DEF Known
<1>4. Dispatch(r) \in {"before", "write", "enter"} /\ (Dispatch(r) # "enter" => Derived(r))
    BY DEF Dispatch, Derived
<1>5. \/ Onward(r, ran) = "reply" /\ ran = r.analyses
      \/ Onward(r, ran) = Dispatch(r) /\ ran # r.analyses
    BY DEF Onward
<1>6. CASE at[c] \in {"library", "objects"}
    <2>1. at'[c] \in {"objects", "load"} /\ (at'[c] = "objects" => Reviewed(r))
        BY <1>2, <1>6 DEF Follows
    <2> QED
        BY <1>1, <1>3, <1>6, <2>1 DEF Progress, Unloaded
<1>7. CASE at[c] \in {"load", "bind"}
    <2>1. (at'[c] = "bind" /\ r.target = "deck") \/ at'[c] = Dispatch(r)
        BY <1>2, <1>7 DEF Follows
    <2>2. ran = 0 /\ Len(reads[c]) = 0
        BY <1>1, <1>3, <1>7 DEF Progress, Unloaded
    <2> QED
        BY <1>1, <1>4, <1>7, <2>1, <2>2 DEF Progress, Unloaded
<1>8. CASE at[c] \in {"before", "write", "reread", "enter", "guard"}
    <2>1. /\ at'[c] \in {"before", "write", "reread", "enter", "guard", "launch"}
          /\ at[c] \notin {"enter", "guard"} => at'[c] \in {"before", "write", "reread", "enter"}
          /\ at[c] = "enter" => at'[c] = "guard"
          /\ at[c] = "guard" => at'[c] = "launch"
        BY <1>2, <1>8 DEF Follows
    <2>2. ran < r.analyses /\ Len(reads[c]) = ran
        BY <1>1, <1>3, <1>8 DEF Progress
    <2>3. at'[c] \in {"before", "write", "reread"} => Derived(r)
        BY <1>3, <1>8, <2>1 DEF Progress
    <2> QED
        BY <1>1, <1>8, <2>1, <2>2, <2>3 DEF Progress, Unloaded
<1>9. CASE at[c] = "after"
    <2>1. at'[c] = Onward(r, ran)
        BY <1>2, <1>9 DEF Follows
    <2>2. 0 < ran /\ ran <= r.analyses /\ Len(reads[c]) = ran
        BY <1>1, <1>3, <1>9 DEF Progress
    <2> QED
        BY <1>1, <1>4, <1>5, <1>9, <2>1, <2>2 DEF Progress, Unloaded
<1> QED
    BY <1>1, <1>6, <1>7, <1>8, <1>9 DEF SimStep

(* And where a result does.                                                *)
LEMMA GetsOn ==
    ASSUME SimTypes, NEW c \in Caller, Known(c), NEW result \in Outcome, Gets(c, result),
           request' = request, at[c] \in {"enter", "guard", "recheck"},
           Len(reads'[c]) = Len(results[c]) + 1
    PROVE  /\ Progress(c)' /\ at'[c] \notin Unloaded \cup {"guard", "launch", "recheck"}
           /\ request[c].source = "pdk" => at'[c] # "reply"
           /\ Len(results'[c]) = Len(results[c]) + 1
           /\ results'[c][Len(results[c]) + 1] = result
           /\ \A i \in DOMAIN results[c] : results'[c][i] = results[c][i]
<1> DEFINE r == request[c]
           ran == Len(results[c])
<1>1. r \in Request /\ ran \in Nat /\ r.analyses \in 1..2 /\ results[c] \in Seq(Outcome)
    BY DEF SimTypes, Request
<1>2. at'[c] = Follows(r, ran + 1, "recheck") /\ results'[c] = Append(results[c], result)
    BY DEF Gets, Turn, SimTypes
<1>3. ran < r.analyses
    BY DEF Known, Progress
<1>4. Dispatch(r) \in {"before", "write", "enter"} /\ (Dispatch(r) # "enter" => Derived(r))
    BY DEF Dispatch, Derived
<1>5. \/ at'[c] = "after" /\ r.source = "pdk"
      \/ at'[c] = "reply" /\ ran + 1 = r.analyses /\ r.source # "pdk"
      \/ at'[c] = Dispatch(r) /\ ran + 1 # r.analyses
    BY <1>2 DEF Follows, Onward
<1>6. /\ Len(results'[c]) = ran + 1 /\ results'[c][ran + 1] = result
      /\ \A i \in DOMAIN results[c] : results'[c][i] = results[c][i]
    BY <1>1, <1>2
<1>7. Progress(c)'
    BY <1>1, <1>3, <1>4, <1>5, <1>6 DEF Progress, Unloaded
<1> QED
    BY <1>4, <1>5, <1>6, <1>7 DEF Unloaded

(* A step before the entry, or after a run, reads nothing.                 *)
LEMMA ReadsNothing ==
    ASSUME SimTypes, SimTypes', \A d \in Caller : Known(d), [SimNext]_simVars,
           NEW c \in Caller, Goes(c), UNCHANGED <<file, results, reads, reply>>,
           at[c] \notin {"enter", "guard", "launch", "recheck", "reply"}, reply[c] = Unasked,
           bound'[c] = bound[c] \/ Len(results[c]) = 0,
           at[c] = "after" => file.object = 1,
           Held(c)'
    PROVE  Known(c)'
<1>1. request' = request
    BY FilesGrow
<1>2. /\ Progress(c)' /\ at'[c] \notin {"guard", "launch", "recheck"}
      /\ request[c].source = "pdk" /\ at'[c] = "reply" => at[c] = "after"
    BY <1>1, GoesOn DEF Known
<1>3. Done(c)'
    BY <1>1, <1>2, BehindStays DEF Done
<1>4. Ran(c)' /\ Replied(c)'
    BY <1>2 DEF Ran, Replied, Unasked
<1> QED
    BY <1>2, <1>3, <1>4 DEF Known

(* The source of models, the objects, and the text.                        *)
LEMMA Early ==
    ASSUME SimTypes, SimTypes', \A d \in Caller : Known(d), [SimNext]_simVars,
           NEW c \in Caller, Library(c) \/ Objects(c) \/ Load(c), ~Refuses(c)
    PROVE  Known(c)'
<1>0. /\ Held(c) /\ Progress(c) /\ at[c] \in SimStep /\ request' = request
      /\ file.deck \in Nat \ {0} /\ bound[c] \in Nat
    BY FilesGrow DEF Known, SimTypes
<1>1. CASE Library(c)
    <2>1. Goes(c) /\ at[c] = "library" /\ reply[c] = Unasked
        BY <1>1 DEF Library, Takes
    <2>2. at'[c] \in Unloaded /\ at'[c] # "library"
        BY <1>1, <2>1, <1>0, GoesOn DEF Known, Library
    <2>3. taken'[c].deck = taken[c].deck /\ (request[c].source = "cosim" => taken'[c].library = 1)
        BY <1>1 DEF Library, SimTypes
    <2>4. taken[c].deck = 0
        BY <1>0, <2>1 DEF Held, Unloaded
    <2>5. Held(c)'
        BY <1>0, <1>1, <2>2, <2>3, <2>4 DEF Held, Library
    <2> QED
        BY <1>1, <2>1, <2>5, ReadsNothing DEF Library
<1>2. CASE Objects(c)
    <2>1. Goes(c) /\ at[c] \in {"objects", "before", "after"} /\ reply[c] = Unasked /\ file.object = 1
        BY <1>2 DEF Objects, Takes
    <2>2. (at'[c] \in Unloaded <=> at[c] \in Unloaded) /\ at'[c] # "library"
        BY <1>2, <2>1, <1>0, GoesOn DEF Known, Objects, Unloaded
    <2>3. Held(c)'
        BY <1>0, <1>2, <2>1, <2>2 DEF Held, Objects
    <2> QED
        BY <1>2, <2>1, <2>3, ReadsNothing DEF Objects
<1>3. CASE Load(c)
    <2>1. Goes(c) /\ at[c] = "load" /\ reply[c] = Unasked
        BY <1>3 DEF Load, Takes
    <2>2. at'[c] \notin Unloaded
        BY <1>3, <2>1, <1>0, GoesOn DEF Known, Load
    <2>3. taken'[c].deck = file.deck /\ taken'[c].library = taken[c].library
        BY <1>3 DEF Load, SimTypes
    <2>4. bound'[c] \in {bound[c], 1}
        BY <1>3 DEF Load, SimTypes
    <2>5. Held(c)'
        BY <1>0, <1>3, <2>1, <2>2, <2>3, <2>4 DEF Held, Load
    <2>6. Len(results[c]) = 0
        BY <1>0, <2>1 DEF Progress, Unloaded
    <2> QED
        BY <1>3, <2>1, <2>5, <2>6, ReadsNothing DEF Load
<1> QED
    BY <1>1, <1>2, <1>3

(* The record of the deck, and the derived deck.                           *)
LEMMA Composing ==
    ASSUME SimTypes, SimTypes', \A d \in Caller : Known(d), [SimNext]_simVars,
           NEW c \in Caller, Bind(c) \/ WriteDeck(c) \/ Reread(c), ~Refuses(c)
    PROVE  Known(c)'
<1>0. /\ Held(c) /\ Progress(c) /\ at[c] \in SimStep /\ request' = request
      /\ file.deck \in Nat \ {0} /\ bound[c] \in Nat
    BY FilesGrow DEF Known, SimTypes
<1>1. /\ Goes(c) /\ at[c] \in {"bind", "write", "reread"} /\ reply[c] = Unasked
      /\ UNCHANGED <<file, results, reads, reply, taken>>
    BY DEF Bind, WriteDeck, Reread, Takes
<1>2. at'[c] \notin Unloaded
    BY <1>0, <1>1, GoesOn DEF Known
<1>3. bound'[c] = bound[c] \/ (bound'[c] = file.deck /\ at[c] = "bind")
    BY DEF Bind, WriteDeck, Reread, Takes, SimTypes
<1>4. Held(c)'
    BY <1>0, <1>1, <1>2, <1>3 DEF Held, Unloaded
<1>5. bound'[c] = bound[c] \/ Len(results[c]) = 0
    BY <1>0, <1>3 DEF Progress
<1> QED
    BY <1>1, <1>4, <1>5, ReadsNothing

(* The driver takes the deck up: what it records is what was named.        *)
LEMMA TakingUp ==
    ASSUME SimTypes, SimTypes', \A d \in Caller : Known(d), [SimNext]_simVars,
           NEW c \in Caller, Enter(c) \/ LaunchGuard(c), ~GivesUp(c)
    PROVE  Known(c)'
<1>0. /\ Held(c) /\ Progress(c) /\ request' = request
    BY FilesGrow DEF Known
<1>1. /\ Goes(c) /\ at[c] \in {"enter", "guard"} /\ reply[c] = Unasked
      /\ UNCHANGED <<file, decks, results, reads, reply, taken, bound>>
    BY DEF Enter, LaunchGuard, Takes
<1>2. at'[c] \in {"guard", "launch"} /\ Progress(c)'
    BY <1>0, <1>1, GoesOn DEF Known
<1>3. Held(c)'
    BY <1>0, <1>1, <1>2 DEF Held, Unloaded
<1>4. Expected(c)' = Expected(c)
    BY <1>0, <1>1 DEF Expected, Text
<1>5. request[c].backend = "ngspice" => held'[c] = Expected(c)
    <2>1. CASE Enter(c)
        BY <2>1 DEF Enter, AsExpected, SimTypes
    <2>2. CASE LaunchGuard(c)
        BY <2>2 DEF LaunchGuard, Takes, Known, Ran
    <2> QED
        BY <2>1, <2>2
<1>6. Ran(c)'
    BY <1>0, <1>2, <1>4, <1>5 DEF Ran
<1>7. Done(c)'
    BY <1>0, <1>1, <1>2, BehindStays DEF Done
<1>8. Replied(c)'
    BY <1>1 DEF Replied, Unasked
<1> QED
    BY <1>2, <1>3, <1>6, <1>7, <1>8 DEF Known

(* A sequence that is longer by one element.                               *)
LEMMA Appended ==
    ASSUME NEW S, NEW s \in Seq(S), NEW e
    PROVE  /\ Len(Append(s, e)) = Len(s) + 1 /\ Append(s, e)[Len(s) + 1] = e
           /\ \A i \in DOMAIN s : Append(s, e)[i] = s[i]
OBVIOUS

(* The driver gives up: what it adds concludes nothing.                    *)
LEMMA GivingUp ==
    ASSUME SimTypes, SimTypes', \A d \in Caller : Known(d), [SimNext]_simVars,
           NEW c \in Caller, GivesUp(c), at[c] \in {"enter", "guard"}, reply[c] = Unasked
    PROVE  Known(c)'
<1> DEFINE run == [text |-> Scribble, object |-> 0]
<1>0. /\ Held(c) /\ Progress(c) /\ request' = request
      /\ UNCHANGED <<file, decks, taken, bound, held, reply>>
      /\ Gets(c, <<"invalid_request", "unknown">>)
      /\ reads'[c] = Append(reads[c], run)
    BY FilesGrow DEF Known, GivesUp, SimTypes
<1>1. /\ <<"invalid_request", "unknown">> \in Outcome /\ results[c] \in Seq(Outcome) /\ Len(results[c]) \in Nat
      /\ reads[c] \in Seq([text : Text0, object : Nat]) /\ Len(reads[c]) = Len(results[c])
    <2>1. results[c] \in Seq(Outcome) /\ reads[c] \in Seq([text : Text0, object : Nat])
        BY DEF SimTypes
    <2>2. Len(results[c]) \in Nat /\ <<"invalid_request", "unknown">> \in Outcome
        BY <2>1 DEF Outcome
    <2> QED
        BY <1>0, <2>1, <2>2 DEF Progress
<1>2. /\ Len(reads'[c]) = Len(results[c]) + 1
      /\ \A i \in DOMAIN results[c] : reads'[c][i] = reads[c][i]
    <2> HIDE DEF run
    <2>1. /\ Len(reads'[c]) = Len(reads[c]) + 1
          /\ \A i \in DOMAIN reads[c] : reads'[c][i] = reads[c][i]
        BY <1>0, <1>1, Appended
    <2>2. DOMAIN results[c] = DOMAIN reads[c]
        BY <1>1
    <2> QED
        BY <1>1, <2>1, <2>2
<1>3. /\ Progress(c)' /\ at'[c] \notin Unloaded \cup {"guard", "launch", "recheck"}
      /\ request[c].source = "pdk" => at'[c] # "reply"
      /\ Len(results'[c]) = Len(results[c]) + 1
      /\ results'[c][Len(results[c]) + 1] = <<"invalid_request", "unknown">>
      /\ \A i \in DOMAIN results[c] : results'[c][i] = results[c][i]
    BY <1>0, <1>1, <1>2, GetsOn DEF Known
<1>4. Held(c)'
    BY <1>0, <1>3 DEF Held, Unloaded
<1>5. request[c].backend = "ngspice" => \A i \in DOMAIN results[c] : Fine(c, i)'
    BY <1>0, <1>2, <1>3, BehindStays
<1>6. \A i : i = Len(results[c]) + 1 => Fine(c, i)'
    BY <1>3 DEF Fine
<1>7. DOMAIN results'[c] = DOMAIN results[c] \cup {Len(results[c]) + 1}
    <2>1. results'[c] \in Seq(Outcome)
        BY DEF SimTypes
    <2> QED
        BY <1>1, <1>3, <2>1
<1>8. Done(c)'
    BY <1>0, <1>5, <1>6, <1>7 DEF Done
<1>9. Ran(c)' /\ Replied(c)'
    BY <1>0, <1>3 DEF Ran, Replied, Unasked
<1> QED
    BY <1>3, <1>4, <1>8, <1>9 DEF Known

(* The simulator reads what is at its path between the guard and the next  *)
(* look.                                                                   *)
LEMMA OpensDeck ==
    ASSUME SimTypes, SimTypes', \A d \in Caller : Known(d), [SimNext]_simVars,
           NEW c \in Caller, Simulates(c)
    PROVE  Known(c)'
<1> DEFINE run == [text |-> OnDisk(c), object |-> file.object]
<1>0. /\ Held(c) /\ Progress(c) /\ request' = request /\ at[c] = "launch" /\ reply[c] = Unasked
      /\ UNCHANGED <<file, decks, taken, bound, held, results, reply>>
      /\ reads'[c] = Append(reads[c], run)
    BY FilesGrow DEF Known, Simulates, Takes, SimTypes
<1>1. /\ results[c] \in Seq(Outcome) /\ Len(results[c]) \in Nat
      /\ reads[c] \in Seq([text : Text0, object : Nat]) /\ Len(reads[c]) = Len(results[c])
    <2>1. results[c] \in Seq(Outcome) /\ reads[c] \in Seq([text : Text0, object : Nat])
        BY DEF SimTypes
    <2>2. Len(results[c]) \in Nat
        BY <2>1
    <2> QED
        BY <1>0, <2>1, <2>2 DEF Progress
<1>2. /\ Len(reads'[c]) = Len(results[c]) + 1 /\ reads'[c][Len(reads'[c])] = run
      /\ \A i \in DOMAIN results[c] : reads'[c][i] = reads[c][i]
    <2> HIDE DEF run
    <2>1. /\ Len(reads'[c]) = Len(reads[c]) + 1 /\ reads'[c][Len(reads[c]) + 1] = run
          /\ \A i \in DOMAIN reads[c] : reads'[c][i] = reads[c][i]
        BY <1>0, <1>1, Appended
    <2>2. DOMAIN results[c] = DOMAIN reads[c]
        BY <1>1
    <2> QED
        BY <1>1, <2>1, <2>2
<1>3. at'[c] = "recheck"
    BY <1>0 DEF Simulates, Goes, Follows, SimTypes
<1>4. Len(results[c]) < request[c].analyses
    BY <1>0 DEF Progress
<1>5. Progress(c)'
    BY <1>0, <1>2, <1>3, <1>4 DEF Progress, Unloaded
<1>6. Held(c)'
    BY <1>0, <1>3 DEF Held, Unloaded
<1>7. /\ Expected(c)' = Expected(c) /\ OnDisk(c)' = OnDisk(c) /\ Text(c)' = Text(c)
    BY <1>0 DEF Expected, Text, OnDisk, Turn
<1>8. file.object \in Nat \ {0} /\ file.deck \in Nat
    BY DEF SimTypes
<1>9. Ran(c)'
    <2> SUFFICES ASSUME request[c].backend = "ngspice" PROVE Ran(c)'
        BY <1>0 DEF Ran
    <2>1. held'[c] = Expected(c)'
        BY <1>0, <1>7 DEF Known, Ran
    <2>2. ~Derived(request[c]) => bound[c] <= run.text.deck /\ run.text.deck <= file.deck
        <3>1. ~Derived(request[c]) => run.text.deck = file.deck
            BY DEF OnDisk
        <3> QED
            BY <3>1, <1>0, <1>8 DEF Held
    <2>3. 0 < run.object /\ run.object <= file.object
        BY <1>8
    <2>4. OnDisk(c)' = Text(c)' => run.text = Text(c)'
        BY <1>7
    <2> HIDE DEF run
    <2> QED
        BY <1>0, <1>2, <1>3, <2>1, <2>2, <2>3, <2>4 DEF Ran
<1>10. Done(c)'
    BY <1>0, <1>2, <1>3, BehindStays DEF Done
<1>11. Replied(c)'
    BY <1>0 DEF Replied, Unasked
<1> QED
    BY <1>5, <1>6, <1>9, <1>10, <1>11 DEF Known

(* The look after the run: when the driver concludes, what it recorded is  *)
(* still there, so what the simulator read was the same.                   *)
LEMMA Rechecking ==
    ASSUME SimTypes, SimTypes', \A d \in Caller : Known(d), [SimNext]_simVars,
           NEW c \in Caller, RecheckRun(c)
    PROVE  Known(c)'
<1> DEFINE n == Len(results[c]) + 1
           run == reads[c][n]
<1>0. /\ Held(c) /\ Progress(c) /\ Ran(c) /\ request' = request /\ at[c] = "recheck" /\ reply[c] = Unasked
      /\ UNCHANGED <<file, decks, taken, bound, held, reads, reply>>
    BY FilesGrow DEF Known, RecheckRun, Takes
<1>1. /\ results[c] \in Seq(Outcome) /\ Len(results[c]) \in Nat
      /\ reads[c] \in Seq([text : Text0, object : Nat]) /\ Len(reads[c]) = n
    <2>1. results[c] \in Seq(Outcome) /\ reads[c] \in Seq([text : Text0, object : Nat])
        BY DEF SimTypes
    <2>2. Len(results[c]) \in Nat
        BY <2>1
    <2> QED
        BY <1>0, <2>1, <2>2 DEF Progress
<1>2. PICK result \in Outcome : /\ Gets(c, result)
                                /\ result[2] \in {"pass", "fail"} => Concludes(c)
    <2>1. PICK result \in {<<"timed_out", "unknown">>}
                          \cup (IF Concludes(c) THEN {<<"completed", "pass">>, <<"failed", "fail">>} ELSE {}) :
              Gets(c, result)
        BY DEF RecheckRun
    <2>2. result \in Outcome /\ (result[2] \in {"pass", "fail"} => Concludes(c))
        BY <2>1 DEF Outcome
    <2> QED
        BY <2>1, <2>2
<1>3. /\ Progress(c)' /\ at'[c] \notin Unloaded \cup {"guard", "launch", "recheck"}
      /\ request[c].source = "pdk" => at'[c] # "reply"
      /\ Len(results'[c]) = n /\ results'[c][n] = result
      /\ \A i \in DOMAIN results[c] : results'[c][i] = results[c][i]
    BY <1>0, <1>1, <1>2, GetsOn DEF Known
<1>4. Held(c)'
    BY <1>0, <1>3 DEF Held, Unloaded
<1>5. Text(c)' = Text(c) /\ Alike(c)' = Alike(c)
    BY <1>0 DEF Text, Alike
<1>6. run.object \in Nat /\ run.text.deck \in Nat /\ file.object \in Nat /\ file.deck \in Nat /\ bound[c] \in Nat
    <2>1. n \in 1..Len(reads[c])
        BY <1>1
    <2>2. run \in [text : Text0, object : Nat]
        BY <1>1, <2>1, Element
    <2> QED
        BY <2>2 DEF SimTypes, Text0
<1>7. ASSUME request[c].backend = "ngspice", result[2] \in {"pass", "fail"}
      PROVE  /\ Derived(request[c]) /\ ~Alike(c) => run.text = Text(c)
             /\ ~Derived(request[c]) => run.text.deck = bound[c]
             /\ 0 < run.object /\ run.object <= file.object
             /\ Pinned(request[c]) => run.object = 1
    <2>1. OnDisk(c) = held[c] /\ (Pinned(request[c]) => file.object = 1)
        BY <1>2, <1>7 DEF Concludes, PinsHold
    <2>2. OnDisk(c) = Expected(c)
        BY <1>0, <1>7, <2>1 DEF Ran
    <2>3. /\ 0 < run.object /\ run.object <= file.object
          /\ Derived(request[c]) /\ ~Alike(c) /\ OnDisk(c) = Text(c) => run.text = Text(c)
          /\ ~Derived(request[c]) => bound[c] <= run.text.deck /\ run.text.deck <= file.deck
        BY <1>0, <1>1, <1>7 DEF Ran
    <2>4. Derived(request[c]) => OnDisk(c) = Text(c)
        BY <2>2 DEF Expected
    <2>5. ~Derived(request[c]) => file.deck = bound[c]
        <3>1. ASSUME ~Derived(request[c])
              PROVE  [deck |-> file.deck, library |-> 0, source |-> "none"]
                        = [deck |-> bound[c], library |-> 0, source |-> "none"]
            BY <2>2, <3>1 DEF Expected, OnDisk
        <3> QED
            BY <3>1
    <2> QED
        BY <1>6, <2>1, <2>3, <2>4, <2>5
<1>8. request[c].backend = "ngspice" => \A i \in DOMAIN results[c] : Fine(c, i)'
    BY <1>0, <1>3, BehindStays
<1>9. request[c].backend = "ngspice" => \A i : i = n => Fine(c, i)'
    BY <1>0, <1>3, <1>5, <1>7 DEF Fine
<1>10. DOMAIN results'[c] = DOMAIN results[c] \cup {n}
    <2>1. results'[c] \in Seq(Outcome)
        BY DEF SimTypes
    <2> QED
        BY <1>1, <1>3, <2>1
<1>11. Done(c)'
    BY <1>0, <1>8, <1>9, <1>10 DEF Done
<1>12. Ran(c)' /\ Replied(c)'
    BY <1>0, <1>3 DEF Ran, Replied, Unasked
<1> QED
    BY <1>3, <1>4, <1>11, <1>12 DEF Known

(* The weakest result speaks for the call.                                 *)
LEMMA Replying ==
    ASSUME SimTypes, SimTypes', \A d \in Caller : Known(d), [SimNext]_simVars,
           NEW c \in Caller, Replies(c)
    PROVE  Known(c)'
<1>0. /\ Held(c) /\ Progress(c) /\ at[c] = "reply"
      /\ UNCHANGED <<request, file, decks, spent, at, taken, bound, held, reads, results>>
    BY DEF Known, Replies, Takes
<1>1. Progress(c)' /\ Held(c)'
    BY <1>0 DEF Progress, Held
<1>2. Ran(c)' /\ Done(c)'
    BY <1>0 DEF Known, Ran, Done, Fine, Expected, OnDisk, Text, Turn, Alike
<1>3. results[c] \in Seq(Outcome) /\ Len(results[c]) \in 1..2
    <2>1. results[c] \in Seq(Outcome) /\ request[c].analyses \in 1..2
        BY DEF SimTypes, Request
    <2> QED
        BY <1>0, <2>1 DEF Progress
<1>4. reply'[c] = [index |-> Weakest(results[c]), status |-> results[c][Weakest(results[c])][2]]
    BY DEF Replies, SimTypes
<1>5. reply'[c].status = "pass" =>
         reply'[c].index = 1 /\ \A i \in DOMAIN results[c] : results[c][i][2] = "pass"
    BY <1>3, <1>4, WeakestOfFew
<1>6. Replied(c)'
    BY <1>0, <1>5 DEF Replied
<1> QED
    BY <1>1, <1>2, <1>6 DEF Known

(* A call that moves is known after its step.                              *)
LEMMA CallMoves ==
    ASSUME SimTypes, SimTypes', \A d \in Caller : Known(d), [SimNext]_simVars,
           NEW c \in Caller, CallStep(c)
    PROVE  Known(c)'
<1>1. CASE Refuses(c) /\ reply[c] = Unasked
    BY <1>1, RefusedKnown
<1>2. CASE GivesUp(c) /\ at[c] \in {"enter", "guard"} /\ reply[c] = Unasked
    BY <1>2, GivingUp
<1>3. CASE (Library(c) \/ Objects(c) \/ Load(c)) /\ ~Refuses(c)
    BY <1>3, Early
<1>4. CASE (Bind(c) \/ WriteDeck(c) \/ Reread(c)) /\ ~Refuses(c)
    BY <1>4, Composing
<1>5. CASE (Enter(c) \/ LaunchGuard(c)) /\ ~GivesUp(c)
    BY <1>5, TakingUp
<1>6. CASE Simulates(c)
    BY <1>6, OpensDeck
<1>7. CASE RecheckRun(c)
    BY <1>7, Rechecking
<1>8. CASE Replies(c)
    BY <1>8, Replying
<1>9. Library(c) \/ Objects(c) \/ Load(c) \/ Bind(c) \/ WriteDeck(c) \/ Reread(c) => reply[c] = Unasked
    BY DEF Library, Objects, Load, Bind, WriteDeck, Reread, Takes
<1>10. Enter(c) \/ LaunchGuard(c) => at[c] \in {"enter", "guard"} /\ reply[c] = Unasked
    BY DEF Enter, LaunchGuard, Takes
<1> QED
    BY <1>1, <1>2, <1>3, <1>4, <1>5, <1>6, <1>7, <1>8, <1>9, <1>10 DEF CallStep

(* And so is every call, whoever moves.                                    *)
LEMMA KnownStep ==
    ASSUME SimTypes, SimTypes', \A d \in Caller : Known(d), [SimNext]_simVars, NEW c \in Caller
    PROVE  Known(c)'
<1>1. ASSUME NEW d \in Caller, CallStep(d) PROVE Known(c)'
    <2>1. CASE d = c
        BY <1>1, <2>1, CallMoves
    <2>2. CASE d # c
        <3>1. SimKeeps(c)
            BY <1>1, <2>2, SimOthers
        <3>2. CASE WriteDeck(c)
            BY <3>2, CallMoves DEF CallStep
        <3>3. CASE ~WriteDeck(c)
            BY <3>1, <3>3, AnotherMoves
        <3> QED
            BY <3>2, <3>3
    <2> QED
        BY <2>1, <2>2
<1>2. ASSUME UNCHANGED <<request, at, taken, bound, held, reads, results, reply>> PROVE Known(c)'
    <2>1. SimKeeps(c)
        BY <1>2 DEF SimKeeps
    <2>2. CASE WriteDeck(c)
        BY <2>2, CallMoves DEF CallStep
    <2>3. CASE ~WriteDeck(c)
        BY <2>1, <2>3, AnotherMoves
    <2> QED
        BY <2>2, <2>3
<1>3. ASSUME NEW f \in DOMAIN file, Edits(f) PROVE Known(c)'
    BY <1>3, <1>2 DEF Edits
<1>4. ASSUME NEW i \in DOMAIN decks, Overwrites(i) PROVE Known(c)'
    BY <1>4, <1>2 DEF Overwrites
<1>5. CASE UNCHANGED simVars
    BY <1>5, <1>2 DEF simVars
<1> QED
    BY <1>1, <1>3, <1>4, <1>5 DEF SimNext

(* The inductive invariant of the calls of circuit.simulate.               *)
THEOREM SimInvariance == SimSpec => []SimInv
<1>1. SimInit => SimInv
    BY SimTypesInit, KnownInit DEF SimInv, Known
<1>2. SimInv /\ [SimNext]_simVars => SimInv'
    <2> SUFFICES ASSUME SimInv, [SimNext]_simVars PROVE SimInv'
        OBVIOUS
    <2>1. SimTypes /\ \A c \in Caller : Known(c)
        BY DEF SimInv, Known
    <2>2. SimTypes'
        BY <2>1, SimTypesStep DEF Known
    <2>3. \A c \in Caller : Known(c)'
        BY <2>1, <2>2, KnownStep
    <2> QED
        BY <2>2, <2>3 DEF SimInv, Known
<1> QED
    BY <1>1, <1>2, PTL DEF SimSpec

(* A reply of circuit.simulate that concludes is about the text that was   *)
(* vetted, run after run, and a pass is a pass of every analysis, for any  *)
(* calls that share a directory and any number of edits                    *)
(* (operations/simulate.py, _dispatch_analysis and _weakest).              *)
THEOREM RepliesAsVetted == SimSpec => []SimulatedAsVetted
<1>1. SimInv => SimulatedAsVetted
    <2> SUFFICES ASSUME SimInv, NEW c \in Caller
                 PROVE  /\ reply[c].status \in {"pass", "fail"} /\ request[c].backend = "ngspice" =>
                             \A i \in DOMAIN reads[c] :
                                results[c][i][2] \in {"pass", "fail"} => Vetted(c, reads[c][i])
                        /\ reply[c].status = "pass" =>
                             /\ \A i \in DOMAIN results[c] : results[c][i][2] = "pass"
                             /\ reply[c].index = 1
        BY DEF SimulatedAsVetted
    <2>1. Replied(c) /\ Done(c) /\ Held(c) /\ Progress(c) /\ SimTypes
        BY DEF SimInv
    <2>2. ASSUME reply[c].status \in {"pass", "fail"}, request[c].backend = "ngspice",
                 NEW i \in DOMAIN reads[c], results[c][i][2] \in {"pass", "fail"}
          PROVE  Vetted(c, reads[c][i])
        <3>1. at[c] = "reply" /\ Len(reads[c]) = Len(results[c])
            BY <2>1, <2>2 DEF Replied, Progress
        <3>2. reads[c] \in Seq([text : Text0, object : Nat]) /\ results[c] \in Seq(Outcome)
            BY <2>1 DEF SimTypes
        <3>3. i \in DOMAIN results[c]
            BY <3>1, <3>2
        <3>4. Fine(c, i)
            BY <2>1, <2>2, <3>3 DEF Done
        <3>5. Reviewed(request[c]) => Pinned(request[c]) \/ request[c].source = "pdk"
            BY DEF Reviewed, Pinned
        <3>6. Reviewed(request[c]) => reads[c][i].object = 1
            BY <2>2, <3>1, <3>4, <3>5 DEF Fine
        <3>7. request[c].source = "cosim" => taken[c].library = 1
            BY <2>1, <3>1 DEF Held
        <3> QED
            BY <2>2, <3>4, <3>6, <3>7 DEF Fine, Vetted
    <2> QED
        BY <2>1, <2>2 DEF Replied
<1> QED
    BY <1>1, SimInvariance, PTL
=============================================================================
