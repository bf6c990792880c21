------------------------- MODULE PdkClosure_proofs -------------------------
(***************************************************************************)
(* Proofs about PdkClosure, for every installed tree, profile and bound.   *)
(***************************************************************************)
EXTENDS PdkClosure, TLAPS

(* The bodies come from Versions; a file has a role once it is captured.   *)
Bodies ==
    \A f \in File : /\ source[f] \in Versions[f] \cup {Absent}
                    /\ captured[f] \in Versions[f] \cup {Absent}
                    /\ roles[f] = "none" <=> captured[f] = Absent
                    /\ f \in carried => captured[f] # Absent

Root(i) == <<Entries[i].file, Entries[i].section>>

(* Where the capture is in the profile, and what the outermost frame is.   *)
Place ==
    /\ phase \in {"transport", "library", "walk"} => item <= Len(Entries)
    /\ stack # <<>> <=> phase \in {"transport", "walk"}
    /\ phase = "transport" => stack[1].view = <<Entries[item].file, NoName>>
    /\ phase = "library"   => Entries[item].file \in carried
    /\ phase = "walk"      => stack[1].view = Root(item)
    /\ phase = "captured"  => item > Len(Entries)
    /\ phase # "refused"   => why = "none"

(* Every frame reads a captured file, and no view has two frames.          *)
Frames ==
    /\ \A i \in DOMAIN stack :
           /\ captured[stack[i].view[1]] # Absent
           /\ stack[i].line \in 1..(Len(captured[stack[i].view[1]]) + 1)
           /\ phase = "transport" => stack[i].view[2] = NoName
    /\ \A i, j \in DOMAIN stack : stack[i].view = stack[j].view => i = j

TypeInv == TypeOK /\ Bodies /\ Place /\ Frames

-----------------------------------------------------------------------------
(* A captured body is a sequence of lines, named where a name matters.     *)
LEMMA BodyFacts ==
    ASSUME TypeOK, Bodies, NEW f \in File, captured[f] # Absent
    PROVE  /\ captured[f] \in Body
           /\ \A i \in DOMAIN captured[f] :
                  /\ captured[f][i] \in Line
                  /\ captured[f][i].kind \in {"open", "lib", "model"} => captured[f][i].name \in Name
<1>1. captured[f] \in Versions[f] /\ captured[f] \in Body
    BY BodyAssumption DEF TypeOK, Bodies
<1> QED
    BY <1>1, BodyAssumption DEF Body

(* What advancing the top frame does.                                      *)
LEMMA AdvancedFacts ==
    ASSUME stack \in Seq(Frame), stack # <<>>
    PROVE  /\ Advanced \in Seq(Frame) /\ Len(Advanced) = Len(stack) /\ Advanced # <<>>
           /\ Len(stack) \in Nat /\ Len(stack) >= 1
           /\ DOMAIN Advanced = DOMAIN stack /\ DOMAIN stack = 1..Len(stack)
           /\ Top \in Frame /\ Top = stack[Len(stack)]
           /\ \A i \in DOMAIN stack :
                  /\ stack[i] \in Frame /\ Advanced[i].view = stack[i].view
                  /\ Advanced[i].open = stack[i].open /\ Advanced[i].found = stack[i].found
                  /\ i # Len(stack) => Advanced[i] = stack[i]
           /\ Advanced[Len(stack)].line = Top.line + 1
<1>1. Len(stack) \in Nat /\ Len(stack) >= 1 /\ DOMAIN stack = 1..Len(stack)
    OBVIOUS
<1>2. Top \in Frame
    BY <1>1 DEF Top
<1>3. [Top EXCEPT !.line = @ + 1] \in Frame
    BY <1>2 DEF Frame
<1>4. Advanced = [stack EXCEPT ![Len(stack)] = [Top EXCEPT !.line = @ + 1]]
    BY <1>1 DEF Advanced, Top
<1>5. Advanced \in Seq(Frame) /\ Len(Advanced) = Len(stack) /\ DOMAIN Advanced = DOMAIN stack
    BY <1>1, <1>3, <1>4
<1>6. \A i \in DOMAIN stack : Advanced[i] = IF i = Len(stack) THEN [Top EXCEPT !.line = @ + 1] ELSE stack[i]
    BY <1>1, <1>4
<1>7. \A i \in DOMAIN stack : stack[i] \in Frame
    OBVIOUS
<1>8. Advanced[Len(stack)] = [Top EXCEPT !.line = @ + 1]
    BY <1>1, <1>6
<1>9. /\ Advanced[Len(stack)].view = Top.view /\ Advanced[Len(stack)].open = Top.open
      /\ Advanced[Len(stack)].found = Top.found /\ Advanced[Len(stack)].line = Top.line + 1
    BY <1>2, <1>8 DEF Frame
<1>10. Advanced # <<>>
    BY <1>1, <1>5
<1> QED
    BY <1>1, <1>2, <1>5, <1>6, <1>7, <1>9, <1>10 DEF Top

(* What returning from the top frame does.                                 *)
LEMMA BelowFacts ==
    ASSUME stack \in Seq(Frame), stack # <<>>
    PROVE  /\ Below \in Seq(Frame) /\ Len(Below) = Len(stack) - 1
           /\ DOMAIN Below = 1..(Len(stack) - 1)
           /\ \A i \in DOMAIN Below : Below[i] = stack[i]
           /\ Below = <<>> <=> Len(stack) = 1
           /\ Len(stack) \in Nat /\ Len(stack) >= 1 /\ DOMAIN stack = 1..Len(stack)
<1>1. Len(stack) \in Nat /\ Len(stack) >= 1 /\ DOMAIN stack = 1..Len(stack)
    OBVIOUS
<1>2. Below = SubSeq(stack, 1, Len(stack) - 1)
    BY DEF Below
<1>3. Below \in Seq(Frame) /\ Len(Below) = Len(stack) - 1
    BY <1>1, <1>2
<1>4. DOMAIN Below = 1..(Len(stack) - 1)
    BY <1>3
<1>5. \A i \in DOMAIN Below : Below[i] = stack[i]
    BY <1>1, <1>2, <1>4
<1>6. Below = <<>> <=> Len(stack) = 1
    BY <1>1, <1>3, <1>4
<1> QED
    BY <1>1, <1>3, <1>4, <1>5, <1>6

(* What pushing a frame does.                                              *)
LEMMA PushFacts ==
    ASSUME NEW st \in Seq(Frame), NEW v \in View
    PROVE  /\ Opened(v) \in Frame /\ Opened(v).view = v /\ Opened(v).line = 1
           /\ Opened(v).open = NoName /\ Opened(v).found = (v[2] = NoName)
           /\ Append(st, Opened(v)) \in Seq(Frame) /\ Append(st, Opened(v)) # <<>>
           /\ Len(Append(st, Opened(v))) = Len(st) + 1
           /\ DOMAIN Append(st, Opened(v)) = 1..(Len(st) + 1)
           /\ \A i \in 1..Len(st) : Append(st, Opened(v))[i] = st[i]
           /\ Append(st, Opened(v))[Len(st) + 1] = Opened(v)
           /\ Len(st) \in Nat /\ DOMAIN st = 1..Len(st)
<1>1. Opened(v) \in Frame
    BY DEF Opened, Frame, View
<1>2. /\ Opened(v).view = v /\ Opened(v).line = 1
      /\ Opened(v).open = NoName /\ Opened(v).found = (v[2] = NoName)
    BY DEF Opened
<1> QED
    BY <1>1, <1>2

-----------------------------------------------------------------------------
(* What capturing a file does.                                             *)
LEMMA CaptureFacts ==
    ASSUME TypeOK, Bodies, NEW f \in File, NEW role \in Role \ {"none"},
           f \in Captured \/ source[f] # Absent, Capture(f, role)
    PROVE  /\ captured' \in [File -> Body \cup {Absent}] /\ roles' \in [File -> Role]
           /\ captured'[f] = BodyOf(f) /\ captured'[f] # Absent
           /\ \A g \in File : captured[g] # Absent => captured'[g] = captured[g]
           /\ \A g \in File : g # f => captured'[g] = captured[g] /\ roles'[g] = roles[g]
           /\ roles'[f] \in {role, roles[f]} \ {"none"}
<1>1. BodyOf(f) # Absent /\ BodyOf(f) \in Body /\ BodyOf(f) \in Versions[f]
    BY BodyAssumption DEF BodyOf, Captured, TypeOK, Bodies
<1>2. captured' = [captured EXCEPT ![f] = BodyOf(f)]
    BY DEF Capture
<1>3. captured' \in [File -> Body \cup {Absent}] /\ captured'[f] = BodyOf(f)
    BY <1>1, <1>2 DEF TypeOK
<1>4. captured[f] # Absent => captured' = captured
    BY <1>2 DEF BodyOf, Captured, TypeOK
<1>5. \A g \in File : g # f => captured'[g] = captured[g]
    BY <1>2 DEF TypeOK
<1>6. roles' = [roles EXCEPT ![f] = IF Priority[role] > Priority[roles[f]] THEN role ELSE roles[f]]
    BY DEF Capture
<1>7. roles' \in [File -> Role] /\ roles'[f] \in {role, roles[f]}
    BY <1>6 DEF TypeOK
<1>8. \A g \in File : g # f => roles'[g] = roles[g]
    BY <1>6 DEF TypeOK
<1>9. roles'[f] # "none"
  <2>1. CASE roles[f] = "none"
    <3>1. Priority["none"] = 0 /\ Priority[role] \in {1, 2, 3, 4}
        BY DEF Priority, Role
    <3> QED
        BY <2>1, <3>1, <1>6 DEF TypeOK
  <2>2. CASE roles[f] # "none"
      BY <2>2, <1>7
  <2> QED
      BY <2>1, <2>2
<1>10. \A g \in File : captured[g] # Absent => captured'[g] = captured[g]
    BY <1>4, <1>5
<1> QED
    BY <1>1, <1>3, <1>5, <1>7, <1>8, <1>9, <1>10

LEMMA CaptureBodies ==
    ASSUME TypeOK, Bodies, NEW f \in File, NEW role \in Role \ {"none"},
           f \in Captured \/ source[f] # Absent, Capture(f, role)
    PROVE  \A g \in File : /\ captured'[g] \in Versions[g] \cup {Absent}
                           /\ roles'[g] = "none" <=> captured'[g] = Absent
<1>1. BodyOf(f) \in Versions[f]
    BY BodyAssumption DEF BodyOf, Captured, TypeOK, Bodies
<1> QED
    BY <1>1, CaptureFacts DEF Bodies

-----------------------------------------------------------------------------
(***************************************************************************)
(* What a step can be: a refusal, a descent's call, line or return, or one *)
(* of the files after the entries.  st is the stack that a call leaves.    *)
(***************************************************************************)
CalledFrom(st) ==
    \/ stack = <<>> /\ st = <<>>
    \/ stack # <<>> /\ st = Advanced /\ ~AtEnd

TSkip(st) ==
    /\ CalledFrom(st) /\ ToTransport(st) /\ UNCHANGED carried
    /\ \/ /\ phase = "entry" /\ item <= Len(Entries)
          /\ Entries[item].file \in carried /\ UNCHANGED held
       \/ /\ phase = "transport" /\ UNCHANGED held
          /\ Links(Here) => IsCarried(Here.to)
       \/ /\ phase = "transport" /\ source[Here.to] # Absent
          /\ Links(Here) /\ IsCarried(Here.to) /\ Capture(Here.to, "parser")

TPush(f, st) ==
    /\ CalledFrom(st) /\ ToTransport(Append(st, Opened(<<f, NoName>>))) /\ UNCHANGED carried
    /\ f \in File /\ source[f] # Absent /\ Capture(f, "parser")
    /\ <<f, NoName>> \notin Active /\ f \notin carried /\ Len(st) <= MaxDepth
    /\ \/ phase = "entry" /\ item <= Len(Entries) /\ f = Entries[item].file
       \/ phase = "transport" /\ Links(Here) /\ f = Here.to

WCall(v, form, role, st) ==
    /\ CalledFrom(st) /\ v \in View /\ v \notin Active
    /\ form \in {"lib", "include"} /\ role \in {"corner", "transitive"}
    /\ v[1] \in Captured \/ source[v[1]] # Absent
    /\ Len(st) <= MaxDepth /\ Len(closure) < MaxEdges
    /\ Capture(v[1], role)
    /\ closure' = Append(closure, [form |-> form, view |-> v, body |-> BodyOf(v[1])])
    /\ ToWalk(IF v \in walked THEN st ELSE Append(st, Opened(v)))
    /\ UNCHANGED <<namespace, walked>>
    /\ \/ phase = "library" /\ v = Root(item)
       \/ phase = "walk" /\ Links(Here) /\ Reads /\ v = Selects(Here)

WLine ==
    /\ phase = "walk" /\ ~AtEnd /\ UNCHANGED <<held, closure, walked>>
    /\ \/ /\ Here.kind = "open" /\ Top.open = NoName /\ UNCHANGED namespace
          /\ ToWalk([Advanced EXCEPT ![Len(stack)].open = Here.name,
                                     ![Len(stack)].found = @ \/ Here.name = Top.view[2]])
       \/ /\ Here.kind = "close" /\ Top.open # NoName /\ UNCHANGED namespace
          /\ ToWalk([Advanced EXCEPT ![Len(stack)].open = NoName])
       \/ /\ Here.kind \notin {"open", "close"} /\ ~Reads
          /\ ToWalk(Advanced) /\ UNCHANGED namespace
       \/ /\ Here.kind = "model" /\ Reads /\ ToWalk(Advanced)
          /\ namespace' = namespace \cup {Here.name}

WReturn ==
    /\ phase = "walk" /\ AtEnd /\ Top.open = NoName /\ Top.found
    /\ walked' = walked \cup {Top.view}
    /\ ToWalk(Below) /\ UNCHANGED <<held, closure, namespace>>

Extra(f, role) ==
    /\ phase = "entry" /\ item > Len(Entries)
    /\ f \in File /\ role \in {"module", "identity"} /\ source[f] # Absent
    /\ Capture(f, role)
    /\ \/ item <= Len(Entries) + Len(Modules) /\ item' = item + 1 /\ UNCHANGED phase
       \/ UNCHANGED item /\ phase' = "captured"
    /\ UNCHANGED <<tree, closure, namespace, carried, walked, stack, why>>

Done ==
    /\ phase = "entry" /\ item > Len(Entries) /\ phase' = "captured"
    /\ UNCHANGED <<tree, held, closure, namespace, carried, walked, stack, item, why>>

Shape ==
    \/ \E code : Refuse(code)
    \/ \E st : TSkip(st)
    \/ \E f, st : TPush(f, st)
    \/ TransportEnd
    \/ \E v, form, role, st : WCall(v, form, role, st)
    \/ WLine
    \/ WReturn
    \/ \E f, role : Extra(f, role)
    \/ Done

(* The profile, as far as the capture has come.                            *)
LEMMA ItemFacts ==
    ASSUME TypeOK
    PROVE  /\ Len(Entries) \in Nat /\ Len(Modules) \in Nat /\ item \in Nat /\ item >= 1
           /\ \A i \in 1..Len(Entries) :
                  /\ Entries[i] \in Entry /\ Entries[i].file \in File
                  /\ Entries[i].form \in {"lib", "include"} /\ Root(i) \in View
           /\ \A i \in 1..Len(Modules) : Modules[i] \in File
<1>1. Len(Entries) \in Nat /\ Len(Modules) \in Nat
    BY ProfileAssumption
<1>2. item \in Nat /\ item >= 1
    BY <1>1 DEF TypeOK
<1>3. ASSUME NEW i \in 1..Len(Entries)
      PROVE  /\ Entries[i] \in Entry /\ Entries[i].file \in File
             /\ Entries[i].form \in {"lib", "include"} /\ Root(i) \in View
  <2>1. Entries[i] \in Entry
      BY <1>3, ProfileAssumption
  <2> QED
      BY <2>1 DEF Entry, Root, View
<1>4. \A i \in 1..Len(Modules) : Modules[i] \in File
    BY ProfileAssumption
<1> QED
    BY <1>1, <1>2, <1>3, <1>4

(* The line on top, while there is one.                                    *)
LEMMA HereFacts ==
    ASSUME TypeInv, stack # <<>>, ~AtEnd
    PROVE  /\ Top.view \in View /\ Top.view[1] \in File
           /\ Text \in Body /\ Text = captured[Top.view[1]]
           /\ Top.line \in DOMAIN Text /\ DOMAIN Text = 1..Len(Text) /\ Len(Text) \in Nat
           /\ Here \in Line /\ Here = Text[Top.line] /\ Here.to \in File
           /\ Here.kind \in {"open", "lib", "model"} => Here.name \in Name
           /\ Links(Here) => Selects(Here) \in View /\ Selects(Here)[1] = Here.to
<1>1. stack \in Seq(Frame)
    BY DEF TypeInv, TypeOK
<1>2. Top \in Frame /\ Top = stack[Len(stack)] /\ Len(stack) \in DOMAIN stack
    BY <1>1, AdvancedFacts
<1>3. Top.view \in View /\ Top.view[1] \in File /\ Top.line \in Nat
    BY <1>2 DEF Frame, View
<1>4. captured[Top.view[1]] # Absent /\ Top.line >= 1
    BY <1>2 DEF TypeInv, Frames
<1>5. Text \in Body /\ Text = captured[Top.view[1]]
    BY <1>3, <1>4, BodyFacts DEF Text, TypeInv
<1>6. Len(Text) \in Nat /\ DOMAIN Text = 1..Len(Text)
    BY <1>5 DEF Body
<1>7. Top.line \in DOMAIN Text
    BY <1>3, <1>4, <1>6 DEF AtEnd
<1>8. Here \in Line /\ (Here.kind \in {"open", "lib", "model"} => Here.name \in Name)
    BY <1>3, <1>4, <1>5, <1>7, BodyFacts DEF Here, TypeInv
<1>9. Here.to \in File
    BY <1>8 DEF Line
<1>10. Links(Here) => Selects(Here) \in View /\ Selects(Here)[1] = Here.to
    BY <1>8, <1>9 DEF Links, Selects, View
<1> QED
    BY <1>3, <1>5, <1>6, <1>7, <1>8, <1>9, <1>10 DEF Here

(* A call of capture_transport_closure.                                    *)
LEMMA CarryShape ==
    ASSUME TypeInv, NEW f, NEW st, Carry(f, st), CalledFrom(st), f \in File, source[f] # Absent,
           \/ phase = "entry" /\ item <= Len(Entries) /\ f = Entries[item].file
           \/ phase = "transport" /\ Links(Here) /\ f = Here.to
    PROVE  Shape
<1>1. CASE \E code : Refuse(code)
    BY <1>1 DEF Shape
<1>2. CASE f \in carried /\ ToTransport(st) /\ UNCHANGED <<held, carried>>
  <2>1. TSkip(st)
      BY <1>2 DEF TSkip, IsCarried
  <2> QED
      BY <2>1 DEF Shape
<1>3. CASE /\ Len(st) <= MaxDepth /\ <<f, NoName>> \notin Active /\ f \notin carried
           /\ Capture(f, "parser") /\ ToTransport(Append(st, Opened(<<f, NoName>>)))
           /\ UNCHANGED carried
  <2>1. TPush(f, st)
      BY <1>3 DEF TPush
  <2> QED
      BY <2>1 DEF Shape
<1> QED
    BY <1>1, <1>2, <1>3 DEF Carry, CaptureFails

(* A call of walk.                                                         *)
LEMMA WalkShape ==
    ASSUME TypeInv, NEW v \in View, NEW form \in {"lib", "include"},
           NEW role \in {"corner", "transitive"}, NEW st,
           Walk(v, form, role, st), CalledFrom(st), v[1] \in Captured \/ source[v[1]] # Absent,
           Len(st) \in Nat,
           \/ phase = "library" /\ v = Root(item)
           \/ phase = "walk" /\ Links(Here) /\ Reads /\ v = Selects(Here)
    PROVE  Shape
<1>1. CASE \E code : Refuse(code)
    BY <1>1 DEF Shape
<1>2. CASE /\ WalkIssue(v, st) = "none"
           /\ Capture(v[1], role)
           /\ closure' = Append(closure, [form |-> form, view |-> v, body |-> BodyOf(v[1])])
           /\ ToWalk(IF v \in walked THEN st ELSE Append(st, Opened(v)))
           /\ UNCHANGED <<namespace, walked>>
  <2>1. Len(closure) \in Nat
      BY DEF TypeInv, TypeOK
  <2>2. v \notin Active /\ Len(st) <= MaxDepth /\ Len(closure) < MaxEdges
      BY <1>2, <2>1, BoundAssumption DEF WalkIssue
  <2>3. WCall(v, form, role, st)
      BY <1>2, <2>2 DEF WCall
  <2> QED
      BY <2>3 DEF Shape
<1> QED
    BY <1>1, <1>2 DEF Walk, CaptureFails

LEMMA Shapes == TypeInv /\ Step => Shape
<1> SUFFICES ASSUME TypeInv, Step PROVE Shape
    OBVIOUS
<1>0. stack \in Seq(Frame) /\ TypeOK
    BY DEF TypeInv, TypeOK
<1>1. ASSUME StartEntry PROVE Shape
  <2>1. stack = <<>> /\ CalledFrom(<<>>)
      BY <1>1 DEF StartEntry, TypeInv, Place, CalledFrom
  <2>2. Entries[item].file \in File
      BY <1>0, <1>1, ItemFacts DEF StartEntry
  <2>3. CASE \E code : Refuse(code)
      BY <2>3 DEF Shape
  <2>4. CASE source[Entries[item].file] # Absent /\ Carry(Entries[item].file, <<>>)
      BY <1>1, <2>1, <2>2, <2>4, CarryShape DEF StartEntry
  <2> QED
      BY <1>1, <2>3, <2>4 DEF StartEntry
<1>2. ASSUME TransportLine PROVE Shape
  <2>1. stack # <<>> /\ CalledFrom(Advanced) /\ ~AtEnd /\ phase = "transport"
      BY <1>2 DEF TransportLine, TypeInv, Place, CalledFrom
  <2>2. Here.to \in File
      BY <2>1, HereFacts
  <2>3. CASE \E code : Refuse(code)
      BY <2>3 DEF Shape
  <2>4. CASE /\ Here.kind \in {"open", "close", "model"}
             /\ ToTransport(Advanced) /\ UNCHANGED <<held, carried>>
    <3>1. TSkip(Advanced)
        BY <2>1, <2>4 DEF TSkip, Links
    <3> QED
        BY <3>1 DEF Shape
  <2>5. CASE /\ Links(Here) /\ source[Here.to] # Absent /\ IsCarried(Here.to)
             /\ Capture(Here.to, "parser") /\ ToTransport(Advanced) /\ UNCHANGED carried
    <3>1. TSkip(Advanced)
        BY <2>1, <2>5 DEF TSkip
    <3> QED
        BY <3>1 DEF Shape
  <2>6. CASE Links(Here) /\ source[Here.to] # Absent /\ Carry(Here.to, Advanced)
      BY <2>1, <2>2, <2>6, CarryShape
  <2> QED
      BY <1>2, <2>3, <2>4, <2>5, <2>6 DEF TransportLine
<1>3. ASSUME TransportEnd PROVE Shape
    BY <1>3 DEF Shape
<1>4. ASSUME StartWalk PROVE Shape
  <2>1. /\ stack = <<>> /\ CalledFrom(<<>>) /\ phase = "library" /\ item <= Len(Entries)
        /\ Entries[item].file \in carried
      BY <1>4 DEF StartWalk, TypeInv, Place, CalledFrom
  <2>2. /\ Root(item) \in View /\ Entries[item].form \in {"lib", "include"}
        /\ Root(item)[1] = Entries[item].file /\ Entries[item].file \in File
      BY <1>0, <2>1, ItemFacts DEF Root
  <2>3. Walk(Root(item), Entries[item].form, "corner", <<>>)
      BY <1>4 DEF StartWalk, Root
  <2>4. Len(<<>>) \in Nat
      OBVIOUS
  <2>5. Root(item)[1] \in Captured
      BY <2>1, <2>2 DEF Captured, TypeInv, Bodies
  <2> QED
      BY <2>1, <2>2, <2>3, <2>4, <2>5, WalkShape
<1>5. ASSUME SectionLine PROVE Shape
    BY <1>5 DEF SectionLine, WLine, Shape
<1>6. ASSUME ContentLine PROVE Shape
  <2>1. stack # <<>> /\ CalledFrom(Advanced) /\ ~AtEnd /\ phase = "walk"
      BY <1>6 DEF ContentLine, TypeInv, Place, CalledFrom
  <2>2. Here \in Line /\ (Links(Here) => Selects(Here) \in View /\ Selects(Here)[1] = Here.to)
      BY <2>1, HereFacts
  <2>3. CASE Reads /\ Links(Here) /\ source[Here.to] # Absent
             /\ Walk(Selects(Here), Here.kind, "transitive", Advanced)
    <3>1. Here.kind \in {"lib", "include"} /\ Len(Advanced) \in Nat
        BY <1>0, <2>1, <2>3, AdvancedFacts DEF Links
    <3> QED
        BY <2>1, <2>2, <2>3, <3>1, WalkShape
  <2>4. CASE ~(Reads /\ Links(Here) /\ source[Here.to] # Absent
               /\ Walk(Selects(Here), Here.kind, "transitive", Advanced))
    <3>1. (\E code : Refuse(code)) \/ WLine
        BY <1>6, <2>4 DEF ContentLine, WLine, held
    <3> QED
        BY <3>1 DEF Shape
  <2> QED
      BY <2>3, <2>4
<1>7. ASSUME WalkEnd PROVE Shape
    BY <1>7 DEF WalkEnd, WReturn, Shape
<1>8. ASSUME CaptureModule PROVE Shape
  <2>1. item > Len(Entries) /\ item - Len(Entries) <= Len(Modules) /\ phase = "entry"
      BY <1>8 DEF CaptureModule
  <2>2. Modules[item - Len(Entries)] \in File /\ item <= Len(Entries) + Len(Modules)
      BY <1>0, <2>1, ItemFacts
  <2>3. (\E code : Refuse(code)) \/ Extra(Modules[item - Len(Entries)], "module")
      BY <1>8, <2>1, <2>2 DEF CaptureModule, Extra, CaptureFails
  <2> QED
      BY <2>3 DEF Shape
<1>9. ASSUME CaptureIdentity PROVE Shape
  <2>1. item > Len(Entries)
      BY <1>0, <1>9, ItemFacts DEF CaptureIdentity
  <2>2. Identity \in File \cup {Absent}
      BY ProfileAssumption
  <2>3. (\E code : Refuse(code)) \/ Done \/ Extra(Identity, "identity")
      BY <1>9, <2>1, <2>2 DEF CaptureIdentity, Extra, Done, CaptureFails
  <2> QED
      BY <2>3 DEF Shape
<1> QED
    BY <1>1, <1>2, <1>3, <1>4, <1>5, <1>6, <1>7, <1>8, <1>9 DEF Step

-----------------------------------------------------------------------------
(* The stack that a call leaves has the frames it had, the top one a line  *)
(* further.                                                                *)
LEMMA CalledFacts ==
    ASSUME TypeInv, NEW st, CalledFrom(st)
    PROVE  /\ st \in Seq(Frame) /\ Len(st) = Len(stack) /\ Len(st) \in Nat
           /\ DOMAIN st = DOMAIN stack /\ DOMAIN stack = 1..Len(stack)
           /\ st = <<>> <=> stack = <<>>
           /\ \A i \in DOMAIN stack :
                  /\ stack[i] \in Frame /\ st[i] \in Frame /\ st[i].view = stack[i].view
                  /\ st[i].line \in 1..(Len(captured[st[i].view[1]]) + 1)
<1>1. stack \in Seq(Frame)
    BY DEF TypeInv, TypeOK
<1>2. CASE stack = <<>> /\ st = <<>>
    BY <1>2
<1>3. CASE stack # <<>> /\ st = Advanced /\ ~AtEnd
  <2>1. ASSUME NEW i \in DOMAIN stack
        PROVE  /\ stack[i] \in Frame /\ st[i] \in Frame /\ st[i].view = stack[i].view
               /\ st[i].line \in 1..(Len(captured[st[i].view[1]]) + 1)
    <3>1. stack[i].line \in 1..(Len(captured[stack[i].view[1]]) + 1)
        BY DEF TypeInv, Frames
    <3>2. CASE i # Len(stack)
        BY <1>1, <1>3, <3>1, <3>2, AdvancedFacts
    <3>3. CASE i = Len(stack)
      <4>1. Top.line \in 1..Len(captured[Top.view[1]]) /\ Len(captured[Top.view[1]]) \in Nat
          BY <1>3, HereFacts
      <4> QED
          BY <1>1, <1>3, <3>3, <4>1, AdvancedFacts
    <3> QED
        BY <3>2, <3>3
  <2> QED
      BY <1>1, <1>3, <2>1, AdvancedFacts
<1> QED
    BY <1>2, <1>3 DEF CalledFrom

LEMMA TypeStep == TypeInv /\ Shape => TypeOK'
<1> SUFFICES ASSUME TypeInv, Shape PROVE TypeOK'
    OBVIOUS
<1> USE DEF tree, held
<1>0. TypeOK /\ Bodies /\ stack \in Seq(Frame) /\ Len(<<>>) = 0 /\ <<>> \in Seq(Frame)
    BY DEF TypeInv, TypeOK
<1>b. MaxDepth \in Nat /\ MaxEdges \in Nat
    BY BoundAssumption
<1>1. ASSUME NEW code, Refuse(code) PROVE TypeOK'
    BY <1>0, <1>1, <1>b DEF Refuse, TypeOK
<1>2. ASSUME NEW st, TSkip(st) PROVE TypeOK'
  <2>1. st \in Seq(Frame) /\ Len(st) <= MaxDepth + 1
      BY <1>0, <1>2, CalledFacts DEF TSkip, TypeOK
  <2>2. captured' \in [File -> Body \cup {Absent}] /\ roles' \in [File -> Role]
    <3>1. CASE UNCHANGED held
        BY <1>0, <3>1 DEF TypeOK
    <3>2. CASE /\ phase = "transport" /\ source[Here.to] # Absent
               /\ Links(Here) /\ Capture(Here.to, "parser")
      <4>1. stack # <<>> /\ ~AtEnd
          BY <1>2, <3>2 DEF TypeInv, Place, TSkip, CalledFrom
      <4>2. Here.to \in File /\ "parser" \in Role \ {"none"}
          BY <4>1, HereFacts DEF Role
      <4> QED
          BY <1>0, <3>2, <4>2, CaptureFacts
    <3> QED
        BY <1>2, <3>1, <3>2 DEF TSkip
  <2> QED
      BY <1>0, <1>2, <2>1, <2>2 DEF TSkip, ToTransport, TypeOK
<1>3. ASSUME NEW f, NEW st, TPush(f, st) PROVE TypeOK'
  <2>1. st \in Seq(Frame) /\ Len(st) <= MaxDepth /\ Len(st) \in Nat
      BY <1>3, CalledFacts DEF TPush
  <2>2. f \in File /\ <<f, NoName>> \in View /\ "parser" \in Role \ {"none"}
      BY <1>3 DEF TPush, View, Role
  <2>3. /\ Append(st, Opened(<<f, NoName>>)) \in Seq(Frame)
        /\ Len(Append(st, Opened(<<f, NoName>>))) <= MaxDepth + 1
      BY <1>b, <2>1, <2>2, PushFacts
  <2>4. captured' \in [File -> Body \cup {Absent}] /\ roles' \in [File -> Role]
      BY <1>0, <1>3, <2>2, CaptureFacts DEF TPush
  <2> QED
      BY <1>0, <1>3, <2>3, <2>4 DEF TPush, ToTransport, TypeOK
<1>4. ASSUME TransportEnd PROVE TypeOK'
  <2>1. stack # <<>>
      BY <1>4 DEF TransportEnd, TypeInv, Place
  <2>2. Below \in Seq(Frame) /\ Len(Below) <= MaxDepth + 1
      BY <1>0, <1>b, <2>1, BelowFacts DEF TypeOK
  <2>3. Top.view[1] \in File
      BY <1>0, <2>1, AdvancedFacts DEF Frame, View
  <2> QED
      BY <1>0, <1>4, <2>2, <2>3 DEF TransportEnd, ToTransport, TypeOK
<1>5. ASSUME NEW v, NEW form, NEW role, NEW st, WCall(v, form, role, st) PROVE TypeOK'
  <2>1. st \in Seq(Frame) /\ Len(st) <= MaxDepth /\ Len(st) \in Nat
      BY <1>5, CalledFacts DEF WCall
  <2>2. v \in View /\ v[1] \in File /\ role \in Role \ {"none"}
      BY <1>5 DEF WCall, View, Role
  <2>3. Append(st, Opened(v)) \in Seq(Frame) /\ Len(Append(st, Opened(v))) <= MaxDepth + 1
      BY <1>b, <2>1, <2>2, PushFacts
  <2>4. captured' \in [File -> Body \cup {Absent}] /\ roles' \in [File -> Role]
      BY <1>0, <1>5, <2>2, CaptureFacts DEF WCall
  <2>5. BodyOf(v[1]) \in Body
      BY <1>0, <1>5, <2>2 DEF BodyOf, Captured, TypeOK, WCall
  <2>6. [form |-> form, view |-> v, body |-> BodyOf(v[1])] \in [form : {"lib", "include"}, view : View, body : Body]
      BY <1>5, <2>2, <2>5 DEF WCall
  <2>7. /\ closure' \in Seq([form : {"lib", "include"}, view : View, body : Body])
        /\ Len(closure') <= MaxEdges
      BY <1>0, <1>5, <1>b, <2>6 DEF WCall, TypeOK
  <2>8. stack' \in Seq(Frame) /\ Len(stack') <= MaxDepth + 1
      BY <1>5, <1>b, <2>1, <2>3 DEF WCall, ToWalk
  <2>9. item' \in 1..(Len(Entries) + Len(Modules) + 1)
    <3>1. item <= Len(Entries)
        BY <1>5 DEF WCall, TypeInv, Place
    <3> QED
        BY <1>0, <1>5, <3>1, ItemFacts DEF WCall, ToWalk
  <2>10. phase' \in {"entry", "walk"}
      BY <1>5 DEF WCall, ToWalk
  <2> QED
      BY <1>0, <1>5, <2>4, <2>7, <2>8, <2>9, <2>10 DEF WCall, ToWalk, TypeOK
<1>6. ASSUME WLine PROVE TypeOK'
  <2>1. stack # <<>> /\ ~AtEnd /\ phase = "walk"
      BY <1>6 DEF WLine, TypeInv, Place
  <2>2. /\ Here.kind \in {"open", "lib", "model"} => Here.name \in Name
        /\ Top.view \in View
      BY <2>1, HereFacts
  <2>3. /\ Advanced \in Seq(Frame) /\ Len(Advanced) = Len(stack) /\ Len(stack) \in DOMAIN Advanced
        /\ Advanced[Len(stack)] \in Frame /\ Advanced # <<>>
      BY <1>0, <2>1, AdvancedFacts
  <2>4. ASSUME NEW o \in Name \cup {NoName}, NEW found \in BOOLEAN
        PROVE  /\ [Advanced EXCEPT ![Len(stack)].open = o, ![Len(stack)].found = found] \in Seq(Frame)
               /\ Len([Advanced EXCEPT ![Len(stack)].open = o, ![Len(stack)].found = found]) = Len(stack)
    <3>1. [Advanced[Len(stack)] EXCEPT !.open = o, !.found = found] \in Frame
        BY <2>3 DEF Frame
    <3> DEFINE A == [Advanced EXCEPT ![Len(stack)] = [Advanced[Len(stack)] EXCEPT !.open = o, !.found = found]]
    <3>2. A \in Seq(Frame) /\ Len(A) = Len(stack)
        BY <2>3, <3>1
    <3>3. A = [Advanced EXCEPT ![Len(stack)].open = o, ![Len(stack)].found = found]
        BY <2>3
    <3> QED
        BY <3>2, <3>3
  <2>5. stack' \in Seq(Frame) /\ Len(stack') = Len(stack)
    <3>1. CASE stack' = Advanced
        BY <2>3, <3>1
    <3>2. CASE /\ Here.kind = "open"
               /\ stack' = [Advanced EXCEPT ![Len(stack)].open = Here.name,
                                     ![Len(stack)].found = @ \/ Here.name = Top.view[2]]
        BY <2>2, <2>3, <2>4, <3>2 DEF Frame
    <3>3. CASE stack' = [Advanced EXCEPT ![Len(stack)].open = NoName]
        BY <2>3, <3>3 DEF Frame
    <3> QED
        BY <1>6, <3>1, <3>2, <3>3 DEF WLine, ToWalk
  <2>6. namespace' \subseteq Name
      BY <1>0, <1>6, <2>2 DEF WLine, TypeOK
  <2>7. phase' \in {"walk", "entry"} /\ item' \in 1..(Len(Entries) + Len(Modules) + 1)
    <3>1. item <= Len(Entries)
        BY <2>1 DEF TypeInv, Place
    <3> QED
        BY <1>0, <1>6, <3>1, ItemFacts DEF WLine, ToWalk
  <2> QED
      BY <1>0, <1>6, <2>5, <2>6, <2>7 DEF WLine, ToWalk, TypeOK
<1>7. ASSUME WReturn PROVE TypeOK'
  <2>1. stack # <<>> /\ item <= Len(Entries)
      BY <1>7 DEF WReturn, TypeInv, Place
  <2>2. Below \in Seq(Frame) /\ Len(Below) <= MaxDepth + 1
      BY <1>0, <1>b, <2>1, BelowFacts DEF TypeOK
  <2>3. Top.view \in View
      BY <1>0, <2>1, AdvancedFacts DEF Frame
  <2>4. phase' \in {"walk", "entry"} /\ item' \in 1..(Len(Entries) + Len(Modules) + 1)
      BY <1>0, <1>7, <2>1, ItemFacts DEF WReturn, ToWalk
  <2> QED
      BY <1>0, <1>7, <2>2, <2>3, <2>4 DEF WReturn, ToWalk, TypeOK
<1>8. ASSUME NEW f, NEW role, Extra(f, role) PROVE TypeOK'
  <2>1. captured' \in [File -> Body \cup {Absent}] /\ roles' \in [File -> Role]
      BY <1>0, <1>8, CaptureFacts DEF Extra, Role
  <2>2. item' \in 1..(Len(Entries) + Len(Modules) + 1) /\ phase' \in {"entry", "captured"}
      BY <1>0, <1>8, ItemFacts DEF Extra, TypeOK
  <2> QED
      BY <1>0, <1>8, <2>1, <2>2 DEF Extra, TypeOK
<1>9. ASSUME Done PROVE TypeOK'
    BY <1>0, <1>9 DEF Done, TypeOK
<1> QED
    BY <1>1, <1>2, <1>3, <1>4, <1>5, <1>6, <1>7, <1>8, <1>9 DEF Shape

(* A captured file keeps its body, and every file its kind of body.        *)
Kept == \A g \in File : captured[g] # Absent => captured'[g] = captured[g]

LEMMA BodiesStep == TypeInv /\ Shape => Bodies' /\ Kept
<1> SUFFICES ASSUME TypeInv, Shape PROVE Bodies' /\ Kept
    OBVIOUS
<1>0. TypeOK /\ Bodies /\ stack \in Seq(Frame)
    BY DEF TypeInv, TypeOK
<1>1. ASSUME NEW f \in File, NEW role \in Role \ {"none"}, source[f] # Absent \/ f \in Captured,
             Capture(f, role), UNCHANGED source, carried' = carried
      PROVE  Bodies' /\ Kept
  <2>1. Kept
      BY <1>0, <1>1, CaptureFacts DEF Kept
  <2>2. \A g \in File : /\ captured'[g] \in Versions[g] \cup {Absent}
                        /\ roles'[g] = "none" <=> captured'[g] = Absent
      BY <1>0, <1>1, CaptureBodies
  <2> QED
      BY <1>0, <1>1, <2>1, <2>2 DEF Bodies, Kept
<1>2. ASSUME UNCHANGED <<source, captured, roles, carried>> PROVE Bodies' /\ Kept
    BY <1>0, <1>2 DEF Bodies, Kept
<1> USE DEF tree, held
<1>3. ASSUME NEW code, Refuse(code) PROVE Bodies' /\ Kept
    BY <1>2, <1>3 DEF Refuse
<1>4. ASSUME NEW st, TSkip(st) PROVE Bodies' /\ Kept
  <2>1. CASE UNCHANGED held
      BY <1>2, <1>4, <2>1 DEF TSkip, ToTransport
  <2>2. CASE /\ phase = "transport" /\ source[Here.to] # Absent
             /\ Links(Here) /\ Capture(Here.to, "parser")
    <3>1. stack # <<>> /\ ~AtEnd
        BY <1>4, <2>2 DEF TypeInv, Place, TSkip, CalledFrom
    <3>2. Here.to \in File /\ "parser" \in Role \ {"none"}
        BY <3>1, HereFacts DEF Role
    <3> QED
        BY <1>1, <1>4, <2>2, <3>2 DEF TSkip, ToTransport
  <2> QED
      BY <1>4, <2>1, <2>2 DEF TSkip
<1>5. ASSUME NEW f, NEW st, TPush(f, st) PROVE Bodies' /\ Kept
    BY <1>1, <1>5 DEF TPush, ToTransport, Role
<1>6. ASSUME TransportEnd PROVE Bodies' /\ Kept
  <2>1. stack # <<>>
      BY <1>6 DEF TransportEnd, TypeInv, Place
  <2>2. captured[Top.view[1]] # Absent
      BY <1>0, <2>1, AdvancedFacts DEF TypeInv, Frames
  <2> QED
      BY <1>0, <1>6, <2>2 DEF TransportEnd, ToTransport, Bodies, Kept
<1>7. ASSUME NEW v, NEW form, NEW role, NEW st, WCall(v, form, role, st) PROVE Bodies' /\ Kept
    BY <1>1, <1>7 DEF WCall, ToWalk, Role, View
<1>8. ASSUME WLine PROVE Bodies' /\ Kept
    BY <1>2, <1>8 DEF WLine, ToWalk
<1>9. ASSUME WReturn PROVE Bodies' /\ Kept
    BY <1>2, <1>9 DEF WReturn, ToWalk
<1>10. ASSUME NEW f, NEW role, Extra(f, role) PROVE Bodies' /\ Kept
    BY <1>1, <1>10 DEF Extra, Role
<1>11. ASSUME Done PROVE Bodies' /\ Kept
    BY <1>2, <1>11 DEF Done
<1> QED
    BY <1>3, <1>4, <1>5, <1>6, <1>7, <1>8, <1>9, <1>10, <1>11 DEF Shape

(* Where the capture is follows from the shape of the step.                *)
LEMMA PlaceStep == TypeInv /\ Shape => Place'
<1> SUFFICES ASSUME TypeInv, Shape PROVE Place'
    OBVIOUS
<1>0. TypeOK /\ Place /\ stack \in Seq(Frame) /\ item \in Nat /\ Len(Entries) \in Nat
    BY ItemFacts DEF TypeInv, TypeOK
<1>b. ASSUME NEW st \in Seq(Frame), NEW v \in View
      PROVE  /\ Append(st, Opened(v)) # <<>>
             /\ st = <<>> => Append(st, Opened(v))[1].view = v
             /\ st # <<>> => Append(st, Opened(v))[1].view = st[1].view
  <2>1. CASE st = <<>>
    <3>1. Len(st) + 1 = 1
        BY <2>1
    <3>2. Append(st, Opened(v))[1] = Opened(v) /\ Opened(v).view = v /\ Append(st, Opened(v)) # <<>>
        BY <3>1, PushFacts
    <3> QED
        BY <2>1, <3>2
  <2>2. CASE st # <<>>
    <3>1. 1 \in 1..Len(st)
        BY <2>2
    <3> QED
        BY <2>2, <3>1, PushFacts
  <2> QED
      BY <2>1, <2>2
<1>c. ASSUME NEW st, CalledFrom(st)
      PROVE  /\ st \in Seq(Frame) /\ (st = <<>> <=> stack = <<>>)
             /\ st # <<>> => st[1].view = stack[1].view
  <2>1. st \in Seq(Frame) /\ (st = <<>> <=> stack = <<>>)
      BY <1>c, CalledFacts
  <2>2. stack # <<>> => 1 \in DOMAIN stack
      BY <1>0
  <2> QED
      BY <1>c, <2>1, <2>2, CalledFacts
<1> USE DEF Root
<1>1. ASSUME NEW code, Refuse(code) PROVE Place'
    BY <1>1 DEF Refuse, Place
<1>2. ASSUME NEW st, TSkip(st) PROVE Place'
    BY <1>0, <1>2, <1>c DEF TSkip, ToTransport, Place
<1>3. ASSUME NEW f, NEW st, TPush(f, st) PROVE Place'
  <2>1. CalledFrom(st) /\ <<f, NoName>> \in View
      BY <1>3 DEF TPush, View
  <2> QED
      BY <1>0, <1>3, <1>b, <1>c, <2>1 DEF TPush, ToTransport, Place
<1>4. ASSUME TransportEnd PROVE Place'
  <2>1. stack # <<>> /\ Below \in Seq(Frame) /\ (Below = <<>> <=> Len(stack) = 1)
      BY <1>0, <1>4, BelowFacts DEF TransportEnd, Place
  <2>2. Below # <<>> => Below[1] = stack[1]
      BY <1>0, <2>1, BelowFacts
  <2>3. Below = <<>> => Top = stack[1]
      BY <2>1 DEF Top
  <2> QED
      BY <1>0, <1>4, <2>1, <2>2, <2>3 DEF TransportEnd, ToTransport, Place
<1>5. ASSUME NEW v, NEW form, NEW role, NEW st, WCall(v, form, role, st) PROVE Place'
  <2>1. CalledFrom(st) /\ v \in View
      BY <1>5 DEF WCall
  <2> QED
      BY SMTT(30), <1>0, <1>5, <1>b, <1>c, <2>1 DEF WCall, ToWalk, Place
<1>6. ASSUME WLine PROVE Place'
  <2>1. stack # <<>> /\ Advanced # <<>> /\ Len(stack) \in DOMAIN Advanced /\ 1 \in DOMAIN Advanced
        /\ Advanced[1].view = stack[1].view
      BY <1>0, <1>6, AdvancedFacts DEF WLine, Place
  <2>2. Advanced \in Seq(Frame) /\ Advanced[1] \in Frame
      BY <1>0, <2>1, AdvancedFacts
  <2>3. stack' # <<>> /\ stack'[1].view = stack[1].view
    <3>1. CASE stack' = Advanced
        BY <2>1, <3>1
    <3>2. ASSUME NEW o, NEW found,
                 \/ stack' = [Advanced EXCEPT ![Len(stack)].open = o, ![Len(stack)].found = found]
                 \/ stack' = [Advanced EXCEPT ![Len(stack)].open = o]
          PROVE  stack' # <<>> /\ stack'[1].view = stack[1].view
      <4>1. DOMAIN stack' = DOMAIN Advanced
          BY <3>2
      <4>2. stack'[1].view = Advanced[1].view
          BY <2>1, <2>2, <3>2 DEF Frame
      <4> QED
          BY <2>1, <4>1, <4>2
    <3> QED
        BY <1>6, <3>1, <3>2 DEF WLine, ToWalk
  <2>4. phase' = "walk" /\ item' = item /\ phase = "walk" /\ why' = why
      BY <1>6, <2>3 DEF WLine, ToWalk
  <2> QED
      BY <1>0, <2>3, <2>4 DEF Place
<1>7. ASSUME WReturn PROVE Place'
  <2>1. stack # <<>> /\ Below \in Seq(Frame) /\ (Below = <<>> <=> Len(stack) = 1)
      BY <1>0, <1>7, BelowFacts DEF WReturn, Place
  <2>2. Below # <<>> => Below[1] = stack[1]
      BY <1>0, <2>1, BelowFacts
  <2> QED
      BY <1>0, <1>7, <2>1, <2>2 DEF WReturn, ToWalk, Place
<1>8. ASSUME NEW f, NEW role, Extra(f, role) PROVE Place'
    BY <1>0, <1>8 DEF Extra, Place
<1>9. ASSUME Done PROVE Place'
    BY <1>0, <1>9 DEF Done, Place
<1> QED
    BY <1>1, <1>2, <1>3, <1>4, <1>5, <1>6, <1>7, <1>8, <1>9 DEF Shape

(* Frames, for the stacks that a step can leave.                           *)
LEMMA FramesStep == TypeInv /\ Shape => Frames'
<1> SUFFICES ASSUME TypeInv, Shape PROVE Frames'
    OBVIOUS
<1>0. TypeOK /\ Frames /\ Place /\ Kept /\ Bodies' /\ stack \in Seq(Frame)
    BY BodiesStep DEF TypeInv, TypeOK
<1>f. \A i \in DOMAIN stack : stack[i] \in Frame /\ stack[i].view \in View /\ stack[i].view[1] \in File
  <2>1. \A i \in DOMAIN stack : stack[i] \in Frame
      BY <1>0
  <2> QED
      BY <2>1 DEF Frame, View
<1>a. ASSUME stack' = <<>> PROVE Frames'
    BY <1>a DEF Frames
<1>b. ASSUME NEW st, CalledFrom(st), DOMAIN stack' = DOMAIN st,
             \A i \in DOMAIN st : stack'[i].view = st[i].view /\ stack'[i].line = st[i].line,
             stack # <<>> => (phase' = "transport" => phase = "transport")
      PROVE  Frames'
  <2>1. ASSUME NEW i \in DOMAIN stack
        PROVE  /\ stack'[i].view = stack[i].view /\ captured'[stack[i].view[1]] # Absent
               /\ stack'[i].line \in 1..(Len(captured'[stack[i].view[1]]) + 1)
               /\ phase' = "transport" => stack[i].view[2] = NoName
    <3>1. captured'[stack[i].view[1]] = captured[stack[i].view[1]] /\ captured[stack[i].view[1]] # Absent
        BY <1>0, <1>f DEF Frames, Kept
    <3>2. /\ stack'[i].view = stack[i].view
          /\ stack'[i].line \in 1..(Len(captured[stack[i].view[1]]) + 1)
        BY <1>b, CalledFacts
    <3> QED
        BY <1>0, <1>b, <3>1, <3>2 DEF Frames
  <2>2. DOMAIN stack' = DOMAIN stack
      BY <1>b, CalledFacts
  <2> QED
      BY <1>0, <2>1, <2>2 DEF Frames
<1>c. ASSUME NEW st, NEW v \in View, CalledFrom(st), stack' = Append(st, Opened(v)),
             v \notin Active, captured'[v[1]] # Absent,
             phase' = "transport" => v[2] = NoName,
             stack # <<>> => (phase' = "transport" => phase = "transport")
      PROVE  Frames'
  <2>1. st \in Seq(Frame) /\ Len(st) = Len(stack) /\ Len(st) \in Nat /\ DOMAIN stack = 1..Len(st)
      BY <1>c, CalledFacts
  <2>2. DOMAIN stack' = 1..(Len(st) + 1) /\ stack'[Len(st) + 1] = Opened(v)
      BY <1>c, <2>1, PushFacts
  <2>3. ASSUME NEW i \in 1..Len(st)
        PROVE  /\ stack'[i].view = stack[i].view /\ captured'[stack[i].view[1]] # Absent
               /\ stack'[i].line \in 1..(Len(captured'[stack[i].view[1]]) + 1)
               /\ phase' = "transport" => stack[i].view[2] = NoName
    <3>1. captured'[stack[i].view[1]] = captured[stack[i].view[1]] /\ captured[stack[i].view[1]] # Absent
        BY <1>0, <1>f, <2>1 DEF Frames, Kept
    <3>2. stack'[i] = st[i]
        BY <1>c, <2>1, PushFacts
    <3>3. /\ stack'[i].view = stack[i].view
          /\ stack'[i].line \in 1..(Len(captured[stack[i].view[1]]) + 1)
        BY <1>c, <2>1, <3>2, CalledFacts
    <3> QED
        BY <1>0, <1>c, <2>1, <3>1, <3>3 DEF Frames
  <2>4. /\ stack'[Len(st) + 1].view = v /\ stack'[Len(st) + 1].line = 1
        /\ Len(captured'[v[1]]) \in Nat
    <3>1. captured'[v[1]] \in Body
        BY <1>0, <1>c, BodyAssumption DEF View, Bodies
    <3> QED
        BY <1>c, <2>1, <2>2, <3>1, PushFacts DEF Body
  <2>5. \A i \in 1..Len(st) : stack'[i].view # v
      BY <1>c, <2>1, <2>3 DEF Active
  <2>6. \A i, j \in DOMAIN stack' : stack'[i].view = stack'[j].view => i = j
    <3> SUFFICES ASSUME NEW i \in DOMAIN stack', NEW j \in DOMAIN stack',
                        stack'[i].view = stack'[j].view, i # j
                 PROVE  FALSE
        OBVIOUS
    <3>1. CASE i \in 1..Len(st) /\ j \in 1..Len(st)
        BY <1>0, <2>1, <2>3, <3>1 DEF Frames
    <3>2. CASE i = Len(st) + 1 \/ j = Len(st) + 1
        BY <2>1, <2>2, <2>4, <2>5, <3>2
    <3> QED
        BY <2>1, <2>2, <3>1, <3>2
  <2>7. \A i \in DOMAIN stack' :
           /\ captured'[stack'[i].view[1]] # Absent
           /\ stack'[i].line \in 1..(Len(captured'[stack'[i].view[1]]) + 1)
           /\ phase' = "transport" => stack'[i].view[2] = NoName
    <3> SUFFICES ASSUME NEW i \in DOMAIN stack'
                 PROVE  /\ captured'[stack'[i].view[1]] # Absent
                        /\ stack'[i].line \in 1..(Len(captured'[stack'[i].view[1]]) + 1)
                        /\ phase' = "transport" => stack'[i].view[2] = NoName
        OBVIOUS
    <3>1. CASE i \in 1..Len(st)
        BY <2>3, <3>1
    <3>2. CASE i = Len(st) + 1
        BY <1>c, <2>4, <3>2
    <3> QED
        BY <2>1, <2>2, <3>1, <3>2
  <2> QED
      BY <2>6, <2>7 DEF Frames
<1>d. ASSUME stack # <<>>, stack' = Below, phase' = "transport" => phase = "transport" PROVE Frames'
  <2>1. DOMAIN Below \subseteq DOMAIN stack /\ \A i \in DOMAIN Below : stack'[i] = stack[i]
      BY <1>0, <1>d, BelowFacts
  <2>2. \A i \in DOMAIN stack : captured'[stack[i].view[1]] = captured[stack[i].view[1]]
      BY <1>0, <1>f DEF Frames, Kept
  <2> QED
      BY <1>0, <1>d, <2>1, <2>2 DEF Frames
<1>e. ASSUME UNCHANGED stack, phase' = "transport" => phase = "transport" PROVE Frames'
  <2>2. \A i \in DOMAIN stack : captured'[stack[i].view[1]] = captured[stack[i].view[1]]
      BY <1>0, <1>f DEF Frames, Kept
  <2> QED
      BY <1>0, <1>e, <2>2 DEF Frames
<1>1. ASSUME NEW code, Refuse(code) PROVE Frames'
    BY <1>1, <1>a DEF Refuse
<1>2. ASSUME NEW st, TSkip(st) PROVE Frames'
    BY <1>0, <1>2, <1>b DEF TSkip, ToTransport, Place
<1>3. ASSUME NEW f, NEW st, TPush(f, st) PROVE Frames'
  <2>1. <<f, NoName>> \in View /\ f \in File /\ "parser" \in Role \ {"none"}
      BY <1>3 DEF TPush, View, Role
  <2>2. captured'[f] # Absent
      BY <1>0, <1>3, <2>1, CaptureFacts DEF TPush, TypeInv
  <2> QED
      BY <1>0, <1>3, <1>c, <2>1, <2>2 DEF TPush, ToTransport, Place
<1>4. ASSUME TransportEnd PROVE Frames'
    BY <1>0, <1>4, <1>d DEF TransportEnd, ToTransport, Place
<1>5. ASSUME NEW v, NEW form, NEW role, NEW st, WCall(v, form, role, st) PROVE Frames'
  <2>1. v \in View /\ v[1] \in File /\ role \in Role \ {"none"}
      BY <1>5 DEF WCall, View, Role
  <2>2. captured'[v[1]] # Absent
      BY <1>0, <1>5, <2>1, CaptureFacts DEF WCall, TypeInv
  <2>3. phase' # "transport" /\ CalledFrom(st) /\ stack' = IF v \in walked THEN st ELSE Append(st, Opened(v))
      BY <1>5 DEF WCall, ToWalk
  <2>4. CASE v \in walked
      BY <1>b, <2>3, <2>4
  <2>5. CASE v \notin walked
      BY <1>5, <1>c, <2>1, <2>2, <2>3, <2>5 DEF WCall
  <2> QED
      BY <2>4, <2>5
<1>6. ASSUME WLine PROVE Frames'
  <2>1. stack # <<>> /\ CalledFrom(Advanced) /\ phase' # "transport"
      BY <1>0, <1>6 DEF WLine, Place, CalledFrom, ToWalk
  <2>2. Advanced \in Seq(Frame) /\ \A i \in DOMAIN Advanced : Advanced[i] \in Frame
      BY <1>0, <2>1, AdvancedFacts
  <2>3. DOMAIN stack' = DOMAIN Advanced /\
        \A i \in DOMAIN Advanced : stack'[i].view = Advanced[i].view /\ stack'[i].line = Advanced[i].line
    <3>1. CASE stack' = Advanced
        BY <3>1
    <3>3. CASE stack' = [Advanced EXCEPT ![Len(stack)].open = NoName]
        BY <2>2, <3>3 DEF Frame
    <3>4. CASE stack' = [Advanced EXCEPT ![Len(stack)].open = Here.name,
                                         ![Len(stack)].found = @ \/ Here.name = Top.view[2]]
        BY <2>2, <3>4 DEF Frame
    <3> QED
        BY <1>6, <3>1, <3>3, <3>4 DEF WLine, ToWalk
  <2> QED
      BY <1>b, <2>1, <2>3
<1>7. ASSUME WReturn PROVE Frames'
    BY <1>0, <1>7, <1>d DEF WReturn, ToWalk, Place
<1>8. ASSUME NEW f, NEW role, Extra(f, role) PROVE Frames'
    BY <1>8, <1>e DEF Extra
<1>9. ASSUME Done PROVE Frames'
    BY <1>9, <1>e DEF Done
<1> QED
    BY <1>1, <1>2, <1>3, <1>4, <1>5, <1>6, <1>7, <1>8, <1>9 DEF Shape

(* Somebody's change of the installed tree touches nothing captured.       *)
Outside == UNCHANGED <<captured, roles, closure, namespace, carried, walked, stack, item, phase, why>>

LEMMA Steps == [Next]_vars => Step \/ Outside
    BY DEF Next, Edit, Finished, Outside, vars, tree, held

LEMMA TypeInvStep == TypeInv /\ [Next]_vars => TypeInv'
<1> SUFFICES ASSUME TypeInv, [Next]_vars PROVE TypeInv'
    OBVIOUS
<1>1. CASE Step
    BY <1>1, Shapes, TypeStep, BodiesStep, PlaceStep, FramesStep DEF TypeInv
<1>2. CASE Outside
  <2>1. source' \in [File -> Body \cup {Absent}] /\ edits' \in 0..MaxEdits
        /\ \A f \in File : source'[f] \in Versions[f] \cup {Absent}
    <3>1. CASE \E f \in File : Edit(f)
      <4> PICK f \in File : Edit(f)
          BY <3>1
      <4>1. PICK b \in Versions[f] \cup {Absent} : source' = [source EXCEPT ![f] = b]
          BY DEF Edit
      <4>2. edits' \in 0..MaxEdits
          BY BoundAssumption DEF Edit, TypeInv, TypeOK
      <4>3. source' \in [File -> Body \cup {Absent}]
          BY <4>1, BodyAssumption DEF TypeInv, TypeOK
      <4> QED
          BY <4>1, <4>2, <4>3 DEF TypeInv, TypeOK, Bodies
    <3>2. CASE UNCHANGED vars
        BY <3>2 DEF vars, tree, TypeInv, TypeOK, Bodies
    <3>3. CASE Step
        BY <1>1, <3>3 DEF TypeInv, TypeOK, Bodies
    <3> QED
        BY <3>1, <3>2, <3>3 DEF Next, Finished
  <2>2. TypeOK'
      BY <1>2, <2>1 DEF Outside, TypeInv, TypeOK
  <2>3. Bodies'
      BY <1>2, <2>1 DEF Outside, TypeInv, Bodies
  <2>4. Place'
      BY <1>2 DEF Outside, TypeInv, Place
  <2>5. Frames'
      BY <1>2 DEF Outside, TypeInv, Frames
  <2> QED
      BY <2>2, <2>3, <2>4, <2>5 DEF TypeInv
<1> QED
    BY <1>1, <1>2, Steps

LEMMA TypeInvInit == Init => TypeInv
<1> SUFFICES ASSUME Init PROVE TypeInv
    OBVIOUS
<1>1. Len(Entries) \in Nat /\ Len(Modules) \in Nat
    BY ProfileAssumption
<1>2. \A f \in File : source[f] \in Body \cup {Absent}
    BY BodyAssumption DEF Init
<1>3. source \in [File -> Body \cup {Absent}]
    BY <1>2 DEF Init
<1>4. Len(closure) = 0 /\ Len(stack) = 0 /\ stack \in Seq(Frame)
      /\ closure \in Seq([form : {"lib", "include"}, view : View, body : Body])
    BY DEF Init
<1>5. captured \in [File -> Body \cup {Absent}] /\ roles \in [File -> Role]
    BY DEF Init, Role
<1>6. TypeOK
    BY <1>1, <1>3, <1>4, <1>5, BoundAssumption DEF Init, TypeOK
<1>7. Bodies
    BY DEF Init, Bodies
<1>8. Place
    BY DEF Init, Place
<1>9. Frames
    BY DEF Init, Frames
<1> QED
    BY <1>6, <1>7, <1>8, <1>9 DEF TypeInv

LEMMA TypeInvariant == Spec => []TypeInv
    BY TypeInvInit, TypeInvStep, PTL DEF Spec

(* The variables of the capture always have their types (the fields of     *)
(* _PdkSnapshotBuilder): in particular a frame is never read past its      *)
(* file, and no descent is deeper than the ceiling allows.                 *)
THEOREM TypeCorrect == Spec => []TypeOK
<1>1. TypeInv => TypeOK
    BY DEF TypeInv
<1> QED
    BY <1>1, TypeInvariant, PTL

-----------------------------------------------------------------------------
(***************************************************************************)
(* The first descent: what a carried file links to is carried or in hand.  *)
(***************************************************************************)
InHand  == IF phase = "transport" THEN {stack[i].view[1] : i \in DOMAIN stack} ELSE {}
Reached == carried \cup InHand

(* The files that the first n - 1 lines of body b link to are all in R.    *)
UpTo(b, n, R) == \A k \in DOMAIN b : k < n /\ Links(b[k]) => b[k].to \in R

CarriedIsClosed ==
    phase # "refused" =>
        /\ \A f \in carried : UpTo(captured[f], Len(captured[f]) + 1, Reached)
        /\ \A i \in DOMAIN stack :
               /\ phase = "transport" => UpTo(captured[stack[i].view[1]], stack[i].line, Reached)
               /\ phase = "walk"      => stack[i].view[1] \in carried
        /\ \A f \in File : Library(f) => f \in Reached

(* What a step leaves reached: never less than before.                     *)
LEMMA ReachedGrows ==
    ASSUME TypeInv, Shape, phase' # "refused"
    PROVE  /\ Reached \subseteq Reached'
           /\ \A f, st : TPush(f, st) => f \in Reached'
<1>0. TypeOK /\ Place /\ Frames /\ stack \in Seq(Frame)
    BY DEF TypeInv, TypeOK
<1>1. ASSUME NEW code, Refuse(code) PROVE FALSE
    BY <1>1 DEF Refuse
<1>2. ASSUME NEW st, TSkip(st) PROVE Reached \subseteq Reached'
  <2>1. DOMAIN st = DOMAIN stack /\ \A i \in DOMAIN stack : st[i].view = stack[i].view
      BY <1>2, CalledFacts DEF TSkip
  <2>2. stack' = st /\ carried' = carried /\ (phase = "transport" => phase' = "transport")
      BY <1>2, CalledFacts DEF TSkip, ToTransport, TypeInv, Place
  <2> QED
      BY <2>1, <2>2 DEF Reached, InHand
<1>3. ASSUME NEW f, NEW st, TPush(f, st) PROVE Reached \subseteq Reached' /\ f \in Reached'
  <2>1. /\ st \in Seq(Frame) /\ Len(st) \in Nat /\ DOMAIN stack = 1..Len(st) /\ DOMAIN st = 1..Len(st)
        /\ \A i \in DOMAIN stack : st[i].view = stack[i].view
      BY <1>3, CalledFacts DEF TPush
  <2>2. <<f, NoName>> \in View
      BY <1>3 DEF TPush, View
  <2>3. stack' = Append(st, Opened(<<f, NoName>>)) /\ carried' = carried
      BY <1>3 DEF TPush, ToTransport
  <2>4. /\ DOMAIN stack' = 1..(Len(st) + 1) /\ stack'[Len(st) + 1].view[1] = f
        /\ stack' # <<>> /\ \A i \in 1..Len(st) : stack'[i] = st[i]
      BY <2>1, <2>2, <2>3, PushFacts
  <2>5. phase' = "transport"
      BY <1>3, <2>3, <2>4 DEF TPush, ToTransport
  <2>6. Len(st) + 1 \in DOMAIN stack' /\ DOMAIN stack \subseteq DOMAIN stack'
        /\ \A i \in DOMAIN stack : stack'[i].view = stack[i].view
      BY <2>1, <2>4
  <2> QED
      BY <2>3, <2>4, <2>5, <2>6 DEF Reached, InHand
<1>4. ASSUME TransportEnd PROVE Reached \subseteq Reached'
  <2>1. stack # <<>> /\ phase = "transport"
      BY <1>0, <1>4 DEF TransportEnd, Place
  <2>2. stack' = Below /\ carried' = carried \cup {Top.view[1]}
        /\ phase' = IF Below = <<>> THEN "library" ELSE "transport"
      BY <1>4 DEF TransportEnd, ToTransport
  <2>3. \A i \in DOMAIN stack : stack[i] = Top \/ (i \in DOMAIN Below /\ Below[i] = stack[i] /\ Below # <<>>)
      BY <1>0, <2>1, BelowFacts DEF Top
  <2> QED
      BY <2>1, <2>2, <2>3 DEF Reached, InHand
<1>5. ASSUME phase # "transport", carried' = carried PROVE Reached \subseteq Reached'
    BY <1>5 DEF Reached, InHand
<1>6. ASSUME NEW v, NEW form, NEW role, NEW st, WCall(v, form, role, st) PROVE Reached \subseteq Reached'
    BY <1>5, <1>6 DEF WCall, ToWalk
<1>7. ASSUME WLine PROVE Reached \subseteq Reached'
    BY <1>5, <1>7 DEF WLine, ToWalk
<1>8. ASSUME WReturn PROVE Reached \subseteq Reached'
    BY <1>5, <1>8 DEF WReturn, ToWalk
<1>9. ASSUME NEW f, NEW role, Extra(f, role) PROVE Reached \subseteq Reached'
    BY <1>5, <1>9 DEF Extra
<1>10. ASSUME Done PROVE Reached \subseteq Reached'
    BY <1>5, <1>10 DEF Done
<1> QED
    BY <1>1, <1>2, <1>3, <1>4, <1>6, <1>7, <1>8, <1>9, <1>10 DEF Shape

(* A reached file is captured.                                             *)
LEMMA ReachedFacts ==
    ASSUME TypeInv
    PROVE  \A f \in Reached : f \in File /\ captured[f] # Absent
<1>1. \A i \in DOMAIN stack : stack[i] \in Frame
    BY DEF TypeInv, TypeOK
<1>2. \A i \in DOMAIN stack : stack[i].view[1] \in File /\ captured[stack[i].view[1]] # Absent
    BY <1>1 DEF Frame, View, TypeInv, Frames
<1> QED
    BY <1>2 DEF Reached, InHand, TypeInv, TypeOK, Bodies

LEMMA ClosedInit == Init => CarriedIsClosed
    BY DEF Init, CarriedIsClosed, Library

(* What was followed stays followed, and a carried file stays closed.      *)
LEMMA FollowedKept ==
    ASSUME TypeInv, CarriedIsClosed, Shape, phase' # "refused"
    PROVE  /\ \A f \in carried : UpTo(captured'[f], Len(captured'[f]) + 1, Reached')
           /\ phase = "transport" =>
                  \A i \in DOMAIN stack :
                      UpTo(captured'[stack[i].view[1]], stack[i].line, Reached')
<1>0. phase # "refused" /\ Reached \subseteq Reached' /\ Kept
    BY ReachedGrows, BodiesStep DEF Shape, TSkip, TPush, TransportEnd, WCall, WLine, WReturn, Extra, Done, Refuse
<1>1. \A f \in carried : captured'[f] = captured[f]
    BY <1>0, ReachedFacts DEF Reached, Kept
<1>2. \A i \in DOMAIN stack : phase = "transport" => captured'[stack[i].view[1]] = captured[stack[i].view[1]]
    BY <1>0, ReachedFacts DEF Reached, InHand, Kept
<1> QED
    BY <1>0, <1>1, <1>2 DEF CarriedIsClosed, UpTo

(* The first descent keeps its frames followed up to their line.           *)
LEMMA TransportStep ==
    ASSUME TypeInv, CarriedIsClosed, Shape, phase' = "transport", NEW i \in DOMAIN stack'
    PROVE  UpTo(captured'[stack'[i].view[1]], stack'[i].line, Reached')
<1>0. /\ TypeOK /\ Bodies /\ Place /\ Frames /\ Kept /\ stack \in Seq(Frame)
      /\ Reached \subseteq Reached'
    BY BodiesStep, ReachedGrows DEF TypeInv, TypeOK
<1>1. ASSUME NEW st, CalledFrom(st), phase = "transport", Links(Here) => Here.to \in Reached',
             NEW j \in DOMAIN st
      PROVE  UpTo(captured'[st[j].view[1]], st[j].line, Reached')
  <2>1. stack # <<>> /\ st = Advanced /\ ~AtEnd
      BY <1>0, <1>1 DEF CalledFrom, Place
  <2>2. j \in DOMAIN stack /\ st[j].view = stack[j].view
        /\ UpTo(captured'[stack[j].view[1]], stack[j].line, Reached')
      BY <1>1, CalledFacts, FollowedKept
  <2>3. CASE j # Len(stack)
      BY <1>0, <2>1, <2>2, <2>3, AdvancedFacts
  <2>4. CASE j = Len(stack)
    <3>1. st[j].line = stack[j].line + 1 /\ Top = stack[j]
        BY <1>0, <2>1, <2>4, AdvancedFacts
    <3>2. captured'[stack[j].view[1]] = Text
        BY <1>0, <2>1, <2>2, <3>1, HereFacts DEF Kept, Frames, Text
    <3>3. stack[j].line \in DOMAIN Text /\ DOMAIN Text = 1..Len(Text) /\ Here = Text[stack[j].line]
        BY <2>1, <3>1, HereFacts
    <3>4. UpTo(Text, stack[j].line + 1, Reached')
        BY <1>1, <2>2, <3>2, <3>3 DEF UpTo
    <3> QED
        BY <2>2, <3>1, <3>2, <3>4
  <2> QED
      BY <2>3, <2>4
<1>2. ASSUME NEW st, TSkip(st)
      PROVE  UpTo(captured'[stack'[i].view[1]], stack'[i].line, Reached')
  <2>1. stack' = st /\ CalledFrom(st) /\ phase = "transport"
      BY <1>0, <1>2 DEF TSkip, ToTransport, Place, CalledFrom
  <2>2. Links(Here) => Here.to \in Reached
    <3>1. Links(Here) => IsCarried(Here.to)
        BY <1>2, <2>1 DEF TSkip
    <3>2. \A f : <<f, NoName>> \in Active => f \in InHand
        BY <2>1 DEF Active, InHand
    <3> QED
        BY <3>1, <3>2 DEF IsCarried, Reached
  <2> QED
      BY <1>0, <1>1, <2>1, <2>2
<1>3. ASSUME NEW f, NEW st, TPush(f, st)
      PROVE  UpTo(captured'[stack'[i].view[1]], stack'[i].line, Reached')
  <2>1. f \in Reached' /\ CalledFrom(st) /\ <<f, NoName>> \in View
      BY <1>3, ReachedGrows DEF TPush, View
  <2>2. st \in Seq(Frame) /\ Len(st) \in Nat /\ DOMAIN st = 1..Len(st)
      BY <2>1, CalledFacts
  <2>3. stack' = Append(st, Opened(<<f, NoName>>))
      BY <1>3 DEF TPush, ToTransport
  <2>4. DOMAIN stack' = 1..(Len(st) + 1)
        /\ stack'[Len(st) + 1].view = <<f, NoName>> /\ stack'[Len(st) + 1].line = 1
        /\ \A j \in 1..Len(st) : stack'[j] = st[j]
      BY SMTT(30), <2>1, <2>2, <2>3, PushFacts
  <2>5. CASE i \in 1..Len(st)
    <3>1. phase = "transport"
        BY <1>0, <1>3, <2>1, <2>2, <2>5, CalledFacts DEF TPush, Place
    <3>2. Links(Here) => Here.to \in Reached'
        BY <1>3, <2>1, <3>1 DEF TPush
    <3> QED
        BY <1>1, <2>1, <2>2, <2>4, <2>5, <3>1, <3>2
  <2>6. CASE i = Len(st) + 1
    <3>1. f \in File /\ captured'[f] \in Body
      <4>1. captured'[f] # Absent /\ captured'[f] \in Body \cup {Absent}
          BY <1>0, <1>3, CaptureFacts DEF TPush, Role
      <4> QED
          BY <1>3, <4>1 DEF TPush
    <3>2. DOMAIN captured'[f] = 1..Len(captured'[f])
        BY <3>1 DEF Body
    <3> QED
        BY <2>4, <2>6, <3>2 DEF UpTo
  <2> QED
      BY <2>2, <2>4, <2>5, <2>6
<1>4. ASSUME TransportEnd
      PROVE  UpTo(captured'[stack'[i].view[1]], stack'[i].line, Reached')
  <2>1. stack # <<>> /\ stack' = Below /\ phase = "transport"
      BY <1>0, <1>4 DEF TransportEnd, ToTransport, Place
  <2>2. i \in DOMAIN stack /\ stack'[i] = stack[i]
      BY <1>0, <2>1, BelowFacts
  <2> QED
      BY <2>1, <2>2, FollowedKept
<1> QED
    BY <1>0, <1>2, <1>3, <1>4
       DEF Shape, Refuse, WCall, WLine, WReturn, Extra, Done, ToWalk

(* The second descent stays within the carried files.                      *)
LEMMA CallIsCarried ==
    ASSUME TypeInv, CarriedIsClosed, NEW v, NEW form, NEW role, NEW st, WCall(v, form, role, st)
    PROVE  v[1] \in carried
<1>1. CASE phase = "library" /\ v = Root(item)
    BY <1>1 DEF TypeInv, Place, Root
<1>2. CASE phase = "walk" /\ Links(Here) /\ v = Selects(Here)
  <2>1. stack # <<>> /\ ~AtEnd /\ stack \in Seq(Frame)
      BY <1>2 DEF WCall, TypeInv, TypeOK, Place, CalledFrom
  <2>2. Top = stack[Len(stack)] /\ Len(stack) \in DOMAIN stack
      BY <2>1, AdvancedFacts
  <2>3. Top.view[1] \in carried /\ Reached = carried
      BY <1>2, <2>2 DEF CarriedIsClosed, Reached, InHand
  <2>4. Text = captured[Top.view[1]] /\ Top.line \in DOMAIN Text /\ Here = Text[Top.line]
        /\ DOMAIN Text = 1..Len(Text) /\ Len(Text) \in Nat
      BY <2>1, HereFacts
  <2>5. UpTo(Text, Len(Text) + 1, carried)
      BY <1>2, <2>3, <2>4 DEF CarriedIsClosed
  <2>6. Here.to \in carried
      BY <1>2, <2>4, <2>5 DEF UpTo
  <2> QED
      BY <1>2, <2>6 DEF Selects
<1> QED
    BY <1>1, <1>2 DEF WCall

LEMMA CarriedStep ==
    ASSUME TypeInv, CarriedIsClosed, Shape, phase' # "refused", NEW f \in carried'
    PROVE  UpTo(captured'[f], Len(captured'[f]) + 1, Reached')
<1>1. CASE f \in carried
    BY <1>1, FollowedKept
<1>2. CASE f \notin carried
  <2>1. TransportEnd /\ f = Top.view[1]
      BY <1>2 DEF Shape, Refuse, TSkip, TPush, TransportEnd, WCall, WLine, WReturn, Extra, Done, ToWalk
  <2>2. stack # <<>> /\ phase = "transport" /\ stack \in Seq(Frame)
      BY <2>1 DEF TransportEnd, TypeInv, TypeOK, Place
  <2>3. Top = stack[Len(stack)] /\ Len(stack) \in DOMAIN stack /\ Top \in Frame
      BY <2>2, AdvancedFacts
  <2>4. captured[f] # Absent /\ f \in File
      BY <2>1, <2>3 DEF TypeInv, Frames, Frame, View
  <2>5. captured'[f] = captured[f]
      BY <2>4, BodiesStep DEF Kept
  <2>6. UpTo(captured'[f], Top.line, Reached') /\ Top.line > Len(captured'[f])
      BY <2>1, <2>2, <2>3, <2>5, FollowedKept DEF TransportEnd, AtEnd, Text
  <2>7. captured'[f] \in Body
      BY <2>4, <2>5, BodyFacts DEF TypeInv
  <2>8. DOMAIN captured'[f] = 1..Len(captured'[f]) /\ Len(captured'[f]) \in Nat /\ Top.line \in Nat
      BY <2>3, <2>7 DEF Body, Frame
  <2> QED
      BY <2>6, <2>8 DEF UpTo
<1> QED
    BY <1>1, <1>2

LEMMA WalkFramesStep ==
    ASSUME TypeInv, CarriedIsClosed, Shape, phase' = "walk", NEW i \in DOMAIN stack'
    PROVE  stack'[i].view[1] \in carried'
<1>0. TypeOK /\ Place /\ stack \in Seq(Frame) /\ stack' \in Seq(Frame) /\ Frames'
    BY TypeStep, FramesStep DEF TypeInv, TypeOK
<1>1. ASSUME NEW v, NEW form, NEW role, NEW st, WCall(v, form, role, st)
      PROVE  stack'[i].view[1] \in carried'
  <2>1. st \in Seq(Frame) /\ DOMAIN st = 1..Len(st) /\ DOMAIN stack = DOMAIN st /\ Len(st) \in Nat
        /\ \A j \in DOMAIN stack : st[j].view = stack[j].view
      BY <1>1, CalledFacts DEF WCall
  <2>2. \A j \in DOMAIN stack : st[j].view[1] \in carried
      BY <1>0, <1>1, <2>1 DEF CarriedIsClosed, WCall, Place, CalledFrom
  <2>3. v[1] \in carried /\ v \in View /\ carried' = carried
      BY <1>1, CallIsCarried DEF WCall, ToWalk
  <2>4. CASE stack' = st
      BY <2>1, <2>2, <2>3, <2>4
  <2>5. CASE stack' = Append(st, Opened(v))
    <3>1. i \in 1..(Len(st) + 1)
        BY <2>1, <2>3, <2>5, PushFacts
    <3>2. CASE i \in 1..Len(st)
        BY <2>1, <2>2, <2>3, <2>5, <3>2, PushFacts
    <3>3. CASE i = Len(st) + 1
        BY <2>1, <2>3, <2>5, <3>3, PushFacts
    <3> QED
        BY <2>1, <3>1, <3>2, <3>3
  <2> QED
      BY <1>1, <2>4, <2>5 DEF WCall, ToWalk
<1>2. ASSUME WLine PROVE stack'[i].view[1] \in carried'
  <2>1. stack # <<>> /\ phase = "walk" /\ carried' = carried
      BY <1>0, <1>2 DEF WLine, ToWalk, Place
  <2>2. /\ DOMAIN Advanced = DOMAIN stack
        /\ \A j \in DOMAIN stack : Advanced[j].view = stack[j].view /\ stack[j] \in Frame
        /\ \A j \in DOMAIN Advanced : Advanced[j] \in Frame
      BY <1>0, <2>1, AdvancedFacts
  <2>3. i \in DOMAIN stack /\ stack'[i].view = Advanced[i].view
    <3>1. CASE stack' = Advanced
        BY <2>2, <3>1
    <3>2. CASE stack' = [Advanced EXCEPT ![Len(stack)].open = NoName]
        BY <2>2, <3>2 DEF Frame
    <3>3. CASE stack' = [Advanced EXCEPT ![Len(stack)].open = Here.name,
                                         ![Len(stack)].found = @ \/ Here.name = Top.view[2]]
        BY <2>2, <3>3 DEF Frame
    <3> QED
        BY <1>2, <3>1, <3>2, <3>3 DEF WLine, ToWalk
  <2> QED
      BY <2>1, <2>2, <2>3 DEF CarriedIsClosed
<1>3. ASSUME WReturn PROVE stack'[i].view[1] \in carried'
  <2>1. stack # <<>> /\ stack' = Below /\ phase = "walk" /\ carried' = carried
      BY <1>0, <1>3 DEF WReturn, ToWalk, Place
  <2>2. i \in DOMAIN stack /\ stack'[i] = stack[i]
      BY <1>0, <2>1, BelowFacts
  <2> QED
      BY <2>1, <2>2 DEF CarriedIsClosed
<1> QED
    BY <1>0, <1>1, <1>2, <1>3
       DEF Shape, Refuse, TSkip, TPush, TransportEnd, ToTransport, Extra, Done

(* A file that gets a library's role is reached.                           *)
LEMMA LibraryStep ==
    ASSUME TypeInv, CarriedIsClosed, Shape, phase' # "refused", NEW f \in File, Library(f)'
    PROVE  f \in Reached'
<1>0. TypeOK /\ Bodies /\ Place /\ Reached \subseteq Reached' /\ phase # "refused"
    BY ReachedGrows
       DEF TypeInv, Shape, TSkip, TPush, TransportEnd, WCall, WLine, WReturn, Extra, Done, Refuse
<1>1. CASE roles'[f] = roles[f]
    BY <1>0, <1>1 DEF CarriedIsClosed, Library
<1>2. CASE roles'[f] # roles[f]
  <2>1. ASSUME NEW g \in File, NEW role \in Role \ {"none"}, Capture(g, role),
               g \in Captured \/ source[g] # Absent
        PROVE  f = g /\ roles'[f] = role
      BY <1>0, <1>2, <2>1, CaptureFacts
  <2>2. ASSUME NEW st, TSkip(st) PROVE f \in Reached'
    <3>1. /\ phase = "transport" /\ source[Here.to] # Absent
          /\ Links(Here) /\ IsCarried(Here.to) /\ Capture(Here.to, "parser")
        BY <1>2, <2>2 DEF TSkip, held
    <3>2. stack # <<>> /\ ~AtEnd
        BY <1>0, <2>2, <3>1 DEF TSkip, CalledFrom, Place
    <3>3. Here.to \in File /\ "parser" \in Role \ {"none"}
        BY <3>2, HereFacts DEF Role
    <3>4. f = Here.to
        BY <2>1, <3>1, <3>3
    <3>5. \A g : <<g, NoName>> \in Active => g \in InHand
        BY <3>1 DEF Active, InHand
    <3> QED
        BY <1>0, <3>1, <3>4, <3>5 DEF IsCarried, Reached
  <2>3. ASSUME NEW g, NEW st, TPush(g, st) PROVE f \in Reached'
      BY <2>1, <2>3, ReachedGrows DEF TPush, Role
  <2>4. ASSUME NEW v, NEW form, NEW role, NEW st, WCall(v, form, role, st) PROVE f \in Reached'
    <3>1. v[1] \in File /\ role \in Role \ {"none"}
        BY <2>4 DEF WCall, View, Role
    <3>2. f = v[1]
        BY <2>1, <2>4, <3>1 DEF WCall
    <3> QED
        BY <1>0, <2>4, <3>2, CallIsCarried DEF Reached
  <2>5. ASSUME NEW g, NEW role, Extra(g, role) PROVE f \in Reached'
    <3>1. roles'[f] = role
        BY <2>1, <2>5 DEF Extra, Role
    <3> QED
        BY <2>5, <3>1 DEF Extra, Library
  <2>6. ASSUME NEW code, Refuse(code) PROVE FALSE
      BY <2>6 DEF Refuse
  <2>7. ~TransportEnd /\ ~WLine /\ ~WReturn /\ ~Done
      BY <1>2 DEF TransportEnd, WLine, WReturn, Done, held
  <2> QED
      BY <2>2, <2>3, <2>4, <2>5, <2>6, <2>7 DEF Shape
<1> QED
    BY <1>1, <1>2

LEMMA ClosedStep == TypeInv /\ CarriedIsClosed /\ [Next]_vars => CarriedIsClosed'
<1> SUFFICES ASSUME TypeInv, CarriedIsClosed, [Next]_vars PROVE CarriedIsClosed'
    OBVIOUS
<1>1. CASE Step
    BY <1>1, Shapes, CarriedStep, TransportStep, WalkFramesStep, LibraryStep DEF CarriedIsClosed
<1>2. CASE Outside
    BY <1>2 DEF Outside, CarriedIsClosed, Reached, InHand, Library
<1> QED
    BY <1>1, <1>2, Steps

(***************************************************************************)
(* However the installed tree changes meanwhile, the files of a captured   *)
(* snapshot are closed under what ngspice's preprocessor opens in their    *)
(* captured bytes (capture_transport_closure).                             *)
(***************************************************************************)
THEOREM SelfContained == Spec => []SnapshotIsSelfContained
<1>1. TypeInv /\ CarriedIsClosed => SnapshotIsSelfContained
  <2> SUFFICES ASSUME TypeInv, CarriedIsClosed, phase = "captured", NEW f \in File, Library(f)
               PROVE  /\ captured[f] # Absent
                      /\ \A i \in DOMAIN captured[f] :
                             Links(captured[f][i]) => captured[captured[f][i].to] # Absent
      BY DEF SnapshotIsSelfContained
  <2>1. f \in carried /\ Reached = carried /\ captured[f] # Absent
      BY ReachedFacts DEF CarriedIsClosed, Reached, InHand
  <2>2. captured[f] \in Body
      BY <2>1, BodyFacts DEF TypeInv
  <2>3. DOMAIN captured[f] = 1..Len(captured[f]) /\ Len(captured[f]) \in Nat
      BY <2>2 DEF Body
  <2>4. UpTo(captured[f], Len(captured[f]) + 1, carried)
      BY <2>1 DEF CarriedIsClosed
  <2>5. \A i \in DOMAIN captured[f] : Links(captured[f][i]) => captured[f][i].to \in carried
      BY <2>3, <2>4 DEF UpTo
  <2> QED
      BY <2>1, <2>5, ReachedFacts
<1> QED
    BY <1>1, TypeInvariant, ClosedInit, ClosedStep, PTL DEF Spec

-----------------------------------------------------------------------------
(***************************************************************************)
(* The second descent.  First, the section that is open at a line.         *)
(***************************************************************************)
OpenAt(b, j, i) == b[j].kind = "open" /\ \A k \in (j+1)..(i-1) : b[k].kind # "close"

SectionAt(b, i, o) ==
    IF o = NoName
    THEN \A j \in 1..(i-1) : ~OpenAt(b, j, i)
    ELSE /\ \E j \in 1..(i-1) : OpenAt(b, j, i)
         /\ \A j \in 1..(i-1) : OpenAt(b, j, i) => b[j].name = o

(* The lines of a view are active where the walk reads them.               *)
LEMMA SectionActive ==
    ASSUME NEW b \in Body, NEW i \in Nat, NEW o, NEW s, SectionAt(b, i, o)
    PROVE  ActiveLine(b, s, i) <=> o = NoName \/ o = s
<1>1. CASE o = NoName
    BY <1>1 DEF SectionAt, ActiveLine, OpenAt
<1>2. CASE o # NoName
  <2>1. PICK j \in 1..(i-1) : OpenAt(b, j, i)
      BY <1>2 DEF SectionAt
  <2>2. b[j].name = o
      BY <1>2, <2>1 DEF SectionAt
  <2>3. ActiveLine(b, s, i) => o = s
      BY <2>1, <2>2 DEF ActiveLine, OpenAt
  <2>4. o = s => ActiveLine(b, s, i)
      BY <1>2 DEF SectionAt, ActiveLine, OpenAt
  <2> QED
      BY <1>2, <2>3, <2>4
<1> QED
    BY <1>1, <1>2

(* How the open section follows the lines.                                 *)
LEMMA SectionNext ==
    ASSUME NEW b \in Body, NEW i \in DOMAIN b, NEW o, NEW q, SectionAt(b, i, o),
           \/ b[i].kind = "open" /\ o = NoName /\ q = b[i].name /\ q # NoName
           \/ b[i].kind = "close" /\ q = NoName
           \/ b[i].kind \notin {"open", "close"} /\ q = o
    PROVE  SectionAt(b, i + 1, q)
<1>1. i \in Nat /\ i >= 1
    BY DEF Body
<1>2. ASSUME NEW j \in 1..(i-1)
      PROVE  OpenAt(b, j, i + 1) <=> OpenAt(b, j, i) /\ b[i].kind # "close"
  <2>1. (j+1)..((i+1)-1) = ((j+1)..(i-1)) \cup {i}
      BY <1>1
  <2> QED
      BY <2>1 DEF OpenAt
<1>3. OpenAt(b, i, i + 1) <=> b[i].kind = "open"
  <2>1. (i+1)..((i+1)-1) = {}
      BY <1>1
  <2> QED
      BY <2>1 DEF OpenAt
<1>4. 1..((i+1)-1) = (1..(i-1)) \cup {i}
    BY <1>1
<1>5. CASE b[i].kind = "open"
    BY <1>2, <1>3, <1>4, <1>5 DEF SectionAt
<1>6. CASE b[i].kind = "close"
    BY <1>2, <1>3, <1>4, <1>6 DEF SectionAt
<1>7. CASE b[i].kind \notin {"open", "close"}
    BY <1>2, <1>3, <1>4, <1>7 DEF SectionAt
<1> QED
    BY <1>5, <1>6, <1>7

LEMMA SectionFirst == \A b : SectionAt(b, 1, NoName)
    BY DEF SectionAt

-----------------------------------------------------------------------------
(* The stack that a call of walk leaves.                                   *)
LEMMA CallStack ==
    ASSUME TypeInv, NEW v, NEW form, NEW role, NEW st, WCall(v, form, role, st)
    PROVE  /\ Len(stack) \in Nat /\ DOMAIN stack = 1..Len(stack) /\ DOMAIN stack \subseteq DOMAIN stack'
           /\ \A i \in DOMAIN stack : stack'[i].view = stack[i].view
           /\ \A i \in DOMAIN stack : i # Len(stack) => stack'[i] = stack[i]
           /\ stack # <<>> => stack'[Len(stack)].line = Top.line + 1 /\ stack'[Len(stack)].open = Top.open
           /\ v \in walked => stack' = st /\ DOMAIN stack' = DOMAIN stack
           /\ v \notin walked => /\ DOMAIN stack' = 1..(Len(stack) + 1)
                                 /\ stack'[Len(stack) + 1].view = v /\ stack'[Len(stack) + 1].line = 1
                                 /\ stack'[Len(stack) + 1].open = NoName
<1>1. CalledFrom(st) /\ v \in View /\ stack \in Seq(Frame)
      /\ stack' = IF v \in walked THEN st ELSE Append(st, Opened(v))
    BY DEF WCall, ToWalk, TypeInv, TypeOK
<1>2. /\ st \in Seq(Frame) /\ Len(st) = Len(stack) /\ Len(st) \in Nat
      /\ DOMAIN st = DOMAIN stack /\ DOMAIN stack = 1..Len(stack)
      /\ \A i \in DOMAIN stack : st[i].view = stack[i].view
    BY <1>1, CalledFacts
<1>3. \A i \in DOMAIN stack : i # Len(stack) => st[i] = stack[i]
    BY <1>1, AdvancedFacts DEF CalledFrom
<1>4. stack # <<>> => st[Len(stack)].line = Top.line + 1 /\ st[Len(stack)].open = Top.open
  <2>1. CASE stack # <<>>
    <3>1. Top = stack[Len(stack)] /\ Len(stack) \in DOMAIN stack /\ st = Advanced
        BY <1>1, <2>1, AdvancedFacts DEF CalledFrom
    <3> QED
        BY <1>1, <2>1, <3>1, AdvancedFacts
  <2> QED
      BY <2>1
<1>5. CASE v \in walked
    BY <1>1, <1>2, <1>3, <1>4, <1>5
<1>6. CASE v \notin walked
  <2>1. stack' = Append(st, Opened(v))
      BY <1>1, <1>6
  <2>2. /\ DOMAIN stack' = 1..(Len(stack) + 1)
        /\ \A i \in 1..Len(stack) : stack'[i] = st[i]
        /\ stack'[Len(stack) + 1] = Opened(v)
      BY <1>1, <1>2, <2>1, PushFacts
  <2>3. /\ stack'[Len(stack) + 1].view = v /\ stack'[Len(stack) + 1].line = 1
        /\ stack'[Len(stack) + 1].open = NoName
      BY <2>2 DEF Opened
  <2>4. \A i \in DOMAIN stack : /\ stack'[i].view = stack[i].view
                                 /\ i # Len(stack) => stack'[i] = stack[i]
      BY <1>2, <1>3, <2>2
  <2>5. stack # <<>> => stack'[Len(stack)] = st[Len(stack)]
    <3>1. stack # <<>> => Len(stack) \in 1..Len(stack)
        BY <1>1, <1>2
    <3> QED
        BY <2>2, <3>1
  <2>6. DOMAIN stack \subseteq DOMAIN stack'
      BY <1>2, <2>2
  <2> QED
      BY <1>2, <1>4, <1>6, <2>2, <2>3, <2>4, <2>5, <2>6
<1> QED
    BY <1>5, <1>6

(* The stack that a line without a call leaves.                            *)
LEMMA LineStack ==
    ASSUME TypeInv, WLine
    PROVE  /\ stack # <<>> /\ ~AtEnd /\ Len(stack) \in DOMAIN stack
           /\ DOMAIN stack = 1..Len(stack) /\ DOMAIN stack' = DOMAIN stack
           /\ \A i \in DOMAIN stack : stack'[i].view = stack[i].view
           /\ \A i \in DOMAIN stack : i # Len(stack) => stack'[i] = stack[i]
           /\ stack'[Len(stack)].line = Top.line + 1
           /\ \/ Here.kind = "open" /\ Top.open = NoName /\ stack'[Len(stack)].open = Here.name
              \/ Here.kind = "close" /\ stack'[Len(stack)].open = NoName
              \/ Here.kind \notin {"open", "close"} /\ stack'[Len(stack)].open = Top.open
<1>1. stack # <<>> /\ ~AtEnd /\ stack \in Seq(Frame)
    BY DEF WLine, TypeInv, TypeOK, Place
<1>2. /\ Len(stack) \in DOMAIN stack /\ DOMAIN stack = 1..Len(stack) /\ DOMAIN Advanced = DOMAIN stack
      /\ Top = stack[Len(stack)] /\ Advanced[Len(stack)].line = Top.line + 1
      /\ \A i \in DOMAIN stack :
             /\ Advanced[i].view = stack[i].view /\ Advanced[i].open = stack[i].open
             /\ i # Len(stack) => Advanced[i] = stack[i]
      /\ \A i \in DOMAIN Advanced : Advanced[i] \in Frame
    BY <1>1, AdvancedFacts
<1>3. CASE stack' = Advanced /\ Here.kind \notin {"open", "close"}
    BY <1>1, <1>2, <1>3
<1>4. CASE stack' = [Advanced EXCEPT ![Len(stack)].open = NoName] /\ Here.kind = "close"
    BY <1>1, <1>2, <1>4 DEF Frame
<1>5. CASE /\ Here.kind = "open" /\ Top.open = NoName
           /\ stack' = [Advanced EXCEPT ![Len(stack)].open = Here.name,
                                        ![Len(stack)].found = @ \/ Here.name = Top.view[2]]
    BY <1>1, <1>2, <1>5 DEF Frame
<1> QED
    BY <1>3, <1>4, <1>5 DEF WLine, ToWalk

(* Each frame of the second descent knows the section it is in.            *)
Sections ==
    phase = "walk" =>
        \A i \in DOMAIN stack : SectionAt(captured[stack[i].view[1]], stack[i].line, stack[i].open)

(* What a frame reads, captured before a step, is so after it.             *)
LEMMA FrameBodies ==
    ASSUME TypeInv, Shape, NEW i \in DOMAIN stack
    PROVE  /\ captured'[stack[i].view[1]] = captured[stack[i].view[1]]
           /\ captured[stack[i].view[1]] \in Body
           /\ stack[i].line \in Nat /\ stack[i].view \in View
<1>1. stack[i] \in Frame
    BY DEF TypeInv, TypeOK
<1>2. stack[i].view[1] \in File /\ stack[i].line \in Nat /\ stack[i].view \in View
    BY <1>1 DEF Frame, View
<1>3. captured[stack[i].view[1]] # Absent
    BY DEF TypeInv, Frames
<1>4. captured[stack[i].view[1]] \in Body
    BY <1>2, <1>3, BodyFacts DEF TypeInv
<1> QED
    BY <1>2, <1>3, <1>4, BodiesStep DEF Kept

LEMMA SectionsStep ==
    ASSUME TypeInv, Sections, Shape, phase' = "walk", NEW i \in DOMAIN stack'
    PROVE  SectionAt(captured'[stack'[i].view[1]], stack'[i].line, stack'[i].open)
<1>0. Place /\ stack \in Seq(Frame) /\ (stack # <<>> => Top = stack[Len(stack)])
    BY DEF TypeInv, TypeOK, Top
<1>1. ASSUME i \in DOMAIN stack, phase = "walk", stack'[i] = stack[i]
      PROVE  SectionAt(captured'[stack'[i].view[1]], stack'[i].line, stack'[i].open)
    BY <1>1, FrameBodies DEF Sections
<1>2. ASSUME i = Len(stack), i \in DOMAIN stack, phase = "walk", ~AtEnd,
             stack'[i].view = stack[i].view, stack'[i].line = Top.line + 1,
             \/ Here.kind = "open" /\ Top.open = NoName /\ stack'[i].open = Here.name
             \/ Here.kind = "close" /\ stack'[i].open = NoName
             \/ Here.kind \notin {"open", "close"} /\ stack'[i].open = Top.open
      PROVE  SectionAt(captured'[stack'[i].view[1]], stack'[i].line, stack'[i].open)
  <2>1. stack # <<>>
      BY <1>2
  <2>2. /\ Text \in Body /\ Top.line \in DOMAIN Text /\ Here = Text[Top.line]
        /\ Here.kind = "open" => Here.name # NoName
      BY <1>2, <2>1, HereFacts, NameAssumption
  <2>3. captured'[stack'[i].view[1]] = Text
      BY <1>0, <1>2, <2>1, FrameBodies DEF Text
  <2>4. SectionAt(Text, Top.line, Top.open)
      BY <1>0, <1>2, <2>1 DEF Sections, Text
  <2>5. SectionAt(Text, Top.line + 1, stack'[i].open)
      BY <1>2, <2>2, <2>4, SectionNext
  <2> QED
      BY <1>2, <2>3, <2>5
<1>3. ASSUME NEW v, NEW form, NEW role, NEW st, WCall(v, form, role, st)
      PROVE  SectionAt(captured'[stack'[i].view[1]], stack'[i].line, stack'[i].open)
  <2>1. i \in DOMAIN stack \/ (i = Len(stack) + 1 /\ v \notin walked)
      BY <1>3, CallStack
  <2>2. CASE i \in DOMAIN stack
    <3>1. phase = "walk" /\ stack # <<>> /\ Links(Here) /\ ~AtEnd
        BY <1>0, <1>3, <2>2 DEF WCall, Place, CalledFrom
    <3>2. Here.kind \notin {"open", "close"}
        BY <3>1 DEF Links
    <3>3. CASE i # Len(stack)
        BY <1>1, <1>3, <2>2, <3>1, <3>3, CallStack
    <3>4. CASE i = Len(stack)
        BY <1>2, <1>3, <2>2, <3>1, <3>2, <3>4, CallStack
    <3> QED
        BY <3>3, <3>4
  <2>3. CASE i = Len(stack) + 1 /\ v \notin walked
      BY <1>3, <2>3, CallStack, SectionFirst
  <2> QED
      BY <2>1, <2>2, <2>3
<1>4. ASSUME WLine
      PROVE  SectionAt(captured'[stack'[i].view[1]], stack'[i].line, stack'[i].open)
  <2>1. phase = "walk" /\ i \in DOMAIN stack
      BY <1>4, LineStack DEF WLine
  <2>2. CASE i # Len(stack)
      BY <1>1, <1>4, <2>1, <2>2, LineStack
  <2>3. CASE i = Len(stack)
      BY <1>2, <1>4, <2>1, <2>3, LineStack
  <2> QED
      BY <2>2, <2>3
<1>5. ASSUME WReturn
      PROVE  SectionAt(captured'[stack'[i].view[1]], stack'[i].line, stack'[i].open)
  <2>1. stack # <<>> /\ stack' = Below /\ phase = "walk"
      BY <1>0, <1>5 DEF WReturn, ToWalk, Place
  <2>2. i \in DOMAIN stack /\ stack'[i] = stack[i]
      BY <1>0, <2>1, BelowFacts
  <2> QED
      BY <1>1, <2>1, <2>2
<1> QED
    BY <1>3, <1>4, <1>5
       DEF Shape, Refuse, TSkip, TPush, TransportEnd, ToTransport, Extra, Done

(* A line that is read is an active one, and the other way round.          *)
LEMMA ReadsIsActive ==
    ASSUME TypeInv, Sections, phase = "walk", ~AtEnd
    PROVE  Reads <=> ActiveLine(Text, Top.view[2], Top.line)
<1>1. stack # <<>> /\ stack \in Seq(Frame)
    BY DEF TypeInv, TypeOK, Place
<1>2. Top = stack[Len(stack)] /\ Len(stack) \in DOMAIN stack
    BY <1>1, AdvancedFacts
<1>3. Text \in Body /\ Top.line \in Nat
    BY <1>1, HereFacts DEF Body
<1>4. SectionAt(Text, Top.line, Top.open)
    BY <1>2 DEF Sections, Text
<1> QED
    BY <1>3, <1>4, SectionActive DEF Reads

-----------------------------------------------------------------------------
(***************************************************************************)
(* What the second descent has recorded, read and still has to read.       *)
(***************************************************************************)
Pending       == IF phase = "walk" THEN Active ELSE {}
LaterViews(i) == {stack[j].view : j \in {k \in DOMAIN stack : k > i}}

(* The active lines of body b before n, in the view of its section q, link *)
(* to views in V and give models in M.                                     *)
Scanned(b, q, n, V, M) ==
    \A k \in DOMAIN b :
        k < n /\ ActiveLine(b, q, k) => /\ Links(b[k]) => Selects(b[k]) \in V
                                        /\ b[k].kind = "model" => b[k].name \in M

Recording ==
    phase # "refused" =>
        /\ Recorded \subseteq walked \cup Pending
        /\ walked \subseteq Recorded /\ Pending \subseteq Recorded /\ walked \cap Pending = {}
        /\ \A i \in DOMAIN closure : /\ closure[i].view[1] \in carried
                                     /\ closure[i].body = captured[closure[i].view[1]]
        /\ \A i \in 1..Len(Entries) : i < item => Root(i) \in walked

Reading ==
    phase # "refused" =>
        /\ \A v \in walked : Scanned(captured[v[1]], v[2], Len(captured[v[1]]) + 1, walked, namespace)
        /\ phase = "walk" =>
               \A i \in DOMAIN stack :
                   Scanned(captured[stack[i].view[1]], stack[i].view[2], stack[i].line,
                           walked \cup LaterViews(i), namespace)

Origin ==
    phase # "refused" =>
        /\ \A v \in Recorded : v \in Roots \/ \E u \in Recorded : v \in Children(u)
        /\ namespace \subseteq UNION {Models(v) : v \in Recorded}

Descending == phase # "refused" => \A S \in SUBSET walked : S # {} => Rooted(S)

(* The steps outside the second descent.                                   *)
Idle ==
    /\ UNCHANGED <<closure, namespace, walked>>
    /\ phase # "walk" /\ phase' # "walk" /\ carried \subseteq carried'
    /\ \A i \in 1..Len(Entries) : i < item' => i < item

LEMMA WalkSteps ==
    ASSUME TypeInv, Shape, phase' # "refused"
    PROVE  /\ phase # "refused"
           /\ \/ Idle
              \/ \E v, form, role, st : WCall(v, form, role, st)
              \/ WLine
              \/ WReturn
<1>1. phase # "refused"
    BY DEF Shape, Refuse, TSkip, TPush, TransportEnd, WCall, WLine, WReturn, Extra, Done
<1>2. ASSUME NEW st, TSkip(st) PROVE Idle
    BY <1>2 DEF TSkip, ToTransport, Idle
<1>3. ASSUME NEW f, NEW st, TPush(f, st) PROVE Idle
    BY <1>3 DEF TPush, ToTransport, Idle
<1>4. ASSUME TransportEnd PROVE Idle
    BY <1>4 DEF TransportEnd, ToTransport, Idle
<1>5. ASSUME NEW f, NEW role, Extra(f, role) PROVE Idle
  <2>1. item \in Nat /\ Len(Entries) \in Nat
      BY ItemFacts DEF TypeInv
  <2> QED
      BY <1>5, <2>1 DEF Extra, Idle
<1>6. ASSUME Done PROVE Idle
    BY <1>6 DEF Done, Idle
<1> QED
    BY <1>1, <1>2, <1>3, <1>4, <1>5, <1>6 DEF Shape, Refuse

(* What a call of walk records.                                            *)
LEMMA CallRecords ==
    ASSUME TypeInv, CarriedIsClosed, Recording, Shape, phase' # "refused",
           NEW v, NEW form, NEW role, NEW st, WCall(v, form, role, st)
    PROVE  /\ Recorded' = Recorded \cup {v} /\ Recorded \subseteq Recorded'
           /\ \A i \in DOMAIN closure' :
                  /\ closure'[i].view[1] \in carried'
                  /\ closure'[i].body = captured'[closure'[i].view[1]]
<1> DEFINE r == [form |-> form, view |-> v, body |-> BodyOf(v[1])]
<1>0. phase # "refused"
    BY WalkSteps
<1>1. closure' = Append(closure, r) /\ carried' = carried /\ v \in View /\ v[1] \in carried
    BY CallIsCarried DEF WCall, ToWalk
<1>2. r \in [form : {"lib", "include"}, view : View, body : Body]
    BY <1>1, BodyFacts DEF WCall, BodyOf, Captured, TypeInv, TypeOK, Bodies, View
<1>3. closure \in Seq([form : {"lib", "include"}, view : View, body : Body])
    BY DEF TypeInv, TypeOK
<1>4. /\ DOMAIN closure' = 1..(Len(closure) + 1) /\ DOMAIN closure = 1..Len(closure) /\ Len(closure) \in Nat
      /\ \A i \in 1..Len(closure) : closure'[i] = closure[i]
      /\ closure'[Len(closure) + 1] = r
    BY <1>1, <1>2, <1>3
<1>5. \A f \in carried : captured'[f] = captured[f] /\ captured[f] # Absent
    BY BodiesStep DEF TypeInv, TypeOK, Bodies, Kept
<1>6. \A i \in 1..Len(closure) : /\ closure'[i].view[1] \in carried'
                                 /\ closure'[i].body = captured'[closure'[i].view[1]]
    BY <1>0, <1>1, <1>4, <1>5 DEF Recording
<1>7. r.view = v /\ r.body = captured'[v[1]]
    BY <1>1, <1>5 DEF BodyOf, Captured, TypeInv, TypeOK
<1>8. \A i \in DOMAIN closure' : /\ closure'[i].view[1] \in carried'
                                 /\ closure'[i].body = captured'[closure'[i].view[1]]
    BY <1>1, <1>4, <1>6, <1>7
<1>9. Recorded' = Recorded \cup {v}
  <2> HIDE DEF r
  <2>1. \A w \in Recorded' : w \in Recorded \cup {v}
      BY <1>4, <1>7 DEF Recorded
  <2>2. \A w \in Recorded : w \in Recorded'
      BY <1>4 DEF Recorded
  <2>3. Len(closure) + 1 \in DOMAIN closure'
      BY <1>4
  <2>4. v \in Recorded'
      BY <1>4, <1>7, <2>3 DEF Recorded
  <2> QED
      BY <2>1, <2>2, <2>4
<1> QED
    BY <1>8, <1>9

(* A recorded body stays the captured one.                                 *)
LEMMA BodiesRecorded ==
    ASSUME TypeInv, Recording, Shape, phase' # "refused", UNCHANGED closure, carried \subseteq carried'
    PROVE  /\ Recorded' = Recorded
           /\ \A i \in DOMAIN closure' :
                  /\ closure'[i].view[1] \in carried'
                  /\ closure'[i].body = captured'[closure'[i].view[1]]
<1>1. phase # "refused" /\ \A f \in carried : captured'[f] = captured[f]
    BY WalkSteps, BodiesStep DEF TypeInv, TypeOK, Bodies, Kept
<1> QED
    BY <1>1 DEF Recording, Recorded

(* Which views the frames of a descent are, after a step of it.            *)
LEMMA CallPending ==
    ASSUME TypeInv, NEW v, NEW form, NEW role, NEW st, WCall(v, form, role, st)
    PROVE  /\ phase \in {"library", "walk"} /\ v \notin Pending
           /\ Pending' = IF v \in walked THEN Pending ELSE Pending \cup {v}
<1>1. v \notin Active /\ phase \in {"library", "walk"} /\ stack' = (IF v \in walked THEN st ELSE Append(st, Opened(v)))
      /\ phase' = IF stack' = <<>> THEN "entry" ELSE "walk"
    BY DEF WCall, ToWalk
<1>2. Pending = Active /\ (stack = <<>> => Active = {})
    BY <1>1 DEF Pending, Active, TypeInv, Place
<1>3. Pending' = {stack'[i].view : i \in DOMAIN stack'}
  <2>1. CASE stack' = <<>>
    <3>1. DOMAIN stack' = {}
        BY <2>1
    <3> QED
        BY <1>1, <2>1, <3>1 DEF Pending
  <2>2. CASE stack' # <<>>
      BY <1>1, <2>2 DEF Pending, Active
  <2> QED
      BY <2>1, <2>2
<1>4. CASE v \in walked
  <2>1. DOMAIN stack' = DOMAIN stack /\ \A i \in DOMAIN stack : stack'[i].view = stack[i].view
      BY <1>4, CallStack
  <2> QED
      BY <1>1, <1>2, <1>3, <1>4, <2>1 DEF Active
<1>5. CASE v \notin walked
  <2>1. /\ DOMAIN stack' = 1..(Len(stack) + 1) /\ DOMAIN stack = 1..Len(stack) /\ Len(stack) \in Nat
        /\ stack'[Len(stack) + 1].view = v
        /\ \A i \in DOMAIN stack : stack'[i].view = stack[i].view
      BY <1>5, CallStack
  <2>2. DOMAIN stack' = DOMAIN stack \cup {Len(stack) + 1}
      BY <2>1
  <2>3. {stack'[i].view : i \in DOMAIN stack'} = {stack[i].view : i \in DOMAIN stack} \cup {v}
      BY <2>1, <2>2
  <2> QED
      BY <1>1, <1>2, <1>3, <1>5, <2>3 DEF Active
<1> QED
    BY <1>1, <1>2, <1>4, <1>5

LEMMA ReturnPending ==
    ASSUME TypeInv, WReturn
    PROVE  /\ Pending = Pending' \cup {Top.view} /\ Top.view \notin Pending'
           /\ item' # item => item' = item + 1 /\ item <= Len(Entries) /\ Top.view = Root(item)
<1>1. /\ phase = "walk" /\ stack # <<>> /\ stack \in Seq(Frame) /\ stack' = Below
      /\ phase' = (IF Below = <<>> THEN "entry" ELSE "walk")
      /\ item' = (IF Below = <<>> THEN item + 1 ELSE item)
    BY DEF WReturn, ToWalk, TypeInv, TypeOK, Place
<1>2. /\ Len(stack) \in DOMAIN stack /\ DOMAIN stack = 1..Len(stack) /\ Len(stack) \in Nat
      /\ DOMAIN Below = 1..(Len(stack) - 1) /\ \A i \in DOMAIN Below : Below[i] = stack[i]
      /\ Below = <<>> <=> Len(stack) = 1
      /\ Top = stack[Len(stack)]
    BY <1>1, BelowFacts, AdvancedFacts
<1>3. Pending' = {stack[i].view : i \in 1..(Len(stack) - 1)}
  <2>1. CASE Below = <<>>
    <3>1. 1..(Len(stack) - 1) = {}
        BY <1>2, <2>1
    <3> QED
        BY <1>1, <2>1, <3>1 DEF Pending
  <2>2. CASE Below # <<>>
      BY <1>1, <1>2, <2>2 DEF Pending, Active
  <2> QED
      BY <2>1, <2>2
<1>4. Pending = {stack[i].view : i \in 1..Len(stack)}
    BY <1>1, <1>2 DEF Pending, Active
<1>5. 1..Len(stack) = (1..(Len(stack) - 1)) \cup {Len(stack)} /\ Len(stack) \notin 1..(Len(stack) - 1)
    BY <1>2
<1>6. Pending = Pending' \cup {Top.view}
    BY <1>2, <1>3, <1>4, <1>5
<1>7. Top.view \notin Pending'
  <2> SUFFICES ASSUME NEW i \in 1..(Len(stack) - 1), stack[i].view = Top.view PROVE FALSE
      BY <1>3
  <2>1. i \in 1..Len(stack) /\ i # Len(stack)
      BY <1>5
  <2> QED
      BY <1>2, <2>1 DEF TypeInv, Frames
<1>8. item' # item => item' = item + 1 /\ item <= Len(Entries) /\ Top.view = Root(item)
    BY <1>1, <1>2 DEF TypeInv, Place
<1> QED
    BY <1>6, <1>7, <1>8

LEMMA LinePending ==
    ASSUME TypeInv, WLine
    PROVE  Pending' = Pending /\ item' = item /\ carried' = carried
<1>1. phase = "walk" /\ stack' # <<>> /\ DOMAIN stack' = DOMAIN stack
      /\ \A i \in DOMAIN stack : stack'[i].view = stack[i].view
    BY LineStack DEF WLine
<1>2. phase' = "walk" /\ item' = item /\ carried' = carried
    BY <1>1 DEF WLine, ToWalk
<1> QED
    BY <1>1, <1>2 DEF Pending, Active

LEMMA RecordingStep ==
    ASSUME TypeInv, CarriedIsClosed, Recording, Shape
    PROVE  Recording'
<1> SUFFICES ASSUME phase' # "refused" PROVE Recording'
    BY DEF Recording
<1>0. phase # "refused" /\ item \in Nat /\ Len(Entries) \in Nat
    BY WalkSteps, ItemFacts DEF TypeInv
<1>1. CASE Idle
  <2>1. Pending = {} /\ Pending' = {}
      BY <1>1 DEF Idle, Pending
  <2> QED
      BY <1>0, <1>1, <2>1, BodiesRecorded DEF Idle, Recording, Root
<1>2. ASSUME NEW v, NEW form, NEW role, NEW st, WCall(v, form, role, st) PROVE Recording'
  <2>1. walked' = walked
      BY <1>2 DEF WCall
  <2>2. \A i \in 1..Len(Entries) : i < item' => Root(i) \in walked'
    <3>1. CASE item' = item
        BY <1>0, <2>1, <3>1 DEF Recording
    <3>2. CASE item' # item
      <4>1. stack' = <<>> /\ item' = item + 1
          BY <1>2, <3>2 DEF WCall, ToWalk
      <4>2. v \in walked /\ stack = <<>>
        <5>1. DOMAIN stack' = {}
            BY <4>1
        <5>2. v \in walked
            BY <1>2, <5>1, CallStack
        <5>3. stack = <<>>
          <6>1. stack' = st
              BY <1>2, <5>2, CallStack
          <6>2. CalledFrom(st)
              BY <1>2 DEF WCall
          <6> QED
              BY <4>1, <6>1, <6>2, CalledFacts
        <5> QED
            BY <5>2, <5>3
      <4>3. v = Root(item)
          BY <1>2, <4>2 DEF WCall, TypeInv, Place
      <4> QED
          BY <1>0, <2>1, <4>1, <4>2, <4>3 DEF Recording
    <3> QED
        BY <3>1, <3>2
  <2>3. /\ Recorded' \subseteq walked' \cup Pending' /\ walked' \subseteq Recorded'
        /\ Pending' \subseteq Recorded' /\ walked' \cap Pending' = {}
      BY <1>0, <1>2, <2>1, CallRecords, CallPending DEF Recording
  <2> QED
      BY <1>2, <2>2, <2>3, CallRecords DEF Recording, Root
<1>3. ASSUME WLine PROVE Recording'
    BY <1>0, <1>3, LinePending, BodiesRecorded DEF WLine, Recording, Root
<1>4. ASSUME WReturn PROVE Recording'
  <2>1. walked' = walked \cup {Top.view} /\ carried' = carried /\ closure' = closure
      BY <1>4 DEF WReturn, ToWalk
  <2>2. \A i \in 1..Len(Entries) : i < item' => Root(i) \in walked'
    <3>1. CASE item' = item
        BY <1>0, <2>1, <3>1 DEF Recording
    <3>2. CASE item' # item
        BY <1>0, <1>4, <2>1, <3>2, ReturnPending DEF Recording
    <3> QED
        BY <3>1, <3>2
  <2>3. /\ Recorded' \subseteq walked' \cup Pending' /\ walked' \subseteq Recorded'
        /\ Pending' \subseteq Recorded' /\ walked' \cap Pending' = {}
      BY <1>0, <1>4, <2>1, ReturnPending, BodiesRecorded DEF Recording
  <2> QED
      BY <2>1, <2>2, <2>3, BodiesRecorded DEF Recording, Root
<1> QED
    BY <1>1, <1>2, <1>3, <1>4, WalkSteps

-----------------------------------------------------------------------------
(* A recorded view is of a carried file, whose body stays.                 *)
LEMMA RecordedBodies ==
    ASSUME TypeInv, Recording, phase # "refused"
    PROVE  \A v \in Recorded : /\ v \in View /\ v[1] \in carried
                               /\ captured[v[1]] \in Body
                               /\ Shape => captured'[v[1]] = captured[v[1]]
<1> SUFFICES ASSUME NEW v \in Recorded
             PROVE  /\ v \in View /\ v[1] \in carried /\ captured[v[1]] \in Body
                    /\ Shape => captured'[v[1]] = captured[v[1]]
    OBVIOUS
<1>1. PICK i \in DOMAIN closure : v = closure[i].view
    BY DEF Recorded
<1>2. closure[i] \in [form : {"lib", "include"}, view : View, body : Body]
  <2>1. closure \in Seq([form : {"lib", "include"}, view : View, body : Body])
      BY DEF TypeInv, TypeOK
  <2>2. ASSUME NEW R, closure \in Seq(R) PROVE closure[i] \in R
      BY <1>1, <2>2
  <2> QED
      BY ONLY <2>1, <2>2
<1>3. v \in View /\ v[1] \in carried
    BY <1>1, <1>2 DEF Recording
<1>4. v[1] \in File /\ captured[v[1]] # Absent
    BY <1>3 DEF TypeInv, TypeOK, Bodies
<1>5. captured[v[1]] \in Body
    BY <1>4, BodyFacts DEF TypeInv
<1>6. Shape => captured'[v[1]] = captured[v[1]]
    BY <1>4, BodiesStep DEF Kept
<1> QED
    BY <1>3, <1>5, <1>6

LEMMA ScannedGrows ==
    \A b, q, n, V, W, M, N :
        V \subseteq W /\ M \subseteq N /\ Scanned(b, q, n, V, M) => Scanned(b, q, n, W, N)
    BY DEF Scanned

(* One more line is scanned when what it says, if it is active, is held.   *)
LEMMA ScannedNext ==
    ASSUME NEW b \in Body, NEW n \in Nat, NEW q, NEW V, NEW M, Scanned(b, q, n, V, M),
           ActiveLine(b, q, n) => /\ Links(b[n]) => Selects(b[n]) \in V
                                  /\ b[n].kind = "model" => b[n].name \in M
    PROVE  Scanned(b, q, n + 1, V, M)
<1> SUFFICES ASSUME NEW k \in DOMAIN b, k < n + 1, ActiveLine(b, q, k)
             PROVE  /\ Links(b[k]) => Selects(b[k]) \in V
                    /\ b[k].kind = "model" => b[k].name \in M
    BY DEF Scanned
<1>1. k \in Nat
    BY DEF Body
<1>2. k < n \/ k = n
    BY <1>1
<1> QED
    BY <1>2 DEF Scanned

(* The frames that a step leaves have been scanned up to their line.       *)
LEMMA FramesScanned ==
    ASSUME TypeInv, Sections, Recording, Reading, Shape, phase' = "walk", NEW i \in DOMAIN stack'
    PROVE  Scanned(captured'[stack'[i].view[1]], stack'[i].view[2], stack'[i].line,
                   walked' \cup LaterViews(i)', namespace')
<1> DEFINE Goal == Scanned(captured'[stack'[i].view[1]], stack'[i].view[2], stack'[i].line,
                           walked' \cup LaterViews(i)', namespace')
<1>0. Place /\ stack \in Seq(Frame) /\ phase # "refused"
    BY WalkSteps DEF TypeInv, TypeOK
<1>1. ASSUME i \in DOMAIN stack, phase = "walk", stack'[i] = stack[i],
             walked \cup LaterViews(i) \subseteq walked' \cup LaterViews(i)',
             namespace \subseteq namespace'
      PROVE  Goal
    BY <1>0, <1>1, FrameBodies, ScannedGrows DEF Reading
<1>2. ASSUME i = Len(stack), i \in DOMAIN stack, phase = "walk", ~AtEnd,
             stack'[i].view = stack[i].view, stack'[i].line = Top.line + 1,
             walked \subseteq walked' \cup LaterViews(i)', namespace \subseteq namespace',
             Reads => /\ Links(Here) => Selects(Here) \in walked' \cup LaterViews(i)'
                      /\ Here.kind = "model" => Here.name \in namespace'
      PROVE  Goal
  <2> DEFINE V == walked' \cup LaterViews(i)'
             M == namespace'
  <2>1. stack # <<>>
      BY <1>2
  <2>2. /\ Text \in Body /\ Top.line \in Nat /\ Here = Text[Top.line] /\ Top = stack[i]
      BY <1>0, <1>2, <2>1, HereFacts, AdvancedFacts DEF Body
  <2>3. captured'[stack'[i].view[1]] = Text /\ Text = captured[stack[i].view[1]]
      BY <1>2, <2>2, FrameBodies DEF Text
  <2>4. \A k \in DOMAIN stack : k <= Len(stack)
      BY <1>0
  <2>5. LaterViews(i) = {}
      BY <1>2, <2>4 DEF LaterViews
  <2>6. Scanned(Text, Top.view[2], Top.line, walked, namespace)
      BY <1>0, <1>2, <2>2, <2>3, <2>5 DEF Reading
  <2>7. Scanned(Text, Top.view[2], Top.line, V, M)
      BY <1>2, <2>6, ScannedGrows
  <2>8. ActiveLine(Text, Top.view[2], Top.line) =>
            /\ Links(Text[Top.line]) => Selects(Text[Top.line]) \in V
            /\ Text[Top.line].kind = "model" => Text[Top.line].name \in M
      BY <1>2, <2>2, ReadsIsActive
  <2>9. Scanned(Text, Top.view[2], Top.line + 1, V, M)
    <3> HIDE DEF V, M
    <3> QED
        BY <2>2, <2>7, <2>8, ScannedNext
  <2> QED
      BY <1>2, <2>2, <2>3, <2>9
<1>3. ASSUME NEW v, NEW form, NEW role, NEW st, WCall(v, form, role, st) PROVE Goal
  <2>0. /\ Len(stack) \in Nat /\ DOMAIN stack = 1..Len(stack) /\ DOMAIN stack \subseteq DOMAIN stack'
        /\ \A k \in DOMAIN stack : stack'[k].view = stack[k].view
        /\ walked' = walked /\ namespace' = namespace
      BY <1>3, CallStack DEF WCall
  <2>1. i \in DOMAIN stack \/ (i = Len(stack) + 1 /\ v \notin walked)
      BY <1>3, CallStack
  <2>2. CASE i \in DOMAIN stack
    <3>1. /\ phase = "walk" /\ stack # <<>> /\ Links(Here) /\ ~AtEnd
          /\ v = Selects(Here) /\ Here.kind # "model"
        BY <1>0, <1>3, <2>2 DEF WCall, Place, CalledFrom, Links
    <3>2. LaterViews(i) \subseteq LaterViews(i)'
        BY <2>0 DEF LaterViews
    <3>3. v \in walked' \cup LaterViews(i)'
      <4>1. CASE v \notin walked
        <5>1. Len(stack) + 1 \in DOMAIN stack' /\ stack'[Len(stack) + 1].view = v
            BY <1>3, <2>0, <4>1, CallStack
        <5>2. Len(stack) + 1 > i
            BY <2>0, <2>2
        <5> QED
            BY <5>1, <5>2 DEF LaterViews
      <4>2. CASE v \in walked
          BY <2>0, <4>2
      <4> QED
          BY <4>1, <4>2
    <3>4. CASE i # Len(stack)
      <4>1. stack'[i] = stack[i]
          BY <1>3, <2>2, <3>4, CallStack
      <4> QED
          BY <1>1, <2>0, <2>2, <3>1, <3>2, <4>1
    <3>5. CASE i = Len(stack)
      <4>1. stack'[i].line = Top.line + 1
          BY <1>3, <3>1, <3>5, CallStack
      <4> QED
          BY <1>2, <2>0, <2>2, <3>1, <3>3, <3>5, <4>1
    <3> QED
        BY <3>4, <3>5
  <2>3. CASE i = Len(stack) + 1 /\ v \notin walked
    <3>1. stack'[i].view = v /\ stack'[i].line = 1
        BY <1>3, <2>3, CallStack
    <3>2. v[1] \in File /\ captured'[v[1]] \in Body
      <4>1. captured'[v[1]] # Absent
          BY <3>1, FramesStep DEF Frames
      <4>2. v[1] \in File /\ captured'[v[1]] \in Body \cup {Absent}
          BY <1>3, TypeStep DEF WCall, View, TypeOK
      <4> QED
          BY <4>1, <4>2
    <3>3. \A k \in DOMAIN captured'[v[1]] : ~(k < 1)
        BY <3>2 DEF Body
    <3> QED
        BY <3>1, <3>3 DEF Scanned
  <2> QED
      BY <2>1, <2>2, <2>3
<1>4. ASSUME WLine PROVE Goal
  <2>1. phase = "walk" /\ i \in DOMAIN stack /\ walked' = walked /\ namespace \subseteq namespace'
      BY <1>4, LineStack DEF WLine
  <2>2. LaterViews(i)' = LaterViews(i)
      BY <1>4, LineStack DEF LaterViews
  <2>3. CASE i # Len(stack)
      BY <1>1, <1>4, <2>1, <2>2, <2>3, LineStack
  <2>4. CASE i = Len(stack)
    <3>1. Reads => ~Links(Here) /\ (Here.kind = "model" => Here.name \in namespace')
        BY <1>4 DEF WLine, Links
    <3>2. ~AtEnd /\ stack'[i].view = stack[i].view /\ stack'[i].line = Top.line + 1
        BY <1>4, <2>1, <2>4, LineStack
    <3> QED
        BY <1>2, <2>1, <2>4, <3>1, <3>2
  <2> QED
      BY <2>3, <2>4
<1>5. ASSUME WReturn PROVE Goal
  <2>1. stack # <<>> /\ stack' = Below /\ phase = "walk" /\ namespace' = namespace
        /\ walked' = walked \cup {Top.view} /\ Top = stack[Len(stack)]
      BY <1>0, <1>5 DEF WReturn, ToWalk, Place, Top
  <2>2. /\ i \in DOMAIN stack /\ stack'[i] = stack[i]
        /\ \A k \in DOMAIN stack : k = Len(stack) \/ (k \in DOMAIN stack' /\ stack'[k] = stack[k])
      BY <1>0, <2>1, BelowFacts
  <2>3. walked \cup LaterViews(i) \subseteq walked' \cup LaterViews(i)'
      BY <2>1, <2>2 DEF LaterViews
  <2> QED
      BY <1>1, <2>1, <2>2, <2>3
<1> QED
    BY <1>0, <1>3, <1>4, <1>5, WalkSteps DEF Idle

(* A view that is returned from has been scanned to its end.               *)
LEMMA ReturnScanned ==
    ASSUME TypeInv, Reading, WReturn
    PROVE  /\ Top.view \in Pending
           /\ Scanned(captured[Top.view[1]], Top.view[2], Len(captured[Top.view[1]]) + 1, walked, namespace)
<1>1. phase = "walk" /\ stack # <<>> /\ stack \in Seq(Frame) /\ AtEnd
    BY DEF WReturn, TypeInv, TypeOK, Place
<1>2. Top = stack[Len(stack)] /\ Len(stack) \in DOMAIN stack /\ Top \in Frame
    BY <1>1, AdvancedFacts
<1>3. \A k \in DOMAIN stack : k <= Len(stack)
    BY <1>1
<1>4. LaterViews(Len(stack)) = {}
    BY <1>3 DEF LaterViews
<1>5. Scanned(captured[Top.view[1]], Top.view[2], Top.line, walked, namespace)
    BY <1>1, <1>2, <1>4 DEF Reading
<1>6. Top.view[1] \in File /\ captured[Top.view[1]] # Absent
    BY <1>2 DEF TypeInv, Frames, Frame, View
<1>7. captured[Top.view[1]] \in Body /\ Top.line \in Nat /\ Top.line > Len(captured[Top.view[1]])
    BY <1>1, <1>2, <1>6, BodyFacts DEF TypeInv, Frame, AtEnd, Text
<1>8. \A k \in DOMAIN captured[Top.view[1]] : k < Top.line
    BY <1>7 DEF Body
<1>9. Scanned(captured[Top.view[1]], Top.view[2], Len(captured[Top.view[1]]) + 1, walked, namespace)
    BY <1>5, <1>8 DEF Scanned
<1>10. Top.view \in Pending
    BY <1>1, <1>2 DEF Pending, Active
<1> QED
    BY <1>9, <1>10

LEMMA ReadingStep ==
    ASSUME TypeInv, Sections, Recording, Reading, Shape
    PROVE  Reading'
<1> SUFFICES ASSUME phase' # "refused" PROVE Reading'
    BY DEF Reading
<1>0. phase # "refused"
    BY WalkSteps
<1>1. ASSUME NEW v \in walked, walked \subseteq walked', namespace \subseteq namespace'
      PROVE  Scanned(captured'[v[1]], v[2], Len(captured'[v[1]]) + 1, walked', namespace')
  <2>1. captured'[v[1]] = captured[v[1]]
      BY <1>0, RecordedBodies DEF Recording
  <2>2. Scanned(captured[v[1]], v[2], Len(captured[v[1]]) + 1, walked, namespace)
      BY <1>0 DEF Reading
  <2> QED
      BY <1>1, <2>1, <2>2, ScannedGrows
<1>2. ASSUME NEW v \in walked'
      PROVE  Scanned(captured'[v[1]], v[2], Len(captured'[v[1]]) + 1, walked', namespace')
  <2>1. CASE ~WReturn
    <3>1. walked' = walked /\ namespace \subseteq namespace'
        BY <2>1, WalkSteps DEF Idle, WCall, WLine
    <3> QED
        BY <1>1, <1>2, <3>1
  <2>2. CASE WReturn
    <3>1. walked' = walked \cup {Top.view} /\ namespace' = namespace
        BY <2>2 DEF WReturn
    <3>2. CASE v \in walked
        BY <1>1, <3>1, <3>2
    <3>3. CASE v = Top.view
      <4>1. captured'[v[1]] = captured[v[1]]
        <5>1. Top.view \in Recorded
            BY <1>0, <2>2, ReturnScanned DEF Recording
        <5> QED
            BY <1>0, <3>3, <5>1, RecordedBodies
      <4>2. Scanned(captured[v[1]], v[2], Len(captured[v[1]]) + 1, walked, namespace)
          BY <2>2, <3>3, ReturnScanned
      <4>3. walked \subseteq walked' /\ namespace \subseteq namespace'
          BY <3>1
      <4> QED
          BY <4>1, <4>2, <4>3, ScannedGrows
    <3> QED
        BY <1>2, <3>1, <3>2, <3>3
  <2> QED
      BY <2>1, <2>2
<1> QED
    BY <1>2, FramesScanned DEF Reading

-----------------------------------------------------------------------------
(* The children and models of a view, line by line.                        *)
LEMMA ChildrenAre ==
    ASSUME NEW v
    PROVE  /\ \A c : c \in Children(v) <=>
                  \E k \in DOMAIN captured[v[1]] :
                      /\ ActiveLine(captured[v[1]], v[2], k) /\ Links(captured[v[1]][k])
                      /\ c = Selects(captured[v[1]][k])
           /\ \A m : m \in Models(v) <=>
                  \E k \in DOMAIN captured[v[1]] :
                      /\ ActiveLine(captured[v[1]], v[2], k) /\ captured[v[1]][k].kind = "model"
                      /\ m = captured[v[1]][k].name
    BY DEF Children, Models, ActiveLines, Selected

LEMMA ChildrenKept ==
    ASSUME NEW v, captured'[v[1]] = captured[v[1]]
    PROVE  Children(v)' = Children(v) /\ Models(v)' = Models(v)
    BY DEF Children, Models, ActiveLines, Selected

(* A view that was scanned to its end has its children and models held.    *)
LEMMA ScannedIsWhole ==
    ASSUME NEW v, captured[v[1]] \in Body, NEW V, NEW M,
           Scanned(captured[v[1]], v[2], Len(captured[v[1]]) + 1, V, M)
    PROVE  Children(v) \subseteq V /\ Models(v) \subseteq M
<1>1. \A k \in DOMAIN captured[v[1]] : k < Len(captured[v[1]]) + 1
    BY DEF Body
<1> QED
    BY <1>1, ChildrenAre DEF Scanned

LEMMA OriginStep ==
    ASSUME TypeInv, CarriedIsClosed, Sections, Recording, Origin, Shape
    PROVE  Origin'
<1> SUFFICES ASSUME phase' # "refused" PROVE Origin'
    BY DEF Origin
<1>0. phase # "refused" /\ Roots' = Roots
    BY WalkSteps DEF Roots
<1>1. \A v \in Recorded : Children(v)' = Children(v) /\ Models(v)' = Models(v)
    BY <1>0, RecordedBodies, ChildrenKept
<1>2. ASSUME UNCHANGED <<closure, namespace>> PROVE Origin'
  <2>1. Recorded' = Recorded
      BY <1>2 DEF Recorded
  <2> QED
      BY <1>0, <1>1, <1>2, <2>1 DEF Origin
<1>3. ASSUME phase = "walk", ~AtEnd
      PROVE  /\ Top.view \in Recorded
             /\ Reads /\ Links(Here) => Selects(Here) \in Children(Top.view)
             /\ Reads /\ Here.kind = "model" => Here.name \in Models(Top.view)
  <2>1. stack # <<>> /\ stack \in Seq(Frame)
      BY <1>3 DEF TypeInv, TypeOK, Place
  <2>2. Top = stack[Len(stack)] /\ Len(stack) \in DOMAIN stack
      BY <2>1, AdvancedFacts
  <2>3. Top.view \in Recorded
      BY <1>0, <1>3, <2>2 DEF Pending, Active, Recording
  <2>4. Text = captured[Top.view[1]] /\ Top.line \in DOMAIN Text /\ Here = Text[Top.line]
      BY <1>3, <2>1, HereFacts
  <2> QED
      BY <1>3, <2>3, <2>4, ReadsIsActive, ChildrenAre
<1>4. ASSUME NEW v, NEW form, NEW role, NEW st, WCall(v, form, role, st) PROVE Origin'
  <2>1. Recorded' = Recorded \cup {v} /\ namespace' = namespace
      BY <1>4, CallRecords DEF WCall
  <2>2. v \in Roots \/ \E u \in Recorded : v \in Children(u)
    <3>1. CASE phase = "library" /\ v = Root(item)
      <4>1. item \in DOMAIN Entries
          BY <3>1, ItemFacts, ProfileAssumption DEF TypeInv, Place
      <4> QED
          BY <3>1, <4>1 DEF Roots, Root
    <3>2. CASE phase = "walk" /\ Links(Here) /\ Reads /\ v = Selects(Here)
      <4>1. ~AtEnd
          BY <1>4, <3>2 DEF WCall, CalledFrom, TypeInv, Place
      <4> QED
          BY <1>3, <3>2, <4>1
    <3> QED
        BY <1>4, <3>1, <3>2 DEF WCall
  <2>3. \A w \in Recorded : w \in Roots \/ \E u \in Recorded' : w \in Children(u)'
      BY <1>0, <1>1, <2>1 DEF Origin
  <2>4. v \in Roots \/ \E u \in Recorded' : v \in Children(u)'
      BY <1>1, <2>1, <2>2
  <2>5. namespace' \subseteq UNION {Models(w)' : w \in Recorded'}
      BY <1>0, <1>1, <2>1 DEF Origin
  <2> QED
      BY <1>0, <2>1, <2>3, <2>4, <2>5 DEF Origin
<1>5. ASSUME WLine PROVE Origin'
  <2>1. closure' = closure /\ Recorded' = Recorded
      BY <1>5 DEF WLine, Recorded
  <2>2. namespace' \subseteq UNION {Models(w) : w \in Recorded}
    <3>1. CASE namespace' = namespace
        BY <1>0, <3>1 DEF Origin
    <3>2. CASE Here.kind = "model" /\ Reads /\ namespace' = namespace \cup {Here.name}
      <4>1. phase = "walk" /\ ~AtEnd
          BY <1>5 DEF WLine
      <4> QED
          BY <1>0, <1>3, <3>2, <4>1 DEF Origin
    <3> QED
        BY <1>5, <3>1, <3>2 DEF WLine
  <2> QED
      BY <1>0, <1>1, <2>1, <2>2 DEF Origin
<1> QED
    BY <1>2, <1>4, <1>5, WalkSteps DEF Idle, WReturn

(* A view whose children have all been walked before it closes no circle.  *)
LEMMA DescendingStep ==
    ASSUME TypeInv, Recording, Reading, Descending, Shape
    PROVE  Descending'
<1> SUFFICES ASSUME phase' # "refused", NEW S \in SUBSET walked', S # {} PROVE Rooted(S)'
    BY DEF Descending
<1>0. phase # "refused"
    BY WalkSteps
<1>1. \A v \in Recorded : Children(v)' = Children(v)
    BY <1>0, RecordedBodies, ChildrenKept
<1>2. walked \subseteq Recorded
    BY <1>0 DEF Recording
<1>3. \A v \in walked : Children(v) \subseteq walked
    BY <1>0, <1>2, RecordedBodies, ScannedIsWhole DEF Reading
<1>4. CASE S \cap walked # {}
  <2>1. PICK v \in S \cap walked : Children(v) \cap (S \cap walked) = {}
      BY <1>0, <1>4 DEF Descending, Rooted
  <2>2. Children(v)' \cap S = {}
      BY <1>1, <1>2, <1>3, <2>1
  <2> QED
      BY <2>1, <2>2 DEF Rooted
<1>5. CASE S \cap walked = {}
  <2>1. WReturn
      BY <1>5, WalkSteps DEF Idle, WCall, WLine
  <2>2. PICK v \in S : v = Top.view /\ S = {v}
      BY <1>5, <2>1 DEF WReturn
  <2>3. v \in Pending /\ v \in Recorded /\ v \notin walked
      BY <1>0, <1>5, <2>1, <2>2, ReturnScanned DEF Recording
  <2>4. captured[v[1]] \in Body
      BY <1>0, <2>3, RecordedBodies
  <2>5. Children(v) \subseteq walked
      BY <2>1, <2>2, <2>4, ReturnScanned, ScannedIsWhole
  <2>6. Children(v)' \cap S = {}
      BY <1>1, <2>2, <2>3, <2>5
  <2> QED
      BY <2>2, <2>6 DEF Rooted
<1> QED
    BY <1>4, <1>5

(***************************************************************************)
(* The invariant of both descents, and the two theorems that it gives.     *)
(***************************************************************************)
Explored == Sections /\ Recording /\ Reading /\ Origin /\ Descending

LEMMA ExploredInit == Init => Explored
<1> SUFFICES ASSUME Init PROVE Explored
    OBVIOUS
<1>1. Recorded = {} /\ Pending = {} /\ walked = {} /\ namespace = {} /\ item = 1 /\ phase = "entry"
    BY DEF Init, Recorded, Pending
<1>2. Len(Entries) \in Nat
    BY ProfileAssumption
<1>3. Sections /\ Reading /\ Origin
    BY <1>1 DEF Sections, Reading, Origin
<1>4. Recording
  <2>1. DOMAIN closure = {}
      BY DEF Init
  <2>2. \A i \in 1..Len(Entries) : ~(i < item)
      BY <1>1, <1>2
  <2> QED
      BY <1>1, <2>1, <2>2 DEF Recording
<1>5. Descending
    BY <1>1 DEF Descending
<1> QED
    BY <1>3, <1>4, <1>5 DEF Explored

LEMMA ExploredStep ==
    TypeInv /\ CarriedIsClosed /\ Explored /\ [Next]_vars => Explored'
<1> SUFFICES ASSUME TypeInv, CarriedIsClosed, Explored, [Next]_vars PROVE Explored'
    OBVIOUS
<1>1. CASE Step
  <2>1. Shape
      BY <1>1, Shapes
  <2>2. Sections'
      BY <2>1, SectionsStep DEF Explored, Sections
  <2>3. Recording' /\ Reading' /\ Origin' /\ Descending'
      BY <2>1, RecordingStep, ReadingStep, OriginStep, DescendingStep DEF Explored
  <2> QED
      BY <2>2, <2>3 DEF Explored
<1>2. CASE Outside
  <2>1. Recorded' = Recorded /\ Pending' = Pending /\ (\A i : LaterViews(i)' = LaterViews(i))
      BY <1>2 DEF Outside, Recorded, Pending, Active, LaterViews
  <2>2. \A v : Children(v)' = Children(v) /\ Models(v)' = Models(v)
      BY <1>2, ChildrenKept DEF Outside
  <2>3. Sections' /\ Recording' /\ Reading'
      BY <1>2, <2>1 DEF Outside, Explored, Sections, Recording, Reading, Root
  <2>4. Origin' /\ Descending'
      BY <1>2, <2>1, <2>2 DEF Outside, Explored, Origin, Descending, Rooted, Roots
  <2> QED
      BY <2>3, <2>4 DEF Explored
<1> QED
    BY <1>1, <1>2, Steps

LEMMA ExploredInvariant == Spec => [](TypeInv /\ Explored)
    BY TypeInvariant, ClosedInit, ClosedStep, ExploredInit, ExploredStep, PTL DEF Spec

(* When everything is captured, what is recorded has been walked.          *)
LEMMA CapturedFacts ==
    ASSUME TypeInv, Explored, phase = "captured"
    PROVE  /\ Recorded = walked /\ Roots \subseteq Recorded
           /\ \A v \in Recorded : Children(v) \subseteq Recorded /\ Models(v) \subseteq namespace
<1>1. Recorded = walked /\ \A i \in 1..Len(Entries) : i < item => Root(i) \in Recorded
    BY DEF Explored, Recording, Pending
<1>2. item > Len(Entries) /\ item \in Nat /\ Len(Entries) \in Nat /\ DOMAIN Entries = 1..Len(Entries)
    BY ItemFacts, ProfileAssumption DEF TypeInv, Place
<1>3. Roots \subseteq Recorded
  <2>1. \A i \in DOMAIN Entries : Root(i) \in Recorded
      BY <1>1, <1>2
  <2> QED
      BY <2>1 DEF Roots, Root
<1>4. \A v \in Recorded : Children(v) \subseteq walked /\ Models(v) \subseteq namespace
    BY <1>1, RecordedBodies, ScannedIsWhole DEF Explored, Reading
<1> QED
    BY <1>1, <1>3, <1>4

(***************************************************************************)
(* The recorded closure is exactly what the profile's entries reach in the *)
(* captured bytes, and the namespace exactly what those views define,      *)
(* whatever the files, the bounds and the changes of the installed tree    *)
(* (walk).                                                                 *)
(***************************************************************************)
THEOREM Exact == Spec => []ClosureIsExact
<1>1. TypeInv /\ Explored => ClosureIsExact
  <2> SUFFICES ASSUME TypeInv, Explored, phase = "captured"
               PROVE  /\ Roots \subseteq Recorded
                      /\ \A v \in Recorded : Children(v) \subseteq Recorded
                      /\ Recorded \subseteq Roots \cup UNION {Children(v) : v \in Recorded}
                      /\ namespace = UNION {Models(v) : v \in Recorded}
                      /\ \A i \in DOMAIN closure : closure[i].body = captured[closure[i].view[1]]
      BY DEF ClosureIsExact
  <2>1. /\ \A v \in Recorded : v \in Roots \/ \E u \in Recorded : v \in Children(u)
        /\ namespace \subseteq UNION {Models(v) : v \in Recorded}
      BY DEF Explored, Origin
  <2>2. \A i \in DOMAIN closure : closure[i].body = captured[closure[i].view[1]]
      BY DEF Explored, Recording
  <2> QED
      BY <2>1, <2>2, CapturedFacts
<1> QED
    BY <1>1, ExploredInvariant, PTL

(* A captured closure has no cycle of views: each was walked after every   *)
(* view that it selects (_active_views, _walked_views).                    *)
THEOREM Acyclic == Spec => []ClosureIsAcyclic
<1>1. TypeInv /\ Explored => ClosureIsAcyclic
    BY CapturedFacts DEF ClosureIsAcyclic, Explored, Descending
<1> QED
    BY <1>1, ExploredInvariant, PTL

-----------------------------------------------------------------------------
(***************************************************************************)
(* Why a cycle is a cycle: each frame was called from a line of the one    *)
(* below it.                                                               *)
(***************************************************************************)
LinksTo(b, f)    == \E k \in DOMAIN b : Links(b[k]) /\ b[k].to = f
ViewsTo(b, q, c) == \E k \in DOMAIN b : ActiveLine(b, q, k) /\ Links(b[k]) /\ Selects(b[k]) = c

Path ==
    \A i \in DOMAIN stack : i < Len(stack) =>
        LET b == captured[stack[i].view[1]] IN
        /\ phase = "walk"      => ViewsTo(b, stack[i].view[2], stack[i + 1].view)
        /\ phase = "transport" => LinksTo(b, stack[i + 1].view[1])

(* The line on top links its file, and an active one its view, to another. *)
LEMMA HereLinks ==
    ASSUME TypeInv, Sections, stack # <<>>, ~AtEnd, Links(Here)
    PROVE  /\ Text = captured[Top.view[1]] /\ LinksTo(Text, Here.to) /\ Here \in Linked(Top.view[1])
           /\ phase = "walk" /\ Reads => ViewsTo(Text, Top.view[2], Selects(Here))
<1>1. Text = captured[Top.view[1]] /\ Top.line \in DOMAIN Text /\ Here = Text[Top.line]
    BY HereFacts
<1>2. LinksTo(Text, Here.to) /\ Here \in Linked(Top.view[1])
    BY <1>1 DEF Linked, LinksTo
<1>3. phase = "walk" /\ Reads => ViewsTo(Text, Top.view[2], Selects(Here))
    BY <1>1, ReadsIsActive DEF ViewsTo
<1> QED
    BY <1>1, <1>2, <1>3

LEMMA PathStep ==
    ASSUME TypeInv, Sections, Path, Shape
    PROVE  Path'
<1> SUFFICES ASSUME NEW i \in DOMAIN stack', i < Len(stack')
             PROVE  LET b == captured'[stack'[i].view[1]] IN
                    /\ phase' = "walk"      => ViewsTo(b, stack'[i].view[2], stack'[i + 1].view)
                    /\ phase' = "transport" => LinksTo(b, stack'[i + 1].view[1])
    BY DEF Path
<1> DEFINE Goal == LET b == captured'[stack'[i].view[1]] IN
                   /\ phase' = "walk"      => ViewsTo(b, stack'[i].view[2], stack'[i + 1].view)
                   /\ phase' = "transport" => LinksTo(b, stack'[i + 1].view[1])
<1>0. /\ Place /\ stack \in Seq(Frame) /\ stack' \in Seq(Frame) /\ Len(stack) \in Nat
      /\ DOMAIN stack = 1..Len(stack)
    BY TypeStep DEF TypeInv, TypeOK
<1>a. i \in Nat /\ i >= 1 /\ Len(stack') \in Nat /\ DOMAIN stack' = 1..Len(stack')
    BY <1>0
<1>1. ASSUME phase' = phase, Len(stack') <= Len(stack),
             \A j \in DOMAIN stack' : stack'[j].view = stack[j].view
      PROVE  Goal
  <2>1. i \in DOMAIN stack /\ i + 1 \in DOMAIN stack /\ i < Len(stack) /\ i + 1 \in DOMAIN stack'
      BY <1>0, <1>1, <1>a
  <2>2. captured'[stack[i].view[1]] = captured[stack[i].view[1]]
      BY <2>1, FrameBodies
  <2>3. stack'[i].view = stack[i].view /\ stack'[i + 1].view = stack[i + 1].view
      BY <1>1, <2>1
  <2> QED
      BY <1>1, <2>1, <2>2, <2>3 DEF Path
<1>2. ASSUME NEW v, phase' = phase, DOMAIN stack' = 1..(Len(stack) + 1), stack'[Len(stack) + 1].view = v,
             \A j \in DOMAIN stack : stack'[j].view = stack[j].view,
             stack # <<>>, ~AtEnd, Links(Here), v[1] = Here.to,
             phase = "walk" => Reads /\ v = Selects(Here)
      PROVE  Goal
  <2>0. Len(stack') = Len(stack) + 1
      BY <1>0, <1>2
  <2>1. i \in DOMAIN stack
      BY <1>0, <1>a, <2>0
  <2>2. captured'[stack[i].view[1]] = captured[stack[i].view[1]] /\ stack'[i].view = stack[i].view
      BY <1>2, <2>1, FrameBodies
  <2>3. CASE i < Len(stack)
    <3>1. i + 1 \in DOMAIN stack
        BY <1>0, <1>a, <2>3
    <3>2. stack'[i + 1].view = stack[i + 1].view
        BY <1>2, <3>1
    <3> QED
        BY <1>2, <2>1, <2>2, <2>3, <3>2 DEF Path
  <2>4. CASE i = Len(stack)
    <3>1. Top = stack[i]
        BY <2>4 DEF Top
    <3> QED
        BY <1>2, <2>2, <2>4, <3>1, HereLinks
  <2> QED
      BY <1>0, <1>a, <2>0, <2>3, <2>4
<1>3. ASSUME phase' \notin {"walk", "transport"} PROVE Goal
    BY <1>3
<1>4. ASSUME NEW code, Refuse(code) PROVE Goal
    BY <1>3, <1>4 DEF Refuse
<1>5. ASSUME NEW st, TSkip(st) PROVE Goal
  <2>1. CASE stack = <<>>
    <3>1. phase' = "library"
        BY <1>5, <2>1 DEF TSkip, CalledFrom, ToTransport
    <3> QED
        BY <1>3, <3>1
  <2>2. CASE stack # <<>>
    <3>1. stack' = st /\ Len(st) = Len(stack) /\ DOMAIN st = DOMAIN stack
          /\ \A j \in DOMAIN stack : st[j].view = stack[j].view
        BY <1>5, CalledFacts DEF TSkip, ToTransport
    <3>2. phase' = phase
        BY <1>0, <1>5, <2>2, <3>1 DEF TSkip, ToTransport, Place
    <3> QED
        BY <1>0, <1>1, <3>1, <3>2
  <2> QED
      BY <2>1, <2>2
<1>6. ASSUME NEW f, NEW st, TPush(f, st) PROVE Goal
  <2>0. CalledFrom(st) /\ <<f, NoName>> \in View /\ stack' = Append(st, Opened(<<f, NoName>>))
      BY <1>6 DEF TPush, View, ToTransport
  <2>1. /\ st \in Seq(Frame) /\ Len(st) = Len(stack) /\ DOMAIN st = 1..Len(stack)
        /\ \A j \in DOMAIN stack : st[j].view = stack[j].view
      BY <1>0, <2>0, CalledFacts
  <2>2. /\ DOMAIN stack' = 1..(Len(stack) + 1) /\ stack'[Len(stack) + 1].view = <<f, NoName>>
        /\ \A j \in 1..Len(stack) : stack'[j] = st[j]
        /\ stack' # <<>> /\ <<f, NoName>>[1] = f
    <3> DEFINE v == <<f, NoName>>
               next == Append(st, Opened(v))
    <3>0. /\ DOMAIN next = 1..(Len(st) + 1) /\ next[Len(st) + 1] = Opened(v) /\ Opened(v).view = v
          /\ \A j \in 1..Len(st) : next[j] = st[j]
      <4>1. st \in Seq(Frame) /\ v \in View
          BY <2>0, <2>1
      <4> HIDE DEF v
      <4> QED
          BY <4>1, PushFacts
    <3>1. /\ DOMAIN stack' = 1..(Len(st) + 1) /\ stack'[Len(st) + 1].view = <<f, NoName>>
          /\ \A j \in 1..Len(st) : stack'[j] = st[j]
        BY <2>0, <3>0
    <3>2. stack' # <<>>
        BY <2>0, <2>1, PushFacts
    <3> QED
        BY <2>1, <3>1, <3>2
  <2>3. CASE stack = <<>>
    <3>1. Len(stack') = 1
        BY <1>0, <2>2, <2>3
    <3> QED
        BY <1>a, <3>1
  <2>4. CASE stack # <<>>
    <3>1. phase = "transport" /\ phase' = phase /\ Links(Here) /\ f = Here.to /\ ~AtEnd
        BY <1>0, <1>6, <2>0, <2>2, <2>4 DEF TPush, ToTransport, Place, CalledFrom
    <3> QED
      <4>1. \A j \in DOMAIN stack : stack'[j].view = stack[j].view
          BY <1>0, <2>1, <2>2
      <4>2. phase # "walk" /\ <<f, NoName>>[1] = Here.to
          BY <2>2, <3>1
      <4> QED
          BY <1>2, <2>2, <2>4, <3>1, <4>1, <4>2
  <2> QED
      BY <2>3, <2>4
<1>7. ASSUME TransportEnd \/ WReturn PROVE Goal
  <2>1. stack # <<>> /\ stack' = Below
      BY <1>0, <1>7 DEF TransportEnd, WReturn, ToTransport, ToWalk, Place
  <2>2. Len(stack') <= Len(stack) /\ \A j \in DOMAIN stack' : stack'[j] = stack[j]
      BY <1>0, <2>1, BelowFacts
  <2>3. phase' = phase \/ phase' \notin {"walk", "transport"}
      BY <1>7 DEF TransportEnd, WReturn, ToTransport, ToWalk
  <2> QED
      BY <1>1, <1>3, <2>2, <2>3
<1>8. ASSUME NEW v, NEW form, NEW role, NEW st, WCall(v, form, role, st) PROVE Goal
  <2>1. CASE stack = <<>>
    <3>1. Len(stack') <= 1
      <4>1. CASE v \in walked
        <5>1. DOMAIN stack' = {}
            BY <1>8, <2>1, <4>1, CallStack
        <5> QED
            BY <1>a, <5>1
      <4>2. CASE v \notin walked
        <5>1. DOMAIN stack' = 1..1
            BY <1>8, <2>1, <4>2, CallStack
        <5> QED
            BY <1>a, <5>1
      <4> QED
          BY <4>1, <4>2
    <3> QED
        BY <1>a, <3>1
  <2>2. CASE stack # <<>>
    <3>1. phase = "walk" /\ Links(Here) /\ Reads /\ v = Selects(Here) /\ v[1] = Here.to /\ ~AtEnd
        BY <1>0, <1>8, <2>2 DEF WCall, Place, CalledFrom, Selects
    <3>2. phase' \in {"walk", "entry"}
        BY <1>8 DEF WCall, ToWalk
    <3>3. \A j \in DOMAIN stack : stack'[j].view = stack[j].view
        BY <1>8, CallStack
    <3>4. CASE v \in walked
      <4>1. DOMAIN stack' = DOMAIN stack
          BY <1>8, <3>4, CallStack
      <4>2. Len(stack') \in DOMAIN stack'
          BY <1>a
      <4>3. Len(stack') <= Len(stack)
          BY <1>0, <4>1, <4>2
      <4> QED
          BY <1>1, <1>3, <3>1, <3>2, <3>3, <4>1, <4>3
    <3>5. CASE v \notin walked
      <4>1. DOMAIN stack' = 1..(Len(stack) + 1) /\ stack'[Len(stack) + 1].view = v
          BY <1>8, <3>5, CallStack
      <4> QED
          BY <1>2, <1>3, <2>2, <3>1, <3>2, <3>3, <4>1
    <3> QED
        BY <3>4, <3>5
  <2> QED
      BY <2>1, <2>2
<1>9. ASSUME WLine PROVE Goal
  <2>1. DOMAIN stack' = DOMAIN stack /\ \A j \in DOMAIN stack : stack'[j].view = stack[j].view
      BY <1>9, LineStack
  <2>2. Len(stack') \in DOMAIN stack'
      BY <1>a
  <2>4. Len(stack') <= Len(stack)
      BY <1>0, <2>1, <2>2
  <2>3. phase' = phase \/ phase' \notin {"walk", "transport"}
      BY <1>9 DEF WLine, ToWalk
  <2> QED
      BY <1>1, <1>3, <2>1, <2>3, <2>4
<1>10. ASSUME NEW f, NEW role, Extra(f, role) PROVE Goal
    BY <1>3, <1>10 DEF Extra
<1>11. ASSUME Done PROVE Goal
    BY <1>3, <1>11 DEF Done
<1> QED
    BY <1>4, <1>5, <1>6, <1>7, <1>8, <1>9, <1>10, <1>11 DEF Shape

(* A call that finds its view on the stack closes a circle of views.       *)
LEMMA ViewCircle ==
    ASSUME TypeInv, Sections, Recording, Path,
           phase = "walk", ~AtEnd, Links(Here), Reads, Selects(Here) \in Active
    PROVE  \E S \in SUBSET Recorded : S # {} /\ ~Rooted(S)
<1>1. stack # <<>> /\ stack \in Seq(Frame) /\ Len(stack) \in Nat /\ DOMAIN stack = 1..Len(stack)
    BY DEF TypeInv, TypeOK, Place
<1>2. PICK k \in DOMAIN stack : stack[k].view = Selects(Here)
    BY DEF Active
<1> DEFINE S == {stack[i].view : i \in {j \in DOMAIN stack : j >= k}}
<1>3. S \subseteq Recorded /\ S # {}
  <2>1. k \in {j \in DOMAIN stack : j >= k}
      BY <1>1, <1>2
  <2>2. S # {}
      BY <2>1
  <2> QED
      BY <2>2 DEF Recording, Pending, Active
<1>4. ASSUME NEW i \in DOMAIN stack, i >= k PROVE Children(stack[i].view) \cap S # {}
  <2>1. CASE i < Len(stack)
    <3>1. i + 1 \in DOMAIN stack /\ i + 1 >= k
        BY <1>1, <1>2, <1>4, <2>1
    <3>2. stack[i + 1].view \in S
        BY <3>1
    <3>3. stack[i + 1].view \in Children(stack[i].view)
        BY <2>1, ChildrenAre DEF Path, ViewsTo
    <3> QED
        BY <3>2, <3>3
  <2>2. CASE i = Len(stack)
    <3>1. Selects(Here) \in S
        BY <1>1, <1>2
    <3>2. Selects(Here) \in Children(stack[i].view)
      <4>1. stack[i] = Top
          BY <2>2 DEF Top
      <4>2. Text = captured[Top.view[1]] /\ ViewsTo(Text, Top.view[2], Selects(Here))
          BY <1>1, HereLinks
      <4>3. PICK j \in DOMAIN Text :
                ActiveLine(Text, Top.view[2], j) /\ Links(Text[j]) /\ Selects(Text[j]) = Selects(Here)
          BY <4>2 DEF ViewsTo
      <4>4. Selects(Here) \in Children(Top.view)
          BY <4>2, <4>3, ChildrenAre
      <4> QED
          BY <4>1, <4>4
    <3> QED
        BY <3>1, <3>2
  <2> QED
      BY <1>1, <2>1, <2>2
<1>5. ~Rooted(S)
    BY <1>4 DEF Rooted
<1> QED
    BY <1>3, <1>5

(* An include of a file on the stack closes a circle of files.             *)
LEMMA FileCircle ==
    ASSUME TypeInv, Sections, Path,
           phase = "transport", ~AtEnd, Here.kind = "include", <<Here.to, NoName>> \in Active
    PROVE  \E S \in SUBSET Captured :
               /\ \A f \in S : \E l \in Linked(f) : l.to \in S
               /\ \E f \in S : \E l \in Linked(f) : l.kind = "include" /\ l.to \in S
<1>1. stack # <<>> /\ stack \in Seq(Frame) /\ Len(stack) \in Nat /\ DOMAIN stack = 1..Len(stack)
    BY DEF TypeInv, TypeOK, Place
<1>2. PICK k \in DOMAIN stack : stack[k].view = <<Here.to, NoName>>
    BY DEF Active
<1> DEFINE S == {stack[i].view[1] : i \in {j \in DOMAIN stack : j >= k}}
<1>3. S \subseteq Captured
  <2>1. \A i \in DOMAIN stack : stack[i] \in Frame
      BY <1>1
  <2> QED
      BY <2>1 DEF Captured, TypeInv, Frames, Frame, View
<1>4. Here.to \in S /\ Here \in Linked(stack[Len(stack)].view[1]) /\ Links(Here)
      /\ stack[Len(stack)].view[1] \in S
  <2>1. k \in {j \in DOMAIN stack : j >= k} /\ Len(stack) \in {j \in DOMAIN stack : j >= k}
      BY <1>1, <1>2
  <2>2. stack[k].view[1] = Here.to
      BY <1>2
  <2>3. Links(Here)
      BY DEF Links
  <2> QED
      BY <1>1, <2>1, <2>2, <2>3, HereLinks DEF Top
<1>5. ASSUME NEW i \in DOMAIN stack, i >= k PROVE \E l \in Linked(stack[i].view[1]) : l.to \in S
  <2>1. CASE i < Len(stack)
    <3>1. i + 1 \in {j \in DOMAIN stack : j >= k}
        BY <1>1, <1>2, <1>5, <2>1
    <3>2. stack[i + 1].view[1] \in S
        BY <3>1
    <3>3. LinksTo(captured[stack[i].view[1]], stack[i + 1].view[1])
        BY <2>1 DEF Path
    <3> QED
        BY <3>2, <3>3 DEF LinksTo, Linked
  <2>2. CASE i = Len(stack)
      BY <1>4, <2>2
  <2> QED
      BY <1>1, <2>1, <2>2
<1>6. \A f \in S : \E l \in Linked(f) : l.to \in S
    BY <1>5
<1>7. \E f \in S : \E l \in Linked(f) : l.kind = "include" /\ l.to \in S
    BY <1>4
<1> QED
    BY <1>3, <1>6, <1>7

(* Only a call that finds itself on the stack is refused for a cycle.      *)
LEMMA CycleCodes ==
    ASSUME TypeInv, Step, why' \in {"view_cycle", "file_cycle"}
    PROVE  /\ UNCHANGED <<captured, closure>> /\ ~AtEnd
           /\ \/ /\ why' = "view_cycle" /\ phase = "walk"
                 /\ Links(Here) /\ Reads /\ Selects(Here) \in Active
              \/ /\ why' = "file_cycle" /\ phase = "transport"
                 /\ Here.kind = "include" /\ <<Here.to, NoName>> \in Active
<1> DEFINE Goal == /\ UNCHANGED <<captured, closure>> /\ ~AtEnd
                   /\ \/ /\ why' = "view_cycle" /\ phase = "walk"
                         /\ Links(Here) /\ Reads /\ Selects(Here) \in Active
                      \/ /\ why' = "file_cycle" /\ phase = "transport"
                         /\ Here.kind = "include" /\ <<Here.to, NoName>> \in Active
<1>0. Place /\ (stack = <<>> => Active = {}) /\ (phase # "refused" => why = "none")
    BY DEF TypeInv, Place, Active
<1>1. ASSUME NEW f, NEW st, Carry(f, st), phase # "refused"
      PROVE  UNCHANGED <<captured, closure>> /\ why' = "file_cycle" /\ <<f, NoName>> \in Active
    BY <1>0, <1>1 DEF Carry, CaptureFails, Refuse, ToTransport, held
<1>2. ASSUME NEW v, NEW form, NEW role, NEW st, Walk(v, form, role, st), phase # "refused"
      PROVE  UNCHANGED <<captured, closure>> /\ why' = "view_cycle" /\ v \in Active
    BY <1>0, <1>2 DEF Walk, CaptureFails, Refuse, ToWalk, WalkIssue, held
<1>3. ASSUME StartEntry PROVE Goal
    BY <1>0, <1>1, <1>3 DEF StartEntry, Refuse, Place
<1>4. ASSUME TransportLine PROVE Goal
  <2>1. CASE Links(Here) /\ Carry(Here.to, Advanced) /\ ~(Here.kind = "lib" /\ IsCarried(Here.to))
      BY <1>1, <1>4, <2>1 DEF TransportLine, IsCarried, Links
  <2> QED
      BY <1>0, <1>4, <2>1 DEF TransportLine, Refuse, ToTransport
<1>5. ASSUME TransportEnd PROVE Goal
    BY <1>0, <1>5 DEF TransportEnd, ToTransport
<1>6. ASSUME StartWalk PROVE Goal
    BY <1>0, <1>2, <1>6 DEF StartWalk, Place
<1>7. ASSUME SectionLine PROVE Goal
    BY <1>0, <1>7 DEF SectionLine, ToWalk, Refuse
<1>8. ASSUME ContentLine PROVE Goal
  <2>1. CASE Links(Here) /\ Reads /\ Walk(Selects(Here), Here.kind, "transitive", Advanced)
      BY <1>2, <1>8, <2>1 DEF ContentLine
  <2> QED
      BY <1>0, <1>8, <2>1 DEF ContentLine, Refuse, ToWalk
<1>9. ASSUME WalkEnd PROVE Goal
    BY <1>0, <1>9 DEF WalkEnd, ToWalk, Refuse
<1>10. ASSUME CaptureModule PROVE Goal
    BY <1>0, <1>10 DEF CaptureModule, CaptureFails, Refuse
<1>11. ASSUME CaptureIdentity PROVE Goal
    BY <1>0, <1>11 DEF CaptureIdentity, CaptureFails, Refuse
<1> QED
    BY <1>3, <1>4, <1>5, <1>6, <1>7, <1>8, <1>9, <1>10, <1>11 DEF Step

(***************************************************************************)
(* A refusal for a cycle is always deserved (walk, _active_views;          *)
(* capture_transport_closure, _transport_active).                          *)
(***************************************************************************)
THEOREM CyclesAreReal == Spec => []CycleIsReal
<1> DEFINE Inv == TypeInv /\ Explored
<1>1. Init => Path /\ CycleIsReal
    BY DEF Init, Path, CycleIsReal
<1>2. Inv /\ Path /\ CycleIsReal /\ [Next]_vars => Path' /\ CycleIsReal'
  <2> SUFFICES ASSUME Inv, Path, CycleIsReal, [Next]_vars PROVE Path' /\ CycleIsReal'
      OBVIOUS
  <2>1. CASE Outside
    <3>1. Recorded' = Recorded /\ Captured' = Captured
          /\ (\A v : Children(v)' = Children(v)) /\ (\A f : Linked(f)' = Linked(f))
        BY <2>1, ChildrenKept DEF Outside, Recorded, Captured, Linked
    <3> QED
        BY <2>1, <3>1 DEF Outside, Path, CycleIsReal, Rooted
  <2>2. CASE Step
    <3>1. Path'
        BY <2>2, PathStep, Shapes DEF Explored
    <3>2. CASE why' \notin {"view_cycle", "file_cycle"}
        BY <3>1, <3>2 DEF CycleIsReal
    <3>3. CASE why' \in {"view_cycle", "file_cycle"}
      <4>1. Recorded' = Recorded /\ Captured' = Captured
            /\ (\A v : Children(v)' = Children(v)) /\ (\A f : Linked(f)' = Linked(f))
        <5>1. captured' = captured /\ closure' = closure
            BY <2>2, <3>3, CycleCodes
        <5> QED
            BY <5>1, ChildrenKept DEF Recorded, Captured, Linked
      <4>2. CASE why' = "view_cycle"
        <5>1. \E S \in SUBSET Recorded : S # {} /\ ~Rooted(S)
            BY <2>2, <4>2, CycleCodes, ViewCircle DEF Explored
        <5> QED
            BY <3>1, <4>1, <4>2, <5>1 DEF CycleIsReal, Rooted
      <4>3. CASE why' = "file_cycle"
        <5>1. \E S \in SUBSET Captured :
                  /\ \A f \in S : \E l \in Linked(f) : l.to \in S
                  /\ \E f \in S : \E l \in Linked(f) : l.kind = "include" /\ l.to \in S
            BY <2>2, <4>3, CycleCodes, FileCircle DEF Explored
        <5> QED
            BY <3>1, <4>1, <4>3, <5>1 DEF CycleIsReal
      <4> QED
          BY <3>3, <4>2, <4>3
    <3> QED
        BY <3>2, <3>3
  <2> QED
      BY <2>1, <2>2, Steps
<1> QED
    BY <1>1, <1>2, ExploredInvariant, PTL DEF Spec
(* A cycle of views, or of files, is refused exactly when there is one.    *)
THEOREM CyclesExact == Spec => []CyclesAreExact
    BY Acyclic, CyclesAreReal, PTL DEF CyclesAreExact
=============================================================================
