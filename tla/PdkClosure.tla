----------------------------- MODULE PdkClosure -----------------------------
(***************************************************************************)
(* The capture of a PDK's model closure (resolve_pdk_binding down to       *)
(* publish): for each library entry of the profile, a first descent that   *)
(* captures every file ngspice's preprocessor may open, then a second that *)
(* follows the selected sections only and records the ordered closure.     *)
(* Both descents read a file from the installed tree once and work from    *)
(* the captured bytes, while somebody else may change that tree.           *)
(*                                                                         *)
(* A file's body is the sequence of its directives.  A view is a file with *)
(* the section selected in it, as walk and _active_views have it.          *)
(***************************************************************************)
EXTENDS Naturals, Sequences, FiniteSets

CONSTANTS
    File,      \* the files of the installed PDK, named by their relative path
    Name,      \* section and model names
    NoName,    \* None for a section: the lines outside every section
    Absent,    \* in place of a body: no such file, or not captured
    Versions,  \* Versions[f]: the bodies f may have
    Entries,   \* the library entries of the profile that the deck's families keep
    Modules,   \* its OSDI modules
    Identity,  \* its identity file, or Absent when it names none
    MaxFiles,  \* MAX_BOUND_FILES
    MaxEdges,  \* MAX_CLOSURE_EDGES
    MaxDepth,  \* MAX_CLOSURE_DEPTH
    MaxEdits   \* bound on the changes made to the installed tree

Line  == [kind : {"include", "lib", "open", "close", "model", "malformed"},
          to : File, name : Name \cup {NoName}]
Body  == Seq(Line)
View  == File \X (Name \cup {NoName})
Entry == [file : File, form : {"lib", "include"}, section : Name \cup {NoName}]
Frame == [view : View, line : Nat, open : Name \cup {NoName}, found : BOOLEAN]
Role  == {"none", "parser", "transitive", "corner", "module", "identity"}

ASSUME NameAssumption == NoName \notin Name
ASSUME BodyAssumption ==
    /\ Absent \notin File /\ Absent \notin Body
    /\ \A f \in File : Versions[f] \subseteq Body
    /\ \A f \in File : \A b \in Versions[f] : \A i \in DOMAIN b :
           b[i].kind \in {"open", "lib", "model"} => b[i].name \in Name
ASSUME ProfileAssumption ==
    /\ Entries \in Seq(Entry) /\ Modules \in Seq(File) /\ Identity \in File \cup {Absent}
    /\ \A i \in DOMAIN Entries : (Entries[i].form = "lib") <=> (Entries[i].section # NoName)
ASSUME BoundAssumption == {MaxFiles, MaxEdges, MaxDepth, MaxEdits} \subseteq Nat

VARIABLES
    source,     \* the installed tree: the body of each file, or Absent
    edits,      \* the changes made to it so far
    captured,   \* builder.captured: the body each file was captured with
    roles,      \* builder.roles
    closure,    \* builder.closure_records
    namespace,  \* builder.namespace_models
    carried,    \* builder._transport_walked
    walked,     \* builder._walked_views
    stack,      \* the frames of the running descent, outermost first
    item,       \* the entry, module or identity file that is being captured
    phase,      \* "entry", "transport", "library", "walk", "captured", "refused"
    why         \* the code of the refusal

tree == <<source, edits>>
held == <<captured, roles>>
vars == <<tree, held, closure, namespace, carried, walked, stack, item, phase, why>>

Init ==
    /\ source \in [File -> UNION {Versions[f] : f \in File} \cup {Absent}]
    /\ \A f \in File : source[f] \in Versions[f] \cup {Absent}
    /\ edits = 0
    /\ captured = [f \in File |-> Absent] /\ roles = [f \in File |-> "none"]
    /\ closure = <<>> /\ namespace = {} /\ carried = {} /\ walked = {}
    /\ stack = <<>> /\ item = 1 /\ phase = "entry" /\ why = "none"

Top        == stack[Len(stack)]
Below      == SubSeq(stack, 1, Len(stack) - 1)
Text       == captured[Top.view[1]]
Here       == Text[Top.line]
AtEnd      == Top.line > Len(Text)
Advanced   == [stack EXCEPT ![Len(stack)].line = @ + 1]
Opened(v)  == [view |-> v, line |-> 1, open |-> NoName, found |-> v[2] = NoName]
Active     == {stack[i].view : i \in DOMAIN stack}
Captured   == {f \in File : captured[f] # Absent}
Links(l)   == l.kind \in {"include", "lib"}
Selects(l) == <<l.to, IF l.kind = "lib" THEN l.name ELSE NoName>>

Refuse(code) ==
    /\ phase' = "refused" /\ why' = code /\ stack' = <<>>
    /\ UNCHANGED <<tree, held, closure, namespace, carried, walked, item>>

(***************************************************************************)
(* _capture and capture_material.  A captured file is never read again and *)
(* keeps the role of the highest priority.                                 *)
(***************************************************************************)
Priority == [none |-> 0, parser |-> 1, transitive |-> 2, corner |-> 3, module |-> 4, identity |-> 4]

Reread(f) ==   \* mutation: every use reads the installed file again
    IF source[f] = Absent THEN captured[f] ELSE source[f]

BodyOf(f) == IF f \in Captured THEN captured[f] ELSE source[f]

Capture(f, role) ==
    /\ f \in Captured \/ Cardinality(Captured) + 1 < MaxFiles
    /\ captured' = [captured EXCEPT ![f] = BodyOf(f)]
    /\ roles' = [roles EXCEPT ![f] = IF Priority[role] > Priority[@] THEN role ELSE @]

(* A file that is new may be unreadable, change meanwhile or pass a ceiling. *)
CaptureFails(f) ==
    /\ f \notin Captured
    /\ Refuse(IF Cardinality(Captured) + 1 < MaxFiles THEN "unreadable" ELSE "over_limit")

-----------------------------------------------------------------------------
(***************************************************************************)
(* capture_transport_closure(f), called from the frames st.                *)
(***************************************************************************)
ToTransport(st) ==
    /\ stack' = st
    /\ phase' = IF st = <<>> THEN "library" ELSE "transport"
    /\ UNCHANGED <<tree, closure, namespace, walked, item, why>>

Carry(f, st) ==
    LET busy == <<f, NoName>> \in Active IN
    \/ Len(st) > MaxDepth /\ Refuse("over_limit")
    \/ Len(st) <= MaxDepth /\ busy /\ Refuse("file_cycle")
    \/ /\ Len(st) <= MaxDepth /\ ~busy /\ f \in carried
       /\ ToTransport(st) /\ UNCHANGED <<held, carried>>
    \/ /\ Len(st) <= MaxDepth /\ ~busy /\ f \notin carried
       /\ \/ /\ Capture(f, "parser")
             /\ ToTransport(Append(st, Opened(<<f, NoName>>)))
             /\ UNCHANGED carried
          \/ CaptureFails(f)

StartEntry ==
    /\ phase = "entry" /\ item <= Len(Entries)
    /\ LET f == Entries[item].file IN
       \/ source[f] = Absent /\ Refuse("missing")
       \/ source[f] # Absent /\ Carry(f, <<>>)

(***************************************************************************)
(* A line of the file on top.  Every include is followed, whatever section *)
(* it is in; a .lib of a file that is being or has been read is not, for a *)
(* library may select another section of itself.                           *)
(***************************************************************************)
IsCarried(f) == f \in carried \/ <<f, NoName>> \in Active

TransportLine ==
    /\ phase = "transport" /\ ~AtEnd
    /\ \/ Here.kind = "malformed" /\ Refuse("directive_invalid")
       \/ /\ Here.kind \in {"open", "close", "model"}
          /\ ToTransport(Advanced) /\ UNCHANGED <<held, carried>>
       \/ Links(Here) /\ source[Here.to] = Absent /\ Refuse("missing")
       \/ /\ Links(Here) /\ source[Here.to] # Absent
          /\ LET exempt == Here.kind = "lib" /\ IsCarried(Here.to) IN
             \/ /\ exempt /\ Capture(Here.to, "parser")
                /\ ToTransport(Advanced) /\ UNCHANGED carried
             \/ ~exempt /\ Carry(Here.to, Advanced)

TransportEnd ==
    /\ phase = "transport" /\ AtEnd
    /\ carried' = carried \cup {Top.view[1]}
    /\ ToTransport(Below) /\ UNCHANGED held

-----------------------------------------------------------------------------
(***************************************************************************)
(* walk(v, form), called from the frames st.                               *)
(***************************************************************************)
ToWalk(st) ==
    /\ stack' = st
    /\ phase' = IF st = <<>> THEN "entry" ELSE "walk"
    /\ item'  = IF st = <<>> THEN item + 1 ELSE item
    /\ UNCHANGED <<tree, carried, why>>

IssueByFile(v, st) ==   \* mutation: the cycle check forgets the section
    CASE Len(st) > MaxDepth       -> "over_limit"
      [] v[1] \in {a[1] : a \in Active} -> "view_cycle"
      [] Len(closure) >= MaxEdges -> "over_limit"
      [] OTHER                    -> "none"

IssueTooDeep(v, st) ==   \* mutation: the depth is compared off by one
    CASE Len(st) > MaxDepth + 1   -> "over_limit"
      [] v \in Active             -> "view_cycle"
      [] Len(closure) >= MaxEdges -> "over_limit"
      [] OTHER                    -> "none"

WalkIssue(v, st) ==
    CASE Len(st) > MaxDepth       -> "over_limit"
      [] v \in Active             -> "view_cycle"
      [] Len(closure) >= MaxEdges -> "over_limit"
      [] OTHER                    -> "none"

WalkSkipsActive(v, form, role, st) ==   \* mutation: an active view counts as walked
    /\ Len(closure) < MaxEdges /\ Capture(v[1], role)
    /\ closure' = Append(closure, [form |-> form, view |-> v, body |-> BodyOf(v[1])])
    /\ ToWalk(IF v \in walked \cup Active THEN st ELSE Append(st, Opened(v)))
    /\ UNCHANGED <<namespace, walked>>

Walk(v, form, role, st) ==
    \/ WalkIssue(v, st) # "none" /\ Refuse(WalkIssue(v, st))
    \/ WalkIssue(v, st) = "none" /\ CaptureFails(v[1])
    \/ /\ WalkIssue(v, st) = "none"
       /\ Capture(v[1], role)
       /\ closure' = Append(closure, [form |-> form, view |-> v, body |-> BodyOf(v[1])])
       /\ ToWalk(IF v \in walked THEN st ELSE Append(st, Opened(v)))
       /\ UNCHANGED <<namespace, walked>>

(* The entry's file is a corner library whatever reached it before.        *)
StartWalk ==
    /\ phase = "library"
    /\ LET e == Entries[item] IN Walk(<<e.file, e.section>>, e.form, "corner", <<>>)

ReadsAll == TRUE   \* mutation: the lines of every section are read

Reads == Top.open = NoName \/ Top.open = Top.view[2]   \* the line is active

SectionLine ==
    /\ phase = "walk" /\ ~AtEnd
    /\ \/ /\ Here.kind = "open" /\ Top.open = NoName
          /\ ToWalk([Advanced EXCEPT ![Len(stack)].open = Here.name,
                                     ![Len(stack)].found = @ \/ Here.name = Top.view[2]])
          /\ UNCHANGED <<held, closure, namespace, walked>>
       \/ /\ Here.kind = "close" /\ Top.open # NoName /\ Here.name \in {NoName, Top.open}
          /\ ToWalk([Advanced EXCEPT ![Len(stack)].open = NoName])
          /\ UNCHANGED <<held, closure, namespace, walked>>
       \/ Here.kind = "open" /\ Top.open # NoName /\ Refuse("section_invalid")
       \/ Here.kind = "close" /\ Refuse("section_invalid")
          /\ ~(Top.open # NoName /\ Here.name \in {NoName, Top.open})

ContentLine ==
    /\ phase = "walk" /\ ~AtEnd /\ Here.kind \notin {"open", "close"}
    /\ \/ ~Reads /\ ToWalk(Advanced) /\ UNCHANGED <<held, closure, namespace, walked>>
       \/ /\ Reads /\ Here.kind = "model" /\ namespace' = namespace \cup {Here.name}
          /\ ToWalk(Advanced) /\ UNCHANGED <<held, closure, walked>>
       \/ Reads /\ Here.kind = "malformed" /\ Refuse("directive_invalid")
       \/ Reads /\ Links(Here) /\ source[Here.to] = Absent /\ Refuse("missing")
       \/ /\ Reads /\ Links(Here) /\ source[Here.to] # Absent
          /\ Walk(Selects(Here), Here.kind, "transitive", Advanced)

WalkEnd ==
    /\ phase = "walk" /\ AtEnd
    /\ \/ Top.open # NoName /\ Refuse("section_invalid")
       \/ Top.open = NoName /\ ~Top.found /\ Refuse("section_missing")
       \/ /\ Top.open = NoName /\ Top.found
          /\ walked' = walked \cup {Top.view}
          /\ ToWalk(Below) /\ UNCHANGED <<held, closure, namespace>>

-----------------------------------------------------------------------------
(* After the entries, each OSDI module; then the identity file, if any.    *)
CaptureModule ==
    /\ phase = "entry" /\ item > Len(Entries) /\ item - Len(Entries) <= Len(Modules)
    /\ LET f == Modules[item - Len(Entries)] IN
       \/ source[f] = Absent /\ Refuse("missing")
       \/ source[f] # Absent /\ CaptureFails(f)
       \/ /\ source[f] # Absent /\ Capture(f, "module") /\ item' = item + 1
          /\ UNCHANGED <<tree, closure, namespace, carried, walked, stack, phase, why>>

CaptureIdentity ==
    /\ phase = "entry" /\ item > Len(Entries) + Len(Modules)
    /\ \/ /\ Identity = Absent \/ source[Identity] = Absent
          /\ phase' = "captured" /\ UNCHANGED held
          /\ UNCHANGED <<tree, closure, namespace, carried, walked, stack, item, why>>
       \/ /\ Identity # Absent /\ source[Identity] # Absent
          /\ \/ CaptureFails(Identity)
             \/ /\ Capture(Identity, "identity") /\ phase' = "captured"
                /\ UNCHANGED <<tree, closure, namespace, carried, walked, stack, item, why>>

Ended == phase \in {"captured", "refused"}

(* Somebody changes, adds or removes a file of the installed tree.         *)
Edit(f) ==
    /\ ~Ended /\ edits < MaxEdits /\ edits' = edits + 1
    /\ \E b \in (Versions[f] \cup {Absent}) \ {source[f]} : source' = [source EXCEPT ![f] = b]
    /\ UNCHANGED <<held, closure, namespace, carried, walked, stack, item, phase, why>>

Finished == Ended /\ UNCHANGED vars

Step == \/ StartEntry \/ TransportLine \/ TransportEnd
        \/ StartWalk \/ SectionLine \/ ContentLine \/ WalkEnd
        \/ CaptureModule \/ CaptureIdentity

Next == Step \/ (\E f \in File : Edit(f)) \/ Finished

Spec == Init /\ [][Next]_vars

-----------------------------------------------------------------------------
(***************************************************************************)
(* What the captured bytes say, without the descents: a line is active in  *)
(* a view when every section open at it is the selected one.               *)
(***************************************************************************)
ActiveLine(b, s, i) ==
    \A j \in 1..(i-1) :
        (b[j].kind = "open" /\ \A k \in (j+1)..(i-1) : b[k].kind # "close") => b[j].name = s

ActiveLines(v) == {i \in DOMAIN captured[v[1]] : ActiveLine(captured[v[1]], v[2], i)}

Selected(v, i) == Selects(captured[v[1]][i])

Children(v) == {Selected(v, i) : i \in {j \in ActiveLines(v) : Links(captured[v[1]][j])}}

Models(v) == {captured[v[1]][i].name :
                 i \in {j \in ActiveLines(v) : captured[v[1]][j].kind = "model"}}

Recorded == {closure[i].view : i \in DOMAIN closure}
Roots    == {<<Entries[i].file, Entries[i].section>> : i \in DOMAIN Entries}

(* The variables have their types.                                         *)
TypeOK ==
    /\ source \in [File -> Body \cup {Absent}] /\ edits \in 0..MaxEdits
    /\ captured \in [File -> Body \cup {Absent}] /\ roles \in [File -> Role]
    /\ closure \in Seq([form : {"lib", "include"}, view : View, body : Body])
    /\ Len(closure) <= MaxEdges
    /\ namespace \subseteq Name /\ carried \subseteq File /\ walked \subseteq View
    /\ stack \in Seq(Frame) /\ item \in 1..(Len(Entries) + Len(Modules) + 1)
    /\ phase \in {"entry", "transport", "library", "walk", "captured", "refused"}
    /\ Len(stack) <= MaxDepth + 1

(***************************************************************************)
(* A captured closure is the whole of what the profile's entries reach in  *)
(* the captured bytes, and nothing else: the entries are recorded, the     *)
(* children of a recorded view are, every other recorded view is the child *)
(* of one, each with the bytes that were captured, and the namespace has   *)
(* the models of exactly those views (walk and closure_records).           *)
(***************************************************************************)
ClosureIsExact ==
    phase = "captured" =>
        /\ Roots \subseteq Recorded
        /\ \A v \in Recorded : Children(v) \subseteq Recorded
        /\ Recorded \subseteq Roots \cup UNION {Children(v) : v \in Recorded}
        /\ namespace = UNION {Models(v) : v \in Recorded}
        /\ \A i \in DOMAIN closure : closure[i].body = captured[closure[i].view[1]]

(***************************************************************************)
(* A captured closure has no cycle of views: every set of recorded views   *)
(* has one whose children are all outside it.                              *)
(***************************************************************************)
Rooted(S) == \E v \in S : Children(v) \cap S = {}

ClosureIsAcyclic ==
    phase = "captured" => \A S \in SUBSET Recorded : S # {} => Rooted(S)

(***************************************************************************)
(* The files of the snapshot are closed under what ngspice's preprocessor  *)
(* opens: the target of every include and .lib line of a captured library, *)
(* active or not, is captured too (capture_transport_closure).             *)
(***************************************************************************)
Library(f) == roles[f] \in {"parser", "transitive", "corner"}

SnapshotIsSelfContained ==
    phase = "captured" =>
        \A f \in File : Library(f) =>
            /\ captured[f] # Absent
            /\ \A i \in DOMAIN captured[f] :
                   Links(captured[f][i]) => captured[captured[f][i].to] # Absent

(***************************************************************************)
(* A refusal for a cycle is deserved: some captured files link to one      *)
(* another in a circle.  In particular the legal selection of another      *)
(* section of the same file by the walk is not taken for one.              *)
(***************************************************************************)
Linked(f) == {l \in {captured[f][i] : i \in DOMAIN captured[f]} : Links(l)}

CycleIsReal ==
    /\ why = "view_cycle" =>
           \E S \in SUBSET Recorded : S # {} /\ ~Rooted(S)
    /\ why = "file_cycle" =>
           \E S \in SUBSET Captured :
               /\ \A f \in S : \E l \in Linked(f) : l.to \in S
               /\ \E f \in S : \E l \in Linked(f) : l.kind = "include" /\ l.to \in S
(***************************************************************************)
(* The walk takes for a cycle what is one and nothing else, though it may  *)
(* meet a view, or a file, any number of times in any order.               *)
(***************************************************************************)
CyclesAreExact == ClosureIsAcyclic /\ CycleIsReal
=============================================================================
