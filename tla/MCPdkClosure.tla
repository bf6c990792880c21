---------------------------- MODULE MCPdkClosure ----------------------------
(***************************************************************************)
(* A small PDK: a corner library that may select its own sections, a cell  *)
(* library, a file the cells may include, an OSDI module and an identity.  *)
(***************************************************************************)
EXTENDS PdkClosure, TLC

CONSTANTS top, cells, spare, osdi, tag, tt, ff, m

L(k, f, n)  == [kind |-> k, to |-> f, name |-> n]
Include(f)  == L("include", f, NoName)
Select(f,n) == L("lib", f, n)
Open(n)     == L("open", top, n)
Close       == L("close", top, NoName)
Model       == L("model", top, m)
Malformed   == L("malformed", top, NoName)

MCFile == {top, cells, spare, osdi, tag}
MCName == {tt, ff, m}

MCVersions == (top   :> {<<Open(tt), Select(top, ff), Close, Open(ff), Include(cells), Close>>,
                         <<Open(tt), Select(top, ff), Close, Open(ff), Select(top, tt), Close>>,
                         <<Open(ff), Include(spare), Close, Open(tt), Include(cells), Close>>,
                         <<Include(cells), Open(tt), Select(cells, ff), Close>>,
                         <<Open(tt), Open(ff), Close>>, <<Open(tt)>>, <<Open(ff), Close>>} @@
               cells :> {<<Model>>, <<Model, Include(spare)>>, <<Open(ff), Include(spare), Model, Close>>,
                         <<Include(top)>>, <<L("close", top, ff)>>} @@
               spare :> {<<>>, <<Select(cells, ff)>>, <<Malformed>>} @@
               osdi  :> {<<>>} @@ tag :> {<<>>})

MCEntries == <<[file |-> top, form |-> "lib", section |-> tt],
               [file |-> cells, form |-> "include", section |-> NoName]>>
MCModules == <<osdi>>
=============================================================================
