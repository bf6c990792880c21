--------------------------- MODULE MCPdkSnapshot ---------------------------
(***************************************************************************)
(* A library below the PDK's directory, the manifest at the root, and a    *)
(* place where nobody declared a file; one change affects one path, or all *)
(* the files at once.                                                      *)
(***************************************************************************)
EXTENDS PdkSnapshot

CONSTANTS lib, manifest, stray, pdk, root

MCOrder     == <<lib>>
MCDirs      == <<pdk, root>>
MCDirOf     == [p \in {lib, manifest, stray} |-> IF p = manifest THEN root ELSE pdk]
MCDisturbed == {{lib}, {manifest}, {stray}, {lib, manifest}}
=============================================================================
