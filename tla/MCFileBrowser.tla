---------------------------- MODULE MCFileBrowser ----------------------------
EXTENDS FileBrowser, TLC

CONSTANTS top, sub, alias, e1, e2

\* A folder of two pages with two files, and one that has two spellings.
MCFolders == {top, sub, alias}
MCFiles == {e1, e2}
MCParent == [e \in MCFiles |-> top]
MCPages == (top :> 2) @@ (sub :> 1) @@ (alias :> 1)
MCMaxCalls == [k \in RequestKinds |-> IF k = "metadata" THEN 1 ELSE 2]
MCCanonical == (top :> top) @@ (sub :> sub) @@ (alias :> sub)
=============================================================================
