----------------------------- MODULE IndexFile ------------------------------
(***************************************************************************)
(* What the file of an index promises to those who do not look at its      *)
(* words: the index a reader gets out of it (file), whether it ends in     *)
(* damage, behind which nothing is found (torn), and the block that was    *)
(* being written when the process died, which a later append may happen to *)
(* complete (lost).                                                        *)
(*                                                                         *)
(* HistorySync needs no more of it than that what was written is read      *)
(* again; ContactFiles, which has the words, implements all of it.         *)
(***************************************************************************)
EXTENDS Naturals

CONSTANTS Insert(_, _),   \* insert_block
          NoBlock         \* the index with no headers

Only(block, ids) == [i \in DOMAIN block \cap ids |-> block[i]]

Intact(index) == [file |-> index, torn |-> FALSE, lost |-> NoBlock]

\* Some headers of the torn block are found after all.
Healed(disk) ==
    {[disk EXCEPT !.file = Insert(@, Only(disk.lost, ids)), !.torn = torn] :
        ids \in SUBSET DOMAIN disk.lost, torn \in BOOLEAN}

\* save_block: to the end of the file.
Appended(disk, block) ==
    IF disk.torn THEN {d \in Healed(disk) : d.torn}
                 ELSE {[disk EXCEPT !.file = Insert(@, block)]}

\* The process dies in it.
AppendCut(disk, block) ==
    IF disk.torn THEN Healed(disk)
                 ELSE {disk, [disk EXCEPT !.torn = TRUE, !.lost = block]}

\* save_all rewrites the file; when the process dies in it, the headers with the
\* lowest ids are there.
SaveCut(index) ==
    {[file |-> Only(index, ids), torn |-> torn, lost |-> Only(index, rest)] :
        ids \in {{j \in DOMAIN index : j < i} : i \in DOMAIN index},
        rest \in SUBSET DOMAIN index, torn \in BOOLEAN}
=============================================================================
