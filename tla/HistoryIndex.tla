---------------------------- MODULE HistoryIndex ----------------------------
(***************************************************************************)
(* The index of one contact's stored history: archive_index.cpp, with the  *)
(* part of contact_archive.cpp that decides what of a block enters it.     *)
(*                                                                         *)
(* An index maps message ids to headers.  A header links to the message    *)
(* before it; a patch of a message that is not stored is a header too,     *)
(* which waits for its message and is invisible to every walk.  The code's *)
(* id -1 is None.  A block that arrives holds messages and after them      *)
(* patches, both as headers by id: no id occurs twice in either part, so a *)
(* block is inserted at every id on its own.                               *)
(***************************************************************************)
EXTENDS Integers, FiniteSets

None == -1

Header(prev, patch, deleted) == [prev |-> prev, patch |-> patch, deleted |-> deleted]

Highest(S) == CHOOSE i \in S : \A j \in S : j <= i
Lowest(S) == CHOOSE i \in S : \A j \in S : i <= j

EmptyIndex == [i \in {} |-> Header(None, FALSE, FALSE)]
Only(index, ids) == [i \in DOMAIN index \cap ids |-> index[i]]

-----------------------------------------------------------------------------
(* Insertion. *)

\* Mutant: the flag that a message is deleted is taken from the new header.
MutantMergeWith(h, new) ==
    [prev    |-> IF new.prev # None \/ ~new.patch THEN new.prev ELSE h.prev,
     patch   |-> h.patch /\ new.patch,
     deleted |-> new.deleted]

\* merge_with: a patch has no link of its own and does not erase one, what was
\* deleted stays deleted, and a message in place of its patch is a message.
MergeWith(h, new) ==
    [prev    |-> IF new.prev # None \/ ~new.patch THEN new.prev ELSE h.prev,
     patch   |-> h.patch /\ new.patch,
     deleted |-> h.deleted \/ new.deleted]

\* insert_block.
InsertBlock(index, block) ==
    [i \in DOMAIN index \cup DOMAIN block |->
        IF i \notin DOMAIN block THEN index[i]
        ELSE IF i \notin DOMAIN index THEN block[i]
        ELSE MergeWith(index[i], block[i])]

\* What insert_block leaves in the block, which save_block then appends to the
\* file: the merged header, unless its message is deleted.
SavedBlock(index, block) ==
    [i \in DOMAIN block |->
        IF i \in DOMAIN index /\ ~MergeWith(index[i], block[i]).deleted
        THEN MergeWith(index[i], block[i]) ELSE block[i]]

\* The headers insert_history_block looks at: it skips what it has already.
News(index, block) ==
    {i \in DOMAIN block : i \notin DOMAIN index
                          \/ block[i].patch # index[i].patch
                          \/ block[i].prev # index[i].prev}

\* Those it accepts: what is deleted stays out, and a link into the deleted
\* part ends the list.
Accepted(index, delUpTo, block) ==
    [i \in {j \in News(index, block) : j > delUpTo} |->
        IF block[i].prev <= delUpTo THEN [block[i] EXCEPT !.prev = None] ELSE block[i]]

-----------------------------------------------------------------------------
(* Holes. *)

Kept(index) == {i \in DOMAIN index : ~index[i].patch}

\* The message before i in the index.
Below(index, i) ==
    LET lower == {j \in Kept(index) : j < i} IN
    IF lower = {} THEN None ELSE Highest(lower)

Broken(index, i) == index[i].prev # Below(index, i)

Hole(from, to, depth) == [from |-> from, to |-> to, depth |-> depth]
NoHole == [from |-> None, to |-> None, depth |-> None]

\* The walk of get_next_hole down from top: the first message that does not
\* link to the one before it, at most depth messages away.
HoleBelow(index, top, depth) ==
    LET walk == {i \in Kept(index) : i <= top}
        rank(i) == Cardinality({j \in walk : i <= j})
        holes == {i \in walk : Broken(index, i) /\ (depth = None \/ rank(i) <= depth)}
        first == Highest(holes)
        to == Below(index, first)
    IN IF holes = {} THEN NoHole
       ELSE Hole(first, to, IF to = None THEN 0 ELSE rank(first))

\* get_next_hole.  NoHole is its FALSE; the hole at the end has no from.
NextHole(index, from, depth) ==
    IF DOMAIN index = {} THEN Hole(None, None, 0)
    ELSE IF from > Highest(DOMAIN index) THEN Hole(None, Highest(DOMAIN index), 0)
    ELSE IF from # None /\ from \notin DOMAIN index THEN NoHole
    ELSE LET top == IF from = None THEN Highest(DOMAIN index) ELSE from IN
         IF {i \in Kept(index) : i <= top} = {} THEN Hole(None, None, 0)
         ELSE HoleBelow(index, top, depth)

\* validate_hole_request: where the search goes on after an answer.  A hole that
\* is still there is passed.
ValidateHoleRequest(index, hole, count) ==
    IF /\ hole.from > 0 /\ hole.to > 0 /\ count > 1
       /\ hole.from \in Kept(index)
       /\ Below(index, hole.from) # None
       /\ Broken(index, hole.from)
    THEN Below(index, hole.from) ELSE hole.from

-----------------------------------------------------------------------------
(* Deletion. *)

\* delete_up_to: in memory.
DeleteUpTo(index, to) ==
    LET rest == {i \in DOMAIN index : i > to}
        first == Lowest(rest)
        kept == Only(index, rest)
    IN IF to \in DOMAIN index /\ rest # {} /\ kept[first].prev = to
       THEN [kept EXCEPT ![first].prev = None]
       ELSE kept

\* It rewrites the file unless nothing was found to delete.
DeletesFromFile(index, to) == DOMAIN index = {} \/ DeleteUpTo(index, to) # index
=============================================================================
