------------------------------ MODULE Storage -------------------------------
(***************************************************************************)
(* core::archive::storage (src/core/archive/storage.cpp): files of framed  *)
(* blocks.  A block is its size, twice, its payload, and its size, twice;  *)
(* the five are written one after the other, so that a process that dies   *)
(* leaves any beginning of them.                                           *)
(*                                                                         *)
(* A file is a sequence of words: a size, or a piece of a payload, which   *)
(* is never mistaken for a size.  Sizes are counted in words; positions    *)
(* count from 1, where the code's count from 0.                            *)
(***************************************************************************)
EXTENDS Integers, Sequences

CONSTANT MaxBlock     \* max_data_block_size()

ASSUME MaxBlockAssumption == MaxBlock \in Nat \ {0}

SizeWord(n) == [size |-> n, text |-> <<>>]
TextWord(x) == [size |-> 0, text |-> x]

\* What write_data_block appends for a payload.  An empty one is refused.
Frame(payload) ==
    LET s == SizeWord(Len(payload))
    IN  <<s, s>> \o [i \in DOMAIN payload |-> TextWord(payload[i])] \o <<s, s>>

\* What is on the disk when the process dies while it writes words to a file.
Torn(file, words) == {file \o SubSeq(words, 1, k) : k \in 0..(Len(words) - 1)}

\* The size word at p, 0 if it is not one or the file ends before it.
SizeAt(file, p) == IF p \in DOMAIN file THEN file[p].size ELSE 0

\* Whether a block starts at p whose sizes agree, and is there as a whole.
IsBlock(file, p) ==
    LET n == SizeAt(file, p) IN
    /\ n \in 1..MaxBlock /\ SizeAt(file, p + 1) = n
    /\ p + n + 3 <= Len(file)
    /\ SizeAt(file, p + n + 2) = n /\ SizeAt(file, p + n + 3) = n

Payload(file, p) == [i \in 1..file[p].size |-> file[p + 1 + i].text]
Behind(file, p) == p + file[p].size + 4

\* Mutant: a damaged block is skipped.
MutantReadAll(file) ==
    LET Read[p \in 1..(Len(file) + 1)] ==
            IF p = Len(file) + 1 THEN [blocks |-> <<>>, complete |-> TRUE]
            ELSE IF ~IsBlock(file, p) THEN [Read[p + 1] EXCEPT !.complete = FALSE]
            ELSE LET rest == Read[Behind(file, p)] IN
                 [rest EXCEPT !.blocks = <<Payload(file, p)>> \o @]
    IN Read[1]

\* The blocks read_data_block returns, one after the other, from position 1, and
\* whether the reading ended with error::end_of_file.
ReadAll(file) ==
    LET Read[p \in 1..(Len(file) + 1)] ==
            IF p = Len(file) + 1 THEN [blocks |-> <<>>, complete |-> TRUE]
            ELSE IF ~IsBlock(file, p) THEN [blocks |-> <<>>, complete |-> FALSE]
            ELSE LET rest == Read[Behind(file, p)] IN
                 [rest EXCEPT !.blocks = <<Payload(file, p)>> \o @]
    IN Read[1]

\* Mutant: the last block is taken for the end of the file.
MutantFastRead(file) ==
    LET Found[p \in 1..(Len(file) + 5)] ==
            LET n == SizeAt(file, p) IN
            IF p + 3 >= Len(file) THEN {}
            ELSE IF n \notin 1..MaxBlock \/ SizeAt(file, p + 1) # n THEN Found[p + 1]
            ELSE IF p + n + 3 >= Len(file) THEN {}
            ELSE IF ~IsBlock(file, p) THEN Found[p + 1]
            ELSE {p} \cup Found[Behind(file, p)]
    IN Found[1]

\* Where fast_read_data_block, called again and again, finds blocks: it looks for
\* the next position where one starts, and gives up at a block that would end
\* behind the end of the file.
FastRead(file) ==
    LET Found[p \in 1..(Len(file) + 5)] ==
            LET n == SizeAt(file, p) IN
            IF p + 3 >= Len(file) THEN {}
            ELSE IF n \notin 1..MaxBlock \/ SizeAt(file, p + 1) # n THEN Found[p + 1]
            ELSE IF p + n + 3 > Len(file) THEN {}
            ELSE IF ~IsBlock(file, p) THEN Found[p + 1]
            ELSE {p} \cup Found[Behind(file, p)]
    IN Found[1]
=============================================================================
