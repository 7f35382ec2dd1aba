----------------------------- MODULE Subsequence -----------------------------
(***************************************************************************)
(* The elements of a sequence at some of its positions, in their order:    *)
(* what a loop that appends the elements it keeps to a list collects.      *)
(*                                                                         *)
(* SelectSeq with a set of positions for its test, written as a function   *)
(* because the proof system has no definition of SelectSeq.                *)
(***************************************************************************)
EXTENDS Naturals, Sequences

Pick(s, kept) ==
  LET picked[i \in 0..Len(s)] ==
        IF i = 0 THEN <<>>
        ELSE IF i \in kept THEN Append(picked[i - 1], s[i]) ELSE picked[i - 1]
  IN  picked[Len(s)]

\* The tokens of a text that are of some types.
Places(text, types) == {i \in 1..Len(text) : text[i].t \in types}
Only(text, types) == Pick(text, Places(text, types))

\* The numbers from 1 to n that are in a set, in order.
Ascending(n, kept) == Pick([i \in 1..n |-> i], kept)
=============================================================================
