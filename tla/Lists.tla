--------------------------------- MODULE Lists ---------------------------------
(***************************************************************************)
(* Lists of the program that the specifications keep as sets with an       *)
(* order, and what list comprehensions make of them.                       *)
(***************************************************************************)
EXTENDS Integers, Sequences, FiniteSets

\* The members of S as the sequence that Before puts them into.
InOrder(S, Before(_, _)) ==
  [i \in 1..Cardinality(S) |->
     CHOOSE p \in S : Cardinality({q \in S : Before(q, p)}) = i - 1]

\* Those in S, in the order of the list.  (SelectSeq, written out as a function
\* the prover can reason about.)
Among(S, list) ==
  LET among[n \in 0..Len(list)] ==
        IF n = 0 THEN <<>>
        ELSE IF list[n] \in S THEN Append(among[n - 1], list[n]) ELSE among[n - 1]
  IN  among[Len(list)]
=============================================================================
