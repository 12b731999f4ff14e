--------------------------- MODULE MCLdpcBitFlip ---------------------------
(***************************************************************************)
(* The matrix of the source; every block of weak decisions, where zero     *)
(* stands for a one, two blocks with one error in each, and bad lengths.   *)
(***************************************************************************)
EXTENDS LdpcBitFlip

Soft(bits) == [i \in 1 .. 12 |-> IF i \in bits THEN 0 ELSE -1]

MCInputs ==
       {Soft(bits) : bits \in SUBSET (1 .. 12)}
  \cup {Soft({i}) \o Soft({j}) : i, j \in {2, 7, 10}}
  \cup {<< >>, [i \in 1 .. 11 |-> 5], [i \in 1 .. 13 |-> 5]}

=============================================================================
