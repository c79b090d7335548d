------------------------------ MODULE Listings ------------------------------
(***************************************************************************)
(* Lists made from a set, or from part of another list.                    *)
(***************************************************************************)
EXTENDS Integers, Sequences, FiniteSetsExt

\* A finite set put in some order.  Where the order is decided by what is not
\* modelled (the print of kubectl, the sort by a key or the loops of another
\* module), a list stands for all of them: the properties ask for its elements.
Listed(found) == FoldSet(LAMBDA f, list : Append(list, f), << >>, found)

\* What is left of a list when the elements at the given positions are kept, in
\* their order.
Sublist(list, kept) ==
  LET upTo[n \in 0 .. Len(list)] ==
        IF n = 0 THEN << >>
        ELSE IF n \in kept THEN Append(upTo[n - 1], list[n])
        ELSE upTo[n - 1]
  IN  upTo[Len(list)]

=============================================================================
