----------------------------- MODULE BoxListing -----------------------------
(***************************************************************************)
(* What the manager of Exercise2/manager/manager.c prints of the reply to  *)
(* a request to list the boxes: the first places of the reply, sorted by   *)
(* name.  Places are numbered from 0.                                      *)
(***************************************************************************)
EXTENDS Integers, Sequences, SequencesExt

CONSTANT Rank        \* the place of each name in the order of strcmp

\* The pairs of places i < j in the order of the two loops.
Pairs(n) == FlattenSeq([i \in 1 .. n |-> [k \in 1 .. n - i |-> <<i, i + k>>]])

\* Mutant: the second box does not get the name of the first.
ExchangeHalf(list, pair) ==
  LET i == pair[1]
      j == pair[2]
  IN  IF Rank[list[i].box_name] > Rank[list[j].box_name]
      THEN [list EXCEPT ![i] = list[j], ![j] = [list[i] EXCEPT !.box_name = list[j].box_name]]
      ELSE list

\* Two boxes in the wrong order exchange their name, size and counts.
Exchange(list, pair) ==
  LET i == pair[1]
      j == pair[2]
  IN  IF Rank[list[i].box_name] > Rank[list[j].box_name]
      THEN [list EXCEPT ![i] = list[j], ![j] = list[i]]
      ELSE list

Organized(list) == FoldLeft(Exchange, list, Pairs(Len(list)))

\* The boxes that are taken are at their places in the broker's array, and
\* box_amount is their number: as many places are printed, from the first.
Listing(boxes, box_amount) == Organized([i \in 1 .. box_amount |-> boxes[i - 1]])
=============================================================================
