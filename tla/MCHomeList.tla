----------------------------- MODULE MCHomeList ------------------------------
(***************************************************************************)
(* Two cards with one picture each, beside the one a card has before: two  *)
(* rows are enough for a row to become another card's.  Two generations:   *)
(* the list, and what a reload replaces it by or a search still shows.     *)
(***************************************************************************)
EXTENDS HomeList, TLC

Symmetry == Permutations(Uids) \cup Permutations(Gens)

\* While nobody searches, nothing reads filteredCards: the next search replaces
\* it.
View ==
    <<loaded, cards, gen, searching,
      IF searching THEN <<filtered, fgen>> ELSE <<>>,
      objects, display, loads, pushed, proposal>>
=============================================================================
