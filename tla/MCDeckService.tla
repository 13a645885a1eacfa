---------------------------- MODULE MCDeckService ----------------------------
(* A deck with a main deck card and a sideboard card, which the site may    *)
(* replace by another list that shares a card with it.                      *)
EXTENDS DeckService, TLC

CONSTANTS m1, m2, s1

SmallPiles == m1 :> "main_deck" @@ m2 :> "main_deck" @@ s1 :> "sideboard"
TwoLists == {{m1, s1}, {m2, s1}}

(* A site that may also answer with a list that has no main deck. *)
WholeOrEmpty == {{m1}, {s1}}

Interchangeable ==
  Permutations(Requests) \cup Permutations(DeckIds) \cup Permutations(Users)
=============================================================================
