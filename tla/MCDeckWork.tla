------------------------------ MODULE MCDeckWork ------------------------------
(* Redirections between three URLs with any answers.                         *)
(* Lists of two rows for decks of two cards instead of 100, and counts of    *)
(* two bits instead of eight: two red legends and a land with printings of   *)
(* every class.                                                              *)
(* Every graph over two cards of a deck and two printings of one token, one  *)
(* card with up to two tokens.                                               *)
(* Two loads of one card at the same time, of which one belongs to a render  *)
(* that has failed; three formats.                                           *)
(* Three renders of decks with four images, two of which may load at once.   *)
EXTENDS DeckWork, TLC

CONSTANTS u1, u2, u3, boss, partner, land, red, a, b, t1, t2, o1, o2, o3,
          l1, l2, image, r1, r2, r3

MCColors == boss :> {red} @@ partner :> {red} @@ land :> {}
Face(full, funny) == [full |-> full, funny |-> funny]
MCPrintings ==
  boss :> <<Face(FALSE, FALSE)>> @@ partner :> <<Face(FALSE, FALSE)>>
    @@ land :> <<Face(FALSE, FALSE), Face(TRUE, TRUE), Face(TRUE, FALSE), Face(TRUE, FALSE)>>

TwoPrintings == a :> o1 @@ b :> o2 @@ t1 :> o3 @@ t2 :> o3
OneWithTwo == [c \in Cards |-> IF c = a THEN 2 ELSE 1]

SameCard == [l \in Loads |-> image]
ThreeFormats == <<"png", "large", "small">>
=============================================================================
