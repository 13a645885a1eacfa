----------------------------- MODULE MCPageLayout -----------------------------
(* Decks of up to MostCards distinct cards.  The first sizes of the code and *)
(* a largest size small enough for decks of three pages.                     *)
EXTENDS PageLayout, TLC

CONSTANT MostCards

DeckOfSize(n) == [i \in 1 .. n |-> i]
EveryDeckSize == {DeckOfSize(n) : n \in 0 .. MostCards}

(* The main deck is cards 1 and 2, the sideboard card 1 again. *)
SideboardedCard == {<<1, 2, 1>>}

RealSizes == << [w |-> 2, h |-> 2], [w |-> 3, h |-> 2], [w |-> 4, h |-> 3],
                [w |-> 5, h |-> 4], [w |-> 6, h |-> 4], [w |-> 7, h |-> 5],
                [w |-> 8, h |-> 6], [w |-> 9, h |-> 6] >>
RealLargest == [w |-> 10, h |-> 7]

FirstSizes == SubSeq(RealSizes, 1, 2)
SmallLargest == [w |-> 4, h |-> 2]

AllCards == 1 .. MostCards
=============================================================================
