------------------------------ MODULE PageLayout ------------------------------
(***************************************************************************)
(* How a deck becomes pages of card faces and a Tabletop Simulator object  *)
(* (ttsmagic-server/src/tts.rs): make_pages draws the faces on pages in    *)
(* the order the image loads come in, save_pages stores the pages, and     *)
(* render_piles_to_json gives every card of every pile the id under which  *)
(* the game finds its face: 100 * <page, from 1> + <slot on the page>.     *)
(* The last slot of a page is the face the game shows of a hidden card.    *)
(*                                                                         *)
(* Slots are numbered row by row; a page keeps what each slot shows.  How  *)
(* often a pile holds a card makes no difference here and is left out.     *)
(***************************************************************************)
EXTENDS Integers, Sequences, FiniteSets

CONSTANTS
  Cards,            \* Scryfall ids
  Listings,         \* sequences of cards: the piles of a deck, one after the other
  SmallSizes,       \* VALID_WIDTH_HEIGHTS, as records [w, h], smallest first
  LargestSize,      \* the size of a page for which none of those is big enough
  Parallelism,      \* PARALLELISM of make_pages
  Hidden, Blank     \* what a slot shows that shows no card

Sizes == {SmallSizes[i] : i \in 1 .. Len(SmallSizes)} \cup {LargestSize}
Slots(size) == size.w * size.h

ASSUME SizeAssumption ==
  /\ SmallSizes \in Seq([w : Nat \ {0}, h : Nat \ {0}])
  /\ LargestSize \in [w : Nat \ {0}, h : Nat \ {0}]
  /\ \A s \in Sizes : Slots(s) >= 2 /\ Slots(s) <= 100
ASSUME ListingAssumption == Listings \subseteq Seq(Cards)
ASSUME FaceAssumption == Hidden \notin Cards /\ Blank \notin Cards /\ Hidden # Blank
ASSUME ParallelismAssumption == Parallelism \in Nat \ {0}

VARIABLES
  stage,        \* "layout", "saving", "described" or "failed"
  listing,      \* the cards of card_load_futures
  arrived,      \* the indices of listing whose image was placed
  pages,        \* page_images, and then the pages saved
  current,      \* current_page
  saved,        \* how many pages save_pages has stored
  deckIds       \* the ids of render_piles_to_json, by card

vars == <<stage, listing, arrived, pages, current, saved, deckIds>>

U16 == 65536   \* deck ids are u16

Faces == Cards \cup {Hidden, Blank}

IsPage(p) == /\ p.size \in Sizes
             /\ DOMAIN p.shows = 0 .. Slots(p.size) - 1
             /\ \A i \in DOMAIN p.shows : p.shows[i] \in Faces
             /\ DOMAIN p.slotOf \subseteq Cards
             /\ \A c \in DOMAIN p.slotOf : p.slotOf[c] \in 0 .. 255

TypeOK ==
  /\ stage \in {"layout", "saving", "described", "failed"}
  /\ listing \in Listings
  /\ arrived \subseteq 1 .. Len(listing)
  /\ \A i \in 1 .. Len(pages) : IsPage(pages[i])
  /\ IsPage(current)
  /\ saved \in 0 .. Len(pages)
  /\ DOMAIN deckIds \subseteq Cards
  /\ \A c \in DOMAIN deckIds : deckIds[c] \in 0 .. U16 - 1

\* Mutant: the slot of the hidden face is given away.
CapacityWithHidden(size) == Slots(size)

\* Room for cards beside the hidden face.
Capacity(size) == Slots(size) - 1

\* Mutant: a page that would be exactly full with one card more is taken too.
SizeForTooFew(expected) ==
  LET fits == {i \in 1 .. Len(SmallSizes) : expected <= Capacity(SmallSizes[i]) + 1}
  IN  IF fits = {} THEN LargestSize
      ELSE SmallSizes[CHOOSE i \in fits : \A j \in fits : i <= j]

\* Page::new: the first size with more room than is expected to be needed.
SizeFor(expected) ==
  LET fits == {i \in 1 .. Len(SmallSizes) : expected < Capacity(SmallSizes[i])}
  IN  IF fits = {} THEN LargestSize
      ELSE SmallSizes[CHOOSE i \in fits : \A j \in fits : i <= j]

NewPage(expected) ==
  LET size == SizeFor(expected)
  IN  [size |-> size,
       slotOf |-> [c \in {} |-> 0],
       shows |-> [i \in 0 .. Slots(size) - 1 |->
                    IF i = Slots(size) - 1 THEN Hidden ELSE Blank]]

\* card_mapping.len()
Used(page) == Cardinality(DOMAIN page.slotOf)

Init ==
  /\ stage = "layout"
  /\ listing \in Listings
  /\ arrived = {}
  /\ pages = <<>>
  /\ current = NewPage(Len(listing))
  /\ saved = 0
  /\ deckIds = [c \in {} |-> 0]

IsFull(page) == Used(page) >= Capacity(page.size)

\* Mutant: the slot is that of the card in the deck, not on the page.
DrawnAtDeckPosition(page, c) ==
  LET at == Cardinality(arrived)
  IN  [page EXCEPT !.shows = [@ EXCEPT ![at % Capacity(page.size)] = c],
                   !.slotOf = [x \in DOMAIN page.slotOf \cup {c} |->
                                 IF x = c THEN at ELSE page.slotOf[x]]]

\* The page with the face of c in its next slot.
Drawn(page, c) ==
  LET at == Used(page)
  IN  [page EXCEPT !.shows = [@ EXCEPT ![at % Capacity(page.size)] = c],
                   !.slotOf = [x \in DOMAIN page.slotOf \cup {c} |->
                                 IF x = c THEN at ELSE page.slotOf[x]]]

\* The loads in flight are the first Parallelism of those not yielded yet
\* (ParallelStream), and any of them may be the next to come in.
InFlight == {i \in 1 .. Len(listing) \ arrived :
               Cardinality({j \in 1 .. i - 1 : j \notin arrived}) < Parallelism}

\* One turn of the loop of make_pages, for the i-th future.
Place(i) ==
  /\ stage = "layout"
  /\ i \in InFlight
  /\ arrived' = arrived \cup {i}
  /\ IF IsFull(current)
     THEN /\ pages' = Append(pages, current)
          /\ current' = Drawn(NewPage(Len(listing) - Cardinality(arrived) - 1), listing[i])
     ELSE /\ current' = Drawn(current, listing[i])
          /\ UNCHANGED pages
  /\ UNCHANGED <<stage, listing, saved, deckIds>>

\* The stream is at its end: the last page is pushed if it holds a card.
FinishLayout ==
  /\ stage = "layout"
  /\ arrived = 1 .. Len(listing) /\ listing # <<>>
  /\ stage' = "saving"
  /\ pages' = IF Used(current) > 0 THEN Append(pages, current) ELSE pages
  /\ UNCHANGED <<listing, arrived, current, saved, deckIds>>

SavePage ==
  /\ stage = "saving"
  /\ saved < Len(pages)
  /\ saved' = saved + 1
  /\ UNCHANGED <<stage, listing, arrived, pages, current, deckIds>>

\* LinearPile
DeckId(p, slot) == (100 * p + slot) % U16

\* LinearPile reads the mappings of the pages in turn, so the last page that maps
\* a card decides.
Describe ==
  /\ stage = "saving"
  /\ saved = Len(pages)
  /\ stage' = "described"
  /\ deckIds' =
       [c \in UNION {DOMAIN pages[p].slotOf : p \in 1 .. Len(pages)} |->
          LET on == {p \in 1 .. Len(pages) : c \in DOMAIN pages[p].slotOf}
              last == CHOOSE p \in on : \A q \in on : q <= p
          IN  DeckId(last, pages[last].slotOf[c])]
  /\ UNCHANGED <<listing, arrived, pages, current, saved>>

\* An image cannot be loaded, a page cannot be saved, a publish fails, or there
\* is no card at all.
Fail ==
  /\ stage \in {"layout", "saving"}
  /\ stage' = "failed"
  /\ UNCHANGED <<listing, arrived, pages, current, saved, deckIds>>

Quiet == stage \in {"described", "failed"} /\ UNCHANGED vars

Next == \/ \E i \in 1 .. Len(listing) : Place(i)
        \/ FinishLayout \/ SavePage \/ Describe \/ Fail \/ Quiet

Spec == Init /\ [][Next]_vars

----------------------------------------------------------------------------
AllPages == {pages[p] : p \in 1 .. Len(pages)} \cup {current}

\* The face the game shows for a deck id: CustomDeck entry id / 100, slot id % 100.
FaceOf(id) ==
  LET p == id \div 100
  IN  IF p \in 1 .. Len(pages) /\ id % 100 \in DOMAIN pages[p].shows
      THEN pages[p].shows[id % 100] ELSE Blank

\* Every card of the deck shows its own face in the game, on whichever page and
\* in whichever order its image came in.
CardsShowTheirFace ==
  stage = "described" =>
    \A i \in 1 .. Len(listing) : /\ listing[i] \in DOMAIN deckIds
                                 /\ FaceOf(deckIds[listing[i]]) = listing[i]

\* The last slot of a page, which the game shows for a hidden card, never shows a
\* card of the deck.
HiddenFaceStays ==
  \A p \in AllPages : \A i \in DOMAIN p.shows :
    p.shows[i] = Hidden <=> i = Slots(p.size) - 1

\* A page is only followed by another if no page could hold more: the number of
\* cards expected when a page is sized is never too low.
OnlyLargestOverflow ==
  \A i \in 1 .. Len(pages) :
    i < Len(pages) \/ stage = "layout"
      => pages[i].size = LargestSize /\ Used(pages[i]) = Capacity(LargestSize)
=============================================================================
