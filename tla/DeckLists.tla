------------------------------- MODULE DeckLists ------------------------------
(***************************************************************************)
(* From a deck site's answer to the entries of a deck                      *)
(* (ttsmagic-server/src/deck/loaders.rs, deck.rs, scryfall.rs): the rows   *)
(* are read one after the other into piles of oracle ids, the commanders   *)
(* are dug out of a Deckbox list, and each pile is expanded into printed   *)
(* cards.                                                                  *)
(*                                                                         *)
(* A row is what the three sites have in common: card, number of copies,   *)
(* whether it is marked as a commander (TappedOut's column, Archidekt's    *)
(* category; Deckbox has none) and the board.  "side" stands for an        *)
(* Archidekt category that is not included in the deck, "other" for        *)
(* TappedOut's maybe and acquire and for no such category.                 *)
(* The rows are chosen one by one, whatever the site answers; list keeps   *)
(* them for the properties only.                                           *)
(***************************************************************************)
EXTENDS Naturals, Sequences, FiniteSets, FiniteSetsExt

CONSTANTS
  Cards,            \* oracle ids
  Colors, ColorsOf, \* the colour identity of each card
  Legal, Leads,     \* cards legal in commander; that can be a commander
  Printings,        \* the English printings of each card, newest first
  MaxCopies,        \* 255: copies are u8
  DeckSize,         \* 100
  Wraps,            \* release build: u8 additions wrap; debug: they panic
  Bad,              \* a count that is no u8
  MaxRows           \* bound: rows of a list

Sites == {"deckbox", "tappedout", "archidekt"}
Rows == {r \in [card : Cards, count : 0 .. MaxCopies \cup {Bad}, commander : BOOLEAN,
                board : {"main", "side", "other"}] : r.commander => r.board = "main"}
PileNames == {"commander", "main_deck", "sideboard"}
Printed == UNION {{c} \X DOMAIN Printings[c] : c \in Cards}

ColorsAssumption == ColorsOf \in [Cards -> SUBSET Colors]
PrintingsAssumption ==
  \A c \in Cards : Printings[c] \in Seq([full : BOOLEAN, funny : BOOLEAN])
CopiesAssumption == MaxCopies \in Nat /\ DeckSize \in Nat \ {0}

VARIABLES
  site, list,       \* the site, and the rows read so far
  commanders,       \* oracle ids
  main, side,       \* piles: copies of each oracle id they have a key for
  entries,          \* deck_entry: copies of each printed card
  phase

piles == <<commanders, main, side>>
vars == <<site, list, piles, entries, phase>>

Piles == UNION {[S -> 0 .. MaxCopies] : S \in SUBSET Cards}

TypeOK ==
  /\ site \in Sites
  /\ list \in Seq(Rows) /\ Len(list) <= MaxRows
  /\ commanders \subseteq Cards
  /\ main \in Piles /\ side \in Piles
  /\ entries \in [PileNames -> [Printed -> 0 .. MaxCopies]]
  /\ phase \in {"rows", "extract", "expand", "done", "failed"}

Empty == [c \in {} |-> 0]
NoEntries == [p \in PileNames |-> [x \in Printed |-> 0]]

Init ==
  /\ site \in Sites
  /\ list = <<>>
  /\ commanders = {} /\ main = Empty /\ side = Empty
  /\ entries = NoEntries
  /\ phase = "rows"

Copies(pile, c) == IF c \in DOMAIN pile THEN pile[c] ELSE 0
Insert(pile, c, n) == [x \in DOMAIN pile \cup {c} |-> IF x = c THEN n ELSE pile[x]]
\* The sum of what f counts, as the size of the set that has one element for each.
Sum(f) == Cardinality(UNION {{x} \X (1 .. f[x]) : x \in DOMAIN f})
-----------------------------------------------------------------------------
(* The rows *)

Read(r) == /\ phase = "rows" /\ Len(list) < MaxRows
           /\ list' = Append(list, r)
           /\ UNCHANGED <<site, entries>>

\* HashMap::insert: a second row of a card replaces the first.
InsertInto(board, c, n) ==
  \/ board = "main" /\ main' = Insert(main, c, n) /\ UNCHANGED side
  \/ board = "side" /\ side' = Insert(side, c, n) /\ UNCHANGED main

DeckboxRow(r) ==
  /\ site = "deckbox" /\ ~r.commander
  /\ Read(r)
  /\ InsertInto(r.board, r.card, IF r.count = Bad THEN 0 ELSE r.count)
  /\ UNCHANGED <<commanders, phase>>

\* u8 addition
Add(n, k) == (n + k) % (MaxCopies + 1)

\* Mutant: a second row replaces the first here, too.
TappedOutRowReplaces(r) ==
  /\ site = "tappedout" /\ r.count # Bad
  /\ Read(r)
  /\ \/ /\ r.commander
        /\ commanders' = commanders \cup {r.card}
        /\ UNCHANGED <<main, side>>
     \/ /\ ~r.commander /\ r.board # "other"
        /\ InsertInto(r.board, r.card, r.count)
        /\ UNCHANGED commanders
     \/ /\ ~r.commander /\ r.board = "other"
        /\ UNCHANGED piles
  /\ UNCHANGED phase

TappedOutRow(r) ==
  /\ site = "tappedout" /\ r.count # Bad
  /\ Read(r)
  /\ \/ /\ r.commander
        /\ commanders' = commanders \cup {r.card}
        /\ UNCHANGED <<main, side, phase>>
     \/ /\ ~r.commander /\ r.board = "other"
        /\ UNCHANGED <<piles, phase>>
     \/ /\ ~r.commander /\ r.board # "other"
        /\ LET before == Copies(IF r.board = "main" THEN main ELSE side, r.card) IN
             \/ /\ Wraps \/ before + r.count <= MaxCopies
                /\ InsertInto(r.board, r.card, Add(before, r.count))
                /\ UNCHANGED <<commanders, phase>>
             \/ /\ ~Wraps /\ before + r.count > MaxCopies
                /\ phase' = "failed"
                /\ UNCHANGED piles

ArchidektRow(r) ==
  /\ site = "archidekt" /\ r.count # Bad
  /\ Read(r)
  /\ \/ /\ r.commander
        /\ commanders' = commanders \cup {r.card}
        /\ UNCHANGED <<main, side>>
     \/ /\ ~r.commander
        /\ InsertInto(IF r.board = "side" THEN "side" ELSE "main", r.card, r.count)
        /\ UNCHANGED commanders
  /\ UNCHANGED phase

\* The card's name is not in the database, or the answer cannot be parsed: a count
\* that is no u8 spoils a CSV or JSON list.
RowFails ==
  /\ phase = "rows" /\ phase' = "failed"
  /\ UNCHANGED <<site, list, piles, entries>>

EndOfRows ==
  /\ phase = "rows"
  /\ phase' = IF site = "deckbox" THEN "extract" ELSE "expand"
  /\ UNCHANGED <<site, list, piles, entries>>
-----------------------------------------------------------------------------
(* extract_commanders *)

DeckColors == UNION {ColorsOf[c] : c \in DOMAIN main}
Candidates == {c \in DOMAIN main : /\ main[c] = 1
                                   /\ c \in Leads
                                   /\ ColorsOf[c] = DeckColors}

CommanderDeck == Sum(main) = DeckSize /\ DOMAIN main \subseteq Legal

Extract ==
  /\ phase = "extract" /\ phase' = "expand"
  /\ LET found == IF CommanderDeck THEN Candidates ELSE {} IN
       /\ commanders' = found
       /\ main' = [c \in DOMAIN main \ found |-> main[c]]
  /\ UNCHANGED <<site, list, side, entries>>
-----------------------------------------------------------------------------
(* expand_oracle_id, expand_cards *)

Class(c, full, funny) ==
  {k \in DOMAIN Printings[c] : Printings[c][k] = [full |-> full, funny |-> funny]}

\* The printings to use: full art first, but not from joke sets if there are others.
Options(c) ==
  LET ranked == <<Class(c, TRUE, FALSE), Class(c, FALSE, FALSE),
                  Class(c, TRUE, TRUE), Class(c, FALSE, TRUE)>>
      some == {i \in 1 .. 4 : ranked[i] # {}}
  IN  IF some = {} THEN {} ELSE ranked[Min(some)]

\* The copies of each printing, dealt out in turn.
Expanded(c, n) ==
  LET place(k) == Cardinality({x \in Options(c) : x < k})
      turns(k) == {i \in 0 .. n - 1 : i % Cardinality(Options(c)) = place(k)}
  IN  [k \in DOMAIN Printings[c] |->
         IF k \in Options(c) THEN Cardinality(turns(k)) ELSE 0]

ExpandPile(pile) ==
  [x \in Printed |-> IF x[1] \in DOMAIN pile THEN Expanded(x[1], pile[x[1]])[x[2]] ELSE 0]

InPiles == commanders \cup DOMAIN main \cup DOMAIN side

\* save_cards: commanders, main deck and sideboard, and their entries.
Expand ==
  /\ phase = "expand"
  /\ \A c \in InPiles : Options(c) # {}
  /\ entries' = [p \in PileNames |->
       CASE p = "commander" -> ExpandPile([c \in commanders |-> 1])
         [] p = "main_deck" -> ExpandPile(main)
         [] p = "sideboard" -> ExpandPile(side)]
  /\ phase' = "done"
  /\ UNCHANGED <<site, list, piles>>

\* A card of the list has no English printing, or the database fails.
SaveFails ==
  /\ phase \in {"extract", "expand"}
  /\ phase' = "failed"
  /\ UNCHANGED <<site, list, piles, entries>>
-----------------------------------------------------------------------------
Next == \/ \E r \in Rows : DeckboxRow(r) \/ TappedOutRow(r) \/ ArchidektRow(r)
        \/ RowFails \/ EndOfRows \/ Extract \/ Expand \/ SaveFails

Spec == Init /\ [][Next]_vars
-----------------------------------------------------------------------------
\* The rows of the list that put card c on a board.
RowsFor(board, c) ==
  {i \in DOMAIN list : /\ list[i].card = c /\ ~list[i].commander
                       /\ \/ list[i].board = board
                          \/ /\ site = "archidekt" /\ board = "main"
                             /\ list[i].board = "other"}
CountIn(i) == IF list[i].count = Bad THEN 0 ELSE list[i].count
Total(board, c) == Sum([i \in RowsFor(board, c) |-> CountIn(i)])

\* The copies the list asks for: TappedOut's rows add up (modulo 256 in a release
\* build), on the other sites the last row of a card counts.
Wanted(board, c) ==
  LET rows == RowsFor(board, c) IN
  IF rows = {} THEN 0
  ELSE IF site = "tappedout"
       THEN Total(board, c) % (MaxCopies + 1)
       ELSE CountIn(Max(rows))

Saved(p, c) == Sum([k \in DOMAIN Printings[c] |-> entries[p][<<c, k>>]])

\* No copy of a card is lost or made up between the list and the entries, though it
\* passes through two piles, may become a commander, and is spread over several
\* printings (loaders, extract_commanders, expand_cards).
CopiesKept == phase = "done" => \A c \in Cards :
  /\ Saved("sideboard", c) = Wanted("side", c)
  /\ Saved("main_deck", c)
       + (IF site = "deckbox" THEN Saved("commander", c) ELSE 0) = Wanted("main", c)

\* Where overflow panics, TappedOut's rows of a card really add up: a list is saved as
\* it is, or not at all (entry.1 += row.count).
CopiesAddUp == ~Wraps /\ site = "tappedout" /\ phase = "done" => \A c \in Cards :
  /\ Saved("main_deck", c) = Total("main", c)
  /\ Saved("sideboard", c) = Total("side", c)

\* Copies are spread over the printings of the best class there is, and evenly
\* (expand_oracle_id).
EvenSpread == phase = "done" => \A p \in PileNames, c \in Cards :
  \A k, l \in DOMAIN Printings[c] :
    entries[p][<<c, k>>] > 0 =>
      /\ Printings[c][l].full /\ ~Printings[c][l].funny =>
           Printings[c][k] = Printings[c][l]
      /\ Printings[c][k].funny => Printings[c][l].funny
      /\ Printings[c][k] = Printings[c][l] =>
           entries[p][<<c, k>>] <= entries[p][<<c, l>>] + 1

\* A commander dug out of a Deckbox list leaves a legal deck of DeckSize cards, is in
\* no other pile but the sideboard, and has every colour of the deck
\* (extract_commanders).
CommandersFit == site = "deckbox" /\ phase \in {"expand", "done"} => \A c \in commanders :
  /\ c \notin DOMAIN main
  /\ Sum(main) + Cardinality(commanders) = DeckSize
  /\ \A d \in DOMAIN main \cup commanders : d \in Legal /\ ColorsOf[d] \subseteq ColorsOf[c]

=============================================================================
