----------------------------- MODULE RelatedTokens ----------------------------
(***************************************************************************)
(* The token pile of a deck (ttsmagic-server/src/tts.rs): get_tokens       *)
(* follows the related parts of the cards of main deck and sideboard, and  *)
(* of those parts in turn, with a work queue, and keeps one card of every  *)
(* oracle id it came to.  Related cards point back at each other, so the   *)
(* graph has cycles; the order of a card's parts and of cards with the     *)
(* same name is open.                                                      *)
(***************************************************************************)
EXTENDS Naturals, Sequences, FiniteSets, SequencesExt

CONSTANTS
  Cards,            \* printed cards
  DeckCards,        \* those a deck can have: tokens are none
  Oracles, OracleOf,
  MaxParts          \* bound: tokens of each card

Components == {"token", "meld_result", "meld_part", "combo_piece"}

OracleAssumption == OracleOf \in [Cards -> Oracles]
DeckAssumption == DeckCards \subseteq Cards /\ IsFiniteSet(Cards)
PartsAssumption == MaxParts \in [Cards -> Nat]

VARIABLES
  related,          \* all_parts of the cards: <<card, part, component>>
  deck,             \* the cards of main deck and sideboard
  queue,            \* work_queue
  seen,             \* seen_ids
  parts,            \* the card kept for each oracle id
  card, left,       \* the card at work, and its parts still to look at
  phase

graph == <<related, deck>>
vars == <<graph, queue, seen, parts, card, left, phase>>

\* get_parts: tokens and what the card melds into.
PartsOf(c) == {d \in Cards : \E k \in {"token", "meld_result"} : <<c, d, k>> \in related}

TypeOK ==
  /\ related \subseteq Cards \X Cards \X Components
  /\ deck \subseteq DeckCards
  /\ queue \in Seq(Cards)
  /\ seen \subseteq Cards
  /\ \A o \in DOMAIN parts : o \in Oracles /\ OracleOf[parts[o]] = o
  /\ card \in Cards \cup {"none"}
  /\ left \subseteq Cards
  /\ phase \in {"next", "parts", "done", "failed"}

\* Whatever is no token of a card is a combo piece.
Init ==
  /\ \E tokens \in [Cards -> SUBSET Cards] :
       /\ \A c \in Cards : Cardinality(tokens[c]) <= MaxParts[c]
       /\ related = {x \in Cards \X Cards \X {"token", "combo_piece"} :
                       x[3] = "token" <=> x[2] \in tokens[x[1]]}
  /\ deck \in (SUBSET DeckCards) \ {{}}
  /\ queue \in SetToSeqs(deck)
  /\ seen = {}
  /\ parts = [o \in {} |-> "none"]
  /\ card = "none" /\ left = {}
  /\ phase = "next"
-----------------------------------------------------------------------------
\* Take the next card, unless it was seen before.
NextCard ==
  /\ phase = "next" /\ queue # <<>>
  /\ queue' = Tail(queue)
  /\ \/ /\ Head(queue) \in seen
        /\ UNCHANGED <<seen, card, left, phase>>
     \/ /\ Head(queue) \notin seen
        /\ seen' = seen \cup {Head(queue)}
        /\ card' = Head(queue)
        /\ left' = PartsOf(Head(queue))
        /\ phase' = "parts"
  /\ UNCHANGED <<graph, parts>>

\* A part that was already worked on is passed over.
SkipPart(d) ==
  /\ phase = "parts" /\ d \in left \cap seen
  /\ left' = left \ {d}
  /\ UNCHANGED <<graph, queue, seen, parts, card, phase>>

AddPart(d) ==
  /\ phase = "parts" /\ d \in left \ seen
  /\ left' = left \ {d}
  /\ queue' = Append(queue, d)
  /\ parts' = [o \in DOMAIN parts \cup {OracleOf[d]} |->
                 IF o \in DOMAIN parts THEN parts[o] ELSE d]
  /\ UNCHANGED <<graph, seen, card, phase>>

\* The part is not in the database: card_by_id fails, and with it the whole render.
PartMissing(d) ==
  /\ phase = "parts" /\ d \in left \ seen
  /\ phase' = "failed"
  /\ UNCHANGED <<graph, queue, seen, parts, card, left>>

\* Mutant: cards are worked on again whenever they are met.
CardDoneForgotten ==
  /\ phase = "parts" /\ left = {}
  /\ seen' = seen \ {card}
  /\ phase' = "next"
  /\ UNCHANGED <<graph, queue, parts, card, left>>

CardDone ==
  /\ phase = "parts" /\ left = {}
  /\ phase' = "next"
  /\ UNCHANGED <<graph, queue, seen, parts, card, left>>

QueueEmpty ==
  /\ phase = "next" /\ queue = <<>>
  /\ phase' = "done"
  /\ UNCHANGED <<graph, queue, seen, parts, card, left>>

Next == \/ NextCard \/ CardDone \/ QueueEmpty
        \/ \E d \in Cards : SkipPart(d) \/ AddPart(d) \/ PartMissing(d)

\* One request computes it, without waiting for anybody but the database.
Spec == Init /\ [][Next]_vars /\ WF_vars(Next)
-----------------------------------------------------------------------------
\* What can be reached from the deck: the least set of cards that has the deck's and
\* the parts of its own (not the work queue of the code).
Complete(S) == deck \subseteq S /\ \A c \in S : PartsOf(c) \subseteq S
All == {c \in Cards : \A S \in SUBSET Cards : Complete(S) => c \in S}
Targets == UNION {PartsOf(c) : c \in All}
OraclesOf(S) == {OracleOf[c] : c \in S}

\* The token pile has one card for each part the deck leads to, however far away and
\* in whatever order; only parts that are cards of the deck themselves may or may
\* not be among them (get_tokens).
TokensComplete == phase = "done" =>
  /\ OraclesOf(Targets \ deck) \subseteq DOMAIN parts
  /\ \A o \in DOMAIN parts : parts[o] \in Targets

\* The search ends although related cards form cycles.
SearchEnds == <>(phase \in {"done", "failed"})
=============================================================================
