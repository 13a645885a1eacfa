------------------------------- MODULE OldDecks -------------------------------
(***************************************************************************)
(* The commands import-old and cleanup (ttsmagic-server/src/importer.rs)   *)
(* beside the users of a running server.                                   *)
(*   import-old  copies the rows of the old system's decks, lists the old  *)
(*               decks that have no cards, and loads each of these from    *)
(*               its site in a transaction of its own;                     *)
(*   cleanup     lists all decks, and gives each the canonical URL of its  *)
(*               loader, or deletes it when the user has a deck there.     *)
(* load_deck stores what it loads under the canonical URL, so that an old  *)
(* deck whose URL is not canonical gets a second row.                      *)
(* The statements of cleanup are transactions of their own.  What a        *)
(* transaction of import-old has written, others wait for.  Rows differ    *)
(* in (user, URL); one user stands for all of them.                        *)
(***************************************************************************)
EXTENDS Naturals

CONSTANTS
  OldIds,       \* decks of the old system
  NewIds,       \* identifiers that load_deck can draw
  Urls, Canon,  \* the canonical URL of each, or Null: no loader knows it
  Null,
  MaxImports, MaxCleanups,      \* bounds: starts of either command
  MaxAdds, MaxDeletes           \* bounds: what the user does meanwhile

Ids == OldIds \cup NewIds
\* A deck without a row: its identifier was never drawn, or its row was deleted.
NoRow == {"unused", "gone"}

IdAssumption == /\ OldIds \cap NewIds = {} /\ Null \notin Ids \cup Urls
                /\ Urls \cap NoRow = {}
CanonAssumption == /\ Canon \in [Urls -> Urls \cup {Null}]
                   /\ \A u \in Urls : Canon[u] # Null => Canon[Canon[u]] = Canon[u]
BoundsAssumption == {MaxImports, MaxCleanups, MaxAdds, MaxDeletes} \subseteq Nat

VARIABLES
  old,          \* the URL each deck has in the old system
  row,          \* the URL of each deck, or that it has no row
  filled,       \* the decks with rows in deck_entry
  ipc, toLoad, target, deck,    \* import-old
  cpc, toCheck, checked,        \* cleanup
  imports, cleanups, adds, deletes,
  lost          \* history: canonical URLs at which the user lost cards:
                \* by a deletion, or by an import of theirs that failed

import == <<ipc, toLoad, target, deck>>
clean == <<cpc, toCheck, checked>>
counts == <<imports, cleanups, adds, deletes>>
vars == <<old, row, filled, import, clean, counts, lost>>

Loaded == {u \in Urls : Canon[u] = u}
Present(d) == row[d] \notin NoRow
At(u) == {d \in Ids : row[d] = u}

TypeOK ==
  /\ old \in [OldIds -> Urls]
  /\ row \in [Ids -> Urls \cup NoRow]
  /\ \A d, e \in Ids : Present(d) /\ row[d] = row[e] => d = e
  /\ filled \in SUBSET Ids
  /\ \A d \in filled : Present(d)
  /\ ipc \in {"idle", "insert", "list", "next", "select", "reset", "create", "load", "count",
              "ok", "failed", "panicked"}
  /\ toLoad \in SUBSET Urls
  /\ target \in Loaded \cup {Null}
  /\ deck \in Ids \cup {Null}
  /\ cpc \in {"idle", "next", "look", "delete", "fix", "ok", "failed"}
  /\ toCheck \in SUBSET (Ids \X Urls)
  /\ checked \in (Ids \X Urls) \cup {Null}
  /\ imports \in 0 .. MaxImports /\ cleanups \in 0 .. MaxCleanups
  /\ adds \in 0 .. MaxAdds /\ deletes \in 0 .. MaxDeletes
  /\ lost \in SUBSET Loaded

Init ==
  /\ old \in [OldIds -> Urls]
  /\ row = [d \in Ids |-> "unused"]
  /\ filled = {}
  /\ ipc = "idle" /\ toLoad = {} /\ target = Null /\ deck = Null
  /\ cpc = "idle" /\ toCheck = {} /\ checked = Null
  /\ imports = 0 /\ cleanups = 0 /\ adds = 0 /\ deletes = 0
  /\ lost = {}

\* What the open transaction of import-old has written.
Held(d) == ipc = "load" /\ deck = d
HeldUrl(u) == ipc = "load" /\ target = u

\* Identifiers are random: one that was never drawn stands for all of them.
Fresh == {d \in NewIds : row[d] = "unused" /\ ~Held(d)}
Drawn(d) == Fresh # {} /\ d = CHOOSE e \in Fresh : TRUE

Import(from, to) == ipc = from /\ ipc' = to
Idle(state) == state \in {"idle", "ok", "failed", "panicked"}
-----------------------------------------------------------------------------
(* import-old *)

StartImport ==
  /\ Idle(ipc) /\ imports < MaxImports
  /\ ipc' = "insert"
  /\ imports' = imports + 1
  /\ UNCHANGED <<old, row, filled, toLoad, target, deck, clean, cleanups, adds, deletes, lost>>

\* INSERT ... ON CONFLICT DO NOTHING: of several old decks with one URL, and of one
\* whose URL or identifier is taken, no row is made.
InsertOld ==
  /\ Import("insert", "list")
  /\ \E add \in SUBSET OldIds :
       LET free == {o \in OldIds : ~Present(o) /\ At(old[o]) = {}} IN
       /\ add \subseteq free
       /\ \A o, p \in add : old[o] = old[p] => o = p
       /\ \A o \in free : \E p \in add : old[p] = old[o]
       /\ row' = [d \in Ids |-> IF d \in add THEN old[d] ELSE row[d]]
  /\ UNCHANGED <<old, filled, toLoad, target, deck, clean, counts, lost>>

\* The old decks without cards, whether they have a row of their own or not.
ListOld ==
  /\ Import("list", "next")
  /\ toLoad' = {old[o] : o \in OldIds \ filled}
  /\ UNCHANGED <<old, row, filled, target, deck, clean, counts, lost>>

\* The next old deck; one that no loader knows ends the command.
NextOld ==
  /\ \E u \in toLoad :
       /\ toLoad' = toLoad \ {u}
       /\ target' = Canon[u]
       /\ Import("next", IF Canon[u] = Null THEN "failed" ELSE "select")
  /\ UNCHANGED <<old, row, filled, deck, clean, counts, lost>>

NoneLeft ==
  /\ toLoad = {}
  /\ Import("next", "ok")
  /\ UNCHANGED <<old, row, filled, toLoad, target, deck, clean, counts, lost>>

\* UnparsedDeck::save looks for the deck, and updates or inserts it.
SelectDeck ==
  /\ \/ /\ deck' \in At(target)
        /\ Import("select", "reset")
     \/ /\ At(target) = {}
        /\ deck' = Null
        /\ Import("select", "create")
  /\ UNCHANGED <<old, row, filled, toLoad, target, clean, counts, lost>>

\* The update is seen at the commit.  A deck that is gone by now is not missed until
\* its cards are inserted.
ResetDeck ==
  /\ Import("reset", IF Present(deck) THEN "load" ELSE "failed")
  /\ UNCHANGED <<old, row, filled, toLoad, target, deck, clean, counts, lost>>

CreateDeck ==
  /\ \/ /\ At(target) = {}
        /\ \E d \in NewIds : Drawn(d) /\ deck' = d
        /\ Import("create", "load")
     \/ /\ At(target) # {}
        /\ Import("create", "failed")
        /\ UNCHANGED deck
  /\ UNCHANGED <<old, row, filled, toLoad, target, clean, counts, lost>>

\* Mutant: the new deck gets the old URL's row and no cards.
CommitDeckEmpty ==
  /\ Import("load", "count")
  /\ row' = [row EXCEPT ![deck] = target]
  /\ UNCHANGED <<old, filled, toLoad, target, deck, clean, counts, lost>>

\* The site answered, the deck was rendered: commit.
CommitDeck ==
  /\ Import("load", "count")
  /\ row' = [row EXCEPT ![deck] = target]
  /\ filled' = filled \cup {deck}
  /\ UNCHANGED <<old, toLoad, target, deck, clean, counts, lost>>

\* assert!(count > 0), in a statement after the commit.
Count ==
  /\ Import("count", IF deck \in filled THEN "next" ELSE "panicked")
  /\ UNCHANGED <<old, row, filled, toLoad, target, deck, clean, counts, lost>>

\* An error of the site, the renderer or the database, or the end of the process.
ImportFails ==
  /\ ~Idle(ipc)
  /\ ipc' = "failed"
  /\ UNCHANGED <<old, row, filled, toLoad, target, deck, clean, counts, lost>>
-----------------------------------------------------------------------------
(* cleanup *)

Clean(from, to) == cpc = from /\ cpc' = to

StartCleanup ==
  /\ Idle(cpc) /\ cleanups < MaxCleanups
  /\ cpc' = "next"
  /\ toCheck' = {<<d, row[d]>> : d \in {e \in Ids : Present(e)}}
  /\ checked' = Null
  /\ cleanups' = cleanups + 1
  /\ UNCHANGED <<old, row, filled, import, imports, adds, deletes, lost>>

\* No loader, or the URL it would choose.
IsFine(u) == Canon[u] \in {Null, u}

NextCheck ==
  /\ \E t \in toCheck :
       /\ toCheck' = toCheck \ {t}
       /\ checked' = t
       /\ Clean("next", IF IsFine(t[2]) THEN "next" ELSE "look")
  /\ UNCHANGED <<old, row, filled, import, counts, lost>>

AllChecked ==
  /\ toCheck = {}
  /\ Clean("next", "ok")
  /\ UNCHANGED <<old, row, filled, import, toCheck, checked, counts, lost>>

Look ==
  /\ Clean("look", IF At(Canon[checked[2]]) # {} THEN "delete" ELSE "fix")
  /\ UNCHANGED <<old, row, filled, import, toCheck, checked, counts, lost>>

DeleteDuplicate ==
  LET d == checked[1] IN
  /\ Clean("delete", "next")
  /\ ~Held(d)
  /\ row' = IF Present(d) THEN [row EXCEPT ![d] = "gone"] ELSE row
  /\ filled' = filled \ {d}
  /\ UNCHANGED <<old, import, toCheck, checked, counts, lost>>

\* UPDATE of the URL: of a deck that is gone it changes nothing, and a URL that is
\* taken by now ends the command.
FixUrl ==
  LET d == checked[1]
      u == Canon[checked[2]] IN
  /\ cpc = "fix" /\ ~Held(d) /\ ~HeldUrl(u)
  /\ \/ /\ ~Present(d)
        /\ Clean("fix", "next")
        /\ UNCHANGED row
     \/ /\ Present(d) /\ At(u) \subseteq {d}
        /\ Clean("fix", "next")
        /\ row' = [row EXCEPT ![d] = u]
     \/ /\ Present(d) /\ ~(At(u) \subseteq {d})
        /\ Clean("fix", "failed")
        /\ UNCHANGED row
  /\ UNCHANGED <<old, filled, import, toCheck, checked, counts, lost>>

CleanupFails ==
  /\ ~Idle(cpc)
  /\ cpc' = "failed"
  /\ UNCHANGED <<old, row, filled, import, toCheck, checked, counts, lost>>
-----------------------------------------------------------------------------
(* The user: deck::load_deck and Deck::delete, statement by statement in      *)
(* DeckService.                                                               *)

\* An import that fails leaves a row without cards.
AddDeck(u) ==
  /\ adds < MaxAdds /\ adds' = adds + 1
  /\ ~HeldUrl(u)
  /\ \E d \in Ids : /\ \/ row[d] = u
                       \/ At(u) = {} /\ Drawn(d)
                    /\ row' = [row EXCEPT ![d] = u]
                    /\ \/ filled' = filled \cup {d} /\ UNCHANGED lost
                       \/ filled' = filled \ {d} /\ lost' = lost \cup {u}
  /\ UNCHANGED <<old, import, clean, imports, cleanups, deletes>>

DeleteDeck(d) ==
  /\ deletes < MaxDeletes /\ deletes' = deletes + 1
  /\ d \in filled /\ ~Held(d)
  /\ row' = [row EXCEPT ![d] = "gone"]
  /\ filled' = filled \ {d}
  /\ lost' = lost \cup {Canon[row[d]]}
  /\ UNCHANGED <<old, import, clean, imports, cleanups, adds>>
-----------------------------------------------------------------------------
ImportStep == \/ StartImport \/ InsertOld \/ ListOld \/ NextOld \/ NoneLeft \/ SelectDeck
              \/ ResetDeck \/ CreateDeck \/ CommitDeck \/ Count \/ ImportFails
CleanupStep == \/ StartCleanup \/ NextCheck \/ AllChecked \/ Look \/ DeleteDuplicate
               \/ FixUrl \/ CleanupFails
UserStep == \/ \E u \in Loaded : AddDeck(u)
            \/ \E d \in Ids : DeleteDeck(d)

Next == ImportStep \/ CleanupStep \/ UserStep

Spec == Init /\ [][Next]_vars
-----------------------------------------------------------------------------
\* When import-old reports success, every old deck has its cards under its canonical
\* URL, however many rows of it there are, whatever cleanup does to these meanwhile,
\* and however often both were started before (import_decks); unless the user lost them.
ImportIsComplete == ipc = "ok" =>
  \A o \in OldIds : Canon[old[o]] \in lost \/ \E d \in filled : row[d] = Canon[old[o]]

\* Neither command takes cards away: a deck that had some keeps them, whichever
\* step of either fails (load_tx; the DELETE of cleanup_deck).  This one and the
\* next are said of every step.
CardsKept == counts' = counts => filled \subseteq filled'

\* Neither command takes the last deck of a site away from a user: where there was
\* one, under whatever form of the URL, there is one still.
DecksKept ==
  \A u \in Loaded \ lost' :
    (\E d \in Ids : Present(d) /\ Canon[row[d]] = u)
      => \E d \in Ids : row'[d] \notin NoRow /\ Canon[row'[d]] = u

\* assert!(count > 0) holds unless the user was quicker than import-old.
PanicsHaveReason == ipc = "panicked" => lost # {}

=============================================================================
