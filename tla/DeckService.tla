----------------------------- MODULE DeckService -----------------------------
(***************************************************************************)
(* The deck pipeline of the web server (ttsmagic-server/src/deck.rs,       *)
(* tts.rs, web/ws.rs, web/deck.rs): concurrent requests over the deck and  *)
(* deck_entry tables.                                                      *)
(*   import    the websocket's RenderDeck: load_deck (save the deck row,   *)
(*             fetch the list from the deck site, save the entries), then  *)
(*             Deck::render (wait for the render lock, render, store the   *)
(*             JSON);                                                      *)
(*   download  GET /decks/<id>.json: serve the stored JSON, or render the  *)
(*             deck first when there is none;                              *)
(*   delete    the websocket's DeleteDeck.                                 *)
(* No request opens a transaction: every SQL statement commits by itself   *)
(* and is one action here.  Any step may fail (database, Redis, deck site, *)
(* images, files): the request ends there, its earlier statements stand.   *)
(*                                                                         *)
(* An entry is a card in a pile, the key of deck_entry; the JSON of a deck *)
(* is the set of entries it was rendered from.  Copies, titles, colours    *)
(* and progress notifications do not influence these tables and are left   *)
(* out.                                                                    *)
(***************************************************************************)
EXTENDS Naturals

CONSTANTS
  Requests,         \* the requests the server handles, each once
  Users, Urls,
  DeckIds,          \* the uuids that will be drawn, all different
  Entries,
  PileOf,           \* the pile of each entry
  Contents,         \* the lists a deck site may answer with
  Unborn, Deleted,  \* a deck id not drawn yet; one whose row was deleted
  NoRequest, NoDeck, Null

Piles == {"commander", "main_deck", "sideboard"}
Keys == [user : Users, url : Urls]

ASSUME PileAssumption == PileOf \in [Entries -> Piles]
ASSUME ContentsAssumption == Contents \subseteq SUBSET Entries
ASSUME NullAssumption == /\ NoDeck \notin DeckIds
                         /\ \A s \in SUBSET Entries : s # Null
                         /\ \A k \in Keys : k # Unborn /\ k # Deleted
                         /\ Unborn # Deleted

VARIABLES
  row,      \* deck.user_id and deck.url of each deck row
  json,     \* deck.json
  entries,  \* the deck_entry rows of each deck
  pc, req,  \* where each request stands, and what it asks for
  mem,      \* the Deck each request has in memory
  todo,     \* the entries save_cards has still to insert
  phase,    \* the render lock, as RenderMutex specifies it
  mixed,    \* history: decks two requests worked on at once, one importing
  torn      \* history: decks whose last import failed half-way

db == <<row, json, entries>>
history == <<mixed, torn>>
vars == <<db, pc, req, mem, todo, phase, history>>

Mutex == INSTANCE RenderMutex WITH Clients <- Requests

Steps == {"idle", "select", "reset", "create", "clear", "parse", "reclear", "insert",
          "wait", "render", "store", "fetch", "drop", "tell", "done", "failed"}
Asks == [op : {"import"}, user : Users, url : Urls]
          \cup [op : {"download", "delete"}, user : Users, id : DeckIds]

TypeOK ==
  /\ row \in [DeckIds -> Keys \cup {Unborn, Deleted}]
  /\ json \in [DeckIds -> {Null} \cup SUBSET Entries]
  /\ entries \in [DeckIds -> SUBSET Entries]
  /\ pc \in [Requests -> Steps]
  /\ req \in [Requests -> Asks \cup {NoRequest}]
  /\ mem \in [Requests -> [id : DeckIds \cup {NoDeck}, cards : SUBSET Entries]]
  /\ todo \in [Requests -> SUBSET Entries]
  /\ phase \in [Requests -> {"out", "waiting", "holding"}]
  /\ mixed \in SUBSET DeckIds
  /\ torn \in SUBSET DeckIds

Init ==
  /\ row = [d \in DeckIds |-> Unborn]
  /\ json = [d \in DeckIds |-> Null]
  /\ entries = [d \in DeckIds |-> {}]
  /\ pc = [t \in Requests |-> "idle"]
  /\ req = [t \in Requests |-> NoRequest]
  /\ mem = [t \in Requests |-> [id |-> NoDeck, cards |-> {}]]
  /\ todo = [t \in Requests |-> {}]
  /\ Mutex!Init
  /\ mixed = {}
  /\ torn = {}

----------------------------------------------------------------------------
Present(d) == row[d] \in Keys
Ended(t) == pc[t] \in {"idle", "done", "failed"}
WorksOn(t, d) == ~Ended(t) /\ mem[t].id = d

\* Two requests that use the entries of one deck at the same time, of which one
\* rewrites them.
Mixes(t, s) == /\ req[t].op # "delete" /\ req[s].op # "delete"
               /\ "import" \in {req[t].op, req[s].op}

\* Request t gets hold of deck d (history variable only).
NoteUse(t, d) ==
  mixed' = IF \E s \in Requests \ {t} : WorksOn(s, d) /\ Mixes(t, s)
           THEN mixed \cup {d} ELSE mixed

Goto(t, from, to) == /\ pc[t] = from
                     /\ pc' = [pc EXCEPT ![t] = to]

\* Mutant: the guard outlives the request.
AbortKeepsGuard(t) ==
  /\ pc' = [pc EXCEPT ![t] = "failed"]
  /\ UNCHANGED <<db, req, mem, todo, phase, history>>

\* An early return: the guard of the render lock, if held, is dropped with the
\* request's stack.
Abort(t) ==
  /\ pc' = [pc EXCEPT ![t] = "failed"]
  /\ phase' = [phase EXCEPT ![t] = "out"]
  /\ torn' = IF /\ req[t].op = "import"
                /\ pc[t] \in {"clear", "parse", "reclear", "insert", "render", "store"}
             THEN torn \cup {mem[t].id} ELSE torn
  /\ UNCHANGED <<db, req, mem, todo, mixed>>

----------------------------------------------------------------------------
(* import: load_deck, UnparsedDeck::save, save_cards *)

StartImport(t) ==
  /\ Goto(t, "idle", "select")
  /\ \E u \in Users, l \in Urls :
       req' = [req EXCEPT ![t] = [op |-> "import", user |-> u, url |-> l]]
  /\ UNCHANGED <<db, mem, todo, phase, history>>

\* SELECT id, title FROM deck WHERE user_id = $1 AND url = $2
Matches(t) == {d \in DeckIds : row[d] = [user |-> req[t].user, url |-> req[t].url]}

SelectFound(t) ==
  /\ Goto(t, "select", "reset")
  /\ \E d \in Matches(t) :
       /\ mem' = [mem EXCEPT ![t] = [id |-> d, cards |-> {}]]
       /\ NoteUse(t, d)
  /\ UNCHANGED <<db, req, todo, phase, torn>>

SelectNone(t) == /\ Goto(t, "select", "create")
                 /\ Matches(t) = {}
                 /\ UNCHANGED <<db, req, mem, todo, phase, history>>

\* Mutant: a known deck keeps the JSON of its previous list.
ResetNothing(t) == /\ Goto(t, "reset", "clear")
                   /\ UNCHANGED <<db, req, mem, todo, phase, history>>

\* UPDATE deck SET json = NULL WHERE id: no error if the row is gone.
Reset(t) == /\ Goto(t, "reset", "clear")
            /\ json' = [json EXCEPT ![mem[t].id] = Null]
            /\ UNCHANGED <<row, entries, req, mem, todo, phase, history>>

\* Mutant: the table has no UNIQUE (user_id, url).
CreateTwice(t) ==
  /\ Goto(t, "create", "clear")
  /\ \E d \in DeckIds :
       /\ row[d] = Unborn
       /\ row' = [row EXCEPT ![d] = [user |-> req[t].user, url |-> req[t].url]]
       /\ mem' = [mem EXCEPT ![t] = [id |-> d, cards |-> {}]]
  /\ UNCHANGED <<json, entries, req, todo, phase, history>>

\* INSERT INTO deck with a fresh uuid
Create(t) ==
  /\ Goto(t, "create", "clear")
  /\ Matches(t) = {}
  /\ \E d \in DeckIds :
       /\ row[d] = Unborn
       /\ row' = [row EXCEPT ![d] = [user |-> req[t].user, url |-> req[t].url]]
       /\ mem' = [mem EXCEPT ![t] = [id |-> d, cards |-> {}]]
  /\ UNCHANGED <<json, entries, req, todo, phase, history>>

\* ... which UNIQUE (user_id, url) refuses: another import was faster.
CreateConflict(t) == /\ pc[t] = "create"
                     /\ Matches(t) # {}
                     /\ Abort(t)

\* DELETE FROM deck_entry, then DeckParseStarted
Clear(t) == /\ Goto(t, "clear", "parse")
            /\ entries' = [entries EXCEPT ![mem[t].id] = {}]
            /\ UNCHANGED <<row, json, req, mem, todo, phase, history>>

\* DeckParser::parse_deck fetches and parses the list.
Parse(t) == /\ Goto(t, "parse", "reclear")
            /\ \E c \in Contents : mem' = [mem EXCEPT ![t].cards = c]
            /\ UNCHANGED <<db, req, todo, phase, history>>

\* save_cards: UPDATE title, DELETE FROM deck_entry, expand the cards
Reclear(t) == /\ Goto(t, "reclear", "insert")
              /\ entries' = [entries EXCEPT ![mem[t].id] = {}]
              /\ todo' = [todo EXCEPT ![t] = mem[t].cards]
              /\ UNCHANGED <<row, json, req, mem, phase, history>>

\* The commanders go in first, then the main deck, then the sideboard.
Rank(e) == CASE PileOf[e] = "commander" -> 1
             [] PileOf[e] = "main_deck" -> 2
             [] PileOf[e] = "sideboard" -> 3
Foremost(es) == {e \in es : \A f \in es : Rank(e) <= Rank(f)}

\* The foreign key needs the deck row, the primary key a new (card, pile).
Insertable(d, e) == Present(d) /\ e \notin entries[d]

InsertEntry(t) ==
  /\ pc[t] = "insert"
  /\ \E e \in Foremost(todo[t]) :
       /\ Insertable(mem[t].id, e)
       /\ entries' = [entries EXCEPT ![mem[t].id] = @ \cup {e}]
       /\ todo' = [todo EXCEPT ![t] = @ \ {e}]
  /\ UNCHANGED <<row, json, pc, req, mem, phase, history>>

InsertConflict(t) ==
  /\ pc[t] = "insert"
  /\ \E e \in Foremost(todo[t]) : ~Insertable(mem[t].id, e)
  /\ Abort(t)

\* Mutant: the deck goes to render before its last entry is in.
ParsedEarly(t) == /\ Goto(t, "insert", "wait")
                  /\ Mutex!Request(t)
                  /\ UNCHANGED <<db, req, mem, todo, history>>

\* The colour identity is read, DeckParsed sent, and the deck goes to render.
Parsed(t) == /\ Goto(t, "insert", "wait")
             /\ todo[t] = {}
             /\ Mutex!Request(t)
             /\ UNCHANGED <<db, req, mem, todo, history>>

----------------------------------------------------------------------------
(* Deck::render *)

LockGranted(t) == /\ Goto(t, "wait", "render")
                  /\ Mutex!Acquire(t)
                  /\ UNCHANGED <<db, req, mem, todo, history>>

MainDeck(cards) == {e \in cards : PileOf[e] = "main_deck"}

\* render_deck builds the JSON, sends Rendered and returns, which drops the guard.
Render(t) == /\ Goto(t, "render", "store")
             /\ MainDeck(mem[t].cards) # {}
             /\ Mutex!Release(t)
             /\ UNCHANGED <<db, req, mem, todo, history>>

\* "Tried to collect an empty deck"
RenderEmpty(t) == /\ pc[t] = "render"
                  /\ MainDeck(mem[t].cards) = {}
                  /\ Abort(t)

\* Mutant: the JSON is upserted.
StoreUpserts(t) ==
  LET d == mem[t].id
  IN  /\ Goto(t, "store", "done")
      /\ json' = [json EXCEPT ![d] = mem[t].cards]
      /\ torn' = IF req[t].op = "import" THEN torn \ {d} ELSE torn
      /\ UNCHANGED <<row, entries, req, mem, todo, phase, mixed>>

\* UPDATE deck SET json = $1 WHERE id: no error if the row is gone.
Store(t) ==
  LET d == mem[t].id
  IN  /\ Goto(t, "store", "done")
      /\ json' = IF Present(d) THEN [json EXCEPT ![d] = mem[t].cards] ELSE json
      /\ torn' = IF req[t].op = "import" THEN torn \ {d} ELSE torn
      /\ UNCHANGED <<row, entries, req, mem, todo, phase, mixed>>

----------------------------------------------------------------------------
(* download and delete *)

StartOnDeck(t) ==
  /\ Goto(t, "idle", "fetch")
  /\ \E o \in {"download", "delete"}, u \in Users, d \in DeckIds :
       /\ row[d] # Unborn
       /\ req' = [req EXCEPT ![t] = [op |-> o, user |-> u, id |-> d]]
  /\ UNCHANGED <<db, mem, todo, phase, history>>

\* Deck::get_by_id joins deck_entry: a deck without entries is not found.
Found(d) == Present(d) /\ entries[d] # {}

\* Mutant: the owner is not compared.
AnyoneMayUse(t) == Found(req[t].id)

MayUse(t) == Found(req[t].id) /\ row[req[t].id].user = req[t].user

FetchRefused(t) == /\ pc[t] = "fetch"
                   /\ ~MayUse(t)
                   /\ Abort(t)

FetchForDelete(t) ==
  LET d == req[t].id
  IN  /\ Goto(t, "fetch", "drop")
      /\ MayUse(t) /\ req[t].op = "delete"
      /\ mem' = [mem EXCEPT ![t] = [id |-> d, cards |-> entries[d]]]
      /\ UNCHANGED <<db, req, todo, phase, history>>

\* Mutant: a JSON that is not there is served as the JSON value null.
FetchUnchecked(t) ==
  LET d == req[t].id
  IN  /\ Goto(t, "fetch", "done")
      /\ MayUse(t) /\ req[t].op = "download"
      /\ mem' = [mem EXCEPT ![t] = [id |-> d, cards |-> IF json[d] = Null THEN {Null} ELSE json[d]]]
      /\ UNCHANGED <<db, req, todo, phase, history>>

\* The stored JSON is served.
FetchRendered(t) ==
  LET d == req[t].id
  IN  /\ Goto(t, "fetch", "done")
      /\ MayUse(t) /\ req[t].op = "download" /\ json[d] # Null
      /\ mem' = [mem EXCEPT ![t] = [id |-> d, cards |-> json[d]]]
      /\ UNCHANGED <<db, req, todo, phase, history>>

\* There is none: the entries just read are rendered.
FetchUnrendered(t) ==
  LET d == req[t].id
  IN  /\ Goto(t, "fetch", "wait")
      /\ MayUse(t) /\ req[t].op = "download" /\ json[d] = Null
      /\ mem' = [mem EXCEPT ![t] = [id |-> d, cards |-> entries[d]]]
      /\ NoteUse(t, d)
      /\ Mutex!Request(t)
      /\ UNCHANGED <<db, req, todo, torn>>

\* DELETE FROM deck WHERE id, which cascades to deck_entry
Drop(t) ==
  LET d == mem[t].id
  IN  /\ Goto(t, "drop", "tell")
      /\ row' = [row EXCEPT ![d] = Deleted]
      /\ json' = [json EXCEPT ![d] = Null]
      /\ entries' = [entries EXCEPT ![d] = {}]
      /\ UNCHANGED <<req, mem, todo, phase, history>>

\* DeckDeleted is published.
Tell(t) == /\ Goto(t, "tell", "done")
           /\ UNCHANGED <<db, req, mem, todo, phase, history>>

----------------------------------------------------------------------------
\* A statement, a publish, a fetch or a file operation fails.  Polling for the
\* lock has nothing that can fail.
Fault(t) == /\ ~Ended(t) /\ pc[t] # "wait"
            /\ Abort(t)

ImportStep(t) == \/ SelectFound(t) \/ SelectNone(t) \/ Reset(t)
                 \/ Create(t) \/ CreateConflict(t) \/ Clear(t)
                 \/ Parse(t) \/ Reclear(t)
                 \/ InsertEntry(t) \/ InsertConflict(t) \/ Parsed(t)
RenderStep(t) == LockGranted(t) \/ Render(t) \/ RenderEmpty(t) \/ Store(t)
FetchStep(t) == \/ FetchRefused(t) \/ FetchForDelete(t)
                \/ FetchRendered(t) \/ FetchUnrendered(t)
                \/ Drop(t) \/ Tell(t)
Step(t) == ImportStep(t) \/ RenderStep(t) \/ FetchStep(t)

\* Nothing is left to do in this model.
Quiet == /\ \A t \in Requests : pc[t] \in {"done", "failed"}
         /\ UNCHANGED vars

Next == \/ \E t \in Requests : StartImport(t) \/ StartOnDeck(t) \/ Step(t) \/ Fault(t)
        \/ Quiet

Spec == Init /\ [][Next]_vars

\* A request under way goes on; it may fail, but nothing says it must.
FairSpec == Spec /\ \A t \in Requests : WF_vars(Step(t))

----------------------------------------------------------------------------
(* Properties *)

\* As long as no two requests got mixed up on a deck, its JSON, when there is any,
\* is a rendering of exactly the entries the database has for it: also during an
\* import, after imports that failed, and after downloads of what those left.
JsonMatchesEntries ==
  \A d \in DeckIds \ mixed : Present(d) => json[d] \in {Null, entries[d]}

\* However many first imports of a URL a user starts at once, one deck comes of them
\* (SELECT and INSERT are two statements).
OneDeckPerUrl == \A d, e \in DeckIds : Present(d) /\ row[e] = row[d] => e = d

\* A deck nobody works on, never mixed up and whose last import did not fail is
\* whole: it has all the entries of a list the deck site gave, and its JSON.
\* Mixed up or not, it is its user's only deck for the URL.
CleanDecksAreWhole ==
  /\ OneDeckPerUrl
  /\ \A d \in DeckIds \ (mixed \cup torn) :
       Present(d) /\ (\A t \in Requests : ~WorksOn(t, d))
         => entries[d] \in Contents /\ json[d] = entries[d]

\* A deck whose delete request was carried out has no row and no entries, and
\* imports and renders of it still under way do not bring any of them back.
DeletedStaysDeleted ==
  \A t \in Requests :
    req[t] # NoRequest /\ req[t].op = "delete" /\ pc[t] \in {"tell", "done"}
      => row[req[t].id] = Deleted /\ entries[req[t].id] = {} /\ json[req[t].id] = Null

\* A request changes only decks of the user it runs for.
OnlyOwnerTouches ==
  [][\A t \in Requests, d \in DeckIds :
       /\ Step(t)
       /\ <<row[d], json[d], entries[d]>> # <<row'[d], json'[d], entries'[d]>>
       => \E k \in Keys \cap {row[d], row'[d]} : k.user = req[t].user]_vars

\* Every request comes to an end: none waits for ever for a lock that a finished
\* or failed request did not give back.
EveryRequestEnds ==
  \A t \in Requests : pc[t] # "idle" ~> pc[t] \in {"done", "failed"}
=============================================================================
