------------------------------ MODULE UserEvents ------------------------------
(***************************************************************************)
(* What a browser shows of its user's decks, against the tables            *)
(* (ttsmagic-server/src/deck.rs, notify.rs, web/ws.rs; ttsmagic-frontend/  *)
(* src/ws.rs, deck_list.rs).                                               *)
(*                                                                         *)
(*   jobs --publish--> Redis channel --+                                   *)
(*                                     +--select!--> websocket --> browser *)
(*   GetDecks --> task --> handle sink-+                                   *)
(*                                                                         *)
(* The browser asks for the list once, when the page is loaded, and from   *)
(* then on follows the notifications.  Jobs are the requests of all the    *)
(* user's pages and downloads (DeckService has them in detail); a job may  *)
(* fail at any step.  Either way of the select! may be taken first, the    *)
(* connection may break, and so may the one to Redis.                      *)
(***************************************************************************)
EXTENDS Naturals, Sequences, FiniteSets

CONSTANTS
  Decks,            \* deck ids
  NoDeck,
  MaxJobs,          \* bound: imports, downloads and deletions
  MaxBreaks         \* bound: connections that break, and reloads of the page; a
                    \* job that is started takes the place of two of them

ASSUME NoDeckAssumption == NoDeck \notin Decks
ASSUME BoundsAssumption == MaxJobs \in Nat /\ MaxBreaks \in Nat

\* Jobs are numbered in the order in which they start.
Jobs == 1 .. MaxJobs

VARIABLES
  present, listed, json,    \* decks with a row, with entries, with a JSON
  drawn,                    \* deck ids in use
  pc, op, deck,             \* the jobs
  sub,                      \* the connection's subscription
  channel,                  \* notifications Redis has for it
  answer,                   \* the handle sink: at most the list
  wire,                     \* the websocket, towards the browser
  socket, ask,              \* the browser's socket, and its GetDecks
  loaded, shown, busy, link,\* DeckList: decks shown, not Complete, rendered
  breaks,
  doubt                     \* history: decks the browser may be wrong about

tables == <<present, listed, json, drawn>>
jobs == <<pc, op, deck>>
screen == <<loaded, shown, busy, link>>
connection == <<sub, channel, answer, wire, socket, ask>>
vars == <<tables, jobs, screen, connection, breaks, doubt>>

Notes == [type : {"Started", "Parsed", "Progress", "Rendered", "Deleted"}, deck : Decks]
Lists == {l \in [type : {"DeckList"}, shown : SUBSET Decks, link : SUBSET Decks] :
            l.link \subseteq l.shown}

TypeOK ==
  /\ present \subseteq drawn /\ drawn \subseteq Decks
  /\ listed \subseteq present /\ json \subseteq present
  /\ pc \in [Jobs -> {"idle", "write", "start", "save", "parsed", "render", "finish",
                      "store", "drop", "tell", "done", "failed"}]
  /\ op \in [Jobs -> {"none", "import", "download", "delete"}]
  /\ deck \in [Jobs -> Decks \cup {NoDeck}]
  /\ sub \in {"none", "on", "off"}
  /\ channel \in Seq(Notes)
  /\ answer \in Seq(Lists) /\ Len(answer) <= 1
  /\ wire \in Seq(Notes \cup Lists)
  /\ socket \in {"connecting", "open"}
  /\ ask \in {"pending", "sent", "taken", "answered", "lost"}
  /\ loaded \in BOOLEAN
  /\ shown \subseteq Decks /\ busy \subseteq shown /\ link \subseteq shown
  /\ breaks \in 0 .. MaxBreaks
  /\ doubt \subseteq Decks

\* The page has just been loaded.
Init ==
  /\ drawn \in SUBSET Decks
  /\ present = drawn /\ listed = drawn
  /\ json \in SUBSET drawn
  /\ pc = [j \in Jobs |-> "idle"]
  /\ op = [j \in Jobs |-> "none"]
  /\ deck = [j \in Jobs |-> NoDeck]
  /\ sub = "none" /\ channel = <<>> /\ answer = <<>> /\ wire = <<>>
  /\ socket = "connecting" /\ ask = "pending"
  /\ loaded = FALSE /\ shown = {} /\ busy = {} /\ link = {}
  /\ breaks = 0
  /\ doubt = {}
-----------------------------------------------------------------------------
Active(j) == pc[j] \notin {"idle", "done", "failed"}
WorksOn(j, d) == Active(j) /\ deck[j] = d
About(d, s) == \E i \in DOMAIN s : s[i].type # "DeckList" /\ s[i].deck = d
DecksIn(s) == {d \in Decks : About(d, s)}
Quiet(d) == ~ \E j \in Jobs : WorksOn(j, d)
Delivered(d) == ~ About(d, channel) /\ ~ About(d, wire)

Started == {j \in Jobs : pc[j] # "idle"}
MayBreak == breaks + 2 * Cardinality(Started) < MaxBreaks
MayStart(j) == 1 .. j - 1 \subseteq Started /\ breaks + 2 * j <= MaxBreaks

Goto(j, from, to) == /\ pc[j] = from
                     /\ pc' = [pc EXCEPT ![j] = to]

\* Job j takes up deck d, of its own request or one that another job works on.
TakeUp(j, o, d, to) ==
  /\ MayStart(j)
  /\ Goto(j, "idle", to)
  /\ op' = [op EXCEPT ![j] = o]
  /\ deck' = [deck EXCEPT ![j] = d]
  /\ doubt' = IF d # NoDeck /\ ~ Quiet(d) THEN doubt \cup {d} ELSE doubt
  /\ UNCHANGED <<tables, screen, connection, breaks>>

\* notify_user: only a connection that is subscribed at this moment gets it.
Publish(type, d) ==
  IF sub = "on"
  THEN /\ channel' = Append(channel, [type |-> type, deck |-> d])
       /\ UNCHANGED doubt
  ELSE /\ doubt' = doubt \cup {d}
       /\ UNCHANGED channel

Tell(j, from, type, to) ==
  /\ Goto(j, from, to)
  /\ Publish(type, deck[j])
  /\ UNCHANGED <<tables, op, deck, screen, sub, answer, wire, socket, ask, breaks>>
-----------------------------------------------------------------------------
(* Jobs *)

StartImport(j) == \E d \in present \cup {NoDeck} : TakeUp(j, "import", d, "write")
StartDownload(j) == \E d \in listed \ json : TakeUp(j, "download", d, "render")
StartDelete(j) == \E d \in listed : TakeUp(j, "delete", d, "drop")

\* UnparsedDeck::save: the row is reset, or a new one inserted.
Write(j) ==
  /\ Goto(j, "write", "start")
  /\ \/ /\ deck[j] # NoDeck
        /\ listed' = listed \ {deck[j]}
        /\ json' = json \ {deck[j]}
        /\ UNCHANGED <<present, drawn, deck>>
     \/ /\ deck[j] = NoDeck
        /\ \E d \in Decks \ drawn : /\ deck' = [deck EXCEPT ![j] = d]
                                    /\ present' = present \cup {d}
                                    /\ drawn' = drawn \cup {d}
        /\ UNCHANGED <<listed, json>>
  /\ UNCHANGED <<op, screen, connection, breaks, doubt>>

TellStarted(j) == Tell(j, "start", "Started", "save")

\* save_cards: the entries need the deck's row.
Save(j) ==
  /\ Goto(j, "save", "parsed")
  /\ deck[j] \in present
  /\ listed' = listed \cup {deck[j]}
  /\ UNCHANGED <<present, json, drawn, op, deck, screen, connection, breaks, doubt>>

TellParsed(j) == Tell(j, "parsed", "Parsed", "render")

\* Mutant: the deck is announced as rendered when its images are there.
TellTooEarly(j) == Tell(j, "render", "Rendered", "finish")

\* Waiting, RenderingImages and SavingPages: the browser does not tell them apart but
\* for the bar it draws.
TellProgress(j) == Tell(j, "render", "Progress", "finish")

\* render_deck tells the browser before Deck::render stores the JSON.
TellRendered(j) == Tell(j, "finish", "Rendered", "store")

Store(j) ==
  /\ Goto(j, "store", "done")
  /\ json' = json \cup ({deck[j]} \cap present)
  /\ UNCHANGED <<present, listed, drawn, op, deck, screen, connection, breaks, doubt>>

Drop(j) ==
  /\ Goto(j, "drop", "tell")
  /\ present' = present \ {deck[j]}
  /\ listed' = listed \ {deck[j]}
  /\ json' = json \ {deck[j]}
  /\ UNCHANGED <<drawn, op, deck, screen, connection, breaks, doubt>>

\* Mutant: a deletion is not announced.
TellNobody(j) ==
  /\ Goto(j, "tell", "done")
  /\ UNCHANGED <<tables, op, deck, screen, connection, breaks, doubt>>

TellDeleted(j) == Tell(j, "tell", "Deleted", "done")

\* A statement, the deck site, the renderer or Redis fails.  Only before its first
\* write or message does a job that fails leave no trace.
Fails(j) ==
  /\ Active(j)
  /\ pc' = [pc EXCEPT ![j] = "failed"]
  /\ doubt' = IF pc[j] \in {"write", "drop"} THEN doubt ELSE doubt \cup {deck[j]}
  /\ UNCHANGED <<tables, op, deck, screen, connection, breaks>>
-----------------------------------------------------------------------------
(* handle_connection and the GetDecks task *)

Subscribe ==
  /\ socket = "open" /\ sub = "none"
  /\ sub' = "on"
  /\ UNCHANGED <<tables, jobs, screen, channel, answer, wire, socket, ask, breaks, doubt>>

\* The loop runs: the request is read and its task spawned.
Take ==
  /\ sub # "none" /\ ask = "sent"
  /\ ask' = "taken"
  /\ UNCHANGED <<tables, jobs, screen, sub, channel, answer, wire, socket, breaks, doubt>>

\* get_decks_for_user.  The list makes up for what the browser missed, unless a job
\* has announced what is not stored yet, or older messages are still to come.
ReadList ==
  /\ ask = "taken"
  /\ ask' = "answered"
  /\ answer' = <<[type |-> "DeckList", shown |-> present, link |-> json]>>
  /\ doubt' = {d \in doubt : ~ Quiet(d) \/ ~ Delivered(d)}
                \cup {deck[j] : j \in {i \in Jobs : pc[i] = "store"}}
  /\ UNCHANGED <<tables, jobs, screen, sub, channel, wire, socket, breaks>>

\* The list cannot be read: a FatalError is sent instead.
ReadFails ==
  /\ ask = "taken"
  /\ ask' = "lost"
  /\ UNCHANGED <<tables, jobs, screen, sub, channel, answer, wire, socket, breaks, doubt>>

\* The two ways of the select! that lead to the browser.
ForwardAnswer ==
  /\ answer # <<>>
  /\ wire' = Append(wire, Head(answer))
  /\ answer' = <<>>
  /\ UNCHANGED <<tables, jobs, screen, sub, channel, socket, ask, breaks, doubt>>

ForwardNote ==
  /\ channel # <<>>
  /\ wire' = Append(wire, Head(channel))
  /\ channel' = Tail(channel)
  /\ UNCHANGED <<tables, jobs, screen, sub, answer, socket, ask, breaks, doubt>>

\* Redis disconnects; what it had not handed over is lost, the loop goes on.
RedisDisconnects ==
  /\ sub = "on" /\ MayBreak
  /\ breaks' = breaks + 1
  /\ sub' = "off"
  /\ \E n \in 0 .. Len(channel) :
       /\ channel' = SubSeq(channel, 1, n)
       /\ doubt' = doubt \cup DecksIn(SubSeq(channel, n + 1, Len(channel)))
  /\ UNCHANGED <<tables, jobs, screen, answer, wire, socket, ask>>
-----------------------------------------------------------------------------
(* The browser: WebSocket *)

\* Mutant: what was sent before the socket was open is forgotten.
OpenForgetful ==
  /\ socket = "connecting"
  /\ socket' = "open"
  /\ UNCHANGED <<tables, jobs, screen, sub, channel, answer, wire, ask, breaks, doubt>>

\* onopen sends what is pending.
Open ==
  /\ socket = "connecting"
  /\ socket' = "open"
  /\ ask' = IF ask = "pending" THEN "sent" ELSE ask
  /\ UNCHANGED <<tables, jobs, screen, sub, channel, answer, wire, breaks, doubt>>

Disconnect ==
  /\ MayBreak
  /\ breaks' = breaks + 1
  /\ socket' = "connecting"
  /\ sub' = "none" /\ channel' = <<>> /\ answer' = <<>> /\ wire' = <<>>
  /\ doubt' = doubt \cup DecksIn(channel) \cup DecksIn(wire)
  /\ UNCHANGED <<tables, jobs>>

\* onclose connects again, but DeckList asks for the list in create only.
Close ==
  /\ socket = "open"
  /\ Disconnect
  /\ ask' = IF loaded \/ ask = "pending" THEN ask ELSE "lost"
  /\ UNCHANGED screen

Reload ==
  /\ Disconnect
  /\ ask' = "pending"
  /\ loaded' = FALSE /\ shown' = {} /\ busy' = {} /\ link' = {}
-----------------------------------------------------------------------------
(* The browser: DeckList::update *)

OnDeckList(m) == /\ m.type = "DeckList"
                 /\ loaded' = TRUE
                 /\ shown' = m.shown
                 /\ link' = m.link
                 /\ busy' = {}

OnDeleted(m) == /\ m.type = "Deleted"
                /\ shown' = shown \ {m.deck}
                /\ busy' = busy \ {m.deck}
                /\ link' = link \ {m.deck}

OnStarted(m) == /\ m.type = "Started"
                /\ shown' = shown \cup {m.deck}
                /\ busy' = busy \cup {m.deck}
                /\ link' = link \ {m.deck}

OnParsed(m) == /\ m.type = "Parsed"
               /\ busy' = busy \cup ({m.deck} \cap shown)
               /\ UNCHANGED <<shown, link>>

OnProgress(m) == /\ m.type = "Progress"
                 /\ busy' = busy \cup ({m.deck} \cap shown)
                 /\ link' = link \ {m.deck}
                 /\ UNCHANGED shown

\* Mutant: the deck stays busy.
OnRenderedBusy(m) == /\ m.type = "Rendered"
                     /\ link' = link \cup ({m.deck} \cap shown)
                     /\ UNCHANGED <<shown, busy>>

OnRendered(m) == /\ m.type = "Rendered"
                 /\ busy' = busy \ {m.deck}
                 /\ link' = link \cup ({m.deck} \cap shown)
                 /\ UNCHANGED shown

\* A list that is still to come does not know of what is told now.
Ignore(m) == /\ UNCHANGED screen
             /\ doubt' = doubt \cup {m.deck}

Deliver ==
  /\ wire # <<>>
  /\ wire' = Tail(wire)
  /\ LET m == Head(wire) IN
       \/ OnDeckList(m) /\ UNCHANGED doubt
       \/ ~loaded /\ m.type # "DeckList" /\ Ignore(m)
       \/ /\ loaded
          /\ \/ OnDeleted(m) \/ OnStarted(m) \/ OnParsed(m)
             \/ OnProgress(m) \/ OnRendered(m)
          /\ UNCHANGED <<loaded, doubt>>
  /\ UNCHANGED <<tables, jobs, sub, channel, answer, socket, ask, breaks>>
-----------------------------------------------------------------------------
Start(j) == StartImport(j) \/ StartDownload(j) \/ StartDelete(j)
Work(j) == \/ Write(j) \/ TellStarted(j) \/ Save(j) \/ TellParsed(j) \/ TellProgress(j)
           \/ TellRendered(j) \/ Store(j) \/ Drop(j) \/ TellDeleted(j) \/ Fails(j)
Serve == Subscribe \/ Take \/ ReadList \/ ReadFails

Next == \/ \E j \in Jobs : Start(j) \/ Work(j)
        \/ Serve \/ ForwardAnswer \/ ForwardNote \/ RedisDisconnects
        \/ Open \/ Close \/ Reload \/ Deliver

\* Requests are worked on, select! takes every way in the end, and the browser opens
\* its socket and handles its messages.
Spec == /\ Init /\ [][Next]_vars
        /\ \A j \in Jobs : WF_vars(Work(j))
        /\ WF_vars(Serve) /\ WF_vars(ForwardAnswer) /\ WF_vars(ForwardNote)
        /\ WF_vars(Open) /\ WF_vars(Deliver)
-----------------------------------------------------------------------------
\* Once nothing is going on about a deck, the browser shows it exactly if it exists,
\* as complete, and with a link exactly if its JSON is stored, whichever way
\* notifications and list crossed - but for a deck in doubt: notifications about it
\* were lost or came before the list, jobs on it failed or overlapped, or the list
\* was read between the announcement of its JSON and the storing (DeckList::update,
\* handle_connection).
ScreenIsTrue == \A d \in Decks \ doubt :
  loaded /\ Quiet(d) /\ Delivered(d) => /\ d \in shown <=> d \in present
                                        /\ d \notin busy
                                        /\ d \in link <=> d \in json

\* While jobs run, too, a link leads to a stored JSON, but for the moments between a
\* write and its message: a request that follows the link then starts a second render
\* or finds nothing (Deck::render stores after render_deck has told "Rendered").
LinksLead == \A d \in link \ doubt :
  loaded /\ Delivered(d) =>
    d \in json \/ \E j \in Jobs : deck[j] = d /\ pc[j] \in {"start", "store", "tell"}

\* After a reload the list arrives and the page is no longer "Loading", unless the
\* connection that had the question breaks or the list cannot be read: it is not
\* asked for again (DeckList::create, WebSocket::connect).
ListArrives == ask = "pending" ~> loaded \/ ask = "lost"

\* A deck does not stay on "Loading" or a progress bar for ever, unless in doubt.
BarsEnd == \A d \in Decks : d \in busy ~> d \notin busy \/ d \in doubt
=============================================================================
