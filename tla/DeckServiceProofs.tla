--------------------------- MODULE DeckServiceProofs ---------------------------
(***************************************************************************)
(* Proofs about DeckService, for any number of requests, users, decks and  *)
(* entries.                                                                *)
(***************************************************************************)
EXTENDS DeckService, TLAPS

(***************************************************************************)
(* The first part of the inductive invariant says what a request that got  *)
(* hold of a deck knows about its row, whatever the others do meanwhile.   *)
(***************************************************************************)
\* The steps at which a request has a deck in memory.
Working == {"reset", "clear", "parse", "reclear", "insert", "wait", "render", "store",
            "drop", "tell"}

AskInv == \A t \in Requests :
  /\ pc[t] # "idle" => req[t] \in Asks
  /\ pc[t] \in {"select", "reset", "create", "clear", "parse", "reclear", "insert"}
       => req[t].op = "import"
  /\ pc[t] = "fetch" => req[t].op \in {"download", "delete"}
  /\ pc[t] \in {"wait", "render", "store"} => req[t].op \in {"import", "download"}
  /\ pc[t] \in {"drop", "tell"} => req[t].op = "delete"

MemInv == \A t \in Requests :
  /\ pc[t] \in {"idle", "select", "create", "fetch"} => mem[t].id = NoDeck
  /\ pc[t] \in Working => /\ mem[t].id \in DeckIds
                          /\ req[t].op # "import" => mem[t].id = req[t].id

OwnInv == \A t \in Requests :
  pc[t] \in Working =>
    \/ row[mem[t].id] = Deleted
    \/ row[mem[t].id] \in Keys /\ row[mem[t].id].user = req[t].user

DeletedInv == \A t \in Requests :
  pc[t] \in {"tell", "done"} /\ req[t].op = "delete" => row[req[t].id] = Deleted

NoRowInv == \A d \in DeckIds : row[d] \notin Keys => json[d] = Null /\ entries[d] = {}

RowInv == TypeOK /\ AskInv /\ MemInv /\ OwnInv /\ DeletedInv /\ NoRowInv

----------------------------------------------------------------------------
LEMMA Constants ==
  /\ NoDeck \notin DeckIds
  /\ Null \notin SUBSET Entries
  /\ Unborn \notin Keys /\ Deleted \notin Keys /\ Unborn # Deleted
  BY NullAssumption

LEMMA AskTypes ==
  \A q \in Asks : /\ q.user \in Users
                  /\ q.op \in {"import", "download", "delete"}
                  /\ q.op = "import" => q.url \in Urls
                  /\ q.op # "import" => q.id \in DeckIds
  BY DEF Asks

LEMMA InitRowInv == Init => RowInv
  BY Constants
  DEF Init, RowInv, TypeOK, AskInv, MemInv, OwnInv, DeletedInv, NoRowInv, Steps,
      Working, Mutex!Init

----------------------------------------------------------------------------
LEMMA TypeStep == RowInv /\ [Next]_vars => TypeOK'
<1> SUFFICES ASSUME RowInv, [Next]_vars PROVE TypeOK'
  OBVIOUS
<1> USE DEF RowInv, TypeOK, Steps, Goto, db, history
<1>1. ASSUME NEW t \in Requests, Abort(t) PROVE TypeOK'
  <2>1. torn' \in SUBSET DeckIds
    BY <1>1 DEF Abort, MemInv, Working
  <2> QED
    BY <1>1, <2>1 DEF Abort
<1>2. ASSUME NEW t \in Requests, StartImport(t) \/ StartOnDeck(t) PROVE TypeOK'
  <2>1. req' \in [Requests -> Asks \cup {NoRequest}]
    <3>1. CASE StartImport(t)
      <4>1. PICK u \in Users, l \in Urls :
              req' = [req EXCEPT ![t] = [op |-> "import", user |-> u, url |-> l]]
        BY <3>1 DEF StartImport
      <4>2. [op |-> "import", user |-> u, url |-> l] \in Asks
        BY DEF Asks
      <4> QED
        BY <4>1, <4>2
    <3>2. CASE StartOnDeck(t)
      <4>1. PICK o \in {"download", "delete"}, u \in Users, d \in DeckIds :
              req' = [req EXCEPT ![t] = [op |-> o, user |-> u, id |-> d]]
        BY <3>2 DEF StartOnDeck
      <4>2. [op |-> o, user |-> u, id |-> d] \in Asks
        BY DEF Asks
      <4> QED
        BY <4>1, <4>2
    <3> QED
      BY <1>2, <3>1, <3>2
  <2> QED
    BY <1>2, <2>1 DEF StartImport, StartOnDeck
<1>3. ASSUME NEW t \in Requests, SelectFound(t) PROVE TypeOK'
  BY <1>3 DEF SelectFound, Matches, NoteUse
<1>4. ASSUME NEW t \in Requests, SelectNone(t) PROVE TypeOK'
  BY <1>4 DEF SelectNone
<1>5. ASSUME NEW t \in Requests, Reset(t) PROVE TypeOK'
  BY <1>5 DEF Reset
<1>6. ASSUME NEW t \in Requests, Create(t) PROVE TypeOK'
  <2>1. [user |-> req[t].user, url |-> req[t].url] \in Keys
    BY <1>6, AskTypes DEF Create, AskInv, Keys
  <2> QED
    BY <1>6, <2>1 DEF Create
<1>7. ASSUME NEW t \in Requests, Clear(t) PROVE TypeOK'
  BY <1>7 DEF Clear
<1>8. ASSUME NEW t \in Requests, Parse(t) PROVE TypeOK'
  BY <1>8, ContentsAssumption DEF Parse
<1>9. ASSUME NEW t \in Requests, Reclear(t) PROVE TypeOK'
  BY <1>9 DEF Reclear
<1>10. ASSUME NEW t \in Requests, InsertEntry(t) PROVE TypeOK'
  <2>1. PICK e \in Foremost(todo[t]) :
          /\ entries' = [entries EXCEPT ![mem[t].id] = @ \cup {e}]
          /\ todo' = [todo EXCEPT ![t] = @ \ {e}]
    BY <1>10 DEF InsertEntry
  <2>2. e \in Entries
    BY DEF Foremost
  <2>3. entries' \in [DeckIds -> SUBSET Entries] /\ todo' \in [Requests -> SUBSET Entries]
    BY <2>1, <2>2
  <2> QED
    BY <1>10, <2>3 DEF InsertEntry
<1>11. ASSUME NEW t \in Requests, Parsed(t) \/ LockGranted(t) \/ Render(t) PROVE TypeOK'
  BY <1>11 DEF Parsed, LockGranted, Render, Mutex!Request, Mutex!Acquire, Mutex!Release
<1>12. ASSUME NEW t \in Requests, Store(t) PROVE TypeOK'
  BY <1>12 DEF Store
<1>13. ASSUME NEW t \in Requests,
              FetchForDelete(t) \/ FetchRendered(t) \/ FetchUnrendered(t)
       PROVE  TypeOK'
  <2>1. req[t].id \in DeckIds
    BY <1>13, AskTypes DEF FetchForDelete, FetchRendered, FetchUnrendered, AskInv
  <2>2. CASE FetchForDelete(t)
    BY <2>1, <2>2 DEF FetchForDelete
  <2>3. CASE FetchRendered(t)
    BY <2>1, <2>3 DEF FetchRendered
  <2>4. CASE FetchUnrendered(t)
    BY <2>1, <2>4 DEF FetchUnrendered, NoteUse, Mutex!Request
  <2> QED
    BY <1>13, <2>2, <2>3, <2>4
<1>14. ASSUME NEW t \in Requests, Drop(t) \/ Tell(t) PROVE TypeOK'
  BY <1>14 DEF Drop, Tell
<1>15. CASE UNCHANGED vars
  BY <1>15 DEF vars
<1> QED
  BY <1>1, <1>2, <1>3, <1>4, <1>5, <1>6, <1>7, <1>8, <1>9, <1>10, <1>11, <1>12, <1>13,
     <1>14, <1>15
  DEF Next, Step, ImportStep, RenderStep, FetchStep, Quiet, Fault, CreateConflict,
      InsertConflict, RenderEmpty, FetchRefused

\* What the requests ask for and have in memory depends on no other request.
LEMMA AskStep == RowInv /\ [Next]_vars => AskInv' /\ MemInv'
<1> SUFFICES ASSUME RowInv, [Next]_vars PROVE AskInv' /\ MemInv'
  OBVIOUS
<1> USE DEF RowInv, TypeOK, AskInv, MemInv, Working, Goto, history
<1>1. ASSUME NEW t \in Requests, Abort(t), pc[t] # "idle" PROVE AskInv' /\ MemInv'
  BY <1>1 DEF Abort
<1>2. ASSUME NEW t \in Requests, StartImport(t) PROVE AskInv' /\ MemInv'
  <2>1. PICK u \in Users, l \in Urls :
          req' = [req EXCEPT ![t] = [op |-> "import", user |-> u, url |-> l]]
    BY <1>2 DEF StartImport
  <2>2. req'[t] \in Asks /\ req'[t].op = "import"
    BY <2>1 DEF Asks
  <2>3. \A s \in Requests \ {t} : req'[s] = req[s]
    BY <2>1
  <2> QED
    BY <1>2, <2>2, <2>3 DEF StartImport
<1>3. ASSUME NEW t \in Requests, StartOnDeck(t) PROVE AskInv' /\ MemInv'
  <2>1. PICK o \in {"download", "delete"}, u \in Users, d \in DeckIds :
          req' = [req EXCEPT ![t] = [op |-> o, user |-> u, id |-> d]]
    BY <1>3 DEF StartOnDeck
  <2>2. req'[t] \in Asks /\ req'[t].op \in {"download", "delete"}
    BY <2>1 DEF Asks
  <2>3. \A s \in Requests \ {t} : req'[s] = req[s]
    BY <2>1
  <2> QED
    BY <1>3, <2>2, <2>3 DEF StartOnDeck
<1>4. ASSUME NEW t \in Requests, SelectFound(t) \/ SelectNone(t) \/ Create(t)
      PROVE  AskInv' /\ MemInv'
  BY <1>4 DEF SelectFound, SelectNone, Create, Matches
<1>5. ASSUME NEW t \in Requests, Reset(t) \/ Clear(t) \/ Reclear(t) \/ Drop(t)
      PROVE  AskInv' /\ MemInv'
  BY <1>5 DEF Reset, Clear, Reclear, Drop
<1>6. ASSUME NEW t \in Requests, Parse(t) \/ InsertEntry(t) \/ Parsed(t)
      PROVE  AskInv' /\ MemInv'
  BY <1>6 DEF Parse, InsertEntry, Parsed
<1>7. ASSUME NEW t \in Requests, LockGranted(t) \/ Render(t) \/ Store(t) \/ Tell(t)
      PROVE  AskInv' /\ MemInv'
  BY <1>7 DEF LockGranted, Render, Store, Tell
<1>8. ASSUME NEW t \in Requests,
             FetchForDelete(t) \/ FetchRendered(t) \/ FetchUnrendered(t)
      PROVE  AskInv' /\ MemInv'
  <2>1. req[t].id \in DeckIds
    BY <1>8, AskTypes DEF FetchForDelete, FetchRendered, FetchUnrendered
  <2> QED
    BY <1>8, <2>1 DEF FetchForDelete, FetchRendered, FetchUnrendered
<1>9. CASE UNCHANGED vars
  BY <1>9 DEF vars
<1> QED
  BY <1>1, <1>2, <1>3, <1>4, <1>5, <1>6, <1>7, <1>8, <1>9
  DEF Next, Step, ImportStep, RenderStep, FetchStep, Quiet, Fault, CreateConflict,
      InsertConflict, RenderEmpty, FetchRefused, Ended

\* A row is only ever born or deleted, and a request that gets hold of a deck has
\* checked its owner: nobody else's deck comes into its memory later.
LEMMA OwnStep == RowInv /\ [Next]_vars => OwnInv' /\ DeletedInv'
<1> SUFFICES ASSUME RowInv, [Next]_vars PROVE OwnInv' /\ DeletedInv'
  OBVIOUS
<1> USE Constants DEF RowInv, TypeOK, OwnInv, DeletedInv, Working, Goto, db, history
<1>1. ASSUME NEW t \in Requests, Abort(t) PROVE OwnInv' /\ DeletedInv'
  BY <1>1 DEF Abort
<1>2. ASSUME NEW t \in Requests, StartImport(t) \/ StartOnDeck(t) PROVE OwnInv' /\ DeletedInv'
  <2>1. /\ pc[t] = "idle" /\ pc'[t] \notin Working /\ pc'[t] \notin {"tell", "done"}
        /\ row' = row /\ mem' = mem
        /\ \A s \in Requests \ {t} : req'[s] = req[s] /\ pc'[s] = pc[s]
    BY <1>2 DEF StartImport, StartOnDeck
  <2> QED
    BY <2>1
<1>3. ASSUME NEW t \in Requests, SelectFound(t) PROVE OwnInv' /\ DeletedInv'
  <2>1. PICK d \in DeckIds : /\ row[d] = [user |-> req[t].user, url |-> req[t].url]
                             /\ mem' = [mem EXCEPT ![t] = [id |-> d, cards |-> {}]]
    BY <1>3 DEF SelectFound, Matches
  <2>2. row[d] \in Keys /\ row[d].user = req[t].user
    <3>1. req[t].user \in Users /\ req[t].url \in Urls
      BY <1>3, AskTypes DEF SelectFound, AskInv
    <3> QED
      BY <2>1, <3>1 DEF Keys
  <2> QED
    BY <1>3, <2>1, <2>2 DEF SelectFound
<1>4. ASSUME NEW t \in Requests, SelectNone(t) PROVE OwnInv' /\ DeletedInv'
  BY <1>4 DEF SelectNone
<1>5. ASSUME NEW t \in Requests, Create(t) PROVE OwnInv' /\ DeletedInv'
  <2>1. PICK d \in DeckIds :
          /\ row[d] = Unborn
          /\ row' = [row EXCEPT ![d] = [user |-> req[t].user, url |-> req[t].url]]
          /\ mem' = [mem EXCEPT ![t] = [id |-> d, cards |-> {}]]
    BY <1>5 DEF Create
  <2>2. row'[d] \in Keys /\ row'[d].user = req[t].user
    <3>1. req[t].user \in Users /\ req[t].url \in Urls
      BY <1>5, AskTypes DEF Create, AskInv
    <3> QED
      BY <2>1, <3>1 DEF Keys
  <2>3. /\ pc' = [pc EXCEPT ![t] = "clear"] /\ req' = req
        /\ \A c \in DeckIds \ {d} : row'[c] = row[c]
    BY <1>5, <2>1 DEF Create
  <2>4. \A s \in Requests : pc[s] \in Working => mem[s].id \in DeckIds \ {d}
    BY <2>1 DEF MemInv
  <2>5. OwnInv'
    BY <2>1, <2>2, <2>3, <2>4
  <2>6. DeletedInv'
    <3> SUFFICES ASSUME NEW s \in Requests, pc'[s] \in {"tell", "done"}, req'[s].op = "delete"
                 PROVE  row'[req'[s].id] = Deleted
      OBVIOUS
    <3>1. pc[s] \in {"tell", "done"} /\ req[s].op = "delete" /\ req[s] \in Asks
      BY <2>3 DEF AskInv
    <3>2. row[req[s].id] = Deleted /\ req[s].id \in DeckIds
      BY <3>1, AskTypes
    <3> QED
      BY <2>1, <2>3, <3>2
  <2> QED
    BY <2>5, <2>6
<1>6. ASSUME NEW t \in Requests, Reset(t) \/ Clear(t) \/ Parse(t) \/ Reclear(t) \/ InsertEntry(t)
      PROVE  OwnInv' /\ DeletedInv'
  BY <1>6 DEF Reset, Clear, Parse, Reclear, InsertEntry
<1>7. ASSUME NEW t \in Requests, Parsed(t) \/ LockGranted(t) \/ Render(t)
      PROVE  OwnInv' /\ DeletedInv'
  BY <1>7 DEF Parsed, LockGranted, Render
<1>8. ASSUME NEW t \in Requests, Store(t) PROVE OwnInv' /\ DeletedInv'
  BY <1>8 DEF Store, AskInv
<1>9. ASSUME NEW t \in Requests,
             FetchForDelete(t) \/ FetchRendered(t) \/ FetchUnrendered(t)
      PROVE  OwnInv' /\ DeletedInv'
  <2>1. row[req[t].id] \in Keys /\ row[req[t].id].user = req[t].user
    BY <1>9 DEF FetchForDelete, FetchRendered, FetchUnrendered, MayUse, Found, Present
  <2>2. CASE FetchForDelete(t)
    BY <2>1, <2>2 DEF FetchForDelete
  <2>3. CASE FetchRendered(t)
    BY <2>1, <2>3 DEF FetchRendered
  <2>4. CASE FetchUnrendered(t)
    BY <2>1, <2>4 DEF FetchUnrendered
  <2> QED
    BY <1>9, <2>2, <2>3, <2>4
<1>10. ASSUME NEW t \in Requests, Drop(t) PROVE OwnInv' /\ DeletedInv'
  <2>1. /\ row' = [row EXCEPT ![mem[t].id] = Deleted] /\ mem' = mem /\ req' = req
        /\ pc' = [pc EXCEPT ![t] = "tell"] /\ pc[t] = "drop"
    BY <1>10 DEF Drop
  <2>2. mem[t].id = req[t].id /\ mem[t].id \in DeckIds
    BY <2>1 DEF AskInv, MemInv
  <2> QED
    BY <2>1, <2>2, AskTypes DEF AskInv, MemInv
<1>11. ASSUME NEW t \in Requests, Tell(t) PROVE OwnInv' /\ DeletedInv'
  BY <1>11 DEF Tell
<1>12. CASE UNCHANGED vars
  BY <1>12 DEF vars
<1> QED
  BY <1>1, <1>2, <1>3, <1>4, <1>5, <1>6, <1>7, <1>8, <1>9, <1>10, <1>11, <1>12
  DEF Next, Step, ImportStep, RenderStep, FetchStep, Quiet, Fault, CreateConflict,
      InsertConflict, RenderEmpty, FetchRefused

\* A deck without a row has neither JSON nor entries: what comes too late for it
\* finds no row to change.
LEMMA NoRowStep == RowInv /\ [Next]_vars => NoRowInv'
<1> SUFFICES ASSUME RowInv, [Next]_vars PROVE NoRowInv'
  OBVIOUS
<1> USE Constants DEF RowInv, TypeOK, NoRowInv, Working, Goto, db, history
<1>1. ASSUME UNCHANGED db PROVE NoRowInv'
  BY <1>1
<1>2. ASSUME NEW t \in Requests, Create(t) PROVE NoRowInv'
  <2>1. [user |-> req[t].user, url |-> req[t].url] \in Keys
    BY <1>2, AskTypes DEF Create, AskInv, Keys
  <2> QED
    BY <1>2, <2>1 DEF Create
<1>3. ASSUME NEW t \in Requests, Reset(t) \/ Clear(t) \/ Reclear(t) \/ Drop(t) PROVE NoRowInv'
  BY <1>3 DEF Reset, Clear, Reclear, Drop, MemInv
<1>4. ASSUME NEW t \in Requests, InsertEntry(t) PROVE NoRowInv'
  BY <1>4 DEF InsertEntry, Insertable, Present
<1>5. ASSUME NEW t \in Requests, Store(t) PROVE NoRowInv'
  BY <1>5 DEF Store, Present
<1>6. ASSUME NEW t \in Requests,
             \/ StartImport(t) \/ StartOnDeck(t) \/ Abort(t) \/ SelectFound(t) \/ SelectNone(t)
             \/ Parse(t) \/ Parsed(t) \/ LockGranted(t) \/ Render(t)
             \/ FetchForDelete(t) \/ FetchRendered(t) \/ FetchUnrendered(t) \/ Tell(t)
      PROVE  NoRowInv'
  <2>1. UNCHANGED db
    BY <1>6 DEF StartImport, StartOnDeck, Abort, SelectFound, SelectNone, Parse, Parsed,
                LockGranted, Render, FetchForDelete, FetchRendered, FetchUnrendered, Tell
  <2> QED
    BY <1>1, <2>1
<1>7. CASE UNCHANGED vars
  BY <1>7 DEF vars
<1> QED
  BY <1>2, <1>3, <1>4, <1>5, <1>6, <1>7
  DEF Next, Step, ImportStep, RenderStep, FetchStep, Quiet, Fault, CreateConflict,
      InsertConflict, RenderEmpty, FetchRefused

\* A row is only inserted if there is no other of its user and URL.
LEMMA OneDeckStep == RowInv /\ OneDeckPerUrl /\ [Next]_vars => OneDeckPerUrl'
<1> SUFFICES ASSUME RowInv, OneDeckPerUrl, [Next]_vars PROVE OneDeckPerUrl'
  OBVIOUS
<1> USE Constants DEF RowInv, TypeOK, OneDeckPerUrl, Present, Goto, db, history
<1>1. ASSUME UNCHANGED row PROVE OneDeckPerUrl'
  BY <1>1
<1>2. ASSUME NEW t \in Requests, Create(t) PROVE OneDeckPerUrl'
  <2>1. PICK d \in DeckIds : row' = [row EXCEPT ![d] = [user |-> req[t].user, url |-> req[t].url]]
    BY <1>2 DEF Create
  <2>2. \A e \in DeckIds : row[e] # [user |-> req[t].user, url |-> req[t].url]
    BY <1>2 DEF Create, Matches
  <2> QED
    BY <2>1, <2>2
<1>3. ASSUME NEW t \in Requests, Drop(t) PROVE OneDeckPerUrl'
  BY <1>3 DEF Drop
<1> QED
  BY <1>1, <1>2, <1>3
  DEF Next, Step, ImportStep, RenderStep, FetchStep, Quiet, Fault, CreateConflict,
      InsertConflict, RenderEmpty, FetchRefused, vars, StartImport, StartOnDeck, Abort,
      SelectFound, SelectNone, Parse, Parsed, LockGranted, Render, FetchForDelete,
      FetchRendered, FetchUnrendered, Tell, Reset, Clear, Reclear, InsertEntry, Store

LEMMA RowInductive == RowInv /\ [Next]_vars => RowInv'
  BY TypeStep, AskStep, OwnStep, NoRowStep DEF RowInv

----------------------------------------------------------------------------
\* Tables and requests keep their types.
THEOREM TypeCorrect == Spec => []TypeOK
<1>1. RowInv => TypeOK
  BY DEF RowInv
<1> QED
  BY InitRowInv, RowInductive, <1>1, PTL DEF Spec

\* A deleted deck has no row, no entries and no JSON, and no import or render of it
\* that was under way brings them back.
THEOREM DeletedForGood == Spec => []DeletedStaysDeleted
<1>1. RowInv => DeletedStaysDeleted
  <2> SUFFICES ASSUME RowInv, NEW t \in Requests, req[t] # NoRequest,
                      req[t].op = "delete", pc[t] \in {"tell", "done"}
               PROVE  /\ row[req[t].id] = Deleted
                      /\ entries[req[t].id] = {} /\ json[req[t].id] = Null
    BY DEF DeletedStaysDeleted
  <2>1. row[req[t].id] = Deleted
    BY DEF RowInv, DeletedInv
  <2>2. req[t].id \in DeckIds
    BY AskTypes DEF RowInv, AskInv
  <2> QED
    BY <2>1, <2>2, Constants DEF RowInv, NoRowInv
<1> QED
  BY InitRowInv, RowInductive, <1>1, PTL DEF Spec

\* A request changes only decks of the user it runs for.
THEOREM OwnersOnly == Spec => OnlyOwnerTouches
<1>1. ASSUME RowInv, [Next]_vars, NEW t \in Requests, NEW d \in DeckIds, Step(t),
             <<row[d], json[d], entries[d]>> # <<row'[d], json'[d], entries'[d]>>
      PROVE  \E k \in Keys \cap {row[d], row'[d]} : k.user = req[t].user
  <2> USE Constants DEF RowInv, TypeOK, Goto, db, history
  <2>1. ASSUME pc[t] \in Working, d = mem[t].id, row[d] # Deleted
        PROVE  row[d] \in Keys /\ row[d].user = req[t].user
    BY <1>1, <2>1 DEF OwnInv
  <2>2. CASE Create(t)
    <3>1. PICK c \in DeckIds :
            row' = [row EXCEPT ![c] = [user |-> req[t].user, url |-> req[t].url]]
      BY <2>2 DEF Create
    <3>2. d = c
      BY <1>1, <2>2, <3>1 DEF Create
    <3>3. req[t].user \in Users /\ req[t].url \in Urls
      BY <1>1, <2>2, AskTypes DEF Create, AskInv
    <3>4. row'[d] \in Keys /\ row'[d].user = req[t].user
      BY <1>1, <3>1, <3>2, <3>3 DEF Keys
    <3> QED
      BY <3>4
  <2>3. CASE Reset(t) \/ Clear(t) \/ Reclear(t) \/ Drop(t)
    <3>1. pc[t] \in Working /\ d = mem[t].id
      BY <1>1, <2>3 DEF Reset, Clear, Reclear, Drop, Working
    <3>2. row[d] # Deleted
      <4> SUFFICES ASSUME row[d] = Deleted PROVE FALSE
        OBVIOUS
      <4>1. json[d] = Null /\ entries[d] = {}
        BY <1>1 DEF NoRowInv
      <4> QED
        BY <1>1, <2>3, <3>1, <4>1 DEF Reset, Clear, Reclear, Drop
    <3> QED
      BY <2>1, <3>1, <3>2
  <2>4. CASE InsertEntry(t) \/ Store(t)
    <3>1. pc[t] \in Working /\ d = mem[t].id /\ row[d] # Deleted
      BY <1>1, <2>4 DEF InsertEntry, Insertable, Store, Present, Working
    <3> QED
      BY <2>1, <3>1
  <2>5. CASE UNCHANGED db
    BY <1>1, <2>5
  <2>6. CASE \/ Abort(t) \/ SelectFound(t) \/ SelectNone(t)
             \/ Parse(t) \/ Parsed(t) \/ LockGranted(t) \/ Render(t)
             \/ FetchForDelete(t) \/ FetchRendered(t) \/ FetchUnrendered(t) \/ Tell(t)
    <3>1. UNCHANGED db
      BY <2>6 DEF Abort, SelectFound, SelectNone, Parse, Parsed, LockGranted, Render,
                  FetchForDelete, FetchRendered, FetchUnrendered, Tell
    <3> QED
      BY <2>5, <3>1
  <2> QED
    BY <1>1, <2>2, <2>3, <2>4, <2>6
    DEF Step, ImportStep, RenderStep, FetchStep, CreateConflict, InsertConflict,
        RenderEmpty, FetchRefused
<1>2. RowInv /\ [Next]_vars
        => [\A t \in Requests, d \in DeckIds :
              /\ Step(t)
              /\ <<row[d], json[d], entries[d]>> # <<row'[d], json'[d], entries'[d]>>
              => \E k \in Keys \cap {row[d], row'[d]} : k.user = req[t].user]_vars
  BY <1>1
<1> QED
  BY InitRowInv, RowInductive, <1>2, PTL DEF Spec, OnlyOwnerTouches

----------------------------------------------------------------------------
(***************************************************************************)
(* The second part is about each deck that was not mixed up: the requests  *)
(* that use its entries do so one after the other (Apart), so what an      *)
(* import or a download has in memory keeps describing the database        *)
(* (NoJsonYet, InMemory), which makes the JSON it stores the right one     *)
(* (Matching) and the deck it leaves complete (Whole).                     *)
(***************************************************************************)
\* Request t is an import that rewrites the entries and the JSON of deck d.
Rewrites(t, d) == WorksOn(t, d) /\ req[t].op = "import" /\ pc[t] # "reset"

Apart(d) == \A t, s \in Requests :
  t # s /\ WorksOn(t, d) /\ WorksOn(s, d) => ~Mixes(t, s)

NoJsonYet(d) == \A t \in Requests : Rewrites(t, d) => json[d] = Null

\* What a request at work on deck d has in memory.
Remembers(t, d) ==
  /\ Present(d) /\ pc[t] = "insert" => /\ todo[t] \subseteq mem[t].cards
                                       /\ entries[d] = mem[t].cards \ todo[t]
  /\ Present(d) /\ pc[t] \in {"wait", "render", "store"} => entries[d] = mem[t].cards
  /\ req[t].op = "import" /\ pc[t] \in {"reclear", "insert", "wait", "render", "store"}
       => mem[t].cards \in Contents
InMemory(d) == \A t \in Requests : WorksOn(t, d) => Remembers(t, d)

Matching(d) == Present(d) => json[d] \in {Null, entries[d]}

Complete(d) == entries[d] \in Contents /\ json[d] = entries[d]
Whole(d) == d \notin torn /\ Present(d) => Complete(d) \/ \E t \in Requests : Rewrites(t, d)

DeckOK(d) == Apart(d) /\ NoJsonYet(d) /\ InMemory(d) /\ Matching(d) /\ Whole(d)
DeckInv == \A d \in DeckIds \ mixed : DeckOK(d)

LEMMA InitDeckInv == Init => DeckInv
  BY Constants
  DEF Init, DeckInv, DeckOK, Apart, NoJsonYet, InMemory, Matching, Whole, Rewrites,
      WorksOn, Ended, Present

----------------------------------------------------------------------------
StepOf(t) == StartImport(t) \/ StartOnDeck(t) \/ Step(t) \/ Fault(t)

\* A step of request t leaves the others where they are.
Alone(t) == \A s \in Requests \ {t} :
  pc'[s] = pc[s] /\ req'[s] = req[s] /\ mem'[s] = mem[s] /\ todo'[s] = todo[s]

\* The history of a step of request t.
Noted(t) == mixed \subseteq mixed' /\ torn \ {mem[t].id} \subseteq torn'

LEMMA StepLocal ==
  ASSUME RowInv, NEW t \in Requests, StepOf(t)
  PROVE  Alone(t) /\ Noted(t)
<1> USE DEF RowInv, TypeOK, Goto, history, Alone, Noted
<1>1. CASE Abort(t)
  BY <1>1 DEF Abort
<1>2. CASE StartImport(t) \/ StartOnDeck(t)
  BY <1>2 DEF StartImport, StartOnDeck
<1>3. CASE SelectFound(t) \/ SelectNone(t) \/ Reset(t) \/ Create(t)
  BY <1>3 DEF SelectFound, SelectNone, Reset, Create, NoteUse
<1>4. CASE Clear(t) \/ Parse(t) \/ Reclear(t) \/ InsertEntry(t) \/ Parsed(t)
  BY <1>4 DEF Clear, Parse, Reclear, InsertEntry, Parsed
<1>5. CASE LockGranted(t) \/ Render(t) \/ Store(t) \/ Drop(t) \/ Tell(t)
  BY <1>5 DEF LockGranted, Render, Store, Drop, Tell
<1>6. CASE FetchForDelete(t) \/ FetchRendered(t) \/ FetchUnrendered(t)
  BY <1>6 DEF FetchForDelete, FetchRendered, FetchUnrendered, NoteUse
<1> QED
  BY <1>1, <1>2, <1>3, <1>4, <1>5, <1>6
  DEF StepOf, Step, ImportStep, RenderStep, FetchStep, Fault, CreateConflict,
      InsertConflict, RenderEmpty, FetchRefused

\* A request at work is at one of the steps of Working.
LEMMA AtWork ==
  ASSUME RowInv, NEW t \in Requests, NEW d \in DeckIds
  PROVE  WorksOn(t, d) <=> pc[t] \in Working /\ mem[t].id = d
  BY Constants DEF RowInv, TypeOK, Steps, MemInv, Working, WorksOn, Ended

\* What a step of request t that does not bring it to deck d leaves of DeckOK(d).
LEMMA StillApart ==
  ASSUME NEW t \in Requests, NEW d \in DeckIds, Alone(t), Apart(d),
         WorksOn(t, d)' => WorksOn(t, d) /\ req'[t] = req[t]
  PROVE  Apart(d)'
  BY DEF Alone, Apart, WorksOn, Ended, Mixes

\* Deck d after a step of a request that neither used it before nor uses it now.
LEMMA Elsewhere ==
  ASSUME NEW t \in Requests, NEW d \in DeckIds, DeckOK(d), Alone(t),
         ~WorksOn(t, d), ~WorksOn(t, d)',
         row'[d] = row[d], json'[d] = json[d], entries'[d] = entries[d],
         d \in torn => d \in torn'
  PROVE  DeckOK(d)'
<1>1. \A s \in Requests : /\ WorksOn(s, d)' <=> WorksOn(s, d)
                          /\ Rewrites(s, d)' <=> Rewrites(s, d)
                          /\ WorksOn(s, d) => (Remembers(s, d)' <=> Remembers(s, d))
  BY DEF Alone, WorksOn, Ended, Rewrites, Remembers, Present
<1>2. Apart(d)'
  BY StillApart DEF DeckOK
<1>3. NoJsonYet(d)' /\ InMemory(d)'
  BY <1>1 DEF DeckOK, NoJsonYet, InMemory
<1>4. Matching(d)' /\ Whole(d)'
  BY <1>1 DEF DeckOK, Matching, Whole, Complete, Present
<1> QED
  BY <1>2, <1>3, <1>4 DEF DeckOK

\* A request comes to deck d.
LEMMA Joins ==
  ASSUME RowInv, NEW t \in Requests, NEW d \in DeckIds, DeckOK(d), StepOf(t),
         ~WorksOn(t, d), WorksOn(t, d)', d \notin mixed'
  PROVE  DeckOK(d)'
<1> USE DEF RowInv, TypeOK, Goto, db, history
<1>1. Alone(t)
  BY StepLocal
<1>2. ASSUME NEW s \in Requests \ {t}
      PROVE  /\ WorksOn(s, d)' <=> WorksOn(s, d)
             /\ pc'[s] = pc[s] /\ req'[s] = req[s] /\ mem'[s] = mem[s] /\ todo'[s] = todo[s]
  BY <1>1 DEF Alone, WorksOn, Ended
<1>3. CASE SelectFound(t)
  <2>1. /\ pc'[t] = "reset" /\ req' = req /\ mem'[t].id = d
        /\ UNCHANGED <<db, torn>>
        /\ NoteUse(t, d)
    BY <1>3 DEF SelectFound, WorksOn, Matches
  <2>2. \A s \in Requests \ {t} : WorksOn(s, d) => ~Mixes(t, s)
    BY <2>1 DEF NoteUse
  <2>3. Apart(d)'
    BY <1>2, <2>1, <2>2 DEF DeckOK, Apart, Mixes
  <2>4. \A s \in Requests : Rewrites(s, d)' <=> Rewrites(s, d)
    BY <1>2, <2>1 DEF Rewrites
  <2>5. NoJsonYet(d)' /\ Matching(d)' /\ Whole(d)'
    BY <2>1, <2>4 DEF DeckOK, NoJsonYet, Matching, Whole, Complete, Present
  <2>6. InMemory(d)'
    BY <1>2, <2>1 DEF DeckOK, InMemory, Remembers, Present
  <2> QED
    BY <2>3, <2>5, <2>6 DEF DeckOK
<1>4. CASE Create(t)
  <2>1. /\ pc'[t] = "clear" /\ req' = req /\ pc[t] = "create"
        /\ UNCHANGED <<json, entries, torn>> /\ row[d] = Unborn
    BY <1>4 DEF Create, WorksOn
  <2>2. json[d] = Null /\ entries[d] = {}
    BY <2>1, Constants DEF NoRowInv
  <2>3. \A s \in Requests : ~WorksOn(s, d)
    BY <2>1, AtWork, Constants DEF OwnInv
  <2>4. Rewrites(t, d)'
    BY <2>1 DEF Rewrites, AskInv
  <2>5. Apart(d)' /\ NoJsonYet(d)' /\ Matching(d)' /\ Whole(d)'
    BY <1>2, <2>1, <2>2, <2>3, <2>4 DEF Apart, NoJsonYet, Matching, Whole
  <2>6. InMemory(d)'
    BY <1>2, <2>1, <2>3 DEF InMemory, Remembers
  <2> QED
    BY <2>5, <2>6 DEF DeckOK
<1>5. CASE FetchForDelete(t)
  <2>1. /\ pc'[t] = "drop" /\ req' = req /\ req[t].op = "delete"
        /\ UNCHANGED <<db, torn>>
    BY <1>5 DEF FetchForDelete
  <2>2. Apart(d)'
    BY <1>2, <2>1 DEF DeckOK, Apart, Mixes
  <2>3. \A s \in Requests : Rewrites(s, d)' <=> Rewrites(s, d)
    BY <1>2, <2>1 DEF Rewrites
  <2>4. NoJsonYet(d)' /\ Matching(d)' /\ Whole(d)'
    BY <2>1, <2>3 DEF DeckOK, NoJsonYet, Matching, Whole, Complete, Present
  <2>5. InMemory(d)'
    BY <1>2, <2>1 DEF DeckOK, InMemory, Remembers, Present
  <2> QED
    BY <2>2, <2>4, <2>5 DEF DeckOK
<1>6. CASE FetchUnrendered(t)
  <2>1. /\ pc'[t] = "wait" /\ req' = req /\ req[t].op = "download"
        /\ UNCHANGED <<db, torn>>
    BY <1>6 DEF FetchUnrendered
  <2>2. req[t].id \in DeckIds
    BY <1>6, AskTypes DEF FetchUnrendered, AskInv
  <2>3. mem'[t] = [id |-> req[t].id, cards |-> entries[req[t].id]]
    BY <1>6, <2>2 DEF FetchUnrendered
  <2>4. req[t].id = d /\ mem'[t].cards = entries[d] /\ NoteUse(t, d)
    BY <1>6, <2>3 DEF FetchUnrendered, WorksOn
  <2>5. \A s \in Requests \ {t} : WorksOn(s, d) => ~Mixes(t, s)
    BY <2>4 DEF NoteUse
  <2>6. Apart(d)'
    BY <1>2, <2>1, <2>5 DEF DeckOK, Apart, Mixes
  <2>7. \A s \in Requests : Rewrites(s, d)' <=> Rewrites(s, d)
    BY <1>2, <2>1 DEF Rewrites
  <2>8. NoJsonYet(d)' /\ Matching(d)' /\ Whole(d)'
    BY <2>1, <2>7 DEF DeckOK, NoJsonYet, Matching, Whole, Complete, Present
  <2>9. Remembers(t, d)'
    BY <2>1, <2>4 DEF Remembers
  <2>10. \A s \in Requests \ {t} : WorksOn(s, d)' => Remembers(s, d)'
    BY <1>2, <2>1 DEF DeckOK, InMemory, Remembers, Present
  <2> QED
    BY <2>6, <2>8, <2>9, <2>10 DEF DeckOK, InMemory
<1>7. CASE Abort(t) \/ StartImport(t) \/ StartOnDeck(t) \/ SelectNone(t) \/ FetchRendered(t)
  BY <1>7, Constants
  DEF Abort, StartImport, StartOnDeck, SelectNone, FetchRendered, WorksOn, Ended, MemInv
<1>8. CASE \/ Reset(t) \/ Clear(t) \/ Parse(t) \/ Reclear(t) \/ InsertEntry(t)
           \/ Parsed(t) \/ LockGranted(t) \/ Render(t) \/ Store(t) \/ Drop(t) \/ Tell(t)
  BY <1>8
  DEF Reset, Clear, Parse, Reclear, InsertEntry, Parsed, LockGranted, Render, Store,
      Drop, Tell, WorksOn, Ended
<1> QED
  BY <1>3, <1>4, <1>5, <1>6, <1>7, <1>8
  DEF StepOf, Step, ImportStep, RenderStep, FetchStep, Fault, CreateConflict,
      InsertConflict, RenderEmpty, FetchRefused

\* A request that neither used deck d nor uses it now leaves its rows alone.
LEMMA Untouched ==
  ASSUME RowInv, NEW t \in Requests, NEW d \in DeckIds, StepOf(t),
         ~WorksOn(t, d), ~WorksOn(t, d)'
  PROVE  /\ row'[d] = row[d] /\ json'[d] = json[d] /\ entries'[d] = entries[d]
         /\ d \in torn => d \in torn'
<1> USE DEF RowInv, TypeOK, Goto, db, history
<1>1. CASE Abort(t) \/ StartImport(t) \/ StartOnDeck(t)
  BY <1>1 DEF Abort, StartImport, StartOnDeck
<1>2. CASE \/ SelectFound(t) \/ SelectNone(t) \/ Parse(t) \/ Parsed(t) \/ LockGranted(t)
           \/ Render(t) \/ FetchForDelete(t) \/ FetchRendered(t) \/ FetchUnrendered(t) \/ Tell(t)
  BY <1>2
  DEF SelectFound, SelectNone, Parse, Parsed, LockGranted, Render, FetchForDelete,
      FetchRendered, FetchUnrendered, Tell
<1>3. CASE Create(t)
  BY <1>3 DEF Create, WorksOn, Ended
<1>4. CASE Reset(t) \/ Clear(t) \/ Reclear(t) \/ InsertEntry(t) \/ Store(t) \/ Drop(t)
  <2>1. mem[t].id # d
    BY <1>4, AtWork DEF Reset, Clear, Reclear, InsertEntry, Store, Drop, Working
  <2> QED
    BY <1>4, <2>1 DEF Reset, Clear, Reclear, InsertEntry, Store, Drop
<1> QED
  BY <1>1, <1>2, <1>3, <1>4
  DEF StepOf, Step, ImportStep, RenderStep, FetchStep, Fault, CreateConflict,
      InsertConflict, RenderEmpty, FetchRefused

\* While an import works on deck d the others that do are deletes, which have nothing
\* in memory that its entries could disagree with.
LEMMA ImportRules ==
  ASSUME RowInv, NEW t \in Requests, NEW d \in DeckIds, DeckOK(d), Alone(t),
         WorksOn(t, d), req[t].op = "import", req'[t] = req[t]
  PROVE  \A s \in Requests \ {t} : /\ ~Rewrites(s, d) /\ ~Rewrites(s, d)'
                                   /\ WorksOn(s, d)' => Remembers(s, d)'
<1> SUFFICES ASSUME NEW s \in Requests \ {t}
             PROVE  /\ ~Rewrites(s, d) /\ ~Rewrites(s, d)'
                    /\ WorksOn(s, d)' => Remembers(s, d)'
  OBVIOUS
<1>1. pc'[s] = pc[s] /\ req'[s] = req[s] /\ (WorksOn(s, d)' <=> WorksOn(s, d))
  BY DEF Alone, WorksOn, Ended
<1>2. ASSUME WorksOn(s, d) PROVE req[s].op = "delete" /\ pc[s] \in {"drop", "tell"}
  <2>1. req[s].op = "delete"
    BY <1>2 DEF DeckOK, Apart, Mixes
  <2> QED
    BY <1>2, <2>1, AtWork DEF RowInv, AskInv, Working
<1> QED
  BY <1>1, <1>2 DEF Rewrites, Remembers

\* An import takes a step on its deck.
LEMMA ImportWorks ==
  ASSUME RowInv, NEW t \in Requests, NEW d \in DeckIds, DeckOK(d), StepOf(t),
         WorksOn(t, d), req[t].op = "import"
  PROVE  DeckOK(d)'
<1> USE DEF RowInv, TypeOK, Goto, db, history
<1>1. Alone(t) /\ mem[t].id = d /\ pc[t] \in Working
  BY StepLocal, AtWork
<1>0. ASSUME req'[t] = req[t], mem'[t].id = d,
             Rewrites(t, d)' => json'[d] = Null,
             WorksOn(t, d)' => Remembers(t, d)',
             Matching(d)', Whole(d)'
      PROVE  DeckOK(d)'
  <2>1. Apart(d)'
    BY <1>0, <1>1, StillApart DEF DeckOK
  <2>2. \A s \in Requests \ {t} : ~Rewrites(s, d)' /\ (WorksOn(s, d)' => Remembers(s, d)')
    BY <1>0, <1>1, ImportRules
  <2>3. NoJsonYet(d)'
    BY <1>0, <2>2 DEF NoJsonYet
  <2>4. InMemory(d)'
    BY <1>0, <2>2 DEF InMemory
  <2> QED
    BY <1>0, <2>1, <2>3, <2>4 DEF DeckOK
<1>2. CASE Reset(t)
  <2>1. /\ pc'[t] = "clear" /\ json'[d] = Null
        /\ UNCHANGED <<row, entries, req, mem, torn>>
    BY <1>1, <1>2 DEF Reset
  <2>2. Rewrites(t, d)'
    BY <1>1, <2>1 DEF Rewrites, WorksOn, Ended
  <2> QED
    BY <1>0, <1>1, <2>1, <2>2 DEF Remembers, Matching, Whole
<1>3. CASE Clear(t) \/ Parse(t) \/ Reclear(t)
  <2>1. /\ pc[t] \in {"clear", "parse", "reclear"} /\ pc'[t] \in {"parse", "reclear", "insert"}
        /\ UNCHANGED <<row, json, req, torn>> /\ mem'[t].id = d
    BY <1>1, <1>3 DEF Clear, Parse, Reclear
  <2>2. Rewrites(t, d)' /\ json[d] = Null
    BY <1>1, <2>1 DEF Rewrites, WorksOn, Ended, DeckOK, NoJsonYet
  <2>3. Remembers(t, d)'
    <3>1. CASE Clear(t)
      BY <3>1 DEF Clear, Remembers
    <3>2. CASE Parse(t)
      BY <3>2 DEF Parse, Remembers
    <3>3. CASE Reclear(t)
      <4>1. mem[t].cards \in Contents
        BY <3>3 DEF Reclear, DeckOK, InMemory, Remembers
      <4> QED
        BY <1>1, <3>3, <4>1 DEF Reclear, Remembers
    <3> QED
      BY <1>3, <3>1, <3>2, <3>3
  <2> QED
    BY <1>0, <2>1, <2>2, <2>3 DEF Matching, Whole
<1>4. CASE InsertEntry(t)
  <2>1. PICK e \in Foremost(todo[t]) :
          /\ Insertable(mem[t].id, e)
          /\ entries' = [entries EXCEPT ![mem[t].id] = @ \cup {e}]
          /\ todo' = [todo EXCEPT ![t] = @ \ {e}]
    BY <1>4 DEF InsertEntry
  <2>2. pc[t] = "insert" /\ UNCHANGED <<row, json, pc, req, mem, torn>>
    BY <1>4 DEF InsertEntry
  <2>3. e \in todo[t] /\ Present(d)
    BY <1>1, <2>1 DEF Foremost, Insertable
  <2>4. /\ todo[t] \subseteq mem[t].cards /\ entries[d] = mem[t].cards \ todo[t]
        /\ mem[t].cards \in Contents
    BY <2>2, <2>3 DEF DeckOK, InMemory, Remembers
  <2>5. entries'[d] = entries[d] \cup {e} /\ todo'[t] = todo[t] \ {e}
    BY <1>1, <2>1
  <2>6. Rewrites(t, d)' /\ json[d] = Null
    BY <1>1, <2>2 DEF Rewrites, WorksOn, Ended, DeckOK, NoJsonYet
  <2>7. Remembers(t, d)'
    <3>1. todo'[t] \subseteq mem[t].cards /\ entries'[d] = mem[t].cards \ todo'[t]
      BY <2>3, <2>4, <2>5
    <3>2. mem' = mem /\ req' = req /\ pc'[t] = "insert"
      BY <2>2
    <3> QED
      BY <2>4, <3>1, <3>2 DEF Remembers
  <2> QED
    BY <1>0, <1>1, <2>2, <2>6, <2>7 DEF Matching, Whole
<1>5. CASE Parsed(t) \/ LockGranted(t) \/ Render(t)
  <2>1. /\ pc[t] \in {"insert", "wait", "render"} /\ pc'[t] \in {"wait", "render", "store"}
        /\ UNCHANGED <<db, req, mem, todo, torn>>
        /\ pc[t] = "insert" => todo[t] = {}
    BY <1>1, <1>5 DEF Parsed, LockGranted, Render
  <2>2. Rewrites(t, d)' /\ json[d] = Null
    BY <1>1, <2>1 DEF Rewrites, WorksOn, Ended, DeckOK, NoJsonYet
  <2>3. Present(d) => entries[d] = mem[t].cards
    BY <2>1 DEF DeckOK, InMemory, Remembers
  <2>4. mem[t].cards \in Contents
    BY <2>1 DEF DeckOK, InMemory, Remembers
  <2>5. Remembers(t, d)'
    BY <2>1, <2>3, <2>4 DEF Remembers, Present
  <2> QED
    BY <1>0, <1>1, <2>1, <2>2, <2>5 DEF Matching, Whole
<1>6. CASE Store(t)
  <2>1. /\ pc[t] = "store" /\ pc'[t] = "done" /\ UNCHANGED <<row, entries, req, mem>>
        /\ Present(d) => json'[d] = mem[t].cards
    BY <1>1, <1>6 DEF Store
  <2>2. ~WorksOn(t, d)' /\ ~Rewrites(t, d)'
    BY <2>1 DEF WorksOn, Ended, Rewrites
  <2>3. Present(d) => Complete(d)'
    BY <2>1 DEF DeckOK, InMemory, Remembers, Complete
  <2> QED
    BY <1>0, <1>1, <2>1, <2>2, <2>3 DEF Matching, Whole, Complete, Present
<1>7. ASSUME Abort(t), pc[t] # "wait" PROVE DeckOK(d)'
  <2>1. pc'[t] = "failed" /\ UNCHANGED <<db, req, mem, todo>>
    BY <1>7 DEF Abort
  <2>2. ~WorksOn(t, d)' /\ ~Rewrites(t, d)'
    BY <2>1 DEF WorksOn, Ended, Rewrites
  <2>3. Matching(d)'
    BY <2>1 DEF DeckOK, Matching, Present
  <2>4. Whole(d)'
    <3>1. CASE pc[t] = "reset"
      <4>1. Complete(d) \/ d \in torn \/ ~Present(d)
        BY <1>1, <3>1, ImportRules, <2>1 DEF DeckOK, Whole, Rewrites
      <4> QED
        BY <1>7, <3>1, <2>1, <4>1 DEF Abort, Whole, Complete, Present
    <3>2. CASE pc[t] # "reset"
      <4>1. d \in torn'
        BY <1>1, <1>7, <3>2 DEF Abort, Working, AskInv
      <4> QED
        BY <4>1 DEF Whole
    <3> QED
      BY <3>1, <3>2
  <2> QED
    BY <1>0, <1>1, <2>1, <2>2, <2>3, <2>4
<1>8. CASE \/ StartImport(t) \/ StartOnDeck(t) \/ SelectFound(t) \/ SelectNone(t) \/ Create(t)
           \/ FetchForDelete(t) \/ FetchRendered(t) \/ FetchUnrendered(t) \/ Drop(t) \/ Tell(t)
  BY <1>1, <1>8
  DEF StartImport, StartOnDeck, SelectFound, SelectNone, Create, FetchForDelete,
      FetchRendered, FetchUnrendered, Drop, Tell, Working, AskInv
<1> QED
  BY <1>1, <1>2, <1>3, <1>4, <1>5, <1>6, <1>7, <1>8
  DEF StepOf, Step, ImportStep, RenderStep, FetchStep, Fault, CreateConflict,
      InsertConflict, RenderEmpty, FetchRefused

\* A download takes a step on its deck: no import works on it.
LEMMA DownloadWorks ==
  ASSUME RowInv, NEW t \in Requests, NEW d \in DeckIds, DeckOK(d), StepOf(t),
         WorksOn(t, d), req[t].op = "download"
  PROVE  DeckOK(d)'
<1> USE DEF RowInv, TypeOK, Goto, db, history
<1>1. /\ Alone(t) /\ mem[t].id = d /\ pc[t] \in {"wait", "render", "store"}
  BY StepLocal, AtWork DEF AskInv, Working
<1>2. ASSUME NEW s \in Requests PROVE ~Rewrites(s, d)
  BY <1>1 DEF DeckOK, Apart, Mixes, Rewrites
<1>3. CASE LockGranted(t) \/ Render(t)
  <2>1. /\ pc'[t] \in {"render", "store"} /\ UNCHANGED <<db, req, mem, todo, torn>>
    BY <1>1, <1>3 DEF LockGranted, Render
  <2>2. Apart(d)'
    BY <1>1, <2>1, StillApart DEF DeckOK
  <2>3. \A s \in Requests : ~Rewrites(s, d)'
    BY <1>1, <1>2, <2>1 DEF Rewrites, Alone, WorksOn, Ended
  <2>4. NoJsonYet(d)' /\ Matching(d)' /\ Whole(d)'
    BY <1>2, <2>1, <2>3 DEF DeckOK, NoJsonYet, Matching, Whole, Complete, Present
  <2>5. Remembers(t, d)'
    BY <1>1, <2>1 DEF DeckOK, InMemory, Remembers, Present
  <2>6. \A s \in Requests \ {t} : WorksOn(s, d)' => Remembers(s, d)'
    BY <1>1, <2>1 DEF Alone, WorksOn, Ended, DeckOK, InMemory, Remembers, Present
  <2> QED
    BY <2>2, <2>4, <2>5, <2>6 DEF DeckOK, InMemory
<1>4. CASE Store(t)
  <2>1. /\ pc'[t] = "done" /\ UNCHANGED <<row, entries, req, mem, todo, torn>>
        /\ Present(d) => json'[d] = mem[t].cards
    BY <1>1, <1>4 DEF Store
  <2>2. ~WorksOn(t, d)'
    BY <2>1 DEF WorksOn, Ended
  <2>3. Apart(d)'
    BY <1>1, <2>1, <2>2, StillApart DEF DeckOK
  <2>4. \A s \in Requests : ~Rewrites(s, d)'
    BY <1>1, <1>2, <2>1, <2>2 DEF Rewrites, Alone, WorksOn, Ended
  <2>5. Present(d) => json'[d] = entries[d]
    BY <1>1, <1>4, <2>1 DEF DeckOK, InMemory, Remembers, Store
  <2>6. NoJsonYet(d)' /\ Matching(d)'
    BY <2>1, <2>4, <2>5 DEF NoJsonYet, Matching, Present
  <2>7. Whole(d)'
    BY <1>2, <2>1, <2>5 DEF DeckOK, Whole, Complete, Present
  <2>8. InMemory(d)'
    BY <1>1, <2>1, <2>2 DEF Alone, WorksOn, Ended, DeckOK, InMemory, Remembers, Present
  <2> QED
    BY <2>3, <2>6, <2>7, <2>8 DEF DeckOK
<1>5. CASE Abort(t)
  <2>1. pc'[t] = "failed" /\ UNCHANGED <<db, req, mem, todo, torn>>
    BY <1>5 DEF Abort
  <2>2. ~WorksOn(t, d)'
    BY <2>1 DEF WorksOn, Ended
  <2>3. Apart(d)'
    BY <1>1, <2>1, <2>2, StillApart DEF DeckOK
  <2>4. \A s \in Requests : ~Rewrites(s, d)'
    BY <1>1, <1>2, <2>1, <2>2 DEF Rewrites, Alone, WorksOn, Ended
  <2>5. NoJsonYet(d)' /\ Matching(d)' /\ Whole(d)'
    BY <1>2, <2>1, <2>4 DEF DeckOK, NoJsonYet, Matching, Whole, Complete, Present
  <2>6. InMemory(d)'
    BY <1>1, <2>1, <2>2 DEF Alone, WorksOn, Ended, DeckOK, InMemory, Remembers, Present
  <2> QED
    BY <2>3, <2>5, <2>6 DEF DeckOK
<1>6. CASE \/ StartImport(t) \/ StartOnDeck(t) \/ SelectFound(t) \/ SelectNone(t) \/ Create(t)
           \/ Reset(t) \/ Clear(t) \/ Parse(t) \/ Reclear(t) \/ InsertEntry(t) \/ Parsed(t)
           \/ FetchForDelete(t) \/ FetchRendered(t) \/ FetchUnrendered(t) \/ Drop(t) \/ Tell(t)
  BY <1>1, <1>6
  DEF StartImport, StartOnDeck, SelectFound, SelectNone, Create, Reset, Clear, Parse,
      Reclear, InsertEntry, Parsed, FetchForDelete, FetchRendered, FetchUnrendered, Drop, Tell
<1> QED
  BY <1>3, <1>4, <1>5, <1>6
  DEF StepOf, Step, ImportStep, RenderStep, FetchStep, Fault, CreateConflict,
      InsertConflict, RenderEmpty, FetchRefused

\* A delete takes a step on its deck.
LEMMA DeleteWorks ==
  ASSUME RowInv, NEW t \in Requests, NEW d \in DeckIds, DeckOK(d), StepOf(t),
         WorksOn(t, d), req[t].op = "delete"
  PROVE  DeckOK(d)'
<1> USE DEF RowInv, TypeOK, Goto, db, history
<1>1. /\ Alone(t) /\ mem[t].id = d /\ pc[t] \in {"drop", "tell"}
  BY StepLocal, AtWork DEF AskInv, Working
<1>2. CASE Drop(t)
  <2>1. /\ pc'[t] = "tell" /\ UNCHANGED <<req, mem, todo, torn>>
        /\ row'[d] = Deleted /\ json'[d] = Null
    BY <1>1, <1>2 DEF Drop
  <2>2. Apart(d)'
    BY <1>1, <2>1, StillApart DEF DeckOK, WorksOn, Ended
  <2>3. NoJsonYet(d)' /\ Matching(d)' /\ Whole(d)'
    BY <2>1, Constants DEF NoJsonYet, Matching, Whole, Present
  <2>4. Remembers(t, d)'
    BY <2>1 DEF Remembers
  <2>5. ASSUME NEW s \in Requests \ {t}, WorksOn(s, d)' PROVE Remembers(s, d)'
    <3>1. pc'[s] = pc[s] /\ WorksOn(s, d)
      BY <1>1, <2>5 DEF Alone, WorksOn, Ended
    <3>2. ~Present(d)'
      BY <2>1, Constants DEF Present
    <3> QED
      BY <2>1, <3>1, <3>2 DEF DeckOK, InMemory, Remembers
  <2> QED
    BY <2>2, <2>3, <2>4, <2>5 DEF DeckOK, InMemory
<1>3. CASE Tell(t) \/ Abort(t)
  <2>1. pc'[t] \in {"done", "failed"} /\ UNCHANGED <<db, req, mem, todo, torn>>
    BY <1>3 DEF Tell, Abort
  <2>2. ~WorksOn(t, d)' /\ ~Rewrites(t, d)' /\ ~Rewrites(t, d)
    BY <2>1 DEF WorksOn, Ended, Rewrites
  <2>3. Apart(d)'
    BY <1>1, <2>2, StillApart DEF DeckOK
  <2>4. \A s \in Requests : Rewrites(s, d)' <=> Rewrites(s, d)
    BY <1>1, <2>2 DEF Rewrites, Alone, WorksOn, Ended
  <2>5. NoJsonYet(d)' /\ Matching(d)' /\ Whole(d)'
    BY <2>1, <2>4 DEF DeckOK, NoJsonYet, Matching, Whole, Complete, Present
  <2>6. InMemory(d)'
    BY <1>1, <2>1, <2>2 DEF Alone, WorksOn, Ended, DeckOK, InMemory, Remembers, Present
  <2> QED
    BY <2>3, <2>5, <2>6 DEF DeckOK
<1>4. CASE \/ StartImport(t) \/ StartOnDeck(t) \/ SelectFound(t) \/ SelectNone(t) \/ Create(t)
           \/ Reset(t) \/ Clear(t) \/ Parse(t) \/ Reclear(t) \/ InsertEntry(t) \/ Parsed(t)
           \/ LockGranted(t) \/ Render(t) \/ Store(t)
           \/ FetchForDelete(t) \/ FetchRendered(t) \/ FetchUnrendered(t)
  BY <1>1, <1>4
  DEF StartImport, StartOnDeck, SelectFound, SelectNone, Create, Reset, Clear, Parse,
      Reclear, InsertEntry, Parsed, LockGranted, Render, Store, FetchForDelete,
      FetchRendered, FetchUnrendered
<1> QED
  BY <1>2, <1>3, <1>4
  DEF StepOf, Step, ImportStep, RenderStep, FetchStep, Fault, CreateConflict,
      InsertConflict, RenderEmpty, FetchRefused

LEMMA DeckInductive == RowInv /\ DeckInv /\ [Next]_vars => DeckInv'
<1> SUFFICES ASSUME RowInv, DeckInv, [Next]_vars, NEW d \in DeckIds, d \notin mixed'
             PROVE  DeckOK(d)'
  BY DEF DeckInv
<1>1. CASE UNCHANGED vars
  BY <1>1
  DEF vars, db, history, DeckInv, DeckOK, Apart, NoJsonYet, InMemory, Matching, Whole,
      Remembers, Complete, Rewrites, WorksOn, Ended, Present, Mixes
<1>2. ASSUME NEW t \in Requests, StepOf(t) PROVE DeckOK(d)'
  <2>1. Alone(t) /\ Noted(t)
    BY <1>2, StepLocal
  <2>2. DeckOK(d)
    BY <2>1 DEF Noted, DeckInv
  <2>3. CASE ~WorksOn(t, d) /\ ~WorksOn(t, d)'
    BY <1>2, <2>1, <2>2, <2>3, Untouched, Elsewhere
  <2>4. CASE ~WorksOn(t, d) /\ WorksOn(t, d)'
    BY <1>2, <2>2, <2>4, Joins
  <2>5. CASE WorksOn(t, d)
    <3>1. req[t].op \in {"import", "download", "delete"}
      BY <2>5, AskTypes DEF WorksOn, Ended, RowInv, AskInv
    <3> QED
      BY <1>2, <2>2, <2>5, <3>1, ImportWorks, DownloadWorks, DeleteWorks
  <2> QED
    BY <2>3, <2>4, <2>5
<1> QED
  BY <1>1, <1>2 DEF Next, Quiet, StepOf

----------------------------------------------------------------------------
\* The JSON of a deck no two requests got mixed up on is a rendering of exactly the
\* entries the database has for it, whatever failed before.
THEOREM JsonIsRight == Spec => []JsonMatchesEntries
<1>1. RowInv /\ DeckInv /\ [Next]_vars => (RowInv /\ DeckInv)'
  BY RowInductive, DeckInductive
<1>2. DeckInv => JsonMatchesEntries
  BY DEF DeckInv, DeckOK, Matching, JsonMatchesEntries
<1> QED
  BY InitRowInv, InitDeckInv, <1>1, <1>2, PTL DEF Spec

\* Such a deck is complete and rendered when nobody works on it and its last import
\* did not fail; and a user has one deck for a URL.
THEOREM LeftWhole == Spec => []CleanDecksAreWhole
<1>1. Init => OneDeckPerUrl
  BY Constants DEF Init, OneDeckPerUrl, Present
<1>2. RowInv /\ DeckInv /\ OneDeckPerUrl /\ [Next]_vars
        => (RowInv /\ DeckInv /\ OneDeckPerUrl)'
  BY RowInductive, DeckInductive, OneDeckStep
<1>3. DeckInv /\ OneDeckPerUrl => CleanDecksAreWhole
  BY DEF DeckInv, DeckOK, Whole, Complete, Rewrites, CleanDecksAreWhole
<1> QED
  BY InitRowInv, InitDeckInv, <1>1, <1>2, <1>3, PTL DEF Spec
=============================================================================
