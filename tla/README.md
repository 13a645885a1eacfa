# A verification model of ttsmagic

ttsmagic turns a Magic: The Gathering deck list on a deck site into an object
that Tabletop Simulator (TTS) can load. This directory holds TLA+ modules of the
parts of the program where something happens concurrently or where an index can
go wrong, TLC configurations that check them on small instances, and proofs that
hold for all instances. Paths below are relative to `ttsmagic-server/src` unless
they start with another directory.

## 1. The system

One server process (async-std tasks on a thread pool) talks to PostgreSQL
(through a connection pool), Redis (publish/subscribe to each user, and the
session cache), S3-like file storage, the Scryfall API and the deck sites. Every
browser keeps one websocket to it. The same binary runs migrations, card imports
and uploads from the command line.

| component | code | state it keeps | operations | talks to |
|---|---|---|---|---|
| render coordinator | `tts/render_coordinator.rs` | `LOCK`, `PENDING` (process-wide) | `wait_for_lock`, drop of the guard | Redis (queue lengths) |
| deck pipeline | `deck.rs`, `web/ws.rs`, `web/deck.rs` | tables `deck`, `deck_entry` | import (`load_deck` + `Deck::render`), download, delete | deck sites, renderer, database |
| page layout and TTS object | `tts.rs` | the pages and `card_mapping` of one render | `collect_card_piles`, `make_pages`, `save_pages`, `render_piles_to_json` | image cache, file store |
| parallel image stream | `utils/async_par_stream.rs` | queue of tasks, queue of values | `new`, `poll_next`, drop | executor |
| websocket service | `web/ws.rs`, `notify.rs` | a subscription, a zero-capacity channel, a database connection per request | forward notifications, dispatch requests, ping | browser, Redis, pool |
| browser client | `ttsmagic-frontend/src` | the deck list and the progress of renders | apply notifications, reconnect | websocket |
| login and sessions | `web/session.rs`, `web/steam.rs`, `user.rs` | sessions in Redis, users in the database | session middleware, OpenID login | Redis, Steam |
| deck site loaders | `deck/loaders.rs` | none | match URL, fetch, split into piles | deck sites |
| card database | `scryfall.rs` | table `scryfall_card`, the bulk file | look up, expand an oracle id, bulk load | database, Scryfall |
| Scryfall client, image cache | `scryfall/api.rs`, `utils.rs` | cached images, a rate limit | get an image | Scryfall, file store |
| file store | `files.rs`, `ttsmagic-s3` | keys of a bucket | create, upload, upload a folder | S3 |
| redirects | `utils/surf_redirect_middleware.rs` | none | follow up to 5 redirects | HTTP |
| migrations | `migrations.rs`, `schema/` | table `migrations` | apply all | database |
| command line | `main.rs` | none | dispatch of the subcommands | all of these |
| old-system import, cleanup | `importer.rs` | tables `deck`, `deck_entry` | import, canonicalise URLs | database |

What makes each of them correct, and what is hard about it:

* *Render coordinator.* One render at a time; the queue announced to the waiting
  users is the real one; no error path keeps a guard. Hard: two mutexes, polling
  with a sleep, Redis failing between two announcements.
* *Deck pipeline.* No request opens a transaction, so imports, downloads and
  deletions of a deck interleave statement by statement, and any of them can
  fail in between. Correct means that the stored JSON and the entries describe
  one list, that a deleted deck stays deleted, that nobody touches somebody
  else's deck and that every request ends.
* *Page layout.* Images arrive in any order; slot, page and deck id must stay
  together, the hidden-face slot must stay free, pages must be big enough.
* *Parallel stream.* Bounded memory, no value lost or repeated, no lost wake-up,
  no starvation, and an end that means the end.
* *Websocket, browser.* The list in the browser converges to the table although
  the list and the notifications travel separately; no request is stuck between
  the pool and the channel.
* *Loaders, card database.* As many copies of a card are saved as the list has,
  although they pass through two piles, a commander may be dug out of them, and
  they are spread over printings. Hard: counts are `u8`, rows of one card add up on
  one site and replace each other on the others.
* *Image cache, file store.* A good image is never replaced by a worse one, requests
  to Scryfall keep their distance, no file is deleted before it is in the store, and
  no object is overwritten. Hard: the store has no conditional upload, commands are
  killed between upload and deletion, several loads want the same image.
* *Redirects.* The answer belongs to the request; the loop ends in every circle.
* *Migrations, import, cleanup, bulk load.* They are started again after any crash,
  and run beside each other and beside users; label and schema stay together, no deck
  loses its cards, a file that was cut off does not stay.
* *Sessions.* A cookie never names somebody else's session, whichever answers cross.

The complete list of hazards, each with its line and the properties about it, is
in `PROJECT.json`.

## 2. Modules

| module | models | role |
|---|---|---|
| `RenderMutex` | what the coordinator promises: an exclusive lock | abstract specification |
| `RenderCoordinator` | `wait_for_lock` and the life of its guard | detailed; implements `RenderMutex` |
| `DeckService` | import, download and delete over the tables | composes with `RenderMutex` for the lock |
| `WsPool` | connection loops, request tasks, the database pool | composes with `RenderMutex`; the tables are `DeckService`'s |
| `UserEvents` | the browser's deck list against the tables, over Redis and websocket | component |
| `Sessions` | login, logout, the session middleware | component |
| `ParallelStream` | the stream of image loads | component |
| `PageLayout` | pages, slots, deck ids | component; takes from `ParallelStream` that any load in flight may be next |
| `Redirects`, `DeckLists`, `RelatedTokens`, `ImageCache`, `RenderMemory` | the stages of the work behind a deck | components; `RenderMemory` composes `RenderMutex` with the stream's bound |
| `DeckWork` | these five | composition |
| `SchemaHistory` | what `migrate` promises: one version of the schema after the other | abstract specification |
| `Migrations` | the command `migrate`, several processes | detailed; implements `SchemaHistory` |
| `Uploads`, `OldDecks`, `BulkLoad` | `upload-files` beside saves; `import-old`, `cleanup` beside users; `load-scryfall-bulk` | components |
| `CommandLine` | these four | composition |
| `...Proofs` | | theorems about the module they are named after; `DeckWorkProofs` has those about `ParallelStream`, too, `CommandLineProofs` those about `Migrations` |
| `MC...` | | constants of the instances TLC checks |

Operators whose comment says *Mutant* are plausible bugs of the definition that
follows them. The specifications never use them; they document which mistake a
property would notice.

### RenderCoordinator

`pc[r]` is where call `r` of `wait_for_lock` stands; every `await` and every
mutex operation is a step of its own. `lock` and `pendingLock` say whose guard of
`LOCK` and `PENDING` is alive. `Register` is a single step because its guard of
`PENDING` does not survive the block; `Dequeue` keeps the guard, as the code
does, until the announcements are over (`Enter`) or one of them fails
(`AnnounceError`). The announcements go out in any order (hash map iteration).
`Leave` is the end of `render_deck`, with success or failure. `PENDING` is a map
from deck to owner; a deck has one owner, so the model keeps the set of decks.

### DeckService

One action per SQL statement; consecutive local computations belong to the
statement before or after. `row` keeps user and URL of each deck row (`Unborn`
before, `Deleted` after), `json` and `entries` the rest. The deck id of a new deck
is any unborn id (a random uuid that does not collide). `Fault` may end a request
at any statement; what it executed before stays. The order commander, main deck,
sideboard of the inserts is kept, the order inside a pile is open. The lock is
`RenderMutex`; that the coordinator provides it is what `ImplementsMutex` says.
Left out: copies, titles, colour identity, progress notifications, the message
`GetDecks` (read-only), the command line's imports (which do use transactions).

Two history variables delimit what the code promises. `mixed` is the set of decks
that an import and another import or download worked on at the same time: for
those the tables may really end up inconsistent (two imports of one deck
interleave their entries, and a render that started from the old entries may
store its JSON after a newer one, because the render lock is given back before
the JSON is stored). `torn` is the set of decks whose last import failed half-way;
they lack entries until they are imported again. The invariants are about all
other decks.

### ParallelStream

`tasks` and `values` are the two deques, `spawned` is `next_id`, `left` counts the
`JoinHandle`s the current poll has still to look at. Tasks finish (`Finish`) between
any two of them. `wakers` and `woken` model the waker contract: a pending
`JoinHandle` keeps the waker of its last poll and calls it on completion. A
wake-up from before the current poll is not counted, because the caller may have
spent it on another `await` in between: the consumer must not depend on it.

### PageLayout

`listing` is the list of futures of `make_pages` (the piles, one after the other);
`InFlight` says which may be next: the first `Parallelism` that were not yielded,
which is what `ParallelStream` keeps running. A page maps cards to slots
(`slotOf`, the code's `card_mapping`) and remembers what is drawn in each slot
(`shows`, the image). Rows and columns are flattened to slot numbers, which is
also how TTS numbers them. `FaceOf` is the game's reading of a deck id.

### WsPool

Who waits for whom. `loop[c]` is where the loop of a websocket connection stands:
it runs (`"running"`, where it takes what its tasks send or reads a message),
or it waits for a database connection for the message it read (`"acquire"`) and
then for Redis (`"redis"`), and takes nothing meanwhile. `at[t]` is where the
handling of a message or download stands, `idle` how many connections are in
the pool, `inbox` what a browser sent and the server has not read. The
statements of a request are one step here (`"handling"`), because they wait for
nothing but the database; `DeckService` has them one by one. The channel of
capacity 0 keeps its sender waiting until the receiver has taken the message
(`Take`) or is gone (`Orphaned`). The pool is external: `acquire` succeeds when a
connection is idle, and may fail at any time (timeout, or no connection to the
database). The lock is `RenderMutex`. Left out: pings, the forwarding of
notifications, and the sending on the socket, which belong to steps of a
running loop that change nothing here. A browser that stops reading is
therefore not in the model.

### UserEvents

One user's browser. `present`, `listed` and `json` are what the tables hold (decks
with a row, with entries, with a JSON); jobs write them and publish notifications in
the order of the code, two steps for a write and its message, and may fail at any
of them. `channel` is what Redis has for the connection, `answer` the handle sink,
`wire` the websocket; `ForwardAnswer` and `ForwardNote` are the two ways of the
`select!`, either of which may be taken first. The subscription may end
(`RedisDisconnects`) while the connection goes on; the socket may break and is
opened again, but `GetDecks` is only sent when `DeckList` is created (`ask`). `shown`,
`busy` and `link` are the state of `DeckList` in the browser. The history variable
`doubt` collects the decks about which the browser may be wrong for a reason the
code does not guard against: a notification that nobody was subscribed for, that came
before the list or was on a connection that broke; jobs that failed or overlapped;
a list read between `Rendered` and the storing of the JSON. The properties are about all
other decks, at every moment at which nothing is under way about them.

### Sessions

One browser with several tabs, so one cookie jar (`jar`). A request is a sequence of
steps, one per call to Steam, Redis or the database; `LoginAnswer` and `LogoutAnswer`
set the cookie when the answer arrives, in any order. `Send` takes the cookie along
as the browser has it then. Redis forgets a session after `RedisDays` (3 in the
code), the browser its cookie after `CookieDays` (7, not renewed); `NextDay` lets time
pass. `Rename` is a change of name at Steam, and `Upsert` its way into the table.

### Redirects, DeckLists, RelatedTokens, ImageCache, RenderMemory

*Redirects* is the loop of `RedirectMiddleware` over any small web: what every URL
answers is drawn at the start. `Chains` in the property is the reference: the
sequences of URLs each of which redirects to the next. *DeckLists* reads rows chosen one by one, and
models `u8` additions by `MaxCopies`; `Wraps` tells a release build (additions wrap)
from a debug build (they panic). `extract_commanders` and `expand_oracle_id` are
translated step by step, and compared with the copies the list asks for.
*RelatedTokens* is the work queue of `get_tokens` over any graph of related parts, compared
with the least set of cards that has the deck's and all parts of its own (`All`). *ImageCache* has several loads of `get_image_by_id`, with
the mutex of `delay` held while sleeping, redirections, the ladder of formats,
objects that do not decode, and uploads that find the key taken. Scryfall's answer may
not decode (`bytes`), the store may refuse an upload (`refused`, which the load does not
notice), or take it and lose the answer (`Fails`). `MediaFile::delete`
is modelled as what it does, which is nothing to the store. *RenderMemory* counts the images
in memory: a render that fails gives the lock back while the loads its stream
had spawned go on.

`DeckWork` puts them together: `stage` says which of them is looked at, the others
keep one fixed state. Some variables of the stages have another name here (`begun`, `loaded`,
`partsLeft`, `AtOnce`), so that a module can extend `DeckWork` and `ParallelStream`. The stages of one request follow each other and share no
state beyond what the next one starts from, which is any of its initial states, so that
nothing is gained by running two at a time; what requests share (cache, rate limit,
render lock) is inside a stage. The properties of the composition say what a
request may rely on, whatever the stage.

### Migrations, Uploads, OldDecks, BulkLoad

*Migrations* has several processes, each at its place in the list of migrations and in
the statements of one; `schema` counts how often each statement has taken effect.
Of PostgreSQL it has the blocking on objects and unique labels of open transactions
(external). `Repeatable` says which statements can run twice, as two of
`0004` can. *Uploads* has scanners, a channel of capacity one, and
a pool of workers, each of which asks, uploads and deletes; savers of the server
look for a free key meanwhile. *OldDecks* has `import-old` (a transaction per deck) and
`cleanup` (a statement at a time) beside a user who imports and deletes decks.
*BulkLoad* has the bulk file, its age, its length when a download was cut off, and the
byte arithmetic of `ParseIter`.

`CommandLine` puts them together as `main.rs` does: a command is started by hand, so
`running` says which of the four groups it is, with everything that may run beside it
in the same module. `SuccessMeansDone`, `NothingLost`, `FailuresHaveReason` and
`CommandsEnd` are what all of them owe to whoever starts them.

## 3. Runs

| run | instance | shows |
|---|---|---|
| `render_queue` | 4 renders of 4 decks, `U16Max` = 3 | exclusion, truthful queue, no leaked guard, overtaking is the only way to wait for ever, refinement of `RenderMutex`. Three waiting renders saturate the queue length, so the boundary is reached. |
| `render_queue_same_deck` | 3 renders, two of one deck | *violated*: see Findings |
| `deck_service` | 3 requests, 2 users, 1 URL, 3 decks, 3 entries, two lists that share a sideboard card | the tables. Three requests cover every pair of overlapping ones with a third before, between or after; two decks of different owners and a re-created deck occur. Symmetry in requests, decks and users (safety only). |
| `deck_service_live` | 3 requests of one user; a list may lack a main deck | every request ends |
| `parallel_stream` | 6 futures, 3 at a time | the window moves over the iterator twice, tasks finish at every point of a scan |
| `pages` | decks of 0 to 15 cards; pages of 4, 6 and at most 8 slots; 2 loads at a time | every page boundary up to the third page, in every order of arrival. The sizes of the code, and decks of any size, are the theorems' (section 5). |
| `pages_shared_card` | a card in two piles, the sizes of the code | *violated*: see Findings |
| `ws_pool` | 2 browsers, 4 messages, 1 download, 2 connections in the pool | no connection leaks on any path; only deck lists can block the pool, and not for ever |
| `user_events` | one deck; two overlapping jobs, or one job and two breaks, or four breaks | the browser's list is the table again when things have come to rest; links lead somewhere; nothing hangs |
| `sessions` | 2 tabs, 2 accounts, 2 names, 2 sessions, 3 days | cookies work for as long as Redis keeps the session; a session is one user's |
| `commands` | 2 processes that migrate 3 migrations, one start more each; 2 folders with a file each, 2 workers, a saver, 2 runs; 2 old decks, 3 URLs, 2 imports, a cleanup, an addition and a deletion by the user; 3 cards, 3 versions, 2 faults | commands do what they report, lose nothing, fail for a reason only, and end |
| `deck_work` | 3 URLs with any answers, limit 3; 3 cards, lists of 2 rows, 2-bit counts; graphs over 4 cards; 2 loads of one image in 3 formats, any store; 3 renders of 4 images, 2 at a time | the results of each stage, against reference definitions; the cache, with refused and lost uploads, error pages and broken bytes; the memory; that the stages that loop or wait end (fetch, tokens, images) |

Bounds: `U16Max` (65535 in the code) is 3 so that it is reached; deck ids, requests
and futures are finite because each request is handled once and each id drawn
once; a pool of 2 is exhausted by two lists, two renders, or one of each, with a
third party still waiting. In `user_events` a job takes the place of two breaks
(`MaxBreaks`), because both together give nothing new about a deck that is not in
doubt. `Limit` of `Redirects` (5) is 3 and a web of three URLs has circles and chains
of every length around it. Counts of copies have two bits instead of eight, and decks
two cards instead of 100, so that an overflow takes two rows. `SessionIds` are two: two
logins get as far as a session, one per tab or both in one.
`MaxRuns`, `MaxImports`, `MaxCleanups`, `MaxAdds`, `MaxDeletes`, `MaxFaults`, `MaxStarts`
and `MaxVersion` count how often a command is started, or the world changes, in one
behaviour. `commands` and `deck_work` use no symmetry because they check liveness.

Fairness. `RenderCoordinator`: a call that can take a step takes one (weak, per
call): the executor runs ready tasks, sleeps end, publishes and renders return or
fail. Nothing makes the lock fair: `try_lock` is polled, so
`ServedUnlessOvertaken` promises no more than it can. `DeckService`: weak, per
request; no fairness on `Fault`, and no strong fairness on the lock: the requests
are finitely many, so each gets it in the end. `ParallelStream`: weak on the
consumer and on the completion of every spawned future; an image load ends
because its HTTP request does or fails. `WsPool`: weak per loop, download and
request task; it rests on every wait for the pool ending by itself
(`GetConnection` is a success or a timeout) and on nothing else: nobody has to
connect, send, hang up or fail. `UserEvents`: weak on the work of a job that
was started, on the server's half of the connection, on each of the two ways of the
`select!` by itself (it chooses at random), on the browser's opening its socket and
on its handling what arrives; none on starts, breaks and reloads. `Migrations`: weak
per process; a lock ends when its holder does, killed or not. `Uploads`: weak per
scanner, per worker and on the poll of the pool, which are tasks of one executor.
`BulkLoad`: somebody runs the command again and again, its steps
and the file's ageing go on; nothing says that faults stop, but they are bounded. `Redirects`,
`RelatedTokens`: weak on the only task there is. `ImageCache`: weak per load, and the
clock ticks. `OldDecks`, `RenderMemory`, `DeckLists`, `Sessions`: none.
Runs that let the system stop say so (`CHECK_DEADLOCK FALSE`): browsers need not
send anything, and commands end.

## 4. Findings

1. *A second waiting render of the same deck is forgotten by the queue.*
   `PENDING` has one entry per deck. When two renders of one deck wait (the user
   asks again while the first waits), the first to get the lock removes the entry
   (`tts/render_coordinator.rs:39`); the other is neither counted nor told the
   queue length. Run `render_queue_same_deck`. Everything else, the exclusion in
   particular, holds without the assumption of distinct decks, and
   `ListenersTold` is proved with it.
2. *A card in two piles gets another card's face.* `make_pages` takes the next
   slot from `card_mapping.len()`, and the map is keyed by card. The second copy
   of a card that is in the main deck and in the sideboard does not make the map
   longer, so the following card is drawn over it and shares its deck id
   (`tts.rs:486`-`505`), although `schema/0004_fix_deck_entry_pk.sql` allows such
   decks on purpose. Run `pages_shared_card`.

Besides, modelling brought these to light. They contradict nothing that the
repository says, so no run is about them; the modules have the code as it is, and the
properties name the exception.

* `put_object` does not look at the status of the answer: a file whose upload was refused
  is deleted from the disk all the same (`refused` in `Uploads`), and an image whose
  upload was refused is returned, but not in the cache (`refused` in `ImageCache`).
* `get_object` does not look at it either: the store's error page for an image that is
  there is taken for an image that does not decode, and the image is downloaded again
  (`LookOn`, `Miss` in `ImageCache`).
* `MediaFile::delete` does nothing in the store, so a cached image that does not decode
  stays, and the fresh one goes to a random key where nobody looks (`ImageCache`).
* A failed render's loads overlap with those of the next one: memory is bounded by
  `Parallelism` times one more than the failed renders (`RenderMemory`).
* `import-old` asserts that a deck it loaded has cards, after the commit: a user who deletes
  the deck in between makes it panic; `cleanup` may delete a deck as a duplicate of one
  that the user has just deleted (`lost` in `OldDecks`).
* A bulk file that was cut off counts as fresh for 23 hours: runs fail, panic on an
  empty one, or stop between two cards and report success (`BulkLoad`).
* `RedirectMiddleware` panics (`todo!()`) when it meets its limit (`Redirects`).
* Two Deckbox cards may both be taken for commanders; a list with several rows of one
  card keeps the last row's count on Deckbox and Archidekt; TappedOut's rows
  add up in a `u8` (`DeckLists`). Tokens that only a commander makes are not looked
  for (`RelatedTokens`).
* Between the third and the seventh day the browser sends a cookie that Redis no longer
  knows (`Sessions`). Logging out leaves the session in Redis.
* `GetDecks` is not repeated when its connection breaks, so the list may stay on
  "Loading" until the page is loaded again (`UserEvents`).
* Lists behind their own loops can hold all of the pool's connections until a waiter
  times out (`WsPool`).

## 5. Proofs

The eight `...Proofs` modules hold theorems for every value of the constants;
`tlapm <module>.tla` checks them. Every invariant and every action property of the passing
runs is proved, two of them with hypotheses that the findings show to be needed
(`AllListenersTold`, `CardsShowTheirFace`), and so are the refinements. Liveness is out of the
prover's reach and is model-checked only: `ServedUnlessOvertaken` of the coordinator,
`EveryRequestEnds` of the deck pipeline, `ReachesEnd` of the stream, `EverythingSettles` of
`WsPool`, `ListArrives` and `BarsEnd` of `UserEvents`, `CommandsEnd` and `WorkEnds`.
Induction over data is out of its reach, too: where a property speaks of a sum, of a chain
or of what can be reached, the modules say it without recursion (the size of a set,
a function from numbers to URLs, a least set), so that it can be proved.

**RenderCoordinatorProofs**, from the named assumptions of `RenderCoordinator` (a
finite set of decks, a queue length that fits at least 1). `OneRenderAtATime` is not
inductive by itself: the invariant `IInv` adds that the program counters and
the two mutexes agree (`LockInv`, `PendingLockInv`), and that while a render
announces, the decks it has already told were told the length that is still
current (`AnnounceInv`), which holds because it keeps the guard of `PENDING`.
`TypeCorrect`, `MutualExclusion`, `QueueHasNoGhosts` follow. `ListenersTold`
has the hypothesis `DistinctDecks` and uses `ListedInv`; without the hypothesis
it is false (finding 1). `Refinement`: each step of the coordinator is a step of
`RenderMutex` or changes none of its variables.

**DeckServiceProofs**, from `DeckService`'s assumptions (the constants are
different from each other, a list consists of entries). The invariant has two parts.
`RowInv` is about the rows alone: a request that has a deck in memory has
checked its owner and the row has not changed hands since, only vanished
(`OwnInv`); a row that is gone stays gone (`DeletedInv`), with nothing left
of it (`NoRowInv`). It gives `TypeCorrect`, `DeletedForGood`, `OwnersOnly`. `DeckInv`
says of every deck outside `mixed` that its users take turns (`Apart`), that
there is no JSON while an import rewrites it (`NoJsonYet`), and that what a request
remembers is what the database has (`InMemory`, with the entries inserted so far
in the middle of `save_cards`). That makes the JSON it stores the right one
(`JsonIsRight`) and the deck it leaves complete (`LeftWhole`, which also has that a user
has one deck per URL, by `OneDeckStep`). The argument has
one lemma for a request that comes to a deck (`Joins`), one for a request busy
elsewhere (`Elsewhere`) and one for each kind of request at work on it.

**DeckWorkProofs, the stages**, for any web, lists, cards, loads and renders. Each stage has an
invariant of its own, and a step of one leaves the variables of the others alone.
*Redirects* (`FetchInv`): the next request stands at the end of a chain of as many
redirections from the caller's URL as were counted. *DeckLists* (`ListInv`): the
piles hold what the rows read so far ask for (`CopiesInv`: on TappedOut their sum modulo the
counter's width, elsewhere the last row of a card; `ExactInv`: exactly the sum where overflow
panics), a commander taken out of the main deck fits what is left of it (`FitInv`), and
the entries are the piles (`SavedInv`), spread evenly. The two builds differ in TappedOut's rows
only, so they share one proof. Its lemmas are about sums as sizes of sets (`Weight`),
remainders, and what `expand_oracle_id` deals to each printing. *RelatedTokens*
(`SearchInv`): the parts of a card that was worked on have been met or are still to be looked
at, and nothing is met that the deck does not lead to; an empty queue then makes the
cards that were met a complete set, so that they contain the least one. *ImageCache* (`CacheInv`):
who sleeps holds the mutex and wakes when the gap is over (`SleepInv`); who is about to save has
bytes that decoded (`SavingInv`), so that whatever is saved, by whom and over what, is good; who is
done has seen or left an object, or was refused (`StoredInv`).
*RenderMemory* (`MemoryInv`): no stream is ahead of what was taken by more than `AtOnce`,
one render holds the lock, one that was rendered has taken everything. `ResultsHold`,
`ImagesAreSafe` and `MemoryBounded` follow, the last by adding up over the failed renders and the
one that goes on.

**DeckWorkProofs, the stream**, for every number of futures and every parallelism of at
least 1. `StreamInv` adds to the types that the stream is as full as it can be
(`FullInv`), that it never scans or parks with nothing in flight (`BusyInv`), that
every task a scan has passed has the current waker or has finished after it got it
and called it (`PolledInv`), and that tasks, values and yielded futures
partition what was spawned (`PlaceInv`, by counting: the pieces cover
`1 .. spawned` and their lengths add up to it, so no future is twice in them).
`StreamTypes`, `MemoryIsBounded`, `NothingLost`, `EndIsComplete` and
`NoWakeupIsLost` follow; the lemmas on `Elements` say what queue operations do to
the set of elements. `NobodyStarves` needs more: a finished future has been overtaken by
so few that the bound still holds when everything ahead of it is yielded first, which
is the values before it if it is a value (`AheadOfValues`), and all values and the tasks
before it if it is still a task (`AheadOfTasks`). A task that finishes just after the scan has
passed it stands out: nobody has overtaken it yet (`PassedBy`). `StreamRefines` ties
the stream to `RenderMemory`, which only counts: each step of the stream is a load that
ends, a `Take`, the end of a render or its failure there, or nothing.

**WsPoolProofs**, for any browsers, messages and downloads and any size of the pool.
`PoolAccounted` needs to know that a step moves one connection: `Shape` says that
an inbox holds a message once and for its own loop (`InboxInv`), that a loop waits
for a connection or for Redis exactly when it has read one message that has no
task yet (`DispatchInv`: so `Spawn` hands the connection to one task), that
tasks run only for loops past their login (`SpawnedInv`) and that the lock agrees with
where the renders stand (`LockInv`). `TypeCorrect`, `NoConnectionLeaks` and
`OnlyListsBlock` follow; the last by counting: if nobody who has a connection goes
on, no render can be waiting for the lock (its holder would go on), so all
holders are lists behind their loops, and there are as many as the pool is big.
That a blocked pool comes free again (by the timeout) is `EverythingSettles`,
model-checked.

**CommandLineProofs**, for any number of processes, migrations, statements, files, workers,
decks, cards and faults. *Migrations* (`MigrateInv`): a process that is past a migration finds
its label in the table (`EarlierApplied`), labels are a prefix of the list (`Prefix`), at
most one open transaction has inserted a label, and it is the next one (`OneLabel`,
`NewLabel`), and one that is about to commit has run all statements (`AllRun`). It
gives `TypeCorrect`, `LabelsHold` (a label stands for all statements of its migration,
once), `BuildsInOrder`, `SuccessHolds` and, step by step, that `Migrations`
implements `SchemaHistory` (`ImplementsHistory`). That not all processes can fail is another
invariant (`SomeoneFresh`): whoever makes another one stale is not stale itself.
*Uploads* (`UpInv`): of those who are about to write to a key that is not in `raced`
there is one, and the key is still free; every local file has still to be found, is in the
channel or with a worker, unless a worker failed; workers end only when no file can come.
*OldDecks* (`OldInv`): a deck with cards has a canonical URL, so `cleanup`, which
takes up the others only, never meets cards; what `import-old` has to do for an old deck is
in its list, under way or done, or a user has undone it. *BulkLoad* (`BulkInv`): a file is whole,
being copied or cut off by a fault, and the cards read so far are saved in its version.
`CommandsComplete`, `FailuresExplained`, `CommandsLoseNothing` and `CommandsShowHistory` are
the properties of the composition, from `LineInv`, the conjunction of all these.

**UserEventsProofs**, for any number of decks, jobs and breaks. That the screen is right when
all has arrived says nothing of the moments before, so the invariant looks ahead (`Right`):
of the notifications about a deck that are on their way, the last `Started` or `Deleted` decides
whether it will be shown (`WillShow`), the last of those that touch the link whether it will have
one (`WillLink`), and the last of all whether it will be at rest (`WillRest`). Where none is on
its way the screen decides, or the list if that is still to come. It holds of every deck outside
`doubt`, but for the moments between a write to the tables and its message (`Between`), and
needs that such a deck has one job at a time (`OneJob`), that the deck of a job has a row
and no JSON until the job deletes or stores it (`JobsInv`), and that a list is asked for once and read once (`ListInv`). `TypeCorrect`,
`ScreenHolds` and `LinksHold` follow: when nothing is on its way, what will be is.

**SessionsProofs**, for any tabs, accounts and lifetimes. `RedisInv`: what Redis has was
drawn by a login, for an account with a row. `CookieInv`: the cookie names a session that
was saved, because `set_session` saves first. `LoginInv` and `PageInv` say what a login
and a page know at each step. No two logins save one session (`ApartInv`), which needs
that a uuid is drawn once. The proof splits on whose step it is: what a step leaves alone
(`Kept`, `OthersKept`) keeps the other tabs' invariants (`OtherTab`), and each step
of a tab its own (`OwnTab`). `EveryCookieWorks`, `SessionStaysOneUsers` and
`EverySessionHasAUser` follow.

**PageLayoutProofs**, for any deck and any sizes of 2 to 100 slots, the code's nine among
them. `SizeFor` chooses a smallest index, so the module first derives from the
library's well-foundedness of `<` that there is one. `Good` is what holds of a page whatever is
drawn on it, shown for a new page and for each card drawn. `RoomInv`: a page that is not of the
largest size has room for all cards that are left, so that a full one with a card to
come is of the largest (`NoPageTooSmall`). `HiddenFaceNeverCovered` follows from `Good`.
`EveryCardShowsItsFace` has two hypotheses: no card is listed twice (otherwise it is
false, finding 2), and at most 654 cards, so that 100 times a page's number fits a `u16`. It
needs that a page's slots are below the number of its cards (`Shown`), and that
pages are never more than cards (`CountInv`).

## 6. Not modelled, and what could come next

Not modelled: the S3 protocol (signing, XML), argument parsing, configuration and
secrets, HTML templates and the browser's layout, plain message types, positions and
texts of the TTS object, pixels of the pages. They keep no state, and what they compute
is formatting. HTTP, HTML and CSV parsing of the loaders is abstracted to the rows it
gives.

Parts that are modelled in part: handlers that only render a template; titles and colour
identity of decks; `GetDecks` as SQL (its result is `UserEvents`' list); pings.

What could come next: two browsers of one user in `UserEvents`; `PageLayout` fed by the
steps of `ParallelStream` instead of by `InFlight`; a theorem that `DeckService`'s use of the
lock is the coordinator's, now that both are proved against `RenderMutex`.
