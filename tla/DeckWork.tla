------------------------------ MODULE DeckWork -------------------------------
(***************************************************************************)
(* The work behind one deck of ttsmagic-server, from its URL to its        *)
(* images.  A request passes through stages, each of which has a module    *)
(* of its own and starts from whatever the one before may have left:       *)
(*   "fetch"    the request to the deck site             (Redirects)       *)
(*   "release", "debug"                                                    *)
(*              the list turned into entries, in either  (DeckLists)       *)
(*              build: additions wrap or panic                             *)
(*   "tokens"   the token pile                           (RelatedTokens)   *)
(*   "images"   the images of the cards                  (ImageCache)      *)
(*   "render"   what renders of several decks keep in    (RenderMemory)    *)
(*              memory                                                     *)
(* What is asked of all of them is asked here.  DeckService has the        *)
(* database side of the requests.                                          *)
(***************************************************************************)
EXTENDS Naturals, Sequences, FiniteSets

CONSTANTS
  Urls, Limit,                                                      \* Redirects
  OracleIds, Colors, ColorsOf, Legal, Leads, Printings, MaxCopies, DeckSize, Bad,
  MaxRows,                                                          \* DeckLists
  Cards, DeckCards, Oracles, OracleOf, MaxParts,                    \* RelatedTokens
  Loads, Images, CardOf, Ladder, MaxHops, Gap, NoLoad,              \* ImageCache
  Renders, DeckImages, AtOnce                                       \* RenderMemory

VARIABLES
  stage,        \* the one that is looked at
  answers, asked, request, redirects, response,                     \* Redirects
  site, list, commanders, main, side, entries, reading,             \* DeckLists
  related, deck, queue, seen, parts, card, partsLeft, search,       \* RelatedTokens
  object, at, rung, hops, bytes, holder, since, timer, refused,     \* ImageCache
  phase, begun, loaded, taken, result                               \* RenderMemory

Fetch == INSTANCE Redirects WITH site <- answers, result <- response
Release == INSTANCE DeckLists WITH Cards <- OracleIds, Wraps <- TRUE, phase <- reading
Debug == INSTANCE DeckLists WITH Cards <- OracleIds, Wraps <- FALSE, phase <- reading
Tokens == INSTANCE RelatedTokens WITH left <- partsLeft, phase <- search
Cache == INSTANCE ImageCache WITH Cards <- Images
Memory == INSTANCE RenderMemory WITH Images <- DeckImages, Parallelism <- AtOnce,
                                     spawned <- begun, finished <- loaded

ASSUME FetchAssumption == Fetch!LimitAssumption
ASSUME ListAssumption == /\ Release!ColorsAssumption /\ Release!PrintingsAssumption
                         /\ Release!CopiesAssumption
ASSUME TokensAssumption == /\ Tokens!OracleAssumption /\ Tokens!DeckAssumption
                           /\ Tokens!PartsAssumption
ASSUME CacheAssumption == /\ Cache!CardAssumption /\ Cache!LadderAssumption
                          /\ Cache!HopsAssumption /\ Cache!GapAssumption
                          /\ Cache!NoLoadAssumption
ASSUME MemoryAssumption == /\ Memory!RendersAssumption /\ Memory!ImagesAssumption
                           /\ Memory!ParallelismAssumption

fetchVars == <<answers, asked, request, redirects, response>>
listVars == <<site, list, commanders, main, side, entries, reading>>
tokenVars == <<related, deck, queue, seen, parts, card, partsLeft, search>>
cacheVars == <<object, at, rung, hops, bytes, holder, since, timer, refused>>
memoryVars == <<phase, begun, loaded, taken, result>>
workVars == <<stage, fetchVars, listVars, tokenVars, cacheVars, memoryVars>>

Stages == {"fetch", "release", "debug", "tokens", "images", "render"}

\* The stages that are not looked at have one state each.
WorkInit ==
  /\ stage \in Stages
  /\ Fetch!Init /\ (stage # "fetch" => /\ \A u \in Urls : answers[u].kind = "final"
                                       /\ asked = CHOOSE r \in Fetch!Requests : TRUE)
  /\ Release!Init /\ (stage \notin {"release", "debug"} => site = "deckbox")
  /\ IF stage = "tokens"
     THEN Tokens!Init
     ELSE /\ related = {} /\ deck = {} /\ queue = <<>> /\ seen = {}
          /\ parts = <<>> /\ card = "none" /\ partsLeft = {} /\ search = "done"
  /\ Cache!Init /\ (stage # "images" => \A k \in DOMAIN object : object[k] = "absent")
  /\ Memory!Init

ButFetch == UNCHANGED <<stage, listVars, tokenVars, cacheVars, memoryVars>>
ButList == UNCHANGED <<stage, fetchVars, tokenVars, cacheVars, memoryVars>>
ButTokens == UNCHANGED <<stage, fetchVars, listVars, cacheVars, memoryVars>>
ButCache == UNCHANGED <<stage, fetchVars, listVars, tokenVars, memoryVars>>
ButMemory == UNCHANGED <<stage, fetchVars, listVars, tokenVars, cacheVars>>

FollowRedirects == stage = "fetch" /\ Fetch!Next /\ ButFetch
ReadList == stage = "release" /\ Release!Next /\ ButList
ReadListChecked == stage = "debug" /\ Debug!Next /\ ButList
GetTokens == stage = "tokens" /\ Tokens!Next /\ ButTokens
LoadImages == stage = "images" /\ Cache!Next /\ ButCache
RenderDecks == stage = "render" /\ Memory!Next /\ ButMemory

WorkNext == \/ FollowRedirects \/ ReadList \/ ReadListChecked \/ GetTokens
            \/ LoadImages \/ RenderDecks

\* The fairness of the stages' modules.
Loading == stage = "images" /\ ButCache
Fairness == /\ WF_workVars(FollowRedirects)
            /\ WF_workVars(GetTokens)
            /\ WF_workVars(Loading /\ Cache!Tick)
            /\ \A l \in Loads : WF_workVars(Loading /\ Cache!Step(l))

WorkSpec == WorkInit /\ [][WorkNext]_workVars /\ Fairness
-----------------------------------------------------------------------------
\* What a stage hands on is what it was asked for: the answer at the end of the
\* redirections, as many copies of each card as the list has (spread over its
\* printings, some dug out as commanders), and a token for every related part,
\* however far away (RedirectMiddleware, loaders.rs, expand_oracle_id, get_tokens).
ResultsAreRight ==
  /\ Fetch!ResponseEndsChain
  /\ stage = "release" => Release!CopiesKept /\ Release!EvenSpread /\ Release!CommandersFit
  /\ stage = "debug" => Debug!CopiesAddUp /\ Debug!CommandersFit
  /\ stage = "tokens" => Tokens!TokensComplete

\* Loads that share the cache and the rate limit do each other no harm: no good image
\* goes and no broken one comes in, an image that was loaded is in the cache unless
\* a corrupt object was in the way or the store refused the upload, and two
\* requests are a Gap apart (get_image_by_id, delay).
ImagesStay == /\ [][Cache!CacheGetsNoWorse /\ Cache!Spaced]_workVars
              /\ [](stage = "images" => Cache!DoneIsCached)

\* The render lock and the stream together bound the images in memory, failed renders
\* included, whose loads nobody stops (render_deck, make_pages).
MemoryHeld == Memory!PeakBound /\ Memory!SuccessLeavesNothing

\* The stages that loop or wait end, although redirections and related cards form circles
\* and loads wait for each other's turn: fetch, tokens and images.  The others go
\* through what they are given once (release, debug), or are only looked at for what they
\* hold (render: EveryRequestEnds of DeckService says that renders end).
WorkEnds == /\ stage = "fetch" => Fetch!RequestEnds
            /\ stage = "tokens" => Tokens!SearchEnds
            /\ stage = "images" => Cache!EveryLoadEnds
=============================================================================
