----------------------------- MODULE ImageCache ------------------------------
(***************************************************************************)
(* Card images (ttsmagic-server/src/scryfall/api.rs): get_image_by_id      *)
(* looks for the image in the file store, and if there is none that        *)
(* decodes, downloads it from Scryfall, going down a ladder of formats     *)
(* when one cannot be had, and stores what it got.  All loads of the       *)
(* process share one rate limit (delay).                                   *)
(*                                                                         *)
(* object is what the store has under an image's own key.  upload saves    *)
(* under a random key when that is taken (Uploads); nobody looks there, so *)
(* such copies are not kept here.                                          *)
(* Neither get_object nor put_object looks at the status of the answer.    *)
(* An error page, which a key without object always gets, is taken for an  *)
(* image that does not decode; an upload that was refused, for a success.  *)
(***************************************************************************)
EXTENDS Naturals, Sequences

CONSTANTS
  Loads, Cards,
  CardOf,           \* the card of each load
  Ladder,           \* the formats from PNG downwards (four in the code)
  MaxHops,          \* requests per format: 5 in the code
  Gap,              \* the time between requests: 200 ms, in units of the clock
  NoLoad

Rungs == 1 .. Len(Ladder)

CardAssumption == CardOf \in [Loads -> Cards]
LadderAssumption == Ladder \in Seq(STRING) /\ Len(Ladder) >= 2
HopsAssumption == MaxHops \in Nat \ {0}
GapAssumption == Gap \in Nat
NoLoadAssumption == NoLoad \notin Loads

VARIABLES
  object,           \* the object under the key of each card and format
  at,               \* where each load stands
  rung,             \* the format it is at
  hops,             \* loop_counter: the requests for this format
  bytes,            \* what it got from Scryfall
  holder,           \* the load that holds the mutex of last_query
  since,            \* the time since last_query, up to Gap
  timer,            \* how long a load has still to sleep
  refused           \* history: loads whose upload the store answered with an error

limiter == <<holder, since, timer>>
vars == <<object, at, rung, hops, bytes, limiter, refused>>

Steps == {"look", "probe", "delay", "sleep", "request", "decode", "check", "put", "done",
          "failed"}

TypeOK ==
  /\ object \in [Cards \X Rungs -> {"absent", "good", "bad"}]
  /\ at \in [Loads -> Steps]
  /\ rung \in [Loads -> Rungs]
  /\ hops \in [Loads -> 0 .. MaxHops]
  /\ bytes \in [Loads -> {"none", "good", "bad"}]
  /\ holder \in Loads \cup {NoLoad}
  /\ since \in 0 .. Gap
  /\ timer \in [Loads -> 0 .. Gap]
  /\ refused \in SUBSET Loads

\* A bad object was left by the old application or cut off by the store.
Init ==
  /\ object \in [Cards \X Rungs -> {"absent", "good", "bad"}]
  /\ at = [l \in Loads |-> "look"]
  /\ rung = [l \in Loads |-> 1]
  /\ hops = [l \in Loads |-> 0]
  /\ bytes = [l \in Loads |-> "none"]
  /\ holder = NoLoad
  /\ since = 0
  /\ timer = [l \in Loads |-> 0]
  /\ refused = {}

\* The load returns, and its buffer goes.
Dropped(l) == bytes' = [bytes EXCEPT ![l] = "none"]

Ended(l) == at[l] \in {"done", "failed"}
Key(l) == <<CardOf[l], rung[l]>>

Goto(l, from, to) == /\ at[l] = from
                     /\ at' = [at EXCEPT ![l] = to]
-----------------------------------------------------------------------------
(* The store *)

\* An image that decodes is the answer, in the first look and in the loop.
Hit(l) ==
  /\ \E step \in {"look", "probe"} : Goto(l, step, "done")
  /\ object[Key(l)] = "good"
  /\ UNCHANGED <<object, rung, hops, bytes, limiter, refused>>

\* The first look tries the two best formats.  What is there does not decode, or the
\* store answers with an error page although it is good.  MediaFile::delete does
\* nothing: an image that does not decode stays where it is.
LookOn(l) ==
  /\ at[l] = "look"
  /\ \/ /\ rung[l] = 1
        /\ rung' = [rung EXCEPT ![l] = 2]
        /\ UNCHANGED at
     \/ /\ rung[l] = 2
        /\ rung' = [rung EXCEPT ![l] = 1]
        /\ at' = [at EXCEPT ![l] = "probe"]
  /\ UNCHANGED <<object, hops, bytes, limiter, refused>>

Miss(l) ==
  /\ Goto(l, "probe", "delay")
  /\ hops' = [hops EXCEPT ![l] = 1]
  /\ UNCHANGED <<object, rung, bytes, limiter, refused>>
-----------------------------------------------------------------------------
(* delay: the mutex of last_query is held while sleeping *)

\* Mutant: the guard is dropped before the sleep.
LockShortly(l) ==
  /\ Goto(l, "delay", "sleep")
  /\ holder = NoLoad
  /\ timer' = [timer EXCEPT ![l] = Gap - since]
  /\ UNCHANGED <<object, rung, hops, bytes, holder, since, refused>>

Lock(l) ==
  /\ Goto(l, "delay", "sleep")
  /\ holder = NoLoad
  /\ holder' = l
  /\ timer' = [timer EXCEPT ![l] = Gap - since]
  /\ UNCHANGED <<object, rung, hops, bytes, since, refused>>

\* The sleep is over: last_query is now, the guard is dropped.
LetGo(l) ==
  /\ Goto(l, "sleep", "request")
  /\ timer[l] = 0
  /\ since' = 0
  /\ holder' = NoLoad
  /\ UNCHANGED <<object, rung, hops, bytes, timer, refused>>

Tick ==
  /\ \/ since < Gap
     \/ \E l \in Loads : timer[l] > 0
  /\ since' = IF since < Gap THEN since + 1 ELSE Gap
  /\ timer' = [l \in Loads |-> IF timer[l] > 0 THEN timer[l] - 1 ELSE 0]
  /\ UNCHANGED <<object, at, rung, hops, bytes, holder, refused>>
-----------------------------------------------------------------------------
(* Scryfall *)

\* Status 200 says nothing of the bytes.
Found(l) ==
  /\ Goto(l, "request", "decode")
  /\ \E b \in {"good", "bad"} : bytes' = [bytes EXCEPT ![l] = b]
  /\ UNCHANGED <<object, rung, hops, limiter, refused>>

Redirected(l) ==
  /\ Goto(l, "request", "delay")
  /\ hops[l] < MaxHops
  /\ hops' = [hops EXCEPT ![l] = @ + 1]
  /\ UNCHANGED <<object, rung, bytes, limiter, refused>>

\* The request fails or has another status: on with the next smaller format.
Downgrade(l) ==
  /\ rung[l] < Len(Ladder)
  /\ Goto(l, "request", "probe")
  /\ rung' = [rung EXCEPT ![l] = @ + 1]
  /\ hops' = [hops EXCEPT ![l] = 0]
  /\ UNCHANGED <<object, bytes, limiter, refused>>

\* The smallest format failed (last_error), or a redirect is one too many or leads
\* nowhere.
GiveUp(l) ==
  /\ Goto(l, "request", "failed")
  /\ UNCHANGED <<object, rung, hops, bytes, limiter, refused>>

\* Mutant: the bytes are saved before they are decoded.
DecodeLater(l) ==
  /\ Goto(l, "decode", "check")
  /\ UNCHANGED <<object, rung, hops, bytes, limiter, refused>>

\* What does not decode is neither saved nor tried in another format (Fails).
Decode(l) ==
  /\ Goto(l, "decode", "check")
  /\ bytes[l] = "good"
  /\ UNCHANGED <<object, rung, hops, bytes, limiter, refused>>

\* upload_file_internal: the image's own key is free ...
Free(l) ==
  /\ Goto(l, "check", "put")
  /\ object[Key(l)] = "absent"
  /\ UNCHANGED <<object, rung, hops, bytes, limiter, refused>>

\* ... or taken, and the image goes where nobody will look for it.
Taken(l) ==
  /\ Goto(l, "check", "done")
  /\ object[Key(l)] # "absent"
  /\ Dropped(l)
  /\ UNCHANGED <<object, rung, hops, limiter, refused>>

\* The store takes the upload, whatever is under the key by now.
Stored(l) == /\ object' = [object EXCEPT ![Key(l)] = bytes[l]]
             /\ UNCHANGED refused

\* It refuses it: put_object drops the answer.
Refused(l) == /\ refused' = refused \cup {l}
              /\ UNCHANGED object

\* Either way the load is over, and returns the image.
Put(l) ==
  /\ Goto(l, "put", "done")
  /\ Stored(l) \/ Refused(l)
  /\ Dropped(l)
  /\ UNCHANGED <<rung, hops, limiter>>

\* A question to the store, the decoding or the saving fails: the load does.  The
\* answer to an upload may be lost after the store took it.
Fails(l) ==
  /\ \E step \in {"look", "probe", "decode", "check", "put"} : Goto(l, step, "failed")
  /\ \/ UNCHANGED <<object, refused>>
     \/ at[l] = "put" /\ Stored(l)
  /\ Dropped(l)
  /\ UNCHANGED <<rung, hops, limiter>>
-----------------------------------------------------------------------------
Step(l) == \/ Hit(l) \/ LookOn(l) \/ Miss(l)
           \/ Lock(l) \/ LetGo(l)
           \/ Found(l) \/ Redirected(l) \/ Downgrade(l) \/ GiveUp(l)
           \/ Decode(l) \/ Free(l) \/ Taken(l) \/ Put(l) \/ Fails(l)

Next == Tick \/ \E l \in Loads : Step(l)

\* Time passes, requests are answered or fail, and the mutex, which is held for a
\* bounded time and by finitely many requests, is handed over.
Spec == Init /\ [][Next]_vars /\ WF_vars(Tick) /\ \A l \in Loads : WF_vars(Step(l))
-----------------------------------------------------------------------------
\* However many loads run at once, two requests are let go at least Gap apart
\* (delay).  This one and the next are said of every step.
Spaced == \A l \in Loads : at[l] # "request" /\ at'[l] = "request" => since = Gap

\* The cache gets no worse: a good image stays, and none that does not decode comes
\* in, whatever Scryfall answers, whoever has put something under the key since it was
\* found free, and whether or not the load that saves it fails.
CacheGetsNoWorse ==
  \A k \in Cards \X Rungs : /\ object[k] = "good" => object'[k] = "good"
                            /\ object'[k] = "bad" => object[k] = "bad"

\* A load that returned an image leaves one in the store, under the key it looked at
\* last, but for two cases: the object there does not decode, and keeps the key, or
\* the store refused this load's own upload.
DoneIsCached ==
  \A l \in Loads : at[l] = "done" => \/ object[Key(l)] \in {"good", "bad"}
                                    \/ l \in refused

\* Every load ends, whatever redirects and errors it meets, and although the rate
\* limit makes them wait for each other.
EveryLoadEnds == \A l \in Loads : <>Ended(l)
=============================================================================
