------------------------------- MODULE BulkLoad -------------------------------
(***************************************************************************)
(* The command load-scryfall-bulk (load_bulk in                            *)
(* ttsmagic-server/src/scryfall.rs): it downloads the file of all cards,   *)
(* unless the file of an earlier run is less than 23 hours old, reads it,  *)
(* and saves one card after the other.  The command is run again and       *)
(* again; a run may fail or be killed anywhere.                            *)
(*                                                                         *)
(* The file is the JSON array that Scryfall sends, "[\n{},\n{}\n]": the    *)
(* iterator over the cards (ParseIter) does not read the brackets and      *)
(* commas, it steps over one byte before each card, and stops when only    *)
(* one byte is left.  A card's text is abstracted to two bytes, so that    *)
(* card k ends at offset 4k; a file that is cut off has a shorter length.  *)
(***************************************************************************)
EXTENDS Naturals

CONSTANTS
  N,            \* the number of cards
  MaxVersion,   \* bound: how often Scryfall publishes anew
  MaxFaults     \* bound: runs that fail or are killed

NAssumption == N \in Nat \ {0}
VersionAssumption == MaxVersion \in Nat \ {0}
FaultsAssumption == MaxFaults \in Nat

VARIABLES
  published,    \* the version of the cards Scryfall has
  length, version,  \* of the file; version 0: there is no file
  fresh,        \* whether it was modified in the last 23 hours
  saved,        \* the version of each card in the database, 0 if it has none
  phase,        \* where the command stands
  got,          \* whether this run has downloaded the file
  seen,         \* cards the iterator has returned
  faults

file == <<length, version, fresh>>
vars == <<published, file, saved, phase, got, seen, faults>>

Whole == 4 * N + 2
Ended == {"none", "ok", "failed", "panicked"}

TypeOK ==
  /\ published \in 1 .. MaxVersion
  /\ length \in 0 .. Whole
  /\ version \in 0 .. published
  /\ fresh \in BOOLEAN
  /\ saved \in [1 .. N -> 0 .. version]
  /\ phase \in {"request", "copy", "read", "parse"} \cup Ended
  /\ got \in BOOLEAN
  /\ seen \in 0 .. N
  /\ faults \in 0 .. MaxFaults

Init ==
  /\ published = 1
  /\ length = 0 /\ version = 0 /\ fresh = FALSE
  /\ saved = [c \in 1 .. N |-> 0]
  /\ phase = "none" /\ got = FALSE /\ seen = 0
  /\ faults = 0

Go(from, to) == phase = from /\ phase' = to
-----------------------------------------------------------------------------

\* --force, no file, or one that was modified before the cutoff.
NeedsDownload(force) == force \/ version = 0 \/ ~fresh

Start(force) ==
  /\ phase \in Ended
  /\ phase' = IF NeedsDownload(force) THEN "request" ELSE "read"
  /\ got' = FALSE
  /\ seen' = 0
  /\ UNCHANGED <<published, file, saved, faults>>

\* get_bulk_data has found the file in Scryfall's list; File::create empties the
\* old one.
CreateFile ==
  /\ Go("request", "copy")
  /\ length' = 0 /\ version' = published /\ fresh' = TRUE
  /\ UNCHANGED <<published, saved, got, seen, faults>>

\* async_std::io::copy, some bytes at a time.
Copy ==
  /\ phase = "copy"
  /\ \E n \in length + 1 .. Whole : length' = n
  /\ phase' = IF length' = Whole THEN "read" ELSE "copy"
  /\ fresh' = TRUE
  /\ got' = (length' = Whole)
  /\ UNCHANGED <<published, version, saved, seen, faults>>

\* assert!(bytes.len() > 0)
Read ==
  /\ Go("read", IF length > 0 THEN "parse" ELSE "panicked")
  /\ UNCHANGED <<published, file, saved, got, seen, faults>>
-----------------------------------------------------------------------------
(* ParseIter: after a card the cursor is at 4 * seen; seek by one, and stop    *)
(* when one byte or none is left behind the cursor.                            *)

\* Mutant: stops at the end of the text.
AtEndLate == 4 * seen >= length

AtEnd == 4 * seen + 2 >= length

CardIsWhole == 4 * seen + 4 <= length

\* save_from_json: INSERT ... ON CONFLICT DO UPDATE.
SaveCard ==
  /\ phase = "parse" /\ ~AtEnd /\ CardIsWhole
  /\ seen' = seen + 1
  /\ saved' = [saved EXCEPT ![seen + 1] = version]
  /\ UNCHANGED <<published, file, phase, got, faults>>

\* The text ends within a card.
BadCard ==
  /\ ~AtEnd /\ ~CardIsWhole
  /\ Go("parse", "failed")
  /\ UNCHANGED <<published, file, saved, got, seen, faults>>

NoMoreCards ==
  /\ AtEnd
  /\ Go("parse", "ok")
  /\ UNCHANGED <<published, file, saved, got, seen, faults>>
-----------------------------------------------------------------------------
\* Scryfall, the disk or the database fails, or the process is killed.
Fault ==
  /\ phase \notin Ended /\ faults < MaxFaults
  /\ phase' = "failed"
  /\ faults' = faults + 1
  /\ UNCHANGED <<published, file, saved, got, seen>>

\* 23 hours pass.
Age == /\ fresh
       /\ fresh' = FALSE
       /\ UNCHANGED <<published, length, version, saved, phase, got, seen, faults>>

Publish == /\ published < MaxVersion
           /\ published' = published + 1
           /\ UNCHANGED <<file, saved, phase, got, seen, faults>>

Step == CreateFile \/ Copy \/ Read \/ SaveCard \/ BadCard \/ NoMoreCards

Next == (\E force \in BOOLEAN : Start(force)) \/ Step \/ Fault \/ Age \/ Publish

\* The command is started again and again without --force, a run that does not fail
\* goes on, and time passes.
Fairness == WF_vars(Start(FALSE)) /\ WF_vars(Step) /\ WF_vars(Age)

Spec == Init /\ [][Next]_vars /\ Fairness
-----------------------------------------------------------------------------
\* A run that has downloaded the file, or has found a whole one, and reports success
\* has brought every card to the file's version: whatever torn file it replaced, and
\* however the iterator steps over the text between the cards (load_bulk).
SuccessIsComplete == phase = "ok" /\ (got \/ length = Whole) =>
                       \A c \in 1 .. N : saved[c] = version

\* A failure within a run that does not come from outside, or a panic, has a reason: the
\* file is not whole.
FailsOnTornFileOnly == phase = "panicked" \/ (phase = "parse" /\ ~AtEnd /\ ~CardIsWhole)
                         => length < Whole /\ faults > 0 /\ ~got

\* A torn file does not stay: it counts as fresh for 23 hours, in which every run
\* fails or stops short, and then it is replaced; in the end all cards are there
\* in the newest version.
AllCardsArrive == []<>(\A c \in 1 .. N : saved[c] = published)

=============================================================================
