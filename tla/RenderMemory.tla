----------------------------- MODULE RenderMemory -----------------------------
(***************************************************************************)
(* The memory of the renders of one process (ttsmagic-server/src/tts.rs):  *)
(* render_deck takes the render lock, and make_pages loads the images of   *)
(* the deck's cards through a stream that keeps up to Parallelism of them  *)
(* loading or loaded.  When a card fails, make_pages returns, the stream   *)
(* is dropped and the lock is given back; the tasks the stream has spawned *)
(* are detached and go on.                                                 *)
(* The lock is RenderMutex (RenderCoordinator implements it); the stream   *)
(* is ParallelStream without its polls and wakers.                         *)
(***************************************************************************)
EXTENDS Naturals, FiniteSets

CONSTANTS
  Renders,
  Images,       \* images of a deck
  Parallelism   \* 10 in the code

RendersAssumption == IsFiniteSet(Renders)
ImagesAssumption == Images \in Nat
ParallelismAssumption == Parallelism \in Nat \ {0}

VARIABLES
  phase,        \* of RenderMutex
  spawned,      \* how many of its images each render has begun to load
  finished,     \* those that are loaded, or failed to
  taken,        \* how many make_pages has got from the stream
  result

vars == <<phase, spawned, finished, taken, result>>

Mutex == INSTANCE RenderMutex WITH Clients <- Renders

TypeOK ==
  /\ phase \in [Renders -> {"out", "waiting", "holding"}]
  /\ spawned \in [Renders -> 0 .. Images]
  /\ finished \in [Renders -> SUBSET (1 .. Images)]
  /\ \A r \in Renders : finished[r] \subseteq 1 .. spawned[r]
  /\ taken \in [Renders -> 0 .. Images]
  /\ \A r \in Renders : taken[r] <= Cardinality(finished[r])
  /\ result \in [Renders -> {"none", "rendered", "failed"}]

Init ==
  /\ Mutex!Init
  /\ spawned = [r \in Renders |-> 0]
  /\ finished = [r \in Renders |-> {}]
  /\ taken = [r \in Renders |-> 0]
  /\ result = [r \in Renders |-> "none"]

Least(a, b) == IF a < b THEN a ELSE b

Loading(r) == 1 .. spawned[r] \ finished[r]
-----------------------------------------------------------------------------
Ask(r) == /\ result[r] = "none"
          /\ Mutex!Request(r)
          /\ UNCHANGED <<spawned, finished, taken, result>>

\* The lock is granted, the cards are collected, the stream is made.
Begin(r) == /\ Mutex!Acquire(r)
            /\ spawned' = [spawned EXCEPT ![r] = Least(Images, Parallelism)]
            /\ UNCHANGED <<finished, taken, result>>

\* The task ends, whether anyone waits for it or not.
Finish(r, i) == /\ i \in Loading(r)
                /\ finished' = [finished EXCEPT ![r] = @ \cup {i}]
                /\ UNCHANGED <<phase, spawned, taken, result>>

\* Mutant: a value that the stream keeps does not count.
TakeSpawnsMore(r) ==
  /\ phase[r] = "holding" /\ taken[r] < Cardinality(finished[r])
  /\ taken' = [taken EXCEPT ![r] = @ + 1]
  /\ spawned' = [spawned EXCEPT ![r] = Least(Images, Cardinality(finished[r]) + Parallelism)]
  /\ UNCHANGED <<phase, finished, result>>

\* The next image goes onto its page, and the stream starts another load.
Take(r) ==
  /\ phase[r] = "holding" /\ taken[r] < Cardinality(finished[r])
  /\ taken' = [taken EXCEPT ![r] = @ + 1]
  /\ spawned' = [spawned EXCEPT ![r] = Least(Images, taken'[r] + Parallelism)]
  /\ UNCHANGED <<phase, finished, result>>

\* A card failed to load, or a notification or a page did: the stream and then the
\* guard are dropped.
Fail(r) == /\ Mutex!Release(r)
           /\ result' = [result EXCEPT ![r] = "failed"]
           /\ UNCHANGED <<spawned, finished, taken>>

\* The stream has ended, the pages are saved.
Complete(r) == /\ taken[r] = Images
               /\ Mutex!Release(r)
               /\ result' = [result EXCEPT ![r] = "rendered"]
               /\ UNCHANGED <<spawned, finished, taken>>

Next == \E r \in Renders : \/ Ask(r) \/ Begin(r) \/ Take(r) \/ Fail(r) \/ Complete(r)
                           \/ \E i \in 1 .. Images : Finish(r, i)

Spec == Init /\ [][Next]_vars
-----------------------------------------------------------------------------
\* Images that are loading, or that the stream keeps for make_pages; of the latter only
\* the number matters, and the first ones stand for those that are on a page.
InMemory(r) == IF phase[r] = "holding" THEN taken[r] + 1 .. spawned[r] ELSE Loading(r)
Memory == UNION {{r} \X InMemory(r) : r \in Renders}
Failed == {r \in Renders : result[r] = "failed"}

\* What limits the memory after all: the lock and the stream together leave no more
\* images loading or kept than Parallelism, and as many again for every render
\* that has failed.
PeakBound == Cardinality(Memory) <= Parallelism * (1 + Cardinality(Failed))

\* Only a failed render leaves loads behind when it gives the lock back.
SuccessLeavesNothing ==
  \A r \in Renders : phase[r] # "holding" /\ Loading(r) # {} => result[r] = "failed"

=============================================================================
