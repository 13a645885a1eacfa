-------------------------- MODULE RenderCoordinator --------------------------
(***************************************************************************)
(* ttsmagic-server/src/tts/render_coordinator.rs: the renders of one       *)
(* server process queue for a process-wide LOCK.  A render first lists its *)
(* deck in PENDING (a map from deck to owner, itself behind an async       *)
(* mutex), then polls LOCK with try_lock, sleeping a second after a miss.  *)
(* The one that gets the lock takes its deck off PENDING and, still        *)
(* holding both mutexes, tells every deck listed there the new queue       *)
(* length through Redis; a failed publish drops both guards.               *)
(*                                                                         *)
(* PENDING maps a deck to its owner, which the deck determines, so the     *)
(* model keeps the set of listed decks.                                    *)
(***************************************************************************)
EXTENDS Naturals, FiniteSets

CONSTANTS
  Renders,      \* the concurrent calls of render_deck
  Decks,        \* deck ids
  DeckOf,       \* the deck each call renders
  U16Max,       \* u16::MAX in the code
  NoRender      \* stands for "nobody holds this mutex"

ASSUME DeckOfAssumption == DeckOf \in [Renders -> Decks]
ASSUME FiniteAssumption == IsFiniteSet(Decks)
ASSUME U16Assumption == U16Max \in Nat \ {0}
ASSUME NoRenderAssumption == NoRender \notin Renders

VARIABLES
  pc,           \* where each call of wait_for_lock / render_deck stands
  lock,         \* who holds the guard of LOCK
  pendingLock,  \* who holds the guard of PENDING across an await
  pending,      \* the decks listed in PENDING
  unsent,       \* listed decks the current holder has still to notify
  told          \* last queue_length published for each deck, 0 if none

vars == <<pc, lock, pendingLock, pending, unsent, told>>

Steps == {"idle", "register", "polling", "sleeping", "locked", "notifying",
          "rendering"}

TypeOK == /\ pc \in [Renders -> Steps]
          /\ lock \in Renders \cup {NoRender}
          /\ pendingLock \in Renders \cup {NoRender}
          /\ pending \in SUBSET Decks
          /\ unsent \in SUBSET Decks
          /\ told \in [Decks -> 0 .. U16Max]

Waiting(r) == pc[r] \in {"polling", "sleeping"}
Holding(r) == pc[r] \in {"locked", "notifying", "rendering"}

\* Mutant: the length without unwrap_or and saturating_add.
UnboundedLength(len) == len + 1

\* u16::try_from(len).unwrap_or(u16::MAX).saturating_add(1)
QueueLength(len) == IF len < U16Max THEN len + 1 ELSE U16Max

Init == /\ pc = [r \in Renders |-> "idle"]
        /\ lock = NoRender
        /\ pendingLock = NoRender
        /\ pending = {}
        /\ unsent = {}
        /\ told = [d \in Decks |-> 0]

Goto(r, from, to) == /\ pc[r] = from
                     /\ pc' = [pc EXCEPT ![r] = to]

\* render_deck is called and wait_for_lock asks for the PENDING mutex.
Call(r) == /\ Goto(r, "idle", "register")
           /\ UNCHANGED <<lock, pendingLock, pending, unsent, told>>

\* The block that inserts into PENDING; its guard is dropped at once.
Register(r) == /\ Goto(r, "register", "polling")
               /\ pendingLock = NoRender
               /\ pending' = pending \cup {DeckOf[r]}
               /\ UNCHANGED <<lock, pendingLock, unsent, told>>

\* LOCK.try_lock() = None: sleep(1s), then the loop starts over.
TryLockMiss(r) == /\ Goto(r, "polling", "sleeping")
                  /\ lock # NoRender
                  /\ UNCHANGED <<lock, pendingLock, pending, unsent, told>>

\* Mutant: one retry only, then the call gives up.
GiveUp(r) == /\ Goto(r, "sleeping", "idle")
             /\ UNCHANGED <<lock, pendingLock, pending, unsent, told>>

WakeUp(r) == /\ Goto(r, "sleeping", "polling")
             /\ UNCHANGED <<lock, pendingLock, pending, unsent, told>>

\* Mutant: the lock is not asked for.
BargeIn(r) == /\ Goto(r, "polling", "locked")
              /\ lock' = r
              /\ UNCHANGED <<pendingLock, pending, unsent, told>>

\* LOCK.try_lock() = Some(guard)
TryLockHit(r) == /\ Goto(r, "polling", "locked")
                 /\ lock = NoRender
                 /\ lock' = r
                 /\ UNCHANGED <<pendingLock, pending, unsent, told>>

\* Mutant: pending.remove is forgotten.
DequeueKeepsDeck(r) == /\ Goto(r, "locked", "notifying")
                       /\ pendingLock = NoRender
                       /\ pendingLock' = r
                       /\ unsent' = pending
                       /\ UNCHANGED <<lock, pending, told>>

\* Mutant: the PENDING guard is dropped before the notifications.
DequeueUnguarded(r) == /\ Goto(r, "locked", "notifying")
                       /\ pendingLock = NoRender
                       /\ pending' = pending \ {DeckOf[r]}
                       /\ unsent' = pending'
                       /\ UNCHANGED <<lock, pendingLock, told>>

\* PENDING.lock().await, then pending.remove; the guard lives on across
\* the notifications that follow.
Dequeue(r) == /\ Goto(r, "locked", "notifying")
              /\ pendingLock = NoRender
              /\ pendingLock' = r
              /\ pending' = pending \ {DeckOf[r]}
              /\ unsent' = pending'
              /\ UNCHANGED <<lock, told>>

Announce(r, d) == /\ pc[r] = "notifying"
                  /\ d \in unsent
                  /\ unsent' = unsent \ {d}
                  /\ told' = [told EXCEPT ![d] = QueueLength(Cardinality(pending))]
                  /\ UNCHANGED <<pc, lock, pendingLock, pending>>

\* Mutant: the error drops the guards but is swallowed, and the render goes on.
AnnounceErrorGoesOn(r) == /\ Goto(r, "notifying", "rendering")
                          /\ unsent # {}
                          /\ lock' = NoRender
                          /\ pendingLock' = NoRender
                          /\ unsent' = {}
                          /\ UNCHANGED <<pending, told>>

\* notify_user(..).await? fails: both guards are dropped by the early return.
AnnounceError(r) == /\ Goto(r, "notifying", "idle")
                    /\ unsent # {}
                    /\ lock' = NoRender
                    /\ pendingLock' = NoRender
                    /\ unsent' = {}
                    /\ UNCHANGED <<pending, told>>

\* Ok(guard): the PENDING guard is dropped, the LOCK guard goes to the caller.
Enter(r) == /\ Goto(r, "notifying", "rendering")
            /\ unsent = {}
            /\ pendingLock' = NoRender
            /\ UNCHANGED <<lock, pending, unsent, told>>

\* render_deck returns, with a deck or with an error, and drops _guard.
Leave(r) == /\ Goto(r, "rendering", "idle")
            /\ lock' = NoRender
            /\ UNCHANGED <<pendingLock, pending, unsent, told>>

Step(r) == \/ Register(r)
           \/ TryLockMiss(r)
           \/ WakeUp(r)
           \/ TryLockHit(r)
           \/ Dequeue(r)
           \/ \E d \in Decks : Announce(r, d)
           \/ AnnounceError(r)
           \/ Enter(r)
           \/ Leave(r)

Next == \E r \in Renders : Call(r) \/ Step(r)

Spec == Init /\ [][Next]_vars

\* A call that can take a step takes one (the executor runs ready tasks, a
\* publish and a render come to an end); whether somebody calls is open.
FairSpec == Spec /\ \A r \in Renders : WF_vars(Step(r))

----------------------------------------------------------------------------
(* Safety *)

\* At most one render of the process is under way (render_coordinator.rs:1-2),
\* counting from the moment its try_lock succeeded.
OneRenderAtATime == \A r, q \in Renders : Holding(r) /\ Holding(q) => r = q

\* Every deck counted in the queue belongs to a render that still waits for
\* the lock (or has it and is about to take the deck off the list): a render
\* that ended never leaves its deck behind to be counted and notified.
NoGhostInQueue ==
  \A d \in pending : \E r \in Renders :
    DeckOf[r] = d /\ (Waiting(r) \/ pc[r] = "locked")

\* "Notify all other listeners that the queue has changed length."
\* (render_coordinator.rs:41): when a render starts, every render that still
\* waits was told a length that counts all of those waiting.
AllListenersTold ==
  [][\A r \in Renders : Enter(r) =>
       LET others == {q \in Renders : Waiting(q)}
       IN  \A q \in others : told[DeckOf[q]] = QueueLength(Cardinality(others))]_vars

----------------------------------------------------------------------------
(* Liveness *)

\* Polling is not a queue: a render can be overtaken, but it waits for ever
\* only if other renders keep getting the lock for ever.
ServedUnlessOvertaken ==
  \A r \in Renders :
    (Waiting(r) ~> Holding(r)) \/ []<>(\E q \in Renders \ {r} : Holding(q))

----------------------------------------------------------------------------
(* The abstract lock this implements *)

Phase == [r \in Renders |-> IF Holding(r) THEN "holding"
                           ELSE IF Waiting(r) THEN "waiting" ELSE "out"]

Mutex == INSTANCE RenderMutex WITH Clients <- Renders, phase <- Phase

\* Seen through Phase, calls of wait_for_lock and the guards they return are an
\* exclusive lock, whatever happens to the queue and its announcements.
ImplementsMutex == Mutex!Spec
=============================================================================
