----------------------- MODULE RenderCoordinatorProofs -----------------------
(***************************************************************************)
(* Proofs about RenderCoordinator, for any set of renders and decks.       *)
(***************************************************************************)
EXTENDS RenderCoordinator, FiniteSetTheorems, FunctionTheorems, TLAPS

(***************************************************************************)
(* The inductive invariant.  The guards are where the program counters say *)
(* they are; PENDING lists only decks of renders that have still to take   *)
(* themselves off it; while a render announces the queue nobody can change *)
(* it, and the decks already told were told its length.                    *)
(***************************************************************************)
LockInv == \A r \in Renders : Holding(r) <=> lock = r
PendingLockInv == \A r \in Renders : pc[r] = "notifying" <=> pendingLock = r
AnnounceInv ==
  \A r \in Renders : pc[r] = "notifying" =>
    /\ unsent \subseteq pending
    /\ \A d \in pending \ unsent : told[d] = QueueLength(Cardinality(pending))

IInv == TypeOK /\ LockInv /\ PendingLockInv /\ NoGhostInQueue /\ AnnounceInv

\* No two calls render the same deck.  Needed only where it is named.
DistinctDecks == \A r, q \in Renders : DeckOf[r] = DeckOf[q] => r = q

\* With distinct decks a waiting render is always on the list.
ListedInv == \A r \in Renders : Waiting(r) \/ pc[r] = "locked" => DeckOf[r] \in pending

----------------------------------------------------------------------------
LEMMA QueueLengthType == \A n \in Nat : QueueLength(n) \in 1 .. U16Max
  BY U16Assumption DEF QueueLength

LEMMA PendingCardinality ==
  ASSUME TypeOK PROVE Cardinality(pending) \in Nat
  BY FiniteAssumption, FS_Subset, FS_CardinalityType DEF TypeOK

LEMMA InitIInv == Init => IInv
  BY NoRenderAssumption, U16Assumption
  DEF Init, IInv, TypeOK, LockInv, PendingLockInv, NoGhostInQueue, AnnounceInv,
      Steps, Holding

LEMMA TypeStep == TypeOK /\ [Next]_vars => TypeOK'
<1> SUFFICES ASSUME TypeOK, [Next]_vars PROVE TypeOK'
  OBVIOUS
<1> USE DEF TypeOK, Steps, Goto
<1>1. ASSUME NEW r \in Renders, Call(r) PROVE TypeOK'
  BY <1>1 DEF Call
<1>2. ASSUME NEW r \in Renders, Register(r) PROVE TypeOK'
  BY <1>2, DeckOfAssumption DEF Register
<1>3. ASSUME NEW r \in Renders, TryLockMiss(r) \/ WakeUp(r) PROVE TypeOK'
  BY <1>3 DEF TryLockMiss, WakeUp
<1>4. ASSUME NEW r \in Renders, TryLockHit(r) PROVE TypeOK'
  BY <1>4 DEF TryLockHit
<1>5. ASSUME NEW r \in Renders, Dequeue(r) PROVE TypeOK'
  BY <1>5 DEF Dequeue
<1>6. ASSUME NEW r \in Renders, NEW d \in Decks, Announce(r, d) PROVE TypeOK'
  <2>1. QueueLength(Cardinality(pending)) \in 0 .. U16Max
    BY PendingCardinality, QueueLengthType
  <2> QED
    BY <1>6, <2>1 DEF Announce
<1>7. ASSUME NEW r \in Renders, AnnounceError(r) PROVE TypeOK'
  BY <1>7 DEF AnnounceError
<1>8. ASSUME NEW r \in Renders, Enter(r) \/ Leave(r) PROVE TypeOK'
  BY <1>8 DEF Enter, Leave
<1>9. CASE UNCHANGED vars
  BY <1>9 DEF vars
<1> QED
  BY <1>1, <1>2, <1>3, <1>4, <1>5, <1>6, <1>7, <1>8, <1>9 DEF Next, Step

LEMMA LockStep == TypeOK /\ LockInv /\ [Next]_vars => LockInv'
<1> SUFFICES ASSUME TypeOK, LockInv, [Next]_vars PROVE LockInv'
  OBVIOUS
<1> USE NoRenderAssumption DEF TypeOK, LockInv, Holding, Goto
<1>1. ASSUME NEW r \in Renders,
             Call(r) \/ Register(r) \/ TryLockMiss(r) \/ WakeUp(r)
      PROVE  LockInv'
  BY <1>1 DEF Call, Register, TryLockMiss, WakeUp
<1>2. ASSUME NEW r \in Renders, TryLockHit(r) PROVE LockInv'
  BY <1>2 DEF TryLockHit
<1>3. ASSUME NEW r \in Renders, Dequeue(r) \/ Enter(r) PROVE LockInv'
  BY <1>3 DEF Dequeue, Enter
<1>4. ASSUME NEW r \in Renders, NEW d \in Decks, Announce(r, d) PROVE LockInv'
  BY <1>4 DEF Announce
<1>5. ASSUME NEW r \in Renders, AnnounceError(r) \/ Leave(r) PROVE LockInv'
  BY <1>5 DEF AnnounceError, Leave
<1>6. CASE UNCHANGED vars
  BY <1>6 DEF vars
<1> QED
  BY <1>1, <1>2, <1>3, <1>4, <1>5, <1>6 DEF Next, Step

LEMMA PendingLockStep == TypeOK /\ PendingLockInv /\ [Next]_vars => PendingLockInv'
<1> SUFFICES ASSUME TypeOK, PendingLockInv, [Next]_vars PROVE PendingLockInv'
  OBVIOUS
<1> USE NoRenderAssumption DEF TypeOK, PendingLockInv, Goto
<1>1. ASSUME NEW r \in Renders,
             Call(r) \/ Register(r) \/ TryLockMiss(r) \/ WakeUp(r) \/ TryLockHit(r)
               \/ Leave(r)
      PROVE  PendingLockInv'
  BY <1>1 DEF Call, Register, TryLockMiss, WakeUp, TryLockHit, Leave
<1>2. ASSUME NEW r \in Renders, Dequeue(r) PROVE PendingLockInv'
  BY <1>2 DEF Dequeue
<1>3. ASSUME NEW r \in Renders, NEW d \in Decks, Announce(r, d) PROVE PendingLockInv'
  BY <1>3 DEF Announce
<1>4. ASSUME NEW r \in Renders, AnnounceError(r) \/ Enter(r) PROVE PendingLockInv'
  BY <1>4 DEF AnnounceError, Enter
<1>5. CASE UNCHANGED vars
  BY <1>5 DEF vars
<1> QED
  BY <1>1, <1>2, <1>3, <1>4, <1>5 DEF Next, Step

\* A deck leaves the list exactly when some render of it gets past the list,
\* and a render stops waiting only through Dequeue.
LEMMA QueueStep == TypeOK /\ NoGhostInQueue /\ [Next]_vars => NoGhostInQueue'
<1> SUFFICES ASSUME TypeOK, NoGhostInQueue, [Next]_vars,
                    NEW d \in pending'
             PROVE  \E r \in Renders : DeckOf[r] = d /\ (Waiting(r) \/ pc[r] = "locked")'
  BY DEF NoGhostInQueue
<1> DEFINE Keeps(q) == DeckOf[q] = d /\ (Waiting(q) \/ pc[q] = "locked")
<1> USE DEF TypeOK, Waiting, Goto
<1>1. ASSUME NEW r \in Renders, Register(r) PROVE \E q \in Renders : Keeps(q)'
  <2>1. CASE d = DeckOf[r]
    BY <1>1, <2>1 DEF Register
  <2>2. CASE d \in pending
    <3>1. PICK q \in Renders : Keeps(q)
      BY <2>2 DEF NoGhostInQueue
    <3> QED
      BY <1>1, <3>1 DEF Register
  <2> QED
    BY <1>1, <2>1, <2>2 DEF Register
<1>2. ASSUME NEW r \in Renders, Dequeue(r) PROVE \E q \in Renders : Keeps(q)'
  <2>1. d \in pending /\ d # DeckOf[r]
    BY <1>2 DEF Dequeue
  <2>2. PICK q \in Renders : Keeps(q)
    BY <2>1 DEF NoGhostInQueue
  <2> QED
    BY <1>2, <2>1, <2>2 DEF Dequeue
<1>3. ASSUME NEW r \in Renders,
             Call(r) \/ TryLockMiss(r) \/ WakeUp(r) \/ TryLockHit(r) \/ AnnounceError(r)
               \/ Enter(r) \/ Leave(r)
      PROVE  \E q \in Renders : Keeps(q)'
  <2>1. d \in pending
    BY <1>3 DEF Call, TryLockMiss, WakeUp, TryLockHit, AnnounceError, Enter, Leave
  <2>2. PICK q \in Renders : Keeps(q)
    BY <2>1 DEF NoGhostInQueue
  <2> QED
    BY <1>3, <2>2 DEF Call, TryLockMiss, WakeUp, TryLockHit, AnnounceError, Enter, Leave
<1>4. ASSUME NEW r \in Renders, NEW e \in Decks, Announce(r, e)
      PROVE  \E q \in Renders : Keeps(q)'
  BY <1>4 DEF Announce, NoGhostInQueue
<1>5. CASE UNCHANGED vars
  BY <1>5 DEF vars, NoGhostInQueue
<1> QED
  BY <1>1, <1>2, <1>3, <1>4, <1>5 DEF Next, Step

\* Whoever announces holds PENDING, so nobody else edits it meanwhile.
LEMMA AnnounceStep ==
  TypeOK /\ PendingLockInv /\ AnnounceInv /\ [Next]_vars => AnnounceInv'
<1> SUFFICES ASSUME TypeOK, PendingLockInv, AnnounceInv, [Next]_vars,
                    NEW s \in Renders, pc'[s] = "notifying"
             PROVE  /\ unsent' \subseteq pending'
                    /\ \A d \in pending' \ unsent' :
                         told'[d] = QueueLength(Cardinality(pending'))
  BY DEF AnnounceInv
<1> USE NoRenderAssumption DEF TypeOK, PendingLockInv, AnnounceInv, Goto
<1>1. ASSUME NEW r \in Renders, Register(r)
      PROVE  pc[s] # "notifying" /\ pc'[s] # "notifying"
  BY <1>1 DEF Register
<1>2. ASSUME NEW r \in Renders, Dequeue(r) PROVE unsent' = pending'
  BY <1>2 DEF Dequeue
<1>3. ASSUME NEW r \in Renders, NEW e \in Decks, Announce(r, e)
      PROVE  /\ unsent' \subseteq pending'
             /\ \A d \in pending' \ unsent' :
                  told'[d] = QueueLength(Cardinality(pending'))
  BY <1>3 DEF Announce
<1>4. ASSUME NEW r \in Renders, AnnounceError(r) \/ Enter(r)
      PROVE  pc'[s] # "notifying"
  BY <1>4 DEF AnnounceError, Enter
<1>5. ASSUME NEW r \in Renders,
             Call(r) \/ TryLockMiss(r) \/ WakeUp(r) \/ TryLockHit(r) \/ Leave(r)
      PROVE  pc[s] = "notifying" /\ UNCHANGED <<unsent, pending, told>>
  BY <1>5 DEF Call, TryLockMiss, WakeUp, TryLockHit, Leave
<1>6. CASE UNCHANGED vars
  BY <1>6 DEF vars
<1> QED
  BY <1>1, <1>2, <1>3, <1>4, <1>5, <1>6 DEF Next, Step

LEMMA StepIInv == IInv /\ [Next]_vars => IInv'
  BY TypeStep, LockStep, PendingLockStep, QueueStep, AnnounceStep DEF IInv

LEMMA Inductive == Spec => []IInv
  BY InitIInv, StepIInv, PTL DEF Spec

----------------------------------------------------------------------------
(* The safety properties *)

\* The model stays within its types.
THEOREM TypeCorrect == Spec => []TypeOK
  BY Inductive, PTL DEF IInv

\* At most one render holds the lock, however calls, polls, announcements and
\* failures interleave (render_coordinator.rs:1-2).
THEOREM MutualExclusion == Spec => []OneRenderAtATime
<1>1. IInv => OneRenderAtATime
  BY DEF IInv, LockInv, OneRenderAtATime
<1> QED
  BY Inductive, <1>1, PTL

\* No deck stays on the waiting list after its render is gone.
THEOREM QueueHasNoGhosts == Spec => []NoGhostInQueue
  BY Inductive, PTL DEF IInv

----------------------------------------------------------------------------
(* The announcement, for renders of different decks *)

LEMMA ListedStep ==
  ASSUME DistinctDecks PROVE TypeOK /\ ListedInv /\ [Next]_vars => ListedInv'
<1> SUFFICES ASSUME TypeOK, ListedInv, [Next]_vars PROVE ListedInv'
  OBVIOUS
<1> USE DEF TypeOK, ListedInv, Waiting, Goto
<1>1. ASSUME NEW r \in Renders, Register(r) PROVE ListedInv'
  BY <1>1 DEF Register
<1>2. ASSUME NEW r \in Renders, Dequeue(r) PROVE ListedInv'
  BY <1>2 DEF Dequeue, DistinctDecks
<1>3. ASSUME NEW r \in Renders,
             Call(r) \/ TryLockMiss(r) \/ WakeUp(r) \/ TryLockHit(r) \/ AnnounceError(r)
               \/ Enter(r) \/ Leave(r)
      PROVE  ListedInv'
  BY <1>3 DEF Call, TryLockMiss, WakeUp, TryLockHit, AnnounceError, Enter, Leave
<1>4. ASSUME NEW r \in Renders, NEW e \in Decks, Announce(r, e) PROVE ListedInv'
  BY <1>4 DEF Announce
<1>5. CASE UNCHANGED vars
  BY <1>5 DEF vars
<1> QED
  BY <1>1, <1>2, <1>3, <1>4, <1>5 DEF Next, Step

\* When a render has nobody left to tell, the list is exactly the decks of the
\* renders that wait, one deck each: the length told counts all of them.
LEMMA EnterCounts ==
  ASSUME DistinctDecks, IInv, ListedInv, NEW r \in Renders, Enter(r)
  PROVE  LET others == {q \in Renders : Waiting(q)}
         IN  \A q \in others : told[DeckOf[q]] = QueueLength(Cardinality(others))
<1> DEFINE others == {q \in Renders : Waiting(q)}
           deck == [q \in others |-> DeckOf[q]]
<1>1. \A d \in pending : told[d] = QueueLength(Cardinality(pending))
  BY DEF Enter, Goto, IInv, AnnounceInv
<1>2. \A q \in Renders : pc[q] # "locked"
  BY DEF Enter, Goto, IInv, LockInv, Holding
<1>3. \A q \in others : DeckOf[q] \in pending
  BY DEF ListedInv
<1>4. \A d \in pending : \E q \in others : DeckOf[q] = d
  BY <1>2 DEF IInv, NoGhostInQueue
<1>5. deck \in Bijection(others, pending)
  <2>1. deck \in [others -> pending]
    BY <1>3
  <2>2. \A q, s \in others : deck[q] = deck[s] => q = s
    BY DEF DistinctDecks
  <2>3. \A d \in pending : \E q \in others : deck[q] = d
    BY <1>4
  <2> QED
    BY <2>1, <2>2, <2>3 DEF Bijection, Injection, Surjection, IsInjective
<1>6. IsFiniteSet(pending)
  BY FiniteAssumption, FS_Subset DEF IInv, TypeOK
<1>7. ExistsBijection(pending, others)
  BY <1>5, Fun_ExistsBijSymmetric DEF ExistsBijection
<1>8. Cardinality(others) = Cardinality(pending)
  BY <1>6, <1>7, FS_Bijection
<1> QED
  BY <1>1, <1>3, <1>8

\* With one render per deck, a render starts only after every waiting render was
\* told a queue length that counts all of them (render_coordinator.rs:41-52).
THEOREM ListenersTold == ASSUME DistinctDecks PROVE Spec => AllListenersTold
<1>1. Init => ListedInv
  BY DEF Init, ListedInv, Waiting
<1>2. Spec => []ListedInv
  BY <1>1, ListedStep, Inductive, PTL DEF Spec, IInv
<1>3. IInv /\ ListedInv /\ [Next]_vars =>
        [\A r \in Renders : Enter(r) =>
           LET others == {q \in Renders : Waiting(q)}
           IN  \A q \in others : told[DeckOf[q]] = QueueLength(Cardinality(others))]_vars
  BY EnterCounts
<1> QED
  BY <1>2, <1>3, Inductive, PTL DEF Spec, AllListenersTold

----------------------------------------------------------------------------
(* The coordinator implements the abstract lock *)

LEMMA NobodyElseHolds ==
  ASSUME IInv, lock = NoRender PROVE \A r \in Renders : ~Holding(r)
  BY NoRenderAssumption DEF IInv, LockInv

\* Only the program counter decides the phase a client sees.
LEMMA PhaseUpdate ==
  ASSUME NEW r \in Renders, NEW p,
         \A q \in Renders : Phase'[q] = IF q = r THEN p ELSE Phase[q]
  PROVE  Phase' = [Phase EXCEPT ![r] = p]
  BY DEF Phase

LEMMA PhaseStep ==
  ASSUME IInv, [Next]_vars PROVE [Mutex!Next]_Phase
<1> USE DEF IInv, TypeOK, Holding, Waiting, Goto
<1>1. ASSUME NEW r \in Renders, Register(r) PROVE Mutex!Request(r)
  <2>1. Phase[r] = "out"
    BY <1>1 DEF Register, Phase
  <2>2. \A q \in Renders : Phase'[q] = IF q = r THEN "waiting" ELSE Phase[q]
    BY <1>1 DEF Register, Phase
  <2> QED
    BY <2>1, <2>2, PhaseUpdate DEF Mutex!Request
<1>2. ASSUME NEW r \in Renders, TryLockHit(r) PROVE Mutex!Acquire(r)
  <2>1. Phase[r] = "waiting"
    BY <1>2 DEF TryLockHit, Phase
  <2>2. Mutex!Holders = {}
    BY <1>2, NobodyElseHolds DEF TryLockHit, Mutex!Holders, Phase
  <2>3. \A q \in Renders : Phase'[q] = IF q = r THEN "holding" ELSE Phase[q]
    BY <1>2 DEF TryLockHit, Phase
  <2> QED
    BY <2>1, <2>2, <2>3, PhaseUpdate DEF Mutex!Acquire
<1>3. ASSUME NEW r \in Renders, AnnounceError(r) \/ Leave(r) PROVE Mutex!Release(r)
  <2>1. Phase[r] = "holding"
    BY <1>3 DEF AnnounceError, Leave, Phase
  <2>2. \A q \in Renders : Phase'[q] = IF q = r THEN "out" ELSE Phase[q]
    BY <1>3 DEF AnnounceError, Leave, Phase
  <2> QED
    BY <2>1, <2>2, PhaseUpdate DEF Mutex!Release
<1>4. ASSUME NEW r \in Renders,
             Call(r) \/ TryLockMiss(r) \/ WakeUp(r) \/ Dequeue(r) \/ Enter(r)
      PROVE  UNCHANGED Phase
  <2>1. \A q \in Renders : Phase'[q] = Phase[q]
    BY <1>4 DEF Call, TryLockMiss, WakeUp, Dequeue, Enter, Phase
  <2> QED
    BY <2>1 DEF Phase
<1>5. ASSUME NEW r \in Renders, NEW d \in Decks, Announce(r, d) PROVE UNCHANGED Phase
  BY <1>5 DEF Announce, Phase
<1>6. CASE UNCHANGED vars
  BY <1>6 DEF vars, Phase
<1> QED
  BY <1>1, <1>2, <1>3, <1>4, <1>5, <1>6 DEF Next, Step, Mutex!Next

\* Every behaviour of the coordinator is one of the abstract lock: Register is
\* its request, a successful try_lock its grant, dropping the guard its release;
\* polling, sleeping, dequeuing and announcing change nothing a client sees.
THEOREM Refinement == Spec => ImplementsMutex
<1>1. Init => Mutex!Init
  BY DEF Init, Mutex!Init, Phase, Holding, Waiting
<1> QED
  BY <1>1, PhaseStep, Inductive, PTL DEF Spec, ImplementsMutex, Mutex!Spec
=============================================================================
