---------------------------- MODULE WsPoolProofs -----------------------------
(***************************************************************************)
(* Proofs about WsPool, for any number of connections, messages and        *)
(* downloads, and any size of the pool.                                    *)
(***************************************************************************)
EXTENDS WsPool, FiniteSetTheorems, SequenceTheorems, TLAPS

(***************************************************************************)
(* The inductive invariant.  Shape is about who stands where: the inbox    *)
(* holds each message that is on its way once and for its own connection;  *)
(* a loop waits for a connection exactly when it has read one message that *)
(* has no task yet; tasks belong to loops that are past their login; and   *)
(* the lock agrees with where the renders stand.  PoolInv counts.          *)
(***************************************************************************)
Busy == {"acquire", "redis"}
Started == {"running", "acquire", "redis", "closed"}

TypesInv == /\ loop \in [Conns -> LoopSteps]
            /\ inbox \in [Conns -> Seq(Messages)]
            /\ at \in [Tasks -> TaskSteps]
            /\ phase \in [Tasks -> {"out", "waiting", "holding"}]
LockInv == \A t \in Tasks : /\ phase[t] = "holding" <=> at[t] = "render"
                            /\ phase[t] = "waiting" <=> at[t] = "wait"
InboxInv == \A c \in Conns : \A i \in 1 .. Len(inbox[c]) :
              /\ at[inbox[c][i]] = "inbox"
              /\ ConnOf[inbox[c][i]] = c
              /\ \A j \in 1 .. Len(inbox[c]) : inbox[c][i] = inbox[c][j] => i = j
DispatchInv == \A c \in Conns :
                 IF loop[c] \in Busy THEN \E m \in Messages : Dispatched(c) = {m}
                                     ELSE Dispatched(c) = {}
SpawnedInv == \A m \in Messages :
                at[m] \notin {"unsent", "inbox", "dispatch", "lost"}
                  => loop[ConnOf[m]] \in Started
OfferInv == \A t \in Tasks : at[t] = "offer" => t \in Messages
Shape == TypesInv /\ LockInv /\ InboxInv /\ DispatchInv /\ SpawnedInv /\ OfferInv
PoolInv == idle \in 0 .. PoolSize /\ PoolAccounted
IInv == Shape /\ PoolInv

----------------------------------------------------------------------------
(* Counting *)

\* Sets of loops and tasks can be counted.
LEMMA Countable ==
  ASSUME NEW S \in SUBSET (Tasks \cup Conns)
  PROVE  IsFiniteSet(S) /\ Cardinality(S) \in Nat
<1>1. IsFiniteSet(Tasks \cup Conns)
  BY FiniteAssumption, FS_Union
<1> QED
  BY <1>1, FS_Subset, FS_CardinalityType

\* Who takes a connection of the pool has one more.
LEMMA Gain ==
  ASSUME NEW S \in SUBSET (Tasks \cup Conns), NEW x \in Tasks \cup Conns, x \notin S,
         NEW i \in Nat, i > 0, i + Cardinality(S) = PoolSize
  PROVE  i - 1 \in 0 .. PoolSize /\ (i - 1) + Cardinality(S \cup {x}) = PoolSize
<1>1. IsFiniteSet(S) /\ Cardinality(S) \in Nat
  BY Countable
<1>2. Cardinality(S \cup {x}) = Cardinality(S) + 1
  BY <1>1, FS_AddElement
<1> QED
  BY <1>1, <1>2, PoolAssumption

\* Who gives one back had it.
LEMMA Loss ==
  ASSUME NEW S \in SUBSET (Tasks \cup Conns), NEW x \in S,
         NEW i \in Nat, i + Cardinality(S) = PoolSize
  PROVE  i + 1 \in 0 .. PoolSize /\ (i + 1) + Cardinality(S \ {x}) = PoolSize
<1>1. IsFiniteSet(S) /\ Cardinality(S) \in Nat
  BY Countable
<1>2. Cardinality(S \ {x}) = Cardinality(S) - 1
  BY <1>1, FS_RemoveElement
<1>3. Cardinality(S \ {x}) \in Nat
  BY Countable
<1> QED
  BY <1>1, <1>2, <1>3, PoolAssumption

\* Who passes one on leaves as many as there were.
LEMMA Exchange ==
  ASSUME NEW S \in SUBSET (Tasks \cup Conns), NEW x \in S,
         NEW y \in Tasks \cup Conns, y \notin S
  PROVE  Cardinality((S \ {x}) \cup {y}) = Cardinality(S)
<1>1. IsFiniteSet(S) /\ Cardinality(S) \in Nat
  BY Countable
<1>2. IsFiniteSet(S \ {x}) /\ Cardinality(S \ {x}) = Cardinality(S) - 1
  BY <1>1, FS_RemoveElement
<1>3. Cardinality((S \ {x}) \cup {y}) = Cardinality(S \ {x}) + 1
  BY <1>2, FS_AddElement
<1> QED
  BY <1>1, <1>2, <1>3

LEMMA HoldersType == PoolHolders \in SUBSET (Tasks \cup Conns)
  BY DEF PoolHolders

----------------------------------------------------------------------------
(* Shape is kept *)

LEMMA InitShape == Init => Shape
<1> SUFFICES ASSUME Init PROVE Shape
  OBVIOUS
<1>1. TypesInv /\ LockInv /\ OfferInv
  BY DEF Init, TypesInv, LockInv, OfferInv, LoopSteps, TaskSteps, Mutex!Init
<1>2. InboxInv
  BY DEF Init, InboxInv
<1>3. DispatchInv
  BY DEF Init, DispatchInv, Dispatched, Busy, Tasks
<1>4. SpawnedInv
  BY DEF Init, SpawnedInv, Tasks
<1> QED
  BY <1>1, <1>2, <1>3, <1>4 DEF Shape

\* A loop that goes on by itself, between two steps before its messages or between
\* two steps of reading one.
LEMMA LoopKeepsShape ==
  ASSUME Shape, NEW c \in Conns, NEW to \in LoopSteps,
         loop' = [loop EXCEPT ![c] = to], UNCHANGED <<inbox, at, phase>>,
         loop[c] \in Busy <=> to \in Busy,
         loop[c] \in Started => to \in Started
  PROVE  Shape'
<1>1. TypesInv' /\ LockInv' /\ InboxInv' /\ OfferInv'
  BY DEF Shape, TypesInv, LockInv, InboxInv, OfferInv
<1>2. DispatchInv'
  BY DEF Shape, TypesInv, DispatchInv, Dispatched
<1>3. SpawnedInv'
  BY ConnAssumption DEF Shape, TypesInv, SpawnedInv
<1> QED
  BY <1>1, <1>2, <1>3 DEF Shape

\* A task that was spawned, or a download, goes on.
LEMMA TaskKeepsShape ==
  ASSUME Shape, NEW t \in Tasks, NEW to \in TaskSteps,
         at' = [at EXCEPT ![t] = to], UNCHANGED <<loop, inbox>>,
         at[t] \notin {"inbox", "dispatch"}, to \notin {"inbox", "dispatch"},
         t \in Messages => at[t] \notin {"unsent", "lost"},
         to = "offer" => t \in Messages,
         phase' \in [Tasks -> {"out", "waiting", "holding"}], LockInv'
  PROVE  Shape'
<1>1. TypesInv'
  BY DEF Shape, TypesInv
<1>2. InboxInv'
  <2> SUFFICES ASSUME NEW c \in Conns, NEW i \in 1 .. Len(inbox[c])
               PROVE  at'[inbox[c][i]] = "inbox"
    BY DEF Shape, InboxInv
  <2>1. at[inbox[c][i]] = "inbox"
    BY DEF Shape, InboxInv
  <2>2. inbox[c][i] \in Tasks
    BY DEF Shape, TypesInv, Tasks
  <2> QED
    BY <2>1, <2>2 DEF Shape, TypesInv
<1>3. DispatchInv'
  <2> SUFFICES \A c \in Conns : Dispatched(c)' = Dispatched(c)
    BY DEF Shape, DispatchInv
  <2> QED
    BY DEF Shape, TypesInv, Dispatched, Tasks
<1>4. SpawnedInv' /\ OfferInv'
  BY DEF Shape, TypesInv, SpawnedInv, OfferInv, Tasks
<1> QED
  BY <1>1, <1>2, <1>3, <1>4 DEF Shape

\* What a closing loop takes with it has neither a task nor a connection.
LEMMA CloseLoses ==
  ASSUME Shape, NEW c \in Conns, NEW t \in Tasks, t \in Unread(c) \cup Dispatched(c)
  PROVE  at[t] \in {"inbox", "dispatch"} /\ t \in Messages /\ ConnOf[t] = c
<1>1. CASE t \in Unread(c)
  <2>1. PICK i \in 1 .. Len(inbox[c]) : t = inbox[c][i]
    BY <1>1 DEF Unread
  <2> QED
    BY <2>1 DEF Shape, TypesInv, InboxInv
<1>2. CASE t \in Dispatched(c)
  BY <1>2 DEF Dispatched
<1> QED
  BY <1>1, <1>2

LEMMA CloseKeepsShape ==
  ASSUME Shape, NEW c \in Conns, NEW from \in LoopSteps, Close(c, from)
  PROVE  Shape'
<1>1. /\ loop' = [loop EXCEPT ![c] = "closed"]
      /\ inbox' = [inbox EXCEPT ![c] = <<>>]
      /\ at' = [t \in Tasks |-> IF t \in Unread(c) \cup Dispatched(c)
                                  THEN "lost" ELSE at[t]]
      /\ phase' = phase
  BY DEF Close, LoopGoes
<1>2. TypesInv'
  BY <1>1 DEF Shape, TypesInv, LoopSteps, TaskSteps
<1>3. LockInv' /\ OfferInv'
  BY <1>1, CloseLoses DEF Shape, TypesInv, LockInv, OfferInv
<1>4. InboxInv'
  <2> SUFFICES ASSUME NEW d \in Conns, NEW i \in 1 .. Len(inbox'[d])
               PROVE  /\ at'[inbox'[d][i]] = "inbox"
                      /\ ConnOf[inbox'[d][i]] = d
                      /\ \A j \in 1 .. Len(inbox'[d]) : inbox'[d][i] = inbox'[d][j] => i = j
    BY DEF InboxInv
  <2>1. d # c /\ inbox'[d] = inbox[d]
    BY <1>1 DEF Shape, TypesInv
  <2>2. /\ inbox[d][i] \in Tasks
        /\ at[inbox[d][i]] = "inbox" /\ ConnOf[inbox[d][i]] = d
        /\ \A j \in 1 .. Len(inbox[d]) : inbox[d][i] = inbox[d][j] => i = j
    BY <2>1 DEF Shape, TypesInv, InboxInv, Tasks
  <2>3. inbox[d][i] \notin Unread(c) \cup Dispatched(c)
    BY <2>1, <2>2, CloseLoses
  <2> QED
    BY <1>1, <2>1, <2>2, <2>3
<1>5. DispatchInv'
  <2>1. Dispatched(c)' = {}
    BY <1>1 DEF Dispatched, Tasks
  <2>2. \A d \in Conns \ {c} : Dispatched(d)' = Dispatched(d)
    BY <1>1, CloseLoses DEF Dispatched, Tasks
  <2> QED
    BY <1>1, <2>1, <2>2 DEF Shape, TypesInv, DispatchInv, Busy
<1>6. SpawnedInv'
  BY <1>1, ConnAssumption DEF Shape, TypesInv, SpawnedInv, Started, Tasks
<1> QED
  BY <1>2, <1>3, <1>4, <1>5, <1>6 DEF Shape

LEMMA SendKeepsShape ==
  ASSUME Shape, NEW m \in Messages, Send(m)
  PROVE  Shape'
<1> DEFINE c == ConnOf[m]
<1>0. c \in Conns /\ m \in Tasks
  BY ConnAssumption DEF Tasks
<1>1. /\ at[m] = "unsent"
      /\ at' = [at EXCEPT ![m] = "inbox"]
      /\ inbox' = [inbox EXCEPT ![c] = Append(inbox[c], m)]
      /\ loop' = loop /\ phase' = phase
  BY DEF Send, TaskGoes
<1>2. /\ inbox[c] \in Seq(Messages) /\ Len(inbox[c]) \in Nat
      /\ Append(inbox[c], m) \in Seq(Messages)
      /\ Len(Append(inbox[c], m)) = Len(inbox[c]) + 1
      /\ \A i \in 1 .. Len(inbox[c]) : Append(inbox[c], m)[i] = inbox[c][i]
      /\ Append(inbox[c], m)[Len(inbox[c]) + 1] = m
  BY <1>0, AppendProperties DEF Shape, TypesInv
<1>3. TypesInv'
  BY <1>0, <1>1, <1>2 DEF Shape, TypesInv, TaskSteps
<1>4. LockInv' /\ OfferInv' /\ SpawnedInv'
  BY <1>0, <1>1 DEF Shape, TypesInv, LockInv, OfferInv, SpawnedInv, Tasks
<1>5. DispatchInv'
  <2> SUFFICES \A d \in Conns : Dispatched(d)' = Dispatched(d)
    BY <1>1 DEF Shape, DispatchInv
  <2> QED
    BY <1>0, <1>1 DEF Shape, TypesInv, Dispatched, Tasks
<1>6. InboxInv'
  <2>1. ASSUME NEW d \in Conns, NEW i \in 1 .. Len(inbox[d])
        PROVE  /\ inbox[d][i] # m
               /\ at'[inbox[d][i]] = "inbox" /\ ConnOf[inbox[d][i]] = d
               /\ \A j \in 1 .. Len(inbox[d]) : inbox[d][i] = inbox[d][j] => i = j
    <3>1. /\ inbox[d][i] \in Tasks
          /\ at[inbox[d][i]] = "inbox" /\ ConnOf[inbox[d][i]] = d
          /\ \A j \in 1 .. Len(inbox[d]) : inbox[d][i] = inbox[d][j] => i = j
      BY <2>1 DEF Shape, TypesInv, InboxInv, Tasks
    <3> QED
      BY <1>1, <3>1 DEF Shape, TypesInv
  <2>2. \A d \in Conns \ {c} : inbox'[d] = inbox[d]
    BY <1>1 DEF Shape, TypesInv
  <2>3. inbox'[c] = Append(inbox[c], m)
    BY <1>0, <1>1 DEF Shape, TypesInv
  <2>4. at'[m] = "inbox"
    BY <1>0, <1>1 DEF Shape, TypesInv
  <2>5. ASSUME NEW i \in 1 .. Len(inbox'[c])
        PROVE  /\ at'[inbox'[c][i]] = "inbox" /\ ConnOf[inbox'[c][i]] = c
               /\ \A j \in 1 .. Len(inbox'[c]) : inbox'[c][i] = inbox'[c][j] => i = j
    <3> HIDE DEF c
    <3>1. CASE i \in 1 .. Len(inbox[c])
      BY <1>0, <1>2, <2>1, <2>3, <2>5, <3>1
    <3>2. CASE i = Len(inbox[c]) + 1
      <4>1. ConnOf[m] = c
        BY DEF c
      <4> QED
        BY <1>0, <1>2, <2>1, <2>3, <2>4, <2>5, <3>2, <4>1
    <3> QED
      BY <1>2, <2>3, <3>1, <3>2
  <2> QED
    BY <2>1, <2>2, <2>5 DEF InboxInv
<1> QED
  BY <1>3, <1>4, <1>5, <1>6 DEF Shape

LEMMA ReadKeepsShape ==
  ASSUME Shape, NEW c \in Conns, Read(c)
  PROVE  Shape'
<1> DEFINE h == Head(inbox[c])
<1>1. /\ loop[c] = "running" /\ inbox[c] # <<>>
      /\ loop' = [loop EXCEPT ![c] = "acquire"]
      /\ inbox' = [inbox EXCEPT ![c] = Tail(inbox[c])]
      /\ at' = [at EXCEPT ![h] = "dispatch"]
      /\ phase' = phase
  BY DEF Read, LoopGoes
<1>2. /\ inbox[c] \in Seq(Messages) /\ Len(inbox[c]) \in Nat /\ Len(inbox[c]) > 0
      /\ h \in Messages /\ h = inbox[c][1]
      /\ Tail(inbox[c]) \in Seq(Messages)
      /\ Len(Tail(inbox[c])) = Len(inbox[c]) - 1
      /\ \A i \in 1 .. Len(Tail(inbox[c])) : Tail(inbox[c])[i] = inbox[c][i + 1]
  BY <1>1, HeadTailProperties DEF Shape, TypesInv
<1>3. h \in Tasks /\ at[h] = "inbox" /\ ConnOf[h] = c
  BY <1>2 DEF Shape, InboxInv, Tasks
<1> HIDE DEF h
<1>4. TypesInv'
  BY <1>1, <1>2, <1>3 DEF Shape, TypesInv, TaskSteps, LoopSteps
<1>5. LockInv' /\ OfferInv'
  BY <1>1, <1>3 DEF Shape, TypesInv, LockInv, OfferInv
<1>6. SpawnedInv'
  BY <1>1, <1>3, ConnAssumption DEF Shape, TypesInv, SpawnedInv, Started, Tasks
<1>7. DispatchInv'
  <2>1. Dispatched(c) = {}
    BY <1>1 DEF Shape, DispatchInv, Busy
  <2>2. Dispatched(c)' = {h}
    BY <1>1, <1>2, <1>3, <2>1 DEF Shape, TypesInv, Dispatched, Tasks
  <2>3. \A d \in Conns \ {c} : Dispatched(d)' = Dispatched(d)
    BY <1>1, <1>3 DEF Shape, TypesInv, Dispatched, Tasks
  <2> QED
    BY <1>1, <1>2, <2>2, <2>3 DEF Shape, TypesInv, DispatchInv, Busy
<1>8. InboxInv'
  <2>1. ASSUME NEW d \in Conns, NEW i \in 1 .. Len(inbox[d]), inbox[d][i] # h
        PROVE  /\ at'[inbox[d][i]] = "inbox" /\ ConnOf[inbox[d][i]] = d
               /\ \A j \in 1 .. Len(inbox[d]) : inbox[d][i] = inbox[d][j] => i = j
    <3>1. /\ inbox[d][i] \in Tasks
          /\ at[inbox[d][i]] = "inbox" /\ ConnOf[inbox[d][i]] = d
          /\ \A j \in 1 .. Len(inbox[d]) : inbox[d][i] = inbox[d][j] => i = j
      BY <2>1 DEF Shape, TypesInv, InboxInv, Tasks
    <3> QED
      BY <1>1, <2>1, <3>1 DEF Shape, TypesInv
  <2>2. ASSUME NEW d \in Conns \ {c}
        PROVE  inbox'[d] = inbox[d] /\ \A i \in 1 .. Len(inbox[d]) : inbox[d][i] # h
    BY <1>1, <1>3 DEF Shape, TypesInv, InboxInv
  <2>3. inbox'[c] = Tail(inbox[c])
    BY <1>1 DEF Shape, TypesInv
  <2>4. \A i \in 1 .. Len(inbox[c]) : inbox[c][i] = h => i = 1
    BY <1>2 DEF Shape, InboxInv
  <2>5. ASSUME NEW i \in 1 .. Len(inbox'[c])
        PROVE  /\ at'[inbox'[c][i]] = "inbox" /\ ConnOf[inbox'[c][i]] = c
               /\ \A j \in 1 .. Len(inbox'[c]) : inbox'[c][i] = inbox'[c][j] => i = j
    <3>1. i + 1 \in 1 .. Len(inbox[c]) /\ inbox'[c][i] = inbox[c][i + 1]
      BY <1>2, <2>3
    <3>2. inbox[c][i + 1] # h
      BY <2>4, <3>1
    <3>3. /\ at'[inbox[c][i + 1]] = "inbox" /\ ConnOf[inbox[c][i + 1]] = c
          /\ \A j \in 1 .. Len(inbox[c]) : inbox[c][i + 1] = inbox[c][j] => i + 1 = j
      BY <2>1, <3>1, <3>2
    <3>4. ASSUME NEW j \in 1 .. Len(inbox'[c]), inbox'[c][i] = inbox'[c][j]
          PROVE  i = j
      <4>1. j + 1 \in 1 .. Len(inbox[c]) /\ inbox'[c][j] = inbox[c][j + 1]
        BY <1>2, <2>3
      <4> QED
        BY <3>1, <3>3, <3>4, <4>1
    <3> QED
      BY <3>1, <3>3, <3>4
  <2> QED
    BY <2>1, <2>2, <2>5 DEF InboxInv
<1> QED
  BY <1>4, <1>5, <1>6, <1>7, <1>8 DEF Shape

LEMMA SpawnKeepsShape ==
  ASSUME Shape, NEW c \in Conns, Spawn(c)
  PROVE  Shape'
<1>1. /\ loop' = [loop EXCEPT ![c] = "running"]
      /\ at' = [t \in Tasks |-> IF t \in Dispatched(c) THEN "handling" ELSE at[t]]
      /\ inbox' = inbox /\ phase' = phase
  BY DEF Spawn, LoopGoes
<1>2. \A t \in Dispatched(c) : t \in Messages /\ at[t] = "dispatch" /\ ConnOf[t] = c
  BY DEF Dispatched
<1>3. TypesInv'
  BY <1>1 DEF Shape, TypesInv, LoopSteps, TaskSteps
<1>4. LockInv' /\ OfferInv'
  BY <1>1, <1>2 DEF Shape, LockInv, OfferInv
<1>5. InboxInv'
  <2> SUFFICES ASSUME NEW d \in Conns, NEW i \in 1 .. Len(inbox[d])
               PROVE  at'[inbox[d][i]] = "inbox"
    BY <1>1 DEF Shape, InboxInv
  <2>1. inbox[d][i] \in Tasks /\ at[inbox[d][i]] = "inbox"
    BY DEF Shape, TypesInv, InboxInv, Tasks
  <2> QED
    BY <1>1, <1>2, <2>1
<1>6. DispatchInv'
  <2>1. Dispatched(c)' = {}
    BY <1>1 DEF Dispatched, Tasks
  <2>2. \A d \in Conns \ {c} : Dispatched(d)' = Dispatched(d)
    BY <1>1, <1>2 DEF Dispatched, Tasks
  <2> QED
    BY <1>1, <2>1, <2>2 DEF Shape, TypesInv, DispatchInv, Busy
<1>7. SpawnedInv'
  BY <1>1, <1>2, ConnAssumption DEF Shape, TypesInv, SpawnedInv, Started, Tasks
<1> QED
  BY <1>3, <1>4, <1>5, <1>6, <1>7 DEF Shape

----------------------------------------------------------------------------
(* The count is kept *)

LEMMA InitPool == Init => PoolInv
<1> SUFFICES ASSUME Init PROVE PoolInv
  OBVIOUS
<1>1. PoolHolders = {}
  BY DEF Init, PoolHolders, HoldsOne
<1>2. Cardinality(PoolHolders) = 0
  BY <1>1, FS_EmptySet
<1> QED
  BY <1>2, PoolAssumption DEF Init, PoolInv, PoolAccounted

LEMMA SameHolders ==
  ASSUME PoolInv, PoolHolders' = PoolHolders, idle' = idle
  PROVE  PoolInv'
  BY DEF PoolInv, PoolAccounted

LEMMA OneMoreHolder ==
  ASSUME PoolInv, TakeConnection, NEW x \in Tasks \cup Conns, x \notin PoolHolders,
         PoolHolders' = PoolHolders \cup {x}
  PROVE  PoolInv'
<1>1. /\ idle \in Nat /\ idle > 0 /\ idle' = idle - 1
      /\ idle + Cardinality(PoolHolders) = PoolSize
  BY PoolAssumption DEF PoolInv, PoolAccounted, TakeConnection
<1>2. /\ idle - 1 \in 0 .. PoolSize
      /\ (idle - 1) + Cardinality(PoolHolders \cup {x}) = PoolSize
  BY <1>1, HoldersType, Gain
<1> QED
  BY <1>1, <1>2 DEF PoolInv, PoolAccounted

LEMMA OneHolderLess ==
  ASSUME PoolInv, GiveBack, NEW x \in PoolHolders, PoolHolders' = PoolHolders \ {x}
  PROVE  PoolInv'
<1>1. /\ idle \in Nat /\ idle' = idle + 1
      /\ idle + Cardinality(PoolHolders) = PoolSize
  BY PoolAssumption DEF PoolInv, PoolAccounted, GiveBack
<1>2. /\ idle + 1 \in 0 .. PoolSize
      /\ (idle + 1) + Cardinality(PoolHolders \ {x}) = PoolSize
  BY <1>1, HoldersType, Loss
<1> QED
  BY <1>1, <1>2 DEF PoolInv, PoolAccounted

\* Who has a connection can be read off where the task, or the loop, stands.
LEMMA TaskHolds ==
  ASSUME Shape, NEW t \in Tasks, NEW to \in TaskSteps,
         at' = [at EXCEPT ![t] = to], loop' = loop
  PROVE  /\ t \in PoolHolders <=> at[t] \in HoldsOne
         /\ to \in HoldsOne => PoolHolders' = PoolHolders \cup {t}
         /\ to \notin HoldsOne => PoolHolders' = PoolHolders \ {t}
  BY DisjointAssumption DEF Shape, TypesInv, PoolHolders

LEMMA LoopHolds ==
  ASSUME Shape, NEW c \in Conns, NEW to \in LoopSteps,
         loop' = [loop EXCEPT ![c] = to], at' = at
  PROVE  /\ c \in PoolHolders <=> loop[c] \in {"login", "redis"}
         /\ to \in {"login", "redis"} => PoolHolders' = PoolHolders \cup {c}
         /\ to \notin {"login", "redis"} => PoolHolders' = PoolHolders \ {c}
  BY DisjointAssumption DEF Shape, TypesInv, PoolHolders

LEMMA CloseHolds ==
  ASSUME Shape, NEW c \in Conns, NEW from \in LoopSteps, Close(c, from)
  PROVE  /\ c \in PoolHolders <=> from \in {"login", "redis"}
         /\ PoolHolders' = PoolHolders \ {c}
<1>1. /\ loop[c] = from /\ loop' = [loop EXCEPT ![c] = "closed"]
      /\ at' = [t \in Tasks |-> IF t \in Unread(c) \cup Dispatched(c)
                                  THEN "lost" ELSE at[t]]
  BY DEF Close, LoopGoes
<1>2. {t \in Tasks : at'[t] \in HoldsOne} = {t \in Tasks : at[t] \in HoldsOne}
  BY <1>1, CloseLoses DEF HoldsOne
<1>3. {d \in Conns : loop'[d] \in {"login", "redis"}}
        = {d \in Conns : loop[d] \in {"login", "redis"}} \ {c}
  BY <1>1 DEF Shape, TypesInv
<1>4. c \notin Tasks
  BY DisjointAssumption
<1> QED
  BY <1>1, <1>2, <1>3, <1>4 DEF PoolHolders

----------------------------------------------------------------------------
(* Every step keeps the invariant *)

LEMMA CloseKeeps ==
  ASSUME IInv, NEW c \in Conns, NEW from \in LoopSteps, Close(c, from),
         IF from \in {"login", "redis"} THEN GiveBack ELSE idle' = idle
  PROVE  IInv'
<1>1. Shape'
  BY CloseKeepsShape DEF IInv
<1>2. PoolInv'
  <2>1. CASE from \in {"login", "redis"}
    BY <2>1, CloseHolds, OneHolderLess DEF IInv
  <2>2. CASE from \notin {"login", "redis"}
    BY <2>2, CloseHolds, SameHolders DEF IInv
  <2> QED
    BY <2>1, <2>2
<1> QED
  BY <1>1, <1>2 DEF IInv

LEMMA LoopKeeps ==
  ASSUME IInv, NEW c \in Conns, Accept(c) \/ LoopStep(c) \/ HangUp(c)
  PROVE  IInv'
<1> USE DEF LoopSteps, Busy, Started
<1>1. CASE Accept(c)
  <2>1. /\ loop[c] = "off" /\ loop' = [loop EXCEPT ![c] = "greet"]
        /\ UNCHANGED <<inbox, at, phase>> /\ idle' = idle
    BY <1>1 DEF Accept, LoopGoes
  <2>2. Shape'
    BY <2>1, LoopKeepsShape DEF IInv
  <2>3. c \notin PoolHolders /\ PoolHolders' = PoolHolders \ {c}
    BY <2>1, LoopHolds DEF IInv
  <2>4. PoolInv'
    BY <2>1, <2>3, SameHolders DEF IInv
  <2> QED
    BY <2>2, <2>4 DEF IInv
<1>2. CASE GreetAcquire(c)
  <2>1. /\ loop[c] = "greet" /\ loop' = [loop EXCEPT ![c] = "login"]
        /\ UNCHANGED <<inbox, at, phase>> /\ TakeConnection
    BY <1>2 DEF GreetAcquire, LoopGoes
  <2>2. Shape'
    BY <2>1, LoopKeepsShape DEF IInv
  <2>3. PoolInv'
    BY <2>1, LoopHolds, OneMoreHolder DEF IInv
  <2> QED
    BY <2>2, <2>3 DEF IInv
<1>3. CASE LoggedIn(c)
  <2>1. /\ loop[c] = "login" /\ loop' = [loop EXCEPT ![c] = "running"]
        /\ UNCHANGED <<inbox, at, phase>> /\ GiveBack
    BY <1>3 DEF LoggedIn, LoopGoes
  <2>2. Shape'
    BY <2>1, LoopKeepsShape DEF IInv
  <2>3. PoolInv'
    BY <2>1, LoopHolds, OneHolderLess DEF IInv
  <2> QED
    BY <2>2, <2>3 DEF IInv
<1>4. CASE Acquire(c)
  <2>1. /\ loop[c] = "acquire" /\ loop' = [loop EXCEPT ![c] = "redis"]
        /\ UNCHANGED <<inbox, at, phase>> /\ TakeConnection
    BY <1>4 DEF Acquire, LoopGoes
  <2>2. Shape'
    BY <2>1, LoopKeepsShape DEF IInv
  <2>3. PoolInv'
    BY <2>1, LoopHolds, OneMoreHolder DEF IInv
  <2> QED
    BY <2>2, <2>3 DEF IInv
<1>5. CASE LoginRefused(c)
  BY <1>5, CloseKeeps DEF LoginRefused
<1>6. CASE GreetTimeout(c)
  BY <1>6, CloseKeeps DEF GreetTimeout
<1>7. CASE AcquireTimeout(c)
  BY <1>7, CloseKeeps DEF AcquireTimeout
<1>8. CASE RedisFails(c)
  BY <1>8, CloseKeeps DEF RedisFails
<1>9. CASE HangUp(c)
  BY <1>9, CloseKeeps DEF HangUp
<1>10. CASE Read(c)
  <2>1. Shape'
    BY <1>10, ReadKeepsShape DEF IInv
  <2>2. Head(inbox[c]) \in Tasks /\ at[Head(inbox[c])] = "inbox"
    <3>1. inbox[c] \in Seq(Messages) /\ inbox[c] # <<>>
      BY <1>10 DEF Read, IInv, Shape, TypesInv
    <3> QED
      BY <3>1 DEF IInv, Shape, InboxInv, Tasks
  <2>3. PoolHolders' = PoolHolders /\ idle' = idle
    BY <1>10, <2>2 DEF Read, LoopGoes, IInv, Shape, TypesInv, PoolHolders, HoldsOne
  <2> QED
    BY <2>1, <2>3, SameHolders DEF IInv
<1>11. CASE Spawn(c)
  <2>1. Shape'
    BY <1>11, SpawnKeepsShape DEF IInv
  <2>2. /\ loop[c] = "redis" /\ loop' = [loop EXCEPT ![c] = "running"] /\ idle' = idle
        /\ at' = [t \in Tasks |-> IF t \in Dispatched(c) THEN "handling" ELSE at[t]]
    BY <1>11 DEF Spawn, LoopGoes
  <2>3. PICK m \in Messages : Dispatched(c) = {m}
    BY <2>2 DEF IInv, Shape, DispatchInv
  <2>4. m \in Tasks /\ at[m] = "dispatch"
    BY <2>3 DEF Dispatched, Tasks
  <2>5. c \in PoolHolders /\ m \notin PoolHolders
    BY <2>2, <2>4, DisjointAssumption DEF PoolHolders, HoldsOne
  <2>6. PoolHolders' = (PoolHolders \ {c}) \cup {m}
    BY <2>2, <2>3, <2>4, DisjointAssumption
    DEF IInv, Shape, TypesInv, PoolHolders, HoldsOne
  <2>7. Cardinality(PoolHolders') = Cardinality(PoolHolders)
    BY <2>4, <2>5, <2>6, HoldersType, Exchange
  <2>8. PoolInv'
    BY <2>2, <2>7 DEF IInv, PoolInv, PoolAccounted
  <2> QED
    BY <2>1, <2>8 DEF IInv
<1>12. CASE Take(c)
  <2>1. PICK m \in Messages : /\ ConnOf[m] = c
                              /\ \/ TaskGoes(m, "offer", "leave")
                                 \/ TaskGoes(m, "complain", "done")
    BY <1>12 DEF Take
  <2>2. m \in Tasks /\ UNCHANGED <<loop, inbox, phase, idle>>
    BY <1>12 DEF Take, Tasks
  <2>3. Shape'
    <3>1. LockInv' /\ phase' \in [Tasks -> {"out", "waiting", "holding"}]
      BY <2>1, <2>2 DEF TaskGoes, IInv, Shape, TypesInv, LockInv
    <3> QED
      BY <2>1, <2>2, <3>1, TaskKeepsShape DEF TaskGoes, IInv, TaskSteps
  <2>4. PoolHolders' = PoolHolders
    BY <2>1, <2>2, TaskHolds DEF TaskGoes, IInv, TaskSteps, HoldsOne
  <2> QED
    BY <2>2, <2>3, <2>4, SameHolders DEF IInv
<1> QED
  BY <1>1, <1>2, <1>3, <1>4, <1>5, <1>6, <1>7, <1>8, <1>9, <1>10, <1>11, <1>12
  DEF LoopStep, GetConnection

LEMMA SendKeeps ==
  ASSUME IInv, NEW m \in Messages, Send(m)
  PROVE  IInv'
<1>1. Shape'
  BY SendKeepsShape DEF IInv
<1>2. /\ m \in Tasks /\ at[m] = "unsent" /\ at' = [at EXCEPT ![m] = "inbox"]
      /\ loop' = loop /\ idle' = idle
  BY DEF Send, TaskGoes, Tasks
<1>3. m \notin PoolHolders /\ PoolHolders' = PoolHolders \ {m}
  BY <1>2, TaskHolds DEF IInv, TaskSteps, HoldsOne
<1> QED
  BY <1>1, <1>2, <1>3, SameHolders DEF IInv

LEMMA DownloadKeeps ==
  ASSUME IInv, NEW d \in Downloads, Arrive(d) \/ DownloadStep(d)
  PROVE  IInv'
<1> USE DEF TaskSteps, HoldsOne
<1>1. d \in Tasks /\ d \notin Messages
  BY DisjointAssumption DEF Tasks
<1>2. ASSUME NEW to \in {"session_wait", "session", "deck_wait", "handling", "lost"},
             at[d] \notin {"inbox", "dispatch", "wait", "render"},
             at' = [at EXCEPT ![d] = to], UNCHANGED <<loop, inbox, phase>>
      PROVE  Shape'
  <2>1. LockInv' /\ phase' \in [Tasks -> {"out", "waiting", "holding"}]
    BY <1>1, <1>2 DEF IInv, Shape, TypesInv, LockInv
  <2> QED
    BY <1>1, <1>2, <2>1, TaskKeepsShape DEF IInv
<1>3. CASE Arrive(d)
  <2>1. /\ at[d] = "unsent" /\ at' = [at EXCEPT ![d] = "session_wait"]
        /\ UNCHANGED <<loop, inbox, phase>> /\ idle' = idle
    BY <1>3 DEF Arrive, TaskGoes
  <2>2. Shape'
    BY <1>2, <2>1
  <2>3. d \notin PoolHolders /\ PoolHolders' = PoolHolders \ {d}
    BY <1>1, <2>1, TaskHolds DEF IInv
  <2> QED
    BY <2>1, <2>2, <2>3, SameHolders DEF IInv
<1>4. CASE DownloadAcquire(d)
  <2>1. PICK to \in {"session", "handling"} :
           at[d] \in {"session_wait", "deck_wait"} /\ at' = [at EXCEPT ![d] = to]
    BY <1>4 DEF DownloadAcquire, TaskGoes
  <2>2. UNCHANGED <<loop, inbox, phase>> /\ TakeConnection
    BY <1>4 DEF DownloadAcquire
  <2>3. Shape'
    BY <1>2, <2>1, <2>2
  <2>4. d \notin PoolHolders /\ PoolHolders' = PoolHolders \cup {d}
    BY <1>1, <2>1, <2>2, TaskHolds DEF IInv
  <2> QED
    BY <1>1, <2>2, <2>3, <2>4, OneMoreHolder DEF IInv
<1>5. CASE DownloadTimeout(d)
  <2>1. /\ at[d] \in {"session_wait", "deck_wait"} /\ at' = [at EXCEPT ![d] = "lost"]
        /\ UNCHANGED <<loop, inbox, phase>> /\ idle' = idle
    BY <1>5 DEF DownloadTimeout
  <2>2. Shape'
    BY <1>2, <2>1
  <2>3. d \notin PoolHolders /\ PoolHolders' = PoolHolders \ {d}
    BY <1>1, <2>1, TaskHolds DEF IInv
  <2> QED
    BY <2>1, <2>2, <2>3, SameHolders DEF IInv
<1>6. CASE SessionRead(d) \/ SessionFails(d)
  <2>1. PICK to \in {"deck_wait", "lost"} :
           at[d] = "session" /\ at' = [at EXCEPT ![d] = to]
    BY <1>6 DEF SessionRead, SessionFails, TaskGoes
  <2>2. UNCHANGED <<loop, inbox, phase>> /\ GiveBack
    BY <1>6 DEF SessionRead, SessionFails
  <2>3. Shape'
    BY <1>2, <2>1, <2>2
  <2>4. d \in PoolHolders /\ PoolHolders' = PoolHolders \ {d}
    BY <1>1, <2>1, <2>2, TaskHolds DEF IInv
  <2> QED
    BY <2>2, <2>3, <2>4, OneHolderLess DEF IInv
<1> QED
  BY <1>3, <1>4, <1>5, <1>6 DEF DownloadStep

LEMMA TaskKeeps ==
  ASSUME IInv, NEW t \in Tasks, TaskStep(t) \/ Fail(t)
  PROVE  IInv'
<1> USE DEF TaskSteps, HoldsOne
<1>1. phase \in [Tasks -> {"out", "waiting", "holding"}] /\ at \in [Tasks -> TaskSteps]
  BY DEF IInv, Shape, TypesInv
<1>2. CASE OfferList(t)
  <2>1. /\ at[t] = "handling" /\ at' = [at EXCEPT ![t] = "offer"] /\ t \in Messages
        /\ UNCHANGED <<loop, inbox, phase>> /\ idle' = idle
    BY <1>2 DEF OfferList, TaskGoes, Lists
  <2>2. Shape'
    <3>1. LockInv' /\ phase' \in [Tasks -> {"out", "waiting", "holding"}]
      BY <1>1, <2>1 DEF IInv, Shape, LockInv
    <3> QED
      BY <2>1, <3>1, TaskKeepsShape DEF IInv
  <2>3. t \in PoolHolders /\ PoolHolders' = PoolHolders \cup {t}
    BY <2>1, TaskHolds DEF IInv
  <2> QED
    BY <2>1, <2>2, <2>3, SameHolders DEF IInv
<1>3. CASE Orphaned(t)
  <2>1. PICK to \in {"leave", "done"} :
           /\ at' = [at EXCEPT ![t] = to]
           /\ to = "leave" => at[t] = "offer"
           /\ to = "done" => at[t] = "complain"
    BY <1>3 DEF Orphaned, TaskGoes
  <2>2. UNCHANGED <<loop, inbox, phase>> /\ idle' = idle
    BY <1>3 DEF Orphaned
  <2>3. Shape'
    <3>1. LockInv' /\ phase' \in [Tasks -> {"out", "waiting", "holding"}]
      BY <1>1, <2>1, <2>2 DEF IInv, Shape, LockInv
    <3> QED
      BY <2>1, <2>2, <3>1, TaskKeepsShape DEF IInv
  <2>4. PoolHolders' = PoolHolders
    <3>1. CASE to = "leave"
      <4>1. t \in PoolHolders /\ PoolHolders' = PoolHolders \cup {t}
        BY <2>1, <2>2, <3>1, TaskHolds DEF IInv
      <4> QED
        BY <4>1
    <3>2. CASE to = "done"
      <4>1. t \notin PoolHolders /\ PoolHolders' = PoolHolders \ {t}
        BY <2>1, <2>2, <3>2, TaskHolds DEF IInv
      <4> QED
        BY <4>1
    <3> QED
      BY <3>1, <3>2
  <2> QED
    BY <2>2, <2>3, <2>4, SameHolders DEF IInv
<1>4. CASE Finish(t)
  <2>1. /\ at[t] \in {"leave", "store", "handling"} /\ at' = [at EXCEPT ![t] = "done"]
        /\ UNCHANGED <<loop, inbox, phase>> /\ GiveBack
    BY <1>4 DEF Finish, TaskGoes
  <2>2. Shape'
    <3>1. LockInv' /\ phase' \in [Tasks -> {"out", "waiting", "holding"}]
      BY <1>1, <2>1 DEF IInv, Shape, LockInv
    <3> QED
      BY <2>1, <3>1, TaskKeepsShape DEF IInv
  <2>3. t \in PoolHolders /\ PoolHolders' = PoolHolders \ {t}
    BY <2>1, TaskHolds DEF IInv
  <2> QED
    BY <2>1, <2>2, <2>3, OneHolderLess DEF IInv
<1>5. ASSUME NEW from \in {"handling", "wait", "render"},
             NEW to \in {"wait", "render", "store"},
             NEW p \in {"waiting", "holding", "out"},
             at[t] = from, at' = [at EXCEPT ![t] = to], UNCHANGED <<loop, inbox, idle>>,
             phase' = [phase EXCEPT ![t] = p],
             p = "waiting" <=> to = "wait", p = "holding" <=> to = "render"
      PROVE  IInv'
  <2>1. Shape'
    <3>1. LockInv' /\ phase' \in [Tasks -> {"out", "waiting", "holding"}]
      BY <1>1, <1>5 DEF IInv, Shape, LockInv
    <3> QED
      BY <1>5, <3>1, TaskKeepsShape DEF IInv
  <2>2. t \in PoolHolders /\ PoolHolders' = PoolHolders \cup {t}
    BY <1>5, TaskHolds DEF IInv
  <2> QED
    BY <1>5, <2>1, <2>2, SameHolders DEF IInv
<1>6. CASE AskForLock(t)
  BY <1>5, <1>6 DEF AskForLock, TaskGoes, Mutex!Request
<1>7. CASE GetLock(t)
  BY <1>5, <1>7 DEF GetLock, TaskGoes, Mutex!Acquire
<1>8. CASE Rendered(t)
  BY <1>5, <1>8 DEF Rendered, TaskGoes, Mutex!Release
<1>9. CASE Fail(t)
  <2>1. PICK to \in {"done", "complain"} :
           at[t] \in {"handling", "render", "store"} /\ at' = [at EXCEPT ![t] = to]
    BY <1>9 DEF Fail
  <2>2. /\ phase' = [phase EXCEPT ![t] = "out"]
        /\ UNCHANGED <<loop, inbox>> /\ GiveBack
    BY <1>9 DEF Fail
  <2>3. Shape'
    <3>1. LockInv' /\ phase' \in [Tasks -> {"out", "waiting", "holding"}]
      BY <1>1, <2>1, <2>2 DEF IInv, Shape, LockInv
    <3> QED
      BY <2>1, <2>2, <3>1, TaskKeepsShape DEF IInv
  <2>4. t \in PoolHolders /\ PoolHolders' = PoolHolders \ {t}
    BY <2>1, <2>2, TaskHolds DEF IInv
  <2> QED
    BY <2>2, <2>3, <2>4, OneHolderLess DEF IInv
<1> QED
  BY <1>2, <1>3, <1>4, <1>6, <1>7, <1>8, <1>9 DEF TaskStep

LEMMA Inductive == IInv /\ [Next]_vars => IInv'
<1> SUFFICES ASSUME IInv, [Next]_vars PROVE IInv'
  OBVIOUS
<1>1. ASSUME NEW c \in Conns, Accept(c) \/ LoopStep(c) \/ HangUp(c) PROVE IInv'
  BY <1>1, LoopKeeps
<1>2. ASSUME NEW m \in Messages, Send(m) PROVE IInv'
  BY <1>2, SendKeeps
<1>3. ASSUME NEW d \in Downloads, Arrive(d) \/ DownloadStep(d) PROVE IInv'
  BY <1>3, DownloadKeeps
<1>4. ASSUME NEW t \in Tasks, TaskStep(t) \/ Fail(t) PROVE IInv'
  BY <1>4, TaskKeeps
<1>5. ASSUME UNCHANGED vars PROVE IInv'
  BY <1>5 DEF vars, IInv, Shape, TypesInv, LockInv, InboxInv, DispatchInv, Dispatched,
              SpawnedInv, OfferInv, PoolInv, PoolAccounted, PoolHolders
<1> QED
  BY <1>1, <1>2, <1>3, <1>4, <1>5 DEF Next, Quiet

LEMMA Always == Spec => []IInv
<1>1. Init => IInv
  BY InitShape, InitPool DEF IInv
<1> QED
  BY <1>1, Inductive, PTL DEF Spec

----------------------------------------------------------------------------
(* The theorems *)

\* The state of loops, tasks, lock and pool keeps its type: the pool never has fewer
\* than no connections idle, or more than it was made with.
THEOREM TypeCorrect == Spec => []TypeOK
<1>1. IInv => TypeOK
  BY DEF IInv, Shape, TypesInv, PoolInv, TypeOK
<1> QED
  BY <1>1, Always, PTL

\* Every connection is in the pool or with one loop or task, however many there are
\* and whichever way they end.
THEOREM NoConnectionLeaks == Spec => []PoolAccounted
<1>1. IInv => PoolAccounted
  BY DEF IInv, PoolInv
<1> QED
  BY <1>1, Always, PTL

\* If nobody who has a connection can go on, all of them are with deck lists whose
\* loops wait for the pool; whoever waits for the render lock waits for somebody who
\* has a connection already.
THEOREM OnlyListsBlock == Spec => []OnlyListsBlockThePool
<1>1. IInv => OnlyListsBlockThePool
  <2> SUFFICES ASSUME IInv, idle = 0, GoesOn = {}
               PROVE  Cardinality(BehindItsLoop) = PoolSize
    BY DEF OnlyListsBlockThePool
  <2>1. ASSUME NEW t \in Tasks, at[t] = "wait" PROVE FALSE
    <3>1. PICK h \in Tasks : phase[h] = "holding"
      BY <2>1 DEF GoesOn, Mutex!Holders
    <3>2. at[h] = "render"
      BY <3>1 DEF IInv, Shape, LockInv
    <3> QED
      BY <3>2 DEF GoesOn, HoldsOne
  <2>2. ASSUME NEW t \in Tasks, at[t] \in HoldsOne PROVE t \in BehindItsLoop
    <3>1. at[t] = "offer"
      BY <2>1, <2>2 DEF GoesOn, HoldsOne
    <3>2. t \in Messages
      BY <3>1 DEF IInv, Shape, OfferInv
    <3>3. loop[ConnOf[t]] \in Started
      BY <3>1, <3>2 DEF IInv, Shape, SpawnedInv
    <3>4. loop[ConnOf[t]] \notin {"running", "closed", "redis"}
      BY <3>1, <3>2, ConnAssumption DEF GoesOn
    <3> QED
      BY <3>1, <3>2, <3>3, <3>4 DEF BehindItsLoop, Started
  <2>3. \A c \in Conns : loop[c] \notin {"login", "redis"}
    BY DEF GoesOn
  <2>4. PoolHolders = BehindItsLoop
    BY <2>2, <2>3 DEF PoolHolders, BehindItsLoop, HoldsOne, Tasks
  <2> QED
    BY <2>4, HoldersType, Countable DEF IInv, PoolInv, PoolAccounted
<1> QED
  BY <1>1, Always, PTL
=============================================================================
