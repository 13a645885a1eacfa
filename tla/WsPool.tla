------------------------------- MODULE WsPool --------------------------------
(***************************************************************************)
(* Who waits for whom in the web server (web/ws.rs, web/deck.rs,           *)
(* web/session.rs): connection loops, the tasks they spawn, the database   *)
(* pool, the channel from the tasks back to their loop, and the render     *)
(* lock.                                                                   *)
(*   A loop that read a message takes a connection from the pool for it    *)
(* before it does anything else (ws.rs:148), so meanwhile nobody takes     *)
(* what its tasks have to send.  A task keeps its pool connection while it *)
(* offers the deck list, and while it waits for the render lock.           *)
(*   The channel has capacity 0: its sender goes on when the loop has      *)
(* taken the message, or is gone.  A wait for the pool ends with an error  *)
(* after a while (the pool's default timeout).                             *)
(*   Pings, forwarded notifications and the sending on the socket itself   *)
(* belong to the steps of a running loop that change nothing here.         *)
(***************************************************************************)
EXTENDS Naturals, FiniteSets, Sequences

CONSTANTS
  Conns,            \* websocket connections, each opened once
  Messages,         \* what the browsers send over them, each once
  Downloads,        \* HTTP requests for a deck's JSON
  ConnOf, KindOf,   \* of each message
  PoolSize

Kinds == {"list", "delete", "import"}
Tasks == Messages \cup Downloads

ASSUME ConnAssumption == ConnOf \in [Messages -> Conns]
ASSUME KindAssumption == KindOf \in [Messages -> Kinds]
ASSUME PoolAssumption == PoolSize \in Nat \ {0}
ASSUME FiniteAssumption == IsFiniteSet(Conns) /\ IsFiniteSet(Tasks)
ASSUME DisjointAssumption == /\ Messages \cap Downloads = {}
                             /\ Conns \cap Tasks = {}

VARIABLES
  loop,     \* where the connection loop stands
  inbox,    \* messages of each connection that the server has not read
  at,       \* where the handling of each message and download stands
  phase,    \* the render lock, as RenderMutex specifies it
  idle      \* connections in the pool that nobody has

vars == <<loop, inbox, at, phase, idle>>

Mutex == INSTANCE RenderMutex WITH Clients <- Tasks

LoopSteps == {"off", "greet", "login", "running", "acquire", "redis", "closed"}
TaskSteps == {"unsent", "inbox", "dispatch", "session_wait", "session", "deck_wait",
              "handling", "wait", "render", "store", "offer", "leave", "complain",
              "done", "lost"}

TypeOK ==
  /\ loop \in [Conns -> LoopSteps]
  /\ inbox \in [Conns -> Seq(Messages)]
  /\ at \in [Tasks -> TaskSteps]
  /\ phase \in [Tasks -> {"out", "waiting", "holding"}]
  /\ idle \in 0 .. PoolSize

Init ==
  /\ loop = [c \in Conns |-> "off"]
  /\ inbox = [c \in Conns |-> <<>>]
  /\ at = [t \in Tasks |-> "unsent"]
  /\ Mutex!Init
  /\ idle = PoolSize

----------------------------------------------------------------------------
LoopGoes(c, from, to) == /\ loop[c] = from
                         /\ loop' = [loop EXCEPT ![c] = to]
TaskGoes(t, from, to) == /\ at[t] = from
                         /\ at' = [at EXCEPT ![t] = to]

\* Mutant: more connections than the pool has.
OverdrawPool == idle' = idle - 1

\* db_pool.acquire() succeeds; the connection is dropped.
TakeConnection == idle > 0 /\ idle' = idle - 1
GiveBack == idle' = idle + 1

Unread(c) == {inbox[c][i] : i \in 1 .. Len(inbox[c])}
Dispatched(c) == {m \in Messages : at[m] = "dispatch" /\ ConnOf[m] = c}

\* handle_connection returns: the socket and the channel are gone, and with them
\* the messages nobody handles yet.  Tasks already spawned go on.
Close(c, from) ==
  /\ LoopGoes(c, from, "closed")
  /\ inbox' = [inbox EXCEPT ![c] = <<>>]
  /\ at' = [t \in Tasks |-> IF t \in Unread(c) \cup Dispatched(c) THEN "lost" ELSE at[t]]
  /\ UNCHANGED phase

----------------------------------------------------------------------------
(* listen and ServerCallback::get_user *)

Accept(c) == /\ LoopGoes(c, "off", "greet")
             /\ UNCHANGED <<inbox, at, phase, idle>>

GreetAcquire(c) == /\ LoopGoes(c, "greet", "login")
                   /\ TakeConnection
                   /\ UNCHANGED <<inbox, at, phase>>

\* The session has a user, and Redis accepts the subscription.
LoggedIn(c) == /\ LoopGoes(c, "login", "running")
               /\ GiveBack
               /\ UNCHANGED <<inbox, at, phase>>

\* No session, no user, or Redis fails.
LoginRefused(c) == Close(c, "login") /\ GiveBack

GreetTimeout(c) == Close(c, "greet") /\ UNCHANGED idle

----------------------------------------------------------------------------
(* handle_connection *)

\* A browser sends over its socket, which is open once the handshake is over.
Send(m) == /\ loop[ConnOf[m]] \notin {"off", "closed"}
           /\ TaskGoes(m, "unsent", "inbox")
           /\ inbox' = [inbox EXCEPT ![ConnOf[m]] = Append(@, m)]
           /\ UNCHANGED <<loop, phase, idle>>

Read(c) == /\ LoopGoes(c, "running", "acquire")
           /\ inbox[c] # <<>>
           /\ inbox' = [inbox EXCEPT ![c] = Tail(@)]
           /\ at' = [at EXCEPT ![Head(inbox[c])] = "dispatch"]
           /\ UNCHANGED <<phase, idle>>

Acquire(c) == /\ LoopGoes(c, "acquire", "redis")
              /\ TakeConnection
              /\ UNCHANGED <<inbox, at, phase>>

\* Mutant: the pool has no timeout.
AcquireForever(c) == FALSE /\ UNCHANGED vars

AcquireTimeout(c) == Close(c, "acquire") /\ UNCHANGED idle

\* The connection for Redis is there as well, and the task is spawned.
Spawn(c) == /\ LoopGoes(c, "redis", "running")
            /\ at' = [t \in Tasks |-> IF t \in Dispatched(c) THEN "handling" ELSE at[t]]
            /\ UNCHANGED <<inbox, phase, idle>>

\* Mutant: the connection taken for the message stays behind.
RedisFailsLeaking(c) == Close(c, "redis") /\ UNCHANGED idle

RedisFails(c) == Close(c, "redis") /\ GiveBack

\* The loop takes what a task offers, a deck list or an error, and sends it.
Take(c) ==
  /\ loop[c] = "running"
  /\ \E m \in Messages : /\ ConnOf[m] = c
                         /\ TaskGoes(m, "offer", "leave") \/ TaskGoes(m, "complain", "done")
  /\ UNCHANGED <<loop, inbox, phase, idle>>

\* The browser closes, the socket fails, or a message does not parse.
HangUp(c) == Close(c, "running") /\ UNCHANGED idle

----------------------------------------------------------------------------
(* download_deck_json behind SessionMiddleware *)

Arrive(d) == /\ TaskGoes(d, "unsent", "session_wait")
             /\ UNCHANGED <<loop, inbox, phase, idle>>

DownloadAcquire(d) ==
  /\ TaskGoes(d, "session_wait", "session") \/ TaskGoes(d, "deck_wait", "handling")
  /\ TakeConnection
  /\ UNCHANGED <<loop, inbox, phase>>

\* The middleware's connection goes back before the view runs.
SessionRead(d) == /\ TaskGoes(d, "session", "deck_wait")
                  /\ GiveBack
                  /\ UNCHANGED <<loop, inbox, phase>>

\* Also when Redis cannot be reached before, or nobody is logged in.
DownloadTimeout(d) == /\ at[d] \in {"session_wait", "deck_wait"}
                      /\ at' = [at EXCEPT ![d] = "lost"]
                      /\ UNCHANGED <<loop, inbox, phase, idle>>

SessionFails(d) == /\ TaskGoes(d, "session", "lost")
                   /\ GiveBack
                   /\ UNCHANGED <<loop, inbox, phase>>

----------------------------------------------------------------------------
(* handle_incoming_message and the end of the download *)

Lists(t) == t \in Messages /\ KindOf[t] = "list"
Renders(t) == t \in Downloads \/ (t \in Messages /\ KindOf[t] = "import")

\* get_decks_for_user is done; handle_sink.send waits with the connection in hand.
OfferList(t) == /\ Lists(t)
                /\ TaskGoes(t, "handling", "offer")
                /\ UNCHANGED <<loop, inbox, phase, idle>>

\* The loop is gone: sending ends at once.
Orphaned(t) == /\ t \in Messages /\ loop[ConnOf[t]] = "closed"
               /\ TaskGoes(t, "offer", "leave") \/ TaskGoes(t, "complain", "done")
               /\ UNCHANGED <<loop, inbox, phase, idle>>

\* The task ends: the list is sent, the JSON stored, the deck deleted, the stored
\* JSON served.
Finish(t) == /\ \/ TaskGoes(t, "leave", "done")
                \/ TaskGoes(t, "store", "done")
                \/ t \in Downloads /\ TaskGoes(t, "handling", "done")
                \/ t \in Messages /\ KindOf[t] = "delete" /\ TaskGoes(t, "handling", "done")
             /\ GiveBack
             /\ UNCHANGED <<loop, inbox, phase>>

\* load_deck is done, or a download found no JSON.
AskForLock(t) == /\ Renders(t)
                 /\ TaskGoes(t, "handling", "wait")
                 /\ Mutex!Request(t)
                 /\ UNCHANGED <<loop, inbox, idle>>

GetLock(t) == /\ TaskGoes(t, "wait", "render")
              /\ Mutex!Acquire(t)
              /\ UNCHANGED <<loop, inbox, idle>>

Rendered(t) == /\ TaskGoes(t, "render", "store")
               /\ Mutex!Release(t)
               /\ UNCHANGED <<loop, inbox, idle>>

\* Mutant: a failed render leaves the lock taken.
FailLocked(t) ==
  /\ at[t] \in {"handling", "render", "store"}
  /\ at' = [at EXCEPT ![t] = IF t \in Downloads THEN "done" ELSE "complain"]
  /\ GiveBack
  /\ UNCHANGED <<loop, inbox, phase>>

\* Anything fails: the connection and the guard of the lock are dropped, and a
\* message's task tells its browser about it.
Fail(t) ==
  /\ at[t] \in {"handling", "render", "store"}
  /\ at' = [at EXCEPT ![t] = IF t \in Downloads THEN "done" ELSE "complain"]
  /\ phase' = [phase EXCEPT ![t] = "out"]
  /\ GiveBack
  /\ UNCHANGED <<loop, inbox>>

----------------------------------------------------------------------------
GetConnection(c) == \/ GreetAcquire(c) \/ GreetTimeout(c)
                    \/ Acquire(c) \/ AcquireTimeout(c)
LoopStep(c) == \/ GetConnection(c) \/ LoggedIn(c) \/ LoginRefused(c)
               \/ Read(c) \/ Spawn(c) \/ RedisFails(c) \/ Take(c)
DownloadStep(d) == \/ DownloadAcquire(d) \/ DownloadTimeout(d)
                   \/ SessionRead(d) \/ SessionFails(d)
TaskStep(t) == \/ OfferList(t) \/ Orphaned(t) \/ Finish(t)
               \/ AskForLock(t) \/ GetLock(t) \/ Rendered(t)

\* Every message and download was dealt with, as far as it was sent.
Quiet == /\ \A t \in Tasks : at[t] \in {"unsent", "done", "lost"}
         /\ UNCHANGED vars

Next == \/ \E c \in Conns : Accept(c) \/ LoopStep(c) \/ HangUp(c)
        \/ \E m \in Messages : Send(m)
        \/ \E d \in Downloads : Arrive(d) \/ DownloadStep(d)
        \/ \E t \in Tasks : TaskStep(t) \/ Fail(t)
        \/ Quiet

Spec == Init /\ [][Next]_vars

\* Loops and tasks that can go on do, and a wait for the pool ends one way or the
\* other.  Nobody has to connect, send, hang up or fail.
FairSpec == /\ Spec
            /\ \A c \in Conns : WF_vars(LoopStep(c))
            /\ \A d \in Downloads : WF_vars(DownloadStep(d))
            /\ \A t \in Tasks : WF_vars(TaskStep(t))

----------------------------------------------------------------------------
(* Properties *)

HoldsOne == {"session", "handling", "wait", "render", "store", "offer", "leave"}
PoolHolders == {t \in Tasks : at[t] \in HoldsOne}
                 \cup {c \in Conns : loop[c] \in {"login", "redis"}}

\* Every connection is in the pool or with exactly one loop or task, whichever way
\* the requests end.
PoolAccounted == idle + Cardinality(PoolHolders) = PoolSize

\* The holders of a pool connection that wait neither for a busy loop nor for a lock
\* somebody else has.
GoesOn == {t \in Tasks : at[t] \in HoldsOne \ {"wait", "offer"}}
            \cup {c \in Conns : loop[c] \in {"login", "redis"}}
            \cup {t \in Tasks : at[t] = "wait" /\ Mutex!Holders = {}}
            \cup {m \in Messages : at[m] = "offer" /\ loop[ConnOf[m]] \in {"running", "closed"}}
BehindItsLoop == {m \in Messages : at[m] = "offer" /\ loop[ConnOf[m]] = "acquire"}

\* The only way to exhaust the pool so that nothing but a timeout frees a connection
\* is deck lists, one per connection of the pool, each waiting for a loop that waits
\* for the pool.  Renders that queue for the lock never are: whoever has the lock
\* has its connection too.
OnlyListsBlockThePool ==
  idle = 0 /\ GoesOn = {} => Cardinality(BehindItsLoop) = PoolSize

\* Whatever a browser sends is handled or lost with its connection, and every
\* download ends: no circle of loops, tasks, pool and lock lasts for ever.
EverythingSettles ==
  \A t \in Tasks : at[t] # "unsent" ~> at[t] \in {"done", "lost"}
=============================================================================
