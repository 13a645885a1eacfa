---------------------------- MODULE ParallelStream ----------------------------
(***************************************************************************)
(* ttsmagic-server/src/utils/async_par_stream.rs: a stream that runs up to *)
(* Parallelism of the futures it is given as spawned tasks and yields      *)
(* their values as they come in.  Its one consumer polls it; between two   *)
(* polls of a JoinHandle, tasks finish on other threads.  A poll that      *)
(* finds no value parks the consumer until the waker it left with the      *)
(* pending tasks is called.                                                *)
(*                                                                         *)
(* Futures are numbered in the order the iterator hands them out, and a    *)
(* value is known by the number of its future.                             *)
(***************************************************************************)
EXTENDS Integers, Sequences, FiniteSets

CONSTANTS
  Total,        \* how many futures the iterator holds
  Parallelism

ASSUME TotalAssumption == Total \in Nat
ASSUME ParallelismAssumption == Parallelism \in Nat \ {0}

Ids == 1 .. Total

VARIABLES
  pc,           \* the consumer: "caller" between polls, "scan" inside poll_next,
                \* "parked", or it saw the "end" or "dropped" the stream
  tasks,        \* spawned futures, in the order of the VecDeque
  values,       \* values taken from finished tasks and not yielded yet
  spawned,      \* next_id: how many futures were taken from the iterator
  left,         \* how many JoinHandles this poll has still to look at
  finished,     \* futures that ran to completion
  wakers,       \* tasks that hold the consumer's waker
  woken,        \* the waker was called since the poll began
  yielded,      \* history: the values in the order the caller got them
  overtook      \* history: for a finished future, the values yielded before its own

stream == <<tasks, values, spawned>>
vars == <<pc, stream, left, finished, wakers, woken, yielded, overtook>>

TypeOK ==
  /\ pc \in {"caller", "scan", "parked", "end", "dropped"}
  /\ tasks \in Seq(Ids)
  /\ values \in Seq(Ids)
  /\ spawned \in 0 .. Total
  /\ left \in 0 .. Len(tasks)
  /\ finished \in SUBSET Ids
  /\ wakers \in SUBSET Ids
  /\ woken \in BOOLEAN
  /\ yielded \in Seq(Ids)
  /\ overtook \in [Ids -> SUBSET Ids]

Elements(s) == {s[i] : i \in 1 .. Len(s)}

\* Mutant: the values that wait to be yielded are not counted.
RoomIgnoresValues(ts, vs) == Parallelism - Len(ts)

\* How many more tasks fit beside ts and vs.
Room(ts, vs) == Parallelism - (Len(ts) + Len(vs))

\* spawn_tasks: the futures it takes from the iterator, in their order.
Fresh(ts, vs) ==
  [i \in 1 .. (IF Room(ts, vs) <= 0 THEN 0
               ELSE IF Room(ts, vs) <= Total - spawned THEN Room(ts, vs)
               ELSE Total - spawned) |-> spawned + i]

SpawnTasks(ts, vs) == /\ tasks' = ts \o Fresh(ts, vs)
                      /\ spawned' = spawned + Len(Fresh(ts, vs))

\* AsyncParallelStream::new spawns the first tasks.
Init ==
  /\ pc = "caller"
  /\ values = <<>>
  /\ spawned = IF Parallelism <= Total THEN Parallelism ELSE Total
  /\ tasks = [i \in 1 .. spawned |-> i]
  /\ left = 0
  /\ finished = {}
  /\ wakers = {}
  /\ woken = FALSE
  /\ yielded = <<>>
  /\ overtook = [f \in Ids |-> {}]

\* A spawned future completes, on whatever thread runs it, and calls the waker
\* its JoinHandle was polled with.  It also does after the stream was dropped:
\* dropping a JoinHandle detaches its task.
Finish(f) ==
  /\ f \in 1 .. spawned /\ f \notin finished
  /\ finished' = finished \cup {f}
  /\ woken' = (woken \/ f \in wakers)
  /\ wakers' = wakers \ {f}
  /\ UNCHANGED <<pc, stream, left, yielded, overtook>>

\* Mutant: the stream ends as soon as no task is left.
PollNextEndsEarly ==
  /\ pc = "caller" \/ (pc = "parked" /\ woken)
  /\ SpawnTasks(tasks, values)
  /\ woken' = FALSE
  /\ IF tasks' = <<>>
     THEN pc' = "end" /\ left' = 0
     ELSE pc' = "scan" /\ left' = Len(tasks')
  /\ UNCHANGED <<values, finished, wakers, yielded, overtook>>

\* poll_next is entered: the caller asks for the next value, or the executor runs
\* the parked consumer again.  (An earlier wake-up may already be spent on
\* something else the caller awaited, so it does not count for this poll.)
PollNext ==
  /\ pc = "caller" \/ (pc = "parked" /\ woken)
  /\ SpawnTasks(tasks, values)
  /\ woken' = FALSE
  /\ IF tasks' = <<>> /\ values = <<>>
     THEN pc' = "end" /\ left' = 0
     ELSE pc' = "scan" /\ left' = Len(tasks')
  /\ UNCHANGED <<values, finished, wakers, yielded, overtook>>

\* The JoinHandle at the front is ready: its value joins the queue of values.
TakeValue ==
  /\ pc = "scan" /\ left > 0
  /\ Head(tasks) \in finished
  /\ tasks' = Tail(tasks)
  /\ values' = Append(values, Head(tasks))
  /\ left' = left - 1
  /\ UNCHANGED <<pc, spawned, finished, wakers, woken, yielded, overtook>>

\* Mutant: the last JoinHandle of the scan is not polled, just rotated.
KeepTaskUnpolled ==
  /\ pc = "scan" /\ left > 0
  /\ left = 1 \/ Head(tasks) \notin finished
  /\ tasks' = Append(Tail(tasks), Head(tasks))
  /\ left' = left - 1
  /\ wakers' = IF left = 1 THEN wakers ELSE wakers \cup {Head(tasks)}
  /\ UNCHANGED <<pc, values, spawned, finished, woken, yielded, overtook>>

\* It is pending: it gets the consumer's waker and goes to the back.
KeepTask ==
  /\ pc = "scan" /\ left > 0
  /\ Head(tasks) \notin finished
  /\ tasks' = Append(Tail(tasks), Head(tasks))
  /\ left' = left - 1
  /\ wakers' = wakers \cup {Head(tasks)}
  /\ UNCHANGED <<pc, values, spawned, finished, woken, yielded, overtook>>

NoteOvertaken(v) ==
  overtook' = [f \in Ids |-> IF f \in finished /\ f \notin Elements(yielded) /\ f # v
                             THEN overtook[f] \cup {v} ELSE overtook[f]]

\* Mutant: the newest value goes out first.
YieldNewest ==
  /\ pc = "scan" /\ left = 0 /\ values # <<>>
  /\ pc' = "caller"
  /\ values' = SubSeq(values, 1, Len(values) - 1)
  /\ SpawnTasks(tasks, values')
  /\ yielded' = Append(yielded, values[Len(values)])
  /\ NoteOvertaken(values[Len(values)])
  /\ UNCHANGED <<left, finished, wakers, woken>>

\* Mutant: the other values this poll collected are forgotten.
YieldForgets ==
  /\ pc = "scan" /\ left = 0 /\ values # <<>>
  /\ pc' = "caller"
  /\ values' = <<>>
  /\ SpawnTasks(tasks, values')
  /\ yielded' = Append(yielded, Head(values))
  /\ NoteOvertaken(Head(values))
  /\ UNCHANGED <<left, finished, wakers, woken>>

\* Poll::Ready(Some(value)), after the room it leaves is given to new tasks.
Yield ==
  /\ pc = "scan" /\ left = 0 /\ values # <<>>
  /\ pc' = "caller"
  /\ values' = Tail(values)
  /\ SpawnTasks(tasks, values')
  /\ yielded' = Append(yielded, Head(values))
  /\ NoteOvertaken(Head(values))
  /\ UNCHANGED <<left, finished, wakers, woken>>

\* Poll::Pending
Park ==
  /\ pc = "scan" /\ left = 0 /\ values = <<>>
  /\ pc' = "parked"
  /\ SpawnTasks(tasks, values)
  /\ UNCHANGED <<values, left, finished, wakers, woken, yielded, overtook>>

\* The caller returns early (make_pages does when a card failed to load).
Drop ==
  /\ pc = "caller"
  /\ pc' = "dropped"
  /\ UNCHANGED <<stream, left, finished, wakers, woken, yielded, overtook>>

Consumer == PollNext \/ TakeValue \/ KeepTask \/ Yield \/ Park

\* The stream is over and no task runs any more.
Quiet == /\ pc \in {"end", "dropped"} /\ finished = 1 .. spawned
         /\ UNCHANGED vars

Next == Consumer \/ Drop \/ (\E f \in Ids : Finish(f)) \/ Quiet

Spec == Init /\ [][Next]_vars

\* The executor runs a consumer that is not parked or was woken, and every
\* spawned future completes.
FairSpec == Spec /\ WF_vars(Consumer) /\ \A f \in Ids : WF_vars(Finish(f))

----------------------------------------------------------------------------
(* Safety *)

\* "We ensure self.tasks.len() + self.values.len() <= parallelism to conserve
\* memory" (async_par_stream.rs:72-75), also in the middle of a poll, and hence
\* no more futures than that run at once.
MemoryBound ==
  /\ Len(tasks) + Len(values) <= Parallelism
  /\ Cardinality((1 .. spawned) \ finished) <= Parallelism

\* No value is lost or duplicated: a spawned future is in exactly one place, once.
EachInOnePlace ==
  LET all == tasks \o values \o yielded
  IN  Elements(all) = 1 .. spawned /\ Len(all) = spawned

\* None at the end means everything was yielded; poll_next's assert that the
\* iterator is exhausted (async_par_stream.rs:80) does not fail.
EndMeansAll == pc = "end" => Elements(yielded) = Ids

\* No lost wake-up: a parked consumer with a finished task in the queue was woken,
\* however the completion fell between the polls of the scan.
NoLostWakeup ==
  pc = "parked" => /\ tasks # <<>>
                   /\ \A f \in Elements(tasks) : f \in finished => woken

\* Once a future finished, fewer than Parallelism values are yielded before its
\* own: neither later futures nor the rotation of the queue starve it.
LittleOvertaking == \A f \in Ids : Cardinality(overtook[f]) < Parallelism

----------------------------------------------------------------------------
(* Liveness *)

\* A caller that keeps asking gets to the end of the stream.
ReachesEnd == <>(pc \in {"end", "dropped"})
=============================================================================
