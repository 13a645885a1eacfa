----------------------------- MODULE RenderMutex -----------------------------
(***************************************************************************)
(* What the render coordinator promises its callers ("only one runs at a   *)
(* time"): a client asks for the right to render, is granted it while      *)
(* nobody else holds it, and gives it back when its guard is dropped,      *)
(* whether the render succeeded or not.  How the coordinator queues,       *)
(* polls, sleeps and announces the queue is left to RenderCoordinator.     *)
(***************************************************************************)

CONSTANT Clients

VARIABLE phase      \* phase[c]: "out", "waiting" or "holding"

Holders == {c \in Clients : phase[c] = "holding"}

Init == phase = [c \in Clients |-> "out"]

Request(c) == /\ phase[c] = "out"
              /\ phase' = [phase EXCEPT ![c] = "waiting"]

Acquire(c) == /\ phase[c] = "waiting"
              /\ Holders = {}
              /\ phase' = [phase EXCEPT ![c] = "holding"]

Release(c) == /\ phase[c] = "holding"
              /\ phase' = [phase EXCEPT ![c] = "out"]

Next == \E c \in Clients : Request(c) \/ Acquire(c) \/ Release(c)

Spec == Init /\ [][Next]_phase
=============================================================================
