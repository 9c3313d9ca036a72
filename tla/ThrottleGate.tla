---------------------------- MODULE ThrottleGate ----------------------------
(***************************************************************************)
(* What ThrottleBacklog promises (middleware/throttle.go): at most Limit   *)
(* requests are inside at a time, at most Backlog more wait, and a request *)
(* is refused at the door only when the backlog is full.  No counter, no   *)
(* channel and no retry: ThrottleSem is shown to implement this.           *)
(***************************************************************************)
EXTENDS Naturals, FiniteSets

CONSTANTS Request, Limit, Backlog

VARIABLE state      \* where each request is

In(s) == {p \in Request : state[p] = s}
Move(p, from, to) == state[p] \in from /\ state' = [state EXCEPT ![p] = to]

Init == state = [p \in Request |-> "out"]

Ask(p) == Move(p, {"out"}, "asking")
Admit(p) == Cardinality(In("inside")) < Limit /\ Move(p, {"asking", "waiting"}, "inside")
Wait(p) == Cardinality(In("waiting")) < Backlog /\ Move(p, {"asking"}, "waiting")
TurnAway(p) == Cardinality(In("waiting")) = Backlog /\ Move(p, {"asking"}, "out")
GiveUp(p) == Move(p, {"waiting"}, "out")
Leave(p) == Move(p, {"inside"}, "out")

Settle(p) == Admit(p) \/ Wait(p) \/ TurnAway(p)
Next == \E p \in Request : Ask(p) \/ Settle(p) \/ GiveUp(p) \/ Leave(p)

\* What may happen, and that nobody who could be let in waits for ever and nobody stays.
Safety == Init /\ [][Next]_state
Spec == Safety /\ \A p \in Request : WF_state(Settle(p)) /\ WF_state(Leave(p))
=============================================================================
