----------------------------- MODULE ThrottleSem -----------------------------
(***************************************************************************)
(* ThrottleBacklog and its semaphore (middleware/throttle.go): a counter   *)
(* of permits taken by compare-and-swap, a channel that bounds the         *)
(* waiters, and a channel that wakes them.  One action is one atomic load  *)
(* or compare-and-swap, or one channel operation.                          *)
(***************************************************************************)
EXTENDS Naturals, FiniteSets

CONSTANTS
    Request,        \* the goroutines that pass through the middleware
    Limit,          \* limit
    Backlog,        \* cap(queue) and cap(wake)
    MaxArrivals     \* bound on the requests that arrive

\* What ThrottleBacklog panics without.
ASSUME SemAssumption ==
    Limit \in Nat \ {0} /\ Backlog \in Nat /\ MaxArrivals \in Nat /\ IsFiniteSet(Request)

VARIABLES
    inUse,          \* the permits taken
    queue, wake,    \* len(queue), len(wake)
    pc,             \* where each request is
    cur,            \* tryAcquire's local
    waiter,         \* whether tryAcquire is called from acquireWait
    arrived         \* the requests that have arrived, for the bound

vars == <<inUse, queue, wake, pc, cur, waiter, arrived>>

PCs == {"idle", "load", "swap", "enqueue", "select", "admitted", "timedOut", "run", "signal"}

Init == /\ inUse = 0 /\ queue = 0 /\ wake = 0 /\ arrived = 0
        /\ pc = [p \in Request |-> "idle"]
        /\ cur = [p \in Request |-> 0]
        /\ waiter = [p \in Request |-> FALSE]

At(S) == {p \in Request : pc[p] \in S}
GoTo(p, to) == pc' = [pc EXCEPT ![p] = to]

Arrive(p) ==
    /\ pc[p] = "idle" /\ arrived < MaxArrivals
    /\ GoTo(p, "load")
    /\ arrived' = arrived + 1
    /\ UNCHANGED <<inUse, queue, wake, cur, waiter>>

\* tryAcquire: load; at the limit it fails,
Load(p) ==
    /\ pc[p] = "load"
    /\ IF inUse >= Limit
       THEN GoTo(p, IF waiter[p] THEN "select" ELSE "enqueue") /\ UNCHANGED cur
       ELSE GoTo(p, "swap") /\ cur' = [cur EXCEPT ![p] = inUse]
    /\ UNCHANGED <<inUse, queue, wake, waiter, arrived>>

\* Mutant: a plain store.
SwapStores(p) ==
    /\ pc[p] = "swap"
    /\ inUse' = cur[p] + 1
    /\ GoTo(p, IF waiter[p] THEN "admitted" ELSE "run")
    /\ UNCHANGED <<queue, wake, cur, waiter, arrived>>

\* below it the swap takes a permit, or somebody else was first.
Swap(p) ==
    /\ pc[p] = "swap"
    /\ IF inUse = cur[p]
       THEN inUse' = inUse + 1 /\ GoTo(p, IF waiter[p] THEN "admitted" ELSE "run")
       ELSE UNCHANGED inUse /\ GoTo(p, "load")
    /\ UNCHANGED <<queue, wake, cur, waiter, arrived>>

\* acquireWait: a place in the backlog and another try, or 503.
Enqueue(p) ==
    /\ pc[p] = "enqueue"
    /\ IF queue < Backlog
       THEN /\ queue' = queue + 1
            /\ waiter' = [waiter EXCEPT ![p] = TRUE]
            /\ GoTo(p, "load")
       ELSE /\ GoTo(p, "idle")
            /\ UNCHANGED <<queue, waiter>>
    /\ UNCHANGED <<inUse, wake, cur, arrived>>

Wake(p) ==
    /\ pc[p] = "select" /\ wake > 0
    /\ wake' = wake - 1
    /\ GoTo(p, "load")
    /\ UNCHANGED <<inUse, queue, cur, waiter, arrived>>

Timeout(p) ==
    /\ pc[p] = "select"
    /\ GoTo(p, "timedOut")
    /\ UNCHANGED <<inUse, queue, wake, cur, waiter, arrived>>

\* Mutant: the place is given back only by the waiters that were admitted.
LeaveIfAdmitted(p) ==
    /\ pc[p] \in {"admitted", "timedOut"}
    /\ queue' = IF pc[p] = "admitted" THEN queue - 1 ELSE queue
    /\ waiter' = [waiter EXCEPT ![p] = FALSE]
    /\ GoTo(p, IF pc[p] = "admitted" THEN "run" ELSE "idle")
    /\ UNCHANGED <<inUse, wake, cur, arrived>>

\* The deferred receive gives the place in the backlog back.
Leave(p) ==
    /\ pc[p] \in {"admitted", "timedOut"}
    /\ queue' = queue - 1
    /\ waiter' = [waiter EXCEPT ![p] = FALSE]
    /\ GoTo(p, IF pc[p] = "admitted" THEN "run" ELSE "idle")
    /\ UNCHANGED <<inUse, wake, cur, arrived>>

\* next returns or panics: the deferred release gives the permit back,
Release(p) ==
    /\ pc[p] = "run"
    /\ inUse' = inUse - 1
    /\ GoTo(p, "signal")
    /\ UNCHANGED <<queue, wake, cur, waiter, arrived>>

\* Mutant: wake holds one signal only.
SignalOnce(p) ==
    /\ pc[p] = "signal"
    /\ wake' = IF wake < 1 THEN wake + 1 ELSE wake
    /\ GoTo(p, "idle")
    /\ UNCHANGED <<inUse, queue, cur, waiter, arrived>>

\* and wakes a waiter, unless the channel is full.
Signal(p) ==
    /\ pc[p] = "signal"
    /\ wake' = IF wake < Backlog THEN wake + 1 ELSE wake
    /\ GoTo(p, "idle")
    /\ UNCHANGED <<inUse, queue, cur, waiter, arrived>>

Progress(p) == \/ Load(p) \/ Swap(p) \/ Enqueue(p) \/ Wake(p) \/ Leave(p)
               \/ Release(p) \/ Signal(p)

Next == \E p \in Request : Arrive(p) \/ Progress(p) \/ Timeout(p)

\* A goroutine that can move does, and handlers return.  Nothing is assumed of
\* the timers.
Spec == Init /\ [][Next]_vars /\ \A p \in Request : WF_vars(Progress(p))

-----------------------------------------------------------------------------
Holders == At({"admitted", "run"})
Waiters == {p \in Request : waiter[p]}

TypeOK == /\ inUse \in Nat /\ queue \in Nat /\ wake \in 0..Backlog
          /\ pc \in [Request -> PCs] /\ cur \in [Request -> Nat]
          /\ waiter \in [Request -> BOOLEAN] /\ arrived \in 0..MaxArrivals

\* inUse counts exactly the requests that have a permit, at most Limit, and queue
\* those that have a place in the backlog: neither is lost or given back twice, on
\* any path through a time-out.
CountsExact == /\ TypeOK
               /\ inUse = Cardinality(Holders) /\ inUse <= Limit
               /\ queue = Cardinality(Waiters) /\ queue <= Backlog

\* No lost wake-ups: as many waiters as there are free permits are asleep only if
\* a signal is there, or on its way, for each, or another waiter is about to try.
Asleep == At({"select"})
Trying == {p \in Waiters : pc[p] \in {"load", "swap"}}
Pending == wake + Cardinality(At({"signal"})) + Cardinality(Trying)
NoLostWakeup == Cardinality(Asleep) <= Pending \/ Limit - inUse <= Pending

\* A request is inside while its handler runs, and waits while it has a place in the
\* backlog: a waiter that has its permit already keeps the place until it leaves it.
GateState == [p \in Request |-> IF pc[p] \in {"idle", "signal"} THEN "out"
                                ELSE IF pc[p] = "run" THEN "inside"
                                ELSE IF waiter[p] THEN "waiting" ELSE "asking"]
Gate == INSTANCE ThrottleGate WITH state <- GateState

\* The semaphore implements the gate.  At every moment at most Limit handlers run, a
\* request is turned away only while Backlog others wait, and, once no more requests
\* arrive, none that could be let in sleeps for ever, though no timer ever fires.
ImplementsGate == Gate!Spec
=============================================================================
