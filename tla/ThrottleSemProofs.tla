-------------------------- MODULE ThrottleSemProofs --------------------------
(***************************************************************************)
(* ThrottleBacklog counts its permits and its backlog exactly, loses no    *)
(* wake-up, and does nothing that the gate of ThrottleGate does not allow: *)
(* for any limit, any backlog and any number of requests.                  *)
(***************************************************************************)
EXTENDS ThrottleSem, FiniteSetTheorems, TLAPS

USE SemAssumption DEF SemAssumption

\* A request has a place in the backlog at these points of its code and at no
\* others, tryAcquire apart, which is called with and without one.
Placed   == {"select", "admitted", "timedOut"}
Unplaced == {"idle", "enqueue", "run", "signal"}
PlaceKnown == \A p \in Request : /\ pc[p] \in Placed => waiter[p]
                                 /\ pc[p] \in Unplaced => ~ waiter[p]

\* What tryAcquire loaded was below the limit when it tries to swap.
LoadedBelow == \A p \in Request : pc[p] = "swap" => cur[p] < Limit

\* The inductive invariant of the counts.
Counted == CountsExact /\ PlaceKnown /\ LoadedBelow

\* A signal in the channel for every sleeper, or a pending try for every free permit.
\* It is what NoLostWakeup follows from: of the two ways for nobody to sleep in vain,
\* only these are kept by each step.
SignalsCover == Cardinality(Asleep) <= wake \/ Limit - inUse <= Pending

-----------------------------------------------------------------------------
(* Counting requests.                                                      *)

\* Sets of requests are finite.
LEMMA CardNat == ASSUME NEW S \in SUBSET Request
                 PROVE  IsFiniteSet(S) /\ Cardinality(S) \in Nat
BY FS_Subset, FS_CardinalityType

\* One request more, and one less.
LEMMA Gains == ASSUME NEW S \in SUBSET Request, NEW p \in Request, p \notin S
               PROVE  Cardinality(S \cup {p}) = Cardinality(S) + 1
BY CardNat, FS_AddElement

\* One request less.
LEMMA Loses == ASSUME NEW S \in SUBSET Request, NEW p \in S
               PROVE  Cardinality(S \ {p}) = Cardinality(S) - 1
BY CardNat, FS_RemoveElement

\* What a step of p to another place does to the requests that are at places X.
LEMMA Moves ==
    ASSUME TypeOK, NEW X, NEW p \in Request, NEW to, GoTo(p, to)
    PROVE  /\ pc[p] \in X /\ to \in X => Cardinality(At(X)') = Cardinality(At(X))
           /\ pc[p] \notin X /\ to \notin X => Cardinality(At(X)') = Cardinality(At(X))
           /\ pc[p] \notin X /\ to \in X => Cardinality(At(X)') = Cardinality(At(X)) + 1
           /\ pc[p] \in X /\ to \notin X => Cardinality(At(X)') = Cardinality(At(X)) - 1
<1> USE DEF TypeOK, GoTo, At
<1>1. CASE to \in X
  <2>1. At(X)' = At(X) \cup {p}
    BY <1>1
  <2>2. pc[p] \in X => At(X)' = At(X)
    BY <1>1
  <2> QED
    BY <1>1, <2>1, <2>2, Gains, At(X) \in SUBSET Request, pc[p] \notin X => p \notin At(X)
<1>2. CASE to \notin X
  <2>1. At(X)' = At(X) \ {p}
    BY <1>2
  <2>2. pc[p] \notin X => At(X)' = At(X)
    BY <1>2
  <2> QED
    BY <1>2, <2>1, <2>2, Loses, At(X) \in SUBSET Request, pc[p] \in X => p \in At(X)
<1> QED
  BY <1>1, <1>2

\* The same of the waiters that are trying, when the backlog does not change.
LEMMA MovesTrying ==
    ASSUME TypeOK, NEW p \in Request, NEW to, GoTo(p, to), UNCHANGED waiter
    PROVE  LET X == {"load", "swap"}
           IN  /\ ~ waiter[p] => Cardinality(Trying') = Cardinality(Trying)
               /\ pc[p] \in X /\ to \in X => Cardinality(Trying') = Cardinality(Trying)
               /\ pc[p] \notin X /\ to \notin X => Cardinality(Trying') = Cardinality(Trying)
               /\ waiter[p] /\ pc[p] \notin X /\ to \in X =>
                    Cardinality(Trying') = Cardinality(Trying) + 1
               /\ waiter[p] /\ pc[p] \in X /\ to \notin X =>
                    Cardinality(Trying') = Cardinality(Trying) - 1
<1> DEFINE X == {"load", "swap"}
<1> USE DEF TypeOK, GoTo, Trying, Waiters
<1>0. Trying \in SUBSET Request
  OBVIOUS
<1>1. ~ waiter[p] \/ (pc[p] \in X <=> to \in X) => Trying' = Trying
  OBVIOUS
<1>2. waiter[p] /\ pc[p] \notin X /\ to \in X => Trying' = Trying \cup {p} /\ p \notin Trying
  OBVIOUS
<1>3. waiter[p] /\ pc[p] \in X /\ to \notin X => Trying' = Trying \ {p} /\ p \in Trying
  OBVIOUS
<1> HIDE DEF X, Trying
<1>4. waiter[p] /\ pc[p] \notin X /\ to \in X => Cardinality(Trying') = Cardinality(Trying) + 1
  BY <1>0, <1>2, Gains
<1>5. waiter[p] /\ pc[p] \in X /\ to \notin X => Cardinality(Trying') = Cardinality(Trying) - 1
  BY <1>0, <1>3, Loses
<1> QED
  BY <1>1, <1>4, <1>5 DEF X

-----------------------------------------------------------------------------
(* The counts.                                                             *)

\* Nobody has a permit or a place at the start.
LEMMA CountedInit == Init => Counted
<1> SUFFICES ASSUME Init PROVE Counted
  OBVIOUS
<1>1. Holders = {} /\ Waiters = {}
  BY DEF Init, Holders, Waiters, At
<1> QED
  BY <1>1, FS_EmptySet DEF Init, Counted, CountsExact, TypeOK, PCs, PlaceKnown, LoadedBelow,
     Placed, Unplaced

\* The types, PlaceKnown and LoadedBelow are kept whatever the counts are.
LEMMA LocalStep ==
    ASSUME Counted, NEW p \in Request, Arrive(p) \/ Progress(p) \/ Timeout(p)
    PROVE  PlaceKnown' /\ LoadedBelow' /\ pc' \in [Request -> PCs] /\ cur' \in [Request -> Nat]
           /\ waiter' \in [Request -> BOOLEAN] /\ arrived' \in 0..MaxArrivals
<1> USE DEF Counted, CountsExact, TypeOK, PCs, PlaceKnown, LoadedBelow, Placed, Unplaced, GoTo
<1>1. CASE Arrive(p)
  BY <1>1 DEF Arrive
<1>2. CASE Load(p)
  BY <1>2 DEF Load
<1>3. CASE Swap(p)
  BY <1>3 DEF Swap
<1>4. CASE Enqueue(p)
  BY <1>4 DEF Enqueue
<1>5. CASE Wake(p) \/ Timeout(p)
  BY <1>5 DEF Wake, Timeout
<1>6. CASE Leave(p)
  BY <1>6 DEF Leave
<1>7. CASE Release(p) \/ Signal(p)
  BY <1>7 DEF Release, Signal
<1> QED
  BY <1>1, <1>2, <1>3, <1>4, <1>5, <1>6, <1>7 DEF Progress

\* A step that leaves the holders, or the waiters, as they are.
LEMMA CountsStep ==
    ASSUME Counted, NEW p \in Request, Arrive(p) \/ Progress(p) \/ Timeout(p)
    PROVE  /\ inUse' \in Nat /\ inUse' = Cardinality(Holders') /\ inUse' <= Limit
           /\ queue' \in Nat /\ queue' = Cardinality(Waiters') /\ queue' <= Backlog
           /\ wake' \in 0..Backlog
<1> USE DEF Counted, CountsExact, TypeOK
<1>0. TypeOK
  OBVIOUS
<1>h. Holders = At({"admitted", "run"}) /\ Holders' = At({"admitted", "run"})'
  BY DEF Holders
<1>w. Waiters \in SUBSET Request
  BY DEF Waiters
<1>u. UNCHANGED waiter => Waiters' = Waiters
  BY DEF Waiters
<1>1. CASE Arrive(p)
  <2>1. Cardinality(Holders') = Cardinality(Holders)
    <3>1. PICK to \in {"load"} : GoTo(p, to)
      BY <1>1 DEF Arrive
    <3> QED
      BY <1>0, <1>h, <1>1, <3>1, Moves DEF Arrive
  <2> QED
    BY <2>1, <1>1, <1>u DEF Arrive
<1>2. CASE Load(p)
  <2>1. Cardinality(Holders') = Cardinality(Holders)
    <3>1. PICK to \in {"select", "enqueue", "swap"} : GoTo(p, to)
      BY <1>2 DEF Load
    <3> QED
      BY <1>0, <1>h, <1>2, <3>1, Moves DEF Load
  <2> QED
    BY <2>1, <1>2, <1>u DEF Load
<1>3. CASE Swap(p)
  <2>1. CASE inUse = cur[p]
    <3>1. PICK to \in {"admitted", "run"} : GoTo(p, to)
      BY <1>3, <2>1 DEF Swap
    <3>2. Cardinality(Holders') = Cardinality(Holders) + 1
      BY <1>0, <1>h, <1>3, <3>1, Moves DEF Swap
    <3>3. inUse < Limit
      BY <2>1, <1>3 DEF Swap, LoadedBelow
    <3>4. inUse' = inUse + 1 /\ UNCHANGED <<queue, wake, waiter>>
      BY <2>1, <1>3 DEF Swap
    <3> QED
      BY <3>2, <3>3, <3>4, <1>u
  <2>2. CASE inUse # cur[p]
    <3>1. Cardinality(Holders') = Cardinality(Holders)
      <4>1. PICK to \in {"load"} : GoTo(p, to)
        BY <1>3, <2>2 DEF Swap
      <4> QED
        BY <1>0, <1>h, <1>3, <4>1, Moves DEF Swap
    <3> QED
      BY <2>2, <3>1, <1>3, <1>u DEF Swap
  <2> QED
    BY <2>1, <2>2
<1>4. CASE Enqueue(p)
  <2>1. Cardinality(Holders') = Cardinality(Holders)
    <3>1. PICK to \in {"load", "idle"} : GoTo(p, to)
      BY <1>4 DEF Enqueue
    <3> QED
      BY <1>0, <1>h, <1>4, <3>1, Moves DEF Enqueue
  <2>2. CASE queue < Backlog
    <3>1. Waiters' = Waiters \cup {p} /\ p \notin Waiters
      BY <1>4, <2>2 DEF Enqueue, Waiters, PlaceKnown, Unplaced
    <3>2. Cardinality(Waiters') = Cardinality(Waiters) + 1
      BY <1>w, <3>1, Gains
    <3> QED
      BY <2>1, <2>2, <3>2, <1>4 DEF Enqueue
  <2>3. CASE ~ (queue < Backlog)
    BY <2>1, <2>3, <1>4, <1>u DEF Enqueue
  <2> QED
    BY <2>2, <2>3
<1>5. CASE Wake(p) \/ Timeout(p)
  <2>1. PICK to \in {"load", "timedOut"} : GoTo(p, to)
    BY <1>5 DEF Wake, Timeout
  <2>2. Cardinality(Holders') = Cardinality(Holders)
    BY <1>0, <1>h, <1>5, <2>1, Moves DEF Wake, Timeout
  <2> QED
    BY <2>2, <1>5, <1>u DEF Wake, Timeout
<1>6. CASE Leave(p)
  <2>1. Cardinality(Holders') = Cardinality(Holders)
    <3>1. CASE pc[p] = "admitted"
      BY <1>0, <1>h, <1>6, <3>1, Moves DEF Leave
    <3>2. CASE pc[p] = "timedOut"
      BY <1>0, <1>h, <1>6, <3>2, Moves DEF Leave
    <3> QED
      BY <1>6, <3>1, <3>2 DEF Leave
  <2>2. Waiters' = Waiters \ {p} /\ p \in Waiters
    BY <1>6 DEF Leave, Waiters, PlaceKnown, Placed
  <2>3. Cardinality(Waiters') = Cardinality(Waiters) - 1
    BY <1>w, <2>2, Loses
  <2>4. Cardinality(Waiters') \in Nat
    BY CardNat, <2>2, <1>w
  <2> QED
    BY <2>1, <2>3, <2>4, <1>6 DEF Leave
<1>7. CASE Release(p)
  <2>1. Cardinality(Holders') = Cardinality(Holders) - 1
    BY <1>0, <1>h, <1>7, Moves DEF Release
  <2>2. Cardinality(Holders') \in Nat
    BY CardNat DEF Holders, At
  <2> QED
    BY <2>1, <2>2, <1>7, <1>u DEF Release
<1>8. CASE Signal(p)
  <2>1. Cardinality(Holders') = Cardinality(Holders)
    <3>1. PICK to \in {"idle"} : GoTo(p, to)
      BY <1>8 DEF Signal
    <3> QED
      BY <1>0, <1>h, <1>8, <3>1, Moves DEF Signal
  <2> QED
    BY <2>1, <1>8, <1>u DEF Signal
<1> QED
  BY <1>1, <1>2, <1>3, <1>4, <1>5, <1>6, <1>7, <1>8 DEF Progress

\* Every step keeps the counts exact.
LEMMA CountedStep == Counted /\ [Next]_vars => Counted'
<1> SUFFICES ASSUME Counted, [Next]_vars PROVE Counted'
  OBVIOUS
<1>1. ASSUME NEW p \in Request, Arrive(p) \/ Progress(p) \/ Timeout(p) PROVE Counted'
  BY <1>1, LocalStep, CountsStep DEF Counted, CountsExact, TypeOK
<1>2. CASE UNCHANGED vars
  BY <1>2 DEF vars, Counted, CountsExact, TypeOK, PlaceKnown, LoadedBelow, Holders, Waiters, At
<1> QED
  BY <1>1, <1>2 DEF Next

\* The counts are exact in every reachable state.
LEMMA AlwaysCounted == Spec => []Counted
BY CountedInit, CountedStep, PTL DEF Spec

\* inUse is the number of requests that have a permit and never exceeds Limit, and
\* queue is the number of those in the backlog and never exceeds Backlog
\* (throttleSem: the compare-and-swap of tryAcquire and the deferred receive of
\* acquireWait), for any number of requests.
THEOREM PermitsAndBacklogExact == Spec => []CountsExact
BY AlwaysCounted, PTL DEF Counted

-----------------------------------------------------------------------------
(* No wake-up is lost.                                                     *)

\* Sleepers are in the backlog, so a channel that is full has a signal for each.
LEMMA SleepersHavePlaces == Counted => Cardinality(Asleep) <= queue
<1> SUFFICES ASSUME Counted PROVE Cardinality(Asleep) <= queue
  OBVIOUS
<1>1. Asleep \in SUBSET Waiters /\ Waiters \in SUBSET Request
  BY DEF Asleep, At, Waiters, Counted, PlaceKnown, Placed
<1>2. IsFiniteSet(Waiters)
  BY <1>1, CardNat
<1> QED
  BY <1>1, <1>2, FS_Subset DEF Counted, CountsExact

\* The counts that SignalsCover compares are numbers.
LEMMA PendingNat ==
    /\ Cardinality(Asleep) \in Nat /\ Cardinality(At({"signal"})) \in Nat
    /\ Cardinality(Trying) \in Nat
BY CardNat DEF Asleep, At, Trying, Waiters

\* The steps of a request that is not about to sleep, to wake or to signal, and
\* leaves its place in the backlog as it is.
LEMMA Elsewhere ==
    ASSUME TypeOK, NEW p \in Request, NEW to, GoTo(p, to),
           pc[p] \notin {"select", "signal"}, to \notin {"select", "signal"}
    PROVE  Cardinality(Asleep') = Cardinality(Asleep)
           /\ Cardinality(At({"signal"})') = Cardinality(At({"signal"}))
<1>1. Asleep = At({"select"}) /\ Asleep' = At({"select"})'
  BY DEF Asleep
<1>2. Cardinality(At({"select"})') = Cardinality(At({"select"}))
  BY Moves
<1> QED
  BY <1>1, <1>2, Moves

\* At the start nobody sleeps.
LEMMA SignalsCoverInit == Init => SignalsCover
<1> SUFFICES ASSUME Init PROVE SignalsCover
  OBVIOUS
<1>1. Asleep = {}
  BY DEF Init, Asleep, At
<1> QED
  BY <1>1, FS_EmptySet DEF Init, SignalsCover

\* Every step keeps a signal for each sleeper, or a pending try for each free permit.
LEMMA SignalsCoverKept ==
    ASSUME Counted, SignalsCover, NEW p \in Request, Arrive(p) \/ Progress(p) \/ Timeout(p)
    PROVE  SignalsCover'
<1> DEFINE A == Cardinality(Asleep)
           G == Cardinality(At({"signal"}))
           T == Cardinality(Trying)
<1>0. TypeOK /\ inUse \in Nat /\ wake \in Nat /\ queue <= Backlog
  BY DEF Counted, CountsExact, TypeOK
<1>n. A \in Nat /\ G \in Nat /\ T \in Nat
  BY PendingNat
<1>n1. A' \in Nat /\ G' \in Nat /\ T' \in Nat
  BY CardNat DEF Asleep, At, Trying, Waiters
<1>s. A <= wake \/ Limit - inUse <= wake + G + T
  BY DEF SignalsCover, Pending
<1> SUFFICES A' <= wake' \/ Limit - inUse' <= wake' + G' + T'
  BY DEF SignalsCover, Pending
<1>a. Asleep = At({"select"}) /\ Asleep' = At({"select"})'
  BY DEF Asleep
<1>1. CASE Arrive(p)
  <2>1. PICK to \in {"load"} : GoTo(p, to)
    BY <1>1 DEF Arrive
  <2>2. pc[p] = "idle" /\ ~ waiter[p] /\ UNCHANGED <<inUse, wake, waiter>>
    BY <1>1 DEF Arrive, Counted, PlaceKnown, Unplaced
  <2>3. A' = A /\ G' = G
    BY <1>0, <2>1, <2>2, Elsewhere
  <2>4. T' = T
    BY <1>0, <2>1, <2>2, MovesTrying
  <2> HIDE DEF A, G, T
  <2> QED
    BY <1>s, <2>2, <2>3, <2>4
<1>2. CASE Load(p)
  <2>1. CASE inUse >= Limit
    <3>1. UNCHANGED <<inUse, wake>>
      BY <1>2 DEF Load
    <3>2. wake + G' + T' \in Nat
      BY <1>0, <1>n1
    <3>3. Limit - inUse <= 0
      BY <1>0, <2>1
    <3> QED
      BY <1>0, <3>1, <3>2, <3>3
  <2>2. CASE ~ (inUse >= Limit)
    <3>1. PICK to \in {"swap"} : GoTo(p, to)
      BY <1>2, <2>2 DEF Load
    <3>2. pc[p] = "load" /\ UNCHANGED <<inUse, wake, waiter>>
      BY <1>2 DEF Load
    <3>3. A' = A /\ G' = G
      BY <1>0, <3>1, <3>2, Elsewhere
    <3>4. T' = T
      BY <1>0, <3>1, <3>2, MovesTrying
    <3> HIDE DEF A, G, T
    <3> QED
      BY <1>s, <3>2, <3>3, <3>4
  <2> QED
    BY <2>1, <2>2
<1>3. CASE Swap(p)
  <2>0. pc[p] = "swap" /\ UNCHANGED <<wake, waiter>>
    BY <1>3 DEF Swap
  <2>1. CASE inUse = cur[p]
    <3>1. PICK to \in {"admitted", "run"} : GoTo(p, to)
      BY <1>3, <2>1 DEF Swap
    <3>2. A' = A /\ G' = G
      BY <1>0, <2>0, <3>1, Elsewhere
    <3>3. T' = T \/ T' = T - 1
      BY <1>0, <2>0, <3>1, MovesTrying DEF TypeOK
    <3>4. inUse' = inUse + 1
      BY <1>3, <2>1 DEF Swap
    <3> HIDE DEF A, G, T
    <3> QED
      BY <1>0, <1>n, <1>s, <2>0, <3>2, <3>3, <3>4
  <2>2. CASE inUse # cur[p]
    <3>1. PICK to \in {"load"} : GoTo(p, to)
      BY <1>3, <2>2 DEF Swap
    <3>2. A' = A /\ G' = G
      BY <1>0, <2>0, <3>1, Elsewhere
    <3>3. T' = T
      BY <1>0, <2>0, <3>1, MovesTrying
    <3>4. inUse' = inUse
      BY <1>3, <2>2 DEF Swap
    <3> HIDE DEF A, G, T
    <3> QED
      BY <1>s, <2>0, <3>2, <3>3, <3>4
  <2> QED
    BY <2>1, <2>2
<1>4. CASE Enqueue(p)
  <2>0. pc[p] = "enqueue" /\ ~ waiter[p] /\ UNCHANGED <<inUse, wake>>
    BY <1>4 DEF Enqueue, Counted, PlaceKnown, Unplaced
  <2>1. PICK to \in {"load", "idle"} : GoTo(p, to)
    BY <1>4 DEF Enqueue
  <2>2. A' = A /\ G' = G
    BY <1>0, <2>0, <2>1, Elsewhere
  <2>3. T' = T \/ T' = T + 1
    <3>1. CASE queue < Backlog
      <4>1. Trying' = Trying \cup {p} /\ p \notin Trying
        BY <1>0, <1>4, <2>0, <3>1 DEF Enqueue, GoTo, Trying, Waiters, TypeOK
      <4>2. Trying \in SUBSET Request
        BY DEF Trying, Waiters
      <4> QED
        BY <4>1, <4>2, Gains
    <3>2. CASE ~ (queue < Backlog)
      BY <1>0, <1>4, <2>0, <2>1, <3>2, MovesTrying DEF Enqueue
    <3> QED
      BY <3>1, <3>2
  <2> HIDE DEF A, G, T
  <2> QED
    BY <1>0, <1>n, <1>s, <2>0, <2>2, <2>3
<1>5. CASE Wake(p)
  <2>0. pc[p] = "select" /\ waiter[p] /\ wake > 0 /\ wake' = wake - 1 /\ UNCHANGED <<inUse, waiter>>
    BY <1>5 DEF Wake, Counted, PlaceKnown, Placed
  <2>1. PICK to \in {"load"} : GoTo(p, to)
    BY <1>5 DEF Wake
  <2>2. A' = A - 1
    BY <1>0, <1>a, <2>0, <2>1, Moves
  <2>3. G' = G
    BY <1>0, <2>0, <2>1, Moves
  <2>4. T' = T + 1
    BY <1>0, <2>0, <2>1, MovesTrying
  <2> HIDE DEF A, G, T
  <2> QED
    BY <1>0, <1>n, <1>s, <2>0, <2>2, <2>3, <2>4
<1>6. CASE Timeout(p)
  <2>0. pc[p] = "select" /\ UNCHANGED <<inUse, wake, waiter>>
    BY <1>6 DEF Timeout
  <2>1. PICK to \in {"timedOut"} : GoTo(p, to)
    BY <1>6 DEF Timeout
  <2>2. A' = A - 1
    BY <1>0, <1>a, <2>0, <2>1, Moves
  <2>3. G' = G
    BY <1>0, <2>0, <2>1, Moves
  <2>4. T' = T
    BY <1>0, <2>0, <2>1, MovesTrying
  <2> HIDE DEF A, G, T
  <2> QED
    BY <1>0, <1>n, <1>s, <2>0, <2>2, <2>3, <2>4
<1>7. CASE Leave(p)
  <2>0. pc[p] \in {"admitted", "timedOut"} /\ UNCHANGED <<inUse, wake>>
    BY <1>7 DEF Leave
  <2>1. PICK to \in {"run", "idle"} : GoTo(p, to)
    BY <1>7 DEF Leave
  <2>2. A' = A /\ G' = G
    BY <1>0, <2>0, <2>1, Elsewhere
  <2>3. Trying' = Trying
    BY <1>0, <1>7, <2>0, <2>1 DEF Leave, GoTo, Trying, Waiters, TypeOK
  <2>4. T' = T
    BY <2>3
  <2> HIDE DEF A, G, T
  <2> QED
    BY <1>s, <2>0, <2>2, <2>4
<1>8. CASE Release(p)
  <2>0. pc[p] = "run" /\ inUse' = inUse - 1 /\ UNCHANGED <<wake, waiter>>
    BY <1>8 DEF Release
  <2>1. PICK to \in {"signal"} : GoTo(p, to)
    BY <1>8 DEF Release
  <2>2. A' = A
    BY <1>0, <1>a, <2>0, <2>1, Moves
  <2>3. G' = G + 1
    BY <1>0, <2>0, <2>1, Moves
  <2>4. T' = T
    BY <1>0, <2>0, <2>1, MovesTrying
  <2> HIDE DEF A, G, T
  <2> QED
    BY <1>0, <1>n, <1>s, <2>0, <2>2, <2>3, <2>4
<1>9. CASE Signal(p)
  <2>0. pc[p] = "signal" /\ UNCHANGED <<inUse, waiter>>
    BY <1>9 DEF Signal
  <2>1. PICK to \in {"idle"} : GoTo(p, to)
    BY <1>9 DEF Signal
  <2>2. A' = A
    BY <1>0, <1>a, <2>0, <2>1, Moves
  <2>3. G' = G - 1
    BY <1>0, <2>0, <2>1, Moves
  <2>4. T' = T
    BY <1>0, <2>0, <2>1, MovesTrying
  <2>5. A <= Backlog
    BY <1>0, <1>n, SleepersHavePlaces DEF Counted, CountsExact, TypeOK
  <2>6. wake' = IF wake < Backlog THEN wake + 1 ELSE wake
    BY <1>9 DEF Signal
  <2> HIDE DEF A, G, T
  <2> QED
    BY <1>0, <1>n, <1>s, <2>0, <2>2, <2>3, <2>4, <2>5, <2>6
<1> HIDE DEF A, G, T
<1> QED
  BY <1>1, <1>2, <1>3, <1>4, <1>5, <1>6, <1>7, <1>8, <1>9 DEF Progress

\* Every step keeps it.
LEMMA SignalsCoverStep == Counted /\ SignalsCover /\ [Next]_vars => SignalsCover'
<1>1. ASSUME SignalsCover, UNCHANGED vars PROVE SignalsCover'
  BY <1>1 DEF vars, SignalsCover, Pending, Asleep, Trying, Waiters, At
<1> QED
  BY <1>1, SignalsCoverKept DEF Next

\* As many waiters as there are free permits sleep only if a signal is there, or on its
\* way, for each, or another waiter is about to try (throttleSem.release drops a signal
\* only when the channel holds one for every waiter), for any limit and any backlog.
THEOREM NoWakeupIsLost == Spec => []NoLostWakeup
<1>1. Spec => [](Counted /\ SignalsCover)
  BY CountedInit, CountedStep, SignalsCoverInit, SignalsCoverStep, PTL DEF Spec
<1>2. ASSUME Counted, SignalsCover PROVE NoLostWakeup
  <2>1. wake \in Nat
    BY <1>2 DEF Counted, CountsExact, TypeOK
  <2> QED
    BY <1>2, <2>1, PendingNat DEF SignalsCover, NoLostWakeup, Pending
<1> QED
  BY <1>1, <1>2, PTL

-----------------------------------------------------------------------------
(* The semaphore does only what the gate allows.                           *)

\* Where the gate has a request, from its place in the code and its place in the backlog.
Stand(at, w) == IF at \in {"idle", "signal"} THEN "out"
                ELSE IF at = "run" THEN "inside"
                ELSE IF w THEN "waiting" ELSE "asking"

\* A step of p moves p alone at the gate.
LEMMA GateMoves ==
    ASSUME TypeOK, NEW p \in Request, NEW to \in PCs, NEW w \in BOOLEAN,
           GoTo(p, to), waiter' = [waiter EXCEPT ![p] = w]
    PROVE  /\ GateState[p] = Stand(pc[p], waiter[p])
           /\ GateState' = [GateState EXCEPT ![p] = Stand(to, w)]
<1>1. \A q \in Request : GateState[q] = Stand(pc[q], waiter[q])
  BY DEF GateState, Stand
<1>2. GateState' = [q \in Request |-> Stand(pc'[q], waiter'[q])]
  BY DEF GateState, Stand
<1>3. GateState = [q \in Request |-> Stand(pc[q], waiter[q])]
  BY DEF GateState, Stand
<1>4. pc' = [q \in Request |-> IF q = p THEN to ELSE pc[q]]
      /\ waiter' = [q \in Request |-> IF q = p THEN w ELSE waiter[q]]
  BY DEF TypeOK, GoTo
<1> QED
  BY <1>1, <1>2, <1>3, <1>4

\* The same, where the gate had p at a and has it at b.
LEMMA GateTurns ==
    ASSUME TypeOK, NEW p \in Request, NEW to \in PCs, NEW w \in BOOLEAN,
           GoTo(p, to), waiter' = [waiter EXCEPT ![p] = w],
           NEW a, NEW b, Stand(pc[p], waiter[p]) = a, Stand(to, w) = b
    PROVE  GateState[p] = a /\ GateState' = [GateState EXCEPT ![p] = b]
BY GateMoves

\* Where the gate has whom, place by place.
LEMMA Stands ==
    /\ \A w \in BOOLEAN : /\ Stand("idle", w) = "out" /\ Stand("signal", w) = "out"
                          /\ Stand("run", w) = "inside"
    /\ \A at \in {"load", "swap", "enqueue", "select", "admitted", "timedOut"} :
          Stand(at, TRUE) = "waiting" /\ Stand(at, FALSE) = "asking"
<1>1. \A w : /\ Stand("idle", w) = "out" /\ Stand("signal", w) = "out"
             /\ Stand("run", w) = "inside"
  BY DEF Stand
<1>2. ASSUME NEW at \in {"load", "swap", "enqueue", "select", "admitted", "timedOut"}
      PROVE  Stand(at, TRUE) = "waiting" /\ Stand(at, FALSE) = "asking"
  <2>1. at \notin {"idle", "signal"} /\ at # "run"
    OBVIOUS
  <2> QED
    BY <2>1 DEF Stand
<1> QED
  BY <1>1, <1>2

\* A step from one place to another that look the same from the gate.
LEMMA GateStutters ==
    ASSUME TypeOK, NEW p \in Request, NEW to \in PCs, NEW w \in BOOLEAN,
           GoTo(p, to), waiter' = [waiter EXCEPT ![p] = w],
           Stand(to, w) = Stand(pc[p], waiter[p])
    PROVE  UNCHANGED GateState
<1>1. GateState' = [GateState EXCEPT ![p] = GateState[p]]
  BY GateMoves
<1> QED
  BY <1>1 DEF GateState

\* The gate counts as the semaphore does.
LEMMA GateCounts == \A S : Gate!Cardinality(S) = Cardinality(S)
BY Zenon DEF Gate!Cardinality, Cardinality

\* Who the gate has inside, and waiting.
LEMMA InsideAndWaiting ==
    ASSUME Counted
    PROVE  /\ Gate!In("inside") = At({"run"})
           /\ Gate!In("waiting") = Waiters
<1>1. \A q \in Request : GateState[q] = Stand(pc[q], waiter[q])
  BY DEF GateState, Stand
<1>2. \A q \in Request : GateState[q] = "inside" <=> pc[q] = "run"
  BY <1>1 DEF Stand, Counted, PlaceKnown, Unplaced
<1>3. \A q \in Request : GateState[q] = "waiting" <=> waiter[q]
  BY <1>1 DEF Stand, Counted, PlaceKnown, Unplaced
<1> QED
  BY <1>2, <1>3 DEF Gate!In, At, Waiters

\* The semaphore starts as the gate does.
LEMMA GateInit == Init => Gate!Init
BY DEF Init, Gate!Init, GateState

\* Every step of a request is one of the gate's, or changes nothing the gate sees.
LEMMA GateStep ==
    ASSUME Counted, NEW p \in Request, Arrive(p) \/ Progress(p) \/ Timeout(p)
    PROVE  Gate!Next \/ UNCHANGED GateState
<1>0. TypeOK /\ pc[p] \in PCs /\ waiter[p] \in BOOLEAN /\ waiter \in [Request -> BOOLEAN]
  BY DEF Counted, CountsExact, TypeOK
<1>w. UNCHANGED waiter => waiter' = [waiter EXCEPT ![p] = waiter[p]]
  BY <1>0
<1>k. /\ pc[p] \in Placed => waiter[p]
      /\ pc[p] \in Unplaced => ~ waiter[p]
  BY DEF Counted, PlaceKnown
<1>1. CASE Arrive(p)
  <2>1. PICK to \in {"load"} : GoTo(p, to)
    BY <1>1 DEF Arrive
  <2>2. pc[p] = "idle" /\ ~ waiter[p] /\ UNCHANGED waiter
    BY <1>1, <1>k DEF Arrive, Unplaced
  <2>3. GateState[p] = "out" /\ GateState' = [GateState EXCEPT ![p] = "asking"]
    <3>1. to \in PCs /\ Stand(pc[p], waiter[p]) = "out" /\ Stand(to, waiter[p]) = "asking"
      BY <1>0, <2>1, <2>2, Stands DEF PCs
    <3> QED
      BY <1>0, <1>w, <2>1, <2>2, <3>1, GateTurns
  <2>4. Gate!Ask(p)
    BY <2>3 DEF Gate!Ask, Gate!Move
  <2> QED
    BY <2>4 DEF Gate!Next
<1>2. CASE Load(p)
  <2>1. PICK to \in {"select", "enqueue", "swap"} : GoTo(p, to)
    BY <1>2 DEF Load
  <2>2. pc[p] = "load" /\ UNCHANGED waiter
    BY <1>2 DEF Load
  <2>3. Stand(to, waiter[p]) = Stand(pc[p], waiter[p]) /\ to \in PCs
    BY <1>0, <2>1, <2>2 DEF Stand, PCs
  <2> QED
    BY <1>0, <1>w, <2>1, <2>2, <2>3, GateStutters
<1>3. CASE Swap(p)
  <2>0. pc[p] = "swap" /\ UNCHANGED waiter
    BY <1>3 DEF Swap
  <2>1. CASE inUse = cur[p] /\ ~ waiter[p]
    <3>1. PICK to \in {"run"} : GoTo(p, to)
      BY <1>3, <2>1 DEF Swap
    <3>2. GateState[p] = "asking" /\ GateState' = [GateState EXCEPT ![p] = "inside"]
      <4>1. to \in PCs /\ Stand(pc[p], waiter[p]) = "asking" /\ Stand(to, waiter[p]) = "inside"
        BY <1>0, <2>0, <2>1, <3>1, Stands DEF PCs
      <4> QED
        BY <1>0, <1>w, <2>0, <3>1, <4>1, GateTurns
    <3>3. Cardinality(Gate!In("inside")) < Limit
      <4>1. At({"run"}) \in SUBSET Holders /\ Holders \in SUBSET Request
        BY DEF At, Holders
      <4>2. Cardinality(At({"run"})) <= Cardinality(Holders) /\ Cardinality(At({"run"})) \in Nat
        BY <4>1, FS_Subset, CardNat
      <4>3. inUse < Limit /\ inUse = Cardinality(Holders) /\ inUse \in Nat
        BY <2>0, <2>1 DEF Counted, CountsExact, TypeOK, LoadedBelow
      <4> QED
        BY <4>2, <4>3, InsideAndWaiting
    <3>4. Gate!Admit(p)
      BY <3>2, <3>3, GateCounts DEF Gate!Admit, Gate!Move
    <3> QED
      BY <3>4 DEF Gate!Next, Gate!Settle
  <2>2. CASE ~ (inUse = cur[p] /\ ~ waiter[p])
    <3>1. PICK to \in {"admitted", "load"} : GoTo(p, to) /\ (to = "admitted" => waiter[p])
      BY <1>3, <2>2 DEF Swap
    <3>2. Stand(to, waiter[p]) = Stand(pc[p], waiter[p]) /\ to \in PCs
      BY <1>0, <2>0, <3>1 DEF Stand, PCs
    <3> QED
      BY <1>0, <1>w, <2>0, <3>1, <3>2, GateStutters
  <2> QED
    BY <2>1, <2>2
<1>4. CASE Enqueue(p)
  <2>0. pc[p] = "enqueue" /\ ~ waiter[p]
    BY <1>4, <1>k DEF Enqueue, Unplaced
  <2>1. queue = Cardinality(Gate!In("waiting")) /\ queue <= Backlog /\ queue \in Nat
    BY InsideAndWaiting DEF Counted, CountsExact, TypeOK
  <2>2. CASE queue < Backlog
    <3>1. PICK to \in {"load"} : GoTo(p, to)
      BY <1>4, <2>2 DEF Enqueue
    <3>2. PICK w \in BOOLEAN : w /\ waiter' = [waiter EXCEPT ![p] = w]
      BY <1>4, <2>2 DEF Enqueue
    <3>3. GateState[p] = "asking" /\ GateState' = [GateState EXCEPT ![p] = "waiting"]
      <4>1. to \in PCs /\ w \in BOOLEAN /\ Stand(to, w) = "waiting"
        BY <1>0, <3>1, <3>2, Stands DEF PCs
      <4>2. Stand(pc[p], waiter[p]) = "asking"
        BY <1>0, <2>0, Stands
      <4>3. TypeOK /\ GoTo(p, to) /\ waiter' = [waiter EXCEPT ![p] = w]
        BY <1>0, <3>1, <3>2
      <4> QED
        BY <4>1, <4>2, <4>3, GateTurns
    <3>4. Gate!Wait(p)
      BY <2>1, <2>2, <3>3, GateCounts DEF Gate!Wait, Gate!Move
    <3> QED
      BY <3>4 DEF Gate!Next, Gate!Settle
  <2>3. CASE ~ (queue < Backlog)
    <3>1. PICK to \in {"idle"} : GoTo(p, to)
      BY <1>4, <2>3 DEF Enqueue
    <3>2. UNCHANGED waiter
      BY <1>4, <2>3 DEF Enqueue
    <3>3. GateState[p] = "asking" /\ GateState' = [GateState EXCEPT ![p] = "out"]
      <4>1. to \in PCs /\ Stand(pc[p], waiter[p]) = "asking" /\ Stand(to, waiter[p]) = "out"
        BY <1>0, <2>0, <3>1, Stands DEF PCs
      <4> QED
        BY <1>0, <1>w, <3>1, <3>2, <4>1, GateTurns
    <3>4. Cardinality(Gate!In("waiting")) = Backlog
      BY <2>1, <2>3
    <3>5. Gate!TurnAway(p)
      BY <3>3, <3>4, GateCounts DEF Gate!TurnAway, Gate!Move
    <3> QED
      BY <3>5 DEF Gate!Next, Gate!Settle
  <2> QED
    BY <2>2, <2>3
<1>5. CASE Wake(p) \/ Timeout(p)
  <2>1. PICK to \in {"load", "timedOut"} : GoTo(p, to)
    BY <1>5 DEF Wake, Timeout
  <2>2. pc[p] = "select" /\ waiter[p] /\ UNCHANGED waiter
    BY <1>5, <1>k DEF Wake, Timeout, Placed
  <2>3. Stand(to, waiter[p]) = Stand(pc[p], waiter[p]) /\ to \in PCs
    BY <1>0, <2>1, <2>2 DEF Stand, PCs
  <2> QED
    BY <1>0, <1>w, <2>1, <2>2, <2>3, GateStutters
<1>6. CASE Leave(p)
  <2>0. pc[p] \in {"admitted", "timedOut"} /\ waiter[p]
    BY <1>6, <1>k DEF Leave, Placed
  <2>1. PICK w \in {FALSE} : waiter' = [waiter EXCEPT ![p] = w]
    BY <1>6 DEF Leave
  <2>2. CASE pc[p] = "admitted"
    <3>1. PICK to \in {"run"} : GoTo(p, to)
      BY <1>6, <2>2 DEF Leave
    <3>2. GateState[p] = "waiting" /\ GateState' = [GateState EXCEPT ![p] = "inside"]
      <4>1. to \in PCs /\ w \in BOOLEAN /\ Stand(pc[p], waiter[p]) = "waiting"
            /\ Stand(to, w) = "inside"
        BY <1>0, <2>0, <2>1, <2>2, <3>1, Stands DEF PCs
      <4> QED
        BY <1>0, <2>1, <3>1, <4>1, GateTurns
    <3>3. Cardinality(Gate!In("inside")) < Limit
      <4>1. At({"run"}) \cup {p} \in SUBSET Holders /\ Holders \in SUBSET Request
            /\ p \notin At({"run"}) /\ At({"run"}) \in SUBSET Request
        BY <2>2 DEF At, Holders
      <4>2. Cardinality(At({"run"}) \cup {p}) <= Cardinality(Holders)
        BY <4>1, FS_Subset, CardNat
      <4>3. Cardinality(At({"run"}) \cup {p}) = Cardinality(At({"run"})) + 1
            /\ Cardinality(At({"run"})) \in Nat
        BY <4>1, Gains, CardNat
      <4>4. inUse = Cardinality(Holders) /\ inUse \in Nat /\ inUse <= Limit
        BY DEF Counted, CountsExact, TypeOK
      <4> QED
        BY <4>2, <4>3, <4>4, InsideAndWaiting
    <3>4. Gate!Admit(p)
      BY <3>2, <3>3, GateCounts DEF Gate!Admit, Gate!Move
    <3> QED
      BY <3>4 DEF Gate!Next, Gate!Settle
  <2>3. CASE pc[p] = "timedOut"
    <3>1. PICK to \in {"idle"} : GoTo(p, to)
      BY <1>6, <2>3 DEF Leave
    <3>2. GateState[p] = "waiting" /\ GateState' = [GateState EXCEPT ![p] = "out"]
      <4>1. to \in PCs /\ w \in BOOLEAN /\ Stand(pc[p], waiter[p]) = "waiting"
            /\ Stand(to, w) = "out"
        BY <1>0, <2>0, <2>1, <2>3, <3>1, Stands DEF PCs
      <4> QED
        BY <1>0, <2>1, <3>1, <4>1, GateTurns
    <3>3. Gate!GiveUp(p)
      BY <3>2 DEF Gate!GiveUp, Gate!Move
    <3> QED
      BY <3>3 DEF Gate!Next
  <2> QED
    BY <2>0, <2>2, <2>3
<1>7. CASE Release(p)
  <2>1. PICK to \in {"signal"} : GoTo(p, to)
    BY <1>7 DEF Release
  <2>2. pc[p] = "run" /\ ~ waiter[p] /\ UNCHANGED waiter
    BY <1>7, <1>k DEF Release, Unplaced
  <2>3. GateState[p] = "inside" /\ GateState' = [GateState EXCEPT ![p] = "out"]
    <3>1. to \in PCs /\ Stand(pc[p], waiter[p]) = "inside" /\ Stand(to, waiter[p]) = "out"
      BY <1>0, <2>1, <2>2, Stands DEF PCs
    <3> QED
      BY <1>0, <1>w, <2>1, <2>2, <3>1, GateTurns
  <2>4. Gate!Leave(p)
    BY <2>3 DEF Gate!Leave, Gate!Move
  <2> QED
    BY <2>4 DEF Gate!Next
<1>8. CASE Signal(p)
  <2>1. PICK to \in {"idle"} : GoTo(p, to)
    BY <1>8 DEF Signal
  <2>2. pc[p] = "signal" /\ UNCHANGED waiter
    BY <1>8 DEF Signal
  <2>3. Stand(to, waiter[p]) = Stand(pc[p], waiter[p]) /\ to \in PCs
    BY <1>0, <2>1, <2>2 DEF Stand, PCs
  <2> QED
    BY <1>0, <1>w, <2>1, <2>2, <2>3, GateStutters
<1> QED
  BY <1>1, <1>2, <1>3, <1>4, <1>5, <1>6, <1>7, <1>8 DEF Progress

\* Every step of ThrottleBacklog is a step of the gate, or none: at most Limit handlers
\* run, at most Backlog requests wait, and a request is turned away only while Backlog
\* others wait (acquireWait's select on the queue channel).  That nobody waits for ever
\* is the fairness of ImplementsGate, which TLC checks.
THEOREM SemaphoreImplementsGate == Spec => Gate!Safety
<1>1. Counted /\ [Next]_vars => [Gate!Next]_GateState
  <2>1. UNCHANGED vars => UNCHANGED GateState
    BY DEF vars, GateState
  <2> QED
    BY <2>1, GateStep DEF Next
<1> QED
  BY <1>1, GateInit, AlwaysCounted, PTL DEF Spec, Gate!Safety
=============================================================================
