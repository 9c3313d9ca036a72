-------------------------- MODULE IntrospectProofs --------------------------
(***************************************************************************)
(* What the runs check of OAuth2Introspect, for any number of requests and *)
(* tokens, any size of the cache and any clock: a token has at most one    *)
(* call to the provider and nobody waits for a call that is over; the map  *)
(* and the heap of the cache agree and the heap keeps its order, so that   *)
(* what goes first is what expires first; and no answer outlives itself.   *)
(***************************************************************************)
EXTENDS Introspect, FiniteSetTheorems, WellFoundedInduction, TLAPS

-----------------------------------------------------------------------------
(* The single-flight group.                                                *)

FlightType ==
    /\ calls \in [Token -> Request \cup {Nil}] /\ pc \in [Request -> PCs]
    /\ token \in [Request -> Token \cup {Nil}] /\ leader \in [Request -> Request \cup {Nil}]

\* A request in the handler has a token.
HasToken == \A r \in Request : pc[r] # "idle" => token[r] \in Token

\* SingleFlight, one request at a time.
CallsExact == \A t \in Token, r \in Request : calls[t] = r <=> (token[r] = t /\ pc[r] \in Flying)

\* The inductive invariant.
Flight == FlightType /\ HasToken /\ CallsExact /\ NoOrphan

\* Leaving the handler from a place where a request does not lead (Hit, Finish,
\* GiveUp and Set) keeps the invariant.
LEMMA LeaveKeeps ==
    ASSUME Flight, NEW r \in Request, pc[r] \notin Flying \cup {"close"}, Leave(r), calls' = calls
    PROVE  Flight'
<1> USE DEF Flight, FlightType, HasToken, CallsExact, NoOrphan, Leave, GoTo, PCs, Flying
<1>1. FlightType'
  OBVIOUS
<1>2. HasToken'
  OBVIOUS
<1>3. CallsExact'
  BY IntrospectAssumption DEF IntrospectAssumption
<1>4. NoOrphan'
  BY IntrospectAssumption DEF IntrospectAssumption
<1> QED
  BY <1>1, <1>2, <1>3, <1>4

\* A request that only changes its place, from one where it does not lead to
\* another, or from one where it leads to another (Miss, Recheck, Introspect,
\* Accept), keeps it.
LEMMA MoveKeeps ==
    ASSUME Flight, NEW r \in Request, NEW to \in PCs, pc' = [pc EXCEPT ![r] = to],
           pc[r] # "idle", to # "follow", UNCHANGED <<calls, token, leader>>,
           pc[r] \in Flying <=> to \in Flying, pc[r] = "close" <=> to = "close"
    PROVE  Flight'
<1> USE DEF Flight, FlightType, HasToken, CallsExact, NoOrphan
<1>1. FlightType'
  OBVIOUS
<1>2. HasToken'
  OBVIOUS
<1>3. CallsExact'
  OBVIOUS
<1>4. NoOrphan'
  BY IntrospectAssumption DEF IntrospectAssumption
<1> QED
  BY <1>1, <1>2, <1>3, <1>4

\* The invariant holds at the start: no request, no call.
LEMMA FlightInit == Init => Flight
BY IntrospectAssumption DEF IntrospectAssumption, Init, Flight, FlightType, HasToken,
   CallsExact, NoOrphan, PCs, Flying

\* Every step keeps it.
LEMMA FlightStep == Flight /\ [Next]_vars => Flight'
<1> SUFFICES ASSUME Flight, [Next]_vars PROVE Flight'
  OBVIOUS
<1>1. ASSUME NEW r \in Request, NEW t \in Token, Arrive(r, t) PROVE Flight'
  <2> USE <1>1 DEF Arrive, GoTo, Flight, FlightType, HasToken, CallsExact, NoOrphan, PCs, Flying
  <2>1. FlightType'
    OBVIOUS
  <2>2. HasToken'
    OBVIOUS
  <2>3. CallsExact'
    OBVIOUS
  <2>4. NoOrphan'
    BY IntrospectAssumption DEF IntrospectAssumption
  <2> QED
    BY <2>1, <2>2, <2>3, <2>4
<1>2. ASSUME NEW r \in Request, Hit(r) PROVE Flight'
  BY <1>2, LeaveKeeps DEF Hit, Flying
<1>3. ASSUME NEW r \in Request, Miss(r) PROVE Flight'
  BY <1>3, MoveKeeps DEF Miss, GoTo, PCs, Flying
<1>4. ASSUME NEW r \in Request, Lead(r) PROVE Flight'
  <2> DEFINE to == IF Caching THEN "recheck" ELSE "introspect"
  <2>1. /\ pc[r] = "do" /\ calls[token[r]] = Nil /\ to \in Flying /\ to \in PCs
        /\ calls' = [calls EXCEPT ![token[r]] = r] /\ pc' = [pc EXCEPT ![r] = to]
        /\ UNCHANGED <<token, leader>>
    BY <1>4 DEF Lead, GoTo, PCs, Flying
  <2> HIDE DEF to
  <2> USE DEF Flight, FlightType, HasToken, CallsExact, NoOrphan
  <2>2. FlightType'
    BY <2>1
  <2>3. HasToken'
    BY <2>1
  <2>4. CallsExact'
    BY <2>1, IntrospectAssumption DEF IntrospectAssumption, Flying
  <2>5. NoOrphan'
    BY <2>1, IntrospectAssumption DEF IntrospectAssumption, Flying
  <2> QED
    BY <2>2, <2>3, <2>4, <2>5
<1>5. ASSUME NEW r \in Request, Follow(r) PROVE Flight'
  <2> USE <1>5 DEF Follow, GoTo, Flight, FlightType, HasToken, CallsExact, NoOrphan, PCs, Flying
  <2>1. token[r] \in Token /\ calls[token[r]] \in Request
    OBVIOUS
  <2>2. FlightType'
    BY <2>1
  <2>3. HasToken'
    OBVIOUS
  <2>4. CallsExact'
    OBVIOUS
  <2>5. NoOrphan'
    BY <2>1, IntrospectAssumption DEF IntrospectAssumption
  <2> QED
    BY <2>2, <2>3, <2>4, <2>5
<1>6. ASSUME NEW r \in Request, Recheck(r) PROVE Flight'
  BY <1>6, MoveKeeps DEF Recheck, GoTo, PCs, Flying
<1>7. ASSUME NEW r \in Request, NEW v \in Answers, Introspect(r, v) PROVE Flight'
  BY <1>7, MoveKeeps DEF Introspect, GoTo, PCs, Flying
<1>8. ASSUME NEW r \in Request, Delete(r) PROVE Flight'
  <2> USE <1>8 DEF Delete, GoTo, Flight, FlightType, HasToken, CallsExact, NoOrphan, PCs, Flying
  <2>1. FlightType'
    OBVIOUS
  <2>2. HasToken'
    OBVIOUS
  <2>3. CallsExact'
    BY IntrospectAssumption DEF IntrospectAssumption
  <2>4. NoOrphan'
    BY IntrospectAssumption DEF IntrospectAssumption
  <2> QED
    BY <2>1, <2>2, <2>3, <2>4
<1>9. ASSUME NEW r \in Request, Close(r) PROVE Flight'
  <2> USE <1>9 DEF Close, GoTo, Flight, FlightType, HasToken, CallsExact, NoOrphan, PCs, Flying
  <2>1. FlightType'
    OBVIOUS
  <2>2. HasToken'
    OBVIOUS
  <2>3. CallsExact'
    OBVIOUS
  <2>4. NoOrphan'
    BY IntrospectAssumption DEF IntrospectAssumption
  <2> QED
    BY <2>1, <2>2, <2>3, <2>4
<1>10. ASSUME NEW r \in Request, Accept(r) PROVE Flight'
  BY <1>10, MoveKeeps DEF Accept, Has, GoTo, PCs, Flying
<1>11. ASSUME NEW r \in Request, Finish(r) PROVE Flight'
  BY <1>11, LeaveKeeps DEF Finish, Has, Flying
<1>12. ASSUME NEW r \in Request, GiveUp(r) PROVE Flight'
  BY <1>12, LeaveKeeps DEF GiveUp, Flying
<1>13. ASSUME NEW r \in Request, Set(r) PROVE Flight'
  BY <1>13, LeaveKeeps DEF Set, Flying
<1>14. CASE Tick \/ UNCHANGED vars
  BY <1>14 DEF Tick, vars, Flight, FlightType, HasToken, CallsExact, NoOrphan
<1> QED
  BY <1>1, <1>2, <1>3, <1>4, <1>5, <1>6, <1>7, <1>8, <1>9, <1>10, <1>11, <1>12, <1>13,
     <1>14 DEF Next

\* So it is invariant.
LEMMA FlightInvariant == Spec => []Flight
BY FlightInit, FlightStep, PTL DEF Spec

\* do makes at most one call for a token at a time, and calls names it: for any
\* number of requests and tokens, whatever the cache holds or evicts.
THEOREM OneCallPerToken == Spec => []SingleFlight
<1>1. Flight => SingleFlight
  BY IntrospectAssumption DEF IntrospectAssumption, Flight, FlightType, CallsExact,
     SingleFlight, Calling
<1> QED
  BY <1>1, FlightInvariant, PTL

\* Whoever waits in do waits for a call for its own token whose channel is still
\* to be closed.
THEOREM NoFollowerForgotten == Spec => []NoOrphan
<1>1. Flight => NoOrphan
  BY DEF Flight
<1> QED
  BY <1>1, FlightInvariant, PTL

-----------------------------------------------------------------------------
(* Recursive functions over the positions of a heap.                        *)

\* Induction over an interval, by the least position that is not in T.
LEMMA NatClosed ==
    ASSUME NEW n \in Nat, NEW T, 0 \in T, \A k \in 0..n : k < n /\ k \in T => k + 1 \in T
    PROVE  0..n \subseteq T
<1> SUFFICES ASSUME NEW m \in 0..n, m \notin T PROVE FALSE
  OBVIOUS
<1> DEFINE Bad == {k \in 0..n : k \notin T}
<1>1. Bad \subseteq Nat /\ Bad # {}
  OBVIOUS
<1>2. PICK k \in Bad : \A j \in Bad : ~ (<<j, k>> \in OpToRel(<, Nat))
  <2> HIDE DEF Bad
  <2> QED
    BY <1>1, NatLessThanWellFounded, WFMin
<1>3. \A j \in Bad : ~ (j < k)
  <2> SUFFICES ASSUME NEW j \in Bad, j < k PROVE FALSE
    OBVIOUS
  <2>1. <<j, k>> \in Nat \X Nat
    BY <1>1
  <2> QED
    BY <1>2, <2>1, Zenon DEF OpToRel
<1>4. k \in 0..n /\ k \notin T
  OBVIOUS
<1>5. k - 1 \in 0..n
  BY <1>4
<1>6. k - 1 \notin Bad
  BY <1>3, <1>5, <1>4
<1>7. k - 1 \in T /\ k - 1 < n
  BY <1>4, <1>5, <1>6
<1> HIDE DEF Bad
<1>8. (k - 1) + 1 = k
  BY <1>4
<1> QED
  BY <1>4, <1>5, <1>7, <1>8

\* The paths of n steps of F from x.
Paths(S, F, x, n) == {s \in [0..n -> S] : s[0] = x /\ \A k \in 1..n : s[k] = F[s[k - 1]]}

\* There is such a path, of any length.
LEMMA Iterates ==
    ASSUME NEW S, NEW F \in [S -> S], NEW x \in S, NEW n \in Nat
    PROVE  Paths(S, F, x, n) # {}
<1> DEFINE Path(m) == Paths(S, F, x, m)
           T == {m \in 0..n : Path(m) # {}}
<1> USE DEF Paths
<1>1. 0 \in T
  <2>1. [k \in 0..0 |-> x] \in Path(0)
    OBVIOUS
  <2> QED
    BY <2>1
<1>2. ASSUME NEW m \in 0..n, m < n, m \in T PROVE m + 1 \in T
  <2>1. PICK s \in Path(m) : TRUE
    BY <1>2
  <2> DEFINE s1 == [k \in 0..(m + 1) |-> IF k = m + 1 THEN F[s[m]] ELSE s[k]]
  <2>2. s[m] \in S /\ F[s[m]] \in S
    BY <2>1
  <2>3. s1 \in [0..(m + 1) -> S]
    BY <2>1, <2>2
  <2>4. s1[0] = x
    BY <2>1
  <2>5. ASSUME NEW k \in 1..(m + 1) PROVE s1[k] = F[s1[k - 1]]
    BY <2>1
  <2>6. s1 \in Path(m + 1)
    BY <2>3, <2>4, <2>5
  <2> HIDE DEF Path
  <2> QED
    BY <2>6, <1>2
<1> HIDE DEF T
<1>3. 0..n \subseteq T
  BY <1>1, <1>2, NatClosed
<1>4. n \in T
  BY <1>3
<1> HIDE DEF Path
<1> QED
  BY <1>4 DEF T, Path

\* The runs of up on c from i, in the set S.
UpRuns(S, c, i) ==
    {s \in [0..Len(c.heap) -> S] :
        /\ s[0] = [c |-> c, i |-> i]
        /\ \A k \in 1..Len(c.heap) : s[k] = Up(s[k - 1])
        /\ SiftUp(c, i) = s[Len(c.heap)]}

\* The recursive function of SiftUp is such a path, in any set closed under Up.
LEMMA SiftUpRuns ==
    ASSUME NEW S, NEW c, NEW i, [c |-> c, i |-> i] \in S, c.heap \in Seq(Token),
           \A s \in S : Up(s) \in S
    PROVE  UpRuns(S, c, i) # {}
<1> DEFINE n == Len(c.heap)
           x == [c |-> c, i |-> i]
           F == [t \in S |-> Up(t)]
           Def(g) == [k \in 0..n |-> IF k = 0 THEN x ELSE Up(g[k - 1])]
<1>1. n \in Nat /\ F \in [S -> S] /\ x \in S
  OBVIOUS
<1> HIDE DEF n, F, x
<1>2. PICK s \in [0..n -> S] : s[0] = x /\ \A k \in 1..n : s[k] = F[s[k - 1]]
  <2>1. n \in Nat
    BY <1>1
  <2>2. F \in [S -> S]
    BY <1>1
  <2>3. x \in S
    BY <1>1
  <2> QED
    <3>1. Paths(S, F, x, n) # {}
      BY <2>1, <2>2, <2>3, Iterates
    <3> QED
      BY <3>1 DEF Paths
<1>3. \A k \in 1..n : s[k] = Up(s[k - 1])
  <2> SUFFICES ASSUME NEW k \in 1..n PROVE s[k] = Up(s[k - 1])
    OBVIOUS
  <2>1. k - 1 \in 0..n
    BY <1>1
  <2>2. s[k - 1] \in S /\ s[k] = F[s[k - 1]]
    BY <2>1, <1>2
  <2> QED
    BY <2>2 DEF F
<1>4. s = Def(s)
  BY <1>1, <1>2, <1>3
<1> DEFINE g == CHOOSE h : h = Def(h)
<1>5. g = Def(g)
  BY <1>4
<1>6. SiftUp(c, i) = g[n]
  BY DEF SiftUp, n, x
<1> HIDE DEF g
<1>7. g[0] = x /\ \A k \in 1..n : g[k] = Up(g[k - 1])
  BY <1>1, <1>5
<1>8. 0..n \subseteq {k \in 0..n : g[k] = s[k]}
  <2> DEFINE T == {k \in 0..n : g[k] = s[k]}
  <2>1. 0 \in T
    BY <1>1, <1>2, <1>7
  <2>2. ASSUME NEW k \in 0..n, k < n, k \in T PROVE k + 1 \in T
    <3>1. k + 1 \in 1..n /\ (k + 1) - 1 = k
      BY <1>1, <2>2
    <3>2. g[k + 1] = Up(g[k]) /\ s[k + 1] = Up(s[k])
      BY <3>1, <1>3, <1>7
    <3> QED
      BY <3>1, <3>2, <2>2
  <2> HIDE DEF T
  <2>3. 0..n \subseteq T
    BY <2>1, <2>2, <1>1, NatClosed
  <2> QED
    BY <2>3 DEF T
<1>9. n \in 0..n
  BY <1>1
<1> QED
  BY <1>2, <1>3, <1>6, <1>8, <1>9 DEF n, x, UpRuns

\* The runs of down on the first m positions of c from i, in the set S.
DownRuns(S, c, i, m) ==
    {s \in [0..Len(c.heap) -> S] :
        /\ s[0] = [c |-> c, i |-> i]
        /\ \A k \in 1..Len(c.heap) : s[k] = Down(s[k - 1], m)
        /\ SiftDown(c, i, m) = s[Len(c.heap)]}

\* The recursive function of SiftDown is one, in any set closed under Down.
LEMMA SiftDownRuns ==
    ASSUME NEW S, NEW c, NEW i, NEW m \in Nat, [c |-> c, i |-> i] \in S,
           c.heap \in Seq(Token), \A s \in S : Down(s, m) \in S
    PROVE  DownRuns(S, c, i, m) # {}
<1> DEFINE n == Len(c.heap)
           x == [c |-> c, i |-> i]
           F == [t \in S |-> Down(t, m)]
           Def(g) == [k \in 0..n |-> IF k = 0 THEN x ELSE Down(g[k - 1], m)]
<1>1. n \in Nat /\ F \in [S -> S] /\ x \in S
  OBVIOUS
<1> HIDE DEF n, F, x
<1>2. PICK s \in [0..n -> S] : s[0] = x /\ \A k \in 1..n : s[k] = F[s[k - 1]]
  <2>1. n \in Nat
    BY <1>1
  <2>2. F \in [S -> S]
    BY <1>1
  <2>3. x \in S
    BY <1>1
  <2> QED
    <3>1. Paths(S, F, x, n) # {}
      BY <2>1, <2>2, <2>3, Iterates
    <3> QED
      BY <3>1 DEF Paths
<1>3. \A k \in 1..n : s[k] = Down(s[k - 1], m)
  <2> SUFFICES ASSUME NEW k \in 1..n PROVE s[k] = Down(s[k - 1], m)
    OBVIOUS
  <2>1. k - 1 \in 0..n
    BY <1>1
  <2>2. s[k - 1] \in S /\ s[k] = F[s[k - 1]]
    BY <2>1, <1>2
  <2> QED
    BY <2>2 DEF F
<1>4. s = Def(s)
  BY <1>1, <1>2, <1>3
<1> DEFINE g == CHOOSE h : h = Def(h)
<1>5. g = Def(g)
  BY <1>4
<1>6. SiftDown(c, i, m) = g[n]
  BY DEF SiftDown, n, x
<1> HIDE DEF g
<1>7. g[0] = x /\ \A k \in 1..n : g[k] = Down(g[k - 1], m)
  BY <1>1, <1>5
<1>8. 0..n \subseteq {k \in 0..n : g[k] = s[k]}
  <2> DEFINE T == {k \in 0..n : g[k] = s[k]}
  <2>1. 0 \in T
    BY <1>1, <1>2, <1>7
  <2>2. ASSUME NEW k \in 0..n, k < n, k \in T PROVE k + 1 \in T
    <3>1. k + 1 \in 1..n /\ (k + 1) - 1 = k
      BY <1>1, <2>2
    <3>2. g[k + 1] = Down(g[k], m) /\ s[k + 1] = Down(s[k], m)
      BY <3>1, <1>3, <1>7
    <3> QED
      BY <3>1, <3>2, <2>2
  <2> HIDE DEF T
  <2>3. 0..n \subseteq T
    BY <2>1, <2>2, <1>1, NatClosed
  <2> QED
    BY <2>3 DEF T
<1>9. n \in 0..n
  BY <1>1
<1> QED
  BY <1>2, <1>3, <1>6, <1>8, <1>9 DEF n, x, DownRuns

-----------------------------------------------------------------------------
(* Heaps, as functions from positions to expiry times.                     *)

\* The expiry times along a heap, and the order of a heap on its first m positions.
Half(j) == j \div 2
Ordered(e, m) == \A j \in 2..m : e[Half(j)] <= e[j]

\* A heap but for the value at i, which is too small for its place or right.
UpOrder(e, i, m) ==
    \A j \in 2..m : /\ j # i => e[Half(j)] <= e[j]
                    /\ Half(j) = i /\ i > 1 => e[Half(i)] <= e[j]

\* A heap but for the value at i, which is too large for its place or right.
DownOrder(e, i, m) ==
    \A j \in 2..m : /\ j # i /\ Half(j) # i => e[Half(j)] <= e[j]
                    /\ Half(j) = i /\ i > 1 => e[Half(i)] <= e[j]

\* f is e with the values at i and j exchanged.
Swapped(e, f, i, j) ==
    /\ f[i] = e[j] /\ f[j] = e[i]
    /\ \A k \in DOMAIN e : k # i /\ k # j => f[k] = e[k]

\* The parent of a position.
LEMMA HalfOf ==
    ASSUME NEW j \in Nat, j > 1
    PROVE  /\ Half(j) \in Nat /\ Half(j) >= 1 /\ Half(j) < j
           /\ j = 2 * Half(j) \/ j = 2 * Half(j) + 1
BY DEF Half

\* The same, within a range.
LEMMA HalfIn ==
    ASSUME NEW n \in Nat, NEW j \in 2..n
    PROVE  Half(j) \in 1..n /\ Half(j) < j
<1>1. j \in Nat /\ j > 1 /\ j <= n
  OBVIOUS
<1>2. Half(j) \in Nat /\ Half(j) >= 1 /\ Half(j) < j
  BY <1>1, HalfOf
<1> QED
  BY ONLY <1>1, <1>2, n \in Nat

\* The children of a position.
LEMMA HalfIs ==
    ASSUME NEW i \in Nat, i > 0
    PROVE  Half(2 * i) = i /\ Half(2 * i + 1) = i
BY DEF Half

\* The root of a heap is its least value.
LEMMA RootLeast ==
    ASSUME NEW n \in Nat, NEW e \in [1..n -> Nat], Ordered(e, n)
    PROVE  \A k \in 1..n : e[1] <= e[k]
<1> DEFINE T == {m \in 0..n : \A k \in 1..n : k <= m => e[1] <= e[k]}
<1>1. 0 \in T
  OBVIOUS
<1>2. ASSUME NEW m \in 0..n, m < n, m \in T PROVE m + 1 \in T
  <2>1. ASSUME NEW k \in 1..n, k <= m + 1 PROVE e[1] <= e[k]
    <3>1. CASE k <= m
      BY <3>1, <1>2
    <3>2. CASE k = 1
      BY <3>2
    <3>3. CASE k = m + 1 /\ k > 1
      <4>0. k \in Nat /\ k > 1 /\ k <= n /\ m \in Nat
        BY <3>3
      <4>h. /\ Half(k) \in Nat /\ Half(k) >= 1 /\ Half(k) < k
        BY <4>0, HalfOf
      <4>1. Half(k) \in 1..n /\ Half(k) <= m /\ k \in 2..n
        BY ONLY <4>0, <4>h, <3>3, n \in Nat
      <4>2. e[Half(k)] <= e[k] /\ e[1] <= e[Half(k)]
        BY <4>1, <1>2 DEF Ordered
      <4>3. e[Half(k)] \in Nat /\ e[k] \in Nat /\ e[1] \in Nat
        BY <4>1
      <4> QED
        BY <4>2, <4>3
    <3> QED
      BY <2>1, <3>1, <3>2, <3>3
  <2> QED
    BY <2>1, <1>2
<1> HIDE DEF T
<1>3. 0..n \subseteq T
  BY <1>1, <1>2, NatClosed
<1>4. n \in T
  BY <1>3
<1> QED
  BY <1>4 DEF T

\* A swap of up brings the value one level up.
LEMMA UpSwap ==
    ASSUME NEW n \in Nat, NEW e \in [1..n -> Nat], NEW f \in [1..n -> Nat],
           NEW i \in 2..n, UpOrder(e, i, n), e[i] < e[Half(i)], Swapped(e, f, Half(i), i)
    PROVE  UpOrder(f, Half(i), n)
<1> DEFINE p == Half(i)
<1>1. p \in 1..n /\ p < i
  BY HalfIn
<1> SUFFICES ASSUME NEW j \in 2..n
             PROVE  /\ j # p => f[Half(j)] <= f[j]
                    /\ Half(j) = p /\ p > 1 => f[Half(p)] <= f[j]
  BY DEF UpOrder
<1>2. Half(j) \in 1..n /\ Half(j) < j
  BY HalfIn
<1>3. f[p] = e[i] /\ f[i] = e[p] /\ \A k \in 1..n : k # p /\ k # i => f[k] = e[k]
  BY DEF Swapped
<1>4. /\ j # i => e[Half(j)] <= e[j]
      /\ Half(j) = i => e[p] <= e[j]
  BY <1>1 DEF UpOrder
<1>5. p > 1 => e[Half(p)] <= e[p] /\ Half(p) \in 1..n /\ Half(p) < p
  <2> SUFFICES ASSUME p > 1 PROVE e[Half(p)] <= e[p] /\ Half(p) \in 1..n /\ Half(p) < p
    OBVIOUS
  <2>1. p \in 2..n /\ p # i
    BY <1>1
  <2>2. e[Half(p)] <= e[p]
    BY <2>1 DEF UpOrder
  <2>3. Half(p) \in 1..n /\ Half(p) < p
    BY <2>1, HalfIn
  <2> QED
    BY <2>2, <2>3
<1>6. \A k \in 1..n : e[k] \in Nat /\ f[k] \in Nat
  OBVIOUS
<1> HIDE DEF p
<1>7. ASSUME j # p PROVE f[Half(j)] <= f[j]
  <2>1. CASE j = i
    BY <2>1, <1>1, <1>3, <1>6 DEF p
  <2>2. CASE j # i /\ Half(j) = p
    BY <2>2, <1>1, <1>2, <1>3, <1>4, <1>6, <1>7 DEF p
  <2>3. CASE Half(j) = i
    BY <2>3, <1>1, <1>2, <1>3, <1>4, <1>6, <1>7
  <2>4. CASE j # i /\ Half(j) # p /\ Half(j) # i
    BY <2>4, <1>2, <1>3, <1>4, <1>6, <1>7
  <2> QED
    BY <2>1, <2>2, <2>3, <2>4
<1>8. ASSUME Half(j) = p, p > 1 PROVE f[Half(p)] <= f[j]
  <2>1. f[Half(p)] = e[Half(p)]
    BY <1>8, <1>1, <1>3, <1>5
  <2>2. CASE j = i
    BY <2>1, <2>2, <1>1, <1>3, <1>5, <1>8
  <2>3. CASE j # i
    <3>1. f[j] = e[j] /\ e[p] <= e[j]
      BY <2>3, <1>2, <1>3, <1>4, <1>8
    <3> QED
      BY <3>1, <2>1, <1>1, <1>5, <1>6, <1>8
  <2> QED
    BY <2>2, <2>3
<1> QED
  BY <1>7, <1>8

\* Where up stops, the heap is in order.
LEMMA UpStop ==
    ASSUME NEW n \in Nat, NEW e \in [1..n -> Nat], NEW i \in 1..n,
           UpOrder(e, i, n), i > 1 => ~ (e[i] < e[Half(i)])
    PROVE  Ordered(e, n)
<1> SUFFICES ASSUME NEW j \in 2..n PROVE e[Half(j)] <= e[j]
  BY DEF Ordered
<1>1. Half(j) \in 1..n
  BY HalfIn
<1>2. e[Half(j)] \in Nat /\ e[j] \in Nat
  BY <1>1
<1> QED
  BY <1>2 DEF UpOrder

\* A swap of down brings the value one level down.
LEMMA DownSwap ==
    ASSUME NEW n \in Nat, NEW m \in 0..n, NEW e \in [1..n -> Nat], NEW f \in [1..n -> Nat],
           NEW i \in 1..n, NEW j \in 2..m, Half(j) = i, DownOrder(e, i, m), e[j] < e[i],
           \A k \in 2..m : Half(k) = i => e[j] <= e[k], Swapped(e, f, i, j)
    PROVE  DownOrder(f, j, m) /\ f[Half(j)] <= f[j]
<1>1. i < j
  BY HalfOf
<1>2. f[i] = e[j] /\ f[j] = e[i] /\ \A k \in 1..n : k # j /\ k # i => f[k] = e[k]
  BY DEF Swapped
<1>3. \A k \in 1..n : e[k] \in Nat /\ f[k] \in Nat
  OBVIOUS
<1>4. f[Half(j)] <= f[j]
  BY <1>2, <1>3
<1>5. ASSUME NEW l \in 2..m
      PROVE  /\ l # j /\ Half(l) # j => f[Half(l)] <= f[l]
             /\ Half(l) = j /\ j > 1 => f[Half(j)] <= f[l]
  <2>1. Half(l) \in 1..n /\ Half(l) < l
    <3>1. l \in 2..n
      OBVIOUS
    <3> QED
      BY <3>1, HalfIn
  <2>2. /\ l # i /\ Half(l) # i => e[Half(l)] <= e[l]
        /\ Half(l) = i /\ i > 1 => e[Half(i)] <= e[l]
        /\ Half(l) = i => e[j] <= e[l]
    BY DEF DownOrder
  <2>3. i > 1 => e[Half(i)] <= e[j]
    BY DEF DownOrder
  <2>4. ASSUME l # j, Half(l) # j PROVE f[Half(l)] <= f[l]
    <3>1. CASE l = i
      <4>1. i > 1 /\ Half(i) # i /\ Half(i) # j
        BY <3>1, <2>1, <2>4
      <4> QED
        BY <3>1, <4>1, <2>1, <2>3, <1>2, <1>3
    <3>2. CASE Half(l) = i
      BY <3>2, <2>1, <2>2, <2>4, <1>2, <1>3
    <3>3. CASE l # i /\ Half(l) # i
      <4>1. f[l] = e[l]
        <5>1. l \in 1..n
          OBVIOUS
        <5> QED
          BY <3>3, <5>1, <2>4, <1>2
      <4>2. f[Half(l)] = e[Half(l)]
        BY <3>3, <2>1, <2>4, <1>2
      <4> QED
        BY <3>3, <4>1, <4>2, <2>2
    <3> QED
      BY <3>1, <3>2, <3>3
  <2>5. ASSUME Half(l) = j PROVE f[Half(j)] <= f[l]
    BY <2>5, <2>1, <2>2, <1>1, <1>2, <1>3
  <2> QED
    BY <2>4, <2>5
<1> QED
  BY <1>4, <1>5 DEF DownOrder

\* Where down stops, the value is right for those below it.
LEMMA DownStop ==
    ASSUME NEW n \in Nat, NEW m \in 0..n, NEW e \in [1..n -> Nat], NEW i \in 1..n,
           DownOrder(e, i, m), \A k \in 2..m : Half(k) = i => e[i] <= e[k]
    PROVE  UpOrder(e, i, m) /\ ((i > 1 /\ i <= m => e[Half(i)] <= e[i]) => Ordered(e, m))
<1>1. ASSUME NEW j \in 2..m PROVE j # i => e[Half(j)] <= e[j]
  BY DEF DownOrder
<1>2. UpOrder(e, i, m)
  BY <1>1 DEF UpOrder, DownOrder
<1> QED
  BY <1>1, <1>2 DEF Ordered

-----------------------------------------------------------------------------
(* The cache as a heap.                                                    *)

\* What the cache may be.
Caches == [entries : [Token -> Entry \cup {Nil}], heap : Seq(Token)]

\* CacheConsistent, of a cache.
Consistent(c) ==
    /\ c \in Caches /\ Len(c.heap) <= MaxCacheSize
    /\ \A t \in Token : c.entries[t] # Nil <=> \E i \in 1..Len(c.heap) : c.heap[i] = t
    /\ \A i \in 1..Len(c.heap) : c.entries[c.heap[i]].idx = i

\* The expiry times along the heap.
Keys(c) == [k \in 1..Len(c.heap) |-> Expiry(c, k)]

\* The same entries but for their positions.
SameEntries(c, d) ==
    \A t \in Token : /\ d.entries[t] = Nil <=> c.entries[t] = Nil
                     /\ c.entries[t] # Nil => /\ d.entries[t].expiry = c.entries[t].expiry
                                              /\ d.entries[t].resp = c.entries[t].resp

\* d has the tokens of c, in another order.
Shuffle(c, d) == Consistent(d) /\ Len(d.heap) = Len(c.heap) /\ SameEntries(c, d)

\* The entry of a position of the heap.
LEMMA HeapEntry ==
    ASSUME NEW c, Consistent(c), NEW k \in 1..Len(c.heap)
    PROVE  /\ Len(c.heap) \in Nat
           /\ c.heap[k] \in Token /\ c.entries[c.heap[k]] \in Entry
           /\ c.entries[c.heap[k]] # Nil
           /\ c.entries[c.heap[k]].idx = k
           /\ Expiry(c, k) \in Nat
<1>1. c.heap \in Seq(Token) /\ c.entries \in [Token -> Entry \cup {Nil}]
  BY DEF Consistent, Caches
<1>2. c.heap[k] \in Token
  BY <1>1
<1>3. c.entries[c.heap[k]] # Nil
  BY <1>2 DEF Consistent
<1>4. c.entries[c.heap[k]] \in Entry
  BY <1>1, <1>2, <1>3
<1> QED
  BY <1>1, <1>2, <1>3, <1>4 DEF Consistent, Expiry, Entry

\* The expiry times are numbers.
LEMMA KeysType ==
    ASSUME NEW c, Consistent(c)
    PROVE  Len(c.heap) \in Nat /\ Keys(c) \in [1..Len(c.heap) -> Nat]
<1>1. Len(c.heap) \in Nat
  BY DEF Consistent, Caches
<1>2. \A k \in 1..Len(c.heap) : Expiry(c, k) \in Nat
  BY HeapEntry
<1> QED
  BY <1>1, <1>2 DEF Keys

\* An entry with another index.
LEMMA Reindexed ==
    ASSUME NEW x \in Entry, NEW k \in 1..MaxCacheSize
    PROVE  LET y == [x EXCEPT !.idx = k]
           IN  y \in Entry /\ y.idx = k /\ y.expiry = x.expiry /\ y.resp = x.resp
BY DEF Entry

\* Swap exchanges two positions and nothing else.
LEMMA SwapKeeps ==
    ASSUME NEW c, Consistent(c), NEW i \in 1..Len(c.heap), NEW j \in 1..Len(c.heap),
           NEW d, d = Swap(c, i, j)
    PROVE  /\ Shuffle(c, d)
           /\ Swapped(Keys(c), Keys(d), i, j)
           /\ d.heap[i] = c.heap[j] /\ d.heap[j] = c.heap[i]
           /\ \A k \in 1..Len(c.heap) : k # i /\ k # j => d.heap[k] = c.heap[k]
<1> DEFINE n == Len(c.heap)
           a == c.heap[i]
           b == c.heap[j]
<1>1. /\ a \in Token /\ b \in Token /\ n \in Nat
      /\ c.entries[a] \in Entry /\ c.entries[b] \in Entry
      /\ c.entries[a].idx = i /\ c.entries[b].idx = j
  BY HeapEntry
<1>2. /\ c.heap \in Seq(Token) /\ c.entries \in [Token -> Entry \cup {Nil}]
      /\ i \in 1..MaxCacheSize /\ j \in 1..MaxCacheSize /\ n <= MaxCacheSize
  BY IntrospectAssumption DEF Consistent, Caches, IntrospectAssumption
<1>3. /\ d.heap = [c.heap EXCEPT ![i] = b, ![j] = a]
      /\ d.entries = [c.entries EXCEPT ![b].idx = i, ![a].idx = j]
      /\ d = [entries |-> d.entries, heap |-> d.heap]
  BY DEF Swap
<1>4. a = b <=> i = j
  BY <1>1
<1> HIDE DEF a, b, n
<1>5. d.heap \in Seq(Token) /\ Len(d.heap) = n
  BY <1>1, <1>2, <1>3 DEF n
<1>6. /\ d.heap[i] = b /\ d.heap[j] = a
      /\ \A k \in 1..n : k # i /\ k # j => d.heap[k] = c.heap[k]
  BY <1>2, <1>3 DEF n, a, b
<1>7. d.entries \in [Token -> Entry \cup {Nil}]
  <2>1. \A x \in Entry, k \in 1..MaxCacheSize : [x EXCEPT !.idx = k] \in Entry
    BY DEF Entry
  <2> DEFINE f == [c.entries EXCEPT ![b] = [c.entries[b] EXCEPT !.idx = i]]
  <2>2. f \in [Token -> Entry \cup {Nil}] /\ f[a] \in Entry
    BY <2>1, <1>1, <1>2
  <2>3. d.entries = [f EXCEPT ![a] = [f[a] EXCEPT !.idx = j]]
    BY <1>3
  <2> QED
    BY <2>1, <2>2, <2>3, <1>1, <1>2
<1>8. d \in Caches
  BY <1>3, <1>5, <1>7 DEF Caches
<1>9. /\ d.entries[a] \in Entry /\ d.entries[b] \in Entry
      /\ d.entries[a].idx = j /\ d.entries[b].idx = i
      /\ d.entries[a].expiry = c.entries[a].expiry /\ d.entries[a].resp = c.entries[a].resp
      /\ d.entries[b].expiry = c.entries[b].expiry /\ d.entries[b].resp = c.entries[b].resp
      /\ \A t \in Token : t # a /\ t # b => d.entries[t] = c.entries[t]
  <2> DEFINE f == [c.entries EXCEPT ![b] = [c.entries[b] EXCEPT !.idx = i]]
             Like(x, y, k) == x \in Entry /\ x.idx = k /\ x.expiry = y.expiry /\ x.resp = y.resp
  <2>0. i \in 1..MaxCacheSize /\ j \in 1..MaxCacheSize
    BY <1>1 DEF Entry
  <2>1. f[b] = [c.entries[b] EXCEPT !.idx = i] /\ \A t \in Token : t # b => f[t] = c.entries[t]
    BY <1>1, <1>2
  <2>2. Like(f[b], c.entries[b], i)
    <3> DEFINE x == c.entries[b]
               y == f[b]
    <3>1. x \in Entry /\ y = [x EXCEPT !.idx = i]
      BY <2>1, <1>1
    <3> HIDE DEF x, y
    <3>2. Like(y, x, i)
      BY ONLY <2>0, <3>1, Reindexed
    <3> QED
      BY <3>2 DEF x, y
  <2>3. f \in [Token -> Entry \cup {Nil}] /\ d.entries = [f EXCEPT ![a] = [f[a] EXCEPT !.idx = j]]
    <3>1. f[b] \in Entry
      BY <2>2
    <3> QED
      BY <3>1, <2>1, <1>1, <1>2, <1>3
  <2> HIDE DEF f
  <2>4. d.entries[a] = [f[a] EXCEPT !.idx = j] /\ \A t \in Token : t # a => d.entries[t] = f[t]
    BY <2>3, <1>1
  <2>5. f[a] \in Entry /\ f[a].expiry = c.entries[a].expiry /\ f[a].resp = c.entries[a].resp
    BY <2>1, <2>2, <1>1
  <2>6. Like(d.entries[a], f[a], j)
    <3> DEFINE x == f[a]
               y == d.entries[a]
    <3>1. x \in Entry /\ y = [x EXCEPT !.idx = j]
      BY <2>4, <2>5
    <3> HIDE DEF x, y
    <3>2. Like(y, x, j)
      BY ONLY <2>0, <3>1, Reindexed
    <3> QED
      BY <3>2 DEF x, y
  <2>7. Like(d.entries[a], c.entries[a], j)
    BY <2>5, <2>6
  <2>8. \A t \in Token : t # a /\ t # b => d.entries[t] = c.entries[t]
    BY <2>1, <2>4
  <2>9. Like(d.entries[b], c.entries[b], i)
    <3>1. CASE a = b
      BY <3>1, <2>7, <1>4
    <3>2. CASE a # b
      BY <3>2, <2>2, <2>4, <1>1
    <3> QED
      BY <3>1, <3>2
  <2> QED
    BY ONLY <2>7, <2>8, <2>9
<1>10. \A x \in Entry : x # Nil
  BY IntrospectAssumption DEF IntrospectAssumption
<1>11. SameEntries(c, d)
  BY <1>1, <1>9, <1>10 DEF SameEntries
<1>12. \A t \in Token : d.entries[t] # Nil <=> \E k \in 1..n : d.heap[k] = t
  <2> SUFFICES ASSUME NEW t \in Token
               PROVE  (\E k \in 1..n : c.heap[k] = t) <=> \E k \in 1..n : d.heap[k] = t
    BY <1>11 DEF SameEntries, Consistent, n
  <2>1. ASSUME NEW k \in 1..n, c.heap[k] = t PROVE \E l \in 1..n : d.heap[l] = t
    BY <2>1, <1>6 DEF a, b, n
  <2>2. ASSUME NEW k \in 1..n, d.heap[k] = t PROVE \E l \in 1..n : c.heap[l] = t
    BY <2>2, <1>6 DEF a, b, n
  <2> QED
    BY <2>1, <2>2
<1>13. ASSUME NEW k \in 1..n PROVE d.entries[d.heap[k]].idx = k
  <2>1. CASE k = i \/ k = j
    BY <2>1, <1>6, <1>9
  <2>2. CASE k # i /\ k # j
    <3>1. c.heap[k] \in Token /\ c.entries[c.heap[k]].idx = k
      BY HeapEntry DEF n
    <3>2. c.heap[k] # a /\ c.heap[k] # b
      BY <3>1, <2>2, <1>1
    <3> QED
      BY <2>2, <3>1, <3>2, <1>6, <1>9
  <2> QED
    BY <2>1, <2>2
<1>14. Consistent(d)
  BY <1>2, <1>5, <1>8, <1>12, <1>13 DEF Consistent
<1>15. Shuffle(c, d)
  BY <1>5, <1>11, <1>14 DEF Shuffle, n
<1>16. Swapped(Keys(c), Keys(d), i, j)
  <2>1. \A k \in 1..n : c.heap[k] \in Token /\ c.entries[c.heap[k]] # Nil
    BY HeapEntry DEF n
  <2>2. /\ \A k \in 1..n : Keys(d)[k] = d.entries[d.heap[k]].expiry
        /\ \A k \in 1..n : Keys(c)[k] = c.entries[c.heap[k]].expiry
        /\ DOMAIN Keys(c) = 1..n
    BY <1>5 DEF Keys, Expiry, n
  <2>3. i \in 1..n /\ j \in 1..n
    BY DEF n
  <2>4. \A k \in 1..n : k # i /\ k # j => Keys(d)[k] = Keys(c)[k]
    BY <2>1, <2>2, <1>6, <1>11 DEF SameEntries
  <2> QED
    BY <2>2, <2>3, <2>4, <1>6, <1>9 DEF Swapped, a, b
<1> QED
  BY <1>6, <1>15, <1>16 DEF n, a, b

\* Two shuffles are one.
LEMMA ShuffleTransitive ==
    ASSUME NEW c, NEW d, NEW e, Shuffle(c, d), Shuffle(d, e)
    PROVE  Shuffle(c, e)
BY DEF Shuffle, SameEntries

\* Less compares expiry times.
LEMMA LessIs ==
    ASSUME NEW c, NEW i \in 1..Len(c.heap), NEW j \in 1..Len(c.heap)
    PROVE  Less(c, i, j) <=> Keys(c)[i] < Keys(c)[j]
BY DEF Less, Keys

\* What up has reached from c.
UpStates(c) ==
    {s \in [c : Caches, i : 1..Len(c.heap)] :
        Shuffle(c, s.c) /\ UpOrder(Keys(s.c), s.i, Len(c.heap))}

\* One step of up: it goes on, to a position above, or the heap is in order.
LEMMA UpKeeps ==
    ASSUME NEW c, NEW s \in UpStates(c)
    PROVE  /\ Up(s) \in UpStates(c)
           /\ Up(s) # s => Up(s).i < s.i
           /\ Up(s) = s => Ordered(Keys(s.c), Len(c.heap))
<1> DEFINE n == Len(c.heap)
           e == Keys(s.c)
           p == Half(s.i)
<1>1. /\ s \in [c : Caches, i : 1..n] /\ Shuffle(c, s.c) /\ UpOrder(e, s.i, n)
      /\ Consistent(s.c) /\ Len(s.c.heap) = n /\ s.i \in 1..n
  BY DEF UpStates, Shuffle
<1>2. n \in Nat /\ e \in [1..n -> Nat]
  BY <1>1, KeysType
<1>3. s.i > 1 => p \in 1..n /\ p < s.i /\ p = s.i \div 2
  BY <1>1, <1>2, HalfOf DEF Half
<1>4. s.i > 1 => (Less(s.c, s.i, p) <=> e[s.i] < e[p])
  BY <1>1, <1>3, LessIs
<1>5. CASE s.i > 1 /\ Less(s.c, s.i, p)
  <2> DEFINE d == Swap(s.c, s.i, p)
             u == [c |-> d, i |-> p]
  <2>1. Up(s) = u
    BY <1>3, <1>5 DEF Up
  <2>2. Shuffle(s.c, d) /\ Swapped(e, Keys(d), s.i, p)
    <3>1. /\ s.i \in 1..Len(s.c.heap) /\ p \in 1..Len(s.c.heap)
          /\ Consistent(s.c) /\ d = Swap(s.c, s.i, p)
      BY <1>1, <1>3, <1>5
    <3> HIDE DEF d, e, u, n, p
    <3>2. Shuffle(s.c, d) /\ Swapped(Keys(s.c), Keys(d), s.i, p)
      BY ONLY <3>1, SwapKeeps
    <3> QED
      BY <3>2 DEF e
  <2>3. Shuffle(c, d) /\ Consistent(d) /\ d \in Caches
    <3> HIDE DEF d
    <3>1. Shuffle(c, d)
      BY <1>1, <2>2, ShuffleTransitive
    <3> QED
      BY <2>2, <3>1 DEF Shuffle, Consistent
  <2>4. Len(d.heap) = n
    BY <1>1, <2>2 DEF Shuffle
  <2>5. Keys(d) \in [1..n -> Nat]
    BY <2>3, <2>4, KeysType
  <2> HIDE DEF d, e
  <2>6. Swapped(e, Keys(d), p, s.i)
    BY <2>2 DEF Swapped
  <2>7. UpOrder(Keys(d), p, n)
    <3>1. s.i \in 2..n /\ e[s.i] < e[p]
      BY <1>1, <1>2, <1>4, <1>5
    <3> HIDE DEF n
    <3> QED
      BY <3>1, <1>1, <1>2, <2>5, <2>6, UpSwap
  <2>8. u \in [c : Caches, i : 1..n] /\ u.c = d /\ u.i = p
    BY <2>3, <1>3, <1>5
  <2>9. u \in UpStates(c)
    BY <2>3, <2>7, <2>8 DEF UpStates
  <2>10. u # s /\ u.i < s.i
    BY <1>2, <1>3, <1>5, <2>8, <1>1
  <2> HIDE DEF u
  <2> QED
    BY <2>1, <2>9, <2>10
<1>6. CASE ~ (s.i > 1 /\ Less(s.c, s.i, p))
  <2>1. Up(s) = s
    BY <1>3, <1>6 DEF Up
  <2>2. s.i > 1 => ~ (e[s.i] < e[p])
    BY <1>4, <1>6
  <2> HIDE DEF e, n
  <2>3. Ordered(e, n)
    BY <2>2, <1>1, <1>2, UpStop
  <2> QED
    BY <2>1, <2>3 DEF e, n
<1> QED
  BY <1>5, <1>6

\* What up makes of a heap in order but for a value that may be too small.
LEMMA SiftUpOrders ==
    ASSUME NEW c, Consistent(c), NEW i \in 1..Len(c.heap), UpOrder(Keys(c), i, Len(c.heap))
    PROVE  LET d == SiftUp(c, i).c IN Shuffle(c, d) /\ Ordered(Keys(d), Len(c.heap))
<1> DEFINE n == Len(c.heap)
           S == UpStates(c)
<1>1. n \in Nat /\ c \in Caches /\ c.heap \in Seq(Token) /\ i <= n /\ i \in Nat /\ i > 0
  BY DEF Consistent, Caches
<1>2. [c |-> c, i |-> i] \in S
  <2>1. Shuffle(c, c)
    BY DEF Shuffle, SameEntries
  <2> QED
    BY <1>1, <2>1 DEF UpStates
<1>3. \A s \in S : Up(s) \in S
  BY UpKeeps
<1>4. PICK s \in [0..n -> S] :
         /\ s[0] = [c |-> c, i |-> i] /\ \A k \in 1..n : s[k] = Up(s[k - 1])
         /\ SiftUp(c, i) = s[n]
  <2> HIDE DEF S
  <2>1. UpRuns(S, c, i) # {}
    BY <1>1, <1>2, <1>3, SiftUpRuns
  <2> QED
    BY <2>1 DEF UpRuns
<1> DEFINE T == {k \in 0..n : s[k].i + k <= i \/ Up(s[k]) = s[k]}
<1> HIDE DEF S, n
<1>5. \A k \in 0..n : s[k] \in S
  BY <1>4
<1>6. \A k \in 0..n : s[k].i \in 1..n
  BY <1>5 DEF S, UpStates, n
<1>7. 0 \in T
  <2>1. s[0].i = i
    BY <1>4
  <2> QED
    BY <2>1, <1>1
<1>8. ASSUME NEW k \in 0..n, k < n, k \in T PROVE k + 1 \in T
  <2>1. k + 1 \in 1..n /\ (k + 1) - 1 = k
    BY <1>1, <1>8
  <2>2. s[k + 1] = Up(s[k]) /\ s[k] \in S
    BY <2>1, <1>4, <1>5
  <2>3. CASE Up(s[k]) = s[k]
    BY <2>1, <2>2, <2>3, <1>1
  <2>4. CASE Up(s[k]) # s[k]
    <3>1. s[k + 1].i < s[k].i
      BY <2>2, <2>4, UpKeeps DEF S
    <3>2. s[k].i + k <= i
      BY <1>8, <2>4
    <3>3. s[k].i \in Nat /\ s[k + 1].i \in Nat
      BY <1>1, <1>6, <2>1
    <3>4. s[k + 1].i + (k + 1) <= i
      BY <3>1, <3>2, <3>3, <1>1
    <3> QED
      BY <3>4, <2>1, <1>1
  <2> QED
    BY <2>3, <2>4
<1>9. Up(s[n]) = s[n]
  <2>1. 0..n \subseteq T
    <3> HIDE DEF T
    <3> QED
      BY <1>1, <1>7, <1>8, NatClosed
  <2>2. n \in T /\ s[n].i \in 1..n
    BY <2>1, <1>1, <1>6
  <2> QED
    BY <2>2, <1>1
<1>10. s[n] \in S
  BY <1>1, <1>5
<1>11. Shuffle(c, s[n].c) /\ Ordered(Keys(s[n].c), Len(c.heap))
  BY <1>9, <1>10, UpKeeps DEF S, UpStates
<1> QED
  BY <1>4, <1>11

\* The child that down compares is one of i, and the least.
LEMMA ChildLeast ==
    ASSUME NEW c, Consistent(c), NEW i \in 1..Len(c.heap), NEW m \in 0..Len(c.heap), 2 * i <= m
    PROVE  LET j == Child(c, i, m)
           IN  /\ j \in 2..m /\ Half(j) = i /\ i < j
               /\ \A k \in 2..m : Half(k) = i => Keys(c)[j] <= Keys(c)[k]
<1> DEFINE n == Len(c.heap)
           e == Keys(c)
           j == Child(c, i, m)
<1>1. n \in Nat /\ e \in [1..n -> Nat] /\ m \in Nat /\ i \in Nat
  BY KeysType
<1>2. 2 * i \in 1..n /\ (2 * i < m => 2 * i + 1 \in 1..n)
  BY <1>1
<1>3. Half(2 * i) = i /\ Half(2 * i + 1) = i
  <2>1. i \in Nat /\ i > 0
    BY <1>1
  <2> QED
    BY <2>1, HalfIs
<1>4. 2 * i < m => (Less(c, 2 * i + 1, 2 * i) <=> e[2 * i + 1] < e[2 * i])
  BY <1>2, LessIs
<1>5. ASSUME NEW k \in 2..m, Half(k) = i PROVE k = 2 * i \/ (2 * i < m /\ k = 2 * i + 1)
  BY <1>1, <1>5, HalfOf
<1>6. e[2 * i] \in Nat /\ (2 * i < m => e[2 * i + 1] \in Nat)
  BY <1>1, <1>2
<1> HIDE DEF e, n
<1>7. CASE 2 * i < m /\ Less(c, 2 * i + 1, 2 * i)
  <2>1. j = 2 * i + 1
    BY <1>7 DEF Child
  <2>2. j \in 2..m /\ Half(j) = i /\ i < j
    BY <2>1, <1>1, <1>3, <1>7
  <2>3. \A k \in 2..m : Half(k) = i => e[j] <= e[k]
    BY <2>1, <1>4, <1>5, <1>6, <1>7
  <2> QED
    BY <2>2, <2>3 DEF e
<1>8. CASE ~ (2 * i < m /\ Less(c, 2 * i + 1, 2 * i))
  <2>1. j = 2 * i
    BY <1>8 DEF Child
  <2>2. j \in 2..m /\ Half(j) = i /\ i < j
    BY <2>1, <1>1, <1>3
  <2>3. \A k \in 2..m : Half(k) = i => e[j] <= e[k]
    BY <2>1, <1>4, <1>5, <1>6, <1>8
  <2> QED
    BY <2>2, <2>3 DEF e
<1> HIDE DEF j
<1> QED
  BY <1>7, <1>8

\* What down has reached from c and i, on the first m positions.
DownStates(c, i, m) ==
    {s \in [c : Caches, i : i..Len(c.heap)] :
        /\ Shuffle(c, s.c) /\ DownOrder(Keys(s.c), s.i, m)
        /\ s.i = i => s.c = c
        /\ s.i > i => s.i <= m /\ Keys(s.c)[Half(s.i)] <= Keys(s.c)[s.i]
        /\ \A k \in (m + 1)..Len(c.heap) : s.c.heap[k] = c.heap[k]}

\* One step of down: it goes on, to a position below, or the value is right for
\* those below it.
LEMMA DownKeeps ==
    ASSUME NEW c, NEW i \in 1..Len(c.heap), NEW m \in 0..Len(c.heap), Len(c.heap) \in Nat,
           NEW s \in DownStates(c, i, m)
    PROVE  /\ Down(s, m) \in DownStates(c, i, m)
           /\ Down(s, m) # s => Down(s, m).i > s.i
           /\ Down(s, m) = s => \A k \in 2..m : Half(k) = s.i => Keys(s.c)[s.i] <= Keys(s.c)[k]
<1> DEFINE n == Len(c.heap)
           e == Keys(s.c)
           j == Child(s.c, s.i, m)
<1>1. /\ s \in [c : Caches, i : i..n] /\ Shuffle(c, s.c) /\ DownOrder(e, s.i, m)
      /\ Consistent(s.c) /\ Len(s.c.heap) = n /\ s.i \in 1..n /\ i <= s.i
      /\ \A k \in (m + 1)..n : s.c.heap[k] = c.heap[k]
  BY DEF DownStates, Shuffle
<1>2. n \in Nat /\ e \in [1..n -> Nat]
  BY <1>1, KeysType
<1>3. 2 * s.i <= m => /\ j \in 2..m /\ Half(j) = s.i /\ s.i < j
                      /\ \A k \in 2..m : Half(k) = s.i => e[j] <= e[k]
  <2>1. s.i \in 1..Len(s.c.heap) /\ m \in 0..Len(s.c.heap)
    BY <1>1
  <2> QED
    BY <2>1, <1>1, ChildLeast
<1> HIDE DEF j
<1>4. 2 * s.i <= m => (Less(s.c, j, s.i) <=> e[j] < e[s.i])
  <2>1. 2 * s.i <= m => j \in 1..Len(s.c.heap) /\ s.i \in 1..Len(s.c.heap)
    BY <1>1, <1>3
  <2> QED
    BY <2>1, LessIs
<1>5. CASE 2 * s.i <= m /\ Less(s.c, j, s.i)
  <2> DEFINE d == Swap(s.c, s.i, j)
             u == [c |-> d, i |-> j]
  <2>1. Down(s, m) = u
    BY <1>5 DEF Down, j
  <2>2. /\ Shuffle(s.c, d) /\ Swapped(e, Keys(d), s.i, j)
        /\ \A k \in 1..n : k # s.i /\ k # j => d.heap[k] = s.c.heap[k]
    <3>1. /\ s.i \in 1..Len(s.c.heap) /\ j \in 1..Len(s.c.heap)
          /\ Consistent(s.c) /\ d = Swap(s.c, s.i, j)
      BY <1>1, <1>3, <1>5
    <3> HIDE DEF d, e, u, n
    <3>2. /\ Shuffle(s.c, d) /\ Swapped(Keys(s.c), Keys(d), s.i, j)
          /\ \A k \in 1..Len(s.c.heap) : k # s.i /\ k # j => d.heap[k] = s.c.heap[k]
      BY ONLY <3>1, SwapKeeps
    <3> QED
      BY <3>2, <1>1 DEF e
  <2> HIDE DEF d
  <2>3. Shuffle(c, d) /\ Consistent(d) /\ d \in Caches
    <3>1. Shuffle(c, d)
      BY <1>1, <2>2, ShuffleTransitive
    <3> QED
      BY <2>2, <3>1 DEF Shuffle, Consistent
  <2>4. Len(d.heap) = n
    BY <1>1, <2>2 DEF Shuffle
  <2>5. Keys(d) \in [1..n -> Nat]
    BY <2>3, <2>4, KeysType
  <2> HIDE DEF e
  <2>6. DownOrder(Keys(d), j, m) /\ Keys(d)[Half(j)] <= Keys(d)[j]
    <3>1. e[j] < e[s.i] /\ m \in 0..n
      BY <1>4, <1>5
    <3> HIDE DEF n
    <3> QED
      BY <3>1, <1>1, <1>2, <1>3, <1>5, <2>2, <2>5, DownSwap
  <2>7. ASSUME NEW k \in (m + 1)..n PROVE d.heap[k] = c.heap[k]
    <3>1. k \in 1..n /\ k # j /\ k # s.i
      BY <1>1, <1>3, <1>5
    <3> QED
      BY <3>1, <1>1, <2>2
  <2>8. j \in i..n /\ j > i /\ j <= m
    BY <1>1, <1>3, <1>5
  <2>9. u \in [c : Caches, i : i..n] /\ u.c = d /\ u.i = j
    BY <2>3, <2>8
  <2>10. u \in DownStates(c, i, m)
    BY <2>3, <2>6, <2>7, <2>8, <2>9 DEF DownStates
  <2>11. u # s /\ u.i > s.i
    BY <1>1, <1>3, <1>5, <2>9
  <2> HIDE DEF u
  <2> QED
    BY <2>1, <2>10, <2>11
<1>6. CASE ~ (2 * s.i <= m /\ Less(s.c, j, s.i))
  <2>1. Down(s, m) = s
    BY <1>6 DEF Down, j
  <2>2. ASSUME NEW k \in 2..m, Half(k) = s.i PROVE e[s.i] <= e[k]
    <3>1. 2 * s.i <= m
      <4>1. k \in Nat /\ k > 1 /\ m \in Nat
        BY <1>2
      <4>2. k = 2 * Half(k) \/ k = 2 * Half(k) + 1
        BY <4>1, HalfOf
      <4>3. s.i \in Nat /\ k <= m
        BY <1>1, <1>2
      <4> QED
        BY ONLY <4>1, <4>2, <4>3, <2>2
    <3>2. ~ (e[j] < e[s.i]) /\ e[j] <= e[k]
      BY <3>1, <2>2, <1>3, <1>4, <1>6
    <3>3. j \in 1..n /\ k \in 1..n
      BY <3>1, <1>3
    <3>4. e[j] \in Nat /\ e[k] \in Nat /\ e[s.i] \in Nat
      BY <3>3, <1>1, <1>2
    <3> QED
      BY <3>2, <3>4
  <2> QED
    BY <2>1, <2>2
<1> QED
  BY <1>5, <1>6

\* What down makes of a heap in order but for a value that may be too large: it
\* reaches a position where the value is right for those below it.
LEMMA SiftDownOrders ==
    ASSUME NEW c, Consistent(c), NEW i \in 1..Len(c.heap), NEW m \in 0..Len(c.heap),
           DownOrder(Keys(c), i, m)
    PROVE  LET s == SiftDown(c, i, m)
           IN  /\ s \in DownStates(c, i, m) /\ UpOrder(Keys(s.c), s.i, m)
               /\ s.i > i \/ i = 1 => Ordered(Keys(s.c), m)
<1> DEFINE n == Len(c.heap)
           S == DownStates(c, i, m)
<1>1. n \in Nat /\ c \in Caches /\ c.heap \in Seq(Token) /\ i <= n /\ i \in Nat /\ i > 0
  BY DEF Consistent, Caches
<1>2. [c |-> c, i |-> i] \in S
  <2>1. Shuffle(c, c)
    BY DEF Shuffle, SameEntries
  <2>2. [c |-> c, i |-> i] \in [c : Caches, i : i..n]
    BY <1>1
  <2> QED
    BY <1>1, <2>1, <2>2 DEF DownStates
<1>3. \A s \in S : Down(s, m) \in S
  BY <1>1, DownKeeps
<1>4. PICK s \in [0..n -> S] :
         /\ s[0] = [c |-> c, i |-> i] /\ \A k \in 1..n : s[k] = Down(s[k - 1], m)
         /\ SiftDown(c, i, m) = s[n]
  <2> HIDE DEF S
  <2>1. m \in Nat
    BY <1>1
  <2>2. DownRuns(S, c, i, m) # {}
    BY <2>1, <1>1, <1>2, <1>3, SiftDownRuns
  <2> QED
    BY <2>2 DEF DownRuns
<1> DEFINE T == {k \in 0..n : s[k].i >= i + k \/ Down(s[k], m) = s[k]}
<1>5. \A k \in 0..n : s[k] \in S
  BY <1>4
<1>6. \A k \in 0..n : s[k].i \in 1..n
  BY <1>5, <1>1 DEF DownStates
<1>7. \A k \in 0..n : /\ Down(s[k], m) # s[k] => Down(s[k], m).i > s[k].i
                      /\ Down(s[k], m) = s[k] => \A l \in 2..m :
                            Half(l) = s[k].i => Keys(s[k].c)[s[k].i] <= Keys(s[k].c)[l]
  BY <1>1, <1>5, DownKeeps
<1> HIDE DEF S, n
<1>8. 0 \in T
  <2>1. s[0].i = i
    BY <1>4
  <2> QED
    BY <2>1, <1>1
<1>9. ASSUME NEW k \in 0..n, k < n, k \in T PROVE k + 1 \in T
  <2>1. k + 1 \in 1..n /\ (k + 1) - 1 = k
    BY <1>1, <1>9
  <2>2. s[k + 1] = Down(s[k], m)
    BY <2>1, <1>4
  <2>3. CASE Down(s[k], m) = s[k]
    BY <2>1, <2>2, <2>3, <1>1
  <2>4. CASE Down(s[k], m) # s[k]
    <3>1. s[k + 1].i > s[k].i
      BY <2>2, <2>4, <1>7
    <3>2. s[k].i >= i + k
      BY <1>9, <2>4
    <3>3. s[k].i \in Nat /\ s[k + 1].i \in Nat
      BY <1>1, <1>6, <2>1
    <3>4. s[k + 1].i >= i + (k + 1)
      BY <3>1, <3>2, <3>3, <1>1
    <3> QED
      BY <3>4, <2>1, <1>1
  <2> QED
    BY <2>3, <2>4
<1>10. Down(s[n], m) = s[n]
  <2>1. 0..n \subseteq T
    <3> HIDE DEF T
    <3> QED
      BY <1>1, <1>8, <1>9, NatClosed
  <2>2. n \in T /\ s[n].i \in 1..n
    BY <2>1, <1>1, <1>6
  <2> QED
    BY <2>2, <1>1
<1>11. n \in 0..n
  BY <1>1
<1> DEFINE r == s[n]
           e == Keys(r.c)
<1>12. r \in DownStates(c, i, m) /\ \A l \in 2..m : Half(l) = r.i => e[r.i] <= e[l]
  BY <1>5, <1>7, <1>10, <1>11 DEF S
<1> HIDE DEF r
<1>13. /\ DownOrder(e, r.i, m) /\ Consistent(r.c) /\ Len(r.c.heap) = n /\ r.i \in i..n
       /\ r.i > i => e[Half(r.i)] <= e[r.i]
  BY <1>12 DEF DownStates, Shuffle, n
<1>14. e \in [1..n -> Nat]
  BY <1>13, KeysType
<1> HIDE DEF e
<1>15. UpOrder(e, r.i, m) /\ ((r.i > 1 /\ r.i <= m => e[Half(r.i)] <= e[r.i]) => Ordered(e, m))
  <2>1. m \in 0..n /\ r.i \in 1..n
    BY <1>13, <1>1 DEF n
  <2> QED
    BY <2>1, <1>1, <1>12, <1>13, <1>14, DownStop
<1>16. r.i > i \/ i = 1 => Ordered(e, m)
  BY <1>1, <1>13, <1>15
<1> QED
  BY <1>4, <1>12, <1>15, <1>16 DEF r, e

-----------------------------------------------------------------------------
(* The operations of container/heap, and set.                              *)

\* The cache is consistent and its heap is in order.
HeapOK(c) == Consistent(c) /\ Ordered(Keys(c), Len(c.heap))

\* heap.Fix repairs a heap in which the value at i is too large or too small.
LEMMA FixOrders ==
    ASSUME NEW c, Consistent(c), NEW i \in 1..Len(c.heap), DownOrder(Keys(c), i, Len(c.heap))
    PROVE  Shuffle(c, Fix(c, i)) /\ HeapOK(Fix(c, i))
<1> DEFINE n == Len(c.heap)
           s == SiftDown(c, i, n)
<1>1. n \in Nat /\ n \in 0..n
  BY KeysType
<1>2. /\ s \in DownStates(c, i, n) /\ UpOrder(Keys(s.c), s.i, n)
      /\ s.i > i \/ i = 1 => Ordered(Keys(s.c), n)
  BY <1>1, SiftDownOrders
<1>3. Fix(c, i) = IF s.i > i THEN s.c ELSE SiftUp(c, i).c
  BY DEF Fix
<1> HIDE DEF s
<1>4. s.i \in i..n /\ Shuffle(c, s.c) /\ (s.i = i => s.c = c)
  BY <1>2 DEF DownStates
<1>5. CASE s.i > i
  BY <1>2, <1>3, <1>4, <1>5 DEF Shuffle, HeapOK
<1>6. CASE ~ (s.i > i)
  <2>1. s.i = i
    BY <1>1, <1>4, <1>6
  <2>2. Shuffle(c, SiftUp(c, i).c) /\ Ordered(Keys(SiftUp(c, i).c), n)
    BY <1>2, <1>4, <2>1, SiftUpOrders
  <2> QED
    BY <1>3, <1>6, <2>2 DEF Shuffle, HeapOK
<1> QED
  BY <1>5, <1>6

\* The entry of t renewed in place, before heap.Fix.
Renewed(c, t, v, x) == [c EXCEPT !.entries[t].resp = v, !.entries[t].expiry = x]

\* What an entry that is renewed in place does to a heap.
LEMMA RenewKeeps ==
    ASSUME NEW c, HeapOK(c), NEW t \in Token, c.entries[t] # Nil, NEW v \in Response, NEW x \in Nat,
           NEW d, d = Renewed(c, t, v, x)
    PROVE  /\ Consistent(d) /\ Len(d.heap) = Len(c.heap)
           /\ c.entries[t].idx \in 1..Len(c.heap)
           /\ DownOrder(Keys(d), c.entries[t].idx, Len(c.heap))
           /\ d.entries[t] # Nil /\ d.entries[t].resp = v /\ d.entries[t].expiry = x
           /\ \A u \in Token : u # t => d.entries[u] = c.entries[u]
<1> DEFINE n == Len(c.heap)
           i == c.entries[t].idx
           r == [c.entries[t] EXCEPT !.resp = v, !.expiry = x]
<1>1. /\ c \in Caches /\ n <= MaxCacheSize /\ n \in Nat /\ c.heap \in Seq(Token)
      /\ c.entries \in [Token -> Entry \cup {Nil}] /\ Consistent(c)
  BY DEF HeapOK, Consistent, Caches
<1>2. PICK k \in 1..n : c.heap[k] = t
  BY DEF HeapOK, Consistent
<1>3. i = k /\ c.entries[t] \in Entry
  BY <1>1, <1>2, HeapEntry
<1>4. r \in Entry /\ r # Nil /\ r.resp = v /\ r.expiry = x /\ r.idx = i
  BY <1>3, IntrospectAssumption DEF Entry, IntrospectAssumption
<1>5. d.heap = c.heap /\ d.entries = [c.entries EXCEPT ![t] = r] /\ d \in Caches
  BY <1>1, <1>4 DEF Caches, Renewed
<1> HIDE DEF r, i, n
<1>6. d.entries[t] = r /\ \A u \in Token : u # t => d.entries[u] = c.entries[u]
  BY <1>1, <1>5
<1>7. Consistent(d)
  <2>1. Len(d.heap) <= MaxCacheSize
    BY <1>1, <1>5 DEF n
  <2>2. \A u \in Token : d.entries[u] # Nil <=> \E l \in 1..Len(d.heap) : d.heap[l] = u
    BY <1>1, <1>2, <1>4, <1>5, <1>6 DEF Consistent, n
  <2>3. ASSUME NEW l \in 1..Len(d.heap) PROVE d.entries[d.heap[l]].idx = l
    <3>1. c.heap[l] \in Token /\ c.entries[c.heap[l]].idx = l
      BY <1>1, <1>5, HeapEntry
    <3> QED
      BY <3>1, <1>3, <1>4, <1>5, <1>6 DEF i
  <2> QED
    BY <1>5, <2>1, <2>2, <2>3 DEF Consistent
<1>8. \A l \in 1..n : l # i => Keys(d)[l] = Keys(c)[l]
  <2> SUFFICES ASSUME NEW l \in 1..n, l # i PROVE Keys(d)[l] = Keys(c)[l]
    OBVIOUS
  <2>1. c.heap[l] \in Token /\ c.entries[c.heap[l]].idx = l
    BY <1>1, HeapEntry DEF n
  <2>2. c.heap[l] # t
    BY <2>1 DEF i
  <2>3. d.entries[d.heap[l]] = c.entries[c.heap[l]]
    BY <2>1, <2>2, <1>5, <1>6
  <2>4. l \in 1..Len(d.heap) /\ l \in 1..Len(c.heap)
    BY <1>5 DEF n
  <2>5. Keys(d)[l] = d.entries[d.heap[l]].expiry /\ Keys(c)[l] = c.entries[c.heap[l]].expiry
    BY ONLY <2>4 DEF Keys, Expiry
  <2> QED
    BY <2>3, <2>5
<1>9. Keys(c) \in [1..n -> Nat] /\ Keys(d) \in [1..n -> Nat] /\ Ordered(Keys(c), n)
  BY <1>1, <1>5, <1>7, KeysType DEF n, HeapOK
<1>10. i \in 1..n
  BY <1>3
<1>11. DownOrder(Keys(d), i, n)
  <2> DEFINE e == Keys(c)
             f == Keys(d)
  <2> HIDE DEF e, f
  <2>1. SUFFICES ASSUME NEW j \in 2..n
                 PROVE  /\ j # i /\ Half(j) # i => f[Half(j)] <= f[j]
                        /\ Half(j) = i /\ i > 1 => f[Half(i)] <= f[j]
    BY DEF DownOrder, f
  <2>2. Half(j) \in 1..n /\ Half(j) < j /\ e[Half(j)] <= e[j] /\ j \in 1..n
    <3>1. Half(j) \in 1..n /\ Half(j) < j /\ j \in 1..n
      BY <1>1, HalfOf
    <3>2. e[Half(j)] <= e[j]
      BY <1>9 DEF Ordered, e
    <3> QED
      BY <3>1, <3>2
  <2>3. ASSUME j # i, Half(j) # i PROVE f[Half(j)] <= f[j]
    BY <2>2, <2>3, <1>8 DEF e, f
  <2>4. ASSUME Half(j) = i, i > 1 PROVE f[Half(i)] <= f[j]
    <3>1. i \in Nat /\ i \in 2..n
      BY <1>1, <1>10, <2>4
    <3>2. Half(i) \in 1..n /\ Half(i) < i /\ e[Half(i)] <= e[i]
      BY <3>1, <2>4, <1>1, <1>9, HalfOf DEF Ordered, e
    <3>3. f[Half(i)] = e[Half(i)] /\ f[j] = e[j]
      BY <3>1, <3>2, <2>2, <2>4, <1>8 DEF e, f
    <3>4. e[i] <= e[j] /\ e[i] \in Nat /\ e[j] \in Nat /\ e[Half(i)] \in Nat
      BY <2>2, <2>4, <3>2, <1>9, <1>10 DEF e
    <3> QED
      BY <3>2, <3>3, <3>4
  <2> QED
    BY <2>3, <2>4
<1> QED
  BY <1>4, <1>5, <1>6, <1>7, <1>10, <1>11 DEF n, i

\* Eviction removes the root, and nothing else.
LEMMA EvictKeeps ==
    ASSUME NEW c, HeapOK(c), Len(c.heap) > 0
    PROVE  LET d == EvictOne(c)
           IN  /\ HeapOK(d) /\ Len(d.heap) = Len(c.heap) - 1
               /\ c.heap[1] \in Token /\ d.entries[c.heap[1]] = Nil
               /\ \A u \in Token : u # c.heap[1] =>
                     /\ d.entries[u] = Nil <=> c.entries[u] = Nil
                     /\ c.entries[u] # Nil => /\ d.entries[u].expiry = c.entries[u].expiry
                                              /\ d.entries[u].resp = c.entries[u].resp
<1> DEFINE n == Len(c.heap)
           t == c.heap[1]
           b == Swap(c, 1, n)
           s == SiftDown(b, 1, n - 1)
           a == s.c
           d == EvictOne(c)
<1>1. n \in Nat /\ n > 0 /\ Consistent(c) /\ Ordered(Keys(c), n) /\ 1 \in 1..n /\ n \in 1..n
  BY KeysType DEF HeapOK
<1>2. t \in Token
  BY <1>1, HeapEntry
<1>3. d = [entries |-> [a.entries EXCEPT ![t] = Nil], heap |-> SubSeq(a.heap, 1, n - 1)]
  BY DEF EvictOne
<1>4. /\ Shuffle(c, b) /\ Consistent(b) /\ Len(b.heap) = n /\ b.heap[n] = t
      /\ Swapped(Keys(c), Keys(b), 1, n)
  BY <1>1, SwapKeeps DEF Shuffle
<1> HIDE DEF b
<1>5. DownOrder(Keys(b), 1, n - 1)
  <2>1. \A k \in 1..n : k # 1 /\ k # n => Keys(b)[k] = Keys(c)[k]
    BY <1>4 DEF Swapped, Keys
  <2>2. SUFFICES ASSUME NEW j \in 2..(n - 1), Half(j) # 1
                 PROVE  Keys(b)[Half(j)] <= Keys(b)[j]
    BY DEF DownOrder
  <2>3. Half(j) \in 1..n /\ Half(j) < j /\ j \in 1..n /\ j # n /\ Half(j) # n /\ j \in 2..n
    BY <1>1, <2>2, HalfOf
  <2>4. Keys(c)[Half(j)] <= Keys(c)[j]
    BY <1>1, <2>3 DEF Ordered
  <2> QED
    BY <2>1, <2>2, <2>3, <2>4
<1>6. s \in DownStates(b, 1, n - 1) /\ Ordered(Keys(s.c), n - 1)
  <2>1. 1 \in 1..Len(b.heap) /\ n - 1 \in 0..Len(b.heap)
    BY <1>1, <1>4
  <2> QED
    BY <2>1, <1>4, <1>5, SiftDownOrders
<1> HIDE DEF s
<1>7. Shuffle(b, a) /\ Consistent(a) /\ Len(a.heap) = n /\ a.heap[n] = t
  <2>1. n \in ((n - 1) + 1)..Len(b.heap)
    BY <1>1, <1>4
  <2> QED
    BY <1>4, <1>6, <2>1 DEF DownStates, Shuffle
<1>8. Shuffle(c, a)
  BY <1>4, <1>7, ShuffleTransitive
<1> HIDE DEF a, t
<1>9. a.heap \in Seq(Token) /\ a.entries \in [Token -> Entry \cup {Nil}] /\ n <= MaxCacheSize
  BY <1>7 DEF Consistent, Caches
<1>10. /\ d.entries = [a.entries EXCEPT ![t] = Nil] /\ d.heap = SubSeq(a.heap, 1, n - 1)
       /\ d = [entries |-> d.entries, heap |-> d.heap]
  BY <1>3
<1> HIDE DEF d
<1>11. /\ d.heap \in Seq(Token) /\ Len(d.heap) = n - 1
       /\ \A k \in 1..(n - 1) : d.heap[k] = a.heap[k]
  BY <1>1, <1>7, <1>9, <1>10
<1>12. /\ d.entries \in [Token -> Entry \cup {Nil}] /\ d.entries[t] = Nil
       /\ \A u \in Token : u # t => d.entries[u] = a.entries[u]
  BY <1>2, <1>9, <1>10
<1>13. \A k \in 1..(n - 1) : /\ d.heap[k] \in Token /\ d.heap[k] # t
                             /\ a.entries[d.heap[k]].idx = k
  <2> SUFFICES ASSUME NEW k \in 1..(n - 1)
               PROVE  a.heap[k] \in Token /\ a.heap[k] # t /\ a.entries[a.heap[k]].idx = k
    BY <1>11
  <2>1. k \in 1..n /\ k # n
    BY <1>1
  <2>2. a.heap[k] \in Token /\ a.entries[a.heap[k]].idx = k /\ a.entries[a.heap[n]].idx = n
    BY <2>1, <1>1, <1>7, HeapEntry
  <2> QED
    BY <2>1, <2>2, <1>7
<1>14. \A u \in Token : d.entries[u] # Nil <=> \E k \in 1..Len(d.heap) : d.heap[k] = u
  <2> SUFFICES ASSUME NEW u \in Token
               PROVE  d.entries[u] # Nil <=> \E k \in 1..(n - 1) : d.heap[k] = u
    BY <1>11
  <2>1. CASE u = t
    BY <2>1, <1>12, <1>13
  <2>2. CASE u # t
    <3>1. d.entries[u] # Nil <=> \E k \in 1..n : a.heap[k] = u
      BY <2>2, <1>7, <1>12 DEF Consistent
    <3>2. ASSUME NEW k \in 1..n, a.heap[k] = u PROVE \E l \in 1..(n - 1) : d.heap[l] = u
      <4>1. k \in 1..(n - 1)
        BY <3>2, <2>2, <1>1, <1>7
      <4> QED
        BY <4>1, <3>2, <1>11
    <3>3. ASSUME NEW k \in 1..(n - 1), d.heap[k] = u PROVE \E l \in 1..n : a.heap[l] = u
      BY <3>3, <1>1, <1>11
    <3> QED
      BY <3>1, <3>2, <3>3
  <2> QED
    BY <2>1, <2>2
<1>15. Consistent(d)
  <2>1. d \in Caches
    BY <1>10, <1>11, <1>12 DEF Caches
  <2>2. Len(d.heap) <= MaxCacheSize
    BY <1>1, <1>9, <1>11, IntrospectAssumption DEF IntrospectAssumption
  <2>3. \A k \in 1..Len(d.heap) : d.entries[d.heap[k]].idx = k
    BY <1>11, <1>12, <1>13
  <2> QED
    BY <2>1, <2>2, <2>3, <1>14 DEF Consistent
<1>16. Ordered(Keys(d), n - 1)
  <2>1. \A k \in 1..(n - 1) : Keys(d)[k] = Keys(a)[k]
    <3> SUFFICES ASSUME NEW k \in 1..(n - 1) PROVE Keys(d)[k] = Keys(a)[k]
      OBVIOUS
    <3>1. k \in 1..Len(d.heap) /\ k \in 1..Len(a.heap)
      BY <1>1, <1>7, <1>11
    <3>2. d.entries[d.heap[k]] = a.entries[a.heap[k]]
      BY <1>11, <1>12, <1>13
    <3> QED
      BY <3>1, <3>2 DEF Keys, Expiry
  <2>2. Ordered(Keys(a), n - 1)
    BY <1>6 DEF a
  <2> SUFFICES ASSUME NEW j \in 2..(n - 1) PROVE Keys(d)[Half(j)] <= Keys(d)[j]
    BY DEF Ordered
  <2>3. Half(j) \in 1..(n - 1) /\ j \in 1..(n - 1)
    BY <1>1, HalfOf
  <2> QED
    BY <2>1, <2>2, <2>3 DEF Ordered
<1>17. HeapOK(d) /\ Len(d.heap) = n - 1
  BY <1>11, <1>15, <1>16 DEF HeapOK
<1>18. \A u \in Token : u # t =>
          /\ d.entries[u] = Nil <=> c.entries[u] = Nil
          /\ c.entries[u] # Nil => /\ d.entries[u].expiry = c.entries[u].expiry
                                   /\ d.entries[u].resp = c.entries[u].resp
  BY <1>8, <1>12 DEF Shuffle, SameEntries
<1> QED
  BY <1>2, <1>12, <1>17, <1>18 DEF d, t

\* A push puts one entry more into the heap.
LEMMA PushKeeps ==
    ASSUME NEW c, HeapOK(c), Len(c.heap) < MaxCacheSize, NEW t \in Token, c.entries[t] = Nil,
           NEW v \in Response, NEW x \in Nat
    PROVE  LET d == Push(c, t, [resp |-> v, expiry |-> x, idx |-> 0])
           IN  /\ HeapOK(d)
               /\ d.entries[t] # Nil /\ d.entries[t].resp = v /\ d.entries[t].expiry = x
               /\ \A u \in Token : u # t =>
                     /\ d.entries[u] = Nil <=> c.entries[u] = Nil
                     /\ c.entries[u] # Nil => /\ d.entries[u].expiry = c.entries[u].expiry
                                              /\ d.entries[u].resp = c.entries[u].resp
<1> DEFINE n == Len(c.heap)
           m == n + 1
           r == [resp |-> v, expiry |-> x, idx |-> m]
           a == [entries |-> [c.entries EXCEPT ![t] = r], heap |-> Append(c.heap, t)]
           d == SiftUp(a, m).c
<1>1. /\ n \in Nat /\ n < MaxCacheSize /\ c.heap \in Seq(Token) /\ Consistent(c)
      /\ c.entries \in [Token -> Entry \cup {Nil}] /\ MaxCacheSize \in Nat
      /\ Ordered(Keys(c), n)
  BY IntrospectAssumption DEF HeapOK, Consistent, Caches, IntrospectAssumption
<1>2. Push(c, t, [resp |-> v, expiry |-> x, idx |-> 0]) = d
  <2>1. [[resp |-> v, expiry |-> x, idx |-> 0] EXCEPT !.idx = m] = r
    OBVIOUS
  <2> QED
    BY <2>1 DEF Push
<1>3. r \in Entry /\ r # Nil
  BY <1>1, IntrospectAssumption DEF Entry, IntrospectAssumption
<1>4. /\ a.heap \in Seq(Token) /\ Len(a.heap) = m /\ a.heap[m] = t
      /\ \A k \in 1..n : a.heap[k] = c.heap[k]
  BY <1>1
<1>5. /\ a.entries \in [Token -> Entry \cup {Nil}] /\ a.entries[t] = r
      /\ \A u \in Token : u # t => a.entries[u] = c.entries[u]
  BY <1>1, <1>3
<1>6. a \in Caches
  BY <1>4, <1>5 DEF Caches
<1>7. r.idx = m /\ r.resp = v /\ r.expiry = x
  OBVIOUS
<1> HIDE DEF a, r
<1>8. \A k \in 1..n : c.heap[k] \in Token /\ c.heap[k] # t /\ c.entries[c.heap[k]].idx = k
  BY <1>1, HeapEntry
<1>9. \A k \in 1..m : k \in 1..n \/ k = m
  BY <1>1
<1>10. Consistent(a)
  <2>1. \A u \in Token : a.entries[u] # Nil <=> \E k \in 1..m : a.heap[k] = u
    <3> SUFFICES ASSUME NEW u \in Token
                 PROVE  a.entries[u] # Nil <=> \E k \in 1..m : a.heap[k] = u
      OBVIOUS
    <3>1. CASE u = t
      <4>1. m \in 1..m
        BY <1>1
      <4> QED
        BY <4>1, <3>1, <1>3, <1>4, <1>5
    <3>2. CASE u # t
      <4>1. a.entries[u] # Nil <=> \E k \in 1..n : c.heap[k] = u
        BY <3>2, <1>1, <1>5 DEF Consistent
      <4>2. \A k \in 1..n : k \in 1..m
        BY <1>1
      <4> HIDE DEF n, m
      <4> QED
        BY <4>1, <4>2, <3>2, <1>4, <1>9
    <3> QED
      BY <3>1, <3>2
  <2>2. ASSUME NEW k \in 1..m PROVE a.entries[a.heap[k]].idx = k
    <3>1. CASE k \in 1..n
      BY <3>1, <1>4, <1>5, <1>8
    <3>2. CASE k = m
      BY <3>2, <1>4, <1>5, <1>7
    <3> QED
      BY <3>1, <3>2, <1>9
  <2>3. Len(a.heap) <= MaxCacheSize
    BY <1>1, <1>4
  <2> QED
    BY <2>1, <2>2, <2>3, <1>4, <1>6 DEF Consistent
<1>11. UpOrder(Keys(a), m, m)
  <2>1. \A k \in 1..n : Keys(a)[k] = Keys(c)[k]
    <3> SUFFICES ASSUME NEW k \in 1..n PROVE Keys(a)[k] = Keys(c)[k]
      OBVIOUS
    <3>1. a.entries[a.heap[k]] = c.entries[c.heap[k]] /\ k \in 1..Len(a.heap)
      BY <1>1, <1>4, <1>5, <1>8
    <3> QED
      BY <3>1 DEF Keys, Expiry
  <2>2. SUFFICES ASSUME NEW j \in 2..m
                 PROVE  /\ j # m => Keys(a)[Half(j)] <= Keys(a)[j]
                        /\ Half(j) # m
    BY DEF UpOrder
  <2>3. Half(j) \in 1..n /\ Half(j) < j
    BY <1>1, HalfOf
  <2>4. ASSUME j # m PROVE Keys(a)[Half(j)] <= Keys(a)[j]
    <3>1. j \in 2..n
      BY <2>4, <1>1
    <3>2. Keys(c)[Half(j)] <= Keys(c)[j]
      BY <3>1, <1>1 DEF Ordered
    <3> QED
      BY <3>1, <3>2, <2>1, <2>3
  <2> QED
    BY <2>3, <2>4, <1>1
<1>12. Shuffle(a, d) /\ Ordered(Keys(d), m)
  <2>1. m \in 1..Len(a.heap)
    BY <1>1, <1>4
  <2> QED
    BY <2>1, <1>4, <1>10, <1>11, SiftUpOrders
<1> HIDE DEF d
<1>13. HeapOK(d) /\ SameEntries(a, d)
  BY <1>4, <1>12 DEF Shuffle, HeapOK
<1>14. d.entries[t] # Nil /\ d.entries[t].resp = v /\ d.entries[t].expiry = x
  BY <1>3, <1>5, <1>7, <1>13 DEF SameEntries
<1> QED
  BY <1>2, <1>5, <1>13, <1>14 DEF SameEntries

\* The map and the heap have the same size.
LEMMA SizeIsLen ==
    ASSUME Consistent(cache) PROVE Size = Len(cache.heap)
<1> DEFINE n == Len(cache.heap)
           S == {t \in Token : cache.entries[t] # Nil}
           f == [k \in 1..n |-> cache.heap[k]]
<1>1. /\ n \in Nat
      /\ \A k \in 1..n : /\ cache.heap[k] \in Token /\ cache.entries[cache.heap[k]] # Nil
                         /\ cache.entries[cache.heap[k]].idx = k
  BY KeysType, HeapEntry
<1>2. f \in [1..n -> S]
  BY <1>1
<1>3. \A k, l \in 1..n : f[k] = f[l] => k = l
  BY <1>1
<1>4. \A t \in S : \E k \in 1..n : f[k] = t
  BY DEF Consistent
<1> HIDE DEF f, S
<1>5. f \in Surjection(1..n, S) /\ f \in Injection(1..n, S)
  BY <1>2, <1>3, <1>4 DEF Surjection, Injection, IsInjective
<1>6. IsFiniteSet(1..n) /\ Cardinality(1..n) = n
  <2>1. /\ IsFiniteSet(1..n)
        /\ Cardinality(1..n) = IF 1 > n THEN 0 ELSE n - 1 + 1
    <3>1. 1 \in Int /\ n \in Int
      BY <1>1
    <3> HIDE DEF n
    <3> QED
      BY <3>1, FS_Interval
  <2> QED
    BY <1>1, <2>1
<1>7. Cardinality(S) = Cardinality(1..n)
  BY <1>5, <1>6, FS_Surjection
<1> QED
  BY <1>6, <1>7 DEF Size, S

\* What set makes of the cache.
LEMMA StoredKeeps ==
    ASSUME HeapOK(cache), NEW t \in Token, NEW v \in Response, NEW x \in Nat
    PROVE  LET d == Stored(t, v, x)
           IN  /\ HeapOK(d)
               /\ d.entries[t] # Nil /\ d.entries[t].resp = v /\ d.entries[t].expiry = x
               /\ \A u \in Token : u # t /\ d.entries[u] # Nil =>
                     /\ cache.entries[u] # Nil
                     /\ d.entries[u].expiry = cache.entries[u].expiry
                     /\ d.entries[u].resp = cache.entries[u].resp
               /\ \A u \in Token : cache.entries[u] # Nil /\ d.entries[u] = Nil =>
                     /\ Len(cache.heap) = MaxCacheSize
                     /\ \A w \in Token : cache.entries[w] # Nil =>
                           cache.entries[u].expiry <= cache.entries[w].expiry
<1> DEFINE d == Stored(t, v, x)
           n == Len(cache.heap)
<1>1. Consistent(cache) /\ n \in Nat /\ n <= MaxCacheSize /\ MaxCacheSize \in Nat \ {0}
  BY KeysType, IntrospectAssumption DEF HeapOK, Consistent, IntrospectAssumption
<1>2. CASE cache.entries[t] # Nil
  <2> DEFINE a == Renewed(cache, t, v, x)
             i == cache.entries[t].idx
  <2>1. d = Fix(a, i)
    BY <1>2 DEF Stored, Renewed
  <2>2. /\ Consistent(a) /\ Len(a.heap) = n /\ i \in 1..n /\ DownOrder(Keys(a), i, n)
        /\ a.entries[t] # Nil /\ a.entries[t].resp = v /\ a.entries[t].expiry = x
        /\ \A u \in Token : u # t => a.entries[u] = cache.entries[u]
    BY <1>2, RenewKeeps
  <2> HIDE DEF a, d, i
  <2>3. Shuffle(a, d) /\ HeapOK(d)
    BY <2>1, <2>2, FixOrders
  <2>4. SameEntries(a, d)
    BY <2>3 DEF Shuffle
  <2> QED
    BY <2>2, <2>3, <2>4, <1>2 DEF SameEntries, d
<1>3. CASE cache.entries[t] = Nil
  <2> DEFINE full == n >= MaxCacheSize
             a == IF full THEN EvictOne(cache) ELSE cache
             h == cache.heap[1]
  <2>1. d = Push(a, t, [resp |-> v, expiry |-> x, idx |-> 0])
    BY <1>1, <1>3, SizeIsLen DEF Stored
  <2>2. full => /\ n > 0 /\ n = MaxCacheSize
    BY <1>1
  <2>3. full => h \in Token /\ \A w \in Token : cache.entries[w] # Nil =>
                    cache.entries[h].expiry <= cache.entries[w].expiry
    <3> SUFFICES ASSUME full, NEW w \in Token, cache.entries[w] # Nil
                 PROVE  h \in Token /\ cache.entries[h].expiry <= cache.entries[w].expiry
      <4>1. full => h \in Token
        BY <1>1, <2>2, HeapEntry
      <4> HIDE DEF full, h
      <4> QED
        BY <4>1
    <3>1. PICK k \in 1..n : cache.heap[k] = w
      BY <1>1 DEF Consistent
    <3>2. Keys(cache)[1] <= Keys(cache)[k]
      <4>1. Keys(cache) \in [1..n -> Nat] /\ Ordered(Keys(cache), n)
        BY <1>1, KeysType DEF HeapOK
      <4> HIDE DEF n
      <4> QED
        BY <4>1, <1>1, RootLeast
    <3>3. 1 \in 1..n
      BY <1>1, <2>2
    <3>4. Keys(cache)[1] = cache.entries[h].expiry /\ Keys(cache)[k] = cache.entries[w].expiry
      BY <3>1, <3>3 DEF Keys, Expiry
    <3>5. h \in Token
      BY <1>1, <3>3, HeapEntry
    <3> QED
      BY <3>2, <3>4, <3>5
  <2>4. /\ HeapOK(a) /\ Len(a.heap) < MaxCacheSize /\ a.entries[t] = Nil
        /\ \A u \in Token :
              IF full /\ u = h THEN a.entries[u] = Nil
              ELSE /\ a.entries[u] = Nil <=> cache.entries[u] = Nil
                   /\ cache.entries[u] # Nil =>
                         /\ a.entries[u].expiry = cache.entries[u].expiry
                         /\ a.entries[u].resp = cache.entries[u].resp
    <3>1. CASE full
      <4>1. /\ HeapOK(a) /\ Len(a.heap) = n - 1 /\ h \in Token /\ a.entries[h] = Nil
            /\ \A u \in Token : u # h =>
                  /\ a.entries[u] = Nil <=> cache.entries[u] = Nil
                  /\ cache.entries[u] # Nil => /\ a.entries[u].expiry = cache.entries[u].expiry
                                               /\ a.entries[u].resp = cache.entries[u].resp
        BY <3>1, <2>2, EvictKeeps
      <4> HIDE DEF a, h
      <4> QED
        BY <4>1, <3>1, <2>2, <1>1, <1>3
    <3>2. CASE ~ full
      <4>1. a = cache /\ n < MaxCacheSize
        BY <3>2, <1>1
      <4> HIDE DEF a, h, full
      <4> QED
        BY <4>1, <3>2, <1>3
    <3> QED
      BY <3>1, <3>2
  <2> HIDE DEF a, d, h
  <2>5. /\ HeapOK(d)
        /\ d.entries[t] # Nil /\ d.entries[t].resp = v /\ d.entries[t].expiry = x
        /\ \A u \in Token : u # t =>
              /\ d.entries[u] = Nil <=> a.entries[u] = Nil
              /\ a.entries[u] # Nil => /\ d.entries[u].expiry = a.entries[u].expiry
                                       /\ d.entries[u].resp = a.entries[u].resp
    BY <2>1, <2>4, PushKeeps
  <2> HIDE DEF full
  <2>6. ASSUME NEW u \in Token, u # t, d.entries[u] # Nil
        PROVE  /\ cache.entries[u] # Nil
               /\ d.entries[u].expiry = cache.entries[u].expiry
               /\ d.entries[u].resp = cache.entries[u].resp
    BY <2>4, <2>5, <2>6
  <2>7. ASSUME NEW u \in Token, cache.entries[u] # Nil, d.entries[u] = Nil
        PROVE  /\ n = MaxCacheSize
               /\ \A w \in Token : cache.entries[w] # Nil =>
                     cache.entries[u].expiry <= cache.entries[w].expiry
    <3>1. full /\ u = h
      BY <2>4, <2>5, <2>7
    <3> QED
      BY <3>1, <2>2, <2>3
  <2> QED
    BY <2>5, <2>6, <2>7 DEF d
<1> QED
  BY <1>2, <1>3

-----------------------------------------------------------------------------
(* The handler and its cache.                                              *)

\* Where a request is says what it has.
Placed ==
    \A r \in Request :
       /\ pc[r] # "idle" => token[r] \in Token
       /\ pc[r] \in {"get", "recheck", "set"} => Caching
       /\ pc[r] \in {"delete", "close"} => resp[r] # Nil
       /\ pc[r] = "set" => resp[r] \in Response
       /\ leader[r] # Nil => pc[r] = "follow"

\* TypeOK but for the cache, and Placed.
Steady ==
    /\ now \in 0..MaxTime /\ prompt \in BOOLEAN /\ arrived \in 0..MaxArrivals
    /\ calls \in [Token -> Request \cup {Nil}] /\ pc \in [Request -> PCs]
    /\ token \in [Request -> Token \cup {Nil}] /\ leader \in [Request -> Request \cup {Nil}]
    /\ resp \in [Request -> Response \cup {Invalid, Nil}] /\ expiry \in [Request -> Nat]
    /\ \A r \in Request : pc[r] = "set" \/ Has(r) => resp[r] # Nil
    /\ Placed

\* The inductive invariant of the cache.
Held == Steady /\ HeapOK(cache)

\* An empty cache, and nobody in the handler.
LEMMA HeldInit == Init => Held
<1> SUFFICES ASSUME Init PROVE Held
  OBVIOUS
<1>1. 0 \in 0..MaxTime /\ 0 \in 0..MaxArrivals /\ 0 \in Nat
  BY IntrospectAssumption DEF IntrospectAssumption
<1>2. Steady
  BY <1>1 DEF Init, Steady, Placed, Has, PCs
<1>3. cache \in Caches /\ Len(cache.heap) = 0
  <2>1. cache = [entries |-> [t \in Token |-> Nil], heap |-> << >>]
    BY DEF Init
  <2>2. [t \in Token |-> Nil] \in [Token -> Entry \cup {Nil}] /\ << >> \in Seq(Token)
    OBVIOUS
  <2> QED
    BY <2>1, <2>2 DEF Caches
<1>4. Consistent(cache)
  BY <1>3, IntrospectAssumption DEF Init, Consistent, IntrospectAssumption
<1>5. Ordered(Keys(cache), Len(cache.heap))
  BY <1>3 DEF Ordered
<1> QED
  BY <1>2, <1>4, <1>5 DEF Held, HeapOK

\* Leaving the handler keeps it.
LEMMA LeaveHolds ==
    ASSUME Steady, NEW r \in Request, Leave(r), UNCHANGED <<now, prompt, calls, arrived>>
    PROVE  Steady'
<1> USE DEF Steady, Placed, Leave, GoTo, Has
<1>1. "idle" \in PCs /\ 0 \in Nat
  BY DEF PCs
<1>2. /\ pc' \in [Request -> PCs] /\ token' \in [Request -> Token \cup {Nil}]
      /\ leader' \in [Request -> Request \cup {Nil}]
      /\ resp' \in [Request -> Response \cup {Invalid, Nil}] /\ expiry' \in [Request -> Nat]
  BY <1>1
<1>3. (\A q \in Request : pc[q] = "set" \/ Has(q) => resp[q] # Nil)'
  OBVIOUS
<1>4. Placed'
  BY DEF Caching
<1> QED
  BY <1>2, <1>3, <1>4

\* Every request that is not leaving keeps it.
LEMMA MoveHolds ==
    ASSUME Held, NEW r \in Request,
           \/ \E t \in Token : Arrive(r, t)
           \/ Miss(r) \/ Lead(r) \/ Follow(r) \/ Recheck(r)
           \/ \E v \in Answers : Introspect(r, v)
           \/ Delete(r) \/ Accept(r)
    PROVE  Steady'
<1>0. /\ Answers \subseteq Response \cup {Invalid}
      /\ Nil \notin Response \cup {Invalid} \cup Request \cup Token
      /\ MaxArrivals \in Nat /\ MaxTime \in Nat /\ CacheTTL \in Int /\ Exps \subseteq Nat
  <2>1. Answers \subseteq Response \cup {Invalid}
    BY DEF Held, Steady, Answers, Response
  <2> QED
    BY <2>1, IntrospectAssumption DEF IntrospectAssumption
<1>1. ASSUME NEW t \in Token, Arrive(r, t) PROVE Steady'
  <2> USE <1>0, <1>1 DEF Arrive, Held, Steady, Placed, GoTo, Has, PCs
  <2>1. /\ now' \in 0..MaxTime /\ prompt' \in BOOLEAN /\ arrived' \in 0..MaxArrivals
        /\ calls' \in [Token -> Request \cup {Nil}] /\ pc' \in [Request -> PCs]
        /\ token' \in [Request -> Token \cup {Nil}]
        /\ leader' \in [Request -> Request \cup {Nil}]
        /\ resp' \in [Request -> Response \cup {Invalid, Nil}] /\ expiry' \in [Request -> Nat]
    OBVIOUS
  <2>2. (\A q \in Request : pc[q] = "set" \/ Has(q) => resp[q] # Nil)'
    OBVIOUS
  <2>3. Placed'
    BY DEF Caching
  <2> QED
    BY <2>1, <2>2, <2>3
<1>2. CASE Miss(r)
  <2> USE <1>0, <1>2 DEF Miss, Held, Steady, Placed, GoTo, Has, PCs
  <2>1. /\ now' \in 0..MaxTime /\ prompt' \in BOOLEAN /\ arrived' \in 0..MaxArrivals
        /\ calls' \in [Token -> Request \cup {Nil}] /\ pc' \in [Request -> PCs]
        /\ token' \in [Request -> Token \cup {Nil}]
        /\ leader' \in [Request -> Request \cup {Nil}]
        /\ resp' \in [Request -> Response \cup {Invalid, Nil}] /\ expiry' \in [Request -> Nat]
    OBVIOUS
  <2>2. (\A q \in Request : pc[q] = "set" \/ Has(q) => resp[q] # Nil)'
    OBVIOUS
  <2>3. Placed'
    BY DEF Caching
  <2> QED
    BY <2>1, <2>2, <2>3
<1>3. CASE Lead(r)
  <2> USE <1>0, <1>3 DEF Lead, Held, Steady, Placed, GoTo, Has, PCs
  <2>1. /\ now' \in 0..MaxTime /\ prompt' \in BOOLEAN /\ arrived' \in 0..MaxArrivals
        /\ calls' \in [Token -> Request \cup {Nil}] /\ pc' \in [Request -> PCs]
        /\ token' \in [Request -> Token \cup {Nil}]
        /\ leader' \in [Request -> Request \cup {Nil}]
        /\ resp' \in [Request -> Response \cup {Invalid, Nil}] /\ expiry' \in [Request -> Nat]
    OBVIOUS
  <2>2. (\A q \in Request : pc[q] = "set" \/ Has(q) => resp[q] # Nil)'
    OBVIOUS
  <2>3. Placed'
    BY DEF Caching
  <2> QED
    BY <2>1, <2>2, <2>3
<1>4. CASE Follow(r)
  <2> USE <1>0, <1>4 DEF Follow, Held, Steady, Placed, GoTo, Has, PCs
  <2>1. /\ now' \in 0..MaxTime /\ prompt' \in BOOLEAN /\ arrived' \in 0..MaxArrivals
        /\ calls' \in [Token -> Request \cup {Nil}] /\ pc' \in [Request -> PCs]
        /\ token' \in [Request -> Token \cup {Nil}]
        /\ leader' \in [Request -> Request \cup {Nil}]
        /\ resp' \in [Request -> Response \cup {Invalid, Nil}] /\ expiry' \in [Request -> Nat]
    OBVIOUS
  <2>2. (\A q \in Request : pc[q] = "set" \/ Has(q) => resp[q] # Nil)'
    OBVIOUS
  <2>3. Placed'
    BY DEF Caching
  <2> QED
    BY <2>1, <2>2, <2>3
<1>5. CASE Recheck(r)
  <2> USE <1>0, <1>5 DEF Recheck, Held, Steady, Placed, GoTo, Has, PCs
  <2>0. Cached(token[r]) => cache.entries[token[r]].resp \in Response
    <3>1. token[r] \in Token /\ cache.entries \in [Token -> Entry \cup {Nil}]
      BY DEF HeapOK, Consistent, Caches
    <3> QED
      BY <3>1 DEF Cached, Entry
  <2>1. /\ now' \in 0..MaxTime /\ prompt' \in BOOLEAN /\ arrived' \in 0..MaxArrivals
        /\ calls' \in [Token -> Request \cup {Nil}] /\ pc' \in [Request -> PCs]
        /\ token' \in [Request -> Token \cup {Nil}]
        /\ leader' \in [Request -> Request \cup {Nil}]
        /\ resp' \in [Request -> Response \cup {Invalid, Nil}] /\ expiry' \in [Request -> Nat]
    BY <2>0
  <2>2. (\A q \in Request : pc[q] = "set" \/ Has(q) => resp[q] # Nil)'
    BY <2>0
  <2>3. Placed'
    BY <2>0 DEF Caching
  <2> QED
    BY <2>1, <2>2, <2>3
<1>6. ASSUME NEW v \in Answers, Introspect(r, v) PROVE Steady'
  <2> USE <1>0, <1>6 DEF Introspect, Held, Steady, Placed, GoTo, Has, PCs
  <2>1. /\ now' \in 0..MaxTime /\ prompt' \in BOOLEAN /\ arrived' \in 0..MaxArrivals
        /\ calls' \in [Token -> Request \cup {Nil}] /\ pc' \in [Request -> PCs]
        /\ token' \in [Request -> Token \cup {Nil}]
        /\ leader' \in [Request -> Request \cup {Nil}]
        /\ resp' \in [Request -> Response \cup {Invalid, Nil}] /\ expiry' \in [Request -> Nat]
    OBVIOUS
  <2>2. (\A q \in Request : pc[q] = "set" \/ Has(q) => resp[q] # Nil)'
    OBVIOUS
  <2>3. Placed'
    BY DEF Caching
  <2> QED
    BY <2>1, <2>2, <2>3
<1>7. CASE Delete(r)
  <2> USE <1>0, <1>7 DEF Delete, Held, Steady, Placed, GoTo, Has, PCs
  <2>1. /\ now' \in 0..MaxTime /\ prompt' \in BOOLEAN /\ arrived' \in 0..MaxArrivals
        /\ calls' \in [Token -> Request \cup {Nil}] /\ pc' \in [Request -> PCs]
        /\ token' \in [Request -> Token \cup {Nil}]
        /\ leader' \in [Request -> Request \cup {Nil}]
        /\ resp' \in [Request -> Response \cup {Invalid, Nil}] /\ expiry' \in [Request -> Nat]
    OBVIOUS
  <2>2. (\A q \in Request : pc[q] = "set" \/ Has(q) => resp[q] # Nil)'
    OBVIOUS
  <2>3. Placed'
    BY DEF Caching
  <2> QED
    BY <2>1, <2>2, <2>3
<1>8. CASE Accept(r)
  <2> USE <1>0, <1>8 DEF Accept, Held, Steady, Placed, GoTo, Has, PCs
  <2>0. resp[r] \in Response /\ Earlier(resp[r]) \in Nat
    <3>1. resp[r] \in Response
      OBVIOUS
    <3>2. resp[r].exp \in Nat
      BY ONLY <3>1, <1>0 DEF Response
    <3>3. now + CacheTTL \in Nat
      <4>1. now \in 0..MaxTime /\ CacheTTL > 0
        BY DEF Caching
      <4> QED
        BY ONLY <4>1, <1>0
    <3> QED
      BY ONLY <3>1, <3>2, <3>3 DEF Earlier
  <2>1. /\ now' \in 0..MaxTime /\ prompt' \in BOOLEAN /\ arrived' \in 0..MaxArrivals
        /\ calls' \in [Token -> Request \cup {Nil}] /\ pc' \in [Request -> PCs]
        /\ token' \in [Request -> Token \cup {Nil}]
        /\ leader' \in [Request -> Request \cup {Nil}]
        /\ resp' \in [Request -> Response \cup {Invalid, Nil}] /\ expiry' \in [Request -> Nat]
    BY <2>0
  <2>2. (\A q \in Request : pc[q] = "set" \/ Has(q) => resp[q] # Nil)'
    BY <2>0
  <2>3. Placed'
    BY <2>0 DEF Caching
  <2> QED
    BY <2>1, <2>2, <2>3
<1> QED
  BY <1>1, <1>2, <1>3, <1>4, <1>5, <1>6, <1>7, <1>8

\* So does the leader that closes its channel, whose result the followers take.
LEMMA CloseHolds ==
    ASSUME Steady, NEW r \in Request, Close(r)
    PROVE  Steady'
<1> USE DEF Steady, Placed, Close, GoTo, Has
<1>1. pc' \in [Request -> PCs] /\ pc' = [pc EXCEPT ![r] = "check"]
  BY DEF PCs
<1>2. /\ resp' \in [Request -> Response \cup {Invalid, Nil}] /\ resp[r] # Nil
      /\ leader' \in [Request -> Request \cup {Nil}]
  OBVIOUS
<1>3. \A q \in Request : /\ resp'[q] = IF leader[q] = r THEN resp[r] ELSE resp[q]
                         /\ leader'[q] = IF leader[q] = r THEN Nil ELSE leader[q]
  OBVIOUS
<1>4. r # Nil
  BY IntrospectAssumption DEF IntrospectAssumption
<1>5. (\A q \in Request : pc[q] = "set" \/ Has(q) => resp[q] # Nil)'
  BY <1>1, <1>2, <1>3, <1>4
<1>6. Placed'
  <2> SUFFICES ASSUME NEW q \in Request
               PROVE  /\ pc'[q] # "idle" => token'[q] \in Token
                      /\ pc'[q] \in {"get", "recheck", "set"} => Caching
                      /\ pc'[q] \in {"delete", "close"} => resp'[q] # Nil
                      /\ pc'[q] = "set" => resp'[q] \in Response
                      /\ leader'[q] # Nil => pc'[q] = "follow"
    BY DEF Caching
  <2>1. CASE q = r
    BY <2>1, <1>1, <1>2, <1>3, <1>4
  <2>2. CASE q # r
    BY <2>2, <1>1, <1>2, <1>3, <1>4
  <2> QED
    BY <2>1, <2>2
<1> QED
  BY <1>1, <1>2, <1>5, <1>6

\* Set is the only action that changes the cache.
LEMMA SetStores ==
    ASSUME Next, ~ \E r \in Request : Set(r) PROVE cache' = cache
BY DEF Next, Arrive, Hit, Miss, Lead, Follow, Recheck, Introspect, Delete, Close, Accept,
   Finish, GiveUp, Tick

\* What it stores, and where.
LEMMA SetHolds ==
    ASSUME Held, NEW r \in Request, Set(r)
    PROVE  /\ HeapOK(cache)
           /\ token[r] \in Token /\ resp[r] \in Response /\ expiry[r] \in Nat
           /\ cache' = Stored(token[r], resp[r], expiry[r]) /\ HeapOK(cache')
<1>1. /\ HeapOK(cache) /\ token[r] \in Token /\ resp[r] \in Response /\ expiry[r] \in Nat
      /\ cache' = Stored(token[r], resp[r], expiry[r])
  BY DEF Set, Held, Steady, Placed
<1> QED
  BY <1>1, StoredKeeps

\* Every step keeps it.
LEMMA HeldStep == Held /\ [Next]_vars => Held'
<1> SUFFICES ASSUME Held, [Next]_vars PROVE Held'
  OBVIOUS
<1>1. HeapOK(cache)'
  <2>1. CASE UNCHANGED vars
    BY <2>1 DEF vars, Held, HeapOK, Consistent, Keys, Expiry
  <2>2. CASE Next /\ \E r \in Request : Set(r)
    BY <2>2, SetHolds
  <2>3. CASE Next /\ ~ \E r \in Request : Set(r)
    BY <2>3, SetStores DEF Held
  <2> QED
    BY <2>1, <2>2, <2>3
<1>2. Steady'
  <2>1. CASE UNCHANGED vars
    BY <2>1 DEF vars, Held, Steady, Placed, Has, Caching
  <2>2. CASE Tick
    <3>1. now' \in 0..MaxTime
      BY <2>2, IntrospectAssumption DEF Tick, Held, Steady, IntrospectAssumption
    <3> QED
      BY <2>2, <3>1 DEF Tick, Held, Steady, Placed, Has, Caching
  <2>3. ASSUME NEW r \in Request, Hit(r) \/ Finish(r) \/ GiveUp(r) \/ Set(r) PROVE Steady'
    BY <2>3, LeaveHolds DEF Held, Hit, Finish, GiveUp, Set
  <2>4. ASSUME NEW r \in Request, Close(r) PROVE Steady'
    BY <2>4, CloseHolds DEF Held
  <2> QED
    BY <2>1, <2>2, <2>3, <2>4, MoveHolds DEF Next
<1> QED
  BY <1>1, <1>2 DEF Held

\* So it always holds.
LEMMA HeldAlways == Spec => []Held
BY HeldInit, HeldStep, PTL DEF Spec

\* The map and the heap of oauth2Cache hold the same tokens, never more than
\* MaxCacheSize, each at the position that its entry names, and no request reads a
\* call's result before the call has it: for any heap, of any depth.
THEOREM CacheExact == Spec => []CacheConsistent
<1>1. Held => CacheConsistent
  <2> SUFFICES ASSUME Held PROVE CacheConsistent
    OBVIOUS
  <2>1. Consistent(cache)
    BY DEF Held, HeapOK
  <2>2. TypeOK
    BY <2>1 DEF Held, Steady, TypeOK, Consistent, Caches
  <2> QED
    BY <2>1, <2>2 DEF CacheConsistent, Consistent
<1> QED
  BY <1>1, HeldAlways, PTL

\* evictOneLocked takes a token from the cache only if it is full, and then one
\* that expires first, for any heap, also after set has changed expiries in place.
THEOREM EarliestGoesFirst == Spec => EvictsEarliest
<1> DEFINE A == \A t \in Token : cache.entries[t] # Nil /\ cache'.entries[t] = Nil =>
                   /\ Len(cache.heap) = MaxCacheSize
                   /\ \A u \in Token : cache.entries[u] # Nil
                         => cache.entries[t].expiry <= cache.entries[u].expiry
<1>1. Held /\ [Next]_vars => [A]_vars
  <2> SUFFICES ASSUME Held, Next PROVE A
    OBVIOUS
  <2>1. CASE \E r \in Request : Set(r)
    BY <2>1, SetHolds, StoredKeeps
  <2>2. CASE ~ \E r \in Request : Set(r)
    BY <2>2, SetStores
  <2> QED
    BY <2>1, <2>2
<1> QED
  BY <1>1, HeldAlways, PTL DEF Spec, EvictsEarliest

-----------------------------------------------------------------------------
(* The age of answers.                                                     *)

\* An answer v kept until x is kept neither longer than the provider allows nor, if
\* requests move faster than the clock, longer than CacheTTL.
Lasting(v, x) == (v.exp # 0 => x <= v.exp) /\ (prompt => x <= v.at + CacheTTL)

\* What is kept, and what is about to be.
Kept ==
    /\ \A t \in Token : cache.entries[t] # Nil =>
          Lasting(cache.entries[t].resp, cache.entries[t].expiry)
    /\ \A r \in Request : pc[r] = "set" => Lasting(resp[r], expiry[r])

\* If requests move faster than the clock, the result that a request holds is of
\* this moment, and so is the entry that a leader may find when it looks again.
JustSaid(r) == (pc[r] \in {"delete", "close", "set"} \/ Has(r)) /\ resp[r] \in Response
                  => resp[r].at = now
JustStored(r) == pc[r] \in {"do", "recheck"} /\ Caching /\ Cached(token[r])
                    => cache.entries[token[r]].resp.at = now
Current == prompt => \A r \in Request : JustSaid(r) /\ JustStored(r)

\* The inductive invariant of the answers.
Recent == Kept /\ Current

\* Nothing is kept at the start.
LEMMA RecentInit == Init => Recent
BY IntrospectAssumption DEF IntrospectAssumption, Init, Recent, Kept, Current, JustSaid,
   JustStored, Has

\* One request's move, if the cache and the clock stay as they are.
LEMMA MoveRecent ==
    ASSUME Recent, NEW r \in Request, UNCHANGED <<now, prompt, cache>>,
           \A q \in Request : q # r =>
              /\ pc'[q] = pc[q] /\ token'[q] = token[q] /\ expiry'[q] = expiry[q]
              /\ resp'[q] = resp[q] /\ leader'[q] = leader[q],
           pc'[r] = "set" => Lasting(resp'[r], expiry'[r]),
           prompt => JustSaid(r)' /\ JustStored(r)'
    PROVE  Recent'
<1>1. Kept'
  <2>1. \A v, x : Lasting(v, x)' <=> Lasting(v, x)
    BY DEF Lasting
  <2>2. \A t \in Token : cache'.entries[t] # Nil =>
           Lasting(cache'.entries[t].resp, cache'.entries[t].expiry)
    BY DEF Recent, Kept
  <2>3. \A q \in Request : pc'[q] = "set" => Lasting(resp'[q], expiry'[q])
    BY DEF Recent, Kept
  <2> QED
    BY <2>1, <2>2, <2>3 DEF Kept, Lasting
<1>2. Current'
  <2> SUFFICES ASSUME prompt, NEW q \in Request PROVE JustSaid(q)' /\ JustStored(q)'
    BY DEF Current
  <2>1. JustSaid(q) /\ JustStored(q)
    BY DEF Recent, Current
  <2>2. CASE q = r
    BY <2>2
  <2>3. CASE q # r
    BY <2>1, <2>3 DEF JustSaid, JustStored, Has, Cached, Caching
  <2> QED
    BY <2>2, <2>3
<1> QED
  BY <1>1, <1>2 DEF Recent

\* Every step keeps it.
LEMMA RecentStep == Held /\ Recent /\ [Next]_vars => Recent'
<1> SUFFICES ASSUME Held, Recent, [Next]_vars PROVE Recent'
  OBVIOUS
<1> USE DEF GoTo
<1>0. /\ pc \in [Request -> PCs] /\ token \in [Request -> Token \cup {Nil}]
      /\ leader \in [Request -> Request \cup {Nil}]
      /\ resp \in [Request -> Response \cup {Invalid, Nil}] /\ expiry \in [Request -> Nat]
      /\ Nil \notin Request /\ Nil \notin Response
  BY IntrospectAssumption DEF Held, Steady, IntrospectAssumption
<1>1. ASSUME NEW r \in Request, NEW t \in Token, Arrive(r, t) PROVE Recent'
  <2>1. pc'[r] # "set" /\ JustSaid(r)' /\ JustStored(r)'
    BY <1>0, <1>1 DEF Arrive, JustSaid, JustStored, Has, Caching
  <2> QED
    BY <1>0, <1>1, <2>1, MoveRecent DEF Arrive
<1>2. ASSUME NEW r \in Request, Hit(r) \/ Finish(r) \/ GiveUp(r) PROVE Recent'
  <2>1. Leave(r) /\ UNCHANGED <<now, prompt, cache>>
    BY <1>2 DEF Hit, Finish, GiveUp
  <2>2. pc'[r] # "set" /\ JustSaid(r)' /\ JustStored(r)'
    BY <1>0, <2>1 DEF Leave, JustSaid, JustStored, Has
  <2> QED
    BY <1>0, <2>1, <2>2, MoveRecent DEF Leave
<1>3. ASSUME NEW r \in Request, Miss(r) PROVE Recent'
  <2>1. pc'[r] # "set" /\ JustSaid(r)' /\ JustStored(r)'
    BY <1>0, <1>3 DEF Miss, JustSaid, JustStored, Has, Cached
  <2> QED
    BY <1>0, <1>3, <2>1, MoveRecent DEF Miss
<1>4. ASSUME NEW r \in Request, Lead(r) PROVE Recent'
  <2>1. pc'[r] # "set" /\ JustSaid(r)'
    BY <1>0, <1>4 DEF Lead, JustSaid, Has
  <2>2. prompt => JustStored(r)'
    BY <1>0, <1>4 DEF Lead, Recent, Current, JustStored, Cached, Caching
  <2> QED
    BY <1>0, <1>4, <2>1, <2>2, MoveRecent DEF Lead
<1>5. ASSUME NEW r \in Request, Follow(r) PROVE Recent'
  <2>1. calls[token[r]] # Nil
    BY <1>5 DEF Follow
  <2>2. pc'[r] # "set" /\ JustSaid(r)' /\ JustStored(r)'
    BY <1>0, <1>5, <2>1 DEF Follow, JustSaid, JustStored, Has
  <2> QED
    BY <1>0, <1>5, <2>2, MoveRecent DEF Follow
<1>6. ASSUME NEW r \in Request, Recheck(r) PROVE Recent'
  <2>1. Caching
    BY <1>6 DEF Recheck, Held, Steady, Placed
  <2>2. prompt /\ Cached(token[r]) => cache.entries[token[r]].resp.at = now
    BY <1>6, <2>1 DEF Recheck, Recent, Current, JustStored
  <2>3. pc'[r] # "set" /\ JustStored(r)'
    BY <1>0, <1>6 DEF Recheck, JustStored
  <2>4. prompt => JustSaid(r)'
    BY <1>0, <1>6, <2>2 DEF Recheck, JustSaid, Has
  <2> QED
    BY <1>0, <1>6, <2>3, <2>4, MoveRecent DEF Recheck
<1>7. ASSUME NEW r \in Request, NEW v \in Answers, Introspect(r, v) PROVE Recent'
  <2>1. v \in Response => v.at = now
    BY DEF Answers, Response, Invalid
  <2>2. pc'[r] # "set" /\ JustSaid(r)' /\ JustStored(r)'
    BY <1>0, <1>7, <2>1 DEF Introspect, JustSaid, JustStored, Has
  <2> QED
    BY <1>0, <1>7, <2>2, MoveRecent DEF Introspect
<1>8. ASSUME NEW r \in Request, Delete(r) PROVE Recent'
  <2>1. prompt => JustSaid(r)
    BY DEF Recent, Current
  <2>2. pc'[r] # "set" /\ (prompt => JustSaid(r)') /\ JustStored(r)'
    BY <1>0, <1>8, <2>1 DEF Delete, JustSaid, JustStored, Has
  <2> QED
    BY <1>0, <1>8, <2>2, MoveRecent DEF Delete
<1>9. ASSUME NEW r \in Request, Accept(r) PROVE Recent'
  <2>1. resp[r] \in Response /\ Has(r)
    BY <1>0, <1>9 DEF Accept, Held, Steady
  <2>2. prompt => resp[r].at = now
    BY <2>1 DEF Recent, Current, JustSaid
  <2>3. Lasting(resp[r], Earlier(resp[r]))
    <3>1. resp[r].exp \in Int /\ now \in Int /\ CacheTTL \in Int
      <4>1. now \in 0..MaxTime /\ MaxTime \in Nat /\ CacheTTL \in Int /\ Exps \subseteq Nat
        BY IntrospectAssumption DEF Held, Steady, IntrospectAssumption
      <4>2. resp[r].exp \in Exps
        BY <2>1 DEF Response
      <4>3. now \in Int
        BY ONLY <4>1
      <4>4. resp[r].exp \in Nat
        BY ONLY <4>1, <4>2
      <4> QED
        BY <4>1, <4>3, <4>4
    <3> QED
      BY <2>2, <3>1 DEF Lasting, Earlier
  <2>4. /\ pc' = [pc EXCEPT ![r] = "set"] /\ resp' = resp
        /\ expiry' = [expiry EXCEPT ![r] = Earlier(resp[r])]
        /\ UNCHANGED <<now, prompt, cache, token, leader>>
    BY <1>9 DEF Accept
  <2>5. Lasting(resp'[r], expiry'[r])
    BY <1>0, <2>3, <2>4
  <2>6. prompt => JustSaid(r)' /\ JustStored(r)'
    BY <1>0, <2>2, <2>4 DEF JustSaid, JustStored
  <2> QED
    BY <1>0, <2>4, <2>5, <2>6, MoveRecent
<1>10. ASSUME NEW r \in Request, Close(r) PROVE Recent'
  <2>1. /\ pc' = [pc EXCEPT ![r] = "check"] /\ pc[r] = "close"
        /\ UNCHANGED <<now, prompt, cache, token, expiry>>
        /\ \A q \in Request : /\ resp'[q] = IF leader[q] = r THEN resp[r] ELSE resp[q]
                              /\ leader'[q] = IF leader[q] = r THEN Nil ELSE leader[q]
    BY <1>10 DEF Close
  <2>2. \A q \in Request : leader[q] # Nil => pc[q] = "follow"
    BY DEF Held, Steady, Placed
  <2>3. Kept'
    <3>1. \A q \in Request : pc'[q] = "set" => Lasting(resp[q], expiry[q]) /\ resp'[q] = resp[q]
      BY <1>0, <2>1, <2>2 DEF Recent, Kept
    <3>2. \A t \in Token : cache.entries[t] # Nil =>
             Lasting(cache.entries[t].resp, cache.entries[t].expiry)
      BY DEF Recent, Kept
    <3> QED
      BY <2>1, <3>1, <3>2 DEF Kept, Lasting
  <2>4. Current'
    <3> SUFFICES ASSUME prompt, NEW q \in Request PROVE JustSaid(q)' /\ JustStored(q)'
      BY <2>1 DEF Current
    <3>1. JustSaid(q) /\ JustStored(q) /\ JustSaid(r)
      BY DEF Recent, Current
    <3>2. JustStored(q)'
      BY <1>0, <2>1, <3>1 DEF JustStored, Cached, Caching
    <3>3. CASE q = r \/ leader[q] = r
      <4>1. resp'[q] = resp[r]
        BY <2>1, <3>3
      <4>2. resp[r] \in Response => resp[r].at = now
        BY <2>1, <3>1 DEF JustSaid
      <4> QED
        BY <4>1, <4>2, <2>1, <3>2 DEF JustSaid
    <3>4. CASE q # r /\ leader[q] # r
      <4>1. resp'[q] = resp[q] /\ leader'[q] = leader[q] /\ pc'[q] = pc[q]
        BY <1>0, <2>1, <3>4
      <4>2. Has(q)' <=> Has(q)
        BY <4>1 DEF Has
      <4> QED
        BY <4>1, <4>2, <2>1, <3>1, <3>2 DEF JustSaid
    <3> QED
      BY <3>2, <3>3, <3>4
  <2> QED
    BY <2>3, <2>4 DEF Recent
<1>11. ASSUME NEW r \in Request, Set(r) PROVE Recent'
  <2> DEFINE t == token[r]
             d == cache'
  <2>1. /\ t \in Token /\ d.entries[t] # Nil
        /\ d.entries[t].resp = resp[r] /\ d.entries[t].expiry = expiry[r]
        /\ resp[r] \in Response
        /\ \A u \in Token : u # t /\ d.entries[u] # Nil =>
              /\ cache.entries[u] # Nil
              /\ d.entries[u].expiry = cache.entries[u].expiry
              /\ d.entries[u].resp = cache.entries[u].resp
    BY <1>11, SetHolds, StoredKeeps
  <2>2. /\ pc[r] = "set" /\ UNCHANGED <<now, prompt>> /\ pc' = [pc EXCEPT ![r] = "idle"]
        /\ \A q \in Request : q # r =>
              /\ pc'[q] = pc[q] /\ token'[q] = token[q] /\ expiry'[q] = expiry[q]
              /\ resp'[q] = resp[q] /\ leader'[q] = leader[q]
    BY <1>11 DEF Set, Leave
  <2> HIDE DEF t, d
  <2>3. Kept'
    <3>1. Lasting(resp[r], expiry[r])
      BY <2>2 DEF Recent, Kept
    <3>2. \A u \in Token : d.entries[u] # Nil => Lasting(d.entries[u].resp, d.entries[u].expiry)
      BY <2>1, <3>1 DEF Recent, Kept
    <3>3. \A q \in Request : pc'[q] = "set" => Lasting(resp'[q], expiry'[q])
      BY <1>0, <2>2 DEF Recent, Kept
    <3> QED
      BY <2>2, <3>2, <3>3 DEF Kept, Lasting, d
  <2>4. Current'
    <3> SUFFICES ASSUME prompt, NEW q \in Request PROVE JustSaid(q)' /\ JustStored(q)'
      BY <2>2 DEF Current
    <3>1. JustSaid(q) /\ JustStored(q) /\ JustSaid(r)
      BY DEF Recent, Current
    <3>2. CASE q = r
      BY <1>0, <2>2, <3>2 DEF JustSaid, JustStored, Has
    <3>3. CASE q # r
      <4>1. JustSaid(q)'
        BY <2>2, <3>1, <3>3 DEF JustSaid, Has
      <4>2. ASSUME pc[q] \in {"do", "recheck"}, Caching, d.entries[token[q]] # Nil,
                   ~ now > d.entries[token[q]].expiry
            PROVE  d.entries[token[q]].resp.at = now
        <5>1. token[q] \in Token
          BY <4>2 DEF Held, Steady, Placed
        <5>2. CASE token[q] = t
          BY <5>2, <2>1, <2>2, <3>1 DEF JustSaid
        <5>3. CASE token[q] # t
          BY <5>1, <5>3, <4>2, <2>1, <3>1 DEF JustStored, Cached
        <5> QED
          BY <5>2, <5>3
      <4>3. JustStored(q)'
        BY <2>2, <3>3, <4>2 DEF JustStored, Cached, Caching, d
      <4> QED
        BY <4>1, <4>3
    <3> QED
      BY <3>2, <3>3
  <2> QED
    BY <2>3, <2>4 DEF Recent
<1>12. CASE Tick
  <2>1. /\ UNCHANGED <<prompt, cache, pc, token, leader, resp, expiry>>
        /\ prompt => \A r \in Request : AtRest(r)
    BY <1>12 DEF Tick
  <2>2. Kept'
    BY <2>1 DEF Recent, Kept, Lasting
  <2>3. Current'
    BY <2>1 DEF Current, JustSaid, JustStored, AtRest, Has
  <2> QED
    BY <2>2, <2>3 DEF Recent
<1>13. CASE UNCHANGED vars
  BY <1>13 DEF vars, Recent, Kept, Lasting, Current, JustSaid, JustStored, Has, Cached, Caching
<1> QED
  BY <1>1, <1>2, <1>3, <1>4, <1>5, <1>6, <1>7, <1>8, <1>9, <1>10, <1>11, <1>12, <1>13 DEF Next

\* What get, or the leader's second look, finds has not expired by what the provider
\* said, nor, if requests move faster than the clock, was it said longer than
\* CacheTTL ago.
THEOREM AnswersAreFresh == Spec => CacheFresh
<1> DEFINE A == \A r \in Request :
                   \/ pc[r] = "get" /\ pc'[r] \notin {"get", "do"}
                   \/ pc[r] = "recheck" /\ pc'[r] = "delete"
                   => LET v == cache.entries[token[r]].resp
                      IN  /\ v.exp # 0 => now <= v.exp
                          /\ prompt => now <= v.at + CacheTTL
<1>1. Held /\ Recent /\ [Next]_vars => [A]_vars
  <2> SUFFICES ASSUME Held, Recent, Next, NEW r \in Request,
                      \/ pc[r] = "get" /\ pc'[r] \notin {"get", "do"}
                      \/ pc[r] = "recheck" /\ pc'[r] = "delete"
               PROVE  LET v == cache.entries[token[r]].resp
                      IN  /\ v.exp # 0 => now <= v.exp
                          /\ prompt => now <= v.at + CacheTTL
    OBVIOUS
  <2>1. pc \in [Request -> PCs]
    BY DEF Held, Steady
  <2>2. Cached(token[r])
    BY <2>1 DEF Next, Arrive, Hit, Miss, Lead, Follow, Recheck, Introspect, Delete, Close, Accept,
       Finish, GiveUp, Set, Tick, Leave, GoTo, Has
  <2>3. token[r] \in Token
    BY DEF Held, Steady, Placed
  <2> DEFINE e == cache.entries[token[r]]
  <2>4. Lasting(e.resp, e.expiry) /\ ~ now > e.expiry
    BY <2>2, <2>3 DEF Recent, Kept, Cached
  <2>5. e \in Entry
    BY <2>2, <2>3 DEF Cached, Held, HeapOK, Consistent, Caches
  <2>6. /\ now \in Nat /\ e.expiry \in Nat /\ e.resp.exp \in Int /\ e.resp.at \in Int
        /\ CacheTTL \in Int
    <3>1. now \in 0..MaxTime /\ MaxTime \in Nat /\ CacheTTL \in Int /\ Exps \subseteq Nat
      BY IntrospectAssumption DEF Held, Steady, IntrospectAssumption
    <3>2. e.expiry \in Nat /\ e.resp \in Response
      BY <2>5 DEF Entry
    <3>3. e.resp.exp \in Exps /\ e.resp.at \in 0..MaxTime
      BY <3>2 DEF Response
    <3>4. now \in Nat /\ e.resp.at \in Int
      BY ONLY <3>1, <3>3
    <3>5. e.resp.exp \in Nat
      BY ONLY <3>1, <3>3
    <3> QED
      BY <3>1, <3>2, <3>4, <3>5
  <2> HIDE DEF e
  <2> QED
    BY <2>4, <2>6 DEF Lasting, e
<1>2. Spec => []Recent
  BY RecentInit, RecentStep, HeldAlways, PTL DEF Spec
<1> QED
  BY <1>1, <1>2, HeldAlways, PTL DEF Spec, CacheFresh
=============================================================================
