------------------------- MODULE ThrottleTableProofs -------------------------
(***************************************************************************)
(* ThrottlePerIPCapped keeps its table exact and runs at most Limit        *)
(* handlers for a key: for any number of requests, keys, shards and        *)
(* entries, and any bound on the table.                                    *)
(***************************************************************************)
EXTENDS ThrottleTable, FiniteSetTheorems, TLAPS

USE TableAssumption DEF TableAssumption

Users   == {"take", "wait", "run", "decRefs"}    \* have a reference to an entry,
Leaving == {"unreserve", "recycle"}              \* gave the last one back,
Locked  == {"reserve", "rollback", "insert"}     \* hold the mutex of their shard
Counted == {"rollback", "insert", "unreserve"}   \* are in size beside the table's keys
At(S) == {p \in Request : pc[p] \in S}

\* What a request has at each point of its code: a user the entry of its key, one that
\* holds a mutex a key that nobody inserted meanwhile.
Places ==
    \A p \in Request :
        /\ pc[p] # "idle" => key[p] \in Key
        /\ pc[p] \in Users => table[key[p]] # Nil /\ ent[p] = table[key[p]]
        /\ pc[p] \in Leaving => ent[p] # Nil
        /\ pc[p] \notin Users \cup Leaving => ent[p] = Nil
        /\ pc[p] \in Locked => mu[Mutex(p)] = p /\ table[key[p]] = Nil
        /\ MaxTableSize = 0 => pc[p] \notin {"reserve", "rollback", "unreserve"}

\* An entry has one owner: a key of the table, a request that is about to give it to
\* the pool, or the pool.
Owners ==
    /\ \A k, l \in Key : table[k] # Nil /\ table[k] = table[l] => k = l
    /\ \A p \in Request : pc[p] \in Leaving =>
          /\ \A k \in Key : table[k] # ent[p]
          /\ \A q \in Request : pc[q] \in Leaving /\ ent[p] = ent[q] => p = q
    /\ \A e \in entryPool : /\ \A k \in Key : table[k] # e
                            /\ \A p \in Request : ent[p] # e

\* No token of a key in the table is lost or made: those that are not in the channel
\* are with the handlers that run.
TokensExact ==
    \A k \in Key : table[k] # Nil =>
        tokens[table[k]] + Cardinality(With(k, {"run"})) = Limit

\* Keys that are in the table, are about to be, or still count though they are gone.
SizeBounded ==
    MaxTableSize > 0 =>
        Cardinality(Live) + Cardinality(At({"insert", "unreserve"})) <= MaxTableSize

SizeExact == MaxTableSize > 0 => size = Cardinality(Live) + Cardinality(At(Counted))

\* The inductive invariant.
Inv == /\ TypeOK /\ Places /\ Owners /\ TokensExact /\ RefsExact /\ RecycledFull
       /\ SizeBounded /\ SizeExact

\* One step of the program: of a request, or of the pool.
Steps(p) == (\E k \in Key : Arrive(p, k)) \/ Progress(p) \/ Timeout(p)

-----------------------------------------------------------------------------
(* Counting requests and keys.                                             *)

\* Sets of requests are finite.
LEMMA CardNat == ASSUME NEW S \in SUBSET Request
                 PROVE  IsFiniteSet(S) /\ Cardinality(S) \in Nat
BY FS_Subset, FS_CardinalityType

\* What a step of p, which changes nothing of the others, does to the number of the
\* requests in a set S that becomes T.
LEMMA Recount ==
    ASSUME NEW S \in SUBSET Request, NEW T \in SUBSET Request, NEW p \in Request,
           \A q \in Request \ {p} : q \in S <=> q \in T
    PROVE  /\ (p \in S <=> p \in T) => T = S /\ Cardinality(T) = Cardinality(S)
           /\ p \notin S /\ p \in T => Cardinality(T) = Cardinality(S) + 1
           /\ p \in S /\ p \notin T => Cardinality(T) = Cardinality(S) - 1
<1>1. (p \in S <=> p \in T) => T = S
  OBVIOUS
<1>2. p \notin S /\ p \in T => T = S \cup {p}
  OBVIOUS
<1>3. p \in S /\ p \notin T => T = S \ {p}
  OBVIOUS
<1> QED
  BY <1>1, <1>2, <1>3, CardNat, FS_AddElement, FS_RemoveElement

\* The others stay where they are.
OthersStay(p) == \A q \in Request \ {p} : pc'[q] = pc[q] /\ key'[q] = key[q] /\ ent'[q] = ent[q]

\* A step of p moves no other request and leaves its key and its entry.
LEMMA OthersStayPut ==
    ASSUME TypeOK, NEW p \in Request, Steps(p)
    PROVE  OthersStay(p)
<1> USE DEF TypeOK, OthersStay, GoTo, Leave
<1>1. CASE \E k \in Key : Arrive(p, k)
  BY <1>1 DEF Arrive
<1>2. CASE Found(p) \/ Missing(p) \/ Reserve(p) \/ Rollback(p)
  BY <1>2 DEF Found, Missing, Reserve, Rollback
<1>3. CASE Insert(p)
  BY <1>3 DEF Insert
<1>4. CASE Take(p) \/ TakeLate(p) \/ Return(p) \/ Timeout(p)
  BY <1>4 DEF Take, TakeLate, Return, Timeout
<1>5. CASE DecRefs(p) \/ Unreserve(p) \/ Recycle(p)
  BY <1>5 DEF DecRefs, Unreserve, Recycle
<1> QED
  BY <1>1, <1>2, <1>3, <1>4, <1>5 DEF Steps, Progress

\* What a step of p does to the number of the requests of key k at places S.
LEMMA WithMoves ==
    ASSUME NEW p \in Request, OthersStay(p), NEW k \in Key, NEW S
    PROVE  LET before == key[p] = k /\ pc[p] \in S
               after  == key'[p] = k /\ pc'[p] \in S
           IN  /\ (before <=> after) => With(k, S)' = With(k, S)
               /\ ~ before /\ after => Cardinality(With(k, S)') = Cardinality(With(k, S)) + 1
               /\ before /\ ~ after => Cardinality(With(k, S)') = Cardinality(With(k, S)) - 1
<1>1. With(k, S) \in SUBSET Request /\ With(k, S)' \in SUBSET Request
  BY DEF With
<1>2. \A q \in Request \ {p} : q \in With(k, S) <=> q \in With(k, S)'
  BY DEF With, OthersStay
<1>3. (p \in With(k, S) <=> key[p] = k /\ pc[p] \in S)
      /\ (p \in With(k, S)' <=> key'[p] = k /\ pc'[p] \in S)
  BY DEF With
<1>4. LET A == With(k, S)
          B == With(k, S)'
      IN  /\ (p \in A <=> p \in B) => B = A
          /\ p \notin A /\ p \in B => Cardinality(B) = Cardinality(A) + 1
          /\ p \in A /\ p \notin B => Cardinality(B) = Cardinality(A) - 1
  BY <1>1, <1>2, Recount
<1> QED
  BY <1>3, <1>4

\* What it does to the number of all the requests at places S.
LEMMA AtMoves ==
    ASSUME NEW p \in Request, OthersStay(p), NEW S
    PROVE  /\ (pc[p] \in S <=> pc'[p] \in S) => Cardinality(At(S)') = Cardinality(At(S))
           /\ pc[p] \notin S /\ pc'[p] \in S => Cardinality(At(S)') = Cardinality(At(S)) + 1
           /\ pc[p] \in S /\ pc'[p] \notin S => Cardinality(At(S)') = Cardinality(At(S)) - 1
<1>1. At(S) \in SUBSET Request /\ At(S)' \in SUBSET Request
  BY DEF At
<1>2. \A q \in Request \ {p} : q \in At(S) <=> q \in At(S)'
  BY DEF At, OthersStay
<1>3. (p \in At(S) <=> pc[p] \in S) /\ (p \in At(S)' <=> pc'[p] \in S)
  BY DEF At
<1> QED
  BY <1>1, <1>2, <1>3, Recount

-----------------------------------------------------------------------------
(* What a request has, and who owns an entry.                              *)

\* The table starts empty and the pool with nothing.
LEMMA InvInit == Init => Inv
<1> SUFFICES ASSUME Init PROVE Inv
  OBVIOUS
<1>1. Live = {} /\ At(Counted) = {} /\ At({"insert", "unreserve"}) = {}
  BY DEF Init, Live, At, Counted
<1>2. TypeOK /\ Places /\ Owners
  BY DEF Init, TypeOK, PCs, Places, Owners, Users, Leaving, Locked, Mutex
<1>3. TokensExact /\ RefsExact /\ RecycledFull
  BY DEF Init, TokensExact, RefsExact, RecycledFull, With
<1>4. SizeBounded /\ SizeExact
  <2>1. Cardinality(Live) = 0 /\ Cardinality(At(Counted)) = 0
        /\ Cardinality(At({"insert", "unreserve"})) = 0 /\ size = 0
    BY <1>1, FS_EmptySet DEF Init
  <2> QED
    BY <2>1 DEF SizeBounded, SizeExact
<1> QED
  BY <1>2, <1>3, <1>4 DEF Inv

\* The size is a number after it is counted down.
LEMMA SizePositive ==
    ASSUME Inv, NEW p \in Request, pc[p] \in {"rollback", "unreserve"}
    PROVE  size > 0
<1>1. MaxTableSize > 0
  BY DEF Inv, Places
<1>2. p \in At(Counted) /\ At(Counted) \in SUBSET Request
  BY DEF At, Counted
<1>3. Cardinality(At(Counted)) \in Nat /\ Cardinality(At(Counted)) # 0
  BY <1>2, CardNat, FS_EmptySet
<1>4. Cardinality(Live) \in Nat
  BY FS_Subset, FS_CardinalityType, Live \in SUBSET Key DEF Live
<1> QED
  BY <1>1, <1>3, <1>4 DEF Inv, SizeExact

\* Steps keep the types.
LEMMA TypeStep == ASSUME Inv, NEW p \in Request, Steps(p) PROVE TypeOK'
<1> USE DEF Inv, TypeOK, PCs, GoTo, Leave, Unlock
<1>k. pc[p] # "idle" => key[p] \in Key /\ Mutex(p) \in Shard
  BY DEF Places, Mutex
<1>e. pc[p] \in Users \cup Leaving => ent[p] \in Entry
  BY DEF Places, Users, Leaving
<1>1. CASE \E k \in Key : Arrive(p, k)
  BY <1>1 DEF Arrive
<1>2. CASE Found(p)
  BY <1>2, <1>k DEF Found
<1>3. CASE Missing(p)
  BY <1>3, <1>k DEF Missing
<1>4. CASE Reserve(p)
  BY <1>4 DEF Reserve
<1>5. CASE Rollback(p)
  BY <1>5, <1>k, SizePositive DEF Rollback
<1>6. CASE Insert(p)
  <2>1. PICK e \in entryPool \cup Unused :
          /\ table' = [table EXCEPT ![key[p]] = e]
          /\ entryPool' = entryPool \ {e}
          /\ tokens' = IF e \in entryPool THEN tokens ELSE [tokens EXCEPT ![e] = Limit]
          /\ refs' = [refs EXCEPT ![e] = 1]
          /\ ent' = [ent EXCEPT ![p] = e]
    BY <1>6 DEF Insert
  <2>2. e \in Entry
    BY DEF Unused
  <2> QED
    BY <1>6, <1>k, <2>1, <2>2 DEF Insert
<1>7. CASE Take(p)
  BY <1>7, <1>e DEF Take, Users
<1>8. CASE TakeLate(p)
  BY <1>8, <1>e DEF TakeLate, Users
<1>9. CASE Timeout(p)
  BY <1>9 DEF Timeout
<1>10. CASE Return(p)
  BY <1>10, <1>e DEF Return, Users
<1>11. CASE DecRefs(p)
  <2>1. refs[ent[p]] > 0 /\ ent[p] \in Entry
    BY <1>11, <1>e, <1>k DEF DecRefs, RefsExact, Places, Users
  <2> QED
    BY <1>11, <1>k, <2>1 DEF DecRefs
<1>12. CASE Unreserve(p)
  BY <1>12, SizePositive DEF Unreserve
<1>13. CASE Recycle(p)
  BY <1>13, <1>e DEF Recycle, Leaving
<1> QED
  BY <1>1, <1>2, <1>3, <1>4, <1>5, <1>6, <1>7, <1>8, <1>9, <1>10, <1>11, <1>12, <1>13
     DEF Steps, Progress

\* An entry that Insert takes is nobody's, and what it does with it.
Inserts(p, e) ==
    /\ e \in entryPool \cup Unused
    /\ table' = [table EXCEPT ![key[p]] = e]
    /\ entryPool' = entryPool \ {e}
    /\ tokens' = IF e \in entryPool THEN tokens ELSE [tokens EXCEPT ![e] = Limit]
    /\ refs' = [refs EXCEPT ![e] = 1]
    /\ ent' = [ent EXCEPT ![p] = e]

\* The entry that is put in the table, recycled or new, belonged to nobody.
LEMMA InsertsNobodys ==
    ASSUME Inv, NEW p \in Request, Insert(p)
    PROVE  \E e \in Entry :
              /\ Inserts(p, e)
              /\ \A k \in Key : table[k] # e
              /\ \A q \in Request : ent[q] # e
<1>1. PICK e \in entryPool \cup Unused : Inserts(p, e)
  BY DEF Insert, Inserts
<1>2. e \in Entry /\ (\A k \in Key : table[k] # e) /\ (\A q \in Request : ent[q] # e)
  BY <1>1 DEF Unused, Inv, TypeOK, Owners
<1> QED
  BY <1>1, <1>2

\* Who gives the last reference back is the only one that had one.
LEMMA LastUser ==
    ASSUME Inv, NEW p \in Request, pc[p] = "decRefs", refs[ent[p]] = 1
    PROVE  With(key[p], Users) = {p}
<1> DEFINE S == With(key[p], Users)
<1>1. S \in SUBSET Request /\ p \in S
  BY DEF With, Users
<1>2. Cardinality(S) = 1
  BY DEF Inv, Places, RefsExact, Users
<1>3. Cardinality(S \ {p}) = 0 /\ IsFiniteSet(S \ {p})
  BY <1>1, <1>2, CardNat, FS_RemoveElement
<1>4. S \ {p} = {}
  BY <1>3, FS_EmptySet
<1> QED
  BY <1>1, <1>4

\* Steps keep what each request has at its place in the code.
LEMMA PlacesStep == ASSUME Inv, NEW p \in Request, Steps(p) PROVE Places'
<1> USE DEF Inv, TypeOK, Users, Leaving, Locked
<1>0. OthersStay(p)
  BY OthersStayPut
<1>p. Places /\ key \in [Request -> Key \cup {Nil}] /\ pc \in [Request -> PCs]
  OBVIOUS
<1> USE DEF Places, Mutex, GoTo, OthersStay, Leave, Unlock
<1>1. CASE \E k \in Key : Arrive(p, k)
  BY <1>1, <1>0 DEF Arrive
<1>2. CASE Found(p)
  BY <1>2, <1>0 DEF Found
<1>3. CASE Missing(p)
  BY <1>3, <1>0 DEF Missing
<1>4. CASE Reserve(p)
  BY <1>4, <1>0 DEF Reserve
<1>5. CASE Rollback(p)
  BY <1>5, <1>0 DEF Rollback
<1>6. CASE Insert(p)
  <2>1. PICK e \in Entry : Inserts(p, e)
    BY <1>6, InsertsNobodys
  <2> QED
    BY <1>6, <1>0, <2>1 DEF Insert, Inserts
<1>7. CASE Take(p) \/ TakeLate(p) \/ Timeout(p) \/ Return(p)
  BY <1>7, <1>0 DEF Take, TakeLate, Timeout, Return
<1>8. CASE DecRefs(p)
  <2>1. CASE refs[ent[p]] = 1
    <3>1. \A q \in Request \ {p} : pc[q] \in Users => key[q] # key[p]
      BY <1>8, <2>1, LastUser DEF DecRefs, With
    <3> QED
      BY <1>8, <1>0, <2>1, <3>1 DEF DecRefs
  <2>2. CASE refs[ent[p]] # 1
    BY <1>8, <1>0, <2>2 DEF DecRefs
  <2> QED
    BY <2>1, <2>2
<1>9. CASE Unreserve(p)
  BY <1>9, <1>0 DEF Unreserve
<1>10. CASE Recycle(p)
  BY <1>10, <1>0 DEF Recycle
<1> QED
  BY <1>1, <1>2, <1>3, <1>4, <1>5, <1>6, <1>7, <1>8, <1>9, <1>10 DEF Steps, Progress

\* Steps leave every entry one owner.
LEMMA OwnersStep == ASSUME Inv, NEW p \in Request, Steps(p) PROVE Owners'
<1> USE DEF Inv, TypeOK, Users, Leaving
<1>0. OthersStay(p)
  BY OthersStayPut
<1> USE DEF Owners, GoTo, OthersStay, Leave
<1>1. CASE \E k \in Key : Arrive(p, k)
  BY <1>1, <1>0 DEF Arrive
<1>2. CASE Found(p)
  BY <1>2, <1>0 DEF Found, Places
<1>3. CASE Missing(p) \/ Reserve(p)
  BY <1>3, <1>0 DEF Missing, Reserve
<1>5. CASE Rollback(p)
  BY <1>5, <1>0 DEF Rollback
<1>6. CASE Insert(p)
  <2>1. PICK e \in Entry : /\ Inserts(p, e)
                           /\ \A k \in Key : table[k] # e
                           /\ \A q \in Request : ent[q] # e
    BY <1>6, InsertsNobodys
  <2> QED
    BY <1>6, <1>0, <2>1 DEF Insert, Inserts, Places
<1>7. CASE Take(p) \/ TakeLate(p) \/ Timeout(p) \/ Return(p)
  BY <1>7, <1>0 DEF Take, TakeLate, Timeout, Return
<1>8. CASE DecRefs(p)
  BY <1>8, <1>0 DEF DecRefs, Places
<1>9. CASE Unreserve(p)
  BY <1>9, <1>0 DEF Unreserve
<1>10. CASE Recycle(p)
  BY <1>10, <1>0 DEF Recycle, Places
<1> QED
  BY <1>1, <1>2, <1>3, <1>5, <1>6, <1>7, <1>8, <1>9, <1>10 DEF Steps, Progress

-----------------------------------------------------------------------------
(* References.                                                             *)

\* Sets of requests of a key are finite.
LEMMA WithNat == \A k, S : /\ With(k, S) \in SUBSET Request /\ IsFiniteSet(With(k, S))
                           /\ Cardinality(With(k, S)) \in Nat
<1> TAKE k, S
<1>1. With(k, S) \in SUBSET Request
  BY DEF With
<1> QED
  BY <1>1, CardNat

\* The references of one key.
RefsOf(k) == IF table[k] = Nil THEN With(k, Users) = {}
             ELSE /\ refs[table[k]] = Cardinality(With(k, Users))
                  /\ refs[table[k]] > 0

\* The references are exact if they are for each key.
LEMMA RefsByKey == /\ RefsExact <=> \A k \in Key : RefsOf(k)
                   /\ RefsExact' <=> \A k \in Key : RefsOf(k)'
BY DEF RefsExact, RefsOf, Users

\* Steps count references exactly.
LEMMA RefsStep == ASSUME Inv, NEW p \in Request, Steps(p) PROVE RefsExact'
<1> SUFFICES ASSUME NEW k \in Key PROVE RefsOf(k)'
  BY RefsByKey
<1>0. OthersStay(p)
  BY OthersStayPut DEF Inv
<1>r. RefsOf(k)
  BY RefsByKey DEF Inv
<1>w. LET before == key[p] = k /\ pc[p] \in Users
          after  == key'[p] = k /\ pc'[p] \in Users
      IN  /\ (before <=> after) => With(k, Users)' = With(k, Users)
          /\ ~ before /\ after => Cardinality(With(k, Users)') = Cardinality(With(k, Users)) + 1
          /\ before /\ ~ after => Cardinality(With(k, Users)') = Cardinality(With(k, Users)) - 1
  BY <1>0, WithMoves
<1>t. /\ table \in [Key -> Entry \cup {Nil}] /\ refs \in [Entry -> Nat]
      /\ pc \in [Request -> PCs] /\ key \in [Request -> Key \cup {Nil}]
      /\ ent \in [Request -> Entry \cup {Nil}] /\ (pc[p] # "idle" => key[p] \in Key)
      /\ pc[p] \in Users => table[key[p]] # Nil /\ ent[p] = table[key[p]]
      /\ \A l \in Key : table[k] # Nil /\ table[k] = table[l] => k = l
  BY DEF Inv, TypeOK, Places, Owners
<1>n. Cardinality(With(k, Users)) \in Nat
  BY WithNat
\* A step that changes neither who uses the entry nor the references.
<1>s. ASSUME key[p] = k /\ pc[p] \in Users <=> key'[p] = k /\ pc'[p] \in Users,
             UNCHANGED <<table, refs>>
      PROVE  RefsOf(k)'
  BY <1>r, <1>w, <1>s DEF RefsOf
<1>1. CASE \E l \in Key : Arrive(p, l)
  BY <1>1, <1>s, <1>t DEF Arrive, GoTo, Users
<1>2. CASE Found(p)
  <2>1. CASE key[p] = k
    <3>1. key'[p] = k /\ pc'[p] \in Users /\ pc[p] \notin Users
      BY <1>2, <1>t, <2>1 DEF Found, GoTo, Users
    <3>2. table[k] # Nil /\ table' = table /\ refs'[table[k]] = refs[table[k]] + 1
      BY <1>2, <1>t, <2>1 DEF Found
    <3> QED
      BY <1>r, <1>w, <1>t, <1>n, <3>1, <3>2 DEF RefsOf
  <2>2. CASE key[p] # k
    <3>1. With(k, Users)' = With(k, Users)
      BY <1>2, <1>w, <2>2 DEF Found
    <3>2. table' = table /\ (table[k] # Nil => refs'[table[k]] = refs[table[k]])
      BY <1>2, <1>t, <2>2 DEF Found
    <3> QED
      BY <1>r, <3>1, <3>2 DEF RefsOf
  <2> QED
    BY <2>1, <2>2
<1>3. CASE Missing(p) \/ Reserve(p)
  BY <1>3, <1>s, <1>t DEF Missing, Reserve, GoTo, Users
<1>4. CASE Rollback(p)
  BY <1>4, <1>s, <1>t DEF Rollback, Leave, GoTo, Users
<1>5. CASE Insert(p)
  <2>0. PICK e \in Entry : Inserts(p, e) /\ \A l \in Key : table[l] # e
    BY <1>5, InsertsNobodys
  <2>1. CASE key[p] = k
    <3>1. key'[p] = k /\ pc'[p] \in Users /\ pc[p] \notin Users
      BY <1>5, <1>t, <2>1 DEF Insert, GoTo, Users
    <3>2. table[k] = Nil
      BY <1>5, <2>1 DEF Insert, Inv, Places, Locked
    <3>3. Cardinality(With(k, Users)') = 1
      BY <1>r, <1>w, <3>1, <3>2, FS_EmptySet DEF RefsOf
    <3>4. table'[k] = e /\ refs'[e] = 1 /\ e # Nil
      BY <1>t, <2>0, <2>1 DEF Inserts
    <3> QED
      BY <3>3, <3>4 DEF RefsOf
  <2>2. CASE key[p] # k
    <3>1. With(k, Users)' = With(k, Users)
      BY <1>5, <1>w, <2>2 DEF Insert
    <3>2. table'[k] = table[k] /\ (table[k] # Nil => refs'[table[k]] = refs[table[k]])
      BY <1>5, <1>t, <2>0, <2>2 DEF Inserts, Insert
    <3> QED
      BY <1>r, <3>1, <3>2 DEF RefsOf
  <2> QED
    BY <2>1, <2>2
<1>6. CASE Take(p) \/ TakeLate(p) \/ Timeout(p) \/ Return(p)
  BY <1>6, <1>s, <1>t DEF Take, TakeLate, Timeout, Return, GoTo, Users
<1>7. CASE DecRefs(p)
  <2>0. pc[p] = "decRefs" /\ pc[p] \in Users /\ pc'[p] \notin Users
    BY <1>7, <1>t DEF DecRefs, Leave, GoTo, Users
  <2>1. CASE key[p] = k /\ refs[ent[p]] = 1
    <3>1. With(k, Users) = {p}
      BY <2>0, <2>1, LastUser
    <3>2. With(k, Users)' = {}
      BY <1>0, <2>0, <3>1 DEF With, OthersStay
    <3>3. table'[k] = Nil
      BY <1>7, <1>t, <2>1 DEF DecRefs
    <3> QED
      BY <3>2, <3>3 DEF RefsOf
  <2>2. CASE key[p] = k /\ refs[ent[p]] # 1
    <3>1. table' = table /\ refs'[table[k]] = refs[table[k]] - 1 /\ refs[table[k]] # 1
      BY <1>7, <1>t, <2>0, <2>2 DEF DecRefs
    <3>2. table[k] # Nil /\ refs[table[k]] \in Nat
      BY <1>t, <2>0, <2>2
    <3> QED
      BY <1>r, <1>w, <1>n, <2>0, <2>2, <3>1, <3>2 DEF RefsOf
  <2>3. CASE key[p] # k
    <3>1. With(k, Users)' = With(k, Users)
      BY <1>7, <1>t, <1>w, <2>0, <2>3
    <3>2. table'[k] = table[k] /\ (table[k] # Nil => refs'[table[k]] = refs[table[k]])
      BY <1>7, <1>t, <2>0, <2>3 DEF DecRefs
    <3> QED
      BY <1>r, <3>1, <3>2 DEF RefsOf
  <2> QED
    BY <2>1, <2>2, <2>3
<1>8. CASE Unreserve(p)
  BY <1>8, <1>s, <1>t DEF Unreserve, GoTo, Users
<1>9. CASE Recycle(p)
  BY <1>9, <1>s, <1>t DEF Recycle, Leave, GoTo, Users
<1> QED
  BY <1>1, <1>2, <1>3, <1>4, <1>5, <1>6, <1>7, <1>8, <1>9 DEF Steps, Progress

-----------------------------------------------------------------------------
(* Tokens.                                                                 *)

TokensOf(k) == table[k] # Nil => tokens[table[k]] + Cardinality(With(k, {"run"})) = Limit

\* A key that is not in the table, or whose last reference is given back, has no
\* handler that runs.
LEMMA NoneRuns ==
    ASSUME Inv, NEW k \in Key,
           \/ table[k] = Nil
           \/ \E p \in Request : key[p] = k /\ pc[p] = "decRefs" /\ refs[ent[p]] = 1
    PROVE  With(k, {"run"}) = {} /\ Cardinality(With(k, {"run"})) = 0
<1>1. CASE table[k] = Nil
  BY <1>1, FS_EmptySet DEF With, Inv, Places, Users
<1>2. ASSUME NEW p \in Request, key[p] = k, pc[p] = "decRefs", refs[ent[p]] = 1
      PROVE  With(k, {"run"}) = {}
  BY <1>2, LastUser DEF With, Users
<1> QED
  BY <1>1, <1>2, FS_EmptySet

\* Steps lose and make no token.
LEMMA TokensStep == ASSUME Inv, NEW p \in Request, Steps(p) PROVE TokensExact'
<1> SUFFICES ASSUME NEW k \in Key PROVE TokensOf(k)'
  BY DEF TokensExact, TokensOf
<1>0. OthersStay(p)
  BY OthersStayPut DEF Inv
<1>r. TokensOf(k)
  BY DEF Inv, TokensExact, TokensOf
<1>w. LET before == key[p] = k /\ pc[p] = "run"
          after  == key'[p] = k /\ pc'[p] = "run"
          R == With(k, {"run"})
      IN  /\ (before <=> after) => R' = R
          /\ ~ before /\ after => Cardinality(R') = Cardinality(R) + 1
          /\ before /\ ~ after => Cardinality(R') = Cardinality(R) - 1
  BY <1>0, WithMoves
<1>t. /\ table \in [Key -> Entry \cup {Nil}] /\ tokens \in [Entry -> 0..Limit]
      /\ pc \in [Request -> PCs] /\ key \in [Request -> Key \cup {Nil}]
      /\ ent \in [Request -> Entry \cup {Nil}] /\ (pc[p] # "idle" => key[p] \in Key)
      /\ pc[p] \in Users => table[key[p]] # Nil /\ ent[p] = table[key[p]]
      /\ \A l \in Key : table[k] # Nil /\ table[k] = table[l] => k = l
  BY DEF Inv, TypeOK, Places, Owners
<1>n. Cardinality(With(k, {"run"})) \in Nat
  BY WithNat
\* A step that neither starts nor ends a handler.
<1>s. ASSUME pc[p] # "run", pc'[p] # "run", UNCHANGED <<table, tokens>>
      PROVE  TokensOf(k)'
  BY <1>r, <1>w, <1>s DEF TokensOf
<1>1. CASE \E l \in Key : Arrive(p, l)
  BY <1>1, <1>s, <1>t DEF Arrive, GoTo
<1>2. CASE Found(p) \/ Missing(p) \/ Reserve(p)
  BY <1>2, <1>s, <1>t DEF Found, Missing, Reserve, GoTo
<1>3. CASE Rollback(p)
  BY <1>3, <1>s, <1>t DEF Rollback, Leave, GoTo
<1>4. CASE Insert(p)
  <2>0. PICK e \in Entry : Inserts(p, e) /\ \A l \in Key : table[l] # e
    BY <1>4, InsertsNobodys
  <2>w. With(k, {"run"})' = With(k, {"run"})
    BY <1>4, <1>t, <1>w DEF Insert, GoTo
  <2>1. CASE key[p] = k
    <3>1. table[k] = Nil
      BY <1>4, <2>1 DEF Insert, Inv, Places, Locked
    <3>2. Cardinality(With(k, {"run"})') = 0
      BY <2>w, <3>1, NoneRuns
    <3>3. tokens'[e] = Limit /\ table'[k] = e
      BY <1>t, <2>0, <2>1 DEF Inserts, Inv, RecycledFull
    <3> QED
      BY <3>2, <3>3 DEF TokensOf
  <2>2. CASE key[p] # k
    <3>1. table'[k] = table[k] /\ (table[k] # Nil => tokens'[table[k]] = tokens[table[k]])
      BY <1>4, <1>t, <2>0, <2>2 DEF Inserts, Insert
    <3> QED
      BY <1>r, <2>w, <3>1 DEF TokensOf
  <2> QED
    BY <2>1, <2>2
<1>5. CASE (Take(p) /\ tokens[ent[p]] > 0) \/ TakeLate(p)
  <2>0. pc[p] \in Users /\ pc[p] # "run" /\ pc'[p] = "run" /\ UNCHANGED <<key, table>>
        /\ tokens' = [tokens EXCEPT ![ent[p]] = @ - 1]
    BY <1>5, <1>t DEF Take, TakeLate, GoTo, Users
  <2>1. CASE key[p] = k
    BY <1>r, <1>w, <1>t, <1>n, <2>0, <2>1 DEF TokensOf
  <2>2. CASE key[p] # k
    <3>1. With(k, {"run"})' = With(k, {"run"})
      BY <1>w, <2>0, <2>2
    <3>2. table[k] # Nil => tokens'[table[k]] = tokens[table[k]]
      BY <1>t, <2>0, <2>2, key[p] \in Key DEF Users
    <3> QED
      BY <1>r, <2>0, <3>1, <3>2 DEF TokensOf
  <2> QED
    BY <2>1, <2>2
<1>6. CASE (Take(p) /\ ~ (tokens[ent[p]] > 0)) \/ Timeout(p)
  BY <1>6, <1>s, <1>t DEF Take, Timeout, GoTo
<1>7. CASE Return(p)
  <2>0. pc[p] \in Users /\ pc[p] = "run" /\ pc'[p] # "run" /\ UNCHANGED <<key, table>>
        /\ tokens' = [tokens EXCEPT ![ent[p]] = @ + 1]
    BY <1>7, <1>t DEF Return, GoTo, Users
  <2>1. CASE key[p] = k
    BY <1>r, <1>w, <1>t, <1>n, <2>0, <2>1 DEF TokensOf
  <2>2. CASE key[p] # k
    <3>1. With(k, {"run"})' = With(k, {"run"})
      BY <1>w, <2>0, <2>2
    <3>2. table[k] # Nil => tokens'[table[k]] = tokens[table[k]]
      BY <1>t, <2>0, <2>2, key[p] \in Key DEF Users
    <3> QED
      BY <1>r, <2>0, <3>1, <3>2 DEF TokensOf
  <2> QED
    BY <2>1, <2>2
<1>8. CASE DecRefs(p)
  <2>1. With(k, {"run"})' = With(k, {"run"})
    BY <1>8, <1>t, <1>w DEF DecRefs, Leave, GoTo
  <2>2. tokens' = tokens /\ (table'[k] = table[k] \/ table'[k] = Nil)
    BY <1>8, <1>t DEF DecRefs
  <2> QED
    BY <1>r, <2>1, <2>2 DEF TokensOf
<1>9. CASE Unreserve(p)
  BY <1>9, <1>s, <1>t DEF Unreserve, GoTo
<1>10. CASE Recycle(p)
  BY <1>10, <1>s, <1>t DEF Recycle, Leave, GoTo
<1> QED
  BY <1>1, <1>2, <1>3, <1>4, <1>5, <1>6, <1>7, <1>8, <1>9, <1>10 DEF Steps, Progress

\* What is given to the pool has all its tokens and no reference.
LEMMA RecycledStep == ASSUME Inv, NEW p \in Request, Steps(p) PROVE RecycledFull'
<1>0. OthersStay(p)
  BY OthersStayPut DEF Inv
<1>t. TypeOK /\ Places /\ Owners /\ RecycledFull
  BY DEF Inv
<1> USE DEF TypeOK, RecycledFull, OthersStay, GoTo, Leave
<1>1. CASE \E l \in Key : Arrive(p, l)
  BY <1>1, <1>0, <1>t DEF Arrive
<1>2. CASE Found(p)
  BY <1>2, <1>0, <1>t DEF Found, Owners
<1>3. CASE Missing(p) \/ Reserve(p) \/ Rollback(p)
  BY <1>3, <1>0, <1>t DEF Missing, Reserve, Rollback
<1>4. CASE Insert(p)
  <2>0. PICK e \in Entry : /\ Inserts(p, e)
                           /\ \A l \in Key : table[l] # e
                           /\ \A q \in Request : ent[q] # e
    BY <1>4, InsertsNobodys
  <2> QED
    BY <1>4, <1>0, <1>t, <2>0 DEF Insert, Inserts, Places, Leaving
<1>5. CASE Take(p) \/ TakeLate(p) \/ Timeout(p) \/ Return(p)
  <2>1. pc[p] \in Users /\ ent[p] \in Entry /\ key[p] \in Key /\ ent[p] = table[key[p]]
        /\ pc'[p] \in Users /\ UNCHANGED <<table, entryPool, ent>>
    BY <1>5, <1>t DEF Take, TakeLate, Timeout, Return, Places, Users
  <2>2. \A e \in Entry : e # ent[p] => tokens'[e] = tokens[e]
    BY <1>5, <1>t, <2>1 DEF Take, TakeLate, Timeout, Return
  <2>3. \A q \in Request : pc'[q] \in Leaving =>
           pc[q] \in Leaving /\ ent[q] \in Entry /\ ent[q] # ent[p]
    BY <1>0, <1>t, <2>1 DEF Owners, Places, Leaving, Users
  <2> QED
    BY <1>t, <2>1, <2>2, <2>3 DEF Owners, Leaving
<1>6. CASE DecRefs(p)
  <2>1. ASSUME refs[ent[p]] = 1 PROVE tokens[ent[p]] = Limit
    <3>1. pc[p] = "decRefs" /\ key[p] \in Key /\ ent[p] = table[key[p]] /\ table[key[p]] # Nil
      BY <1>6, <1>t DEF DecRefs, Places, Users
    <3>2. Cardinality(With(key[p], {"run"})) = 0
      BY <2>1, <3>1, NoneRuns
    <3> QED
      BY <1>t, <3>1, <3>2 DEF Inv, TokensExact
  <2> QED
    BY <1>6, <1>0, <1>t, <2>1 DEF DecRefs
<1>7. CASE Unreserve(p)
  BY <1>7, <1>0, <1>t DEF Unreserve
<1>8. CASE Recycle(p)
  BY <1>8, <1>0, <1>t DEF Recycle, Owners, Leaving
<1> QED
  BY <1>1, <1>2, <1>3, <1>4, <1>5, <1>6, <1>7, <1>8 DEF Steps, Progress

-----------------------------------------------------------------------------
(* The size of the table.                                                  *)

\* The sizes compared are numbers.
LEMMA SizeNat == /\ Cardinality(Live) \in Nat /\ IsFiniteSet(Live)
                 /\ \A S : Cardinality(At(S)) \in Nat
<1>1. Live \in SUBSET Key
  BY DEF Live
<1>2. \A S : At(S) \in SUBSET Request
  BY DEF At
<1> QED
  BY <1>1, <1>2, FS_Subset, FS_CardinalityType, CardNat

\* Reserving, before the comparison with the bound, and what is counted after it.
LEMMA CountedParts == Cardinality(At(Counted)) >= Cardinality(At({"insert", "unreserve"}))
<1>1. At({"insert", "unreserve"}) \in SUBSET At(Counted) /\ At(Counted) \in SUBSET Request
  BY DEF At, Counted
<1> QED
  BY <1>1, CardNat, FS_Subset

\* Steps keep the bound on the table, and its count.
LEMMA SizeStep ==
    ASSUME Inv, NEW p \in Request, Steps(p)
    PROVE  SizeBounded' /\ SizeExact'
<1> SUFFICES ASSUME MaxTableSize > 0 PROVE SizeBounded' /\ SizeExact'
  BY DEF SizeBounded, SizeExact
<1> DEFINE L == Cardinality(Live)
           C == Cardinality(At(Counted))
           I == Cardinality(At({"insert", "unreserve"}))
<1>0. OthersStay(p)
  BY OthersStayPut DEF Inv
<1>t. /\ table \in [Key -> Entry \cup {Nil}] /\ pc \in [Request -> PCs] /\ size \in Nat
      /\ (pc[p] # "idle" => key[p] \in Key)
  BY DEF Inv, TypeOK, Places
<1>n. L \in Nat /\ C \in Nat /\ I \in Nat /\ I <= C
  BY SizeNat, CountedParts
<1>b. L + I <= MaxTableSize /\ size = L + C
  BY DEF Inv, SizeBounded, SizeExact
<1> SUFFICES L' + I' <= MaxTableSize /\ size' = L' + C'
  BY DEF SizeBounded, SizeExact
<1>c. /\ (pc[p] \in Counted <=> pc'[p] \in Counted) => C' = C
      /\ pc[p] \notin Counted /\ pc'[p] \in Counted => C' = C + 1
      /\ pc[p] \in Counted /\ pc'[p] \notin Counted => C' = C - 1
  BY <1>0, AtMoves
<1>i. LET S == {"insert", "unreserve"}
      IN  /\ (pc[p] \in S <=> pc'[p] \in S) => I' = I
          /\ pc[p] \notin S /\ pc'[p] \in S => I' = I + 1
          /\ pc[p] \in S /\ pc'[p] \notin S => I' = I - 1
  BY <1>0, AtMoves
<1>l. UNCHANGED table => L' = L
  BY DEF Live
\* A step that neither reserves nor inserts nor removes.
<1>s. ASSUME pc[p] \notin Counted, pc'[p] \notin Counted, UNCHANGED <<table, size>>
      PROVE  L' + I' <= MaxTableSize /\ size' = L' + C'
  <2>1. I' = I /\ C' = C /\ L' = L
    BY <1>c, <1>i, <1>l, <1>s DEF Counted
  <2> HIDE DEF L, C, I
  <2> QED
    BY <2>1, <1>b, <1>s
<1>1. CASE \E l \in Key : Arrive(p, l)
  BY <1>1, <1>s, <1>t DEF Arrive, GoTo, Counted
<1>2. CASE Found(p) \/ Missing(p)
  BY <1>2, <1>s, <1>t DEF Found, Missing, GoTo, Counted
<1>3. CASE Reserve(p)
  <2>1. pc[p] = "reserve" /\ size' = size + 1 /\ L' = L
        /\ pc'[p] = (IF size + 1 > MaxTableSize THEN "rollback" ELSE "insert")
    BY <1>3, <1>l, <1>t DEF Reserve, GoTo
  <2>2. C' = C + 1
    BY <2>1, <1>c DEF Counted
  <2>3. size + 1 > MaxTableSize => I' = I
    BY <2>1, <1>i
  <2>4. ~ (size + 1 > MaxTableSize) => I' = I + 1
    BY <2>1, <1>i
  <2> HIDE DEF L, C, I
  <2> QED
    BY <1>b, <1>n, <1>t, <2>1, <2>2, <2>3, <2>4
<1>4. CASE Rollback(p)
  <2>1. pc[p] = "rollback" /\ pc'[p] = "idle" /\ size' = size - 1 /\ L' = L
    BY <1>4, <1>l, <1>t DEF Rollback, Leave, GoTo
  <2>2. C' = C - 1 /\ I' = I
    BY <2>1, <1>c, <1>i DEF Counted
  <2> HIDE DEF L, C, I
  <2> QED
    BY <1>b, <1>n, <1>t, <2>1, <2>2
<1>5. CASE Insert(p)
  <2>0. PICK e \in Entry : Inserts(p, e)
    BY <1>5, InsertsNobodys
  <2>1. pc[p] = "insert" /\ pc'[p] = "take" /\ size' = size
    BY <1>5, <1>t DEF Insert, GoTo
  <2>2. C' = C - 1 /\ I' = I - 1
    BY <2>1, <1>c, <1>i DEF Counted
  <2>3. table[key[p]] = Nil /\ key[p] \in Key
    BY <1>t, <2>1 DEF Inv, Places, Locked
  <2>4. Live' = Live \cup {key[p]} /\ key[p] \notin Live
    BY <1>t, <2>0, <2>3 DEF Inserts, Live
  <2>5. L' = L + 1
    BY <2>4, SizeNat, FS_AddElement
  <2> HIDE DEF L, C, I
  <2> QED
    BY <1>b, <1>n, <1>t, <2>1, <2>2, <2>5
<1>6. CASE Take(p) \/ TakeLate(p) \/ Timeout(p) \/ Return(p)
  BY <1>6, <1>s, <1>t DEF Take, TakeLate, Timeout, Return, GoTo, Counted
<1>7. CASE DecRefs(p) /\ refs[ent[p]] = 1
  <2>1. pc[p] = "decRefs" /\ pc'[p] = "unreserve" /\ size' = size
    BY <1>7, <1>t DEF DecRefs, GoTo
  <2>2. C' = C + 1 /\ I' = I + 1
    BY <2>1, <1>c, <1>i DEF Counted
  <2>3. table[key[p]] # Nil /\ key[p] \in Key
    BY <1>t, <2>1 DEF Inv, Places, Users
  <2>4. Live' = Live \ {key[p]} /\ key[p] \in Live
    BY <1>7, <1>t, <2>3 DEF DecRefs, Live
  <2>5. L' = L - 1
    BY <2>4, SizeNat, FS_RemoveElement
  <2> HIDE DEF L, C, I
  <2> QED
    BY <1>b, <1>n, <1>t, <2>1, <2>2, <2>5
<1>8. CASE DecRefs(p) /\ refs[ent[p]] # 1
  BY <1>8, <1>s, <1>t DEF DecRefs, Leave, GoTo, Counted
<1>9. CASE Unreserve(p)
  <2>1. pc[p] = "unreserve" /\ pc'[p] = "recycle" /\ size' = size - 1 /\ L' = L
    BY <1>9, <1>l, <1>t DEF Unreserve, GoTo
  <2>2. C' = C - 1 /\ I' = I - 1
    BY <2>1, <1>c, <1>i DEF Counted
  <2> HIDE DEF L, C, I
  <2> QED
    BY <1>b, <1>n, <1>t, <2>1, <2>2
<1>10. CASE Recycle(p)
  BY <1>10, <1>s, <1>t DEF Recycle, Leave, GoTo, Counted
<1> HIDE DEF L, C, I
<1> QED
  BY <1>1, <1>2, <1>3, <1>4, <1>5, <1>6, <1>7, <1>8, <1>9, <1>10 DEF Steps, Progress

-----------------------------------------------------------------------------
\* Every step keeps the invariant.
LEMMA InvStep == Inv /\ [Next]_vars => Inv'
<1> SUFFICES ASSUME Inv, [Next]_vars PROVE Inv'
  OBVIOUS
<1>1. ASSUME NEW p \in Request, Steps(p) PROVE Inv'
  BY <1>1, TypeStep, PlacesStep, OwnersStep, RefsStep, TokensStep, RecycledStep, SizeStep DEF Inv
<1>2. ASSUME NEW e \in Entry, Collect(e) PROVE Inv'
  <2>1. TypeOK' /\ Places' /\ Owners' /\ RecycledFull'
    BY <1>2 DEF Collect, Inv, TypeOK, Places, Owners, RecycledFull, Mutex
  <2>2. TokensExact' /\ RefsExact' /\ SizeBounded' /\ SizeExact'
    BY <1>2 DEF Collect, Inv, TokensExact, RefsExact, SizeBounded, SizeExact, With, Live, At
  <2> QED
    BY <2>1, <2>2 DEF Inv
<1>3. CASE UNCHANGED vars
  <2>1. TypeOK' /\ Places' /\ Owners' /\ RecycledFull'
    BY <1>3 DEF vars, Inv, TypeOK, Places, Owners, RecycledFull, Mutex
  <2>2. TokensExact' /\ RefsExact'
    BY <1>3 DEF vars, Inv, TokensExact, RefsExact, With, Live, At
  <2>3. SizeBounded' /\ SizeExact'
    BY <1>3 DEF vars, Inv, SizeBounded, SizeExact, Live, At
  <2> QED
    BY <2>1, <2>2, <2>3 DEF Inv
<1> QED
  BY <1>1, <1>2, <1>3 DEF Next, Steps

\* The invariant holds in every reachable state.
LEMMA AlwaysInv == Spec => []Inv
BY InvInit, InvStep, PTL DEF Spec

\* refs counts the requests that use a key's entry, an entry that is pooled or about to
\* be has all its tokens and belongs to no key, and the table never holds more than
\* maxTableSize keys (throttleTable.acquire and decRefs), for any number of requests,
\* keys, shards and entries, and whatever sync.Pool drops.
THEOREM TableIsExact == Spec => []TableExact
<1>1. ASSUME Inv PROVE TableBounded
  <2>1. At(Counted) = {p \in Request : pc[p] \in {"rollback", "insert", "unreserve"}}
    BY DEF At, Counted
  <2>2. Cardinality(At({"insert", "unreserve"})) \in Nat /\ Cardinality(Live) \in Nat
    BY SizeNat
  <2> QED
    BY <1>1, <2>1, <2>2 DEF Inv, SizeBounded, SizeExact, TableBounded
<1>2. Inv => TableExact
  BY <1>1 DEF Inv, TableExact
<1> QED
  BY <1>2, AlwaysInv, PTL

\* At most Limit handlers run for a key (the token channel of its entry), also when
\* the entry is removed, pooled and used again while requests for the key come and go.
THEOREM KeysAreLimited == Spec => []KeyLimit
<1>1. ASSUME Inv, NEW k \in Key PROVE Cardinality(With(k, {"run"})) <= Limit
  <2>1. CASE table[k] = Nil
    BY <1>1, <2>1, NoneRuns
  <2>2. CASE table[k] # Nil
    <3>1. tokens[table[k]] \in Nat /\ Cardinality(With(k, {"run"})) \in Nat
      BY <1>1, <2>2, WithNat DEF Inv, TypeOK
    <3> QED
      BY <1>1, <2>2, <3>1 DEF Inv, TokensExact
  <2> QED
    BY <2>1, <2>2
<1>2. Inv => KeyLimit
  BY <1>1 DEF KeyLimit
<1> QED
  BY <1>2, AlwaysInv, PTL
=============================================================================
