---------------------------- MODULE ThrottleTable ----------------------------
(***************************************************************************)
(* ThrottlePerIPCapped and its table (middleware/throttle.go): per key, a  *)
(* channel of Limit tokens and a count of the requests that use it, in     *)
(* sharded maps; an atomic count of the keys; and a pool of entries to use *)
(* again.  One action is one critical section of a shard, one atomic add,  *)
(* one channel operation or one pool operation.                            *)
(***************************************************************************)
EXTENDS Naturals, FiniteSets

CONSTANTS
    Request, Key,
    Shard, ShardOf,     \* the shards, and the shard each key hashes to
    Entry,              \* the addresses an entry may have
    Nil,
    Limit,              \* limit
    MaxTableSize,       \* maxTableSize, 0 for no bound
    MaxArrivals         \* bound on the requests that arrive

ASSUME TableAssumption ==
    /\ ShardOf \in [Key -> Shard] /\ Nil \notin Entry \cup Request \cup Key
    /\ Limit \in Nat \ {0} /\ MaxTableSize \in Nat /\ MaxArrivals \in Nat
    /\ IsFiniteSet(Request) /\ IsFiniteSet(Key) /\ IsFiniteSet(Entry)

VARIABLES
    mu,             \* per shard, the request that holds its mutex, or Nil
    table,          \* the shards' maps: per key its entry, or Nil
    size,
    tokens, refs,   \* per entry, len(tokens) and refs
    entryPool,      \* the entries in the pool
    pc, key, ent,   \* per request, where it is, its key and its entry
    arrived         \* the requests that have arrived, for the bound

vars == <<mu, table, size, tokens, refs, entryPool, pc, key, ent, arrived>>

PCs == {"idle", "acquire", "reserve", "rollback", "insert", "take", "wait", "run",
        "decRefs", "unreserve", "recycle"}

Init == /\ mu = [s \in Shard |-> Nil] /\ table = [k \in Key |-> Nil] /\ size = 0
        /\ tokens = [e \in Entry |-> 0] /\ refs = [e \in Entry |-> 0] /\ entryPool = {}
        /\ pc = [p \in Request |-> "idle"] /\ arrived = 0
        /\ key = [p \in Request |-> Nil] /\ ent = [p \in Request |-> Nil]

GoTo(p, to) == pc' = [pc EXCEPT ![p] = to]
Mutex(p) == ShardOf[key[p]]
Unlock(p) == mu' = [mu EXCEPT ![Mutex(p)] = Nil]
Leave(p) == /\ GoTo(p, "idle")
            /\ key' = [key EXCEPT ![p] = Nil] /\ ent' = [ent EXCEPT ![p] = Nil]

Arrive(p, k) ==
    /\ pc[p] = "idle" /\ arrived < MaxArrivals
    /\ GoTo(p, "acquire")
    /\ key' = [key EXCEPT ![p] = k]
    /\ arrived' = arrived + 1
    /\ UNCHANGED <<mu, table, size, tokens, refs, entryPool, ent>>

-----------------------------------------------------------------------------
(* throttleTable.acquire.                                                  *)

\* The key is there: one more reference.  The mutex is taken and released.
Found(p) ==
    LET e == table[key[p]]
    IN  /\ pc[p] = "acquire" /\ mu[Mutex(p)] = Nil /\ e # Nil
        /\ refs' = [refs EXCEPT ![e] = @ + 1]
        /\ ent' = [ent EXCEPT ![p] = e]
        /\ GoTo(p, "take")
        /\ UNCHANGED <<mu, table, size, tokens, entryPool, key, arrived>>

\* It is not: the mutex stays taken until it is inserted or refused.
Missing(p) ==
    /\ pc[p] = "acquire" /\ mu[Mutex(p)] = Nil /\ table[key[p]] = Nil
    /\ mu' = [mu EXCEPT ![Mutex(p)] = p]
    /\ GoTo(p, IF MaxTableSize > 0 THEN "reserve" ELSE "insert")
    /\ UNCHANGED <<table, size, tokens, refs, entryPool, key, ent, arrived>>

Reserve(p) ==
    /\ pc[p] = "reserve"
    /\ size' = size + 1
    /\ GoTo(p, IF size + 1 > MaxTableSize THEN "rollback" ELSE "insert")
    /\ UNCHANGED <<mu, table, tokens, refs, entryPool, key, ent, arrived>>

\* The table is full: 503.
Rollback(p) ==
    /\ pc[p] = "rollback"
    /\ size' = size - 1
    /\ Unlock(p)
    /\ Leave(p)
    /\ UNCHANGED <<table, tokens, refs, entryPool, arrived>>

\* An entry at an address nobody uses any more.
Unused == Entry \ (entryPool \cup {table[k] : k \in Key} \cup {ent[p] : p \in Request})

\* A pooled entry as it is, or a new one with all its tokens; the pool may
\* give none even if it has some.
Insert(p) ==
    /\ pc[p] = "insert"
    /\ \E e \in entryPool \cup Unused :
          /\ table' = [table EXCEPT ![key[p]] = e]
          /\ entryPool' = entryPool \ {e}
          /\ tokens' = IF e \in entryPool THEN tokens ELSE [tokens EXCEPT ![e] = Limit]
          /\ refs' = [refs EXCEPT ![e] = 1]
          /\ ent' = [ent EXCEPT ![p] = e]
    /\ Unlock(p)
    /\ GoTo(p, "take")
    /\ UNCHANGED <<size, key, arrived>>

-----------------------------------------------------------------------------
(* The handler of ThrottlePerIPCapped.                                     *)

\* A token without waiting, or else wait for one.
Take(p) ==
    /\ pc[p] = "take"
    /\ IF tokens[ent[p]] > 0
       THEN tokens' = [tokens EXCEPT ![ent[p]] = @ - 1] /\ GoTo(p, "run")
       ELSE UNCHANGED tokens /\ GoTo(p, "wait")
    /\ UNCHANGED <<mu, table, size, refs, entryPool, key, ent, arrived>>

\* Mutant: a waiter goes on without taking the token.
TakeLatePeeks(p) ==
    /\ pc[p] = "wait" /\ tokens[ent[p]] > 0
    /\ GoTo(p, "run")
    /\ UNCHANGED <<mu, table, size, tokens, refs, entryPool, key, ent, arrived>>

TakeLate(p) ==
    /\ pc[p] = "wait" /\ tokens[ent[p]] > 0
    /\ tokens' = [tokens EXCEPT ![ent[p]] = @ - 1]
    /\ GoTo(p, "run")
    /\ UNCHANGED <<mu, table, size, refs, entryPool, key, ent, arrived>>

\* Mutant: a request that times out keeps its reference.
TimeoutKeepsRef(p) ==
    /\ pc[p] = "wait"
    /\ Leave(p)
    /\ UNCHANGED <<mu, table, size, tokens, refs, entryPool, arrived>>

Timeout(p) ==
    /\ pc[p] = "wait"
    /\ GoTo(p, "decRefs")
    /\ UNCHANGED <<mu, table, size, tokens, refs, entryPool, key, ent, arrived>>

\* next returns or panics; the send would block on a full channel.
Return(p) ==
    /\ pc[p] = "run" /\ tokens[ent[p]] < Limit
    /\ tokens' = [tokens EXCEPT ![ent[p]] = @ + 1]
    /\ GoTo(p, "decRefs")
    /\ UNCHANGED <<mu, table, size, refs, entryPool, key, ent, arrived>>

-----------------------------------------------------------------------------
(* throttleTable.decRefs.                                                  *)

\* Mutant: the key is removed although others use it.
DecRefsRemoves(p) ==
    /\ pc[p] = "decRefs" /\ mu[Mutex(p)] = Nil
    /\ refs' = [refs EXCEPT ![ent[p]] = @ - 1]
    /\ table' = [table EXCEPT ![key[p]] = Nil]
    /\ IF refs[ent[p]] = 1 THEN GoTo(p, "unreserve") /\ UNCHANGED <<key, ent>> ELSE Leave(p)
    /\ UNCHANGED <<mu, size, tokens, entryPool, arrived>>

DecRefs(p) ==
    /\ pc[p] = "decRefs" /\ mu[Mutex(p)] = Nil
    /\ refs' = [refs EXCEPT ![ent[p]] = @ - 1]
    /\ IF refs[ent[p]] = 1
       THEN /\ table' = [table EXCEPT ![key[p]] = Nil]
            /\ GoTo(p, IF MaxTableSize > 0 THEN "unreserve" ELSE "recycle")
            /\ UNCHANGED <<key, ent>>
       ELSE Leave(p) /\ UNCHANGED table
    /\ UNCHANGED <<mu, size, tokens, entryPool, arrived>>

Unreserve(p) ==
    /\ pc[p] = "unreserve"
    /\ size' = size - 1
    /\ GoTo(p, "recycle")
    /\ UNCHANGED <<mu, table, tokens, refs, entryPool, key, ent, arrived>>

Recycle(p) ==
    /\ pc[p] = "recycle"
    /\ entryPool' = entryPool \cup {ent[p]}
    /\ Leave(p)
    /\ UNCHANGED <<mu, table, size, tokens, refs, arrived>>

\* A sync.Pool drops what it holds when it likes.
Collect(e) ==
    /\ e \in entryPool
    /\ entryPool' = entryPool \ {e}
    /\ UNCHANGED <<mu, table, size, tokens, refs, pc, key, ent, arrived>>

Progress(p) ==
    \/ Found(p) \/ Missing(p) \/ Reserve(p) \/ Rollback(p) \/ Insert(p)
    \/ Take(p) \/ TakeLate(p) \/ Return(p)
    \/ DecRefs(p) \/ Unreserve(p) \/ Recycle(p)

Next == \/ \E p \in Request : (\E k \in Key : Arrive(p, k)) \/ Progress(p) \/ Timeout(p)
        \/ \E e \in Entry : Collect(e)

\* A goroutine that can move does, and handlers return.  Nothing is assumed of
\* the timers.
Spec == Init /\ [][Next]_vars /\ \A p \in Request : WF_vars(Progress(p))

-----------------------------------------------------------------------------
With(k, S) == {p \in Request : key[p] = k /\ pc[p] \in S}
Live == {k \in Key : table[k] # Nil}

TypeOK ==
    /\ mu \in [Shard -> Request \cup {Nil}] /\ table \in [Key -> Entry \cup {Nil}]
    /\ size \in Nat /\ tokens \in [Entry -> 0..Limit] /\ refs \in [Entry -> Nat]
    /\ entryPool \subseteq Entry /\ pc \in [Request -> PCs]
    /\ key \in [Request -> Key \cup {Nil}] /\ ent \in [Request -> Entry \cup {Nil}]
    /\ arrived \in 0..MaxArrivals

\* At most Limit handlers run for one key, also when the key's entry is removed,
\* pooled and used again while requests for it come and go.
KeyLimit == \A k \in Key : Cardinality(With(k, {"run"})) <= Limit

RefsExact ==
    \A k \in Key :
        IF table[k] = Nil THEN With(k, {"take", "wait", "run", "decRefs"}) = {}
        ELSE /\ refs[table[k]] = Cardinality(With(k, {"take", "wait", "run", "decRefs"}))
             /\ refs[table[k]] > 0

RecycledFull ==
    /\ \A e \in entryPool : tokens[e] = Limit /\ \A k \in Key : table[k] # e
    /\ \A p \in Request : pc[p] \in {"unreserve", "recycle"} => tokens[ent[p]] = Limit

TableBounded ==
    MaxTableSize > 0 =>
        /\ Cardinality(Live) <= MaxTableSize
        /\ size = Cardinality(Live) + Cardinality({p \in Request :
                      pc[p] \in {"rollback", "insert", "unreserve"}})

\* refs counts exactly the requests that use a key's entry, so an entry is neither
\* removed under a request nor left behind by one that timed out; one that is pooled
\* or about to be has all its tokens and belongs to no key; and the table never holds
\* more than MaxTableSize keys, size being these and the reservations under way.
TableExact == TypeOK /\ RefsExact /\ RecycledFull /\ TableBounded

\* Once no more requests arrive every key is removed, though no timer fires:
\* no reference leaks and no send on a token channel blocks.
Drained == \A k \in Key : table[k] # Nil ~> table[k] = Nil

\* A request for a new key is refused only when MaxTableSize keys are in the
\* table or about to be: "the cap stays exact under concurrent churn"
\* (throttle.go).
Inserting == {p \in Request : pc[p] = "insert"}
RefusedWhenFull ==
    [][\A p \in Request : pc[p] = "reserve" /\ pc'[p] = "rollback"
          => Cardinality(Live) + Cardinality(Inserting) >= MaxTableSize]_vars
=============================================================================
