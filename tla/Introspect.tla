----------------------------- MODULE Introspect -----------------------------
(***************************************************************************)
(* OAuth2Introspect (middleware/oauth2.go): requests that share a cache of *)
(* active tokens, whose eviction heap is the array of container/heap, and  *)
(* a single-flight group for the calls to the identity provider.  One      *)
(* action is one critical section, one read of the clock, one answer of    *)
(* the provider or one channel operation.  A token and its sha256 are one  *)
(* model value, and array positions count from 1.                          *)
(***************************************************************************)
EXTENDS Integers, Sequences, FiniteSets

CONSTANTS
    Request, Token, Nil,
    CacheTTL, MaxCacheSize,     \* the options, after the defaults
    Exps,                       \* the expiry times the provider may state, 0 for none
    MaxTime, MaxArrivals        \* bounds on the clock and on the requests that arrive

\* What the provider says of an active token, and when it said it; that the token
\* is not active, or an error, which the handler answers alike.
Response == [exp : Exps, at : 0..MaxTime]
Invalid == [error |-> "invalid_token"]

\* A cached response, when it expires and its position in the heap.
Entry == [resp : Response, expiry : Nat, idx : 1..MaxCacheSize]

ASSUME IntrospectAssumption ==
    /\ Nil \notin Request \cup Token \cup Response \cup {Invalid} \cup Entry
    /\ IsFiniteSet(Request) /\ IsFiniteSet(Token)
    /\ CacheTTL \in Int /\ MaxCacheSize \in Nat \ {0} /\ Exps \subseteq Nat
    /\ MaxTime \in Nat /\ MaxArrivals \in Nat

VARIABLES
    now,                \* the clock
    prompt,             \* whether the clock waits for requests that can move
    cache,              \* the entries, and the heap of the tokens that have one
    calls,              \* per token, the request that leads its call, or Nil
    pc, token,          \* per request, where it is and its token
    leader,             \* per follower, the leader of the call it waits for, until
                        \* that call's channel is closed
    resp, expiry,       \* per request, its result and the expiry computed from it
    arrived             \* the requests that have arrived, for the bound

vars == <<now, prompt, cache, calls, pc, token, leader, resp, expiry, arrived>>

PCs == {"idle", "get", "do", "follow", "recheck", "introspect", "delete", "close",
        "check", "set"}

Init == /\ now = 0 /\ prompt \in BOOLEAN
        /\ cache = [entries |-> [t \in Token |-> Nil], heap |-> << >>]
        /\ calls = [t \in Token |-> Nil]
        /\ pc = [r \in Request |-> "idle"] /\ token = [r \in Request |-> Nil]
        /\ leader = [r \in Request |-> Nil] /\ resp = [r \in Request |-> Nil]
        /\ expiry = [r \in Request |-> 0] /\ arrived = 0

-----------------------------------------------------------------------------
(* oauth2ExpiryHeap and container/heap.                                    *)

Expiry(c, i) == c.entries[c.heap[i]].expiry
Less(c, i, j) == Expiry(c, i) < Expiry(c, j)

\* Mutant: only one of the two entries learns its new position.
SwapHalf(c, i, j) ==
    [entries |-> [c.entries EXCEPT ![c.heap[j]].idx = i],
     heap |-> [c.heap EXCEPT ![i] = c.heap[j], ![j] = c.heap[i]]]

Swap(c, i, j) ==
    [entries |-> [c.entries EXCEPT ![c.heap[j]].idx = i, ![c.heap[i]].idx = j],
     heap |-> [c.heap EXCEPT ![i] = c.heap[j], ![j] = c.heap[i]]]

\* The loop bodies of up and of down on the first n positions.
Up(s) ==
    IF s.i > 1 /\ Less(s.c, s.i, s.i \div 2)
    THEN [c |-> Swap(s.c, s.i, s.i \div 2), i |-> s.i \div 2] ELSE s
Child(c, i, n) == IF 2 * i < n /\ Less(c, 2 * i + 1, 2 * i) THEN 2 * i + 1 ELSE 2 * i
Down(s, n) ==
    LET j == Child(s.c, s.i, n)
    IN  IF 2 * s.i <= n /\ Less(s.c, j, s.i)
        THEN [c |-> Swap(s.c, s.i, j), i |-> j] ELSE s

\* A loop body once per position, more often than any path is long.
SiftUp(c, i) ==
    LET s[k \in 0..Len(c.heap)] == IF k = 0 THEN [c |-> c, i |-> i] ELSE Up(s[k - 1])
    IN  s[Len(c.heap)]
SiftDown(c, i, n) ==
    LET s[k \in 0..Len(c.heap)] == IF k = 0 THEN [c |-> c, i |-> i] ELSE Down(s[k - 1], n)
    IN  s[Len(c.heap)]

Push(c, t, e) ==
    LET n == Len(c.heap) + 1
    IN  SiftUp([entries |-> [c.entries EXCEPT ![t] = [e EXCEPT !.idx = n]],
                heap |-> Append(c.heap, t)], n).c

Fix(c, i) ==
    LET s == SiftDown(c, i, Len(c.heap)) IN IF s.i > i THEN s.c ELSE SiftUp(c, i).c

\* heap.Pop and the deletion of the popped entry.
EvictOne(c) ==
    LET n == Len(c.heap)
        s == SiftDown(Swap(c, 1, n), 1, n - 1).c
    IN  [entries |-> [s.entries EXCEPT ![c.heap[1]] = Nil], heap |-> SubSeq(s.heap, 1, n - 1)]

-----------------------------------------------------------------------------
(* oauth2Cache: get and set.                                               *)

Caching == CacheTTL > 0
Size == Cardinality({t \in Token : cache.entries[t] # Nil})

Cached(t) == cache.entries[t] # Nil /\ ~ now > cache.entries[t].expiry

\* Mutant: the heap is not repaired.
StoredUnfixed(t, v, x) ==
    IF cache.entries[t] # Nil
    THEN [cache EXCEPT !.entries[t].resp = v, !.entries[t].expiry = x]
    ELSE Push(IF Size >= MaxCacheSize THEN EvictOne(cache) ELSE cache,
              t, [resp |-> v, expiry |-> x, idx |-> 0])

Stored(t, v, x) ==
    IF cache.entries[t] # Nil
    THEN Fix([cache EXCEPT !.entries[t].resp = v, !.entries[t].expiry = x],
             cache.entries[t].idx)
    ELSE Push(IF Size >= MaxCacheSize THEN EvictOne(cache) ELSE cache,
              t, [resp |-> v, expiry |-> x, idx |-> 0])

-----------------------------------------------------------------------------
(* The handler.                                                            *)

GoTo(r, to) == pc' = [pc EXCEPT ![r] = to]
Leave(r) ==
    /\ GoTo(r, "idle")
    /\ token' = [token EXCEPT ![r] = Nil] /\ leader' = [leader EXCEPT ![r] = Nil]
    /\ resp' = [resp EXCEPT ![r] = Nil] /\ expiry' = [expiry EXCEPT ![r] = 0]

Arrive(r, t) ==
    /\ pc[r] = "idle" /\ arrived < MaxArrivals
    /\ GoTo(r, IF Caching THEN "get" ELSE "do")
    /\ token' = [token EXCEPT ![r] = t]
    /\ arrived' = arrived + 1
    /\ UNCHANGED <<now, prompt, cache, calls, leader, resp, expiry>>

\* Mutant: an answer from the cache is stored again.
HitRenews(r) ==
    /\ pc[r] = "get" /\ Cached(token[r])
    /\ resp' = [resp EXCEPT ![r] = cache.entries[token[r]].resp]
    /\ GoTo(r, "check")
    /\ UNCHANGED <<now, prompt, cache, calls, token, leader, expiry, arrived>>

\* A cached answer is served, or refused if it is not active.
Hit(r) ==
    /\ pc[r] = "get" /\ Cached(token[r])
    /\ Leave(r)
    /\ UNCHANGED <<now, prompt, cache, calls, arrived>>

Miss(r) ==
    /\ pc[r] = "get" /\ ~ Cached(token[r])
    /\ GoTo(r, "do")
    /\ UNCHANGED <<now, prompt, cache, calls, token, leader, resp, expiry, arrived>>

\* Mutant: whoever comes makes a call.
LeadAlways(r) ==
    /\ pc[r] = "do"
    /\ calls' = [calls EXCEPT ![token[r]] = r]
    /\ GoTo(r, IF Caching THEN "recheck" ELSE "introspect")
    /\ UNCHANGED <<now, prompt, cache, token, leader, resp, expiry, arrived>>

\* oauth2Inflight.do: the leader, and a follower.
Lead(r) ==
    /\ pc[r] = "do" /\ calls[token[r]] = Nil
    /\ calls' = [calls EXCEPT ![token[r]] = r]
    /\ GoTo(r, IF Caching THEN "recheck" ELSE "introspect")
    /\ UNCHANGED <<now, prompt, cache, token, leader, resp, expiry, arrived>>

Follow(r) ==
    /\ pc[r] = "do" /\ calls[token[r]] # Nil
    /\ leader' = [leader EXCEPT ![r] = calls[token[r]]]
    /\ GoTo(r, "follow")
    /\ UNCHANGED <<now, prompt, cache, calls, token, resp, expiry, arrived>>

\* The leader looks again.
Recheck(r) ==
    /\ pc[r] = "recheck"
    /\ IF Cached(token[r])
       THEN /\ resp' = [resp EXCEPT ![r] = cache.entries[token[r]].resp]
            /\ GoTo(r, "delete")
       ELSE UNCHANGED resp /\ GoTo(r, "introspect")
    /\ UNCHANGED <<now, prompt, cache, calls, token, leader, expiry, arrived>>

\* doIntrospect, which the leader's client cannot cancel: the provider's answer,
\* or an error, as after 30 s.
Introspect(r, v) ==
    /\ pc[r] = "introspect"
    /\ resp' = [resp EXCEPT ![r] = v]
    /\ GoTo(r, "delete")
    /\ UNCHANGED <<now, prompt, cache, calls, token, leader, expiry, arrived>>

Delete(r) ==
    /\ pc[r] = "delete"
    /\ calls' = [calls EXCEPT ![token[r]] = Nil]
    /\ GoTo(r, "close")
    /\ UNCHANGED <<now, prompt, cache, token, leader, resp, expiry, arrived>>

\* Mutant: the channel is closed only when the call has succeeded.
CloseOnSuccess(r) ==
    /\ pc[r] = "close"
    /\ resp' = [q \in Request |-> IF leader[q] = r /\ resp[r] # Invalid THEN resp[r] ELSE resp[q]]
    /\ GoTo(r, "check")
    /\ UNCHANGED <<now, prompt, cache, calls, token, leader, expiry, arrived>>

\* Every follower can now see the result, whatever its leader does next.
Close(r) ==
    /\ pc[r] = "close"
    /\ resp' = [q \in Request |-> IF leader[q] = r THEN resp[r] ELSE resp[q]]
    /\ leader' = [q \in Request |-> IF leader[q] = r THEN Nil ELSE leader[q]]
    /\ GoTo(r, "check")
    /\ UNCHANGED <<now, prompt, cache, calls, token, expiry, arrived>>

\* A request has its result once the channel is closed.
Has(r) == pc[r] = "check" \/ (pc[r] = "follow" /\ leader[r] = Nil)

Earlier(v) == IF v.exp # 0 /\ v.exp < now + CacheTTL THEN v.exp ELSE now + CacheTTL

Accept(r) ==
    /\ Has(r) /\ Caching /\ resp[r] # Invalid
    /\ expiry' = [expiry EXCEPT ![r] = Earlier(resp[r])]
    /\ GoTo(r, "set")
    /\ UNCHANGED <<now, prompt, cache, calls, token, leader, resp, arrived>>

\* 401; or, without a cache, next.
Finish(r) ==
    /\ Has(r) /\ (Caching => resp[r] = Invalid)
    /\ Leave(r)
    /\ UNCHANGED <<now, prompt, cache, calls, arrived>>

\* A follower whose client goes away need not wait.
GiveUp(r) ==
    /\ pc[r] = "follow"
    /\ Leave(r)
    /\ UNCHANGED <<now, prompt, cache, calls, arrived>>

\* cache.set and next.
Set(r) ==
    /\ pc[r] = "set"
    /\ cache' = Stored(token[r], resp[r], expiry[r])
    /\ Leave(r)
    /\ UNCHANGED <<now, prompt, calls, arrived>>

AtRest(r) == pc[r] \in {"idle", "introspect"} \/ (pc[r] = "follow" /\ leader[r] # Nil)

Tick ==
    /\ now < MaxTime /\ (prompt => \A r \in Request : AtRest(r))
    /\ now' = now + 1
    /\ UNCHANGED <<prompt, cache, calls, pc, token, leader, resp, expiry, arrived>>

\* What doIntrospect may return.
Answers == {[exp |-> x, at |-> now] : x \in Exps} \cup {Invalid}

Next == \/ \E r \in Request :
              \/ \E t \in Token : Arrive(r, t)
              \/ Hit(r) \/ Miss(r) \/ Lead(r) \/ Follow(r) \/ Recheck(r)
              \/ \E v \in Answers : Introspect(r, v)
              \/ Delete(r) \/ Close(r) \/ Accept(r) \/ Finish(r) \/ GiveUp(r) \/ Set(r)
        \/ Tick

Spec == Init /\ [][Next]_vars

-----------------------------------------------------------------------------
Flying == {"recheck", "introspect", "delete"}
Calling(t) == {r \in Request : token[r] = t /\ pc[r] \in Flying}

TypeOK ==
    /\ now \in 0..MaxTime /\ prompt \in BOOLEAN /\ arrived \in 0..MaxArrivals
    /\ cache.entries \in [Token -> Entry \cup {Nil}] /\ cache.heap \in Seq(Token)
    /\ calls \in [Token -> Request \cup {Nil}] /\ pc \in [Request -> PCs]
    /\ token \in [Request -> Token \cup {Nil}] /\ leader \in [Request -> Request \cup {Nil}]
    /\ resp \in [Request -> Response \cup {Invalid, Nil}] /\ expiry \in [Request -> Nat]
    /\ \A r \in Request : pc[r] = "set" \/ Has(r) => resp[r] # Nil

\* The map and the heap hold the same tokens, at most MaxCacheSize, each where its idx
\* says, so that heap.Fix never moves another token's entry; and no request reads a
\* call's result before the call has it.
CacheConsistent ==
    /\ TypeOK
    /\ Len(cache.heap) <= MaxCacheSize
    /\ \A t \in Token : cache.entries[t] # Nil
          <=> \E i \in 1..Len(cache.heap) : cache.heap[i] = t
    /\ \A i \in 1..Len(cache.heap) : cache.entries[cache.heap[i]].idx = i

\* A token leaves the cache only when the cache is full and no other expires
\* before it, so what has expired goes first (evictOneLocked: "expired entries
\* evicted first"), also after set has changed expiries in place.
EvictsEarliest ==
    [][\A t \in Token : cache.entries[t] # Nil /\ cache'.entries[t] = Nil =>
          /\ Len(cache.heap) = MaxCacheSize
          /\ \A u \in Token : cache.entries[u] # Nil
                => cache.entries[t].expiry <= cache.entries[u].expiry]_vars

\* What do promises: a token has at most one call to the provider at a time, and
\* it is the one that calls names, so that followers find it.
SingleFlight == \A t \in Token : Calling(t) = {calls[t]} \ {Nil}

\* A follower that waits does so for a call for its own token that is still to
\* close its channel: nobody waits for a call that is over.
NoOrphan ==
    \A r \in Request : pc[r] = "follow" /\ leader[r] # Nil =>
        /\ token[leader[r]] = token[r]
        /\ pc[leader[r]] \in Flying \cup {"close"}

\* The cache gives no answer for a token that has expired; and if requests move
\* faster than the clock, none older than CacheTTL, however the sets of leaders,
\* of followers and of leaders that found an answer at the second look follow
\* each other.
CacheFresh ==
    [][\A r \in Request :
          \/ pc[r] = "get" /\ pc'[r] \notin {"get", "do"}
          \/ pc[r] = "recheck" /\ pc'[r] = "delete"
          => LET v == cache.entries[token[r]].resp
             IN  /\ v.exp # 0 => now <= v.exp
                 /\ prompt => now <= v.at + CacheTTL]_vars
=============================================================================
