------------------------------ MODULE Bundles ------------------------------
(***************************************************************************)
(* Where path parameters live while handlers run (params.go, and the part  *)
(* of dispatch in mux.go that hands them over).                            *)
(*                                                                         *)
(* A match with parameters is dispatched with a bundle: a requestCtx, the  *)
(* context that answers ParamsFromContext and RoutePattern, fused with a   *)
(* copy of the request.  A FastHandler gets a Params slice instead.  Both  *)
(* are recycled through sync.Pools when the Mux says so, and then a        *)
(* handler may not keep them.  A Mux mounted in another dispatches again   *)
(* while the outer bundle is held, and contexts chain through both; each   *)
(* Mux has its own configuration.                                          *)
(*                                                                         *)
(* The heap is a set of cells, so that reuse is visible.  A parameter's    *)
(* value is the request that captured it and the depth it did so at.       *)
(***************************************************************************)
EXTENDS Naturals, Sequences, FiniteSets

CONSTANTS
    Requests,     \* the requests, each served once by a goroutine of its own
    Cells,        \* the memory cells, numbers
    Routes,       \* the routes of every Mux: [id, keys, fast, mount]
    MaxDepth,     \* bound: how deep Muxes are mounted in each other
    MaxKept       \* bound: goroutines at a time that outlive their handler

ASSUME RoutesAssumption ==
    /\ MaxDepth \in Nat \ {0} /\ MaxKept \in Nat /\ Cells \subseteq Nat \ {0}
    /\ \A rt \in Routes : /\ rt.mount => (~ rt.fast /\ rt.keys # <<>>)
                          /\ rt.keys # <<>> => rt.id # ""

VARIABLES
    conf,     \* per depth: the frozen poolRequestBundle and poolFastParams
    heap,     \* what each cell holds
    pool,     \* the sync.Pools: for each kind of cell, the cells to reuse
    stack,    \* per request, the dispatches under way, outermost first
    done,     \* the requests that were served
    kept      \* what goroutines that outlive their handler still read

vars == <<conf, heap, pool, stack, done, kept>>

Kinds  == {"bundle1", "bundle2", "bundle", "fast1", "fast2", "fast3"}
Root   == 0       \* the context net/http made: no parameters in it
Nil    == [pattern |-> "nil context", params |-> <<>>]
NoInfo == [pattern |-> "", params |-> <<>>]
Zero   == [params |-> <<>>, pattern |-> "", parent |-> Root, zero |-> TRUE]
Depths == 1..MaxDepth

\* conf's poolRequestBundle stands for cfg.poolRequestBundle && hasReqCtxField.
Init == /\ conf \in [Depths -> [poolRequestBundle: BOOLEAN, poolFastParams: BOOLEAN]]
        /\ heap = [c \in Cells |-> Zero]
        /\ pool = [k \in Kinds |-> {}]
        /\ stack = [g \in Requests |-> <<>>]
        /\ done = {} /\ kept = {}

-----------------------------------------------------------------------------
(* Contexts and memory.                                                    *)

Longest  == 2 * MaxDepth     \* each depth adds a match and a mount to the chain
Contexts == Cells \cup {Root}

\* The contexts that a lookup from c asks in turn, in the memory h.
Asked(h, c) ==
    LET Parent(x) == IF x = Root THEN Root ELSE h[x].parent
        asked[k \in 0..Longest] == IF k = 0 THEN c ELSE Parent(asked[k - 1])
    IN  asked

\* Those that have memory, c included.
Chain(c) == {Asked(heap, c)[k] : k \in 0..Longest} \ {Root}

\* What a context says itself; a zeroed one has a nil parent to ask.
Info(x) == IF x = Root THEN NoInfo
           ELSE IF heap[x].zero THEN Nil
           ELSE [pattern |-> heap[x].pattern, params |-> heap[x].params]

\* Mutant: only the outermost context is tried, the chain behind it is not.
RouteCtxOutermost(c) == Info(c)

\* routeCtxParams and routeCtxPattern: a requestCtx answers the key itself, any
\* other context asks its parent.
RouteCtx(c) ==
    LET x(k)       == Asked(heap, c)[k]
        Answers(k) == x(k) = Root \/ heap[x(k)].zero \/ heap[x(k)].pattern # ""
    IN  Info(x(CHOOSE k \in 0..Longest : Answers(k) /\ \A j \in 0..(k - 1) : ~ Answers(j)))

FrameCells(f) == Chain(f.ctx) \cup ({f.own} \ {Root})
Frames(g)     == {stack[g][i] : i \in 1..Len(stack[g])}
KeptCells(k)  == Chain(k.ctx) \cup ({k.slice} \ {Root})
Held  == (UNION {UNION {FrameCells(f) : f \in Frames(g)} : g \in Requests})
         \cup (UNION {KeptCells(k) : k \in kept})
Used  == Held \cup UNION {pool[k] : k \in Kinds}

\* A new allocation: a cell nothing refers to.
Fresh == LET free == Cells \ Used
         IN  IF free = {} THEN {} ELSE {CHOOSE c \in free : \A d \in free : c <= d}

-----------------------------------------------------------------------------
(* Dispatch.                                                               *)

Depth(g)   == Len(stack[g])
Top(g)     == stack[g][Depth(g)]
SetTop(g, f) == [stack EXCEPT ![g][Depth(g)] = f]
OuterCtx(g) == IF Depth(g) = 0 THEN Root ELSE Top(g).ctx
OuterWant(g) == IF Depth(g) = 0 THEN NoInfo ELSE Top(g).want

\* A new request, or one a mounted Mux is called with.
MayDispatch(g) ==
    \/ Depth(g) = 0 /\ g \notin done
    \/ Depth(g) > 0 /\ Depth(g) < MaxDepth /\ Top(g).state = "forwarded"

\* paramsBuf after a match.
Captured(g, rt) ==
    [i \in 1..Len(rt.keys) |-> [key |-> rt.keys[i], value |-> <<g, Depth(g) + 1, i>>]]

\* Push the frame of a dispatch with cell c, taken from a pool or allocated.
Push(g, rt, c, kind, ctx, want) ==
    LET calling == IF Depth(g) = 0 THEN stack
                   ELSE [stack EXCEPT ![g][Depth(g)].state = "run"]
    IN  stack' = [calling EXCEPT ![g] =
                    Append(@, [route |-> rt, own |-> c, kind |-> kind, ctx |-> ctx,
                               want |-> want, slice |-> Captured(g, rt),
                               state |-> IF rt.mount THEN "matched" ELSE "run"])]

Fill(g, rt, c, kind) ==
    /\ heap' = [heap EXCEPT ![c] = [params |-> Captured(g, rt), pattern |-> rt.id,
                                    parent |-> OuterCtx(g), zero |-> FALSE]]
    /\ Push(g, rt, c, kind, c, [pattern |-> rt.id, params |-> Captured(g, rt)])

\* A static route: the handler gets r as it came.
dispatchStatic(g, rt) ==
    /\ MayDispatch(g) /\ rt.keys = <<>>
    /\ Push(g, rt, Root, "none", OuterCtx(g), OuterWant(g))
    /\ UNCHANGED <<conf, heap, pool, done, kept>>

\* dispatchWithParams, dispatchParams1, dispatchParams2: a bundle of its own,
\* always for a mount, which is found in the tree of method "*".
dispatchWithParams(g, rt) ==
    /\ MayDispatch(g) /\ rt.keys # <<>> /\ ~ rt.fast
    /\ rt.mount \/ ~ conf[Depth(g) + 1].poolRequestBundle
    /\ \E c \in Fresh : Fill(g, rt, c, "none")
    /\ UNCHANGED <<conf, pool, done, kept>>

\* Mutant: mounts too are dispatched with a pooled bundle.
dispatchPooledMounts(g, rt) ==
    LET kind == CASE Len(rt.keys) = 1 -> "bundle1" [] Len(rt.keys) = 2 -> "bundle2"
                  [] OTHER -> "bundle"
    IN  /\ MayDispatch(g) /\ rt.keys # <<>> /\ ~ rt.fast
        /\ conf[Depth(g) + 1].poolRequestBundle
        /\ \E c \in pool[kind] \cup Fresh :
              /\ Fill(g, rt, c, kind)
              /\ pool' = [pool EXCEPT ![kind] = @ \ {c}]
        /\ UNCHANGED <<conf, done, kept>>

\* dispatchParams1Pooled, dispatchParams2Pooled, dispatchParamsNPooled.
dispatchPooled(g, rt) ==
    LET kind == CASE Len(rt.keys) = 1 -> "bundle1" [] Len(rt.keys) = 2 -> "bundle2"
                  [] OTHER -> "bundle"
    IN  /\ MayDispatch(g) /\ rt.keys # <<>> /\ ~ rt.fast /\ ~ rt.mount
        /\ conf[Depth(g) + 1].poolRequestBundle
        /\ \E c \in pool[kind] \cup Fresh :
              /\ Fill(g, rt, c, kind)
              /\ pool' = [pool EXCEPT ![kind] = @ \ {c}]
        /\ UNCHANGED <<conf, done, kept>>

\* getFastParams: a pooled slice of the same length, a new one for longer ones.
FastKind(rt, d) ==
    IF ~ conf[d].poolFastParams THEN "none"
    ELSE CASE Len(rt.keys) = 1 -> "fast1" [] Len(rt.keys) = 2 -> "fast2"
           [] Len(rt.keys) = 3 -> "fast3" [] OTHER -> "none"

\* A FastHandler: r as it came, and the captured params in a slice.
dispatchFast(g, rt) ==
    LET kind == FastKind(rt, Depth(g) + 1)
    IN  /\ MayDispatch(g) /\ rt.keys # <<>> /\ rt.fast
        /\ \E c \in (IF kind = "none" THEN {} ELSE pool[kind]) \cup Fresh :
              /\ heap' = [heap EXCEPT ![c] = [Zero EXCEPT !.params = Captured(g, rt),
                                                          !.zero = FALSE]]
              /\ Push(g, rt, c, kind, OuterCtx(g), OuterWant(g))
              /\ pool' = IF kind = "none" THEN pool ELSE [pool EXCEPT ![kind] = @ \ {c}]
        /\ UNCHANGED <<conf, done, kept>>

\* The handler Mount registered: the copy of the request it passes on has a
\* mountPrefixCtx around the context of the match, in a mountBundle, never pooled.
MountForward(g) ==
    /\ Depth(g) > 0 /\ Top(g).state = "matched"
    /\ \E c \in Fresh :
          /\ heap' = [heap EXCEPT ![c] = [Zero EXCEPT !.parent = Top(g).ctx, !.zero = FALSE]]
          /\ stack' = SetTop(g, [Top(g) EXCEPT !.ctx = c, !.state = "forwarded"])
    /\ UNCHANGED <<conf, pool, done, kept>>

-----------------------------------------------------------------------------
(* The handler ends.                                                       *)

Returning(g) == Depth(g) > 0 /\ Top(g).state \in {"run", "forwarded"}

Unwind(g, depth) ==
    /\ stack' = [stack EXCEPT ![g] = SubSeq(@, 1, depth)]
    /\ done' = IF depth = 0 THEN done \cup {g} ELSE done

\* With nothing to recycle, the dispatch is over when the handler returns.
Return(g) ==
    /\ Returning(g) /\ Top(g).kind = "none"
    /\ Unwind(g, Depth(g) - 1)
    /\ UNCHANGED <<conf, heap, pool, kept>>

\* *b = reqBundle{}, or the loop of putFastParams.
Clear(g) ==
    /\ Returning(g) /\ Top(g).kind # "none"
    /\ heap' = [heap EXCEPT ![Top(g).own] = Zero]
    /\ stack' = SetTop(g, [Top(g) EXCEPT !.state = "cleared"])
    /\ UNCHANGED <<conf, pool, done, kept>>

Put(g) ==
    /\ Depth(g) > 0 /\ Top(g).state = "cleared"
    /\ pool' = [pool EXCEPT ![Top(g).kind] = @ \cup {Top(g).own}]
    /\ Unwind(g, Depth(g) - 1)
    /\ UNCHANGED <<conf, heap, kept>>

\* A handler panics and something recovers depth dispatches further out: a
\* PanicHandler, a Recoverer or net/http.  Nothing is cleared or put back.
Panic(g) ==
    /\ Returning(g)
    /\ \E depth \in 0..(Depth(g) - 1) : Unwind(g, depth)
    /\ UNCHANGED <<conf, heap, pool, kept>>

\* A handler starts a goroutine that outlives it, where the lifetime contract of
\* the Mux that called it allows that: r unless PoolRequestBundle, a FastHandler's
\* params unless PoolFastParams.
Keep(g) ==
    /\ Returning(g) /\ ~ Top(g).route.mount /\ Cardinality(kept) < MaxKept
    /\ IF Top(g).route.fast THEN ~ conf[Depth(g)].poolFastParams
       ELSE ~ conf[Depth(g)].poolRequestBundle
    /\ kept' = kept \cup
          {[ctx |-> Top(g).ctx, want |-> Top(g).want, values |-> Top(g).slice,
            slice |-> IF Top(g).route.fast THEN Top(g).own ELSE Root]}
    /\ UNCHANGED <<conf, heap, pool, stack, done>>

Forget == /\ \E k \in kept : kept' = kept \ {k}
          /\ UNCHANGED <<conf, heap, pool, stack, done>>

\* sync.Pool drops what it holds at a garbage collection.
Collect == /\ \E k \in Kinds : \E c \in pool[k] : pool' = [pool EXCEPT ![k] = @ \ {c}]
           /\ UNCHANGED <<conf, heap, stack, done, kept>>

Dispatch(g, rt) == dispatchStatic(g, rt) \/ dispatchWithParams(g, rt)
                   \/ dispatchPooled(g, rt) \/ dispatchFast(g, rt)

Next == \/ \E g \in Requests : \/ \E rt \in Routes : Dispatch(g, rt)
                               \/ MountForward(g) \/ Return(g) \/ Clear(g)
                               \/ Put(g) \/ Panic(g) \/ Keep(g)
        \/ Forget \/ Collect

Spec == Init /\ [][Next]_vars

-----------------------------------------------------------------------------
(* Properties.                                                             *)

Running(f) == f.state # "cleared"

\* A pooled cell belongs to nobody: no dispatch under way and no goroutine that
\* rightly kept its request can reach it, and two pools never hold the same cell.
\* No two dispatches have one bundle, and what is pooled holds nothing of the request
\* it served (params.go: "Zero before Put").
NoSharing ==
    /\ \A k \in Kinds : \A c \in pool[k] : heap[c] = Zero
    /\ \A k, l \in Kinds : /\ pool[k] \cap Held = {}
                           /\ k # l => pool[k] \cap pool[l] = {}
    /\ \A g, h \in Requests : \A i \in 1..Depth(g), j \in 1..Depth(h) :
          stack[g][i].own = stack[h][j].own /\ <<g, i>> # <<h, j>> => stack[g][i].own = Root

\* ParamsFromContext, PathParam and RoutePattern give every handler, and every
\* goroutine that kept a request or a slice it may keep, the values of the nearest
\* match with parameters of that same request, through mounts and after panics,
\* whatever was recycled meanwhile.
OwnParams ==
    /\ \A g \in Requests : \A f \in Frames(g) :
          Running(f) => /\ RouteCtx(f.ctx) = f.want
                        /\ f.route.fast /\ f.own # Root => heap[f.own].params = f.slice
    /\ \A k \in kept : /\ RouteCtx(k.ctx) = k.want
                       /\ k.slice # Root => heap[k.slice].params = k.values
=============================================================================
