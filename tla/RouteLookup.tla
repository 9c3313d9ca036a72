---------------------------- MODULE RouteLookup ----------------------------
(***************************************************************************)
(* Route lookup (tree.go: getValue, getValueBacktrack, getValueStatic,     *)
(* walk; Mux.Walk's view of the routes) on the trees RouteTree publishes.  *)
(*                                                                         *)
(* A published tree never changes (RouteTree!PublishedFrozen), so a lookup *)
(* is a function of the tree it loaded: Tree(id) is that tree as a value,  *)
(* and the walk loops are recursive operators over it.  Only TLC evaluates *)
(* this module.                                                            *)
(***************************************************************************)
EXTENDS RouteTree, SequencesExt

CONSTANTS
    Fold,             \* what foldEq compares: each byte in lower case
    Accepts(_, _),    \* whether a regex token's expression accepts a segment
    InlineParams,     \* maxParams of paramsBuf (3 in the code)
    RequestPaths      \* the request paths looked up

ASSUME FoldAssumption == Fold \in [Letters \cup {Slash} -> Letters \cup {Slash}]
ASSUME InlineAssumption == InlineParams \in Nat \ {0}
ASSUME PathsAssumption ==
    \A p \in RequestPaths : p \in Seq(Letters \cup {Slash}) /\ p[1] = Slash

-----------------------------------------------------------------------------
(* The tree below a node, as a value.                                      *)

RECURSIVE Tree(_)
Tree(id) ==
    LET nd == nodes[id]
        kids == Children(slices, nd)
    IN  [nd EXCEPT !.children = [k \in 1..Len(kids) |-> Tree(kids[k])]]

RECURSIVE NodeCount(_)
NodeCount(t) == 1 + FoldFunction(LAMBDA k, acc : NodeCount(k) + acc, 0, t.children)

\* node.walk: the (pattern, handler) pairs it visits, in depth-first order.
RECURSIVE walk(_)
walk(t) ==
    (IF t.pattern # <<>> /\ t.handler # NoHandler
     THEN <<<<t.pattern, t.handler>>>> ELSE <<>>)
    \o FlattenSeq([k \in 1..Len(t.children) |-> walk(t.children[k])])

-----------------------------------------------------------------------------
(* paramsBuf: InlineParams entries inline, the rest in an overflow slice.   *)
(* The count may fall below an entry that is still in buf.                 *)

NoParams == [count |-> 0, buf |-> <<>>, overflow |-> <<>>]

addParam(ps, key, value) ==
    IF ps.count < InlineParams
    THEN [ps EXCEPT !.count = @ + 1,
                    !.buf = Upto(@, ps.count) \o <<<<key, value>>>>]
    ELSE [ps EXCEPT !.count = @ + 1, !.overflow = Append(@, <<key, value>>)]

\* Mutant: the overflow is not truncated.
RewindKeepsOverflow(ps, count, overflowLen) == [ps EXCEPT !.count = count]

rewindParams(ps, count, overflowLen) ==
    [ps EXCEPT !.count = count, !.overflow = Upto(@, overflowLen)]

params(ps) == IF ps.overflow = <<>> THEN Upto(ps.buf, ps.count)
              ELSE ps.buf \o ps.overflow

-----------------------------------------------------------------------------
(* One iteration of the walk loop, the same in getValue and in             *)
(* getValueBacktrack: it ends the walk (with a handler or without), or     *)
(* goes on at another node.  A fork is a static child taken beside a       *)
(* wildcard sibling.                                                       *)

foldEq(a, b, ci) == IF ci THEN Fold[a] = Fold[b] ELSE a = b

\* Fold is on literal bytes: a catch-all leaf's "/*name" is never compared.
prefixMatch(s, prefix, ci) ==
    Len(s) = Len(prefix) /\ \A k \in 1..Len(s) : foldEq(s[k], prefix[k], ci)

Has(t) == t.handler # NoHandler
Wild(t) == Last(t.children)

Stop(handler, pattern, tsr, ps) ==
    [go |-> FALSE, handler |-> handler, pattern |-> pattern, tsr |-> tsr, ps |-> ps]
Miss(tsr, ps) == Stop(NoHandler, <<>>, tsr, ps)
Go(t, p, via, fork, ps) ==
    [go |-> TRUE, t |-> t, p |-> p, via |-> via, fork |-> fork, ps |-> ps]

StaticChild(t, b, ci) == {j \in 1..Len(t.indices) : foldEq(b, t.indices[j], ci)}
Least(S) == CHOOSE j \in S : \A k \in S : j <= k

\* Every byte of the path has been used at node t, which has no handler.
TsrBelow(t, p) ==
    LET js == StaticChild(t, Slash, FALSE)
        kid == t.children[Least(js)]
    IN  IF js # {}
        THEN \/ kid.path = <<Slash>> /\ Has(kid)
             \/ /\ kid.wildChild /\ kid.children # <<>>
                /\ kid.children[1].nType = "wildcard" /\ Has(kid.children[1])
        ELSE p = <<Slash>>

\* The path ends inside, or leaves, the literal path of t.
TsrInside(t, p, ci) ==
    \/ p = <<Slash>>
    \/ /\ Len(t.path) = Len(p) + 1 /\ t.path[Len(p) + 1] = Slash
       /\ prefixMatch(p, Upto(t.path, Len(p)), ci) /\ Has(t)

\* The child of t that takes the rest of the path: static before wildcard.
Hop(t, rest, ps, ci) ==
    LET js == StaticChild(t, rest[1], ci)
    IN  IF js # {} THEN Go(t.children[Least(js)], rest, FALSE, t.wildChild, ps)
        ELSE IF t.wildChild THEN Go(Wild(t), rest, TRUE, FALSE, ps)
        ELSE Miss(rest = <<Slash>> /\ Has(t), ps)

StaticStep(t, p, ps, ci) ==
    CASE Len(p) > Len(t.path) ->
           IF prefixMatch(Upto(p, Len(t.path)), t.path, ci)
           THEN Hop(t, From(p, Len(t.path) + 1), ps, ci) ELSE Miss(FALSE, ps)
      [] prefixMatch(p, t.path, ci) ->
           IF Has(t) THEN Stop(t.handler, t.pattern, FALSE, ps)
           ELSE Miss(TsrBelow(t, p), ps)
      [] OTHER -> Miss(TsrInside(t, p, ci), ps)

SegmentEnd(p) ==
    IF \E k \in 1..Len(p) : p[k] = Slash
    THEN (CHOOSE k \in 1..Len(p) : p[k] = Slash /\ \A j \in 1..(k-1) : p[j] # Slash) - 1
    ELSE Len(p)

\* Mutant: the hint is given for the toggled path of a literal only.
TsrLiteralsOnly(t) == FALSE

\* The path ends with the value of parameter t, which has no handler.
TsrAfterParam(t) ==
    Len(t.children) = 1 /\ t.children[1].path = <<Slash>> /\ Has(t.children[1])

\* A catch-all captures all that is left, the leading '/' included.
WildStep(t, p, ps) ==
    LET end == SegmentEnd(p)
        caught == addParam(ps, t.path, Upto(p, end))
    IN  CASE t.nType = "wildcard" ->
               Stop(t.handler, t.pattern, FALSE, addParam(ps, <<t.path[2]>>, p))
          [] p[1] = Slash -> Miss(FALSE, ps)
          [] t.nType = "regexParam" /\ ~ Accepts(t.path[1], Upto(p, end)) -> Miss(FALSE, ps)
          [] end = Len(p) ->
               IF Has(t) THEN Stop(t.handler, t.pattern, FALSE, caught)
               ELSE Miss(TsrAfterParam(t), caught)
          [] t.children # <<>> ->
               Go(t.children[1], From(p, end + 1), FALSE, FALSE, caught)
          [] OTHER -> Miss(Len(p) = end + 1, caught)

Step(t, p, via, ps, ci) == IF via THEN WildStep(t, p, ps) ELSE StaticStep(t, p, ps, ci)

-----------------------------------------------------------------------------
\* getValueBacktrack: a stack of the forks not yet retried; entered counts the
\* nodes it enters.
RECURSIVE Backtrack(_, _, _, _, _, _, _, _)
Backtrack(t, p, via, ps, frames, sawTSR, entered, ci) ==
    LET s == Step(t, p, via, ps, ci)
        frame == [parent |-> t, path |-> s.p, count |-> ps.count,
                  overflowLen |-> Len(ps.overflow)]
        f == Last(frames)
        saw == sawTSR \/ s.tsr
    IN  IF s.go
        THEN Backtrack(s.t, s.p, s.via, s.ps,
                       IF s.fork THEN Append(frames, frame) ELSE frames,
                       sawTSR, entered + 1, ci)
        ELSE IF s.handler # NoHandler
        THEN [handler |-> s.handler, pattern |-> s.pattern, tsr |-> FALSE,
              params |-> params(s.ps), entered |-> entered]
        ELSE IF frames = <<>>
        THEN [handler |-> NoHandler, pattern |-> <<>>, tsr |-> saw,
              params |-> <<>>, entered |-> entered]
        ELSE Backtrack(Wild(f.parent), f.path, TRUE,
                       rewindParams(s.ps, f.count, f.overflowLen),
                       Front(frames), saw, entered + 1, ci)

getValueBacktrack(t, p, ps, ci) == Backtrack(t, p, FALSE, ps, <<>>, FALSE, 1, ci)

\* getValue: one optimistic walk that never retries; if it misses after a fork,
\* the walk is redone from the root with backtracking and the params emptied.
RECURSIVE Optimistic(_, _, _, _, _, _)
Optimistic(t, p, via, ps, couldBacktrack, ci) ==
    LET s == Step(t, p, via, ps, ci)
    IN  IF s.go THEN Optimistic(s.t, s.p, s.via, s.ps, couldBacktrack \/ s.fork, ci)
        ELSE [last |-> s, couldBacktrack |-> couldBacktrack]

getValue(t, p, ci) ==
    LET o == Optimistic(t, p, FALSE, NoParams, FALSE, ci)
        s == o.last
    IN  IF s.handler # NoHandler \/ ~ o.couldBacktrack
        THEN [handler |-> s.handler, pattern |-> s.pattern, tsr |-> s.tsr,
              params |-> IF s.handler = NoHandler THEN <<>> ELSE params(s.ps),
              entered |-> 0]
        ELSE getValueBacktrack(t, p, rewindParams(s.ps, 0, 0), ci)

\* getValueStatic, for a tree without wildcards.
RECURSIVE getValueStatic(_, _, _)
getValueStatic(t, p, ci) ==
    LET rest == From(p, Len(t.path) + 1)
        js == StaticChild(t, rest[1], ci)
        slashes == StaticChild(t, Slash, FALSE)
        kid == t.children[Least(slashes)]
        found(h, pat, tsr) == [handler |-> h, pattern |-> pat, tsr |-> tsr,
                               params |-> <<>>, entered |-> 0]
        miss(tsr) == found(NoHandler, <<>>, tsr)
    IN  CASE Len(p) > Len(t.path) ->
               IF ~ prefixMatch(Upto(p, Len(t.path)), t.path, ci) THEN miss(FALSE)
               ELSE IF js # {} THEN getValueStatic(t.children[Least(js)], rest, ci)
               ELSE miss(rest = <<Slash>> /\ Has(t))
          [] prefixMatch(p, t.path, ci) ->
               IF Has(t) THEN found(t.handler, t.pattern, FALSE)
               ELSE IF slashes # {} THEN miss(kid.path = <<Slash>> /\ Has(kid))
               ELSE miss(p = <<Slash>>)
          [] OTHER -> miss(TsrInside(t, p, ci))

\* dispatch's choice between the two on the method's tree.
Lookup(t, p, ci) == IF t.maxParams = 0 THEN getValueStatic(t, p, ci) ELSE getValue(t, p, ci)
=============================================================================
